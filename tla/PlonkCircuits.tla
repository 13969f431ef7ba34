----------------------------- MODULE PlonkCircuits -----------------------------
(***************************************************************************)
(* What the PLONK circuits of src/src/circuit/plonk prove.  A circuit is   *)
(* two operators on a witness: whether the witness satisfies it, and the   *)
(* public inputs it then proves, in the order the circuit allocates them.  *)
(* A prover that fails a check made before the synthesis has no proof      *)
(* either, so the two kinds of condition are one conjunction here.         *)
(***************************************************************************)
EXTENDS Poseidon, FiniteSets

K_MAX == 2          \* signer slots of both quorum circuits

\* A path of the tree's depth and a leaf index within it.
ValidPath(path, index, depth) == Len(path) = depth /\ index < 2^depth

\* Knowledge of the key of a leaf under root.
Opens(key, path, index, root) == Climb(HashOne(key), path, index) = root

\* One member signs.
OneSigns(w) ==
    /\ ValidPath(w.path, w.index, w.depth)
    /\ Opens(w.key, w.path, w.index, w.root)

\* (commitment, epoch)
MembershipHolds(w)  == OneSigns(w)
MembershipInputs(w) == <<Commitment(w.root, w.epoch, w.salt), Num(w.epoch)>>

\* (c_old, epoch_old, c_new)
UpdateHolds(w)  == OneSigns(w)
UpdateInputs(w) ==
    <<Commitment(w.root, w.epoch, w.salt), Num(w.epoch),
      Commitment(w.rootNew, w.epoch + 1, w.saltNew)>>

\* The hash of an all-zero subtree with 2^level leaves.
ZeroSubtree(level) ==
    LET z[i \in 0..level] == IF i = 0 THEN Zero ELSE HashTwo(z[i - 1], z[i - 1])
    IN  z[level]

\* (commitment, 0): two members at the left of an otherwise empty tree.
OneOnOneCreateInputs(w) ==
    LET root[i \in 1..w.depth] ==
            IF i = 1 THEN HashTwo(HashOne(w.key0), HashOne(w.key1))
                     ELSE HashTwo(root[i - 1], ZeroSubtree(i - 1))
    IN  <<Commitment(root[w.depth], 0, w.salt), Zero>>

-------------------------------------------------------------------------------
(* Tyranny: one administrator, whose key is committed to together with the *)
(* group it administers, and who is a member of the tree.                  *)

AdminBinding(key, group) == HashTwo(HashOne(key), group)

\* (commitment, 0, admin_pubkey_commitment, group_id)
TyrannyCreateHolds(w)  == OneSigns(w)
TyrannyCreateInputs(w) ==
    <<Commitment(w.root, 0, w.salt), Zero, AdminBinding(w.key, w.group), w.group>>

\* (c_old, epoch_old, c_new, admin_pubkey_commitment, group_id)
TyrannyUpdateHolds(w)  == OneSigns(w)
TyrannyUpdateInputs(w) ==
    <<Commitment(w.root, w.epoch, w.salt), Num(w.epoch),
      Commitment(w.rootNew, w.epoch + 1, w.saltNew),
      AdminBinding(w.key, w.group), w.group>>

-------------------------------------------------------------------------------
(* Quorums: K_MAX slots, an active prefix of which opens distinct leaves.  *)

ActiveSlots(signers) == {i \in DOMAIN signers : signers[i].active}

ActivePrefix(signers) ==
    \A i \in ActiveSlots(signers) : i > 1 => i - 1 \in ActiveSlots(signers)

ActiveOpen(signers, root) ==
    \A i \in ActiveSlots(signers) :
        Opens(signers[i].key, signers[i].path, signers[i].index, root)

\* A defect: the pairwise comparison of the active slots' leaves dropped.
RepeatedLeaves(signers) == TRUE

DistinctLeaves(signers) ==
    \A i, j \in ActiveSlots(signers) : signers[i].index = signers[j].index => i = j

\* The threshold and what K exceeds it by both fit in two bits.
ThresholdMet(signers, threshold) ==
    /\ threshold \in 0..3
    /\ \E slack \in 0..3 : threshold + slack = Cardinality(ActiveSlots(signers))

Quorum(signers, root, threshold, depth) ==
    /\ Len(signers) = K_MAX
    /\ \A i \in DOMAIN signers : ValidPath(signers[i].path, signers[i].index, depth)
    /\ ActivePrefix(signers)
    /\ ActiveOpen(signers, root)
    /\ DistinctLeaves(signers)
    /\ ThresholdMet(signers, threshold)

Occupancy(count, salt) == HashTwo(Num(count), salt)

CountStep(count, countNew) ==
    countNew = count \/ countNew = count + 1 \/ countNew + 1 = count

-------------------------------------------------------------------------------
(* Democracy: the third level of the commitment binds the member count.    *)

DemocracyCommitment(root, epoch, salt, occupancy) ==
    HashTwo(Commitment(root, epoch, salt), occupancy)

\* (c_old, epoch_old, c_new, occ_old, occ_new, threshold)
DemocracyUpdateQuorumHolds(w) ==
    /\ Quorum(w.signers, w.root, w.threshold, w.depth)
    /\ CountStep(w.count, w.countNew)

DemocracyUpdateQuorumInputs(w) ==
    LET occ    == Occupancy(w.count, w.saltOc)
        occNew == Occupancy(w.countNew, w.saltOcNew)
    IN  <<DemocracyCommitment(w.root, w.epoch, w.salt, occ), Num(w.epoch),
          DemocracyCommitment(w.rootNew, w.epoch + 1, w.saltNew, occNew),
          occ, occNew, Num(w.threshold)>>

\* The circuit of the deepest tier: one member signs, and the occupancy
\* commitments and the threshold are free.
DemocracyUpdateHolds(w)  == OneSigns(w)
DemocracyUpdateInputs(w) ==
    <<DemocracyCommitment(w.root, w.epoch, w.salt, w.occ), Num(w.epoch),
      DemocracyCommitment(w.rootNew, w.epoch + 1, w.saltNew, w.occNew),
      w.occ, w.occNew, Num(w.threshold)>>

-------------------------------------------------------------------------------
(* Oligarchy: the third level also binds the root of the admins' tree.     *)

OligarchyCommitment(root, epoch, salt, occupancy, adminRoot) ==
    HashTwo(Commitment(root, epoch, salt), HashTwo(occupancy, adminRoot))

\* (commitment, 0, occupancy, member_root, admin_root, salt): all public.
OligarchyCreateInputs(w) ==
    <<OligarchyCommitment(w.root, 0, w.salt, w.occ, w.adminRoot), Zero,
      w.occ, w.root, w.adminRoot, w.salt>>

\* (c_old, epoch_old, c_new, occ_old, occ_new, admin_threshold)
OligarchyUpdateQuorumHolds(w) ==
    /\ Quorum(w.signers, w.adminRoot, w.threshold, w.depth)
    /\ CountStep(w.count, w.countNew)

OligarchyUpdateQuorumInputs(w) ==
    LET occ    == Occupancy(w.count, w.saltOc)
        occNew == Occupancy(w.countNew, w.saltOcNew)
    IN  <<OligarchyCommitment(w.root, w.epoch, w.salt, occ, w.adminRoot), Num(w.epoch),
          OligarchyCommitment(w.rootNew, w.epoch + 1, w.saltNew, occNew, w.adminRootNew),
          occ, occNew, Num(w.threshold)>>

\* (commitment, epoch)
OligarchyMembershipHolds(w)  == OneSigns(w)
OligarchyMembershipInputs(w) ==
    <<OligarchyCommitment(w.root, w.epoch, w.salt, w.occ, w.adminRoot), Num(w.epoch)>>
===============================================================================
