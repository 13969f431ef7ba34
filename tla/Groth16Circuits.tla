---------------------------- MODULE Groth16Circuits ----------------------------
(***************************************************************************)
(* What the Groth16 circuits of src/src/circuit prove, and the provers of  *)
(* src/src/prover and src/src/merkle that build their witnesses.  As in    *)
(* PlonkCircuits, a circuit is two operators on a witness: whether the     *)
(* witness satisfies it and the public inputs it proves.                   *)
(***************************************************************************)
EXTENDS Poseidon, Integers, FiniteSets, TLC

\* A circuit of `depth` reads that many siblings of a path and that many bits
\* of an index, and no more.
Opens(leaf, path, index, root, depth) ==
    /\ Len(path) >= depth
    /\ Climb(leaf, SubSeq(path, 1, depth), index % 2^depth) = root

\* (commitment, epoch)
MembershipHolds(w)  == Opens(HashOne(w.key), w.path, w.index, w.root, w.depth)
MembershipInputs(w) == <<Commitment(w.root, w.epoch, w.salt), Num(w.epoch)>>

\* (c_old, epoch_old, c_new)
UpdateHolds(w) == Opens(HashOne(w.key), w.path, w.index, w.root, w.depth)

UpdateInputs(w) ==
    <<Commitment(w.root, w.epoch, w.salt), Num(w.epoch),
      Commitment(w.rootNew, w.epoch + 1, w.saltNew)>>

-------------------------------------------------------------------------------
(* Democracy.  A difference below zero is a field element too large for    *)
(* any range check.                                                        *)

FitsInBits(value, bits) == value \in 0 .. 2^bits - 1

Active(slots) == {i \in DOMAIN slots : slots[i].active}

\* Active slots come first and open leaves of the old tree.
SlotsOpen(slots, root, depth) ==
    \A i \in Active(slots) :
        /\ i > 1 => i - 1 \in Active(slots)
        /\ Opens(HashOne(slots[i].key), slots[i].path, slots[i].index, root, depth)

Ascending(slots, depth) ==
    \A i \in Active(slots) \ {1} :
        FitsInBits(slots[i].index - slots[i - 1].index - 1, depth)

\* Half of the members sign, and somebody does.
QuorumMet(slots, count, depth) ==
    /\ slots[1].active
    /\ FitsInBits(2 * Cardinality(Active(slots)) - count, depth + 1)

\* One leaf of the tree changes, and the flags tie the count to it.
LeafChange(delta, root, rootNew, depth) ==
    /\ Opens(delta.old, delta.path, delta.position, root, depth)
    /\ Opens(delta.new, delta.path, delta.position, rootNew, depth)

CountFollows(delta, count, countNew) ==
    /\ ~(delta.insert /\ delta.remove)
    /\ delta.insert => delta.old = Zero /\ countNew = count + 1
    /\ delta.remove => delta.new = Zero /\ countNew = count - 1
    /\ ~delta.insert /\ ~delta.remove => countNew = count

\* (c_old, epoch_old, c_new, member_count_old, member_count_new)
DemocracyUpdateHolds(w) ==
    /\ FitsInBits(w.count, w.depth) /\ FitsInBits(w.countNew, w.depth)
    /\ SlotsOpen(w.slots, w.root, w.depth)
    /\ Ascending(w.slots, w.depth)
    /\ QuorumMet(w.slots, w.count, w.depth)
    /\ w.countNew - w.count \in -1..1
    /\ LeafChange(w.delta, w.root, w.rootNew, w.depth)
    /\ CountFollows(w.delta, w.count, w.countNew)

DemocracyUpdateInputs(w) ==
    <<Commitment(w.root, w.epoch, w.salt), Num(w.epoch),
      Commitment(w.rootNew, w.epoch + 1, w.saltNew), Num(w.count), Num(w.countNew)>>

-------------------------------------------------------------------------------
(* The provers.  A member is a key; its public key orders it and its leaf  *)
(* is the hash of its secret.  A roster is a sequence of members, in       *)
(* whatever order a client holds them.                                     *)

\* A defect: the roster is taken as it comes.
AsGiven(roster) == roster

CanonicalOrder(roster) == SortSeq(roster, LAMBDA a, b : a < b)

RepeatsKey(roster) == \E i, j \in DOMAIN roster : i # j /\ roster[i] = roster[j]

Buildable(roster, depth) == ~RepeatsKey(roster) /\ Len(roster) <= 2^depth

LeavesOf(roster) ==
    LET ordered == CanonicalOrder(roster) IN [i \in DOMAIN ordered |-> Leaf(ordered[i])]

IndexOf(roster, member) ==
    LET ordered == CanonicalOrder(roster)
    IN  (CHOOSE i \in DOMAIN ordered : ordered[i] = member) - 1

OnRoster(roster, member) == \E i \in DOMAIN roster : roster[i] = member

\* prove: the witness of a member of a roster.
ProveWitness(roster, member, epoch, salt, depth) ==
    [key |-> Secret(member), root |-> Root(LeavesOf(roster), depth), depth |-> depth,
     path |-> MerklePath(LeavesOf(roster), depth, IndexOf(roster, member)),
     index |-> IndexOf(roster, member), epoch |-> epoch, salt |-> salt]

Proves(roster, member, depth) == Buildable(roster, depth) /\ OnRoster(roster, member)

\* prove_update: the same, and the roster that follows.
ProveUpdateWitness(roster, new, member, epoch, salt, saltNew, depth) ==
    ProveWitness(roster, member, epoch, salt, depth)
        @@ [rootNew |-> Root(LeavesOf(new), depth), saltNew |-> saltNew]

ProvesUpdate(roster, new, member, depth) ==
    Proves(roster, member, depth) /\ Buildable(new, depth)
===============================================================================
