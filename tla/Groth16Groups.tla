----------------------------- MODULE Groth16Groups -----------------------------
(***************************************************************************)
(* One group of the Groth16 registry with the circuits whose proofs it     *)
(* accepts: an anarchy, which any member advances with prove_update, or a  *)
(* democracy, where half of the counted members sign and the proof ties    *)
(* the public count to the change of one hidden leaf.  SepRegistry has the *)
(* storage, the nullifiers and the other group types, with proofs taken as *)
(* given; here the proofs are those that a witness gives.                  *)
(*                                                                         *)
(* leaves, before and signers are history variables: the leaves under the  *)
(* commitment (a key, or 0), those before the last change, and the leaf    *)
(* positions that the last proof was signed with.                          *)
(***************************************************************************)
EXTENDS Groth16Circuits

CONSTANTS
    Depth,      \* depth of the tier's tree
    KMax,       \* k_max: signer slots of the democracy circuit
    Keys,       \* people, by the order of their public keys
    MaxEpoch    \* bound: epochs of the group

ASSUME GroupsAssumption ==
    /\ Depth \in Nat \ {0} /\ KMax \in Nat \ {0}
    /\ Keys \subseteq Nat \ {0} /\ MaxEpoch \in Nat

VARIABLES kind, commitment, epoch, members, leaves, before, signers

groupsVars == <<kind, commitment, epoch, members, leaves, before, signers>>

LeafPositions == 0 .. 2^Depth - 1

\* One salt does: a salt hides, and no check depends on it.
salt == Salt(1)

LeafTerm(k) == IF k = 0 THEN Zero ELSE Leaf(k)

Terms(ls) == [i \in 1 .. 2^Depth |-> LeafTerm(ls[i - 1])]

\* Rosters of different people, in any order, that leave room in the tree.
Rosters ==
    {r \in UNION {[1..n -> Keys] : n \in 1 .. Cardinality(Keys)} : ~RepeatsKey(r)}

CanonicalTree(roster) ==
    [p \in LeafPositions |-> IF p < Len(roster) THEN CanonicalOrder(roster)[p + 1] ELSE 0]

GroupsInit ==
    /\ kind \in {"anarchy", "democracy"}
    /\ \E roster \in Rosters, member \in Keys :
         /\ Proves(roster, member, Depth)
         /\ LET w == ProveWitness(roster, member, 0, salt, Depth) IN
            /\ MembershipHolds(w)
            /\ commitment = MembershipInputs(w)[1]
            /\ signers = {IndexOf(roster, member)}
         /\ kind = "democracy" => Len(roster) >= 2
         /\ leaves = CanonicalTree(roster) /\ before = leaves
         /\ members = Len(roster)
    /\ epoch = 0

\* What update_commitment compares with its stored entry, and what it stores.
Accept(inputs) ==
    /\ inputs[1] = commitment /\ inputs[2] = Num(epoch)
    /\ commitment' = inputs[3]
    /\ epoch' = epoch + 1
    /\ before' = leaves

\* A client with some roster, of now or of before, asks for the next one.
AnarchyUpdate ==
    /\ kind = "anarchy" /\ epoch < MaxEpoch
    /\ \E old, new \in Rosters, member \in Keys, e \in {epoch, epoch - 1} \cap Nat :
         /\ CanonicalTree(old) \in {leaves, before}
         /\ ProvesUpdate(old, new, member, Depth)
         /\ LET w == ProveUpdateWitness(old, new, member, e, salt, salt, Depth) IN
            /\ UpdateHolds(w)
            /\ Accept(UpdateInputs(w))
            /\ signers' = {IndexOf(old, member)}
         /\ leaves' = CanonicalTree(new)
    /\ UNCHANGED <<kind, members>>

SignerSlots(tree, claims) ==
    [i \in 1..KMax |->
        IF i \in DOMAIN claims
        THEN [key |-> Secret(claims[i][1]), index |-> claims[i][2], active |-> TRUE,
              path |-> MerklePath(tree, Depth, claims[i][2])]
        ELSE [key |-> Zero, index |-> 0, active |-> FALSE, path |-> [l \in 1..Depth |-> Zero]]]

Claims == UNION {[1..n -> Keys \X LeafPositions] : n \in 1..KMax}

\* Trees that differ in one leaf or in two.
NextTrees(position, k) ==
    {[leaves EXCEPT ![q] = l, ![position] = k] : q \in LeafPositions, l \in Keys \cup {0}}

\* Whoever can fill the witness: any signers, any tree that follows, either
\* flag, any count that the contract admits.
DemocracyUpdate ==
    /\ kind = "democracy" /\ epoch < MaxEpoch
    /\ \E claims \in Claims :
       LET tree == Terms(leaves)
           root == Root(tree, Depth)
           slots == SignerSlots(tree, claims) IN
       /\ SlotsOpen(slots, root, Depth) /\ Ascending(slots, Depth)
       /\ QuorumMet(slots, members, Depth)
       /\ \E position \in LeafPositions, k \in Keys \cup {0}, insert, remove \in BOOLEAN :
          \E countNew \in {members - 1, members, members + 1} \cap (2 .. 2^Depth) :
            LET delta == [position |-> position, path |-> MerklePath(tree, Depth, position),
                          old |-> LeafTerm(leaves[position]), new |-> LeafTerm(k),
                          insert |-> insert, remove |-> remove] IN
            /\ CountFollows(delta, members, countNew)
            /\ \E new \in NextTrees(position, k) :
                 LET w == [slots |-> slots, root |-> root, rootNew |-> Root(Terms(new), Depth),
                           depth |-> Depth, epoch |-> epoch, salt |-> salt, saltNew |-> salt,
                           count |-> members, countNew |-> countNew, delta |-> delta] IN
                 /\ DemocracyUpdateHolds(w)
                 /\ Accept(DemocracyUpdateInputs(w))
                 /\ members' = countNew
                 /\ leaves' = new
                 /\ signers' = {claims[i][2] : i \in DOMAIN claims}
    /\ UNCHANGED kind

GroupsNext == AnarchyUpdate \/ DemocracyUpdate

GroupsSpec == GroupsInit /\ [][GroupsNext]_groupsVars

-------------------------------------------------------------------------------
(* Properties *)

\* Every variable is of its type, and the commitment is the one of the leaves.
GroupsTypeOK ==
    /\ kind \in {"anarchy", "democracy"}
    /\ epoch \in 0..MaxEpoch
    /\ members \in 0 .. 2^Depth
    /\ leaves \in [LeafPositions -> Keys \cup {0}] /\ before \in [LeafPositions -> Keys \cup {0}]
    /\ signers \subseteq LeafPositions
    /\ commitment = Commitment(Root(Terms(leaves), Depth), epoch, salt)

People == {leaves[p] : p \in LeafPositions} \ {0}

\* Whatever order a client holds the roster of an anarchy in, each of its
\* members makes the proof of membership that the stored commitment and epoch
\* ask for: clients that agree on who the members are agree on the tree.
MembersProveInAnyOrder ==
    kind = "anarchy" =>
        \A roster \in {r \in Rosters : {r[i] : i \in DOMAIN r} = People} :
            \A member \in People :
                LET w == ProveWitness(roster, member, epoch, salt, Depth)
                IN  /\ Proves(roster, member, Depth)
                    /\ MembershipHolds(w)
                    /\ MembershipInputs(w) = <<commitment, Num(epoch)>>

===============================================================================
