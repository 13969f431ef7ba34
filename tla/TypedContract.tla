----------------------------- MODULE TypedContract -----------------------------
(***************************************************************************)
(* What the five per-type registry contracts (contracts/sep-anarchy,       *)
(* -democracy, -oligarchy, -tyranny, -oneonone) have in common: their      *)
(* storage keys, the nullifiers, the archive and the renewal.  Each is a   *)
(* crate with its own copy of these helpers; the source ranges are those   *)
(* of sep-anarchy.                                                         *)
(*                                                                         *)
(* A proof is a record of the verification key it was made for, the public *)
(* inputs it proves and which of several proofs of them it is.  Public     *)
(* inputs are field elements: an encoding that is not canonical is turned  *)
(* away by every entry point.                                              *)
(***************************************************************************)
EXTENDS Naturals, Sequences, SorobanStorage

CONSTANTS
    Ids,            \* group ids
    GroupFr,        \* [Ids -> field elements]: a group id taken modulo r
    Tiers,          \* tiers in use, of 0..2
    MaxGroups,      \* MAX_GROUPS_PER_TIER, MAX_GROUPS
    Window,         \* HISTORY_WINDOW
    Threshold,      \* LEDGER_THRESHOLD
    Bump,           \* LEDGER_BUMP
    MaxEpoch        \* bound: epochs of a group

ASSUME TypedAssumption ==
    /\ Tiers \subseteq 0..2
    /\ MaxGroups \in Nat /\ Window \in Nat \ {0} /\ MaxEpoch \in Nat
    /\ Threshold \in Nat /\ Bump \in Nat /\ MinTtl < Threshold /\ Threshold < Bump

VARIABLES
    store,      \* persistent storage
    count,      \* GroupCount by tier, in instance storage
    restricted  \* RestrictedMode, in instance storage

typedVars == <<store, count, restricted>>

Group(id)           == <<"Group", id>>
History(id)         == <<"History", id>>
AdminCommitment(id) == <<"AdminCommitment", id>>
UsedProof(proof)    == <<"UsedProof", proof>>

Exists(id) == Has(store, Group(id))
Stored(id) == store[Group(id)].v

Unused(proof) == ~Has(store, UsedProof(proof))

MayCreate(isAdmin) == restricted => isAdmin

BelowLimit(t) == count[t] < MaxGroups

Renew(s, keys) == ExtendIn(s, keys, Threshold, Bump)

Spend(s, proof) == Renew(Set(s, UsedProof(proof), TRUE), {UsedProof(proof)})

\* A defect: the newest entry goes when the window is full.
ArchiveOldest(s, id, entry) ==
    LET h == Append(Get(s, History(id), << >>), entry)
    IN  Set(s, History(id), IF Len(h) > Window THEN SubSeq(h, 1, Window) ELSE h)

Archive(s, id, entry) ==
    LET h == Append(Get(s, History(id), << >>), entry)
    IN  Set(s, History(id),
            IF Len(h) > Window THEN SubSeq(h, Len(h) - Window + 1, Len(h)) ELSE h)

\* A founded group and its empty history.
Founded(s, id, entry) == Set(Set(s, Group(id), entry), History(id), << >>)

\* The end of an update: the proof spent, the old entry archived, the new one
\* in its place.
Replaced(s, id, proof, entry) ==
    Set(Archive(Spend(s, proof), id, s[Group(id)].v), Group(id), entry)

Counted(t) == count' = [count EXCEPT ![t] = @ + 1]

SetRestrictedMode ==
    /\ restricted' \in BOOLEAN
    /\ UNCHANGED <<store, count>>

\* A ledger closes: everything in persistent storage has one ledger less.
CloseLedger ==
    /\ store' = Age(store)
    /\ UNCHANGED <<count, restricted>>
===============================================================================
