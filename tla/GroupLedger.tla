------------------------------ MODULE GroupLedger ------------------------------
(***************************************************************************)
(* What a registry contract promises about each group: it is founded at    *)
(* epoch 0, its epochs follow one another without a gap or a fork, a       *)
(* retired group never changes again, and a group disappears only when its *)
(* storage runs out.                                                       *)
(***************************************************************************)
EXTENDS Naturals

CONSTANTS Ids, Commitments, MaxEpoch, Absent

VARIABLE groups     \* per id: Absent, or its current entry

Live == [commitment : Commitments, epoch : 0..MaxEpoch, active : BOOLEAN]

LedgerInit == groups \in [Ids -> Live \cup {Absent}]

Becomes(id, entry) == groups' = [groups EXCEPT ![id] = entry]

Found(id, c) ==
    /\ groups[id] = Absent
    /\ Becomes(id, [commitment |-> c, epoch |-> 0, active |-> TRUE])

Advance(id, c) ==
    /\ groups[id] # Absent /\ groups[id].active
    /\ Becomes(id, [groups[id] EXCEPT !.commitment = c, !.epoch = @ + 1])

Retire(id) ==
    /\ groups[id] # Absent /\ groups[id].active
    /\ Becomes(id, [groups[id] EXCEPT !.active = FALSE])

Expire(ids) == groups' = [id \in Ids |-> IF id \in ids THEN Absent ELSE groups[id]]

LedgerNext ==
    \/ \E id \in Ids : Retire(id) \/ \E c \in Commitments : Found(id, c) \/ Advance(id, c)
    \/ \E ids \in SUBSET Ids : Expire(ids)

LedgerSpec == LedgerInit /\ [][LedgerNext]_groups
===============================================================================
