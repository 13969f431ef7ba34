------------------------------ MODULE SepRegistry ------------------------------
(***************************************************************************)
(* The main group registry contract, contracts/sep-xxxx/src/lib.rs: groups *)
(* of four governance types with their epochs and commitments, the rolling *)
(* history, the proof nullifiers, the per-tier group counts with their     *)
(* reconciliation receipts, the oligarchy admin sets, and the time to live *)
(* of everything the contract keeps in persistent storage, including the   *)
(* entries of the format before `GroupV2`.                                 *)
(*                                                                         *)
(* A contract call is atomic, so every entry point is one action.  Calls   *)
(* that fail change nothing and are not modelled.  A proof is identified   *)
(* by the statement it proves and by which of several proofs of that       *)
(* statement it is: the verifier accepts a proof for exactly its own       *)
(* statement.                                                              *)
(***************************************************************************)
EXTENDS Naturals, Sequences, FiniteSets, SorobanStorage

CONSTANTS
    Ids,            \* group ids
    Commitments,    \* canonically encoded commitments, of members and of admins
    Nonces,         \* which proof of a statement
    Tiers,          \* tiers in use, of 0..2
    Capacity,       \* tier_capacity
    MemberCounts,   \* member counts a caller declares
    MaxGroups,      \* MAX_GROUPS_PER_TIER
    Window,         \* HISTORY_WINDOW
    Threshold,      \* LEDGER_THRESHOLD
    Bump,           \* LEDGER_BUMP
    MaxEpoch,       \* bound: epochs of groups and of admin sets
    Absent          \* in GroupLedger: no such group

ASSUME RegistryAssumption ==
    /\ IsFiniteSet(Ids)     \* ids are 32 bytes
    /\ Tiers \subseteq 0..2
    /\ Capacity \in [Tiers -> Nat] /\ MemberCounts \subseteq Nat
    /\ MaxGroups \in Nat /\ Window \in Nat \ {0} /\ MaxEpoch \in Nat
    /\ Threshold \in Nat /\ Bump \in Nat

\* The network starts an entry with less than the contract asks for, as the
\* contract's tests do.
ASSUME ShortMinTtl == MinTtl < Threshold /\ Threshold < Bump

VARIABLES
    store,      \* persistent storage
    count,      \* GroupCount, in instance storage
    restricted  \* RestrictedMode, in instance storage

vars == <<store, count, restricted>>

CountedBump      == 2 * Bump            \* GROUP_COUNTED_LEDGER_BUMP
CountedThreshold == Bump + Threshold    \* GROUP_COUNTED_LEDGER_THRESHOLD

-------------------------------------------------------------------------------
(* Keys and values *)

GroupV2(id)      == <<"GroupV2", id>>
HistoryV2(id)    == <<"HistoryV2", id>>
Group(id)        == <<"Group", id>>
History(id)      == <<"History", id>>
AdminSet(id)     == <<"AdminSet", id>>
AdminEpoch(id)   == <<"AdminEpoch", id>>
GroupCounted(id) == <<"GroupCounted", id>>
UsedProof(proof) == <<"UsedProof", proof>>

Anarchy   == 0
OneOnOne  == 1
Democracy == 2
Oligarchy == 3

Entry == [commitment : Commitments, epoch : 0..MaxEpoch, tier : Tiers, active : BOOLEAN,
          gtype : 0..3, members : Nat]

\* History keeps the format before GroupV2, without type and member count.
Archived(g) == [commitment |-> g.commitment, epoch |-> g.epoch, active |-> g.active]

\* What a proof of each circuit proves, with the tier whose key it verifies under.
Membership(t, c, e)         == <<"membership", t, c, e>>
Update(t, c, e, cNew)       == <<"update", t, c, e, cNew>>
AdminUpdate(c, e, cNew)     == <<"adminUpdate", c, e, cNew>>
DemocracyUpdate(t, c, e, cNew, m, mNew) == <<"democracyUpdate", t, c, e, cNew, m, mNew>>

Proof(statement, n) == [proves |-> statement, nonce |-> n]

-------------------------------------------------------------------------------
(* Internal helpers of the contract *)

GroupExists(s, id) == Has(s, GroupV2(id)) \/ Has(s, Group(id))

\* load_group_v2: a legacy record is an anarchy whose members are not counted.
Load(s, id) == IF Has(s, GroupV2(id)) THEN s[GroupV2(id)].v ELSE s[Group(id)].v

\* check_proof_replay: proof bytes are spent once for the whole contract.
Unused(proof) == ~Has(store, UsedProof(proof))

RecordProof(s, proof) ==
    ExtendIn(Set(s, UsedProof(proof), TRUE), {UsedProof(proof)}, Threshold, Bump)

GroupKeys(id) ==
    {GroupV2(id), HistoryV2(id), Group(id), History(id), AdminSet(id), AdminEpoch(id)}

BumpGroup(s, id) ==
    ExtendIn(ExtendIn(s, GroupKeys(id), Threshold, Bump),
             {GroupCounted(id)}, CountedThreshold, CountedBump)

\* The last n elements of a sequence.
LastOf(seq, n) ==
    IF Len(seq) <= n THEN seq ELSE SubSeq(seq, Len(seq) - n + 1, Len(seq))

\* A defect: the fallback to the legacy key forgotten.
StoredHistoryV2Only(s, id) == Get(s, HistoryV2(id), << >>)

StoredHistory(s, id) == Get(s, HistoryV2(id), Get(s, History(id), << >>))

ArchiveEntry(s, id, g) ==
    RemoveEntry(Set(s, HistoryV2(id), LastOf(Append(StoredHistory(s, id), Archived(g)), Window)),
           History(id))

\* write_group_v2: the first write migrates a legacy group and its history.
WriteGroupV2(s, id, g) ==
    LET written == RemoveEntry(Set(s, GroupV2(id), g), Group(id))
    IN  IF Has(s, HistoryV2(id)) THEN written
        ELSE RemoveEntry(Set(written, HistoryV2(id), Get(s, History(id), << >>)), History(id))

-------------------------------------------------------------------------------
(* Groups a deployment can already hold: none, or groups of the format     *)
(* before GroupV2, which are counted but have no receipt.                  *)

\* A legacy group at epoch e whose commitment has always been c.
LegacyEntry(t, c, e) == [commitment |-> c, epoch |-> e, tier |-> t, active |-> TRUE,
                         gtype |-> Anarchy, members |-> 0]

LegacyHistory(t, c, e) ==
    LastOf([i \in 1..e |-> Archived(LegacyEntry(t, c, i - 1))], Window)

Init ==
    \E legacy \in SUBSET Ids, t \in Tiers, c \in Commitments, e \in 0..MaxEpoch, left \in 1..Bump :
        /\ Cardinality(legacy) <= MaxGroups
        /\ store = [k \in {Group(id) : id \in legacy} \cup {History(id) : id \in legacy} |->
                      [ttl |-> left,
                       v |-> IF k[1] = "Group" THEN LegacyEntry(t, c, e)
                                               ELSE LegacyHistory(t, c, e)]]
        /\ count = [u \in Tiers |-> IF u = t THEN Cardinality(legacy) ELSE 0]
        /\ restricted = FALSE

-------------------------------------------------------------------------------
(* Entry points *)

SetRestrictedMode ==
    /\ restricted' \in BOOLEAN
    /\ UNCHANGED <<store, count>>

MayCreate(isAdmin) == restricted => isAdmin

\* The receipt and its time to live, and the count it stands for.
CountGroup(s, id, t) ==
    /\ store' = BumpGroup(ExtendIn(Set(s, GroupCounted(id), t), {GroupCounted(id)},
                                   CountedThreshold, CountedBump), id)
    /\ count' = [count EXCEPT ![t] = @ + 1]

\* What create_group_v2 and create_oligarchy_group write for the group itself.
NewGroup(s, id, c, t, gtype, m) ==
    Set(Set(s, GroupV2(id), [commitment |-> c, epoch |-> 0, tier |-> t, active |-> TRUE,
                             gtype |-> gtype, members |-> m]),
        HistoryV2(id), << >>)

TypeAllows(gtype, t, m) ==
    \/ gtype = Anarchy
    \/ gtype = OneOnOne /\ t = 0 /\ m = 2
    \/ gtype = Democracy /\ m <= Capacity[t]

BelowLimit(t) == count[t] < MaxGroups

CreateGroupV2(id, c, t, gtype, m, n, isAdmin) ==
    LET proof == Proof(Membership(t, c, 0), n) IN
    /\ MayCreate(isAdmin)
    /\ TypeAllows(gtype, t, m)
    /\ ~GroupExists(store, id)
    /\ BelowLimit(t)
    /\ Unused(proof)
    /\ CountGroup(NewGroup(RecordProof(store, proof), id, c, t, gtype, m), id, t)
    /\ UNCHANGED restricted

SeedAdmins(s, id, root) ==
    ExtendIn(Set(Set(s, AdminSet(id), root), AdminEpoch(id), 0),
             {AdminSet(id), AdminEpoch(id)}, Threshold, Bump)

CreateOligarchyGroup(id, c, t, m, root, n, isAdmin) ==
    LET proof == Proof(Membership(t, c, 0), n) IN
    /\ MayCreate(isAdmin)
    /\ m <= Capacity[t]
    /\ ~GroupExists(store, id)
    /\ BelowLimit(t)
    /\ Unused(proof)
    /\ CountGroup(SeedAdmins(NewGroup(RecordProof(store, proof), id, c, t, Oligarchy, m),
                             id, root), id, t)
    /\ UNCHANGED restricted

\* The common end of both updates: archive the current entry, write its
\* successor, renew the group.
Advance(id, proof, g, cNew, mNew) ==
    /\ g.epoch < MaxEpoch
    /\ Unused(proof)
    /\ store' = BumpGroup(WriteGroupV2(ArchiveEntry(RecordProof(store, proof), id, g), id,
                    [g EXCEPT !.commitment = cNew, !.epoch = @ + 1, !.members = mNew]), id)
    /\ UNCHANGED <<count, restricted>>

\* A defect: the check of `active` dropped.
AnyGroup(id) == GroupExists(store, id)

ActiveGroup(id) == GroupExists(store, id) /\ Load(store, id).active

\* A defect: only 1v1 groups turned away.
AllButOneOnOne(g) == g.gtype # OneOnOne

AnyMemberUpdates(g) == g.gtype = Anarchy

UpdateCommitment(id, cNew, n) ==
    LET g == Load(store, id) IN
    /\ ActiveGroup(id)
    /\ AnyMemberUpdates(g)
    /\ Advance(id, Proof(Update(g.tier, g.commitment, g.epoch, cNew), n), g, cNew, g.members)

UpdateCommitmentDemocracy(id, cNew, mNew, n) ==
    LET g == Load(store, id) IN
    /\ ActiveGroup(id)
    /\ g.gtype = Democracy
    /\ mNew \in {g.members, g.members + 1} \/ mNew + 1 = g.members
    /\ mNew >= 2 /\ mNew <= Capacity[g.tier]
    /\ LET proof == Proof(DemocracyUpdate(g.tier, g.commitment, g.epoch, cNew, g.members, mNew), n)
       IN  Advance(id, proof, g, cNew, mNew)

\* Renews the admin set and its epoch only.
UpdateAdminCommitment(id, rootNew, n) ==
    LET root  == store[AdminSet(id)].v
        epoch == Get(store, AdminEpoch(id), 0)
        proof == Proof(AdminUpdate(root, epoch, rootNew), n)
    IN
    /\ ActiveGroup(id)
    /\ Load(store, id).gtype = Oligarchy
    /\ Has(store, AdminSet(id))
    /\ epoch < MaxEpoch
    /\ Unused(proof)
    /\ store' = ExtendIn(Set(Set(RecordProof(store, proof), AdminSet(id), rootNew),
                             AdminEpoch(id), epoch + 1),
                         {AdminSet(id), AdminEpoch(id)}, Threshold, Bump)
    /\ UNCHANGED <<count, restricted>>

ConsumeMembershipProof(id, n) ==
    LET g == Load(store, id)
        proof == Proof(Membership(g.tier, g.commitment, g.epoch), n)
    IN
    /\ ActiveGroup(id)
    /\ Unused(proof)
    /\ store' = BumpGroup(RecordProof(store, proof), id)
    /\ UNCHANGED <<count, restricted>>

\* A defect: the receipt left behind.
KeepReceipt(s, id) == s

ClearReceipt(s, id) == RemoveEntry(s, GroupCounted(id))

Uncount(t) == count' = [count EXCEPT ![t] = IF @ > 0 THEN @ - 1 ELSE @]

DeactivateGroup(id, n) ==
    LET g == Load(store, id)
        proof == Proof(Membership(g.tier, g.commitment, g.epoch), n)
    IN
    /\ ActiveGroup(id)
    /\ Unused(proof)
    /\ store' = ClearReceipt(BumpGroup(WriteGroupV2(RecordProof(store, proof), id,
                                           [g EXCEPT !.active = FALSE]), id), id)
    /\ Uncount(g.tier)
    /\ UNCHANGED restricted

BumpGroupTtl(id) ==
    /\ GroupExists(store, id)
    /\ store' = BumpGroup(store, id)
    /\ UNCHANGED <<count, restricted>>

ReconcileTierCount(id) ==
    /\ ~GroupExists(store, id)
    /\ Has(store, GroupCounted(id))
    /\ Uncount(store[GroupCounted(id)].v)
    /\ store' = ClearReceipt(store, id)
    /\ UNCHANGED restricted

\* A ledger closes: everything in persistent storage has one ledger less.
CloseLedger ==
    /\ store' = Age(store)
    /\ UNCHANGED <<count, restricted>>

Next ==
    \/ SetRestrictedMode
    \/ CloseLedger
    \/ \E id \in Ids :
        \/ BumpGroupTtl(id)
        \/ ReconcileTierCount(id)
        \/ \E n \in Nonces :
            \/ ConsumeMembershipProof(id, n)
            \/ DeactivateGroup(id, n)
            \/ \E c \in Commitments :
                \/ UpdateCommitment(id, c, n)
                \/ UpdateAdminCommitment(id, c, n)
                \/ \E m \in MemberCounts : UpdateCommitmentDemocracy(id, c, m, n)
                \/ \E t \in Tiers, m \in MemberCounts, isAdmin \in BOOLEAN :
                    \/ \E gtype \in {Anarchy, OneOnOne, Democracy} :
                            CreateGroupV2(id, c, t, gtype, m, n, isAdmin)
                    \/ \E root \in Commitments :
                            CreateOligarchyGroup(id, c, t, m, root, n, isAdmin)

Spec == Init /\ [][Next]_vars

-------------------------------------------------------------------------------
(* Type *)

Spendable ==
    [proves : ({"membership"} \X Tiers \X Commitments \X (0..MaxEpoch))
              \cup ({"update"} \X Tiers \X Commitments \X (0..MaxEpoch) \X Commitments)
              \cup ({"adminUpdate"} \X Commitments \X (0..MaxEpoch) \X Commitments)
              \cup ({"democracyUpdate"} \X Tiers \X Commitments \X (0..MaxEpoch)
                      \X Commitments \X Nat \X Nat),
     nonce : Nonces]

HistoryEntry == [commitment : Commitments, epoch : 0..MaxEpoch, active : BOOLEAN]

ASSUME AbsentAssumption == Absent \notin HistoryEntry

KeyTyped(k, val) ==
    \/ k \in {"GroupV2", "Group"} \X Ids /\ val \in Entry
    \/ k \in {"HistoryV2", "History"} \X Ids /\ val \in Seq(HistoryEntry)
    \/ k \in {"AdminSet"} \X Ids /\ val \in Commitments
    \/ k \in {"AdminEpoch"} \X Ids /\ val \in 0..MaxEpoch
    \/ k \in {"GroupCounted"} \X Ids /\ val \in Tiers
    \/ k \in {"UsedProof"} \X Spendable /\ val = TRUE

\* The keys, values and times to live that the contract's calls can produce.
TypeOK ==
    /\ \A k \in DOMAIN store : /\ KeyTyped(k, store[k].v)
                               /\ store[k].ttl \in 1..CountedBump
    /\ count \in [Tiers -> 0..MaxGroups]
    /\ restricted \in BOOLEAN

-------------------------------------------------------------------------------
(* Properties *)

\* Ids that stand for a unit of the tier's count: a live active group, or a
\* receipt whose group has expired.
Counted(t) ==
    {id \in Ids : \/ ActiveGroup(id) /\ Load(store, id).tier = t
                  \/ Has(store, GroupCounted(id)) /\ store[GroupCounted(id)].v = t}

\* The tier count never understates the live groups, whatever mixture of
\* creations, deactivations, expiries, re-creations and reconciliations led
\* here: no decrement is paid twice, so MAX_GROUPS_PER_TIER bounds the live
\* active groups of a tier.  A receipt never contradicts its live group.
CountCoversLive ==
    /\ \A t \in Tiers : Cardinality(Counted(t)) <= count[t]
    /\ \A id \in Ids :
          Has(store, GroupCounted(id)) /\ GroupExists(store, id) =>
              Load(store, id).active /\ store[GroupCounted(id)].v = Load(store, id).tier

\* The stored history of a live group is exactly the run of epochs before its
\* current one, as many as the window holds, across the lazy migration of a
\* legacy group: none missing, doubled, or out of order.
HistoryIsRecentEpochs ==
    \A id \in Ids :
        GroupExists(store, id) =>
            LET h == StoredHistory(store, id)
                e == Load(store, id).epoch
            IN  /\ Len(h) = IF e < Window THEN e ELSE Window
                /\ \A i \in DOMAIN h : h[i].active /\ h[i].epoch + Len(h) + 1 = e + i

\* Statements proved by proofs that a step spends, for the whole LEDGER_BUMP.
NewlySpent ==
    {k[2].proves : k \in {q \in DOMAIN store' \ DOMAIN store :
                            q[1] = "UsedProof" /\ store'[q].ttl = Bump}}

\* Every change to a live group is paid for by a proof nobody had spent, of
\* the statement its governance type asks for: one member retires any group
\* or advances an anarchy, a quorum advances a democracy, and nothing else
\* changes a group (1v1 is immutable, an oligarchy's members do not change in
\* this build, a retired group is final).
Authorised(id) ==
    LET g == Load(store, id)
        h == Load(store', id)
    IN  GroupExists(store, id) /\ GroupExists(store', id) /\ g # h =>
        /\ g.active
        /\ \/ /\ h = [g EXCEPT !.active = FALSE]
              /\ Membership(g.tier, g.commitment, g.epoch) \in NewlySpent
           \/ /\ g.gtype = Anarchy
              /\ h = [g EXCEPT !.commitment = h.commitment, !.epoch = @ + 1]
              /\ Update(g.tier, g.commitment, g.epoch, h.commitment) \in NewlySpent
           \/ /\ g.gtype = Democracy
              /\ h = [g EXCEPT !.commitment = h.commitment, !.epoch = @ + 1,
                               !.members = h.members]
              /\ DemocracyUpdate(g.tier, g.commitment, g.epoch, h.commitment,
                                 g.members, h.members) \in NewlySpent

ChangesAreAuthorised == [][\A id \in Ids : Authorised(id)]_vars

Ledger == INSTANCE GroupLedger
    WITH groups <- [id \in Ids |->
            IF GroupExists(store, id)
            THEN LET g == Load(store, id)
                 IN  [commitment |-> g.commitment, epoch |-> g.epoch, active |-> g.active]
            ELSE Absent]

\* The registry, with its two storage formats and its lazy migration, keeps
\* the promise of GroupLedger.
ImplementsLedger == Ledger!LedgerSpec

===============================================================================
