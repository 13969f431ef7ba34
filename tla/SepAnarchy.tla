------------------------------ MODULE SepAnarchy ------------------------------
(* contracts/sep-anarchy: any member of a group advances it. *)
EXTENDS TypedContract, Poseidon

MembershipVk(t) == <<"membership", t>>
UpdateVk(t)     == <<"update", t>>

Entry(c, e, t) == [commitment |-> c, epoch |-> e, tier |-> t, active |-> TRUE]

BumpGroup(s, id) == Renew(s, {Group(id), History(id)})

CreateGroup(id, t, proof, isAdmin) ==
    LET c == proof.pi[1] IN
    /\ MayCreate(isAdmin)
    /\ Len(proof.pi) = 2 /\ proof.pi[2] = Zero
    /\ ~Exists(id)
    /\ BelowLimit(t)
    /\ Unused(proof)
    /\ proof.vk = MembershipVk(t)
    /\ store' = BumpGroup(Founded(Spend(store, proof), id, Entry(c, 0, t)), id)
    /\ Counted(t)
    /\ UNCHANGED restricted

UpdateCommitment(id, proof) ==
    LET g == Stored(id) IN
    /\ Exists(id) /\ g.active /\ g.epoch < MaxEpoch
    /\ Len(proof.pi) = 3
    /\ proof.pi[1] = g.commitment /\ proof.pi[2] = Num(g.epoch)
    /\ Unused(proof)
    /\ proof.vk = UpdateVk(g.tier)
    /\ store' = BumpGroup(Replaced(store, id, proof, Entry(proof.pi[3], g.epoch + 1, g.tier)), id)
    /\ UNCHANGED <<count, restricted>>

BumpGroupTtl(id) ==
    /\ Exists(id)
    /\ store' = BumpGroup(store, id)
    /\ UNCHANGED <<count, restricted>>

\* verify_membership answers true: no nullifier, and retired groups too.
VerifyMembership(id, vk, pi) ==
    /\ Exists(id)
    /\ pi = <<Stored(id).commitment, Num(Stored(id).epoch)>>
    /\ vk = MembershipVk(Stored(id).tier)

\* get_history: the last max entries, or all of them.
GetHistory(id, max) ==
    LET h   == Get(store, History(id), << >>)
        cap == IF max < Len(h) THEN max ELSE Len(h)
    IN  SubSeq(h, Len(h) - cap + 1, Len(h))
===============================================================================
