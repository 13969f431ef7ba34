------------------------------ MODULE SepTyranny ------------------------------
(* contracts/sep-tyranny: the administrator pinned at creation advances it. *)
EXTENDS TypedContract, Poseidon

MembershipVk(t) == <<"membership", t>>
CreateVk(t)     == <<"tyrannyCreate", t>>
UpdateVk(t)     == <<"tyrannyUpdate", t>>

Entry(c, e, t) == [commitment |-> c, epoch |-> e, tier |-> t]

\* A defect: the administrator's commitment left to expire.
BumpGroupOnly(s, id) == Renew(s, {Group(id), History(id)})

BumpGroup(s, id) == Renew(s, {Group(id), AdminCommitment(id), History(id)})

CreateGroup(id, t, proof, isAdmin) ==
    LET c     == proof.pi[1]
        admin == proof.pi[3]
    IN
    /\ MayCreate(isAdmin)
    /\ Len(proof.pi) = 4 /\ proof.pi[2] = Zero /\ proof.pi[4] = GroupFr[id]
    /\ ~Exists(id)
    /\ BelowLimit(t)
    /\ Unused(proof)
    /\ proof.vk = CreateVk(t)
    /\ store' = BumpGroup(Set(Founded(Spend(store, proof), id, Entry(c, 0, t)),
                              AdminCommitment(id), admin), id)
    /\ Counted(t)
    /\ UNCHANGED restricted

\* A defect: the administrator in the public inputs is not compared.
AnyAdmin(id, admin) == Has(store, AdminCommitment(id))

PinnedAdmin(id, admin) ==
    Has(store, AdminCommitment(id)) /\ store[AdminCommitment(id)].v = admin

UpdateCommitment(id, proof) ==
    LET g == Stored(id) IN
    /\ Exists(id) /\ g.epoch < MaxEpoch
    /\ Len(proof.pi) = 5
    /\ proof.pi[1] = g.commitment /\ proof.pi[2] = Num(g.epoch)
    /\ PinnedAdmin(id, proof.pi[4])
    /\ proof.pi[5] = GroupFr[id]
    /\ Unused(proof)
    /\ proof.vk = UpdateVk(g.tier)
    /\ store' = BumpGroup(Replaced(store, id, proof, Entry(proof.pi[3], g.epoch + 1, g.tier)), id)
    /\ UNCHANGED <<count, restricted>>

BumpGroupTtl(id) ==
    /\ Exists(id)
    /\ store' = BumpGroup(store, id)
    /\ UNCHANGED <<count, restricted>>

VerifyMembership(id, vk, pi) ==
    /\ Exists(id)
    /\ pi = <<Stored(id).commitment, Num(Stored(id).epoch)>>
    /\ vk = MembershipVk(Stored(id).tier)

GetHistory(id, max) ==
    LET h   == Get(store, History(id), << >>)
        cap == IF max < Len(h) THEN max ELSE Len(h)
    IN  SubSeq(h, Len(h) - cap + 1, Len(h))
===============================================================================
