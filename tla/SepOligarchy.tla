------------------------------ MODULE SepOligarchy ------------------------------
(* contracts/sep-oligarchy: a quorum of the administrators, whose tree the    *)
(* commitment binds, advances the group.  One key serves the creations and    *)
(* one the updates of every tier, since both circuits are about the           *)
(* administrators' tree.                                                      *)
EXTENDS TypedContract, Poseidon

\* A defect (issue 208): the key of the two-level commitment.
AnarchyMembershipVk(t) == <<"membership", t>>

MembershipVk(t) == <<"oligarchyMembership", t>>
CreateVk        == <<"oligarchyCreate", 0>>
UpdateVk        == <<"oligarchyUpdate", 0>>

Entry(c, e, t, occ, threshold) ==
    [commitment |-> c, epoch |-> e, tier |-> t, active |-> TRUE,
     occupancy |-> occ, threshold |-> threshold]

BumpGroup(s, id) == Renew(s, {Group(id), History(id)})

\* A defect: the occupancy in the public inputs is not compared.
AnyOccupancy(proof, occ) == TRUE

ProvedOccupancy(proof, occ) == proof.pi[3] = occ

CreateOligarchyGroup(id, t, threshold, occ, proof, isAdmin) ==
    LET c == proof.pi[1] IN
    /\ MayCreate(isAdmin)
    /\ threshold \in 1..100
    /\ Len(proof.pi) = 6 /\ proof.pi[2] = Zero
    /\ ProvedOccupancy(proof, occ)
    /\ ~Exists(id)
    /\ BelowLimit(t)
    /\ Unused(proof)
    /\ proof.vk = CreateVk
    /\ store' = BumpGroup(Founded(Spend(store, proof), id, Entry(c, 0, t, occ, threshold)), id)
    /\ Counted(t)
    /\ UNCHANGED restricted

UpdateCommitment(id, proof) ==
    LET g == Stored(id) IN
    /\ Exists(id) /\ g.active /\ g.epoch < MaxEpoch
    /\ Len(proof.pi) = 6
    /\ proof.pi[1] = g.commitment /\ proof.pi[2] = Num(g.epoch)
    /\ proof.pi[4] = g.occupancy
    /\ proof.pi[6] = Num(g.threshold)
    /\ Unused(proof)
    /\ proof.vk = UpdateVk
    /\ store' = BumpGroup(Replaced(store, id, proof,
                    Entry(proof.pi[3], g.epoch + 1, g.tier, proof.pi[5], g.threshold)), id)
    /\ UNCHANGED <<count, restricted>>

BumpGroupTtl(id) ==
    /\ Exists(id)
    /\ store' = BumpGroup(store, id)
    /\ UNCHANGED <<count, restricted>>

VerifyMembership(id, vk, pi) ==
    /\ Exists(id)
    /\ pi = <<Stored(id).commitment, Num(Stored(id).epoch)>>
    /\ vk = MembershipVk(Stored(id).tier)

GetHistory(id, max) ==
    LET h   == Get(store, History(id), << >>)
        cap == IF max < Len(h) THEN max ELSE Len(h)
    IN  SubSeq(h, Len(h) - cap + 1, Len(h))
===============================================================================
