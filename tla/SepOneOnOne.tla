------------------------------ MODULE SepOneOnOne ------------------------------
(* contracts/sep-oneonone: two members, and nothing ever changes. *)
EXTENDS TypedContract, Poseidon

CreateVk     == <<"oneonone", 0>>
MembershipVk == <<"membership", 0>>

Entry(c) == [commitment |-> c, epoch |-> 0]

BumpGroup(s, id) == Renew(s, {Group(id)})

\* One count for the contract, kept as that of tier 0.
CreateGroup(id, proof, isAdmin) ==
    /\ MayCreate(isAdmin)
    /\ Len(proof.pi) = 2 /\ proof.pi[2] = Zero
    /\ ~Exists(id)
    /\ BelowLimit(0)
    /\ Unused(proof)
    /\ proof.vk = CreateVk
    /\ store' = BumpGroup(Set(Spend(store, proof), Group(id), Entry(proof.pi[1])), id)
    /\ Counted(0)
    /\ UNCHANGED restricted

BumpGroupTtl(id) ==
    /\ Exists(id)
    /\ store' = BumpGroup(store, id)
    /\ UNCHANGED <<count, restricted>>

VerifyMembership(id, vk, pi) ==
    /\ Exists(id)
    /\ pi = <<Stored(id).commitment, Num(Stored(id).epoch)>>
    /\ vk = MembershipVk
===============================================================================
