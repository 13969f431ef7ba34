------------------------------- MODULE PlonkCore -------------------------------
(***************************************************************************)
(* The PLONK verifier of the core crate (src/circuit/plonk), from which    *)
(* the one of the contracts was ported by hand: the copy that the tests    *)
(* and the bindings run, over arkworks, which refuses a scalar or a point  *)
(* whose bytes are not canonical.                                          *)
(***************************************************************************)
EXTENDS PlonkField

-------------------------------------------------------------------------------
(* proof_format and vk_format.                                             *)

ProofLayout == <<8, 480, 96, 8, 480, 96, 96, 8, 160, 8, 128, 32, 1>>

VkLayout == <<8, 8, 8, 480, 8, 1248, 8, 160, 96, 192, 192, 8, 384, 8, 192, 1, 1>>

\* The offset of field `n` of a layout.
Offset(layout, n) == SumOfLengths(SubSeq(layout, 1, n - 1))

ProofWellFormed(blob) ==
    LET word(n) == Slice(blob, Offset(ProofLayout, n), 8)
    IN  /\ BlobLen(blob) = SumOfLengths(ProofLayout)
        /\ word(1) = 5 /\ word(4) = 5 /\ word(8) = 5 /\ word(10) = 4
        /\ Slice(blob, Offset(ProofLayout, 13), 1) = 0

ParseProof(blob) ==
    LET at(n) == Offset(ProofLayout, n)
    IN  [wires   |-> Slices(blob, at(2), 96, 5),  perm    |-> Slice(blob, at(3), 96),
         quot    |-> Slices(blob, at(5), 96, 5),  opening |-> Slice(blob, at(6), 96),
         shifted |-> Slice(blob, at(7), 96),      evals   |-> Slices(blob, at(9), 32, 5),
         sigma   |-> Slices(blob, at(11), 32, 4), next    |-> Slice(blob, at(12), 32)]

VkWellFormed(blob) ==
    LET at(n) == Offset(VkLayout, n)
        word(n) == Slice(blob, at(n), 8)
    IN  /\ BlobLen(blob) = SumOfLengths(VkLayout)
        /\ word(3) = 5 /\ word(5) = 13 /\ word(7) = 5 /\ word(12) = 2 /\ word(14) = 2
        /\ Slice(blob, at(16), 1) = 0 /\ Slice(blob, at(17), 1) = 0

ParseVk(blob) ==
    LET at(n) == Offset(VkLayout, n)
    IN  [size      |-> Slice(blob, at(1), 8),        inputs    |-> Slice(blob, at(2), 8),
         sigma     |-> Slices(blob, at(4), 96, 5),   selectors |-> Slices(blob, at(6), 96, 13),
         k         |-> Slices(blob, at(8), 32, 5),   g         |-> Slice(blob, at(9), 96),
         h         |-> Slice(blob, at(10), 192),     betaH     |-> Slice(blob, at(11), 192),
         powersOfH |-> Slices(blob, at(13), 192, 2), powersOfG |-> Slices(blob, at(15), 96, 2)]

-------------------------------------------------------------------------------
(* transcript and verifier_challenges.                                     *)

\* compress_g2_for_transcript, of the power of the key that is not paired with.
CompressedG2(vk) == <<"compressed", vk.powersOfH[2]>>

VkAndPublicInputs(vk, srsG2, inputs) ==
    LET xy(points) == [n \in DOMAIN points |-> points[n].xy]
    IN  <<"modulus bits", vk.size, vk.inputs, "padding", srsG2>>
            \o [n \in 1..5 |-> Swap(vk.k[n])] \o xy(vk.selectors) \o xy(vk.sigma) \o inputs

\* The bytes taken in before each of beta, gamma, alpha, zeta, v and u, the hash
\* before them being the state.
Queries(vk, srsG2, inputs, proof) ==
    LET xy(points) == [n \in DOMAIN points |-> points[n].xy]
        be(scalars) == [n \in DOMAIN scalars |-> Swap(scalars[n])]
        taken == <<VkAndPublicInputs(vk, srsG2, inputs) \o xy(proof.wires), <<>>,
                   <<proof.perm.xy>>, xy(proof.quot),
                   be(proof.evals) \o be(proof.sigma) \o <<Swap(proof.next)>>,
                   <<proof.opening.xy, proof.shifted.xy>>>>
        state[n \in 0..6] == IF n = 0 THEN <<>> ELSE <<state[n - 1], taken[n]>>
    IN  [n \in 1..6 |-> state[n]]

-------------------------------------------------------------------------------
(* verifier_polys.                                                         *)

GroupGen(size) == Power(RootOfUnity, Pow2(Adicity) \div size)

Vanishing(zeta, size) == Sub(Power(zeta, size), 1)

\* The coefficient of the first point of the domain.
FirstLagrange(zeta, vanish, size) ==
    IF zeta = 1 THEN 1
    ELSE IF Mul(zeta, GroupGen(size)) = 1 THEN 0
    ELSE IF vanish = 0 THEN 0
    ELSE Mul(vanish, Inv[Mul(size, Sub(zeta, 1))])

PublicInputPoly(inputs, zeta, vanish, size) ==
    LET sum[n \in 0..Len(inputs)] ==
            IF n = 0 THEN 0
            ELSE LET gi == Power(GroupGen(size), n - 1)
                     li == Mul(Mul(vanish, gi), Inv[Mul(size, Sub(zeta, gi))])
                 IN  Add(sum[n - 1], Mul(li, inputs[n]))
        hits == {n \in DOMAIN inputs : Power(GroupGen(size), n - 1) = zeta}
    IN  IF hits = {} THEN sum[Len(inputs)] ELSE inputs[CHOOSE n \in hits : TRUE]

-------------------------------------------------------------------------------
(* verifier_lin_poly, verifier_aggregate and verifier_aggregate_evals.     *)

LinPolyConstant(ch, pi, lagrange, w, sigma, next) ==
    LET acc[n \in 0..4] ==
            IF n = 0 THEN Mul(Mul(ch.alpha, next), Add(ch.gamma, w[5]))
            ELSE Mul(acc[n - 1], Add(Add(ch.gamma, w[n]), Mul(ch.beta, sigma[n])))
    IN  Sub(Sub(pi, Mul(Mul(ch.alpha, ch.alpha), lagrange)), acc[4])

\* The pairs of the linearisation, as <<scalar, point>>.
LinearisationPairs(ch, vanish, lagrange, vk, proof, w, sigma, next) ==
    LET perm[n \in 0..5] ==
            IF n = 0 THEN ch.alpha
            ELSE Mul(perm[n - 1],
                     Add(Add(Mul(Mul(ch.beta, FromLe(vk.k[n])), ch.zeta), ch.gamma), w[n]))
        last[n \in 0..4] ==
            IF n = 0 THEN Mul(Mul(ch.alpha, ch.beta), next)
            ELSE Mul(last[n - 1], Add(Add(Mul(ch.beta, sigma[n]), ch.gamma), w[n]))
        q == <<w[1], w[2], w[3], w[4], Mul(w[1], w[2]), Mul(w[3], w[4]), Power(w[1], 5),
               Power(w[2], 5), Power(w[3], 5), Power(w[4], 5), Neg(w[5]), 1, ProductOf(w)>>
        step == Mul(Mul(Add(1, vanish), ch.zeta), ch.zeta)
        split[n \in 1..5] == IF n = 1 THEN Neg(vanish) ELSE Mul(split[n - 1], step)
    IN  <<<<Add(Mul(Mul(ch.alpha, ch.alpha), lagrange), perm[5]), proof.perm>>,
          <<Neg(last[4]), vk.sigma[5]>>>>
            \o [n \in 1..13 |-> <<q[n], vk.selectors[n]>>]
            \o [n \in 1..5 |-> <<split[n], proof.quot[n]>>]

\* The pairs of the openings, whose scalars are the buffer.
OpeningPairs(ch, vk, proof) ==
    [n \in 1..10 |-> IF n <= 5 THEN <<Power(ch.v, n), proof.wires[n]>>
                     ELSE IF n <= 9 THEN <<Power(ch.v, n), vk.sigma[n - 5]>>
                     ELSE <<ch.u, proof.perm>>]

Aggregate(pairs) == SumOf([n \in DOMAIN pairs |-> Mul(pairs[n][1], pairs[n][2].xy)])

AggregateEvaluations(ch, constant, w, sigma, next) ==
    LET wires  == SumOf([n \in 1..5 |-> Mul(Power(ch.v, n), w[n])])
        sigmas == SumOf([n \in 1..4 |-> Mul(Power(ch.v, n + 5), sigma[n])])
    IN  Add(Add(Neg(constant), Add(wires, sigmas)), Mul(ch.u, next))

-------------------------------------------------------------------------------
(* verifier.                                                               *)

PairingHolds(ch, vk, proof, d1, eval) ==
    LET g == GroupGen(vk.size)
        a == Add(proof.opening.xy, Mul(ch.u, proof.shifted.xy))
        b == Sub(Add(d1, Add(Mul(ch.zeta, proof.opening.xy),
                             Mul(Mul(ch.u, Mul(ch.zeta, g)), proof.shifted.xy))),
                 Mul(eval, vk.g.xy))
    IN  Mul(a, vk.betaH.xy) = Mul(b, vk.h.xy)

Verify(vk, proof, inputs, ch) ==
    LET decode(les) == [n \in DOMAIN les |-> FromLe(les[n]) % P]
        w      == decode(proof.evals)
        sigma  == decode(proof.sigma)
        next   == FromLe(proof.next) % P
        pis    == [n \in DOMAIN inputs |-> FromLe(Swap(inputs[n])) % P]
        vanish == Vanishing(ch.zeta, vk.size)
        first  == FirstLagrange(ch.zeta, vanish, vk.size)
        constant == LinPolyConstant(ch, PublicInputPoly(pis, ch.zeta, vanish, vk.size), first,
                                    w, sigma, next)
        pairs  == LinearisationPairs(ch, vanish, first, vk, proof, w, sigma, next)
                    \o OpeningPairs(ch, vk, proof)
        scalars == proof.evals \o proof.sigma \o <<proof.next>>
        decoded == proof.wires \o proof.quot \o vk.sigma \o vk.selectors \o <<proof.perm>>
    IN  IF Len(inputs) # vk.inputs THEN "count"
        ELSE IF ~OnCurve(vk.powersOfH[2]) THEN "point"
        ELSE IF ~\E log \in 0..Adicity : vk.size = Pow2(log) THEN "panic"
        ELSE IF \E n \in DOMAIN scalars : ~Canonical(scalars[n]) THEN "scalar"
        ELSE IF \/ \E n \in DOMAIN decoded : ~OnCurve(decoded[n])
                \/ \E n \in 1..5 : ~Canonical(vk.k[n]) THEN "panic"
        ELSE IF ~OnCurve(proof.opening) \/ ~OnCurve(proof.shifted) \/ ~OnCurve(vk.g)
                \/ ~OnCurve(vk.h) \/ ~OnCurve(vk.betaH) THEN "point"
        ELSE IF PairingHolds(ch, vk, proof, Aggregate(pairs),
                             AggregateEvaluations(ch, constant, w, sigma, next))
             THEN "ok" ELSE "pairing"

===============================================================================
