----------------------------- MODULE PlonkContract -----------------------------
(***************************************************************************)
(* The PLONK verifier of the contracts: the crate contracts/plonk-verifier *)
(* and its caller in the per-type contracts.  Its scalars are the host's,  *)
(* which takes any bytes modulo the field's order; a point that is not on  *)
(* the curve makes the host trap.                                          *)
(***************************************************************************)
EXTENDS PlonkField

MaxPublicInputs == 3

-------------------------------------------------------------------------------
(* proof_format and vk_format: the bytes at their places.                  *)

\* Mutant: the two opening proofs are read in each other's place.
ProofOffsetsSwapped ==
    [wires |-> 8, perm |-> 488, quotLen |-> 584, quot |-> 592, opening |-> 1168,
     shifted |-> 1072, evalsLen |-> 1264, evals |-> 1272, sigmaLen |-> 1432,
     sigma |-> 1440, next |-> 1568, plookup |-> 1600]

ProofOffsets ==
    LET wires    == 8
        perm     == wires + 5 * 96
        quotLen  == perm + 96
        quot     == quotLen + 8
        opening  == quot + 5 * 96
        shifted  == opening + 96
        evalsLen == shifted + 96
        evals    == evalsLen + 8
        sigmaLen == evals + 5 * 32
        sigma    == sigmaLen + 8
        next     == sigma + 4 * 32
    IN  [wires |-> wires, perm |-> perm, quotLen |-> quotLen, quot |-> quot,
         opening |-> opening, shifted |-> shifted, evalsLen |-> evalsLen, evals |-> evals,
         sigmaLen |-> sigmaLen, sigma |-> sigma, next |-> next, plookup |-> next + 32]

ProofWellFormed(blob) ==
    LET o == ProofOffsets
    IN  /\ BlobLen(blob) = 1601
        /\ Slice(blob, 0, 8) = 5 /\ Slice(blob, o.quotLen, 8) = 5
        /\ Slice(blob, o.evalsLen, 8) = 5 /\ Slice(blob, o.sigmaLen, 8) = 4
        /\ Slice(blob, o.plookup, 1) = 0

ParseProof(blob) ==
    LET o == ProofOffsets
    IN  [wires   |-> Slices(blob, o.wires, 96, 5),
         perm    |-> Slice(blob, o.perm, 96),
         quot    |-> Slices(blob, o.quot, 96, 5),
         opening |-> Slice(blob, o.opening, 96),
         shifted |-> Slice(blob, o.shifted, 96),
         evals   |-> Slices(blob, o.evals, 32, 5),
         sigma   |-> Slices(blob, o.sigma, 32, 4),
         next    |-> Slice(blob, o.next, 32)]

VkOffsets ==
    LET sigma     == 24
        selLen    == sigma + 5 * 96
        selectors == selLen + 8
        kLen      == selectors + 13 * 96
        k         == kLen + 8
        g         == k + 5 * 32
        h         == g + 96
        betaH     == h + 192
        hLen      == betaH + 192
        gLen      == hLen + 8 + 2 * 192
        merged    == gLen + 8 + 2 * 96
    IN  [sigma |-> sigma, selLen |-> selLen, selectors |-> selectors, kLen |-> kLen, k |-> k,
         g |-> g, h |-> h, betaH |-> betaH, hLen |-> hLen, gLen |-> gLen, merged |-> merged]

VkWellFormed(blob) ==
    LET o == VkOffsets
    IN  /\ BlobLen(blob) = 3002
        /\ Slice(blob, 16, 8) = 5 /\ Slice(blob, o.selLen, 8) = 13 /\ Slice(blob, o.kLen, 8) = 5
        /\ Slice(blob, o.hLen, 8) = 2 /\ Slice(blob, o.gLen, 8) = 2
        /\ Slice(blob, o.merged, 1) = 0 /\ Slice(blob, o.merged + 1, 1) = 0

ParseVk(blob) ==
    LET o == VkOffsets
    IN  [size      |-> Slice(blob, 0, 8),
         inputs    |-> Slice(blob, 8, 8),
         sigma     |-> Slices(blob, o.sigma, 96, 5),
         selectors |-> Slices(blob, o.selectors, 96, 13),
         k         |-> Slices(blob, o.k, 32, 5),
         g         |-> Slice(blob, o.g, 96),
         h         |-> Slice(blob, o.h, 192),
         betaH     |-> Slice(blob, o.betaH, 192),
         powersOfH |-> Slices(blob, o.hLen + 8, 192, 2),
         powersOfG |-> Slices(blob, o.gLen + 8, 96, 2)]

-------------------------------------------------------------------------------
(* transcript and verifier_challenges: what is hashed for each challenge.  *)
(* A hash without collisions: its state is all it has taken in so far.     *)

Fresh == [state |-> <<>>, pending |-> <<>>]

Absorb(t, bytes) == [t EXCEPT !.pending = @ \o bytes]

Squeeze(t) == [state |-> <<t.state, t.pending>>, pending |-> <<>>]

Affine(point) == point.xy       \* the flags are masked away

BigEndian(scalars) == [n \in DOMAIN scalars |-> Swap(scalars[n])]

Coordinates(points) == [n \in DOMAIN points |-> Affine(points[n])]

VkAndPublicInputs(vk, srsG2, inputs) ==
    <<"modulus bits", vk.size, vk.inputs, "padding", srsG2>> \o BigEndian(vk.k)
        \o Coordinates(vk.selectors) \o Coordinates(vk.sigma) \o inputs

\* Mutant: the second opening proof is not hashed.
QueriesWithoutShifted(vk, srsG2, inputs, proof) ==
    LET afterWires == Squeeze(Absorb(Absorb(Fresh, VkAndPublicInputs(vk, srsG2, inputs)),
                                     Coordinates(proof.wires)))
        gamma == Squeeze(afterWires)
        alpha == Squeeze(Absorb(gamma, <<Affine(proof.perm)>>))
        zeta  == Squeeze(Absorb(alpha, Coordinates(proof.quot)))
        v     == Squeeze(Absorb(zeta, BigEndian(proof.evals) \o BigEndian(proof.sigma)
                                        \o <<Swap(proof.next)>>))
        u     == Squeeze(Absorb(v, <<Affine(proof.opening)>>))
    IN  <<afterWires.state, gamma.state, alpha.state, zeta.state, v.state, u.state>>

\* What the hash has taken in when it is squeezed for beta, gamma, alpha, zeta,
\* v and u.
Queries(vk, srsG2, inputs, proof) ==
    LET beta  == Squeeze(Absorb(Absorb(Fresh, VkAndPublicInputs(vk, srsG2, inputs)),
                                Coordinates(proof.wires)))
        gamma == Squeeze(beta)
        alpha == Squeeze(Absorb(gamma, <<Affine(proof.perm)>>))
        zeta  == Squeeze(Absorb(alpha, Coordinates(proof.quot)))
        v     == Squeeze(Absorb(zeta, BigEndian(proof.evals) \o BigEndian(proof.sigma)
                                        \o <<Swap(proof.next)>>))
        u     == Squeeze(Absorb(v, <<Affine(proof.opening), Affine(proof.shifted)>>))
    IN  <<beta.state, gamma.state, alpha.state, zeta.state, v.state, u.state>>

-------------------------------------------------------------------------------
(* byte_helpers: the host's scalars are reduced, whatever their bytes say. *)

Scalar(le) == FromLe(le) % P

Scalars(les) == [n \in DOMAIN les |-> Scalar(les[n])]

InputScalars(inputs) == [n \in DOMAIN inputs |-> Scalar(Swap(inputs[n]))]

-------------------------------------------------------------------------------
(* verifier_polys: the domain, and what is evaluated at zeta.              *)

IsPowerOfTwo(n) == \E log \in 0..Adicity : n = Pow2(log)

GroupGen(size) ==
    LET log == CHOOSE log \in 0..Adicity : size = Pow2(log)
        root[n \in log..Adicity] == IF n = Adicity THEN RootOfUnity ELSE Mul(root[n + 1], root[n + 1])
    IN  root[log]

Vanishing(zeta, size) == Sub(Power(zeta, size), 1)

\* Mutant: no special case for a zeta in the domain.
FirstLagrangeOutside(zeta, vanish, size) ==
    Mul(vanish, Inv[Mul(size, Sub(zeta, 1))])

FirstLagrange(zeta, vanish, size) ==
    IF zeta = 1 THEN 1
    ELSE IF zeta = Inv[GroupGen(size)] \/ vanish = 0 THEN 0
    ELSE Mul(vanish, Inv[Mul(size, Sub(zeta, 1))])

\* Mutant: the points of the domain are not advanced from input to input.
PublicInputPolyAtOne(inputs, zeta, vanish, size) ==
    IF zeta = 1 THEN inputs[1]
    ELSE Mul(SumOf(inputs), Mul(vanish, Inv[Mul(size, Sub(zeta, 1))]))

PublicInputPoly(inputs, zeta, vanish, size) ==
    LET point(n) == Power(GroupGen(size), n - 1)
        term(n) == Mul(inputs[n], Mul(Mul(vanish, point(n)),
                                      Inv[Mul(size, Sub(zeta, point(n)))]))
        hit == {n \in DOMAIN inputs : zeta = point(n)}
    IN  IF hit # {} THEN inputs[CHOOSE n \in hit : TRUE]
        ELSE SumOf([n \in DOMAIN inputs |-> term(n)])

-------------------------------------------------------------------------------
(* verifier_lin_poly, verifier_aggregate and verifier_aggregate_evals.     *)

\* The constant term of the linearisation polynomial.
LinPolyConstant(ch, pi, lagrange, w, sigma, next) ==
    LET factors == [n \in 1..4 |-> Add(Add(ch.gamma, w[n]), Mul(ch.beta, sigma[n]))]
        permutation == Mul(Mul(Mul(ch.alpha, next), Add(ch.gamma, w[5])), ProductOf(factors))
    IN  Sub(Sub(pi, Mul(Mul(ch.alpha, ch.alpha), lagrange)), permutation)

PermutationCoeff(ch, lagrange, w, k) ==
    LET factors == [n \in 1..5 |-> Add(Add(Mul(Mul(ch.beta, k[n]), ch.zeta), ch.gamma), w[n])]
    IN  Add(Mul(Mul(ch.alpha, ch.alpha), lagrange), Mul(ch.alpha, ProductOf(factors)))

LastSigmaCoeff(ch, w, sigma, next) ==
    LET factors == [n \in 1..4 |-> Add(Add(Mul(ch.beta, sigma[n]), ch.gamma), w[n])]
    IN  Neg(Mul(Mul(Mul(ch.alpha, ch.beta), next), ProductOf(factors)))

\* q_lc, q_mul, q_hash, q_o, q_c, q_ecc.
SelectorScalars(w) ==
    <<w[1], w[2], w[3], w[4], Mul(w[1], w[2]), Mul(w[3], w[4]),
      Power(w[1], 5), Power(w[2], 5), Power(w[3], 5), Power(w[4], 5), Neg(w[5]), 1, ProductOf(w)>>

\* The chunks of the quotient are n + 2 apart.
QuotientScalars(zeta, vanish) ==
    [n \in 1..5 |-> Mul(Neg(vanish), Power(Mul(Add(1, vanish), Mul(zeta, zeta)), n - 1))]

\* v for the openings at zeta; the one at zeta * g has u.
OpeningScalars(ch) == Append([n \in 1..9 |-> Power(ch.v, n)], ch.u)

Msm(scalars, points) ==
    SumOf([n \in DOMAIN scalars |-> Mul(scalars[n], points[n].xy)])

AggregateCommitments(ch, vanish, lagrange, vk, proof) ==
    LET w     == Scalars(proof.evals)
        sigma == Scalars(proof.sigma)
        next  == Scalar(proof.next)
        scalars == <<PermutationCoeff(ch, lagrange, w, Scalars(vk.k)),
                     LastSigmaCoeff(ch, w, sigma, next)>>
                       \o SelectorScalars(w) \o QuotientScalars(ch.zeta, vanish)
                       \o OpeningScalars(ch)
        bases == <<proof.perm, vk.sigma[5]>> \o vk.selectors \o proof.quot
                    \o proof.wires \o SubSeq(vk.sigma, 1, 4) \o <<proof.perm>>
    IN  Msm(scalars, bases)

AggregateEvaluations(ch, constant, proof) ==
    LET values == Scalars(proof.evals) \o Scalars(proof.sigma) \o <<Scalar(proof.next)>>
        buffer == OpeningScalars(ch)
    IN  Add(Neg(constant), SumOf([n \in 1..10 |-> Mul(buffer[n], values[n])]))

-------------------------------------------------------------------------------
(* verifier: the pairing check, with the steps before it.                  *)

PairingCheck(ch, vk, proof, d1, eval) ==
    LET opening == proof.opening.xy
        shifted == proof.shifted.xy
        zetaG == Mul(ch.zeta, GroupGen(vk.size))
        a == Add(opening, Mul(shifted, ch.u))
        b == Sub(Add(Add(d1, Mul(opening, ch.zeta)), Mul(shifted, Mul(ch.u, zetaG))),
                 Mul(vk.g.xy, eval))
    IN  Add(Mul(a, vk.betaH.xy), Mul(Neg(b), vk.h.xy)) = 0

Verify(vk, proof, inputs, ch) ==
    LET pis == InputScalars(inputs)
        vanish == Vanishing(ch.zeta, vk.size)
        lagrange == FirstLagrange(ch.zeta, vanish, vk.size)
        constant == LinPolyConstant(ch, PublicInputPoly(pis, ch.zeta, vanish, vk.size), lagrange,
                                    Scalars(proof.evals), Scalars(proof.sigma),
                                    Scalar(proof.next))
        points == proof.wires \o proof.quot \o vk.sigma \o vk.selectors
                    \o <<proof.perm, proof.opening, proof.shifted, vk.g, vk.h, vk.betaH>>
    IN  IF Len(inputs) # vk.inputs THEN "count"
        ELSE IF ~IsPowerOfTwo(vk.size) THEN "trap"
        ELSE IF \E n \in DOMAIN points : ~OnCurve(points[n]) THEN "trap"
        ELSE IF PairingCheck(ch, vk, proof, AggregateCommitments(ch, vanish, lagrange, vk, proof),
                             AggregateEvaluations(ch, constant, proof))
             THEN "ok" ELSE "pairing"

\* verify_plonk_proof of a contract, before any challenge is drawn.
Parsed(vkBlob, proofBlob, inputs) ==
    VkWellFormed(vkBlob) /\ ProofWellFormed(proofBlob) /\ Len(inputs) <= MaxPublicInputs

===============================================================================
