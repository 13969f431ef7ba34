----------------------------- MODULE PlonkProtocol -----------------------------
(***************************************************************************)
(* A proof from its prover to both verifiers.  The prover sends its five   *)
(* messages, each answered by challenges that are hashes of all it has     *)
(* sent; the bytes of proof, key and public inputs may be changed on their *)
(* way; the contract's verifier and the core's parse them, hash them again *)
(* and check the equation.  A hash of what the prover has hashed is the    *)
(* prover's challenge, any other is one of its own.                        *)
(*                                                                         *)
(* The prover is the one that src/prover/plonk.rs calls (jf-plonk), for    *)
(* one circuit of four rows: two public inputs, and two gates that use     *)
(* every selector.  A polynomial is the function that it is on the field,  *)
(* its degree being below the field's size; committing is evaluating at    *)
(* the secret Tau.                                                         *)
(***************************************************************************)
EXTENDS PlonkField, TLC

CONSTANTS Tau, K

Rows == 1..4

Wires == 1..5

G == Power(RootOfUnity, Pow2(Adicity) \div 4)

Dot(row) == Power(G, row - 1)      \* the point of a row

-------------------------------------------------------------------------------
(* The circuit.                                                            *)

\* The variable on each wire of each row.
Circuit == <<<<"0", "0", "0", "0", "x">>, <<"0", "0", "0", "0", "y">>,
             <<"x", "y", "a", "b", "c">>, <<"y", "c", "x", "a", "x">>>>

\* q_lc (4), q_mul (2), q_hash (4), q_o, q_c, q_ecc of each row.
Selectors == <<<<0, 0, 0, 0, 0, 0, 0, 0, 0, 0, 1, 0, 0>>, <<0, 0, 0, 0, 0, 0, 0, 0, 0, 0, 1, 0, 0>>,
               <<1, 2, 3, 4, 5, 6, 7, 8, 9, 1, 1, 7, 2>>, <<2, 0, 1, 5, 3, 0, 0, 4, 0, 1, 1, 3, 6>>>>

Positions == Rows \X Wires

Variable(p) == Circuit[p[1]][p[2]]

Label(p) == Mul(K[p[2]], Dot(p[1]))

\* The next position of the same variable, in the order of the labels.
NextPosition ==
    [p \in Positions |->
        LET same  == {q \in Positions : Variable(q) = Variable(p)}
            after == {q \in same : Label(q) > Label(p)}
            least(S) == CHOOSE q \in S : \A r \in S : Label(q) <= Label(r)
        IN  least(IF after = {} THEN same ELSE after)]

ASSUME KeyAssumption ==
    /\ Tau \in Field /\ K \in [Wires -> Field]
    /\ \A p, q \in Positions : p # q => Label(p) # Label(q)

\* What the gate of a row comes to without its public input.
Gate(w, q) ==
    LET hash == SumOf([n \in 1..4 |-> Mul(q[6 + n], Power(w[n], 5))])
        lin  == SumOf([n \in 1..4 |-> Mul(q[n], w[n])])
        mul  == Add(Mul(q[5], Mul(w[1], w[2])), Mul(q[6], Mul(w[3], w[4])))
    IN  SumOf(<<hash, lin, mul, Neg(Mul(q[11], w[5])), q[12], Mul(q[13], ProductOf(w))>>)

InputAt(inputs, row) == IF row \in DOMAIN inputs THEN inputs[row] ELSE 0

\* An assignment gives each wire of each row a value.
Satisfied(assigned, inputs) ==
    /\ \A row \in Rows : Add(Gate(assigned[row], Selectors[row]), InputAt(inputs, row)) = 0
    /\ \A p \in Positions :
          assigned[p[1]][p[2]] = assigned[NextPosition[p][1]][NextPosition[p][2]]

-------------------------------------------------------------------------------
(* Polynomials.                                                            *)

Lagrange ==
    [row \in Rows |-> [x \in Field |->
        ProductOf([other \in Rows |->
            IF other = row THEN 1
            ELSE Mul(Sub(x, Dot(other)), Inv[Sub(Dot(row), Dot(other))])])]]

ZH == [x \in Field |-> Sub(Power(x, 4), 1)]

Interpolate(values) == [x \in Field |-> SumOf([row \in Rows |-> Mul(values[row], Lagrange[row][x])])]

\* With a multiple of the vanishing polynomial that hides the values.
Blinded(values, blind) ==
    LET poly == Interpolate(values)
    IN  [x \in Field |->
            Add(poly[x], Mul(ZH[x], SumOf([n \in DOMAIN blind |->
                                              Mul(blind[n], Power(x, n - 1))])))]

SelectorPolys == [n \in 1..13 |-> Interpolate([row \in Rows |-> Selectors[row][n]])]

SigmaPolys == [j \in Wires |-> Interpolate([row \in Rows |-> Label(NextPosition[<<row, j>>])])]

WirePolys(assigned) ==
    [j \in Wires |-> Blinded([row \in Rows |-> assigned[row][j]], <<j + 1, 2 * j>>)]

InputPoly(inputs) == Interpolate([row \in Rows |-> InputAt(inputs, row)])

\* The factors of the permutation at a point: of the labels, and of their images.
LabelFactor(w, ch, x) ==
    ProductOf([j \in Wires |-> Add(Add(w[j][x], Mul(ch.beta, Mul(K[j], x))), ch.gamma)])

SigmaFactor(w, ch, x) ==
    ProductOf([j \in Wires |-> Add(Add(w[j][x], Mul(ch.beta, SigmaPolys[j][x])), ch.gamma)])

\* The product of the permutation can be formed.
CanPermute(w, ch) == \A row \in Rows : SigmaFactor(w, ch, Dot(row)) # 0

PermutationPoly(w, ch) ==
    LET z[row \in Rows] ==
            IF row = 1 THEN 1
            ELSE Mul(z[row - 1], Mul(LabelFactor(w, ch, Dot(row - 1)),
                                     Inv[SigmaFactor(w, ch, Dot(row - 1))]))
    IN  Blinded(z, <<5, 3, 8>>)

\* What the vanishing polynomial divides when the circuit is satisfied.
Numerator(w, z, pi, ch) ==
    [x \in Field |->
        SumOf(<<Gate([j \in Wires |-> w[j][x]], [n \in 1..13 |-> SelectorPolys[n][x]]), pi[x],
                Mul(ch.alpha, Sub(Mul(z[x], LabelFactor(w, ch, x)),
                                  Mul(z[Mul(G, x)], SigmaFactor(w, ch, x)))),
                Mul(Mul(ch.alpha, ch.alpha), Mul(Lagrange[1][x], Sub(z[x], 1)))>>)]

\* A coefficient of a function, by the inverse Fourier transform.
Coefficient(f, n) == Neg(SumOf([k \in 1 .. P - 1 |-> Mul(f[k], Power(Inv[k], n))]))

\* The coefficients of the quotient by X^4 - 1, and of what remains.
Quotient(f) ==
    [n \in 0..29 |-> SumOf([m \in 1 .. (P - 2 - n) \div 4 |-> Coefficient(f, n + 4 * m)])]

Remainder(f) ==
    [n \in 0..3 |-> SumOf([m \in 1 .. (P + 2 - n) \div 4 |-> Coefficient(f, n + 4 * (m - 1))])]

\* The quotient is cut into chunks of n + 2 coefficients.
Chunk(quotient, m, x) == SumOf([n \in 1..6 |-> Mul(quotient[6 * m + n - 7], Power(x, n - 1))])

-------------------------------------------------------------------------------
(* The protocol.                                                           *)

CONSTANTS
    Statements,         \* what is proved: an assignment and public inputs
    UsualAnswer, OtherAnswer,   \* challenges of the prover's hashes, and of others
    UnusualAnswers,     \* the other challenges that the prover's hashes may have
    MaxEvents           \* bound: unusual answers and changed bytes

ASSUME ProtocolAssumption ==
    /\ UsualAnswer \in [1..6 -> Field] /\ OtherAnswer \in [1..6 -> Field]
    /\ UnusualAnswers \in [1..6 -> SUBSET Field] /\ MaxEvents \in Nat

Contract == INSTANCE PlonkContract
Core     == INSTANCE PlonkCore

VARIABLES
    statement,
    stage,          \* "prove", "sent", "given" or "done"
    answers,        \* the challenges of the prover so far
    polys,          \* its polynomials so far
    proof,          \* its messages so far
    given,          \* the bytes that the verifiers are given
    verdicts,       \* what they say
    events

vars == <<statement, stage, answers, polys, proof, given, verdicts, events>>

Named(c) == [beta |-> c[1], gamma |-> c[2], alpha |-> c[3], zeta |-> c[4], v |-> c[5], u |-> c[6]]

-------------------------------------------------------------------------------
(* The verifying key of the circuit, and the bytes it and a proof have.    *)

VerifyingKey ==
    [size |-> 4, inputs |-> 2,
     sigma |-> [j \in Wires |-> Point(SigmaPolys[j][Tau])],
     selectors |-> [n \in 1..13 |-> Point(SelectorPolys[n][Tau])],
     k |-> [j \in Wires |-> Digits(K[j])],
     g |-> Point(1), h |-> Point(1), betaH |-> Point(Tau),
     powersOfH |-> <<Point(1), Point(Tau)>>, powersOfG |-> <<Point(1), Point(Tau)>>]

SrsG2 == <<"compressed", Point(Tau)>>

Each(op(_), s) == [n \in DOMAIN s |-> op(s[n])]

VkBlob == Blob(
    <<Word(VerifyingKey.size), Word(VerifyingKey.inputs), Word(5)>>
        \o Each(G1Bytes, VerifyingKey.sigma) \o <<Word(13)>>
        \o Each(G1Bytes, VerifyingKey.selectors) \o <<Word(5)>> \o Each(FrBytes, VerifyingKey.k)
        \o <<G1Bytes(VerifyingKey.g), G2Bytes(VerifyingKey.h), G2Bytes(VerifyingKey.betaH), Word(2)>>
        \o Each(G2Bytes, VerifyingKey.powersOfH) \o <<Word(2)>>
        \o Each(G1Bytes, VerifyingKey.powersOfG) \o <<Option(0), Option(0)>>)

ProofBlob(p) == Blob(
    <<Word(5)>> \o Each(G1Bytes, p.wires) \o <<G1Bytes(p.perm), Word(5)>>
        \o Each(G1Bytes, p.quot) \o <<G1Bytes(p.opening), G1Bytes(p.shifted), Word(5)>>
        \o Each(FrBytes, p.evals) \o <<Word(4)>> \o Each(FrBytes, p.sigma)
        \o <<FrBytes(p.next), Option(0)>>)

-------------------------------------------------------------------------------
(* The prover.                                                             *)

Challenge == Named([n \in 1..6 |-> IF n <= Len(answers) THEN answers[n] ELSE 0])

W == polys.w

Z == polys.z

\* The next challenges are usual, or one of them is not.
Answered(usual) ==
    \/ answers' = answers \o usual /\ UNCHANGED events
    \/ /\ events < MaxEvents /\ events' = events + 1
       /\ \E n \in DOMAIN usual : \E c \in UnusualAnswers[Len(answers) + n] \ {usual[n]} :
             answers' = answers \o [usual EXCEPT ![n] = c]

Round(before) == stage = "prove" /\ Len(answers) = before

SendWires ==
    /\ Round(0)
    /\ polys' = [w |-> WirePolys(statement.assigned)]
    /\ proof' = [wires |-> [j \in Wires |-> Point(polys'.w[j][Tau])]]
    /\ Answered(SubSeq(UsualAnswer, 1, 2))
    /\ UNCHANGED <<statement, stage, given, verdicts>>

SendPermutation ==
    /\ Round(2) /\ CanPermute(W, Challenge)
    /\ polys' = [z |-> PermutationPoly(W, Challenge)] @@ polys
    /\ proof' = [perm |-> Point(polys'.z[Tau])] @@ proof
    /\ Answered(<<UsualAnswer[3]>>)
    /\ UNCHANGED <<statement, stage, given, verdicts>>

\* The work between two messages: the polynomial to divide.
Multiply ==
    /\ Round(3) /\ "dividend" \notin DOMAIN polys
    /\ polys' = [dividend |-> Numerator(W, Z, InputPoly(statement.inputs), Challenge)] @@ polys
    /\ UNCHANGED <<statement, stage, answers, proof, given, verdicts, events>>

SendQuotient ==
    /\ Round(3) /\ "dividend" \in DOMAIN polys
    /\ polys' = [t |-> Quotient(polys.dividend), rest |-> Remainder(polys.dividend)] @@ polys
    /\ proof' = [quot |-> [m \in 1..5 |-> Point(Chunk(polys'.t, m, Tau))]] @@ proof
    /\ Answered(<<UsualAnswer[4]>>)
    /\ UNCHANGED <<statement, stage, given, verdicts>>

\* The values at zeta, and of the permutation at the next point; a scalar may
\* be written with the modulus added.
SendEvaluations ==
    /\ Round(4)
    /\ LET zeta == Challenge.zeta
           values == [j \in Wires |-> Digits(W[j][zeta])]
       IN  /\ proof' = [evals |-> values,
                        sigma |-> [j \in 1..4 |-> Digits(SigmaPolys[j][zeta])],
                        next  |-> Digits(Z[Mul(G, zeta)])] @@ proof
           /\ Answered(<<UsualAnswer[5]>>)
    /\ UNCHANGED <<statement, stage, polys, given, verdicts>>

SendNonCanonical ==
    /\ Round(4) /\ events < MaxEvents /\ events' = events + 1
    /\ LET zeta == Challenge.zeta
           alias(n, x) == Digits(x + n * P)
       IN  \E n \in 1..10 :
              proof' = [evals |-> [j \in Wires |-> alias(IF n = j THEN 1 ELSE 0, W[j][zeta])],
                        sigma |-> [j \in 1..4 |->
                                      alias(IF n = 5 + j THEN 1 ELSE 0, SigmaPolys[j][zeta])],
                        next  |-> alias(IF n = 10 THEN 1 ELSE 0, Z[Mul(G, zeta)])] @@ proof
    /\ answers' = Append(answers, UsualAnswer[5])
    /\ UNCHANGED <<statement, stage, polys, given, verdicts>>

\* What is opened at zeta, at a point x: the linearisation of the numerator and
\* the quotient, and the polynomials whose values were sent.
Opened(x) ==
    LET ch == Challenge
        zeta == ch.zeta
        w == [j \in Wires |-> W[j][zeta]]
        chunks == SumOf([m \in 1..5 |-> Mul(Power(Power(zeta, 6), m - 1), Chunk(polys.t, m, x))])
        labels == LabelFactor(W, ch, zeta)
        images == ProductOf([j \in 1..4 |->
                                Add(Add(w[j], Mul(ch.beta, SigmaPolys[j][zeta])), ch.gamma)])
        permuted == Sub(Mul(Z[x], labels),
                        Mul(Mul(Z[Mul(G, zeta)], images), Mul(ch.beta, SigmaPolys[5][x])))
    IN  SumOf(<<Gate(w, [n \in 1..13 |-> SelectorPolys[n][x]]), Mul(ch.alpha, permuted),
                Mul(Mul(ch.alpha, ch.alpha), Mul(Lagrange[1][zeta], Z[x])),
                Neg(Mul(ZH[zeta], chunks)),
                SumOf([j \in Wires |-> Mul(Power(ch.v, j), W[j][x])]),
                SumOf([j \in 1..4 |-> Mul(Power(ch.v, 5 + j), SigmaPolys[j][x])])>>)

\* The commitment to (f(X) - f(a)) / (X - a), when a is not the secret.
OpeningAt(atTau, atPoint, a) == Point(Mul(Sub(atTau, atPoint), Inv[Sub(Tau, a)]))

SendOpenings ==
    /\ Round(5) /\ Tau \notin {Challenge.zeta, Mul(G, Challenge.zeta)}
    /\ LET zeta == Challenge.zeta
       IN  proof' = [opening |-> OpeningAt(Opened(Tau), Opened(zeta), zeta),
                     shifted |-> OpeningAt(Z[Tau], Z[Mul(G, zeta)], Mul(G, zeta))] @@ proof
    /\ Answered(<<UsualAnswer[6]>>)
    /\ stage' = "sent"
    /\ UNCHANGED <<statement, polys, given, verdicts>>

-------------------------------------------------------------------------------
(* On the way.                                                             *)

Intact ==
    [vk |-> VkBlob, proof |-> ProofBlob(proof),
     inputs |-> Each(LAMBDA x : Swap(Digits(x)), statement.inputs)]

\* Other bytes of the same length.
OtherValues(part) ==
    CASE part.len = 8  -> {part.value + 1, 2 * part.value}
      [] part.len = 1  -> {1}
      [] part.len = 32 -> {Digits((FromLe(part.value) + 1) % P), Swap(part.value)} \ {part.value}
      [] OTHER -> {Point((part.value.xy + 1) % P),
                   [part.value EXCEPT !.infinity = ~@]}

Changed(blob) ==
    {[blob EXCEPT ![n].value = x] : <<n, x>> \in
        UNION {{n} \X OtherValues(blob[n]) : n \in DOMAIN blob}}
      \cup {SubSeq(blob, 1, Len(blob) - 1), Blob(Append(blob, Option(0)))}

ChangedInputs(inputs) ==
    {[inputs EXCEPT ![n] = Swap(Digits(x))] : n \in DOMAIN inputs, x \in {0, P}}
      \cup {Tail(inputs), inputs \o inputs} \cup {Append(inputs, inputs[1])}

Deliver ==
    /\ stage = "sent"
    /\ \/ given' = Intact /\ UNCHANGED events
       \/ /\ events < MaxEvents /\ events' = events + 1
          /\ \/ \E blob \in Changed(Intact.proof) : given' = [Intact EXCEPT !.proof = blob]
             \/ \E blob \in Changed(Intact.vk) : given' = [Intact EXCEPT !.vk = blob]
             \/ \E inputs \in ChangedInputs(Intact.inputs) :
                   given' = [Intact EXCEPT !.inputs = inputs]
    /\ stage' = "given"
    /\ UNCHANGED <<statement, answers, polys, proof, verdicts>>

-------------------------------------------------------------------------------
(* The verifiers.                                                          *)

GivenVk == Contract!ParseVk(given.vk)

GivenProof == Contract!ParseProof(given.proof)

\* The challenges of a verifier, from what it hashes of what it was given and of
\* what the prover sent.
Heard(queries, proverQueries) ==
    Named([n \in 1..6 |-> IF queries[n] = proverQueries[n] THEN answers[n] ELSE OtherAnswer[n]])

ContractQueries(vk, inputs, p) == Contract!Queries(vk, SrsG2, inputs, p)

CoreQueries(vk, inputs, p) == Core!Queries(vk, Core!CompressedG2(vk), inputs, p)

ContractParsed == Contract!Parsed(given.vk, given.proof, given.inputs)

CoreParsed == Core!ProofWellFormed(given.proof) /\ Core!VkWellFormed(given.vk)

ContractVerdict ==
    Contract!Verify(GivenVk, GivenProof, given.inputs,
        Heard(ContractQueries(GivenVk, given.inputs, GivenProof),
              ContractQueries(VerifyingKey, Intact.inputs, proof)))

CoreVerdict ==
    LET vk == Core!ParseVk(given.vk)
        p  == Core!ParseProof(given.proof)
    IN  Core!Verify(vk, p, given.inputs,
            Heard(CoreQueries(vk, given.inputs, p),
                  CoreQueries(VerifyingKey, Intact.inputs, proof)))

Check ==
    /\ stage = "given"
    /\ stage' = "done"
    /\ verdicts' = [contract |-> IF ContractParsed THEN ContractVerdict ELSE "parse",
                    core     |-> IF CoreParsed THEN CoreVerdict ELSE "parse"]
    /\ UNCHANGED <<statement, answers, polys, proof, given, events>>

-------------------------------------------------------------------------------

Init ==
    /\ statement \in Statements
    /\ stage = "prove" /\ answers = <<>> /\ polys = <<>> /\ proof = <<>> /\ given = <<>>
    /\ verdicts = <<>> /\ events = 0

Next ==
    \/ SendWires \/ SendPermutation \/ Multiply \/ SendQuotient \/ SendEvaluations \/ SendNonCanonical
    \/ SendOpenings \/ Deliver \/ Check

Spec == Init /\ [][Next]_vars

-------------------------------------------------------------------------------
(* Properties.                                                             *)

Done == stage = "done"

Unchanged == given = Intact

Reduced(p) == /\ \A n \in 1..5 : Canonical(p.evals[n])
              /\ \A n \in 1..4 : Canonical(p.sigma[n])
              /\ Canonical(p.next)

\* The type of each variable, and what of the proof there is at each stage.
TypeOK ==
    /\ statement \in Statements
    /\ stage \in {"prove", "sent", "given", "done"}
    /\ answers \in Seq(Field) /\ Len(answers) \in {0, 2, 3, 4, 5, 6}
    /\ events \in 0..MaxEvents
    /\ stage # "prove" => Len(answers) = 6

\* A proof of a satisfied circuit that arrives as it was sent is accepted by the
\* contract, whatever the challenges are, also when zeta is a point of the domain.
HonestProofIsAccepted ==
    Done /\ Unchanged /\ Satisfied(statement.assigned, statement.inputs)
        => verdicts.contract = "ok"

\* A proof of a circuit that is not satisfied is accepted only for the zetas at
\* which what remains of the division happens to vanish.
FalseProofNeedsLuck ==
    Done /\ Unchanged /\ ~Satisfied(statement.assigned, statement.inputs)
        => (verdicts.contract = "ok"
              <=> SumOf([n \in 1..4 |-> Mul(polys.rest[n - 1], Power(Challenge.zeta, n - 1))]) = 0)

\* What the contract hashes tells apart all proofs and public inputs that it
\* reads to the end: two of them cannot share all the challenges.
ChangeIsHashed ==
    /\ Done /\ verdicts.contract \in {"ok", "pairing"}
    /\ ContractQueries(GivenVk, given.inputs, GivenProof)
         = ContractQueries(VerifyingKey, Intact.inputs, proof)
    => given.proof = Intact.proof /\ given.inputs = Intact.inputs

\* The two copies parse and hash the same, and accept the same, but for a scalar
\* that is not reduced, which the contract takes, and a key with another power
\* of the secret, which the contract does not hash.
CopiesAgree ==
    Done =>
        /\ Contract!ProofWellFormed(given.proof) <=> Core!ProofWellFormed(given.proof)
        /\ Contract!VkWellFormed(given.vk) <=> Core!VkWellFormed(given.vk)
        /\ ContractParsed =>
              /\ GivenProof = Core!ParseProof(given.proof)
              /\ GivenVk = Core!ParseVk(given.vk)
              /\ GivenVk.powersOfH = VerifyingKey.powersOfH =>
                    /\ ContractQueries(GivenVk, given.inputs, GivenProof)
                         = CoreQueries(GivenVk, given.inputs, GivenProof)
                    /\ verdicts.core = "ok" => verdicts.contract = "ok"
                    /\ verdicts.contract = "ok" /\ Reduced(GivenProof)
                          /\ (\A j \in Wires : Canonical(GivenVk.k[j])) => verdicts.core = "ok"
              /\ ~Reduced(GivenProof) => verdicts.core # "ok"

===============================================================================
