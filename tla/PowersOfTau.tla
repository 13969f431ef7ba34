----------------------------- MODULE PowersOfTau -----------------------------
(***************************************************************************)
(* The powers-of-tau arithmetic of src/ceremony/mod.rs, the file format of *)
(* src/ceremony/phase2.rs and the commands over such files.  A group       *)
(* element is its discrete logarithm in a small prime field, so that       *)
(* scaling a point is a product and a pairing is the product of two        *)
(* logarithms.  Vectors start at 1: the i-th power stands at i + 1.        *)
(***************************************************************************)
EXTENDS Naturals, Sequences

CONSTANTS
    Q,          \* the order of the groups
    Degree      \* required_degree(tier)

ASSUME ArithmeticAssumption == Q \in Nat \ {0, 1} /\ Degree \in Nat \ {0, 1}

Scalar == 0 .. Q - 1

Times(a, b) == (a * b) % Q

\* The order is a prime.
ASSUME OrderAssumption == \A a \in Scalar \ {0} : \E b \in Scalar : Times(a, b) = 1

Pairing(g1, g2) == Times(g1, g2)

Generator == 1

Secrets == [tau : Scalar, alpha : Scalar, beta : Scalar]

\* What `pow` is in each turn of the loops below.
Powers(s) == LET pow[i \in Nat] == IF i = 0 THEN 1 ELSE Times(pow[i - 1], s) IN pow

PowersOfScalar(s, coeff, n) == [i \in 1..n |-> Times(coeff, Powers(s)[i - 1])]

UpdatePowers(old, base, coeff) ==
    [i \in DOMAIN old |-> Times(old[i], Times(coeff, Powers(base)[i - 1]))]

-------------------------------------------------------------------------------
(* Contributions *)

\* The powers of some secrets, so many of them in each vector.
PowersOfSecrets(s, size) ==
    [tau_g1       |-> PowersOfScalar(s.tau, 1, size.tau_g1),
     tau_g2       |-> PowersOfScalar(s.tau, 1, size.tau_g2),
     alpha_tau_g1 |-> PowersOfScalar(s.tau, s.alpha, size.alpha_tau_g1),
     beta_tau_g1  |-> PowersOfScalar(s.tau, s.beta, size.beta_tau_g1),
     beta_g2      |-> s.beta]

SizeOfTier ==
    [tau_g1 |-> 2 * Degree - 1, tau_g2 |-> Degree, alpha_tau_g1 |-> Degree, beta_tau_g1 |-> Degree]

Initialize(s) == PowersOfSecrets(s, SizeOfTier)

Contribute(srs, delta) ==
    [tau_g1       |-> UpdatePowers(srs.tau_g1, delta.tau, 1),
     tau_g2       |-> UpdatePowers(srs.tau_g2, delta.tau, 1),
     alpha_tau_g1 |-> UpdatePowers(srs.alpha_tau_g1, delta.tau, delta.alpha),
     beta_tau_g1  |-> UpdatePowers(srs.beta_tau_g1, delta.tau, delta.beta),
     beta_g2      |-> Times(srs.beta_g2, delta.beta)]

\* A point with a random mask, and the same point times the secret.
ContributionProof(delta, mask) ==
    [tau_proof   |-> <<mask, Times(delta.tau, mask)>>,
     alpha_proof |-> <<mask, Times(delta.alpha, mask)>>,
     beta_proof  |-> <<mask, Times(delta.beta, mask)>>]

-------------------------------------------------------------------------------
(* Checks *)

ProofIsNonzero(proof) ==
    \A p \in {proof.tau_proof, proof.alpha_proof, proof.beta_proof} : p[1] # 0 /\ p[2] # 0

HasTwoPowers(srs) ==
    \A v \in {srs.tau_g1, srs.tau_g2, srs.alpha_tau_g1, srs.beta_tau_g1} : Len(v) >= 2

SrsIsNonzero(srs) ==
    /\ srs.tau_g1[2] # 0 /\ srs.tau_g2[2] # 0
    /\ srs.alpha_tau_g1[1] # 0 /\ srs.beta_tau_g1[1] # 0 /\ srs.beta_g2 # 0

\* What a proof says of the secrets before and after.
\* Mutant: nothing of beta.
ProofMatchesTauAlpha(before, after, proof) ==
    /\ Pairing(proof.tau_proof[1], after.tau_g2[2]) = Pairing(proof.tau_proof[2], before.tau_g2[2])
    /\ Pairing(after.alpha_tau_g1[1], proof.alpha_proof[1])
         = Pairing(before.alpha_tau_g1[1], proof.alpha_proof[2])

ProofMatches(before, after, proof) ==
    /\ Pairing(proof.tau_proof[1], after.tau_g2[2]) = Pairing(proof.tau_proof[2], before.tau_g2[2])
    /\ Pairing(after.alpha_tau_g1[1], proof.alpha_proof[1])
         = Pairing(before.alpha_tau_g1[1], proof.alpha_proof[2])
    /\ Pairing(proof.beta_proof[1], after.beta_g2) = Pairing(proof.beta_proof[2], before.beta_g2)

\* Only the first powers are looked at, and beta_g2 never beside beta_tau_g1.
CrossChecks(after) ==
    /\ Pairing(after.tau_g1[2], Generator) = Pairing(Generator, after.tau_g2[2])
    /\ Pairing(after.alpha_tau_g1[2], Generator) = Pairing(after.alpha_tau_g1[1], after.tau_g2[2])
    /\ Pairing(after.beta_tau_g1[2], Generator) = Pairing(after.beta_tau_g1[1], after.tau_g2[2])

VerifyContribution(before, after, proof) ==
    /\ ProofIsNonzero(proof) /\ HasTwoPowers(after) /\ SrsIsNonzero(after)
    /\ ProofMatches(before, after, proof)
    /\ CrossChecks(after)

\* v is a geometric sequence with the ratio of the G2 point `step`.
Geometric(v, step) ==
    \A i \in 1 .. Len(v) - 1 : Pairing(v[i], step) = Pairing(v[i + 1], Generator)

\* Mutant: beta_tau_g1 is not compared with beta_g2.
ConsistencyWithoutBeta(srs) ==
    /\ Len(srs.tau_g1) >= 2 /\ Len(srs.tau_g2) >= 2 /\ SrsIsNonzero(srs)
    /\ Geometric(srs.tau_g1, srs.tau_g2[2])
    /\ Geometric(srs.tau_g2, srs.tau_g1[2])
    /\ Geometric(srs.alpha_tau_g1, srs.tau_g2[2])
    /\ Geometric(srs.beta_tau_g1, srs.tau_g2[2])
    /\ Pairing(srs.tau_g1[2], Generator) = Pairing(Generator, srs.tau_g2[2])

VerifyConsistency(srs) ==
    /\ Len(srs.tau_g1) >= 2 /\ Len(srs.tau_g2) >= 2 /\ SrsIsNonzero(srs)
    /\ Geometric(srs.tau_g1, srs.tau_g2[2])
    /\ Geometric(srs.tau_g2, srs.tau_g1[2])
    /\ Geometric(srs.alpha_tau_g1, srs.tau_g2[2])
    /\ Geometric(srs.beta_tau_g1, srs.tau_g2[2])
    /\ Pairing(srs.tau_g1[2], Generator) = Pairing(Generator, srs.tau_g2[2])
    /\ Pairing(srs.beta_tau_g1[1], Generator) = Pairing(Generator, srs.beta_g2)

\* The first contribution starts from the generators: all secrets 1.
VerifyInitialContribution(srs, proof) ==
    /\ ProofIsNonzero(proof) /\ HasTwoPowers(srs) /\ SrsIsNonzero(srs)
    /\ ProofMatches(Initialize([tau |-> 1, alpha |-> 1, beta |-> 1]), srs, proof)
    /\ VerifyConsistency(srs)

-------------------------------------------------------------------------------
(* state.srs: four vectors, each after its length, and one more point.     *)
(* hash_srs is the SHA-256 of these very bytes, which name the SRS.        *)

Counted(v) == <<Len(v)>> \o v

ExportSrs(srs) ==
    Counted(srs.tau_g1) \o Counted(srs.tau_g2) \o Counted(srs.alpha_tau_g1)
        \o Counted(srs.beta_tau_g1) \o <<srs.beta_g2>>

HashSrs(srs) == ExportSrs(srs)

\* Where the vector after the one whose length stands at `at` starts.
AfterVector(bytes, at) == at + bytes[at] + 1

ReadVector(bytes, at) == SubSeq(bytes, at + 1, at + bytes[at])

\* Whatever follows the last point is left unread.
ImportSrs(bytes) ==
    LET g2    == AfterVector(bytes, 1)
        alpha == AfterVector(bytes, g2)
        beta  == AfterVector(bytes, alpha)
    IN  [tau_g1       |-> ReadVector(bytes, 1),
         tau_g2       |-> ReadVector(bytes, g2),
         alpha_tau_g1 |-> ReadVector(bytes, alpha),
         beta_tau_g1  |-> ReadVector(bytes, beta),
         beta_g2      |-> bytes[AfterVector(bytes, beta)]]

-------------------------------------------------------------------------------
(* A transcript: the SRS after each contribution, with its record. *)

VerifyTranscript(transcript, final) ==
    LET n == Len(transcript)
    IN  /\ n > 0
        /\ \A i \in 1..n :
              /\ transcript[i].index = i - 1
              /\ transcript[i].srs_hash = HashSrs(transcript[i].srs)
              /\ VerifyConsistency(transcript[i].srs)
        /\ VerifyInitialContribution(transcript[1].srs, transcript[1].proof)
        /\ \A i \in 2..n :
              VerifyContribution(transcript[i - 1].srs, transcript[i].srs, transcript[i].proof)
        /\ HashSrs(transcript[n].srs) = HashSrs(final)

-------------------------------------------------------------------------------
(***************************************************************************)
(* The commands of src/bin/ceremony_tool.rs, through which participants,   *)
(* the seed and the coordinator (ceremony_exec.rs) compute and check, and  *)
(* their two counterparts for the browser (crates/ceremony-wasm).  A state *)
(* directory has three files: state.srs, the values of state.txt and those *)
(* of receipt.txt.  All directories are of one tier, so `tier` and         *)
(* `circuit_id` are left out.                                              *)
(***************************************************************************)

Error == [error |-> TRUE]

ContributionId(round, hash) == <<round, hash>>

StateDir(srs, round, before, proof) ==
    [srs     |-> ExportSrs(srs),
     state   |-> [round |-> round, srs_hash |-> HashSrs(srs),
                  contribution_id |-> ContributionId(round, HashSrs(srs))],
     receipt |-> [before_srs_hash |-> before, after_srs_hash |-> HashSrs(srs),
                  contribution_id |-> ContributionId(round, HashSrs(srs)), proof |-> proof]]

LoadSrs(dir) == ImportSrs(dir.srs)

HashIsAnnounced(dir) == HashSrs(LoadSrs(dir)) = dir.state.srs_hash

-------------------------------------------------------------------------------
(* Faults.  A machine or a client of its own may compute part of an SRS    *)
(* wrongly, or for another tier, before it is hashed: beta_g2 gets a       *)
(* factor, or one vector gets any length and each of its points a factor.  *)
(* The SRS of a tier has SizeOfTier, but no command and no handler looks   *)
(* at a length beyond the checks above.                                    *)

Vectors == {"tau_g1", "tau_g2", "alpha_tau_g1", "beta_tau_g1"}

Faults ==
    [part : Vectors, factors : Seq(Scalar)]
        \cup [part : {"beta_g2"}, factors : [1..1 -> Scalar]]
        \cup [part : {"none"}, factors : {<< >>}]

NoFault == [part |-> "none", factors |-> << >>]

\* Beyond its end a vector goes on with the next powers.
Point(v, tau, i) == IF i \in DOMAIN v THEN v[i] ELSE Times(v[1], Powers(tau)[i - 1])

Altered(v, tau, factors) == [i \in DOMAIN factors |-> Times(factors[i], Point(v, tau, i))]

Damaged(srs, fault) ==
    CASE fault.part = "none"    -> srs
      [] fault.part = "beta_g2" -> [srs EXCEPT !.beta_g2 = Times(fault.factors[1], @)]
      [] OTHER -> [srs EXCEPT ![fault.part] = Altered(@, srs.tau_g2[2], fault.factors)]

-------------------------------------------------------------------------------
(* init and contribute *)

InitState(secrets, mask) ==
    LET srs   == Initialize(secrets)
        proof == ContributionProof(secrets, mask)
    IN  IF VerifyInitialContribution(srs, proof) THEN StateDir(srs, 0, << >>, proof) ELSE Error

ContributeState(dir, delta, mask, fault) ==
    LET before == LoadSrs(dir)
        after  == Damaged(Contribute(before, delta), fault)
        proof  == ContributionProof(delta, mask)
    IN  IF HashIsAnnounced(dir) /\ VerifyContribution(before, after, proof)
        THEN StateDir(after, dir.state.round + 1, dir.state.srs_hash, proof)
        ELSE Error

-------------------------------------------------------------------------------
(* verify-contribution, verify-state and phase2-summary *)

ArtifactsMatch(before, after) ==
    /\ after.state.round = before.state.round + 1
    /\ HashIsAnnounced(before) /\ HashIsAnnounced(after)
    /\ after.receipt.before_srs_hash = before.state.srs_hash
    /\ after.receipt.after_srs_hash = after.state.srs_hash
    /\ after.receipt.contribution_id = after.state.contribution_id

VerifyContributionArtifacts(before, after) ==
    /\ ArtifactsMatch(before, after)
    /\ VerifyContribution(LoadSrs(before), LoadSrs(after), after.receipt.proof)

VerifyState(dir) ==
    /\ HashIsAnnounced(dir)
    /\ VerifyConsistency(LoadSrs(dir))
    /\ dir.receipt.after_srs_hash = dir.state.srs_hash
    /\ dir.state.round = 0 => VerifyInitialContribution(LoadSrs(dir), dir.receipt.proof)

Phase2Summary(dir) ==
    IF HashIsAnnounced(dir) /\ VerifyConsistency(LoadSrs(dir))
    THEN [round |-> dir.state.round, phase1_srs_hash |-> dir.state.srs_hash,
          phase1_contribution_id |-> dir.state.contribution_id]
    ELSE Error

-------------------------------------------------------------------------------
(* The browser's checks.  verify_state_js takes every proof for the one of *)
(* an initial contribution.                                                *)

VerifyStateJs(dir) ==
    /\ HashIsAnnounced(dir)
    /\ VerifyConsistency(LoadSrs(dir))
    /\ VerifyInitialContribution(LoadSrs(dir), dir.receipt.proof)

ReceiptNamesBefore(before, after) ==
    after.receipt.before_srs_hash = HashSrs(LoadSrs(before))

VerifyContributionJs(before, after) ==
    /\ after.state.round = before.state.round + 1
    /\ ReceiptNamesBefore(before, after)
    /\ VerifyContribution(LoadSrs(before), LoadSrs(after), after.receipt.proof)

-------------------------------------------------------------------------------
(***************************************************************************)
(* The rounds of phase 1 of one tier with the SRSs they hold: what the     *)
(* coordinator accepts (handlers/upload.rs runs verify-contribution and    *)
(* nothing else) and what each of the other verifiers says of it later.    *)
(* CeremonyTier has the queue and the tier's mutex, under which an upload  *)
(* is one step here; a participant works on the round it downloaded for as *)
(* long as it likes, and may send the result again.                        *)
(***************************************************************************)

CONSTANTS
    Participants,
    SecretChoices,  \* secrets drawn by the seed and by participants
    MaskChoices,    \* masks of their proofs
    FaultChoices,   \* what may be computed wrongly
    MaxRounds       \* bound: rounds after round 0

ASSUME ChainAssumption ==
    /\ SecretChoices \subseteq Secrets /\ MaskChoices \subseteq Scalar
    /\ FaultChoices \subseteq Faults
    /\ MaxRounds \in Nat

VARIABLES
    chain,      \* the rounds; round i stands at i + 1
    work        \* what each participant has computed last, or Error

chainVars == <<chain, work>>

ChainInit == chain = << >> /\ work = [p \in Participants |-> Error]

HeadRound == chain[Len(chain)]

\* seed.rs; nothing to do once there is a round.
Seed(secrets, mask) ==
    /\ chain = << >>
    /\ InitState(secrets, mask) # Error
    /\ chain' = <<InitState(secrets, mask)>>
    /\ UNCHANGED work

\* Download the head and run `contribute` on it; it fails its own check or not.
Work(p, delta, mask, fault) ==
    /\ chain # << >> /\ Len(chain) <= MaxRounds
    /\ work' = [work EXCEPT ![p] = ContributeState(HeadRound, delta, mask, fault)]
    /\ UNCHANGED chain

\* The round the upload names must follow one that is there, and be new.
Upload(p) ==
    LET dir == work[p]
    IN  /\ dir # Error
        /\ dir.state.round = Len(chain)
        /\ VerifyContributionArtifacts(HeadRound, dir)
        /\ chain' = Append(chain, dir)
        /\ UNCHANGED work

ChainNext ==
    \/ \E s \in SecretChoices, m \in MaskChoices : Seed(s, m)
    \/ \E p \in Participants :
          \/ \E s \in SecretChoices, m \in MaskChoices, f \in FaultChoices : Work(p, s, m, f)
          \/ Upload(p)

ChainSpec == ChainInit /\ [][ChainNext]_chainVars

-------------------------------------------------------------------------------
(* Properties *)

\* What the proofs of rounds 0 .. n - 1 say was multiplied in.
Ratio(p) == Times(p[2], CHOOSE inv \in Scalar : Times(p[1], inv) = 1)

Ratios(field, n) == [i \in 1..n |-> Ratio(chain[i].receipt.proof[field])]

Running(v) == LET upTo[i \in 0..Len(v)] == IF i = 0 THEN 1 ELSE Times(upTo[i - 1], v[i]) IN upTo

Product(field, n) == Running(Ratios(field, n))[n]

Contributed(n) ==
    [tau |-> Product("tau_proof", n), alpha |-> Product("alpha_proof", n),
     beta |-> Product("beta_proof", n)]

(***************************************************************************)
(* mod.rs, verify_contribution and upload.rs: in every accepted round tau, *)
(* alpha and beta are the product of what the receipts prove, so no        *)
(* contribution is lost, replaced or built on another round.               *)
(***************************************************************************)
SecretsFollowReceipts ==
    \A n \in DOMAIN chain :
        LET srs == LoadSrs(chain[n])
            s   == Contributed(n)
        IN  /\ srs.tau_g1[2] = s.tau /\ srs.tau_g2[2] = s.tau
            /\ srs.alpha_tau_g1[1] = s.alpha /\ srs.beta_g2 = s.beta

(***************************************************************************)
(* mod.rs, verify_consistency: of the accepted rounds, verify-state, the   *)
(* freeze's summary, the browser's verify-state and the whole transcript's *)
(* check accept exactly those whose points are all the powers of the       *)
(* contributed secrets, though the coordinator's own check of a            *)
(* contribution let the others in; the browser's check of a contribution   *)
(* lets in what it did.  None of them says how many powers there are.      *)
(***************************************************************************)
SizeOf(srs) == [v \in Vectors |-> Len(srs[v])]

WellFormed(n) ==
    LET srs == LoadSrs(chain[n]) IN srs = PowersOfSecrets(Contributed(n), SizeOf(srs))

Transcript ==
    [n \in DOMAIN chain |->
        [index |-> n - 1, srs_hash |-> chain[n].state.srs_hash,
         srs |-> LoadSrs(chain[n]), proof |-> chain[n].receipt.proof]]

VerdictsAreExact ==
    /\ \A n \in DOMAIN chain :
          /\ VerifyState(chain[n]) <=> WellFormed(n)
          /\ Phase2Summary(chain[n]) # Error <=> WellFormed(n)
          /\ IF n = 1 THEN VerifyStateJs(chain[n]) <=> WellFormed(n)
             ELSE VerifyContributionJs(chain[n - 1], chain[n])
    /\ chain # << >> =>
          (VerifyTranscript(Transcript, LoadSrs(HeadRound)) <=> \A n \in DOMAIN chain : WellFormed(n))

===============================================================================
