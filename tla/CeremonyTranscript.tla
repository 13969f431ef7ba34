-------------------------- MODULE CeremonyTranscript --------------------------
(***************************************************************************)
(* What one tier of the trusted-setup ceremony promises to a verifier of   *)
(* its transcript: the published rounds form one chain.  Round 0 is the    *)
(* seed, every later round is derived from the round before it by one      *)
(* participant's secret, and a published round is never changed or         *)
(* withdrawn.  CeremonyTier, the model of the coordinator's handlers, is   *)
(* checked and proved to implement this module.                            *)
(***************************************************************************)
EXTENDS Naturals, CeremonySrs

VARIABLE chain     \* a function from the published round numbers to SRSs

NothingPublished == chain = [r \in {} |-> Genesis]

\* ceremony-coordinator/src/seed.rs publishes round 0.
PublishSeed ==
    /\ DOMAIN chain = {}
    /\ chain' = [r \in {0} |-> Genesis]

\* A verified contribution extends the chain by exactly one round.
PublishNext ==
    \E head \in DOMAIN chain, p \in Participants :
        /\ DOMAIN chain = 0..head
        /\ chain' = [r \in 0..(head + 1) |->
                        IF r <= head THEN chain[r]
                                     ELSE Contribute(chain[head], p)]

ChainSpec ==
    NothingPublished /\ [][PublishSeed \/ PublishNext]_chain
===============================================================================
