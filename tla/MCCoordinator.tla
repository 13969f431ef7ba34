---------------------------- MODULE MCCoordinator ----------------------------
(***************************************************************************)
(* Small instances for TLC of what the coordinator must do in the end: the *)
(* queue of a tier, with its reaper, and the publisher.  The handlers hand *)
(* the publisher an event and look at nothing it does, so a behaviour here *)
(* is one of the tier's or one of the publisher's.                         *)
(***************************************************************************)
EXTENDS CeremonyTier, NostrPublisher

VARIABLE part       \* the one that runs

runVars == <<vars, publisherVars, part>>

TierRuns(step) == part = "tier" /\ step /\ UNCHANGED <<publisherVars, part>>

PublisherRuns(step) == part = "publisher" /\ step /\ UNCHANGED <<vars, part>>

CoordinatorInit == Init /\ PublisherInit /\ part \in {"tier", "publisher"}

CoordinatorNext == TierRuns(Next) \/ PublisherRuns(PublisherNext)

\* The fairness of FairSpec and of FairPublisherSpec.
CoordinatorSpec ==
    /\ CoordinatorInit /\ [][CoordinatorNext]_runVars
    /\ SF_runVars(TierRuns(ReapStart)) /\ SF_runVars(TierRuns(ReapStale))
    /\ SF_runVars(TierRuns(ReapHead)) /\ SF_runVars(TierRuns(ReapExpire))
    /\ SF_runVars(TierRuns(Tick))
    /\ \A t \in Tasks : WF_runVars(TierRuns(Progress(t) \/ Fail(t)))
    /\ WF_runVars(PublisherRuns(PublisherConnects)) /\ WF_runVars(PublisherRuns(TakeEvent))
    /\ WF_runVars(PublisherRuns(SendOk)) /\ WF_runVars(PublisherRuns(SendLost \/ SendFails))
    /\ WF_runVars(PublisherRuns(Drain)) /\ WF_runVars(PublisherRuns(Reply))

===============================================================================
