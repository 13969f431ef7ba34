---------------------------- MODULE MCCeremonyTier ----------------------------
(***************************************************************************)
(* Small instances of CeremonyTier for TLC, in one run: many signups and   *)
(* one round of uploads, or one signup and a longer chain of rounds.       *)
(***************************************************************************)
EXTENDS CeremonyTier, TLC

VARIABLE bounded    \* what there is little of

BoundedInit == Init /\ bounded \in {"rounds", "signups"} /\ (bounded = "signups" => slotSecs = 1)

BoundedNext ==
    /\ Next
    /\ bounded = "rounds" =>
          \A t \in Tasks : op'[t].pc \in ContributePcs => op'[t].up.round <= 1
    /\ bounded = "signups" => Len(signups') <= 1 /\ slotSecs' = 1
    /\ UNCHANGED bounded

BoundedSpec == BoundedInit /\ [][BoundedNext]_<<vars, bounded>>

\* Participants are interchangeable, and so are tasks; used for safety only.
Symmetry == Permutations(Pubkeys) \cup Permutations(Tasks)
===============================================================================
