--------------------------- MODULE MCCeremonyPhases ---------------------------
(***************************************************************************)
(* What CeremonyTier leaves out of the coordinator: the contents of phase  *)
(* 1 and the administration of phase 2.  No handler of one reads or writes *)
(* a variable of the other (contribute never looks at the freeze), so a    *)
(* run explores the two side by side instead of interleaving them: each    *)
(* behaviour is one of PowersOfTau or one of CeremonyAdmin.              *)
(***************************************************************************)
EXTENDS PowersOfTau, CeremonyAdmin, TLC

VARIABLE half

vars == <<half, chainVars, adminVars>>

Init ==
    /\ half \in {"chain", "admin"}
    /\ ChainInit
    /\ AdminInit

Next ==
    \/ half = "chain" /\ ChainNext /\ UNCHANGED <<half, adminVars>>
    \/ half = "admin" /\ AdminNext /\ UNCHANGED <<half, chainVars>>

Spec == Init /\ [][Next]_vars

\* Two honest sets of secrets, and one that the tool must refuse.
SecretsUsed ==
    {[tau |-> 2, alpha |-> 3, beta |-> 2], [tau |-> 3, alpha |-> 4, beta |-> 4],
     [tau |-> 0, alpha |-> 2, beta |-> 2]}

\* Two faults that verify-contribution catches, three that the other checks
\* do, and two vectors of another length, which none minds.
FaultsUsed ==
    {NoFault,
     [part |-> "beta_g2", factors |-> <<2>>],
     [part |-> "tau_g1", factors |-> <<2, 2, 2, 2, 2>>],
     [part |-> "alpha_tau_g1", factors |-> <<1, 1, 2>>],
     [part |-> "beta_tau_g1", factors |-> <<2, 2, 2>>],
     [part |-> "tau_g1", factors |-> <<1, 1, 1, 1, 2>>],
     [part |-> "alpha_tau_g1", factors |-> <<1, 1>>],
     [part |-> "tau_g2", factors |-> <<1, 1, 1, 1>>]}

\* Participants, requests, event ids and files are interchangeable.
Symmetry ==
    Permutations(Participants) \cup Permutations(Requests)
        \cup Permutations(Events) \cup Permutations(Zkeys)
===============================================================================
