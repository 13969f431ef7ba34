----------------------------- MODULE CeremonySrs -----------------------------
(***************************************************************************)
(* The structured reference string a round publishes, as far as the        *)
(* coordinator can tell one from another: an SRS is identified by the      *)
(* secrets that went into it, in order (src/ceremony/mod.rs, hash_srs and  *)
(* run_ceremony).  Every participant mixes in a fresh secret, so the SRS   *)
(* a participant derives is determined by the SRS it started from.         *)
(***************************************************************************)
EXTENDS Sequences

CONSTANTS
    Pubkeys,      \* the participants that sign up
    NoPubkey      \* a receipt that names none of them

ASSUME PubkeyAssumption == NoPubkey \notin Pubkeys

\* Who the `participant=` line of a receipt can name.
Participants == Pubkeys \cup {NoPubkey}

\* The SRS `ceremony_tool init` writes for round 0.
Genesis == << >>

\* The SRS participant p derives from `srs` with a secret of its own.
Contribute(srs, p) == Append(srs, p)
===============================================================================
