------------------------------ MODULE MCGroupSync ------------------------------
(***************************************************************************)
(* Instances of GroupSync for TLC.                                         *)
(***************************************************************************)
EXTENDS GroupSync, TLC

CONSTANTS a, b, c

\* Two members and a guest, or three members.
FirstRosters == {{a, b}, {a, b, c}}

\* The two that are members from the start are alike.
Alike == Permutations({a, b})

===============================================================================
