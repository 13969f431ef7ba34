------------------------------ MODULE MCServices ------------------------------
(***************************************************************************)
(* Small instances for TLC of three services that share no state with each *)
(* other: the transaction relayer, the keys of the group registry, and the *)
(* gateways of the push relay.                                             *)
(***************************************************************************)
EXTENDS Relayer, SepKeys, PushGateways, TLC

VARIABLE service    \* the one that runs

vars == <<relayerVars, keysVars, gatewayVars, service>>

Init ==
    /\ RelayerInit /\ KeysInit /\ GatewaysInit
    /\ service \in {"relayer", "keys", "gateways"}

Next ==
    /\ \/ service = "relayer" /\ RelayerNext /\ UNCHANGED <<keysVars, gatewayVars>>
       \/ service = "keys" /\ KeysNext /\ UNCHANGED <<relayerVars, gatewayVars>>
       \/ service = "gateways" /\ GatewaysNext /\ UNCHANGED <<relayerVars, keysVars>>
    /\ UNCHANGED service

Spec == Init /\ [][Next]_vars

-------------------------------------------------------------------------------

Asked(function, key, proof, inputs) ==
    [token |-> "t", contract |-> ContractId, function |-> function,
     group |-> [k \in {"group_id", "groupID"} |-> IF k = key THEN "g" ELSE Missing],
     rest |-> "args", proof |-> proof, inputs |-> inputs]

\* Every function that takes a proof, reads, and requests that are refused or
\* fail at each place where they can.
RequestsUsed ==
    {Asked("update_commitment", "group_id", "p1", "i1"),
     Asked("update_commitment", "groupID", "p2", "i2"),
     Asked("consume_membership_proof", "group_id", "p3", "i3"),
     Asked("deactivate_group", "group_id", "p4", Missing),
     Asked("verify_membership", "groupID", Malformed, "i5"),
     Asked("verify_membership", "groupID", Missing, "i5"),
     Asked("get_state", "none", Missing, Missing),
     Asked("get_history", "group_id", Missing, Missing),
     [Asked("get_state", "group_id", Missing, Missing) EXCEPT !.token = Missing],
     [Asked("get_state_v2", "group_id", Missing, Missing) EXCEPT !.contract = "other"]}

\* Two keys of each length, and one of each with a point outside the subgroup.
KeysOffered ==
    [name : {1, 2}, ic : {3, 4, 6}, inSubgroup : {TRUE}]
    \cup [name : {3}, ic : {3, 4, 6}, inSubgroup : {FALSE}]

\* A subscription on each platform, one with an address that is refused, and
\* one with a key that is too short.
BodiesUsed ==
    LET Url(host) == [scheme |-> "https", host |-> host] IN
    [s \in Subs |->
        CASE s = "ios"   -> [platform |-> "ios", token |-> "t", keyLength |-> 32]
          [] s = "short" -> [platform |-> "ios", token |-> "t", keyLength |-> 16]
          [] s = "fcm"   -> [platform |-> "android-fcm", token |-> "t", keyLength |-> 32]
          [] s = "up"    -> [platform |-> "android-up", token |-> Url("public"), keyLength |-> 32]
          [] s = "local" -> [platform |-> "android-up", token |-> Url("localhost"), keyLength |-> 32]]

Symmetry == Permutations(Slots) \cup Permutations(Clients)
===============================================================================
