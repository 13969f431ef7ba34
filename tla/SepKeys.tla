------------------------------- MODULE SepKeys -------------------------------
(***************************************************************************)
(* The verification keys of the main group registry contract,              *)
(* contracts/sep-xxxx/src/lib.rs: how they are installed, rotated by the   *)
(* admin, renewed by anybody, and chosen by the entry points that verify a *)
(* proof.  The groups themselves are SepRegistry's; both see time pass in  *)
(* the same way, but nothing that happens to a group renews a key.         *)
(***************************************************************************)
EXTENDS Naturals, SorobanStorage

CONSTANTS
    KeyTiers,       \* tiers that have keys: 0..2
    KeyTierArgs,    \* tiers a caller may name
    GroupTypeArgs,  \* group types a caller may name
    KeyData,        \* keys a caller may offer: [name, ic, inSubgroup]
    KeyThreshold,   \* LEDGER_THRESHOLD
    KeyBump,        \* LEDGER_BUMP
    NoKey,
    MaxRotations    \* bound: calls of update_vk

ASSUME KeysAssumption ==
    /\ KeyTiers \subseteq 0..2 /\ KeyTierArgs \subseteq Nat /\ GroupTypeArgs \subseteq Nat
    /\ KeyThreshold \in Nat \ {0} /\ KeyBump \in Nat /\ MaxRotations \in Nat

\* Here the network's minimum is longer than the contract's threshold, as on
\* the public network.
ASSUME LongMinTtl == KeyThreshold <= MinTtl /\ KeyThreshold <= KeyBump

VARIABLES
    keys,           \* the keys in persistent storage
    instanceTtl,    \* what the instance storage has left, with the admin in it; 0: not there
    given,          \* history: the key last accepted for each kind and tier
    unwatched,      \* history: ledgers since the last bump_vks, up to the threshold
    rotations

keysVars == <<keys, instanceTtl, given, unwatched, rotations>>

-------------------------------------------------------------------------------

VK(tier)                    == <<"VK", tier>>
UpdateVK(tier)              == <<"UpdateVK", tier>>
UpdateVKByType(tier, gtype) == <<"UpdateVKByType", tier, gtype>>
AdminUpdateVK               == <<"AdminUpdateVK">>

\* VkKind: what a caller of update_vk names; a group type goes with one kind.
VkKinds == {[kind |-> k] : k \in {"Membership", "Update", "AdminUpdate"}}
           \cup [kind : {"UpdateByType"}, gtype : GroupTypeArgs]

SlotOf(kind, tier) ==
    CASE kind.kind = "Membership"   -> VK(tier)
      [] kind.kind = "Update"       -> UpdateVK(tier)
      [] kind.kind = "UpdateByType" -> UpdateVKByType(tier, kind.gtype)
      [] kind.kind = "AdminUpdate"  -> AdminUpdateVK

IcLength == [Membership |-> 3, Update |-> 4, UpdateByType |-> 6, AdminUpdate |-> 4]

\* The length that the kind's circuit has, and validate_vk_points.
Fits(key, kind) == key.ic = IcLength[kind] /\ key.inSubgroup

\* The names under which `given` remembers a key.
Names == {<<k, t>> : k \in {"Membership", "Update", "UpdateByType"}, t \in KeyTiers}
         \cup {<<"AdminUpdate", 0>>}

NameOf(kind, tier) == <<kind.kind, IF kind.kind = "AdminUpdate" THEN 0 ELSE tier>>

\* A new key: written, then extend_ttl.
Install(s, k, key) == ExtendIn(Set(s, k, key), {k}, KeyThreshold, KeyBump)

-------------------------------------------------------------------------------

Alive == instanceTtl > 0

KeysInit ==
    /\ keys = EmptyStorage /\ instanceTtl = 0
    /\ given = [n \in Names |-> NoKey]
    /\ unwatched = 0 /\ rotations = 0

\* __constructor and initialize: both keys of every tier at once, and only once.
DoInitialize ==
    /\ ~Alive /\ keys = EmptyStorage
    /\ \E vk, updateVk \in [KeyTiers -> KeyData] :
        /\ \A t \in KeyTiers : Fits(vk[t], "Membership") /\ Fits(updateVk[t], "Update")
        /\ keys' = [k \in {VK(t) : t \in KeyTiers} \cup {UpdateVK(t) : t \in KeyTiers} |->
                       [v |-> IF k[1] = "VK" THEN vk[k[2]] ELSE updateVk[k[2]],
                        ttl |-> Extended(MinTtl, KeyThreshold, KeyBump)]]
        /\ given' = [n \in Names |->
                        CASE n[1] = "Membership" -> vk[n[2]]
                          [] n[1] = "Update"     -> updateVk[n[2]]
                          [] OTHER               -> NoKey]
    /\ instanceTtl' = MinTtl
    /\ unwatched' = 0 /\ UNCHANGED rotations

\* update_vk, by the admin: of the tier only an admin key's is not looked at.
RotateVk(kind, tier, key) ==
    /\ Alive /\ rotations < MaxRotations
    /\ kind.kind # "AdminUpdate" => tier \in KeyTiers
    /\ kind.kind = "UpdateByType" => kind.gtype = 2
    /\ Fits(key, kind.kind)
    /\ keys' = Install(keys, SlotOf(kind, tier), key)
    /\ given' = [given EXCEPT ![NameOf(kind, tier)] = key]
    /\ rotations' = rotations + 1
    /\ UNCHANGED <<instanceTtl, unwatched>>

\* A defect: the keys of one kind left out.
RenewedButTyped ==
    {VK(t) : t \in KeyTiers} \cup {UpdateVK(t) : t \in KeyTiers} \cup {AdminUpdateVK}

\* The keys that bump_vks knows.
Renewed ==
    {VK(t) : t \in KeyTiers} \cup {UpdateVK(t) : t \in KeyTiers}
    \cup {UpdateVKByType(t, 2) : t \in KeyTiers} \cup {AdminUpdateVK}

\* bump_vks, by anybody: the keys that are there, and the instance storage.
BumpVks ==
    /\ Alive
    /\ keys' = ExtendIn(keys, Renewed, KeyThreshold, KeyBump)
    /\ instanceTtl' = Extended(instanceTtl, KeyThreshold, KeyBump)
    /\ unwatched' = IF unwatched < KeyThreshold THEN 0 ELSE unwatched
    /\ UNCHANGED <<given, rotations>>

\* A ledger closes.  An instance whose time is over answers no call.
LedgerPasses ==
    /\ Alive
    /\ keys' = Age(keys)
    /\ instanceTtl' = instanceTtl - 1
    /\ unwatched' = IF unwatched < KeyThreshold THEN unwatched + 1 ELSE unwatched
    /\ UNCHANGED <<given, rotations>>

KeysNext ==
    \/ DoInitialize
    \/ \E kind \in VkKinds, t \in KeyTierArgs, key \in KeyData : RotateVk(kind, t, key)
    \/ BumpVks
    \/ LedgerPasses

KeysSpec == KeysInit /\ [][KeysNext]_keysVars

-------------------------------------------------------------------------------
(* load_vk, load_update_vk, load_update_vk_by_type and                     *)
(* load_admin_update_vk: the key under which a statement is verified.      *)

Loaded(statement, tier) ==
    CASE statement = "membership"       -> Get(keys, VK(tier), NoKey)
      [] statement = "update"           -> Get(keys, UpdateVK(tier), NoKey)
      [] statement = "democracy update" -> Get(keys, UpdateVKByType(tier, 2), NoKey)
      [] statement = "admin update"     -> Get(keys, AdminUpdateVK, NoKey)

KindOf == [s \in {"membership", "update", "democracy update", "admin update"} |->
    CASE s = "membership"       -> "Membership"
      [] s = "update"           -> "Update"
      [] s = "democracy update" -> "UpdateByType"
      [] s = "admin update"     -> "AdminUpdate"]

NameUnder(statement, tier) ==
    <<KindOf[statement], IF statement = "admin update" THEN 0 ELSE tier>>

(***************************************************************************)
(* update_vk, the load_*vk functions and bump_vks: a proof is verified     *)
(* under the key last accepted for its statement and tier, or that one has *)
(* expired; and while anybody calls bump_vks more often than once in       *)
(* LEDGER_THRESHOLD ledgers, no key and no admin is ever lost, whenever    *)
(* the keys were installed and rotated.                                    *)
(***************************************************************************)
LatestOrNone(s, t) == Loaded(s, t) \in {given[NameUnder(s, t)], NoKey}

Watched == given # [n \in Names |-> NoKey] /\ unwatched < KeyThreshold

WatchedKeysLive ==
    /\ Alive => \A s \in DOMAIN KindOf, t \in KeyTiers : LatestOrNone(s, t)
    /\ Watched =>
        /\ Alive
        /\ \A s \in DOMAIN KindOf, t \in KeyTiers :
              given[NameUnder(s, t)] # NoKey => Loaded(s, t) # NoKey

===============================================================================
