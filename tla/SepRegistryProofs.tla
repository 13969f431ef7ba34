--------------------------- MODULE SepRegistryProofs ---------------------------
(***************************************************************************)
(* Proofs about SepRegistry, for any ids, commitments, nonces, tiers and   *)
(* capacities, any window and limit, and any lengths of life that keep     *)
(* MinTtl < Threshold < Bump.                                              *)
(***************************************************************************)
EXTENDS SepRegistry, TLAPS, FiniteSetTheorems

(***************************************************************************)
(* A group and its history, in either format, are there together and have  *)
(* the same time left, and no group has both formats.                      *)
(***************************************************************************)
Paired(s, g, h) == (Has(s, g) <=> Has(s, h)) /\ (Has(s, g) => s[g].ttl = s[h].ttl)

PartsTogether(s, id) ==
    /\ Paired(s, GroupV2(id), HistoryV2(id))
    /\ Paired(s, Group(id), History(id))
    /\ ~(Has(s, GroupV2(id)) /\ Has(s, Group(id)))

\* What TypeOK says of the storage, and the shape of its entries.
Sound(s) ==
    /\ Shaped(s)
    /\ \A k \in DOMAIN s : KeyTyped(k, s[k].v) /\ s[k].ttl \in 1..CountedBump

StorageInv ==
    /\ Sound(store)
    /\ TypeOK
    /\ \A id \in Ids : PartsTogether(store, id)

-------------------------------------------------------------------------------
(* Keys, and what the contract's helpers do to each.                       *)

LEMMA KeyParts ==
    ASSUME NEW x
    PROVE  /\ GroupV2(x)[1] = "GroupV2" /\ GroupV2(x)[2] = x
           /\ HistoryV2(x)[1] = "HistoryV2" /\ HistoryV2(x)[2] = x
           /\ Group(x)[1] = "Group" /\ Group(x)[2] = x
           /\ History(x)[1] = "History" /\ History(x)[2] = x
           /\ AdminSet(x)[1] = "AdminSet" /\ AdminSet(x)[2] = x
           /\ AdminEpoch(x)[1] = "AdminEpoch" /\ AdminEpoch(x)[2] = x
           /\ GroupCounted(x)[1] = "GroupCounted" /\ GroupCounted(x)[2] = x
           /\ UsedProof(x)[1] = "UsedProof" /\ UsedProof(x)[2] = x
BY DEF GroupV2, HistoryV2, Group, History, AdminSet, AdminEpoch, GroupCounted, UsedProof

LEMMA Constants ==
    /\ MinTtl \in Nat \ {0} /\ Threshold \in Nat /\ Bump \in Nat
    /\ MinTtl < Threshold /\ Threshold < Bump
    /\ CountedBump = 2 * Bump /\ CountedThreshold = Bump + Threshold
    /\ CountedBump \in Nat /\ CountedThreshold \in Nat
BY MinTtlAssumption, RegistryAssumption, ShortMinTtl DEF CountedBump, CountedThreshold

LEMMA Lives ==
    ASSUME NEW ttl \in 1..CountedBump
    PROVE  /\ Extended(ttl, Threshold, Bump) \in 1..CountedBump
           /\ Extended(ttl, CountedThreshold, CountedBump) \in 1..CountedBump
           /\ ttl > 1 => ttl - 1 \in 1..CountedBump
           /\ MinTtl \in 1..CountedBump
           /\ Extended(MinTtl, Threshold, Bump) = Bump
BY Constants DEF Extended

-------------------------------------------------------------------------------
(* Operations keep the storage sound.                                      *)

LEMMA SetSound ==
    ASSUME NEW s, Sound(s), NEW k, NEW val, KeyTyped(k, val)
    PROVE  Sound(Set(s, k, val))
<1>. DEFINE w == Set(s, k, val)
<1>1. /\ Shaped(w) /\ \A q : q \in DOMAIN w <=> q \in DOMAIN s \/ q = k
      /\ w[k].v = val
      /\ w[k].ttl = IF k \in DOMAIN s THEN s[k].ttl ELSE MinTtl
      /\ \A q \in DOMAIN s : q # k => w[q] = s[q]
  <2>1. Shaped(s)
    BY DEF Sound
  <2>. QED BY <2>1, SetFacts
<1>. HIDE DEF w
<1>2. MinTtl \in 1..CountedBump
  BY Constants
<1>3. w[k].ttl \in 1..CountedBump
  BY <1>1, <1>2 DEF Sound
<1>4. \A q \in DOMAIN w : KeyTyped(q, w[q].v) /\ w[q].ttl \in 1..CountedBump
  <2>. TAKE q \in DOMAIN w
  <2>1. CASE q = k
    BY <1>1, <1>3, <2>1
  <2>2. CASE q # k
    BY <1>1, <2>2 DEF Sound
  <2>. QED BY <2>1, <2>2
<1>. QED BY <1>1, <1>4 DEF Sound, w

LEMMA RemoveSound ==
    ASSUME NEW s, Sound(s), NEW k
    PROVE  Sound(RemoveEntry(s, k))
<1>. DEFINE w == RemoveEntry(s, k)
<1>1. Shaped(s)
  BY DEF Sound
<1>2. /\ Shaped(w)
      /\ \A q : q \in DOMAIN w <=> q \in DOMAIN s /\ q # k
      /\ \A q \in DOMAIN s : q # k => w[q] = s[q]
  BY <1>1, RemoveFacts
<1>. HIDE DEF w
<1>3. \A q \in DOMAIN w : KeyTyped(q, w[q].v) /\ w[q].ttl \in 1..CountedBump
  BY <1>2 DEF Sound
<1>. QED BY <1>2, <1>3 DEF Sound, w

LEMMA ExtendSound ==
    ASSUME NEW s, Sound(s), NEW keys
    PROVE  /\ Sound(ExtendIn(s, keys, Threshold, Bump))
           /\ Sound(ExtendIn(s, keys, CountedThreshold, CountedBump))
<1>1. ASSUME NEW threshold, NEW to,
             \A ttl \in 1..CountedBump : Extended(ttl, threshold, to) \in 1..CountedBump
      PROVE  Sound(ExtendIn(s, keys, threshold, to))
  <2>. DEFINE w == ExtendIn(s, keys, threshold, to)
  <2>1. /\ Shaped(w) /\ DOMAIN w = DOMAIN s
        /\ \A k \in DOMAIN s :
              /\ w[k].v = s[k].v
              /\ w[k].ttl = IF k \in keys THEN Extended(s[k].ttl, threshold, to) ELSE s[k].ttl
    BY ExtendFacts DEF Sound
  <2>. HIDE DEF w
  <2>2. \A k \in DOMAIN w : KeyTyped(k, w[k].v) /\ w[k].ttl \in 1..CountedBump
    BY <1>1, <2>1 DEF Sound
  <2>. QED BY <2>1, <2>2 DEF Sound, w
<1>. QED BY <1>1, Lives

LEMMA AgeSound ==
    ASSUME NEW s, Sound(s)
    PROVE  Sound(Age(s))
<1>. DEFINE w == Age(s)
<1>1. /\ Shaped(w) /\ DOMAIN w = {k \in DOMAIN s : s[k].ttl > 1}
      /\ \A k \in DOMAIN w : w[k].v = s[k].v /\ w[k].ttl = s[k].ttl - 1
  <2>1. Shaped(s) /\ \A k \in DOMAIN s : s[k].ttl \in Nat
    BY Constants DEF Sound
  <2>. QED BY <2>1, AgeFacts
<1>. HIDE DEF w
<1>2. \A k \in DOMAIN w : KeyTyped(k, w[k].v) /\ w[k].ttl \in 1..CountedBump
  BY <1>1, Lives DEF Sound
<1>. QED BY <1>1, <1>2 DEF Sound, w

-------------------------------------------------------------------------------
(* What a group's operations leave alone.                                  *)

\* Outside the keys nothing changes.
Touches(s, s2, keys) == \A q : q \notin keys => AgreeAt(s, s2, q)

IdKeys(id) == GroupKeys(id) \cup {GroupCounted(id)}

LEMMA TouchesOps ==
    ASSUME NEW s, NEW k, NEW val, NEW keys, NEW threshold, NEW to
    PROVE  /\ Touches(s, Set(s, k, val), {k})
           /\ Touches(s, RemoveEntry(s, k), {k})
           /\ Touches(s, ExtendIn(s, keys, threshold, to), keys)
BY SetAgrees, RemoveAgrees, ExtendAgrees DEF Touches

LEMMA TouchesTwice ==
    ASSUME NEW s, NEW s1, NEW s2, NEW keys1, NEW keys2, NEW keys,
           Touches(s, s1, keys1), Touches(s1, s2, keys2),
           keys1 \subseteq keys, keys2 \subseteq keys
    PROVE  Touches(s, s2, keys)
BY DEF Touches, AgreeAt

LEMMA IdKeysFacts ==
    ASSUME NEW id
    PROVE  /\ GroupKeys(id) \subseteq IdKeys(id)
           /\ GroupV2(id) \in IdKeys(id) /\ HistoryV2(id) \in IdKeys(id)
           /\ Group(id) \in IdKeys(id) /\ History(id) \in IdKeys(id)
           /\ AdminSet(id) \in IdKeys(id) /\ AdminEpoch(id) \in IdKeys(id)
           /\ GroupCounted(id) \in IdKeys(id)
           /\ \A x : x # id => IdKeys(x) \cap IdKeys(id) = {}
           /\ \A p : UsedProof(p) \notin IdKeys(id)
<1>1. \A q \in IdKeys(id) : q[2] = id /\ q[1] # "UsedProof"
  BY KeyParts DEF IdKeys, GroupKeys
<1>2. \A x : \A q \in IdKeys(x) : q[2] = x
  BY KeyParts DEF IdKeys, GroupKeys
<1>. QED BY <1>1, <1>2, KeyParts DEF IdKeys, GroupKeys

-------------------------------------------------------------------------------
(* The group of an id and its receipt, seen through both formats.          *)

SameGroup(s, s2, id) ==
    /\ GroupExists(s2, id) <=> GroupExists(s, id)
    /\ GroupExists(s, id) => /\ Load(s2, id) = Load(s, id)
                             /\ StoredHistory(s2, id) = StoredHistory(s, id)

SameReceipt(s, s2, id) ==
    /\ Has(s2, GroupCounted(id)) <=> Has(s, GroupCounted(id))
    /\ Has(s, GroupCounted(id)) => s2[GroupCounted(id)].v = s[GroupCounted(id)].v

\* The group is there in the new format, whole, and not in the old one.
Written(s, id, g, h) ==
    /\ Has(s, GroupV2(id)) /\ Has(s, HistoryV2(id))
    /\ s[GroupV2(id)].v = g /\ s[HistoryV2(id)].v = h
    /\ s[GroupV2(id)].ttl = s[HistoryV2(id)].ttl
    /\ ~Has(s, Group(id)) /\ ~Has(s, History(id))

LEMMA WrittenIsRead ==
    ASSUME NEW s, NEW id, NEW g, NEW h, Written(s, id, g, h)
    PROVE  /\ GroupExists(s, id) /\ Load(s, id) = g /\ StoredHistory(s, id) = h
           /\ PartsTogether(s, id)
BY DEF Written, GroupExists, Load, StoredHistory, Get, PartsTogether, Paired

LEMMA AgreeingStorages ==
    ASSUME NEW s, NEW s2, NEW id, \A q \in IdKeys(id) : AgreeAt(s, s2, q)
    PROVE  /\ SameGroup(s, s2, id) /\ SameReceipt(s, s2, id)
           /\ PartsTogether(s, id) => PartsTogether(s2, id)
           /\ \A g, h : Written(s, id, g, h) => Written(s2, id, g, h)
<1>1. /\ AgreeAt(s, s2, GroupV2(id)) /\ AgreeAt(s, s2, HistoryV2(id))
      /\ AgreeAt(s, s2, Group(id)) /\ AgreeAt(s, s2, History(id))
      /\ AgreeAt(s, s2, GroupCounted(id))
  BY IdKeysFacts
<1>2. SameGroup(s, s2, id)
  BY <1>1 DEF AgreeAt, SameGroup, GroupExists, Load, StoredHistory, Get
<1>3. SameReceipt(s, s2, id)
  BY <1>1 DEF AgreeAt, SameReceipt
<1>4. PartsTogether(s, id) => PartsTogether(s2, id)
  BY <1>1 DEF AgreeAt, PartsTogether, Paired
<1>5. \A g, h : Written(s, id, g, h) => Written(s2, id, g, h)
  BY <1>1 DEF AgreeAt, Written
<1>. QED BY <1>2, <1>3, <1>4, <1>5

\* An operation on one id leaves every other id as it was.
LEMMA OthersKept ==
    ASSUME NEW s, NEW s2, NEW id, Touches(s, s2, IdKeys(id)), NEW x, x # id
    PROVE  /\ SameGroup(s, s2, x) /\ SameReceipt(s, s2, x)
           /\ PartsTogether(s, x) => PartsTogether(s2, x)
<1>1. \A q \in IdKeys(x) : AgreeAt(s, s2, q)
  BY IdKeysFacts DEF Touches
<1>. QED BY <1>1, AgreeingStorages

-------------------------------------------------------------------------------
(* The contract's helpers.                                                 *)

LEMMA KeysTyped ==
    ASSUME NEW id \in Ids, NEW val
    PROVE  /\ val \in Entry => KeyTyped(GroupV2(id), val) /\ KeyTyped(Group(id), val)
           /\ val \in Seq(HistoryEntry)
                => KeyTyped(HistoryV2(id), val) /\ KeyTyped(History(id), val)
           /\ val \in Commitments => KeyTyped(AdminSet(id), val)
           /\ val \in 0..MaxEpoch => KeyTyped(AdminEpoch(id), val)
           /\ val \in Tiers => KeyTyped(GroupCounted(id), val)
BY DEF KeyTyped, GroupV2, Group, HistoryV2, History, AdminSet, AdminEpoch, GroupCounted

LEMMA KeysRead ==
    ASSUME NEW s, Sound(s), NEW id
    PROVE  /\ Has(s, GroupV2(id)) => s[GroupV2(id)].v \in Entry
           /\ Has(s, Group(id)) => s[Group(id)].v \in Entry
           /\ Has(s, HistoryV2(id)) => s[HistoryV2(id)].v \in Seq(HistoryEntry)
           /\ Has(s, History(id)) => s[History(id)].v \in Seq(HistoryEntry)
           /\ Has(s, AdminSet(id)) => s[AdminSet(id)].v \in Commitments
           /\ Has(s, AdminEpoch(id)) => s[AdminEpoch(id)].v \in 0..MaxEpoch
           /\ Has(s, GroupCounted(id)) => s[GroupCounted(id)].v \in Tiers
<1>1. ASSUME NEW k, Has(s, k) PROVE KeyTyped(k, s[k].v)
  BY <1>1 DEF Has, Sound
<1>2. ASSUME NEW k, NEW val, KeyTyped(k, val)
      PROVE  /\ k[1] \in {"GroupV2", "Group"} => val \in Entry
             /\ k[1] \in {"HistoryV2", "History"} => val \in Seq(HistoryEntry)
             /\ k[1] = "AdminSet" => val \in Commitments
             /\ k[1] = "AdminEpoch" => val \in 0..MaxEpoch
             /\ k[1] = "GroupCounted" => val \in Tiers
  BY <1>2 DEF KeyTyped
<1>. QED BY <1>1, <1>2, KeyParts

LEMMA GroupRead ==
    ASSUME NEW s, Sound(s), NEW id, GroupExists(s, id)
    PROVE  /\ Load(s, id) \in Entry
           /\ StoredHistory(s, id) \in Seq(HistoryEntry)
BY KeysRead DEF GroupExists, Load, StoredHistory, Get

(***************************************************************************)
(* record_proof: the nullifier is new, and nothing else changes.           *)
(***************************************************************************)
Spends(s, s2, p) ==
    /\ ~Has(s, UsedProof(p)) /\ Has(s2, UsedProof(p))
    /\ s2[UsedProof(p)].ttl = Bump

LEMMA RecordFacts ==
    ASSUME NEW s, Sound(s), NEW p, KeyTyped(UsedProof(p), TRUE), ~Has(s, UsedProof(p))
    PROVE  /\ Sound(RecordProof(s, p))
           /\ Spends(s, RecordProof(s, p), p)
           /\ Touches(s, RecordProof(s, p), {UsedProof(p)})
<1>. DEFINE k == UsedProof(p)
            w == Set(s, k, TRUE)
<1>. HIDE DEF k
<1>1. /\ Sound(w) /\ k \in DOMAIN w /\ w[k].ttl = MinTtl /\ Touches(s, w, {k})
  <2>1. Shaped(s) /\ k \notin DOMAIN s
    BY DEF Sound, Has, k
  <2>2. Sound(w)
    BY SetSound DEF k
  <2>. QED BY <2>1, <2>2, SetFacts, TouchesOps
<1>2. RecordProof(s, p) = ExtendIn(w, {k}, Threshold, Bump)
  BY DEF RecordProof, k
<1>. HIDE DEF w
<1>3. Touches(s, RecordProof(s, p), {k})
  BY <1>1, <1>2, TouchesOps, TouchesTwice
<1>4. Sound(RecordProof(s, p))
  BY <1>1, <1>2, ExtendSound
<1>5. k \in DOMAIN RecordProof(s, p) /\ RecordProof(s, p)[k].ttl = Bump
  <2>1. Shaped(w)
    BY <1>1 DEF Sound
  <2>2. Extended(MinTtl, Threshold, Bump) = Bump
    BY Constants DEF Extended
  <2>. QED BY <1>1, <1>2, <2>1, <2>2, ExtendFacts
<1>. QED BY <1>3, <1>4, <1>5 DEF Spends, Has, k

\* What a group's other operations do leaves the nullifier.
LEMMA StillSpends ==
    ASSUME NEW s, NEW s1, NEW s2, NEW p, Spends(s, s1, p), NEW id, Touches(s1, s2, IdKeys(id))
    PROVE  Spends(s, s2, p)
BY IdKeysFacts DEF Spends, Touches, AgreeAt

LEMMA RecordKeepsIds ==
    ASSUME NEW s, NEW p, Touches(s, RecordProof(s, p), {UsedProof(p)}), NEW id
    PROVE  /\ SameGroup(s, RecordProof(s, p), id) /\ SameReceipt(s, RecordProof(s, p), id)
           /\ PartsTogether(s, id) => PartsTogether(RecordProof(s, p), id)
           /\ AgreeAt(s, RecordProof(s, p), AdminSet(id))
           /\ AgreeAt(s, RecordProof(s, p), AdminEpoch(id))
<1>1. \A q \in IdKeys(id) : AgreeAt(s, RecordProof(s, p), q)
  BY IdKeysFacts DEF Touches
<1>. QED BY <1>1, AgreeingStorages, IdKeysFacts

(***************************************************************************)
(* bump_group: keys and values stay, and what was in step stays in step.   *)
(***************************************************************************)
LEMMA BumpFacts ==
    ASSUME NEW s, Sound(s), NEW id
    PROVE  /\ Sound(BumpGroup(s, id))
           /\ Touches(s, BumpGroup(s, id), IdKeys(id))
           /\ SameGroup(s, BumpGroup(s, id), id) /\ SameReceipt(s, BumpGroup(s, id), id)
           /\ PartsTogether(s, id) => PartsTogether(BumpGroup(s, id), id)
<1>. DEFINE w == ExtendIn(s, GroupKeys(id), Threshold, Bump)
            b == ExtendIn(w, {GroupCounted(id)}, CountedThreshold, CountedBump)
<1>1. /\ Sound(w) /\ Touches(s, w, GroupKeys(id))
      /\ DOMAIN w = DOMAIN s
      /\ \A q \in DOMAIN s :
            /\ w[q].v = s[q].v
            /\ w[q].ttl = IF q \in GroupKeys(id) THEN Extended(s[q].ttl, Threshold, Bump)
                          ELSE s[q].ttl
  <2>1. Shaped(s)
    BY DEF Sound
  <2>2. /\ DOMAIN w = DOMAIN s
        /\ \A q \in DOMAIN s :
              /\ w[q].v = s[q].v
              /\ w[q].ttl = IF q \in GroupKeys(id) THEN Extended(s[q].ttl, Threshold, Bump)
                            ELSE s[q].ttl
    BY <2>1, ExtendFacts
  <2>3. Sound(w) /\ Touches(s, w, GroupKeys(id))
    BY ExtendSound, TouchesOps
  <2>. QED BY <2>2, <2>3
<1>2. BumpGroup(s, id) = b
  BY DEF BumpGroup
<1>. HIDE DEF w
<1>3. /\ Sound(b) /\ Touches(w, b, {GroupCounted(id)})
      /\ DOMAIN b = DOMAIN w
      /\ \A q \in DOMAIN w :
            /\ b[q].v = w[q].v
            /\ q # GroupCounted(id) => b[q].ttl = w[q].ttl
  <2>1. Shaped(w)
    BY <1>1 DEF Sound
  <2>2. /\ DOMAIN b = DOMAIN w
        /\ \A q \in DOMAIN w :
              /\ b[q].v = w[q].v
              /\ q \notin {GroupCounted(id)} => b[q].ttl = w[q].ttl
    BY <2>1, ExtendFacts
  <2>3. Sound(b) /\ Touches(w, b, {GroupCounted(id)})
    BY <1>1, ExtendSound, TouchesOps
  <2>. QED BY <2>2, <2>3
<1>. HIDE DEF b
<1>4. Touches(s, b, IdKeys(id))
  BY <1>1, <1>3, TouchesTwice DEF IdKeys
<1>5. /\ DOMAIN b = DOMAIN s
      /\ \A q \in DOMAIN s : b[q].v = s[q].v
      /\ \A q \in DOMAIN s \cap GroupKeys(id) :
            q # GroupCounted(id) => b[q].ttl = Extended(s[q].ttl, Threshold, Bump)
  BY <1>1, <1>3
<1>6. SameGroup(s, b, id) /\ SameReceipt(s, b, id)
  BY <1>5 DEF SameGroup, SameReceipt, GroupExists, Load, StoredHistory, Get, Has
<1>7. PartsTogether(s, id) => PartsTogether(b, id)
  <2>1. \A q \in {GroupV2(id), HistoryV2(id), Group(id), History(id)} :
            q \in GroupKeys(id) /\ q # GroupCounted(id)
    BY KeyParts DEF GroupKeys
  <2>. QED BY <1>5, <2>1 DEF PartsTogether, Paired, Has
<1>. QED BY <1>2, <1>3, <1>4, <1>6, <1>7

(***************************************************************************)
(* Founding a group: its record and its empty history are new.             *)
(***************************************************************************)
LEMMA NewGroupFacts ==
    ASSUME NEW s, Sound(s), NEW id \in Ids, PartsTogether(s, id), ~GroupExists(s, id),
           NEW c \in Commitments, NEW t \in Tiers, NEW gtype \in 0..3, NEW m \in Nat
    PROVE  LET g == [commitment |-> c, epoch |-> 0, tier |-> t, active |-> TRUE,
                     gtype |-> gtype, members |-> m]
               s2 == NewGroup(s, id, c, t, gtype, m)
           IN  /\ Sound(s2) /\ Touches(s, s2, IdKeys(id))
               /\ g \in Entry
               /\ Written(s2, id, g, << >>)
<1>. DEFINE g == [commitment |-> c, epoch |-> 0, tier |-> t, active |-> TRUE,
                  gtype |-> gtype, members |-> m]
            s1 == Set(s, GroupV2(id), g)
            s2 == Set(s1, HistoryV2(id), << >>)
<1>1. g \in Entry
  BY RegistryAssumption DEF Entry
<1>2. s2 = NewGroup(s, id, c, t, gtype, m)
  BY DEF NewGroup
<1>. HIDE DEF g
<1>3. Sound(s1) /\ Touches(s, s1, {GroupV2(id)})
  BY <1>1, KeysTyped, SetSound, TouchesOps
<1>4. /\ \A q : q \in DOMAIN s1 <=> q \in DOMAIN s \/ q = GroupV2(id)
      /\ s1[GroupV2(id)].v = g /\ s1[GroupV2(id)].ttl = MinTtl
  <2>1. Shaped(s) /\ GroupV2(id) \notin DOMAIN s
    BY DEF Sound, GroupExists, Has
  <2>. QED BY <2>1, SetFacts
<1>. HIDE DEF s1
<1>5. Sound(s2) /\ Touches(s1, s2, {HistoryV2(id)})
  <2>1. KeyTyped(HistoryV2(id), << >>)
    <3>1. << >> \in Seq(HistoryEntry)
      OBVIOUS
    <3>. QED BY <3>1, KeysTyped
  <2>. QED BY <1>3, <2>1, SetSound, TouchesOps
<1>6. HistoryV2(id) # GroupV2(id) /\ Group(id) \notin {GroupV2(id), HistoryV2(id)}
      /\ History(id) \notin {GroupV2(id), HistoryV2(id)}
  BY KeyParts
<1>7. ~Has(s, HistoryV2(id)) /\ ~Has(s, Group(id)) /\ ~Has(s, History(id))
  BY DEF PartsTogether, Paired, GroupExists
<1>8. /\ \A q : q \in DOMAIN s2 <=> q \in DOMAIN s1 \/ q = HistoryV2(id)
      /\ s2[HistoryV2(id)].v = << >> /\ s2[HistoryV2(id)].ttl = MinTtl
      /\ s2[GroupV2(id)] = s1[GroupV2(id)]
  <2>1. Shaped(s1) /\ HistoryV2(id) \notin DOMAIN s1 /\ GroupV2(id) \in DOMAIN s1
    BY <1>3, <1>4, <1>6, <1>7 DEF Sound, Has
  <2>. QED BY <1>6, <2>1, SetFacts
<1>. HIDE DEF s2
<1>9. Written(s2, id, g, << >>)
  BY <1>4, <1>6, <1>7, <1>8 DEF Written, Has
<1>10. Touches(s, s2, IdKeys(id))
  BY <1>3, <1>5, TouchesTwice, IdKeysFacts
<1>. QED BY <1>1, <1>2, <1>5, <1>9, <1>10 DEF g

(***************************************************************************)
(* Counting a group: its receipt says its tier, and the group stays.       *)
(***************************************************************************)
Receipted(s, id, t) == Has(s, GroupCounted(id)) /\ s[GroupCounted(id)].v = t

LEMMA CountedFacts ==
    ASSUME NEW s, Sound(s), NEW id \in Ids, NEW t \in Tiers
    PROVE  LET s2 == BumpGroup(ExtendIn(Set(s, GroupCounted(id), t), {GroupCounted(id)},
                                        CountedThreshold, CountedBump), id)
           IN  /\ Sound(s2) /\ Touches(s, s2, IdKeys(id))
               /\ SameGroup(s, s2, id)
               /\ PartsTogether(s, id) => PartsTogether(s2, id)
               /\ Receipted(s2, id, t)
<1>. DEFINE s1 == Set(s, GroupCounted(id), t)
            w  == ExtendIn(s1, {GroupCounted(id)}, CountedThreshold, CountedBump)
            s2 == BumpGroup(w, id)
<1>1. Sound(s1) /\ Touches(s, s1, {GroupCounted(id)})
  BY KeysTyped, SetSound, TouchesOps
<1>2. GroupCounted(id) \in DOMAIN s1 /\ s1[GroupCounted(id)].v = t
  <2>1. Shaped(s)
    BY DEF Sound
  <2>. QED BY <2>1, SetFacts
<1>. HIDE DEF s1
<1>3. Sound(w) /\ Touches(s1, w, {GroupCounted(id)})
  BY <1>1, ExtendSound, TouchesOps
<1>4. GroupCounted(id) \in DOMAIN w /\ w[GroupCounted(id)].v = t
  <2>1. Shaped(s1)
    BY <1>1 DEF Sound
  <2>. QED BY <1>2, <2>1, ExtendFacts
<1>. HIDE DEF w
<1>5. Touches(s, w, {GroupCounted(id)})
  BY <1>1, <1>3, TouchesTwice
<1>6. SameGroup(s, w, id) /\ (PartsTogether(s, id) => PartsTogether(w, id))
  <2>1. GroupCounted(id) \notin {GroupV2(id), HistoryV2(id), Group(id), History(id)}
    BY KeyParts
  <2>2. \A q \in {GroupV2(id), HistoryV2(id), Group(id), History(id)} : AgreeAt(s, w, q)
    BY <1>5, <2>1 DEF Touches
  <2>3. /\ AgreeAt(s, w, GroupV2(id)) /\ AgreeAt(s, w, HistoryV2(id))
        /\ AgreeAt(s, w, Group(id)) /\ AgreeAt(s, w, History(id))
    BY <2>2
  <2>4. SameGroup(s, w, id)
    BY <2>3 DEF AgreeAt, SameGroup, GroupExists, Load, StoredHistory, Get
  <2>5. PartsTogether(s, id) => PartsTogether(w, id)
    BY <2>3 DEF AgreeAt, PartsTogether, Paired
  <2>. QED BY <2>4, <2>5
<1>7. /\ Sound(s2) /\ Touches(w, s2, IdKeys(id))
      /\ SameGroup(w, s2, id) /\ SameReceipt(w, s2, id)
      /\ PartsTogether(w, id) => PartsTogether(s2, id)
  BY <1>3, BumpFacts
<1>. HIDE DEF s2
<1>8. Touches(s, s2, IdKeys(id))
  BY <1>5, <1>7, TouchesTwice, IdKeysFacts
<1>9. SameGroup(s, s2, id)
  BY <1>6, <1>7 DEF SameGroup
<1>10. Receipted(s2, id, t)
  BY <1>4, <1>7 DEF SameReceipt, Receipted, Has
<1>. QED BY <1>6, <1>7, <1>8, <1>9, <1>10 DEF s2, w, s1

(***************************************************************************)
(* The admin set of an oligarchy is none of a group's other parts.         *)
(***************************************************************************)
AdminWrites(s, id, root, epoch) ==
    ExtendIn(Set(Set(s, AdminSet(id), root), AdminEpoch(id), epoch),
             {AdminSet(id), AdminEpoch(id)}, Threshold, Bump)

LEMMA AdminFacts ==
    ASSUME NEW s, Sound(s), NEW id \in Ids, NEW root \in Commitments, NEW epoch \in 0..MaxEpoch
    PROVE  LET s2 == AdminWrites(s, id, root, epoch)
           IN  /\ Sound(s2) /\ Touches(s, s2, IdKeys(id))
               /\ SameGroup(s, s2, id) /\ SameReceipt(s, s2, id)
               /\ PartsTogether(s, id) => PartsTogether(s2, id)
               /\ \A g, h : Written(s, id, g, h) => Written(s2, id, g, h)
<1>. DEFINE s1 == Set(s, AdminSet(id), root)
            w  == Set(s1, AdminEpoch(id), epoch)
            s2 == ExtendIn(w, {AdminSet(id), AdminEpoch(id)}, Threshold, Bump)
            keys == {AdminSet(id), AdminEpoch(id)}
<1>1. Sound(s1) /\ Touches(s, s1, {AdminSet(id)})
  BY KeysTyped, SetSound, TouchesOps
<1>. HIDE DEF s1
<1>2. Sound(w) /\ Touches(s1, w, {AdminEpoch(id)})
  BY <1>1, KeysTyped, SetSound, TouchesOps
<1>. HIDE DEF w
<1>3. Sound(s2) /\ Touches(w, s2, keys)
  BY <1>2, ExtendSound, TouchesOps
<1>. HIDE DEF s2
<1>4. Touches(s, w, keys)
  BY <1>1, <1>2, TouchesTwice
<1>. HIDE DEF keys
<1>5. Touches(s, s2, keys)
  BY <1>3, <1>4, TouchesTwice
<1>. USE DEF keys
<1>6. Touches(s, s2, IdKeys(id))
  BY <1>5, IdKeysFacts DEF Touches
<1>7. \A q \in {GroupV2(id), HistoryV2(id), Group(id), History(id), GroupCounted(id)} :
         q \notin keys
  BY KeyParts
<1>8. /\ AgreeAt(s, s2, GroupV2(id)) /\ AgreeAt(s, s2, HistoryV2(id))
      /\ AgreeAt(s, s2, Group(id)) /\ AgreeAt(s, s2, History(id))
      /\ AgreeAt(s, s2, GroupCounted(id))
  BY <1>5, <1>7 DEF Touches
<1>9. SameGroup(s, s2, id) /\ SameReceipt(s, s2, id)
  BY <1>8 DEF AgreeAt, SameGroup, SameReceipt, GroupExists, Load, StoredHistory, Get
<1>10. PartsTogether(s, id) => PartsTogether(s2, id)
  BY <1>8 DEF AgreeAt, PartsTogether, Paired
<1>11. \A g, h : Written(s, id, g, h) => Written(s2, id, g, h)
  BY <1>8 DEF AgreeAt, Written
<1>. QED BY <1>3, <1>6, <1>9, <1>10, <1>11 DEF AdminWrites, s2, w, s1

(***************************************************************************)
(* Writing a group: whichever format it was in, it ends whole in the new   *)
(* one.                                                                    *)
(***************************************************************************)
LEMMA LastOfFacts ==
    ASSUME NEW S, NEW seq \in Seq(S), NEW n \in Nat \ {0}
    PROVE  /\ LastOf(seq, n) \in Seq(S)
           /\ Len(LastOf(seq, n)) = IF Len(seq) <= n THEN Len(seq) ELSE n
           /\ \A i \in 1..Len(LastOf(seq, n)) :
                 LastOf(seq, n)[i] = seq[i + Len(seq) - Len(LastOf(seq, n))]
<1>1. CASE Len(seq) <= n
  BY <1>1 DEF LastOf
<1>2. CASE ~(Len(seq) <= n)
  BY <1>2 DEF LastOf
<1>. QED BY <1>1, <1>2

LEMMA WriteFacts ==
    ASSUME NEW s, Sound(s), NEW id \in Ids, PartsTogether(s, id), GroupExists(s, id),
           NEW g \in Entry
    PROVE  LET s2 == WriteGroupV2(s, id, g)
           IN  /\ Sound(s2) /\ Touches(s, s2, IdKeys(id))
               /\ Written(s2, id, g, StoredHistory(s, id))
               /\ SameReceipt(s, s2, id)
<1>. DEFINE h  == StoredHistory(s, id)
            s1 == Set(s, GroupV2(id), g)
            w  == RemoveEntry(s1, Group(id))
            u  == Set(w, HistoryV2(id), Get(s, History(id), << >>))
            r  == RemoveEntry(u, History(id))
<1>1. h \in Seq(HistoryEntry)
  BY GroupRead
<1>2. /\ GroupV2(id) \notin {HistoryV2(id), Group(id), History(id), GroupCounted(id)}
      /\ HistoryV2(id) \notin {Group(id), History(id), GroupCounted(id)}
      /\ Group(id) \notin {History(id), GroupCounted(id)}
      /\ History(id) # GroupCounted(id)
  BY KeyParts
<1>3. Sound(s1) /\ Touches(s, s1, {GroupV2(id)})
  BY KeysTyped, SetSound, TouchesOps
<1>4. /\ \A q : q \in DOMAIN s1 <=> q \in DOMAIN s \/ q = GroupV2(id)
      /\ s1[GroupV2(id)].v = g
      /\ s1[GroupV2(id)].ttl = IF GroupV2(id) \in DOMAIN s THEN s[GroupV2(id)].ttl ELSE MinTtl
      /\ \A q \in DOMAIN s : q # GroupV2(id) => s1[q] = s[q]
  BY SetFacts DEF Sound
<1>. HIDE DEF s1
<1>5. Sound(w) /\ Touches(s1, w, {Group(id)})
  BY <1>3, RemoveSound, TouchesOps
<1>6. /\ \A q : q \in DOMAIN w <=> q \in DOMAIN s1 /\ q # Group(id)
      /\ \A q \in DOMAIN s1 : q # Group(id) => w[q] = s1[q]
  BY <1>3, RemoveFacts DEF Sound
<1>. HIDE DEF w
<1>7. Touches(s, w, {GroupV2(id), Group(id)})
  BY <1>3, <1>5, TouchesTwice
<1>8. CASE Has(s, HistoryV2(id))
  <2>1. WriteGroupV2(s, id, g) = w
    BY <1>8 DEF WriteGroupV2, w, s1
  <2>2. /\ Has(s, GroupV2(id)) /\ ~Has(s, Group(id)) /\ ~Has(s, History(id))
        /\ s[GroupV2(id)].ttl = s[HistoryV2(id)].ttl
        /\ h = s[HistoryV2(id)].v
    BY <1>8 DEF PartsTogether, Paired, StoredHistory, Get
  <2>3. Written(w, id, g, h)
    <3>. HIDE DEF h
    <3>. QED BY <1>2, <1>4, <1>6, <1>8, <2>2 DEF Written, Has
  <2>4. Touches(s, w, IdKeys(id)) /\ SameReceipt(s, w, id)
    BY <1>2, <1>7, IdKeysFacts DEF Touches, AgreeAt, SameReceipt
  <2>. QED BY <1>5, <2>1, <2>3, <2>4
<1>9. CASE ~Has(s, HistoryV2(id))
  <2>1. WriteGroupV2(s, id, g) = r
    BY <1>9 DEF WriteGroupV2, w, s1
  <2>2. ~Has(s, GroupV2(id)) /\ Has(s, Group(id)) /\ Has(s, History(id))
    BY <1>9 DEF PartsTogether, Paired, GroupExists
  <2>3. h = s[History(id)].v /\ Get(s, History(id), << >>) = h
    BY <1>9, <2>2 DEF StoredHistory, Get
  <2>. HIDE DEF h
  <2>4. Sound(u) /\ Touches(w, u, {HistoryV2(id)})
    BY <1>1, <1>5, <2>3, KeysTyped, SetSound, TouchesOps
  <2>5. /\ \A q : q \in DOMAIN u <=> q \in DOMAIN w \/ q = HistoryV2(id)
        /\ u[HistoryV2(id)].v = h
        /\ u[HistoryV2(id)].ttl = IF HistoryV2(id) \in DOMAIN w THEN w[HistoryV2(id)].ttl
                                  ELSE MinTtl
        /\ \A q \in DOMAIN w : q # HistoryV2(id) => u[q] = w[q]
    BY <1>5, <2>3, SetFacts DEF Sound
  <2>. HIDE DEF u
  <2>6. Sound(r) /\ Touches(u, r, {History(id)})
    BY <2>4, RemoveSound, TouchesOps
  <2>7. /\ \A q : q \in DOMAIN r <=> q \in DOMAIN u /\ q # History(id)
        /\ \A q \in DOMAIN u : q # History(id) => r[q] = u[q]
    BY <2>4, RemoveFacts DEF Sound
  <2>. HIDE DEF r
  <2>8. Touches(s, r, {GroupV2(id), Group(id), HistoryV2(id), History(id)})
    <3>1. Touches(w, r, {HistoryV2(id), History(id)})
      BY <2>4, <2>6, TouchesTwice
    <3>. QED BY <1>7, <3>1, TouchesTwice
  <2>9. Written(r, id, g, h)
    BY <1>2, <1>4, <1>6, <1>9, <2>2, <2>5, <2>7 DEF Written, Has
  <2>10. Touches(s, r, IdKeys(id)) /\ SameReceipt(s, r, id)
    BY <1>2, <2>8, IdKeysFacts DEF Touches, AgreeAt, SameReceipt
  <2>. QED BY <2>1, <2>6, <2>9, <2>10 DEF h
<1>. QED BY <1>8, <1>9

LEMMA ArchiveFacts ==
    ASSUME NEW s, Sound(s), NEW id \in Ids, PartsTogether(s, id), GroupExists(s, id),
           NEW g \in Entry, NEW g2 \in Entry
    PROVE  LET s2 == WriteGroupV2(ArchiveEntry(s, id, g), id, g2)
               h  == LastOf(Append(StoredHistory(s, id), Archived(g)), Window)
           IN  /\ Sound(s2) /\ Touches(s, s2, IdKeys(id))
               /\ Written(s2, id, g2, h)
               /\ SameReceipt(s, s2, id)
<1>. DEFINE h  == LastOf(Append(StoredHistory(s, id), Archived(g)), Window)
            a  == Set(s, HistoryV2(id), h)
            b  == RemoveEntry(a, History(id))
            s1 == Set(b, GroupV2(id), g2)
            w  == RemoveEntry(s1, Group(id))
<1>1. h \in Seq(HistoryEntry)
  <2>1. StoredHistory(s, id) \in Seq(HistoryEntry)
    BY GroupRead
  <2>2. Archived(g) \in HistoryEntry
    BY DEF Archived, Entry, HistoryEntry
  <2>3. Append(StoredHistory(s, id), Archived(g)) \in Seq(HistoryEntry)
    BY <2>1, <2>2
  <2>. QED BY <2>3, LastOfFacts, RegistryAssumption
<1>2. /\ GroupV2(id) \notin {HistoryV2(id), Group(id), History(id), GroupCounted(id)}
      /\ HistoryV2(id) \notin {Group(id), History(id), GroupCounted(id)}
      /\ Group(id) \notin {History(id), GroupCounted(id)}
      /\ History(id) # GroupCounted(id)
  BY KeyParts
<1>3. b = ArchiveEntry(s, id, g)
  BY DEF ArchiveEntry
<1>. HIDE DEF h
<1>4. Sound(a) /\ Touches(s, a, {HistoryV2(id)})
  BY <1>1, KeysTyped, SetSound, TouchesOps
<1>5. /\ \A q : q \in DOMAIN a <=> q \in DOMAIN s \/ q = HistoryV2(id)
      /\ a[HistoryV2(id)].v = h
      /\ a[HistoryV2(id)].ttl = IF HistoryV2(id) \in DOMAIN s THEN s[HistoryV2(id)].ttl
                                ELSE MinTtl
      /\ \A q \in DOMAIN s : q # HistoryV2(id) => a[q] = s[q]
  BY SetFacts DEF Sound
<1>. HIDE DEF a
<1>6. Sound(b) /\ Touches(a, b, {History(id)})
  BY <1>4, RemoveSound, TouchesOps
<1>7. /\ \A q : q \in DOMAIN b <=> q \in DOMAIN a /\ q # History(id)
      /\ \A q \in DOMAIN a : q # History(id) => b[q] = a[q]
  BY <1>4, RemoveFacts DEF Sound
<1>. HIDE DEF b
<1>8. Has(b, HistoryV2(id))
  BY <1>2, <1>5, <1>7 DEF Has
<1>9. WriteGroupV2(b, id, g2) = w
  BY <1>8 DEF WriteGroupV2
<1>10. Sound(s1) /\ Touches(b, s1, {GroupV2(id)})
  BY <1>6, KeysTyped, SetSound, TouchesOps
<1>11. /\ \A q : q \in DOMAIN s1 <=> q \in DOMAIN b \/ q = GroupV2(id)
       /\ s1[GroupV2(id)].v = g2
       /\ s1[GroupV2(id)].ttl = IF GroupV2(id) \in DOMAIN b THEN b[GroupV2(id)].ttl
                                ELSE MinTtl
       /\ \A q \in DOMAIN b : q # GroupV2(id) => s1[q] = b[q]
  BY <1>6, SetFacts DEF Sound
<1>. HIDE DEF s1
<1>12. Sound(w) /\ Touches(s1, w, {Group(id)})
  BY <1>10, RemoveSound, TouchesOps
<1>13. /\ \A q : q \in DOMAIN w <=> q \in DOMAIN s1 /\ q # Group(id)
       /\ \A q \in DOMAIN s1 : q # Group(id) => w[q] = s1[q]
  BY <1>10, RemoveFacts DEF Sound
<1>. HIDE DEF w
<1>14. Touches(s, w, {HistoryV2(id), History(id), GroupV2(id), Group(id)})
  <2>1. Touches(s, b, {HistoryV2(id), History(id)})
    BY <1>4, <1>6, TouchesTwice
  <2>2. Touches(b, w, {GroupV2(id), Group(id)})
    BY <1>10, <1>12, TouchesTwice
  <2>. QED BY <2>1, <2>2, TouchesTwice
<1>15. Written(w, id, g2, h)
  <2>1. /\ Has(s, GroupV2(id)) <=> Has(s, HistoryV2(id))
        /\ Has(s, GroupV2(id)) => s[GroupV2(id)].ttl = s[HistoryV2(id)].ttl
    BY DEF PartsTogether, Paired
  <2>. QED BY <1>2, <1>5, <1>7, <1>11, <1>13, <2>1 DEF Written, Has
<1>16. Touches(s, w, IdKeys(id)) /\ SameReceipt(s, w, id)
  BY <1>2, <1>14, IdKeysFacts DEF Touches, AgreeAt, SameReceipt
<1>. QED BY <1>3, <1>9, <1>12, <1>15, <1>16 DEF h

(***************************************************************************)
(* Clearing a receipt, and a ledger passing.                               *)
(***************************************************************************)
LEMMA ClearFacts ==
    ASSUME NEW s, Sound(s), NEW id
    PROVE  LET s2 == ClearReceipt(s, id)
           IN  /\ Sound(s2) /\ Touches(s, s2, IdKeys(id))
               /\ SameGroup(s, s2, id)
               /\ PartsTogether(s, id) => PartsTogether(s2, id)
               /\ ~Has(s2, GroupCounted(id))
<1>. DEFINE s2 == ClearReceipt(s, id)
<1>1. Sound(s2) /\ Touches(s, s2, {GroupCounted(id)})
  BY RemoveSound, TouchesOps DEF ClearReceipt
<1>2. ~Has(s2, GroupCounted(id))
  BY DEF ClearReceipt, RemoveEntry, Has
<1>. HIDE DEF s2
<1>3. GroupCounted(id) \notin {GroupV2(id), HistoryV2(id), Group(id), History(id)}
  BY KeyParts
<1>4. /\ AgreeAt(s, s2, GroupV2(id)) /\ AgreeAt(s, s2, HistoryV2(id))
      /\ AgreeAt(s, s2, Group(id)) /\ AgreeAt(s, s2, History(id))
  BY <1>1, <1>3 DEF Touches
<1>5. SameGroup(s, s2, id)
  BY <1>4 DEF AgreeAt, SameGroup, GroupExists, Load, StoredHistory, Get
<1>6. PartsTogether(s, id) => PartsTogether(s2, id)
  BY <1>4 DEF AgreeAt, PartsTogether, Paired
<1>7. Touches(s, s2, IdKeys(id))
  BY <1>1, IdKeysFacts DEF Touches
<1>. QED BY <1>1, <1>2, <1>5, <1>6, <1>7 DEF s2

LEMMA AgeKeeps ==
    ASSUME NEW s, Sound(s), NEW id, PartsTogether(s, id)
    PROVE  LET s2 == Age(s)
           IN  /\ PartsTogether(s2, id)
               /\ GroupExists(s2, id) => SameGroup(s, s2, id)
               /\ Has(s2, GroupCounted(id)) => SameReceipt(s, s2, id)
<1>. DEFINE s2 == Age(s)
<1>1. /\ \A q : q \in DOMAIN s2 <=> q \in DOMAIN s /\ s[q].ttl > 1
      /\ \A q \in DOMAIN s2 : s2[q].v = s[q].v /\ s2[q].ttl = s[q].ttl - 1
  <2>1. Shaped(s) /\ \A k \in DOMAIN s : s[k].ttl \in Nat
    BY Constants DEF Sound
  <2>. QED BY <2>1, AgeFacts
<1>. HIDE DEF s2
<1>2. PartsTogether(s2, id)
  BY <1>1 DEF PartsTogether, Paired, Has
<1>3. GroupExists(s2, id) => SameGroup(s, s2, id)
  BY <1>1 DEF PartsTogether, Paired, Has, GroupExists, SameGroup, Load, StoredHistory, Get
<1>4. Has(s2, GroupCounted(id)) => SameReceipt(s, s2, id)
  BY <1>1 DEF Has, SameReceipt
<1>. QED BY <1>2, <1>3, <1>4 DEF s2

-------------------------------------------------------------------------------
(* What a step can do, told by groups and receipts only.                   *)

OthersStay(id) ==
    \A x \in Ids : x # id => SameGroup(store, store', x) /\ SameReceipt(store, store', x)

Stays ==
    /\ \A x \in Ids : SameGroup(store, store', x) /\ SameReceipt(store, store', x)
    /\ count' = count

Founds(id) ==
    /\ ~GroupExists(store, id) /\ GroupExists(store', id)
    /\ LET g == Load(store', id)
       IN  /\ g.epoch = 0 /\ g.active
           /\ Receipted(store', id, g.tier)
           /\ BelowLimit(g.tier)
           /\ count' = [count EXCEPT ![g.tier] = @ + 1]
    /\ StoredHistory(store', id) = << >>
    /\ OthersStay(id)

Advances(id) ==
    LET g == Load(store, id)
        h == Load(store', id)
    IN
    /\ ActiveGroup(id) /\ GroupExists(store', id)
    /\ \/ /\ g.gtype = Anarchy
          /\ h = [g EXCEPT !.commitment = h.commitment, !.epoch = @ + 1]
          /\ Update(g.tier, g.commitment, g.epoch, h.commitment) \in NewlySpent
       \/ /\ g.gtype = Democracy
          /\ h = [g EXCEPT !.commitment = h.commitment, !.epoch = @ + 1,
                           !.members = h.members]
          /\ DemocracyUpdate(g.tier, g.commitment, g.epoch, h.commitment,
                             g.members, h.members) \in NewlySpent
    /\ StoredHistory(store', id)
         = LastOf(Append(StoredHistory(store, id), Archived(g)), Window)
    /\ SameReceipt(store, store', id)
    /\ count' = count
    /\ OthersStay(id)

Retires(id) ==
    LET g == Load(store, id) IN
    /\ ActiveGroup(id) /\ GroupExists(store', id)
    /\ Load(store', id) = [g EXCEPT !.active = FALSE]
    /\ Membership(g.tier, g.commitment, g.epoch) \in NewlySpent
    /\ StoredHistory(store', id) = StoredHistory(store, id)
    /\ ~Has(store', GroupCounted(id))
    /\ Uncount(g.tier)
    /\ OthersStay(id)

Reconciles(id) ==
    /\ ~GroupExists(store, id) /\ ~GroupExists(store', id)
    /\ Has(store, GroupCounted(id)) /\ ~Has(store', GroupCounted(id))
    /\ Uncount(store[GroupCounted(id)].v)
    /\ OthersStay(id)

Expires ==
    /\ \A x \in Ids :
          /\ GroupExists(store', x) => SameGroup(store, store', x)
          /\ Has(store', GroupCounted(x)) => SameReceipt(store, store', x)
    /\ count' = count

StepKind ==
    \/ Stays
    \/ Expires
    \/ \E id \in Ids : Founds(id) \/ Advances(id) \/ Retires(id) \/ Reconciles(id)

LEMMA SpendableProofs ==
    ASSUME NEW n \in Nonces
    PROVE  /\ \A t \in Tiers, c \in Commitments, e \in 0..MaxEpoch :
                 KeyTyped(UsedProof(Proof(Membership(t, c, e), n)), TRUE)
           /\ \A t \in Tiers, c \in Commitments, e \in 0..MaxEpoch, d \in Commitments :
                 KeyTyped(UsedProof(Proof(Update(t, c, e, d), n)), TRUE)
           /\ \A c \in Commitments, e \in 0..MaxEpoch, d \in Commitments :
                 KeyTyped(UsedProof(Proof(AdminUpdate(c, e, d), n)), TRUE)
           /\ \A t \in Tiers, c \in Commitments, e \in 0..MaxEpoch, d \in Commitments,
                 m \in Nat, k \in Nat :
                 KeyTyped(UsedProof(Proof(DemocracyUpdate(t, c, e, d, m, k), n)), TRUE)
<1>1. ASSUME NEW p \in Spendable PROVE KeyTyped(UsedProof(p), TRUE)
  BY DEF KeyTyped, UsedProof
<1>2. \A t \in Tiers, c \in Commitments, e \in 0..MaxEpoch :
         Proof(Membership(t, c, e), n) \in Spendable
  BY DEF Spendable, Proof, Membership
<1>3. \A t \in Tiers, c \in Commitments, e \in 0..MaxEpoch, d \in Commitments :
         Proof(Update(t, c, e, d), n) \in Spendable
  BY DEF Spendable, Proof, Update
<1>4. \A c \in Commitments, e \in 0..MaxEpoch, d \in Commitments :
         Proof(AdminUpdate(c, e, d), n) \in Spendable
  BY DEF Spendable, Proof, AdminUpdate
<1>5. \A t \in Tiers, c \in Commitments, e \in 0..MaxEpoch, d \in Commitments,
         m \in Nat, k \in Nat :
         Proof(DemocracyUpdate(t, c, e, d, m, k), n) \in Spendable
  BY DEF Spendable, Proof, DemocracyUpdate
<1>. QED BY <1>1, <1>2, <1>3, <1>4, <1>5

LEMMA SpentStatement ==
    ASSUME NEW st, NEW n, Spends(store, store', Proof(st, n))
    PROVE  st \in NewlySpent
<1>. DEFINE k == UsedProof(Proof(st, n))
<1>1. k \in DOMAIN store' \ DOMAIN store /\ store'[k].ttl = Bump
  BY DEF Spends, Has
<1>2. k[1] = "UsedProof" /\ k[2] = Proof(st, n)
  BY KeyParts
<1>3. Proof(st, n).proves = st
  BY DEF Proof
<1>. HIDE DEF k
<1>. QED BY <1>1, <1>2, <1>3 DEF NewlySpent

(***************************************************************************)
(* A call that spends proof p and then changes only what belongs to id.    *)
(***************************************************************************)
LEMMA SpendThenChange ==
    ASSUME StorageInv, NEW p, KeyTyped(UsedProof(p), TRUE), Unused(p), NEW id \in Ids
    PROVE  LET s1 == RecordProof(store, p)
           IN  /\ Sound(s1) /\ PartsTogether(s1, id)
               /\ SameGroup(store, s1, id) /\ SameReceipt(store, s1, id)
               /\ AgreeAt(store, s1, AdminSet(id)) /\ AgreeAt(store, s1, AdminEpoch(id))
               /\ Touches(s1, store', IdKeys(id)) =>
                    /\ Spends(store, store', p)
                    /\ OthersStay(id)
                    /\ \A x \in Ids : x # id => PartsTogether(store', x)
<1>. DEFINE s1 == RecordProof(store, p)
<1>1. Sound(store) /\ \A x \in Ids : PartsTogether(store, x)
  BY DEF StorageInv
<1>2. Sound(s1) /\ Spends(store, s1, p) /\ Touches(store, s1, {UsedProof(p)})
  BY <1>1, RecordFacts DEF Unused
<1>3. \A x \in Ids : /\ SameGroup(store, s1, x) /\ SameReceipt(store, s1, x)
                     /\ PartsTogether(s1, x)
                     /\ AgreeAt(store, s1, AdminSet(x)) /\ AgreeAt(store, s1, AdminEpoch(x))
  BY <1>1, <1>2, RecordKeepsIds
<1>. HIDE DEF s1
<1>4. ASSUME Touches(s1, store', IdKeys(id))
      PROVE  /\ Spends(store, store', p)
             /\ OthersStay(id)
             /\ \A x \in Ids : x # id => PartsTogether(store', x)
  <2>1. Spends(store, store', p)
    BY <1>2, <1>4, StillSpends
  <2>2. \A x \in Ids : x # id => /\ SameGroup(s1, store', x) /\ SameReceipt(s1, store', x)
                                 /\ PartsTogether(store', x)
    BY <1>3, <1>4, OthersKept
  <2>3. OthersStay(id)
    BY <1>3, <2>2 DEF OthersStay, SameGroup, SameReceipt
  <2>. QED BY <2>1, <2>2, <2>3
<1>. QED BY <1>2, <1>3, <1>4 DEF s1

\* The same for a call that spends no proof.
LEMMA ChangeOne ==
    ASSUME StorageInv, NEW id \in Ids, Touches(store, store', IdKeys(id))
    PROVE  OthersStay(id) /\ \A x \in Ids : x # id => PartsTogether(store', x)
BY OthersKept DEF StorageInv, OthersStay

LEMMA InvAfter ==
    ASSUME NEW id \in Ids, Sound(store'), PartsTogether(store', id),
           \A x \in Ids : x # id => PartsTogether(store', x),
           count' \in [Tiers -> 0..MaxGroups], restricted' \in BOOLEAN
    PROVE  StorageInv'
BY DEF StorageInv, TypeOK, Sound

-------------------------------------------------------------------------------
(* One lemma per call.                                                     *)

LEMMA CountTypes ==
    ASSUME StorageInv, NEW t \in Tiers
    PROVE  /\ count \in [Tiers -> 0..MaxGroups]
           /\ Uncount(t) => count' \in [Tiers -> 0..MaxGroups]
           /\ BelowLimit(t) /\ count' = [count EXCEPT ![t] = @ + 1]
                => count' \in [Tiers -> 0..MaxGroups]
           /\ restricted \in BOOLEAN
<1>1. count \in [Tiers -> 0..MaxGroups] /\ MaxGroups \in Nat /\ restricted \in BOOLEAN
  BY RegistryAssumption DEF StorageInv, TypeOK
<1>2. count[t] \in 0..MaxGroups
  BY <1>1
<1>3. Uncount(t) => count' \in [Tiers -> 0..MaxGroups]
  <2>1. (IF count[t] > 0 THEN count[t] - 1 ELSE count[t]) \in 0..MaxGroups
    BY <1>1, <1>2
  <2>. QED BY <1>1, <2>1 DEF Uncount
<1>4. BelowLimit(t) /\ count' = [count EXCEPT ![t] = @ + 1]
        => count' \in [Tiers -> 0..MaxGroups]
  BY <1>1, <1>2 DEF BelowLimit
<1>. QED BY <1>1, <1>3, <1>4

LEMMA GroupOfId ==
    ASSUME StorageInv, NEW id \in Ids, GroupExists(store, id)
    PROVE  /\ Load(store, id) \in Entry
           /\ StoredHistory(store, id) \in Seq(HistoryEntry)
BY GroupRead DEF StorageInv

LEMMA CreateStep ==
    ASSUME StorageInv, NEW id \in Ids, NEW c \in Commitments, NEW t \in Tiers,
           NEW gtype \in {Anarchy, OneOnOne, Democracy}, NEW m \in MemberCounts,
           NEW n \in Nonces, NEW isAdmin \in BOOLEAN,
           CreateGroupV2(id, c, t, gtype, m, n, isAdmin)
    PROVE  StorageInv' /\ Founds(id)
<1>. DEFINE p  == Proof(Membership(t, c, 0), n)
            s1 == RecordProof(store, p)
            g  == [commitment |-> c, epoch |-> 0, tier |-> t, active |-> TRUE,
                   gtype |-> gtype, members |-> m]
            w  == NewGroup(s1, id, c, t, gtype, m)
<1>1. /\ ~GroupExists(store, id) /\ BelowLimit(t) /\ Unused(p)
      /\ CountGroup(w, id, t) /\ restricted' = restricted
  BY DEF CreateGroupV2
<1>2. KeyTyped(UsedProof(p), TRUE)
  <2>1. 0 \in 0..MaxEpoch
    BY RegistryAssumption
  <2>. QED BY <2>1, SpendableProofs
<1>3. /\ Sound(s1) /\ PartsTogether(s1, id) /\ ~GroupExists(s1, id)
      /\ Touches(s1, store', IdKeys(id)) =>
           OthersStay(id) /\ \A x \in Ids : x # id => PartsTogether(store', x)
  BY <1>1, <1>2, SpendThenChange DEF SameGroup
<1>. HIDE DEF s1
<1>4. /\ Sound(w) /\ Touches(s1, w, IdKeys(id))
      /\ Written(w, id, g, << >>)
  <2>1. gtype \in 0..3 /\ m \in Nat
    BY RegistryAssumption DEF Anarchy, OneOnOne, Democracy
  <2>. QED BY <1>3, <2>1, NewGroupFacts
<1>. HIDE DEF w
<1>5. /\ Sound(store') /\ Touches(w, store', IdKeys(id))
      /\ SameGroup(w, store', id)
      /\ PartsTogether(w, id) => PartsTogether(store', id)
      /\ Receipted(store', id, t)
      /\ count' = [count EXCEPT ![t] = @ + 1]
  BY <1>1, <1>4, CountedFacts DEF CountGroup
<1>6. /\ GroupExists(w, id) /\ Load(w, id) = g /\ StoredHistory(w, id) = << >>
      /\ PartsTogether(w, id)
  BY <1>4, WrittenIsRead
<1>7. Touches(s1, store', IdKeys(id))
  BY <1>4, <1>5, TouchesTwice
<1>8. StorageInv'
  BY <1>1, <1>3, <1>5, <1>6, <1>7, CountTypes, InvAfter
<1>9. Founds(id)
  <2>1. GroupExists(store', id) /\ Load(store', id) = g /\ StoredHistory(store', id) = << >>
    BY <1>5, <1>6 DEF SameGroup
  <2>2. g.epoch = 0 /\ g.active /\ g.tier = t
    OBVIOUS
  <2>. HIDE DEF g
  <2>. QED BY <1>1, <1>3, <1>5, <1>7, <2>1, <2>2 DEF Founds
<1>. QED BY <1>8, <1>9

LEMMA CreateOligarchyStep ==
    ASSUME StorageInv, NEW id \in Ids, NEW c \in Commitments, NEW t \in Tiers,
           NEW m \in MemberCounts, NEW root \in Commitments,
           NEW n \in Nonces, NEW isAdmin \in BOOLEAN,
           CreateOligarchyGroup(id, c, t, m, root, n, isAdmin)
    PROVE  StorageInv' /\ Founds(id)
<1>. DEFINE p  == Proof(Membership(t, c, 0), n)
            s1 == RecordProof(store, p)
            g  == [commitment |-> c, epoch |-> 0, tier |-> t, active |-> TRUE,
                   gtype |-> Oligarchy, members |-> m]
            w  == NewGroup(s1, id, c, t, Oligarchy, m)
            a  == SeedAdmins(w, id, root)
<1>1. /\ ~GroupExists(store, id) /\ BelowLimit(t) /\ Unused(p)
      /\ CountGroup(a, id, t) /\ restricted' = restricted
  BY DEF CreateOligarchyGroup
<1>2. KeyTyped(UsedProof(p), TRUE)
  <2>1. 0 \in 0..MaxEpoch
    BY RegistryAssumption
  <2>. QED BY <2>1, SpendableProofs
<1>3. /\ Sound(s1) /\ PartsTogether(s1, id) /\ ~GroupExists(s1, id)
      /\ Touches(s1, store', IdKeys(id)) =>
           OthersStay(id) /\ \A x \in Ids : x # id => PartsTogether(store', x)
  BY <1>1, <1>2, SpendThenChange DEF SameGroup
<1>. HIDE DEF s1
<1>4. /\ Sound(w) /\ Touches(s1, w, IdKeys(id))
      /\ Written(w, id, g, << >>)
  <2>1. Oligarchy \in 0..3 /\ m \in Nat
    BY RegistryAssumption DEF Oligarchy
  <2>. QED BY <1>3, <2>1, NewGroupFacts
<1>. HIDE DEF w
<1>5. /\ Sound(a) /\ Touches(w, a, IdKeys(id))
      /\ Written(a, id, g, << >>)
  <2>1. a = AdminWrites(w, id, root, 0)
    BY DEF SeedAdmins, AdminWrites
  <2>2. 0 \in 0..MaxEpoch
    BY RegistryAssumption
  <2>. HIDE DEF a, g
  <2>. QED BY <1>4, <2>1, <2>2, AdminFacts
<1>. HIDE DEF a
<1>6. /\ Sound(store') /\ Touches(a, store', IdKeys(id))
      /\ SameGroup(a, store', id)
      /\ PartsTogether(a, id) => PartsTogether(store', id)
      /\ Receipted(store', id, t)
      /\ count' = [count EXCEPT ![t] = @ + 1]
  BY <1>1, <1>5, CountedFacts DEF CountGroup
<1>7. /\ GroupExists(a, id) /\ Load(a, id) = g /\ StoredHistory(a, id) = << >>
      /\ PartsTogether(a, id)
  BY <1>5, WrittenIsRead
<1>8. Touches(s1, store', IdKeys(id))
  <2>1. Touches(s1, a, IdKeys(id))
    BY <1>4, <1>5, TouchesTwice
  <2>. QED BY <1>6, <2>1, TouchesTwice
<1>9. StorageInv'
  BY <1>1, <1>3, <1>6, <1>7, <1>8, CountTypes, InvAfter
<1>10. Founds(id)
  <2>1. GroupExists(store', id) /\ Load(store', id) = g /\ StoredHistory(store', id) = << >>
    BY <1>6, <1>7 DEF SameGroup
  <2>2. g.epoch = 0 /\ g.active /\ g.tier = t
    OBVIOUS
  <2>. HIDE DEF g
  <2>. QED BY <1>1, <1>3, <1>6, <1>8, <2>1, <2>2 DEF Founds
<1>. QED BY <1>9, <1>10

(***************************************************************************)
(* The common end of both updates.                                         *)
(***************************************************************************)
LEMMA AdvanceFacts ==
    ASSUME StorageInv, NEW id \in Ids, ActiveGroup(id), NEW p, KeyTyped(UsedProof(p), TRUE),
           NEW cNew \in Commitments, NEW mNew \in Nat,
           Advance(id, p, Load(store, id), cNew, mNew)
    PROVE  LET g  == Load(store, id)
               g2 == [g EXCEPT !.commitment = cNew, !.epoch = @ + 1, !.members = mNew]
           IN  /\ StorageInv'
               /\ GroupExists(store', id) /\ Load(store', id) = g2
               /\ StoredHistory(store', id)
                    = LastOf(Append(StoredHistory(store, id), Archived(g)), Window)
               /\ SameReceipt(store, store', id)
               /\ count' = count
               /\ OthersStay(id)
               /\ Spends(store, store', p)
<1>. DEFINE g  == Load(store, id)
            g2 == [g EXCEPT !.commitment = cNew, !.epoch = g.epoch + 1, !.members = mNew]
            h  == LastOf(Append(StoredHistory(store, id), Archived(g)), Window)
            s1 == RecordProof(store, p)
            w  == WriteGroupV2(ArchiveEntry(s1, id, g), id, g2)
<1>1. /\ g.epoch < MaxEpoch /\ Unused(p) /\ store' = BumpGroup(w, id)
      /\ count' = count /\ restricted' = restricted /\ GroupExists(store, id)
  BY DEF Advance, ActiveGroup
<1>2. g \in Entry /\ g2 \in Entry
  <2>1. g \in Entry
    BY <1>1, GroupOfId
  <2>2. g.epoch + 1 \in 0..MaxEpoch
    BY <1>1, <2>1, RegistryAssumption DEF Entry
  <2>. HIDE DEF g
  <2>. QED BY <2>1, <2>2 DEF Entry
<1>3. /\ Sound(s1) /\ PartsTogether(s1, id)
      /\ SameGroup(store, s1, id) /\ SameReceipt(store, s1, id)
      /\ Touches(s1, store', IdKeys(id)) =>
           /\ Spends(store, store', p)
           /\ OthersStay(id)
           /\ \A x \in Ids : x # id => PartsTogether(store', x)
  BY <1>1, SpendThenChange
<1>4. GroupExists(s1, id) /\ StoredHistory(s1, id) = StoredHistory(store, id)
  BY <1>1, <1>3 DEF SameGroup
<1>. HIDE DEF s1, g, g2
<1>5. /\ Sound(w) /\ Touches(s1, w, IdKeys(id))
      /\ Written(w, id, g2, h)
      /\ SameReceipt(s1, w, id)
  BY <1>2, <1>3, <1>4, ArchiveFacts
<1>. HIDE DEF w, h
<1>6. /\ Sound(store') /\ Touches(w, store', IdKeys(id))
      /\ SameGroup(w, store', id) /\ SameReceipt(w, store', id)
      /\ PartsTogether(w, id) => PartsTogether(store', id)
  BY <1>1, <1>5, BumpFacts
<1>7. GroupExists(w, id) /\ Load(w, id) = g2 /\ StoredHistory(w, id) = h /\ PartsTogether(w, id)
  BY <1>5, WrittenIsRead
<1>8. Touches(s1, store', IdKeys(id))
  BY <1>5, <1>6, TouchesTwice
<1>9. StorageInv'
  <2>1. count' \in [Tiers -> 0..MaxGroups] /\ restricted' \in BOOLEAN
    BY <1>1 DEF StorageInv, TypeOK
  <2>. QED BY <1>3, <1>6, <1>7, <1>8, <2>1, InvAfter
<1>10. GroupExists(store', id) /\ Load(store', id) = g2 /\ StoredHistory(store', id) = h
  BY <1>6, <1>7 DEF SameGroup
<1>11. SameReceipt(store, store', id)
  BY <1>3, <1>5, <1>6 DEF SameReceipt
<1>. QED BY <1>1, <1>3, <1>8, <1>9, <1>10, <1>11 DEF g, g2, h

LEMMA UpdateStep ==
    ASSUME StorageInv, NEW id \in Ids, NEW cNew \in Commitments, NEW n \in Nonces,
           UpdateCommitment(id, cNew, n)
    PROVE  StorageInv' /\ Advances(id)
<1>. DEFINE g == Load(store, id)
            p == Proof(Update(g.tier, g.commitment, g.epoch, cNew), n)
<1>1. ActiveGroup(id) /\ g.gtype = Anarchy /\ Advance(id, p, g, cNew, g.members)
  BY DEF UpdateCommitment, AnyMemberUpdates
<1>2. g \in Entry
  BY <1>1, GroupOfId DEF ActiveGroup
<1>3. /\ g.members \in Nat /\ g.tier \in Tiers /\ g.commitment \in Commitments
      /\ g.epoch \in 0..MaxEpoch
  BY <1>2 DEF Entry
<1>4. KeyTyped(UsedProof(p), TRUE)
  BY <1>3, SpendableProofs
<1>5. LET g2 == [g EXCEPT !.commitment = cNew, !.epoch = @ + 1, !.members = g.members]
      IN  /\ StorageInv'
          /\ GroupExists(store', id) /\ Load(store', id) = g2
          /\ StoredHistory(store', id)
               = LastOf(Append(StoredHistory(store, id), Archived(g)), Window)
          /\ SameReceipt(store, store', id)
          /\ count' = count
          /\ OthersStay(id)
          /\ Spends(store, store', p)
  BY <1>1, <1>3, <1>4, AdvanceFacts
<1>6. Update(g.tier, g.commitment, g.epoch, cNew) \in NewlySpent
  BY <1>5, SpentStatement
<1>. HIDE DEF g
<1>7. /\ Load(store', id) = [g EXCEPT !.commitment = cNew, !.epoch = @ + 1]
      /\ Load(store', id).commitment = cNew
  <2>1. Load(store', id) = [g EXCEPT !.commitment = cNew, !.epoch = @ + 1, !.members = g.members]
    BY <1>5
  <2>. QED BY <1>2, <2>1 DEF Entry
<1>. QED BY <1>1, <1>5, <1>6, <1>7 DEF Advances, g

LEMMA UpdateDemocracyStep ==
    ASSUME StorageInv, NEW id \in Ids, NEW cNew \in Commitments, NEW mNew \in MemberCounts,
           NEW n \in Nonces, UpdateCommitmentDemocracy(id, cNew, mNew, n)
    PROVE  StorageInv' /\ Advances(id)
<1>. DEFINE g == Load(store, id)
            p == Proof(DemocracyUpdate(g.tier, g.commitment, g.epoch, cNew, g.members, mNew), n)
<1>1. ActiveGroup(id) /\ g.gtype = Democracy /\ Advance(id, p, g, cNew, mNew)
  BY DEF UpdateCommitmentDemocracy
<1>2. g \in Entry
  BY <1>1, GroupOfId DEF ActiveGroup
<1>3. /\ g.members \in Nat /\ g.tier \in Tiers /\ g.commitment \in Commitments
      /\ g.epoch \in 0..MaxEpoch /\ mNew \in Nat
  BY <1>2, RegistryAssumption DEF Entry
<1>4. KeyTyped(UsedProof(p), TRUE)
  BY <1>3, SpendableProofs
<1>5. LET g2 == [g EXCEPT !.commitment = cNew, !.epoch = @ + 1, !.members = mNew]
      IN  /\ StorageInv'
          /\ GroupExists(store', id) /\ Load(store', id) = g2
          /\ StoredHistory(store', id)
               = LastOf(Append(StoredHistory(store, id), Archived(g)), Window)
          /\ SameReceipt(store, store', id)
          /\ count' = count
          /\ OthersStay(id)
          /\ Spends(store, store', p)
  BY <1>1, <1>3, <1>4, AdvanceFacts
<1>6. DemocracyUpdate(g.tier, g.commitment, g.epoch, cNew, g.members, mNew) \in NewlySpent
  BY <1>5, SpentStatement
<1>. HIDE DEF g
<1>7. /\ Load(store', id) = [g EXCEPT !.commitment = cNew, !.epoch = @ + 1, !.members = mNew]
      /\ Load(store', id).commitment = cNew /\ Load(store', id).members = mNew
  <2>1. Load(store', id) = [g EXCEPT !.commitment = cNew, !.epoch = @ + 1, !.members = mNew]
    BY <1>5
  <2>. QED BY <1>2, <2>1 DEF Entry
<1>. QED BY <1>1, <1>5, <1>6, <1>7 DEF Advances, g

LEMMA UpdateAdminStep ==
    ASSUME StorageInv, NEW id \in Ids, NEW rootNew \in Commitments, NEW n \in Nonces,
           UpdateAdminCommitment(id, rootNew, n)
    PROVE  StorageInv' /\ Stays
<1>. DEFINE root  == store[AdminSet(id)].v
            epoch == Get(store, AdminEpoch(id), 0)
            p     == Proof(AdminUpdate(root, epoch, rootNew), n)
            s1    == RecordProof(store, p)
<1>1. /\ Has(store, AdminSet(id)) /\ epoch < MaxEpoch /\ Unused(p)
      /\ store' = AdminWrites(s1, id, rootNew, epoch + 1)
      /\ count' = count /\ restricted' = restricted
  BY DEF UpdateAdminCommitment, AdminWrites
<1>2. root \in Commitments /\ epoch \in 0..MaxEpoch /\ epoch + 1 \in 0..MaxEpoch
  <2>1. root \in Commitments
    BY <1>1, KeysRead DEF StorageInv
  <2>2. epoch \in 0..MaxEpoch
    <3>1. 0 \in 0..MaxEpoch
      BY RegistryAssumption
    <3>. QED BY <3>1, KeysRead DEF StorageInv, Get
  <2>. HIDE DEF epoch
  <2>. QED BY <1>1, <2>1, <2>2, RegistryAssumption
<1>3. KeyTyped(UsedProof(p), TRUE)
  BY <1>2, SpendableProofs
<1>4. /\ Sound(s1) /\ PartsTogether(s1, id)
      /\ SameGroup(store, s1, id) /\ SameReceipt(store, s1, id)
      /\ Touches(s1, store', IdKeys(id)) =>
           /\ OthersStay(id)
           /\ \A x \in Ids : x # id => PartsTogether(store', x)
  BY <1>1, <1>3, SpendThenChange
<1>. HIDE DEF s1, epoch
<1>5. /\ Sound(store') /\ Touches(s1, store', IdKeys(id))
      /\ SameGroup(s1, store', id) /\ SameReceipt(s1, store', id)
      /\ PartsTogether(store', id)
  BY <1>1, <1>2, <1>4, AdminFacts
<1>6. StorageInv'
  <2>1. count' \in [Tiers -> 0..MaxGroups] /\ restricted' \in BOOLEAN
    BY <1>1 DEF StorageInv, TypeOK
  <2>. QED BY <1>4, <1>5, <2>1, InvAfter
<1>7. SameGroup(store, store', id) /\ SameReceipt(store, store', id)
  BY <1>4, <1>5 DEF SameGroup, SameReceipt
<1>. QED BY <1>1, <1>4, <1>5, <1>6, <1>7 DEF Stays, OthersStay

LEMMA ConsumeStep ==
    ASSUME StorageInv, NEW id \in Ids, NEW n \in Nonces, ConsumeMembershipProof(id, n)
    PROVE  StorageInv' /\ Stays
<1>. DEFINE g  == Load(store, id)
            p  == Proof(Membership(g.tier, g.commitment, g.epoch), n)
            s1 == RecordProof(store, p)
<1>1. /\ GroupExists(store, id) /\ Unused(p) /\ store' = BumpGroup(s1, id)
      /\ count' = count /\ restricted' = restricted
  BY DEF ConsumeMembershipProof, ActiveGroup
<1>2. g.tier \in Tiers /\ g.commitment \in Commitments /\ g.epoch \in 0..MaxEpoch
  BY <1>1, GroupOfId DEF Entry
<1>3. KeyTyped(UsedProof(p), TRUE)
  BY <1>2, SpendableProofs
<1>4. /\ Sound(s1) /\ PartsTogether(s1, id)
      /\ SameGroup(store, s1, id) /\ SameReceipt(store, s1, id)
      /\ Touches(s1, store', IdKeys(id)) =>
           /\ OthersStay(id)
           /\ \A x \in Ids : x # id => PartsTogether(store', x)
  BY <1>1, <1>3, SpendThenChange
<1>. HIDE DEF s1
<1>5. /\ Sound(store') /\ Touches(s1, store', IdKeys(id))
      /\ SameGroup(s1, store', id) /\ SameReceipt(s1, store', id)
      /\ PartsTogether(store', id)
  BY <1>1, <1>4, BumpFacts
<1>6. StorageInv'
  <2>1. count' \in [Tiers -> 0..MaxGroups] /\ restricted' \in BOOLEAN
    BY <1>1 DEF StorageInv, TypeOK
  <2>. QED BY <1>4, <1>5, <2>1, InvAfter
<1>7. SameGroup(store, store', id) /\ SameReceipt(store, store', id)
  BY <1>4, <1>5 DEF SameGroup, SameReceipt
<1>. QED BY <1>1, <1>4, <1>5, <1>6, <1>7 DEF Stays, OthersStay

LEMMA DeactivateStep ==
    ASSUME StorageInv, NEW id \in Ids, NEW n \in Nonces, DeactivateGroup(id, n)
    PROVE  StorageInv' /\ Retires(id)
<1>. DEFINE g  == Load(store, id)
            g2 == [g EXCEPT !.active = FALSE]
            p  == Proof(Membership(g.tier, g.commitment, g.epoch), n)
            s1 == RecordProof(store, p)
            w  == WriteGroupV2(s1, id, g2)
            b  == BumpGroup(w, id)
<1>1. /\ ActiveGroup(id) /\ GroupExists(store, id) /\ Unused(p)
      /\ store' = ClearReceipt(b, id)
      /\ Uncount(g.tier) /\ restricted' = restricted
  BY DEF DeactivateGroup, ActiveGroup
<1>2. /\ g2 \in Entry
      /\ g.tier \in Tiers /\ g.commitment \in Commitments /\ g.epoch \in 0..MaxEpoch
  BY <1>1, GroupOfId DEF Entry
<1>3. KeyTyped(UsedProof(p), TRUE)
  BY <1>2, SpendableProofs
<1>4. /\ Sound(s1) /\ PartsTogether(s1, id)
      /\ SameGroup(store, s1, id)
      /\ Touches(s1, store', IdKeys(id)) =>
           /\ Spends(store, store', p)
           /\ OthersStay(id)
           /\ \A x \in Ids : x # id => PartsTogether(store', x)
  BY <1>1, <1>3, SpendThenChange
<1>5. GroupExists(s1, id) /\ StoredHistory(s1, id) = StoredHistory(store, id)
  BY <1>1, <1>4 DEF SameGroup
<1>. HIDE DEF s1, g2
<1>6. /\ Sound(w) /\ Touches(s1, w, IdKeys(id))
      /\ Written(w, id, g2, StoredHistory(store, id))
  BY <1>2, <1>4, <1>5, WriteFacts
<1>. HIDE DEF w
<1>7. /\ Sound(b) /\ Touches(w, b, IdKeys(id))
      /\ SameGroup(w, b, id)
      /\ PartsTogether(w, id) => PartsTogether(b, id)
  BY <1>6, BumpFacts
<1>. HIDE DEF b
<1>8. /\ Sound(store') /\ Touches(b, store', IdKeys(id))
      /\ SameGroup(b, store', id)
      /\ PartsTogether(b, id) => PartsTogether(store', id)
      /\ ~Has(store', GroupCounted(id))
  BY <1>1, <1>7, ClearFacts
<1>9. /\ GroupExists(w, id) /\ Load(w, id) = g2
      /\ StoredHistory(w, id) = StoredHistory(store, id) /\ PartsTogether(w, id)
  BY <1>6, WrittenIsRead
<1>10. Touches(s1, store', IdKeys(id))
  <2>1. Touches(s1, b, IdKeys(id))
    BY <1>6, <1>7, TouchesTwice
  <2>. QED BY <1>8, <2>1, TouchesTwice
<1>11. StorageInv'
  <2>1. count' \in [Tiers -> 0..MaxGroups] /\ restricted' \in BOOLEAN
    BY <1>1, <1>2, CountTypes
  <2>. QED BY <1>4, <1>7, <1>8, <1>9, <1>10, <2>1, InvAfter
<1>12. Membership(g.tier, g.commitment, g.epoch) \in NewlySpent
  BY <1>4, <1>10, SpentStatement
<1>13. /\ GroupExists(store', id) /\ Load(store', id) = g2
       /\ StoredHistory(store', id) = StoredHistory(store, id)
  BY <1>7, <1>8, <1>9 DEF SameGroup
<1>. QED BY <1>1, <1>4, <1>8, <1>10, <1>11, <1>12, <1>13 DEF Retires, g2

LEMMA BumpStep ==
    ASSUME StorageInv, NEW id \in Ids, BumpGroupTtl(id)
    PROVE  StorageInv' /\ Stays
<1>1. store' = BumpGroup(store, id) /\ count' = count /\ restricted' = restricted
  BY DEF BumpGroupTtl
<1>2. /\ Sound(store') /\ Touches(store, store', IdKeys(id))
      /\ SameGroup(store, store', id) /\ SameReceipt(store, store', id)
      /\ PartsTogether(store', id)
  BY <1>1, BumpFacts DEF StorageInv
<1>3. OthersStay(id) /\ \A x \in Ids : x # id => PartsTogether(store', x)
  BY <1>2, ChangeOne
<1>4. count' \in [Tiers -> 0..MaxGroups] /\ restricted' \in BOOLEAN
  BY <1>1 DEF StorageInv, TypeOK
<1>. QED BY <1>1, <1>2, <1>3, <1>4, InvAfter DEF Stays, OthersStay

LEMMA ReconcileStep ==
    ASSUME StorageInv, NEW id \in Ids, ReconcileTierCount(id)
    PROVE  StorageInv' /\ Reconciles(id)
<1>1. /\ ~GroupExists(store, id) /\ Has(store, GroupCounted(id))
      /\ Uncount(store[GroupCounted(id)].v)
      /\ store' = ClearReceipt(store, id) /\ restricted' = restricted
  BY DEF ReconcileTierCount
<1>2. /\ Sound(store') /\ Touches(store, store', IdKeys(id))
      /\ SameGroup(store, store', id)
      /\ PartsTogether(store', id)
      /\ ~Has(store', GroupCounted(id))
  BY <1>1, ClearFacts DEF StorageInv
<1>3. OthersStay(id) /\ \A x \in Ids : x # id => PartsTogether(store', x)
  BY <1>2, ChangeOne
<1>4. count' \in [Tiers -> 0..MaxGroups] /\ restricted' \in BOOLEAN
  <2>1. store[GroupCounted(id)].v \in Tiers
    BY <1>1, KeysRead DEF StorageInv
  <2>. QED BY <1>1, <2>1, CountTypes
<1>. QED BY <1>1, <1>2, <1>3, <1>4, InvAfter DEF Reconciles, SameGroup

LEMMA CloseStep ==
    ASSUME StorageInv, CloseLedger
    PROVE  StorageInv' /\ Expires
<1>1. store' = Age(store) /\ count' = count /\ restricted' = restricted
  BY DEF CloseLedger
<1>2. \A x \in Ids : /\ PartsTogether(store', x)
                     /\ GroupExists(store', x) => SameGroup(store, store', x)
                     /\ Has(store', GroupCounted(x)) => SameReceipt(store, store', x)
  BY <1>1, AgeKeeps DEF StorageInv
<1>3. Sound(store')
  BY <1>1, AgeSound DEF StorageInv
<1>. QED BY <1>1, <1>2, <1>3 DEF Expires, StorageInv, TypeOK, Sound

LEMMA QuietStep ==
    ASSUME StorageInv, SetRestrictedMode \/ UNCHANGED vars
    PROVE  StorageInv' /\ Stays
<1>1. store' = store /\ count' = count /\ restricted' \in BOOLEAN
  BY DEF SetRestrictedMode, vars, StorageInv, TypeOK
<1>2. StorageInv'
  BY <1>1 DEF StorageInv, TypeOK
<1>3. Stays
  BY <1>1 DEF Stays, SameGroup, SameReceipt
<1>. QED BY <1>2, <1>3

LEMMA StepFacts ==
    ASSUME StorageInv, [Next]_vars
    PROVE  StorageInv' /\ StepKind
<1>1. CASE SetRestrictedMode \/ UNCHANGED vars
  BY <1>1, QuietStep DEF StepKind
<1>2. CASE CloseLedger
  BY <1>2, CloseStep DEF StepKind
<1>3. ASSUME NEW id \in Ids, BumpGroupTtl(id) PROVE StorageInv' /\ StepKind
  BY <1>3, BumpStep DEF StepKind
<1>4. ASSUME NEW id \in Ids, ReconcileTierCount(id) PROVE StorageInv' /\ StepKind
  BY <1>4, ReconcileStep DEF StepKind
<1>5. ASSUME NEW id \in Ids, NEW n \in Nonces,
             ConsumeMembershipProof(id, n) \/ DeactivateGroup(id, n)
      PROVE  StorageInv' /\ StepKind
  BY <1>5, ConsumeStep, DeactivateStep DEF StepKind
<1>6. ASSUME NEW id \in Ids, NEW n \in Nonces, NEW c \in Commitments,
             UpdateCommitment(id, c, n) \/ UpdateAdminCommitment(id, c, n)
      PROVE  StorageInv' /\ StepKind
  BY <1>6, UpdateStep, UpdateAdminStep DEF StepKind
<1>7. ASSUME NEW id \in Ids, NEW n \in Nonces, NEW c \in Commitments, NEW m \in MemberCounts,
             UpdateCommitmentDemocracy(id, c, m, n)
      PROVE  StorageInv' /\ StepKind
  BY <1>7, UpdateDemocracyStep DEF StepKind
<1>8. ASSUME NEW id \in Ids, NEW n \in Nonces, NEW c \in Commitments, NEW t \in Tiers,
             NEW m \in MemberCounts, NEW isAdmin \in BOOLEAN,
             NEW gtype \in {Anarchy, OneOnOne, Democracy},
             CreateGroupV2(id, c, t, gtype, m, n, isAdmin)
      PROVE  StorageInv' /\ StepKind
  BY <1>8, CreateStep DEF StepKind
<1>9. ASSUME NEW id \in Ids, NEW n \in Nonces, NEW c \in Commitments, NEW t \in Tiers,
             NEW m \in MemberCounts, NEW isAdmin \in BOOLEAN, NEW root \in Commitments,
             CreateOligarchyGroup(id, c, t, m, root, n, isAdmin)
      PROVE  StorageInv' /\ StepKind
  BY <1>9, CreateOligarchyStep DEF StepKind
<1>. QED BY <1>1, <1>2, <1>3, <1>4, <1>5, <1>6, <1>7, <1>8, <1>9 DEF Next

-------------------------------------------------------------------------------
(* The theorems.                                                           *)

\* A history is the run of the epochs just before e, as many as the window holds.
RecentEpochs(h, e) ==
    /\ Len(h) = IF e < Window THEN e ELSE Window
    /\ \A i \in DOMAIN h : h[i].active /\ h[i].epoch + Len(h) + 1 = e + i

LEMMA LegacyFacts ==
    ASSUME NEW t \in Tiers, NEW c \in Commitments, NEW e \in 0..MaxEpoch
    PROVE  /\ LegacyEntry(t, c, e) \in Entry
           /\ LegacyHistory(t, c, e) \in Seq(HistoryEntry)
           /\ RecentEpochs(LegacyHistory(t, c, e), e)
<1>. DEFINE all == [i \in 1..e |-> Archived(LegacyEntry(t, c, i - 1))]
            h   == LastOf(all, Window)
<1>1. e \in Nat /\ MaxEpoch \in Nat /\ Window \in Nat \ {0}
  BY RegistryAssumption
<1>2. LegacyEntry(t, c, e) \in Entry
  BY DEF LegacyEntry, Entry, Anarchy
<1>3. ASSUME NEW i \in 1..e
      PROVE  /\ Archived(LegacyEntry(t, c, i - 1)) \in HistoryEntry
             /\ Archived(LegacyEntry(t, c, i - 1)).epoch = i - 1
             /\ Archived(LegacyEntry(t, c, i - 1)).active
  BY <1>1 DEF Archived, LegacyEntry, HistoryEntry
<1>4. all \in Seq(HistoryEntry) /\ Len(all) = e
  BY <1>1, <1>3
<1>5. \A i \in 1..e : all[i].epoch = i - 1 /\ all[i].active
  BY <1>3
<1>. HIDE DEF all
<1>6. /\ h \in Seq(HistoryEntry)
      /\ Len(h) = IF e <= Window THEN e ELSE Window
      /\ \A i \in 1..Len(h) : h[i] = all[i + e - Len(h)]
  BY <1>1, <1>4, LastOfFacts
<1>7. h = LegacyHistory(t, c, e)
  BY DEF LegacyHistory, all
<1>. HIDE DEF h
<1>8. RecentEpochs(h, e)
  <2>1. Len(h) = IF e < Window THEN e ELSE Window
    BY <1>1, <1>6
  <2>2. ASSUME NEW i \in 1..Len(h)
        PROVE  h[i].active /\ h[i].epoch + Len(h) + 1 = e + i
    <3>1. i + e - Len(h) \in 1..e
      BY <1>1, <1>6
    <3>2. h[i] = all[i + e - Len(h)]
      BY <1>6
    <3>3. h[i].active /\ h[i].epoch = i + e - Len(h) - 1
      BY <1>5, <3>1, <3>2
    <3>. QED BY <1>1, <1>6, <3>3
  <2>3. DOMAIN h = 1..Len(h)
    BY <1>6
  <2>. QED BY <2>1, <2>2, <2>3 DEF RecentEpochs
<1>. QED BY <1>2, <1>6, <1>7, <1>8

(***************************************************************************)
(* What the deployments that hold groups of the old format look like.      *)
(***************************************************************************)
LEMMA InitFacts ==
    ASSUME Init
    PROVE  /\ StorageInv
           /\ \A id \in Ids : ~Has(store, GroupCounted(id))
           /\ \E legacy \in SUBSET Ids, t \in Tiers, e \in 0..MaxEpoch :
                /\ count = [u \in Tiers |-> IF u = t THEN Cardinality(legacy) ELSE 0]
                /\ \A id \in Ids : /\ GroupExists(store, id) <=> id \in legacy
                                   /\ GroupExists(store, id) =>
                                        /\ Load(store, id).tier = t
                                        /\ Load(store, id).active
                                        /\ RecentEpochs(StoredHistory(store, id),
                                                        Load(store, id).epoch)
<1>1. PICK legacy \in SUBSET Ids, t \in Tiers, c \in Commitments, e \in 0..MaxEpoch,
           left \in 1..Bump :
        /\ Cardinality(legacy) <= MaxGroups
        /\ store = [k \in {Group(id) : id \in legacy} \cup {History(id) : id \in legacy} |->
                      [ttl |-> left,
                       v |-> IF k[1] = "Group" THEN LegacyEntry(t, c, e)
                                               ELSE LegacyHistory(t, c, e)]]
        /\ count = [u \in Tiers |-> IF u = t THEN Cardinality(legacy) ELSE 0]
        /\ restricted = FALSE
  BY DEF Init
<1>. DEFINE held == {Group(id) : id \in legacy} \cup {History(id) : id \in legacy}
<1>2. /\ \A k : Has(store, k) <=> k \in held
      /\ \A k \in DOMAIN store :
            /\ store[k] = [v |-> store[k].v, ttl |-> store[k].ttl]
            /\ store[k].ttl = left
            /\ store[k].v = IF k[1] = "Group" THEN LegacyEntry(t, c, e)
                                              ELSE LegacyHistory(t, c, e)
  <2>1. DOMAIN store = held
    BY <1>1
  <2>. DEFINE val(k) == IF k[1] = "Group" THEN LegacyEntry(t, c, e) ELSE LegacyHistory(t, c, e)
  <2>2. ASSUME NEW k \in DOMAIN store PROVE store[k] = [ttl |-> left, v |-> val(k)]
    BY <1>1, <2>1
  <2>. HIDE DEF val
  <2>3. ASSUME NEW k \in DOMAIN store
        PROVE  /\ store[k] = [v |-> store[k].v, ttl |-> store[k].ttl]
               /\ store[k].ttl = left /\ store[k].v = val(k)
    BY <2>2
  <2>. QED BY <2>1, <2>3 DEF Has, val
<1>3. /\ LegacyEntry(t, c, e) \in Entry
      /\ LegacyHistory(t, c, e) \in Seq(HistoryEntry)
      /\ RecentEpochs(LegacyHistory(t, c, e), e)
      /\ LegacyEntry(t, c, e).tier = t /\ LegacyEntry(t, c, e).active
      /\ LegacyEntry(t, c, e).epoch = e
  BY LegacyFacts DEF LegacyEntry
<1>4. ASSUME NEW id \in Ids
      PROVE  /\ Has(store, Group(id)) <=> id \in legacy
             /\ Has(store, History(id)) <=> id \in legacy
             /\ ~Has(store, GroupV2(id)) /\ ~Has(store, HistoryV2(id))
             /\ ~Has(store, GroupCounted(id))
  <2>1. \A k \in held : \/ k[1] = "Group" /\ k[2] \in legacy
                        \/ k[1] = "History" /\ k[2] \in legacy
    BY KeyParts
  <2>2. id \in legacy => Group(id) \in held /\ History(id) \in held
    OBVIOUS
  <2>. HIDE DEF held
  <2>. QED BY <1>2, <2>1, <2>2, KeyParts
<1>5. ASSUME NEW id \in legacy
      PROVE  /\ store[Group(id)].v = LegacyEntry(t, c, e)
             /\ store[History(id)].v = LegacyHistory(t, c, e)
             /\ store[Group(id)].ttl = store[History(id)].ttl
  BY <1>2, <1>4, KeyParts DEF Has
<1>6. Sound(store)
  <2>1. ASSUME NEW k \in DOMAIN store PROVE KeyTyped(k, store[k].v)
    <3>1. k \in held
      BY <1>2 DEF Has
    <3>2. PICK id \in legacy : k = Group(id) \/ k = History(id)
      BY <3>1
    <3>. QED BY <1>3, <1>5, <3>2, KeysTyped
  <2>2. left \in 1..CountedBump
    BY Constants
  <2>. QED BY <1>2, <2>1, <2>2 DEF Sound, Shaped
<1>7. \A id \in Ids : PartsTogether(store, id)
  BY <1>4, <1>5 DEF PartsTogether, Paired
<1>8. count \in [Tiers -> 0..MaxGroups]
  <2>1. Cardinality(legacy) \in 0..MaxGroups
    <3>1. Cardinality(legacy) \in Nat
      BY FS_Subset, FS_CardinalityType, RegistryAssumption
    <3>. QED BY <1>1, <3>1, RegistryAssumption
  <2>2. 0 \in 0..MaxGroups
    BY RegistryAssumption
  <2>. QED BY <1>1, <2>1, <2>2
<1>9. StorageInv
  BY <1>1, <1>6, <1>7, <1>8 DEF StorageInv, TypeOK, Sound
<1>10. ASSUME NEW id \in Ids
       PROVE  /\ GroupExists(store, id) <=> id \in legacy
              /\ GroupExists(store, id) => /\ Load(store, id) = LegacyEntry(t, c, e)
                                           /\ StoredHistory(store, id) = LegacyHistory(t, c, e)
  BY <1>4, <1>5 DEF GroupExists, Load, StoredHistory, Get
<1>11. \A id \in Ids : /\ GroupExists(store, id) <=> id \in legacy
                       /\ GroupExists(store, id) =>
                            /\ Load(store, id).tier = t
                            /\ Load(store, id).active
                            /\ RecentEpochs(StoredHistory(store, id), Load(store, id).epoch)
  BY <1>3, <1>10
<1>. QED BY <1>1, <1>4, <1>9, <1>11

(***************************************************************************)
(* The storage of a deployment is always what its types say, whatever      *)
(* sequence of calls and expiries led there, and a group is never left     *)
(* without its history, in two formats, or with half of it expired.        *)
(***************************************************************************)
THEOREM RegistryTypes == Spec => []StorageInv
<1>1. Init => StorageInv
  BY InitFacts
<1>2. StorageInv /\ [Next]_vars => StorageInv'
  BY StepFacts
<1>. QED BY <1>1, <1>2, PTL DEF Spec

THEOREM RegistryTypeCorrect == Spec => []TypeOK
<1>1. StorageInv => TypeOK
  BY DEF StorageInv
<1>. QED BY <1>1, RegistryTypes, PTL

(***************************************************************************)
(* HistoryIsRecentEpochs, for every window: an update archives the epoch   *)
(* it ends and drops the oldest one when the window is full; nothing else  *)
(* touches a live history, the migration of a legacy one included.         *)
(***************************************************************************)
LEMMA ArchivedEpochs ==
    ASSUME NEW h \in Seq(HistoryEntry), NEW g \in Entry, g.active, RecentEpochs(h, g.epoch)
    PROVE  RecentEpochs(LastOf(Append(h, Archived(g)), Window), g.epoch + 1)
<1>. DEFINE a == Append(h, Archived(g))
            l == LastOf(a, Window)
            e == g.epoch
<1>1. /\ e \in Nat /\ Window \in Nat \ {0}
      /\ Len(h) = IF e < Window THEN e ELSE Window
      /\ \A i \in 1..Len(h) : h[i].active /\ h[i].epoch + Len(h) + 1 = e + i
  BY RegistryAssumption DEF Entry, RecentEpochs
<1>2. Archived(g) \in HistoryEntry /\ Archived(g).active /\ Archived(g).epoch = e
  BY DEF Archived, Entry, HistoryEntry
<1>3. /\ a \in Seq(HistoryEntry) /\ Len(a) = Len(h) + 1
      /\ \A i \in 1..Len(h) : a[i] = h[i]
      /\ a[Len(h) + 1] = Archived(g)
  BY <1>2
<1>. HIDE DEF a, e
<1>4. /\ l \in Seq(HistoryEntry)
      /\ Len(l) = IF Len(a) <= Window THEN Len(a) ELSE Window
      /\ \A i \in 1..Len(l) : l[i] = a[i + Len(a) - Len(l)]
  BY <1>1, <1>3, LastOfFacts
<1>. HIDE DEF l
<1>5. Len(l) = IF e + 1 < Window THEN e + 1 ELSE Window
  BY <1>1, <1>3, <1>4
<1>6. \A j \in 1..Len(a) : a[j].active /\ a[j].epoch + Len(h) + 1 = e + j
  <2>. TAKE j \in 1..Len(a)
  <2>1. CASE j \in 1..Len(h)
    BY <1>1, <1>3, <2>1
  <2>2. CASE j = Len(h) + 1
    BY <1>1, <1>2, <1>3, <2>2
  <2>. QED BY <1>3, <2>1, <2>2
<1>7. ASSUME NEW i \in 1..Len(l)
      PROVE  l[i].active /\ l[i].epoch + Len(l) + 1 = (e + 1) + i
  <2>1. i + Len(a) - Len(l) \in 1..Len(a)
    BY <1>1, <1>3, <1>4
  <2>2. /\ l[i].active
        /\ l[i].epoch + Len(h) + 1 = e + (i + Len(a) - Len(l))
    BY <1>4, <1>6, <2>1
  <2>3. l[i].epoch \in Nat
    <3>1. l[i] \in HistoryEntry
      BY <1>4
    <3>. QED BY <3>1, RegistryAssumption DEF HistoryEntry
  <2>. DEFINE x == l[i].epoch
              y == Len(l)
              z == Len(h)
  <2>4. x \in Nat /\ y \in Nat /\ z \in Nat /\ i \in Nat
    BY <1>4, <2>3
  <2>5. x + z + 1 = e + (i + (z + 1) - y)
    BY <1>3, <2>2
  <2>. HIDE DEF x, y, z
  <2>6. x + y + 1 = (e + 1) + i
    BY <1>1, <2>4, <2>5
  <2>. QED BY <2>2, <2>6 DEF x, y
<1>8. DOMAIN l = 1..Len(l)
  BY <1>4
<1>. QED BY <1>5, <1>7, <1>8 DEF RecentEpochs, l, a, e

THEOREM HistoryIsRecentEpochsAlways == Spec => []HistoryIsRecentEpochs
<1>. DEFINE Good == \A id \in Ids : GroupExists(store, id) =>
                        RecentEpochs(StoredHistory(store, id), Load(store, id).epoch)
<1>1. Init => Good
  BY InitFacts
<1>2. StorageInv /\ StepKind /\ Good => Good'
  <2>. SUFFICES ASSUME StorageInv, StepKind, Good, NEW x \in Ids, GroupExists(store', x)
                PROVE  RecentEpochs(StoredHistory(store', x), Load(store', x).epoch)
    OBVIOUS
  <2>1. CASE SameGroup(store, store', x)
    BY <2>1 DEF SameGroup
  <2>2. CASE Stays \/ Expires
    BY <2>1, <2>2 DEF Stays, Expires
  <2>3. ASSUME NEW id \in Ids, x # id, OthersStay(id)
        PROVE  RecentEpochs(StoredHistory(store', x), Load(store', x).epoch)
    BY <2>1, <2>3 DEF OthersStay
  <2>4. CASE Founds(x)
    BY <2>4, RegistryAssumption DEF Founds, RecentEpochs
  <2>5. CASE Advances(x)
    <3>1. /\ Load(store, x) \in Entry /\ Load(store, x).active
          /\ StoredHistory(store, x) \in Seq(HistoryEntry)
          /\ RecentEpochs(StoredHistory(store, x), Load(store, x).epoch)
      BY <2>5, GroupOfId DEF Advances, ActiveGroup
    <3>2. StoredHistory(store', x)
            = LastOf(Append(StoredHistory(store, x), Archived(Load(store, x))), Window)
      BY <2>5 DEF Advances
    <3>3. Load(store', x).epoch = Load(store, x).epoch + 1
      BY <2>5, <3>1 DEF Advances, Entry
    <3>. QED BY <3>1, <3>2, <3>3, ArchivedEpochs
  <2>6. CASE Retires(x)
    <3>1. GroupExists(store, x) /\ Load(store, x) \in Entry
      BY <2>6, GroupOfId DEF Retires, ActiveGroup
    <3>2. Load(store', x).epoch = Load(store, x).epoch
      BY <2>6, <3>1 DEF Retires, Entry
    <3>. QED BY <2>6, <3>1, <3>2 DEF Retires
  <2>7. ASSUME NEW id \in Ids, Founds(id) \/ Advances(id) \/ Retires(id) \/ Reconciles(id)
        PROVE  RecentEpochs(StoredHistory(store', x), Load(store', x).epoch)
    <3>1. OthersStay(id)
      BY <2>7 DEF Founds, Advances, Retires, Reconciles
    <3>2. CASE x # id
      BY <2>3, <3>1, <3>2
    <3>3. CASE x = id
      BY <2>4, <2>5, <2>6, <2>7, <3>3 DEF Reconciles
    <3>. QED BY <3>2, <3>3
  <2>. QED BY <2>2, <2>7 DEF StepKind
<1>3. Good => HistoryIsRecentEpochs
  BY DEF HistoryIsRecentEpochs, RecentEpochs
<1>4. StorageInv /\ [Next]_vars => StepKind
  BY StepFacts
<1>. HIDE DEF Good
<1>. QED BY <1>1, <1>2, <1>3, <1>4, RegistryTypes, PTL DEF Spec

(***************************************************************************)
(* CountCoversLive, for any number of groups and any limit.  A call moves  *)
(* the count of one tier by one and moves at most one id in or out of that *)
(* tier's counted ids, in the same direction: what retirement and          *)
(* reconciliation take off the count stood for a unit of it, because a     *)
(* receipt never contradicts its live group.                               *)
(***************************************************************************)
StandsFor(s, id, t) ==
    \/ GroupExists(s, id) /\ Load(s, id).active /\ Load(s, id).tier = t
    \/ Receipted(s, id, t)

Consistent(s, id) ==
    Has(s, GroupCounted(id)) /\ GroupExists(s, id) =>
        Load(s, id).active /\ s[GroupCounted(id)].v = Load(s, id).tier

LEMMA CountedFinite ==
    /\ \A t : IsFiniteSet(Counted(t)) /\ Counted(t) \subseteq Ids
    /\ \A t : IsFiniteSet(Counted(t)') /\ Counted(t)' \subseteq Ids
    /\ \A t, id : id \in Counted(t) <=> id \in Ids /\ StandsFor(store, id, t)
    /\ \A t, id : id \in Counted(t)' <=> id \in Ids /\ StandsFor(store', id, t)
<1>1. (\A t : Counted(t) \subseteq Ids) /\ (\A t : Counted(t)' \subseteq Ids)
  BY DEF Counted
<1>2. (\A t : IsFiniteSet(Counted(t))) /\ (\A t : IsFiniteSet(Counted(t)'))
  BY <1>1, FS_Subset, RegistryAssumption
<1>3. \A t, id : id \in Counted(t) <=> id \in Ids /\ StandsFor(store, id, t)
  BY DEF Counted, StandsFor, Receipted, ActiveGroup
<1>4. \A t, id : id \in Counted(t)' <=> id \in Ids /\ StandsFor(store', id, t)
  BY DEF Counted, StandsFor, Receipted, ActiveGroup
<1>. QED BY <1>1, <1>2, <1>3, <1>4

LEMMA SameStanding ==
    ASSUME NEW s, NEW s2, NEW id, SameGroup(s, s2, id), SameReceipt(s, s2, id)
    PROVE  /\ \A t : StandsFor(s2, id, t) <=> StandsFor(s, id, t)
           /\ Consistent(s, id) => Consistent(s2, id)
BY DEF SameGroup, SameReceipt, StandsFor, Receipted, Consistent

\* What a tier's counted ids become, by how the count of the tier moves.
LEMMA CountMoves ==
    ASSUME NEW t, CountedFinite, NEW n \in Nat, Cardinality(Counted(t)) <= n
    PROVE  /\ Counted(t)' \subseteq Counted(t) => Cardinality(Counted(t)') <= n
           /\ \A id : Counted(t)' \subseteq Counted(t) \cup {id}
                        => Cardinality(Counted(t)') <= n + 1
           /\ \A id \in Counted(t) : Counted(t)' \subseteq Counted(t) \ {id}
                        => n > 0 /\ Cardinality(Counted(t)') <= n - 1
<1>. DEFINE C == Counted(t)
            D == Counted(t)'
<1>1. IsFiniteSet(C) /\ IsFiniteSet(D) /\ Cardinality(C) <= n
  BY CountedFinite
<1>. HIDE DEF C, D
<1>2. Cardinality(C) \in Nat /\ Cardinality(D) \in Nat
  BY <1>1, FS_CardinalityType
<1>3. D \subseteq C => Cardinality(D) <= n
  BY <1>1, <1>2, FS_Subset
<1>4. ASSUME NEW id, D \subseteq C \cup {id} PROVE Cardinality(D) <= n + 1
  <2>1. IsFiniteSet(C \cup {id}) /\ Cardinality(C \cup {id}) <= Cardinality(C) + 1
    BY <1>1, <1>2, FS_AddElement
  <2>2. Cardinality(D) <= Cardinality(C \cup {id})
    BY <1>4, <2>1, FS_Subset
  <2>3. Cardinality(C \cup {id}) \in Nat
    BY <2>1, FS_CardinalityType
  <2>. QED BY <1>1, <1>2, <2>1, <2>2, <2>3
<1>5. ASSUME NEW id \in C, D \subseteq C \ {id} PROVE n > 0 /\ Cardinality(D) <= n - 1
  <2>1. IsFiniteSet(C \ {id}) /\ Cardinality(C \ {id}) = Cardinality(C) - 1
    BY <1>1, FS_RemoveElement
  <2>2. Cardinality(D) <= Cardinality(C \ {id})
    BY <1>5, <2>1, FS_Subset
  <2>. QED BY <1>1, <1>2, <2>1, <2>2
<1>. QED BY <1>3, <1>4, <1>5 DEF C, D

THEOREM CountCoversLiveAlways == Spec => []CountCoversLive
<1>. DEFINE Agree == \A id \in Ids : Consistent(store, id)
            Covers == \A t \in Tiers : Cardinality(Counted(t)) <= count[t]
<1>1. /\ CountCoversLive <=> Covers /\ Agree
      /\ CountCoversLive' <=> Covers' /\ Agree'
  BY DEF CountCoversLive, Consistent
<1>2. Init => CountCoversLive
  <2>. SUFFICES ASSUME Init PROVE CountCoversLive
    OBVIOUS
  <2>1. PICK legacy \in SUBSET Ids, t \in Tiers :
           /\ count = [u \in Tiers |-> IF u = t THEN Cardinality(legacy) ELSE 0]
           /\ \A id \in Ids : /\ GroupExists(store, id) <=> id \in legacy
                              /\ GroupExists(store, id) => Load(store, id).tier = t
    BY InitFacts
  <2>2. \A id \in Ids : ~Has(store, GroupCounted(id))
    BY InitFacts
  <2>3. IsFiniteSet(legacy) /\ Cardinality(legacy) \in Nat
    BY FS_Subset, FS_CardinalityType, RegistryAssumption
  <2>4. ASSUME NEW u \in Tiers PROVE Cardinality(Counted(u)) <= count[u]
    <3>1. Counted(u) \subseteq IF u = t THEN legacy ELSE {}
      BY <2>1, <2>2 DEF Counted, ActiveGroup
    <3>2. CASE u = t
      BY <2>1, <2>3, <3>1, <3>2, FS_Subset
    <3>3. CASE u # t
      <4>1. Counted(u) = {} /\ count[u] = 0
        BY <2>1, <3>1, <3>3
      <4>. QED BY <4>1, FS_EmptySet
    <3>. QED BY <3>2, <3>3
  <2>. QED BY <2>2, <2>4 DEF CountCoversLive
<1>3. StorageInv /\ StorageInv' /\ StepKind /\ CountCoversLive => CountCoversLive'
  <2>. SUFFICES ASSUME StorageInv, StorageInv', StepKind, Covers, Agree PROVE Covers' /\ Agree'
    BY <1>1
  <2>1. /\ count \in [Tiers -> 0..MaxGroups] /\ MaxGroups \in Nat
        /\ \A t \in Tiers : count[t] \in Nat
    BY RegistryAssumption DEF StorageInv, TypeOK
  <2>2. /\ \A t \in Tiers : Counted(t)' \subseteq Counted(t)
                              => Cardinality(Counted(t)') <= count[t]
        /\ \A t \in Tiers, id \in Ids :
              Counted(t)' \subseteq Counted(t) \cup {id}
                => Cardinality(Counted(t)') <= count[t] + 1
        /\ \A t \in Tiers, id \in Ids :
              id \in Counted(t) /\ Counted(t)' \subseteq Counted(t) \ {id}
                => count[t] > 0 /\ Cardinality(Counted(t)') <= count[t] - 1
    BY <2>1, CountedFinite, CountMoves
  <2>3. ASSUME count' = count,
               \A id \in Ids : /\ \A t : StandsFor(store', id, t) => StandsFor(store, id, t)
                               /\ Consistent(store', id)
        PROVE  Covers' /\ Agree'
    <3>1. \A t \in Tiers : Counted(t)' \subseteq Counted(t)
      BY <2>3, CountedFinite
    <3>. QED BY <2>2, <2>3, <3>1
  <2>4. CASE Stays
    BY <2>3, <2>4, SameStanding DEF Stays
  <2>5. CASE Expires
    <3>1. ASSUME NEW id \in Ids
          PROVE  /\ \A t : StandsFor(store', id, t) => StandsFor(store, id, t)
                 /\ Consistent(store', id)
      <4>1. /\ GroupExists(store', id) => SameGroup(store, store', id)
            /\ Has(store', GroupCounted(id)) => SameReceipt(store, store', id)
        BY <2>5 DEF Expires
      <4>2. \A t : StandsFor(store', id, t) => StandsFor(store, id, t)
        BY <4>1 DEF StandsFor, Receipted, SameGroup, SameReceipt
      <4>3. Consistent(store', id)
        BY <4>1 DEF Consistent, SameGroup, SameReceipt
      <4>. QED BY <4>2, <4>3
    <3>. QED BY <2>3, <2>5, <3>1 DEF Expires
  <2>6. ASSUME NEW id \in Ids, OthersStay(id)
        PROVE  \A x \in Ids : x # id =>
                  /\ \A t : StandsFor(store', x, t) <=> StandsFor(store, x, t)
                  /\ Consistent(store', x)
    BY <2>6, SameStanding DEF OthersStay
  <2>7. ASSUME NEW id \in Ids, Founds(id) PROVE Covers' /\ Agree'
    <3>. DEFINE t == Load(store', id).tier
    <3>1. /\ \A u : StandsFor(store', id, u) <=> u = t
          /\ Consistent(store', id)
          /\ count' = [count EXCEPT ![t] = @ + 1]
          /\ OthersStay(id)
          /\ t \in Tiers
      <4>1. GroupExists(store', id) /\ Load(store', id).active /\ Receipted(store', id, t)
        BY <2>7 DEF Founds
      <4>2. t \in Tiers
        <5>1. Sound(store')
          BY DEF StorageInv
        <5>. QED BY <4>1, <5>1, GroupRead DEF Entry
      <4>. QED BY <2>7, <4>1, <4>2 DEF Founds, StandsFor, Consistent, Receipted
    <3>. HIDE DEF t
    <3>2. Agree'
      BY <2>6, <3>1
    <3>3. ASSUME NEW u \in Tiers PROVE Cardinality(Counted(u)') <= count'[u]
      <4>1. CASE u = t
        <5>1. Counted(u)' \subseteq Counted(u) \cup {id}
          BY <2>6, <3>1, CountedFinite
        <5>. QED BY <2>1, <2>2, <3>1, <4>1, <5>1
      <4>2. CASE u # t
        <5>1. Counted(u)' \subseteq Counted(u)
          BY <2>6, <3>1, <4>2, CountedFinite
        <5>. QED BY <2>1, <2>2, <3>1, <4>2, <5>1
      <4>. QED BY <4>1, <4>2
    <3>. QED BY <3>2, <3>3
  <2>8. ASSUME NEW id \in Ids, Advances(id) PROVE Covers' /\ Agree'
    <3>. DEFINE g == Load(store, id)
                h == Load(store', id)
    <3>1. g \in Entry /\ GroupExists(store, id)
      BY <2>8, GroupOfId DEF Advances, ActiveGroup
    <3>2. h.tier = g.tier /\ h.active = g.active
      <4>1. \/ h = [g EXCEPT !.commitment = h.commitment, !.epoch = @ + 1]
            \/ h = [g EXCEPT !.commitment = h.commitment, !.epoch = @ + 1,
                             !.members = h.members]
        BY <2>8 DEF Advances
      <4>. HIDE DEF g, h
      <4>. QED BY <3>1, <4>1 DEF Entry
    <3>3. /\ \A t : StandsFor(store', id, t) => StandsFor(store, id, t)
          /\ Consistent(store', id)
      <4>1. SameReceipt(store, store', id) /\ Consistent(store, id)
        BY <2>8 DEF Advances
      <4>. QED BY <3>1, <3>2, <4>1 DEF StandsFor, Receipted, Consistent, SameReceipt
    <3>4. OthersStay(id) /\ count' = count
      BY <2>8 DEF Advances
    <3>. QED BY <2>3, <2>6, <3>3, <3>4
  <2>9. ASSUME NEW id \in Ids, NEW t \in Tiers, Uncount(t), OthersStay(id),
               StandsFor(store, id, t), \A u : ~StandsFor(store', id, u),
               Consistent(store', id)
        PROVE  Covers' /\ Agree'
    <3>1. Agree'
      BY <2>6, <2>9
    <3>2. \A u \in Tiers : Counted(u)' \subseteq Counted(u) \ {id}
      BY <2>6, <2>9, CountedFinite
    <3>3. ASSUME NEW u \in Tiers PROVE Cardinality(Counted(u)') <= count'[u]
      <4>1. CASE u = t
        <5>1. count[t] > 0 /\ Cardinality(Counted(t)') <= count[t] - 1
          BY <2>2, <2>9, <3>2, CountedFinite
        <5>2. count'[t] = count[t] - 1
          BY <2>1, <2>9, <5>1 DEF Uncount
        <5>. QED BY <4>1, <5>1, <5>2
      <4>2. CASE u # t
        <5>1. count'[u] = count[u]
          BY <2>1, <2>9, <4>2 DEF Uncount
        <5>2. Counted(u)' \subseteq Counted(u)
          BY <3>2
        <5>. QED BY <2>2, <5>1, <5>2
      <4>. QED BY <4>1, <4>2
    <3>. QED BY <3>1, <3>3
  <2>10. ASSUME NEW id \in Ids, Retires(id) PROVE Covers' /\ Agree'
    <3>. DEFINE g == Load(store, id)
    <3>1. g \in Entry /\ GroupExists(store, id) /\ g.active
      BY <2>10, GroupOfId DEF Retires, ActiveGroup
    <3>2. ~Load(store', id).active /\ ~Has(store', GroupCounted(id))
      BY <2>10, <3>1 DEF Retires, Entry
    <3>3. g.tier \in Tiers /\ Uncount(g.tier) /\ OthersStay(id)
      BY <2>10, <3>1 DEF Retires, Entry
    <3>4. /\ StandsFor(store, id, g.tier) /\ Consistent(store', id)
          /\ \A u : ~StandsFor(store', id, u)
      BY <3>1, <3>2 DEF StandsFor, Receipted, Consistent
    <3>. QED BY <2>9, <3>3, <3>4
  <2>11. ASSUME NEW id \in Ids, Reconciles(id) PROVE Covers' /\ Agree'
    <3>. DEFINE t == store[GroupCounted(id)].v
    <3>1. t \in Tiers /\ Uncount(t) /\ OthersStay(id)
      BY <2>11, KeysRead DEF Reconciles, StorageInv
    <3>2. /\ StandsFor(store, id, t) /\ Consistent(store', id)
          /\ \A u : ~StandsFor(store', id, u)
      BY <2>11 DEF Reconciles, StandsFor, Receipted, Consistent
    <3>. QED BY <2>9, <3>1, <3>2
  <2>. QED BY <2>4, <2>5, <2>7, <2>8, <2>10, <2>11 DEF StepKind
<1>4. StorageInv /\ [Next]_vars => StepKind
  BY StepFacts
<1>. QED BY <1>2, <1>3, <1>4, RegistryTypes, PTL DEF Spec

(***************************************************************************)
(* ChangesAreAuthorised, for every step the contract can take.             *)
(***************************************************************************)
THEOREM ChangesAreAuthorisedAlways == Spec => ChangesAreAuthorised
<1>. DEFINE AllAuthorised == \A id \in Ids : Authorised(id)
<1>1. StepKind => AllAuthorised
  <2>. SUFFICES ASSUME StepKind, NEW x \in Ids PROVE Authorised(x)
    OBVIOUS
  <2>1. ASSUME GroupExists(store', x) => SameGroup(store, store', x) PROVE Authorised(x)
    BY <2>1 DEF SameGroup, Authorised
  <2>2. CASE Stays \/ Expires
    BY <2>1, <2>2 DEF Stays, Expires
  <2>3. ASSUME NEW id \in Ids, x # id, OthersStay(id) PROVE Authorised(x)
    BY <2>1, <2>3 DEF OthersStay
  <2>4. CASE Founds(x) \/ Reconciles(x)
    BY <2>4 DEF Founds, Reconciles, Authorised
  <2>5. CASE Advances(x)
    BY <2>5 DEF Advances, ActiveGroup, Authorised
  <2>6. CASE Retires(x)
    BY <2>6 DEF Retires, ActiveGroup, Authorised
  <2>7. ASSUME NEW id \in Ids, Founds(id) \/ Advances(id) \/ Retires(id) \/ Reconciles(id)
        PROVE  Authorised(x)
    <3>1. OthersStay(id)
      BY <2>7 DEF Founds, Advances, Retires, Reconciles
    <3>. QED BY <2>3, <2>4, <2>5, <2>6, <2>7, <3>1
  <2>. QED BY <2>2, <2>7 DEF StepKind
<1>2. StorageInv /\ [Next]_vars => [AllAuthorised]_vars
  BY <1>1, StepFacts
<1>3. ChangesAreAuthorised <=> [][AllAuthorised]_vars
  BY DEF ChangesAreAuthorised
<1>. HIDE DEF AllAuthorised
<1>. QED BY <1>2, <1>3, RegistryTypes, PTL DEF Spec

(***************************************************************************)
(* The registry implements GroupLedger, over any ids and for any window:   *)
(* each kind of step is the ledger's step of the same name, or a stutter.  *)
(***************************************************************************)
View(s) ==
    [id \in Ids |->
        IF GroupExists(s, id)
        THEN LET g == Load(s, id)
             IN  [commitment |-> g.commitment, epoch |-> g.epoch, active |-> g.active]
        ELSE Absent]

LEMMA ViewFacts ==
    ASSUME NEW s, Sound(s), NEW id \in Ids
    PROVE  /\ View(s)[id] = Absent <=> ~GroupExists(s, id)
           /\ GroupExists(s, id) =>
                 /\ View(s)[id] = Archived(Load(s, id))
                 /\ View(s)[id] \in HistoryEntry
<1>1. GroupExists(s, id) => Archived(Load(s, id)) \in HistoryEntry
  BY GroupRead DEF Archived, Entry, HistoryEntry
<1>2. View(s)[id] = IF GroupExists(s, id) THEN Archived(Load(s, id)) ELSE Absent
  BY DEF View, Archived
<1>. QED BY <1>1, <1>2, AbsentAssumption

LEMMA ArchivedChanges ==
    ASSUME NEW x \in HistoryEntry, NEW y \in HistoryEntry
    PROVE  /\ y.epoch = x.epoch + 1 /\ y.active = x.active
                => y = [x EXCEPT !.commitment = y.commitment, !.epoch = @ + 1]
           /\ y.commitment = x.commitment /\ y.epoch = x.epoch /\ y.active = FALSE
                => y = [x EXCEPT !.active = FALSE]
BY DEF HistoryEntry

LEMMA ViewsFollow ==
    ASSUME NEW s, NEW s2, NEW id, SameGroup(s, s2, id), id \in Ids
    PROVE  View(s2)[id] = View(s)[id]
BY DEF SameGroup, View

THEOREM ImplementsLedgerAlways == Spec => ImplementsLedger
<1>. DEFINE V == View(store)
<1>1. StorageInv => Ledger!LedgerInit
  <2>. SUFFICES ASSUME StorageInv PROVE Ledger!LedgerInit
    OBVIOUS
  <2>1. \A id \in Ids : View(store)[id] \in HistoryEntry \cup {Absent}
    BY ViewFacts DEF StorageInv
  <2>2. View(store) \in [Ids -> HistoryEntry \cup {Absent}]
    BY <2>1 DEF View
  <2>. QED BY <2>2 DEF Ledger!LedgerInit, Ledger!Live, HistoryEntry, View
<1>2. ASSUME StorageInv, StorageInv', StepKind
      PROVE  Ledger!LedgerNext \/ View(store') = View(store)
  <2>1. Sound(store) /\ Sound(store')
    BY <1>2 DEF StorageInv
  <2>2. /\ DOMAIN View(store) = Ids /\ DOMAIN View(store') = Ids
        /\ View(store) = [id \in Ids |-> View(store)[id]]
        /\ View(store') = [id \in Ids |-> View(store')[id]]
    BY DEF View
  <2>3. \A f, g : f = [id \in Ids |-> f[id]] /\ g = [id \in Ids |-> g[id]]
                    /\ (\A id \in Ids : f[id] = g[id]) => f = g
    OBVIOUS
  <2>4. CASE Stays
    <3>1. \A id \in Ids : View(store')[id] = View(store)[id]
      BY <2>4, ViewsFollow DEF Stays
    <3>. QED BY <2>2, <2>3, <3>1
  <2>5. CASE Expires
    <3>. DEFINE gone == {id \in Ids : ~GroupExists(store', id)}
    <3>1. ASSUME NEW id \in Ids
          PROVE  View(store')[id] = IF id \in gone THEN Absent ELSE View(store)[id]
      BY <2>1, <2>5, ViewFacts, ViewsFollow DEF Expires
    <3>2. View(store') = [id \in Ids |-> IF id \in gone THEN Absent ELSE View(store)[id]]
      BY <2>2, <3>1
    <3>3. Ledger!Expire(gone)
      BY <3>2 DEF Ledger!Expire, View
    <3>. QED BY <3>3 DEF Ledger!LedgerNext
  <2>6. ASSUME NEW id \in Ids, OthersStay(id), NEW entry, View(store')[id] = entry
        PROVE  View(store') = [View(store) EXCEPT ![id] = entry]
    <3>1. \A x \in Ids : x # id => View(store')[x] = View(store)[x]
      BY <2>6, ViewsFollow DEF OthersStay
    <3>. QED BY <2>2, <2>6, <3>1
  <2>7. ASSUME NEW id \in Ids, Founds(id) PROVE Ledger!LedgerNext
    <3>. DEFINE g == Load(store', id)
    <3>1. /\ ~GroupExists(store, id) /\ GroupExists(store', id)
          /\ g.epoch = 0 /\ g.active /\ OthersStay(id)
      BY <2>7 DEF Founds
    <3>2. g \in Entry /\ View(store')[id] = Archived(g) /\ View(store)[id] = Absent
      BY <2>1, <3>1, GroupRead, ViewFacts
    <3>. HIDE DEF g
    <3>3. Archived(g) = [commitment |-> g.commitment, epoch |-> 0, active |-> TRUE]
          /\ g.commitment \in Commitments
      BY <3>1, <3>2 DEF Archived, Entry
    <3>4. View(store') = [View(store) EXCEPT ![id] =
                             [commitment |-> g.commitment, epoch |-> 0, active |-> TRUE]]
      BY <2>6, <3>1, <3>2, <3>3
    <3>5. Ledger!Found(id, g.commitment)
      BY <3>2, <3>4 DEF Ledger!Found, Ledger!Becomes, View
    <3>. QED BY <3>3, <3>5 DEF Ledger!LedgerNext
  <2>8. ASSUME NEW id \in Ids, Advances(id) PROVE Ledger!LedgerNext
    <3>. DEFINE g == Load(store, id)
                h == Load(store', id)
    <3>1. /\ GroupExists(store, id) /\ GroupExists(store', id) /\ g.active /\ OthersStay(id)
          /\ \/ h = [g EXCEPT !.commitment = h.commitment, !.epoch = @ + 1]
             \/ h = [g EXCEPT !.commitment = h.commitment, !.epoch = @ + 1,
                              !.members = h.members]
      BY <2>8 DEF Advances, ActiveGroup
    <3>2. /\ g \in Entry /\ h \in Entry
          /\ View(store)[id] = Archived(g) /\ View(store')[id] = Archived(h)
          /\ View(store)[id] # Absent
      BY <2>1, <3>1, GroupRead, ViewFacts
    <3>. HIDE DEF g, h
    <3>3. h.epoch = g.epoch + 1 /\ h.active = g.active /\ h.commitment \in Commitments
      BY <3>1, <3>2 DEF Entry
    <3>4. Archived(h) = [Archived(g) EXCEPT !.commitment = h.commitment, !.epoch = @ + 1]
      <4>1. Archived(g) \in HistoryEntry /\ Archived(h) \in HistoryEntry
        BY <2>1, <3>1, <3>2, ViewFacts DEF g, h
      <4>2. /\ Archived(h).epoch = Archived(g).epoch + 1
            /\ Archived(h).active = Archived(g).active
            /\ Archived(h).commitment = h.commitment
        BY <3>3 DEF Archived
      <4>. QED BY <4>1, <4>2, ArchivedChanges
    <3>5. View(store') = [View(store) EXCEPT ![id] =
                             [View(store)[id] EXCEPT !.commitment = h.commitment,
                                                     !.epoch = @ + 1]]
      BY <2>6, <3>1, <3>2, <3>4
    <3>6. View(store)[id].active
      BY <3>1, <3>2 DEF Archived
    <3>7. Ledger!Advance(id, h.commitment)
      BY <3>2, <3>5, <3>6 DEF Ledger!Advance, Ledger!Becomes, View
    <3>. QED BY <3>3, <3>7 DEF Ledger!LedgerNext
  <2>9. ASSUME NEW id \in Ids, Retires(id) PROVE Ledger!LedgerNext
    <3>. DEFINE g == Load(store, id)
                h == Load(store', id)
    <3>1. /\ GroupExists(store, id) /\ GroupExists(store', id) /\ g.active /\ OthersStay(id)
          /\ h = [g EXCEPT !.active = FALSE]
      BY <2>9 DEF Retires, ActiveGroup
    <3>2. /\ g \in Entry
          /\ View(store)[id] = Archived(g) /\ View(store')[id] = Archived(h)
          /\ View(store)[id] # Absent
      BY <2>1, <3>1, GroupRead, ViewFacts
    <3>. HIDE DEF g, h
    <3>3. Archived(h) = [Archived(g) EXCEPT !.active = FALSE]
      <4>1. Archived(g) \in HistoryEntry /\ Archived(h) \in HistoryEntry
        BY <2>1, <3>1, <3>2, ViewFacts DEF g, h
      <4>2. h.commitment = g.commitment /\ h.epoch = g.epoch /\ h.active = FALSE
        BY <3>1, <3>2 DEF Entry
      <4>3. /\ Archived(h).commitment = Archived(g).commitment
            /\ Archived(h).epoch = Archived(g).epoch
            /\ Archived(h).active = FALSE
        BY <4>2 DEF Archived
      <4>. QED BY <4>1, <4>3, ArchivedChanges
    <3>4. View(store') = [View(store) EXCEPT ![id] = [View(store)[id] EXCEPT !.active = FALSE]]
      BY <2>6, <3>1, <3>2, <3>3
    <3>5. View(store)[id].active
      BY <3>1, <3>2 DEF Archived
    <3>6. Ledger!Retire(id)
      BY <3>2, <3>4, <3>5 DEF Ledger!Retire, Ledger!Becomes, View
    <3>. QED BY <3>6 DEF Ledger!LedgerNext
  <2>10. ASSUME NEW id \in Ids, Reconciles(id) PROVE View(store') = View(store)
    <3>1. SameGroup(store, store', id) /\ OthersStay(id)
      BY <2>10 DEF Reconciles, SameGroup
    <3>2. \A x \in Ids : View(store')[x] = View(store)[x]
      BY <3>1, ViewsFollow DEF OthersStay
    <3>. QED BY <2>2, <2>3, <3>2
  <2>. QED BY <1>2, <2>4, <2>5, <2>7, <2>8, <2>9, <2>10 DEF StepKind
<1>3. ASSUME StorageInv, StorageInv', StepKind PROVE [Ledger!LedgerNext]_V
  BY <1>2, <1>3
<1>4. Init => StorageInv
  BY InitFacts
<1>5. StorageInv /\ [Next]_vars => StepKind
  BY StepFacts
<1>. QED BY <1>1, <1>3, <1>4, <1>5, RegistryTypes, PTL
         DEF Spec, ImplementsLedger, Ledger!LedgerSpec, View

===============================================================================
