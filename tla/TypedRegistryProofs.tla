-------------------------- MODULE TypedRegistryProofs --------------------------
(***************************************************************************)
(* Proofs about TypedRegistry, for any of the five contracts, any ids,     *)
(* tiers, rosters and limits, trees of any depth, any window, and any      *)
(* lengths of life that keep MinTtl < Threshold < Bump.                    *)
(***************************************************************************)
EXTENDS TypedRegistry, PoseidonProofs, TLAPS

\* What a storage always is.
Sound(s) == Shaped(s) /\ \A k \in DOMAIN s : s[k].ttl \in Nat \ {0}

\* An entry of that value with that much time left.
Holds(s, k, val, ttl) == Has(s, k) /\ s[k].v = val /\ s[k].ttl = ttl

\* Whatever happened, it happened at these keys.
Touches(s, s2, keys) == \A q : q \notin keys => AgreeAt(s, s2, q)

(***************************************************************************)
(* The parts of a group are there together, with the same time left.       *)
(***************************************************************************)
Together(s, id) ==
    \A k \in Entries(id) : /\ Has(s, k) <=> Has(s, Group(id))
                           /\ Has(s, k) => s[k].ttl = s[Group(id)].ttl

\* A sequence, whatever it is of.
IsSequence(h) == \E S : h \in Seq(S)

\* The epochs just before e, in order, as many as the window holds.
RecentEpochs(h, e) ==
    /\ IsSequence(h)
    /\ Len(h) = IF e < Window THEN e ELSE Window
    /\ \A i \in 1..Len(h) : h[i].epoch = e - Len(h) + i - 1

GroupSound(s, id) ==
    Has(s, Group(id)) =>
        LET e == s[Group(id)].v.epoch
        IN  e \in Nat /\ (kind # "oneonone" => RecentEpochs(s[History(id)].v, e))

StoreInv ==
    /\ Sound(store) /\ kind \in Kinds
    /\ \A id \in Ids : Together(store, id) /\ GroupSound(store, id)

-------------------------------------------------------------------------------
(* Keys, and what the contracts' helpers do to each.                       *)

LEMMA TypedConstants ==
    /\ MinTtl \in Nat \ {0} /\ Threshold \in Nat /\ Bump \in Nat
    /\ MinTtl < Threshold /\ Threshold < Bump /\ Window \in Nat \ {0}
BY MinTtlAssumption, TypedAssumption

LEMMA KeyParts ==
    ASSUME NEW x
    PROVE  /\ Group(x)[1] = "Group" /\ Group(x)[2] = x
           /\ History(x)[1] = "History" /\ History(x)[2] = x
           /\ AdminCommitment(x)[1] = "AdminCommitment" /\ AdminCommitment(x)[2] = x
           /\ UsedProof(x)[1] = "UsedProof"
BY DEF Group, History, AdminCommitment, UsedProof

LEMMA EntriesFacts ==
    ASSUME NEW id
    PROVE  /\ Group(id) \in Entries(id)
           /\ \A k \in Entries(id) : /\ k \in {Group(id), History(id), AdminCommitment(id)}
                                     /\ k[1] # "UsedProof" /\ k[2] = id
           /\ History(id) \in Entries(id) <=> kind # "oneonone"
           /\ AdminCommitment(id) \in Entries(id) <=> kind = "tyranny"
BY KeyParts DEF Entries

LEMMA SetHolds ==
    ASSUME NEW s, Sound(s), NEW k, NEW val
    PROVE  /\ Sound(Set(s, k, val))
           /\ Holds(Set(s, k, val), k, val, IF Has(s, k) THEN s[k].ttl ELSE MinTtl)
           /\ Touches(s, Set(s, k, val), {k})
<1>. DEFINE w == Set(s, k, val)
<1>0. Shaped(s)
  BY DEF Sound
<1>1. /\ Shaped(w) /\ \A q : q \in DOMAIN w <=> q \in DOMAIN s \/ q = k
      /\ w[k].v = val
      /\ w[k].ttl = IF k \in DOMAIN s THEN s[k].ttl ELSE MinTtl
      /\ \A q \in DOMAIN s : q # k => w[q] = s[q]
  BY <1>0, SetFacts
<1>2. Touches(s, w, {k})
  BY SetAgrees DEF Touches
<1>. HIDE DEF w
<1>3. ASSUME NEW q \in DOMAIN w PROVE w[q].ttl \in Nat \ {0}
  <2>1. CASE q = k
    BY <1>1, <2>1, TypedConstants DEF Sound
  <2>2. CASE q # k
    BY <1>1, <2>2 DEF Sound
  <2>. QED BY <2>1, <2>2
<1>4. Sound(w)
  BY <1>1, <1>3 DEF Sound
<1>5. Holds(w, k, val, IF Has(s, k) THEN s[k].ttl ELSE MinTtl)
  BY <1>1 DEF Holds, Has
<1>. QED BY <1>2, <1>4, <1>5 DEF w

\* The life that a renewal gives to an entry.
Renewed(ttl) == Extended(ttl, Threshold, Bump)

LEMMA RenewHolds ==
    ASSUME NEW s, Sound(s), NEW keys
    PROVE  /\ Sound(Renew(s, keys))
           /\ \A k, val, ttl : Holds(s, k, val, ttl) =>
                Holds(Renew(s, keys), k, val, IF k \in keys THEN Renewed(ttl) ELSE ttl)
           /\ \A k : Has(Renew(s, keys), k) <=> Has(s, k)
           /\ Touches(s, Renew(s, keys), keys)
<1>. DEFINE w == Renew(s, keys)
<1>0. Shaped(s)
  BY DEF Sound
<1>1. /\ Shaped(w) /\ DOMAIN w = DOMAIN s
      /\ \A k \in DOMAIN s :
            /\ w[k].v = s[k].v
            /\ w[k].ttl = IF k \in keys THEN Renewed(s[k].ttl) ELSE s[k].ttl
  BY <1>0, ExtendFacts DEF Renew, Renewed
<1>2. Touches(s, w, keys)
  BY ExtendAgrees DEF Touches, Renew
<1>. HIDE DEF w
<1>3. ASSUME NEW q \in DOMAIN w PROVE w[q].ttl \in Nat \ {0}
  BY <1>1, TypedConstants DEF Sound, Renewed, Extended
<1>4. Sound(w)
  BY <1>1, <1>3 DEF Sound
<1>5. \A k, val, ttl : Holds(s, k, val, ttl) =>
          Holds(w, k, val, IF k \in keys THEN Renewed(ttl) ELSE ttl)
  BY <1>1 DEF Holds, Has
<1>6. \A k : Has(w, k) <=> Has(s, k)
  BY <1>1 DEF Has
<1>. QED BY <1>2, <1>4, <1>5, <1>6 DEF w

\* Two changes touch what either does.
LEMMA TouchesTwice ==
    ASSUME NEW s, NEW s2, NEW s3, NEW keys, NEW keys2, NEW all,
           Touches(s, s2, keys), Touches(s2, s3, keys2), keys \cup keys2 \subseteq all
    PROVE  Touches(s, s3, all)
BY DEF Touches, AgreeAt

\* What agrees holds the same.
LEMMA AgreeingHolds ==
    ASSUME NEW s, NEW s2, NEW k, AgreeAt(s, s2, k)
    PROVE  /\ Has(s2, k) <=> Has(s, k)
           /\ \A val, ttl : Holds(s, k, val, ttl) => Holds(s2, k, val, ttl)
           /\ Has(s, k) => s2[k] = s[k]
BY DEF AgreeAt, Holds, Has

LEMMA SpendHolds ==
    ASSUME NEW s, Sound(s), NEW proof
    PROVE  /\ Sound(Spend(s, proof))
           /\ Touches(s, Spend(s, proof), {UsedProof(proof)})
           /\ Has(Spend(s, proof), UsedProof(proof))
<1>. DEFINE k == UsedProof(proof)
            w == Set(s, k, TRUE)
<1>1. Sound(w) /\ Touches(s, w, {k}) /\ Has(w, k)
  BY SetHolds DEF Holds
<1>. HIDE DEF w, k
<1>2. Sound(Renew(w, {k})) /\ Touches(w, Renew(w, {k}), {k}) /\ Has(Renew(w, {k}), k)
  BY <1>1, RenewHolds
<1>3. Touches(s, Renew(w, {k}), {k})
  BY <1>1, <1>2, TouchesTwice
<1>. QED BY <1>2, <1>3 DEF Spend, w, k

\* A founded group: its entry and an empty history, both new.
LEMMA FoundedHolds ==
    ASSUME NEW s, Sound(s), NEW id, NEW proof, NEW entry,
           ~Has(s, Group(id)), ~Has(s, History(id))
    PROVE  LET f == Founded(Spend(s, proof), id, entry)
           IN  /\ Sound(f)
               /\ Holds(f, Group(id), entry, MinTtl) /\ Holds(f, History(id), << >>, MinTtl)
               /\ Touches(s, f, {Group(id), History(id), UsedProof(proof)})
<1>. DEFINE g == Group(id)
            h == History(id)
            p == UsedProof(proof)
            s1 == Spend(s, proof)
            s2 == Set(s1, g, entry)
            s3 == Set(s2, h, << >>)
<1>0. g # h /\ g # p /\ h # p
  BY KeyParts
<1>1. Sound(s1) /\ Touches(s, s1, {p})
  BY SpendHolds
<1>. HIDE DEF g, h, p, s1
<1>2. ~Has(s1, g) /\ ~Has(s1, h)
  BY <1>0, <1>1 DEF Touches, AgreeAt, g, h
<1>3. Sound(s2) /\ Holds(s2, g, entry, MinTtl) /\ Touches(s1, s2, {g})
  BY <1>1, <1>2, SetHolds
<1>. HIDE DEF s2
<1>4. ~Has(s2, h)
  BY <1>0, <1>2, <1>3 DEF Touches, AgreeAt
<1>5. Sound(s3) /\ Holds(s3, h, << >>, MinTtl) /\ Touches(s2, s3, {h})
  BY <1>3, <1>4, SetHolds
<1>. HIDE DEF s3
<1>6. Holds(s3, g, entry, MinTtl)
  BY <1>0, <1>3, <1>5, AgreeingHolds DEF Touches
<1>7. Touches(s, s3, {g, h, p})
  <2>1. Touches(s, s2, {g, p})
    BY <1>1, <1>3, TouchesTwice
  <2>. QED BY <1>5, <2>1, TouchesTwice
<1>8. Founded(Spend(s, proof), id, entry) = s3
  BY DEF Founded, s1, s2, s3, g, h
<1>. QED BY <1>5, <1>6, <1>7, <1>8 DEF g, h, p

\* The history that an archived entry leaves.
Archived(h, entry) ==
    LET a == Append(h, entry)
    IN  IF Len(a) > Window THEN SubSeq(a, Len(a) - Window + 1, Len(a)) ELSE a

\* An update in a group that has a history: both parts keep their lives.
LEMMA ReplacedHolds ==
    ASSUME NEW s, Sound(s), NEW id, NEW proof, NEW entry,
           Has(s, Group(id)), Has(s, History(id))
    PROVE  LET r == Replaced(s, id, proof, entry)
           IN  /\ Sound(r)
               /\ Holds(r, Group(id), entry, s[Group(id)].ttl)
               /\ Holds(r, History(id), Archived(s[History(id)].v, s[Group(id)].v),
                        s[History(id)].ttl)
               /\ Touches(s, r, {Group(id), History(id), UsedProof(proof)})
<1>. DEFINE g == Group(id)
            h == History(id)
            p == UsedProof(proof)
            old == s[g].v
            new == Archived(s[h].v, old)
            s1 == Spend(s, proof)
            s2 == Archive(s1, id, old)
            s3 == Set(s2, g, entry)
<1>0. g # h /\ g # p /\ h # p
  BY KeyParts
<1>1. Sound(s1) /\ Touches(s, s1, {p})
  BY SpendHolds
<1>. HIDE DEF p, s1
<1>2. Has(s1, g) /\ Has(s1, h) /\ s1[g] = s[g] /\ s1[h] = s[h]
  BY <1>0, <1>1, AgreeingHolds DEF Touches
<1>3. s2 = Set(s1, h, new)
  BY <1>2 DEF Archive, Archived, Get
<1>. HIDE DEF g, h, s2, old, new
<1>4. Sound(s2) /\ Holds(s2, h, new, s[h].ttl) /\ Touches(s1, s2, {h})
  BY <1>1, <1>2, <1>3, SetHolds
<1>5. Has(s2, g) /\ s2[g] = s[g]
  BY <1>0, <1>2, <1>4, AgreeingHolds DEF Touches
<1>6. Sound(s3) /\ Holds(s3, g, entry, s[g].ttl) /\ Touches(s2, s3, {g})
  BY <1>4, <1>5, SetHolds
<1>. HIDE DEF s3
<1>7. Holds(s3, h, new, s[h].ttl)
  BY <1>0, <1>4, <1>6, AgreeingHolds DEF Touches
<1>8. Touches(s, s3, {g, h, p})
  <2>1. Touches(s, s2, {h, p})
    BY <1>1, <1>4, TouchesTwice
  <2>. QED BY <1>6, <2>1, TouchesTwice
<1>9. Replaced(s, id, proof, entry) = s3
  BY DEF Replaced, s1, s2, s3, g, old
<1>. QED BY <1>6, <1>7, <1>8, <1>9 DEF g, h, p, old, new

-------------------------------------------------------------------------------
(* Every step is of one of these kinds, whichever contract it is and       *)
(* whatever the callers prove.                                             *)

\* The other groups' parts are not touched.
OthersStay(id) ==
    \A x \in Ids : x # id => \A k \in Entries(x) : AgreeAt(store, store', k)

\* The entry that a group has afterwards.
Enters(id, entry) == store'[Group(id)].v = entry

\* A group comes into being.
Founds(id) ==
    /\ ~Exists(id) /\ Has(store', Group(id))
    /\ store'[Group(id)].v.epoch = 0
    /\ kind # "oneonone" => store'[History(id)].v = << >>
    /\ Together(store', id) /\ OthersStay(id)

\* A group goes to its next epoch.
Advances(id) ==
    /\ kind # "oneonone"
    /\ Exists(id) /\ Has(store', Group(id))
    /\ store'[Group(id)].v.epoch = store[Group(id)].v.epoch + 1
    /\ store'[History(id)].v = Archived(store[History(id)].v, store[Group(id)].v)
    /\ Together(store', id) /\ OthersStay(id)

\* No group's parts change but in the time they have left.
Stays ==
    \A x \in Ids : /\ Together(store', x)
                   /\ \A k \in Entries(x) : /\ Has(store', k) <=> Has(store, k)
                                            /\ Has(store, k) => store'[k].v = store[k].v

\* A ledger passes: what is there afterwards was there before.
Expires ==
    \A x \in Ids : /\ Together(store', x)
                   /\ \A k \in Entries(x) : Has(store', k) =>
                         Has(store, k) /\ store'[k].v = store[k].v

StepKind ==
    /\ Sound(store') /\ kind' = kind
    /\ Stays \/ Expires \/ \E id \in Ids : Founds(id) \/ Advances(id)

LEMMA TouchedOthers ==
    ASSUME NEW id, NEW proof, NEW keys,
           keys \subseteq {Group(id), History(id), AdminCommitment(id), UsedProof(proof)},
           Touches(store, store', keys)
    PROVE  OthersStay(id)
<1>1. ASSUME NEW x, x # id, NEW k \in Entries(x) PROVE k \notin keys
  BY <1>1, KeyParts, EntriesFacts
<1>. QED BY <1>1 DEF OthersStay, Touches

\* When all parts of a group are renewed at once they stay together.
LEMMA RenewedTogether ==
    ASSUME NEW s, Sound(s), NEW id,
           \A k \in Entries(id) : Has(s, k) /\ s[k].ttl = s[Group(id)].ttl
    PROVE  LET w == Renew(s, Entries(id))
           IN  /\ Together(w, id)
               /\ \A k \in Entries(id) : Has(w, k) /\ w[k].v = s[k].v
<1>. DEFINE w == Renew(s, Entries(id))
            ttl == s[Group(id)].ttl
<1>1. \A k \in Entries(id) : Holds(s, k, s[k].v, ttl)
  BY DEF Holds
<1>2. \A k \in Entries(id) : Holds(w, k, s[k].v, Renewed(ttl))
  BY <1>1, RenewHolds
<1>. HIDE DEF w
<1>3. \A k \in Entries(id) : Has(w, k) /\ w[k].v = s[k].v /\ w[k].ttl = Renewed(ttl)
  BY <1>2 DEF Holds
<1>. QED BY <1>3, EntriesFacts DEF Together, w

\* The call that founds a group with a history.
LEMMA FoundingStep ==
    ASSUME StoreInv, NEW id \in Ids, NEW proof, NEW entry, entry.epoch = 0, ~Exists(id),
           kind \notin {"oneonone", "tyranny"},
           store' = Renew(Founded(Spend(store, proof), id, entry), Entries(id))
    PROVE  Sound(store') /\ Founds(id) /\ Enters(id, entry)
<1>. DEFINE f == Founded(Spend(store, proof), id, entry)
<1>1. Sound(store) /\ ~Has(store, Group(id)) /\ ~Has(store, History(id))
  BY EntriesFacts DEF StoreInv, Together, Exists
<1>2. /\ Sound(f)
      /\ Holds(f, Group(id), entry, MinTtl) /\ Holds(f, History(id), << >>, MinTtl)
      /\ Touches(store, f, {Group(id), History(id), UsedProof(proof)})
  BY <1>1, FoundedHolds
<1>3. store' = Renew(f, Entries(id))
  OBVIOUS
<1>. HIDE DEF f
<1>4. Sound(store') /\ Touches(f, store', Entries(id))
  BY <1>2, <1>3, RenewHolds
<1>5. Entries(id) = {Group(id), History(id)}
  BY DEF Entries
<1>6. \A k \in Entries(id) : Has(f, k) /\ f[k].ttl = f[Group(id)].ttl
  BY <1>2, <1>5 DEF Holds
<1>7. /\ Together(store', id)
      /\ \A k \in Entries(id) : Has(store', k) /\ store'[k].v = f[k].v
  BY <1>2, <1>3, <1>6, RenewedTogether
<1>8. OthersStay(id)
  <2>1. Touches(store, store', {Group(id), History(id), UsedProof(proof)})
    BY <1>2, <1>4, <1>5, TouchesTwice
  <2>. QED BY <2>1, TouchedOthers
<1>9. f[Group(id)].v = entry /\ f[History(id)].v = << >>
  BY <1>2 DEF Holds
<1>. QED BY <1>4, <1>5, <1>7, <1>8, <1>9 DEF Founds, Enters

\* A tyranny also has an administrator.
LEMMA FoundingTyranny ==
    ASSUME StoreInv, NEW id \in Ids, NEW proof, NEW entry, NEW admin,
           entry.epoch = 0, ~Exists(id), kind = "tyranny",
           store' = Renew(Set(Founded(Spend(store, proof), id, entry),
                              AdminCommitment(id), admin), Entries(id))
    PROVE  Sound(store') /\ Founds(id) /\ Enters(id, entry)
<1>. DEFINE f == Founded(Spend(store, proof), id, entry)
            a == AdminCommitment(id)
            b == Set(f, a, admin)
<1>1. /\ Sound(store)
      /\ ~Has(store, Group(id)) /\ ~Has(store, History(id)) /\ ~Has(store, a)
  BY EntriesFacts DEF StoreInv, Together, Exists
<1>2. /\ Sound(f)
      /\ Holds(f, Group(id), entry, MinTtl) /\ Holds(f, History(id), << >>, MinTtl)
      /\ Touches(store, f, {Group(id), History(id), UsedProof(proof)})
  BY <1>1, FoundedHolds
<1>3. store' = Renew(b, Entries(id))
  OBVIOUS
<1>4. Entries(id) = {Group(id), a, History(id)}
  BY DEF Entries
<1>5. a # Group(id) /\ a # History(id) /\ a # UsedProof(proof)
  BY KeyParts
<1>. HIDE DEF f, a
<1>6. ~Has(f, a)
  BY <1>1, <1>2, <1>5 DEF Touches, AgreeAt
<1>7. Sound(b) /\ Holds(b, a, admin, MinTtl) /\ Touches(f, b, {a})
  BY <1>2, <1>6, SetHolds
<1>. HIDE DEF b
<1>8. Holds(b, Group(id), entry, MinTtl) /\ Holds(b, History(id), << >>, MinTtl)
  BY <1>2, <1>5, <1>7, AgreeingHolds DEF Touches
<1>9. Sound(store') /\ Touches(b, store', Entries(id))
  BY <1>3, <1>7, RenewHolds
<1>10. \A k \in Entries(id) : Has(b, k) /\ b[k].ttl = b[Group(id)].ttl
  BY <1>4, <1>7, <1>8 DEF Holds
<1>11. /\ Together(store', id)
       /\ \A k \in Entries(id) : Has(store', k) /\ store'[k].v = b[k].v
  BY <1>3, <1>7, <1>10, RenewedTogether
<1>12. OthersStay(id)
  <2>. DEFINE all == {Group(id), History(id), a, UsedProof(proof)}
  <2>1. Touches(store, b, all)
    BY <1>2, <1>7, TouchesTwice
  <2>2. Touches(store, store', all)
    BY <1>4, <1>9, <2>1, TouchesTwice
  <2>. QED BY <2>2, TouchedOthers DEF a
<1>13. b[Group(id)].v = entry /\ b[History(id)].v = << >>
  BY <1>8 DEF Holds
<1>. QED BY <1>4, <1>9, <1>11, <1>12, <1>13 DEF Founds, Enters

\* The call that founds a group of two.
LEMMA FoundingOneOnOne ==
    ASSUME StoreInv, NEW id \in Ids, NEW proof, NEW entry, entry.epoch = 0, ~Exists(id),
           kind = "oneonone",
           store' = Renew(Set(Spend(store, proof), Group(id), entry), Entries(id))
    PROVE  Sound(store') /\ Founds(id) /\ Enters(id, entry)
<1>. DEFINE s == Spend(store, proof)
            g == Group(id)
            f == Set(s, g, entry)
<1>1. Sound(store) /\ ~Has(store, g)
  BY DEF StoreInv, Exists
<1>2. Sound(s) /\ Touches(store, s, {UsedProof(proof)})
  BY <1>1, SpendHolds
<1>3. store' = Renew(f, Entries(id))
  OBVIOUS
<1>4. g # UsedProof(proof)
  BY KeyParts
<1>5. Entries(id) = {g}
  BY DEF Entries
<1>. HIDE DEF s, g
<1>6. ~Has(s, g)
  BY <1>1, <1>2, <1>4 DEF Touches, AgreeAt
<1>7. Sound(f) /\ Holds(f, g, entry, MinTtl) /\ Touches(s, f, {g})
  BY <1>2, <1>6, SetHolds
<1>. HIDE DEF f
<1>8. Sound(store') /\ Touches(f, store', Entries(id))
  BY <1>3, <1>7, RenewHolds
<1>12. \A k \in Entries(id) : Has(f, k) /\ f[k].ttl = f[Group(id)].ttl
  BY <1>5, <1>7 DEF Holds, g
<1>9. /\ Together(store', id)
      /\ \A k \in Entries(id) : Has(store', k) /\ store'[k].v = f[k].v
  BY <1>3, <1>7, <1>12, RenewedTogether
<1>10. OthersStay(id)
  <2>. DEFINE all == {g, UsedProof(proof)}
  <2>1. Touches(store, f, all)
    BY <1>2, <1>7, TouchesTwice
  <2>2. Touches(store, store', all)
    BY <1>5, <1>8, <2>1, TouchesTwice
  <2>. QED BY <2>2, TouchedOthers DEF g
<1>11. f[g].v = entry
  BY <1>7 DEF Holds
<1>. QED BY <1>1, <1>5, <1>8, <1>9, <1>10, <1>11 DEF Founds, Enters, Exists, g

\* The call that advances a group: whatever its parts are, all are renewed.
LEMMA AdvancingStep ==
    ASSUME StoreInv, NEW id \in Ids, NEW proof, NEW entry,
           Exists(id), kind # "oneonone",
           entry.epoch = store[Group(id)].v.epoch + 1,
           store' = Renew(Replaced(store, id, proof, entry), Entries(id))
    PROVE  Sound(store') /\ Advances(id) /\ Enters(id, entry)
<1>. DEFINE r == Replaced(store, id, proof, entry)
            ttl == store[Group(id)].ttl
            old == store[Group(id)].v
            new == Archived(store[History(id)].v, old)
<1>1. /\ Sound(store) /\ Has(store, Group(id)) /\ Has(store, History(id))
      /\ \A k \in Entries(id) : Has(store, k) /\ store[k].ttl = ttl
      /\ store[History(id)].ttl = ttl
  BY EntriesFacts DEF StoreInv, Together, Exists
<1>2. /\ Sound(r)
      /\ Holds(r, Group(id), entry, ttl) /\ Holds(r, History(id), new, ttl)
      /\ Touches(store, r, {Group(id), History(id), UsedProof(proof)})
  BY <1>1, ReplacedHolds
<1>3. store' = Renew(r, Entries(id))
  OBVIOUS
<1>. HIDE DEF r, ttl, new
<1>4. \A k \in Entries(id) : Has(r, k) /\ r[k].ttl = r[Group(id)].ttl
  <2>. TAKE k \in Entries(id)
  <2>1. CASE k \in {Group(id), History(id)}
    BY <1>2, <2>1 DEF Holds
  <2>2. CASE k \notin {Group(id), History(id)}
    <3>1. k # UsedProof(proof)
      BY EntriesFacts, KeyParts
    <3>2. AgreeAt(store, r, k)
      BY <1>2, <2>2, <3>1 DEF Touches
    <3>3. Has(r, k) /\ r[k].ttl = ttl
      BY <1>1, <3>2 DEF AgreeAt
    <3>4. r[Group(id)].ttl = ttl
      BY <1>2 DEF Holds
    <3>. QED BY <3>3, <3>4
  <2>. QED BY <2>1, <2>2
<1>5. Sound(store') /\ Touches(r, store', Entries(id))
  BY <1>2, <1>3, RenewHolds
<1>6. /\ Together(store', id)
      /\ \A k \in Entries(id) : Has(store', k) /\ store'[k].v = r[k].v
  BY <1>2, <1>3, <1>4, RenewedTogether
<1>7. OthersStay(id)
  <2>. DEFINE all == {Group(id), History(id), AdminCommitment(id), UsedProof(proof)}
  <2>1. Entries(id) \subseteq all
    BY EntriesFacts
  <2>2. Touches(store, store', all)
    BY <1>2, <1>5, <2>1, TouchesTwice
  <2>. QED BY <2>2, TouchedOthers
<1>8. r[Group(id)].v = entry /\ r[History(id)].v = new
  BY <1>2 DEF Holds
<1>9. Group(id) \in Entries(id) /\ History(id) \in Entries(id)
  BY EntriesFacts
<1>. QED BY <1>5, <1>6, <1>7, <1>8, <1>9 DEF Advances, Enters, new

\* bump_group_ttl.
LEMMA RenewingStep ==
    ASSUME StoreInv, NEW id \in Ids, Exists(id), store' = Renew(store, Entries(id))
    PROVE  Sound(store') /\ Stays
<1>1. Sound(store)
  BY DEF StoreInv
<1>2. Sound(store') /\ Touches(store, store', Entries(id))
  BY <1>1, RenewHolds
<1>3. \A k \in Entries(id) : Has(store, k) /\ store[k].ttl = store[Group(id)].ttl
  BY DEF StoreInv, Together, Exists
<1>4. /\ Together(store', id)
      /\ \A k \in Entries(id) : Has(store', k) /\ store'[k].v = store[k].v
  BY <1>1, <1>3, RenewedTogether
<1>5. OthersStay(id)
  BY <1>2, EntriesFacts, TouchedOthers
<1>6. ASSUME NEW x \in Ids
      PROVE  /\ Together(store', x)
             /\ \A k \in Entries(x) : /\ Has(store', k) <=> Has(store, k)
                                      /\ Has(store, k) => store'[k].v = store[k].v
  <2>1. CASE x = id
    BY <1>3, <1>4, <2>1
  <2>2. CASE x # id
    BY <1>5, <2>2, EntriesFacts DEF OthersStay, AgreeAt, StoreInv, Together
  <2>. QED BY <2>1, <2>2
<1>. QED BY <1>2, <1>6 DEF Stays

\* A ledger closes: the parts of a group go together.
LEMMA ClosingStep ==
    ASSUME StoreInv, CloseLedger
    PROVE  Sound(store') /\ Expires
<1>1. /\ Shaped(store) /\ \A k \in DOMAIN store : store[k].ttl \in Nat \ {0}
      /\ store' = Age(store)
  BY DEF StoreInv, Sound, CloseLedger
<1>2. /\ Shaped(store')
      /\ \A k : k \in DOMAIN store' <=> k \in DOMAIN store /\ store[k].ttl > 1
      /\ \A k \in DOMAIN store' : store'[k].v = store[k].v /\ store'[k].ttl = store[k].ttl - 1
  BY <1>1, AgeFacts
<1>3. \A k \in DOMAIN store' : store'[k].ttl \in Nat \ {0}
  BY <1>1, <1>2
<1>4. ASSUME NEW x \in Ids
      PROVE  /\ Together(store', x)
             /\ \A k \in Entries(x) : Has(store', k) =>
                   Has(store, k) /\ store'[k].v = store[k].v
  <2>1. Together(store, x)
    BY DEF StoreInv
  <2>. QED BY <1>2, <2>1, EntriesFacts DEF Together, Has
<1>. QED BY <1>2, <1>3, <1>4 DEF Sound, Expires

-------------------------------------------------------------------------------
(* The entry points of the five contracts.                                 *)

(***************************************************************************)
(* Each contract is a crate with its own copy of the helpers; the copies   *)
(* are alike.                                                              *)
(***************************************************************************)
LEMMA AnarchySame ==
    /\ \A id : Anarchy!Group(id) = Group(id)
    /\ \A id : Anarchy!History(id) = History(id)
    /\ \A id : Anarchy!AdminCommitment(id) = AdminCommitment(id)
    /\ \A id : Anarchy!Exists(id) <=> Exists(id)
    /\ \A id : Anarchy!Stored(id) = Stored(id)
    /\ \A s, keys : Anarchy!Renew(s, keys) = Renew(s, keys)
    /\ \A s, q, val : Anarchy!Set(s, q, val) = Set(s, q, val)
    /\ \A s, proof : Anarchy!Spend(s, proof) = Spend(s, proof)
    /\ \A s, id, e : Anarchy!Founded(s, id, e) = Founded(s, id, e)
    /\ \A s, id, proof, e : Anarchy!Replaced(s, id, proof, e) = Replaced(s, id, proof, e)
<1>1. /\ \A id : Anarchy!Group(id) = Group(id)
      /\ \A id : Anarchy!History(id) = History(id)
      /\ \A id : Anarchy!AdminCommitment(id) = AdminCommitment(id)
  BY DEF Anarchy!Group, Anarchy!History, Anarchy!AdminCommitment, Group, History, AdminCommitment
<1>2. \A proof : Anarchy!UsedProof(proof) = UsedProof(proof)
  BY DEF Anarchy!UsedProof, UsedProof
<1>3. /\ \A id : Anarchy!Exists(id) <=> Exists(id)
      /\ \A id : Anarchy!Stored(id) = Stored(id)
  BY <1>1 DEF Anarchy!Exists, Anarchy!Stored, Anarchy!Has, Exists, Stored, Has
<1>4. \A s, keys : Anarchy!Renew(s, keys) = Renew(s, keys)
  BY DEF Anarchy!Renew, Anarchy!ExtendIn, Anarchy!Extended, Renew, ExtendIn, Extended
<1>5. \A s, q, val : Anarchy!Set(s, q, val) = Set(s, q, val)
  BY DEF Anarchy!Set, Anarchy!Has, Set, Has
<1>6. \A s, q, d : Anarchy!Get(s, q, d) = Get(s, q, d)
  BY DEF Anarchy!Get, Anarchy!Has, Get, Has
<1>7. \A s, proof : Anarchy!Spend(s, proof) = Spend(s, proof)
  BY <1>2, <1>4, <1>5 DEF Anarchy!Spend, Spend
<1>8. \A s, id, e : Anarchy!Founded(s, id, e) = Founded(s, id, e)
  BY <1>1, <1>5 DEF Anarchy!Founded, Founded
<1>9. \A s, id, e : Anarchy!Archive(s, id, e) = Archive(s, id, e)
  BY <1>1, <1>5, <1>6 DEF Anarchy!Archive, Archive
<1>10. \A s, id, proof, e : Anarchy!Replaced(s, id, proof, e) = Replaced(s, id, proof, e)
  BY <1>1, <1>5, <1>7, <1>9 DEF Anarchy!Replaced, Replaced
<1>. QED BY <1>1, <1>3, <1>4, <1>5, <1>7, <1>8, <1>10

LEMMA DemocracySame ==
    /\ \A id : Democracy!Group(id) = Group(id)
    /\ \A id : Democracy!History(id) = History(id)
    /\ \A id : Democracy!AdminCommitment(id) = AdminCommitment(id)
    /\ \A id : Democracy!Exists(id) <=> Exists(id)
    /\ \A id : Democracy!Stored(id) = Stored(id)
    /\ \A s, keys : Democracy!Renew(s, keys) = Renew(s, keys)
    /\ \A s, q, val : Democracy!Set(s, q, val) = Set(s, q, val)
    /\ \A s, proof : Democracy!Spend(s, proof) = Spend(s, proof)
    /\ \A s, id, e : Democracy!Founded(s, id, e) = Founded(s, id, e)
    /\ \A s, id, proof, e : Democracy!Replaced(s, id, proof, e) = Replaced(s, id, proof, e)
<1>1. /\ \A id : Democracy!Group(id) = Group(id)
      /\ \A id : Democracy!History(id) = History(id)
      /\ \A id : Democracy!AdminCommitment(id) = AdminCommitment(id)
  BY DEF Democracy!Group, Democracy!History, Democracy!AdminCommitment, Group, History, AdminCommitment
<1>2. \A proof : Democracy!UsedProof(proof) = UsedProof(proof)
  BY DEF Democracy!UsedProof, UsedProof
<1>3. /\ \A id : Democracy!Exists(id) <=> Exists(id)
      /\ \A id : Democracy!Stored(id) = Stored(id)
  BY <1>1 DEF Democracy!Exists, Democracy!Stored, Democracy!Has, Exists, Stored, Has
<1>4. \A s, keys : Democracy!Renew(s, keys) = Renew(s, keys)
  BY DEF Democracy!Renew, Democracy!ExtendIn, Democracy!Extended, Renew, ExtendIn, Extended
<1>5. \A s, q, val : Democracy!Set(s, q, val) = Set(s, q, val)
  BY DEF Democracy!Set, Democracy!Has, Set, Has
<1>6. \A s, q, d : Democracy!Get(s, q, d) = Get(s, q, d)
  BY DEF Democracy!Get, Democracy!Has, Get, Has
<1>7. \A s, proof : Democracy!Spend(s, proof) = Spend(s, proof)
  BY <1>2, <1>4, <1>5 DEF Democracy!Spend, Spend
<1>8. \A s, id, e : Democracy!Founded(s, id, e) = Founded(s, id, e)
  BY <1>1, <1>5 DEF Democracy!Founded, Founded
<1>9. \A s, id, e : Democracy!Archive(s, id, e) = Archive(s, id, e)
  BY <1>1, <1>5, <1>6 DEF Democracy!Archive, Archive
<1>10. \A s, id, proof, e : Democracy!Replaced(s, id, proof, e) = Replaced(s, id, proof, e)
  BY <1>1, <1>5, <1>7, <1>9 DEF Democracy!Replaced, Replaced
<1>. QED BY <1>1, <1>3, <1>4, <1>5, <1>7, <1>8, <1>10

LEMMA OligarchySame ==
    /\ \A id : Oligarchy!Group(id) = Group(id)
    /\ \A id : Oligarchy!History(id) = History(id)
    /\ \A id : Oligarchy!AdminCommitment(id) = AdminCommitment(id)
    /\ \A id : Oligarchy!Exists(id) <=> Exists(id)
    /\ \A id : Oligarchy!Stored(id) = Stored(id)
    /\ \A s, keys : Oligarchy!Renew(s, keys) = Renew(s, keys)
    /\ \A s, q, val : Oligarchy!Set(s, q, val) = Set(s, q, val)
    /\ \A s, proof : Oligarchy!Spend(s, proof) = Spend(s, proof)
    /\ \A s, id, e : Oligarchy!Founded(s, id, e) = Founded(s, id, e)
    /\ \A s, id, proof, e : Oligarchy!Replaced(s, id, proof, e) = Replaced(s, id, proof, e)
<1>1. /\ \A id : Oligarchy!Group(id) = Group(id)
      /\ \A id : Oligarchy!History(id) = History(id)
      /\ \A id : Oligarchy!AdminCommitment(id) = AdminCommitment(id)
  BY DEF Oligarchy!Group, Oligarchy!History, Oligarchy!AdminCommitment, Group, History, AdminCommitment
<1>2. \A proof : Oligarchy!UsedProof(proof) = UsedProof(proof)
  BY DEF Oligarchy!UsedProof, UsedProof
<1>3. /\ \A id : Oligarchy!Exists(id) <=> Exists(id)
      /\ \A id : Oligarchy!Stored(id) = Stored(id)
  BY <1>1 DEF Oligarchy!Exists, Oligarchy!Stored, Oligarchy!Has, Exists, Stored, Has
<1>4. \A s, keys : Oligarchy!Renew(s, keys) = Renew(s, keys)
  BY DEF Oligarchy!Renew, Oligarchy!ExtendIn, Oligarchy!Extended, Renew, ExtendIn, Extended
<1>5. \A s, q, val : Oligarchy!Set(s, q, val) = Set(s, q, val)
  BY DEF Oligarchy!Set, Oligarchy!Has, Set, Has
<1>6. \A s, q, d : Oligarchy!Get(s, q, d) = Get(s, q, d)
  BY DEF Oligarchy!Get, Oligarchy!Has, Get, Has
<1>7. \A s, proof : Oligarchy!Spend(s, proof) = Spend(s, proof)
  BY <1>2, <1>4, <1>5 DEF Oligarchy!Spend, Spend
<1>8. \A s, id, e : Oligarchy!Founded(s, id, e) = Founded(s, id, e)
  BY <1>1, <1>5 DEF Oligarchy!Founded, Founded
<1>9. \A s, id, e : Oligarchy!Archive(s, id, e) = Archive(s, id, e)
  BY <1>1, <1>5, <1>6 DEF Oligarchy!Archive, Archive
<1>10. \A s, id, proof, e : Oligarchy!Replaced(s, id, proof, e) = Replaced(s, id, proof, e)
  BY <1>1, <1>5, <1>7, <1>9 DEF Oligarchy!Replaced, Replaced
<1>. QED BY <1>1, <1>3, <1>4, <1>5, <1>7, <1>8, <1>10

LEMMA TyrannySame ==
    /\ \A id : Tyranny!Group(id) = Group(id)
    /\ \A id : Tyranny!History(id) = History(id)
    /\ \A id : Tyranny!AdminCommitment(id) = AdminCommitment(id)
    /\ \A id : Tyranny!Exists(id) <=> Exists(id)
    /\ \A id : Tyranny!Stored(id) = Stored(id)
    /\ \A s, keys : Tyranny!Renew(s, keys) = Renew(s, keys)
    /\ \A s, q, val : Tyranny!Set(s, q, val) = Set(s, q, val)
    /\ \A s, proof : Tyranny!Spend(s, proof) = Spend(s, proof)
    /\ \A s, id, e : Tyranny!Founded(s, id, e) = Founded(s, id, e)
    /\ \A s, id, proof, e : Tyranny!Replaced(s, id, proof, e) = Replaced(s, id, proof, e)
<1>1. /\ \A id : Tyranny!Group(id) = Group(id)
      /\ \A id : Tyranny!History(id) = History(id)
      /\ \A id : Tyranny!AdminCommitment(id) = AdminCommitment(id)
  BY DEF Tyranny!Group, Tyranny!History, Tyranny!AdminCommitment, Group, History, AdminCommitment
<1>2. \A proof : Tyranny!UsedProof(proof) = UsedProof(proof)
  BY DEF Tyranny!UsedProof, UsedProof
<1>3. /\ \A id : Tyranny!Exists(id) <=> Exists(id)
      /\ \A id : Tyranny!Stored(id) = Stored(id)
  BY <1>1 DEF Tyranny!Exists, Tyranny!Stored, Tyranny!Has, Exists, Stored, Has
<1>4. \A s, keys : Tyranny!Renew(s, keys) = Renew(s, keys)
  BY DEF Tyranny!Renew, Tyranny!ExtendIn, Tyranny!Extended, Renew, ExtendIn, Extended
<1>5. \A s, q, val : Tyranny!Set(s, q, val) = Set(s, q, val)
  BY DEF Tyranny!Set, Tyranny!Has, Set, Has
<1>6. \A s, q, d : Tyranny!Get(s, q, d) = Get(s, q, d)
  BY DEF Tyranny!Get, Tyranny!Has, Get, Has
<1>7. \A s, proof : Tyranny!Spend(s, proof) = Spend(s, proof)
  BY <1>2, <1>4, <1>5 DEF Tyranny!Spend, Spend
<1>8. \A s, id, e : Tyranny!Founded(s, id, e) = Founded(s, id, e)
  BY <1>1, <1>5 DEF Tyranny!Founded, Founded
<1>9. \A s, id, e : Tyranny!Archive(s, id, e) = Archive(s, id, e)
  BY <1>1, <1>5, <1>6 DEF Tyranny!Archive, Archive
<1>10. \A s, id, proof, e : Tyranny!Replaced(s, id, proof, e) = Replaced(s, id, proof, e)
  BY <1>1, <1>5, <1>7, <1>9 DEF Tyranny!Replaced, Replaced
<1>. QED BY <1>1, <1>3, <1>4, <1>5, <1>7, <1>8, <1>10

LEMMA OneOnOneSame ==
    /\ \A id : OneOnOne!Group(id) = Group(id)
    /\ \A id : OneOnOne!History(id) = History(id)
    /\ \A id : OneOnOne!AdminCommitment(id) = AdminCommitment(id)
    /\ \A id : OneOnOne!Exists(id) <=> Exists(id)
    /\ \A id : OneOnOne!Stored(id) = Stored(id)
    /\ \A s, keys : OneOnOne!Renew(s, keys) = Renew(s, keys)
    /\ \A s, q, val : OneOnOne!Set(s, q, val) = Set(s, q, val)
    /\ \A s, proof : OneOnOne!Spend(s, proof) = Spend(s, proof)
    /\ \A s, id, e : OneOnOne!Founded(s, id, e) = Founded(s, id, e)
    /\ \A s, id, proof, e : OneOnOne!Replaced(s, id, proof, e) = Replaced(s, id, proof, e)
<1>1. /\ \A id : OneOnOne!Group(id) = Group(id)
      /\ \A id : OneOnOne!History(id) = History(id)
      /\ \A id : OneOnOne!AdminCommitment(id) = AdminCommitment(id)
  BY DEF OneOnOne!Group, OneOnOne!History, OneOnOne!AdminCommitment, Group, History, AdminCommitment
<1>2. \A proof : OneOnOne!UsedProof(proof) = UsedProof(proof)
  BY DEF OneOnOne!UsedProof, UsedProof
<1>3. /\ \A id : OneOnOne!Exists(id) <=> Exists(id)
      /\ \A id : OneOnOne!Stored(id) = Stored(id)
  BY <1>1 DEF OneOnOne!Exists, OneOnOne!Stored, OneOnOne!Has, Exists, Stored, Has
<1>4. \A s, keys : OneOnOne!Renew(s, keys) = Renew(s, keys)
  BY DEF OneOnOne!Renew, OneOnOne!ExtendIn, OneOnOne!Extended, Renew, ExtendIn, Extended
<1>5. \A s, q, val : OneOnOne!Set(s, q, val) = Set(s, q, val)
  BY DEF OneOnOne!Set, OneOnOne!Has, Set, Has
<1>6. \A s, q, d : OneOnOne!Get(s, q, d) = Get(s, q, d)
  BY DEF OneOnOne!Get, OneOnOne!Has, Get, Has
<1>7. \A s, proof : OneOnOne!Spend(s, proof) = Spend(s, proof)
  BY <1>2, <1>4, <1>5 DEF OneOnOne!Spend, Spend
<1>8. \A s, id, e : OneOnOne!Founded(s, id, e) = Founded(s, id, e)
  BY <1>1, <1>5 DEF OneOnOne!Founded, Founded
<1>9. \A s, id, e : OneOnOne!Archive(s, id, e) = Archive(s, id, e)
  BY <1>1, <1>5, <1>6 DEF OneOnOne!Archive, Archive
<1>10. \A s, id, proof, e : OneOnOne!Replaced(s, id, proof, e) = Replaced(s, id, proof, e)
  BY <1>1, <1>5, <1>7, <1>9 DEF OneOnOne!Replaced, Replaced
<1>. QED BY <1>1, <1>3, <1>4, <1>5, <1>7, <1>8, <1>10

LEMMA AnarchySteps ==
    ASSUME StoreInv, NEW id \in Ids, kind = "anarchy"
    PROVE  /\ \A t, proof, isAdmin : Anarchy!CreateGroup(id, t, proof, isAdmin)
                 => Sound(store') /\ Founds(id) /\ Enters(id, Anarchy!Entry(proof.pi[1], 0, t))
           /\ \A proof : Anarchy!UpdateCommitment(id, proof)
                 => /\ Sound(store') /\ Advances(id)
                    /\ Enters(id, Anarchy!Entry(proof.pi[3], Stored(id).epoch + 1, Stored(id).tier))
           /\ Anarchy!BumpGroupTtl(id) => Sound(store') /\ Stays
<1>0. \A s : Anarchy!BumpGroup(s, id) = Renew(s, Entries(id))
  BY AnarchySame DEF Anarchy!BumpGroup, Entries
<1>1. ASSUME NEW t, NEW proof, NEW isAdmin, Anarchy!CreateGroup(id, t, proof, isAdmin)
      PROVE  Sound(store') /\ Founds(id) /\ Enters(id, Anarchy!Entry(proof.pi[1], 0, t))
  <2>. DEFINE entry == Anarchy!Entry(proof.pi[1], 0, t)
  <2>1. /\ ~Exists(id)
        /\ store' = Renew(Founded(Spend(store, proof), id, entry), Entries(id))
    BY <1>0, <1>1, AnarchySame DEF Anarchy!CreateGroup
  <2>2. entry.epoch = 0
    BY DEF Anarchy!Entry
  <2>. HIDE DEF entry
  <2>3. Sound(store') /\ Founds(id) /\ Enters(id, entry)
    BY <2>1, <2>2, FoundingStep
  <2>. QED BY <2>3 DEF entry
<1>2. ASSUME NEW proof, Anarchy!UpdateCommitment(id, proof)
      PROVE  /\ Sound(store') /\ Advances(id)
             /\ Enters(id, Anarchy!Entry(proof.pi[3], Stored(id).epoch + 1, Stored(id).tier))
  <2>. DEFINE g     == Stored(id)
              entry == Anarchy!Entry(proof.pi[3], g.epoch + 1, g.tier)
  <2>1. Exists(id) /\ store' = Renew(Replaced(store, id, proof, entry), Entries(id))
    BY <1>0, <1>2, AnarchySame DEF Anarchy!UpdateCommitment
  <2>2. entry.epoch = store[Group(id)].v.epoch + 1
    BY DEF Anarchy!Entry, Stored
  <2>. HIDE DEF entry
  <2>3. Sound(store') /\ Advances(id) /\ Enters(id, entry)
    BY <2>1, <2>2, AdvancingStep
  <2>. QED BY <2>3 DEF entry
<1>3. Anarchy!BumpGroupTtl(id) => Sound(store') /\ Stays
  BY <1>0, RenewingStep, AnarchySame DEF Anarchy!BumpGroupTtl
<1>. QED BY <1>1, <1>2, <1>3

LEMMA DemocracySteps ==
    ASSUME StoreInv, NEW id \in Ids, kind = "democracy"
    PROVE  /\ \A t, n, occ, proof, isAdmin : Democracy!CreateGroup(id, t, n, occ, proof, isAdmin)
                 => /\ Sound(store') /\ Founds(id)
                    /\ Enters(id, Democracy!Entry(proof.pi[1], 0, t, occ, n))
           /\ \A proof : Democracy!UpdateCommitment(id, proof)
                 => /\ Sound(store') /\ Advances(id)
                    /\ Enters(id, Democracy!Entry(proof.pi[3], Stored(id).epoch + 1, Stored(id).tier,
                                               proof.pi[5], Stored(id).threshold))
           /\ Democracy!BumpGroupTtl(id) => Sound(store') /\ Stays
<1>0. \A s : Democracy!BumpGroup(s, id) = Renew(s, Entries(id))
  BY DemocracySame DEF Democracy!BumpGroup, Entries
<1>1. ASSUME NEW t, NEW n, NEW occ, NEW proof, NEW isAdmin,
             Democracy!CreateGroup(id, t, n, occ, proof, isAdmin)
      PROVE  Sound(store') /\ Founds(id) /\ Enters(id, Democracy!Entry(proof.pi[1], 0, t, occ, n))
  <2>. DEFINE entry == Democracy!Entry(proof.pi[1], 0, t, occ, n)
  <2>1. /\ ~Exists(id)
        /\ store' = Renew(Founded(Spend(store, proof), id, entry), Entries(id))
    BY <1>0, <1>1, DemocracySame DEF Democracy!CreateGroup
  <2>2. entry.epoch = 0
    BY DEF Democracy!Entry
  <2>. HIDE DEF entry
  <2>3. Sound(store') /\ Founds(id) /\ Enters(id, entry)
    BY <2>1, <2>2, FoundingStep
  <2>. QED BY <2>3 DEF entry
<1>2. ASSUME NEW proof, Democracy!UpdateCommitment(id, proof)
      PROVE  /\ Sound(store') /\ Advances(id)
             /\ Enters(id, Democracy!Entry(proof.pi[3], Stored(id).epoch + 1, Stored(id).tier,
                                               proof.pi[5], Stored(id).threshold))
  <2>. DEFINE g     == Stored(id)
              entry == Democracy!Entry(proof.pi[3], g.epoch + 1, g.tier, proof.pi[5], g.threshold)
  <2>1. Exists(id) /\ store' = Renew(Replaced(store, id, proof, entry), Entries(id))
    BY <1>0, <1>2, DemocracySame DEF Democracy!UpdateCommitment
  <2>2. entry.epoch = store[Group(id)].v.epoch + 1
    BY DEF Democracy!Entry, Stored
  <2>. HIDE DEF entry
  <2>3. Sound(store') /\ Advances(id) /\ Enters(id, entry)
    BY <2>1, <2>2, AdvancingStep
  <2>. QED BY <2>3 DEF entry
<1>3. Democracy!BumpGroupTtl(id) => Sound(store') /\ Stays
  BY <1>0, RenewingStep, DemocracySame DEF Democracy!BumpGroupTtl
<1>. QED BY <1>1, <1>2, <1>3

LEMMA OligarchySteps ==
    ASSUME StoreInv, NEW id \in Ids, kind = "oligarchy"
    PROVE  /\ \A t, n, occ, proof, isAdmin :
                 Oligarchy!CreateOligarchyGroup(id, t, n, occ, proof, isAdmin)
                     => /\ Sound(store') /\ Founds(id)
                    /\ Enters(id, Oligarchy!Entry(proof.pi[1], 0, t, occ, n))
           /\ \A proof : Oligarchy!UpdateCommitment(id, proof)
                 => /\ Sound(store') /\ Advances(id)
                    /\ Enters(id, Oligarchy!Entry(proof.pi[3], Stored(id).epoch + 1, Stored(id).tier,
                                               proof.pi[5], Stored(id).threshold))
           /\ Oligarchy!BumpGroupTtl(id) => Sound(store') /\ Stays
<1>0. \A s : Oligarchy!BumpGroup(s, id) = Renew(s, Entries(id))
  BY OligarchySame DEF Oligarchy!BumpGroup, Entries
<1>1. ASSUME NEW t, NEW n, NEW occ, NEW proof, NEW isAdmin,
             Oligarchy!CreateOligarchyGroup(id, t, n, occ, proof, isAdmin)
      PROVE  Sound(store') /\ Founds(id) /\ Enters(id, Oligarchy!Entry(proof.pi[1], 0, t, occ, n))
  <2>. DEFINE entry == Oligarchy!Entry(proof.pi[1], 0, t, occ, n)
  <2>1. /\ ~Exists(id)
        /\ store' = Renew(Founded(Spend(store, proof), id, entry), Entries(id))
    BY <1>0, <1>1, OligarchySame DEF Oligarchy!CreateOligarchyGroup
  <2>2. entry.epoch = 0
    BY DEF Oligarchy!Entry
  <2>. HIDE DEF entry
  <2>3. Sound(store') /\ Founds(id) /\ Enters(id, entry)
    BY <2>1, <2>2, FoundingStep
  <2>. QED BY <2>3 DEF entry
<1>2. ASSUME NEW proof, Oligarchy!UpdateCommitment(id, proof)
      PROVE  /\ Sound(store') /\ Advances(id)
             /\ Enters(id, Oligarchy!Entry(proof.pi[3], Stored(id).epoch + 1, Stored(id).tier,
                                               proof.pi[5], Stored(id).threshold))
  <2>. DEFINE g     == Stored(id)
              entry == Oligarchy!Entry(proof.pi[3], g.epoch + 1, g.tier, proof.pi[5], g.threshold)
  <2>1. Exists(id) /\ store' = Renew(Replaced(store, id, proof, entry), Entries(id))
    BY <1>0, <1>2, OligarchySame DEF Oligarchy!UpdateCommitment
  <2>2. entry.epoch = store[Group(id)].v.epoch + 1
    BY DEF Oligarchy!Entry, Stored
  <2>. HIDE DEF entry
  <2>3. Sound(store') /\ Advances(id) /\ Enters(id, entry)
    BY <2>1, <2>2, AdvancingStep
  <2>. QED BY <2>3 DEF entry
<1>3. Oligarchy!BumpGroupTtl(id) => Sound(store') /\ Stays
  BY <1>0, RenewingStep, OligarchySame DEF Oligarchy!BumpGroupTtl
<1>. QED BY <1>1, <1>2, <1>3

LEMMA TyrannySteps ==
    ASSUME StoreInv, NEW id \in Ids, kind = "tyranny"
    PROVE  /\ \A t, proof, isAdmin : Tyranny!CreateGroup(id, t, proof, isAdmin)
                 => Sound(store') /\ Founds(id) /\ Enters(id, Tyranny!Entry(proof.pi[1], 0, t))
           /\ \A proof : Tyranny!UpdateCommitment(id, proof)
                 => /\ Sound(store') /\ Advances(id)
                    /\ Enters(id, Tyranny!Entry(proof.pi[3], Stored(id).epoch + 1, Stored(id).tier))
           /\ Tyranny!BumpGroupTtl(id) => Sound(store') /\ Stays
<1>0. \A s : Tyranny!BumpGroup(s, id) = Renew(s, Entries(id))
  <2>1. Entries(id) = {Group(id), AdminCommitment(id), History(id)}
    BY DEF Entries
  <2>. QED BY <2>1, TyrannySame DEF Tyranny!BumpGroup
<1>1. ASSUME NEW t, NEW proof, NEW isAdmin, Tyranny!CreateGroup(id, t, proof, isAdmin)
      PROVE  Sound(store') /\ Founds(id) /\ Enters(id, Tyranny!Entry(proof.pi[1], 0, t))
  <2>. DEFINE entry == Tyranny!Entry(proof.pi[1], 0, t)
              admin == proof.pi[3]
  <2>1. /\ ~Exists(id)
        /\ store' = Renew(Set(Founded(Spend(store, proof), id, entry),
                              AdminCommitment(id), admin), Entries(id))
    BY <1>0, <1>1, TyrannySame DEF Tyranny!CreateGroup
  <2>2. entry.epoch = 0
    BY DEF Tyranny!Entry
  <2>. HIDE DEF entry, admin
  <2>3. Sound(store') /\ Founds(id) /\ Enters(id, entry)
    BY <2>1, <2>2, FoundingTyranny
  <2>. QED BY <2>3 DEF entry
<1>2. ASSUME NEW proof, Tyranny!UpdateCommitment(id, proof)
      PROVE  /\ Sound(store') /\ Advances(id)
             /\ Enters(id, Tyranny!Entry(proof.pi[3], Stored(id).epoch + 1, Stored(id).tier))
  <2>. DEFINE g     == Stored(id)
              entry == Tyranny!Entry(proof.pi[3], g.epoch + 1, g.tier)
  <2>1. Exists(id) /\ store' = Renew(Replaced(store, id, proof, entry), Entries(id))
    BY <1>0, <1>2, TyrannySame DEF Tyranny!UpdateCommitment
  <2>2. entry.epoch = store[Group(id)].v.epoch + 1
    BY DEF Tyranny!Entry, Stored
  <2>. HIDE DEF entry
  <2>3. Sound(store') /\ Advances(id) /\ Enters(id, entry)
    BY <2>1, <2>2, AdvancingStep
  <2>. QED BY <2>3 DEF entry
<1>3. Tyranny!BumpGroupTtl(id) => Sound(store') /\ Stays
  BY <1>0, RenewingStep, TyrannySame DEF Tyranny!BumpGroupTtl
<1>. QED BY <1>1, <1>2, <1>3

LEMMA OneOnOneSteps ==
    ASSUME StoreInv, NEW id \in Ids, kind = "oneonone"
    PROVE  /\ \A proof, isAdmin : OneOnOne!CreateGroup(id, proof, isAdmin)
                 => Sound(store') /\ Founds(id) /\ Enters(id, OneOnOne!Entry(proof.pi[1]))
           /\ OneOnOne!BumpGroupTtl(id) => Sound(store') /\ Stays
<1>0. \A s : OneOnOne!BumpGroup(s, id) = Renew(s, Entries(id))
  <2>1. Entries(id) = {Group(id)}
    BY DEF Entries
  <2>. QED BY <2>1, OneOnOneSame DEF OneOnOne!BumpGroup
<1>1. ASSUME NEW proof, NEW isAdmin, OneOnOne!CreateGroup(id, proof, isAdmin)
      PROVE  Sound(store') /\ Founds(id) /\ Enters(id, OneOnOne!Entry(proof.pi[1]))
  <2>. DEFINE entry == OneOnOne!Entry(proof.pi[1])
  <2>1. /\ ~Exists(id)
        /\ store' = Renew(Set(Spend(store, proof), Group(id), entry), Entries(id))
    BY <1>0, <1>1, OneOnOneSame DEF OneOnOne!CreateGroup
  <2>2. entry.epoch = 0
    BY DEF OneOnOne!Entry
  <2>. HIDE DEF entry
  <2>3. Sound(store') /\ Founds(id) /\ Enters(id, entry)
    BY <2>1, <2>2, FoundingOneOnOne
  <2>. QED BY <2>3 DEF entry
<1>2. OneOnOne!BumpGroupTtl(id) => Sound(store') /\ Stays
  BY <1>0, RenewingStep, OneOnOneSame DEF OneOnOne!BumpGroupTtl
<1>. QED BY <1>1, <1>2

-------------------------------------------------------------------------------

LEMMA CreateFacts ==
    ASSUME StoreInv, NEW id \in Ids, Create(id)
    PROVE  Sound(store') /\ kind' = kind /\ Founds(id)
<1>. PICK isAdmin \in BOOLEAN :
        \/ AnarchyCreate(id, isAdmin) \/ TyrannyCreate(id, isAdmin) \/ OneOnOneCreate(id, isAdmin)
        \/ DemocracyCreate(id, isAdmin) \/ DemocracyCreateBinding(id, isAdmin)
        \/ OligarchyCreate(id, isAdmin)
  BY DEF Create
<1>1. CASE AnarchyCreate(id, isAdmin)
  BY <1>1, AnarchySteps DEF AnarchyCreate, Accepted
<1>2. CASE TyrannyCreate(id, isAdmin)
  BY <1>2, TyrannySteps DEF TyrannyCreate, Accepted
<1>3. CASE OneOnOneCreate(id, isAdmin)
  BY <1>3, OneOnOneSteps DEF OneOnOneCreate, Accepted
<1>4. CASE DemocracyCreate(id, isAdmin)
  BY <1>4, DemocracySteps DEF DemocracyCreate, Accepted
<1>5. CASE DemocracyCreateBinding(id, isAdmin)
  BY <1>5, DemocracySteps DEF DemocracyCreateBinding, Accepted
<1>6. CASE OligarchyCreate(id, isAdmin)
  BY <1>6, OligarchySteps DEF OligarchyCreate, Accepted
<1>. QED BY <1>1, <1>2, <1>3, <1>4, <1>5, <1>6

LEMMA UpdateFacts ==
    ASSUME StoreInv, NEW id \in Ids, Update(id)
    PROVE  Sound(store') /\ kind' = kind /\ Advances(id)
<1>1. CASE AnarchyUpdate(id)
  BY <1>1, AnarchySteps DEF AnarchyUpdate, Accepted
<1>2. CASE TyrannyUpdate(id)
  BY <1>2, TyrannySteps DEF TyrannyUpdate, Accepted
<1>3. CASE DemocracyUpdateQuorum(id)
  BY <1>3, DemocracySteps DEF DemocracyUpdateQuorum, Accepted
<1>4. CASE DemocracyUpdateDeep(id)
  BY <1>4, DemocracySteps DEF DemocracyUpdateDeep, Accepted
<1>5. CASE OligarchyUpdate(id)
  BY <1>5, OligarchySteps DEF OligarchyUpdate, Accepted
<1>. QED BY <1>1, <1>2, <1>3, <1>4, <1>5 DEF Update

LEMMA StepFacts ==
    ASSUME StoreInv, [Next]_vars
    PROVE  StepKind
<1>1. ASSUME NEW id \in Ids, Create(id) PROVE StepKind
  BY <1>1, CreateFacts DEF StepKind
<1>2. ASSUME NEW id \in Ids, Update(id) PROVE StepKind
  BY <1>2, UpdateFacts DEF StepKind
<1>3. ASSUME NEW id \in Ids, BumpGroupTtl(id) PROVE StepKind
  <2>1. Sound(store') /\ Stays
    BY <1>3, AnarchySteps, TyrannySteps, OneOnOneSteps, DemocracySteps, OligarchySteps
       DEF BumpGroupTtl
  <2>. QED BY <1>3, <2>1 DEF BumpGroupTtl, Unsigned, StepKind
<1>4. ASSUME store' = store, kind' = kind PROVE StepKind
  BY <1>4 DEF StoreInv, StepKind, Stays
<1>5. CASE CloseLedger /\ Unsigned
  BY <1>5, ClosingStep DEF Unsigned, StepKind
<1>. QED BY <1>1, <1>2, <1>3, <1>4, <1>5 DEF Next, vars, SetRestrictedMode, Unsigned

-------------------------------------------------------------------------------
(* The theorems.                                                           *)

LEMMA SequenceFacts ==
    ASSUME NEW h, IsSequence(h), NEW x
    PROVE  /\ Len(h) \in Nat
           /\ IsSequence(Append(h, x)) /\ Len(Append(h, x)) = Len(h) + 1
           /\ \A i \in 1..Len(h) : Append(h, x)[i] = h[i]
           /\ Append(h, x)[Len(h) + 1] = x
<1>. PICK S : h \in Seq(S)
  BY DEF IsSequence
<1>. DEFINE U == S \cup {x}
<1>1. h \in Seq(U) /\ x \in U
  OBVIOUS
<1>. HIDE DEF U
<1>. QED BY <1>1 DEF IsSequence

\* The last entries of a sequence.
LEMMA LastFacts ==
    ASSUME NEW h, IsSequence(h), NEW n \in Nat, n <= Len(h)
    PROVE  LET l == SubSeq(h, Len(h) - n + 1, Len(h))
           IN  /\ IsSequence(l) /\ Len(l) = n
               /\ \A i \in 1..n : l[i] = h[i + Len(h) - n]
<1>. PICK S : h \in Seq(S)
  BY DEF IsSequence
<1>. DEFINE m == Len(h) - n + 1
            l == SubSeq(h, m, Len(h))
<1>1. Len(h) \in Nat /\ m \in 1 .. Len(h) + 1
  OBVIOUS
<1>2. l \in Seq(S) /\ Len(l) = n
  BY <1>1
<1>3. \A i \in 1..n : l[i] = h[m + i - 1]
  BY <1>1, <1>2
<1>4. \A i \in 1..n : m + i - 1 = i + Len(h) - n
  BY <1>1
<1>. QED BY <1>2, <1>3, <1>4 DEF IsSequence

\* Archiving the entry that an update ends.
LEMMA ArchivedEpochs ==
    ASSUME NEW h, NEW g, g.epoch \in Nat, RecentEpochs(h, g.epoch)
    PROVE  RecentEpochs(Archived(h, g), g.epoch + 1)
<1>. DEFINE a == Append(h, g)
            l == Archived(h, g)
            e == g.epoch
            n == IF e + 1 < Window THEN e + 1 ELSE Window
<1>1. /\ e \in Nat /\ Window \in Nat \ {0}
      /\ IsSequence(h) /\ Len(h) = IF e < Window THEN e ELSE Window
      /\ \A i \in 1..Len(h) : h[i].epoch = e - Len(h) + i - 1
  BY TypedConstants DEF RecentEpochs
<1>2. /\ IsSequence(a) /\ Len(a) = Len(h) + 1
      /\ \A i \in 1..Len(h) : a[i] = h[i]
      /\ a[Len(h) + 1] = g
  BY <1>1, SequenceFacts
<1>3. \A j \in 1..Len(a) : a[j].epoch = e - Len(h) + j - 1
  <2>. TAKE j \in 1..Len(a)
  <2>1. CASE j \in 1..Len(h)
    BY <1>1, <1>2, <2>1
  <2>2. CASE j = Len(h) + 1
    BY <1>1, <1>2, <2>2
  <2>. QED BY <1>1, <1>2, <2>1, <2>2
<1>. HIDE DEF a
<1>4. /\ IsSequence(l) /\ Len(l) = n
      /\ \A i \in 1..n : l[i] = a[i + Len(a) - n]
  <2>1. CASE Len(a) > Window
    <3>1. n = Window /\ Window <= Len(a)
      BY <1>1, <1>2, <2>1
    <3>2. l = SubSeq(a, Len(a) - Window + 1, Len(a))
      BY <2>1 DEF Archived, a
    <3>3. /\ IsSequence(l) /\ Len(l) = Window
          /\ \A i \in 1..Window : l[i] = a[i + Len(a) - Window]
      <4>. HIDE DEF l, n
      <4>. QED BY <1>1, <1>2, <3>1, <3>2, LastFacts
    <3>. QED BY <3>1, <3>3
  <2>2. CASE ~(Len(a) > Window)
    <3>1. n = Len(a) /\ Len(a) \in Nat
      BY <1>1, <1>2, <2>2
    <3>2. l = a
      BY <2>2 DEF Archived, a
    <3>3. \A i \in 1..n : i + Len(a) - n = i
      BY <3>1
    <3>. QED BY <1>2, <3>1, <3>2, <3>3
  <2>. QED BY <2>1, <2>2
<1>. HIDE DEF l
<1>5. ASSUME NEW i \in 1..n PROVE l[i].epoch = (e + 1) - n + i - 1
  <2>1. i + Len(a) - n \in 1..Len(a)
    BY <1>1, <1>2
  <2>2. l[i].epoch = e - Len(h) + (i + Len(a) - n) - 1
    BY <1>3, <1>4, <2>1
  <2>. DEFINE x == l[i].epoch
              y == Len(h)
              z == Len(a)
  <2>3. e \in Nat /\ y \in Nat /\ z = y + 1 /\ n \in Nat /\ i \in Nat
    BY <1>1, <1>2
  <2>. HIDE DEF x, y, z, n, e
  <2>4. x = (e + 1) - n + i - 1
    <3>1. x = e - y + (i + z - n) - 1
      BY <2>2 DEF x, y, z
    <3>. QED BY <2>3, <3>1
  <2>. QED BY <2>4 DEF x
<1>. QED BY <1>4, <1>5 DEF RecentEpochs, l, e


\* Every kind of step keeps the invariant.
LEMMA StoreInvStep ==
    ASSUME StoreInv, StepKind
    PROVE  StoreInv'
<1>1. Sound(store') /\ kind' = kind /\ kind \in Kinds
  BY DEF StoreInv, StepKind
<1>2. ASSUME NEW x \in Ids PROVE Together(store', x) /\ GroupSound(store', x)
  <2>. Together(store, x) /\ GroupSound(store, x)
    BY DEF StoreInv
  <2>1. /\ Group(x) \in Entries(x)
        /\ History(x) \in Entries(x) <=> kind # "oneonone"
    BY EntriesFacts
  <2>2. CASE Stays
    <3>1. Together(store', x)
      BY <2>2 DEF Stays
    <3>2. /\ \A k \in Entries(x) : Has(store', k) <=> Has(store, k)
          /\ \A k \in Entries(x) : Has(store, k) => store'[k].v = store[k].v
      BY <2>2 DEF Stays
    <3>. QED BY <2>1, <3>1, <3>2 DEF GroupSound, Together
  <2>3. CASE Expires
    <3>1. Together(store', x)
      BY <2>3 DEF Expires
    <3>2. \A k \in Entries(x) : Has(store', k) => Has(store, k) /\ store'[k].v = store[k].v
      BY <2>3 DEF Expires
    <3>. QED BY <2>1, <3>1, <3>2 DEF GroupSound, Together
  <2>4. ASSUME NEW id \in Ids, id # x, OthersStay(id)
        PROVE  Together(store', x) /\ GroupSound(store', x)
    <3>1. \A k \in Entries(x) : AgreeAt(store, store', k)
      BY <2>4 DEF OthersStay
    <3>2. /\ \A k \in Entries(x) : Has(store', k) <=> Has(store, k)
          /\ \A k \in Entries(x) : Has(store, k) => store'[k] = store[k]
      BY <3>1 DEF AgreeAt
    <3>. QED BY <2>1, <3>2 DEF GroupSound, Together
  <2>5. CASE Founds(x)
    <3>1. RecentEpochs(<< >>, 0)
      <4>1. << >> \in Seq({})
        OBVIOUS
      <4>. QED BY <4>1, TypedConstants DEF RecentEpochs, IsSequence
    <3>. QED BY <2>5, <3>1 DEF Founds, GroupSound
  <2>6. CASE Advances(x)
    <3>. DEFINE g == store[Group(x)].v
                h == store[History(x)].v
    <3>1. g.epoch \in Nat /\ RecentEpochs(h, g.epoch)
      BY <2>6 DEF Advances, Exists, GroupSound
    <3>2. RecentEpochs(Archived(h, g), g.epoch + 1)
      BY <3>1, ArchivedEpochs
    <3>. QED BY <2>6, <3>1, <3>2 DEF Advances, GroupSound
  <2>7. ASSUME NEW id \in Ids, Founds(id) \/ Advances(id)
        PROVE  Together(store', x) /\ GroupSound(store', x)
    <3>1. OthersStay(id)
      BY <2>7 DEF Founds, Advances
    <3>. QED BY <2>4, <2>5, <2>6, <2>7, <3>1
  <2>. QED BY <2>2, <2>3, <2>7 DEF StepKind
<1>3. ASSUME NEW x \in Ids PROVE Together(store, x)' /\ GroupSound(store, x)'
  BY <1>1, <1>2 DEF Together, GroupSound, Entries
<1>. QED BY <1>1, <1>3 DEF StoreInv

(***************************************************************************)
(* StoreInv holds for ever, in each of the five contracts.                 *)
(***************************************************************************)
THEOREM TypedStorage == Spec => []StoreInv
<1>1. Init => StoreInv
  <2>. SUFFICES ASSUME Init PROVE StoreInv
    OBVIOUS
  <2>1. Shaped(store) /\ DOMAIN store = {}
    BY EmptyIsShaped DEF Init, EmptyStorage
  <2>. QED BY <2>1 DEF Init, StoreInv, Sound, Together, GroupSound, Has
<1>2. StoreInv /\ [Next]_vars => StoreInv'
  BY StepFacts, StoreInvStep
<1>. QED BY <1>1, <1>2, PTL DEF Spec

(***************************************************************************)
(* PartsLiveTogether, for any thresholds and any order of renewals: the    *)
(* parts of a group are written by the same calls and renewed at once.     *)
(***************************************************************************)
THEOREM PartsLiveTogetherAlways == Spec => []PartsLiveTogether
<1>1. StoreInv => PartsLiveTogether
  BY DEF StoreInv, PartsLiveTogether, Together, Exists
<1>. QED BY <1>1, TypedStorage, PTL

(***************************************************************************)
(* HistoryIsRecentEpochs, for any window and any number that the caller    *)
(* of get_history asks for.                                                *)
(***************************************************************************)
LEMMA GetHistoryFacts ==
    ASSUME NEW id, Has(store, History(id)), NEW max \in Nat, NEW e \in Nat,
           RecentEpochs(store[History(id)].v, e)
    PROVE  LET h == Anarchy!GetHistory(id, max)
               n == CHOOSE m \in {max, e, Window} : \A k \in {max, e, Window} : m <= k
           IN  Len(h) = n /\ \A i \in 1..n : h[i].epoch = e - n + i - 1
<1>. DEFINE all == store[History(id)].v
            cap == IF max < Len(all) THEN max ELSE Len(all)
            h == Anarchy!GetHistory(id, max)
            n == CHOOSE m \in {max, e, Window} : \A k \in {max, e, Window} : m <= k
<1>1. /\ IsSequence(all) /\ Window \in Nat
      /\ Len(all) = IF e < Window THEN e ELSE Window
      /\ \A i \in 1..Len(all) : all[i].epoch = e - Len(all) + i - 1
  BY TypedConstants DEF RecentEpochs
<1>2. Anarchy!Get(store, Anarchy!History(id), << >>) = all
  BY AnarchySame DEF Anarchy!Get, Anarchy!Has, Has
<1>. HIDE DEF all
<1>3. h = SubSeq(all, Len(all) - cap + 1, Len(all))
  BY <1>2 DEF Anarchy!GetHistory
<1>4. cap \in Nat /\ cap <= Len(all) /\ Len(all) \in Nat
  BY <1>1
<1>5. n = cap
  <2>1. cap \in {max, e, Window} /\ \A k \in {max, e, Window} : cap <= k
    BY <1>1
  <2>2. n \in {max, e, Window} /\ \A k \in {max, e, Window} : n <= k
    BY <2>1
  <2>. HIDE DEF n, cap
  <2>3. n <= cap /\ cap <= n /\ n \in Nat
    BY <1>1, <2>1, <2>2
  <2>. QED BY <1>4, <2>3
<1>. HIDE DEF n, cap, h
<1>6. /\ Len(h) = cap
      /\ \A i \in 1..cap : h[i] = all[i + Len(all) - cap]
  BY <1>1, <1>3, <1>4, LastFacts
<1>7. ASSUME NEW i \in 1..cap PROVE h[i].epoch = e - cap + i - 1
  <2>1. i + Len(all) - cap \in 1..Len(all)
    BY <1>4
  <2>2. h[i].epoch = e - Len(all) + (i + Len(all) - cap) - 1
    BY <1>1, <1>6, <2>1
  <2>. DEFINE x == h[i].epoch
              y == Len(all)
  <2>3. x = e - y + (i + y - cap) - 1 /\ y \in Nat
    BY <1>4, <2>2
  <2>. HIDE DEF x, y
  <2>4. x = e - cap + i - 1
    BY <1>4, <2>3
  <2>. QED BY <2>4 DEF x
<1>8. Len(h) = n /\ \A i \in 1..n : h[i].epoch = e - n + i - 1
  BY <1>5, <1>6, <1>7
<1>. QED BY <1>8 DEF h, n

THEOREM HistoryIsRecentEpochsAlways == Spec => []HistoryIsRecentEpochs
<1>1. StoreInv => HistoryIsRecentEpochs
  <2>. SUFFICES ASSUME StoreInv, kind # "oneonone", NEW id \in Ids, Exists(id),
                       NEW max \in 0 .. Window + 1
                PROVE  LET h == Anarchy!GetHistory(id, max)
                           e == Stored(id).epoch
                           n == CHOOSE m \in {max, e, Window} :
                                    \A k \in {max, e, Window} : m <= k
                       IN  Len(h) = n /\ \A i \in 1..n : h[i].epoch = e - n + i - 1
    BY DEF HistoryIsRecentEpochs
  <2>1. Has(store, Group(id)) /\ Has(store, History(id))
    BY EntriesFacts DEF StoreInv, Together, Exists
  <2>2. Stored(id).epoch \in Nat /\ RecentEpochs(store[History(id)].v, Stored(id).epoch)
    BY <2>1 DEF StoreInv, GroupSound, Stored
  <2>3. max \in Nat
    BY TypedConstants
  <2>. QED BY <2>1, <2>2, <2>3, GetHistoryFacts
<1>. QED BY <1>1, TypedStorage, PTL

-------------------------------------------------------------------------------
(* The tree of two that a one-on-one circuit builds from its left end, with *)
(* the hashes of empty subtrees to the right, is the tree that Merkle paths *)
(* are taken from.                                                         *)

LEMMA PowersGrow == ASSUME NEW m \in Nat, NEW depth \in Nat, m + 1 <= depth PROVE 2 * 2^m <= 2^depth
<1>. DEFINE P == {n \in Nat : 2 * 2^m <= 2^(m + 1 + n)}
<1>1. 0 \in P
  <2>1. m + 1 + 0 = m + 1 /\ m + 1 \in Nat  OBVIOUS
  <2>2. 2^(m + 1) = 2 * 2^m /\ 2^m \in Nat  BY PowersOfTwo
  <2>. QED BY <2>1, <2>2
<1>2. ASSUME NEW n \in Nat, n \in P PROVE n + 1 \in P
  <2>1. PICK k \in Nat : k = m + 1 + n /\ m + 1 + (n + 1) = k + 1  OBVIOUS
  <2>2. PICK x \in Nat, y \in Nat : x = 2^k /\ y = 2^m /\ 2^(k + 1) = 2 * x  BY PowersOfTwo
  <2>. QED BY <1>2, <2>1, <2>2
<1>. HIDE DEF P
<1>3. \A n \in Nat : n \in P  BY <1>1, <1>2, SetInduction
<1>4. depth - (m + 1) \in Nat /\ m + 1 + (depth - (m + 1)) = depth  OBVIOUS
<1>5. depth - (m + 1) \in P  BY <1>3, <1>4
<1>. QED BY <1>4, <1>5 DEF P

\* f[i] is the hash of an empty subtree of height i, up to k.
EmptyHash(f, i) == IF i = 0 THEN Zero ELSE HashTwo(f[i - 1], f[i - 1])

Empties(f, k) == DOMAIN f = 0 .. k /\ \A i \in 0 .. k : f[i] = EmptyHash(f, i)

LEMMA EmptiesExist == \A k \in Nat : \E f : Empties(f, k)
<1>. DEFINE P == {k \in Nat : \E f : Empties(f, k)}
<1>1. 0 \in P
  <2>. DEFINE f == [i \in 0 .. 0 |-> Zero]
  <2>1. DOMAIN f = 0 .. 0 /\ \A i \in 0 .. 0 : i = 0 /\ f[i] = Zero  OBVIOUS
  <2>. HIDE DEF f
  <2>2. Empties(f, 0)  BY <2>1 DEF Empties, EmptyHash
  <2>. QED BY <2>2
<1>2. ASSUME NEW k \in Nat, k \in P PROVE k + 1 \in P
  <2>1. PICK f : Empties(f, k)  BY <1>2
  <2>. DEFINE h == [i \in 0 .. k + 1 |-> IF i = k + 1 THEN EmptyHash(f, k + 1) ELSE f[i]]
  <2>2. DOMAIN h = 0 .. k + 1  OBVIOUS
  <2>3. ASSUME NEW i \in 0 .. k PROVE h[i] = f[i]  OBVIOUS
  <2>4. h[k + 1] = EmptyHash(f, k + 1)  OBVIOUS
  <2>. HIDE DEF h
  <2>5. ASSUME NEW i \in 0 .. k + 1 PROVE EmptyHash(h, i) = EmptyHash(f, i)
    <3>1. CASE i = 0  BY <3>1 DEF EmptyHash
    <3>2. CASE i # 0
      <4>1. i - 1 \in 0 .. k  BY <3>2
      <4>2. h[i - 1] = f[i - 1]  BY ONLY <2>3, <4>1
      <4>. QED BY ONLY <3>2, <4>2 DEF EmptyHash
    <3>. QED BY <3>1, <3>2
  <2>6. ASSUME NEW i \in 0 .. k + 1 PROVE h[i] = EmptyHash(h, i)
    <3>1. CASE i = k + 1  BY ONLY <2>4, <2>5, <3>1
    <3>2. CASE i # k + 1
      <4>1. i \in 0 .. k  BY <3>2
      <4>2. f[i] = EmptyHash(f, i)  BY ONLY <2>1, <4>1 DEF Empties
      <4>. QED BY ONLY <2>3, <2>5, <4>1, <4>2
    <3>. QED BY <3>1, <3>2
  <2>7. Empties(h, k + 1)  BY <2>2, <2>6 DEF Empties
  <2>. QED BY <2>7
<1>. HIDE DEF P
<1>3. \A k \in Nat : k \in P  BY <1>1, <1>2, SetInduction
<1>. QED BY <1>3 DEF P

LEMMA ZeroSubtreeIsLast ==
    ASSUME NEW k \in Nat
    PROVE  \E f : Empties(f, k) /\ ZeroSubtree(k) = f[k]
<1>. DEFINE Step(f) == [i \in 0 .. k |-> EmptyHash(f, i)]
           z == CHOOSE f : f = Step(f)
<1>1. ZeroSubtree(k) = z[k]  BY DEF ZeroSubtree, EmptyHash
<1>2. \E f : f = Step(f)
  <2>1. PICK f : Empties(f, k)  BY EmptiesExist
  <2>. DEFINE g == [i \in 0 .. k |-> f[i]]
  <2>2. ASSUME NEW i \in 0 .. k PROVE g[i] = EmptyHash(g, i)
    <3>1. f[i] = EmptyHash(f, i) /\ g[i] = f[i]  BY <2>1 DEF Empties
    <3>2. CASE i = 0  BY <3>1, <3>2 DEF EmptyHash
    <3>3. CASE i # 0
      <4>1. i - 1 \in 0 .. k  BY <3>3
      <4>2. g[i - 1] = f[i - 1]  BY <4>1
      <4>. QED BY ONLY <3>1, <3>3, <4>2 DEF EmptyHash
    <3>. QED BY <3>2, <3>3
  <2>3. g = [i \in 0 .. k |-> g[i]]  OBVIOUS
  <2>. HIDE DEF g
  <2>4. g = Step(g)  BY ONLY <2>2, <2>3
  <2>. QED BY <2>4
<1>3. z = Step(z)  BY ONLY <1>2
<1>. HIDE DEF z
<1>4. Empties(z, k)
  <2>1. DOMAIN Step(z) = 0 .. k /\ \A i \in 0 .. k : Step(z)[i] = EmptyHash(z, i)  OBVIOUS
  <2>. HIDE DEF Step
  <2>. QED BY ONLY <1>3, <2>1 DEF Empties
<1>. QED BY <1>1, <1>4

\* Row `level` of the tree of two leaves is empty but for its first node; in the
\* row of the leaves, but for the first two.
LEMMA EmptyRows ==
    ASSUME NEW a, NEW b, NEW depth \in Nat, NEW k \in Nat, NEW f, Empties(f, k)
    PROVE  \A level \in 0 .. k :
              level <= depth =>
                 \A i \in (IF level = 0 THEN 2 ELSE 1) .. 2^(depth - level) - 1 :
                    Tree(<<a, b>>, depth)[2^(depth - level) + i] = f[level]
<1>. DEFINE tree == Tree(<<a, b>>, depth)
           Row(level) == \A i \in (IF level = 0 THEN 2 ELSE 1) .. 2^(depth - level) - 1 :
                            tree[2^(depth - level) + i] = f[level]
           P == {level \in Nat : level <= k /\ level <= depth => Row(level)}
<1>1. 0 \in P
  <2>1. PICK n \in Nat \ {0} : n = 2^depth  BY PowersOfTwo
  <2>2. ASSUME NEW i \in 2 .. n - 1 PROVE tree[n + i] = Zero
    <3>1. i \in 0 .. n - 1 /\ ~ (i < Len(<<a, b>>))  OBVIOUS
    <3>2. tree[n + i] = LeafAt(<<a, b>>, i)  BY ONLY <2>1, <3>1, TreeLeaves, depth \in Nat
    <3>. QED BY ONLY <3>1, <3>2 DEF LeafAt
  <2>3. depth - 0 = depth /\ 0 \in 0 .. k  OBVIOUS
  <2>4. f[0] = Zero  BY <2>3 DEF Empties, EmptyHash
  <2>. HIDE DEF tree
  <2>5. Row(0)  BY ONLY <2>1, <2>2, <2>3, <2>4
  <2>. QED BY <2>5
<1>2. ASSUME NEW level \in Nat, level \in P PROVE level + 1 \in P
  <2>1. SUFFICES ASSUME level + 1 <= k, level + 1 <= depth PROVE Row(level + 1)  OBVIOUS
  <2>2. Row(level)  BY <1>2, <2>1
  <2>3. PICK m \in Nat : m = depth - (level + 1) /\ depth - level = m + 1
    <3>1. depth - (level + 1) \in Nat /\ depth - level = (depth - (level + 1)) + 1  BY <2>1
    <3>. QED BY <3>1
  <2>4. PICK w \in Nat \ {0} : w = 2^m /\ 2^(m + 1) = 2 * w  BY PowersOfTwo
  <2>5. f[level + 1] = HashTwo(f[level], f[level])
    <3>1. level + 1 \in 0 .. k /\ level + 1 # 0 /\ (level + 1) - 1 = level  BY <2>1
    <3>. QED BY <3>1 DEF Empties, EmptyHash
  <2>6. ASSUME NEW i \in 1 .. w - 1 PROVE tree[w + i] = f[level + 1]
    <3>1. w + i \in 1 .. 2^depth - 1
      <4>1. 2 * w <= 2^depth  BY <2>3, <2>4, PowersGrow
      <4>. QED BY ONLY <4>1, PowersOfTwo, w \in Nat \ {0}, i \in 1 .. w - 1, depth \in Nat
    <3>2. tree[w + i] = HashTwo(tree[2 * (w + i)], tree[2 * (w + i) + 1])
      BY ONLY <3>1, TreeParents, depth \in Nat
    <3>3. /\ 2 * (w + i) = 2 * w + 2 * i /\ 2 * (w + i) + 1 = 2 * w + (2 * i + 1)
          /\ 2 * i \in 2 .. 2 * w - 1 /\ 2 * i + 1 \in 2 .. 2 * w - 1
          /\ 2 * i \in 1 .. 2 * w - 1 /\ 2 * i + 1 \in 1 .. 2 * w - 1
      OBVIOUS
    <3>4. tree[2 * w + 2 * i] = f[level] /\ tree[2 * w + (2 * i + 1)] = f[level]
      <4>. HIDE DEF tree
      <4>. QED BY ONLY <2>2, <2>3, <2>4, <3>3
    <3>. HIDE DEF tree
    <3>. QED BY ONLY <2>5, <3>2, <3>3, <3>4
  <2>7. level + 1 # 0  OBVIOUS
  <2>. HIDE DEF tree
  <2>. QED BY ONLY <2>3, <2>4, <2>6, <2>7
<1>. HIDE DEF P
<1>3. \A level \in Nat : level \in P  BY <1>1, <1>2, SetInduction
<1>4. \A level \in 0 .. k : level \in Nat  OBVIOUS
<1>. HIDE DEF tree
<1>5. \A level \in 0 .. k : level <= depth => Row(level)  BY ONLY <1>3, <1>4 DEF P
<1>. QED BY <1>5 DEF tree

\* The path of the first leaf: the second leaf, then empty subtrees.
LEMMA FirstPath ==
    ASSUME NEW a, NEW b, NEW depth \in Nat \ {0}
    PROVE  /\ MerklePath(<<a, b>>, depth, 0)[1] = b
           /\ \A level \in 2 .. depth : MerklePath(<<a, b>>, depth, 0)[level] = ZeroSubtree(level - 1)
<1>. DEFINE tree == Tree(<<a, b>>, depth)
           path == MerklePath(<<a, b>>, depth, 0)
<1>0. PICK n \in Nat \ {0} : n = 2^depth /\ 0 \in 0 .. n - 1
  <2>1. PICK n \in Nat \ {0} : n = 2^depth  BY PowersOfTwo
  <2>2. 0 \in 0 .. n - 1  OBVIOUS
  <2>. QED BY <2>1, <2>2
<1>1. ASSUME NEW level \in 0 .. depth - 1
      PROVE  path[level + 1] = tree[2^(depth - level) + 1]
  <2>1. path[level + 1] = tree[Sibling(Above(depth, 0, level))]
    BY ONLY <1>0, PathShape, depth \in Nat \ {0}, level \in 0 .. depth - 1
  <2>2. InRow(depth, 0, level)
    <3>1. level \in 0 .. depth  OBVIOUS
    <3>. QED BY ONLY <1>0, <3>1, EveryRow, depth \in Nat \ {0}
  <2>3. AcrossAt(0, level) = 0
    <3>1. PICK q \in Nat \ {0} : q = 2^level  BY PowersOfTwo
    <3>2. 0 \div q = 0  OBVIOUS
    <3>. QED BY <3>1, <3>2 DEF AcrossAt
  <2>4. PICK w \in Nat : w = 2^(depth - level) /\ w % 2 = 0
    <3>1. PICK m \in Nat : depth - level = m + 1
      <4>1. depth - level - 1 \in Nat /\ depth - level = (depth - level - 1) + 1  OBVIOUS
      <4>. QED BY <4>1
    <3>2. PICK x \in Nat : 2^(m + 1) = 2 * x  BY PowersOfTwo
    <3>3. (2 * x) % 2 = 0 /\ 2 * x \in Nat  OBVIOUS
    <3>. QED BY <3>1, <3>2, <3>3
  <2>5. Above(depth, 0, level) = w  BY ONLY <2>2, <2>3, <2>4, w \in Nat DEF InRow
  <2>. QED BY ONLY <2>1, <2>4, <2>5 DEF Sibling
<1>. HIDE DEF path
<1>2. path[1] = b
  <2>1. 0 \in 0 .. depth - 1 /\ 0 + 1 = 1 /\ depth - 0 = depth  OBVIOUS
  <2>2. path[1] = tree[n + 1]  BY ONLY <1>0, <1>1, <2>1
  <2>3. n >= 2 /\ 1 \in 0 .. n - 1
    <3>1. PICK m \in Nat : depth = m + 1
      <4>1. depth - 1 \in Nat /\ depth = (depth - 1) + 1  OBVIOUS
      <4>. QED BY <4>1
    <3>2. PICK x \in Nat \ {0} : 2^(m + 1) = 2 * x  BY PowersOfTwo
    <3>3. n = 2 * x  BY <1>0, <3>1, <3>2
    <3>. QED BY <3>3
  <2>4. tree[n + 1] = LeafAt(<<a, b>>, 1)
    BY ONLY <1>0, <2>3, TreeLeaves, depth \in Nat \ {0}
  <2>5. LeafAt(<<a, b>>, 1) = b  BY DEF LeafAt
  <2>. QED BY <2>2, <2>4, <2>5
<1>3. ASSUME NEW level \in 2 .. depth PROVE path[level] = ZeroSubtree(level - 1)
  <2>1. PICK k \in 1 .. depth - 1 : k = level - 1 /\ level = k + 1 /\ k \in 0 .. depth - 1 /\ k \in Nat
    <3>1. level - 1 \in 1 .. depth - 1 /\ level - 1 \in 0 .. depth - 1 /\ level - 1 \in Nat
          /\ level = (level - 1) + 1
      OBVIOUS
    <3>. QED BY <3>1
  <2>2. path[level] = tree[2^(depth - k) + 1]  BY ONLY <1>1, <2>1
  <2>3. PICK f : Empties(f, k) /\ ZeroSubtree(k) = f[k]  BY <2>1, ZeroSubtreeIsLast
  <2>4. 1 \in 1 .. 2^(depth - k) - 1
    <3>1. PICK m \in Nat : depth - k = m + 1
      <4>1. depth - k - 1 \in Nat /\ depth - k = (depth - k - 1) + 1  BY <2>1
      <4>. QED BY <4>1
    <3>2. PICK x \in Nat \ {0} : 2^(m + 1) = 2 * x  BY PowersOfTwo
    <3>3. 1 \in 1 .. 2 * x - 1  OBVIOUS
    <3>. QED BY <3>1, <3>2, <3>3
  <2>5. tree[2^(depth - k) + 1] = f[k]
    <3>1. k \in 0 .. k /\ k <= depth /\ k # 0  BY <2>1
    <3>. QED BY ONLY <2>1, <2>3, <2>4, <3>1, EmptyRows, depth \in Nat \ {0}
  <2>. QED BY ONLY <2>1, <2>2, <2>3, <2>5
<1>. QED BY <1>2, <1>3 DEF path

\* The commitment of a one-on-one creation is to the tree of its two members.
LEMMA PairIsATree ==
    ASSUME NEW w, w.depth \in Nat \ {0}
    PROVE  OneOnOneCreateInputs(w) =
               <<Commitment(Root(<<HashOne(w.key0), HashOne(w.key1)>>, w.depth), 0, w.salt), Zero>>
<1>0. PICK depth \in Nat \ {0} : depth = w.depth  OBVIOUS
<1>0a. PICK a, b : a = HashOne(w.key0) /\ b = HashOne(w.key1)  OBVIOUS
<1>. DEFINE At(f, i) == IF i = 1 THEN HashTwo(a, b) ELSE HashTwo(f[i - 1], ZeroSubtree(i - 1))
           Step(f) == [i \in 1 .. depth |-> At(f, i)]
           root == CHOOSE f : f = Step(f)
           path == MerklePath(<<a, b>>, depth, 0)
<1>1. OneOnOneCreateInputs(w) = <<Commitment(root[depth], 0, w.salt), Zero>>
  BY <1>0, <1>0a DEF OneOnOneCreateInputs
<1>2. 0 \in 0 .. 2^depth - 1
  <2>1. PICK n \in Nat \ {0} : n = 2^depth  BY PowersOfTwo
  <2>. QED BY <2>1
<1>3. Len(path) = depth  BY ONLY <1>2, PathShape, depth \in Nat \ {0}
<1>4. PICK f : Climbs(f, a, path, 0, depth) /\ Climb(a, path, 0) = f[depth]
  BY ONLY <1>3, ClimbIsLast, depth \in Nat \ {0}
<1>5. f[depth] = Root(<<a, b>>, depth)
  <2>1. LeafAt(<<a, b>>, 0) = a  BY DEF LeafAt
  <2>. QED BY ONLY <1>2, <1>4, <2>1, PathLeadsToRoot, depth \in Nat \ {0}
<1>6. \A i \in 1 .. depth : f[i] = At(f, i)
  <2>1. TAKE i \in 1 .. depth
  <2>2. i \in 0 .. depth /\ i # 0 /\ i - 1 \in Nat  OBVIOUS
  <2>3. ~ IsRight(0, i - 1)
    <3>1. PICK q \in Nat \ {0} : q = 2^(i - 1)  BY <2>2, PowersOfTwo
    <3>2. 0 \div q = 0 /\ (0 \div q) % 2 = 0  OBVIOUS
    <3>. QED BY <3>1, <3>2 DEF IsRight
  <2>4. f[i] = HashTwo(f[i - 1], path[i])  BY ONLY <1>4, <2>2, <2>3 DEF Climbs, StepOf
  <2>5. CASE i = 1
    <3>1. 0 \in 0 .. depth /\ i - 1 = 0  BY <2>5
    <3>2. f[0] = a  BY ONLY <1>4, <3>1 DEF Climbs, StepOf
    <3>3. path[1] = b  BY ONLY FirstPath, depth \in Nat \ {0}
    <3>. QED BY ONLY <2>4, <2>5, <3>1, <3>2, <3>3
  <2>6. CASE i # 1
    <3>1. i \in 2 .. depth  BY <2>6
    <3>2. path[i] = ZeroSubtree(i - 1)  BY ONLY <3>1, FirstPath, depth \in Nat \ {0}
    <3>. QED BY ONLY <2>4, <2>6, <3>2
  <2>. QED BY <2>5, <2>6
<1>. HIDE DEF path
<1>7. \E r : r = Step(r)
  <2>. DEFINE g == [i \in 1 .. depth |-> f[i]]
  <2>1. ASSUME NEW i \in 1 .. depth PROVE g[i] = At(g, i)
    <3>1. f[i] = At(f, i) /\ g[i] = f[i]  BY <1>6
    <3>2. CASE i = 1  BY <3>1, <3>2
    <3>3. CASE i # 1
      <4>1. i - 1 \in 1 .. depth  BY <3>3
      <4>2. g[i - 1] = f[i - 1]  BY <4>1
      <4>. QED BY ONLY <3>1, <3>3, <4>2
    <3>. QED BY <3>2, <3>3
  <2>2. g = [i \in 1 .. depth |-> g[i]]  OBVIOUS
  <2>. HIDE DEF g
  <2>3. g = Step(g)  BY ONLY <2>1, <2>2
  <2>. QED BY <2>3
<1>8. root = Step(root)  BY ONLY <1>7
<1>. HIDE DEF root
<1>9. \A i \in 1 .. depth : root[i] = At(root, i)
  <2>1. TAKE i \in 1 .. depth
  <2>2. Step(root)[i] = At(root, i)  OBVIOUS
  <2>. HIDE DEF Step
  <2>. QED BY ONLY <1>8, <2>2
<1>. DEFINE P == {n \in Nat : n + 1 <= depth => root[n + 1] = f[n + 1]}
<1>10. 0 \in P
  <2>1. 1 \in 1 .. depth /\ 0 + 1 = 1  OBVIOUS
  <2>. QED BY ONLY <1>6, <1>9, <2>1
<1>11. ASSUME NEW n \in Nat, n \in P PROVE n + 1 \in P
  <2>1. SUFFICES ASSUME (n + 1) + 1 <= depth PROVE root[(n + 1) + 1] = f[(n + 1) + 1]  OBVIOUS
  <2>2. root[n + 1] = f[n + 1]  BY <1>11, <2>1
  <2>3. (n + 1) + 1 \in 1 .. depth /\ ((n + 1) + 1) - 1 = n + 1 /\ (n + 1) + 1 # 1  BY <2>1
  <2>. QED BY ONLY <1>6, <1>9, <2>2, <2>3
<1>. HIDE DEF P, Step
<1>12. depth - 1 \in P
  <2>1. \A n \in Nat : n \in P  BY ONLY <1>10, <1>11, SetInduction
  <2>. QED BY <2>1
<1>13. root[depth] = f[depth]
  <2>1. depth - 1 \in Nat /\ (depth - 1) + 1 = depth /\ (depth - 1) + 1 <= depth  OBVIOUS
  <2>. QED BY ONLY <1>12, <2>1 DEF P
<1>. QED BY ONLY <1>0, <1>0a, <1>1, <1>5, <1>13

-------------------------------------------------------------------------------
(* Trees and witnesses: what the callers' proofs are made of.              *)

DepthsInUse == {Depth[t] : t \in 0..2} \cup {AdminDepth}

Trees == Rosters \cup (Keys \X Keys)

LEMMA DepthFacts ==
    /\ AdminDepth \in DepthsInUse
    /\ \A t \in 0..2 : Depth[t] \in DepthsInUse
    /\ \A d \in DepthsInUse : d \in Nat \ {0}
BY RegistryAssumption DEF DepthsInUse

LEMMA TreeIs ==
    ASSUME NEW roster \in Trees, NEW d \in DepthsInUse
    PROVE  /\ TreeOf(roster, d) = Root(LeavesOf(roster), d)
           /\ \A index \in 0 .. 2^d - 1 :
                 PathOf(roster, d, index) = MerklePath(LeavesOf(roster), d, index)
BY DEF TreeOf, PathOf, Built, Trees, DepthsInUse

LEMMA LeavesFacts ==
    ASSUME NEW roster \in Trees
    PROVE  /\ roster \in Seq(Keys)
           /\ \A index \in Nat : LeafAt(LeavesOf(roster), index) =
                 IF index < Len(roster) THEN Leaf(roster[index + 1]) ELSE Zero
<1>1. roster \in Seq(Keys)
  <2>1. ASSUME roster \in Keys \X Keys PROVE roster \in Seq(Keys)
    <3>1. PICK a \in Keys, b \in Keys : roster = <<a, b>>  BY <2>1
    <3>. QED BY <3>1
  <2>. QED BY <2>1, RegistryAssumption DEF Trees
<1>2. Len(roster) \in Nat /\ DOMAIN roster = 1 .. Len(roster)  BY <1>1
<1>. DEFINE S == {Leaf(roster[i]) : i \in DOMAIN roster}
<1>3. LeavesOf(roster) \in [1 .. Len(roster) -> S]  BY <1>2 DEF LeavesOf
<1>4. Len(LeavesOf(roster)) = Len(roster)  BY <1>2, <1>3
<1>5. ASSUME NEW index \in Nat, index < Len(roster)
      PROVE  LeavesOf(roster)[index + 1] = Leaf(roster[index + 1])
  BY <1>2, <1>5 DEF LeavesOf
<1>. QED BY <1>1, <1>4, <1>5 DEF LeafAt

\* Whoever opens a tree has the key of the leaf that it claims.
LEMMA OpeningBinds ==
    ASSUME NEW roster \in Trees, NEW d \in DepthsInUse, NEW key, NEW path, NEW index \in Nat,
           ValidPath(path, index, d), Opens(Secret(key), path, index, TreeOf(roster, d))
    PROVE  index + 1 \in DOMAIN roster /\ roster[index + 1] = key
<1>1. d \in Nat /\ Len(path) = d /\ index \in 0 .. 2^d - 1
  <2>1. d \in Nat  BY DepthFacts
  <2>2. 2^d \in Nat  BY <2>1, PowersOfTwo
  <2>. QED BY <2>1, <2>2 DEF ValidPath
<1>2. Climb(Leaf(key), path, index) = Root(LeavesOf(roster), d)
  BY TreeIs DEF Opens, Leaf
<1>3. Leaf(key) = LeafAt(LeavesOf(roster), index)
  BY ONLY <1>1, <1>2, RootBindsLeaves
<1>4. Leaf(key) # Zero  BY DEF Leaf, HashOne, HashTwo, Zero, Num
<1>5. index < Len(roster) /\ Leaf(key) = Leaf(roster[index + 1])
  BY <1>3, <1>4, LeavesFacts
<1>6. key = roster[index + 1]  BY <1>5 DEF Leaf, HashOne, HashTwo, Secret
<1>7. index + 1 \in DOMAIN roster
  <2>1. roster \in Seq(Keys)  BY LeavesFacts
  <2>. QED BY <1>5, <2>1
<1>. QED BY <1>6, <1>7

\* A member of a tree it fits in opens it.
LEMMA MemberOpens ==
    ASSUME NEW roster \in Trees, NEW d \in DepthsInUse, Len(roster) <= 2^d,
           NEW index \in DOMAIN roster
    PROVE  /\ ValidPath(PathOf(roster, d, index - 1), index - 1, d)
           /\ Opens(Secret(roster[index]), PathOf(roster, d, index - 1), index - 1,
                    TreeOf(roster, d))
<1>1. d \in Nat /\ 2^d \in Nat  BY DepthFacts, PowersOfTwo
<1>2. roster \in Seq(Keys)  BY LeavesFacts
<1>3. PICK i \in Nat : i = index - 1 /\ i + 1 = index /\ i < Len(roster) /\ i < 2^d
  <2>1. index - 1 \in Nat /\ (index - 1) + 1 = index /\ index - 1 < Len(roster)
        /\ index - 1 < 2^d
    BY <1>1, <1>2
  <2>. QED BY <2>1
<1>4. i \in 0 .. 2^d - 1  BY <1>1, <1>3
<1>5. PICK leaves : leaves = LeavesOf(roster)  OBVIOUS
<1>6. PathOf(roster, d, i) = MerklePath(leaves, d, i) /\ TreeOf(roster, d) = Root(leaves, d)
  BY <1>4, <1>5, TreeIs
<1>7. Len(PathOf(roster, d, i)) = d  BY ONLY <1>1, <1>4, <1>6, PathShape
<1>8. LeafAt(leaves, i) = Leaf(roster[index])  BY <1>3, <1>5, LeavesFacts
<1>9. Climb(Leaf(roster[index]), PathOf(roster, d, i), i) = TreeOf(roster, d)
  BY ONLY <1>1, <1>4, <1>6, <1>8, PathLeadsToRoot
<1>. QED BY <1>3, <1>7, <1>9 DEF ValidPath, Opens, Leaf

\* The fields of each kind of witness.
LEMMA MemberWitness ==
    ASSUME NEW roster, NEW d, NEW epoch, NEW new, NEW claim,
           NEW w, w = Change(roster, d, epoch, new) ++ SignedBy(roster, d, claim)
    PROVE  /\ w.root = TreeOf(roster, d) /\ w.depth = d /\ w.epoch = epoch /\ w.salt = Salt(1)
           /\ w.rootNew = TreeOf(new, d) /\ w.saltNew = Salt(1)
           /\ w.key = Secret(claim[1]) /\ w.index = claim[2]
           /\ w.path = PathOf(roster, d, claim[2])
BY DEF ++, Change, SignedBy

LEMMA AdminWitness ==
    ASSUME NEW roster, NEW d, NEW epoch, NEW new, NEW claim, NEW group, NEW w,
           w = Change(roster, d, epoch, new) ++ SignedBy(roster, d, claim) ++ [group |-> group]
    PROVE  /\ w.root = TreeOf(roster, d) /\ w.depth = d /\ w.epoch = epoch /\ w.salt = Salt(1)
           /\ w.rootNew = TreeOf(new, d) /\ w.saltNew = Salt(1)
           /\ w.key = Secret(claim[1]) /\ w.index = claim[2]
           /\ w.path = PathOf(roster, d, claim[2])
           /\ w.group = group
BY DEF ++, Change, SignedBy

LEMMA QuorumWitness ==
    ASSUME NEW slots, NEW threshold, NEW salt, NEW n, NEW nNew, NEW roster, NEW d, NEW epoch,
           NEW new, NEW w,
           w = [signers |-> slots, threshold |-> threshold, salt |-> salt]
                  ++ Counting(n, nNew) ++ Change(roster, d, epoch, new)
    PROVE  /\ w.signers = slots /\ w.threshold = threshold /\ w.salt = salt
           /\ w.count = n /\ w.saltOc = Salt(1) /\ w.countNew = nNew /\ w.saltOcNew = Salt(1)
           /\ w.root = TreeOf(roster, d) /\ w.depth = d /\ w.epoch = epoch
           /\ w.rootNew = TreeOf(new, d) /\ w.saltNew = Salt(1)
BY DEF ++, Change, Counting

LEMMA DeepWitness ==
    ASSUME NEW threshold, NEW salt, NEW n, NEW nNew, NEW roster, NEW d, NEW epoch,
           NEW new, NEW claim, NEW w,
           w = [threshold |-> threshold, salt |-> salt] ++ SignedBy(roster, d, claim)
                  ++ Counting(n, nNew) ++ Change(roster, d, epoch, new)
    PROVE  /\ w.threshold = threshold /\ w.salt = salt
           /\ w.occ = Occ(n) /\ w.occNew = Occ(nNew)
           /\ w.root = TreeOf(roster, d) /\ w.depth = d /\ w.epoch = epoch
           /\ w.rootNew = TreeOf(new, d) /\ w.saltNew = Salt(1)
           /\ w.key = Secret(claim[1]) /\ w.index = claim[2]
           /\ w.path = PathOf(roster, d, claim[2])
BY DEF ++, Change, Counting, SignedBy

LEMMA OligarchyCreateWitness ==
    ASSUME NEW n, NEW roster, NEW admins, NEW d, NEW w,
           w = Counting(n, n) ++ Admins(admins, admins) ++ Change(roster, d, 0, roster)
    PROVE  /\ w.occ = Occ(n) /\ w.adminRoot = TreeOf(admins, AdminDepth)
           /\ w.root = TreeOf(roster, d) /\ w.salt = Salt(1)
BY DEF ++, Change, Counting, Admins

LEMMA OligarchyWitness ==
    ASSUME NEW slots, NEW threshold, NEW n, NEW nNew, NEW admins, NEW adminsNew, NEW roster,
           NEW d, NEW epoch, NEW new, NEW w,
           w = [signers |-> slots, threshold |-> threshold, depth |-> AdminDepth]
                  ++ Counting(n, nNew) ++ Admins(admins, adminsNew)
                  ++ Change(roster, d, epoch, new)
    PROVE  /\ w.signers = slots /\ w.threshold = threshold /\ w.depth = AdminDepth
           /\ w.count = n /\ w.saltOc = Salt(1) /\ w.countNew = nNew /\ w.saltOcNew = Salt(1)
           /\ w.adminRoot = TreeOf(admins, AdminDepth)
           /\ w.adminRootNew = TreeOf(adminsNew, AdminDepth)
           /\ w.root = TreeOf(roster, d) /\ w.epoch = epoch /\ w.salt = Salt(1)
           /\ w.rootNew = TreeOf(new, d) /\ w.saltNew = Salt(1)
BY DEF ++, Change, Counting, Admins

-------------------------------------------------------------------------------
(* What the entry of a group says of its trees.                            *)

DepthOf(g) == Depth[IF kind = "oneonone" THEN 0 ELSE g.tier]

\* The commitment of entry g binds the trees r and the rest of the entry.
Binds(g, r) ==
    LET root == TreeOf(r.members, DepthOf(g))
    IN  CASE kind = "oligarchy" ->
                g.commitment = OligarchyCommitment(root, g.epoch, Salt(1), g.occupancy,
                                    TreeOf(r.admins, AdminDepth))
          [] kind = "democracy" ->
                \/ g.commitment \in {DemocracyCommitment(root, g.epoch, s, g.occupancy) :
                                        s \in {Zero, Salt(1)}}
                \/ g.epoch = 0 /\ g.commitment = Commitment(root, 0, Salt(1))
          [] OTHER -> g.commitment = Commitment(root, g.epoch, Salt(1))

\* The trees r are trees that could be built, of the entry's tier.
Fits(g, r) ==
    /\ IF kind = "oneonone" THEN r.members \in Keys \X Keys
                            ELSE g.tier \in 0..2 /\ r.members \in Buildable(DepthOf(g))
    /\ kind = "oligarchy" => r.admins \in Buildable(AdminDepth)

\* A call that leaves the entry g, and the trees r that it binds.
Records(id, g, r) ==
    /\ Enters(id, g) /\ rosters' = [rosters EXCEPT ![id] = r]
    /\ Fits(g, r) /\ Binds(g, r)

\* The call leaves some entry with trees that it binds.
Recorded(id) == \E g, r : Records(id, g, r)

Voters(id) == IF kind = "oligarchy" THEN rosters[id].admins ELSE rosters[id].members

\* Enough different voters of group id have signed the call.
Authorised(id) ==
    /\ signers' \subseteq {Voters(id)[i] : i \in DOMAIN Voters(id)}
    /\ Cardinality(signers') >= SignersNeeded(Stored(id))
    /\ kind = "tyranny" =>
         \A k \in signers' :
            store[AdminCommitment(id)].v = AdminBinding(Secret(k), GroupFr[id])

(***************************************************************************)
(* Of every group, the trees of its last accepted call.                    *)
(***************************************************************************)
BindInv ==
    /\ DOMAIN rosters = Ids
    /\ \A id \in Ids : Exists(id) => Fits(Stored(id), rosters[id]) /\ Binds(Stored(id), rosters[id])

LEMMA CommitmentsAreOneToOne ==
    ASSUME NEW r1, NEW e1, NEW s1, NEW r2, NEW e2, NEW s2,
           Commitment(r1, e1, s1) = Commitment(r2, e2, s2)
    PROVE  r1 = r2 /\ e1 = e2 /\ s1 = s2
BY DEF Commitment, HashTwo, Num

-------------------------------------------------------------------------------

\* One signature on a root comes from somebody in its tree.
LEMMA OneVoter ==
    ASSUME NEW tree \in Trees, NEW d \in DepthsInUse, NEW w, NEW key, OneSigns(w),
           w.depth = d, w.root = TreeOf(tree, d), w.key = Secret(key), w.index \in Nat
    PROVE  /\ {key} \subseteq {tree[i] : i \in DOMAIN tree}
           /\ Cardinality({key}) = 1
<1>1. w.index + 1 \in DOMAIN tree /\ tree[w.index + 1] = key
  BY OpeningBinds DEF OneSigns
<1>. QED BY <1>1, FS_Singleton

\* Signers of different leaves are different people: nobody is in a tree twice.
LEMMA QuorumVoters ==
    ASSUME NEW tree \in Rosters, NEW d \in DepthsInUse, NEW roster,
           NEW claims \in ClaimsOfAll(d), NEW threshold,
           Quorum(Slots(roster, d, claims), TreeOf(tree, d), threshold, d)
    PROVE  /\ KeysOf(claims) \subseteq {tree[i] : i \in DOMAIN tree}
           /\ Cardinality(KeysOf(claims)) >= threshold
<1>. DEFINE slots == Slots(roster, d, claims)
           S == DOMAIN claims
<1>1. PICK k \in 0..K_MAX : claims \in [1..k -> Claims(d)]
  BY DEF ClaimsOfAll
<1>2. S = 1..k /\ S \subseteq 1..K_MAX /\ K_MAX = 2  BY <1>1 DEF K_MAX
<1>3. DOMAIN slots = 1..K_MAX  BY DEF Slots
<1>4. ASSUME NEW i \in S
      PROVE  /\ slots[i].active /\ slots[i].key = Secret(claims[i][1])
             /\ slots[i].index = claims[i][2] /\ claims[i][2] \in Nat
  <2>1. slots[i] = SignedBy(roster, d, claims[i]) ++ [active |-> TRUE]
    BY <1>2, <1>4 DEF Slots
  <2>2. claims[i] \in Claims(d)  BY <1>1, <1>2, <1>4
  <2>3. claims[i][2] \in 0 .. 2^d - 1  BY <2>2 DEF Claims
  <2>4. claims[i][2] \in Nat  BY <2>3
  <2>. QED BY <2>1, <2>4 DEF ++, SignedBy
<1>5. ASSUME NEW i \in 1..K_MAX, i \notin S PROVE ~slots[i].active
  BY <1>5 DEF Slots, Idle
<1>6. ActiveSlots(slots) = S  BY <1>2, <1>3, <1>4, <1>5 DEF ActiveSlots
<1>7. ASSUME NEW i \in S
      PROVE  claims[i][2] + 1 \in DOMAIN tree /\ tree[claims[i][2] + 1] = claims[i][1]
  <2>1. Opens(slots[i].key, slots[i].path, slots[i].index, TreeOf(tree, d))
    BY <1>6, <1>7 DEF Quorum, ActiveOpen
  <2>2. ValidPath(slots[i].path, slots[i].index, d)
    BY <1>2, <1>3, <1>7 DEF Quorum
  <2>3. tree \in Trees  BY DEF Trees
  <2>. HIDE DEF slots
  <2>. QED BY <1>4, <1>7, <2>1, <2>2, <2>3, OpeningBinds
<1>8. ASSUME NEW i \in S, NEW j \in S, claims[i][1] = claims[j][1] PROVE i = j
  <2>1. claims[i][2] + 1 = claims[j][2] + 1
    BY <1>7, <1>8, RostersAssumption
  <2>2. claims[i][2] = claims[j][2]  BY <1>4, <2>1
  <2>3. slots[i].index = slots[j].index  BY <1>4, <2>2
  <2>. QED BY <1>6, <2>3 DEF Quorum, DistinctLeaves
<1>9. KeysOf(claims) \subseteq {tree[i] : i \in DOMAIN tree}
  BY <1>7 DEF KeysOf
<1>10. Cardinality(KeysOf(claims)) = Cardinality(S)
  <2>. DEFINE f == [i \in S |-> claims[i][1]]
  <2>1. IsFiniteSet(S)  BY <1>1, <1>2, FS_Interval
  <2>2. f \in Bijection(S, KeysOf(claims))
    <3>1. f \in [S -> KeysOf(claims)]  BY DEF KeysOf
    <3>2. \A i, j \in S : f[i] = f[j] => i = j  BY <1>8
    <3>3. \A x \in KeysOf(claims) : \E i \in S : f[i] = x  BY DEF KeysOf
    <3>. HIDE DEF f
    <3>. QED BY <3>1, <3>2, <3>3 DEF Bijection, Injection, Surjection, IsInjective
  <2>3. ExistsBijection(S, KeysOf(claims))  BY <2>2 DEF ExistsBijection
  <2>. QED BY <2>1, <2>3, FS_Bijection
<1>11. \E slack \in 0..3 : threshold \in 0..3 /\ threshold + slack = Cardinality(S)
  BY <1>6 DEF Quorum, ThresholdMet
<1>. QED BY <1>9, <1>10, <1>11

-------------------------------------------------------------------------------
(* What each call leaves, and who has signed it.                           *)

LEMMA AnarchyCreates ==
    ASSUME StoreInv, NEW id \in Ids, NEW isAdmin, AnarchyCreate(id, isAdmin)
    PROVE  Recorded(id)
<1>1. kind = "anarchy"  BY DEF AnarchyCreate
<1>2. PICK t \in Tiers :
        \E roster \in Buildable(Depth[t]), claim \in Claims(Depth[t]) :
            LET w == Change(roster, Depth[t], 0, roster) ++ SignedBy(roster, Depth[t], claim) IN
            /\ Anarchy!CreateGroup(id, t,
               Proof(Anarchy!MembershipVk(t), MembershipInputs(w)), isAdmin)
            /\ Accepted(id, roster, << >>, {claim[1]})
  BY DEF AnarchyCreate
<1>3. PICK roster, claim, w :
        /\ roster \in Buildable(Depth[t]) /\ claim \in Claims(Depth[t])
        /\ w = Change(roster, Depth[t], 0, roster) ++ SignedBy(roster, Depth[t], claim)
        /\ Anarchy!CreateGroup(id, t,
               Proof(Anarchy!MembershipVk(t), MembershipInputs(w)), isAdmin)
        /\ Accepted(id, roster, << >>, {claim[1]})
  BY <1>2
<1>. DEFINE proof == Proof(Anarchy!MembershipVk(t), MembershipInputs(w))
           g == Anarchy!Entry(MembershipInputs(w)[1], 0, t)
           r == [members |-> roster, admins |-> << >>]
<1>4. w.root = TreeOf(roster, Depth[t]) /\ w.epoch = 0 /\ w.salt = Salt(1)
  BY <1>3, MemberWitness
<1>5. proof.pi = MembershipInputs(w)  BY DEF Proof
<1>6. Enters(id, g)  BY <1>1, <1>3, <1>5, AnarchySteps
<1>7. /\ g.commitment = Commitment(TreeOf(roster, Depth[t]), 0, Salt(1))
      /\ g.epoch = 0 /\ g.tier = t
  BY <1>4 DEF Anarchy!Entry, MembershipInputs
<1>8. t \in 0..2  BY TypedAssumption
<1>9. Fits(g, r)  BY <1>1, <1>3, <1>7, <1>8 DEF Fits, DepthOf
<1>10. Binds(g, r)  BY <1>1, <1>7 DEF Binds, DepthOf
<1>. QED BY <1>3, <1>6, <1>9, <1>10 DEF Recorded, Records, Accepted

LEMMA AnarchyUpdates ==
    ASSUME StoreInv, BindInv, NEW id \in Ids, Exists(id), AnarchyUpdate(id)
    PROVE  Recorded(id) /\ Authorised(id)
<1>1. kind = "anarchy"  BY DEF AnarchyUpdate
<1>. DEFINE old == Stored(id)
           d   == Depth[old.tier]
           tree == rosters[id].members
<1>2. /\ old.tier \in 0..2 /\ d \in DepthsInUse /\ tree \in Trees
      /\ old.commitment = Commitment(TreeOf(tree, d), old.epoch, Salt(1))
  <2>1. Fits(old, rosters[id]) /\ Binds(old, rosters[id])  BY DEF BindInv
  <2>. QED BY <1>1, <2>1, DepthFacts DEF Fits, Binds, DepthOf, Buildable, Trees
<1>3. PICK roster, epoch, new, claim, w :
        /\ roster \in Buildable(d) /\ epoch \in 0..MaxEpoch /\ new \in Buildable(d)
        /\ claim \in Claims(d)
        /\ w = Change(roster, d, epoch, new) ++ SignedBy(roster, d, claim)
        /\ UpdateHolds(w)
        /\ Anarchy!UpdateCommitment(id, Proof(Anarchy!UpdateVk(old.tier), UpdateInputs(w)))
        /\ Accepted(id, new, << >>, {claim[1]})
  BY DEF AnarchyUpdate
<1>. DEFINE proof == Proof(Anarchy!UpdateVk(old.tier), UpdateInputs(w))
           g == Anarchy!Entry(UpdateInputs(w)[3], old.epoch + 1, old.tier)
           r == [members |-> new, admins |-> << >>]
<1>4. /\ w.root = TreeOf(roster, d) /\ w.epoch = epoch /\ w.salt = Salt(1) /\ w.depth = d
      /\ w.rootNew = TreeOf(new, d) /\ w.saltNew = Salt(1)
      /\ w.key = Secret(claim[1]) /\ w.index = claim[2]
  BY <1>3, MemberWitness
<1>5. proof.pi = UpdateInputs(w)  BY DEF Proof
<1>6. Enters(id, g)  BY <1>1, <1>3, <1>5, AnarchySteps
<1>7. proof.pi[1] = old.commitment /\ proof.pi[2] = Anarchy!Num(old.epoch)
  BY <1>3, AnarchySame DEF Anarchy!UpdateCommitment
<1>8. epoch = old.epoch  BY <1>4, <1>5, <1>7 DEF UpdateInputs, Num, Anarchy!Num
<1>9. /\ g.commitment = Commitment(TreeOf(new, d), old.epoch + 1, Salt(1))
      /\ g.epoch = old.epoch + 1 /\ g.tier = old.tier
  BY <1>4, <1>8 DEF Anarchy!Entry, UpdateInputs
<1>10. Fits(g, r)  BY <1>1, <1>2, <1>3, <1>9 DEF Fits, DepthOf
<1>11. Binds(g, r)  BY <1>1, <1>9 DEF Binds, DepthOf
<1>12. Recorded(id)
  BY <1>3, <1>6, <1>10, <1>11 DEF Recorded, Records, Accepted
<1>13. /\ {claim[1]} \subseteq {tree[i] : i \in DOMAIN tree}
       /\ Cardinality({claim[1]}) = 1
  <2>1. w.root = TreeOf(tree, d)
    BY <1>2, <1>4, <1>5, <1>7, CommitmentsAreOneToOne DEF UpdateInputs
  <2>2. w.index \in Nat  BY <1>3, <1>4 DEF Claims
  <2>3. OneSigns(w)  BY <1>3 DEF UpdateHolds
  <2>. HIDE DEF d, tree
  <2>. QED BY <1>2, <1>4, <2>1, <2>2, <2>3, OneVoter
<1>. QED
  BY <1>1, <1>3, <1>12, <1>13 DEF Authorised, Voters, SignersNeeded, Accepted

LEMMA TyrannyCreates ==
    ASSUME StoreInv, NEW id \in Ids, NEW isAdmin, TyrannyCreate(id, isAdmin)
    PROVE  Recorded(id)
<1>1. kind = "tyranny"  BY DEF TyrannyCreate
<1>2. PICK t \in Tiers, for \in Ids :
        \E roster \in Buildable(Depth[t]), claim \in Claims(Depth[t]) :
            LET w == Change(roster, Depth[t], 0, roster) ++ SignedBy(roster, Depth[t], claim)
                         ++ [group |-> GroupFr[for]] IN
            /\ Tyranny!CreateGroup(id, t,
               Proof(Tyranny!CreateVk(t), TyrannyCreateInputs(w)), isAdmin)
            /\ Accepted(id, roster, << >>, {claim[1]})
  BY DEF TyrannyCreate
<1>3. PICK roster, claim, w :
        /\ roster \in Buildable(Depth[t]) /\ claim \in Claims(Depth[t])
        /\ w = Change(roster, Depth[t], 0, roster) ++ SignedBy(roster, Depth[t], claim)
                   ++ [group |-> GroupFr[for]]
        /\ Tyranny!CreateGroup(id, t,
               Proof(Tyranny!CreateVk(t), TyrannyCreateInputs(w)), isAdmin)
        /\ Accepted(id, roster, << >>, {claim[1]})
  BY <1>2
<1>. DEFINE proof == Proof(Tyranny!CreateVk(t), TyrannyCreateInputs(w))
           g == Tyranny!Entry(TyrannyCreateInputs(w)[1], 0, t)
           r == [members |-> roster, admins |-> << >>]
<1>4. w.root = TreeOf(roster, Depth[t]) /\ w.epoch = 0 /\ w.salt = Salt(1)
  BY <1>3, AdminWitness
<1>5. proof.pi = TyrannyCreateInputs(w)  BY DEF Proof
<1>6. Enters(id, g)  BY <1>1, <1>3, <1>5, TyrannySteps
<1>7. /\ g.commitment = Commitment(TreeOf(roster, Depth[t]), 0, Salt(1))
      /\ g.epoch = 0 /\ g.tier = t
  BY <1>4 DEF Tyranny!Entry, TyrannyCreateInputs
<1>8. t \in 0..2  BY TypedAssumption
<1>9. Fits(g, r)  BY <1>1, <1>3, <1>7, <1>8 DEF Fits, DepthOf
<1>10. Binds(g, r)  BY <1>1, <1>7 DEF Binds, DepthOf
<1>. QED BY <1>3, <1>6, <1>9, <1>10 DEF Recorded, Records, Accepted

LEMMA TyrannyUpdates ==
    ASSUME StoreInv, BindInv, NEW id \in Ids, Exists(id), TyrannyUpdate(id)
    PROVE  Recorded(id) /\ Authorised(id)
<1>1. kind = "tyranny"  BY DEF TyrannyUpdate
<1>. DEFINE old == Stored(id)
           d   == Depth[old.tier]
           tree == rosters[id].members
<1>2. /\ old.tier \in 0..2 /\ d \in DepthsInUse /\ tree \in Trees
      /\ old.commitment = Commitment(TreeOf(tree, d), old.epoch, Salt(1))
  <2>1. Fits(old, rosters[id]) /\ Binds(old, rosters[id])  BY DEF BindInv
  <2>. QED BY <1>1, <2>1, DepthFacts DEF Fits, Binds, DepthOf, Buildable, Trees
<1>3. PICK roster, epoch, new, for, claim, w :
        /\ roster \in Buildable(d) /\ epoch \in 0..MaxEpoch /\ new \in Buildable(d)
        /\ for \in Ids /\ claim \in Claims(d)
        /\ w = Change(roster, d, epoch, new) ++ SignedBy(roster, d, claim)
                   ++ [group |-> GroupFr[for]]
        /\ TyrannyUpdateHolds(w)
        /\ Tyranny!UpdateCommitment(id, Proof(Tyranny!UpdateVk(old.tier), TyrannyUpdateInputs(w)))
        /\ Accepted(id, new, << >>, {claim[1]})
  BY DEF TyrannyUpdate
<1>. DEFINE proof == Proof(Tyranny!UpdateVk(old.tier), TyrannyUpdateInputs(w))
           g == Tyranny!Entry(TyrannyUpdateInputs(w)[3], old.epoch + 1, old.tier)
           r == [members |-> new, admins |-> << >>]
<1>4. /\ w.root = TreeOf(roster, d) /\ w.epoch = epoch /\ w.salt = Salt(1) /\ w.depth = d
      /\ w.rootNew = TreeOf(new, d) /\ w.saltNew = Salt(1)
      /\ w.key = Secret(claim[1]) /\ w.index = claim[2] /\ w.group = GroupFr[for]
  BY <1>3, AdminWitness
<1>5. proof.pi = TyrannyUpdateInputs(w)  BY DEF Proof
<1>6. Enters(id, g)  BY <1>1, <1>3, <1>5, TyrannySteps
<1>7. proof.pi[1] = old.commitment /\ proof.pi[2] = Tyranny!Num(old.epoch)
  BY <1>3, TyrannySame DEF Tyranny!UpdateCommitment
<1>8. epoch = old.epoch  BY <1>4, <1>5, <1>7 DEF TyrannyUpdateInputs, Num, Tyranny!Num
<1>9. /\ g.commitment = Commitment(TreeOf(new, d), old.epoch + 1, Salt(1))
      /\ g.epoch = old.epoch + 1 /\ g.tier = old.tier
  BY <1>4, <1>8 DEF Tyranny!Entry, TyrannyUpdateInputs
<1>10. Fits(g, r)  BY <1>1, <1>2, <1>3, <1>9 DEF Fits, DepthOf
<1>11. Binds(g, r)  BY <1>1, <1>9 DEF Binds, DepthOf
<1>12. Recorded(id)
  BY <1>3, <1>6, <1>10, <1>11 DEF Recorded, Records, Accepted
<1>13. /\ {claim[1]} \subseteq {tree[i] : i \in DOMAIN tree}
       /\ Cardinality({claim[1]}) = 1
  <2>1. w.root = TreeOf(tree, d)
    BY <1>2, <1>4, <1>5, <1>7, CommitmentsAreOneToOne DEF TyrannyUpdateInputs
  <2>2. w.index \in Nat  BY <1>3, <1>4 DEF Claims
  <2>3. OneSigns(w)  BY <1>3 DEF TyrannyUpdateHolds
  <2>. HIDE DEF d, tree
  <2>. QED BY <1>2, <1>4, <2>1, <2>2, <2>3, OneVoter
<1>14. store[AdminCommitment(id)].v = AdminBinding(Secret(claim[1]), GroupFr[id])
  <2>1. store[AdminCommitment(id)].v = proof.pi[4] /\ proof.pi[5] = GroupFr[id]
    BY <1>3, TyrannySame DEF Tyranny!UpdateCommitment, Tyranny!PinnedAdmin
  <2>. QED BY <1>4, <1>5, <2>1 DEF TyrannyUpdateInputs
<1>. QED
  BY <1>1, <1>3, <1>12, <1>13, <1>14 DEF Authorised, Voters, SignersNeeded, Accepted

LEMMA OneOnOneCreates ==
    ASSUME StoreInv, NEW id \in Ids, NEW isAdmin, OneOnOneCreate(id, isAdmin)
    PROVE  Recorded(id)
<1>1. kind = "oneonone"  BY DEF OneOnOneCreate
<1>2. PICK key0, key1, w :
        /\ key0 \in Keys /\ key1 \in Keys
        /\ w = [key0 |-> Secret(key0), key1 |-> Secret(key1), depth |-> Depth[0],
                salt |-> Salt(1)]
        /\ OneOnOne!CreateGroup(id, Proof(OneOnOne!CreateVk, OneOnOneCreateInputs(w)), isAdmin)
        /\ Accepted(id, <<key0, key1>>, << >>, {key0, key1})
  BY DEF OneOnOneCreate
<1>. DEFINE proof == Proof(OneOnOne!CreateVk, OneOnOneCreateInputs(w))
           g == OneOnOne!Entry(OneOnOneCreateInputs(w)[1])
           r == [members |-> <<key0, key1>>, admins |-> << >>]
           leaves == <<HashOne(Secret(key0)), HashOne(Secret(key1))>>
<1>3. proof.pi = OneOnOneCreateInputs(w)  BY DEF Proof
<1>4. Enters(id, g)  BY <1>1, <1>2, <1>3, OneOnOneSteps
<1>5. Depth[0] \in DepthsInUse /\ Depth[0] \in Nat \ {0}  BY DepthFacts
<1>6. OneOnOneCreateInputs(w)[1] = Commitment(Root(leaves, Depth[0]), 0, Salt(1))
  BY <1>2, <1>5, PairIsATree
<1>7. Root(leaves, Depth[0]) = TreeOf(<<key0, key1>>, Depth[0])
  <2>1. <<key0, key1>> \in Trees  BY <1>2 DEF Trees
  <2>2. LeavesOf(<<key0, key1>>) = leaves
    <3>1. DOMAIN <<key0, key1>> = 1..2  OBVIOUS
    <3>2. LeavesOf(<<key0, key1>>) = [i \in 1..2 |-> Leaf(<<key0, key1>>[i])]
      BY <3>1 DEF LeavesOf
    <3>. QED BY <3>2 DEF Leaf
  <2>. QED BY <1>5, <2>1, <2>2, TreeIs
<1>8. g.commitment = Commitment(TreeOf(<<key0, key1>>, Depth[0]), 0, Salt(1)) /\ g.epoch = 0
  BY <1>6, <1>7 DEF OneOnOne!Entry
<1>9. Fits(g, r)  BY <1>1, <1>2 DEF Fits
<1>10. Binds(g, r)  BY <1>1, <1>8 DEF Binds, DepthOf
<1>. QED BY <1>2, <1>4, <1>9, <1>10 DEF Recorded, Records, Accepted

\* The commitment of a creation does not bind the occupancy, unless the
\* creator puts it where the salt goes.
LEMMA DemocracyCreates ==
    ASSUME StoreInv, NEW id \in Ids, NEW isAdmin,
           DemocracyCreate(id, isAdmin) \/ DemocracyCreateBinding(id, isAdmin)
    PROVE  Recorded(id)
<1>1. kind = "democracy"  BY DEF DemocracyCreate, DemocracyCreateBinding
<1>2. ASSUME NEW t \in Tiers, NEW threshold \in Thresholds, NEW n \in Counts,
             NEW roster \in Buildable(Depth[t]), NEW w, NEW key,
             Democracy!CreateGroup(id, t, threshold, Occ(n),
                 Proof(Democracy!MembershipVk(t), MembershipInputs(w)), isAdmin),
             Accepted(id, roster, << >>, {key}),
             w.epoch = 0,
             \/ w.root = TreeOf(roster, Depth[t]) /\ w.salt = Salt(1)
             \/ w.root = HashTwo(TreeOf(roster, Depth[t]), Zero) /\ w.salt = Occ(n)
      PROVE  Recorded(id)
  <2>. DEFINE proof == Proof(Democracy!MembershipVk(t), MembershipInputs(w))
             g == Democracy!Entry(MembershipInputs(w)[1], 0, t, Occ(n), threshold)
             r == [members |-> roster, admins |-> << >>]
             root == TreeOf(roster, Depth[t])
  <2>1. proof.pi = MembershipInputs(w)  BY DEF Proof
  <2>2. Enters(id, g)  BY <1>1, <1>2, <2>1, DemocracySteps
  <2>3. /\ g.commitment = Commitment(w.root, 0, w.salt) /\ g.occupancy = Occ(n)
        /\ g.epoch = 0 /\ g.tier = t
    BY <1>2 DEF Democracy!Entry, MembershipInputs
  <2>4. \/ g.commitment = Commitment(root, 0, Salt(1))
        \/ g.commitment = DemocracyCommitment(root, 0, Zero, Occ(n))
    BY <1>2, <2>3 DEF DemocracyCommitment, Commitment, Zero
  <2>5. t \in 0..2  BY TypedAssumption
  <2>. HIDE DEF g
  <2>6. Fits(g, r)  BY <1>1, <2>3, <2>5 DEF Fits, DepthOf
  <2>7. Binds(g, r)  BY <1>1, <2>3, <2>4 DEF Binds, DepthOf
  <2>. QED BY <1>2, <2>2, <2>6, <2>7 DEF Recorded, Records, Accepted
<1>3. ASSUME DemocracyCreate(id, isAdmin) PROVE Recorded(id)
  <2>1. PICK t \in Tiers, threshold \in Thresholds, n \in Counts :
          \E roster \in Buildable(Depth[t]), claim \in Claims(Depth[t]) :
            LET w == Change(roster, Depth[t], 0, roster) ++ SignedBy(roster, Depth[t], claim) IN
            /\ Democracy!CreateGroup(id, t, threshold, Occ(n),
                   Proof(Democracy!MembershipVk(t), MembershipInputs(w)), isAdmin)
            /\ Accepted(id, roster, << >>, {claim[1]})
    BY <1>3 DEF DemocracyCreate
  <2>2. PICK roster, claim, w :
          /\ roster \in Buildable(Depth[t]) /\ claim \in Claims(Depth[t])
          /\ w = Change(roster, Depth[t], 0, roster) ++ SignedBy(roster, Depth[t], claim)
          /\ Democracy!CreateGroup(id, t, threshold, Occ(n),
                 Proof(Democracy!MembershipVk(t), MembershipInputs(w)), isAdmin)
          /\ Accepted(id, roster, << >>, {claim[1]})
    BY <2>1
  <2>3. w.root = TreeOf(roster, Depth[t]) /\ w.epoch = 0 /\ w.salt = Salt(1)
    BY <2>2, MemberWitness
  <2>. QED BY <1>2, <2>2, <2>3
<1>4. ASSUME DemocracyCreateBinding(id, isAdmin) PROVE Recorded(id)
  <2>1. PICK t \in Tiers, threshold \in Thresholds, n \in Counts :
          \E roster \in Buildable(Depth[t]) : \E key, path, index :
            LET w == [key |-> key, index |-> index, path |-> path,
                      root  |-> HashTwo(TreeOf(roster, Depth[t]), Zero),
                      depth |-> Depth[t], epoch |-> 0, salt |-> Occ(n)] IN
            /\ Democracy!CreateGroup(id, t, threshold, Occ(n),
                   Proof(Democracy!MembershipVk(t), MembershipInputs(w)), isAdmin)
            /\ Accepted(id, roster, << >>, {roster[Len(roster)]})
    BY <1>4 DEF DemocracyCreateBinding
  <2>2. PICK roster, key, path, index, w :
          /\ roster \in Buildable(Depth[t])
          /\ w = [key |-> key, index |-> index, path |-> path,
                  root  |-> HashTwo(TreeOf(roster, Depth[t]), Zero),
                  depth |-> Depth[t], epoch |-> 0, salt |-> Occ(n)]
          /\ Democracy!CreateGroup(id, t, threshold, Occ(n),
                 Proof(Democracy!MembershipVk(t), MembershipInputs(w)), isAdmin)
          /\ Accepted(id, roster, << >>, {roster[Len(roster)]})
    BY <2>1
  <2>3. w.root = HashTwo(TreeOf(roster, Depth[t]), Zero) /\ w.epoch = 0 /\ w.salt = Occ(n)
    BY <2>2
  <2>. QED BY <1>2, <2>2, <2>3
<1>. QED BY <1>3, <1>4

LEMMA OligarchyCreates ==
    ASSUME StoreInv, NEW id \in Ids, NEW isAdmin, OligarchyCreate(id, isAdmin)
    PROVE  Recorded(id)
<1>1. kind = "oligarchy"  BY DEF OligarchyCreate
<1>2. PICK t \in Tiers, threshold \in Thresholds, n \in Counts, m \in Counts :
        \E roster \in Buildable(Depth[t]), admins \in Buildable(AdminDepth) :
          LET w == Counting(n, n) ++ Admins(admins, admins)
                       ++ Change(roster, Depth[t], 0, roster) IN
          /\ Oligarchy!CreateOligarchyGroup(id, t, threshold, Occ(m),
                 Proof(Oligarchy!CreateVk, OligarchyCreateInputs(w)), isAdmin)
          /\ Accepted(id, roster, admins, {})
  BY DEF OligarchyCreate
<1>3. PICK roster, admins, w :
        /\ roster \in Buildable(Depth[t]) /\ admins \in Buildable(AdminDepth)
        /\ w = Counting(n, n) ++ Admins(admins, admins) ++ Change(roster, Depth[t], 0, roster)
        /\ Oligarchy!CreateOligarchyGroup(id, t, threshold, Occ(m),
               Proof(Oligarchy!CreateVk, OligarchyCreateInputs(w)), isAdmin)
        /\ Accepted(id, roster, admins, {})
  BY <1>2
<1>. DEFINE proof == Proof(Oligarchy!CreateVk, OligarchyCreateInputs(w))
           g == Oligarchy!Entry(OligarchyCreateInputs(w)[1], 0, t, Occ(m), threshold)
           r == [members |-> roster, admins |-> admins]
<1>4. /\ w.occ = Occ(n) /\ w.adminRoot = TreeOf(admins, AdminDepth)
      /\ w.root = TreeOf(roster, Depth[t]) /\ w.salt = Salt(1)
  BY <1>3, OligarchyCreateWitness
<1>5. proof.pi = OligarchyCreateInputs(w)  BY DEF Proof
<1>6. Enters(id, g)  BY <1>1, <1>3, <1>5, OligarchySteps
<1>7. Occ(n) = Occ(m)
  <2>1. proof.pi[3] = Occ(m)
    BY <1>3 DEF Oligarchy!CreateOligarchyGroup, Oligarchy!ProvedOccupancy
  <2>. QED BY <1>4, <1>5, <2>1 DEF OligarchyCreateInputs
<1>8. /\ g.commitment = OligarchyCommitment(TreeOf(roster, Depth[t]), 0, Salt(1), g.occupancy,
                                            TreeOf(admins, AdminDepth))
      /\ g.epoch = 0 /\ g.tier = t
  BY <1>4, <1>7 DEF Oligarchy!Entry, OligarchyCreateInputs
<1>9. t \in 0..2  BY TypedAssumption
<1>. HIDE DEF g
<1>10. Fits(g, r)  BY <1>1, <1>3, <1>8, <1>9 DEF Fits, DepthOf
<1>11. Binds(g, r)  BY <1>1, <1>8 DEF Binds, DepthOf
<1>12. Enters(id, g) /\ rosters' = [rosters EXCEPT ![id] = r]
  BY <1>3, <1>6 DEF Accepted
<1>. QED BY <1>10, <1>11, <1>12 DEF Recorded, Records

\* What an update of a democracy replaces: the caller's tree, epoch and
\* occupancy are those of the entry.
LEMMA DemocracyOld ==
    ASSUME BindInv, NEW id \in Ids, Exists(id), kind = "democracy",
           NEW root, NEW epoch, NEW salt, NEW n,
           DemocracyCommitment(root, epoch, salt, Occ(n)) = Stored(id).commitment
    PROVE  LET d == Depth[Stored(id).tier]
               tree == rosters[id].members
           IN  /\ Stored(id).tier \in 0..2 /\ d \in DepthsInUse
               /\ tree \in Rosters /\ root = TreeOf(tree, d)
<1>. DEFINE g == Stored(id)
           d == Depth[g.tier]
           tree == rosters[id].members
<1>1. Fits(g, rosters[id]) /\ Binds(g, rosters[id])  BY DEF BindInv
<1>2. g.tier \in 0..2 /\ d \in DepthsInUse /\ tree \in Rosters
  BY <1>1, DepthFacts DEF Fits, DepthOf, Buildable
<1>3. \/ \E s : g.commitment = DemocracyCommitment(TreeOf(tree, d), g.epoch, s, g.occupancy)
      \/ g.commitment = Commitment(TreeOf(tree, d), 0, Salt(1))
  BY <1>1 DEF Binds, DepthOf
<1>4. Occ(n) # Salt(1)  BY DEF Occ, Occupancy, HashTwo, Salt
<1>5. g.commitment # Commitment(TreeOf(tree, d), 0, Salt(1))
  BY <1>4 DEF DemocracyCommitment, Commitment, HashTwo
<1>6. root = TreeOf(tree, d)
  BY <1>3, <1>5 DEF DemocracyCommitment, Commitment, HashTwo
<1>. QED BY <1>2, <1>6

LEMMA DemocracyUpdates ==
    ASSUME StoreInv, BindInv, NEW id \in Ids, Exists(id),
           DemocracyUpdateQuorum(id) \/ DemocracyUpdateDeep(id)
    PROVE  Recorded(id) /\ Authorised(id)
<1>1. kind = "democracy"  BY DEF DemocracyUpdateQuorum, DemocracyUpdateDeep
<1>. DEFINE old == Stored(id)
           d   == Depth[old.tier]
           tree == rosters[id].members
           Left(inputs, new, keys) ==
               /\ Democracy!UpdateCommitment(id, Proof(Democracy!UpdateVk(old.tier), inputs))
               /\ Accepted(id, new, << >>, keys)
<1>2. ASSUME NEW inputs, NEW new \in Buildable(d), NEW keys, NEW epoch, NEW occ,
             old.tier \in 0..2, Left(inputs, new, keys), inputs[2] = Num(epoch),
             inputs[3] = DemocracyCommitment(TreeOf(new, d), epoch + 1, Salt(1), occ),
             inputs[5] = occ
      PROVE  Recorded(id)
  <2>. DEFINE proof == Proof(Democracy!UpdateVk(old.tier), inputs)
             g == Democracy!Entry(inputs[3], old.epoch + 1, old.tier, inputs[5], old.threshold)
             r == [members |-> new, admins |-> << >>]
  <2>1. proof.pi = inputs  BY DEF Proof
  <2>2. Enters(id, g)  BY <1>1, <1>2, <2>1, DemocracySteps
  <2>3. epoch = old.epoch
    <3>1. proof.pi[2] = Democracy!Num(old.epoch)
      BY <1>2, DemocracySame DEF Democracy!UpdateCommitment
    <3>. QED BY <1>2, <2>1, <3>1 DEF Num, Democracy!Num
  <2>4. /\ g.commitment = DemocracyCommitment(TreeOf(new, d), old.epoch + 1, Salt(1), occ)
        /\ g.epoch = old.epoch + 1 /\ g.tier = old.tier /\ g.occupancy = occ
    BY <1>2, <2>3 DEF Democracy!Entry
  <2>. HIDE DEF g
  <2>5. Fits(g, r)  BY <1>1, <1>2, <2>4 DEF Fits, DepthOf
  <2>6. Binds(g, r)  BY <1>1, <2>4 DEF Binds, DepthOf
  <2>. QED BY <1>2, <2>2, <2>5, <2>6 DEF Recorded, Records, Accepted
<1>3. ASSUME DemocracyUpdateQuorum(id) PROVE Recorded(id) /\ Authorised(id)
  <2>1. PICK roster, epoch, salt, n :
          /\ DemocracyCommitment(TreeOf(roster, d), epoch, salt, Occ(n)) = old.commitment
          /\ \E claims \in ClaimsOfAll(d), threshold \in Thresholds :
               LET slots == Slots(roster, d, claims) IN
               /\ Quorum(slots, TreeOf(roster, d), threshold, d)
               /\ \E new \in Buildable(d), nNew \in Counts :
                    LET w == [signers |-> slots, threshold |-> threshold, salt |-> salt]
                                 ++ Counting(n, nNew) ++ Change(roster, d, epoch, new) IN
                    Left(DemocracyUpdateQuorumInputs(w), new, KeysOf(claims))
    BY <1>3 DEF DemocracyUpdateQuorum
  <2>2. PICK claims \in ClaimsOfAll(d), threshold \in Thresholds :
          /\ Quorum(Slots(roster, d, claims), TreeOf(roster, d), threshold, d)
          /\ \E new \in Buildable(d), nNew \in Counts :
               LET w == [signers |-> Slots(roster, d, claims), threshold |-> threshold,
                         salt |-> salt]
                            ++ Counting(n, nNew) ++ Change(roster, d, epoch, new) IN
               Left(DemocracyUpdateQuorumInputs(w), new, KeysOf(claims))
    BY <2>1
  <2>3. PICK new, nNew, w :
          /\ new \in Buildable(d)
          /\ w = [signers |-> Slots(roster, d, claims), threshold |-> threshold, salt |-> salt]
                     ++ Counting(n, nNew) ++ Change(roster, d, epoch, new)
          /\ Left(DemocracyUpdateQuorumInputs(w), new, KeysOf(claims))
    BY <2>2
  <2>4. /\ old.tier \in 0..2 /\ d \in DepthsInUse
        /\ tree \in Rosters /\ TreeOf(roster, d) = TreeOf(tree, d)
    BY <1>1, <2>1, DemocracyOld
  <2>. DEFINE inputs == DemocracyUpdateQuorumInputs(w)
             occ == Occupancy(nNew, Salt(1))
  <2>5. /\ w.threshold = threshold /\ w.epoch = epoch /\ w.rootNew = TreeOf(new, d)
        /\ w.saltNew = Salt(1) /\ w.countNew = nNew /\ w.saltOcNew = Salt(1)
    BY <2>3, QuorumWitness
  <2>6. /\ inputs[2] = Num(epoch) /\ inputs[5] = occ /\ inputs[6] = Num(threshold)
        /\ inputs[3] = DemocracyCommitment(TreeOf(new, d), epoch + 1, Salt(1), occ)
    BY <2>5 DEF DemocracyUpdateQuorumInputs
  <2>7. Recorded(id)
    <3>1. Left(inputs, new, KeysOf(claims))  BY <2>3
    <3>. HIDE DEF inputs, occ
    <3>. QED BY <1>2, <2>3, <2>4, <2>6, <3>1
  <2>8. threshold = old.threshold
    <3>1. Proof(Democracy!UpdateVk(old.tier), inputs).pi = inputs  BY DEF Proof
    <3>2. inputs[6] = Democracy!Num(old.threshold)
      BY <2>3, <3>1, DemocracySame DEF Democracy!UpdateCommitment
    <3>. QED BY <2>6, <3>2 DEF Num, Democracy!Num
  <2>9. /\ KeysOf(claims) \subseteq {tree[i] : i \in DOMAIN tree}
        /\ Cardinality(KeysOf(claims)) >= threshold
    <3>. HIDE DEF d, tree
    <3>. QED BY <2>2, <2>4, QuorumVoters
  <2>10. old.tier < 2  BY <1>3 DEF DemocracyUpdateQuorum
  <2>11. signers' = KeysOf(claims)  BY <2>3 DEF Accepted
  <2>. QED BY <1>1, <2>7, <2>8, <2>9, <2>10, <2>11 DEF Authorised, Voters, SignersNeeded
<1>4. ASSUME DemocracyUpdateDeep(id) PROVE Recorded(id) /\ Authorised(id)
  <2>1. PICK roster, epoch, salt, n :
          /\ DemocracyCommitment(TreeOf(roster, d), epoch, salt, Occ(n)) = old.commitment
          /\ \E claim \in Claims(d), threshold \in Thresholds, new \in Buildable(d),
                nNew \in Counts :
               LET w == [threshold |-> threshold, salt |-> salt] ++ SignedBy(roster, d, claim)
                            ++ Counting(n, nNew) ++ Change(roster, d, epoch, new) IN
               /\ DemocracyUpdateHolds(w)
               /\ Left(DemocracyUpdateInputs(w), new, {claim[1]})
    BY <1>4 DEF DemocracyUpdateDeep
  <2>2. PICK claim, threshold, new, nNew, w :
          /\ claim \in Claims(d) /\ new \in Buildable(d)
          /\ w = [threshold |-> threshold, salt |-> salt] ++ SignedBy(roster, d, claim)
                     ++ Counting(n, nNew) ++ Change(roster, d, epoch, new)
          /\ DemocracyUpdateHolds(w)
          /\ Left(DemocracyUpdateInputs(w), new, {claim[1]})
    BY <2>1
  <2>3. /\ old.tier \in 0..2 /\ d \in DepthsInUse
        /\ tree \in Rosters /\ TreeOf(roster, d) = TreeOf(tree, d)
    BY <1>1, <2>1, DemocracyOld
  <2>. DEFINE inputs == DemocracyUpdateInputs(w)
  <2>4. /\ w.root = TreeOf(roster, d) /\ w.depth = d /\ w.epoch = epoch
        /\ w.rootNew = TreeOf(new, d) /\ w.saltNew = Salt(1) /\ w.occNew = Occ(nNew)
        /\ w.key = Secret(claim[1]) /\ w.index = claim[2]
    BY <2>2, DeepWitness
  <2>5. /\ inputs[2] = Num(epoch) /\ inputs[5] = Occ(nNew)
        /\ inputs[3] = DemocracyCommitment(TreeOf(new, d), epoch + 1, Salt(1), Occ(nNew))
    BY <2>4 DEF DemocracyUpdateInputs
  <2>6. Recorded(id)
    <3>1. Left(inputs, new, {claim[1]})  BY <2>2
    <3>. HIDE DEF inputs
    <3>. QED BY <1>2, <2>2, <2>3, <2>5, <3>1
  <2>7. /\ {claim[1]} \subseteq {tree[i] : i \in DOMAIN tree}
        /\ Cardinality({claim[1]}) = 1
    <3>1. w.index \in Nat  BY <2>2, <2>4 DEF Claims
    <3>2. OneSigns(w)  BY <2>2 DEF DemocracyUpdateHolds
    <3>3. tree \in Trees  BY <2>3 DEF Trees
    <3>. HIDE DEF d, tree
    <3>. QED BY <2>3, <2>4, <3>1, <3>2, <3>3, OneVoter
  <2>8. old.tier = 2  BY <1>4 DEF DemocracyUpdateDeep
  <2>9. signers' = {claim[1]}  BY <2>2 DEF Accepted
  <2>. QED BY <1>1, <2>6, <2>7, <2>8, <2>9 DEF Authorised, Voters, SignersNeeded
<1>. QED BY <1>3, <1>4

LEMMA OligarchyUpdates ==
    ASSUME StoreInv, BindInv, NEW id \in Ids, Exists(id), OligarchyUpdate(id)
    PROVE  Recorded(id) /\ Authorised(id)
<1>1. kind = "oligarchy"  BY DEF OligarchyUpdate
<1>. DEFINE old == Stored(id)
           d   == Depth[old.tier]
           tree == rosters[id].admins
           Left(inputs, new, adminsNew, keys) ==
               /\ Oligarchy!UpdateCommitment(id, Proof(Oligarchy!UpdateVk, inputs))
               /\ Accepted(id, new, adminsNew, keys)
<1>2. PICK roster, admins, epoch, n :
        /\ OligarchyCommitment(TreeOf(roster, d), epoch, Salt(1), Occ(n),
                               TreeOf(admins, AdminDepth)) = old.commitment
        /\ \E claims \in ClaimsOfAll(AdminDepth), threshold \in Thresholds :
             LET slots == Slots(admins, AdminDepth, claims) IN
             /\ Quorum(slots, TreeOf(admins, AdminDepth), threshold, AdminDepth)
             /\ \E new \in Buildable(d), adminsNew \in Buildable(AdminDepth), nNew \in Counts :
                  LET w == [signers |-> slots, threshold |-> threshold, depth |-> AdminDepth]
                               ++ Counting(n, nNew) ++ Admins(admins, adminsNew)
                               ++ Change(roster, d, epoch, new) IN
                  Left(OligarchyUpdateQuorumInputs(w), new, adminsNew, KeysOf(claims))
  BY DEF OligarchyUpdate
<1>3. PICK claims \in ClaimsOfAll(AdminDepth), threshold \in Thresholds :
        /\ Quorum(Slots(admins, AdminDepth, claims), TreeOf(admins, AdminDepth), threshold,
                  AdminDepth)
        /\ \E new \in Buildable(d), adminsNew \in Buildable(AdminDepth), nNew \in Counts :
             LET w == [signers |-> Slots(admins, AdminDepth, claims), threshold |-> threshold,
                       depth |-> AdminDepth]
                          ++ Counting(n, nNew) ++ Admins(admins, adminsNew)
                          ++ Change(roster, d, epoch, new) IN
             Left(OligarchyUpdateQuorumInputs(w), new, adminsNew, KeysOf(claims))
  BY <1>2
<1>4. PICK new, adminsNew, nNew, w :
        /\ new \in Buildable(d) /\ adminsNew \in Buildable(AdminDepth)
        /\ w = [signers |-> Slots(admins, AdminDepth, claims), threshold |-> threshold,
                depth |-> AdminDepth]
                   ++ Counting(n, nNew) ++ Admins(admins, adminsNew)
                   ++ Change(roster, d, epoch, new)
        /\ Left(OligarchyUpdateQuorumInputs(w), new, adminsNew, KeysOf(claims))
  BY <1>3
<1>5. /\ old.tier \in 0..2 /\ tree \in Rosters
      /\ TreeOf(admins, AdminDepth) = TreeOf(tree, AdminDepth)
  <2>1. Fits(old, rosters[id]) /\ Binds(old, rosters[id])  BY DEF BindInv
  <2>. QED
    BY <1>1, <1>2, <2>1
       DEF Fits, Binds, DepthOf, Buildable, OligarchyCommitment, HashTwo
<1>. DEFINE inputs == OligarchyUpdateQuorumInputs(w)
           proof == Proof(Oligarchy!UpdateVk, inputs)
           occ == Occupancy(nNew, Salt(1))
           g == Oligarchy!Entry(inputs[3], old.epoch + 1, old.tier, inputs[5], old.threshold)
           r == [members |-> new, admins |-> adminsNew]
<1>6. /\ w.threshold = threshold /\ w.epoch = epoch /\ w.rootNew = TreeOf(new, d)
      /\ w.saltNew = Salt(1) /\ w.countNew = nNew /\ w.saltOcNew = Salt(1)
      /\ w.adminRootNew = TreeOf(adminsNew, AdminDepth)
  BY <1>4, OligarchyWitness
<1>7. /\ inputs[2] = Num(epoch) /\ inputs[5] = occ /\ inputs[6] = Num(threshold)
      /\ inputs[3] = OligarchyCommitment(TreeOf(new, d), epoch + 1, Salt(1), occ,
                                         TreeOf(adminsNew, AdminDepth))
  BY <1>6 DEF OligarchyUpdateQuorumInputs
<1>8. proof.pi = inputs  BY DEF Proof
<1>9. Oligarchy!UpdateCommitment(id, proof)  BY <1>4
<1>. HIDE DEF inputs, occ
<1>10. Enters(id, g)
  <2>. HIDE DEF proof
  <2>. QED BY <1>1, <1>8, <1>9, OligarchySteps
<1>11. epoch = old.epoch /\ threshold = old.threshold
  <2>1. proof.pi[2] = Oligarchy!Num(old.epoch) /\ proof.pi[6] = Oligarchy!Num(old.threshold)
    BY <1>9, OligarchySame DEF Oligarchy!UpdateCommitment
  <2>. QED BY <1>7, <1>8, <2>1 DEF Num, Oligarchy!Num
<1>12. /\ g.commitment = OligarchyCommitment(TreeOf(new, d), old.epoch + 1, Salt(1), occ,
                                             TreeOf(adminsNew, AdminDepth))
       /\ g.epoch = old.epoch + 1 /\ g.tier = old.tier /\ g.occupancy = occ
  BY <1>7, <1>11 DEF Oligarchy!Entry
<1>. HIDE DEF g
<1>13. Fits(g, r)  BY <1>1, <1>4, <1>5, <1>12 DEF Fits, DepthOf
<1>14. Binds(g, r)  BY <1>1, <1>12 DEF Binds, DepthOf
<1>15. rosters' = [rosters EXCEPT ![id] = r] /\ signers' = KeysOf(claims)
  BY <1>4 DEF Accepted
<1>16. Recorded(id)  BY <1>10, <1>13, <1>14, <1>15 DEF Recorded, Records
<1>17. /\ KeysOf(claims) \subseteq {tree[i] : i \in DOMAIN tree}
       /\ Cardinality(KeysOf(claims)) >= threshold
  <2>. HIDE DEF tree
  <2>. QED BY <1>3, <1>5, DepthFacts, QuorumVoters
<1>. QED BY <1>1, <1>11, <1>15, <1>16, <1>17 DEF Authorised, Voters, SignersNeeded

LEMMA CreateRecords ==
    ASSUME StoreInv, NEW id \in Ids, Create(id)
    PROVE  Recorded(id)
BY AnarchyCreates, TyrannyCreates, OneOnOneCreates, DemocracyCreates, OligarchyCreates
   DEF Create

LEMMA UpdateRecords ==
    ASSUME StoreInv, BindInv, NEW id \in Ids, Update(id)
    PROVE  Exists(id) /\ Recorded(id) /\ Authorised(id)
BY AnarchyUpdates, TyrannyUpdates, DemocracyUpdates, OligarchyUpdates DEF Update

\* What a step does to the entry of a group that is there after it.
LEMMA EntryStep ==
    ASSUME StoreInv, BindInv, [Next]_vars
    PROVE  /\ kind' = kind /\ DOMAIN rosters' = Ids
           /\ \A x \in Ids : Exists(x)' =>
                \/ Exists(x) /\ Stored(x)' = Stored(x) /\ rosters'[x] = rosters[x]
                \/ /\ Recorded(x)
                   /\ Exists(x) => /\ kind # "oneonone" /\ Authorised(x)
                                   /\ Stored(x)'.epoch = Stored(x).epoch + 1
<1>. DEFINE Kept(x) == Exists(x)' => /\ Exists(x) /\ Stored(x)' = Stored(x)
                                    /\ rosters'[x] = rosters[x]
           Changed(x) == /\ Recorded(x)
                         /\ Exists(x) => /\ kind # "oneonone" /\ Authorised(x)
                                         /\ Stored(x)'.epoch = Stored(x).epoch + 1
<1>1. kind' = kind  BY StepFacts DEF StepKind
<1>2. DOMAIN rosters = Ids  BY DEF BindInv
<1>3. ASSUME NEW id \in Ids, Recorded(id), OthersStay(id)
      PROVE  DOMAIN rosters' = Ids /\ \A x \in Ids : x # id => Kept(x)
  <2>1. PICK r : rosters' = [rosters EXCEPT ![id] = r]
    BY <1>3 DEF Recorded, Records
  <2>2. DOMAIN rosters' = Ids /\ \A x \in Ids : x # id => rosters'[x] = rosters[x]
    BY <1>2, <2>1
  <2>3. ASSUME NEW x \in Ids, x # id PROVE AgreeAt(store, store', Group(x))
    BY <1>3, <2>3, EntriesFacts DEF OthersStay
  <2>. QED BY <2>2, <2>3 DEF AgreeAt, Exists, Stored, Has
<1>4. ASSUME NEW id \in Ids, Create(id)
      PROVE  DOMAIN rosters' = Ids /\ \A x \in Ids : Kept(x) \/ Changed(x)
  <2>1. Founds(id) /\ Recorded(id)  BY <1>4, CreateFacts, CreateRecords
  <2>2. ~Exists(id) /\ OthersStay(id)  BY <2>1 DEF Founds
  <2>. QED BY <1>3, <2>1, <2>2
<1>5. ASSUME NEW id \in Ids, Update(id)
      PROVE  DOMAIN rosters' = Ids /\ \A x \in Ids : Kept(x) \/ Changed(x)
  <2>1. Advances(id) /\ Recorded(id) /\ Authorised(id)
    BY <1>5, UpdateFacts, UpdateRecords
  <2>2. /\ kind # "oneonone" /\ OthersStay(id)
        /\ Stored(id)'.epoch = Stored(id).epoch + 1
    BY <2>1 DEF Advances, Stored
  <2>. QED BY <1>3, <2>1, <2>2
<1>6. ASSUME Stays \/ Expires, rosters' = rosters
      PROVE  DOMAIN rosters' = Ids /\ \A x \in Ids : Kept(x)
  BY <1>2, <1>6, EntriesFacts DEF Stays, Expires, Exists, Stored
<1>7. ASSUME NEW id \in Ids, BumpGroupTtl(id) PROVE Stays /\ rosters' = rosters
  BY <1>7, AnarchySteps, TyrannySteps, OneOnOneSteps, DemocracySteps, OligarchySteps
     DEF BumpGroupTtl, Unsigned
<1>8. ASSUME store' = store PROVE Stays
  BY <1>1, <1>8 DEF StoreInv, Stays
<1>9. CASE CloseLedger /\ Unsigned
  BY <1>1, <1>6, <1>9, ClosingStep DEF Unsigned
<1>10. CASE SetRestrictedMode /\ Unsigned
  BY <1>1, <1>6, <1>8, <1>10 DEF SetRestrictedMode, Unsigned
<1>11. CASE UNCHANGED vars
  BY <1>1, <1>6, <1>8, <1>11 DEF vars
<1>12. CASE \E id \in Ids : Create(id) \/ Update(id) \/ BumpGroupTtl(id)
  BY <1>1, <1>4, <1>5, <1>6, <1>7, <1>12
<1>. QED BY <1>1, <1>9, <1>10, <1>11, <1>12 DEF Next

LEMMA BindInvStep ==
    ASSUME StoreInv, BindInv, [Next]_vars
    PROVE  BindInv'
<1>1. kind' = kind /\ DOMAIN rosters' = Ids  BY EntryStep
<1>2. ASSUME NEW x \in Ids, Exists(x)'
      PROVE  Fits(Stored(x), rosters[x])' /\ Binds(Stored(x), rosters[x])'
  <2>1. CASE Exists(x) /\ Stored(x)' = Stored(x) /\ rosters'[x] = rosters[x]
    <3>1. Fits(Stored(x), rosters[x]) /\ Binds(Stored(x), rosters[x])  BY <2>1 DEF BindInv
    <3>2. Fits(Stored(x), rosters[x])'  BY <1>1, <2>1, <3>1 DEF Fits, DepthOf
    <3>3. Binds(Stored(x), rosters[x])'  BY <1>1, <2>1, <3>1 DEF Binds, DepthOf
    <3>. QED BY <3>2, <3>3
  <2>2. CASE Recorded(x)
    <3>1. PICK g, r : Records(x, g, r)  BY <2>2 DEF Recorded
    <3>2. Stored(x)' = g  BY <3>1 DEF Records, Enters, Stored
    <3>3. DOMAIN rosters = Ids /\ rosters' = [rosters EXCEPT ![x] = r]
      BY <3>1 DEF BindInv, Records
    <3>4. rosters'[x] = r  BY <3>3
    <3>5. Fits(g, r) /\ Binds(g, r)  BY <3>1 DEF Records
    <3>6. Fits(Stored(x), rosters[x])'  BY <1>1, <3>2, <3>4, <3>5 DEF Fits, DepthOf
    <3>7. Binds(Stored(x), rosters[x])'  BY <1>1, <3>2, <3>4, <3>5 DEF Binds, DepthOf
    <3>. QED BY <3>6, <3>7
  <2>. QED BY <1>2, <2>1, <2>2, EntryStep
<1>. QED BY <1>1, <1>2 DEF BindInv

(***************************************************************************)
(* BindInv holds for ever: the trees of a group's last accepted call fit,  *)
(* and the commitment in its entry binds them.                             *)
(***************************************************************************)
THEOREM RecordsAreBound == Spec => []BindInv
<1>1. Init => BindInv
  BY DEF Init, BindInv, Exists, Has, EmptyStorage
<1>2. StoreInv /\ BindInv /\ [Next]_vars => BindInv'
  BY BindInvStep
<1>. QED BY <1>1, <1>2, TypedStorage, PTL DEF Spec

(***************************************************************************)
(* CommitmentBindsRecord, for any trees, thresholds and counts.            *)
(***************************************************************************)
THEOREM CommitmentBindsRecordAlways == Spec => []CommitmentBindsRecord
<1>1. BindInv => CommitmentBindsRecord
  BY DEF BindInv, Binds, DepthOf, CommitmentBindsRecord
<1>. QED BY <1>1, RecordsAreBound, PTL

(***************************************************************************)
(* ChangesAreAuthorised, for trees of any depth: the old commitment fixes  *)
(* the root, a path to the root fixes the leaf, and nobody has two leaves. *)
(***************************************************************************)
THEOREM ChangesAreAuthorisedAlways == Spec => ChangesAreAuthorised
<1>. DEFINE Step ==
        \A id \in Ids : (Exists(id) /\ Exists(id)' /\ Stored(id)' # Stored(id)) =>
            LET g == Stored(id)
                voters == IF kind = "oligarchy" THEN rosters[id].admins ELSE rosters[id].members
            IN  /\ kind # "oneonone"
                /\ Stored(id)'.epoch = g.epoch + 1
                /\ signers' \subseteq {voters[i] : i \in DOMAIN voters}
                /\ Cardinality(signers') >= SignersNeeded(g)
                /\ kind = "tyranny" =>
                     \A k \in signers' :
                        store[AdminCommitment(id)].v = AdminBinding(Secret(k), GroupFr[id])
<1>1. StoreInv /\ BindInv /\ [Next]_vars => [Step]_vars
  <2>. SUFFICES ASSUME StoreInv, BindInv, [Next]_vars, NEW id \in Ids,
                      Exists(id), Exists(id)', Stored(id)' # Stored(id)
               PROVE  /\ kind # "oneonone" /\ Authorised(id)
                      /\ Stored(id)'.epoch = Stored(id).epoch + 1
    BY DEF Authorised, Voters
  <2>. QED BY EntryStep
<1>. QED BY <1>1, TypedStorage, RecordsAreBound, PTL DEF Spec, ChangesAreAuthorised

\* The fields of a membership proof's witness.
LEMMA ProofFields ==
    ASSUME NEW id, NEW index, NEW w, w = MembershipProof(id, index)
    PROVE  LET g == Stored(id)
               d == DepthOf(g)
               r == rosters[id]
           IN  /\ w.root = TreeOf(r.members, d) /\ w.depth = d /\ w.epoch = g.epoch
               /\ w.salt = Salt(1)
               /\ w.key = Secret(r.members[index]) /\ w.index = index - 1
               /\ w.path = PathOf(r.members, d, index - 1)
               /\ kind = "oligarchy" =>
                    /\ w.occ = g.occupancy
                    /\ w.adminRoot = TreeOf(r.admins, AdminDepth)
<1>. DEFINE g == Stored(id)
           d == DepthOf(g)
           r == rosters[id]
           v == Change(r.members, d, g.epoch, r.members)
                  ++ SignedBy(r.members, d, <<r.members[index], index - 1>>)
           e == IF kind = "oligarchy"
                THEN Admins(r.admins, r.admins) ++ [occ |-> g.occupancy] ELSE << >>
<1>1. w = v ++ e  BY DEF MembershipProof, DepthOf
<1>2. /\ v.root = TreeOf(r.members, d) /\ v.depth = d /\ v.epoch = g.epoch
      /\ v.salt = Salt(1)
      /\ v.key = Secret(r.members[index]) /\ v.index = index - 1
      /\ v.path = PathOf(r.members, d, index - 1)
  BY DEF ++, Change, SignedBy
<1>3. DOMAIN v = {"root", "depth", "epoch", "salt", "rootNew", "saltNew", "key", "path", "index"}
  BY DEF ++, Change, SignedBy
<1>. HIDE DEF v
<1>4. \A x \in DOMAIN v : w[x] = v[x]  BY <1>1 DEF ++
<1>5. ASSUME kind = "oligarchy"
      PROVE  w.occ = g.occupancy /\ w.adminRoot = TreeOf(r.admins, AdminDepth)
  <2>1. e = Admins(r.admins, r.admins) ++ [occ |-> g.occupancy]  BY <1>5
  <2>2. /\ e.occ = g.occupancy /\ e.adminRoot = TreeOf(r.admins, AdminDepth)
        /\ "occ" \in DOMAIN e /\ "adminRoot" \in DOMAIN e
    BY <2>1 DEF ++, Admins
  <2>. HIDE DEF e
  <2>. QED BY <1>1, <1>3, <2>2 DEF ++
<1>. QED BY <1>2, <1>3, <1>4, <1>5

(***************************************************************************)
(* MembersCanProve, for trees of any depth: the path that the tree gives   *)
(* for a member leads to the root in the group's commitment.               *)
(***************************************************************************)
THEOREM MembersCanProveAlways == Spec => []MembersCanProve
<1>1. StoreInv /\ BindInv => MembersCanProve
  <2>. SUFFICES ASSUME StoreInv, BindInv, NEW id \in Ids, Exists(id), kind # "democracy",
                      NEW index \in DOMAIN rosters[id].members, NEW w,
                      w = MembershipProof(id, index)
               PROVE  CASE kind = "oligarchy" ->
                        /\ OligarchyMembershipHolds(w)
                        /\ Oligarchy!VerifyMembership(id,
                               <<"oligarchyMembership", Stored(id).tier>>,
                               OligarchyMembershipInputs(w))
                  [] kind = "anarchy" ->
                        /\ MembershipHolds(w)
                        /\ Anarchy!VerifyMembership(id,
                               <<"membership", Stored(id).tier>>, MembershipInputs(w))
                  [] kind = "tyranny" ->
                        /\ MembershipHolds(w)
                        /\ Tyranny!VerifyMembership(id,
                               <<"membership", Stored(id).tier>>, MembershipInputs(w))
                  [] kind = "oneonone" ->
                        /\ MembershipHolds(w)
                        /\ OneOnOne!VerifyMembership(id, <<"membership", 0>>, MembershipInputs(w))
    BY DEF MembersCanProve
  <2>. DEFINE g == Stored(id)
             d == DepthOf(g)
             r == rosters[id]
  <2>1. Fits(g, r) /\ Binds(g, r)  BY DEF BindInv
  <2>2. d \in DepthsInUse /\ r.members \in Trees /\ Len(r.members) <= 2^d
    <3>1. CASE kind = "oneonone"
      <4>1. r.members \in Keys \X Keys /\ d = Depth[0]
        BY <2>1, <3>1 DEF Fits, DepthOf
      <4>2. PICK n \in Nat : d = n + 1 /\ d \in DepthsInUse
        <5>1. d \in Nat \ {0} /\ d \in DepthsInUse  BY <4>1, DepthFacts
        <5>2. d - 1 \in Nat /\ d = (d - 1) + 1  BY <5>1
        <5>. QED BY <5>1, <5>2
      <4>3. 2^(n + 1) = 2 * 2^n /\ 2^n \in Nat /\ 2^n >= 1
        BY PowersOfTwo
      <4>4. Len(r.members) = 2
        <5>1. PICK a \in Keys, b \in Keys : r.members = <<a, b>>  BY <4>1
        <5>. QED BY <5>1
      <4>5. 2^d >= 2
        <5>1. PICK x \in Nat : x = 2^n /\ x >= 1 /\ 2^d = 2 * x  BY <4>2, <4>3
        <5>. QED BY <5>1
      <4>. QED BY <4>1, <4>2, <4>4, <4>5 DEF Trees
    <3>2. CASE kind # "oneonone"
      BY <2>1, <3>2, DepthFacts DEF Fits, DepthOf, Buildable, Trees
    <3>. QED BY <3>1, <3>2
  <2>3. /\ w.root = TreeOf(r.members, d) /\ w.depth = d /\ w.epoch = g.epoch
        /\ w.salt = Salt(1)
        /\ w.key = Secret(r.members[index]) /\ w.index = index - 1
        /\ w.path = PathOf(r.members, d, index - 1)
        /\ kind = "oligarchy" =>
             w.occ = g.occupancy /\ w.adminRoot = TreeOf(r.admins, AdminDepth)
    BY ProofFields
  <2>4. OneSigns(w)
    <3>1. /\ ValidPath(PathOf(r.members, d, index - 1), index - 1, d)
          /\ Opens(Secret(r.members[index]), PathOf(r.members, d, index - 1), index - 1,
                   TreeOf(r.members, d))
      <4>. HIDE DEF d, g
      <4>. QED BY <2>2, MemberOpens
    <3>. QED BY <2>3, <3>1 DEF OneSigns
  <2>5. CASE kind = "oligarchy"
    <3>1. OligarchyMembershipInputs(w) = <<g.commitment, Num(g.epoch)>>
      BY <2>1, <2>3, <2>5 DEF Binds, OligarchyMembershipInputs
    <3>2. OligarchyMembershipHolds(w)  BY <2>4 DEF OligarchyMembershipHolds
    <3>3. Oligarchy!VerifyMembership(id, <<"oligarchyMembership", g.tier>>,
                                     OligarchyMembershipInputs(w))
      BY <3>1, OligarchySame
         DEF Oligarchy!VerifyMembership, Oligarchy!MembershipVk, Oligarchy!Num, Num
    <3>. QED BY <2>5, <3>2, <3>3
  <2>6. kind # "oligarchy" =>
            MembershipHolds(w) /\ MembershipInputs(w) = <<g.commitment, Num(g.epoch)>>
    BY <2>1, <2>3, <2>4 DEF Binds, MembershipHolds, MembershipInputs
  <2>7. CASE kind = "anarchy"
    <3>1. Anarchy!VerifyMembership(id, <<"membership", g.tier>>, MembershipInputs(w))
      BY <2>6, <2>7, AnarchySame
         DEF Anarchy!VerifyMembership, Anarchy!MembershipVk, Anarchy!Num, Num
    <3>. QED BY <2>6, <2>7, <3>1
  <2>8. CASE kind = "tyranny"
    <3>1. Tyranny!VerifyMembership(id, <<"membership", g.tier>>, MembershipInputs(w))
      BY <2>6, <2>8, TyrannySame
         DEF Tyranny!VerifyMembership, Tyranny!MembershipVk, Tyranny!Num, Num
    <3>. QED BY <2>6, <2>8, <3>1
  <2>9. CASE kind = "oneonone"
    <3>1. OneOnOne!VerifyMembership(id, <<"membership", 0>>, MembershipInputs(w))
      BY <2>6, <2>9, OneOnOneSame
         DEF OneOnOne!VerifyMembership, OneOnOne!MembershipVk, OneOnOne!Num, Num
    <3>. QED BY <2>6, <2>9, <3>1
  <2>10. kind \in {"oligarchy", "anarchy", "tyranny", "oneonone"}
    BY RegistryAssumption DEF StoreInv
  <2>. QED BY <2>5, <2>7, <2>8, <2>9, <2>10
<1>. QED BY <1>1, TypedStorage, RecordsAreBound, PTL
===============================================================================
