---------------------------- MODULE SorobanStorage ----------------------------
(***************************************************************************)
(* Soroban's persistent storage as the contracts of this repository use    *)
(* it: a map from keys to values, each entry with the number of ledgers it *)
(* has left to live.  An entry whose time has run out is gone, which is    *)
(* how sep-xxxx's reconcile_tier_count and its tests treat expiry.  A      *)
(* storage is a function from the keys it holds to [v, ttl] records.       *)
(***************************************************************************)
EXTENDS Naturals, TLAPS

CONSTANT MinTtl     \* the network's minimum time to live of a new entry

ASSUME MinTtlAssumption == MinTtl \in Nat \ {0}

EmptyStorage == [k \in {} |-> [v |-> 0, ttl |-> 0]]

Has(s, k) == k \in DOMAIN s

Get(s, k, default) == IF Has(s, k) THEN s[k].v ELSE default

\* A new entry gets the minimum time to live; an old one keeps what it has.
Set(s, k, val) ==
    [q \in DOMAIN s \cup {k} |->
        IF q = k THEN [v |-> val, ttl |-> IF Has(s, k) THEN s[k].ttl ELSE MinTtl]
                 ELSE s[q]]

RemoveEntry(s, k) == [q \in DOMAIN s \ {k} |-> s[q]]

\* extend_ttl acts on an entry with less than `threshold` left, and never
\* shortens a life.
Extended(ttl, threshold, to) ==
    IF ttl < threshold /\ ttl < to THEN to ELSE ttl

\* extend_ttl on those of the keys that are there.
ExtendIn(s, keys, threshold, to) ==
    [k \in DOMAIN s |->
        IF k \in keys THEN [s[k] EXCEPT !.ttl = Extended(@, threshold, to)] ELSE s[k]]

\* One ledger passes.
Age(s) ==
    [k \in {q \in DOMAIN s : s[q].ttl > 1} |-> [s[k] EXCEPT !.ttl = @ - 1]]

-------------------------------------------------------------------------------
(* What each operation does to each key, for the proofs about every        *)
(* contract.                                                               *)

\* Every entry is a value with a time to live.
Shaped(s) == \A k \in DOMAIN s : s[k] = [v |-> s[k].v, ttl |-> s[k].ttl]

\* Two storages agree at a key: both have the same entry there, or neither has one.
AgreeAt(s, s2, k) == (Has(s2, k) <=> Has(s, k)) /\ (Has(s, k) => s2[k] = s[k])

LEMMA EmptyIsShaped == Shaped(EmptyStorage)
BY DEF Shaped, EmptyStorage

(***************************************************************************)
(* Writing a key.                                                          *)
(***************************************************************************)
LEMMA SetFacts ==
    ASSUME NEW s, NEW k, NEW val, Shaped(s)
    PROVE  /\ Shaped(Set(s, k, val))
           /\ \A q : q \in DOMAIN Set(s, k, val) <=> q \in DOMAIN s \/ q = k
           /\ Set(s, k, val)[k].v = val
           /\ Set(s, k, val)[k].ttl = IF k \in DOMAIN s THEN s[k].ttl ELSE MinTtl
           /\ \A q \in DOMAIN s : q # k => Set(s, k, val)[q] = s[q]
BY DEF Set, Shaped, Has

LEMMA SetAgrees ==
    ASSUME NEW s, NEW k, NEW val, NEW q, q # k
    PROVE  AgreeAt(s, Set(s, k, val), q)
BY DEF Set, AgreeAt, Has

(***************************************************************************)
(* Removing a key.                                                         *)
(***************************************************************************)
LEMMA RemoveFacts ==
    ASSUME NEW s, NEW k, Shaped(s)
    PROVE  /\ Shaped(RemoveEntry(s, k))
           /\ \A q : q \in DOMAIN RemoveEntry(s, k) <=> q \in DOMAIN s /\ q # k
           /\ \A q \in DOMAIN s : q # k => RemoveEntry(s, k)[q] = s[q]
BY DEF RemoveEntry, Shaped

LEMMA RemoveAgrees ==
    ASSUME NEW s, NEW k, NEW q, q # k
    PROVE  AgreeAt(s, RemoveEntry(s, k), q)
BY DEF RemoveEntry, AgreeAt, Has

(***************************************************************************)
(* Extending lives: keys and values stay, and no life gets shorter.        *)
(***************************************************************************)
LEMMA ExtendFacts ==
    ASSUME NEW s, NEW keys, NEW threshold, NEW to, Shaped(s)
    PROVE  /\ Shaped(ExtendIn(s, keys, threshold, to))
           /\ DOMAIN ExtendIn(s, keys, threshold, to) = DOMAIN s
           /\ \A k \in DOMAIN s :
                 /\ ExtendIn(s, keys, threshold, to)[k].v = s[k].v
                 /\ ExtendIn(s, keys, threshold, to)[k].ttl =
                       IF k \in keys THEN Extended(s[k].ttl, threshold, to) ELSE s[k].ttl
<1>. DEFINE e == ExtendIn(s, keys, threshold, to)
<1>1. DOMAIN e = DOMAIN s
  BY DEF ExtendIn
<1>2. ASSUME NEW k \in DOMAIN s
      PROVE  e[k] = [v |-> s[k].v,
                     ttl |-> IF k \in keys THEN Extended(s[k].ttl, threshold, to) ELSE s[k].ttl]
  <2>1. s[k] = [v |-> s[k].v, ttl |-> s[k].ttl]
    BY DEF Shaped
  <2>2. CASE k \in keys
    <3>1. e[k] = [s[k] EXCEPT !.ttl = Extended(s[k].ttl, threshold, to)]
      BY <2>2 DEF ExtendIn
    <3>. QED BY <2>1, <2>2, <3>1
  <2>3. CASE k \notin keys
    BY <2>1, <2>3 DEF ExtendIn
  <2>. QED BY <2>2, <2>3
<1>3. Shaped(e)
  <2>. HIDE DEF e
  <2>. QED BY <1>1, <1>2 DEF Shaped
<1>. QED BY <1>1, <1>2, <1>3

LEMMA ExtendAgrees ==
    ASSUME NEW s, NEW keys, NEW threshold, NEW to, NEW q, q \notin keys
    PROVE  AgreeAt(s, ExtendIn(s, keys, threshold, to), q)
BY DEF ExtendIn, AgreeAt, Has

(***************************************************************************)
(* A ledger passes: an entry is gone, or has one ledger less.              *)
(***************************************************************************)
LEMMA AgeFacts ==
    ASSUME NEW s, Shaped(s), \A k \in DOMAIN s : s[k].ttl \in Nat
    PROVE  /\ Shaped(Age(s))
           /\ DOMAIN Age(s) = {k \in DOMAIN s : s[k].ttl > 1}
           /\ \A k \in DOMAIN Age(s) : /\ Age(s)[k].v = s[k].v
                                       /\ Age(s)[k].ttl = s[k].ttl - 1
<1>1. DOMAIN Age(s) = {k \in DOMAIN s : s[k].ttl > 1}
  BY DEF Age
<1>2. ASSUME NEW k \in DOMAIN Age(s)
      PROVE  Age(s)[k] = [v |-> s[k].v, ttl |-> s[k].ttl - 1]
  <2>1. k \in DOMAIN s /\ s[k] = [v |-> s[k].v, ttl |-> s[k].ttl]
    BY <1>1 DEF Shaped
  <2>2. Age(s)[k] = [s[k] EXCEPT !.ttl = s[k].ttl - 1]
    BY <1>1 DEF Age
  <2>. QED BY <2>1, <2>2
<1>3. \A k \in DOMAIN Age(s) : Age(s)[k].v = s[k].v /\ Age(s)[k].ttl = s[k].ttl - 1
  BY <1>2
<1>4. Shaped(Age(s))
  <2>. SUFFICES ASSUME NEW k \in DOMAIN Age(s)
                PROVE  Age(s)[k] = [v |-> Age(s)[k].v, ttl |-> Age(s)[k].ttl]
    BY DEF Shaped
  <2>. QED BY <1>2, <1>3
<1>. QED BY <1>1, <1>3, <1>4

===============================================================================
