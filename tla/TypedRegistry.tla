----------------------------- MODULE TypedRegistry -----------------------------
(***************************************************************************)
(* The five per-type registry contracts with the circuits whose proofs     *)
(* they accept: one behaviour is the life of one contract, and its callers *)
(* prove whatever some witness satisfies.  Proofs are sound, so a call     *)
(* carries the public inputs of a witness that satisfies the circuit of    *)
(* the key the contract checks it with.                                    *)
(*                                                                         *)
(* rosters and signers are history variables: the trees in the commitment  *)
(* of the last accepted call, and whose secret keys that call's proof      *)
(* used.  The contract sees neither.                                       *)
(***************************************************************************)
EXTENDS TypedContract, PlonkCircuits

CONSTANTS
    Kinds,          \* which of the five contracts
    Depth,          \* [0..2 -> Nat]: depth of a tier's tree
    AdminDepth,     \* depth of the tree of the administrators
    Keys,           \* people
    Rosters,        \* sequences of keys: the trees that callers build
    Thresholds,     \* of 1..100: thresholds that creators choose
    Counts,         \* member counts that provers claim
    MaxUpdates      \* bound: [Kinds -> Nat], updates of a group

ASSUME RegistryAssumption ==
    /\ Kinds \subseteq {"anarchy", "tyranny", "oneonone", "democracy", "oligarchy"}
    /\ Depth \in [0..2 -> Nat \ {0}] /\ AdminDepth \in Nat \ {0}
    /\ Keys \subseteq Nat /\ Rosters \subseteq Seq(Keys)
    /\ Thresholds \subseteq 1..100 /\ Counts \subseteq Nat
    /\ MaxUpdates \in [Kinds -> Nat]

\* The quorum circuits compare leaf indices and rely on trees that nobody is
\* in twice: the builder refuses a repeated key.
ASSUME RostersAssumption ==
    \A roster \in Rosters : \A i, j \in DOMAIN roster : roster[i] = roster[j] => i = j

VARIABLES kind, rosters, signers

vars == <<store, count, restricted, kind, rosters, signers>>

Anarchy   == INSTANCE SepAnarchy
Tyranny   == INSTANCE SepTyranny
OneOnOne  == INSTANCE SepOneOnOne
Democracy == INSTANCE SepDemocracy
Oligarchy == INSTANCE SepOligarchy

-------------------------------------------------------------------------------
(* Witnesses.  Where no salt is given it is Salt(1): a salt hides, and no  *)
(* check depends on it.                                                    *)

LeavesOf(roster) == [i \in DOMAIN roster |-> Leaf(roster[i])]

\* The trees that the callers of a run build, computed once.
Built ==
    LET depths == {Depth[t] : t \in 0..2} \cup {AdminDepth}
    IN  [roster \in Rosters \cup (Keys \X Keys) |->
            [d \in depths |->
                [root  |-> Root(LeavesOf(roster), d),
                 paths |-> [index \in 0 .. 2^d - 1 |-> MerklePath(LeavesOf(roster), d, index)]]]]

TreeOf(roster, depth) == Built[roster][depth].root

PathOf(roster, depth, index) == Built[roster][depth].paths[index]

\* The rosters that fit into a tree: the builder refuses any other.
Buildable(depth) == {roster \in Rosters : Len(roster) <= 2^depth}

\* A witness is put together from the fields of each of its parts.
f ++ g == [x \in DOMAIN f \cup DOMAIN g |-> IF x \in DOMAIN f THEN f[x] ELSE g[x]]

\* A change from one tree to the next.
Change(roster, depth, epoch, new) ==
    [root |-> TreeOf(roster, depth), depth |-> depth, epoch |-> epoch, salt |-> Salt(1),
     rootNew |-> TreeOf(new, depth), saltNew |-> Salt(1)]

\* Who signs: a key and the leaf that it claims.
Claims(depth) == Keys \X (0 .. 2^depth - 1)

SignedBy(roster, depth, claim) ==
    [key |-> Secret(claim[1]), path |-> PathOf(roster, depth, claim[2]), index |-> claim[2]]

Idle(depth) == [key |-> Zero, path |-> [l \in 1..depth |-> Zero], index |-> 0, active |-> FALSE]

Slots(roster, depth, claims) ==
    [i \in 1..K_MAX |->
        IF i \in DOMAIN claims THEN SignedBy(roster, depth, claims[i]) ++ [active |-> TRUE]
                               ELSE Idle(depth)]

ClaimsOfAll(depth) == UNION {[1..k -> Claims(depth)] : k \in 0..K_MAX}

KeysOf(claims) == {claims[i][1] : i \in DOMAIN claims}

Occ(n) == Occupancy(n, Salt(1))

\* The member counts before and after, hidden and in the clear.
Counting(n, nNew) ==
    [count |-> n, countNew |-> nNew, saltOc |-> Salt(1), saltOcNew |-> Salt(1),
     occ |-> Occ(n), occNew |-> Occ(nNew)]

Proof(vk, inputs) == [vk |-> vk, pi |-> inputs, nonce |-> 1]

Accepted(id, members, admins, keys) ==
    /\ rosters' = [rosters EXCEPT ![id] = [members |-> members, admins |-> admins]]
    /\ signers' = keys
    /\ UNCHANGED kind

-------------------------------------------------------------------------------
(* Anarchy *)

AnarchyCreate(id, isAdmin) ==
    /\ kind = "anarchy"
    /\ \E t \in Tiers : \E roster \in Buildable(Depth[t]), claim \in Claims(Depth[t]) :
         LET w == Change(roster, Depth[t], 0, roster) ++ SignedBy(roster, Depth[t], claim) IN
         /\ MembershipHolds(w)
         /\ Anarchy!CreateGroup(id, t, Proof(Anarchy!MembershipVk(t), MembershipInputs(w)), isAdmin)
         /\ Accepted(id, roster, << >>, {claim[1]})

AnarchyUpdate(id) ==
    /\ kind = "anarchy"
    /\ LET g == Stored(id)  d == Depth[g.tier] IN
       \E roster \in Buildable(d), epoch \in 0..MaxEpoch :
       /\ Commitment(TreeOf(roster, d), epoch, Salt(1)) = g.commitment
       /\ \E new \in Buildable(d), claim \in Claims(d) :
         LET w == Change(roster, d, epoch, new) ++ SignedBy(roster, d, claim) IN
         /\ UpdateHolds(w)
         /\ Anarchy!UpdateCommitment(id, Proof(Anarchy!UpdateVk(g.tier), UpdateInputs(w)))
         /\ Accepted(id, new, << >>, {claim[1]})

-------------------------------------------------------------------------------
(* Tyranny *)

TyrannyCreate(id, isAdmin) ==
    /\ kind = "tyranny"
    /\ \E t \in Tiers, for \in Ids :
       \E roster \in Buildable(Depth[t]), claim \in Claims(Depth[t]) :
         LET w == Change(roster, Depth[t], 0, roster) ++ SignedBy(roster, Depth[t], claim)
                      ++ [group |-> GroupFr[for]] IN
         /\ TyrannyCreateHolds(w)
         /\ Tyranny!CreateGroup(id, t, Proof(Tyranny!CreateVk(t), TyrannyCreateInputs(w)), isAdmin)
         /\ Accepted(id, roster, << >>, {claim[1]})

TyrannyUpdate(id) ==
    /\ kind = "tyranny"
    /\ LET g == Stored(id)  d == Depth[g.tier] IN
       \E roster \in Buildable(d), epoch \in 0..MaxEpoch :
       /\ Commitment(TreeOf(roster, d), epoch, Salt(1)) = g.commitment
       /\ \E new \in Buildable(d), for \in Ids, claim \in Claims(d) :
         LET w == Change(roster, d, epoch, new) ++ SignedBy(roster, d, claim)
                      ++ [group |-> GroupFr[for]] IN
         /\ TyrannyUpdateHolds(w)
         /\ Tyranny!UpdateCommitment(id, Proof(Tyranny!UpdateVk(g.tier), TyrannyUpdateInputs(w)))
         /\ Accepted(id, new, << >>, {claim[1]})

-------------------------------------------------------------------------------
(* One-on-one: whoever knows two keys founds the group of the two. *)

OneOnOneCreate(id, isAdmin) ==
    /\ kind = "oneonone"
    /\ \E key0, key1 \in Keys :
         LET w == [key0 |-> Secret(key0), key1 |-> Secret(key1), depth |-> Depth[0],
                   salt |-> Salt(1)] IN
         /\ OneOnOne!CreateGroup(id, Proof(OneOnOne!CreateVk, OneOnOneCreateInputs(w)), isAdmin)
         /\ Accepted(id, <<key0, key1>>, << >>, {key0, key1})

-------------------------------------------------------------------------------
(* Democracy *)

DemocracyCreate(id, isAdmin) ==
    /\ kind = "democracy"
    /\ \E t \in Tiers, threshold \in Thresholds, n \in Counts :
       \E roster \in Buildable(Depth[t]), claim \in Claims(Depth[t]) :
         LET w == Change(roster, Depth[t], 0, roster) ++ SignedBy(roster, Depth[t], claim) IN
         /\ MembershipHolds(w)
         /\ Democracy!CreateGroup(id, t, threshold, Occ(n),
                Proof(Democracy!MembershipVk(t), MembershipInputs(w)), isAdmin)
         /\ Accepted(id, roster, << >>, {claim[1]})

\* The one creation that an update can follow.  Where the last leaf of a tree
\* has no sibling, its parent is also the leaf of a key, and the root hashed
\* with zero is a root above it.  With the occupancy where the salt goes, the
\* commitment of this membership is also one that binds the occupancy.
DemocracyCreateBinding(id, isAdmin) ==
    /\ kind = "democracy"
    /\ \E t \in Tiers, threshold \in Thresholds, n \in Counts :
       \E roster \in Buildable(Depth[t]) :
         LET last == Len(roster) - 1
             w    == [key   |-> Leaf(roster[Len(roster)]), index |-> last \div 2,
                      path  |-> Append(Tail(PathOf(roster, Depth[t], last)), Zero),
                      root  |-> HashTwo(TreeOf(roster, Depth[t]), Zero),
                      depth |-> Depth[t], epoch |-> 0, salt |-> Occ(n)] IN
         /\ MembershipHolds(w)
         /\ Democracy!CreateGroup(id, t, threshold, Occ(n),
                Proof(Democracy!MembershipVk(t), MembershipInputs(w)), isAdmin)
         /\ Accepted(id, roster, << >>, {roster[Len(roster)]})

\* In the second form of creation the salt under the occupancy is zero.
DemocracyUpdateQuorum(id) ==
    /\ kind = "democracy" /\ Stored(id).tier < 2
    /\ LET g == Stored(id)  d == Depth[g.tier] IN
       \E roster \in Buildable(d), epoch \in 0..MaxEpoch, salt \in {Zero, Salt(1)}, n \in Counts :
         /\ DemocracyCommitment(TreeOf(roster, d), epoch, salt, Occ(n)) = g.commitment
         /\ \E claims \in ClaimsOfAll(d), threshold \in Thresholds :
            LET slots == Slots(roster, d, claims) IN
            /\ Quorum(slots, TreeOf(roster, d), threshold, d)
            /\ \E new \in Buildable(d), nNew \in Counts :
                 LET w == [signers |-> slots, threshold |-> threshold, salt |-> salt]
                              ++ Counting(n, nNew) ++ Change(roster, d, epoch, new) IN
                 /\ DemocracyUpdateQuorumHolds(w)
                 /\ Democracy!UpdateCommitment(id,
                        Proof(Democracy!UpdateVk(g.tier), DemocracyUpdateQuorumInputs(w)))
                 /\ Accepted(id, new, << >>, KeysOf(claims))

\* At the deepest tier one member signs, and what it says of the occupancy is
\* checked against the stored value only.
DemocracyUpdateDeep(id) ==
    /\ kind = "democracy" /\ Stored(id).tier = 2
    /\ LET g == Stored(id)  d == Depth[g.tier] IN
       \E roster \in Buildable(d), epoch \in 0..MaxEpoch, salt \in {Zero, Salt(1)}, n \in Counts :
         /\ DemocracyCommitment(TreeOf(roster, d), epoch, salt, Occ(n)) = g.commitment
         /\ \E claim \in Claims(d), threshold \in Thresholds, new \in Buildable(d), nNew \in Counts :
              LET w == [threshold |-> threshold, salt |-> salt] ++ SignedBy(roster, d, claim)
                           ++ Counting(n, nNew) ++ Change(roster, d, epoch, new) IN
              /\ DemocracyUpdateHolds(w)
              /\ Democracy!UpdateCommitment(id,
                     Proof(Democracy!UpdateVk(g.tier), DemocracyUpdateInputs(w)))
              /\ Accepted(id, new, << >>, {claim[1]})

-------------------------------------------------------------------------------
(* Oligarchy.  Nobody signs a creation: its circuit has public inputs only. *)

Admins(adminRoster, adminNew) ==
    [adminRoot |-> TreeOf(adminRoster, AdminDepth), adminRootNew |-> TreeOf(adminNew, AdminDepth)]

OligarchyCreate(id, isAdmin) ==
    /\ kind = "oligarchy"
    /\ \E t \in Tiers, threshold \in Thresholds, n, m \in Counts :
       \E roster \in Buildable(Depth[t]), admins \in Buildable(AdminDepth) :
         LET w == Counting(n, n) ++ Admins(admins, admins) ++ Change(roster, Depth[t], 0, roster) IN
         /\ Oligarchy!CreateOligarchyGroup(id, t, threshold, Occ(m),
                Proof(Oligarchy!CreateVk, OligarchyCreateInputs(w)), isAdmin)
         /\ Accepted(id, roster, admins, {})

\* The circuit is of the depth of the administrators' tree, and the members'
\* root is free.
OligarchyUpdate(id) ==
    /\ kind = "oligarchy"
    /\ LET g == Stored(id)  d == Depth[g.tier] IN
       \E roster \in Buildable(d), admins \in Buildable(AdminDepth),
          epoch \in 0..MaxEpoch, n \in Counts :
         /\ OligarchyCommitment(TreeOf(roster, d), epoch, Salt(1), Occ(n),
                                TreeOf(admins, AdminDepth)) = g.commitment
         /\ \E claims \in ClaimsOfAll(AdminDepth), threshold \in Thresholds :
            LET slots == Slots(admins, AdminDepth, claims) IN
            /\ Quorum(slots, TreeOf(admins, AdminDepth), threshold, AdminDepth)
            /\ \E new \in Buildable(d), adminsNew \in Buildable(AdminDepth), nNew \in Counts :
                 LET w == [signers |-> slots, threshold |-> threshold, depth |-> AdminDepth]
                              ++ Counting(n, nNew) ++ Admins(admins, adminsNew)
                              ++ Change(roster, d, epoch, new) IN
                 /\ OligarchyUpdateQuorumHolds(w)
                 /\ Oligarchy!UpdateCommitment(id,
                        Proof(Oligarchy!UpdateVk, OligarchyUpdateQuorumInputs(w)))
                 /\ Accepted(id, new, adminsNew, KeysOf(claims))

-------------------------------------------------------------------------------

Unsigned == signers' = {} /\ UNCHANGED <<kind, rosters>>

BumpGroupTtl(id) ==
    /\ \/ kind = "anarchy"   /\ Anarchy!BumpGroupTtl(id)
       \/ kind = "tyranny"   /\ Tyranny!BumpGroupTtl(id)
       \/ kind = "oneonone"  /\ OneOnOne!BumpGroupTtl(id)
       \/ kind = "democracy" /\ Democracy!BumpGroupTtl(id)
       \/ kind = "oligarchy" /\ Oligarchy!BumpGroupTtl(id)
    /\ Unsigned

Init ==
    /\ kind \in Kinds
    /\ store = EmptyStorage
    /\ count = [t \in 0..2 |-> 0]
    /\ restricted = FALSE
    /\ rosters = [id \in Ids |-> [members |-> << >>, admins |-> << >>]]
    /\ signers = {}

Create(id) ==
    \E isAdmin \in BOOLEAN :
        \/ AnarchyCreate(id, isAdmin)
        \/ TyrannyCreate(id, isAdmin)
        \/ OneOnOneCreate(id, isAdmin)
        \/ DemocracyCreate(id, isAdmin) \/ DemocracyCreateBinding(id, isAdmin)
        \/ OligarchyCreate(id, isAdmin)

Update(id) ==
    /\ Exists(id) /\ Stored(id).epoch < MaxUpdates[kind]
    /\ \/ AnarchyUpdate(id)
       \/ TyrannyUpdate(id)
       \/ DemocracyUpdateQuorum(id) \/ DemocracyUpdateDeep(id)
       \/ OligarchyUpdate(id)

Next ==
    \/ \E id \in Ids : Create(id) \/ Update(id) \/ BumpGroupTtl(id)
    \/ SetRestrictedMode /\ Unsigned
    \/ CloseLedger /\ Unsigned

Spec == Init /\ [][Next]_vars

-------------------------------------------------------------------------------
(* Properties *)

Entries(id) ==
    {Group(id)} \cup (IF kind = "oneonone" THEN {} ELSE {History(id)})
                \cup (IF kind = "tyranny" THEN {AdminCommitment(id)} ELSE {})

\* Every value is of its type, and no tier counts more groups than its limit.
TypeOK ==
    /\ kind \in Kinds /\ restricted \in BOOLEAN
    /\ count \in [0..2 -> 0..MaxGroups]
    /\ \A k \in DOMAIN store : store[k].ttl \in 1..Bump
    /\ signers \subseteq Keys
    /\ \A id \in Ids : Exists(id) => Stored(id).epoch \in 0..MaxEpoch

\* The parts of a group (its entry, its history, its administrator) are
\* there together or not at all: no part outlives or expires before another,
\* whatever is renewed and when.
PartsLiveTogether ==
    \A id \in Ids : \A k \in Entries(id) : Has(store, k) <=> Exists(id)

\* get_history gives the epochs just before the current one, in order, up to
\* the window.
HistoryIsRecentEpochs ==
    kind # "oneonone" =>
        \A id \in Ids : Exists(id) =>
            \A max \in 0 .. Window + 1 :
                LET h == Anarchy!GetHistory(id, max)
                    e == Stored(id).epoch
                    n == CHOOSE m \in {max, e, Window} : \A k \in {max, e, Window} : m <= k
                IN  Len(h) = n /\ \A i \in 1..n : h[i].epoch = e - n + i - 1

\* The stored record says what its commitment binds: the trees, the epoch
\* and, in an oligarchy and an advanced democracy, the occupancy.
CommitmentBindsRecord ==
    \A id \in Ids : Exists(id) =>
        LET g == Stored(id)
            d == Depth[IF kind = "oneonone" THEN 0 ELSE g.tier]
            root == TreeOf(rosters[id].members, d)
        IN  CASE kind = "oligarchy" ->
                    g.commitment = OligarchyCommitment(root, g.epoch, Salt(1), g.occupancy,
                                        TreeOf(rosters[id].admins, AdminDepth))
              [] kind = "democracy" ->
                    \/ g.commitment \in {DemocracyCommitment(root, g.epoch, s, g.occupancy) :
                                            s \in {Zero, Salt(1)}}
                    \/ g.epoch = 0 /\ g.commitment = Commitment(root, 0, Salt(1))
              [] OTHER -> g.commitment = Commitment(root, g.epoch, Salt(1))

\* How many different people must have signed to replace an entry.
SignersNeeded(g) ==
    IF kind = "oligarchy" \/ (kind = "democracy" /\ g.tier < 2) THEN g.threshold ELSE 1

\* A stored entry is replaced only by the next epoch, on the keys of enough
\* different people of the tree that is entitled to: the members, the
\* administrators of an oligarchy, or the one administrator of a tyranny.
\* The contract never learns who they were.
ChangesAreAuthorised ==
    [][\A id \in Ids : (Exists(id) /\ Exists(id)' /\ Stored(id)' # Stored(id)) =>
        LET g == Stored(id)
            voters == IF kind = "oligarchy" THEN rosters[id].admins ELSE rosters[id].members
        IN  /\ kind # "oneonone"
            /\ Stored(id)'.epoch = g.epoch + 1
            /\ signers' \subseteq {voters[i] : i \in DOMAIN voters}
            /\ Cardinality(signers') >= SignersNeeded(g)
            /\ kind = "tyranny" =>
                 \A k \in signers' :
                    store[AdminCommitment(id)].v = AdminBinding(Secret(k), GroupFr[id])]_vars

\* The proof of membership that a client of this kind of group makes.
MembershipProof(id, index) ==
    LET g == Stored(id)
        d == Depth[IF kind = "oneonone" THEN 0 ELSE g.tier]
        r == rosters[id]
    IN  Change(r.members, d, g.epoch, r.members)
            ++ SignedBy(r.members, d, <<r.members[index], index - 1>>)
            ++ (IF kind = "oligarchy"
                THEN Admins(r.admins, r.admins) ++ [occ |-> g.occupancy] ELSE << >>)

\* Every member of a group's current tree can prove it to verify_membership,
\* at every epoch.  A democracy is left out: after its first update its
\* commitment has a level that the membership circuit does not know.
MembersCanProve ==
    \A id \in Ids : (Exists(id) /\ kind # "democracy") =>
        \A index \in DOMAIN rosters[id].members :
            LET w == MembershipProof(id, index)
            IN  CASE kind = "oligarchy" ->
                        /\ OligarchyMembershipHolds(w)
                        /\ Oligarchy!VerifyMembership(id,
                               <<"oligarchyMembership", Stored(id).tier>>,
                               OligarchyMembershipInputs(w))
                  [] kind = "anarchy" ->
                        /\ MembershipHolds(w)
                        /\ Anarchy!VerifyMembership(id,
                               <<"membership", Stored(id).tier>>, MembershipInputs(w))
                  [] kind = "tyranny" ->
                        /\ MembershipHolds(w)
                        /\ Tyranny!VerifyMembership(id,
                               <<"membership", Stored(id).tier>>, MembershipInputs(w))
                  [] kind = "oneonone" ->
                        /\ MembershipHolds(w)
                        /\ OneOnOne!VerifyMembership(id, <<"membership", 0>>, MembershipInputs(w))
===============================================================================
