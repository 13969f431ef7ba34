---------------------------- MODULE MCProofSystems ----------------------------
(***************************************************************************)
(* Instances for TLC of the two proof systems, which share nothing: PLONK, *)
(* over the field of 41 elements, with two satisfied statements and four   *)
(* that a public input, a gate or a copied value makes false; the groups   *)
(* that the Groth16 circuits govern; and the bindings of the core library, *)
(* asked what a client may ask and what it should not.                     *)
(***************************************************************************)
EXTENDS PlonkProtocol, Groth16Groups, CoreBindings

CosetShifts == <<1, 2, 3, 4, 6>>

Usual == <<5, 16, 11, 13, 19, 23>>

Other == <<29, 31, 15, 17, 21, 30>>

\* Zeta may be any, for the points of the domain and those at which a remainder
\* vanishes; of the others, zero and one.
Unusual == [n \in 1..6 |-> IF n = 4 THEN Field ELSE {0, 1}]

\* The rows of an assignment to x, y, a, b and c.
Assignment(x, y, a, b, c) ==
    <<<<0, 0, 0, 0, x>>, <<0, 0, 0, 0, y>>, <<x, y, a, b, c>>, <<y, c, x, a, x>>>>

True1 == Assignment(3, 10, 2, 16, 18)

True2 == Assignment(40, 2, 3, 7, 18)

ASSUME TrueStatements == Satisfied(True1, <<3, 10>>) /\ Satisfied(True2, <<40, 2>>)

Claim(assigned, inputs) == [assigned |-> assigned, inputs |-> inputs]

MCStatements ==
    {Claim(True1, <<3, 10>>), Claim(True2, <<40, 2>>),
     Claim(True1, <<3, 11>>),                               \* another input
     Claim([True1 EXCEPT ![3][4] = @ + 1], <<3, 10>>),      \* a gate
     Claim([True1 EXCEPT ![2][5] = 12], <<3, 12>>),         \* a copy
     Claim([True1 EXCEPT ![1][4] = 6], <<3, 10>>)}          \* a copied zero

-------------------------------------------------------------------------------
(* Arguments: the usual, too large a number, a wrong length, a null pointer. *)

Null  == [items |-> << >>, extra |-> FALSE, null |-> TRUE]
Large(item) == [item EXCEPT !.over = TRUE]

\* One item, as asked for and otherwise.
OneOf(v) ==
    {Holds(<<Item(v)>>), Holds(<<Large(Item(v))>>), Holds(<< >>),
     [Holds(<<Item(v)>>) EXCEPT !.extra = TRUE], Null}

Good(v) == Holds(<<Item(v)>>)

Items(vs) == Holds([i \in DOMAIN vs |-> Item(vs[i])])

\* Rosters of keys and leaves: none, one, two in either order, one twice, too
\* many for the tree, a leaf of somebody else, counts that differ, and Null.
Roster(ks) == <<Items(ks), Items([i \in DOMAIN ks |-> Leaf(ks[i])])>>

RostersUsed ==
    {Roster(ks) : ks \in {<< >>, <<1>>, <<1, 2>>, <<2, 1>>, <<1, 1>>, <<1, 2, 3>>}}
        \cup {<<Items(<<1, 2>>), Items(<<Leaf(2), Leaf(1)>>)>>,
              <<Items(<<1, 2>>), Items(<<Leaf(1)>>)>>,
              <<Items(<<1>>), Holds(<<Large(Item(Leaf(1)))>>)>>,
              <<Null, Null>>}

SomeRosters == {Roster(<<2, 1>>), Roster(<< >>), Roster(<<1, 2, 3>>), <<Null, Null>>}

Epochs == 0 .. 2^Width - 1

SomeProof == Proof(TRUE, <<Num(1)>>)

Signed == NostrSignature(Secret(1), Num(7))

RequestsUsed ==
    [f : {"leafHash", "publicKey", "nostrKey"}, secret : OneOf(Secret(1))]
    \cup {[f |-> "merkleRoot", keys |-> r[1], hashes |-> r[2], depth |-> 1] : r \in RostersUsed}
    \cup [f : {"nostrSign"}, secret : OneOf(Secret(1)), eventId : OneOf(Num(7))]
    \cup [f : {"nostrVerify"}, public : {Good(k) : k \in {NostrPublicKey(Secret(n)) : n \in 1..2}}
                                       \cup {Null},
          eventId : OneOf(Num(7)), signature : {Good(Signed), Null, Holds(<< >>)}]
    \cup [f : {"contractFormat"}, proof : OneOf(SomeProof)]
    \cup [f : {"sha256Commitment", "poseidonCommitment"}, root : OneOf(Leaf(1)),
          epoch : Epochs, salt : OneOf(Salt(1))]
    \cup [f : {"testingKey", "testingUpdateKey"}, depth : {1}, seed : 0..1]
    \cup {[f |-> "membershipProof", provingKey |-> p, keys |-> r[1], hashes |-> r[2],
           secret |-> s, epoch |-> e, salt |-> Good(Salt(1)), depth |-> 1] :
              p \in OneOf(Num(0)), r \in RostersUsed, s \in OneOf(Secret(1)), e \in Epochs}
    \cup {[f |-> "updateProof", provingKey |-> Good(Num(0)), keys |-> r[1], hashes |-> r[2],
           keysNew |-> n[1], hashesNew |-> n[2], secret |-> s, epoch |-> e,
           salt |-> Good(Salt(1)), saltNew |-> t, depth |-> 1] :
              r \in RostersUsed, n \in SomeRosters, s \in {Good(Secret(1)), Good(Secret(3))},
              t \in {Good(Salt(2)), Null}, e \in Epochs}
    \cup [f : {"parse"}, null : BOOLEAN,
          wire : {<<v, c, e, d>> : v \in 1..2, c \in {Item(Leaf(1)), Large(Item(Leaf(1)))},
                                  e \in Epochs, d \in {Item(Leaf(2)), Large(Item(Leaf(2)))}}
                 \cup {<<2>>}]

-------------------------------------------------------------------------------

VARIABLE system     \* the one that a behaviour is of

systemsVars == <<vars, groupsVars, bindingVars, system>>

\* A system that does not run is in one of its initial states.
PlonkIdle  == statement = Claim(True1, <<3, 10>>)
GroupsIdle == kind = "democracy" /\ members = 3 /\ signers = {0}

SystemsInit ==
    /\ Init /\ GroupsInit /\ BindingsInit
    /\ \/ system = "plonk" /\ GroupsIdle
       \/ system = "groth16" /\ PlonkIdle
       \/ system = "bindings" /\ PlonkIdle /\ GroupsIdle

SystemsNext ==
    /\ \/ system = "plonk" /\ Next /\ UNCHANGED <<groupsVars, bindingVars>>
       \/ system = "groth16" /\ GroupsNext /\ UNCHANGED <<vars, bindingVars>>
       \/ system = "bindings" /\ BindingsNext /\ UNCHANGED <<vars, groupsVars>>
    /\ UNCHANGED system

SystemsSpec == SystemsInit /\ [][SystemsNext]_systemsVars
===============================================================================
