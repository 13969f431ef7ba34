---------------------------- MODULE PoseidonProofs ----------------------------
(***************************************************************************)
(* What holds of every tree of Poseidon, of any depth: the path that a     *)
(* tree gives for a leaf leads from that leaf to the root, and from no     *)
(* other leaf does any path lead there.                                    *)
(***************************************************************************)
EXTENDS Poseidon, Integers, FiniteSetTheorems, WellFoundedInduction, TLAPS

-------------------------------------------------------------------------------
(* Induction over the natural numbers *)

\* A set of numbers that is not empty has a least one.
LEMMA LeastNatural ==
    ASSUME NEW T \in SUBSET Nat, T # {}
    PROVE  \E m \in T : \A k \in T : m <= k
<1> DEFINE R == {ss \in Nat \X Nat : ss[1] < ss[2]}
<1>1. IsWellFoundedOn(OpToRel(<, Nat), Nat)  BY NatLessThanWellFounded
<1>2. OpToRel(<, Nat) = R  BY DEF OpToRel
<1>3. IsWellFoundedOn(R, Nat)  BY <1>1, <1>2
<1> HIDE DEF R
<1>4. PICK x \in T : \A y \in T : ~ (<<y, x>> \in R)  BY <1>3, WFMin
<1>5. ASSUME NEW y \in T PROVE x <= y
  <2>1. <<y, x>> \notin R /\ y \in Nat /\ x \in Nat  BY <1>4
  <2>2. ~ (y < x)  BY <2>1 DEF R
  <2> QED  BY <2>1, <2>2
<1> QED  BY <1>5

\* Induction: a set with 0 and the successors of its numbers has them all.
LEMMA SetInduction ==
    ASSUME NEW S, 0 \in S, \A n \in Nat : n \in S => n + 1 \in S
    PROVE  \A n \in Nat : n \in S
<1>1. SUFFICES ASSUME Nat \ S # {} PROVE FALSE  OBVIOUS
<1>2. PICK m \in Nat \ S : \A k \in Nat \ S : m <= k  BY <1>1, LeastNatural
<1>3. m # 0 /\ m - 1 \in Nat /\ m - 1 \in S  BY <1>2
<1>4. (m - 1) + 1 \in S  BY <1>3
<1> QED  BY <1>2, <1>4

-------------------------------------------------------------------------------
(* Powers of two, which tlapm knows only as numbers of subsets *)

\* One more element doubles the subsets.
LEMMA PowersOfTwo ==
    /\ 2^0 = 1
    /\ \A n \in Nat : 2^n \in Nat \ {0}
    /\ \A n \in Nat : 2^(n + 1) = 2 * 2^n
<1>1. ASSUME NEW n \in Nat
      PROVE  /\ IsFiniteSet(SUBSET (1 .. n)) /\ Cardinality(SUBSET (1 .. n)) = 2^n
             /\ 2^n \in Nat
  <2>1. IsFiniteSet(1 .. n) /\ Cardinality(1 .. n) = n  BY FS_Interval
  <2>2. IsFiniteSet(SUBSET (1 .. n)) /\ Cardinality(SUBSET (1 .. n)) = 2^n
    BY <2>1, FS_SUBSET
  <2> QED  BY <2>2, FS_CardinalityType
<1>2. 2^0 = 1
  <2>1. SUBSET (1 .. 0) = {{}}  OBVIOUS
  <2>2. Cardinality({{}}) = 1  BY FS_Singleton
  <2> QED  BY <1>1, <2>1, <2>2
<1>3. ASSUME NEW n \in Nat PROVE 2^(n + 1) = 2 * 2^n
  <2> DEFINE A == SUBSET (1 .. n)
             B == {X \cup {n + 1} : X \in A}
             f == [X \in A |-> X \cup {n + 1}]
  <2>1. IsFiniteSet(A) /\ Cardinality(A) = 2^n  BY <1>1
  <2>2. f \in Bijection(A, B)
    <3>1. \A X, Y \in A : f[X] = f[Y] => X = Y
      <4>1. TAKE X, Y \in A
      <4>2. n + 1 \notin X /\ n + 1 \notin Y  OBVIOUS
      <4> QED  BY <4>2
    <3>2. f \in [A -> B] /\ \A b \in B : \E X \in A : f[X] = b  OBVIOUS
    <3> HIDE DEF f, B
    <3> QED  BY <3>1, <3>2 DEF Bijection, Injection, Surjection, IsInjective
  <2>3. IsFiniteSet(B) /\ Cardinality(B) = 2^n
    BY <2>1, <2>2, FS_Bijection DEF ExistsBijection
  <2>4. A \cap B = {}
    <3>1. \A X \in A : n + 1 \notin X  OBVIOUS
    <3>2. \A X \in B : n + 1 \in X  OBVIOUS
    <3> QED  BY <3>1, <3>2
  <2>5. A \cup B = SUBSET (1 .. n + 1)
    <3>1. A \cup B \subseteq SUBSET (1 .. n + 1)
      <4>1. 1 .. n \subseteq 1 .. n + 1 /\ n + 1 \in 1 .. n + 1  OBVIOUS
      <4> QED  BY <4>1
    <3>2. ASSUME NEW X \in SUBSET (1 .. n + 1) PROVE X \in A \cup B
      <4>1. CASE n + 1 \in X
        <5>1. X \ {n + 1} \in A
          <6>1. \A x \in 1 .. n + 1 : x # n + 1 => x \in 1 .. n  OBVIOUS
          <6> QED  BY <6>1
        <5>2. X = (X \ {n + 1}) \cup {n + 1}  BY <4>1
        <5> QED  BY <5>1, <5>2
      <4>2. CASE n + 1 \notin X
        <5>1. \A x \in 1 .. n + 1 : x # n + 1 => x \in 1 .. n  OBVIOUS
        <5>2. X \in A  BY <4>2, <5>1
        <5> QED  BY <5>2
      <4> QED  BY <4>1, <4>2
    <3> QED  BY <3>1, <3>2
  <2> HIDE DEF A, B
  <2>6. Cardinality(A \cup B) = Cardinality(A) + Cardinality(B) - Cardinality(A \cap B)
    BY <2>1, <2>3, FS_Union
  <2>7. Cardinality(A \cap B) = 0  BY <2>4, FS_EmptySet
  <2>8. Cardinality(A \cup B) = 2^(n + 1)
    <3>1. n + 1 \in Nat  OBVIOUS
    <3>2. Cardinality(SUBSET (1 .. n + 1)) = 2^(n + 1)  BY ONLY <1>1, <3>1
    <3> QED  BY ONLY <2>5, <3>2
  <2>9. 2^n \in Nat  BY <1>1
  <2> QED  BY <2>1, <2>3, <2>6, <2>7, <2>8, <2>9
<1>4. \A n \in Nat : 2^n \in Nat \ {0}
  <2> DEFINE P == {n \in Nat : 2^n # 0}
  <2>1. 0 \in P  BY <1>2
  <2>2. ASSUME NEW n \in Nat, n \in P PROVE n + 1 \in P  BY <1>1, <1>3, <2>2
  <2> HIDE DEF P
  <2>3. \A n \in Nat : n \in P  BY <2>1, <2>2, SetInduction
  <2> QED  BY <1>1, <2>3 DEF P
<1> QED  BY <1>2, <1>3, <1>4

\* Halving once more.
LEMMA HalfOfAQuotient ==
    ASSUME NEW x \in Nat, NEW m \in Nat \ {0}
    PROVE  x \div (2 * m) = (x \div m) \div 2
<1>0. PICK q \in Nat, r \in Nat : q = x \div m /\ r = x % m  OBVIOUS
<1>1. x = m * q + r /\ r < m  BY <1>0
<1>2. PICK p \in Nat, b \in 0 .. 1 : q = 2 * p + b /\ p = q \div 2
  <2>1. q = 2 * (q \div 2) + (q % 2) /\ q \div 2 \in Nat /\ q % 2 \in 0 .. 1  OBVIOUS
  <2> QED  BY <2>1
<1>3. PICK k \in Nat, c \in Nat : k = m * p /\ c = m * b
  <2>1. m * p \in Nat /\ m * b \in Nat  OBVIOUS
  <2> QED  BY <2>1
<1>4. m * q = 2 * k + c
  <2>1. m * q = m * (2 * p + b)  BY <1>2
  <2>2. m * (2 * p + b) = 2 * (m * p) + m * b  OBVIOUS
  <2> QED  BY <1>3, <2>1, <2>2
<1>5. c = 0 \/ c = m  BY <1>3
<1>6. PICK d \in Nat : d = 2 * m  OBVIOUS
<1>7. d * p = 2 * k
  <2>1. (2 * m) * p = 2 * (m * p)  OBVIOUS
  <2> QED  BY <1>3, <1>6, <2>1
<1>8. x = d * p + (c + r) /\ c + r < d /\ c + r \in Nat /\ d > 0
  BY <1>1, <1>3, <1>4, <1>5, <1>6, <1>7
<1>9. x \div d = p
  <2>1. PICK u \in Nat : u = x \div d  BY <1>8
  <2>2. PICK v \in Nat : v = x % d /\ v < d /\ x = d * u + v  BY <1>8, <2>1
  <2>3. ~ (u >= p + 1)
    <3>1. SUFFICES ASSUME u >= p + 1 PROVE FALSE  OBVIOUS
    <3>2. d * u >= d * p + d  BY <3>1
    <3> QED  BY <1>8, <2>2, <3>2
  <2>4. ~ (p >= u + 1)
    <3>1. SUFFICES ASSUME p >= u + 1 PROVE FALSE  OBVIOUS
    <3>2. d * p >= d * u + d  BY <3>1
    <3> QED  BY <1>8, <2>2, <3>2
  <2> QED  BY <2>1, <2>3, <2>4
<1> QED  BY <1>0, <1>2, <1>6, <1>9

-------------------------------------------------------------------------------
(* The two recursive functions: a tree from its leaves down to its root, and *)
(* a climb from a leaf up                                                    *)

\* Leaf `index` of a tree, counted from zero.
LeafAt(leaves, index) == IF index < Len(leaves) THEN leaves[index + 1] ELSE Zero

\* What f has at i if it is a tree with n leaves.
NodeOf(f, leaves, n, i) ==
    IF i >= n THEN IF i - n < Len(leaves) THEN leaves[i - n + 1] ELSE Zero
              ELSE HashTwo(f[2 * i], f[2 * i + 1])

\* The last k nodes of such a tree, built from the end.
LastNodes(f, leaves, n, k) ==
    /\ DOMAIN f = 2 * n - k .. 2 * n - 1
    /\ \A i \in 2 * n - k .. 2 * n - 1 : f[i] = NodeOf(f, leaves, n, i)

LEMMA NodesExist ==
    ASSUME NEW leaves, NEW n \in Nat \ {0}
    PROVE  \A k \in Nat : k <= 2 * n - 1 => \E f : LastNodes(f, leaves, n, k)
<1> DEFINE P == {k \in Nat : k <= 2 * n - 1 => \E f : LastNodes(f, leaves, n, k)}
<1>1. 0 \in P
  <2> DEFINE f == [i \in 2 * n .. 2 * n - 1 |-> Zero]
  <2>1. 2 * n - 0 .. 2 * n - 1 = {} /\ 2 * n .. 2 * n - 1 = {}  OBVIOUS
  <2>2. DOMAIN f = {}  BY <2>1
  <2> HIDE DEF f
  <2>3. LastNodes(f, leaves, n, 0)  BY <2>1, <2>2 DEF LastNodes
  <2> QED  BY <2>3
<1>2. ASSUME NEW k \in Nat, k \in P PROVE k + 1 \in P
  <2>1. SUFFICES ASSUME k + 1 <= 2 * n - 1 PROVE \E f : LastNodes(f, leaves, n, k + 1)
    OBVIOUS
  <2>2. PICK f : LastNodes(f, leaves, n, k)  BY <1>2, <2>1
  <2> DEFINE at == 2 * n - (k + 1)
             h == [i \in at .. 2 * n - 1 |->
                      IF i = at THEN NodeOf(f, leaves, n, at) ELSE f[i]]
  <2>3. at \in 1 .. 2 * n - 1 /\ 2 * n - k = at + 1  BY <2>1
  <2>4. DOMAIN h = 2 * n - (k + 1) .. 2 * n - 1  OBVIOUS
  <2>5. ASSUME NEW i \in at + 1 .. 2 * n - 1 PROVE h[i] = f[i]  BY <2>3
  <2>6. h[at] = NodeOf(f, leaves, n, at)  BY <2>3
  <2>7. ASSUME NEW i \in at .. 2 * n - 1 PROVE NodeOf(h, leaves, n, i) = NodeOf(f, leaves, n, i)
    <3>1. CASE i >= n  BY <3>1 DEF NodeOf
    <3>2. CASE ~ (i >= n)
      <4>1. 2 * i \in at + 1 .. 2 * n - 1 /\ 2 * i + 1 \in at + 1 .. 2 * n - 1
        BY <2>3, <3>2
      <4>2. h[2 * i] = f[2 * i] /\ h[2 * i + 1] = f[2 * i + 1]  BY ONLY <2>5, <4>1
      <4> QED  BY ONLY <3>2, <4>2 DEF NodeOf
    <3> QED  BY <3>1, <3>2
  <2> HIDE DEF h
  <2>8. ASSUME NEW i \in at .. 2 * n - 1 PROVE h[i] = NodeOf(h, leaves, n, i)
    <3>1. CASE i = at  BY ONLY <2>6, <2>7, <3>1
    <3>2. CASE i # at
      <4>1. i \in at + 1 .. 2 * n - 1  BY <2>3, <3>2
      <4>2. f[i] = NodeOf(f, leaves, n, i)  BY <2>2, <2>3, <4>1 DEF LastNodes
      <4> QED  BY ONLY <2>5, <2>7, <4>1, <4>2
    <3> QED  BY <3>1, <3>2
  <2>9. LastNodes(h, leaves, n, k + 1)  BY <2>4, <2>8 DEF LastNodes
  <2> QED  BY <2>9
<1> HIDE DEF P
<1>3. \A k \in Nat : k \in P  BY <1>1, <1>2, SetInduction
<1> QED  BY <1>3 DEF P

LEMMA TreeIsBuilt ==
    ASSUME NEW leaves, NEW depth \in Nat
    PROVE  \A i \in 1 .. 2 * 2^depth - 1 :
              Tree(leaves, depth)[i] = NodeOf(Tree(leaves, depth), leaves, 2^depth, i)
<1> DEFINE n == 2^depth
           Step(f) == [i \in 1 .. 2 * n - 1 |-> NodeOf(f, leaves, n, i)]
<1>1. n \in Nat \ {0}  BY PowersOfTwo
<1>2. Tree(leaves, depth) = CHOOSE node : node = Step(node)  BY DEF Tree, NodeOf
<1> HIDE DEF n
<1>3. PICK k \in Nat : k = 2 * n - 1  BY <1>1
<1>4. PICK f : LastNodes(f, leaves, n, k)  BY <1>1, <1>3, NodesExist
<1>5. 2 * n - k = 1  BY <1>1, <1>3
<1>6. \E node : node = Step(node)
  <2>1. DOMAIN f = 1 .. 2 * n - 1 /\ \A i \in 1 .. 2 * n - 1 : f[i] = NodeOf(f, leaves, n, i)
    BY ONLY <1>4, <1>5 DEF LastNodes
  <2> DEFINE g == [i \in 1 .. 2 * n - 1 |-> f[i]]
  <2>2. ASSUME NEW i \in 1 .. 2 * n - 1 PROVE g[i] = NodeOf(g, leaves, n, i)
    <3>1. CASE i >= n  BY <2>1, <3>1 DEF NodeOf
    <3>2. CASE ~ (i >= n)
      <4>1. 2 * i \in 1 .. 2 * n - 1 /\ 2 * i + 1 \in 1 .. 2 * n - 1  BY <1>1, <3>2
      <4>2. g[2 * i] = f[2 * i] /\ g[2 * i + 1] = f[2 * i + 1] /\ g[i] = f[i]  BY <4>1
      <4>3. f[i] = NodeOf(f, leaves, n, i)  BY <2>1
      <4> QED  BY ONLY <3>2, <4>2, <4>3 DEF NodeOf
    <3> QED  BY <3>1, <3>2
  <2>3. g = [i \in 1 .. 2 * n - 1 |-> g[i]]  OBVIOUS
  <2> HIDE DEF g
  <2>4. g = Step(g)  BY ONLY <2>2, <2>3
  <2> QED  BY <2>4
<1> DEFINE tree == Tree(leaves, depth)
<1>7. tree = Step(tree)  BY ONLY <1>2, <1>6
<1> HIDE DEF tree
<1>8. \A i \in 1 .. 2 * n - 1 : tree[i] = NodeOf(tree, leaves, n, i)
  <2>1. TAKE i \in 1 .. 2 * n - 1
  <2>2. Step(tree)[i] = NodeOf(tree, leaves, n, i)  OBVIOUS
  <2> HIDE DEF Step
  <2> QED  BY ONLY <1>7, <2>2
<1> QED  BY <1>8 DEF n, tree

\* The leaves are the last half of a tree.
LEMMA TreeLeaves ==
    ASSUME NEW leaves, NEW depth \in Nat, NEW index \in 0 .. 2^depth - 1
    PROVE  Tree(leaves, depth)[2^depth + index] = LeafAt(leaves, index)
<1>1. PICK n \in Nat \ {0} : n = 2^depth  BY PowersOfTwo
<1>2. n + index \in 1 .. 2 * n - 1 /\ n + index >= n /\ (n + index) - n = index  BY <1>1
<1>3. Tree(leaves, depth)[n + index] = NodeOf(Tree(leaves, depth), leaves, n, n + index)
  BY ONLY <1>1, <1>2, TreeIsBuilt, depth \in Nat
<1> QED  BY ONLY <1>1, <1>2, <1>3 DEF NodeOf, LeafAt

\* Every other node is the hash of its children.
LEMMA TreeParents ==
    ASSUME NEW leaves, NEW depth \in Nat, NEW i \in 1 .. 2^depth - 1
    PROVE  Tree(leaves, depth)[i] =
               HashTwo(Tree(leaves, depth)[2 * i], Tree(leaves, depth)[2 * i + 1])
<1>1. PICK n \in Nat \ {0} : n = 2^depth  BY PowersOfTwo
<1>2. i \in 1 .. 2 * n - 1 /\ ~ (i >= n)  BY <1>1
<1>3. Tree(leaves, depth)[i] = NodeOf(Tree(leaves, depth), leaves, n, i)
  BY ONLY <1>1, <1>2, TreeIsBuilt, depth \in Nat
<1> QED  BY ONLY <1>1, <1>2, <1>3 DEF NodeOf

-------------------------------------------------------------------------------

\* The node that a climb has reached after `level` steps.
StepOf(f, leaf, path, index, level) ==
    IF level = 0 THEN leaf
    ELSE IF IsRight(index, level - 1) THEN HashTwo(path[level], f[level - 1])
                                      ELSE HashTwo(f[level - 1], path[level])

Climbs(f, leaf, path, index, k) ==
    /\ DOMAIN f = 0 .. k
    /\ \A level \in 0 .. k : f[level] = StepOf(f, leaf, path, index, level)

LEMMA ClimbsExist ==
    ASSUME NEW leaf, NEW path, NEW index
    PROVE  \A k \in Nat : \E f : Climbs(f, leaf, path, index, k)
<1> DEFINE P == {k \in Nat : \E f : Climbs(f, leaf, path, index, k)}
<1>1. 0 \in P
  <2> DEFINE f == [i \in 0 .. 0 |-> leaf]
  <2>1. DOMAIN f = 0 .. 0 /\ \A i \in 0 .. 0 : i = 0 /\ f[i] = leaf  OBVIOUS
  <2> HIDE DEF f
  <2>2. Climbs(f, leaf, path, index, 0)  BY <2>1 DEF Climbs, StepOf
  <2> QED  BY <2>2
<1>2. ASSUME NEW k \in Nat, k \in P PROVE k + 1 \in P
  <2>1. PICK f : Climbs(f, leaf, path, index, k)  BY <1>2
  <2> DEFINE h == [i \in 0 .. k + 1 |->
                      IF i = k + 1 THEN StepOf(f, leaf, path, index, k + 1) ELSE f[i]]
  <2>2. DOMAIN h = 0 .. k + 1  OBVIOUS
  <2>3. ASSUME NEW i \in 0 .. k PROVE h[i] = f[i]  OBVIOUS
  <2>4. h[k + 1] = StepOf(f, leaf, path, index, k + 1)  OBVIOUS
  <2> HIDE DEF h
  <2>5. ASSUME NEW i \in 0 .. k + 1
        PROVE StepOf(h, leaf, path, index, i) = StepOf(f, leaf, path, index, i)
    <3>1. CASE i = 0  BY <3>1 DEF StepOf
    <3>2. CASE i # 0
      <4>1. i - 1 \in 0 .. k  BY <3>2
      <4>2. h[i - 1] = f[i - 1]  BY ONLY <2>3, <4>1
      <4> QED  BY ONLY <3>2, <4>2 DEF StepOf
    <3> QED  BY <3>1, <3>2
  <2>6. ASSUME NEW i \in 0 .. k + 1 PROVE h[i] = StepOf(h, leaf, path, index, i)
    <3>1. CASE i = k + 1  BY ONLY <2>4, <2>5, <3>1
    <3>2. CASE i # k + 1
      <4>1. i \in 0 .. k  BY <3>2
      <4>2. f[i] = StepOf(f, leaf, path, index, i)  BY ONLY <2>1, <4>1 DEF Climbs
      <4> QED  BY ONLY <2>3, <2>5, <4>1, <4>2
    <3> QED  BY <3>1, <3>2
  <2>7. Climbs(h, leaf, path, index, k + 1)  BY <2>2, <2>6 DEF Climbs
  <2> QED  BY <2>7
<1> HIDE DEF P
<1>3. \A k \in Nat : k \in P  BY <1>1, <1>2, SetInduction
<1> QED  BY <1>3 DEF P

\* The function that Climb is the last value of.
LEMMA ClimbIsLast ==
    ASSUME NEW leaf, NEW path, NEW index, Len(path) \in Nat
    PROVE  \E f : Climbs(f, leaf, path, index, Len(path)) /\ Climb(leaf, path, index) = f[Len(path)]
<1> DEFINE Step(f) == [level \in 0 .. Len(path) |-> StepOf(f, leaf, path, index, level)]
           node == CHOOSE f : f = Step(f)
<1>1. Climb(leaf, path, index) = node[Len(path)]  BY DEF Climb, StepOf
<1>2. \E f : f = Step(f)
  <2>1. PICK f : Climbs(f, leaf, path, index, Len(path))  BY ClimbsExist
  <2> DEFINE g == [level \in 0 .. Len(path) |-> f[level]]
  <2>2. ASSUME NEW i \in 0 .. Len(path) PROVE g[i] = StepOf(g, leaf, path, index, i)
    <3>1. f[i] = StepOf(f, leaf, path, index, i) /\ g[i] = f[i]  BY <2>1 DEF Climbs
    <3>2. CASE i = 0  BY <3>1, <3>2 DEF StepOf
    <3>3. CASE i # 0
      <4>1. i - 1 \in 0 .. Len(path)  BY <3>3
      <4>2. g[i - 1] = f[i - 1]  BY <4>1
      <4> QED  BY ONLY <3>1, <3>3, <4>2 DEF StepOf
    <3> QED  BY <3>2, <3>3
  <2>3. g = [level \in 0 .. Len(path) |-> g[level]]  OBVIOUS
  <2> HIDE DEF g
  <2>4. g = Step(g)  BY ONLY <2>2, <2>3
  <2> QED  BY <2>4
<1>3. node = Step(node)  BY ONLY <1>2
<1> HIDE DEF node
<1>4. Climbs(node, leaf, path, index, Len(path))
  <2>1. DOMAIN Step(node) = 0 .. Len(path)
        /\ \A i \in 0 .. Len(path) : Step(node)[i] = StepOf(node, leaf, path, index, i)
    OBVIOUS
  <2> HIDE DEF Step
  <2> QED  BY ONLY <1>3, <2>1 DEF Climbs
<1> QED  BY <1>1, <1>4

-------------------------------------------------------------------------------
(* Paths *)

\* The node `level` steps above leaf `index`, and the same counted from the left
\* end of its row.
Above(depth, index, level) == (2^depth + index) \div 2^level

AcrossAt(index, level) == index \div 2^level

InRow(depth, index, level) ==
    /\ AcrossAt(index, level) \in Nat
    /\ AcrossAt(index, level) < 2^(depth - level)
    /\ Above(depth, index, level) = 2^(depth - level) + AcrossAt(index, level)
    /\ Above(depth, index, level) <= 2 * 2^depth - 1

LEMMA Halves ==
    ASSUME NEW depth \in Nat, NEW index \in Nat, NEW level \in Nat
    PROVE  /\ Above(depth, index, level + 1) = Above(depth, index, level) \div 2
           /\ AcrossAt(index, level + 1) = AcrossAt(index, level) \div 2
<1>1. 2^level \in Nat \ {0} /\ 2^(level + 1) = 2 * 2^level /\ 2^depth \in Nat  BY PowersOfTwo
<1>2. (2^depth + index) \div (2 * 2^level) = ((2^depth + index) \div 2^level) \div 2
  <2>1. 2^depth + index \in Nat  BY <1>1
  <2> QED  BY ONLY <1>1, <2>1, HalfOfAQuotient
<1>3. index \div (2 * 2^level) = (index \div 2^level) \div 2  BY ONLY <1>1, HalfOfAQuotient, index \in Nat
<1> QED  BY <1>1, <1>2, <1>3 DEF Above, AcrossAt

LEMMA EveryRow ==
    ASSUME NEW depth \in Nat, NEW index \in 0 .. 2^depth - 1
    PROVE  \A level \in 0 .. depth : InRow(depth, index, level)
<1> DEFINE P == {level \in Nat : level <= depth => InRow(depth, index, level)}
<1>0. 2^depth \in Nat \ {0} /\ index \in Nat /\ index < 2^depth  BY PowersOfTwo
<1>1. 0 \in P
  <2>1. PICK n \in Nat \ {0} : n = 2^depth  BY <1>0
  <2>2. n \div 1 = n /\ index \div 1 = index /\ (n + index) \div 1 = n + index  BY <1>0, <2>1
  <2>3. Above(depth, index, 0) = n + index /\ AcrossAt(index, 0) = index
    BY ONLY <2>1, <2>2, PowersOfTwo DEF Above, AcrossAt
  <2>4. depth - 0 = depth  OBVIOUS
  <2>5. InRow(depth, index, 0)  BY ONLY <1>0, <2>1, <2>3, <2>4 DEF InRow
  <2> QED  BY <2>5
<1>2. ASSUME NEW level \in Nat, level \in P PROVE level + 1 \in P
  <2>1. SUFFICES ASSUME level + 1 <= depth PROVE InRow(depth, index, level + 1)  OBVIOUS
  <2>2. InRow(depth, index, level)  BY <1>2, <2>1
  <2>3. PICK m \in Nat : m = depth - (level + 1) /\ depth - level = m + 1  BY <2>1
  <2>4. 2^m \in Nat \ {0} /\ 2^(m + 1) = 2 * 2^m  BY PowersOfTwo
  <2>5. PICK n \in Nat, w \in Nat : n = 2^depth /\ w = 2^m  BY <1>0, <2>4
  <2>6. PICK x \in Nat : x = AcrossAt(index, level)  BY <2>2 DEF InRow
  <2>7. x < 2 * w /\ Above(depth, index, level) = 2 * w + x /\ 2 * w + x <= 2 * n - 1
    BY ONLY <2>2, <2>3, <2>4, <2>5, <2>6 DEF InRow
  <2>8. x \div 2 \in Nat /\ x \div 2 < w /\ (2 * w + x) \div 2 = w + (x \div 2)
        /\ w + (x \div 2) <= 2 * n - 1
    BY ONLY <2>7, x \in Nat, w \in Nat, n \in Nat
  <2>9. /\ Above(depth, index, level + 1) = w + (x \div 2)
        /\ AcrossAt(index, level + 1) = x \div 2
    BY ONLY <1>0, <2>6, <2>7, <2>8, Halves, depth \in Nat, level \in Nat
  <2> QED  BY ONLY <2>3, <2>5, <2>8, <2>9 DEF InRow
<1> HIDE DEF P
<1>3. \A level \in Nat : level \in P  BY <1>1, <1>2, SetInduction
<1> QED  BY <1>3 DEF P

\* Bit `level` of the index says which child the node is.
LEMMA ChildOf ==
    ASSUME NEW depth \in Nat, NEW index \in 0 .. 2^depth - 1, NEW level \in 0 .. depth - 1,
           NEW p, p = Above(depth, index, level + 1)
    PROVE  /\ p \in 1 .. 2^depth - 1
           /\ IsRight(index, level) =>
                 /\ Above(depth, index, level) = 2 * p + 1
                 /\ Sibling(Above(depth, index, level)) = 2 * p
           /\ ~ IsRight(index, level) =>
                 /\ Above(depth, index, level) = 2 * p
                 /\ Sibling(Above(depth, index, level)) = 2 * p + 1
<1>1. level \in 0 .. depth /\ level + 1 \in 0 .. depth /\ level \in Nat  OBVIOUS
<1>2. InRow(depth, index, level) /\ InRow(depth, index, level + 1)  BY <1>1, EveryRow
<1>3. PICK m \in Nat : depth - level = m + 1 /\ depth - (level + 1) = m
  <2>1. depth - (level + 1) \in Nat /\ depth - level = (depth - (level + 1)) + 1  OBVIOUS
  <2> QED  BY <2>1
<1>4. 2^m \in Nat \ {0} /\ 2^(m + 1) = 2 * 2^m /\ 2^depth \in Nat \ {0}  BY PowersOfTwo
<1>5. PICK n \in Nat \ {0}, w \in Nat \ {0}, x \in Nat : n = 2^depth /\ w = 2^m /\ x = AcrossAt(index, level)
  BY <1>2, <1>4 DEF InRow
<1>6. Above(depth, index, level) = 2 * w + x /\ 2 * w + x <= 2 * n - 1
  BY ONLY <1>2, <1>3, <1>4, <1>5 DEF InRow
<1>7. p = (2 * w + x) \div 2
  <2>1. index \in Nat  BY <1>4
  <2>2. Above(depth, index, level + 1) = Above(depth, index, level) \div 2
    BY ONLY <1>1, <2>1, Halves, depth \in Nat
  <2> QED  BY ONLY <1>6, <2>2, p = Above(depth, index, level + 1)
<1>8. p = w + (x \div 2) /\ p \in 1 .. n - 1
  BY ONLY <1>6, <1>7, n \in Nat \ {0}, w \in Nat \ {0}, x \in Nat
<1>9. IsRight(index, level) <=> x % 2 = 1  BY ONLY <1>5 DEF IsRight, AcrossAt
<1>10. CASE x % 2 = 1
  <2>1. 2 * w + x = 2 * p + 1 /\ (2 * p + 1) % 2 = 1 /\ (2 * p + 1) - 1 = 2 * p
    BY ONLY <1>8, <1>10, n \in Nat \ {0}, w \in Nat \ {0}, x \in Nat
  <2>2. Above(depth, index, level) = 2 * p + 1  BY ONLY <1>6, <2>1
  <2>3. Sibling(2 * p + 1) = 2 * p  BY ONLY <2>1 DEF Sibling
  <2> QED  BY ONLY <1>5, <1>8, <1>9, <1>10, <2>2, <2>3
<1>11. CASE x % 2 # 1
  <2>1. 2 * w + x = 2 * p /\ (2 * p) % 2 = 0
    BY ONLY <1>8, <1>11, n \in Nat \ {0}, w \in Nat \ {0}, x \in Nat
  <2>2. Above(depth, index, level) = 2 * p  BY ONLY <1>6, <2>1
  <2>3. Sibling(2 * p) = 2 * p + 1  BY ONLY <2>1 DEF Sibling
  <2> QED  BY ONLY <1>5, <1>8, <1>9, <1>11, <2>2, <2>3
<1> QED  BY <1>10, <1>11

\* A climb ends at the root of a tree it follows.
LEMMA TopIsRoot ==
    ASSUME NEW depth \in Nat, NEW index \in 0 .. 2^depth - 1
    PROVE  Above(depth, index, 0) = 2^depth + index /\ Above(depth, index, depth) = 1
<1>1. 2^depth \in Nat \ {0} /\ 2^0 = 1 /\ index \in Nat  BY PowersOfTwo
<1>2. InRow(depth, index, depth) /\ depth - depth = 0  BY EveryRow
<1>3. Above(depth, index, depth) = 1
  <2>1. AcrossAt(index, depth) \in Nat /\ AcrossAt(index, depth) < 1
        /\ Above(depth, index, depth) = 1 + AcrossAt(index, depth)
    BY ONLY <1>1, <1>2 DEF InRow
  <2> QED  BY <2>1
<1>4. (2^depth + index) \div 1 = 2^depth + index  BY <1>1
<1> QED  BY <1>1, <1>3, <1>4 DEF Above

LEMMA PathShape ==
    ASSUME NEW leaves, NEW depth \in Nat, NEW index \in 0 .. 2^depth - 1
    PROVE  /\ Len(MerklePath(leaves, depth, index)) = depth
           /\ \A level \in 0 .. depth - 1 :
                 MerklePath(leaves, depth, index)[level + 1] =
                     Tree(leaves, depth)[Sibling(Above(depth, index, level))]
<1> DEFINE tree == Tree(leaves, depth)
           path == [level \in 1 .. depth |-> tree[Sibling((2^depth + index) \div 2^(level - 1))]]
<1>1. MerklePath(leaves, depth, index) = path  BY DEF MerklePath
<1> HIDE DEF tree
<1>2. Len(path) = depth
  <2>1. DOMAIN path = 1 .. depth  OBVIOUS
  <2>2. PICK S : \A i \in 1 .. depth : path[i] \in S
    <3>1. \A i \in 1 .. depth : path[i] \in {path[j] : j \in 1 .. depth}  OBVIOUS
    <3> QED  BY ONLY <3>1
  <2>3. path = [i \in 1 .. depth |-> path[i]]  OBVIOUS
  <2> HIDE DEF path
  <2>4. path \in [1 .. depth -> S]  BY ONLY <2>1, <2>2, <2>3
  <2> QED  BY <2>4
<1>3. ASSUME NEW level \in 0 .. depth - 1
      PROVE path[level + 1] = tree[Sibling(Above(depth, index, level))]
  <2>1. level + 1 \in 1 .. depth /\ (level + 1) - 1 = level  OBVIOUS
  <2> QED  BY <2>1 DEF Above
<1> HIDE DEF path
<1> QED  BY <1>1, <1>2, <1>3 DEF tree

\* The path of a tree leads from its leaf to its root.
THEOREM PathLeadsToRoot ==
    ASSUME NEW leaves, NEW depth \in Nat, NEW index \in 0 .. 2^depth - 1
    PROVE  Climb(LeafAt(leaves, index), MerklePath(leaves, depth, index), index)
               = Root(leaves, depth)
<1> DEFINE tree == Tree(leaves, depth)
           leaf == LeafAt(leaves, index)
           at(level) == Above(depth, index, level)
<1>0. PICK path : path = MerklePath(leaves, depth, index)  OBVIOUS
<1>1. /\ Len(path) = depth
      /\ \A level \in 0 .. depth - 1 : path[level + 1] = tree[Sibling(at(level))]
  BY <1>0, PathShape
<1>2. PICK f : Climbs(f, leaf, path, index, depth) /\ Climb(leaf, path, index) = f[depth]
  BY <1>1, ClimbIsLast
<1>3. tree[at(0)] = leaf  BY TopIsRoot, TreeLeaves
<1>4. \A level \in 0 .. depth - 1 :
          /\ at(level + 1) \in 1 .. 2^depth - 1
          /\ IsRight(index, level) =>
                at(level) = 2 * at(level + 1) + 1 /\ Sibling(at(level)) = 2 * at(level + 1)
          /\ ~ IsRight(index, level) =>
                at(level) = 2 * at(level + 1) /\ Sibling(at(level)) = 2 * at(level + 1) + 1
  BY ChildOf
<1>5. \A i \in 1 .. 2^depth - 1 : tree[i] = HashTwo(tree[2 * i], tree[2 * i + 1])  BY TreeParents
<1>6. at(depth) = 1 /\ Root(leaves, depth) = tree[1]  BY TopIsRoot DEF Root
<1> HIDE DEF tree, leaf, at
<1> DEFINE P == {level \in Nat : level <= depth => f[level] = tree[at(level)]}
<1>7. 0 \in P
  <2>1. 0 \in 0 .. depth  OBVIOUS
  <2>2. f[0] = leaf  BY <1>2, <2>1 DEF Climbs, StepOf
  <2> QED  BY <1>3, <2>2
<1>8. ASSUME NEW level \in Nat, level \in P PROVE level + 1 \in P
  <2>1. SUFFICES ASSUME level + 1 <= depth PROVE f[level + 1] = tree[at(level + 1)]  OBVIOUS
  <2>2. level \in 0 .. depth - 1 /\ level + 1 \in 0 .. depth /\ level + 1 # 0
        /\ (level + 1) - 1 = level
    BY <2>1
  <2>3. f[level] = tree[at(level)]  BY <1>8, <2>1
  <2>4. f[level + 1] = StepOf(f, leaf, path, index, level + 1)  BY ONLY <1>2, <2>2 DEF Climbs
  <2>5. tree[at(level + 1)] = HashTwo(tree[2 * at(level + 1)], tree[2 * at(level + 1) + 1])
    BY ONLY <1>4, <1>5, <2>2
  <2>6. path[level + 1] = tree[Sibling(at(level))]  BY ONLY <1>1, <2>2
  <2> QED  BY ONLY <1>4, <2>2, <2>3, <2>4, <2>5, <2>6 DEF StepOf
<1> HIDE DEF P
<1>9. depth \in P  BY <1>7, <1>8, SetInduction
<1> QED  BY <1>0, <1>2, <1>6, <1>9 DEF P, leaf, tree

LEMMA HashesAreOneToOne ==
    ASSUME NEW a, NEW b, NEW c, NEW d, HashTwo(a, b) = HashTwo(c, d)
    PROVE  a = c /\ b = d
BY DEF HashTwo

\* A path of the tree's length that leads from a leaf to the root is of the leaf
\* the tree has there.
THEOREM RootBindsLeaves ==
    ASSUME NEW leaves, NEW depth \in Nat, NEW index \in 0 .. 2^depth - 1,
           NEW leaf, NEW path, Len(path) = depth,
           Climb(leaf, path, index) = Root(leaves, depth)
    PROVE  leaf = LeafAt(leaves, index)
<1> DEFINE tree == Tree(leaves, depth)
           at(level) == Above(depth, index, level)
<1>2. PICK f : Climbs(f, leaf, path, index, depth) /\ Climb(leaf, path, index) = f[depth]
  BY ClimbIsLast
<1>3. tree[at(0)] = LeafAt(leaves, index)  BY TopIsRoot, TreeLeaves
<1>4. \A level \in 0 .. depth - 1 :
          /\ at(level + 1) \in 1 .. 2^depth - 1
          /\ IsRight(index, level) => at(level) = 2 * at(level + 1) + 1
          /\ ~ IsRight(index, level) => at(level) = 2 * at(level + 1)
  BY ChildOf
<1>5. \A i \in 1 .. 2^depth - 1 : tree[i] = HashTwo(tree[2 * i], tree[2 * i + 1])  BY TreeParents
<1>6. at(depth) = 1 /\ Root(leaves, depth) = tree[1]  BY TopIsRoot DEF Root
<1>6a. f[depth] = tree[at(depth)]  BY <1>2, <1>6
<1> HIDE DEF tree, at
<1> DEFINE P == {k \in Nat : k <= depth => f[depth - k] = tree[at(depth - k)]}
<1>7. 0 \in P
  <2>1. depth - 0 = depth  OBVIOUS
  <2> QED  BY <1>6a, <2>1
<1>8. ASSUME NEW k \in Nat, k \in P PROVE k + 1 \in P
  <2>1. SUFFICES ASSUME k + 1 <= depth PROVE f[depth - (k + 1)] = tree[at(depth - (k + 1))]
    OBVIOUS
  <2>2. PICK level \in 0 .. depth - 1 :
            level = depth - (k + 1) /\ level + 1 = depth - k /\ level + 1 \in 0 .. depth
            /\ level + 1 # 0 /\ (level + 1) - 1 = level
    <3>1. depth - (k + 1) \in 0 .. depth - 1  BY <2>1
    <3> QED  BY <3>1
  <2>3. f[level + 1] = tree[at(level + 1)]  BY <1>8, <2>1, <2>2
  <2>4. f[level + 1] = StepOf(f, leaf, path, index, level + 1)  BY ONLY <1>2, <2>2 DEF Climbs
  <2>5. tree[at(level + 1)] = HashTwo(tree[2 * at(level + 1)], tree[2 * at(level + 1) + 1])
    BY ONLY <1>4, <1>5, <2>2
  <2>6. f[level] = tree[at(level)]
    <3>1. CASE IsRight(index, level)
      <4>1. f[level + 1] = HashTwo(path[level + 1], f[level])  BY ONLY <2>2, <2>4, <3>1 DEF StepOf
      <4>2. at(level) = 2 * at(level + 1) + 1  BY ONLY <1>4, <2>2, <3>1
      <4> QED  BY ONLY <2>3, <2>5, <4>1, <4>2, HashesAreOneToOne
    <3>2. CASE ~ IsRight(index, level)
      <4>1. f[level + 1] = HashTwo(f[level], path[level + 1])  BY ONLY <2>2, <2>4, <3>2 DEF StepOf
      <4>2. at(level) = 2 * at(level + 1)  BY ONLY <1>4, <2>2, <3>2
      <4> QED  BY ONLY <2>3, <2>5, <4>1, <4>2, HashesAreOneToOne
    <3> QED  BY <3>1, <3>2
  <2> QED  BY ONLY <2>2, <2>6
<1> HIDE DEF P
<1>9. depth \in P  BY <1>7, <1>8, SetInduction
<1>10. f[0] = tree[at(0)]  BY <1>9 DEF P
<1>11. f[0] = leaf
  <2>1. 0 \in 0 .. depth  OBVIOUS
  <2> QED  BY <1>2, <2>1 DEF Climbs, StepOf
<1> QED  BY <1>3, <1>10, <1>11
===============================================================================
