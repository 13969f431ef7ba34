------------------------------- MODULE Poseidon -------------------------------
(***************************************************************************)
(* The hash that every tree and commitment of the system is built from,    *)
(* taken as free of collisions: a field element is a term, and two terms   *)
(* are equal only when they were built alike.  On it, the Merkle tree of a *)
(* roster (src/src/merkle) and the commitment to a tree, an epoch and a    *)
(* salt (src/src/commitment).                                              *)
(***************************************************************************)
EXTENDS Naturals, Sequences

Num(n)    == <<"num", n>>     \* a small number as a field element
Secret(k) == <<"key", k>>     \* the secret key of a member
Salt(s)   == <<"salt", s>>

Zero == Num(0)

HashTwo(x, y) == <<"hash", x, y>>

\* One input is absorbed into the same state, whose second slot stays zero.
HashOne(x) == HashTwo(x, Zero)

Leaf(k) == HashOne(Secret(k))

-------------------------------------------------------------------------------
(* Trees.  A tree is its nodes by heap index: 1 is the root, the children  *)
(* of i are 2i and 2i+1, and the leaves are the last half.                 *)

Tree(leaves, depth) ==
    LET n == 2^depth
        node[i \in 1 .. 2 * n - 1] ==
            IF i >= n THEN IF i - n < Len(leaves) THEN leaves[i - n + 1] ELSE Zero
                      ELSE HashTwo(node[2 * i], node[2 * i + 1])
    IN  node

Root(leaves, depth) == Tree(leaves, depth)[1]

Sibling(i) == IF i % 2 = 0 THEN i + 1 ELSE i - 1

\* The siblings from the leaf at `index` up to the children of the root.
MerklePath(leaves, depth, index) ==
    LET tree == Tree(leaves, depth)
    IN  [level \in 1..depth |-> tree[Sibling((2^depth + index) \div 2^(level - 1))]]

\* Bit `level` of a leaf index says on which side of its parent a node is.
IsRight(index, level) == (index \div 2^level) % 2 = 1

\* The root that a leaf and a path lead to.
Climb(leaf, path, index) ==
    LET node[level \in 0..Len(path)] ==
            IF level = 0 THEN leaf
            ELSE IF IsRight(index, level - 1) THEN HashTwo(path[level], node[level - 1])
                                              ELSE HashTwo(node[level - 1], path[level])
    IN  node[Len(path)]

-------------------------------------------------------------------------------
(* Commitments *)

Commitment(root, epoch, salt) == HashTwo(HashTwo(root, Num(epoch)), salt)
===============================================================================
