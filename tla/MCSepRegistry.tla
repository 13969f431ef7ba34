----------------------------- MODULE MCSepRegistry -----------------------------
(* Constants of the runs of SepRegistry that are not plain values. *)
EXTENDS SepRegistry, TLC

MCCapacity == [t \in Tiers |-> 2 + t]

Symmetry == Permutations(Ids) \cup Permutations(Commitments)
===============================================================================
