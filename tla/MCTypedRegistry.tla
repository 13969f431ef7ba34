---------------------------- MODULE MCTypedRegistry ----------------------------
(* Constants of the run of TypedRegistry that are not plain values. *)
EXTENDS TypedRegistry

MCGroupFr == [id \in Ids |-> <<"group", id>>]

MCDepth == [t \in 0..2 |-> 1]

MCRosters == {<<1>>, <<1, 2>>}

MCMaxUpdates == [k \in Kinds |-> IF k = "oligarchy" THEN 1 ELSE 2]
===============================================================================
