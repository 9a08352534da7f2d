------------------------------ MODULE MCAwsCost ------------------------------
(* AwsCost for TLC: two instances of one type and two volumes, each of its *)
(* own type.  A price query may be answered with an empty list, with more  *)
(* than one document, of which the first is read, and with blank, garbled  *)
(* and different numbers in it.                                            *)
EXTENDS AwsCost

MCInstanceType == [i \in Instances |-> "t4g"]
MCVolumeType   == [v \in Volumes |-> v]
MCSize         == [v \in Volumes |-> 8]
MCPriceLists   ==
    [t \in Volumes \cup {"t4g"} |->
        IF t = "t4g" THEN {<<>>, <<{Blank, 3}, {9}>>, <<{Garbled}>>, <<{Blank}>>}
        ELSE {<<{2, 5}, {3}>>, <<{}>>, <<{Garbled, 2}>>}]
=============================================================================
