------------------------------ MODULE MCTraffic ------------------------------
(***************************************************************************)
(* TLC instances of TrafficReset.                                          *)
(***************************************************************************)
EXTENDS TrafficReset

CONSTANT i1

OneInbound == {i1}

\* A month without a third day, and one with it.
ShortMonths == <<2, 3>>

\* A month with a day after the second, and one that ends before it.
FallingMonths == <<3, 1>>

Default == [method |-> "custom_date", day |-> 2]
=============================================================================
