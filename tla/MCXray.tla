------------------------------- MODULE MCXray -------------------------------
(***************************************************************************)
(* TLC instances of XrayLifecycle.                                         *)
(***************************************************************************)
EXTENDS XrayLifecycle

CONSTANTS i1, e1, o1, flag, watchdog, s1, s2, s3

OneInbound == {i1}
OneEditor == {e1}
OneOperator == {o1}
ThreeSlots == {s1, s2, s3}
=============================================================================
