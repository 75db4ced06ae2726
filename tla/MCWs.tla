-------------------------------- MODULE MCWs --------------------------------
(***************************************************************************)
(* TLC instance of WsHub.                                                  *)
(***************************************************************************)
EXTENDS WsHub

CONSTANTS c1, c2

TwoClients == {c1, c2}
=============================================================================
