------------------------------ MODULE MCP2PGame ------------------------------
(***************************************************************************)
(* TLC's instances of P2PGame.  The safety run has a delay of two frames,  *)
(* so that every message is sent three times and two first datagrams in a  *)
(* row may get lost; the liveness run a delay of one, with every message   *)
(* sent twice.                                                             *)
(***************************************************************************)
EXTENDS P2PGameProps, TLC

CONSTANTS host, peer

MCInputs == host :> {1, 2} @@ peer :> {1}
MCOneInput == host :> {1} @@ peer :> {1}
=============================================================================
