------------------------------- MODULE MCKGame -------------------------------
(***************************************************************************)
(* TLC's instances of KGame: two players, one on a fast connection (one    *)
(* frame in a packet) and one on a slower (two), so that the server cuts   *)
(* the frames differently for the two.                                     *)
(***************************************************************************)
EXTENDS KGameProps

CONSTANTS p1, p2

MCConset == p1 :> 1 @@ p2 :> 2
MCThroughput == p1 :> 0 @@ p2 :> 1
MCEqualThroughput == p1 :> 1 @@ p2 :> 1
MCInputs == p1 :> {1, 2} @@ p2 :> {1}
MCOneInput == p1 :> {1} @@ p2 :> {1}
=============================================================================
