-------------------------------- MODULE MCPlay --------------------------------
(***************************************************************************)
(* TLC's instance of a game while it is played: the frames of two players  *)
(* without a server (P2PGame), the threads of one client with the word     *)
(* (Frontend) and the connection (Teardown) that they share, and the       *)
(* stream to spectators (LiveStream).  The four share no state; one        *)
(* behaviour runs one of them, chosen at the start, with the others        *)
(* standing still.                                                         *)
(***************************************************************************)
EXTENDS MCP2PGame, Frontend, Teardown, LiveStreamProps

VARIABLE part
playVars == <<part, vars, frontVars, teardownVars, streamVars>>

PlayInit ==
  /\ part \in {"frames", "frontend", "teardown", "stream"}
  /\ Init /\ FrontInit /\ TeardownInit /\ StreamInit

PlayNext ==
  /\ UNCHANGED part
  /\ \/ part = "frames" /\ Next /\ UNCHANGED <<frontVars, teardownVars, streamVars>>
     \/ part = "frontend" /\ FrontNext /\ UNCHANGED <<vars, teardownVars, streamVars>>
     \/ part = "teardown" /\ TeardownNext /\ UNCHANGED <<vars, frontVars, streamVars>>
     \/ part = "stream" /\ StreamNext /\ UNCHANGED <<vars, frontVars, teardownVars>>

PlaySpec == PlayInit /\ [][PlayNext]_playVars
=============================================================================
