-------------------------------- MODULE MCLobby --------------------------------
(***************************************************************************)
(* TLC's instance of everything that happens in a room around a game: who  *)
(* is in it (Room), what its players set up together before the start      *)
(* (RoomSetup) and a recorded game they continue (RetryConnect).  The three*)
(* share no state; one behaviour runs one of them, chosen at the start,    *)
(* with the others standing still.                                         *)
(***************************************************************************)
EXTENDS RoomProps, RoomSetupProps, MCRetryConnect

\* Two users, and the ids of the two rooms that may ever be made.
CONSTANTS u1, u2
MCGames == <<1, 2>>

\* The host and ana are in the room; bia, who may join, is logged in with
\* an account of another name.
CONSTANTS host, ana, bia
MCNicks == {host, ana, bia}
MCLogins == [n \in MCNicks |-> IF n = bia THEN "other" ELSE "own"]
MCSaved == [n \in MCNicks |-> IF n = bia THEN "iso" ELSE "online"]
MCPresent == <<host, ana>>

VARIABLE part
lobbyVars == <<part, roomVars, setupVars, retryVars>>

LobbyInit == part \in {"room", "setup", "retry"} /\ RoomInit /\ SetupInit /\ RetryInit

LobbyNext ==
  /\ UNCHANGED part
  /\ \/ part = "room" /\ RoomNext /\ UNCHANGED <<setupVars, retryVars>>
     \/ part = "setup" /\ SetupNext /\ UNCHANGED <<roomVars, retryVars>>
     \/ part = "retry" /\ RetryNext /\ UNCHANGED <<roomVars, setupVars>>

\* The guests of RetryConnect are alike.
Alike == Permutations(Peers)

LobbySpec == LobbyInit /\ [][LobbyNext]_lobbyVars
=============================================================================
