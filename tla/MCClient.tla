------------------------------- MODULE MCClient -------------------------------
(***************************************************************************)
(* TLC's instance of what goes on in one client around its games: meeting  *)
(* another client without a server (P2PLobby), watching a stream           *)
(* (WatchLive) and the updater (Updater).  The three share no state; one   *)
(* behaviour runs one of them, chosen at the start, with the others        *)
(* standing still.                                                         *)
(***************************************************************************)
EXTENDS MCUpdater, WatchLive, P2PLobby

\* A stream of four frames, with a chat line before the first and one in
\* the middle (the memory card marker is such a line).
U(kind, frame) == [kind |-> kind, frame |-> frame]
Input(frame) == <<U("head", frame), U("input", frame)>>
Line == <<U("chat", 0), U("text", 0)>>
MCFile == <<U("header", 0)>> \o Line \o Input(1) \o Input(2) \o Line \o Input(3) \o Input(4)

\* The lobby of two players without a server: both, or neither, have an account; the host chose the
\* ISO's card the last time, the client its own.
MCSettings == {[logged |-> [p \in Sides |-> p \in l],
                choice |-> [p \in Sides |-> IF p = "host" THEN "iso" ELSE "online"]] : l \in {Sides, {}}}

VARIABLE part
clientVars == <<part, uvars, watchVars, p2pLobbyVars>>

ClientInit ==
  /\ part \in {"updater", "watch", "p2p"}
  /\ UInit /\ WatchInit /\ P2PLobbyInit
  /\ part # "updater" => published = 1 /\ \A f \in Files : disk[f]["full"] = BuiltIn[f][1]
  /\ part # "p2p" => \A p \in Sides : logged[p]

ClientNext ==
  /\ UNCHANGED part
  /\ \/ /\ part = "updater" /\ UNext
        /\ UNCHANGED <<watchVars, p2pLobbyVars>>
     \/ /\ part = "watch" /\ WatchNext
        /\ UNCHANGED <<uvars, p2pLobbyVars>>
     \/ /\ part = "p2p" /\ P2PLobbyNext
        /\ UNCHANGED <<uvars, watchVars>>

ClientSpec == ClientInit /\ [][ClientNext]_clientVars
=============================================================================
