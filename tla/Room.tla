--------------------------------- MODULE Room ---------------------------------
(***************************************************************************)
(* Logging in to a Kaillera server, its rooms, and what the window shows   *)
(* of them (kcore/kaillera_core.cpp, the callbacks of kaillera_ui.cpp):    *)
(* create, join, leave, kick, start, drop, close, disconnect.              *)
(*                                                                         *)
(* The server is external: it handles a request when it is sent and puts   *)
(* its messages in the inbox of each user, who reads them in that order    *)
(* and at its own pace; only the reader's delay can be told apart.         *)
(* k_message may give a message up (KMessage): MaxSkips.  The game itself  *)
(* is KGame's.                                                             *)
(***************************************************************************)
EXTENDS Integers, Sequences, FiniteSets, SequencesExt

CONSTANTS
  Users,
  Games,        \* the game ids the server hands out, in that order
  Ids,          \* the user ids it hands out, one for each connection
  Patient,      \* whether users wait for the server's answer to a request before the next one
  MaxActs,      \* bound: requests of all users together
  MaxSkips      \* bound: messages k_message gives up

ASSUME RoomAssumption ==
  /\ Games \in Seq(Nat \ {0}) /\ IsInjective(Games) /\ Ids \subseteq Nat
  /\ Patient \in BOOLEAN /\ MaxActs \in Nat /\ MaxSkips \in Nat

VARIABLES
  connected,    \* external: whom the server has logged in
  idOf,         \* external: the id of each user's present connection
  roomOf,       \* external: the game id of the room a user is in, or 0
  ownerOf,      \* external: the owner of each game id handed out
  playing,      \* external: the users whose game runs
  mail,         \* what the server sent a user and was not read
  userstat,     \* USERSTAT: 0 = dc; 1 = connected; 2 = logged in; 3 = in game
  playerstat,   \* PLAYERSTAT: -1 none, 0 idle, 1 a game has begun
  isOwner, gameIdRequested, gameId, userIdRequested, leaveRequested,
  userId,       \* user_id: the id it thinks it has; what an earlier connection left, until it learns one
  page, hosting,\* the window: "lobby" or "room", with the owner's buttons or not
  awaiting,     \* the answer the last request still waits for, or "none"
  toldKicked, kicked,  \* history, of this connection: "You have been kicked", and who really was
  belief,       \* history: whether userId is "stale", the user's "own", or, stale, has "misled" it
  acts, skips   \* history

serverVars == <<connected, idOf, roomOf, ownerOf, playing>>
coreVars == <<userstat, playerstat, isOwner, gameIdRequested, gameId, userIdRequested,
              leaveRequested, userId>>
windowVars == <<page, hosting, toldKicked>>
roomVars == <<serverVars, mail, coreVars, windowVars, awaiting, kicked, belief, acts, skips>>
-----------------------------------------------------------------------------
\* Messages of the server

Msg(kind, who, game) ==
  [kind |-> kind, who |-> who, game |-> game,
   id |-> IF kind \in {"GAMRJOIN", "GAMRLEAV"} THEN idOf[who] ELSE 0]

Send(toUsers, msgs(_)) == [u \in Users |-> mail[u] \o (IF u \in toUsers THEN msgs(u) ELSE <<>>)]

In(g) == {u \in Users : roomOf[u] = g}
Known == DOMAIN ownerOf

\* A request of u: MaxActs of them; a patient user waits for the message that answers its last.
Requests(u, answer) ==
  /\ acts < MaxActs /\ acts' = acts + 1
  /\ Patient => awaiting[u] = "none"
  /\ awaiting' = [awaiting EXCEPT ![u] = answer]
-----------------------------------------------------------------------------
\* Requests.  The server's part follows the client's in each.

\* kaillera_core_connect: HELLO, and USERLOGN when the server replies.  The server's id for u is
\* one of this connection; user_id keeps what an earlier one left in it.
Connect(u) ==
  /\ userstat[u] = 0 /\ u \notin connected /\ Requests(u, "USERJOIN")
  /\ userstat' = [userstat EXCEPT ![u] = 1]
  /\ playerstat' = [playerstat EXCEPT ![u] = -1]
  /\ connected' = connected \cup {u}
  /\ \E id \in Ids \ {idOf[v] : v \in connected} : idOf' = [idOf EXCEPT ![u] = id]
  /\ mail' = Send(connected', LAMBDA v : (IF v = u THEN <<Msg("LONGSUCC", u, 0)>> ELSE <<>>)
                                         \o <<Msg("USERJOIN", u, 0)>>)
  /\ UNCHANGED <<roomOf, ownerOf, playing, isOwner, gameIdRequested, gameId, userIdRequested,
                 leaveRequested, userId, windowVars, kicked, belief, skips>>

\* kaillera_create_game, from the lobby's menu.
CreateGame(u) ==
  LET g == Games[Cardinality(Known) + 1]
      refused == roomOf[u] # 0
  IN /\ page[u] = "lobby" /\ userstat[u] > 1 /\ Cardinality(Known) < Len(Games)
     /\ Requests(u, IF refused THEN "refused" ELSE "GAMRJOIN")
     /\ gameIdRequested' = [gameIdRequested EXCEPT ![u] = TRUE]
     /\ isOwner' = [isOwner EXCEPT ![u] = TRUE]
     /\ IF refused THEN /\ UNCHANGED <<roomOf, ownerOf>>
                        /\ mail' = Send({u}, LAMBDA v : <<Msg("refused", u, 0)>>)
        ELSE /\ roomOf' = [roomOf EXCEPT ![u] = g]
             /\ ownerOf' = [h \in Known \cup {g} |-> IF h = g THEN u ELSE ownerOf[h]]
             /\ mail' = Send(connected, LAMBDA v : <<Msg("GAMEMAKE", u, g)>> \o
                  (IF v = u THEN <<Msg("GAMRSLST", u, g), Msg("GAMRJOIN", u, g)>> ELSE <<>>))
     /\ UNCHANGED <<connected, idOf, playing, userstat, playerstat, gameId, userIdRequested,
                    leaveRequested, userId, windowVars, kicked, belief, skips>>

\* kaillera_join_game, for a room that the list shows as waiting.
JoinGame(u, g) ==
  LET refused == roomOf[u] # 0 \/ In(g) = {} \/ In(g) \cap playing # {}
  IN /\ page[u] = "lobby" /\ userstat[u] > 1 /\ g \in Known
     /\ Requests(u, IF refused THEN "refused" ELSE "GAMRJOIN")
     /\ gameIdRequested' = [gameIdRequested EXCEPT ![u] = FALSE]
     /\ gameId' = [gameId EXCEPT ![u] = g]
     /\ leaveRequested' = [leaveRequested EXCEPT ![u] = FALSE]
     /\ isOwner' = [isOwner EXCEPT ![u] = FALSE]
     /\ IF refused THEN /\ UNCHANGED roomOf
                        /\ mail' = Send({u}, LAMBDA v : <<Msg("refused", u, 0)>>)
        ELSE /\ roomOf' = [roomOf EXCEPT ![u] = g]
             /\ mail' = Send(In(g) \cup {u}, LAMBDA v :
                  (IF v = u THEN <<Msg("GAMRSLST", u, g)>> ELSE <<>>) \o <<Msg("GAMRJOIN", u, g)>>)
     /\ UNCHANGED <<connected, idOf, ownerOf, playing, userstat, playerstat, userIdRequested, userId,
                    windowVars, kicked, belief, skips>>

\* external: u goes out of its room; without its owner the room is closed.
Depart(u, rest) ==
  LET g == roomOf[u]
      gone == IF ownerOf[g] = u THEN In(g) ELSE {u}
  IN /\ roomOf' = [v \in Users |-> IF v \in gone THEN 0 ELSE roomOf[v]]
     /\ playing' = playing \ gone
     /\ mail' = Send(rest \cap connected, LAMBDA v :
          (IF v \in In(g) THEN <<Msg("GAMRLEAV", u, g)>> ELSE <<>>) \o
          (IF ownerOf[g] = u THEN <<Msg("GAMESHUT", u, g)>> ELSE <<>>))

LeaveGameUnmarked(u) ==               \* mutant: leave_game_requested is not set
  /\ page[u] = "room" /\ Requests(u, IF roomOf[u] = 0 THEN "refused" ELSE "GAMRLEAV")
  /\ playerstat' = [playerstat EXCEPT ![u] = 0]
  /\ page' = [page EXCEPT ![u] = "lobby"] /\ hosting' = [hosting EXCEPT ![u] = FALSE]
  /\ IF roomOf[u] = 0 THEN /\ UNCHANGED <<roomOf, playing>>
                           /\ mail' = Send({u}, LAMBDA v : <<Msg("refused", u, 0)>>)
                      ELSE Depart(u, Users)
  /\ UNCHANGED <<connected, idOf, ownerOf, userstat, isOwner, gameIdRequested, gameId, userIdRequested,
                 leaveRequested, userId, toldKicked, kicked, belief, skips>>

\* kaillera_leave_game and BTN_LEAVE: the window goes back to the lobby at once.
LeaveGame(u) ==
  /\ page[u] = "room" /\ Requests(u, IF roomOf[u] = 0 THEN "refused" ELSE "GAMRLEAV")
  /\ leaveRequested' = [leaveRequested EXCEPT ![u] = TRUE]
  /\ playerstat' = [playerstat EXCEPT ![u] = 0]
  /\ page' = [page EXCEPT ![u] = "lobby"] /\ hosting' = [hosting EXCEPT ![u] = FALSE]
  /\ IF roomOf[u] = 0 THEN /\ UNCHANGED <<roomOf, playing>>
                           /\ mail' = Send({u}, LAMBDA v : <<Msg("refused", u, 0)>>)
                      ELSE Depart(u, Users)
  /\ UNCHANGED <<connected, idOf, ownerOf, userstat, isOwner, gameIdRequested, gameId, userIdRequested,
                 userId, toldKicked, kicked, belief, skips>>

\* kaillera_kick_user: the one kicked is told with the same message as for a player who left.
Kick(h, u) ==
  /\ hosting[h] /\ h # u /\ acts < MaxActs /\ acts' = acts + 1
  /\ roomOf[u] # 0 /\ roomOf[u] = roomOf[h] /\ ownerOf[roomOf[h]] = h
  /\ Depart(u, Users)
  /\ kicked' = kicked \cup {u}
  /\ UNCHANGED <<connected, idOf, ownerOf, coreVars, windowVars, awaiting, belief, skips>>

\* kaillera_start_game, and kaillera_game_drop, which ends the game here.
StartGameOf(h) ==
  /\ hosting[h] /\ acts < MaxActs /\ acts' = acts + 1
  /\ leaveRequested' = [leaveRequested EXCEPT ![h] = FALSE]
  /\ roomOf[h] # 0 /\ ownerOf[roomOf[h]] = h /\ In(roomOf[h]) \cap playing = {}
  /\ playing' = playing \cup In(roomOf[h])
  /\ mail' = Send(In(roomOf[h]), LAMBDA v : <<Msg("GAMEBEGN", h, roomOf[h])>>)
  /\ UNCHANGED <<connected, idOf, roomOf, ownerOf, userstat, playerstat, isOwner, gameIdRequested, gameId,
                 userIdRequested, userId, windowVars, awaiting, kicked, belief, skips>>

DropGame(u) ==
  /\ page[u] = "room" /\ playerstat[u] = 1
  /\ leaveRequested' = [leaveRequested EXCEPT ![u] = FALSE]
  /\ playerstat' = [playerstat EXCEPT ![u] = 0]
  /\ playing' = playing \ {u}
  /\ mail' = IF u \in playing THEN Send(In(roomOf[u]), LAMBDA v : <<Msg("GAMRDROP", u, roomOf[u])>>)
             ELSE mail
  /\ UNCHANGED <<connected, idOf, roomOf, ownerOf, userstat, isOwner, gameIdRequested, gameId,
                 userIdRequested, userId, windowVars, awaiting, kicked, belief, acts, skips>>

\* The window closes: kaillera_disconnect (USERLEAV) and kaillera_core_cleanup.
Disconnect(u) ==
  /\ u \in connected /\ userstat[u] > 1 /\ acts < MaxActs /\ acts' = acts + 1
  /\ connected' = connected \ {u}
  /\ LET g == roomOf[u]
         gone == IF g # 0 /\ ownerOf[g] = u THEN In(g) ELSE {u}
     IN /\ roomOf' = [v \in Users |-> IF v \in gone THEN 0 ELSE roomOf[v]]
        /\ playing' = playing \ gone
        /\ mail' = [v \in Users |-> IF v = u THEN <<>> ELSE mail[v] \o
             IF v \notin connected THEN <<>> ELSE
               (IF g # 0 /\ v \in In(g) THEN <<Msg("GAMRLEAV", u, g)>> ELSE <<>>) \o
               (IF g # 0 /\ ownerOf[g] = u THEN <<Msg("GAMESHUT", u, g)>> ELSE <<>>) \o
               <<Msg("USERLEAV", u, 0)>>]
  /\ userstat' = [userstat EXCEPT ![u] = 0] /\ playerstat' = [playerstat EXCEPT ![u] = -1]
  /\ gameIdRequested' = [gameIdRequested EXCEPT ![u] = FALSE]
  /\ userIdRequested' = [userIdRequested EXCEPT ![u] = FALSE]
  /\ leaveRequested' = [leaveRequested EXCEPT ![u] = FALSE]
  /\ isOwner' = [isOwner EXCEPT ![u] = FALSE]
  /\ page' = [page EXCEPT ![u] = "lobby"] /\ hosting' = [hosting EXCEPT ![u] = FALSE]
  /\ awaiting' = [awaiting EXCEPT ![u] = "none"]
  /\ toldKicked' = [toldKicked EXCEPT ![u] = FALSE] /\ kicked' = kicked \ {u}
  /\ belief' = [belief EXCEPT ![u] = "stale"]
  /\ UNCHANGED <<idOf, ownerOf, gameId, userId, skips>>
-----------------------------------------------------------------------------
\* kaillera_ProcessGeneralInstruction

Next1(u) == Head(mail[u])
Take(u, kind) ==
  /\ mail[u] # <<>> /\ Next1(u).kind = kind
  /\ mail' = [mail EXCEPT ![u] = Tail(@)]
  /\ UNCHANGED <<serverVars, acts, skips>>
Answered(u) ==
  awaiting' = [awaiting EXCEPT ![u] = IF Next1(u).who = u /\ Next1(u).kind = @ THEN "none" ELSE @]

\* LONGSUCC: the server's lists (no user of the same name is on it).
OnServerStatus(u) ==
  /\ Take(u, "LONGSUCC")
  /\ userstat' = [userstat EXCEPT ![u] = IF @ = 1 THEN 2 ELSE @]
  /\ UNCHANGED <<playerstat, isOwner, gameIdRequested, gameId, userIdRequested, leaveRequested,
                 userId, windowVars, awaiting, kicked, belief>>

OnUserJoinOther(u) ==                 \* mutant: one's own join tells nothing
  /\ Take(u, "USERJOIN")
  /\ Answered(u)
  /\ UNCHANGED <<coreVars, windowVars, kicked, belief>>

\* USERJOIN: one's own is proof of the login when LONGSUCC was lost.
OnUserJoin(u) ==
  /\ Take(u, "USERJOIN")
  /\ userstat' = [userstat EXCEPT ![u] = IF @ = 1 /\ Next1(u).who = u THEN 2 ELSE @]
  /\ Answered(u)
  /\ UNCHANGED <<playerstat, isOwner, gameIdRequested, gameId, userIdRequested, leaveRequested,
                 userId, windowVars, kicked, belief>>

OnUserLeave(u) == Take(u, "USERLEAV") /\ UNCHANGED <<coreVars, windowVars, awaiting, kicked, belief>>

\* GAMEMAKE: while a creation is out every id is taken down, and one's own game opens the room.
OnGameMake(u) ==
  LET requested == gameIdRequested[u]
      mine == requested /\ Next1(u).who = u
      Set(f, v) == [f EXCEPT ![u] = IF mine THEN v ELSE @]
  IN /\ Take(u, "GAMEMAKE")
     /\ gameId' = [gameId EXCEPT ![u] = IF requested THEN Next1(u).game ELSE @]
     /\ gameIdRequested' = Set(gameIdRequested, FALSE)
     /\ userIdRequested' = Set(userIdRequested, TRUE)
     /\ userstat' = Set(userstat, 3) /\ playerstat' = Set(playerstat, 0)
     /\ page' = Set(page, "room") /\ hosting' = Set(hosting, TRUE)
     /\ UNCHANGED <<isOwner, leaveRequested, userId, toldKicked, awaiting, kicked, belief>>

OnGameShutAny(u) ==                   \* mutant: any room that closes closes this one
  /\ Take(u, "GAMESHUT")
  /\ userstat' = [userstat EXCEPT ![u] = 2] /\ playerstat' = [playerstat EXCEPT ![u] = -1]
  /\ page' = [page EXCEPT ![u] = "lobby"] /\ hosting' = [hosting EXCEPT ![u] = FALSE]
  /\ UNCHANGED <<isOwner, gameIdRequested, gameId, userIdRequested, leaveRequested, userId,
                 toldKicked, awaiting, kicked, belief>>

\* GAMESHUT and kaillera_user_game_closed_callback.
OnGameShut(u) ==
  LET Set(f, v) == [f EXCEPT ![u] = IF Next1(u).game = gameId[u] THEN v ELSE @]
  IN /\ Take(u, "GAMESHUT")
     /\ userstat' = Set(userstat, 2) /\ playerstat' = Set(playerstat, -1)
     /\ page' = Set(page, "lobby") /\ hosting' = Set(hosting, FALSE)
     /\ UNCHANGED <<isOwner, gameIdRequested, gameId, userIdRequested, leaveRequested, userId,
                    toldKicked, awaiting, kicked, belief>>

OnGameBeginAnyway(u) ==               \* mutant: also after the player left
  /\ Take(u, "GAMEBEGN")
  /\ playerstat' = [playerstat EXCEPT ![u] = 1]
  /\ UNCHANGED <<userstat, isOwner, gameIdRequested, gameId, userIdRequested, leaveRequested,
                 userId, windowVars, awaiting, kicked, belief>>

\* GAMEBEGN, unless the player has left.
OnGameBegin(u) ==
  /\ Take(u, "GAMEBEGN")
  /\ playerstat' = [playerstat EXCEPT ![u] = IF leaveRequested[u] THEN @ ELSE 1]
  /\ UNCHANGED <<userstat, isOwner, gameIdRequested, gameId, userIdRequested, leaveRequested,
                 userId, windowVars, awaiting, kicked, belief>>

\* GAMRSLST and kaillera_user_game_joined_callback.
OnPlayerList(u) ==
  /\ Take(u, "GAMRSLST")
  /\ userstat' = [userstat EXCEPT ![u] = 3] /\ playerstat' = [playerstat EXCEPT ![u] = 0]
  /\ IF isOwner[u] THEN UNCHANGED <<page, hosting>>
     ELSE page' = [page EXCEPT ![u] = "room"] /\ hosting' = [hosting EXCEPT ![u] = FALSE]
  /\ UNCHANGED <<isOwner, gameIdRequested, gameId, userIdRequested, leaveRequested, userId,
                 toldKicked, awaiting, kicked, belief>>

\* GAMRJOIN: only who created the room learns its own id.
OnPlayerJoin(u) ==
  LET mine == userIdRequested[u] /\ Next1(u).who = u
  IN /\ Take(u, "GAMRJOIN")
     /\ userId' = [userId EXCEPT ![u] = IF userIdRequested[u] THEN Next1(u).id ELSE @]
     /\ belief' = [belief EXCEPT ![u] = IF mine /\ @ = "stale" THEN "own" ELSE @]
     /\ userIdRequested' = [userIdRequested EXCEPT ![u] = @ /\ ~mine]
     /\ userstat' = [userstat EXCEPT ![u] = IF mine THEN 3 ELSE @]
     /\ playerstat' = [playerstat EXCEPT ![u] = IF mine THEN 0 ELSE @]
     /\ Answered(u)
     /\ UNCHANGED <<isOwner, gameIdRequested, gameId, leaveRequested, windowVars, kicked>>

\* GAMRLEAV and kaillera_user_kicked_callback.  A stale user_id may be the id of the one who left.
OnPlayerLeave(u) ==
  LET out == Next1(u).id = userId[u] /\ ~leaveRequested[u]
      Set(f, v) == [f EXCEPT ![u] = IF out THEN v ELSE @]
  IN /\ Take(u, "GAMRLEAV")
     /\ userstat' = Set(userstat, 2) /\ playerstat' = Set(playerstat, -1)
     /\ page' = Set(page, "lobby") /\ hosting' = Set(hosting, FALSE)
     /\ toldKicked' = Set(toldKicked, TRUE)
     /\ belief' = [belief EXCEPT ![u] = IF out /\ @ = "stale" /\ Next1(u).who # u THEN "misled" ELSE @]
     /\ Answered(u)
     /\ UNCHANGED <<isOwner, gameIdRequested, gameId, userIdRequested, leaveRequested, userId, kicked>>

\* GAMRDROP: one's own ends the game here, whatever had become of it.
OnPlayerDrop(u) ==
  LET Set(f, v) == [f EXCEPT ![u] = IF Next1(u).who = u THEN v ELSE @]
  IN /\ Take(u, "GAMRDROP")
     /\ userstat' = Set(userstat, 3) /\ playerstat' = Set(playerstat, 0)
     /\ UNCHANGED <<isOwner, gameIdRequested, gameId, userIdRequested, leaveRequested, userId,
                    windowVars, awaiting, kicked, belief>>

\* What the server says of a request it refuses is only shown.
OnRefused(u) == Take(u, "refused") /\ Answered(u) /\ UNCHANGED <<coreVars, windowVars, kicked, belief>>

\* k_message gives a message of the login up.
Skip(u) ==
  /\ skips < MaxSkips /\ skips' = skips + 1
  /\ mail[u] # <<>> /\ Next1(u).kind \in {"LONGSUCC", "USERJOIN"}
  /\ mail' = [mail EXCEPT ![u] = Tail(@)]
  /\ Answered(u)
  /\ UNCHANGED <<serverVars, coreVars, windowVars, kicked, belief, acts>>

Process(u) == \/ OnServerStatus(u) \/ OnUserJoin(u) \/ OnUserLeave(u) \/ OnGameMake(u)
              \/ OnGameShut(u) \/ OnGameBegin(u) \/ OnPlayerList(u) \/ OnPlayerJoin(u)
              \/ OnPlayerLeave(u) \/ OnPlayerDrop(u) \/ OnRefused(u)
-----------------------------------------------------------------------------
RoomInit ==
  /\ connected = {} /\ idOf = [u \in Users |-> 0] /\ roomOf = [u \in Users |-> 0] /\ ownerOf = <<>> /\ playing = {}
  /\ mail = [u \in Users |-> <<>>]
  /\ userstat = [u \in Users |-> 0] /\ playerstat = [u \in Users |-> -1]
  /\ isOwner = [u \in Users |-> FALSE] /\ gameIdRequested = [u \in Users |-> FALSE]
  /\ gameId = [u \in Users |-> 0] /\ userIdRequested = [u \in Users |-> FALSE]
  /\ leaveRequested = [u \in Users |-> FALSE] /\ userId = [u \in Users |-> 0]
  /\ page = [u \in Users |-> "lobby"] /\ hosting = [u \in Users |-> FALSE]
  /\ awaiting = [u \in Users |-> "none"] /\ toldKicked = [u \in Users |-> FALSE]
  /\ kicked = {} /\ belief = [u \in Users |-> "stale"] /\ acts = 0 /\ skips = 0

RoomNext == \E u \in Users :
  \/ Connect(u) \/ CreateGame(u) \/ LeaveGame(u) \/ StartGameOf(u) \/ DropGame(u) \/ Disconnect(u)
  \/ Process(u) \/ Skip(u)
  \/ \E g \in ToSet(Games) : JoinGame(u, g)
  \/ \E v \in Users : Kick(u, v)

RoomSpec == RoomInit /\ [][RoomNext]_roomVars
=============================================================================
