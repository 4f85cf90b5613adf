-------------------------------- MODULE KGame --------------------------------
(***************************************************************************)
(* One game on a Kaillera server (kcore/kaillera_core.cpp), from the       *)
(* server's GAMEBEGN to the last drop: the netsync handshake, the exchange *)
(* of input frames inside kaillera_modify_play_values (MPV), the frame     *)
(* cache, and leaving.                                                     *)
(*                                                                         *)
(* A connection is an ordered channel in each direction, which is what     *)
(* k_message provides (KMessage, OrderedChannel) as long as it gives no    *)
(* message up.  The server is external: it is modelled from what the       *)
(* client expects of it.                                                   *)
(*                                                                         *)
(* Each client has an emulator thread, which is inside MPV or not, and a   *)
(* window whose Drop button acts at any moment, also while MPV waits.      *)
(***************************************************************************)
EXTENDS Integers, Sequences, FiniteSets, FiniteSetsExt, SequencesExt

CONSTANTS
  Players,
  Conset,        \* conset: frames in one packet, by the player's connection type
  Throughput,    \* the delay the server announces in GAMEBEGN, by player
  HalfDelay,     \* the players in kaillera_30fps_mode
  CacheLimit,    \* 256: the data cache both ends keep
  Inputs,        \* what a player can type, by player
  Nothing,       \* the server's filling for a player who dropped
  MaxFrames,     \* bound: the MPV calls of one player
  CanDrop        \* bound: the players who drop, stop or time out

ASSUME KGameAssumption ==
  /\ Conset \in [Players -> Nat \ {0}]
  /\ Throughput \in [Players -> Nat]
  /\ HalfDelay \subseteq Players
  \* In 30fps mode a server that announces no delay at all leaves no room to halve.
  /\ \A p \in HalfDelay : Throughput[p] > 0
  /\ CacheLimit \in Nat \ {0} /\ MaxFrames \in Nat
  /\ Inputs \in [Players -> SUBSET UNION {Inputs[p] : p \in Players}]
  /\ \A p \in Players : Nothing \notin Inputs[p]

VARIABLES
  pstat,      \* PLAYERSTAT: 0 idle, 1 netsync, 2 playing
  thread,     \* where the emulator thread is: "out" of MPV, in "netsync", "loop"
  running,    \* whether the emulator has the game open
  userdata,   \* USERDATA: the frames put and not sent yet
  frameno,
  gvQueue,    \* kaillera_gv_queue: the frames received and not given yet
  cache,      \* kaillera_incoming_data_cache, oldest first
  up, down,   \* the channels, to the server and from it
  server,     \* external: [live, ready, synced, inbox, taken, cache]
  typed,      \* history: the frames each emulator passed in
  given       \* history: the frames each emulator was given

clientVars == <<pstat, thread, running, userdata, frameno, gvQueue, cache>>
vars == <<clientVars, up, down, server, typed, given>>
-----------------------------------------------------------------------------
(* Messages *)

Begin == [kind |-> "GAMEBEGN"]
Ready == [kind |-> "GAMRSRDY"]
Drop(p) == [kind |-> "GAMRDROP", player |-> p]
Data(frames) == [kind |-> "GAMEDATA", frames |-> frames]
Cached(i) == [kind |-> "GAMCDATA", index |-> i]

SendUp(p, ms) == up' = [up EXCEPT ![p] = @ \o ms]

FullDelay(p) == (Throughput[p] + 1) * Conset[p] - 1

\* dframeno: the calls that return at once before the first frame is due.
Delay(p) == IF p \in HalfDelay /\ FullDelay(p) > 1 THEN (FullDelay(p) + 1) \div 2
                                                    ELSE FullDelay(p)
-----------------------------------------------------------------------------
(* The client *)

\* kaillera_step: one message of the server.  Its thread reads the connection again as
\* soon as the game is over here, even if the emulator thread is still inside MPV.
\* Frames are ignored.
LobbyStep(p) ==
  /\ pstat[p] = 0 /\ down[p] # <<>>
  /\ down' = [down EXCEPT ![p] = Tail(@)]
  /\ IF Head(down[p]) = Begin
     THEN pstat' = [pstat EXCEPT ![p] = 1] /\ running' = [running EXCEPT ![p] = TRUE]
     ELSE UNCHANGED <<pstat, running>>
  /\ UNCHANGED <<thread, userdata, frameno, gvQueue, cache, up, server, typed, given>>

StartSequenceKeepingQueue(p) ==       \* mutant: gv_queue not cleared
  /\ thread[p] = "out" /\ running[p] /\ pstat[p] = 1
  /\ thread' = [thread EXCEPT ![p] = "netsync"]
  /\ userdata' = [userdata EXCEPT ![p] = <<>>]
  /\ frameno' = [frameno EXCEPT ![p] = 0]
  /\ cache' = [cache EXCEPT ![p] = <<>>]
  /\ SendUp(p, <<Ready>>)
  /\ UNCHANGED <<pstat, running, gvQueue, down, server, typed, given>>

\* kaillera_GameStartSequence up to its loop.
StartSequence(p) ==
  /\ thread[p] = "out" /\ running[p] /\ pstat[p] = 1
  /\ thread' = [thread EXCEPT ![p] = "netsync"]
  /\ userdata' = [userdata EXCEPT ![p] = <<>>]
  /\ frameno' = [frameno EXCEPT ![p] = 0]
  /\ gvQueue' = [gvQueue EXCEPT ![p] = <<>>]
  /\ cache' = [cache EXCEPT ![p] = <<>>]
  /\ SendUp(p, <<Ready>>)
  /\ UNCHANGED <<pstat, running, down, server, typed, given>>

\* Its loop: a message, until the server says that everybody is ready.  (KNetSync has the
\* loop in full; here every message comes in a datagram of its own.)
NetsyncReceive(p) ==
  /\ thread[p] = "netsync" /\ pstat[p] = 1 /\ down[p] # <<>>
  /\ down' = [down EXCEPT ![p] = Tail(@)]
  /\ pstat' = CASE Head(down[p]) = Ready -> [pstat EXCEPT ![p] = 2]
                [] Head(down[p]) = Drop(p) -> [pstat EXCEPT ![p] = 0]
                [] OTHER -> pstat
  /\ UNCHANGED <<thread, running, userdata, frameno, gvQueue, cache, up, server, typed, given>>

\* KAILLERA_TIMEOUT_NETSYNC passes.
NetsyncTimeout(p) ==
  /\ p \in CanDrop /\ thread[p] = "netsync" /\ pstat[p] = 1
  /\ pstat' = [pstat EXCEPT ![p] = 0]
  /\ UNCHANGED <<thread, running, userdata, frameno, gvQueue, cache, up, down, server,
                 typed, given>>

PutDataLate(p, v) ==                  \* mutant: pos > REQDATALEN
  LET put == Append(userdata[p], v)
  IN /\ pstat[p] = 2 /\ running[p]
     /\ thread[p] \in {"out", "netsync"}
     /\ Len(typed[p]) < MaxFrames
     /\ thread' = [thread EXCEPT ![p] = "loop"]
     /\ typed' = [typed EXCEPT ![p] = Append(@, v)]
     /\ IF Len(put) > Conset[p]
        THEN SendUp(p, <<Data(put)>>) /\ userdata' = [userdata EXCEPT ![p] = <<>>]
        ELSE userdata' = [userdata EXCEPT ![p] = put] /\ UNCHANGED up
     /\ UNCHANGED <<pstat, running, frameno, gvQueue, cache, down, server, given>>

\* The emulator's call, or the rest of it after netsync: the frame goes to USERDATA,
\* and a full packet to the server.
PutData(p, v) ==
  LET put == Append(userdata[p], v)
  IN /\ pstat[p] = 2 /\ running[p]
     /\ thread[p] \in {"out", "netsync"}
     /\ Len(typed[p]) < MaxFrames
     /\ thread' = [thread EXCEPT ![p] = "loop"]
     /\ typed' = [typed EXCEPT ![p] = Append(@, v)]
     /\ IF Len(put) >= Conset[p]
        THEN SendUp(p, <<Data(put)>>) /\ userdata' = [userdata EXCEPT ![p] = <<>>]
        ELSE userdata' = [userdata EXCEPT ![p] = put] /\ UNCHANGED up
     /\ UNCHANGED <<pstat, running, frameno, gvQueue, cache, down, server, given>>

\* kaillera_ProcessGameInstruction: the cache, the frames and PLAYERSTAT after m.
CacheAddKeepingOldest(c, frames) ==    \* mutant: a full cache keeps what it has
  IF Len(c) = CacheLimit THEN c ELSE Append(c, frames)

CacheAdd(c, frames) == Append(IF Len(c) = CacheLimit THEN Tail(c) ELSE c, frames)

Process(p, m) ==
  /\ cache' = [cache EXCEPT ![p] = IF m.kind = "GAMEDATA" THEN CacheAdd(@, m.frames) ELSE @]
  /\ pstat' = IF m = Drop(p) THEN [pstat EXCEPT ![p] = 0] ELSE pstat

\* An index outside the cache (kaillera_step took the frames that were to fill it) reads
\* what is there; OldFrame stands for it.
OldFrame == [q \in Players |-> Nothing]

FramesOf(p, m) ==
  CASE m.kind = "GAMEDATA" -> m.frames
    [] m.kind = "GAMCDATA" -> IF m.index < Len(cache[p]) THEN cache[p][m.index + 1]
                                                        ELSE <<OldFrame>>
    [] OTHER -> <<>>

FinishLate(p, q) ==                   \* mutant: frameno <= dframeno
  \/ /\ frameno[p] <= Delay(p)
     /\ frameno' = [frameno EXCEPT ![p] = @ + 1]
     /\ thread' = [thread EXCEPT ![p] = "out"]
     /\ gvQueue' = [gvQueue EXCEPT ![p] = q]
     /\ UNCHANGED given
  \/ /\ frameno[p] > Delay(p) /\ q # <<>> /\ pstat'[p] = 2
     /\ frameno' = [frameno EXCEPT ![p] = @ + 1]
     /\ thread' = [thread EXCEPT ![p] = "out"]
     /\ gvQueue' = [gvQueue EXCEPT ![p] = Tail(q)]
     /\ given' = [given EXCEPT ![p] = Append(@, Head(q))]
  \/ /\ frameno[p] > Delay(p) /\ (q = <<>> \/ pstat'[p] # 2)
     /\ gvQueue' = [gvQueue EXCEPT ![p] = q]
     /\ thread' = IF pstat'[p] = 2 THEN thread ELSE [thread EXCEPT ![p] = "out"]
     /\ UNCHANGED <<frameno, given>>

\* The end of one turn of the loop of MPV, with q in gv_queue: return no frame while
\* the delay lasts, the next frame when there is one, or go round again.
Finish(p, q) ==
  \/ /\ frameno[p] < Delay(p)
     /\ frameno' = [frameno EXCEPT ![p] = @ + 1]
     /\ thread' = [thread EXCEPT ![p] = "out"]
     /\ gvQueue' = [gvQueue EXCEPT ![p] = q]
     /\ UNCHANGED given
  \/ /\ frameno[p] >= Delay(p) /\ q # <<>> /\ pstat'[p] = 2
     /\ frameno' = [frameno EXCEPT ![p] = @ + 1]
     /\ thread' = [thread EXCEPT ![p] = "out"]
     /\ gvQueue' = [gvQueue EXCEPT ![p] = Tail(q)]
     /\ given' = [given EXCEPT ![p] = Append(@, Head(q))]
  \/ /\ frameno[p] >= Delay(p) /\ (q = <<>> \/ pstat'[p] # 2)
     /\ gvQueue' = [gvQueue EXCEPT ![p] = q]
     /\ thread' = IF pstat'[p] = 2 THEN thread ELSE [thread EXCEPT ![p] = "out"]
     /\ UNCHANGED <<frameno, given>>

\* A turn that finds a message.
LoopReceive(p) ==
  /\ thread[p] = "loop" /\ down[p] # <<>>
  /\ down' = [down EXCEPT ![p] = Tail(@)]
  /\ Process(p, Head(down[p]))
  /\ Finish(p, gvQueue[p] \o FramesOf(p, Head(down[p])))
  /\ UNCHANGED <<running, userdata, up, server, typed>>

\* A turn that finds none, because none is there or select() was too early.
LoopIdle(p) ==
  /\ thread[p] = "loop"
  /\ pstat' = pstat
  /\ Finish(p, gvQueue[p])
  /\ UNCHANGED <<running, userdata, cache, up, down, server, typed>>

\* MPV after a netsync that did not succeed: it returns -1.
NetsyncFailed(p) ==
  /\ thread[p] = "netsync" /\ pstat[p] = 0
  /\ thread' = [thread EXCEPT ![p] = "out"]
  /\ UNCHANGED <<pstat, running, userdata, frameno, gvQueue, cache, up, down, server,
                 typed, given>>

\* kaillera_game_drop, from the window at any moment ...
GameDrop(p) ==
  /\ p \in CanDrop /\ pstat[p] > 0
  /\ SendUp(p, <<Drop(p)>>)
  /\ pstat' = [pstat EXCEPT ![p] = 0]
  /\ UNCHANGED <<thread, running, userdata, frameno, gvQueue, cache, down, server, typed, given>>

\* ... or from the loop, when pix reaches 500.
LostConnection(p) ==
  /\ p \in CanDrop /\ thread[p] = "loop" /\ pstat[p] = 2
  /\ frameno[p] >= Delay(p) /\ gvQueue[p] = <<>>
  /\ SendUp(p, <<Drop(p)>>)
  /\ pstat' = [pstat EXCEPT ![p] = 0]
  /\ thread' = [thread EXCEPT ![p] = "out"]
  /\ UNCHANGED <<running, userdata, frameno, gvQueue, cache, down, server, typed, given>>

EndGameQuiet(p) ==                    \* mutant: GAMRDROP only while PLAYERSTAT > 0
  /\ running[p] /\ thread[p] = "out"
  /\ pstat[p] = 0 \/ p \in CanDrop
  /\ SendUp(p, IF pstat[p] > 0 THEN <<Drop(p)>> ELSE <<>>)
  /\ pstat' = [pstat EXCEPT ![p] = 0]
  /\ running' = [running EXCEPT ![p] = FALSE]
  /\ UNCHANGED <<thread, userdata, frameno, gvQueue, cache, down, server, typed, given>>

\* The emulator stops: kailleraEndGame, kaillera_end_game.
EndGame(p) ==
  /\ running[p] /\ thread[p] = "out"
  /\ pstat[p] = 0 \/ p \in CanDrop
  /\ SendUp(p, <<Drop(p)>>)
  /\ pstat' = [pstat EXCEPT ![p] = 0]
  /\ running' = [running EXCEPT ![p] = FALSE]
  /\ UNCHANGED <<thread, userdata, frameno, gvQueue, cache, down, server, typed, given>>
-----------------------------------------------------------------------------
(* The server, external *)

\* The frame of number k, as far as the server has the inputs.
Combined(k) ==
  [q \in Players |-> IF k <= Len(server.inbox[q]) THEN server.inbox[q][k] ELSE Nothing]

\* It takes a client's message.  Everyone is told of a player's first drop; when all
\* who are left are ready the game starts.
ServerReceive(p) ==
  LET m == Head(up[p])
      live == IF m.kind = "GAMRDROP" THEN server.live \ {p} ELSE server.live
      ready == IF m.kind = "GAMRSRDY" THEN server.ready \cup {p} ELSE server.ready
      start == ~server.synced /\ live # {} /\ live \subseteq ready
      told(q) == (IF live # server.live THEN <<Drop(p)>> ELSE <<>>)
                 \o (IF start /\ q \in live THEN <<Ready>> ELSE <<>>)
  IN /\ up[p] # <<>>
     /\ up' = [up EXCEPT ![p] = Tail(@)]
     /\ server' = [server EXCEPT
          !.live = live, !.ready = ready, !.synced = @ \/ start,
          !.inbox[p] = IF m.kind = "GAMEDATA" /\ p \in live THEN @ \o m.frames ELSE @]
     /\ down' = [q \in Players |-> down[q] \o told(q)]
     /\ UNCHANGED <<clientVars, typed, given>>

\* It sends p its next packet of frames, or where p has it in its cache.
ServerSend(p) ==
  LET first == server.taken[p] + 1
      frames == [i \in 1 .. Conset[p] |-> Combined(first + i - 1)]
      hits == {i \in DOMAIN server.cache[p] : server.cache[p][i] = frames}
  IN /\ server.synced /\ p \in server.live
     /\ \A q \in server.live : Len(server.inbox[q]) >= server.taken[p] + Conset[p]
     /\ down' = [down EXCEPT ![p] = Append(@,
          IF hits = {} THEN Data(frames) ELSE Cached(Min(hits) - 1))]
     /\ server' = [server EXCEPT
          !.taken[p] = @ + Conset[p],
          !.cache[p] = IF hits # {} THEN @
                       ELSE Append(IF Len(@) = CacheLimit THEN Tail(@) ELSE @, frames)]
     /\ UNCHANGED <<clientVars, up, typed, given>>
-----------------------------------------------------------------------------
\* The server has just announced the game.  What an earlier game left in the client
\* is still there, and its last frames may be on their way.
Init ==
  /\ pstat = [p \in Players |-> 0]
  /\ thread = [p \in Players |-> "out"]
  /\ running = [p \in Players |-> FALSE]
  /\ frameno \in {[p \in Players |-> n] : n \in {0, 2}}
  /\ userdata \in {[p \in Players |-> <<>>], [p \in Players |-> [i \in 1 .. Conset[p] - 1 |-> Nothing]]}
  /\ gvQueue \in {[p \in Players |-> <<>>], [p \in Players |-> <<OldFrame>>]}
  /\ cache \in {[p \in Players |-> <<>>],
                [p \in Players |-> <<[i \in 1 .. Conset[p] |-> OldFrame]>>]}
  /\ up = [p \in Players |-> <<>>]
  /\ down \in {[p \in Players |-> <<Begin>>],
               [p \in Players |-> <<Data([i \in 1 .. Conset[p] |-> OldFrame]), Begin>>]}
  /\ server = [live |-> Players, ready |-> {}, synced |-> FALSE,
               inbox |-> [p \in Players |-> <<>>], taken |-> [p \in Players |-> 0],
               cache |-> [p \in Players |-> <<>>]]
  /\ typed = [p \in Players |-> <<>>]
  /\ given = [p \in Players |-> <<>>]

\* One turn of the emulator thread.
EmulatorStep(p) ==
  \/ StartSequence(p) \/ NetsyncReceive(p) \/ NetsyncFailed(p)
  \/ \E v \in Inputs[p] : PutData(p, v)
  \/ LoopReceive(p) \/ LoopIdle(p)

ServerStep(p) == ServerReceive(p) \/ ServerSend(p)

Next == \E p \in Players :
  \/ LobbyStep(p) \/ EmulatorStep(p) \/ ServerStep(p)
  \/ NetsyncTimeout(p) \/ GameDrop(p) \/ LostConnection(p) \/ EndGame(p)

Spec == Init /\ [][Next]_vars
=============================================================================
