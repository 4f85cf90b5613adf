----------------------------- MODULE KGameProps -----------------------------
(***************************************************************************)
(* What a game on a server must do, stated over KGame.                     *)
(***************************************************************************)
EXTENDS KGame

AllInputs == UNION {Inputs[p] : p \in Players}

Frame == [Players -> AllInputs \cup {Nothing}]

TypeOK ==
  /\ pstat \in [Players -> 0 .. 2]
  /\ thread \in [Players -> {"out", "netsync", "loop"}]
  /\ running \in [Players -> BOOLEAN]
  /\ userdata \in [Players -> Seq(AllInputs \cup {Nothing})]
  /\ frameno \in [Players -> Nat]
  /\ gvQueue \in [Players -> Seq(Frame)]
  /\ cache \in [Players -> Seq(Seq(Frame))]
  /\ typed \in [Players -> Seq(AllInputs)]
  /\ given \in [Players -> Seq(Frame)]

\* A game is a lockstep session: every emulator is given the same frames in the same
\* order, and frame k holds what everyone typed at his k-th call, through netsync,
\* packets of different sizes, the frame cache of both ends and drops at any moment.
Session == INSTANCE Lockstep WITH
  Inputs <- AllInputs,
  left <- Players \ server.live
LockstepSpec == Session!Spec

\* An emulator that waits for a frame has sent its own input of that frame: the delay
\* never makes a client wait for a packet it has not filled yet.
FramesSent(p) == Len(typed[p]) - Len(userdata[p])
WaitsForSent == \A p \in Players :
  thread[p] = "loop" /\ pstat[p] = 2 /\ frameno[p] >= Delay(p)
    => Len(given[p]) + 1 <= FramesSent(p)

\* kaillera_gv_queue is an array of 256 frames that is never checked: it holds no more
\* than the delay lets the server run ahead of the emulator.
GvQueueFits == \A p \in Players :
  thread[p] # "netsync" /\ pstat[p] = 2 => Len(gvQueue[p]) <= Delay(p)

\* The server refers to a frame by its place in the client's cache, which it only knows
\* from what it has sent.  While p plays, its cache with what is still on the way to it
\* is the one the server keeps, so that a place means the same frames at both ends.
SentToCache(c, m) == IF m.kind = "GAMEDATA" THEN CacheAdd(c, m.frames) ELSE c
CacheAfter(p) ==
  LET after[k \in 0 .. Len(down[p])] ==
        IF k = 0 THEN cache[p] ELSE SentToCache(after[k - 1], down[p][k])
  IN after
CachesAgree == \A p \in Players :
  pstat[p] = 2 => server.cache[p] = CacheAfter(p)[Len(down[p])]

\* The threads and the server run, and an emulator that is told -1 stops.  Nobody has
\* to drop, time out or lose patience.
FairSpec == Spec /\ \A p \in Players :
  /\ WF_vars(LobbyStep(p)) /\ WF_vars(EmulatorStep(p))
  /\ WF_vars(ServerReceive(p)) /\ WF_vars(ServerSend(p))
  /\ WF_vars(pstat[p] = 0 /\ EndGame(p))

\* No player waits for another for ever: every MPV call returns, netsync included,
\* whatever the connection settings and delays of the two, and whoever leaves.
CallsReturn == \A p \in Players : (thread[p] # "out") ~> (thread[p] = "out")
=============================================================================
