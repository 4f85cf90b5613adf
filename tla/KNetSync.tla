------------------------------ MODULE KNetSync ------------------------------
(***************************************************************************)
(* The loop of kaillera_GameStartSequence (kcore/kaillera_core.cpp): the   *)
(* client has announced itself with GAMRSRDY and waits for the server's,   *)
(* which comes when every player is ready.  Below KGame, which gives each  *)
(* message a datagram of its own: here a datagram repeats the messages     *)
(* before its newest, as many as a bundle of k_message holds, datagrams    *)
(* get lost or overtake each other, and the loop's two timers run.         *)
(*                                                                         *)
(* Time is counted in select() waits of 100 ms since ti.                   *)
(***************************************************************************)
EXTENDS Integers, Sequences, FiniteSets

CONSTANTS
  RetryInterval,  \* KAILLERA_TIMEOUT_NETSYNC_RETR_INTERVAL
  Timeout,        \* KAILLERA_TIMEOUT_NETSYNC
  BundleSize,     \* default_ipm = 3: the newest messages that a datagram carries
  Resync,         \* 10: a datagram as far ahead as this starts in_cache anew
  ICacheSize,     \* ICACHESIZE = 16: the slots of in_cache
  MaxMsgs         \* bound: the server's messages

ASSUME KNetSyncAssumption ==
  /\ RetryInterval \in Nat \ {0} /\ Timeout \in Nat /\ MaxMsgs \in Nat
  /\ BundleSize \in Nat \ {0} /\ Resync \in Nat /\ BundleSize < Resync /\ ICacheSize \in Nat

VARIABLES
  pstat,      \* PLAYERSTAT: 1 waiting, 2 playing, 0 given up or dropped
  now,        \* p2p_GetTime() - ti
  tit,        \* tit - ti
  resends,    \* history: the calls of resend_message
  uplink,     \* whether a datagram with our GAMRSRDY is on its way
  srvSent,    \* external: the messages of the server, oldest first
  heard,      \* external: whether the server has our GAMRSRDY
  inNet,      \* its datagrams on their way, by the number of their newest message
  socket,     \* those in the socket buffer
  lost,       \* history: the datagrams that were lost
  got,        \* last_cached_instruction: the newest message that was heard of
  passed,     \* last_processed_instruction: in_cache has a slot for each from here to got
  inCache,    \* the messages in those slots; the others are holes
  strayed     \* history: a datagram came too far ahead, or in_cache ran over

syncVars == <<pstat, now, tit, resends, uplink, srvSent, heard, inNet, socket, lost, got,
              passed, inCache, strayed>>

cacheVars == <<got, passed, inCache, strayed>>
-----------------------------------------------------------------------------
(* The server and the network *)

ServerHears ==
  /\ uplink
  /\ uplink' = FALSE /\ heard' = TRUE
  /\ UNCHANGED <<pstat, now, tit, resends, srvSent, inNet, socket, lost, cacheVars>>

\* GAMRSRDY once everyone is ready; before it and after it, what else happens in the
\* room.
ServerSends(m) ==
  /\ Len(srvSent) < MaxMsgs
  /\ m = "GAMRSRDY" => heard /\ \A i \in DOMAIN srvSent : srvSent[i] # m
  /\ srvSent' = Append(srvSent, m)
  /\ inNet' = inNet \cup {Len(srvSent')}
  /\ UNCHANGED <<pstat, now, tit, resends, uplink, heard, socket, lost, cacheVars>>

Arrive(n) ==
  /\ inNet' = inNet \ {n} /\ socket' = Append(socket, n)
  /\ UNCHANGED <<pstat, now, tit, resends, uplink, srvSent, heard, lost, cacheVars>>

LoseDatagram(n) ==
  /\ inNet' = inNet \ {n} /\ lost' = lost \cup {n}
  /\ UNCHANGED <<pstat, now, tit, resends, uplink, srvSent, heard, socket, cacheVars>>

LoseReady ==
  /\ uplink /\ uplink' = FALSE
  /\ UNCHANGED <<pstat, now, tit, resends, srvSent, heard, inNet, socket, lost, cacheVars>>
-----------------------------------------------------------------------------
(* The client *)

ClockRestarting(t) ==                  \* mutant: the time-out measured from the last turn
  /\ now' = IF t > Timeout THEN 0 ELSE t
  /\ UNCHANGED <<pstat, tit, resends, uplink>>

\* The end of a turn: give up, or see whether GAMRSRDY should be repeated.  ti is the
\* time the loop was entered and does not change.
Clock(t) ==
  /\ now' = t
  /\ IF t > Timeout
     THEN pstat' = 0 /\ UNCHANGED <<tit, resends, uplink>>
     ELSE /\ pstat' = pstat
          /\ IF tit <= 0
             THEN tit' = RetryInterval /\ resends' = resends + 1 /\ uplink' = TRUE
             ELSE UNCHANGED <<tit, resends, uplink>>

HandOverLate(q, held) ==               \* mutant: a datagram read, no message handed over
  passed' = q /\ inCache' = held /\ Clock(now)

\* The head of in_cache, unless it is a hole, and what the loop makes of it.
HandOver(q, held) ==
  IF q + 1 \in held
  THEN /\ passed' = q + 1 /\ inCache' = held \ {q + 1}
       /\ IF srvSent[q + 1] = "GAMRSRDY"
          THEN pstat' = 2 /\ UNCHANGED <<now, tit, resends, uplink>>
          ELSE Clock(now)
  ELSE passed' = q /\ inCache' = held /\ Clock(now)

\* The messages in the datagram whose newest is n.
Carried(n) == {i \in 1 .. n : n - BundleSize < i}

\* Whether there is no room for the slots up to n.
RunsOver(n) == n > got /\ n - passed > ICacheSize

\* The message before the first slot once the datagram n is read: in_cache is emptied by one
\* that is too far ahead, then starting with what it carries, and by one that finds no room.
Before(n) ==
  IF n - got >= Resync THEN n - BundleSize
  ELSE IF RunsOver(n) THEN got ELSE passed

\* A turn in which select() finds a datagram: receive_instruction fills the slots that it
\* can and hands one message over.  Holes that stayed for KMSG_HOLE_SKIP_MS are given up
\* first; when they have is left open.
TurnReceive ==
  /\ pstat = 1 /\ socket # <<>>
  /\ LET n == Head(socket)
         newest == IF n > got THEN n ELSE got
         held == {i \in Before(n) + 1 .. newest : i \in inCache \cup Carried(n)}
     IN /\ got' = newest
        /\ strayed' = (strayed \/ n - got > BundleSize \/ RunsOver(n))
        /\ \E q \in Before(n) .. newest :
             /\ q # Before(n) => \A i \in Before(n) + 1 .. q : i \notin held
             /\ q # Before(n) => q = newest \/ q + 1 \in held
             /\ HandOver(q, held)
  /\ socket' = Tail(socket)
  /\ UNCHANGED <<srvSent, heard, inNet, lost>>

\* A turn in which it waits in vain.  has_data() is not asked, whatever in_cache holds.
TurnIdle ==
  /\ pstat = 1 /\ socket = <<>>
  /\ Clock(now + 1)
  /\ UNCHANGED <<srvSent, heard, inNet, socket, lost, cacheVars>>

\* The Drop button.
SyncDrop ==
  /\ pstat = 1 /\ pstat' = 0
  /\ UNCHANGED <<now, tit, resends, uplink, srvSent, heard, inNet, socket, lost, cacheVars>>
-----------------------------------------------------------------------------
SyncInit ==
  /\ pstat = 1 /\ now = 0 /\ tit = RetryInterval /\ resends = 0
  /\ uplink = TRUE /\ heard = FALSE
  /\ srvSent = <<>> /\ inNet = {} /\ socket = <<>> /\ lost = {}
  /\ got = 0 /\ passed = 0 /\ inCache = {} /\ strayed = FALSE

SyncNext ==
  \/ ServerHears \/ LoseReady
  \/ \E m \in {"GAMRSRDY", "other"} : ServerSends(m)
  \/ \E n \in inNet : Arrive(n) \/ LoseDatagram(n)
  \/ TurnReceive \/ TurnIdle \/ SyncDrop

SyncSpec == SyncInit /\ [][SyncNext]_syncVars

\* The emulator thread goes round its loop; nobody has to press anything.
SyncFairSpec == SyncSpec /\ WF_syncVars(TurnReceive) /\ WF_syncVars(TurnIdle)
-----------------------------------------------------------------------------
\* A message is left behind in in_cache only by a lost datagram: the loop hands over one
\* message per datagram and asks in_cache for nothing in between, so it holds at most the
\* messages whose datagrams are still to come or were lost.  Not said of a player to whom
\* more messages are lost or late than the next datagram repeats, or than in_cache holds.
Backlog ==
  ~strayed => Cardinality(inCache) <= Cardinality(inNet) + Len(socket) + Cardinality(lost)

\* The wait for the other players ends, at the latest at the time-out, whatever is lost.
WaitEnds == (pstat = 1) ~> (pstat # 1)

\* A player whose datagrams all come through, in an order that the bundles make up for,
\* does not miss the start: when he has read them he has seen the GAMRSRDY among them.
ReadyIsRead ==
  pstat = 1 /\ ~strayed /\ lost = {} /\ inNet = {} /\ socket = <<>>
    => \A i \in 1 .. got : srvSent[i] # "GAMRSRDY"

\* What the comment in kaillera_retryconnect_pump says of this loop: a lost GAMRSRDY is
\* repeated every retry interval.
LostReadyIsRepeated ==
  pstat = 1 /\ ~heard /\ ~uplink /\ now > RetryInterval + 1 => resends > 0
=============================================================================
