------------------------------ MODULE KMessage ------------------------------
(***************************************************************************)
(* k_message (kcore/k_message.h): the message layer between the Kaillera   *)
(* client and its server.  Every datagram is a bundle: the newest message  *)
(* and some of the messages before it, each under a 16-bit serial.  The    *)
(* receiver rebuilds the sequence in in_cache, where a message that has    *)
(* not arrived yet is a hole.  Nothing is acknowledged, and what no bundle *)
(* repeats any more is gone.                                               *)
(*                                                                         *)
(* The model joins one sender (k_message::send; a server's bundles have    *)
(* the same layout) and one receiver through a network that loses, repeats *)
(* and reorders datagrams.  A message's number stands for its content: the *)
(* code under study sees only serials, and "delivered" is a history        *)
(* variable.                                                               *)
(***************************************************************************)
EXTENDS Integers, Sequences, FiniteSets, FiniteSetsExt

CONSTANTS
  HalfRange,     \* 0x8000: half of the serial space
  ResyncGap,     \* 10: a jump this long abandons everything in between
  CacheSize,     \* ICACHESIZE, 16
  Redundancy,    \* default_ipm, 3: the messages a fresh bundle repeats
  ResendCount,   \* 5: the messages resend_message(5) repeats
  FitCounts,     \* how many messages fit the 4 KB buffer of send_message
  First,         \* the messages exchanged before the model starts
  MaxMsgs,       \* bound: messages sent in one behaviour
  MaxAhead,      \* bound: how far the sender runs ahead of the receiver
  MaxLag,        \* bound: how old a datagram the network still delivers
  MaxInFlight,   \* bound: datagrams in the network at once
  MaxLossRun,    \* bound: fresh bundles lost in a row
  PatientTimer   \* whether the hole timer outlasts the network's reordering

SerialMod == 2 * HalfRange

ASSUME KMessageAssumption ==
  /\ HalfRange \in Nat /\ ResyncGap \in Nat /\ CacheSize \in Nat
  /\ Redundancy \in Nat /\ ResendCount \in Nat /\ FitCounts \subseteq Nat
  /\ First \in Nat /\ MaxMsgs \in Nat /\ MaxAhead \in Nat /\ MaxLag \in Nat
  /\ MaxInFlight \in Nat /\ MaxLossRun \in Nat /\ PatientTimer \in BOOLEAN
  /\ 1 < ResyncGap /\ ResyncGap <= CacheSize /\ CacheSize < HalfRange
  /\ MaxAhead < HalfRange
  /\ MaxLag + CacheSize < HalfRange

VARIABLES
  sent,       \* messages sent so far: last_sent_instruction is Serial(sent)
  outCache,   \* out_cache, oldest first
  net,        \* the bundles on the wire or in the receiver's socket buffer
  lost,       \* the fresh bundles the network dropped, by their newest number
  waiting,    \* has_data_waiting
  rx,         \* [last: last_cached_instruction, cache: in_cache, hole: timer]
  delivered   \* history: the last message given to the caller

vars == <<sent, outCache, net, lost, waiting, rx, delivered>>
-----------------------------------------------------------------------------
Serial(n) == n % SerialMod

\* a - b on unsigned shorts
Dist(a, b) == (a - b) % SerialMod

Hole == -1                             \* body == NULL

Msg(n) == [serial |-> Serial(n), body |-> n]

\* The states of hole_pending / hole_since: no hole seen at the head, one being
\* waited for, and one that has been there KMSG_HOLE_SKIP_MS.
HoleStates == {"none", "waiting", "expired"}

IsHole(slot) == slot.body = Hole

HeadReady(r) == r.cache # <<>> /\ ~IsHole(r.cache[1])

(*************************** the sending side ******************************)

\* What send_message(limit) puts in one datagram: the newest messages first,
\* as many as the limit, the cache and the buffer allow.
Bundle(cache, limit, fit) ==
  [i \in 1 .. Min({limit, fit, Len(cache)}) |-> cache[Len(cache) - i + 1]]

\* A datagram enters the network, which by then has delivered or dropped what is
\* older than MaxLag.
Transmit(b) ==
  /\ \A c \in net : c[1].body + MaxLag >= sent'
  /\ net' = net \cup (IF b = <<>> THEN {} ELSE {b})
  /\ Cardinality(net') <= MaxInFlight

Send ==
  /\ sent < MaxMsgs /\ sent - delivered <= MaxAhead
  /\ sent' = sent + 1
  /\ outCache' = Append(IF Len(outCache) = CacheSize - 1 THEN Tail(outCache)
                                                         ELSE outCache, Msg(sent))
  /\ \E fit \in FitCounts : Transmit(Bundle(outCache', Redundancy, fit))
  /\ UNCHANGED <<lost, waiting, rx, delivered>>

Resend ==
  /\ sent' = sent
  /\ \E fit \in FitCounts : Transmit(Bundle(outCache, ResendCount, fit))
  /\ UNCHANGED <<outCache, lost, waiting, rx, delivered>>

\* The network drops a datagram.  If losses are bounded, no more than MaxLossRun
\* bundles in a row may never arrive.
Lose(b) ==
  /\ LET gone == lost \cup {b[1].body}
         recent == {n \in gone : n + MaxLag + MaxLossRun + 1 >= sent}
     IN IF MaxLossRun < MaxMsgs
        THEN /\ \A n \in gone : ~(n .. n + MaxLossRun \subseteq gone)
             /\ lost' = recent
        ELSE lost' = lost
  /\ net' = net \ {b}
  /\ UNCHANGED <<sent, outCache, waiting, rx, delivered>>

(************************** the receiving side *****************************)

FreeInCache(r) == [r EXCEPT !.cache = <<>>, !.hole = "none"]

\* Mutants of the definitions below, which the runs must tell from them.
ResyncKeepingCache(r, b) ==            \* free_in_cache() forgotten
  LET tx == Dist(b[1].serial, r.last)
  IN IF tx >= ResyncGap /\ tx < HalfRange
     THEN [r EXCEPT !.last = Dist(b[1].serial, Min({Len(b), ResyncGap - 1}))]
     ELSE r
ResyncBackwards(r, b) ==               \* "tx < 0x8000" forgotten
  LET tx == Dist(b[1].serial, r.last)
  IN IF tx >= ResyncGap
     THEN [FreeInCache(r) EXCEPT !.last =
             Dist(b[1].serial, Min({Len(b), ResyncGap - 1}))]
     ELSE r
ExtendUnchecked(r, latest) ==          \* ICACHESIZE not compared
  LET tx == Dist(latest, r.last)
      slots == [i \in 1 .. tx |-> [serial |-> (r.last + i) % SerialMod, body |-> Hole]]
  IN IF tx > 0 /\ tx < ResyncGap
     THEN [r EXCEPT !.cache = @ \o slots, !.last = latest]
     ELSE r
ForOneLate(r, i, b) ==                 \* items[n - back] for items[n - 1 - back]
  {u \in DOMAIN b : Dist(r.last, b[u].serial) = Len(r.cache) - i + 1}
SkipNothing(r) == r                    \* holes waited for without end

\* Messages ResyncGap or more past anything held: start again at this bundle.
Resync(r, b) ==
  LET tx == Dist(b[1].serial, r.last)
      k  == Min({Len(b), ResyncGap - 1})
  IN IF tx >= ResyncGap /\ tx < HalfRange
     THEN [FreeInCache(r) EXCEPT !.last = Dist(b[1].serial, k)]
     ELSE r

\* Room for the messages up to the bundle's newest: empty slots, each with its
\* serial.  Too much queued drops what is pending.
Extend(r, latest) ==
  LET tx == Dist(latest, r.last)
      kept == IF Len(r.cache) + tx > CacheSize THEN FreeInCache(r) ELSE r
      slots == [i \in 1 .. tx |-> [serial |-> (r.last + i) % SerialMod, body |-> Hole]]
  IN IF tx > 0 /\ tx < ResyncGap
     THEN [kept EXCEPT !.cache = @ \o slots, !.last = latest]
     ELSE r

\* The messages of b that belong in slot i of the window.
For(r, i, b) == {u \in DOMAIN b : Dist(r.last, b[u].serial) = Len(r.cache) - i}

FillFromNewest(r, b) ==                \* mutant: bundles that are not newer ignored
  IF b[1].serial # r.last THEN r
  ELSE [r EXCEPT !.cache = [i \in DOMAIN r.cache |->
          IF IsHole(r.cache[i]) /\ For(r, i, b) # {}
          THEN b[CHOOSE u \in For(r, i, b) : TRUE]
          ELSE r.cache[i]]]

\* fill_slot for every message of the bundle: only empty slots of the window.
FillSlots(r, b) ==
  [r EXCEPT !.cache = [i \in DOMAIN r.cache |->
     IF IsHole(r.cache[i]) /\ For(r, i, b) # {}
     THEN b[CHOOSE u \in For(r, i, b) : TRUE]
     ELSE r.cache[i]]]

Arrive(r, b) == FillSlots(Extend(Resync(r, b), b[1].serial), b)

\* The leading holes of in_cache given up.
DropHoles(cache) ==
  LET full == {i \in DOMAIN cache : ~IsHole(cache[i])}
  IN IF full = {} THEN <<>> ELSE SubSeq(cache, Min(full), Len(cache))

SkipStaleHoles(r) ==
  CASE r.cache = <<>> \/ HeadReady(r) -> [r EXCEPT !.hole = "none"]
    [] ~(r.cache = <<>> \/ HeadReady(r)) /\ r.hole # "expired" ->
         [r EXCEPT !.hole = "waiting"]
    [] OTHER -> [r EXCEPT !.hole = "none", !.cache = DropHoles(@)]

\* select() finds a datagram in the socket buffer.
CheckSockets ==
  /\ net # {} /\ waiting' = TRUE
  /\ UNCHANGED <<sent, outCache, net, lost, rx, delivered>>

\* has_data(): gives up a stale hole on the way to its answer.
HasData ==
  /\ rx' = SkipStaleHoles(rx)
  /\ UNCHANGED <<sent, outCache, net, lost, waiting, delivered>>

HasDataTrue == HeadReady(SkipStaleHoles(rx)) \/ waiting

\* The end of check_recv: the head of the window, if it is there, to the caller.
HandOver(r) ==
  LET s == SkipStaleHoles(r)
  IN IF HeadReady(s)
     THEN /\ rx' = [s EXCEPT !.cache = Tail(@)]
          /\ delivered' = s.cache[1].body
     ELSE rx' = s /\ UNCHANGED delivered

\* check_recv under has_data(): reads a datagram from the server (the network may
\* deliver the same one again later), ...
ReceiveBundle(b) ==
  /\ HasDataTrue /\ waiting
  /\ waiting' = FALSE
  /\ net' \in {net, net \ {b}}
  /\ HandOver(Arrive(SkipStaleHoles(rx), b))
  /\ UNCHANGED <<sent, outCache, lost>>

\* ... or none: no datagram was announced, or it is not the server's.
ReceiveNothing ==
  /\ HasDataTrue
  /\ waiting' = FALSE
  /\ HandOver(SkipStaleHoles(rx))
  /\ UNCHANGED <<sent, outCache, net, lost>>

\* GetTickCount passes hole_since + KMSG_HOLE_SKIP_MS.
HoleTimeout ==
  /\ rx.hole = "waiting"
  /\ PatientTimer => \A b \in net : \A u \in DOMAIN b : b[u].serial # rx.cache[1].serial
  /\ rx' = [rx EXCEPT !.hole = "expired"]
  /\ UNCHANGED <<sent, outCache, net, lost, waiting, delivered>>
-----------------------------------------------------------------------------
\* Some connection on which everything sent so far has been delivered; with
\* First = 0, the constructor.
Init ==
  /\ sent = First
  /\ outCache = [i \in 1 .. Min({First, CacheSize - 1}) |->
                   Msg(First - Min({First, CacheSize - 1}) + i - 1)]
  /\ net = {} /\ lost = {} /\ waiting = FALSE
  /\ rx = [last |-> Serial(First - 1), cache |-> <<>>, hole |-> "none"]
  /\ delivered = First - 1

Next ==
  \/ Send
  \/ Resend
  \/ \E b \in net : Lose(b)
  \/ CheckSockets
  \/ HasData
  \/ \E b \in net : ReceiveBundle(b)
  \/ ReceiveNothing
  \/ HoleTimeout

Spec == Init /\ [][Next]_vars
=============================================================================
