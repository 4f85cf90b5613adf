----------------------------- MODULE LoopProofs ------------------------------
(***************************************************************************)
(* Proofs about loops of the client that wait for somebody else.           *)
(*                                                                         *)
(* The netsync loop (KNetSync), for any number of messages, any bundle and *)
(* any time-outs: what it leaves unread in in_cache, and why a player who  *)
(* loses nothing does not miss the start.  The argument counts datagrams.  *)
(* The loop reads a datagram and hands one message over, so in_cache holds *)
(* at most as many messages as there are, among those it has heard of,     *)
(* datagrams it has not read.                                              *)
(*                                                                         *)
(* The search by code (Traversal), for any joiners, codes and time-outs    *)
(* when datagrams come in time: two who are connected write to each        *)
(* other's address.  The argument: a joiner has one question or answer of  *)
(* the server under way, no address to write to as long as it looks for    *)
(* the host, and the one it confirmed to from then on; the confirmations   *)
(* on the wire carry that one, and the host takes the one it was asked by. *)
(*                                                                         *)
(* The loop over KSSDFA (Frontend): it comes to the state the threads'     *)
(* last request asks for, for any number of requests and rooms.  The       *)
(* argument: a request is a queue of assignments to the one word the       *)
(* threads share, and what the word holds, or the loop has read, agrees    *)
(* with the last of them as long as no store put an older field back.      *)
(*                                                                         *)
(* The host of two players without a server (P2PLobby), for any settings   *)
(* and acts: its Ready waits for the check of the client's account.  The   *)
(* argument: while a check goes on the host is not ready, and whatever     *)
(* makes it ready looks at the check or ends it.                           *)
(***************************************************************************)
EXTENDS KNetSync, Traversal, Frontend, P2PLobby, TLAPS, FiniteSetTheorems, FunctionTheorems, SequenceTheorems
-----------------------------------------------------------------------------
\* The netsync loop.

Message == {"GAMRSRDY", "other"}

\* The datagrams that were not read: still to come, or lost.
Coming == inNet \cup {socket[i] : i \in DOMAIN socket} \cup lost

\* Those among them that carry nothing the client has not heard of.
Unread == {n \in 1 .. got : n \in Coming}

TypeInv ==
  /\ srvSent \in Seq(Message)
  /\ inNet \subseteq 1 .. Len(srvSent) /\ lost \subseteq 1 .. Len(srvSent)
  /\ socket \in Seq(1 .. Len(srvSent))
  /\ got \in 0 .. Len(srvSent) /\ passed \in 0 .. got
  /\ inCache \subseteq passed + 1 .. got
  /\ strayed \in BOOLEAN

\* A datagram arrives once, in one place.
EachOnce ==
  /\ \A i, j \in DOMAIN socket : socket[i] = socket[j] => i = j
  /\ \A i \in DOMAIN socket : socket[i] \notin inNet \cup lost
  /\ inNet \cap lost = {}

\* What was read is known: past got, every datagram is outstanding.
NewIsComing == \A n \in got + 1 .. Len(srvSent) : n \in Coming

\* Without a stray in_cache has no holes, and what was handed over before it did not hold
\* GAMRSRDY, or the loop would be over.
NoHoles == \A i \in passed + 1 .. got : i \in inCache
NoReadyYet == pstat = 1 => \A i \in 1 .. passed : srvSent[i] # "GAMRSRDY"

Owed == got - passed <= Cardinality(Unread)

IInv ==
  /\ TypeInv /\ EachOnce /\ NewIsComing
  /\ strayed \/ (NoHoles /\ NoReadyYet /\ Owed)
-----------------------------------------------------------------------------
(* Datagrams                                                               *)

LEMMA CountInterval ==
  ASSUME NEW a \in Int, NEW b \in Int, a <= b + 1
  PROVE  IsFiniteSet(a .. b) /\ Cardinality(a .. b) = b - a + 1
<1>1. IsFiniteSet(a .. b) /\ Cardinality(a .. b) = IF a > b THEN 0 ELSE b - a + 1
  BY FS_Interval
<1>2. (IF a > b THEN 0 ELSE b - a + 1) = b - a + 1
  OBVIOUS
<1> QED BY <1>1, <1>2, Zenon

LEMMA UnreadFinite ==
  ASSUME TypeInv
  PROVE  IsFiniteSet(Unread) /\ Cardinality(Unread) \in Nat
<1>1. IsFiniteSet(1 .. got)
  BY FS_Interval DEF TypeInv
<1>2. Unread \in SUBSET (1 .. got)
  BY DEF Unread
<1> QED BY <1>1, <1>2, FS_Subset, FS_CardinalityType

\* A step that reads nothing and receives nothing new.
LEMMA NothingRead ==
  ASSUME IInv, TypeInv', EachOnce', UNCHANGED <<srvSent, cacheVars>>, Coming' = Coming,
         pstat' = 1 => pstat = 1
  PROVE  IInv'
<1>1. NewIsComing' /\ (NoHoles => NoHoles') /\ (NoReadyYet => NoReadyYet')
  BY DEF IInv, NewIsComing, NoHoles, NoReadyYet, cacheVars
<1>2. Unread' = Unread
  BY DEF Unread, cacheVars
<1>3. (Owed => Owed') /\ strayed' = strayed
  BY <1>2 DEF Owed, cacheVars
<1> QED BY <1>1, <1>3 DEF IInv

LEMMA InitIInv == SyncInit => IInv
<1> SUFFICES ASSUME SyncInit PROVE IInv
  OBVIOUS
<1>1. strayed \in BOOLEAN
  BY Zenon DEF SyncInit
<1>2. TypeInv /\ EachOnce /\ NewIsComing /\ NoHoles /\ NoReadyYet
  BY <1>1 DEF SyncInit, TypeInv, EachOnce, NewIsComing, NoHoles, NoReadyYet
<1>3. Unread = {}
  BY DEF SyncInit, Unread
<1>4. Owed
  BY <1>3, FS_EmptySet DEF SyncInit, Owed
<1> QED BY <1>2, <1>4 DEF IInv

LEMMA ServerSendsStep ==
  ASSUME IInv, NEW m \in Message, ServerSends(m)
  PROVE  IInv'
<1>1. /\ srvSent' = Append(srvSent, m) /\ inNet' = inNet \cup {Len(srvSent')}
      /\ UNCHANGED <<pstat, socket, lost, got, passed, inCache, strayed>>
  BY DEF ServerSends, cacheVars
<1>2. /\ Len(srvSent') = Len(srvSent) + 1 /\ Len(srvSent) \in Nat
      /\ \A i \in 1 .. Len(srvSent) : srvSent'[i] = srvSent[i]
  BY <1>1 DEF IInv, TypeInv
<1>3. TypeInv'
  <2>1. 1 .. Len(srvSent) \subseteq 1 .. Len(srvSent')
    BY <1>2
  <2>2. socket' \in Seq(1 .. Len(srvSent'))
    BY <1>1, <2>1 DEF IInv, TypeInv
  <2>3. srvSent' \in Seq(Message) /\ passed' \in 0 .. got' /\ inCache' \subseteq passed' + 1 .. got'
    BY <1>1 DEF IInv, TypeInv
  <2>4. strayed' \in BOOLEAN
    BY <1>1, Zenon DEF IInv, TypeInv
  <2>5. /\ inNet' \subseteq 1 .. Len(srvSent') /\ lost' \subseteq 1 .. Len(srvSent')
        /\ got' \in 0 .. Len(srvSent')
    <3>1. Len(srvSent') \in 1 .. Len(srvSent')
      BY <1>2
    <3>2. got \in 0 .. Len(srvSent) /\ inNet \subseteq 1 .. Len(srvSent) /\ lost \subseteq 1 .. Len(srvSent)
      BY DEF IInv, TypeInv
    <3>3. got \in 0 .. Len(srvSent')
      BY <1>2, <3>2
    <3> QED BY <1>1, <2>1, <3>1, <3>2, <3>3
  <2> QED BY <2>2, <2>3, <2>5, <2>4 DEF TypeInv
<1>4. /\ \A i \in DOMAIN socket : socket[i] \in 1 .. Len(srvSent)
      /\ Len(srvSent') \notin 1 .. Len(srvSent)
  BY <1>2 DEF IInv, TypeInv
<1>5. EachOnce'
  BY <1>1, <1>4 DEF IInv, TypeInv, EachOnce
<1>6. Coming' = Coming \cup {Len(srvSent')}
  BY <1>1 DEF Coming
<1>7. NewIsComing'
  BY <1>1, <1>2, <1>6 DEF IInv, TypeInv, NewIsComing
<1>8. (NoHoles => NoHoles') /\ (NoReadyYet => NoReadyYet')
  <2>1. \A i \in 1 .. passed : i \in 1 .. Len(srvSent)
    BY <1>2 DEF IInv, TypeInv
  <2> QED BY <1>1, <1>2, <2>1 DEF NoHoles, NoReadyYet
<1>9. Unread' = Unread
  <2>1. Len(srvSent') \notin 1 .. got
    BY <1>2 DEF IInv, TypeInv
  <2> QED BY <1>1, <1>6, <2>1 DEF Unread
<1>10. (Owed => Owed') /\ strayed' = strayed
  BY <1>1, <1>9 DEF Owed
<1> QED BY <1>3, <1>5, <1>7, <1>8, <1>10 DEF IInv

LEMMA ArriveStep ==
  ASSUME IInv, NEW n \in inNet, Arrive(n)
  PROVE  IInv'
<1>1. /\ inNet' = inNet \ {n} /\ socket' = Append(socket, n)
      /\ UNCHANGED <<pstat, srvSent, lost, got, passed, inCache, strayed>>
  BY DEF Arrive, cacheVars
<1>2. n \in 1 .. Len(srvSent) /\ socket \in Seq(1 .. Len(srvSent)) /\ Len(socket) \in Nat
  BY DEF IInv, TypeInv
<1>3. /\ DOMAIN socket' = 1 .. Len(socket) + 1 /\ DOMAIN socket = 1 .. Len(socket)
      /\ \A i \in 1 .. Len(socket) : socket'[i] = socket[i]
      /\ socket'[Len(socket) + 1] = n
      /\ \A i \in 1 .. Len(socket) + 1 : i \in 1 .. Len(socket) \/ i = Len(socket) + 1
      /\ Len(socket) + 1 \in 1 .. Len(socket) + 1
      /\ \A i \in 1 .. Len(socket) : i \in 1 .. Len(socket) + 1
  BY <1>1, <1>2
<1>4. TypeInv'
  <2>1. strayed' \in BOOLEAN
    BY <1>1, Zenon DEF IInv, TypeInv
  <2> QED BY <1>1, <1>2, <2>1 DEF IInv, TypeInv
<1>5. EachOnce'
  BY <1>1, <1>3 DEF IInv, EachOnce
<1>6. {socket'[i] : i \in DOMAIN socket'} = {socket[i] : i \in DOMAIN socket} \cup {n}
  BY <1>3, Zenon
<1>7. Coming' = Coming
  BY <1>1, <1>6 DEF Coming
<1> QED BY <1>1, <1>4, <1>5, <1>7, NothingRead DEF cacheVars

LEMMA LoseStep ==
  ASSUME IInv, NEW n \in inNet, LoseDatagram(n)
  PROVE  IInv'
<1>1. /\ inNet' = inNet \ {n} /\ lost' = lost \cup {n}
      /\ UNCHANGED <<pstat, srvSent, socket, got, passed, inCache, strayed>>
  BY DEF LoseDatagram, cacheVars
<1>2. TypeInv' /\ EachOnce'
  <2>1. strayed' \in BOOLEAN
    BY <1>1, Zenon DEF IInv, TypeInv
  <2> QED BY <1>1, <2>1 DEF IInv, TypeInv, EachOnce
<1>3. Coming' = Coming
  BY <1>1 DEF Coming
<1> QED BY <1>1, <1>2, <1>3, NothingRead DEF cacheVars

-----------------------------------------------------------------------------
(* The loop                                                                *)

\* What is read of a datagram is in the slots, whatever was given up before.
LEMMA SlotsRead ==
  ASSUME IInv, NEW n \in 1 .. Len(srvSent)
  PROVE  LET newest == IF n > got THEN n ELSE got
         IN /\ newest \in 0 .. Len(srvSent) /\ newest >= got
            /\ Before(n) \in 0 .. newest
<1>1. got \in Nat /\ passed \in Nat /\ passed <= got /\ got <= Len(srvSent) /\ Len(srvSent) \in Nat
  BY DEF IInv, TypeInv
<1>2. BundleSize \in Nat /\ Resync \in Nat /\ BundleSize < Resync /\ ICacheSize \in Nat
  BY KNetSyncAssumption
<1>3. Before(n) \in {n - BundleSize, got, passed} /\ (Before(n) = n - BundleSize => n - got >= Resync \/ n - BundleSize \in {got, passed})
  BY DEF Before
<1> QED BY <1>1, <1>2, <1>3

\* A datagram that is no stray fills every slot that it adds.
LEMMA NoStrayNoHole ==
  ASSUME IInv, NoHoles, NEW n \in 1 .. Len(srvSent), ~(n - got > BundleSize), ~RunsOver(n)
  PROVE  LET newest == IF n > got THEN n ELSE got
         IN /\ Before(n) = passed
            /\ \A i \in passed + 1 .. newest : i \in inCache \cup Carried(n)
<1>1. got \in Nat /\ passed \in Nat /\ passed <= got
  BY DEF IInv, TypeInv
<1>2. BundleSize \in Nat /\ Resync \in Nat /\ BundleSize < Resync
  BY KNetSyncAssumption
<1>3. Before(n) = passed
  BY <1>1, <1>2 DEF Before
<1>4. ASSUME NEW i \in got + 1 .. n PROVE i \in Carried(n)
  BY <1>1, <1>2, <1>4 DEF Carried
<1>5. ASSUME NEW newest, newest = IF n > got THEN n ELSE got, NEW i \in passed + 1 .. newest
      PROVE  i \in inCache \cup Carried(n)
  <2>1. i \in passed + 1 .. got \/ i \in got + 1 .. n
    BY <1>1, <1>5
  <2> QED BY <1>4, <2>1 DEF NoHoles
<1> QED BY <1>3, <1>5

\* Reading a datagram takes exactly its number from those outstanding.
LEMMA ComingRead ==
  ASSUME IInv, socket # <<>>, socket' = Tail(socket), UNCHANGED <<srvSent, inNet, lost>>
  PROVE  /\ Head(socket) \in 1 .. Len(srvSent) /\ Head(socket) \in Coming
         /\ socket' \in Seq(1 .. Len(srvSent)) /\ EachOnce'
         /\ Coming' = Coming \ {Head(socket)}
<1>1. /\ socket \in Seq(1 .. Len(srvSent)) /\ Len(socket) \in Nat /\ Len(socket) > 0
      /\ Head(socket) = socket[1]
  BY DEF IInv, TypeInv
<1>2. /\ DOMAIN socket = 1 .. Len(socket) /\ DOMAIN socket' = 1 .. Len(socket) - 1
      /\ \A i \in 1 .. Len(socket) - 1 : socket'[i] = socket[i + 1]
      /\ 1 \in 1 .. Len(socket)
      /\ \A i \in 1 .. Len(socket) - 1 : i + 1 \in 1 .. Len(socket) /\ i + 1 # 1
      /\ \A i \in 1 .. Len(socket) : i # 1 => i - 1 \in 1 .. Len(socket) - 1 /\ (i - 1) + 1 = i
  BY <1>1
<1>3. EachOnce'
  <2>1. \A i, j \in 1 .. Len(socket) - 1 : i + 1 = j + 1 => i = j
    BY <1>1
  <2> QED BY <1>2, <2>1 DEF IInv, EachOnce
<1>4. {socket'[i] : i \in DOMAIN socket'} = {socket[i] : i \in DOMAIN socket} \ {socket[1]}
  <2>1. ASSUME NEW i \in DOMAIN socket'
        PROVE  socket'[i] \in {socket[j] : j \in DOMAIN socket} \ {socket[1]}
    BY <1>2 DEF IInv, EachOnce
  <2>2. ASSUME NEW i \in DOMAIN socket, socket[i] # socket[1]
        PROVE  \E j \in DOMAIN socket' : socket'[j] = socket[i]
    <3>1. i - 1 \in DOMAIN socket' /\ socket'[i - 1] = socket[i]
      BY <1>2, <2>2
    <3> QED BY <3>1
  <2> QED BY <2>1, <2>2
<1>5. socket[1] \notin inNet \cup lost
  BY <1>2 DEF IInv, EachOnce
<1>6. Coming' = Coming \ {Head(socket)} /\ Head(socket) \in Coming
  <2> DEFINE S == {socket[i] : i \in DOMAIN socket}
  <2>1. /\ Coming = inNet \cup S \cup lost
        /\ Coming' = inNet \cup (S \ {socket[1]}) \cup lost
    BY <1>4, Zenon DEF Coming
  <2>2. socket[1] \in S
    BY <1>2, Zenon
  <2> HIDE DEF S
  <2> QED BY <1>1, <1>5, <2>1, <2>2
<1>7. Head(socket) \in 1 .. Len(srvSent) /\ socket' \in Seq(1 .. Len(srvSent))
  BY <1>1
<1> QED BY <1>3, <1>6, <1>7

\* The datagrams outstanding among the known ones, when n is read.
LEMMA UnreadRead ==
  ASSUME IInv, NEW n \in Coming, n \in 1 .. Len(srvSent), Coming' = Coming \ {n},
         got' = IF n > got THEN n ELSE got
  PROVE  Cardinality(Unread') = Cardinality(Unread) + (got' - got) - 1
<1>1. IsFiniteSet(Unread) /\ Cardinality(Unread) \in Nat
  BY UnreadFinite DEF IInv
<1>2. got \in Nat /\ n \in Nat /\ Len(srvSent) \in Nat /\ got <= Len(srvSent)
  BY DEF IInv, TypeInv
<1>3. CASE n <= got
  <2>1. n \in Unread /\ Unread' = Unread \ {n} /\ got' = got
    BY <1>2, <1>3 DEF Unread
  <2>2. Cardinality(Unread') = Cardinality(Unread) - 1
    BY <1>1, <2>1, FS_RemoveElement, Zenon
  <2> QED BY <1>1, <1>2, <2>1, <2>2
<1>4. CASE n > got
  <2>1. got' = n
    BY <1>4
  <2>2. Unread' = Unread \cup (got + 1 .. n - 1)
    <3>1. ASSUME NEW k, k \in Unread' PROVE k \in Unread \cup (got + 1 .. n - 1)
      BY <1>2, <2>1, <3>1 DEF Unread
    <3>2. ASSUME NEW k, k \in Unread PROVE k \in Unread'
      BY <1>2, <1>4, <2>1, <3>2 DEF Unread
    <3>3. ASSUME NEW k \in got + 1 .. n - 1 PROVE k \in Unread'
      <4>1. k \in got + 1 .. Len(srvSent) /\ k \in 1 .. n /\ k # n
        BY <1>2, <3>3
      <4> QED BY <2>1, <4>1 DEF IInv, NewIsComing, Unread
    <3> QED BY <3>1, <3>2, <3>3
  <2>3. Unread \cap (got + 1 .. n - 1) = {}
    BY <1>2 DEF Unread
  <2>4. IsFiniteSet(got + 1 .. n - 1) /\ Cardinality(got + 1 .. n - 1) = n - 1 - got
    <3>1. got + 1 \in Int /\ n - 1 \in Int /\ got + 1 <= n - 1 + 1
      BY <1>2, <1>4
    <3>2. (n - 1) - (got + 1) + 1 = n - 1 - got
      BY <1>2
    <3> QED BY <3>1, <3>2, CountInterval, Zenon
  <2>5. Cardinality(Unread') = Cardinality(Unread) + Cardinality(got + 1 .. n - 1)
                                 - Cardinality(Unread \cap (got + 1 .. n - 1))
    BY <1>1, <2>2, <2>4, FS_Union, Zenon
  <2>6. Cardinality(Unread \cap (got + 1 .. n - 1)) = 0
    BY <2>3, FS_EmptySet
  <2> QED BY <1>1, <1>2, <2>1, <2>4, <2>5, <2>6
<1> QED BY <1>2, <1>3, <1>4

LEMMA TurnReceiveStep == IInv /\ TurnReceive => IInv'
<1> SUFFICES ASSUME IInv, TurnReceive PROVE IInv'
  OBVIOUS
<1> DEFINE n == Head(socket)
<1> DEFINE newest == IF n > got THEN n ELSE got
<1> DEFINE held == {i \in Before(n) + 1 .. newest : i \in inCache \cup Carried(n)}
<1>1. /\ pstat = 1 /\ socket # <<>> /\ socket' = Tail(socket)
      /\ got' = newest /\ UNCHANGED <<srvSent, inNet, lost>>
      /\ strayed' = (strayed \/ n - got > BundleSize \/ RunsOver(n))
  BY DEF TurnReceive
<1>2. PICK q \in Before(n) .. newest :
        /\ q # Before(n) => \A i \in Before(n) + 1 .. q : i \notin held
        /\ HandOver(q, held)
  BY DEF TurnReceive
<1>3. /\ n \in 1 .. Len(srvSent) /\ n \in Coming /\ socket' \in Seq(1 .. Len(srvSent)) /\ EachOnce'
      /\ Coming' = Coming \ {n}
  BY <1>1, ComingRead
<1>4. /\ got \in Nat /\ got <= Len(srvSent) /\ Len(srvSent) \in Nat
      /\ passed \in Nat /\ passed <= got /\ srvSent \in Seq(Message)
  BY DEF IInv, TypeInv
<1>5. newest \in 0 .. Len(srvSent) /\ newest >= got /\ Before(n) \in 0 .. newest
  BY <1>3, SlotsRead
<1>6. Cardinality(Unread') = Cardinality(Unread) + (newest - got) - 1
  BY <1>1, <1>3, UnreadRead
<1>7. IsFiniteSet(Unread) /\ Cardinality(Unread) \in Nat
  BY UnreadFinite DEF IInv
<1>8. NewIsComing'
  <2>1. ASSUME NEW k \in newest + 1 .. Len(srvSent) PROVE k \in got + 1 .. Len(srvSent) /\ k # n
    BY <1>3, <1>4, <1>5
  <2> QED BY <1>1, <1>3, <2>1 DEF IInv, NewIsComing
<1>9. IsFiniteSet(Unread') /\ Cardinality(Unread') \in Nat
  <2>1. Unread' \in SUBSET (1 .. newest)
    BY <1>1 DEF Unread
  <2>2. 1 \in Int /\ newest \in Int
    BY <1>5
  <2>3. IsFiniteSet(1 .. newest)
    BY <2>2, FS_Interval, Zenon
  <2> QED BY <2>1, <2>3, FS_Subset, FS_CardinalityType, Zenon
<1>10. \A i \in held : i \in Before(n) + 1 .. newest
  OBVIOUS
<1>11. q \in Nat /\ q <= newest /\ (\A i \in held : i \in Int /\ i >= q + 1 /\ i <= newest)
  <2>1. q \in Nat /\ Before(n) <= q /\ q <= newest
    BY <1>2, <1>5
  <2>2. ASSUME NEW i \in held PROVE i \in Int /\ i >= q + 1 /\ i <= newest
    <3>1. i \in Before(n) + 1 .. newest /\ i \in Int /\ i <= newest
      BY <1>5, <1>10
    <3>2. i \notin Before(n) + 1 .. q
      BY <1>2, <1>5, <2>1
    <3> QED BY <1>5, <2>1, <3>1, <3>2
  <2> QED BY <2>1, <2>2
<1> HIDE DEF held
<1>12. TypeInv'
  <2>1. CASE q + 1 \in held
    <3>1. passed' = q + 1 /\ inCache' = held \ {q + 1}
      BY <1>2, <2>1 DEF HandOver
    <3>2. passed' \in 0 .. newest /\ inCache' \subseteq passed' + 1 .. newest
      BY <1>5, <1>11, <2>1, <3>1
    <3> QED BY <1>1, <1>3, <1>4, <1>5, <3>2 DEF IInv, TypeInv
  <2>2. CASE q + 1 \notin held
    <3>1. passed' = q /\ inCache' = held
      BY <1>2, <2>2 DEF HandOver
    <3>2. passed' \in 0 .. newest /\ inCache' \subseteq passed' + 1 .. newest
      BY <1>5, <1>11, <3>1
    <3> QED BY <1>1, <1>3, <1>4, <1>5, <3>2 DEF IInv, TypeInv
  <2> QED BY <2>1, <2>2
<1>13. CASE strayed \/ n - got > BundleSize \/ RunsOver(n)
  BY <1>1, <1>3, <1>8, <1>12, <1>13 DEF IInv
<1>14. CASE ~(strayed \/ n - got > BundleSize \/ RunsOver(n))
  <2>1. NoHoles /\ NoReadyYet /\ Owed
    BY <1>14 DEF IInv
  <2>2. Before(n) = passed /\ \A i \in passed + 1 .. newest : i \in inCache \cup Carried(n)
    BY <1>3, <1>14, <2>1, NoStrayNoHole
  <2>3. \A i \in passed + 1 .. newest : i \in held
    BY <2>2 DEF held
  <2>4. q = passed
    <3>1. ASSUME q # passed PROVE FALSE
      <4>1. passed + 1 \in Before(n) + 1 .. q /\ passed + 1 \in passed + 1 .. newest
        BY <1>2, <1>4, <1>5, <2>2, <3>1
      <4> QED BY <1>2, <2>2, <2>3, <3>1, <4>1
    <3> QED BY <3>1
  <2> HIDE DEF newest, n
  <2>5. CASE q + 1 \in held
    <3>1. passed' = passed + 1 /\ inCache' = held \ {passed + 1} /\ passed + 1 <= newest
      BY <1>2, <1>11, <2>4, <2>5 DEF HandOver
    <3>2. NoHoles'
      BY <1>1, <1>4, <2>3, <3>1 DEF NoHoles
    <3>3. NoReadyYet'
      <4>1. SUFFICES ASSUME pstat' = 1, NEW i \in 1 .. passed + 1 PROVE srvSent[i] # "GAMRSRDY"
        BY <1>1, <3>1 DEF NoReadyYet
      <4>2. srvSent[passed + 1] # "GAMRSRDY"
        BY <1>2, <2>4, <2>5, <4>1 DEF HandOver
      <4>3. i \in 1 .. passed \/ i = passed + 1
        BY <1>4, <4>1
      <4> QED BY <1>1, <2>1, <4>2, <4>3 DEF NoReadyYet
    <3>4. Owed'
      BY <1>1, <1>4, <1>5, <1>6, <1>7, <2>1, <3>1 DEF Owed
    <3> QED BY <1>3, <1>8, <1>12, <3>2, <3>3, <3>4 DEF IInv
  <2>6. CASE q + 1 \notin held
    <3>1. passed' = passed /\ inCache' = held
      BY <1>2, <2>4, <2>6 DEF HandOver
    <3>2. newest = passed
      <4>1. passed + 1 \notin passed + 1 .. newest
        BY <2>3, <2>4, <2>6
      <4> QED BY <1>4, <1>5, <4>1
    <3>3. NoHoles' /\ Owed'
      BY <1>1, <1>4, <1>9, <2>3, <3>1, <3>2 DEF NoHoles, Owed
    <3>4. NoReadyYet'
      BY <1>1, <2>1, <3>1 DEF NoReadyYet
    <3> QED BY <1>3, <1>8, <1>12, <3>3, <3>4 DEF IInv
  <2> QED BY <2>5, <2>6
<1> QED BY <1>13, <1>14

\* A step without a datagram.
LEMMA QuietStep ==
  ASSUME IInv, UNCHANGED <<srvSent, inNet, socket, lost, cacheVars>>, pstat' = 1 => pstat = 1
  PROVE  IInv'
<1>1. TypeInv'
  <2>1. strayed' \in BOOLEAN
    BY Zenon DEF IInv, TypeInv, cacheVars
  <2> QED BY <2>1 DEF IInv, TypeInv, cacheVars
<1>2. EachOnce' /\ Coming' = Coming
  BY DEF IInv, EachOnce, Coming
<1> QED BY <1>1, <1>2, NothingRead

LEMMA TurnIdleStep == IInv /\ TurnIdle => IInv'
<1> SUFFICES ASSUME IInv, TurnIdle PROVE IInv'
  OBVIOUS
<1>1. UNCHANGED <<srvSent, inNet, socket, lost, cacheVars>> /\ (pstat' = 1 => pstat = 1)
  BY DEF TurnIdle, Clock
<1> QED BY <1>1, QuietStep

LEMMA StepIInv == IInv /\ [SyncNext]_syncVars => IInv'
<1> SUFFICES ASSUME IInv, [SyncNext]_syncVars PROVE IInv'
  OBVIOUS
<1>1. CASE ServerHears \/ LoseReady \/ SyncDrop \/ UNCHANGED syncVars
  <2>1. UNCHANGED <<srvSent, inNet, socket, lost, cacheVars>> /\ (pstat' = 1 => pstat = 1)
    BY <1>1 DEF ServerHears, LoseReady, SyncDrop, syncVars, cacheVars
  <2> QED BY <2>1, QuietStep
<1>2. ASSUME NEW m \in {"GAMRSRDY", "other"}, ServerSends(m) PROVE IInv'
  BY <1>2, ServerSendsStep DEF Message
<1>3. ASSUME NEW n \in inNet, Arrive(n) PROVE IInv'
  BY <1>3, ArriveStep
<1>4. ASSUME NEW n \in inNet, LoseDatagram(n) PROVE IInv'
  BY <1>4, LoseStep
<1>5. CASE TurnReceive
  BY <1>5, TurnReceiveStep
<1>6. CASE TurnIdle
  BY <1>6, TurnIdleStep
<1> QED BY <1>1, <1>2, <1>3, <1>4, <1>5, <1>6 DEF SyncNext

LEMMA SpecIInv == SyncSpec => []IInv
  BY InitIInv, StepIInv, PTL DEF SyncSpec
-----------------------------------------------------------------------------
(* The theorems                                                            *)

\* The loop, which asks select() before has_data(), leaves no more messages unread in
\* in_cache than there are datagrams still to come or lost, as long as the bundles make up
\* for what is lost and late.
THEOREM SpecBacklog == SyncSpec => []Backlog
<1>1. ASSUME IInv PROVE Backlog
  <2>1. /\ IsFiniteSet(inNet) /\ IsFiniteSet(lost)
        /\ Len(srvSent) \in Nat /\ socket \in Seq(1 .. Len(srvSent))
    <3>1. Len(srvSent) \in Nat /\ inNet \in SUBSET (1 .. Len(srvSent)) /\ lost \in SUBSET (1 .. Len(srvSent))
      BY <1>1 DEF IInv, TypeInv
    <3>2. IsFiniteSet(1 .. Len(srvSent))
      BY <3>1, FS_Interval
    <3>3. IsFiniteSet(inNet) /\ IsFiniteSet(lost)
      BY <3>1, <3>2, FS_Subset, Zenon
    <3> QED BY <1>1, <3>1, <3>3 DEF IInv, TypeInv
  <2> DEFINE S == {socket[i] : i \in 1 .. Len(socket)}
  <2>2. IsFiniteSet(S) /\ Cardinality(S) <= Len(socket)
    <3>1. /\ IsFiniteSet(1 .. Len(socket)) /\ Cardinality(1 .. Len(socket)) = Len(socket)
      <4>1. 1 \in Int /\ Len(socket) \in Int /\ 1 <= Len(socket) + 1
        BY <2>1
      <4>2. Len(socket) - 1 + 1 = Len(socket)
        BY <4>1
      <4> QED BY <4>1, <4>2, CountInterval, Zenon
    <3>2. socket \in Surjection(1 .. Len(socket), S)
      BY <2>1 DEF Surjection
    <3>3. IsFiniteSet(S) /\ Cardinality(S) <= Cardinality(1 .. Len(socket))
      <4> HIDE DEF S
      <4> QED BY <3>1, <3>2, FS_Surjection, Zenon
    <3> QED BY <3>1, <3>3
  <2>3. /\ IsFiniteSet((inNet \cup S) \cup lost)
        /\ Cardinality((inNet \cup S) \cup lost) <= Cardinality(inNet) + Len(socket) + Cardinality(lost)
    <3> HIDE DEF S
    <3>1. /\ IsFiniteSet(inNet \cup S)
          /\ Cardinality(inNet \cup S) = Cardinality(inNet) + Cardinality(S) - Cardinality(inNet \cap S)
      BY <2>1, <2>2, FS_Union, Zenon
    <3>2. /\ IsFiniteSet((inNet \cup S) \cup lost)
          /\ Cardinality((inNet \cup S) \cup lost) =
               Cardinality(inNet \cup S) + Cardinality(lost) - Cardinality((inNet \cup S) \cap lost)
      BY <2>1, <3>1, FS_Union, Zenon
    <3>3. /\ Cardinality(inNet \cap S) \in Nat /\ Cardinality((inNet \cup S) \cap lost) \in Nat
      <4>1. /\ inNet \cap S \in SUBSET inNet /\ (inNet \cup S) \cap lost \in SUBSET lost
        OBVIOUS
      <4> QED BY <2>1, <4>1, FS_Subset, FS_CardinalityType, Zenon
    <3>4. /\ Cardinality(inNet) \in Nat /\ Cardinality(S) \in Nat /\ Cardinality(lost) \in Nat
      BY <2>1, <2>2, FS_CardinalityType, Zenon
    <3>5. Len(socket) \in Nat
      BY <2>1
    <3> QED BY <2>2, <3>1, <3>2, <3>3, <3>4, <3>5
  <2>4. Unread \in SUBSET ((inNet \cup S) \cup lost)
    BY <2>1 DEF Unread, Coming
  <2>5. Cardinality(Unread) <= Cardinality((inNet \cup S) \cup lost)
    BY <2>3, <2>4, FS_Subset, Zenon
  <2>6. /\ Cardinality((inNet \cup S) \cup lost) \in Nat /\ Cardinality(inNet) \in Nat
        /\ Cardinality(lost) \in Nat
    BY <2>1, <2>3, FS_CardinalityType, Zenon
  <2>7. Cardinality(Unread) \in Nat /\ Len(socket) \in Nat
    BY <1>1, <2>1, UnreadFinite DEF IInv
  <2>8. ASSUME ~strayed PROVE Cardinality(inCache) <= Cardinality(Unread)
    <3>1. /\ got \in Nat /\ passed \in Nat /\ passed <= got /\ got - passed <= Cardinality(Unread)
          /\ inCache \in SUBSET (passed + 1 .. got)
      BY <1>1, <2>8 DEF IInv, TypeInv, Owed
    <3>2. IsFiniteSet(passed + 1 .. got) /\ Cardinality(passed + 1 .. got) = got - passed
      <4>1. passed + 1 \in Int /\ got \in Int /\ passed + 1 <= got + 1 /\ got - (passed + 1) + 1 = got - passed
        BY <3>1
      <4> QED BY <4>1, CountInterval, Zenon
    <3>3. /\ Cardinality(inCache) <= Cardinality(passed + 1 .. got)
          /\ IsFiniteSet(inCache)
      BY <3>1, <3>2, FS_Subset, Zenon
    <3>4. Cardinality(inCache) \in Nat
      BY <3>3, FS_CardinalityType, Zenon
    <3> QED BY <2>7, <3>1, <3>2, <3>3, <3>4
  <2>9. ASSUME ~strayed PROVE Cardinality(inCache) \in Nat
    <3>1. IsFiniteSet(passed + 1 .. got) /\ inCache \in SUBSET (passed + 1 .. got)
      BY <1>1, FS_Interval DEF IInv, TypeInv
    <3> QED BY <3>1, FS_Subset, FS_CardinalityType, Zenon
  <2> HIDE DEF S
  <2> QED BY <2>3, <2>5, <2>6, <2>7, <2>8, <2>9 DEF Backlog
<1> QED BY <1>1, SpecIInv, PTL

\* A player none of whose datagrams is lost has seen GAMRSRDY once it has read the last: it
\* is not left behind in in_cache, in whatever order the bundles make up for.
THEOREM SpecReadyIsRead == SyncSpec => []ReadyIsRead
<1>1. ASSUME IInv PROVE ReadyIsRead
  <2>1. SUFFICES ASSUME pstat = 1, ~strayed, lost = {}, inNet = {}, socket = <<>>
                 PROVE  \A i \in 1 .. got : srvSent[i] # "GAMRSRDY"
    BY DEF ReadyIsRead
  <2>2. Unread = {}
    BY <2>1 DEF Unread, Coming
  <2>3. passed = got
    BY <1>1, <2>1, <2>2, FS_EmptySet DEF IInv, Owed, TypeInv
  <2> QED BY <1>1, <2>1, <2>3 DEF IInv, NoReadyYet
<1> QED BY <1>1, SpecIInv, PTL

-----------------------------------------------------------------------------
\* The search by code.

\* An address, the datagrams, and the two kinds of window.
Somewhere == [joiner : Joiners \cup {"nobody"}, way : Ways \cup {"none"}]
ServerDatagram ==
  [to : {"server"}, kind : {"REG", "KEEP", "CLOSE", "JOIN", "WHATISMYIP"}, code : Nat,
   joiner : Joiners \cup {"nobody"}]
HostDatagram ==
  [to : {"host"}, kind : {"REGOK", "PEER", "MYIP", "REQ", "RPOS", "EXIT"}, code : Nat, from : Somewhere]
JoinerDatagram ==
  [to : Joiners, kind : {"HOST", "BUSY", "RPOS", "EXIT"}, way : Ways \cup {"none"}]
Datagram == ServerDatagram \cup HostDatagram \cup JoinerDatagram
HostWindow ==
  [open : BOOLEAN, byCode : BOOLEAN, code : Nat, suspended : BOOLEAN, regs : Nat, regIn : Nat,
   keepIn : Nat, ipPending : BOOLEAN, ip : BOOLEAN, enlist : BOOLEAN, listed : Int,
   peer : Joiners \cup {"nobody"}, punchIn : Nat, addr : Somewhere,
   stage : {"free", "asked", "connected"}, replies : Nat]
JoinerWindow ==
  [open : BOOLEAN, joining : BOOLEAN, code : Nat, gotHost : BOOLEAN, busy : BOOLEAN,
   fallback : BOOLEAN, tried : BOOLEAN, attempts : Nat, joinIn : Nat, deadline : Nat,
   addr : Ways \cup {"none"}, stage : {"free", "connected", "left"}]

SearchTypes ==
  /\ session \in Nat /\ minted \in Nat /\ wire \subseteq Datagram
  /\ h \in HostWindow /\ w \in [Joiners -> JoinerWindow]

\* What is written to a host or a joiner has somebody's address on it.
Addressed(m) ==
  /\ (m.to = "host" /\ m.kind \in {"REQ", "RPOS"}) => m.from \in [joiner : Joiners, way : Ways]
  /\ (m.to \in Joiners /\ m.kind = "RPOS") => m.way \in Ways
  /\ (m.to = "server" /\ m.kind = "JOIN") => m.joiner \in Joiners

\* A host who was asked knows by whom, a joiner who is connected knows to where, and one who is
\* still looking for the host has nowhere to write.
RealAddresses ==
  /\ \A m \in wire : Addressed(m)
  /\ h.stage # "free" => h.addr \in [joiner : Joiners, way : Ways]
  /\ \A j \in Joiners : Speaks(j) => w[j].addr \in Ways
BlindSearch == \A j \in Joiners : (w[j].joining /\ ~w[j].gotHost) => w[j].addr = "none"

\* A joiner's question to the server or the answer to it is on its way at most once, and as long
\* as it is the joiner has no other answer.
Asks(m, j) == (m.to = "server" /\ m.kind = "JOIN" /\ m.joiner = j) \/ (m.to = j /\ m.kind = "HOST")
Waiting(x) == x # NoJoiner /\ (x.joining => ~x.gotHost)
AskedOnce ==
  /\ \A j \in Joiners : \A m \in wire : Asks(m, j) => Waiting(w[j])
  /\ \A j \in Joiners : \A m, n \in wire : (Asks(m, j) /\ Asks(n, j)) => m = n

\* Who confirmed does not change the address any more, and it is the one the confirmation came from.
Agrees(from, x) == x.stage # "free" /\ (x.stage = "connected" => from.way = x.addr)
Agreement ==
  /\ \A m \in wire : (m.to = "host" /\ m.kind = "RPOS") => Agrees(m.from, w[m.from.joiner])
  /\ h.stage = "connected" => Agrees(h.addr, w[h.addr.joiner])

\* What the list of games shows of a host.
RightlyListed(x) == (x.listed > 0 => x.listed = x.code) /\ (~x.enlist => x.listed = -1)

SearchInv ==
  SearchTypes /\ RealAddresses /\ BlindSearch /\ AskedOnce /\ Agreement /\ RightlyListed(h)
-----------------------------------------------------------------------------
(* The operators of the two windows                                        *)

\* What the operators of the host's window leave alone.
SamePeer(x, y) == y \in HostWindow /\ y.stage = x.stage /\ y.addr = x.addr /\ RightlyListed(y)

\* To list a game.
LEMMA EnlistedIs ==
  ASSUME NEW x \in HostWindow, ~x.enlist => x.listed = -1
  PROVE  SamePeer(x, Enlisted(x))
<1>1. Enlisted(x) \in HostWindow
  BY DEF HostWindow, Enlisted
<1> QED BY <1>1 DEF HostWindow, Enlisted, SamePeer, RightlyListed

\* To take it off the list.
LEMMA UnlistedIs ==
  ASSUME NEW x \in HostWindow, ~x.enlist => x.listed = -1
  PROVE  SamePeer(x, Unlisted(x))
<1>1. Unlisted(x) \in HostWindow
  BY DEF HostWindow, Unlisted
<1> QED BY <1>1 DEF HostWindow, Unlisted, SamePeer, RightlyListed

\* To host by IP, before the list is told.
LEMMA ByIpIs ==
  ASSUME NEW x \in HostWindow, RightlyListed(x)
  PROVE  SamePeer(x, ByIp(x)) /\ ByIp(x).enlist = x.enlist
<1>1. ByIp(x) \in HostWindow
  BY DEF HostWindow, ByIp
<1> QED BY <1>1 DEF HostWindow, ByIp, SamePeer, RightlyListed

\* The host's timer, but for its punches and replies.
LEMMA HostBeatsIs ==
  ASSUME NEW x \in HostWindow, RightlyListed(x)
  PROVE  SamePeer(x, HostBeats(x))
<1> USE TraversalAssumption
<1>1. CASE ~x.byCode \/ x.suspended
  BY <1>1 DEF HostBeats, SamePeer
<1>2. CASE ~(~x.byCode \/ x.suspended) /\ x.code = 0 /\ ~IsDue(x.regIn)
  <2>1. HostBeats(x) = [x EXCEPT !.regIn = @ - 1]
    BY <1>2 DEF HostBeats, HostReg
  <2>2. x.regIn - 1 \in Nat
    BY <1>2 DEF IsDue, HostWindow
  <2>3. HostBeats(x) \in HostWindow
    BY <2>1, <2>2 DEF HostWindow
  <2> QED BY <2>1, <2>3 DEF HostWindow, SamePeer, RightlyListed
<1>3. CASE ~(~x.byCode \/ x.suspended) /\ x.code = 0 /\ IsDue(x.regIn) /\ RegGivenUp(x)
  <2>1. HostBeats(x) = Enlisted(ByIp(x))
    BY <1>3 DEF HostBeats, HostReg
  <2>2. SamePeer(x, ByIp(x)) /\ ByIp(x).enlist = x.enlist
    BY ByIpIs
  <2>3. ByIp(x) \in HostWindow /\ (~ByIp(x).enlist => ByIp(x).listed = -1)
    BY <2>2 DEF SamePeer, RightlyListed
  <2>4. SamePeer(ByIp(x), Enlisted(ByIp(x)))
    BY <2>3, EnlistedIs
  <2> QED BY <2>1, <2>2, <2>4 DEF SamePeer
<1>4. CASE ~(~x.byCode \/ x.suspended) /\ x.code = 0 /\ IsDue(x.regIn) /\ ~RegGivenUp(x)
  <2>1. HostBeats(x) = [x EXCEPT !.regs = @ + 1, !.regIn = RegAgain]
    BY <1>4 DEF HostBeats, HostReg
  <2>2. RegAgain \in Nat /\ x.regs + 1 \in Nat
    BY TraversalAssumption DEF HostWindow
  <2>3. HostBeats(x) \in HostWindow
    BY <2>1, <2>2 DEF HostWindow
  <2> QED BY <2>1, <2>3 DEF HostWindow, SamePeer, RightlyListed
<1>5. CASE ~(~x.byCode \/ x.suspended) /\ x.code # 0
  <2>1. HostBeats(x) = [x EXCEPT !.keepIn = Then(@, KeepAgain)]
    BY <1>5 DEF HostBeats
  <2>2. Then(x.keepIn, KeepAgain) \in Nat
    BY DEF Then, IsDue, HostWindow
  <2>3. HostBeats(x) \in HostWindow
    BY <2>1, <2>2 DEF HostWindow
  <2> QED BY <2>1, <2>3 DEF HostWindow, SamePeer, RightlyListed
<1> QED BY <1>1, <1>2, <1>3, <1>4, <1>5

\* A peer has come: nothing but the stage changes.
LEMMA PeerJoinedIs ==
  ASSUME NEW x \in HostWindow, RightlyListed(x)
  PROVE  /\ PeerJoined(x) \in HostWindow /\ RightlyListed(PeerJoined(x))
         /\ PeerJoined(x).stage = "connected" /\ PeerJoined(x).addr = x.addr
<1> DEFINE y == [x EXCEPT !.stage = "connected", !.replies = 0]
           z == IF ~x.byCode \/ x.suspended THEN y
                ELSE [y EXCEPT !.suspended = TRUE, !.code = 0, !.regs = 0, !.regIn = 0, !.keepIn = 0]
<1>1. y \in HostWindow /\ y.stage = "connected" /\ y.addr = x.addr /\ y.enlist = x.enlist /\ y.listed = x.listed
  BY DEF HostWindow
<1>2. z \in HostWindow /\ z.stage = "connected" /\ z.addr = x.addr /\ z.enlist = x.enlist /\ z.listed = x.listed
  <2> HIDE DEF y
  <2> QED BY <1>1 DEF HostWindow
<1>3. ~z.enlist => z.listed = -1
  BY <1>2 DEF RightlyListed
<1>4. PeerJoined(x) = Unlisted(z)
  BY DEF PeerJoined
<1> HIDE DEF y, z
<1>5. SamePeer(z, Unlisted(z))
  BY <1>2, <1>3, UnlistedIs
<1> QED BY <1>2, <1>4, <1>5 DEF SamePeer

\* A peer has left: the host is free.
LEMMA PeerLeftIs ==
  ASSUME NEW x \in HostWindow, RightlyListed(x)
  PROVE  PeerLeft(x) \in HostWindow /\ RightlyListed(PeerLeft(x)) /\ PeerLeft(x).stage = "free"
<1> DEFINE y == [x EXCEPT !.peer = "nobody", !.punchIn = 0, !.addr = Nowhere, !.stage = "free"]
           z == IF ~x.byCode THEN y
                ELSE [y EXCEPT !.suspended = FALSE, !.code = 0, !.regs = 0, !.regIn = 0, !.keepIn = 0]
<1>1. y \in HostWindow /\ y.stage = "free" /\ y.enlist = x.enlist /\ y.listed = x.listed
  BY DEF HostWindow, Nowhere, Somewhere
<1>2. z \in HostWindow /\ z.stage = "free" /\ z.enlist = x.enlist /\ z.listed = x.listed
  <2> HIDE DEF y
  <2> QED BY <1>1 DEF HostWindow
<1>3. ~z.enlist => z.listed = -1
  BY <1>2 DEF RightlyListed
<1>4. PeerLeft(x) = Enlisted(z)
  BY DEF PeerLeft
<1> HIDE DEF y, z
<1>5. SamePeer(z, Enlisted(z))
  BY <1>2, <1>3, EnlistedIs
<1> QED BY <1>2, <1>4, <1>5 DEF SamePeer

\* What the operators of a joiner's window leave alone.
StillFree(x, y) == y \in JoinerWindow /\ y.stage = x.stage /\ y.joining = x.joining /\ y.gotHost = x.gotHost

\* A joiner writes elsewhere.
LEMMA TowardIs ==
  ASSUME NEW x \in JoinerWindow, NEW way \in Ways
  PROVE  StillFree(x, Toward(x, way))
<1>1. Toward(x, way) \in JoinerWindow
  BY DEF JoinerWindow, Toward
<1> QED BY <1>1 DEF JoinerWindow, Toward, StillFree

\* A joiner perhaps tries the plain address.
LEMMA FallenBackIs ==
  ASSUME NEW x \in JoinerWindow
  PROVE  StillFree(x, FallenBack(x))
<1>1. [x EXCEPT !.tried = TRUE] \in JoinerWindow
  BY DEF JoinerWindow
<1>2. StillFree(x, [x EXCEPT !.tried = TRUE])
  BY <1>1 DEF JoinerWindow, StillFree
<1>3. StillFree([x EXCEPT !.tried = TRUE], Toward([x EXCEPT !.tried = TRUE], "direct"))
  BY <1>1, TowardIs DEF Ways
<1>4. CASE MayFallBack(x)
  BY <1>2, <1>3, <1>4 DEF FallenBack, StillFree
<1>5. CASE ~MayFallBack(x)
  BY <1>5 DEF FallenBack, StillFree
<1> QED BY <1>4, <1>5

\* A try is counted.
LEMMA TriedIs ==
  ASSUME NEW x \in JoinerWindow
  PROVE  StillFree(x, Tried(x))
<1>1. Tried(x) \in JoinerWindow
  BY DEF JoinerWindow, Tried
<1> QED BY <1>1 DEF JoinerWindow, Tried, StillFree

\* A LOGN_REQ has the joiner's address on it.
LEMMA RequestIs ==
  ASSUME NEW j \in Joiners, NEW way \in Ways
  PROVE  Request(j, way) \subseteq {ToHost("REQ", 0, From(j, way))}
BY DEF Request
-----------------------------------------------------------------------------
(* What a step may do to datagrams and windows                             *)

\* Datagrams a host or a server sends: no question, and no confirmation to the host.
Plain(m) == m \in Datagram /\ Addressed(m) /\ m.kind \notin {"JOIN", "HOST"} /\ ~(m.to = "host" /\ m.kind = "RPOS")

\* Only the host's window changes.
LEMMA HostStep ==
  ASSUME SearchInv, NEW gone, NEW out, Sends(gone, out), UNCHANGED <<session, minted, w>>,
         \A m \in out : Plain(m),
         h' \in HostWindow, RightlyListed(h'),
         h'.stage # "free" => h'.addr \in [joiner : Joiners, way : Ways],
         h'.stage = "connected" => Agrees(h'.addr, w[h'.addr.joiner])
  PROVE  SearchInv'
<1>1. \A m \in wire' : m \in wire \/ m \in out
  BY DEF Sends
<1>2. SearchTypes'
  BY <1>1 DEF SearchInv, SearchTypes, Plain
<1>3. RealAddresses'
  BY <1>1 DEF SearchInv, RealAddresses, Plain, Speaks
<1>4. BlindSearch'
  BY DEF SearchInv, BlindSearch
<1>5. \A m \in wire', j \in Joiners : Asks(m, j) => m \in wire
  BY <1>1 DEF Asks, Plain
<1>6. AskedOnce'
  BY <1>5 DEF SearchInv, AskedOnce
<1>7. \A m \in wire' : (m.to = "host" /\ m.kind = "RPOS") => m \in wire
  BY <1>1 DEF Plain
<1>8. Agreement'
  BY <1>7 DEF SearchInv, Agreement
<1> QED BY <1>2, <1>3, <1>4, <1>6, <1>8 DEF SearchInv

\* Only the window of one joiner changes.
LEMMA JoinerStep ==
  ASSUME SearchInv, NEW gone, NEW out, Sends(gone, out), UNCHANGED <<session, minted, h>>,
         NEW j \in Joiners, NEW x \in JoinerWindow, w' = [w EXCEPT ![j] = x],
         \A m \in out : m \in Datagram /\ Addressed(m),
         x.stage = "connected" => x.addr \in Ways,
         (x.joining /\ ~x.gotHost) => x.addr = "none",
         \A m \in wire' : Asks(m, j) => Waiting(x),
         \A m, n \in wire' : (Asks(m, j) /\ Asks(n, j)) => m = n,
         \A m \in out, k \in Joiners : Asks(m, k) => k = j,
         \A m \in wire' : (m.to = "host" /\ m.kind = "RPOS" /\ m.from.joiner = j) => Agrees(m.from, x),
         \A m \in out : (m.to = "host" /\ m.kind = "RPOS") => m.from.joiner = j,
         (h.stage = "connected" /\ h.addr.joiner = j) => Agrees(h.addr, x)
  PROVE  SearchInv'
<1>1. w' \in [Joiners -> JoinerWindow] /\ w'[j] = x /\ \A k \in Joiners \ {j} : w'[k] = w[k]
  BY DEF SearchInv, SearchTypes
<1>2. \A m \in wire' : m \in wire \/ m \in out
  BY DEF Sends
<1>3. SearchTypes'
  BY <1>1, <1>2 DEF SearchInv, SearchTypes
<1>4. RealAddresses'
  BY <1>1, <1>2 DEF SearchInv, RealAddresses, Speaks
<1>5. BlindSearch'
  BY <1>1 DEF SearchInv, BlindSearch
<1>6. \A m \in wire', k \in Joiners \ {j} : Asks(m, k) => m \in wire
  BY <1>2
<1>7. AskedOnce'
  <2>1. \A k \in Joiners : \A m \in wire' : Asks(m, k) => Waiting(w'[k])
    BY <1>1, <1>6 DEF SearchInv, AskedOnce
  <2>2. \A k \in Joiners : \A m, n \in wire' : (Asks(m, k) /\ Asks(n, k)) => m = n
    BY <1>6 DEF SearchInv, AskedOnce
  <2> QED BY <2>1, <2>2 DEF AskedOnce
<1>8. Agreement'
  <2>1. \A m \in wire' : (m.to = "host" /\ m.kind = "RPOS") => m.from.joiner \in Joiners
    BY <1>2 DEF SearchInv, RealAddresses, Addressed
  <2>2. ASSUME NEW m \in wire', m.to = "host", m.kind = "RPOS"
        PROVE  Agrees(m.from, w'[m.from.joiner])
    <3>1. CASE m.from.joiner = j
      BY <1>1, <2>2, <3>1
    <3>2. CASE m.from.joiner # j
      <4>1. m \in wire
        BY <1>2, <2>2, <3>2
      <4>2. w'[m.from.joiner] = w[m.from.joiner]
        BY <1>1, <2>1, <2>2, <3>2
      <4> QED BY <2>2, <4>1, <4>2 DEF SearchInv, Agreement
    <3> QED BY <3>1, <3>2
  <2>3. h'.stage = "connected" => Agrees(h'.addr, w'[h'.addr.joiner])
    <3> SUFFICES ASSUME h.stage = "connected" PROVE Agrees(h.addr, w'[h.addr.joiner])
      OBVIOUS
    <3>1. h.addr.joiner \in Joiners
      BY DEF SearchInv, RealAddresses
    <3>2. CASE h.addr.joiner = j
      BY <1>1, <3>2
    <3>3. CASE h.addr.joiner # j
      <4>1. w'[h.addr.joiner] = w[h.addr.joiner]
        BY <1>1, <3>1, <3>3
      <4> QED BY <4>1 DEF SearchInv, Agreement
    <3> QED BY <3>2, <3>3
  <2> QED BY <2>2, <2>3 DEF Agreement
<1> QED BY <1>3, <1>4, <1>5, <1>7, <1>8 DEF SearchInv
-----------------------------------------------------------------------------
(* The host's steps                                                        *)

\* The host's messages to the server.
LEMMA WithCodeIs ==
  ASSUME NEW x \in HostWindow, NEW kind \in {"KEEP", "CLOSE"}
  PROVE  \A m \in WithCode(x, kind) : Plain(m)
<1> SUFFICES ASSUME x.code # 0 PROVE Plain(ToServer(kind, x.code, "nobody"))
  BY DEF WithCode
<1>1. x.code \in Nat
  BY DEF HostWindow
<1>2. ToServer(kind, x.code, "nobody") \in ServerDatagram
  BY <1>1 DEF ToServer, ServerDatagram
<1> QED BY <1>2, TraversalAssumption DEF ToServer, Plain, Addressed, Datagram

\* The host's other questions to the servers.
LEMMA QuestionIs == Plain(Reg) /\ Plain(AskIp)
<1>1. Reg \in ServerDatagram /\ AskIp \in ServerDatagram
  BY DEF Reg, AskIp, ToServer, ServerDatagram
<1> QED BY <1>1, TraversalAssumption DEF Reg, AskIp, ToServer, Plain, Addressed, Datagram

\* The host's messages to who has asked.
LEMMA AnswerIs ==
  ASSUME NEW kind \in {"RPOS", "EXIT"}, NEW a \in [joiner : Joiners, way : Ways]
  PROVE  Plain(ToJoiner(kind, a.joiner, a.way))
<1>1. ToJoiner(kind, a.joiner, a.way) \in JoinerDatagram
  BY DEF ToJoiner, JoinerDatagram
<1> QED BY <1>1, TraversalAssumption DEF ToJoiner, Plain, Addressed, Datagram

\* A host that has no address is free.
LEMMA NoHostIs == NoHost \in HostWindow /\ NoHost.stage = "free" /\ RightlyListed(NoHost)
<1>1. NoHost \in HostWindow
  BY DEF NoHost, HostWindow, Nowhere, Somewhere
<1> QED BY <1>1 DEF NoHost, RightlyListed

\* A new host window has asked nobody and nobody asked it.
LEMMA OpenHostStep == SearchInv /\ OpenHost => SearchInv'
<1> SUFFICES ASSUME SearchInv, NEW byCode \in BOOLEAN, NEW enlist \in Enlist, OpenHost,
                    LET x == [NoHost EXCEPT !.open = TRUE, !.byCode = byCode, !.enlist = enlist]
                    IN IF byCode THEN h' = [x EXCEPT !.regs = 1, !.regIn = RegAgain] /\ Sends({}, {Reg})
                                 ELSE h' = Enlisted(ByIp(x)) /\ Sends({}, {AskIp})
             PROVE  SearchInv'
  BY DEF OpenHost
<1> DEFINE x == [NoHost EXCEPT !.open = TRUE, !.byCode = byCode, !.enlist = enlist]
<1>1. enlist \in BOOLEAN /\ RegAgain \in Nat
  BY TraversalAssumption
<1>2. x \in HostWindow /\ x.stage = "free" /\ x.listed = -1
  BY <1>1, NoHostIs DEF HostWindow, NoHost
<1>3. RightlyListed(x)
  BY <1>2 DEF RightlyListed
<1>4. UNCHANGED <<session, minted, w>>
  BY DEF OpenHost
<1>5. CASE byCode
  <2>1. h' = [x EXCEPT !.regs = 1, !.regIn = RegAgain] /\ Sends({}, {Reg})
    BY <1>5
  <2> HIDE DEF x
  <2>2. h' \in HostWindow /\ h'.stage = "free" /\ RightlyListed(h')
    BY <1>1, <1>2, <1>3, <2>1 DEF HostWindow, RightlyListed
  <2> QED BY <1>4, <2>1, <2>2, QuestionIs, HostStep
<1>6. CASE ~byCode
  <2>1. h' = Enlisted(ByIp(x)) /\ Sends({}, {AskIp})
    BY <1>6
  <2> HIDE DEF x
  <2>2. SamePeer(x, ByIp(x)) /\ ByIp(x).enlist = x.enlist
    BY <1>2, <1>3, ByIpIs
  <2>3. ByIp(x) \in HostWindow /\ (~ByIp(x).enlist => ByIp(x).listed = -1)
    BY <2>2 DEF SamePeer, RightlyListed
  <2>4. SamePeer(ByIp(x), h')
    BY <2>1, <2>3, EnlistedIs
  <2>5. h' \in HostWindow /\ h'.stage = "free" /\ RightlyListed(h')
    BY <1>2, <2>2, <2>4 DEF SamePeer
  <2> QED BY <1>4, <2>1, <2>5, QuestionIs, HostStep
<1> QED BY <1>5, <1>6

\* A host who leaves says so to the joiner it listed, whose address it has.
LEMMA CloseHostStep == SearchInv /\ CloseHost => SearchInv'
<1> SUFFICES ASSUME SearchInv, CloseHost PROVE SearchInv'
  OBVIOUS
<1> DEFINE out == (IF h.byCode THEN WithCode(h, "CLOSE") ELSE {}) \cup
               (IF h.stage = "connected" THEN {ToJoiner("EXIT", h.addr.joiner, h.addr.way)} ELSE {})
<1>1. Sends({}, out) /\ h' = NoHost /\ UNCHANGED <<session, minted, w>>
  BY DEF CloseHost
<1>2. h \in HostWindow /\ (h.stage = "connected" => h.addr \in [joiner : Joiners, way : Ways])
  BY DEF SearchInv, SearchTypes, RealAddresses
<1>3. \A m \in WithCode(h, "CLOSE") : Plain(m)
  BY <1>2, WithCodeIs
<1>4. h.stage = "connected" => Plain(ToJoiner("EXIT", h.addr.joiner, h.addr.way))
  BY <1>2, AnswerIs
<1>5. \A m \in out : Plain(m)
  BY <1>3, <1>4
<1> HIDE DEF out
<1> QED BY <1>1, <1>5, NoHostIs, HostStep

\* The timer registers, keeps alive, confirms to the joiner who asked and gives up: it lists nobody.
LEMMA HostTimerStep == SearchInv /\ HostTimer => SearchInv'
<1> SUFFICES ASSUME SearchInv, HostTimer PROVE SearchInv'
  OBVIOUS
<1>1. PICK x \in {HostBeats(h), Relisted(HostBeats(h))} :
        h' = [x EXCEPT !.punchIn = IF @ > 0 THEN @ - 1 ELSE 0,
                       !.replies = IF @ > 0 THEN @ - 1 ELSE 0]
  BY DEF HostTimer
<1> DEFINE reply == IF h.stage = "asked" /\ h.replies > 0 THEN {ToJoiner("RPOS", h.addr.joiner, h.addr.way)} ELSE {}
<1>2. Sends({}, HostSays(h) \cup reply) /\ UNCHANGED <<session, minted, w>>
  BY DEF HostTimer
<1>3. h \in HostWindow /\ RightlyListed(h) /\ (h.stage # "free" => h.addr \in [joiner : Joiners, way : Ways])
  BY DEF SearchInv, SearchTypes, RealAddresses
<1>4. SamePeer(h, HostBeats(h))
  BY <1>3, HostBeatsIs
<1>5. SamePeer(HostBeats(h), Relisted(HostBeats(h)))
  <2>1. HostBeats(h) \in HostWindow /\ RightlyListed(HostBeats(h))
    BY <1>4 DEF SamePeer
  <2>2. SamePeer(HostBeats(h), Enlisted(HostBeats(h)))
    BY <2>1, EnlistedIs DEF RightlyListed
  <2> QED BY <2>1, <2>2 DEF Relisted, SamePeer
<1>6. SamePeer(h, x)
  BY <1>1, <1>4, <1>5 DEF SamePeer
<1>7. h' \in HostWindow /\ h'.stage = h.stage /\ h'.addr = h.addr /\ h'.listed = x.listed /\ h'.code = x.code /\ h'.enlist = x.enlist
  <2>1. x \in HostWindow /\ x.stage = h.stage /\ x.addr = h.addr
    BY <1>6 DEF SamePeer
  <2>2. (IF x.punchIn > 0 THEN x.punchIn - 1 ELSE 0) \in Nat /\ (IF x.replies > 0 THEN x.replies - 1 ELSE 0) \in Nat
    BY <2>1 DEF HostWindow
  <2> QED BY <1>1, <2>1, <2>2 DEF HostWindow
<1>8. RightlyListed(h')
  BY <1>6, <1>7 DEF SamePeer, RightlyListed
<1>9. \A m \in HostSays(h) : Plain(m)
  <2>1. \A m \in WithCode(h, "KEEP") : Plain(m)
    BY <1>3, WithCodeIs
  <2> QED BY <2>1, QuestionIs DEF HostSays
<1>10. \A m \in reply : Plain(m)
  <2>1. h.stage = "asked" => Plain(ToJoiner("RPOS", h.addr.joiner, h.addr.way))
    BY <1>3, AnswerIs
  <2> QED BY <2>1
<1>11. h'.stage = "connected" => Agrees(h'.addr, w[h'.addr.joiner])
  BY <1>7 DEF SearchInv, Agreement
<1> DEFINE out == HostSays(h) \cup reply
<1>12. Sends({}, out) /\ \A m \in out : Plain(m)
  BY <1>2, <1>9, <1>10
<1> HIDE DEF out, reply
<1>13. h'.stage # "free" => h'.addr \in [joiner : Joiners, way : Ways]
  BY <1>3, <1>7
<1> QED BY <1>2, <1>7, <1>8, <1>11, <1>12, <1>13, HostStep

\* A step of the host that has no peer any more.
LEMMA HostFreeStep ==
  ASSUME SearchInv, NEW gone, Sends(gone, {}), UNCHANGED <<session, minted, w>>,
         h' = PeerLeft(h)
  PROVE  SearchInv'
<1>1. h' \in HostWindow /\ RightlyListed(h') /\ h'.stage = "free"
  BY PeerLeftIs DEF SearchInv, SearchTypes
<1> QED BY <1>1, HostStep

\* A datagram is read and the host's window keeps its peer.
LEMMA HostReadStep ==
  ASSUME SearchInv, NEW gone, Sends(gone, {}), UNCHANGED <<session, minted, w>>,
         SamePeer(h, h')
  PROVE  SearchInv'
<1>1. h' \in HostWindow /\ RightlyListed(h') /\ h'.stage = h.stage /\ h'.addr = h.addr
  BY DEF SamePeer
<1>2. h'.stage # "free" => h'.addr \in [joiner : Joiners, way : Ways]
  BY <1>1 DEF SearchInv, RealAddresses
<1>3. h'.stage = "connected" => Agrees(h'.addr, w[h'.addr.joiner])
  BY <1>1 DEF SearchInv, Agreement
<1> QED BY <1>1, <1>2, <1>3, HostStep
\* What the host reads is meant for it.
LEMMA ReadAtHost ==
  ASSUME SearchInv, NEW m \in wire, m.to = "host"
  PROVE  m \in HostDatagram
<1>1. m \in Datagram /\ m \notin ServerDatagram
  BY DEF SearchInv, SearchTypes, ServerDatagram
<1>2. m \notin JoinerDatagram
  BY TraversalAssumption DEF JoinerDatagram
<1> QED BY <1>1, <1>2 DEF Datagram

\* A REGOK gives the session a code, one more than any before it.
LEMMA HostRegokStep ==
  ASSUME SearchInv, NEW m \in wire, HostRegok(m)
  PROVE  SearchInv'
<1> DEFINE y == [h EXCEPT !.code = m.code, !.regs = 0, !.ipPending = FALSE, !.ip = FALSE, !.keepIn = 0]
<1>1. m.code \in Nat /\ h \in HostWindow /\ RightlyListed(h)
  BY ReadAtHost DEF HostRegok, HostReads, HostDatagram, SearchInv, SearchTypes
<1>2. y \in HostWindow /\ y.stage = h.stage /\ y.addr = h.addr /\ y.enlist = h.enlist /\ y.listed = h.listed
  BY <1>1 DEF HostWindow
<1>3. h' = IF ~h.byCode THEN h ELSE Enlisted(y)
  BY DEF HostRegok
<1> HIDE DEF y
<1>4. SamePeer(y, Enlisted(y))
  BY <1>1, <1>2, EnlistedIs DEF RightlyListed
<1>5. SamePeer(h, h')
  BY <1>1, <1>2, <1>3, <1>4 DEF SamePeer
<1> QED BY <1>5, HostReadStep DEF HostRegok

\* A PEER names a joiner the server heard of, at an address of its own.
LEMMA HostPeerStep ==
  ASSUME SearchInv, NEW m \in wire, HostPeer(m)
  PROVE  SearchInv'
<1>1. m.from.joiner \in Joiners \cup {"nobody"} /\ h \in HostWindow /\ RightlyListed(h) /\ PunchTime \in Nat
  BY ReadAtHost, TraversalAssumption DEF HostPeer, HostReads, HostDatagram, Somewhere, SearchInv, SearchTypes
<1>2. h' = h \/ h' = [h EXCEPT !.peer = m.from.joiner, !.punchIn = PunchTime]
  BY DEF HostPeer
<1>3. SamePeer(h, h')
  <2>1. h' \in HostWindow
    BY <1>1, <1>2 DEF HostWindow
  <2> QED BY <1>1, <1>2, <2>1 DEF HostWindow, SamePeer, RightlyListed
<1> QED BY <1>3, HostReadStep DEF HostPeer

\* MYIP opens no way and names nobody.
LEMMA HostMyIpStep ==
  ASSUME SearchInv, NEW m \in wire, HostMyIp(m)
  PROVE  SearchInv'
<1>1. h \in HostWindow /\ RightlyListed(h)
  BY DEF SearchInv, SearchTypes
<1>2. h' = h \/ h' = [h EXCEPT !.ip = TRUE, !.ipPending = FALSE]
  BY DEF HostMyIp
<1>3. SamePeer(h, h')
  <2>1. h' \in HostWindow
    BY <1>1, <1>2 DEF HostWindow
  <2> QED BY <1>1, <1>2, <2>1 DEF HostWindow, SamePeer, RightlyListed
<1> QED BY <1>3, HostReadStep DEF HostMyIp

\* A datagram is read and nothing comes of it.
LEMMA HostIgnores ==
  ASSUME SearchInv, NEW m \in wire, Sends({m}, {}), UNCHANGED <<session, minted, w, h>>
  PROVE  SearchInv'
<1>1. SamePeer(h, h')
  BY DEF SearchInv, SearchTypes, SamePeer
<1> QED BY <1>1, HostReadStep

\* The host takes the joiner whose request reached it, at the address the request came from.
LEMMA HostRequestStep ==
  ASSUME SearchInv, NEW m \in wire, HostRequest(m)
  PROVE  SearchInv'
<1>1. CASE Heard(m) /\ h.stage = "free"
  <2>1. /\ h' = [h EXCEPT !.addr = m.from, !.stage = "asked", !.replies = Replies - 1]
        /\ Sends({m}, {ToJoiner("RPOS", m.from.joiner, m.from.way)})
        /\ UNCHANGED <<session, minted, w>>
    BY <1>1 DEF HostRequest
  <2>2. m.from \in [joiner : Joiners, way : Ways] /\ m.from \in Somewhere
    BY ReadAtHost DEF HostRequest, HostReads, HostDatagram, SearchInv, RealAddresses, Addressed
  <2>3. Replies - 1 \in Nat
    BY TraversalAssumption
  <2>4. h \in HostWindow /\ RightlyListed(h)
    BY DEF SearchInv, SearchTypes
  <2>5. h' \in HostWindow /\ h'.stage = "asked" /\ h'.addr = m.from
    BY <2>1, <2>2, <2>3, <2>4 DEF HostWindow
  <2>6. RightlyListed(h')
    BY <2>1, <2>4 DEF HostWindow, RightlyListed
  <2>7. Plain(ToJoiner("RPOS", m.from.joiner, m.from.way))
    BY <2>2, AnswerIs
  <2> QED BY <2>1, <2>2, <2>5, <2>6, <2>7, HostStep
<1>2. CASE ~(Heard(m) /\ h.stage = "free")
  BY <1>2, HostIgnores DEF HostRequest
<1> QED BY <1>1, <1>2

\* The RPOS of the joiner the host has taken ends its confirmations.
LEMMA HostConfirmedStep ==
  ASSUME SearchInv, NEW m \in wire, HostConfirmed(m)
  PROVE  SearchInv'
<1>1. CASE Heard(m) /\ h.stage = "asked"
  <2> DEFINE out == IF h.byCode /\ ~h.suspended THEN WithCode(h, "CLOSE") ELSE {}
  <2>1. h' = PeerJoined(h) /\ Sends({m}, out) /\ UNCHANGED <<session, minted, w>>
    BY <1>1 DEF HostConfirmed
  <2>2. h \in HostWindow /\ RightlyListed(h) /\ h.addr \in [joiner : Joiners, way : Ways]
    BY <1>1 DEF SearchInv, SearchTypes, RealAddresses
  <2>3. h' \in HostWindow /\ RightlyListed(h') /\ h'.stage = "connected" /\ h'.addr = h.addr
    BY <2>1, <2>2, PeerJoinedIs
  <2>4. h.addr = m.from
    BY <1>1, <2>2 DEF Heard, Nowhere, Ways
  <2>5. Agrees(h'.addr, w[h'.addr.joiner])
    BY <2>3, <2>4 DEF HostConfirmed, HostReads, SearchInv, Agreement
  <2>6. \A n \in out : Plain(n)
    BY <2>2, WithCodeIs
  <2> HIDE DEF out
  <2> QED BY <2>1, <2>2, <2>3, <2>5, <2>6, HostStep
<1>2. CASE ~(Heard(m) /\ h.stage = "asked")
  BY <1>2, HostIgnores DEF HostConfirmed
<1> QED BY <1>1, <1>2

\* The peer who leaves frees the host.
LEMMA HostPeerExitsStep ==
  ASSUME SearchInv, NEW m \in wire, HostPeerExits(m)
  PROVE  SearchInv'
<1>1. CASE Heard(m)
  BY <1>1, HostFreeStep DEF HostPeerExits
<1>2. CASE ~Heard(m)
  BY <1>2, HostIgnores DEF HostPeerExits
<1> QED BY <1>1, <1>2

\* A peer who is not heard of any more frees the host.
LEMMA HostPingTimeoutStep == SearchInv /\ HostPingTimeout => SearchInv'
<1> SUFFICES ASSUME SearchInv, HostPingTimeout PROVE SearchInv'
  OBVIOUS
<1>1. Sends({}, {})
  BY DEF HostPingTimeout, Sends
<1> QED BY <1>1, HostFreeStep DEF HostPingTimeout
-----------------------------------------------------------------------------
(* The servers and the network                                             *)

\* Only the wire changes.
LEMMA WireStep ==
  ASSUME SearchInv, NEW gone, NEW out, Sends(gone, out), UNCHANGED <<h, w>>,
         session' \in Nat, minted' \in Nat,
         \A m \in out : m \in Datagram /\ Addressed(m) /\ ~(m.to = "host" /\ m.kind = "RPOS"),
         AskedOnce'
  PROVE  SearchInv'
<1>1. \A m \in wire' : m \in wire \/ m \in out
  BY DEF Sends
<1>2. SearchTypes'
  BY <1>1 DEF SearchInv, SearchTypes
<1>3. RealAddresses'
  BY <1>1 DEF SearchInv, RealAddresses, Speaks
<1>4. BlindSearch' /\ RightlyListed(h')
  BY DEF SearchInv, BlindSearch
<1>5. \A m \in wire' : (m.to = "host" /\ m.kind = "RPOS") => m \in wire
  BY <1>1
<1>6. Agreement'
  BY <1>5 DEF SearchInv, Agreement
<1> QED BY <1>2, <1>3, <1>4, <1>6 DEF SearchInv

\* No question is sent or answered.
LEMMA PlainStep ==
  ASSUME SearchInv, NEW gone, NEW out, Sends(gone, out), UNCHANGED <<h, w>>,
         session' \in Nat, minted' \in Nat, \A m \in out : Plain(m)
  PROVE  SearchInv'
<1>1. \A m \in wire', j \in Joiners : Asks(m, j) => m \in wire
  BY DEF Asks, Plain, Sends
<1>2. AskedOnce'
  BY <1>1 DEF SearchInv, AskedOnce
<1> QED BY <1>2, WireStep DEF Plain

\* What the servers tell the host.
LEMMA ToldIs ==
  ASSUME NEW kind \in {"REGOK", "PEER", "MYIP"}, NEW code \in Nat, NEW from \in Somewhere
  PROVE  Plain(ToHost(kind, code, from))
<1>1. ToHost(kind, code, from) \in HostDatagram
  BY DEF ToHost, HostDatagram
<1> QED BY <1>1, TraversalAssumption DEF ToHost, Plain, Addressed, Datagram

\* The server answers a JOIN to the host and to the joiner who asked.
LEMMA ServerJoinsStep ==
  ASSUME SearchInv, NEW m \in wire, m.to = "server", ServerJoins(m), UNCHANGED <<h, w>>
  PROVE  SearchInv'
<1> DEFINE host == ToJoiner("HOST", m.joiner, "none")
           busy == ToJoiner("BUSY", m.joiner, "none")
           told == ToHost("PEER", session, From(m.joiner, "punched"))
<1>1. m.joiner \in Joiners /\ Asks(m, m.joiner)
  BY DEF ServerJoins, SearchInv, RealAddresses, Addressed, Asks
<1>2. session \in Nat /\ minted \in Nat /\ session' = session /\ minted' = minted
  BY DEF ServerJoins, SearchInv, SearchTypes
<1>3. host \in JoinerDatagram /\ busy \in JoinerDatagram
  BY <1>1 DEF ToJoiner, JoinerDatagram
<1>4. m.joiner \notin {"server", "host"}
  BY <1>1, TraversalAssumption
<1>5. Addressed(host) /\ host.to # "host" /\ Plain(busy)
  BY <1>3, <1>4 DEF Addressed, Plain, Datagram, ToJoiner
<1>6. From(m.joiner, "punched") \in Somewhere
  BY <1>1 DEF From, Somewhere, Ways
<1>7. Plain(told)
  BY <1>2, <1>6, ToldIs
<1>8. CASE Sends({m}, {host, told})
  <2>1. \A n \in wire', j \in Joiners : Asks(n, j) => (n = host /\ j = m.joiner) \/ (n # m /\ n \in wire)
    <3>1. \A n \in wire' : n = host \/ n = told \/ (n # m /\ n \in wire)
      BY <1>8 DEF Sends
    <3>2. \A j \in Joiners : ~Asks(told, j)
      BY <1>7 DEF Asks, Plain
    <3>3. \A j \in Joiners : Asks(host, j) => j = m.joiner
      BY <1>4 DEF Asks, ToJoiner
    <3> QED BY <3>1, <3>2, <3>3
  <2>2. \A j \in Joiners, n \in wire : Asks(n, j) /\ j = m.joiner => n = m
    BY <1>1 DEF SearchInv, AskedOnce
  <2>3. \A n \in wire', j \in Joiners : Asks(n, j) => Waiting(w[j])
    BY <1>1, <2>1 DEF SearchInv, AskedOnce
  <2> HIDE DEF host, told
  <2>4. \A j \in Joiners : \A n, k \in wire' : (Asks(n, j) /\ Asks(k, j)) => n = k
    BY <2>1, <2>2 DEF SearchInv, AskedOnce
  <2>5. AskedOnce'
    BY <2>3, <2>4 DEF AskedOnce
  <2>6. \A n \in {host, told} : n \in Datagram /\ Addressed(n) /\ ~(n.to = "host" /\ n.kind = "RPOS")
    BY <1>3, <1>5, <1>7 DEF Plain, Datagram
  <2> QED BY <1>2, <1>8, <2>5, <2>6, WireStep
<1>9. CASE Sends({m}, {busy})
  <2> HIDE DEF busy
  <2> QED BY <1>2, <1>5, <1>9, PlainStep
<1> QED BY <1>8, <1>9 DEF ServerJoins

\* What else the server answers is registered under the code it gives out.
LEMMA ServerActsStep ==
  ASSUME SearchInv, NEW m \in wire, ServerActs(m)
  PROVE  SearchInv'
<1>1. session \in Nat /\ minted \in Nat /\ minted + 1 \in Nat /\ UNCHANGED <<h, w>>
  BY DEF SearchInv, SearchTypes, ServerActs
<1>2. Nowhere \in Somewhere
  BY DEF Nowhere, Somewhere
<1>3. CASE ServerRegs(m)
  <2>1. Plain(ToHost("REGOK", session, Nowhere)) /\ Plain(ToHost("REGOK", minted + 1, Nowhere))
    BY <1>1, <1>2, ToldIs
  <2>2. CASE Sends({m}, {ToHost("REGOK", session, Nowhere)}) /\ UNCHANGED <<session, minted>>
    BY <1>1, <2>1, <2>2, PlainStep
  <2>3. CASE Sends({m}, {ToHost("REGOK", minted + 1, Nowhere)}) /\ minted' = minted + 1 /\ session' = minted + 1
    BY <1>1, <2>1, <2>3, PlainStep
  <2> QED BY <1>3, <2>2, <2>3 DEF ServerRegs
<1>4. CASE ServerJoins(m)
  BY <1>1, <1>4, ServerJoinsStep DEF ServerActs
<1>5. CASE ServerCloses(m)
  <2>1. Sends({m}, {}) /\ session' \in Nat /\ minted' \in Nat
    BY <1>1, <1>5 DEF ServerCloses
  <2> QED BY <1>1, <2>1, PlainStep
<1>6. CASE SsrvTellsIp(m)
  <2>1. Plain(ToHost("MYIP", 0, Nowhere))
    BY <1>2, ToldIs
  <2> QED BY <1>1, <1>6, <2>1, PlainStep DEF SsrvTellsIp
<1> QED BY <1>3, <1>4, <1>5, <1>6 DEF ServerActs

\* A datagram that is lost leaves what the windows agree on.
LEMMA LoseOnWireStep ==
  ASSUME SearchInv, NEW m \in wire, LoseOnWire(m)
  PROVE  SearchInv'
BY HostIgnores DEF LoseOnWire
-----------------------------------------------------------------------------
(* The joiners' steps                                                      *)

\* A joiner whose stage is free has confirmed nothing.
LEMMA FreeUnheard ==
  ASSUME SearchInv, NEW j \in Joiners, w[j].stage = "free"
  PROVE  /\ \A m \in wire : ~(m.to = "host" /\ m.kind = "RPOS" /\ m.from.joiner = j)
         /\ ~(h.stage = "connected" /\ h.addr.joiner = j)
BY DEF SearchInv, Agreement, Agrees

\* A LOGN_REQ is no question to the server and no confirmation.
Requests(out, j) == \A m \in out : \E way \in Ways : m = ToHost("REQ", 0, From(j, way))
\* What a joiner sends by the ways that are open is a request or a confirmation of its own.
LEMMA RequestsAre ==
  ASSUME NEW j \in Joiners, NEW out, Requests(out, j)
  PROVE  \A m \in out : /\ m \in Datagram /\ Addressed(m) /\ ~(m.to = "host" /\ m.kind = "RPOS")
                        /\ \A k \in Joiners : ~Asks(m, k)
<1> SUFFICES ASSUME NEW m \in out
             PROVE  /\ m \in Datagram /\ Addressed(m) /\ ~(m.to = "host" /\ m.kind = "RPOS")
                    /\ \A k \in Joiners : ~Asks(m, k)
  OBVIOUS
<1>1. PICK way \in Ways : m = ToHost("REQ", 0, From(j, way))
  BY DEF Requests
<1>2. m \in HostDatagram
  BY <1>1 DEF ToHost, From, HostDatagram, Somewhere
<1>3. m.to = "host" /\ m.kind = "REQ" /\ m.from \in [joiner : Joiners, way : Ways]
  BY <1>1 DEF ToHost, From
<1>4. m.to \notin Joiners
  BY <1>3, TraversalAssumption
<1> QED BY <1>2, <1>3, <1>4 DEF Datagram, Addressed, Asks

\* What leaves a joiner's connection as it is, or ends it.
Keeps(x, y) == y.stage = "left" \/ (y.stage = x.stage /\ (y.stage = "connected" => y.addr = x.addr))
\* A step that takes from the wire, and adds no address, keeps the agreement of the windows.
LEMMA KeepsAgreement ==
  ASSUME NEW x, NEW y, Keeps(x, y), NEW from, Agrees(from, x)
  PROVE  Agrees(from, y)
BY DEF Keeps, Agrees

\* A joiner's step that confirms nothing.
LEMMA JoinerKeepStep ==
  ASSUME SearchInv, NEW gone, NEW out, Sends(gone, out), UNCHANGED <<session, minted, h>>,
         NEW j \in Joiners, NEW x \in JoinerWindow, w' = [w EXCEPT ![j] = x],
         Keeps(w[j], x), (x.joining /\ ~x.gotHost) => x.addr = "none",
         \A m \in out : m \in Datagram /\ Addressed(m) /\ ~(m.to = "host" /\ m.kind = "RPOS"),
         \A m \in wire' : Asks(m, j) => Waiting(x),
         \A m, n \in wire' : (Asks(m, j) /\ Asks(n, j)) => m = n,
         \A m \in out, k \in Joiners : Asks(m, k) => k = j
  PROVE  SearchInv'
<1>1. x.stage = "connected" => x.addr \in Ways
  BY DEF Keeps, SearchInv, RealAddresses, Speaks
<1>2. \A m \in wire' : (m.to = "host" /\ m.kind = "RPOS" /\ m.from.joiner = j) => Agrees(m.from, x)
  <2>1. \A m \in wire' : (m.to = "host" /\ m.kind = "RPOS") => m \in wire
    BY DEF Sends
  <2>2. \A m \in wire : (m.to = "host" /\ m.kind = "RPOS" /\ m.from.joiner = j) => Agrees(m.from, w[j])
    BY DEF SearchInv, Agreement
  <2> QED BY <2>1, <2>2, KeepsAgreement
<1>3. (h.stage = "connected" /\ h.addr.joiner = j) => Agrees(h.addr, x)
  <2>1. (h.stage = "connected" /\ h.addr.joiner = j) => Agrees(h.addr, w[j])
    BY DEF SearchInv, Agreement
  <2> QED BY <2>1, KeepsAgreement
<1> QED BY <1>1, <1>2, <1>3, JoinerStep

\* The same, where nobody is asked and the joiner has no other answer than before.
LEMMA JoinerQuietStep ==
  ASSUME SearchInv, NEW gone, NEW out, Sends(gone, out), UNCHANGED <<session, minted, h>>,
         NEW j \in Joiners, NEW x \in JoinerWindow, w' = [w EXCEPT ![j] = x],
         Keeps(w[j], x), (x.joining /\ ~x.gotHost) => x.addr = "none",
         \A m \in out : /\ m \in Datagram /\ Addressed(m) /\ ~(m.to = "host" /\ m.kind = "RPOS")
                       /\ \A k \in Joiners : ~Asks(m, k),
         Waiting(w[j]) => Waiting(x)
  PROVE  SearchInv'
<1>1. \A m \in wire' : Asks(m, j) => m \in wire
  BY DEF Sends
<1>2. \A m \in wire' : Asks(m, j) => Waiting(x)
  BY <1>1 DEF SearchInv, AskedOnce
<1>3. \A m, n \in wire' : (Asks(m, j) /\ Asks(n, j)) => m = n
  BY <1>1 DEF SearchInv, AskedOnce
<1> QED BY <1>2, <1>3, JoinerKeepStep

\* A datagram is read, or none, and the window keeps its connection or ends it.
LEMMA JoinerReadStep ==
  ASSUME SearchInv, NEW gone, Sends(gone, {}), UNCHANGED <<session, minted, h>>,
         NEW j \in Joiners, NEW x \in JoinerWindow, w' = [w EXCEPT ![j] = x],
         Keeps(w[j], x), (x.joining /\ ~x.gotHost) => x.addr = "none", Waiting(w[j]) => Waiting(x)
  PROVE  SearchInv'
<1>1. \A n \in {} : /\ n \in Datagram /\ Addressed(n) /\ ~(n.to = "host" /\ n.kind = "RPOS")
                    /\ \A k \in Joiners : ~Asks(n, k)
  OBVIOUS
<1> DEFINE out == {}
<1>2. /\ Sends(gone, out)
      /\ \A n \in out : /\ n \in Datagram /\ Addressed(n) /\ ~(n.to = "host" /\ n.kind = "RPOS")
                       /\ \A k \in Joiners : ~Asks(n, k)
  BY <1>1
<1> HIDE DEF out
<1> QED BY <1>2, JoinerQuietStep

\* The window a joiner opens.
LEMMA NoJoinerIs == NoJoiner \in JoinerWindow /\ NoJoiner.stage = "free" /\ ~NoJoiner.joining
<1>1. NoJoiner \in JoinerWindow
  BY DEF NoJoiner, JoinerWindow
<1> QED BY <1>1 DEF NoJoiner

\* The question a joiner asks.
LEMMA JoinIs ==
  ASSUME NEW j \in Joiners, NEW code \in Nat
  PROVE  LET m == ToServer("JOIN", code, j) IN
         /\ m \in Datagram /\ Addressed(m) /\ ~(m.to = "host" /\ m.kind = "RPOS")
         /\ \A k \in Joiners : Asks(m, k) => k = j
<1> DEFINE m == ToServer("JOIN", code, j)
<1>1. m \in ServerDatagram
  BY DEF ToServer, ServerDatagram
<1>2. m.to = "server" /\ m.kind = "JOIN" /\ m.joiner = j
  BY DEF ToServer
<1>3. m.to \notin Joiners /\ m.to # "host"
  BY <1>2, TraversalAssumption
<1> HIDE DEF m
<1>4. m \in Datagram /\ Addressed(m) /\ ~(m.to = "host" /\ m.kind = "RPOS")
  BY <1>1, <1>2, <1>3 DEF Datagram, Addressed
<1>5. \A k \in Joiners : Asks(m, k) => k = j
  BY <1>2, <1>3 DEF Asks
<1> QED BY <1>4, <1>5 DEF m

\* A window that opens has a socket nobody has written to.
LEMMA OpenJoinerStep ==
  ASSUME SearchInv, NEW j \in Joiners, OpenJoiner(j)
  PROVE  SearchInv'
<1>1. w[j] = NoJoiner /\ UNCHANGED <<session, minted, h>> /\ minted \in Nat
  BY DEF OpenJoiner, SearchInv, SearchTypes
<1>2. \A m \in wire : ~Asks(m, j)
  BY <1>1 DEF SearchInv, AskedOnce, Waiting
<1>3. JoinAgain \in Nat /\ JoinTime \in Nat
  BY TraversalAssumption
<1>4. ASSUME NEW listed \in BOOLEAN,
             w' = [w EXCEPT ![j] = [NoJoiner EXCEPT !.open = TRUE, !.joining = TRUE, !.code = minted,
                                      !.fallback = listed, !.joinIn = JoinAgain, !.deadline = JoinTime]],
             Sends({}, {ToServer("JOIN", minted, j)})
      PROVE  SearchInv'
  <2> DEFINE x == [NoJoiner EXCEPT !.open = TRUE, !.joining = TRUE, !.code = minted,
                                      !.fallback = listed, !.joinIn = JoinAgain, !.deadline = JoinTime]
             m == ToServer("JOIN", minted, j)
  <2>1. x \in JoinerWindow /\ x.stage = "free" /\ x.addr = "none" /\ x.joining /\ ~x.gotHost
    BY <1>1, <1>3, NoJoinerIs DEF JoinerWindow, NoJoiner
  <2>2. Keeps(w[j], x) /\ Waiting(x)
    BY <1>1, <2>1, NoJoinerIs DEF Keeps, Waiting
  <2>3. w' = [w EXCEPT ![j] = x] /\ Sends({}, {m})
    BY <1>4
  <2>4. /\ m \in Datagram /\ Addressed(m) /\ ~(m.to = "host" /\ m.kind = "RPOS")
        /\ \A k \in Joiners : Asks(m, k) => k = j
    BY <1>1, JoinIs
  <2> HIDE DEF x, m
  <2>5. \A n \in wire' : Asks(n, j) => n = m
    BY <1>2, <2>3 DEF Sends
  <2>6. \A n \in wire' : Asks(n, j) => Waiting(x)
    BY <2>2
  <2>7. \A n, k \in wire' : (Asks(n, j) /\ Asks(k, j)) => n = k
    BY <2>5
  <2> DEFINE out == {m}
  <2>8. \A n \in out : n \in Datagram /\ Addressed(n) /\ ~(n.to = "host" /\ n.kind = "RPOS")
    BY <2>4
  <2>9. \A n \in out, k \in Joiners : Asks(n, k) => k = j
    BY <2>4
  <2>10. Sends({}, out)
    BY <2>3
  <2> HIDE DEF out
  <2> QED BY <1>1, <2>1, <2>2, <2>3, <2>6, <2>7, <2>8, <2>9, <2>10, JoinerKeepStep
<1>5. ASSUME w' = [w EXCEPT ![j] = Toward([NoJoiner EXCEPT !.open = TRUE], "direct")], Sends({}, Request(j, "direct"))
      PROVE  SearchInv'
  <2> DEFINE y == [NoJoiner EXCEPT !.open = TRUE]
             x == Toward(y, "direct")
             out == Request(j, "direct")
  <2>1. y \in JoinerWindow /\ y.stage = "free" /\ ~y.joining
    BY NoJoinerIs DEF JoinerWindow
  <2>2. "direct" \in Ways
    BY DEF Ways
  <2>3. StillFree(y, x)
    <3> HIDE DEF y
    <3> QED BY <2>1, <2>2, TowardIs
  <2>4. Keeps(w[j], x) /\ ~x.joining /\ x \in JoinerWindow /\ x.stage = "free"
    <3> HIDE DEF y, x
    <3> QED BY <1>1, <2>1, <2>3, NoJoinerIs DEF Keeps, StillFree
  <2>5. Requests(out, j)
    BY <2>2, RequestIs DEF Requests
  <2>6. w' = [w EXCEPT ![j] = x] /\ Sends({}, out)
    BY <1>5
  <2>7. ~Waiting(w[j])
    BY <1>1 DEF Waiting
  <2> HIDE DEF x, out
  <2>8. \A m \in out : /\ m \in Datagram /\ Addressed(m) /\ ~(m.to = "host" /\ m.kind = "RPOS")
                      /\ \A k \in Joiners : ~Asks(m, k)
    BY <2>5, RequestsAre
  <2> QED BY <1>1, <2>4, <2>6, <2>7, <2>8, JoinerQuietStep
<1> QED BY <1>4, <1>5 DEF OpenJoiner

\* A joiner who leaves tells the host it is connected to.
LEMMA CloseJoinerStep ==
  ASSUME SearchInv, NEW j \in Joiners, CloseJoiner(j)
  PROVE  SearchInv'
<1> DEFINE x == [NoJoiner EXCEPT !.stage = "left"]
           out == IF Speaks(j) THEN {ToHost("EXIT", 0, From(j, w[j].addr))} ELSE {}
<1>1. w' = [w EXCEPT ![j] = x] /\ Sends({}, out) /\ UNCHANGED <<session, minted, h>>
  BY DEF CloseJoiner
<1>2. x \in JoinerWindow /\ x.stage = "left" /\ ~x.joining
  BY NoJoinerIs DEF JoinerWindow
<1>3. Keeps(w[j], x) /\ Waiting(x)
  BY <1>2, NoJoinerIs DEF Keeps, Waiting
<1>4. ASSUME Speaks(j)
      PROVE  LET m == ToHost("EXIT", 0, From(j, w[j].addr)) IN
             /\ m \in Datagram /\ Addressed(m) /\ ~(m.to = "host" /\ m.kind = "RPOS")
             /\ \A k \in Joiners : ~Asks(m, k)
  <2> DEFINE m == ToHost("EXIT", 0, From(j, w[j].addr))
  <2>1. w[j].addr \in Ways
    BY <1>4 DEF SearchInv, RealAddresses
  <2>2. m \in HostDatagram /\ m.to = "host" /\ m.kind = "EXIT"
    BY <2>1 DEF ToHost, From, HostDatagram, Somewhere
  <2>3. m.to \notin Joiners
    BY <2>2, TraversalAssumption
  <2> HIDE DEF m
  <2>4. /\ m \in Datagram /\ Addressed(m) /\ ~(m.to = "host" /\ m.kind = "RPOS")
        /\ \A k \in Joiners : ~Asks(m, k)
    BY <2>2, <2>3 DEF Datagram, Addressed, Asks
  <2> QED BY <2>4 DEF m
<1>5. \A m \in out : /\ m \in Datagram /\ Addressed(m) /\ ~(m.to = "host" /\ m.kind = "RPOS")
                    /\ \A k \in Joiners : ~Asks(m, k)
  BY <1>4
<1> HIDE DEF x, out
<1> QED BY <1>1, <1>2, <1>3, <1>5, JoinerQuietStep

\* A datagram a joiner reads, and what it leaves in the window.
LEMMA JoinerWindowIs ==
  ASSUME SearchInv, NEW j \in Joiners
  PROVE  w[j] \in JoinerWindow /\ ((w[j].joining /\ ~w[j].gotHost) => w[j].addr = "none")
BY DEF SearchInv, SearchTypes, BlindSearch

\* The connection ends.
LEMMA JoinerLeavesStep ==
  ASSUME SearchInv, NEW gone, Sends(gone, {}), UNCHANGED <<session, minted, h>>,
         NEW j \in Joiners, w' = [w EXCEPT ![j].stage = "left"]
  PROVE  SearchInv'
<1> DEFINE x == [w[j] EXCEPT !.stage = "left"]
<1>1. w' = [w EXCEPT ![j] = x]
  BY DEF SearchInv, SearchTypes
<1>2. x \in JoinerWindow /\ x.stage = "left" /\ x.joining = w[j].joining /\ x.gotHost = w[j].gotHost /\ x.addr = w[j].addr
  BY JoinerWindowIs DEF JoinerWindow
<1>3. Keeps(w[j], x) /\ ((x.joining /\ ~x.gotHost) => x.addr = "none") /\ (Waiting(w[j]) => Waiting(x))
  BY <1>2, JoinerWindowIs, NoJoinerIs DEF Keeps, Waiting
<1> HIDE DEF x
<1> QED BY <1>1, <1>2, <1>3, JoinerReadStep

\* A joiner who hears nothing of the host any more is on its own again.
LEMMA JoinerPingTimeoutStep ==
  ASSUME SearchInv, NEW j \in Joiners, JoinerPingTimeout(j)
  PROVE  SearchInv'
<1>1. Sends({}, {})
  BY DEF JoinerPingTimeout, Sends
<1> QED BY <1>1, JoinerLeavesStep DEF JoinerPingTimeout

\* So is one whom the host tells that it leaves.
LEMMA JoinerHostGoneStep ==
  ASSUME SearchInv, NEW j \in Joiners, NEW m \in wire, JoinerHostGone(j, m)
  PROVE  SearchInv'
<1>1. CASE w[j].addr = m.way
  BY <1>1, JoinerLeavesStep DEF JoinerHostGone
<1>2. CASE w[j].addr # m.way
  BY <1>2, HostIgnores DEF JoinerHostGone
<1> QED BY <1>1, <1>2

\* BUSY ends the search of the joiner it is for.
LEMMA JoinerBusyStep ==
  ASSUME SearchInv, NEW j \in Joiners, NEW m \in wire, JoinerBusy(j, m)
  PROVE  SearchInv'
<1>1. CASE w[j].joining
  <2> DEFINE x == [w[j] EXCEPT !.busy = TRUE, !.deadline = 1, !.joinIn = 0]
  <2>1. w' = [w EXCEPT ![j] = x]
    BY <1>1 DEF JoinerBusy, SearchInv, SearchTypes
  <2>2. /\ x \in JoinerWindow /\ x.stage = w[j].stage /\ x.addr = w[j].addr
        /\ x.joining = w[j].joining /\ x.gotHost = w[j].gotHost
    BY JoinerWindowIs DEF JoinerWindow
  <2>3. Keeps(w[j], x) /\ ((x.joining /\ ~x.gotHost) => x.addr = "none") /\ (Waiting(w[j]) => Waiting(x))
    BY <1>1, <2>2, JoinerWindowIs, NoJoinerIs DEF Keeps, Waiting
  <2> HIDE DEF x
  <2>4. Sends({m}, {}) /\ UNCHANGED <<session, minted, h>>
    BY DEF JoinerBusy
  <2> QED BY <2>1, <2>2, <2>3, <2>4, JoinerReadStep
<1>2. CASE ~w[j].joining
  BY <1>2, HostIgnores DEF JoinerBusy
<1> QED BY <1>1, <1>2

\* The host's RPOS connects the joiner to the address it asked.
LEMMA JoinerAcceptedStep ==
  ASSUME SearchInv, NEW j \in Joiners, NEW m \in wire, JoinerAccepted(j, m)
  PROVE  SearchInv'
<1>1. CASE w[j].addr = m.way /\ w[j].stage = "free"
  <2> DEFINE x == [w[j] EXCEPT !.stage = "connected"]
             n == ToHost("RPOS", 0, From(j, m.way))
  <2>1. w' = [w EXCEPT ![j] = x] /\ Sends({m}, {n}) /\ UNCHANGED <<session, minted, h>>
    BY <1>1 DEF JoinerAccepted, SearchInv, SearchTypes
  <2>2. x \in JoinerWindow /\ x.stage = "connected" /\ x.joining = w[j].joining /\ x.gotHost = w[j].gotHost /\ x.addr = m.way
    BY <1>1, JoinerWindowIs DEF JoinerWindow
  <2>3. m.way \in Ways
    BY DEF JoinerAccepted, JoinerReads, SearchInv, RealAddresses, Addressed
  <2>4. n \in HostDatagram /\ n.to = "host" /\ n.kind = "RPOS" /\ n.from = From(j, m.way)
    BY <2>3 DEF ToHost, From, HostDatagram, Somewhere
  <2>5. n \in Datagram /\ Addressed(n) /\ n.from.joiner = j /\ n.from.way = m.way /\ \A k \in Joiners : ~Asks(n, k)
    <3>1. n.to \notin Joiners
      BY <2>4, TraversalAssumption
    <3> HIDE DEF n
    <3> QED BY <2>3, <2>4, <3>1 DEF Datagram, Addressed, Asks, From
  <2>6. (x.joining /\ ~x.gotHost) => x.addr = "none"
    BY <1>1, <2>2, JoinerWindowIs
  <2>7. Waiting(w[j]) => Waiting(x)
    BY <2>2, NoJoinerIs DEF Waiting
  <2>8. Agrees(n.from, x)
    BY <2>2, <2>5 DEF Agrees
  <2> HIDE DEF x, n
  <2>9. \A k \in wire' : k = n \/ k \in wire
    BY <2>1 DEF Sends
  <2>10. \A k \in wire' : Asks(k, j) => k \in wire
    BY <2>5, <2>9
  <2>11. \A k \in wire' : Asks(k, j) => Waiting(x)
    BY <2>7, <2>10 DEF SearchInv, AskedOnce
  <2>12. \A k, l \in wire' : (Asks(k, j) /\ Asks(l, j)) => k = l
    BY <2>10 DEF SearchInv, AskedOnce
  <2>13. \A k \in wire' : (k.to = "host" /\ k.kind = "RPOS" /\ k.from.joiner = j) => Agrees(k.from, x)
    BY <1>1, <2>8, <2>9, FreeUnheard
  <2>14. ~(h.stage = "connected" /\ h.addr.joiner = j)
    BY <1>1, FreeUnheard
  <2>15. x.stage = "connected" => x.addr \in Ways
    BY <2>2, <2>3
  <2> DEFINE out == {n}
  <2>16. \A k \in out : k \in Datagram /\ Addressed(k)
    BY <2>5
  <2>17. \A k \in out, l \in Joiners : Asks(k, l) => l = j
    BY <2>5
  <2>18. \A k \in out : (k.to = "host" /\ k.kind = "RPOS") => k.from.joiner = j
    BY <2>5
  <2>19. (h.stage = "connected" /\ h.addr.joiner = j) => Agrees(h.addr, x)
    BY <2>14
  <2>20. Sends({m}, out)
    BY <2>1
  <2> HIDE DEF out
  <2> QED BY <2>1, <2>2, <2>6, <2>20, <2>11, <2>12, <2>13, <2>15, <2>16, <2>17, <2>18, <2>19, JoinerStep
<1>2. CASE ~(w[j].addr = m.way /\ w[j].stage = "free")
  BY <1>2, HostIgnores DEF JoinerAccepted
<1> QED BY <1>1, <1>2
\* What a joiner who looks for the host by its address sends, and what it leaves in the window.
LEMMA AskingIs ==
  ASSUME NEW j \in Joiners, NEW x \in JoinerWindow, NEW third \in BOOLEAN
  PROVE  LET y == Toward(Tried(x), "punched")
             z == IF third THEN FallenBack(y) ELSE y
             out == Request(j, "punched") \cup (IF third THEN FallbackRequest(j, y) ELSE {})
         IN StillFree(x, z) /\ Requests(out, j)
<1> DEFINE u == Tried(x)
           y == Toward(u, "punched")
           z == IF third THEN FallenBack(y) ELSE y
           out == Request(j, "punched") \cup (IF third THEN FallbackRequest(j, y) ELSE {})
<1>1. StillFree(x, u) /\ u \in JoinerWindow
  BY TriedIs DEF StillFree
<1>2. StillFree(u, y) /\ y \in JoinerWindow
  <2> HIDE DEF u
  <2> QED BY <1>1, TowardIs DEF StillFree, Ways
<1>3. StillFree(y, FallenBack(y))
  <2> HIDE DEF y
  <2> QED BY <1>2, FallenBackIs
<1>4. StillFree(x, z)
  <2> HIDE DEF u, y
  <2> QED BY <1>1, <1>2, <1>3 DEF StillFree
<1>5. Request(j, "punched") \subseteq {ToHost("REQ", 0, From(j, "punched"))}
  BY RequestIs DEF Ways
<1>6. FallbackRequest(j, y) \subseteq {ToHost("REQ", 0, From(j, "direct"))}
  BY RequestIs DEF Ways, FallbackRequest
<1>7. Requests(out, j)
  <2> HIDE DEF y
  <2> QED BY <1>5, <1>6 DEF Requests, Ways
<1> QED BY <1>4, <1>7

\* A joiner who is not connected, and whose question nobody is about to answer, may write to
\* another address.
LEMMA SearchingStep ==
  ASSUME SearchInv, NEW gone, NEW out, Sends(gone, out), UNCHANGED <<session, minted, h>>,
         NEW j \in Joiners, NEW x, w' = [w EXCEPT ![j] = x],
         StillFree(w[j], x) \/ (x \in JoinerWindow /\ x.stage = w[j].stage /\ ~x.joining),
         ~Speaks(j), (x.joining /\ ~x.gotHost) => x.addr = "none",
         Requests(out, j), \A m \in wire \ gone : ~Asks(m, j)
  PROVE  SearchInv'
<1>1. x \in JoinerWindow /\ x.stage = w[j].stage
  BY DEF StillFree
<1>2. Keeps(w[j], x)
  BY <1>1 DEF Keeps, Speaks
<1>3. \A m \in out : /\ m \in Datagram /\ Addressed(m) /\ ~(m.to = "host" /\ m.kind = "RPOS")
                    /\ \A k \in Joiners : ~Asks(m, k)
  BY RequestsAre
<1>4. \A m \in wire' : ~Asks(m, j)
  BY <1>3 DEF Sends
<1>5. \A m \in wire' : Asks(m, j) => Waiting(x)
  BY <1>4
<1>6. \A m, n \in wire' : (Asks(m, j) /\ Asks(n, j)) => m = n
  BY <1>4
<1>7. \A m \in out : m \in Datagram /\ Addressed(m) /\ ~(m.to = "host" /\ m.kind = "RPOS")
  BY <1>3
<1>8. \A m \in out, k \in Joiners : Asks(m, k) => k = j
  BY <1>3
<1> QED BY <1>1, <1>2, <1>5, <1>6, <1>7, <1>8, JoinerKeepStep

\* The server's answer with the host's address: the joiner had none before, so it is not connected,
\* and this was the only answer on its way.
LEMMA JoinerHostStep ==
  ASSUME SearchInv, NEW j \in Joiners, NEW m \in wire, JoinerHost(j, m)
  PROVE  SearchInv'
<1>1. CASE w[j].joining
  <2> DEFINE x == [w[j] EXCEPT !.gotHost = TRUE, !.joinIn = 0, !.fallback = TRUE,
                                !.tried = @ /\ w[j].fallback]
             y == Toward(Tried(x), "punched")
             third == y.attempts = 3
             z == IF third THEN FallenBack(y) ELSE y
             out == Request(j, "punched") \cup (IF third THEN FallbackRequest(j, y) ELSE {})
  <2>1. w' = [w EXCEPT ![j] = z] /\ Sends({m}, out) /\ UNCHANGED <<session, minted, h>>
    BY <1>1 DEF JoinerHost
  <2>2. w[j] \in JoinerWindow
    BY JoinerWindowIs
  <2>3. x \in JoinerWindow /\ x.stage = w[j].stage /\ x.gotHost /\ x.joining = w[j].joining
    BY <2>2 DEF JoinerWindow
  <2>4. StillFree(x, z) /\ Requests(out, j)
    <3> HIDE DEF x
    <3>1. third \in BOOLEAN
      OBVIOUS
    <3> HIDE DEF third
    <3> QED BY <2>3, <3>1, AskingIs
  <2>5. Asks(m, j)
    BY DEF JoinerHost, JoinerReads, Asks
  <2>6. ~Speaks(j)
    <3>1. ~w[j].gotHost
      BY <1>1, <2>5 DEF SearchInv, AskedOnce, Waiting
    <3>2. w[j].addr = "none"
      BY <1>1, <3>1, JoinerWindowIs
    <3> QED BY <3>2 DEF SearchInv, RealAddresses, Ways
  <2>7. \A n \in wire \ {m} : ~Asks(n, j)
    BY <2>5 DEF SearchInv, AskedOnce
  <2> HIDE DEF x, z, out
  <2>8. z \in JoinerWindow /\ z.stage = w[j].stage /\ z.gotHost
    BY <2>3, <2>4 DEF StillFree
  <2>9. Keeps(w[j], z)
    BY <2>6, <2>8 DEF Keeps, Speaks
  <2>10. \A n \in out : /\ n \in Datagram /\ Addressed(n) /\ ~(n.to = "host" /\ n.kind = "RPOS")
                       /\ \A k \in Joiners : ~Asks(n, k)
    BY <2>4, RequestsAre
  <2>11. \A n \in wire' : ~Asks(n, j)
    BY <2>1, <2>7, <2>10 DEF Sends
  <2>12. \A n \in wire' : Asks(n, j) => Waiting(z)
    BY <2>11
  <2>13. \A n, k \in wire' : (Asks(n, j) /\ Asks(k, j)) => n = k
    BY <2>11
  <2>14. \A n \in out : n \in Datagram /\ Addressed(n) /\ ~(n.to = "host" /\ n.kind = "RPOS")
    BY <2>10
  <2>15. \A n \in out, k \in Joiners : Asks(n, k) => k = j
    BY <2>10
  <2>16. (z.joining /\ ~z.gotHost) => z.addr = "none"
    BY <2>8
  <2> QED BY <2>1, <2>8, <2>9, <2>12, <2>13, <2>14, <2>15, <2>16, JoinerKeepStep
<1>2. CASE ~w[j].joining
  BY <1>2, HostIgnores DEF JoinerHost
<1> QED BY <1>1, <1>2

\* A joiner who falls back, or gives up, leaves the search by code.
LEMMA GivesUpStep ==
  ASSUME SearchInv, NEW j \in Joiners, GivesUp(j), wire = {}, ~Speaks(j), UNCHANGED <<session, minted, h>>
  PROVE  SearchInv'
<1> DEFINE x == [w[j] EXCEPT !.joining = FALSE, !.busy = FALSE]
<1>1. x \in JoinerWindow /\ x.stage = w[j].stage /\ ~x.joining
  BY JoinerWindowIs DEF JoinerWindow
<1>2. CASE w[j].busy
  <2> DEFINE out == {}
  <2>1. w' = [w EXCEPT ![j] = x] /\ Sends({}, out) /\ Requests(out, j)
    BY <1>2 DEF GivesUp, Sends, Requests
  <2> HIDE DEF x, out
  <2> QED BY <1>1, <2>1, SearchingStep
<1>3. CASE ~w[j].busy
  <2> DEFINE y == FallenBack(x)
             out == FallbackRequest(j, x)
  <2>1. w' = [w EXCEPT ![j] = y] /\ Sends({}, out)
    BY <1>3 DEF GivesUp
  <2>2. StillFree(x, y)
    <3> HIDE DEF x
    <3> QED BY <1>1, FallenBackIs
  <2>3. Requests(out, j)
    <3> HIDE DEF x
    <3>1. Request(j, "direct") \subseteq {ToHost("REQ", 0, From(j, "direct"))}
      BY RequestIs DEF Ways
    <3> QED BY <3>1 DEF Requests, FallbackRequest, Ways
  <2> HIDE DEF x, y, out
  <2>4. y \in JoinerWindow /\ y.stage = w[j].stage /\ ~y.joining
    BY <1>1, <2>2 DEF StillFree
  <2> QED BY <2>1, <2>3, <2>4, SearchingStep
<1> QED BY <1>2, <1>3

\* A search asks again, turns to the other way or gives up; it writes to the address it was told.
LEMMA JoinerTimerStep ==
  ASSUME Prompt, SearchInv, NEW j \in Joiners, JoinerTimer(j)
  PROVE  SearchInv'
<1>1. wire = {} /\ w[j].joining /\ w[j] \in JoinerWindow /\ UNCHANGED <<session, minted, h>>
  BY JoinerWindowIs DEF JoinerTimer, MayBeat
<1>2. CASE Speaks(j)
  <2> DEFINE x == [w[j] EXCEPT !.joining = FALSE, !.deadline = 0]
  <2>1. w' = [w EXCEPT ![j] = x] /\ Sends({}, {})
    BY <1>2 DEF JoinerTimer, Sends, SearchInv, SearchTypes
  <2>2. x \in JoinerWindow /\ x.stage = w[j].stage /\ x.addr = w[j].addr /\ ~x.joining
    BY <1>1 DEF JoinerWindow
  <2>3. Keeps(w[j], x) /\ Waiting(x)
    BY <1>2, <2>2, NoJoinerIs DEF Keeps, Waiting, Speaks
  <2> HIDE DEF x
  <2> QED BY <1>1, <2>1, <2>2, <2>3, JoinerReadStep
<1>3. CASE ~Speaks(j) /\ IsDue(w[j].deadline)
  BY <1>1, <1>3, GivesUpStep DEF JoinerTimer, StillJoins
<1> DEFINE x == [w[j] EXCEPT !.deadline = @ - 1]
<1>4. ASSUME ~IsDue(w[j].deadline)
      PROVE  /\ x \in JoinerWindow /\ x.stage = w[j].stage /\ x.addr = w[j].addr
             /\ x.joining /\ x.gotHost = w[j].gotHost /\ StillFree(w[j], x)
  <2>1. w[j].deadline - 1 \in Nat
    BY <1>1, <1>4 DEF IsDue, JoinerWindow
  <2>2. x \in JoinerWindow
    BY <1>1, <2>1 DEF JoinerWindow
  <2> QED BY <1>1, <2>2 DEF JoinerWindow, StillFree
<1>5. CASE ~Speaks(j) /\ ~IsDue(w[j].deadline) /\ ~w[j].gotHost
  <2> DEFINE y == [x EXCEPT !.joinIn = Then(@, JoinAgain)]
             m == ToServer("JOIN", x.code, j)
             out == IF IsDue(x.joinIn) THEN {m} ELSE {}
  <2>1. AsksServer(j, x)
    BY <1>4, <1>5 DEF JoinerTimer, StillJoins
  <2>2. w' = [w EXCEPT ![j] = y] /\ Sends({}, out)
    BY <2>1 DEF AsksServer
  <2>3. Then(x.joinIn, JoinAgain) \in Nat /\ x.code \in Nat
    <3> HIDE DEF x
    <3> QED BY <1>4, <1>5, TraversalAssumption DEF Then, IsDue, JoinerWindow
  <2>4. /\ y \in JoinerWindow /\ y.stage = w[j].stage /\ y.addr = w[j].addr
        /\ y.joining /\ ~y.gotHost
    <3> HIDE DEF x
    <3> QED BY <1>4, <1>5, <2>3 DEF JoinerWindow
  <2>5. /\ m \in Datagram /\ Addressed(m) /\ ~(m.to = "host" /\ m.kind = "RPOS")
        /\ \A k \in Joiners : Asks(m, k) => k = j
    <3> HIDE DEF x
    <3> QED BY <2>3, JoinIs
  <2>6. Keeps(w[j], y) /\ Waiting(y) /\ y.addr = "none"
    <3> HIDE DEF y
    <3> QED BY <1>1, <1>5, <2>4, JoinerWindowIs, NoJoinerIs DEF Keeps, Waiting
  <2> HIDE DEF x, y, m
  <2>7. \A n \in out : n \in Datagram /\ Addressed(n) /\ ~(n.to = "host" /\ n.kind = "RPOS")
    BY <2>5
  <2>8. \A n \in out, k \in Joiners : Asks(n, k) => k = j
    BY <2>5
  <2>9. \A n \in wire' : n = m
    BY <1>1, <2>2 DEF Sends
  <2>10. \A n \in wire' : Asks(n, j) => Waiting(y)
    BY <2>6
  <2>11. \A n, k \in wire' : (Asks(n, j) /\ Asks(k, j)) => n = k
    BY <2>9
  <2> HIDE DEF out
  <2> QED BY <1>1, <2>2, <2>4, <2>6, <2>7, <2>8, <2>10, <2>11, JoinerKeepStep
<1>6. CASE ~Speaks(j) /\ ~IsDue(w[j].deadline) /\ w[j].gotHost
  <2> DEFINE y == Toward(Tried(x), "punched")
             third == y.attempts = 3
             z == IF third THEN FallenBack(y) ELSE y
             out == Request(j, "punched") \cup (IF third THEN FallbackRequest(j, y) ELSE {})
  <2>1. AsksHost(j, x)
    BY <1>4, <1>6 DEF JoinerTimer, StillJoins
  <2>2. w' = [w EXCEPT ![j] = z] /\ Sends({}, out)
    BY <2>1 DEF AsksHost
  <2>3. StillFree(x, z) /\ Requests(out, j)
    <3>1. x \in JoinerWindow
      BY <1>4, <1>6
    <3> HIDE DEF x
    <3>2. third \in BOOLEAN
      OBVIOUS
    <3> HIDE DEF third
    <3> QED BY <3>1, <3>2, AskingIs
  <2>4. StillFree(w[j], x) /\ x.gotHost
    BY <1>4, <1>6
  <2> HIDE DEF x, z, out
  <2>5. StillFree(w[j], z) /\ z.gotHost
    BY <2>3, <2>4 DEF StillFree
  <2> QED BY <1>1, <1>6, <2>2, <2>3, <2>5, SearchingStep
<1> QED BY <1>2, <1>3, <1>5, <1>6
-----------------------------------------------------------------------------
(* The search                                                              *)

\* At the start there is no window and no datagram.
LEMMA InitSearchInv == TravInit => SearchInv
<1> SUFFICES ASSUME TravInit PROVE SearchInv
  OBVIOUS
<1>1. SearchTypes /\ h.stage = "free" /\ RightlyListed(h)
  BY NoHostIs, NoJoinerIs DEF TravInit, SearchTypes
<1>2. \A j \in Joiners : w[j].stage = "free" /\ ~w[j].joining
  BY NoJoinerIs DEF TravInit
<1> QED BY <1>1, <1>2 DEF TravInit, SearchInv, RealAddresses, BlindSearch, AskedOnce, Agreement, Speaks

\* A datagram that arrives is handled by the one it is for.
LEMMA ArrivesStep ==
  ASSUME SearchInv, NEW m \in wire, Arrives(m)
  PROVE  SearchInv'
<1>1. CASE ServerActs(m)  BY <1>1, ServerActsStep
<1>2. CASE LoseOnWire(m)  BY <1>2, LoseOnWireStep
<1>3. CASE HostRegok(m)  BY <1>3, HostRegokStep
<1>4. CASE HostPeer(m)  BY <1>4, HostPeerStep
<1>5. CASE HostMyIp(m)  BY <1>5, HostMyIpStep
<1>6. CASE HostRequest(m)  BY <1>6, HostRequestStep
<1>7. CASE HostConfirmed(m)  BY <1>7, HostConfirmedStep
<1>8. CASE HostPeerExits(m)  BY <1>8, HostPeerExitsStep
<1>9. CASE \E j \in Joiners : JoinerHost(j, m) \/ JoinerBusy(j, m) \/ JoinerAccepted(j, m) \/ JoinerHostGone(j, m)
  BY <1>9, JoinerHostStep, JoinerBusyStep, JoinerAcceptedStep, JoinerHostGoneStep
<1> QED BY <1>1, <1>2, <1>3, <1>4, <1>5, <1>6, <1>7, <1>8, <1>9 DEF Arrives

\* Every step of the search keeps the invariant.
LEMMA NextSearchInv ==
  ASSUME Prompt, SearchInv, [TravNext]_travVars
  PROVE  SearchInv'
<1>1. CASE OpenHost  BY <1>1, OpenHostStep
<1>2. CASE CloseHost  BY <1>2, CloseHostStep
<1>3. CASE HostTimer  BY <1>3, HostTimerStep
<1>4. CASE HostPingTimeout  BY <1>4, HostPingTimeoutStep
<1>5. CASE \E j \in Joiners : OpenJoiner(j) \/ CloseJoiner(j) \/ JoinerTimer(j) \/ JoinerPingTimeout(j)
  BY <1>5, OpenJoinerStep, CloseJoinerStep, JoinerTimerStep, JoinerPingTimeoutStep
<1>6. CASE \E m \in wire : Arrives(m)
  BY <1>6, ArrivesStep
<1>7. CASE UNCHANGED travVars
  <2>1. SearchTypes' /\ RealAddresses' /\ BlindSearch' /\ AskedOnce' /\ Agreement' /\ RightlyListed(h')
    BY <1>7 DEF travVars, SearchInv, SearchTypes, RealAddresses, BlindSearch, AskedOnce, Agreement, Speaks
  <2> QED BY <2>1 DEF SearchInv
<1> QED BY <1>1, <1>2, <1>3, <1>4, <1>5, <1>6, <1>7 DEF TravNext

\* While no datagram is on its way for a whole second, two who are connected write to each other over
\* the same way, and the list of games shows the code the host has now: for any number of joiners
\* and windows, whatever the network loses and reorders and the servers answer.
THEOREM SpecNoStaleAddress ==
  ASSUME Prompt
  PROVE  TravSpec => []NoStaleAddress
<1>1. SearchInv => NoStaleAddress
  <2> SUFFICES ASSUME SearchInv PROVE NoStaleAddress
    OBVIOUS
  <2>1. ASSUME NEW j \in Joiners, h.stage = "connected", h.addr.joiner = j, Speaks(j)
        PROVE  h.addr.way = w[j].addr
    BY <2>1 DEF SearchInv, Agreement, Agrees, Speaks
  <2> QED BY <2>1 DEF NoStaleAddress, SearchInv, RightlyListed
<1>2. SearchInv /\ [TravNext]_travVars => SearchInv'
  BY NextSearchInv
<1> QED BY <1>1, <1>2, InitSearchInv, PTL DEF TravSpec

-----------------------------------------------------------------------------
\* The loop over KSSDFA.

\* The word, the loop's own assignments and those that are requests: some are the last of their
\* request, ConnectToServer's first has one more after it, and the rest may go on.
Word == [state : 0 .. 3, input : 0 .. 2]
TakesInput == Own("input", 0)
LastOnly == {Assign("input", 2, 2), Assign("state", 3, 3), Assign("input", 1, More)}
Closing == Assign("state", 0, 0)
Ending == {Assign("input", 1, 0), Assign("state", 0, More)}
Asked == LastOnly \cup {Closing} \cup Ending
IsQueue(q) ==
  /\ q \in Seq(Asked)
  /\ \A i \in DOMAIN q : q[i] \in LastOnly => i = Len(q)
  /\ \A i \in DOMAIN q : q[i] = Closing => i + 1 = Len(q) /\ q[i + 1] = Assign("input", 1, More)

\* What the main thread is about to assign, where the loop is.
MainQueue ==
  /\ loop = "act" => \/ todo["main"] \in {<<>>, <<TakesInput>>}
                     \/ \E v \in 0 .. 3 : todo["main"] = <<Own("state", v), TakesInput>>
  /\ loop = "begin" => todo["main"] \in {<<>>, <<Own("state", 2)>>}
  /\ loop = "step" => IsQueue(todo["main"])
  /\ loop \in {"test", "index", "over"} => todo["main"] = <<>>
FrontTypes ==
  /\ word \in Word /\ readState \in 0 .. 3 /\ loop \in {"test", "index", "act", "step", "begin", "over"}
  /\ loop = "index" => readState # 3
  /\ loaded \in [Threads -> Word \cup {NoWord}] /\ DOMAIN todo = Threads
  /\ todo["main"] = <<>> => loaded["main"] = NoWord
  /\ unread \subseteq {"state", "input"} /\ missed \subseteq {"state", "input"}
  /\ wanted \in {{0}, {2}, {3}, {0, 2, 3}}
  /\ IsQueue(todo["ui"]) /\ IsQueue(todo["emu"]) /\ MainQueue

\* A start, or the end of the thread, has nothing more to write, and nobody else is in the middle of a
\* request then.
Fresh == wanted \in {{2}, {3}} => \A t \in Threads : todo[t] # <<>> => Head(todo[t]).asks # More

\* A thread has stored the state of ConnectToServer's request, and its input is still to come.
Closes == \E t \in Threads : todo[t] = <<Assign("input", 1, More)>>

\* The loop has read the input and is about to reset it.
Clears == todo["main"] # <<>> /\ loop = "act"

\* The state the loop comes to, unless another input is written.
AboutToSet == loop \in {"act", "begin"} /\ todo["main"] # <<>> /\ Head(todo["main"]).field = "state"
CourseIn(S) ==
  /\ loop = "index" => readState \in S
  /\ AboutToSet => Head(todo["main"]).value \in S
  /\ (loop # "index" /\ ~AboutToSet) =>
       /\ word.state \in S
       /\ (loop = "act" /\ loaded["main"] # NoWord) => loaded["main"].state \in S

\* As long as no input was undone: an input the loop has not read is the one the last request wrote;
\* and when it has read it, it comes to the state that request asks for.
UnreadInput ==
  ("input" \notin missed /\ "input" \in unread) =>
    /\ word.input # 0
    /\ wanted = {2} => word.input = 2
    /\ wanted = {0} => word.input = 1 \/ Closes
TakenInput ==
  ("input" \notin missed /\ "input" \notin unread) =>
    /\ Clears \/ word.input = 0
    /\ loop # "act" => CourseIn({0, 2, 3})
    /\ wanted = {2} => CourseIn({1, 2})
    /\ wanted = {0} => CourseIn({0}) \/ Closes

\* As long as the end of the window's thread was not undone, the loop is not about to undo it.
Ends ==
  (wanted = {3} /\ "state" \notin missed) =>
    /\ word.state = 3
    /\ (loop = "index" \/ AboutToSet) => "state" \in unread

FrontInv == FrontTypes /\ Fresh /\ UnreadInput /\ TakenInput /\ Ends
-----------------------------------------------------------------------------
(* The requests                                                            *)

\* The states a request may ask for, as sets.
LEMMA WantedSets ==
  /\ {0} # {2} /\ {0} # {3} /\ {2} # {3}
  /\ {0, 2, 3} # {0} /\ {0, 2, 3} # {2} /\ {0, 2, 3} # {3}
<1>1. 0 \notin {2} /\ 0 \notin {3} /\ 2 \notin {3} /\ 2 \notin {0} /\ 0 \in {0, 2, 3} /\ 2 \in {0, 2, 3}
  OBVIOUS
<1> QED BY <1>1

\* An assignment of a request.
LEMMA AskedIs ==
  ASSUME NEW a \in Asked
  PROVE  /\ a.asks # OwnField /\ a.asks \in {0, 2, 3, More}
         /\ a.field = "input" => a.value \in {1, 2} /\ (a.asks \in {0, More} => a.value = 1) /\ (a.asks = 2 => a.value = 2)
         /\ a.field = "state" => a.value \in {0, 3} /\ (a.asks = More => a.value = 0)
         /\ a.field \in {"state", "input"}
         /\ a.asks = 3 => a.field = "state" /\ a.value = 3
         /\ a.asks = 2 => a.field = "input"
         /\ a.asks \in {2, 3} => a \in LastOnly
         /\ (a.field = "state" /\ a.asks = 0) => a = Closing
         /\ a.field = "input" /\ a.asks = More => a \in LastOnly
BY DEF Asked, LastOnly, Closing, Ending, Assign, OwnField, More

\* What is left of a request.
LEMMA TailQueue ==
  ASSUME NEW q, IsQueue(q), q # <<>>
  PROVE  /\ IsQueue(Tail(q)) /\ Head(q) \in Asked
         /\ Head(q) \in LastOnly => Tail(q) = <<>>
         /\ Head(q) = Closing => Tail(q) = <<Assign("input", 1, More)>>
<1>1. q \in Seq(Asked) /\ Len(q) \in Nat \ {0} /\ DOMAIN q = 1 .. Len(q) /\ Head(q) = q[1] /\ Head(q) \in Asked
  BY EmptySeq, HeadTailProperties DEF IsQueue
<1>2. /\ Tail(q) \in Seq(Asked) /\ Len(Tail(q)) = Len(q) - 1 /\ DOMAIN Tail(q) = 1 .. Len(q) - 1
      /\ \A i \in 1 .. Len(q) - 1 : Tail(q)[i] = q[i + 1]
  BY <1>1, HeadTailProperties
<1> DEFINE tail == Tail(q)
<1>3. tail \in Seq(Asked) /\ Len(tail) = Len(q) - 1
  BY <1>2
<1>4. IsQueue(Tail(q))
  <2>1. \A i \in 1 .. Len(q) - 1 : i + 1 \in DOMAIN q
    BY <1>1
  <2>2. \A i \in DOMAIN Tail(q) : Tail(q)[i] \in LastOnly => i = Len(Tail(q))
    BY <1>1, <1>2, <2>1 DEF IsQueue
  <2>3. \A i \in DOMAIN Tail(q) : Tail(q)[i] = Closing => i + 1 = Len(Tail(q)) /\ Tail(q)[i + 1] = Assign("input", 1, More)
    <3> SUFFICES ASSUME NEW i \in DOMAIN Tail(q), Tail(q)[i] = Closing
                 PROVE  i + 1 = Len(Tail(q)) /\ Tail(q)[i + 1] = Assign("input", 1, More)
      OBVIOUS
    <3>1. i \in 1 .. Len(q) - 1 /\ i + 1 \in DOMAIN q /\ q[i + 1] = Closing
      BY <1>2, <2>1
    <3>2. i + 1 + 1 = Len(q) /\ q[i + 1 + 1] = Assign("input", 1, More)
      BY <3>1 DEF IsQueue
    <3>3. i + 1 \in 1 .. Len(q) - 1
      BY <1>1, <3>1, <3>2
    <3> QED BY <1>1, <1>2, <3>1, <3>2, <3>3
  <2> QED BY <1>2, <2>2, <2>3 DEF IsQueue
<1>5. ASSUME Head(q) \in LastOnly PROVE Tail(q) = <<>>
  <2>1. 1 = Len(q)
    BY <1>1, <1>5 DEF IsQueue
  <2> HIDE DEF tail
  <2>2. Len(tail) = 0
    BY <1>1, <1>3, <2>1
  <2>3. tail = <<>>
    BY <1>3, <2>2, EmptySeq
  <2> QED BY <2>3 DEF tail
<1>6. ASSUME Head(q) = Closing PROVE Tail(q) = <<Assign("input", 1, More)>>
  <2>1. 2 = Len(q) /\ q[2] = Assign("input", 1, More)
    BY <1>1, <1>6 DEF IsQueue
  <2> DEFINE last == Assign("input", 1, More)
             r == Tail(q)
  <2>2. 1 \in 1 .. Len(q) - 1
    BY <2>1
  <2>3. r[1] = q[1 + 1]
    BY <1>2, <2>2
  <2>4. r[1] = last
    BY <2>1, <2>3
  <2> HIDE DEF r, last
  <2>5. r \in Seq(Asked) /\ Len(r) = 1
    <3> HIDE DEF tail
    <3>1. r = tail
      BY DEF r, tail
    <3>2. Len(q) = 2
      BY <2>1
    <3>3. Len(tail) = 1
      BY <1>1, <1>3, <3>2
    <3> QED BY <1>3, <3>1, <3>3
  <2>6. last \in Asked
    BY DEF last, Asked, LastOnly
  <2>7. <<last>> \in Seq(Asked) /\ Len(<<last>>) = 1 /\ <<last>>[1] = last
    BY <2>6
  <2>8. \A i \in 1 .. Len(r) : r[i] = <<last>>[i]
    BY <2>4, <2>7, <2>5
  <2>9. r = <<last>>
    BY <2>5, <2>7, <2>8, SeqEqual
  <2> QED BY <2>9 DEF r, last
<1> QED BY <1>1, <1>4, <1>5, <1>6

\* The requests that consist of one assignment.
LEMMA OneQueue ==
  ASSUME NEW a \in LastOnly
  PROVE  IsQueue(<<a>>) /\ <<a>> # <<>> /\ Head(<<a>>) = a
<1>1. a # Closing
  BY DEF LastOnly, Closing, Assign, More
<1>2. a \in Asked
  BY DEF Asked
<1>3. <<a>> \in Seq(Asked) /\ DOMAIN <<a>> = {1} /\ Len(<<a>>) = 1 /\ <<a>>[1] = a
  BY <1>2
<1> QED BY <1>1, <1>3 DEF IsQueue

\* An end, before another request or alone.
LEMMA EndQueue ==
  ASSUME NEW q, IsQueue(q)
  PROVE  IsQueue(END \o q) /\ END \o q # <<>> /\ Head(END \o q) = Assign("input", 1, 0)
<1> DEFINE p == END \o q
<1>1. END \in Seq(Asked) /\ Len(END) = 2 /\ END[1] = Assign("input", 1, 0) /\ END[2] = Assign("state", 0, More)
  BY DEF END, Asked, Ending
<1>2. q \in Seq(Asked) /\ Len(q) \in Nat /\ DOMAIN q = 1 .. Len(q)
  BY LenProperties DEF IsQueue
<1>3. p \in Seq(Asked) /\ Len(p) = Len(q) + 2 /\ \A i \in 1 .. Len(q) + 2 : p[i] = IF i <= 2 THEN END[i] ELSE q[i - 2]
  <2> DEFINE e == END
  <2>1. e \in Seq(Asked) /\ Len(e) = 2
    BY <1>1
  <2> HIDE DEF e
  <2>2. /\ e \o q \in Seq(Asked) /\ Len(e \o q) = Len(e) + Len(q)
        /\ \A i \in 1 .. Len(e) + Len(q) : (e \o q)[i] = IF i <= Len(e) THEN e[i] ELSE q[i - Len(e)]
    BY <1>2, <2>1, ConcatProperties
  <2>3. /\ e \o q \in Seq(Asked) /\ Len(e \o q) = Len(q) + 2
        /\ \A i \in 1 .. Len(q) + 2 : (e \o q)[i] = IF i <= 2 THEN e[i] ELSE q[i - 2]
    BY <1>2, <2>1, <2>2
  <2> QED BY <2>3 DEF e
<1>4. DOMAIN p = 1 .. Len(q) + 2 /\ p[1] = Assign("input", 1, 0) /\ p[2] = Assign("state", 0, More)
  BY <1>1, <1>2, <1>3, LenProperties
<1>5. \A i \in DOMAIN p : i \in {1, 2} \/ (i - 2 \in DOMAIN q /\ p[i] = q[i - 2])
  BY <1>2, <1>3, <1>4
<1>6. p[1] \notin LastOnly /\ p[1] # Closing /\ p[2] \notin LastOnly /\ p[2] # Closing
  BY <1>4 DEF LastOnly, Closing, Assign, More
<1> HIDE DEF p
<1>7. \A i \in DOMAIN p : p[i] \in LastOnly => i = Len(p)
  BY <1>2, <1>3, <1>4, <1>5, <1>6 DEF IsQueue
<1>8. \A i \in DOMAIN p : p[i] = Closing => i + 1 = Len(p) /\ p[i + 1] = Assign("input", 1, More)
  <2> SUFFICES ASSUME NEW i \in DOMAIN p, p[i] = Closing
               PROVE  i + 1 = Len(p) /\ p[i + 1] = Assign("input", 1, More)
    OBVIOUS
  <2>1. i - 2 \in DOMAIN q /\ q[i - 2] = Closing
    BY <1>5, <1>6
  <2>2. i - 2 + 1 = Len(q) /\ q[i - 2 + 1] = Assign("input", 1, More)
    BY <2>1 DEF IsQueue
  <2>3. i + 1 = Len(p) /\ i \in Int /\ i >= 3
    BY <1>2, <1>3, <1>4, <2>1, <2>2
  <2>4. p[i + 1] = q[i + 1 - 2] /\ i + 1 - 2 = i - 2 + 1
    BY <1>2, <1>3, <2>3 DEF p
  <2> QED BY <2>2, <2>3, <2>4
<1>9. p # <<>> /\ Head(p) = p[1]
  BY <1>2, <1>3, EmptySeq, HeadTailProperties
<1> QED BY <1>3, <1>4, <1>7, <1>8, <1>9 DEF IsQueue, p

\* Every request there is.
FreshQueue(q) == IsQueue(q) /\ (q # <<>> => Head(q).asks # More)
\* What a thread asks for is a queue of assignments that are requests.
LEMMA RequestAssigns ==
  FreshQueue(<<>>) /\ FreshQueue(START) /\ FreshQueue(END) /\ FreshQueue(END \o END)
  /\ FreshQueue(CLOSE) /\ FreshQueue(END \o END \o CLOSE) /\ FreshQueue(<<Assign("state", 3, 3)>>)
<1>1. IsQueue(<<>>)
  <2>1. <<>> \in Seq(Asked) /\ DOMAIN <<>> = {}
    BY EmptySeq
  <2> QED BY <2>1 DEF IsQueue
<1>2. FreshQueue(START) /\ FreshQueue(<<Assign("state", 3, 3)>>)
  BY OneQueue DEF FreshQueue, START, LastOnly, Assign, More
<1>3. IsQueue(CLOSE) /\ Head(CLOSE) = Closing
  <2>1. CLOSE \in Seq(Asked) /\ DOMAIN CLOSE = {1, 2} /\ Len(CLOSE) = 2
    BY DEF CLOSE, Asked, Closing, LastOnly
  <2>2. CLOSE[1] = Closing /\ CLOSE[2] = Assign("input", 1, More) /\ Head(CLOSE) = Closing
    BY DEF CLOSE, Closing
  <2>3. Closing \notin LastOnly /\ CLOSE[2] # Closing
    BY <2>2 DEF Closing, LastOnly, Assign, More
  <2> QED BY <2>1, <2>2, <2>3 DEF IsQueue
<1>4. \A q : IsQueue(q) => FreshQueue(END \o q)
  BY EndQueue DEF FreshQueue, Assign, More
<1>5. END \in Seq(Asked) /\ CLOSE \in Seq(Asked)
  BY <1>3 DEF END, Asked, Ending, IsQueue
<1>6. END \o <<>> = END
  BY <1>5, ConcatEmptySeq
<1>7. END \o END \o CLOSE = END \o (END \o CLOSE)
  BY <1>5, ConcatAssociative
<1>8. FreshQueue(CLOSE)
  BY <1>3 DEF FreshQueue, Closing, Assign, More
<1>9. FreshQueue(END)
  BY <1>1, <1>4, <1>6
<1>10. FreshQueue(END \o END) /\ FreshQueue(END \o CLOSE)
  BY <1>3, <1>4, <1>9 DEF FreshQueue
<1>11. FreshQueue(END \o (END \o CLOSE))
  BY <1>4, <1>10 DEF FreshQueue
<1> QED BY <1>1, <1>2, <1>7, <1>8, <1>9, <1>10, <1>11 DEF FreshQueue
-----------------------------------------------------------------------------
(* The assignments                                                         *)

\* A thread loads the word.
LEMMA LoadStep ==
  ASSUME FrontInv, NEW t \in Threads, LoadWord(t)
  PROVE  FrontInv'
<1>1. loaded' = [loaded EXCEPT ![t] = word] /\ todo[t] # <<>>
      /\ UNCHANGED <<word, todo, unread, wanted, missed, loop, readState>>
  BY DEF LoadWord, Idle
<1>2. FrontTypes'
  <2>1. loaded' \in [Threads -> Word \cup {NoWord}] /\ (t # "main" => loaded'["main"] = loaded["main"])
    BY <1>1 DEF FrontInv, FrontTypes, Threads
  <2>2. todo["main"] = <<>> => loaded'["main"] = NoWord
    BY <1>1, <2>1 DEF FrontInv, FrontTypes
  <2>3. MainQueue'
    BY <1>1 DEF FrontInv, FrontTypes, MainQueue
  <2> QED BY <1>1, <2>1, <2>2, <2>3 DEF FrontInv, FrontTypes
<1>3. Fresh' /\ UnreadInput' /\ Ends'
  BY <1>1 DEF FrontInv, Fresh, UnreadInput, Ends, Closes, AboutToSet
<1>4. loaded'["main"] = loaded["main"] \/ loaded'["main"] = word
  BY <1>1 DEF FrontInv, FrontTypes, Threads
<1>5. ASSUME NEW S, CourseIn(S) PROVE CourseIn(S)'
  BY <1>1, <1>4, <1>5 DEF CourseIn, AboutToSet
<1>6. Clears' = Clears /\ Closes' = Closes
  BY <1>1 DEF Clears, Closes
<1>7. TakenInput'
  BY <1>1, <1>5, <1>6 DEF FrontInv, TakenInput
<1> QED BY <1>2, <1>3, <1>7 DEF FrontInv

\* The loop's own assignments.
LEMMA OwnStoreStep ==
  ASSUME FrontInv, StoreWord("main"), loop \in {"act", "begin"}
  PROVE  FrontInv'
<1> DEFINE a == Head(todo["main"])
           l == loaded["main"]
<1>1. "main" \in Threads
  BY DEF Threads
<1>2. /\ todo["main"] # <<>> /\ l # NoWord /\ l \in Word
      /\ word' = [l EXCEPT ![a.field] = a.value]
      /\ todo' = [todo EXCEPT !["main"] = Tail(todo["main"])] /\ loaded' = [loaded EXCEPT !["main"] = NoWord]
      /\ UNCHANGED <<loop, readState>>
  BY <1>1 DEF StoreWord, Idle, FrontInv, FrontTypes
<1>3. \/ loop = "act" /\ todo["main"] = <<TakesInput>>
      \/ loop = "act" /\ \E v \in 0 .. 3 : todo["main"] = <<Own("state", v), TakesInput>>
      \/ loop = "begin" /\ todo["main"] = <<Own("state", 2)>>
  BY <1>2 DEF FrontInv, FrontTypes, MainQueue
<1>4. a.asks = OwnField
  BY <1>3 DEF Own, Assign, TakesInput
<1>5. /\ wanted' = wanted /\ unread' = unread \ {a.field}
      /\ missed' = (missed \cup ({a.field} \cap unread))
                 \cup {f \in {"state", "input"} \ {a.field} : word[f] # l[f]}
  BY <1>4 DEF StoreWord
<1>6. /\ DOMAIN todo' = Threads /\ todo'["ui"] = todo["ui"] /\ todo'["emu"] = todo["emu"]
      /\ todo'["main"] = Tail(todo["main"])
      /\ loaded' \in [Threads -> Word \cup {NoWord}] /\ loaded'["main"] = NoWord
  BY <1>2 DEF FrontInv, FrontTypes, Threads
<1>7. \A t \in Threads : todo'[t] = todo[t] \/ t = "main"
  BY <1>6 DEF Threads
<1>8. Closes => Closes'
  <2>1. todo["main"] # <<Assign("input", 1, More)>>
    BY <1>3 DEF Own, Assign, TakesInput, OwnField, More
  <2> QED BY <1>7, <2>1 DEF Closes
<1>9. /\ unread' \subseteq {"state", "input"} /\ missed' \subseteq {"state", "input"}
      /\ wanted' \in {{0}, {2}, {3}, {0, 2, 3}} /\ readState' \in 0 .. 3
      /\ loop' \in {"test", "index", "act", "step", "begin", "over"} /\ (loop' = "index" => readState' # 3)
      /\ IsQueue(todo'["ui"]) /\ IsQueue(todo'["emu"])
  <2>1. a.field \in {"state", "input"}
    BY <1>3 DEF Own, Assign, TakesInput
  <2>2. unread \subseteq {"state", "input"} /\ missed \subseteq {"state", "input"}
    BY DEF FrontInv, FrontTypes
  <2>3. unread' \subseteq {"state", "input"} /\ missed' \subseteq {"state", "input"}
    BY <1>5, <2>1, <2>2
  <2> QED BY <1>2, <1>5, <1>6, <2>3 DEF FrontInv, FrontTypes
<1>10. CASE loop = "act" /\ todo["main"] = <<TakesInput>>
  <2>1. a = TakesInput /\ a.field = "input" /\ a.value = 0 /\ todo'["main"] = <<>>
    BY <1>6, <1>10 DEF Own, Assign, TakesInput
  <2>2. word' \in Word /\ word'.input = 0 /\ word'.state = l.state
    BY <1>2, <2>1 DEF Word
  <2>3. FrontTypes'
    BY <1>2, <1>6, <1>9, <1>10, <2>1, <2>2 DEF FrontTypes, MainQueue
  <2>4. Fresh'
    BY <1>5, <1>7, <2>1 DEF FrontInv, Fresh
  <2>5. UnreadInput'
    BY <1>5, <2>1 DEF UnreadInput
  <2>6. ("input" \notin missed') => ("input" \notin missed /\ "input" \notin unread)
    BY <1>5, <2>1
  <2>7. ~AboutToSet /\ ~AboutToSet'
    BY <1>2, <1>10, <2>1 DEF AboutToSet
  <2>8. ASSUME NEW S, CourseIn(S) PROVE CourseIn(S)'
    BY <1>2, <1>6, <1>10, <2>2, <2>7, <2>8 DEF CourseIn
  <2>9. TakenInput'
    BY <1>2, <1>5, <1>8, <1>10, <2>2, <2>6, <2>8 DEF FrontInv, TakenInput
  <2>10. Ends'
    <3>1. "state" \notin missed' => "state" \notin missed /\ word.state = l.state
      BY <1>5, <2>1
    <3> QED BY <1>2, <1>5, <1>10, <2>2, <2>7, <3>1 DEF FrontInv, Ends
  <2> QED BY <2>3, <2>4, <2>5, <2>9, <2>10 DEF FrontInv
<1>11. CASE ~(loop = "act" /\ todo["main"] = <<TakesInput>>)
  <2>1. PICK v \in 0 .. 3 : /\ a = Own("state", v)
                            /\ \/ loop = "act" /\ todo'["main"] = <<TakesInput>>
                               \/ loop = "begin" /\ todo'["main"] = <<>> /\ v = 2
    <3>1. CASE loop = "act" /\ \E v \in 0 .. 3 : todo["main"] = <<Own("state", v), TakesInput>>
      <4>1. PICK v \in 0 .. 3 : todo["main"] = <<Own("state", v), TakesInput>>
        BY <3>1
      <4>2. a = Own("state", v) /\ Tail(todo["main"]) = <<TakesInput>>
        BY <4>1
      <4> QED BY <1>6, <3>1, <4>2
    <3>2. CASE loop = "begin" /\ todo["main"] = <<Own("state", 2)>>
      <4>1. a = Own("state", 2) /\ Tail(todo["main"]) = <<>>
        BY <3>2
      <4> QED BY <1>6, <3>2, <4>1
    <3> QED BY <1>3, <1>11, <3>1, <3>2
  <2>2. a.field = "state" /\ a.value = v
    BY <2>1 DEF Own, Assign
  <2>3. word' \in Word /\ word'.input = l.input /\ word'.state = v
    BY <1>2, <2>2 DEF Word
  <2>4. FrontTypes'
    BY <1>2, <1>6, <1>9, <2>1, <2>3 DEF FrontTypes, MainQueue
  <2>5. Fresh'
    <3>1. todo'["main"] # <<>> => Head(todo'["main"]).asks # More
      BY <2>1 DEF TakesInput, Own, Assign, OwnField, More
    <3> QED BY <1>5, <1>7, <3>1 DEF FrontInv, Fresh
  <2>6. "input" \notin missed' => "input" \notin missed /\ word'.input = word.input
    BY <1>5, <2>2, <2>3
  <2>7. "input" \in unread' <=> "input" \in unread
    BY <1>5, <2>2
  <2>8. UnreadInput'
    BY <1>5, <1>8, <2>6, <2>7 DEF FrontInv, UnreadInput
  <2>9. AboutToSet /\ ~AboutToSet'
    <3>1. AboutToSet
      BY <1>2, <2>1, <2>2 DEF AboutToSet
    <3>2. Head(<<TakesInput>>).field = "input"
      BY DEF TakesInput, Own, Assign
    <3>3. ~AboutToSet'
      BY <1>2, <2>1, <3>2 DEF AboutToSet
    <3> QED BY <3>1, <3>3
  <2>10. ASSUME NEW S, CourseIn(S) PROVE CourseIn(S)'
    BY <1>2, <1>6, <2>2, <2>3, <2>9, <2>10 DEF CourseIn
  <2>11. (Clears \/ word.input = 0) /\ "input" \notin missed' => (Clears' \/ word'.input = 0)
    <3>1. Clears => Clears'
      <4>1. loop = "act" => todo'["main"] # <<>>
        <5>1. <<TakesInput>> # <<>>
          OBVIOUS
        <5> QED BY <2>1, <5>1, Zenon
      <4>2. loop' = loop
        BY <1>2
      <4> QED BY <4>1, <4>2 DEF Clears
    <3> QED BY <2>6, <3>1
  <2>12. TakenInput'
    BY <1>2, <1>5, <1>8, <2>6, <2>7, <2>10, <2>11 DEF FrontInv, TakenInput
  <2>13. Ends'
    <3>1. "state" \notin missed' => "state" \notin missed /\ "state" \notin unread
      BY <1>5, <2>2
    <3> QED BY <1>5, <2>9, <3>1 DEF FrontInv, Ends
  <2> QED BY <2>4, <2>5, <2>8, <2>12, <2>13 DEF FrontInv
<1> QED BY <1>10, <1>11

\* A request's assignments: what they change.
LEMMA RequestStoreFacts ==
  ASSUME FrontInv, NEW t \in Threads, StoreWord(t), t = "main" => loop = "step"
  PROVE  LET a == Head(todo[t]) IN
         /\ a \in Asked /\ IsQueue(todo[t]) /\ todo[t] # <<>> /\ todo'[t] = Tail(todo[t])
         /\ \A u \in Threads \ {t} : todo'[u] = todo[u] /\ loaded'[u] = loaded[u]
         /\ loaded' \in [Threads -> Word \cup {NoWord}] /\ loaded'[t] = NoWord /\ DOMAIN todo' = Threads
         /\ UNCHANGED <<loop, readState>>
         /\ word' \in Word /\ word'[a.field] = a.value
         /\ a.field \in unread' /\ a.field \notin missed'
         /\ \A f \in {"state", "input"} \ {a.field} :
               /\ f \in unread' <=> f \in unread
               /\ f \notin missed' => f \notin missed /\ word'[f] = word[f]
         /\ unread' \subseteq {"state", "input"} /\ missed' \subseteq {"state", "input"}
<1> DEFINE a == Head(todo[t])
           l == loaded[t]
<1>1. IsQueue(todo[t]) /\ todo[t] # <<>> /\ l # NoWord
  BY DEF StoreWord, Idle, FrontInv, FrontTypes, MainQueue, Threads
<1>2. a \in Asked
  BY <1>1, TailQueue
<1>3. a.asks # OwnField /\ a.field \in {"state", "input"}
      /\ (a.field = "input" => a.value \in {1, 2}) /\ (a.field = "state" => a.value \in {0, 3})
  BY <1>2, AskedIs
<1>4. l \in Word
  BY <1>1 DEF FrontInv, FrontTypes
<1>5. /\ word' = [l EXCEPT ![a.field] = a.value]
      /\ todo' = [todo EXCEPT ![t] = Tail(@)] /\ loaded' = [loaded EXCEPT ![t] = NoWord]
      /\ UNCHANGED <<loop, readState>>
  BY DEF StoreWord
<1>6. /\ unread' = unread \cup {a.field}
      /\ missed' = (missed \ {a.field}) \cup {f \in {"state", "input"} \ {a.field} : word[f] # l[f]}
  BY <1>3 DEF StoreWord
<1> HIDE DEF a, l
<1>7. word' \in Word /\ word'[a.field] = a.value /\ \A f \in {"state", "input"} \ {a.field} : word'[f] = l[f]
  <2>1. CASE a.field = "input"
    BY <1>3, <1>4, <1>5, <2>1 DEF Word
  <2>2. CASE a.field = "state"
    BY <1>3, <1>4, <1>5, <2>2 DEF Word
  <2> QED BY <1>3, <2>1, <2>2
<1>8. \A f \in {"state", "input"} \ {a.field} :
               /\ f \in unread' <=> f \in unread
               /\ f \notin missed' => f \notin missed /\ word'[f] = word[f]
  BY <1>6, <1>7
<1>9. unread' \subseteq {"state", "input"} /\ missed' \subseteq {"state", "input"}
  BY <1>3, <1>6 DEF FrontInv, FrontTypes
<1>10. a.field \in unread' /\ a.field \notin missed'
  BY <1>6
<1>11. /\ todo'[t] = Tail(todo[t]) /\ \A u \in Threads \ {t} : todo'[u] = todo[u] /\ loaded'[u] = loaded[u]
       /\ loaded' \in [Threads -> Word \cup {NoWord}] /\ loaded'[t] = NoWord /\ DOMAIN todo' = Threads
  BY <1>5 DEF FrontInv, FrontTypes
<1> QED BY <1>1, <1>2, <1>5, <1>7, <1>8, <1>9, <1>10, <1>11 DEF a
\* A thread makes one of the assignments of its request.
LEMMA RequestStoreStep ==
  ASSUME FrontInv, NEW t \in Threads, StoreWord(t), t = "main" => loop = "step"
  PROVE  FrontInv'
<1> DEFINE a == Head(todo[t])
           contested == \E u \in Threads \ {t} : \E i \in DOMAIN todo[u] : todo[u][i].asks # OwnField
<1>1. /\ a \in Asked /\ IsQueue(todo[t]) /\ todo[t] # <<>> /\ todo'[t] = Tail(todo[t])
      /\ \A u \in Threads \ {t} : todo'[u] = todo[u] /\ loaded'[u] = loaded[u]
      /\ loaded' \in [Threads -> Word \cup {NoWord}] /\ loaded'[t] = NoWord /\ DOMAIN todo' = Threads
      /\ UNCHANGED <<loop, readState>>
      /\ word' \in Word /\ word'[a.field] = a.value
      /\ a.field \in unread' /\ a.field \notin missed'
      /\ \A f \in {"state", "input"} \ {a.field} :
            /\ f \in unread' <=> f \in unread
            /\ f \notin missed' => f \notin missed /\ word'[f] = word[f]
      /\ unread' \subseteq {"state", "input"} /\ missed' \subseteq {"state", "input"}
  BY RequestStoreFacts
<1>2. /\ a.asks # OwnField /\ a.asks \in {0, 2, 3, More}
      /\ a.field = "input" => a.value \in {1, 2} /\ (a.asks \in {0, More} => a.value = 1) /\ (a.asks = 2 => a.value = 2)
      /\ a.field = "state" => a.value \in {0, 3} /\ (a.asks = More => a.value = 0)
      /\ a.field \in {"state", "input"}
      /\ a.asks = 3 => a.field = "state" /\ a.value = 3
      /\ a.asks = 2 => a.field = "input"
      /\ a.asks \in {2, 3} => a \in LastOnly
      /\ (a.field = "state" /\ a.asks = 0) => a = Closing
      /\ a.field = "input" /\ a.asks = More => a \in LastOnly
  BY <1>1, AskedIs
<1>3. /\ IsQueue(Tail(todo[t]))
      /\ a \in LastOnly => Tail(todo[t]) = <<>>
      /\ a = Closing => Tail(todo[t]) = <<Assign("input", 1, More)>>
  BY <1>1, TailQueue
<1>4. wanted' = CASE contested -> {0, 2, 3}
                 [] ~contested /\ a.asks # More -> {a.asks}
                 [] OTHER -> wanted
  BY <1>2 DEF StoreWord
<1> HIDE DEF a
<1>5. \/ wanted' = {0, 2, 3}
      \/ ~contested /\ a.asks # More /\ wanted' = {a.asks}
      \/ ~contested /\ a.asks = More /\ wanted' = wanted
  BY <1>4
<1>6. wanted' = {2} => ~contested /\ a.asks = 2
  <2>1. a.asks = More => wanted # {2}
    BY <1>1 DEF FrontInv, Fresh, a
  <2>2. 2 \in {a.asks} => a.asks = 2
    OBVIOUS
  <2> QED BY <1>5, <2>1, <2>2, WantedSets
<1>7. wanted' = {3} => ~contested /\ a.asks = 3
  <2>1. a.asks = More => wanted # {3}
    BY <1>1 DEF FrontInv, Fresh, a
  <2>2. 3 \in {a.asks} => a.asks = 3
    OBVIOUS
  <2> QED BY <1>5, <2>1, <2>2, WantedSets
<1>8. wanted' = {0} => ~contested /\ (a.asks = 0 \/ (a.asks = More /\ wanted = {0}))
  <2>1. 0 \in {a.asks} => a.asks = 0
    OBVIOUS
  <2> QED BY <1>5, <2>1, WantedSets
<1>9. MainQueue'
  <2>1. CASE t = "main"
    BY <1>1, <1>3, <2>1 DEF MainQueue
  <2>2. CASE t # "main"
    <3>1. todo'["main"] = todo["main"]
      BY <1>1, <2>2 DEF Threads
    <3> QED BY <1>1, <3>1 DEF FrontInv, FrontTypes, MainQueue
  <2> QED BY <2>1, <2>2
<1>10. FrontTypes'
  <2>1. wanted' \in {{0}, {2}, {3}, {0, 2, 3}}
    <3>1. wanted \in {{0}, {2}, {3}, {0, 2, 3}}
      BY DEF FrontInv, FrontTypes
    <3>2. a.asks # More => a.asks = 0 \/ a.asks = 2 \/ a.asks = 3
      BY <1>2
    <3> QED BY <1>5, <3>1, <3>2
  <2>2. IsQueue(todo'["ui"]) /\ IsQueue(todo'["emu"])
    BY <1>1, <1>3 DEF FrontInv, FrontTypes, Threads
  <2>3. todo'["main"] = <<>> => loaded'["main"] = NoWord
    BY <1>1 DEF FrontInv, FrontTypes, Threads
  <2>4. readState' \in 0 .. 3 /\ loop' \in {"test", "index", "act", "step", "begin", "over"} /\ (loop' = "index" => readState' # 3)
    BY <1>1 DEF FrontInv, FrontTypes
  <2> QED BY <1>1, <1>9, <2>1, <2>2, <2>3, <2>4 DEF FrontTypes
<1>11. Fresh'
  <2>1. ASSUME wanted' \in {{2}, {3}}, NEW u \in Threads, todo'[u] # <<>>
        PROVE  Head(todo'[u]).asks # More
    <3>1. ~contested /\ a \in LastOnly
      BY <1>2, <1>6, <1>7, <2>1
    <3>2. u # t /\ todo'[u] = todo[u]
      BY <1>1, <1>3, <2>1, <3>1
    <3>3. \A i \in DOMAIN todo[u] : todo[u][i].asks = OwnField
      BY <3>1, <3>2
    <3>4. CASE u = "main" /\ loop \in {"act", "begin"}
      BY <2>1, <3>2, <3>4 DEF FrontInv, FrontTypes, MainQueue, Own, Assign, TakesInput, OwnField, More
    <3>5. CASE ~(u = "main" /\ loop \in {"act", "begin"})
      <4>1. IsQueue(todo[u])
        BY <2>1, <3>2, <3>5 DEF FrontInv, FrontTypes, MainQueue, Threads
      <4>2. todo[u] \in Seq(Asked) /\ 1 \in DOMAIN todo[u] /\ Head(todo[u]) = todo[u][1]
        BY <2>1, <3>2, <4>1, EmptySeq, LenProperties, HeadTailProperties DEF IsQueue
      <4> QED BY <3>2, <3>3, <4>2 DEF OwnField, More
    <3> QED BY <3>4, <3>5
  <2> QED BY <2>1 DEF Fresh
<1>12. Closes => Closes' \/ (a.asks = More /\ a.field = "input")
  <2>1. ASSUME NEW u \in Threads, todo[u] = <<Assign("input", 1, More)>>
        PROVE  Closes' \/ (a.asks = More /\ a.field = "input")
    <3>1. CASE u = t
      BY <2>1, <3>1 DEF a, Assign
    <3>2. CASE u # t
      BY <1>1, <2>1, <3>2 DEF Closes
    <3> QED BY <3>1, <3>2
  <2> QED BY <2>1 DEF Closes
<1>13. a = Closing => Closes'
  BY <1>1, <1>3 DEF Closes
<1>14. CASE a.field = "input"
  <2>1. word'.input = a.value /\ "input" \in unread'
    BY <1>1, <1>14
  <2>2. UnreadInput'
    BY <1>2, <1>6, <1>8, <1>14, <2>1 DEF UnreadInput
  <2>3. TakenInput' /\ Ends'
    BY <1>2, <1>7, <1>14, <2>1 DEF TakenInput, Ends
  <2> QED BY <1>10, <1>11, <2>2, <2>3 DEF FrontInv
<1>15. CASE a.field = "state"
  <2>1. /\ word'.state = a.value /\ "state" \in unread' /\ a.value \in {0, 3}
        /\ "input" \in unread' <=> "input" \in unread
        /\ "input" \notin missed' => "input" \notin missed /\ word'.input = word.input
    BY <1>1, <1>2, <1>15
  <2>2. wanted' # {2}
    BY <1>2, <1>6, <1>15
  <2>3. wanted' = {0} => Closes' \/ (wanted = {0} /\ a.value = 0)
    BY <1>2, <1>8, <1>13, <1>15
  <2>4. Closes => Closes'
    BY <1>12, <1>15
  <2>5. UnreadInput'
    BY <2>1, <2>2, <2>3, <2>4 DEF FrontInv, UnreadInput
  <2>6. t = "main" => ~Clears
    BY DEF Clears
  <2>7. t # "main" => todo'["main"] = todo["main"] /\ loaded'["main"] = loaded["main"]
    BY <1>1 DEF Threads
  <2>8. Clears => Clears'
    BY <1>1, <2>6, <2>7 DEF Clears
  <2>9. t = "main" => ~AboutToSet /\ ~AboutToSet'
    BY <1>1 DEF AboutToSet
  <2>10. t # "main" => AboutToSet' = AboutToSet
    BY <1>1, <2>7 DEF AboutToSet
  <2>11. ASSUME NEW S, CourseIn(S), a.value \in S PROVE CourseIn(S)'
    <3>1. CASE t = "main"
      BY <1>1, <2>1, <2>9, <2>11, <3>1 DEF CourseIn
    <3>2. CASE t # "main"
      BY <1>1, <2>1, <2>7, <2>10, <2>11, <3>2 DEF CourseIn
    <3> QED BY <3>1, <3>2
  <2>12. TakenInput'
    <3> SUFFICES ASSUME "input" \notin missed', "input" \notin unread' PROVE
          /\ Clears' \/ word'.input = 0
          /\ loop' # "act" => CourseIn({0, 2, 3})'
          /\ wanted' = {2} => CourseIn({1, 2})'
          /\ wanted' = {0} => CourseIn({0})' \/ Closes'
      BY DEF TakenInput
    <3>1. /\ Clears \/ word.input = 0
          /\ loop # "act" => CourseIn({0, 2, 3})
          /\ wanted = {0} => CourseIn({0}) \/ Closes
      BY <2>1 DEF FrontInv, TakenInput
    <3>2. Clears' \/ word'.input = 0
      BY <2>1, <2>8, <3>1
    <3>3. loop' # "act" => CourseIn({0, 2, 3})'
      BY <1>1, <2>1, <2>11, <3>1
    <3>4. wanted' = {0} => CourseIn({0})' \/ Closes'
      BY <2>3, <2>4, <2>11, <3>1
    <3> QED BY <2>2, <3>2, <3>3, <3>4
  <2>13. Ends'
    BY <1>2, <1>7, <1>15, <2>1 DEF Ends
  <2> QED BY <1>10, <1>11, <2>5, <2>12, <2>13 DEF FrontInv
<1> QED BY <1>2, <1>14, <1>15

\* A thread is about to make the assignments of a new request.
LEMMA QueueStep ==
  ASSUME FrontInv, NEW t \in Threads, Idle(t), NEW q, FreshQueue(q), Queue(t, q), t = "main" => loop = "step",
         UNCHANGED <<loop, readState>>
  PROVE  FrontInv'
<1>1. /\ DOMAIN todo' = Threads /\ todo'[t] = q /\ todo[t] = <<>> /\ IsQueue(q)
      /\ \A u \in Threads \ {t} : todo'[u] = todo[u]
      /\ UNCHANGED <<word, loaded, unread, wanted, missed, loop, readState>>
  BY DEF Queue, Idle, FrontInv, FrontTypes, FreshQueue
<1>2. MainQueue'
  <2>1. CASE t = "main"
    BY <1>1, <2>1 DEF MainQueue
  <2>2. CASE t # "main"
    <3>1. todo'["main"] = todo["main"]
      BY <1>1, <2>2 DEF Threads
    <3> QED BY <1>1, <3>1 DEF FrontInv, FrontTypes, MainQueue
  <2> QED BY <2>1, <2>2
<1>3. IsQueue(todo'["ui"]) /\ IsQueue(todo'["emu"])
  BY <1>1 DEF FrontInv, FrontTypes, Threads
<1>4. todo'["main"] = <<>> => loaded'["main"] = NoWord
  BY <1>1 DEF FrontInv, FrontTypes, Threads
<1>5. FrontTypes'
  BY <1>1, <1>2, <1>3, <1>4 DEF FrontInv, FrontTypes
<1>6. Fresh'
  BY <1>1 DEF FrontInv, Fresh, FreshQueue
<1>7. Closes => Closes'
  <2>1. todo[t] # <<Assign("input", 1, More)>>
    BY <1>1
  <2> QED BY <1>1, <2>1 DEF Closes
<1>8. UnreadInput'
  BY <1>1, <1>7 DEF FrontInv, UnreadInput
<1>9. t # "main" => todo'["main"] = todo["main"]
  BY <1>1 DEF Threads
<1>10. AboutToSet' = AboutToSet /\ (Clears => Clears')
  BY <1>1, <1>9 DEF AboutToSet, Clears
<1>11. AboutToSet => t # "main"
  BY DEF AboutToSet
<1>12. ASSUME NEW S, CourseIn(S) PROVE CourseIn(S)'
  BY <1>1, <1>9, <1>10, <1>11, <1>12 DEF CourseIn
<1>13. TakenInput'
  BY <1>1, <1>7, <1>10, <1>12 DEF FrontInv, TakenInput
<1>14. Ends'
  BY <1>1, <1>10 DEF FrontInv, Ends
<1> QED BY <1>5, <1>6, <1>8, <1>13, <1>14 DEF FrontInv
-----------------------------------------------------------------------------
(* The loop                                                                *)

\* Where the loop goes does not matter to who writes: a step of the loop that writes nothing.
LEMMA LoopStep ==
  ASSUME FrontInv, UNCHANGED <<word, loaded, wanted, missed>>, FrontTypes',
         \A t \in Threads \ {"main"} : todo'[t] = todo[t], todo["main"] = <<>>,
         todo'["main"] # <<>> => Head(todo'["main"]).asks # More,
         "input" \in unread' => "input" \in unread,
         TakenInput', Ends'
  PROVE  FrontInv'
<1>1. Fresh'
  BY DEF FrontInv, Fresh
<1>2. Closes => Closes'
  BY DEF Closes
<1>3. UnreadInput'
  BY <1>2 DEF FrontInv, UnreadInput
<1> QED BY <1>1, <1>3 DEF FrontInv

\* What the main thread has taken, when it is about to write nothing.
LEMMA TakenAtRest ==
  ASSUME FrontInv, todo["main"] = <<>>, "input" \notin missed, "input" \notin unread
  PROVE  LET course == IF loop = "index" THEN readState ELSE word.state IN
         /\ word.input = 0
         /\ loop # "act" => course # 1 /\ (wanted = {2} => course = 2)
         /\ wanted = {2} => course \in {1, 2}
         /\ wanted = {0} => course = 0 \/ Closes
<1>1. ~AboutToSet /\ ~Clears
  BY DEF AboutToSet, Clears
<1>2. /\ loop # "act" => CourseIn({0, 2, 3})
      /\ wanted = {2} => CourseIn({1, 2})
      /\ wanted = {0} => CourseIn({0}) \/ Closes
      /\ word.input = 0
  BY <1>1 DEF FrontInv, TakenInput
<1> DEFINE course == IF loop = "index" THEN readState ELSE word.state
<1>3. \A S : CourseIn(S) => course \in S
  BY <1>1 DEF CourseIn
<1> HIDE DEF course
<1>4. loop # "act" => course \in {0, 2, 3}
  BY <1>2, <1>3
<1>5. wanted = {2} => course \in {1, 2}
  BY <1>2, <1>3
<1>6. wanted = {0} => course = 0 \/ Closes
  <2>1. CourseIn({0}) => course \in {0}
    BY <1>3
  <2> QED BY <1>2, <2>1
<1> QED BY <1>2, <1>4, <1>5, <1>6 DEF course

\* The loop's test reads the state: the loop is over only when it asks for the end.
LEMMA LoopTestStep == FrontInv /\ LoopTest => FrontInv'
<1> SUFFICES ASSUME FrontInv, LoopTest PROVE FrontInv'
  OBVIOUS
<1>1. /\ loop = "test" /\ todo["main"] = <<>>
      /\ loop' = (IF word.state = 3 THEN "over" ELSE "index") /\ readState' = word.state
      /\ unread' = unread \ {"state"} /\ UNCHANGED <<word, todo, loaded, wanted, missed>>
  BY DEF LoopTest, At, Idle
<1>2. FrontTypes'
  BY <1>1 DEF FrontInv, FrontTypes, MainQueue, Word
<1>3. TakenInput'
  <2> SUFFICES ASSUME "input" \notin missed, "input" \notin unread PROVE TakenInput'
    BY <1>1 DEF TakenInput
  <2>1. /\ word.input = 0 /\ word.state # 1 /\ (wanted = {2} => word.state = 2)
        /\ wanted = {0} => word.state = 0 \/ Closes
    BY <1>1, TakenAtRest
  <2>2. word.state \in 0 .. 3
    BY DEF FrontInv, FrontTypes, Word
  <2>3. \A S : word.state \in S => CourseIn(S)'
    BY <1>1 DEF CourseIn, AboutToSet
  <2>4. CourseIn({0, 2, 3})' /\ (wanted = {2} => CourseIn({1, 2})') /\ (wanted = {0} => CourseIn({0})' \/ Closes)
    BY <2>1, <2>2, <2>3
  <2>5. Closes' = Closes
    BY <1>1 DEF Closes
  <2> QED BY <1>1, <2>1, <2>4, <2>5 DEF TakenInput
<1>4. Ends'
  BY <1>1 DEF FrontInv, Ends, AboutToSet
<1> QED BY <1>1, <1>2, <1>3, <1>4, LoopStep

\* The states KSSDFAST leads to: an input that was taken does not lead to another than it asks for.
LEMMA NextState ==
  ASSUME NEW s \in 0 .. 2, NEW i \in 0 .. 2
  PROVE  LET v == KSSDFAST[4 * s + i + 1] IN
         v \in 0 .. 2 /\ (i = 0 => v = s) /\ (i = 1 => v = 0) /\ (i = 2 => v \in {1, 2})
<1>1. KSSDFAST[1] = 0 /\ KSSDFAST[2] = 0 /\ KSSDFAST[3] = 1
  BY DEF KSSDFAST
<1>2. KSSDFAST[5] = 1 /\ KSSDFAST[6] = 0 /\ KSSDFAST[7] = 1
  BY DEF KSSDFAST
<1>3. KSSDFAST[9] = 2 /\ KSSDFAST[10] = 0 /\ KSSDFAST[11] = 2
  BY DEF KSSDFAST
<1>4. CASE s = 0
  <2>1. 4 * s + i + 1 = i + 1
    BY <1>4
  <2> QED BY <1>1, <1>4, <2>1
<1>5. CASE s = 1
  <2>1. 4 * s + i + 1 = i + 5
    BY <1>5
  <2> QED BY <1>2, <1>5, <2>1
<1>6. CASE s = 2
  <2>1. 4 * s + i + 1 = i + 9
    BY <1>6
  <2> QED BY <1>3, <1>6, <2>1
<1> QED BY <1>4, <1>5, <1>6

\* The loop looks up the transition for the state and the input it read.
LEMMA LoopIndexStep == FrontInv /\ LoopIndex => FrontInv'
<1> SUFFICES ASSUME FrontInv, LoopIndex PROVE FrontInv'
  OBVIOUS
<1> DEFINE v == KSSDFAST[4 * readState + word.input + 1]
<1>1. "main" \in Threads
  BY DEF Threads
<1>2. /\ loop = "index" /\ todo["main"] = <<>> /\ loop' = "act" /\ unread' = unread \ {"input"}
      /\ todo' = [todo EXCEPT !["main"] = <<Own("state", v), TakesInput>>]
      /\ UNCHANGED <<word, loaded, wanted, missed, readState>>
  BY DEF LoopIndex, At, Idle, TakesInput
<1>3. readState \in 0 .. 2 /\ word.input \in 0 .. 2
  BY <1>2 DEF FrontInv, FrontTypes, Word
<1>4. v \in 0 .. 2 /\ (word.input = 0 => v = readState) /\ (word.input = 1 => v = 0) /\ (word.input = 2 => v \in {1, 2})
  BY <1>3, NextState
<1> HIDE DEF v
<1>5. /\ DOMAIN todo' = Threads /\ todo'["main"] = <<Own("state", v), TakesInput>>
      /\ \A t \in Threads \ {"main"} : todo'[t] = todo[t]
  BY <1>1, <1>2 DEF FrontInv, FrontTypes
<1>6. todo'["main"] # <<>> /\ Head(todo'["main"]) = Own("state", v)
  BY <1>5
<1>7. FrontTypes'
  <2>1. MainQueue'
    BY <1>2, <1>4, <1>5 DEF MainQueue
  <2>2. IsQueue(todo'["ui"]) /\ IsQueue(todo'["emu"])
    BY <1>5 DEF FrontInv, FrontTypes, Threads
  <2> QED BY <1>2, <1>5, <1>6, <2>1, <2>2 DEF FrontInv, FrontTypes
<1>8. AboutToSet' /\ Head(todo'["main"]).value = v /\ Head(todo'["main"]).asks # More
  BY <1>2, <1>6 DEF AboutToSet, Own, Assign, OwnField, More
<1>9. \A S : v \in S => CourseIn(S)'
  BY <1>2, <1>8 DEF CourseIn
<1>10. TakenInput'
  <2> SUFFICES ASSUME "input" \notin missed PROVE TakenInput'
    BY <1>2 DEF TakenInput
  <2>1. Clears'
    BY <1>2, <1>6 DEF Clears
  <2>2. Closes => Closes'
    BY <1>2, <1>5 DEF Closes
  <2>3. CASE "input" \in unread
    <3>1. /\ wanted = {2} => word.input = 2
          /\ wanted = {0} => word.input = 1 \/ Closes
      BY <2>3 DEF FrontInv, UnreadInput
    <3> QED BY <1>2, <1>4, <1>9, <2>1, <2>2, <3>1 DEF TakenInput
  <2>4. CASE "input" \notin unread
    <3>1. /\ word.input = 0
          /\ wanted = {2} => readState \in {1, 2}
          /\ wanted = {0} => readState = 0 \/ Closes
      BY <1>2, <2>4, TakenAtRest
    <3> QED BY <1>2, <1>4, <1>9, <2>1, <2>2, <3>1 DEF TakenInput
  <2> QED BY <2>3, <2>4
<1>11. Ends'
  BY <1>2 DEF FrontInv, Ends
<1> QED BY <1>2, <1>5, <1>7, <1>8, <1>10, <1>11, LoopStep

\* The loop takes the input it has read, or goes on to its own assignments.
LEMMA LoopActStep == FrontInv /\ LoopAct => FrontInv'
<1> SUFFICES ASSUME FrontInv, LoopAct PROVE FrontInv'
  OBVIOUS
<1>1. "main" \in Threads
  BY DEF Threads
<1>2. /\ loop = "act" /\ todo["main"] = <<>>
      /\ loop' = CASE word.state = 0 -> "step" [] word.state = 1 -> "begin" [] OTHER -> "test"
      /\ todo' = [todo EXCEPT !["main"] = IF word.state = 1 THEN <<Own("state", 2)>> ELSE <<>>]
      /\ unread' = unread \ {"state"} /\ UNCHANGED <<word, loaded, wanted, missed, readState>>
  BY DEF LoopAct, At, Idle
<1>3. /\ DOMAIN todo' = Threads /\ todo'["main"] = IF word.state = 1 THEN <<Own("state", 2)>> ELSE <<>>
      /\ \A t \in Threads \ {"main"} : todo'[t] = todo[t]
  BY <1>1, <1>2 DEF FrontInv, FrontTypes
<1>4. word.state \in 0 .. 3
  BY DEF FrontInv, FrontTypes, Word
<1>5. \/ word.state = 0 /\ loop' = "step" /\ todo'["main"] = <<>>
      \/ word.state = 1 /\ loop' = "begin" /\ todo'["main"] = <<Own("state", 2)>>
      \/ word.state \in {2, 3} /\ loop' = "test" /\ todo'["main"] = <<>>
  BY <1>2, <1>3, <1>4
<1>6. FrontTypes'
  <2>1. MainQueue'
    BY <1>5, RequestAssigns DEF MainQueue, FreshQueue
  <2>2. IsQueue(todo'["ui"]) /\ IsQueue(todo'["emu"])
    BY <1>3 DEF FrontInv, FrontTypes, Threads
  <2>3. loaded'["main"] = NoWord
    BY <1>2 DEF FrontInv, FrontTypes
  <2> QED BY <1>2, <1>3, <1>5, <2>1, <2>2, <2>3 DEF FrontInv, FrontTypes
<1>7. Head(<<Own("state", 2)>>) = Own("state", 2) /\ <<Own("state", 2)>> # <<>>
  OBVIOUS
<1>8. todo'["main"] # <<>> => Head(todo'["main"]).asks # More
  BY <1>5, <1>7 DEF Own, Assign, OwnField, More
<1>9. Closes => Closes'
  BY <1>2, <1>3 DEF Closes
<1>10. TakenInput'
  <2> SUFFICES ASSUME "input" \notin missed, "input" \notin unread PROVE TakenInput'
    BY <1>2 DEF TakenInput
  <2>1. /\ word.input = 0
        /\ wanted = {2} => word.state \in {1, 2}
        /\ wanted = {0} => word.state = 0 \/ Closes
    BY <1>2, TakenAtRest
  <2>2. CASE word.state = 1
    <3>1. AboutToSet' /\ Head(todo'["main"]).value = 2
      BY <1>5, <1>7, <2>2 DEF AboutToSet, Own, Assign
    <3>2. \A S : 2 \in S => CourseIn(S)'
      BY <1>5, <2>2, <3>1 DEF CourseIn
    <3>3. CourseIn({0, 2, 3})' /\ CourseIn({1, 2})'
      BY <3>2
    <3> QED BY <1>2, <1>9, <2>1, <2>2, <3>3 DEF TakenInput
  <2>3. CASE word.state # 1
    <3>1. ~AboutToSet' /\ loop' \in {"step", "test"}
      BY <1>5, <2>3 DEF AboutToSet
    <3>2. \A S : word.state \in S => CourseIn(S)'
      BY <1>2, <3>1 DEF CourseIn
    <3>3. CourseIn({0, 2, 3})' /\ (wanted = {2} => CourseIn({1, 2})') /\ (wanted = {0} => CourseIn({0})' \/ Closes)
      BY <1>4, <2>1, <2>3, <3>2
    <3> QED BY <1>2, <1>9, <2>1, <3>3 DEF TakenInput
  <2> QED BY <2>2, <2>3
<1>11. Ends'
  <2>1. word.state = 3 => ~AboutToSet' /\ loop' # "index"
    BY <1>5 DEF AboutToSet
  <2> QED BY <1>2, <2>1 DEF FrontInv, Ends
<1> QED BY <1>2, <1>3, <1>6, <1>8, <1>10, <1>11, LoopStep

\* The loop goes on and reads nothing.
LEMMA LoopOnStep ==
  ASSUME FrontInv, loop \in {"begin", "step"}, loop' = "test", todo["main"] = <<>>,
         UNCHANGED <<word, todo, loaded, unread, wanted, missed, readState>>
  PROVE  FrontInv'
<1>1. FrontTypes'
  BY DEF FrontInv, FrontTypes, MainQueue
<1>2. ~AboutToSet /\ ~AboutToSet' /\ ~Clears /\ Closes' = Closes
  BY DEF AboutToSet, Clears, Closes
<1>3. ASSUME NEW S, CourseIn(S) PROVE CourseIn(S)'
  BY <1>2, <1>3 DEF CourseIn
<1>4. TakenInput'
  BY <1>2, <1>3 DEF FrontInv, TakenInput
<1>5. Ends'
  BY <1>2 DEF FrontInv, Ends
<1> QED BY <1>1, <1>4, <1>5, LoopStep

\* Nothing of the word and the loop changes.
LEMMA IdleStep ==
  ASSUME FrontInv, UNCHANGED <<frontWord, loop, readState>>
  PROVE  FrontInv'
BY DEF FrontInv, frontWord, FrontTypes, MainQueue, Fresh, UnreadInput, TakenInput, Ends, Closes, Clears, AboutToSet, CourseIn

\* Nothing is asked for at the start.
LEMMA InitFrontInv == FrontInit => FrontInv
<1> SUFFICES ASSUME FrontInit PROVE FrontInv
  OBVIOUS
<1>1. /\ word = [state |-> 0, input |-> 0] /\ \A t \in Threads : todo[t] = <<>> /\ loaded[t] = NoWord
      /\ DOMAIN todo = Threads /\ loaded \in [Threads -> {NoWord}]
      /\ loop = "test" /\ readState = 0 /\ unread = {} /\ wanted = {0} /\ missed = {}
  BY DEF FrontInit
<1>2. FrontTypes
  <2>1. word \in Word
    BY <1>1 DEF Word
  <2>2. IsQueue(<<>>)
    BY RequestAssigns DEF FreshQueue
  <2> QED BY <1>1, <2>1, <2>2 DEF FrontTypes, MainQueue, Threads
<1>3. Fresh /\ UnreadInput
  BY <1>1 DEF Fresh, UnreadInput
<1>4. ~AboutToSet
  BY <1>1 DEF AboutToSet, Threads
<1>5. CourseIn({0, 2, 3}) /\ CourseIn({0})
  BY <1>1, <1>4 DEF CourseIn
<1>6. TakenInput
  BY <1>1, <1>5, WantedSets DEF TakenInput
<1>7. Ends
  BY <1>1, WantedSets DEF Ends
<1> QED BY <1>2, <1>3, <1>6, <1>7 DEF FrontInv

\* Every step of a thread keeps the invariant.
LEMMA NextFrontInv == FrontInv /\ [FrontNext]_frontVars => FrontInv'
<1> SUFFICES ASSUME FrontInv, [FrontNext]_frontVars PROVE FrontInv'
  OBVIOUS
<1>1. {"main", "ui", "emu"} = Threads
  BY DEF Threads
<1>2. ASSUME NEW t \in Threads, LoadWord(t) PROVE FrontInv'
  BY <1>2, LoadStep
<1>3. ASSUME NEW t \in Threads, StoreWord(t) PROVE FrontInv'
  <2>1. CASE t = "main" /\ loop \in {"act", "begin"}
    BY <1>3, <2>1, OwnStoreStep
  <2>2. CASE ~(t = "main" /\ loop \in {"act", "begin"})
    <3>1. t = "main" => loop = "step"
      BY <1>3, <2>2 DEF StoreWord, Idle, FrontInv, FrontTypes, MainQueue
    <3> QED BY <1>3, <3>1, RequestStoreStep
  <2> QED BY <2>1, <2>2
<1>4. CASE LoopTest  BY <1>4, LoopTestStep
<1>5. CASE LoopIndex  BY <1>5, LoopIndexStep
<1>6. CASE LoopAct  BY <1>6, LoopActStep
<1>7. CASE GameCallback \/ StepReadsAll
  BY <1>7, LoopOnStep DEF GameCallback, StepReadsAll, At, Idle, frontWord
<1>8. CASE StepTakes
  <2>1. loop = "step" /\ Idle("main") /\ UNCHANGED <<loop, readState>> /\ (Queue("main", START) \/ Queue("main", END))
    BY <1>8 DEF StepTakes, At
  <2> QED BY <1>1, <2>1, RequestAssigns, QueueStep
<1>9. CASE PlayRecording \/ StopRecording \/ LeaveRoom \/ DropGame \/ DialogEnds \/ GuiThreadEnds
  <2>1. /\ Idle("ui") /\ UNCHANGED <<loop, readState>>
        /\ \E q \in {START, END, END \o END, CLOSE, <<Assign("state", 3, 3)>>} : Queue("ui", q)
    BY <1>9 DEF PlayRecording, StopRecording, LeaveRoom, DropGame, DialogEnds, GuiThreadEnds, Shows
  <2>2. PICK q \in {START, END, END \o END, CLOSE, <<Assign("state", 3, 3)>>} : Queue("ui", q)
    BY <2>1
  <2>3. FreshQueue(q)
    BY RequestAssigns
  <2> QED BY <1>1, <2>1, <2>2, <2>3, QueueStep
<1>10. CASE CloseRoom
  <2>1. (IF word.state # 0 THEN END \o END ELSE <<>>) \o CLOSE \in {END \o END \o CLOSE, CLOSE}
    <3>1. <<>> \o CLOSE = CLOSE
      BY RequestAssigns, ConcatEmptySeq DEF FreshQueue, IsQueue
    <3> QED BY <3>1
  <2>2. PICK q \in {END \o END \o CLOSE, CLOSE} : Queue("ui", q)
    BY <1>10, <2>1 DEF CloseRoom
  <2>3. FreshQueue(q)
    BY RequestAssigns
  <2>4. Idle("ui") /\ UNCHANGED <<loop, readState>>
    BY <1>10 DEF CloseRoom, Shows
  <2> QED BY <1>1, <2>2, <2>3, <2>4, QueueStep
<1>11. CASE EmulatorEnds
  <2>1. PICK q \in {END, END \o END} : Queue("emu", q)
    BY <1>11 DEF EmulatorEnds
  <2>2. FreshQueue(q) /\ Idle("emu") /\ UNCHANGED <<loop, readState>>
    BY <1>11, RequestAssigns DEF EmulatorEnds
  <2> QED BY <1>1, <2>1, <2>2, QueueStep
<1>12. CASE Connect \/ UNCHANGED frontVars
  BY <1>12, IdleStep DEF Connect, frontVars
<1> QED BY <1>2, <1>3, <1>4, <1>5, <1>6, <1>7, <1>8, <1>9, <1>10, <1>11, <1>12 DEF FrontNext

\* For any number of requests and rooms: once nobody is writing and the loop has taken the input,
\* KSSDFA is what the last request asks for, unless one of its fields was written while the loop
\* was between reading and storing it.
THEOREM SpecLoopFollowsRequests == FrontSpec => []LoopFollowsRequests
<1>1. FrontInv => LoopFollowsRequests
  <2> SUFFICES ASSUME FrontInv, loop = "test", \A t \in Threads : Idle(t), word.input = 0
               PROVE  \/ word.state \in wanted
                      \/ wanted # {3} /\ "input" \in missed
                      \/ wanted = {3} /\ "state" \in missed
    BY DEF LoopFollowsRequests
  <2>1. todo["main"] = <<>> /\ ~Closes /\ word.state \in 0 .. 3 /\ wanted \in {{0}, {2}, {3}, {0, 2, 3}}
    BY DEF Idle, Threads, Closes, FrontInv, FrontTypes, Word
  <2>2. CASE wanted = {3} /\ "state" \notin missed
    BY <2>2 DEF FrontInv, Ends
  <2>3. CASE wanted # {3} /\ "input" \notin missed
    <3>1. "input" \notin unread
      BY <2>3 DEF FrontInv, UnreadInput
    <3>2. /\ word.state # 1 /\ (wanted = {2} => word.state = 2)
          /\ wanted = {0} => word.state = 0
      BY <2>1, <2>3, <3>1, TakenAtRest
    <3> QED BY <2>1, <2>3, <3>2
  <2> QED BY <2>2, <2>3
<1> QED BY <1>1, InitFrontInv, NextFrontInv, PTL DEF FrontSpec
-----------------------------------------------------------------------------
\* The host's Ready and the account check.

\* A host that is ready while somebody is connected has that one's account checked, so what the check
\* found has been sent before the Ready; or the ISO's check ended, in this connection, while the
\* account's went on, and set the Ready.
ReadyAfterCheck == (connected["host"] /\ ready["host"]) => check \in {Confirmed, NotConfirmed} \/ hasty

ReadyTypes ==
  /\ ready \in [Sides -> BOOLEAN] /\ box \in [Sides -> BOOLEAN] /\ connected \in [Sides -> BOOLEAN]
  /\ hasty \in BOOLEAN
  /\ check \in {NotAsked, AccountAsked, Checking, Confirmed, NotConfirmed}

\* The host is ready only with its box checked, while a check goes on only if the ISO's has ended, and
\* the check goes with the connection.
ReadyWaits ==
  /\ ready["host"] => box["host"]
  /\ check \in {AccountAsked, Checking} => ~ready["host"] \/ hasty
  /\ connected["host"] <=> check # NotAsked
ReadyInv == ReadyTypes /\ ReadyWaits

LEMMA InitReadyInv == P2PLobbyInit => ReadyInv
<1> SUFFICES ASSUME P2PLobbyInit PROVE ReadyInv
  OBVIOUS
<1>1. /\ ready = [p \in Sides |-> FALSE] /\ box = [p \in Sides |-> FALSE] /\ connected = [p \in Sides |-> FALSE]
      /\ check = NotAsked /\ "host" \in Sides /\ NotAsked \notin {AccountAsked, Checking}
  BY DEF P2PLobbyInit, Sides, NotAsked, AccountAsked, Checking
<1>2. hasty \in BOOLEAN
  BY Zenon DEF P2PLobbyInit
<1> QED BY <1>1, <1>2 DEF ReadyInv, ReadyTypes, ReadyWaits

ReadyStands == UNCHANGED <<ready, box, connected, check, hasty>>
LEMMA StandingStep == ASSUME ReadyInv, ReadyStands PROVE ReadyInv'
BY DEF ReadyStands, ReadyInv, ReadyTypes, ReadyWaits

LEMMA CheckValues ==
  /\ NotAsked = -1 /\ AccountAsked = 0 /\ Checking = 1 /\ Confirmed = 2 /\ NotConfirmed = 3
  /\ "host" \in Sides /\ "client" \in Sides
BY DEF NotAsked, AccountAsked, Checking, Confirmed, NotConfirmed, Sides

\* p is not ready any more, whatever became of its box.
LEMMA TakenBackStep ==
  ASSUME ReadyInv, NEW p \in Sides, ready' = [ready EXCEPT ![p] = FALSE],
         box' = box \/ box' = [box EXCEPT ![p] = FALSE], UNCHANGED <<connected, check, hasty>>
  PROVE  ReadyInv'
BY CheckValues DEF ReadyInv, ReadyTypes, ReadyWaits

\* Whoever comes or goes is not ready and not connected, and the check is forgotten.
LEMMA ComingStep ==
  ASSUME ReadyInv, NEW p \in Sides, NEW phase1, FreshCore(p, phase1), FreshCards(p), hasty' = hasty
  PROVE  ReadyInv'
BY CheckValues DEF ReadyInv, ReadyTypes, ReadyWaits, FreshCore, FreshCards, Sides

LEMMA LosePeerStep ==
  ASSUME ReadyInv, NEW p \in Sides, NEW rest, NEW forget, LosePeer(p, rest, forget)
  PROVE  ReadyInv'
<1>1. /\ box' = box /\ connected' = [connected EXCEPT ![p] = FALSE] /\ FreshCards(p) /\ hasty' = hasty
      /\ ready' = ready \/ ready' = [ready EXCEPT ![p] = FALSE]
      /\ p = "host" => ready' = [ready EXCEPT ![p] = FALSE]
  BY DEF LosePeer, lobbyPast
<1> QED BY <1>1, CheckValues DEF ReadyInv, ReadyTypes, ReadyWaits, FreshCards, Sides

\* A new connection begins with no check.
LEMMA ReadRequestStep == ASSUME ReadyInv, ReadRequest PROVE ReadyInv'
<1>1. UNCHANGED <<ready, box, connected, check>>
  BY DEF ReadRequest, lobbyCards
<1>2. CASE ~connected["host"] /\ ping["host"] = -1
  <2>1. hasty' \in BOOLEAN
    BY <1>2, Zenon DEF ReadRequest
  <2>2. check = NotAsked /\ check' \notin {AccountAsked, Checking}
    BY <1>1, <1>2, CheckValues DEF ReadyInv, ReadyWaits
  <2> QED BY <1>1, <2>1, <2>2 DEF ReadyInv, ReadyTypes, ReadyWaits
<1>3. CASE ~(~connected["host"] /\ ping["host"] = -1)
  <2>1. hasty' = hasty
    BY <1>3 DEF ReadRequest, lobbyPast
  <2> QED BY <1>1, <2>1, StandingStep DEF ReadyStands
<1> QED BY <1>2, <1>3

LEMMA ReadReplyStep == ASSUME ReadyInv, NEW p \in Sides, ReadReply(p) PROVE ReadyInv'
<1>1. box' = box /\ connected' = [connected EXCEPT ![p] = TRUE] /\ hasty' = hasty
  BY DEF ReadReply, lobbyPast
<1>2. CASE p = "host"
  <2>1. ready' = [ready EXCEPT !["host"] = FALSE] /\ check' = AccountAsked
    BY <1>2 DEF ReadReply, HoldReady
  <2> QED BY <1>1, <1>2, <2>1, CheckValues DEF ReadyInv, ReadyTypes, ReadyWaits
<1>3. CASE p # "host"
  <2>1. ready' = ready /\ check' = check
    BY <1>3 DEF ReadReply
  <2> QED BY <1>1, <1>3, <2>1, CheckValues DEF ReadyInv, ReadyTypes, ReadyWaits
<1> QED BY <1>2, <1>3

\* The ISO's check takes the Ready back before it begins.
LEMMA HearChoiceStep == ASSUME ReadyInv, NEW p \in Sides, HearChoice(p) PROVE ReadyInv'
<1>1. UNCHANGED <<box, connected, check, hasty>>
  BY DEF HearChoice, TakesLine
<1>2. ready' = ready \/ ready' = [ready EXCEPT ![p] = FALSE]
  BY DEF HearChoice
<1> QED BY <1>1, <1>2, StandingStep, TakenBackStep DEF ReadyStands

\* A ticket that comes after the time-out takes the Ready back before it is checked.
LEMMA HearAnswerStep == ASSUME ReadyInv, HearAnswer PROVE ReadyInv'
<1> DEFINE late == Head(chats["host"]).arg # 0 /\ phase["host"] = "lobby" /\ check = NotConfirmed
<1>1. box' = box /\ connected' = connected /\ hasty' = hasty
  BY DEF HearAnswer, TakesLine
<1>2. IF check = AccountAsked \/ late THEN check' = Checking ELSE check' = check
  BY DEF HearAnswer
<1>3. IF late /\ box["host"] THEN ready' = [ready EXCEPT !["host"] = FALSE] ELSE ready' = ready
  BY DEF HearAnswer
<1>4. late => check = NotConfirmed
  OBVIOUS
<1> HIDE DEF late
<1>5. CASE check = AccountAsked
  <2>1. check' = Checking /\ ready' = ready /\ (~ready["host"] \/ hasty)
    BY <1>2, <1>3, <1>4, <1>5, CheckValues DEF ReadyInv, ReadyWaits
  <2> QED BY <1>1, <1>5, <2>1, CheckValues DEF ReadyInv, ReadyTypes, ReadyWaits
<1>6. CASE late
  <2>1. check' = Checking /\ check # NotAsked
    BY <1>2, <1>4, <1>6, CheckValues
  <2>2. CASE box["host"]
    <3>1. ready' = [ready EXCEPT !["host"] = FALSE]
      BY <1>3, <1>6, <2>2
    <3> QED BY <1>1, <2>1, <3>1, CheckValues DEF ReadyInv, ReadyTypes, ReadyWaits
  <2>3. CASE ~box["host"]
    <3>1. ready' = ready /\ ~ready["host"]
      BY <1>3, <2>3 DEF ReadyInv, ReadyWaits
    <3> QED BY <1>1, <2>1, <3>1, CheckValues DEF ReadyInv, ReadyTypes, ReadyWaits
  <2> QED BY <2>2, <2>3
<1>7. CASE ~(check = AccountAsked \/ late)
  <2>1. check' = check /\ ready' = ready
    BY <1>2, <1>3, <1>7
  <2> QED BY <1>1, <2>1, StandingStep DEF ReadyStands
<1> QED BY <1>5, <1>6, <1>7

\* What the host's dialog does when the check ends.
LEMMA CheckEndsStep ==
  ASSUME ReadyInv, NEW c \in {Confirmed, NotConfirmed}, CheckEnds(c), check # NotAsked,
         box' = box, connected' = connected, hasty' = hasty
  PROVE  ReadyInv'
<1>1. PICK goes \in BOOLEAN : AfterCheck(c, goes)
  BY DEF CheckEnds
<1>2. check' = c /\ (goes => box["host"])
  BY <1>1, Zenon DEF AfterCheck
<1>3. CASE goes
  <2>1. ready' = [ready EXCEPT !["host"] = TRUE]
    BY <1>1, <1>3 DEF AfterCheck
  <2> QED BY <1>2, <1>3, <2>1, CheckValues DEF ReadyInv, ReadyTypes, ReadyWaits
<1>4. CASE ~goes
  <2>1. ready' = ready
    BY <1>1, <1>4 DEF AfterCheck
  <2> QED BY <1>2, <2>1, CheckValues DEF ReadyInv, ReadyTypes, ReadyWaits
<1> QED BY <1>3, <1>4

LEMMA VerdictStep == ASSUME ReadyInv, NEW v, Verdict(v) PROVE ReadyInv'
<1>1. box' = box /\ connected' = connected /\ hasty' = hasty
  BY DEF Verdict
<1>2. CASE check # Checking
  <2>1. ready' = ready /\ check' = check
    BY <1>2 DEF Verdict
  <2> QED BY <1>1, <2>1, StandingStep DEF ReadyStands
<1>3. CASE check = Checking
  <2>1. CheckEnds(Confirmed) \/ CheckEnds(NotConfirmed)
    BY <1>3 DEF Verdict
  <2> QED BY <1>1, <1>3, <2>1, CheckValues, CheckEndsStep
<1> QED BY <1>2, <1>3

LEMMA CheckTimeoutStep == ASSUME ReadyInv, CheckTimeout PROVE ReadyInv'
<1>1. box' = box /\ connected' = connected /\ hasty' = hasty /\ check = AccountAsked /\ CheckEnds(NotConfirmed)
  BY DEF CheckTimeout, lobbyPast
<1> QED BY <1>1, CheckValues, CheckEndsStep

\* The ISO's check ends: it takes the Ready back with the box, or sets it and says so when the
\* account's check goes on.
LEMMA IsoCheckDoneStep == ASSUME ReadyInv, IsoCheckDone PROVE ReadyInv'
<1>1. connected' = connected /\ check' = check
  BY DEF IsoCheckDone
<1>2. CASE box["host"] /\ (phase["host"] = "lobby" \/ quits["host"])
  <2>1. PICK free \in BOOLEAN :
          /\ box' = [box EXCEPT !["host"] = free] /\ ready' = [ready EXCEPT !["host"] = free]
          /\ hasty' = (hasty \/ (free /\ check \in {AccountAsked, Checking}))
    BY <1>2 DEF IsoCheckDone
  <2>2. hasty' \in BOOLEAN
    BY <2>1, Zenon
  <2>3. box' \in [Sides -> BOOLEAN] /\ ready' \in [Sides -> BOOLEAN]
    BY <2>1 DEF ReadyInv, ReadyTypes
  <2>4. ReadyTypes'
    BY <1>1, <2>2, <2>3 DEF ReadyInv, ReadyTypes
  <2>5. CASE free
    <3>1. box'["host"] /\ ready'["host"]
      BY <2>1, <2>5, CheckValues DEF ReadyInv, ReadyTypes
    <3>2. check \in {AccountAsked, Checking} => hasty'
      BY <2>1, <2>5
    <3> QED BY <1>1, <2>4, <3>1, <3>2, CheckValues DEF ReadyInv, ReadyWaits
  <2>6. CASE ~free
    <3>1. ~ready'["host"]
      BY <2>1, <2>6, CheckValues DEF ReadyInv, ReadyTypes
    <3> QED BY <1>1, <2>4, <3>1, CheckValues DEF ReadyInv, ReadyWaits
  <2> QED BY <2>5, <2>6
<1>3. CASE ~(box["host"] /\ (phase["host"] = "lobby" \/ quits["host"]))
  <2>1. UNCHANGED <<box, ready, hasty>>
    BY <1>3 DEF IsoCheckDone
  <2> QED BY <1>1, <2>1, StandingStep DEF ReadyStands
<1> QED BY <1>2, <1>3

\* The host's click is held while a check goes on.
LEMMA ClickReadyStep == ASSUME ReadyInv, NEW p \in Sides, ClickReady(p) PROVE ReadyInv'
<1> DEFINE on == ~box[p]
           waits == on /\ p = "host" /\ check \in {AccountAsked, Checking}
           isos == on /\ p = "host" /\ ~waits /\ WaitsForIso(check)
<1>1. /\ box' = [box EXCEPT ![p] = on] /\ connected' = connected /\ check' = check /\ hasty' = hasty
      /\ IF waits \/ isos THEN ready' = ready ELSE ready' = [ready EXCEPT ![p] = on]
  BY DEF ClickReady
<1>2. on \in BOOLEAN
  OBVIOUS
<1>3. waits = (on /\ p = "host" /\ check \in {AccountAsked, Checking}) /\ (isos => on)
  OBVIOUS
<1>4. ReadyTypes'
  <2>1. box' \in [Sides -> BOOLEAN]
    BY <1>1, <1>2 DEF ReadyInv, ReadyTypes
  <2>2. ready' \in [Sides -> BOOLEAN]
    <3>1. ready' = ready \/ ready' = [ready EXCEPT ![p] = on]
      BY <1>1
    <3> QED BY <1>2, <3>1 DEF ReadyInv, ReadyTypes
  <2> QED BY <1>1, <2>1, <2>2 DEF ReadyInv, ReadyTypes
<1> HIDE DEF waits, isos
<1>5. CASE p = "host"
  <2>1. box'["host"] = on /\ (ready'["host"] = IF waits \/ isos THEN ready["host"] ELSE on)
    BY <1>1, <1>5, CheckValues DEF ReadyInv, ReadyTypes
  <2> HIDE DEF on
  <2>2. on <=> ~box["host"]
    BY <1>5 DEF on
  <2>3. ReadyWaits'
    BY <1>1, <1>3, <1>5, <2>1, <2>2, CheckValues DEF ReadyInv, ReadyWaits
  <2> QED BY <1>4, <2>3 DEF ReadyInv
<1>6. CASE p # "host"
  <2>1. box'["host"] = box["host"] /\ ready'["host"] = ready["host"]
    BY <1>1, <1>6, CheckValues DEF ReadyInv, ReadyTypes
  <2> QED BY <1>1, <1>4, <2>1 DEF ReadyInv, ReadyWaits
<1> QED BY <1>5, <1>6

LEMMA GameOverStep == ASSUME ReadyInv, NEW p \in Sides, GameOver(p) PROVE ReadyInv'
<1>1. /\ ready' = [ready EXCEPT ![p] = FALSE] /\ box' = [box EXCEPT ![p] = FALSE]
      /\ connected' = connected /\ check' = check /\ hasty' = hasty
  BY DEF GameOver, lobbyCards
<1> QED BY <1>1, TakenBackStep

\* Everything else leaves the Ready, the box and the check alone.
LEMMA LobbyStands ==
  \/ HearAccounts \/ HearQuestion \/ SendAnswer
  \/ PingReturns \/ PingComes \/ Adjust \/ Check \/ DelayComes \/ StartComes \/ UNCHANGED p2pLobbyVars
  => ReadyStands
BY DEF HearAccounts, HearQuestion, SendAnswer, PingReturns, PingComes, Adjust, Check, DelayComes,
       StartComes, GameStep, TakesLine, p2pLobbyVars, lobbyCore, lobbyCards, lobbyPast, ReadyStands

LEMMA SideStands ==
  ASSUME NEW p \in Sides
  PROVE  \/ UIPing(p) \/ ReadPing(p) \/ ReadEcho(p) \/ ReadReady(p) \/ ReadLoad(p) \/ ReadLine(p)
         \/ Ignore(p) \/ Tick(p) \/ (\E wish \in Wishes : Choose(p, wish))
         \/ Begin(p) \/ PeerLoads(p) \/ FirstFrame(p)
         => ReadyStands
BY DEF UIPing, ReadPing, ReadEcho, ReadReady, ReadLoad, ReadLine, Ignore, Tick, Choose, Begin, PeerLoads, FirstFrame,
       GameStep, lobbyCore, lobbyCards, lobbyPast, ReadyStands

LEMMA SideStep ==
  ASSUME ReadyInv, NEW p \in Sides,
         \/ Open(p) \/ Close(p) \/ ReadExit(p) \/ PeerTimeout(p) \/ ReadReply(p)
         \/ UIPing(p) \/ ReadPing(p) \/ ReadEcho(p) \/ ReadReady(p) \/ ReadLoad(p) \/ ReadLine(p) \/ Ignore(p)
         \/ HearChoice(p) \/ ClickReady(p) \/ Tick(p) \/ \E wish \in Wishes : Choose(p, wish)
         \/ Begin(p) \/ PeerLoads(p) \/ FirstFrame(p) \/ Drop(p) \/ ReadDrop(p)
  PROVE  ReadyInv'
<1>1. CASE Open(p)
  BY <1>1, ComingStep DEF Open, lobbyPast
<1>2. CASE Close(p)
  BY <1>2, ComingStep DEF Close, lobbyPast
<1>3. CASE ReadExit(p)
  BY <1>3, LosePeerStep DEF ReadExit
<1>4. CASE PeerTimeout(p)
  BY <1>4, LosePeerStep DEF PeerTimeout
<1>5. CASE ReadReply(p)
  BY <1>5, ReadReplyStep
<1>6. CASE ClickReady(p)
  BY <1>6, ClickReadyStep
<1>7. CASE Drop(p) \/ ReadDrop(p)
  BY <1>7, GameOverStep DEF Drop, ReadDrop
<1>8. CASE HearChoice(p)
  BY <1>8, HearChoiceStep
<1>9. CASE ReadyStands
  BY <1>9, StandingStep
<1> QED BY <1>1, <1>2, <1>3, <1>4, <1>5, <1>6, <1>7, <1>8, <1>9, SideStands

LEMMA NextReadyInv == ASSUME ReadyInv, [P2PLobbyNext]_p2pLobbyVars PROVE ReadyInv'
<1>1. CASE HearAnswer
  BY <1>1, HearAnswerStep
<1>2. CASE CheckTimeout
  BY <1>2, CheckTimeoutStep
<1>3. CASE \E v \in verdicts : Verdict(v)
  BY <1>3, VerdictStep
<1>4. CASE ReadRequest
  BY <1>4, ReadRequestStep
<1>5. CASE IsoCheckDone
  BY <1>5, IsoCheckDoneStep
<1>6. CASE ReadyStands
  BY <1>6, StandingStep
<1> QED BY <1>1, <1>2, <1>3, <1>4, <1>5, <1>6, LobbyStands, SideStep DEF P2PLobbyNext

\* "A P2P game starts the moment both are ready, so the host's Ready waits for the peer's account
\* check" (p2p_ui.cpp): whoever comes and goes, whatever is lost, late, withdrawn or left over from
\* an earlier client, a host that is ready with somebody connected has ended the check, or the end
\* of the ISO's check, which does not look at the account's, has set its Ready in this connection.
THEOREM SpecReadyAfterCheck == P2PLobbySpec => []ReadyAfterCheck
<1>1. ReadyInv => ReadyAfterCheck
  BY CheckValues DEF ReadyInv, ReadyTypes, ReadyWaits, ReadyAfterCheck
<1> QED BY <1>1, InitReadyInv, NextReadyInv, PTL DEF P2PLobbySpec
=============================================================================
