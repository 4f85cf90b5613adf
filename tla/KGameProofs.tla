---------------------------- MODULE KGameProofs ----------------------------
(***************************************************************************)
(* Machine-checked proofs about KGame, for any number of players, packet   *)
(* sizes, delays and cache limit: a game on a server is a lockstep session *)
(* (Lockstep), no client waits for a packet it has not filled, and its     *)
(* queue never holds more than the delay.                                  *)
(*                                                                         *)
(* The argument follows the two channels of a player.  The messages on     *)
(* their way to the server hold the frames between what the server has     *)
(* and what was typed; those on their way back move the client's cache     *)
(* and its place in the game to the server's.  Each is said by a function  *)
(* over the positions of the channel (Upwards, OnTheWay), which loses its  *)
(* first value when a message is taken and gains one when one is sent.     *)
(***************************************************************************)
EXTENDS KGameProps, TLAPS, FunctionTheorems, SequenceTheorems, NaturalsInduction,
        WellFoundedInduction

UpMessage == {Ready} \cup {Drop(p) : p \in Players}
             \cup [kind : {"GAMEDATA"}, frames : Seq(AllInputs)]
DownMessage == {Begin, Ready} \cup {Drop(p) : p \in Players}
               \cup [kind : {"GAMEDATA"}, frames : Seq(Frame)]
               \cup [kind : {"GAMCDATA"}, index : Nat]
Caches == Seq(Seq(Frame))
ServerState ==
  [live : SUBSET Players, ready : SUBSET Players, synced : BOOLEAN,
   inbox : [Players -> Seq(AllInputs)], taken : [Players -> Nat], cache : [Players -> Caches]]

TypeInv ==
  /\ TypeOK
  /\ up \in [Players -> Seq(UpMessage)]
  /\ down \in [Players -> Seq(DownMessage)]
  /\ server \in ServerState
-----------------------------------------------------------------------------
(* Channels                                                                *)

IsFrames(m) == m.kind \in {"GAMEDATA", "GAMCDATA"}

\* The n frames of game G after the first a.
Packet(G, n, a) == [i \in 1 .. n |-> G[a + i]]

\* A place in the game: the cache there, and the number of frames before it.
Place == [cache : Caches, at : Nat]

\* Message m carries the client from place g to place h.
Moves(G, n, m, g, h) ==
  \/ /\ m.kind = "GAMEDATA" /\ m.frames = Packet(G, n, g.at)
     /\ h = [cache |-> CacheAdd(g.cache, m.frames), at |-> g.at + n]
  \/ /\ m.kind = "GAMCDATA" /\ m.index < Len(g.cache)
     /\ g.cache[m.index + 1] = Packet(G, n, g.at)
     /\ h = [cache |-> g.cache, at |-> g.at + n]
  \/ ~IsFrames(m) /\ h = g

\* The messages d carry the client from place g to place e.
OnTheWay(G, n, d, g, e) ==
  \E h \in [0 .. Len(d) -> Place] :
    /\ h[0] = g /\ h[Len(d)] = e
    /\ \A k \in 0 .. Len(d) : h[k].at <= e.at
    /\ \A k \in 1 .. Len(d) : Moves(G, n, d[k], h[k - 1], h[k])

\* Message m holds the inputs x + 1 .. y of t.
Carries(t, m, x, y) ==
  \/ /\ m.kind = "GAMEDATA" /\ y = x + Len(m.frames)
     /\ \A i \in 1 .. Len(m.frames) : m.frames[i] = t[x + i]
  \/ m.kind # "GAMEDATA" /\ y = x

\* The messages d hold the inputs a + 1 .. b of t.
Upwards(t, d, a, b) ==
  \E u \in [0 .. Len(d) -> 0 .. b] :
    /\ u[0] = a /\ u[Len(d)] = b
    /\ \A k \in 1 .. Len(d) : Carries(t, d[k], u[k - 1], u[k])
-----------------------------------------------------------------------------
(* The invariant                                                           *)

\* The frames of the game, as far as the server has the inputs.
Game == [k \in Nat \ {0} |-> Combined(k)]

InGame(p) == pstat[p] = 2 \/ (pstat[p] = 1 /\ thread[p] = "netsync")
HasBegin(p) == \E k \in DOMAIN down[p] : down[p][k].kind = "GAMEBEGN"

\* p has not called MPV yet.
Fresh(p) == HasBegin(p) \/ (pstat[p] = 1 /\ thread[p] = "out")

\* Before GAMEBEGN p does nothing, and after it come only the drops of others.
BeforeBegin(p) ==
  /\ HasBegin(p) => pstat[p] = 0 /\ thread[p] = "out" /\ ~running[p]
  /\ \A k, j \in DOMAIN down[p] :
       k < j /\ down[p][k].kind = "GAMEBEGN" => down[p][j].kind = "GAMRDROP"

BeforeStart(p) ==
  /\ Fresh(p) => /\ p \in server.live \ server.ready
                 /\ up[p] = <<>> /\ typed[p] = <<>> /\ given[p] = <<>>
  /\ pstat[p] = 1 /\ thread[p] = "out" =>
       \A k \in DOMAIN down[p] : down[p][k].kind = "GAMRDROP"

\* In netsync nothing is there yet, and the frames come after GAMRSRDY.
InNetsync(p) ==
  /\ pstat[p] = 1 => thread[p] # "loop"
  /\ pstat[p] = 1 /\ thread[p] = "netsync" =>
       /\ userdata[p] = <<>> /\ gvQueue[p] = <<>> /\ cache[p] = <<>> /\ frameno[p] = 0
       /\ typed[p] = <<>> /\ given[p] = <<>>
       /\ \A k \in DOMAIN down[p] :
            IsFrames(down[p][k]) => \E j \in 1 .. k - 1 : down[p][j] = Ready
       /\ server.synced /\ p \in server.live => \E j \in DOMAIN down[p] : down[p][j] = Ready

\* frameno counts the calls that have returned; those after the delay gave a frame.
Counts(p) == pstat[p] = 2 =>
  /\ Len(typed[p]) = frameno[p] + (IF thread[p] = "loop" THEN 1 ELSE 0)
  /\ Len(given[p]) = (IF frameno[p] <= Delay(p) THEN 0 ELSE frameno[p] - Delay(p))
  /\ Len(userdata[p]) < Conset[p]
  /\ Len(gvQueue[p]) <= Delay(p)
  /\ thread[p] = "netsync" => gvQueue[p] = <<>>

\* Once p's GAMRDROP is sent, or has come, p is out of the game and sends no frames.
Dropped(p) ==
  /\ p \notin server.live \/ (\E k \in DOMAIN up[p] : up[p][k].kind = "GAMRDROP")
       => pstat[p] = 0 /\ ~HasBegin(p)
  /\ \A k, j \in DOMAIN up[p] :
       k < j /\ up[p][k].kind = "GAMRDROP" => up[p][j].kind # "GAMEDATA"
  /\ p \notin server.live => \A k \in DOMAIN up[p] : up[p][k].kind # "GAMEDATA"

\* What the server has of p, what is on its way and what is in USERDATA is what p typed.
InputsArrive(p) ==
  /\ \A i \in 1 .. Len(server.inbox[p]) :
       i <= Len(typed[p]) /\ server.inbox[p][i] = typed[p][i]
  /\ \E b \in 0 .. Len(typed[p]) :
       /\ Upwards(typed[p], up[p], Len(server.inbox[p]), b)
       /\ pstat[p] = 2 => /\ b = FramesSent(p)
                          /\ \A i \in 1 .. Len(userdata[p]) : userdata[p][i] = typed[p][b + i]

\* What p was given is the game, what is queued is what comes next, and what is on its
\* way brings p to the place and to the cache the server has for it.
FramesArrive(p) ==
  /\ Len(given[p]) <= server.taken[p]
  /\ \A k \in 1 .. Len(given[p]) : given[p][k] = Game[k]
  /\ InGame(p) =>
       /\ \A k \in 1 .. Len(gvQueue[p]) : gvQueue[p][k] = Game[Len(given[p]) + k]
       /\ OnTheWay(Game, Conset[p], down[p],
                   [cache |-> cache[p], at |-> Len(given[p]) + Len(gvQueue[p])],
                   [cache |-> server.cache[p], at |-> server.taken[p]])

\* The server starts when all who are left are ready, and sends a frame when it has
\* the input of each.
ServerInv ==
  /\ server.synced => server.live \subseteq server.ready
  /\ ~server.synced => \A p \in Players : server.taken[p] = 0 /\ server.cache[p] = <<>>
  /\ \A p \in Players : /\ server.taken[p] <= Len(server.inbox[p])
                        /\ \A q \in server.live : server.taken[p] <= Len(server.inbox[q])

PlayerInv(p) ==
  /\ BeforeBegin(p) /\ BeforeStart(p) /\ InNetsync(p) /\ Counts(p) /\ Dropped(p)
  /\ InputsArrive(p) /\ FramesArrive(p)

IInv == TypeInv /\ ServerInv /\ \A p \in Players : PlayerInv(p)
-----------------------------------------------------------------------------
(* Constants, messages and the delay                                       *)

LEMMA ConstantTypes ==
  ASSUME NEW p \in Players
  PROVE  /\ Conset[p] \in Nat \ {0} /\ Throughput[p] \in Nat
         /\ p \in HalfDelay => Throughput[p] > 0
         /\ Inputs[p] \subseteq AllInputs
BY KGameAssumption DEF AllInputs

LEMMA NothingIsNoInput == Nothing \notin AllInputs
BY KGameAssumption DEF AllInputs

\* dframeno is never too short to fill a packet, whatever the server announces: halving
\* it needs a throughput of at least 1.
LEMMA DelayFillsPacket ==
  ASSUME NEW p \in Players
  PROVE  Delay(p) \in Nat /\ Conset[p] - 1 <= Delay(p)
<1> DEFINE c == Conset[p]
           t == Throughput[p]
<1>1. c \in Nat \ {0} /\ t \in Nat /\ (p \in HalfDelay => t > 0)
  BY ConstantTypes
<1>2. FullDelay(p) = t * c + c - 1 /\ t * c \in Nat /\ (t > 0 => t * c >= c)
  <2>1. \A a \in Nat, b \in Nat : (a + 1) * b = a * b + b /\ a * b \in Nat
    OBVIOUS
  <2>2. \A a \in Nat, b \in Nat : a > 0 => (a - 1) * b \in Nat /\ a * b = (a - 1) * b + b
    OBVIOUS
  <2> QED BY <1>1, <2>1, <2>2 DEF FullDelay
<1> DEFINE f == FullDelay(p)
<1>3. f \in Nat /\ f >= c - 1 /\ (t > 0 => f >= 2 * c - 1)
  BY <1>1, <1>2
<1>4. (f + 1) \div 2 \in Nat /\ (f >= 2 * c - 1 => (f + 1) \div 2 >= c)
  <2> HIDE DEF f
  <2> QED BY <1>1, <1>3
<1>5. CASE p \in HalfDelay /\ f > 1
  <2>1. Delay(p) = (f + 1) \div 2
    BY <1>5 DEF Delay
  <2> HIDE DEF f
  <2> QED BY <1>1, <1>3, <1>4, <1>5, <2>1
<1>6. CASE ~(p \in HalfDelay /\ f > 1)
  <2>1. Delay(p) = f
    BY <1>6 DEF Delay
  <2> HIDE DEF f
  <2> QED BY <1>3, <2>1
<1> QED BY <1>5, <1>6

LEMMA Kinds ==
  /\ Begin.kind = "GAMEBEGN" /\ Ready.kind = "GAMRSRDY"
  /\ \A p : Drop(p).kind = "GAMRDROP"
  /\ \A f : Data(f).kind = "GAMEDATA" /\ Data(f).frames = f
  /\ \A i : Cached(i).kind = "GAMCDATA" /\ Cached(i).index = i
BY DEF Begin, Ready, Drop, Data, Cached

LEMMA UpKinds ==
  ASSUME NEW m \in UpMessage
  PROVE  /\ m.kind \in {"GAMRSRDY", "GAMRDROP", "GAMEDATA"}
         /\ m.kind = "GAMEDATA" => m.frames \in Seq(AllInputs)
BY DEF UpMessage, Ready, Drop

LEMMA DownKinds ==
  ASSUME NEW m \in DownMessage
  PROVE  /\ m.kind \in {"GAMEBEGN", "GAMRSRDY", "GAMRDROP", "GAMEDATA", "GAMCDATA"}
         /\ m.kind = "GAMEBEGN" <=> m = Begin
         /\ m.kind = "GAMRSRDY" <=> m = Ready
         /\ m.kind = "GAMEDATA" => m.frames \in Seq(Frame)
         /\ m.kind = "GAMCDATA" => m.index \in Nat
BY DEF DownMessage, Begin, Ready, Drop

LEMMA SentTypes ==
  /\ Ready \in UpMessage /\ \A p \in Players : Drop(p) \in UpMessage
  /\ \A f \in Seq(AllInputs) : Data(f) \in UpMessage
  /\ Begin \in DownMessage /\ Ready \in DownMessage
  /\ \A p \in Players : Drop(p) \in DownMessage
  /\ \A f \in Seq(Frame) : Data(f) \in DownMessage
  /\ \A i \in Nat : Cached(i) \in DownMessage
BY DEF UpMessage, DownMessage, Data, Cached

LEMMA TailFacts ==
  ASSUME NEW S, NEW s \in Seq(S), s # <<>>
  PROVE  /\ Head(s) = s[1] /\ Head(s) \in S /\ Tail(s) \in Seq(S)
         /\ Len(s) \in Nat \ {0} /\ Len(Tail(s)) = Len(s) - 1
         /\ \A i \in 1 .. Len(s) - 1 : Tail(s)[i] = s[i + 1]
BY HeadTailProperties, EmptySeq

LEMMA ConcatFacts ==
  ASSUME NEW S, NEW s \in Seq(S), NEW t \in Seq(S)
  PROVE  /\ s \o t \in Seq(S) /\ Len(s \o t) = Len(s) + Len(t)
         /\ Len(s) \in Nat /\ Len(t) \in Nat
         /\ \A i \in 1 .. Len(s) : (s \o t)[i] = s[i]
         /\ \A i \in 1 .. Len(t) : (s \o t)[Len(s) + i] = t[i]
         /\ \A i \in Len(s) + 1 .. Len(s) + Len(t) : (s \o t)[i] = t[i - Len(s)]
<1>1. Len(s) \in Nat /\ Len(t) \in Nat
  OBVIOUS
<1> QED BY <1>1, ConcatProperties
-----------------------------------------------------------------------------
(* A channel, message by message                                           *)

LEMMA OnTheWayNone ==
  ASSUME NEW G, NEW n, NEW g \in Place, NEW d \in Seq(DownMessage),
         \A k \in DOMAIN d : ~IsFrames(d[k])
  PROVE  OnTheWay(G, n, d, g, g)
<1> DEFINE h == [k \in 0 .. Len(d) |-> g]
<1>1. Len(d) \in Nat /\ DOMAIN d = 1 .. Len(d) /\ g.at \in Nat
  BY DEF Place
<1>2. h \in [0 .. Len(d) -> Place] /\ \A k \in 0 .. Len(d) : h[k] = g
  OBVIOUS
<1>3. h[0] = g /\ h[Len(d)] = g /\ \A k \in 0 .. Len(d) : h[k].at <= g.at
  BY <1>1
<1>4. \A k \in 1 .. Len(d) : Moves(G, n, d[k], h[k - 1], h[k])
  <2> SUFFICES ASSUME NEW k \in 1 .. Len(d) PROVE Moves(G, n, d[k], h[k - 1], h[k])
    OBVIOUS
  <2>1. h[k - 1] = g /\ h[k] = g /\ ~IsFrames(d[k])
    BY <1>1
  <2> QED BY <2>1 DEF Moves
<1> QED BY <1>2, <1>3, <1>4 DEF OnTheWay

LEMMA OnTheWayTake ==
  ASSUME NEW G, NEW n, NEW g, NEW e, NEW d \in Seq(DownMessage), d # <<>>,
         OnTheWay(G, n, d, g, e)
  PROVE  \E f \in Place : /\ Moves(G, n, Head(d), g, f) /\ f.at <= e.at
                          /\ OnTheWay(G, n, Tail(d), f, e)
<1>1. PICK h \in [0 .. Len(d) -> Place] :
        /\ h[0] = g /\ h[Len(d)] = e
        /\ \A k \in 0 .. Len(d) : h[k].at <= e.at
        /\ \A k \in 1 .. Len(d) : Moves(G, n, d[k], h[k - 1], h[k])
  BY DEF OnTheWay
<1>2. /\ Head(d) = d[1] /\ Tail(d) \in Seq(DownMessage) /\ Len(d) \in Nat \ {0}
      /\ Len(Tail(d)) = Len(d) - 1 /\ \A i \in 1 .. Len(d) - 1 : Tail(d)[i] = d[i + 1]
  BY TailFacts
<1> DEFINE r == [k \in 0 .. Len(d) - 1 |-> h[k + 1]]
<1>3. /\ r \in [0 .. Len(d) - 1 -> Place] /\ r[0] = h[1] /\ r[Len(d) - 1] = e
      /\ \A k \in 0 .. Len(d) - 1 : r[k] = h[k + 1] /\ r[k].at <= e.at
  BY <1>1, <1>2
<1>4. \A k \in 1 .. Len(d) - 1 : Moves(G, n, Tail(d)[k], r[k - 1], r[k])
  <2> SUFFICES ASSUME NEW k \in 1 .. Len(d) - 1 PROVE Moves(G, n, Tail(d)[k], r[k - 1], r[k])
    OBVIOUS
  <2>1. Tail(d)[k] = d[k + 1] /\ r[k - 1] = h[k] /\ r[k] = h[k + 1]
    BY <1>2, <1>3
  <2>2. k + 1 \in 1 .. Len(d) /\ (k + 1) - 1 = k
    BY <1>2
  <2> QED BY <1>1, <2>1, <2>2
<1>5. OnTheWay(G, n, Tail(d), h[1], e)
  <2> HIDE DEF r
  <2> QED BY <1>2, <1>3, <1>4 DEF OnTheWay
<1>6. Moves(G, n, d[1], h[0], h[1]) /\ h[1] \in Place /\ h[1].at <= e.at
  <2>1. 1 \in 1 .. Len(d) /\ 1 - 1 = 0 /\ 1 \in 0 .. Len(d)
    BY <1>2
  <2>2. Moves(G, n, d[1], h[1 - 1], h[1])
    BY <1>1, <2>1
  <2> QED BY <1>1, <2>1, <2>2
<1> QED BY <1>1, <1>2, <1>5, <1>6

\* A message that holds frames, or says where they are, is sent.
LEMMA OnTheWaySend ==
  ASSUME NEW G, NEW n, NEW g, NEW e \in Place, NEW e2 \in Place, NEW d \in Seq(DownMessage),
         OnTheWay(G, n, d, g, e), NEW m \in DownMessage, Moves(G, n, m, e, e2), e.at <= e2.at
  PROVE  OnTheWay(G, n, Append(d, m), g, e2)
<1>1. PICK h \in [0 .. Len(d) -> Place] :
        /\ h[0] = g /\ h[Len(d)] = e
        /\ \A k \in 0 .. Len(d) : h[k].at <= e.at
        /\ \A k \in 1 .. Len(d) : Moves(G, n, d[k], h[k - 1], h[k])
  BY DEF OnTheWay
<1> DEFINE x == Append(d, m)
           N == Len(d) + 1
           r == [k \in 0 .. N |-> IF k = N THEN e2 ELSE h[k]]
<1>2. /\ x \in Seq(DownMessage) /\ Len(d) \in Nat /\ Len(x) = N /\ x[N] = m
      /\ \A k \in 1 .. Len(d) : x[k] = d[k]
  OBVIOUS
<1>3. /\ r \in [0 .. N -> Place] /\ r[0] = g /\ r[N] = e2
      /\ \A k \in 0 .. Len(d) : r[k] = h[k]
  BY <1>1, <1>2
<1>4. \A k \in 0 .. N : r[k].at <= e2.at
  <2> SUFFICES ASSUME NEW k \in 0 .. N PROVE r[k].at <= e2.at
    OBVIOUS
  <2>1. CASE k = N
    BY <1>3, <2>1 DEF Place
  <2>2. CASE k # N
    <3>1. k \in 0 .. Len(d) /\ r[k] = h[k] /\ h[k].at <= e.at /\ h[k] \in Place
      BY <1>1, <1>2, <1>3, <2>2
    <3> HIDE DEF r
    <3> QED BY <3>1 DEF Place
  <2> QED BY <2>1, <2>2
<1>5. \A k \in 1 .. N : Moves(G, n, x[k], r[k - 1], r[k])
  <2> SUFFICES ASSUME NEW k \in 1 .. N PROVE Moves(G, n, x[k], r[k - 1], r[k])
    OBVIOUS
  <2>1. CASE k = N
    <3>1. r[k - 1] = e /\ r[k] = e2 /\ x[k] = m
      BY <1>1, <1>2, <1>3, <2>1
    <3> QED BY <3>1
  <2>2. CASE k # N
    <3>1. k \in 1 .. Len(d) /\ r[k - 1] = h[k - 1] /\ r[k] = h[k] /\ x[k] = d[k]
      BY <1>2, <1>3, <2>2
    <3> QED BY <1>1, <3>1
  <2> QED BY <2>1, <2>2
<1> HIDE DEF r, x
<1>6. OnTheWay(G, n, x, g, e2)
  BY <1>2, <1>3, <1>4, <1>5 DEF OnTheWay
<1> QED BY <1>6 DEF x

\* Messages without frames are sent.
LEMMA OnTheWayTell ==
  ASSUME NEW G, NEW n, NEW g, NEW e \in Place, NEW d \in Seq(DownMessage),
         OnTheWay(G, n, d, g, e),
         NEW s \in Seq(DownMessage), \A k \in DOMAIN s : ~IsFrames(s[k])
  PROVE  OnTheWay(G, n, d \o s, g, e)
<1>1. PICK h \in [0 .. Len(d) -> Place] :
        /\ h[0] = g /\ h[Len(d)] = e
        /\ \A k \in 0 .. Len(d) : h[k].at <= e.at
        /\ \A k \in 1 .. Len(d) : Moves(G, n, d[k], h[k - 1], h[k])
  BY DEF OnTheWay
<1> DEFINE x == d \o s
           N == Len(d) + Len(s)
           r == [k \in 0 .. N |-> IF k <= Len(d) THEN h[k] ELSE e]
<1>2. /\ x \in Seq(DownMessage) /\ Len(x) = N /\ Len(d) \in Nat /\ Len(s) \in Nat
      /\ \A k \in 1 .. Len(d) : x[k] = d[k]
      /\ \A k \in Len(d) + 1 .. N : x[k] = s[k - Len(d)]
      /\ DOMAIN s = 1 .. Len(s)
  BY ConcatFacts
<1>3. /\ r \in [0 .. N -> Place] /\ r[0] = g
      /\ \A k \in 0 .. Len(d) : r[k] = h[k]
      /\ \A k \in Len(d) .. N : r[k] = e
  BY <1>1, <1>2
<1>4. r[N] = e /\ \A k \in 0 .. N : r[k].at <= e.at
  <2> HIDE DEF r
  <2>1. Len(d) \in Nat /\ N \in Len(d) .. N /\ e.at <= e.at
    BY <1>2 DEF Place
  <2>2. ASSUME NEW k \in 0 .. N PROVE r[k].at <= e.at
    <3>1. CASE k \in 0 .. Len(d)
      BY <1>1, <1>3, <3>1
    <3>2. CASE k \in Len(d) .. N
      BY <1>3, <2>1, <3>2
    <3> QED BY <2>1, <3>1, <3>2
  <2> QED BY <1>3, <2>1, <2>2
<1>5. \A k \in 1 .. N : Moves(G, n, x[k], r[k - 1], r[k])
  <2> SUFFICES ASSUME NEW k \in 1 .. N PROVE Moves(G, n, x[k], r[k - 1], r[k])
    OBVIOUS
  <2>1. CASE k \in 1 .. Len(d)
    <3>1. r[k - 1] = h[k - 1] /\ r[k] = h[k] /\ x[k] = d[k]
      BY <1>2, <1>3, <2>1
    <3> QED BY <1>1, <2>1, <3>1
  <2>2. CASE k \in Len(d) + 1 .. N
    <3>1. r[k - 1] = e /\ r[k] = e /\ x[k] = s[k - Len(d)] /\ k - Len(d) \in DOMAIN s
      <4> HIDE DEF r, x
      <4>1. k - 1 \in Len(d) .. N /\ k \in Len(d) .. N /\ k - Len(d) \in 1 .. Len(s)
        BY <1>2, <2>2
      <4> QED BY <1>2, <1>3, <2>2, <4>1
    <3>2. ~IsFrames(x[k])
      BY <3>1
    <3> QED BY <3>1, <3>2 DEF Moves
  <2> QED BY <1>2, <2>1, <2>2
<1> HIDE DEF r, x
<1>6. OnTheWay(G, n, x, g, e)
  BY <1>2, <1>3, <1>4, <1>5 DEF OnTheWay
<1> QED BY <1>6 DEF x

\* The frames the server has sent do not change when it gets more inputs.
LEMMA OnTheWaySame ==
  ASSUME NEW G, NEW H, NEW n \in Nat, NEW g, NEW e \in Place, NEW d \in Seq(DownMessage),
         OnTheWay(G, n, d, g, e), \A k \in 1 .. e.at : H[k] = G[k]
  PROVE  OnTheWay(H, n, d, g, e)
<1>1. PICK h \in [0 .. Len(d) -> Place] :
        /\ h[0] = g /\ h[Len(d)] = e
        /\ \A k \in 0 .. Len(d) : h[k].at <= e.at
        /\ \A k \in 1 .. Len(d) : Moves(G, n, d[k], h[k - 1], h[k])
  BY DEF OnTheWay
<1>2. ASSUME NEW k \in 1 .. Len(d) PROVE Moves(H, n, d[k], h[k - 1], h[k])
  <2>1. Len(d) \in Nat /\ k - 1 \in 0 .. Len(d) /\ k \in 0 .. Len(d)
    BY <1>2
  <2>2. h[k - 1] \in Place /\ h[k] \in Place /\ h[k].at <= e.at /\ Moves(G, n, d[k], h[k - 1], h[k])
    BY <1>1, <1>2, <2>1
  <2>3. h[k - 1].at \in Nat /\ h[k].at \in Nat /\ e.at \in Nat
    BY <2>2 DEF Place
  <2>4. CASE h[k].at = h[k - 1].at + n
    <3>1. Packet(H, n, h[k - 1].at) = Packet(G, n, h[k - 1].at)
      <4>1. \A a, b, c \in Nat : b = a + n /\ b <= c => \A i \in 1 .. n : a + i \in 1 .. c
        OBVIOUS
      <4>2. \A i \in 1 .. n : h[k - 1].at + i \in 1 .. e.at
        BY <2>2, <2>3, <2>4, <4>1
      <4> QED BY <4>2 DEF Packet
    <3> QED BY <2>2, <3>1 DEF Moves
  <2>5. CASE ~IsFrames(d[k])
    BY <2>2, <2>5 DEF Moves, IsFrames
  <2> QED BY <2>2, <2>4, <2>5 DEF Moves
<1> QED BY <1>1, <1>2 DEF OnTheWay

LEMMA SmallestOf ==
  ASSUME NEW S, S \subseteq Nat, S # {}
  PROVE  \E x \in S : \A y \in S : x <= y
<1>1. \E x \in S : \A y \in S : <<y, x>> \notin OpToRel(<, Nat)
  BY NatLessThanWellFounded, WFMin
<1>2. \A x, y \in Nat : y < x => <<y, x>> \in OpToRel(<, Nat)
  BY DEF OpToRel
<1>3. \A x, y \in Nat : ~(y < x) => x <= y
  OBVIOUS
<1> QED BY <1>1, <1>2, <1>3

\* What CacheAfter computes from one message to the next is the cache on the way: two
\* functions that follow the same rule would differ first where the rule makes them equal.
LEMMA CacheOnTheWay ==
  ASSUME NEW p \in Players, NEW G, NEW n, NEW g, NEW e, down[p] \in Seq(DownMessage),
         g.cache = cache[p], OnTheWay(G, n, down[p], g, e)
  PROVE  e.cache = CacheAfter(p)[Len(down[p])]
<1> DEFINE d == down[p]
           D == 0 .. Len(d)
           rule(f, k) == IF k = 0 THEN cache[p] ELSE SentToCache(f[k - 1], d[k])
<1>1. PICK h \in [D -> Place] :
        /\ h[0] = g /\ h[Len(d)] = e
        /\ \A k \in 1 .. Len(d) : Moves(G, n, d[k], h[k - 1], h[k])
  BY DEF OnTheWay
<1> DEFINE c == [k \in D |-> h[k].cache]
           after == CacheAfter(p)
<1>2. Len(d) \in Nat
  OBVIOUS
<1>3. ASSUME NEW k \in D PROVE c[k] = rule(c, k)
  <2>1. CASE k = 0
    BY <1>1, <1>2, <2>1
  <2>2. CASE k # 0
    <3>1. k \in 1 .. Len(d) /\ k - 1 \in D
      BY <1>2, <2>2
    <3>2. Moves(G, n, d[k], h[k - 1], h[k]) /\ c[k - 1] = h[k - 1].cache /\ c[k] = h[k].cache
      BY <1>1, <3>1
    <3>3. h[k].cache = SentToCache(h[k - 1].cache, d[k])
      BY <3>2 DEF Moves, SentToCache, IsFrames
    <3> HIDE DEF c
    <3> QED BY <2>2, <3>2, <3>3
  <2> QED BY <2>1, <2>2
<1>4. c = [k \in D |-> rule(c, k)]
  BY <1>3
<1>5. after = [k \in D |-> rule(after, k)]
  <2>1. after = CHOOSE f : f = [k \in D |-> rule(f, k)]
    BY DEF CacheAfter
  <2> HIDE DEF after, c
  <2> QED BY <1>4, <2>1
<1>6. \A k \in D : after[k] = c[k]
  <2> DEFINE S == {k \in D : after[k] # c[k]}
  <2> HIDE DEF after, c
  <2> SUFFICES ASSUME S # {} PROVE FALSE
    OBVIOUS
  <2>1. S \subseteq Nat
    BY <1>2
  <2>2. PICK k \in S : \A y \in S : k <= y
    BY <2>1, SmallestOf
  <2>3. k \in D /\ after[k] # c[k] /\ after[k] = rule(after, k) /\ c[k] = rule(c, k)
    BY <1>3, <1>5
  <2>4. k # 0
    BY <2>3
  <2>5. k - 1 \in D /\ ~(k <= k - 1)
    BY <1>2, <2>3, <2>4
  <2>6. after[k - 1] = c[k - 1]
    BY <2>2, <2>5
  <2> QED BY <2>3, <2>4, <2>6
<1>7. Len(d) \in D /\ c[Len(d)] = e.cache
  BY <1>1, <1>2
<1> QED BY <1>6, <1>7

LEMMA UpwardsNone ==
  ASSUME NEW t, NEW b \in Nat
  PROVE  Upwards(t, <<>>, b, b)
<1> DEFINE u == [k \in 0 .. 0 |-> b]
<1>1. Len(<<>>) = 0
  OBVIOUS
<1>2. u \in [0 .. Len(<<>>) -> 0 .. b] /\ u[0] = b /\ u[Len(<<>>)] = b /\ 1 .. Len(<<>>) = {}
  BY <1>1
<1> HIDE DEF u
<1> QED BY <1>2 DEF Upwards

LEMMA UpwardsRange ==
  ASSUME NEW t, NEW d \in Seq(UpMessage), NEW a, NEW b \in Nat, Upwards(t, d, a, b)
  PROVE  a \in 0 .. b
BY DEF Upwards

LEMMA UpwardsTake ==
  ASSUME NEW t, NEW d \in Seq(UpMessage), d # <<>>, NEW a, NEW b \in Nat, Upwards(t, d, a, b)
  PROVE  \E x \in 0 .. b : Carries(t, Head(d), a, x) /\ Upwards(t, Tail(d), x, b)
<1>1. PICK u \in [0 .. Len(d) -> 0 .. b] :
        /\ u[0] = a /\ u[Len(d)] = b
        /\ \A k \in 1 .. Len(d) : Carries(t, d[k], u[k - 1], u[k])
  BY DEF Upwards
<1>2. /\ Head(d) = d[1] /\ Tail(d) \in Seq(UpMessage) /\ Len(d) \in Nat \ {0}
      /\ Len(Tail(d)) = Len(d) - 1 /\ \A i \in 1 .. Len(d) - 1 : Tail(d)[i] = d[i + 1]
  BY TailFacts
<1> DEFINE r == [k \in 0 .. Len(d) - 1 |-> u[k + 1]]
<1>3. /\ r \in [0 .. Len(d) - 1 -> 0 .. b] /\ r[0] = u[1] /\ r[Len(d) - 1] = b
      /\ \A k \in 0 .. Len(d) - 1 : r[k] = u[k + 1]
  BY <1>1, <1>2
<1>4. ASSUME NEW k \in 1 .. Len(d) - 1 PROVE Carries(t, Tail(d)[k], r[k - 1], r[k])
  <2>1. Tail(d)[k] = d[k + 1] /\ r[k - 1] = u[k] /\ r[k] = u[k + 1]
    BY <1>2, <1>3
  <2>2. k + 1 \in 1 .. Len(d) /\ (k + 1) - 1 = k
    BY <1>2
  <2> HIDE DEF r
  <2> QED BY <1>1, <2>1, <2>2
<1>5. Upwards(t, Tail(d), u[1], b)
  <2> HIDE DEF r
  <2> QED BY <1>2, <1>3, <1>4 DEF Upwards
<1>6. 1 \in 1 .. Len(d) /\ 1 - 1 = 0 /\ u[1] \in 0 .. b
  BY <1>2
<1>7. Carries(t, d[1], u[1 - 1], u[1])
  BY <1>1, <1>6
<1> QED BY <1>1, <1>2, <1>5, <1>6, <1>7

\* A message is sent: a full packet, or one without frames.
LEMMA UpwardsSend ==
  ASSUME NEW t, NEW d \in Seq(UpMessage), NEW a, NEW b \in Nat, Upwards(t, d, a, b),
         NEW m \in UpMessage, NEW B \in Nat, b <= B, Carries(t, m, b, B)
  PROVE  Upwards(t, Append(d, m), a, B)
<1>1. PICK u \in [0 .. Len(d) -> 0 .. b] :
        /\ u[0] = a /\ u[Len(d)] = b
        /\ \A k \in 1 .. Len(d) : Carries(t, d[k], u[k - 1], u[k])
  BY DEF Upwards
<1> DEFINE x == Append(d, m)
           N == Len(d) + 1
           r == [k \in 0 .. N |-> IF k = N THEN B ELSE u[k]]
<1>2. /\ x \in Seq(UpMessage) /\ Len(d) \in Nat /\ Len(x) = N /\ x[N] = m
      /\ \A k \in 1 .. Len(d) : x[k] = d[k]
  OBVIOUS
<1>3. /\ r \in [0 .. N -> 0 .. B] /\ r[0] = a /\ r[N] = B
      /\ \A k \in 0 .. Len(d) : r[k] = u[k]
  BY <1>1, <1>2
<1>4. ASSUME NEW k \in 1 .. N PROVE Carries(t, x[k], r[k - 1], r[k])
  <2> HIDE DEF r, x
  <2>1. CASE k = N
    <3>1. k - 1 = Len(d) /\ r[k - 1] = b /\ r[k] = B /\ x[k] = m
      BY <1>1, <1>2, <1>3, <2>1
    <3> QED BY <3>1
  <2>2. CASE k # N
    <3>1. k \in 1 .. Len(d) /\ r[k - 1] = u[k - 1] /\ r[k] = u[k] /\ x[k] = d[k]
      BY <1>2, <1>3, <2>2
    <3> QED BY <1>1, <3>1
  <2> QED BY <2>1, <2>2
<1> HIDE DEF r, x
<1>5. Upwards(t, x, a, B)
  BY <1>2, <1>3, <1>4 DEF Upwards
<1> QED BY <1>5 DEF x

\* More is typed.
LEMMA UpwardsSame ==
  ASSUME NEW t, NEW t2, NEW d \in Seq(UpMessage), NEW a, NEW b \in Nat, Upwards(t, d, a, b),
         \A i \in 1 .. b : t2[i] = t[i]
  PROVE  Upwards(t2, d, a, b)
<1>1. PICK u \in [0 .. Len(d) -> 0 .. b] :
        /\ u[0] = a /\ u[Len(d)] = b
        /\ \A k \in 1 .. Len(d) : Carries(t, d[k], u[k - 1], u[k])
  BY DEF Upwards
<1>2. ASSUME NEW k \in 1 .. Len(d) PROVE Carries(t2, d[k], u[k - 1], u[k])
  <2>1. /\ Len(d) \in Nat /\ k - 1 \in 0 .. Len(d) /\ k \in 0 .. Len(d)
        /\ d[k] \in UpMessage
    BY <1>2
  <2>2. u[k - 1] \in 0 .. b /\ u[k] \in 0 .. b /\ Carries(t, d[k], u[k - 1], u[k])
    BY <1>1, <2>1
  <2>3. CASE d[k].kind = "GAMEDATA"
    <3>1. Len(d[k].frames) \in Nat /\ u[k] = u[k - 1] + Len(d[k].frames)
      BY <2>1, <2>2, <2>3, UpKinds DEF Carries
    <3>2. \A x, y, z \in Nat : y = x + z /\ y <= b => \A i \in 1 .. z : x + i \in 1 .. b
      OBVIOUS
    <3>3. \A i \in 1 .. Len(d[k].frames) : u[k - 1] + i \in 1 .. b
      BY <2>2, <3>1, <3>2
    <3>4. \A i \in 1 .. Len(d[k].frames) : t2[u[k - 1] + i] = t[u[k - 1] + i]
      BY <3>3
    <3> QED BY <2>2, <2>3, <3>4 DEF Carries
  <2>4. CASE d[k].kind # "GAMEDATA"
    BY <2>2, <2>4 DEF Carries
  <2> QED BY <2>3, <2>4
<1> QED BY <1>1, <1>2 DEF Upwards
-----------------------------------------------------------------------------
(* One player's part of the invariant                                      *)

LEMMA GameType ==
  ASSUME TypeInv
  PROVE  Game \in [Nat \ {0} -> Frame]
<1>1. ASSUME NEW k \in Nat \ {0} PROVE Combined(k) \in Frame
  <2>1. server.inbox \in [Players -> Seq(AllInputs)]
    BY DEF TypeInv, ServerState
  <2>2. \A q \in Players : k <= Len(server.inbox[q]) => server.inbox[q][k] \in AllInputs
    BY <2>1
  <2> QED BY <2>2 DEF Combined, Frame
<1> QED BY <1>1 DEF Game

LEMMA GameSame ==
  ASSUME UNCHANGED server.inbox
  PROVE  Game' = Game
BY DEF Game, Combined

\* The places of FramesArrive.
LEMMA PlacesType ==
  ASSUME TypeInv, NEW p \in Players
  PROVE  /\ [cache |-> cache[p], at |-> Len(given[p]) + Len(gvQueue[p])] \in Place
         /\ [cache |-> server.cache[p], at |-> server.taken[p]] \in Place
         /\ server.taken[p] \in Nat /\ Len(given[p]) \in Nat /\ Len(gvQueue[p]) \in Nat
BY DEF TypeInv, TypeOK, ServerState, Place, Caches

LEMMA ClientTypes ==
  ASSUME TypeInv, NEW p \in Players
  PROVE  /\ pstat[p] \in 0 .. 2 /\ frameno[p] \in Nat
         /\ thread[p] \in {"out", "netsync", "loop"}
         /\ typed[p] \in Seq(AllInputs) /\ userdata[p] \in Seq(AllInputs \cup {Nothing})
         /\ given[p] \in Seq(Frame) /\ gvQueue[p] \in Seq(Frame) /\ cache[p] \in Caches
         /\ up[p] \in Seq(UpMessage) /\ down[p] \in Seq(DownMessage)
         /\ server.inbox[p] \in Seq(AllInputs) /\ server.cache[p] \in Caches
         /\ server.taken[p] \in Nat
         /\ Len(typed[p]) \in Nat /\ Len(userdata[p]) \in Nat /\ Len(given[p]) \in Nat
         /\ Len(gvQueue[p]) \in Nat /\ Len(server.inbox[p]) \in Nat
BY DEF TypeInv, TypeOK, ServerState, Caches

\* What p has been given and has queued, the server has taken, and p typed it.
LEMMA TakenIsTyped ==
  ASSUME IInv, NEW p \in Players
  PROVE  /\ server.taken[p] <= Len(server.inbox[p])
         /\ Len(server.inbox[p]) <= Len(typed[p])
         /\ InGame(p) => Len(given[p]) + Len(gvQueue[p]) <= server.taken[p]
<1>1. TypeInv /\ InputsArrive(p) /\ FramesArrive(p) /\ server.taken[p] <= Len(server.inbox[p])
  BY DEF IInv, PlayerInv, ServerInv
<1>2. PICK b \in 0 .. Len(typed[p]) : Upwards(typed[p], up[p], Len(server.inbox[p]), b)
  BY <1>1 DEF InputsArrive
<1>3. Len(server.inbox[p]) \in 0 .. b /\ Len(typed[p]) \in Nat
  BY <1>1, <1>2, ClientTypes, UpwardsRange
<1>4. ASSUME InGame(p) PROVE Len(given[p]) + Len(gvQueue[p]) <= server.taken[p]
  <2> DEFINE g == [cache |-> cache[p], at |-> Len(given[p]) + Len(gvQueue[p])]
             e == [cache |-> server.cache[p], at |-> server.taken[p]]
  <2>1. OnTheWay(Game, Conset[p], down[p], g, e)
    BY <1>1, <1>4 DEF FramesArrive
  <2>2. PICK h \in [0 .. Len(down[p]) -> Place] :
          h[0] = g /\ \A k \in 0 .. Len(down[p]) : h[k].at <= e.at
    BY <2>1 DEF OnTheWay
  <2>3. 0 \in 0 .. Len(down[p])
    BY <1>1, ClientTypes
  <2>4. g.at <= e.at
    BY <2>2, <2>3
  <2> QED BY <2>4
<1>5. \A x, y, z \in Int : x \in 0 .. y /\ y \in 0 .. z => x <= z
  OBVIOUS
<1>6. Len(server.inbox[p]) <= Len(typed[p])
  BY <1>2, <1>3, <1>5
<1> QED BY <1>1, <1>4, <1>6

\* A player who has no part in a step.
LEMMA Bystander ==
  ASSUME NEW q \in Players, TypeInv, PlayerInv(q), Game' = Game,
         UNCHANGED <<server.live, server.ready, server.synced>>,
         UNCHANGED <<server.inbox[q], server.taken[q], server.cache[q]>>,
         UNCHANGED <<pstat[q], thread[q], running[q], userdata[q], frameno[q], gvQueue[q],
                     cache[q], up[q], down[q], typed[q], given[q]>>
  PROVE  PlayerInv(q)'
<1>1. HasBegin(q)' = HasBegin(q) /\ Fresh(q)' = Fresh(q) /\ InGame(q)' = InGame(q)
  BY DEF HasBegin, Fresh, InGame
<1>2. BeforeBegin(q)'
  BY <1>1 DEF PlayerInv, BeforeBegin
<1>3. BeforeStart(q)'
  BY <1>1 DEF PlayerInv, BeforeStart
<1>4. InNetsync(q)'
  BY DEF PlayerInv, InNetsync
<1>5. Counts(q)'
  BY DEF PlayerInv, Counts
<1>6. Dropped(q)'
  BY <1>1 DEF PlayerInv, Dropped
<1>7. InputsArrive(q)'
  BY DEF PlayerInv, InputsArrive, FramesSent
<1>8. FramesArrive(q)'
  BY <1>1 DEF PlayerInv, FramesArrive
<1> QED BY <1>2, <1>3, <1>4, <1>5, <1>6, <1>7, <1>8 DEF PlayerInv

\* A step of p that the server has no part in.
LEMMA ClientStep ==
  ASSUME IInv, TypeInv', NEW p \in Players, UNCHANGED server,
         \A q \in Players \ {p} :
           UNCHANGED <<pstat[q], thread[q], running[q], userdata[q], frameno[q], gvQueue[q],
                       cache[q], up[q], down[q], typed[q], given[q]>>,
         PlayerInv(p)'
  PROVE  IInv'
<1>1. Game' = Game
  BY GameSame
<1>2. ASSUME NEW q \in Players PROVE PlayerInv(q)'
  BY <1>1, Bystander DEF IInv
<1>3. ServerInv'
  BY DEF IInv, ServerInv
<1> QED BY <1>2, <1>3 DEF IInv

\* p is out of the game: it stays out, whatever its threads still do.
LEMMA OutOfGame ==
  ASSUME IInv, TypeInv', NEW p \in Players, UNCHANGED server,
         UNCHANGED <<typed[p], given[p]>>, pstat'[p] = 0, ~HasBegin(p)',
         up'[p] = up[p] \/ up'[p] = Append(up[p], Drop(p))
  PROVE  PlayerInv(p)'
<1>1. /\ TypeInv /\ Dropped(p) /\ InputsArrive(p) /\ FramesArrive(p)
      /\ up[p] \in Seq(UpMessage) /\ server.live \subseteq Players
  BY ClientTypes DEF IInv, PlayerInv, TypeInv, ServerState
<1>2. ~Fresh(p)' /\ ~InGame(p)'
  BY DEF Fresh, InGame
<1>3. BeforeBegin(p)'
  BY DEF BeforeBegin, HasBegin
<1>4. BeforeStart(p)' /\ InNetsync(p)' /\ Counts(p)'
  BY <1>2 DEF BeforeStart, InNetsync, Counts
<1>5. Dropped(p)'
  <2>1. CASE up'[p] = up[p]
    BY <1>1, <2>1 DEF Dropped
  <2>2. CASE up'[p] = Append(up[p], Drop(p))
    <3>1. /\ DOMAIN up[p] = 1 .. Len(up[p]) /\ Len(up[p]) \in Nat
          /\ DOMAIN up'[p] = 1 .. Len(up[p]) + 1
          /\ \A k \in 1 .. Len(up[p]) : up'[p][k] = up[p][k]
          /\ up'[p][Len(up[p]) + 1] = Drop(p)
      BY <1>1, <2>2
    <3>2. up'[p][Len(up[p]) + 1].kind = "GAMRDROP"
      BY <3>1, Kinds
    <3>3. ASSUME NEW k \in DOMAIN up'[p], NEW j \in DOMAIN up'[p],
                 k < j, up'[p][k].kind = "GAMRDROP"
          PROVE  up'[p][j].kind # "GAMEDATA"
      <4>1. CASE j = Len(up[p]) + 1
        BY <3>2, <4>1
      <4>2. CASE j # Len(up[p]) + 1
        <5>1. k \in DOMAIN up[p] /\ j \in DOMAIN up[p]
          BY <3>1, <3>3, <4>2
        <5> QED BY <1>1, <3>1, <3>3, <5>1 DEF Dropped
      <4> QED BY <4>1, <4>2
    <3>4. ASSUME p \notin server.live, NEW k \in DOMAIN up'[p] PROVE up'[p][k].kind # "GAMEDATA"
      <4>1. CASE k = Len(up[p]) + 1
        BY <3>2, <4>1
      <4>2. CASE k # Len(up[p]) + 1
        <5>1. k \in DOMAIN up[p]
          BY <3>1, <3>4, <4>2
        <5> QED BY <1>1, <3>1, <3>4, <5>1 DEF Dropped
      <4> QED BY <4>1, <4>2
    <3> QED BY <3>3, <3>4 DEF Dropped
  <2> QED BY <2>1, <2>2
<1>6. InputsArrive(p)'
  <2>1. PICK b \in 0 .. Len(typed[p]) : Upwards(typed[p], up[p], Len(server.inbox[p]), b)
    BY <1>1 DEF InputsArrive
  <2>2. Upwards(typed[p], up'[p], Len(server.inbox[p]), b)
    <3>1. CASE up'[p] = Append(up[p], Drop(p))
      <4>1. b \in Nat /\ Drop(p) \in UpMessage /\ Drop(p).kind # "GAMEDATA" /\ b <= b
        BY <1>1, SentTypes, Kinds
      <4>2. Carries(typed[p], Drop(p), b, b)
        BY <4>1 DEF Carries
      <4> QED BY <1>1, <2>1, <3>1, <4>1, <4>2, UpwardsSend
    <3> QED BY <2>1, <3>1
  <2> QED BY <1>1, <2>1, <2>2 DEF InputsArrive
<1>7. FramesArrive(p)'
  BY <1>1, <1>2, GameSame DEF FramesArrive
<1> QED BY <1>3, <1>4, <1>5, <1>6, <1>7 DEF PlayerInv

\* Nothing new is typed or sent to the server.
LEMMA InputsStay ==
  ASSUME IInv, NEW p \in Players, UNCHANGED server, UNCHANGED <<typed[p], up[p]>>,
         pstat'[p] = 2 => pstat[p] = 2 /\ UNCHANGED userdata[p]
  PROVE  InputsArrive(p)'
<1>1. InputsArrive(p)
  BY DEF IInv, PlayerInv
<1>2. PICK b \in 0 .. Len(typed[p]) :
        /\ Upwards(typed[p], up[p], Len(server.inbox[p]), b)
        /\ pstat[p] = 2 => /\ b = FramesSent(p)
                           /\ \A i \in 1 .. Len(userdata[p]) : userdata[p][i] = typed[p][b + i]
  BY <1>1 DEF InputsArrive
<1>3. pstat'[p] = 2 => /\ b = FramesSent(p)'
                       /\ \A i \in 1 .. Len(userdata'[p]) : userdata'[p][i] = typed'[p][b + i]
  BY <1>2 DEF FramesSent
<1>4. Upwards(typed'[p], up'[p], Len(server'.inbox[p]), b) /\ b \in 0 .. Len(typed'[p])
  BY <1>2
<1> QED BY <1>1, <1>3, <1>4 DEF InputsArrive

LEMMA DroppedStays ==
  ASSUME IInv, NEW p \in Players, UNCHANGED server, UNCHANGED up[p],
         pstat[p] = 0 /\ ~HasBegin(p) => pstat'[p] = 0 /\ ~HasBegin(p)'
  PROVE  Dropped(p)'
BY DEF IInv, PlayerInv, Dropped

\* A message taken from the server.
LEMMA BeginTaken ==
  ASSUME IInv, NEW p \in Players, down[p] # <<>>, down'[p] = Tail(down[p])
  PROVE  /\ HasBegin(p)' => HasBegin(p)
         /\ Head(down[p]) \in DownMessage
         /\ Head(down[p]) = Begin => HasBegin(p) /\ ~HasBegin(p)'
                                    /\ \A k \in DOMAIN down'[p] : down'[p][k].kind = "GAMRDROP"
         /\ \A k, j \in DOMAIN down'[p] :
              k < j /\ down'[p][k].kind = "GAMEBEGN" => down'[p][j].kind = "GAMRDROP"
         /\ (\A k \in DOMAIN down[p] : down[p][k].kind = "GAMRDROP")
              => \A k \in DOMAIN down'[p] : down'[p][k].kind = "GAMRDROP"
<1> DEFINE d == down[p]
<1>1. d \in Seq(DownMessage) /\ BeforeBegin(p)
  BY ClientTypes DEF IInv, PlayerInv
<1>2. /\ Head(d) = d[1] /\ Head(d) \in DownMessage /\ Len(d) \in Nat \ {0} /\ DOMAIN d = 1 .. Len(d)
      /\ DOMAIN down'[p] = 1 .. Len(d) - 1
      /\ \A i \in DOMAIN down'[p] : down'[p][i] = d[i + 1] /\ i + 1 \in DOMAIN d /\ 1 < i + 1
  BY <1>1, TailFacts
<1>3. 1 \in DOMAIN d
  BY <1>2
<1> HIDE DEF d
<1>4. HasBegin(p)' => HasBegin(p)
  BY <1>2 DEF HasBegin, d
<1>5. \A k, j \in DOMAIN down'[p] :
        k < j /\ down'[p][k].kind = "GAMEBEGN" => down'[p][j].kind = "GAMRDROP"
  <2> SUFFICES ASSUME NEW k \in DOMAIN down'[p], NEW j \in DOMAIN down'[p], k < j,
                      down'[p][k].kind = "GAMEBEGN"
               PROVE  down'[p][j].kind = "GAMRDROP"
    OBVIOUS
  <2>1. k + 1 < j + 1
    BY <1>2
  <2> QED BY <1>1, <1>2, <2>1 DEF BeforeBegin, d
<1>6. ASSUME Head(d) = Begin
      PROVE  /\ HasBegin(p) /\ ~HasBegin(p)'
             /\ \A k \in DOMAIN down'[p] : down'[p][k].kind = "GAMRDROP"
  <2>1. d[1].kind = "GAMEBEGN"
    BY <1>2, <1>6, Kinds
  <2>2. \A k \in DOMAIN down'[p] : down'[p][k].kind = "GAMRDROP"
    BY <1>1, <1>2, <1>3, <2>1 DEF BeforeBegin, d
  <2> QED BY <1>3, <2>1, <2>2 DEF HasBegin, d
<1> QED BY <1>2, <1>4, <1>5, <1>6 DEF d
-----------------------------------------------------------------------------
(* The client's steps outside the loop                                     *)

LEMMA LobbyStepStep ==
  ASSUME IInv, NEW p \in Players, LobbyStep(p)
  PROVE  IInv'
<1>1. TypeInv /\ PlayerInv(p) /\ down[p] \in Seq(DownMessage)
  BY ClientTypes DEF IInv
<1>2. /\ pstat[p] = 0 /\ down[p] # <<>> /\ down'[p] = Tail(down[p])
      /\ pstat'[p] = (IF Head(down[p]) = Begin THEN 1 ELSE 0)
      /\ UNCHANGED <<thread[p], userdata[p], frameno[p], gvQueue[p], cache[p], up[p], typed[p], given[p]>>
      /\ Head(down[p]) # Begin => UNCHANGED running[p]
  BY <1>1 DEF LobbyStep, TypeInv, TypeOK
<1>3. TypeInv'
  <2>1. Tail(down[p]) \in Seq(DownMessage)
    BY <1>1, <1>2, TailFacts
  <2>2. down' \in [Players -> Seq(DownMessage)]
    BY <1>1, <2>1 DEF LobbyStep, TypeInv
  <2>3. pstat' \in [Players -> 0 .. 2]
    <3>1. pstat \in [Players -> 0 .. 2]
      BY <1>1 DEF TypeInv, TypeOK
    <3>2. pstat' = pstat \/ pstat' = [pstat EXCEPT ![p] = 1]
      BY DEF LobbyStep
    <3> QED BY <3>1, <3>2
  <2>4. running' \in [Players -> BOOLEAN]
    <3>1. running \in [Players -> BOOLEAN] /\ TRUE \in BOOLEAN
      BY <1>1 DEF TypeInv, TypeOK
    <3>2. running' = running \/ running' = [running EXCEPT ![p] = TRUE]
      BY DEF LobbyStep
    <3> QED BY <3>1, <3>2, Zenon
  <2> QED BY <1>1, <2>2, <2>3, <2>4 DEF LobbyStep, TypeInv, TypeOK
<1>4. UNCHANGED server
  BY DEF LobbyStep
<1>5. PlayerInv(p)'
  <2>1. CASE Head(down[p]) = Begin
    <3>1. /\ HasBegin(p) /\ ~HasBegin(p)' /\ Fresh(p)
          /\ \A k \in DOMAIN down'[p] : down'[p][k].kind = "GAMRDROP"
      BY <1>2, <2>1, BeginTaken DEF Fresh
    <3>2. /\ thread[p] = "out" /\ p \in server.live \ server.ready /\ up[p] = <<>>
          /\ typed[p] = <<>> /\ given[p] = <<>>
      BY <1>1, <3>1 DEF PlayerInv, BeforeBegin, BeforeStart
    <3>3. BeforeBegin(p)' /\ BeforeStart(p)' /\ InNetsync(p)' /\ Counts(p)'
      BY <1>2, <1>4, <2>1, <3>1, <3>2 DEF BeforeBegin, BeforeStart, InNetsync, Counts, HasBegin
    <3>4. Dropped(p)'
      BY <1>2, <1>4, <3>2 DEF Dropped
    <3>5. InputsArrive(p)'
      BY <1>2, <1>4, <2>1, InputsStay
    <3>6. FramesArrive(p)'
      BY <1>1, <1>2, <1>4, <2>1, <3>2, GameSame DEF PlayerInv, FramesArrive, InGame
    <3> QED BY <3>3, <3>4, <3>5, <3>6 DEF PlayerInv
  <2>2. CASE Head(down[p]) # Begin /\ ~HasBegin(p)
    <3>1. ~HasBegin(p)'
      BY <1>2, <2>2, BeginTaken
    <3> QED BY <1>2, <1>3, <1>4, <2>2, <3>1, OutOfGame
  <2>3. CASE Head(down[p]) # Begin /\ HasBegin(p)
    <3>1. Fresh(p) /\ thread[p] = "out" /\ ~running[p]
      BY <1>1, <2>3 DEF Fresh, PlayerInv, BeforeBegin
    <3>2. BeforeBegin(p)'
      BY <1>2, <2>3, <3>1, BeginTaken DEF BeforeBegin
    <3>3. BeforeStart(p)' /\ InNetsync(p)' /\ Counts(p)'
      BY <1>1, <1>2, <1>4, <2>3, <3>1 DEF PlayerInv, BeforeStart, InNetsync, Counts
    <3>4. Dropped(p)'
      BY <1>1, <1>2, <1>4, <2>3 DEF PlayerInv, Dropped
    <3>5. InputsArrive(p)'
      BY <1>2, <1>4, <2>3, InputsStay
    <3>6. FramesArrive(p)'
      BY <1>1, <1>2, <1>4, <2>3, GameSame DEF PlayerInv, FramesArrive, InGame
    <3> QED BY <3>2, <3>3, <3>4, <3>5, <3>6 DEF PlayerInv
  <2> QED BY <2>1, <2>2, <2>3
<1>6. \A q \in Players \ {p} :
        UNCHANGED <<pstat[q], thread[q], running[q], userdata[q], frameno[q], gvQueue[q],
                    cache[q], up[q], down[q], typed[q], given[q]>>
  BY <1>1 DEF LobbyStep, TypeInv, TypeOK
<1> QED BY <1>3, <1>4, <1>5, <1>6, ClientStep

LEMMA StartSequenceStep ==
  ASSUME IInv, NEW p \in Players, StartSequence(p)
  PROVE  IInv'
<1>1. TypeInv /\ PlayerInv(p) /\ down[p] \in Seq(DownMessage) /\ ServerInv
  BY ClientTypes DEF IInv
<1>2. /\ pstat[p] = 1 /\ thread[p] = "out" /\ thread'[p] = "netsync"
      /\ userdata'[p] = <<>> /\ frameno'[p] = 0 /\ gvQueue'[p] = <<>> /\ cache'[p] = <<>>
      /\ up'[p] = up[p] \o <<Ready>>
      /\ UNCHANGED <<pstat[p], running[p], down[p], typed[p], given[p]>>
  BY <1>1 DEF StartSequence, SendUp, TypeInv, TypeOK
<1>3. /\ Fresh(p) /\ p \in server.live \ server.ready
      /\ up[p] = <<>> /\ typed[p] = <<>> /\ given[p] = <<>>
      /\ \A k \in DOMAIN down[p] : down[p][k].kind = "GAMRDROP"
  BY <1>1, <1>2 DEF PlayerInv, BeforeStart, Fresh
<1>4. UNCHANGED server
  BY DEF StartSequence
<1>5. up'[p] = Append(up[p], Ready) /\ up'[p] = <<Ready>>
  BY <1>2, <1>3
<1>6. TypeInv'
  <2>1. up'[p] \in Seq(UpMessage)
    BY <1>5, SentTypes
  <2>2. up' \in [Players -> Seq(UpMessage)]
    BY <1>1, <2>1 DEF StartSequence, SendUp, TypeInv
  <2>3. /\ thread' \in [Players -> {"out", "netsync", "loop"}] /\ frameno' \in [Players -> Nat]
        /\ userdata' \in [Players -> Seq(AllInputs \cup {Nothing})]
        /\ gvQueue' \in [Players -> Seq(Frame)] /\ cache' \in [Players -> Seq(Seq(Frame))]
    BY <1>1 DEF StartSequence, TypeInv, TypeOK
  <2> QED BY <1>1, <2>2, <2>3 DEF StartSequence, TypeInv, TypeOK
<1>7. PlayerInv(p)'
  <2>1. ~HasBegin(p)' /\ ~Fresh(p)'
    BY <1>2, <1>3 DEF HasBegin, Fresh
  <2>2. ~server.synced /\ server.taken[p] = 0 /\ server.cache[p] = <<>>
    BY <1>1, <1>3 DEF ServerInv
  <2>3. BeforeBegin(p)' /\ BeforeStart(p)' /\ Counts(p)'
    BY <1>2, <1>3, <2>1 DEF BeforeBegin, BeforeStart, Counts, HasBegin
  <2>4. InNetsync(p)'
    BY <1>2, <1>3, <1>4, <2>2 DEF InNetsync, IsFrames
  <2>5. Dropped(p)'
    <3>1. \A k \in DOMAIN up'[p] : up'[p][k].kind = "GAMRSRDY"
      BY <1>5, Kinds
    <3> QED BY <1>3, <1>4, <3>1 DEF Dropped
  <2>6. InputsArrive(p)'
    <3>1. InputsArrive(p) /\ Len(typed[p]) = 0
      BY <1>1, <1>3 DEF PlayerInv
    <3>2. PICK b \in 0 .. Len(typed[p]) : Upwards(typed[p], up[p], Len(server.inbox[p]), b)
      BY <3>1 DEF InputsArrive
    <3>3. b \in Nat /\ b <= b /\ Carries(typed[p], Ready, b, b)
      BY <3>1, <3>2, Kinds DEF Carries
    <3>4. Upwards(typed[p], up'[p], Len(server.inbox[p]), b)
      BY <1>1, <1>5, <3>2, <3>3, UpwardsSend, SentTypes, ClientTypes
    <3> QED BY <1>2, <1>4, <3>1, <3>2, <3>4 DEF InputsArrive
  <2>7. FramesArrive(p)'
    <3> DEFINE g == [cache |-> <<>>, at |-> 0]
    <3>1. g \in Place
      BY DEF Place, Caches
    <3>2. \A k \in DOMAIN down[p] : ~IsFrames(down[p][k])
      BY <1>3 DEF IsFrames
    <3>3. OnTheWay(Game, Conset[p], down[p], g, g)
      BY <1>1, <3>1, <3>2, OnTheWayNone
    <3>4. Game' = Game /\ Len(<<>>) = 0
      BY <1>4, GameSame
    <3> QED BY <1>2, <1>3, <1>4, <2>2, <3>3, <3>4 DEF FramesArrive
  <2> QED BY <2>3, <2>4, <2>5, <2>6, <2>7 DEF PlayerInv
<1>8. \A q \in Players \ {p} :
        UNCHANGED <<pstat[q], thread[q], running[q], userdata[q], frameno[q], gvQueue[q],
                    cache[q], up[q], down[q], typed[q], given[q]>>
  BY <1>1 DEF StartSequence, SendUp, TypeInv, TypeOK
<1> QED BY <1>4, <1>6, <1>7, <1>8, ClientStep

\* The steps that put p out of the game, by the window or by a time-out.
LEMMA LeaveStep ==
  ASSUME IInv, NEW p \in Players, ~HasBegin(p),
         UNCHANGED <<server, down, typed, given, userdata, frameno, gvQueue, cache>>,
         pstat' = [pstat EXCEPT ![p] = 0],
         thread' = thread \/ thread' = [thread EXCEPT ![p] = "out"],
         running' = running \/ running' = [running EXCEPT ![p] = FALSE],
         UNCHANGED up \/ SendUp(p, <<Drop(p)>>)
  PROVE  IInv'
<1>1. TypeInv /\ up[p] \in Seq(UpMessage)
  BY ClientTypes DEF IInv
<1>2. up'[p] = up[p] \/ up'[p] = Append(up[p], Drop(p))
  BY <1>1 DEF SendUp, TypeInv
<1>3. TypeInv'
  <2>1. up' \in [Players -> Seq(UpMessage)]
    <3>1. up \in [Players -> Seq(UpMessage)] /\ up[p] \o <<Drop(p)>> \in Seq(UpMessage)
      BY <1>1, SentTypes DEF TypeInv
    <3> QED BY <3>1 DEF SendUp
  <2>2. pstat' \in [Players -> 0 .. 2] /\ thread' \in [Players -> {"out", "netsync", "loop"}]
    <3>1. pstat \in [Players -> 0 .. 2] /\ thread \in [Players -> {"out", "netsync", "loop"}]
      BY <1>1 DEF TypeInv, TypeOK
    <3> QED BY <3>1
  <2>3. running' \in [Players -> BOOLEAN]
    <3>1. running \in [Players -> BOOLEAN] /\ FALSE \in BOOLEAN
      BY <1>1 DEF TypeInv, TypeOK
    <3> QED BY <3>1, Zenon
  <2> QED BY <1>1, <2>1, <2>2, <2>3 DEF TypeInv, TypeOK
<1>4. pstat'[p] = 0 /\ ~HasBegin(p)' /\ UNCHANGED <<typed[p], given[p]>>
  BY <1>1 DEF HasBegin, TypeInv, TypeOK
<1>5. PlayerInv(p)'
  BY <1>2, <1>3, <1>4, OutOfGame
<1>6. \A q \in Players \ {p} :
        UNCHANGED <<pstat[q], thread[q], running[q], userdata[q], frameno[q], gvQueue[q],
                    cache[q], up[q], down[q], typed[q], given[q]>>
  BY <1>1 DEF SendUp, TypeInv, TypeOK
<1> QED BY <1>3, <1>5, <1>6, ClientStep

\* Who is out of the game or before it has no thread in MPV.
LEMMA InsideBegan ==
  ASSUME IInv, NEW p \in Players, HasBegin(p)
  PROVE  pstat[p] = 0 /\ thread[p] = "out" /\ ~running[p]
BY DEF IInv, PlayerInv, BeforeBegin

LEMMA NetsyncTimeoutStep ==
  ASSUME IInv, NEW p \in Players, NetsyncTimeout(p)
  PROVE  IInv'
<1>1. ~HasBegin(p)
  BY InsideBegan DEF NetsyncTimeout
<1> QED BY <1>1, LeaveStep DEF NetsyncTimeout

LEMMA NetsyncFailedStep ==
  ASSUME IInv, NEW p \in Players, NetsyncFailed(p)
  PROVE  IInv'
<1>1. ~HasBegin(p)
  BY InsideBegan DEF NetsyncFailed
<1>2. pstat' = [pstat EXCEPT ![p] = 0]
  BY DEF NetsyncFailed, IInv, TypeInv, TypeOK
<1> QED BY <1>1, <1>2, LeaveStep DEF NetsyncFailed

LEMMA GameDropStep ==
  ASSUME IInv, NEW p \in Players, GameDrop(p)
  PROVE  IInv'
<1>1. ~HasBegin(p)
  BY InsideBegan DEF GameDrop
<1> QED BY <1>1, LeaveStep DEF GameDrop

LEMMA LostConnectionStep ==
  ASSUME IInv, NEW p \in Players, LostConnection(p)
  PROVE  IInv'
<1>1. ~HasBegin(p)
  BY InsideBegan DEF LostConnection
<1> QED BY <1>1, LeaveStep DEF LostConnection

LEMMA EndGameStep ==
  ASSUME IInv, NEW p \in Players, EndGame(p)
  PROVE  IInv'
<1>1. ~HasBegin(p)
  BY InsideBegan DEF EndGame
<1> QED BY <1>1, LeaveStep DEF EndGame

LEMMA NetsyncReceiveStep ==
  ASSUME IInv, NEW p \in Players, NetsyncReceive(p)
  PROVE  IInv'
<1> DEFINE d == down[p]
           m == Head(d)
<1>1. TypeInv /\ PlayerInv(p) /\ d \in Seq(DownMessage) /\ ServerInv
  BY ClientTypes DEF IInv
<1>2. /\ pstat[p] = 1 /\ thread[p] = "netsync" /\ d # <<>> /\ down'[p] = Tail(d)
      /\ UNCHANGED <<thread[p], running[p], userdata[p], frameno[p], gvQueue[p], cache[p], up[p],
                     typed[p], given[p]>>
  BY <1>1 DEF NetsyncReceive, TypeInv, TypeOK
<1>3. UNCHANGED server
  BY DEF NetsyncReceive
<1>4. /\ m = Ready => pstat' = [pstat EXCEPT ![p] = 2]
      /\ m = Drop(p) => pstat' = [pstat EXCEPT ![p] = 0]
      /\ m # Ready /\ m # Drop(p) => pstat' = pstat
  <2>1. Ready # Drop(p)
    BY Kinds
  <2> QED BY <2>1 DEF NetsyncReceive
<1>5. TypeInv'
  <2>1. Tail(d) \in Seq(DownMessage)
    BY <1>1, <1>2, TailFacts
  <2>2. down' \in [Players -> Seq(DownMessage)]
    BY <1>1, <2>1 DEF NetsyncReceive, TypeInv
  <2>3. pstat' \in [Players -> 0 .. 2]
    <3>1. pstat \in [Players -> 0 .. 2]
      BY <1>1 DEF TypeInv, TypeOK
    <3> QED BY <1>4, <3>1
  <2> QED BY <1>1, <2>2, <2>3 DEF NetsyncReceive, TypeInv, TypeOK
<1>6. ~HasBegin(p) /\ ~HasBegin(p)'
  BY <1>2, InsideBegan, BeginTaken
<1>7. /\ m = d[1] /\ Len(d) \in Nat \ {0} /\ DOMAIN d = 1 .. Len(d)
      /\ DOMAIN down'[p] = 1 .. Len(d) - 1
      /\ \A i \in 1 .. Len(d) - 1 : down'[p][i] = d[i + 1]
  BY <1>1, <1>2, TailFacts
<1>8. /\ userdata[p] = <<>> /\ gvQueue[p] = <<>> /\ cache[p] = <<>> /\ frameno[p] = 0
      /\ typed[p] = <<>> /\ given[p] = <<>>
      /\ \A k \in DOMAIN d : IsFrames(d[k]) => \E j \in 1 .. k - 1 : d[j] = Ready
      /\ server.synced /\ p \in server.live => \E j \in DOMAIN d : d[j] = Ready
  BY <1>1, <1>2 DEF PlayerInv, InNetsync
<1>9. ~IsFrames(m)
  <2>1. 1 \in DOMAIN d /\ 1 .. 1 - 1 = {}
    BY <1>7
  <2> QED BY <1>7, <1>8, <2>1
<1>10. PlayerInv(p)'
  <2>1. CASE m = Drop(p)
    <3>1. pstat'[p] = 0
      BY <1>1, <1>4, <2>1 DEF TypeInv, TypeOK
    <3> QED BY <1>2, <1>3, <1>5, <1>6, <3>1, OutOfGame
  <2>2. CASE m # Drop(p)
    <3>1. pstat'[p] \in {1, 2} /\ (m # Ready => pstat'[p] = 1) /\ (m = Ready => pstat'[p] = 2)
      BY <1>1, <1>2, <1>4, <2>2 DEF TypeInv, TypeOK
    <3>2. BeforeBegin(p)' /\ BeforeStart(p)'
      BY <1>2, <1>6, <3>1, BeginTaken DEF BeforeBegin, BeforeStart, Fresh
    <3>3. InNetsync(p)'
      <4>1. CASE m = Ready
        BY <3>1, <4>1 DEF InNetsync
      <4>2. CASE m # Ready
        <5>1. ASSUME NEW k \in DOMAIN down'[p], IsFrames(down'[p][k])
              PROVE  \E j \in 1 .. k - 1 : down'[p][j] = Ready
          <6>1. k + 1 \in DOMAIN d /\ down'[p][k] = d[k + 1]
            BY <1>7
          <6>2. PICK j \in 1 .. (k + 1) - 1 : d[j] = Ready
            BY <1>8, <5>1, <6>1
          <6>3. j # 1
            BY <1>7, <4>2, <6>2
          <6>4. j - 1 \in 1 .. k - 1 /\ j - 1 \in 1 .. Len(d) - 1 /\ (j - 1) + 1 = j
            BY <1>7, <6>2, <6>3
          <6> QED BY <1>7, <6>2, <6>4
        <5>2. ASSUME server.synced, p \in server.live
              PROVE  \E j \in DOMAIN down'[p] : down'[p][j] = Ready
          <6>1. PICK j \in DOMAIN d : d[j] = Ready
            BY <1>8, <5>2
          <6>2. j # 1
            BY <1>7, <4>2, <6>1
          <6>3. j - 1 \in DOMAIN down'[p] /\ (j - 1) + 1 = j
            BY <1>7, <6>1, <6>2
          <6> QED BY <1>7, <6>1, <6>3
        <5> HIDE DEF d
        <5> QED BY <1>2, <1>3, <1>8, <5>1, <5>2 DEF InNetsync
      <4> QED BY <4>1, <4>2
    <3>4. Counts(p)'
      <4>1. Delay(p) \in Nat /\ Conset[p] \in Nat \ {0} /\ Len(<<>>) = 0
        BY DelayFillsPacket, ConstantTypes
      <4>2. Delay(p)' = Delay(p)
        BY DEF Delay, FullDelay
      <4> QED BY <1>2, <1>8, <4>1, <4>2 DEF Counts
    <3>5. Dropped(p)'
      BY <1>1, <1>2, <1>3, <1>6 DEF PlayerInv, Dropped
    <3>6. InputsArrive(p)'
      <4>1. InputsArrive(p) /\ Len(typed[p]) = 0 /\ Len(userdata[p]) = 0
        BY <1>1, <1>8 DEF PlayerInv
      <4>2. PICK b \in 0 .. Len(typed[p]) : Upwards(typed[p], up[p], Len(server.inbox[p]), b)
        BY <4>1 DEF InputsArrive
      <4>3. b = 0 /\ FramesSent(p)' = 0 /\ Len(userdata'[p]) = 0
        BY <1>2, <4>1, <4>2 DEF FramesSent
      <4> QED BY <1>2, <1>3, <4>1, <4>2, <4>3 DEF InputsArrive
    <3>7. FramesArrive(p)'
      <4> DEFINE g == [cache |-> cache[p], at |-> Len(given[p]) + Len(gvQueue[p])]
                 e == [cache |-> server.cache[p], at |-> server.taken[p]]
      <4>1. /\ OnTheWay(Game, Conset[p], d, g, e) /\ Len(given[p]) <= server.taken[p]
            /\ \A k \in 1 .. Len(given[p]) : given[p][k] = Game[k]
            /\ \A k \in 1 .. Len(gvQueue[p]) : gvQueue[p][k] = Game[Len(given[p]) + k]
        BY <1>1, <1>2 DEF PlayerInv, FramesArrive, InGame
      <4>2. PICK f \in Place : Moves(Game, Conset[p], m, g, f)
                               /\ OnTheWay(Game, Conset[p], Tail(d), f, e)
        BY <1>1, <1>2, <4>1, OnTheWayTake
      <4>3. f = g
        BY <1>9, <4>2 DEF Moves, IsFrames
      <4>4. OnTheWay(Game, Conset[p], Tail(d), g, e)
        BY <4>2, <4>3
      <4> HIDE DEF d
      <4> QED BY <1>2, <1>3, <4>1, <4>4, GameSame DEF FramesArrive
    <3> QED BY <3>2, <3>3, <3>4, <3>5, <3>6, <3>7 DEF PlayerInv
  <2> QED BY <2>1, <2>2
<1>11. \A q \in Players \ {p} :
        UNCHANGED <<pstat[q], thread[q], running[q], userdata[q], frameno[q], gvQueue[q],
                    cache[q], up[q], down[q], typed[q], given[q]>>
  BY <1>1, <1>4 DEF NetsyncReceive, TypeInv, TypeOK
<1> QED BY <1>3, <1>5, <1>10, <1>11, ClientStep
-----------------------------------------------------------------------------
(* The loop of kaillera_modify_play_values                                 *)

\* q is the game after what p was given, and d and the cache c bring p to the server's place.
Follows(p, q, c, d) ==
  /\ q \in Seq(Frame) /\ c \in Caches /\ d \in Seq(DownMessage)
  /\ \A k \in 1 .. Len(q) : q[k] = Game[Len(given[p]) + k]
  /\ Len(given[p]) + Len(q) <= server.taken[p]
  /\ OnTheWay(Game, Conset[p], d, [cache |-> c, at |-> Len(given[p]) + Len(q)],
              [cache |-> server.cache[p], at |-> server.taken[p]])

LEMMA QueueFollows ==
  ASSUME IInv, NEW p \in Players, InGame(p)
  PROVE  Follows(p, gvQueue[p], cache[p], down[p])
<1>1. TypeInv /\ FramesArrive(p)
  BY DEF IInv, PlayerInv
<1> QED BY <1>1, ClientTypes, TakenIsTyped DEF Follows, FramesArrive

LEMMA PacketType ==
  ASSUME NEW G \in [Nat \ {0} -> Frame], NEW n \in Nat, NEW a \in Nat
  PROVE  /\ Packet(G, n, a) \in Seq(Frame) /\ Len(Packet(G, n, a)) = n
         /\ \A i \in 1 .. n : Packet(G, n, a)[i] = G[a + i]
<1>1. \A i \in 1 .. n : a + i \in Nat \ {0}
  OBVIOUS
<1>2. \A i \in 1 .. n : G[a + i] \in Frame
  BY <1>1
<1>3. Packet(G, n, a) \in [1 .. n -> Frame]
  BY <1>2 DEF Packet
<1> QED BY <1>3 DEF Packet

\* v is the game after its first b frames, and f what comes after v.
LEMMA GameJoins ==
  ASSUME NEW G, NEW b \in Nat, NEW v \in Seq(Frame), NEW f \in Seq(Frame),
         \A k \in 1 .. Len(v) : v[k] = G[b + k],
         \A k \in 1 .. Len(f) : f[k] = G[b + Len(v) + k]
  PROVE  /\ v \o f \in Seq(Frame) /\ Len(v \o f) = Len(v) + Len(f)
         /\ \A k \in 1 .. Len(v \o f) : (v \o f)[k] = G[b + k]
<1> DEFINE q == v \o f
<1>1. /\ q \in Seq(Frame) /\ Len(q) = Len(v) + Len(f) /\ Len(v) \in Nat /\ Len(f) \in Nat
      /\ \A i \in 1 .. Len(v) : q[i] = v[i]
      /\ \A i \in Len(v) + 1 .. Len(v) + Len(f) : q[i] = f[i - Len(v)]
  BY ConcatFacts
<1> HIDE DEF q
<1>2. ASSUME NEW k \in 1 .. Len(q) PROVE q[k] = G[b + k]
  <2>1. CASE k \in 1 .. Len(v)
    BY <1>1, <2>1
  <2>2. CASE k \in Len(v) + 1 .. Len(v) + Len(f)
    <3>1. k - Len(v) \in 1 .. Len(f) /\ b + Len(v) + (k - Len(v)) = b + k
      BY <1>1, <2>2
    <3> QED BY <1>1, <2>2, <3>1
  <2> QED BY <1>1, <2>1, <2>2
<1> QED BY <1>1, <1>2 DEF q

\* The frames of a message are the next ones, also when it only says where they are.
LEMMA MessageFollows ==
  ASSUME IInv, NEW p \in Players, InGame(p), down[p] # <<>>,
         NEW c, c = (IF Head(down[p]).kind = "GAMEDATA"
                     THEN CacheAdd(cache[p], Head(down[p]).frames) ELSE cache[p])
  PROVE  Follows(p, gvQueue[p] \o FramesOf(p, Head(down[p])), c, Tail(down[p]))
<1>1. /\ TypeInv /\ Follows(p, gvQueue[p], cache[p], down[p])
      /\ Game \in [Nat \ {0} -> Frame]
  BY QueueFollows, GameType DEF IInv
<1>2. Head(down[p]) \in DownMessage /\ Tail(down[p]) \in Seq(DownMessage)
  BY <1>1, ClientTypes, TailFacts
<1>3. PICK b \in Nat : b = Len(given[p])
  BY <1>1, ClientTypes
<1>4. PICK v \in Seq(Frame) : v = gvQueue[p]
  BY <1>1, ClientTypes
<1>5. PICK n \in Nat : n = Conset[p]
  BY ConstantTypes
<1>6. PICK m \in DownMessage : m = Head(down[p])
  BY <1>2
<1>7. PICK a \in Nat : a = b + Len(v)
  <2>1. Len(v) \in Nat
    OBVIOUS
  <2>2. b + Len(v) \in Nat
    BY <2>1
  <2> QED BY <2>2
<1>8. PICK t \in Nat : t = server.taken[p]
  BY <1>1, ClientTypes
<1>9. PICK f : f = FramesOf(p, m)
  OBVIOUS
<1> DEFINE g == [cache |-> cache[p], at |-> a]
           e == [cache |-> server.cache[p], at |-> t]
<1>10. /\ OnTheWay(Game, n, down[p], g, e)
       /\ \A k \in 1 .. Len(v) : v[k] = Game[b + k]
  BY <1>1, <1>3, <1>4, <1>5, <1>7, <1>8 DEF Follows
<1>11. PICK h \in Place : /\ Moves(Game, n, m, g, h) /\ h.at <= t
                          /\ OnTheWay(Game, n, Tail(down[p]), h, e)
  <2>1. down[p] \in Seq(DownMessage) /\ e.at = t
    BY <1>1, ClientTypes
  <2> HIDE DEF g, e
  <2> QED BY <1>6, <1>10, <2>1, OnTheWayTake
<1>12. /\ Packet(Game, n, a) \in Seq(Frame) /\ Len(Packet(Game, n, a)) = n
       /\ \A i \in 1 .. n : Packet(Game, n, a)[i] = Game[a + i]
  BY <1>1, PacketType
<1>13. /\ IsFrames(m) => f = Packet(Game, n, a) /\ h.at = a + n
       /\ ~IsFrames(m) => f = <<>> /\ h.at = a
       /\ h.cache = c
  <2>1. CASE m.kind = "GAMEDATA"
    <3>1. h = [cache |-> CacheAdd(cache[p], m.frames), at |-> a + n] /\ m.frames = Packet(Game, n, a)
      BY <1>11, <2>1 DEF Moves, IsFrames
    <3>2. FramesOf(p, m) = m.frames
      BY <2>1 DEF FramesOf
    <3> QED BY <1>6, <1>9, <2>1, <3>1, <3>2 DEF IsFrames
  <2>2. CASE m.kind = "GAMCDATA"
    <3>1. /\ m.index < Len(cache[p]) /\ cache[p][m.index + 1] = Packet(Game, n, a)
          /\ h = [cache |-> cache[p], at |-> a + n]
      BY <1>11, <2>2 DEF Moves, IsFrames
    <3>2. FramesOf(p, m) = cache[p][m.index + 1]
      BY <2>2, <3>1 DEF FramesOf
    <3> QED BY <1>6, <1>9, <2>2, <3>1, <3>2 DEF IsFrames
  <2>3. CASE ~IsFrames(m)
    <3>1. h = g
      BY <1>11, <2>3 DEF Moves, IsFrames
    <3>2. FramesOf(p, m) = <<>>
      BY <2>3 DEF FramesOf, IsFrames
    <3> QED BY <1>6, <1>9, <2>3, <3>1, <3>2 DEF IsFrames
  <2> QED BY <2>1, <2>2, <2>3 DEF IsFrames
<1>14. f \in Seq(Frame) /\ h.at = a + Len(f) /\ \A i \in 1 .. Len(f) : f[i] = Game[a + i]
  <2>1. CASE IsFrames(m)
    BY <1>12, <1>13, <2>1
  <2>2. CASE ~IsFrames(m)
    <3>1. f = <<>> /\ Len(<<>>) = 0 /\ <<>> \in Seq(Frame) /\ h.at = a + 0
      BY <1>13, <2>2
    <3> QED BY <3>1
  <2> QED BY <2>1, <2>2
<1> DEFINE q == v \o f
<1>15. /\ q \in Seq(Frame) /\ Len(q) = Len(v) + Len(f) /\ \A k \in 1 .. Len(q) : q[k] = Game[b + k]
  BY <1>7, <1>10, <1>14, GameJoins
<1> HIDE DEF q, g
<1>16. h.at = b + Len(q)
  BY <1>7, <1>14, <1>15
<1>17. h = [cache |-> c, at |-> b + Len(q)] /\ c \in Caches
  BY <1>13, <1>16 DEF Place
<1>18. b + Len(q) <= t
  BY <1>11, <1>16
<1>19. OnTheWay(Game, n, Tail(down[p]), [cache |-> c, at |-> b + Len(q)], e)
  BY <1>11, <1>17
<1>20. Follows(p, q, c, Tail(down[p]))
  BY <1>2, <1>3, <1>5, <1>8, <1>15, <1>17, <1>18, <1>19 DEF Follows, e
<1> QED BY <1>4, <1>6, <1>9, <1>20 DEF q

\* One turn that does not end the game.
LEMMA FinishPlays ==
  ASSUME IInv, TypeInv', NEW p \in Players, UNCHANGED server,
         pstat[p] = 2, pstat'[p] = 2, thread[p] = "loop",
         UNCHANGED <<userdata[p], up[p], typed[p]>>,
         NEW q, Finish(p, q), Follows(p, q, cache'[p], down'[p]),
         down'[p] = down[p] \/ (down[p] # <<>> /\ down'[p] = Tail(down[p]))
  PROVE  PlayerInv(p)'
<1>1. TypeInv /\ PlayerInv(p) /\ InGame(p)
  BY DEF IInv, InGame
<1>2. ~HasBegin(p) /\ ~HasBegin(p)'
  <2>1. ~HasBegin(p)
    BY InsideBegan
  <2> QED BY <2>1, BeginTaken DEF HasBegin
<1>3. BeforeBegin(p)' /\ BeforeStart(p)' /\ InNetsync(p)'
  BY <1>2 DEF BeforeBegin, BeforeStart, InNetsync, Fresh, HasBegin
<1>4. Dropped(p)'
  BY <1>1, <1>2 DEF PlayerInv, Dropped
<1>5. InputsArrive(p)'
  BY InputsStay
<1>6. PICK n \in Nat : n = frameno[p]
  BY <1>1, ClientTypes
<1>7. PICK D \in Nat : D = Delay(p)
  BY DelayFillsPacket
<1>8. PICK b \in Nat : b = Len(given[p])
  BY <1>1, ClientTypes
<1>9. PICK t \in Nat : t = server.taken[p]
  BY <1>1, ClientTypes
<1>10. /\ Len(typed[p]) = n + 1 /\ b = (IF n <= D THEN 0 ELSE n - D)
       /\ Len(userdata[p]) < Conset[p]
  BY <1>1, <1>6, <1>7, <1>8 DEF PlayerInv, Counts
<1>11. t <= n + 1
  <2>1. PICK i \in Nat : i = Len(server.inbox[p])
    BY <1>1, ClientTypes
  <2>2. t <= i /\ i <= n + 1
    BY <1>9, <1>10, <2>1, TakenIsTyped
  <2> QED BY <2>2
<1>12. PICK l \in Nat : l = Len(q)
  BY DEF Follows
<1>13. /\ q \in Seq(Frame) /\ b + l <= t
       /\ \A k \in 1 .. l : q[k] = Game[b + k]
       /\ OnTheWay(Game, Conset[p], down'[p], [cache |-> cache'[p], at |-> b + l],
                   [cache |-> server.cache[p], at |-> t])
  BY <1>8, <1>9, <1>12 DEF Follows
<1>14. /\ given[p] \in Seq(Frame) /\ gvQueue[p] \in Seq(Frame)
       /\ \A k \in 1 .. b : given[p][k] = Game[k]
       /\ Len(gvQueue[p]) <= D
  BY <1>1, <1>7, <1>8, ClientTypes DEF PlayerInv, FramesArrive, Counts
<1>15. Game' = Game /\ Delay(p)' = Delay(p)
  BY GameSame DEF Delay, FullDelay
<1>16. \/ /\ n < D /\ frameno'[p] = n + 1 /\ thread'[p] = "out" /\ gvQueue'[p] = q
          /\ given'[p] = given[p]
       \/ /\ n >= D /\ q # <<>> /\ frameno'[p] = n + 1 /\ thread'[p] = "out"
          /\ gvQueue'[p] = Tail(q) /\ given'[p] = Append(given[p], Head(q))
       \/ /\ n >= D /\ q = <<>> /\ frameno'[p] = n /\ thread'[p] = "loop" /\ gvQueue'[p] = q
          /\ given'[p] = given[p]
  BY <1>1, <1>6, <1>7 DEF Finish, TypeInv, TypeOK
<1>17. CASE gvQueue'[p] = q /\ given'[p] = given[p]
  <2>1. Counts(p)'
    <3>1. CASE n < D /\ frameno'[p] = n + 1 /\ thread'[p] = "out"
      <4>1. l <= D /\ b = 0 /\ n + 1 <= D
        BY <1>10, <1>11, <1>13, <3>1
      <4>2. /\ Len(typed'[p]) = frameno'[p] + 0 /\ frameno'[p] <= Delay(p)' /\ Len(given'[p]) = 0
            /\ Len(userdata'[p]) < Conset[p] /\ Len(gvQueue'[p]) <= Delay(p)'
        <5>1. typed'[p] = typed[p] /\ userdata'[p] = userdata[p]
          OBVIOUS
        <5>2. Len(typed'[p]) = n + 1 /\ Len(userdata'[p]) < Conset[p]
          BY <1>10, <5>1
        <5>3. Len(given'[p]) = b /\ Len(gvQueue'[p]) = l /\ Delay(p)' = D
          BY <1>7, <1>8, <1>12, <1>15, <1>17
        <5> QED BY <3>1, <4>1, <5>2, <5>3
      <4> QED BY <3>1, <4>2 DEF Counts
    <3>2. CASE n >= D /\ q = <<>> /\ frameno'[p] = n /\ thread'[p] = "loop"
      <4>1. Len(gvQueue'[p]) <= D
        BY <1>17, <3>2
      <4>2. UNCHANGED <<frameno[p], thread[p], typed[p], given[p], userdata[p], pstat[p]>>
        BY <1>6, <1>17, <3>2
      <4>3. Counts(p)
        BY <1>1 DEF PlayerInv
      <4> QED BY <1>7, <1>15, <3>2, <4>1, <4>2, <4>3 DEF Counts
    <3>3. CASE q # <<>> /\ gvQueue'[p] = Tail(q)
      <4>1. Len(Tail(q)) = Len(q) - 1 /\ Len(q) \in Nat
        BY <1>13, <3>3, TailFacts
      <4> QED BY <1>17, <3>3, <4>1
    <3> QED BY <1>16, <3>1, <3>2, <3>3
  <2>2. FramesArrive(p)'
    <3>1. b <= t
      BY <1>13
    <3> QED BY <1>8, <1>9, <1>12, <1>13, <1>14, <1>15, <1>17, <3>1 DEF FramesArrive
  <2> QED BY <1>3, <1>4, <1>5, <2>1, <2>2 DEF PlayerInv
<1>18. CASE /\ n >= D /\ q # <<>> /\ frameno'[p] = n + 1 /\ thread'[p] = "out"
            /\ gvQueue'[p] = Tail(q) /\ given'[p] = Append(given[p], Head(q))
  <2>1. /\ Head(q) = q[1] /\ Head(q) \in Frame /\ Tail(q) \in Seq(Frame) /\ l > 0
        /\ Len(Tail(q)) = l - 1 /\ \A k \in 1 .. l - 1 : Tail(q)[k] = q[k + 1]
    BY <1>12, <1>13, <1>18, TailFacts
  <2>2. /\ Len(given'[p]) = b + 1 /\ given'[p][b + 1] = q[1]
        /\ \A k \in 1 .. b : given'[p][k] = given[p][k]
    BY <1>8, <1>14, <1>18, <2>1
  <2>3. /\ b + l <= t /\ b + 1 <= t /\ q[1] = Game[b + 1] /\ 1 \in 1 .. l
        /\ (b + 1) + (l - 1) = b + l
    BY <1>13, <2>1
  <2>4. Counts(p)'
    <3>1. b = n - D /\ l - 1 <= D /\ b + 1 = n + 1 - D /\ n + 1 > D
      BY <1>10, <1>11, <1>18, <2>3
    <3>2. /\ Len(typed'[p]) = frameno'[p] + 0 /\ Len(given'[p]) = frameno'[p] - Delay(p)'
          /\ ~(frameno'[p] <= Delay(p)') /\ Len(userdata'[p]) < Conset[p]
          /\ Len(gvQueue'[p]) <= Delay(p)'
      BY <1>7, <1>10, <1>15, <1>18, <2>1, <2>2, <3>1
    <3> QED BY <1>18, <3>2 DEF Counts
  <2>5. FramesArrive(p)'
    <3>1. \A k \in 1 .. b + 1 : given'[p][k] = Game[k]
      <4>1. \A k \in 1 .. b + 1 : k \in 1 .. b \/ k = b + 1
        OBVIOUS
      <4> QED BY <1>14, <2>2, <2>3, <4>1
    <3>2. \A k \in 1 .. l - 1 : Tail(q)[k] = Game[(b + 1) + k]
      <4>1. \A k \in 1 .. l - 1 : k + 1 \in 1 .. l /\ b + (k + 1) = (b + 1) + k
        OBVIOUS
      <4> QED BY <1>13, <2>1, <4>1
    <3>3. OnTheWay(Game, Conset[p], down'[p], [cache |-> cache'[p], at |-> (b + 1) + (l - 1)],
                   [cache |-> server.cache[p], at |-> t])
      BY <1>13, <2>3
    <3> QED BY <1>9, <1>15, <1>18, <2>1, <2>2, <2>3, <3>1, <3>2, <3>3 DEF FramesArrive
  <2> QED BY <1>3, <1>4, <1>5, <2>4, <2>5 DEF PlayerInv
<1> QED BY <1>16, <1>17, <1>18

\* Turns of every kind: with q in gv_queue, the cache c and the messages d left.
LEMMA LoopTurn ==
  ASSUME IInv, NEW p \in Players, thread[p] = "loop",
         NEW q \in Seq(Frame), Finish(p, q),
         NEW c \in Caches, cache' = [cache EXCEPT ![p] = c],
         NEW d, d = down[p] \/ (down[p] # <<>> /\ d = Tail(down[p])),
         down' = [down EXCEPT ![p] = d],
         pstat' = pstat \/ pstat' = [pstat EXCEPT ![p] = 0],
         UNCHANGED <<running, userdata, up, server, typed>>,
         InGame(p) => Follows(p, q, c, d)
  PROVE  IInv'
<1>1. TypeInv /\ PlayerInv(p) /\ down[p] \in Seq(DownMessage)
  BY ClientTypes DEF IInv
<1>2. d \in Seq(DownMessage)
  <2>1. down[p] # <<>> => Tail(down[p]) \in Seq(DownMessage)
    BY <1>1, TailFacts
  <2> QED BY <1>1, <2>1
<1>3. q # <<>> => Head(q) \in Frame /\ Tail(q) \in Seq(Frame)
  BY TailFacts
<1>4. /\ down' \in [Players -> Seq(DownMessage)] /\ down'[p] = d
      /\ cache' \in [Players -> Seq(Seq(Frame))] /\ cache'[p] = c
      /\ pstat' \in [Players -> 0 .. 2] /\ (pstat'[p] = pstat[p] \/ pstat'[p] = 0)
  <2>1. down' \in [Players -> Seq(DownMessage)] /\ down'[p] = d
    BY <1>1, <1>2 DEF TypeInv
  <2>2. cache' \in [Players -> Seq(Seq(Frame))] /\ cache'[p] = c
    BY <1>1 DEF TypeInv, TypeOK, Caches
  <2>3. pstat' \in [Players -> 0 .. 2] /\ (pstat'[p] = pstat[p] \/ pstat'[p] = 0)
    <3>1. pstat \in [Players -> 0 .. 2]
      BY <1>1 DEF TypeInv, TypeOK
    <3>2. CASE pstat' = pstat
      BY <3>1, <3>2
    <3>3. CASE pstat' = [pstat EXCEPT ![p] = 0]
      BY <3>1, <3>3
    <3> QED BY <3>2, <3>3
  <2> QED BY <2>1, <2>2, <2>3
<1>5. /\ gvQueue' \in [Players -> Seq(Frame)] /\ given' \in [Players -> Seq(Frame)]
      /\ frameno' \in [Players -> Nat] /\ thread' \in [Players -> {"out", "netsync", "loop"}]
  <2>1. /\ gvQueue \in [Players -> Seq(Frame)] /\ given \in [Players -> Seq(Frame)]
        /\ frameno \in [Players -> Nat] /\ thread \in [Players -> {"out", "netsync", "loop"}]
    BY <1>1 DEF TypeInv, TypeOK
  <2>2. q # <<>> => Append(given[p], Head(q)) \in Seq(Frame)
    <3>1. given[p] \in Seq(Frame)
      BY <2>1
    <3> QED BY <1>3, <3>1
  <2>3. frameno[p] + 1 \in Nat
    BY <2>1
  <2>4. gvQueue' \in [Players -> Seq(Frame)]
    BY <1>3, <2>1 DEF Finish
  <2>5. given' \in [Players -> Seq(Frame)]
    BY <2>1, <2>2 DEF Finish
  <2>6. frameno' \in [Players -> Nat]
    BY <2>1, <2>3 DEF Finish
  <2>7. thread' \in [Players -> {"out", "netsync", "loop"}]
    BY <2>1 DEF Finish
  <2> QED BY <2>4, <2>5, <2>6, <2>7
<1>6. TypeInv'
  BY <1>1, <1>4, <1>5 DEF TypeInv, TypeOK
<1>7. PlayerInv(p)'
  <2>1. CASE pstat'[p] = 0
    <3>1. ~HasBegin(p)'
      <4>1. ~HasBegin(p)
        BY InsideBegan
      <4>2. CASE d = down[p]
        <5>1. down'[p] = down[p]
          BY <1>4, <4>2
        <5> QED BY <4>1, <5>1 DEF HasBegin
      <4>3. CASE down[p] # <<>> /\ d = Tail(down[p])
        <5>1. HasBegin(p)' => HasBegin(p)
          BY <1>4, <4>3, BeginTaken
        <5> QED BY <4>1, <5>1
      <4> QED BY <4>2, <4>3
    <3>2. given'[p] = given[p]
      BY <2>1 DEF Finish
    <3> QED BY <1>6, <2>1, <3>1, <3>2, OutOfGame
  <2>2. CASE pstat'[p] # 0
    <3>1. pstat[p] = 2 /\ pstat'[p] = 2
      <4>1. pstat[p] # 1
        BY <1>1 DEF PlayerInv, InNetsync
      <4> QED BY <1>1, <1>4, <2>2, <4>1 DEF TypeInv, TypeOK
    <3>2. Follows(p, q, cache'[p], down'[p])
      BY <1>4, <3>1 DEF InGame
    <3>3. UNCHANGED <<userdata[p], up[p], typed[p]>>
      OBVIOUS
    <3> QED BY <1>4, <1>6, <3>1, <3>2, <3>3, FinishPlays
  <2> QED BY <2>1, <2>2
<1>8. \A r \in Players \ {p} :
        UNCHANGED <<pstat[r], thread[r], running[r], userdata[r], frameno[r], gvQueue[r],
                    cache[r], up[r], down[r], typed[r], given[r]>>
  <2>1. \A r \in Players \ {p} : UNCHANGED <<pstat[r], cache[r], down[r]>>
    BY <1>1 DEF TypeInv, TypeOK
  <2>2. \A r \in Players \ {p} : UNCHANGED <<thread[r], frameno[r]>>
    BY <1>1 DEF Finish, TypeInv, TypeOK
  <2>3. \A r \in Players \ {p} : UNCHANGED <<gvQueue[r], given[r]>>
    BY <1>1 DEF Finish, TypeInv, TypeOK
  <2> QED BY <2>1, <2>2, <2>3
<1> QED BY <1>6, <1>7, <1>8, ClientStep

LEMMA LoopIdleStep ==
  ASSUME IInv, NEW p \in Players, LoopIdle(p)
  PROVE  IInv'
<1>1. TypeInv /\ gvQueue[p] \in Seq(Frame) /\ cache[p] \in Caches
  BY ClientTypes DEF IInv
<1>2. cache' = [cache EXCEPT ![p] = cache[p]] /\ down' = [down EXCEPT ![p] = down[p]]
  BY <1>1 DEF LoopIdle, TypeInv, TypeOK
<1>3. InGame(p) => Follows(p, gvQueue[p], cache[p], down[p])
  BY QueueFollows
<1>4. /\ thread[p] = "loop" /\ Finish(p, gvQueue[p]) /\ pstat' = pstat
      /\ UNCHANGED <<running, userdata, up, server, typed>>
  BY DEF LoopIdle
<1> QED BY <1>1, <1>2, <1>3, <1>4, LoopTurn

LEMMA LoopReceiveStep ==
  ASSUME IInv, NEW p \in Players, LoopReceive(p)
  PROVE  IInv'
<1> DEFINE m == Head(down[p])
           q == gvQueue[p] \o FramesOf(p, m)
           c == IF m.kind = "GAMEDATA" THEN CacheAdd(cache[p], m.frames) ELSE cache[p]
<1>1. /\ TypeInv /\ gvQueue[p] \in Seq(Frame) /\ cache[p] \in Caches
      /\ down[p] \in Seq(DownMessage) /\ down[p] # <<>>
  BY ClientTypes DEF IInv, LoopReceive
<1>2. m \in DownMessage
  BY <1>1, TailFacts
<1>3. OldFrame \in Frame
  BY DEF OldFrame, Frame
<1>4. FramesOf(p, m) \in Seq(Frame)
  <2>1. CASE m.kind = "GAMEDATA"
    BY <1>2, <2>1, DownKinds DEF FramesOf
  <2>2. CASE m.kind = "GAMCDATA" /\ m.index < Len(cache[p])
    <3>1. m.index + 1 \in 1 .. Len(cache[p])
      BY <1>1, <1>2, <2>2, DownKinds DEF Caches
    <3>2. cache[p][m.index + 1] \in Seq(Frame)
      BY <1>1, <3>1 DEF Caches
    <3> QED BY <2>2, <3>2 DEF FramesOf
  <2>3. CASE m.kind = "GAMCDATA" /\ ~(m.index < Len(cache[p]))
    BY <1>3, <2>3 DEF FramesOf
  <2>4. CASE m.kind \notin {"GAMEDATA", "GAMCDATA"}
    BY <2>4 DEF FramesOf
  <2> QED BY <2>1, <2>2, <2>3, <2>4
<1>5. q \in Seq(Frame)
  BY <1>1, <1>4
<1>6. c \in Caches
  <2>1. CASE m.kind = "GAMEDATA"
    <3>1. m.frames \in Seq(Frame) /\ CacheLimit \in Nat \ {0}
      BY <1>2, <2>1, DownKinds, KGameAssumption
    <3>2. Len(cache[p]) = CacheLimit => Tail(cache[p]) \in Caches
      <4>1. CASE Len(cache[p]) = CacheLimit
        <5>1. cache[p] # <<>>
          BY <3>1, <4>1
        <5> QED BY <1>1, <5>1, TailFacts DEF Caches
      <4> QED BY <4>1
    <3>3. CacheAdd(cache[p], m.frames) \in Caches
      BY <1>1, <3>1, <3>2 DEF CacheAdd, Caches
    <3> QED BY <2>1, <3>3
  <2> QED BY <1>1, <2>1
<1>7. /\ thread[p] = "loop" /\ down' = [down EXCEPT ![p] = Tail(down[p])]
      /\ UNCHANGED <<running, userdata, up, server, typed>>
  BY DEF LoopReceive
<1>8. Process(p, m) /\ Finish(p, q)
  BY DEF LoopReceive
<1>9. cache' = [cache EXCEPT ![p] = c] /\ (pstat' = pstat \/ pstat' = [pstat EXCEPT ![p] = 0])
  BY <1>8 DEF Process
<1>10. InGame(p) => Follows(p, q, c, Tail(down[p]))
  BY <1>1, MessageFollows
<1> HIDE DEF q, c, m
<1> QED BY <1>1, <1>5, <1>6, <1>7, <1>8, <1>9, <1>10, LoopTurn

LEMMA PutDataStep ==
  ASSUME IInv, NEW p \in Players, NEW v \in Inputs[p], PutData(p, v)
  PROVE  IInv'
<1>1. TypeInv /\ PlayerInv(p) /\ v \in AllInputs
  BY ConstantTypes DEF IInv
<1>2. PICK s \in Seq(AllInputs \cup {Nothing}) : s = userdata[p]
  BY <1>1, ClientTypes
<1>3. PICK t \in Seq(AllInputs) : t = typed[p]
  BY <1>1, ClientTypes
<1>4. PICK w \in Seq(AllInputs \cup {Nothing}) : w = Append(s, v)
  <2>1. v \in AllInputs \cup {Nothing}
    BY <1>1
  <2>2. Append(s, v) \in Seq(AllInputs \cup {Nothing})
    BY <2>1, AppendProperties
  <2> QED BY <2>2
<1>5. /\ Len(w) = Len(s) + 1 /\ w[Len(s) + 1] = v /\ Len(s) \in Nat
      /\ \A i \in 1 .. Len(s) : w[i] = s[i]
  BY <1>1, <1>4
<1>6. /\ pstat[p] = 2 /\ thread[p] \in {"out", "netsync"} /\ thread'[p] = "loop"
      /\ typed'[p] = Append(t, v)
      /\ UNCHANGED <<pstat, running, frameno, gvQueue, cache, down, server, given>>
  <2>1. /\ pstat[p] = 2 /\ thread[p] \in {"out", "netsync"}
        /\ thread' = [thread EXCEPT ![p] = "loop"] /\ typed' = [typed EXCEPT ![p] = Append(@, v)]
        /\ UNCHANGED <<pstat, running, frameno, gvQueue, cache, down, server, given>>
    BY DEF PutData
  <2>2. thread'[p] = "loop" /\ typed'[p] = Append(t, v)
    BY <1>1, <1>3, <2>1 DEF TypeInv, TypeOK
  <2> QED BY <2>1, <2>2
<1>7. PICK t2 \in Seq(AllInputs) : t2 = typed'[p]
  <2>1. Append(t, v) \in Seq(AllInputs)
    BY <1>1, AppendProperties
  <2> QED BY <1>6, <2>1
<1>8. /\ Len(t2) = Len(t) + 1 /\ t2[Len(t) + 1] = v /\ Len(t) \in Nat
      /\ \A i \in 1 .. Len(t) : t2[i] = t[i]
  BY <1>1, <1>6, <1>7
<1>9. PICK a \in Nat : a = Len(server.inbox[p])
  BY <1>1, ClientTypes
<1>10. PICK b \in 0 .. Len(t) : /\ Upwards(t, up[p], a, b) /\ b = Len(t) - Len(s)
                                /\ \A i \in 1 .. Len(s) : s[i] = t[b + i]
  <2>1. InputsArrive(p) /\ FramesSent(p) = Len(t) - Len(s)
    BY <1>1, <1>2, <1>3 DEF PlayerInv, FramesSent
  <2>2. PICK b \in 0 .. Len(t) : /\ Upwards(t, up[p], a, b) /\ b = FramesSent(p)
                                 /\ \A i \in 1 .. Len(userdata[p]) : userdata[p][i] = t[b + i]
    BY <1>3, <1>6, <1>9, <2>1 DEF InputsArrive
  <2> QED BY <1>2, <2>1, <2>2
<1>11. \A i \in 1 .. Len(w) : w[i] = t2[b + i]
  <2> SUFFICES ASSUME NEW i \in 1 .. Len(w) PROVE w[i] = t2[b + i]
    OBVIOUS
  <2>1. CASE i \in 1 .. Len(s)
    <3>1. b + i \in 1 .. Len(t)
      BY <1>5, <1>8, <1>10, <2>1
    <3> QED BY <1>5, <1>8, <1>10, <2>1, <3>1
  <2>2. CASE i = Len(s) + 1
    <3>1. b + i = Len(t) + 1
      BY <1>5, <1>8, <1>10, <2>2
    <3> QED BY <1>5, <1>8, <2>2, <3>1
  <2> QED BY <1>5, <2>1, <2>2
<1>12. w \in Seq(AllInputs)
  <2>1. \A i \in 1 .. Len(w) : b + i \in 1 .. Len(t2)
    BY <1>5, <1>8, <1>10
  <2>2. ASSUME NEW i \in 1 .. Len(w) PROVE w[i] \in AllInputs
    <3>1. PICK j \in 1 .. Len(t2) : j = b + i
      BY <2>1
    <3>2. t2[j] \in AllInputs
      BY ElementOfSeq
    <3> QED BY <1>11, <3>1, <3>2
  <2>3. w \in [1 .. Len(w) -> AllInputs] /\ Len(w) \in Nat
    BY <2>2
  <2> QED BY <2>3
<1>13. PICK n \in Nat : n = Conset[p]
  BY ConstantTypes
<1>14. \/ /\ Len(w) >= n /\ up' = [up EXCEPT ![p] = Append(up[p], Data(w))]
          /\ userdata' = [userdata EXCEPT ![p] = <<>>]
       \/ /\ Len(w) < n /\ up' = up
          /\ userdata' = [userdata EXCEPT ![p] = w]
  <2>1. CASE Len(w) >= n
    <3>1. SendUp(p, <<Data(w)>>) /\ userdata' = [userdata EXCEPT ![p] = <<>>]
      BY <1>2, <1>4, <1>13, <2>1 DEF PutData
    <3>2. up[p] \o <<Data(w)>> = Append(up[p], Data(w))
      BY <1>1, <1>12, ClientTypes, SentTypes
    <3> QED BY <2>1, <3>1, <3>2 DEF SendUp
  <2>2. CASE ~(Len(w) >= n)
    <3>1. UNCHANGED up /\ userdata' = [userdata EXCEPT ![p] = w]
      BY <1>2, <1>4, <1>13, <2>2 DEF PutData
    <3>2. Len(w) < n
      BY <1>5, <1>13, <2>2
    <3> QED BY <3>1, <3>2
  <2> QED BY <2>1, <2>2
<1>15. TypeInv'
  <2>1. userdata' \in [Players -> Seq(AllInputs \cup {Nothing})]
    <3>1. userdata \in [Players -> Seq(AllInputs \cup {Nothing})]
      BY <1>1 DEF TypeInv, TypeOK
    <3>2. w \in Seq(AllInputs \cup {Nothing}) /\ <<>> \in Seq(AllInputs \cup {Nothing})
      OBVIOUS
    <3>3. CASE userdata' = [userdata EXCEPT ![p] = <<>>]
      BY <3>1, <3>2, <3>3
    <3>4. CASE userdata' = [userdata EXCEPT ![p] = w]
      BY <3>1, <3>2, <3>4
    <3> QED BY <1>14, <3>3, <3>4
  <2>2. up' \in [Players -> Seq(UpMessage)]
    <3>1. up \in [Players -> Seq(UpMessage)] /\ Data(w) \in UpMessage
      BY <1>1, <1>12, SentTypes DEF TypeInv
    <3>2. Append(up[p], Data(w)) \in Seq(UpMessage)
      BY <3>1, AppendProperties
    <3> QED BY <1>14, <3>1, <3>2
  <2>3. thread' \in [Players -> {"out", "netsync", "loop"}] /\ typed' \in [Players -> Seq(AllInputs)]
    <3>1. Append(typed[p], v) \in Seq(AllInputs)
      BY <1>1, ClientTypes
    <3> QED BY <1>1, <3>1 DEF PutData, TypeInv, TypeOK
  <2> QED BY <1>1, <1>6, <2>1, <2>2, <2>3 DEF TypeInv, TypeOK
<1>16. \/ Len(w) >= n /\ up'[p] = Append(up[p], Data(w)) /\ userdata'[p] = <<>>
       \/ Len(w) < n /\ up'[p] = up[p] /\ userdata'[p] = w
  BY <1>1, <1>14 DEF TypeInv, TypeOK
<1>17. PlayerInv(p)'
  <2>1. ~HasBegin(p) /\ ~HasBegin(p)'
    <3>1. ~HasBegin(p)
      BY <1>6, InsideBegan
    <3> QED BY <1>6, <3>1 DEF HasBegin
  <2>2. BeforeBegin(p)' /\ BeforeStart(p)' /\ InNetsync(p)'
    BY <1>6, <2>1 DEF BeforeBegin, BeforeStart, InNetsync, Fresh, HasBegin
  <2>3. Counts(p)'
    <3>1. /\ Len(typed[p]) = frameno[p] /\ frameno[p] \in Nat
          /\ Len(given[p]) = (IF frameno[p] <= Delay(p) THEN 0 ELSE frameno[p] - Delay(p))
          /\ Len(userdata[p]) < Conset[p] /\ Len(gvQueue[p]) <= Delay(p)
      <4>1. Counts(p)
        BY <1>1 DEF PlayerInv
      <4>2. thread[p] # "loop"
        BY <1>6
      <4> QED BY <1>1, <1>6, <4>1, <4>2, ClientTypes DEF Counts
    <3>2. Delay(p)' = Delay(p)
      BY DEF Delay, FullDelay
    <3>3. Len(typed'[p]) = frameno[p] + 1
      BY <1>3, <1>7, <1>8, <3>1
    <3>4. Len(userdata'[p]) < Conset[p]
      <4>1. Len(<<>>) = 0 /\ 0 < Conset[p]
        BY ConstantTypes
      <4> QED BY <1>13, <1>16, <4>1
    <3> QED BY <1>6, <3>1, <3>2, <3>3, <3>4 DEF Counts
  <2>4. Dropped(p)'
    <3>1. p \in server.live /\ \A k \in DOMAIN up[p] : up[p][k].kind # "GAMRDROP"
      BY <1>1, <1>6 DEF PlayerInv, Dropped
    <3>2. \A k \in DOMAIN up'[p] : up'[p][k].kind # "GAMRDROP"
      <4>1. CASE up'[p] = up[p]
        BY <3>1, <4>1
      <4>2. CASE up'[p] = Append(up[p], Data(w))
        <5>1. up[p] \in Seq(UpMessage) /\ Data(w).kind # "GAMRDROP"
          BY <1>1, ClientTypes, Kinds
        <5> QED BY <3>1, <4>2, <5>1
      <4> QED BY <1>16, <4>1, <4>2
    <3> QED BY <1>6, <2>1, <3>1, <3>2 DEF Dropped
  <2>5. InputsArrive(p)'
    <3>1. Upwards(t2, up[p], a, b) /\ up[p] \in Seq(UpMessage)
      <4>1. b \in Nat /\ \A i \in 1 .. b : t2[i] = t[i]
        BY <1>8, <1>10
      <4> QED BY <1>1, <1>10, <4>1, ClientTypes, UpwardsSame
    <3>2. \A i \in 1 .. a : i <= Len(t2) /\ server.inbox[p][i] = t2[i]
      <4>1. \A i \in 1 .. a : i <= Len(t) /\ server.inbox[p][i] = t[i]
        BY <1>1, <1>3, <1>9 DEF PlayerInv, InputsArrive
      <4>2. \A i \in 1 .. a : i \in 1 .. Len(t)
        BY <1>8, <4>1
      <4> QED BY <1>8, <4>1, <4>2
    <3>3. CASE Len(w) >= n /\ up'[p] = Append(up[p], Data(w)) /\ userdata'[p] = <<>>
      <4>1. Carries(t2, Data(w), b, Len(t2))
        <5>1. Len(t2) = b + Len(w)
          BY <1>5, <1>8, <1>10
        <5> QED BY <1>11, <5>1, Kinds DEF Carries
      <4>2. Upwards(t2, up'[p], a, Len(t2))
        <5>1. Len(t2) \in Nat /\ b <= Len(t2) /\ b \in Nat /\ Data(w) \in UpMessage
          BY <1>8, <1>10, <1>12, SentTypes
        <5> QED BY <3>1, <3>3, <4>1, <5>1, UpwardsSend
      <4>3. FramesSent(p)' = Len(t2)
        BY <1>7, <1>8, <3>3 DEF FramesSent
      <4>4. Len(t2) \in 0 .. Len(t2) /\ \A i \in 1 .. Len(<<>>) : FALSE
        BY <1>8
      <4> QED BY <1>6, <1>7, <1>9, <3>2, <3>3, <4>2, <4>3, <4>4 DEF InputsArrive
    <3>4. CASE Len(w) < n /\ up'[p] = up[p] /\ userdata'[p] = w
      <4>1. FramesSent(p)' = Len(t2) - Len(w)
        BY <1>7, <3>4 DEF FramesSent
      <4>2. FramesSent(p)' = b /\ b \in 0 .. Len(t2)
        BY <1>5, <1>8, <1>10, <4>1
      <4> QED BY <1>6, <1>7, <1>9, <1>11, <3>1, <3>2, <3>4, <4>2 DEF InputsArrive
    <3> QED BY <1>16, <3>3, <3>4
  <2>6. FramesArrive(p)'
    <3>1. FramesArrive(p) /\ InGame(p) /\ Game' = Game
      BY <1>1, <1>6, GameSame DEF PlayerInv, InGame
    <3> QED BY <1>6, <3>1 DEF FramesArrive
  <2> QED BY <2>2, <2>3, <2>4, <2>5, <2>6 DEF PlayerInv
<1>18. \A q \in Players \ {p} :
        UNCHANGED <<pstat[q], thread[q], running[q], userdata[q], frameno[q], gvQueue[q],
                    cache[q], up[q], down[q], typed[q], given[q]>>
  BY <1>1 DEF PutData, SendUp, TypeInv, TypeOK
<1> QED BY <1>6, <1>15, <1>17, <1>18, ClientStep
-----------------------------------------------------------------------------
(* The server                                                              *)

Starts == ~server.synced /\ server'.synced

\* s is what the server tells q when it takes a message of p.
Told(p, q, s) ==
  /\ s \in Seq(DownMessage) /\ down'[q] = down[q] \o s
  /\ \A k \in DOMAIN s : \/ s[k] = Drop(p)
                         \/ s[k] = Ready /\ Starts /\ q \in server'.live
  /\ Starts /\ q \in server'.live => \E k \in DOMAIN s : s[k] = Ready

LEMMA ReceiveFacts ==
  ASSUME IInv, NEW p \in Players, ServerReceive(p), NEW m, m = Head(up[p])
  PROVE  /\ m \in UpMessage /\ up[p] # <<>> /\ up'[p] = Tail(up[p])
         /\ \A q \in Players \ {p} : UNCHANGED <<up[q], server.inbox[q]>>
         /\ UNCHANGED <<server.taken, server.cache, clientVars, typed, given>>
         /\ m.kind = "GAMRDROP" => server'.live = server.live \ {p}
         /\ m.kind # "GAMRDROP" => server'.live = server.live
         /\ m.kind = "GAMRSRDY" => server'.ready = server.ready \cup {p}
         /\ m.kind # "GAMRSRDY" => server'.ready = server.ready
         /\ server.synced => server'.synced
         /\ Starts => server'.live \subseteq server'.ready
         /\ m.kind = "GAMEDATA" => server'.inbox[p] = server.inbox[p] \o m.frames
         /\ m.kind # "GAMEDATA" => server'.inbox[p] = server.inbox[p]
         /\ \A q \in Players : \E s : Told(p, q, s)
         /\ TypeInv'
<1> DEFINE live == IF m.kind = "GAMRDROP" THEN server.live \ {p} ELSE server.live
           ready == IF m.kind = "GAMRSRDY" THEN server.ready \cup {p} ELSE server.ready
           start == ~server.synced /\ live # {} /\ live \subseteq ready
           first == IF live # server.live THEN <<Drop(p)>> ELSE <<>>
           second(q) == IF start /\ q \in live THEN <<Ready>> ELSE <<>>
           told(q) == first \o second(q)
<1>1. TypeInv /\ PlayerInv(p) /\ up[p] # <<>> /\ up[p] \in Seq(UpMessage)
  BY ClientTypes DEF IInv, ServerReceive
<1>2. m \in UpMessage /\ m = up[p][1] /\ 1 \in DOMAIN up[p]
  BY <1>1, TailFacts
<1>3. m.kind = "GAMEDATA" => p \in live /\ m.frames \in Seq(AllInputs)
  BY <1>1, <1>2, UpKinds DEF PlayerInv, Dropped
<1> DEFINE inbox == IF m.kind = "GAMEDATA" THEN server.inbox[p] \o m.frames ELSE server.inbox[p]
<1>4. /\ up' = [up EXCEPT ![p] = Tail(@)]
      /\ server' = [server EXCEPT !.live = live, !.ready = ready, !.synced = @ \/ start,
                                  !.inbox[p] = inbox]
      /\ down' = [q \in Players |-> down[q] \o told(q)]
      /\ UNCHANGED <<clientVars, typed, given>>
  <2>1. /\ up' = [up EXCEPT ![p] = Tail(@)]
        /\ server' = [server EXCEPT !.live = live, !.ready = ready, !.synced = @ \/ start,
              !.inbox[p] = IF m.kind = "GAMEDATA" /\ p \in live THEN @ \o m.frames ELSE @]
        /\ down' = [q \in Players |-> down[q] \o told(q)]
        /\ UNCHANGED <<clientVars, typed, given>>
    BY DEF ServerReceive
  <2>2. inbox = IF m.kind = "GAMEDATA" /\ p \in live THEN server.inbox[p] \o m.frames
                                                    ELSE server.inbox[p]
    BY <1>3
  <2> HIDE DEF live, ready, start, told
  <2> QED BY <2>1, <2>2
<1>5. server \in ServerState
  BY <1>1 DEF TypeInv
<1>6. live \in SUBSET Players /\ ready \in SUBSET Players /\ start \in BOOLEAN
  BY <1>5 DEF ServerState
<1>7. inbox \in Seq(AllInputs)
  BY <1>1, <1>3, ClientTypes, ConcatFacts
<1>8. /\ server'.live = live /\ server'.ready = ready
      /\ server'.synced = (server.synced \/ start)
      /\ server'.inbox = [server.inbox EXCEPT ![p] = inbox]
      /\ server'.taken = server.taken /\ server'.cache = server.cache
      /\ server' \in ServerState
  <2> HIDE DEF live, ready, start, inbox
  <2> QED BY <1>4, <1>5, <1>6, <1>7 DEF ServerState
<1>9. Starts = start
  <2>1. server.synced \in BOOLEAN
    BY <1>5 DEF ServerState
  <2> HIDE DEF live, ready
  <2> QED BY <1>6, <1>8, <2>1 DEF Starts
<1>10. ASSUME NEW q \in Players
       PROVE  Told(p, q, told(q)) /\ down'[q] \in Seq(DownMessage)
  <2>1. first = <<>> \/ first = <<Drop(p)>>
    OBVIOUS
  <2>2. /\ second(q) = <<>> \/ second(q) = <<Ready>>
        /\ second(q) = <<Ready>> <=> start /\ q \in live
    <3> HIDE DEF start, live
    <3> QED OBVIOUS
  <2>3. down'[q] = down[q] \o told(q) /\ down[q] \in Seq(DownMessage)
    BY <1>1, <1>4, ClientTypes
  <2>4. Drop(p) \in DownMessage /\ Ready \in DownMessage
    BY SentTypes
  <2>5. first \in Seq(DownMessage) /\ second(q) \in Seq(DownMessage)
    BY <2>1, <2>2, <2>4
  <2>6. PICK x \in Seq(DownMessage), y \in Seq(DownMessage) : x = first /\ y = second(q)
    BY <2>5
  <2> HIDE DEF first, second, live, start
  <2>7. /\ x \o y \in Seq(DownMessage) /\ DOMAIN (x \o y) = 1 .. Len(x) + Len(y)
        /\ down[q] \o (x \o y) \in Seq(DownMessage)
        /\ \A i \in 1 .. Len(x) : (x \o y)[i] = x[i]
        /\ \A i \in 1 .. Len(y) : (x \o y)[Len(x) + i] = y[i]
        /\ \A i \in Len(x) + 1 .. Len(x) + Len(y) : (x \o y)[i] = y[i - Len(x)]
    BY <2>3, ConcatFacts
  <2>8. \A k \in DOMAIN (x \o y) : (x \o y)[k] = Drop(p) \/ ((x \o y)[k] = Ready /\ start /\ q \in live)
    <3> SUFFICES ASSUME NEW k \in 1 .. Len(x) + Len(y)
                 PROVE  (x \o y)[k] = Drop(p) \/ ((x \o y)[k] = Ready /\ start /\ q \in live)
      BY <2>7
    <3>1. CASE k \in 1 .. Len(x)
      <4>1. x = <<Drop(p)>> /\ x[1] = Drop(p) /\ k = 1
        BY <2>1, <2>6, <3>1
      <4> QED BY <2>7, <3>1, <4>1
    <3>2. CASE k \in Len(x) + 1 .. Len(x) + Len(y)
      <4>1. y # <<>>
        BY <3>2
      <4>2. y = <<Ready>> /\ y[1] = Ready /\ Len(y) = 1 /\ start /\ q \in live
        BY <2>2, <2>6, <4>1
      <4>3. k - Len(x) = 1
        BY <3>2, <4>2
      <4> QED BY <2>7, <3>2, <4>2, <4>3
    <3> QED BY <3>1, <3>2
  <2>9. start /\ q \in live => \E k \in DOMAIN (x \o y) : (x \o y)[k] = Ready
    <3> SUFFICES ASSUME start, q \in live PROVE \E k \in DOMAIN (x \o y) : (x \o y)[k] = Ready
      OBVIOUS
    <3>1. Len(y) = 1 /\ y[1] = Ready /\ Len(x) \in Nat
      BY <2>2, <2>6
    <3>2. Len(x) + 1 \in DOMAIN (x \o y) /\ (x \o y)[Len(x) + 1] = Ready
      BY <2>7, <3>1
    <3> QED BY <3>2
  <2>10. told(q) = x \o y
    BY <2>6
  <2> HIDE DEF told
  <2> QED BY <1>8, <1>9, <2>3, <2>7, <2>8, <2>9, <2>10 DEF Told
<1>11. TypeInv'
  <2>1. Tail(up[p]) \in Seq(UpMessage)
    BY <1>1, TailFacts
  <2>2. up' \in [Players -> Seq(UpMessage)]
    <3>1. up \in [Players -> Seq(UpMessage)]
      BY <1>1 DEF TypeInv
    <3> QED BY <1>4, <2>1, <3>1
  <2>3. down' \in [Players -> Seq(DownMessage)]
    <3>1. \A q \in Players : down'[q] \in Seq(DownMessage)
      BY <1>10
    <3>2. down' = [q \in Players |-> down'[q]]
      <4> HIDE DEF told
      <4> QED BY <1>4
    <3> QED BY <3>1, <3>2
  <2>4. TypeOK'
    <3> HIDE DEF told, live, ready, start, inbox
    <3> QED BY <1>1, <1>4 DEF TypeInv, TypeOK, clientVars
  <2> QED BY <1>8, <2>2, <2>3, <2>4 DEF TypeInv
<1>12. up'[p] = Tail(up[p]) /\ \A q \in Players \ {p} : UNCHANGED <<up[q], server.inbox[q]>>
  <2>1. p \in DOMAIN up /\ p \in DOMAIN server.inbox
    BY <1>1, <1>5 DEF TypeInv, ServerState
  <2> HIDE DEF told, live, ready, start, inbox
  <2> QED BY <1>4, <1>8, <2>1
<1>13. server'.inbox[p] = inbox
  <2>1. p \in DOMAIN server.inbox
    BY <1>5 DEF ServerState
  <2> HIDE DEF inbox
  <2> QED BY <1>8, <2>1
<1>14. /\ server.synced => server'.synced
       /\ Starts => server'.live \subseteq server'.ready
  <2> HIDE DEF live, ready
  <2> QED BY <1>8, <1>9
<1>15. \A q \in Players : \E s : Told(p, q, s)
  BY <1>10
<1>16. /\ m.kind = "GAMRDROP" => server'.live = server.live \ {p}
       /\ m.kind # "GAMRDROP" => server'.live = server.live
       /\ m.kind = "GAMRSRDY" => server'.ready = server.ready \cup {p}
       /\ m.kind # "GAMRSRDY" => server'.ready = server.ready
       /\ m.kind = "GAMEDATA" => server'.inbox[p] = server.inbox[p] \o m.frames
       /\ m.kind # "GAMEDATA" => server'.inbox[p] = server.inbox[p]
  BY <1>8, <1>13
<1> QED BY <1>1, <1>2, <1>4, <1>8, <1>11, <1>12, <1>14, <1>15, <1>16

\* What is told stands behind what is on the way, and no GAMEBEGN and no frames are in it.
LEMMA ToldFacts ==
  ASSUME TypeInv, NEW p \in Players, NEW q \in Players, NEW s, Told(p, q, s)
  PROVE  /\ \A k \in DOMAIN s : s[k].kind \in {"GAMRDROP", "GAMRSRDY"}
         /\ \A k \in DOMAIN down[q] : k \in DOMAIN down'[q] /\ down'[q][k] = down[q][k]
         /\ \A k \in DOMAIN s : \E j \in DOMAIN down'[q] : down'[q][j] = s[k]
         /\ \A k \in DOMAIN down'[q] : \/ k \in DOMAIN down[q]
                                       \/ \E i \in DOMAIN s : down'[q][k] = s[i]
         /\ HasBegin(q)' <=> HasBegin(q)
<1>1. /\ s \in Seq(DownMessage) /\ down[q] \in Seq(DownMessage) /\ down'[q] = down[q] \o s
      /\ DOMAIN s = 1 .. Len(s) /\ DOMAIN down[q] = 1 .. Len(down[q])
  BY ClientTypes DEF Told
<1>2. \A k \in DOMAIN s : s[k].kind \in {"GAMRDROP", "GAMRSRDY"}
  BY Kinds DEF Told
<1>3. PICK x \in Seq(DownMessage) : x = down[q]
  BY <1>1
<1>4. PICK y \in Seq(DownMessage) : y = down'[q]
  BY <1>1, ConcatFacts
<1>5. /\ Len(y) = Len(x) + Len(s) /\ Len(x) \in Nat /\ Len(s) \in Nat /\ DOMAIN y = 1 .. Len(y)
      /\ \A i \in 1 .. Len(x) : y[i] = x[i]
      /\ \A i \in 1 .. Len(s) : y[Len(x) + i] = s[i]
      /\ \A i \in Len(x) + 1 .. Len(x) + Len(s) : y[i] = s[i - Len(x)]
  BY <1>1, <1>3, <1>4, ConcatFacts
<1>6. \A k \in DOMAIN x : k \in DOMAIN y /\ y[k] = x[k]
  BY <1>1, <1>3, <1>5
<1>7. \A k \in DOMAIN s : \E j \in DOMAIN y : y[j] = s[k]
  <2> SUFFICES ASSUME NEW k \in DOMAIN s PROVE \E j \in DOMAIN y : y[j] = s[k]
    OBVIOUS
  <2>1. k \in 1 .. Len(s)
    BY <1>1
  <2>2. Len(x) + k \in DOMAIN y
    BY <1>5, <2>1
  <2> QED BY <1>5, <2>1, <2>2
<1>8. \A k \in DOMAIN y : k \in DOMAIN x \/ \E i \in DOMAIN s : y[k] = s[i]
  <2> SUFFICES ASSUME NEW k \in DOMAIN y, k \notin DOMAIN x PROVE \E i \in DOMAIN s : y[k] = s[i]
    OBVIOUS
  <2>1. k \in Len(x) + 1 .. Len(x) + Len(s) /\ k - Len(x) \in DOMAIN s
    BY <1>1, <1>3, <1>5
  <2> QED BY <1>5, <2>1
<1>9. (\E k \in DOMAIN y : y[k].kind = "GAMEBEGN") <=> (\E k \in DOMAIN x : x[k].kind = "GAMEBEGN")
  BY <1>2, <1>6, <1>8
<1> QED BY <1>2, <1>3, <1>4, <1>6, <1>7, <1>8, <1>9 DEF HasBegin

\* What the server sent already is of inputs it has, and those do not change.
LEMMA GameGrows ==
  ASSUME IInv, NEW p \in Players, ServerReceive(p), NEW q \in Players
  PROVE  /\ Len(server.inbox[q]) <= Len(server'.inbox[q])
         /\ \A i \in 1 .. Len(server.inbox[q]) : server'.inbox[q][i] = server.inbox[q][i]
         /\ \A k \in 1 .. server.taken[q] : Game'[k] = Game[k]
<1>1. TypeInv /\ ServerInv /\ PlayerInv(p)
  BY DEF IInv
<1>2. PICK m : m = Head(up[p])
  OBVIOUS
<1>3. /\ m \in UpMessage /\ up[p] # <<>>
      /\ \A r \in Players \ {p} : UNCHANGED server.inbox[r]
      /\ m.kind = "GAMEDATA" => server'.inbox[p] = server.inbox[p] \o m.frames
      /\ m.kind # "GAMEDATA" => server'.inbox[p] = server.inbox[p]
  BY <1>2, ReceiveFacts
<1>4. CASE m.kind # "GAMEDATA"
  <2>1. \A r \in Players : server'.inbox[r] = server.inbox[r]
    BY <1>3, <1>4
  <2>2. \A k \in Nat \ {0} : Combined(k)' = Combined(k)
    BY <2>1 DEF Combined
  <2>3. Game' = Game
    BY <2>2 DEF Game
  <2>4. Len(server.inbox[q]) <= Len(server.inbox[q])
    BY <1>1, ClientTypes
  <2> QED BY <2>1, <2>3, <2>4
<1>5. CASE m.kind = "GAMEDATA"
  <2>1. p \in server.live
    <3>1. up[p] \in Seq(UpMessage)
      BY <1>1, ClientTypes
    <3>2. 1 \in DOMAIN up[p] /\ up[p][1] = m
      BY <1>2, <1>3, <3>1, TailFacts
    <3> QED BY <1>1, <1>5, <3>2 DEF PlayerInv, Dropped
  <2>2. PICK x \in Seq(AllInputs), f \in Seq(AllInputs) :
          x = server.inbox[p] /\ server'.inbox[p] = x \o f
    BY <1>1, <1>3, <1>5, UpKinds, ClientTypes
  <2>3. PICK y : y = server'.inbox[p] /\ y = x \o f
    BY <2>2
  <2>4. /\ Len(y) = Len(x) + Len(f) /\ Len(x) \in Nat /\ Len(f) \in Nat
        /\ Len(x) <= Len(y) /\ \A i \in 1 .. Len(x) : y[i] = x[i]
    BY <2>3, ConcatFacts
  <2>5. /\ Len(server.inbox[q]) <= Len(server'.inbox[q])
        /\ \A i \in 1 .. Len(server.inbox[q]) : server'.inbox[q][i] = server.inbox[q][i]
    <3>1. CASE q = p
      BY <2>2, <2>3, <2>4, <3>1
    <3>2. CASE q # p
      <4>1. Len(server.inbox[q]) \in Nat /\ server'.inbox[q] = server.inbox[q]
        BY <1>1, <1>3, <3>2, ClientTypes
      <4> QED BY <4>1
    <3> QED BY <3>1, <3>2
  <2>6. ASSUME NEW k \in 1 .. server.taken[q] PROVE Game'[k] = Game[k]
    <3>1. server.taken[q] <= Len(server.inbox[p]) /\ server.taken[q] \in Nat
      BY <1>1, <2>1, ClientTypes DEF ServerInv
    <3>2. k \in 1 .. Len(x) /\ k <= Len(x) /\ k <= Len(y) /\ k \in Nat \ {0}
      BY <2>2, <2>4, <3>1
    <3>3. \A r \in Players : (k <= Len(server'.inbox[r]) <=> k <= Len(server.inbox[r]))
                             /\ (k <= Len(server.inbox[r]) => server'.inbox[r][k] = server.inbox[r][k])
      <4> SUFFICES ASSUME NEW r \in Players
                   PROVE  /\ k <= Len(server'.inbox[r]) <=> k <= Len(server.inbox[r])
                          /\ k <= Len(server.inbox[r]) => server'.inbox[r][k] = server.inbox[r][k]
        OBVIOUS
      <4>1. CASE r = p
        BY <2>2, <2>3, <2>4, <3>2, <4>1
      <4>2. CASE r # p
        BY <1>3, <4>2
      <4> QED BY <4>1, <4>2
    <3>4. Combined(k)' = Combined(k)
      BY <3>3 DEF Combined
    <3> QED BY <3>2, <3>4 DEF Game
  <2> QED BY <2>5, <2>6
<1> QED BY <1>4, <1>5

\* The player whose message it was.
LEMMA MessageTaken ==
  ASSUME IInv, NEW p \in Players, ServerReceive(p)
  PROVE  Dropped(p)' /\ InputsArrive(p)'
<1>1. TypeInv /\ PlayerInv(p) /\ up[p] \in Seq(UpMessage)
  BY ClientTypes DEF IInv
<1>2. PICK m : m = Head(up[p])
  OBVIOUS
<1>3. /\ m \in UpMessage /\ up[p] # <<>> /\ up'[p] = Tail(up[p])
      /\ UNCHANGED <<clientVars, typed, given>>
      /\ m.kind # "GAMRDROP" => server'.live = server.live
      /\ m.kind = "GAMEDATA" => server'.inbox[p] = server.inbox[p] \o m.frames
      /\ m.kind # "GAMEDATA" => server'.inbox[p] = server.inbox[p]
  BY <1>2, ReceiveFacts
<1>4. /\ m = up[p][1] /\ Len(up[p]) \in Nat \ {0} /\ 1 \in DOMAIN up[p]
      /\ up'[p] \in Seq(UpMessage)
      /\ DOMAIN up'[p] = 1 .. Len(up[p]) - 1 /\ DOMAIN up[p] = 1 .. Len(up[p])
      /\ \A i \in 1 .. Len(up[p]) - 1 : up'[p][i] = up[p][i + 1]
  BY <1>1, <1>2, <1>3, TailFacts
<1>5. \A k \in DOMAIN up'[p] : k + 1 \in DOMAIN up[p] /\ up'[p][k] = up[p][k + 1] /\ 1 < k + 1
  BY <1>4
<1>6. PICK s : Told(p, p, s)
  BY <1>2, ReceiveFacts
<1>7. HasBegin(p)' <=> HasBegin(p)
  BY <1>1, <1>6, ToldFacts
<1>8. UNCHANGED <<pstat, typed, userdata>>
  BY <1>3 DEF clientVars
<1>9. Dropped(p)'
  <2>1. Dropped(p)
    BY <1>1 DEF PlayerInv
  <2>2. p \notin server'.live \/ (\E k \in DOMAIN up'[p] : up'[p][k].kind = "GAMRDROP")
        => p \notin server.live \/ (\E k \in DOMAIN up[p] : up[p][k].kind = "GAMRDROP")
    BY <1>3, <1>4, <1>5
  <2>3. \A k, j \in DOMAIN up'[p] :
          k < j /\ up'[p][k].kind = "GAMRDROP" => up'[p][j].kind # "GAMEDATA"
    <3> SUFFICES ASSUME NEW k \in DOMAIN up'[p], NEW j \in DOMAIN up'[p], k < j,
                        up'[p][k].kind = "GAMRDROP"
                 PROVE  up'[p][j].kind # "GAMEDATA"
      OBVIOUS
    <3>1. k + 1 < j + 1
      BY <1>4
    <3> QED BY <1>5, <2>1, <3>1 DEF Dropped
  <2>4. p \notin server'.live => \A k \in DOMAIN up'[p] : up'[p][k].kind # "GAMEDATA"
    <3> SUFFICES ASSUME p \notin server'.live, NEW k \in DOMAIN up'[p]
                 PROVE  up'[p][k].kind # "GAMEDATA"
      OBVIOUS
    <3>1. CASE p \notin server.live
      BY <1>5, <2>1, <3>1 DEF Dropped
    <3>2. CASE p \in server.live
      <4>1. up[p][1].kind = "GAMRDROP"
        BY <1>3, <1>4, <3>2
      <4> QED BY <1>4, <1>5, <2>1, <4>1 DEF Dropped
    <3> QED BY <3>1, <3>2
  <2> QED BY <1>7, <1>8, <2>1, <2>2, <2>3, <2>4 DEF Dropped
<1>10. InputsArrive(p)'
  <2>1. PICK a \in Nat : a = Len(server.inbox[p])
    BY <1>1, ClientTypes
  <2>2. PICK t \in Seq(AllInputs) : t = typed[p]
    BY <1>1, ClientTypes
  <2>3. PICK b \in 0 .. Len(t) :
          /\ Upwards(t, up[p], a, b)
          /\ pstat[p] = 2 => /\ b = FramesSent(p)
                             /\ \A i \in 1 .. Len(userdata[p]) : userdata[p][i] = t[b + i]
    BY <1>1, <2>1, <2>2 DEF PlayerInv, InputsArrive
  <2>4. b \in Nat /\ Len(t) \in Nat
    OBVIOUS
  <2>5. PICK x \in 0 .. b : Carries(t, m, a, x) /\ Upwards(t, up'[p], x, b)
    BY <1>1, <1>2, <1>3, <2>3, <2>4, UpwardsTake
  <2>6. \A i \in 1 .. a : i <= Len(t) /\ server.inbox[p][i] = t[i]
    BY <1>1, <2>1, <2>2 DEF PlayerInv, InputsArrive
  <2>7. Len(server'.inbox[p]) = x /\ \A i \in 1 .. x : i <= Len(t) /\ server'.inbox[p][i] = t[i]
    <3>1. CASE m.kind = "GAMEDATA"
      <4>1. PICK f \in Seq(AllInputs) : f = m.frames
        BY <1>3, <3>1, UpKinds
      <4>2. PICK y \in Seq(AllInputs) : y = server.inbox[p]
        BY <1>1, ClientTypes
      <4>3. /\ server'.inbox[p] = y \o f /\ Len(y) = a /\ Len(f) \in Nat /\ x = a + Len(f)
            /\ \A i \in 1 .. Len(f) : f[i] = t[a + i]
        <5>1. server'.inbox[p] = y \o f
          BY <1>3, <3>1, <4>1, <4>2
        <5>2. x = a + Len(f) /\ \A i \in 1 .. Len(f) : f[i] = t[a + i]
          BY <2>5, <3>1, <4>1 DEF Carries
        <5>3. Len(y) = a /\ Len(f) \in Nat
          BY <2>1, <4>2
        <5> QED BY <5>1, <5>2, <5>3
      <4>4. /\ Len(y \o f) = x /\ \A i \in 1 .. a : (y \o f)[i] = y[i]
            /\ \A i \in a + 1 .. a + Len(f) : (y \o f)[i] = f[i - a]
        <5>1. /\ Len(y \o f) = Len(y) + Len(f)
              /\ \A i \in 1 .. Len(y) : (y \o f)[i] = y[i]
              /\ \A i \in Len(y) + 1 .. Len(y) + Len(f) : (y \o f)[i] = f[i - Len(y)]
          BY ConcatFacts
        <5>2. Len(y) = a /\ x = a + Len(f)
          BY <4>3
        <5> QED BY <5>1, <5>2
      <4>5. ASSUME NEW i \in 1 .. x PROVE i <= Len(t) /\ (y \o f)[i] = t[i]
        <5>1. CASE i \in 1 .. a
          BY <2>6, <4>2, <4>4, <5>1
        <5>2. CASE i \in a + 1 .. a + Len(f)
          <6>1. i - a \in 1 .. Len(f) /\ a + (i - a) = i /\ i <= x
            BY <4>3, <5>2
          <6>2. (y \o f)[i] = t[i]
            BY <4>3, <4>4, <5>2, <6>1
          <6> QED BY <2>4, <2>5, <6>1, <6>2
        <5> QED BY <4>3, <5>1, <5>2
      <4> QED BY <4>3, <4>4, <4>5
    <3>2. CASE m.kind # "GAMEDATA"
      <4>1. x = a /\ server'.inbox[p] = server.inbox[p]
        BY <1>3, <2>5, <3>2 DEF Carries
      <4> QED BY <2>1, <2>6, <4>1
    <3> QED BY <3>1, <3>2
  <2>8. FramesSent(p)' = FramesSent(p)
    BY <1>8 DEF FramesSent
  <2> QED BY <1>8, <2>2, <2>3, <2>5, <2>7, <2>8 DEF InputsArrive
<1> QED BY <1>9, <1>10

LEMMA ServerReceiveStep ==
  ASSUME IInv, NEW p \in Players, ServerReceive(p)
  PROVE  IInv'
<1>1. TypeInv /\ ServerInv /\ \A q \in Players : PlayerInv(q)
  BY DEF IInv
<1>2. PICK m : m = Head(up[p])
  OBVIOUS
<1>3. /\ up[p] # <<>> /\ TypeInv'
      /\ \A q \in Players \ {p} : UNCHANGED <<up[q], server.inbox[q]>>
      /\ UNCHANGED <<server.taken, server.cache, clientVars, typed, given>>
      /\ \A q \in Players : \E s : Told(p, q, s)
      /\ server.synced => server'.synced
      /\ Starts => server'.live \subseteq server'.ready
  BY <1>2, ReceiveFacts
<1>4. /\ server'.live = server.live \/ server'.live = server.live \ {p}
      /\ server'.ready = server.ready \/ server'.ready = server.ready \cup {p}
      /\ server.ready \subseteq server'.ready /\ server'.live \subseteq server.live
  <2>1. /\ server'.live = server.live \/ server'.live = server.live \ {p}
        /\ server'.ready = server.ready \/ server'.ready = server.ready \cup {p}
    BY <1>2, ReceiveFacts
  <2> QED BY <2>1
<1>5. UNCHANGED <<pstat, thread, running, userdata, frameno, gvQueue, cache, typed, given>>
  BY <1>3 DEF clientVars
<1>6. ServerInv'
  <2>1. server'.synced => server'.live \subseteq server'.ready
    <3>1. CASE server.synced
      BY <1>1, <1>4, <3>1 DEF ServerInv
    <3>2. CASE ~server.synced
      BY <1>3, <3>2 DEF Starts
    <3> QED BY <3>1, <3>2
  <2>2. ~server'.synced => \A q \in Players : server'.taken[q] = 0 /\ server'.cache[q] = <<>>
    BY <1>1, <1>3 DEF ServerInv
  <2>3. ASSUME NEW q \in Players
        PROVE  /\ server'.taken[q] <= Len(server'.inbox[q])
               /\ \A r \in server'.live : server'.taken[q] <= Len(server'.inbox[r])
    <3>1. ASSUME NEW r \in Players, server.taken[q] <= Len(server.inbox[r])
          PROVE  server'.taken[q] <= Len(server'.inbox[r])
      <4>1. Len(server.inbox[r]) <= Len(server'.inbox[r]) /\ server'.taken[q] = server.taken[q]
        BY <1>3, GameGrows
      <4>2. /\ server.taken[q] \in Nat /\ Len(server.inbox[r]) \in Nat
            /\ Len(server'.inbox[r]) \in Nat
        <5>1. Len(server'.inbox[r]) \in Nat
          <6>1. server'.inbox[r] \in Seq(AllInputs)
            BY <1>3 DEF TypeInv, ServerState
          <6> QED BY <6>1
        <5> QED BY <1>1, <5>1, ClientTypes
      <4> QED BY <3>1, <4>1, <4>2
    <3>2. server'.live \subseteq Players
      BY <1>3 DEF TypeInv, ServerState
    <3>3. /\ server.taken[q] <= Len(server.inbox[q])
          /\ \A r \in server.live : server.taken[q] <= Len(server.inbox[r])
      BY <1>1 DEF ServerInv
    <3> QED BY <1>4, <3>1, <3>2, <3>3
  <2> QED BY <2>1, <2>2, <2>3 DEF ServerInv
<1>7. ASSUME NEW q \in Players PROVE PlayerInv(q)'
  <2>1. /\ BeforeBegin(q) /\ BeforeStart(q) /\ InNetsync(q) /\ Counts(q) /\ Dropped(q)
        /\ InputsArrive(q) /\ FramesArrive(q)
    BY <1>1 DEF PlayerInv
  <2>2. PICK s : Told(p, q, s)
    BY <1>3
  <2>3. /\ \A k \in DOMAIN s : s[k].kind \in {"GAMRDROP", "GAMRSRDY"}
        /\ \A k \in DOMAIN down[q] : k \in DOMAIN down'[q] /\ down'[q][k] = down[q][k]
        /\ \A k \in DOMAIN s : \E j \in DOMAIN down'[q] : down'[q][j] = s[k]
        /\ \A k \in DOMAIN down'[q] : k \in DOMAIN down[q] \/ \E i \in DOMAIN s : down'[q][k] = s[i]
        /\ HasBegin(q)' <=> HasBegin(q)
    BY <1>1, <2>2, ToldFacts
  <2>4. Fresh(q)' <=> Fresh(q)
    BY <1>5, <2>3 DEF Fresh
  \* Who has not called MPV yet is told of no start: it is not ready.
  <2>5. ASSUME Fresh(q)
        PROVE  /\ q # p /\ q \in server'.live \ server'.ready
               /\ \A k \in DOMAIN s : s[k].kind = "GAMRDROP"
    <3>1. q \in server.live \ server.ready /\ up[q] = <<>>
      BY <2>1, <2>5 DEF BeforeStart
    <3>2. q # p
      BY <1>3, <3>1
    <3>3. q \in server'.live \ server'.ready
      BY <1>4, <3>1, <3>2
    <3>4. ~(Starts /\ q \in server'.live)
      BY <1>3, <3>3
    <3> QED BY <2>2, <3>2, <3>3, <3>4, Kinds DEF Told
  <2>6. BeforeBegin(q)'
    <3>1. ASSUME NEW k \in DOMAIN down'[q], NEW j \in DOMAIN down'[q], k < j,
                 down'[q][k].kind = "GAMEBEGN"
          PROVE  down'[q][j].kind = "GAMRDROP"
      <4>1. k \in DOMAIN down[q]
        BY <2>3, <3>1
      <4>2. Fresh(q)
        BY <2>3, <3>1, <4>1 DEF Fresh, HasBegin
      <4>3. CASE j \in DOMAIN down[q]
        BY <2>1, <2>3, <3>1, <4>1, <4>3 DEF BeforeBegin
      <4>4. CASE j \notin DOMAIN down[q]
        BY <2>3, <2>5, <4>2, <4>4
      <4> QED BY <4>3, <4>4
    <3>2. HasBegin(q)' => pstat'[q] = 0 /\ thread'[q] = "out" /\ ~running'[q]
      BY <1>5, <2>1, <2>3 DEF BeforeBegin
    <3> QED BY <3>1, <3>2 DEF BeforeBegin
  <2>7. BeforeStart(q)'
    <3>1. Fresh(q)' => /\ q \in server'.live \ server'.ready
                       /\ up'[q] = <<>> /\ typed'[q] = <<>> /\ given'[q] = <<>>
      BY <1>3, <1>5, <2>1, <2>4, <2>5 DEF BeforeStart
    <3>2. ASSUME pstat[q] = 1, thread[q] = "out", NEW k \in DOMAIN down'[q]
          PROVE  down'[q][k].kind = "GAMRDROP"
      <4>1. Fresh(q)
        BY <3>2 DEF Fresh
      <4> QED BY <2>1, <2>3, <2>5, <3>2, <4>1 DEF BeforeStart
    <3> QED BY <1>5, <3>1, <3>2 DEF BeforeStart
  <2>8. InNetsync(q)'
    <3>1. ASSUME pstat[q] = 1, thread[q] = "netsync", NEW k \in DOMAIN down'[q],
                 IsFrames(down'[q][k])
          PROVE  \E j \in 1 .. k - 1 : down'[q][j] = Ready
      <4>1. k \in DOMAIN down[q]
        BY <2>3, <3>1 DEF IsFrames
      <4>2. PICK j \in 1 .. k - 1 : down[q][j] = Ready
        BY <2>1, <2>3, <3>1, <4>1 DEF InNetsync
      <4>3. j \in DOMAIN down[q]
        <5>1. DOMAIN down[q] = 1 .. Len(down[q]) /\ Len(down[q]) \in Nat
          <6>1. down[q] \in Seq(DownMessage)
            BY <1>1, ClientTypes
          <6> QED BY <6>1
        <5> QED BY <4>1, <5>1
      <4> QED BY <2>3, <4>2, <4>3
    <3>2. ASSUME pstat[q] = 1, thread[q] = "netsync", server'.synced, q \in server'.live
          PROVE  \E j \in DOMAIN down'[q] : down'[q][j] = Ready
      <4>1. CASE server.synced
        BY <1>4, <2>1, <2>3, <3>2, <4>1 DEF InNetsync
      <4>2. CASE ~server.synced
        <5>1. PICK k \in DOMAIN s : s[k] = Ready
          BY <2>2, <3>2, <4>2 DEF Told, Starts
        <5> QED BY <2>3, <5>1
      <4> QED BY <4>1, <4>2
    <3> QED BY <1>5, <2>1, <3>1, <3>2 DEF InNetsync
  <2>9. Counts(q)'
    <3>1. Delay(q)' = Delay(q)
      BY DEF Delay, FullDelay
    <3> QED BY <1>5, <2>1, <3>1 DEF Counts
  <2>10. Dropped(q)' /\ InputsArrive(q)'
    <3>1. CASE q = p
      BY <3>1, MessageTaken
    <3>2. CASE q # p
      <4>1. /\ UNCHANGED <<up[q], server.inbox[q]>>
            /\ q \in server'.live <=> q \in server.live
        BY <1>3, <1>4, <3>2
      <4>2. Dropped(q)'
        BY <1>5, <2>1, <2>3, <4>1 DEF Dropped
      <4>3. FramesSent(q)' = FramesSent(q)
        BY <1>5 DEF FramesSent
      <4> QED BY <1>5, <2>1, <4>1, <4>2, <4>3 DEF InputsArrive
    <3> QED BY <3>1, <3>2
  <2>11. FramesArrive(q)'
    <3>1. PICK t \in Nat : t = server.taken[q]
      BY <1>1, ClientTypes
    <3>2. t = server'.taken[q] /\ server'.cache[q] = server.cache[q]
      BY <1>3, <3>1
    <3>3. \A k \in 1 .. t : Game'[k] = Game[k]
      BY <3>1, GameGrows
    <3>4. PICK b \in Nat : b = Len(given[q])
      BY <1>1, ClientTypes
    <3>5. b <= t /\ \A k \in 1 .. b : given[q][k] = Game[k]
      BY <2>1, <3>1, <3>4 DEF FramesArrive
    <3>6. \A k \in 1 .. b : given[q][k] = Game'[k]
      <4>1. \A k \in 1 .. b : k \in 1 .. t
        BY <3>5
      <4> QED BY <3>3, <3>5, <4>1
    <3>7. ASSUME InGame(q)
          PROVE  /\ \A k \in 1 .. Len(gvQueue[q]) : gvQueue[q][k] = Game'[b + k]
                 /\ OnTheWay(Game', Conset[q], down'[q],
                             [cache |-> cache[q], at |-> b + Len(gvQueue[q])],
                             [cache |-> server.cache[q], at |-> t])
      <4>1. PICK l \in Nat : l = Len(gvQueue[q])
        BY <1>1, ClientTypes
      <4>2. b + l <= t
        BY <3>1, <3>4, <3>7, <4>1, TakenIsTyped
      <4>3. /\ \A k \in 1 .. l : gvQueue[q][k] = Game[b + k]
            /\ OnTheWay(Game, Conset[q], down[q], [cache |-> cache[q], at |-> b + l],
                        [cache |-> server.cache[q], at |-> t])
        BY <2>1, <3>1, <3>4, <3>7, <4>1 DEF FramesArrive
      <4>4. \A k \in 1 .. l : b + k \in 1 .. t
        BY <4>2
      <4>5. /\ [cache |-> server.cache[q], at |-> t] \in Place
            /\ down[q] \in Seq(DownMessage) /\ down'[q] = down[q] \o s /\ s \in Seq(DownMessage)
            /\ \A k \in DOMAIN s : ~IsFrames(s[k])
            /\ Conset[q] \in Nat /\ down'[q] \in Seq(DownMessage)
        <5>1. [cache |-> server.cache[q], at |-> t] \in Place
          BY <1>1, <3>1, PlacesType
        <5>2. down'[q] \in Seq(DownMessage)
          BY <1>3 DEF TypeInv
        <5>3. \A k \in DOMAIN s : ~IsFrames(s[k])
          BY <2>3 DEF IsFrames
        <5> QED BY <1>1, <2>2, <5>1, <5>2, <5>3, ClientTypes, ConstantTypes DEF Told
      <4>6. OnTheWay(Game, Conset[q], down'[q], [cache |-> cache[q], at |-> b + l],
                     [cache |-> server.cache[q], at |-> t])
        BY <4>3, <4>5, OnTheWayTell
      <4>7. OnTheWay(Game', Conset[q], down'[q], [cache |-> cache[q], at |-> b + l],
                     [cache |-> server.cache[q], at |-> t])
        <5> DEFINE e == [cache |-> server.cache[q], at |-> t]
        <5>1. e \in Place /\ e.at = t
          BY <4>5
        <5> HIDE DEF e
        <5>2. \A k \in 1 .. e.at : Game'[k] = Game[k]
          BY <3>3, <5>1
        <5>3. OnTheWay(Game, Conset[q], down'[q], [cache |-> cache[q], at |-> b + l], e)
          BY <4>6 DEF e
        <5>4. OnTheWay(Game', Conset[q], down'[q], [cache |-> cache[q], at |-> b + l], e)
          BY <4>5, <5>1, <5>2, <5>3, OnTheWaySame
        <5> QED BY <5>4 DEF e
      <4> QED BY <3>3, <4>1, <4>3, <4>4, <4>7
    <3>8. InGame(q)' <=> InGame(q)
      BY <1>5 DEF InGame
    <3> QED BY <1>5, <3>2, <3>4, <3>5, <3>6, <3>7, <3>8 DEF FramesArrive
  <2> QED BY <2>6, <2>7, <2>8, <2>9, <2>10, <2>11 DEF PlayerInv
<1> QED BY <1>3, <1>6, <1>7 DEF IInv

\* The server sends p the n frames after t, by the frames themselves or by the place of
\* the same frames in the cache.
Sends(p, n, t) ==
  /\ server.synced /\ p \in server.live
  /\ \A q \in server.live : t + n <= Len(server.inbox[q])
  /\ UNCHANGED <<clientVars, up, typed, given>>
  /\ UNCHANGED <<server.live, server.ready, server.synced, server.inbox>>
  /\ server'.taken[p] = t + n
  /\ \A q \in Players \ {p} : UNCHANGED <<down[q], server.taken[q], server.cache[q]>>
  /\ \E m \in DownMessage :
       /\ IsFrames(m) /\ down'[p] = Append(down[p], m)
       /\ Moves(Game, n, m, [cache |-> server.cache[p], at |-> t],
                [cache |-> server'.cache[p], at |-> t + n])

LEMMA SendFacts ==
  ASSUME IInv, NEW p \in Players, ServerSend(p),
         NEW n, n = Conset[p], NEW t, t = server.taken[p]
  PROVE  Sends(p, n, t) /\ TypeInv'
<1> DEFINE frames == [i \in 1 .. Conset[p] |-> Combined(server.taken[p] + 1 + i - 1)]
           hits == {i \in DOMAIN server.cache[p] : server.cache[p][i] = frames}
           msg == IF hits = {} THEN Data(frames) ELSE Cached(Min(hits) - 1)
           kept == IF hits # {} THEN server.cache[p]
                   ELSE Append(IF Len(server.cache[p]) = CacheLimit THEN Tail(server.cache[p])
                                                                   ELSE server.cache[p], frames)
<1>1. TypeInv /\ n \in Nat \ {0} /\ t \in Nat /\ server \in ServerState
  BY ClientTypes, ConstantTypes DEF IInv, TypeInv
<1>2. /\ server.synced /\ p \in server.live
      /\ \A q \in server.live : Len(server.inbox[q]) >= t + n
      /\ down' = [down EXCEPT ![p] = Append(@, msg)]
      /\ server' = [server EXCEPT !.taken[p] = @ + Conset[p], !.cache[p] = kept]
      /\ UNCHANGED <<clientVars, up, typed, given>>
  BY DEF ServerSend
<1>3. /\ Game \in [Nat \ {0} -> Frame] /\ \A k \in Nat \ {0} : Game[k] = Combined(k)
  BY <1>1, GameType DEF Game
<1>4. /\ frames = Packet(Game, n, t) /\ frames \in Seq(Frame)
  <2>1. \A i \in 1 .. n : t + 1 + i - 1 = t + i /\ t + i \in Nat \ {0}
    BY <1>1
  <2>2. \A i \in 1 .. n : Combined(t + 1 + i - 1) = Game[t + i]
    BY <1>3, <2>1
  <2>3. frames = [i \in 1 .. n |-> Combined(t + 1 + i - 1)]
    OBVIOUS
  <2>4. frames = Packet(Game, n, t)
    <3> HIDE DEF frames
    <3> QED BY <2>2, <2>3 DEF Packet
  <2>5. Packet(Game, n, t) \in Seq(Frame)
    BY <1>1, <1>3, PacketType
  <2> HIDE DEF frames
  <2> QED BY <2>4, <2>5
<1>5. PICK f \in Seq(Frame) : f = frames
  BY <1>4
<1>6. PICK c \in Caches : c = server.cache[p]
  BY <1>1, ClientTypes
<1>7. hits = {i \in 1 .. Len(c) : c[i] = f} /\ Len(c) \in Nat
  BY <1>5, <1>6 DEF Caches
<1>8. /\ msg \in DownMessage /\ IsFrames(msg) /\ kept \in Caches
      /\ Moves(Game, n, msg, [cache |-> c, at |-> t], [cache |-> kept, at |-> t + n])
  <2> HIDE DEF frames
  <2>1. CASE hits = {}
    <3>1. msg = Data(f) /\ kept = CacheAdd(c, f)
      <4> HIDE DEF hits
      <4> QED BY <1>5, <1>6, <2>1 DEF CacheAdd
    <3>2. msg.kind = "GAMEDATA" /\ msg.frames = f /\ msg \in DownMessage
      BY <3>1, Kinds, SentTypes
    <3>3. CacheAdd(c, f) \in Caches
      <4>1. Len(c) = CacheLimit => Tail(c) \in Seq(Seq(Frame))
        <5>1. Len(c) = CacheLimit => c # <<>>
          BY KGameAssumption
        <5> QED BY <5>1, TailFacts DEF Caches
      <4> QED BY <4>1, AppendProperties DEF CacheAdd, Caches
    <3>4. [cache |-> c, at |-> t].cache = c /\ [cache |-> c, at |-> t].at = t
      OBVIOUS
    <3> HIDE DEF msg, kept
    <3> QED BY <1>4, <1>5, <3>1, <3>2, <3>3, <3>4 DEF Moves, IsFrames
  <2>2. CASE hits # {}
    <3>1. PICK i \in hits : i = Min(hits)
      <4>1. hits \subseteq Nat
        BY <1>7
      <4> HIDE DEF hits
      <4>2. \E x \in hits : \A y \in hits : x <= y
        BY <2>2, <4>1, SmallestOf
      <4> QED BY <4>2 DEF Min
    <3>2. i \in 1 .. Len(c) /\ c[i] = f /\ i - 1 \in Nat
      BY <1>7
    <3>3. msg = Cached(i - 1) /\ kept = c
      <4> HIDE DEF hits
      <4> QED BY <1>6, <2>2, <3>1
    <3>4. msg.kind = "GAMCDATA" /\ msg.index = i - 1 /\ msg \in DownMessage
      BY <3>2, <3>3, Kinds, SentTypes
    <3>5. msg.index < Len(c) /\ c[msg.index + 1] = f
      <4>1. (i - 1) + 1 = i /\ i - 1 < Len(c)
        BY <1>7, <3>2
      <4> QED BY <3>2, <3>4, <4>1
    <3>6. [cache |-> c, at |-> t].cache = c /\ [cache |-> c, at |-> t].at = t
      OBVIOUS
    <3> HIDE DEF msg, kept
    <3> QED BY <1>4, <1>5, <3>3, <3>4, <3>5, <3>6 DEF Moves, IsFrames
  <2> QED BY <2>1, <2>2
<1> HIDE DEF msg, kept, hits, frames
<1>9. /\ UNCHANGED <<server.live, server.ready, server.synced, server.inbox>>
      /\ server'.taken = [server.taken EXCEPT ![p] = t + n]
      /\ server'.cache = [server.cache EXCEPT ![p] = kept]
      /\ server' \in ServerState
  <2>1. server' = [server EXCEPT !.taken = [server.taken EXCEPT ![p] = t + n],
                                 !.cache = [server.cache EXCEPT ![p] = kept]]
    BY <1>1, <1>2 DEF ServerState
  <2>2. /\ [server.taken EXCEPT ![p] = t + n] \in [Players -> Nat]
        /\ [server.cache EXCEPT ![p] = kept] \in [Players -> Caches]
    <3>1. t + n \in Nat
      BY <1>1
    <3> QED BY <1>1, <1>8, <3>1 DEF ServerState
  <2> QED BY <1>1, <2>1, <2>2 DEF ServerState
<1>10. /\ server'.taken[p] = t + n /\ server'.cache[p] = kept
       /\ \A q \in Players \ {p} : UNCHANGED <<server.taken[q], server.cache[q]>>
  BY <1>1, <1>9 DEF ServerState
<1>11. /\ down'[p] = Append(down[p], msg) /\ down' \in [Players -> Seq(DownMessage)]
       /\ \A q \in Players \ {p} : UNCHANGED down[q]
  <2>1. down \in [Players -> Seq(DownMessage)] /\ down[p] \in Seq(DownMessage)
    BY <1>1 DEF TypeInv
  <2>2. Append(down[p], msg) \in Seq(DownMessage)
    BY <1>8, <2>1, AppendProperties
  <2> QED BY <1>2, <2>1, <2>2
<1>12. TypeInv'
  BY <1>1, <1>2, <1>9, <1>11 DEF TypeInv, TypeOK, clientVars
<1>13. \A q \in server.live : t + n <= Len(server.inbox[q])
  <2> SUFFICES ASSUME NEW q \in server.live PROVE t + n <= Len(server.inbox[q])
    OBVIOUS
  <2>1. Len(server.inbox[q]) \in Nat
    BY <1>1, ClientTypes DEF ServerState
  <2> QED BY <1>1, <1>2, <2>1
<1>14. Moves(Game, n, msg, [cache |-> server.cache[p], at |-> t],
             [cache |-> server'.cache[p], at |-> t + n])
  BY <1>6, <1>8, <1>10
<1> QED BY <1>2, <1>8, <1>9, <1>10, <1>11, <1>12, <1>13, <1>14 DEF Sends

LEMMA ServerSendStep ==
  ASSUME IInv, NEW p \in Players, ServerSend(p)
  PROVE  IInv'
<1>1. TypeInv /\ ServerInv /\ \A q \in Players : PlayerInv(q)
  BY DEF IInv
<1>2. PICK n \in Nat \ {0} : n = Conset[p]
  BY ConstantTypes
<1>3. PICK t \in Nat : t = server.taken[p]
  BY <1>1, ClientTypes
<1>4. Sends(p, n, t) /\ TypeInv'
  BY <1>2, <1>3, SendFacts
<1>5. /\ server.synced /\ p \in server.live
      /\ \A q \in server.live : t + n <= Len(server.inbox[q])
      /\ UNCHANGED <<clientVars, up, typed, given>>
      /\ UNCHANGED <<server.live, server.ready, server.synced, server.inbox>>
      /\ server'.taken[p] = t + n
      /\ \A q \in Players \ {p} : UNCHANGED <<down[q], server.taken[q], server.cache[q]>>
  BY <1>4 DEF Sends
<1>6. PICK m \in DownMessage :
        /\ IsFrames(m) /\ down'[p] = Append(down[p], m)
        /\ Moves(Game, n, m, [cache |-> server.cache[p], at |-> t],
                 [cache |-> server'.cache[p], at |-> t + n])
  BY <1>4 DEF Sends
<1>7. Game' = Game
  BY <1>5, GameSame
<1>8. UNCHANGED <<pstat, thread, running, userdata, frameno, gvQueue, cache, up, typed, given>>
  BY <1>5 DEF clientVars
<1>9. ServerInv'
  <2>1. ASSUME NEW q \in Players
        PROVE  /\ server'.taken[q] <= Len(server.inbox[q])
               /\ \A r \in server.live : server'.taken[q] <= Len(server.inbox[r])
    <3>1. CASE q = p
      BY <1>5, <3>1
    <3>2. CASE q # p
      BY <1>1, <1>5, <3>2 DEF ServerInv
    <3> QED BY <3>1, <3>2
  <2> QED BY <1>1, <1>5, <2>1 DEF ServerInv
<1>10. ASSUME NEW q \in Players \ {p} PROVE PlayerInv(q)'
  <2>1. /\ UNCHANGED <<server.live, server.ready, server.synced>>
        /\ UNCHANGED <<server.inbox[q], server.taken[q], server.cache[q]>>
        /\ UNCHANGED <<pstat[q], thread[q], running[q], userdata[q], frameno[q], gvQueue[q],
                       cache[q], up[q], down[q], typed[q], given[q]>>
    BY <1>5, <1>8
  <2> QED BY <1>1, <1>7, <2>1, Bystander
<1>11. PlayerInv(p)'
  <2>1. /\ BeforeBegin(p) /\ BeforeStart(p) /\ InNetsync(p) /\ Counts(p) /\ Dropped(p)
        /\ InputsArrive(p) /\ FramesArrive(p)
    BY <1>1 DEF PlayerInv
  <2>2. ~Fresh(p)
    BY <1>1, <1>5, <2>1 DEF BeforeStart, ServerInv
  <2>3. PICK d \in Seq(DownMessage) : d = down[p]
    BY <1>1, ClientTypes
  <2>4. PICK x : x = Append(d, m) /\ x = down'[p]
    BY <1>6, <2>3
  <2>5. /\ x \in Seq(DownMessage) /\ Len(x) = Len(d) + 1 /\ x[Len(d) + 1] = m /\ Len(d) \in Nat
        /\ \A i \in 1 .. Len(d) : x[i] = d[i]
        /\ DOMAIN x = 1 .. Len(d) + 1 /\ DOMAIN d = 1 .. Len(d)
    <3>1. /\ Append(d, m) \in Seq(DownMessage) /\ Len(Append(d, m)) = Len(d) + 1
          /\ Append(d, m)[Len(d) + 1] = m /\ \A i \in 1 .. Len(d) : Append(d, m)[i] = d[i]
      BY AppendProperties
    <3>2. Len(d) \in Nat /\ DOMAIN d = 1 .. Len(d)
      OBVIOUS
    <3>3. x \in Seq(DownMessage) => DOMAIN x = 1 .. Len(x)
      OBVIOUS
    <3> QED BY <2>4, <3>1, <3>2, <3>3
  <2>6. \A k \in DOMAIN x : (k \in DOMAIN d /\ x[k] = d[k]) \/ (k = Len(d) + 1 /\ x[k] = m)
    BY <2>5
  <2>7. \A k \in DOMAIN d : k \in DOMAIN x /\ x[k] = d[k]
    BY <2>5
  <2>8. ~HasBegin(p)' /\ ~Fresh(p)'
    <3>1. ~HasBegin(p) /\ m.kind # "GAMEBEGN"
      BY <1>6, <2>2 DEF Fresh, IsFrames
    <3>2. ~HasBegin(p)'
      BY <2>3, <2>4, <2>6, <3>1 DEF HasBegin
    <3> QED BY <1>8, <2>2, <3>2 DEF Fresh
  <2>9. BeforeBegin(p)' /\ BeforeStart(p)'
    BY <2>8 DEF BeforeBegin, BeforeStart, HasBegin, Fresh
  <2>10. InNetsync(p)'
    <3>1. ASSUME pstat[p] = 1, thread[p] = "netsync"
          PROVE  /\ \A k \in DOMAIN x : IsFrames(x[k]) => \E j \in 1 .. k - 1 : x[j] = Ready
                 /\ \E j \in DOMAIN x : x[j] = Ready
      <4>1. PICK j \in DOMAIN d : d[j] = Ready
        BY <1>5, <2>1, <2>3, <3>1 DEF InNetsync
      <4>2. j \in DOMAIN x /\ x[j] = Ready /\ j \in 1 .. (Len(d) + 1) - 1
        BY <2>5, <4>1
      <4>3. ASSUME NEW k \in DOMAIN d, IsFrames(d[k]) PROVE \E i \in 1 .. k - 1 : x[i] = Ready
        <5>1. PICK i \in 1 .. k - 1 : d[i] = Ready
          BY <2>1, <2>3, <3>1, <4>3 DEF InNetsync
        <5>2. i \in DOMAIN d
          BY <2>5, <4>3
        <5> QED BY <2>7, <5>1, <5>2
      <4> QED BY <2>6, <4>2, <4>3
    <3> QED BY <1>8, <2>1, <2>4, <3>1 DEF InNetsync
  <2>11. Counts(p)'
    <3>1. Delay(p)' = Delay(p)
      BY DEF Delay, FullDelay
    <3> QED BY <1>8, <2>1, <3>1 DEF Counts
  <2>12. Dropped(p)'
    BY <1>5, <1>8, <2>1, <2>8 DEF Dropped
  <2>13. InputsArrive(p)'
    <3>1. FramesSent(p)' = FramesSent(p)
      BY <1>8 DEF FramesSent
    <3>2. server'.inbox[p] = server.inbox[p] /\ typed'[p] = typed[p] /\ pstat'[p] = pstat[p]
          /\ userdata'[p] = userdata[p] /\ up'[p] = up[p]
      BY <1>5, <1>8
    <3> QED BY <2>1, <3>1, <3>2 DEF InputsArrive
  <2>14. FramesArrive(p)'
    <3>1. PICK b \in Nat : b = Len(given[p])
      BY <1>1, ClientTypes
    <3>2. b <= t + n
      <4>1. b <= t
        BY <1>3, <2>1, <3>1 DEF FramesArrive
      <4> QED BY <1>5, <4>1
    <3>3. ASSUME InGame(p)
          PROVE  OnTheWay(Game, n, x, [cache |-> cache[p], at |-> b + Len(gvQueue[p])],
                          [cache |-> server'.cache[p], at |-> t + n])
      <4> DEFINE g == [cache |-> cache[p], at |-> b + Len(gvQueue[p])]
                 e == [cache |-> server.cache[p], at |-> t]
                 e2 == [cache |-> server'.cache[p], at |-> t + n]
      <4>1. OnTheWay(Game, n, d, g, e)
        BY <1>2, <1>3, <2>1, <2>3, <3>1, <3>3 DEF FramesArrive
      <4>2. e \in Place /\ e2 \in Place /\ e.at <= e2.at
        <5>1. server.cache[p] \in Caches /\ server'.cache[p] \in Caches
          BY <1>1, <1>4 DEF TypeInv, ServerState
        <5>2. t <= t + n /\ t + n \in Nat
          BY <1>5
        <5> QED BY <1>5, <5>1, <5>2 DEF Place
      <4>3. Moves(Game, n, m, e, e2)
        BY <1>6
      <4> HIDE DEF g, e, e2
      <4>4. OnTheWay(Game, n, x, g, e2)
        BY <2>4, <4>1, <4>2, <4>3, OnTheWaySend
      <4> QED BY <4>4 DEF g, e2
    <3>4. InGame(p)' <=> InGame(p)
      BY <1>8 DEF InGame
    <3>5. /\ \A k \in 1 .. b : given[p][k] = Game[k]
          /\ InGame(p) => \A k \in 1 .. Len(gvQueue[p]) : gvQueue[p][k] = Game[b + k]
      BY <2>1, <3>1 DEF FramesArrive
    <3>6. /\ given'[p] = given[p] /\ gvQueue'[p] = gvQueue[p] /\ cache'[p] = cache[p]
          /\ server'.taken[p] = t + n /\ x = down'[p] /\ Conset[p] = n
      BY <1>2, <1>5, <1>8, <2>4
    <3>7. (Len(given[p]) <= server.taken[p])'
      BY <3>1, <3>2, <3>6
    <3>8. (\A k \in 1 .. Len(given[p]) : given[p][k] = Game[k])'
      BY <1>7, <3>1, <3>5, <3>6
    <3>9. (InGame(p) => \A k \in 1 .. Len(gvQueue[p]) : gvQueue[p][k] = Game[Len(given[p]) + k])'
      BY <1>7, <3>1, <3>4, <3>5, <3>6
    <3>10. (InGame(p) => OnTheWay(Game, Conset[p], down[p],
                           [cache |-> cache[p], at |-> Len(given[p]) + Len(gvQueue[p])],
                           [cache |-> server.cache[p], at |-> server.taken[p]]))'
      BY <1>7, <3>1, <3>3, <3>4, <3>6
    <3> QED BY <3>7, <3>8, <3>9, <3>10 DEF FramesArrive
  <2> QED BY <2>9, <2>10, <2>11, <2>12, <2>13, <2>14 DEF PlayerInv
<1> QED BY <1>4, <1>9, <1>10, <1>11 DEF IInv
-----------------------------------------------------------------------------
(* The invariant holds                                                     *)

LEMMA InitIInv == Init => IInv
<1> SUFFICES ASSUME Init PROVE IInv
  OBVIOUS
<1>1. OldFrame \in Frame /\ Nothing \in AllInputs \cup {Nothing}
  BY DEF OldFrame, Frame
<1>2. ASSUME NEW p \in Players
      PROVE  /\ [i \in 1 .. Conset[p] - 1 |-> Nothing] \in Seq(AllInputs \cup {Nothing})
             /\ [i \in 1 .. Conset[p] |-> OldFrame] \in Seq(Frame)
  <2>1. Conset[p] \in Nat /\ Conset[p] - 1 \in Nat
    BY ConstantTypes
  <2>2. [i \in 1 .. Conset[p] - 1 |-> Nothing] \in [1 .. Conset[p] - 1 -> AllInputs \cup {Nothing}]
    OBVIOUS
  <2>3. [i \in 1 .. Conset[p] |-> OldFrame] \in [1 .. Conset[p] -> Frame]
    BY <1>1
  <2> QED BY <2>1, <2>2, <2>3
<1>3. ASSUME NEW p \in Players
      PROVE  /\ pstat[p] = 0 /\ thread[p] = "out" /\ ~running[p]
             /\ up[p] = <<>> /\ typed[p] = <<>> /\ given[p] = <<>>
  BY DEF Init
<1>4. /\ server.live = Players /\ server.ready = {} /\ server.synced = FALSE
      /\ \A p \in Players : /\ server.inbox[p] = <<>> /\ server.taken[p] = 0
                            /\ server.cache[p] = <<>>
  BY DEF Init
<1>5. TypeInv
  <2>1. pstat \in [Players -> 0 .. 2] /\ thread \in [Players -> {"out", "netsync", "loop"}]
    <3>1. pstat = [p \in Players |-> 0] /\ thread = [p \in Players |-> "out"]
      BY DEF Init
    <3> QED BY <3>1
  <2>2. running \in [Players -> BOOLEAN] /\ frameno \in [Players -> Nat]
    <3>1. running = [p \in Players |-> FALSE]
      BY DEF Init
    <3>2. frameno = [p \in Players |-> 0] \/ frameno = [p \in Players |-> 2]
      BY DEF Init
    <3>3. running \in [Players -> BOOLEAN]
      BY <3>1, Zenon
    <3>4. frameno \in [Players -> Nat]
      BY <3>2
    <3> QED BY <3>3, <3>4
  <2>3. userdata \in [Players -> Seq(AllInputs \cup {Nothing})]
    <3>1. \/ userdata = [p \in Players |-> <<>>]
          \/ userdata = [p \in Players |-> [i \in 1 .. Conset[p] - 1 |-> Nothing]]
      BY DEF Init
    <3>2. CASE userdata = [p \in Players |-> <<>>]
      BY <3>2
    <3>3. CASE userdata = [p \in Players |-> [i \in 1 .. Conset[p] - 1 |-> Nothing]]
      BY <1>2, <3>3, Zenon
    <3> QED BY <3>1, <3>2, <3>3
  <2>4. gvQueue \in [Players -> Seq(Frame)]
    <3>1. <<OldFrame>> \in Seq(Frame) /\ <<>> \in Seq(Frame)
      BY <1>1
    <3>2. gvQueue = [p \in Players |-> <<>>] \/ gvQueue = [p \in Players |-> <<OldFrame>>]
      BY DEF Init
    <3> QED BY <3>1, <3>2, Zenon
  <2>5. cache \in [Players -> Seq(Seq(Frame))]
    <3>1. \A p \in Players : <<[i \in 1 .. Conset[p] |-> OldFrame]>> \in Seq(Seq(Frame))
      <4>1. \A f \in Seq(Frame) : <<f>> \in Seq(Seq(Frame))
        OBVIOUS
      <4> QED BY <1>2, <4>1, Zenon
    <3>2. \/ cache = [p \in Players |-> <<>>]
          \/ cache = [p \in Players |-> <<[i \in 1 .. Conset[p] |-> OldFrame]>>]
      BY DEF Init
    <3>3. <<>> \in Seq(Seq(Frame))
      OBVIOUS
    <3> QED BY <3>1, <3>2, <3>3, Zenon
  <2>6. typed \in [Players -> Seq(AllInputs)] /\ given \in [Players -> Seq(Frame)]
    <3>1. typed = [p \in Players |-> <<>>] /\ given = [p \in Players |-> <<>>]
      BY DEF Init
    <3> QED BY <3>1
  <2>7. up \in [Players -> Seq(UpMessage)]
    <3>1. up = [p \in Players |-> <<>>]
      BY DEF Init
    <3> QED BY <3>1
  <2>8. down \in [Players -> Seq(DownMessage)]
    <3>1. \A p \in Players : /\ <<Begin>> \in Seq(DownMessage)
                             /\ <<Data([i \in 1 .. Conset[p] |-> OldFrame]), Begin>> \in Seq(DownMessage)
      <4>1. \A f \in Seq(Frame) : <<Data(f), Begin>> \in Seq(DownMessage)
        BY SentTypes
      <4>2. <<Begin>> \in Seq(DownMessage)
        BY SentTypes
      <4> QED BY <1>2, <4>1, <4>2, Zenon
    <3>2. \/ down = [p \in Players |-> <<Begin>>]
          \/ down = [p \in Players |-> <<Data([i \in 1 .. Conset[p] |-> OldFrame]), Begin>>]
      BY DEF Init
    <3> QED BY <3>1, <3>2, Zenon
  <2>9. server \in ServerState
    <3>1. server = [live |-> Players, ready |-> {}, synced |-> FALSE,
                    inbox |-> [p \in Players |-> <<>>], taken |-> [p \in Players |-> 0],
                    cache |-> [p \in Players |-> <<>>]]
      BY DEF Init
    <3>2. /\ [p \in Players |-> <<>>] \in [Players -> Seq(AllInputs)]
          /\ [p \in Players |-> 0] \in [Players -> Nat]
          /\ [p \in Players |-> <<>>] \in [Players -> Caches]
      BY DEF Caches
    <3> QED BY <3>1, <3>2 DEF ServerState
  <2> QED BY <2>1, <2>2, <2>3, <2>4, <2>5, <2>6, <2>7, <2>8, <2>9 DEF TypeInv, TypeOK
<1>6. ServerInv
  <2>1. \A p \in Players : Len(server.inbox[p]) = 0
    BY <1>4
  <2> QED BY <1>4, <2>1 DEF ServerInv
<1>7. ASSUME NEW p \in Players PROVE PlayerInv(p)
  <2>1. /\ \E k \in DOMAIN down[p] : down[p][k].kind = "GAMEBEGN"
        /\ \A k, j \in DOMAIN down[p] : k < j => down[p][k].kind # "GAMEBEGN"
    <3>1. CASE down[p] = <<Begin>>
      <4>1. down[p][1].kind = "GAMEBEGN" /\ DOMAIN down[p] = {1}
        BY <3>1, Kinds
      <4> QED BY <4>1
    <3>2. CASE down[p] = <<Data([i \in 1 .. Conset[p] |-> OldFrame]), Begin>>
      <4>1. /\ DOMAIN down[p] = {1, 2} /\ down[p][1].kind = "GAMEDATA"
            /\ down[p][2].kind = "GAMEBEGN"
        BY <3>2, Kinds
      <4> QED BY <4>1
    <3>3. \/ down = [q \in Players |-> <<Begin>>]
          \/ down = [q \in Players |-> <<Data([i \in 1 .. Conset[q] |-> OldFrame]), Begin>>]
      BY DEF Init
    <3> QED BY <3>1, <3>2, <3>3, Zenon
  <2>2. BeforeBegin(p) /\ BeforeStart(p)
    BY <1>3, <1>4, <2>1 DEF BeforeBegin, BeforeStart, HasBegin
  <2>3. InNetsync(p) /\ Counts(p)
    BY <1>3 DEF InNetsync, Counts
  <2>4. Dropped(p)
    BY <1>3, <1>4 DEF Dropped
  <2>5. InputsArrive(p)
    <3>1. Upwards(typed[p], up[p], 0, 0) /\ Len(server.inbox[p]) = 0 /\ Len(typed[p]) = 0
      BY <1>3, <1>4, UpwardsNone
    <3>2. 0 \in 0 .. Len(typed[p])
      BY <3>1
    <3> QED BY <1>3, <3>1, <3>2 DEF InputsArrive
  <2>6. FramesArrive(p)
    <3>1. Len(given[p]) = 0
      BY <1>3
    <3> QED BY <1>3, <1>4, <3>1 DEF FramesArrive, InGame
  <2> QED BY <2>2, <2>3, <2>4, <2>5, <2>6 DEF PlayerInv
<1> QED BY <1>5, <1>6, <1>7 DEF IInv

LEMMA StepIInv == IInv /\ [Next]_vars => IInv'
<1> SUFFICES ASSUME IInv, [Next]_vars PROVE IInv'
  OBVIOUS
<1>1. ASSUME NEW p \in Players, LobbyStep(p) PROVE IInv'
  BY <1>1, LobbyStepStep
<1>2. ASSUME NEW p \in Players, EmulatorStep(p) PROVE IInv'
  BY <1>2, StartSequenceStep, NetsyncReceiveStep, NetsyncFailedStep, PutDataStep,
     LoopReceiveStep, LoopIdleStep DEF EmulatorStep
<1>3. ASSUME NEW p \in Players, ServerStep(p) PROVE IInv'
  BY <1>3, ServerReceiveStep, ServerSendStep DEF ServerStep
<1>4. ASSUME NEW p \in Players,
             NetsyncTimeout(p) \/ GameDrop(p) \/ LostConnection(p) \/ EndGame(p)
      PROVE  IInv'
  BY <1>4, NetsyncTimeoutStep, GameDropStep, LostConnectionStep, EndGameStep
<1>5. CASE UNCHANGED vars
  <2>1. /\ UNCHANGED <<pstat, thread, running, userdata, frameno, gvQueue, cache, up, down,
                       typed, given>>
        /\ UNCHANGED server
    BY <1>5 DEF vars, clientVars
  <2>2. TypeInv /\ ServerInv /\ Game' = Game
    BY <2>1, GameSame DEF IInv
  <2>3. TypeInv' /\ ServerInv'
    BY <2>1, <2>2 DEF TypeInv, TypeOK, ServerInv
  <2>4. ASSUME NEW q \in Players PROVE PlayerInv(q)'
    BY <2>1, <2>2, Bystander DEF IInv
  <2> QED BY <2>3, <2>4 DEF IInv
<1> QED BY <1>1, <1>2, <1>3, <1>4, <1>5 DEF Next

LEMMA SpecIInv == Spec => []IInv
BY InitIInv, StepIInv, PTL DEF Spec
-----------------------------------------------------------------------------
(* What follows from it                                                    *)

LEMMA InvWaitsForSent == IInv => WaitsForSent
<1> SUFFICES ASSUME IInv, NEW p \in Players, thread[p] = "loop", pstat[p] = 2,
                    frameno[p] >= Delay(p)
             PROVE  Len(given[p]) + 1 <= FramesSent(p)
  BY DEF WaitsForSent
<1>1. TypeInv /\ Counts(p)
  BY DEF IInv, PlayerInv
<1>2. PICK n \in Nat, D \in Nat, c \in Nat \ {0} : n = frameno[p] /\ D = Delay(p) /\ c = Conset[p]
  BY <1>1, ClientTypes, DelayFillsPacket, ConstantTypes
<1>3. PICK t \in Nat, g \in Nat, u \in Nat :
        t = Len(typed[p]) /\ g = Len(given[p]) /\ u = Len(userdata[p])
  BY <1>1, ClientTypes
<1>4. t = n + 1 /\ g = (IF n <= D THEN 0 ELSE n - D) /\ u < c
  BY <1>1, <1>2, <1>3 DEF Counts
<1>5. c - 1 <= D /\ n >= D
  BY <1>2, DelayFillsPacket
<1>6. g + 1 <= t - u
  BY <1>4, <1>5
<1> QED BY <1>3, <1>6 DEF FramesSent

LEMMA InvGvQueueFits == IInv => GvQueueFits
BY DEF IInv, PlayerInv, Counts, GvQueueFits

LEMMA InvCachesAgree == IInv => CachesAgree
<1> SUFFICES ASSUME IInv, NEW p \in Players, pstat[p] = 2
             PROVE  server.cache[p] = CacheAfter(p)[Len(down[p])]
  BY DEF CachesAgree
<1> DEFINE g == [cache |-> cache[p], at |-> Len(given[p]) + Len(gvQueue[p])]
           e == [cache |-> server.cache[p], at |-> server.taken[p]]
<1>1. TypeInv /\ OnTheWay(Game, Conset[p], down[p], g, e) /\ down[p] \in Seq(DownMessage)
  BY ClientTypes DEF IInv, PlayerInv, FramesArrive, InGame
<1>2. g.cache = cache[p] /\ e.cache = server.cache[p]
  OBVIOUS
<1>3. PICK G, n, x, y : x.cache = cache[p] /\ y.cache = server.cache[p]
                        /\ OnTheWay(G, n, down[p], x, y)
  <2> HIDE DEF g, e
  <2> QED BY <1>1, <1>2, Zenon
<1>4. y.cache = CacheAfter(p)[Len(down[p])]
  BY <1>1, <1>3, CacheOnTheWay
<1> QED BY <1>3, <1>4
-----------------------------------------------------------------------------
(* A game is a lockstep session                                            *)

\* A frame the server has sent can be the next frame of the session.
LEMMA SentCanBe ==
  ASSUME IInv, NEW p \in Players, NEW k \in Nat \ {0}, k <= server.taken[p]
  PROVE  Session!CanBe(Game[k], k)
<1>1. TypeInv /\ ServerInv /\ \A q \in Players : InputsArrive(q) /\ FramesArrive(q)
  BY DEF IInv, PlayerInv
<1>2. Game[k] = [q \in Players |-> IF k <= Len(server.inbox[q]) THEN server.inbox[q][k] ELSE Nothing]
  BY DEF Game, Combined
<1>3. ASSUME NEW q \in Players
      PROVE  Game[k][q] = Nothing \/ (k <= Len(typed[q]) /\ Game[k][q] = typed[q][k])
  <2>1. CASE k <= Len(server.inbox[q])
    <3>1. k \in 1 .. Len(server.inbox[q])
      BY <1>1, <2>1, ClientTypes
    <3> QED BY <1>1, <1>2, <2>1, <3>1 DEF InputsArrive
  <2>2. CASE ~(k <= Len(server.inbox[q]))
    BY <1>2, <2>2
  <2> QED BY <2>1, <2>2
<1>4. ASSUME NEW q \in Players, q \in server.live
      PROVE  Game[k][q] # Nothing
  <2>1. PICK x \in Seq(AllInputs) : x = server.inbox[q]
    BY <1>1, ClientTypes
  <2>2. server.taken[p] <= Len(x) /\ server.taken[p] \in Nat /\ Len(x) \in Nat
    BY <1>1, <1>4, <2>1, ClientTypes DEF ServerInv
  <2>3. k \in 1 .. Len(x) /\ k <= Len(x)
    BY <2>2
  <2>4. x[k] \in AllInputs
    BY <2>3, ElementOfSeq
  <2> QED BY <1>2, <2>1, <2>3, <2>4, NothingIsNoInput
<1>5. ASSUME NEW q \in Players, k <= Len(given[q])
      PROVE  given[q][k] = Game[k]
  <2>1. k \in 1 .. Len(given[q])
    BY <1>1, <1>5, ClientTypes
  <2> QED BY <1>1, <2>1 DEF FramesArrive
<1> QED BY <1>3, <1>4, <1>5 DEF Session!CanBe

\* A turn of the loop gives p nothing, or the next frame of the session.
LEMMA FinishGives ==
  ASSUME IInv, NEW p \in Players, NEW q, Finish(p, q), UNCHANGED <<server, typed>>,
         NEW c, NEW d, pstat'[p] = 2 => Follows(p, q, c, d)
  PROVE  [Session!Next]_(Session!vars)
<1>1. CASE UNCHANGED given
  BY <1>1 DEF Session!vars
<1>2. CASE q # <<>> /\ pstat'[p] = 2 /\ given' = [given EXCEPT ![p] = Append(@, Head(q))]
  <2>1. /\ q \in Seq(Frame) /\ \A k \in 1 .. Len(q) : q[k] = Game[Len(given[p]) + k]
        /\ Len(given[p]) + Len(q) <= server.taken[p]
    BY <1>2 DEF Follows
  <2>2. Head(q) = q[1] /\ Head(q) \in Frame /\ Len(q) \in Nat \ {0}
    BY <1>2, <2>1, TailFacts
  <2>3. PICK b \in Nat, t \in Nat : b = Len(given[p]) /\ t = server.taken[p]
    BY ClientTypes DEF IInv
  <2>4. Head(q) = Game[b + 1] /\ b + 1 \in Nat \ {0} /\ b + 1 <= t
    BY <2>1, <2>2, <2>3
  <2>5. Session!CanBe(Head(q), Len(given[p]) + 1)
    BY <2>3, <2>4, SentCanBe
  <2>6. Head(q) \in Session!Frame
    BY <2>2 DEF Frame, Session!Frame
  <2>7. UNCHANGED <<typed, Players \ server.live>>
    OBVIOUS
  <2>8. Session!Give(p)
    BY <1>2, <2>5, <2>6, <2>7 DEF Session!Give
  <2> QED BY <2>8 DEF Session!Next
<1> QED BY <1>1, <1>2 DEF Finish

LEMMA SessionStep == IInv /\ [Next]_vars => [Session!Next]_(Session!vars)
<1> SUFFICES ASSUME IInv, [Next]_vars PROVE [Session!Next]_(Session!vars)
  OBVIOUS
<1>1. CASE UNCHANGED <<server, typed, given>>
  BY <1>1 DEF Session!vars
<1>2. ASSUME NEW p \in Players, NEW v \in Inputs[p], PutData(p, v)
      PROVE  [Session!Next]_(Session!vars)
  <2>1. v \in AllInputs
    BY ConstantTypes
  <2>2. typed' = [typed EXCEPT ![p] = Append(@, v)] /\ UNCHANGED <<Players \ server.live, given>>
    BY <1>2 DEF PutData
  <2>3. Session!Type(p)
    BY <2>1, <2>2 DEF Session!Type
  <2> QED BY <2>3 DEF Session!Next
<1>3. ASSUME NEW p \in Players, LoopIdle(p) PROVE [Session!Next]_(Session!vars)
  <2>1. Finish(p, gvQueue[p]) /\ UNCHANGED <<server, typed>> /\ pstat' = pstat
    BY <1>3 DEF LoopIdle
  <2>2. pstat'[p] = 2 => Follows(p, gvQueue[p], cache[p], down[p])
    BY <2>1, QueueFollows DEF InGame
  <2> QED BY <2>1, <2>2, FinishGives
<1>4. ASSUME NEW p \in Players, LoopReceive(p) PROVE [Session!Next]_(Session!vars)
  <2> DEFINE m == Head(down[p])
             q == gvQueue[p] \o FramesOf(p, m)
             c == IF m.kind = "GAMEDATA" THEN CacheAdd(cache[p], m.frames) ELSE cache[p]
  <2>1. Finish(p, q) /\ UNCHANGED <<server, typed>> /\ Process(p, m) /\ down[p] # <<>>
    BY <1>4 DEF LoopReceive
  <2>2. pstat'[p] = 2 => pstat[p] = 2
    BY <2>1 DEF Process, IInv, TypeInv, TypeOK
  <2>3. pstat'[p] = 2 => Follows(p, q, c, Tail(down[p]))
    BY <2>1, <2>2, MessageFollows DEF InGame
  <2> HIDE DEF m, q, c
  <2> QED BY <2>1, <2>3, FinishGives
<1>5. ASSUME NEW p \in Players, ServerReceive(p) PROVE [Session!Next]_(Session!vars)
  <2>1. PICK m : m = Head(up[p])
    OBVIOUS
  <2>2. /\ UNCHANGED <<typed, given>>
        /\ server'.live = server.live \/ server'.live = server.live \ {p}
    BY <1>5, <2>1, ReceiveFacts
  <2>3. \/ Players \ server'.live = Players \ server.live
        \/ Players \ server'.live = (Players \ server.live) \cup {p}
    BY <2>2
  <2> QED BY <2>2, <2>3 DEF Session!Next, Session!Leave, Session!vars
<1>6. ASSUME NEW p \in Players, ServerSend(p) PROVE [Session!Next]_(Session!vars)
  <2>1. UNCHANGED <<server.live, typed, given>>
    BY <1>6, SendFacts DEF Sends
  <2> QED BY <2>1 DEF Session!vars
<1>7. ASSUME NEW p \in Players, LobbyStep(p) \/ StartSequence(p) \/ NetsyncReceive(p)
                                \/ NetsyncFailed(p) \/ NetsyncTimeout(p) \/ GameDrop(p)
                                \/ LostConnection(p) \/ EndGame(p)
      PROVE  [Session!Next]_(Session!vars)
  <2>1. UNCHANGED <<server, typed, given>>
    BY <1>7 DEF LobbyStep, StartSequence, NetsyncReceive, NetsyncFailed, NetsyncTimeout,
                GameDrop, LostConnection, EndGame
  <2> QED BY <1>1, <2>1
<1>8. CASE UNCHANGED vars
  BY <1>1, <1>8 DEF vars
<1> QED BY <1>2, <1>3, <1>4, <1>5, <1>6, <1>7, <1>8 DEF Next, EmulatorStep, ServerStep

LEMMA SessionInit == Init => Session!Init
<1> SUFFICES ASSUME Init PROVE Session!Init
  OBVIOUS
<1>1. typed = [p \in Players |-> <<>>] /\ given = [p \in Players |-> <<>>]
  BY DEF Init
<1>2. server.live = Players
  BY DEF Init
<1> QED BY <1>1, <1>2 DEF Session!Init
-----------------------------------------------------------------------------
(* The theorems                                                            *)

\* The variables of a game keep their types: no frame reaches an emulator that is not
\* made of what somebody can type.
THEOREM SpecTypeOK == Spec => []TypeOK
<1>1. IInv => TypeOK
  BY DEF IInv, TypeInv
<1> QED BY <1>1, SpecIInv, PTL

\* However the packet sizes and the delays of the players differ, also when
\* kaillera_30fps_mode halves one, kaillera_modify_play_values never waits for a frame
\* whose own input is still in USERDATA.
THEOREM SpecWaitsForSent == Spec => []WaitsForSent
BY SpecIInv, InvWaitsForSent, PTL

\* kaillera_gv_queue, which nothing checks, never holds more than the delay.
THEOREM SpecGvQueueFits == Spec => []GvQueueFits
BY SpecIInv, InvGvQueueFits, PTL

\* For every cache limit the caches of the two ends agree but for the messages on their
\* way, so that a GAMCDATA always means the frames the server meant.
THEOREM SpecCachesAgree == Spec => []CachesAgree
BY SpecIInv, InvCachesAgree, PTL

\* Any number of players, any packet sizes and delays, drops at any moment: the game is a
\* lockstep session.
THEOREM SpecLockstep == Spec => LockstepSpec
<1>1. IInv /\ [Next]_vars => [Session!Next]_(Session!vars)
  BY SessionStep
<1>2. Init => Session!Init
  BY SessionInit
<1> QED BY <1>1, <1>2, SpecIInv, PTL DEF Spec, LockstepSpec, Session!Spec
=============================================================================
