---------------------------- MODULE P2PGameProofs ----------------------------
(***************************************************************************)
(* Proofs about P2PGame, for every delay, every window of serials and      *)
(* games of any length: the two emulators see one sequence of frames       *)
(* (Lockstep), and neither runs away from the other.                       *)
(*                                                                         *)
(* The first part is the 8-bit serial: within the bounds of                *)
(* P2PGameAssumption its arithmetic is that of message numbers.  The       *)
(* second follows a datagram through Fresh, UpToDrop and InputsIn.  The    *)
(* third is the inductive invariant and its steps, the last the theorems.  *)
(***************************************************************************)
EXTENDS P2PGameProps, FiniteSetTheorems, SequenceTheorems, TLAPS

\* How many frames of the peer p has got, given to its emulator or not.
Got(p) == Len(given[p]) + Len(peerdata[p])

\* The calls: the first Throughput of them return at once, and each of the others waits for the
\* frame of as many calls earlier.
CallInv(p) ==
  /\ frameno[p] = Len(typed[p])
  /\ Len(given[p]) <= Len(typed[p]) /\ Len(typed[p]) <= Len(given[p]) + Throughput + 1
  /\ inCall[p] => Len(typed[p]) = Len(given[p]) + Throughput + 1
  /\ status[p] = 3 /\ ~inCall[p] =>
       /\ Len(typed[p]) <= Throughput => Len(given[p]) = 0
       /\ Len(typed[p]) >= Throughput => Len(typed[p]) = Len(given[p]) + Throughput

\* The own inputs not given back yet.
UserInv(p) ==
  /\ Len(userdata[p]) + Len(given[p]) = Len(typed[p])
  /\ \A i \in 1 .. Len(userdata[p]) : userdata[p][i] = typed[p][Len(given[p]) + i]

\* The messages of a game are what was typed, and at most one DROP at the end.
SentInv(p) ==
  /\ Len(sent[p]) = Len(typed[p]) \/ (Len(sent[p]) = Len(typed[p]) + 1 /\ status[p] = 1)
  /\ \A i \in 1 .. Len(typed[p]) : sent[p][i] = Data(typed[p][i])
  /\ \A i \in 1 .. Len(sent[p]) : i > Len(typed[p]) => sent[p][i] = DropMsg

\* A datagram to p carries the last messages up to its newest, more than may be missing.
NetInv(p) ==
  \A b \in net[p] :
    /\ b.newest \in 1 .. Len(sent[Peer(p)])
    /\ b.count > MaxLossRun \/ b.count >= b.newest

\* What p has of the peer is what the peer typed, from the start and without a gap.
PeerInv(p) ==
  /\ Got(p) <= Len(typed[Peer(p)])
  /\ \A i \in 1 .. Len(peerdata[p]) : peerdata[p][i] = typed[Peer(p)][Len(given[p]) + i]
  /\ status[p] = 3 => last[p] = Serial(Got(p))

\* Every frame given is what both typed for it.
GivenInv(p) ==
  \A k \in 1 .. Len(given[p]) : \A q \in Players :
    k <= Len(typed[q]) /\ given[p][k][q] = typed[q][k]

IInv ==
  /\ TypeOK
  /\ \A p \in Players : CallInv(p) /\ UserInv(p) /\ SentInv(p) /\ NetInv(p) /\ PeerInv(p) /\ GivenInv(p)
-----------------------------------------------------------------------------
\* Two players

\* Each is the other's peer.
LEMMA PeerFacts ==
  ASSUME NEW p \in Players
  PROVE  /\ Peer(p) \in Players /\ Peer(p) # p /\ Peer(Peer(p)) = p
         /\ \A q \in Players : q = p \/ q = Peer(p)
<1>1. PICK a \in Players, b \in Players : a # b /\ Players = {a, b}
  BY P2PGameAssumption
<1>2. ASSUME NEW r \in Players PROVE Peer(r) \in Players /\ Peer(r) # r
  <2>1. \E q \in Players : q # r
    BY <1>1
  <2> QED
    BY <2>1 DEF Peer
<1> QED
  BY <1>1, <1>2
-----------------------------------------------------------------------------
\* Serials

LEMMA ModUnique ==
  ASSUME NEW M \in Nat \ {0}, NEW k \in Int, NEW d \in 0 .. (M - 1)
  PROVE  (M * k + d) % M = d
OBVIOUS

LEMMA ModRange ==
  ASSUME NEW M \in Nat \ {0}, NEW n \in Int
  PROVE  \E k \in Int, d \in 0 .. (M - 1) : n = M * k + d /\ n % M = d
OBVIOUS

\* Types of the constants, which most of the arithmetic needs.
LEMMA ConstTypes ==
  /\ SerialMod \in Nat \ {0} /\ BundleLimit \in Nat /\ MaxLag \in Nat /\ MaxLossRun \in Nat
  /\ Throughput \in Nat \ {0} /\ FirstSerial \in Nat /\ OutCacheSize \in Nat
BY P2PGameAssumption

\* The difference of two serials is that of the message numbers, up to turns of the serial space.
LEMMA SerialDiff ==
  ASSUME NEW a \in Nat, NEW n \in Nat, NEW k \in Int, NEW d \in 0 .. (SerialMod - 1),
         a - n = SerialMod * k + d
  PROVE  (Serial(a) - Serial(n)) % SerialMod = d
<1>1. PICK M \in Nat \ {0} : M = SerialMod
  BY ConstTypes
<1>2. PICK x \in Int, y \in Int : x = FirstSerial + a - 1 /\ y = FirstSerial + n - 1
  BY ConstTypes
<1>3. PICK k1 \in Int, d1 \in 0 .. (M - 1) : x = M * k1 + d1 /\ x % M = d1
  BY ModRange
<1>4. PICK k2 \in Int, d2 \in 0 .. (M - 1) : y = M * k2 + d2 /\ y % M = d2
  BY ModRange
<1>5. d1 - d2 = M * (k + k2 - k1) + d
  <2>1. M * (k + k2 - k1) = M * k + M * k2 - M * k1 /\ M * k \in Int /\ M * k1 \in Int /\ M * k2 \in Int
    OBVIOUS
  <2> QED
    BY <1>1, <1>2, <1>3, <1>4, <2>1, ConstTypes
<1>6. (M * (k + k2 - k1) + d) % M = d
  BY <1>1, ModUnique
<1>7. Serial(a) = d1 /\ Serial(n) = d2
  BY <1>1, <1>2, <1>3, <1>4 DEF Serial
<1> QED
  BY <1>1, <1>5, <1>6, <1>7

\* Less than a turn ahead, and less than a turn behind.
LEMMA SerialAhead ==
  ASSUME NEW a \in Nat, NEW n \in Nat, n <= a, a < n + SerialMod
  PROVE  (Serial(a) - Serial(n)) % SerialMod = a - n
<1>1. a - n \in 0 .. (SerialMod - 1) /\ a - n = SerialMod * 0 + (a - n)
  BY ConstTypes
<1> QED
  BY <1>1, SerialDiff

LEMMA SerialBehind ==
  ASSUME NEW a \in Nat, NEW n \in Nat, a < n, n < a + SerialMod
  PROVE  (Serial(a) - Serial(n)) % SerialMod = a + SerialMod - n
<1>1. a + SerialMod - n \in 0 .. (SerialMod - 1) /\ a - n = SerialMod * (-1) + (a + SerialMod - n)
  BY ConstTypes
<1> QED
  BY <1>1, SerialDiff

\* Newest finds the message back whose serial p remembers.
LEMMA NewestIs ==
  ASSUME NEW p \in Players, NEW n \in Nat, NEW len \in Nat, len = Len(sent[Peer(p)]),
         n <= len, len < n + SerialMod, last[p] = Serial(n)
  PROVE  Newest(p) = n
<1>1. ASSUME NEW m \in (n + 1) .. len PROVE Serial(m) # Serial(n)
  <2>1. (Serial(m) - Serial(n)) % SerialMod = m - n
    BY SerialAhead, ConstTypes
  <2>2. Serial(n) \in Int /\ 0 % SerialMod = 0
    BY ConstTypes DEF Serial
  <2> QED
    BY <2>1, <2>2
<1> DEFINE IsNewest(i) == Serial(i) = last[p] /\ \A m \in i + 1 .. len : Serial(m) # last[p]
<1>2. n \in 0 .. len /\ IsNewest(n)
  BY <1>1
<1>3. ASSUME NEW i \in 0 .. len, IsNewest(i) PROVE i = n
  <2>1. CASE i < n
    BY <1>3, <2>1
  <2>2. CASE n < i
    BY <1>1, <1>3, <2>2
  <2> QED
    BY <2>1, <2>2
<1>4. Newest(p) = CHOOSE i \in 0 .. len : IsNewest(i)
  BY DEF Newest
<1> HIDE DEF IsNewest
<1> QED
  BY <1>2, <1>3, <1>4
-----------------------------------------------------------------------------
\* Bundles

LEMMA MinOfThree ==
  ASSUME NEW a \in Nat, NEW b \in Nat, NEW c \in Nat
  PROVE  LET m == Min({a, b, c}) IN m \in {a, b, c} /\ m <= a /\ m <= b /\ m <= c
<1>1. \E x \in {a, b, c} : \A y \in {a, b, c} : x <= y
  OBVIOUS
<1> QED
  BY <1>1 DEF Min

\* Every message is sent often enough.
LEMMA DefaultIpmIs == DefaultIpm \in Nat /\ DefaultIpm > MaxLossRun
<1>1. PICK m : m = Min({Throughput + 1, 8})
  OBVIOUS
<1>2. m \in Nat /\ (m = Throughput + 1 \/ m = 8)
  <2>1. \E x \in {Throughput + 1, 8} : \A y \in {Throughput + 1, 8} : x <= y
    BY ConstTypes
  <2> QED
    BY <1>1, <2>1, ConstTypes DEF Min
<1>3. \E x \in {2, m} : \A y \in {2, m} : x >= y
  BY <1>2
<1>4. DefaultIpm \in {2, m} /\ DefaultIpm >= 2 /\ DefaultIpm >= m
  BY <1>1, <1>2, <1>3 DEF DefaultIpm, Max
<1> QED
  BY <1>2, <1>4, P2PGameAssumption

\* What send_message puts together.
LEMMA BundleIs ==
  ASSUME NEW n \in Nat \ {0}, NEW limit \in Nat, limit > MaxLossRun
  PROVE  /\ Bundle(n, limit) \in [newest : Nat \ {0}, count : Nat \ {0}]
         /\ Bundle(n, limit).newest = n
         /\ Bundle(n, limit).count > MaxLossRun \/ Bundle(n, limit).count >= n
<1>1. PICK m : m = Min({limit, OutCacheSize, n})
  OBVIOUS
<1>2. m \in {limit, OutCacheSize, n} /\ OutCacheSize > MaxLossRun
  BY <1>1, MinOfThree, P2PGameAssumption
<1>3. Bundle(n, limit) = [newest |-> n, count |-> m]
  BY <1>1 DEF Bundle
<1> QED
  BY <1>2, <1>3, ConstTypes
-----------------------------------------------------------------------------
\* How far one player can be ahead

LEMMA Lengths ==
  ASSUME TypeOK, NEW p \in Players
  PROVE  /\ Len(typed[p]) \in Nat /\ Len(given[p]) \in Nat /\ Len(peerdata[p]) \in Nat
         /\ Len(userdata[p]) \in Nat /\ Len(sent[p]) \in Nat /\ Got(p) \in Nat
BY DEF TypeOK, Got

\* Who waits for the other's frame cannot be ahead by more than twice the delay.
LEMMA Lead ==
  ASSUME IInv, NEW p \in Players
  PROVE  /\ Len(typed[p]) <= Len(typed[Peer(p)]) + Throughput + 1
         /\ Len(typed[Peer(p)]) <= Len(given[p]) + 2 * Throughput + 2
         /\ Len(sent[Peer(p)]) <= Len(given[p]) + 2 * Throughput + 3
<1>1. PICK q \in Players : q = Peer(p)
  BY PeerFacts
<1>2. TypeOK /\ CallInv(p) /\ CallInv(q) /\ GivenInv(p) /\ GivenInv(q) /\ SentInv(q)
  BY DEF IInv
<1>3. ASSUME NEW r \in Players, NEW o \in Players, GivenInv(r) PROVE Len(given[r]) <= Len(typed[o])
  <2>1. CASE Len(given[r]) = 0
    BY <1>2, <2>1, Lengths
  <2>2. CASE Len(given[r]) # 0
    <3>1. PICK k \in Nat : k = Len(given[r])
      BY <1>2, Lengths
    <3>2. k \in 1 .. Len(given[r])
      BY <2>2, <3>1
    <3> QED
      BY <1>3, <3>1, <3>2 DEF GivenInv
  <2> QED
    BY <2>1, <2>2
<1>4. PICK tp \in Nat, gp \in Nat, tq \in Nat, gq \in Nat, sq \in Nat :
        tp = Len(typed[p]) /\ gp = Len(given[p]) /\ tq = Len(typed[q]) /\ gq = Len(given[q]) /\ sq = Len(sent[q])
  BY <1>2, Lengths
<1>5. gp <= tq /\ gq <= tp
  BY <1>2, <1>3, <1>4
<1>6. tp <= gp + Throughput + 1 /\ tq <= gq + Throughput + 1 /\ sq <= tq + 1
  BY <1>2, <1>4 DEF CallInv, SentInv
<1>7. tp <= tq + Throughput + 1 /\ tq <= gp + 2 * Throughput + 2 /\ sq <= gp + 2 * Throughput + 3
  BY <1>5, <1>6, ConstTypes
<1> QED
  BY <1>1, <1>4, <1>7
-----------------------------------------------------------------------------
\* What a datagram brings

\* While p plays, Newest is what it has got.
LEMMA NewestIsGot ==
  ASSUME IInv, NEW p \in Players, status[p] = 3
  PROVE  /\ Newest(p) = Got(p) /\ Got(p) \in Nat /\ last[p] = Serial(Got(p))
         /\ Got(p) <= Len(typed[Peer(p)]) /\ Len(typed[Peer(p)]) <= Len(sent[Peer(p)])
         /\ Len(sent[Peer(p)]) < Got(p) + SerialMod
<1>1. PICK q \in Players : q = Peer(p)
  BY PeerFacts
<1>2. TypeOK /\ PeerInv(p) /\ SentInv(q)
  BY DEF IInv
<1>3. PICK g \in Nat, tq \in Nat, gp \in Nat, sq \in Nat :
        g = Got(p) /\ tq = Len(typed[q]) /\ gp = Len(given[p]) /\ sq = Len(sent[q])
  BY <1>2, Lengths
<1>4. last[p] = Serial(g) /\ g <= tq
  BY <1>1, <1>2, <1>3 DEF PeerInv
<1>5. gp <= g
  <2>1. PICK dp \in Nat : dp = Len(peerdata[p])
    BY <1>2, Lengths
  <2>2. g = gp + dp
    BY <1>3, <2>1 DEF Got
  <2> QED
    BY <2>1, <2>2
<1>6. tq <= sq
  BY <1>2, <1>3 DEF SentInv
<1>7. sq <= gp + 2 * Throughput + 3
  BY <1>1, <1>3, Lead
<1>8. sq < g + SerialMod
  <2>1. 2 * Throughput + 3 < SerialMod
    BY P2PGameAssumption
  <2> QED
    BY <1>5, <1>7, <2>1, ConstTypes
<1>9. Newest(p) = g
  BY <1>1, <1>3, <1>4, <1>6, <1>8, NewestIs
<1> QED
  BY <1>1, <1>3, <1>4, <1>6, <1>8, <1>9

\* Every message a datagram is taken for is in it.
LEMMA FreshIs ==
  ASSUME IInv, NEW p \in Players, status[p] = 3, NEW b \in net[p],
         b.newest <= Newest(p) + MaxLossRun + 1, Newest(p) <= b.newest + MaxLag
  PROVE  \/ Fresh(p, b) = <<>>
         \/ /\ Got(p) < b.newest
            /\ Fresh(p, b) = [i \in 1 .. (b.newest - Got(p)) |-> sent[Peer(p)][Got(p) + i]]
<1>1. PICK q \in Players : q = Peer(p)
  BY PeerFacts
<1>2. PICK n \in Nat, c \in Nat, g \in Nat : n = b.newest /\ c = b.count /\ g = Got(p)
  <2>1. b.newest \in Nat /\ b.count \in Nat
    BY DEF IInv, TypeOK
  <2> QED
    BY <2>1, NewestIsGot
<1>3. n <= g + MaxLossRun + 1 /\ g <= n + MaxLag /\ n <= Len(sent[q]) /\ Len(sent[q]) < g + SerialMod
        /\ last[p] = Serial(g) /\ (c > MaxLossRun \/ c >= n) /\ Len(sent[q]) \in Nat
  BY <1>1, <1>2, NewestIsGot, Lengths DEF IInv, NetInv
<1>4. CASE n <= g
  <2>1. (Serial(n) - Serial(g)) % SerialMod = 0 \/ (Serial(n) - Serial(g)) % SerialMod >= BundleLimit
    <3>1. CASE n = g
      BY <3>1, SerialAhead, ConstTypes
    <3>2. CASE n < g
      <4>1. g < n + SerialMod /\ n + SerialMod - g >= BundleLimit
        BY <1>3, <3>2, P2PGameAssumption
      <4> QED
        BY <3>2, <4>1, SerialBehind
    <3> QED
      BY <1>4, <3>1, <3>2
  <2>2. PICK tx : tx = (Serial(n) - Serial(g)) % SerialMod
    OBVIOUS
  <2>3. ~(0 < tx /\ tx < BundleLimit)
    BY <2>1, <2>2, ConstTypes
  <2> QED
    BY <1>2, <1>3, <2>2, <2>3 DEF Fresh
<1>5. CASE g < n
  <2>1. (Serial(n) - Serial(g)) % SerialMod = n - g
    BY <1>3, <1>5, SerialAhead, ConstTypes
  <2>2. PICK tx \in Nat : tx = n - g
    BY <1>5
  <2>3. \A i \in 1 .. tx : tx - i < c /\ n - tx + i = g + i
    BY <1>3, <1>5, <2>2, ConstTypes
  <2>4. \/ Fresh(p, b) = <<>>
        \/ Fresh(p, b) = [i \in 1 .. tx |-> IF tx - i < c THEN sent[q][n - tx + i] ELSE Empty]
    BY <1>1, <1>2, <1>3, <2>1, <2>2 DEF Fresh
  <2>5. [i \in 1 .. tx |-> IF tx - i < c THEN sent[q][n - tx + i] ELSE Empty] = [i \in 1 .. tx |-> sent[q][g + i]]
    BY <2>3
  <2> QED
    BY <1>1, <1>2, <1>5, <2>2, <2>4, <2>5
<1> QED
  BY <1>2, <1>4, <1>5

\* All inputs are taken when there is nothing else.
LEMMA InputsInAll ==
  ASSUME NEW n \in Nat, NEW ms, DOMAIN ms = 1 .. n, \A i \in 1 .. n : ms[i].kind = "DATA"
  PROVE  InputsIn(ms) = [i \in 1 .. n |-> ms[i].input]
<1> DEFINE data == {i \in DOMAIN ms : ms[i].kind = "DATA"}
           At(k) == CHOOSE i \in data : Cardinality(data \cap (1 .. i)) = k
<1>1. data = 1 .. n
  OBVIOUS
<1>2. ASSUME NEW i \in Nat PROVE Cardinality(1 .. i) = i
  <2>1. Cardinality(1 .. i) = IF 1 > i THEN 0 ELSE i - 1 + 1
    BY FS_Interval
  <2> QED
    BY <2>1
<1>3. ASSUME NEW k \in 1 .. n PROVE At(k) = k
  <2>1. \A i \in data : Cardinality(data \cap (1 .. i)) = i
    <3> SUFFICES ASSUME NEW i \in 1 .. n PROVE Cardinality((1 .. n) \cap (1 .. i)) = i
      BY <1>1
    <3>1. (1 .. n) \cap (1 .. i) = 1 .. i /\ i \in Nat
      OBVIOUS
    <3>2. Cardinality(1 .. i) = i
      BY <1>2, <3>1
    <3> QED
      BY <3>1, <3>2
  <2> QED
    BY <1>1, <2>1
<1>4. InputsIn(ms) = [k \in 1 .. Cardinality(data) |-> ms[At(k)].input]
  BY DEF InputsIn
<1>5. Cardinality(data) = n
  BY <1>1, <1>2
<1> HIDE DEF data, At
<1> QED
  BY <1>3, <1>4, <1>5

\* A message is a DROP, or it has an input.
LEMMA MessageKinds ==
  ASSUME NEW v
  PROVE  Data(v).kind = "DATA" /\ Data(v).input = v /\ Data(v) # DropMsg
<1>1. Data(v).kind = "DATA" /\ Data(v).input = v
  BY DEF Data
<1>2. DropMsg.kind = "DROP"
  BY DEF DropMsg
<1> QED
  BY <1>1, <1>2

\* What ProcessGameStuff takes from a datagram continues what p has, up to a DROP.
LEMMA Taken ==
  ASSUME IInv, NEW p \in Players, status[p] = 3, NEW b \in net[p],
         b.newest <= Newest(p) + MaxLossRun + 1, Newest(p) <= b.newest + MaxLag
  PROVE  LET ms == Fresh(p, b)
             dropped == \E i \in DOMAIN ms : ms[i] = DropMsg
         IN \E k \in Nat :
              /\ InputsIn(UpToDrop(ms)) = [i \in 1 .. k |-> typed[Peer(p)][Got(p) + i]]
              /\ Got(p) + k <= Len(typed[Peer(p)])
              /\ ~dropped => Serial(Got(p) + k) = IF ms = <<>> THEN last[p] ELSE Serial(b.newest)
<1>1. PICK q \in Players : q = Peer(p)
  BY PeerFacts
<1>2. PICK g \in Nat, tq \in Nat, sq \in Nat, n \in Nat :
        g = Got(p) /\ tq = Len(typed[q]) /\ sq = Len(sent[q]) /\ n = b.newest
  <2>1. TypeOK
    BY DEF IInv
  <2>2. b.newest \in Nat
    BY <2>1 DEF TypeOK
  <2> QED
    BY <1>1, <2>1, <2>2, NewestIsGot, Lengths
<1>3. g <= tq /\ last[p] = Serial(g) /\ n <= sq
  BY <1>1, <1>2, NewestIsGot DEF IInv, NetInv
<1>4. /\ sq = tq \/ sq = tq + 1
      /\ \A i \in 1 .. tq : sent[q][i] = Data(typed[q][i])
      /\ \A i \in 1 .. sq : i > tq => sent[q][i] = DropMsg
  BY <1>2 DEF IInv, SentInv
<1> DEFINE ms == Fresh(p, b)
           dropped == \E i \in DOMAIN ms : ms[i] = DropMsg
           Goal(k) ==
             /\ InputsIn(UpToDrop(ms)) = [i \in 1 .. k |-> typed[q][g + i]]
             /\ g + k <= tq
             /\ ~dropped => Serial(g + k) = IF ms = <<>> THEN last[p] ELSE Serial(n)
<1> SUFFICES \E k \in Nat : Goal(k)
  BY <1>1, <1>2
<1>5. CASE ms = <<>>
  <2>1. ~dropped
    BY <1>5
  <2>2. UpToDrop(ms) = <<>>
    BY <1>5, <2>1 DEF UpToDrop
  <2>3. InputsIn(<<>>) = [i \in 1 .. 0 |-> <<>>[i].input]
    <3>1. DOMAIN <<>> = 1 .. 0 /\ \A i \in 1 .. 0 : <<>>[i].kind = "DATA"
      OBVIOUS
    <3> QED
      BY <3>1, InputsInAll
  <2>4. [i \in 1 .. 0 |-> <<>>[i].input] = [i \in 1 .. 0 |-> typed[q][g + i]]
    OBVIOUS
  <2>5. InputsIn(UpToDrop(ms)) = [i \in 1 .. 0 |-> typed[q][g + i]]
    BY <2>2, <2>3, <2>4
  <2>6. Goal(0)
    <3> HIDE DEF ms
    <3> QED
      BY <1>3, <1>5, <2>5
  <2> HIDE DEF Goal
  <2> QED
    BY <2>6
<1>6. CASE g < n /\ ms = [i \in 1 .. (n - g) |-> sent[q][g + i]]
  <2>1. DOMAIN ms = 1 .. (n - g) /\ \A i \in 1 .. (n - g) : ms[i] = sent[q][g + i]
    BY <1>6
  <2>2. ms # <<>>
    BY <1>6, <2>1
  <2> HIDE DEF ms
  <2>3. ASSUME NEW k \in Nat, NEW f, DOMAIN f = 1 .. k, \A i \in 1 .. k : f[i] = ms[i], k <= n - g, g + k <= tq
        PROVE  InputsIn(f) = [i \in 1 .. k |-> typed[q][g + i]]
    <3>1. \A i \in 1 .. k : f[i] = Data(typed[q][g + i])
      BY <1>4, <2>1, <2>3
    <3>2. \A i \in 1 .. k : f[i].kind = "DATA" /\ f[i].input = typed[q][g + i]
      BY <3>1, MessageKinds
    <3>3. InputsIn(f) = [i \in 1 .. k |-> f[i].input]
      BY <2>3, <3>2, InputsInAll
    <3> QED
      BY <3>2, <3>3
  <2>4. CASE n <= tq
    <3>1. ~dropped
      BY <1>4, <1>6, <2>1, <2>4, MessageKinds
    <3>2. UpToDrop(ms) = ms
      BY <3>1 DEF UpToDrop
    <3>3. PICK k \in Nat : k = n - g
      BY <1>6
    <3>4. InputsIn(ms) = [i \in 1 .. k |-> typed[q][g + i]]
      BY <2>1, <2>3, <2>4, <3>3
    <3>5. g + k = n
      BY <3>3
    <3>6. Goal(k)
      BY <2>2, <2>4, <3>2, <3>4, <3>5
    <3> HIDE DEF Goal
    <3> QED
      BY <3>6
  <2>5. CASE n = tq + 1
    <3>1. PICK k \in Nat : k = tq - g
      BY <1>3
    <3>2. {i \in DOMAIN ms : ms[i] = DropMsg} = {k + 1}
      <4>1. ASSUME NEW i \in 1 .. (n - g) PROVE ms[i] = DropMsg <=> i = k + 1
        BY <1>3, <1>4, <2>1, <2>5, <3>1, MessageKinds
      <4>2. k + 1 \in 1 .. (n - g)
        BY <1>3, <1>6, <2>5, <3>1
      <4> QED
        BY <2>1, <4>1, <4>2
    <3>3. Min({k + 1}) = k + 1
      BY DEF Min
    <3>4. UpToDrop(ms) = SubSeq(ms, 1, k)
      <4>1. UpToDrop(ms) = SubSeq(ms, 1, (k + 1) - 1)
        BY <3>2, <3>3 DEF UpToDrop
      <4> QED
        BY <4>1
    <3>5. PICK f : f = SubSeq(ms, 1, k)
      OBVIOUS
    <3>6. DOMAIN f = 1 .. k /\ \A i \in 1 .. k : f[i] = ms[i]
      BY <1>6, <2>1, <3>1, <3>5, SubSeqProperties
    <3>7. InputsIn(f) = [i \in 1 .. k |-> typed[q][g + i]]
      BY <2>3, <2>5, <3>1, <3>6
    <3>8. dropped
      BY <3>2
    <3>9. Goal(k)
      BY <1>3, <3>1, <3>4, <3>5, <3>7, <3>8
    <3> HIDE DEF Goal
    <3> QED
      BY <3>9
  <2> QED
    BY <1>3, <1>4, <2>4, <2>5
<1> QED
  BY <1>1, <1>2, <1>5, <1>6, FreshIs
-----------------------------------------------------------------------------
\* What the steps leave alone

\* Nothing typed or sent is taken back.
Grown == \A q \in Players :
  /\ Len(typed[q]) <= Len(typed'[q]) /\ \A i \in 1 .. Len(typed[q]) : typed'[q][i] = typed[q][i]
  /\ Len(sent[q]) <= Len(sent'[q])

LEMMA SameIsGrown == TypeOK /\ UNCHANGED <<typed, sent>> => Grown
<1> SUFFICES ASSUME TypeOK, UNCHANGED <<typed, sent>>, NEW q \in Players
             PROVE  /\ Len(typed[q]) <= Len(typed'[q]) /\ \A i \in 1 .. Len(typed[q]) : typed'[q][i] = typed[q][i]
                    /\ Len(sent[q]) <= Len(sent'[q])
  BY DEF Grown
<1> QED
  BY Lengths

\* And so the lengths of the next state are numbers.
LEMMA LengthsAfter ==
  ASSUME TypeOK', NEW p \in Players
  PROVE  Len(typed'[p]) \in Nat /\ Len(sent'[p]) \in Nat
BY DEF TypeOK

LEMMA KeepCall ==
  ASSUME NEW p \in Players, CallInv(p), frameno'[p] = frameno[p], typed'[p] = typed[p], given'[p] = given[p],
         inCall'[p] = inCall[p], status'[p] = 3 => status[p] = 3
  PROVE  CallInv(p)'
BY DEF CallInv

LEMMA KeepUser ==
  ASSUME NEW p \in Players, UserInv(p), userdata'[p] = userdata[p], typed'[p] = typed[p], given'[p] = given[p]
  PROVE  UserInv(p)'
BY DEF UserInv

LEMMA KeepSent ==
  ASSUME NEW p \in Players, SentInv(p), sent'[p] = sent[p], typed'[p] = typed[p], status[p] = 1 => status'[p] = 1
  PROVE  SentInv(p)'
BY DEF SentInv

LEMMA KeepPeer ==
  ASSUME TypeOK, TypeOK', Grown, NEW p \in Players, PeerInv(p), given'[p] = given[p], peerdata'[p] = peerdata[p],
         last'[p] = last[p], status'[p] = 3 => status[p] = 3
  PROVE  PeerInv(p)'
<1>1. PICK q \in Players : q = Peer(p)
  BY PeerFacts
<1>2. PICK g \in Nat, d \in Nat, tq \in Nat :
        g = Len(given[p]) /\ d = Len(peerdata[p]) /\ tq = Len(typed[q])
  BY Lengths
<1>3. Len(typed'[q]) >= tq /\ \A i \in 1 .. tq : typed'[q][i] = typed[q][i]
  BY <1>2 DEF Grown
<1>4. g + d <= tq /\ \A i \in 1 .. d : peerdata[p][i] = typed[q][g + i]
  BY <1>1, <1>2 DEF PeerInv, Got
<1>5. Len(typed'[q]) \in Nat
  BY LengthsAfter
<1>6. g + d <= Len(typed'[q]) /\ \A i \in 1 .. d : peerdata[p][i] = typed'[q][g + i]
  <2>1. PICK u \in Nat : u = Len(typed'[q])
    BY <1>5
  <2>2. g + d <= u
    BY <1>3, <1>4, <2>1
  <2>3. ASSUME NEW i \in 1 .. d PROVE peerdata[p][i] = typed'[q][g + i]
    <3>1. g + i \in 1 .. tq
      BY <1>4
    <3> QED
      BY <1>3, <1>4, <3>1
  <2> QED
    BY <2>1, <2>2, <2>3
<1>7. Got(p)' = Got(p) /\ Got(p) = g + d
  BY <1>2 DEF Got
<1>8. status'[p] = 3 => last'[p] = Serial(g + d)
  BY <1>7 DEF PeerInv
<1> QED
  BY <1>1, <1>2, <1>6, <1>7, <1>8 DEF PeerInv

LEMMA KeepGiven ==
  ASSUME TypeOK, TypeOK', Grown, NEW p \in Players, GivenInv(p), given'[p] = given[p]
  PROVE  GivenInv(p)'
<1> SUFFICES ASSUME NEW k \in 1 .. Len(given[p]), NEW q \in Players
             PROVE  k <= Len(typed'[q]) /\ given[p][k][q] = typed'[q][k]
  BY DEF GivenInv
<1>1. PICK t \in Nat, u \in Nat : t = Len(typed[q]) /\ u = Len(typed'[q])
  BY Lengths, LengthsAfter
<1>2. k <= t /\ given[p][k][q] = typed[q][k] /\ k \in Nat /\ 1 <= k
  BY <1>1, Lengths DEF GivenInv
<1>3. t <= u /\ \A i \in 1 .. t : typed'[q][i] = typed[q][i]
  BY <1>1 DEF Grown
<1> QED
  BY <1>1, <1>2, <1>3

LEMMA KeepNet ==
  ASSUME TypeOK, TypeOK', Grown, NEW p \in Players, NetInv(p),
         \A b \in net'[p] : b \in net[p] \/ (/\ b.newest \in 1 .. Len(sent'[Peer(p)])
                                             /\ b.count > MaxLossRun \/ b.count >= b.newest)
  PROVE  NetInv(p)'
<1>1. PICK q \in Players : q = Peer(p)
  BY PeerFacts
<1>2. PICK s \in Nat, t \in Nat : s = Len(sent[q]) /\ t = Len(sent'[q]) /\ s <= t
  <2>1. Len(sent[q]) \in Nat /\ Len(sent'[q]) \in Nat
    BY Lengths, LengthsAfter
  <2> QED
    BY <2>1 DEF Grown
<1> SUFFICES ASSUME NEW b \in net'[p]
             PROVE  b.newest \in 1 .. t /\ (b.count > MaxLossRun \/ b.count >= b.newest)
  BY <1>1, <1>2 DEF NetInv
<1> QED
  BY <1>1, <1>2 DEF NetInv

\* A datagram is sent to the peer, unless it is in the lobby.
LEMMA TransmitIs ==
  ASSUME TypeOK, NEW p \in Players, NEW bundles \in SUBSET [newest : Nat \ {0}, count : Nat \ {0}],
         Transmit(p, bundles)
  PROVE  /\ net' \in [Players -> SUBSET [newest : Nat \ {0}, count : Nat \ {0}]]
         /\ \A r \in Players : \A b \in net'[r] : b \in net[r] \/ (r = Peer(p) /\ b \in bundles)
<1>1. net' = [q \in Players |-> IF status'[q] = 1 THEN {}
                               ELSE IF q = p THEN net[q] ELSE net[q] \cup bundles]
  BY DEF Transmit
<1>2. \A q \in Players : q = p \/ q = Peer(p)
  BY PeerFacts
<1> QED
  BY <1>1, <1>2 DEF TypeOK
-----------------------------------------------------------------------------
\* The steps

\* All of one player, and of both.
PlayerInv(p) == CallInv(p) /\ UserInv(p) /\ SentInv(p) /\ NetInv(p) /\ PeerInv(p) /\ GivenInv(p)

LEMMA InitIInv == Init => IInv
<1> SUFFICES ASSUME Init PROVE IInv
  OBVIOUS
<1> USE DEF Init
<1>1. TypeOK
  <2>1. Serial(0) \in 0 .. SerialMod - 1
    BY ConstTypes DEF Serial
  <2> QED
    BY <2>1 DEF TypeOK
<1>2. ASSUME NEW p \in Players PROVE PlayerInv(p)
  <2>1. Peer(p) \in Players
    BY PeerFacts
  <2>2. CallInv(p) /\ UserInv(p) /\ SentInv(p)
    BY ConstTypes DEF CallInv, UserInv, SentInv
  <2>3. NetInv(p) /\ PeerInv(p) /\ GivenInv(p)
    BY <2>1 DEF NetInv, PeerInv, GivenInv, Got
  <2> QED
    BY <2>2, <2>3 DEF PlayerInv
<1> QED
  BY <1>1, <1>2 DEF IInv, PlayerInv

\* The steps that leave all but the network alone.
LEMMA NetStep ==
  ASSUME IInv, net' \in [Players -> SUBSET [newest : Nat \ {0}, count : Nat \ {0}]],
         \A p \in Players : \A b \in net'[p] :
           b \in net[p] \/ (/\ b.newest \in 1 .. Len(sent[Peer(p)])
                            /\ b.count > MaxLossRun \/ b.count >= b.newest),
         UNCHANGED <<status, inCall, frameno, userdata, peerdata, sent, last, typed, given>>
  PROVE  IInv'
<1>1. TypeOK /\ TypeOK'
  BY DEF IInv, TypeOK, Frame
<1>2. Grown
  BY <1>1, SameIsGrown
<1>3. ASSUME NEW p \in Players PROVE PlayerInv(p)'
  <2>1. CallInv(p) /\ UserInv(p) /\ SentInv(p) /\ NetInv(p) /\ PeerInv(p) /\ GivenInv(p)
    BY DEF IInv
  <2>2. CallInv(p)' /\ UserInv(p)' /\ SentInv(p)'
    BY <2>1, KeepCall, KeepUser, KeepSent
  <2>3. PeerInv(p)' /\ GivenInv(p)'
    BY <1>1, <1>2, <2>1, KeepPeer, KeepGiven
  <2>4. NetInv(p)'
    BY <1>1, <1>2, <2>1, KeepNet
  <2> QED
    BY <2>2, <2>3, <2>4 DEF PlayerInv
<1> QED
  BY <1>1, <1>3 DEF IInv, PlayerInv

LEMMA LoseStep == ASSUME IInv, NEW p \in Players, NEW b \in net[p], Lose(p, b) PROVE IInv'
<1>1. TypeOK /\ net' = [net EXCEPT ![p] = @ \ {b}]
  BY DEF IInv, Lose
<1>2. /\ net' \in [Players -> SUBSET [newest : Nat \ {0}, count : Nat \ {0}]]
      /\ \A r \in Players : \A c \in net'[r] : c \in net[r]
  BY <1>1 DEF TypeOK
<1> QED
  BY <1>2, NetStep DEF Lose

LEMMA RetransmitStep == ASSUME IInv, NEW p \in Players, Retransmit(p) PROVE IInv'
<1>1. PICK n \in Nat : n = Len(sent[p])
  BY Lengths DEF IInv
<1>2. n # 0
  <2>1. inCall[p] /\ CallInv(p) /\ SentInv(p) /\ TypeOK
    BY DEF Retransmit, Waits, IInv
  <2> QED
    BY <1>1, <2>1, Lengths, ConstTypes DEF CallInv, SentInv
<1>3. PICK B : B = Bundle(n, Throughput + 2)
  OBVIOUS
<1>4. /\ B \in [newest : Nat \ {0}, count : Nat \ {0}] /\ B.newest = n
      /\ B.count > MaxLossRun \/ B.count >= n
  <2>1. Throughput + 2 \in Nat /\ Throughput + 2 > MaxLossRun
    BY ConstTypes, P2PGameAssumption
  <2> QED
    BY <1>2, <1>3, <2>1, BundleIs
<1>5. Transmit(p, {B})
  BY <1>1, <1>3 DEF Retransmit
<1>6. /\ net' \in [Players -> SUBSET [newest : Nat \ {0}, count : Nat \ {0}]]
      /\ \A r \in Players : \A b \in net'[r] : b \in net[r] \/ (r = Peer(p) /\ b \in {B})
  BY <1>4, <1>5, TransmitIs DEF IInv
<1>7. Peer(Peer(p)) = p
  BY PeerFacts
<1> QED
  BY <1>1, <1>2, <1>4, <1>6, <1>7, NetStep DEF Retransmit

\* A call that failed: that player is out of the game.
LEMMA FailStep == ASSUME IInv, NEW p \in Players, Fail(p) PROVE IInv'
<1>1. /\ TypeOK /\ status[p] = 1 /\ inCall' = [inCall EXCEPT ![p] = FALSE]
      /\ UNCHANGED <<status, frameno, userdata, peerdata, sent, net, last, typed, given>>
  BY DEF IInv, Fail
<1>2. TypeOK'
  BY <1>1 DEF TypeOK, Frame
<1>3. Grown
  BY <1>1, SameIsGrown
<1>4. ASSUME NEW r \in Players PROVE PlayerInv(r)'
  <2>1. CallInv(r) /\ UserInv(r) /\ SentInv(r) /\ NetInv(r) /\ PeerInv(r) /\ GivenInv(r)
    BY DEF IInv
  <2>2. UserInv(r)' /\ SentInv(r)'
    BY <1>1, <2>1, KeepUser, KeepSent
  <2>3. PeerInv(r)' /\ GivenInv(r)' /\ NetInv(r)'
    BY <1>1, <1>2, <1>3, <2>1, KeepPeer, KeepGiven, KeepNet
  <2>4. CallInv(r)'
    BY <1>1, <2>1 DEF CallInv, TypeOK
  <2> QED
    BY <2>2, <2>3, <2>4 DEF PlayerInv
<1> QED
  BY <1>2, <1>4 DEF IInv, PlayerInv

\* The frame a call returns with: what both typed for it.
LEMMA ReturnFrame ==
  ASSUME IInv, NEW p \in Players, Return(p)
  PROVE  LET g == Len(given[p]) IN
         /\ g \in Nat /\ \A r \in Players : g + 1 \in 1 .. Len(typed[r]) /\ typed[r][g + 1] \in AllInputs
         /\ given' = [given EXCEPT ![p] = Append(@, [r \in Players |-> typed[r][g + 1]])]
         /\ userdata[p] # <<>> /\ peerdata[p] # <<>>
<1>1. PICK q \in Players : q = Peer(p) /\ q # p /\ \A r \in Players : r = p \/ r = q
  BY PeerFacts
<1>2. TypeOK /\ CallInv(p) /\ UserInv(p) /\ PeerInv(p) /\ inCall[p] /\ peerdata[p] # <<>>
  BY DEF IInv, Return
<1>3. PICK g \in Nat, tp \in Nat, tq \in Nat, u \in Nat, d \in Nat :
        g = Len(given[p]) /\ tp = Len(typed[p]) /\ tq = Len(typed[q]) /\ u = Len(userdata[p]) /\ d = Len(peerdata[p])
  BY <1>2, Lengths
<1>4. /\ tp = g + Throughput + 1 /\ u + g = tp /\ \A i \in 1 .. u : userdata[p][i] = typed[p][g + i]
  BY <1>2, <1>3 DEF CallInv, UserInv
<1>5. d # 0
  BY <1>2, <1>3, EmptySeq DEF TypeOK
<1>6. g + d <= tq /\ \A i \in 1 .. d : peerdata[p][i] = typed[q][g + i]
  BY <1>1, <1>2, <1>3 DEF PeerInv, Got
<1>7. u >= 1 /\ d >= 1 /\ g + 1 \in 1 .. tp /\ g + 1 \in 1 .. tq
  BY <1>4, <1>5, <1>6, ConstTypes
<1>8. userdata[p][1] = typed[p][g + 1] /\ peerdata[p][1] = typed[q][g + 1]
  BY <1>4, <1>6, <1>7
<1>9. Head(userdata[p]) = userdata[p][1] /\ Head(peerdata[p]) = peerdata[p][1]
  <2>1. userdata[p] \in Seq(AllInputs) /\ peerdata[p] \in Seq(AllInputs)
    BY <1>2 DEF TypeOK
  <2> QED
    BY <2>1
<1>10. [r \in Players |-> IF r = p THEN Head(userdata[p]) ELSE Head(peerdata[p])] = [r \in Players |-> typed[r][g + 1]]
  BY <1>1, <1>8, <1>9
<1>11. given' = [given EXCEPT ![p] = Append(@, [r \in Players |-> typed[r][g + 1]])]
  BY <1>10 DEF Return
<1>12. \A r \in Players : g + 1 \in 1 .. Len(typed[r]) /\ typed[r][g + 1] \in AllInputs
  <2>1. typed[p] \in Seq(AllInputs) /\ typed[q] \in Seq(AllInputs)
    BY <1>2 DEF TypeOK
  <2>2. typed[p][g + 1] \in AllInputs /\ typed[q][g + 1] \in AllInputs
    BY <1>3, <1>7, <2>1, ElementOfSeq
  <2> QED
    BY <1>1, <1>3, <1>7, <2>2
<1>13. userdata[p] # <<>>
  BY <1>3, <1>7
<1> QED
  BY <1>2, <1>3, <1>11, <1>12, <1>13

LEMMA ReturnStep == ASSUME IInv, NEW p \in Players, Return(p) PROVE IInv'
<1>1. PICK g, f :
        /\ g \in Nat /\ g = Len(given[p]) /\ f = [r \in Players |-> typed[r][g + 1]]
        /\ \A r \in Players : g + 1 \in 1 .. Len(typed[r]) /\ typed[r][g + 1] \in AllInputs
        /\ given' = [given EXCEPT ![p] = Append(given[p], f)]
        /\ userdata[p] # <<>> /\ peerdata[p] # <<>>
  BY ReturnFrame
<1> g \in Nat
  BY <1>1
<1>2. /\ inCall[p] /\ userdata' = [userdata EXCEPT ![p] = Tail(userdata[p])]
      /\ peerdata' = [peerdata EXCEPT ![p] = Tail(peerdata[p])]
      /\ inCall' = [inCall EXCEPT ![p] = FALSE]
      /\ UNCHANGED <<status, frameno, sent, net, last, typed>>
  BY DEF Return
<1>3. TypeOK
  BY DEF IInv
<1>4. f \in Frame
  BY <1>1 DEF Frame
<1>5. /\ given[p] \in Seq(Frame) /\ given'[p] = Append(given[p], f) /\ given'[p] \in Seq(Frame) /\ Len(given'[p]) = g + 1
      /\ \A k \in 1 .. g : given'[p][k] = given[p][k]
      /\ given'[p][g + 1] = f
  BY <1>1, <1>3, <1>4, AppendProperties DEF TypeOK
<1>6. PICK u \in Nat : Len(userdata[p]) = u + 1
  <2>1. PICK l \in Nat : l = Len(userdata[p])
    BY <1>3, Lengths
  <2>2. l # 0
    BY <1>1, <1>3, <2>1, EmptySeq DEF TypeOK
  <2>3. l - 1 \in Nat /\ l = (l - 1) + 1
    BY <2>2
  <2> QED
    BY <2>1, <2>3
<1>7. /\ userdata'[p] \in Seq(AllInputs) /\ Len(userdata'[p]) = u
      /\ \A i \in 1 .. u : userdata'[p][i] = userdata[p][i + 1]
  <2>1. PICK s \in Seq(AllInputs) : s = userdata[p]
    BY <1>3 DEF TypeOK
  <2>2. userdata'[p] = Tail(s)
    BY <1>2, <1>3, <2>1 DEF TypeOK
  <2>3. Tail(s) \in Seq(AllInputs) /\ Len(Tail(s)) = u /\ \A i \in 1 .. Len(Tail(s)) : Tail(s)[i] = s[i + 1]
    BY <1>1, <1>6, <2>1, HeadTailProperties
  <2> QED
    BY <2>1, <2>2, <2>3
<1>8. PICK d \in Nat : Len(peerdata[p]) = d + 1
  <2>1. PICK l \in Nat : l = Len(peerdata[p])
    BY <1>3, Lengths
  <2>2. l # 0
    BY <1>1, <1>3, <2>1, EmptySeq DEF TypeOK
  <2>3. l - 1 \in Nat /\ l = (l - 1) + 1
    BY <2>2
  <2> QED
    BY <2>1, <2>3
<1>9. /\ peerdata'[p] \in Seq(AllInputs) /\ Len(peerdata'[p]) = d
      /\ \A i \in 1 .. d : peerdata'[p][i] = peerdata[p][i + 1]
  <2>1. PICK s \in Seq(AllInputs) : s = peerdata[p]
    BY <1>3 DEF TypeOK
  <2>2. peerdata'[p] = Tail(s)
    BY <1>2, <1>3, <2>1 DEF TypeOK
  <2>3. Tail(s) \in Seq(AllInputs) /\ Len(Tail(s)) = d /\ \A i \in 1 .. Len(Tail(s)) : Tail(s)[i] = s[i + 1]
    BY <1>1, <1>8, <2>1, HeadTailProperties
  <2> QED
    BY <2>1, <2>2, <2>3
<1>10. TypeOK'
  <2>1. given' \in [Players -> Seq(Frame)]
    BY <1>1, <1>3, <1>5 DEF TypeOK
  <2>2. userdata' \in [Players -> Seq(AllInputs)] /\ peerdata' \in [Players -> Seq(AllInputs)]
    BY <1>2, <1>3, <1>7, <1>9 DEF TypeOK
  <2>3. inCall' \in [Players -> BOOLEAN]
    BY <1>2, <1>3 DEF TypeOK
  <2> QED
    BY <1>2, <1>3, <2>1, <2>2, <2>3 DEF TypeOK
<1>11. Grown
  BY <1>2, <1>3, SameIsGrown
<1>12. ASSUME NEW r \in Players, r # p PROVE PlayerInv(r)'
  <2>1. CallInv(r) /\ UserInv(r) /\ SentInv(r) /\ NetInv(r) /\ PeerInv(r) /\ GivenInv(r)
    BY DEF IInv
  <2>2. given'[r] = given[r] /\ userdata'[r] = userdata[r] /\ peerdata'[r] = peerdata[r] /\ inCall'[r] = inCall[r]
    BY <1>1, <1>2, <1>3, <1>12 DEF TypeOK
  <2>3. CallInv(r)' /\ UserInv(r)' /\ SentInv(r)'
    BY <1>2, <2>1, <2>2, KeepCall, KeepUser, KeepSent
  <2>4. PeerInv(r)' /\ GivenInv(r)' /\ NetInv(r)'
    BY <1>2, <1>3, <1>10, <1>11, <2>1, <2>2, KeepPeer, KeepGiven, KeepNet
  <2> QED
    BY <2>3, <2>4 DEF PlayerInv
<1>13. PlayerInv(p)'
  <2>1. CallInv(p) /\ UserInv(p) /\ SentInv(p) /\ NetInv(p) /\ PeerInv(p) /\ GivenInv(p)
    BY DEF IInv
  <2>2. SentInv(p)' /\ NetInv(p)'
    BY <1>2, <1>3, <1>10, <1>11, <2>1, KeepSent, KeepNet
  <2>3. CallInv(p)'
    <3>1. PICK t \in Nat : t = Len(typed[p])
      BY <1>3, Lengths
    <3>2. frameno[p] = t /\ t = g + Throughput + 1
      BY <1>1, <1>2, <2>1, <3>1 DEF CallInv
    <3>3. ~inCall'[p]
      BY <1>2, <1>3 DEF TypeOK
    <3> QED
      BY <1>2, <1>5, <3>1, <3>2, <3>3, ConstTypes DEF CallInv
  <2>4. UserInv(p)'
    <3>1. PICK t \in Nat : t = Len(typed[p])
      BY <1>3, Lengths
    <3>2. (u + 1) + g = t /\ \A i \in 1 .. (u + 1) : userdata[p][i] = typed[p][g + i]
      BY <1>1, <1>6, <2>1, <3>1 DEF UserInv
    <3>3. \A i \in 1 .. u : userdata'[p][i] = typed[p][(g + 1) + i]
      <4> SUFFICES ASSUME NEW i \in 1 .. u PROVE userdata'[p][i] = typed[p][(g + 1) + i]
        OBVIOUS
      <4>1. i + 1 \in 1 .. (u + 1) /\ g + (i + 1) = (g + 1) + i
        OBVIOUS
      <4> QED
        BY <1>7, <3>2, <4>1
    <3>4. u + (g + 1) = t
      BY <3>2
    <3> QED
      BY <1>2, <1>5, <1>7, <3>1, <3>3, <3>4 DEF UserInv
  <2>5. PeerInv(p)'
    <3>1. PICK q \in Players, t \in Nat : q = Peer(p) /\ t = Len(typed[q])
      BY <1>3, PeerFacts, Lengths
    <3>2. g + (d + 1) <= t /\ \A i \in 1 .. (d + 1) : peerdata[p][i] = typed[q][g + i]
      BY <1>1, <1>8, <2>1, <3>1 DEF PeerInv, Got
    <3>3. \A i \in 1 .. d : peerdata'[p][i] = typed[q][(g + 1) + i]
      <4> SUFFICES ASSUME NEW i \in 1 .. d PROVE peerdata'[p][i] = typed[q][(g + 1) + i]
        OBVIOUS
      <4>1. i + 1 \in 1 .. (d + 1) /\ g + (i + 1) = (g + 1) + i
        OBVIOUS
      <4> QED
        BY <1>9, <3>2, <4>1
    <3>4. Got(p)' = (g + 1) + d /\ Got(p) = g + (d + 1) /\ (g + 1) + d = g + (d + 1)
      <4>1. Got(p)' = Len(given'[p]) + Len(peerdata'[p]) /\ Got(p) = Len(given[p]) + Len(peerdata[p])
        BY DEF Got
      <4>2. Got(p)' = (g + 1) + d
        BY <1>5, <1>9, <4>1
      <4>3. Got(p) = g + (d + 1)
        BY <1>1, <1>8, <4>1
      <4> HIDE DEF Got
      <4> QED
        BY <4>2, <4>3
    <3>5. status'[p] = 3 => last'[p] = Serial(Got(p)')
      BY <1>2, <2>1, <3>4 DEF PeerInv
    <3>6. Got(p)' <= t
      BY <3>2, <3>4
    <3> HIDE DEF Got
    <3> QED
      BY <1>2, <1>5, <1>9, <3>1, <3>3, <3>5, <3>6 DEF PeerInv
  <2>6. GivenInv(p)'
    <3> SUFFICES ASSUME NEW k \in 1 .. (g + 1), NEW r \in Players
                 PROVE  k <= Len(typed[r]) /\ given'[p][k][r] = typed[r][k]
      BY <1>2, <1>5 DEF GivenInv
    <3>1. CASE k = g + 1
      BY <1>1, <1>5, <3>1
    <3>2. CASE k # g + 1
      <4>1. k \in 1 .. g
        BY <3>2
      <4> QED
        BY <1>1, <1>5, <2>1, <4>1 DEF GivenInv
    <3> QED
      BY <3>1, <3>2
  <2> QED
    BY <2>2, <2>3, <2>4, <2>5, <2>6 DEF PlayerInv
<1> QED
  BY <1>10, <1>12, <1>13 DEF IInv, PlayerInv

\* What p appends to its messages: they have been as many as its inputs.
LEMMA AppendSent ==
  ASSUME IInv, NEW p \in Players, status[p] = 3, NEW m \in {Data(v) : v \in AllInputs} \cup {DropMsg},
         sent' = [sent EXCEPT ![p] = Append(@, m)]
  PROVE  LET t == Len(typed[p]) IN
         /\ t \in Nat /\ Len(sent[p]) = t /\ Len(sent'[p]) = t + 1
         /\ \A i \in 1 .. t : sent'[p][i] = sent[p][i]
         /\ sent'[p][t + 1] = m
         /\ \A r \in Players : r # p => sent'[r] = sent[r]
         /\ sent' \in [Players -> Seq({Data(v) : v \in AllInputs} \cup {DropMsg})]
<1>1. PICK t \in Nat : t = Len(typed[p])
  BY Lengths DEF IInv
<1>2. Len(sent[p]) = t
  BY <1>1 DEF IInv, SentInv
<1>3. PICK M : M = {Data(v) : v \in AllInputs} \cup {DropMsg}
  OBVIOUS
<1>4. PICK s \in Seq(M) : s = sent[p]
  BY <1>3 DEF IInv, TypeOK
<1>5. sent \in [Players -> Seq(M)]
  BY <1>3 DEF IInv, TypeOK
<1>6. sent' = [sent EXCEPT ![p] = Append(s, m)]
  BY <1>4
<1>7. /\ Append(s, m) \in Seq(M) /\ Len(Append(s, m)) = t + 1 /\ Append(s, m)[t + 1] = m
      /\ \A i \in 1 .. t : Append(s, m)[i] = s[i]
  BY <1>2, <1>3, <1>4, AppendProperties
<1> QED
  BY <1>1, <1>2, <1>3, <1>4, <1>5, <1>6, <1>7

LEMMA CallStep == ASSUME IInv, NEW p \in Players, NEW v \in Inputs[p], Call(p, v) PROVE IInv'
<1>1. PICK t \in Nat, g \in Nat, u \in Nat : t = Len(typed[p]) /\ g = Len(given[p]) /\ u = Len(userdata[p])
  BY Lengths DEF IInv
<1>2. TypeOK /\ v \in AllInputs /\ status[p] = 3 /\ ~inCall[p]
  <2>1. TypeOK
    BY DEF IInv
  <2>2. v \in AllInputs
    BY DEF AllInputs
  <2>3. status[p] \in {1, 3} /\ status[p] > 1 /\ ~inCall[p]
    BY <2>1 DEF TypeOK, Call
  <2> QED
    BY <2>1, <2>2, <2>3
<1>3. /\ typed' = [typed EXCEPT ![p] = Append(typed[p], v)]
      /\ userdata' = [userdata EXCEPT ![p] = Append(userdata[p], v)]
      /\ sent' = [sent EXCEPT ![p] = Append(@, Data(v))]
      /\ inCall' = [inCall EXCEPT ![p] = frameno[p] >= Throughput]
      /\ frameno' = [frameno EXCEPT ![p] = frameno[p] + 1]
      /\ UNCHANGED <<status, peerdata, last, given>>
      /\ Transmit(p, {Bundle(Len(sent'[p]), DefaultIpm)})
  BY DEF Call
<1>4. Data(v) \in {Data(w) : w \in AllInputs} \cup {DropMsg}
  BY <1>2
<1>5. /\ Len(sent[p]) = t /\ Len(sent'[p]) = t + 1
      /\ \A i \in 1 .. t : sent'[p][i] = sent[p][i]
      /\ sent'[p][t + 1] = Data(v)
      /\ \A r \in Players : r # p => sent'[r] = sent[r]
      /\ sent' \in [Players -> Seq({Data(w) : w \in AllInputs} \cup {DropMsg})]
  BY <1>1, <1>2, <1>3, <1>4, AppendSent
<1>6. PICK T \in Seq(AllInputs), U \in Seq(AllInputs) : T = typed[p] /\ U = userdata[p]
  BY <1>2 DEF TypeOK
<1>7. /\ Append(T, v) \in Seq(AllInputs) /\ Len(Append(T, v)) = t + 1 /\ Append(T, v)[t + 1] = v
      /\ \A i \in 1 .. t : Append(T, v)[i] = T[i]
  BY <1>1, <1>2, <1>6, AppendProperties
<1>8. /\ Append(U, v) \in Seq(AllInputs) /\ Len(Append(U, v)) = u + 1 /\ Append(U, v)[u + 1] = v
      /\ \A i \in 1 .. u : Append(U, v)[i] = U[i]
  BY <1>1, <1>2, <1>6, AppendProperties
<1>9. typed'[p] = Append(T, v) /\ userdata'[p] = Append(U, v) /\ \A r \in Players : r # p => typed'[r] = typed[r]
  BY <1>2, <1>3, <1>6 DEF TypeOK
<1>10. PICK B : B = Bundle(t + 1, DefaultIpm)
  OBVIOUS
<1>11. /\ B \in [newest : Nat \ {0}, count : Nat \ {0}] /\ B.newest = t + 1
       /\ B.count > MaxLossRun \/ B.count >= t + 1
  BY <1>10, DefaultIpmIs, BundleIs
<1>12. /\ net' \in [Players -> SUBSET [newest : Nat \ {0}, count : Nat \ {0}]]
       /\ \A r \in Players : \A b \in net'[r] : b \in net[r] \/ (r = Peer(p) /\ b \in {B})
  <2>1. Transmit(p, {B})
    BY <1>3, <1>5, <1>10
  <2> QED
    BY <1>2, <1>11, <2>1, TransmitIs
<1>13. TypeOK'
  <2>1. typed' \in [Players -> Seq(AllInputs)] /\ userdata' \in [Players -> Seq(AllInputs)]
    BY <1>2, <1>3, <1>6, <1>7, <1>8 DEF TypeOK
  <2>2. inCall' \in [Players -> BOOLEAN] /\ frameno' \in [Players -> Nat]
    <3>1. frameno[p] \in Nat /\ frameno[p] + 1 \in Nat /\ (frameno[p] >= Throughput) \in BOOLEAN
      BY <1>2 DEF TypeOK
    <3> QED
      BY <1>2, <1>3, <3>1 DEF TypeOK
  <2> QED
    BY <1>2, <1>3, <1>5, <1>12, <2>1, <2>2 DEF TypeOK, Frame
<1>14. Grown
  <2> SUFFICES ASSUME NEW r \in Players
               PROVE  /\ Len(typed[r]) <= Len(typed'[r]) /\ \A i \in 1 .. Len(typed[r]) : typed'[r][i] = typed[r][i]
                      /\ Len(sent[r]) <= Len(sent'[r])
    BY DEF Grown
  <2>1. CASE r = p
    BY <1>1, <1>5, <1>6, <1>7, <1>9, <2>1
  <2>2. CASE r # p
    BY <1>2, <1>5, <1>9, <2>2, Lengths
  <2> QED
    BY <2>1, <2>2
<1>15. ASSUME NEW r \in Players PROVE PeerInv(r)' /\ GivenInv(r)' /\ NetInv(r)'
  <2>1. NetInv(r) /\ PeerInv(r) /\ GivenInv(r)
    BY DEF IInv
  <2>2. PeerInv(r)' /\ GivenInv(r)'
    BY <1>2, <1>3, <1>13, <1>14, <2>1, KeepPeer, KeepGiven
  <2>3. \A b \in net'[r] : b \in net[r] \/ (/\ b.newest \in 1 .. Len(sent'[Peer(r)])
                                            /\ b.count > MaxLossRun \/ b.count >= b.newest)
    <3>1. r = Peer(p) => Peer(r) = p
      BY PeerFacts
    <3> QED
      BY <1>5, <1>11, <1>12, <3>1
  <2>4. NetInv(r)'
    BY <1>2, <1>13, <1>14, <2>1, <2>3, KeepNet
  <2> QED
    BY <2>2, <2>4
<1>16. ASSUME NEW r \in Players, r # p PROVE CallInv(r)' /\ UserInv(r)' /\ SentInv(r)'
  <2>1. CallInv(r) /\ UserInv(r) /\ SentInv(r)
    BY DEF IInv
  <2>2. userdata'[r] = userdata[r] /\ inCall'[r] = inCall[r] /\ frameno'[r] = frameno[r]
    BY <1>2, <1>3, <1>16 DEF TypeOK
  <2> QED
    BY <1>3, <1>5, <1>9, <1>16, <2>1, <2>2, KeepCall, KeepUser, KeepSent
<1>17. CallInv(p) /\ UserInv(p) /\ SentInv(p)
  BY DEF IInv
<1>18. CallInv(p)'
  <2>1. /\ frameno[p] = t /\ g <= t
        /\ t <= Throughput => g = 0
        /\ t >= Throughput => t = g + Throughput
    BY <1>1, <1>2, <1>17 DEF CallInv
  <2>2. frameno'[p] = t + 1 /\ (inCall'[p] <=> t >= Throughput)
    BY <1>2, <1>3, <2>1 DEF TypeOK
  <2>3. Len(typed'[p]) = t + 1 /\ Len(given'[p]) = g
    BY <1>1, <1>3, <1>7, <1>9
  <2> QED
    BY <2>1, <2>2, <2>3, ConstTypes DEF CallInv
<1>19. UserInv(p)'
  <2>1. u + g = t /\ \A i \in 1 .. u : U[i] = T[g + i]
    BY <1>1, <1>6, <1>17 DEF UserInv
  <2>2. ASSUME NEW i \in 1 .. (u + 1) PROVE Append(U, v)[i] = Append(T, v)[g + i]
    <3>1. CASE i = u + 1
      BY <1>7, <1>8, <2>1, <3>1
    <3>2. CASE i # u + 1
      <4>1. i \in 1 .. u /\ g + i \in 1 .. t
        BY <2>1, <3>2
      <4> QED
        BY <1>7, <1>8, <2>1, <4>1
    <3> QED
      BY <3>1, <3>2
  <2>3. (u + 1) + g = t + 1
    BY <2>1
  <2> QED
    BY <1>1, <1>3, <1>7, <1>8, <1>9, <2>2, <2>3 DEF UserInv
<1>20. SentInv(p)'
  <2>1. \A i \in 1 .. t : sent[p][i] = Data(T[i])
    BY <1>1, <1>6, <1>17 DEF SentInv
  <2>2. ASSUME NEW i \in 1 .. (t + 1) PROVE sent'[p][i] = Data(Append(T, v)[i])
    <3>1. CASE i = t + 1
      BY <1>5, <1>7, <3>1
    <3>2. CASE i # t + 1
      <4>1. i \in 1 .. t
        BY <3>2
      <4> QED
        BY <1>5, <1>7, <2>1, <4>1
    <3> QED
      BY <3>1, <3>2
  <2> QED
    BY <1>5, <1>7, <1>9, <2>2 DEF SentInv
<1> QED
  BY <1>13, <1>15, <1>16, <1>18, <1>19, <1>20 DEF IInv

\* p leaves: its message DROP goes out, and no rule binds its calls any more.
LEMMA DropStep ==
  ASSUME IInv, NEW p \in Players, status[p] = 3, Drop(p),
         inCall' \in [Players -> BOOLEAN], \A r \in Players : inCall'[r] = inCall[r] \/ (r = p /\ ~inCall'[r]),
         UNCHANGED <<frameno, userdata, peerdata, last, typed, given>>
  PROVE  IInv'
<1>1. PICK t \in Nat : t = Len(typed[p])
  BY Lengths DEF IInv
<1>2. TypeOK
  BY DEF IInv
<1>3. /\ status' = [status EXCEPT ![p] = 1]
      /\ sent' = [sent EXCEPT ![p] = Append(@, DropMsg)]
      /\ Transmit(p, {Bundle(Len(sent'[p]), DefaultIpm), Bundle(Len(sent'[p]), Throughput + 2)})
  BY DEF Drop
<1>4. PICK m \in {Data(w) : w \in AllInputs} \cup {DropMsg} : m = DropMsg
  OBVIOUS
<1>5. /\ Len(sent[p]) = t /\ Len(sent'[p]) = t + 1
      /\ \A i \in 1 .. t : sent'[p][i] = sent[p][i]
      /\ sent'[p][t + 1] = DropMsg
      /\ \A r \in Players : r # p => sent'[r] = sent[r]
      /\ sent' \in [Players -> Seq({Data(w) : w \in AllInputs} \cup {DropMsg})]
  <2>1. sent' = [sent EXCEPT ![p] = Append(@, m)]
    BY <1>3, <1>4
  <2>2. /\ Len(sent[p]) = Len(typed[p]) /\ Len(sent'[p]) = Len(typed[p]) + 1
        /\ \A i \in 1 .. Len(typed[p]) : sent'[p][i] = sent[p][i]
        /\ sent'[p][Len(typed[p]) + 1] = m
        /\ \A r \in Players : r # p => sent'[r] = sent[r]
        /\ sent' \in [Players -> Seq({Data(w) : w \in AllInputs} \cup {DropMsg})]
    BY <1>4, <2>1, AppendSent, Zenon
  <2> QED
    BY <1>1, <1>4, <2>2
<1>6. /\ status' \in [Players -> {1, 3}] /\ status'[p] = 1
      /\ \A r \in Players : r # p => status'[r] = status[r]
  BY <1>2, <1>3 DEF TypeOK
<1>7. PICK B, C : B = Bundle(t + 1, DefaultIpm) /\ C = Bundle(t + 1, Throughput + 2)
  OBVIOUS
<1>8. /\ B \in [newest : Nat \ {0}, count : Nat \ {0}] /\ B.newest = t + 1
      /\ B.count > MaxLossRun \/ B.count >= t + 1
  BY <1>7, DefaultIpmIs, BundleIs
<1>9. /\ C \in [newest : Nat \ {0}, count : Nat \ {0}] /\ C.newest = t + 1
      /\ C.count > MaxLossRun \/ C.count >= t + 1
  <2>1. Throughput + 2 \in Nat /\ Throughput + 2 > MaxLossRun
    BY ConstTypes, P2PGameAssumption
  <2> QED
    BY <1>7, <2>1, BundleIs
<1>10. /\ net' \in [Players -> SUBSET [newest : Nat \ {0}, count : Nat \ {0}]]
       /\ \A r \in Players : \A b \in net'[r] : b \in net[r] \/ (r = Peer(p) /\ b \in {B, C})
  <2>1. Transmit(p, {B, C})
    BY <1>3, <1>5, <1>7
  <2> QED
    BY <1>2, <1>8, <1>9, <2>1, TransmitIs
<1>11. TypeOK'
  BY <1>2, <1>5, <1>6, <1>10 DEF TypeOK, Frame
<1>12. Grown
  <2>1. \A r \in Players : Len(sent[r]) <= Len(sent'[r])
    BY <1>1, <1>2, <1>5, Lengths
  <2> QED
    BY <1>2, <2>1, Lengths DEF Grown
<1>13. ASSUME NEW r \in Players PROVE PlayerInv(r)'
  <2>1. CallInv(r) /\ UserInv(r) /\ SentInv(r) /\ NetInv(r) /\ PeerInv(r) /\ GivenInv(r)
    BY DEF IInv
  <2>2. status'[r] = 3 => status[r] = 3 /\ inCall'[r] = inCall[r]
    BY <1>6
  <2>3. CallInv(r)'
    <3>1. inCall'[r] => inCall[r]
      OBVIOUS
    <3> QED
      BY <2>1, <2>2, <3>1 DEF CallInv
  <2>4. UserInv(r)' /\ PeerInv(r)' /\ GivenInv(r)'
    BY <1>2, <1>11, <1>12, <2>1, <2>2, KeepUser, KeepPeer, KeepGiven
  <2>5. \A b \in net'[r] :
          b \in net[r] \/ (b.newest \in 1 .. Len(sent'[Peer(r)]) /\ (b.count > MaxLossRun \/ b.count >= b.newest))
    <3>1. r = Peer(p) => Peer(r) = p
      BY PeerFacts
    <3> QED
      BY <1>5, <1>8, <1>9, <1>10, <3>1
  <2>6. NetInv(r)'
    BY <1>2, <1>11, <1>12, <2>1, <2>5, KeepNet
  <2>7. SentInv(r)'
    <3>1. CASE r = p
      <4>1. \A i \in 1 .. t : sent[p][i] = Data(typed[p][i])
        BY <1>1, <2>1, <3>1 DEF SentInv
      <4>2. \A i \in 1 .. (t + 1) : i > t => sent'[p][i] = DropMsg
        BY <1>5
      <4> QED
        BY <1>1, <1>5, <1>6, <3>1, <4>1, <4>2 DEF SentInv
    <3>2. CASE r # p
      BY <1>5, <1>6, <2>1, <3>2, KeepSent
    <3> QED
      BY <3>1, <3>2
  <2> QED
    BY <2>3, <2>4, <2>6, <2>7 DEF PlayerInv
<1> QED
  BY <1>11, <1>13 DEF IInv, PlayerInv

\* A datagram is read: what it brings follows what p has of the peer.
LEMMA ReceiveStep == ASSUME IInv, NEW p \in Players, NEW b \in net[p], Receive(p, b) PROVE IInv'
<1>1. PICK q \in Players, g \in Nat, tq \in Nat :
        q = Peer(p) /\ g = Len(given[p]) /\ tq = Len(typed[q])
  BY PeerFacts, Lengths DEF IInv
<1>2. TypeOK /\ status[p] = 3 /\ inCall[p] /\ peerdata[p] = <<>>
  <2>1. TypeOK
    BY DEF IInv
  <2>2. Waits(p)
    BY DEF Receive
  <2>3. status[p] \in {1, 3} /\ status[p] > 1
    BY <2>1, <2>2 DEF TypeOK, Waits
  <2> QED
    BY <2>1, <2>2, <2>3 DEF Waits
<1>3. PICK ms : ms = Fresh(p, b)
  OBVIOUS
<1>4. PICK dropped : dropped = (\E i \in DOMAIN ms : ms[i] = DropMsg)
  OBVIOUS
<1>5. ms = Fresh(p, b) /\ (dropped = (\E i \in DOMAIN ms : ms[i] = DropMsg)) /\ dropped \in BOOLEAN
  <2>1. dropped \in BOOLEAN
    BY <1>4
  <2> QED
    BY <1>3, <1>4, <2>1, Zenon
<1>6. /\ b.newest <= Newest(p) + MaxLossRun + 1 /\ Newest(p) <= b.newest + MaxLag
      /\ net' = [net EXCEPT ![p] = IF dropped THEN {} ELSE @ \ {b}]
      /\ last' = [last EXCEPT ![p] = IF ms = <<>> THEN @ ELSE Serial(b.newest)]
      /\ peerdata' = [peerdata EXCEPT ![p] = @ \o InputsIn(UpToDrop(ms))]
      /\ status' = [status EXCEPT ![p] = IF dropped THEN 1 ELSE @]
      /\ inCall' = [inCall EXCEPT ![p] = ~dropped]
      /\ UNCHANGED <<frameno, userdata, sent, typed, given>>
  BY <1>5 DEF Receive
<1>7. Got(p) = g
  BY <1>1, <1>2 DEF Got
<1>8. PICK k \in Nat :
        /\ InputsIn(UpToDrop(ms)) = [i \in 1 .. k |-> typed[q][g + i]]
        /\ g + k <= tq
        /\ ~dropped => Serial(g + k) = IF ms = <<>> THEN last[p] ELSE Serial(b.newest)
  BY <1>1, <1>2, <1>5, <1>6, <1>7, Taken
<1>9. PICK X : X = [i \in 1 .. k |-> typed[q][g + i]]
  OBVIOUS
<1>10. X \in Seq(AllInputs) /\ Len(X) = k
  <2>1. typed[q] \in Seq(AllInputs)
    BY <1>2 DEF TypeOK
  <2>2. ASSUME NEW i \in 1 .. k PROVE typed[q][g + i] \in AllInputs
    <3>1. g + i \in 1 .. Len(typed[q])
      BY <1>1, <1>8
    <3> QED
      BY <2>1, <3>1, ElementOfSeq
  <2> QED
    BY <1>9, <2>2
<1>11. peerdata'[p] = X
  <2>1. peerdata'[p] = peerdata[p] \o X
    BY <1>2, <1>6, <1>8, <1>9 DEF TypeOK
  <2>2. <<>> \o X = X
    BY <1>10
  <2> QED
    BY <1>2, <2>1, <2>2
<1>12. TypeOK'
  <2>1. status' \in [Players -> {1, 3}] /\ inCall' \in [Players -> BOOLEAN]
    BY <1>2, <1>6 DEF TypeOK
  <2>2. peerdata' \in [Players -> Seq(AllInputs)]
    BY <1>2, <1>6, <1>10, <1>11 DEF TypeOK
  <2>3. last' \in [Players -> 0 .. SerialMod - 1]
    <3>1. b.newest \in Nat
      BY <1>2 DEF TypeOK
    <3>2. Serial(b.newest) \in 0 .. SerialMod - 1
      BY <3>1, ConstTypes DEF Serial
    <3> QED
      BY <1>2, <1>6, <3>2 DEF TypeOK
  <2>4. net' \in [Players -> SUBSET [newest : Nat \ {0}, count : Nat \ {0}]]
    BY <1>2, <1>6 DEF TypeOK
  <2> QED
    BY <1>2, <1>6, <2>1, <2>2, <2>3, <2>4 DEF TypeOK, Frame
<1>13. Grown
  BY <1>2, <1>6, SameIsGrown
<1>14. ASSUME NEW r \in Players PROVE NetInv(r)' /\ GivenInv(r)' /\ UserInv(r)' /\ SentInv(r)'
  <2>1. UserInv(r) /\ SentInv(r) /\ NetInv(r) /\ GivenInv(r)
    BY DEF IInv
  <2>2. \A c \in net'[r] : c \in net[r]
    BY <1>2, <1>6 DEF TypeOK
  <2>3. status[r] = 1 => status'[r] = 1
    BY <1>2, <1>6 DEF TypeOK
  <2>4. NetInv(r)'
    BY <1>2, <1>12, <1>13, <2>1, <2>2, KeepNet
  <2> QED
    BY <1>2, <1>6, <1>12, <1>13, <2>1, <2>3, <2>4, KeepGiven, KeepUser, KeepSent
<1>15. ASSUME NEW r \in Players, r # p PROVE CallInv(r)' /\ PeerInv(r)'
  <2>1. CallInv(r) /\ PeerInv(r)
    BY DEF IInv
  <2>2. inCall'[r] = inCall[r] /\ status'[r] = status[r] /\ peerdata'[r] = peerdata[r] /\ last'[r] = last[r]
    BY <1>2, <1>6, <1>15 DEF TypeOK
  <2> QED
    BY <1>2, <1>6, <1>12, <1>13, <2>1, <2>2, KeepCall, KeepPeer
<1>16. CallInv(p)'
  <2>1. CallInv(p)
    BY DEF IInv
  <2>2. inCall'[p] = ~dropped
    BY <1>2, <1>6 DEF TypeOK
  <2>3. status'[p] = 3 => ~dropped
    BY <1>2, <1>6 DEF TypeOK
  <2> QED
    BY <1>2, <1>6, <2>1, <2>2, <2>3 DEF CallInv
<1>17. PeerInv(p)'
  <2>1. Got(p)' = g + k
    <3>1. Len(given'[p]) = g /\ Len(peerdata'[p]) = k
      BY <1>1, <1>6, <1>10, <1>11
    <3> QED
      BY <3>1 DEF Got
  <2>2. status'[p] = 3 => last'[p] = Serial(g + k)
    <3>1. status'[p] = 3 => ~dropped
      BY <1>2, <1>6 DEF TypeOK
    <3>2. last'[p] = IF ms = <<>> THEN last[p] ELSE Serial(b.newest)
      BY <1>2, <1>6 DEF TypeOK
    <3> QED
      BY <1>8, <3>1, <3>2
  <2>3. \A i \in 1 .. k : peerdata'[p][i] = typed[q][g + i]
    BY <1>9, <1>11
  <2> HIDE DEF Got
  <2> QED
    BY <1>1, <1>6, <1>8, <1>10, <1>11, <2>1, <2>2, <2>3 DEF PeerInv
<1> QED
  BY <1>12, <1>14, <1>15, <1>16, <1>17 DEF IInv

LEMMA StepIInv == IInv /\ [Next]_vars => IInv'
<1> SUFFICES ASSUME IInv, [Next]_vars PROVE IInv'
  OBVIOUS
<1>1. ASSUME NEW p \in Players, NEW v \in Inputs[p], Call(p, v) PROVE IInv'
  BY <1>1, CallStep
<1>2. ASSUME NEW p \in Players, NEW b \in net[p], Receive(p, b) PROVE IInv'
  BY <1>2, ReceiveStep
<1>3. ASSUME NEW p \in Players, NEW b \in net[p], Lose(p, b) PROVE IInv'
  BY <1>3, LoseStep
<1>4. ASSUME NEW p \in Players, Retransmit(p) PROVE IInv'
  BY <1>4, RetransmitStep
<1>5. ASSUME NEW p \in Players, Return(p) PROVE IInv'
  BY <1>5, ReturnStep
<1>6. ASSUME NEW p \in Players, Fail(p) PROVE IInv'
  BY <1>6, FailStep
<1>7. ASSUME NEW p \in Players, status[p] > 1 PROVE status[p] = 3
  <2>1. status[p] \in {1, 3}
    BY DEF IInv, TypeOK
  <2> QED
    BY <1>7, <2>1
<1>8. ASSUME NEW p \in Players, GameDrop(p) PROVE IInv'
  <2>1. status[p] = 3 /\ Drop(p) /\ UNCHANGED <<inCall, frameno, userdata, peerdata, last, typed, given>>
    BY <1>7, <1>8 DEF GameDrop
  <2>2. inCall' \in [Players -> BOOLEAN]
    BY <2>1 DEF IInv, TypeOK
  <2> QED
    BY <2>1, <2>2, DropStep
<1>9. ASSUME NEW p \in Players, DataTimeout(p) PROVE IInv'
  <2>1. /\ status[p] = 3 /\ Drop(p) /\ inCall' = [inCall EXCEPT ![p] = FALSE]
        /\ UNCHANGED <<frameno, userdata, peerdata, last, typed, given>>
    BY <1>7, <1>9 DEF DataTimeout, Waits
  <2>2. inCall' \in [Players -> BOOLEAN] /\ \A r \in Players : inCall'[r] = inCall[r] \/ (r = p /\ ~inCall'[r])
    BY <2>1 DEF IInv, TypeOK
  <2> QED
    BY <2>1, <2>2, DropStep
<1>10. CASE UNCHANGED vars
  <2>1. net' \in [Players -> SUBSET [newest : Nat \ {0}, count : Nat \ {0}]]
    BY <1>10 DEF vars, IInv, TypeOK
  <2>2. \A p \in Players : \A b \in net'[p] : b \in net[p]
    BY <1>10 DEF vars
  <2> QED
    BY <1>10, <2>1, <2>2, NetStep DEF vars
<1> QED
  BY <1>1, <1>2, <1>3, <1>4, <1>5, <1>6, <1>8, <1>9, <1>10 DEF Next

THEOREM SpecIInv == Spec => []IInv
BY InitIInv, StepIInv, PTL DEF Spec
-----------------------------------------------------------------------------
(* The theorems                                                            *)

\* The variables of a game keep their types: what an emulator is given is always what somebody
\* can type.
THEOREM SpecTypeOK == Spec => []TypeOK
<1>1. IInv => TypeOK
  BY DEF IInv
<1> QED
  BY <1>1, SpecIInv, PTL

LEMMA InvLeadBounded == IInv => LeadBounded
<1> SUFFICES ASSUME IInv, NEW p \in Players
             PROVE  /\ Len(typed[p]) <= Len(typed[Peer(p)]) + Throughput + 1
                    /\ Len(peerdata[p]) <= 2 * Throughput + 2
  BY DEF LeadBounded
<1>1. PICK q \in Players : q = Peer(p)
  BY PeerFacts
<1>2. PICK g \in Nat, d \in Nat, tq \in Nat : g = Len(given[p]) /\ d = Len(peerdata[p]) /\ tq = Len(typed[q])
  BY Lengths DEF IInv
<1>3. g + d <= tq
  BY <1>1, <1>2 DEF IInv, PeerInv, Got
<1>4. Len(typed[p]) <= Len(typed[Peer(p)]) + Throughput + 1 /\ tq <= g + 2 * Throughput + 2
  BY <1>1, <1>2, Lead
<1>5. d <= 2 * Throughput + 2
  BY <1>3, <1>4, ConstTypes
<1> QED
  BY <1>2, <1>4, <1>5

\* However late a datagram is, a player has called at most the delay and one call more often than
\* the other, and twice that is all it ever holds of the other's inputs.
THEOREM SpecLeadBounded == Spec => []LeadBounded
BY SpecIInv, InvLeadBounded, PTL

\* A call that returns gives the frame of its number, which is what both typed for it.
LEMMA ReturnGives == ASSUME IInv, NEW p \in Players, Return(p) PROVE Session!Give(p)
<1>1. PICK g, f :
        /\ g \in Nat /\ g = Len(given[p]) /\ f = [r \in Players |-> typed[r][g + 1]]
        /\ \A r \in Players : g + 1 \in 1 .. Len(typed[r]) /\ typed[r][g + 1] \in AllInputs
        /\ given' = [given EXCEPT ![p] = Append(@, f)]
  BY ReturnFrame
<1> g \in Nat
  BY <1>1
<1>2. f \in Session!Frame /\ \A r \in Players : f[r] = typed[r][g + 1] /\ f[r] # Nothing
  BY <1>1, NothingAssumption DEF Session!Frame
<1>3. ASSUME NEW q \in Players, g + 1 <= Len(given[q]) PROVE given[q][g + 1] = f
  <2>1. PICK n \in Nat : n = Len(given[q])
    BY Lengths DEF IInv
  <2>2. g + 1 \in 1 .. n
    BY <1>3, <2>1
  <2>3. given[q] \in Seq(Frame)
    BY DEF IInv, TypeOK
  <2>4. given[q][g + 1] \in Frame
    BY <2>1, <2>2, <2>3, ElementOfSeq
  <2>5. \A r \in Players : given[q][g + 1][r] = typed[r][g + 1]
    BY <2>1, <2>2 DEF IInv, GivenInv
  <2> QED
    BY <1>1, <2>4, <2>5 DEF Frame
<1>4. ASSUME NEW q \in Players PROVE g + 1 <= Len(typed[q])
  <2>1. PICK n \in Nat : n = Len(typed[q])
    BY Lengths DEF IInv
  <2> QED
    BY <1>1, <2>1
<1>5. Session!CanBe(f, Len(given[p]) + 1)
  BY <1>1, <1>2, <1>3, <1>4 DEF Session!CanBe
<1>6. UNCHANGED <<typed, {q \in Players : status[q] = 1}>>
  BY DEF Return
<1> QED
  BY <1>1, <1>2, <1>5, <1>6 DEF Session!Give

LEMMA SessionStep == IInv /\ [Next]_vars => [Session!Next]_(Session!vars)
<1> SUFFICES ASSUME IInv, [Next]_vars PROVE [Session!Next]_(Session!vars)
  OBVIOUS
<1>1. CASE UNCHANGED <<status, typed, given>>
  BY <1>1 DEF Session!vars
<1>2. ASSUME NEW p \in Players, NEW v \in Inputs[p], Call(p, v) PROVE Session!Type(p)
  <2>1. v \in AllInputs
    BY DEF AllInputs
  <2>2. typed' = [typed EXCEPT ![p] = Append(@, v)] /\ UNCHANGED <<{q \in Players : status[q] = 1}, given>>
    BY <1>2 DEF Call
  <2> QED
    BY <2>1, <2>2 DEF Session!Type
<1>3. ASSUME NEW p \in Players, status' = [status EXCEPT ![p] = 1], UNCHANGED <<typed, given>>
      PROVE  Session!Leave(p)
  <2>1. {q \in Players : status'[q] = 1} = {q \in Players : status[q] = 1} \cup {p}
    BY <1>3 DEF IInv, TypeOK
  <2> QED
    BY <1>3, <2>1 DEF Session!Leave
<1>4. ASSUME NEW p \in Players, NEW b \in net[p], Receive(p, b) PROVE Session!Leave(p) \/ UNCHANGED Session!vars
  <2>1. UNCHANGED <<typed, given>> /\ (status' = [status EXCEPT ![p] = 1] \/ status' = [status EXCEPT ![p] = @])
    BY <1>4 DEF Receive
  <2>2. status' = [status EXCEPT ![p] = @] => UNCHANGED status
    BY DEF IInv, TypeOK
  <2> QED
    BY <1>3, <2>1, <2>2 DEF Session!vars
<1>5. ASSUME NEW p \in Players, GameDrop(p) \/ DataTimeout(p) PROVE Session!Leave(p)
  BY <1>3, <1>5 DEF GameDrop, DataTimeout, Drop
<1>6. ASSUME NEW p \in Players, Return(p) PROVE Session!Give(p)
  BY <1>6, ReturnGives
<1>7. ASSUME NEW p \in Players, Retransmit(p) \/ Fail(p) \/ \E b \in net[p] : Lose(p, b)
      PROVE  UNCHANGED <<status, typed, given>>
  BY <1>7 DEF Retransmit, Fail, Lose
<1>8. CASE UNCHANGED vars
  BY <1>1, <1>8 DEF vars
<1>9. CASE Next
  <2>1. PICK p \in Players :
          \/ \E v \in Inputs[p] : Call(p, v)
          \/ \E b \in net[p] : Receive(p, b) \/ Lose(p, b)
          \/ Retransmit(p) \/ Return(p) \/ Fail(p) \/ GameDrop(p) \/ DataTimeout(p)
    BY <1>9 DEF Next
  <2>2. Session!Type(p) \/ Session!Leave(p) \/ Session!Give(p) \/ UNCHANGED Session!vars \/ UNCHANGED <<status, typed, given>>
    BY <1>2, <1>4, <1>5, <1>6, <1>7, <2>1
  <2> QED
    BY <1>1, <2>2 DEF Session!Next
<1> QED
  BY <1>8, <1>9

\* Any delay, any datagram lost, overtaken or repeated within the bounds, a player who drops at any
\* moment: the game is a lockstep session.
THEOREM SpecLockstep == Spec => LockstepSpec
<1>1. Init => Session!Init
  BY DEF Init, Session!Init
<1> QED
  BY <1>1, SessionStep, SpecIInv, PTL DEF Spec, LockstepSpec, Session!Spec
=============================================================================
