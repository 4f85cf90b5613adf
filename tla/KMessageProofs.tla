--------------------------- MODULE KMessageProofs ---------------------------
(***************************************************************************)
(* Machine-checked proofs about KMessage, for all values of its constants. *)
(*                                                                         *)
(* The serials are 16-bit images of the sender's message numbers.  The     *)
(* first part shows that serial arithmetic is message-number arithmetic as *)
(* long as the numbers are less than half the serial space apart; the      *)
(* second follows one datagram through the operators of check_recv; the    *)
(* third is the inductive invariant and the theorems; the last shows that, *)
(* while the losses stay within the redundancy, no message is skipped.     *)
(***************************************************************************)
EXTENDS KMessageProps, TLAPS, SequenceTheorems, NaturalsInduction, WellFoundedInduction

-----------------------------------------------------------------------------
(* Serial arithmetic                                                       *)

LEMMA ModType == SerialMod \in Nat \ {0}
  BY KMessageAssumption DEF SerialMod

LEMMA ModUnique ==
  ASSUME NEW M \in Nat \ {0}, NEW q \in Int, NEW r \in 0 .. (M - 1)
  PROVE  (M * q + r) % M = r
  OBVIOUS

LEMMA ModRange ==
  ASSUME NEW M \in Nat \ {0}, NEW n \in Int
  PROVE  n % M \in 0 .. (M - 1) /\ n \div M \in Int /\ n = M * (n \div M) + (n % M)
  OBVIOUS

\* A multiple of the modulus does not matter.
LEMMA ModCycle ==
  ASSUME NEW M \in Nat \ {0}, NEW q \in Int, NEW n \in Int
  PROVE  (M * q + n) % M = n % M
<1>1. PICK p \in Int, r \in 0 .. (M - 1) : n = M * p + r /\ n % M = r
  BY ModRange
<1>2. M * (q + p) = M * q + M * p /\ M * q \in Int /\ M * p \in Int /\ q + p \in Int
  OBVIOUS
<1>3. M * q + n = M * (q + p) + r
  BY <1>1, <1>2
<1>4. (M * (q + p) + r) % M = r
  BY <1>2, ModUnique
<1> QED BY <1>1, <1>3, <1>4

LEMMA ModPlus ==
  ASSUME NEW M \in Nat \ {0}, NEW a \in Int, NEW b \in Int
  PROVE  ((a % M) + b) % M = (a + b) % M
<1>1. PICK q \in Int, r \in 0 .. (M - 1) : a = M * q + r /\ a % M = r
  BY ModRange
<1>2. M * q \in Int /\ r + b \in Int
  OBVIOUS
<1>3. a + b = M * q + (r + b)
  BY <1>1, <1>2
<1>4. (M * q + (r + b)) % M = (r + b) % M
  BY <1>2, ModCycle
<1> QED BY <1>1, <1>3, <1>4

LEMMA ModMinus ==
  ASSUME NEW M \in Nat \ {0}, NEW a \in Int, NEW b \in Int
  PROVE  (b - (a % M)) % M = (b - a) % M
<1>1. PICK q \in Int, r \in 0 .. (M - 1) : a = M * q + r /\ a % M = r
  BY ModRange
<1>2. M * (-q) = -(M * q) /\ M * q \in Int /\ -q \in Int /\ b - r \in Int
  OBVIOUS
<1>3. b - a = M * (-q) + (b - r)
  BY <1>1, <1>2
<1>4. (M * (-q) + (b - r)) % M = (b - r) % M
  BY <1>2, ModCycle
<1> QED BY <1>1, <1>3, <1>4

\* Unsigned subtraction of two serials is subtraction of the message numbers, up
\* to one turn of the serial space.
LEMMA DistSerial ==
  ASSUME NEW a \in Int, NEW b \in Int
  PROVE  /\ 0 <= a - b /\ a - b < SerialMod => Dist(Serial(a), Serial(b)) = a - b
         /\ -SerialMod <= a - b /\ a - b < 0
              => Dist(Serial(a), Serial(b)) = a - b + SerialMod
<1>1. SerialMod \in Nat \ {0}
  BY ModType
<1>2. Serial(a) \in Int /\ Serial(b) \in Int
  BY <1>1, ModRange DEF Serial
<1>3. Dist(a % SerialMod, b % SerialMod) = (a - b) % SerialMod
  <2>1. ((a % SerialMod) - (b % SerialMod)) % SerialMod = ((a % SerialMod) - b) % SerialMod
    BY <1>1, <1>2, ModMinus DEF Serial
  <2>2. (a % SerialMod) - b = (a % SerialMod) + (-b) /\ a - b = a + (-b) /\ -b \in Int
    BY <1>2 DEF Serial
  <2>3. ((a % SerialMod) - (b % SerialMod)) % SerialMod = (a - b) % SerialMod
    BY <2>1, <2>2, <1>1, ModPlus
  <2> QED BY <2>3 DEF Dist
<1>4. ASSUME 0 <= a - b, a - b < SerialMod
      PROVE  (a - b) % SerialMod = a - b
  BY <1>1, <1>4
<1>5. ASSUME -SerialMod <= a - b, a - b < 0
      PROVE  (a - b) % SerialMod = a - b + SerialMod
  <2>1. a - b = SerialMod * (-1) + (a - b + SerialMod)
    BY <1>1
  <2>2. a - b + SerialMod \in 0 .. (SerialMod - 1)
    BY <1>1, <1>5
  <2> QED BY <1>1, <2>1, <2>2, ModUnique
<1>6. Dist(Serial(a), Serial(b)) = (a - b) % SerialMod
  BY <1>3 DEF Serial
<1> QED BY <1>4, <1>5, <1>6

LEMMA SerialType ==
  ASSUME NEW n \in Int
  PROVE  Serial(n) \in 0 .. SerialMod - 1
  BY ModType, ModRange DEF Serial

\* Counting on from, or back from, a serial.
LEMMA SerialShift ==
  ASSUME NEW a \in Int, NEW k \in Int
  PROVE  /\ Serial(a) \in 0 .. SerialMod - 1
         /\ (Serial(a) + k) % SerialMod = Serial(a + k)
         /\ Dist(Serial(a), k) = Serial(a - k)
<1>1. SerialMod \in Nat \ {0}
  BY ModType
<1>2. a % SerialMod \in 0 .. SerialMod - 1
  BY <1>1, ModRange
<1>3. (a % SerialMod) - k = (a % SerialMod) + (-k) /\ a - k = a + (-k) /\ -k \in Int
  BY <1>2
<1> QED BY <1>1, <1>2, <1>3, ModPlus DEF Serial, Dist
-----------------------------------------------------------------------------
(* One datagram through check_recv                                         *)

\* c is the window of messages L - Len(c) + 1 .. L.
Stretch(c, L) ==
  /\ c \in Seq(Slot) /\ Len(c) <= CacheSize
  /\ \A i \in 1 .. Len(c) : /\ c[i].serial = Serial(L - Len(c) + i)
                            /\ c[i].body \in {Hole, L - Len(c) + i}

\* The receiver's state when L is the last message cached and nothing up to lo is
\* in the window.
Window(r, L, lo) ==
  /\ r \in Receiver /\ L \in Int /\ r.last = Serial(L)
  /\ lo <= L - Len(r.cache)
  /\ Stretch(r.cache, L)

\* A bundle whose newest message is N.
BundleAt(b, N) ==
  /\ N \in Nat /\ b \in Seq(MessageType) /\ 0 < Len(b) /\ Len(b) <= CacheSize
  /\ \A u \in 1 .. Len(b) : N - u + 1 \in Nat /\ b[u] = Msg(N - u + 1)

LEMMA BundleNewest ==
  ASSUME NEW b, NEW N, BundleAt(b, N)
  PROVE  b[1] = Msg(N) /\ b[1].serial = Serial(N) /\ b[1].body = N
<1>1. 1 \in 1 .. Len(b) /\ N - 1 + 1 = N
  BY DEF BundleAt
<1>2. b[1] = Msg(N - 1 + 1)
  BY <1>1, Zenon DEF BundleAt
<1> QED BY <1>1, <1>2 DEF Msg

LEMMA MinOfTwo ==
  ASSUME NEW a \in Int, NEW b \in Int
  PROVE  Min({a, b}) \in {a, b} /\ Min({a, b}) <= a /\ Min({a, b}) <= b
<1>1. \E x \in {a, b} : \A y \in {a, b} : x <= y
  <2>1. CASE a <= b
    BY <2>1
  <2>2. CASE b <= a
    BY <2>2
  <2> QED BY <2>1, <2>2
<1> QED BY <1>1 DEF Min

\* free_in_cache() leaves the empty window.
LEMMA FreeWindow ==
  ASSUME NEW r, NEW L, NEW lo \in Int, Window(r, L, lo), NEW K \in Int, lo <= K
  PROVE  /\ FreeInCache(r).last = r.last /\ FreeInCache(r).cache = <<>>
         /\ FreeInCache(r) \in Receiver
         /\ Window([FreeInCache(r) EXCEPT !.last = Serial(K)], K, lo)
<1>1. Serial(K) \in 0 .. SerialMod - 1
  BY SerialShift
<1>2. <<>> \in Seq(Slot) /\ Len(<<>>) = 0
  OBVIOUS
<1>3. CacheSize \in Nat
  BY KMessageAssumption
<1>4. r \in Receiver
  BY DEF Window
<1> DEFINE f == FreeInCache(r)
           g == [f EXCEPT !.last = Serial(K)]
<1>5. f \in Receiver /\ f.last = r.last /\ f.cache = <<>>
  BY <1>2, <1>4 DEF FreeInCache, Receiver, HoleStates
<1>6. g \in Receiver /\ g.last = Serial(K) /\ g.cache = <<>>
  <2> HIDE DEF f
  <2> QED BY <1>1, <1>5 DEF Receiver
<1>7. Stretch(<<>>, K)
  BY <1>2, <1>3 DEF Stretch
<1>8. Window(g, K, lo)
  <2> HIDE DEF g
  <2> QED BY <1>2, <1>6, <1>7 DEF Window
<1> QED BY <1>5, <1>8

\* Resync: afterwards the bundle's newest message is less than ResyncGap ahead.
LEMMA ResyncWindow ==
  ASSUME NEW r, NEW L, NEW lo \in Int, Window(r, L, lo),
         NEW b, NEW N, BundleAt(b, N),
         N - L < HalfRange, L - N < HalfRange
  PROVE  \E K \in Int : /\ Window(Resync(r, b), K, lo)
                        /\ L <= K /\ (K <= N \/ K = L) /\ N - K < ResyncGap
<1> DEFINE k == Min({Len(b), ResyncGap - 1})
           tx == Dist(b[1].serial, r.last)
<1>1. /\ L \in Int /\ N \in Int /\ r.last = Serial(L) /\ lo <= L
      /\ Len(b) \in Nat /\ Len(r.cache) \in Nat
  BY DEF Window, BundleAt, Stretch
<1>2. b[1].serial = Serial(N)
  BY BundleNewest
<1>3. HalfRange \in Nat /\ SerialMod = 2 * HalfRange /\ ResyncGap \in Nat
      /\ 1 < ResyncGap /\ ResyncGap < HalfRange
  BY KMessageAssumption DEF SerialMod
<1>4. CASE N - L >= ResyncGap
  <2>1. tx = N - L
    BY <1>1, <1>2, <1>3, <1>4, DistSerial
  <2>2. k \in Int /\ k <= ResyncGap - 1 /\ k >= 1
      <3>1. Len(b) \in Int /\ ResyncGap - 1 \in Int /\ Len(b) >= 1 /\ ResyncGap - 1 >= 1
      BY <1>1, <1>3 DEF BundleAt
    <3> QED BY <3>1, MinOfTwo
  <2>3. Dist(b[1].serial, k) = Serial(N - k)
    BY <1>1, <1>2, <2>2, SerialShift
  <2>4. Resync(r, b) = [FreeInCache(r) EXCEPT !.last = Serial(N - k)]
    BY <1>3, <1>4, <2>1, <2>3 DEF Resync
  <2>5. N - k \in Int /\ lo <= N - k
    BY <1>1, <1>3, <1>4, <2>2
  <2>6. Window(Resync(r, b), N - k, lo)
    BY <2>4, <2>5, FreeWindow
  <2> HIDE DEF k, tx
  <2> QED BY <1>1, <1>3, <1>4, <2>2, <2>5, <2>6
<1>5. CASE N - L < ResyncGap
  <2>1. ASSUME 0 <= N - L PROVE Resync(r, b) = r
    <3>1. tx = N - L
      BY <1>1, <1>2, <1>3, <2>1, DistSerial
    <3>2. ~(tx >= ResyncGap)
      <4> HIDE DEF tx
      <4> QED BY <1>1, <1>3, <1>5, <3>1
    <3> QED BY <3>2 DEF Resync
  <2>2. ASSUME N - L < 0 PROVE Resync(r, b) = r
    <3>1. tx = N - L + SerialMod
      BY <1>1, <1>2, <1>3, <2>2, DistSerial
    <3>2. ~(tx < HalfRange)
      <4> HIDE DEF tx
      <4> QED BY <1>1, <1>3, <3>1
    <3> QED BY <3>2 DEF Resync
  <2>3. Resync(r, b) = r
    BY <1>1, <2>1, <2>2
  <2> QED BY <1>1, <1>5, <2>3
<1> QED BY <1>1, <1>3, <1>4, <1>5

\* The slots of the t messages after L, all empty.
EmptySlots(slots, L, t) ==
  /\ slots \in Seq(Slot) /\ Len(slots) = t
  /\ \A i \in 1 .. t : slots[i].serial = Serial(L + i) /\ slots[i].body = Hole

LEMMA NewSlots ==
  ASSUME NEW L \in Int, NEW t \in Nat, NEW last, last = Serial(L)
  PROVE  EmptySlots([i \in 1 .. t |-> [serial |-> (last + i) % SerialMod, body |-> Hole]],
                    L, t)
<1> DEFINE slots == [i \in 1 .. t |-> [serial |-> (last + i) % SerialMod, body |-> Hole]]
<1>1. \A i \in 1 .. t : (last + i) % SerialMod = Serial(L + i)
  BY SerialShift
<1>2. \A i \in 1 .. t : Serial(L + i) \in 0 .. SerialMod - 1
  BY SerialType
<1>3. \A i \in 1 .. t : [serial |-> (last + i) % SerialMod, body |-> Hole] \in Slot
  BY <1>1, <1>2 DEF Slot, Hole
<1>4. slots \in [1 .. t -> Slot]
  BY <1>3
<1>5. slots \in Seq(Slot) /\ Len(slots) = t
  BY <1>4
<1>6. \A i \in 1 .. t : slots[i].serial = Serial(L + i) /\ slots[i].body = Hole
  BY <1>1
<1> QED BY <1>5, <1>6 DEF EmptySlots

\* t empty slots behind a window extend it by t messages.
LEMMA StretchAppend ==
  ASSUME NEW c, NEW L \in Int, Stretch(c, L), NEW t \in Nat, Len(c) + t <= CacheSize,
         NEW slots, EmptySlots(slots, L, t)
  PROVE  Stretch(c \o slots, L + t) /\ Len(c \o slots) = Len(c) + t
<1>1. \A i \in 1 .. t : slots[i].serial = Serial(L + i) /\ slots[i].body = Hole
  BY DEF EmptySlots
<1>2. slots \in Seq(Slot) /\ Len(slots) = t
  BY DEF EmptySlots
<1>3. c \in Seq(Slot) /\ Len(c) \in Nat
  BY DEF Stretch
<1>4. /\ c \o slots \in Seq(Slot) /\ Len(c \o slots) = Len(c) + t
      /\ \A i \in 1 .. Len(c) : (c \o slots)[i] = c[i]
      /\ \A i \in Len(c) + 1 .. Len(c) + t : (c \o slots)[i] = slots[i - Len(c)]
  BY <1>2, <1>3
<1>5. ASSUME NEW i \in 1 .. Len(c) + t
      PROVE  /\ (c \o slots)[i].serial = Serial(L + t - (Len(c) + t) + i)
             /\ (c \o slots)[i].body \in {Hole, L + t - (Len(c) + t) + i}
  <2>1. L + t - (Len(c) + t) + i = L - Len(c) + i /\ L - Len(c) + i = L + (i - Len(c))
    BY <1>3
  <2>2. CASE i \in 1 .. Len(c)
    BY <1>4, <2>1, <2>2 DEF Stretch
  <2>3. CASE i \in Len(c) + 1 .. Len(c) + t
    <3>1. i - Len(c) \in 1 .. t
      BY <1>3, <2>3
    <3> QED BY <1>1, <1>4, <2>1, <2>3, <3>1
  <2>4. i \in 1 .. Len(c) \/ i \in Len(c) + 1 .. Len(c) + t
    BY <1>3
  <2> QED BY <2>2, <2>3, <2>4
<1> QED BY <1>4, <1>5 DEF Stretch

\* Extend: the window reaches to the bundle's newest message, unless it was there.
LEMMA ExtendWindow ==
  ASSUME NEW r, NEW L, NEW lo \in Int, Window(r, L, lo), NEW N \in Nat,
         N - L < ResyncGap, L - N < HalfRange
  PROVE  \E K \in Int : /\ Window(Extend(r, Serial(N)), K, lo)
                        /\ N <= K /\ (K = N \/ K = L) /\ L <= K
<1> DEFINE tx == Dist(Serial(N), r.last)
           kept == IF Len(r.cache) + tx > CacheSize THEN FreeInCache(r) ELSE r
           slots == [i \in 1 .. tx |-> [serial |-> (r.last + i) % SerialMod, body |-> Hole]]
           q == [kept EXCEPT !.cache = @ \o slots, !.last = Serial(N)]
<1>1. L \in Int /\ r.last = Serial(L) /\ lo <= L /\ Len(r.cache) \in Nat /\ r \in Receiver
  BY DEF Window, Stretch
<1>2. HalfRange \in Nat /\ SerialMod = 2 * HalfRange /\ ResyncGap \in Nat
      /\ 1 < ResyncGap /\ ResyncGap < HalfRange /\ CacheSize \in Nat /\ ResyncGap <= CacheSize
  BY KMessageAssumption DEF SerialMod
<1>3. CASE N - L > 0
  <2>1. tx = N - L
    BY <1>1, <1>2, <1>3, DistSerial
  <2>2. tx \in Nat /\ tx > 0 /\ tx < ResyncGap /\ L + tx = N
    <3> HIDE DEF tx
    <3> QED BY <1>1, <1>3, <2>1
  <2>3. kept.last = Serial(L) /\ kept \in Receiver /\ Stretch(kept.cache, L)
        /\ Len(kept.cache) + tx <= CacheSize /\ lo <= L - Len(kept.cache)
    <3> HIDE DEF tx
    <3>1. CASE Len(r.cache) + tx > CacheSize
      <4>1. FreeInCache(r).last = Serial(L) /\ FreeInCache(r) \in Receiver
            /\ FreeInCache(r).cache = <<>>
        BY <1>1, FreeWindow
      <4>2. Stretch(<<>>, L)
        BY <1>2 DEF Stretch
      <4> QED BY <1>1, <1>2, <2>2, <3>1, <4>1, <4>2
    <3>2. CASE ~(Len(r.cache) + tx > CacheSize)
      BY <1>1, <1>2, <2>2, <3>2 DEF Window
    <3> QED BY <3>1, <3>2
  <2>4. Stretch(kept.cache \o slots, N) /\ Len(kept.cache \o slots) = Len(kept.cache) + tx
    <3>1. EmptySlots(slots, L, tx)
      <4> HIDE DEF tx
      <4> QED BY <1>1, <2>2, NewSlots
    <3> HIDE DEF tx, kept, slots
    <3>2. L \in Int /\ tx \in Nat /\ Stretch(kept.cache, L) /\ Len(kept.cache) + tx <= CacheSize
      BY <1>1, <2>2, <2>3
    <3>3. Stretch(kept.cache \o slots, L + tx) /\ Len(kept.cache \o slots) = Len(kept.cache) + tx
      BY <3>1, <3>2, StretchAppend, Zenon
    <3> QED BY <2>2, <3>3
  <2>5. q \in Receiver /\ q.last = Serial(N) /\ q.cache = kept.cache \o slots
    <3>1. Serial(N) \in 0 .. SerialMod - 1
      BY SerialShift
    <3> HIDE DEF kept, slots
    <3> QED BY <2>3, <2>4, <3>1 DEF Receiver, Stretch
  <2>6. Extend(r, Serial(N)) = q
    BY <2>2 DEF Extend
  <2>7. Window(q, N, lo)
    <3>1. Len(kept.cache) \in Nat
      BY <2>3 DEF Stretch
    <3> HIDE DEF tx, kept, slots, q
    <3> QED BY <1>1, <2>2, <2>3, <2>4, <2>5, <3>1 DEF Window
  <2> HIDE DEF q, tx
  <2> QED BY <1>1, <1>3, <2>6, <2>7
<1>4. CASE N - L <= 0
  <2>1. ~(tx > 0 /\ tx < ResyncGap)
    <3>1. CASE N - L = 0
      <4>1. tx = 0
        BY <1>1, <1>2, <3>1, DistSerial
      <4> QED BY <4>1
    <3>2. CASE N - L < 0
      <4>1. tx = N - L + SerialMod
        BY <1>1, <1>2, <3>2, DistSerial
      <4> HIDE DEF tx
      <4> QED BY <1>1, <1>2, <4>1
    <3> QED BY <1>1, <1>4, <3>1, <3>2
  <2>2. Extend(r, Serial(N)) = r
    BY <2>1 DEF Extend
  <2> QED BY <1>1, <1>4, <2>2
<1> QED BY <1>1, <1>3, <1>4

\* fill_slot: a message goes into the slot of its own number, and nowhere else.
LEMMA FillWindow ==
  ASSUME NEW r, NEW L, NEW lo \in Int, Window(r, L, lo),
         NEW b, NEW N, BundleAt(b, N), N <= L, L - N + CacheSize < SerialMod
  PROVE  Window(FillSlots(r, b), L, lo)
<1>1. /\ L \in Int /\ r.last = Serial(L) /\ Len(r.cache) \in Nat /\ r \in Receiver
      /\ r.cache \in Seq(Slot) /\ Len(r.cache) <= CacheSize
      /\ N \in Nat /\ Len(b) \in Nat /\ Len(b) <= CacheSize /\ DOMAIN b = 1 .. Len(b)
      /\ DOMAIN r.cache = 1 .. Len(r.cache)
  BY DEF Window, Stretch, BundleAt
<1>2. CacheSize \in Nat /\ SerialMod \in Nat
  BY KMessageAssumption, ModType
<1>3. ASSUME NEW i \in 1 .. Len(r.cache), NEW u \in For(r, i, b)
      PROVE  b[u] \in Slot /\ b[u].serial = Serial(L - Len(r.cache) + i)
             /\ b[u].body = L - Len(r.cache) + i
  <2>1. u \in 1 .. Len(b) /\ Dist(Serial(L), b[u].serial) = Len(r.cache) - i
    BY <1>1 DEF For
  <2>2. PICK m \in Nat : m = N - u + 1 /\ b[u] = Msg(m)
    BY <2>1 DEF BundleAt
  <2>3. Dist(Serial(L), Serial(m)) = L - m
    <3>1. 0 <= L - m /\ L - m < SerialMod
      BY <1>1, <1>2, <2>1, <2>2
    <3> QED BY <1>1, <3>1, DistSerial
  <2>4. b[u].serial = Serial(m) /\ b[u].body = m
    BY <2>2 DEF Msg
  <2>5. m = L - Len(r.cache) + i
    <3>1. L - m = Len(r.cache) - i
      BY <2>1, <2>3, <2>4
    <3> QED BY <1>1, <3>1
  <2>6. Serial(m) \in 0 .. SerialMod - 1
    <3>1. m \in Int
      BY <2>2
    <3> QED BY <3>1, SerialType
  <2> QED BY <2>2, <2>4, <2>5, <2>6 DEF Slot, Msg
<1> DEFINE slot(i) == IF IsHole(r.cache[i]) /\ For(r, i, b) # {}
                      THEN b[CHOOSE u \in For(r, i, b) : TRUE]
                      ELSE r.cache[i]
           c == [i \in DOMAIN r.cache |-> slot(i)]
<1>4. ASSUME NEW i \in 1 .. Len(r.cache)
      PROVE  /\ slot(i) \in Slot /\ slot(i).serial = Serial(L - Len(r.cache) + i)
             /\ slot(i).body \in {Hole, L - Len(r.cache) + i}
  <2>1. CASE IsHole(r.cache[i]) /\ For(r, i, b) # {}
    <3>1. PICK u \in For(r, i, b) : u = CHOOSE v \in For(r, i, b) : TRUE
      BY <2>1
    <3> QED BY <1>3, <2>1, <3>1
  <2>2. CASE ~(IsHole(r.cache[i]) /\ For(r, i, b) # {})
    <3>1. slot(i) = r.cache[i]
      BY <2>2
    <3>2. r.cache[i] \in Slot
      BY <1>1
    <3> QED BY <1>1, <3>1, <3>2 DEF Window, Stretch
  <2> QED BY <2>1, <2>2
<1> HIDE DEF slot
<1>5. c \in Seq(Slot) /\ Len(c) = Len(r.cache) /\ \A i \in 1 .. Len(c) : c[i] = slot(i)
  <2>1. c \in [1 .. Len(r.cache) -> Slot]
    BY <1>1, <1>4
  <2> QED BY <1>1, <2>1
<1>6. FillSlots(r, b) = [r EXCEPT !.cache = c]
  BY DEF FillSlots, slot
<1> HIDE DEF c
<1>7. Stretch(c, L)
  BY <1>1, <1>4, <1>5 DEF Stretch
<1>8. FillSlots(r, b) \in Receiver /\ FillSlots(r, b).last = r.last
      /\ FillSlots(r, b).cache = c
  BY <1>1, <1>5, <1>6 DEF Receiver
<1> QED BY <1>1, <1>5, <1>7, <1>8 DEF Window

LEMMA LeastOfSet ==
  ASSUME NEW S, S \subseteq Nat, S # {}
  PROVE  Min(S) \in S /\ \A y \in S : Min(S) <= y
<1>1. \E x \in S : \A y \in S : <<y, x>> \notin OpToRel(<, Nat)
  BY NatLessThanWellFounded, WFMin
<1>2. \A x, y \in Nat : y < x => <<y, x>> \in OpToRel(<, Nat)
  BY DEF OpToRel
<1>3. \A x, y \in Nat : ~(y < x) => x <= y
  OBVIOUS
<1>4. \E x \in S : \A y \in S : x <= y
  BY <1>1, <1>2, <1>3
<1> QED BY <1>4 DEF Min

\* Giving up leading holes leaves the rest of the window where it was.
LEMMA DropWindow ==
  ASSUME NEW c, NEW L \in Int, Stretch(c, L)
  PROVE  Stretch(DropHoles(c), L) /\ Len(DropHoles(c)) <= Len(c)
<1> DEFINE full == {i \in DOMAIN c : ~IsHole(c[i])}
           m == Min(full)
<1>1. c \in Seq(Slot) /\ Len(c) \in Nat /\ Len(c) <= CacheSize /\ DOMAIN c = 1 .. Len(c)
      /\ CacheSize \in Nat
  BY KMessageAssumption DEF Stretch
<1>2. CASE full = {}
  <2>1. DropHoles(c) = <<>>
    BY <1>2 DEF DropHoles
  <2> QED BY <1>1, <2>1 DEF Stretch
<1>3. CASE full # {}
  <2>1. m \in 1 .. Len(c)
    <3>1. full \subseteq Nat
      BY <1>1
    <3>2. m \in full
      BY <1>3, <3>1, LeastOfSet
    <3> QED BY <1>1, <3>2
  <2>2. DropHoles(c) = SubSeq(c, m, Len(c))
    BY <1>3 DEF DropHoles
  <2> HIDE DEF m
  <2> DEFINE d == SubSeq(c, m, Len(c))
  <2>3. /\ d \in Seq(Slot) /\ Len(d) = Len(c) - m + 1
        /\ \A i \in 1 .. Len(c) - m + 1 : d[i] = c[m + i - 1]
    <3>1. m \in Int /\ Len(c) \in Int /\ m <= Len(c) /\ \A i \in m .. Len(c) : c[i] \in Slot
      BY <1>1, <2>1
    <3> QED BY <3>1, SubSeqProperties
  <2> HIDE DEF d
  <2>4. ASSUME NEW i \in 1 .. Len(d)
        PROVE  /\ d[i].serial = Serial(L - Len(d) + i)
               /\ d[i].body \in {Hole, L - Len(d) + i}
    <3>1. m + i - 1 \in 1 .. Len(c) /\ L - Len(c) + (m + i - 1) = L - Len(d) + i
      BY <1>1, <2>1, <2>3
    <3>2. d[i] = c[m + i - 1]
      BY <2>3
    <3>3. /\ c[m + i - 1].serial = Serial(L - Len(c) + (m + i - 1))
          /\ c[m + i - 1].body \in {Hole, L - Len(c) + (m + i - 1)}
      BY <3>1 DEF Stretch
    <3> QED BY <3>1, <3>2, <3>3
  <2>5. Stretch(d, L) /\ Len(d) <= Len(c)
    BY <1>1, <2>1, <2>3, <2>4 DEF Stretch
  <2> QED BY <2>2, <2>5 DEF d
<1> QED BY <1>2, <1>3

LEMMA SkipWindow ==
  ASSUME NEW r, NEW L, NEW lo \in Int, Window(r, L, lo)
  PROVE  Window(SkipStaleHoles(r), L, lo)
<1>1. /\ r \in Receiver /\ L \in Int /\ r.last = Serial(L) /\ Stretch(r.cache, L)
      /\ lo <= L - Len(r.cache) /\ Len(r.cache) \in Nat
  BY DEF Window, Stretch
<1>2. ASSUME NEW h \in HoleStates
      PROVE  Window([r EXCEPT !.hole = h], L, lo)
  <2>1. [r EXCEPT !.hole = h] \in Receiver /\ [r EXCEPT !.hole = h].last = r.last
        /\ [r EXCEPT !.hole = h].cache = r.cache
    BY <1>1 DEF Receiver
  <2> QED BY <1>1, <2>1 DEF Window
<1>3. Window([r EXCEPT !.hole = "none", !.cache = DropHoles(@)], L, lo)
  <2> DEFINE d == DropHoles(r.cache)
             q == [r EXCEPT !.hole = "none", !.cache = d]
  <2>1. Stretch(d, L) /\ Len(d) <= Len(r.cache)
    BY <1>1, DropWindow
  <2>2. d \in Seq(Slot) /\ Len(d) \in Nat
    BY <2>1 DEF Stretch
  <2> HIDE DEF d
  <2>3. q \in Receiver /\ q.last = r.last /\ q.cache = d
    BY <1>1, <2>2 DEF Receiver, HoleStates
  <2> HIDE DEF q
  <2>4. Window(q, L, lo)
    BY <1>1, <2>1, <2>2, <2>3 DEF Window
  <2> QED BY <2>4 DEF q, d
<1>4. "none" \in HoleStates /\ "waiting" \in HoleStates
  BY DEF HoleStates
<1> QED BY <1>2, <1>3, <1>4 DEF SkipStaleHoles

\* A datagram read by check_recv moves the window forward, never back.
LEMMA ArriveWindow ==
  ASSUME NEW r, NEW L, NEW lo \in Int, Window(r, L, lo),
         NEW b, NEW N, BundleAt(b, N),
         N - L < HalfRange, L - N + CacheSize < HalfRange
  PROVE  \E K \in Int : Window(Arrive(r, b), K, lo) /\ L <= K /\ (K = L \/ K <= N)
<1>1. /\ L \in Int /\ N \in Nat /\ CacheSize \in Nat /\ HalfRange \in Nat
      /\ SerialMod = 2 * HalfRange /\ CacheSize < HalfRange /\ L - N < HalfRange
  BY KMessageAssumption DEF Window, BundleAt, SerialMod
<1>2. PICK J \in Int : /\ Window(Resync(r, b), J, lo)
                       /\ L <= J /\ (J <= N \/ J = L) /\ N - J < ResyncGap
  BY <1>1, ResyncWindow
<1>3. PICK K \in Int : /\ Window(Extend(Resync(r, b), Serial(N)), K, lo)
                       /\ N <= K /\ (K = N \/ K = J) /\ J <= K
  <2>1. J - N < HalfRange
    BY <1>1, <1>2
  <2> QED BY <1>1, <1>2, <2>1, ExtendWindow
<1>4. K - N + CacheSize < SerialMod
  BY <1>1, <1>2, <1>3
<1>5. Window(FillSlots(Extend(Resync(r, b), Serial(N)), b), K, lo)
  BY <1>3, <1>4, FillWindow
<1>6. Arrive(r, b) = FillSlots(Extend(Resync(r, b), Serial(N)), b)
  BY BundleNewest DEF Arrive
<1>7. L <= K /\ (K = L \/ K <= N)
  BY <1>1, <1>2, <1>3
<1> QED BY <1>3, <1>5, <1>6, <1>7

\* What check_recv hands over is the next message of the window.
LEMMA HandOverWindow ==
  ASSUME NEW r, NEW L, delivered \in Int, Window(r, L, delivered), HandOver(r)
  PROVE  /\ delivered' \in Int /\ delivered <= delivered' /\ delivered' <= L
         /\ Window(rx', L, delivered')
<1> DEFINE s == SkipStaleHoles(r)
<1>1. Window(s, L, delivered)
  BY SkipWindow
<1>2. HandOver(r) <=> IF HeadReady(s)
                      THEN rx' = [s EXCEPT !.cache = Tail(@)] /\ delivered' = s.cache[1].body
                      ELSE rx' = s /\ UNCHANGED delivered
  BY DEF HandOver
<1> HIDE DEF s
<1>3. /\ s \in Receiver /\ L \in Int /\ s.last = Serial(L) /\ Stretch(s.cache, L)
      /\ delivered <= L - Len(s.cache) /\ Len(s.cache) \in Nat /\ s.cache \in Seq(Slot)
      /\ Len(s.cache) <= CacheSize /\ CacheSize \in Nat
  <2>1. /\ s \in Receiver /\ L \in Int /\ s.last = Serial(L) /\ Stretch(s.cache, L)
        /\ delivered <= L - Len(s.cache)
    BY <1>1, Zenon DEF Window
  <2>2. Len(s.cache) \in Nat /\ s.cache \in Seq(Slot) /\ Len(s.cache) <= CacheSize
    BY <2>1 DEF Stretch
  <2> QED BY <2>1, <2>2, KMessageAssumption
<1>4. CASE HeadReady(s)
  <2> DEFINE t == Tail(s.cache)
  <2>1. s.cache # <<>> /\ ~IsHole(s.cache[1])
    BY <1>4 DEF HeadReady
  <2>2. 1 \in 1 .. Len(s.cache)
    BY <1>3, <2>1
  <2>3. s.cache[1].body = L - Len(s.cache) + 1
    BY <1>3, <2>1, <2>2 DEF Stretch, IsHole
  <2>4. /\ t \in Seq(Slot) /\ Len(t) = Len(s.cache) - 1
        /\ \A i \in 1 .. Len(t) : t[i] = s.cache[i + 1]
    BY <1>3, <2>1, HeadTailProperties
  <2> HIDE DEF t
  <2>5. ASSUME NEW i \in 1 .. Len(t)
        PROVE  /\ t[i].serial = Serial(L - Len(t) + i)
               /\ t[i].body \in {Hole, L - Len(t) + i}
    <3>1. i + 1 \in 1 .. Len(s.cache) /\ L - Len(s.cache) + (i + 1) = L - Len(t) + i
      BY <1>3, <2>4
    <3>2. /\ s.cache[i + 1].serial = Serial(L - Len(s.cache) + (i + 1))
          /\ s.cache[i + 1].body \in {Hole, L - Len(s.cache) + (i + 1)}
      BY <1>3, <3>1 DEF Stretch
    <3> QED BY <2>4, <3>1, <3>2
  <2>6. Stretch(t, L)
    <3>1. Len(t) <= CacheSize
      BY <1>3, <2>4
    <3> QED BY <2>4, <2>5, <3>1 DEF Stretch
  <2>7. rx' = [s EXCEPT !.cache = t] /\ delivered' = L - Len(s.cache) + 1
    BY <1>2, <1>4, <2>3 DEF t
  <2>8. rx' \in Receiver /\ rx'.last = s.last /\ rx'.cache = t
    BY <1>3, <2>4, <2>7 DEF Receiver
  <2> QED BY <1>3, <2>2, <2>4, <2>6, <2>7, <2>8 DEF Window
<1>5. CASE ~HeadReady(s)
  BY <1>1, <1>2, <1>3, <1>5
<1> QED BY <1>4, <1>5
-----------------------------------------------------------------------------
(* The inductive invariant                                                 *)

\* out_cache ends with the newest of the s messages sent.
Outgoing(c, s) ==
  /\ c \in Seq(MessageType) /\ Len(c) < CacheSize
  /\ \A i \in 1 .. Len(c) : s - Len(c) + i - 1 \in Nat /\ c[i] = Msg(s - Len(c) + i - 1)

\* Every bundle the network may still deliver is recent.
InFlight(S, s) ==
  \A b \in S : \E N \in Nat : BundleAt(b, N) /\ N < s /\ s <= N + MaxLag + 1

IInv ==
  /\ TypeOK
  /\ sent - delivered <= MaxAhead + 1
  /\ Outgoing(outCache, sent)
  /\ InFlight(net, sent)
  /\ \E L \in Int : Window(rx, L, delivered) /\ L < sent

LEMMA MsgType == ASSUME NEW n \in Nat PROVE Msg(n) \in MessageType
<1>1. n \in Int
  OBVIOUS
<1>2. Serial(n) \in 0 .. SerialMod - 1
  BY <1>1, SerialType
<1> QED BY <1>2 DEF Msg, MessageType

LEMMA BundleOfOutgoing ==
  ASSUME NEW c, NEW s \in Nat, Outgoing(c, s), NEW limit \in Nat, NEW fit \in Nat
  PROVE  Bundle(c, limit, fit) = <<>> \/ BundleAt(Bundle(c, limit, fit), s - 1)
<1> DEFINE k == Min({limit, fit, Len(c)})
           b == Bundle(c, limit, fit)
<1>1. c \in Seq(MessageType) /\ Len(c) \in Nat /\ Len(c) < CacheSize /\ CacheSize \in Nat
  BY KMessageAssumption DEF Outgoing
<1>2. k \in Nat /\ k <= Len(c)
  <2>1. {limit, fit, Len(c)} \subseteq Nat /\ {limit, fit, Len(c)} # {}
    BY <1>1
  <2>2. k \in {limit, fit, Len(c)} /\ k <= Len(c)
    BY <2>1, LeastOfSet
  <2> HIDE DEF k
  <2> QED BY <1>1, <2>2
<1>3. b = [i \in 1 .. k |-> c[Len(c) - i + 1]]
  BY DEF Bundle
<1> HIDE DEF k, b
<1>4. \A u \in 1 .. k : c[Len(c) - u + 1] \in MessageType
  <2>1. \A u \in 1 .. k : Len(c) - u + 1 \in 1 .. Len(c)
    BY <1>1, <1>2
  <2> QED BY <1>1, <2>1
<1>5. b \in Seq(MessageType) /\ Len(b) = k /\ \A u \in 1 .. k : b[u] = c[Len(c) - u + 1]
  <2>1. b \in [1 .. k -> MessageType]
    BY <1>3, <1>4
  <2> QED BY <1>2, <1>3, <2>1
<1>6. ASSUME NEW u \in 1 .. Len(b)
      PROVE  s - 1 - u + 1 \in Nat /\ b[u] = Msg(s - 1 - u + 1)
  <2>1. PICK i \in 1 .. Len(c) : i = Len(c) - u + 1
    BY <1>1, <1>2, <1>5
  <2>2. s - Len(c) + i - 1 \in Nat /\ c[i] = Msg(s - Len(c) + i - 1)
    BY DEF Outgoing
  <2>3. s - Len(c) + i - 1 = s - 1 - u + 1
    BY <1>1, <1>5, <2>1
  <2>4. b[u] = c[i]
    BY <1>5, <2>1
  <2> QED BY <2>2, <2>3, <2>4
<1>7. CASE k = 0
  BY <1>5, <1>7 DEF b
<1>8. CASE k > 0
  <2>1. s - 1 \in Nat
    <3>1. 1 \in 1 .. Len(b)
      BY <1>2, <1>5, <1>8
    <3>2. s - 1 - 1 + 1 \in Nat
      BY <1>6, <3>1
    <3> QED BY <3>2
  <2>2. 0 < Len(b) /\ Len(b) <= CacheSize
    BY <1>1, <1>2, <1>5, <1>8
  <2>3. BundleAt(b, s - 1)
    BY <1>5, <1>6, <2>1, <2>2 DEF BundleAt
  <2> QED BY <2>3 DEF b
<1> QED BY <1>2, <1>7, <1>8

LEMMA InitIInv == Init => IInv
<1> SUFFICES ASSUME Init PROVE IInv
  OBVIOUS
<1> DEFINE k == Min({First, CacheSize - 1})
<1>1. First \in Nat /\ CacheSize \in Nat /\ CacheSize - 1 \in Nat /\ MaxAhead \in Nat
  BY KMessageAssumption
<1>2. k \in Nat /\ k <= First /\ k < CacheSize
  <2>1. k \in {First, CacheSize - 1} /\ k <= First /\ k <= CacheSize - 1
    BY <1>1, MinOfTwo
  <2> HIDE DEF k
  <2> QED BY <1>1, <2>1
<1>3. outCache = [i \in 1 .. k |-> Msg(First - k + i - 1)] /\ sent = First
  BY DEF Init
<1> HIDE DEF k
<1>4. \A i \in 1 .. k : First - k + i - 1 \in Nat
  BY <1>1, <1>2
<1>5. outCache \in Seq(MessageType) /\ Len(outCache) = k
      /\ \A i \in 1 .. k : outCache[i] = Msg(First - k + i - 1)
  <2>1. \A i \in 1 .. k : Msg(First - k + i - 1) \in MessageType
    BY <1>4, MsgType
  <2>2. outCache \in [1 .. k -> MessageType]
    BY <1>3, <2>1
  <2> QED BY <1>2, <1>3, <2>2
<1>6. Outgoing(outCache, sent)
  BY <1>2, <1>3, <1>4, <1>5 DEF Outgoing
<1>7. rx \in Receiver /\ rx.last = Serial(First - 1) /\ rx.cache = <<>> /\ delivered = First - 1
  <2>1. Serial(First - 1) \in 0 .. SerialMod - 1
    BY <1>1, SerialType
  <2> QED BY <2>1 DEF Init, Receiver, HoleStates
<1>8. Window(rx, First - 1, delivered) /\ First - 1 < sent
  <2>1. Stretch(<<>>, First - 1)
    BY <1>1 DEF Stretch
  <2> QED BY <1>1, <1>3, <1>7, <2>1 DEF Window
<1>9. InFlight(net, sent)
  BY DEF Init, InFlight
<1>10. TypeOK
  <2>1. net = {} /\ lost = {} /\ waiting \in BOOLEAN
    BY DEF Init
  <2>2. Len(outCache) < CacheSize /\ sent \in Nat /\ delivered \in Int
    BY <1>1, <1>2, <1>3, <1>5, <1>7
  <2>3. Len(rx.cache) <= CacheSize
    BY <1>1, <1>7
  <2> QED BY <1>5, <1>7, <2>1, <2>2, <2>3 DEF TypeOK
<1>11. sent - delivered <= MaxAhead + 1
  BY <1>1, <1>3, <1>7
<1> QED BY <1>1, <1>6, <1>8, <1>9, <1>10, <1>11 DEF IInv

\* What a new datagram leaves in the network.
LEMMA TransmitInFlight ==
  ASSUME NEW b, Transmit(b), InFlight(net, sent), net \subseteq Seq(MessageType),
         sent \in Nat, sent' \in Nat, sent <= sent',
         b = <<>> \/ BundleAt(b, sent' - 1)
  PROVE  InFlight(net', sent') /\ net' \subseteq Seq(MessageType)
<1>1. \A c \in net : c[1].body + MaxLag >= sent'
  BY DEF Transmit
<1>2. net' = net \cup (IF b = <<>> THEN {} ELSE {b})
  BY DEF Transmit
<1>3. MaxLag \in Nat
  BY KMessageAssumption
<1>4. ASSUME NEW c \in net
      PROVE  \E N \in Nat : BundleAt(c, N) /\ N < sent' /\ sent' <= N + MaxLag + 1
  <2>1. PICK N \in Nat : BundleAt(c, N) /\ N < sent
    BY DEF InFlight
  <2>2. c[1].body = N
    BY <2>1, BundleNewest
  <2>3. N + MaxLag >= sent'
    BY <1>1, <2>2
  <2> QED BY <1>3, <2>1, <2>3
<1>5. ASSUME b # <<>>
      PROVE  /\ b \in Seq(MessageType)
             /\ \E N \in Nat : BundleAt(b, N) /\ N < sent' /\ sent' <= N + MaxLag + 1
  <2>1. BundleAt(b, sent' - 1)
    BY <1>5
  <2>2. sent' - 1 \in Nat /\ b \in Seq(MessageType)
    BY <2>1 DEF BundleAt
  <2>3. \A n \in Nat : n - 1 < n /\ n <= (n - 1) + MaxLag + 1
    BY <1>3
  <2> QED BY <2>1, <2>2, <2>3
<1>6. \A c \in net' : c \in net \/ (c = b /\ b # <<>>)
  BY <1>2
<1>7. InFlight(net', sent')
  BY <1>4, <1>5, <1>6 DEF InFlight
<1>8. net' \subseteq Seq(MessageType)
  BY <1>5, <1>6
<1> QED BY <1>7, <1>8

\* One more message sent, out_cache having room for it.
LEMMA OutgoingAppend ==
  ASSUME NEW c, NEW s \in Nat, Outgoing(c, s), Len(c) < CacheSize - 1
  PROVE  Outgoing(Append(c, Msg(s)), s + 1)
<1> DEFINE d == Append(c, Msg(s))
<1>1. c \in Seq(MessageType) /\ Len(c) \in Nat /\ CacheSize \in Nat /\ Msg(s) \in MessageType
  BY KMessageAssumption, MsgType DEF Outgoing
<1>2. /\ d \in Seq(MessageType) /\ Len(d) = Len(c) + 1
      /\ d[Len(c) + 1] = Msg(s) /\ \A i \in 1 .. Len(c) : d[i] = c[i]
  BY <1>1
<1> HIDE DEF d
<1>3. ASSUME NEW i \in 1 .. Len(d)
      PROVE  (s + 1) - Len(d) + i - 1 \in Nat /\ d[i] = Msg((s + 1) - Len(d) + i - 1)
  <2>1. CASE i = Len(c) + 1
    <3>1. (s + 1) - Len(d) + i - 1 = s
      BY <1>1, <1>2, <2>1
    <3> QED BY <1>2, <2>1, <3>1
  <2>2. CASE i \in 1 .. Len(c)
    <3>1. s - Len(c) + i - 1 \in Nat /\ c[i] = Msg(s - Len(c) + i - 1)
      BY <2>2 DEF Outgoing
    <3>2. (s + 1) - Len(d) + i - 1 = s - Len(c) + i - 1
      BY <1>1, <1>2
    <3> QED BY <1>2, <2>2, <3>1, <3>2
  <2> QED BY <1>1, <1>2, <2>1, <2>2
<1>4. Len(d) < CacheSize
  BY <1>1, <1>2
<1>5. Outgoing(d, s + 1)
  BY <1>2, <1>3, <1>4 DEF Outgoing
<1> QED BY <1>5 DEF d

LEMMA SendStep == IInv /\ Send => IInv'
<1> SUFFICES ASSUME IInv, Send PROVE IInv'
  OBVIOUS
<1> DEFINE old == IF Len(outCache) = CacheSize - 1 THEN Tail(outCache) ELSE outCache
<1>1. /\ sent \in Nat /\ delivered \in Int /\ CacheSize \in Nat /\ 1 < CacheSize
      /\ Outgoing(outCache, sent) /\ InFlight(net, sent) /\ net \subseteq Seq(MessageType)
      /\ outCache \in Seq(MessageType) /\ Len(outCache) \in Nat /\ Len(outCache) < CacheSize
  BY KMessageAssumption DEF IInv, TypeOK
<1>2. /\ sent' = sent + 1 /\ outCache' = Append(old, Msg(sent)) /\ rx' = rx
      /\ delivered' = delivered /\ sent - delivered <= MaxAhead
      /\ lost' = lost /\ waiting' = waiting
  BY DEF Send
<1>3. Outgoing(old, sent) /\ Len(old) < CacheSize - 1
  <2>1. CASE Len(outCache) = CacheSize - 1
    <3>1. outCache # <<>>
      BY <1>1, <2>1
    <3>2. /\ old \in Seq(MessageType) /\ Len(old) = Len(outCache) - 1
          /\ \A i \in 1 .. Len(old) : old[i] = outCache[i + 1]
      BY <1>1, <2>1, <3>1, HeadTailProperties
    <3> HIDE DEF old
    <3>3. ASSUME NEW i \in 1 .. Len(old)
          PROVE  sent - Len(old) + i - 1 \in Nat /\ old[i] = Msg(sent - Len(old) + i - 1)
      <4>1. PICK j \in 1 .. Len(outCache) : j = i + 1
        BY <1>1, <3>2
      <4>2. sent - Len(outCache) + j - 1 \in Nat /\ outCache[j] = Msg(sent - Len(outCache) + j - 1)
        BY <1>1 DEF Outgoing
      <4>3. sent - Len(outCache) + j - 1 = sent - Len(old) + i - 1
        BY <1>1, <3>2, <4>1
      <4>4. old[i] = outCache[j]
        BY <3>2, <4>1
      <4> QED BY <4>2, <4>3, <4>4
    <3>4. Len(old) < CacheSize - 1 /\ Len(old) < CacheSize
      BY <1>1, <2>1, <3>2
    <3> QED BY <3>2, <3>3, <3>4 DEF Outgoing
  <2>2. CASE Len(outCache) # CacheSize - 1
    BY <1>1, <2>2
  <2> QED BY <2>1, <2>2
<1> HIDE DEF old
<1>4. Outgoing(outCache', sent')
  BY <1>1, <1>2, <1>3, OutgoingAppend
<1>5. InFlight(net', sent') /\ net' \subseteq Seq(MessageType)
  <2>1. PICK fit \in FitCounts : Transmit(Bundle(outCache', Redundancy, fit))
    BY DEF Send
  <2>2. fit \in Nat /\ Redundancy \in Nat /\ sent' \in Nat /\ sent <= sent'
    BY <1>1, <1>2, KMessageAssumption
  <2>3. Bundle(outCache', Redundancy, fit) = <<>>
        \/ BundleAt(Bundle(outCache', Redundancy, fit), sent' - 1)
    BY <1>4, <2>2, BundleOfOutgoing
  <2> QED BY <1>1, <2>1, <2>2, <2>3, TransmitInFlight
<1>6. \E L \in Int : Window(rx', L, delivered') /\ L < sent'
  <2>1. PICK L \in Int : Window(rx, L, delivered) /\ L < sent
    BY DEF IInv
  <2>2. L < sent + 1
    BY <1>1, <2>1
  <2> QED BY <1>2, <2>1, <2>2
<1>7. sent' - delivered' <= MaxAhead + 1
  BY <1>1, <1>2, KMessageAssumption
<1>8. TypeOK'
  <2>1. sent' \in Nat /\ delivered' \in Int
    BY <1>1, <1>2
  <2>2. outCache' \in Seq(MessageType) /\ Len(outCache') < CacheSize
    BY <1>4 DEF Outgoing
  <2> QED BY <1>2, <1>5, <2>1, <2>2 DEF IInv, TypeOK
<1> QED BY <1>4, <1>5, <1>6, <1>7, <1>8 DEF IInv

LEMMA ResendStep == IInv /\ Resend => IInv'
<1> SUFFICES ASSUME IInv, Resend PROVE IInv'
  OBVIOUS
<1>1. /\ sent \in Nat /\ Outgoing(outCache, sent) /\ InFlight(net, sent)
      /\ net \subseteq Seq(MessageType)
  BY DEF IInv, TypeOK
<1>2. /\ sent' = sent /\ outCache' = outCache /\ rx' = rx /\ delivered' = delivered
      /\ lost' = lost /\ waiting' = waiting
  BY DEF Resend
<1>3. InFlight(net', sent') /\ net' \subseteq Seq(MessageType)
  <2>1. PICK fit \in FitCounts : Transmit(Bundle(outCache, ResendCount, fit))
    BY DEF Resend
  <2>2. fit \in Nat /\ ResendCount \in Nat /\ sent' \in Nat /\ sent <= sent'
    BY <1>1, <1>2, KMessageAssumption
  <2>3. Bundle(outCache, ResendCount, fit) = <<>>
        \/ BundleAt(Bundle(outCache, ResendCount, fit), sent' - 1)
    BY <1>1, <1>2, <2>2, BundleOfOutgoing
  <2> QED BY <1>1, <2>1, <2>2, <2>3, TransmitInFlight
<1> QED BY <1>2, <1>3 DEF IInv, TypeOK

LEMMA LoseStep == ASSUME IInv, NEW b \in net, Lose(b) PROVE IInv'
<1>1. InFlight(net, sent) /\ net \subseteq Seq(MessageType) /\ lost \subseteq Nat
  BY DEF IInv, TypeOK
<1>2. b[1].body \in Nat
  BY <1>1, BundleNewest DEF InFlight
<1>3. lost' \subseteq Nat
  BY <1>1, <1>2 DEF Lose
<1>4. net' \subseteq net /\ UNCHANGED <<sent, outCache, waiting, rx, delivered>>
  BY DEF Lose
<1>5. InFlight(net', sent') /\ net' \subseteq Seq(MessageType)
  BY <1>1, <1>4 DEF InFlight
<1> QED BY <1>3, <1>4, <1>5 DEF IInv, TypeOK

\* What a step that touches neither the sender nor the clock owes.
LEMMA ReceiverStep ==
  ASSUME IInv, UNCHANGED <<sent, outCache, lost>>, net' \subseteq net,
         waiting' \in BOOLEAN, delivered' \in Int, delivered <= delivered',
         \E L \in Int : Window(rx', L, delivered') /\ L < sent
  PROVE  IInv'
<1>1. /\ sent \in Nat /\ delivered \in Int /\ MaxAhead \in Nat
      /\ sent - delivered <= MaxAhead + 1
  BY KMessageAssumption DEF IInv, TypeOK
<1>2. sent' - delivered' <= MaxAhead + 1
  <2>1. \A e \in Int : delivered <= e => sent - e <= MaxAhead + 1
    BY <1>1
  <2>2. sent' = sent
    OBVIOUS
  <2>3. sent - delivered' <= MaxAhead + 1
    BY <2>1, Zenon
  <2> QED BY <2>2, <2>3, Zenon
<1>3. InFlight(net', sent') /\ net' \subseteq Seq(MessageType)
  BY DEF IInv, TypeOK, InFlight
<1>4. rx' \in Receiver /\ Len(rx'.cache) <= CacheSize
  BY DEF Window, Stretch
<1>5. \E L \in Int : Window(rx', L, delivered') /\ L < sent'
  OBVIOUS
<1> QED BY <1>2, <1>3, <1>4, <1>5 DEF IInv, TypeOK

LEMMA ReceiveBundleStep ==
  ASSUME IInv, NEW b \in net, ReceiveBundle(b)
  PROVE  IInv' /\ delivered <= delivered'
<1> DEFINE s == SkipStaleHoles(rx)
<1>1. PICK L \in Int : Window(rx, L, delivered) /\ L < sent
  BY DEF IInv
<1>2. PICK N \in Nat : BundleAt(b, N) /\ N < sent /\ sent <= N + MaxLag + 1
  BY DEF IInv, InFlight
<1>3. /\ sent \in Nat /\ delivered \in Int /\ sent - delivered <= MaxAhead + 1
      /\ MaxAhead \in Nat /\ MaxLag \in Nat /\ CacheSize \in Nat /\ HalfRange \in Nat
      /\ MaxAhead < HalfRange /\ MaxLag + CacheSize < HalfRange
  BY KMessageAssumption DEF IInv, TypeOK
<1>4. Window(s, L, delivered)
  BY <1>1, <1>3, SkipWindow
<1>5. delivered <= L
  BY <1>1, <1>3 DEF Window, Stretch
<1>6. N - L < HalfRange /\ L - N + CacheSize < HalfRange
  BY <1>1, <1>2, <1>3, <1>5
<1>7. PICK K \in Int : Window(Arrive(s, b), K, delivered) /\ (K = L \/ K <= N)
  <2> HIDE DEF s
  <2> QED BY <1>2, <1>3, <1>4, <1>6, ArriveWindow
<1>8. K < sent
  BY <1>1, <1>2, <1>3, <1>7
<1>9. HandOver(Arrive(s, b)) /\ net' \subseteq net /\ waiting' = FALSE
      /\ UNCHANGED <<sent, outCache, lost>>
  BY DEF ReceiveBundle
<1> HIDE DEF s
<1>10. /\ delivered' \in Int /\ delivered <= delivered'
       /\ Window(rx', K, delivered')
  BY <1>3, <1>7, <1>9, HandOverWindow
<1> QED BY <1>8, <1>9, <1>10, ReceiverStep

LEMMA ReceiveNothingStep ==
  ASSUME IInv, ReceiveNothing
  PROVE  IInv' /\ delivered <= delivered'
<1> DEFINE s == SkipStaleHoles(rx)
<1>1. PICK L \in Int : Window(rx, L, delivered) /\ L < sent
  BY DEF IInv
<1>2. delivered \in Int
  BY DEF IInv, TypeOK
<1>3. Window(s, L, delivered)
  BY <1>1, <1>2, SkipWindow
<1>4. HandOver(s) /\ net' = net /\ waiting' = FALSE /\ UNCHANGED <<sent, outCache, lost>>
  BY DEF ReceiveNothing
<1> HIDE DEF s
<1>5. delivered' \in Int /\ delivered <= delivered' /\ Window(rx', L, delivered')
  BY <1>2, <1>3, <1>4, HandOverWindow
<1> QED BY <1>1, <1>4, <1>5, ReceiverStep

LEMMA HasDataStep == IInv /\ HasData => IInv'
<1> SUFFICES ASSUME IInv, HasData PROVE IInv'
  OBVIOUS
<1>1. PICK L \in Int : Window(rx, L, delivered) /\ L < sent
  BY DEF IInv
<1>2. delivered \in Int /\ delivered' = delivered /\ waiting' \in BOOLEAN /\ net' = net
  BY DEF IInv, TypeOK, HasData
<1>3. Window(rx', L, delivered') /\ delivered <= delivered'
  BY <1>1, <1>2, SkipWindow DEF HasData
<1> QED BY <1>1, <1>2, <1>3, ReceiverStep DEF HasData

LEMMA HoleTimeoutStep == IInv /\ HoleTimeout => IInv'
<1> SUFFICES ASSUME IInv, HoleTimeout PROVE IInv'
  OBVIOUS
<1>1. PICK L \in Int : Window(rx, L, delivered) /\ L < sent
  BY DEF IInv
<1>2. /\ delivered \in Int /\ delivered' = delivered /\ delivered <= delivered'
      /\ waiting' \in BOOLEAN /\ net' = net /\ UNCHANGED <<sent, outCache, lost>>
  BY DEF IInv, TypeOK, HoleTimeout
<1>3. rx' = [rx EXCEPT !.hole = "expired"] /\ rx \in Receiver
  BY <1>1 DEF HoleTimeout, Window
<1>4. rx' \in Receiver /\ rx'.last = rx.last /\ rx'.cache = rx.cache
  BY <1>3 DEF Receiver, HoleStates
<1>5. Window(rx', L, delivered')
  BY <1>1, <1>2, <1>4 DEF Window
<1> QED BY <1>1, <1>2, <1>5, ReceiverStep

LEMMA CheckSocketsStep == IInv /\ CheckSockets => IInv'
  BY DEF CheckSockets, IInv, TypeOK

LEMMA StepIInv == IInv /\ [Next]_vars => IInv'
<1> SUFFICES ASSUME IInv, [Next]_vars PROVE IInv'
  OBVIOUS
<1>1. CASE Send
  BY <1>1, SendStep
<1>2. CASE Resend
  BY <1>2, ResendStep
<1>3. ASSUME NEW b \in net, Lose(b) PROVE IInv'
  BY <1>3, LoseStep
<1>4. CASE CheckSockets
  BY <1>4, CheckSocketsStep
<1>5. CASE HasData
  BY <1>5, HasDataStep
<1>6. ASSUME NEW b \in net, ReceiveBundle(b) PROVE IInv'
  BY <1>6, ReceiveBundleStep
<1>7. CASE ReceiveNothing
  BY <1>7, ReceiveNothingStep
<1>8. CASE HoleTimeout
  BY <1>8, HoleTimeoutStep
<1>9. CASE UNCHANGED vars
  BY <1>9 DEF vars, IInv, TypeOK
<1> QED BY <1>1, <1>2, <1>3, <1>4, <1>5, <1>6, <1>7, <1>8, <1>9 DEF Next

LEMMA SpecIInv == Spec => []IInv
  BY InitIInv, StepIInv, PTL DEF Spec
-----------------------------------------------------------------------------
(* The theorems                                                            *)

\* Types hold for every size of the cache and of the serial space, and in_cache
\* never needs more than its ICACHESIZE slots: no sequence of bundles, stale,
\* repeated or from after a long silence, makes check_recv queue a 17th message.
THEOREM SpecTypeOK == Spec => []TypeOK
<1>1. IInv => TypeOK
  BY DEF IInv
<1> QED BY <1>1, SpecIInv, PTL

\* in_cache is at all times the contiguous run of serials that ends at
\* last_cached_instruction, across the serial wrap too: what fill_slot's
\* subtraction relies on.
THEOREM SpecContiguousRun == Spec => []ContiguousRun
<1>1. ASSUME IInv PROVE ContiguousRun
  <2>1. PICK L \in Int : Window(rx, L, delivered)
    BY <1>1 DEF IInv
  <2>2. rx.last = Serial(L) /\ rx.cache \in Seq(Slot)
    BY <2>1 DEF Window, Stretch
  <2>3. ASSUME NEW i \in DOMAIN rx.cache
        PROVE  rx.cache[i].serial = Dist(rx.last, Len(rx.cache) - i)
    <3>1. i \in 1 .. Len(rx.cache) /\ Len(rx.cache) - i \in Int
      BY <2>2
    <3>2. rx.cache[i].serial = Serial(L - Len(rx.cache) + i)
      BY <2>1, <3>1 DEF Window, Stretch
    <3>3. L - Len(rx.cache) + i = L - (Len(rx.cache) - i)
      BY <2>2, <3>1
    <3> QED BY <2>2, <3>1, <3>2, <3>3, SerialShift
  <2> QED BY <2>3 DEF ContiguousRun
<1> QED BY <1>1, SpecIInv, PTL

\* The window is the stretch of the sender's sequence that comes next: a message
\* never sits in the slot of another, whatever the network repeats or reorders
\* within half of the serial space.
THEOREM SpecWindowIsNext == Spec => []WindowIsNext
<1>1. ASSUME IInv PROVE WindowIsNext
  <2>1. PICK L \in Int : Window(rx, L, delivered) /\ L < sent
    BY <1>1 DEF IInv
  <2>2. sent \in Nat /\ delivered \in Int
    BY <1>1 DEF IInv, TypeOK
  <2>3. /\ rx.last = Serial(L) /\ delivered <= L - Len(rx.cache) /\ rx.cache \in Seq(Slot)
        /\ \A i \in 1 .. Len(rx.cache) : rx.cache[i].body \in {Hole, L - Len(rx.cache) + i}
    BY <2>1 DEF Window, Stretch
  <2>4. Len(rx.cache) \in Nat /\ DOMAIN rx.cache = 1 .. Len(rx.cache)
    BY <2>3
  <2>5. L \in delivered .. sent - 1 /\ delivered + Len(rx.cache) <= L
    BY <2>1, <2>2, <2>3, <2>4
  <2> QED BY <2>3, <2>4, <2>5 DEF WindowIsNext
<1> QED BY <1>1, SpecIInv, PTL

\* The message layer implements the ordered channel: whatever is lost, repeated or
\* reordered, the caller is given the sender's messages in increasing order, each
\* at most once, and none before it was sent.
THEOREM SpecChannel == Spec => ChannelSpec
<1>1. Init => Channel!Init
  BY DEF Init, Channel!Init
<1>2. ASSUME IInv, IInv', [Next]_vars PROVE [Channel!Next]_(Channel!vars)
  <2>1. /\ sent \in Nat /\ delivered \in Int /\ sent' \in Nat /\ delivered' \in Int
    BY <1>2 DEF IInv, TypeOK
  <2>2. delivered' < sent'
    <3>1. PICK L \in Int : Window(rx', L, delivered') /\ L < sent'
      BY <1>2 DEF IInv
    <3>2. delivered' <= L
      BY <2>1, <3>1 DEF Window, Stretch
    <3> QED BY <2>1, <3>1, <3>2
  <2>3. ASSUME sent' = sent, delivered <= delivered'
        PROVE  [Channel!Next]_(Channel!vars)
    BY <2>1, <2>2, <2>3 DEF Channel!Next, Channel!Deliver, Channel!vars
  <2>4. CASE Send
    BY <2>4 DEF Send, Channel!Next, Channel!Submit
  <2>5. CASE Resend \/ CheckSockets \/ HasData \/ HoleTimeout \/ UNCHANGED vars
    BY <2>1, <2>5 DEF Resend, CheckSockets, HasData, HoleTimeout, vars, Channel!vars
  <2>6. ASSUME NEW b \in net, Lose(b) PROVE [Channel!Next]_(Channel!vars)
    BY <2>6 DEF Lose, Channel!vars
  <2>7. ASSUME NEW b \in net, ReceiveBundle(b) PROVE [Channel!Next]_(Channel!vars)
    BY <1>2, <2>3, <2>7, ReceiveBundleStep DEF ReceiveBundle
  <2>8. CASE ReceiveNothing
    BY <1>2, <2>3, <2>8, ReceiveNothingStep DEF ReceiveNothing
  <2> QED BY <1>2, <2>4, <2>5, <2>6, <2>7, <2>8 DEF Next
<1> QED BY <1>1, <1>2, SpecIInv, PTL DEF Spec, ChannelSpec, Channel!Spec
-----------------------------------------------------------------------------
(* No message is skipped                                                   *)

\* The losses the bundles make up for: fewer than Redundancy fresh bundles in a row, each of them with
\* room for Redundancy messages, and a receiver that is not ResyncGap behind.
LossesCovered ==
  /\ MaxLossRun < Redundancy /\ MaxLossRun < MaxMsgs /\ PatientTimer
  /\ Redundancy < CacheSize /\ Redundancy <= ResendCount /\ \A fit \in FitCounts : Redundancy <= fit
  /\ MaxAhead < ResyncGap

\* The receiver, when d was the last message delivered, does not have message m, which is to come.
Missing(r, d, m) == d < m /\ (m <= d + Len(r.cache) => IsHole(r.cache[m - d]))

\* The window begins with the message after d, and a hole has been passed by a whole bundle.
ExactWindow(r, d) ==
  /\ d \in Int /\ -1 <= d /\ Window(r, d + Len(r.cache), d)
  /\ \A m \in Nat : (Missing(r, d, m) /\ m <= d + Len(r.cache)) => m + Redundancy <= d + Len(r.cache)

\* The hole timer has not run out, and runs only if a hole is at the head.
TimerRuns(r) ==
  r.hole = "none" \/ (r.hole = "waiting" /\ r.cache # <<>> /\ IsHole(r.cache[1]))

\* A bundle with newest message n is on its way.
Heard(S, n) == \E b \in S : b[1].body = n
LongBundle(b) == Len(b) >= Redundancy \/ Len(b) = b[1].body + 1

\* When s messages have been sent: of the bundles that carry message m, those sent are in S or lost
\* (gone remembers the recent ones), and not all of them are lost.
StillComing(S, gone, s, m) ==
  /\ s <= m + MaxLag + MaxLossRun + 1 =>
       \A n \in m .. m + MaxLossRun : n < s => (Heard(S, n) \/ n \in gone)
  /\ m + MaxLossRun < s => \E n \in m .. m + MaxLossRun : Heard(S, n)

NoSkipInv ==
  /\ IInv
  /\ ExactWindow(rx, delivered) /\ delivered + Len(rx.cache) < sent
  /\ TimerRuns(rx)
  /\ \A b \in net : LongBundle(b)
  /\ Len(outCache) >= Redundancy \/ Len(outCache) = sent
  /\ \A m \in Nat : (m < sent /\ Missing(rx, delivered, m)) => StillComing(net, lost, sent, m)

\* The constants are numbers.
LEMMA CoveredNumbers ==
  ASSUME LossesCovered
  PROVE  /\ {MaxLossRun, Redundancy, ResendCount, MaxLag, MaxAhead, ResyncGap, CacheSize, HalfRange, MaxMsgs} \subseteq Nat
         /\ MaxLossRun < Redundancy /\ MaxLossRun < MaxMsgs /\ Redundancy < CacheSize
         /\ MaxAhead < ResyncGap /\ ResyncGap <= CacheSize /\ MaxLag + CacheSize < HalfRange
         /\ SerialMod = 2 * HalfRange /\ ResyncGap < HalfRange
BY KMessageAssumption DEF LossesCovered, SerialMod

\* A bundle that is not ResyncGap ahead abandons nothing.
LEMMA NoResync ==
  ASSUME NEW r, NEW L \in Int, r.last = Serial(L), NEW b, NEW N \in Nat, BundleAt(b, N),
         N - L < ResyncGap, L - N < HalfRange
  PROVE  Resync(r, b) = r
<1> DEFINE tx == Dist(b[1].serial, r.last)
<1>1. b[1].serial = Serial(N)
  BY BundleNewest
<1>2. HalfRange \in Nat /\ SerialMod = 2 * HalfRange /\ ResyncGap \in Nat /\ ResyncGap < HalfRange
  BY KMessageAssumption DEF SerialMod
<1>3. CASE 0 <= N - L
  <2>1. tx = N - L
    BY <1>1, <1>2, <1>3, DistSerial
  <2>2. ~(tx >= ResyncGap)
    <3> HIDE DEF tx
    <3> QED BY <1>2, <2>1
  <2> QED BY <2>2 DEF Resync
<1>4. CASE N - L < 0
  <2>1. tx = N - L + SerialMod
    BY <1>1, <1>2, <1>4, DistSerial
  <2>2. ~(tx < HalfRange)
    <3> HIDE DEF tx
    <3> QED BY <1>2, <2>1
  <2> QED BY <2>2 DEF Resync
<1> QED BY <1>3, <1>4

\* Extend, when there is room: the old slots stay, and holes follow up to the newest message.
LEMMA ExtendExact ==
  ASSUME NEW r, NEW L \in Int, NEW d \in Int, Window(r, L, d), Len(r.cache) = L - d, NEW N \in Nat,
         N - L < ResyncGap, L - N < HalfRange, N - d <= CacheSize
  PROVE  \E K \in Int :
           /\ Window(Extend(r, Serial(N)), K, d) /\ Len(Extend(r, Serial(N)).cache) = K - d
           /\ L <= K /\ N <= K /\ (K = L \/ K = N)
           /\ \A i \in 1 .. Len(r.cache) : Extend(r, Serial(N)).cache[i] = r.cache[i]
           /\ Extend(r, Serial(N)).hole = r.hole
<1> DEFINE tx == Dist(Serial(N), r.last)
           slots == [i \in 1 .. tx |-> [serial |-> (r.last + i) % SerialMod, body |-> Hole]]
           q == [r EXCEPT !.cache = @ \o slots, !.last = Serial(N)]
<1>1. /\ r \in Receiver /\ r.last = Serial(L) /\ Stretch(r.cache, L) /\ r.cache \in Seq(Slot) /\ Len(r.cache) \in Nat
  <2>1. r \in Receiver /\ r.last = Serial(L) /\ Stretch(r.cache, L)
    BY Zenon DEF Window
  <2>2. r.cache \in Seq(Slot)
    BY <2>1, Zenon DEF Stretch
  <2>3. Len(r.cache) \in Nat
    BY <2>2
  <2> QED BY <2>1, <2>2, <2>3
<1>2. HalfRange \in Nat /\ SerialMod = 2 * HalfRange /\ ResyncGap \in Nat /\ ResyncGap < HalfRange /\ CacheSize \in Nat
  BY KMessageAssumption DEF SerialMod
<1>3. CASE N - L > 0
  <2>1. tx = N - L
    BY <1>1, <1>2, <1>3, DistSerial
  <2>2. tx \in Nat /\ tx > 0 /\ tx < ResyncGap /\ Len(r.cache) + tx <= CacheSize /\ L + tx = N
    <3> HIDE DEF tx
    <3> QED BY <1>1, <1>2, <1>3, <2>1
  <2>3. EmptySlots(slots, L, tx)
    <3> HIDE DEF tx
    <3> QED BY <1>1, <2>2, NewSlots
  <2>4. Extend(r, Serial(N)) = q
    <3>1. ~(Len(r.cache) + tx > CacheSize)
      <4> HIDE DEF tx
      <4> QED BY <1>1, <1>2, <2>2
    <3>2. tx > 0 /\ tx < ResyncGap
      BY <2>2
    <3> QED BY <3>1, <3>2 DEF Extend
  <2> HIDE DEF tx, slots
  <2>5. Stretch(r.cache \o slots, L + tx) /\ Len(r.cache \o slots) = Len(r.cache) + tx
    BY <1>1, <2>2, <2>3, StretchAppend
  <2>6. \A i \in 1 .. Len(r.cache) : (r.cache \o slots)[i] = r.cache[i]
    BY <1>1, <2>3 DEF EmptySlots
  <2> DEFINE c == r.cache \o slots
  <2>7. c \in Seq(Slot)
    BY <2>5 DEF Stretch
  <2>8. q = [r EXCEPT !.cache = c, !.last = Serial(N)]
    OBVIOUS
  <2>9. Stretch(c, N) /\ Len(c) = Len(r.cache) + tx /\ \A i \in 1 .. Len(r.cache) : c[i] = r.cache[i]
    BY <2>2, <2>5, <2>6
  <2> HIDE DEF c, q
  <2>10. Serial(N) \in 0 .. SerialMod - 1
    BY SerialShift
  <2>11. q \in Receiver /\ q.last = Serial(N) /\ q.cache = c /\ q.hole = r.hole
    BY <1>1, <2>7, <2>8, <2>10 DEF Receiver
  <2>12. Len(c) = N - d
    <3>1. Len(r.cache) \in Nat /\ tx \in Nat /\ L + tx = N /\ Len(c) = Len(r.cache) + tx
      BY <1>1, <2>2, <2>9
    <3> QED BY <3>1
  <2>13. Window(q, N, d)
    <3>1. Len(c) \in Nat
      BY <2>7
    <3>2. q.cache = c /\ q \in Receiver /\ q.last = Serial(N) /\ Stretch(q.cache, N)
      BY <2>9, <2>11
    <3>3. d <= N - Len(c) /\ N \in Int
      BY <2>12, <3>1
    <3> QED BY <3>2, <3>3, Zenon DEF Window
  <2>14. L <= N
    BY <1>3
  <2>15. N \in Int /\ N <= N
    OBVIOUS
  <2> QED BY <2>4, <2>9, <2>11, <2>12, <2>13, <2>14, <2>15, Zenon
<1>4. CASE N - L <= 0
  <2>1. ~(tx > 0 /\ tx < ResyncGap)
    <3>1. CASE N - L = 0
      <4>1. tx = 0
        BY <1>1, <1>2, <3>1, DistSerial
      <4> QED BY <4>1
    <3>2. CASE N - L < 0
      <4>1. tx = N - L + SerialMod
        BY <1>1, <1>2, <3>2, DistSerial
      <4> HIDE DEF tx
      <4> QED BY <1>1, <1>2, <4>1
    <3> QED BY <1>4, <3>1, <3>2
  <2>2. Extend(r, Serial(N)) = r
    BY <2>1 DEF Extend
  <2> QED BY <1>4, <2>2
<1> QED BY <1>3, <1>4

\* FillSlots leaves no hole where the bundle has a message, and makes none.
LEMMA FillExact ==
  ASSUME NEW r, NEW L \in Int, NEW d \in Int, Window(r, L, d),
         NEW b, NEW N \in Nat, BundleAt(b, N), N <= L, L - N + CacheSize < SerialMod
  PROVE  /\ Len(FillSlots(r, b).cache) = Len(r.cache) /\ FillSlots(r, b).hole = r.hole
         /\ \A i \in 1 .. Len(r.cache) : IsHole(FillSlots(r, b).cache[i]) =>
              /\ IsHole(r.cache[i])
              /\ ~(N - Len(b) < L - Len(r.cache) + i /\ L - Len(r.cache) + i <= N)
<1>1. /\ r.last = Serial(L) /\ Len(r.cache) \in Nat /\ r \in Receiver /\ r.cache \in Seq(Slot) /\ Len(r.cache) <= CacheSize
      /\ Len(b) \in Nat /\ DOMAIN b = 1 .. Len(b) /\ DOMAIN r.cache = 1 .. Len(r.cache)
      /\ CacheSize \in Nat /\ SerialMod \in Nat
  <2>1. r \in Receiver /\ r.last = Serial(L) /\ Stretch(r.cache, L)
    BY Zenon DEF Window
  <2>2. r.cache \in Seq(Slot) /\ Len(r.cache) <= CacheSize
    BY <2>1 DEF Stretch
  <2>3. b \in Seq(MessageType)
    BY DEF BundleAt
  <2> QED BY <2>1, <2>2, <2>3, KMessageAssumption, ModType
<1> DEFINE c == [i \in DOMAIN r.cache |-> IF IsHole(r.cache[i]) /\ For(r, i, b) # {}
                                          THEN b[CHOOSE u \in For(r, i, b) : TRUE] ELSE r.cache[i]]
<1>2. FillSlots(r, b) = [r EXCEPT !.cache = c]
  BY DEF FillSlots
<1>3. /\ DOMAIN c = 1 .. Len(r.cache)
      /\ \A i \in 1 .. Len(r.cache) : c[i] = IF IsHole(r.cache[i]) /\ For(r, i, b) # {}
                                            THEN b[CHOOSE u \in For(r, i, b) : TRUE] ELSE r.cache[i]
  BY <1>1
<1>4. Len(c) = Len(r.cache)
  <2> HIDE DEF c
  <2> QED BY <1>1, <1>2, <1>3, FillWindow DEF Window, Stretch, Receiver
<1>5. FillSlots(r, b).cache = c /\ FillSlots(r, b).hole = r.hole
  <2> HIDE DEF c
  <2> QED BY <1>1, <1>2 DEF Receiver
<1> HIDE DEF c
<1>6. ASSUME NEW i \in 1 .. Len(r.cache), IsHole(c[i])
      PROVE  /\ IsHole(r.cache[i])
             /\ ~(N - Len(b) < L - Len(r.cache) + i /\ L - Len(r.cache) + i <= N)
  <2>1. \A u \in For(r, i, b) : ~IsHole(b[u])
    <3> TAKE u \in For(r, i, b)
    <3>1. u \in 1 .. Len(b)
      BY <1>1 DEF For
    <3>2. PICK m \in Nat : b[u] = Msg(m)
      BY <3>1 DEF BundleAt
    <3> QED BY <3>2 DEF Msg, IsHole, Hole
  <2>2. ~(IsHole(r.cache[i]) /\ For(r, i, b) # {})
    <3>1. SUFFICES ASSUME IsHole(r.cache[i]), For(r, i, b) # {} PROVE FALSE
      OBVIOUS
    <3>2. c[i] = b[CHOOSE u \in For(r, i, b) : TRUE] /\ (CHOOSE u \in For(r, i, b) : TRUE) \in For(r, i, b)
      BY <1>3, <3>1
    <3> QED BY <1>6, <2>1, <3>2
  <2>3. c[i] = r.cache[i]
    BY <1>3, <2>2
  <2>4. IsHole(r.cache[i]) /\ For(r, i, b) = {}
    BY <1>6, <2>2, <2>3
  <2>5. ASSUME N - Len(b) < L - Len(r.cache) + i, L - Len(r.cache) + i <= N PROVE FALSE
    <3>1. Len(r.cache) \in Nat /\ Len(b) \in Nat /\ Len(r.cache) <= CacheSize /\ CacheSize \in Nat
          /\ SerialMod \in Nat
      BY <1>1
    <3>2. PICK m \in Int : m = L - Len(r.cache) + i
      <4>1. i \in Int
        BY <3>1
      <4>2. L - Len(r.cache) + i \in Int
        BY <3>1, <4>1
      <4> QED BY <4>2, Zenon
    <3>3. N - Len(b) < m /\ m <= N /\ L - m = Len(r.cache) - i
      <4>1. N - Len(b) < m /\ m <= N
        BY <2>5, <3>2, Zenon
      <4>2. i \in Int
        BY <3>1
      <4>3. \A x \in Int, y \in Int : x = L - y + i => L - x = y - i
        BY <4>2
      <4>4. Len(r.cache) \in Int
        BY <3>1
      <4>5. L - m = Len(r.cache) - i
        BY <3>2, <4>3, <4>4, Zenon
      <4> QED BY <4>1, <4>5, Zenon
    <3>4. PICK u \in 1 .. Len(b) : u = N - m + 1
      BY <3>1, <3>3
    <3>5. N - u + 1 \in Nat /\ b[u] = Msg(N - u + 1)
      BY DEF BundleAt
    <3>6. N - u + 1 = m
      BY <3>1, <3>4
    <3>7. 0 <= L - m /\ L - m < SerialMod
      <4>1. SerialMod \in Nat
        BY <1>1
      <4>2. 0 <= L - m
        BY <3>1, <3>3
      <4>3. L - m <= L - N + CacheSize
        BY <3>1, <3>3
      <4> QED BY <3>1, <4>1, <4>2, <4>3
    <3>8. Dist(Serial(L), Serial(m)) = L - m
      BY <3>7, DistSerial
    <3>9. b[u].serial = Serial(m)
      BY <3>5, <3>6 DEF Msg
    <3>10. u \in For(r, i, b)
      BY <1>1, <3>3, <3>8, <3>9 DEF For
    <3> QED BY <2>4, <3>10
  <2> QED BY <2>4, <2>5
<1> QED BY <1>4, <1>5, <1>6

\* A bundle read leaves a window without a gap before it, in which only messages that no bundle up to
\* this one has brought are missing.
LEMMA ArriveExact ==
  ASSUME LossesCovered, NEW r, NEW d \in Int, ExactWindow(r, d), NEW L \in Int, Len(r.cache) = L - d,
         NEW b, NEW N \in Nat, BundleAt(b, N), LongBundle(b), N - d <= MaxAhead, L - N <= MaxLag
  PROVE  /\ ExactWindow(Arrive(r, b), d) /\ Arrive(r, b).hole = r.hole
         /\ \/ Len(Arrive(r, b).cache) = L - d
            \/ Len(Arrive(r, b).cache) = N - d
         /\ \A m \in Nat : Missing(Arrive(r, b), d, m) =>
              Missing(r, d, m) /\ ~(N - Len(b) < m /\ m <= N)
<1>1. /\ -1 <= d /\ Window(r, L, d) /\ Len(r.cache) \in Nat
      /\ \A m \in Nat : (Missing(r, d, m) /\ m <= L) => m + Redundancy <= L
  <2>1. -1 <= d /\ Window(r, d + Len(r.cache), d)
        /\ \A m \in Nat : (Missing(r, d, m) /\ m <= d + Len(r.cache)) => m + Redundancy <= d + Len(r.cache)
    BY DEF ExactWindow
  <2>2. d + Len(r.cache) = L
    OBVIOUS
  <2>3. r.cache \in Seq(Slot)
    BY <2>1 DEF Window, Stretch
  <2> QED BY <2>1, <2>2, <2>3
<1>2. /\ MaxAhead \in Nat /\ ResyncGap \in Nat /\ CacheSize \in Nat /\ HalfRange \in Nat /\ MaxLag \in Nat
      /\ Redundancy \in Nat /\ MaxAhead < ResyncGap /\ ResyncGap <= CacheSize
      /\ MaxLag + CacheSize < HalfRange /\ SerialMod = 2 * HalfRange
  BY CoveredNumbers
<1>3. N - L < ResyncGap /\ L - N < HalfRange /\ N - d <= CacheSize
  BY <1>1, <1>2
<1>4. Resync(r, b) = r
  <2>1. r.last = Serial(L)
    BY <1>1 DEF Window
  <2> QED BY <1>3, <2>1, NoResync
<1> DEFINE e == Extend(r, Serial(N))
           a == Arrive(r, b)
<1>5. PICK K \in Int :
        /\ Window(e, K, d) /\ Len(e.cache) = K - d /\ L <= K /\ N <= K /\ (K = L \/ K = N)
        /\ \A i \in 1 .. Len(r.cache) : e.cache[i] = r.cache[i]
        /\ e.hole = r.hole
  BY <1>1, <1>3, ExtendExact
<1>6. a = FillSlots(e, b)
  BY <1>4, BundleNewest DEF Arrive
<1> HIDE DEF e, a
<1>7. K - N + CacheSize < SerialMod
  <2>1. K - N <= MaxLag
    <3>1. MaxLag \in Nat /\ (K = L \/ K = N)
      BY <1>2, <1>5
    <3> QED BY <3>1
  <2>2. \A x \in Int : x <= MaxLag => x + CacheSize < SerialMod
    <3>1. MaxLag \in Nat /\ CacheSize \in Nat /\ HalfRange \in Nat /\ MaxLag + CacheSize < HalfRange
          /\ SerialMod = 2 * HalfRange
      BY <1>2
    <3> QED BY <3>1
  <2>3. K - N \in Int
    OBVIOUS
  <2> QED BY <2>1, <2>2, <2>3
<1>8. Window(a, K, d)
  BY <1>5, <1>6, <1>7, FillWindow
<1>9. /\ Len(a.cache) = Len(e.cache) /\ a.hole = e.hole
      /\ \A i \in 1 .. Len(e.cache) : IsHole(a.cache[i]) =>
           IsHole(e.cache[i]) /\ ~(N - Len(b) < K - Len(e.cache) + i /\ K - Len(e.cache) + i <= N)
  BY <1>5, <1>6, <1>7, FillExact
<1>10. ASSUME NEW m \in Nat, Missing(a, d, m)
       PROVE  Missing(r, d, m) /\ ~(N - Len(b) < m /\ m <= N)
  <2>1. d < m /\ (m <= K => IsHole(a.cache[m - d]))
    <3>1. d + Len(a.cache) = K
      BY <1>5, <1>9
    <3> QED BY <1>10, <3>1 DEF Missing
  <2>2. CASE m <= K
    <3>1. PICK i \in 1 .. Len(e.cache) : i = m - d
      BY <1>5, <2>1, <2>2
    <3>2. K - Len(e.cache) + i = m
      BY <1>5, <3>1
    <3>3. IsHole(e.cache[i]) /\ ~(N - Len(b) < m /\ m <= N)
      BY <1>9, <2>1, <2>2, <3>1, <3>2
    <3>4. m <= d + Len(r.cache) => IsHole(r.cache[m - d])
      <4>1. ASSUME m <= d + Len(r.cache) PROVE i \in 1 .. Len(r.cache)
        BY <1>1, <2>1, <3>1, <4>1
      <4> QED BY <1>5, <3>1, <3>3, <4>1
    <3> QED BY <2>1, <3>3, <3>4 DEF Missing
  <2>3. CASE ~(m <= K)
    <3>1. ~(m <= N) /\ ~(m <= L)
      BY <1>5, <2>3
    <3>2. d + Len(r.cache) = L
      OBVIOUS
    <3> QED BY <2>1, <3>1, <3>2 DEF Missing
  <2> QED BY <2>2, <2>3
<1>11. ASSUME NEW m \in Nat, Missing(a, d, m), m <= K PROVE m + Redundancy <= K
  <2>1. Missing(r, d, m) /\ ~(N - Len(b) < m /\ m <= N)
    BY <1>10, <1>11
  <2>2. CASE m <= L
    <3>1. m + Redundancy <= L
      BY <1>1, <2>1, <2>2
    <3> QED BY <1>2, <1>5, <3>1
  <2>3. CASE ~(m <= L)
    <3>1. K = N /\ m <= N
      BY <1>5, <1>11, <2>3
    <3>2. Len(b) \in Nat
      BY DEF BundleAt
    <3>3. m <= N - Len(b)
      BY <2>1, <3>1, <3>2
    <3>4. Len(b) >= Redundancy \/ Len(b) = N + 1
      BY BundleNewest DEF LongBundle
    <3> QED BY <1>2, <3>1, <3>2, <3>3, <3>4
  <2> QED BY <2>2, <2>3
<1>12. ExactWindow(a, d)
  <2>1. d + Len(a.cache) = K
    BY <1>5, <1>9
  <2> QED BY <1>1, <1>8, <1>11, <2>1 DEF ExactWindow
<1>13. Len(a.cache) = L - d \/ Len(a.cache) = N - d
  BY <1>5, <1>9
<1> QED BY <1>5, <1>9, <1>10, <1>12, <1>13 DEF a

\* While the hole timer has not run out, skip_stale_holes only sets it.
LEMMA SkipExact ==
  ASSUME NEW r, r \in Receiver, r.hole # "expired"
  PROVE  /\ SkipStaleHoles(r).cache = r.cache /\ SkipStaleHoles(r).last = r.last
         /\ SkipStaleHoles(r) \in Receiver
         /\ TimerRuns(SkipStaleHoles(r)) /\ (HeadReady(r) => SkipStaleHoles(r).hole = "none")
<1>1. CASE r.cache = <<>> \/ HeadReady(r)
  <2>1. SkipStaleHoles(r) = [r EXCEPT !.hole = "none"]
    BY <1>1 DEF SkipStaleHoles
  <2> QED BY <2>1 DEF Receiver, TimerRuns, HoleStates
<1>2. CASE ~(r.cache = <<>> \/ HeadReady(r))
  <2>1. SkipStaleHoles(r) = [r EXCEPT !.hole = "waiting"]
    BY <1>2 DEF SkipStaleHoles
  <2>2. r.cache # <<>> /\ IsHole(r.cache[1])
    BY <1>2 DEF HeadReady
  <2>3. SkipStaleHoles(r).cache = r.cache /\ SkipStaleHoles(r).last = r.last
        /\ SkipStaleHoles(r) \in Receiver /\ SkipStaleHoles(r).hole = "waiting"
    BY <2>1 DEF Receiver, HoleStates
  <2> QED BY <1>2, <2>2, <2>3 DEF TimerRuns
<1> QED BY <1>1, <1>2

\* Only the slots of the window matter.
LEMMA SameCache ==
  ASSUME NEW r, NEW q, NEW d, q \in Receiver, q.cache = r.cache, q.last = r.last, ExactWindow(r, d)
  PROVE  ExactWindow(q, d) /\ \A m \in Nat : Missing(q, d, m) <=> Missing(r, d, m)
  BY DEF ExactWindow, Window, Missing

\* check_recv hands over the message after the last one, or none.
LEMMA HandOverExact ==
  ASSUME NEW r, delivered \in Int, ExactWindow(r, delivered), r.hole # "expired", HandOver(r),
         NEW L \in Int, Len(r.cache) = L - delivered
  PROVE  /\ delivered' = delivered \/ delivered' = delivered + 1
         /\ ExactWindow(rx', delivered') /\ Len(rx'.cache) = L - delivered' /\ TimerRuns(rx')
         /\ \A m \in Nat : Missing(rx', delivered', m) => Missing(r, delivered, m)
<1> DEFINE s == SkipStaleHoles(r)
<1>1. /\ r \in Receiver /\ Window(r, L, delivered) /\ -1 <= delivered
      /\ \A m \in Nat : (Missing(r, delivered, m) /\ m <= L) => m + Redundancy <= L
  <2>1. delivered + Len(r.cache) = L
    OBVIOUS
  <2>2. Window(r, delivered + Len(r.cache), delivered) /\ -1 <= delivered
        /\ \A m \in Nat : (Missing(r, delivered, m) /\ m <= delivered + Len(r.cache)) =>
             m + Redundancy <= delivered + Len(r.cache)
    BY DEF ExactWindow
  <2>3. r \in Receiver
    BY <2>2 DEF Window
  <2> QED BY <2>1, <2>2, <2>3
<1>2. /\ s.cache = r.cache /\ s.last = r.last /\ s \in Receiver /\ TimerRuns(s)
      /\ (HeadReady(r) => s.hole = "none")
  BY <1>1, SkipExact
<1>3. HandOver(r) <=> IF HeadReady(s)
                      THEN rx' = [s EXCEPT !.cache = Tail(@)] /\ delivered' = s.cache[1].body
                      ELSE rx' = s /\ UNCHANGED delivered
  BY DEF HandOver
<1>4. delivered' \in Int /\ Window(rx', L, delivered')
  BY <1>1, HandOverWindow
<1> HIDE DEF s
<1>5. r.cache \in Seq(Slot) /\ Len(r.cache) \in Nat /\ Stretch(r.cache, L)
  <2>1. Stretch(r.cache, L)
    BY <1>1, Zenon DEF Window
  <2>2. r.cache \in Seq(Slot)
    BY <2>1, Zenon DEF Stretch
  <2>3. Len(r.cache) \in Nat
    BY <2>2
  <2> QED BY <2>1, <2>2, <2>3
<1>6. CASE ~HeadReady(s)
  <2>1. rx' = s /\ delivered' = delivered
    BY <1>3, <1>6
  <2>2. rx'.cache = r.cache /\ rx'.last = r.last /\ rx' \in Receiver /\ TimerRuns(rx')
    BY <1>2, <2>1
  <2>3. ExactWindow(rx', delivered') /\ \A m \in Nat : Missing(rx', delivered', m) <=> Missing(r, delivered, m)
    BY <2>1, <2>2, SameCache
  <2> QED BY <2>1, <2>2, <2>3
<1>7. CASE HeadReady(s)
  <2> DEFINE t == Tail(r.cache)
  <2>1. rx' = [s EXCEPT !.cache = t] /\ delivered' = r.cache[1].body
    BY <1>2, <1>3, <1>7
  <2>2. r.cache # <<>> /\ ~IsHole(r.cache[1]) /\ HeadReady(r)
    BY <1>2, <1>7 DEF HeadReady
  <2>3. 1 \in 1 .. Len(r.cache)
    BY <1>5, <2>2
  <2>4. r.cache[1].body \in {Hole, L - Len(r.cache) + 1}
    BY <1>5, <2>3 DEF Stretch
  <2>5. delivered' = L - Len(r.cache) + 1
    BY <2>1, <2>2, <2>4 DEF IsHole
  <2>6. delivered' = delivered + 1
    BY <1>5, <2>5
  <2>7. Len(t) = Len(r.cache) - 1 /\ \A i \in 1 .. Len(t) : t[i] = r.cache[i + 1]
    BY <1>5, <2>2, HeadTailProperties
  <2> HIDE DEF t
  <2>8. rx'.cache = t /\ rx'.hole = "none"
    BY <1>2, <2>1, <2>2 DEF Receiver
  <2>9. Len(rx'.cache) = L - delivered' /\ delivered' + Len(rx'.cache) = L
    BY <1>4, <1>5, <2>6, <2>7, <2>8
  <2>10. ASSUME NEW m \in Nat, Missing(rx', delivered', m) PROVE Missing(r, delivered, m)
    <3>1. delivered' < m /\ (m <= L => IsHole(t[m - delivered']))
      BY <2>8, <2>9, <2>10 DEF Missing
    <3>2. delivered < m
      BY <2>6, <3>1
    <3>3. ASSUME m <= L PROVE IsHole(r.cache[m - delivered])
      <4>1. PICK i \in 1 .. Len(t) : i = m - delivered'
        <5>1. Len(t) = L - delivered' /\ delivered' < m /\ delivered' \in Int
          BY <1>4, <2>8, <2>9, <3>1
        <5>2. \A e \in Int : e < m => m - e \in 1 .. L - e
          BY <3>3
        <5>3. m - delivered' \in 1 .. Len(t)
          BY <5>1, <5>2, Zenon
        <5> QED BY <5>3
      <4>2. i + 1 = m - delivered
        BY <2>6, <4>1
      <4>3. IsHole(t[i]) /\ t[i] = r.cache[i + 1]
        BY <2>7, <3>1, <3>3, <4>1
      <4> QED BY <4>2, <4>3
    <3>4. delivered + Len(r.cache) = L
      BY <1>5
    <3> QED BY <3>2, <3>3, <3>4 DEF Missing
  <2>11. \A m \in Nat : (Missing(rx', delivered', m) /\ m <= L) => m + Redundancy <= L
    BY <1>1, <2>10
  <2>12. ExactWindow(rx', delivered')
    <3>1. -1 <= delivered'
      BY <1>1, <2>6
    <3> QED BY <1>4, <2>9, <2>11, <3>1 DEF ExactWindow
  <2>13. TimerRuns(rx')
    BY <2>8 DEF TimerRuns
  <2> QED BY <2>6, <2>9, <2>10, <2>12, <2>13
<1> QED BY <1>6, <1>7

\* A bundle that is sent repeats Redundancy messages, or all there are.
LEMMA BundleExact ==
  ASSUME LossesCovered, NEW c, NEW s \in Nat, Outgoing(c, s), Len(c) >= Redundancy \/ Len(c) = s,
         NEW limit \in Nat, Redundancy <= limit, NEW fit \in FitCounts
  PROVE  Bundle(c, limit, fit) # <<>> =>
           BundleAt(Bundle(c, limit, fit), s - 1) /\ LongBundle(Bundle(c, limit, fit))
<1> DEFINE k == Min({limit, fit, Len(c)})
           b == Bundle(c, limit, fit)
<1>1. c \in Seq(MessageType) /\ Len(c) \in Nat /\ fit \in Nat /\ Redundancy \in Nat /\ Redundancy <= fit
  BY CoveredNumbers, KMessageAssumption DEF Outgoing, LossesCovered
<1>2. k \in {limit, fit, Len(c)} /\ k <= Len(c)
  <2>1. {limit, fit, Len(c)} \subseteq Nat /\ {limit, fit, Len(c)} # {}
    BY <1>1
  <2> QED BY <2>1, LeastOfSet
<1>3. b = [i \in 1 .. k |-> c[Len(c) - i + 1]]
  BY DEF Bundle
<1>4. BundleAt(b, s - 1) \/ b = <<>>
  BY <1>1, BundleOfOutgoing
<1> HIDE DEF k, b
<1>5. Len(b) = k
  BY <1>1, <1>2, <1>3
<1>6. ASSUME BundleAt(b, s - 1) PROVE LongBundle(b)
  <2>1. b[1].body = s - 1
    BY <1>6, BundleNewest
  <2>2. k >= Redundancy \/ k = s
    BY <1>1, <1>2
  <2> QED BY <1>5, <2>1, <2>2 DEF LongBundle
<1>7. b # <<>> => BundleAt(b, s - 1) /\ LongBundle(b)
  BY <1>4, <1>6
<1> QED BY <1>7 DEF b

\* A bundle whose newest message is n carries the Redundancy messages up to n.
LEMMA Carries ==
  ASSUME LossesCovered, NEW b, NEW n \in Nat, BundleAt(b, n), LongBundle(b),
         NEW m \in Nat, m <= n, n <= m + MaxLossRun
  PROVE  n - Len(b) < m /\ \E u \in DOMAIN b : b[u].serial = Serial(m)
<1>1. Redundancy \in Nat /\ MaxLossRun \in Nat /\ MaxLossRun < Redundancy
  BY CoveredNumbers
<1>2. b \in Seq(MessageType) /\ Len(b) \in Nat
  BY DEF BundleAt
<1>3. Len(b) >= Redundancy \/ Len(b) = n + 1
  BY BundleNewest DEF LongBundle
<1>4. n - Len(b) < m
  BY <1>1, <1>2, <1>3
<1>5. PICK u \in 1 .. Len(b) : u = n - m + 1
  BY <1>2, <1>4
<1>6. PICK w \in Nat : w = n - u + 1 /\ b[u] = Msg(w)
  BY DEF BundleAt
<1>7. w = m
  BY <1>5, <1>6
<1>8. u \in DOMAIN b /\ b[u].serial = Serial(m)
  BY <1>2, <1>6, <1>7 DEF Msg
<1> QED BY <1>4, <1>8

\* What is coming stays so while the network keeps its bundles.
LEMMA ComingStays ==
  ASSUME NEW S, NEW T, NEW gone, NEW s, NEW m, StillComing(S, gone, s, m),
         \A n \in m .. m + MaxLossRun : Heard(S, n) => Heard(T, n)
  PROVE  StillComing(T, gone, s, m)
  BY DEF StillComing

\* One more bundle with the newest message.
LEMMA ComingSent ==
  ASSUME LossesCovered, NEW S, NEW T, NEW gone, NEW s \in Nat, NEW m \in Nat, m <= s,
         m < s => StillComing(S, gone, s, m),
         \A n \in Nat : Heard(S, n) => Heard(T, n), Heard(T, s)
  PROVE  StillComing(T, gone, s + 1, m)
<1>1. MaxLossRun \in Nat /\ MaxLag \in Nat
  BY CoveredNumbers
<1>2. ASSUME s + 1 <= m + MaxLag + MaxLossRun + 1, NEW n \in m .. m + MaxLossRun, n < s + 1
      PROVE  Heard(T, n) \/ n \in gone
  <2>1. CASE n = s
    BY <2>1
  <2>2. CASE n # s
    <3>1. n < s /\ m < s /\ s <= m + MaxLag + MaxLossRun + 1 /\ n \in Nat
      BY <1>1, <1>2, <2>2
    <3>2. Heard(S, n) \/ n \in gone
      BY <3>1 DEF StillComing
    <3> QED BY <3>1, <3>2
  <2> QED BY <2>1, <2>2
<1>3. ASSUME m + MaxLossRun < s + 1
      PROVE  \E n \in m .. m + MaxLossRun : Heard(T, n)
  <2>1. CASE m + MaxLossRun = s
    <3>1. s \in m .. m + MaxLossRun
      BY <1>1, <2>1
    <3> QED BY <3>1
  <2>2. CASE m + MaxLossRun # s
    <3>1. m + MaxLossRun < s /\ m < s
      BY <1>1, <1>3, <2>2
    <3>2. PICK n \in m .. m + MaxLossRun : Heard(S, n)
      BY <3>1 DEF StillComing
    <3>3. n \in Nat
      BY <1>1
    <3> QED BY <3>2, <3>3
  <2> QED BY <2>1, <2>2
<1> QED BY <1>2, <1>3 DEF StillComing

\* A bundle lost: the network never loses all that carry one message.
LEMMA ComingLost ==
  ASSUME LossesCovered, IInv, NEW b \in net, Lose(b), NEW m \in Nat, StillComing(net, lost, sent, m)
  PROVE  StillComing(net', lost', sent, m)
<1> DEFINE gone == lost \cup {b[1].body}
<1>1. /\ MaxLossRun \in Nat /\ MaxLag \in Nat /\ MaxLossRun < MaxMsgs /\ sent \in Nat /\ InFlight(net, sent)
      /\ lost \subseteq Nat
  BY CoveredNumbers DEF IInv, TypeOK
<1>2. /\ \A n \in gone : ~(n .. n + MaxLossRun \subseteq gone)
      /\ lost' = {n \in gone : n + MaxLag + MaxLossRun + 1 >= sent}
      /\ net' = net \ {b}
  BY <1>1 DEF Lose
<1>3. gone \subseteq Nat
  BY <1>1, BundleNewest DEF InFlight
<1>4. \A n : Heard(net, n) => (Heard(net', n) \/ n = b[1].body)
  BY <1>2 DEF Heard
<1>5. \A n : (Heard(net, n) /\ n \notin gone) => Heard(net', n)
  BY <1>4
<1>6. \A n \in Nat : Heard(net, n) => sent <= n + MaxLag + 1
  BY <1>1, BundleNewest DEF InFlight, Heard
<1>7. \A n : (Heard(net, n) \/ n \in lost) => (Heard(net', n) \/ n \in gone)
  BY <1>4
<1> HIDE DEF gone
<1>8. ASSUME sent <= m + MaxLag + MaxLossRun + 1, NEW n \in m .. m + MaxLossRun, n < sent
      PROVE  Heard(net', n) \/ n \in lost'
  <2>1. Heard(net', n) \/ n \in gone
    BY <1>7, <1>8 DEF StillComing
  <2>2. n + MaxLag + MaxLossRun + 1 >= sent
    BY <1>1, <1>8
  <2> QED BY <1>2, <2>1, <2>2
<1>9. ASSUME m + MaxLossRun < sent
      PROVE  \E n \in m .. m + MaxLossRun : Heard(net', n)
  <2>1. sent <= m + MaxLag + MaxLossRun + 1
    <3>1. PICK n \in m .. m + MaxLossRun : Heard(net, n)
      BY <1>9 DEF StillComing
    <3>2. n \in Nat /\ n <= m + MaxLossRun
      BY <1>1
    <3>3. sent <= n + MaxLag + 1
      BY <1>6, <3>1, <3>2
    <3> QED BY <1>1, <3>2, <3>3
  <2>2. \A n \in m .. m + MaxLossRun : Heard(net, n) \/ n \in lost
    <3>1. \A n \in m .. m + MaxLossRun : n < sent
      BY <1>1, <1>9
    <3> QED BY <2>1, <3>1 DEF StillComing
  <2>3. PICK n \in m .. m + MaxLossRun : n \notin gone
    <3>1. CASE m \in gone
      BY <1>2, <3>1
    <3>2. CASE m \notin gone
      <4>1. m \in m .. m + MaxLossRun
        BY <1>1
      <4> QED BY <3>2, <4>1
    <3> QED BY <3>1, <3>2
  <2>4. Heard(net, n)
    BY <2>2, <2>3 DEF gone
  <2> QED BY <1>5, <2>3, <2>4
<1> QED BY <1>8, <1>9 DEF StillComing

\* At the start nothing is missing.
LEMMA InitNoSkip == ASSUME LossesCovered PROVE Init => NoSkipInv
<1> SUFFICES ASSUME Init PROVE NoSkipInv
  OBVIOUS
<1> DEFINE k == Min({First, CacheSize - 1})
<1>1. IInv
  BY InitIInv
<1>2. First \in Nat /\ CacheSize - 1 \in Nat /\ Redundancy \in Nat /\ Redundancy <= CacheSize - 1
  BY CoveredNumbers, KMessageAssumption
<1>3. k \in {First, CacheSize - 1} /\ k <= First /\ k <= CacheSize - 1
  BY <1>2, MinOfTwo
<1>4. outCache = [i \in 1 .. k |-> Msg(First - k + i - 1)] /\ sent = First
  BY DEF Init
<1> HIDE DEF k
<1>5. Len(outCache) = k
  BY <1>2, <1>3, <1>4
<1>6. Len(outCache) >= Redundancy \/ Len(outCache) = sent
  BY <1>2, <1>3, <1>4, <1>5
<1>7. /\ rx = [last |-> Serial(First - 1), cache |-> <<>>, hole |-> "none"]
      /\ delivered = First - 1 /\ net = {}
  BY DEF Init
<1>8. rx.cache = <<>> /\ Len(rx.cache) = 0 /\ rx.hole = "none" /\ rx.last = Serial(First - 1)
  BY <1>7
<1>9. \A m \in Nat : ~(Missing(rx, delivered, m) /\ m < sent) /\ ~(Missing(rx, delivered, m) /\ m <= delivered + Len(rx.cache))
  BY <1>2, <1>4, <1>7, <1>8 DEF Missing
<1>10. delivered \in Int /\ delivered + Len(rx.cache) = delivered /\ -1 <= delivered /\ delivered < sent
  BY <1>2, <1>4, <1>7, <1>8
<1>11. Window(rx, delivered, delivered)
  <2>1. rx \in Receiver
    BY <1>1 DEF IInv, TypeOK
  <2>2. Stretch(rx.cache, delivered)
    <3>1. <<>> \in Seq(Slot) /\ Len(<<>>) = 0 /\ CacheSize \in Nat
      BY KMessageAssumption
    <3> QED BY <1>8, <3>1 DEF Stretch
  <2>3. delivered <= delivered - Len(rx.cache)
    BY <1>8, <1>10
  <2> QED BY <1>7, <1>8, <1>10, <2>1, <2>2, <2>3 DEF Window
<1>12. ExactWindow(rx, delivered)
  BY <1>9, <1>10, <1>11 DEF ExactWindow
<1>13. TimerRuns(rx)
  BY <1>8 DEF TimerRuns
<1> QED BY <1>1, <1>6, <1>7, <1>9, <1>10, <1>12, <1>13 DEF NoSkipInv

\* What a step of the receiver owes.
LEMMA ReceiverNoSkip ==
  ASSUME NoSkipInv, IInv', UNCHANGED <<sent, outCache, lost>>, net' \subseteq net,
         ExactWindow(rx', delivered'), delivered' + Len(rx'.cache) < sent, TimerRuns(rx'),
         \A m \in Nat : Missing(rx', delivered', m) =>
           /\ Missing(rx, delivered, m)
           /\ \A n \in m .. m + MaxLossRun : Heard(net, n) => Heard(net', n)
  PROVE  NoSkipInv'
<1>1. ASSUME NEW m \in Nat, m < sent, Missing(rx', delivered', m)
      PROVE  StillComing(net', lost', sent', m)
  <2>1. StillComing(net, lost, sent, m) /\ \A n \in m .. m + MaxLossRun : Heard(net, n) => Heard(net', n)
    BY <1>1 DEF NoSkipInv
  <2>2. StillComing(net', lost, sent, m)
    BY <2>1, ComingStays
  <2> QED BY <2>2
<1>2. \A b \in net' : LongBundle(b)
  BY DEF NoSkipInv
<1>3. Len(outCache') >= Redundancy \/ Len(outCache') = sent'
  BY DEF NoSkipInv
<1> QED BY <1>1, <1>2, <1>3 DEF NoSkipInv

\* The window as the steps see it.
LEMMA NoSkipWindow ==
  ASSUME LossesCovered, NoSkipInv
  PROVE  /\ delivered \in Int /\ -1 <= delivered /\ rx \in Receiver /\ rx.hole # "expired"
         /\ \E L \in Int : Len(rx.cache) = L - delivered /\ L < sent
<1>1. ExactWindow(rx, delivered) /\ delivered + Len(rx.cache) < sent /\ TimerRuns(rx)
  BY DEF NoSkipInv
<1>2. delivered \in Int /\ -1 <= delivered /\ Window(rx, delivered + Len(rx.cache), delivered)
  BY <1>1 DEF ExactWindow
<1>3. rx \in Receiver /\ rx.cache \in Seq(Slot)
  BY <1>2 DEF Window, Receiver
<1>4. rx.hole # "expired"
  BY <1>1 DEF TimerRuns
<1>5. Len(rx.cache) \in Nat
  BY <1>3
<1>6. \E L \in Int : Len(rx.cache) = L - delivered /\ L < sent
  <2>1. PICK L \in Int : L = delivered + Len(rx.cache)
    BY <1>2, <1>5
  <2>2. Len(rx.cache) = L - delivered /\ L < sent
    BY <1>1, <1>2, <1>5, <2>1
  <2> QED BY <2>2
<1> QED BY <1>2, <1>3, <1>4, <1>6

\* Sending puts the newest message, with the ones before it, on its way.
LEMMA SendNoSkip == ASSUME LossesCovered, NoSkipInv, Send PROVE NoSkipInv'
<1>1. IInv /\ IInv'
  BY SendStep DEF NoSkipInv
<1>2. /\ sent' = sent + 1 /\ rx' = rx /\ delivered' = delivered /\ lost' = lost
      /\ outCache' = Append(IF Len(outCache) = CacheSize - 1 THEN Tail(outCache) ELSE outCache, Msg(sent))
  BY DEF Send
<1>3. PICK fit \in FitCounts : Transmit(Bundle(outCache', Redundancy, fit))
  BY DEF Send
<1>4. /\ sent \in Nat /\ Redundancy \in Nat /\ CacheSize \in Nat /\ Redundancy < CacheSize /\ MaxLossRun \in Nat
      /\ 1 < CacheSize
  <2>1. sent \in Nat
    BY <1>1 DEF IInv, TypeOK
  <2>2. /\ Redundancy \in Nat /\ CacheSize \in Nat /\ Redundancy < CacheSize /\ MaxLossRun \in Nat
        /\ MaxLossRun < Redundancy
    BY CoveredNumbers
  <2> QED BY <2>1, <2>2
<1>5. Outgoing(outCache', sent + 1)
  <2>1. Outgoing(outCache', sent')
    BY <1>1 DEF IInv
  <2> QED BY <1>2, <2>1
<1>6. Len(outCache') >= Redundancy \/ Len(outCache') = sent + 1
  <2>1. outCache \in Seq(MessageType) /\ Len(outCache) \in Nat
    BY <1>1 DEF IInv, TypeOK
  <2>2. CASE Len(outCache) = CacheSize - 1
    <3>1. outCache # <<>>
      BY <1>4, <2>1, <2>2
    <3>2. Tail(outCache) \in Seq(MessageType) /\ Len(Tail(outCache)) = Len(outCache) - 1
      BY <2>1, <3>1, HeadTailProperties
    <3>3. Len(outCache') = CacheSize - 1
      <4>1. outCache' = Append(Tail(outCache), Msg(sent))
        BY <1>2, <2>2
      <4> QED BY <1>4, <2>1, <2>2, <3>2, <4>1
    <3> QED BY <1>4, <3>3
  <2>3. CASE Len(outCache) # CacheSize - 1
    <3>1. Len(outCache') = Len(outCache) + 1
      BY <1>2, <2>1, <2>3
    <3>2. Len(outCache) >= Redundancy \/ Len(outCache) = sent
      BY DEF NoSkipInv
    <3> QED BY <1>4, <2>1, <3>1, <3>2
  <2> QED BY <2>2, <2>3
<1> DEFINE b == Bundle(outCache', Redundancy, fit)
<1>7. b # <<>> => BundleAt(b, sent) /\ LongBundle(b)
  <2>1. sent + 1 \in Nat /\ sent + 1 - 1 = sent
    BY <1>4
  <2>2. b # <<>> => BundleAt(b, sent + 1 - 1) /\ LongBundle(b)
    BY <1>4, <1>5, <1>6, <2>1, BundleExact
  <2> QED BY <2>1, <2>2
<1>8. b # <<>>
  <2> DEFINE n == Min({Redundancy, fit, Len(outCache')})
  <2>1. fit \in Nat /\ Redundancy <= fit /\ 0 < Redundancy
    BY <1>4, CoveredNumbers, KMessageAssumption DEF LossesCovered
  <2>2. outCache' \in Seq(MessageType) /\ Len(outCache') \in Nat
    BY <1>5 DEF Outgoing
  <2>3. n \in {Redundancy, fit, Len(outCache')}
    <3>1. {Redundancy, fit, Len(outCache')} \subseteq Nat /\ {Redundancy, fit, Len(outCache')} # {}
      BY <1>4, <2>1, <2>2
    <3> QED BY <3>1, LeastOfSet
  <2>4. b = [i \in 1 .. n |-> outCache'[Len(outCache') - i + 1]]
    BY DEF Bundle
  <2> HIDE DEF n, b
  <2>5. n \in Nat /\ n > 0
    BY <1>4, <1>6, <2>1, <2>2, <2>3
  <2>6. Len(b) = n
    BY <2>4, <2>5
  <2>7. Len(<<>>) = 0
    OBVIOUS
  <2> QED BY <2>5, <2>6, <2>7
<1>9. net' = net \cup {b}
  BY <1>3, <1>8 DEF Transmit
<1> HIDE DEF b
<1>10. (\A n \in Nat : Heard(net, n) => Heard(net', n)) /\ Heard(net', sent)
  BY <1>7, <1>8, <1>9, BundleNewest DEF Heard
<1>11. \A c \in net' : LongBundle(c)
  BY <1>7, <1>8, <1>9 DEF NoSkipInv
<1>12. ASSUME NEW m \in Nat, m < sent + 1, Missing(rx, delivered, m)
       PROVE  StillComing(net', lost, sent + 1, m)
  <2>1. m <= sent
    BY <1>4, <1>12
  <2>2. m < sent => StillComing(net, lost, sent, m)
    BY <1>12 DEF NoSkipInv
  <2> QED BY <1>4, <1>10, <2>1, <2>2, ComingSent
<1>13. /\ ExactWindow(rx', delivered') /\ delivered' + Len(rx'.cache) < sent' /\ TimerRuns(rx')
  <2>1. delivered + Len(rx.cache) < sent + 1
    <3>1. delivered \in Int /\ Len(rx.cache) \in Nat /\ delivered + Len(rx.cache) < sent
      BY <1>1 DEF NoSkipInv, IInv, TypeOK, Receiver
    <3> QED BY <1>4, <3>1
  <2> QED BY <1>2, <2>1 DEF NoSkipInv
<1>14. \A m \in Nat : (m < sent' /\ Missing(rx', delivered', m)) => StillComing(net', lost', sent', m)
  BY <1>2, <1>12
<1> QED BY <1>1, <1>2, <1>6, <1>11, <1>13, <1>14 DEF NoSkipInv

\* resend_message only adds a bundle.
LEMMA ResendNoSkip == ASSUME LossesCovered, NoSkipInv, Resend PROVE NoSkipInv'
<1>1. IInv /\ IInv'
  BY ResendStep DEF NoSkipInv
<1>2. sent' = sent /\ outCache' = outCache /\ rx' = rx /\ delivered' = delivered /\ lost' = lost
  BY DEF Resend
<1>3. PICK fit \in FitCounts : Transmit(Bundle(outCache, ResendCount, fit))
  BY DEF Resend
<1> DEFINE b == Bundle(outCache, ResendCount, fit)
<1>4. b # <<>> => LongBundle(b)
  <2>1. sent \in Nat /\ Outgoing(outCache, sent) /\ ResendCount \in Nat /\ Redundancy <= ResendCount
        /\ (Len(outCache) >= Redundancy \/ Len(outCache) = sent)
    BY <1>1, CoveredNumbers DEF IInv, TypeOK, NoSkipInv, LossesCovered
  <2> QED BY <2>1, BundleExact
<1>5. net' = net \/ (b # <<>> /\ net' = net \cup {b})
  BY <1>3 DEF Transmit
<1> HIDE DEF b
<1>6. \A n : Heard(net, n) => Heard(net', n)
  BY <1>5 DEF Heard
<1>7. \A c \in net' : LongBundle(c)
  BY <1>4, <1>5 DEF NoSkipInv
<1>8. ASSUME NEW m \in Nat, m < sent, Missing(rx, delivered, m)
      PROVE  StillComing(net', lost, sent, m)
  <2>1. StillComing(net, lost, sent, m)
    BY <1>8 DEF NoSkipInv
  <2> QED BY <1>6, <2>1, ComingStays
<1> QED BY <1>1, <1>2, <1>7, <1>8 DEF NoSkipInv

\* A loss leaves another bundle with each message the receiver misses.
LEMMA LoseNoSkip == ASSUME LossesCovered, NoSkipInv, NEW b \in net, Lose(b) PROVE NoSkipInv'
<1>1. IInv /\ IInv'
  BY LoseStep DEF NoSkipInv
<1>2. UNCHANGED <<sent, outCache, rx, delivered>> /\ net' = net \ {b}
  BY DEF Lose
<1>3. ASSUME NEW m \in Nat, m < sent, Missing(rx, delivered, m)
      PROVE  StillComing(net', lost', sent, m)
  <2>1. StillComing(net, lost, sent, m)
    BY <1>3 DEF NoSkipInv
  <2> QED BY <1>1, <2>1, ComingLost
<1> QED BY <1>1, <1>2, <1>3 DEF NoSkipInv

\* check_recv with a datagram: what it brings is no longer missing, and the next message is handed over.
LEMMA ReceiveBundleNoSkip ==
  ASSUME LossesCovered, NoSkipInv, NEW b \in net, ReceiveBundle(b)
  PROVE  NoSkipInv' /\ (delivered' = delivered \/ delivered' = delivered + 1)
<1> DEFINE s == SkipStaleHoles(rx)
           a == Arrive(s, b)
<1>1. IInv /\ IInv' /\ ExactWindow(rx, delivered) /\ LongBundle(b)
  BY ReceiveBundleStep DEF NoSkipInv
<1>2. delivered \in Int /\ rx \in Receiver /\ rx.hole # "expired"
  BY NoSkipWindow
<1>3. PICK L \in Int : Len(rx.cache) = L - delivered /\ L < sent
  BY NoSkipWindow
<1>4. s.cache = rx.cache /\ s.last = rx.last /\ s \in Receiver /\ TimerRuns(s)
  BY <1>2, SkipExact
<1>5. HandOver(a) /\ net' \in {net, net \ {b}} /\ UNCHANGED <<sent, outCache, lost>>
  BY DEF ReceiveBundle
<1>6. PICK N \in Nat : BundleAt(b, N) /\ N < sent /\ sent <= N + MaxLag + 1
  BY <1>1 DEF IInv, InFlight
<1> HIDE DEF s
<1>7. ExactWindow(s, delivered) /\ \A m \in Nat : Missing(s, delivered, m) <=> Missing(rx, delivered, m)
  BY <1>1, <1>4, SameCache
<1>8. N - delivered <= MaxAhead /\ L - N <= MaxLag
  <2>1. sent \in Nat /\ MaxAhead \in Nat /\ MaxLag \in Nat /\ sent - delivered <= MaxAhead + 1
    BY <1>1, CoveredNumbers DEF IInv, TypeOK
  <2> QED BY <1>2, <1>3, <1>6, <2>1
<1>9. Len(s.cache) = L - delivered
  BY <1>3, <1>4
<1>10. /\ ExactWindow(a, delivered) /\ a.hole = s.hole
       /\ Len(a.cache) = L - delivered \/ Len(a.cache) = N - delivered
       /\ \A m \in Nat : Missing(a, delivered, m) =>
            Missing(s, delivered, m) /\ ~(N - Len(b) < m /\ m <= N)
  BY <1>1, <1>2, <1>6, <1>7, <1>8, <1>9, ArriveExact
<1> HIDE DEF a
<1>11. PICK K \in Int : Len(a.cache) = K - delivered /\ K < sent
  BY <1>3, <1>6, <1>10
<1>12. a.hole # "expired"
  BY <1>4, <1>10 DEF TimerRuns
<1>13. /\ delivered' = delivered \/ delivered' = delivered + 1
       /\ ExactWindow(rx', delivered') /\ Len(rx'.cache) = K - delivered' /\ TimerRuns(rx')
       /\ \A m \in Nat : Missing(rx', delivered', m) => Missing(a, delivered, m)
  BY <1>2, <1>5, <1>10, <1>11, <1>12, HandOverExact
<1>14. delivered' + Len(rx'.cache) < sent
  <2>1. delivered' \in Int
    BY <1>2, <1>13
  <2> QED BY <1>11, <1>13, <2>1
<1>15. ASSUME NEW m \in Nat, Missing(rx', delivered', m)
       PROVE  /\ Missing(rx, delivered, m)
              /\ \A n \in m .. m + MaxLossRun : Heard(net, n) => Heard(net', n)
  <2>1. Missing(rx, delivered, m) /\ ~(N - Len(b) < m /\ m <= N)
    BY <1>7, <1>10, <1>13, <1>15
  <2>2. ASSUME NEW n \in m .. m + MaxLossRun, Heard(net, n) PROVE Heard(net', n)
    <3>1. PICK c \in net : c[1].body = n
      BY <2>2 DEF Heard
    <3>2. c # b
      <4>1. SUFFICES ASSUME c = b PROVE FALSE
        OBVIOUS
      <4>2. n = N
        BY <1>6, <3>1, <4>1, BundleNewest
      <4>3. MaxLossRun \in Nat
        BY CoveredNumbers
      <4>4. m <= N /\ N <= m + MaxLossRun
        BY <4>2, <4>3
      <4>5. N - Len(b) < m
        BY <1>1, <1>6, <4>4, Carries
      <4> QED BY <2>1, <4>4, <4>5
    <3>3. c \in net'
      BY <1>5, <3>2
    <3> QED BY <3>1, <3>3 DEF Heard
  <2> QED BY <2>1, <2>2
<1>16. net' \subseteq net
  BY <1>5
<1>17. NoSkipInv'
  BY <1>1, <1>5, <1>13, <1>14, <1>15, <1>16, ReceiverNoSkip
<1> QED BY <1>13, <1>17

\* check_recv without one hands over what is there.
LEMMA ReceiveNothingNoSkip ==
  ASSUME LossesCovered, NoSkipInv, ReceiveNothing
  PROVE  NoSkipInv' /\ (delivered' = delivered \/ delivered' = delivered + 1)
<1> DEFINE s == SkipStaleHoles(rx)
<1>1. IInv /\ IInv' /\ ExactWindow(rx, delivered)
  BY ReceiveNothingStep DEF NoSkipInv
<1>2. delivered \in Int /\ rx \in Receiver /\ rx.hole # "expired"
  BY NoSkipWindow
<1>3. PICK L \in Int : Len(rx.cache) = L - delivered /\ L < sent
  BY NoSkipWindow
<1>4. s.cache = rx.cache /\ s.last = rx.last /\ s \in Receiver /\ TimerRuns(s)
  BY <1>2, SkipExact
<1>5. HandOver(s) /\ net' = net /\ UNCHANGED <<sent, outCache, lost>>
  BY DEF ReceiveNothing
<1> HIDE DEF s
<1>6. ExactWindow(s, delivered) /\ \A m \in Nat : Missing(s, delivered, m) <=> Missing(rx, delivered, m)
  BY <1>1, <1>4, SameCache
<1>7. Len(s.cache) = L - delivered /\ s.hole # "expired"
  BY <1>3, <1>4 DEF TimerRuns
<1>8. /\ delivered' = delivered \/ delivered' = delivered + 1
      /\ ExactWindow(rx', delivered') /\ Len(rx'.cache) = L - delivered' /\ TimerRuns(rx')
      /\ \A m \in Nat : Missing(rx', delivered', m) => Missing(s, delivered, m)
  BY <1>2, <1>3, <1>5, <1>6, <1>7, HandOverExact
<1>9. delivered' + Len(rx'.cache) < sent
  <2>1. delivered' \in Int
    BY <1>2, <1>8
  <2> QED BY <1>3, <1>8, <2>1
<1>10. NoSkipInv'
  BY <1>1, <1>5, <1>6, <1>8, <1>9, ReceiverNoSkip
<1> QED BY <1>8, <1>10

\* has_data() leaves the window alone.
LEMMA HasDataNoSkip ==
  ASSUME LossesCovered, NoSkipInv, HasData PROVE NoSkipInv'
<1>1. IInv /\ IInv' /\ ExactWindow(rx, delivered) /\ delivered + Len(rx.cache) < sent
  BY HasDataStep DEF NoSkipInv
<1>2. rx \in Receiver /\ rx.hole # "expired"
  BY NoSkipWindow
<1>3. UNCHANGED <<sent, outCache, lost>> /\ net' = net /\ delivered' = delivered /\ rx' = SkipStaleHoles(rx)
  BY DEF HasData
<1>4. rx'.cache = rx.cache /\ rx'.last = rx.last /\ rx' \in Receiver /\ TimerRuns(rx')
  BY <1>2, <1>3, SkipExact
<1>5. ExactWindow(rx', delivered) /\ \A m \in Nat : Missing(rx', delivered, m) <=> Missing(rx, delivered, m)
  BY <1>1, <1>4, SameCache
<1> QED BY <1>1, <1>3, <1>4, <1>5, ReceiverNoSkip

\* The hole timer of a patient receiver does not run out: the message it waits for is on its way.
LEMMA HoleTimeoutNoSkip == ASSUME LossesCovered, NoSkipInv, HoleTimeout PROVE FALSE
<1>1. rx.hole = "waiting" /\ \A b \in net : \A u \in DOMAIN b : b[u].serial # rx.cache[1].serial
  BY DEF HoleTimeout, LossesCovered
<1>2. rx.cache # <<>> /\ IsHole(rx.cache[1])
  BY <1>1 DEF NoSkipInv, TimerRuns
<1>3. delivered \in Int /\ -1 <= delivered /\ rx \in Receiver
  BY NoSkipWindow
<1>4. PICK L \in Int : Len(rx.cache) = L - delivered /\ L < sent
  BY NoSkipWindow
<1>5. rx.cache \in Seq(Slot) /\ 1 \in 1 .. Len(rx.cache)
  BY <1>2, <1>3 DEF Receiver
<1>6. PICK m \in Nat : m = delivered + 1
  BY <1>3
<1>7. m <= delivered + Len(rx.cache) /\ m - delivered = 1 /\ delivered + Len(rx.cache) = L
  BY <1>3, <1>4, <1>5, <1>6
<1>8. Missing(rx, delivered, m)
  BY <1>2, <1>3, <1>6, <1>7 DEF Missing
<1>9. m + Redundancy <= L
  BY <1>7, <1>8 DEF NoSkipInv, ExactWindow
<1>10. /\ Redundancy \in Nat /\ MaxLossRun \in Nat /\ MaxLossRun < Redundancy /\ sent \in Nat
  BY CoveredNumbers DEF NoSkipInv, IInv, TypeOK
<1>11. m < sent /\ m + MaxLossRun < sent
  BY <1>4, <1>9, <1>10
<1>12. PICK n \in m .. m + MaxLossRun : Heard(net, n)
  BY <1>8, <1>11 DEF NoSkipInv, StillComing
<1>13. PICK b \in net : b[1].body = n
  BY <1>12 DEF Heard
<1>14. PICK N \in Nat : BundleAt(b, N)
  BY DEF NoSkipInv, IInv, InFlight
<1>15. N = n
  BY <1>13, <1>14, BundleNewest
<1>16. m <= N /\ N <= m + MaxLossRun
  BY <1>10, <1>15
<1>17. PICK u \in DOMAIN b : b[u].serial = Serial(m)
  BY <1>14, <1>16, Carries DEF NoSkipInv
<1>18. rx.cache[1].serial = Serial(m)
  <2>1. Stretch(rx.cache, delivered + Len(rx.cache))
    BY Zenon DEF NoSkipInv, ExactWindow, Window
  <2>2. Stretch(rx.cache, L)
    BY <1>7, <2>1, Zenon
  <2>3. rx.cache[1].serial = Serial(L - Len(rx.cache) + 1)
    BY <1>5, <2>2, Zenon DEF Stretch
  <2>4. L - Len(rx.cache) + 1 = m
    BY <1>3, <1>4, <1>6
  <2> QED BY <2>3, <2>4
<1> QED BY <1>1, <1>17, <1>18

\* Steps that do not touch the messages.
LEMMA StutterNoSkip ==
  ASSUME NoSkipInv, CheckSockets \/ UNCHANGED vars PROVE NoSkipInv' /\ delivered' = delivered
<1>1. IInv'
  BY CheckSocketsStep, StepIInv DEF NoSkipInv
<1>2. UNCHANGED <<sent, outCache, net, lost, rx, delivered>>
  BY DEF CheckSockets, vars
<1> QED BY <1>1, <1>2 DEF NoSkipInv

\* Every step.
LEMMA NextNoSkip ==
  ASSUME LossesCovered, NoSkipInv, [Next]_vars
  PROVE  NoSkipInv' /\ (delivered' = delivered \/ delivered' = delivered + 1)
<1>1. CASE Send
  BY <1>1, SendNoSkip DEF Send
<1>2. CASE Resend
  BY <1>2, ResendNoSkip DEF Resend
<1>3. ASSUME NEW b \in net, Lose(b) PROVE NoSkipInv' /\ delivered' = delivered
  BY <1>3, LoseNoSkip DEF Lose
<1>4. CASE CheckSockets \/ UNCHANGED vars
  BY <1>4, StutterNoSkip
<1>5. CASE HasData
  BY <1>5, HasDataNoSkip DEF HasData
<1>6. ASSUME NEW b \in net, ReceiveBundle(b)
      PROVE  NoSkipInv' /\ (delivered' = delivered \/ delivered' = delivered + 1)
  BY <1>6, ReceiveBundleNoSkip
<1>7. CASE ReceiveNothing
  BY <1>7, ReceiveNothingNoSkip
<1>8. CASE HoleTimeout
  BY <1>8, HoleTimeoutNoSkip
<1> QED BY <1>1, <1>2, <1>3, <1>4, <1>5, <1>6, <1>7, <1>8 DEF Next

\* No message is skipped.  While fewer fresh bundles in a row are lost than each bundle repeats messages,
\* the buffer holds that many, the sender is less than the resync distance ahead and the hole timer
\* outlasts the network's reordering, what check_recv hands over is always the very next message: the
\* redundancy of the bundles replaces the acknowledgements the protocol does not have.
THEOREM SpecNoMessageSkipped == ASSUME LossesCovered PROVE Spec => NoMessageSkipped
<1>1. Init => NoSkipInv
  BY InitNoSkip
<1>2. NoSkipInv /\ [Next]_vars => NoSkipInv'
  BY NextNoSkip
<1>3. NoSkipInv /\ [Next]_vars => [delivered' # delivered => delivered' = delivered + 1]_vars
  BY NextNoSkip
<1> QED BY <1>1, <1>2, <1>3, PTL DEF Spec, NoMessageSkipped
=============================================================================
