--------------------------- MODULE LiveStreamProofs ---------------------------
(***************************************************************************)
(* Machine-checked proofs about both ends of a stream.                     *)
(*                                                                         *)
(* The host: the server's file is the game that is played, for any queue,  *)
(* batch and session length and any number of lost answers, repeats and    *)
(* refusals.  The records are in three places: the server's file, the      *)
(* batch that is not confirmed, and the queue.  Read in this order they    *)
(* are the session, and every step but a loss only moves a border between  *)
(* two of them.                                                            *)
(*                                                                         *)
(* The spectator: the game that is played is the one in the file, for any  *)
(* file, any chunks, rewinds and jumps.  The buffer is a stretch of the    *)
(* file, and every number the player keeps is the number of heads before   *)
(* a place in it.                                                          *)
(***************************************************************************)
EXTENDS LiveStreamProps, WatchLive, TLAPS, FiniteSetTheorems, FunctionTheorems, SequenceTheorems,
        WellFoundedInduction

Batch == [seq : Int, body : Seq(Int), end : BOOLEAN]
State == [frame : Int, offset : Int, dropped : Nat]

TypeInv ==
  /\ queue \in Seq(Int) /\ pushed \in Seq(Int)
  /\ enqueued \in Int /\ sequence \in Nat /\ session \in Nat
  /\ active \in BOOLEAN /\ ended \in BOOLEAN /\ sawEnded \in BOOLEAN
  /\ sender \in {"none", "sleep", "drain", "post", "reply"}
  /\ batch \in Batch /\ inFlight \subseteq Batch
  /\ handed \in State /\ uploading \in State
  /\ server \in [file : Seq(Int), last : Int, closed : BOOLEAN, asked : BOOLEAN, state : State]
  /\ losses \in [dropped : Nat, refused : Nat, cut : Int, asked : Nat]
  /\ active => session > 0

\* The sequence numbers tell the server what it has: of the posts on their way only the
\* unconfirmed batch is new to it.
BatchInv ==
  /\ batch # NoBatch => batch.seq = sequence
  /\ sender = "drain" => batch = NoBatch
  /\ sender \in {"post", "reply"} => batch # NoBatch
  /\ -1 <= server.last /\ server.last <= sequence
  /\ batch = NoBatch => server.last < sequence
  /\ \A post \in inFlight : post.seq > server.last => post = batch

\* Once a batch announces the end nothing is pushed or drained any more.
EndInv ==
  /\ sawEnded => ended
  /\ batch # NoBatch /\ batch.end => ended /\ Len(queue) = losses.cut
  /\ server.closed =>
       /\ ended /\ Len(queue) = losses.cut
       /\ batch = NoBatch => sender = "none" /\ sequence > 0
       /\ batch # NoBatch => batch.end /\ batch.seq <= server.last

\* Between the server's file and the queue.
Pending == IF batch # NoBatch /\ server.last < batch.seq THEN batch.body
           ELSE IF sequence = 0 /\ batch = NoBatch THEN <<Header>> ELSE <<>>

LosslessInv == Lossless => Eventual = Whole

\* The offsets count what was enqueued, and no frame is in them that was not pushed.
UpTo(frame) == {r \in Int : r <= frame}
CountInv ==
  losses.refused = 0 =>
    /\ Eventual \in Seq(UpTo(FrameOf(pushed)))
    /\ session > 0 => enqueued = Len(Eventual)

\* A state that was taken is right wherever it is, until a record is lost.
Exact(st) ==
  \A i \in DOMAIN Eventual : Eventual[i] > 0 => (i <= st.offset <=> Eventual[i] <= st.frame)
Right(st) ==
  st # NoState =>
    /\ st.dropped <= losses.dropped
    /\ losses.refused = 0 =>
         /\ st.frame <= FrameOf(pushed) /\ st.offset <= Len(Eventual)
         /\ st.dropped = losses.dropped => Exact(st)
StateInv == Right(handed) /\ Right(uploading) /\ Right(server.state)

IInv == TypeInv /\ BatchInv /\ EndInv /\ LosslessInv /\ CountInv /\ StateInv
-----------------------------------------------------------------------------
(* Sequences                                                               *)

\* What is appended to the last of three is appended to the whole.
LEMMA AppendToLast ==
  ASSUME NEW a \in Seq(Int), NEW b \in Seq(Int), NEW q \in Seq(Int), NEW r \in Int
  PROVE  a \o b \o Append(q, r) = Append(a \o b \o q, r)
<1>1. \A s, t \in Seq(Int) : s \o Append(t, r) = Append(s \o t, r)
  OBVIOUS
<1>2. a \o b \in Seq(Int)
  BY ConcatProperties
<1> QED BY <1>1, <1>2

\* Concatenation under a name of its own, that the provers leave as it is.
Cat(a, b) == a \o b

LEMMA ConcatIsAssociative ==
  ASSUME NEW S, NEW s \in Seq(S), NEW t \in Seq(S), NEW u \in Seq(S)
  PROVE  (s \o t) \o u = s \o (t \o u)
OBVIOUS

LEMMA CatAssociative == \A S : \A a, b, c \in Seq(S) : Cat(Cat(a, b), c) = Cat(a, Cat(b, c))
<1> SUFFICES ASSUME NEW S, NEW a \in Seq(S), NEW b \in Seq(S), NEW c \in Seq(S)
             PROVE  Cat(Cat(a, b), c) = Cat(a, Cat(b, c))
  OBVIOUS
<1> QED BY ConcatIsAssociative DEF Cat

LEMMA CatType == \A a, b \in Seq(Int) : Cat(a, b) \in Seq(Int)
BY ConcatProperties DEF Cat

LEMMA CatEmpty == \A a \in Seq(Int) : Cat(a, <<>>) = a /\ Cat(<<>>, a) = a
BY ConcatEmptySeq DEF Cat

LEMMA CatAppend ==
  \A a, q \in Seq(Int) : \A r \in Int : Cat(a, Append(q, r)) = Append(Cat(a, q), r)
BY DEF Cat

\* What is taken from the queue goes behind the header.
Regroups(f, h, t, l) == Cat(Cat(f, Cat(h, t)), l) = Cat(Cat(f, h), Cat(t, l))
LEMMA Regroup == \A f, h, t, l \in Seq(Int) : Regroups(f, h, t, l)
<1>1. \A a, b, c \in Seq(Int) : Cat(Cat(a, b), c) = Cat(a, Cat(b, c))
  BY CatAssociative
<1> QED BY <1>1, CatType DEF Regroups

LEMMA CutAt ==
  ASSUME NEW s \in Seq(Int), NEW n \in 0 .. Len(s)
  PROVE  SubSeq(s, 1, n) \o SubSeq(s, n + 1, Len(s)) = s
<1>1. 1 \in 1 .. Len(s) + 1 /\ n \in 1 - 1 .. Len(s) /\ Len(s) \in n .. Len(s)
  BY LenProperties
<1>2. SubSeq(s, 1, n) \o SubSeq(s, n + 1, Len(s)) = SubSeq(s, 1, Len(s))
  BY <1>1, ConcatAdjacentSubSeq
<1> QED BY <1>2, SubSeqFull

\* A sequence is in Seq(T) when, and only when, its two halves are.
LEMMA ConcatIn ==
  ASSUME NEW T, T \subseteq Int, NEW a \in Seq(Int), NEW b \in Seq(Int)
  PROVE  a \o b \in Seq(T) <=> a \in Seq(T) /\ b \in Seq(T)
<1>1. ASSUME a \in Seq(T), b \in Seq(T) PROVE a \o b \in Seq(T)
  BY <1>1, ConcatProperties
<1>2. ASSUME a \o b \in Seq(T) PROVE a \in Seq(T) /\ b \in Seq(T)
  <2> PICK m \in Nat : m = Len(a)
    BY LenProperties
  <2> PICK n \in Nat : n = Len(b)
    BY LenProperties
  <2> DEFINE c == a \o b
  <2>1. Len(c) = m + n
    BY ConcatProperties
  <2>2. \A i \in 1 .. m + n : c[i] = IF i <= m THEN a[i] ELSE b[i - m]
    BY ConcatProperties
  <2>3. \A i \in 1 .. m + n : c[i] \in T
    BY <1>2, <2>1, ElementOfSeq
  <2> HIDE DEF c
  <2>4. \A i \in 1 .. m : a[i] \in T
    BY <2>2, <2>3
  <2>5. ASSUME NEW i \in 1 .. n PROVE b[i] \in T
    <3> PICK k \in 1 .. m + n : k = i + m
      OBVIOUS
    <3>1. ~(k <= m) /\ k - m = i
      OBVIOUS
    <3>2. c[k] = b[k - m]
      BY <2>2, <3>1
    <3> QED BY <2>3, <3>1, <3>2
  <2>6. a \in [1 .. m -> Int] /\ b \in [1 .. n -> Int]
    BY LenProperties
  <2>7. a = [i \in 1 .. m |-> a[i]] /\ b = [i \in 1 .. n |-> b[i]]
    BY <2>6
  <2>8. [i \in 1 .. m |-> a[i]] \in Seq(T) /\ [i \in 1 .. n |-> b[i]] \in Seq(T)
    BY <2>4, <2>5
  <2> QED BY <2>7, <2>8
<1> QED BY <1>1, <1>2

-----------------------------------------------------------------------------
(* Frames                                                                  *)

LEMMA FrameOfType ==
  ASSUME NEW s \in Seq(Int)
  PROVE  /\ IsFiniteSet({i \in DOMAIN s : s[i] > 0})
         /\ FrameOf(s) \in Nat
<1>1. DOMAIN s = 1 .. Len(s) /\ Len(s) \in Nat
  BY LenProperties
<1>2. IsFiniteSet(DOMAIN s)
  BY <1>1, FS_Interval
<1>3. {i \in DOMAIN s : s[i] > 0} \in SUBSET DOMAIN s
  OBVIOUS
<1>4. IsFiniteSet({i \in DOMAIN s : s[i] > 0})
  BY <1>2, <1>3, FS_Subset
<1> QED BY <1>4, FS_CardinalityType DEF FrameOf

\* A frame that is pushed is one more, a chat line is none.
LEMMA FrameOfAppend ==
  ASSUME NEW s \in Seq(Int), NEW r \in Int
  PROVE  /\ r > 0 => FrameOf(Append(s, r)) = FrameOf(s) + 1
         /\ ~(r > 0) => FrameOf(Append(s, r)) = FrameOf(s)
<1> PICK n \in Nat : n = Len(s)
  BY LenProperties
<1> PICK t \in Seq(Int) : t = Append(s, r)
  BY AppendProperties
<1> DEFINE F == {i \in DOMAIN s : s[i] > 0}
<1>1. DOMAIN s = 1 .. n /\ DOMAIN t = 1 .. n + 1
  BY LenProperties, AppendProperties
<1>2. (\A i \in 1 .. n : t[i] = s[i]) /\ t[n + 1] = r
  BY AppendProperties
<1>3. IsFiniteSet(F) /\ FrameOf(s) = Cardinality(F)
  BY FrameOfType DEF FrameOf
<1>4. n + 1 \notin F
  BY <1>1
<1>5. CASE r > 0
  <2>1. {i \in DOMAIN t : t[i] > 0} = F \cup {n + 1}
    BY <1>1, <1>2, <1>5
  <2>2. Cardinality(F \cup {n + 1}) = Cardinality(F) + 1
    BY <1>3, <1>4, FS_AddElement
  <2> QED BY <1>3, <1>5, <2>1, <2>2 DEF FrameOf
<1>6. CASE ~(r > 0)
  <2>1. {i \in DOMAIN t : t[i] > 0} = F
    BY <1>1, <1>2, <1>6
  <2> QED BY <1>3, <1>6, <2>1 DEF FrameOf
<1> QED BY <1>5, <1>6

LEMMA FrameOfMarker == FrameOf(<<Chat>>) = 0
<1>1. {i \in DOMAIN <<Chat>> : <<Chat>>[i] > 0} = {}
  BY DEF Chat
<1> QED BY <1>1, FS_EmptySet DEF FrameOf

-----------------------------------------------------------------------------
(* What the places hold                                                    *)

LEMMA EventualParts ==
  ASSUME TypeInv
  PROVE  /\ Pending \in Seq(Int) /\ server.file \in Seq(Int) /\ queue \in Seq(Int)
         /\ server.file \o Pending \in Seq(Int)
         /\ Eventual = server.file \o Pending \o queue
         /\ Eventual \in Seq(Int)
<1>1. Pending \in Seq(Int)
  <2>1. batch.body \in Seq(Int)
    BY DEF TypeInv, Batch
  <2>2. <<Header>> \in Seq(Int) /\ <<>> \in Seq(Int)
    BY DEF Header
  <2> QED BY <2>1, <2>2 DEF Pending
<1>2. server.file \in Seq(Int) /\ queue \in Seq(Int)
  BY DEF TypeInv
<1>3. Eventual = server.file \o Pending \o queue
  BY DEF Eventual, Pending
<1>4. server.file \o Pending \in Seq(Int)
  BY <1>1, <1>2, ConcatProperties
<1> QED BY <1>1, <1>2, <1>3, <1>4, ConcatProperties

\* A step that only moves records on, or takes a state along, changes nothing of this.
LEMMA Moved ==
  ASSUME IInv, Eventual' = Eventual, UNCHANGED <<pushed, enqueued, session>>,
         losses'.dropped = losses.dropped, losses'.refused = losses.refused,
         handed' = handed \/ handed' = NoState \/ Right(handed)',
         uploading' = uploading \/ uploading' = handed \/ uploading' = NoState,
         server'.state = server.state \/ server'.state = uploading
  PROVE  LosslessInv' /\ CountInv' /\ StateInv'
<1>1. LosslessInv'
  BY DEF IInv, LosslessInv, Lossless, Whole
<1>2. CountInv'
  BY DEF IInv, CountInv
<1>3. Right(handed)'
  BY DEF IInv, StateInv, Right, Exact
<1>4. Right(uploading)'
  BY DEF IInv, StateInv, Right, Exact
<1>5. Right(server.state)'
  BY DEF IInv, StateInv, Right, Exact
<1> QED BY <1>1, <1>2, <1>3, <1>4, <1>5 DEF StateInv

\* Most steps leave all of it where it is.
LEMMA Untouched ==
  ASSUME UNCHANGED <<queue, sequence, batch>>,
         server'.file = server.file, server'.last = server.last
  PROVE  Eventual' = Eventual
BY DEF Eventual

-----------------------------------------------------------------------------
(* Steps that leave the records where they are                             *)

LEMMA CheckStateRequestedStep == IInv /\ CheckStateRequested => IInv'
<1> SUFFICES ASSUME IInv, CheckStateRequested PROVE IInv'
  OBVIOUS
<1> USE DEF IInv
<1>1. TypeInv'
  <2>1. FrameOf(pushed) \in Nat
    BY FrameOfType DEF TypeInv
  <2>2. handed' \in State
    <3>1. handed \in State /\ enqueued \in Int /\ losses.dropped \in Nat
      BY DEF TypeInv
    <3>2. [frame |-> FrameOf(pushed), offset |-> enqueued, dropped |-> losses.dropped] \in State
      BY <2>1, <3>1 DEF State
    <3> QED BY <3>1, <3>2 DEF CheckStateRequested, UploadState
  <2> QED BY <2>2 DEF TypeInv, CheckStateRequested, streamThreads
<1>2. BatchInv'
  BY DEF TypeInv, BatchInv, Batch, CheckStateRequested, UploadState, streamHost, streamThreads
<1>3. EndInv'
  BY DEF TypeInv, BatchInv, EndInv, CheckStateRequested, UploadState, streamHost, streamThreads
<1>4. LosslessInv' /\ CountInv' /\ StateInv'
  <2>1. UNCHANGED <<queue, sequence, batch, pushed, enqueued, session>>
    BY DEF CheckStateRequested, UploadState, streamHost, streamThreads
  <2>2. server'.file = server.file /\ server'.last = server.last
    BY DEF TypeInv, CheckStateRequested, UploadState, streamHost, streamThreads
  <2>3. losses'.dropped = losses.dropped /\ losses'.refused = losses.refused
    BY DEF TypeInv, CheckStateRequested, UploadState, streamHost, streamThreads
  <2>4. handed' = handed \/ Right(handed)'
    <3> SUFFICES ASSUME handed' # handed PROVE Right(handed)'
      OBVIOUS
    <3>1. handed' = [frame |-> FrameOf(pushed), offset |-> enqueued, dropped |-> losses.dropped]
      BY DEF CheckStateRequested, UploadState
    <3>2. /\ handed'.frame = FrameOf(pushed) /\ handed'.offset = enqueued
          /\ handed'.dropped = losses.dropped
      BY <3>1
    <3>3. Eventual' = Eventual /\ pushed' = pushed /\ losses' = losses
      BY <2>1, <2>2, Untouched DEF CheckStateRequested
    <3>4. session > 0
      BY DEF CheckStateRequested, TypeInv
    <3>5. ASSUME losses.refused = 0, NEW i \in DOMAIN Eventual
          PROVE  i <= enqueued /\ Eventual[i] <= FrameOf(pushed)
      <4>1. Eventual \in Seq(UpTo(FrameOf(pushed))) /\ enqueued = Len(Eventual)
        BY <3>4, <3>5 DEF CountInv
      <4>2. i \in 1 .. Len(Eventual)
        BY <4>1, LenProperties
      <4>3. Eventual[i] \in UpTo(FrameOf(pushed))
        BY <4>1, <4>2, ElementOfSeq
      <4> QED BY <4>1, <4>2, <4>3 DEF UpTo
    <3>6. losses.refused = 0 => enqueued <= Len(Eventual)
      BY <3>4, EventualParts, LenProperties DEF CountInv
    <3>7. losses.refused = 0 => Exact(handed)'
      BY <3>2, <3>3, <3>5 DEF Exact
    <3>8. handed'.dropped <= losses'.dropped /\ handed'.frame <= FrameOf(pushed)'
      <4>1. FrameOf(pushed) \in Nat /\ losses.dropped \in Nat
        BY FrameOfType DEF TypeInv
      <4>2. FrameOf(pushed)' = FrameOf(pushed)
        BY <3>3 DEF FrameOf
      <4> QED BY <3>2, <3>3, <4>1, <4>2
    <3> QED BY <3>2, <3>3, <3>6, <3>7, <3>8 DEF Right
  <2>5. uploading' = uploading \/ uploading' = handed \/ uploading' = NoState
    BY DEF CheckStateRequested, UploadState, streamHost, streamThreads
  <2>6. server'.state = server.state \/ server'.state = uploading
    BY DEF TypeInv, CheckStateRequested, UploadState, streamHost, streamThreads
  <2> QED BY <2>1, <2>2, <2>3, <2>4, <2>5, <2>6, Untouched, Moved
<1> QED BY <1>1, <1>2, <1>3, <1>4

LEMMA EndSessionStep == IInv /\ EndSession => IInv'
<1> SUFFICES ASSUME IInv, EndSession PROVE IInv'
  OBVIOUS
<1> USE DEF IInv
<1>1. TypeInv'
  BY DEF TypeInv, Batch, State, NoState, EndSession, streamHost, streamThreads
<1>2. BatchInv'
  BY DEF TypeInv, BatchInv, Batch, EndSession, streamHost, streamThreads
<1>3. EndInv'
  BY DEF TypeInv, BatchInv, EndInv, EndSession, streamHost, streamThreads
<1>4. LosslessInv' /\ CountInv' /\ StateInv'
  <2>1. UNCHANGED <<queue, sequence, batch, pushed, enqueued, session>>
    BY DEF EndSession, streamHost, streamThreads
  <2>2. server'.file = server.file /\ server'.last = server.last
    BY DEF TypeInv, EndSession, streamHost, streamThreads
  <2>3. losses'.dropped = losses.dropped /\ losses'.refused = losses.refused
    BY DEF TypeInv, EndSession, streamHost, streamThreads
  <2>4. handed' = handed \/ handed' = NoState
    BY DEF EndSession, streamHost, streamThreads
  <2>5. uploading' = uploading \/ uploading' = handed \/ uploading' = NoState
    BY DEF EndSession, streamHost, streamThreads
  <2>6. server'.state = server.state \/ server'.state = uploading
    BY DEF TypeInv, EndSession, streamHost, streamThreads
  <2> QED BY <2>1, <2>2, <2>3, <2>4, <2>5, <2>6, Untouched, Moved
<1> QED BY <1>1, <1>2, <1>3, <1>4

LEMMA StreamShutdownStep == IInv /\ StreamShutdown => IInv'
<1> SUFFICES ASSUME IInv, StreamShutdown PROVE IInv'
  OBVIOUS
<1> USE DEF IInv
<1>1. TypeInv'
  BY DEF TypeInv, Batch, State, NoState, StreamShutdown, streamHost, streamThreads
<1>2. BatchInv'
  BY DEF TypeInv, BatchInv, Batch, StreamShutdown, streamHost, streamThreads
<1>3. EndInv'
  BY DEF TypeInv, BatchInv, EndInv, StreamShutdown, streamHost, streamThreads
<1>4. LosslessInv' /\ CountInv' /\ StateInv'
  <2>1. UNCHANGED <<queue, sequence, batch, pushed, enqueued, session>>
    BY DEF StreamShutdown, streamHost, streamThreads
  <2>2. server'.file = server.file /\ server'.last = server.last
    BY DEF TypeInv, StreamShutdown, streamHost, streamThreads
  <2>3. losses'.dropped = losses.dropped /\ losses'.refused = losses.refused
    BY DEF TypeInv, StreamShutdown, streamHost, streamThreads
  <2>4. handed' = handed \/ handed' = NoState
    BY DEF StreamShutdown, streamHost, streamThreads
  <2>5. uploading' = uploading \/ uploading' = handed \/ uploading' = NoState
    BY DEF StreamShutdown, streamHost, streamThreads
  <2>6. server'.state = server.state \/ server'.state = uploading
    BY DEF TypeInv, StreamShutdown, streamHost, streamThreads
  <2> QED BY <2>1, <2>2, <2>3, <2>4, <2>5, <2>6, Untouched, Moved
<1> QED BY <1>1, <1>2, <1>3, <1>4

LEMMA StreamKilledStep == IInv /\ StreamKilled => IInv'
<1> SUFFICES ASSUME IInv, StreamKilled PROVE IInv'
  OBVIOUS
<1> USE DEF IInv
<1>1. TypeInv'
  BY DEF TypeInv, Batch, State, NoState, StreamKilled, streamHost, streamThreads
<1>2. BatchInv'
  BY DEF TypeInv, BatchInv, Batch, StreamKilled, streamHost, streamThreads
<1>3. EndInv'
  BY DEF TypeInv, BatchInv, EndInv, StreamKilled, streamHost, streamThreads
<1>4. LosslessInv' /\ CountInv' /\ StateInv'
  <2>1. UNCHANGED <<queue, sequence, batch, pushed, enqueued, session>>
    BY DEF StreamKilled, streamHost, streamThreads
  <2>2. server'.file = server.file /\ server'.last = server.last
    BY DEF TypeInv, StreamKilled, streamHost, streamThreads
  <2>3. losses'.dropped = losses.dropped /\ losses'.refused = losses.refused
    BY DEF TypeInv, StreamKilled, streamHost, streamThreads
  <2>4. handed' = handed \/ handed' = NoState
    BY DEF StreamKilled, streamHost, streamThreads
  <2>5. uploading' = uploading \/ uploading' = handed \/ uploading' = NoState
    BY DEF StreamKilled, streamHost, streamThreads
  <2>6. server'.state = server.state \/ server'.state = uploading
    BY DEF TypeInv, StreamKilled, streamHost, streamThreads
  <2> QED BY <2>1, <2>2, <2>3, <2>4, <2>5, <2>6, Untouched, Moved
<1> QED BY <1>1, <1>2, <1>3, <1>4

LEMMA SenderWakeStep == IInv /\ SenderWake => IInv'
<1> SUFFICES ASSUME IInv, SenderWake PROVE IInv'
  OBVIOUS
<1> USE DEF IInv
<1>1. TypeInv'
  BY DEF TypeInv, Batch, State, NoState, SenderWake, streamHost, streamThreads
<1>2. BatchInv'
  BY DEF TypeInv, BatchInv, Batch, SenderWake, streamHost, streamThreads
<1>3. EndInv'
  BY DEF TypeInv, BatchInv, EndInv, SenderWake, streamHost, streamThreads
<1>4. LosslessInv' /\ CountInv' /\ StateInv'
  <2>1. UNCHANGED <<queue, sequence, batch, pushed, enqueued, session>>
    BY DEF SenderWake, streamHost, streamThreads
  <2>2. server'.file = server.file /\ server'.last = server.last
    BY DEF TypeInv, SenderWake, streamHost, streamThreads
  <2>3. losses'.dropped = losses.dropped /\ losses'.refused = losses.refused
    BY DEF TypeInv, SenderWake, streamHost, streamThreads
  <2>4. handed' = handed \/ handed' = NoState
    BY DEF SenderWake, streamHost, streamThreads
  <2>5. uploading' = uploading \/ uploading' = handed \/ uploading' = NoState
    BY DEF SenderWake, streamHost, streamThreads
  <2>6. server'.state = server.state \/ server'.state = uploading
    BY DEF TypeInv, SenderWake, streamHost, streamThreads
  <2> QED BY <2>1, <2>2, <2>3, <2>4, <2>5, <2>6, Untouched, Moved
<1> QED BY <1>1, <1>2, <1>3, <1>4

LEMMA PostBatchStep == IInv /\ PostBatch => IInv'
<1> SUFFICES ASSUME IInv, PostBatch PROVE IInv'
  OBVIOUS
<1> USE DEF IInv
<1>1. TypeInv'
  BY DEF TypeInv, Batch, State, NoState, PostBatch, streamHost, streamThreads
<1>2. BatchInv'
  BY DEF TypeInv, BatchInv, Batch, PostBatch, streamHost, streamThreads
<1>3. EndInv'
  BY DEF TypeInv, BatchInv, EndInv, PostBatch, streamHost, streamThreads
<1>4. LosslessInv' /\ CountInv' /\ StateInv'
  <2>1. UNCHANGED <<queue, sequence, batch, pushed, enqueued, session>>
    BY DEF PostBatch, streamHost, streamThreads
  <2>2. server'.file = server.file /\ server'.last = server.last
    BY DEF TypeInv, PostBatch, streamHost, streamThreads
  <2>3. losses'.dropped = losses.dropped /\ losses'.refused = losses.refused
    BY DEF TypeInv, PostBatch, streamHost, streamThreads
  <2>4. handed' = handed \/ handed' = NoState
    BY DEF PostBatch, streamHost, streamThreads
  <2>5. uploading' = uploading \/ uploading' = handed \/ uploading' = NoState
    BY DEF PostBatch, streamHost, streamThreads
  <2>6. server'.state = server.state \/ server'.state = uploading
    BY DEF TypeInv, PostBatch, streamHost, streamThreads
  <2> QED BY <2>1, <2>2, <2>3, <2>4, <2>5, <2>6, Untouched, Moved
<1> QED BY <1>1, <1>2, <1>3, <1>4

LEMMA RetryStep == IInv /\ Retry => IInv'
<1> SUFFICES ASSUME IInv, Retry PROVE IInv'
  OBVIOUS
<1> USE DEF IInv
<1>1. TypeInv'
  BY DEF TypeInv, Batch, State, NoState, Retry, LoopTop, streamHost, streamThreads
<1>2. BatchInv'
  BY DEF TypeInv, BatchInv, Batch, Retry, LoopTop, streamHost, streamThreads
<1>3. EndInv'
  BY DEF TypeInv, BatchInv, EndInv, Retry, LoopTop, streamHost, streamThreads
<1>4. LosslessInv' /\ CountInv' /\ StateInv'
  <2>1. UNCHANGED <<queue, sequence, batch, pushed, enqueued, session>>
    BY DEF Retry, LoopTop, streamHost, streamThreads
  <2>2. server'.file = server.file /\ server'.last = server.last
    BY DEF TypeInv, Retry, LoopTop, streamHost, streamThreads
  <2>3. losses'.dropped = losses.dropped /\ losses'.refused = losses.refused
    BY DEF TypeInv, Retry, LoopTop, streamHost, streamThreads
  <2>4. handed' = handed \/ handed' = NoState
    BY DEF Retry, LoopTop, streamHost, streamThreads
  <2>5. uploading' = uploading \/ uploading' = handed \/ uploading' = NoState
    BY DEF Retry, LoopTop, streamHost, streamThreads
  <2>6. server'.state = server.state \/ server'.state = uploading
    BY DEF TypeInv, Retry, LoopTop, streamHost, streamThreads
  <2> QED BY <2>1, <2>2, <2>3, <2>4, <2>5, <2>6, Untouched, Moved
<1> QED BY <1>1, <1>2, <1>3, <1>4

LEMMA KeeperTakesStep == IInv /\ KeeperTakes => IInv'
<1> SUFFICES ASSUME IInv, KeeperTakes PROVE IInv'
  OBVIOUS
<1> USE DEF IInv
<1>1. TypeInv'
  BY DEF TypeInv, Batch, State, NoState, KeeperTakes, KeeperRuns, streamHost, streamThreads
<1>2. BatchInv'
  BY DEF TypeInv, BatchInv, Batch, KeeperTakes, KeeperRuns, streamHost, streamThreads
<1>3. EndInv'
  BY DEF TypeInv, BatchInv, EndInv, KeeperTakes, KeeperRuns, streamHost, streamThreads
<1>4. LosslessInv' /\ CountInv' /\ StateInv'
  <2>1. UNCHANGED <<queue, sequence, batch, pushed, enqueued, session>>
    BY DEF KeeperTakes, KeeperRuns, streamHost, streamThreads
  <2>2. server'.file = server.file /\ server'.last = server.last
    BY DEF TypeInv, KeeperTakes, KeeperRuns, streamHost, streamThreads
  <2>3. losses'.dropped = losses.dropped /\ losses'.refused = losses.refused
    BY DEF TypeInv, KeeperTakes, KeeperRuns, streamHost, streamThreads
  <2>4. handed' = handed \/ handed' = NoState
    BY DEF KeeperTakes, KeeperRuns, streamHost, streamThreads
  <2>5. uploading' = uploading \/ uploading' = handed \/ uploading' = NoState
    BY DEF KeeperTakes, KeeperRuns, streamHost, streamThreads
  <2>6. server'.state = server.state \/ server'.state = uploading
    BY DEF TypeInv, KeeperTakes, KeeperRuns, streamHost, streamThreads
  <2> QED BY <2>1, <2>2, <2>3, <2>4, <2>5, <2>6, Untouched, Moved
<1> QED BY <1>1, <1>2, <1>3, <1>4

LEMMA KeeperUploadsStep == IInv /\ KeeperUploads => IInv'
<1> SUFFICES ASSUME IInv, KeeperUploads PROVE IInv'
  OBVIOUS
<1> USE DEF IInv
<1>1. TypeInv'
  <2>1. server' \in [file : Seq(Int), last : Int, closed : BOOLEAN, asked : BOOLEAN, state : State]
    BY DEF TypeInv, KeeperUploads
  <2>2. losses' \in [dropped : Nat, refused : Nat, cut : Int, asked : Nat]
    BY DEF TypeInv, KeeperUploads
  <2> QED BY <2>1, <2>2 DEF TypeInv, State, NoState, KeeperUploads, streamHost, streamThreads
<1>2. BatchInv'
  BY DEF TypeInv, BatchInv, Batch, KeeperUploads, streamHost, streamThreads
<1>3. EndInv'
  BY DEF TypeInv, BatchInv, EndInv, KeeperUploads, streamHost, streamThreads
<1>4. LosslessInv' /\ CountInv' /\ StateInv'
  <2>1. UNCHANGED <<queue, sequence, batch, pushed, enqueued, session>>
    BY DEF KeeperUploads, streamHost, streamThreads
  <2>2. server'.file = server.file /\ server'.last = server.last
    BY DEF TypeInv, KeeperUploads, streamHost, streamThreads
  <2>3. losses'.dropped = losses.dropped /\ losses'.refused = losses.refused
    BY DEF TypeInv, KeeperUploads, streamHost, streamThreads
  <2>4. handed' = handed \/ handed' = NoState
    BY DEF KeeperUploads, streamHost, streamThreads
  <2>5. uploading' = uploading \/ uploading' = handed \/ uploading' = NoState
    BY DEF KeeperUploads, streamHost, streamThreads
  <2>6. server'.state = server.state \/ server'.state = uploading
    BY DEF TypeInv, KeeperUploads, streamHost, streamThreads
  <2> QED BY <2>1, <2>2, <2>3, <2>4, <2>5, <2>6, Untouched, Moved
<1> QED BY <1>1, <1>2, <1>3, <1>4

LEMMA KeeperPollsStep == IInv /\ KeeperPolls => IInv'
<1> SUFFICES ASSUME IInv, KeeperPolls PROVE IInv'
  OBVIOUS
<1> USE DEF IInv
<1>1. TypeInv'
  BY DEF TypeInv, Batch, State, NoState, KeeperPolls, KeeperRuns, streamHost, streamThreads
<1>2. BatchInv'
  BY DEF TypeInv, BatchInv, Batch, KeeperPolls, KeeperRuns, streamHost, streamThreads
<1>3. EndInv'
  BY DEF TypeInv, BatchInv, EndInv, KeeperPolls, KeeperRuns, streamHost, streamThreads
<1>4. LosslessInv' /\ CountInv' /\ StateInv'
  <2>1. UNCHANGED <<queue, sequence, batch, pushed, enqueued, session>>
    BY DEF KeeperPolls, KeeperRuns, streamHost, streamThreads
  <2>2. server'.file = server.file /\ server'.last = server.last
    BY DEF TypeInv, KeeperPolls, KeeperRuns, streamHost, streamThreads
  <2>3. losses'.dropped = losses.dropped /\ losses'.refused = losses.refused
    BY DEF TypeInv, KeeperPolls, KeeperRuns, streamHost, streamThreads
  <2>4. handed' = handed \/ handed' = NoState
    BY DEF KeeperPolls, KeeperRuns, streamHost, streamThreads
  <2>5. uploading' = uploading \/ uploading' = handed \/ uploading' = NoState
    BY DEF KeeperPolls, KeeperRuns, streamHost, streamThreads
  <2>6. server'.state = server.state \/ server'.state = uploading
    BY DEF TypeInv, KeeperPolls, KeeperRuns, streamHost, streamThreads
  <2> QED BY <2>1, <2>2, <2>3, <2>4, <2>5, <2>6, Untouched, Moved
<1> QED BY <1>1, <1>2, <1>3, <1>4

LEMMA KeeperEndsStep == IInv /\ KeeperEnds => IInv'
<1> SUFFICES ASSUME IInv, KeeperEnds PROVE IInv'
  OBVIOUS
<1> USE DEF IInv
<1>1. TypeInv'
  BY DEF TypeInv, Batch, State, NoState, KeeperEnds, KeeperRuns, streamHost, streamThreads
<1>2. BatchInv'
  BY DEF TypeInv, BatchInv, Batch, KeeperEnds, KeeperRuns, streamHost, streamThreads
<1>3. EndInv'
  BY DEF TypeInv, BatchInv, EndInv, KeeperEnds, KeeperRuns, streamHost, streamThreads
<1>4. LosslessInv' /\ CountInv' /\ StateInv'
  <2>1. UNCHANGED <<queue, sequence, batch, pushed, enqueued, session>>
    BY DEF KeeperEnds, KeeperRuns, streamHost, streamThreads
  <2>2. server'.file = server.file /\ server'.last = server.last
    BY DEF TypeInv, KeeperEnds, KeeperRuns, streamHost, streamThreads
  <2>3. losses'.dropped = losses.dropped /\ losses'.refused = losses.refused
    BY DEF TypeInv, KeeperEnds, KeeperRuns, streamHost, streamThreads
  <2>4. handed' = handed \/ handed' = NoState
    BY DEF KeeperEnds, KeeperRuns, streamHost, streamThreads
  <2>5. uploading' = uploading \/ uploading' = handed \/ uploading' = NoState
    BY DEF KeeperEnds, KeeperRuns, streamHost, streamThreads
  <2>6. server'.state = server.state \/ server'.state = uploading
    BY DEF TypeInv, KeeperEnds, KeeperRuns, streamHost, streamThreads
  <2> QED BY <2>1, <2>2, <2>3, <2>4, <2>5, <2>6, Untouched, Moved
<1> QED BY <1>1, <1>2, <1>3, <1>4

LEMMA SpectatorAsksStep == IInv /\ SpectatorAsks => IInv'
<1> SUFFICES ASSUME IInv, SpectatorAsks PROVE IInv'
  OBVIOUS
<1> USE DEF IInv
<1>1. TypeInv'
  <2>1. server' \in [file : Seq(Int), last : Int, closed : BOOLEAN, asked : BOOLEAN, state : State]
    BY DEF TypeInv, SpectatorAsks
  <2>2. losses' \in [dropped : Nat, refused : Nat, cut : Int, asked : Nat]
    <3>1. losses \in [dropped : Nat, refused : Nat, cut : Int, asked : Nat] /\ losses.asked + 1 \in Nat
      BY DEF TypeInv
    <3>2. losses' = [losses EXCEPT !.asked = losses.asked + 1]
      BY DEF SpectatorAsks
    <3> QED BY <3>1, <3>2
  <2> QED BY <2>1, <2>2 DEF TypeInv, State, NoState, SpectatorAsks, streamHost, streamThreads
<1>2. BatchInv'
  BY DEF TypeInv, BatchInv, Batch, SpectatorAsks, streamHost, streamThreads
<1>3. EndInv'
  BY DEF TypeInv, BatchInv, EndInv, SpectatorAsks, streamHost, streamThreads
<1>4. LosslessInv' /\ CountInv' /\ StateInv'
  <2>1. UNCHANGED <<queue, sequence, batch, pushed, enqueued, session>>
    BY DEF SpectatorAsks, streamHost, streamThreads
  <2>2. server'.file = server.file /\ server'.last = server.last
    BY DEF TypeInv, SpectatorAsks, streamHost, streamThreads
  <2>3. losses'.dropped = losses.dropped /\ losses'.refused = losses.refused
    BY DEF TypeInv, SpectatorAsks, streamHost, streamThreads
  <2>4. handed' = handed \/ handed' = NoState
    BY DEF SpectatorAsks, streamHost, streamThreads
  <2>5. uploading' = uploading \/ uploading' = handed \/ uploading' = NoState
    BY DEF SpectatorAsks, streamHost, streamThreads
  <2>6. server'.state = server.state \/ server'.state = uploading
    BY DEF TypeInv, SpectatorAsks, streamHost, streamThreads
  <2> QED BY <2>1, <2>2, <2>3, <2>4, <2>5, <2>6, Untouched, Moved
<1> QED BY <1>1, <1>2, <1>3, <1>4

-----------------------------------------------------------------------------
(* Steps that move a border                                                *)

LEMMA StreamDrainStep == IInv /\ StreamDrain => IInv'
<1> SUFFICES ASSUME IInv, StreamDrain PROVE IInv'
  OBVIOUS
<1> USE DEF IInv
<1> DEFINE hdr == IF sequence = 0 THEN <<Header>> ELSE <<>>
           k == IF Len(queue) < BatchCap THEN Len(queue) ELSE BatchCap
<1>1. queue \in Seq(Int) /\ sequence \in Nat /\ batch = NoBatch /\ sender = "drain"
  BY DEF TypeInv, BatchInv, StreamDrain
<1> PICK len \in Nat : len = Len(queue)
  BY <1>1, LenProperties
<1> PICK n \in Nat : n = k /\ n <= len /\ (n = 0 => len = 0)
  BY LiveStreamAssumption
<1> PICK taken : taken = SubSeq(queue, 1, n)
  OBVIOUS
<1> PICK left : left = SubSeq(queue, n + 1, len)
  OBVIOUS
<1>2. /\ taken \in Seq(Int) /\ left \in Seq(Int) /\ Len(left) = len - n /\ Len(taken) = n
      /\ taken \o left = queue
  <2>1. \A i \in 1 .. len : queue[i] \in Int
    BY <1>1, ElementOfSeq
  <2>2. taken \in Seq(Int) /\ Len(taken) = n
    BY <2>1, SubSeqProperties
  <2>3. left \in Seq(Int) /\ Len(left) = len - n
    BY <2>1, SubSeqProperties
  <2>4. n \in 0 .. Len(queue)
    OBVIOUS
  <2>5. taken \o left = queue
    BY <1>1, <2>4, CutAt
  <2> QED BY <2>2, <2>3, <2>5
<1> PICK body : body = hdr \o taken
  OBVIOUS
<1>3. hdr \in Seq(Int) /\ body \in Seq(Int)
  BY <1>2, ConcatProperties DEF Header
<1>4. /\ queue' = left /\ sawEnded' = FALSE
      /\ body = <<>> /\ ~sawEnded => sender' = LoopTop /\ batch' = batch
      /\ ~(body = <<>> /\ ~sawEnded) =>
            sender' = "post" /\ batch' = [seq |-> sequence, body |-> body, end |-> sawEnded]
      /\ losses' = (IF sawEnded THEN [losses EXCEPT !.cut = len - n] ELSE losses)
  BY DEF StreamDrain
<1>5. /\ UNCHANGED <<enqueued, active, ended, sequence, polling, requested, handed, stopping, keeper,
                      uploading, server, inFlight, session, pushed>>
  BY DEF StreamDrain
<1>6. ~server.closed
  BY <1>1 DEF EndInv
<1>7. batch' \in Batch /\ sender' \in {"none", "sleep", "post"}
  <2>1. sequence \in Int /\ sawEnded \in BOOLEAN /\ batch \in Batch
    BY DEF TypeInv
  <2>2. [seq |-> sequence, body |-> body, end |-> sawEnded] \in Batch
    BY <1>3, <2>1 DEF Batch
  <2>3. LoopTop \in {"none", "sleep"}
    BY DEF LoopTop
  <2> QED BY <1>4, <2>1, <2>2, <2>3
<1>8. /\ losses' \in [dropped : Nat, refused : Nat, cut : Int, asked : Nat]
      /\ losses'.dropped = losses.dropped /\ losses'.refused = losses.refused
      /\ sawEnded => losses'.cut = len - n
  <2>1. len - n \in Int /\ losses \in [dropped : Nat, refused : Nat, cut : Int, asked : Nat]
    BY DEF TypeInv
  <2> QED BY <1>4, <2>1
<1>9. TypeInv'
  BY <1>2, <1>4, <1>5, <1>7, <1>8 DEF TypeInv
<1>10. batch' # NoBatch => ~(body = <<>> /\ ~sawEnded) /\ batch'.seq = sequence
  BY <1>1, <1>4
<1>11. ~(body = <<>> /\ ~sawEnded) => batch' # NoBatch
  <2>1. [seq |-> sequence, body |-> body, end |-> sawEnded].seq # NoBatch.seq
    BY <1>1 DEF NoBatch
  <2> QED BY <1>4, <2>1
<1>12. BatchInv'
  <2>1. \A post \in inFlight : ~(post.seq > server.last)
    <3> SUFFICES ASSUME NEW post \in inFlight, post.seq > server.last PROVE FALSE
      OBVIOUS
    <3>1. post = NoBatch
      BY <1>1 DEF BatchInv
    <3>2. post.seq = -1
      BY <3>1 DEF NoBatch
    <3> QED BY <3>2 DEF BatchInv, TypeInv
  <2>2. sender' = "post" => batch' # NoBatch
    BY <1>4, <1>11 DEF LoopTop
  <2>3. batch' = NoBatch => server.last < sequence
    BY <1>1 DEF BatchInv
  <2> QED BY <1>5, <1>7, <1>10, <2>1, <2>2, <2>3 DEF BatchInv
<1>13. EndInv'
  <2>1. ASSUME batch' # NoBatch, batch'.end PROVE ended /\ Len(queue') = losses'.cut
    <3>1. sawEnded
      BY <1>4, <1>10, <2>1
    <3> QED BY <1>2, <1>4, <1>8, <3>1 DEF EndInv
  <2> QED BY <1>4, <1>5, <1>6, <2>1 DEF EndInv
<1>14. Eventual' = Eventual
  <2>1. Pending = hdr /\ server.file \in Seq(Int)
    BY <1>1 DEF Pending, TypeInv
  <2>2. Eventual = Cat(Cat(server.file, hdr), queue)
    BY <2>1, EventualParts DEF Cat
  <2>3. Eventual' = Cat(Cat(server.file, Pending'), left)
    BY <1>4, <1>5 DEF Eventual, Pending, Cat
  <2> HIDE DEF hdr
  <2>4. CASE body = <<>> /\ ~sawEnded
    <3>1. Pending' = Pending
      BY <1>1, <1>4, <1>5, <2>4 DEF Pending
    <3>2. taken = <<>>
      BY <1>2, <1>3, <2>4, ConcatEqualIffEmpty
    <3>3. queue = left
      BY <1>2, <3>2, ConcatEmptySeq
    <3> QED BY <2>1, <2>2, <2>3, <3>1, <3>3
  <2>5. CASE ~(body = <<>> /\ ~sawEnded)
    <3>1. batch' = [seq |-> sequence, body |-> body, end |-> sawEnded]
      BY <1>4, <2>5
    <3>2. batch' # NoBatch /\ batch'.seq = sequence /\ batch'.body = body
      BY <1>11, <2>5, <3>1
    <3>3. server.last < sequence
      BY <1>1 DEF BatchInv
    <3>4. Pending' = body
      BY <1>5, <3>2, <3>3 DEF Pending
    <3>5. body = Cat(hdr, taken) /\ queue = Cat(taken, left)
      BY <1>2 DEF Cat
    <3>6. Regroups(server.file, hdr, taken, left)
      BY <1>2, <1>3, <2>1, Regroup
    <3> QED BY <2>2, <2>3, <3>4, <3>5, <3>6, Zenon DEF Regroups
  <2> QED BY <2>4, <2>5
<1>15. LosslessInv' /\ CountInv' /\ StateInv'
  BY <1>5, <1>8, <1>14, Moved
<1> QED BY <1>9, <1>12, <1>13, <1>15

\* A batch that is confirmed, or given up: the next one has the next number.
LEMMA NextBatchKeeps ==
  ASSUME IInv, NextBatch, sender = "reply",
         losses' \in [dropped : Nat, refused : Nat, cut : Int, asked : Nat],
         losses'.cut = losses.cut, server' = server, inFlight' \subseteq inFlight,
         server.last < batch.seq => batch \notin inFlight'
  PROVE  TypeInv' /\ BatchInv' /\ EndInv'
<1> USE DEF IInv
<1>1. batch # NoBatch /\ batch.seq = sequence /\ sequence \in Nat /\ batch \in Batch
  BY DEF BatchInv, TypeInv
<1>2. /\ sequence' = sequence + 1 /\ batch' = NoBatch
      /\ sender' \in {"none", "sleep"} /\ (batch.end => sender' = "none" /\ active' = FALSE)
      /\ ~batch.end => active' = active
  BY DEF NextBatch, LoopTop
<1>3. UNCHANGED <<queue, enqueued, ended, handed, sawEnded, uploading, session, pushed>>
  BY DEF NextBatch
<1>4. TypeInv'
  <2>1. NoBatch \in Batch
    BY DEF NoBatch, Batch
  <2>2. batch.end \in BOOLEAN
    BY <1>1 DEF Batch
  <2>3. sequence' \in Nat
    BY <1>1, <1>2
  <2>4. active' \in BOOLEAN /\ (active' => session' > 0)
    <3>1. CASE batch.end
      BY <1>2, <3>1
    <3>2. CASE ~batch.end
      BY <1>2, <1>3, <3>2 DEF TypeInv
    <3> QED BY <3>1, <3>2
  <2>5. batch' \in Batch /\ inFlight' \subseteq Batch
    BY <1>2, <2>1 DEF TypeInv
  <2>6. server' \in [file : Seq(Int), last : Int, closed : BOOLEAN, asked : BOOLEAN, state : State]
    BY DEF TypeInv
  <2>7. sender' \in {"none", "sleep", "drain", "post", "reply"}
    BY <1>2
  <2> QED BY <1>3, <2>3, <2>4, <2>5, <2>6, <2>7 DEF TypeInv
<1>5. BatchInv'
  <2>1. ASSUME NEW post \in inFlight' PROVE ~(post.seq > server.last)
    <3> SUFFICES ASSUME post.seq > server.last PROVE FALSE
      OBVIOUS
    <3>1. post = batch
      BY DEF BatchInv
    <3> QED BY <2>1, <3>1
  <2>2. -1 <= server.last /\ server.last <= sequence /\ server.last \in Int
    BY DEF BatchInv, TypeInv
  <2> QED BY <1>1, <1>2, <2>1, <2>2 DEF BatchInv
<1>6. EndInv'
  <2>1. ASSUME server.closed
        PROVE  ended /\ Len(queue) = losses.cut /\ sender' = "none" /\ sequence' > 0
    BY <1>1, <1>2, <2>1 DEF EndInv
  <2> QED BY <1>1, <1>2, <1>3, <2>1 DEF EndInv
<1> QED BY <1>4, <1>5, <1>6

LEMMA DeliveredStep == IInv /\ Delivered => IInv'
<1> SUFFICES ASSUME IInv, Delivered PROVE IInv'
  OBVIOUS
<1> USE DEF IInv
<1>1. /\ sender = "reply" /\ server.last >= batch.seq /\ NextBatch
      /\ UNCHANGED <<server, inFlight, losses>>
  BY DEF Delivered
<1>2. batch # NoBatch /\ batch.seq = sequence /\ sequence \in Nat /\ server.last \in Int
  BY <1>1 DEF BatchInv, TypeInv
<1>3. TypeInv' /\ BatchInv' /\ EndInv'
  <2>1. losses' \in [dropped : Nat, refused : Nat, cut : Int, asked : Nat]
    BY <1>1 DEF TypeInv
  <2>2. ~(server.last < batch.seq)
    BY <1>1, <1>2
  <2> QED BY <1>1, <2>1, <2>2, NextBatchKeeps
<1>4. Eventual' = Eventual
  <2>1. ~(batch # NoBatch /\ server.last < batch.seq) /\ ~(batch = NoBatch)
    BY <1>1, <1>2
  <2>2. batch' = NoBatch /\ ~(sequence' = 0) /\ queue' = queue
    BY <1>1, <1>2 DEF NextBatch
  <2> QED BY <1>1, <2>1, <2>2 DEF Eventual
<1>5. LosslessInv' /\ CountInv' /\ StateInv'
  <2>1. UNCHANGED <<pushed, enqueued, session, handed, uploading>>
    BY <1>1 DEF NextBatch
  <2> QED BY <1>1, <1>4, <2>1, Moved
<1> QED BY <1>3, <1>5

\* What a refusal loses is lost: the session is not whole any more.
LEMMA BatchRefusedStep == IInv /\ BatchRefused => IInv'
<1> SUFFICES ASSUME IInv, BatchRefused PROVE IInv'
  OBVIOUS
<1> USE DEF IInv
<1>1. /\ sender = "reply" /\ server.last < batch.seq /\ NextBatch
      /\ inFlight' = inFlight \ {batch} /\ UNCHANGED server
      /\ losses' = [losses EXCEPT !.refused = losses.refused + 1]
  BY DEF BatchRefused
<1>2. /\ losses' \in [dropped : Nat, refused : Nat, cut : Int, asked : Nat]
      /\ losses'.cut = losses.cut /\ losses'.dropped = losses.dropped /\ losses'.refused # 0
  <2>1. losses \in [dropped : Nat, refused : Nat, cut : Int, asked : Nat]
        /\ losses.refused + 1 \in Nat /\ losses.refused + 1 # 0
    BY DEF TypeInv
  <2> QED BY <1>1, <2>1
<1>3. TypeInv' /\ BatchInv' /\ EndInv'
  <2>1. inFlight' \subseteq inFlight /\ batch \notin inFlight'
    BY <1>1
  <2> QED BY <1>1, <1>2, <2>1, NextBatchKeeps
<1>4. LosslessInv' /\ CountInv'
  BY <1>2 DEF LosslessInv, Lossless, CountInv
<1>5. StateInv'
  <2>1. UNCHANGED <<handed, uploading, server>>
    BY <1>1 DEF NextBatch
  <2>2. Right(handed)'
    BY <1>2, <2>1 DEF StateInv, Right
  <2>3. Right(uploading)'
    BY <1>2, <2>1 DEF StateInv, Right
  <2>4. Right(server.state)'
    BY <1>2, <2>1 DEF StateInv, Right
  <2> QED BY <2>2, <2>3, <2>4 DEF StateInv
<1> QED BY <1>3, <1>4, <1>5

\* A post with a number the server knows is dropped; the other can only be the batch.
LEMMA ServerTakesStep == IInv /\ ServerTakes => IInv'
<1> SUFFICES ASSUME IInv, NEW post \in inFlight,
                    server' = IF post.seq <= server.last THEN server
                              ELSE [server EXCEPT !.file = @ \o post.body, !.last = post.seq,
                                                  !.closed = post.end],
                    inFlight' = inFlight \ {post},
                    UNCHANGED <<streamHost, streamThreads, session, pushed, losses>>
             PROVE  IInv'
  BY DEF ServerTakes
<1> USE DEF IInv
<1>1. UNCHANGED <<queue, enqueued, active, ended, sequence, polling, requested, handed, sender, sawEnded,
                  batch, stopping, keeper, uploading, session, pushed, losses>>
  BY DEF streamHost, streamThreads
<1>2. post \in Batch /\ post.seq \in Int /\ server.last \in Int
  BY DEF TypeInv, Batch
<1>3. CASE post.seq <= server.last
  <2>1. server' = server
    BY <1>3
  <2>2. TypeInv' /\ BatchInv' /\ EndInv'
    BY <1>1, <2>1 DEF TypeInv, BatchInv, EndInv
  <2>3. Eventual' = Eventual
    BY <1>1, <2>1, Untouched
  <2> QED BY <1>1, <2>1, <2>2, <2>3, Moved
<1>4. CASE ~(post.seq <= server.last)
  <2>1. server' = [server EXCEPT !.file = server.file \o post.body, !.last = post.seq, !.closed = post.end]
    BY <1>4
  <2>2. post = batch
    BY <1>2, <1>4 DEF BatchInv
  <2>3. batch # NoBatch /\ batch.seq = sequence /\ server.last < batch.seq /\ sequence \in Nat
    <3>1. batch # NoBatch
      BY <1>2, <1>4, <2>2 DEF NoBatch, BatchInv
    <3> QED BY <1>2, <1>4, <2>2, <3>1 DEF BatchInv, TypeInv
  <2>4. post.body \in Seq(Int) /\ post.end \in BOOLEAN /\ server.file \o post.body \in Seq(Int)
    <3>1. post.body \in Seq(Int) /\ post.end \in BOOLEAN /\ server.file \in Seq(Int)
      BY <1>2 DEF TypeInv, Batch
    <3> QED BY <3>1, ConcatProperties
  <2>5. /\ server' \in [file : Seq(Int), last : Int, closed : BOOLEAN, asked : BOOLEAN, state : State]
        /\ server'.file = server.file \o batch.body /\ server'.last = sequence
        /\ server'.closed = batch.end /\ server'.state = server.state
    <3>1. server \in [file : Seq(Int), last : Int, closed : BOOLEAN, asked : BOOLEAN, state : State]
      BY DEF TypeInv
    <3> QED BY <1>2, <2>1, <2>2, <2>3, <2>4, <3>1
  <2>6. TypeInv'
    BY <1>1, <2>5 DEF TypeInv
  <2>7. BatchInv'
    <3>1. ASSUME NEW other \in inFlight' PROVE ~(other.seq > sequence)
      <4>1. other \in inFlight /\ other.seq \in Int
        BY DEF TypeInv, Batch
      <4>2. other.seq > server.last => other = batch
        BY <4>1 DEF BatchInv
      <4> QED BY <1>2, <2>3, <4>1, <4>2
    <3> QED BY <1>1, <2>3, <2>5, <3>1 DEF BatchInv
  <2>8. EndInv'
    BY <1>1, <2>3, <2>5 DEF EndInv
  <2>9. Eventual' = Eventual
    <3>1. Pending = batch.body /\ Pending' = <<>>
      BY <1>1, <2>3, <2>5 DEF Pending
    <3>2. Eventual = server.file \o batch.body \o queue
      BY <3>1, EventualParts
    <3>3. Eventual' = server'.file \o <<>> \o queue
      BY <1>1, <3>1 DEF Eventual, Pending
    <3>4. server'.file \o <<>> = server'.file
      BY <2>5, <2>6, ConcatEmptySeq DEF TypeInv
    <3> QED BY <2>5, <3>2, <3>3, <3>4
  <2>10. LosslessInv' /\ CountInv' /\ StateInv'
    BY <1>1, <2>5, <2>9, Moved
  <2> QED BY <2>6, <2>7, <2>8, <2>10
<1> QED BY <1>3, <1>4

-----------------------------------------------------------------------------
(* A new session, and what is pushed in it                                 *)

LEMMA LossesReset ==
  ASSUME NEW l \in [dropped : Nat, refused : Nat, cut : Int, asked : Nat], NEW x \in Nat, NEW y \in Int
  PROVE  [l EXCEPT !.dropped = x, !.refused = x, !.cut = y]
           \in [dropped : Nat, refused : Nat, cut : Int, asked : Nat]
OBVIOUS

LEMMA StartSessionStep == IInv /\ StartSession => IInv'
<1> SUFFICES ASSUME IInv, StartSession PROVE IInv'
  OBVIOUS
<1> USE DEF IInv
<1>1. /\ queue' = <<Chat>> /\ enqueued' = 2 /\ pushed' = <<Chat>> /\ sequence' = 0
      /\ handed' = NoState /\ uploading' = NoState /\ ended' = FALSE /\ active' = TRUE
      /\ sender' = "sleep" /\ batch' = NoBatch /\ sawEnded' = FALSE
      /\ session' = session + 1 /\ server' = EmptyServer /\ inFlight' = {}
      /\ losses' = [losses EXCEPT !.dropped = 0, !.refused = 0, !.cut = 0]
  BY DEF StartSession
<1>2. TypeInv'
  <2>1. NoBatch \in Batch /\ NoState \in State
    BY DEF NoBatch, NoState, Batch, State
  <2>2. server' \in [file : Seq(Int), last : Int, closed : BOOLEAN, asked : BOOLEAN, state : State]
    BY <1>1, <2>1 DEF EmptyServer
  <2>3. losses' \in [dropped : Nat, refused : Nat, cut : Int, asked : Nat]
    <3>1. losses \in [dropped : Nat, refused : Nat, cut : Int, asked : Nat]
      BY DEF TypeInv
    <3>2. 0 \in Nat /\ 0 \in Int
      OBVIOUS
    <3> QED BY <1>1, <3>1, <3>2, LossesReset, Zenon
  <2>4. <<Chat>> \in Seq(Int)
    BY DEF Chat
  <2>5. session' \in Nat /\ session' > 0
    BY <1>1 DEF TypeInv
  <2>6. /\ queue' \in Seq(Int) /\ pushed' \in Seq(Int) /\ enqueued' \in Int /\ sequence' \in Nat
        /\ batch' \in Batch /\ inFlight' \subseteq Batch /\ handed' \in State /\ uploading' \in State
    BY <1>1, <2>1, <2>4
  <2>7. /\ active' \in BOOLEAN /\ ended' \in BOOLEAN /\ sawEnded' \in BOOLEAN
        /\ sender' \in {"none", "sleep", "drain", "post", "reply"}
    BY <1>1
  <2> QED BY <2>2, <2>3, <2>5, <2>6, <2>7 DEF TypeInv
<1>3. server'.file = <<>> /\ server'.last = -1 /\ server'.closed = FALSE /\ server'.state = NoState
  BY <1>1 DEF EmptyServer
<1>4. BatchInv'
  BY <1>1, <1>3 DEF BatchInv
<1>5. EndInv'
  BY <1>1, <1>3 DEF EndInv
<1>6. Eventual' = <<Header>> \o <<Chat>>
  <2>1. Eventual' = <<>> \o <<Header>> \o <<Chat>>
    BY <1>1, <1>3 DEF Eventual
  <2>2. <<>> \o <<Header>> = <<Header>>
    BY ConcatEmptySeq DEF Header
  <2> QED BY <2>1, <2>2
<1>7. LosslessInv'
  BY <1>1, <1>6 DEF LosslessInv, Whole
<1>8. CountInv'
  <2>1. FrameOf(pushed)' = 0
    BY <1>1, FrameOfMarker DEF FrameOf
  <2>2. <<Header>> \in Seq(UpTo(0)) /\ <<Chat>> \in Seq(UpTo(0))
    BY DEF Header, Chat, UpTo
  <2>3. <<Header>> \o <<Chat>> \in Seq(UpTo(0)) /\ Len(<<Header>> \o <<Chat>>) = 2
    BY <2>2, ConcatProperties
  <2> QED BY <1>1, <1>6, <2>1, <2>3 DEF CountInv
<1>9. StateInv'
  BY <1>1, <1>3 DEF StateInv, Right
<1> QED BY <1>2, <1>4, <1>5, <1>7, <1>8, <1>9

\* What StreamEnqueue does to the places.
LEMMA Enqueued ==
  ASSUME IInv, Push
  PROVE  \E r \in Int :
           /\ r > 0 => r = FrameOf(pushed) + 1
           /\ pushed' = Append(pushed, r)
           /\ \/ /\ queue' = Append(queue, r) /\ enqueued' = enqueued + 1 /\ losses' = losses
              \/ /\ queue # <<>> /\ queue' = Append(Tail(queue), r) /\ enqueued' = enqueued
                 /\ losses' = [losses EXCEPT !.dropped = losses.dropped + 1]
<1>1. FrameOf(pushed) \in Nat /\ queue \in Seq(Int)
  BY FrameOfType DEF IInv, TypeInv
<1>2. PICK r \in {Chat, FrameOf(pushed) + 1} : StreamEnqueue(r)
  BY DEF Push
<1>3. r \in Int /\ (r > 0 => r = FrameOf(pushed) + 1)
  BY <1>1 DEF Chat
<1>4. CASE Len(queue) = QueueCap
  <2>1. queue # <<>>
    BY <1>1, <1>4, EmptySeq, LiveStreamAssumption
  <2>2. /\ queue' = Append(Tail(queue), r) /\ enqueued' = enqueued + 0
        /\ losses' = [losses EXCEPT !.dropped = losses.dropped + 1] /\ pushed' = Append(pushed, r)
    BY <1>2, <1>4 DEF StreamEnqueue
  <2>3. enqueued + 0 = enqueued
    BY DEF IInv, TypeInv
  <2> QED BY <1>3, <2>1, <2>2, <2>3
<1>5. CASE Len(queue) # QueueCap
  BY <1>2, <1>3, <1>5 DEF StreamEnqueue
<1> QED BY <1>4, <1>5

LEMMA PushStep == IInv /\ Push => IInv'
<1> SUFFICES ASSUME IInv, Push PROVE IInv'
  OBVIOUS
<1> USE DEF IInv
<1>1. /\ active /\ ~ended
      /\ UNCHANGED <<active, ended, sequence, handed, sender, sawEnded, batch, uploading, server,
                     inFlight, session>>
  BY DEF Push, streamThreads
<1> PICK F \in Nat : F = FrameOf(pushed)
  BY FrameOfType DEF TypeInv
<1>2. PICK r \in Int :
           /\ r > 0 => r = F + 1
           /\ pushed' = Append(pushed, r)
           /\ \/ /\ queue' = Append(queue, r) /\ enqueued' = enqueued + 1 /\ losses' = losses
              \/ /\ queue # <<>> /\ queue' = Append(Tail(queue), r) /\ enqueued' = enqueued
                 /\ losses' = [losses EXCEPT !.dropped = losses.dropped + 1]
  BY Enqueued
<1>3. /\ queue \in Seq(Int) /\ pushed \in Seq(Int) /\ enqueued \in Int /\ session > 0
      /\ losses \in [dropped : Nat, refused : Nat, cut : Int, asked : Nat]
  BY <1>1 DEF TypeInv
<1>4. /\ losses' \in [dropped : Nat, refused : Nat, cut : Int, asked : Nat]
      /\ losses'.refused = losses.refused
      /\ \/ losses' = losses /\ queue' = Append(queue, r) /\ enqueued' = enqueued + 1
         \/ /\ losses'.dropped = losses.dropped + 1 /\ queue # <<>>
            /\ queue' = Append(Tail(queue), r) /\ enqueued' = enqueued
  <2>1. losses.dropped + 1 \in Nat
    BY <1>3
  <2> QED BY <1>2, <1>3, <2>1
\* The frames: one more, or as many.
<1> PICK G \in Nat : G = FrameOf(pushed')
  <2>1. pushed' \in Seq(Int)
    BY <1>2, <1>3, AppendProperties
  <2> QED BY <2>1, FrameOfType
<1>5. F <= G /\ r \in UpTo(G)
  <2>1. (r > 0 => G = F + 1) /\ (~(r > 0) => G = F)
    BY <1>2, <1>3, FrameOfAppend
  <2> QED BY <1>2, <2>1 DEF UpTo
\* The queue.
<1> PICK rest \in Seq(Int) :
      /\ rest = queue \/ (rest = Tail(queue) /\ queue # <<>>)
      /\ queue' = Append(rest, r)
  <2>1. CASE queue' = Append(queue, r)
    <3>1. queue \in Seq(Int)
      BY <1>3
    <3> WITNESS queue \in Seq(Int)
    <3> QED BY <2>1
  <2>2. CASE queue' = Append(Tail(queue), r) /\ queue # <<>>
    <3>1. Tail(queue) \in Seq(Int)
      BY <1>3, <2>2, HeadTailProperties
    <3> QED BY <2>2, <3>1
  <2> QED BY <1>4, <2>1, <2>2
<1>6. TypeInv'
  <2>1. queue' \in Seq(Int) /\ pushed' \in Seq(Int)
    BY <1>2, <1>3, AppendProperties
  <2>2. enqueued' \in Int
    BY <1>2, <1>3
  <2> QED BY <1>1, <1>4, <2>1, <2>2 DEF TypeInv
<1>7. BatchInv'
  BY <1>1 DEF BatchInv
<1>8. EndInv'
  BY <1>1 DEF EndInv
\* What is between the server's file and the queue stays.
<1> PICK file \in Seq(Int) : file = server.file
  BY DEF TypeInv
<1> PICK pend \in Seq(Int) : pend = Pending
  BY EventualParts
<1> DEFINE head == Cat(file, pend)
<1>9. /\ head \in Seq(Int) /\ Eventual = Cat(head, queue) /\ Eventual \in Seq(Int)
      /\ Eventual' = Cat(head, queue')
  <2>1. Pending' = Pending
    BY <1>1 DEF Pending
  <2>2. Eventual' = server.file \o Pending \o queue'
    BY <1>1, <2>1 DEF Eventual, Pending
  <2> QED BY <2>2, EventualParts, CatType DEF Cat
<1> HIDE DEF head
<1>10. ASSUME losses' = losses, queue' = Append(queue, r)
       PROVE  Eventual' = Append(Eventual, r)
  <2>1. Cat(head, Append(queue, r)) = Append(Cat(head, queue), r)
    <3>1. head \in Seq(Int) /\ queue \in Seq(Int) /\ r \in Int
      BY <1>2, <1>3, <1>9
    <3> QED BY <3>1, CatAppend, Zenon
  <2> QED BY <1>9, <1>10, <2>1
<1>11. LosslessInv'
  <2> SUFFICES ASSUME Lossless' PROVE Eventual' = Whole'
    BY DEF LosslessInv
  <2>1. losses'.dropped = 0 /\ losses' = losses /\ queue' = Append(queue, r)
    <3>1. losses.dropped \in Nat /\ losses'.dropped = 0
      BY <1>3 DEF Lossless
    <3>2. losses'.dropped # losses.dropped + 1
      BY <3>1
    <3> QED BY <1>4, <3>1, <3>2
  <2>2. Eventual' = Append(Eventual, r) /\ Eventual = Whole
    BY <1>10, <2>1 DEF LosslessInv, Lossless
  <2>3. Append(Whole, r) = Whole'
    <3>1. <<Header>> \in Seq(Int)
      BY DEF Header
    <3>2. Cat(<<Header>>, Append(pushed, r)) = Append(Cat(<<Header>>, pushed), r)
      BY <1>3, <3>1, CatAppend
    <3> QED BY <1>2, <3>2 DEF Whole, Cat
  <2> QED BY <2>2, <2>3
<1>12. losses.refused = 0 =>
         /\ Eventual' \in Seq(UpTo(G)) /\ enqueued' = Len(Eventual') /\ Len(Eventual) <= Len(Eventual')
         /\ enqueued = Len(Eventual)
  <2> SUFFICES ASSUME losses.refused = 0
               PROVE  /\ Eventual' \in Seq(UpTo(G)) /\ enqueued' = Len(Eventual')
                      /\ Len(Eventual) <= Len(Eventual') /\ enqueued = Len(Eventual)
    OBVIOUS
  <2>1. Eventual \in Seq(UpTo(F)) /\ enqueued = Len(Eventual)
    BY <1>3 DEF CountInv
  <2>2. UpTo(F) \subseteq UpTo(G) /\ UpTo(G) \subseteq Int
    BY <1>5 DEF UpTo
  <2>3. Cat(head, queue) \in Seq(UpTo(G))
    BY <1>9, <2>1, <2>2, SeqMonotonic
  <2>4. head \in Seq(UpTo(G)) /\ queue \in Seq(UpTo(G))
    BY <1>3, <1>9, <2>2, <2>3, ConcatIn DEF Cat
  <2>5. rest \in Seq(UpTo(G))
    BY <2>4, HeadTailProperties
  <2>6. queue' \in Seq(UpTo(G))
    BY <1>5, <2>5, AppendProperties
  <2>7. Cat(head, queue') \in Seq(UpTo(G))
    BY <2>4, <2>6, ConcatProperties DEF Cat
  <2>8. Len(Cat(head, queue)) = Len(head) + Len(queue) /\ Len(Cat(head, queue')) = Len(head) + Len(queue')
    BY <2>4, <2>6, ConcatProperties DEF Cat
  <2>9. Len(head) \in Nat /\ Len(queue) \in Nat
    BY <1>3, <1>9, LenProperties
  <2>10. \/ enqueued' = enqueued + 1 /\ Len(queue') = Len(queue) + 1
         \/ enqueued' = enqueued /\ Len(queue') = Len(queue)
    <3>1. CASE queue' = Append(queue, r) /\ enqueued' = enqueued + 1
      BY <1>3, <3>1, AppendProperties
    <3>2. CASE queue # <<>> /\ queue' = Append(Tail(queue), r) /\ enqueued' = enqueued
      <4>1. Tail(queue) \in Seq(Int) /\ Len(Tail(queue)) = Len(queue) - 1
        BY <1>3, <3>2, HeadTailProperties
      <4>2. Len(queue') = Len(Tail(queue)) + 1
        BY <3>2, <4>1, AppendProperties
      <4> HIDE <3>2
      <4>3. \A a, b, c \in Int : b = a - 1 /\ c = b + 1 => c = a
        OBVIOUS
      <4>4. Len(queue) \in Int /\ Len(Tail(queue)) \in Int /\ Len(queue') \in Int
        BY <2>9, <4>1, <4>2
      <4> QED BY <3>2, <4>1, <4>2, <4>3, <4>4
    <3> QED BY <1>4, <3>1, <3>2
  <2>11. Len(Eventual) = Len(head) + Len(queue) /\ Len(Eventual') = Len(head) + Len(queue')
    BY <1>9, <2>8
  <2>12. Eventual' \in Seq(UpTo(G))
    BY <1>9, <2>7
  <2> PICK a \in Nat : a = Len(head)
    BY <2>9
  <2> PICK b \in Nat : b = Len(queue)
    BY <2>9
  <2>13. enqueued = a + b
    BY <2>1, <2>11
  <2>14. Len(Eventual) <= Len(Eventual') /\ enqueued' = Len(Eventual')
    <3>1. CASE enqueued' = enqueued + 1 /\ Len(queue') = Len(queue) + 1
      <4>1. Len(Eventual) = a + b /\ Len(Eventual') = a + (b + 1) /\ enqueued' = a + b + 1
        BY <2>11, <2>13, <3>1
      <4> QED BY <4>1
    <3>2. CASE enqueued' = enqueued /\ Len(queue') = Len(queue)
      <4>1. Len(Eventual) = a + b /\ Len(Eventual') = a + b /\ enqueued' = a + b
        BY <2>11, <2>13, <3>2
      <4> QED BY <4>1
    <3> QED BY <2>10, <3>1, <3>2
  <2> QED BY <2>1, <2>12, <2>14
<1>13. CountInv'
  <2>1. FrameOf(pushed)' = G
    BY DEF FrameOf
  <2> QED BY <1>4, <1>12, <2>1 DEF CountInv
<1>14. ASSUME NEW st \in State, st # NoState,
              st.dropped <= losses.dropped,
              losses.refused = 0 =>
                /\ st.frame <= F /\ st.offset <= Len(Eventual)
                /\ st.dropped = losses.dropped =>
                     \A i \in DOMAIN Eventual :
                       Eventual[i] > 0 => (i <= st.offset <=> Eventual[i] <= st.frame)
       PROVE  /\ st.dropped <= losses'.dropped
              /\ losses'.refused = 0 =>
                   /\ st.frame <= G /\ st.offset <= Len(Eventual')
                   /\ st.dropped = losses'.dropped =>
                        \A i \in DOMAIN Eventual' :
                          Eventual'[i] > 0 => (i <= st.offset <=> Eventual'[i] <= st.frame)
  <2>1. st.dropped \in Nat /\ st.frame \in Int /\ st.offset \in Int /\ losses.dropped \in Nat
    BY <1>3 DEF State
  <2>2. st.dropped <= losses'.dropped
    <3>1. losses'.dropped = losses.dropped \/ losses'.dropped = losses.dropped + 1
      BY <1>4
    <3> QED BY <1>14, <2>1, <3>1
  <2>3. ASSUME losses.refused = 0 PROVE st.frame <= G /\ st.offset <= Len(Eventual')
    <3>1. Len(Eventual) \in Int /\ Len(Eventual') \in Int /\ Len(Eventual) <= Len(Eventual')
      BY <1>9, <1>12, <2>3, LenProperties
    <3> QED BY <1>5, <1>14, <2>1, <2>3, <3>1
  <2>4. ASSUME losses.refused = 0, st.dropped = losses'.dropped, NEW i \in DOMAIN Eventual',
               Eventual'[i] > 0
        PROVE  i <= st.offset <=> Eventual'[i] <= st.frame
    <3>1. losses' = losses /\ queue' = Append(queue, r)
      <4>1. losses'.dropped # losses.dropped + 1
        BY <1>14, <2>1, <2>4
      <4> QED BY <1>4, <4>1
    <3>2. Eventual' = Append(Eventual, r)
      BY <1>10, <3>1
    <3> PICK L \in Nat : L = Len(Eventual)
      BY <1>9, LenProperties
    <3>3. /\ i \in 1 .. L + 1 /\ DOMAIN Eventual = 1 .. L
          /\ (\A j \in 1 .. L : Eventual'[j] = Eventual[j]) /\ Eventual'[L + 1] = r
      <4>1. Append(Eventual, r) \in Seq(Int) /\ Len(Append(Eventual, r)) = L + 1
            /\ (\A j \in 1 .. L : Append(Eventual, r)[j] = Eventual[j]) /\ Append(Eventual, r)[L + 1] = r
        BY <1>9, AppendProperties
      <4>2. DOMAIN Append(Eventual, r) = 1 .. L + 1 /\ DOMAIN Eventual = 1 .. L
        BY <1>9, <4>1, LenProperties
      <4> QED BY <2>4, <3>2, <4>1, <4>2
    <3>4. CASE i \in 1 .. L
      <4>1. Eventual'[i] = Eventual[i] /\ i \in DOMAIN Eventual
        BY <3>3, <3>4
      <4> QED BY <1>14, <2>4, <3>1, <4>1
    <3>5. CASE i = L + 1
      <4>1. r = F + 1 /\ Eventual'[i] = r
        BY <1>2, <2>4, <3>3, <3>5
      <4>2. st.offset <= L /\ st.frame <= F
        BY <1>14, <2>4
      <4> QED BY <2>1, <3>5, <4>1, <4>2
    <3>6. i \in 1 .. L \/ i = L + 1
      BY <3>3
    <3> QED BY <3>4, <3>5, <3>6
  <2> QED BY <1>4, <2>2, <2>3, <2>4
<1>15. ASSUME NEW st \in State, Right(st) PROVE Right(st)'
  <2>1. FrameOf(pushed)' = G
    BY DEF FrameOf
  <2> QED BY <1>14, <1>15, <2>1 DEF Right, Exact
<1>16. StateInv'
  <2>1. handed \in State /\ uploading \in State /\ server.state \in State
    BY DEF TypeInv
  <2>2. handed' = handed /\ uploading' = uploading /\ server'.state = server.state
    BY <1>1
  <2>3. Right(handed)'
    BY <1>15, <2>1, <2>2 DEF StateInv, Right, Exact
  <2>4. Right(uploading)'
    BY <1>15, <2>1, <2>2 DEF StateInv, Right, Exact
  <2>5. Right(server.state)'
    BY <1>15, <2>1, <2>2 DEF StateInv, Right, Exact
  <2> QED BY <2>3, <2>4, <2>5 DEF StateInv
<1> QED BY <1>6, <1>7, <1>8, <1>11, <1>13, <1>16

-----------------------------------------------------------------------------
(* The theorem                                                             *)

LEMMA InitIInv == StreamInit => IInv
<1> SUFFICES ASSUME StreamInit PROVE IInv
  OBVIOUS
<1>1. /\ queue = <<>> /\ enqueued = 0 /\ active = FALSE /\ ended = FALSE /\ sequence = 0
      /\ sender = "none" /\ sawEnded = FALSE /\ batch = NoBatch
      /\ handed = NoState /\ uploading = NoState
      /\ server = EmptyServer /\ inFlight = {} /\ session = 0 /\ pushed = <<>>
      /\ losses = [dropped |-> 0, refused |-> 0, cut |-> 0, asked |-> 0]
  BY DEF StreamInit
<1>2. server.file = <<>> /\ server.last = -1 /\ server.closed = FALSE /\ server.state = NoState
  BY <1>1 DEF EmptyServer
<1>3. <<>> \in Seq(Int)
  OBVIOUS
<1>4. TypeInv
  <2>1. NoBatch \in Batch /\ NoState \in State
    BY DEF NoBatch, NoState, Batch, State
  <2>2. server \in [file : Seq(Int), last : Int, closed : BOOLEAN, asked : BOOLEAN, state : State]
    BY <1>1, <2>1 DEF EmptyServer
  <2>3. losses \in [dropped : Nat, refused : Nat, cut : Int, asked : Nat]
    BY <1>1
  <2>4. /\ queue \in Seq(Int) /\ pushed \in Seq(Int) /\ enqueued \in Int /\ sequence \in Nat
        /\ session \in Nat /\ batch \in Batch /\ inFlight \subseteq Batch
        /\ handed \in State /\ uploading \in State
    BY <1>1, <1>3, <2>1
  <2>5. /\ active \in BOOLEAN /\ ended \in BOOLEAN /\ sawEnded \in BOOLEAN /\ ~active
        /\ sender \in {"none", "sleep", "drain", "post", "reply"}
    BY <1>1
  <2> QED BY <2>2, <2>3, <2>4, <2>5 DEF TypeInv
<1>5. BatchInv
  BY <1>1, <1>2 DEF BatchInv
<1>6. EndInv
  BY <1>1, <1>2 DEF EndInv
<1>7. <<Header>> \in Seq(Int)
  BY DEF Header
<1>8. Eventual = <<Header>>
  <2>1. Eventual = <<>> \o <<Header>> \o <<>>
    BY <1>1, <1>2 DEF Eventual
  <2> QED BY <1>7, <2>1, ConcatEmptySeq
<1>9. LosslessInv
  BY <1>1, <1>7, <1>8, ConcatEmptySeq DEF LosslessInv, Whole
<1>10. CountInv
  <2>1. FrameOf(pushed) = 0
    <3>1. {i \in DOMAIN pushed : pushed[i] > 0} = {}
      BY <1>1
    <3> QED BY <3>1, FS_EmptySet DEF FrameOf
  <2>2. Eventual \in Seq(UpTo(0))
    BY <1>8 DEF Header, UpTo
  <2> QED BY <1>1, <2>1, <2>2 DEF CountInv
<1>11. StateInv
  BY <1>1, <1>2 DEF StateInv, Right
<1> QED BY <1>4, <1>5, <1>6, <1>9, <1>10, <1>11 DEF IInv

LEMMA NextIInv == IInv /\ [StreamNext]_streamVars => IInv'
<1> SUFFICES ASSUME IInv, [StreamNext]_streamVars PROVE IInv'
  OBVIOUS
<1>1. CASE UNCHANGED streamVars
  <2>1. UNCHANGED <<queue, enqueued, active, ended, sequence, handed, sender, sawEnded, batch, uploading,
                    server, inFlight, session, pushed, losses>>
    BY <1>1 DEF streamVars, streamHost, streamThreads
  <2>2. TypeInv' /\ BatchInv' /\ EndInv'
    BY <2>1 DEF IInv, TypeInv, BatchInv, EndInv
  <2>3. Eventual' = Eventual
    BY <2>1, Untouched
  <2>4. LosslessInv' /\ CountInv' /\ StateInv'
    BY <2>1, <2>3, Moved
  <2> QED BY <2>2, <2>4 DEF IInv
<1>2. CASE StreamNext
  BY <1>2, StartSessionStep, PushStep, CheckStateRequestedStep, EndSessionStep, StreamShutdownStep,
     StreamKilledStep, SenderWakeStep, StreamDrainStep, PostBatchStep, RetryStep, DeliveredStep,
     BatchRefusedStep, ServerTakesStep, KeeperTakesStep, KeeperUploadsStep, KeeperPollsStep,
     KeeperEndsStep, SpectatorAsksStep DEF StreamNext
<1> QED BY <1>1, <1>2

LEMMA IsPrefixOfConcat ==
  ASSUME NEW a \in Seq(Int), NEW b \in Seq(Int)
  PROVE  IsPrefix(a, a \o b)
<1> PICK c \in Seq(Int) : c = a \o b
  BY ConcatProperties
<1> PICK m \in Nat : m = Len(a)
  BY LenProperties
<1> PICK n \in Nat : n = Len(b)
  BY LenProperties
<1>1. Len(c) = m + n /\ \A i \in 1 .. m : c[i] = a[i]
  BY ConcatProperties
<1>2. SubSeq(a, 1, m) = a
  BY SubSeqFull
<1>3. \A i \in 1 .. m : c[i] \in Int
  BY <1>1, ElementOfSeq
<1>4. SubSeq(c, 1, m) \in Seq(Int) /\ Len(SubSeq(c, 1, m)) = m
      /\ \A i \in 1 .. m : SubSeq(c, 1, m)[i] = c[i]
  BY <1>3, SubSeqProperties
<1>5. SubSeq(c, 1, m) = a
  BY <1>1, <1>4, SeqEqual
<1> QED BY <1>1, <1>2, <1>5 DEF IsPrefix

\* The server's file is what the three places began with, and all of it once the end is in it.
LEMMA IInvFileIsRight == IInv => FileIsRight
<1> SUFFICES ASSUME IInv, Lossless
             PROVE  /\ IsPrefix(server.file, Whole)
                    /\ (server.closed /\ losses.cut = 0) => server.file = Whole
  BY DEF FileIsRight
<1> USE DEF IInv
<1>1. Whole = Eventual /\ Eventual = server.file \o Pending \o queue
  BY EventualParts DEF LosslessInv
<1>2. server.file \in Seq(Int) /\ Pending \in Seq(Int) /\ queue \in Seq(Int)
  BY EventualParts
<1>3. Pending \o queue \in Seq(Int) /\ Whole = server.file \o (Pending \o queue)
  <2>1. Pending \o queue \in Seq(Int)
    BY <1>2, ConcatProperties
  <2>2. Cat(Cat(server.file, Pending), queue) = Cat(server.file, Cat(Pending, queue))
    <3>1. \A a, b, c \in Seq(Int) : Cat(Cat(a, b), c) = Cat(a, Cat(b, c))
      BY CatAssociative
    <3> QED BY <1>2, <3>1
  <2> QED BY <1>1, <2>1, <2>2, Zenon DEF Cat
<1>4. IsPrefix(server.file, Whole)
  BY <1>2, <1>3, IsPrefixOfConcat
<1>5. ASSUME server.closed, losses.cut = 0 PROVE server.file = Whole
  <2>1. Len(queue) = 0 /\ Pending = <<>>
    <3>1. batch # NoBatch => batch.seq \in Int /\ server.last \in Int
      BY DEF TypeInv, Batch
    <3> QED BY <1>5, <3>1 DEF EndInv, Pending, TypeInv
  <2>2. queue = <<>>
    BY <1>2, <2>1, EmptySeq
  <2>3. server.file \o <<>> = server.file
    BY <1>2, ConcatEmptySeq
  <2> QED BY <1>1, <2>1, <2>2, <2>3
<1> QED BY <1>4, <1>5

LEMMA IInvStateIsExact == IInv => StateIsExact
BY DEF IInv, StateInv, Right, Exact, StateIsExact

\* What a spectator sees is the game that is played, however long the session and its queue are and
\* however often a post is lost, repeated or answered late: without a loss the server's file is the
\* session up to some record, and the offset that goes with a downloaded state separates the inputs
\* the state has applied from those it has not (n02_stream.cpp).
THEOREM SpecStreamIsExact == StreamSpec => []StreamIsExact
<1>1. StreamSpec => []IInv
  BY InitIInv, NextIInv, PTL DEF StreamSpec
<1>2. IInv => StreamIsExact
  BY IInvFileIsRight, IInvStateIsExact DEF StreamIsExact
<1> QED BY <1>1, <1>2, PTL
-----------------------------------------------------------------------------
\* What a spectator sees.

Unit == [kind : {"head", "input", "chat", "text", "header"}, frame : Nat]

\* A set of numbers that is not empty has a smallest.
LEMMA LeastOf ==
  ASSUME NEW S, S \subseteq Nat, S # {}
  PROVE  \E x \in S : \A y \in S : x <= y
<1>1. \E x \in S : \A y \in S : <<y, x>> \notin OpToRel(<, Nat)
  BY NatLessThanWellFounded, WFMin
<1>2. PICK x \in S : \A y \in S : <<y, x>> \notin OpToRel(<, Nat)
  BY <1>1
<1>3. \A y \in S : ~ (y < x)
  BY <1>2 DEF OpToRel
<1> QED
  BY <1>3

LEMMA FileUnits ==
  /\ File \in Seq(Unit) /\ Len(File) \in Nat /\ HeaderUnits \in 0..Len(File) /\ DOMAIN File = 1..Len(File)
  /\ \A i \in 1..Len(File) : File[i] \in Unit
<1>1. File \in Seq(Unit) /\ HeaderUnits \in 0..Len(File)
  BY WatchAssumption DEF Unit
<1> QED
  BY <1>1

\* How many heads the file has up to a place.
HeadsIn(m, n) == {i \in m + 1..n : File[i].kind = "head"}
Heads(n) == Cardinality(HeadsIn(0, n))

LEMMA HeadsFinite ==
  ASSUME NEW m \in Nat, NEW n \in Nat
  PROVE  IsFiniteSet(HeadsIn(m, n)) /\ Cardinality(HeadsIn(m, n)) \in Nat /\ Heads(n) \in Nat
<1>1. IsFiniteSet(m + 1..n) /\ IsFiniteSet(0 + 1..n)
  BY FS_Interval
<1>2. HeadsIn(m, n) \in SUBSET (m + 1..n) /\ HeadsIn(0, n) \in SUBSET (0 + 1..n)
  BY DEF HeadsIn
<1>3. IsFiniteSet(HeadsIn(m, n)) /\ IsFiniteSet(HeadsIn(0, n))
  BY <1>1, <1>2, FS_Subset
<1> QED
  BY <1>3, FS_CardinalityType DEF Heads

LEMMA HeadsBetween ==
  ASSUME NEW m \in Nat, NEW n \in Nat, m <= n
  PROVE  Heads(n) = Heads(m) + Cardinality(HeadsIn(m, n))
<1>1. HeadsIn(0, n) = HeadsIn(0, m) \cup HeadsIn(m, n) /\ HeadsIn(0, m) \cap HeadsIn(m, n) = {}
  BY DEF HeadsIn
<1>2. /\ IsFiniteSet(HeadsIn(0, m)) /\ IsFiniteSet(HeadsIn(m, n))
      /\ Cardinality(HeadsIn(0, m)) \in Nat /\ Cardinality(HeadsIn(m, n)) \in Nat
  BY HeadsFinite
<1>3. Cardinality(HeadsIn(0, n)) = Cardinality(HeadsIn(0, m)) + Cardinality(HeadsIn(m, n)) - Cardinality({})
  BY <1>1, <1>2, FS_Union
<1>4. Cardinality({}) = 0
  BY FS_EmptySet
<1> QED
  BY <1>2, <1>3, <1>4 DEF Heads

LEMMA HeadsGrow ==
  ASSUME NEW m \in Nat, NEW n \in Nat, m <= n
  PROVE  Heads(m) <= Heads(n) /\ Heads(m) \in Nat /\ Heads(n) \in Nat
<1>1. Heads(n) = Heads(m) + Cardinality(HeadsIn(m, n))
  BY HeadsBetween
<1>2. Cardinality(HeadsIn(m, n)) \in Nat /\ Heads(m) \in Nat /\ Heads(n) \in Nat
  BY HeadsFinite
<1> QED
  BY <1>1, <1>2

LEMMA HeadsStep ==
  ASSUME NEW n \in Nat
  PROVE  /\ Heads(n) \in Nat
         /\ Heads(n + 1) = Heads(n) + (IF File[n + 1].kind = "head" THEN 1 ELSE 0)
<1>1. n + 1 \in Nat /\ n <= n + 1
  OBVIOUS
<1>2. Heads(n + 1) = Heads(n) + Cardinality(HeadsIn(n, n + 1)) /\ Heads(n) \in Nat
  BY <1>1, HeadsBetween, HeadsFinite
<1>3. HeadsIn(n, n + 1) = IF File[n + 1].kind = "head" THEN {n + 1} ELSE {}
  BY DEF HeadsIn
<1>4. Cardinality({n + 1}) = 1 /\ Cardinality({}) = 0
  BY FS_Singleton, FS_EmptySet
<1> QED
  BY <1>2, <1>3, <1>4

LEMMA NoHeads == ASSUME NEW n \in 0..HeaderUnits PROVE Heads(n) = 0
<1>1. HeadsIn(0, n) = {}
  BY FileUnits, WatchAssumption DEF HeadsIn, WholeRecords
<1> QED
  BY <1>1, FS_EmptySet DEF Heads

\* What is counted in a part of a buffer that holds a part of the file.
LEMMA FramesOf ==
  ASSUME NEW s \in Seq(Unit), NEW b \in Nat, \A i \in 1..Len(s) : s[i] = File[b + i],
         NEW m \in Nat, NEW n \in Nat, m <= n, n <= Len(s)
  PROVE  Frames(SubSeq(s, m + 1, n)) = Heads(b + n) - Heads(b + m)
<1> DEFINE t == SubSeq(s, m + 1, n)
           A == {i \in DOMAIN t : t[i].kind = "head"}
           B == HeadsIn(b + m, b + n)
           f == [i \in A |-> b + m + i]
<1>1. \A i \in m + 1..n : s[i] \in Unit
  <2>1. Len(s) \in Nat /\ \A i \in 1..Len(s) : s[i] \in Unit
    OBVIOUS
  <2>2. \A i \in m + 1..n : i \in 1..Len(s)
    BY <2>1
  <2> QED
    BY <2>1, <2>2
<1>2. /\ t \in Seq(Unit) /\ Len(t) = n - m
      /\ \A i \in 1..n - m : t[i] = s[m + i]
  <2>1. /\ t \in Seq(Unit) /\ Len(t) = (IF m + 1 <= n THEN n - (m + 1) + 1 ELSE 0)
        /\ \A i \in 1..n - (m + 1) + 1 : t[i] = s[m + 1 + i - 1]
    BY <1>1, SubSeqProperties
  <2>2. (IF m + 1 <= n THEN n - (m + 1) + 1 ELSE 0) = n - m /\ n - (m + 1) + 1 = n - m
    OBVIOUS
  <2>3. \A i \in 1..n - m : m + 1 + i - 1 = m + i
    OBVIOUS
  <2> QED
    BY <2>1, <2>2, <2>3
<1>3. DOMAIN t = 1..n - m
  BY <1>2
<1>4. \A i \in 1..n - m : t[i] = File[b + m + i]
  <2>1. Len(s) \in Nat
    OBVIOUS
  <2>2. ASSUME NEW i \in 1..n - m PROVE m + i \in 1..Len(s) /\ b + (m + i) = b + m + i
    BY <2>1
  <2> QED
    BY <1>2, <2>2
<1> HIDE DEF t
<1>5. A = {i \in 1..n - m : File[b + m + i].kind = "head"}
  BY <1>3, <1>4
<1>6. f \in [A -> B] /\ (\A i, j \in A : f[i] = f[j] => i = j) /\ \A k \in B : \E i \in A : f[i] = k
  <2>1. ASSUME NEW i \in A PROVE b + m + i \in B /\ f[i] = b + m + i /\ i \in 1..n - m
    BY <1>5 DEF HeadsIn
  <2>2. ASSUME NEW k \in B PROVE k - (b + m) \in A /\ f[k - (b + m)] = k
    <3>1. k \in b + m + 1..b + n /\ File[k].kind = "head"
      BY DEF HeadsIn
    <3>2. k - (b + m) \in 1..n - m /\ b + m + (k - (b + m)) = k
      BY <3>1
    <3>3. k - (b + m) \in A
      BY <1>5, <3>1, <3>2
    <3> QED
      BY <2>1, <3>2, <3>3
  <2>3. \A i, j \in A : f[i] = f[j] => i = j
    <3> SUFFICES ASSUME NEW i \in A, NEW j \in A, f[i] = f[j] PROVE i = j
      OBVIOUS
    <3>1. b + m + i = b + m + j /\ i \in 1..n - m /\ j \in 1..n - m
      BY <2>1
    <3> QED
      BY <3>1
  <2> QED
    BY <2>1, <2>2, <2>3
<1>7. IsFiniteSet(A)
  <2>1. IsFiniteSet(1..n - m)
    BY FS_Interval
  <2>2. A \in SUBSET (1..n - m)
    BY <1>5
  <2> QED
    BY <2>1, <2>2, FS_Subset
<1> HIDE DEF A, B, f
<1>8. Cardinality(B) = Cardinality(A)
  <2>1. f \in Bijection(A, B)
    BY <1>6, Fun_IsBij
  <2>2. ExistsBijection(A, B)
    BY <2>1 DEF ExistsBijection
  <2> QED
    BY <1>7, <2>2, FS_Bijection
<1>9. Frames(t) = Cardinality(A)
  BY DEF Frames, A
<1>10. Heads(b + n) = Heads(b + m) + Cardinality(B) /\ Heads(b + m) \in Nat /\ Cardinality(B) \in Nat
  <2>1. b + m \in Nat /\ b + n \in Nat /\ b + m <= b + n
    OBVIOUS
  <2> QED
    BY <2>1, HeadsBetween, HeadsFinite DEF B
<1> QED
  BY <1>8, <1>9, <1>10 DEF t
LEMMA FileFrames ==
  ASSUME NEW m \in Nat, NEW n \in Nat, m <= n, n <= Len(File)
  PROVE  Frames(SubSeq(File, m + 1, n)) = Heads(n) - Heads(m)
<1>1. PICK b \in Nat : b = 0
  OBVIOUS
<1>2. File \in Seq(Unit) /\ \A i \in 1..Len(File) : File[i] = File[b + i]
  BY <1>1, FileUnits
<1>3. Frames(SubSeq(File, m + 1, n)) = Heads(b + n) - Heads(b + m)
  BY <1>2, FramesOf
<1>4. b + n = n /\ b + m = m
  BY <1>1
<1> QED
  BY <1>3, <1>4, Zenon

\* The records of the file begin at every other place after the header.
LEMMA Parity ==
  ASSUME NEW k \in Nat
  PROVE  k % 2 \in {0, 1} /\ (k + 1) % 2 = 1 - (k % 2) /\ (k + 2) % 2 = k % 2
OBVIOUS

LEMMA Halves ==
  /\ (Len(File) - HeaderUnits) % 2 = 0
  /\ \A i \in HeaderUnits + 1..Len(File) :
       /\ (i - HeaderUnits) % 2 = 1 => File[i].kind \in {"head", "chat"}
       /\ (i - HeaderUnits) % 2 # 1 =>
            /\ File[i].kind \in {"input", "text"}
            /\ IF File[i - 1].kind = "head" THEN File[i] = [kind |-> "input", frame |-> Frames(SubSeq(File, 1, i))]
               ELSE File[i].kind = "text"
<1>1. WholeRecords
  BY WatchAssumption
<1>2. ASSUME NEW i \in HeaderUnits + 1..Len(File)
      PROVE  IF (i - HeaderUnits) % 2 = 1 THEN File[i].kind \in {"head", "chat"}
             ELSE IF File[i - 1].kind = "head" THEN File[i] = [kind |-> "input", frame |-> Frames(SubSeq(File, 1, i))]
             ELSE File[i].kind = "text"
  BY <1>1 DEF WholeRecords
<1>3. \A u, k : u = [kind |-> "input", frame |-> k] => u.kind = "input"
  OBVIOUS
<1>4. (Len(File) - HeaderUnits) % 2 = 0
  BY <1>1 DEF WholeRecords
<1> QED
  BY <1>2, <1>3, <1>4

LEMMA Places ==
  ASSUME NEW n \in HeaderUnits..Len(File)
  PROVE  n \in Boundaries <=> (n - HeaderUnits) % 2 = 0
<1>1. /\ HeaderUnits \in Nat /\ Len(File) \in Nat /\ n \in Nat /\ n - HeaderUnits \in Nat
      /\ (n - HeaderUnits) + 1 = (n + 1) - HeaderUnits
  BY FileUnits
<1>2. CASE n = Len(File)
  BY <1>2, Halves DEF Boundaries
<1>3. CASE n # Len(File)
  <2>1. n + 1 \in HeaderUnits + 1..Len(File) /\ (n + 1) - 1 = n
    BY <1>1, <1>3
  <2>2. (n - HeaderUnits) % 2 \in {0, 1} /\ (n + 1 - HeaderUnits) % 2 = 1 - ((n - HeaderUnits) % 2)
    BY <1>1, Parity
  <2>3. /\ (n + 1 - HeaderUnits) % 2 = 1 => File[n + 1].kind \in {"head", "chat"}
        /\ (n + 1 - HeaderUnits) % 2 # 1 => File[n + 1].kind \in {"input", "text"}
    <3>1. PICK i \in HeaderUnits + 1..Len(File) : i = n + 1
      BY <2>1
    <3>2. /\ (i - HeaderUnits) % 2 = 1 => File[i].kind \in {"head", "chat"}
          /\ (i - HeaderUnits) % 2 # 1 => File[i].kind \in {"input", "text"}
      BY Halves, Zenon
    <3> QED
      BY <1>1, <3>1, <3>2
  <2>4. n \in Boundaries <=> File[n + 1].kind \in {"head", "chat"}
    BY <1>3 DEF Boundaries
  <2>5. CASE (n - HeaderUnits) % 2 = 0
    <3>1. (n + 1 - HeaderUnits) % 2 = 1
      BY <1>1, <2>2, <2>5
    <3> QED
      BY <2>3, <2>4, <2>5, <3>1, Zenon
  <2>6. CASE (n - HeaderUnits) % 2 # 0
    <3>1. (n + 1 - HeaderUnits) % 2 # 1
      BY <1>1, <2>2, <2>6
    <3>2. File[n + 1].kind \in {"input", "text"}
      BY <2>3, <3>1, Zenon
    <3> QED
      BY <2>4, <2>6, <3>2
  <2> QED
    BY <2>5, <2>6
<1> QED
  BY <1>2, <1>3

LEMMA Records ==
  ASSUME NEW n \in Boundaries
  PROVE  /\ n \in HeaderUnits..Len(File) /\ n \in Nat
         /\ n < Len(File) => /\ n + 1 \in HeaderUnits..Len(File) /\ n + 1 \notin Boundaries
                             /\ n + 2 \in Boundaries
                             /\ File[n + 1].kind \in {"head", "chat"}
         /\ n > HeaderUnits => n - 2 \in Boundaries /\ File[n].kind \in {"input", "text"}
<1>1. n \in HeaderUnits..Len(File) /\ HeaderUnits \in Nat /\ Len(File) \in Nat /\ n \in Nat
  <2>1. n \in HeaderUnits..Len(File)
    BY Zenon DEF Boundaries
  <2>2. HeaderUnits \in Nat /\ Len(File) \in Nat
    BY FileUnits
  <2> QED
    BY <2>1, <2>2
<1>2. (n - HeaderUnits) % 2 = 0 /\ n - HeaderUnits \in Nat
  BY <1>1, Places
<1>3. (Len(File) - HeaderUnits) % 2 = 0
  BY Halves
<1>4. ASSUME n < Len(File)
      PROVE  /\ n + 1 \in HeaderUnits..Len(File) /\ n + 1 \notin Boundaries /\ n + 2 \in Boundaries
             /\ File[n + 1].kind \in {"head", "chat"}
  <2>1. n + 1 \in HeaderUnits..Len(File)
    BY <1>1, <1>4
  <2>2. ((n - HeaderUnits) + 1) % 2 = 1 /\ ((n - HeaderUnits) + 2) % 2 = 0
    BY <1>2, Parity
  <2>3. (n + 1) - HeaderUnits = (n - HeaderUnits) + 1 /\ (n + 2) - HeaderUnits = (n - HeaderUnits) + 2
    BY <1>1
  <2>4. n + 1 \notin Boundaries
    BY <2>1, <2>2, <2>3, Places
  <2>5. n + 2 \in HeaderUnits..Len(File)
    <3>1. n + 1 # Len(File)
      BY <1>3, <2>2, <2>3
    <3> QED
      BY <1>1, <2>1, <3>1
  <2>6. n + 2 \in Boundaries
    BY <2>2, <2>3, <2>5, Places
  <2>7. File[n + 1].kind \in {"head", "chat"}
    BY <1>4 DEF Boundaries
  <2> QED
    BY <2>1, <2>4, <2>6, <2>7
<1>5. ASSUME n > HeaderUnits
      PROVE  n - 2 \in Boundaries /\ File[n].kind \in {"input", "text"}
  <2>1. n - 1 \in HeaderUnits..Len(File) /\ n \in HeaderUnits + 1..Len(File) /\ n - 1 - HeaderUnits \in Nat
    BY <1>1, <1>5
  <2>2. (n - 1) - HeaderUnits + 1 = n - HeaderUnits
    BY <1>1
  <2>3. ((n - 1) - HeaderUnits) % 2 = 1
    BY <1>2, <2>1, <2>2, Parity
  <2>4. n - 1 # HeaderUnits
    BY <1>1, <2>1, <2>3
  <2>5. n - 2 \in HeaderUnits..Len(File) /\ (n - 2) - HeaderUnits \in Nat /\ ((n - 2) - HeaderUnits) + 2 = n - HeaderUnits
    BY <1>1, <2>1, <2>4
  <2>6. n - 2 \in Boundaries
    BY <1>2, <2>5, Parity, Places
  <2>7. File[n].kind \in {"input", "text"}
    <3>1. (n - HeaderUnits) % 2 # 1
      BY <1>2
    <3> QED
      BY <2>1, <3>1, Halves, Zenon
  <2> QED
    BY <2>6, <2>7
<1> QED
  BY <1>1, <1>4, <1>5

\* The second half of a record.
LEMMA SecondHalf ==
  ASSUME NEW n \in Boundaries, n < Len(File)
  PROVE  /\ File[n + 2] \in Unit
         /\ File[n + 1].kind = "head" => File[n + 2] = [kind |-> "input", frame |-> Heads(n + 2)]
         /\ File[n + 1].kind = "chat" => File[n + 2].kind = "text"
         /\ Heads(n + 2) = Heads(n + 1)
         /\ Heads(n + 1) = Heads(n) + (IF File[n + 1].kind = "head" THEN 1 ELSE 0)
<1>1. /\ n \in Nat /\ n + 2 \in Boundaries /\ n + 2 \in HeaderUnits + 1..Len(File) /\ n + 2 \in Nat
      /\ n + 2 > HeaderUnits /\ n + 1 \in Nat
  <2>1. n \in HeaderUnits..Len(File) /\ n \in Nat /\ n + 2 \in Boundaries
    BY Records
  <2>2. n + 2 \in HeaderUnits..Len(File) /\ HeaderUnits \in Nat /\ Len(File) \in Nat
    BY <2>1, Records, FileUnits
  <2> QED
    BY <2>1, <2>2
<1>2. ((n + 2) - HeaderUnits) % 2 = 0
  BY <1>1, FileUnits, Places
<1>3. n + 2 - 1 = n + 1 /\ (n + 1) + 1 = n + 2
  BY <1>1
<1>4. IF File[n + 1].kind = "head" THEN File[n + 2] = [kind |-> "input", frame |-> Frames(SubSeq(File, 1, n + 2))]
      ELSE File[n + 2].kind = "text"
  <2>1. ((n + 2) - HeaderUnits) % 2 # 1
    BY <1>2
  <2> QED
    BY <1>1, <1>3, <2>1, Halves
<1>5. Frames(SubSeq(File, 1, n + 2)) = Heads(n + 2)
  <2>1. n + 2 <= Len(File) /\ 0 \in Nat /\ 0 <= n + 2
    BY <1>1, FileUnits
  <2>2. Frames(SubSeq(File, 0 + 1, n + 2)) = Heads(n + 2) - Heads(0)
    BY <1>1, <2>1, FileFrames
  <2>3. Heads(0) = 0 /\ Heads(n + 2) \in Nat
    BY <1>1, FileUnits, NoHeads, HeadsFinite
  <2> QED
    BY <2>2, <2>3
<1>6. File[n + 2].kind # "head"
  BY <1>4
<1>7. /\ Heads(n + 2) = Heads(n + 1) + (IF File[n + 2].kind = "head" THEN 1 ELSE 0)
      /\ Heads(n + 1) = Heads(n) + (IF File[n + 1].kind = "head" THEN 1 ELSE 0) /\ Heads(n + 1) \in Nat
  BY <1>1, <1>3, HeadsStep
<1>8. File[n + 2] \in Unit
  BY <1>1, FileUnits
<1> QED
  BY <1>4, <1>5, <1>6, <1>7, <1>8

\* The whole records before a place.
WholeUpTo(n) == IF n \in Boundaries THEN n ELSE n - 1

LEMMA WholeBefore ==
  ASSUME NEW n \in HeaderUnits..Len(File)
  PROVE  /\ WholeUpTo(n) \in Boundaries /\ WholeUpTo(n) \in Nat /\ WholeUpTo(n) <= n /\ n - 1 <= WholeUpTo(n)
         /\ n \notin Boundaries => n - 1 \in Boundaries
         /\ \A m \in Boundaries : m <= n => m <= WholeUpTo(n)
<1>1. HeaderUnits \in Nat /\ Len(File) \in Nat /\ n \in Nat /\ n - HeaderUnits \in Nat
  BY FileUnits
<1>2. \A m \in Boundaries : m \in Nat
  BY Records
<1>3. CASE n \in Boundaries
  BY <1>1, <1>2, <1>3 DEF WholeUpTo
<1>4. CASE n \notin Boundaries
  <2>1. (n - HeaderUnits) % 2 # 0
    BY <1>4, Places
  <2>2. n # HeaderUnits
    BY <1>1, <2>1
  <2>3. n - 1 \in HeaderUnits..Len(File) /\ (n - 1) - HeaderUnits \in Nat /\ (n - 1) - HeaderUnits + 1 = n - HeaderUnits
    BY <1>1, <2>2
  <2>4. ((n - 1) - HeaderUnits) % 2 = 0
    BY <2>1, <2>3, Parity
  <2>5. n - 1 \in Boundaries
    BY <2>3, <2>4, Places
  <2>6. \A m \in Boundaries : m <= n => m <= n - 1
    BY <1>1, <1>2, <1>4
  <2>7. WholeUpTo(n) = n - 1
    BY <1>4 DEF WholeUpTo
  <2> QED
    BY <1>1, <1>2, <2>5, <2>6, <2>7
<1> QED
  BY <1>3, <1>4

\* A head is followed by its input, so that at most half of what is left is heads.
LEMMA HeadPlace ==
  ASSUME NEW i \in HeaderUnits + 1..Len(File), File[i].kind = "head"
  PROVE  i - 1 \in Boundaries /\ i < Len(File) /\ File[i + 1].kind # "head"
<1>1. HeaderUnits \in Nat /\ Len(File) \in Nat /\ i \in Nat /\ i \in HeaderUnits..Len(File)
  BY FileUnits
<1>2. i \notin Boundaries
  <2>1. ASSUME i \in Boundaries PROVE FALSE
    <3>1. i > HeaderUnits
      BY <1>1
    <3>2. File[i].kind \in {"input", "text"}
      BY <2>1, <3>1, Records
    <3> QED
      BY <3>2
  <2> QED
    BY <2>1
<1>3. i - 1 \in Boundaries
  BY <1>1, <1>2, WholeBefore
<1>4. i - 1 < Len(File) /\ (i - 1) + 1 = i /\ (i - 1) + 2 = i + 1
  BY <1>1
<1>5. i + 1 \in Boundaries
  BY <1>3, <1>4, Records
<1>6. i + 1 \in HeaderUnits..Len(File)
  BY <1>5, Records
<1>7. i + 1 > HeaderUnits
  BY <1>1
<1>8. File[i + 1].kind \in {"input", "text"}
  BY <1>5, <1>7, Records
<1> QED
  BY <1>1, <1>3, <1>6, <1>8

LEMMA HalfHeads ==
  ASSUME NEW n \in Boundaries, n < Len(File)
  PROVE  2 * (Heads(Len(File)) - Heads(n + 1)) <= Len(File) - (n + 1)
<1> DEFINE A == HeadsIn(n + 1, Len(File))
           B == {i + 1 : i \in A}
           f == [i \in A |-> i + 1]
           C == n + 2..Len(File)
<1>1. /\ n \in Nat /\ Len(File) \in Nat /\ HeaderUnits \in Nat /\ n + 2 \in HeaderUnits..Len(File) /\ n + 1 <= Len(File)
      /\ n + 1 \in Nat /\ HeaderUnits <= n
  <2>1. n \in HeaderUnits..Len(File) /\ n + 2 \in Boundaries
    BY Records
  <2>2. n + 2 \in HeaderUnits..Len(File)
    BY <2>1, Records
  <2> QED
    BY <2>1, <2>2, FileUnits
<1>2. ASSUME NEW i \in A PROVE i \in Nat /\ i \in C /\ i + 1 \in C /\ File[i].kind = "head" /\ File[i + 1].kind # "head"
  <2>1. i \in n + 2..Len(File) /\ File[i].kind = "head"
    BY <1>1 DEF HeadsIn
  <2>2. i \in HeaderUnits + 1..Len(File)
    BY <1>1, <2>1
  <2>3. i < Len(File) /\ File[i + 1].kind # "head"
    BY <2>1, <2>2, HeadPlace
  <2> QED
    BY <1>1, <2>1, <2>3
<1>3. A \cup B \in SUBSET C
  BY <1>2
<1>4. A \cap B = {}
  BY <1>2
<1>5. f \in [A -> B] /\ (\A i, j \in A : f[i] = f[j] => i = j) /\ \A k \in B : \E i \in A : f[i] = k
  BY <1>2
<1>6. IsFiniteSet(A) /\ Cardinality(A) \in Nat
  BY <1>1, HeadsFinite
<1>7. Heads(Len(File)) = Heads(n + 1) + Cardinality(A) /\ Heads(n + 1) \in Nat
  BY <1>1, HeadsBetween, HeadsFinite
<1>8. IsFiniteSet(C) /\ Cardinality(C) = Len(File) - (n + 1)
  <2>1. n + 2 \in Int /\ Len(File) \in Int
    BY <1>1
  <2>2. IsFiniteSet(C) /\ Cardinality(C) = IF n + 2 > Len(File) THEN 0 ELSE Len(File) - (n + 2) + 1
    BY <2>1, FS_Interval
  <2> QED
    BY <1>1, <2>2
<1> HIDE DEF A, B, C, f
<1>9. IsFiniteSet(B) /\ Cardinality(B) = Cardinality(A)
  <2>1. f \in Bijection(A, B)
    BY <1>5, Fun_IsBij
  <2>2. ExistsBijection(A, B)
    BY <2>1 DEF ExistsBijection
  <2> QED
    BY <1>6, <2>2, FS_Bijection
<1>10. Cardinality(A \cup B) = Cardinality(A) + Cardinality(B) - Cardinality({})
  BY <1>4, <1>6, <1>9, FS_Union
<1>11. Cardinality({}) = 0
  BY FS_EmptySet
<1>12. Cardinality(A \cup B) <= Cardinality(C)
  BY <1>3, <1>8, FS_Subset
<1> QED
  BY <1>1, <1>6, <1>7, <1>8, <1>9, <1>10, <1>11, <1>12
-----------------------------------------------------------------------------
\* The walk of a rewind.

\* A part of the file from b on.
Holds(s, b) == s \in Seq(Unit) /\ b \in Nat /\ b + Len(s) <= Len(File) /\ \A i \in 1..Len(s) : s[i] = File[b + i]

LEMMA WalkEnds ==
  ASSUME NEW b, Holds(buffer, b), NEW from \in Nat, from <= Len(buffer), b + from \in Boundaries,
         NEW frame \in Nat, Heads(b + from) <= frame, frame <= Heads(WholeUpTo(b + Len(buffer))),
         NEW frames, frames = Heads(b + from)
  PROVE  LET end == Walk(from, frames, frame)
         IN /\ end \in Nat /\ from <= end /\ end <= Len(buffer) /\ b + end \in Boundaries
            /\ Heads(b + end) = frame
            /\ frames + Frames(SubSeq(buffer, from + 1, end)) = frame
<1> DEFINE complete == {n \in from..Len(buffer) :
                          /\ (n = Len(buffer) \/ buffer[n + 1].kind \in {"head", "chat"})
                          /\ (n > from => buffer[n].kind \in {"input", "text"})}
           reached == {n \in complete : frames + Frames(SubSeq(buffer, from + 1, n)) = frame}
           T == {k \in from..Len(buffer) : b + k \in Boundaries /\ Heads(b + k) >= frame}
           end == Walk(from, frames, frame)
<1>1. /\ b \in Nat /\ Len(buffer) \in Nat /\ b + Len(buffer) <= Len(File) /\ Len(File) \in Nat /\ HeaderUnits \in Nat
      /\ b + from \in HeaderUnits..Len(File)
  <2>1. b \in Nat /\ buffer \in Seq(Unit) /\ b + Len(buffer) <= Len(File)
    BY DEF Holds
  <2>2. b + from \in HeaderUnits..Len(File)
    BY Records
  <2>3. Len(buffer) \in Nat
    BY <2>1
  <2> QED
    BY <2>1, <2>2, <2>3, FileUnits
<1>2. \A n \in from..Len(buffer) :
        Frames(SubSeq(buffer, from + 1, n)) = Heads(b + n) - Heads(b + from)
  <2>1. ASSUME NEW n \in from..Len(buffer)
        PROVE  Frames(SubSeq(buffer, from + 1, n)) = Heads(b + n) - Heads(b + from)
    <3>1. n \in Nat /\ from <= n /\ n <= Len(buffer)
      BY <1>1
    <3>2. b \in Nat /\ buffer \in Seq(Unit) /\ \A i \in 1..Len(buffer) : buffer[i] = File[b + i]
      BY DEF Holds
    <3> QED
      BY <3>1, <3>2, FramesOf
  <2> QED
    BY <2>1
<1>3. \A n \in from..Len(buffer) : Heads(b + n) \in Nat
  <2>1. \A n \in from..Len(buffer) : b + n \in Nat
    BY <1>1
  <2> QED
    BY <2>1, HeadsFinite
<1>4. frames \in Nat
  BY <1>1, <1>3
<1>5. CASE frames >= frame
  <2>1. end = from
    BY <1>5 DEF Walk
  <2>2. Frames(SubSeq(buffer, from + 1, from)) = 0 /\ Heads(b + from) \in Nat
    BY <1>1, <1>2, <1>3
  <2> QED
    BY <1>5, <2>1, <2>2
<1>6. CASE frames < frame
  <2>1. T \subseteq Nat /\ T # {}
    <3>1. b + Len(buffer) \in HeaderUnits..Len(File)
      BY <1>1
    <3>2. PICK w \in Nat : w = WholeUpTo(b + Len(buffer)) /\ w \in Boundaries /\ w <= b + Len(buffer) /\ b + from <= w
      BY <1>1, <3>1, WholeBefore
    <3>3. w - b \in from..Len(buffer) /\ b + (w - b) = w
      BY <1>1, <3>2
    <3>4. w - b \in T
      BY <1>1, <1>3, <3>2, <3>3
    <3>5. T \subseteq Nat
      BY <1>1
    <3> QED
      BY <3>4, <3>5
  <2>2. PICK k \in T : \A j \in T : k <= j
    BY <2>1, LeastOf
  <2>3. k \in from..Len(buffer) /\ b + k \in Boundaries /\ Heads(b + k) >= frame /\ k \in Nat
    BY <1>1
  <2>4. k # from
    BY <1>3, <1>6, <2>3
  <2>5. b + k > HeaderUnits /\ (b + k) - 2 \in Boundaries /\ File[b + k].kind \in {"input", "text"}
    <3>1. b + k > HeaderUnits
      BY <1>1, <2>3, <2>4
    <3> QED
      BY <2>3, <3>1, Records
  <2>6. k - 2 >= from
    <3>1. k # from + 1
      <4>1. ASSUME k = from + 1 PROVE FALSE
        <5>1. b + k = (b + from) + 1 /\ b + from < Len(File)
          BY <1>1, <2>3, <4>1
        <5>2. (b + from) + 1 \notin Boundaries
          BY <5>1, Records
        <5> QED
          BY <2>3, <5>1, <5>2
      <4> QED
        BY <4>1
    <3> QED
      BY <1>1, <2>3, <2>4, <3>1
  <2>7. Heads(b + k) = frame
    <3>1. PICK m \in Nat : m = (b + k) - 2 /\ b + k = m + 2 /\ m \in Boundaries /\ m < Len(File) /\ m = b + (k - 2)
      <4>1. (b + k) - 2 \in Nat /\ b + k = ((b + k) - 2) + 2 /\ (b + k) - 2 < Len(File) /\ (b + k) - 2 = b + (k - 2)
        BY <1>1, <2>3, <2>6
      <4> QED
        BY <2>5, <4>1
    <3>2. Heads(m) < frame
      <4>1. k - 2 \in from..Len(buffer) /\ ~(k <= k - 2)
        BY <1>1, <2>3, <2>6
      <4>2. k - 2 \notin T
        BY <2>2, <4>1
      <4> QED
        BY <1>3, <2>5, <3>1, <4>1, <4>2
    <3>3. Heads(m + 2) = Heads(m) + (IF File[m + 1].kind = "head" THEN 1 ELSE 0) /\ Heads(m) \in Nat
      BY <3>1, SecondHalf, HeadsFinite
    <3> QED
      BY <2>3, <3>1, <3>2, <3>3
  <2>8. k \in reached
    <3>1. k = Len(buffer) \/ buffer[k + 1].kind \in {"head", "chat"}
      <4>1. ASSUME k # Len(buffer) PROVE buffer[k + 1].kind \in {"head", "chat"}
        <5>1. k + 1 \in 1..Len(buffer) /\ b + (k + 1) = (b + k) + 1 /\ b + k < Len(File)
          BY <1>1, <2>3, <4>1
        <5>2. buffer[k + 1] = File[(b + k) + 1]
          BY <5>1 DEF Holds
        <5> QED
          BY <2>3, <5>1, <5>2, Records
      <4> QED
        BY <4>1
    <3>2. k > from => buffer[k].kind \in {"input", "text"}
      <4>1. k \in 1..Len(buffer)
        BY <1>1, <2>3, <2>4
      <4>2. buffer[k] = File[b + k]
        BY <4>1 DEF Holds
      <4> QED
        BY <2>5, <4>2
    <3>3. frames + Frames(SubSeq(buffer, from + 1, k)) = frame
      BY <1>1, <1>2, <1>3, <2>3, <2>7
    <3> QED
      BY <2>3, <3>1, <3>2, <3>3
  <2>9. reached \subseteq Nat
    BY <1>1
  <2>10. end = CHOOSE n \in reached : \A m \in reached : n <= m
    <3>1. reached # {} /\ ~(frames >= frame)
      <4> HIDE DEF reached
      <4> QED
        BY <1>4, <1>6, <2>8
    <3> QED
      BY <3>1 DEF Walk
  <2>11. end \in reached
    <3> HIDE DEF reached, end
    <3>1. \E n \in reached : \A m \in reached : n <= m
      BY <2>8, <2>9, LeastOf
    <3> QED
      BY <2>10, <3>1
  <2>12. /\ end \in from..Len(buffer) /\ end \in Nat
         /\ frames + Frames(SubSeq(buffer, from + 1, end)) = frame
         /\ end > from => buffer[end].kind \in {"input", "text"}
    BY <1>1, <2>11
  <2> HIDE DEF end
  <2>13. Heads(b + end) = frame
    <3>1. PICK n \in from..Len(buffer) : n = end
      BY <2>12
    <3>2. Frames(SubSeq(buffer, from + 1, n)) = Heads(b + n) - frames /\ Heads(b + n) \in Nat
      BY <1>2, <1>3
    <3>3. frames + Frames(SubSeq(buffer, from + 1, n)) = frame
      BY <2>12, <3>1
    <3>4. Heads(b + n) = frame
      BY <1>4, <3>2, <3>3
    <3> QED
      BY <3>1, <3>4
  <2>14. b + end \in Boundaries
    <3>1. end > from
      BY <1>1, <1>6, <2>12, <2>13
    <3>2. end \in 1..Len(buffer) /\ b + end \in HeaderUnits + 1..Len(File) /\ b + end \in HeaderUnits..Len(File)
      BY <1>1, <2>12, <3>1
    <3>3. File[b + end].kind \in {"input", "text"}
      BY <2>12, <3>1, <3>2 DEF Holds
    <3>4. PICK i \in HeaderUnits + 1..Len(File) : i = b + end /\ i \in HeaderUnits..Len(File)
      BY <3>2
    <3>5. File[i].kind \notin {"head", "chat"}
      BY <3>3, <3>4
    <3>6. (i - HeaderUnits) % 2 # 1
      BY <3>5, Halves
    <3>7. i - HeaderUnits \in Nat
      BY <1>1, <3>4
    <3>8. (i - HeaderUnits) % 2 = 0
      BY <3>6, <3>7, Parity
    <3>9. i \in Boundaries
      BY <3>4, <3>8, Places
    <3> QED
      BY <3>4, <3>9
  <2> QED
    BY <1>1, <2>12, <2>13, <2>14 DEF end
<1> QED
  BY <1>5, <1>6, <1>4
-----------------------------------------------------------------------------
\* The invariant.

Start == offset - Len(fetched) - Len(buffer)     \* where the buffer begins in the file
Place == Start + ptr                             \* what is read next there

\* The end of the stream: it is over, and everything has been fetched.
OverInv ==
  /\ uploadedUnits \in 0..Len(File) /\ (over => uploadedUnits = Len(File))
  /\ (finished => over) /\ (~playing => over)

FetchInv ==
  /\ fetched \in Seq(Unit) /\ buffer \in Seq(Unit)
  /\ offset \in Nat /\ got \in Nat /\ offset + got <= Len(File)
  /\ reading # "restart" => fetching # "stopping" /\ (finished => fetching = "none" /\ offset = Len(File))

\* Buffer and what was fetched are one stretch of the file, up to the local offset.
BufferInv ==
  /\ Start \in Nat /\ Holds(buffer, Start)
  /\ \A i \in 1..Len(fetched) : fetched[i] = File[Start + Len(buffer) + i]
  /\ ptr \in Nat /\ ptr <= Len(buffer)

\* The reader is where its record says, and has counted the frames before it.
ReaderInv ==
  /\ reading \in {"no", "record", "input", "chat"}
  /\ reading \in {"no", "record"} => Place \in Boundaries /\ consumed = Heads(Place)
  /\ reading = "input" => /\ Place - 1 \in Boundaries /\ Place - 1 < Len(File) /\ File[Place].kind = "head"
                          /\ consumed = Heads(Place) - 1
  /\ reading = "chat" => /\ Place - 1 \in Boundaries /\ Place - 1 < Len(File) /\ File[Place].kind = "chat"
                         /\ consumed = Heads(Place)
  /\ emulator = consumed /\ ~skewed

Snapshot == [frame : Nat, offset : Nat]
SnapshotInv ==
  /\ snapshots \in Seq(Snapshot)
  /\ \A i \in 1..Len(snapshots) :
       /\ snapshots[i].offset <= Len(buffer) /\ Start + snapshots[i].offset \in Boundaries
       /\ snapshots[i].frame = Heads(Start + snapshots[i].offset)
  /\ \A i, j \in 1..Len(snapshots) : i < j => snapshots[i].frame < snapshots[j].frame
  /\ snapshots # <<>> => Heads(Place) - snapshots[Len(snapshots)].frame <= FrameGap

\* A checkpoint is of a frame that is still buffered.
CheckpointInv ==
  /\ base \in Nat /\ top \in Nat /\ base <= emulator /\ emulator <= top
  /\ top <= Heads(WholeUpTo(Start + Len(buffer)))
  /\ snapshots = <<>> => reading \in {"no", "record"} /\ base = emulator /\ top = emulator
  /\ snapshots # <<>> => top - snapshots[Len(snapshots)].frame <= FrameGap

RestartInv ==
  /\ buffer = <<>> /\ ptr = 0 /\ snapshots = <<>>
  /\ target \in Boundaries /\ consumed = Heads(target)
  /\ emulator = consumed /\ base = consumed /\ top = consumed /\ ~skewed

PlayInv == BufferInv /\ ReaderInv /\ SnapshotInv /\ CheckpointInv
WatchedInv == ~skewed /\ Frames(File) - emulator <= Margin \div 2
ViewInv == IF playing THEN FetchInv /\ (IF reading = "restart" THEN RestartInv ELSE PlayInv) ELSE WatchedInv
WatchInv == OverInv /\ (~clamped => ViewInv)

LEMMA InitWatches == WatchInit => WatchInv
<1> SUFFICES ASSUME WatchInit PROVE WatchInv
  OBVIOUS
<1> USE DEF WatchInit
<1>1. HeaderUnits \in Nat /\ Len(File) \in Nat /\ HeaderUnits <= Len(File) /\ File \in Seq(Unit)
  BY FileUnits
<1>2. /\ buffer \in Seq(Unit) /\ Len(buffer) = HeaderUnits
      /\ \A i \in 1..HeaderUnits : buffer[i] = File[i]
  <2>1. \A i \in 1..HeaderUnits : File[i] \in Unit
    BY <1>1, FileUnits
  <2>2. /\ SubSeq(File, 1, HeaderUnits) \in Seq(Unit)
        /\ Len(SubSeq(File, 1, HeaderUnits)) = (IF 1 <= HeaderUnits THEN HeaderUnits - 1 + 1 ELSE 0)
        /\ \A i \in 1..HeaderUnits - 1 + 1 : SubSeq(File, 1, HeaderUnits)[i] = File[1 + i - 1]
    BY <1>1, <2>1, SubSeqProperties
  <2>3. (IF 1 <= HeaderUnits THEN HeaderUnits - 1 + 1 ELSE 0) = HeaderUnits /\ HeaderUnits - 1 + 1 = HeaderUnits
    BY <1>1
  <2>4. \A i \in 1..HeaderUnits : 1 + i - 1 = i
    BY <1>1
  <2> QED
    BY <2>2, <2>3, <2>4
<1>3. fetched \in Seq(Unit) /\ Len(fetched) = 0 /\ fetched = <<>>
  OBVIOUS
<1>4. Start = 0 /\ Place = HeaderUnits /\ Start + Len(buffer) = HeaderUnits
  BY <1>1, <1>2, <1>3 DEF Start, Place
<1>5. HeaderUnits \in Boundaries /\ Heads(HeaderUnits) = 0
  <2>1. HeaderUnits \in HeaderUnits..Len(File) /\ (HeaderUnits - HeaderUnits) % 2 = 0 /\ HeaderUnits \in 0..HeaderUnits
    BY <1>1
  <2> QED
    BY <2>1, Places, NoHeads
<1>6. OverInv
  BY <1>1 DEF OverInv
<1>7. FetchInv
  BY <1>1, <1>2, <1>3 DEF FetchInv
<1>8. BufferInv
  <2>1. \A i \in 1..Len(buffer) : buffer[i] = File[Start + i]
    BY <1>2, <1>4
  <2>2. Holds(buffer, Start)
    BY <1>1, <1>2, <1>4, <2>1 DEF Holds
  <2> QED
    BY <1>1, <1>2, <1>3, <1>4, <2>2 DEF BufferInv
<1>9. ReaderInv
  BY <1>4, <1>5 DEF ReaderInv
<1>10. SnapshotInv
  <2>1. PICK s \in Snapshot : s = [frame |-> 0, offset |-> HeaderUnits]
    BY <1>1 DEF Snapshot
  <2>2. snapshots = <<s>> /\ Len(snapshots) = 1 /\ snapshots[1] = s
    BY <2>1
  <2>3. snapshots \in Seq(Snapshot)
    BY <2>2
  <2>4. \A i \in 1..Len(snapshots) : i = 1 /\ snapshots[i] = s
    BY <2>2
  <2>5. Heads(Place) - s.frame <= FrameGap /\ s.frame = 0 /\ s.offset = HeaderUnits /\ Start + HeaderUnits = HeaderUnits
    BY <1>1, <1>4, <1>5, <2>1, WatchAssumption
  <2>6. \A i, j \in 1..Len(snapshots) : ~(i < j)
    BY <2>4
  <2> HIDE DEF WatchInit
  <2> QED
    BY <1>2, <1>4, <1>5, <2>2, <2>3, <2>4, <2>5, <2>6, <1>1 DEF SnapshotInv
<1>11. CheckpointInv
  <2>1. 0 <= Heads(WholeUpTo(HeaderUnits))
    BY <1>5 DEF WholeUpTo
  <2>2. snapshots # <<>> /\ Len(snapshots) = 1 /\ snapshots[1].frame = 0
    OBVIOUS
  <2>3. top - snapshots[Len(snapshots)].frame <= FrameGap
    BY <2>2, WatchAssumption
  <2>4. base = 0 /\ top = 0 /\ emulator = 0
    OBVIOUS
  <2>5. top <= Heads(WholeUpTo(Start + Len(buffer)))
    BY <1>4, <2>1, <2>4
  <2> HIDE DEF WatchInit
  <2> QED
    BY <2>2, <2>3, <2>4, <2>5 DEF CheckpointInv
<1> QED
  BY <1>6, <1>7, <1>8, <1>9, <1>10, <1>11 DEF WatchInv, ViewInv, PlayInv

LEMMA OverStays == WatchInv /\ [WatchNext]_watchVars => OverInv'
<1> SUFFICES ASSUME OverInv, [WatchNext]_watchVars PROVE OverInv'
  BY DEF WatchInv
<1>1. HeaderUnits \in Nat /\ Len(File) \in Nat
  BY FileUnits
<1> USE DEF OverInv
<1>2. CASE UNCHANGED <<watchNet, finished, playing>>
  BY <1>2 DEF watchNet
<1>3. CASE HostPosts
  <2>1. PICK n \in Boundaries : n > uploadedUnits /\ uploadedUnits' = n
    BY <1>3 DEF HostPosts
  <2>2. UNCHANGED <<over, finished, playing>>
    BY <1>3 DEF HostPosts, watchThread
  <2>3. n \in Nat /\ n <= Len(File)
    <3>1. n \in HeaderUnits..Len(File)
      BY Zenon DEF Boundaries
    <3> QED
      BY <1>1, <3>1
  <2> QED
    BY <1>1, <2>1, <2>2, <2>3
<1>4. CASE HostEnds
  BY <1>4 DEF HostEnds, watchThread
<1>5. CASE Fetch
  BY <1>5 DEF Fetch, watchNet
<1>6. CASE WatchBufAppend
  BY <1>2, <1>6 DEF WatchBufAppend
<1>7. CASE WatchRefill
  BY <1>2, <1>7 DEF WatchRefill
<1>8. CASE StreamDry
  BY <1>8 DEF StreamDry, watchNet, watchThread
<1>9. CASE RestartFromOffset
  BY <1>9 DEF RestartFromOffset, watchNet
<1>10. CASE CallMPV \/ ReadType \/ ReadInput \/ ReadChat \/ Rewind \/ PauseUnlocks
  BY <1>2, <1>10 DEF CallMPV, ReadType, ReadInput, ReadChat, Rewind, PauseUnlocks, watchThread
<1>11. CASE JumpToLive
  BY <1>2, <1>11 DEF JumpToLive
<1>12. CASE UNCHANGED watchVars
  BY <1>2, <1>12 DEF watchVars, watchThread
<1> QED
  BY <1>3, <1>4, <1>5, <1>6, <1>7, <1>8, <1>9, <1>10, <1>11, <1>12 DEF WatchNext

\* What leaves the reader and its buffer alone.
LEMMA PlayStays ==
  ASSUME PlayInv, UNCHANGED <<buffer, ptr, consumed, snapshots, emulator, skewed, base, top, reading>>,
         Start' = Start, \A i \in 1..Len(fetched') : fetched'[i] = File[Start + Len(buffer) + i]
  PROVE  PlayInv'
<1>1. BufferInv'
  BY DEF PlayInv, BufferInv, Holds
<1>2. Place' = Place
  BY DEF Place
<1>3. ReaderInv'
  BY <1>2 DEF PlayInv, ReaderInv
<1>4. SnapshotInv'
  BY <1>2 DEF PlayInv, SnapshotInv
<1>5. CheckpointInv'
  BY DEF PlayInv, CheckpointInv
<1> QED
  BY <1>1, <1>3, <1>4, <1>5 DEF PlayInv

LEMMA OthersView ==
  ASSUME ViewInv,
         HostPosts \/ HostEnds \/ PauseUnlocks \/ UNCHANGED watchVars
  PROVE  ViewInv'
<1>1. UNCHANGED <<watchThread, watchPlayer, watchEmulator, reading, playing, target>>
  BY DEF HostPosts, HostEnds, PauseUnlocks, watchVars
<1>2. /\ UNCHANGED <<fetching, offset, got, fetched, finished, buffer, ptr, consumed, snapshots, reading, playing, target>>
      /\ UNCHANGED <<emulator, skewed, base, top>>
  BY <1>1 DEF watchThread, watchPlayer, watchEmulator
<1>3. Start' = Start
  BY <1>2 DEF Start
<1>4. WatchedInv => WatchedInv'
  BY <1>2 DEF WatchedInv
<1>5. FetchInv => FetchInv'
  BY <1>2 DEF FetchInv
<1>6. RestartInv => RestartInv'
  BY <1>2 DEF RestartInv
<1>7. PlayInv => PlayInv'
  <2>1. ASSUME PlayInv PROVE \A i \in 1..Len(fetched') : fetched'[i] = File[Start + Len(buffer) + i]
    BY <1>2, <2>1 DEF PlayInv, BufferInv
  <2> QED
    BY <1>2, <1>3, <2>1, PlayStays
<1> QED
  BY <1>2, <1>4, <1>5, <1>6, <1>7 DEF ViewInv

LEMMA FetchView == ASSUME OverInv, ViewInv, Fetch PROVE ViewInv'
<1>1. /\ UNCHANGED <<offset, fetched, buffer, ptr, consumed, snapshots, reading, playing, target>>
      /\ UNCHANGED <<emulator, skewed, base, top>>
  BY DEF Fetch, watchPlayer, watchEmulator
<1>2. Start' = Start
  BY <1>1 DEF Start
<1>3. WatchedInv => WatchedInv'
  BY <1>1 DEF WatchedInv
<1>4. FetchInv => FetchInv'
  <2> SUFFICES ASSUME FetchInv PROVE FetchInv'
    OBVIOUS
  <2>1. Len(File) \in Nat
    BY FileUnits
  <2>2. CASE \E n \in 1..(uploadedUnits - offset) : got' = n /\ fetching' = "append" /\ UNCHANGED finished
    BY <1>1, <2>1, <2>2 DEF FetchInv, OverInv, Fetch
  <2>3. CASE over /\ uploadedUnits <= offset /\ finished' = TRUE /\ fetching' = "none" /\ UNCHANGED got
    BY <1>1, <2>1, <2>3 DEF FetchInv, OverInv, Fetch
  <2> QED
    BY <2>2, <2>3 DEF Fetch
<1>5. RestartInv => RestartInv'
  BY <1>1 DEF RestartInv
<1>6. PlayInv => PlayInv'
  <2>1. ASSUME PlayInv PROVE \A i \in 1..Len(fetched') : fetched'[i] = File[Start + Len(buffer) + i]
    BY <1>1, <2>1 DEF PlayInv, BufferInv
  <2> QED
    BY <1>1, <1>2, <2>1, PlayStays
<1> QED
  BY <1>1, <1>3, <1>4, <1>5, <1>6 DEF ViewInv

\* A stretch of the file of the length n that begins after m.
LEMMA FilePart ==
  ASSUME NEW m \in Nat, NEW n \in Nat, m + n <= Len(File)
  PROVE  /\ SubSeq(File, m + 1, m + n) \in Seq(Unit) /\ Len(SubSeq(File, m + 1, m + n)) = n
         /\ \A i \in 1..n : SubSeq(File, m + 1, m + n)[i] = File[m + i]
<1>1. Len(File) \in Nat
  BY FileUnits
<1>2. \A i \in m + 1..m + n : File[i] \in Unit
  BY <1>1, FileUnits
<1>3. /\ SubSeq(File, m + 1, m + n) \in Seq(Unit)
      /\ Len(SubSeq(File, m + 1, m + n)) = (IF m + 1 <= m + n THEN (m + n) - (m + 1) + 1 ELSE 0)
      /\ \A i \in 1..(m + n) - (m + 1) + 1 : SubSeq(File, m + 1, m + n)[i] = File[(m + 1) + i - 1]
  BY <1>2, SubSeqProperties
<1>4. (IF m + 1 <= m + n THEN (m + n) - (m + 1) + 1 ELSE 0) = n /\ (m + n) - (m + 1) + 1 = n
  OBVIOUS
<1>5. \A i \in 1..n : (m + 1) + i - 1 = m + i
  OBVIOUS
<1> QED
  BY <1>3, <1>4, <1>5

LEMMA AppendView == ASSUME ViewInv, WatchBufAppend PROVE ViewInv'
<1>1. /\ UNCHANGED <<finished, buffer, ptr, consumed, snapshots, reading, playing, target>>
      /\ UNCHANGED <<emulator, skewed, base, top>>
  BY DEF WatchBufAppend, watchPlayer, watchEmulator
<1>2. WatchedInv => WatchedInv'
  BY <1>1 DEF WatchedInv
<1>3. RestartInv => RestartInv'
  BY <1>1 DEF RestartInv
<1> DEFINE part == SubSeq(File, offset + 1, offset + got)
<1>4. ASSUME FetchInv
      PROVE  /\ part \in Seq(Unit) /\ Len(part) = got /\ got \in Nat /\ offset \in Nat
             /\ \A i \in 1..got : part[i] = File[offset + i]
             /\ fetched' = fetched \o part /\ fetched' \in Seq(Unit) /\ Len(fetched') = Len(fetched) + got
             /\ Len(fetched) \in Nat
             /\ \A i \in 1..Len(fetched) + got :
                  fetched'[i] = IF i <= Len(fetched) THEN fetched[i] ELSE part[i - Len(fetched)]
  <2>1. offset \in Nat /\ got \in Nat /\ offset + got <= Len(File) /\ fetched \in Seq(Unit)
    BY <1>4 DEF FetchInv
  <2>2. part \in Seq(Unit) /\ Len(part) = got /\ \A i \in 1..got : part[i] = File[offset + i]
    BY <2>1, FilePart
  <2>3. fetched' = fetched \o part
    BY DEF WatchBufAppend
  <2> HIDE DEF part
  <2>4. /\ fetched \o part \in Seq(Unit) /\ Len(fetched \o part) = Len(fetched) + Len(part)
        /\ \A i \in 1..Len(fetched) + Len(part) :
             (fetched \o part)[i] = IF i <= Len(fetched) THEN fetched[i] ELSE part[i - Len(fetched)]
    BY <2>1, <2>2, ConcatProperties
  <2> QED
    BY <2>1, <2>2, <2>3, <2>4
<1> HIDE DEF part
<1>5. FetchInv => FetchInv'
  <2> SUFFICES ASSUME FetchInv PROVE FetchInv'
    OBVIOUS
  <2>1. offset' = offset + got /\ got' = 0 /\ fetching' = (IF fetching = "append" THEN "sleep" ELSE "none")
    BY DEF WatchBufAppend
  <2>2. offset' \in Nat /\ got' \in Nat /\ offset' + got' <= Len(File) /\ fetched' \in Seq(Unit) /\ buffer' \in Seq(Unit)
    BY <1>1, <1>4, <2>1 DEF FetchInv
  <2>3. fetching # "none"
    BY DEF WatchBufAppend
  <2> QED
    BY <1>1, <2>1, <2>2, <2>3 DEF FetchInv
<1>6. FetchInv /\ PlayInv => PlayInv'
  <2> SUFFICES ASSUME FetchInv, PlayInv PROVE PlayInv'
    OBVIOUS
  <2>1. Start \in Nat /\ Len(buffer) \in Nat /\ Start = offset - Len(fetched) - Len(buffer)
    BY DEF PlayInv, BufferInv, Start, FetchInv
  <2>2. Start' = Start
    <3>1. offset' = offset + got /\ Len(fetched') = Len(fetched) + got
      BY <1>4 DEF WatchBufAppend
    <3> QED
      BY <1>1, <1>4, <2>1, <3>1 DEF Start
  <2>3. ASSUME NEW i \in 1..Len(fetched') PROVE fetched'[i] = File[Start + Len(buffer) + i]
    <3>1. i \in 1..Len(fetched) + got
      BY <1>4
    <3>2. CASE i <= Len(fetched)
      <4>1. i \in 1..Len(fetched) /\ fetched'[i] = fetched[i]
        BY <1>4, <3>1, <3>2
      <4> QED
        BY <4>1 DEF PlayInv, BufferInv
    <3>3. CASE ~(i <= Len(fetched))
      <4>1. i - Len(fetched) \in 1..got /\ offset + (i - Len(fetched)) = Start + Len(buffer) + i
        BY <1>4, <2>1, <3>1, <3>3
      <4>2. fetched'[i] = part[i - Len(fetched)]
        BY <1>4, <3>1, <3>3
      <4> QED
        BY <1>4, <4>1, <4>2
    <3> QED
      BY <3>2, <3>3
  <2> QED
    BY <1>1, <2>2, <2>3, PlayStays
<1> QED
  BY <1>1, <1>2, <1>3, <1>5, <1>6 DEF ViewInv

\* Where the reader is: within the buffer, past the header.
LEMMA PlaceIn ==
  ASSUME PlayInv
  PROVE  /\ Start \in Nat /\ ptr \in Nat /\ Len(buffer) \in Nat /\ Place = Start + ptr /\ Place \in Nat
         /\ HeaderUnits <= Place /\ ptr <= Len(buffer) /\ HeaderUnits \in Nat /\ Len(File) \in Nat
         /\ Start + Len(buffer) \in HeaderUnits..Len(File) /\ Heads(Place) \in Nat
         /\ buffer \in Seq(Unit)
<1>1. /\ Start \in Nat /\ ptr \in Nat /\ ptr <= Len(buffer) /\ buffer \in Seq(Unit) /\ Start + Len(buffer) <= Len(File)
  BY DEF PlayInv, BufferInv, Holds
<1>2. Len(buffer) \in Nat /\ Place = Start + ptr /\ Place \in Nat
  BY <1>1 DEF Place
<1>3. HeaderUnits \in Nat /\ Len(File) \in Nat
  BY FileUnits
<1>4. reading \in {"no", "record", "input", "chat"} /\ (Place \in Boundaries \/ Place - 1 \in Boundaries)
  BY DEF PlayInv, ReaderInv
<1>5. HeaderUnits <= Place
  <2>1. CASE Place \in Boundaries
    <3>1. Place \in HeaderUnits..Len(File)
      BY <2>1, Records
    <3> QED
      BY <1>2, <1>3, <3>1
  <2>2. CASE Place - 1 \in Boundaries
    <3>1. Place - 1 \in HeaderUnits..Len(File)
      BY <2>2, Records
    <3> QED
      BY <1>2, <1>3, <3>1
  <2> QED
    BY <1>4, <2>1, <2>2
<1>6. Start + Len(buffer) \in HeaderUnits..Len(File)
  BY <1>1, <1>2, <1>3, <1>5
<1>7. Heads(Place) \in Nat
  BY <1>2, HeadsFinite
<1> QED
  BY <1>1, <1>2, <1>3, <1>5, <1>6, <1>7

LEMMA WholeGrows ==
  ASSUME NEW m \in HeaderUnits..Len(File), NEW n \in HeaderUnits..Len(File), m <= n
  PROVE  Heads(WholeUpTo(m)) <= Heads(WholeUpTo(n)) /\ Heads(WholeUpTo(m)) \in Nat /\ Heads(WholeUpTo(n)) \in Nat
<1>1. WholeUpTo(m) \in Boundaries /\ WholeUpTo(m) \in Nat /\ WholeUpTo(m) <= m
  BY WholeBefore
<1>2. m \in Nat /\ n \in Nat
  BY FileUnits
<1>3. WholeUpTo(n) \in Nat /\ WholeUpTo(m) <= WholeUpTo(n)
  BY <1>1, <1>2, WholeBefore
<1> QED
  BY <1>1, <1>3, HeadsGrow

\* The snapshots are in the order of their offsets, and the latest is retained.
LEMMA SnapshotsInOrder ==
  ASSUME PlayInv
  PROVE  /\ Len(snapshots) \in Nat
         /\ \A i \in 1..Len(snapshots) : snapshots[i] \in Snapshot /\ snapshots[i].offset \in Nat /\ snapshots[i].frame \in Nat
         /\ \A i, j \in 1..Len(snapshots) : i < j => snapshots[i].offset < snapshots[j].offset
<1>1. snapshots \in Seq(Snapshot) /\ Start \in Nat
  BY PlaceIn DEF PlayInv, SnapshotInv
<1>2. /\ Len(snapshots) \in Nat
      /\ \A i \in 1..Len(snapshots) : snapshots[i] \in Snapshot /\ snapshots[i].offset \in Nat /\ snapshots[i].frame \in Nat
  <2>1. Len(snapshots) \in Nat /\ \A i \in 1..Len(snapshots) : snapshots[i] \in Snapshot
    BY <1>1
  <2>2. \A s \in Snapshot : s.offset \in Nat /\ s.frame \in Nat
    BY DEF Snapshot
  <2> QED
    BY <2>1, <2>2
<1>3. ASSUME NEW i \in 1..Len(snapshots), NEW j \in 1..Len(snapshots), i < j
      PROVE  snapshots[i].offset < snapshots[j].offset
  <2>1. PICK m \in Nat : m = snapshots[i].offset
    BY <1>2
  <2>2. PICK n \in Nat : n = snapshots[j].offset
    BY <1>2
  <2>3. Heads(Start + m) < Heads(Start + n)
    BY <1>3, <2>1, <2>2 DEF PlayInv, SnapshotInv
  <2>4. ASSUME n <= m PROVE FALSE
    <3>1. Start + n \in Nat /\ Start + m \in Nat /\ Start + n <= Start + m
      BY <1>1, <2>4
    <3> QED
      BY <2>3, <3>1, HeadsGrow
  <2> QED
    BY <2>1, <2>2, <2>4
<1> QED
  BY <1>2, <1>3

LEMMA LastRetained ==
  ASSUME PlayInv, RecordsFit, snapshots # <<>>
  PROVE  ptr - snapshots[Len(snapshots)].offset <= Retain /\ Len(snapshots) > 0
<1>1. Len(snapshots) \in Nat /\ Len(snapshots) > 0
  BY SnapshotsInOrder DEF PlayInv, SnapshotInv
<1>2. PICK o \in Nat : o = snapshots[Len(snapshots)].offset
  BY <1>1, SnapshotsInOrder
<1>3. Retain \in Nat /\ FrameGap \in Nat
  BY WatchAssumption
<1>4. /\ Start \in Nat /\ ptr \in Nat /\ Place = Start + ptr /\ Place \in Nat /\ ptr <= Len(buffer) /\ Len(buffer) \in Nat
      /\ Start + Len(buffer) \in HeaderUnits..Len(File) /\ Len(File) \in Nat /\ HeaderUnits \in Nat
  BY PlaceIn
<1>5. Start + o \in Boundaries /\ Heads(Place) - Heads(Start + o) <= FrameGap
  <2>1. /\ Start + snapshots[Len(snapshots)].offset \in Boundaries
        /\ snapshots[Len(snapshots)].frame = Heads(Start + snapshots[Len(snapshots)].offset)
        /\ Heads(Place) - snapshots[Len(snapshots)].frame <= FrameGap
    BY <1>1 DEF PlayInv, SnapshotInv
  <2> QED
    BY <1>2, <2>1
<1>6. CASE o < ptr
  <2>1. PICK m \in Nat : m = Start + o
    BY <1>2, <1>4
  <2>2. PICK n \in Nat : n = Place
    BY <1>4
  <2>3. m <= n /\ n <= Len(File) /\ n \in m..Len(File) /\ n - m = ptr - o
    BY <1>4, <1>6, <2>1, <2>2
  <2>4. Frames(SubSeq(File, m + 1, n)) <= FrameGap
    <3>1. Frames(SubSeq(File, m + 1, n)) = Heads(n) - Heads(m)
      BY <2>3, FileFrames
    <3> QED
      BY <1>5, <2>1, <2>2, <3>1
  <2>5. n - m <= Retain
    BY <1>5, <2>1, <2>3, <2>4 DEF RecordsFit
  <2> QED
    BY <1>1, <1>2, <2>3, <2>5
<1>7. CASE ~(o < ptr)
  BY <1>1, <1>2, <1>3, <1>4, <1>7
<1> QED
  BY <1>6, <1>7

LEMMA Forgotten ==
  ASSUME PlayInv, RecordsFit, NEW d \in Nat, d = IF ptr > Retain THEN ptr - Retain ELSE 0,
         NEW g, g = CHOOSE k \in 0..Len(snapshots) : \A i \in DOMAIN snapshots : i <= k <=> snapshots[i].offset < d
  PROVE  /\ g \in 0..Len(snapshots) /\ (snapshots # <<>> => g < Len(snapshots))
         /\ \A i \in 1..Len(snapshots) : i <= g <=> snapshots[i].offset < d
<1> DEFINE n == Len(snapshots)
           S == {i \in 1..n : ~(snapshots[i].offset < d)}
<1>1. /\ n \in Nat /\ DOMAIN snapshots = 1..n
      /\ \A i \in 1..n : snapshots[i].offset \in Nat
      /\ \A i, j \in 1..n : i < j => snapshots[i].offset < snapshots[j].offset
  BY SnapshotsInOrder DEF PlayInv, SnapshotInv
<1>2. snapshots # <<>> => n \in S
  <2> SUFFICES ASSUME snapshots # <<>> PROVE n \in S
    OBVIOUS
  <2>1. ptr - snapshots[n].offset <= Retain /\ n > 0
    BY LastRetained
  <2>2. n \in 1..n
    BY <1>1, <2>1
  <2>3. ptr \in Nat /\ Retain \in Nat /\ snapshots[n].offset \in Nat
    BY <1>1, <2>2, PlaceIn, WatchAssumption
  <2> HIDE DEF n
  <2>4. ~(snapshots[n].offset < d)
    BY <2>1, <2>3
  <2> QED
    BY <2>2, <2>4
<1>3. \E k \in 0..n : /\ \A i \in 1..n : i <= k <=> snapshots[i].offset < d
                      /\ (snapshots # <<>> => k < n)
  <2>1. CASE snapshots = <<>>
    <3>1. n = 0
      BY <2>1
    <3> QED
      BY <2>1, <3>1
  <2>2. CASE snapshots # <<>>
    <3>1. S \subseteq Nat /\ S # {}
      BY <1>1, <1>2, <2>2
    <3>2. PICK k \in S : \A j \in S : k <= j
      BY <3>1, LeastOf
    <3>3. k \in 1..n /\ ~(snapshots[k].offset < d) /\ k - 1 \in 0..n /\ k - 1 < n
      BY <1>1
    <3>4. ASSUME NEW i \in 1..n PROVE i <= k - 1 <=> snapshots[i].offset < d
      <4>1. CASE i < k
        <5>1. i \notin S
          BY <1>1, <3>2, <3>3, <4>1
        <5> QED
          BY <1>1, <3>3, <4>1, <5>1
      <4>2. CASE i = k
        BY <1>1, <3>3, <4>2
      <4>3. CASE i > k
        <5>1. snapshots[k].offset < snapshots[i].offset /\ snapshots[k].offset \in Nat /\ snapshots[i].offset \in Nat
          BY <1>1, <3>3, <4>3
        <5> QED
          BY <1>1, <3>3, <4>3, <5>1
      <4> QED
        BY <1>1, <3>3, <4>1, <4>2, <4>3
    <3> QED
      BY <3>3, <3>4
  <2> QED
    BY <2>1, <2>2
<1>4. PICK k \in 0..n : (\A i \in 1..n : i <= k <=> snapshots[i].offset < d) /\ (snapshots # <<>> => k < n)
  BY <1>3
<1>5. g \in 0..n /\ \A i \in 1..n : i <= g <=> snapshots[i].offset < d
  BY <1>1, <1>4
<1>6. snapshots # <<>> => g < n
  <2> SUFFICES ASSUME snapshots # <<>> PROVE g < n
    OBVIOUS
  <2>1. n \in S /\ n \in 1..n
    BY <1>2
  <2>2. ~(n <= g)
    BY <1>5, <2>1
  <2> QED
    BY <1>1, <1>5, <2>2
<1> QED
  BY <1>5, <1>6

\* PlayBackBuffer_Append: the buffer is a later stretch of the file, and what was in it beyond the
\* retained history is not needed any more.
LEMMA RefillView == ASSUME RecordsFit, ViewInv, WatchRefill PROVE ViewInv'
<1>1. playing /\ reading # "restart" /\ UNCHANGED <<fetching, offset, got, finished, consumed, reading, playing, target>>
      /\ UNCHANGED <<emulator, skewed, base, top>>
  <2>1. playing /\ Available < Needed /\ UNCHANGED <<fetching, offset, got, finished, consumed, reading, playing, target>>
        /\ UNCHANGED watchEmulator
    BY DEF WatchRefill
  <2>2. ASSUME reading = "restart" PROVE FALSE
    <3>1. Needed = 0
      BY <2>2 DEF Needed
    <3>2. Available = 0
      BY <2>1, <2>2 DEF ViewInv, RestartInv, Available
    <3> QED
      BY <2>1, <3>1, <3>2
  <2> QED
    BY <2>1, <2>2 DEF watchEmulator
<1>2. PlayInv /\ FetchInv
  BY <1>1 DEF ViewInv
<1>3. /\ Start \in Nat /\ ptr \in Nat /\ Len(buffer) \in Nat /\ Place = Start + ptr /\ ptr <= Len(buffer)
      /\ Start + Len(buffer) \in HeaderUnits..Len(File) /\ HeaderUnits \in Nat /\ Len(File) \in Nat
      /\ Retain \in Nat /\ buffer \in Seq(Unit) /\ fetched \in Seq(Unit) /\ Len(fetched) \in Nat
      /\ offset \in Nat /\ offset <= Len(File) /\ Start = offset - Len(fetched) - Len(buffer)
      /\ \A i \in 1..Len(buffer) : buffer[i] = File[Start + i]
      /\ \A i \in 1..Len(fetched) : fetched[i] = File[Start + Len(buffer) + i]
  <2>1. fetched \in Seq(Unit) /\ offset \in Nat /\ got \in Nat /\ offset + got <= Len(File)
    BY <1>2 DEF FetchInv
  <2>2. /\ \A i \in 1..Len(buffer) : buffer[i] = File[Start + i]
        /\ \A i \in 1..Len(fetched) : fetched[i] = File[Start + Len(buffer) + i]
    BY <1>2 DEF PlayInv, BufferInv, Holds
  <2>3. Len(fetched) \in Nat
    BY <2>1
  <2>4. /\ Start \in Nat /\ ptr \in Nat /\ Len(buffer) \in Nat /\ Place = Start + ptr /\ ptr <= Len(buffer)
        /\ Start + Len(buffer) \in HeaderUnits..Len(File) /\ HeaderUnits \in Nat /\ Len(File) \in Nat
        /\ buffer \in Seq(Unit)
    BY <1>2, PlaceIn
  <2>5. offset <= Len(File)
    BY <2>1, <2>4
  <2> QED
    BY <2>1, <2>2, <2>3, <2>4, <2>5, WatchAssumption DEF Start
<1>4. PICK d \in Nat : d = IF ptr > Retain THEN ptr - Retain ELSE 0
  <2>1. ptr \in Nat /\ Retain \in Nat
    BY <1>3
  <2>2. (IF ptr > Retain THEN ptr - Retain ELSE 0) \in Nat
    BY <2>1
  <2> QED
    BY <2>2
<1>5. PICK g : g = CHOOSE k \in 0..Len(snapshots) : \A i \in DOMAIN snapshots : i <= k <=> snapshots[i].offset < d
  OBVIOUS
<1>6. d <= ptr /\ d <= Len(buffer)
  BY <1>3, <1>4
<1>7. /\ buffer' = SubSeq(buffer, d + 1, Len(buffer)) \o fetched
      /\ ptr' = ptr - d
      /\ snapshots' = [i \in 1..Len(snapshots) - g |->
                        [frame |-> snapshots[i + g].frame, offset |-> snapshots[i + g].offset - d]]
      /\ fetched' = <<>>
  BY <1>4, <1>5 DEF WatchRefill, PlayBackBufferAppend
<1>8. /\ buffer' \in Seq(Unit) /\ Len(buffer') = Len(buffer) - d + Len(fetched)
      /\ \A i \in 1..Len(buffer') : buffer'[i] = File[Start + d + i]
  <2> DEFINE s == SubSeq(buffer, d + 1, Len(buffer))
  <2>1. s \in Seq(Unit) /\ Len(s) = Len(buffer) - d /\ \A i \in 1..Len(buffer) - d : s[i] = File[Start + d + i]
    <3>1. PICK n \in Nat : n = Len(buffer)
      BY <1>3
    <3>2. \A i \in d + 1..n : buffer[i] \in Unit
      <4>1. \A i \in d + 1..n : i \in 1..Len(buffer)
        BY <1>3, <1>6, <3>1
      <4> QED
        BY <1>3, <4>1
    <3>3. /\ SubSeq(buffer, d + 1, n) \in Seq(Unit)
          /\ Len(SubSeq(buffer, d + 1, n)) = (IF d + 1 <= n THEN n - (d + 1) + 1 ELSE 0)
          /\ \A i \in 1..n - (d + 1) + 1 : SubSeq(buffer, d + 1, n)[i] = buffer[(d + 1) + i - 1]
      BY <3>2, SubSeqProperties
    <3>4. (IF d + 1 <= n THEN n - (d + 1) + 1 ELSE 0) = n - d /\ n - (d + 1) + 1 = n - d
      BY <1>6, <3>1
    <3>5. ASSUME NEW i \in 1..n - d PROVE (d + 1) + i - 1 \in 1..Len(buffer) /\ Start + ((d + 1) + i - 1) = Start + d + i
      BY <1>3, <1>6, <3>1
    <3>6. ASSUME NEW i \in 1..n - d PROVE SubSeq(buffer, d + 1, n)[i] = File[Start + d + i]
      BY <1>3, <3>3, <3>4, <3>5
    <3> QED
      BY <3>1, <3>3, <3>4, <3>6, Zenon
  <2> HIDE DEF s
  <2>2. /\ s \o fetched \in Seq(Unit) /\ Len(s \o fetched) = Len(s) + Len(fetched)
        /\ \A i \in 1..Len(s) + Len(fetched) : (s \o fetched)[i] = IF i <= Len(s) THEN s[i] ELSE fetched[i - Len(s)]
    BY <1>3, <2>1, ConcatProperties
  <2>3. buffer' = s \o fetched
    BY <1>7 DEF s
  <2>4. ASSUME NEW i \in 1..Len(buffer') PROVE buffer'[i] = File[Start + d + i]
    <3>1. i \in 1..Len(s) + Len(fetched)
      BY <2>2, <2>3
    <3>2. CASE i <= Len(s)
      <4>1. i \in 1..Len(buffer) - d /\ buffer'[i] = s[i]
        BY <1>3, <2>1, <2>2, <2>3, <3>1, <3>2
      <4> QED
        BY <2>1, <4>1
    <3>3. CASE ~(i <= Len(s))
      <4>1. i - Len(s) \in 1..Len(fetched) /\ Start + Len(buffer) + (i - Len(s)) = Start + d + i
        BY <1>3, <2>1, <3>1, <3>3
      <4>2. buffer'[i] = fetched[i - Len(s)]
        BY <2>2, <2>3, <3>1, <3>3
      <4> QED
        BY <1>3, <4>1, <4>2
    <3> QED
      BY <3>2, <3>3
  <2> QED
    BY <2>1, <2>2, <2>3, <2>4
<1>9. Len(fetched') = 0 /\ fetched' \in Seq(Unit)
  BY <1>7
<1>10. Start' = Start + d /\ Place' = Place /\ Start' + Len(buffer') = offset /\ ptr' \in Nat /\ ptr' <= Len(buffer')
  <2>1. offset' = offset
    BY <1>1
  <2>2. Start' = offset' - Len(fetched') - Len(buffer')
    BY DEF Start
  <2>3. Start' = Start + d
    BY <1>3, <1>8, <1>9, <2>1, <2>2
  <2>4. Place' = Start' + ptr'
    BY DEF Place
  <2>5. ptr' = ptr - d
    BY <1>7
  <2>6. Len(buffer') = Len(buffer) - d + Len(fetched)
    BY <1>8
  <2>7. /\ Start \in Nat /\ ptr \in Nat /\ Len(buffer) \in Nat /\ Place = Start + ptr /\ ptr <= Len(buffer)
        /\ offset \in Nat /\ Len(fetched) \in Nat /\ Start = offset - Len(fetched) - Len(buffer)
    BY <1>3
  <2>8. Place' = Place /\ ptr' \in Nat /\ ptr' <= Len(buffer')
    BY <1>6, <2>3, <2>4, <2>5, <2>6, <2>7
  <2>9. Start' + Len(buffer') = offset
    BY <2>3, <2>6, <2>7
  <2> QED
    BY <2>3, <2>8, <2>9
<1>11. FetchInv'
  BY <1>1, <1>2, <1>8, <1>9 DEF FetchInv
<1>12. BufferInv'
  <2>1. Start' \in Nat /\ Start' + Len(buffer') <= Len(File)
    <3>1. Start \in Nat /\ Start' = Start + d
      BY <1>3, <1>10
    <3>2. Start' + Len(buffer') = offset /\ offset <= Len(File)
      BY <1>3, <1>10
    <3> QED
      BY <3>1, <3>2
  <2>2. \A i \in 1..Len(buffer') : buffer'[i] = File[Start' + i]
    BY <1>8, <1>10
  <2>3. Holds(buffer, Start)'
    BY <1>8, <2>1, <2>2 DEF Holds
  <2>4. \A i \in 1..Len(fetched') : fetched'[i] = File[Start' + Len(buffer') + i]
    BY <1>9
  <2> QED
    BY <1>10, <2>1, <2>3, <2>4 DEF BufferInv
<1>13. ReaderInv'
  BY <1>1, <1>2, <1>10 DEF PlayInv, ReaderInv
<1>14. /\ g \in 0..Len(snapshots) /\ (snapshots # <<>> => g < Len(snapshots))
       /\ \A i \in 1..Len(snapshots) : i <= g <=> snapshots[i].offset < d
  BY <1>2, <1>4, <1>5, Forgotten
<1>15. /\ Len(snapshots) \in Nat
       /\ \A i \in 1..Len(snapshots) : snapshots[i].offset \in Nat /\ snapshots[i].frame \in Nat
  BY <1>2, SnapshotsInOrder
<1> DEFINE n == Len(snapshots) - g
<1>16. /\ n \in Nat /\ (snapshots # <<>> => n > 0)
       /\ \A i \in 1..n : i + g \in 1..Len(snapshots) /\ snapshots[i + g].offset >= d
  <2>1. ASSUME NEW i \in 1..n PROVE i + g \in 1..Len(snapshots) /\ snapshots[i + g].offset >= d
    <3>1. i + g \in 1..Len(snapshots) /\ ~(i + g <= g)
      BY <1>14, <1>15
    <3> QED
      BY <1>14, <1>15, <3>1
  <2> QED
    BY <1>14, <1>15, <2>1
<1>17. /\ Len(snapshots') = n /\ snapshots' \in Seq(Snapshot) /\ (snapshots' = <<>> <=> n = 0)
       /\ \A i \in 1..n : /\ snapshots'[i].frame = snapshots[i + g].frame
                          /\ snapshots'[i].offset = snapshots[i + g].offset - d
  <2>1. \A i \in 1..n : [frame |-> snapshots[i + g].frame, offset |-> snapshots[i + g].offset - d] \in Snapshot
    BY <1>15, <1>16 DEF Snapshot
  <2>2. snapshots' = [i \in 1..n |-> [frame |-> snapshots[i + g].frame, offset |-> snapshots[i + g].offset - d]]
    BY <1>7
  <2> HIDE DEF n
  <2>3. n \in Nat
    BY <1>16
  <2>4. snapshots' \in [1..n -> Snapshot]
    BY <2>1, <2>2
  <2>5. snapshots' \in Seq(Snapshot) /\ DOMAIN snapshots' = 1..n
    BY <2>3, <2>4, SeqDef
  <2>6. Len(snapshots') = n /\ (snapshots' = <<>> <=> n = 0)
    BY <2>3, <2>5
  <2>7. \A i \in 1..n : /\ snapshots'[i].frame = snapshots[i + g].frame
                        /\ snapshots'[i].offset = snapshots[i + g].offset - d
    BY <2>2
  <2> QED
    BY <2>5, <2>6, <2>7
<1> HIDE DEF n
<1>18. SnapshotInv'
  <2>1. ASSUME NEW i \in 1..n
        PROVE  /\ snapshots'[i].offset <= Len(buffer') /\ Start' + snapshots'[i].offset \in Boundaries
               /\ snapshots'[i].frame = Heads(Start' + snapshots'[i].offset)
    <3>1. PICK j \in 1..Len(snapshots) : j = i + g
      BY <1>16
    <3>2. /\ snapshots[j].offset <= Len(buffer) /\ Start + snapshots[j].offset \in Boundaries
          /\ snapshots[j].frame = Heads(Start + snapshots[j].offset)
          /\ snapshots[j].offset \in Nat
      BY <1>2, <1>15 DEF PlayInv, SnapshotInv
    <3>3. snapshots'[i].frame = snapshots[j].frame /\ snapshots'[i].offset = snapshots[j].offset - d
      BY <1>17, <3>1
    <3>4. PICK o \in Nat : o = snapshots[j].offset
      BY <3>2
    <3>5. Start \in Nat /\ Len(buffer) \in Nat /\ Len(fetched) \in Nat
      BY <1>3
    <3>6. Start' = Start + d /\ snapshots'[i].offset = o - d /\ Len(buffer') = Len(buffer) - d + Len(fetched)
      BY <1>8, <1>10, <3>3, <3>4
    <3>7. Start' + snapshots'[i].offset = Start + snapshots[j].offset
      BY <3>4, <3>5, <3>6
    <3>8. snapshots'[i].offset <= Len(buffer')
      BY <3>2, <3>4, <3>5, <3>6
    <3> QED
      BY <3>2, <3>3, <3>7, <3>8
  <2>2. ASSUME NEW i \in 1..n, NEW j \in 1..n, i < j PROVE snapshots'[i].frame < snapshots'[j].frame
    <3>1. i + g \in 1..Len(snapshots) /\ j + g \in 1..Len(snapshots) /\ i + g < j + g
      BY <1>14, <1>15, <1>16, <2>2
    <3>2. snapshots[i + g].frame < snapshots[j + g].frame
      BY <1>2, <3>1 DEF PlayInv, SnapshotInv
    <3> QED
      BY <1>17, <3>2
  <2>3. ASSUME snapshots' # <<>> PROVE Heads(Place') - snapshots'[n].frame <= FrameGap
    <3>1. n \in 1..n /\ n + g = Len(snapshots)
      BY <1>14, <1>15, <1>16, <1>17, <2>3 DEF n
    <3>2. snapshots # <<>>
      BY <1>14, <1>15, <1>16, <3>1
    <3>3. snapshots'[n].frame = snapshots[Len(snapshots)].frame
      BY <1>17, <3>1
    <3>4. Heads(Place) - snapshots[Len(snapshots)].frame <= FrameGap
      BY <1>2, <3>2 DEF PlayInv, SnapshotInv
    <3> QED
      BY <1>10, <3>3, <3>4
  <2> QED
    BY <1>17, <2>1, <2>2, <2>3 DEF SnapshotInv
<1>19. CheckpointInv'
  <2>1. offset \in HeaderUnits..Len(File) /\ Start + Len(buffer) <= offset
    BY <1>3
  <2>2. Heads(WholeUpTo(Start + Len(buffer))) <= Heads(WholeUpTo(offset))
        /\ Heads(WholeUpTo(Start + Len(buffer))) \in Nat /\ Heads(WholeUpTo(offset)) \in Nat
    BY <1>3, <2>1, WholeGrows
  <2>3. snapshots' = <<>> => snapshots = <<>>
    BY <1>16, <1>17
  <2>4. base \in Nat /\ top \in Nat /\ top <= Heads(WholeUpTo(Start + Len(buffer)))
    BY <1>2 DEF PlayInv, CheckpointInv
  <2>5. top <= Heads(WholeUpTo(Start' + Len(buffer')))
    BY <1>10, <2>2, <2>4
  <2>6. ASSUME snapshots' # <<>> PROVE top - snapshots'[Len(snapshots')].frame <= FrameGap
    <3>1. n \in 1..n /\ n + g = Len(snapshots) /\ snapshots # <<>>
      BY <1>14, <1>15, <1>16, <1>17, <2>6 DEF n
    <3>2. snapshots'[n].frame = snapshots[Len(snapshots)].frame
      BY <1>17, <3>1
    <3>3. top - snapshots[Len(snapshots)].frame <= FrameGap
      BY <1>2, <3>1 DEF PlayInv, CheckpointInv
    <3> QED
      BY <1>17, <3>2, <3>3
  <2> QED
    BY <1>1, <1>2, <2>3, <2>5, <2>6 DEF PlayInv, CheckpointInv
<1> QED
  BY <1>1, <1>11, <1>12, <1>13, <1>18, <1>19 DEF ViewInv, PlayInv

LEMMA AllFrames == Frames(File) = Heads(Len(File))
<1>1. {i \in DOMAIN File : File[i].kind = "head"} = HeadsIn(0, Len(File))
  BY FileUnits DEF HeadsIn
<1> QED
  BY <1>1 DEF Frames, Heads

LEMMA UnderHalf == ASSUME NEW x \in Nat, NEW m \in Nat, 2 * x < m PROVE x <= m \div 2
OBVIOUS

\* Reading goes on for as long as something is there, but for the margin after a chat line.
LEMMA DryView == ASSUME ViewInv, StreamDry PROVE ViewInv'
<1>1. playing /\ ~playing' /\ UNCHANGED <<emulator, skewed>> /\ Available < Needed /\ finished /\ fetched = <<>>
  BY DEF StreamDry, EndGame, watchEmulator
<1>2. reading # "restart"
  <2>1. ASSUME reading = "restart" PROVE FALSE
    <3>1. Needed = 0
      BY <2>1 DEF Needed
    <3>2. Available = 0
      BY <1>1, <2>1 DEF ViewInv, RestartInv, Available
    <3> QED
      BY <1>1, <3>1, <3>2
  <2> QED
    BY <2>1
<1>3. PlayInv /\ FetchInv
  BY <1>1, <1>2 DEF ViewInv
<1>4. /\ Start \in Nat /\ ptr \in Nat /\ Len(buffer) \in Nat /\ Place = Start + ptr /\ Place \in Nat
      /\ ptr <= Len(buffer) /\ Len(File) \in Nat /\ Heads(Place) \in Nat
  BY <1>3, PlaceIn
<1>5. Start + Len(buffer) = Len(File)
  <2>1. offset = Len(File) /\ offset \in Nat
    BY <1>1, <1>2, <1>3 DEF FetchInv
  <2>2. Len(fetched) = 0
    BY <1>1
  <2> QED
    BY <1>4, <2>1, <2>2 DEF Start
<1>6. Available = Len(File) - Place
  BY <1>4, <1>5 DEF Available
<1>7. Heads(Len(File)) \in Nat /\ Heads(Place) <= Heads(Len(File))
  BY <1>4, <1>5, HeadsGrow
<1>8. Margin \in Nat /\ 0 <= Margin \div 2
  BY WatchAssumption
<1>9. ~skewed /\ emulator = consumed
  BY <1>3 DEF PlayInv, ReaderInv
<1>10. Heads(Len(File)) - emulator <= Margin \div 2
  <2>1. CASE reading \in {"no", "record"}
    <3>1. Needed = (IF reading = "record" THEN 1 ELSE 0)
      BY <2>1 DEF Needed
    <3>2. Place = Len(File)
      BY <1>1, <1>4, <1>5, <1>6, <3>1
    <3>3. consumed = Heads(Place)
      BY <1>3, <2>1 DEF PlayInv, ReaderInv
    <3> QED
      BY <1>7, <1>8, <1>9, <3>2, <3>3
  <2>2. CASE reading = "input"
    <3>1. Needed = 1
      BY <2>2 DEF Needed
    <3>2. Place = Len(File)
      BY <1>1, <1>4, <1>5, <1>6, <3>1
    <3>3. Place - 1 \in Boundaries /\ Place - 1 < Len(File)
      BY <1>3, <2>2 DEF PlayInv, ReaderInv
    <3>4. (Place - 1) + 2 \in Boundaries
      BY <3>3, Records
    <3>5. (Place - 1) + 2 \in HeaderUnits..Len(File)
      BY <3>4, Records
    <3>6. FALSE
      BY <1>4, <3>2, <3>5
    <3> QED
      BY <3>6
  <2>3. CASE reading = "chat"
    <3>1. Needed = Margin
      BY <2>3 DEF Needed
    <3>2. Place - 1 \in Boundaries /\ Place - 1 < Len(File) /\ consumed = Heads(Place)
      BY <1>3, <2>3 DEF PlayInv, ReaderInv
    <3>3. 2 * (Heads(Len(File)) - Heads((Place - 1) + 1)) <= Len(File) - ((Place - 1) + 1)
      BY <3>2, HalfHeads
    <3>4. (Place - 1) + 1 = Place
      BY <1>4
    <3>5. PICK x \in Nat : x = Heads(Len(File)) - Heads(Place)
      BY <1>4, <1>7
    <3>6. 2 * x < Margin
      BY <1>1, <1>4, <1>6, <1>8, <3>1, <3>3, <3>4, <3>5
    <3> QED
      BY <1>8, <1>9, <3>2, <3>5, <3>6, UnderHalf
  <2> QED
    BY <1>3, <2>1, <2>2, <2>3 DEF PlayInv, ReaderInv
<1>11. WatchedInv'
  BY <1>1, <1>9, <1>10, AllFrames DEF WatchedInv
<1> QED
  BY <1>1, <1>11 DEF ViewInv

LEMMA CallView == ASSUME ViewInv, CallMPV PROVE ViewInv'
<1>1. /\ playing /\ reading = "no" /\ reading' = "record" /\ playing'
      /\ UNCHANGED <<fetching, offset, got, fetched, finished, buffer, ptr, consumed, snapshots>>
      /\ UNCHANGED <<emulator, skewed, base, top>>
  BY DEF CallMPV, watchThread, watchPlayer, watchEmulator
<1>2. Start' = Start /\ Place' = Place
  BY <1>1 DEF Start, Place
<1>3. FetchInv /\ PlayInv
  BY <1>1 DEF ViewInv
<1>4. FetchInv'
  BY <1>1, <1>3 DEF FetchInv
<1>5. BufferInv'
  BY <1>1, <1>2, <1>3 DEF PlayInv, BufferInv, Holds
<1>6. ReaderInv'
  BY <1>1, <1>2, <1>3 DEF PlayInv, ReaderInv
<1>7. SnapshotInv'
  BY <1>1, <1>2, <1>3 DEF PlayInv, SnapshotInv
<1>8. CheckpointInv'
  BY <1>1, <1>2, <1>3 DEF PlayInv, CheckpointInv
<1> QED
  BY <1>1, <1>4, <1>5, <1>6, <1>7, <1>8 DEF ViewInv, PlayInv

\* What the reader finds in the buffer is what the file has there.
LEMMA NextUnit ==
  ASSUME PlayInv, ptr < Len(buffer)
  PROVE  buffer[ptr + 1] = File[Place + 1] /\ Place + 1 <= Start + Len(buffer) /\ Place < Len(File)
<1>1. /\ Start \in Nat /\ ptr \in Nat /\ Len(buffer) \in Nat /\ Place = Start + ptr
      /\ Start + Len(buffer) \in HeaderUnits..Len(File) /\ HeaderUnits \in Nat /\ Len(File) \in Nat
  BY PlaceIn
<1>2. ptr + 1 \in 1..Len(buffer) /\ Start + (ptr + 1) = Place + 1
  BY <1>1
<1>3. buffer[ptr + 1] = File[Start + (ptr + 1)]
  BY <1>2 DEF PlayInv, BufferInv, Holds
<1> QED
  BY <1>1, <1>2, <1>3

\* A snapshot more, in the place of the oldest if there is no room.
LEMMA SnapshotTaken ==
  ASSUME PlayInv, reading = "record", WatchSnapshotRecord, buffer' = buffer, Start' = Start,
         Place' = Place + 1, Heads(Place + 1) <= Heads(Place) + 1, Heads(Place + 1) \in Nat
  PROVE  /\ SnapshotInv' /\ snapshots' # <<>>
         /\ top - snapshots'[Len(snapshots')].frame <= FrameGap
<1> DEFINE n == Len(snapshots)
<1>1. /\ snapshots \in Seq(Snapshot) /\ n \in Nat /\ (n = 0 <=> snapshots = <<>>)
      /\ \A i \in 1..n : snapshots[i] \in Snapshot /\ snapshots[i].offset \in Nat /\ snapshots[i].frame \in Nat
      /\ \A i \in 1..n : /\ snapshots[i].offset <= Len(buffer) /\ Start + snapshots[i].offset \in Boundaries
                         /\ snapshots[i].frame = Heads(Start + snapshots[i].offset)
      /\ \A i, j \in 1..n : i < j => snapshots[i].frame < snapshots[j].frame
  BY SnapshotsInOrder DEF PlayInv, SnapshotInv
<1>2. /\ Place \in Boundaries /\ consumed = Heads(Place) /\ Place = Start + ptr /\ ptr \in Nat /\ ptr <= Len(buffer)
      /\ Heads(Place) \in Nat
  BY PlaceIn DEF PlayInv, ReaderInv
<1>3. FrameGap \in Nat \ {0} /\ Snapshots \in Nat \ {0}
  BY WatchAssumption
<1>4. CASE n > 0 /\ consumed - snapshots[n].frame < FrameGap
  <2>1. snapshots' = snapshots
    BY <1>4 DEF WatchSnapshotRecord
  <2>2. snapshots[n].frame \in Nat
    BY <1>1, <1>4
  <2>3. Heads(Place') - snapshots[n].frame <= FrameGap
    BY <1>2, <1>3, <1>4, <2>2
  <2>4. top - snapshots[n].frame <= FrameGap /\ snapshots # <<>>
    BY <1>1, <1>4 DEF PlayInv, CheckpointInv
  <2> QED
    BY <1>1, <1>4, <2>1, <2>3, <2>4 DEF SnapshotInv
<1>5. CASE ~(n > 0 /\ consumed - snapshots[n].frame < FrameGap)
  <2>1. PICK s \in Snapshot : s = [frame |-> consumed, offset |-> ptr]
    BY <1>2 DEF Snapshot
  <2>2. PICK old : old = IF n = Snapshots THEN Tail(snapshots) ELSE snapshots
    OBVIOUS
  <2>3. snapshots' = Append(old, s)
    BY <1>5, <2>1, <2>2 DEF WatchSnapshotRecord
  <2>4. PICK k \in {0, 1} : /\ k = (IF n = Snapshots THEN 1 ELSE 0) /\ k <= n
                            /\ old \in Seq(Snapshot) /\ Len(old) = n - k
                            /\ \A i \in 1..n - k : old[i] = snapshots[i + k]
    <3>1. CASE n = Snapshots
      <4>1. n > 0 /\ snapshots # <<>>
        BY <1>1, <1>3, <3>1
      <4>2. /\ Tail(snapshots) \in Seq(Snapshot) /\ Len(Tail(snapshots)) = n - 1
            /\ \A i \in 1..n - 1 : Tail(snapshots)[i] = snapshots[i + 1]
        BY <1>1, <4>1, HeadTailProperties
      <4> HIDE DEF n
      <4> QED
        BY <1>1, <2>2, <3>1, <4>1, <4>2
    <3>2. CASE n # Snapshots
      <4>1. n - 0 = n /\ \A i \in 1..n - 0 : i + 0 = i
        BY <1>1
      <4> QED
        BY <1>1, <2>2, <3>2, <4>1
    <3> QED
      BY <3>1, <3>2
  <2>5. /\ snapshots' \in Seq(Snapshot) /\ snapshots' # <<>> /\ Len(snapshots') = (n - k) + 1
        /\ \A i \in 1..n - k : snapshots'[i] = snapshots[i + k]
        /\ snapshots'[(n - k) + 1] = s
    <3>1. /\ Append(old, s) \in Seq(Snapshot) /\ Append(old, s) # <<>> /\ Len(Append(old, s)) = Len(old) + 1
          /\ \A i \in 1..Len(old) : Append(old, s)[i] = old[i]
          /\ Append(old, s)[Len(old) + 1] = s
      BY <2>4, AppendProperties
    <3> QED
      BY <2>3, <2>4, <3>1
  <2>6. PICK m \in Nat : m = n - k
    BY <1>1, <2>4
  <2>7. \A i \in 1..m : i + k \in 1..n
    BY <1>1, <2>4, <2>6
  <2>8. /\ s.frame = consumed /\ s.offset = ptr /\ s.frame = Heads(Start + s.offset) /\ s.offset <= Len(buffer)
        /\ Start + s.offset \in Boundaries
    BY <1>2, <2>1
  <2>9. \A i \in 1..n : snapshots[i].frame < consumed
    <3> SUFFICES ASSUME NEW i \in 1..n PROVE snapshots[i].frame < consumed
      OBVIOUS
    <3>1. n > 0 /\ n \in 1..n
      BY <1>1
    <3>2. snapshots[n].frame \in Nat /\ snapshots[i].frame \in Nat
      BY <1>1, <3>1
    <3>3. snapshots[n].frame < consumed
      BY <1>2, <1>3, <1>5, <3>1, <3>2
    <3>4. i = n \/ snapshots[i].frame < snapshots[n].frame
      BY <1>1, <3>1
    <3> QED
      BY <1>2, <3>2, <3>3, <3>4
  <2>10. ASSUME NEW i \in 1..m + 1
         PROVE  /\ snapshots'[i].offset <= Len(buffer) /\ Start + snapshots'[i].offset \in Boundaries
                /\ snapshots'[i].frame = Heads(Start + snapshots'[i].offset)
    <3>1. CASE i = m + 1
      BY <2>5, <2>6, <2>8, <3>1
    <3>2. CASE i # m + 1
      <4>1. i \in 1..m
        BY <3>2
      <4> QED
        BY <1>1, <2>5, <2>6, <2>7, <4>1
    <3> QED
      BY <3>1, <3>2
  <2>11. ASSUME NEW i \in 1..m + 1, NEW j \in 1..m + 1, i < j PROVE snapshots'[i].frame < snapshots'[j].frame
    <3>1. i \in 1..m
      BY <2>11
    <3>2. snapshots'[i] = snapshots[i + k] /\ i + k \in 1..n
      BY <2>5, <2>6, <2>7, <3>1
    <3>3. CASE j = m + 1
      BY <2>5, <2>6, <2>8, <2>9, <3>2, <3>3
    <3>4. CASE j # m + 1
      <4>1. j \in 1..m /\ i + k < j + k
        BY <2>4, <2>11, <3>4
      <4>2. snapshots'[j] = snapshots[j + k] /\ j + k \in 1..n
        BY <2>5, <2>6, <2>7, <4>1
      <4> QED
        BY <1>1, <3>2, <4>1, <4>2
    <3> QED
      BY <3>3, <3>4
  <2>12. Heads(Place') - s.frame <= FrameGap
    BY <1>2, <1>3, <2>8
  <2>13. Len(snapshots') = m + 1 /\ snapshots'[m + 1] = s
    BY <2>5, <2>6
  <2>14. top - s.frame <= FrameGap
    <3>1. s.frame = consumed /\ consumed \in Nat /\ top \in Nat /\ emulator = consumed
      BY <1>2, <2>1 DEF PlayInv, ReaderInv, CheckpointInv
    <3>2. CASE n = 0
      BY <1>1, <1>3, <3>1, <3>2 DEF PlayInv, CheckpointInv
    <3>3. CASE n > 0
      <4>1. snapshots[n].frame \in Nat /\ snapshots # <<>>
        BY <1>1, <3>3
      <4>2. top - snapshots[n].frame <= FrameGap
        BY <4>1 DEF PlayInv, CheckpointInv
      <4> QED
        BY <1>3, <1>5, <3>1, <3>3, <4>1, <4>2
    <3> QED
      BY <1>1, <3>2, <3>3
  <2> QED
    BY <2>5, <2>10, <2>11, <2>12, <2>13, <2>14 DEF SnapshotInv
<1> QED
  BY <1>4, <1>5

\* What every move of the reader within a record leaves alone.
LEMMA ReaderMoves ==
  ASSUME PlayInv, FetchInv, reading # "restart", reading' # "restart",
         UNCHANGED <<fetching, offset, got, fetched, finished, buffer>>, ptr' = ptr + 1, ptr < Len(buffer)
  PROVE  FetchInv' /\ BufferInv' /\ Start' = Start /\ Place' = Place + 1 /\ Place \in Nat /\ Start \in Nat
<1>1. Start' = Start
  BY DEF Start
<1>2. /\ Start \in Nat /\ ptr \in Nat /\ Len(buffer) \in Nat /\ Place = Start + ptr /\ Place \in Nat
  BY PlaceIn
<1>3. Place' = Place + 1
  BY <1>1, <1>2 DEF Place
<1>4. FetchInv'
  BY DEF FetchInv
<1>5. ptr' \in Nat /\ ptr' <= Len(buffer')
  BY <1>2
<1>6. BufferInv'
  BY <1>1, <1>5 DEF PlayInv, BufferInv, Holds
<1> QED
  BY <1>1, <1>2, <1>3, <1>4, <1>6

LEMMA TypeView == ASSUME ViewInv, ReadType PROVE ViewInv'
<1>1. /\ playing /\ playing' /\ reading = "record" /\ Available >= Needed /\ WatchSnapshotRecord /\ ptr' = ptr + 1
      /\ UNCHANGED <<fetching, offset, got, fetched, finished, buffer, consumed, emulator, base, top>>
      /\ skewed' = (skewed \/ buffer[ptr + 1].kind \notin {"head", "chat"})
  BY DEF ReadType, watchThread
<1>2. PlayInv /\ FetchInv
  BY <1>1 DEF ViewInv
<1>3. ptr < Len(buffer)
  <2>1. Needed = 1
    BY <1>1 DEF Needed
  <2>2. ptr \in Nat /\ Len(buffer) \in Nat
    BY <1>2, PlaceIn
  <2> QED
    BY <1>1, <2>1, <2>2 DEF Available
<1>4. buffer[ptr + 1] = File[Place + 1] /\ Place < Len(File)
  BY <1>2, <1>3, NextUnit
<1>5. /\ Place \in Boundaries /\ consumed = Heads(Place) /\ emulator = consumed /\ ~skewed
  BY <1>1, <1>2 DEF PlayInv, ReaderInv
<1>6. File[Place + 1].kind \in {"head", "chat"}
  BY <1>4, <1>5, Records
<1>7. /\ reading' = (IF File[Place + 1].kind = "head" THEN "input" ELSE "chat") /\ ~skewed'
  BY <1>1, <1>4, <1>5, <1>6 DEF ReadType
<1>8. reading # "restart" /\ reading' # "restart"
  BY <1>1, <1>7
<1>9. FetchInv' /\ BufferInv' /\ Start' = Start /\ Place' = Place + 1 /\ Place \in Nat
  BY <1>1, <1>2, <1>3, <1>8, ReaderMoves
<1>10. Heads(Place + 1) = Heads(Place) + (IF File[Place + 1].kind = "head" THEN 1 ELSE 0) /\ Heads(Place) \in Nat
  BY <1>9, HeadsStep
<1>11. SnapshotInv' /\ snapshots' # <<>> /\ top - snapshots'[Len(snapshots')].frame <= FrameGap
  <2>1. Heads(Place + 1) <= Heads(Place) + 1 /\ Heads(Place + 1) \in Nat
    BY <1>10
  <2> QED
    BY <1>1, <1>2, <1>9, <2>1, SnapshotTaken
<1>12. ReaderInv'
  <2>1. Place' - 1 = Place
    BY <1>9
  <2> QED
    BY <1>1, <1>4, <1>5, <1>6, <1>7, <1>9, <1>10, <2>1 DEF ReaderInv
<1>13. CheckpointInv'
  BY <1>1, <1>2, <1>9, <1>11 DEF PlayInv, CheckpointInv
<1> QED
  BY <1>1, <1>8, <1>9, <1>11, <1>12, <1>13 DEF ViewInv, PlayInv

\* The second half of the record is what the reader takes it for.
LEMMA InputView == ASSUME ViewInv, ReadInput PROVE ViewInv'
<1>1. /\ playing /\ playing' /\ reading = "input" /\ reading' = "no" /\ Available >= Needed /\ ptr' = ptr + 1
      /\ UNCHANGED <<fetching, offset, got, fetched, finished, buffer, snapshots, base>>
      /\ consumed' = consumed + 1 /\ emulator' = emulator + 1
      /\ skewed' = (skewed \/ buffer[ptr + 1] # [kind |-> "input", frame |-> emulator + 1])
      /\ top' = IF emulator' > top THEN emulator' ELSE top
  BY DEF ReadInput, watchThread
<1>2. PlayInv /\ FetchInv
  BY <1>1 DEF ViewInv
<1>3. ptr < Len(buffer)
  <2>1. Needed = 1
    BY <1>1 DEF Needed
  <2>2. ptr \in Nat /\ Len(buffer) \in Nat
    BY <1>2, PlaceIn
  <2> QED
    BY <1>1, <2>1, <2>2 DEF Available
<1>4. buffer[ptr + 1] = File[Place + 1] /\ Place + 1 <= Start + Len(buffer)
  BY <1>2, <1>3, NextUnit
<1>5. reading # "restart" /\ reading' # "restart"
  BY <1>1
<1>6. FetchInv' /\ BufferInv' /\ Start' = Start /\ Place' = Place + 1 /\ Place \in Nat
  BY <1>1, <1>2, <1>3, <1>5, ReaderMoves
<1>7. PICK m \in Boundaries : m = Place - 1 /\ m < Len(File) /\ File[Place].kind = "head" /\ m \in Nat
                              /\ m + 1 = Place /\ m + 2 = Place + 1
  <2>1. Place - 1 \in Boundaries /\ Place - 1 < Len(File) /\ File[Place].kind = "head"
    BY <1>1, <1>2 DEF PlayInv, ReaderInv
  <2>2. Place - 1 \in Nat
    BY <2>1, Records
  <2>3. (Place - 1) + 1 = Place /\ (Place - 1) + 2 = Place + 1
    BY <1>6
  <2> QED
    BY <2>1, <2>2, <2>3
<1>8. /\ m + 2 \in Boundaries
      /\ File[m + 2] = [kind |-> "input", frame |-> Heads(m + 2)] /\ Heads(m + 2) = Heads(m + 1)
  <2>1. m + 2 \in Boundaries
    BY <1>7, Records
  <2>2. File[m + 1].kind = "head"
    BY <1>7
  <2>3. File[m + 2] = [kind |-> "input", frame |-> Heads(m + 2)] /\ Heads(m + 2) = Heads(m + 1)
    BY <1>7, <2>2, SecondHalf
  <2> QED
    BY <2>1, <2>3
<1>9. consumed = Heads(Place) - 1 /\ emulator = consumed /\ ~skewed /\ Heads(Place) \in Nat
  BY <1>1, <1>2, PlaceIn DEF PlayInv, ReaderInv
<1>10. /\ Place' \in Boundaries /\ Heads(Place') = Heads(Place) /\ consumed' = Heads(Place')
       /\ emulator' = consumed' /\ ~skewed'
  <2>1. Place' = m + 2 /\ Heads(Place') = Heads(Place)
    BY <1>6, <1>7, <1>8
  <2>2. emulator + 1 = Heads(m + 2)
    BY <1>7, <1>8, <1>9
  <2>3. buffer[ptr + 1] = [kind |-> "input", frame |-> emulator + 1]
    BY <1>4, <1>7, <1>8, <2>2
  <2>4. ~skewed'
    BY <1>1, <1>9, <2>3, Zenon
  <2>5. consumed + 1 = Heads(Place)
    BY <1>9
  <2>6. m + 2 \in Boundaries
    BY <1>8
  <2> QED
    BY <1>1, <1>9, <2>1, <2>4, <2>5, <2>6
<1>11. ReaderInv'
  BY <1>1, <1>10 DEF ReaderInv
<1>12. SnapshotInv'
  BY <1>1, <1>2, <1>6, <1>10 DEF PlayInv, SnapshotInv
<1>13. snapshots # <<>>
  BY <1>1, <1>2 DEF PlayInv, CheckpointInv
<1>14. Heads(Place') <= Heads(WholeUpTo(Start + Len(buffer)))
  <2>1. Start + Len(buffer) \in HeaderUnits..Len(File)
    BY <1>2, PlaceIn
  <2>2. Place' <= Start + Len(buffer) /\ Place' \in Nat
    BY <1>4, <1>6
  <2>3. PICK p \in Boundaries : p = Place' /\ p \in Nat
    BY <1>10, <2>2
  <2>4. p <= WholeUpTo(Start + Len(buffer)) /\ WholeUpTo(Start + Len(buffer)) \in Nat
    BY <2>1, <2>2, <2>3, WholeBefore
  <2>5. Heads(p) <= Heads(WholeUpTo(Start + Len(buffer)))
    BY <2>3, <2>4, HeadsGrow
  <2> QED
    BY <2>3, <2>5
<1>15. /\ base \in Nat /\ top \in Nat /\ base <= emulator /\ emulator <= top
       /\ top <= Heads(WholeUpTo(Start + Len(buffer)))
       /\ top - snapshots[Len(snapshots)].frame <= FrameGap
       /\ Heads(Place) - snapshots[Len(snapshots)].frame <= FrameGap
  BY <1>2, <1>13 DEF PlayInv, CheckpointInv, SnapshotInv
<1>16. /\ emulator \in Int /\ emulator' = Heads(Place)
  BY <1>9, <1>10
<1>17. top' \in Nat /\ base <= emulator' /\ emulator' <= top'
  BY <1>1, <1>9, <1>15, <1>16
<1>18. top' = top \/ top' = Heads(Place)
  BY <1>1, <1>16
<1>19. CheckpointInv'
  BY <1>1, <1>6, <1>10, <1>13, <1>14, <1>15, <1>17, <1>18 DEF CheckpointInv
<1> QED
  BY <1>1, <1>5, <1>6, <1>11, <1>12, <1>19 DEF ViewInv, PlayInv

LEMMA ChatView == ASSUME ViewInv, ReadChat PROVE ViewInv'
<1>1. /\ playing /\ playing' /\ reading = "chat" /\ reading' = "record" /\ Available >= Needed /\ ptr' = ptr + 1
      /\ UNCHANGED <<fetching, offset, got, fetched, finished, buffer, snapshots, consumed>>
      /\ UNCHANGED <<emulator, skewed, base, top>>
  BY DEF ReadChat, watchThread, watchEmulator
<1>2. PlayInv /\ FetchInv
  BY <1>1 DEF ViewInv
<1>3. ptr < Len(buffer)
  <2>1. Needed = Margin /\ Margin \in Nat \ {0}
    BY <1>1, WatchAssumption DEF Needed
  <2>2. ptr \in Nat /\ Len(buffer) \in Nat
    BY <1>2, PlaceIn
  <2> QED
    BY <1>1, <2>1, <2>2 DEF Available
<1>4. reading # "restart" /\ reading' # "restart"
  BY <1>1
<1>5. FetchInv' /\ BufferInv' /\ Start' = Start /\ Place' = Place + 1 /\ Place \in Nat
  BY <1>1, <1>2, <1>3, <1>4, ReaderMoves
<1>6. PICK m \in Boundaries : m = Place - 1 /\ m < Len(File) /\ m \in Nat
                              /\ m + 1 = Place /\ m + 2 = Place + 1
  <2>1. Place - 1 \in Boundaries /\ Place - 1 < Len(File)
    BY <1>1, <1>2 DEF PlayInv, ReaderInv
  <2>2. Place - 1 \in Nat
    BY <2>1, Records
  <2>3. (Place - 1) + 1 = Place /\ (Place - 1) + 2 = Place + 1
    BY <1>5
  <2> QED
    BY <2>1, <2>2, <2>3
<1>7. m + 2 \in Boundaries /\ Heads(m + 2) = Heads(m + 1)
  BY <1>6, Records, SecondHalf
<1>8. consumed = Heads(Place) /\ emulator = consumed /\ ~skewed
  BY <1>1, <1>2 DEF PlayInv, ReaderInv
<1>9. Place' \in Boundaries /\ Heads(Place') = Heads(Place)
  BY <1>5, <1>6, <1>7
<1>10. ReaderInv'
  BY <1>1, <1>8, <1>9 DEF ReaderInv
<1>11. SnapshotInv'
  BY <1>1, <1>2, <1>5, <1>9 DEF PlayInv, SnapshotInv
<1>12. CheckpointInv'
  BY <1>1, <1>2, <1>5 DEF PlayInv, CheckpointInv
<1> QED
  BY <1>1, <1>4, <1>5, <1>10, <1>11, <1>12 DEF ViewInv, PlayInv

LEMMA JumpView == ASSUME ViewInv, JumpToLive PROVE ViewInv'
<1>1. PICK n \in Boundaries : /\ target' = n /\ consumed' = Frames(SubSeq(File, 1, n))
                              /\ emulator' = consumed' /\ base' = consumed' /\ top' = consumed'
  BY DEF JumpToLive
<1>2. /\ playing /\ playing' /\ reading = "no" /\ reading' = "restart"
      /\ buffer' = <<>> /\ ptr' = 0 /\ snapshots' = <<>>
      /\ UNCHANGED <<offset, got, fetched, finished, skewed>>
  BY DEF JumpToLive
<1>3. PlayInv /\ FetchInv
  BY <1>2 DEF ViewInv
<1>4. consumed' = Heads(n)
  <2>1. n \in HeaderUnits..Len(File) /\ n \in Nat /\ HeaderUnits \in Nat /\ Len(File) \in Nat
    BY Records, FileUnits
  <2>2. PICK m \in 0..HeaderUnits : m = 0
    BY <2>1
  <2>3. m \in Nat /\ m <= n /\ n <= Len(File) /\ m + 1 = 1
    BY <2>1, <2>2
  <2>4. Frames(SubSeq(File, m + 1, n)) = Heads(n) - Heads(m)
    BY <2>1, <2>3, FileFrames
  <2>5. Heads(m) = 0 /\ Heads(n) \in Nat
    BY <2>1, NoHeads, HeadsFinite
  <2>6. Frames(SubSeq(File, 1, n)) = Heads(n) - Heads(m)
    BY <2>3, <2>4
  <2> QED
    BY <1>1, <2>5, <2>6
<1>5. ~skewed'
  BY <1>2, <1>3 DEF PlayInv, ReaderInv
<1>6. RestartInv'
  BY <1>1, <1>2, <1>4, <1>5 DEF RestartInv
<1>7. FetchInv'
  <2>1. buffer' \in Seq(Unit)
    BY <1>2
  <2> QED
    BY <1>2, <1>3, <2>1 DEF FetchInv
<1> QED
  BY <1>2, <1>6, <1>7 DEF ViewInv

LEMMA RestartView == ASSUME ViewInv, RestartFromOffset PROVE ViewInv'
<1>1. /\ reading = "restart" /\ reading' = "no" /\ fetched' = <<>> /\ ~finished' /\ offset' = target /\ got' = 0
      /\ fetching' = "sleep"
      /\ UNCHANGED <<playing, buffer, ptr, consumed, snapshots, emulator, skewed, base, top>>
  BY DEF RestartFromOffset, watchPlayer, watchEmulator
<1>2. CASE ~playing
  BY <1>1, <1>2 DEF ViewInv, WatchedInv
<1>3. CASE playing
  <2>1. /\ buffer = <<>> /\ ptr = 0 /\ snapshots = <<>>
        /\ target \in Boundaries /\ consumed = Heads(target)
        /\ emulator = consumed /\ base = consumed /\ top = consumed /\ ~skewed
    BY <1>1, <1>3 DEF ViewInv, RestartInv
  <2>2. /\ target \in Nat /\ target <= Len(File) /\ Len(File) \in Nat /\ Heads(target) \in Nat
    <3>1. target \in HeaderUnits..Len(File) /\ target \in Nat
      BY <2>1, Records
    <3>2. HeaderUnits \in Nat /\ Len(File) \in Nat
      BY FileUnits
    <3> QED
      BY <3>1, <3>2, HeadsFinite
  <2>3. /\ buffer' \in Seq(Unit) /\ Len(buffer') = 0 /\ fetched' \in Seq(Unit) /\ Len(fetched') = 0
        /\ snapshots' \in Seq(Snapshot) /\ Len(snapshots') = 0 /\ snapshots' = <<>>
    BY <1>1, <2>1
  <2>4. Start' = target /\ Place' = target /\ Start' + Len(buffer') = target
    <3>1. Start' = offset' - Len(fetched') - Len(buffer')
      BY DEF Start
    <3>2. Start' = target
      BY <1>1, <2>2, <2>3, <3>1
    <3>3. Place' = Start' + ptr'
      BY DEF Place
    <3> QED
      BY <1>1, <2>1, <2>2, <2>3, <3>2, <3>3
  <2>5. FetchInv'
    BY <1>1, <2>2, <2>3 DEF FetchInv
  <2>6. BufferInv'
    <3>1. /\ Start' \in Nat /\ Start' + Len(buffer') <= Len(File)
          /\ \A i \in 1..Len(buffer') : buffer'[i] = File[Start' + i]
          /\ \A i \in 1..Len(fetched') : fetched'[i] = File[Start' + Len(buffer') + i]
      BY <2>2, <2>3, <2>4
    <3>2. Holds(buffer, Start)'
      BY <2>3, <3>1 DEF Holds
    <3>3. ptr' \in Nat /\ ptr' <= Len(buffer')
      BY <1>1, <2>1, <2>3
    <3> QED
      BY <3>1, <3>2, <3>3 DEF BufferInv
  <2>7. ReaderInv'
    BY <1>1, <2>1, <2>4 DEF ReaderInv
  <2>8. SnapshotInv'
    BY <2>3 DEF SnapshotInv
  <2>9. CheckpointInv'
    <3>1. WholeUpTo(target) = target
      BY <2>1 DEF WholeUpTo
    <3> QED
      BY <1>1, <2>1, <2>2, <2>3, <2>4, <3>1 DEF CheckpointInv
  <2> QED
    BY <1>1, <1>3, <2>5, <2>6, <2>7, <2>8, <2>9 DEF ViewInv, PlayInv
<1> QED
  BY <1>2, <1>3

\* Of the snapshots in order, the last at or before a frame that the first is not past.
LEMMA LastBefore ==
  ASSUME PlayInv, NEW frame \in Nat, snapshots # <<>>, snapshots[1].frame <= frame
  PROVE  \E i \in 1..Len(snapshots) : LastSnapshot(frame) = snapshots[i] /\ snapshots[i].frame <= frame
<1> DEFINE n == Len(snapshots)
           before == {i \in DOMAIN snapshots : \A j \in 1..i : snapshots[j].frame <= frame}
           least == {n - i : i \in before}
<1>1. n \in Nat /\ n > 0 /\ DOMAIN snapshots = 1..n
  BY SnapshotsInOrder DEF PlayInv, SnapshotInv
<1>2. 1 \in before
  BY <1>1
<1>3. before \subseteq 1..n
  BY <1>1
<1>4. \A i \in before : snapshots[i].frame <= frame
  <2>1. ASSUME NEW i \in before PROVE snapshots[i].frame <= frame
    <3>1. i \in 1..i
      BY <1>1
    <3> QED
      BY <3>1
  <2> QED
    BY <2>1
<1> HIDE DEF n, before
<1>5. least \subseteq Nat /\ least # {}
  BY <1>1, <1>2, <1>3
<1>6. PICK d \in least : \A e \in least : d <= e
  BY <1>5, LeastOf
<1>7. PICK i \in before : d = n - i
  BY <1>6
<1>8. \A j \in before : j <= i
  <2>1. ASSUME NEW j \in before PROVE j <= i
    <3>1. d <= n - j
      BY <1>6
    <3> QED
      BY <1>1, <1>3, <1>7, <3>1
  <2> QED
    BY <2>1
<1> DEFINE k == CHOOSE x \in before : \A j \in before : j <= x
<1>9. k \in before
  BY <1>7, <1>8
<1>10. LastSnapshot(frame) = snapshots[k]
  BY <1>2 DEF LastSnapshot, before
<1> HIDE DEF k
<1> QED
  BY <1>3, <1>4, <1>9, <1>10 DEF n

\* A rewind that some snapshot is early enough for goes to the record of its frame.
LEMMA RewindView == ASSUME ViewInv, Rewind, ~clamped' PROVE ViewInv'
<1>1. PICK frame \in base..top : /\ emulator' = frame
                                 /\ clamped' = (clamped \/ (snapshots # <<>> /\ snapshots[1].frame > frame))
                                 /\ SeekToFrame(frame)
  BY DEF Rewind
<1>2. /\ playing /\ playing' /\ reading = "no" /\ reading' = "no"
      /\ UNCHANGED <<fetching, offset, got, fetched, finished, buffer, snapshots, skewed, base, top>>
  BY DEF Rewind, watchThread
<1>3. PlayInv /\ FetchInv
  BY <1>2 DEF ViewInv
<1>4. /\ Start' = Start /\ Start \in Nat /\ ptr \in Nat /\ Len(buffer) \in Nat /\ Place = Start + ptr
      /\ Start + Len(buffer) \in HeaderUnits..Len(File) /\ Len(File) \in Nat /\ HeaderUnits \in Nat
      /\ buffer \in Seq(Unit)
  <2>1. Start' = Start
    BY <1>2 DEF Start
  <2> QED
    BY <1>3, <2>1, PlaceIn
<1>5. /\ base \in Nat /\ top \in Nat /\ frame \in Nat /\ base <= frame /\ frame <= top
      /\ top <= Heads(WholeUpTo(Start + Len(buffer)))
      /\ (snapshots = <<>> => base = emulator /\ top = emulator)
      /\ (snapshots # <<>> => top - snapshots[Len(snapshots)].frame <= FrameGap)
  <2>1. /\ base \in Nat /\ top \in Nat
        /\ top <= Heads(WholeUpTo(Start + Len(buffer)))
        /\ (snapshots = <<>> => base = emulator /\ top = emulator)
        /\ (snapshots # <<>> => top - snapshots[Len(snapshots)].frame <= FrameGap)
    BY <1>3 DEF PlayInv, CheckpointInv
  <2> QED
    BY <2>1
<1>6. /\ ptr' \in Nat /\ ptr' <= Len(buffer) /\ Start + ptr' \in Boundaries
      /\ consumed' = frame /\ Heads(Start + ptr') = frame
  <2>1. CASE snapshots = <<>>
    <3>1. ptr' = ptr /\ consumed' = consumed
      BY <1>1, <2>1 DEF SeekToFrame
    <3>2. frame = emulator
      BY <1>5, <2>1
    <3>3. ptr <= Len(buffer) /\ Place \in Boundaries /\ consumed = Heads(Place) /\ emulator = consumed
      BY <1>2, <1>3, PlaceIn DEF PlayInv, ReaderInv
    <3> QED
      BY <1>4, <3>1, <3>2, <3>3
  <2>2. CASE snapshots # <<>>
    <3>1. snapshots[1].frame <= frame
      <4>1. Len(snapshots) \in Nat /\ Len(snapshots) > 0
        BY <1>3, <2>2, SnapshotsInOrder DEF PlayInv, SnapshotInv
      <4>2. 1 \in 1..Len(snapshots)
        BY <4>1
      <4>3. snapshots[1].frame \in Nat
        BY <1>3, <4>2, SnapshotsInOrder DEF PlayInv
      <4>4. ~(snapshots[1].frame > frame)
        BY <1>1, <2>2, Zenon
      <4> QED
        BY <1>5, <4>3, <4>4
    <3>2. PICK i \in 1..Len(snapshots) : LastSnapshot(frame) = snapshots[i] /\ snapshots[i].frame <= frame
      BY <1>3, <1>5, <2>2, <3>1, LastBefore
    <3> DEFINE s == snapshots[i]
               end == Walk(s.offset, s.frame, frame)
    <3>3. ptr' = end /\ consumed' = s.frame + Frames(SubSeq(buffer, s.offset + 1, end))
      BY <1>1, <2>2, <3>2 DEF SeekToFrame
    <3>4. s.offset \in Nat /\ s.offset <= Len(buffer) /\ Start + s.offset \in Boundaries /\ s.frame = Heads(Start + s.offset)
      BY <1>3, SnapshotsInOrder DEF PlayInv, SnapshotInv
    <3>5. Holds(buffer, Start)
      BY <1>3 DEF PlayInv, BufferInv
    <3>6. frame <= Heads(WholeUpTo(Start + Len(buffer)))
      <4>1. WholeUpTo(Start + Len(buffer)) \in Nat
        BY <1>4, WholeBefore
      <4>2. Heads(WholeUpTo(Start + Len(buffer))) \in Nat
        BY <4>1, HeadsFinite
      <4> QED
        BY <1>5, <4>2
    <3>7. PICK from \in Nat, frames \in Nat : from = s.offset /\ frames = s.frame
      BY <3>4, <1>3, SnapshotsInOrder DEF PlayInv
    <3>8. /\ end = Walk(from, frames, frame)
          /\ consumed' = frames + Frames(SubSeq(buffer, from + 1, end))
      BY <3>3, <3>7
    <3> HIDE DEF end
    <3>9. /\ from <= Len(buffer) /\ Start + from \in Boundaries /\ frames = Heads(Start + from)
          /\ Heads(Start + from) <= frame
      BY <3>2, <3>4, <3>7
    <3> HIDE DEF s
    <3>10. LET e == Walk(from, frames, frame)
           IN /\ e \in Nat /\ from <= e /\ e <= Len(buffer) /\ Start + e \in Boundaries
              /\ Heads(Start + e) = frame
              /\ frames + Frames(SubSeq(buffer, from + 1, e)) = frame
      BY <1>5, <3>5, <3>6, <3>7, <3>9, WalkEnds
    <3> QED
      BY <3>3, <3>8, <3>10
  <2> QED
    BY <2>1, <2>2
<1>7. Place' = Start + ptr' /\ Heads(Place') = frame /\ Place' \in Boundaries
  BY <1>4, <1>6 DEF Place
<1>8. FetchInv'
  BY <1>2, <1>3 DEF FetchInv
<1>9. BufferInv'
  BY <1>2, <1>3, <1>4, <1>6 DEF PlayInv, BufferInv, Holds
<1>10. ReaderInv'
  <2>1. ~skewed
    BY <1>3 DEF PlayInv, ReaderInv
  <2> QED
    BY <1>1, <1>2, <1>6, <1>7, <2>1 DEF ReaderInv
<1>11. SnapshotInv'
  <2>1. ASSUME snapshots # <<>> PROVE frame - snapshots[Len(snapshots)].frame <= FrameGap
    <3>1. Len(snapshots) \in 1..Len(snapshots)
      BY <1>3, <2>1, SnapshotsInOrder DEF PlayInv, SnapshotInv
    <3>2. snapshots[Len(snapshots)].frame \in Nat
      BY <1>3, <3>1, SnapshotsInOrder DEF PlayInv
    <3> QED
      BY <1>5, <2>1, <3>2, WatchAssumption
  <2> QED
    BY <1>2, <1>3, <1>4, <1>7, <2>1 DEF PlayInv, SnapshotInv
<1>12. CheckpointInv'
  BY <1>1, <1>2, <1>4, <1>5 DEF CheckpointInv
<1> QED
  BY <1>2, <1>8, <1>9, <1>10, <1>11, <1>12 DEF ViewInv, PlayInv

\* A rewind to before the oldest snapshot is not forgotten.
LEMMA ClampedStays == [WatchNext]_watchVars /\ clamped => clamped'
<1>1. CASE HostPosts \/ HostEnds \/ Fetch \/ WatchBufAppend \/ WatchRefill \/ StreamDry \/ CallMPV
  BY <1>1 DEF HostPosts, HostEnds, Fetch, WatchBufAppend, WatchRefill, StreamDry, CallMPV, watchEmulator
<1>2. CASE ReadType \/ ReadInput \/ ReadChat \/ PauseUnlocks
  BY <1>2 DEF ReadType, ReadInput, ReadChat, PauseUnlocks, watchEmulator
<1>3. CASE Rewind
  BY <1>3 DEF Rewind
<1>4. CASE JumpToLive
  BY <1>4 DEF JumpToLive
<1>5. CASE RestartFromOffset
  BY <1>5 DEF RestartFromOffset, watchEmulator
<1>6. CASE UNCHANGED watchVars
  BY <1>6 DEF watchVars, watchEmulator
<1> QED
  BY <1>1, <1>2, <1>3, <1>4, <1>5, <1>6 DEF WatchNext

LEMMA NextWatches == RecordsFit /\ WatchInv /\ [WatchNext]_watchVars => WatchInv'
<1> SUFFICES ASSUME RecordsFit, WatchInv, [WatchNext]_watchVars PROVE WatchInv'
  OBVIOUS
<1>1. OverInv'
  BY OverStays
<1>2. ASSUME ~clamped' PROVE ViewInv'
  <2>1. OverInv /\ ViewInv
    BY <1>2, ClampedStays DEF WatchInv
  <2>2. CASE HostPosts \/ HostEnds \/ PauseUnlocks \/ UNCHANGED watchVars
    BY <2>1, <2>2, OthersView
  <2>3. CASE Fetch
    BY <2>1, <2>3, FetchView
  <2>4. CASE WatchBufAppend
    BY <2>1, <2>4, AppendView
  <2>5. CASE WatchRefill
    BY <2>1, <2>5, RefillView
  <2>6. CASE StreamDry
    BY <2>1, <2>6, DryView
  <2>7. CASE CallMPV
    BY <2>1, <2>7, CallView
  <2>8. CASE ReadType
    BY <2>1, <2>8, TypeView
  <2>9. CASE ReadInput
    BY <2>1, <2>9, InputView
  <2>10. CASE ReadChat
    BY <2>1, <2>10, ChatView
  <2>11. CASE Rewind
    BY <1>2, <2>1, <2>11, RewindView
  <2>12. CASE JumpToLive
    BY <2>1, <2>12, JumpView
  <2>13. CASE RestartFromOffset
    BY <2>1, <2>13, RestartView
  <2> QED
    BY <2>2, <2>3, <2>4, <2>5, <2>6, <2>7, <2>8, <2>9, <2>10, <2>11, <2>12, <2>13 DEF WatchNext
<1> QED
  BY <1>1, <1>2 DEF WatchInv

LEMMA InvExact == WatchInv => FrameExact
<1> SUFFICES ASSUME WatchInv PROVE FrameExact
  OBVIOUS
<1>1. ~playing => over
  BY DEF WatchInv, OverInv
<1>2. ASSUME ~clamped PROVE ~skewed /\ (~playing => Frames(File) - emulator <= Margin \div 2)
  <2>1. ViewInv
    BY <1>2 DEF WatchInv
  <2> QED
    BY <2>1 DEF ViewInv, RestartInv, PlayInv, ReaderInv, WatchedInv
<1> QED
  BY <1>1, <1>2 DEF FrameExact

\* For every stream of whole records whose inputs are numbered in order, every way its units are
\* cut into chunks, every number of snapshots, gap between them and margin, and every interleaving
\* of the fetching thread, the reader, the rewinds and the jumps to the live edge: the emulator is
\* given the input of the frame it is about to play, from a record read at its first byte, unless a
\* rewind went back beyond the oldest snapshot; and the stream ends for the spectator only when it
\* is over, with its last frame but for what the margin of a chat line holds back (player.cpp's
\* PlayBackBuffer, WatchSnapshotRecord, WatchSeekToFrame, n02_watch.cpp's thread).  The hypothesis
\* is that what is streamed between two snapshots is less than what is retained: otherwise a refill
\* may drop every snapshot, and WatchSeekToFrame does nothing when there is none.
THEOREM SpecFrameExact == RecordsFit => (WatchSpec => []FrameExact)
<1> SUFFICES ASSUME RecordsFit PROVE WatchSpec => []FrameExact
  OBVIOUS
<1>1. WatchInit => WatchInv
  BY InitWatches
<1>2. WatchInv /\ [WatchNext]_watchVars => WatchInv'
  BY NextWatches
<1>3. WatchInv => FrameExact
  BY InvExact
<1> QED
  BY <1>1, <1>2, <1>3, PTL DEF WatchSpec
=============================================================================
