------------------------------- MODULE P2PGame -------------------------------
(***************************************************************************)
(* A game between two players without a server (core/p2p_core.cpp), from   *)
(* the first frame on: the input exchange of p2p_modify_play_values over   *)
(* p2p_message (core/p2p_message.h), retransmission, and leaving.          *)
(*                                                                         *)
(* p2p_message repeats the last messages in every datagram, the newest     *)
(* first, under an 8-bit serial.  The receiver takes what is newer than    *)
(* the newest it has, in one go; a message that no datagram in time        *)
(* carried is handed over empty, and nobody looks for it.                  *)
(*                                                                         *)
(* A player is its emulator thread, inside the call or not, and a window   *)
(* that can drop the game at any moment.  Chat is left out.                *)
(***************************************************************************)
EXTENDS Integers, Sequences, FiniteSets, FiniteSetsExt

CONSTANTS
  Players,       \* the host and its peer
  Throughput,    \* the delay both have agreed on
  SerialMod,     \* 256
  FirstSerial,   \* the serial of the first message of the game
  BundleLimit,   \* 15: longer bundles, and longer gaps, are ignored
  OutCacheSize,  \* 31: the messages a sender can still repeat
  Inputs,        \* what a player can type in a frame, by player
  MaxFrames,     \* bound: the calls of one player while both play
  MaxInFlight,   \* bound: datagrams on their way to one player who has not left
  MaxLossRun,    \* bound: messages in a row whose first datagram is lost or overtaken
  MaxLag,        \* bound: by how many messages a datagram may be overtaken and still arrive
  CanDrop        \* bound: the players who drop or lose patience

\* Every message is in default_ipm datagrams, one more than may be lost in a row.  Two messages on
\* the way never have the same serial by mistake: no player runs ahead by more (see LeadBounded),
\* and nothing older arrives.
ASSUME P2PGameAssumption ==
  /\ \E a, b \in Players : a # b /\ Players = {a, b}
  /\ Throughput \in Nat \ {0}
  /\ BundleLimit \in Nat /\ SerialMod \in Nat /\ OutCacheSize \in Nat
  /\ MaxFrames \in Nat /\ MaxInFlight \in Nat /\ MaxLossRun \in Nat /\ MaxLag \in Nat
  /\ 1 < BundleLimit /\ MaxLag + BundleLimit <= SerialMod /\ 2 * Throughput + 3 < SerialMod
  /\ FirstSerial \in 0 .. SerialMod - 1
  /\ MaxLossRun < OutCacheSize /\ (MaxLossRun <= 1 \/ (MaxLossRun <= Throughput /\ MaxLossRun < 8))
  /\ CanDrop \subseteq Players

VARIABLES
  status,     \* P2PCORE.status: 1 in the lobby, 3 playing
  inCall,     \* whether the emulator thread waits in p2p_modify_play_values
  frameno,
  userdata,   \* USERDATA: the own inputs not given back yet
  peerdata,   \* PEERDATA: the peer's inputs received and not given yet
  sent,       \* the messages sent in this game, of which out_cache keeps the last
  net,        \* net[p]: the datagrams on their way to p, [newest, count]
  last,       \* last_cached_instruction
  typed,      \* history: the inputs each emulator passed in
  given       \* history: the frames each emulator was given

vars == <<status, inCall, frameno, userdata, peerdata, sent, net, last, typed, given>>

Peer(p) == CHOOSE q \in Players : q # p
-----------------------------------------------------------------------------
(* p2p_message *)

Data(v) == [kind |-> "DATA", input |-> v]
DropMsg == [kind |-> "DROP"]
Empty == [kind |-> "LOGN"]             \* what a hole reads as: type 0

SerialUnwrapped(n) == FirstSerial + n - 1    \* mutant: a serial that is not 8 bits wide

\* The messages of a game are numbered from 1.
Serial(n) == (FirstSerial + n - 1) % SerialMod

DefaultIpmShort == Max({2, Min({Throughput, 8})})    \* mutant: min(throughput, 8)

\* default_ipm, set when the game starts: how often every message is sent anyway.
DefaultIpm == Max({2, Min({Throughput + 1, 8})})

\* send_message(limit)
Bundle(n, limit) == [newest |-> n, count |-> Min({limit, OutCacheSize, n})]

FreshNext(p, b) ==                     \* mutant: a bundle after a gap is ignored
  LET tx == (Serial(b.newest) - last[p]) % SerialMod
  IN IF b.count < BundleLimit /\ tx = 1 THEN <<sent[Peer(p)][b.newest]>> ELSE <<>>

\* The messages from p's newest up to this datagram's; the datagram carries the last
\* "count" of them.
Fresh(p, b) ==
  LET tx == (Serial(b.newest) - last[p]) % SerialMod
  IN IF b.count < BundleLimit /\ 0 < tx /\ tx < BundleLimit
     THEN [i \in 1 .. tx |-> IF tx - i < b.count THEN sent[Peer(p)][b.newest - tx + i]
                                                 ELSE Empty]
     ELSE <<>>

\* p sends.  In the lobby p2p_step reads what still comes of the game and ignores it: the
\* model lets it go at once.
Transmit(p, bundles) ==
  /\ net' = [q \in Players |-> IF status'[q] = 1 THEN {}
                               ELSE IF q = p THEN net[q] ELSE net[q] \cup bundles]
  /\ status'[p] = 1 \/ Cardinality(net'[Peer(p)]) <= MaxInFlight

\* The newest message p has, by its number.
Newest(p) == CHOOSE n \in 0 .. Len(sent[Peer(p)]) :
               /\ Serial(n) = last[p]
               /\ \A m \in n + 1 .. Len(sent[Peer(p)]) : Serial(m) # last[p]

\* The network drops a datagram, but not so many that MaxLossRun is exceeded.
Lose(p, b) ==
  /\ net' = [net EXCEPT ![p] = @ \ {b}]
  /\ LET n == Len(sent[Peer(p)])
         coming == {c.newest : c \in net'[p]}
     IN \A m \in Newest(p) + 1 .. n - MaxLossRun :
          (m .. m + MaxLossRun) \cap coming # {}
  /\ UNCHANGED <<status, inCall, frameno, userdata, peerdata, sent, last, typed, given>>
-----------------------------------------------------------------------------
(* The game *)

CallLate(p, v) ==                      \* mutant: frameno > throughput
  /\ status[p] > 1 /\ ~inCall[p]
  /\ Len(typed[p]) < MaxFrames \/ status[Peer(p)] = 1
  /\ typed' = [typed EXCEPT ![p] = Append(@, v)]
  /\ userdata' = [userdata EXCEPT ![p] = Append(@, v)]
  /\ sent' = [sent EXCEPT ![p] = Append(@, Data(v))]
  /\ UNCHANGED status
  /\ Transmit(p, {Bundle(Len(sent'[p]), DefaultIpm)})
  /\ inCall' = [inCall EXCEPT ![p] = frameno[p] > Throughput]
  /\ frameno' = [frameno EXCEPT ![p] = @ + 1]
  /\ UNCHANGED <<peerdata, last, given>>

\* p2p_modify_play_values up to its loop.  The first calls, as many as the delay, return
\* at once.
Call(p, v) ==
  /\ status[p] > 1 /\ ~inCall[p]
  /\ Len(typed[p]) < MaxFrames \/ status[Peer(p)] = 1
  /\ typed' = [typed EXCEPT ![p] = Append(@, v)]
  /\ userdata' = [userdata EXCEPT ![p] = Append(@, v)]
  /\ sent' = [sent EXCEPT ![p] = Append(@, Data(v))]
  /\ UNCHANGED status
  /\ Transmit(p, {Bundle(Len(sent'[p]), DefaultIpm)})
  /\ inCall' = [inCall EXCEPT ![p] = frameno[p] >= Throughput]
  /\ frameno' = [frameno EXCEPT ![p] = @ + 1]
  /\ UNCHANGED <<peerdata, last, given>>

\* The inputs among the messages up to a DROP.
UpToDrop(ms) ==
  LET drops == {i \in DOMAIN ms : ms[i] = DropMsg}
  IN IF drops = {} THEN ms ELSE SubSeq(ms, 1, Min(drops) - 1)
InputsIn(ms) ==
  LET data == {i \in DOMAIN ms : ms[i].kind = "DATA"}
      At(k) == CHOOSE i \in data : Cardinality(data \cap (1 .. i)) = k
  IN [k \in 1 .. Cardinality(data) |-> ms[At(k)].input]

Waits(p) == inCall[p] /\ peerdata[p] = <<>> /\ status[p] > 1

\* A turn of the loop that finds a datagram: ProcessGameStuff takes every message in it.
\* After a DROP the call fails.
Receive(p, b) ==
  LET ms == Fresh(p, b)
      dropped == \E i \in DOMAIN ms : ms[i] = DropMsg
  IN /\ Waits(p)
     /\ b.newest <= Newest(p) + MaxLossRun + 1 /\ Newest(p) <= b.newest + MaxLag
     /\ net' = [net EXCEPT ![p] = IF dropped THEN {} ELSE @ \ {b}]
     /\ last' = [last EXCEPT ![p] = IF ms = <<>> THEN @ ELSE Serial(b.newest)]
     /\ peerdata' = [peerdata EXCEPT ![p] = @ \o InputsIn(UpToDrop(ms))]
     /\ status' = [status EXCEPT ![p] = IF dropped THEN 1 ELSE @]
     /\ inCall' = [inCall EXCEPT ![p] = ~dropped]
     /\ UNCHANGED <<frameno, userdata, sent, typed, given>>

\* A turn that finds none, 20 ms after the last.
Retransmit(p) ==
  /\ Waits(p)
  /\ UNCHANGED status
  /\ Transmit(p, {Bundle(Len(sent[p]), Throughput + 2)})
  /\ UNCHANGED <<inCall, frameno, userdata, peerdata, sent, last, typed, given>>

\* The frame is complete: the host's input first.
Return(p) ==
  /\ inCall[p] /\ peerdata[p] # <<>>
  /\ given' = [given EXCEPT ![p] =
       Append(@, [q \in Players |-> IF q = p THEN Head(userdata[p]) ELSE Head(peerdata[p])])]
  /\ userdata' = [userdata EXCEPT ![p] = Tail(@)]
  /\ peerdata' = [peerdata EXCEPT ![p] = Tail(@)]
  /\ inCall' = [inCall EXCEPT ![p] = FALSE]
  /\ UNCHANGED <<status, frameno, sent, net, last, typed>>

\* The game was dropped while the call waited.
Fail(p) ==
  /\ inCall[p] /\ peerdata[p] = <<>> /\ status[p] = 1
  /\ inCall' = [inCall EXCEPT ![p] = FALSE]
  /\ UNCHANGED <<status, frameno, userdata, peerdata, sent, net, last, typed, given>>

\* p2p_drop_game
Drop(p) ==
  /\ status' = [status EXCEPT ![p] = 1]
  /\ sent' = [sent EXCEPT ![p] = Append(@, DropMsg)]
  /\ LET n == Len(sent'[p])
     IN Transmit(p, {Bundle(n, DefaultIpm), Bundle(n, Throughput + 2)})

\* From the window, at any moment, ...
GameDrop(p) ==
  /\ p \in CanDrop /\ status[p] > 1 /\ Drop(p)
  /\ UNCHANGED <<inCall, frameno, userdata, peerdata, last, typed, given>>

\* ... or after 320 retransmissions in one call.
DataTimeout(p) ==
  /\ p \in CanDrop \/ status[Peer(p)] = 1
  /\ Waits(p) /\ Drop(p)
  /\ inCall' = [inCall EXCEPT ![p] = FALSE]
  /\ UNCHANGED <<frameno, userdata, peerdata, last, typed, given>>
-----------------------------------------------------------------------------
\* Both have come through the handshake.
Init ==
  /\ status = [p \in Players |-> 3]
  /\ inCall = [p \in Players |-> FALSE]
  /\ frameno = [p \in Players |-> 0]
  /\ userdata = [p \in Players |-> <<>>]
  /\ peerdata = [p \in Players |-> <<>>]
  /\ sent = [p \in Players |-> <<>>]
  /\ net = [p \in Players |-> {}]
  /\ last = [p \in Players |-> Serial(0)]
  /\ typed = [p \in Players |-> <<>>]
  /\ given = [p \in Players |-> <<>>]

Next == \E p \in Players :
  \/ \E v \in Inputs[p] : Call(p, v)
  \/ \E b \in net[p] : Receive(p, b) \/ Lose(p, b)
  \/ Retransmit(p) \/ Return(p) \/ Fail(p)
  \/ GameDrop(p) \/ DataTimeout(p)

Spec == Init /\ [][Next]_vars
=============================================================================
