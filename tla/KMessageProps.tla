---------------------------- MODULE KMessageProps ----------------------------
(***************************************************************************)
(* What the message layer must do, stated over KMessage.                   *)
(***************************************************************************)
EXTENDS KMessage

Slot == [serial : 0 .. SerialMod - 1, body : Nat \cup {Hole}]

MessageType == [serial : 0 .. SerialMod - 1, body : Nat]

Receiver == [last : 0 .. SerialMod - 1, cache : Seq(Slot), hole : HoleStates]

\* Types, and the one bound on in_cache the code allocates for: ICACHESIZE slots.
TypeOK ==
  /\ sent \in Nat
  /\ outCache \in Seq(MessageType) /\ Len(outCache) < CacheSize
  /\ net \subseteq Seq(MessageType)
  /\ lost \subseteq Nat
  /\ waiting \in BOOLEAN
  /\ rx \in Receiver /\ Len(rx.cache) <= CacheSize
  /\ delivered \in Int

\* k_message.h:51: in_cache is a contiguous run of serials that ends at
\* last_cached_instruction.
ContiguousRun ==
  \A i \in DOMAIN rx.cache : rx.cache[i].serial = Dist(rx.last, Len(rx.cache) - i)

\* The window is a stretch of the sender's sequence past everything delivered:
\* some message L < sent is the one last_cached_instruction names, every slot that
\* is filled holds the message its place calls for, and the first slot is a
\* message the caller has not had.  A stale bundle, or a serial read across the
\* wrap, never lands in another message's slot.
WindowIsNext ==
  \E L \in delivered .. sent - 1 :
    /\ rx.last = Serial(L)
    /\ delivered + Len(rx.cache) <= L
    /\ \A i \in DOMAIN rx.cache : rx.cache[i].body \in {Hole, L - Len(rx.cache) + i}

\* What the caller sees is an ordered channel: see OrderedChannel.
Channel == INSTANCE OrderedChannel
ChannelSpec == Channel!Spec

\* Bundles repeat earlier messages so that losses stay invisible: while fewer than
\* Redundancy bundles in a row are lost, and the hole timer outlasts reordering,
\* every message is delivered, whatever the order the bundles arrive in.
NoMessageSkipped == [][delivered' # delivered => delivered' = delivered + 1]_vars

\* The polling loop of the callers (while (has_data()) receive_instruction()) runs
\* again and again, and clocks move.
Poll == ReceiveNothing \/ \E b \in net : ReceiveBundle(b)
FairSpec == Spec /\ WF_vars(HasData) /\ WF_vars(Poll) /\ WF_vars(HoleTimeout)

\* One missing message must not hold up the ones behind it for ever (the frozen
\* "logging in" of k_message.h:17-21): whatever is queued in in_cache, the loop
\* empties it, delivering what it holds and giving up what never came.
QueueDrains == (rx.cache # <<>>) ~> (rx.cache = <<>>)
=============================================================================
