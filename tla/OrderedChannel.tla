--------------------------- MODULE OrderedChannel ---------------------------
(***************************************************************************)
(* What the reliable-UDP layer of the client promises the code above it:   *)
(* the peer's messages come out in the order they were sent, none twice,   *)
(* none invented.  Messages may be given up, never reordered.  Messages    *)
(* are numbered by the sender, 0, 1, 2, ...                                *)
(***************************************************************************)
EXTENDS Integers

CONSTANT First        \* the messages exchanged before the model starts

VARIABLES sent,       \* how many messages the sender has handed to the layer
          delivered   \* the last message the receiver's caller was given

vars == <<sent, delivered>>

Init == sent = First /\ delivered = First - 1

Submit == sent' = sent + 1 /\ UNCHANGED delivered

Deliver == /\ delivered' \in (delivered + 1) .. (sent - 1)
           /\ UNCHANGED sent

Next == Submit \/ Deliver

Spec == Init /\ [][Next]_vars
=============================================================================
