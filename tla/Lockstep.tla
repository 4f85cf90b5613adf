------------------------------ MODULE Lockstep ------------------------------
(***************************************************************************)
(* What a netplay session promises the emulators, whichever transport      *)
(* carries it: there is one sequence of input frames, every emulator is    *)
(* given that sequence from its start, and frame k holds what each player  *)
(* typed at its k-th call.  Only a player who has left may be missing from *)
(* a frame.  Emulators that are fed like this compute the same game.       *)
(***************************************************************************)
EXTENDS Naturals, Sequences

CONSTANTS Players,   \* the players of one game
          Inputs,    \* what a player can type in one frame
          Nothing    \* stands in a frame for a player who left

VARIABLES typed,     \* typed[p]: the inputs p's emulator passed in, in order
          left,      \* the players the session no longer waits for
          given      \* given[p]: the frames p's emulator was given

vars == <<typed, left, given>>

Frame == [Players -> Inputs \cup {Nothing}]

Init ==
  /\ typed = [p \in Players |-> <<>>]
  /\ given = [p \in Players |-> <<>>]
  /\ left = {}

Type(p) ==
  /\ \E v \in Inputs : typed' = [typed EXCEPT ![p] = Append(@, v)]
  /\ UNCHANGED <<left, given>>

Leave(p) ==
  /\ left' = left \cup {p}
  /\ UNCHANGED <<typed, given>>

\* f can be frame number k: it is made of what the players typed for it, complete for
\* those who are still there, and it is the one that anybody was given already.
CanBe(f, k) ==
  /\ \A q \in Players : f[q] = Nothing \/ (k <= Len(typed[q]) /\ f[q] = typed[q][k])
  /\ \A q \in Players \ left : f[q] # Nothing
  /\ \A q \in Players : k <= Len(given[q]) => given[q][k] = f

\* Also to a player who has just left: his last call may still be on its way back.
Give(p) ==
  /\ \E f \in Frame : /\ CanBe(f, Len(given[p]) + 1)
                      /\ given' = [given EXCEPT ![p] = Append(@, f)]
  /\ UNCHANGED <<typed, left>>

Next == \E p \in Players : Type(p) \/ Leave(p) \/ Give(p)

Spec == Init /\ [][Next]_vars
=============================================================================
