-------------------------- MODULE RetryConnectProps --------------------------
\* What the players of a continued game may rely on.
EXTENDS RetryConnect

\* Nobody replays the recording while somebody could not get it: the NAK reaches everyone before
\* the game starts.
NobodyReplaysAlone ==
  [][\A p \in Players : (active[p] /\ played'[p] # played[p]) => refused = {}]_retryVars

\* "Re-anchors this reader to the exact frame": whatever the order of pauses, rewinds and downloads,
\* the input served next is the one of the emulator's next frame, or the player's copy has ended
\* before it; past the end of the host's own copy its place says less than its state.
ReaderFollowsEmulator ==
  "state cut" \notin Range(faults) =>
    \A p \in Players : active[p] =>
      (pos[p] = Min({Len(played[p]), total[p]}) \/ Len(played[p]) > total[Chooser])

\* Nobody goes on alone: the readers follow, and who has gone live has played what the host has,
\* even if a copy of the recording was cut and its player had other inputs until the state came;
\* unless a state did not come whole, or a control was overwritten before the frontend polled it.
LiveFromOneState ==
  /\ ReaderFollowsEmulator
  /\ (Live(Chooser) /\ Range(faults) \subseteq {"recording cut"}) =>
       \A p \in Peers :
         (Live(p) /\ p \notin lost /\ mailbox[p].action \in {"none", "goLive"}) => played[p] = played[Chooser]

\* "Returns true and fills them exactly once per remote RETRYCON_CONTROL received."
EveryControlPolled == lost = {}
=============================================================================
