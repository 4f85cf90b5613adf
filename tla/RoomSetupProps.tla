---------------------------- MODULE RoomSetupProps ----------------------------
\* What the players of a room must agree on when the game starts.
EXTENDS RoomSetup

\* Nothing on its way, no worker out, every player has said what it holds.
Quiet == /\ ~begun
         /\ \A p \in Nicks : inbox[p] = <<>> /\ answering[p] = "no"
         /\ \A p \in ToSet(members) : announced[p] = OwnChoice(p)
         /\ verifying = {}

\* Once the chat has settled, however players came, left, came back, changed their choice
\* or lost their login in the meantime, every PC of the room would work out the same slots,
\* in the same order of players, and has the multitap as the host has it.
QuietRoomAgrees ==
  Quiet => \A p \in ToSet(members) : /\ roster[p] = members
                                     /\ SlotsOf(p) = SlotsOf(Host)
                                     /\ tapOn[p] = tapOn[Host]

\* A card is only ever played with if WE Camp vouched for that very nick (or it is the
\* host's own): an account of another name, a lost login or a late answer does not fill a slot.
CardsNeedAccount ==
  \A p \in Nicks : game[p] # <<>> =>
    \A s \in 1..2 : game[p].slots[s] # "sem" =>
       game[p].players[IF s <= Len(game[p].players) THEN s ELSE 1] \in proved \cup {Host}

\* Nobody holds the start up for good: a check that the host is looking at always has a
\* worker whose verdict will end it, whoever left and came back, or answered twice, meanwhile.
ChecksEnd ==
  \A n \in DOMAIN checks : checks[n] = Checking => \E v \in verifying : v.nick = n
=============================================================================
