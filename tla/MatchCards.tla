------------------------------ MODULE MatchCards ------------------------------
(***************************************************************************)
(* The memory card of a match that lives on WE Camp: every PC of the match *)
(* fetches it before the core is loaded, watches the file the core writes, *)
(* sends finished saves during the match (the PC whose card it is) and what*)
(* is new at its end (that PC at once, the others after 15 s), and the     *)
(* matches that play with a game's own card take turns by a lock.          *)
(* kailleraclient.cpp, from McSession to kailleraMemcardFinish.            *)
(*                                                                         *)
(* A card is the sequence of the saves it contains, and stands for its     *)
(* SHA-256.  WE Camp is external: a card sent with a list of versions it may*)
(* replace is taken if the current one is among them.  All matches here have*)
(* the same players, which is all that WE Camp knows a match by.           *)
(***************************************************************************)
EXTENDS Integers, Sequences, SequencesExt

CONSTANTS
  PCs, Owner,     \* the players of the room, and whose slot the card is in
  KnownMax,       \* N02_MC_KNOWN_MAX
  MaxMatches,     \* bound: matches the room plays
  MaxSaves,       \* bound: saves on the card
  MaxIsoSaves,    \* bound: saves on the game's own card
  MaxCardFaults   \* bound: requests or answers lost, threads refused, PCs closed

ASSUME MatchCardsAssumption ==
  /\ Owner \in PCs /\ KnownMax \in Nat \ {0, 1}
  /\ {MaxMatches, MaxSaves, MaxIsoSaves, MaxCardFaults} \subseteq Nat

VARIABLES
  iso,         \* "M. Card da ISO", the game's own card, instead of the player's
  multiBase,   \* WE Camp takes a list of bases, so saves may go out during the match
  withLogin,   \* the PCs with a WE Camp login
  card, lock,  \* external: the current version, and which match holds the game's card
  place,       \* external: where a PC's frontend is: "room", "match", "over", "closed"
  match,       \* external: the number of a PC's last match
  file,        \* the card file the core writes
  session,     \* g_mcs, with what McWatchThread keeps
  finishing,   \* the sessions McFinishThread still works on
  sentCards,   \* history: the versions WE Camp took
  finals,      \* history: the cards a PC's match ended with, sent or known to be there, and what it had seen
  cardFaults   \* history
serverCards == <<card, lock, sentCards>>
cardSetting == <<iso, multiBase, withLogin>>
cardVars == <<cardSetting, serverCards, place, match, file, session, finishing, finals, cardFaults>>

NoSession == [match |-> 0]
Tracks(p) == p \in withLogin \/ iso

CardsInit ==
  /\ iso \in BOOLEAN /\ multiBase \in BOOLEAN
  /\ withLogin \in (IF iso THEN {PCs} ELSE {PCs, {Owner}})
  /\ card = <<>> /\ lock = "free" /\ sentCards = {<<>>}
  /\ place = [p \in PCs |-> "room"] /\ match = [p \in PCs |-> 0]
  /\ file = [p \in PCs |-> <<>>] /\ session = [p \in PCs |-> NoSession]
  /\ finishing = {} /\ finals = {} /\ cardFaults = 0

Fault == cardFaults < MaxCardFaults /\ cardFaults' = cardFaults + 1
NoFault == UNCHANGED cardFaults
-----------------------------------------------------------------------------
\* WE Camp's checkout takes the game's card for this match, "renew" takes it again if nobody has
\* it in the meantime, and "release" lets go of what a match of these players holds.
LockTaken == IF iso /\ lock = "free" THEN "ours" ELSE lock
LockReleased == IF iso /\ lock = "ours" THEN "free" ELSE lock

McKnownAddNewest(known, version) ==   \* mutant: forgets the version the match began with
  IF version \in ToSet(known) THEN known
  ELSE Append(IF Len(known) = KnownMax THEN Tail(known) ELSE known, version)

\* McKnownAdd: the version the match began with and the latest after it.
McKnownAdd(known, version) ==
  IF version \in ToSet(known) THEN known
  ELSE IF Len(known) = KnownMax THEN Append(<<Head(known)>> \o SubSeq(known, 3, KnownMax), version)
  ELSE Append(known, version)

\* McSend: what WE Camp makes of it, and whether this PC learns that it has the card.
McSend(known, version, learns) ==
  \/ /\ NoFault /\ learns = (card = version \/ card \in ToSet(known))
     /\ card' = (IF card \in ToSet(known) THEN version ELSE card)
  \/ /\ Fault /\ ~learns
     /\ card' \in {card, IF card \in ToSet(known) THEN version ELSE card}
Sent == sentCards' = sentCards \cup {card'} /\ UNCHANGED lock
-----------------------------------------------------------------------------
\* kailleraMemcardFinish and McFinishThread.
Ended(p) ==
  [pc |-> p, match |-> session[p].match, known |-> session[p].known, onServer |-> session[p].onServer,
   final |-> file[p], seen |-> session[p].seen]

\* kailleraMemcardFinish: the card as the match ended goes to a thread of its own, or nowhere.
MemcardFinish(p) ==
  /\ place[p] = "over" /\ place' = [place EXCEPT ![p] = "room"]
  /\ session' = [session EXCEPT ![p] = NoSession]
  /\ IF session[p] = NoSession THEN NoFault /\ UNCHANGED finishing
     ELSE \/ NoFault /\ finishing' = finishing \cup {Ended(p)}
          \/ Fault /\ UNCHANGED finishing
  /\ UNCHANGED <<cardSetting, serverCards, match, file, finals>>

\* McFinishThread: a card that is new since the match began, or since this PC's last send, goes to
\* WE Camp; then the game's card is free.
McFinish(m) ==
  /\ finishing' = finishing \ {m}
  /\ IF m.final = m.onServer THEN UNCHANGED card /\ NoFault
     ELSE \E learns \in BOOLEAN : McSend(m.known, m.final, learns)
  /\ finals' = (IF cardFaults' = cardFaults THEN finals \cup {[final |-> m.final, seen |-> m.seen]} ELSE finals)
  /\ sentCards' = sentCards \cup {card'} /\ lock' = LockReleased
  /\ UNCHANGED <<cardSetting, place, match, file, session>>
-----------------------------------------------------------------------------
\* kailleraMemcardPrepare, McPrepareLive: one match after the other, for all players.
Started(p) ==
  [match |-> match[p] + 1, known |-> <<card>>, onServer |-> card, pending |-> card, settled |-> card,
   lockLost |-> FALSE, seen |-> <<card>>]

MayPrepare(p) ==
  /\ place[p] = "room" /\ match[p] < MaxMatches
  /\ \A q \in PCs : place[q] # "closed" /\ match[q] >= match[p] /\ (match[q] = match[p] => place[q] = "room")
  /\ match' = [match EXCEPT ![p] = @ + 1]
  /\ UNCHANGED <<cardSetting, card, sentCards, finishing, finals>>

\* The frontend ends the last match before it prepares the next; a session it forgot would be ended
\* here first (MemcardFinish).
Prepare(p) ==
  /\ MayPrepare(p) /\ NoFault /\ lock # "theirs"
  /\ lock' = LockTaken
  /\ place' = [place EXCEPT ![p] = "match"] /\ file' = [file EXCEPT ![p] = card]
  /\ session' = [session EXCEPT ![p] = IF Tracks(p) THEN Started(p) ELSE NoSession]

\* Another match has the card, WE Camp does not answer, or the card cannot be downloaded after it was
\* taken: there is no game for this PC.
PrepareFails(p) ==
  /\ MayPrepare(p)
  /\ \/ NoFault /\ lock = "theirs" /\ UNCHANGED lock
     \/ Fault /\ lock # "theirs" /\ lock' \in {lock, IF iso THEN "free" ELSE lock}
  /\ place' = [place EXCEPT ![p] = "over"]
  /\ UNCHANGED <<file, session>>
-----------------------------------------------------------------------------
\* During the match.
Others(p) == {q \in PCs \ {p} : place[q] = "match" /\ match[q] = match[p]}
SavesOf(p) == Len(SelectSeq(file[p], LAMBDA s : s[1] = match[p]))

\* External: the game writes its card, in lockstep on all the PCs that play it, once all have loaded.
GameSaves(p) ==
  /\ place[p] = "match" /\ Len(file[p]) < (IF iso THEN MaxIsoSaves ELSE MaxSaves)
  /\ \A q \in PCs : match[q] = match[p] \/ place[q] = "closed"
  /\ \A q \in Others(p) : SavesOf(q) >= SavesOf(p)
  /\ file' = [file EXCEPT ![p] = Append(@, <<match[p], SavesOf(p) + 1>>)]
  /\ NoFault /\ UNCHANGED <<cardSetting, serverCards, place, match, session, finishing, finals>>

Watches(p) == place[p] \in {"match", "over"} /\ session[p] # NoSession

\* McWatchThread finds the card changed: the game is, or was, writing it.
McSees(p) ==
  /\ Watches(p) /\ multiBase /\ file[p] # session[p].pending
  /\ session' = [session EXCEPT ![p].pending = file[p]]
  /\ NoFault /\ UNCHANGED <<cardSetting, serverCards, place, match, file, finishing, finals>>

\* It stayed so for N02_MC_SAVE_SETTLE_MS: a finished save, which the owner sends and the others note.
McSettles(p) ==
  LET s == session[p]  version == session[p].pending IN
  /\ Watches(p) /\ multiBase /\ file[p] = s.pending /\ s.pending # s.settled
  /\ \E learns \in BOOLEAN :
       /\ IF p = Owner THEN McSend(s.known, version, learns) ELSE ~learns /\ UNCHANGED card /\ NoFault
       /\ session' = [session EXCEPT ![p] =
            [s EXCEPT !.settled = version, !.known = McKnownAdd(@, version), !.seen = Append(@, version),
                      !.onServer = IF learns THEN version ELSE @]]
  /\ Sent
  /\ UNCHANGED <<cardSetting, place, match, file, finishing, finals>>

\* Every minute; once another match has it this PC does not ask again.
McRenews(p) ==
  /\ Watches(p) /\ iso /\ ~session[p].lockLost
  /\ lock' = LockTaken
  /\ session' = [session EXCEPT ![p].lockLost = (lock = "theirs")]
  /\ NoFault /\ UNCHANGED <<cardSetting, card, sentCards, place, match, file, finishing, finals>>

\* External: the player leaves the match, or it ends for all; a PC is switched off.
GameEnds(p) ==
  /\ place[p] = "match" /\ place' = [place EXCEPT ![p] = "over"]
  /\ NoFault /\ UNCHANGED <<cardSetting, serverCards, match, file, session, finishing, finals>>
SwitchedOff(p) ==
  /\ place[p] # "closed" /\ Fault
  /\ place' = [place EXCEPT ![p] = "closed"] /\ session' = [session EXCEPT ![p] = NoSession]
  /\ finishing' = {m \in finishing : m.pc # p}
  /\ UNCHANGED <<cardSetting, serverCards, match, file, finals>>

\* External: another match of the game takes the card or lets go of it; WE Camp lets go of what
\* nobody renews.
Rival ==
  /\ iso /\ NoFault
  /\ \/ lock = "free" /\ lock' = "theirs"
     \/ lock = "theirs" /\ lock' = "free"
     \/ lock = "ours" /\ lock' = "free" /\ \A p \in PCs : ~Watches(p)
  /\ UNCHANGED <<cardSetting, card, sentCards, place, match, file, session, finishing, finals>>
-----------------------------------------------------------------------------
CardsNext ==
  \/ \E p \in PCs :
       \/ Prepare(p) \/ PrepareFails(p) \/ GameSaves(p) \/ McSees(p) \/ McSettles(p) \/ McRenews(p)
       \/ GameEnds(p) \/ MemcardFinish(p) \/ SwitchedOff(p)
  \/ \E m \in finishing : McFinish(m)
  \/ Rival

CardsSpec == CardsInit /\ [][CardsNext]_cardVars
-----------------------------------------------------------------------------
\* The versions a send of this PC names: the one it began with and the latest it saw.
Named(seen) == {Head(seen)} \cup {seen[i] : i \in {j \in DOMAIN seen : j > Len(seen) - KnownMax + 1}}

\* "Their send at the end still goes in if that player dropped after a save": once everything is
\* sent, WE Camp has every card some PC's match ended with, whoever was switched off and whichever
\* answers were lost; unless somebody else sent a version that this PC did not see, or too long ago.
SavesReachWECamp ==
  (finishing = {} /\ \A p \in PCs : session[p] = NoSession) =>
    \A f \in finals :
      (\A c \in sentCards : IsPrefix(f.final, c) \/ c \in Named(f.seen)) => IsPrefix(f.final, card)
=============================================================================
