------------------------------ MODULE RoomSetup ------------------------------
(***************************************************************************)
(* What the players of a Kaillera room agree on over its chat before the   *)
(* game starts (kaillera_ui.cpp, common/n02_mcchoice.cpp): who picked      *)
(* which memory card, whose WE Camp account the host confirmed, and        *)
(* whether the multitap is plugged in.  Every PC works the slots out from  *)
(* its own tables when the server's GAMEBEGN reaches it.                   *)
(*                                                                         *)
(* The server is external: it puts what the room sends into one order and  *)
(* each member, the sender too, reads it at its own pace.  What a handler  *)
(* sends takes its place in that order at once, since only the reader's    *)
(* delay can be told apart.  The room plays a PCSX game; stream            *)
(* announcements and notices are left out.                                 *)
(***************************************************************************)
EXTENDS Integers, Sequences, FiniteSets, SequencesExt, Functions

CONSTANTS
  Nicks, Host,     \* who may be in the room, and its owner
  Present,         \* who is in it to begin with, in the order of entry
  Logins,          \* Logins[n]: "own" account, an "other" nick's, or "none"
  Wishes, Saved,   \* the choices there are, and the one each player saved
  MaxEvents        \* bound: players who come or go, choices that change

ASSUME RoomSetupAssumption ==
  /\ Host \in Nicks /\ Logins \in [Nicks -> {"own", "other", "none"}] /\ Logins[Host] # "other"
  /\ Present \in Seq(Nicks) \ {<<>>} /\ IsInjective(Present) /\ Head(Present) = Host
  /\ Wishes \subseteq {"sem", "online", "iso"} /\ Saved \in [Nicks -> Wishes]
  /\ MaxEvents \in Nat

VARIABLES
  members, begun,  \* external: the server's room, in the order of entry
  inbox,           \* what a member has not read yet
  roster,          \* LV_GULIST
  choices,         \* g_room_mc, "?" for a nick that is not in it
  announced,       \* g_mc_announced, g_mc_announced_nologin
  accounts,        \* g_room_accounts, {} while not g_room_accounts_known
  tapOn, tapSeen,  \* g_multitap, g_multitap_players
  asked,           \* g_ticket_room is this room
  answering,       \* the answer the worker of AnswerAccountCheck is about to post
  login, wish,     \* n02_wecamp_logged_in and whose; KAILLERA_MEMCARD_CHOICE
  checks,          \* the host's g_login_checks: a state for each nick in it
  verifying,       \* the tickets with VerifyTicketThread: [nick, account]
  isoRunning,      \* g_iso_check_running
  game,            \* what a PC fixed when GAMEBEGN reached it, or <<>>
  events, proved   \* history: ... and whom WE Camp vouched for

tableVars == <<roster, choices, announced, accounts, tapOn, tapSeen, asked>>
loginVars == <<answering, login, wish>>
hostVars == <<checks, verifying, isoRunning>>
setupVars == <<members, begun, inbox, tableVars, loginVars, hostVars, game, events, proved>>

Waiting == 0
Checking == 1
Confirmed == 2
NotConfirmed == 3
-----------------------------------------------------------------------------
\* Lines of the room's chat, and the server's own messages

Line(kind, from, arg) == [kind |-> kind, from |-> from, arg |-> arg]

\* The room's order: what p sends after it read its next message (reading) or on its own.
\* A line that does nothing where it is not meant for the reader is left out there, and so
\* are lines after the start.
Post(p, toHost, toGuests, reading) ==
  inbox' = [q \in Nicks |->
    (IF reading /\ q = p THEN Tail(inbox[q]) ELSE inbox[q])
    \o (IF q \in ToSet(members) /\ ~begun THEN (IF q = Host THEN toHost ELSE toGuests) ELSE <<>>)]
PostAll(p, lines, reading) == Post(p, lines, lines, reading)

\* McOwnChoice, as n02_mcchoice_line words it.
OwnChoice(p) == IF login[p] = "none" THEN "sem login" ELSE wish[p]

\* McAnnounceOwn: the lines it sends.
AnnounceOwn(p) == <<Line("choice", p, OwnChoice(p))>>

\* HostAccounts, BroadcastAccounts.
HostAccounts(states) == (IF login[Host] = "none" THEN {} ELSE {Host})
                        \cup {n \in DOMAIN states : states[n] = Confirmed}
TellAccounts(states) == <<Line("accounts", Host, HostAccounts(states))>>

CurrentAccounts(p) == IF p = Host THEN HostAccounts(checks) ELSE accounts[p]

\* n02_mcchoice_game_slots: 1P's choice for slot 1, 2P's for slot 2; alone, only the ISO
\* card fills both; a player who never announced one leaves everybody without.
GameSlots(players, table, confirmed) ==
  LET Slot(s) == LET n == players[IF s <= Len(players) THEN s ELSE 1]
                     card == IF table[n] = "sem login" THEN "sem" ELSE table[n]
                 IN IF (s <= Len(players) \/ card = "iso") /\ n \in confirmed THEN card ELSE "sem"
  IN IF \E i \in DOMAIN players : table[players[i]] = "?" THEN <<"sem", "sem">>
     ELSE <<Slot(1), Slot(2)>>

SlotsOf(p) == GameSlots(roster[p], choices[p], CurrentAccounts(p))

UsesIso == "iso" \in ToSet(SlotsOf(Host))      \* McRoomUsesIso

\* McChecksPendingWithCard.
PendingWithCard == {n \in DOMAIN checks : /\ checks[n] \in {Waiting, Checking}
                                          /\ choices[Host][n] \in {"online", "iso"}}

\* kaillera_UpdateMultiTapForPlayers: the box and what the host says of it.
TapAfter(p, n) == IF p = Host /\ n >= 3 /\ tapSeen < 3 THEN TRUE ELSE n >= 3 /\ tapOn[p]
TapLines(p, n) == IF p = Host /\ TapAfter(p, n) # tapOn[p]
                  THEN <<Line("tap", p, TapAfter(p, n))>> ELSE <<>>
UpdateTap(p, n) == /\ tapOn' = [tapOn EXCEPT ![p] = TapAfter(p, n)]
                   /\ tapSeen' = IF p = Host THEN n ELSE tapSeen

\* The list without the row of a player: LV_GULIST.DeleteRow(Find(id)).
Without(list, n) ==
  IF n \in ToSet(list) THEN RemoveAt(list, CHOOSE i \in DOMAIN list : list[i] = n) ELSE list
-----------------------------------------------------------------------------
\* The server

Join(p) ==
  /\ p \notin ToSet(members) /\ ~begun /\ events < MaxEvents
  /\ members' = Append(members, p)
  /\ inbox' = [q \in Nicks |->
                 IF q = p THEN <<Line("list", "", members), Line("join", p, "")>>
                 ELSE IF q \in ToSet(members) THEN Append(inbox[q], Line("join", p, ""))
                 ELSE <<>>]
  /\ events' = events + 1
  /\ UNCHANGED <<begun, tableVars, loginVars, hostVars, game, proved>>

\* BTN_LEAVE of a player; a room the host leaves is closed.  What was on its way to p
\* comes before the next GAMRSLST, which clears everything.
Leave(p) ==
  /\ p \in ToSet(members) \ {Host} /\ ~begun /\ events < MaxEvents
  /\ members' = Without(members, p)
  /\ inbox' = [q \in Nicks |-> IF q \in ToSet(members) \ {p}
                               THEN Append(inbox[q], Line("leave", p, "")) ELSE <<>>]
  /\ answering' = [answering EXCEPT ![p] = "no"]
  /\ events' = events + 1
  /\ UNCHANGED <<begun, tableVars, login, wish, hostVars, game, proved>>
-----------------------------------------------------------------------------
\* Reading the room, one operator for each message

Reads(p, kind) == inbox[p] # <<>> /\ Head(inbox[p]).kind = kind

\* GAMRSLST for a player who joined: kaillera_user_game_joined_callback and
\* kaillera_sdlgGameMode forget the last room.
ReadList(p) ==
  /\ Reads(p, "list")
  /\ roster' = [roster EXCEPT ![p] = Head(inbox[p]).arg]
  /\ choices' = [choices EXCEPT ![p] = [n \in Nicks |-> "?"]]
  /\ announced' = [announced EXCEPT ![p] = "?"]
  /\ accounts' = [accounts EXCEPT ![p] = {}]
  /\ tapOn' = [tapOn EXCEPT ![p] = FALSE]
  /\ asked' = [asked EXCEPT ![p] = FALSE]
  /\ PostAll(p, <<>>, TRUE)
  /\ UNCHANGED <<members, begun, tapSeen, loginVars, hostVars, game, events, proved>>

ReadJoinQuietly(p) ==                 \* mutant: nobody repeats its choice to the newcomer
  LET who == Head(inbox[p]).from
      n == Len(roster[p]) + 1
      new == p = Host /\ who # Host
  IN /\ Reads(p, "join")
     /\ roster' = [roster EXCEPT ![p] = Append(@, who)]
     /\ UpdateTap(p, n)
     /\ checks' = IF new THEN [m \in DOMAIN checks \cup {who} |->
                                 IF m = who THEN Waiting ELSE checks[m]] ELSE checks
     /\ announced' = [announced EXCEPT ![p] = OwnChoice(p)]
     /\ Post(p, IF who = p THEN AnnounceOwn(p) ELSE <<>>,
                TapLines(p, n)
                \o (IF p = Host THEN TellAccounts(checks) \o <<Line("tap", p, TapAfter(p, n))>> ELSE <<>>)
                \o (IF new THEN <<Line("ask", p, "")>> ELSE <<>>)
                \o (IF who = p THEN AnnounceOwn(p) ELSE <<>>), TRUE)
     /\ UNCHANGED <<members, begun, choices, accounts, asked, loginVars, verifying, isoRunning,
                    game, events, proved>>

\* kaillera_player_joined_callback: the host tells the newcomer what holds and asks for
\* its account, everybody repeats its own choice.
ReadJoin(p) ==
  LET who == Head(inbox[p]).from
      n == Len(roster[p]) + 1
      new == p = Host /\ who # Host
  IN /\ Reads(p, "join")
     /\ roster' = [roster EXCEPT ![p] = Append(@, who)]
     /\ UpdateTap(p, n)
     /\ checks' = IF new THEN [m \in DOMAIN checks \cup {who} |->
                                 IF m = who THEN Waiting ELSE checks[m]] ELSE checks
     /\ announced' = [announced EXCEPT ![p] = OwnChoice(p)]
     /\ Post(p, AnnounceOwn(p),
                TapLines(p, n)
                \o (IF p = Host THEN TellAccounts(checks) \o <<Line("tap", p, TapAfter(p, n))>> ELSE <<>>)
                \o (IF new THEN <<Line("ask", p, "")>> ELSE <<>>)
                \o AnnounceOwn(p), TRUE)
     /\ UNCHANGED <<members, begun, choices, accounts, asked, loginVars, verifying, isoRunning,
                    game, events, proved>>

\* kaillera_player_left_callback.
ReadLeave(p) ==
  LET who == Head(inbox[p]).from
      rest == Without(roster[p], who)
      states == IF p = Host THEN Restrict(checks, DOMAIN checks \ {who}) ELSE checks
  IN /\ Reads(p, "leave")
     /\ roster' = [roster EXCEPT ![p] = rest]
     /\ choices' = [choices EXCEPT ![p][who] = "?"]
     /\ checks' = states
     /\ UpdateTap(p, Len(rest))
     /\ Post(p, <<>>, TapLines(p, Len(rest)) \o (IF p = Host THEN TellAccounts(states) ELSE <<>>), TRUE)
     /\ UNCHANGED <<members, begun, announced, accounts, asked, loginVars, verifying, isoRunning,
                    game, events, proved>>

\* kaillera_game_chat_callback: a choice, the sender's own too.
ReadChoice(p) ==
  /\ Reads(p, "choice")
  /\ choices' = [choices EXCEPT ![p][Head(inbox[p]).from] = Head(inbox[p]).arg]
  /\ PostAll(p, <<>>, TRUE)
  /\ UNCHANGED <<members, begun, roster, announced, accounts, tapOn, tapSeen, asked, loginVars,
                 hostVars, game, events, proved>>

\* The host's lines, for the others.
ReadTap(p) ==
  /\ Reads(p, "tap")
  /\ tapOn' = [tapOn EXCEPT ![p] = Head(inbox[p]).arg]
  /\ PostAll(p, <<>>, TRUE)
  /\ UNCHANGED <<members, begun, roster, choices, announced, accounts, tapSeen, asked, loginVars,
                 hostVars, game, events, proved>>

ReadAccounts(p) ==
  /\ Reads(p, "accounts")
  /\ accounts' = [accounts EXCEPT ![p] = Head(inbox[p]).arg]
  /\ PostAll(p, <<>>, TRUE)
  /\ UNCHANGED <<members, begun, roster, choices, announced, tapOn, tapSeen, asked, loginVars,
                 hostVars, game, events, proved>>

\* AnswerAccountCheck: once per room.
ReadAsk(p) ==
  /\ Reads(p, "ask")
  /\ IF asked[p] THEN UNCHANGED <<asked, answering>>
     ELSE /\ asked' = [asked EXCEPT ![p] = TRUE]
          /\ answering' = [answering EXCEPT ![p] = IF login[p] = "none" THEN "sem conta" ELSE "ticket"]
  /\ PostAll(p, <<>>, TRUE)
  /\ UNCHANGED <<members, begun, roster, choices, announced, accounts, tapOn, tapSeen, login, wish,
                 hostVars, game, events, proved>>

\* StartTicketCheck: arg is the account the ticket is of, or "none" for "sem conta", whose
\* verdict takes the same way.  A ticket after the time-out still counts.
ReadAnswer(p) ==
  LET a == Head(inbox[p])
      start == /\ a.from \in DOMAIN checks
               /\ checks[a.from] = Waiting \/ (checks[a.from] = NotConfirmed /\ a.arg # "none")
  IN /\ Reads(p, "answer")
     /\ checks' = IF start THEN [checks EXCEPT ![a.from] = Checking] ELSE checks
     /\ verifying' = IF start THEN verifying \cup {[nick |-> a.from, account |-> a.arg]} ELSE verifying
     /\ PostAll(p, <<>>, TRUE)
     /\ UNCHANGED <<members, begun, tableVars, loginVars, isoRunning, game, events, proved>>

\* kaillera_game_callback: the slots are fixed.
ReadBegin(p) ==
  /\ Reads(p, "begin")
  /\ game' = [game EXCEPT ![p] = [slots |-> SlotsOf(p), tap |-> tapOn[p], players |-> roster[p]]]
  /\ PostAll(p, <<>>, TRUE)
  /\ UNCHANGED <<members, begun, tableVars, loginVars, hostVars, events, proved>>

Read(p) == \/ ReadList(p) \/ ReadJoin(p) \/ ReadLeave(p) \/ ReadChoice(p) \/ ReadTap(p)
           \/ ReadAccounts(p) \/ ReadAsk(p) \/ ReadAnswer(p) \/ ReadBegin(p)
-----------------------------------------------------------------------------
\* Workers and the dialog's own thread

\* SendTicketThread and the posting of its line: a ticket, or a login that the site
\* refuses and that is forgotten, or no answer of the site and no line at all.
Answer(p) ==
  /\ answering[p] # "no"
  /\ answering' = [answering EXCEPT ![p] = "no"]
  /\ \/ /\ answering[p] = "ticket"
        /\ Post(p, <<Line("answer", p, login[p])>>, <<>>, FALSE)
        /\ UNCHANGED login
     \/ /\ Post(p, <<Line("answer", p, "none")>>, <<>>, FALSE)
        /\ login' = [login EXCEPT ![p] = "none"]
     \/ /\ answering[p] = "ticket" /\ UNCHANGED <<inbox, login>>
  /\ UNCHANGED <<members, begun, tableVars, wish, hostVars, game, events, proved>>

\* WM_TIMER: McAnnounceOwn(false), which is where a lost login shows.
Tick(p) ==
  /\ p \in ToSet(members) /\ game[p] = <<>>
  /\ announced[p] \notin {"?", OwnChoice(p)}
  /\ announced' = [announced EXCEPT ![p] = OwnChoice(p)]
  /\ PostAll(p, AnnounceOwn(p), FALSE)
  /\ UNCHANGED <<members, begun, roster, choices, accounts, tapOn, tapSeen, asked, loginVars,
                 hostVars, game, events, proved>>

\* CMB_MEMCARD, for a player who may choose.
Choose(p, c) ==
  /\ p \in ToSet(members) /\ announced[p] # "?"
  /\ login[p] # "none" /\ game[p] = <<>> /\ events < MaxEvents
  /\ c # wish[p]
  /\ wish' = [wish EXCEPT ![p] = c]
  /\ announced' = [announced EXCEPT ![p] = c]
  /\ PostAll(p, <<Line("choice", p, c)>>, FALSE)
  /\ events' = events + 1
  /\ UNCHANGED <<members, begun, roster, choices, accounts, tapOn, tapSeen, asked, answering, login,
                 hostVars, game, proved>>

VerdictOfAnyAccount(v, ok) ==         \* mutant: any account will do
  LET known == v.nick \in DOMAIN checks /\ checks[v.nick] = Checking
  IN /\ v \in verifying
     /\ ok => v.account # "none"
     /\ verifying' = verifying \ {v}
     /\ checks' = IF known THEN [checks EXCEPT ![v.nick] = IF ok THEN Confirmed ELSE NotConfirmed]
                           ELSE checks
     /\ IF known /\ ok THEN Post(Host, <<>>, TellAccounts(checks'), FALSE) ELSE UNCHANGED inbox
     /\ proved' = IF ok /\ v.account = "own" THEN proved \cup {v.nick} ELSE proved
     /\ UNCHANGED <<members, begun, tableVars, loginVars, isoRunning, game, events>>

VerdictOfOther(v, ok) ==              \* mutant: another account than the nick's is left unanswered
  LET confirmed == ok /\ v.account = "own"
      known == v.nick \in DOMAIN checks /\ checks[v.nick] = Checking
  IN /\ v \in verifying
     /\ ok => v.account # "none"
     /\ verifying' = verifying \ {v}
     /\ checks' = IF ~known \/ (ok /\ ~confirmed) THEN checks
                  ELSE [checks EXCEPT ![v.nick] = IF confirmed THEN Confirmed ELSE NotConfirmed]
     /\ IF known /\ confirmed THEN Post(Host, <<>>, TellAccounts(checks'), FALSE) ELSE UNCHANGED inbox
     /\ proved' = IF confirmed THEN proved \cup {v.nick} ELSE proved
     /\ UNCHANGED <<members, begun, tableVars, loginVars, isoRunning, game, events>>

\* VerifyTicketThread and LoginCheckResult: WE Camp knows the ticket (ok) or not, and it
\* counts only if the account is the nick's.  The "ok" and "sem login" lines only show.
Verdict(v, ok) ==
  LET confirmed == ok /\ v.account = "own"
      known == v.nick \in DOMAIN checks /\ checks[v.nick] = Checking
  IN /\ v \in verifying
     /\ ok => v.account # "none"
     /\ verifying' = verifying \ {v}
     /\ checks' = IF known THEN [checks EXCEPT ![v.nick] = IF confirmed THEN Confirmed ELSE NotConfirmed]
                           ELSE checks
     /\ IF known /\ confirmed THEN Post(Host, <<>>, TellAccounts(checks'), FALSE) ELSE UNCHANGED inbox
     /\ proved' = IF confirmed THEN proved \cup {v.nick} ELSE proved
     /\ UNCHANGED <<members, begun, tableVars, loginVars, isoRunning, game, events>>

\* LoginChecksTick, LoginCheckFailed: N02_LOGIN_CHECK_TIMEOUT_MS without an answer.
CheckTimeout(n) ==
  /\ n \in DOMAIN checks /\ checks[n] = Waiting
  /\ checks' = [checks EXCEPT ![n] = NotConfirmed]
  /\ UNCHANGED <<members, begun, inbox, tableVars, loginVars, verifying, isoRunning, game, events,
                 proved>>

\* CHK_MULTITAP, enabled for a host with three players.
ToggleTap ==
  /\ tapSeen >= 3 /\ events < MaxEvents
  /\ tapOn' = [tapOn EXCEPT ![Host] = ~@]
  /\ Post(Host, <<>>, <<Line("tap", Host, ~tapOn[Host])>>, FALSE)
  /\ events' = events + 1
  /\ UNCHANGED <<members, begun, roster, choices, announced, accounts, tapSeen, asked, loginVars,
                 hostVars, game, proved>>

\* kaillera_start_game, and the server's answer to it.
StartGame == /\ begun' = TRUE
             /\ PostAll(Host, <<Line("begin", "", "")>>, FALSE)

\* BTN_START, with IsoCheckBeforeStart.
PressStart ==
  /\ ~begun /\ PendingWithCard = {} /\ ~isoRunning
  /\ IF UsesIso THEN isoRunning' = TRUE /\ UNCHANGED <<begun, inbox>>
     ELSE StartGame /\ UNCHANGED isoRunning
  /\ UNCHANGED <<members, tableVars, loginVars, checks, verifying, game, events, proved>>

\* IsoCheckThread and IsoCheckDone: the card is free (or nobody answered), or it is taken.
IsoAnswer ==
  /\ isoRunning /\ isoRunning' = FALSE
  /\ \/ ~begun /\ StartGame
     \/ UNCHANGED <<begun, inbox>>
  /\ UNCHANGED <<members, tableVars, loginVars, checks, verifying, game, events, proved>>
-----------------------------------------------------------------------------
\* A room that has settled: everybody present has announced a choice and was checked.
SetupInit ==
  LET Here == ToSet(Present)
      confirmed == {n \in Here : Logins[n] = "own"}
  IN /\ members = Present /\ begun = FALSE
     /\ inbox = [p \in Nicks |-> <<>>]
     /\ roster = [p \in Nicks |-> IF p \in Here THEN Present ELSE <<>>]
     /\ wish = Saved /\ login = Logins
     /\ announced = [p \in Nicks |-> IF p \in Here THEN OwnChoice(p) ELSE "?"]
     /\ choices = [p \in Nicks |-> [n \in Nicks |-> IF {p, n} \subseteq Here THEN OwnChoice(n) ELSE "?"]]
     /\ accounts = [p \in Nicks |-> IF p \in Here \ {Host} THEN confirmed ELSE {}]
     /\ tapSeen = Len(Present)
     /\ tapOn = [p \in Nicks |-> p \in Here /\ tapSeen >= 3]
     /\ asked = [p \in Nicks |-> p \in Here \ {Host}]
     /\ answering = [p \in Nicks |-> "no"]
     /\ checks = [n \in Here \ {Host} |-> IF n \in confirmed THEN Confirmed ELSE NotConfirmed]
     /\ verifying = {} /\ isoRunning = FALSE
     /\ game = [p \in Nicks |-> <<>>]
     /\ events = 0 /\ proved = confirmed

SetupNext ==
  \/ \E p \in Nicks : \/ Join(p) \/ Leave(p) \/ Read(p) \/ Answer(p) \/ Tick(p) \/ CheckTimeout(p)
                      \/ \E c \in Wishes : Choose(p, c)
  \/ \E v \in verifying, ok \in BOOLEAN : Verdict(v, ok)
  \/ ToggleTap \/ PressStart \/ IsoAnswer

SetupSpec == SetupInit /\ [][SetupNext]_setupVars
=============================================================================
