------------------------------- MODULE P2PLobby -------------------------------
(***************************************************************************)
(* Two players meet without a server: the host waits on a port, the client *)
(* logs in, both press Ready, both emulators load, and the two measure the *)
(* delay and start (core/p2p_core.cpp).  Meanwhile the host has the client's*)
(* WE Camp account checked and each tells the other which memory card it   *)
(* wants (p2p_ui.cpp); the host's Ready waits for the check, and for a     *)
(* second one when a card is the ISO's, which one match at a time may hold.*)
(*                                                                         *)
(* Every datagram repeats the last messages, and pings keep datagrams coming*)
(* while the two are in their lobby: what is lost is only late, and the    *)
(* network is a queue in each direction.  Between Ready and the first frame*)
(* nothing repeats the last message; there the network is assumed to lose none.*)
(* P2PGame goes on from the first frame.                                   *)
(*                                                                         *)
(* The emulator runs the game inside infos.gameCallback: while its calls of*)
(* modify_play_values have not returned, p2p_step is not called.           *)
(***************************************************************************)
EXTENDS Integers, Sequences

CONSTANTS
  Wishes,       \* the memory cards a player may choose
  Settings,     \* who may be logged in and what each chose last, when the programs start
  PingTimes,    \* p2p_PING_TIMES
  Adjustments,  \* how often the clocks are adjusted at most
  MaxActs       \* bounds what the two players, and the site, do
ASSUME P2PLobbyAssumption ==
  /\ Wishes # {} /\ Wishes \subseteq {"sem", "online", "iso"}
  /\ Settings \subseteq [logged : [{"host", "client"} -> BOOLEAN], choice : [{"host", "client"} -> Wishes]]
  /\ PingTimes \in Nat \ {0} /\ Adjustments \in Nat \ {0} /\ MaxActs \in Nat

Sides == {"host", "client"}
Other(p) == IF p = "host" THEN "client" ELSE "host"

VARIABLES
  net,        \* net[p]: what is on its way to p
  hostAddr,   \* whom the host's socket answers: nobody yet, the client, or one that has gone
  phase,      \* where p is; "left" is a client whose host has gone
  ping,       \* P2PCORE.ping: -1, 0, or 1 for measured
  connected,  \* P2PCORE.CONNECTED
  ready,      \* P2PCORE.USERREADY
  starting,   \* KSSDFA.input is KSSDFA_START_GAME
  chats,      \* p2p_chat_cache, the lines that mean something
  draining,   \* p is going through them
  count,      \* the host's pingc, then its readjustments
  quits,       \* the game was dropped, KSSDFA.state is 0, but p's call still waits for the other
  undone,     \* and P2PCORE.status is 1 again, though the other had loaded
  box,        \* IDC_READY is checked
  logged,     \* n02_wecamp_logged_in
  choice,     \* P2P_MEMCARD_CHOICE
  table,      \* g_p2p_mc: what p thinks each wants, "?" if it was not told
  toldCard,   \* g_p2p_mc_sent, g_p2p_mc_sent_nologin
  readyWanted,\* g_p2p_ready_wanted
  check,      \* g_p2p_peer_check
  isoRunning, \* g_p2p_iso_check_running
  room,       \* the number in g_p2p_check_room
  answered,   \* g_p2p_answered_room
  accounts,   \* the client's g_p2p_accounts, Unknown while not g_p2p_accounts_known
  answering,  \* the client's P2PSendTicketThread
  verdicts,   \* the host's P2PVerifyTicketThreads, and the results they posted
  slots,      \* what p started the game with
  crossed,    \* history: in this connection a Ready was taken back, or a verdict on an earlier client taken
  hasty,      \* history: and the end of the ISO's check set the Ready before the account's had ended
  early,      \* history: and a game was dropped between its start and its first frame
  acts
dropped == <<quits, undone>>
lobbyCore == <<phase, ping, connected, ready, starting, chats, draining, count, box, dropped>>
lobbyCards == <<logged, choice, table, toldCard, readyWanted, check, isoRunning, room, answered, accounts,
                answering, verdicts>>
lobbyPast == <<crossed, hasty, early>>
p2pLobbyVars == <<net, hostAddr, lobbyCore, lobbyCards, slots, lobbyPast, acts>>

NotAsked == -1
AccountAsked == 0
Checking == 1
Confirmed == 2
NotConfirmed == 3
Unknown == {"?"}
Msg(type, arg) == [type |-> type, arg |-> arg]
ChatMsg(line, arg) == Msg("CHAT", [line |-> line, arg |-> arg])
-----------------------------------------------------------------------------
\* The network

Reaches(q) == phase[q] # "closed" /\ (q = "client" => hostAddr' = "client")

\* p sends msgs, and has read net[p] down to rest.
Deliver(p, rest, msgs) ==
  net' = [net EXCEPT ![p] = rest,
                     ![Other(p)] = IF Reaches(Other(p)) THEN @ \o msgs ELSE @]
Send(p, msgs) == Deliver(p, net[p], msgs)

\* The next message for p, which drops what is not from its peer.
Next1(p) == Head(net[p])
FromPeer(p) == p = "client" \/ hostAddr # "gone" \/ phase["client"] = "closed"

\* p reads one message of the type in its phase at.  p2p_step reads one datagram, as k_socket's flag
\* tells of one, and is not called again once a game starts.
Listens(p) == net[p] # <<>> /\ ~draining[p] /\ ~starting[p] /\ phase[p] # "soon"
Reads(p, at, type) == Listens(p) /\ phase[p] = at /\ Next1(p).type = type /\ FromPeer(p)

IsConnected(p) == phase[p] \notin {"closed", "left"} /\ ping[p] # -1
Resting(p) == phase[p] = "lobby" \/ quits[p]        \* KSSDFA.state = 0, and the core's status is not
Act == acts < MaxActs /\ acts' = acts + 1
-----------------------------------------------------------------------------
\* Memory cards

OwnChoice(p) == IF logged[p] THEN choice[p] ELSE "sem login"

HostAccounts(c) == (IF logged["host"] THEN {"host"} ELSE {}) \cup (IF c = Confirmed THEN {"client"} ELSE {})
AccountsOf(p) == IF p = "host" THEN HostAccounts(check) ELSE accounts

\* n02_mcchoice_game_slots, for these choices and accounts; p2p_GetGameMcSlots: the host is 1P.
GameSlots(cards, who) ==
  [q \in Sides |-> IF (\E r \in Sides : cards[r] = "?") \/ q \notin who \/ cards[q] = "sem login"
                   THEN "sem" ELSE cards[q]]
SlotsOf(p) == GameSlots(table[p], AccountsOf(p))
UsesIso(cards, c) == \E q \in Sides : GameSlots(cards, HostAccounts(c))[q] = "iso"

ResetForPeer(p) == [q \in Sides |-> IF q = p THEN OwnChoice(p) ELSE "?"]
AccountsLine(c) == ChatMsg("contas", HostAccounts(c))
ChoiceLine(p) == ChatMsg("card", OwnChoice(p))

\* p2p_set_ready: the message it sends.
ReadyMsgs(p, on) == IF ready[p] # on /\ connected[p] THEN <<Msg("READY", on)>> ELSE <<>>
-----------------------------------------------------------------------------
\* Coming and going

FreshCore(p, atPhase) ==
  /\ phase' = [phase EXCEPT ![p] = atPhase]
  /\ ping' = [ping EXCEPT ![p] = -1] /\ connected' = [connected EXCEPT ![p] = FALSE]
  /\ ready' = [ready EXCEPT ![p] = FALSE] /\ box' = [box EXCEPT ![p] = FALSE]
  /\ starting' = [starting EXCEPT ![p] = FALSE]
  /\ chats' = [chats EXCEPT ![p] = <<>>] /\ draining' = [draining EXCEPT ![p] = FALSE]
  /\ quits' = [quits EXCEPT ![p] = FALSE] /\ undone' = [undone EXCEPT ![p] = FALSE]
  /\ slots' = [slots EXCEPT ![p] = <<>>] /\ UNCHANGED count

FreshCards(p) ==
  /\ table' = [table EXCEPT ![p] = ResetForPeer(p)] /\ toldCard' = [toldCard EXCEPT ![p] = "?"]
  /\ IF p = "host" THEN check' = NotAsked /\ readyWanted' = FALSE /\ UNCHANGED <<answered, accounts, answering>>
                   ELSE answered' = 0 /\ accounts' = Unknown /\ answering' = "no" /\ UNCHANGED <<check, readyWanted>>
  /\ UNCHANGED <<logged, choice, isoRunning, room, verdicts>>

\* InitializeP2PSubsystem, p2p_core_initialize, and for the client p2p_core_connect.  What an
\* earlier client sent has arrived before somebody joins anew.
Open(p) ==
  /\ phase[p] = "closed" /\ net["host"] = <<>> /\ Act
  /\ FreshCore(p, "lobby") /\ FreshCards(p)
  /\ hostAddr' = IF p = "host" THEN "nobody" ELSE hostAddr
  /\ net' = IF p = "client" /\ phase["host"] # "closed"
            THEN [net EXCEPT !["host"] = <<Msg("LOGN_REQ", 0)>>] ELSE net
  /\ UNCHANGED lobbyPast

\* WM_CLOSE, p2p_disconnect; or p's program is killed, and nobody is told.
Close(p) ==
  /\ phase[p] \in {"lobby", "left"} /\ ~starting[p] /\ ~draining[p]
  /\ Act /\ FreshCore(p, "closed") /\ FreshCards(p)
  /\ hostAddr' = IF p = "host" THEN "nobody" ELSE IF hostAddr = "client" THEN "gone" ELSE hostAddr
  /\ \E killed \in BOOLEAN :
       net' = [net EXCEPT ![p] = <<>>,
                          ![Other(p)] = IF ~killed /\ connected[p] /\ phase[p] = "lobby" /\ phase[Other(p)] # "closed"
                                           /\ (p = "host" => hostAddr = "client")
                                        THEN Append(@, Msg("EXIT", 0)) ELSE @]
  /\ UNCHANGED lobbyPast

\* p2p_peer_left_callback and what the two ways of losing the peer have in common: the host
\* makes a new socket, the client's status becomes 0.  The Ready box is not touched.
LosePeer(p, rest, forget) ==
  /\ connected' = [connected EXCEPT ![p] = FALSE]
  /\ FreshCards(p)
  /\ IF p = "host"
     THEN /\ hostAddr' = "nobody" /\ net' = [net EXCEPT ![p] = <<>>] /\ UNCHANGED phase
     ELSE /\ phase' = [phase EXCEPT ![p] = "left"] /\ net' = [net EXCEPT ![p] = rest]
          /\ UNCHANGED hostAddr
  /\ UNCHANGED chats
  /\ IF p = "host" \/ forget THEN ping' = [ping EXCEPT ![p] = -1] /\ ready' = [ready EXCEPT ![p] = FALSE]
                             ELSE UNCHANGED <<ping, ready>>
  /\ UNCHANGED <<starting, draining, count, box, dropped, slots, lobbyPast, acts>>

ReadExit(p) == Reads(p, "lobby", "EXIT") /\ LosePeer(p, Tail(net[p]), FALSE)

\* Pings were sent and none came back for P2P_LOBBY_PING_TIMEOUT_MS: the peer is gone.
PeerTimeout(p) ==
  /\ phase[p] = "lobby" /\ connected[p] /\ ~draining[p] /\ \A q \in Sides : net[q] = <<>>
  /\ phase[Other(p)] \in {"closed", "left"} \/ ~connected[Other(p)]
  /\ LosePeer(p, net[p], TRUE)
-----------------------------------------------------------------------------
\* p2p_step: logging in

ReadRequest ==                         \* LOGN, LOGN_REQ at the host
  /\ Reads("host", "lobby", "LOGN_REQ")
  /\ IF ~connected["host"] /\ ping["host"] = -1
     THEN /\ hostAddr' = "client" /\ ping' = [ping EXCEPT !["host"] = 0] /\ crossed' = FALSE
          /\ hasty' = FALSE /\ early' = FALSE
          /\ Deliver("host", Tail(net["host"]), <<Msg("LOGN_RPOS", 0)>>)
     ELSE /\ UNCHANGED <<hostAddr, ping, lobbyPast>> /\ Deliver("host", Tail(net["host"]), <<>>)
  /\ UNCHANGED <<phase, connected, ready, starting, chats, draining, count, box, dropped, lobbyCards, slots,
                 acts>>

\* A Ready the host pressed before anybody came: p2p_hold_ready_callback keeps it until the
\* account is checked.  One that is not held goes out at once.
HoldReady == /\ readyWanted' = (readyWanted \/ ready["host"])
             /\ ready' = [ready EXCEPT !["host"] = FALSE]
HeldMsgs == IF ready'["host"] THEN <<Msg("READY", TRUE)>> ELSE <<>>

\* LOGN, LOGN_RPOS; p2p_peer_joined_callback.
ReadReply(p) ==
  /\ Reads(p, "lobby", "LOGN_RPOS") /\ ~connected[p] /\ UNCHANGED hostAddr
  /\ ping[p] = IF p = "host" THEN 0 ELSE -1
  /\ connected' = [connected EXCEPT ![p] = TRUE] /\ ping' = [ping EXCEPT ![p] = 0]
  /\ table' = [table EXCEPT ![p] = ResetForPeer(p)] /\ toldCard' = [toldCard EXCEPT ![p] = OwnChoice(p)]
  /\ IF p = "host"
     THEN /\ HoldReady
          /\ check' = AccountAsked /\ room' = room + 1
          /\ Deliver(p, Tail(net[p]), <<Msg("PING", 0)>> \o HeldMsgs
                                      \o <<ChoiceLine(p), ChatMsg("conta?", room'), AccountsLine(AccountAsked)>>)
          /\ UNCHANGED <<answered, accounts>>
     ELSE /\ Deliver(p, Tail(net[p]), <<Msg("LOGN_RPOS", 0), Msg("PING", 0), ChoiceLine(p)>>)
          /\ answered' = 0 /\ accounts' = Unknown
          /\ UNCHANGED <<ready, readyWanted, check, isoRunning, room>>
  /\ UNCHANGED <<phase, starting, chats, draining, count, box, dropped, logged, choice, isoRunning, answering,
                 verdicts, slots, lobbyPast, acts>>
-----------------------------------------------------------------------------
\* p2p_step: the lobby

\* WM_TIMER, p2p_ping, once a second: its echoes come sooner.
Pinging == \E q \in Sides : \E i \in DOMAIN net[q] : net[q][i].type \in {"PING", "ECHO"}
UIPing(p) ==
  /\ Resting(p) /\ IsConnected(p) /\ ~Pinging /\ Act /\ UNCHANGED hostAddr
  /\ Send(p, <<Msg("PING", 0)>>)
  /\ UNCHANGED <<lobbyCore, lobbyCards, slots, lobbyPast>>

ReadPing(p) ==
  /\ Reads(p, "lobby", "PING") /\ UNCHANGED hostAddr
  /\ Deliver(p, Tail(net[p]), <<Msg("ECHO", 0)>>)
  /\ UNCHANGED <<phase, ping, connected, ready, starting, chats, draining, count, box, dropped, lobbyCards,
                 slots, lobbyPast, acts>>

ReadEcho(p) ==
  /\ Reads(p, "lobby", "ECHO") /\ UNCHANGED hostAddr
  /\ ping' = [ping EXCEPT ![p] = 1]
  /\ Deliver(p, Tail(net[p]), <<>>)
  /\ UNCHANGED <<phase, connected, ready, starting, chats, draining, count, box, dropped, lobbyCards, slots,
                 lobbyPast, acts>>

StartGame(p) == starting' = [starting EXCEPT ![p] = TRUE]   \* Sleep, p2p_game_callback

ReadReady(p) ==
  /\ Reads(p, "lobby", "READY") /\ UNCHANGED hostAddr
  /\ IF Next1(p).arg /\ ready[p]
     THEN StartGame(p) /\ Deliver(p, Tail(net[p]), <<Msg("LOAD", 0)>>)
     ELSE Deliver(p, Tail(net[p]), <<>>) /\ UNCHANGED starting
  /\ UNCHANGED <<phase, ping, connected, ready, chats, draining, count, box, dropped, lobbyCards, slots,
                 lobbyPast, acts>>

ReadLoad(p) ==
  /\ Reads(p, "lobby", "LOAD") /\ UNCHANGED hostAddr
  /\ StartGame(p) /\ Deliver(p, Tail(net[p]), <<>>)
  /\ UNCHANGED <<phase, ping, connected, ready, chats, draining, count, box, dropped, lobbyCards, slots,
                 lobbyPast, acts>>

\* p2p_handle_chat_instruction, wherever p reads one; only the wait for START ignores it.
ReadLine(p) ==
  /\ phase[p] # "start" /\ Reads(p, phase[p], "CHAT") /\ UNCHANGED hostAddr
  /\ chats' = [chats EXCEPT ![p] = Append(@, Next1(p).arg)]
  /\ Deliver(p, Tail(net[p]), <<>>)
  /\ UNCHANGED <<phase, ping, connected, ready, starting, draining, count, box, dropped, lobbyCards, slots,
                 lobbyPast, acts>>

\* What a loop does not wait for is lost.
Expected(p) ==
  CASE phase[p] = "lobby" -> {"LOGN_REQ", "EXIT", "PING", "ECHO", "READY", "LOAD", "CHAT"}
                             \cup (IF connected[p] THEN {} ELSE {"LOGN_RPOS"})
    [] phase[p] = "load" -> {"LOAD", "CHAT"}
    [] phase[p] = "ping" -> {"PING", "ECHO", "CHAT"}
    [] phase[p] = "sync" -> {"CHAT"} \cup (IF p = "host" THEN {"ADJUST"} ELSE {"CHECK", "TTIME"})
    [] phase[p] = "start" -> {"START"}
    [] phase[p] = "play" -> {"DROP", "CHAT"}
    [] OTHER -> {}
Ignore(p) ==
  /\ Listens(p) /\ (~FromPeer(p) \/ Next1(p).type \notin Expected(p))
  /\ UNCHANGED hostAddr /\ Deliver(p, Tail(net[p]), <<>>)
  /\ UNCHANGED <<phase, ping, connected, ready, starting, chats, draining, count, box, dropped, lobbyCards,
                 slots, lobbyPast, acts>>
-----------------------------------------------------------------------------
\* The lines of the chat: p2p_step goes through them when it has read everything,
\* the game between its frames

NextLine(p, line) == chats[p] # <<>> /\ Head(chats[p]).line = line
TakesLine(p, line) ==
  /\ NextLine(p, line)
  /\ phase[p] \in {"lobby", "play"}
  /\ chats' = [chats EXCEPT ![p] = Tail(@)]
  /\ draining' = [draining EXCEPT ![p] = phase[p] = "lobby" /\ Len(chats[p]) > 1]
  /\ UNCHANGED <<hostAddr, phase, ping, connected, starting, count, box, dropped, slots, hasty, early, acts>>

\* p2p_IsoRecheckIfReady: the host takes its Ready back until the ISO's card has been checked.
HearChoice(p) ==
  /\ TakesLine(p, "card")
  /\ LET card == Head(chats[p]).arg
         recheck == /\ p = "host" /\ card = "iso" /\ table[p][Other(p)] # card /\ phase[p] = "lobby"
                    /\ box[p] /\ ~readyWanted /\ ~isoRunning /\ UsesIso(table'[p], check)
     IN /\ table' = [table EXCEPT ![p][Other(p)] = card]
        /\ IF recheck THEN /\ ready' = [ready EXCEPT ![p] = FALSE] /\ isoRunning' = TRUE
                           /\ crossed' = (crossed \/ (ready[p] /\ connected[p]))
                           /\ Send(p, ReadyMsgs(p, FALSE))
                      ELSE UNCHANGED <<ready, isoRunning, crossed, net>>
  /\ UNCHANGED <<logged, choice, toldCard, readyWanted, check, room, answered, accounts, answering, verdicts>>

HearAccounts ==
  /\ TakesLine("client", "contas") /\ accounts' = Head(chats["client"]).arg
  /\ UNCHANGED <<net, ready, logged, choice, table, toldCard, readyWanted, check, isoRunning, room, answered,
                 answering, verdicts, crossed>>

HearQuestion ==                        \* p2p_AnswerAccountCheck
  /\ TakesLine("client", "conta?")
  /\ answered' = Head(chats["client"]).arg
  /\ answering' = IF answered = answered' THEN answering ELSE IF logged["client"] THEN "ticket" ELSE "none"
  /\ UNCHANGED <<net, ready, logged, choice, table, toldCard, readyWanted, check, isoRunning, room, accounts,
                 verdicts, crossed>>

\* P2PSendTicketThread and WM_N02_P2P_SENDCHAT: a ticket for the room; or the site refuses the
\* login, which is forgotten, and there is no account; or it does not answer.
SendAnswer ==
  /\ answering # "no" /\ answering' = "no" /\ UNCHANGED hostAddr
  /\ \/ /\ answering = "ticket" /\ UNCHANGED <<logged, acts>>
        /\ IF IsConnected("client") THEN Send("client", <<ChatMsg("answer", answered)>>) ELSE UNCHANGED net
     \/ /\ answering = "ticket" /\ Act /\ logged' = [logged EXCEPT !["client"] = FALSE]
        /\ IF IsConnected("client") THEN Send("client", <<ChatMsg("answer", 0)>>) ELSE UNCHANGED net
     \/ answering = "ticket" /\ Act /\ UNCHANGED <<logged, net>>
     \/ /\ answering = "none" /\ UNCHANGED <<logged, acts>>
        /\ IF IsConnected("client") THEN Send("client", <<ChatMsg("answer", 0)>>) ELSE UNCHANGED net
  /\ UNCHANGED <<lobbyCore, choice, table, toldCard, readyWanted, check, isoRunning, room, answered, accounts,
                 verdicts, slots, lobbyPast>>

\* p2p_HandleAccountAnswer: a ticket that comes after the time-out takes the host's Ready back.
HearAnswer ==
  /\ TakesLine("host", "answer")
  /\ LET ticket == Head(chats["host"]).arg
         late == ticket # 0 /\ phase["host"] = "lobby" /\ check = NotConfirmed
         back == late /\ box["host"]
     IN /\ IF check = AccountAsked \/ late
           THEN /\ check' = Checking
                /\ verdicts' = verdicts \cup {[room |-> room, site |-> ticket = room]}
           ELSE UNCHANGED <<check, verdicts>>
        /\ IF back THEN /\ ready' = [ready EXCEPT !["host"] = FALSE] /\ readyWanted' = TRUE
                        /\ crossed' = (crossed \/ ready["host"])
                        /\ Send("host", ReadyMsgs("host", FALSE))
                   ELSE UNCHANGED <<ready, readyWanted, crossed, net>>
  /\ UNCHANGED <<logged, choice, table, toldCard, isoRunning, room, answered, accounts, answering>>
-----------------------------------------------------------------------------
\* The host's dialog: the check ends

\* p2p_IsoCheckBeforeReady: the Ready is not sent, for a check of the ISO's card goes on or begins.
WaitsForIso(c) == isoRunning \/ UsesIso(table["host"], c)

\* What the host's dialog does once the check has ended as c: goes is whether the Ready goes out now.
AfterCheck(c, goes) ==
  LET now == readyWanted /\ box["host"]
  IN /\ check' = c /\ readyWanted' = FALSE
     /\ isoRunning' = (isoRunning \/ (now /\ WaitsForIso(c)))
     /\ goes = (now /\ ~WaitsForIso(c))
     /\ ready' = IF goes THEN [ready EXCEPT !["host"] = TRUE] ELSE ready

ReadyBeforeAccounts(c) ==
  \E goes \in BOOLEAN :
    /\ AfterCheck(c, goes)
    /\ Send("host", (IF goes THEN ReadyMsgs("host", TRUE) ELSE <<>>) \o <<AccountsLine(c)>>)

\* p2p_BroadcastAccounts, p2p_ReadyAfterCheck: the accounts go out before the Ready.
CheckEnds(c) ==
  \E goes \in BOOLEAN :
    /\ AfterCheck(c, goes)
    /\ Send("host", <<AccountsLine(c)>> \o IF goes THEN ReadyMsgs("host", TRUE) ELSE <<>>)

\* WM_N02_P2P_LOGINRESULT, p2p_AccountCheckResult.
Verdict(v) ==
  /\ phase["host"] # "closed" /\ verdicts' = verdicts \ {v} /\ UNCHANGED <<hostAddr, hasty, early>>
  /\ crossed' = (crossed \/ (check = Checking /\ v.room # room))
  /\ IF check # Checking THEN UNCHANGED <<net, ready, readyWanted, check, isoRunning, acts>>
     ELSE \/ v.site /\ CheckEnds(Confirmed) /\ UNCHANGED acts
          \/ CheckEnds(NotConfirmed) /\ IF v.site THEN Act ELSE UNCHANGED acts
  /\ UNCHANGED <<phase, ping, connected, starting, chats, draining, count, box, dropped, logged, choice,
                 table, toldCard, room, answered, accounts, answering, slots>>

\* p2p_AccountCheckTick, N02_LOGIN_CHECK_TIMEOUT_MS.
CheckTimeout ==
  /\ phase["host"] # "closed" /\ check = AccountAsked /\ Act /\ UNCHANGED hostAddr /\ CheckEnds(NotConfirmed)
  /\ UNCHANGED <<phase, ping, connected, starting, chats, draining, count, box, dropped, logged, choice,
                 table, toldCard, room, answered, accounts, answering, verdicts, slots, lobbyPast>>

\* WM_N02_P2P_ISOCHECK, p2p_IsoCheckDone: another match holds the card, and the box is unchecked; or
\* none does, or the site does not answer, and the Ready is set, whatever the account's check does.
IsoCheckDone ==
  /\ isoRunning /\ isoRunning' = FALSE /\ UNCHANGED <<hostAddr, early>>
  /\ IF box["host"] /\ (phase["host"] = "lobby" \/ quits["host"])
     THEN \E free \in BOOLEAN :
            /\ box' = [box EXCEPT !["host"] = free] /\ ready' = [ready EXCEPT !["host"] = free]
            /\ Send("host", ReadyMsgs("host", free))
            /\ crossed' = (crossed \/ (~free /\ ready["host"] /\ connected["host"]))
            /\ hasty' = (hasty \/ (free /\ check \in {AccountAsked, Checking}))
     ELSE UNCHANGED <<box, ready, net, crossed, hasty>>
  /\ UNCHANGED <<phase, ping, connected, starting, chats, draining, count, dropped, logged, choice, table,
                 toldCard, readyWanted, check, room, answered, accounts, answering, verdicts, slots, acts>>
-----------------------------------------------------------------------------
\* Both dialogs

\* IDC_READY, p2p_RequestReady; a game that goes on does not disable it.
ClickReady(p) ==
  /\ phase[p] # "closed" /\ Act /\ UNCHANGED <<hostAddr, hasty, early>>
  /\ LET on == ~box[p]
         waits == on /\ p = "host" /\ check \in {AccountAsked, Checking}
         isos == on /\ p = "host" /\ ~waits /\ WaitsForIso(check)
     IN /\ box' = [box EXCEPT ![p] = on]
        /\ readyWanted' = IF p = "host" THEN waits ELSE readyWanted
        /\ isoRunning' = (isoRunning \/ isos)
        /\ IF waits \/ isos THEN UNCHANGED <<ready, net, crossed>>
           ELSE /\ ready' = [ready EXCEPT ![p] = on] /\ Send(p, ReadyMsgs(p, on))
                /\ crossed' = (crossed \/ (ready[p] /\ connected[p]))
  /\ UNCHANGED <<phase, ping, connected, starting, chats, draining, count, dropped, logged, choice, table,
                 toldCard, check, room, answered, accounts, answering, verdicts, slots>>

\* p2p_McAnnounceOwn.
AnnounceOwn(p, own) ==
  /\ table' = [table EXCEPT ![p][p] = own]
  /\ IF Resting(p) /\ IsConnected(p) /\ own # toldCard[p]
     THEN toldCard' = [toldCard EXCEPT ![p] = own] /\ Send(p, <<ChatMsg("card", own)>>)
     ELSE UNCHANGED <<toldCard, net>>

Choose(p, w) ==                        \* CMB_MEMCARD, p2p_McCanChoose
  /\ Resting(p) /\ logged[p] /\ ~box[p] /\ w # choice[p] /\ Act /\ UNCHANGED hostAddr
  /\ choice' = [choice EXCEPT ![p] = w] /\ AnnounceOwn(p, w)
  /\ UNCHANGED <<lobbyCore, logged, readyWanted, check, isoRunning, room, answered, accounts, answering,
                 verdicts, slots, lobbyPast>>

Tick(p) ==                             \* WM_TIMER: a login that was forgotten
  /\ phase[p] \notin {"closed", "left"} /\ ~logged[p] /\ UNCHANGED hostAddr
  /\ table[p][p] # OwnChoice(p) \/ (Resting(p) /\ IsConnected(p) /\ toldCard[p] # OwnChoice(p))
  /\ AnnounceOwn(p, OwnChoice(p))
  /\ UNCHANGED <<lobbyCore, logged, choice, readyWanted, check, isoRunning, room, answered, accounts,
                 answering, verdicts, slots, lobbyPast, acts>>
-----------------------------------------------------------------------------
\* The game begins: p2p_modify_play_values, first call

BeginSilently(p) ==
  /\ phase[p] \in {"lobby", "left"} /\ starting[p] /\ chats[p] = <<>> /\ UNCHANGED hostAddr
  /\ starting' = [starting EXCEPT ![p] = FALSE] /\ phase' = [phase EXCEPT ![p] = "load"]
  /\ slots' = [slots EXCEPT ![p] = SlotsOf(p)]
  /\ Send(p, <<>>)
  /\ UNCHANGED <<ping, connected, ready, chats, draining, count, box, dropped, lobbyCards, lobbyPast, acts>>

Begin(p) ==
  /\ phase[p] \in {"lobby", "left"} /\ starting[p] /\ chats[p] = <<>> /\ UNCHANGED hostAddr
  /\ starting' = [starting EXCEPT ![p] = FALSE] /\ phase' = [phase EXCEPT ![p] = "load"]
  /\ slots' = [slots EXCEPT ![p] = SlotsOf(p)]
  /\ Send(p, <<Msg("LOAD", 0)>>)
  /\ UNCHANGED <<ping, connected, ready, chats, draining, count, box, dropped, lobbyCards, lobbyPast, acts>>

GameStep(p, to, msgs) ==
  /\ phase' = [phase EXCEPT ![p] = to] /\ UNCHANGED hostAddr /\ Deliver(p, Tail(net[p]), msgs)
  /\ UNCHANGED <<connected, ready, starting, chats, draining, box, quits, lobbyCards, slots, lobbyPast, acts>>

\* p2p_WaitForPeerToLoadOrDie: a peer that was still in its lobby has missed the first LOAD.
PeerLoads(p) ==
  /\ Reads(p, "load", "LOAD") /\ count' = 0 /\ UNCHANGED <<ping, undone>>
  /\ GameStep(p, "ping", <<Msg("LOAD", 0)>> \o IF p = "host" THEN <<Msg("PING", 0)>> ELSE <<>>)

\* p2p_CalculatePingOrDie, and what the host sends next: of p2p_SynChronizeClocksOrDie before it reads,
\* or only the START when it was dropped meanwhile.
PingReturns ==
  /\ Reads("host", "ping", "PING") \/ Reads("host", "ping", "ECHO")
  /\ IF Next1("host").type = "ECHO" \/ count + 1 >= PingTimes
     THEN /\ IF undone["host"]
             THEN GameStep("host", "soon", <<Msg("ECHO", 0), Msg("START", 0)>>)
             ELSE GameStep("host", "sync", <<Msg("ECHO", 0), Msg("FORCE", 0), Msg("CHECK", 0)>>)
          /\ count' = 0 /\ ping' = [ping EXCEPT !["host"] = 1]
     ELSE GameStep("host", "ping", <<Msg("PING", 0)>>) /\ count' = count + 1 /\ UNCHANGED ping
  /\ UNCHANGED undone

PingComes ==
  \/ /\ Reads("client", "ping", "PING") /\ GameStep("client", "ping", <<Msg("PING", 0)>>)
     /\ UNCHANGED <<count, ping, undone>>
  \/ /\ Reads("client", "ping", "ECHO") /\ GameStep("client", IF undone["client"] THEN "start" ELSE "sync", <<>>)
     /\ ping' = [ping EXCEPT !["client"] = 1] /\ UNCHANGED <<count, undone>>

\* p2p_SynChronizeClocksOrDie, which sets the status to 3, and the host's START.
Adjust ==
  /\ Reads("host", "sync", "ADJUST") /\ UNCHANGED <<ping, undone>>
  /\ \E exact \in BOOLEAN :
       IF exact \/ count + 1 >= Adjustments
       THEN GameStep("host", "soon", <<Msg("TTIME", 0), Msg("START", 0)>>) /\ UNCHANGED count
       ELSE GameStep("host", "sync", <<Msg("CHECK", 0)>>) /\ count' = count + 1

Check ==
  /\ Reads("client", "sync", "CHECK") /\ GameStep("client", "sync", <<Msg("ADJUST", 0)>>)
  /\ UNCHANGED <<ping, count, undone>>
DelayComes == Reads("client", "sync", "TTIME") /\ GameStep("client", "start", <<>>) /\ UNCHANGED <<ping, count, undone>>
StartComes == Reads("client", "start", "START") /\ GameStep("client", "soon", <<>>) /\ UNCHANGED <<ping, count, undone>>

\* The start time has come and p2p_modify_play_values calls itself: for the first frame; or, with the
\* status back at 1, to begin once more with LOAD.  A dropped game ends with the emulator's next call.
Anew(p, msgs) ==
  /\ phase' = [phase EXCEPT ![p] = "load"] /\ chats' = [chats EXCEPT ![p] = <<>>]
  /\ undone' = [undone EXCEPT ![p] = FALSE] /\ Send(p, Append(msgs, Msg("LOAD", 0)))
FirstFrame(p) ==
  /\ phase[p] = "soon" /\ UNCHANGED hostAddr
  /\ IF undone[p] THEN Anew(p, <<>>) /\ UNCHANGED quits
     ELSE /\ phase' = [phase EXCEPT ![p] = IF quits[p] THEN "lobby" ELSE "play"]
          /\ quits' = [quits EXCEPT ![p] = FALSE] /\ UNCHANGED <<net, chats, undone>>
  /\ UNCHANGED <<ping, connected, ready, starting, draining, count, box, lobbyCards, slots, lobbyPast, acts>>

\* The game ends at p: p2p_end_game_callback unchecks Ready.
GameOver(p) ==
  /\ ready' = [ready EXCEPT ![p] = FALSE] /\ box' = [box EXCEPT ![p] = FALSE]
  /\ starting' = [starting EXCEPT ![p] = FALSE] /\ slots' = [slots EXCEPT ![p] = <<>>]
  /\ UNCHANGED <<hostAddr, ping, connected, draining, count, lobbyCards, hasty>>

\* p2p_drop_game: the button and the emulator may call it at any time, a data time-out while playing.
\* The loops that wait for the other go on, and KSSDFA.state is 0 meanwhile.  In a game, a call of
\* modify_play_values between the status and KSSDFA.state finds the status 1 and begins anew.
Loops == {"load", "ping", "sync", "start", "soon"}
Drop(p) ==
  /\ phase[p] # "closed" /\ Act /\ GameOver(p)
  /\ crossed' = (crossed \/ (phase[p] = "lobby" /\ ready[p] /\ connected[p]))
  /\ \/ /\ phase[p] \notin Loops /\ phase' = [phase EXCEPT ![p] = "lobby"] /\ early' = (early \/ starting[p])
        /\ Send(p, <<Msg("DROP", 0)>>) /\ UNCHANGED <<chats, dropped>>
     \/ /\ phase[p] \in Loops /\ UNCHANGED <<phase, chats>> /\ early' = TRUE
        /\ quits' = [quits EXCEPT ![p] = TRUE]
        /\ undone' = [undone EXCEPT ![p] = @ \/ phase[p] \in {"ping", "start", "soon"}]
        /\ Send(p, <<Msg("DROP", 0)>>)
     \/ /\ phase[p] = "play" /\ Anew(p, <<Msg("DROP", 0)>>) /\ early' = TRUE
        /\ quits' = [quits EXCEPT ![p] = TRUE]
\* DROP in ProcessGameStuff.
ReadDrop(p) ==
  /\ Reads(p, "play", "DROP") /\ GameOver(p)
  /\ phase' = [phase EXCEPT ![p] = "lobby"] /\ Deliver(p, Tail(net[p]), <<>>)
  /\ UNCHANGED <<chats, dropped, crossed, early, acts>>
-----------------------------------------------------------------------------
P2PLobbyInit ==
  /\ net = [p \in Sides |-> <<>>] /\ hostAddr = "nobody" /\ phase = [p \in Sides |-> "closed"]
  /\ ping = [p \in Sides |-> -1] /\ connected = [p \in Sides |-> FALSE] /\ ready = [p \in Sides |-> FALSE]
  /\ starting = [p \in Sides |-> FALSE] /\ chats = [p \in Sides |-> <<>>]
  /\ draining = [p \in Sides |-> FALSE] /\ count = 0 /\ box = [p \in Sides |-> FALSE]
  /\ quits = [p \in Sides |-> FALSE] /\ undone = [p \in Sides |-> FALSE]
  /\ \E s \in Settings : logged = s.logged /\ choice = s.choice
  /\ table = [p \in Sides |-> [q \in Sides |-> "?"]] /\ toldCard = [p \in Sides |-> "?"]
  /\ readyWanted = FALSE /\ check = NotAsked /\ isoRunning = FALSE /\ room = 0 /\ answered = 0
  /\ accounts = Unknown /\ answering = "no" /\ verdicts = {} /\ slots = [p \in Sides |-> <<>>]
  /\ crossed = FALSE /\ hasty = FALSE /\ early = FALSE /\ acts = 0

P2PLobbyNext ==
  \/ ReadRequest \/ HearAccounts \/ HearQuestion \/ SendAnswer \/ HearAnswer
  \/ CheckTimeout \/ IsoCheckDone \/ \E v \in verdicts : Verdict(v)
  \/ PingReturns \/ PingComes \/ Adjust \/ Check \/ DelayComes \/ StartComes
  \/ \E p \in Sides :
       \/ Open(p) \/ Close(p) \/ ReadExit(p) \/ PeerTimeout(p) \/ ReadReply(p)
       \/ UIPing(p) \/ ReadPing(p) \/ ReadEcho(p) \/ ReadReady(p) \/ ReadLoad(p) \/ ReadLine(p) \/ Ignore(p)
       \/ HearChoice(p) \/ ClickReady(p) \/ Tick(p) \/ \E w \in Wishes : Choose(p, w)
       \/ Begin(p) \/ PeerLoads(p) \/ FirstFrame(p) \/ Drop(p) \/ ReadDrop(p)

P2PLobbySpec == P2PLobbyInit /\ [][P2PLobbyNext]_p2pLobbyVars
-----------------------------------------------------------------------------
\* What two players who meet without a server may rely on.

\* Nothing is on its way, nobody is about to start a game or to play its first frame.
Settled == \A p \in Sides : net[p] = <<>> /\ ~starting[p] /\ phase[p] # "soon"

\* Nobody is left behind between Ready and the first frame: while both are there, when nothing is
\* on its way, either both play or both are in the lobby, however their Ready boxes, pings and drops
\* crossed and whichever emulator loads faster.  Except when somebody dropped a game that had begun
\* and had not reached its first frame: p2p_drop_game then makes its own call skip the clocks, or
\* wait for a LOAD that the other has sent already, and nothing ends those waits.
NobodyLeftBehind ==
  (Settled /\ ~early /\ \A p \in Sides : connected[p] /\ phase[p] # "left") =>
    /\ phase["host"] = phase["client"] /\ phase["host"] \in {"lobby", "play"}

\* "So both PCs load the same M. Cards": the account check holds the host's Ready back, and what it
\* found goes before it.  Except when a Ready was taken back, which may cross with the start, when the
\* end of the ISO's check sent the Ready before the account's had ended, or when the host took the
\* verdict on the ticket of a connection before this one; and except for a host that started alone, on
\* the LOAD of a client that its socket does not answer.
SameCards ==
  (hostAddr = "client" /\ slots["host"] # <<>> /\ slots["client"] # <<>> /\ ~crossed /\ ~hasty) =>
    slots["host"] = slots["client"]
=============================================================================
