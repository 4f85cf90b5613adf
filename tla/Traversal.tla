------------------------------ MODULE Traversal ------------------------------
(***************************************************************************)
(* Two players without a server find each other by a code (p2p_ui.cpp): the*)
(* host registers with the traversal server and is given a code, a joiner  *)
(* asks it for the host of a code, both are told the other's address and   *)
(* send there until the joiner's LOGN_REQ is let through; from the third   *)
(* try on the joiner also tries, once, the plain address of the host.  A   *)
(* host the server does not answer hosts by IP.                            *)
(*                                                                         *)
(* Each window's timer beats once a second, and every "now + n" is a number*)
(* of beats.  The two servers are external: the traversal server keeps one *)
(* session for the host, and answers a repeated REG with the same code or a*)
(* new one.  P2PLobby goes on from the connection.                         *)
(***************************************************************************)
EXTENDS Integers, FiniteSets

CONSTANTS
  Joiners,                \* the joiners' windows: each has a socket of its own (PORT is 0)
  JoinTime, JoinAgain,    \* beats to the end of an attempt (15000 ms), and between JOINs (3000)
  RegTries, RegAgain,     \* REGs before the host gives up (4), and beats between them (2000 ms)
  KeepAgain, PunchTime,   \* beats between KEEPs (10000 ms), and in which the host punches (15000)
  Enlist,                 \* what P2P_ENLIST may be
  Replies,                \* bundles that carry the host's LOGN_RPOS (default_ipm)
  Prompt,                 \* no datagram is on its way for a whole beat
  MaxCodes, MaxOpens      \* bounds: codes the server gives out, windows the users open
ASSUME TraversalAssumption ==
  /\ {JoinTime, JoinAgain, RegTries, RegAgain, KeepAgain, PunchTime, Replies, MaxCodes, MaxOpens} \subseteq Nat \ {0}
  /\ Enlist \subseteq BOOLEAN /\ Prompt \in BOOLEAN
  /\ Joiners \cap {"server", "host", "nobody"} = {}

VARIABLES
  passable,  \* external: the ways from a joiner to the host that routers let through
  holes,     \* external: the joiners for whom the host's router is open
  session,   \* external: the code under which the server knows the host, 0 for none
  minted,    \* the codes given out
  wire,      \* datagrams on their way
  h,         \* the host's window and core
  w,         \* w[j]: a joiner's window and core
  opens
travVars == <<passable, holes, session, minted, wire, h, w, opens>>

\* The address the server saw, or the one typed, listed or guessed.
Ways == {"punched", "direct"}
Nowhere == [joiner |-> "nobody", way |-> "none"]
From(j, way) == [joiner |-> j, way |-> way]

\* p2p_trav_reset_state, and the core after p2p_core_initialize.
NoHost == [open |-> FALSE, byCode |-> FALSE, code |-> 0, suspended |-> FALSE, regs |-> 0,
           regIn |-> 0, keepIn |-> 0, ipPending |-> FALSE, ip |-> FALSE, enlist |-> FALSE, listed |-> -1,
           peer |-> "nobody", punchIn |-> 0, addr |-> Nowhere, stage |-> "free", replies |-> 0]
NoJoiner == [open |-> FALSE, joining |-> FALSE, code |-> 0, gotHost |-> FALSE, busy |-> FALSE,
             fallback |-> FALSE, tried |-> FALSE, attempts |-> 0, joinIn |-> 0, deadline |-> 0,
             addr |-> "none", stage |-> "free"]

TravInit ==
  /\ passable \in SUBSET [joiner : Joiners, way : Ways]
  /\ holes = {} /\ session = 0 /\ minted = 0 /\ wire = {} /\ opens = 0
  /\ h = NoHost /\ w = [j \in Joiners |-> NoJoiner]

\* Counters of beats: 0 is due now.
IsDue(n) == n <= 1
Then(n, again) == IF IsDue(n) THEN again ELSE n - 1

ToServer(kind, code, j) == [to |-> "server", kind |-> kind, code |-> code, joiner |-> j]
ToHost(kind, code, from) == [to |-> "host", kind |-> kind, code |-> code, from |-> from]
ToJoiner(kind, j, way) == [to |-> j, kind |-> kind, way |-> way]
Reg == ToServer("REG", 0, "nobody")

\* The datagrams sent in a step, after m was read.
Sends(m, out) == wire' = (wire \ m) \cup out
MayBeat == Prompt => wire = {}
-----------------------------------------------------------------------------
\* The host

\* p2p_enlist_game with BuildEnlistAppName: the list shows the code if there is one, else 0.
Enlisted(x) == IF ~x.enlist THEN x
               ELSE [x EXCEPT !.listed = IF x.byCode THEN x.code ELSE 0]
Unlisted(x) == IF x.enlist THEN [x EXCEPT !.listed = -1] ELSE x

\* p2p_trav_send_close, p2p_trav_send_keep
WithCode(x, kind) == IF x.code = 0 THEN {} ELSE {ToServer(kind, x.code, "nobody")}

\* p2p_update_host_code_ui: what the host's window shows to be passed on.
CodeField == IF ~h.open \/ h.suspended THEN "hidden"
             ELSE IF h.code # 0 THEN "code"
             ELSE IF h.ip THEN "ip"
             ELSE IF h.ipPending THEN "(checking ip)" ELSE "(waiting)"

\* p2p_ssrv_whatismyip: by IP, the host asks for its address once.
ByIp(x) == [x EXCEPT !.byCode = FALSE, !.ipPending = TRUE, !.ip = FALSE, !.regIn = 0, !.keepIn = 0]
AskIp == ToServer("WHATISMYIP", 0, "nobody")

\* InitializeP2PSubsystem, IniaialzeConnectionDialog
OpenHost ==
  /\ ~h.open /\ opens < MaxOpens /\ opens' = opens + 1
  /\ \E byCode \in BOOLEAN, enlist \in Enlist :
       LET x == [NoHost EXCEPT !.open = TRUE, !.byCode = byCode, !.enlist = enlist]
       IN IF byCode THEN h' = [x EXCEPT !.regs = 1, !.regIn = RegAgain] /\ Sends({}, {Reg})
                    ELSE h' = Enlisted(ByIp(x)) /\ Sends({}, {AskIp})
  /\ UNCHANGED <<passable, holes, session, minted, w>>

\* WM_CLOSE, p2p_disconnect
CloseHost ==
  /\ h.open /\ h' = NoHost
  /\ Sends({}, (IF h.byCode THEN WithCode(h, "CLOSE") ELSE {}) \cup
               (IF h.stage = "connected" THEN {ToJoiner("EXIT", h.addr.joiner, h.addr.way)} ELSE {}))
  /\ UNCHANGED <<passable, holes, session, minted, w, opens>>

\* The host's timer: no code yet, REG again or give up; with a code, KEEP; punch while nobody has
\* asked; and ping the one who has, which repeats the last messages.
RegGivenUp(x) == x.regs >= RegTries
HostReg(x) ==
  IF ~IsDue(x.regIn) THEN [x EXCEPT !.regIn = @ - 1]
  ELSE IF RegGivenUp(x) THEN Enlisted(ByIp(x))
  ELSE [x EXCEPT !.regs = @ + 1, !.regIn = RegAgain]
HostBeats(x) ==
  IF ~x.byCode \/ x.suspended THEN x
  ELSE IF x.code = 0 THEN HostReg(x)
  ELSE [x EXCEPT !.keepIn = Then(@, KeepAgain)]
HostSays(x) ==
  IF ~x.byCode \/ x.suspended THEN {}
  ELSE IF x.code = 0 THEN IF ~IsDue(x.regIn) THEN {} ELSE IF RegGivenUp(x) THEN {AskIp} ELSE {Reg}
  ELSE IF IsDue(x.keepIn) THEN WithCode(x, "KEEP") ELSE {}
\* Every 30th beat lists an open game again.
Relisted(x) == IF x.stage = "free" THEN Enlisted(x) ELSE x
Punches(x) == x.byCode /\ x.stage = "free" /\ x.peer \in Joiners /\ x.punchIn > 1
HostTimer ==
  /\ h.open /\ MayBeat
  /\ \E x \in {HostBeats(h), Relisted(HostBeats(h))} :
        h' = [x EXCEPT !.punchIn = IF @ > 0 THEN @ - 1 ELSE 0,
                       !.replies = IF @ > 0 THEN @ - 1 ELSE 0]
  /\ holes' = IF Punches(h) THEN holes \cup {h.peer} ELSE holes
  /\ Sends({}, HostSays(h) \cup
       (IF h.stage = "asked" /\ h.replies > 0 THEN {ToJoiner("RPOS", h.addr.joiner, h.addr.way)} ELSE {}))
  /\ UNCHANGED <<passable, session, minted, w, opens>>

HostReads(kind, m) == m.to = "host" /\ m.kind = kind /\ h.open

\* p2p_ssrv_packet_recv_callback.  A REGOK that comes while a peer is there is not refused.
HostRegok(m) ==
  /\ HostReads("REGOK", m)
  /\ h' = IF ~h.byCode THEN h
          ELSE Enlisted([h EXCEPT !.code = m.code, !.regs = 0, !.ipPending = FALSE, !.ip = FALSE, !.keepIn = 0])
  /\ Sends({m}, {}) /\ UNCHANGED <<passable, holes, session, minted, w, opens>>

HostPeer(m) ==
  /\ HostReads("PEER", m)
  /\ IF h.byCode /\ (h.code = 0 \/ h.code = m.code)
     THEN /\ h' = [h EXCEPT !.peer = m.from.joiner, !.punchIn = PunchTime]
          /\ holes' = holes \cup {m.from.joiner}
     ELSE UNCHANGED <<h, holes>>
  /\ Sends({m}, {}) /\ UNCHANGED <<passable, session, minted, w, opens>>

HostMyIp(m) ==
  /\ HostReads("MYIP", m) /\ h' = IF h.ipPending THEN [h EXCEPT !.ip = TRUE, !.ipPending = FALSE] ELSE h
  /\ Sends({m}, {}) /\ UNCHANGED <<passable, holes, session, minted, w, opens>>

\* check_recv: once the socket has an address, nobody else is heard.
Heard(m) == h.addr \in {Nowhere, m.from}

\* p2p_step, LOGN_REQ: the first who asks has the host's address and its only answer.
HostRequest(m) ==
  /\ HostReads("REQ", m)
  /\ IF Heard(m) /\ h.stage = "free"
     THEN /\ h' = [h EXCEPT !.addr = m.from, !.stage = "asked", !.replies = Replies - 1]
          /\ Sends({m}, {ToJoiner("RPOS", m.from.joiner, m.from.way)})
     ELSE UNCHANGED h /\ Sends({m}, {})
  /\ UNCHANGED <<passable, holes, session, minted, w, opens>>

\* p2p_step, LOGN_RPOS, p2p_peer_joined_callback: the code is given back.
PeerJoined(x) ==
  LET y == [x EXCEPT !.stage = "connected", !.replies = 0]
  IN Unlisted(IF ~x.byCode \/ x.suspended THEN y
              ELSE [y EXCEPT !.suspended = TRUE, !.code = 0, !.regs = 0, !.regIn = 0, !.keepIn = 0])
HostConfirmed(m) ==
  /\ HostReads("RPOS", m)
  /\ IF Heard(m) /\ h.stage = "asked"
     THEN /\ h' = PeerJoined(h)
          /\ Sends({m}, IF h.byCode /\ ~h.suspended THEN WithCode(h, "CLOSE") ELSE {})
     ELSE UNCHANGED h /\ Sends({m}, {})
  /\ UNCHANGED <<passable, holes, session, minted, w, opens>>

\* p2p_peer_left_callback; then the core makes a new socket.
PeerLeft(x) ==
  LET y == [x EXCEPT !.peer = "nobody", !.punchIn = 0, !.addr = Nowhere, !.stage = "free"]
  IN Enlisted(IF ~x.byCode THEN y
              ELSE [y EXCEPT !.suspended = FALSE, !.code = 0, !.regs = 0, !.regIn = 0, !.keepIn = 0])
HostPeerExits(m) ==
  /\ HostReads("EXIT", m) /\ h' = IF Heard(m) THEN PeerLeft(h) ELSE h
  /\ Sends({m}, {}) /\ UNCHANGED <<passable, holes, session, minted, w, opens>>

\* Ten seconds without an ECHO from a peer that has gone.
Speaks(j) == w[j].stage = "connected"
HostPingTimeout ==
  /\ h.stage = "connected" /\ ~Speaks(h.addr.joiner) /\ MayBeat
  /\ h' = PeerLeft(h) /\ UNCHANGED <<passable, holes, session, minted, wire, w, opens>>
-----------------------------------------------------------------------------
\* A joiner

\* p2p_core_connect
Request(j, way) ==
  IF From(j, way) \in passable /\ (way = "punched" => j \in holes) THEN {ToHost("REQ", 0, From(j, way))} ELSE {}
Toward(x, way) == [x EXCEPT !.addr = way]

\* p2p_trav_try_fallback_connect
MayFallBack(x) == x.fallback /\ ~x.tried
FallenBack(x) == IF MayFallBack(x) THEN Toward([x EXCEPT !.tried = TRUE], "direct") ELSE x
FallbackRequest(j, x) == IF MayFallBack(x) THEN Request(j, "direct") ELSE {}

\* InitializeP2PSubsystemWithJoinCode, with or without the address that was listed with the code;
\* or by IP, which is tried once.
OpenJoiner(j) ==
  /\ w[j] = NoJoiner /\ opens < MaxOpens /\ opens' = opens + 1
  /\ \/ /\ minted > 0
        /\ \E listed \in BOOLEAN :
             w' = [w EXCEPT ![j] = [NoJoiner EXCEPT !.open = TRUE, !.joining = TRUE, !.code = minted,
                                      !.fallback = listed, !.joinIn = JoinAgain, !.deadline = JoinTime]]
        /\ Sends({}, {ToServer("JOIN", minted, j)})
     \/ /\ w' = [w EXCEPT ![j] = Toward([NoJoiner EXCEPT !.open = TRUE], "direct")]
        /\ Sends({}, Request(j, "direct"))
  /\ UNCHANGED <<passable, holes, session, minted, h>>

\* The next window a player opens is another joiner.
CloseJoiner(j) ==
  /\ w[j].open /\ w' = [w EXCEPT ![j] = [NoJoiner EXCEPT !.stage = "left"]]
  /\ Sends({}, IF Speaks(j) THEN {ToHost("EXIT", 0, From(j, w[j].addr))} ELSE {})
  /\ UNCHANGED <<passable, holes, session, minted, h, opens>>

\* The joiner's timer: the deadline before everything else; no host yet, JOIN again; then punch
\* and LOGN_REQ every second, and from the third on once to the plain address too.
Tried(x) == [x EXCEPT !.attempts = IF @ < 3 THEN @ + 1 ELSE @]
GivesUp(j) ==
  LET x == [w[j] EXCEPT !.joining = FALSE, !.busy = FALSE]
  IN IF w[j].busy THEN w' = [w EXCEPT ![j] = x] /\ UNCHANGED wire
     ELSE w' = [w EXCEPT ![j] = FallenBack(x)] /\ Sends({}, FallbackRequest(j, x))
AsksServer(j, x) ==
  /\ w' = [w EXCEPT ![j] = [x EXCEPT !.joinIn = Then(@, JoinAgain)]]
  /\ Sends({}, IF IsDue(x.joinIn) THEN {ToServer("JOIN", x.code, j)} ELSE {})
AsksHost(j, x) ==
  LET y == Toward(Tried(x), "punched") third == y.attempts = 3
  IN /\ w' = [w EXCEPT ![j] = IF third THEN FallenBack(y) ELSE y]
     /\ Sends({}, Request(j, "punched") \cup (IF third THEN FallbackRequest(j, y) ELSE {}))
StillJoinsAKnownHost(j) ==   \* mutant: the deadline only counts until there is a host
  LET x == [w[j] EXCEPT !.deadline = IF w[j].gotHost THEN @ ELSE @ - 1] IN
  IF x.gotHost THEN AsksHost(j, x) ELSE IF IsDue(w[j].deadline) THEN GivesUp(j) ELSE AsksServer(j, x)
StillJoins(j) ==
  LET x == [w[j] EXCEPT !.deadline = @ - 1] IN
  IF IsDue(w[j].deadline) THEN GivesUp(j)
  ELSE IF ~x.gotHost THEN AsksServer(j, x) ELSE AsksHost(j, x)
JoinerTimerOnceMore(j) ==   \* mutant: without asking p2p_is_connected
  w[j].joining /\ MayBeat /\ StillJoins(j) /\ UNCHANGED <<passable, holes, session, minted, h, opens>>
JoinerTimer(j) ==
  /\ w[j].joining /\ MayBeat
  /\ IF Speaks(j) THEN w' = [w EXCEPT ![j].joining = FALSE, ![j].deadline = 0] /\ UNCHANGED wire
     ELSE StillJoins(j)
  /\ UNCHANGED <<passable, holes, session, minted, h, opens>>

JoinerReads(j, kind, m) == m.to = j /\ m.kind = kind /\ w[j].open

\* p2p_ssrv_packet_recv_callback: it does not ask whether the joiner is connected by now.
JoinerHost(j, m) ==
  /\ JoinerReads(j, "HOST", m)
  /\ IF w[j].joining
     THEN LET x == [w[j] EXCEPT !.gotHost = TRUE, !.joinIn = 0, !.fallback = TRUE,
                                !.tried = @ /\ w[j].fallback]
              y == Toward(Tried(x), "punched") third == y.attempts = 3
          IN /\ w' = [w EXCEPT ![j] = IF third THEN FallenBack(y) ELSE y]
             /\ Sends({m}, Request(j, "punched") \cup (IF third THEN FallbackRequest(j, y) ELSE {}))
     ELSE UNCHANGED w /\ Sends({m}, {})
  /\ UNCHANGED <<passable, holes, session, minted, h, opens>>

JoinerBusy(j, m) ==
  /\ JoinerReads(j, "BUSY", m)
  /\ w' = IF w[j].joining THEN [w EXCEPT ![j].busy = TRUE, ![j].deadline = 1, ![j].joinIn = 0] ELSE w
  /\ Sends({m}, {}) /\ UNCHANGED <<passable, holes, session, minted, h, opens>>

\* p2p_step, LOGN_RPOS, which only counts from the address written to last.
JoinerAccepted(j, m) ==
  /\ JoinerReads(j, "RPOS", m)
  /\ IF w[j].addr = m.way /\ w[j].stage = "free"
     THEN w' = [w EXCEPT ![j].stage = "connected"] /\ Sends({m}, {ToHost("RPOS", 0, From(j, m.way))})
     ELSE UNCHANGED w /\ Sends({m}, {})
  /\ UNCHANGED <<passable, holes, session, minted, h, opens>>

\* p2p_step, EXIT, or the ping timeout: the joiner's status becomes 0 for good.
JoinerHostGone(j, m) ==
  /\ JoinerReads(j, "EXIT", m)
  /\ w' = IF w[j].addr = m.way THEN [w EXCEPT ![j].stage = "left"] ELSE w
  /\ Sends({m}, {}) /\ UNCHANGED <<passable, holes, session, minted, h, opens>>
JoinerPingTimeout(j) ==
  /\ Speaks(j) /\ h.addr.joiner # j /\ MayBeat
  /\ w' = [w EXCEPT ![j].stage = "left"] /\ UNCHANGED <<passable, holes, session, minted, wire, h, opens>>
-----------------------------------------------------------------------------
\* The traversal server and the network

ServerRegs(m) ==
  /\ m.kind = "REG"
  /\ \/ session # 0 /\ Sends({m}, {ToHost("REGOK", session, Nowhere)}) /\ UNCHANGED <<session, minted>>
     \/ /\ minted < MaxCodes /\ minted' = minted + 1 /\ session' = minted + 1
        /\ Sends({m}, {ToHost("REGOK", minted + 1, Nowhere)})
ServerJoins(m) ==
  /\ m.kind = "JOIN" /\ session = m.code /\ UNCHANGED <<session, minted>>
  /\ \/ Sends({m}, {ToJoiner("HOST", m.joiner, "none"), ToHost("PEER", session, From(m.joiner, "punched"))})
     \/ Sends({m}, {ToJoiner("BUSY", m.joiner, "none")})
ServerCloses(m) ==
  /\ m.kind = "CLOSE" /\ session' = (IF session = m.code THEN 0 ELSE session)
  /\ Sends({m}, {}) /\ UNCHANGED minted
\* ssrv, another server.
SsrvTellsIp(m) == m.kind = "WHATISMYIP" /\ Sends({m}, {ToHost("MYIP", 0, Nowhere)}) /\ UNCHANGED <<session, minted>>
ServerActs(m) ==
  /\ m.to = "server" /\ (ServerRegs(m) \/ ServerJoins(m) \/ ServerCloses(m) \/ SsrvTellsIp(m))
  /\ UNCHANGED <<passable, holes, h, w, opens>>

\* A datagram is lost, or nobody is there to read or answer it (KEEP).
LoseOnWire(m) == Sends({m}, {}) /\ UNCHANGED <<passable, holes, session, minted, h, w, opens>>

Arrives(m) ==
  \/ ServerActs(m) \/ LoseOnWire(m)
  \/ HostRegok(m) \/ HostPeer(m) \/ HostMyIp(m) \/ HostRequest(m) \/ HostConfirmed(m) \/ HostPeerExits(m)
  \/ \E j \in Joiners : JoinerHost(j, m) \/ JoinerBusy(j, m) \/ JoinerAccepted(j, m) \/ JoinerHostGone(j, m)

TravNext ==
  \/ OpenHost \/ CloseHost \/ HostTimer \/ HostPingTimeout
  \/ \E j \in Joiners : OpenJoiner(j) \/ CloseJoiner(j) \/ JoinerTimer(j) \/ JoinerPingTimeout(j)
  \/ \E m \in wire : Arrives(m)
TravSpec == TravInit /\ [][TravNext]_travVars
-----------------------------------------------------------------------------
\* What players who look for each other by a code may rely on.

\* No address in use is stale: two who are connected write to each other over the same way, although
\* the joiner tries two addresses in turn and both ends drop what comes from another one; and the
\* code in the list of games is the one the host has now, not one that it gave back.
NoStaleAddress ==
  /\ \A j \in Joiners : (h.stage = "connected" /\ h.addr.joiner = j /\ Speaks(j)) => h.addr.way = w[j].addr
  /\ h.listed > 0 => h.listed = h.code

\* The timers run once a second, and what is sent is lost or read meanwhile.
TravFairSpec == TravSpec /\ WF_travVars(\E m \in wire : Arrives(m))
  /\ SF_travVars(HostTimer) /\ \A j \in Joiners : SF_travVars(JoinerTimer(j))

\* Nobody searches for ever: a joiner's attempt ends, connected or not, and a host sees its code or
\* learns that it hosts by IP, whatever the servers answer and the network loses.
SearchEnds ==
  /\ \A j \in Joiners : w[j].joining ~> ~w[j].joining
  /\ CodeField = "(waiting)" ~> CodeField # "(waiting)"
=============================================================================
