------------------------------ MODULE LobbyProofs ------------------------------
(***************************************************************************)
(* Proofs about what the players of a room do together: the check of       *)
(* their accounts and their memory cards (RoomSetup), and a recorded game  *)
(* they continue (RetryConnect), for any number of players.                *)
(*                                                                         *)
(* Cards: every list of accounts on its way or read, every verdict and     *)
(* every slot of a game only has nicks WE Camp vouched for (Vouched).      *)
(* Windows: what a player will show once it has read what it has not read  *)
(* yet is what the host and the players hold, unless somebody still has    *)
(* to read of a player who came, and will tell it then (Agreed, QInv).     *)
(* Retry-connect: what may be on its way to a player, and in which order   *)
(* (Orderly), so that a NAK is read before the game starts (Refusals); the *)
(* readers move with the emulators, also the state on the server           *)
(* (Anchored); and every player has before it the host's last stop, or has *)
(* been there (Together).                                                  *)
(***************************************************************************)
EXTENDS RoomSetupProps, RetryConnectProps, SequenceTheorems, TLAPS

\* RoomSetup: the accounts' check.

\* The players' check is under way only while a worker has its ticket.
THEOREM SpecChecksEnd == SetupSpec => []ChecksEnd
<1>1. SetupInit => ChecksEnd
  BY DEF SetupInit, ChecksEnd, Checking, Confirmed, NotConfirmed
<1>2. ChecksEnd /\ [SetupNext]_setupVars => ChecksEnd'
  <2> SUFFICES ASSUME ChecksEnd, [SetupNext]_setupVars
               PROVE  ChecksEnd'
    OBVIOUS
  <2> USE DEF Waiting, Checking, Confirmed, NotConfirmed
  <2>1. CASE UNCHANGED <<checks, verifying>>
    BY <2>1 DEF ChecksEnd
  <2>2. ASSUME NEW p \in Nicks, ReadJoin(p)
        PROVE  ChecksEnd'
    <3>1. verifying' = verifying
      BY <2>2 DEF ReadJoin
    <3>2. ASSUME NEW n \in DOMAIN checks', checks'[n] = Checking
          PROVE  n \in DOMAIN checks /\ checks[n] = Checking
      <4>1. CASE checks' = checks
        BY <4>1, <3>2
      <4>2. ASSUME NEW who, checks' = [m \in DOMAIN checks \cup {who} |->
                                         IF m = who THEN Waiting ELSE checks[m]]
            PROVE  n \in DOMAIN checks /\ checks[n] = Checking
        BY <4>2, <3>2
      <4> QED
        BY <2>2, <4>1, <4>2 DEF ReadJoin
    <3> QED
      BY <3>1, <3>2 DEF ChecksEnd
  <2>3. ASSUME NEW p \in Nicks, ReadLeave(p)
        PROVE  ChecksEnd'
    BY <2>3 DEF ChecksEnd, ReadLeave, Restrict
  <2>4. ASSUME NEW p \in Nicks, ReadAnswer(p)
        PROVE  ChecksEnd'
    <3>1. verifying \subseteq verifying'
      BY <2>4 DEF ReadAnswer
    <3>2. ASSUME NEW n \in DOMAIN checks', checks'[n] = Checking, n # Head(inbox[p]).from
          PROVE  n \in DOMAIN checks /\ checks[n] = Checking
      BY <2>4, <3>2 DEF ReadAnswer
    <3>3. ASSUME NEW n \in DOMAIN checks', checks'[n] = Checking, n = Head(inbox[p]).from
          PROVE  \/ n \in DOMAIN checks /\ checks[n] = Checking
                 \/ \E v \in verifying' : v.nick = n
      <4> DEFINE a == Head(inbox[p])
      <4>1. CASE checks' = checks
        BY <4>1, <3>3
      <4>2. CASE verifying' = verifying \cup {[nick |-> a.from, account |-> a.arg]}
        <5>1. [nick |-> a.from, account |-> a.arg] \in verifying'
          BY <4>2
        <5>2. [nick |-> a.from, account |-> a.arg].nick = n
          BY <3>3
        <5> QED
          BY <5>1, <5>2
      <4> QED
        BY <2>4, <4>1, <4>2 DEF ReadAnswer
    <3> QED
      BY <3>1, <3>2, <3>3 DEF ChecksEnd
  <2>5. ASSUME NEW n \in Nicks, CheckTimeout(n)
        PROVE  ChecksEnd'
    BY <2>5 DEF ChecksEnd, CheckTimeout
  <2>6. ASSUME NEW v \in verifying, NEW ok \in BOOLEAN, Verdict(v, ok)
        PROVE  ChecksEnd'
    <3>1. verifying' = verifying \ {v} /\ DOMAIN checks' = DOMAIN checks
      BY <2>6 DEF Verdict
    <3>2. ASSUME NEW n \in DOMAIN checks, checks'[n] = Checking
          PROVE  checks[n] = Checking /\ n # v.nick
      BY <2>6, <3>2 DEF Verdict
    <3> QED
      BY <3>1, <3>2 DEF ChecksEnd
  <2>7. CASE UNCHANGED setupVars
    BY <2>7, <2>1 DEF setupVars, hostVars
  <2>8. ASSUME NEW p \in Nicks,
               \/ Join(p) \/ Leave(p) \/ ReadList(p) \/ ReadChoice(p) \/ ReadTap(p)
               \/ ReadAccounts(p) \/ ReadAsk(p) \/ ReadBegin(p) \/ Answer(p) \/ Tick(p)
        PROVE  ChecksEnd'
    BY <2>8, <2>1 DEF Join, Leave, ReadList, ReadChoice, ReadTap, ReadAccounts, ReadAsk,
                      ReadBegin, Answer, Tick, hostVars
  <2>9. ASSUME NEW p \in Nicks, NEW c \in Wishes, Choose(p, c)
        PROVE  ChecksEnd'
    BY <2>9, <2>1 DEF Choose, hostVars
  <2>10. CASE ToggleTap \/ PressStart \/ IsoAnswer
    BY <2>10, <2>1 DEF ToggleTap, PressStart, IsoAnswer, hostVars
  <2> QED
    BY <2>2, <2>3, <2>4, <2>5, <2>6, <2>7, <2>8, <2>9, <2>10 DEF SetupNext, Read
<1> QED
  BY <1>1, <1>2, PTL DEF SetupSpec

-----------------------------------------------------------------------------
\* RoomSetup: the memory cards.

\* A list of accounts that leaves nobody out of account is one of those WE Camp vouched for.
Honest(s, vouched) ==
  \E L : /\ s \in Seq(L)
         /\ \A l \in L : l.kind = "accounts" => l.arg \subseteq vouched \cup {Host}

\* Accounts are only taken for what WE Camp said: in the host's checks, in the lists on
\* their way, in what the others have read of them and in the slots of a game.
Vouched ==
  /\ \A n \in DOMAIN checks : checks[n] = Confirmed => n \in proved
  /\ DOMAIN accounts = Nicks /\ \A p \in Nicks : accounts[p] \subseteq proved \cup {Host}
  /\ DOMAIN inbox = Nicks /\ \A p \in Nicks : Honest(inbox[p], proved)
  /\ DOMAIN game = Nicks /\ CardsNeedAccount

LEMMA HonestOne ==
  ASSUME NEW l, NEW vouched, l.kind = "accounts" => l.arg \subseteq vouched \cup {Host}
  PROVE  Honest(<<l>>, vouched)
<1>1. PICK L : L = {l}
  OBVIOUS
<1>2. <<l>> \in Seq(L)
  BY <1>1
<1>3. \A m \in L : m.kind = "accounts" => m.arg \subseteq vouched \cup {Host}
  BY <1>1
<1> QED
  BY <1>2, <1>3, Zenon DEF Honest

LEMMA HonestNone == \A vouched : Honest(<<>>, vouched)
<1> SUFFICES ASSUME NEW vouched
             PROVE  Honest(<<>>, vouched)
  OBVIOUS
<1>1. PICK L : L = {}
  OBVIOUS
<1>2. <<>> \in Seq(L)
  OBVIOUS
<1>3. \A m \in L : m.kind = "accounts" => m.arg \subseteq vouched \cup {Host}
  BY <1>1
<1> QED
  BY <1>2, <1>3, Zenon DEF Honest

LEMMA HonestConcat ==
  ASSUME NEW vouched, NEW s, NEW t, Honest(s, vouched), Honest(t, vouched)
  PROVE  Honest(s \o t, vouched)
<1>1. PICK L : s \in Seq(L) /\ \A l \in L : l.kind = "accounts" => l.arg \subseteq vouched \cup {Host}
  BY DEF Honest
<1>2. PICK M : t \in Seq(M) /\ \A l \in M : l.kind = "accounts" => l.arg \subseteq vouched \cup {Host}
  BY DEF Honest
<1>3. s \in Seq(L \cup M) /\ t \in Seq(L \cup M)
  BY <1>1, <1>2
<1>4. s \o t \in Seq(L \cup M)
  BY <1>3
<1>5. \A l \in L \cup M : l.kind = "accounts" => l.arg \subseteq vouched \cup {Host}
  BY <1>1, <1>2
<1> QED
  BY <1>4, <1>5 DEF Honest

LEMMA HonestAppend ==
  ASSUME NEW vouched, NEW s, Honest(s, vouched),
         NEW l, l.kind = "accounts" => l.arg \subseteq vouched \cup {Host}
  PROVE  Honest(Append(s, l), vouched)
<1>1. PICK L : s \in Seq(L) /\ \A m \in L : m.kind = "accounts" => m.arg \subseteq vouched \cup {Host}
  BY DEF Honest
<1>2. PICK M : M = L \cup {l}
  OBVIOUS
<1>3. s \in Seq(M) /\ l \in M
  BY <1>1, <1>2
<1>4. Append(s, l) \in Seq(M)
  BY <1>3
<1>5. \A m \in M : m.kind = "accounts" => m.arg \subseteq vouched \cup {Host}
  BY <1>1, <1>2
<1> QED
  BY <1>4, <1>5, Zenon DEF Honest

LEMMA HonestRest ==
  ASSUME NEW vouched, NEW s, Honest(s, vouched), s # <<>>
  PROVE  /\ Honest(Tail(s), vouched)
         /\ Head(s).kind = "accounts" => Head(s).arg \subseteq vouched \cup {Host}
<1>1. PICK L : s \in Seq(L) /\ \A l \in L : l.kind = "accounts" => l.arg \subseteq vouched \cup {Host}
  BY DEF Honest
<1>2. Tail(s) \in Seq(L) /\ Head(s) \in L
  BY <1>1
<1> QED
  BY <1>1, <1>2 DEF Honest

LEMMA HonestGrows ==
  ASSUME NEW vouched, NEW more, vouched \subseteq more, NEW s, Honest(s, vouched)
  PROVE  Honest(s, more)
<1>1. PICK L : s \in Seq(L) /\ \A l \in L : l.kind = "accounts" => l.arg \subseteq vouched \cup {Host}
  BY DEF Honest
<1>2. \A l \in L : l.kind = "accounts" => l.arg \subseteq more \cup {Host}
  BY <1>1
<1> QED
  BY <1>1, <1>2 DEF Honest

\* What is posted is added to what is honest already.
LEMMA HonestPost ==
  ASSUME Vouched, proved \subseteq proved', NEW p, NEW toHost, NEW toGuests, NEW reading \in BOOLEAN,
         Post(p, toHost, toGuests, reading), reading => inbox[p] # <<>>,
         Honest(toHost, proved'), Honest(toGuests, proved')
  PROVE  DOMAIN inbox' = Nicks /\ \A q \in Nicks : Honest(inbox'[q], proved')
<1>1. DOMAIN inbox' = Nicks
  BY DEF Post
<1>2. ASSUME NEW q \in Nicks
      PROVE  Honest(inbox'[q], proved')
  <2>1. Honest(inbox[q], proved')
    BY HonestGrows DEF Vouched
  <2>2. PICK s : /\ s = IF reading /\ q = p THEN Tail(inbox[q]) ELSE inbox[q]
    OBVIOUS
  <2>3. PICK t : /\ t = IF q \in ToSet(members) /\ ~begun THEN (IF q = Host THEN toHost ELSE toGuests)
                                                          ELSE <<>>
    OBVIOUS
  <2>4. inbox'[q] = s \o t
    BY <2>2, <2>3, <1>2 DEF Post
  <2>5. Honest(s, proved')
    <3>1. CASE reading /\ q = p
      <4>1. Honest(Tail(inbox[q]), proved')
        BY <2>1, <3>1, HonestRest
      <4> QED
        BY <4>1, <3>1, <2>2
    <3>2. CASE ~(reading /\ q = p)
      BY <3>2, <2>1, <2>2
    <3> QED
      BY <3>1, <3>2
  <2>6. Honest(t, proved')
    BY <2>3, HonestNone
  <2> QED
    BY <2>4, <2>5, <2>6, HonestConcat
<1> QED
  BY <1>1, <1>2

\* Every slot with a card in it is of a player whose account is confirmed.
LEMMA SlotsOfConfirmed ==
  ASSUME NEW players, NEW table, NEW confirmed, NEW s \in 1..2,
         GameSlots(players, table, confirmed)[s] # "sem"
  PROVE  players[IF s <= Len(players) THEN s ELSE 1] \in confirmed
<1>1. CASE s = 1
  BY <1>1 DEF GameSlots
<1>2. CASE s = 2
  BY <1>2 DEF GameSlots
<1> QED
  BY <1>1, <1>2

LEMMA VouchedInit == SetupInit => Vouched
<1> SUFFICES ASSUME SetupInit PROVE Vouched
  OBVIOUS
<1>1. \A n \in DOMAIN checks : checks[n] = Confirmed => n \in proved
  BY DEF SetupInit, Confirmed, NotConfirmed
<1>2. DOMAIN accounts = Nicks /\ \A p \in Nicks : accounts[p] \subseteq proved \cup {Host}
  BY DEF SetupInit
<1>3. DOMAIN inbox = Nicks /\ \A p \in Nicks : Honest(inbox[p], proved)
  BY HonestNone DEF SetupInit
<1>4. DOMAIN game = Nicks /\ CardsNeedAccount
  BY DEF SetupInit, CardsNeedAccount
<1> QED
  BY <1>1, <1>2, <1>3, <1>4 DEF Vouched

LEMMA VouchedStep == Vouched /\ [SetupNext]_setupVars => Vouched'
<1> SUFFICES ASSUME Vouched, [SetupNext]_setupVars
             PROVE  Vouched'
  OBVIOUS
<1> USE DEF Waiting, Checking, Confirmed, NotConfirmed
\* Most steps leave the checks and the verdicts, the lists read and the game alone.
<1>a. ASSUME UNCHANGED <<checks, accounts, game, proved>>,
             DOMAIN inbox' = Nicks, \A q \in Nicks : Honest(inbox'[q], proved')
      PROVE  Vouched'
  BY <1>a DEF Vouched, CardsNeedAccount
<1>b. proved \subseteq proved'
  <2>1. ASSUME NEW v \in verifying, NEW ok \in BOOLEAN, Verdict(v, ok)
        PROVE  proved \subseteq proved'
    BY <2>1 DEF Verdict
  <2>2. ASSUME NEW p \in Nicks, Read(p)
        PROVE  proved' = proved
    BY <2>2 DEF Read, ReadList, ReadJoin, ReadLeave, ReadChoice, ReadTap, ReadAccounts, ReadAsk,
                ReadAnswer, ReadBegin
  <2>3. ASSUME NEW p \in Nicks,
               Join(p) \/ Leave(p) \/ Answer(p) \/ Tick(p) \/ CheckTimeout(p)
        PROVE  proved' = proved
    BY <2>3 DEF Join, Leave, Answer, Tick, CheckTimeout
  <2>4. ASSUME NEW p \in Nicks, NEW c \in Wishes, Choose(p, c)
        PROVE  proved' = proved
    BY <2>4 DEF Choose
  <2>5. CASE ToggleTap \/ PressStart \/ IsoAnswer
    BY <2>5 DEF ToggleTap, PressStart, IsoAnswer
  <2>6. CASE UNCHANGED setupVars
    BY <2>6 DEF setupVars
  <2> QED
    BY <2>1, <2>2, <2>3, <2>4, <2>5, <2>6 DEF SetupNext
<1>c. ASSUME NEW kind, kind # "accounts", NEW from, NEW arg
      PROVE  Honest(<<Line(kind, from, arg)>>, proved')
  BY <1>c, HonestOne DEF Line
<1>d. ASSUME NEW kind, NEW p, Reads(p, kind)
      PROVE  inbox[p] # <<>>
  BY <1>d DEF Reads
\* The host's list, made of its own name and the checks that are confirmed.
<1>e. ASSUME NEW S, \A n \in DOMAIN S : S[n] = Confirmed => n \in proved'
      PROVE  Honest(TellAccounts(S), proved')
  BY <1>e, HonestOne DEF TellAccounts, HostAccounts, Line
<1>f. ASSUME NEW p, NEW n
      PROVE  Honest(TapLines(p, n), proved')
  BY <1>c, HonestNone DEF TapLines
<1>g. \A p : Honest(AnnounceOwn(p), proved')
  BY <1>c DEF AnnounceOwn
<1>h. Honest(<<>>, proved')
  BY HonestNone
<1>1. ASSUME NEW p \in Nicks, Join(p)
      PROVE  Vouched'
  <2>1. UNCHANGED <<checks, accounts, game, proved>> /\ DOMAIN inbox' = Nicks
    BY <1>1 DEF Join, hostVars, tableVars
  <2>2. ASSUME NEW q \in Nicks
        PROVE  Honest(inbox'[q], proved')
    <3>1. CASE q = p
      <4>1. inbox'[q] = <<Line("list", "", members), Line("join", p, "")>>
        BY <1>1, <3>1 DEF Join
      <4>2. PICK a, b : a = Line("list", "", members) /\ b = Line("join", p, "")
        OBVIOUS
      <4>3. <<a, b>> = Append(<<a>>, b)
        OBVIOUS
      <4>4. Honest(<<a>>, proved') /\ b.kind = "join"
        BY <4>2, <1>c DEF Line
      <4>5. Honest(Append(<<a>>, b), proved')
        BY <4>4, HonestAppend
      <4>6. inbox'[q] = Append(<<a>>, b)
        BY <4>1, <4>2, <4>3
      <4> QED
        BY <4>5, <4>6
    <3>2. CASE q # p /\ q \in ToSet(members)
      <4>1. Honest(inbox[q], proved')
        BY <2>1 DEF Vouched
      <4>2. inbox'[q] = Append(inbox[q], Line("join", p, ""))
        BY <1>1, <3>2 DEF Join
      <4>3. Line("join", p, "").kind = "join"
        BY DEF Line
      <4> QED
        BY <4>1, <4>2, <4>3, HonestAppend
    <3>3. CASE q # p /\ q \notin ToSet(members)
      BY <1>1, <3>3, <1>h DEF Join
    <3> QED
      BY <3>1, <3>2, <3>3
  <2> QED
    BY <2>1, <2>2, <1>a
<1>2. ASSUME NEW p \in Nicks, Leave(p)
      PROVE  Vouched'
  <2>1. UNCHANGED <<checks, accounts, game, proved>> /\ DOMAIN inbox' = Nicks
    BY <1>2 DEF Leave, hostVars, tableVars
  <2>2. ASSUME NEW q \in Nicks
        PROVE  Honest(inbox'[q], proved')
    <3>1. CASE q \in ToSet(members) \ {p}
      <4>1. Honest(inbox[q], proved')
        BY <2>1 DEF Vouched
      <4>2. inbox'[q] = Append(inbox[q], Line("leave", p, ""))
        BY <1>2, <3>1 DEF Leave
      <4>3. Line("leave", p, "").kind = "leave"
        BY DEF Line
      <4> QED
        BY <4>1, <4>2, <4>3, HonestAppend
    <3>2. CASE q \notin ToSet(members) \ {p}
      BY <1>2, <3>2, <1>h DEF Leave
    <3> QED
      BY <3>1, <3>2
  <2> QED
    BY <2>1, <2>2, <1>a
<1>3. ASSUME NEW p \in Nicks, ReadList(p)
      PROVE  Vouched'
  <2>1. UNCHANGED <<checks, game, proved>> /\ accounts' = [accounts EXCEPT ![p] = {}]
    BY <1>3 DEF ReadList, hostVars
  <2>2. DOMAIN inbox' = Nicks /\ \A q \in Nicks : Honest(inbox'[q], proved')
    BY <1>3, <1>b, <1>d, <1>h, HonestPost DEF ReadList, PostAll
  <2> QED
    BY <2>1, <2>2 DEF Vouched, CardsNeedAccount
<1>4. ASSUME NEW p \in Nicks, ReadJoin(p)
      PROVE  Vouched'
  <2>1. UNCHANGED <<accounts, game, proved>>
    BY <1>4 DEF ReadJoin
  <2>2. PICK n, ask, tell :
             /\ Post(p, AnnounceOwn(p), TapLines(p, n) \o tell \o ask \o AnnounceOwn(p), TRUE)
             /\ tell = IF p = Host THEN TellAccounts(checks) \o <<Line("tap", p, TapAfter(p, n))>>
                       ELSE <<>>
             /\ ask = <<Line("ask", p, "")>> \/ ask = <<>>
    BY <1>4 DEF ReadJoin
  <2>3. Honest(ask, proved')
    BY <2>2, <1>c, <1>h
  <2>4. Honest(TellAccounts(checks), proved')
    BY <1>b, <1>e DEF Vouched
  <2>5. Honest(tell, proved')
    BY <2>2, <2>4, <1>c, <1>h, HonestConcat
  <2>6. Honest(TapLines(p, n) \o tell \o ask \o AnnounceOwn(p), proved')
    BY <2>3, <2>5, <1>f, <1>g, HonestConcat
  <2>7. DOMAIN inbox' = Nicks /\ \A q \in Nicks : Honest(inbox'[q], proved')
    BY <1>4, <2>2, <2>6, <1>b, <1>d, <1>g, HonestPost DEF ReadJoin
  <2>8. \A m \in DOMAIN checks' : checks'[m] = Confirmed => m \in proved'
    <3> SUFFICES ASSUME NEW m \in DOMAIN checks', checks'[m] = Confirmed
                 PROVE  m \in DOMAIN checks /\ checks[m] = Confirmed
      BY <2>1 DEF Vouched
    <3>1. CASE checks' = checks
      BY <3>1
    <3>2. ASSUME NEW who, checks' = [x \in DOMAIN checks \cup {who} |->
                                       IF x = who THEN Waiting ELSE checks[x]]
          PROVE  m \in DOMAIN checks /\ checks[m] = Confirmed
      BY <3>2
    <3> QED
      BY <1>4, <3>1, <3>2 DEF ReadJoin
  <2> QED
    BY <2>1, <2>7, <2>8 DEF Vouched, CardsNeedAccount
<1>5. ASSUME NEW p \in Nicks, ReadLeave(p)
      PROVE  Vouched'
  <2>1. UNCHANGED <<accounts, game, proved>>
    BY <1>5 DEF ReadLeave
  <2>2. \A m \in DOMAIN checks' : checks'[m] = Confirmed => m \in proved'
    BY <1>5 DEF ReadLeave, Restrict, Vouched
  <2>3. PICK n : Post(p, <<>>, TapLines(p, n) \o (IF p = Host THEN TellAccounts(checks') ELSE <<>>), TRUE)
    BY <1>5 DEF ReadLeave
  <2>4. Honest(TellAccounts(checks'), proved')
    BY <2>2, <1>e
  <2>5. PICK tell : tell = IF p = Host THEN TellAccounts(checks') ELSE <<>>
    OBVIOUS
  <2>6. Honest(TapLines(p, n) \o tell, proved')
    BY <2>4, <2>5, <1>f, <1>h, HonestConcat
  <2>7. DOMAIN inbox' = Nicks /\ \A q \in Nicks : Honest(inbox'[q], proved')
    BY <1>5, <2>3, <2>5, <2>6, <1>b, <1>d, <1>h, HonestPost DEF ReadLeave
  <2> QED
    BY <2>1, <2>2, <2>7 DEF Vouched, CardsNeedAccount
<1>6. ASSUME NEW p \in Nicks, ReadChoice(p) \/ ReadTap(p) \/ ReadAsk(p)
      PROVE  Vouched'
  <2>1. UNCHANGED <<checks, accounts, game, proved>>
    BY <1>6 DEF ReadChoice, ReadTap, ReadAsk, hostVars
  <2>2. DOMAIN inbox' = Nicks /\ \A q \in Nicks : Honest(inbox'[q], proved')
    BY <1>6, <1>b, <1>d, <1>h, HonestPost DEF ReadChoice, ReadTap, ReadAsk, PostAll
  <2> QED
    BY <2>1, <2>2, <1>a
<1>7. ASSUME NEW p \in Nicks, ReadAccounts(p)
      PROVE  Vouched'
  <2>1. UNCHANGED <<checks, game, proved>> /\ accounts' = [accounts EXCEPT ![p] = Head(inbox[p]).arg]
    BY <1>7 DEF ReadAccounts, hostVars
  <2>2. DOMAIN inbox' = Nicks /\ \A q \in Nicks : Honest(inbox'[q], proved')
    BY <1>7, <1>b, <1>d, <1>h, HonestPost DEF ReadAccounts, PostAll
  <2>3. Head(inbox[p]).arg \subseteq proved \cup {Host}
    BY <1>7, <1>d, HonestRest DEF ReadAccounts, Reads, Vouched
  <2> QED
    BY <2>1, <2>2, <2>3 DEF Vouched, CardsNeedAccount
<1>8. ASSUME NEW p \in Nicks, ReadAnswer(p)
      PROVE  Vouched'
  <2>1. UNCHANGED <<accounts, game, proved>>
    BY <1>8 DEF ReadAnswer, tableVars
  <2>2. DOMAIN inbox' = Nicks /\ \A q \in Nicks : Honest(inbox'[q], proved')
    BY <1>8, <1>b, <1>d, <1>h, HonestPost DEF ReadAnswer, PostAll
  <2>3. \A m \in DOMAIN checks' : checks'[m] = Confirmed => m \in DOMAIN checks /\ checks[m] = Confirmed
    BY <1>8 DEF ReadAnswer
  <2> QED
    BY <2>1, <2>2, <2>3 DEF Vouched, CardsNeedAccount
<1>9. ASSUME NEW p \in Nicks, ReadBegin(p)
      PROVE  Vouched'
  <2>1. /\ UNCHANGED <<checks, accounts, proved>>
        /\ game' = [game EXCEPT ![p] = [slots |-> SlotsOf(p), tap |-> tapOn[p], players |-> roster[p]]]
    BY <1>9 DEF ReadBegin, hostVars, tableVars
  <2>2. DOMAIN inbox' = Nicks /\ \A q \in Nicks : Honest(inbox'[q], proved')
    BY <1>9, <1>b, <1>d, <1>h, HonestPost DEF ReadBegin, PostAll
  <2>3. CurrentAccounts(p) \subseteq proved \cup {Host}
    BY DEF CurrentAccounts, HostAccounts, Vouched
  <2>4. \A s \in 1..2 : SlotsOf(p)[s] # "sem" =>
          roster[p][IF s <= Len(roster[p]) THEN s ELSE 1] \in proved \cup {Host}
    BY <2>3, SlotsOfConfirmed DEF SlotsOf
  <2>5. CardsNeedAccount'
    <3> SUFFICES ASSUME NEW q \in Nicks, game'[q] # <<>>, NEW s \in 1..2, game'[q].slots[s] # "sem"
                 PROVE  game'[q].players[IF s <= Len(game'[q].players) THEN s ELSE 1]
                          \in proved' \cup {Host}
      BY DEF CardsNeedAccount
    <3>1. CASE q = p
      <4>1. game'[q].slots = SlotsOf(p) /\ game'[q].players = roster[p]
        BY <2>1, <3>1 DEF Vouched
      <4> QED
        BY <4>1, <2>1, <2>4
    <3>2. CASE q # p
      BY <2>1, <3>2 DEF Vouched, CardsNeedAccount
    <3> QED
      BY <3>1, <3>2
  <2> QED
    BY <2>1, <2>2, <2>5 DEF Vouched
<1>10. ASSUME NEW p \in Nicks, Answer(p)
       PROVE  Vouched'
  <2>1. UNCHANGED <<checks, accounts, game, proved>>
    BY <1>10 DEF Answer, hostVars, tableVars
  <2>2. DOMAIN inbox' = Nicks /\ \A q \in Nicks : Honest(inbox'[q], proved')
    <3>1. CASE UNCHANGED inbox
      BY <3>1, <2>1 DEF Vouched
    <3>2. ASSUME NEW arg, Post(p, <<Line("answer", p, arg)>>, <<>>, FALSE)
          PROVE  DOMAIN inbox' = Nicks /\ \A q \in Nicks : Honest(inbox'[q], proved')
      BY <3>2, <1>b, <1>c, <1>h, HonestPost
    <3> QED
      BY <1>10, <3>1, <3>2 DEF Answer
  <2> QED
    BY <2>1, <2>2, <1>a
<1>11. ASSUME NEW p \in Nicks, Tick(p) \/ \E c \in Wishes : Choose(p, c)
       PROVE  Vouched'
  <2>1. UNCHANGED <<checks, accounts, game, proved>>
    BY <1>11 DEF Tick, Choose, hostVars
  <2>2. \/ PostAll(p, AnnounceOwn(p), FALSE)
        \/ \E c : PostAll(p, <<Line("choice", p, c)>>, FALSE)
    BY <1>11 DEF Tick, Choose
  <2>3. DOMAIN inbox' = Nicks /\ \A q \in Nicks : Honest(inbox'[q], proved')
    BY <2>2, <1>b, <1>c, <1>g, HonestPost DEF PostAll
  <2> QED
    BY <2>1, <2>3, <1>a
<1>12. ASSUME NEW n \in Nicks, CheckTimeout(n)
       PROVE  Vouched'
  BY <1>12 DEF CheckTimeout, Vouched, CardsNeedAccount, tableVars
<1>13. ASSUME NEW v \in verifying, NEW ok \in BOOLEAN, Verdict(v, ok)
       PROVE  Vouched'
  <2>1. UNCHANGED <<accounts, game>>
    BY <1>13 DEF Verdict, tableVars
  <2>2. \A m \in DOMAIN checks' : checks'[m] = Confirmed => m \in proved'
    <3> SUFFICES ASSUME NEW m \in DOMAIN checks', checks'[m] = Confirmed
                 PROVE  m \in proved'
      OBVIOUS
    <3>1. CASE m = v.nick /\ checks' # checks
      BY <1>13, <3>1 DEF Verdict
    <3>2. CASE m # v.nick \/ checks' = checks
      BY <1>13, <3>2, <1>b DEF Verdict, Vouched
    <3> QED
      BY <3>1, <3>2
  <2>3. \/ UNCHANGED inbox
        \/ Post(Host, <<>>, TellAccounts(checks'), FALSE)
    BY <1>13 DEF Verdict
  <2>4. DOMAIN inbox' = Nicks /\ \A q \in Nicks : Honest(inbox'[q], proved')
    <3>1. CASE UNCHANGED inbox
      BY <3>1, <1>b, HonestGrows DEF Vouched
    <3>2. CASE Post(Host, <<>>, TellAccounts(checks'), FALSE)
      BY <3>2, <2>2, <1>b, <1>e, <1>h, HonestPost
    <3> QED
      BY <2>3, <3>1, <3>2
  <2> QED
    BY <2>1, <2>2, <2>4, <1>b DEF Vouched, CardsNeedAccount
<1>14. CASE ToggleTap \/ PressStart \/ IsoAnswer
  <2>1. UNCHANGED <<checks, accounts, game, proved>>
    BY <1>14 DEF ToggleTap, PressStart, IsoAnswer, hostVars, tableVars
  <2>2. \/ UNCHANGED inbox
        \/ \E b : Post(Host, <<>>, <<Line("tap", Host, b)>>, FALSE)
        \/ PostAll(Host, <<Line("begin", "", "")>>, FALSE)
    BY <1>14 DEF ToggleTap, PressStart, IsoAnswer, StartGame
  <2>3. DOMAIN inbox' = Nicks /\ \A q \in Nicks : Honest(inbox'[q], proved')
    <3>1. CASE UNCHANGED inbox
      BY <3>1, <2>1 DEF Vouched
    <3>2. CASE \E b : Post(Host, <<>>, <<Line("tap", Host, b)>>, FALSE)
      BY <3>2, <1>b, <1>c, <1>h, HonestPost
    <3>3. CASE PostAll(Host, <<Line("begin", "", "")>>, FALSE)
      BY <3>3, <1>b, <1>c, HonestPost DEF PostAll
    <3> QED
      BY <2>2, <3>1, <3>2, <3>3
  <2> QED
    BY <2>1, <2>3, <1>a
<1>15. CASE UNCHANGED setupVars
  BY <1>15 DEF Vouched, CardsNeedAccount, setupVars, hostVars, tableVars
<1> QED
  BY <1>1, <1>2, <1>3, <1>4, <1>5, <1>6, <1>7, <1>8, <1>9, <1>10, <1>11, <1>12, <1>13, <1>14, <1>15
     DEF SetupNext, Read

\* A card is only played with if WE Camp vouched for the very nick, for every number of
\* players, choices and changes.
THEOREM SpecCardsNeedAccount == SetupSpec => []CardsNeedAccount
<1>1. Vouched => CardsNeedAccount
  BY DEF Vouched
<1> QED
  BY <1>1, VouchedInit, VouchedStep, PTL DEF SetupSpec

-----------------------------------------------------------------------------
\* RetryConnect.

IsSeq(s) == \E L : s \in Seq(L)

\* s became t: its first d elements were taken and m was added k times.
Moves(s, t, d, k, m) ==
  /\ IsSeq(t) /\ Len(s) \in Nat /\ Len(t) \in Nat /\ Len(t) = Len(s) - d + k
  /\ \A i \in 1..Len(s) - d : t[i] = s[i + d]
  /\ k = 1 => t[Len(t)] = m

LEMMA SeqLength == ASSUME NEW s, IsSeq(s) PROVE Len(s) \in Nat /\ (s = <<>> <=> Len(s) = 0)
<1>1. PICK L : s \in Seq(L)
  BY DEF IsSeq
<1> QED
  BY <1>1, EmptySeq

LEMMA SeqAppends ==
  ASSUME NEW s, IsSeq(s), NEW m
  PROVE  /\ IsSeq(Append(s, m)) /\ Len(s) \in Nat /\ Len(Append(s, m)) = Len(s) + 1
         /\ \A i \in 1..Len(s) : Append(s, m)[i] = s[i]
         /\ Append(s, m)[Len(s) + 1] = m
<1>1. PICK L : s \in Seq(L)
  BY DEF IsSeq
<1>2. PICK M : M = L \cup {m}
  OBVIOUS
<1>3. s \in Seq(M) /\ m \in M
  BY <1>1, <1>2
<1>4. Append(s, m) \in Seq(M)
  BY <1>3
<1> QED
  BY <1>3, <1>4, AppendProperties DEF IsSeq

LEMMA SeqTails ==
  ASSUME NEW s, IsSeq(s), s # <<>>
  PROVE  /\ IsSeq(Tail(s)) /\ Len(s) \in Nat /\ Len(s) > 0 /\ Len(Tail(s)) = Len(s) - 1
         /\ \A i \in 1..Len(s) - 1 : Tail(s)[i] = s[i + 1]
         /\ Head(s) = s[1]
<1>1. PICK L : s \in Seq(L)
  BY DEF IsSeq
<1>2. Len(s) \in Nat /\ Len(s) > 0
  BY <1>1, EmptySeq
<1>3. Tail(s) \in Seq(L) /\ Head(s) = s[1]
  BY <1>1, HeadTailProperties
<1>4. Len(Tail(s)) = Len(s) - 1 /\ \A i \in 1..Len(s) - 1 : Tail(s)[i] = s[i + 1]
  BY <1>1, <1>2, HeadTailProperties
<1> QED
  BY <1>2, <1>3, <1>4 DEF IsSeq

LEMMA SeqMoves ==
  ASSUME NEW s, IsSeq(s), NEW out \in BOOLEAN, NEW in \in BOOLEAN, NEW m, out => s # <<>>, NEW t,
         t = IF in THEN Append(IF out THEN Tail(s) ELSE s, m) ELSE IF out THEN Tail(s) ELSE s
  PROVE  Moves(s, t, IF out THEN 1 ELSE 0, IF in THEN 1 ELSE 0, m)
<1>1. PICK r : r = IF out THEN Tail(s) ELSE s
  OBVIOUS
<1>d. PICK d \in {0, 1} : d = IF out THEN 1 ELSE 0
  OBVIOUS
<1>k. PICK k \in {0, 1} : k = IF in THEN 1 ELSE 0
  OBVIOUS
<1>2. IsSeq(r) /\ Len(s) \in Nat /\ Len(r) \in Nat
  BY <1>1, SeqTails, SeqLength
<1>3. Len(r) = Len(s) - d
  BY <1>1, <1>d, SeqTails, SeqLength
<1>4. \A i \in 1..Len(r) : r[i] = s[i + d]
  BY <1>1, <1>3, <1>d, SeqTails, SeqLength
<1>5. CASE in
  <2>1. t = Append(r, m)
    BY <1>1, <1>5
  <2>2. /\ IsSeq(Append(r, m)) /\ Len(Append(r, m)) = Len(r) + 1
        /\ \A i \in 1..Len(r) : Append(r, m)[i] = r[i]
        /\ Append(r, m)[Len(r) + 1] = m
    BY <1>2, SeqAppends
  <2>3. IsSeq(t) /\ Len(t) = Len(r) + 1 /\ (\A i \in 1..Len(r) : t[i] = r[i]) /\ t[Len(r) + 1] = m
    BY <2>1, <2>2, Zenon
  <2>4. k = 1 /\ Len(t) = Len(s) - d + k /\ Len(t) \in Nat
    BY <1>2, <1>3, <1>5, <1>k, <2>3
  <2>5. \A i \in 1..Len(s) - d : t[i] = s[i + d]
    BY <1>3, <1>4, <2>3
  <2>6. Moves(s, t, d, k, m)
    BY <1>2, <2>3, <2>4, <2>5 DEF Moves
  <2> QED
    BY <2>6, <1>d, <1>k
<1>6. CASE ~in
  <2>1. t = r
    BY <1>1, <1>6
  <2>2. k = 0 /\ IsSeq(t) /\ Len(t) = Len(r)
    BY <1>2, <1>6, <1>k, <2>1
  <2>3. k = 0 /\ IsSeq(t) /\ Len(t) \in Nat /\ Len(t) = Len(s) - d + k
    BY <1>2, <1>3, <2>2
  <2>4. \A i \in 1..Len(s) - d : t[i] = s[i + d]
    BY <1>3, <1>4, <2>1
  <2>5. Moves(s, t, d, k, m)
    BY <1>2, <2>3, <2>4 DEF Moves
  <2> QED
    BY <2>5, <1>d, <1>k
<1> QED
  BY <1>5, <1>6

LEMMA MinOfTwo ==
  ASSUME NEW a \in Int, NEW b \in Int
  PROVE  Min({a, b}) = IF a <= b THEN a ELSE b
BY DEF Min

-----------------------------------------------------------------------------
FaultKinds == {"recording", "recording cut", "state", "state cut"}

RetryTypes ==
  /\ stage \in [Players -> {"room", "ready", "run"}]
  /\ active \in [Players -> BOOLEAN] /\ paused \in [Players -> BOOLEAN]
  /\ total \in [Players -> Int] /\ pos \in [Players -> Int]
  /\ DOMAIN mailbox = Players /\ DOMAIN held = Players
  /\ DOMAIN played = Players /\ \A p \in Players : IsSeq(played[p])
  /\ DOMAIN wire = Players /\ \A p \in Players : IsSeq(wire[p])
  /\ stored.frame \in Int /\ IsSeq(stored.state)
  /\ readies \subseteq Players /\ lost \subseteq Players /\ faults \in Seq(FaultKinds)

Is(p, i, type) == wire[p][i].type = type

\* What may be on its way to a player, and in which order.
Orderly(p) ==
  /\ p \in readies <=> stage[p] # "room"
  /\ \A i \in 1..Len(wire[p]) :
       /\ Is(p, i, "select") => i = 1 /\ p # Chooser /\ stage[p] = "room" /\ ~active[p] /\ p \notin refused
       /\ Is(p, i, "begin") => stage[p] = "room" /\ (i = 1 \/ (i = 2 /\ Is(p, 1, "select")))
       /\ Is(p, i, "allReady") => readies = Players /\ stage[p] = "ready"
       /\ \A j \in 1..Len(wire[p]) : Is(p, i, "allReady") /\ Is(p, j, "allReady") => i = j
       /\ Is(p, i, "control") => p # Chooser
  /\ stage[p] = "run" => readies = Players
  /\ stage[p] = "room" => played[p] = <<>>
  /\ p = Chooser /\ stage[p] = "room" /\ Len(wire[p]) > 0 => Is(p, 1, "begin")

Begun == stage[Chooser] # "room" \/ Len(wire[Chooser]) > 0
Fresh(p) == stage[p] = "room" /\ Len(wire[p]) = 0 /\ ~active[p]

\* A NAK reaches p before the server lets it run.
NakComes(p) == /\ stage[p] # "run"
               /\ \E i \in 1..Len(wire[p]) : /\ Is(p, i, "nak")
                                             /\ \A j \in 1..i - 1 : ~Is(p, j, "allReady")

Refusals ==
  /\ \A p \in Players : Orderly(p)
  /\ ~Begun => refused = {} /\ \A p \in Players : Fresh(p)
  /\ refused # {} => \A p \in Players :
       active[p] \/ (Len(wire[p]) > 0 /\ Is(p, 1, "select")) => NakComes(p)

LEMMA RetryTypesInit == RetryInit => RetryTypes
<1>1. <<>> \in Seq({})
  OBVIOUS
<1>2. IsSeq(<<>>)
  BY <1>1, Zenon DEF IsSeq
<1> QED
  BY <1>2 DEF RetryInit, RetryTypes, NoState

LEMMA RefusalsInit == RetryInit => Refusals
<1>1. Chooser \in Players
  BY DEF Players
<1> QED
  BY <1>1 DEF RetryInit, Refusals, Orderly, Fresh, Begun, Is

\* The players in out have read a message, m was put on its way to those in `in`.
Wires(out, in, m) ==
  DOMAIN wire' = Players /\ \A q \in Players : Moves(wire[q], wire'[q], IF q \in out THEN 1 ELSE 0, IF q \in in THEN 1 ELSE 0, m)

LEMMA WireMoves ==
  ASSUME RetryTypes, NEW out \in SUBSET Players, NEW in \in SUBSET Players, NEW m,
         \A q \in out : wire[q] # <<>>, DOMAIN wire' = Players,
         \A q \in Players :
           wire'[q] = IF q \in in THEN Append(IF q \in out THEN Tail(wire[q]) ELSE wire[q], m)
                      ELSE IF q \in out THEN Tail(wire[q]) ELSE wire[q]
  PROVE  Wires(out, in, m)
<1> SUFFICES ASSUME NEW q \in Players
             PROVE  Moves(wire[q], wire'[q], IF q \in out THEN 1 ELSE 0, IF q \in in THEN 1 ELSE 0, m)
  BY DEF Wires
<1>1. PICK s, t : s = wire[q] /\ t = wire'[q]
  OBVIOUS
<1>o. PICK o \in BOOLEAN : o <=> q \in out
  OBVIOUS
<1>i. PICK i \in BOOLEAN : i <=> q \in in
  OBVIOUS
<1>2. s = wire[q] /\ t = wire'[q] /\ (o <=> q \in out) /\ (i <=> q \in in)
  BY <1>1, <1>o, <1>i
<1>3. IsSeq(s) /\ (o => s # <<>>)
  BY <1>2 DEF RetryTypes
<1>4. t = IF i THEN Append(IF o THEN Tail(s) ELSE s, m) ELSE IF o THEN Tail(s) ELSE s
  BY <1>2
<1>5. Moves(s, t, IF o THEN 1 ELSE 0, IF i THEN 1 ELSE 0, m)
  BY <1>3, <1>4, SeqMoves
<1> QED
  BY <1>2, <1>5

LEMMA WiresPop ==
  ASSUME RetryTypes, NEW p \in Players, wire[p] # <<>>, wire' = Pop(p)
  PROVE  DOMAIN wire' = Players /\ \A m : Wires({p}, {}, m)
<1>1. DOMAIN wire' = Players
  BY DEF Pop, RetryTypes
<1>2. ASSUME NEW m PROVE Wires({p}, {}, m)
  BY <1>1, WireMoves DEF Pop, RetryTypes
<1> QED
  BY <1>1, <1>2

LEMMA WiresPopDeliver ==
  ASSUME RetryTypes, NEW p \in Players, wire[p] # <<>>, NEW in \in SUBSET Players, NEW m,
         wire' = Deliver(Pop(p), in, m)
  PROVE  DOMAIN wire' = Players /\ Wires({p}, in, m)
<1>1. DOMAIN wire' = Players
  BY DEF Deliver
<1>2. ASSUME NEW q \in Players
      PROVE wire'[q] = IF q \in in THEN Append(IF q \in {p} THEN Tail(wire[q]) ELSE wire[q], m)
                      ELSE IF q \in {p} THEN Tail(wire[q]) ELSE wire[q]
  BY DEF Pop, Deliver, RetryTypes
<1> QED
  BY <1>1, <1>2, WireMoves

LEMMA WiresDeliver ==
  ASSUME RetryTypes, NEW in \in SUBSET Players, NEW m, wire' = Deliver(wire, in, m)
  PROVE  DOMAIN wire' = Players /\ Wires({}, in, m)
<1>1. DOMAIN wire' = Players
  BY DEF Deliver
<1>2. ASSUME NEW q \in Players
      PROVE wire'[q] = IF q \in in THEN Append(IF q \in {} THEN Tail(wire[q]) ELSE wire[q], m)
                      ELSE IF q \in {} THEN Tail(wire[q]) ELSE wire[q]
  BY DEF Deliver
<1> QED
  BY <1>1, <1>2, WireMoves

\* What each step of the game does to the wires.
LEMMA RetryWires ==
  ASSUME RetryTypes
  PROVE  /\ \A p \in Players : ReadSelect(p) =>
              \/ refused' = refused /\ Select(p) /\ Wires({p}, {}, None)
              \/ /\ refused' = refused \cup {p} /\ Wires({p}, Players \ {p}, Plain("nak"))
                 /\ UNCHANGED <<active, total, pos, held, mailbox>>
                 /\ Fault("recording")
         /\ \A p \in Players : ReadGameBegin(p) =>
              \/ readies' = Players /\ Wires({p}, Players, Plain("allReady"))
              \/ readies' # Players /\ Wires({p}, {}, None)
         /\ \A p \in Players : ReadAllReady(p) \/ ReadNak(p) \/ ReadControl(p) => Wires({p}, {}, None)
         /\ HostPause \/ HostRewind =>
              \E done \in BOOLEAN :
                /\ Put(done, pos'[Chooser], played'[Chooser])
                /\ Wires({}, Peers, Control(IF done THEN "stateReady" ELSE "pause", pos'[Chooser]))
         /\ HostResume => \E f : Wires({}, Peers, Control("resume", f))
         /\ HostGoesLive => \E f : Wires({}, Peers, Control("goLive", f))
<1> USE DEF Players
<1>1. ASSUME NEW p \in Players, ReadSelect(p)
      PROVE  \/ refused' = refused /\ Select(p) /\ Wires({p}, {}, None)
             \/ /\ refused' = refused \cup {p} /\ Wires({p}, Players \ {p}, Plain("nak"))
                /\ UNCHANGED <<active, total, pos, held, mailbox>>
                /\ Fault("recording")
  <2>1. wire[p] # <<>>
    BY <1>1 DEF ReadSelect, Arrives
  <2>2. CASE wire' = Pop(p) /\ refused' = refused /\ Select(p)
    BY <2>1, <2>2, WiresPop
  <2>3. CASE /\ wire' = Deliver(Pop(p), Players \ {p}, Plain("nak")) /\ refused' = refused \cup {p}
             /\ UNCHANGED <<active, total, pos, held, mailbox>> /\ Fault("recording")
    <3>1. Wires({p}, Players \ {p}, Plain("nak"))
      BY <2>1, <2>3, WiresPopDeliver
    <3> QED
      BY <3>1, <2>3
  <2> QED
    BY <1>1, <2>2, <2>3 DEF ReadSelect
<1>2. ASSUME NEW p \in Players, ReadGameBegin(p)
      PROVE  \/ readies' = Players /\ Wires({p}, Players, Plain("allReady"))
             \/ readies' # Players /\ Wires({p}, {}, None)
  <2>1. wire[p] # <<>>
    BY <1>2 DEF ReadGameBegin, Arrives
  <2>2. CASE readies' = Players
    <3>1. wire' = Deliver(Pop(p), Players, Plain("allReady"))
      BY <1>2, <2>2 DEF ReadGameBegin
    <3> QED
      BY <2>1, <2>2, <3>1, WiresPopDeliver
  <2>3. CASE readies' # Players
    <3>1. wire' = Pop(p)
      BY <1>2, <2>3 DEF ReadGameBegin
    <3> QED
      BY <2>1, <2>3, <3>1, WiresPop
  <2> QED
    BY <2>2, <2>3
<1>3. ASSUME NEW p \in Players, ReadAllReady(p) \/ ReadNak(p) \/ ReadControl(p)
      PROVE  Wires({p}, {}, None)
  <2>1. wire[p] # <<>> /\ wire' = Pop(p)
    BY <1>3 DEF ReadAllReady, ReadNak, ReadControl, Arrives
  <2> QED
    BY <2>1, WiresPop
<1>4. ASSUME HostPause \/ HostRewind
      PROVE  \E done \in BOOLEAN :
                /\ Put(done, pos'[Chooser], played'[Chooser])
                /\ Wires({}, Peers, Control(IF done THEN "stateReady" ELSE "pause", pos'[Chooser]))
  <2>1. PICK done \in BOOLEAN :
          /\ Put(done, pos'[Chooser], played'[Chooser])
          /\ wire' = Deliver(wire, Peers, Control(IF done THEN "stateReady" ELSE "pause", pos'[Chooser]))
    BY <1>4 DEF HostPause, HostRewind, UploadState
  <2>2. Wires({}, Peers, Control(IF done THEN "stateReady" ELSE "pause", pos'[Chooser]))
    BY <2>1, WiresDeliver
  <2> QED
    BY <2>1, <2>2
<1>5. ASSUME HostResume
      PROVE  \E f : Wires({}, Peers, Control("resume", f))
  <2>1. wire' = Deliver(wire, Peers, Control("resume", pos[Chooser]))
    BY <1>5 DEF HostResume, Tell
  <2> QED
    BY <2>1, WiresDeliver
<1>6. ASSUME HostGoesLive
      PROVE  \E f : Wires({}, Peers, Control("goLive", f))
  <2>1. wire' = Deliver(wire, Peers, Control("goLive", pos[Chooser]))
    BY <1>6 DEF HostGoesLive, Tell
  <2> QED
    BY <2>1, WiresDeliver
<1> QED
  BY <1>1, <1>2, <1>3, <1>4, <1>5, <1>6

LEMMA FaultTypes ==
  ASSUME RetryTypes, NEW what \in FaultKinds, Fault(what)
  PROVE  faults' \in Seq(FaultKinds)
BY AppendProperties DEF Fault, RetryTypes

LEMMA SelectTypes ==
  ASSUME RetryTypes, NEW p \in Players, Select(p)
  PROVE  /\ active' \in [Players -> BOOLEAN] /\ total' \in [Players -> Int] /\ pos' \in [Players -> Int]
         /\ DOMAIN mailbox' = Players /\ DOMAIN held' = Players /\ faults' \in Seq(FaultKinds)
<1>1. active' \in [Players -> BOOLEAN] /\ pos' \in [Players -> Int]
  BY DEF Select, RetryTypes
<1>2. DOMAIN mailbox' = Players /\ DOMAIN held' = Players
  BY DEF Select, RetryTypes
<1>3. total' \in [Players -> Int]
  <2>1. Frames \in Nat
    BY RetryAssumption
  <2>2. \/ total' = [total EXCEPT ![p] = Frames]
        \/ \E n \in 0..Frames - 1 : total' = [total EXCEPT ![p] = n]
    BY DEF Select, DownloadReplay
  <2>3. \E n \in Int : total' = [total EXCEPT ![p] = n]
    BY <2>1, <2>2
  <2> QED
    BY <2>3 DEF RetryTypes
<1>4. faults' \in Seq(FaultKinds)
  <2>1. faults' = faults \/ Fault("recording cut")
    BY DEF Select, DownloadReplay, Succeeds
  <2>2. faults \in Seq(FaultKinds) /\ "recording cut" \in FaultKinds
    BY DEF RetryTypes, FaultKinds
  <2> QED
    BY <2>1, <2>2, FaultTypes
<1> QED
  BY <1>1, <1>2, <1>3, <1>4

LEMMA RetryTypesStep == RetryTypes /\ [RetryNext]_retryVars => RetryTypes'
<1> SUFFICES ASSUME RetryTypes, [RetryNext]_retryVars
             PROVE  RetryTypes'
  OBVIOUS
<1>w. ASSUME NEW out, NEW in, NEW m, Wires(out, in, m)
      PROVE  DOMAIN wire' = Players /\ \A q \in Players : IsSeq(wire'[q])
  BY <1>w DEF Wires, Moves
<1>1. Chooser \in Players /\ Peers \subseteq Players
  BY DEF Players
<1>2. CASE HostSelect
  <2>1. DOMAIN wire' = Players
    BY <1>2 DEF HostSelect, Deliver
  <2>2. ASSUME NEW q \in Players
        PROVE  IsSeq(wire'[q])
    <3>1. PICK w : w = Deliver(wire, Peers, Plain("select"))
      OBVIOUS
    <3>2. IsSeq(w[q])
      BY <3>1, SeqAppends DEF Deliver, RetryTypes
    <3>3. wire'[q] = Append(w[q], Plain("begin"))
      BY <1>2, <3>1 DEF HostSelect, Deliver
    <3> QED
      BY <3>2, <3>3, SeqAppends
  <2>3. Select(Chooser)
    BY <1>2 DEF HostSelect
  <2>4. UNCHANGED <<stage, paused, played, stored, readies, lost>>
    BY <1>2 DEF HostSelect, retryFrontend
  <2> QED
    BY <1>1, <2>1, <2>2, <2>3, <2>4, SelectTypes DEF RetryTypes
<1>3. CASE HostPause \/ HostRewind
  <2>1. DOMAIN wire' = Players /\ \A q \in Players : IsSeq(wire'[q])
    BY <1>3, <1>w, RetryWires
  <2>2. PICK done \in BOOLEAN : Put(done, pos'[Chooser], played'[Chooser])
    BY <1>3, RetryWires
  <2>3. paused' \in [Players -> BOOLEAN] /\ pos' \in [Players -> Int] /\ DOMAIN played' = Players
    <3>1. paused' \in [Players -> BOOLEAN] /\ DOMAIN played' = Players
      BY <1>1, <1>3 DEF HostPause, HostRewind, RetryTypes
    <3>2. PICK x : x = pos[Chooser]
      OBVIOUS
    <3>3. x \in Int
      BY <1>1, <3>2 DEF RetryTypes
    <3>4. pos' = pos \/ \E f \in 0..x : pos' = [pos EXCEPT ![Chooser] = f]
      BY <1>3, <3>2 DEF HostPause, HostRewind
    <3>5. pos' = pos \/ \E f \in Int : pos' = [pos EXCEPT ![Chooser] = f]
      BY <3>3, <3>4
    <3> QED
      BY <3>1, <3>5 DEF RetryTypes
  <2>4. \A q \in Players : IsSeq(played'[q])
    <3>1. CASE HostPause
      BY <3>1 DEF HostPause, RetryTypes
    <3>2. CASE HostRewind
      <4>1. PICK f \in 0..pos[Chooser] : /\ f < Len(played[Chooser])
                                       /\ played' = [played EXCEPT ![Chooser] = SubSeq(@, 1, f)]
        BY <3>2 DEF HostRewind
      <4>2. PICK L : played[Chooser] \in Seq(L)
        BY <1>1 DEF RetryTypes, IsSeq
      <4>3. f \in Nat /\ Len(played[Chooser]) \in Nat
        BY <1>1, <4>1, <4>2 DEF RetryTypes
      <4>4. SubSeq(played[Chooser], 1, f) \in Seq(L)
        BY <4>1, <4>2, <4>3
      <4>5. IsSeq(SubSeq(played[Chooser], 1, f))
        BY <4>4 DEF IsSeq
      <4> QED
        BY <1>1, <4>1, <4>5 DEF RetryTypes
    <3> QED
      BY <1>3, <3>1, <3>2
  <2>5. stored'.frame \in Int /\ IsSeq(stored'.state)
    BY <1>1, <2>2, <2>3, <2>4 DEF Put, RetryTypes
  <2>6. faults' \in Seq(FaultKinds)
    <3>1. faults' = faults \/ Fault("state")
      BY <2>2 DEF Put, Succeeds
    <3>2. faults \in Seq(FaultKinds) /\ "state" \in FaultKinds
      BY DEF RetryTypes, FaultKinds
    <3> QED
      BY <3>1, <3>2, FaultTypes
  <2>7. UNCHANGED <<stage, active, total, held, mailbox, readies, lost>>
    BY <1>3 DEF HostPause, HostRewind
  <2> QED
    BY <2>1, <2>3, <2>4, <2>5, <2>6, <2>7 DEF RetryTypes
<1>4. CASE HostResume \/ HostGoesLive
  <2>1. DOMAIN wire' = Players /\ \A q \in Players : IsSeq(wire'[q])
    BY <1>4, <1>w, RetryWires
  <2>2. paused' \in [Players -> BOOLEAN] /\ active' \in [Players -> BOOLEAN]
    BY <1>4 DEF HostResume, HostGoesLive, RetryTypes, retryPlayer
  <2>3. UNCHANGED <<stage, total, pos, held, mailbox, played, stored, readies, lost, faults>>
    BY <1>4 DEF HostResume, HostGoesLive, retryPlayer
  <2> QED
    BY <2>1, <2>2, <2>3 DEF RetryTypes
<1>5. ASSUME NEW p \in Players, ReadSelect(p)
      PROVE  RetryTypes'
  <2>1. DOMAIN wire' = Players /\ \A q \in Players : IsSeq(wire'[q])
    BY <1>5, <1>w, RetryWires
  <2>2. UNCHANGED <<stage, paused, played, stored, readies, lost>>
    BY <1>5 DEF ReadSelect, retryFrontend
  <2>3. CASE Select(p)
    BY <2>1, <2>2, <2>3, SelectTypes DEF RetryTypes
  <2>4. CASE UNCHANGED <<active, total, pos, held, mailbox>> /\ Fault("recording")
    <3>1. faults' \in Seq(FaultKinds)
      <4>1. "recording" \in FaultKinds
        BY DEF FaultKinds
      <4> QED
        BY <2>4, <4>1, FaultTypes
    <3> QED
      BY <2>1, <2>2, <2>4, <3>1 DEF RetryTypes
  <2> QED
    BY <1>5, <2>3, <2>4 DEF ReadSelect
<1>6. ASSUME NEW p \in Players, ReadGameBegin(p)
      PROVE  RetryTypes'
  <2>1. DOMAIN wire' = Players /\ \A q \in Players : IsSeq(wire'[q])
    BY <1>6, <1>w, RetryWires
  <2>2. UNCHANGED <<active, total, pos, held, mailbox, paused, played, stored, lost, faults>>
    BY <1>6 DEF ReadGameBegin, retryFrontend
  <2>3. stage' \in [Players -> {"room", "ready", "run"}] /\ readies' \subseteq Players
    BY <1>6 DEF ReadGameBegin, RetryTypes
  <2> QED
    BY <2>1, <2>2, <2>3 DEF RetryTypes
<1>7. ASSUME NEW p \in Players, ReadAllReady(p) \/ ReadNak(p)
      PROVE  RetryTypes'
  <2>1. DOMAIN wire' = Players /\ \A q \in Players : IsSeq(wire'[q])
    BY <1>7, <1>w, RetryWires
  <2>2. UNCHANGED <<pos, paused, played, stored, readies, lost, faults>>
    BY <1>7 DEF ReadAllReady, ReadNak, retryFrontend
  <2>3. stage' \in [Players -> {"room", "ready", "run"}] /\ active' \in [Players -> BOOLEAN]
    BY <1>7 DEF ReadAllReady, ReadNak, ResetSession, RetryTypes
  <2>4. total' \in [Players -> Int] /\ DOMAIN mailbox' = Players /\ DOMAIN held' = Players
    BY <1>7 DEF ReadAllReady, ReadNak, ResetSession, RetryTypes
  <2> QED
    BY <2>1, <2>2, <2>3, <2>4 DEF RetryTypes
<1>8. ASSUME NEW p \in Players, ReadControl(p)
      PROVE  RetryTypes'
  <2>1. DOMAIN wire' = Players /\ \A q \in Players : IsSeq(wire'[q])
    BY <1>8, <1>w, RetryWires
  <2>2. UNCHANGED <<stage, total, pos, held, paused, played, stored, readies, faults>>
    BY <1>8 DEF ReadControl, retryFrontend
  <2>3. lost' \subseteq Players /\ DOMAIN mailbox' = Players
    BY <1>8 DEF ReadControl, RetryTypes
  <2>4. active' \in [Players -> BOOLEAN]
    BY <1>8 DEF ReadControl, RetryTypes
  <2> QED
    BY <2>1, <2>2, <2>3, <2>4 DEF RetryTypes
<1>9. ASSUME NEW p \in Players, ServeFrame(p)
      PROVE  RetryTypes'
  <2>1. UNCHANGED <<stage, active, total, mailbox, paused, wire, stored, readies, lost, faults>>
    BY <1>9 DEF ServeFrame, retryServer
  <2>2. pos' \in [Players -> Int] /\ DOMAIN held' = Players /\ DOMAIN played' = Players
    BY <1>9 DEF ServeFrame, RetryTypes
  <2>3. ASSUME NEW q \in Players
        PROVE  IsSeq(played'[q])
    <3>1. played'[q] = played[q] \/ played'[q] = Append(played[q], held'[p])
      BY <1>9 DEF ServeFrame, RetryTypes
    <3>2. IsSeq(Append(played[q], held'[p]))
      BY SeqAppends DEF RetryTypes
    <3> QED
      BY <3>1, <3>2 DEF RetryTypes
  <2> QED
    BY <2>1, <2>2, <2>3 DEF RetryTypes
<1>10. ASSUME NEW p \in Players, Poll(p)
       PROVE  RetryTypes'
  <2>1. UNCHANGED <<stage, active, total, held, wire, stored, readies, lost>>
    BY <1>10 DEF Poll, retryServer
  <2>2. DOMAIN mailbox' = Players /\ paused' \in [Players -> BOOLEAN]
    BY <1>10 DEF Poll, RetryTypes
  <2>3. CASE UNCHANGED <<played, pos, faults>>
    BY <2>1, <2>2, <2>3 DEF RetryTypes
  <2>4. CASE DownloadState(p)
    <3>1. Min({stored.frame, total[p]}) \in Int
      <4>1. PICK a, b : a = stored.frame /\ b = total[p]
        OBVIOUS
      <4>2. a \in Int /\ b \in Int
        BY <4>1 DEF RetryTypes
      <4>3. Min({a, b}) \in Int
        BY <4>2, MinOfTwo
      <4> QED
        BY <4>1, <4>3
    <3>2. PICK got \in {"whole", "state cut", "state"} :
            /\ Fetch(got)
            /\ pos' = [pos EXCEPT ![p] = IF got = "state" THEN @ ELSE Min({stored.frame, total[p]})]
            /\ played' = [played EXCEPT ![p] = IF got = "whole" THEN stored.state ELSE @]
      BY <2>4 DEF DownloadState
    <3>3. pos' \in [Players -> Int]
      BY <3>1, <3>2 DEF RetryTypes
    <3>4. DOMAIN played' = Players /\ \A q \in Players : IsSeq(played'[q])
      BY <3>2 DEF RetryTypes
    <3>5. faults' \in Seq(FaultKinds)
      <4>1. faults' = faults \/ Fault(got)
        BY <3>2 DEF Fetch, Succeeds
      <4>2. faults \in Seq(FaultKinds) /\ (got = "whole" \/ got \in FaultKinds)
        BY DEF RetryTypes, FaultKinds
      <4> QED
        BY <3>2, <4>1, <4>2, FaultTypes DEF Fetch, Succeeds
    <3> QED
      BY <2>1, <2>2, <3>3, <3>4, <3>5 DEF RetryTypes
  <2> QED
    BY <1>10, <2>3, <2>4 DEF Poll
<1>11. CASE UNCHANGED retryVars
  BY <1>11 DEF RetryTypes, retryVars, retryPlayer, retryFrontend, retryServer
<1> QED
  BY <1>2, <1>3, <1>4, <1>5, <1>6, <1>7, <1>8, <1>9, <1>10, <1>11 DEF RetryNext

\* The same of one player, d and k telling whether it read and was sent something.
LEMMA WireFacts ==
  ASSUME NEW out, NEW in, NEW m, Wires(out, in, m), NEW q \in Players, NEW d \in {0, 1}, NEW k \in {0, 1},
         d = 1 <=> q \in out, k = 1 <=> q \in in, NEW s, s = wire[q], NEW t, t = wire'[q]
  PROVE  /\ Len(s) \in Nat /\ Len(t) \in Nat /\ Len(t) = Len(s) - d + k
         /\ \A i \in 1..Len(s) - d : t[i] = s[i + d]
         /\ k = 1 => t[Len(t)] = m
<1>1. d = (IF q \in out THEN 1 ELSE 0) /\ k = (IF q \in in THEN 1 ELSE 0)
  OBVIOUS
<1>2. Moves(wire[q], wire'[q], d, k, m)
  BY <1>1 DEF Wires
<1>3. Moves(s, t, d, k, m)
  BY <1>2
<1> QED
  BY <1>3 DEF Moves

\* The messages on the way to an orderly player.
LEMMA OrderlyAt ==
  ASSUME NEW q \in Players, Orderly(q), NEW s, s = wire[q], NEW i \in 1..Len(s)
  PROVE  /\ s[i].type = "select" => i = 1 /\ q # Chooser /\ stage[q] = "room" /\ ~active[q] /\ q \notin refused
         /\ s[i].type = "begin" => stage[q] = "room" /\ (i = 1 \/ (i = 2 /\ s[1].type = "select"))
         /\ s[i].type = "allReady" => readies = Players /\ stage[q] = "ready"
         /\ \A j \in 1..Len(s) : s[i].type = "allReady" /\ s[j].type = "allReady" => i = j
         /\ s[i].type = "control" => q # Chooser
BY DEF Orderly, Is

LEMMA RefusalsStep == RetryTypes /\ Refusals /\ [RetryNext]_retryVars => Refusals'
<1> SUFFICES ASSUME RetryTypes, Refusals, [RetryNext]_retryVars
             PROVE  Refusals'
  OBVIOUS
<1>1. Chooser \in Players /\ Peers \subseteq Players /\ Chooser \notin Peers
  BY RetryAssumption DEF Players
<1>l. \A q \in Players : Len(wire[q]) \in Nat /\ (wire[q] = <<>> <=> Len(wire[q]) = 0)
  BY SeqLength DEF RetryTypes
\* Some controls more for the others, or one of them read.
<1>c. ASSUME UNCHANGED <<stage, readies, refused>>, stage[Chooser] = "run",
             \A q \in Players : active'[q] => active[q],
             NEW a, NEW f, Wires({}, Peers, Control(a, f))
      PROVE  Refusals'
  <2>1. Begun /\ Begun'
    BY <1>c DEF Begun
  <2>2. ASSUME NEW q \in Players
        PROVE  /\ Orderly(q)'
               /\ refused # {} /\ (active'[q] \/ (Len(wire'[q]) > 0 /\ Is(q, 1, "select")')) => NakComes(q)'
    <3>1. PICK d \in {0, 1} : d = 1 <=> q \in Peers
      OBVIOUS
    <3>2. PICK s, t : s = wire[q] /\ t = wire'[q]
      OBVIOUS
    <3>3. /\ Len(s) \in Nat /\ Len(t) \in Nat /\ Len(t) = Len(s) - 0 + d
          /\ \A i \in 1..Len(s) - 0 : t[i] = s[i + 0]
          /\ d = 1 => t[Len(t)] = Control(a, f)
      BY <1>c, <3>1, <3>2, WireFacts
    <3>4. /\ Len(s) \in Nat /\ Len(t) \in Nat /\ Len(t) = Len(s) + d
          /\ \A i \in 1..Len(s) : t[i] = s[i]
          /\ d = 1 => t[Len(t)].type = "control"
      BY <3>3 DEF Control
    <3>5. Orderly(q)
      BY DEF Refusals
    <3>6. readies = Players
      BY <1>1, <1>c DEF Refusals, Orderly
    <3>7. Orderly(q)'
      <4>1. /\ q \in readies' <=> stage'[q] # "room"
            /\ stage'[q] # "room" /\ readies' = Players
        BY <1>c, <3>5, <3>6 DEF Orderly
      <4>2. ASSUME NEW i \in 1..Len(t)
            PROVE  /\ t[i].type \notin {"select", "begin"}
                   /\ t[i].type = "allReady" => i \in 1..Len(s) /\ stage'[q] = "ready"
                   /\ t[i].type = "control" => q # Chooser
        <5>1. CASE i \in 1..Len(s)
          <6>1. t[i] = s[i] /\ stage[q] # "room"
            BY <1>c, <3>4, <4>1, <5>1
          <6> QED
            BY <1>c, <3>2, <3>5, <5>1, <6>1, OrderlyAt
        <5>2. CASE i \notin 1..Len(s)
          <6>1. i = Len(t) /\ d = 1 /\ t[i].type = "control"
            BY <3>4, <5>2
          <6> QED
            BY <1>1, <3>1, <6>1
        <5> QED
          BY <5>1, <5>2
      <4>3. \A i, j \in 1..Len(t) : t[i].type = "allReady" /\ t[j].type = "allReady" => i = j
        <5> SUFFICES ASSUME NEW i \in 1..Len(t), NEW j \in 1..Len(t), t[i].type = "allReady", t[j].type = "allReady"
                     PROVE  i = j
          OBVIOUS
        <5>1. i \in 1..Len(s) /\ j \in 1..Len(s)
          BY <4>2
        <5>2. s[i].type = "allReady" /\ s[j].type = "allReady"
          BY <3>4, <5>1
        <5> QED
          BY <3>2, <3>5, <5>1, <5>2, OrderlyAt
      <4> QED
        BY <3>2, <4>1, <4>2, <4>3 DEF Orderly, Is
    <3>8. ASSUME refused # {}, active'[q] \/ (Len(t) > 0 /\ t[1].type = "select")
          PROVE  NakComes(q)'
      <4>1. active[q]
        <5>1. ~(Len(t) > 0 /\ t[1].type = "select")
          BY <1>c, <3>2, <3>4, <3>5, <3>6 DEF Orderly, Is
        <5> QED
          BY <1>c, <3>8, <5>1
      <4>2. NakComes(q)
        BY <3>8, <4>1 DEF Refusals
      <4>3. stage[q] # "run" /\ \E i \in 1..Len(s) : s[i].type = "nak" /\ \A j \in 1..i - 1 : s[j].type # "allReady"
        BY <3>2, <4>2 DEF NakComes, Is
      <4>4. \E i \in 1..Len(t) : t[i].type = "nak" /\ \A j \in 1..i - 1 : t[j].type # "allReady"
        BY <3>4, <4>3
      <4> QED
        BY <1>c, <3>2, <4>3, <4>4 DEF NakComes, Is
    <3> QED
      BY <3>2, <3>7, <3>8 DEF Is
  <2> QED
    BY <1>c, <2>1, <2>2 DEF Refusals
\* The emulator moves; nothing is sent.
<1>e. ASSUME UNCHANGED <<stage, readies, refused, wire, active>>,
             \A q \in Players : stage[q] = "room" => played'[q] = played[q]
      PROVE  Refusals'
  <2>1. Begun' <=> Begun
    BY <1>e DEF Begun
  <2>2. ASSUME NEW q \in Players
        PROVE  /\ Orderly(q)' /\ (Fresh(q) => Fresh(q)')
               /\ refused # {} /\ (active'[q] \/ (Len(wire'[q]) > 0 /\ Is(q, 1, "select")')) => NakComes(q)'
    BY <1>e DEF Refusals, Orderly, Fresh, NakComes, Is
  <2> QED
    BY <1>e, <2>1, <2>2 DEF Refusals
<1>2. CASE HostSelect
  <2>1. ~Begun /\ UNCHANGED <<stage, readies, refused, played>>
    BY <1>2, <1>l, <1>1 DEF HostSelect, Begun, retryFrontend
  <2>2. refused = {} /\ \A q \in Players : Fresh(q)
    BY <2>1 DEF Refusals
  <2>3. ASSUME NEW q \in Players
        PROVE  Orderly(q)' /\ Len(wire'[q]) > 0
    <3>1. PICK w : w = Deliver(wire, Peers, Plain("select"))[q]
      OBVIOUS
    <3>2. w = IF q \in Peers THEN Append(wire[q], Plain("select")) ELSE wire[q]
      BY <3>1 DEF Deliver
    <3>3. IsSeq(w) /\ Len(w) = (IF q \in Peers THEN 1 ELSE 0) /\ (q \in Peers => w[1] = Plain("select"))
      <4>1. IsSeq(wire[q]) /\ Len(wire[q]) = 0
        BY <2>2 DEF Fresh, RetryTypes
      <4>2. CASE q \in Peers
        BY <3>2, <4>1, <4>2, SeqAppends
      <4>3. CASE q \notin Peers
        BY <3>2, <4>1, <4>3
      <4> QED
        BY <4>2, <4>3
    <3>4. PICK t : t = wire'[q]
      OBVIOUS
    <3>5. t = Append(w, Plain("begin"))
      BY <1>2, <3>1, <3>4 DEF HostSelect, Deliver, Players
    <3>6. /\ Len(t) = (IF q \in Peers THEN 2 ELSE 1) /\ t[Len(t)].type = "begin"
          /\ q \in Peers => t[1].type = "select"
      <4>1. /\ Len(Append(w, Plain("begin"))) = Len(w) + 1 /\ Len(w) \in Nat
            /\ Append(w, Plain("begin"))[Len(w) + 1] = Plain("begin")
            /\ \A i \in 1..Len(w) : Append(w, Plain("begin"))[i] = w[i]
        <5>1. IsSeq(w)
          BY <3>3
        <5> QED
          BY <5>1, SeqAppends
      <4> QED
        BY <3>3, <3>5, <4>1 DEF Plain
    <3>7. stage'[q] = "room" /\ (q # Chooser => active'[q] = active[q]) /\ refused' = {} /\ Fresh(q) /\ Orderly(q)
      BY <1>1, <1>2, <2>1, <2>2 DEF HostSelect, Select, Fresh, RetryTypes, Refusals
    <3>8. q \notin readies' /\ played'[q] = <<>>
      BY <2>1, <3>7 DEF Orderly
    <3>9. q \in Peers <=> q # Chooser
      BY <1>1 DEF Players
    <3> QED
      BY <3>4, <3>6, <3>7, <3>8, <3>9 DEF Orderly, Is, Fresh
  <2>4. Begun'
    BY <1>1, <2>3 DEF Begun
  <2> QED
    BY <2>1, <2>2, <2>3, <2>4 DEF Refusals
<1>3. CASE HostPause \/ HostRewind
  <2>1. PICK done \in BOOLEAN :
          Wires({}, Peers, Control(IF done THEN "stateReady" ELSE "pause", pos'[Chooser]))
    BY <1>3, RetryWires
  <2>2. UNCHANGED <<stage, readies, refused, active>> /\ stage[Chooser] = "run"
    BY <1>3 DEF HostPause, HostRewind, CanControl
  <2> QED
    BY <2>1, <2>2, <1>c
<1>4. CASE HostResume \/ HostGoesLive
  <2>1. \E a, f : Wires({}, Peers, Control(a, f))
    BY <1>4, RetryWires
  <2>2. UNCHANGED <<stage, readies, refused>> /\ stage[Chooser] = "run"
    BY <1>4 DEF HostResume, HostGoesLive, CanControl, retryPlayer
  <2>3. \A q \in Players : active'[q] => active[q]
    BY <1>1, <1>4 DEF HostResume, HostGoesLive, RetryTypes, retryPlayer
  <2> QED
    BY <2>1, <2>2, <2>3, <1>c
<1>5. ASSUME NEW p \in Players, ReadSelect(p)
      PROVE  Refusals'
  <2>1. PICK no \in {0, 1} :
          /\ refused' = IF no = 1 THEN refused \cup {p} ELSE refused
          /\ \/ no = 0 /\ Select(p) /\ Wires({p}, {}, None)
             \/ no = 1 /\ UNCHANGED active /\ Wires({p}, Players \ {p}, Plain("nak"))
    <3>1. CASE refused' = refused /\ Select(p) /\ Wires({p}, {}, None)
      BY <3>1
    <3>2. CASE refused' = refused \cup {p} /\ UNCHANGED active /\ Wires({p}, Players \ {p}, Plain("nak"))
      BY <3>2
    <3> QED
      BY <3>1, <3>2, <1>5, RetryWires
  <2>2. UNCHANGED <<stage, readies, played>>
    BY <1>5 DEF ReadSelect, retryFrontend
  <2>3. Len(wire[p]) > 0 /\ Is(p, 1, "select")
    BY <1>5, <1>l, SeqTails DEF ReadSelect, Arrives, Is, RetryTypes
  <2>4. p # Chooser /\ stage[p] = "room" /\ ~active[p] /\ p \notin refused /\ p \notin readies
    BY <2>3, <1>l DEF Refusals, Orderly
  <2>5. \A q \in Players \ {p} : active'[q] = active[q]
    BY <2>1 DEF Select, RetryTypes
  <2>6. Begun
    BY <2>3 DEF Refusals, Fresh
  <2>7. ASSUME NEW q \in Players, q # p
        PROVE  /\ Orderly(q)' /\ Len(wire'[q]) >= Len(wire[q])
               /\ refused' # {} /\ (active'[q] \/ (Len(wire'[q]) > 0 /\ Is(q, 1, "select")')) => NakComes(q)'
    <3>1. PICK s, t : s = wire[q] /\ t = wire'[q]
      OBVIOUS
    <3>2. /\ Len(s) \in Nat /\ Len(t) \in Nat /\ Len(t) = Len(s) + no
          /\ \A i \in 1..Len(s) : t[i] = s[i]
          /\ no = 1 => t[Len(t)].type = "nak"
      <4>1. PICK in, m : Wires({p}, in, m) /\ (no = 1 <=> q \in in) /\ (no = 1 => m = Plain("nak"))
        BY <2>1, <2>7
      <4>2. (IF q \in {p} THEN 1 ELSE 0) = 0 /\ (IF q \in in THEN 1 ELSE 0) = no
        BY <2>7, <4>1
      <4>3. Moves(wire[q], wire'[q], IF q \in {p} THEN 1 ELSE 0, IF q \in in THEN 1 ELSE 0, m)
        BY <4>1, Zenon DEF Wires
      <4>4. Moves(s, t, 0, no, m)
        BY <3>1, <4>2, <4>3
      <4> QED
        BY <4>1, <4>4 DEF Moves, Plain
    <3>3. Orderly(q) /\ active'[q] = active[q]
      BY <2>5, <2>7 DEF Refusals
    <3>4. Orderly(q)'
      <4>1. CASE no = 0
        BY <2>1, <2>2, <3>1, <3>2, <3>3, <4>1 DEF Orderly, Is
      <4>2. CASE no = 1
        <5>1. /\ q \in readies' <=> stage'[q] # "room"
              /\ stage'[q] = "run" => readies' = Players
              /\ stage'[q] = "room" => played'[q] = <<>>
          BY <2>2, <3>3 DEF Orderly
        <5>2. ASSUME NEW i \in 1..Len(t)
              PROVE  /\ t[i].type = "select" => i = 1 /\ q # Chooser /\ stage'[q] = "room" /\ ~active'[q] /\ q \notin refused'
                     /\ t[i].type = "begin" => stage'[q] = "room" /\ (i = 1 \/ (i = 2 /\ t[1].type = "select"))
                     /\ t[i].type = "allReady" => readies' = Players /\ stage'[q] = "ready"
                     /\ \A j \in 1..Len(t) : t[i].type = "allReady" /\ t[j].type = "allReady" => i = j
                     /\ t[i].type = "control" => q # Chooser
          <6>1. CASE i \in 1..Len(s)
            <7>1. t[i] = s[i] /\ 1 \in 1..Len(s) /\ t[1] = s[1]
              BY <3>2, <6>1
            <7>2. /\ s[i].type = "select" => i = 1 /\ q # Chooser /\ stage[q] = "room" /\ ~active[q] /\ q \notin refused
                  /\ s[i].type = "begin" => stage[q] = "room" /\ (i = 1 \/ (i = 2 /\ s[1].type = "select"))
                  /\ s[i].type = "allReady" => readies = Players /\ stage[q] = "ready"
                  /\ \A j \in 1..Len(s) : s[i].type = "allReady" /\ s[j].type = "allReady" => i = j
                  /\ s[i].type = "control" => q # Chooser
              BY <3>1, <3>3, <6>1, OrderlyAt
            <7>3. \A j \in 1..Len(t) : t[j].type = "allReady" => j \in 1..Len(s) /\ s[j].type = "allReady"
              BY <3>2, <4>2
            <7>4. q \notin refused => q \notin refused'
              BY <2>1, <2>7
            <7>5. UNCHANGED <<stage, readies>> /\ active'[q] = active[q]
              BY <2>2, <3>3
            <7> QED
              BY <7>1, <7>2, <7>3, <7>4, <7>5
          <6>2. CASE i \notin 1..Len(s)
            <7>1. i = Len(t)
              BY <3>2, <4>2, <6>2
            <7>2. t[i].type = "nak"
              BY <3>2, <4>2, <7>1
            <7> QED
              BY <7>2
          <6> QED
            BY <6>1, <6>2
        <5>3. q = Chooser /\ stage'[q] = "room" /\ Len(t) > 0 => t[1].type = "begin"
          BY <2>2, <2>6, <3>1, <3>2, <3>3 DEF Orderly, Is, Begun
        <5> QED
          BY <3>1, <5>1, <5>2, <5>3 DEF Orderly, Is
      <4> QED
        BY <4>1, <4>2
    <3>5. ASSUME refused' # {}, active'[q] \/ (Len(t) > 0 /\ t[1].type = "select")
          PROVE  NakComes(q)'
      <4>1. stage'[q] # "run" /\ \A i \in 1..Len(s) : s[i].type # "allReady"
        BY <2>2, <2>4, <3>1, <3>3 DEF Orderly, Is
      <4>2. CASE no = 1
        BY <3>1, <3>2, <4>1, <4>2 DEF NakComes, Is
      <4>3. CASE no = 0
        <5>1. NakComes(q)
          BY <2>1, <3>1, <3>2, <3>3, <3>5, <4>3 DEF Refusals, Is
        <5> QED
          BY <3>1, <3>2, <4>1, <4>3, <5>1 DEF NakComes, Is
      <4> QED
        BY <4>2, <4>3
    <3> QED
      BY <3>1, <3>2, <3>4, <3>5 DEF Is
  <2>8. /\ Orderly(p)'
        /\ refused' # {} /\ (active'[p] \/ (Len(wire'[p]) > 0 /\ Is(p, 1, "select")')) => NakComes(p)'
    <3>1. PICK s, t : s = wire[p] /\ t = wire'[p]
      OBVIOUS
    <3>2. /\ Len(s) \in Nat /\ Len(t) \in Nat /\ Len(t) = Len(s) - 1
          /\ \A i \in 1..Len(s) - 1 : t[i] = s[i + 1]
      <4>1. PICK in, m : Wires({p}, in, m) /\ p \notin in
        BY <2>1
      <4>2. /\ Len(s) \in Nat /\ Len(t) \in Nat /\ Len(t) = Len(s) - 1 + 0
            /\ \A i \in 1..Len(s) - 1 : t[i] = s[i + 1]
        BY <3>1, <4>1, WireFacts
      <4> QED
        BY <4>2
    <3>3. Orderly(p)
      BY DEF Refusals
    <3>4. \A i \in 1..Len(t) : /\ t[i].type # "select" /\ t[i].type # "allReady"
                               /\ t[i].type = "begin" => i = 1
      <4> SUFFICES ASSUME NEW i \in 1..Len(t)
                   PROVE  /\ t[i].type # "select" /\ t[i].type # "allReady"
                          /\ t[i].type = "begin" => i = 1
        OBVIOUS
      <4>1. i + 1 \in 1..Len(s) /\ t[i] = s[i + 1] /\ i >= 1
        BY <3>2
      <4>2. s[i + 1].type = "select" => i + 1 = 1
        BY <3>1, <3>3, <4>1, OrderlyAt
      <4>3. s[i + 1].type = "begin" => i + 1 = 1 \/ i + 1 = 2
        BY <3>1, <3>3, <4>1, OrderlyAt
      <4>4. s[i + 1].type # "allReady"
        BY <2>4, <3>1, <3>3, <4>1, OrderlyAt
      <4> QED
        BY <4>1, <4>2, <4>3, <4>4
    <3>5. Orderly(p)'
      BY <2>2, <2>4, <3>1, <3>3, <3>4 DEF Orderly, Is
    <3>6. ASSUME refused' # {}, active'[p]
          PROVE  NakComes(p)'
      <4>1. no = 0 /\ refused # {}
        BY <2>1, <2>4, <3>6
      <4>2. NakComes(p)
        BY <2>3, <4>1 DEF Refusals
      <4>3. PICK i \in 1..Len(s) : s[i].type = "nak" /\ \A j \in 1..i - 1 : s[j].type # "allReady"
        BY <3>1, <4>2 DEF NakComes, Is
      <4>4. i # 1 /\ i - 1 \in 1..Len(t)
        BY <2>3, <3>1, <3>2, <4>3 DEF Is
      <4>5. t[i - 1].type = "nak" /\ \A j \in 1..(i - 1) - 1 : t[j].type # "allReady"
        <5>1. t[i - 1].type = "nak"
          BY <3>2, <4>3, <4>4
        <5>2. \A j \in 1..(i - 1) - 1 : j \in 1..Len(t)
          BY <3>2, <4>4
        <5> QED
          BY <3>4, <5>1, <5>2
      <4> QED
        BY <2>2, <2>4, <3>1, <4>4, <4>5 DEF NakComes, Is
    <3> QED
      BY <2>3, <3>1, <3>2, <3>4, <3>5, <3>6 DEF Is
  <2>9. Begun'
    BY <1>1, <2>2, <2>4, <2>6, <2>7, <1>l DEF Begun
  <2> QED
    BY <2>7, <2>8, <2>9 DEF Refusals
<1>6. ASSUME NEW p \in Players, ReadGameBegin(p)
      PROVE  Refusals'
  <2>1. /\ UNCHANGED <<active, refused, played>> /\ stage' = [stage EXCEPT ![p] = "ready"]
        /\ readies' = readies \cup {p}
    BY <1>6 DEF ReadGameBegin, retryFrontend
  <2>2. Len(wire[p]) > 0 /\ Is(p, 1, "begin")
    BY <1>6, <1>l, SeqTails DEF ReadGameBegin, Arrives, Is, RetryTypes
  <2>3. stage[p] = "room" /\ p \notin readies
    BY <2>2, <1>l DEF Refusals, Orderly
  <2>4. PICK go \in {0, 1} :
          /\ go = 1 <=> readies' = Players
          /\ Wires({p}, IF go = 1 THEN Players ELSE {}, Plain("allReady"))
    <3>1. CASE readies' = Players /\ Wires({p}, Players, Plain("allReady"))
      BY <3>1
    <3>2. CASE readies' # Players /\ Wires({p}, {}, None)
      BY <3>2 DEF Wires, Moves
    <3> QED
      BY <3>1, <3>2, <1>6, RetryWires
  <2>5. readies # Players
    BY <2>3
  <2>6. ASSUME NEW q \in Players
        PROVE  /\ Orderly(q)'
               /\ refused' # {} /\ (active'[q] \/ (Len(wire'[q]) > 0 /\ Is(q, 1, "select")')) => NakComes(q)'
    <3>1. PICK d \in {0, 1} : d = 1 <=> q = p
      OBVIOUS
    <3>2. PICK s, t : s = wire[q] /\ t = wire'[q]
      OBVIOUS
    <3>3. s = wire[q] /\ t = wire'[q] /\ d = IF q = p THEN 1 ELSE 0
      BY <3>1, <3>2
    <3>4. /\ Len(s) \in Nat /\ Len(t) \in Nat /\ Len(t) = Len(s) - d + go
          /\ \A i \in 1..Len(s) - d : t[i] = s[i + d]
          /\ go = 1 => t[Len(t)].type = "allReady"
      <4>1. PICK in : in = IF go = 1 THEN Players ELSE {}
        OBVIOUS
      <4>2. Wires({p}, in, Plain("allReady")) /\ (go = 1 <=> q \in in) /\ (d = 1 <=> q \in {p})
        BY <2>4, <3>1, <4>1
      <4>3. d = (IF q \in {p} THEN 1 ELSE 0) /\ go = (IF q \in in THEN 1 ELSE 0)
        BY <4>2
      <4>4. Moves(wire[q], wire'[q], d, go, Plain("allReady"))
        BY <4>2, <4>3 DEF Wires
      <4>5. Moves(s, t, d, go, Plain("allReady"))
        BY <3>2, <4>4
      <4> QED
        BY <4>5 DEF Moves, Plain
    <3>5. Orderly(q) /\ stage[q] # "run" /\ \A i \in 1..Len(s) : s[i].type # "allReady"
      BY <2>5, <3>3 DEF Refusals, Orderly, Is
    <3>6. d = 1 => Len(s) > 0 /\ s[1].type = "begin"
      BY <2>2, <3>3 DEF Is
    <3>7. stage'[q] = IF d = 1 THEN "ready" ELSE stage[q]
      BY <2>1, <3>3 DEF RetryTypes
    <3>8. /\ q \in readies' <=> stage'[q] # "room"
          /\ stage'[q] = "run" => readies' = Players
          /\ stage'[q] = "room" => played'[q] = <<>>
      BY <2>1, <2>3, <3>3, <3>5, <3>7 DEF Orderly
    <3>9. go = 1 => stage'[q] = "ready"
      BY <2>4, <3>5, <3>7, <3>8 DEF RetryTypes
    <3>10. ASSUME NEW i \in 1..Len(t)
           PROVE  /\ t[i].type = "select" => i = 1 /\ q # Chooser /\ stage'[q] = "room" /\ ~active'[q] /\ q \notin refused'
                  /\ t[i].type = "begin" => stage'[q] = "room" /\ (i = 1 \/ (i = 2 /\ t[1].type = "select"))
                  /\ t[i].type = "allReady" => go = 1 /\ i = Len(t)
                  /\ t[i].type = "control" => q # Chooser
      <4>1. CASE i > Len(s) - d
        <5>1. i = Len(t) /\ go = 1 /\ t[i].type = "allReady"
          BY <3>4, <4>1
        <5> QED
          BY <5>1
      <4>2. CASE i <= Len(s) - d
        <5>1. i + d \in 1..Len(s) /\ t[i] = s[i + d]
          BY <3>4, <4>2
        <5>2. PICK k \in 1..Len(s) : k = i + d
          BY <5>1
        <5>3. t[i] = s[k] /\ s[k].type # "allReady"
          BY <3>5, <5>1, <5>2
        <5>4. /\ s[k].type = "select" => k = 1 /\ q # Chooser /\ stage[q] = "room" /\ ~active[q] /\ q \notin refused
              /\ s[k].type = "begin" => stage[q] = "room" /\ (k = 1 \/ (k = 2 /\ s[1].type = "select"))
              /\ s[k].type = "control" => q # Chooser
          BY <3>3, <3>5, OrderlyAt
        <5>5. CASE d = 0
          <6>1. k = i /\ t[1] = s[1] /\ stage'[q] = stage[q]
            BY <3>4, <3>7, <5>2, <5>5, <4>2
          <6> QED
            BY <2>1, <5>3, <5>4, <6>1
        <5>6. CASE d = 1
          <6>1. k # 1 /\ s[1].type = "begin"
            BY <3>6, <5>2, <5>6
          <6> QED
            BY <5>3, <5>4, <6>1
        <5> QED
          BY <5>5, <5>6
      <4> QED
        BY <3>4, <4>1, <4>2
    <3>11. q = Chooser /\ stage'[q] = "room" /\ Len(t) > 0 => t[1].type = "begin"
      <4>1. SUFFICES ASSUME q = Chooser, stage'[q] = "room"
                     PROVE  Len(t) > 0 => t[1].type = "begin"
        OBVIOUS
      <4>2. d = 0 /\ go = 0
        BY <3>3, <3>7, <3>9, <4>1
      <4>3. stage[q] = "room" /\ (Len(s) > 0 => s[1].type = "begin")
        BY <3>3, <3>5, <3>7, <4>1, <4>2 DEF Orderly, Is
      <4> QED
        BY <3>4, <4>2, <4>3
    <3>12. Orderly(q)'
      BY <2>4, <3>3, <3>8, <3>9, <3>10, <3>11 DEF Orderly, Is
    <3>13. ASSUME refused' # {}, active'[q] \/ (Len(t) > 0 /\ t[1].type = "select")
           PROVE  NakComes(q)'
      <4>1. active[q] \/ (Len(s) > 0 /\ s[1].type = "select")
        <5>1. CASE d = 0
          BY <2>1, <3>4, <3>13, <5>1
        <5>2. CASE d = 1
          <6>1. ~(Len(t) > 0 /\ t[1].type = "select")
            BY <3>4, <3>7, <3>10, <5>2
          <6> QED
            BY <2>1, <3>13, <6>1
        <5> QED
          BY <5>1, <5>2
      <4>2. NakComes(q)
        BY <2>1, <3>3, <3>13, <4>1 DEF Refusals, Is
      <4>3. PICK i \in 1..Len(s) : s[i].type = "nak"
        BY <3>3, <4>2 DEF NakComes, Is
      <4>4. i - d \in 1..Len(s) - d /\ t[i - d].type = "nak"
        <5>1. i # 1 \/ d = 0
          BY <3>6, <4>3
        <5>2. i - d \in 1..Len(s) - d /\ (i - d) + d = i
          BY <3>4, <5>1
        <5> QED
          BY <3>4, <4>3, <5>2
      <4>5. \A j \in 1..(i - d) - 1 : t[j].type # "allReady"
        BY <3>4, <3>5, <4>4
      <4>6. stage'[q] # "run"
        BY <3>5, <3>7
      <4>7. i - d \in 1..Len(t)
        BY <3>4, <4>4
      <4> QED
        BY <3>3, <4>4, <4>5, <4>6, <4>7 DEF NakComes, Is
    <3> QED
      BY <3>3, <3>12, <3>13 DEF Is
  <2>7. Begun /\ Begun'
    <3>1. Begun
      BY <2>2 DEF Refusals, Fresh
    <3>2. CASE p = Chooser
      <4>1. stage'[Chooser] = "ready"
        BY <2>1, <3>2, <1>1 DEF RetryTypes
      <4> QED
        BY <3>1, <4>1 DEF Begun
    <3>3. CASE p # Chooser
      <4>1. stage'[Chooser] = stage[Chooser]
        BY <1>1, <2>1, <3>3 DEF RetryTypes
      <4>2. Len(wire'[Chooser]) >= Len(wire[Chooser])
        <5>1. PICK s, t, in : s = wire[Chooser] /\ t = wire'[Chooser] /\ in = IF go = 1 THEN Players ELSE {}
          OBVIOUS
        <5>2. Wires({p}, in, Plain("allReady")) /\ (go = 1 <=> Chooser \in in) /\ Chooser \notin {p}
          BY <1>1, <2>4, <3>3, <5>1
        <5>3. PICK d \in {0, 1}, k \in {0, 1} : d = 0 /\ k = go
          BY <2>4
        <5>4. (d = 1 <=> Chooser \in {p}) /\ (k = 1 <=> Chooser \in in)
          BY <5>2, <5>3
        <5>5. Len(s) \in Nat /\ Len(t) \in Nat /\ Len(t) = Len(s) - d + k
          BY <1>1, <5>1, <5>2, <5>4, WireFacts
        <5> QED
          BY <5>1, <5>3, <5>5
      <4> QED
        BY <3>1, <4>1, <4>2, <1>1, <1>l DEF Begun
    <3> QED
      BY <3>1, <3>2, <3>3
  <2> QED
    BY <2>6, <2>7 DEF Refusals
<1>7. ASSUME NEW p \in Players, ReadAllReady(p) \/ ReadNak(p) \/ ReadControl(p)
      PROVE  Refusals'
  <2>1. UNCHANGED <<readies, refused, played>> /\ Wires({p}, {}, None)
    BY <1>7, RetryWires DEF ReadAllReady, ReadNak, ReadControl, retryFrontend
  <2>2. /\ \A q \in Players \ {p} : stage'[q] = stage[q] /\ active'[q] = active[q]
        /\ stage'[p] = (IF ReadAllReady(p) THEN "run" ELSE stage[p]) /\ (active'[p] => active[p])
        /\ ReadNak(p) => ~active'[p]
    BY <1>7 DEF ReadAllReady, ReadNak, ReadControl, ResetSession, RetryTypes, Arrives
  <2>3. /\ Len(wire[p]) > 0
        /\ ReadAllReady(p) => Is(p, 1, "allReady")
        /\ ReadNak(p) => Is(p, 1, "nak")
        /\ ReadControl(p) => Is(p, 1, "control")
    BY <1>7, <1>l, SeqTails DEF ReadAllReady, ReadNak, ReadControl, Arrives, Is, RetryTypes
  <2>4. ASSUME NEW q \in Players, q # p
        PROVE  /\ Orderly(q)' /\ Len(wire'[q]) = Len(wire[q])
               /\ refused' # {} /\ (active'[q] \/ (Len(wire'[q]) > 0 /\ Is(q, 1, "select")')) => NakComes(q)'
    <3>1. PICK s, t : s = wire[q] /\ t = wire'[q]
      OBVIOUS
    <3>2. /\ Len(s) \in Nat /\ Len(t) = Len(s)
          /\ \A i \in 1..Len(s) : t[i] = s[i]
      <4>1. PICK m : Wires({p}, {}, m)
        BY <2>1
      <4>2. q \notin {p} /\ q \notin {}
        BY <2>4
      <4>3. Moves(wire[q], wire'[q], 0, 0, m)
        BY <4>1, <4>2 DEF Wires
      <4>4. Moves(s, t, 0, 0, m)
        BY <3>1, <4>3
      <4> QED
        BY <4>4 DEF Moves
    <3>3. Orderly(q) /\ stage'[q] = stage[q] /\ active'[q] = active[q]
      BY <2>2, <2>4 DEF Refusals
    <3>4. Orderly(q)'
      BY <2>1, <3>1, <3>2, <3>3 DEF Orderly, Is
    <3>5. ASSUME refused' # {}, active'[q] \/ (Len(t) > 0 /\ t[1].type = "select")
          PROVE  NakComes(q)'
      <4>1. NakComes(q)
        BY <2>1, <3>1, <3>2, <3>3, <3>5 DEF Refusals, Is
      <4> QED
        BY <3>1, <3>2, <3>3, <4>1 DEF NakComes, Is
    <3> QED
      BY <3>1, <3>2, <3>4, <3>5 DEF Is
  <2>5. /\ Orderly(p)'
        /\ refused' # {} /\ (active'[p] \/ (Len(wire'[p]) > 0 /\ Is(p, 1, "select")')) => NakComes(p)'
    <3>1. PICK s, t : s = wire[p] /\ t = wire'[p]
      OBVIOUS
    <3>2. /\ Len(s) \in Nat /\ Len(t) \in Nat /\ Len(t) = Len(s) - 1 /\ Len(s) > 0
          /\ \A i \in 1..Len(s) - 1 : t[i] = s[i + 1]
      <4>1. PICK m : Wires({p}, {}, m)
        BY <2>1
      <4>2. p \in {p} /\ p \notin {}
        OBVIOUS
      <4>3. Moves(wire[p], wire'[p], 1, 0, m)
        BY <4>1, <4>2 DEF Wires
      <4>4. Moves(s, t, 1, 0, m)
        BY <3>1, <4>3
      <4> QED
        BY <2>3, <3>1, <4>4 DEF Moves
    <3>3. Orderly(p)
      BY DEF Refusals
    <3>4. s[1].type \in {"allReady", "nak", "control"}
      BY <1>7, <2>3, <3>1 DEF Is
    <3>5. \A i \in 1..Len(t) : t[i].type # "select" /\ t[i].type # "begin"
      BY <3>1, <3>2, <3>3, <3>4 DEF Orderly, Is
    <3>6. ReadAllReady(p) => readies = Players /\ stage[p] = "ready" /\ \A i \in 1..Len(t) : t[i].type # "allReady"
      <4> SUFFICES ASSUME ReadAllReady(p)
                   PROVE  readies = Players /\ stage[p] = "ready" /\ \A i \in 1..Len(t) : t[i].type # "allReady"
        OBVIOUS
      <4>1. s[1].type = "allReady" /\ 1 \in 1..Len(s)
        BY <2>3, <3>1, <3>2 DEF Is
      <4>2. readies = Players /\ stage[p] = "ready" /\ \A j \in 1..Len(s) : s[j].type = "allReady" => j = 1
        BY <3>1, <3>3, <4>1 DEF Orderly, Is
      <4> QED
        BY <3>2, <4>2
    <3>7. /\ p \in readies' <=> stage'[p] # "room"
          /\ stage'[p] = "run" => readies' = Players
          /\ stage'[p] = "room" => played'[p] = <<>>
      BY <2>1, <2>2, <3>3, <3>6 DEF Orderly
    <3>8. ~(p = Chooser /\ stage'[p] = "room")
      BY <2>2, <3>1, <3>2, <3>3, <3>4 DEF Orderly, Is
    <3>9. \A i \in 1..Len(t) :
             /\ t[i].type = "allReady" => readies' = Players /\ stage'[p] = "ready"
             /\ \A j \in 1..Len(t) : t[i].type = "allReady" /\ t[j].type = "allReady" => i = j
             /\ t[i].type = "control" => p # Chooser
      <4>1. CASE ReadAllReady(p)
        BY <3>1, <3>2, <3>3, <3>6, <4>1 DEF Orderly, Is
      <4>2. CASE ~ReadAllReady(p)
        <5>1. stage'[p] = stage[p] /\ readies' = readies
          BY <2>1, <2>2, <4>2
        <5>2. ASSUME NEW i \in 1..Len(t)
              PROVE  /\ i + 1 \in 1..Len(s) /\ t[i] = s[i + 1]
                     /\ s[i + 1].type = "allReady" => readies = Players /\ stage[p] = "ready"
                     /\ \A j \in 1..Len(s) : s[i + 1].type = "allReady" /\ s[j].type = "allReady" => i + 1 = j
                     /\ s[i + 1].type = "control" => p # Chooser
          <6>1. i + 1 \in 1..Len(s) /\ t[i] = s[i + 1]
            BY <3>2
          <6>2. PICK k \in 1..Len(s) : k = i + 1
            BY <6>1
          <6>3. /\ s[k].type = "allReady" => readies = Players /\ stage[p] = "ready"
                /\ \A j \in 1..Len(s) : s[k].type = "allReady" /\ s[j].type = "allReady" => k = j
                /\ s[k].type = "control" => p # Chooser
            BY <3>1, <3>3, OrderlyAt
          <6> QED
            BY <6>1, <6>2, <6>3
        <5>3. \A i, j \in 1..Len(t) : t[i].type = "allReady" /\ t[j].type = "allReady" => i + 1 = j + 1
          BY <5>2
        <5>4. \A i, j \in 1..Len(t) : i + 1 = j + 1 => i = j
          BY <3>2
        <5> QED
          BY <5>1, <5>2, <5>3, <5>4
      <4> QED
        BY <4>1, <4>2
    <3>10. Orderly(p)'
      BY <3>1, <3>5, <3>7, <3>8, <3>9 DEF Orderly, Is
    <3>11. ASSUME refused' # {}, active'[p] \/ (Len(t) > 0 /\ t[1].type = "select")
           PROVE  NakComes(p)'
      <4>1. active[p] /\ ~ReadNak(p)
        BY <2>2, <3>2, <3>5, <3>11
      <4>2. NakComes(p)
        BY <2>1, <3>11, <4>1 DEF Refusals
      <4>3. PICK i \in 1..Len(s) : s[i].type = "nak" /\ \A j \in 1..i - 1 : s[j].type # "allReady"
        BY <3>1, <4>2 DEF NakComes, Is
      <4>4. CASE ReadAllReady(p)
        BY <2>3, <3>1, <3>2, <4>3, <4>4 DEF Is
      <4>5. CASE ReadControl(p) /\ ~ReadAllReady(p)
        <5>1. i # 1 /\ i - 1 \in 1..Len(t)
          BY <2>3, <3>1, <3>2, <4>3, <4>5 DEF Is
        <5>2. i - 1 \in 1..Len(s) - 1 /\ (i - 1) + 1 = i
          BY <3>2, <5>1
        <5>3. t[i - 1] = s[i]
          BY <3>2, <5>2
        <5>4. ASSUME NEW j \in 1..(i - 1) - 1
              PROVE  t[j].type # "allReady"
          <6>1. j + 1 \in 1..i - 1 /\ j \in 1..Len(s) - 1
            BY <3>2, <5>2
          <6> QED
            BY <3>2, <4>3, <6>1
        <5>5. t[i - 1].type = "nak" /\ \A j \in 1..(i - 1) - 1 : t[j].type # "allReady"
          BY <4>3, <5>3, <5>4
        <5>6. stage'[p] # "run"
          BY <2>2, <4>2, <4>5 DEF NakComes
        <5> QED
          BY <3>1, <5>1, <5>5, <5>6 DEF NakComes, Is
      <4> QED
        BY <1>7, <4>1, <4>4, <4>5
    <3> QED
      BY <3>1, <3>10, <3>11 DEF Is
  <2>6. Begun /\ Begun'
    <3>1. Begun
      BY <2>3 DEF Refusals, Fresh
    <3>2. stage[Chooser] # "room" => stage'[Chooser] # "room"
      BY <1>1, <2>2
    <3>3. CASE stage[Chooser] # "room"
      BY <3>2, <3>3 DEF Begun
    <3>4. CASE stage[Chooser] = "room" /\ p # Chooser
      BY <1>1, <2>4, <3>1, <3>4 DEF Begun
    <3>5. CASE stage[Chooser] = "room" /\ p = Chooser
      <4>1. Is(p, 1, "begin")
        BY <1>1, <2>3, <3>5 DEF Refusals, Orderly
      <4> QED
        BY <1>7, <2>3, <4>1 DEF Is
    <3> QED
      BY <3>1, <3>3, <3>4, <3>5
  <2> QED
    BY <2>4, <2>5, <2>6 DEF Refusals
<1>8. ASSUME NEW p \in Players, ServeFrame(p) \/ Poll(p)
      PROVE  Refusals'
  <2>1. UNCHANGED <<stage, readies, refused, wire, active>> /\ stage[p] = "run"
    BY <1>8 DEF ServeFrame, Poll, retryServer
  <2>2. \A q \in Players : q # p => played'[q] = played[q]
    BY <1>8 DEF ServeFrame, Poll, DownloadState, RetryTypes
  <2> QED
    BY <2>1, <2>2, <1>e
<1>9. CASE UNCHANGED retryVars
  BY <1>9, <1>e DEF retryVars, retryPlayer, retryFrontend, retryServer
<1> QED
  BY <1>2, <1>3, <1>4, <1>5, <1>6, <1>7, <1>8, <1>9 DEF RetryNext

\* Who runs on a copy of the recording has not left anybody behind that could not get it.
LEMMA NobodyRunsAlone ==
  ASSUME RetryTypes, Refusals, NEW p \in Players, active[p], stage[p] = "run"
  PROVE  refused = {}
BY DEF Refusals, NakComes

LEMMA RefusalsInvariant == RetrySpec => [](RetryTypes /\ Refusals)
BY RetryTypesInit, RefusalsInit, RetryTypesStep, RefusalsStep, PTL DEF RetrySpec

\* Nobody replays the recording while another player could not get it, whatever the number of
\* players and the order in which the selection, the refusals and the start arrive.
THEOREM SpecNobodyReplaysAlone == RetrySpec => NobodyReplaysAlone
<1>1. RetryTypes /\ Refusals /\ [RetryNext]_retryVars =>
        [\A p \in Players : (active[p] /\ played'[p] # played[p]) => refused = {}]_retryVars
  <2> SUFFICES ASSUME RetryTypes, Refusals, RetryNext, NEW p \in Players, active[p],
                      played'[p] # played[p]
               PROVE  refused = {}
    BY DEF retryVars
  <2>1. Chooser \in Players
    BY DEF Players
  <2>2. stage[p] = "run"
    <3>1. CASE HostSelect \/ HostPause \/ HostResume \/ HostGoesLive
      BY <3>1 DEF HostSelect, HostPause, HostResume, HostGoesLive, retryFrontend
    <3>2. CASE HostRewind
      BY <2>1, <3>2 DEF HostRewind, CanControl, RetryTypes
    <3>3. ASSUME NEW q \in Players,
                 \/ ReadSelect(q) \/ ReadGameBegin(q) \/ ReadAllReady(q) \/ ReadNak(q) \/ ReadControl(q)
          PROVE  FALSE
      BY <3>3 DEF ReadSelect, ReadGameBegin, ReadAllReady, ReadNak, ReadControl, retryFrontend
    <3>4. ASSUME NEW q \in Players, ServeFrame(q) \/ Poll(q)
          PROVE  stage[p] = "run"
      BY <3>4 DEF ServeFrame, Poll, DownloadState, RetryTypes
    <3> QED
      BY <3>1, <3>2, <3>3, <3>4 DEF RetryNext
  <2> QED
    BY <2>2, NobodyRunsAlone
<1> QED
  BY <1>1, RefusalsInvariant, PTL DEF RetrySpec, NobodyReplaysAlone
-----------------------------------------------------------------------------
Follows(p) == pos[p] = Min({Len(played[p]), total[p]}) \/ Len(played[p]) > total[Chooser]

\* The readers, and the state on the replay server.
Anchored ==
  /\ \A p \in Players : active[p] => 0 <= pos[p] /\ pos[p] <= total[p]
  /\ stored # NoState => readies = Players /\ 0 <= stored.frame
  /\ "state cut" \notin Range(faults) =>
       /\ \A p \in Players : active[p] => Follows(p)
       /\ stored # NoState => stored.frame = Len(stored.state) \/ Len(stored.state) > total[Chooser]

LEMMA FaultRange ==
  ASSUME RetryTypes, NEW what \in FaultKinds, Fault(what)
  PROVE  Range(faults') = Range(faults) \cup {what}
<1>1. PICK n, s : n = Len(faults) /\ s = faults'
  OBVIOUS
<1>2. /\ s \in Seq(FaultKinds) /\ n \in Nat /\ Len(s) = n + 1 /\ s[n + 1] = what
      /\ \A i \in 1..n : s[i] = faults[i]
  BY <1>1, AppendProperties DEF Fault, RetryTypes
<1>3. DOMAIN s = 1..n + 1 /\ DOMAIN faults = 1..n
  BY <1>1, <1>2 DEF RetryTypes
<1> QED
  BY <1>1, <1>2, <1>3 DEF Range

\* What a step does to the list of the transfers that were not whole.
LEMMA FaultsGrow ==
  ASSUME RetryTypes, [RetryNext]_retryVars
  PROVE  Range(faults) \subseteq Range(faults')
<1>1. \A what \in FaultKinds : Fault(what) => Range(faults) \subseteq Range(faults')
  BY FaultRange
<1>k. {"recording", "recording cut", "state", "state cut"} \subseteq FaultKinds
  BY DEF FaultKinds
<1>2. ASSUME NEW p \in Players, Select(p)
      PROVE  Range(faults) \subseteq Range(faults')
  BY <1>1, <1>2, <1>k DEF Select, DownloadReplay, Succeeds
<1>3. ASSUME NEW done \in BOOLEAN, NEW f, NEW state, Put(done, f, state)
      PROVE  Range(faults) \subseteq Range(faults')
  BY <1>1, <1>3, <1>k DEF Put, Succeeds
<1>4. CASE UNCHANGED faults
  BY <1>4
<1>5. CASE HostSelect
  <2>1. Chooser \in Players
    BY DEF Players
  <2> QED
    BY <1>2, <1>5, <2>1 DEF HostSelect
<1>6. CASE HostPause \/ HostRewind
  BY <1>3, <1>6, RetryWires
<1>7. ASSUME NEW p \in Players, ReadSelect(p)
      PROVE  Range(faults) \subseteq Range(faults')
  BY <1>1, <1>2, <1>7, <1>k DEF ReadSelect
<1>8. ASSUME NEW p \in Players, Poll(p)
      PROVE  Range(faults) \subseteq Range(faults')
  BY <1>1, <1>8, <1>k DEF Poll, DownloadState, Fetch, Succeeds
<1>9. CASE HostResume \/ HostGoesLive
  BY <1>4, <1>9 DEF HostResume, HostGoesLive
<1>10. ASSUME NEW p \in Players,
              ReadGameBegin(p) \/ ReadAllReady(p) \/ ReadNak(p) \/ ReadControl(p) \/ ServeFrame(p)
       PROVE  Range(faults) \subseteq Range(faults')
  BY <1>4, <1>10 DEF ReadGameBegin, ReadAllReady, ReadNak, ReadControl, ServeFrame
<1>11. CASE UNCHANGED retryVars
  BY <1>4, <1>11 DEF retryVars
<1> QED
  BY <1>5, <1>6, <1>7, <1>8, <1>9, <1>10, <1>11 DEF RetryNext

LEMMA AnchoredInit == RetryInit => Anchored
BY DEF RetryInit, Anchored

LEMMA AnchoredStep == RetryTypes /\ Refusals /\ Anchored /\ [RetryNext]_retryVars => Anchored'
<1> SUFFICES ASSUME RetryTypes, Refusals, Anchored, [RetryNext]_retryVars
             PROVE  Anchored'
  OBVIOUS
<1>1. Chooser \in Players
  BY DEF Players
<1>t. RetryTypes'
  BY RetryTypesStep
<1>f. "state cut" \notin Range(faults') => "state cut" \notin Range(faults)
  BY FaultsGrow
<1>l. \A q \in Players : Len(played[q]) \in Nat /\ Len(played'[q]) \in Nat
  BY <1>t, SeqLength DEF RetryTypes
\* Steps in which the emulators, the readers and the server's state stand still.
<1>u. ASSUME UNCHANGED <<pos, total, stored>>, readies = Players => readies' = Players,
             \A q \in Players : played'[q] = played[q],
             \A q \in Players : active'[q] => active[q]
      PROVE  Anchored'
  BY <1>f, <1>u DEF Anchored, Follows
\* A recording was selected.
<1>s. ASSUME NEW p \in Players, Select(p), UNCHANGED <<played, stored, readies>>, p \notin readies, played[p] = <<>>,
             p = Chooser => \A q \in Players : ~active[q]
      PROVE  Anchored'
  <2>1. stored = NoState
    BY <1>s DEF Anchored
  <2>2. PICK n \in Nat : total' = [total EXCEPT ![p] = n]
    <3>1. Frames \in Nat
      BY RetryAssumption
    <3>2. \/ total' = [total EXCEPT ![p] = Frames]
          \/ \E n \in 0..Frames - 1 : total' = [total EXCEPT ![p] = n]
      BY <1>s DEF Select, DownloadReplay
    <3> QED
      BY <3>1, <3>2
  <2>3. ASSUME NEW q \in Players, active'[q]
        PROVE  /\ 0 <= pos'[q] /\ pos'[q] <= total'[q]
               /\ "state cut" \notin Range(faults') => Follows(q)'
    <3>1. CASE q = p
      <4>1. pos'[q] = 0 /\ total'[q] = n /\ Len(played'[q]) = 0
        BY <1>s, <2>2, <3>1 DEF Select, RetryTypes
      <4>2. Min({0, n}) = 0
        BY MinOfTwo
      <4> QED
        BY <4>1, <4>2 DEF Follows
    <3>2. CASE q # p
      <4>1. pos'[q] = pos[q] /\ total'[q] = total[q] /\ active[q] /\ played'[q] = played[q]
        BY <1>s, <2>2, <2>3, <3>2 DEF Select, RetryTypes
      <4>2. CASE p # Chooser
        <5>1. total'[Chooser] = total[Chooser]
          BY <1>1, <2>2, <4>2 DEF RetryTypes
        <5> QED
          BY <1>f, <4>1, <5>1 DEF Anchored, Follows
      <4>3. CASE p = Chooser
        BY <1>s, <4>1, <4>3
      <4> QED
        BY <4>2, <4>3
    <3> QED
      BY <3>1, <3>2
  <2> QED
    BY <1>s, <2>1, <2>3 DEF Anchored
\* The host's state went to the server, or did not.
<1>p. ASSUME UNCHANGED <<active, total, readies>>, active[Chooser], readies = Players,
             \A q \in Players \ {Chooser} : pos'[q] = pos[q] /\ played'[q] = played[q],
             0 <= pos'[Chooser], pos'[Chooser] <= total[Chooser],
             "state cut" \notin Range(faults) => Follows(Chooser)',
             NEW done \in BOOLEAN, Put(done, pos'[Chooser], played'[Chooser])
      PROVE  Anchored'
  <2>1. \/ stored' = stored
        \/ stored'.frame = pos'[Chooser] /\ stored'.state = played'[Chooser]
    <3>1. PICK f, s : f = pos'[Chooser] /\ s = played'[Chooser]
      OBVIOUS
    <3>2. Put(done, f, s)
      BY <1>p, <3>1
    <3>3. stored' = stored \/ stored' = [frame |-> f, state |-> s]
      BY <3>2 DEF Put
    <3> QED
      BY <3>1, <3>3
  <2>2. stored' # NoState => readies' = Players /\ 0 <= stored'.frame
    BY <1>p, <2>1 DEF Anchored
  <2>3. ASSUME "state cut" \notin Range(faults'), stored' # NoState
        PROVE  stored'.frame = Len(stored'.state) \/ Len(stored'.state) > total'[Chooser]
    <3>1. CASE stored' = stored
      BY <1>f, <1>p, <2>3, <3>1 DEF Anchored
    <3>2. CASE stored'.frame = pos'[Chooser] /\ stored'.state = played'[Chooser]
      <4>1. PICK a, b : a = Len(played'[Chooser]) /\ b = total[Chooser]
        OBVIOUS
      <4>2. a \in Int /\ b \in Int
        BY <1>1, <1>l, <4>1 DEF RetryTypes
      <4>3. pos'[Chooser] = Min({a, b}) \/ a > b
        BY <1>f, <1>p, <2>3, <4>1 DEF Follows
      <4>4. pos'[Chooser] = a \/ a > b
        BY <4>2, <4>3, MinOfTwo
      <4> QED
        BY <1>p, <3>2, <4>1, <4>4
    <3> QED
      BY <2>1, <3>1, <3>2
  <2>4. ASSUME NEW q \in Players, active'[q]
        PROVE  /\ 0 <= pos'[q] /\ pos'[q] <= total'[q]
               /\ "state cut" \notin Range(faults') => Follows(q)'
    <3>1. CASE q = Chooser
      BY <1>f, <1>p, <3>1
    <3>2. CASE q # Chooser
      BY <1>f, <1>p, <2>4, <3>2 DEF Anchored, Follows
    <3> QED
      BY <3>1, <3>2
  <2> QED
    BY <2>2, <2>3, <2>4 DEF Anchored
<1>2. CASE HostSelect
  <2>1. ~Begun
    BY <1>1, <1>2, SeqLength DEF HostSelect, Begun, RetryTypes
  <2>2. Select(Chooser) /\ UNCHANGED <<played, stored, readies>>
    BY <1>2 DEF HostSelect, retryFrontend
  <2>3. Chooser \notin readies /\ played[Chooser] = <<>> /\ \A q \in Players : ~active[q]
    BY <1>1, <2>1 DEF Refusals, Fresh, Orderly, Begun
  <2> QED
    BY <1>1, <2>2, <2>3, <1>s
<1>3. CASE HostPause
  <2>1. /\ UNCHANGED <<active, total, readies, pos, played>> /\ active[Chooser] /\ stage[Chooser] = "run"
    BY <1>3 DEF HostPause, CanControl
  <2>2. PICK done \in BOOLEAN : Put(done, pos'[Chooser], played'[Chooser])
    BY <1>3, RetryWires
  <2>3. readies = Players
    BY <1>1, <2>1 DEF Refusals, Orderly
  <2>4. /\ 0 <= pos'[Chooser] /\ pos'[Chooser] <= total[Chooser]
        /\ "state cut" \notin Range(faults) => Follows(Chooser)'
    BY <1>1, <2>1 DEF Anchored, Follows
  <2> QED
    BY <2>1, <2>2, <2>3, <2>4, <1>p
<1>4. CASE HostRewind
  <2>1. UNCHANGED <<active, total, readies>> /\ active[Chooser] /\ stage[Chooser] = "run"
    BY <1>4 DEF HostRewind, CanControl
  <2>2. PICK done \in BOOLEAN : Put(done, pos'[Chooser], played'[Chooser])
    BY <1>4, RetryWires
  <2>3. readies = Players
    BY <1>1, <2>1 DEF Refusals, Orderly
  <2>4. PICK f \in 0..pos[Chooser] : /\ f < Len(played[Chooser])
                                   /\ pos' = [pos EXCEPT ![Chooser] = f]
                                   /\ played' = [played EXCEPT ![Chooser] = SubSeq(@, 1, f)]
    BY <1>4 DEF HostRewind
  <2>5. \A q \in Players \ {Chooser} : pos'[q] = pos[q] /\ played'[q] = played[q]
    BY <2>4 DEF RetryTypes
  <2>6. pos[Chooser] \in Int /\ 0 <= pos[Chooser] /\ pos[Chooser] <= total[Chooser] /\ total[Chooser] \in Int
    BY <1>1, <2>1 DEF Anchored, RetryTypes
  <2>7. f \in Nat /\ f <= total[Chooser] /\ pos'[Chooser] = f
    BY <1>1, <2>4, <2>6 DEF RetryTypes
  <2>8. Len(played'[Chooser]) = f
    <3>1. PICK L, s : s = played[Chooser] /\ s \in Seq(L)
      BY <1>1 DEF RetryTypes, IsSeq
    <3>2. Len(s) \in Nat /\ f <= Len(s)
      BY <2>4, <2>7, <3>1
    <3>3. Len(SubSeq(s, 1, f)) = f
      BY <2>7, <3>1, <3>2
    <3>4. played'[Chooser] = SubSeq(s, 1, f)
      BY <1>1, <2>4, <3>1 DEF RetryTypes
    <3> QED
      BY <3>3, <3>4
  <2>9. Follows(Chooser)'
    <3>1. PICK b \in Int : b = total[Chooser]
      BY <2>6
    <3>2. Min({f, b}) = f
      BY <2>7, <3>1, MinOfTwo
    <3>3. total'[Chooser] = b
      BY <2>1, <3>1
    <3> QED
      BY <2>7, <2>8, <3>2, <3>3 DEF Follows
  <2> QED
    BY <2>1, <2>2, <2>3, <2>5, <2>6, <2>7, <2>9, <1>p
<1>5. CASE HostResume \/ HostGoesLive
  <2>1. UNCHANGED <<pos, played, total, stored, readies>>
    BY <1>5 DEF HostResume, HostGoesLive, retryPlayer
  <2>2. \A q \in Players : active'[q] => active[q]
    BY <1>1, <1>5 DEF HostResume, HostGoesLive, retryPlayer, RetryTypes
  <2> QED
    BY <2>1, <2>2, <1>u
<1>6. ASSUME NEW p \in Players, ReadSelect(p)
      PROVE  Anchored'
  <2>1. Len(wire[p]) > 0 /\ Is(p, 1, "select")
    BY <1>6, SeqTails DEF ReadSelect, Arrives, Is, RetryTypes
  <2>2. p # Chooser /\ stage[p] = "room"
    <3>1. Len(wire[p]) \in Nat
      BY SeqLength DEF RetryTypes
    <3>2. 1 \in 1..Len(wire[p])
      BY <2>1, <3>1
    <3>3. Orderly(p)
      BY DEF Refusals
    <3> QED
      BY <2>1, <3>2, <3>3 DEF Orderly
  <2>3. p \notin readies /\ played[p] = <<>>
    BY <2>2 DEF Refusals, Orderly
  <2>4. UNCHANGED <<played, stored, readies>>
    BY <1>6 DEF ReadSelect, retryFrontend
  <2>5. CASE Select(p)
    BY <2>2, <2>3, <2>4, <2>5, <1>s
  <2>6. CASE UNCHANGED <<active, total, pos>>
    BY <2>4, <2>6, <1>u
  <2> QED
    BY <1>6, <2>5, <2>6 DEF ReadSelect
<1>7. ASSUME NEW p \in Players, ReadGameBegin(p)
      PROVE  Anchored'
  <2>1. UNCHANGED <<pos, played, total, stored, active>> /\ readies' = readies \cup {p}
    BY <1>7 DEF ReadGameBegin, retryFrontend
  <2> QED
    BY <1>7, <2>1, <1>u DEF Players
<1>8. ASSUME NEW p \in Players, ReadAllReady(p) \/ ReadControl(p)
      PROVE  Anchored'
  <2>1. UNCHANGED <<pos, played, total, stored, readies>>
    BY <1>8 DEF ReadAllReady, ReadControl, retryFrontend
  <2>2. \A q \in Players : active'[q] => active[q]
    BY <1>8 DEF ReadAllReady, ReadControl, RetryTypes
  <2> QED
    BY <2>1, <2>2, <1>u
<1>9. ASSUME NEW p \in Players, ReadNak(p)
      PROVE  Anchored'
  <2>1. /\ UNCHANGED <<pos, played, stored, readies, faults>>
        /\ active' = [active EXCEPT ![p] = FALSE] /\ total' = [total EXCEPT ![p] = -1]
    BY <1>9 DEF ReadNak, ResetSession, retryFrontend
  <2>2. ASSUME NEW q \in Players, active'[q]
        PROVE  /\ 0 <= pos'[q] /\ pos'[q] <= total'[q]
               /\ "state cut" \notin Range(faults') => Follows(q)'
    <3>1. q # p /\ active[q] /\ total'[q] = total[q]
      BY <2>1, <2>2 DEF RetryTypes
    <3>2. CASE p = Chooser
      <4>1. total'[Chooser] = -1 /\ Len(played'[q]) > -1
        BY <1>l, <2>1, <3>2 DEF RetryTypes
      <4> QED
        BY <2>1, <3>1, <4>1 DEF Anchored, Follows
    <3>3. CASE p # Chooser
      <4>1. total'[Chooser] = total[Chooser]
        BY <1>1, <2>1, <3>3 DEF RetryTypes
      <4> QED
        BY <2>1, <3>1, <4>1 DEF Anchored, Follows
    <3> QED
      BY <3>2, <3>3
  <2>3. ASSUME "state cut" \notin Range(faults'), stored' # NoState
        PROVE  stored'.frame = Len(stored'.state) \/ Len(stored'.state) > total'[Chooser]
    <3>1. total'[Chooser] = total[Chooser] \/ total'[Chooser] = -1
      BY <1>1, <2>1 DEF RetryTypes
    <3>2. PICK n, c : n = Len(stored.state) /\ c = total[Chooser]
      OBVIOUS
    <3>3. n \in Nat /\ c \in Int
      BY <1>1, <3>2, SeqLength DEF RetryTypes
    <3>4. stored' = stored /\ (stored.frame = n \/ n > c)
      BY <2>1, <2>3, <3>2 DEF Anchored
    <3>5. stored.frame = n \/ n > total'[Chooser]
      <4>1. CASE total'[Chooser] = c
        BY <3>4, <4>1
      <4>2. CASE total'[Chooser] = -1
        BY <3>3, <4>2
      <4> QED
        BY <3>1, <3>2, <4>1, <4>2
    <3> QED
      BY <3>2, <3>4, <3>5
  <2> QED
    BY <2>1, <2>2, <2>3 DEF Anchored
\* An emulator moves with its reader.
<1>e. ASSUME UNCHANGED <<active, total, stored, readies>>, NEW p \in Players,
             \A q \in Players \ {p} : pos'[q] = pos[q] /\ played'[q] = played[q],
             active[p] => /\ 0 <= pos'[p] /\ pos'[p] <= total[p]
                          /\ "state cut" \notin Range(faults') => Follows(p)'
      PROVE  Anchored'
  <2>1. ASSUME NEW q \in Players, active'[q]
        PROVE  /\ 0 <= pos'[q] /\ pos'[q] <= total'[q]
               /\ "state cut" \notin Range(faults') => Follows(q)'
    <3>1. CASE q = p
      BY <1>e, <2>1, <3>1
    <3>2. CASE q # p
      BY <1>e, <1>f, <2>1, <3>2 DEF Anchored, Follows
    <3> QED
      BY <3>1, <3>2
  <2> QED
    BY <1>e, <1>f, <2>1 DEF Anchored
<1>10. ASSUME NEW p \in Players, ServeFrame(p)
       PROVE  Anchored'
  <2>1. /\ UNCHANGED <<active, total, stored, readies, faults>> /\ active[p]
        /\ pos' = [pos EXCEPT ![p] = IF @ < total[p] THEN @ + 1 ELSE @]
        /\ played' = [played EXCEPT ![p] = Append(@, held'[p])]
    BY <1>10 DEF ServeFrame, retryServer
  <2>2. \A q \in Players \ {p} : pos'[q] = pos[q] /\ played'[q] = played[q]
    BY <2>1 DEF RetryTypes
  <2>3. PICK x, y, a, b, c : /\ x = pos[p] /\ y = pos'[p] /\ a = Len(played[p]) /\ b = total[p]
                             /\ c = total[Chooser]
    OBVIOUS
  <2>4. x \in Int /\ a \in Int /\ b \in Int /\ c \in Int /\ 0 <= x /\ x <= b /\ y = IF x < b THEN x + 1 ELSE x
    <3>1. pos[p] \in Int /\ total[p] \in Int /\ total[Chooser] \in Int /\ Len(played[p]) \in Int
      BY <1>1, <1>l DEF RetryTypes
    <3>2. 0 <= pos[p] /\ pos[p] <= total[p]
      BY <2>1 DEF Anchored
    <3>3. pos'[p] = IF pos[p] < total[p] THEN pos[p] + 1 ELSE pos[p]
      BY <2>1 DEF RetryTypes
    <3>4. x \in Int /\ a \in Int /\ b \in Int /\ c \in Int
      BY <2>3, <3>1
    <3>5. 0 <= x /\ x <= b
      BY <2>3, <3>2
    <3>6. y = IF x < b THEN x + 1 ELSE x
      BY <2>3, <3>3
    <3> QED
      BY <3>4, <3>5, <3>6
  <2>5. Len(played'[p]) = a + 1
    <3>1. played'[p] = Append(played[p], held'[p])
      BY <2>1 DEF RetryTypes
    <3>2. Len(Append(played[p], held'[p])) = Len(played[p]) + 1
      BY SeqAppends DEF RetryTypes
    <3> QED
      BY <2>3, <3>1, <3>2
  <2>6. ASSUME "state cut" \notin Range(faults)
        PROVE  Follows(p)'
    <3>1. x = Min({a, b}) \/ a > c
      BY <2>1, <2>3, <2>6 DEF Anchored, Follows
    <3>2. x = Min({a, b}) => y = Min({a + 1, b})
      <4>1. Min({a, b}) = (IF a <= b THEN a ELSE b) /\ Min({a + 1, b}) = (IF a + 1 <= b THEN a + 1 ELSE b)
        BY <2>4, MinOfTwo
      <4> QED
        BY <2>4, <4>1
    <3>3. y = Min({a + 1, b}) \/ a + 1 > c
      BY <2>4, <3>1, <3>2
    <3> QED
      BY <2>1, <2>3, <2>5, <3>3 DEF Follows
  <2>7. 0 <= pos'[p] /\ pos'[p] <= total[p]
    BY <2>3, <2>4
  <2> QED
    BY <2>1, <2>2, <2>6, <2>7, <1>e
<1>11. ASSUME NEW p \in Players, Poll(p)
       PROVE  Anchored'
  <2>1. UNCHANGED <<active, total, stored, readies>>
    BY <1>11 DEF Poll, retryServer
  <2>2. CASE UNCHANGED <<played, pos>>
    BY <2>1, <2>2, <1>u
  <2>3. CASE DownloadState(p)
    <3>1. \/ pos' = pos /\ \A q \in Players : played'[q] = played[q]
          \/ /\ stored # NoState
             /\ pos' = [pos EXCEPT ![p] = Min({stored.frame, total[p]})]
             /\ \/ played' = [played EXCEPT ![p] = stored.state]
                \/ (\A q \in Players : played'[q] = played[q]) /\ Fault("state cut")
      <4>1. PICK got \in {"whole", "state cut", "state"} :
              /\ Fetch(got)
              /\ pos' = [pos EXCEPT ![p] = IF got = "state" THEN @ ELSE Min({stored.frame, total[p]})]
              /\ played' = [played EXCEPT ![p] = IF got = "whole" THEN stored.state ELSE @]
        BY <2>3 DEF DownloadState
      <4>2. CASE got = "state"
        <5>1. pos' = [pos EXCEPT ![p] = @] /\ played' = [played EXCEPT ![p] = @]
          BY <4>1, <4>2
        <5> QED
          BY <5>1 DEF RetryTypes
      <4>3. CASE got = "state cut"
        <5>1. played' = [played EXCEPT ![p] = @]
          BY <4>1, <4>3
        <5>2. \A q \in Players : played'[q] = played[q]
          BY <5>1 DEF RetryTypes
        <5>3. stored # NoState /\ Fault("state cut")
          BY <4>1, <4>3 DEF Fetch
        <5>4. pos' = [pos EXCEPT ![p] = Min({stored.frame, total[p]})]
          BY <4>1, <4>3
        <5> QED
          BY <5>2, <5>3, <5>4
      <4>4. CASE got = "whole"
        BY <4>1, <4>4 DEF Fetch
      <4> QED
        BY <4>1, <4>2, <4>3, <4>4
    <3>2. CASE pos' = pos /\ \A q \in Players : played'[q] = played[q]
      BY <2>1, <3>2, <1>u
    <3>3. CASE /\ stored # NoState
               /\ pos' = [pos EXCEPT ![p] = Min({stored.frame, total[p]})]
               /\ \/ played' = [played EXCEPT ![p] = stored.state]
                  \/ (\A q \in Players : played'[q] = played[q]) /\ Fault("state cut")
      <4>1. \A q \in Players \ {p} : pos'[q] = pos[q] /\ played'[q] = played[q]
        BY <3>3 DEF RetryTypes
      <4>2. PICK a, b, c, n : a = stored.frame /\ b = total[p] /\ c = total[Chooser] /\ n = Len(stored.state)
        OBVIOUS
      <4>3. a \in Int /\ b \in Int /\ c \in Int /\ n \in Nat
        <5>1. IsSeq(stored.state) /\ stored.frame \in Int /\ total[p] \in Int /\ total[Chooser] \in Int
          BY <1>1 DEF RetryTypes
        <5>2. Len(stored.state) \in Nat
          BY <5>1, SeqLength
        <5> QED
          BY <4>2, <5>1, <5>2, Zenon
      <4>4. Min({a, b}) = IF a <= b THEN a ELSE b
        BY <4>3, MinOfTwo
      <4>5. pos'[p] = Min({a, b})
        BY <3>3, <4>2 DEF RetryTypes
      <4>6. active[p] => 0 <= pos'[p] /\ pos'[p] <= total[p]
        <5>1. 0 <= a
          BY <3>3, <4>2, Zenon DEF Anchored
        <5>2. PICK x : x = pos[p]
          OBVIOUS
        <5>3. x \in Int
          BY <5>2 DEF RetryTypes
        <5>4. active[p] => 0 <= x /\ x <= b
          BY <4>2, <5>2, Zenon DEF Anchored
        <5>5. active[p] => 0 <= Min({a, b}) /\ Min({a, b}) <= b
          BY <4>3, <4>4, <5>1, <5>3, <5>4
        <5> QED
          BY <4>2, <4>5, <5>5
      <4>7. ASSUME active[p], "state cut" \notin Range(faults')
            PROVE  Follows(p)'
        <5>1. played'[p] = stored.state
          <6>1. "state cut" \in FaultKinds
            BY DEF FaultKinds
          <6>2. ~Fault("state cut")
            BY <4>7, <6>1, FaultRange
          <6> QED
            BY <3>3, <6>2 DEF RetryTypes
        <5>2. a = n \/ n > c
          BY <1>f, <3>3, <4>2, <4>7 DEF Anchored
        <5>3. /\ total'[p] = b /\ total'[Chooser] = c /\ Len(played'[p]) = n
              /\ pos'[p] = Min({n, b}) \/ n > c
          BY <2>1, <4>2, <4>5, <5>1, <5>2
        <5> QED
          BY <5>3 DEF Follows
      <4> QED
        BY <2>1, <4>1, <4>6, <4>7, <1>e
    <3> QED
      BY <3>1, <3>2, <3>3
  <2> QED
    BY <1>11, <2>2, <2>3 DEF Poll
<1>12. CASE UNCHANGED retryVars
  BY <1>12, <1>u DEF retryVars, retryPlayer, retryFrontend, retryServer
<1> QED
  BY <1>2, <1>3, <1>4, <1>5, <1>6, <1>7, <1>8, <1>9, <1>10, <1>11, <1>12 DEF RetryNext

LEMMA AnchoredInvariant == RetrySpec => [](RetryTypes /\ Refusals /\ Anchored)
BY RefusalsInvariant, AnchoredInit, AnchoredStep, PTL DEF RetrySpec

-----------------------------------------------------------------------------
Ctl(m, a) == m.type = "control" /\ m.action = a

\* Every transfer came whole, but for recordings.
Smooth == Range(faults) \subseteq {"recording cut"}

Caught(p) == mailbox[p].action = "none" /\ paused[p] /\ played[p] = played[Chooser]

\* The last that p hears of is that the host stopped and its state is there.
Stopped(p) ==
  /\ Len(wire[p]) > 0 => Ctl(wire[p][Len(wire[p])], "stateReady")
  /\ Len(wire[p]) = 0 => mailbox[p].action = "stateReady" \/ Caught(p)

\* As before, and then that the host went live.
Gone(p) ==
  /\ Len(wire[p]) > 0 => Ctl(wire[p][Len(wire[p])], "goLive")
  /\ Len(wire[p]) > 1 => Ctl(wire[p][Len(wire[p]) - 1], "stateReady")
  /\ Len(wire[p]) = 1 => mailbox[p].action = "stateReady" \/ Caught(p)
  /\ Len(wire[p]) = 0 => mailbox[p].action \in {"none", "goLive"} /\ ~active[p] /\ played[p] = played[Chooser]

SmoothAt(p) ==
  /\ stage[p] # "room" => active[p] \/ (Live(Chooser) /\ (p = Chooser \/ Len(wire[p]) = 0))
  /\ \A i \in 1..Len(wire[p]) :
       /\ ~Is(p, i, "nak")
       /\ Is(p, i, "begin") => active[p] \/ Is(p, 1, "select")
       /\ Ctl(wire[p][i], "goLive") => i = Len(wire[p]) /\ Live(Chooser)

Joined ==
  /\ \A p \in Players : SmoothAt(p)
  /\ paused[Chooser] => /\ active[Chooser] /\ stored.state = played[Chooser]
                        /\ \A p \in Peers \ lost : Stopped(p)
  /\ Live(Chooser) => /\ ~paused[Chooser] /\ stored.state = played[Chooser]
                      /\ \A p \in Peers \ lost : Gone(p)

Together ==
  /\ mailbox[Chooser] = None /\ (paused[Chooser] => stage[Chooser] = "run")
  /\ Smooth => Joined

LEMMA TogetherInit == RetryInit => Together
<1> SUFFICES ASSUME RetryInit PROVE Together
  OBVIOUS
<1>1. Chooser \in Players
  BY DEF Players
<1>2. \A p \in Players : stage[p] = "room" /\ Len(wire[p]) = 0 /\ ~paused[p] /\ mailbox[p] = None
  BY DEF RetryInit
<1> QED
  BY <1>1, <1>2 DEF Together, Joined, SmoothAt, Live

\* What p hears of, after it took the first message.
LEMMA StoppedPops ==
  ASSUME NEW p \in Players, Stopped(p), NEW s, NEW t, s = wire[p], t = wire'[p], Len(s) \in Nat, Len(s) > 0,
         Len(t) = Len(s) - 1, \A i \in 1..Len(s) - 1 : t[i] = s[i + 1],
         Ctl(s[1], "stateReady") => mailbox'[p].action = "stateReady"
  PROVE  Stopped(p)'
<1>1. PICK n : n = Len(s)
  OBVIOUS
<1>2. n \in Nat /\ n > 0 /\ Len(t) = n - 1 /\ Ctl(s[n], "stateReady")
  BY <1>1 DEF Stopped
<1>3. CASE n = 1
  BY <1>2, <1>3 DEF Stopped
<1>4. CASE n # 1
  <2>1. n - 1 \in 1..n - 1 /\ n - 1 > 0
    BY <1>2, <1>4
  <2>2. t[n - 1] = s[n]
    BY <1>1, <1>2, <2>1
  <2> QED
    BY <1>2, <2>1, <2>2 DEF Stopped
<1> QED
  BY <1>3, <1>4

LEMMA GonePops ==
  ASSUME NEW p \in Players, Gone(p), NEW s, NEW t, s = wire[p], t = wire'[p], Len(s) \in Nat, Len(s) > 0,
         Len(t) = Len(s) - 1, \A i \in 1..Len(s) - 1 : t[i] = s[i + 1],
         Ctl(s[1], "stateReady") => mailbox'[p].action = "stateReady",
         Ctl(s[1], "goLive") /\ (mailbox[p].action = "stateReady" \/ Caught(p)) =>
           mailbox'[p].action = "goLive" /\ ~active'[p] /\ played'[p] = played'[Chooser]
  PROVE  Gone(p)'
<1>1. PICK n : n = Len(s)
  OBVIOUS
<1>2. n \in Nat /\ n > 0 /\ Len(t) = n - 1 /\ Ctl(s[n], "goLive")
  BY <1>1 DEF Gone
<1>3. CASE n = 1
  <2>1. mailbox[p].action = "stateReady" \/ Caught(p)
    BY <1>1, <1>3 DEF Gone
  <2>2. Ctl(s[1], "goLive")
    BY <1>2, <1>3
  <2>3. mailbox'[p].action = "goLive" /\ ~active'[p] /\ played'[p] = played'[Chooser]
    BY <2>1, <2>2
  <2>4. n - 1 = 0
    BY <1>3
  <2>5. Len(wire'[p]) = 0
    BY <1>2, <2>4, Zenon
  <2>6. ~(0 > 0) /\ ~(0 > 1) /\ 0 # 1
    OBVIOUS
  <2> QED
    BY <2>3, <2>5, <2>6, Zenon DEF Gone
<1>4. CASE n # 1
  <2>1. n - 1 \in 1..n - 1 /\ n - 1 > 0 /\ n > 1
    BY <1>2, <1>4
  <2>2. t[n - 1] = s[n] /\ Ctl(s[n - 1], "stateReady")
    BY <1>1, <1>2, <2>1 DEF Gone
  <2>3. CASE n = 2
    <3>1. n - 1 = 1 /\ n = 2
      BY <2>3
    <3>2. Len(t) = 1 /\ t[1] = s[2] /\ Ctl(s[1], "stateReady") /\ Ctl(s[2], "goLive")
      BY <1>2, <2>2, <3>1, Zenon
    <3>3. mailbox'[p].action = "stateReady"
      BY <3>2
    <3>4. Len(wire'[p]) = 1 /\ Ctl(wire'[p][1], "goLive")
      BY <3>2, Zenon
    <3>5. ~(1 > 1) /\ 1 # 0
      OBVIOUS
    <3> QED
      BY <3>3, <3>4, <3>5, Zenon DEF Gone
  <2>4. CASE n # 2
    <3>1. (n - 1) - 1 \in 1..n - 1 /\ ((n - 1) - 1) + 1 = n - 1 /\ n - 1 # 1 /\ n - 1 # 0
      BY <1>2, <2>1, <2>4
    <3>2. t[(n - 1) - 1] = s[n - 1]
      BY <1>1, <3>1
    <3> QED
      BY <1>2, <2>1, <2>2, <3>1, <3>2 DEF Gone
  <2> QED
    BY <2>3, <2>4
<1> QED
  BY <1>3, <1>4

\* Only a transfer of a recording may be cut for the game to stay together.
LEMMA SmoothSteps ==
  ASSUME RetryTypes, [RetryNext]_retryVars, Smooth'
  PROVE  Smooth /\ ~Fault("recording") /\ ~Fault("state") /\ ~Fault("state cut")
<1>1. {"recording", "state", "state cut"} \subseteq FaultKinds
  BY DEF FaultKinds
<1>2. Smooth
  BY FaultsGrow DEF Smooth
<1>3. ASSUME NEW what \in FaultKinds, Fault(what)
      PROVE  what = "recording cut"
  BY <1>3, FaultRange DEF Smooth
<1> QED
  BY <1>1, <1>2, <1>3

LEMMA HostsMailbox ==
  ASSUME RetryTypes, Refusals, Together, [RetryNext]_retryVars
  PROVE  mailbox'[Chooser] = None /\ (paused'[Chooser] => stage'[Chooser] = "run")
<1>1. Chooser \in Players /\ Chooser \notin Peers
  BY RetryAssumption DEF Players
<1>2. mailbox[Chooser] = None /\ (paused[Chooser] => stage[Chooser] = "run") /\ None.action = "none"
  BY DEF Together, None
<1>3. CASE HostSelect
  BY <1>1, <1>2, <1>3 DEF HostSelect, Select, retryFrontend, RetryTypes
<1>4. CASE HostPause \/ HostRewind \/ HostResume \/ HostGoesLive
  BY <1>1, <1>2, <1>4 DEF HostPause, HostRewind, HostResume, HostGoesLive, CanControl, retryPlayer, RetryTypes
<1>5. ASSUME NEW p \in Players, ReadSelect(p)
      PROVE  mailbox'[Chooser] = None /\ UNCHANGED <<paused, stage>>
  BY <1>1, <1>2, <1>5 DEF ReadSelect, Select, retryFrontend, RetryTypes
<1>6. ASSUME NEW p \in Players, ReadGameBegin(p)
      PROVE  mailbox'[Chooser] = None /\ UNCHANGED paused /\ (stage[Chooser] = "run" => stage'[Chooser] = "run")
  <2>1. Len(wire[p]) \in Nat /\ Len(wire[p]) > 0 /\ wire[p][1].type = "begin"
    BY <1>6, SeqTails DEF ReadGameBegin, Arrives, RetryTypes
  <2>2. 1 \in 1..Len(wire[p]) /\ Orderly(p)
    BY <2>1 DEF Refusals
  <2>3. stage[p] = "room"
    BY <2>1, <2>2, OrderlyAt
  <2> QED
    BY <1>1, <1>2, <1>6, <2>3 DEF ReadGameBegin, retryFrontend, RetryTypes
<1>7. ASSUME NEW p \in Players, ReadAllReady(p) \/ ReadNak(p)
      PROVE  mailbox'[Chooser] = None /\ UNCHANGED paused /\ (stage[Chooser] = "run" => stage'[Chooser] = "run")
  BY <1>1, <1>2, <1>7 DEF ReadAllReady, ReadNak, ResetSession, retryFrontend, RetryTypes
<1>8. ASSUME NEW p \in Players, ReadControl(p)
      PROVE  mailbox'[Chooser] = None /\ UNCHANGED <<paused, stage>>
  <2>1. Len(wire[p]) \in Nat /\ Len(wire[p]) > 0 /\ wire[p][1].type = "control"
    BY <1>8, SeqTails DEF ReadControl, Arrives, RetryTypes
  <2>2. 1 \in 1..Len(wire[p]) /\ Orderly(p)
    BY <2>1 DEF Refusals
  <2>3. p # Chooser
    BY <2>1, <2>2, OrderlyAt
  <2> QED
    BY <1>1, <1>2, <1>8, <2>3 DEF ReadControl, retryFrontend, RetryTypes
<1>9. ASSUME NEW p \in Players, ServeFrame(p)
      PROVE  UNCHANGED <<mailbox, paused, stage>>
  BY <1>9 DEF ServeFrame
<1>10. ASSUME NEW p \in Players, Poll(p)
       PROVE  p # Chooser /\ UNCHANGED stage /\ mailbox'[Chooser] = None /\ paused'[Chooser] = paused[Chooser]
  <2>1. p # Chooser
    BY <1>2, <1>10 DEF Poll
  <2> QED
    BY <1>1, <1>2, <1>10, <2>1 DEF Poll, RetryTypes
<1>11. CASE UNCHANGED retryVars
  BY <1>2, <1>11 DEF retryVars, retryPlayer, retryFrontend
<1> QED
  BY <1>2, <1>3, <1>4, <1>5, <1>6, <1>7, <1>8, <1>9, <1>10, <1>11 DEF RetryNext

\* The host tells something: what is on the way is still in order.
LEMMA SmoothTold ==
  ASSUME RetryTypes, Refusals, Joined, NEW a, NEW f, Wires({}, Peers, Control(a, f)), UNCHANGED stage,
         stage[Chooser] = "run", active[Chooser], \A q \in Peers : active'[q] = active[q],
         a = "goLive" <=> ~active'[Chooser]
  PROVE  \A q \in Players : SmoothAt(q)'
<1>1. Chooser \in Players /\ Chooser \notin Peers /\ ~Live(Chooser)
  BY RetryAssumption DEF Players, Live
<1>2. \A q \in Players : stage[q] # "room"
  BY <1>1 DEF Refusals, Orderly
<1> SUFFICES ASSUME NEW q \in Players
             PROVE  SmoothAt(q)'
  OBVIOUS
<1>3. active[q]
  BY <1>1, <1>2 DEF Joined, SmoothAt
<1>4. a = "goLive" => Live(Chooser)'
  BY DEF Live
<1>5. active'[q] \/ (Live(Chooser)' /\ q = Chooser)
  BY <1>3, <1>4 DEF Players
<1>6. PICK s, t : s = wire[q] /\ t = wire'[q]
  OBVIOUS
<1>7. PICK d \in {0, 1} : d = 1 <=> q \in Peers
  OBVIOUS
<1>8. /\ Len(s) \in Nat /\ Len(t) \in Nat /\ Len(t) = Len(s) + d
      /\ \A i \in 1..Len(s) : t[i] = s[i]
      /\ d = 1 => t[Len(t)] = Control(a, f)
  <2>1. PICK e \in {0, 1} : e = 0
    OBVIOUS
  <2>2. /\ Len(s) \in Nat /\ Len(t) \in Nat /\ Len(t) = Len(s) - e + d
        /\ \A i \in 1..Len(s) - e : t[i] = s[i + e]
        /\ d = 1 => t[Len(t)] = Control(a, f)
    <3>1. e = 1 <=> q \in {}
      BY <2>1
    <3> QED
      BY <1>6, <1>7, <3>1, WireFacts
  <2> QED
    BY <2>1, <2>2
<1>9. \A i \in 1..Len(s) : s[i].type # "nak" /\ s[i].type # "begin" /\ ~Ctl(s[i], "goLive")
  <2> SUFFICES ASSUME NEW i \in 1..Len(s)
               PROVE  s[i].type # "nak" /\ s[i].type # "begin" /\ ~Ctl(s[i], "goLive")
    OBVIOUS
  <2>1. Orderly(q) /\ SmoothAt(q)
    BY DEF Refusals, Joined
  <2>2. s[i].type # "begin"
    BY <1>2, <1>6, <2>1, OrderlyAt
  <2>3. s[i].type # "nak" /\ ~Ctl(s[i], "goLive")
    BY <1>1, <1>6, <2>1 DEF SmoothAt, Is
  <2> QED
    BY <2>2, <2>3
<1>10. \A i \in 1..Len(t) : /\ t[i].type # "nak" /\ t[i].type # "begin"
                            /\ Ctl(t[i], "goLive") => i = Len(t) /\ Live(Chooser)'
  <2> SUFFICES ASSUME NEW i \in 1..Len(t)
               PROVE  /\ t[i].type # "nak" /\ t[i].type # "begin"
                      /\ Ctl(t[i], "goLive") => i = Len(t) /\ Live(Chooser)'
    OBVIOUS
  <2>1. CASE i \in 1..Len(s)
    BY <1>8, <1>9, <2>1
  <2>2. CASE i \notin 1..Len(s)
    <3>1. i = Len(t) /\ t[i] = Control(a, f)
      BY <1>8, <2>2
    <3>2. t[i].type = "control" /\ t[i].action = a
      BY <3>1 DEF Control
    <3> QED
      BY <1>4, <3>1, <3>2 DEF Ctl
  <2> QED
    BY <2>1, <2>2
<1> QED
  BY <1>5, <1>6, <1>10 DEF SmoothAt, Is

\* A player takes a message: the others are as they were, and of its own the rest is left.
LEMMA SmoothPops ==
  ASSUME RetryTypes, Joined, NEW p \in Players, wire[p] # <<>>, wire' = Pop(p), Live(Chooser)' <=> Live(Chooser),
         NEW s, NEW t, s = wire[p], t = wire'[p]
  PROVE  /\ \A q \in Players \ {p} : wire'[q] = wire[q]
         /\ Len(s) \in Nat /\ Len(s) > 0 /\ Len(t) = Len(s) - 1 /\ \A i \in 1..Len(s) - 1 : t[i] = s[i + 1]
         /\ s[1] = Head(wire[p])
         /\ \A i \in 1..Len(t) : ~Is(p, i, "nak")' /\ (Ctl(t[i], "goLive") => i = Len(t) /\ Live(Chooser)')
<1>1. /\ Len(s) \in Nat /\ Len(s) > 0 /\ Len(t) = Len(s) - 1 /\ \A i \in 1..Len(s) - 1 : t[i] = s[i + 1]
      /\ s[1] = Head(wire[p])
  BY SeqTails DEF Pop, RetryTypes
<1>2. \A q \in Players \ {p} : wire'[q] = wire[q]
  BY DEF Pop, RetryTypes
<1>3. ASSUME NEW i \in 1..Len(t)
      PROVE  ~Is(p, i, "nak")' /\ (Ctl(t[i], "goLive") => i = Len(t) /\ Live(Chooser)')
  <2>1. i + 1 \in 1..Len(s) /\ t[i] = s[i + 1]
    BY <1>1
  <2>2. s[i + 1].type # "nak" /\ (Ctl(s[i + 1], "goLive") => i + 1 = Len(s) /\ Live(Chooser))
    BY <2>1 DEF Joined, SmoothAt, Is
  <2>3. t[i].type # "nak" /\ (Ctl(t[i], "goLive") => i + 1 = Len(s) /\ Live(Chooser))
    BY <2>1, <2>2
  <2> QED
    BY <1>1, <2>3 DEF Is
<1> QED
  BY <1>1, <1>2, <1>3

LEMMA JoinedStep ==
  ASSUME RetryTypes, Refusals, Together, [RetryNext]_retryVars, Smooth'
  PROVE  Joined'
<1>1. Chooser \in Players /\ Chooser \notin Peers /\ Peers = Players \ {Chooser}
  BY RetryAssumption DEF Players
<1>s. Smooth /\ ~Fault("recording") /\ ~Fault("state") /\ ~Fault("state cut")
  BY SmoothSteps
<1>j. Joined /\ mailbox[Chooser] = None /\ (paused[Chooser] => stage[Chooser] = "run")
  BY <1>s DEF Together
<1>r. stage[Chooser] = "run" => \A q \in Players : stage[q] # "room"
  BY <1>1 DEF Refusals, Orderly
<1>l. \A q \in Players : Len(wire[q]) \in Nat
  BY SeqLength DEF RetryTypes
\* What is on its way to the players stays, and so does what the host's frontend does.
<1>k. ASSUME UNCHANGED stage, \A q \in Players : wire'[q] = wire[q], lost \subseteq lost',
             UNCHANGED <<active, stored>>, played'[Chooser] = played[Chooser], paused'[Chooser] = paused[Chooser],
             \A q \in Peers : (Stopped(q) => Stopped(q)') /\ (Gone(q) => Gone(q)')
      PROVE  Joined'
  <2>1. Live(Chooser)' <=> Live(Chooser)
    BY <1>k DEF Live
  <2>2. \A q \in Players : SmoothAt(q)'
    BY <1>j, <1>k, <2>1 DEF Joined, SmoothAt, Is
  <2> QED
    BY <1>j, <1>k, <2>1, <2>2 DEF Joined
<1>2. CASE HostSelect
  <2>1. Live(Chooser)' = FALSE /\ ~paused'[Chooser]
    BY <1>1, <1>2, <1>j DEF HostSelect, Live, retryFrontend
  <2>2. ASSUME NEW q \in Players
        PROVE  SmoothAt(q)'
    <3>1. stage'[q] = "room" /\ Len(wire[q]) = 0 /\ IsSeq(wire[q])
      <4>1. ~Begun
        BY <1>1, <1>2, SeqLength DEF HostSelect, Begun, RetryTypes
      <4> QED
        BY <1>2, <4>1 DEF HostSelect, Refusals, Fresh, RetryTypes
    <3>2. CASE q = Chooser
      <4>1. wire'[q] = Append(wire[q], Plain("begin"))
        BY <1>1, <1>2, <3>2 DEF HostSelect, Deliver
      <4>2. PICK t : t = wire'[q]
        OBVIOUS
      <4>3. Len(t) = 1 /\ t[1] = Plain("begin")
        BY <3>1, <4>1, <4>2, SeqAppends
      <4>4. active'[q] = TRUE
        BY <1>1, <1>2, <3>2 DEF HostSelect, Select, RetryTypes
      <4>5. \A i \in 1..Len(t) : t[i].type = "begin"
        BY <4>3 DEF Plain
      <4> QED
        BY <3>1, <4>2, <4>4, <4>5 DEF SmoothAt, Is, Ctl
    <3>3. CASE q # Chooser
      <4>1. wire'[q] = Append(Append(wire[q], Plain("select")), Plain("begin"))
        BY <1>1, <1>2, <3>3 DEF HostSelect, Deliver
      <4>2. PICK w, t : w = Append(wire[q], Plain("select")) /\ t = wire'[q]
        OBVIOUS
      <4>3. IsSeq(w) /\ Len(w) = 1 /\ w[1] = Plain("select")
        BY <3>1, <4>2, SeqAppends
      <4>4. Len(t) = 2 /\ t[1] = w[1] /\ t[2] = Plain("begin")
        <5>1. t = Append(w, Plain("begin"))
          BY <4>1, <4>2
        <5>2. Len(Append(w, Plain("begin"))) = Len(w) + 1
          BY <4>3, SeqAppends
        <5>3. Append(w, Plain("begin"))[Len(w) + 1] = Plain("begin")
          BY <4>3, SeqAppends
        <5>4. Append(w, Plain("begin"))[1] = w[1]
          BY <4>3, SeqAppends
        <5> QED
          BY <4>3, <5>1, <5>2, <5>3, <5>4
      <4>5. t[1].type = "select" /\ \A i \in 1..Len(t) : t[i].type \in {"select", "begin"}
        BY <4>3, <4>4 DEF Plain
      <4> QED
        BY <3>1, <4>2, <4>5 DEF SmoothAt, Is, Ctl
    <3> QED
      BY <3>2, <3>3
  <2> QED
    BY <2>1, <2>2 DEF Joined
<1>3. CASE HostPause \/ HostRewind
  <2>1. PICK done \in BOOLEAN :
          /\ Put(done, pos'[Chooser], played'[Chooser])
          /\ Wires({}, Peers, Control(IF done THEN "stateReady" ELSE "pause", pos'[Chooser]))
    BY <1>3, RetryWires
  <2>2. done = TRUE
    BY <1>s, <2>1 DEF Put
  <2>3. Wires({}, Peers, Control("stateReady", pos'[Chooser])) /\ stored'.state = played'[Chooser]
    <3>1. PICK f, s : f = pos'[Chooser] /\ s = played'[Chooser]
      OBVIOUS
    <3>2. stored' = [frame |-> f, state |-> s]
      BY <2>1, <2>2, <3>1 DEF Put
    <3> QED
      BY <2>1, <2>2, <3>1, <3>2
  <2>4. UNCHANGED <<stage, active>> /\ stage[Chooser] = "run" /\ active[Chooser]
    BY <1>3 DEF HostPause, HostRewind, CanControl
  <2>5. \A q \in Players : SmoothAt(q)'
    BY <1>j, <2>3, <2>4, SmoothTold
  <2>6. ASSUME NEW q \in Peers
        PROVE  Stopped(q)'
    <3>1. PICK t : t = wire'[q]
      OBVIOUS
    <3>2. PICK e \in {0, 1}, d \in {0, 1} : e = 0 /\ d = 1
      OBVIOUS
    <3>3. (e = 1 <=> q \in {}) /\ (d = 1 <=> q \in Peers) /\ q \in Players
      BY <1>1, <2>6, <3>2
    <3>4. PICK s : s = wire[q]
      OBVIOUS
    <3>5. Len(s) \in Nat /\ Len(t) = Len(s) - e + d /\ (d = 1 => t[Len(t)] = Control("stateReady", pos'[Chooser]))
      BY <2>3, <3>1, <3>3, <3>4, WireFacts
    <3>6. t[Len(t)].type = "control" /\ t[Len(t)].action = "stateReady"
      BY <3>2, <3>5 DEF Control
    <3>7. Len(t) # 0
      BY <3>2, <3>5
    <3> QED
      BY <3>1, <3>6, <3>7 DEF Stopped, Ctl
  <2> QED
    BY <2>3, <2>4, <2>5, <2>6 DEF Joined, Live
<1>4. CASE HostResume
  <2>1. PICK f : Wires({}, Peers, Control("resume", f))
    BY <1>4, RetryWires
  <2>2. /\ UNCHANGED <<stage, active>> /\ stage[Chooser] = "run" /\ active[Chooser]
        /\ paused'[Chooser] = FALSE
    BY <1>1, <1>4 DEF HostResume, CanControl, retryPlayer, RetryTypes
  <2>3. \A q \in Players : SmoothAt(q)'
    BY <1>j, <2>1, <2>2, SmoothTold
  <2> QED
    BY <2>2, <2>3 DEF Joined, Live
<1>5. CASE HostGoesLive
  <2>1. PICK f : Wires({}, Peers, Control("goLive", f))
    BY <1>5, RetryWires
  <2>2. /\ UNCHANGED <<stage, mailbox, played, stored, lost>> /\ stage[Chooser] = "run" /\ active[Chooser]
        /\ paused[Chooser] /\ paused'[Chooser] = FALSE /\ active'[Chooser] = FALSE
        /\ \A q \in Peers : active'[q] = active[q] /\ paused'[q] = paused[q]
    BY <1>1, <1>5 DEF HostGoesLive, CanControl, RetryTypes
  <2>3. \A q \in Players : SmoothAt(q)'
    BY <1>j, <2>1, <2>2, SmoothTold
  <2>4. ASSUME NEW q \in Peers \ lost'
        PROVE  Gone(q)'
    <3>1. PICK s, t : s = wire[q] /\ t = wire'[q]
      OBVIOUS
    <3>2. PICK e \in {0, 1}, d \in {0, 1} : e = 0 /\ d = 1
      OBVIOUS
    <3>3. (e = 1 <=> q \in {}) /\ (d = 1 <=> q \in Peers) /\ q \in Players
      BY <1>1, <2>4, <3>2
    <3>4. /\ Len(s) \in Nat /\ Len(t) = Len(s) - e + d /\ (d = 1 => t[Len(t)] = Control("goLive", f))
          /\ \A i \in 1..Len(s) - e : t[i] = s[i + e]
      BY <2>1, <3>1, <3>3, WireFacts
    <3>5. PICK n : n = Len(s)
      OBVIOUS
    <3>6. n \in Nat /\ Len(t) = n + 1 /\ t[n + 1].type = "control" /\ t[n + 1].action = "goLive"
      BY <3>2, <3>4, <3>5 DEF Control
    <3>7. n > 0 => t[n] = s[n]
      BY <3>2, <3>4, <3>5, <3>6
    <3>8. Stopped(q)
      BY <1>j, <2>2, <2>4 DEF Joined
    <3>9. n > 0 => Ctl(t[n], "stateReady")
      BY <3>1, <3>5, <3>7, <3>8 DEF Stopped
    <3>10. n = 0 => mailbox'[q].action = "stateReady" \/ Caught(q)'
      BY <2>2, <2>4, <3>1, <3>5, <3>8 DEF Stopped, Caught
    <3>11. Len(t) - 1 = n /\ Len(t) # 0 /\ (Len(t) > 1 => n > 0) /\ (Len(t) = 1 => n = 0)
      BY <3>6
    <3>12. Ctl(t[Len(t)], "goLive") /\ (Len(t) > 1 => Ctl(t[Len(t) - 1], "stateReady"))
      BY <3>6, <3>9, <3>11 DEF Ctl
    <3> QED
      BY <3>1, <3>10, <3>11, <3>12 DEF Gone
  <2>5. stored'.state = played'[Chooser]
    BY <1>j, <2>2 DEF Joined
  <2> QED
    BY <2>2, <2>3, <2>4, <2>5 DEF Joined
\* A player that has not begun to play reads.
<1>b. ASSUME NEW p \in Players, stage[p] = "room"
      PROVE  stage[Chooser] # "run" /\ ~paused[Chooser] /\ ~Live(Chooser)
  BY <1>b, <1>j, <1>r DEF Live
<1>6. ASSUME NEW p \in Players, ReadSelect(p)
      PROVE  Joined'
  <2>1. wire[p] # <<>> /\ wire[p][1].type = "select" /\ Len(wire[p]) > 0
    BY <1>6, SeqTails DEF ReadSelect, Arrives, RetryTypes
  <2>2. Select(p) /\ wire' = Pop(p) /\ UNCHANGED <<stage, paused>>
    BY <1>6, <1>s DEF ReadSelect, retryFrontend
  <2>3. p # Chooser /\ stage[p] = "room"
    <3>1. 1 \in 1..Len(wire[p]) /\ Orderly(p)
      BY <1>l, <2>1 DEF Refusals
    <3> QED
      BY <2>1, <3>1, OrderlyAt
  <2>4. active'[p] /\ \A q \in Players \ {p} : active'[q] = active[q]
    BY <2>2 DEF Select, RetryTypes
  <2>5. ~Live(Chooser) /\ ~Live(Chooser)' /\ ~paused'[Chooser]
    BY <1>1, <1>b, <2>2, <2>3 DEF Live
  <2>6. ASSUME NEW q \in Players
        PROVE  SmoothAt(q)'
    <3>1. PICK s, t : s = wire[p] /\ t = wire'[p]
      OBVIOUS
    <3>2. /\ \A r \in Players \ {p} : wire'[r] = wire[r]
          /\ \A i \in 1..Len(t) : ~Is(p, i, "nak")' /\ (Ctl(t[i], "goLive") => i = Len(t) /\ Live(Chooser)')
      BY <1>j, <2>1, <2>2, <2>5, <3>1, SmoothPops
    <3>3. CASE q = p
      BY <2>4, <3>1, <3>2, <3>3 DEF SmoothAt
    <3>4. CASE q # p
      BY <1>j, <2>2, <2>4, <2>5, <3>2, <3>4 DEF Joined, SmoothAt, Is
    <3> QED
      BY <3>3, <3>4
  <2> QED
    BY <2>5, <2>6 DEF Joined
<1>7. ASSUME NEW p \in Players, ReadGameBegin(p)
      PROVE  Joined'
  <2>1. wire[p] # <<>> /\ wire[p][1].type = "begin" /\ 1 \in 1..Len(wire[p])
    BY <1>7, <1>l, SeqTails DEF ReadGameBegin, Arrives, RetryTypes
  <2>2. UNCHANGED <<active, paused>> /\ stage' = [stage EXCEPT ![p] = "ready"]
    BY <1>7 DEF ReadGameBegin, retryFrontend
  <2>3. stage[p] = "room" /\ Orderly(p) /\ active[p]
    <3>1. Orderly(p) /\ SmoothAt(p)
      BY <1>j DEF Refusals, Joined
    <3> QED
      BY <2>1, <3>1, OrderlyAt DEF SmoothAt, Is
  <2>4. stage[Chooser] # "run" /\ stage'[Chooser] # "run" /\ ~Live(Chooser) /\ ~Live(Chooser)' /\ ~paused'[Chooser]
    BY <1>1, <1>b, <2>2, <2>3 DEF Live, RetryTypes
  <2>5. PICK k \in {0, 1} : /\ k = 1 => Wires({p}, Players, Plain("allReady"))
                            /\ k = 0 => Wires({p}, {}, None)
    <3>1. PICK k \in {0, 1} : k = 1 <=> readies' = Players
      OBVIOUS
    <3>2. /\ k = 1 => Wires({p}, Players, Plain("allReady"))
          /\ k = 0 => Wires({p}, {}, None)
      BY <1>7, <3>1, RetryWires
    <3> QED
      BY <3>2, Zenon
  <2>6. ASSUME NEW q \in Players
        PROVE  SmoothAt(q)'
    <3>1. PICK s, t, n : s = wire[q] /\ t = wire'[q] /\ n = Len(s)
      OBVIOUS
    <3>2. PICK d \in {0, 1} : d = 1 <=> q \in {p}
      OBVIOUS
    <3>3. /\ n \in Nat /\ Len(t) \in Nat /\ Len(t) = n - d + k
          /\ \A i \in 1..n - d : t[i] = s[i + d]
          /\ k = 1 => t[Len(t)] = Plain("allReady")
      <4>1. CASE k = 1
        <5>1. k = 1 <=> q \in Players
          BY <4>1
        <5>2. d = (IF q \in {p} THEN 1 ELSE 0) /\ k = (IF q \in Players THEN 1 ELSE 0)
          BY <3>2, <5>1
        <5>3. Moves(wire[q], wire'[q], d, k, Plain("allReady"))
          <6>1. Wires({p}, Players, Plain("allReady"))
            BY <2>5, <4>1
          <6>2. Moves(wire[q], wire'[q], IF q \in {p} THEN 1 ELSE 0, IF q \in Players THEN 1 ELSE 0, Plain("allReady"))
            BY <6>1, Zenon DEF Wires
          <6> QED
            BY <5>2, <6>2
        <5>4. Moves(s, t, d, k, Plain("allReady"))
          BY <3>1, <5>3
        <5> QED
          BY <3>1, <5>4 DEF Moves
      <4>2. CASE k = 0
        <5>1. k = 1 <=> q \in {}
          BY <4>2
        <5>2. /\ n \in Nat /\ Len(t) \in Nat /\ Len(t) = n - d + k
              /\ \A i \in 1..n - d : t[i] = s[i + d]
          BY <2>5, <3>1, <3>2, <4>2, <5>1, WireFacts
        <5> QED
          BY <4>2, <5>2
      <4> QED
        BY <4>1, <4>2
    <3>4. Orderly(q) /\ SmoothAt(q)
      BY <1>j DEF Refusals, Joined
    <3>5. active'[q] = active[q] /\ (stage'[q] # "room" => active[q])
      BY <2>2, <2>3, <2>4, <3>4 DEF SmoothAt, RetryTypes
    <3>6. ASSUME NEW i \in 1..Len(t)
          PROVE  /\ t[i].type # "nak" /\ ~Ctl(t[i], "goLive")
                 /\ t[i].type = "begin" => active'[q] \/ t[1].type = "select"
      <4>1. CASE i \in 1..n - d
        <5>1. i + d \in 1..n /\ t[i] = s[i + d] /\ 1 \in 1..n - d /\ t[1] = s[1 + d]
          BY <3>2, <3>3, <4>1
        <5>2. s[i + d].type # "nak" /\ ~Ctl(s[i + d], "goLive") /\ (s[i + d].type = "begin" => active[q] \/ s[1].type = "select")
          BY <2>4, <3>1, <3>4, <5>1 DEF SmoothAt, Is
        <5>3. q = p => active[q]
          BY <2>3
        <5>4. q # p => d = 0 /\ 1 + d = 1
          BY <3>2
        <5> QED
          BY <3>5, <5>1, <5>2, <5>3, <5>4
      <4>2. CASE i \notin 1..n - d
        <5>1. i = Len(t) /\ k = 1
          BY <3>2, <3>3, <4>2
        <5>2. t[i].type = "allReady"
          BY <3>3, <5>1 DEF Plain
        <5> QED
          BY <5>2 DEF Ctl
      <4> QED
        BY <4>1, <4>2
    <3> QED
      BY <3>1, <3>5, <3>6 DEF SmoothAt, Is
  <2> QED
    BY <2>4, <2>6 DEF Joined
<1>8. ASSUME NEW p \in Players, ReadAllReady(p)
      PROVE  Joined'
  <2>1. wire[p] # <<>> /\ wire[p][1].type = "allReady" /\ 1 \in 1..Len(wire[p]) /\ Len(wire[p]) > 0
    BY <1>8, <1>l, SeqTails DEF ReadAllReady, Arrives, RetryTypes
  <2>2. /\ UNCHANGED <<active, mailbox, paused, played, stored, lost>> /\ wire' = Pop(p)
        /\ stage' = [stage EXCEPT ![p] = "run"]
    BY <1>8 DEF ReadAllReady, retryFrontend
  <2>3. stage[p] = "ready" /\ active[p]
    <3>1. Orderly(p) /\ SmoothAt(p)
      BY <1>j DEF Refusals, Joined
    <3>2. stage[p] = "ready"
      BY <2>1, <3>1, OrderlyAt
    <3> QED
      BY <2>1, <3>1, <3>2 DEF SmoothAt, Live
  <2>4. Live(Chooser)' <=> Live(Chooser)
    BY <1>1, <2>2, <2>3 DEF Live, RetryTypes
  <2>5. PICK s, t : s = wire[p] /\ t = wire'[p]
    OBVIOUS
  <2>6. /\ \A r \in Players \ {p} : wire'[r] = wire[r]
        /\ Len(s) \in Nat /\ Len(s) > 0 /\ Len(t) = Len(s) - 1 /\ \A i \in 1..Len(s) - 1 : t[i] = s[i + 1]
        /\ \A i \in 1..Len(t) : ~Is(p, i, "nak")' /\ (Ctl(t[i], "goLive") => i = Len(t) /\ Live(Chooser)')
    BY <1>j, <2>1, <2>2, <2>4, <2>5, SmoothPops
  <2>7. ASSUME NEW q \in Players
        PROVE  SmoothAt(q)'
    <3>1. CASE q = p
      BY <2>2, <2>3, <2>5, <2>6, <3>1 DEF SmoothAt
    <3>2. CASE q # p
      <4>1. stage'[q] = stage[q] /\ wire'[q] = wire[q] /\ SmoothAt(q)
        BY <1>j, <2>2, <2>6, <3>2 DEF Joined, RetryTypes
      <4> QED
        BY <2>2, <2>4, <4>1 DEF SmoothAt, Is
    <3> QED
      BY <3>1, <3>2
  <2>8. ASSUME NEW q \in Peers, q # p
        PROVE  (Stopped(q) => Stopped(q)') /\ (Gone(q) => Gone(q)')
    BY <1>1, <2>2, <2>6, <2>8 DEF Stopped, Gone, Caught
  <2>9. (Stopped(p) => Stopped(p)') /\ (Gone(p) => Gone(p)')
    <3>1. ~Ctl(s[1], "stateReady") /\ ~Ctl(s[1], "goLive")
      BY <2>1, <2>5 DEF Ctl
    <3>2. Stopped(p) => Stopped(p)'
      BY <2>5, <2>6, <3>1, StoppedPops
    <3>3. Gone(p) => Gone(p)'
      BY <2>5, <2>6, <3>1, GonePops
    <3> QED
      BY <3>2, <3>3
  <2> QED
    BY <1>j, <2>2, <2>4, <2>7, <2>8, <2>9 DEF Joined
<1>9. ASSUME NEW p \in Players, ReadNak(p)
      PROVE  FALSE
  <2>1. wire[p][1].type = "nak" /\ 1 \in 1..Len(wire[p])
    BY <1>9, <1>l, SeqTails DEF ReadNak, Arrives, RetryTypes
  <2> QED
    BY <1>j, <2>1 DEF Joined, SmoothAt, Is
<1>10. ASSUME NEW p \in Players, ReadControl(p)
       PROVE  Joined'
  <2>1. wire[p] # <<>> /\ wire[p][1].type = "control" /\ 1 \in 1..Len(wire[p]) /\ wire[p][1] = Head(wire[p])
    BY <1>10, <1>l, SeqTails DEF ReadControl, Arrives, RetryTypes
  <2>2. UNCHANGED <<stage, paused, played, stored>> /\ wire' = Pop(p)
    BY <1>10 DEF ReadControl, retryFrontend
  <2>3. Orderly(p) /\ p # Chooser /\ \A i \in 1..Len(wire[p]) : wire[p][i].type # "begin"
    <3>1. PICK s : s = wire[p]
      OBVIOUS
    <3>2. Orderly(p) /\ p # Chooser
      <4>1. Orderly(p)
        BY DEF Refusals
      <4> QED
        BY <2>1, <4>1, OrderlyAt
    <3>3. ASSUME NEW i \in 1..Len(s)
          PROVE  s[i].type # "begin"
      <4>1. s[i].type = "begin" => i = 1 \/ s[1].type = "select"
        BY <3>1, <3>2, OrderlyAt
      <4> QED
        BY <2>1, <3>1, <4>1
    <3> QED
      BY <3>1, <3>2, <3>3
  <2>4. Live(Chooser)' <=> Live(Chooser)
    BY <1>1, <1>10, <2>2, <2>3 DEF ReadControl, Live, RetryTypes
  <2>5. PICK s, t : s = wire[p] /\ t = wire'[p]
    OBVIOUS
  <2>6. /\ \A r \in Players \ {p} : wire'[r] = wire[r]
        /\ Len(s) \in Nat /\ Len(s) > 0 /\ Len(t) = Len(s) - 1 /\ \A i \in 1..Len(s) - 1 : t[i] = s[i + 1]
        /\ s[1] = Head(wire[p])
        /\ \A i \in 1..Len(t) : ~Is(p, i, "nak")' /\ (Ctl(t[i], "goLive") => i = Len(t) /\ Live(Chooser)')
    BY <1>j, <2>1, <2>2, <2>4, <2>5, SmoothPops
  <2>7. /\ mailbox'[p].action = s[1].action
        /\ active'[p] <=> active[p] /\ s[1].action # "goLive"
        /\ \A q \in Players \ {p} : mailbox'[q] = mailbox[q] /\ active'[q] = active[q]
        /\ lost \subseteq lost' /\ (p \notin lost' => mailbox[p].action = "none")
    <3>1. mailbox' = [mailbox EXCEPT ![p] = [action |-> s[1].action, frame |-> s[1].frame]]
      BY <1>10, <2>6 DEF ReadControl
    <3>2. active' = [active EXCEPT ![p] = @ /\ s[1].action # "goLive"]
      BY <1>10, <2>6 DEF ReadControl
    <3>3. lost \subseteq lost' /\ (p \notin lost' => mailbox[p] = None)
      BY <1>10 DEF ReadControl
    <3>4. None.action = "none"
      BY DEF None
    <3> QED
      BY <3>1, <3>2, <3>3, <3>4 DEF RetryTypes
  <2>8. ASSUME NEW q \in Players
        PROVE  SmoothAt(q)'
    <3>1. CASE q # p
      <4>1. wire'[q] = wire[q] /\ active'[q] = active[q] /\ SmoothAt(q)
        BY <1>j, <2>6, <2>7, <3>1 DEF Joined
      <4> QED
        BY <2>2, <2>4, <4>1 DEF SmoothAt, Is
    <3>2. CASE q = p
      <4>1. SmoothAt(p)
        BY <1>j DEF Joined
      <4>2. stage[p] # "room" => active[p]
        BY <2>3, <2>5, <2>6, <4>1 DEF SmoothAt
      <4>3. s[1].action = "goLive" => Len(t) = 0 /\ Live(Chooser)'
        <5>1. s[1].action = "goLive" => Ctl(s[1], "goLive")
          BY <2>1, <2>5 DEF Ctl
        <5>2. Ctl(s[1], "goLive") => 1 = Len(s) /\ Live(Chooser)
          BY <2>1, <2>5, <4>1 DEF SmoothAt
        <5> QED
          BY <2>4, <2>6, <5>1, <5>2
      <4>4. \A i \in 1..Len(t) : t[i].type # "begin"
        <5>1. ASSUME NEW i \in 1..Len(t)
              PROVE  t[i].type # "begin"
          <6>1. i + 1 \in 1..Len(s) /\ i \in 1..Len(s) - 1
            BY <2>6
          <6> QED
            BY <2>3, <2>5, <2>6, <6>1
        <5> QED
          BY <5>1
      <4>5. stage'[p] # "room" => active'[p] \/ (Live(Chooser)' /\ Len(t) = 0)
        BY <2>2, <2>7, <4>2, <4>3
      <4> QED
        BY <2>5, <2>6, <3>2, <4>4, <4>5 DEF SmoothAt, Is
    <3> QED
      BY <3>1, <3>2
  <2>9. ASSUME NEW q \in Peers, q # p
        PROVE  (Stopped(q) => Stopped(q)') /\ (Gone(q) => Gone(q)')
    <3>1. wire'[q] = wire[q] /\ active'[q] = active[q] /\ mailbox'[q] = mailbox[q]
      BY <1>1, <2>6, <2>7, <2>9
    <3> QED
      BY <2>2, <3>1 DEF Stopped, Gone, Caught
  <2>10. Stopped(p) => Stopped(p)'
    <3>1. Ctl(s[1], "stateReady") => mailbox'[p].action = "stateReady"
      BY <2>7 DEF Ctl
    <3> QED
      BY <2>5, <2>6, <3>1, StoppedPops
  <2>11. p \notin lost' /\ Gone(p) => Gone(p)'
    <3> SUFFICES ASSUME p \notin lost', Gone(p)
                 PROVE  Gone(p)'
      OBVIOUS
    <3>1. Ctl(s[1], "stateReady") => mailbox'[p].action = "stateReady"
      BY <2>7 DEF Ctl
    <3>2. Ctl(s[1], "goLive") /\ (mailbox[p].action = "stateReady" \/ Caught(p)) =>
            mailbox'[p].action = "goLive" /\ ~active'[p] /\ played'[p] = played'[Chooser]
      <4>1. mailbox[p].action = "none"
        BY <2>7
      <4>2. Ctl(s[1], "goLive") => mailbox'[p].action = "goLive" /\ ~active'[p]
        BY <2>7 DEF Ctl
      <4>3. Caught(p) => played'[p] = played'[Chooser]
        BY <2>2 DEF Caught
      <4> QED
        BY <4>1, <4>2, <4>3
    <3> QED
      BY <2>5, <2>6, <3>1, <3>2, GonePops
  <2>12. ASSUME NEW q \in Peers \ lost'
         PROVE  (Stopped(q) => Stopped(q)') /\ (Gone(q) => Gone(q)') /\ q \notin lost
    BY <2>7, <2>9, <2>10, <2>11, <2>12
  <2>13. active'[Chooser] = active[Chooser]
    BY <1>1, <2>3, <2>7
  <2> QED
    BY <1>j, <2>2, <2>4, <2>8, <2>12, <2>13 DEF Joined
<1>11. ASSUME NEW p \in Players, ServeFrame(p)
       PROVE  Joined'
  <2>1. /\ UNCHANGED <<stage, active, mailbox, paused, wire, stored, lost>> /\ active[p] /\ ~paused[p] /\ stage[p] = "run"
        /\ \A q \in Players \ {p} : played'[q] = played[q]
    BY <1>11 DEF ServeFrame, retryServer, RetryTypes
  <2>2. CASE p = Chooser
    <3>1. ~paused'[Chooser] /\ ~Live(Chooser) /\ ~Live(Chooser)'
      BY <2>1, <2>2 DEF Live
    <3>2. \A q \in Players : SmoothAt(q)'
      BY <1>j, <2>1, <3>1 DEF Joined, SmoothAt, Is
    <3> QED
      BY <3>1, <3>2 DEF Joined
  <2>3. CASE p # Chooser
    <3>1. played'[Chooser] = played[Chooser]
      BY <1>1, <2>1, <2>3
    <3>2. ASSUME NEW q \in Peers, q # p
          PROVE  (Stopped(q) => Stopped(q)') /\ (Gone(q) => Gone(q)')
      BY <1>1, <2>1, <3>1, <3>2 DEF Stopped, Gone, Caught
    <3>3. (Stopped(p) => Stopped(p)') /\ (Gone(p) => Gone(p)')
      BY <2>1 DEF Stopped, Gone, Caught
    <3> QED
      BY <2>1, <3>1, <3>2, <3>3, <1>k
  <2> QED
    BY <2>2, <2>3
<1>12. ASSUME NEW p \in Players, Poll(p)
       PROVE  Joined'
  <2>1. /\ UNCHANGED <<stage, active, wire, stored, lost>> /\ mailbox[p].action # "none"
        /\ mailbox'[p] = None
        /\ \A q \in Players \ {p} : mailbox'[q] = mailbox[q] /\ paused'[q] = paused[q] /\ played'[q] = played[q]
    <3>1. UNCHANGED <<stage, active, wire, stored, lost>> /\ mailbox[p].action # "none"
      BY <1>12 DEF Poll, retryServer
    <3>2. mailbox'[p] = None /\ \A q \in Players \ {p} : mailbox'[q] = mailbox[q] /\ paused'[q] = paused[q]
      BY <1>12 DEF Poll, RetryTypes
    <3>3. \A q \in Players \ {p} : played'[q] = played[q]
      BY <1>12 DEF Poll, DownloadState, RetryTypes
    <3> QED
      BY <3>1, <3>2, <3>3
  <2>2. p # Chooser
    BY <1>j, <2>1 DEF None
  <2>3. mailbox[p].action = "stateReady" => paused'[p] /\ played'[p] = stored.state
    <3>1. paused' = [paused EXCEPT ![p] = mailbox[p].action \in {"pause", "stateReady"}]
      BY <1>12 DEF Poll
    <3>2. ASSUME mailbox[p].action = "stateReady"
          PROVE  played'[p] = stored.state
      <4>1. DownloadState(p)
        BY <1>12, <3>2 DEF Poll
      <4>2. played' = [played EXCEPT ![p] = stored.state]
        BY <1>s, <4>1 DEF DownloadState, Fetch
      <4> QED
        BY <4>2 DEF RetryTypes
    <3> QED
      BY <3>1, <3>2 DEF RetryTypes
  <2>4. mailbox[p].action # "stateReady" => played'[p] = played[p]
    BY <1>12 DEF Poll
  <2>5. mailbox'[p].action = "none"
    BY <2>1 DEF None
  <2>6. played'[Chooser] = played[Chooser] /\ paused'[Chooser] = paused[Chooser]
    BY <1>1, <2>1, <2>2
  <2>7. ASSUME NEW q \in Peers, q # p
        PROVE  (Stopped(q) => Stopped(q)') /\ (Gone(q) => Gone(q)')
    BY <1>1, <2>1, <2>6, <2>7 DEF Stopped, Gone, Caught
  <2>8. stored.state = played[Chooser] => (Stopped(p) => Stopped(p)') /\ (Gone(p) => Gone(p)')
    BY <2>1, <2>3, <2>4, <2>5, <2>6 DEF Stopped, Gone, Caught
  <2>9. Live(Chooser)' <=> Live(Chooser)
    BY <2>1 DEF Live
  <2>10. \A q \in Players : SmoothAt(q)'
    BY <1>j, <2>1, <2>9 DEF Joined, SmoothAt, Is
  <2> QED
    BY <1>j, <2>1, <2>6, <2>7, <2>8, <2>9, <2>10 DEF Joined
<1>13. CASE UNCHANGED retryVars
  <2>1. UNCHANGED <<stage, active, mailbox, paused, played, wire, stored, lost>>
    BY <1>13 DEF retryVars, retryPlayer, retryFrontend, retryServer
  <2>2. \A q \in Peers : (Stopped(q) => Stopped(q)') /\ (Gone(q) => Gone(q)')
    BY <2>1 DEF Stopped, Gone, Caught
  <2> QED
    BY <2>1, <2>2, <1>k
<1> QED
  BY <1>2, <1>3, <1>4, <1>5, <1>6, <1>7, <1>8, <1>9, <1>10, <1>11, <1>12, <1>13 DEF RetryNext

LEMMA TogetherInvariant == RetrySpec => [](RetryTypes /\ Refusals /\ Together)
<1>1. RetryTypes /\ Refusals /\ Together /\ [RetryNext]_retryVars => Together'
  BY HostsMailbox, JoinedStep DEF Together
<1> QED
  BY <1>1, RefusalsInvariant, TogetherInit, PTL DEF RetrySpec

\* Who has gone live has played what the host has, and every reader is at the frame its emulator
\* plays next: for any number of players, frames of the recording, controls and failed transfers.
THEOREM SpecLiveFromOneState == RetrySpec => []LiveFromOneState
<1>1. RetryTypes /\ Refusals /\ Together /\ Anchored => LiveFromOneState
  <2> SUFFICES ASSUME RetryTypes, Refusals, Together, Anchored
               PROVE  LiveFromOneState
    OBVIOUS
  <2>1. ReaderFollowsEmulator
    BY DEF Anchored, Follows, ReaderFollowsEmulator
  <2>2. ASSUME Live(Chooser), Smooth, NEW p \in Peers,
               Live(p), p \notin lost, mailbox[p].action \in {"none", "goLive"}
        PROVE  played[p] = played[Chooser]
    <3>1. SmoothAt(p) /\ Gone(p) /\ p # Chooser /\ Len(wire[p]) \in Nat
      BY <2>2, RetryAssumption, SeqLength DEF Together, Joined, Players, RetryTypes
    <3>2. Len(wire[p]) = 0
      BY <2>2, <3>1 DEF SmoothAt, Live
    <3> QED
      BY <3>1, <3>2 DEF Gone
  <2> QED
    BY <2>1, <2>2 DEF LiveFromOneState, Smooth
<1> QED
  BY <1>1, TogetherInvariant, AnchoredInvariant, PTL
-----------------------------------------------------------------------------
\* RoomSetup: what the players' windows show.

\* A sequence has its elements at 1 .. Len; one more; the first one taken; one after the other.
LEMMA SeqElements ==
  ASSUME NEW s, IsSeq(s)
  PROVE  DOMAIN s = 1..Len(s) /\ Len(s) \in Nat /\ ToSet(s) = {s[i] : i \in 1..Len(s)}
<1>1. DOMAIN s = 1..Len(s) /\ Len(s) \in Nat
  BY DEF IsSeq
<1> QED
  BY <1>1 DEF ToSet

LEMMA SeqConcat ==
  ASSUME NEW s, IsSeq(s), NEW t, IsSeq(t)
  PROVE  /\ IsSeq(s \o t) /\ Len(s \o t) = Len(s) + Len(t) /\ Len(s) \in Nat /\ Len(t) \in Nat
         /\ \A i \in 1..Len(s) : (s \o t)[i] = s[i]
         /\ \A i \in 1..Len(t) : (s \o t)[Len(s) + i] = t[i]
<1>1. PICK K : s \in Seq(K)
  BY DEF IsSeq
<1>2. PICK M : t \in Seq(M)
  BY DEF IsSeq
<1>3. PICK L : L = K \cup M
  OBVIOUS
<1>4. s \in Seq(L) /\ t \in Seq(L)
  BY <1>1, <1>2, <1>3
<1>5. s \o t \in Seq(L) /\ Len(s \o t) = Len(s) + Len(t) /\ Len(s) \in Nat /\ Len(t) \in Nat
  BY <1>4
<1>6. \A i \in 1..Len(s) : (s \o t)[i] = s[i]
  BY <1>4
<1>7. \A i \in 1..Len(t) : (s \o t)[Len(s) + i] = t[i]
  BY <1>4
<1> QED
  BY <1>5, <1>6, <1>7 DEF IsSeq

LEMMA SeqOne == \A l : IsSeq(<<l>>) /\ Len(<<l>>) = 1 /\ <<l>>[1] = l
<1> SUFFICES ASSUME NEW l PROVE IsSeq(<<l>>) /\ Len(<<l>>) = 1 /\ <<l>>[1] = l
  OBVIOUS
<1>1. <<l>> \in Seq({l})
  OBVIOUS
<1> QED
  BY <1>1 DEF IsSeq

LEMMA SeqNone == IsSeq(<<>>) /\ Len(<<>>) = 0
<1>1. <<>> \in Seq({})
  OBVIOUS
<1> QED
  BY <1>1 DEF IsSeq

\* Who is in a list without one of its players, each of them in it once.
LEMMA WithoutMembers ==
  ASSUME NEW s, IsSeq(s), NEW n
  PROVE  /\ IsSeq(Without(s, n)) /\ ToSet(s) \ {n} \subseteq ToSet(Without(s, n))
         /\ ToSet(Without(s, n)) \subseteq ToSet(s)
         /\ Len(Without(s, n)) <= Len(s) /\ Len(Without(s, n)) \in Nat
         /\ IsInjective(s) => IsInjective(Without(s, n)) /\ n \notin ToSet(Without(s, n))
<1>1. DOMAIN s = 1..Len(s) /\ Len(s) \in Nat /\ ToSet(s) = {s[i] : i \in 1..Len(s)}
  BY SeqElements
<1>2. CASE n \notin ToSet(s)
  <2>1. Without(s, n) = s
    BY <1>2 DEF Without
  <2> QED
    BY <1>1, <1>2, <2>1
<1>3. CASE n \in ToSet(s)
  <2>1. PICK k \in 1..Len(s) : k = CHOOSE i \in DOMAIN s : s[i] = n
    BY <1>1, <1>3
  <2>2. s[k] = n
    BY <1>1, <1>3, <2>1
  <2>3. PICK L : s \in Seq(L)
    BY DEF IsSeq
  <2> DEFINE t == SubSeq(s, 1, k - 1) \o SubSeq(s, k + 1, Len(s))
  <2>4. Without(s, n) = t
    BY <1>3, <2>1 DEF Without, RemoveAt
  <2>5. /\ SubSeq(s, 1, k - 1) \in Seq(L) /\ Len(SubSeq(s, 1, k - 1)) = k - 1
        /\ \A i \in 1..k - 1 : SubSeq(s, 1, k - 1)[i] = s[i]
    BY <1>1, <2>3
  <2>6. /\ SubSeq(s, k + 1, Len(s)) \in Seq(L) /\ Len(SubSeq(s, k + 1, Len(s))) = Len(s) - k
        /\ \A i \in 1..Len(s) - k : SubSeq(s, k + 1, Len(s))[i] = s[k + i]
    <3>1. PICK m \in Nat : Len(s) = m
      BY <1>1
    <3>2. k \in 1..m
      BY <3>1, Zenon
    <3>3. k + 1 \in Int /\ m \in Int /\ k + 1 <= m + 1
      BY <3>2
    <3>4. \A i \in k + 1..m : s[i] \in L
      <4>1. ASSUME NEW i \in k + 1..m PROVE i \in 1..m
        BY <3>2
      <4>2. \A i \in 1..Len(s) : s[i] \in L
        BY <2>3
      <4> QED
        BY <3>1, <4>1, <4>2, Zenon
    <3>5. /\ SubSeq(s, k + 1, m) \in Seq(L)
          /\ Len(SubSeq(s, k + 1, m)) = (IF k + 1 <= m THEN m - (k + 1) + 1 ELSE 0)
          /\ \A i \in 1..m - (k + 1) + 1 : SubSeq(s, k + 1, m)[i] = s[(k + 1) + i - 1]
      BY <3>3, <3>4, SubSeqProperties
    <3>6. (IF k + 1 <= m THEN m - (k + 1) + 1 ELSE 0) = m - k /\ m - (k + 1) + 1 = m - k
      BY <3>2
    <3>7. \A i \in 1..m - k : (k + 1) + i - 1 = k + i
      BY <3>2
    <3> QED
      BY <3>1, <3>5, <3>6, <3>7, Zenon
  <2> DEFINE a == SubSeq(s, 1, k - 1)
             b == SubSeq(s, k + 1, Len(s))
  <2>7. /\ t \in Seq(L) /\ Len(t) = (k - 1) + (Len(s) - k)
        /\ \A i \in 1..k - 1 : t[i] = s[i]
        /\ \A i \in 1..Len(s) - k : t[(k - 1) + i] = s[k + i]
    <3>1. a \in Seq(L) /\ b \in Seq(L) /\ IsSeq(a) /\ IsSeq(b)
      BY <2>5, <2>6 DEF IsSeq
    <3>2. t = a \o b /\ Len(a) = k - 1 /\ Len(b) = Len(s) - k
      BY <2>5, <2>6
    <3>3. (\A i \in 1..k - 1 : a[i] = s[i]) /\ \A i \in 1..Len(s) - k : b[i] = s[k + i]
      BY <2>5, <2>6
    <3> HIDE DEF a, b, t
    <3>4. a \o b \in Seq(L)
      BY <3>1
    <3>5. /\ Len(a \o b) = Len(a) + Len(b)
          /\ \A i \in 1..Len(a) : (a \o b)[i] = a[i]
          /\ \A i \in 1..Len(b) : (a \o b)[Len(a) + i] = b[i]
      BY <3>1, SeqConcat
    <3> QED
      BY <3>2, <3>3, <3>4, <3>5, Zenon
  <2>8. \A i \in 1..k - 1 : t[i] = s[i]
    BY <2>7
  <2>9. Len(t) = Len(s) - 1 /\ \A i \in 1..Len(s) - k : t[(k - 1) + i] = s[k + i]
    <3>1. PICK m \in Nat : Len(s) = m
      BY <1>1
    <3>2. k \in 1..m
      BY <3>1, Zenon
    <3>3. (k - 1) + (m - k) = m - 1
      BY <3>2
    <3> QED
      BY <2>7, <3>1, <3>3, Zenon
  <2>10. \A i \in k..Len(s) - 1 : t[i] = s[i + 1]
    <3> SUFFICES ASSUME NEW i \in k..Len(s) - 1 PROVE t[i] = s[i + 1]
      OBVIOUS
    <3> HIDE DEF t
    <3>1. i - (k - 1) \in 1..Len(s) - k /\ (k - 1) + (i - (k - 1)) = i /\ k + (i - (k - 1)) = i + 1
      BY <1>1
    <3> QED
      BY <2>9, <3>1, Zenon
  <2> HIDE DEF t
  <2>11. IsSeq(t) /\ DOMAIN t = 1..Len(s) - 1 /\ ToSet(t) = {t[i] : i \in 1..Len(s) - 1}
    <3>1. IsSeq(t)
      BY <2>7 DEF IsSeq
    <3> QED
      BY <2>9, <3>1, SeqElements
  <2>12. ASSUME NEW x \in ToSet(s), x # n PROVE x \in ToSet(t)
    <3>1. PICK i \in 1..Len(s) : x = s[i]
      BY <1>1, <2>12
    <3>2. CASE i < k
      BY <1>1, <2>8, <2>11, <3>1, <3>2
    <3>3. CASE i > k
      <4>1. i - 1 \in k..Len(s) - 1 /\ i - 1 \in 1..Len(s) - 1 /\ (i - 1) + 1 = i
        BY <1>1, <3>3
      <4>2. t[i - 1] = s[i]
        BY <2>10, <4>1
      <4> QED
        BY <2>11, <3>1, <4>1, <4>2
    <3>4. i # k
      BY <2>2, <2>12, <3>1
    <3> QED
      BY <1>1, <3>2, <3>3, <3>4
  <2>13. ASSUME NEW i \in 1..Len(s) - 1
         PROVE  \E j \in 1..Len(s) : j # k /\ t[i] = s[j] /\ (i < k => j = i) /\ (i >= k => j = i + 1)
    <3>1. CASE i < k
      <4>1. i \in 1..k - 1 /\ i \in 1..Len(s) /\ i # k /\ ~(i >= k)
        BY <1>1, <3>1
      <4> QED
        BY <2>8, <4>1
    <3>2. CASE i >= k
      <4>1. i \in k..Len(s) - 1 /\ i + 1 \in 1..Len(s) /\ i + 1 # k /\ ~(i < k)
        BY <1>1, <3>2
      <4> QED
        BY <2>10, <4>1
    <3> QED
      BY <1>1, <3>1, <3>2
  <2>14. ToSet(t) \subseteq ToSet(s)
    BY <1>1, <2>11, <2>13
  <2>15. ASSUME IsInjective(s) PROVE IsInjective(t) /\ n \notin ToSet(t)
    <3>1. \A i, j \in 1..Len(s) : s[i] = s[j] => i = j
      BY <1>1, <2>15 DEF IsInjective
    <3>2. n \notin ToSet(t)
      BY <2>2, <2>11, <2>13, <3>1
    <3>3. ASSUME NEW i \in 1..Len(s) - 1, NEW j \in 1..Len(s) - 1, t[i] = t[j] PROVE i = j
      <4>1. PICK c \in 1..Len(s) : t[i] = s[c] /\ (i < k => c = i) /\ (i >= k => c = i + 1)
        BY <2>13
      <4>2. PICK d \in 1..Len(s) : t[j] = s[d] /\ (j < k => d = j) /\ (j >= k => d = j + 1)
        BY <2>13
      <4>3. c = d
        BY <3>1, <3>3, <4>1, <4>2
      <4> QED
        BY <4>1, <4>2, <4>3
    <3> QED
      BY <2>11, <3>2, <3>3 DEF IsInjective
  <2>16. Len(t) <= Len(s) /\ Len(t) \in Nat
    BY <1>1, <2>9
  <2> QED
    BY <2>4, <2>11, <2>12, <2>14, <2>15, <2>16
<1> QED
  BY <1>2, <1>3

\* What a player's window shows of the room; the host's own box and list of accounts are what the
\* others' are compared with.
View(p) ==
  [roster |-> roster[p], choices |-> choices[p],
   accounts |-> IF p = Host THEN {} ELSE accounts[p], tap |-> IF p = Host THEN FALSE ELSE tapOn[p]]

\* w is what a line l makes of v; nobody comes who is there.
Turns(v, l, w) ==
  /\ l.kind = "join" => l.from \notin ToSet(v.roster)
  /\ w.roster = IF l.kind = "list" THEN l.arg ELSE IF l.kind = "join" THEN Append(v.roster, l.from)
                ELSE IF l.kind = "leave" THEN Without(v.roster, l.from) ELSE v.roster
  /\ w.choices = [n \in Nicks |-> IF l.kind = "list" \/ (l.kind = "leave" /\ n = l.from) THEN "?"
                                  ELSE IF l.kind = "choice" /\ n = l.from THEN l.arg ELSE v.choices[n]]
  /\ w.accounts = IF l.kind = "list" THEN {} ELSE IF l.kind = "accounts" THEN l.arg ELSE v.accounts
  /\ w.tap = IF l.kind = "list" THEN FALSE ELSE IF l.kind = "tap" THEN l.arg
             ELSE IF l.kind = "join" THEN Len(v.roster) + 1 >= 3 /\ v.tap
             ELSE IF l.kind = "leave" THEN Len(Without(v.roster, l.from)) >= 3 /\ v.tap ELSE v.tap
  /\ w = [roster |-> w.roster, choices |-> w.choices, accounts |-> w.accounts, tap |-> w.tap]

\* The lines s, read one after the other, make w of v.
Leads(v, s, w) ==
  \E h : /\ h[0] = v /\ h[Len(s)] = w
         /\ \A i \in 1..Len(s) : Turns(h[i - 1], s[i], h[i])

LEMMA LeadsNone == \A v : Leads(v, <<>>, v)
<1> SUFFICES ASSUME NEW v PROVE Leads(v, <<>>, v)
  OBVIOUS
<1> DEFINE h == [i \in {0} |-> v]
<1>1. h[0] = v
  OBVIOUS
<1> HIDE DEF h
<1>2. Len(<<>>) = 0 /\ 1..0 = {}
  OBVIOUS
<1> QED
  BY <1>1, <1>2, Zenon DEF Leads

LEMMA LeadsOne ==
  ASSUME NEW v, NEW l, NEW w, Turns(v, l, w)
  PROVE  Leads(v, <<l>>, w)
<1> DEFINE h == [i \in {0, 1} |-> IF i = 0 THEN v ELSE w]
<1>1. h[0] = v /\ h[1] = w
  OBVIOUS
<1> HIDE DEF h
<1>2. Len(<<l>>) = 1 /\ <<l>>[1] = l
  OBVIOUS
<1>3. \A i \in 1..1 : Turns(h[i - 1], <<l>>[i], h[i])
  <2> SUFFICES ASSUME NEW i \in 1..1 PROVE Turns(h[i - 1], <<l>>[i], h[i])
    OBVIOUS
  <2>1. i = 1 /\ i - 1 = 0
    OBVIOUS
  <2> QED
    BY <1>1, <1>2, <2>1, Zenon
<1> QED
  BY <1>1, <1>2, <1>3, Zenon DEF Leads

LEMMA LeadsConcat ==
  ASSUME NEW s, IsSeq(s), NEW t, IsSeq(t), NEW u, NEW v, NEW w, Leads(u, s, v), Leads(v, t, w)
  PROVE  Leads(u, s \o t, w)
<1>1. PICK a \in Nat, b \in Nat : Len(s) = a /\ Len(t) = b
  BY SeqLength
<1>2. PICK f : f[0] = u /\ f[a] = v /\ \A i \in 1..a : Turns(f[i - 1], s[i], f[i])
  BY <1>1, Zenon DEF Leads
<1>3. PICK g : g[0] = v /\ g[b] = w /\ \A i \in 1..b : Turns(g[i - 1], t[i], g[i])
  BY <1>1, Zenon DEF Leads
<1> DEFINE h == [i \in 0..a + b |-> IF i <= a THEN f[i] ELSE g[i - a]]
<1>4. /\ Len(s \o t) = a + b
      /\ \A i \in 1..a : (s \o t)[i] = s[i]
      /\ \A i \in 1..b : (s \o t)[a + i] = t[i]
  <2>1. /\ Len(s \o t) = Len(s) + Len(t)
        /\ \A i \in 1..Len(s) : (s \o t)[i] = s[i]
        /\ \A i \in 1..Len(t) : (s \o t)[Len(s) + i] = t[i]
    BY SeqConcat
  <2> QED
    BY <1>1, <2>1, Zenon
<1>5. \A i \in 0..a : h[i] = f[i]
  OBVIOUS
<1>6. \A i \in 0..b : h[a + i] = g[i]
  <2> SUFFICES ASSUME NEW i \in 0..b PROVE h[a + i] = g[i]
    OBVIOUS
  <2>1. CASE i = 0
    <3>1. a + i = a /\ a \in 0..a
      BY <2>1
    <3> HIDE DEF h
    <3> QED
      BY <1>2, <1>3, <1>5, <2>1, <3>1, Zenon
  <2>2. CASE i # 0
    <3>1. a + i \in 0..a + b /\ ~(a + i <= a) /\ (a + i) - a = i
      BY <2>2
    <3> QED
      BY <3>1
  <2> QED
    BY <2>1, <2>2
<1> HIDE DEF h
<1>7. h[0] = u
  <2>1. 0 \in 0..a
    OBVIOUS
  <2> QED
    BY <1>2, <1>5, <2>1, Zenon
<1>8. h[a + b] = w
  <2>1. b \in 0..b
    OBVIOUS
  <2> QED
    BY <1>3, <1>6, <2>1, Zenon
<1>9. \A i \in 1..a + b : Turns(h[i - 1], (s \o t)[i], h[i])
  <2> SUFFICES ASSUME NEW i \in 1..a + b PROVE Turns(h[i - 1], (s \o t)[i], h[i])
    OBVIOUS
  <2>1. CASE i <= a
    <3>1. i \in 1..a /\ i \in 0..a /\ i - 1 \in 0..a
      BY <2>1
    <3> QED
      BY <1>2, <1>4, <1>5, <3>1, Zenon
  <2>2. CASE ~(i <= a)
    <3>1. PICK j \in 1..b : i = a + j
      <4>1. i - a \in 1..b /\ i = a + (i - a)
        BY <2>2
      <4> QED
        BY <4>1
    <3>2. j \in 0..b /\ j - 1 \in 0..b /\ i - 1 = a + (j - 1)
      BY <3>1
    <3>3. h[i] = g[j] /\ h[i - 1] = g[j - 1] /\ (s \o t)[i] = t[j]
      BY <1>4, <1>6, <3>1, <3>2, Zenon
    <3> QED
      BY <1>3, <3>3, Zenon
  <2> QED
    BY <2>1, <2>2
<1> QED
  BY <1>4, <1>7, <1>8, <1>9, Zenon DEF Leads

\* The first line is read, the others are still to be.
LEMMA LeadsRest ==
  ASSUME NEW s, IsSeq(s), s # <<>>, NEW u, NEW w, Leads(u, s, w)
  PROVE  \E v : Turns(u, Head(s), v) /\ Leads(v, Tail(s), w)
<1>1. PICK n \in Nat : Len(Tail(s)) = n
  BY SeqTails, SeqLength
<1>2. Len(s) = n + 1 /\ (\A i \in 1..n : Tail(s)[i] = s[i + 1]) /\ Head(s) = s[1]
  <2>1. Len(s) \in Nat /\ Len(Tail(s)) = Len(s) - 1 /\ Head(s) = s[1]
    BY SeqTails
  <2>2. \A i \in 1..Len(s) - 1 : Tail(s)[i] = s[i + 1]
    BY SeqTails
  <2>3. PICK m \in Nat : Len(s) = m
    BY <2>1
  <2>4. m - 1 = n
    BY <1>1, <2>1, <2>3, Zenon
  <2>5. m = n + 1
    BY <2>4
  <2> QED
    BY <2>1, <2>2, <2>3, <2>4, <2>5, Zenon
<1>3. PICK f : f[0] = u /\ f[n + 1] = w /\ \A i \in 1..n + 1 : Turns(f[i - 1], s[i], f[i])
  BY <1>2, Zenon DEF Leads
<1>4. Turns(u, Head(s), f[1])
  <2>1. 1 \in 1..n + 1 /\ 1 - 1 = 0
    OBVIOUS
  <2> QED
    BY <1>2, <1>3, <2>1, Zenon
<1> DEFINE h == [i \in 0..n |-> f[i + 1]]
<1>5. \A i \in 0..n : h[i] = f[i + 1]
  OBVIOUS
<1> HIDE DEF h
<1>6. h[0] = f[1] /\ h[n] = w
  <2>1. 0 \in 0..n /\ n \in 0..n /\ 0 + 1 = 1
    OBVIOUS
  <2> QED
    BY <1>3, <1>5, <2>1, Zenon
<1>7. \A i \in 1..n : Turns(h[i - 1], Tail(s)[i], h[i])
  <2> SUFFICES ASSUME NEW i \in 1..n PROVE Turns(h[i - 1], Tail(s)[i], h[i])
    OBVIOUS
  <2>1. i \in 0..n /\ i - 1 \in 0..n /\ i + 1 \in 1..n + 1 /\ (i - 1) + 1 = i /\ (i + 1) - 1 = i
    OBVIOUS
  <2>2. h[i - 1] = f[i] /\ h[i] = f[i + 1] /\ Tail(s)[i] = s[i + 1]
    BY <1>2, <1>5, <2>1, Zenon
  <2>3. Turns(f[(i + 1) - 1], s[i + 1], f[i + 1])
    BY <1>3, <2>1, Zenon
  <2> QED
    BY <2>1, <2>2, <2>3, Zenon
<1>8. Leads(f[1], Tail(s), w)
  BY <1>1, <1>6, <1>7, Zenon DEF Leads
<1> QED
  BY <1>4, <1>8
\* The elements of s are of the kinds K.
Of(s, K) == IsSeq(s) /\ \A i \in 1..Len(s) : s[i].kind \in K

LEMMA OfNone == \A K : Of(<<>>, K)
  BY SeqNone DEF Of

LEMMA OfOne == ASSUME NEW K, NEW l, l.kind \in K PROVE Of(<<l>>, K)
<1>1. IsSeq(<<l>>) /\ Len(<<l>>) = 1 /\ <<l>>[1] = l
  BY SeqOne
<1>2. \A i \in 1..1 : i = 1
  OBVIOUS
<1> QED
  BY <1>1, <1>2, Zenon DEF Of

LEMMA OfConcat ==
  ASSUME NEW K, NEW s, Of(s, K), NEW t, Of(t, K)
  PROVE  Of(s \o t, K)
<1>1. PICK a \in Nat, b \in Nat : Len(s) = a /\ Len(t) = b
  BY SeqLength DEF Of
<1>2. /\ IsSeq(s \o t) /\ Len(s \o t) = Len(s) + Len(t)
      /\ \A i \in 1..Len(s) : (s \o t)[i] = s[i]
      /\ \A i \in 1..Len(t) : (s \o t)[Len(s) + i] = t[i]
  BY SeqConcat DEF Of
<1>3. ASSUME NEW i \in 1..a + b PROVE (s \o t)[i].kind \in K
  <2>1. CASE i <= a
    <3>1. i \in 1..a
      BY <2>1
    <3> QED
      BY <1>1, <1>2, <3>1, Zenon DEF Of
  <2>2. CASE ~(i <= a)
    <3>1. PICK j \in 1..b : i = a + j
      <4>1. i - a \in 1..b /\ i = a + (i - a)
        BY <2>2
      <4> QED
        BY <4>1
    <3> QED
      BY <1>1, <1>2, <3>1, Zenon DEF Of
  <2> QED
    BY <2>1, <2>2
<1> QED
  BY <1>1, <1>2, <1>3, Zenon DEF Of

LEMMA OfTail ==
  ASSUME NEW K, NEW s, Of(s, K), s # <<>>
  PROVE  Of(Tail(s), K) /\ Head(s).kind \in K
<1>1. PICK n \in Nat : Len(Tail(s)) = n
  BY SeqTails, SeqLength DEF Of
<1>2. IsSeq(Tail(s)) /\ Len(s) = n + 1 /\ (\A i \in 1..n : Tail(s)[i] = s[i + 1]) /\ Head(s) = s[1]
  <2>1. IsSeq(Tail(s)) /\ Len(s) \in Nat /\ Len(Tail(s)) = Len(s) - 1 /\ Head(s) = s[1]
    BY SeqTails DEF Of
  <2>2. \A i \in 1..Len(s) - 1 : Tail(s)[i] = s[i + 1]
    BY SeqTails DEF Of
  <2>3. PICK m \in Nat : Len(s) = m
    BY <2>1
  <2>4. m - 1 = n
    BY <1>1, <2>1, <2>3, Zenon
  <2>5. m = n + 1
    BY <2>4
  <2> QED
    BY <2>1, <2>2, <2>3, <2>4, <2>5, Zenon
<1>3. \A i \in 1..n : i + 1 \in 1..n + 1
  OBVIOUS
<1>4. 1 \in 1..n + 1
  OBVIOUS
<1> QED
  BY <1>1, <1>2, <1>3, <1>4, Zenon DEF Of

\* The coming of who is among the lines s.
Tells(s, who) == \E i \in 1..Len(s) : s[i].kind = "join" /\ s[i].from = who

LEMMA TellsConcat ==
  ASSUME NEW s, IsSeq(s), NEW t, IsSeq(t), NEW who, Tells(s, who) \/ Tells(t, who)
  PROVE  Tells(s \o t, who)
<1>1. PICK a \in Nat, b \in Nat : Len(s) = a /\ Len(t) = b
  BY SeqLength
<1>2. /\ Len(s \o t) = Len(s) + Len(t)
      /\ \A i \in 1..Len(s) : (s \o t)[i] = s[i]
      /\ \A i \in 1..Len(t) : (s \o t)[Len(s) + i] = t[i]
  BY SeqConcat
<1>3. CASE Tells(s, who)
  <2>1. PICK i \in 1..a : s[i].kind = "join" /\ s[i].from = who
    BY <1>1, <1>3, Zenon DEF Tells
  <2>2. i \in 1..a + b
    BY <2>1
  <2> QED
    BY <1>1, <1>2, <2>1, <2>2, Zenon DEF Tells
<1>4. CASE Tells(t, who)
  <2>1. PICK i \in 1..b : t[i].kind = "join" /\ t[i].from = who
    BY <1>1, <1>4, Zenon DEF Tells
  <2>2. a + i \in 1..a + b
    BY <2>1
  <2> QED
    BY <1>1, <1>2, <2>1, <2>2, Zenon DEF Tells
<1> QED
  BY <1>3, <1>4

LEMMA TellsTail ==
  ASSUME NEW s, IsSeq(s), s # <<>>, NEW who, Tells(s, who), ~(Head(s).kind = "join" /\ Head(s).from = who)
  PROVE  Tells(Tail(s), who)
<1>1. PICK n \in Nat : Len(Tail(s)) = n
  BY SeqTails, SeqLength
<1>2. Len(s) = n + 1 /\ (\A i \in 1..n : Tail(s)[i] = s[i + 1]) /\ Head(s) = s[1]
  <2>1. IsSeq(Tail(s)) /\ Len(s) \in Nat /\ Len(Tail(s)) = Len(s) - 1 /\ Head(s) = s[1]
    BY SeqTails
  <2>2. \A i \in 1..Len(s) - 1 : Tail(s)[i] = s[i + 1]
    BY SeqTails
  <2>3. PICK m \in Nat : Len(s) = m
    BY <2>1
  <2>4. m - 1 = n
    BY <1>1, <2>1, <2>3, Zenon
  <2>5. m = n + 1
    BY <2>4
  <2> QED
    BY <2>1, <2>2, <2>3, <2>4, <2>5, Zenon
<1>3. PICK i \in 1..n + 1 : s[i].kind = "join" /\ s[i].from = who
  BY <1>2, Zenon DEF Tells
<1>4. i # 1
  BY <1>2, <1>3, Zenon
<1>5. i - 1 \in 1..n /\ (i - 1) + 1 = i
  BY <1>4
<1> QED
  BY <1>1, <1>2, <1>3, <1>5, Zenon DEF Tells

\* Only a player who has not yet read the list of the room has one, and then its own coming.
Newcomer(s, p) ==
  \A i \in 1..Len(s) : s[i].kind = "list" =>
     i = 1 /\ 2 <= Len(s) /\ s[2].kind = "join" /\ s[2].from = p

LEMMA NewcomerConcat ==
  ASSUME NEW s, IsSeq(s), NEW t, IsSeq(t), NEW p, Newcomer(s, p), \A i \in 1..Len(t) : t[i].kind # "list"
  PROVE  Newcomer(s \o t, p)
<1>1. PICK a \in Nat, b \in Nat : Len(s) = a /\ Len(t) = b
  BY SeqLength
<1>2. /\ Len(s \o t) = Len(s) + Len(t)
      /\ \A i \in 1..Len(s) : (s \o t)[i] = s[i]
      /\ \A i \in 1..Len(t) : (s \o t)[Len(s) + i] = t[i]
  BY SeqConcat
<1>3. ASSUME NEW i \in 1..a + b, (s \o t)[i].kind = "list"
      PROVE  i = 1 /\ 2 <= a + b /\ (s \o t)[2].kind = "join" /\ (s \o t)[2].from = p
  <2>1. CASE i <= a
    <3>1. i \in 1..a
      BY <2>1
    <3>2. i = 1 /\ 2 <= a /\ s[2].kind = "join" /\ s[2].from = p
      BY <1>1, <1>2, <1>3, <3>1, Zenon DEF Newcomer
    <3>3. 2 \in 1..a /\ 2 <= a + b
      BY <3>2
    <3> QED
      BY <1>1, <1>2, <3>2, <3>3, Zenon
  <2>2. CASE ~(i <= a)
    <3>1. PICK j \in 1..b : i = a + j
      <4>1. i - a \in 1..b /\ i = a + (i - a)
        BY <2>2
      <4> QED
        BY <4>1
    <3> QED
      BY <1>1, <1>2, <1>3, <3>1, Zenon
  <2> QED
    BY <2>1, <2>2
<1> QED
  BY <1>1, <1>2, <1>3, Zenon DEF Newcomer

LEMMA NewcomerTail ==
  ASSUME NEW s, IsSeq(s), s # <<>>, NEW p, Newcomer(s, p)
  PROVE  /\ \A i \in 1..Len(Tail(s)) : Tail(s)[i].kind # "list"
         /\ Head(s).kind = "list" => Tells(s, p)
<1>1. PICK n \in Nat : Len(Tail(s)) = n
  BY SeqTails, SeqLength
<1>2. Len(s) = n + 1 /\ (\A i \in 1..n : Tail(s)[i] = s[i + 1]) /\ Head(s) = s[1]
  <2>1. IsSeq(Tail(s)) /\ Len(s) \in Nat /\ Len(Tail(s)) = Len(s) - 1 /\ Head(s) = s[1]
    BY SeqTails
  <2>2. \A i \in 1..Len(s) - 1 : Tail(s)[i] = s[i + 1]
    BY SeqTails
  <2>3. PICK m \in Nat : Len(s) = m
    BY <2>1
  <2>4. m - 1 = n
    BY <1>1, <2>1, <2>3, Zenon
  <2>5. m = n + 1
    BY <2>4
  <2> QED
    BY <2>1, <2>2, <2>3, <2>4, <2>5, Zenon
<1>3. ASSUME NEW i \in 1..n, Tail(s)[i].kind = "list" PROVE FALSE
  <2>1. i + 1 \in 1..n + 1 /\ i + 1 # 1
    OBVIOUS
  <2> QED
    BY <1>2, <1>3, <2>1, Zenon DEF Newcomer
<1>4. ASSUME Head(s).kind = "list" PROVE Tells(s, p)
  <2>1. 1 \in 1..n + 1
    OBVIOUS
  <2>2. 2 <= n + 1 /\ s[2].kind = "join" /\ s[2].from = p
    BY <1>2, <1>4, <2>1, Zenon DEF Newcomer
  <2>3. 2 \in 1..n + 1
    BY <2>2
  <2> QED
    BY <1>2, <2>2, <2>3, Zenon DEF Tells
<1> QED
  BY <1>1, <1>3, <1>4, Zenon
\* What the lines the players send make of a view: who is there and what they hold stays.
Says(v, s, w, a, t) ==
  /\ Leads(v, s, w) /\ w.roster = v.roster /\ w.accounts = a /\ w.tap = t
  /\ \A m \in Nicks : w.choices[m] = v.choices[m]

\* ... but for one, who says what it holds.
SaysIts(v, s, w, n, c) ==
  /\ Leads(v, s, w) /\ w.roster = v.roster /\ w.accounts = v.accounts /\ w.tap = v.tap
  /\ \A m \in Nicks : w.choices[m] = IF m = n THEN c ELSE v.choices[m]

LEMMA ChoiceLeads ==
  ASSUME NEW v, NEW n, NEW c
  PROVE  \E w : SaysIts(v, <<Line("choice", n, c)>>, w, n, c)
<1> DEFINE l == Line("choice", n, c)
           C == [m \in Nicks |-> IF m = n THEN c ELSE v.choices[m]]
           w == [roster |-> v.roster, choices |-> C, accounts |-> v.accounts, tap |-> v.tap]
<1>1. l.kind = "choice" /\ l.from = n /\ l.arg = c
  BY DEF Line
<1>2. w.roster = v.roster /\ w.choices = C /\ w.accounts = v.accounts /\ w.tap = v.tap
  OBVIOUS
<1>3. w = [roster |-> w.roster, choices |-> w.choices, accounts |-> w.accounts, tap |-> w.tap]
  OBVIOUS
<1>4. \A m \in Nicks : C[m] = IF m = n THEN c ELSE v.choices[m]
  OBVIOUS
<1>5. C = [m \in Nicks |-> IF l.kind = "list" \/ (l.kind = "leave" /\ m = l.from) THEN "?"
                           ELSE IF l.kind = "choice" /\ m = l.from THEN l.arg ELSE v.choices[m]]
  BY <1>1
<1> HIDE DEF l, C, w
<1>6. l.kind # "list" /\ l.kind # "join" /\ l.kind # "leave" /\ l.kind # "accounts" /\ l.kind # "tap"
  BY <1>1
<1>7. Turns(v, l, w)
  BY <1>2, <1>3, <1>5, <1>6, Zenon DEF Turns
<1>8. Leads(v, <<l>>, w)
  BY <1>7, LeadsOne
<1>9. SaysIts(v, <<l>>, w, n, c)
  BY <1>2, <1>4, <1>8, Zenon DEF SaysIts
<1> QED
  BY <1>9 DEF l

LEMMA TapLeads ==
  ASSUME NEW v, NEW n, NEW t
  PROVE  \E w : Says(v, <<Line("tap", n, t)>>, w, v.accounts, t)
<1> DEFINE l == Line("tap", n, t)
           C == [m \in Nicks |-> v.choices[m]]
           w == [roster |-> v.roster, choices |-> C, accounts |-> v.accounts, tap |-> t]
<1>1. l.kind = "tap" /\ l.from = n /\ l.arg = t
  BY DEF Line
<1>2. w.roster = v.roster /\ w.choices = C /\ w.accounts = v.accounts /\ w.tap = t
  OBVIOUS
<1>3. w = [roster |-> w.roster, choices |-> w.choices, accounts |-> w.accounts, tap |-> w.tap]
  OBVIOUS
<1>4. \A m \in Nicks : C[m] = v.choices[m]
  OBVIOUS
<1>5. C = [m \in Nicks |-> IF l.kind = "list" \/ (l.kind = "leave" /\ m = l.from) THEN "?"
                           ELSE IF l.kind = "choice" /\ m = l.from THEN l.arg ELSE v.choices[m]]
  BY <1>1
<1> HIDE DEF l, C, w
<1>6. l.kind # "list" /\ l.kind # "join" /\ l.kind # "leave" /\ l.kind # "accounts"
  BY <1>1
<1>7. Turns(v, l, w)
  BY <1>1, <1>2, <1>3, <1>5, <1>6, Zenon DEF Turns
<1>8. Leads(v, <<l>>, w)
  BY <1>7, LeadsOne
<1>9. Says(v, <<l>>, w, v.accounts, t)
  BY <1>2, <1>4, <1>8, Zenon DEF Says
<1> QED
  BY <1>9 DEF l

LEMMA AccountsLeads ==
  ASSUME NEW v, NEW n, NEW a
  PROVE  \E w : Says(v, <<Line("accounts", n, a)>>, w, a, v.tap)
<1> DEFINE l == Line("accounts", n, a)
           C == [m \in Nicks |-> v.choices[m]]
           w == [roster |-> v.roster, choices |-> C, accounts |-> a, tap |-> v.tap]
<1>1. l.kind = "accounts" /\ l.from = n /\ l.arg = a
  BY DEF Line
<1>2. w.roster = v.roster /\ w.choices = C /\ w.accounts = a /\ w.tap = v.tap
  OBVIOUS
<1>3. w = [roster |-> w.roster, choices |-> w.choices, accounts |-> w.accounts, tap |-> w.tap]
  OBVIOUS
<1>4. \A m \in Nicks : C[m] = v.choices[m]
  OBVIOUS
<1>5. C = [m \in Nicks |-> IF l.kind = "list" \/ (l.kind = "leave" /\ m = l.from) THEN "?"
                           ELSE IF l.kind = "choice" /\ m = l.from THEN l.arg ELSE v.choices[m]]
  BY <1>1
<1> HIDE DEF l, C, w
<1>6. l.kind # "list" /\ l.kind # "join" /\ l.kind # "leave" /\ l.kind # "tap"
  BY <1>1
<1>7. Turns(v, l, w)
  BY <1>1, <1>2, <1>3, <1>5, <1>6, Zenon DEF Turns
<1>8. Leads(v, <<l>>, w)
  BY <1>7, LeadsOne
<1>9. Says(v, <<l>>, w, a, v.tap)
  BY <1>2, <1>4, <1>8, Zenon DEF Says
<1> QED
  BY <1>9 DEF l

LEMMA OtherLeads ==
  ASSUME NEW v, NEW k \in {"ask", "answer"}, NEW n, NEW a
  PROVE  \E w : Says(v, <<Line(k, n, a)>>, w, v.accounts, v.tap)
<1> DEFINE l == Line(k, n, a)
           C == [m \in Nicks |-> v.choices[m]]
           w == [roster |-> v.roster, choices |-> C, accounts |-> v.accounts, tap |-> v.tap]
<1>1. l.kind = k /\ l.from = n /\ l.arg = a
  BY DEF Line
<1>2. w.roster = v.roster /\ w.choices = C /\ w.accounts = v.accounts /\ w.tap = v.tap
  OBVIOUS
<1>3. w = [roster |-> w.roster, choices |-> w.choices, accounts |-> w.accounts, tap |-> w.tap]
  OBVIOUS
<1>4. \A m \in Nicks : C[m] = v.choices[m]
  OBVIOUS
<1>5. /\ l.kind # "list" /\ l.kind # "join" /\ l.kind # "leave" /\ l.kind # "tap" /\ l.kind # "accounts"
      /\ l.kind # "choice"
  BY <1>1
<1>6. C = [m \in Nicks |-> IF l.kind = "list" \/ (l.kind = "leave" /\ m = l.from) THEN "?"
                           ELSE IF l.kind = "choice" /\ m = l.from THEN l.arg ELSE v.choices[m]]
  BY <1>5
<1> HIDE DEF l, C, w
<1>7. Turns(v, l, w)
  BY <1>1, <1>2, <1>3, <1>6, <1>5, Zenon DEF Turns
<1>8. Leads(v, <<l>>, w)
  BY <1>7, LeadsOne
<1>9. Says(v, <<l>>, w, v.accounts, v.tap)
  BY <1>2, <1>4, <1>8, Zenon DEF Says
<1> QED
  BY <1>9 DEF l

\* The server's own messages: the list of the room, a player who comes, one who goes.
Lists(v, s, w, list) == Leads(v, s, w) /\ w.roster = list
Adds(v, s, w, n) ==
  /\ Leads(v, s, w) /\ w.roster = Append(v.roster, n) /\ w.accounts = v.accounts
  /\ \A m \in Nicks : w.choices[m] = v.choices[m]
Drops(v, s, w, n) ==
  /\ Leads(v, s, w) /\ w.roster = Without(v.roster, n) /\ w.accounts = v.accounts
  /\ w.tap = (Len(Without(v.roster, n)) >= 3 /\ v.tap)
  /\ \A m \in Nicks : m # n => w.choices[m] = v.choices[m]

LEMMA ListLeads ==
  ASSUME NEW v, NEW n, NEW s
  PROVE  \E w : Lists(v, <<Line("list", n, s)>>, w, s)
<1> DEFINE l == Line("list", n, s)
           C == [m \in Nicks |-> "?"]
           w == [roster |-> s, choices |-> C, accounts |-> {}, tap |-> FALSE]
<1>1. l.kind = "list" /\ l.from = n /\ l.arg = s
  BY DEF Line
<1>2. w.roster = s /\ w.choices = C /\ w.accounts = {} /\ w.tap = FALSE
  OBVIOUS
<1>3. w = [roster |-> w.roster, choices |-> w.choices, accounts |-> w.accounts, tap |-> w.tap]
  OBVIOUS
<1>4. C = [m \in Nicks |-> IF l.kind = "list" \/ (l.kind = "leave" /\ m = l.from) THEN "?"
                           ELSE IF l.kind = "choice" /\ m = l.from THEN l.arg ELSE v.choices[m]]
  BY <1>1
<1> HIDE DEF l, C, w
<1>5. l.kind # "join"
  BY <1>1
<1>6. Turns(v, l, w)
  BY <1>1, <1>2, <1>3, <1>4, <1>5, Zenon DEF Turns
<1>7. Leads(v, <<l>>, w)
  BY <1>6, LeadsOne
<1>8. Lists(v, <<l>>, w, s)
  BY <1>2, <1>7, Zenon DEF Lists
<1> QED
  BY <1>8 DEF l

LEMMA JoinLeads ==
  ASSUME NEW v, NEW n, n \notin ToSet(v.roster), NEW a
  PROVE  \E w : Adds(v, <<Line("join", n, a)>>, w, n)
<1> DEFINE l == Line("join", n, a)
           C == [m \in Nicks |-> v.choices[m]]
           R == Append(v.roster, n)
           t == Len(v.roster) + 1 >= 3 /\ v.tap
           w == [roster |-> R, choices |-> C, accounts |-> v.accounts, tap |-> t]
<1>1. l.kind = "join" /\ l.from = n
  BY DEF Line
<1>2. w.roster = R /\ w.choices = C /\ w.accounts = v.accounts /\ w.tap = t
  OBVIOUS
<1>3. w = [roster |-> w.roster, choices |-> w.choices, accounts |-> w.accounts, tap |-> w.tap]
  OBVIOUS
<1>4. \A m \in Nicks : C[m] = v.choices[m]
  OBVIOUS
<1>5. C = [m \in Nicks |-> IF l.kind = "list" \/ (l.kind = "leave" /\ m = l.from) THEN "?"
                           ELSE IF l.kind = "choice" /\ m = l.from THEN l.arg ELSE v.choices[m]]
  BY <1>1
<1> HIDE DEF l, C, w
<1>6. l.kind # "list" /\ l.kind # "tap" /\ l.kind # "leave" /\ l.kind # "accounts"
  BY <1>1
<1>7. Turns(v, l, w)
  BY <1>1, <1>2, <1>3, <1>5, <1>6, Zenon DEF Turns
<1>8. Leads(v, <<l>>, w)
  BY <1>7, LeadsOne
<1>9. Adds(v, <<l>>, w, n)
  BY <1>2, <1>4, <1>8, Zenon DEF Adds
<1> QED
  BY <1>9 DEF l

LEMMA LeaveLeads ==
  ASSUME NEW v, NEW n, NEW a
  PROVE  \E w : Drops(v, <<Line("leave", n, a)>>, w, n)
<1> DEFINE l == Line("leave", n, a)
           C == [m \in Nicks |-> IF m = n THEN "?" ELSE v.choices[m]]
           R == Without(v.roster, n)
           t == Len(R) >= 3 /\ v.tap
           w == [roster |-> R, choices |-> C, accounts |-> v.accounts, tap |-> t]
<1>1. l.kind = "leave" /\ l.from = n
  BY DEF Line
<1>2. w.roster = R /\ w.choices = C /\ w.accounts = v.accounts /\ w.tap = t
  OBVIOUS
<1>3. w = [roster |-> w.roster, choices |-> w.choices, accounts |-> w.accounts, tap |-> w.tap]
  OBVIOUS
<1>4. \A m \in Nicks : m # n => C[m] = v.choices[m]
  OBVIOUS
<1>5. C = [m \in Nicks |-> IF l.kind = "list" \/ (l.kind = "leave" /\ m = l.from) THEN "?"
                           ELSE IF l.kind = "choice" /\ m = l.from THEN l.arg ELSE v.choices[m]]
  BY <1>1
<1> HIDE DEF l, C, w
<1>6. l.kind # "list" /\ l.kind # "tap" /\ l.kind # "join" /\ l.kind # "accounts"
  BY <1>1
<1>7. Turns(v, l, w)
  BY <1>1, <1>2, <1>3, <1>5, <1>6, Zenon DEF Turns
<1>8. Leads(v, <<l>>, w)
  BY <1>7, LeadsOne
<1>9. Drops(v, <<l>>, w, n)
  BY <1>2, <1>4, <1>8, Zenon DEF Drops
<1> QED
  BY <1>9 DEF l

\* Who may still read what: the host hears of those who come and go, and what the others hold; the
\* others hear of the host's box and accounts too.
HostKinds == {"join", "leave", "choice", "answer"}
GuestKinds == {"join", "leave", "choice", "tap", "accounts", "ask"}
Kinds(p) == IF p = Host THEN HostKinds ELSE GuestKinds \cup {"list"}

\* What p will show once it has read everything: the members, what each has announced, unless one
\* will say so when it reads of p's coming; and the host's accounts and box, unless it will tell.
Shown(p, w) ==
  /\ w.roster = members
  /\ \A n \in ToSet(members) : \/ Tells(inbox[n], n) \/ Tells(inbox[n], p)
                               \/ w.choices[n] = announced[n]
  /\ p = Host \/ Tells(inbox[Host], p) \/ w.accounts = HostAccounts(checks)
  /\ \/ p = Host \/ \E who \in Nicks : Tells(inbox[Host], who)
     \/ w.tap = tapOn[Host] \/ (Len(members) < 3 /\ tapOn[Host])
Agreed(p) == \E w : Leads(View(p), inbox[p], w) /\ Shown(p, w)

\* The room before the start, and the host's own tables: it checks nobody it does not list, and its
\* box follows the number of players it lists.
SetupTables ==
  /\ DOMAIN roster = Nicks /\ DOMAIN choices = Nicks /\ DOMAIN announced = Nicks
  /\ DOMAIN accounts = Nicks /\ DOMAIN tapOn = Nicks /\ DOMAIN answering = Nicks /\ DOMAIN login = Nicks
  /\ \A p \in Nicks : choices[p] = [n \in Nicks |-> choices[p][n]]
SetupMembers ==
  IsSeq(members) /\ IsInjective(members) /\ Host \in ToSet(members) /\ ToSet(members) \subseteq Nicks
SetupLines ==
  \A p \in Nicks : /\ Of(inbox[p], Kinds(p)) /\ Newcomer(inbox[p], p)
                   /\ p \notin ToSet(members) => inbox[p] = <<>>
HostTables ==
  /\ answering[Host] = "no"
  /\ IsSeq(roster[Host]) /\ DOMAIN checks \subseteq ToSet(roster[Host])
  /\ tapSeen = Len(roster[Host]) /\ tapOn[Host] \in BOOLEAN /\ (tapOn[Host] => tapSeen >= 3)
Shape == SetupTables /\ SetupMembers /\ SetupLines /\ HostTables
QInv == ~begun => Shape /\ \A p \in ToSet(members) : Agreed(p)

\* What a player sends takes its place behind what everybody has not read yet.
LEMMA Posted ==
  ASSUME SetupMembers, SetupLines, ~begun, NEW p \in Nicks, NEW H, Of(H, HostKinds), NEW G, Of(G, GuestKinds),
         NEW r \in BOOLEAN, Post(p, H, G, r), members' = members, r => inbox[p] # <<>>
  PROVE  /\ SetupLines'
         /\ \A q \in Nicks : \A who : Tells(inbox[q], who) =>
              \/ Tells(inbox'[q], who)
              \/ r /\ q = p /\ Head(inbox[p]).kind = "join" /\ Head(inbox[p]).from = who
         /\ \A q \in ToSet(members) : \A v, w, x :
              /\ Leads(v, IF r /\ q = p THEN Tail(inbox[q]) ELSE inbox[q], w)
              /\ Leads(w, IF q = Host THEN H ELSE G, x)
              => Leads(v, inbox'[q], x)
<1>1. ASSUME NEW q \in Nicks, NEW a, a = (IF r /\ q = p THEN Tail(inbox[q]) ELSE inbox[q]),
             NEW b, b = (IF q \in ToSet(members) THEN (IF q = Host THEN H ELSE G) ELSE <<>>)
      PROVE  inbox'[q] = a \o b
  <2>1. inbox'[q] = (IF r /\ q = p THEN Tail(inbox[q]) ELSE inbox[q])
           \o (IF q \in ToSet(members) /\ ~begun THEN (IF q = Host THEN H ELSE G) ELSE <<>>)
    BY DEF Post
  <2> QED
    BY <1>1, <2>1, Zenon
<1>2. ASSUME NEW q \in Nicks
      PROVE  \E a, b : /\ a = (IF r /\ q = p THEN Tail(inbox[q]) ELSE inbox[q])
                       /\ b = (IF q \in ToSet(members) THEN (IF q = Host THEN H ELSE G) ELSE <<>>)
                       /\ inbox'[q] = a \o b
                       /\ Of(a, Kinds(q)) /\ Newcomer(a, q) /\ IsSeq(a)
                       /\ Of(b, Kinds(q)) /\ IsSeq(b) /\ (\A i \in 1..Len(b) : b[i].kind # "list")
                       /\ \A who : Tells(inbox[q], who) =>
                            \/ Tells(a, who)
                            \/ r /\ q = p /\ Head(inbox[p]).kind = "join" /\ Head(inbox[p]).from = who
  <2>1. PICK a : a = IF r /\ q = p THEN Tail(inbox[q]) ELSE inbox[q]
    OBVIOUS
  <2>2. PICK b : b = IF q \in ToSet(members) THEN (IF q = Host THEN H ELSE G) ELSE <<>>
    OBVIOUS
  <2>3. inbox'[q] = a \o b
    BY <1>1, <2>1, <2>2
  <2>4. Of(inbox[q], Kinds(q)) /\ Newcomer(inbox[q], q) /\ IsSeq(inbox[q])
    BY DEF SetupLines, Of
  <2>5. /\ Of(a, Kinds(q)) /\ Newcomer(a, q)
        /\ \A who : Tells(inbox[q], who) =>
                \/ Tells(a, who)
                \/ r /\ q = p /\ Head(inbox[p]).kind = "join" /\ Head(inbox[p]).from = who
    <3>1. CASE r /\ q = p
      <4>1. a = Tail(inbox[q]) /\ inbox[q] # <<>>
        BY <2>1, <3>1
      <4>2. Of(Tail(inbox[q]), Kinds(q))
        BY <2>4, <4>1, OfTail
      <4>3. Newcomer(Tail(inbox[q]), q)
        <5>1. \A i \in 1..Len(Tail(inbox[q])) : Tail(inbox[q])[i].kind # "list"
          BY <2>4, <4>1, NewcomerTail
        <5> QED
          BY <5>1, Zenon DEF Newcomer
      <4>4. ASSUME NEW who, Tells(inbox[q], who), ~(Head(inbox[q]).kind = "join" /\ Head(inbox[q]).from = who)
            PROVE  Tells(Tail(inbox[q]), who)
        BY <2>4, <4>1, <4>4, TellsTail
      <4> QED
        BY <3>1, <4>1, <4>2, <4>3, <4>4, Zenon
    <3>2. CASE ~(r /\ q = p)
      BY <2>1, <2>4, <3>2
    <3> QED
      BY <3>1, <3>2
  <2>6. Of(b, Kinds(q)) /\ \A i \in 1..Len(b) : b[i].kind # "list"
    <3>1. CASE b = <<>>
      BY <3>1, OfNone, SeqNone
    <3>2. CASE q = Host /\ b = H
      BY <3>2 DEF Of, Kinds, HostKinds
    <3>3. CASE q # Host /\ b = G
      BY <3>3 DEF Of, Kinds, GuestKinds
    <3> QED
      BY <2>2, <3>1, <3>2, <3>3
  <2>7. IsSeq(a) /\ IsSeq(b)
    BY <2>5, <2>6 DEF Of
  <2> QED
    BY <2>1, <2>2, <2>3, <2>5, <2>6, <2>7, Zenon
<1>3. SetupLines'
  <2>1. ASSUME NEW q \in Nicks
        PROVE  Of(inbox'[q], Kinds(q)) /\ Newcomer(inbox'[q], q) /\ (q \notin ToSet(members) => inbox'[q] = <<>>)
    <3>1. PICK a, b : /\ a = (IF r /\ q = p THEN Tail(inbox[q]) ELSE inbox[q])
                      /\ b = (IF q \in ToSet(members) THEN (IF q = Host THEN H ELSE G) ELSE <<>>)
                      /\ inbox'[q] = a \o b
                      /\ Of(a, Kinds(q)) /\ Newcomer(a, q) /\ IsSeq(a)
                      /\ Of(b, Kinds(q)) /\ IsSeq(b) /\ (\A i \in 1..Len(b) : b[i].kind # "list")
      BY <1>2
    <3>2. Of(a \o b, Kinds(q))
      BY <3>1, OfConcat
    <3>3. Newcomer(a \o b, q)
      BY <3>1, NewcomerConcat
    <3>4. ASSUME q \notin ToSet(members) PROVE a \o b = <<>>
      <4>1. inbox[q] = <<>>
        BY <3>4 DEF SetupLines
      <4>2. ~(r /\ q = p)
        BY <4>1
      <4>3. a = <<>> /\ b = <<>>
        BY <3>1, <3>4, <4>1, <4>2
      <4> QED
        BY <4>3
    <3> QED
      BY <3>1, <3>2, <3>3, <3>4, Zenon
  <2> QED
    BY <2>1 DEF SetupLines
<1>4. ASSUME NEW q \in Nicks, NEW who, Tells(inbox[q], who)
      PROVE  \/ Tells(inbox'[q], who)
             \/ r /\ q = p /\ Head(inbox[p]).kind = "join" /\ Head(inbox[p]).from = who
  <2>1. PICK a, b : /\ inbox'[q] = a \o b /\ IsSeq(a) /\ IsSeq(b)
                    /\ \A x : Tells(inbox[q], x) =>
                            \/ Tells(a, x)
                            \/ r /\ q = p /\ Head(inbox[p]).kind = "join" /\ Head(inbox[p]).from = x
    BY <1>2, Zenon
  <2>2. CASE Tells(a, who)
    <3>1. Tells(a \o b, who)
      BY <2>1, <2>2, TellsConcat
    <3> QED
      BY <2>1, <3>1, Zenon
  <2> QED
    BY <1>4, <2>1, <2>2, Zenon
<1>5. ASSUME NEW q \in ToSet(members), NEW v, NEW w, NEW x,
             Leads(v, IF r /\ q = p THEN Tail(inbox[q]) ELSE inbox[q], w),
             Leads(w, IF q = Host THEN H ELSE G, x)
      PROVE  Leads(v, inbox'[q], x)
  <2>1. q \in Nicks
    BY DEF SetupMembers
  <2>2. PICK a, b : /\ a = (IF r /\ q = p THEN Tail(inbox[q]) ELSE inbox[q])
                    /\ b = (IF q \in ToSet(members) THEN (IF q = Host THEN H ELSE G) ELSE <<>>)
                    /\ inbox'[q] = a \o b /\ IsSeq(a) /\ IsSeq(b)
    BY <1>2, <2>1, Zenon
  <2>3. Leads(v, a, w) /\ Leads(w, b, x)
    BY <1>5, <2>2, Zenon
  <2>4. Leads(v, a \o b, x)
    BY <2>2, <2>3, LeadsConcat
  <2> QED
    BY <2>2, <2>4, Zenon
<1> QED
  BY <1>3, <1>4, <1>5, Zenon

\* The first line a player has not read makes something of what it shows.
LEMMA NextLine ==
  ASSUME SetupLines, NEW p \in Nicks, Agreed(p), inbox[p] # <<>>
  PROVE  \E v, w : /\ Turns(View(p), Head(inbox[p]), v) /\ Leads(v, Tail(inbox[p]), w) /\ Shown(p, w)
<1>1. PICK w : Leads(View(p), inbox[p], w) /\ Shown(p, w)
  BY DEF Agreed
<1>2. IsSeq(inbox[p])
  BY DEF SetupLines, Of
<1>3. \E v : Turns(View(p), Head(inbox[p]), v) /\ Leads(v, Tail(inbox[p]), w)
  BY <1>1, <1>2, LeadsRest
<1> QED
  BY <1>1, <1>3

\* What was sent is the last that a player will have read.
LEMMA ReadLast ==
  ASSUME SetupMembers, SetupLines, ~begun, NEW p \in Nicks, NEW H, Of(H, HostKinds), NEW G, Of(G, GuestKinds),
         NEW r \in BOOLEAN, Post(p, H, G, r), members' = members, r => inbox[p] # <<>>,
         NEW q \in ToSet(members), Agreed(q),
         r /\ q = p => \A v : Turns(View(q), Head(inbox[q]), v) => View(q)' = v,
         ~(r /\ q = p) => View(q)' = View(q)
  PROVE  \E w : /\ Shown(q, w)
                /\ \A x : Leads(w, IF q = Host THEN H ELSE G, x) => Leads(View(q)', inbox'[q], x)
<1>1. q \in Nicks
  BY DEF SetupMembers
<1>2. \A v, w, x : /\ Leads(v, IF r /\ q = p THEN Tail(inbox[q]) ELSE inbox[q], w)
                   /\ Leads(w, IF q = Host THEN H ELSE G, x)
                   => Leads(v, inbox'[q], x)
  BY Posted
<1>3. CASE r /\ q = p
  <2>1. PICK v, w : Turns(View(q), Head(inbox[q]), v) /\ Leads(v, Tail(inbox[q]), w) /\ Shown(q, w)
    BY <1>1, <1>3, NextLine
  <2>2. View(q)' = v
    BY <1>3, <2>1
  <2>3. ASSUME NEW x, Leads(w, IF q = Host THEN H ELSE G, x)
        PROVE  Leads(v, inbox'[q], x)
    <3>1. Leads(v, IF r /\ q = p THEN Tail(inbox[q]) ELSE inbox[q], w)
      BY <1>3, <2>1, Zenon
    <3> QED
      BY <1>2, <2>3, <3>1, Zenon
  <2> QED
    BY <2>1, <2>2, <2>3, Zenon
<1>4. CASE ~(r /\ q = p)
  <2>1. PICK w : Leads(View(q), inbox[q], w) /\ Shown(q, w)
    BY DEF Agreed
  <2>2. View(q)' = View(q)
    BY <1>4
  <2>3. ASSUME NEW x, Leads(w, IF q = Host THEN H ELSE G, x)
        PROVE  Leads(View(q), inbox'[q], x)
    <3>1. Leads(View(q), IF r /\ q = p THEN Tail(inbox[q]) ELSE inbox[q], w)
      BY <1>4, <2>1, Zenon
    <3> QED
      BY <1>2, <2>3, <3>1, Zenon
  <2> QED
    BY <2>1, <2>2, <2>3, Zenon
<1> QED
  BY <1>3, <1>4

\* What a player will show stays what it should: of everybody it is as before, or just been told; and
\* so it is where somebody who would have told has read the line that makes it.
KeepsUp(q, w, x) ==
  /\ x.roster = w.roster
  /\ \A n \in ToSet(members) : \/ x.choices[n] = announced'[n] \/ Tells(inbox'[n], n)
                               \/ x.choices[n] = w.choices[n] /\ announced'[n] = announced[n]
  /\ \/ q = Host \/ x.accounts = HostAccounts(checks)'
     \/ x.accounts = w.accounts /\ HostAccounts(checks)' = HostAccounts(checks)
  /\ q = Host \/ x.tap = tapOn'[Host] \/ (x.tap = w.tap /\ tapOn'[Host] = tapOn[Host])
  /\ \A m \in ToSet(members) : \A who : Tells(inbox[m], who) =>
        \/ Tells(inbox'[m], who)
        \/ /\ x.choices[m] = announced'[m]
           /\ m # Host \/ q = Host \/ (x.accounts = HostAccounts(checks)' /\ x.tap = tapOn'[Host])

LEMMA StaysShown ==
  ASSUME SetupMembers, members' = members, NEW q \in ToSet(members), NEW w, Shown(q, w), NEW x, KeepsUp(q, w, x)
  PROVE  Shown(q, x)'
<1>1. Host \in ToSet(members)
  BY DEF SetupMembers
<1>2. x.roster = members'
  BY Zenon DEF Shown, KeepsUp
<1>3. ASSUME NEW n \in ToSet(members)
      PROVE  Tells(inbox'[n], n) \/ Tells(inbox'[n], q) \/ x.choices[n] = announced'[n]
  <2>1. Tells(inbox[n], n) \/ Tells(inbox[n], q) \/ w.choices[n] = announced[n]
    BY Zenon DEF Shown
  <2>2. CASE Tells(inbox[n], n)
    BY <2>2, Zenon DEF KeepsUp
  <2>3. CASE Tells(inbox[n], q)
    BY <2>3, Zenon DEF KeepsUp
  <2>4. CASE w.choices[n] = announced[n]
    BY <2>4, Zenon DEF KeepsUp
  <2> QED
    BY <2>1, <2>2, <2>3, <2>4, Zenon
<1>4. q = Host \/ Tells(inbox'[Host], q) \/ x.accounts = HostAccounts(checks)'
  <2>1. q = Host \/ Tells(inbox[Host], q) \/ w.accounts = HostAccounts(checks)
    BY Zenon DEF Shown
  <2>2. CASE Tells(inbox[Host], q)
    BY <1>1, <2>2, Zenon DEF KeepsUp
  <2> QED
    BY <2>1, <2>2, Zenon DEF KeepsUp
<1>5. \/ q = Host \/ \E who \in Nicks : Tells(inbox'[Host], who)
      \/ x.tap = tapOn'[Host] \/ (Len(members) < 3 /\ tapOn'[Host])
  <2>1. \/ q = Host \/ \E who \in Nicks : Tells(inbox[Host], who)
        \/ w.tap = tapOn[Host] \/ (Len(members) < 3 /\ tapOn[Host])
    BY Zenon DEF Shown
  <2>2. CASE \E who \in Nicks : Tells(inbox[Host], who)
    BY <1>1, <2>2, Zenon DEF KeepsUp
  <2> QED
    BY <2>1, <2>2, Zenon DEF KeepsUp
<1> QED
  BY <1>2, <1>3, <1>4, <1>5, Zenon DEF Shown

\* A step of p that sends H to the host and G to the others keeps the room agreed if what they read of
\* it makes of everything they should show what they should show now.
LEMMA Sends ==
  ASSUME Shape, \A q \in ToSet(members) : Agreed(q), ~begun,
         NEW p \in Nicks, NEW H, Of(H, HostKinds), NEW G, Of(G, GuestKinds), NEW r \in BOOLEAN,
         Post(p, H, G, r), members' = members, r => inbox[p] # <<>>,
         r => \A v : Turns(View(p), Head(inbox[p]), v) => View(p)' = v,
         \A q \in ToSet(members) : ~(r /\ q = p) => View(q)' = View(q),
         SetupTables', HostTables',
         \A q \in ToSet(members) : \A w : Shown(q, w) =>
            \E x : Leads(w, IF q = Host THEN H ELSE G, x) /\ Shown(q, x)'
  PROVE  Shape' /\ \A q \in ToSet(members) : Agreed(q)'
<1>1. SetupMembers /\ SetupTables /\ SetupLines /\ HostTables
  BY DEF Shape
<1>2. SetupLines'
  BY <1>1, Posted
<1>3. SetupMembers'
  BY <1>1 DEF SetupMembers
<1>4. ASSUME NEW q \in ToSet(members) PROVE Agreed(q)'
  <2>1. r /\ q = p => \A v : Turns(View(q), Head(inbox[q]), v) => View(q)' = v
    OBVIOUS
  <2>2. ~(r /\ q = p) => View(q)' = View(q)
    OBVIOUS
  <2>3. Agreed(q)
    OBVIOUS
  <2>4. PICK w : Shown(q, w) /\ \A x : Leads(w, IF q = Host THEN H ELSE G, x) => Leads(View(q)', inbox'[q], x)
    BY <1>1, <2>1, <2>2, <2>3, ReadLast
  <2>5. PICK x : Leads(w, IF q = Host THEN H ELSE G, x) /\ Shown(q, x)'
    BY <2>4, Zenon
  <2> QED
    BY <2>4, <2>5, Zenon DEF Agreed
<1> QED
  BY <1>1, <1>2, <1>3, <1>4, Zenon DEF Shape

\* What everybody had still to read it has still to read, unless it was the line just read.
LEMMA StaysUnread ==
  ASSUME SetupMembers, SetupLines, ~begun, NEW p \in Nicks, NEW H, Of(H, HostKinds), NEW G, Of(G, GuestKinds),
         NEW r \in BOOLEAN, Post(p, H, G, r), members' = members, r => inbox[p] # <<>>
  PROVE  \A m \in ToSet(members) : \A who : Tells(inbox[m], who) =>
              \/ Tells(inbox'[m], who)
              \/ r /\ m = p /\ Head(inbox[p]).kind = "join" /\ Head(inbox[p]).from = who
<1>1. \A q \in Nicks : \A who : Tells(inbox[q], who) =>
              \/ Tells(inbox'[q], who)
              \/ r /\ q = p /\ Head(inbox[p]).kind = "join" /\ Head(inbox[p]).from = who
  BY Posted
<1> QED
  BY <1>1, Zenon DEF SetupMembers

\* A player says what it holds, outside of a reading: McAnnounceOwn on the timer, CMB_MEMCARD.
LEMMA SaysChoice ==
  ASSUME Shape, \A q \in ToSet(members) : Agreed(q), ~begun, NEW p \in ToSet(members), NEW c,
         announced' = [announced EXCEPT ![p] = c], PostAll(p, <<Line("choice", p, c)>>, FALSE),
         UNCHANGED <<members, roster, choices, accounts, tapOn, tapSeen, answering, login, checks>>
  PROVE  Shape' /\ \A q \in ToSet(members) : Agreed(q)'
<1> DEFINE L == <<Line("choice", p, c)>>
<1>1. p \in Nicks /\ SetupMembers /\ SetupTables /\ SetupLines /\ HostTables /\ members' = members
  BY DEF Shape, SetupMembers
<1> PICK r \in BOOLEAN : r = FALSE
  OBVIOUS
<1>2. Of(L, HostKinds) /\ Of(L, GuestKinds) /\ Post(p, L, L, r)
  <2>1. Line("choice", p, c).kind \in HostKinds /\ Line("choice", p, c).kind \in GuestKinds
    BY DEF Line, HostKinds, GuestKinds
  <2>2. Of(L, HostKinds) /\ Of(L, GuestKinds)
    BY <2>1, OfOne
  <2> QED
    BY <2>2 DEF PostAll
<1> HIDE DEF L
<1>3. SetupTables' /\ HostTables'
  BY <1>1 DEF SetupTables, HostTables
<1>4. \A m \in ToSet(members) : \A who : Tells(inbox[m], who) => Tells(inbox'[m], who)
  <2>1. r => inbox[p] # <<>>
    OBVIOUS
  <2>2. \A m \in ToSet(members) : \A who : Tells(inbox[m], who) =>
              \/ Tells(inbox'[m], who)
              \/ r /\ m = p /\ Head(inbox[p]).kind = "join" /\ Head(inbox[p]).from = who
    BY <1>1, <1>2, <2>1, StaysUnread
  <2> QED
    BY <2>2, Zenon
<1>5. ASSUME NEW q \in ToSet(members), NEW w, Shown(q, w)
      PROVE  \E x : Leads(w, IF q = Host THEN L ELSE L, x) /\ Shown(q, x)'
  <2>1. PICK x : SaysIts(w, L, x, p, c)
    BY ChoiceLeads, Zenon DEF L
  <2>2. /\ Leads(w, L, x) /\ x.roster = w.roster /\ x.accounts = w.accounts /\ x.tap = w.tap
        /\ \A m \in Nicks : x.choices[m] = IF m = p THEN c ELSE w.choices[m]
    BY <2>1, Zenon DEF SaysIts
  <2>3. \A n \in ToSet(members) : \/ x.choices[n] = announced'[n]
                                  \/ x.choices[n] = w.choices[n] /\ announced'[n] = announced[n]
    BY <1>1, <2>2 DEF SetupTables, SetupMembers
  <2>4. HostAccounts(checks)' = HostAccounts(checks) /\ tapOn'[Host] = tapOn[Host]
    BY DEF HostAccounts
  <2>5. KeepsUp(q, w, x)
    BY <1>4, <2>2, <2>3, <2>4, Zenon DEF KeepsUp
  <2>6. Shown(q, x)'
    BY <1>1, <1>5, <2>5, StaysShown
  <2> QED
    BY <2>2, <2>6, Zenon
<1>6. \A q \in ToSet(members) : View(q)' = View(q)
  BY DEF View
<1>7. r => inbox[p] # <<>> /\ \A v : Turns(View(p), Head(inbox[p]), v) => View(p)' = v
  OBVIOUS
<1> QED
  BY <1>1, <1>2, <1>3, <1>5, <1>6, <1>7, Sends

LEMMA TickAgrees ==
  ASSUME Shape, \A q \in ToSet(members) : Agreed(q), ~begun, NEW p \in Nicks, Tick(p)
  PROVE  Shape' /\ \A q \in ToSet(members') : Agreed(q)'
<1>1. /\ p \in ToSet(members) /\ announced' = [announced EXCEPT ![p] = OwnChoice(p)]
      /\ PostAll(p, <<Line("choice", p, OwnChoice(p))>>, FALSE)
      /\ UNCHANGED <<members, roster, choices, accounts, tapOn, tapSeen, answering, login, checks>>
  BY Zenon DEF Tick, AnnounceOwn, loginVars, hostVars
<1>2. Shape' /\ \A q \in ToSet(members) : Agreed(q)'
  BY <1>1, SaysChoice
<1> QED
  BY <1>1, <1>2, Zenon

LEMMA ChooseAgrees ==
  ASSUME Shape, \A q \in ToSet(members) : Agreed(q), ~begun, NEW p \in Nicks, NEW c, Choose(p, c)
  PROVE  Shape' /\ \A q \in ToSet(members') : Agreed(q)'
<1>1. /\ p \in ToSet(members) /\ announced' = [announced EXCEPT ![p] = c]
      /\ PostAll(p, <<Line("choice", p, c)>>, FALSE)
      /\ UNCHANGED <<members, roster, choices, accounts, tapOn, tapSeen, answering, login, checks>>
  BY Zenon DEF Choose, hostVars
<1>2. Shape' /\ \A q \in ToSet(members) : Agreed(q)'
  BY <1>1, SaysChoice
<1> QED
  BY <1>1, <1>2, Zenon

\* What the players show and have before them is left alone.
LEMMA KeepsAgreed ==
  ASSUME Shape, \A q \in ToSet(members) : Agreed(q), SetupTables', HostTables',
         UNCHANGED <<members, inbox, roster, choices, announced, accounts, tapOn>>,
         HostAccounts(checks)' = HostAccounts(checks)
  PROVE  Shape' /\ \A q \in ToSet(members') : Agreed(q)'
<1>1. SetupMembers /\ members' = members
  BY DEF Shape
<1>2. SetupMembers' /\ SetupLines'
  BY DEF Shape, SetupMembers, SetupLines
<1>3. ASSUME NEW q \in ToSet(members) PROVE Agreed(q)'
  <2>1. PICK w : Leads(View(q), inbox[q], w) /\ Shown(q, w)
    BY DEF Agreed
  <2>2. View(q)' = View(q) /\ inbox'[q] = inbox[q]
    BY DEF View
  <2>3. \A n \in ToSet(members) : announced'[n] = announced[n]
    OBVIOUS
  <2>4. \A m \in ToSet(members) : \A who : Tells(inbox[m], who) => Tells(inbox'[m], who)
    OBVIOUS
  <2>5. tapOn'[Host] = tapOn[Host]
    OBVIOUS
  <2>6. Shown(q, w)'
    <3>1. \A n \in ToSet(members) : \/ w.choices[n] = announced'[n]
                                    \/ w.choices[n] = w.choices[n] /\ announced'[n] = announced[n]
      BY <2>3
    <3>2. KeepsUp(q, w, w)
      BY <2>4, <2>5, <3>1, Zenon DEF KeepsUp
    <3> QED
      BY <1>1, <2>1, <3>2, StaysShown
  <2> QED
    BY <2>1, <2>2, <2>6, Zenon DEF Agreed
<1> QED
  BY <1>1, <1>2, <1>3, Zenon DEF Shape

LEMMA TimeoutAgrees ==
  ASSUME Shape, \A q \in ToSet(members) : Agreed(q), NEW n, CheckTimeout(n)
  PROVE  Shape' /\ \A q \in ToSet(members') : Agreed(q)'
<1>1. HostAccounts(checks)' = HostAccounts(checks)
  BY DEF CheckTimeout, HostAccounts, loginVars, Confirmed, NotConfirmed, Waiting
<1>2. UNCHANGED <<members, inbox, roster, choices, announced, accounts, tapOn, tapSeen, answering, login>>
  BY Zenon DEF CheckTimeout, loginVars, tableVars
<1>3. DOMAIN checks' = DOMAIN checks
  BY DEF CheckTimeout
<1>4. SetupTables' /\ HostTables'
  BY <1>2, <1>3 DEF Shape, SetupTables, HostTables
<1> QED
  BY <1>1, <1>2, <1>4, KeepsAgreed

LEMMA AnswerAgrees ==
  ASSUME Shape, \A q \in ToSet(members) : Agreed(q), ~begun, NEW p \in Nicks, Answer(p)
  PROVE  Shape' /\ \A q \in ToSet(members') : Agreed(q)'
<1>1. SetupMembers /\ SetupTables /\ SetupLines /\ HostTables
  BY DEF Shape
<1>2. p # Host
  BY <1>1 DEF Answer, HostTables
<1>3. UNCHANGED <<members, roster, choices, announced, accounts, tapOn, tapSeen, checks>>
  BY Zenon DEF Answer, tableVars, hostVars
<1>4. /\ answering' = [answering EXCEPT ![p] = "no"]
      /\ login' = login \/ login' = [login EXCEPT ![p] = "none"]
  BY DEF Answer
<1>5. HostAccounts(checks)' = HostAccounts(checks)
  <2>1. login'[Host] = login[Host]
    BY <1>1, <1>2, <1>4, RoomSetupAssumption DEF SetupTables
  <2>2. checks' = checks
    BY <1>3
  <2> QED
    BY <2>1, <2>2, Zenon DEF HostAccounts
<1>6. SetupTables' /\ HostTables'
  BY <1>1, <1>2, <1>3, <1>4 DEF SetupTables, HostTables
<1>7. \/ inbox' = inbox
      \/ \E a : Post(p, <<Line("answer", p, a)>>, <<>>, FALSE)
  BY Zenon DEF Answer
<1>8. CASE inbox' = inbox
  BY <1>3, <1>5, <1>6, <1>8, KeepsAgreed
<1>9. ASSUME NEW a, Post(p, <<Line("answer", p, a)>>, <<>>, FALSE)
      PROVE  Shape' /\ \A q \in ToSet(members) : Agreed(q)'
  <2> PICK r \in BOOLEAN : r = FALSE
    OBVIOUS
  <2> PICK H, G : H = <<Line("answer", p, a)>> /\ G = <<>>
    OBVIOUS
  <2>1. Of(H, HostKinds) /\ Of(G, GuestKinds) /\ Post(p, H, G, r)
    <3>1. Line("answer", p, a).kind \in HostKinds
      BY DEF Line, HostKinds
    <3>2. Of(H, HostKinds) /\ Of(G, GuestKinds)
      BY <3>1, OfOne, OfNone
    <3> QED
      BY <1>9, <3>2, Zenon
  <2>2. \A m \in ToSet(members) : \A who : Tells(inbox[m], who) => Tells(inbox'[m], who)
    <3>1. r => inbox[p] # <<>>
      OBVIOUS
    <3>2. \A m \in ToSet(members) : \A who : Tells(inbox[m], who) =>
                \/ Tells(inbox'[m], who)
                \/ r /\ m = p /\ Head(inbox[p]).kind = "join" /\ Head(inbox[p]).from = who
      BY <1>1, <1>3, <2>1, <3>1, StaysUnread
    <3> QED
      BY <3>2, Zenon
  <2>3. ASSUME NEW q \in ToSet(members), NEW w, Shown(q, w)
        PROVE  \E x : Leads(w, IF q = Host THEN H ELSE G, x) /\ Shown(q, x)'
    <3>1. PICK x : Says(w, IF q = Host THEN H ELSE G, x, w.accounts, w.tap)
      <4>1. \E x : Says(w, H, x, w.accounts, w.tap)
        BY OtherLeads, Zenon
      <4>2. Says(w, G, w, w.accounts, w.tap)
        BY LeadsNone, Zenon DEF Says
      <4> QED
        BY <4>1, <4>2, Zenon
    <3>2. \A n \in ToSet(members) : x.choices[n] = w.choices[n] /\ announced'[n] = announced[n]
      BY <1>1, <1>3, <3>1 DEF SetupMembers, Says
    <3>3. \A n \in ToSet(members) : \/ x.choices[n] = announced'[n]
                                    \/ x.choices[n] = w.choices[n] /\ announced'[n] = announced[n]
      BY <3>2
    <3>4. tapOn'[Host] = tapOn[Host]
      BY <1>3
    <3>5. KeepsUp(q, w, x)
      BY <1>5, <2>2, <3>1, <3>3, <3>4, Zenon DEF KeepsUp, Says
    <3>6. Shown(q, x)'
      BY <1>1, <1>3, <2>3, <3>5, StaysShown
    <3> QED
      BY <3>1, <3>6, Zenon DEF Says
  <2>4. \A q \in ToSet(members) : View(q)' = View(q)
    BY <1>3 DEF View
  <2>5. r => inbox[p] # <<>> /\ \A v : Turns(View(p), Head(inbox[p]), v) => View(p)' = v
    OBVIOUS
  <2> QED
    BY <1>3, <1>6, <2>1, <2>3, <2>4, <2>5, Sends
<1> QED
  BY <1>3, <1>7, <1>8, <1>9, Zenon

\* LoginCheckResult: the host tells the list of accounts as it has become, if it has.
LEMMA VerdictAgrees ==
  ASSUME Shape, \A q \in ToSet(members) : Agreed(q), ~begun, NEW t, NEW ok, Verdict(t, ok)
  PROVE  Shape' /\ \A q \in ToSet(members') : Agreed(q)'
<1>1. SetupMembers /\ SetupTables /\ SetupLines /\ HostTables /\ Host \in Nicks
  BY RoomSetupAssumption DEF Shape
<1>2. UNCHANGED <<members, roster, choices, announced, accounts, tapOn, tapSeen, answering, login>>
  BY Zenon DEF Verdict, tableVars, loginVars
<1>3. DOMAIN checks' = DOMAIN checks
  BY DEF Verdict
<1>4. SetupTables' /\ HostTables'
  BY <1>1, <1>2, <1>3 DEF SetupTables, HostTables
<1>5. \/ inbox' = inbox /\ HostAccounts(checks)' = HostAccounts(checks)
      \/ Post(Host, <<>>, <<Line("accounts", Host, HostAccounts(checks'))>>, FALSE)
  <2> DEFINE confirmed == ok /\ t.account = "own"
             known == t.nick \in DOMAIN checks /\ checks[t.nick] = Checking
  <2>1. CASE known /\ confirmed
    BY <2>1, Zenon DEF Verdict, TellAccounts
  <2>2. CASE ~(known /\ confirmed)
    <3>1. inbox' = inbox
      BY <2>2, Zenon DEF Verdict
    <3>2. CASE ~known
      <4>1. checks' = checks
        BY <3>2, Zenon DEF Verdict
      <4> QED
        BY <1>2, <3>1, <4>1 DEF HostAccounts
    <3>3. CASE known /\ ~confirmed
      <4>1. checks' = [checks EXCEPT ![t.nick] = NotConfirmed]
        BY <3>3, Zenon DEF Verdict
      <4>2. {n \in DOMAIN checks' : checks'[n] = Confirmed} = {n \in DOMAIN checks : checks[n] = Confirmed}
        BY <3>3, <4>1 DEF Confirmed, NotConfirmed, Checking
      <4> QED
        BY <1>2, <3>1, <4>2 DEF HostAccounts
    <3> QED
      BY <2>2, <3>2, <3>3
  <2> QED
    BY <2>1, <2>2
<1>6. CASE inbox' = inbox /\ HostAccounts(checks)' = HostAccounts(checks)
  BY <1>2, <1>4, <1>6, KeepsAgreed
<1>7. CASE Post(Host, <<>>, <<Line("accounts", Host, HostAccounts(checks'))>>, FALSE)
  <2>1. PICK a : a = HostAccounts(checks') /\ a = HostAccounts(checks)'
    BY <1>2 DEF HostAccounts
  <2> PICK r \in BOOLEAN : r = FALSE
    OBVIOUS
  <2> PICK H, G : H = <<>> /\ G = <<Line("accounts", Host, a)>>
    OBVIOUS
  <2>2. Of(H, HostKinds) /\ Of(G, GuestKinds) /\ Post(Host, H, G, r)
    <3>1. Line("accounts", Host, a).kind \in GuestKinds
      BY DEF Line, GuestKinds
    <3>2. Of(H, HostKinds) /\ Of(G, GuestKinds)
      BY <3>1, OfOne, OfNone
    <3> QED
      BY <1>7, <2>1, <3>2, Zenon
  <2>3. \A m \in ToSet(members) : \A who : Tells(inbox[m], who) => Tells(inbox'[m], who)
    <3>1. r => inbox[Host] # <<>>
      OBVIOUS
    <3>2. \A m \in ToSet(members) : \A who : Tells(inbox[m], who) =>
                \/ Tells(inbox'[m], who)
                \/ r /\ m = Host /\ Head(inbox[Host]).kind = "join" /\ Head(inbox[Host]).from = who
      BY <1>1, <1>2, <2>2, <3>1, StaysUnread
    <3> QED
      BY <3>2, Zenon
  <2>4. ASSUME NEW q \in ToSet(members), NEW w, Shown(q, w)
        PROVE  \E x : Leads(w, IF q = Host THEN H ELSE G, x) /\ Shown(q, x)'
    <3>1. PICK x, b : /\ Says(w, IF q = Host THEN H ELSE G, x, b, w.tap)
                      /\ q = Host \/ b = a
      <4>1. \E x : Says(w, G, x, a, w.tap)
        BY AccountsLeads, Zenon
      <4>2. Says(w, H, w, w.accounts, w.tap)
        BY LeadsNone, Zenon DEF Says
      <4> QED
        BY <4>1, <4>2, Zenon
    <3>2. \A n \in ToSet(members) : x.choices[n] = w.choices[n] /\ announced'[n] = announced[n]
      BY <1>1, <1>2, <3>1 DEF SetupMembers, Says
    <3>3. \A n \in ToSet(members) : \/ x.choices[n] = announced'[n]
                                    \/ x.choices[n] = w.choices[n] /\ announced'[n] = announced[n]
      BY <3>2
    <3>4. tapOn'[Host] = tapOn[Host]
      BY <1>2
    <3>5. KeepsUp(q, w, x)
      BY <2>1, <2>3, <3>1, <3>3, <3>4, Zenon DEF KeepsUp, Says
    <3>6. Shown(q, x)'
      BY <1>1, <1>2, <2>4, <3>5, StaysShown
    <3> QED
      BY <3>1, <3>6, Zenon DEF Says
  <2>5. \A q \in ToSet(members) : View(q)' = View(q)
    BY <1>2 DEF View
  <2>6. r => inbox[Host] # <<>> /\ \A v : Turns(View(Host), Head(inbox[Host]), v) => View(Host)' = v
    OBVIOUS
  <2> QED
    BY <1>1, <1>2, <1>4, <2>2, <2>4, <2>5, <2>6, Sends
<1> QED
  BY <1>5, <1>6, <1>7

\* CHK_MULTITAP.
LEMMA ToggleAgrees ==
  ASSUME Shape, \A q \in ToSet(members) : Agreed(q), ~begun, ToggleTap
  PROVE  Shape' /\ \A q \in ToSet(members') : Agreed(q)'
<1>1. SetupMembers /\ SetupTables /\ SetupLines /\ HostTables /\ Host \in Nicks
  BY RoomSetupAssumption DEF Shape
<1>2. UNCHANGED <<members, roster, choices, announced, accounts, tapSeen, answering, login, checks>>
  BY Zenon DEF ToggleTap, loginVars, hostVars
<1>3. PICK t : t = ~tapOn[Host]
  OBVIOUS
<1>4. /\ tapOn' = [tapOn EXCEPT ![Host] = t] /\ tapSeen >= 3
      /\ Post(Host, <<>>, <<Line("tap", Host, t)>>, FALSE)
  BY <1>3, Zenon DEF ToggleTap
<1>5. SetupTables' /\ HostTables' /\ tapOn'[Host] = t
  BY <1>1, <1>2, <1>3, <1>4 DEF SetupTables, HostTables
<1> PICK r \in BOOLEAN : r = FALSE
  OBVIOUS
<1> PICK H, G : H = <<>> /\ G = <<Line("tap", Host, t)>>
  OBVIOUS
<1>6. Of(H, HostKinds) /\ Of(G, GuestKinds) /\ Post(Host, H, G, r)
  <2>1. Line("tap", Host, t).kind \in GuestKinds
    BY DEF Line, GuestKinds
  <2>2. Of(H, HostKinds) /\ Of(G, GuestKinds)
    BY <2>1, OfOne, OfNone
  <2> QED
    BY <1>4, <2>2, Zenon
<1>7. \A m \in ToSet(members) : \A who : Tells(inbox[m], who) => Tells(inbox'[m], who)
  <2>1. r => inbox[Host] # <<>>
    OBVIOUS
  <2>2. \A m \in ToSet(members) : \A who : Tells(inbox[m], who) =>
              \/ Tells(inbox'[m], who)
              \/ r /\ m = Host /\ Head(inbox[Host]).kind = "join" /\ Head(inbox[Host]).from = who
    BY <1>1, <1>2, <1>6, <2>1, StaysUnread
  <2> QED
    BY <2>2, Zenon
<1>8. ASSUME NEW q \in ToSet(members), NEW w, Shown(q, w)
      PROVE  \E x : Leads(w, IF q = Host THEN H ELSE G, x) /\ Shown(q, x)'
  <2>1. PICK x, b : /\ Says(w, IF q = Host THEN H ELSE G, x, w.accounts, b)
                    /\ q = Host \/ b = t
    <3>1. \E x : Says(w, G, x, w.accounts, t)
      BY TapLeads, Zenon
    <3>2. Says(w, H, w, w.accounts, w.tap)
      BY LeadsNone, Zenon DEF Says
    <3> QED
      BY <3>1, <3>2, Zenon
  <2>2. \A n \in ToSet(members) : x.choices[n] = w.choices[n] /\ announced'[n] = announced[n]
    BY <1>1, <1>2, <2>1 DEF SetupMembers, Says
  <2>3. \A n \in ToSet(members) : \/ x.choices[n] = announced'[n]
                                  \/ x.choices[n] = w.choices[n] /\ announced'[n] = announced[n]
    BY <2>2
  <2>4. HostAccounts(checks)' = HostAccounts(checks)
    BY <1>2 DEF HostAccounts
  <2>5. q = Host \/ x.tap = tapOn'[Host]
    BY <1>5, <2>1, Zenon DEF Says
  <2>6. KeepsUp(q, w, x)
    BY <1>7, <2>1, <2>3, <2>4, <2>5, Zenon DEF KeepsUp, Says
  <2>7. Shown(q, x)'
    BY <1>1, <1>2, <1>8, <2>6, StaysShown
  <2> QED
    BY <2>1, <2>7, Zenon DEF Says
<1>9. \A q \in ToSet(members) : View(q)' = View(q)
  <2>1. \A q \in ToSet(members) : q # Host => tapOn'[q] = tapOn[q]
    BY <1>1, <1>4 DEF SetupTables, SetupMembers
  <2> QED
    BY <1>2, <2>1 DEF View
<1>10. r => inbox[Host] # <<>> /\ \A v : Turns(View(Host), Head(inbox[Host]), v) => View(Host)' = v
  OBVIOUS
<1> QED
  BY <1>1, <1>2, <1>5, <1>6, <1>8, <1>9, <1>10, Sends

\* Reading the room.

LEMMA HeadKind ==
  ASSUME SetupLines, NEW p \in Nicks, inbox[p] # <<>>
  PROVE  Head(inbox[p]).kind \in Kinds(p)
<1>1. Of(inbox[p], Kinds(p))
  BY DEF SetupLines
<1> QED
  BY <1>1, OfTail

LEMMA ViewTurns ==
  ASSUME NEW p, NEW l, NEW v, Turns(View(p), l, v), roster'[p] = v.roster, choices'[p] = v.choices,
         (IF p = Host THEN {} ELSE accounts'[p]) = v.accounts, (IF p = Host THEN FALSE ELSE tapOn'[p]) = v.tap
  PROVE  View(p)' = v
<1>1. v = [roster |-> v.roster, choices |-> v.choices, accounts |-> v.accounts, tap |-> v.tap]
  BY Zenon DEF Turns
<1>2. View(p)' = [roster |-> v.roster, choices |-> v.choices, accounts |-> v.accounts, tap |-> v.tap]
  BY Zenon DEF View
<1> QED
  BY <1>1, <1>2, Zenon

\* A line that nobody answers, and that is not of a player who comes.
LEMMA ReadsOnly ==
  ASSUME Shape, \A q \in ToSet(members) : Agreed(q), ~begun, NEW p \in Nicks, inbox[p] # <<>>,
         PostAll(p, <<>>, TRUE), Head(inbox[p]).kind # "join", members' = members, SetupTables', HostTables',
         HostAccounts(checks)' = HostAccounts(checks), tapOn'[Host] = tapOn[Host],
         \A n \in ToSet(members) : announced'[n] = announced[n] \/ (n = p /\ Tells(inbox[p], p)),
         \A q \in ToSet(members) : q # p => View(q)' = View(q),
         \A v : Turns(View(p), Head(inbox[p]), v) => View(p)' = v
  PROVE  Shape' /\ \A q \in ToSet(members') : Agreed(q)'
<1>1. SetupMembers /\ SetupTables /\ SetupLines /\ HostTables
  BY DEF Shape
<1> PICK r \in BOOLEAN : r = TRUE
  OBVIOUS
<1> PICK H, G : H = <<>> /\ G = <<>>
  OBVIOUS
<1>2. Of(H, HostKinds) /\ Of(G, GuestKinds) /\ Post(p, H, G, r)
  BY OfNone, Zenon DEF PostAll
<1>3. r => inbox[p] # <<>>
  OBVIOUS
<1>4. \A m \in ToSet(members) : \A who : Tells(inbox[m], who) => Tells(inbox'[m], who)
  <2>1. \A m \in ToSet(members) : \A who : Tells(inbox[m], who) =>
              \/ Tells(inbox'[m], who)
              \/ r /\ m = p /\ Head(inbox[p]).kind = "join" /\ Head(inbox[p]).from = who
    BY <1>1, <1>2, <1>3, StaysUnread
  <2> QED
    BY <2>1, Zenon
<1>5. ASSUME NEW q \in ToSet(members), NEW w, Shown(q, w)
      PROVE  \E x : Leads(w, IF q = Host THEN H ELSE G, x) /\ Shown(q, x)'
  <2>1. Leads(w, IF q = Host THEN H ELSE G, w)
    BY LeadsNone, Zenon
  <2>2. \A n \in ToSet(members) : announced'[n] = announced[n] \/ Tells(inbox'[n], n)
    BY <1>4, Zenon
  <2>3. KeepsUp(q, w, w)
    BY <1>4, <2>2, Zenon DEF KeepsUp
  <2>4. Shown(q, w)'
    BY <1>1, <1>5, <2>3, StaysShown
  <2> QED
    BY <2>1, <2>4, Zenon
<1>6. r => \A v : Turns(View(p), Head(inbox[p]), v) => View(p)' = v
  BY Zenon
<1>7. \A q \in ToSet(members) : ~(r /\ q = p) => View(q)' = View(q)
  BY Zenon
<1>8. Shape' /\ \A q \in ToSet(members) : Agreed(q)'
  BY <1>1, <1>2, <1>3, <1>5, <1>6, <1>7, Sends
<1> QED
  BY <1>8, Zenon

LEMMA ReadTapAgrees ==
  ASSUME Shape, \A q \in ToSet(members) : Agreed(q), ~begun, NEW p \in Nicks, ReadTap(p)
  PROVE  Shape' /\ \A q \in ToSet(members') : Agreed(q)'
<1>1. SetupMembers /\ SetupTables /\ SetupLines /\ HostTables
  BY DEF Shape
<1>2. inbox[p] # <<>> /\ Head(inbox[p]).kind = "tap"
  BY DEF ReadTap, Reads
<1>3. p # Host
  <2>1. Head(inbox[p]).kind \in Kinds(p)
    BY <1>1, <1>2, HeadKind
  <2> QED
    BY <1>2, <2>1 DEF Kinds, HostKinds
<1>4. /\ PostAll(p, <<>>, TRUE) /\ tapOn' = [tapOn EXCEPT ![p] = Head(inbox[p]).arg]
      /\ UNCHANGED <<members, roster, choices, announced, accounts, tapSeen, answering, login, checks>>
  BY Zenon DEF ReadTap, loginVars, hostVars
<1>5. SetupTables' /\ HostTables' /\ tapOn'[Host] = tapOn[Host]
  BY <1>1, <1>3, <1>4 DEF SetupTables, HostTables
<1>6. HostAccounts(checks)' = HostAccounts(checks)
  BY <1>4 DEF HostAccounts
<1>7. \A q \in ToSet(members) : q # p => View(q)' = View(q)
  <2>1. \A q \in ToSet(members) : q # p => tapOn'[q] = tapOn[q]
    BY <1>1, <1>4 DEF SetupTables, SetupMembers
  <2> QED
    BY <1>4, <2>1 DEF View
<1>8. ASSUME NEW v, Turns(View(p), Head(inbox[p]), v) PROVE View(p)' = v
  <2>1. v.roster = View(p).roster /\ v.accounts = View(p).accounts /\ v.tap = Head(inbox[p]).arg
    BY <1>2, <1>8 DEF Turns
  <2>2. v.choices = [n \in Nicks |-> View(p).choices[n]]
    BY <1>2, <1>8 DEF Turns
  <2>3. View(p).roster = roster[p] /\ View(p).choices = choices[p] /\ View(p).accounts = accounts[p]
    BY <1>3 DEF View
  <2>4. roster'[p] = v.roster /\ choices'[p] = v.choices
    BY <1>1, <1>4, <2>1, <2>2, <2>3 DEF SetupTables
  <2>5. (IF p = Host THEN {} ELSE accounts'[p]) = v.accounts
    BY <1>3, <1>4, <2>1, <2>3
  <2>6. (IF p = Host THEN FALSE ELSE tapOn'[p]) = v.tap
    BY <1>1, <1>3, <1>4, <2>1 DEF SetupTables
  <2> QED
    BY <1>8, <2>4, <2>5, <2>6, ViewTurns
<1>9. Head(inbox[p]).kind # "join" /\ members' = members
  BY <1>2, <1>4
<1>10. \A n \in ToSet(members) : announced'[n] = announced[n] \/ (n = p /\ Tells(inbox[p], p))
  BY <1>4
<1> QED
  BY <1>2, <1>4, <1>5, <1>6, <1>7, <1>8, <1>9, <1>10, ReadsOnly

LEMMA ReadAccountsAgrees ==
  ASSUME Shape, \A q \in ToSet(members) : Agreed(q), ~begun, NEW p \in Nicks, ReadAccounts(p)
  PROVE  Shape' /\ \A q \in ToSet(members') : Agreed(q)'
<1>1. SetupMembers /\ SetupTables /\ SetupLines /\ HostTables
  BY DEF Shape
<1>2. inbox[p] # <<>> /\ Head(inbox[p]).kind = "accounts"
  BY DEF ReadAccounts, Reads
<1>3. p # Host
  <2>1. Head(inbox[p]).kind \in Kinds(p)
    BY <1>1, <1>2, HeadKind
  <2> QED
    BY <1>2, <2>1 DEF Kinds, HostKinds
<1>4. /\ PostAll(p, <<>>, TRUE) /\ accounts' = [accounts EXCEPT ![p] = Head(inbox[p]).arg]
      /\ UNCHANGED <<members, roster, choices, announced, tapOn, tapSeen, answering, login, checks>>
  BY Zenon DEF ReadAccounts, loginVars, hostVars
<1>5. SetupTables' /\ HostTables' /\ tapOn'[Host] = tapOn[Host]
  BY <1>1, <1>4 DEF SetupTables, HostTables
<1>6. HostAccounts(checks)' = HostAccounts(checks)
  BY <1>4 DEF HostAccounts
<1>7. \A q \in ToSet(members) : q # p => View(q)' = View(q)
  <2>1. \A q \in ToSet(members) : q # p => accounts'[q] = accounts[q]
    BY <1>1, <1>4 DEF SetupTables, SetupMembers
  <2> QED
    BY <1>4, <2>1 DEF View
<1>8. ASSUME NEW v, Turns(View(p), Head(inbox[p]), v) PROVE View(p)' = v
  <2>1. v.roster = View(p).roster /\ v.accounts = Head(inbox[p]).arg /\ v.tap = View(p).tap
    BY <1>2, <1>8 DEF Turns
  <2>2. v.choices = [n \in Nicks |-> View(p).choices[n]]
    BY <1>2, <1>8 DEF Turns
  <2>3. View(p).roster = roster[p] /\ View(p).choices = choices[p] /\ View(p).tap = tapOn[p]
    BY <1>3 DEF View
  <2>4. roster'[p] = v.roster /\ choices'[p] = v.choices
    BY <1>1, <1>4, <2>1, <2>2, <2>3 DEF SetupTables
  <2>5. (IF p = Host THEN {} ELSE accounts'[p]) = v.accounts
    BY <1>1, <1>3, <1>4, <2>1 DEF SetupTables
  <2>6. (IF p = Host THEN FALSE ELSE tapOn'[p]) = v.tap
    BY <1>3, <1>4, <2>1, <2>3
  <2> QED
    BY <1>8, <2>4, <2>5, <2>6, ViewTurns
<1>9. Head(inbox[p]).kind # "join" /\ members' = members
  BY <1>2, <1>4
<1>10. \A n \in ToSet(members) : announced'[n] = announced[n] \/ (n = p /\ Tells(inbox[p], p))
  BY <1>4
<1> QED
  BY <1>2, <1>4, <1>5, <1>6, <1>7, <1>8, <1>9, <1>10, ReadsOnly

LEMMA ReadChoiceAgrees ==
  ASSUME Shape, \A q \in ToSet(members) : Agreed(q), ~begun, NEW p \in Nicks, ReadChoice(p)
  PROVE  Shape' /\ \A q \in ToSet(members') : Agreed(q)'
<1>1. SetupMembers /\ SetupTables /\ SetupLines /\ HostTables
  BY DEF Shape
<1>2. inbox[p] # <<>> /\ Head(inbox[p]).kind = "choice"
  BY DEF ReadChoice, Reads
<1> PICK n, c : n = Head(inbox[p]).from /\ c = Head(inbox[p]).arg
  OBVIOUS
<1>3. /\ PostAll(p, <<>>, TRUE) /\ choices' = [choices EXCEPT ![p][n] = c]
      /\ UNCHANGED <<members, roster, announced, accounts, tapOn, tapSeen, answering, login, checks>>
  BY Zenon DEF ReadChoice, loginVars, hostVars
<1>4. choices'[p] = [m \in Nicks |-> IF m = n THEN c ELSE choices[p][m]]
  <2>1. choices'[p] = [choices[p] EXCEPT ![n] = c]
    BY <1>1, <1>3 DEF SetupTables
  <2>2. choices[p] = [m \in Nicks |-> choices[p][m]]
    BY <1>1 DEF SetupTables
  <2> QED
    BY <2>1, <2>2
<1>5. SetupTables' /\ HostTables' /\ tapOn'[Host] = tapOn[Host]
  <2>1. \A q \in Nicks : choices'[q] = [m \in Nicks |-> choices'[q][m]]
    <3>1. ASSUME NEW q \in Nicks, q # p PROVE choices'[q] = choices[q]
      BY <1>1, <1>3, <3>1 DEF SetupTables
    <3> QED
      BY <1>1, <1>4, <3>1 DEF SetupTables
  <2>2. DOMAIN choices' = Nicks
    BY <1>1, <1>3 DEF SetupTables
  <2>3. SetupTables'
    BY <1>1, <1>3, <2>1, <2>2 DEF SetupTables
  <2> QED
    BY <1>1, <1>3, <2>3 DEF HostTables
<1>6. HostAccounts(checks)' = HostAccounts(checks)
  BY <1>3 DEF HostAccounts
<1>7. \A q \in ToSet(members) : q # p => View(q)' = View(q)
  <2>1. \A q \in ToSet(members) : q # p => choices'[q] = choices[q]
    BY <1>1, <1>3 DEF SetupTables, SetupMembers
  <2> QED
    BY <1>3, <2>1 DEF View
<1>8. ASSUME NEW v, Turns(View(p), Head(inbox[p]), v) PROVE View(p)' = v
  <2>1. v.roster = View(p).roster /\ v.accounts = View(p).accounts /\ v.tap = View(p).tap
    BY <1>2, <1>8 DEF Turns
  <2>2. v.choices = [m \in Nicks |-> IF m = n THEN c ELSE View(p).choices[m]]
    BY <1>2, <1>8 DEF Turns
  <2>3. View(p).roster = roster[p] /\ View(p).choices = choices[p]
    BY DEF View
  <2>4. roster'[p] = v.roster /\ choices'[p] = v.choices
    BY <1>4, <1>3, <2>1, <2>2, <2>3
  <2>5. (IF p = Host THEN {} ELSE accounts'[p]) = v.accounts
    BY <1>3, <2>1 DEF View
  <2>6. (IF p = Host THEN FALSE ELSE tapOn'[p]) = v.tap
    BY <1>3, <2>1 DEF View
  <2> QED
    BY <1>8, <2>4, <2>5, <2>6, ViewTurns
<1>9. Head(inbox[p]).kind # "join" /\ members' = members
  BY <1>2, <1>3
<1>10. \A m \in ToSet(members) : announced'[m] = announced[m] \/ (m = p /\ Tells(inbox[p], p))
  BY <1>3
<1> QED
  BY <1>2, <1>3, <1>5, <1>6, <1>7, <1>8, <1>9, <1>10, ReadsOnly

\* A line that leaves what its reader shows alone.
LEMMA ShowsNothing ==
  ASSUME Shape, NEW p \in Nicks, Head(inbox[p]).kind \in {"ask", "answer"},
         UNCHANGED <<roster, choices, accounts, tapOn>>,
         NEW v, Turns(View(p), Head(inbox[p]), v)
  PROVE  View(p)' = v
<1>1. v.roster = View(p).roster /\ v.accounts = View(p).accounts /\ v.tap = View(p).tap
  BY DEF Turns
<1>2. v.choices = [m \in Nicks |-> View(p).choices[m]]
  BY DEF Turns
<1>3. View(p).roster = roster[p] /\ View(p).choices = choices[p]
  BY DEF View
<1>4. roster'[p] = v.roster /\ choices'[p] = v.choices
  BY <1>1, <1>2, <1>3 DEF Shape, SetupTables
<1>5. (IF p = Host THEN {} ELSE accounts'[p]) = v.accounts
  BY <1>1 DEF View
<1>6. (IF p = Host THEN FALSE ELSE tapOn'[p]) = v.tap
  BY <1>1 DEF View
<1> QED
  BY <1>4, <1>5, <1>6, ViewTurns

LEMMA ReadAskAgrees ==
  ASSUME Shape, \A q \in ToSet(members) : Agreed(q), ~begun, NEW p \in Nicks, ReadAsk(p)
  PROVE  Shape' /\ \A q \in ToSet(members') : Agreed(q)'
<1>1. SetupMembers /\ SetupTables /\ SetupLines /\ HostTables
  BY DEF Shape
<1>2. inbox[p] # <<>> /\ Head(inbox[p]).kind = "ask"
  BY DEF ReadAsk, Reads
<1>3. p # Host
  <2>1. Head(inbox[p]).kind \in Kinds(p)
    BY <1>1, <1>2, HeadKind
  <2> QED
    BY <1>2, <2>1 DEF Kinds, HostKinds
<1>4. /\ PostAll(p, <<>>, TRUE)
      /\ UNCHANGED <<members, roster, choices, announced, accounts, tapOn, tapSeen, login, checks>>
  BY Zenon DEF ReadAsk, hostVars
<1>5. SetupTables' /\ HostTables' /\ tapOn'[Host] = tapOn[Host]
  <2>1. DOMAIN answering' = DOMAIN answering
    BY DEF ReadAsk
  <2>2. answering'[Host] = answering[Host]
    BY <1>1, <1>3, RoomSetupAssumption DEF ReadAsk, SetupTables
  <2> QED
    BY <1>1, <1>4, <2>1, <2>2 DEF SetupTables, HostTables
<1>6. HostAccounts(checks)' = HostAccounts(checks)
  BY <1>4 DEF HostAccounts
<1>7. \A q \in ToSet(members) : q # p => View(q)' = View(q)
  BY <1>4 DEF View
<1>8. ASSUME NEW v, Turns(View(p), Head(inbox[p]), v) PROVE View(p)' = v
  BY <1>2, <1>4, <1>8, ShowsNothing
<1>9. Head(inbox[p]).kind # "join" /\ members' = members
  BY <1>2, <1>4
<1>10. \A n \in ToSet(members) : announced'[n] = announced[n] \/ (n = p /\ Tells(inbox[p], p))
  BY <1>4
<1> QED
  BY <1>2, <1>4, <1>5, <1>6, <1>7, <1>8, <1>9, <1>10, ReadsOnly

LEMMA ReadAnswerAgrees ==
  ASSUME Shape, \A q \in ToSet(members) : Agreed(q), ~begun, NEW p \in Nicks, ReadAnswer(p)
  PROVE  Shape' /\ \A q \in ToSet(members') : Agreed(q)'
<1>1. SetupMembers /\ SetupTables /\ SetupLines /\ HostTables
  BY DEF Shape
<1>2. inbox[p] # <<>> /\ Head(inbox[p]).kind = "answer"
  BY DEF ReadAnswer, Reads
<1>3. /\ PostAll(p, <<>>, TRUE)
      /\ UNCHANGED <<members, roster, choices, announced, accounts, tapOn, tapSeen, answering, login>>
  BY Zenon DEF ReadAnswer, tableVars, loginVars
<1>4. /\ DOMAIN checks' = DOMAIN checks
      /\ {n \in DOMAIN checks' : checks'[n] = Confirmed} = {n \in DOMAIN checks : checks[n] = Confirmed}
  <2> PICK n : n = Head(inbox[p]).from
    OBVIOUS
  <2>1. \/ checks' = checks
        \/ /\ n \in DOMAIN checks /\ checks[n] \in {Waiting, NotConfirmed}
           /\ checks' = [checks EXCEPT ![n] = Checking]
    BY DEF ReadAnswer
  <2> QED
    BY <2>1 DEF Waiting, NotConfirmed, Checking, Confirmed
<1>5. HostAccounts(checks)' = HostAccounts(checks)
  BY <1>3, <1>4 DEF HostAccounts
<1>6. SetupTables' /\ HostTables' /\ tapOn'[Host] = tapOn[Host]
  BY <1>1, <1>3, <1>4 DEF SetupTables, HostTables
<1>7. \A q \in ToSet(members) : q # p => View(q)' = View(q)
  BY <1>3 DEF View
<1>8. ASSUME NEW v, Turns(View(p), Head(inbox[p]), v) PROVE View(p)' = v
  BY <1>2, <1>3, <1>8, ShowsNothing
<1>9. Head(inbox[p]).kind # "join" /\ members' = members
  BY <1>2, <1>3
<1>10. \A n \in ToSet(members) : announced'[n] = announced[n] \/ (n = p /\ Tells(inbox[p], p))
  BY <1>3
<1> QED
  BY <1>2, <1>6, <1>3, <1>5, <1>7, <1>8, <1>9, <1>10, ReadsOnly

LEMMA ReadListAgrees ==
  ASSUME Shape, \A q \in ToSet(members) : Agreed(q), ~begun, NEW p \in Nicks, ReadList(p)
  PROVE  Shape' /\ \A q \in ToSet(members') : Agreed(q)'
<1>1. SetupMembers /\ SetupTables /\ SetupLines /\ HostTables
  BY DEF Shape
<1>2. inbox[p] # <<>> /\ Head(inbox[p]).kind = "list"
  BY DEF ReadList, Reads
<1>3. p # Host
  <2>1. Head(inbox[p]).kind \in Kinds(p)
    BY <1>1, <1>2, HeadKind
  <2> QED
    BY <1>2, <2>1 DEF Kinds, HostKinds
<1>4. /\ PostAll(p, <<>>, TRUE) /\ roster' = [roster EXCEPT ![p] = Head(inbox[p]).arg]
      /\ choices' = [choices EXCEPT ![p] = [n \in Nicks |-> "?"]]
      /\ announced' = [announced EXCEPT ![p] = "?"]
      /\ accounts' = [accounts EXCEPT ![p] = {}] /\ tapOn' = [tapOn EXCEPT ![p] = FALSE]
      /\ UNCHANGED <<members, tapSeen, answering, login, checks>>
  BY Zenon DEF ReadList, loginVars, hostVars
<1>5. SetupTables' /\ HostTables' /\ tapOn'[Host] = tapOn[Host]
  <2>1. ASSUME NEW q \in Nicks PROVE choices'[q] = [m \in Nicks |-> choices'[q][m]]
    BY <1>1, <1>4 DEF SetupTables
  <2>2. SetupTables'
    BY <1>1, <1>4, <2>1 DEF SetupTables
  <2>3. roster'[Host] = roster[Host] /\ tapOn'[Host] = tapOn[Host]
    BY <1>1, <1>3, <1>4, RoomSetupAssumption DEF SetupTables
  <2> QED
    BY <1>1, <1>4, <2>2, <2>3 DEF HostTables
<1>6. HostAccounts(checks)' = HostAccounts(checks)
  BY <1>4 DEF HostAccounts
<1>7. \A q \in ToSet(members) : q # p => View(q)' = View(q)
  <2>1. \A q \in ToSet(members) : q # p =>
           /\ roster'[q] = roster[q] /\ choices'[q] = choices[q] /\ accounts'[q] = accounts[q]
           /\ tapOn'[q] = tapOn[q]
    BY <1>1, <1>4 DEF SetupTables, SetupMembers
  <2> QED
    BY <2>1, Zenon DEF View
<1>8. ASSUME NEW v, Turns(View(p), Head(inbox[p]), v) PROVE View(p)' = v
  <2>1. v.roster = Head(inbox[p]).arg /\ v.accounts = {} /\ v.tap = FALSE
    BY <1>2, <1>8 DEF Turns
  <2>2. v.choices = [n \in Nicks |-> "?"]
    BY <1>2, <1>8 DEF Turns
  <2>3. roster'[p] = v.roster /\ choices'[p] = v.choices
    BY <1>1, <1>4, <2>1, <2>2 DEF SetupTables
  <2>4. (IF p = Host THEN {} ELSE accounts'[p]) = v.accounts
    BY <1>1, <1>4, <2>1 DEF SetupTables
  <2>5. (IF p = Host THEN FALSE ELSE tapOn'[p]) = v.tap
    BY <1>1, <1>4, <2>1 DEF SetupTables
  <2> QED
    BY <1>8, <2>3, <2>4, <2>5, ViewTurns
<1>9. Head(inbox[p]).kind # "join" /\ members' = members
  BY <1>2, <1>4
<1>10. \A n \in ToSet(members) : announced'[n] = announced[n] \/ (n = p /\ Tells(inbox[p], p))
  <2>1. IsSeq(inbox[p]) /\ Newcomer(inbox[p], p)
    BY <1>1 DEF SetupLines, Of
  <2>2. Tells(inbox[p], p)
    BY <1>2, <2>1, NewcomerTail
  <2>3. \A n \in ToSet(members) : n # p => announced'[n] = announced[n]
    BY <1>1, <1>4 DEF SetupTables, SetupMembers
  <2> QED
    BY <2>2, <2>3, Zenon
<1> QED
  BY <1>2, <1>4, <1>5, <1>6, <1>7, <1>8, <1>9, <1>10, ReadsOnly

LEMMA SaysThen ==
  ASSUME NEW s, IsSeq(s), NEW t, IsSeq(t), NEW u, NEW v, NEW w, NEW a, NEW b, NEW c, NEW d,
         Says(u, s, v, a, b), Says(v, t, w, c, d)
  PROVE  Says(u, s \o t, w, c, d)
<1>1. Leads(u, s, v) /\ Leads(v, t, w)
  BY Zenon DEF Says
<1>2. Leads(u, s \o t, w)
  BY <1>1, LeadsConcat
<1>3. \A m \in Nicks : w.choices[m] = u.choices[m]
  BY Zenon DEF Says
<1>4. w.roster = u.roster /\ w.accounts = c /\ w.tap = d
  BY Zenon DEF Says
<1> QED
  BY <1>2, <1>3, <1>4, Zenon DEF Says

LEMMA SaysNothing == \A w : Says(w, <<>>, w, w.accounts, w.tap)
  BY LeadsNone, Zenon DEF Says

\* What the host says of its box, and of the accounts.
TapTold(p, n, w, t) ==
  /\ p # Host => t = w.tap
  /\ p = Host => t = TapAfter(p, n) \/ (t = w.tap /\ TapAfter(p, n) = tapOn[p])

LEMMA TapSaid ==
  ASSUME NEW p, NEW n, NEW w
  PROVE  /\ Of(TapLines(p, n), GuestKinds)
         /\ \E x, t : Says(w, TapLines(p, n), x, w.accounts, t) /\ TapTold(p, n, w, t)
<1>1. CASE p = Host /\ TapAfter(p, n) # tapOn[p]
  <2>1. TapLines(p, n) = <<Line("tap", p, TapAfter(p, n))>>
    BY <1>1, Zenon DEF TapLines
  <2>2. Line("tap", p, TapAfter(p, n)).kind \in GuestKinds
    BY DEF Line, GuestKinds
  <2>3. Of(TapLines(p, n), GuestKinds)
    BY <2>1, <2>2, OfOne
  <2>4. \E x : Says(w, <<Line("tap", p, TapAfter(p, n))>>, x, w.accounts, TapAfter(p, n))
    BY TapLeads, Zenon
  <2> QED
    BY <1>1, <2>1, <2>3, <2>4, Zenon DEF TapTold
<1>2. CASE ~(p = Host /\ TapAfter(p, n) # tapOn[p])
  <2>1. TapLines(p, n) = <<>>
    BY <1>2, Zenon DEF TapLines
  <2>2. Of(TapLines(p, n), GuestKinds)
    BY <2>1, OfNone, Zenon
  <2>3. Says(w, TapLines(p, n), w, w.accounts, w.tap)
    BY <2>1, SaysNothing, Zenon
  <2> QED
    BY <1>2, <2>2, <2>3, Zenon DEF TapTold
<1> QED
  BY <1>1, <1>2

LEMMA AccountsSaid ==
  ASSUME NEW p, NEW s, NEW w
  PROVE  /\ Of(IF p = Host THEN TellAccounts(s) ELSE <<>>, GuestKinds)
         /\ \E x, a : /\ Says(w, IF p = Host THEN TellAccounts(s) ELSE <<>>, x, a, w.tap)
                      /\ a = IF p = Host THEN HostAccounts(s) ELSE w.accounts
<1> PICK a : a = HostAccounts(s)
  OBVIOUS
<1>1. TellAccounts(s) = <<Line("accounts", Host, a)>>
  BY Zenon DEF TellAccounts
<1>2. Line("accounts", Host, a).kind \in GuestKinds
  BY DEF Line, GuestKinds
<1>3. Of(TellAccounts(s), GuestKinds)
  BY <1>1, <1>2, OfOne
<1>4. \E x : Says(w, <<Line("accounts", Host, a)>>, x, a, w.tap)
  BY AccountsLeads, Zenon
<1>5. CASE p = Host
  BY <1>1, <1>3, <1>4, <1>5, Zenon
<1>6. CASE p # Host
  <2>1. Says(w, <<>>, w, w.accounts, w.tap)
    BY SaysNothing, Zenon
  <2>2. Of(<<>>, GuestKinds)
    BY OfNone, Zenon
  <2> QED
    BY <1>6, <2>1, <2>2, Zenon
<1> QED
  BY <1>5, <1>6

\* kaillera_player_left_callback: the host's box may go off, and it tells the accounts there still are.
LEMMA ReadLeaveAgrees ==
  ASSUME Shape, \A q \in ToSet(members) : Agreed(q), ~begun, NEW p \in Nicks, ReadLeave(p)
  PROVE  Shape' /\ \A q \in ToSet(members') : Agreed(q)'
<1>1. SetupMembers /\ SetupTables /\ SetupLines /\ HostTables /\ Host \in Nicks
  BY RoomSetupAssumption DEF Shape
<1>2. inbox[p] # <<>> /\ Head(inbox[p]).kind = "leave"
  BY DEF ReadLeave, Reads
<1> PICK who, rest, n : who = Head(inbox[p]).from /\ rest = Without(roster[p], who) /\ n = Len(rest)
  OBVIOUS
<1> PICK states : states = IF p = Host THEN Restrict(checks, DOMAIN checks \ {who}) ELSE checks
  OBVIOUS
<1> PICK H, G, A, B : /\ H = <<>> /\ A = TapLines(p, n)
                      /\ B = IF p = Host THEN TellAccounts(states) ELSE <<>>
                      /\ G = A \o B
  OBVIOUS
<1> PICK r \in BOOLEAN : r = TRUE
  OBVIOUS
<1>3. /\ roster' = [roster EXCEPT ![p] = rest] /\ choices' = [choices EXCEPT ![p][who] = "?"]
      /\ checks' = states /\ tapOn' = [tapOn EXCEPT ![p] = TapAfter(p, n)]
      /\ tapSeen' = (IF p = Host THEN n ELSE tapSeen)
      /\ UNCHANGED <<members, announced, accounts, answering, login>>
  BY Zenon DEF ReadLeave, UpdateTap, loginVars
<1>4. Post(p, H, G, r)
  BY Zenon DEF ReadLeave
<1>5. Of(H, HostKinds) /\ Of(G, GuestKinds)
  <2>1. Of(A, GuestKinds)
    BY TapSaid
  <2>2. Of(B, GuestKinds)
    BY AccountsSaid
  <2> QED
    BY <2>1, <2>2, OfNone, OfConcat
<1>6. choices'[p] = [m \in Nicks |-> IF m = who THEN "?" ELSE choices[p][m]]
  <2>1. choices'[p] = [choices[p] EXCEPT ![who] = "?"]
    BY <1>1, <1>3 DEF SetupTables
  <2>2. choices[p] = [m \in Nicks |-> choices[p][m]]
    BY <1>1 DEF SetupTables
  <2> QED
    BY <2>1, <2>2
<1>7. SetupTables'
  <2>1. \A q \in Nicks : choices'[q] = [m \in Nicks |-> choices'[q][m]]
    <3>1. ASSUME NEW q \in Nicks, q # p PROVE choices'[q] = choices[q]
      BY <1>1, <1>3, <3>1 DEF SetupTables
    <3> QED
      BY <1>1, <1>6, <3>1 DEF SetupTables
  <2>2. DOMAIN choices' = Nicks
    BY <1>1, <1>3 DEF SetupTables
  <2> QED
    BY <1>1, <1>3, <2>1, <2>2 DEF SetupTables
<1>8. tapOn'[p] = TapAfter(p, n) /\ roster'[p] = rest
  BY <1>1, <1>3 DEF SetupTables
<1>9. HostTables'
  <2>1. CASE p # Host
    <3>1. roster'[Host] = roster[Host] /\ tapOn'[Host] = tapOn[Host] /\ checks' = checks /\ tapSeen' = tapSeen
      BY <1>1, <1>3, <2>1 DEF SetupTables
    <3> QED
      BY <1>1, <1>3, <3>1 DEF HostTables
  <2>2. CASE p = Host
    <3>1. /\ IsSeq(rest) /\ n \in Nat /\ n <= Len(roster[p])
          /\ ToSet(roster[p]) \ {who} \subseteq ToSet(rest)
      <4>1. IsSeq(roster[p])
        BY <1>1, <2>2 DEF HostTables
      <4> QED
        BY <4>1, WithoutMembers
    <3>2. DOMAIN checks' \subseteq ToSet(rest)
      BY <1>1, <1>3, <2>2, <3>1 DEF HostTables, Restrict
    <3>3. TapAfter(p, n) \in BOOLEAN /\ (TapAfter(p, n) => n >= 3)
      BY <1>1, <2>2, <3>1 DEF TapAfter, HostTables
    <3>4. tapOn'[Host] \in BOOLEAN /\ (tapOn'[Host] => n >= 3)
      BY <1>8, <2>2, <3>3, Zenon
    <3>5. tapSeen' = n /\ roster'[Host] = rest /\ answering'[Host] = "no"
      BY <1>1, <1>3, <1>8, <2>2 DEF HostTables
    <3> QED
      BY <3>1, <3>2, <3>4, <3>5 DEF HostTables
  <2> QED
    BY <2>1, <2>2
<1>10. \A q \in ToSet(members) : ~(r /\ q = p) => View(q)' = View(q)
  <2>1. \A q \in ToSet(members) : q # p =>
           roster'[q] = roster[q] /\ choices'[q] = choices[q] /\ tapOn'[q] = tapOn[q]
    BY <1>1, <1>3 DEF SetupTables, SetupMembers
  <2> QED
    BY <1>3, <2>1, Zenon DEF View
<1>11. ASSUME NEW v, Turns(View(p), Head(inbox[p]), v) PROVE View(p)' = v
  <2>1. /\ v.roster = Without(View(p).roster, who) /\ v.accounts = View(p).accounts
        /\ v.tap = (Len(Without(View(p).roster, who)) >= 3 /\ View(p).tap)
    BY <1>2, <1>11 DEF Turns
  <2>2. v.choices = [m \in Nicks |-> IF m = who THEN "?" ELSE View(p).choices[m]]
    BY <1>2, <1>11 DEF Turns
  <2>3. /\ View(p).roster = roster[p] /\ View(p).choices = choices[p]
        /\ View(p).accounts = (IF p = Host THEN {} ELSE accounts[p])
        /\ View(p).tap = IF p = Host THEN FALSE ELSE tapOn[p]
    BY DEF View
  <2>4. roster'[p] = v.roster /\ choices'[p] = v.choices
    BY <1>6, <1>8, <2>1, <2>2, <2>3
  <2>5. (IF p = Host THEN {} ELSE accounts'[p]) = v.accounts
    BY <1>3, <2>1, <2>3
  <2>6. (IF p = Host THEN FALSE ELSE tapOn'[p]) = v.tap
    <3>1. v.tap = (n >= 3 /\ View(p).tap)
      BY <2>1, <2>3, Zenon
    <3>2. CASE p = Host
      BY <2>3, <3>1, <3>2
    <3>3. CASE p # Host
      <4>1. TapAfter(p, n) = (n >= 3 /\ tapOn[p])
        BY <3>3, Zenon DEF TapAfter
      <4>2. View(p).tap = tapOn[p]
        BY <2>3, <3>3, Zenon
      <4> QED
        BY <1>8, <3>1, <3>3, <4>1, <4>2, Zenon
    <3> QED
      BY <3>2, <3>3
  <2> QED
    BY <1>11, <2>4, <2>5, <2>6, ViewTurns
<1>12. \A m \in ToSet(members) : \A x : Tells(inbox[m], x) => Tells(inbox'[m], x)
  <2>1. \A m \in ToSet(members) : \A x : Tells(inbox[m], x) =>
              \/ Tells(inbox'[m], x)
              \/ r /\ m = p /\ Head(inbox[p]).kind = "join" /\ Head(inbox[p]).from = x
    BY <1>1, <1>2, <1>3, <1>4, <1>5, StaysUnread
  <2> QED
    BY <1>2, <2>1
<1>13. HostAccounts(states) = HostAccounts(checks)'
  BY <1>3 DEF HostAccounts
<1>14. ASSUME NEW q \in ToSet(members), NEW w, Shown(q, w)
       PROVE  \E x : Leads(w, IF q = Host THEN H ELSE G, x) /\ Shown(q, x)'
  <2>1. \E x, a, t : /\ Says(w, IF q = Host THEN H ELSE G, x, a, t)
                     /\ q = Host \/ a = IF p = Host THEN HostAccounts(states) ELSE w.accounts
                     /\ q = Host \/ TapTold(p, n, w, t)
    <3>1. CASE q = Host
      <4>1. Says(w, H, w, w.accounts, w.tap)
        BY SaysNothing, Zenon
      <4> QED
        BY <3>1, <4>1, Zenon
    <3>2. CASE q # Host
      <4>1. \E x, t : Says(w, TapLines(p, n), x, w.accounts, t) /\ TapTold(p, n, w, t)
        BY TapSaid, Zenon
      <4>2. PICK x, t : Says(w, A, x, w.accounts, t) /\ TapTold(p, n, w, t)
        BY <4>1, Zenon
      <4>3. PICK y, a : /\ Says(x, B, y, a, x.tap)
                        /\ a = IF p = Host THEN HostAccounts(states) ELSE x.accounts
        BY AccountsSaid
      <4>4. x.tap = t /\ x.accounts = w.accounts
        BY <4>2, Zenon DEF Says
      <4>5. IsSeq(A) /\ IsSeq(B)
        BY TapSaid, AccountsSaid DEF Of
      <4>6. Says(w, A \o B, y, a, x.tap)
        BY <4>2, <4>3, <4>5, SaysThen
      <4>7. Says(w, G, y, a, t)
        BY <4>4, <4>6, Zenon
      <4>8. a = IF p = Host THEN HostAccounts(states) ELSE w.accounts
        BY <4>3, <4>4, Zenon
      <4> QED
        BY <3>2, <4>2, <4>7, <4>8, Zenon
    <3> QED
      BY <3>1, <3>2
  <2>2. PICK x, a, t :
                     /\ Says(w, IF q = Host THEN H ELSE G, x, a, t)
                     /\ q = Host \/ a = IF p = Host THEN HostAccounts(states) ELSE w.accounts
                     /\ q = Host \/ TapTold(p, n, w, t)
    BY <2>1, Zenon
  <2>3. \A m \in ToSet(members) : x.choices[m] = w.choices[m] /\ announced'[m] = announced[m]
    BY <1>1, <1>3, <2>2 DEF SetupMembers, Says
  <2>4. \/ q = Host \/ x.accounts = HostAccounts(checks)'
        \/ x.accounts = w.accounts /\ HostAccounts(checks)' = HostAccounts(checks)
    <3>1. x.accounts = a
      BY <2>2, Zenon DEF Says
    <3>2. CASE p = Host
      BY <1>13, <2>2, <3>1, <3>2, Zenon
    <3>3. CASE p # Host
      <4>1. states = checks
        BY <3>3, Zenon
      <4> QED
        BY <1>13, <2>2, <3>1, <3>3, <4>1, Zenon
    <3> QED
      BY <3>2, <3>3
  <2>5. q = Host \/ x.tap = tapOn'[Host] \/ (x.tap = w.tap /\ tapOn'[Host] = tapOn[Host])
    <3>1. x.tap = t
      BY <2>2, Zenon DEF Says
    <3>2. CASE p = Host
      BY <1>8, <2>2, <3>1, <3>2, Zenon DEF TapTold
    <3>3. CASE p # Host
      <4>1. tapOn'[Host] = tapOn[Host]
        BY <1>1, <1>3, <3>3 DEF SetupTables
      <4> QED
        BY <2>2, <3>1, <3>3, <4>1, Zenon DEF TapTold
    <3> QED
      BY <3>2, <3>3
  <2>6. KeepsUp(q, w, x)
    BY <1>12, <2>2, <2>3, <2>4, <2>5, Zenon DEF KeepsUp, Says
  <2>7. Shown(q, x)'
    BY <1>1, <1>3, <1>14, <2>6, StaysShown
  <2> QED
    BY <2>2, <2>7, Zenon DEF Says
<1>15. r => inbox[p] # <<>>
  BY <1>2
<1>16. r => \A v : Turns(View(p), Head(inbox[p]), v) => View(p)' = v
  BY <1>11
<1>17. members' = members
  BY <1>3
<1>18. Shape' /\ \A q \in ToSet(members) : Agreed(q)'
  BY <1>4, <1>5, <1>7, <1>9, <1>10, <1>14, <1>15, <1>16, <1>17, Sends
<1> QED
  BY <1>17, <1>18, Zenon

LEMMA AppendMembers ==
  ASSUME NEW s, IsSeq(s), NEW e
  PROVE  /\ IsSeq(Append(s, e)) /\ ToSet(Append(s, e)) = ToSet(s) \cup {e}
         /\ Len(Append(s, e)) = Len(s) + 1 /\ Len(s) \in Nat
         /\ IsInjective(s) /\ e \notin ToSet(s) => IsInjective(Append(s, e))
<1>1. PICK n \in Nat : Len(s) = n
  BY SeqLength
<1>2. /\ IsSeq(Append(s, e)) /\ Len(Append(s, e)) = n + 1
      /\ \A i \in 1..n : Append(s, e)[i] = s[i]
      /\ Append(s, e)[n + 1] = e
  BY <1>1, SeqAppends
<1>3. ToSet(s) = {s[i] : i \in 1..n} /\ DOMAIN s = 1..n
  BY <1>1, SeqElements
<1> PICK t : t = Append(s, e)
  OBVIOUS
<1>4. ToSet(t) = {t[i] : i \in 1..n + 1} /\ DOMAIN t = 1..n + 1
  <2>1. IsSeq(t) /\ Len(t) = n + 1
    BY <1>2
  <2> QED
    BY <2>1, SeqElements
<1>5. (\A i \in 1..n : t[i] = s[i]) /\ t[n + 1] = e
  BY <1>2
<1>6. 1..n + 1 = (1..n) \cup {n + 1}
  OBVIOUS
<1>7. ToSet(t) = ToSet(s) \cup {e}
  BY <1>3, <1>4, <1>5, <1>6
<1>8. ASSUME IsInjective(s), e \notin ToSet(s) PROVE IsInjective(t)
  <2>1. \A i, j \in 1..n : s[i] = s[j] => i = j
    BY <1>3, <1>8 DEF IsInjective
  <2>2. \A i \in 1..n : s[i] # e
    BY <1>3, <1>8
  <2>3. \A i, j \in 1..n + 1 : t[i] = t[j] => i = j
    BY <1>5, <1>6, <2>1, <2>2
  <2> QED
    BY <1>4, <2>3 DEF IsInjective
<1> QED
  BY <1>1, <1>2, <1>7, <1>8

LEMMA AppendConcat == ASSUME NEW s, IsSeq(s), NEW e PROVE Append(s, e) = s \o <<e>>
<1>1. PICK L : s \in Seq(L)
  BY DEF IsSeq
<1>2. PICK M : M = L \cup {e}
  OBVIOUS
<1>3. s \in Seq(M) /\ e \in M
  BY <1>1, <1>2
<1> QED
  BY <1>3

\* kaillera_player_joined_callback: everybody repeats what it holds, the host what it confirmed and has
\* plugged in, so that the player who came has been told of all.
LEMMA ReadJoinAgrees ==
  ASSUME Shape, \A q \in ToSet(members) : Agreed(q), ~begun, NEW p \in Nicks, ReadJoin(p)
  PROVE  Shape' /\ \A q \in ToSet(members') : Agreed(q)'
<1>1. SetupMembers /\ SetupTables /\ SetupLines /\ HostTables /\ Host \in Nicks
  BY RoomSetupAssumption DEF Shape
<1>2. inbox[p] # <<>> /\ Head(inbox[p]).kind = "join"
  BY DEF ReadJoin, Reads
<1> PICK who, n, own : who = Head(inbox[p]).from /\ n = Len(roster[p]) + 1 /\ own = OwnChoice(p)
  OBVIOUS
<1> PICK new : new = (p = Host /\ who # Host)
  OBVIOUS
<1> PICK H, A, B, T, C, G :
        /\ H = <<Line("choice", p, own)>> /\ A = TapLines(p, n)
        /\ T = <<Line("tap", p, TapAfter(p, n))>>
        /\ B = IF p = Host THEN TellAccounts(checks) \o T ELSE <<>>
        /\ C = <<>> \/ \E e : C = <<Line("ask", p, e)>>
        /\ G = A \o B \o C \o H /\ Post(p, H, G, TRUE)
  <2>1. PICK C : C = IF new THEN <<Line("ask", p, "")>> ELSE <<>>
    BY Zenon
  <2>2. Post(p, <<Line("choice", p, own)>>,
             TapLines(p, n)
             \o (IF p = Host THEN TellAccounts(checks) \o <<Line("tap", p, TapAfter(p, n))>> ELSE <<>>)
             \o C \o <<Line("choice", p, own)>>, TRUE)
    BY <2>1, Zenon DEF ReadJoin, AnnounceOwn
  <2>3. C = <<>> \/ \E e : C = <<Line("ask", p, e)>>
    BY <2>1, Zenon
  <2> QED
    BY <2>2, <2>3, Zenon
<1> PICK r \in BOOLEAN : r = TRUE
  OBVIOUS
<1>3. /\ roster' = [roster EXCEPT ![p] = Append(roster[p], who)]
      /\ announced' = [announced EXCEPT ![p] = own] /\ tapOn' = [tapOn EXCEPT ![p] = TapAfter(p, n)]
      /\ tapSeen' = (IF p = Host THEN n ELSE tapSeen)
      /\ checks' = (IF new THEN [m \in DOMAIN checks \cup {who} |-> IF m = who THEN Waiting ELSE checks[m]]
                    ELSE checks)
      /\ UNCHANGED <<members, choices, accounts, answering, login>>
  BY Zenon DEF ReadJoin, UpdateTap, loginVars
<1>4. Post(p, H, G, r)
  BY Zenon
<1>5. C = <<>> \/ \E e : C = <<Line("ask", p, e)>>
  BY Zenon
<1>6. /\ Of(H, HostKinds) /\ Of(H, GuestKinds) /\ Of(A, GuestKinds) /\ Of(B, GuestKinds) /\ Of(C, GuestKinds)
      /\ Of(G, GuestKinds)
  <2>1. Of(A, GuestKinds)
    BY TapSaid
  <2>2. Of(B, GuestKinds)
    <3>1. CASE p = Host
      <4>1. PICK a : TellAccounts(checks) = <<Line("accounts", Host, a)>>
        BY Zenon DEF TellAccounts
      <4>2. Line("accounts", Host, a).kind \in GuestKinds /\ Line("tap", p, TapAfter(p, n)).kind \in GuestKinds
        BY DEF Line, GuestKinds
      <4>3. Of(TellAccounts(checks), GuestKinds) /\ Of(T, GuestKinds)
        BY <4>1, <4>2, OfOne
      <4>4. Of(TellAccounts(checks) \o T, GuestKinds)
        BY <4>3, OfConcat
      <4> QED
        BY <3>1, <4>4, Zenon
    <3>2. CASE p # Host
      BY <3>2, OfNone, Zenon
    <3> QED
      BY <3>1, <3>2
  <2>3. Of(C, GuestKinds)
    <3>1. CASE C = <<>>
      BY <3>1, OfNone, Zenon
    <3>2. ASSUME NEW e, C = <<Line("ask", p, e)>> PROVE Of(C, GuestKinds)
      <4>1. Line("ask", p, e).kind \in GuestKinds
        BY DEF Line, GuestKinds
      <4>2. Of(<<Line("ask", p, e)>>, GuestKinds)
        BY <4>1, OfOne
      <4> QED
        BY <3>2, <4>2, Zenon
    <3> QED
      BY <1>5, <3>1, <3>2, Zenon
  <2>4. Of(H, HostKinds) /\ Of(H, GuestKinds)
    <3>1. Line("choice", p, own).kind \in HostKinds /\ Line("choice", p, own).kind \in GuestKinds
      BY DEF Line, HostKinds, GuestKinds
    <3>2. Of(<<Line("choice", p, own)>>, HostKinds) /\ Of(<<Line("choice", p, own)>>, GuestKinds)
      BY <3>1, OfOne
    <3> QED
      BY <3>2, Zenon
  <2>5. Of(A \o B, GuestKinds)
    BY <2>1, <2>2, OfConcat
  <2>6. Of(A \o B \o C, GuestKinds)
    BY <2>3, <2>5, OfConcat
  <2>7. Of(A \o B \o C \o H, GuestKinds)
    BY <2>4, <2>6, OfConcat
  <2> QED
    BY <2>1, <2>2, <2>3, <2>4, <2>7, Zenon
<1>7. SetupTables'
  BY <1>1, <1>3 DEF SetupTables
<1>8. tapOn'[p] = TapAfter(p, n) /\ roster'[p] = Append(roster[p], who) /\ announced'[p] = own
  BY <1>1, <1>3 DEF SetupTables
<1>9. p = Host => IsSeq(roster[p]) /\ who \notin ToSet(roster[p]) /\ who \notin DOMAIN checks
  <2> SUFFICES ASSUME p = Host PROVE IsSeq(roster[p]) /\ who \notin ToSet(roster[p]) /\ who \notin DOMAIN checks
    OBVIOUS
  <2>1. Agreed(p)
    BY <1>1 DEF SetupMembers
  <2>2. PICK v : Turns(View(p), Head(inbox[p]), v)
    BY <1>1, <1>2, <2>1, NextLine
  <2>3. who \notin ToSet(View(p).roster)
    BY <1>2, <2>2, Zenon DEF Turns
  <2>4. View(p).roster = roster[p]
    BY DEF View
  <2> QED
    BY <1>1, <2>3, <2>4 DEF HostTables
<1>10. HostAccounts(checks)' = HostAccounts(checks)
  <2>1. {m \in DOMAIN checks' : checks'[m] = Confirmed} = {m \in DOMAIN checks : checks[m] = Confirmed}
    <3>1. CASE new
      <4>1. checks' = [m \in DOMAIN checks \cup {who} |-> IF m = who THEN Waiting ELSE checks[m]]
        BY <1>3, <3>1, Zenon
      <4>2. who \notin DOMAIN checks
        BY <1>9, <3>1, Zenon
      <4>3. ASSUME NEW m
            PROVE  m \in DOMAIN checks' /\ checks'[m] = Confirmed <=> m \in DOMAIN checks /\ checks[m] = Confirmed
        <5>1. DOMAIN checks' = DOMAIN checks \cup {who}
          BY <4>1
        <5>2. m \in DOMAIN checks => checks'[m] = checks[m]
          BY <4>1, <4>2
        <5>3. checks'[who] # Confirmed
          BY <4>1 DEF Waiting, Confirmed
        <5> QED
          BY <4>2, <5>1, <5>2, <5>3
      <4> QED
        BY <4>3
    <3>2. CASE ~new
      BY <1>3, <3>2, Zenon
    <3> QED
      BY <3>1, <3>2
  <2> QED
    BY <1>3, <2>1, Zenon DEF HostAccounts
<1>11. HostTables'
  <2>1. CASE p # Host
    <3>1. roster'[Host] = roster[Host] /\ tapOn'[Host] = tapOn[Host] /\ checks' = checks /\ tapSeen' = tapSeen
      <4>1. checks' = checks /\ tapSeen' = tapSeen
        BY <1>3, <2>1, Zenon
      <4>2. roster'[Host] = roster[Host] /\ tapOn'[Host] = tapOn[Host]
        BY <1>1, <1>3, <2>1 DEF SetupTables
      <4> QED
        BY <4>1, <4>2
    <3> QED
      BY <1>1, <1>3, <3>1 DEF HostTables
  <2>2. CASE p = Host
    <3>1. /\ IsSeq(Append(roster[p], who)) /\ ToSet(Append(roster[p], who)) = ToSet(roster[p]) \cup {who}
          /\ Len(Append(roster[p], who)) = n /\ n \in Nat
      BY <1>9, <2>2, AppendMembers
    <3>2. DOMAIN checks' \subseteq DOMAIN checks \cup {who}
      BY <1>3
    <3>3. DOMAIN checks' \subseteq ToSet(Append(roster[p], who))
      BY <1>1, <2>2, <3>1, <3>2 DEF HostTables
    <3>4. TapAfter(p, n) \in BOOLEAN /\ (TapAfter(p, n) => n >= 3)
      BY <1>1, <2>2, <3>1 DEF TapAfter, HostTables
    <3>5. tapOn'[Host] \in BOOLEAN /\ (tapOn'[Host] => n >= 3)
      BY <1>8, <2>2, <3>4, Zenon
    <3>6. tapSeen' = n /\ roster'[Host] = Append(roster[p], who) /\ answering'[Host] = "no"
      BY <1>1, <1>3, <1>8, <2>2 DEF HostTables
    <3> QED
      BY <3>1, <3>3, <3>5, <3>6 DEF HostTables
  <2> QED
    BY <2>1, <2>2
<1>12. \A q \in ToSet(members) : ~(r /\ q = p) => View(q)' = View(q)
  <2>1. \A q \in ToSet(members) : q # p => roster'[q] = roster[q] /\ tapOn'[q] = tapOn[q]
    BY <1>1, <1>3 DEF SetupTables, SetupMembers
  <2> QED
    BY <1>3, <2>1, Zenon DEF View
<1>13. ASSUME NEW v, Turns(View(p), Head(inbox[p]), v) PROVE View(p)' = v
  <2>1. /\ v.roster = Append(View(p).roster, who) /\ v.accounts = View(p).accounts
        /\ v.tap = (Len(View(p).roster) + 1 >= 3 /\ View(p).tap)
    BY <1>2, <1>13 DEF Turns
  <2>2. v.choices = [m \in Nicks |-> View(p).choices[m]]
    BY <1>2, <1>13 DEF Turns
  <2>3. /\ View(p).roster = roster[p] /\ View(p).choices = choices[p]
        /\ View(p).accounts = (IF p = Host THEN {} ELSE accounts[p])
        /\ View(p).tap = IF p = Host THEN FALSE ELSE tapOn[p]
    BY DEF View
  <2>4. roster'[p] = v.roster /\ choices'[p] = v.choices
    BY <1>1, <1>3, <1>8, <2>1, <2>2, <2>3 DEF SetupTables
  <2>5. (IF p = Host THEN {} ELSE accounts'[p]) = v.accounts
    BY <1>3, <2>1, <2>3
  <2>6. (IF p = Host THEN FALSE ELSE tapOn'[p]) = v.tap
    <3>1. v.tap = (n >= 3 /\ View(p).tap)
      BY <2>1, <2>3, Zenon
    <3>2. CASE p = Host
      BY <2>3, <3>1, <3>2
    <3>3. CASE p # Host
      <4>1. TapAfter(p, n) = (n >= 3 /\ tapOn[p])
        BY <3>3, Zenon DEF TapAfter
      <4>2. View(p).tap = tapOn[p]
        BY <2>3, <3>3, Zenon
      <4> QED
        BY <1>8, <3>1, <3>3, <4>1, <4>2, Zenon
    <3> QED
      BY <3>2, <3>3
  <2> QED
    BY <1>13, <2>4, <2>5, <2>6, ViewTurns
<1>14. \A m \in ToSet(members) : \A x : Tells(inbox[m], x) => Tells(inbox'[m], x) \/ m = p
  <2>1. r => inbox[p] # <<>>
    BY <1>2
  <2>2. \A m \in ToSet(members) : \A x : Tells(inbox[m], x) =>
              \/ Tells(inbox'[m], x)
              \/ r /\ m = p /\ Head(inbox[p]).kind = "join" /\ Head(inbox[p]).from = x
    BY <1>1, <1>3, <1>4, <1>6, <2>1, StaysUnread
  <2> QED
    BY <2>2, Zenon
<1>15. ASSUME NEW w
       PROVE  \E x, a, t : /\ Says(w, A \o B \o C, x, a, t)
                           /\ p = Host => a = HostAccounts(checks) /\ t = TapAfter(p, n)
                           /\ p # Host => a = w.accounts /\ t = w.tap
  <2>1. IsSeq(A) /\ IsSeq(B) /\ IsSeq(C) /\ IsSeq(A \o B)
    <3>1. Of(A \o B, GuestKinds)
      BY <1>6, OfConcat
    <3> QED
      BY <1>6, <3>1 DEF Of
  <2>2. PICK x, t : Says(w, A, x, w.accounts, t) /\ TapTold(p, n, w, t)
    <3>1. \E x, t : Says(w, TapLines(p, n), x, w.accounts, t) /\ TapTold(p, n, w, t)
      BY TapSaid, Zenon
    <3> QED
      BY <3>1, Zenon
  <2>3. x.accounts = w.accounts /\ x.tap = t
    BY <2>2, Zenon DEF Says
  <2>4. PICK y, a, u : /\ Says(x, B, y, a, u)
                       /\ p = Host => a = HostAccounts(checks) /\ u = TapAfter(p, n)
                       /\ p # Host => a = x.accounts /\ u = x.tap
    <3>1. CASE p = Host
      <4>1. PICK z, b : /\ Says(x, IF p = Host THEN TellAccounts(checks) ELSE <<>>, z, b, x.tap)
                        /\ b = IF p = Host THEN HostAccounts(checks) ELSE x.accounts
        BY AccountsSaid
      <4>2. Says(x, TellAccounts(checks), z, b, x.tap) /\ b = HostAccounts(checks)
        BY <3>1, <4>1, Zenon
      <4>3. PICK y : Says(z, T, y, z.accounts, TapAfter(p, n))
        BY TapLeads, Zenon
      <4>4. z.accounts = b
        BY <4>2, Zenon DEF Says
      <4>5. IsSeq(TellAccounts(checks)) /\ IsSeq(T)
        BY SeqOne, Zenon DEF TellAccounts
      <4>6. Says(x, TellAccounts(checks) \o T, y, z.accounts, TapAfter(p, n))
        BY <4>2, <4>3, <4>5, SaysThen
      <4> QED
        BY <3>1, <4>2, <4>4, <4>6, Zenon
    <3>2. CASE p # Host
      <4>1. Says(x, B, x, x.accounts, x.tap)
        BY <3>2, SaysNothing, Zenon
      <4> QED
        BY <3>2, <4>1, Zenon
    <3> QED
      BY <3>1, <3>2
  <2>5. Says(w, A \o B, y, a, u)
    BY <2>1, <2>2, <2>4, SaysThen
  <2>6. y.accounts = a /\ y.tap = u
    BY <2>4, Zenon DEF Says
  <2>7. \E z : Says(y, C, z, a, u)
    <3>1. CASE C = <<>>
      <4>1. Says(y, C, y, y.accounts, y.tap)
        BY <3>1, SaysNothing, Zenon
      <4> QED
        BY <2>6, <4>1, Zenon
    <3>2. ASSUME NEW e, C = <<Line("ask", p, e)>> PROVE \E z : Says(y, C, z, a, u)
      <4>1. \E z : Says(y, <<Line("ask", p, e)>>, z, y.accounts, y.tap)
        BY OtherLeads, Zenon
      <4> QED
        BY <2>6, <3>2, <4>1, Zenon
    <3> QED
      BY <1>5, <3>1, <3>2, Zenon
  <2>8. PICK z : Says(y, C, z, a, u)
    BY <2>7
  <2>9. Says(w, A \o B \o C, z, a, u)
    BY <2>1, <2>5, <2>8, SaysThen
  <2>10. p # Host => a = w.accounts /\ u = w.tap
    BY <2>2, <2>3, <2>4, Zenon DEF TapTold
  <2> QED
    BY <2>4, <2>9, <2>10, Zenon
<1>16. ASSUME NEW q \in ToSet(members), NEW w, Shown(q, w)
       PROVE  \E x : Leads(w, IF q = Host THEN H ELSE G, x) /\ Shown(q, x)'
  <2>1. \E x : /\ Leads(w, IF q = Host THEN H ELSE G, x) /\ x.roster = w.roster
               /\ \A m \in Nicks : x.choices[m] = IF m = p THEN own ELSE w.choices[m]
               /\ q = Host \/ (p = Host => x.accounts = HostAccounts(checks) /\ x.tap = TapAfter(p, n))
               /\ q = Host \/ (p # Host => x.accounts = w.accounts /\ x.tap = w.tap)
    <3>1. CASE q = Host
      <4>1. PICK x : SaysIts(w, <<Line("choice", p, own)>>, x, p, own)
        BY ChoiceLeads, Zenon
      <4> QED
        BY <3>1, <4>1, Zenon DEF SaysIts
    <3>2. CASE q # Host
      <4>1. PICK y, a, t : /\ Says(w, A \o B \o C, y, a, t)
                           /\ p = Host => a = HostAccounts(checks) /\ t = TapAfter(p, n)
                           /\ p # Host => a = w.accounts /\ t = w.tap
        BY <1>15, Zenon
      <4>2. PICK x : SaysIts(y, <<Line("choice", p, own)>>, x, p, own)
        BY ChoiceLeads, Zenon
      <4>3. Leads(w, A \o B \o C, y) /\ Leads(y, H, x)
        BY <4>1, <4>2, Zenon DEF Says, SaysIts
      <4>4. IsSeq(A \o B \o C) /\ IsSeq(H)
        <5>1. Of(A \o B, GuestKinds)
          BY <1>6, OfConcat
        <5>2. Of(A \o B \o C, GuestKinds)
          BY <1>6, <5>1, OfConcat
        <5> QED
          BY <1>6, <5>2 DEF Of
      <4>5. Leads(w, A \o B \o C \o H, x)
        BY <4>3, <4>4, LeadsConcat
      <4>6. Leads(w, IF q = Host THEN H ELSE G, x)
        BY <3>2, <4>5, Zenon
      <4>7. x.roster = w.roster /\ x.accounts = a /\ x.tap = t
        BY <4>1, <4>2, Zenon DEF Says, SaysIts
      <4>8. \A m \in Nicks : x.choices[m] = IF m = p THEN own ELSE w.choices[m]
        BY <4>1, <4>2, Zenon DEF Says, SaysIts
      <4>9. p = Host => x.accounts = HostAccounts(checks) /\ x.tap = TapAfter(p, n)
        BY <4>1, <4>7, Zenon
      <4>10. p # Host => x.accounts = w.accounts /\ x.tap = w.tap
        BY <4>1, <4>7, Zenon
      <4> QED
        BY <4>6, <4>7, <4>8, <4>9, <4>10, Zenon
    <3> QED
      BY <3>1, <3>2
  <2>2. PICK x :
               /\ Leads(w, IF q = Host THEN H ELSE G, x) /\ x.roster = w.roster
               /\ \A m \in Nicks : x.choices[m] = IF m = p THEN own ELSE w.choices[m]
               /\ q = Host \/ (p = Host => x.accounts = HostAccounts(checks) /\ x.tap = TapAfter(p, n))
               /\ q = Host \/ (p # Host => x.accounts = w.accounts /\ x.tap = w.tap)
    BY <2>1, Zenon
  <2>3. \A m \in ToSet(members) : \/ x.choices[m] = announced'[m]
                                  \/ x.choices[m] = w.choices[m] /\ announced'[m] = announced[m]
    <3>1. \A m \in ToSet(members) : m \in Nicks
      BY <1>1 DEF SetupMembers
    <3>2. \A m \in Nicks : m # p => announced'[m] = announced[m]
      BY <1>1, <1>3 DEF SetupTables
    <3> QED
      BY <1>8, <2>2, <3>1, <3>2
  <2>4. \/ q = Host \/ x.accounts = HostAccounts(checks)'
        \/ x.accounts = w.accounts /\ HostAccounts(checks)' = HostAccounts(checks)
    BY <1>10, <2>2, Zenon
  <2>5. q = Host \/ x.tap = tapOn'[Host] \/ (x.tap = w.tap /\ tapOn'[Host] = tapOn[Host])
    <3>1. CASE p = Host
      BY <1>8, <2>2, <3>1, Zenon
    <3>2. CASE p # Host
      <4>1. tapOn'[Host] = tapOn[Host]
        BY <1>1, <1>3, <3>2 DEF SetupTables
      <4> QED
        BY <2>2, <3>2, <4>1, Zenon
    <3> QED
      BY <3>1, <3>2
  <2>6. \A m \in ToSet(members) : \A z : Tells(inbox[m], z) =>
           \/ Tells(inbox'[m], z)
           \/ /\ x.choices[m] = announced'[m]
              /\ m # Host \/ q = Host \/ (x.accounts = HostAccounts(checks)' /\ x.tap = tapOn'[Host])
    <3>1. x.choices[p] = announced'[p]
      BY <1>8, <2>2
    <3>2. p # Host \/ q = Host \/ (x.accounts = HostAccounts(checks)' /\ x.tap = tapOn'[Host])
      BY <1>8, <1>10, <2>2, Zenon
    <3> QED
      BY <1>14, <3>1, <3>2, Zenon
  <2>7. KeepsUp(q, w, x)
    BY <2>2, <2>3, <2>4, <2>5, <2>6, Zenon DEF KeepsUp
  <2>8. Shown(q, x)'
    BY <1>1, <1>3, <1>16, <2>7, StaysShown
  <2> QED
    BY <2>2, <2>8, Zenon
<1>17. members' = members /\ (r => inbox[p] # <<>>)
  BY <1>2, <1>3
<1>18. r => \A v : Turns(View(p), Head(inbox[p]), v) => View(p)' = v
  BY <1>13
<1>19. Shape' /\ \A q \in ToSet(members) : Agreed(q)'
  BY <1>4, <1>6, <1>7, <1>11, <1>12, <1>16, <1>17, <1>18, Sends
<1> QED
  BY <1>17, <1>19, Zenon

\* The players who come and go.

LEMMA TwoLines == \A a, b : <<a, b>> = <<a>> \o <<b>>
<1> SUFFICES ASSUME NEW a, NEW b PROVE <<a, b>> = <<a>> \o <<b>>
  OBVIOUS
<1> PICK S : S = {a, b}
  OBVIOUS
<1> PICK s, t : s = <<a, b>> /\ t = <<a>> \o <<b>>
  OBVIOUS
<1>1. <<a>> \in Seq(S) /\ <<b>> \in Seq(S) /\ s \in Seq(S) /\ Len(s) = 2 /\ s[1] = a /\ s[2] = b
  OBVIOUS
<1>2. t \in Seq(S) /\ Len(t) = 2 /\ t[1] = a /\ t[2] = b
  BY <1>1
<1>3. \A i \in 1..Len(s) : s[i] = t[i]
  <2>1. \A i \in 1..2 : i = 1 \/ i = 2
    OBVIOUS
  <2> QED
    BY <1>1, <1>2, <2>1, Zenon
<1>4. Len(s) = Len(t)
  BY <1>1, <1>2
<1> QED
  BY <1>1, <1>2, <1>3, <1>4, SeqEqual

\* One more line for a player.
Grows(s, q, l, t) ==
  /\ Of(t, Kinds(q)) /\ Newcomer(t, q)
  /\ \A who : Tells(s, who) => Tells(t, who)
  /\ l.kind = "join" => Tells(t, l.from)
  /\ \A v, w, x : Leads(v, s, w) /\ Leads(w, <<l>>, x) => Leads(v, t, x)

LEMMA OneMore ==
  ASSUME SetupLines, NEW q \in Nicks, NEW l, l.kind \in {"join", "leave"}
  PROVE  Grows(inbox[q], q, l, Append(inbox[q], l))
<1>1. IsSeq(inbox[q]) /\ Of(inbox[q], Kinds(q)) /\ Newcomer(inbox[q], q)
  BY DEF SetupLines, Of
<1> PICK s, t : s = inbox[q] /\ t = <<l>>
  OBVIOUS
<1>2. Append(inbox[q], l) = s \o t
  BY <1>1, AppendConcat
<1>3. IsSeq(t) /\ Len(t) = 1 /\ t[1] = l
  BY SeqOne
<1>4. l.kind \in Kinds(q)
  BY DEF Kinds, HostKinds, GuestKinds
<1>5. Of(t, Kinds(q))
  BY <1>4, OfOne
<1>6. Of(s \o t, Kinds(q))
  BY <1>1, <1>5, OfConcat
<1>7. \A i \in 1..Len(t) : t[i].kind # "list"
  <2>1. \A i \in 1..1 : i = 1
    OBVIOUS
  <2> QED
    BY <1>3, <2>1
<1>8. Newcomer(s \o t, q)
  BY <1>1, <1>3, <1>7, NewcomerConcat
<1>9. ASSUME NEW who, Tells(s, who) PROVE Tells(s \o t, who)
  BY <1>1, <1>3, <1>9, TellsConcat
<1>10. ASSUME l.kind = "join" PROVE Tells(s \o t, l.from)
  <2>1. 1 \in 1..1
    OBVIOUS
  <2>2. Tells(t, l.from)
    BY <1>3, <1>10, <2>1, Zenon DEF Tells
  <2> QED
    BY <1>1, <1>3, <2>2, TellsConcat
<1>11. ASSUME NEW v, NEW w, NEW x, Leads(v, s, w), Leads(w, t, x) PROVE Leads(v, s \o t, x)
  BY <1>1, <1>3, <1>11, LeadsConcat
<1> QED
  BY <1>2, <1>6, <1>8, <1>9, <1>10, <1>11, Zenon DEF Grows

LEMMA JoinAgrees ==
  ASSUME Shape, \A q \in ToSet(members) : Agreed(q), NEW p \in Nicks, Join(p)
  PROVE  Shape' /\ \A q \in ToSet(members') : Agreed(q)'
<1>1. SetupMembers /\ SetupTables /\ SetupLines /\ HostTables /\ Host \in Nicks
  BY RoomSetupAssumption DEF Shape
<1>2. /\ p \notin ToSet(members) /\ members' = Append(members, p)
      /\ UNCHANGED <<roster, choices, announced, accounts, tapOn, tapSeen, answering, login, checks>>
  BY Zenon DEF Join, tableVars, loginVars, hostVars
<1>3. PICK e : inbox' = [q \in Nicks |->
                 IF q = p THEN <<Line("list", e, members), Line("join", p, e)>>
                 ELSE IF q \in ToSet(members) THEN Append(inbox[q], Line("join", p, e))
                 ELSE <<>>]
  BY Zenon DEF Join
<1> PICK a, l : a = Line("list", e, members) /\ l = Line("join", p, e)
  OBVIOUS
<1>4. a.kind = "list" /\ l.kind = "join" /\ l.from = p
  BY DEF Line
<1>5. /\ IsSeq(members') /\ IsInjective(members') /\ ToSet(members') = ToSet(members) \cup {p}
      /\ IsSeq(members)
  BY <1>1, <1>2, AppendMembers DEF SetupMembers
<1>6. inbox'[p] = <<a>> \o <<l>>
  BY <1>3, TwoLines
<1>7. ASSUME NEW q \in ToSet(members) PROVE q \in Nicks /\ q # p /\ inbox'[q] = Append(inbox[q], l)
  BY <1>1, <1>2, <1>3 DEF SetupMembers
<1>8. ASSUME NEW q \in Nicks, q \notin ToSet(members') PROVE inbox'[q] = <<>>
  BY <1>3, <1>5, <1>8
<1>9. p # Host
  BY <1>1, <1>2 DEF SetupMembers
<1>10. SetupTables' /\ HostTables'
  BY <1>1, <1>2 DEF SetupTables, HostTables
<1>11. SetupMembers'
  BY <1>1, <1>5 DEF SetupMembers
<1>12. /\ Of(inbox'[p], Kinds(p)) /\ Newcomer(inbox'[p], p) /\ Tells(inbox'[p], p)
  <2>1. IsSeq(<<a>>) /\ IsSeq(<<l>>) /\ Len(<<a>>) = 1 /\ Len(<<l>>) = 1 /\ <<a>>[1] = a /\ <<l>>[1] = l
    BY SeqOne
  <2>2. a.kind \in Kinds(p) /\ l.kind \in Kinds(p)
    BY <1>4, <1>9 DEF Kinds, GuestKinds
  <2>3. Of(<<a>> \o <<l>>, Kinds(p))
    BY <2>2, OfOne, OfConcat
  <2> PICK s : s = <<a>> \o <<l>>
    OBVIOUS
  <2>4. Len(s) = 2 /\ s[1] = a /\ s[2] = l
    <3>1. Len(s) = 1 + 1 /\ (\A i \in 1..1 : s[i] = <<a>>[i]) /\ \A i \in 1..1 : s[1 + i] = <<l>>[i]
      BY <2>1, SeqConcat
    <3>2. 1 \in 1..1 /\ 1 + 1 = 2
      OBVIOUS
    <3> QED
      BY <2>1, <3>1, <3>2, Zenon
  <2>5. \A i \in 1..2 : i = 1 \/ i = 2
    OBVIOUS
  <2>6. Newcomer(s, p)
    <3>1. ASSUME NEW i \in 1..2, s[i].kind = "list" PROVE i = 1
      <4>1. CASE i = 2
        BY <1>4, <2>4, <3>1, <4>1
      <4> QED
        BY <2>5, <4>1
    <3>2. 2 <= 2
      OBVIOUS
    <3> QED
      BY <1>4, <2>4, <3>1, <3>2, Zenon DEF Newcomer
  <2>7. Tells(s, p)
    <3>1. 2 \in 1..2
      OBVIOUS
    <3> QED
      BY <1>4, <2>4, <3>1, Zenon DEF Tells
  <2> QED
    BY <1>6, <2>3, <2>6, <2>7, Zenon
<1>13. ASSUME NEW q \in ToSet(members)
       PROVE  /\ Of(inbox'[q], Kinds(q)) /\ Newcomer(inbox'[q], q) /\ Tells(inbox'[q], p)
              /\ \A who : Tells(inbox[q], who) => Tells(inbox'[q], who)
              /\ \A v, w, x : Leads(v, inbox[q], w) /\ Leads(w, <<l>>, x) => Leads(v, inbox'[q], x)
  <2>1. q \in Nicks /\ inbox'[q] = Append(inbox[q], l)
    BY <1>7
  <2>2. l.kind \in {"join", "leave"}
    BY <1>4
  <2>3. Grows(inbox[q], q, l, Append(inbox[q], l))
    BY <1>1, <2>1, <2>2, OneMore
  <2> QED
    BY <1>4, <2>1, <2>3, Zenon DEF Grows
<1>14. SetupLines'
  <2>1. ASSUME NEW q \in Nicks
        PROVE  /\ Of(inbox'[q], Kinds(q)) /\ Newcomer(inbox'[q], q)
               /\ q \notin ToSet(members') => inbox'[q] = <<>>
    <3>1. CASE q = p
      BY <1>5, <1>12, <3>1
    <3>2. CASE q \in ToSet(members)
      BY <1>5, <1>13, <3>2
    <3>3. CASE q \notin ToSet(members')
      <4>1. inbox'[q] = <<>>
        BY <1>8, <3>3
      <4>2. Newcomer(<<>>, q)
        BY SeqNone DEF Newcomer
      <4> QED
        BY <4>1, <4>2, OfNone
    <3> QED
      BY <1>5, <3>1, <3>2, <3>3
  <2> QED
    BY <2>1 DEF SetupLines
<1>15. Tells(inbox'[Host], p)
  BY <1>1, <1>13 DEF SetupMembers
<1>16. HostAccounts(checks)' = HostAccounts(checks)
  BY <1>2 DEF HostAccounts
<1>17. ASSUME NEW q \in ToSet(members) PROVE Agreed(q)'
  <2>1. PICK w : Leads(View(q), inbox[q], w) /\ Shown(q, w)
    BY DEF Agreed
  <2>2. w.roster = members
    BY <2>1, Zenon DEF Shown
  <2>3. PICK x : Adds(w, <<l>>, x, p)
    <3>1. p \notin ToSet(w.roster)
      BY <1>2, <2>2
    <3> QED
      BY <3>1, JoinLeads, Zenon
  <2>4. View(q)' = View(q)
    BY <1>2 DEF View
  <2>5. Leads(View(q)', inbox'[q], x)
    BY <1>13, <2>1, <2>3, <2>4, Zenon DEF Adds
  <2>6. ASSUME NEW n \in ToSet(members')
        PROVE  Tells(inbox'[n], n) \/ Tells(inbox'[n], q) \/ x.choices[n] = announced'[n]
    <3>1. CASE n = p
      BY <1>12, <3>1
    <3>2. CASE n \in ToSet(members)
      <4>1. Tells(inbox[n], n) \/ Tells(inbox[n], q) \/ w.choices[n] = announced[n]
        BY <2>1, <3>2, Zenon DEF Shown
      <4>2. \A who : Tells(inbox[n], who) => Tells(inbox'[n], who)
        BY <1>13, <3>2
      <4>3. x.choices[n] = w.choices[n]
        BY <1>7, <2>3, <3>2 DEF Adds
      <4> QED
        BY <1>2, <4>1, <4>2, <4>3
    <3> QED
      BY <1>5, <3>1, <3>2
  <2>7. q = Host \/ Tells(inbox'[Host], q) \/ x.accounts = HostAccounts(checks)'
    <3>1. q = Host \/ Tells(inbox[Host], q) \/ w.accounts = HostAccounts(checks)
      BY <2>1, Zenon DEF Shown
    <3>2. Tells(inbox[Host], q) => Tells(inbox'[Host], q)
      BY <1>1, <1>13 DEF SetupMembers
    <3> QED
      BY <1>16, <2>3, <3>1, <3>2, Zenon DEF Adds
  <2>8. Shown(q, x)'
    <3>1. x.roster = members'
      BY <1>2, <2>2, <2>3 DEF Adds
    <3> QED
      BY <1>15, <2>6, <2>7, <3>1, Zenon DEF Shown
  <2> QED
    BY <2>5, <2>8, Zenon DEF Agreed
<1>18. Agreed(p)'
  <2> PICK u : u = View(p)'
    OBVIOUS
  <2>1. PICK v : Lists(u, <<a>>, v, members)
    BY ListLeads, Zenon
  <2>2. Leads(u, <<a>>, v) /\ v.roster = members
    BY <2>1, Zenon DEF Lists
  <2>3. PICK x : Adds(v, <<l>>, x, p)
    <3>1. p \notin ToSet(v.roster)
      BY <1>2, <2>2
    <3> QED
      BY <3>1, JoinLeads, Zenon
  <2>4. IsSeq(<<a>>) /\ IsSeq(<<l>>)
    BY SeqOne
  <2>5. Leads(u, <<a>> \o <<l>>, x)
    BY <2>2, <2>3, <2>4, LeadsConcat DEF Adds
  <2>6. x.roster = members'
    BY <1>2, <2>2, <2>3 DEF Adds
  <2>7. \A n \in ToSet(members') : Tells(inbox'[n], p)
    BY <1>5, <1>12, <1>13
  <2>8. Shown(p, x)'
    BY <1>15, <2>6, <2>7, Zenon DEF Shown
  <2> QED
    BY <1>6, <2>5, <2>8, Zenon DEF Agreed
<1> QED
  BY <1>5, <1>10, <1>11, <1>14, <1>17, <1>18 DEF Shape

LEMMA LeaveAgrees ==
  ASSUME Shape, \A q \in ToSet(members) : Agreed(q), NEW p \in Nicks, Leave(p)
  PROVE  Shape' /\ \A q \in ToSet(members') : Agreed(q)'
<1>1. SetupMembers /\ SetupTables /\ SetupLines /\ HostTables /\ Host \in Nicks
  BY RoomSetupAssumption DEF Shape
<1>2. /\ p \in ToSet(members) /\ p # Host /\ members' = Without(members, p)
      /\ answering' = [answering EXCEPT ![p] = "no"]
      /\ UNCHANGED <<roster, choices, announced, accounts, tapOn, tapSeen, login, checks>>
  <2>1. p \in ToSet(members) \ {Host}
    BY Zenon DEF Leave
  <2>2. /\ members' = Without(members, p)
        /\ answering' = [answering EXCEPT ![p] = "no"]
        /\ UNCHANGED <<roster, choices, announced, accounts, tapOn, tapSeen, login, checks>>
    BY Zenon DEF Leave, tableVars, hostVars
  <2> QED
    BY <2>1, <2>2
<1>3. PICK e : inbox' = [q \in Nicks |-> IF q \in ToSet(members) \ {p}
                                        THEN Append(inbox[q], Line("leave", p, e)) ELSE <<>>]
  BY Zenon DEF Leave
<1> PICK l : l = Line("leave", p, e)
  OBVIOUS
<1>4. l.kind = "leave" /\ l.from = p
  BY DEF Line
<1>5. /\ IsSeq(members') /\ IsInjective(members') /\ ToSet(members') = ToSet(members) \ {p}
      /\ Len(members') <= Len(members) /\ Len(members') \in Nat
  <2>1. IsSeq(members) /\ IsInjective(members)
    BY <1>1 DEF SetupMembers
  <2>2. /\ IsSeq(Without(members, p)) /\ ToSet(members) \ {p} \subseteq ToSet(Without(members, p))
        /\ ToSet(Without(members, p)) \subseteq ToSet(members)
        /\ Len(Without(members, p)) <= Len(members) /\ Len(Without(members, p)) \in Nat
        /\ IsInjective(Without(members, p)) /\ p \notin ToSet(Without(members, p))
    BY <2>1, WithoutMembers
  <2> QED
    BY <1>2, <2>2
<1>6. ASSUME NEW q \in ToSet(members') PROVE q \in Nicks /\ q \in ToSet(members) /\ q # p /\ inbox'[q] = Append(inbox[q], l)
  BY <1>1, <1>3, <1>5 DEF SetupMembers
<1>7. ASSUME NEW q \in Nicks, q \notin ToSet(members') PROVE inbox'[q] = <<>>
  BY <1>3, <1>5, <1>7
<1>8. SetupTables' /\ HostTables'
  BY <1>1, <1>2 DEF SetupTables, HostTables
<1>9. SetupMembers'
  BY <1>1, <1>2, <1>5 DEF SetupMembers
<1>10. ASSUME NEW q \in ToSet(members')
       PROVE  /\ Of(inbox'[q], Kinds(q)) /\ Newcomer(inbox'[q], q)
              /\ \A who : Tells(inbox[q], who) => Tells(inbox'[q], who)
              /\ \A v, w, x : Leads(v, inbox[q], w) /\ Leads(w, <<l>>, x) => Leads(v, inbox'[q], x)
  <2>1. q \in Nicks /\ inbox'[q] = Append(inbox[q], l)
    BY <1>6
  <2>2. l.kind \in {"join", "leave"}
    BY <1>4
  <2>3. Grows(inbox[q], q, l, Append(inbox[q], l))
    BY <1>1, <2>1, <2>2, OneMore
  <2> QED
    BY <2>1, <2>3, Zenon DEF Grows
<1>11. SetupLines'
  <2>1. ASSUME NEW q \in Nicks
        PROVE  /\ Of(inbox'[q], Kinds(q)) /\ Newcomer(inbox'[q], q)
               /\ q \notin ToSet(members') => inbox'[q] = <<>>
    <3>1. CASE q \in ToSet(members')
      BY <1>10, <3>1
    <3>2. CASE q \notin ToSet(members')
      <4>1. inbox'[q] = <<>>
        BY <1>7, <3>2
      <4>2. Newcomer(<<>>, q)
        BY SeqNone DEF Newcomer
      <4> QED
        BY <4>1, <4>2, OfNone
    <3> QED
      BY <3>1, <3>2
  <2> QED
    BY <2>1 DEF SetupLines
<1>12. Host \in ToSet(members')
  BY <1>1, <1>2, <1>5 DEF SetupMembers
<1>13. HostAccounts(checks)' = HostAccounts(checks)
  BY <1>2 DEF HostAccounts
<1>14. ASSUME NEW q \in ToSet(members') PROVE Agreed(q)'
  <2>1. q \in ToSet(members) /\ q \in Nicks
    BY <1>6
  <2>2. PICK w : Leads(View(q), inbox[q], w) /\ Shown(q, w)
    BY <2>1 DEF Agreed
  <2>3. w.roster = members
    BY <2>2, Zenon DEF Shown
  <2>4. PICK x : Drops(w, <<l>>, x, p)
    BY LeaveLeads, Zenon
  <2>5. View(q)' = View(q)
    BY <1>2 DEF View
  <2>6. Leads(View(q)', inbox'[q], x)
    BY <1>10, <2>2, <2>4, <2>5, Zenon DEF Drops
  <2>7. ASSUME NEW n \in ToSet(members')
        PROVE  Tells(inbox'[n], n) \/ Tells(inbox'[n], q) \/ x.choices[n] = announced'[n]
    <3>1. n \in ToSet(members) /\ n \in Nicks /\ n # p
      BY <1>6
    <3>2. Tells(inbox[n], n) \/ Tells(inbox[n], q) \/ w.choices[n] = announced[n]
      BY <2>2, <3>1, Zenon DEF Shown
    <3>3. \A who : Tells(inbox[n], who) => Tells(inbox'[n], who)
      BY <1>10
    <3>4. x.choices[n] = w.choices[n]
      BY <2>4, <3>1 DEF Drops
    <3> QED
      BY <1>2, <3>2, <3>3, <3>4
  <2>8. q = Host \/ Tells(inbox'[Host], q) \/ x.accounts = HostAccounts(checks)'
    <3>1. q = Host \/ Tells(inbox[Host], q) \/ w.accounts = HostAccounts(checks)
      BY <2>2, Zenon DEF Shown
    <3>2. Tells(inbox[Host], q) => Tells(inbox'[Host], q)
      BY <1>10, <1>12
    <3> QED
      BY <1>13, <2>4, <3>1, <3>2, Zenon DEF Drops
  <2>9. \/ q = Host \/ \E who \in Nicks : Tells(inbox'[Host], who)
        \/ x.tap = tapOn'[Host] \/ (Len(members') < 3 /\ tapOn'[Host])
    <3>1. \/ q = Host \/ \E who \in Nicks : Tells(inbox[Host], who)
          \/ w.tap = tapOn[Host] \/ (Len(members) < 3 /\ tapOn[Host])
      BY <2>2, Zenon DEF Shown
    <3>2. CASE \E who \in Nicks : Tells(inbox[Host], who)
      BY <1>10, <1>12, <3>2
    <3>3. tapOn'[Host] = tapOn[Host] /\ tapOn[Host] \in BOOLEAN
      BY <1>1, <1>2 DEF HostTables
    <3>4. x.tap = (Len(members') >= 3 /\ w.tap)
      BY <1>2, <2>3, <2>4, Zenon DEF Drops
    <3>5. PICK m \in Nat, k \in Nat : m = Len(members') /\ k = Len(members)
      BY <1>1, <1>5, SeqLength DEF SetupMembers
    <3>6. m <= k
      BY <1>5, <3>5, Zenon
    <3>7. CASE w.tap = tapOn[Host]
      <4>1. CASE m >= 3
        BY <3>3, <3>4, <3>5, <3>7, <4>1, Zenon
      <4>2. CASE ~(m >= 3)
        <5>1. m < 3
          BY <4>2
        <5> QED
          BY <3>3, <3>4, <3>5, <4>2, <5>1, Zenon
      <4> QED
        BY <4>1, <4>2
    <3>8. CASE Len(members) < 3 /\ tapOn[Host]
      <4>1. k < 3
        BY <3>5, <3>8, Zenon
      <4>2. m < 3
        BY <3>6, <4>1
      <4> QED
        BY <3>3, <3>5, <3>8, <4>2, Zenon
    <3> QED
      BY <3>1, <3>2, <3>7, <3>8, Zenon
  <2>10. Shown(q, x)'
    <3>1. x.roster = members'
      BY <1>2, <2>3, <2>4, Zenon DEF Drops
    <3> QED
      BY <2>7, <2>8, <2>9, <3>1, Zenon DEF Shown
  <2> QED
    BY <2>6, <2>10, Zenon DEF Agreed
<1> QED
  BY <1>8, <1>9, <1>11, <1>14, Zenon DEF Shape

\* A settled room agrees.
LEMMA InitAgrees == SetupInit => QInv
<1> SUFFICES ASSUME SetupInit PROVE Shape /\ \A p \in ToSet(members) : Agreed(p)
  BY DEF QInv
<1>1. /\ members = Present /\ Present \in Seq(Nicks) /\ Present # <<>> /\ IsInjective(Present)
      /\ Head(Present) = Host /\ Host \in Nicks
  BY RoomSetupAssumption DEF SetupInit
<1>2. IsSeq(Present) /\ Present[1] = Host
  <2>1. IsSeq(Present)
    BY <1>1 DEF IsSeq
  <2>2. Head(Present) = Present[1]
    BY <1>1, <2>1, SeqTails
  <2> QED
    BY <1>1, <2>1, <2>2
<1>3. ToSet(Present) \subseteq Nicks /\ Host \in ToSet(Present) /\ Len(Present) \in Nat
  <2>1. DOMAIN Present = 1..Len(Present) /\ Len(Present) \in Nat /\ ToSet(Present) = {Present[i] : i \in 1..Len(Present)}
    BY <1>2, SeqElements
  <2>2. \A i \in 1..Len(Present) : Present[i] \in Nicks
    BY <1>1
  <2>3. Len(Present) > 0
    BY <1>1, <1>2, SeqTails
  <2>4. 1 \in 1..Len(Present)
    BY <2>1, <2>3
  <2> QED
    BY <1>2, <2>1, <2>2, <2>4
<1> PICK Here : Here = ToSet(Present)
  OBVIOUS
<1>4. SetupMembers
  BY <1>1, <1>2, <1>3 DEF SetupMembers
<1>5. /\ \A p \in Nicks : inbox[p] = <<>> /\ roster[p] = (IF p \in Here THEN Present ELSE <<>>)
      /\ \A p \in Nicks : announced[p] = (IF p \in Here THEN OwnChoice(p) ELSE "?")
      /\ choices = [p \in Nicks |-> [n \in Nicks |-> IF {p, n} \subseteq Here THEN OwnChoice(n) ELSE "?"]]
      /\ tapSeen = Len(Present) /\ \A p \in Nicks : tapOn[p] = (p \in Here /\ tapSeen >= 3)
      /\ \A p \in Nicks : answering[p] = "no"
      /\ login = Logins /\ DOMAIN checks = Here \ {Host}
  BY DEF SetupInit
<1>6. SetupTables
  <2>1. DOMAIN login = Nicks
    BY <1>5, RoomSetupAssumption
  <2>2. /\ DOMAIN roster = Nicks /\ DOMAIN choices = Nicks /\ DOMAIN announced = Nicks
        /\ DOMAIN accounts = Nicks /\ DOMAIN tapOn = Nicks /\ DOMAIN answering = Nicks
    BY DEF SetupInit
  <2>3. \A p \in Nicks : choices[p] = [n \in Nicks |-> choices[p][n]]
    BY <1>5
  <2> QED
    BY <2>1, <2>2, <2>3, Zenon DEF SetupTables
<1>7. SetupLines
  <2>1. \A p : Newcomer(<<>>, p)
    BY SeqNone DEF Newcomer
  <2>2. \A p : Of(<<>>, Kinds(p))
    BY OfNone, Zenon
  <2> QED
    BY <1>5, <2>1, <2>2, Zenon DEF SetupLines
<1>8. HostTables
  <2>1. roster[Host] = Present /\ answering[Host] = "no"
    BY <1>1, <1>3, <1>5
  <2>2. tapOn[Host] = (Host \in Here /\ tapSeen >= 3)
    BY <1>1, <1>5
  <2>3. tapOn[Host] \in BOOLEAN /\ (tapOn[Host] => tapSeen >= 3)
    BY <2>2
  <2> QED
    BY <1>2, <1>5, <2>1, <2>3 DEF HostTables
<1>9. ASSUME NEW p \in ToSet(members) PROVE Agreed(p)
  <2>1. p \in Nicks /\ p \in Here
    BY <1>1, <1>3, <1>9
  <2>2. Leads(View(p), inbox[p], View(p))
    <3>1. inbox[p] = <<>>
      BY <1>5, <2>1
    <3> QED
      BY <3>1, LeadsNone
  <2>3. View(p).roster = members
    BY <1>1, <1>5, <2>1 DEF View
  <2>4. \A n \in ToSet(members) : View(p).choices[n] = announced[n]
    <3>1. ASSUME NEW n \in ToSet(members) PROVE choices[p][n] = announced[n]
      <4>1. n \in Nicks /\ n \in Here
        BY <1>1, <1>3
      <4>2. choices[p][n] = OwnChoice(n)
        BY <1>5, <2>1, <4>1
      <4> QED
        BY <1>5, <4>1, <4>2
    <3> QED
      BY <3>1 DEF View
  <2>5. p = Host \/ View(p).accounts = HostAccounts(checks)
    <3> SUFFICES ASSUME p # Host PROVE accounts[p] = HostAccounts(checks)
      BY DEF View
    <3> PICK C : C = {n \in Here : Logins[n] = "own"}
      OBVIOUS
    <3>1. accounts[p] = C
      BY <2>1 DEF SetupInit
    <3>2. {n \in DOMAIN checks : checks[n] = Confirmed} = C \ {Host}
      BY DEF SetupInit, Confirmed, NotConfirmed
    <3>3. (IF login[Host] = "none" THEN {} ELSE {Host}) = (IF Host \in C THEN {Host} ELSE {})
      BY <1>1, <1>3, <1>5, RoomSetupAssumption
    <3> QED
      BY <3>1, <3>2, <3>3 DEF HostAccounts
  <2>6. p = Host \/ View(p).tap = tapOn[Host]
    <3> SUFFICES ASSUME p # Host PROVE tapOn[p] = tapOn[Host]
      BY DEF View
    <3>1. tapOn[p] = (p \in Here /\ tapSeen >= 3) /\ tapOn[Host] = (Host \in Here /\ tapSeen >= 3)
      BY <1>1, <1>5, <2>1
    <3>2. Host \in Here
      BY <1>3
    <3> QED
      BY <2>1, <3>1, <3>2
  <2>7. Shown(p, View(p))
    BY <2>3, <2>4, <2>5, <2>6, Zenon DEF Shown
  <2> QED
    BY <2>2, <2>7, Zenon DEF Agreed
<1> QED
  BY <1>4, <1>6, <1>7, <1>8, <1>9, Zenon DEF Shape

\* A room that has begun does not come back from it.
LEMMA BegunStays == ASSUME [SetupNext]_setupVars, begun PROVE begun'
<1>1. CASE UNCHANGED setupVars
  BY <1>1, Zenon DEF setupVars
<1>2. ASSUME NEW p \in Nicks, Join(p) \/ Leave(p) \/ Answer(p) \/ Tick(p) \/ CheckTimeout(p) PROVE begun'
  BY <1>2, Zenon DEF Join, Leave, Answer, Tick, CheckTimeout
<1>3. ASSUME NEW p \in Nicks, ReadList(p) \/ ReadJoin(p) \/ ReadLeave(p) \/ ReadChoice(p) \/ ReadTap(p) PROVE begun'
  BY <1>3, Zenon DEF ReadList, ReadJoin, ReadLeave, ReadChoice, ReadTap
<1>4. ASSUME NEW p \in Nicks, ReadAccounts(p) \/ ReadAsk(p) \/ ReadAnswer(p) \/ ReadBegin(p) PROVE begun'
  BY <1>4, Zenon DEF ReadAccounts, ReadAsk, ReadAnswer, ReadBegin
<1>5. ASSUME NEW p \in Nicks, NEW c \in Wishes, Choose(p, c) PROVE begun'
  BY <1>5, Zenon DEF Choose
<1>6. ASSUME NEW v \in verifying, NEW ok \in BOOLEAN, Verdict(v, ok) PROVE begun'
  BY <1>6, Zenon DEF Verdict
<1>7. CASE ToggleTap
  BY <1>7, Zenon DEF ToggleTap
<1>8. CASE PressStart
  BY <1>8, Zenon DEF PressStart, StartGame
<1>9. CASE IsoAnswer
  BY <1>9, Zenon DEF IsoAnswer, StartGame
<1> QED
  BY <1>1, <1>2, <1>3, <1>4, <1>5, <1>6, <1>7, <1>8, <1>9, Zenon DEF SetupNext, Read

LEMMA NextAgrees == QInv /\ [SetupNext]_setupVars => QInv'
<1> SUFFICES ASSUME QInv, [SetupNext]_setupVars, ~begun' PROVE Shape' /\ \A q \in ToSet(members') : Agreed(q)'
  BY DEF QInv
<1>1. /\ ~begun /\ Shape /\ \A q \in ToSet(members) : Agreed(q)
      /\ SetupTables /\ SetupLines /\ HostTables
  BY BegunStays DEF QInv, Shape
<1>2. ASSUME UNCHANGED <<members, inbox, roster, choices, announced, accounts, tapOn, tapSeen, answering, login, checks>>
      PROVE  Shape' /\ \A q \in ToSet(members') : Agreed(q)'
  <2>1. HostAccounts(checks)' = HostAccounts(checks)
    BY <1>2 DEF HostAccounts
  <2>2. SetupTables' /\ HostTables'
    BY <1>1, <1>2 DEF SetupTables, HostTables
  <2> QED
    BY <1>1, <1>2, <2>1, <2>2, KeepsAgreed
<1>3. CASE UNCHANGED setupVars
  BY <1>2, <1>3, Zenon DEF setupVars, tableVars, loginVars, hostVars
<1>4. ASSUME NEW p \in Nicks, Read(p) PROVE Shape' /\ \A q \in ToSet(members') : Agreed(q)'
  <2>1. CASE ReadList(p)
    BY <1>1, <2>1, ReadListAgrees
  <2>2. CASE ReadJoin(p)
    BY <1>1, <2>2, ReadJoinAgrees
  <2>3. CASE ReadLeave(p)
    BY <1>1, <2>3, ReadLeaveAgrees
  <2>4. CASE ReadChoice(p)
    BY <1>1, <2>4, ReadChoiceAgrees
  <2>5. CASE ReadTap(p)
    BY <1>1, <2>5, ReadTapAgrees
  <2>6. CASE ReadAccounts(p)
    BY <1>1, <2>6, ReadAccountsAgrees
  <2>7. CASE ReadAsk(p)
    BY <1>1, <2>7, ReadAskAgrees
  <2>8. CASE ReadAnswer(p)
    BY <1>1, <2>8, ReadAnswerAgrees
  <2>9. ~ReadBegin(p)
    <3> SUFFICES ASSUME ReadBegin(p) PROVE FALSE
      OBVIOUS
    <3>1. inbox[p] # <<>> /\ Head(inbox[p]).kind = "begin"
      BY DEF ReadBegin, Reads
    <3>2. Head(inbox[p]).kind \in Kinds(p)
      BY <1>1, <3>1, HeadKind
    <3> QED
      BY <3>1, <3>2 DEF Kinds, HostKinds, GuestKinds
  <2> QED
    BY <1>4, <2>1, <2>2, <2>3, <2>4, <2>5, <2>6, <2>7, <2>8, <2>9, Zenon DEF Read
<1>5. ASSUME NEW p \in Nicks, Join(p) PROVE Shape' /\ \A q \in ToSet(members') : Agreed(q)'
  BY <1>1, <1>5, JoinAgrees
<1>6. ASSUME NEW p \in Nicks, Leave(p) PROVE Shape' /\ \A q \in ToSet(members') : Agreed(q)'
  BY <1>1, <1>6, LeaveAgrees
<1>7. ASSUME NEW p \in Nicks, Answer(p) PROVE Shape' /\ \A q \in ToSet(members') : Agreed(q)'
  BY <1>1, <1>7, AnswerAgrees
<1>8. ASSUME NEW p \in Nicks, Tick(p) PROVE Shape' /\ \A q \in ToSet(members') : Agreed(q)'
  BY <1>1, <1>8, TickAgrees
<1>9. ASSUME NEW p \in Nicks, CheckTimeout(p) PROVE Shape' /\ \A q \in ToSet(members') : Agreed(q)'
  BY <1>1, <1>9, TimeoutAgrees
<1>10. ASSUME NEW p \in Nicks, NEW c \in Wishes, Choose(p, c) PROVE Shape' /\ \A q \in ToSet(members') : Agreed(q)'
  BY <1>1, <1>10, ChooseAgrees
<1>11. ASSUME NEW v \in verifying, NEW ok \in BOOLEAN, Verdict(v, ok) PROVE Shape' /\ \A q \in ToSet(members') : Agreed(q)'
  BY <1>1, <1>11, VerdictAgrees
<1>12. CASE ToggleTap
  BY <1>1, <1>12, ToggleAgrees
<1>13. CASE PressStart
  <2>1. UsesIso
    BY <1>13, Zenon DEF PressStart, StartGame
  <2>2. inbox' = inbox
    BY <1>13, <2>1, Zenon DEF PressStart
  <2>3. UNCHANGED <<members, roster, choices, announced, accounts, tapOn, tapSeen, answering, login, checks>>
    BY <1>13, Zenon DEF PressStart, tableVars, loginVars
  <2> QED
    BY <1>2, <2>2, <2>3, Zenon
<1>14. CASE IsoAnswer
  <2>1. inbox' = inbox
    BY <1>14, Zenon DEF IsoAnswer, StartGame
  <2>2. UNCHANGED <<members, roster, choices, announced, accounts, tapOn, tapSeen, answering, login, checks>>
    BY <1>14, Zenon DEF IsoAnswer, tableVars, loginVars
  <2> QED
    BY <1>2, <2>1, <2>2, Zenon
<1> QED
  BY <1>3, <1>4, <1>5, <1>6, <1>7, <1>8, <1>9, <1>10, <1>11, <1>12, <1>13, <1>14, Zenon DEF SetupNext

\* Equal tables of the players give equal slots.
LEMMA SlotsAgree ==
  ASSUME NEW s, IsSeq(s), s # <<>>, NEW t, NEW u, \A n \in ToSet(s) : t[n] = u[n], NEW a
  PROVE  GameSlots(s, t, a) = GameSlots(s, u, a)
<1>1. DOMAIN s = 1..Len(s) /\ Len(s) \in Nat /\ ToSet(s) = {s[i] : i \in 1..Len(s)}
  BY SeqElements
<1>2. Len(s) > 0
  BY SeqTails
<1>3. \A i \in DOMAIN s : t[s[i]] = u[s[i]]
  BY <1>1
<1>4. 1 \in DOMAIN s /\ (2 <= Len(s) => 2 \in DOMAIN s) /\ 1 <= Len(s)
  BY <1>1, <1>2
<1>5. (\E i \in DOMAIN s : t[s[i]] = "?") <=> (\E i \in DOMAIN s : u[s[i]] = "?")
  BY <1>3, Zenon
<1>6. t[s[1]] = u[s[1]] /\ t[s[IF 2 <= Len(s) THEN 2 ELSE 1]] = u[s[IF 2 <= Len(s) THEN 2 ELSE 1]]
  BY <1>3, <1>4, Zenon
<1>7. s[IF 1 <= Len(s) THEN 1 ELSE 1] = s[1]
  BY <1>4, Zenon
<1> QED
  BY <1>4, <1>5, <1>6, <1>7, Zenon DEF GameSlots

\* Once the chat has settled, every PC of the room would work out the same slots, in the same order of
\* players, and has the multitap as the host has it: whoever came, left or came back, whatever they
\* changed or lost in the meantime (kaillera_ui.cpp:1938-2063).
THEOREM SpecQuietRoomAgrees == SetupSpec => []QuietRoomAgrees
<1>1. QInv => QuietRoomAgrees
  <2> SUFFICES ASSUME QInv, Quiet, NEW p \in ToSet(members)
               PROVE  roster[p] = members /\ SlotsOf(p) = SlotsOf(Host) /\ tapOn[p] = tapOn[Host]
    BY DEF QuietRoomAgrees
  <2>1. Shape /\ SetupMembers /\ HostTables /\ (\A q \in ToSet(members) : Agreed(q)) /\ Host \in ToSet(members)
    BY DEF QInv, Quiet, Shape, SetupMembers
  <2>2. ASSUME NEW q \in ToSet(members)
        PROVE  Shown(q, View(q))
    <3>1. PICK w : Leads(View(q), inbox[q], w) /\ Shown(q, w)
      BY <2>1 DEF Agreed
    <3>2. inbox[q] = <<>>
      BY <2>1 DEF Quiet, SetupMembers
    <3>3. w = View(q)
      <4>1. PICK f : f[0] = View(q) /\ f[Len(<<>>)] = w
        BY <3>1, <3>2, Zenon DEF Leads
      <4>2. Len(<<>>) = 0
        BY SeqNone
      <4> QED
        BY <4>1, <4>2, Zenon
    <3> QED
      BY <3>1, <3>3
  <2>3. ASSUME NEW q \in ToSet(members), NEW who PROVE ~Tells(inbox[q], who)
    <3>1. inbox[q] = <<>>
      BY <2>1 DEF Quiet, SetupMembers
    <3> QED
      BY <3>1, SeqNone DEF Tells
  <2>4. ASSUME NEW q \in ToSet(members)
        PROVE  /\ roster[q] = members /\ \A n \in ToSet(members) : choices[q][n] = announced[n]
               /\ CurrentAccounts(q) = HostAccounts(checks)
               /\ q = Host \/ tapOn[q] = tapOn[Host] \/ (Len(members) < 3 /\ tapOn[Host])
    <3>1. /\ View(q).roster = roster[q] /\ View(q).choices = choices[q]
          /\ q # Host => View(q).accounts = accounts[q] /\ View(q).tap = tapOn[q]
      BY DEF View
    <3>2. Shown(q, View(q))
      BY <2>2
    <3>3. roster[q] = members
      BY <3>1, <3>2, Zenon DEF Shown
    <3>4. \A n \in ToSet(members) : choices[q][n] = announced[n]
      BY <2>3, <3>1, <3>2, Zenon DEF Shown
    <3>5. q = Host \/ accounts[q] = HostAccounts(checks)
      BY <2>1, <2>3, <3>1, <3>2, Zenon DEF Shown
    <3>6. q = Host \/ tapOn[q] = tapOn[Host] \/ (Len(members) < 3 /\ tapOn[Host])
      BY <2>1, <2>3, <3>1, <3>2, Zenon DEF Shown
    <3>7. CurrentAccounts(q) = HostAccounts(checks)
      BY <3>5 DEF CurrentAccounts
    <3> QED
      BY <3>3, <3>4, <3>6, <3>7
  <2>5. roster[p] = members /\ roster[Host] = members
    BY <2>1, <2>4
  <2>6. SlotsOf(p) = SlotsOf(Host)
    <3>1. \A n \in ToSet(members) : choices[p][n] = choices[Host][n]
      BY <2>1, <2>4
    <3>2. IsSeq(members) /\ members # <<>>
      <4>1. IsSeq(members)
        BY <2>1 DEF SetupMembers
      <4>2. ToSet(<<>>) = {}
        BY DEF ToSet
      <4> QED
        BY <2>1, <4>1, <4>2
    <3> PICK a : a = HostAccounts(checks)
      OBVIOUS
    <3>3. GameSlots(members, choices[p], a) = GameSlots(members, choices[Host], a)
      BY <3>1, <3>2, SlotsAgree
    <3>4. CurrentAccounts(p) = a /\ CurrentAccounts(Host) = a
      BY <2>1, <2>4
    <3> QED
      BY <2>5, <3>3, <3>4, Zenon DEF SlotsOf
  <2>7. tapOn[p] = tapOn[Host]
    <3>1. PICK k \in Nat : k = Len(members)
      BY <2>1, SeqLength DEF SetupMembers
    <3>2. tapOn[Host] => k >= 3
      BY <2>1, <2>5, <3>1, Zenon DEF HostTables
    <3>3. ~(Len(members) < 3 /\ tapOn[Host])
      <4>1. ~(k < 3 /\ k >= 3)
        OBVIOUS
      <4> QED
        BY <3>1, <3>2, <4>1, Zenon
    <3> QED
      BY <2>4, <3>3, Zenon
  <2> QED
    BY <2>5, <2>6, <2>7
<1> QED
  BY <1>1, InitAgrees, NextAgrees, PTL DEF SetupSpec
=============================================================================
