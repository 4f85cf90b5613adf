------------------------------ MODULE RoomProofs ------------------------------
(***************************************************************************)
(* Proofs that the window follows the server through joins, leaves, kicks, *)
(* starts and closing rooms that cross, for any number of users, ids,      *)
(* requests and lost messages.  The argument: a user's inbox is an order   *)
(* of a few messages that concern it, and what it will show after it has   *)
(* read them is what the server has (RInv).  Into a room it is taken by    *)
(* GAMEMAKE (if it created it), GAMRSLST and its own GAMRJOIN, which stand *)
(* together; out of it by its own GAMRLEAV or by the room's GAMESHUT,      *)
(* which stand behind.  It is in a room only if it shows it or these are   *)
(* still to come, and its own GAMRLEAV is in the inbox only if it asked    *)
(* for it or was kicked.                                                   *)
(*                                                                         *)
(* A user's id belongs to its connection (IdInv): each message of somebody *)
(* connected has the id that one has now, and user_id is that id once it   *)
(* was learned.  For who was misled by a stale user_id only the facts of   *)
(* login and ids go on to hold (Clear, ViewInv).                           *)
(*                                                                         *)
(* Each action of the server's has a lemma for the user that asks and      *)
(* shares Hears for those that are told; each message read has a lemma.    *)
(***************************************************************************)
EXTENDS RoomProps, SequenceTheorems, FiniteSetTheorems, TLAPS
-----------------------------------------------------------------------------
\* The messages, and which of them stand where in u's inbox: the creation of its room, the list of
\* players, its own join, its own leave, the start of the game, a request refused, a room closed.
Messages == [kind : {"LONGSUCC", "USERJOIN", "USERLEAV", "GAMEMAKE", "GAMRSLST", "GAMRJOIN", "GAMRLEAV", "GAMRDROP",
                     "GAMEBEGN", "GAMESHUT", "refused"}, who : Users, game : Nat, id : Nat]
Own(u, i, kind) == mail[u][i].kind = kind /\ mail[u][i].who = u
Made(u, i) == Own(u, i, "GAMEMAKE")
Listed(u, i) == mail[u][i].kind = "GAMRSLST"
Joined(u, i) == Own(u, i, "GAMRJOIN")
Left(u, i) == Own(u, i, "GAMRLEAV")
Begun(u, i) == mail[u][i].kind = "GAMEBEGN"
Denied(u, i) == Own(u, i, "refused")
Closed(u, i, g) == mail[u][i].kind = "GAMESHUT" /\ mail[u][i].game = g
At(u) == DOMAIN mail[u]
Entering(u) == \E i \in At(u) : Joined(u, i)

\* What the variables hold.
TypeInv ==
  /\ connected \subseteq Users /\ playing \subseteq Users
  /\ roomOf \in [Users -> Nat]
  /\ mail \in [Users -> Seq(Messages)]
  /\ playerstat \in [Users -> {-1, 0, 1}] /\ userstat \in [Users -> 0 .. 3]
  /\ isOwner \in [Users -> BOOLEAN] /\ gameIdRequested \in [Users -> BOOLEAN] /\ userIdRequested \in [Users -> BOOLEAN]
  /\ leaveRequested \in [Users -> BOOLEAN] /\ hosting \in [Users -> BOOLEAN] /\ toldKicked \in [Users -> BOOLEAN]
  /\ userId \in [Users -> Nat] /\ idOf \in [Users -> Nat] /\ \A u, v \in connected : idOf[u] = idOf[v] => u = v
  /\ belief \in [Users -> {"stale", "own", "misled"}]
  /\ gameId \in [Users -> Nat]
  /\ page \in [Users -> {"lobby", "room"}]
  /\ skips \in 0 .. MaxSkips
  /\ awaiting \in [Users -> {"none", "USERJOIN", "GAMRJOIN", "GAMRLEAV", "refused"}]

\* The ids handed out, and rooms
KnownInv ==
  /\ \E n \in 0 .. Len(Games) : Known = {Games[i] : i \in 1 .. n} /\ Cardinality(Known) = n
  /\ \A g \in Known : ownerOf[g] \in Users
\* who is in a room is connected, so is the room's owner, and only who is in one plays
RoomsInv ==
  \A u \in Users :
    /\ roomOf[u] # 0 => roomOf[u] \in Known /\ u \in connected
    /\ roomOf[u] # 0 => roomOf[ownerOf[roomOf[u]]] = roomOf[u]
    /\ u \in playing => roomOf[u] # 0
\* a room that was closed is empty
Shuts(u) == \A i \in At(u) : mail[u][i].kind = "GAMESHUT" => mail[u][i].game \in Known /\ In(mail[u][i].game) = {}
ShutInv == \A u \in Users : Shuts(u)

\* Nothing is sent to who is not connected.
Away(u) ==
  u \notin connected =>
    /\ mail[u] = <<>> /\ roomOf[u] = 0 /\ userstat[u] = 0 /\ page[u] = "lobby" /\ awaiting[u] = "none" 
    /\ ~gameIdRequested[u] /\ ~userIdRequested[u] /\ belief[u] = "stale"
\* An id that was learned is the own one, and so is that of a message about u and of no other.
IdOk(u, m) == m.kind \in {"GAMRJOIN", "GAMRLEAV"} => (m.id = idOf[u] <=> m.who = u)
IdInv(u) == (belief[u] = "own" => userId[u] = idOf[u]) /\ \A i \in At(u) : IdOk(u, mail[u][i])
\* Both messages of the login are still to come, or one if the other was lost.
LoginInv(u) ==
  u \in connected =>
    /\ userstat[u] # 0
    /\ userstat[u] = 1 /\ MaxSkips <= 1 =>
        /\ awaiting[u] = "USERJOIN"
        /\ \/ Len(mail[u]) >= 2 /\ mail[u][1].kind = "LONGSUCC" /\ Own(u, 2, "USERJOIN")
           \/ Len(mail[u]) >= 1 /\ Own(u, 1, "USERJOIN") /\ skips >= 1
\* The order of what u has not read.  Into a room it is taken by GAMEMAKE when it creates it, GAMRSLST and
\* its own GAMRJOIN; out of it by its own GAMRLEAV or by GAMESHUT.
OneEach(u) ==
  /\ \A i, j \in At(u) : Joined(u, i) /\ Joined(u, j) => i = j
  /\ \A i, k \in At(u) : Left(u, i) /\ Left(u, k) => i = k
  /\ \A i, k \in At(u) : Denied(u, i) /\ Denied(u, k) => i = k
EntryOrder(u) ==
  /\ \A i \in At(u) : Listed(u, i) => i + 1 \in At(u) /\ Joined(u, i + 1) /\ mail[u][i + 1].game = mail[u][i].game
  /\ \A i \in At(u) : Made(u, i) => i + 1 \in At(u) /\ Listed(u, i + 1) /\ mail[u][i + 1].game = mail[u][i].game
  /\ \A j \in At(u) : Joined(u, j) => j = 1 \/ Listed(u, j - 1)
AfterEntry(u) ==
  /\ \A i, j \in At(u) : Joined(u, j) /\ (Left(u, i) \/ Begun(u, i) \/ Closed(u, i, mail[u][j].game)) => j < i
  /\ \A i, k \in At(u) : Begun(u, i) /\ Left(u, k) => i < k
MailInv(u) == OneEach(u) /\ EntryOrder(u) /\ AfterEntry(u)

\* What is awaited is on its way.
AwaitInv(u) ==
  /\ awaiting[u] = "GAMRJOIN" <=> Entering(u)
  /\ awaiting[u] = "refused" <=> \E k \in At(u) : Denied(u, k)
  /\ awaiting[u] = "GAMRLEAV" => \E k \in At(u) : Left(u, k)
  /\ gameIdRequested[u] <=> \E i \in At(u) : Made(u, i)

\* What u knows of the room it is about to enter.
Enters(u, j, g) ==
  /\ g \in Known /\ (ownerOf[g] = u => roomOf[u] = g) /\ (roomOf[u] # 0 => roomOf[u] = g)
  /\ isOwner[u] <=> ownerOf[g] = u
  /\ gameIdRequested[u] => ownerOf[g] = u
  /\ ~gameIdRequested[u] => gameId[u] = g /\ (ownerOf[g] = u => page[u] = "room" /\ hosting[u])
  /\ j = 1 => page[u] = "room" /\ (hosting[u] <=> ownerOf[g] = u)
EntryRoom(u) == \A j \in At(u) : Joined(u, j) => Enters(u, j, mail[u][j].game)
LearnsId(u) ==
  userIdRequested[u] => /\ \E j \in At(u) : Joined(u, j) /\ ownerOf[mail[u][j].game] = u /\ ~gameIdRequested[u]
                        /\ Joined(u, 1) \/ (Listed(u, 1) /\ Joined(u, 2))
EntryInv(u) == EntryRoom(u) /\ LearnsId(u)

\* In a room: it is on its page, or on the way there.
InRoomInv(u) ==
  roomOf[u] # 0 =>
    /\ awaiting[u] \notin {"GAMRLEAV", "refused"}
    /\ \A i \in At(u) : ~Left(u, i)
    /\ ~Entering(u) => page[u] = "room" /\ gameId[u] = roomOf[u] /\ (hosting[u] <=> ownerOf[roomOf[u]] = u)
    /\ ownerOf[roomOf[u]] # u => ~leaveRequested[u]
PlayInv(u) ==
  roomOf[u] # 0 =>
    /\ \A i \in At(u) : Begun(u, i) => u \in playing /\ ~leaveRequested[u] /\ playerstat[u] # 1
    /\ \A i, k \in At(u) : Begun(u, i) /\ Begun(u, k) => i = k
    /\ playerstat[u] = 1 => u \in playing
\* Out of it, and still to hear of that.
OutInv(u) ==
  roomOf[u] = 0 /\ (page[u] = "room" \/ Entering(u)) =>
    \/ \E i \in At(u) : Closed(u, i, gameId[u])
    \/ (\E i \in At(u) : Left(u, i)) /\ userId[u] = idOf[u] /\ ~leaveRequested[u]
    \/ u \in kicked /\ userId[u] # idOf[u]
\* The lobby has no owner's buttons and no game.
WindowInv(u) ==
  page[u] = "lobby" => ~hosting[u] /\ playerstat[u] # 1
\* What was sent before the answer to its leaving.
Behind(u, i) == leaveRequested[u] /\ \E k \in At(u) : k >= i /\ (Denied(u, k) \/ (Left(u, k) /\ awaiting[u] = "GAMRLEAV"))
OrderInv(u) ==
  /\ \A i \in At(u) : Left(u, i) \/ Begun(u, i) => page[u] = "room" \/ Entering(u) \/ Behind(u, i)
  /\ ~gameIdRequested[u] => \A i, k \in At(u) : Closed(u, i, gameId[u]) /\ (Left(u, k) \/ Begun(u, k)) => k < i \/ Behind(u, k)
\* Its own leave is on its way if it asked for it, or was kicked.
KickInv(u) ==
  /\ \A i \in At(u) : Left(u, i) => u \in kicked \/ (leaveRequested[u] /\ awaiting[u] = "GAMRLEAV")
  /\ awaiting[u] \in {"GAMRLEAV", "refused"} => page[u] = "lobby"
  /\ toldKicked[u] => u \in kicked
\* All that concerns u, and everybody: a user that a stale id misled keeps its login and what is said of the ids.
Clear(u) == belief[u] # "misled"
ViewInv(u) == /\ MailInv(u) /\ AwaitInv(u) /\ EntryInv(u) /\ InRoomInv(u) /\ PlayInv(u) /\ OutInv(u) /\ WindowInv(u)
              /\ OrderInv(u) /\ KickInv(u)
UInv(u) == Away(u) /\ LoginInv(u) /\ IdInv(u) /\ (Clear(u) => ViewInv(u))
RInv == TypeInv /\ KnownInv /\ RoomsInv /\ ShutInv /\ \A u \in Users : UInv(u)

\* What is sent goes behind what was not read.
LEMMA Appended ==
  ASSUME NEW m \in Seq(Messages), NEW s \in Seq(Messages)
  PROVE  /\ m \o s \in Seq(Messages)
         /\ \A i \in DOMAIN m : i \in DOMAIN (m \o s) /\ (m \o s)[i] = m[i]
         /\ \A i \in DOMAIN s : i + Len(m) \in DOMAIN (m \o s) /\ (m \o s)[i + Len(m)] = s[i]
         /\ \A i \in DOMAIN (m \o s) : \/ i \in DOMAIN m
                                       \/ /\ i - Len(m) \in DOMAIN s /\ (m \o s)[i] = s[i - Len(m)]
                                          /\ \A k \in DOMAIN m : k < i
         /\ DOMAIN m \subseteq Nat /\ DOMAIN (m \o s) \subseteq Nat
<1> QED
  BY LenProperties, ConcatProperties

\* The first of what was not read.
LEMMA Popped ==
  ASSUME NEW m \in Seq(Messages), m # <<>>
  PROVE  /\ Tail(m) \in Seq(Messages) /\ 1 \in DOMAIN m /\ Head(m) = m[1] /\ DOMAIN m \subseteq Nat /\ m[1] \in Messages
         /\ \A i \in DOMAIN Tail(m) : i + 1 \in DOMAIN m /\ Tail(m)[i] = m[i + 1] /\ i \in Nat /\ i > 0 /\ i \in DOMAIN m
         /\ \A i \in DOMAIN m : i = 1 \/ (i > 1 /\ i - 1 \in DOMAIN Tail(m) /\ Tail(m)[i - 1] = m[i])
<1> QED
  BY LenProperties, HeadTailProperties

\* Nothing of u but its mail changes.
Local(u) ==
  /\ userstat'[u] = userstat[u] /\ playerstat'[u] = playerstat[u] /\ isOwner'[u] = isOwner[u]
  /\ gameIdRequested'[u] = gameIdRequested[u] /\ gameId'[u] = gameId[u] /\ userIdRequested'[u] = userIdRequested[u]
  /\ leaveRequested'[u] = leaveRequested[u] /\ userId'[u] = userId[u] /\ page'[u] = page[u] /\ hosting'[u] = hosting[u]
  /\ awaiting'[u] = awaiting[u] /\ toldKicked'[u] = toldKicked[u] /\ idOf'[u] = idOf[u] /\ belief'[u] = belief[u]

\* Messages about somebody else, who has another id.
Foreign(u, m) == \/ m.kind \in {"USERJOIN", "USERLEAV", "GAMRDROP"}
                 \/ m.kind = "GAMEMAKE" /\ m.who # u
                 \/ m.kind \in {"GAMRJOIN", "GAMRLEAV"} /\ m.who # u /\ (u \in connected => m.id # idOf[u])

\* What a user hears of others tells it no id of its own, and its login stays.
LEMMA HearsIds ==
  ASSUME TypeInv, NEW w \in Users, NEW s \in Seq(Messages), mail'[w] = mail[w] \o s, IdInv(w),
         idOf'[w] = idOf[w], userId'[w] = userId[w], belief'[w] = belief[w], \A i \in DOMAIN s : IdOk(w, s[i])
  PROVE  IdInv(w)'
<1>1. mail[w] \in Seq(Messages)
  BY DEF TypeInv
<1>2. /\ \A i \in At(w) : mail'[w][i] = mail[w][i]
      /\ \A i \in At(w)' : i \in At(w) \/ \E k \in DOMAIN s : mail'[w][i] = s[k]
  BY <1>1, Appended DEF At
<1>3. ASSUME NEW i \in At(w)' PROVE IdOk(w, mail'[w][i])
  BY <1>2 DEF IdInv
<1> QED
  BY <1>3 DEF IdInv, IdOk

LEMMA HearsLogin ==
  ASSUME RInv, NEW w \in Users, NEW s \in Seq(Messages), Local(w), mail'[w] = mail[w] \o s,
         w \notin connected => s = <<>>,
         \A i \in DOMAIN s : Foreign(w, s[i]) \/ s[i].kind = "GAMESHUT",
         w \in connected' <=> w \in connected, skips >= 1 => skips' >= 1, w \in kicked => w \in kicked',
         \A g \in Known : g \in Known' /\ ownerOf'[g] = ownerOf[g],
         roomOf'[w] = roomOf[w] \/ (/\ roomOf'[w] = 0 /\ ownerOf[roomOf[w]] # w
                                    /\ \E i \in DOMAIN s : s[i].kind = "GAMESHUT" /\ s[i].game = roomOf[w]),
         roomOf'[w] # 0 => (w \in playing' <=> w \in playing)
  PROVE  Away(w)' /\ LoginInv(w)' /\ IdInv(w)'
<1>1. Away(w) /\ LoginInv(w) /\ IdInv(w) /\ TypeInv /\ mail[w] \in Seq(Messages)
  BY DEF RInv, UInv, TypeInv
<1>2. \A i \in At(w) : mail'[w][i] = mail[w][i]
  BY <1>1, Appended DEF At
<1>3. Away(w)'
  <2>1. w \notin connected => mail'[w] = <<>> /\ roomOf'[w] = 0
    BY <1>1, EmptySeq, ConcatEmptySeq DEF Away
  <2> QED
    BY <1>1, <2>1 DEF Away, Local
<1>4. LoginInv(w)'
  <2>1. ASSUME NEW k \in Nat, Len(mail[w]) >= k PROVE Len(mail'[w]) >= k
    BY <1>1, <2>1, LenProperties, ConcatProperties
  <2>2. Len(mail[w]) >= 1 => 1 \in At(w)
    BY <1>1, LenProperties DEF At
  <2>3. Len(mail[w]) >= 2 => 2 \in At(w)
    BY <1>1, LenProperties DEF At
  <2> QED
    BY <1>1, <1>2, <2>1, <2>2, <2>3 DEF LoginInv, Local, Own
<1>5. IdInv(w)'
  <2>1. CASE w \in connected
    <3>1. \A i \in DOMAIN s : IdOk(w, s[i])
      BY <2>1 DEF IdOk, Foreign
    <3> QED
      BY <1>1, <3>1, HearsIds DEF Local
  <2>2. CASE w \notin connected
    <3>1. \A i \in DOMAIN s : IdOk(w, s[i])
      BY <2>2
    <3> QED
      BY <1>1, <3>1, HearsIds DEF Local
  <2> QED
    BY <2>1, <2>2
<1> QED
  BY <1>3, <1>4, <1>5

\* A user that no id misled sees what others do, also that its room was closed.
LEMMA HearsView ==
  ASSUME RInv, NEW w \in Users, NEW s \in Seq(Messages), Local(w), mail'[w] = mail[w] \o s,
         w \notin connected => s = <<>>,
         \A i \in DOMAIN s : Foreign(w, s[i]) \/ s[i].kind = "GAMESHUT",
         w \in connected' <=> w \in connected, skips >= 1 => skips' >= 1, w \in kicked => w \in kicked',
         \A g \in Known : g \in Known' /\ ownerOf'[g] = ownerOf[g],
         roomOf'[w] = roomOf[w] \/ (/\ roomOf'[w] = 0 /\ ownerOf[roomOf[w]] # w
                                    /\ \E i \in DOMAIN s : s[i].kind = "GAMESHUT" /\ s[i].game = roomOf[w]),
         roomOf'[w] # 0 => (w \in playing' <=> w \in playing), Clear(w)
  PROVE  ViewInv(w)'
<1>1. /\ MailInv(w) /\ AwaitInv(w) /\ EntryInv(w) /\ InRoomInv(w) /\ OutInv(w) /\ WindowInv(w) /\ OrderInv(w) /\ KickInv(w)
      /\ PlayInv(w) /\ mail[w] \in Seq(Messages) /\ (roomOf[w] # 0 => roomOf[w] \in Known) /\ At(w) \subseteq Nat
  <2>1. mail[w] \in Seq(Messages)
    BY DEF RInv, TypeInv
  <2>2. At(w) \subseteq Nat
    BY <2>1, LenProperties DEF At
  <2> QED
    BY <2>1, <2>2 DEF RInv, UInv, ViewInv, RoomsInv
<1>2. PICK n \in Nat : n = Len(mail[w])
  BY <1>1, LenProperties
<1>3. /\ \A i \in At(w) : i \in At(w)' /\ mail'[w][i] = mail[w][i]
      /\ \A i \in At(w)' : \/ i \in At(w)
                           \/ /\ Foreign(w, mail'[w][i]) \/ mail'[w][i].kind = "GAMESHUT"
                              /\ \A k \in At(w) : k < i
      /\ \A i \in DOMAIN s : i + n \in At(w)' /\ mail'[w][i + n] = s[i]
      /\ At(w) \subseteq Nat /\ At(w)' \subseteq Nat
  BY <1>1, <1>2, Appended DEF At
<1>4. \A i \in At(w)' : /\ Made(w, i)' => i \in At(w) /\ Made(w, i)
                        /\ Listed(w, i)' => i \in At(w) /\ Listed(w, i)
                        /\ Joined(w, i)' => i \in At(w) /\ Joined(w, i)
                        /\ Left(w, i)' => i \in At(w) /\ Left(w, i)
                        /\ Begun(w, i)' => i \in At(w) /\ Begun(w, i)
                        /\ Denied(w, i)' => i \in At(w) /\ Denied(w, i)
                        /\ \A g : Closed(w, i, g)' => (i \in At(w) /\ Closed(w, i, g)) \/ \A k \in At(w) : k < i
  BY <1>3 DEF Foreign, Own, Made, Listed, Joined, Left, Begun, Denied, Closed
<1>5. \A i \in At(w) : /\ i \in At(w)' /\ mail'[w][i] = mail[w][i]
                       /\ (Made(w, i) <=> Made(w, i)') /\ (Listed(w, i) <=> Listed(w, i)') /\ (Joined(w, i) <=> Joined(w, i)')
                       /\ (Left(w, i) <=> Left(w, i)') /\ (Begun(w, i) <=> Begun(w, i)') /\ (Denied(w, i) <=> Denied(w, i)')
                       /\ \A g : Closed(w, i, g) <=> Closed(w, i, g)'
  BY <1>3 DEF Own, Made, Listed, Joined, Left, Begun, Denied, Closed
<1>6. Entering(w)' <=> Entering(w)
  BY <1>4, <1>5 DEF Entering
<1>7. MailInv(w)'
  <2>1. OneEach(w)'
    BY <1>1, <1>4 DEF MailInv, OneEach
  <2>2. EntryOrder(w)'
    <3>1. \A j \in At(w) : Joined(w, j) => j = 1 \/ (Listed(w, j - 1) /\ j - 1 \in At(w))
      BY <1>1, LenProperties DEF MailInv, EntryOrder, At
    <3>2. \A j \in At(w)' : Joined(w, j)' => j = 1 \/ Listed(w, j - 1)'
      BY <1>4, <1>5, <3>1
    <3>3. \A i \in At(w)' : Listed(w, i)' => i + 1 \in At(w)' /\ Joined(w, i + 1)' /\ mail'[w][i + 1].game = mail'[w][i].game
      BY <1>1, <1>4, <1>5 DEF MailInv, EntryOrder
    <3>4. \A i \in At(w)' : Made(w, i)' => i + 1 \in At(w)' /\ Listed(w, i + 1)' /\ mail'[w][i + 1].game = mail'[w][i].game
      BY <1>1, <1>4, <1>5 DEF MailInv, EntryOrder
    <3> QED
      BY <3>2, <3>3, <3>4 DEF EntryOrder
  <2>3. AfterEntry(w)'
    BY <1>1, <1>4, <1>5 DEF MailInv, AfterEntry
  <2> QED
    BY <2>1, <2>2, <2>3 DEF MailInv
<1>8. AwaitInv(w)'
  BY <1>1, <1>4, <1>5, <1>6 DEF AwaitInv, Local
<1>9. EntryInv(w)'
  <2>1. EntryRoom(w)'
    <3>1. ASSUME NEW j \in At(w), NEW g, Enters(w, j, g) PROVE Enters(w, j, g)'
      BY <1>1, <3>1 DEF Enters, Local
    <3>2. \A j \in At(w)' : Joined(w, j)' => j \in At(w) /\ Joined(w, j) /\ mail'[w][j].game = mail[w][j].game
      BY <1>4, <1>5
    <3> QED
      BY <1>1, <3>1, <3>2 DEF EntryInv, EntryRoom
  <2>2. LearnsId(w)'
    <3> SUFFICES ASSUME userIdRequested[w]
                 PROVE  LearnsId(w)'
      BY DEF LearnsId, Local
    <3>1. PICK j \in At(w) : Joined(w, j) /\ ownerOf[mail[w][j].game] = w /\ ~gameIdRequested[w]
      BY <1>1 DEF EntryInv, LearnsId
    <3>2. mail[w][j].game \in Known
      BY <1>1, <3>1 DEF EntryInv, EntryRoom, Enters
    <3>3. ownerOf'[mail'[w][j].game] = w
      BY <1>5, <3>1, <3>2
    <3>4. Joined(w, 1) \/ (Listed(w, 1) /\ Joined(w, 2))
      BY <1>1 DEF EntryInv, LearnsId
    <3>5. 1 \in At(w) /\ (Joined(w, 1) \/ (Listed(w, 1) /\ Joined(w, 2) /\ 2 \in At(w)))
      <4>1. Len(mail[w]) >= 1
        BY <1>1, <3>1, LenProperties DEF At
      <4>2. 1 \in At(w)
        BY <1>1, <4>1, LenProperties DEF At
      <4> QED
        BY <1>1, <3>4, <4>2 DEF MailInv, EntryOrder
    <3> QED
      BY <1>5, <3>1, <3>3, <3>5 DEF LearnsId, Local
  <2> QED
    BY <2>1, <2>2 DEF EntryInv
<1>10. InRoomInv(w)'
  BY <1>1, <1>4, <1>5, <1>6 DEF InRoomInv, Local
<1>11. PlayInv(w)'
  BY <1>1, <1>4, <1>5, <1>6 DEF PlayInv, Local
<1>12. OutInv(w)'
  <2>1. CASE roomOf'[w] = roomOf[w]
    BY <1>1, <1>5, <1>6, <2>1 DEF OutInv, Local
  <2>2. CASE roomOf'[w] # roomOf[w] /\ (page[w] = "room" \/ Entering(w))
    <3>1. gameId[w] = roomOf[w]
      BY <1>1, <2>2 DEF InRoomInv, EntryInv, EntryRoom, Enters, Entering
    <3>2. PICK i \in DOMAIN s : s[i].kind = "GAMESHUT" /\ s[i].game = roomOf[w]
      BY <2>2
    <3>3. i + n \in At(w)' /\ Closed(w, i + n, gameId[w])'
      BY <1>3, <3>1, <3>2 DEF Closed, Local
    <3> QED
      BY <3>3 DEF OutInv, Local
  <2> QED
    BY <1>6, <2>1, <2>2 DEF OutInv, Local
<1>13. WindowInv(w)'
  BY <1>1 DEF WindowInv, Local
<1>14. OrderInv(w)'
  <2>1. \A i \in At(w) : Behind(w, i) => Behind(w, i)'
    BY <1>5 DEF Behind, Local
  <2> QED
    BY <1>1, <1>4, <1>5, <1>6, <2>1 DEF OrderInv, Local
<1>15. KickInv(w)'
  BY <1>1, <1>3, <1>4, <1>5, <1>6 DEF KickInv, Local
<1> QED
  BY <1>7, <1>10, <1>12, <1>13, <1>14, <1>15, <1>11, <1>8, <1>9 DEF ViewInv

\* A user hears of what others do.
LEMMA Hears ==
  ASSUME RInv, NEW w \in Users, NEW s \in Seq(Messages), Local(w), mail'[w] = mail[w] \o s,
         w \notin connected => s = <<>>,
         \A i \in DOMAIN s : Foreign(w, s[i]) \/ s[i].kind = "GAMESHUT",
         w \in connected' <=> w \in connected, skips >= 1 => skips' >= 1, w \in kicked => w \in kicked',
         \A g \in Known : g \in Known' /\ ownerOf'[g] = ownerOf[g],
         roomOf'[w] = roomOf[w] \/ (/\ roomOf'[w] = 0 /\ ownerOf[roomOf[w]] # w
                                    /\ \E i \in DOMAIN s : s[i].kind = "GAMESHUT" /\ s[i].game = roomOf[w]),
         roomOf'[w] # 0 => (w \in playing' <=> w \in playing)
  PROVE  UInv(w)'
<1>1. Away(w)' /\ LoginInv(w)' /\ IdInv(w)'
  BY HearsLogin
<1>2. Clear(w)' => Clear(w)
  BY DEF Clear, Local
<1>3. Clear(w) => ViewInv(w)'
  <2> SUFFICES ASSUME Clear(w) PROVE ViewInv(w)'
    OBVIOUS
  <2> QED
    BY HearsView
<1> QED
  BY <1>1, <1>2, <1>3 DEF UInv

\* A game's id is not 0.
LEMMA KnownIds == ASSUME KnownInv PROVE \A g \in Known : g \in Nat /\ g # 0 /\ ownerOf[g] \in Users
<1>1. PICK n \in 0 .. Len(Games) : Known = {Games[i] : i \in 1 .. n}
  BY DEF KnownInv
<1>2. \A i \in 1 .. Len(Games) : Games[i] \in Nat \ {0}
  BY RoomAssumption, ElementOfSeq
<1>3. Len(Games) \in Nat
  BY RoomAssumption, LenProperties
<1> QED
  BY <1>1, <1>2, <1>3 DEF KnownInv

\* Who reads a message has the others before it.
LEMMA Shifts ==
  ASSUME TypeInv, NEW w \in Users, mail[w] # <<>>, mail'[w] = Tail(mail[w])
  PROVE  /\ 1 \in At(w) /\ Next1(w) = mail[w][1] /\ mail[w] \in Seq(Messages) /\ mail[w][1] \in Messages
         /\ mail'[w] \in Seq(Messages)
         /\ \A i \in At(w) : i \in Nat /\ i > 0
         /\ \A i \in At(w)' : /\ i \in Nat /\ i > 0 /\ i + 1 \in At(w) /\ mail'[w][i] = mail[w][i + 1] /\ i \in At(w)
                              /\ (Made(w, i)' <=> Made(w, i + 1)) /\ (Listed(w, i)' <=> Listed(w, i + 1)) /\ (Joined(w, i)' <=> Joined(w, i + 1))
                              /\ (Left(w, i)' <=> Left(w, i + 1)) /\ (Begun(w, i)' <=> Begun(w, i + 1)) /\ (Denied(w, i)' <=> Denied(w, i + 1))
                              /\ \A g : Closed(w, i, g)' <=> Closed(w, i + 1, g)
         /\ \A i \in At(w) : i = 1 \/ /\ i > 1 /\ i - 1 \in At(w)' /\ mail'[w][i - 1] = mail[w][i]
                                      /\ (Made(w, i - 1)' <=> Made(w, i)) /\ (Listed(w, i - 1)' <=> Listed(w, i)) /\ (Joined(w, i - 1)' <=> Joined(w, i))
                                      /\ (Left(w, i - 1)' <=> Left(w, i)) /\ (Begun(w, i - 1)' <=> Begun(w, i)) /\ (Denied(w, i - 1)' <=> Denied(w, i))
                                      /\ \A g : Closed(w, i - 1, g)' <=> Closed(w, i, g)
<1>1. mail[w] \in Seq(Messages)
  BY DEF TypeInv
<1>2. /\ 1 \in At(w) /\ Next1(w) = mail[w][1] /\ mail[w][1] \in Messages /\ mail'[w] \in Seq(Messages)
      /\ \A i \in At(w) : i \in Nat /\ i > 0
  BY <1>1, Popped, LenProperties DEF At, Next1
<1>3. \A i \in At(w)' : i \in Nat /\ i > 0 /\ i + 1 \in At(w) /\ mail'[w][i] = mail[w][i + 1] /\ i \in At(w)
  BY <1>1, Popped DEF At
<1>4. \A i \in At(w) : i = 1 \/ (i > 1 /\ i - 1 \in At(w)' /\ mail'[w][i - 1] = mail[w][i])
  BY <1>1, Popped DEF At
<1> QED
  BY <1>1, <1>2, <1>3, <1>4 DEF Own, Made, Listed, Joined, Left, Begun, Denied, Closed

\* What remains keeps its order.
LEMMA ReadsInOrder ==
  ASSUME TypeInv, NEW w \in Users, mail[w] # <<>>, mail'[w] = Tail(mail[w]), MailInv(w)
  PROVE  MailInv(w)'
<1>1. /\ \A i \in At(w)' : /\ i \in Nat /\ i > 0 /\ i + 1 \in At(w) /\ mail'[w][i] = mail[w][i + 1] /\ i \in At(w)
                           /\ (Made(w, i)' <=> Made(w, i + 1)) /\ (Listed(w, i)' <=> Listed(w, i + 1)) /\ (Joined(w, i)' <=> Joined(w, i + 1))
                           /\ (Left(w, i)' <=> Left(w, i + 1)) /\ (Begun(w, i)' <=> Begun(w, i + 1)) /\ (Denied(w, i)' <=> Denied(w, i + 1))
                           /\ \A g : Closed(w, i, g)' <=> Closed(w, i + 1, g)
      /\ \A i \in At(w) : i = 1 \/ /\ i > 1 /\ i - 1 \in At(w)' /\ mail'[w][i - 1] = mail[w][i]
                                   /\ (Listed(w, i - 1)' <=> Listed(w, i)) /\ (Joined(w, i - 1)' <=> Joined(w, i))
  BY Shifts
<1>2. OneEach(w)'
  <2>1. \A i, j \in At(w)' : i + 1 = j + 1 => i = j
    BY <1>1
  <2> QED
    BY <1>1, <2>1 DEF MailInv, OneEach
<1>3. AfterEntry(w)'
  <2>1. \A i, j \in At(w)' : i + 1 < j + 1 => i < j
    BY <1>1
  <2> QED
    BY <1>1, <2>1 DEF MailInv, AfterEntry
<1>4. EntryOrder(w)'
  <2>1. \A j \in At(w)' : Joined(w, j)' => j = 1 \/ Listed(w, j - 1)'
    <3> SUFFICES ASSUME NEW j \in At(w)', Joined(w, j)', j # 1 PROVE Listed(w, j - 1)'
      OBVIOUS
    <3>1. j \in Nat /\ j > 1 /\ j + 1 \in At(w) /\ Joined(w, j + 1) /\ j \in At(w)
      BY <1>1
    <3>2. Listed(w, (j + 1) - 1)
      BY <3>1 DEF MailInv, EntryOrder
    <3>3. Listed(w, j)
      BY <3>1, <3>2
    <3> QED
      BY <1>1, <3>1, <3>3
  <2>2. \A i \in At(w)' : Listed(w, i)' => i + 1 \in At(w)' /\ Joined(w, i + 1)' /\ mail'[w][i + 1].game = mail'[w][i].game
    <3> SUFFICES ASSUME NEW i \in At(w)', Listed(w, i)'
                 PROVE  i + 1 \in At(w)' /\ Joined(w, i + 1)' /\ mail'[w][i + 1].game = mail'[w][i].game
      OBVIOUS
    <3>1. i \in Nat /\ i > 0 /\ i + 1 \in At(w) /\ Listed(w, i + 1)
      BY <1>1
    <3>2. (i + 1) + 1 \in At(w) /\ Joined(w, (i + 1) + 1) /\ mail[w][(i + 1) + 1].game = mail[w][i + 1].game
      BY <3>1 DEF MailInv, EntryOrder
    <3>3. ((i + 1) + 1) - 1 = i + 1 /\ (i + 1) + 1 # 1
      BY <3>1
    <3>4. i + 1 \in At(w)' /\ Joined(w, i + 1)' /\ mail'[w][i + 1] = mail[w][(i + 1) + 1]
      BY <1>1, <3>2, <3>3
    <3> QED
      BY <1>1, <3>2, <3>4
  <2>3. \A i \in At(w)' : Made(w, i)' => i + 1 \in At(w)' /\ Listed(w, i + 1)' /\ mail'[w][i + 1].game = mail'[w][i].game
    <3> SUFFICES ASSUME NEW i \in At(w)', Made(w, i)'
                 PROVE  i + 1 \in At(w)' /\ Listed(w, i + 1)' /\ mail'[w][i + 1].game = mail'[w][i].game
      OBVIOUS
    <3>1. i \in Nat /\ i > 0 /\ i + 1 \in At(w) /\ Made(w, i + 1)
      BY <1>1
    <3>2. (i + 1) + 1 \in At(w) /\ Listed(w, (i + 1) + 1) /\ mail[w][(i + 1) + 1].game = mail[w][i + 1].game
      BY <3>1 DEF MailInv, EntryOrder
    <3>3. ((i + 1) + 1) - 1 = i + 1 /\ (i + 1) + 1 # 1
      BY <3>1
    <3>4. i + 1 \in At(w)' /\ Listed(w, i + 1)' /\ mail'[w][i + 1] = mail[w][(i + 1) + 1]
      BY <1>1, <3>2, <3>3
    <3> QED
      BY <1>1, <3>2, <3>4
  <2> QED
    BY <2>1, <2>2, <2>3 DEF EntryOrder
<1> QED
  BY <1>2, <1>3, <1>4 DEF MailInv
\* Who creates a room is in it, on the server, and waits for the messages that say so.
LEMMA Creating ==
  ASSUME RInv, NEW w \in Users, Clear(w), gameIdRequested[w]
  PROVE  Entering(w) /\ roomOf[w] # 0
<1>1. MailInv(w) /\ AwaitInv(w) /\ EntryInv(w) /\ KnownInv
  BY DEF RInv, UInv, ViewInv
<1>2. PICK i \in At(w) : Made(w, i)
  BY <1>1 DEF AwaitInv
<1>3. i + 1 \in At(w) /\ Listed(w, i + 1)
  BY <1>1, <1>2 DEF MailInv, EntryOrder
<1>4. (i + 1) + 1 \in At(w) /\ Joined(w, (i + 1) + 1)
  BY <1>1, <1>3 DEF MailInv, EntryOrder
<1>5. Enters(w, (i + 1) + 1, mail[w][(i + 1) + 1].game)
  BY <1>1, <1>4 DEF EntryInv, EntryRoom
<1> QED
  BY <1>1, <1>4, <1>5, KnownIds DEF Entering, Enters

\* A user reads a message that does not concern it.
LEMMA ReadsOn ==
  ASSUME RInv, NEW w \in Users, Clear(w), mail[w] # <<>>, mail'[w] = Tail(mail[w]),
         ~Made(w, 1), ~Listed(w, 1), ~Joined(w, 1), ~Left(w, 1), ~Begun(w, 1), ~Denied(w, 1), ~Closed(w, 1, gameId[w]) \/ gameIdRequested[w],
         UNCHANGED <<idOf, roomOf, ownerOf, playing>>, kicked' = kicked,
         playerstat'[w] = playerstat[w] \/ playerstat'[w] # 1, isOwner'[w] = isOwner[w],
         gameIdRequested'[w] = gameIdRequested[w], gameIdRequested[w] \/ gameId'[w] = gameId[w],
         userIdRequested'[w] = userIdRequested[w], leaveRequested'[w] = leaveRequested[w], userId'[w] = userId[w],
         \/ page'[w] = page[w] /\ hosting'[w] = hosting[w]
         \/ gameIdRequested[w] /\ page'[w] = "lobby" /\ ~hosting'[w] /\ playerstat'[w] # 1,
         awaiting'[w] = awaiting[w] \/ (awaiting[w] = "USERJOIN" /\ awaiting'[w] = "none"), toldKicked'[w] = toldKicked[w]
  PROVE  ViewInv(w)'
<1>1. /\ MailInv(w) /\ AwaitInv(w) /\ EntryInv(w) /\ InRoomInv(w) /\ PlayInv(w) /\ OutInv(w) /\ WindowInv(w) /\ OrderInv(w)
      /\ KickInv(w) /\ TypeInv
  BY DEF RInv, UInv, ViewInv
<1>2. /\ 1 \in At(w)
      /\ \A i \in At(w) : i \in Nat /\ i > 0
  BY <1>1, Shifts
<1>3. \A i \in At(w)' : /\ i \in Nat /\ i > 0 /\ i + 1 \in At(w) /\ mail'[w][i] = mail[w][i + 1]
                        /\ (Made(w, i)' <=> Made(w, i + 1)) /\ (Joined(w, i)' <=> Joined(w, i + 1))
                        /\ (Left(w, i)' <=> Left(w, i + 1)) /\ (Begun(w, i)' <=> Begun(w, i + 1)) /\ (Denied(w, i)' <=> Denied(w, i + 1))
                        /\ \A g : Closed(w, i, g)' <=> Closed(w, i + 1, g)
  BY <1>1, Shifts
<1>4. \A i \in At(w) : i = 1 \/ /\ i > 1 /\ i - 1 \in At(w)'
                                /\ (Made(w, i - 1)' <=> Made(w, i)) /\ (Joined(w, i - 1)' <=> Joined(w, i))
                                /\ (Left(w, i - 1)' <=> Left(w, i)) /\ (Begun(w, i - 1)' <=> Begun(w, i)) /\ (Denied(w, i - 1)' <=> Denied(w, i))
                                /\ \A g : Closed(w, i - 1, g)' <=> Closed(w, i, g)
  BY <1>1, Shifts
<1>5. \A i \in At(w)' : i \in Nat /\ i > 0
  BY <1>3
<1>6. Entering(w)' <=> Entering(w)
  BY <1>2, <1>3, <1>4 DEF Entering
<1>7. gameIdRequested[w] => Entering(w) /\ roomOf[w] # 0
  BY Creating
<1>8. MailInv(w)'
  BY <1>1, ReadsInOrder
<1>9. AwaitInv(w)'
  BY <1>1, <1>2, <1>3, <1>4, <1>6 DEF AwaitInv
<1>10. EntryInv(w)'
  <2>1. ~userIdRequested[w]
    BY <1>1 DEF EntryInv, LearnsId
  <2>2. ASSUME NEW j \in At(w)', Joined(w, j)', NEW g, Enters(w, j + 1, g) PROVE Enters(w, j, g)'
    <3>1. j \in Nat /\ j > 0
      BY <1>5
    <3>2. (j + 1) - 1 = j /\ j + 1 # 1
      BY <3>1
    <3>3. j + 1 \in At(w) /\ Joined(w, j + 1) /\ (j + 1) - 1 = j /\ j + 1 # 1
      BY <1>3, <2>2, <3>2
    <3>4. Listed(w, j)
      BY <1>1, <3>3 DEF MailInv, EntryOrder
    <3>5. j # 1
      BY <3>4
    <3> QED
      BY <2>2, <3>5 DEF Enters, Known
  <2>3. \A j \in At(w)' : Joined(w, j)' => Enters(w, j + 1, mail'[w][j].game)
    BY <1>1, <1>3 DEF EntryInv, EntryRoom
  <2> QED
    BY <2>1, <2>2, <2>3 DEF EntryInv, LearnsId, EntryRoom
<1>11. InRoomInv(w)'
  BY <1>1, <1>3, <1>6, <1>7 DEF InRoomInv
<1>12. PlayInv(w)'
  <2>1. \A i, j \in At(w)' : i + 1 = j + 1 => i = j
    BY <1>5
  <2> QED
    BY <1>1, <1>3, <2>1 DEF PlayInv
<1>13. OutInv(w)'
  BY <1>1, <1>2, <1>3, <1>4, <1>6, <1>7 DEF OutInv
<1>14. WindowInv(w)'
  BY <1>1 DEF WindowInv
<1>15. OrderInv(w)'
  <2>1. \A i \in At(w)' : Behind(w, i + 1) => Behind(w, i)'
    <3> SUFFICES ASSUME NEW i \in At(w)', Behind(w, i + 1) PROVE Behind(w, i)'
      OBVIOUS
    <3>1. PICK k \in At(w) : k >= i + 1 /\ (Denied(w, k) \/ (Left(w, k) /\ awaiting[w] = "GAMRLEAV"))
      BY DEF Behind
    <3>2. k \in Nat /\ i \in Nat /\ i > 0
      BY <1>2, <1>5
    <3>3. k # 1 /\ k - 1 >= i
      BY <3>1, <3>2
    <3>4. k - 1 \in At(w)' /\ k - 1 >= i /\ k # 1
      BY <1>4, <3>3
    <3> QED
      BY <1>4, <3>1, <3>4 DEF Behind
  <2>2. \A i, k \in At(w)' : k + 1 < i + 1 => k < i
    BY <1>5
  <2> QED
    BY <1>1, <1>3, <1>6, <1>7, <2>1, <2>2 DEF OrderInv
<1>16. KickInv(w)'
  BY <1>1, <1>2, <1>3, <1>4 DEF KickInv
<1> QED
  BY <1>8, <1>9, <1>10, <1>11, <1>12, <1>13, <1>14, <1>15, <1>16 DEF ViewInv

\* GAMEMAKE of the room that u created: GAMRSLST and its own GAMRJOIN are next.
LEMMA ReadsOwnRoom ==
  ASSUME RInv, NEW u \in Users, Clear(u), OnGameMake(u), Made(u, 1)
  PROVE  ViewInv(u)'
<1>1. /\ MailInv(u) /\ AwaitInv(u) /\ EntryInv(u) /\ InRoomInv(u) /\ KickInv(u) /\ TypeInv /\ KnownInv /\ ShutInv
  BY DEF RInv, UInv, ViewInv
<1>2. /\ mail[u] # <<>> /\ mail'[u] = Tail(mail[u]) /\ UNCHANGED <<idOf, roomOf, ownerOf, playing, kicked>>
      /\ Next1(u) = mail[u][1] /\ 1 \in At(u)
  <2>1. mail[u] # <<>> /\ mail' = [mail EXCEPT ![u] = Tail(@)] /\ UNCHANGED <<idOf, roomOf, ownerOf, playing, kicked>>
    BY DEF OnGameMake, Take, serverVars
  <2>2. mail'[u] = Tail(mail[u])
    BY <1>1, <2>1 DEF TypeInv
  <2> QED
    BY <1>1, <2>1, <2>2, Shifts
<1>3. PICK g : g = mail[u][1].game
  OBVIOUS
<1>4. gameIdRequested[u] /\ Next1(u).who = u
  BY <1>1, <1>2 DEF AwaitInv, Made, Own
<1>5. /\ gameId'[u] = g /\ ~gameIdRequested'[u] /\ userIdRequested'[u] /\ playerstat'[u] = 0
      /\ page'[u] = "room" /\ hosting'[u] /\ isOwner'[u] = isOwner[u] /\ leaveRequested'[u] = leaveRequested[u]
      /\ userId'[u] = userId[u] /\ toldKicked'[u] = toldKicked[u] /\ awaiting'[u] = awaiting[u]
  BY <1>1, <1>2, <1>4, <1>3 DEF OnGameMake, TypeInv
<1>6. /\ 2 \in At(u) /\ Listed(u, 2) /\ 3 \in At(u) /\ Joined(u, 3) /\ mail[u][3].game = mail[u][1].game
      /\ \A j \in At(u) : Joined(u, j) => j = 3
      /\ \A i \in At(u) : ~Denied(u, i) /\ ~Left(u, i)
  <2>1. 1 + 1 \in At(u) /\ Listed(u, 1 + 1) /\ mail[u][1 + 1].game = mail[u][1].game
    BY <1>1, <1>2 DEF MailInv, EntryOrder
  <2>2. 2 \in At(u) /\ Listed(u, 2) /\ mail[u][2].game = mail[u][1].game
    BY <2>1
  <2>3. 2 + 1 \in At(u) /\ Joined(u, 2 + 1) /\ mail[u][2 + 1].game = mail[u][2].game
    BY <1>1, <2>2 DEF MailInv, EntryOrder
  <2>4. 3 \in At(u) /\ Joined(u, 3) /\ mail[u][3].game = mail[u][1].game
    BY <2>2, <2>3
  <2>5. awaiting[u] = "GAMRJOIN"
    BY <1>1, <2>4 DEF AwaitInv, Entering
  <2>6. roomOf[u] # 0
    BY <1>4, Creating
  <2> QED
    BY <1>1, <2>2, <2>4, <2>5, <2>6 DEF MailInv, OneEach, AwaitInv, InRoomInv
<1>7. Enters(u, 3, g) /\ roomOf[u] = g /\ ownerOf[g] = u /\ roomOf[u] # 0
  <2>1. Enters(u, 3, g)
    BY <1>1, <1>3, <1>6 DEF EntryInv, EntryRoom
  <2> QED
    BY <1>1, <1>4, <2>1, KnownIds DEF Enters
<1>8. /\ \A i \in At(u)' : i \in Nat /\ i > 0
      /\ \A i \in At(u)' : /\ i + 1 \in At(u) /\ mail'[u][i] = mail[u][i + 1]
                           /\ (Made(u, i)' <=> Made(u, i + 1)) /\ (Joined(u, i)' <=> Joined(u, i + 1)) /\ (Left(u, i)' <=> Left(u, i + 1))
                           /\ (Begun(u, i)' <=> Begun(u, i + 1)) /\ (Denied(u, i)' <=> Denied(u, i + 1)) /\ \A h : Closed(u, i, h)' <=> Closed(u, i + 1, h)
      /\ 1 \in At(u)' /\ Listed(u, 1)' /\ 2 \in At(u)' /\ Joined(u, 2)' /\ mail'[u][2] = mail[u][3]
  <2>1. 2 - 1 \in At(u)' /\ Listed(u, 2 - 1)'
    BY <1>1, <1>2, <1>6, Shifts
  <2>2. \A i \in At(u) : i = 1 \/ (i - 1 \in At(u)' /\ mail'[u][i - 1] = mail[u][i] /\ (Joined(u, i - 1)' <=> Joined(u, i)))
    BY <1>1, <1>2, Shifts
  <2>3. 3 - 1 \in At(u)' /\ Joined(u, 3 - 1)' /\ mail'[u][3 - 1] = mail[u][3]
    BY <1>6, <2>2
  <2>4. 2 - 1 = 1 /\ 3 - 1 = 2
    OBVIOUS
  <2>5. 1 \in At(u)' /\ Listed(u, 1)' /\ 2 \in At(u)' /\ Joined(u, 2)' /\ mail'[u][2] = mail[u][3]
    BY <2>1, <2>3, <2>4
  <2> QED
    BY <1>1, <1>2, <2>5, Shifts
<1>9. \A j \in At(u)' : Joined(u, j)' => j = 2
  <2>1. \A j \in At(u)' : Joined(u, j)' => j + 1 = 3
    BY <1>6, <1>8
  <2>2. \A j \in At(u)' : j \in Nat
    BY <1>8
  <2> QED
    BY <2>1, <2>2
<1>10. \A i \in At(u)' : ~Made(u, i)'
  <2> SUFFICES ASSUME NEW i \in At(u)', Made(u, i + 1), i + 1 \in At(u) PROVE FALSE
    BY <1>8
  <2>1. (i + 1) + 1 \in At(u) /\ Listed(u, (i + 1) + 1)
    BY <1>1 DEF MailInv, EntryOrder
  <2>2. ((i + 1) + 1) + 1 \in At(u) /\ Joined(u, ((i + 1) + 1) + 1)
    BY <1>1, <2>1 DEF MailInv, EntryOrder
  <2>3. ((i + 1) + 1) + 1 = 3
    BY <1>6, <2>2
  <2>4. i \in Nat /\ i > 0
    BY <1>8
  <2> QED
    BY <2>3, <2>4
<1>11. MailInv(u)'
  BY <1>1, <1>2, ReadsInOrder
<1>12. AwaitInv(u)'
  <2>1. Entering(u) /\ Entering(u)'
    BY <1>6, <1>8 DEF Entering
  <2> QED
    BY <1>1, <1>5, <1>6, <1>8, <1>10, <2>1 DEF AwaitInv
<1>13. EntryInv(u)'
  <2>1. mail'[u][2].game = g
    BY <1>3, <1>6, <1>8
  <2>2. Enters(u, 2, g)'
    BY <1>2, <1>5, <1>7 DEF Enters, Known
  <2>3. EntryRoom(u)'
    BY <1>9, <2>1, <2>2 DEF EntryRoom
  <2>4. ownerOf'[mail'[u][2].game] = u
    BY <1>2, <1>7, <2>1
  <2>5. LearnsId(u)'
    BY <1>5, <1>8, <2>4 DEF LearnsId
  <2> QED
    BY <2>3, <2>5 DEF EntryInv
<1>14. InRoomInv(u)'
  BY <1>1, <1>2, <1>5, <1>6, <1>7, <1>8 DEF InRoomInv, Entering
<1>15. PlayInv(u)'
  <2>1. PlayInv(u)
    BY DEF RInv, UInv, ViewInv
  <2>2. \A i, k \in At(u)' : i + 1 = k + 1 => i = k
    BY <1>8
  <2> QED
    BY <1>2, <1>5, <1>8, <2>1, <2>2 DEF PlayInv
<1>16. OutInv(u)' /\ WindowInv(u)'
  BY <1>2, <1>5, <1>7 DEF OutInv, WindowInv
<1>17. OrderInv(u)'
  <2>1. \A i \in At(u)' : ~Closed(u, i, g)'
    BY <1>1, <1>7, <1>8 DEF ShutInv, Shuts, Closed, In
  <2> QED
    BY <1>5, <2>1 DEF OrderInv
<1>18. KickInv(u)'
  BY <1>1, <1>2, <1>5, <1>6, <1>7, <1>8 DEF KickInv, InRoomInv
<1> QED
  BY <1>11, <1>12, <1>13, <1>14, <1>15, <1>16, <1>17, <1>18 DEF ViewInv

\* GAMRSLST: the room that u enters opens.
LEMMA ReadsPlayerList ==
  ASSUME RInv, NEW u \in Users, Clear(u), OnPlayerList(u)
  PROVE  ViewInv(u)'
<1>1. /\ MailInv(u) /\ AwaitInv(u) /\ EntryInv(u) /\ InRoomInv(u) /\ PlayInv(u) /\ OutInv(u) /\ OrderInv(u) /\ KickInv(u)
      /\ TypeInv /\ KnownInv
  BY DEF RInv, UInv, ViewInv
<1>2. /\ mail[u] # <<>> /\ mail'[u] = Tail(mail[u]) /\ UNCHANGED <<idOf, roomOf, ownerOf, playing, kicked>>
      /\ 1 \in At(u) /\ Listed(u, 1)
  <2>1. /\ mail[u] # <<>> /\ mail' = [mail EXCEPT ![u] = Tail(@)] /\ UNCHANGED <<idOf, roomOf, ownerOf, playing, kicked>>
        /\ Next1(u).kind = "GAMRSLST"
    BY DEF OnPlayerList, Take, serverVars
  <2>2. mail'[u] = Tail(mail[u])
    BY <1>1, <2>1 DEF TypeInv
  <2>3. 1 \in At(u) /\ Next1(u) = mail[u][1]
    BY <1>1, <2>1, <2>2, Shifts
  <2> QED
    BY <2>1, <2>2, <2>3 DEF Listed
<1>3. PICK g : g = mail[u][1].game
  OBVIOUS
<1>4. /\ 2 \in At(u) /\ Joined(u, 2) /\ mail[u][2].game = g
      /\ \A j \in At(u) : Joined(u, j) => j = 2
      /\ awaiting[u] = "GAMRJOIN" /\ \A i \in At(u) : ~Denied(u, i)
  <2>1. 1 + 1 \in At(u) /\ Joined(u, 1 + 1) /\ mail[u][1 + 1].game = g
    BY <1>1, <1>2, <1>3 DEF MailInv, EntryOrder
  <2>2. 2 \in At(u) /\ Joined(u, 2) /\ mail[u][2].game = g
    BY <2>1
  <2>3. awaiting[u] = "GAMRJOIN"
    BY <1>1, <2>2 DEF AwaitInv, Entering
  <2> QED
    BY <1>1, <2>2, <2>3 DEF MailInv, OneEach, AwaitInv
<1>5. /\ \A i \in At(u) : i \in Nat /\ i > 0
      /\ \A i \in At(u)' : i \in Nat /\ i > 0
      /\ \A i \in At(u)' : /\ i + 1 \in At(u) /\ mail'[u][i] = mail[u][i + 1]
                           /\ (Made(u, i)' <=> Made(u, i + 1)) /\ (Joined(u, i)' <=> Joined(u, i + 1)) /\ (Left(u, i)' <=> Left(u, i + 1))
                           /\ (Begun(u, i)' <=> Begun(u, i + 1)) /\ (Denied(u, i)' <=> Denied(u, i + 1)) /\ \A h : Closed(u, i, h)' <=> Closed(u, i + 1, h)
      /\ \A i \in At(u) : i = 1 \/ /\ i - 1 \in At(u)' /\ mail'[u][i - 1] = mail[u][i] /\ (Joined(u, i - 1)' <=> Joined(u, i))
                                   /\ (Left(u, i - 1)' <=> Left(u, i)) /\ \A h : Closed(u, i - 1, h)' <=> Closed(u, i, h)
  BY <1>1, <1>2, Shifts
<1>6. 1 \in At(u)' /\ Joined(u, 1)' /\ mail'[u][1].game = g
  <2>1. 2 - 1 \in At(u)' /\ Joined(u, 2 - 1)' /\ mail'[u][2 - 1] = mail[u][2]
    BY <1>4, <1>5
  <2> QED
    BY <1>4, <2>1
<1>7. \A j \in At(u)' : Joined(u, j)' => j = 1
  <2>1. \A j \in At(u)' : Joined(u, j)' => j + 1 = 2
    BY <1>4, <1>5
  <2>2. \A j \in At(u)' : j \in Nat
    BY <1>5
  <2> QED
    BY <2>1, <2>2
<1>8. ~gameIdRequested[u] /\ \A i \in At(u) : ~Made(u, i)
  <2> SUFFICES ASSUME NEW i \in At(u), Made(u, i) PROVE FALSE
    BY <1>1 DEF AwaitInv
  <2>1. i + 1 \in At(u) /\ Listed(u, i + 1)
    BY <1>1 DEF MailInv, EntryOrder
  <2>2. (i + 1) + 1 \in At(u) /\ Joined(u, (i + 1) + 1)
    BY <1>1, <2>1 DEF MailInv, EntryOrder
  <2>3. (i + 1) + 1 = 2
    BY <1>4, <2>2
  <2>4. i \in Nat /\ i > 0
    BY <1>5
  <2> QED
    BY <2>3, <2>4
<1>9. Enters(u, 2, g) /\ gameId[u] = g
  <2>1. Enters(u, 2, g)
    BY <1>1, <1>4 DEF EntryInv, EntryRoom
  <2> QED
    BY <1>8, <2>1 DEF Enters
<1>10. /\ gameId'[u] = g /\ ~gameIdRequested'[u] /\ userIdRequested'[u] = userIdRequested[u] /\ playerstat'[u] = 0
       /\ page'[u] = "room" /\ (hosting'[u] <=> ownerOf[g] = u) /\ isOwner'[u] = isOwner[u] /\ leaveRequested'[u] = leaveRequested[u]
       /\ userId'[u] = userId[u] /\ toldKicked'[u] = toldKicked[u] /\ awaiting'[u] = awaiting[u]
  <2>1. CASE isOwner[u]
    BY <1>1, <1>8, <1>9, <2>1 DEF OnPlayerList, TypeInv, Enters
  <2>2. CASE ~isOwner[u]
    BY <1>1, <1>8, <1>9, <2>2 DEF OnPlayerList, TypeInv, Enters
  <2> QED
    BY <2>1, <2>2
<1>11. MailInv(u)'
  BY <1>1, <1>2, ReadsInOrder
<1>12. AwaitInv(u)'
  <2>1. Entering(u)'
    BY <1>6 DEF Entering
  <2> QED
    BY <1>1, <1>4, <1>5, <1>8, <1>10, <2>1 DEF AwaitInv
<1>13. EntryInv(u)'
  <2>1. Enters(u, 1, g)'
    BY <1>2, <1>8, <1>9, <1>10 DEF Enters, Known
  <2>2. EntryRoom(u)'
    BY <1>6, <1>7, <2>1 DEF EntryRoom
  <2>3. userIdRequested[u] => ownerOf[g] = u
    BY <1>1, <1>4 DEF EntryInv, LearnsId
  <2>4. LearnsId(u)'
    BY <1>2, <1>6, <1>10, <2>3 DEF LearnsId
  <2> QED
    BY <2>2, <2>4 DEF EntryInv
<1>14. InRoomInv(u)'
  BY <1>1, <1>2, <1>5, <1>6, <1>10 DEF InRoomInv, Entering
<1>15. PlayInv(u)'
  <2>1. \A i, k \in At(u)' : i + 1 = k + 1 => i = k
    BY <1>5
  <2> QED
    BY <1>1, <1>2, <1>5, <1>10, <2>1 DEF PlayInv
<1>16. OutInv(u)'
  <2>1. Entering(u)
    BY <1>4 DEF Entering
  <2>2. \A i \in At(u) : Left(u, i) \/ Closed(u, i, g) => i # 1
    BY <1>2 DEF Left, Closed, Listed, Own
  <2> QED
    BY <1>1, <1>2, <1>5, <1>9, <1>10, <2>1, <2>2 DEF OutInv
<1>17. WindowInv(u)'
  BY <1>10 DEF WindowInv
<1>18. OrderInv(u)'
  <2>1. \A i \in At(u) : ~Behind(u, i)
    BY <1>4 DEF Behind
  <2>2. \A i, k \in At(u)' : k + 1 < i + 1 => k < i
    BY <1>5
  <2>3. \A i, k \in At(u)' : Closed(u, i, g)' /\ (Left(u, k)' \/ Begun(u, k)') => k + 1 < i + 1
    BY <1>1, <1>5, <1>8, <1>9, <2>1 DEF OrderInv
  <2> QED
    BY <1>10, <2>2, <2>3 DEF OrderInv
<1>19. KickInv(u)'
  BY <1>1, <1>2, <1>4, <1>5, <1>10 DEF KickInv
<1> QED
  BY <1>11, <1>12, <1>13, <1>14, <1>15, <1>16, <1>17, <1>18, <1>19 DEF ViewInv

\* Its own GAMRJOIN: u is in the room, and who created it knows who it is.
LEMMA ReadsOwnJoin ==
  ASSUME RInv, NEW u \in Users, Clear(u), OnPlayerJoin(u), Joined(u, 1)
  PROVE  ViewInv(u)'
<1>1. /\ MailInv(u) /\ AwaitInv(u) /\ EntryInv(u) /\ InRoomInv(u) /\ PlayInv(u) /\ OutInv(u) /\ OrderInv(u) /\ KickInv(u)
      /\ TypeInv /\ KnownInv
  BY DEF RInv, UInv, ViewInv
<1>2. /\ mail[u] # <<>> /\ mail'[u] = Tail(mail[u]) /\ UNCHANGED <<idOf, roomOf, ownerOf, playing, kicked>>
      /\ 1 \in At(u) /\ Next1(u) = mail[u][1]
  <2>1. mail[u] # <<>> /\ mail' = [mail EXCEPT ![u] = Tail(@)] /\ UNCHANGED <<idOf, roomOf, ownerOf, playing, kicked>>
    BY DEF OnPlayerJoin, Take, serverVars
  <2>2. mail'[u] = Tail(mail[u])
    BY <1>1, <2>1 DEF TypeInv
  <2> QED
    BY <1>1, <2>1, <2>2, Shifts
<1>3. PICK g : g = mail[u][1].game
  OBVIOUS
<1>4. /\ awaiting[u] = "GAMRJOIN" /\ \A i \in At(u) : ~Denied(u, i)
      /\ \A j \in At(u) : Joined(u, j) => j = 1
      /\ Entering(u)
  <2>1. awaiting[u] = "GAMRJOIN"
    BY <1>1, <1>2 DEF AwaitInv, Entering
  <2> QED
    BY <1>1, <1>2, <2>1 DEF MailInv, OneEach, AwaitInv, Entering
<1>5. /\ \A i \in At(u) : i \in Nat /\ i > 0
      /\ \A i \in At(u)' : i \in Nat /\ i > 0
      /\ \A i \in At(u)' : /\ i + 1 \in At(u)
                           /\ (Made(u, i)' <=> Made(u, i + 1)) /\ (Joined(u, i)' <=> Joined(u, i + 1)) /\ (Left(u, i)' <=> Left(u, i + 1))
                           /\ (Begun(u, i)' <=> Begun(u, i + 1)) /\ (Denied(u, i)' <=> Denied(u, i + 1)) /\ \A h : Closed(u, i, h)' <=> Closed(u, i + 1, h)
      /\ \A i \in At(u) : i = 1 \/ /\ i - 1 \in At(u)'
                                   /\ (Left(u, i - 1)' <=> Left(u, i)) /\ \A h : Closed(u, i - 1, h)' <=> Closed(u, i, h)
  BY <1>1, <1>2, Shifts
<1>6. ~Entering(u)'
  <2>1. \A j \in At(u)' : Joined(u, j)' => j + 1 = 1
    BY <1>4, <1>5
  <2>2. \A j \in At(u)' : j \in Nat /\ j > 0
    BY <1>5
  <2> QED
    BY <2>1, <2>2 DEF Entering
<1>7. ~gameIdRequested[u] /\ \A i \in At(u) : ~Made(u, i)
  <2> SUFFICES ASSUME NEW i \in At(u), Made(u, i) PROVE FALSE
    BY <1>1 DEF AwaitInv
  <2>1. i + 1 \in At(u) /\ Listed(u, i + 1)
    BY <1>1 DEF MailInv, EntryOrder
  <2>2. (i + 1) + 1 \in At(u) /\ Joined(u, (i + 1) + 1)
    BY <1>1, <2>1 DEF MailInv, EntryOrder
  <2>3. (i + 1) + 1 = 1
    BY <1>4, <2>2
  <2>4. i \in Nat /\ i > 0
    BY <1>5
  <2> QED
    BY <2>3, <2>4
<1>8. /\ page[u] = "room" /\ (hosting[u] <=> ownerOf[g] = u) /\ gameId[u] = g
      /\ ownerOf[g] = u => roomOf[u] = g
      /\ roomOf[u] # 0 => roomOf[u] = g
      /\ g # 0
  <2>1. Enters(u, 1, g)
    BY <1>1, <1>2, <1>3 DEF EntryInv, EntryRoom
  <2> QED
    BY <1>1, <1>7, <2>1, KnownIds DEF Enters
<1>9. /\ gameId'[u] = g /\ ~gameIdRequested'[u] /\ ~userIdRequested'[u] /\ page'[u] = page[u] /\ hosting'[u] = hosting[u]
      /\ playerstat'[u] \in {playerstat[u], 0} /\ leaveRequested'[u] = leaveRequested[u] /\ toldKicked'[u] = toldKicked[u]
      /\ awaiting'[u] = "none"
      /\ ~userIdRequested[u] => userId'[u] = userId[u]
  <2>1. Next1(u).who = u /\ Next1(u).kind = "GAMRJOIN"
    BY <1>2 DEF Joined, Own
  <2>2. awaiting'[u] = "none"
    BY <1>1, <1>4, <2>1 DEF OnPlayerJoin, Answered, TypeInv
  <2>3. UNCHANGED <<page, hosting, toldKicked>>
    BY DEF OnPlayerJoin, windowVars
  <2> QED
    BY <1>1, <1>7, <1>8, <2>1, <2>2, <2>3 DEF OnPlayerJoin, TypeInv
<1>10. MailInv(u)'
  BY <1>1, <1>2, ReadsInOrder
<1>11. AwaitInv(u)'
  BY <1>4, <1>5, <1>6, <1>7, <1>9 DEF AwaitInv
<1>12. EntryInv(u)'
  BY <1>6, <1>9 DEF EntryInv, EntryRoom, LearnsId, Entering
<1>13. InRoomInv(u)'
  BY <1>1, <1>2, <1>5, <1>8, <1>9 DEF InRoomInv
<1>14. PlayInv(u)'
  <2>1. \A i, k \in At(u)' : i + 1 = k + 1 => i = k
    BY <1>5
  <2> QED
    BY <1>1, <1>2, <1>5, <1>9, <2>1 DEF PlayInv
<1>15. OutInv(u)'
  <2> SUFFICES ASSUME roomOf[u] = 0 PROVE OutInv(u)'
    BY <1>2 DEF OutInv
  <2>1. ~userIdRequested[u]
    BY <1>1, <1>3, <1>4, <1>8 DEF EntryInv, LearnsId
  <2>2. \A i \in At(u) : Left(u, i) \/ Closed(u, i, g) => i # 1
    BY DEF Left, Closed, Joined, Own
  <2> QED
    BY <1>1, <1>2, <1>4, <1>5, <1>8, <1>9, <2>1, <2>2 DEF OutInv
<1>16. WindowInv(u)'
  BY <1>8, <1>9 DEF WindowInv
<1>17. OrderInv(u)'
  <2>1. \A i \in At(u) : ~Behind(u, i)
    BY <1>4 DEF Behind
  <2>2. \A i, k \in At(u)' : k + 1 < i + 1 => k < i
    BY <1>5
  <2>3. \A i, k \in At(u)' : Closed(u, i, g)' /\ (Left(u, k)' \/ Begun(u, k)') => k + 1 < i + 1
    BY <1>1, <1>5, <1>7, <1>8, <2>1 DEF OrderInv
  <2> QED
    BY <1>8, <1>9, <2>2, <2>3 DEF OrderInv
<1>18. KickInv(u)'
  BY <1>1, <1>2, <1>4, <1>5, <1>9 DEF KickInv
<1> QED
  BY <1>10, <1>11, <1>12, <1>13, <1>14, <1>15, <1>16, <1>17, <1>18 DEF ViewInv

\* Who waits for no GAMRJOIN has no room to create, and no id to learn.
LEMMA NotEntering ==
  ASSUME RInv, NEW u \in Users, Clear(u), ~Entering(u)
  PROVE  /\ ~gameIdRequested[u] /\ ~userIdRequested[u] /\ awaiting[u] # "GAMRJOIN"
         /\ \A i \in At(u) : ~Made(u, i) /\ ~Joined(u, i)
<1>1. AwaitInv(u) /\ EntryInv(u)
  BY DEF RInv, UInv, ViewInv
<1>2. ~gameIdRequested[u]
  BY Creating
<1> QED
  BY <1>1, <1>2 DEF AwaitInv, EntryInv, LearnsId, Entering

\* Its own GAMRLEAV: u left, or was kicked.
LEMMA ReadsOwnLeave ==
  ASSUME RInv, NEW u \in Users, Clear(u), OnPlayerLeave(u), Left(u, 1)
  PROVE  ViewInv(u)'
<1>1. /\ MailInv(u) /\ AwaitInv(u) /\ EntryInv(u) /\ InRoomInv(u) /\ OutInv(u) /\ WindowInv(u) /\ KickInv(u)
      /\ TypeInv
  BY DEF RInv, UInv, ViewInv
<1>2. /\ mail[u] # <<>> /\ mail'[u] = Tail(mail[u]) /\ UNCHANGED <<idOf, roomOf, kicked>>
      /\ 1 \in At(u) /\ Next1(u) = mail[u][1]
  <2>1. mail[u] # <<>> /\ mail' = [mail EXCEPT ![u] = Tail(@)] /\ UNCHANGED <<idOf, roomOf, kicked>>
    BY DEF OnPlayerLeave, Take, serverVars
  <2>2. mail'[u] = Tail(mail[u])
    BY <1>1, <2>1 DEF TypeInv
  <2> QED
    BY <1>1, <2>1, <2>2, Shifts
<1>3. /\ \A i \in At(u)' : i \in Nat /\ i > 0
      /\ \A i \in At(u)' : /\ i + 1 \in At(u)
                           /\ (Made(u, i)' <=> Made(u, i + 1)) /\ (Joined(u, i)' <=> Joined(u, i + 1)) /\ (Left(u, i)' <=> Left(u, i + 1))
                           /\ (Begun(u, i)' <=> Begun(u, i + 1)) /\ (Denied(u, i)' <=> Denied(u, i + 1)) /\ \A h : Closed(u, i, h)' <=> Closed(u, i + 1, h)
      /\ \A i \in At(u) : i > 0 /\ (i = 1 \/ /\ i - 1 \in At(u)' /\ (Denied(u, i - 1)' <=> Denied(u, i))
                                             /\ \A h : Closed(u, i - 1, h)' <=> Closed(u, i, h))
  BY <1>1, <1>2, Shifts
<1>4. roomOf[u] = 0
  BY <1>1, <1>2 DEF InRoomInv
<1>5. ~Entering(u) /\ \A i \in At(u) : ~Begun(u, i)
  <2>1. \A i \in At(u) : i \in Nat /\ i > 0
    BY <1>1, <1>2, Shifts
  <2>2. \A i \in At(u) : Joined(u, i) \/ Begun(u, i) => i < 1
    BY <1>1, <1>2 DEF MailInv, AfterEntry
  <2>3. \A i \in At(u) : ~(i < 1)
    BY <2>1
  <2> QED
    BY <2>2, <2>3 DEF Entering
<1>6. /\ ~gameIdRequested[u] /\ ~userIdRequested[u] /\ awaiting[u] # "GAMRJOIN"
      /\ \A i \in At(u) : ~Made(u, i) /\ ~Joined(u, i)
  BY <1>5, NotEntering
<1>7. \A i \in At(u)' : ~Left(u, i)' /\ ~Begun(u, i)' /\ ~Joined(u, i)' /\ ~Made(u, i)'
  <2>1. \A i \in At(u)' : Left(u, i)' => i + 1 = 1
    BY <1>1, <1>2, <1>3 DEF MailInv, OneEach
  <2>2. \A i \in At(u)' : i + 1 # 1
    BY <1>3
  <2> QED
    BY <1>3, <1>5, <1>6, <2>1, <2>2
<1>8. /\ gameId'[u] = gameId[u] /\ ~gameIdRequested'[u] /\ ~userIdRequested'[u] /\ leaveRequested'[u] = leaveRequested[u]
      /\ userId'[u] = userId[u]
      /\ awaiting'[u] = IF awaiting[u] = "GAMRLEAV" THEN "none" ELSE awaiting[u]
  <2>1. Next1(u).who = u /\ Next1(u).kind = "GAMRLEAV"
    BY <1>2 DEF Left, Own
  <2>2. awaiting'[u] = IF awaiting[u] = "GAMRLEAV" THEN "none" ELSE awaiting[u]
    BY <1>1, <2>1 DEF OnPlayerLeave, Answered, TypeInv
  <2> QED
    BY <1>6, <2>2 DEF OnPlayerLeave
<1>9. \/ /\ userId[u] = idOf[u] /\ ~leaveRequested[u]
         /\ page'[u] = "lobby" /\ ~hosting'[u] /\ playerstat'[u] = -1 /\ toldKicked'[u]
      \/ /\ ~(userId[u] = idOf[u] /\ ~leaveRequested[u])
         /\ page'[u] = page[u] /\ hosting'[u] = hosting[u] /\ playerstat'[u] = playerstat[u] /\ toldKicked'[u] = toldKicked[u]
  <2>1. IdOk(u, mail[u][1])
    BY <1>2 DEF RInv, UInv, IdInv
  <2>2. Next1(u).id = idOf[u]
    BY <1>2, <2>1 DEF Left, Own, IdOk
  <2>3. CASE userId[u] = idOf[u] /\ ~leaveRequested[u]
    BY <1>1, <2>2, <2>3 DEF OnPlayerLeave, TypeInv
  <2>4. CASE ~(userId[u] = idOf[u] /\ ~leaveRequested[u])
    BY <1>1, <2>2, <2>4 DEF OnPlayerLeave, TypeInv
  <2> QED
    BY <2>3, <2>4
<1>10. MailInv(u)'
  BY <1>1, <1>2, ReadsInOrder
<1>11. AwaitInv(u)'
  <2>1. ~Entering(u)'
    BY <1>7 DEF Entering
  <2>2. \A i \in At(u) : Denied(u, i) => i # 1
    BY DEF Denied, Left, Own
  <2>3. (\E k \in At(u)' : Denied(u, k)') <=> \E k \in At(u) : Denied(u, k)
    BY <1>3, <2>2
  <2> QED
    BY <1>1, <1>6, <1>7, <1>8, <2>1, <2>3 DEF AwaitInv
<1>12. EntryInv(u)'
  BY <1>7, <1>8 DEF EntryInv, EntryRoom, LearnsId
<1>13. InRoomInv(u)' /\ PlayInv(u)'
  BY <1>2, <1>4 DEF InRoomInv, PlayInv
<1>14. OutInv(u)'
  <2>1. \A i \in At(u) : Closed(u, i, gameId[u]) => i # 1
    BY DEF Left, Closed, Own
  <2> QED
    BY <1>1, <1>2, <1>3, <1>4, <1>7, <1>8, <1>9, <2>1 DEF OutInv, Entering
<1>15. WindowInv(u)'
  BY <1>1, <1>9 DEF WindowInv
<1>16. OrderInv(u)'
  BY <1>7 DEF OrderInv
<1>17. KickInv(u)'
  BY <1>1, <1>2, <1>7, <1>8, <1>9 DEF KickInv
<1> QED
  BY <1>10, <1>11, <1>12, <1>13, <1>14, <1>15, <1>16, <1>17 DEF ViewInv

\* GAMEBEGN: the game begins, unless u has left.
LEMMA ReadsBegin ==
  ASSUME RInv, NEW u \in Users, Clear(u), OnGameBegin(u)
  PROVE  ViewInv(u)'
<1>1. /\ MailInv(u) /\ AwaitInv(u) /\ EntryInv(u) /\ InRoomInv(u) /\ PlayInv(u) /\ OutInv(u) /\ WindowInv(u) /\ OrderInv(u) /\ KickInv(u)
      /\ TypeInv
  BY DEF RInv, UInv, ViewInv
<1>2. /\ mail[u] # <<>> /\ mail'[u] = Tail(mail[u]) /\ UNCHANGED <<idOf, roomOf, ownerOf, playing, kicked>>
      /\ 1 \in At(u) /\ Begun(u, 1)
  <2>1. /\ mail[u] # <<>> /\ mail' = [mail EXCEPT ![u] = Tail(@)] /\ UNCHANGED <<idOf, roomOf, ownerOf, playing, kicked>>
        /\ Next1(u).kind = "GAMEBEGN"
    BY DEF OnGameBegin, Take, serverVars
  <2>2. mail'[u] = Tail(mail[u])
    BY <1>1, <2>1 DEF TypeInv
  <2>3. 1 \in At(u) /\ Next1(u) = mail[u][1]
    BY <1>1, <2>1, <2>2, Shifts
  <2> QED
    BY <2>1, <2>2, <2>3 DEF Begun
<1>3. /\ \A i \in At(u)' : i \in Nat /\ i > 0
      /\ \A i \in At(u)' : /\ i + 1 \in At(u)
                           /\ (Made(u, i)' <=> Made(u, i + 1)) /\ (Joined(u, i)' <=> Joined(u, i + 1)) /\ (Left(u, i)' <=> Left(u, i + 1))
                           /\ (Begun(u, i)' <=> Begun(u, i + 1)) /\ (Denied(u, i)' <=> Denied(u, i + 1)) /\ \A h : Closed(u, i, h)' <=> Closed(u, i + 1, h)
      /\ \A i \in At(u) : i > 0 /\ (i = 1 \/ /\ i - 1 \in At(u)' /\ (Denied(u, i - 1)' <=> Denied(u, i)) /\ (Left(u, i - 1)' <=> Left(u, i))
                                             /\ \A h : Closed(u, i - 1, h)' <=> Closed(u, i, h))
  BY <1>1, <1>2, Shifts
<1>4. \A i \in At(u) : i \in Nat
  BY <1>1, <1>2, Shifts
<1>5. ~Entering(u)
  <2>1. \A i \in At(u) : Joined(u, i) => i < 1
    BY <1>1, <1>2 DEF MailInv, AfterEntry
  <2>2. \A i \in At(u) : ~(i < 1)
    BY <1>3, <1>4
  <2> QED
    BY <2>1, <2>2 DEF Entering
<1>6. /\ ~gameIdRequested[u] /\ ~userIdRequested[u] /\ awaiting[u] # "GAMRJOIN"
      /\ \A i \in At(u) : ~Made(u, i) /\ ~Joined(u, i)
  BY <1>5, NotEntering
<1>7. /\ ~Entering(u)' /\ \A i \in At(u)' : ~Joined(u, i)' /\ ~Made(u, i)'
  BY <1>3, <1>6 DEF Entering
<1>8. /\ gameId'[u] = gameId[u] /\ ~gameIdRequested'[u] /\ ~userIdRequested'[u] /\ leaveRequested'[u] = leaveRequested[u]
      /\ userId'[u] = userId[u] /\ awaiting'[u] = awaiting[u] /\ page'[u] = page[u] /\ hosting'[u] = hosting[u]
      /\ toldKicked'[u] = toldKicked[u]
      /\ playerstat'[u] = IF leaveRequested[u] THEN playerstat[u] ELSE 1
  BY <1>1, <1>6 DEF OnGameBegin, windowVars, TypeInv
<1>9. \A i \in At(u) : Denied(u, i) \/ Left(u, i) \/ Closed(u, i, gameId[u]) => i # 1
  BY <1>2 DEF Denied, Left, Closed, Begun, Own
<1>10. MailInv(u)'
  BY <1>1, <1>2, ReadsInOrder
<1>11. AwaitInv(u)'
  <2>1. (\E k \in At(u)' : Denied(u, k)') <=> \E k \in At(u) : Denied(u, k)
    BY <1>3, <1>9
  <2>2. (\E k \in At(u)' : Left(u, k)') <=> \E k \in At(u) : Left(u, k)
    BY <1>3, <1>9
  <2> QED
    BY <1>1, <1>6, <1>7, <1>8, <2>1, <2>2 DEF AwaitInv
<1>12. EntryInv(u)'
  BY <1>7, <1>8 DEF EntryInv, EntryRoom, LearnsId
<1>13. InRoomInv(u)'
  BY <1>1, <1>2, <1>3, <1>5, <1>8 DEF InRoomInv
<1>14. PlayInv(u)'
  <2> SUFFICES ASSUME roomOf[u] # 0 PROVE PlayInv(u)'
    BY <1>2 DEF PlayInv
  <2>1. u \in playing /\ \A k \in At(u) : Begun(u, k) => k = 1
    BY <1>1, <1>2 DEF PlayInv
  <2>2. \A k \in At(u)' : k + 1 # 1
    BY <1>3
  <2>3. \A k \in At(u)' : ~Begun(u, k)'
    BY <1>3, <2>1, <2>2
  <2> QED
    BY <1>2, <2>1, <2>3 DEF PlayInv
<1>15. OutInv(u)'
  BY <1>1, <1>2, <1>3, <1>7, <1>8, <1>9 DEF OutInv
<1>16. \A i \in At(u)' : Behind(u, i + 1) => Behind(u, i)'
  <2> SUFFICES ASSUME NEW i \in At(u)', Behind(u, i + 1) PROVE Behind(u, i)'
    OBVIOUS
  <2>1. PICK k \in At(u) : k >= i + 1 /\ (Denied(u, k) \/ (Left(u, k) /\ awaiting[u] = "GAMRLEAV"))
    BY DEF Behind
  <2>2. k \in Nat /\ i \in Nat
    BY <1>3, <1>4
  <2>3. k - 1 >= i
    BY <2>1, <2>2
  <2> QED
    BY <1>3, <1>8, <1>9, <2>1, <2>3, Behind(u, i + 1) DEF Behind
<1>17. WindowInv(u)'
  <2>1. page[u] = "room" \/ leaveRequested[u]
    BY <1>1, <1>2, <1>5 DEF OrderInv, Behind
  <2> QED
    BY <1>1, <1>8, <2>1 DEF WindowInv
<1>18. OrderInv(u)'
  <2>1. \A i, k \in At(u)' : k + 1 < i + 1 => k < i
    BY <1>3
  <2> QED
    BY <1>1, <1>3, <1>5, <1>6, <1>8, <1>16, <2>1 DEF OrderInv
<1>19. KickInv(u)'
  BY <1>1, <1>2, <1>3, <1>8 DEF KickInv
<1> QED
  BY <1>10, <1>11, <1>12, <1>13, <1>14, <1>15, <1>17, <1>18, <1>19 DEF ViewInv

\* The server's refusal answers the last request.
LEMMA ReadsRefusal ==
  ASSUME RInv, NEW u \in Users, Clear(u), OnRefused(u), Denied(u, 1)
  PROVE  ViewInv(u)'
<1>1. /\ MailInv(u) /\ AwaitInv(u) /\ EntryInv(u) /\ InRoomInv(u) /\ OutInv(u) /\ WindowInv(u) /\ OrderInv(u) /\ KickInv(u)
      /\ TypeInv
  BY DEF RInv, UInv, ViewInv
<1>2. /\ mail[u] # <<>> /\ mail'[u] = Tail(mail[u]) /\ UNCHANGED <<idOf, roomOf, kicked>>
      /\ 1 \in At(u) /\ Next1(u) = mail[u][1]
  <2>1. mail[u] # <<>> /\ mail' = [mail EXCEPT ![u] = Tail(@)] /\ UNCHANGED <<idOf, roomOf, kicked>>
    BY DEF OnRefused, Take, serverVars
  <2>2. mail'[u] = Tail(mail[u])
    BY <1>1, <2>1 DEF TypeInv
  <2> QED
    BY <1>1, <2>1, <2>2, Shifts
<1>3. /\ \A i \in At(u)' : i \in Nat /\ i > 0
      /\ \A i \in At(u)' : /\ i + 1 \in At(u)
                           /\ (Made(u, i)' <=> Made(u, i + 1)) /\ (Joined(u, i)' <=> Joined(u, i + 1)) /\ (Left(u, i)' <=> Left(u, i + 1))
                           /\ (Begun(u, i)' <=> Begun(u, i + 1)) /\ (Denied(u, i)' <=> Denied(u, i + 1)) /\ \A h : Closed(u, i, h)' <=> Closed(u, i + 1, h)
      /\ \A i \in At(u) : i \in Nat /\ i > 0
      /\ \A i \in At(u) : i = 1 \/ /\ i - 1 \in At(u)' /\ (Left(u, i - 1)' <=> Left(u, i))
                                   /\ \A h : Closed(u, i - 1, h)' <=> Closed(u, i, h)
  BY <1>1, <1>2, Shifts
<1>4. awaiting[u] = "refused" /\ roomOf[u] = 0 /\ ~Entering(u)
  BY <1>1, <1>2 DEF AwaitInv, InRoomInv
<1>5. /\ ~gameIdRequested[u] /\ ~userIdRequested[u]
      /\ \A i \in At(u) : ~Made(u, i) /\ ~Joined(u, i)
  BY <1>4, NotEntering
<1>6. \A i \in At(u)' : ~Joined(u, i)' /\ ~Made(u, i)' /\ ~Denied(u, i)'
  <2>1. \A i \in At(u)' : Denied(u, i)' => i + 1 = 1
    BY <1>1, <1>2, <1>3 DEF MailInv, OneEach
  <2>2. \A i \in At(u)' : i + 1 # 1
    BY <1>3
  <2> QED
    BY <1>3, <1>5, <2>1, <2>2
<1>7. /\ gameId'[u] = gameId[u] /\ ~gameIdRequested'[u] /\ ~userIdRequested'[u] /\ leaveRequested'[u] = leaveRequested[u]
      /\ userId'[u] = userId[u] /\ awaiting'[u] = "none" /\ page'[u] = page[u] /\ hosting'[u] = hosting[u]
      /\ toldKicked'[u] = toldKicked[u] /\ playerstat'[u] = playerstat[u]
  <2>1. Next1(u).who = u /\ Next1(u).kind = "refused"
    BY <1>2 DEF Denied, Own
  <2>2. awaiting'[u] = "none"
    BY <1>1, <1>4, <2>1 DEF OnRefused, Answered, TypeInv
  <2> QED
    BY <1>5, <2>2 DEF OnRefused, coreVars, windowVars
<1>8. MailInv(u)'
  BY <1>1, <1>2, ReadsInOrder
<1>9. AwaitInv(u)' /\ EntryInv(u)' /\ ~Entering(u)'
  BY <1>6, <1>7 DEF AwaitInv, EntryInv, EntryRoom, LearnsId, Entering
<1>10. InRoomInv(u)' /\ PlayInv(u)'
  BY <1>2, <1>4 DEF InRoomInv, PlayInv
<1>11. OutInv(u)'
  <2>1. \A i \in At(u) : Left(u, i) \/ Closed(u, i, gameId[u]) => i # 1
    BY DEF Left, Closed, Denied, Own
  <2> QED
    BY <1>1, <1>2, <1>3, <1>4, <1>7, <1>9, <2>1 DEF OutInv
<1>12. WindowInv(u)'
  BY <1>1, <1>7 DEF WindowInv
<1>13. OrderInv(u)'
  <2>1. \A i \in At(u)' : ~Behind(u, i + 1)
    <3> SUFFICES ASSUME NEW i \in At(u)', NEW k \in At(u), k >= i + 1, Denied(u, k) PROVE FALSE
      BY <1>4 DEF Behind
    <3>1. k = 1
      BY <1>1, <1>2 DEF MailInv, OneEach
    <3>2. i \in Nat /\ i > 0
      BY <1>3
    <3> QED
      BY <3>1, <3>2
  <2>2. \A i, k \in At(u)' : k + 1 < i + 1 => k < i
    BY <1>3
  <2> QED
    BY <1>1, <1>3, <1>4, <1>5, <1>7, <2>1, <2>2 DEF OrderInv
<1>14. KickInv(u)'
  BY <1>1, <1>2, <1>3, <1>4, <1>7 DEF KickInv
<1> QED
  BY <1>8, <1>9, <1>10, <1>11, <1>12, <1>13, <1>14 DEF ViewInv

\* GAMESHUT of the room that u was in: it is back in the lobby.
LEMMA ReadsShut ==
  ASSUME RInv, NEW u \in Users, Clear(u), OnGameShut(u), Closed(u, 1, gameId[u]), ~gameIdRequested[u]
  PROVE  ViewInv(u)'
<1>1. /\ MailInv(u) /\ AwaitInv(u) /\ EntryInv(u) /\ InRoomInv(u) /\ OutInv(u) /\ WindowInv(u) /\ OrderInv(u) /\ KickInv(u)
      /\ TypeInv /\ ShutInv
  BY DEF RInv, UInv, ViewInv
<1>2. /\ mail[u] # <<>> /\ mail'[u] = Tail(mail[u]) /\ UNCHANGED <<idOf, roomOf, kicked>>
      /\ 1 \in At(u) /\ Next1(u) = mail[u][1]
  <2>1. mail[u] # <<>> /\ mail' = [mail EXCEPT ![u] = Tail(@)] /\ UNCHANGED <<idOf, roomOf, kicked>>
    BY DEF OnGameShut, Take, serverVars
  <2>2. mail'[u] = Tail(mail[u])
    BY <1>1, <2>1 DEF TypeInv
  <2> QED
    BY <1>1, <2>1, <2>2, Shifts
<1>3. /\ \A i \in At(u)' : i \in Nat /\ i > 0
      /\ \A i \in At(u)' : /\ i + 1 \in At(u)
                           /\ (Made(u, i)' <=> Made(u, i + 1)) /\ (Joined(u, i)' <=> Joined(u, i + 1)) /\ (Left(u, i)' <=> Left(u, i + 1))
                           /\ (Begun(u, i)' <=> Begun(u, i + 1)) /\ (Denied(u, i)' <=> Denied(u, i + 1))
      /\ \A i \in At(u) : i \in Nat /\ i > 0
      /\ \A i \in At(u) : i = 1 \/ /\ i - 1 \in At(u)' /\ (Left(u, i - 1)' <=> Left(u, i)) /\ (Denied(u, i - 1)' <=> Denied(u, i))
  BY <1>1, <1>2, Shifts
<1>4. roomOf[u] # gameId[u]
  BY <1>1, <1>2 DEF ShutInv, Shuts, Closed, In
<1>5. ~Entering(u)
  <2> SUFFICES ASSUME NEW j \in At(u), Joined(u, j) PROVE FALSE
    BY DEF Entering
  <2>1. Enters(u, j, mail[u][j].game)
    BY <1>1 DEF EntryInv, EntryRoom
  <2>2. Closed(u, 1, mail[u][j].game)
    BY <2>1 DEF Enters
  <2>3. j < 1
    BY <1>1, <1>2, <2>2 DEF MailInv, AfterEntry
  <2>4. j \in Nat /\ j > 0
    BY <1>3
  <2> QED
    BY <2>3, <2>4
<1>6. roomOf[u] = 0
  BY <1>1, <1>4, <1>5 DEF InRoomInv
<1>7. /\ ~userIdRequested[u] /\ awaiting[u] # "GAMRJOIN" /\ \A i \in At(u) : ~Made(u, i) /\ ~Joined(u, i)
  BY <1>5, NotEntering
<1>8. /\ gameId'[u] = gameId[u] /\ ~gameIdRequested'[u] /\ ~userIdRequested'[u] /\ leaveRequested'[u] = leaveRequested[u]
      /\ userId'[u] = userId[u] /\ awaiting'[u] = awaiting[u] /\ page'[u] = "lobby" /\ ~hosting'[u]
      /\ toldKicked'[u] = toldKicked[u] /\ playerstat'[u] = -1
  BY <1>1, <1>2, <1>7 DEF OnGameShut, Closed, TypeInv
<1>9. \A i \in At(u) : Denied(u, i) \/ Left(u, i) => i # 1
  BY DEF Denied, Left, Closed, Own
<1>10. MailInv(u)'
  BY <1>1, <1>2, ReadsInOrder
<1>11. AwaitInv(u)' /\ EntryInv(u)' /\ ~Entering(u)'
  <2>1. (\E k \in At(u)' : Denied(u, k)') <=> \E k \in At(u) : Denied(u, k)
    BY <1>3, <1>9
  <2>2. (\E k \in At(u)' : Left(u, k)') <=> \E k \in At(u) : Left(u, k)
    BY <1>3, <1>9
  <2>3. \A i \in At(u)' : ~Joined(u, i)' /\ ~Made(u, i)'
    BY <1>3, <1>7
  <2> QED
    BY <1>1, <1>7, <1>8, <2>1, <2>2, <2>3 DEF AwaitInv, EntryInv, EntryRoom, LearnsId, Entering
<1>12. InRoomInv(u)' /\ PlayInv(u)'
  BY <1>2, <1>6 DEF InRoomInv, PlayInv
<1>13. OutInv(u)' /\ WindowInv(u)'
  BY <1>8, <1>11 DEF OutInv, WindowInv
<1>14. OrderInv(u)'
  <2>1. ASSUME NEW k \in At(u)', Left(u, k)' \/ Begun(u, k)' PROVE Behind(u, k)'
    <3>1. k \in Nat /\ k > 0
      BY <1>3
    <3>2. ~(k + 1 < 1)
      BY <3>1
    <3>3. Behind(u, k + 1)
      BY <1>1, <1>2, <1>3, <2>1, <3>2 DEF OrderInv
    <3>4. PICK m \in At(u) : m >= k + 1 /\ (Denied(u, m) \/ (Left(u, m) /\ awaiting[u] = "GAMRLEAV"))
      BY <3>3 DEF Behind
    <3>5. m \in Nat
      BY <1>3
    <3>6. m - 1 >= k
      BY <3>1, <3>4, <3>5
    <3> QED
      BY <1>3, <1>8, <1>9, <3>3, <3>4, <3>6 DEF Behind
  <2> QED
    BY <2>1 DEF OrderInv
<1>15. KickInv(u)'
  BY <1>1, <1>2, <1>3, <1>8 DEF KickInv
<1> QED
  BY <1>10, <1>11, <1>12, <1>13, <1>14, <1>15 DEF ViewInv

\* One's own GAMRJOIN is the only one that is read while the own id is asked for.
LEMMA LearnsOwn ==
  ASSUME RInv, NEW u \in Users, Clear(u), mail[u] # <<>>, Next1(u).kind = "GAMRJOIN", userIdRequested[u]
  PROVE  Next1(u).who = u
<1>1. Next1(u) = mail[u][1]
  BY Popped DEF RInv, TypeInv, Next1
<1>2. LearnsId(u)
  BY DEF RInv, UInv, ViewInv, EntryInv
<1> QED
  BY <1>1, <1>2 DEF LearnsId, Listed, Joined, Own

\* Whatever it reads, a user's window and core keep step with the server.
LEMMA ReadsView ==
  ASSUME RInv, NEW u \in Users, Process(u) \/ Skip(u), Clear(u)'
  PROVE  ViewInv(u)'
<1>1. TypeInv
  BY DEF RInv
<1>2. Clear(u)
  <2>1. OnPlayerJoin(u) \/ OnPlayerLeave(u) \/ belief' = belief
    BY DEF Process, OnServerStatus, OnUserJoin, OnUserLeave, OnGameMake, OnGameShut, OnGameBegin, OnPlayerList, OnPlayerDrop,
           OnRefused, Skip
  <2> QED
    BY <1>1, <2>1 DEF OnPlayerJoin, OnPlayerLeave, Clear, TypeInv
<1>3. /\ mail[u] # <<>> /\ mail'[u] = Tail(mail[u]) /\ UNCHANGED <<idOf, roomOf, ownerOf, playing>> /\ kicked' = kicked
  <2>1. mail[u] # <<>> /\ mail' = [mail EXCEPT ![u] = Tail(@)] /\ UNCHANGED <<idOf, roomOf, ownerOf, playing>> /\ kicked' = kicked
    BY DEF Process, OnServerStatus, OnUserJoin, OnUserLeave, OnGameMake, OnGameShut, OnGameBegin, OnPlayerList, OnPlayerJoin,
           OnPlayerLeave, OnPlayerDrop, OnRefused, Skip, Take, serverVars
  <2> QED
    BY <1>1, <2>1 DEF TypeInv
<1>4. 1 \in At(u) /\ Next1(u) = mail[u][1]
  BY <1>1, <1>3, Shifts
<1>5. CASE OnServerStatus(u)
  <2>1. /\ UNCHANGED <<isOwner, gameIdRequested, gameId, userIdRequested, leaveRequested, userId, playerstat, page, hosting, awaiting, toldKicked>>
        /\ mail[u][1].kind = "LONGSUCC"
    BY <1>4, <1>5 DEF OnServerStatus, windowVars, Take
  <2>2. ~Made(u, 1) /\ ~Listed(u, 1) /\ ~Joined(u, 1) /\ ~Left(u, 1) /\ ~Begun(u, 1) /\ ~Denied(u, 1) /\ ~Closed(u, 1, gameId[u])
    BY <2>1 DEF Made, Listed, Joined, Left, Begun, Denied, Closed, Own
  <2> QED
    BY <1>2, <1>3, <2>1, <2>2, ReadsOn
<1>6. CASE OnUserJoin(u) \/ (Skip(u) /\ Next1(u).kind = "USERJOIN")
  <2>1. /\ UNCHANGED <<isOwner, gameIdRequested, gameId, userIdRequested, leaveRequested, userId, playerstat, page, hosting, toldKicked>>
        /\ mail[u][1].kind = "USERJOIN" /\ Answered(u)
    BY <1>4, <1>6 DEF OnUserJoin, windowVars, coreVars, Take, Skip
  <2>2. ~Made(u, 1) /\ ~Listed(u, 1) /\ ~Joined(u, 1) /\ ~Left(u, 1) /\ ~Begun(u, 1) /\ ~Denied(u, 1) /\ ~Closed(u, 1, gameId[u])
    BY <2>1 DEF Made, Listed, Joined, Left, Begun, Denied, Closed, Own
  <2>3. awaiting'[u] = awaiting[u] \/ (awaiting[u] = "USERJOIN" /\ awaiting'[u] = "none")
    BY <1>1, <1>4, <2>1 DEF Answered, TypeInv
  <2> QED
    BY <1>2, <1>3, <2>1, <2>2, <2>3, ReadsOn
<1>7. CASE Skip(u) /\ Next1(u).kind # "USERJOIN"
  <2>1. /\ UNCHANGED <<isOwner, gameIdRequested, gameId, userIdRequested, leaveRequested, userId, playerstat, page, hosting, toldKicked>>
        /\ mail[u][1].kind = "LONGSUCC" /\ Answered(u)
    BY <1>4, <1>7 DEF windowVars, coreVars, Skip
  <2>2. ~Made(u, 1) /\ ~Listed(u, 1) /\ ~Joined(u, 1) /\ ~Left(u, 1) /\ ~Begun(u, 1) /\ ~Denied(u, 1) /\ ~Closed(u, 1, gameId[u])
    BY <2>1 DEF Made, Listed, Joined, Left, Begun, Denied, Closed, Own
  <2>3. awaiting'[u] = awaiting[u]
    BY <1>1, <1>4, <2>1 DEF Answered, TypeInv
  <2> QED
    BY <1>2, <1>3, <2>1, <2>2, <2>3, ReadsOn
<1>8. CASE OnUserLeave(u)
  <2>1. /\ UNCHANGED <<isOwner, gameIdRequested, gameId, userIdRequested, leaveRequested, userId, playerstat, page, hosting, awaiting, toldKicked>>
        /\ mail[u][1].kind = "USERLEAV"
    BY <1>4, <1>8 DEF OnUserLeave, windowVars, coreVars, Take
  <2>2. ~Made(u, 1) /\ ~Listed(u, 1) /\ ~Joined(u, 1) /\ ~Left(u, 1) /\ ~Begun(u, 1) /\ ~Denied(u, 1) /\ ~Closed(u, 1, gameId[u])
    BY <2>1 DEF Made, Listed, Joined, Left, Begun, Denied, Closed, Own
  <2> QED
    BY <1>2, <1>3, <2>1, <2>2, ReadsOn
<1>9. CASE OnGameMake(u)
  <2>1. mail[u][1].kind = "GAMEMAKE"
    BY <1>4, <1>9 DEF OnGameMake, Take
  <2>2. CASE Made(u, 1)
    BY <1>2, <1>9, <2>2, ReadsOwnRoom
  <2>3. CASE ~Made(u, 1)
    <3>1. ~Made(u, 1) /\ ~Listed(u, 1) /\ ~Joined(u, 1) /\ ~Left(u, 1) /\ ~Begun(u, 1) /\ ~Denied(u, 1) /\ ~Closed(u, 1, gameId[u])
      BY <2>1, <2>3 DEF Listed, Joined, Left, Begun, Denied, Closed, Own
    <3>2. Next1(u).who # u
      BY <1>4, <2>1, <2>3 DEF Made, Own
    <3>3. /\ playerstat'[u] = playerstat[u] /\ isOwner'[u] = isOwner[u] /\ gameIdRequested'[u] = gameIdRequested[u]
          /\ gameIdRequested[u] \/ gameId'[u] = gameId[u]
          /\ userIdRequested'[u] = userIdRequested[u] /\ leaveRequested'[u] = leaveRequested[u] /\ userId'[u] = userId[u]
          /\ page'[u] = page[u] /\ hosting'[u] = hosting[u] /\ awaiting'[u] = awaiting[u] /\ toldKicked'[u] = toldKicked[u]
      BY <1>1, <1>9, <3>2 DEF OnGameMake, TypeInv
    <3> QED
      BY <1>2, <1>3, <3>1, <3>3, ReadsOn
  <2> QED
    BY <2>2, <2>3
<1>10. CASE OnGameShut(u)
  <2>1. mail[u][1].kind = "GAMESHUT"
    BY <1>4, <1>10 DEF OnGameShut, Take
  <2>2. ~Made(u, 1) /\ ~Listed(u, 1) /\ ~Joined(u, 1) /\ ~Left(u, 1) /\ ~Begun(u, 1) /\ ~Denied(u, 1)
    BY <2>1 DEF Made, Listed, Joined, Left, Begun, Denied, Own
  <2>3. /\ isOwner'[u] = isOwner[u] /\ gameIdRequested'[u] = gameIdRequested[u] /\ gameId'[u] = gameId[u]
        /\ userIdRequested'[u] = userIdRequested[u] /\ leaveRequested'[u] = leaveRequested[u] /\ userId'[u] = userId[u]
        /\ awaiting'[u] = awaiting[u] /\ toldKicked'[u] = toldKicked[u]
    BY <1>10 DEF OnGameShut
  <2>4. CASE Closed(u, 1, gameId[u]) /\ ~gameIdRequested[u]
    BY <1>2, <1>10, <2>4, ReadsShut
  <2>5. CASE Closed(u, 1, gameId[u]) /\ gameIdRequested[u]
    <3>1. page'[u] = "lobby" /\ ~hosting'[u] /\ playerstat'[u] # 1
      BY <1>1, <1>4, <1>10, <2>5 DEF OnGameShut, Closed, TypeInv
    <3> QED
      BY <1>2, <1>3, <2>2, <2>3, <2>5, <3>1, ReadsOn
  <2>6. CASE ~Closed(u, 1, gameId[u])
    <3>1. page'[u] = page[u] /\ hosting'[u] = hosting[u] /\ playerstat'[u] = playerstat[u]
      BY <1>1, <1>4, <1>10, <2>1, <2>6 DEF OnGameShut, Closed, TypeInv
    <3> QED
      BY <1>2, <1>3, <2>2, <2>3, <2>6, <3>1, ReadsOn
  <2> QED
    BY <2>4, <2>5, <2>6
<1>11. CASE OnPlayerJoin(u)
  <2>1. mail[u][1].kind = "GAMRJOIN"
    BY <1>4, <1>11 DEF OnPlayerJoin, Take
  <2>2. CASE Joined(u, 1)
    BY <1>2, <1>11, <2>2, ReadsOwnJoin
  <2>3. CASE ~Joined(u, 1)
    <3>1. ~Made(u, 1) /\ ~Listed(u, 1) /\ ~Joined(u, 1) /\ ~Left(u, 1) /\ ~Begun(u, 1) /\ ~Denied(u, 1) /\ ~Closed(u, 1, gameId[u])
      BY <2>1, <2>3 DEF Listed, Made, Left, Begun, Denied, Closed, Own
    <3>2. Next1(u).who # u /\ Next1(u).kind = "GAMRJOIN"
      BY <1>4, <2>1, <2>3 DEF Joined, Own
    <3>3. ~userIdRequested[u]
      BY <1>2, <1>3, <3>2, LearnsOwn
    <3>4. awaiting'[u] = awaiting[u]
      BY <1>1, <1>11, <3>2 DEF OnPlayerJoin, Answered, TypeInv
    <3>5. UNCHANGED <<page, hosting, toldKicked>>
      BY <1>11 DEF OnPlayerJoin, windowVars
    <3>6. /\ playerstat'[u] = playerstat[u] /\ isOwner'[u] = isOwner[u] /\ gameIdRequested'[u] = gameIdRequested[u]
          /\ gameId'[u] = gameId[u]
          /\ userIdRequested'[u] = userIdRequested[u] /\ leaveRequested'[u] = leaveRequested[u] /\ userId'[u] = userId[u]
      BY <1>1, <1>11, <3>3 DEF OnPlayerJoin, TypeInv
    <3> QED
      BY <1>2, <1>3, <3>1, <3>4, <3>5, <3>6, ReadsOn
  <2> QED
    BY <2>2, <2>3
<1>12. CASE OnPlayerLeave(u)
  <2>1. mail[u][1].kind = "GAMRLEAV"
    BY <1>4, <1>12 DEF OnPlayerLeave, Take
  <2>2. CASE Left(u, 1)
    BY <1>2, <1>12, <2>2, ReadsOwnLeave
  <2>3. CASE ~Left(u, 1)
    <3>1. ~Made(u, 1) /\ ~Listed(u, 1) /\ ~Joined(u, 1) /\ ~Left(u, 1) /\ ~Begun(u, 1) /\ ~Denied(u, 1) /\ ~Closed(u, 1, gameId[u])
      BY <2>1, <2>3 DEF Listed, Made, Joined, Begun, Denied, Closed, Own
    <3>2. Next1(u).who # u /\ Next1(u).who \in Users
      BY <1>1, <1>3, <1>4, <2>1, <2>3, Shifts DEF Left, Own, Messages
    <3>3. ~(Next1(u).id = userId[u] /\ ~leaveRequested[u])
      <4> SUFFICES ASSUME Next1(u).id = userId[u], ~leaveRequested[u] PROVE FALSE
        OBVIOUS
      <4>1. IdOk(u, mail[u][1]) /\ (belief[u] = "own" => userId[u] = idOf[u])
        BY <1>4 DEF RInv, UInv, IdInv
      <4>2. Next1(u).id # idOf[u]
        BY <1>4, <2>1, <3>2, <4>1 DEF IdOk
      <4>3. belief[u] = "stale"
        BY <1>2, <1>1, <4>1, <4>2 DEF Clear, TypeInv
      <4>4. belief'[u] = "misled"
        BY <1>1, <1>12, <3>2, <4>3 DEF OnPlayerLeave, TypeInv
      <4> QED
        BY <4>4 DEF Clear
    <3>4. awaiting'[u] = awaiting[u]
      BY <1>1, <1>12, <3>2 DEF OnPlayerLeave, Answered, TypeInv
    <3>5. /\ playerstat'[u] = playerstat[u] /\ isOwner'[u] = isOwner[u] /\ gameIdRequested'[u] = gameIdRequested[u]
          /\ gameId'[u] = gameId[u] /\ page'[u] = page[u] /\ hosting'[u] = hosting[u] /\ toldKicked'[u] = toldKicked[u]
          /\ userIdRequested'[u] = userIdRequested[u] /\ leaveRequested'[u] = leaveRequested[u] /\ userId'[u] = userId[u]
      BY <1>1, <1>12, <3>3 DEF OnPlayerLeave, TypeInv
    <3> QED
      BY <1>2, <1>3, <3>1, <3>4, <3>5, ReadsOn
  <2> QED
    BY <2>2, <2>3
<1>13. CASE OnPlayerDrop(u)
  <2>1. /\ UNCHANGED <<isOwner, gameIdRequested, gameId, userIdRequested, leaveRequested, userId, page, hosting, awaiting, toldKicked>>
        /\ mail[u][1].kind = "GAMRDROP"
    BY <1>4, <1>13 DEF OnPlayerDrop, windowVars, Take
  <2>2. ~Made(u, 1) /\ ~Listed(u, 1) /\ ~Joined(u, 1) /\ ~Left(u, 1) /\ ~Begun(u, 1) /\ ~Denied(u, 1) /\ ~Closed(u, 1, gameId[u])
    BY <2>1 DEF Made, Listed, Joined, Left, Begun, Denied, Closed, Own
  <2>3. playerstat'[u] = playerstat[u] \/ playerstat'[u] # 1
    BY <1>1, <1>13 DEF OnPlayerDrop, TypeInv
  <2> QED
    BY <1>2, <1>3, <2>1, <2>2, <2>3, ReadsOn
<1>14. CASE OnRefused(u)
  <2>1. mail[u][1].kind = "refused"
    BY <1>4, <1>14 DEF OnRefused, Take
  <2>2. CASE Denied(u, 1)
    BY <1>2, <1>14, <2>2, ReadsRefusal
  <2>3. CASE ~Denied(u, 1)
    <3>1. ~Made(u, 1) /\ ~Listed(u, 1) /\ ~Joined(u, 1) /\ ~Left(u, 1) /\ ~Begun(u, 1) /\ ~Denied(u, 1) /\ ~Closed(u, 1, gameId[u])
      BY <2>1, <2>3 DEF Listed, Made, Joined, Begun, Left, Closed, Own
    <3>2. Next1(u).who # u
      BY <1>4, <2>1, <2>3 DEF Denied, Own
    <3>3. /\ UNCHANGED <<isOwner, gameIdRequested, gameId, userIdRequested, leaveRequested, userId, playerstat, page, hosting, toldKicked>>
          /\ Answered(u)
      BY <1>14 DEF OnRefused, coreVars, windowVars
    <3>4. awaiting'[u] = awaiting[u]
      BY <1>1, <3>2, <3>3 DEF Answered, TypeInv
    <3> QED
      BY <1>2, <1>3, <3>1, <3>3, <3>4, ReadsOn
  <2> QED
    BY <2>2, <2>3
<1> QED
  BY <1>2, <1>5, <1>6, <1>7, <1>8, <1>9, <1>10, <1>11, <1>12, <1>13, <1>14, ReadsPlayerList, ReadsBegin DEF Process

\* What it reads leaves it with its own id, if it knows that.
LEMMA ReadsIds ==
  ASSUME RInv, NEW u \in Users, Process(u) \/ Skip(u)
  PROVE  IdInv(u)'
<1>1. TypeInv /\ IdInv(u)
  BY DEF RInv, UInv
<1>2. /\ mail[u] # <<>> /\ mail'[u] = Tail(mail[u]) /\ idOf' = idOf
  <2>1. mail[u] # <<>> /\ mail' = [mail EXCEPT ![u] = Tail(@)] /\ idOf' = idOf
    BY DEF Process, OnServerStatus, OnUserJoin, OnUserLeave, OnGameMake, OnGameShut, OnGameBegin, OnPlayerList, OnPlayerJoin,
           OnPlayerLeave, OnPlayerDrop, OnRefused, Skip, Take, serverVars
  <2> QED
    BY <1>1, <2>1 DEF TypeInv
<1>3. /\ 1 \in At(u) /\ Next1(u) = mail[u][1]
      /\ \A i \in At(u)' : i + 1 \in At(u) /\ mail'[u][i] = mail[u][i + 1]
  BY <1>1, <1>2, Shifts
<1>4. \A i \in At(u)' : IdOk(u, mail'[u][i])
  BY <1>1, <1>3 DEF IdInv
<1>5. belief'[u] = "own" => userId'[u] = idOf[u]
  <2> SUFFICES ASSUME belief'[u] = "own" PROVE userId'[u] = idOf[u]
    OBVIOUS
  <2>1. CASE OnPlayerJoin(u)
    <3>1. Clear(u)
      BY <1>1, <2>1 DEF OnPlayerJoin, Clear, TypeInv
    <3>2. userIdRequested[u] => Next1(u).who = u
      BY <1>2, <2>1, <3>1, LearnsOwn DEF OnPlayerJoin, Take
    <3>3. Next1(u).who = u => Next1(u).id = idOf[u]
      BY <1>1, <1>3, <2>1 DEF OnPlayerJoin, Take, IdInv, IdOk
    <3>4. CASE userIdRequested[u]
      BY <1>1, <2>1, <3>2, <3>3, <3>4 DEF OnPlayerJoin, TypeInv
    <3>5. CASE ~userIdRequested[u]
      <4>1. userId'[u] = userId[u] /\ belief[u] = "own"
        BY <1>1, <2>1, <3>5 DEF OnPlayerJoin, TypeInv
      <4> QED
        BY <1>1, <4>1 DEF IdInv
    <3> QED
      BY <3>4, <3>5
  <2>2. CASE OnPlayerLeave(u)
    <3>1. userId' = userId /\ belief[u] = "own"
      BY <1>1, <2>2 DEF OnPlayerLeave, TypeInv
    <3> QED
      BY <1>1, <3>1 DEF IdInv
  <2>3. CASE ~OnPlayerJoin(u) /\ ~OnPlayerLeave(u)
    <3>1. userId' = userId /\ belief' = belief
      BY <2>3 DEF Process, OnServerStatus, OnUserJoin, OnUserLeave, OnGameMake, OnGameShut, OnGameBegin, OnPlayerList,
                  OnPlayerDrop, OnRefused, Skip, coreVars
    <3> QED
      BY <1>1, <3>1 DEF IdInv
  <2> QED
    BY <2>1, <2>2, <2>3
<1> QED
  BY <1>2, <1>4, <1>5 DEF IdInv, IdOk

\* A login is noticed by one of the two messages that tell of it.
LEMMA ReadsLogin ==
  ASSUME RInv, NEW u \in Users, Process(u) \/ Skip(u)
  PROVE  LoginInv(u)'
<1>1. TypeInv /\ Away(u) /\ LoginInv(u)
  BY DEF RInv, UInv
<1>2. /\ mail[u] # <<>> /\ mail'[u] = Tail(mail[u]) /\ connected' = connected /\ (skips >= 1 => skips' >= 1)
  <2>1. mail[u] # <<>> /\ mail' = [mail EXCEPT ![u] = Tail(@)] /\ connected' = connected /\ (skips' = skips \/ skips' = skips + 1)
    BY DEF Process, OnServerStatus, OnUserJoin, OnUserLeave, OnGameMake, OnGameShut, OnGameBegin, OnPlayerList, OnPlayerJoin,
           OnPlayerLeave, OnPlayerDrop, OnRefused, Skip, Take, serverVars
  <2>2. skips \in Int /\ (skips >= 1 => skips + 1 >= 1)
    BY <1>1, RoomAssumption DEF TypeInv
  <2> QED
    BY <1>1, <2>1, <2>2 DEF TypeInv
<1>3. 1 \in At(u) /\ Next1(u) = mail[u][1] /\ mail[u] \in Seq(Messages) /\ u \in connected
  BY <1>1, <1>2, Shifts DEF Away
<1>4. CASE Process(u)
  <2>1. /\ userstat[u] # 0
        /\ userstat'[u] \in {userstat[u], 2, 3}
        /\ Next1(u).kind = "LONGSUCC" \/ (Next1(u).kind = "USERJOIN" /\ Next1(u).who = u) => userstat'[u] # 1
    <3>1. ASSUME OnServerStatus(u) PROVE userstat'[u] \in {userstat[u], 2} /\ userstat'[u] # 1
      BY <1>1, <3>1 DEF OnServerStatus, TypeInv
    <3>2. ASSUME OnUserJoin(u) PROVE userstat'[u] \in {userstat[u], 2} /\ (Next1(u).who = u => userstat'[u] # 1) /\ Next1(u).kind = "USERJOIN"
      BY <1>1, <3>2 DEF OnUserJoin, Take, TypeInv
    <3>3. ASSUME OnUserLeave(u) \/ OnGameBegin(u) \/ OnRefused(u)
          PROVE  userstat'[u] = userstat[u] /\ Next1(u).kind \notin {"LONGSUCC", "USERJOIN"}
      BY <3>3 DEF OnUserLeave, OnGameBegin, OnRefused, coreVars, Take
    <3>4. ASSUME OnGameMake(u) \/ OnGameShut(u) \/ OnPlayerList(u) \/ OnPlayerJoin(u) \/ OnPlayerLeave(u) \/ OnPlayerDrop(u)
          PROVE  userstat'[u] \in {userstat[u], 2, 3} /\ Next1(u).kind \notin {"LONGSUCC", "USERJOIN"}
      BY <1>1, <3>4 DEF OnGameMake, OnGameShut, OnPlayerList, OnPlayerJoin, OnPlayerLeave, OnPlayerDrop, Take, TypeInv
    <3> QED
      BY <1>1, <1>3, <1>4, <3>1, <3>2, <3>3, <3>4 DEF Process, LoginInv
  <2>2. userstat'[u] # 0
    BY <2>1
  <2>3. userstat[u] = 1 /\ MaxSkips <= 1 => userstat'[u] # 1
    BY <1>1, <1>3, <2>1 DEF LoginInv, Own
  <2>4. MaxSkips <= 1 => userstat'[u] # 1
    BY <2>1, <2>3
  <2> QED
    BY <2>2, <2>4 DEF LoginInv
<1>5. CASE Skip(u)
  <2>1. userstat'[u] = userstat[u] /\ Answered(u) /\ skips < MaxSkips /\ skips' = skips + 1 /\ skips \in Nat /\ MaxSkips \in Nat
    BY <1>1, <1>5, RoomAssumption DEF Skip, coreVars, TypeInv
  <2> SUFFICES ASSUME userstat[u] = 1, MaxSkips <= 1 PROVE LoginInv(u)'
    BY <1>1, <1>2, <1>3, <2>1 DEF LoginInv
  <2>2. ~(skips >= 1) /\ skips' >= 1
    BY <2>1
  <2>3. awaiting[u] = "USERJOIN" /\ Len(mail[u]) >= 2 /\ mail[u][1].kind = "LONGSUCC" /\ Own(u, 2, "USERJOIN")
    BY <1>1, <1>3, <2>2 DEF LoginInv
  <2>4. awaiting'[u] = "USERJOIN"
    BY <1>1, <1>3, <2>1, <2>3 DEF Answered, TypeInv
  <2>5. Len(mail'[u]) >= 1 /\ mail'[u][1] = mail[u][2]
    <3>1. mail'[u] \in Seq(Messages) /\ Len(mail'[u]) = Len(mail[u]) - 1
      BY <1>2, <1>3, HeadTailProperties
    <3>2. Len(mail[u]) \in Nat
      BY <1>3, LenProperties
    <3>3. 1 \in 1 .. Len(mail'[u])
      BY <2>3, <3>1, <3>2
    <3>4. mail'[u][1] = mail[u][1 + 1]
      BY <1>2, <1>3, <3>3, HeadTailProperties
    <3> QED
      BY <2>3, <3>1, <3>2, <3>4
  <2> QED
    BY <2>1, <2>2, <2>3, <2>4, <2>5 DEF LoginInv, Own
<1> QED
  BY <1>4, <1>5

\* What is read keeps every variable's type.
LEMMA ReadsType ==
  ASSUME RInv, NEW u \in Users, Process(u) \/ Skip(u)
  PROVE  TypeInv'
<1>1. TypeInv
  BY DEF RInv
<1>2. /\ mail[u] # <<>> /\ mail' = [mail EXCEPT ![u] = Tail(mail[u])] /\ UNCHANGED <<connected, roomOf, ownerOf, playing>>
  BY <1>1 DEF Process, OnServerStatus, OnUserJoin, OnUserLeave, OnGameMake, OnGameShut, OnGameBegin, OnPlayerList, OnPlayerJoin,
              OnPlayerLeave, OnPlayerDrop, OnRefused, Skip, Take, serverVars
<1>3. mail' \in [Users -> Seq(Messages)] /\ Next1(u) \in Messages
  BY <1>1, <1>2, Popped DEF TypeInv, Next1
<1>4. skips' \in 0 .. MaxSkips
  <2>1. CASE Skip(u)
    BY <1>1, <2>1, RoomAssumption DEF TypeInv, Skip
  <2>2. CASE Process(u)
    <3>1. skips' = skips
      BY <2>2 DEF Process, OnServerStatus, OnUserJoin, OnUserLeave, OnGameMake, OnGameShut, OnGameBegin, OnPlayerList, OnPlayerJoin,
           OnPlayerLeave, OnPlayerDrop, OnRefused, Take
    <3> QED
      BY <1>1, <3>1 DEF TypeInv
  <2> QED
    BY <2>1, <2>2
<1>5. awaiting' = awaiting \/ awaiting' = [awaiting EXCEPT ![u] = IF Next1(u).who = u /\ Next1(u).kind = @ THEN "none" ELSE @]
  BY DEF Process, OnServerStatus, OnUserJoin, OnUserLeave, OnGameMake, OnGameShut, OnGameBegin, OnPlayerList, OnPlayerJoin,
         OnPlayerLeave, OnPlayerDrop, OnRefused, Skip, Answered
<1>6. awaiting' \in [Users -> {"none", "USERJOIN", "GAMRJOIN", "GAMRLEAV", "refused"}]
  BY <1>1, <1>5 DEF TypeInv
<1>7. /\ isOwner' = isOwner /\ leaveRequested' = leaveRequested /\ idOf' = idOf
      /\ (userId' = userId /\ belief' = belief) \/ OnPlayerJoin(u) \/ (userId' = userId /\ OnPlayerLeave(u))
  BY DEF Process, OnServerStatus, OnUserJoin, OnUserLeave, OnGameMake, OnGameShut, OnGameBegin, OnPlayerList, OnPlayerJoin,
         OnPlayerLeave, OnPlayerDrop, OnRefused, Skip, coreVars, Take, serverVars
<1>8. userId' \in [Users -> Nat] /\ belief' \in [Users -> {"stale", "own", "misled"}]
  <2>1. CASE OnPlayerJoin(u)
    <3>1. userId' \in [Users -> Nat]
      BY <1>1, <1>3, <2>1 DEF OnPlayerJoin, TypeInv, Messages
    <3>2. belief' \in [Users -> {"stale", "own", "misled"}]
      BY <1>1, <2>1 DEF OnPlayerJoin, TypeInv
    <3> QED
      BY <3>1, <3>2
  <2>2. CASE OnPlayerLeave(u)
    <3>1. belief' \in [Users -> {"stale", "own", "misled"}]
      BY <1>1, <2>2 DEF OnPlayerLeave, TypeInv
    <3> QED
      BY <1>1, <1>7, <2>1, <2>2, <3>1 DEF TypeInv
  <2> QED
    BY <1>1, <1>7, <2>1, <2>2 DEF TypeInv
<1> DEFINE Rest == /\ userstat \in [Users -> 0 .. 3] /\ playerstat \in [Users -> {-1, 0, 1}]
                   /\ gameIdRequested \in [Users -> BOOLEAN] /\ userIdRequested \in [Users -> BOOLEAN]
                   /\ hosting \in [Users -> BOOLEAN] /\ toldKicked \in [Users -> BOOLEAN]
                   /\ gameId \in [Users -> Nat] /\ page \in [Users -> {"lobby", "room"}]
<1>9. Rest'
  <2>1. Rest
    BY <1>1 DEF TypeInv
  <2>2. CASE OnUserLeave(u) \/ OnRefused(u) \/ Skip(u)
    <3>1. UNCHANGED <<userstat, playerstat, gameIdRequested, userIdRequested, hosting, toldKicked, gameId, page>>
      BY <2>2 DEF OnUserLeave, OnRefused, Skip, coreVars, windowVars
    <3> QED
      BY <2>1, <3>1
  <2>3. CASE OnServerStatus(u)
    <3>1. UNCHANGED <<playerstat, gameIdRequested, userIdRequested, hosting, toldKicked, gameId, page>>
      BY <2>3 DEF OnServerStatus, windowVars, coreVars
    <3>2. userstat' \in [Users -> 0 .. 3]
      BY <1>3, <2>1, <2>3 DEF OnServerStatus
    <3> QED
      BY <2>1, <3>1, <3>2
  <2>4. CASE OnUserJoin(u)
    <3>1. UNCHANGED <<playerstat, gameIdRequested, userIdRequested, hosting, toldKicked, gameId, page>>
      BY <2>4 DEF OnUserJoin, windowVars, coreVars
    <3>2. userstat' \in [Users -> 0 .. 3]
      BY <1>3, <2>1, <2>4 DEF OnUserJoin
    <3> QED
      BY <2>1, <3>1, <3>2
  <2>5. CASE OnGameMake(u)
    <3>1. UNCHANGED <<toldKicked>>
      BY <2>5 DEF OnGameMake, windowVars, coreVars
    <3>2. userstat' \in [Users -> 0 .. 3]
      BY <1>3, <2>1, <2>5 DEF OnGameMake
    <3>3. playerstat' \in [Users -> {-1, 0, 1}]
      BY <1>3, <2>1, <2>5 DEF OnGameMake
    <3>4. gameIdRequested' \in [Users -> BOOLEAN]
      BY <1>3, <2>1, <2>5 DEF OnGameMake
    <3>5. userIdRequested' \in [Users -> BOOLEAN]
      BY <1>3, <2>1, <2>5 DEF OnGameMake
    <3>6. hosting' \in [Users -> BOOLEAN]
      BY <1>3, <2>1, <2>5 DEF OnGameMake
    <3>7. gameId' \in [Users -> Nat]
      BY <1>3, <2>1, <2>5 DEF OnGameMake, Messages
    <3>8. page' \in [Users -> {"lobby", "room"}]
      BY <1>3, <2>1, <2>5 DEF OnGameMake
    <3> QED
      BY <2>1, <3>1, <3>2, <3>3, <3>4, <3>5, <3>6, <3>7, <3>8
  <2>6. CASE OnGameShut(u)
    <3>1. UNCHANGED <<gameIdRequested, userIdRequested, toldKicked, gameId>>
      BY <2>6 DEF OnGameShut, windowVars, coreVars
    <3>2. userstat' \in [Users -> 0 .. 3]
      BY <1>3, <2>1, <2>6 DEF OnGameShut
    <3>3. playerstat' \in [Users -> {-1, 0, 1}]
      BY <1>3, <2>1, <2>6 DEF OnGameShut
    <3>4. hosting' \in [Users -> BOOLEAN]
      BY <1>3, <2>1, <2>6 DEF OnGameShut
    <3>5. page' \in [Users -> {"lobby", "room"}]
      BY <1>3, <2>1, <2>6 DEF OnGameShut
    <3> QED
      BY <2>1, <3>1, <3>2, <3>3, <3>4, <3>5
  <2>7. CASE OnPlayerList(u)
    <3>1. UNCHANGED <<gameIdRequested, userIdRequested, toldKicked, gameId>>
      BY <2>7 DEF OnPlayerList, windowVars, coreVars
    <3>2. userstat' \in [Users -> 0 .. 3]
      BY <1>3, <2>1, <2>7 DEF OnPlayerList
    <3>3. playerstat' \in [Users -> {-1, 0, 1}]
      BY <1>3, <2>1, <2>7 DEF OnPlayerList
    <3>4. hosting' \in [Users -> BOOLEAN]
      BY <1>3, <2>1, <2>7 DEF OnPlayerList
    <3>5. page' \in [Users -> {"lobby", "room"}]
      BY <1>3, <2>1, <2>7 DEF OnPlayerList
    <3> QED
      BY <2>1, <3>1, <3>2, <3>3, <3>4, <3>5
  <2>8. CASE OnPlayerJoin(u)
    <3>1. UNCHANGED <<gameIdRequested, hosting, toldKicked, gameId, page>>
      BY <2>8 DEF OnPlayerJoin, windowVars, coreVars
    <3>2. userstat' \in [Users -> 0 .. 3]
      BY <1>3, <2>1, <2>8 DEF OnPlayerJoin
    <3>3. playerstat' \in [Users -> {-1, 0, 1}]
      BY <1>3, <2>1, <2>8 DEF OnPlayerJoin
    <3>4. userIdRequested' \in [Users -> BOOLEAN]
      BY <1>3, <2>1, <2>8 DEF OnPlayerJoin
    <3> QED
      BY <2>1, <3>1, <3>2, <3>3, <3>4
  <2>9. CASE OnPlayerLeave(u)
    <3>1. UNCHANGED <<gameIdRequested, userIdRequested, gameId>>
      BY <2>9 DEF OnPlayerLeave, windowVars, coreVars
    <3>2. userstat' \in [Users -> 0 .. 3]
      BY <1>3, <2>1, <2>9 DEF OnPlayerLeave
    <3>3. playerstat' \in [Users -> {-1, 0, 1}]
      BY <1>3, <2>1, <2>9 DEF OnPlayerLeave
    <3>4. hosting' \in [Users -> BOOLEAN]
      BY <1>3, <2>1, <2>9 DEF OnPlayerLeave
    <3>5. toldKicked' \in [Users -> BOOLEAN]
      BY <1>3, <2>1, <2>9 DEF OnPlayerLeave
    <3>6. page' \in [Users -> {"lobby", "room"}]
      BY <1>3, <2>1, <2>9 DEF OnPlayerLeave
    <3> QED
      BY <2>1, <3>1, <3>2, <3>3, <3>4, <3>5, <3>6
  <2>10. CASE OnPlayerDrop(u)
    <3>1. UNCHANGED <<gameIdRequested, userIdRequested, hosting, toldKicked, gameId, page>>
      BY <2>10 DEF OnPlayerDrop, windowVars, coreVars
    <3>2. userstat' \in [Users -> 0 .. 3]
      BY <1>3, <2>1, <2>10 DEF OnPlayerDrop
    <3>3. playerstat' \in [Users -> {-1, 0, 1}]
      BY <1>3, <2>1, <2>10 DEF OnPlayerDrop
    <3> QED
      BY <2>1, <3>1, <3>2, <3>3
  <2>11. CASE OnGameBegin(u)
    <3>1. UNCHANGED <<userstat, gameIdRequested, userIdRequested, hosting, toldKicked, gameId, page>>
      BY <2>11 DEF OnGameBegin, windowVars, coreVars
    <3>2. playerstat' \in [Users -> {-1, 0, 1}]
      BY <1>3, <2>1, <2>11 DEF OnGameBegin
    <3> QED
      BY <2>1, <3>1, <3>2
  <2> QED
    BY <2>2, <2>3, <2>4, <2>5, <2>6, <2>7, <2>8, <2>9, <2>10, <2>11 DEF Process
<1> QED
  BY <1>1, <1>2, <1>3, <1>4, <1>6, <1>7, <1>8, <1>9 DEF TypeInv

\* Who is not concerned at all.
LEMMA Untouched ==
  ASSUME RInv, NEW w \in Users, Local(w), mail'[w] = mail[w], w \in connected' <=> w \in connected, skips >= 1 => skips' >= 1,
         w \in kicked => w \in kicked', \A g \in Known : g \in Known' /\ ownerOf'[g] = ownerOf[g], roomOf'[w] = roomOf[w],
         roomOf'[w] # 0 => (w \in playing' <=> w \in playing)
  PROVE  UInv(w)'
<1>1. mail[w] \in Seq(Messages)
  BY DEF RInv, TypeInv
<1>2. PICK s : s = <<>>
  OBVIOUS
<1>3. s \in Seq(Messages) /\ mail'[w] = mail[w] \o s /\ DOMAIN s = {}
  BY <1>1, <1>2, EmptySeq, ConcatEmptySeq
<1> QED
  BY <1>2, <1>3, Hears

\* Every step in which a user reads, or loses a message of the login, keeps the invariant.
LEMMA Reads ==
  ASSUME RInv, NEW u \in Users, Process(u) \/ Skip(u)
  PROVE  RInv'
<1>1. TypeInv /\ KnownInv /\ RoomsInv /\ ShutInv /\ \A w \in Users : UInv(w)
  BY DEF RInv
<1>2. /\ mail[u] # <<>> /\ mail' = [mail EXCEPT ![u] = Tail(mail[u])] /\ UNCHANGED <<connected, idOf, roomOf, ownerOf, playing>>
      /\ kicked' = kicked /\ (skips' = skips \/ skips' = skips + 1)
  BY <1>1 DEF Process, OnServerStatus, OnUserJoin, OnUserLeave, OnGameMake, OnGameShut, OnGameBegin, OnPlayerList, OnPlayerJoin,
              OnPlayerLeave, OnPlayerDrop, OnRefused, Skip, Take, serverVars
<1>3. KnownInv'
  BY <1>1, <1>2 DEF KnownInv, Known
<1>4. RoomsInv'
  BY <1>1, <1>2 DEF RoomsInv, Known
<1>5. \A w \in Users \ {u} : mail'[w] = mail[w]
  BY <1>1, <1>2 DEF TypeInv
<1>6. mail'[u] = Tail(mail[u])
  BY <1>1, <1>2 DEF TypeInv
<1>7. ShutInv'
  <2>1. \A i \in At(u)' : i + 1 \in At(u) /\ mail'[u][i] = mail[u][i + 1]
    BY <1>1, <1>2, <1>6, Shifts
  <2>2. ASSUME NEW w \in Users, NEW i \in At(w)' PROVE \E k \in At(w) : mail'[w][i] = mail[w][k]
    BY <1>5, <2>1 DEF At
  <2>3. ASSUME NEW w \in Users, NEW i \in At(w)', mail'[w][i].kind = "GAMESHUT"
        PROVE  mail'[w][i].game \in Known /\ In(mail'[w][i].game) = {}
    <3>1. PICK k \in At(w) : mail'[w][i] = mail[w][k]
      BY <2>2
    <3> QED
      BY <1>1, <2>3, <3>1 DEF ShutInv, Shuts
  <2>4. \A g : In(g)' = In(g) /\ Known' = Known
    BY <1>2 DEF In, Known
  <2> QED
    BY <2>3, <2>4 DEF ShutInv, Shuts
<1>8. UInv(u)'
  <2>1. u \in connected
    BY <1>1, <1>2 DEF UInv, Away
  <2>2. Away(u)'
    BY <1>2, <2>1 DEF Away
  <2> QED
    BY <2>2, ReadsLogin, ReadsIds, ReadsView DEF UInv, Clear
<1>9. ASSUME NEW w \in Users \ {u} PROVE UInv(w)'
  <2>1. Local(w)
    <3>1. CASE OnServerStatus(u)
      BY <1>1, <3>1 DEF OnServerStatus, windowVars, Take, serverVars, Local, TypeInv
    <3>2. CASE OnUserJoin(u)
      BY <1>1, <3>2 DEF OnUserJoin, Answered, coreVars, windowVars, Take, serverVars, Local, TypeInv
    <3>3. CASE OnUserLeave(u)
      BY <1>1, <3>3 DEF OnUserLeave, coreVars, windowVars, Take, serverVars, Local, TypeInv
    <3>4. CASE OnGameMake(u)
      BY <1>1, <3>4 DEF OnGameMake, Take, serverVars, Local, TypeInv
    <3>5. CASE OnGameShut(u)
      BY <1>1, <3>5 DEF OnGameShut, Take, serverVars, Local, TypeInv
    <3>6. CASE OnGameBegin(u)
      BY <1>1, <3>6 DEF OnGameBegin, windowVars, Take, serverVars, Local, TypeInv
    <3>7. CASE OnPlayerList(u)
      BY <1>1, <3>7 DEF OnPlayerList, Take, serverVars, Local, TypeInv
    <3>8. CASE OnPlayerJoin(u)
      BY <1>1, <3>8 DEF OnPlayerJoin, Answered, windowVars, Take, serverVars, Local, TypeInv
    <3>9. CASE OnPlayerLeave(u)
      BY <1>1, <3>9 DEF OnPlayerLeave, Answered, Take, serverVars, Local, TypeInv
    <3>10. CASE OnPlayerDrop(u)
      BY <1>1, <3>10 DEF OnPlayerDrop, windowVars, Take, serverVars, Local, TypeInv
    <3>11. CASE OnRefused(u)
      BY <1>1, <3>11 DEF OnRefused, Answered, coreVars, windowVars, Take, serverVars, Local, TypeInv
    <3>12. CASE Skip(u)
      BY <1>1, <3>12 DEF Skip, Answered, coreVars, windowVars, serverVars, Local, TypeInv
    <3> QED
      BY <3>1, <3>2, <3>3, <3>4, <3>5, <3>6, <3>7, <3>8, <3>9, <3>10, <3>11, <3>12 DEF Process
  <2>2. skips >= 1 => skips' >= 1
    <3>1. skips \in Int
      BY <1>1, RoomAssumption DEF TypeInv
    <3> QED
      BY <1>2, <3>1
  <2>3. \A g \in Known : g \in Known' /\ ownerOf'[g] = ownerOf[g]
    BY <1>2 DEF Known
  <2> QED
    BY <1>2, <1>5, <2>1, <2>2, <2>3, Untouched
<1> QED
  BY <1>3, <1>4, <1>7, <1>8, <1>9, ReadsType DEF RInv

\* What a user is told of the others.
Told(w, s) == s \in Seq(Messages) /\ \A i \in DOMAIN s : Foreign(w, s[i]) \/ s[i].kind = "GAMESHUT"
Says(s, m) == \E i \in DOMAIN s : s[i] = m

\* It may be nothing, one message, or what two senders tell.
LEMMA Tells ==
  /\ \A w : Told(w, <<>>)
  /\ \A m \in Messages : <<m>> \in Seq(Messages) /\ Says(<<m>>, m) /\ \A w : Foreign(w, m) \/ m.kind = "GAMESHUT" => Told(w, <<m>>)
  /\ \A s, t \in Seq(Messages) : /\ s \o t \in Seq(Messages)
                                 /\ \A w : Told(w, s) /\ Told(w, t) => Told(w, s \o t)
                                 /\ \A m : Says(s, m) \/ Says(t, m) => Says(s \o t, m)
<1>1. \A w : Told(w, <<>>)
  BY EmptySeq DEF Told
<1>2. ASSUME NEW m \in Messages
      PROVE  <<m>> \in Seq(Messages) /\ Says(<<m>>, m) /\ \A w : Foreign(w, m) \/ m.kind = "GAMESHUT" => Told(w, <<m>>)
  <2>1. <<m>> \in Seq(Messages) /\ DOMAIN <<m>> = {1} /\ <<m>>[1] = m
    OBVIOUS
  <2> QED
    BY <2>1 DEF Told, Says
<1>3. ASSUME NEW s \in Seq(Messages), NEW t \in Seq(Messages)
      PROVE  /\ s \o t \in Seq(Messages)
             /\ \A w : Told(w, s) /\ Told(w, t) => Told(w, s \o t)
             /\ \A m : Says(s, m) \/ Says(t, m) => Says(s \o t, m)
  <2>1. /\ s \o t \in Seq(Messages)
        /\ \A i \in DOMAIN s : i \in DOMAIN (s \o t) /\ (s \o t)[i] = s[i]
        /\ \A i \in DOMAIN t : i + Len(s) \in DOMAIN (s \o t) /\ (s \o t)[i + Len(s)] = t[i]
        /\ \A i \in DOMAIN (s \o t) : (i \in DOMAIN s /\ (s \o t)[i] = s[i]) \/ (\E k \in DOMAIN t : (s \o t)[i] = t[k])
    BY Appended
  <2>2. ASSUME NEW w, Told(w, s), Told(w, t) PROVE Told(w, s \o t)
    BY <2>1, <2>2 DEF Told
  <2>3. ASSUME NEW m, Says(s, m) \/ Says(t, m) PROVE Says(s \o t, m)
    BY <2>1, <2>3 DEF Says
  <2> QED
    BY <2>1, <2>2, <2>3
<1> QED
  BY <1>1, <1>2, <1>3

\* Two and three messages at once.
LEMMA Several ==
  /\ \A a, b \in Messages : <<a>> \o <<b>> = <<a, b>> /\ <<a, b>> \in Seq(Messages)
  /\ \A a, b, c \in Messages : <<a>> \o <<b, c>> = <<a, b, c>> /\ <<a, b, c>> \in Seq(Messages) /\ <<b, c>> \in Seq(Messages)
<1> SUFFICES ASSUME NEW a \in Messages, NEW b \in Messages, NEW c \in Messages
             PROVE  /\ <<a>> \o <<b>> = <<a, b>> /\ <<a, b>> \in Seq(Messages)
                    /\ <<a>> \o <<b, c>> = <<a, b, c>> /\ <<a, b, c>> \in Seq(Messages) /\ <<b, c>> \in Seq(Messages)
  OBVIOUS
<1>1. /\ <<a>> \in Seq(Messages) /\ <<b>> \in Seq(Messages) /\ <<b, c>> \in Seq(Messages)
      /\ <<a, b>> \in Seq(Messages) /\ <<a, b, c>> \in Seq(Messages)
  OBVIOUS
<1>2. Len(<<a>> \o <<b>>) = 2 /\ \A i \in 1 .. 2 : (<<a>> \o <<b>>)[i] = <<a, b>>[i]
  BY <1>1
<1>3. Len(<<a>> \o <<b, c>>) = 3 /\ \A i \in 1 .. 3 : (<<a>> \o <<b, c>>)[i] = <<a, b, c>>[i]
  BY <1>1
<1>4. <<a>> \o <<b>> \in Seq(Messages) /\ <<a>> \o <<b, c>> \in Seq(Messages)
  BY <1>1, ConcatProperties
<1>5. <<a>> \o <<b>> = <<a, b>>
  BY <1>1, <1>2, <1>4, SeqEqual
<1> QED
  BY <1>1, <1>3, <1>4, <1>5, SeqEqual

\* Where what the server sends comes to stand.
Sent(w, s) == s \in Seq(Messages) /\ mail'[w] = mail[w] \o s
\* It is read in its order, after what was there before.
LEMMA Sends ==
  ASSUME TypeInv, NEW w \in Users, NEW s, Sent(w, s), NEW n, n = Len(mail[w])
  PROVE  /\ n \in Nat /\ mail'[w] \in Seq(Messages)
         /\ \A i \in At(w) : /\ i \in Nat /\ i > 0 /\ i <= n /\ i \in At(w)' /\ mail'[w][i] = mail[w][i]
                             /\ (Made(w, i)' <=> Made(w, i)) /\ (Listed(w, i)' <=> Listed(w, i)) /\ (Joined(w, i)' <=> Joined(w, i))
                             /\ (Left(w, i)' <=> Left(w, i)) /\ (Begun(w, i)' <=> Begun(w, i)) /\ (Denied(w, i)' <=> Denied(w, i))
                             /\ \A g : Closed(w, i, g)' <=> Closed(w, i, g)
         /\ \A i \in At(w)' : i \in Nat /\ i > 0 /\ (i \in At(w) \/ (i > n /\ i - n \in DOMAIN s /\ mail'[w][i] = s[i - n]))
         /\ \A k \in DOMAIN s : k + n \in At(w)' /\ mail'[w][k + n] = s[k]
<1>1. mail[w] \in Seq(Messages) /\ s \in Seq(Messages) /\ mail'[w] = mail[w] \o s
  BY DEF TypeInv, Sent
<1>2. n \in Nat /\ \A i \in At(w) : i \in Nat /\ i > 0 /\ i <= n
  BY <1>1, LenProperties DEF At
<1>3. /\ mail'[w] \in Seq(Messages)
      /\ \A i \in At(w) : i \in At(w)' /\ mail'[w][i] = mail[w][i]
      /\ \A k \in DOMAIN s : k + n \in At(w)' /\ mail'[w][k + n] = s[k]
  BY <1>1, Appended DEF At
<1>4. \A i \in At(w)' : i \in Nat /\ i > 0 /\ (i \in At(w) \/ (i > n /\ i - n \in DOMAIN s /\ mail'[w][i] = s[i - n]))
  <2>1. At(w)' = 1 .. (n + Len(s)) /\ At(w) = 1 .. n /\ DOMAIN s = 1 .. Len(s) /\ Len(s) \in Nat
    BY <1>1, <1>2, LenProperties, ConcatProperties DEF At
  <2>2. \A i \in At(w)' : i > n => mail'[w][i] = s[i - n]
    BY <1>1, <1>2, <2>1, ConcatProperties
  <2> QED
    BY <1>2, <2>1, <2>2
<1> QED
  BY <1>2, <1>3, <1>4 DEF Own, Made, Listed, Joined, Left, Begun, Denied, Closed

\* A patient user that waits for nothing, and so one that makes a request.
LEMMA Idle ==
  ASSUME RInv, NEW u \in Users, Clear(u), awaiting[u] = "none"
  PROVE  /\ ~Entering(u) /\ ~gameIdRequested[u] /\ ~userIdRequested[u]
         /\ \A i \in At(u) : ~Made(u, i) /\ ~Listed(u, i) /\ ~Joined(u, i) /\ ~Denied(u, i)
         /\ roomOf[u] # 0 => page[u] = "room"
         /\ page[u] = "lobby" => \A i \in At(u) : ~Left(u, i) /\ ~Begun(u, i)
         /\ u \in connected /\ MaxSkips <= 1 => userstat[u] > 1
<1>1. MailInv(u) /\ AwaitInv(u) /\ InRoomInv(u) /\ OrderInv(u) /\ LoginInv(u) /\ TypeInv
  BY DEF RInv, UInv, ViewInv
<1>2. ~Entering(u)
  BY <1>1 DEF AwaitInv
<1>3. ~gameIdRequested[u] /\ ~userIdRequested[u] /\ \A i \in At(u) : ~Made(u, i) /\ ~Joined(u, i)
  BY <1>2, NotEntering
<1>4. \A i \in At(u) : ~Denied(u, i)
  BY <1>1 DEF AwaitInv
<1>5. \A i \in At(u) : ~Listed(u, i)
  BY <1>1, <1>3 DEF MailInv, EntryOrder
<1>6. roomOf[u] # 0 => page[u] = "room"
  BY <1>1, <1>2 DEF InRoomInv
<1>7. page[u] = "lobby" => \A i \in At(u) : ~Left(u, i) /\ ~Begun(u, i)
  BY <1>1, <1>2, <1>4 DEF OrderInv, Behind
<1>8. u \in connected /\ MaxSkips <= 1 => userstat[u] > 1
  <2>1. u \in connected /\ MaxSkips <= 1 => userstat[u] # 0 /\ userstat[u] # 1
    BY <1>1 DEF LoginInv
  <2>2. userstat[u] \in 0 .. 3
    BY <1>1 DEF TypeInv
  <2> QED
    BY <2>1, <2>2
<1> QED
  BY <1>2, <1>3, <1>4, <1>5, <1>6, <1>7, <1>8

\* The server's messages, and the ids in them.
LEMMA Written ==
  ASSUME TypeInv, NEW u \in Users, NEW w \in Users, NEW kind, NEW g
  PROVE  /\ Msg(kind, w, g).kind = kind /\ Msg(kind, w, g).who = w /\ Msg(kind, w, g).game = g
         /\ IdOk(u, Msg(kind, u, g))
         /\ kind \notin {"GAMRJOIN", "GAMRLEAV"} => IdOk(u, Msg(kind, w, g))
         /\ u \in connected /\ w \in connected /\ w # u /\ kind \in {"GAMRJOIN", "GAMRLEAV"} => Msg(kind, w, g).id # idOf[u]
<1> QED
  BY DEF Msg, IdOk, TypeInv

\* What concerns a user's login and ids when a message is sent to it.
LEMMA Stays ==
  ASSUME RInv, NEW u \in Users, NEW s, Sent(u, s), \A i \in DOMAIN s : IdOk(u, s[i]), u \in connected, u \in connected',
         idOf'[u] = idOf[u], userId'[u] = userId[u], belief'[u] = belief[u], userstat'[u] = userstat[u],
         awaiting[u] = "none" \/ (awaiting'[u] = awaiting[u] /\ skips' = skips)
  PROVE  Away(u)' /\ LoginInv(u)' /\ IdInv(u)'
<1>1. TypeInv /\ LoginInv(u) /\ IdInv(u) /\ mail[u] \in Seq(Messages) /\ s \in Seq(Messages) /\ mail'[u] = mail[u] \o s
  BY DEF RInv, UInv, TypeInv, Sent
<1>2. ASSUME NEW k \in Nat, Len(mail[u]) >= k PROVE Len(mail'[u]) >= k
  BY <1>1, <1>2, LenProperties, ConcatProperties
<1>3. (Len(mail[u]) >= 1 => mail'[u][1] = mail[u][1]) /\ (Len(mail[u]) >= 2 => mail'[u][2] = mail[u][2])
  BY <1>1, LenProperties, ConcatProperties
<1>4. Len(mail[u]) >= 2 => Len(mail[u]) >= 1
  BY <1>1, LenProperties
<1>5. LoginInv(u)'
  BY <1>1, <1>2, <1>3, <1>4 DEF LoginInv, Own
<1>6. IdInv(u)'
  BY <1>1, HearsIds
<1> QED
  BY <1>5, <1>6 DEF Away

\* Rooms that were closed stay so, and what is sent tells of no others.
LEMMA ShutsAfter ==
  ASSUME TypeInv, ShutInv, NEW w \in Users, NEW s \in Seq(Messages), mail'[w] = mail[w] \o s,
         \A i \in DOMAIN s : s[i].kind = "GAMESHUT" => s[i].game \in Known' /\ In(s[i].game)' = {},
         \A g \in Known : g \in Known' /\ (In(g) = {} => In(g)' = {})
  PROVE  Shuts(w)'
<1>1. PICK n : n = Len(mail[w])
  OBVIOUS
<1>2. /\ \A i \in At(w) : mail'[w][i] = mail[w][i]
      /\ \A i \in At(w)' : i \in At(w) \/ (i - n \in DOMAIN s /\ mail'[w][i] = s[i - n])
  BY <1>1, Sends DEF Sent
<1>3. Shuts(w)
  BY DEF ShutInv
<1> QED
  BY <1>2, <1>3 DEF Shuts

\* A login.
LEMMA Connects ==
  ASSUME RInv, Patient, NEW u \in Users, Connect(u)
  PROVE  RInv'
<1>1. /\ TypeInv /\ KnownInv /\ RoomsInv /\ ShutInv /\ Away(u) /\ belief[u] = "stale"
      /\ WindowInv(u) /\ KickInv(u)
  BY DEF RInv, UInv, Away, Clear, Connect, ViewInv
<1> DEFINE login == Msg("LONGSUCC", u, 0)
           joined == Msg("USERJOIN", u, 0)
           said(v) == IF v \in connected' THEN (IF v = u THEN <<login>> ELSE <<>>) \o <<joined>> ELSE <<>>
<1>2. login \in Messages /\ joined \in Messages
  BY DEF Msg, Messages
<1>3. \A v \in Users : said(v) \in Seq(Messages)
  BY <1>2, Tells, EmptySeq
<1>4. /\ mail' = [v \in Users |-> mail[v] \o said(v)] /\ connected' = connected \cup {u} /\ u \notin connected
      /\ UNCHANGED <<roomOf, ownerOf, playing, isOwner, gameIdRequested, gameId, userIdRequested, leaveRequested, userId,
                     page, hosting, toldKicked, kicked, belief, skips>>
      /\ userstat' = [userstat EXCEPT ![u] = 1] /\ playerstat' = [playerstat EXCEPT ![u] = -1]
      /\ awaiting' = [awaiting EXCEPT ![u] = "USERJOIN"]
  BY DEF Connect, Send, Requests, windowVars
<1>5. \A v \in Users : mail'[v] = mail[v] \o said(v)
  BY <1>4
<1> HIDE DEF said
<1>6. TypeInv'
  <2>1. idOf' \in [Users -> Nat] /\ \A v, w \in connected' : idOf'[v] = idOf'[w] => v = w
    <3>1. PICK id \in Ids \ {idOf[v] : v \in connected} : idOf' = [idOf EXCEPT ![u] = id]
      BY DEF Connect
    <3>2. id \in Nat /\ \A v \in connected : idOf[v] # id
      BY RoomAssumption
    <3> QED
      BY <1>1, <1>4, <3>1, <3>2 DEF TypeInv
  <2>2. mail' \in [Users -> Seq(Messages)]
    BY <1>1, <1>3, <1>4, Tells DEF TypeInv
  <2>3. connected' \subseteq Users /\ userstat' \in [Users -> 0 .. 3] /\ playerstat' \in [Users -> {-1, 0, 1}]
        /\ awaiting' \in [Users -> {"none", "USERJOIN", "GAMRJOIN", "GAMRLEAV", "refused"}]
    BY <1>1, <1>4 DEF TypeInv
  <2> QED
    BY <1>1, <1>4, <2>2, <2>1, <2>3 DEF TypeInv
<1>7. KnownInv' /\ RoomsInv'
  BY <1>1, <1>4 DEF KnownInv, RoomsInv, Known
<1>8. ASSUME NEW v \in Users PROVE \A i \in DOMAIN said(v) : said(v)[i] \in {login, joined}
  <2>1. (<<login>> \o <<joined>>) = <<login, joined>>
    BY <1>2, Several
  <2>2. (<<>> \o <<joined>>) = <<joined>>
    BY <1>2, Tells, ConcatEmptySeq
  <2> QED
    BY <2>1, <2>2 DEF said
<1>9. ShutInv'
  <2>1. \A v \in Users : \A i \in DOMAIN said(v) : said(v)[i].kind # "GAMESHUT"
    BY <1>8 DEF Msg
  <2>2. \A g \in Known : g \in Known' /\ (In(g) = {} => In(g)' = {})
    BY <1>4 DEF Known, In
  <2>3. ASSUME NEW v \in Users PROVE Shuts(v)'
    BY <1>1, <1>3, <1>5, <2>1, <2>2, ShutsAfter
  <2> QED
    BY <2>3 DEF ShutInv
<1>10. ASSUME NEW w \in Users \ {u} PROVE UInv(w)'
  <2>1. Told(w, said(w)) /\ (w \notin connected => said(w) = <<>>)
    <3>1. Foreign(w, joined)
      BY DEF Foreign, Msg
    <3> QED
      BY <1>2, <1>4, <3>1, Tells, EmptySeq DEF said
  <2>2. Local(w)
    BY <1>1, <1>4 DEF Local, TypeInv, Connect
  <2>3. \A g \in Known : g \in Known' /\ ownerOf'[g] = ownerOf[g]
    BY <1>4 DEF Known
  <2> QED
    BY <1>3, <1>4, <1>5, <2>1, <2>2, <2>3, Hears DEF Told
<1>11. UInv(u)'
  <2>1. mail'[u] = <<login, joined>>
    <3>1. mail'[u] = <<>> \o (<<login>> \o <<joined>>)
      BY <1>1, <1>4, <1>5 DEF Away, said
    <3>2. <<login>> \o <<joined>> = <<login, joined>> /\ <<login, joined>> \in Seq(Messages)
      BY <1>2, Several
    <3> QED
      BY <3>1, <3>2, ConcatEmptySeq
  <2>2. At(u)' = {1, 2} /\ Len(mail'[u]) = 2 /\ mail'[u][1] = login /\ mail'[u][2] = joined
    BY <2>1 DEF At
  <2>3. Away(u)'
    BY <1>4 DEF Away
  <2>4. LoginInv(u)'
    BY <1>1, <1>4, <2>2 DEF LoginInv, Own, Msg, TypeInv
  <2>5. IdInv(u)'
    BY <1>1, <1>4, <2>2 DEF IdInv, IdOk, Msg
  <2>6. \A i \in At(u)' : /\ ~Made(u, i)' /\ ~Listed(u, i)' /\ ~Joined(u, i)' /\ ~Left(u, i)' /\ ~Begun(u, i)' /\ ~Denied(u, i)'
                          /\ \A g : ~Closed(u, i, g)'
    BY <2>2 DEF Made, Listed, Joined, Left, Begun, Denied, Closed, Own, Msg
  <2>7. /\ roomOf'[u] = 0 /\ page'[u] = "lobby" /\ ~hosting'[u] /\ playerstat'[u] = -1 /\ awaiting'[u] = "USERJOIN"
        /\ ~gameIdRequested'[u] /\ ~userIdRequested'[u] /\ (toldKicked'[u] => u \in kicked')
    BY <1>1, <1>4 DEF Away, WindowInv, KickInv, TypeInv
  <2>8. MailInv(u)' /\ AwaitInv(u)' /\ EntryInv(u)'
    BY <2>6, <2>7 DEF MailInv, OneEach, EntryOrder, AfterEntry, AwaitInv, EntryInv, EntryRoom, LearnsId, Entering
  <2>9. InRoomInv(u)' /\ PlayInv(u)' /\ OutInv(u)' /\ WindowInv(u)' /\ OrderInv(u)' /\ KickInv(u)'
    BY <2>6, <2>7 DEF InRoomInv, PlayInv, OutInv, WindowInv, OrderInv, KickInv, Entering
  <2> QED
    BY <2>3, <2>4, <2>8, <2>9, <2>5 DEF UInv, ViewInv
<1> QED
  BY <1>6, <1>7, <1>9, <1>10, <1>11 DEF RInv

\* The ids of games are handed out one after the other, each once.
LEMMA NewGame ==
  ASSUME KnownInv, NEW u \in Users, NEW g, Cardinality(Known) < Len(Games), g = Games[Cardinality(Known) + 1],
         ownerOf' = [h \in Known \cup {g} |-> IF h = g THEN u ELSE ownerOf[h]]
  PROVE  /\ g \in Nat /\ g # 0 /\ g \notin Known /\ Known' = Known \cup {g} /\ KnownInv'
         /\ ownerOf'[g] = u /\ \A h \in Known : ownerOf'[h] = ownerOf[h]
<1>1. PICK n \in 0 .. Len(Games) : Known = {Games[i] : i \in 1 .. n} /\ Cardinality(Known) = n
  BY DEF KnownInv
<1>2. Len(Games) \in Nat /\ DOMAIN Games = 1 .. Len(Games) /\ \A i \in 1 .. Len(Games) : Games[i] \in Nat \ {0}
  BY RoomAssumption, LenProperties, ElementOfSeq
<1>3. n + 1 \in 1 .. Len(Games) /\ g = Games[n + 1] /\ 1 .. n \subseteq 1 .. Len(Games) /\ n + 1 \notin 1 .. n
  BY <1>1, <1>2
<1>4. g \notin Known
  BY <1>1, <1>2, <1>3, RoomAssumption DEF IsInjective
<1>5. Known' = Known \cup {g} /\ ownerOf'[g] = u /\ \A h \in Known : ownerOf'[h] = ownerOf[h]
  BY <1>4 DEF Known
<1>6. Known' = {Games[i] : i \in 1 .. n + 1}
  <2>1. 1 .. n + 1 = 1 .. n \cup {n + 1}
    BY <1>1, <1>2
  <2> QED
    BY <1>1, <1>3, <1>5, <2>1
<1>7. Cardinality(Known') = n + 1
  <2>1. IsFiniteSet(1 .. n)
    <3>1. 1 \in Int /\ n \in Int
      BY <1>1, <1>2
    <3> QED
      BY <3>1, FS_Interval
  <2>2. IsFiniteSet(Known)
    <3>1. [i \in 1 .. n |-> Games[i]] \in Surjection(1 .. n, Known)
      BY <1>1 DEF Surjection
    <3> QED
      BY <2>1, <3>1, FS_Surjection
  <2>3. Cardinality(Known \cup {g}) = Cardinality(Known) + 1
    BY <1>4, <2>2, FS_AddElement
  <2> QED
    BY <1>1, <1>5, <2>3
<1>8. KnownInv'
  <2>1. n + 1 \in 0 .. Len(Games)
    BY <1>1, <1>2
  <2>2. \A h \in Known' : ownerOf'[h] \in Users
    BY <1>5 DEF KnownInv
  <2> QED
    BY <1>6, <1>7, <2>1, <2>2 DEF KnownInv
<1> QED
  BY <1>2, <1>3, <1>4, <1>5, <1>8

\* A room is created.
LEMMA CreatesRoom ==
  ASSUME RInv, Patient, NEW u \in Users, CreateGame(u), roomOf[u] = 0
  PROVE  RInv'
<1>1. /\ TypeInv /\ KnownInv /\ RoomsInv /\ ShutInv /\ Away(u)
  BY DEF RInv, UInv
<1>2. awaiting[u] = "none" /\ page[u] = "lobby" /\ userstat[u] > 1
  BY DEF CreateGame, Requests
<1>3. roomOf[u] = 0 /\ u \in connected
  BY <1>1, <1>2 DEF Away
<1>4. PICK g : g = Games[Cardinality(Known) + 1]
  OBVIOUS
<1> DEFINE made == Msg("GAMEMAKE", u, g)
           listed == Msg("GAMRSLST", u, g)
           joined == Msg("GAMRJOIN", u, g)
           said(v) == IF v \in connected THEN <<made>> \o (IF v = u THEN <<listed, joined>> ELSE <<>>) ELSE <<>>
<1>5. /\ mail' = [v \in Users |-> mail[v] \o said(v)]
      /\ UNCHANGED <<connected, idOf, playing, userstat, playerstat, gameId, userIdRequested, leaveRequested, userId,
                     page, hosting, toldKicked, kicked, belief, skips>>
      /\ roomOf' = [roomOf EXCEPT ![u] = g] /\ isOwner' = [isOwner EXCEPT ![u] = TRUE]
      /\ gameIdRequested' = [gameIdRequested EXCEPT ![u] = TRUE] /\ awaiting' = [awaiting EXCEPT ![u] = "GAMRJOIN"]
      /\ Cardinality(Known) < Len(Games) /\ ownerOf' = [h \in Known \cup {g} |-> IF h = g THEN u ELSE ownerOf[h]]
  BY <1>3, <1>4 DEF CreateGame, Send, Requests, windowVars
<1>6. /\ g \in Nat /\ g # 0 /\ g \notin Known /\ Known' = Known \cup {g} /\ KnownInv'
      /\ ownerOf'[g] = u /\ \A h \in Known : ownerOf'[h] = ownerOf[h]
  BY <1>1, <1>4, <1>5, NewGame
<1>7. made \in Messages /\ listed \in Messages /\ joined \in Messages
  BY <1>1, <1>6 DEF Msg, Messages, TypeInv
<1>8. said(u) = <<made, listed, joined>> /\ said(u) \in Seq(Messages)
  BY <1>3, <1>7, Several
<1>9. ASSUME NEW w \in Users \ {u} PROVE said(w) \in Seq(Messages) /\ Told(w, said(w)) /\ (w \notin connected => said(w) = <<>>)
                                         /\ \A i \in DOMAIN said(w) : said(w)[i] = made
  <2>1. Foreign(w, made)
    BY DEF Foreign, Msg
  <2>2. <<made>> \in Seq(Messages) /\ Told(w, <<made>>) /\ <<made>> \o <<>> = <<made>> /\ Told(w, <<>>)
    BY <1>7, <2>1, Tells, ConcatEmptySeq
  <2>3. said(w) = IF w \in connected THEN <<made>> ELSE <<>>
    BY <2>2
  <2> QED
    BY <2>2, <2>3, EmptySeq
<1>10. \A v \in Users : mail'[v] = mail[v] \o said(v) /\ said(v) \in Seq(Messages)
  BY <1>5, <1>8, <1>9
<1>11. \A v \in Users : \A i \in DOMAIN said(v) : said(v)[i].kind # "GAMESHUT"
  BY <1>8, <1>9 DEF Msg
<1> HIDE DEF said
<1>12. TypeInv'
  <2>1. \A v \in Users : mail[v] \o said(v) \in Seq(Messages)
    BY <1>1, <1>10, Tells DEF TypeInv
  <2>2. mail' \in [Users -> Seq(Messages)]
    BY <1>5, <2>1
  <2> QED
    BY <1>1, <1>5, <1>6, <2>2 DEF TypeInv
<1>13. roomOf'[u] = g /\ \A w \in Users \ {u} : roomOf'[w] = roomOf[w] /\ roomOf[w] # g
  BY <1>1, <1>5, <1>6 DEF TypeInv, RoomsInv
<1>14. RoomsInv'
  <2>1. ASSUME NEW w \in Users, w # u, roomOf[w] # 0
        PROVE  roomOf'[w] \in Known' /\ w \in connected' /\ roomOf'[ownerOf'[roomOf'[w]]] = roomOf'[w]
    <3>1. roomOf[w] \in Known /\ w \in connected /\ roomOf[ownerOf[roomOf[w]]] = roomOf[w] /\ ownerOf[roomOf[w]] \in Users
      BY <1>1, <2>1, KnownIds DEF RoomsInv
    <3>2. ownerOf[roomOf[w]] # u
      BY <1>3, <2>1, <3>1
    <3> QED
      BY <1>5, <1>6, <1>13, <2>1, <3>1, <3>2
  <2> QED
    BY <1>1, <1>3, <1>5, <1>6, <1>13, <2>1 DEF RoomsInv
<1>15. ShutInv'
  <2>1. \A h \in Known : h \in Known' /\ (In(h) = {} => In(h)' = {})
    BY <1>6, <1>13 DEF In
  <2>2. ASSUME NEW v \in Users PROVE Shuts(v)'
    BY <1>1, <1>10, <1>11, <2>1, ShutsAfter
  <2> QED
    BY <2>2 DEF ShutInv
<1>16. ASSUME NEW w \in Users \ {u} PROVE UInv(w)'
  <2>1. Local(w)
    BY <1>1, <1>5 DEF Local, TypeInv
  <2>2. \A h \in Known : h \in Known' /\ ownerOf'[h] = ownerOf[h]
    BY <1>6
  <2> QED
    BY <1>5, <1>9, <1>10, <1>13, <2>1, <2>2, Hears DEF Told
<1>17. Away(u)' /\ LoginInv(u)' /\ IdInv(u)'
  <2>1. PICK s : s = said(u)
    OBVIOUS
  <2>2. DOMAIN s = {1, 2, 3} /\ s[1] = made /\ s[2] = listed /\ s[3] = joined /\ Sent(u, s)
    <3>1. DOMAIN s = {1, 2, 3} /\ s[1] = made /\ s[2] = listed /\ s[3] = joined
      <4>1. s = <<made, listed, joined>>
        BY <1>8, <2>1
      <4> QED
        BY <4>1
    <3>2. s \in Seq(Messages) /\ mail'[u] = mail[u] \o s
      BY <1>10, <2>1
    <3> QED
      BY <3>1, <3>2 DEF Sent
  <2>3. \A i \in DOMAIN s : IdOk(u, s[i])
    BY <1>1, <2>2, Written
  <2> QED
    BY <1>2, <1>3, <1>5, <2>2, <2>3, Stays
<1>18. ASSUME Clear(u) PROVE ViewInv(u)'
  <2>1. /\ ~Entering(u) /\ ~gameIdRequested[u] /\ ~userIdRequested[u] /\ WindowInv(u) /\ KickInv(u)
        /\ \A i \in At(u) : ~Made(u, i) /\ ~Listed(u, i) /\ ~Joined(u, i) /\ ~Denied(u, i) /\ ~Left(u, i) /\ ~Begun(u, i)
    BY <1>2, <1>18, Idle DEF RInv, UInv, ViewInv
  <2>2. PICK n : n = Len(mail[u])
    OBVIOUS
  <2>3. /\ n \in Nat
        /\ \A i \in At(u) : /\ i <= n /\ i \in At(u)' /\ mail'[u][i] = mail[u][i]
                            /\ ~Made(u, i)' /\ ~Listed(u, i)' /\ ~Joined(u, i)' /\ ~Denied(u, i)' /\ ~Left(u, i)' /\ ~Begun(u, i)'
                            /\ \A h : Closed(u, i, h)' <=> Closed(u, i, h)
        /\ \A i \in At(u)' : i \in Nat /\ i > 0 /\ (i \in At(u) \/ (i > n /\ i - n \in {1, 2, 3} /\ mail'[u][i] = said(u)[i - n]))
        /\ n + 1 \in At(u)' /\ mail'[u][n + 1] = made
        /\ n + 2 \in At(u)' /\ mail'[u][n + 2] = listed
        /\ n + 3 \in At(u)' /\ mail'[u][n + 3] = joined
    <3>1. DOMAIN said(u) = {1, 2, 3} /\ said(u)[1] = made /\ said(u)[2] = listed /\ said(u)[3] = joined
      BY <1>8
    <3>2. /\ n \in Nat
          /\ \A i \in At(u) : /\ i <= n /\ i \in At(u)' /\ mail'[u][i] = mail[u][i]
                              /\ (Made(u, i)' <=> Made(u, i)) /\ (Listed(u, i)' <=> Listed(u, i)) /\ (Joined(u, i)' <=> Joined(u, i))
                              /\ (Left(u, i)' <=> Left(u, i)) /\ (Begun(u, i)' <=> Begun(u, i)) /\ (Denied(u, i)' <=> Denied(u, i))
                              /\ \A h : Closed(u, i, h)' <=> Closed(u, i, h)
          /\ \A i \in At(u)' : i \in Nat /\ i > 0 /\ (i \in At(u) \/ (i > n /\ i - n \in DOMAIN said(u) /\ mail'[u][i] = said(u)[i - n]))
          /\ \A k \in DOMAIN said(u) : k + n \in At(u)' /\ mail'[u][k + n] = said(u)[k]
      <4>1. PICK s : s = said(u)
        OBVIOUS
      <4>2. Sent(u, s)
        BY <1>10, <4>1 DEF Sent
      <4>3. /\ n \in Nat
            /\ \A i \in At(u) : /\ i <= n /\ i \in At(u)' /\ mail'[u][i] = mail[u][i]
                                /\ (Made(u, i)' <=> Made(u, i)) /\ (Listed(u, i)' <=> Listed(u, i)) /\ (Joined(u, i)' <=> Joined(u, i))
                                /\ (Left(u, i)' <=> Left(u, i)) /\ (Begun(u, i)' <=> Begun(u, i)) /\ (Denied(u, i)' <=> Denied(u, i))
                                /\ \A h : Closed(u, i, h)' <=> Closed(u, i, h)
        BY <1>1, <4>2, <2>2, Sends
      <4>4. \A i \in At(u)' : i \in Nat /\ i > 0 /\ (i \in At(u) \/ (i > n /\ i - n \in DOMAIN s /\ mail'[u][i] = s[i - n]))
        BY <1>1, <4>2, <2>2, Sends
      <4>5. \A k \in DOMAIN s : k + n \in At(u)' /\ mail'[u][k + n] = s[k]
        BY <1>1, <4>2, <2>2, Sends
      <4> QED
        BY <4>1, <4>3, <4>4, <4>5
    <3>3. n + 1 = 1 + n /\ n + 2 = 2 + n /\ n + 3 = 3 + n
      BY <3>2
    <3> QED
      BY <2>1, <3>1, <3>2, <3>3
  <2>4. \A i \in At(u)' : \/ i \in At(u)
                          \/ i = n + 1 /\ mail'[u][i] = made
                          \/ i = n + 2 /\ mail'[u][i] = listed
                          \/ i = n + 3 /\ mail'[u][i] = joined
    <3>1. \A i \in Nat : (i - n = 1 => i = n + 1) /\ (i - n = 2 => i = n + 2) /\ (i - n = 3 => i = n + 3)
      BY <2>3
    <3> QED
      BY <1>8, <2>3, <3>1
  <2>5. /\ Made(u, n + 1)' /\ Listed(u, n + 2)' /\ Joined(u, n + 3)'
        /\ \A i \in At(u)' : /\ ~Left(u, i)' /\ ~Begun(u, i)' /\ ~Denied(u, i)'
                             /\ (Made(u, i)' => i = n + 1) /\ (Listed(u, i)' => i = n + 2) /\ (Joined(u, i)' => i = n + 3)
    BY <2>3, <2>4 DEF Made, Listed, Joined, Left, Begun, Denied, Own, Msg
  <2>6. \A i \in At(u)' : ~Closed(u, i, g)'
    BY <1>1, <1>6, <2>3, <2>4 DEF ShutInv, Shuts, Closed, Msg
  <2>7. /\ roomOf'[u] = g /\ page'[u] = "lobby" /\ ~hosting'[u] /\ playerstat'[u] # 1 /\ awaiting'[u] = "GAMRJOIN"
        /\ gameIdRequested'[u] /\ ~userIdRequested'[u] /\ isOwner'[u] /\ (toldKicked'[u] => u \in kicked')
    BY <1>1, <1>2, <1>3, <1>5, <2>1 DEF WindowInv, KickInv, TypeInv
  <2>8. mail'[u][n + 3].game = g /\ mail'[u][n + 2].game = g /\ mail'[u][n + 1].game = g
    BY <2>3 DEF Msg
  <2>9. MailInv(u)'
    <3>1. OneEach(u)'
      BY <2>5 DEF OneEach
    <3>2. (n + 1) + 1 = n + 2 /\ (n + 2) + 1 = n + 3 /\ (n + 3) - 1 = n + 2
      BY <2>3
    <3>3. EntryOrder(u)'
      BY <2>3, <2>5, <2>8, <3>2 DEF EntryOrder
    <3>4. AfterEntry(u)'
      BY <2>5, <2>6, <2>8 DEF AfterEntry
    <3> QED
      BY <3>1, <3>3, <3>4 DEF MailInv
  <2>10. AwaitInv(u)' /\ Entering(u)'
    BY <2>3, <2>5, <2>7 DEF AwaitInv, Entering
  <2>11. EntryInv(u)'
    <3>1. n + 3 # 1
      BY <2>3
    <3>2. Enters(u, n + 3, g)'
      BY <1>6, <2>7, <3>1 DEF Enters
    <3> QED
      BY <2>5, <2>7, <2>8, <3>2 DEF EntryInv, EntryRoom, LearnsId
  <2>12. InRoomInv(u)' /\ PlayInv(u)'
    BY <1>6, <2>5, <2>7, <2>10 DEF InRoomInv, PlayInv
  <2>13. OutInv(u)' /\ WindowInv(u)' /\ OrderInv(u)' /\ KickInv(u)'
    BY <1>6, <2>5, <2>7 DEF OutInv, WindowInv, OrderInv, KickInv
  <2> QED
    BY <2>9, <2>10, <2>11, <2>12, <2>13 DEF ViewInv
<1>19. UInv(u)'
  BY <1>5, <1>17, <1>18 DEF UInv, Clear
<1> QED
  BY <1>6, <1>12, <1>14, <1>15, <1>16, <1>19 DEF RInv

\* The server refuses what a patient user asks for while it is in no room.
LEMMA Refuses ==
  ASSUME RInv, NEW u \in Users, Clear(u), awaiting[u] = "none", roomOf[u] = 0, roomOf'[u] = 0,
         Sent(u, <<Msg("refused", u, 0)>>), kicked' = kicked, toldKicked'[u] = toldKicked[u],
         ~gameIdRequested'[u], userIdRequested'[u] = userIdRequested[u], awaiting'[u] = "refused",
         page'[u] = "lobby", ~hosting'[u], playerstat'[u] # 1, leaveRequested'[u] \/ page[u] = "lobby"
  PROVE  ViewInv(u)'
<1>1. TypeInv /\ MailInv(u) /\ KickInv(u)
  BY DEF RInv, UInv, ViewInv
<1>2. /\ ~userIdRequested[u]
      /\ \A i \in At(u) : ~Made(u, i) /\ ~Listed(u, i) /\ ~Joined(u, i) /\ ~Denied(u, i)
      /\ page[u] = "lobby" => \A i \in At(u) : ~Left(u, i) /\ ~Begun(u, i)
  BY Idle
<1>3. PICK n : n = Len(mail[u])
  OBVIOUS
<1>4. PICK s : s = <<Msg("refused", u, 0)>>
  OBVIOUS
<1>5. DOMAIN s = {1} /\ s[1] = Msg("refused", u, 0) /\ Sent(u, s)
  BY <1>4
<1>6. /\ n \in Nat
      /\ \A i \in At(u) : /\ i <= n /\ i \in At(u)'
                          /\ (Made(u, i)' <=> Made(u, i)) /\ (Listed(u, i)' <=> Listed(u, i)) /\ (Joined(u, i)' <=> Joined(u, i))
                          /\ (Left(u, i)' <=> Left(u, i)) /\ (Begun(u, i)' <=> Begun(u, i)) /\ (Denied(u, i)' <=> Denied(u, i))
                          /\ \A h : Closed(u, i, h)' <=> Closed(u, i, h)
  BY <1>1, <1>3, <1>5, Sends
<1>7. \A i \in At(u)' : i \in Nat /\ (i \in At(u) \/ (i > n /\ i - n \in DOMAIN s /\ mail'[u][i] = s[i - n]))
  BY <1>1, <1>3, <1>5, Sends
<1>8. \A k \in DOMAIN s : k + n \in At(u)' /\ mail'[u][k + n] = s[k]
  BY <1>1, <1>3, <1>5, Sends
<1>9. n + 1 \in At(u)' /\ mail'[u][n + 1] = Msg("refused", u, 0)
  <2>1. 1 + n = n + 1
    BY <1>6
  <2> QED
    BY <1>5, <1>8, <2>1
<1>10. \A i \in At(u)' : i \in At(u) \/ (i = n + 1 /\ mail'[u][i] = Msg("refused", u, 0))
  <2>1. \A i \in Nat : i - n = 1 => i = n + 1
    BY <1>6
  <2> QED
    BY <1>5, <1>7, <2>1
<1>11. /\ Denied(u, n + 1)'
       /\ \A i \in At(u)' : /\ ~Made(u, i)' /\ ~Listed(u, i)' /\ ~Joined(u, i)' /\ (Denied(u, i)' => i = n + 1)
                            /\ (Left(u, i)' => i \in At(u) /\ Left(u, i)) /\ (Begun(u, i)' => i \in At(u) /\ Begun(u, i))
                            /\ i <= n + 1
  <2>1. \A i \in At(u)' : i <= n + 1
    BY <1>6, <1>7, <1>10
  <2>2. \A i \in At(u)' : i = n + 1 /\ mail'[u][i] = Msg("refused", u, 0)
                          => ~Made(u, i)' /\ ~Listed(u, i)' /\ ~Joined(u, i)' /\ ~Left(u, i)' /\ ~Begun(u, i)'
    BY DEF Made, Listed, Joined, Left, Begun, Own, Msg
  <2>3. Denied(u, n + 1)'
    BY <1>9 DEF Denied, Own, Msg
  <2> QED
    BY <1>2, <1>6, <1>10, <2>1, <2>2, <2>3
<1>12. MailInv(u)'
  BY <1>1, <1>11 DEF MailInv, OneEach, EntryOrder, AfterEntry
<1>13. AwaitInv(u)' /\ ~Entering(u)'
  BY <1>9, <1>11 DEF AwaitInv, Entering
<1>14. EntryInv(u)' /\ InRoomInv(u)' /\ PlayInv(u)' /\ OutInv(u)' /\ WindowInv(u)'
  BY <1>2, <1>11, <1>13 DEF EntryInv, EntryRoom, LearnsId, InRoomInv, PlayInv, OutInv, WindowInv
<1>15. OrderInv(u)'
  <2>1. ASSUME leaveRequested'[u], NEW i \in At(u)' PROVE Behind(u, i)'
    <3>1. n + 1 >= i
      BY <1>6, <1>7, <1>11
    <3> QED
      BY <1>9, <1>11, <2>1, <3>1 DEF Behind
  <2>2. CASE page[u] = "lobby"
    BY <1>2, <1>11, <2>2 DEF OrderInv
  <2> QED
    BY <2>1, <2>2 DEF OrderInv
<1>16. KickInv(u)'
  BY <1>1, <1>11 DEF KickInv
<1> QED
  BY <1>12, <1>13, <1>14, <1>15, <1>16 DEF ViewInv

\* A user asks to join a room.
LEMMA Joins ==
  ASSUME RInv, Patient, NEW u \in Users, NEW g, JoinGame(u, g)
  PROVE  RInv'
<1>1. /\ TypeInv /\ KnownInv /\ RoomsInv /\ ShutInv /\ Away(u)
  BY DEF RInv, UInv
<1>2. awaiting[u] = "none" /\ page[u] = "lobby" /\ userstat[u] > 1 /\ g \in Known
  BY DEF JoinGame, Requests
<1>3. /\ u \in connected
      /\ Clear(u) => /\ ~Entering(u) /\ ~gameIdRequested[u] /\ ~userIdRequested[u] /\ roomOf[u] = 0 /\ WindowInv(u) /\ KickInv(u)
                     /\ \A i \in At(u) : ~Made(u, i) /\ ~Listed(u, i) /\ ~Joined(u, i) /\ ~Denied(u, i) /\ ~Left(u, i) /\ ~Begun(u, i)
  <2>1. u \in connected
    BY <1>1, <1>2 DEF Away
  <2>2. Clear(u) => WindowInv(u) /\ KickInv(u)
    BY DEF RInv, UInv, ViewInv
  <2> QED
    BY <1>2, <2>1, <2>2, Idle
<1>4. g \in Nat /\ g # 0 /\ ownerOf[g] \in Users
  BY <1>1, <1>2, KnownIds
<1> DEFINE refused == roomOf[u] # 0 \/ In(g) = {} \/ In(g) \cap playing # {}
<1>5. /\ UNCHANGED <<connected, idOf, ownerOf, playing, userstat, playerstat, userIdRequested, userId, page, hosting, toldKicked, kicked,
                     belief, skips>>
      /\ gameIdRequested' = [gameIdRequested EXCEPT ![u] = FALSE] /\ gameId' = [gameId EXCEPT ![u] = g]
      /\ leaveRequested' = [leaveRequested EXCEPT ![u] = FALSE] /\ isOwner' = [isOwner EXCEPT ![u] = FALSE]
      /\ awaiting' = [awaiting EXCEPT ![u] = IF refused THEN "refused" ELSE "GAMRJOIN"]
  BY <1>3 DEF JoinGame, Requests, windowVars
<1>6. Known' = Known /\ KnownInv'
  BY <1>1, <1>5 DEF Known, KnownInv
<1>7. /\ Clear(u) => ~hosting'[u] /\ playerstat'[u] # 1 /\ (toldKicked'[u] => u \in kicked') /\ ~userIdRequested'[u]
      /\ awaiting'[u] = IF refused THEN "refused" ELSE "GAMRJOIN"
      /\ page'[u] = "lobby" /\ gameId'[u] = g /\ ~gameIdRequested'[u] /\ ~leaveRequested'[u] /\ ~isOwner'[u]
  BY <1>1, <1>2, <1>3, <1>5 DEF WindowInv, KickInv, TypeInv
<1>8. CASE refused
  <2> DEFINE no == Msg("refused", u, 0)
  <2>1. roomOf' = roomOf /\ mail' = [v \in Users |-> mail[v] \o (IF v \in {u} THEN <<no>> ELSE <<>>)]
    BY <1>3, <1>8 DEF JoinGame, Send
  <2>2. no \in Messages /\ <<no>> \in Seq(Messages)
    <3>1. no \in Messages
      BY DEF Msg, Messages
    <3> QED
      BY <3>1, Tells
  <2>3. mail'[u] = mail[u] \o <<no>> /\ \A w \in Users \ {u} : mail'[w] = mail[w]
    <3>1. \A w \in Users \ {u} : mail[w] \o <<>> = mail[w]
      BY <1>1, ConcatEmptySeq DEF TypeInv
    <3> QED
      BY <2>1, <3>1
  <2>4. TypeInv'
    <3>1. mail[u] \o <<no>> \in Seq(Messages)
      BY <1>1, <2>2, Tells DEF TypeInv
    <3>2. \A w \in Users : mail'[w] \in Seq(Messages)
      BY <1>1, <2>3, <3>1 DEF TypeInv
    <3>3. mail' \in [Users -> Seq(Messages)]
      BY <2>1, <3>2
    <3> QED
      BY <1>1, <1>4, <1>5, <2>1, <3>3 DEF TypeInv
  <2>5. RoomsInv'
    BY <1>1, <1>5, <1>6, <2>1 DEF RoomsInv
  <2>6. ShutInv'
    <3>1. \A h : In(h)' = In(h)
      BY <2>1 DEF In
    <3>2. Shuts(u)'
      <4>1. \A i \in DOMAIN <<no>> : <<no>>[i].kind # "GAMESHUT"
        BY DEF Msg
      <4> QED
        BY <1>1, <1>6, <2>2, <2>3, <3>1, <4>1, ShutsAfter
    <3>3. ASSUME NEW w \in Users \ {u} PROVE Shuts(w)'
      BY <1>1, <1>6, <2>3, <3>1 DEF ShutInv, Shuts, At
    <3> QED
      BY <3>2, <3>3 DEF ShutInv
  <2>7. ASSUME NEW w \in Users \ {u} PROVE UInv(w)'
    <3>1. Local(w)
      BY <1>1, <1>5 DEF Local, TypeInv
    <3> QED
      BY <1>5, <1>6, <2>1, <2>3, <3>1, Untouched
  <2>8. UInv(u)'
    <3>1. Sent(u, <<no>>)
      BY <2>2, <2>3 DEF Sent
    <3>2. awaiting'[u] = "refused"
      BY <1>7, <1>8
    <3>3. userstat' = userstat /\ toldKicked' = toldKicked /\ userIdRequested' = userIdRequested /\ connected' = connected /\ kicked' = kicked
      BY <1>5
    <3>4. Away(u)' /\ LoginInv(u)' /\ IdInv(u)'
      <4>1. PICK s : s = <<no>>
        OBVIOUS
      <4>2. DOMAIN s = {1} /\ s[1] = no /\ Sent(u, s)
        BY <3>1, <4>1
      <4>3. \A i \in DOMAIN s : IdOk(u, s[i])
        BY <1>1, <4>2, Written
      <4> QED
        BY <1>2, <1>3, <1>5, <4>2, <4>3, Stays
    <3>5. ASSUME Clear(u) PROVE ViewInv(u)'
      <4> HIDE DEF refused
      <4> QED
        BY <1>2, <1>3, <1>7, <2>1, <3>1, <3>2, <3>3, <3>5, Refuses
    <3> QED
      BY <1>5, <3>4, <3>5 DEF UInv, Clear
  <2> QED
    BY <1>6, <2>4, <2>5, <2>6, <2>7, <2>8 DEF RInv
<1>9. CASE ~refused
  <2> DEFINE listed == Msg("GAMRSLST", u, g)
             joined == Msg("GAMRJOIN", u, g)
             said(v) == IF v \in In(g) \cup {u} THEN (IF v = u THEN <<listed>> ELSE <<>>) \o <<joined>> ELSE <<>>
  <2>1. roomOf' = [roomOf EXCEPT ![u] = g] /\ mail' = [v \in Users |-> mail[v] \o said(v)]
    BY <1>3, <1>9 DEF JoinGame, Send
  <2>2. listed \in Messages /\ joined \in Messages
    BY <1>1, <1>4 DEF Msg, Messages, TypeInv
  <2>3. said(u) = <<listed, joined>> /\ said(u) \in Seq(Messages)
    BY <2>2, Several
  <2>4. ASSUME NEW w \in Users \ {u} PROVE said(w) \in Seq(Messages) /\ Told(w, said(w)) /\ (w \notin connected => said(w) = <<>>)
                                           /\ \A i \in DOMAIN said(w) : said(w)[i] = joined
    <3>1. Foreign(w, joined)
      BY <1>1, <1>3, Written DEF Foreign
    <3>2. <<joined>> \in Seq(Messages) /\ Told(w, <<joined>>) /\ <<>> \o <<joined>> = <<joined>> /\ Told(w, <<>>)
      BY <2>2, <3>1, Tells, ConcatEmptySeq
    <3>3. said(w) = IF w \in In(g) THEN <<joined>> ELSE <<>>
      BY <3>2
    <3>4. w \in In(g) => w \in connected
      BY <1>1, <1>4 DEF RoomsInv, In
    <3> QED
      BY <3>2, <3>3, <3>4, EmptySeq
  <2>5. \A v \in Users : mail'[v] = mail[v] \o said(v) /\ said(v) \in Seq(Messages)
    BY <2>1, <2>3, <2>4
  <2>6. \A v \in Users : \A i \in DOMAIN said(v) : said(v)[i].kind # "GAMESHUT"
    BY <2>3, <2>4 DEF Msg
  <2> HIDE DEF said
  <2>7. TypeInv'
    <3>1. \A v \in Users : mail[v] \o said(v) \in Seq(Messages)
      BY <1>1, <2>5, Tells DEF TypeInv
    <3>2. mail' \in [Users -> Seq(Messages)]
      BY <2>1, <3>1
    <3> QED
      BY <1>1, <1>4, <1>5, <1>9, <2>1, <3>2 DEF TypeInv
  <2>8. roomOf'[u] = g /\ \A w \in Users \ {u} : roomOf'[w] = roomOf[w]
    BY <1>1, <2>1 DEF TypeInv
  <2>9. roomOf[u] = 0 /\ ownerOf[g] # u /\ roomOf[ownerOf[g]] = g
    <3>1. PICK v \in Users : roomOf[v] = g
      BY <1>9 DEF In
    <3>2. roomOf[ownerOf[g]] = g
      BY <1>1, <1>4, <3>1 DEF RoomsInv
    <3> QED
      BY <1>4, <1>9, <3>2
  <2>10. RoomsInv'
    <3>1. ASSUME NEW w \in Users, w # u, roomOf[w] # 0
          PROVE  roomOf'[w] \in Known' /\ w \in connected' /\ roomOf'[ownerOf'[roomOf'[w]]] = roomOf'[w]
      <4>1. roomOf[w] \in Known /\ w \in connected /\ roomOf[ownerOf[roomOf[w]]] = roomOf[w] /\ ownerOf[roomOf[w]] \in Users
        BY <1>1, <3>1, KnownIds DEF RoomsInv
      <4>2. ownerOf[roomOf[w]] # u
        BY <2>9, <3>1, <4>1
      <4> QED
        BY <1>5, <1>6, <2>8, <3>1, <4>1, <4>2
    <3>2. roomOf'[u] \in Known' /\ u \in connected' /\ roomOf'[ownerOf'[roomOf'[u]]] = roomOf'[u]
      BY <1>2, <1>3, <1>4, <1>5, <1>6, <2>8, <2>9
    <3> QED
      BY <1>1, <1>3, <1>5, <1>9, <2>8, <3>1, <3>2 DEF RoomsInv
  <2>11. \A h \in Known : h \in Known' /\ (In(h) = {} => In(h)' = {})
    BY <1>6, <1>9, <2>8 DEF In
  <2>12. ShutInv'
    <3>1. ASSUME NEW v \in Users PROVE Shuts(v)'
      BY <1>1, <2>5, <2>6, <2>11, ShutsAfter
    <3> QED
      BY <3>1 DEF ShutInv
  <2>13. ASSUME NEW w \in Users \ {u} PROVE UInv(w)'
    <3>1. Local(w)
      BY <1>1, <1>5 DEF Local, TypeInv
    <3> QED
      BY <1>5, <1>6, <2>4, <2>5, <2>8, <3>1, Hears DEF Told
  <2>14. Away(u)' /\ LoginInv(u)' /\ IdInv(u)'
    <3>1. PICK s : s = said(u)
      OBVIOUS
    <3>2. DOMAIN s = {1, 2} /\ s[1] = listed /\ s[2] = joined /\ Sent(u, s)
      <4>1. DOMAIN said(u) = {1, 2} /\ said(u)[1] = listed /\ said(u)[2] = joined
        BY <2>2, <2>3, Several
      <4>2. s \in Seq(Messages) /\ mail'[u] = mail[u] \o s
        BY <2>5, <3>1
      <4> QED
        BY <3>1, <4>1, <4>2 DEF Sent
    <3>3. \A i \in DOMAIN s : IdOk(u, s[i])
      BY <1>1, <3>2, Written
    <3> QED
      BY <1>2, <1>3, <1>5, <3>2, <3>3, Stays
  <2>15. ASSUME Clear(u) PROVE ViewInv(u)'
    <3>1. /\ \A i \in At(u) : ~Made(u, i) /\ ~Listed(u, i) /\ ~Joined(u, i) /\ ~Denied(u, i) /\ ~Left(u, i) /\ ~Begun(u, i)
          /\ ~hosting'[u] /\ playerstat'[u] # 1 /\ (toldKicked'[u] => u \in kicked') /\ ~userIdRequested'[u]
      BY <1>3, <1>7, <2>15
    <3>2. PICK n : n = Len(mail[u])
      OBVIOUS
    <3>3. PICK s : s = said(u)
      OBVIOUS
    <3>4. DOMAIN s = {1, 2} /\ s[1] = listed /\ s[2] = joined /\ Sent(u, s)
      <4>1. Sent(u, s)
        BY <2>3, <2>5, <3>3 DEF Sent
      <4>2. s = <<listed, joined>>
        BY <2>3, <3>3
      <4> QED
        BY <4>1, <4>2
    <3>5. /\ n \in Nat
          /\ \A i \in At(u) : /\ i <= n /\ i \in At(u)' /\ mail'[u][i] = mail[u][i]
                              /\ (Made(u, i)' <=> Made(u, i)) /\ (Listed(u, i)' <=> Listed(u, i)) /\ (Joined(u, i)' <=> Joined(u, i))
                              /\ (Left(u, i)' <=> Left(u, i)) /\ (Begun(u, i)' <=> Begun(u, i)) /\ (Denied(u, i)' <=> Denied(u, i))
                              /\ \A h : Closed(u, i, h)' <=> Closed(u, i, h)
      BY <1>1, <3>2, <3>4, Sends
    <3>6. \A i \in At(u)' : i \in Nat /\ i > 0 /\ (i \in At(u) \/ (i > n /\ i - n \in DOMAIN s /\ mail'[u][i] = s[i - n]))
      BY <1>1, <3>2, <3>4, Sends
    <3>7. \A k \in DOMAIN s : k + n \in At(u)' /\ mail'[u][k + n] = s[k]
      BY <1>1, <3>2, <3>4, Sends
    <3>8. n + 1 \in At(u)' /\ mail'[u][n + 1] = listed /\ n + 2 \in At(u)' /\ mail'[u][n + 2] = joined
      <4>1. 1 + n = n + 1 /\ 2 + n = n + 2
        BY <3>5
      <4> QED
        BY <3>4, <3>7, <4>1
    <3>9. \A i \in At(u)' : i \in At(u) \/ (i = n + 1 /\ mail'[u][i] = listed) \/ (i = n + 2 /\ mail'[u][i] = joined)
      <4>1. \A i \in Nat : (i - n = 1 => i = n + 1) /\ (i - n = 2 => i = n + 2)
        BY <3>5
      <4> QED
        BY <3>4, <3>6, <4>1
    <3>10. /\ Listed(u, n + 1)' /\ Joined(u, n + 2)'
           /\ \A i \in At(u)' : /\ ~Made(u, i)' /\ ~Left(u, i)' /\ ~Begun(u, i)' /\ ~Denied(u, i)'
                                /\ (Listed(u, i)' => i = n + 1) /\ (Joined(u, i)' => i = n + 2)
      <4>1. \A i \in At(u)' : mail'[u][i] = listed => ~Made(u, i)' /\ ~Left(u, i)' /\ ~Begun(u, i)' /\ ~Denied(u, i)' /\ ~Joined(u, i)' /\ Listed(u, i)'
        BY DEF Made, Listed, Joined, Left, Begun, Denied, Own, Msg
      <4>2. \A i \in At(u)' : mail'[u][i] = joined => ~Made(u, i)' /\ ~Left(u, i)' /\ ~Begun(u, i)' /\ ~Denied(u, i)' /\ Joined(u, i)' /\ ~Listed(u, i)'
        BY DEF Made, Listed, Joined, Left, Begun, Denied, Own, Msg
      <4> QED
        BY <3>1, <3>5, <3>8, <3>9, <4>1, <4>2
    <3>11. \A i \in At(u)' : ~Closed(u, i, g)'
      <4>1. \A i \in At(u) : ~Closed(u, i, g)
        BY <1>1, <1>9 DEF ShutInv, Shuts, Closed
      <4> QED
        BY <3>5, <3>9, <4>1 DEF Closed, Msg
    <3>12. mail'[u][n + 2].game = g /\ mail'[u][n + 1].game = g
      BY <3>8 DEF Msg
    <3>13. MailInv(u)'
      <4>1. OneEach(u)'
        BY <3>10 DEF OneEach
      <4>2. (n + 1) + 1 = n + 2 /\ (n + 2) - 1 = n + 1
        BY <3>5
      <4>3. EntryOrder(u)'
        BY <3>8, <3>10, <3>12, <4>2 DEF EntryOrder
      <4>4. AfterEntry(u)'
        BY <3>10, <3>11, <3>12 DEF AfterEntry
      <4> QED
        BY <4>1, <4>3, <4>4 DEF MailInv
    <3>14. awaiting'[u] = "GAMRJOIN"
      BY <1>7, <1>9
    <3>15. AwaitInv(u)' /\ Entering(u)'
      BY <1>7, <3>8, <3>10, <3>14 DEF AwaitInv, Entering
    <3>16. EntryInv(u)'
      <4>1. n + 2 # 1
        BY <3>5
      <4>2. Enters(u, n + 2, g)'
        BY <1>2, <1>5, <1>6, <1>7, <2>8, <2>9, <4>1 DEF Enters
      <4> QED
        BY <1>7, <3>1, <3>10, <3>12, <4>2 DEF EntryInv, EntryRoom, LearnsId
    <3>17. InRoomInv(u)' /\ PlayInv(u)'
      BY <1>7, <2>8, <3>1, <3>10, <3>14, <3>15 DEF InRoomInv, PlayInv
    <3>18. OutInv(u)' /\ WindowInv(u)' /\ OrderInv(u)' /\ KickInv(u)'
      BY <1>4, <1>7, <2>8, <3>1, <3>10, <3>14 DEF OutInv, WindowInv, OrderInv, KickInv
    <3> QED
      BY <3>13, <3>15, <3>16, <3>17, <3>18 DEF ViewInv
  <2>16. UInv(u)'
    BY <1>5, <2>14, <2>15 DEF UInv, Clear
  <2> QED
    BY <1>6, <2>7, <2>10, <2>12, <2>13, <2>16 DEF RInv
<1> QED
  BY <1>8, <1>9

\* Who is out of its room when u goes, and what the others are told.
Gone(u) == IF roomOf[u] # 0 /\ ownerOf[roomOf[u]] = u THEN In(roomOf[u]) ELSE {u}
Out(u) == Msg("GAMRLEAV", u, roomOf[u])
Shut(u) == Msg("GAMESHUT", u, roomOf[u])
Bye(u, w) == (IF roomOf[u] # 0 /\ w \in In(roomOf[u]) THEN <<Out(u)>> ELSE <<>>) \o
             (IF roomOf[u] # 0 /\ ownerOf[roomOf[u]] = u THEN <<Shut(u)>> ELSE <<>>)
GoesOut(u) ==
  /\ roomOf' = [v \in Users |-> IF v \in Gone(u) THEN 0 ELSE roomOf[v]]
  /\ playing' = playing \ Gone(u)
  /\ connected' = connected \/ connected' = connected \ {u}
  /\ ownerOf' = ownerOf /\ skips' = skips /\ \A w \in Users : w # u /\ w \in kicked => w \in kicked'

\* The rooms when somebody has gone: a room without its owner is empty.
LEMMA Vacates ==
  ASSUME RInv, NEW u \in Users, GoesOut(u)
  PROVE  /\ u \in Gone(u) /\ roomOf'[u] = 0 /\ roomOf' \in [Users -> Nat] /\ playing' \subseteq Users /\ u \notin playing'
         /\ Known' = Known /\ KnownInv' /\ RoomsInv'
         /\ \A g \in Known : g \in Known' /\ (In(g) = {} => In(g)' = {})
         /\ roomOf[u] # 0 /\ ownerOf[roomOf[u]] = u => roomOf[u] \in Known' /\ \A w \in Users : roomOf'[w] # roomOf[u]
<1>1. TypeInv /\ KnownInv /\ RoomsInv
  BY DEF RInv
<1>2. u \in Gone(u) /\ Gone(u) \subseteq Users
  BY DEF Gone, In
<1>3. /\ \A w \in Users : roomOf'[w] = IF w \in Gone(u) THEN 0 ELSE roomOf[w]
      /\ playing' = playing \ Gone(u) /\ (connected' = connected \/ connected' = connected \ {u}) /\ ownerOf' = ownerOf
  BY DEF GoesOut
<1>4. roomOf' \in [Users -> Nat]
  BY <1>1 DEF GoesOut, TypeInv
<1>5. playing' \subseteq Users
  BY <1>1, <1>3 DEF TypeInv
<1>6. Known' = Known /\ KnownInv'
  BY <1>1, <1>3 DEF Known, KnownInv
<1>7. RoomsInv'
  <2>1. ASSUME NEW w \in Users, roomOf'[w] # 0
        PROVE  roomOf'[w] \in Known' /\ w \in connected' /\ roomOf'[ownerOf'[roomOf'[w]]] = roomOf'[w]
    <3>1. w \notin Gone(u) /\ w # u /\ roomOf'[w] = roomOf[w] /\ roomOf[w] # 0
      BY <1>2, <1>3, <2>1
    <3>2. roomOf[w] \in Known /\ w \in connected /\ roomOf[ownerOf[roomOf[w]]] = roomOf[w] /\ ownerOf[roomOf[w]] \in Users
      BY <1>1, <3>1, KnownIds DEF RoomsInv
    <3>3. ownerOf[roomOf[w]] \notin Gone(u)
      BY <3>1, <3>2 DEF Gone, In
    <3> QED
      BY <1>3, <1>6, <3>1, <3>2, <3>3
  <2>2. ASSUME NEW w \in Users, w \in playing' PROVE roomOf'[w] # 0
    BY <1>1, <1>3, <2>2 DEF RoomsInv
  <2> QED
    BY <2>1, <2>2 DEF RoomsInv
<1>8. \A g \in Known : g \in Known' /\ (In(g) = {} => In(g)' = {})
  <2>1. ASSUME NEW g \in Known, In(g) = {} PROVE In(g)' = {}
    BY <1>1, <1>3, <2>1, KnownIds DEF In
  <2> QED
    BY <1>6, <2>1
<1>9. roomOf[u] # 0 /\ ownerOf[roomOf[u]] = u => roomOf[u] \in Known' /\ \A w \in Users : roomOf'[w] # roomOf[u]
  BY <1>1, <1>3, <1>6 DEF Gone, In, RoomsInv
<1> QED
  BY <1>2, <1>3, <1>4, <1>5, <1>6, <1>7, <1>8, <1>9

\* What is said of it.
LEMMA Byes ==
  ASSUME RInv, NEW u \in Users, NEW w \in Users
  PROVE  /\ Out(u) \in Messages /\ Shut(u) \in Messages
         /\ Bye(u, w) \in Seq(Messages) /\ \A i \in DOMAIN Bye(u, w) : Bye(u, w)[i].kind = "GAMESHUT" => Bye(u, w)[i] = Shut(u)
         /\ \A i \in DOMAIN Bye(u, w) : Bye(u, w)[i].kind = "GAMESHUT" => roomOf[u] # 0 /\ ownerOf[roomOf[u]] = u
         /\ w # u => Told(w, Bye(u, w))
         /\ roomOf[u] # 0 /\ ownerOf[roomOf[u]] = u => Says(Bye(u, w), Shut(u))
         /\ roomOf[u] # 0 => Bye(u, u) = IF ownerOf[roomOf[u]] = u THEN <<Out(u), Shut(u)>> ELSE <<Out(u)>>
<1> DEFINE a == IF roomOf[u] # 0 /\ w \in In(roomOf[u]) THEN <<Out(u)>> ELSE <<>>
           b == IF roomOf[u] # 0 /\ ownerOf[roomOf[u]] = u THEN <<Shut(u)>> ELSE <<>>
<1>1. Out(u) \in Messages /\ Shut(u) \in Messages
  BY DEF RInv, TypeInv, Out, Shut, Msg, Messages
<1>2. <<Out(u)>> \in Seq(Messages) /\ <<Shut(u)>> \in Seq(Messages) /\ <<>> \in Seq(Messages) /\ Says(<<Shut(u)>>, Shut(u))
  BY <1>1, Tells, EmptySeq
<1>3. /\ <<Out(u)>> \o <<Shut(u)>> = <<Out(u), Shut(u)>> /\ <<Out(u)>> \o <<>> = <<Out(u)>>
      /\ <<>> \o <<Shut(u)>> = <<Shut(u)>> /\ <<>> \o <<>> = <<>>
  BY <1>1, <1>2, Several, ConcatEmptySeq
<1>4. Bye(u, w) = a \o b /\ a \in Seq(Messages) /\ b \in Seq(Messages)
  BY <1>2 DEF Bye
<1>5. Bye(u, w) \in Seq(Messages)
  BY <1>4, Tells
<1>6. \A i \in DOMAIN Bye(u, w) : Bye(u, w)[i].kind = "GAMESHUT" =>
        Bye(u, w)[i] = Shut(u) /\ roomOf[u] # 0 /\ ownerOf[roomOf[u]] = u
  <2>1. Out(u).kind # "GAMESHUT"
    BY DEF Out, Msg
  <2>2. Bye(u, w) \in {<<Out(u), Shut(u)>>, <<Out(u)>>, <<Shut(u)>>, <<>>}
    BY <1>3, <1>4
  <2>3. ~(roomOf[u] # 0 /\ ownerOf[roomOf[u]] = u) => Bye(u, w) \in {<<Out(u)>>, <<>>}
    BY <1>3, <1>4
  <2>4. \A i \in DOMAIN Bye(u, w) : Bye(u, w)[i].kind = "GAMESHUT" => Bye(u, w)[i] = Shut(u)
    BY <2>1, <2>2
  <2>5. Bye(u, w) \in {<<Out(u)>>, <<>>} => \A i \in DOMAIN Bye(u, w) : Bye(u, w)[i].kind # "GAMESHUT"
    BY <2>1
  <2> QED
    BY <2>3, <2>4, <2>5
<1>7. w # u => Told(w, Bye(u, w))
  <2>1. TypeInv /\ (roomOf[u] # 0 => u \in connected)
    BY DEF RInv, RoomsInv
  <2>2. Shut(u).kind = "GAMESHUT" /\ (w # u /\ roomOf[u] # 0 => Foreign(w, Out(u)))
    BY <2>1, Written DEF Foreign, Out, Shut
  <2>3. w # u => Told(w, a) /\ Told(w, b)
    BY <1>1, <2>2, Tells
  <2> HIDE DEF a, b
  <2> QED
    BY <1>4, <2>3, Tells
<1>8. roomOf[u] # 0 /\ ownerOf[roomOf[u]] = u => Says(Bye(u, w), Shut(u))
  <2>1. roomOf[u] # 0 /\ ownerOf[roomOf[u]] = u => Says(b, Shut(u))
    BY <1>2
  <2> HIDE DEF a, b
  <2> QED
    BY <1>4, <2>1, Tells
<1>9. roomOf[u] # 0 => Bye(u, u) = IF ownerOf[roomOf[u]] = u THEN <<Out(u), Shut(u)>> ELSE <<Out(u)>>
  BY <1>3 DEF Bye, In
<1> QED
  BY <1>1, <1>5, <1>6, <1>7, <1>8, <1>9

\* The others hear of it.
LEMMA OthersHear ==
  ASSUME RInv, NEW u \in Users, GoesOut(u), NEW w \in Users, w # u, Local(w),
         NEW s, Told(w, s), mail'[w] = mail[w] \o s, w \notin connected => s = <<>>,
         w \in connected /\ roomOf[u] # 0 /\ ownerOf[roomOf[u]] = u => Says(s, Shut(u))
  PROVE  UInv(w)'
<1>1. /\ \A v \in Users : roomOf'[v] = IF v \in Gone(u) THEN 0 ELSE roomOf[v]
      /\ playing' = playing \ Gone(u) /\ (connected' = connected \/ connected' = connected \ {u}) /\ ownerOf' = ownerOf
      /\ (w \in kicked => w \in kicked') /\ skips' = skips
  BY DEF GoesOut
<1>2. \A g \in Known : g \in Known' /\ ownerOf'[g] = ownerOf[g]
  BY <1>1 DEF Known
<1>3. roomOf'[w] = roomOf[w] \/ (/\ roomOf'[w] = 0 /\ ownerOf[roomOf[w]] # w
                                 /\ \E i \in DOMAIN s : s[i].kind = "GAMESHUT" /\ s[i].game = roomOf[w])
  <2>1. CASE w \in Gone(u)
    <3>1. roomOf[u] # 0 /\ ownerOf[roomOf[u]] = u /\ roomOf[w] = roomOf[u]
      BY <2>1 DEF Gone, In
    <3>2. w \in connected
      BY <3>1 DEF RInv, RoomsInv
    <3>3. Says(s, Shut(u)) /\ Shut(u).kind = "GAMESHUT" /\ Shut(u).game = roomOf[w]
      BY <3>1, <3>2 DEF Shut, Msg
    <3> QED
      BY <1>1, <2>1, <3>1, <3>3 DEF Says
  <2> QED
    BY <1>1, <2>1
<1>4. s \in Seq(Messages) /\ \A i \in DOMAIN s : Foreign(w, s[i]) \/ s[i].kind = "GAMESHUT"
  BY DEF Told
<1>5. (w \in connected' <=> w \in connected) /\ (roomOf'[w] # 0 => (w \in playing' <=> w \in playing)) /\ (skips >= 1 => skips' >= 1)
  BY <1>1
<1> QED
  BY <1>1, <1>2, <1>3, <1>4, <1>5, Hears

\* One goes out of its room but not of the server.
LEMMA Departs ==
  ASSUME RInv, NEW u \in Users, roomOf[u] # 0, Depart(u, Users), connected' = connected, ownerOf' = ownerOf, skips' = skips,
         \A w \in Users : w # u /\ w \in kicked => w \in kicked', \A w \in Users : w # u => Local(w)
  PROVE  /\ roomOf'[u] = 0 /\ roomOf' \in [Users -> Nat] /\ playing' \subseteq Users /\ mail' \in [Users -> Seq(Messages)]
         /\ Known' = Known /\ KnownInv' /\ RoomsInv' /\ ShutInv' /\ u \in connected /\ Sent(u, Bye(u, u))
         /\ \A w \in Users \ {u} : UInv(w)'
<1>1. TypeInv /\ ShutInv /\ KnownInv /\ RoomsInv
  BY DEF RInv
<1> DEFINE said(v) == IF v \in connected THEN Bye(u, v) ELSE <<>>
<1>2. GoesOut(u)
  BY DEF Depart, GoesOut, Gone
<1>3. mail' = [v \in Users |-> mail[v] \o said(v)]
  BY DEF Depart, Send, Bye, Out, Shut
<1>4. \A v \in Users : /\ said(v) \in Seq(Messages) /\ (v # u => Told(v, said(v)))
                       /\ \A i \in DOMAIN said(v) : said(v)[i].kind = "GAMESHUT" =>
                            said(v)[i] = Shut(u) /\ roomOf[u] # 0 /\ ownerOf[roomOf[u]] = u
  BY Byes, Tells, EmptySeq
<1>5. u \in connected /\ said(u) = Bye(u, u)
  BY <1>1 DEF RoomsInv
<1>6. \A v \in Users : v \in connected /\ roomOf[u] # 0 /\ ownerOf[roomOf[u]] = u => Says(said(v), Shut(u))
  BY Byes
<1>7. \A v \in Users : v \notin connected => said(v) = <<>>
  OBVIOUS
<1> HIDE DEF said
<1>8. mail' \in [Users -> Seq(Messages)]
  <2>1. \A v \in Users : mail[v] \o said(v) \in Seq(Messages)
    BY <1>1, <1>4, Tells DEF TypeInv
  <2> QED
    BY <1>3, <2>1
<1>9. Sent(u, Bye(u, u))
  BY <1>3, <1>4, <1>5 DEF Sent
<1>10. /\ roomOf'[u] = 0 /\ roomOf' \in [Users -> Nat] /\ playing' \subseteq Users /\ Known' = Known /\ KnownInv' /\ RoomsInv'
       /\ \A g \in Known : g \in Known' /\ (In(g) = {} => In(g)' = {})
       /\ ownerOf[roomOf[u]] = u => roomOf[u] \in Known' /\ \A w \in Users : roomOf'[w] # roomOf[u]
  BY <1>2, Vacates
<1>11. ShutInv'
  <2>1. Shut(u).game = roomOf[u]
    BY DEF Shut, Msg
  <2>2. ASSUME NEW v \in Users PROVE Shuts(v)'
    <3>1. PICK s : s = said(v)
      OBVIOUS
    <3>2. s \in Seq(Messages) /\ mail'[v] = mail[v] \o s
      BY <1>3, <1>4, <3>1
    <3>3. \A i \in DOMAIN s : s[i].kind = "GAMESHUT" => s[i].game \in Known' /\ In(s[i].game)' = {}
      <4>1. \A i \in DOMAIN s : s[i].kind = "GAMESHUT" => s[i].game = roomOf[u] /\ ownerOf[roomOf[u]] = u
        BY <1>4, <2>1, <3>1
      <4>2. ASSUME NEW i \in DOMAIN s, s[i].kind = "GAMESHUT" PROVE In(s[i].game)' = {}
        <5>1. s[i].game = roomOf[u] /\ \A x \in Users : roomOf'[x] # roomOf[u]
          BY <1>10, <4>1, <4>2
        <5> QED
          BY <5>1 DEF In
      <4> QED
        BY <1>10, <4>1, <4>2
    <3> QED
      BY <1>1, <1>10, <3>2, <3>3, ShutsAfter
  <2> QED
    BY <2>2 DEF ShutInv
<1>12. ASSUME NEW w \in Users \ {u} PROVE UInv(w)'
  <2>1. mail'[w] = mail[w] \o said(w)
    BY <1>3
  <2> QED
    BY <1>2, <1>4, <1>6, <1>7, <2>1, OthersHear
<1> QED
  BY <1>5, <1>8, <1>9, <1>10, <1>11, <1>12

\* One message more, behind those that were not read.
LEMMA OneMore ==
  ASSUME TypeInv, NEW u \in Users, NEW m \in Messages, Sent(u, <<m>>), NEW n, n = Len(mail[u])
  PROVE  /\ n \in Nat /\ n + 1 \in At(u)' /\ mail'[u][n + 1] = m
         /\ \A i \in At(u) : /\ i \in Nat /\ i < n + 1 /\ i # n + 1 /\ i \in At(u)' /\ mail'[u][i] = mail[u][i]
                             /\ (Made(u, i)' <=> Made(u, i)) /\ (Listed(u, i)' <=> Listed(u, i)) /\ (Joined(u, i)' <=> Joined(u, i))
                             /\ (Left(u, i)' <=> Left(u, i)) /\ (Begun(u, i)' <=> Begun(u, i)) /\ (Denied(u, i)' <=> Denied(u, i))
                             /\ \A g : Closed(u, i, g)' <=> Closed(u, i, g)
         /\ \A i \in At(u)' : i \in Nat /\ i > 0 /\ i <= n + 1 /\ (i \in At(u) \/ i = n + 1)
<1>1. PICK s : s = <<m>>
  OBVIOUS
<1>2. DOMAIN s = {1} /\ s[1] = m /\ Sent(u, s)
  BY <1>1
<1>3. /\ n \in Nat
      /\ \A i \in At(u) : /\ i \in Nat /\ i <= n /\ i \in At(u)' /\ mail'[u][i] = mail[u][i]
                          /\ (Made(u, i)' <=> Made(u, i)) /\ (Listed(u, i)' <=> Listed(u, i)) /\ (Joined(u, i)' <=> Joined(u, i))
                          /\ (Left(u, i)' <=> Left(u, i)) /\ (Begun(u, i)' <=> Begun(u, i)) /\ (Denied(u, i)' <=> Denied(u, i))
                          /\ \A g : Closed(u, i, g)' <=> Closed(u, i, g)
  BY <1>2, Sends
<1>4. \A i \in At(u)' : i \in Nat /\ i > 0 /\ (i \in At(u) \/ (i > n /\ i - n \in DOMAIN s))
  BY <1>2, Sends
<1>5. \A k \in DOMAIN s : k + n \in At(u)' /\ mail'[u][k + n] = s[k]
  BY <1>2, Sends
<1>6. n + 1 \in At(u)' /\ mail'[u][n + 1] = m
  <2>1. 1 + n = n + 1
    BY <1>3
  <2> QED
    BY <1>2, <1>5, <2>1
<1>7. \A i \in At(u) : i < n + 1 /\ i # n + 1 /\ i <= n + 1
  BY <1>3
<1>8. \A i \in At(u)' : i <= n + 1 /\ (i \in At(u) \/ i = n + 1)
  <2>1. \A i \in Nat : i - n = 1 => i = n + 1 /\ i <= n + 1
    BY <1>3
  <2> QED
    BY <1>2, <1>4, <1>7, <2>1
<1> QED
  BY <1>3, <1>4, <1>6, <1>7, <1>8

\* A room entered is known by its id.
LEMMA KnowsRoom ==
  ASSUME RInv, NEW u \in Users, Clear(u), roomOf[u] # 0
  PROVE  /\ gameIdRequested[u] \/ userIdRequested[u] => ownerOf[roomOf[u]] = u
         /\ ~gameIdRequested[u] => gameId[u] = roomOf[u] /\ \A i \in At(u) : ~Closed(u, i, gameId[u])
<1>1. AwaitInv(u) /\ EntryInv(u) /\ InRoomInv(u) /\ MailInv(u) /\ ShutInv /\ TypeInv
  BY DEF RInv, UInv, ViewInv
<1>2. gameIdRequested[u] \/ userIdRequested[u] => Entering(u)
  BY <1>1, NotEntering
<1>3. \A j \in At(u) : Joined(u, j) => Enters(u, j, roomOf[u]) /\ mail[u][j].game = roomOf[u]
  BY <1>1 DEF EntryInv, EntryRoom, Enters
<1>4. gameIdRequested[u] => ownerOf[roomOf[u]] = u
  BY <1>2, <1>3 DEF Entering, Enters
<1>5. userIdRequested[u] => ownerOf[roomOf[u]] = u
  BY <1>1, <1>3 DEF EntryInv, LearnsId
<1>6. ~gameIdRequested[u] => gameId[u] = roomOf[u]
  <2>1. CASE Entering(u)
    BY <1>3, <2>1 DEF Entering, Enters
  <2>2. CASE ~Entering(u)
    BY <1>1, <2>2 DEF InRoomInv
  <2> QED
    BY <2>1, <2>2
<1>7. \A i \in At(u) : ~Closed(u, i, roomOf[u])
  BY <1>1 DEF ShutInv, Shuts, Closed, In
<1> QED
  BY <1>4, <1>5, <1>6, <1>7

\* A player is kicked.
LEMMA Kicks ==
  ASSUME RInv, NEW h \in Users, NEW u \in Users, Kick(h, u)
  PROVE  RInv'
<1>1. /\ TypeInv /\ KnownInv /\ RoomsInv
      /\ Clear(u) => /\ MailInv(u) /\ AwaitInv(u) /\ EntryInv(u) /\ InRoomInv(u) /\ WindowInv(u) /\ OrderInv(u) /\ KickInv(u)
  BY DEF RInv, UInv, ViewInv
<1>2. /\ roomOf[u] # 0 /\ ownerOf[roomOf[u]] # u /\ Depart(u, Users) /\ kicked' = kicked \cup {u}
      /\ UNCHANGED <<connected, idOf, ownerOf, userstat, playerstat, isOwner, gameIdRequested, gameId, userIdRequested,
                     leaveRequested, userId, page, hosting, toldKicked, awaiting, belief, skips>>
  BY DEF Kick, coreVars, windowVars
<1>3. \A w \in Users : Local(w)
  BY <1>2 DEF Local
<1>4. /\ roomOf'[u] = 0 /\ roomOf' \in [Users -> Nat] /\ playing' \subseteq Users /\ mail' \in [Users -> Seq(Messages)]
      /\ Known' = Known /\ KnownInv' /\ RoomsInv' /\ ShutInv' /\ u \in connected /\ Sent(u, Bye(u, u))
      /\ \A w \in Users \ {u} : UInv(w)'
  <2>1. kicked \subseteq kicked' /\ connected' = connected /\ ownerOf' = ownerOf /\ skips' = skips
    BY <1>2
  <2> QED
    BY <1>2, <1>3, <2>1, Departs
<1>5. TypeInv'
  BY <1>1, <1>2, <1>4 DEF TypeInv
<1>6. Out(u) \in Messages /\ Sent(u, <<Out(u)>>)
  BY <1>2, <1>4, Byes
<1>7. PICK n : n = Len(mail[u])
  OBVIOUS
<1>8. PICK m : m = Out(u)
  OBVIOUS
<1>9. /\ n \in Nat /\ n + 1 \in At(u)' /\ mail'[u][n + 1] = m
      /\ \A i \in At(u) : /\ i \in Nat /\ i < n + 1 /\ i # n + 1 /\ i \in At(u)' /\ mail'[u][i] = mail[u][i]
                          /\ (Made(u, i)' <=> Made(u, i)) /\ (Listed(u, i)' <=> Listed(u, i)) /\ (Joined(u, i)' <=> Joined(u, i))
                          /\ (Left(u, i)' <=> Left(u, i)) /\ (Begun(u, i)' <=> Begun(u, i)) /\ (Denied(u, i)' <=> Denied(u, i))
                          /\ \A g : Closed(u, i, g)' <=> Closed(u, i, g)
      /\ \A i \in At(u)' : i \in Nat /\ i > 0 /\ i <= n + 1 /\ (i \in At(u) \/ i = n + 1)
  BY <1>1, <1>6, <1>7, <1>8, OneMore
<1>10. /\ Left(u, n + 1)' /\ ~Made(u, n + 1)' /\ ~Listed(u, n + 1)' /\ ~Joined(u, n + 1)' /\ ~Begun(u, n + 1)' /\ ~Denied(u, n + 1)'
       /\ \A g : ~Closed(u, n + 1, g)'
  BY <1>8, <1>9 DEF Own, Made, Listed, Joined, Left, Begun, Denied, Closed, Out, Msg
<1>11. Away(u)' /\ LoginInv(u)' /\ IdInv(u)'
  <2>1. PICK s : s = <<Out(u)>>
    OBVIOUS
  <2>2. DOMAIN s = {1} /\ s[1] = Out(u) /\ Sent(u, s)
    BY <1>6, <2>1
  <2>3. \A i \in DOMAIN s : IdOk(u, s[i])
    BY <1>1, <2>2, Written DEF Out
  <2> QED
    BY <1>2, <1>4, <2>2, <2>3, Stays
<1>12. ASSUME Clear(u) PROVE ViewInv(u)'
  <2>1. /\ \A i \in At(u) : ~Left(u, i)
        /\ ~leaveRequested[u] /\ (page[u] = "room" \/ Entering(u)) /\ ~userIdRequested[u] /\ ~gameIdRequested[u]
        /\ \A i \in At(u) : ~Closed(u, i, gameId[u])
    BY <1>12, <1>1, <1>2, KnowsRoom DEF InRoomInv
  <2>2. \A i \in At(u)' : (Left(u, i)' => i = n + 1) /\ (i # n + 1 => i \in At(u))
    BY <1>9, <2>1
  <2>3. Entering(u)' <=> Entering(u)
    BY <1>9, <1>10 DEF Entering
  <2>4. MailInv(u)'
    <3>1. OneEach(u)'
      BY <1>12, <1>1, <1>9, <1>10, <2>2 DEF MailInv, OneEach
    <3>2. EntryOrder(u)'
      <4>1. \A j \in At(u) : Joined(u, j) => j = 1 \/ (Listed(u, j - 1) /\ j - 1 \in At(u))
        BY <1>12, <1>1, LenProperties DEF MailInv, EntryOrder, At, TypeInv
      <4>2. \A j \in At(u)' : Joined(u, j)' => j = 1 \/ Listed(u, j - 1)'
        BY <1>9, <1>10, <4>1
      <4>3. \A i \in At(u)' : Listed(u, i)' => i + 1 \in At(u)' /\ Joined(u, i + 1)' /\ mail'[u][i + 1].game = mail'[u][i].game
        BY <1>12, <1>1, <1>9, <1>10 DEF MailInv, EntryOrder
      <4>4. \A i \in At(u)' : Made(u, i)' => i + 1 \in At(u)' /\ Listed(u, i + 1)' /\ mail'[u][i + 1].game = mail'[u][i].game
        BY <1>12, <1>1, <1>9, <1>10 DEF MailInv, EntryOrder
      <4> QED
        BY <4>2, <4>3, <4>4 DEF EntryOrder
    <3>3. AfterEntry(u)'
      BY <1>12, <1>1, <1>9, <1>10, <2>2 DEF MailInv, AfterEntry
    <3> QED
      BY <3>1, <3>2, <3>3 DEF MailInv
  <2>5. AwaitInv(u)'
    BY <1>12, <1>1, <1>2, <1>9, <1>10, <2>3 DEF AwaitInv
  <2>6. EntryInv(u)'
    <3>1. \A j \in At(u)' : Joined(u, j)' => j \in At(u) /\ Joined(u, j) /\ mail'[u][j].game = mail[u][j].game
      BY <1>9, <1>10
    <3>2. ASSUME NEW j \in At(u), NEW g, Enters(u, j, g) PROVE Enters(u, j, g)'
      BY <1>2, <1>4, <3>2 DEF Enters
    <3>3. EntryRoom(u)'
      BY <1>12, <1>1, <3>1, <3>2 DEF EntryInv, EntryRoom
    <3> QED
      BY <1>2, <2>1, <3>3 DEF EntryInv, LearnsId
  <2>7. InRoomInv(u)' /\ PlayInv(u)'
    BY <1>4 DEF InRoomInv, PlayInv
  <2>8. OutInv(u)'
    BY <1>12, <1>1, <1>2, <1>9, <1>10, <2>1 DEF OutInv, TypeInv
  <2>9. WindowInv(u)' /\ KickInv(u)'
    BY <1>12, <1>1, <1>2, <2>2 DEF WindowInv, KickInv
  <2>10. OrderInv(u)'
    BY <1>2, <1>9, <1>10, <2>1, <2>2, <2>3 DEF OrderInv
  <2> QED
    BY <2>4, <2>5, <2>6, <2>7, <2>8, <2>9, <2>10 DEF ViewInv
<1>13. UInv(u)'
  BY <1>2, <1>11, <1>12 DEF UInv, Clear
<1> QED
  BY <1>4, <1>5, <1>13 DEF RInv

\* A message sent alone.
LEMMA Single ==
  \A m \in Messages : DOMAIN <<m>> = {1} /\ <<m>>[1] = m
<1> QED
  OBVIOUS

\* A request that is refused changes nothing at the server.
LEMMA OnlyRefused ==
  ASSUME RInv, NEW u \in Users, UNCHANGED <<connected, roomOf, ownerOf, playing, kicked, skips>>,
         mail' = Send({u}, LAMBDA v : <<Msg("refused", u, 0)>>), \A w \in Users : w # u => Local(w)
  PROVE  /\ mail' \in [Users -> Seq(Messages)] /\ Sent(u, <<Msg("refused", u, 0)>>)
         /\ KnownInv' /\ RoomsInv' /\ ShutInv' /\ \A w \in Users \ {u} : UInv(w)'
<1> DEFINE no == Msg("refused", u, 0)
<1>1. TypeInv /\ KnownInv /\ RoomsInv /\ ShutInv
  BY DEF RInv
<1>2. mail' = [v \in Users |-> mail[v] \o (IF v \in {u} THEN <<no>> ELSE <<>>)]
  BY DEF Send
<1>3. no \in Messages /\ <<no>> \in Seq(Messages)
  <2>1. no \in Messages
    BY DEF Msg, Messages
  <2> QED
    BY <2>1, Tells
<1>4. mail'[u] = mail[u] \o <<no>> /\ \A w \in Users \ {u} : mail'[w] = mail[w]
  <2>1. \A w \in Users \ {u} : mail[w] \o <<>> = mail[w]
    BY <1>1, ConcatEmptySeq DEF TypeInv
  <2> QED
    BY <1>2, <2>1
<1>5. mail' \in [Users -> Seq(Messages)]
  <2>1. mail[u] \o <<no>> \in Seq(Messages)
    BY <1>1, <1>3, Tells DEF TypeInv
  <2>2. \A w \in Users : mail'[w] \in Seq(Messages)
    BY <1>1, <1>4, <2>1 DEF TypeInv
  <2> QED
    BY <1>2, <2>2
<1>6. Known' = Known /\ KnownInv'
  BY <1>1 DEF Known, KnownInv
<1>7. RoomsInv'
  BY <1>1, <1>6 DEF RoomsInv
<1>8. ShutInv'
  <2>1. \A h : In(h)' = In(h)
    BY DEF In
  <2>2. Shuts(u)'
    <3>1. no.kind = "refused" /\ DOMAIN <<no>> = {1} /\ <<no>>[1] = no
      <4>1. no.kind = "refused"
        BY DEF Msg
      <4>2. \A m \in Messages : DOMAIN <<m>> = {1} /\ <<m>>[1] = m
        BY Single
      <4> HIDE DEF no
      <4> QED
        BY <1>3, <4>1, <4>2
    <3>2. \A g \in Known : g \in Known' /\ (In(g) = {} => In(g)' = {})
      BY <1>6, <2>1
    <3> HIDE DEF no
    <3>3. PICK s : s = <<no>>
      OBVIOUS
    <3>4. s \in Seq(Messages) /\ mail'[u] = mail[u] \o s
      BY <1>3, <1>4, <3>3
    <3>5. \A i \in DOMAIN s : s[i].kind # "GAMESHUT"
      <4>1. DOMAIN s = {1} /\ s[1].kind = "refused"
        BY <3>1, <3>3
      <4> QED
        BY <4>1
    <3> QED
      BY <1>1, <3>2, <3>4, <3>5, ShutsAfter
  <2>3. ASSUME NEW w \in Users \ {u} PROVE Shuts(w)'
    BY <1>1, <1>4, <1>6, <2>1 DEF ShutInv, Shuts, At
  <2> QED
    BY <2>2, <2>3 DEF ShutInv
<1>9. ASSUME NEW w \in Users \ {u} PROVE UInv(w)'
  <2>1. /\ Local(w) /\ (w \in connected' <=> w \in connected) /\ (skips >= 1 => skips' >= 1) /\ (w \in kicked => w \in kicked')
        /\ roomOf'[w] = roomOf[w] /\ (roomOf'[w] # 0 => (w \in playing' <=> w \in playing))
    OBVIOUS
  <2>2. \A g \in Known : g \in Known' /\ ownerOf'[g] = ownerOf[g]
    BY <1>6
  <2> QED
    BY <1>4, <2>1, <2>2, Untouched
<1> QED
  BY <1>3, <1>4, <1>5, <1>6, <1>7, <1>8, <1>9 DEF Sent

\* A room is created, or the server refuses that to who is in one, which only a user that was misled asks for.
LEMMA Creates ==
  ASSUME RInv, Patient, NEW u \in Users, CreateGame(u)
  PROVE  RInv'
<1>1. TypeInv /\ awaiting[u] = "none" /\ page[u] = "lobby" /\ userstat[u] > 1
  BY DEF RInv, CreateGame, Requests
<1>2. CASE roomOf[u] = 0
  BY <1>2, CreatesRoom
<1>3. CASE roomOf[u] # 0
  <2>1. /\ UNCHANGED <<connected, idOf, roomOf, ownerOf, playing, userstat, playerstat, gameId, userIdRequested, leaveRequested, userId,
                       page, hosting, toldKicked, kicked, belief, skips>>
        /\ mail' = Send({u}, LAMBDA v : <<Msg("refused", u, 0)>>) /\ isOwner' = [isOwner EXCEPT ![u] = TRUE]
        /\ gameIdRequested' = [gameIdRequested EXCEPT ![u] = TRUE] /\ awaiting' = [awaiting EXCEPT ![u] = "refused"]
    BY <1>3 DEF CreateGame, Requests, windowVars
  <2>2. /\ mail' \in [Users -> Seq(Messages)] /\ Sent(u, <<Msg("refused", u, 0)>>)
        /\ KnownInv' /\ RoomsInv' /\ ShutInv' /\ \A w \in Users \ {u} : UInv(w)'
    <3>1. \A w \in Users : w # u => Local(w)
      BY <1>1, <2>1 DEF Local, TypeInv
    <3> QED
      BY <2>1, <3>1, OnlyRefused
  <2>3. TypeInv'
    BY <1>1, <2>1, <2>2 DEF TypeInv
  <2>4. u \in connected
    BY <1>3 DEF RInv, RoomsInv
  <2>5. Away(u)' /\ LoginInv(u)' /\ IdInv(u)'
    <3>1. PICK s : s = <<Msg("refused", u, 0)>>
      OBVIOUS
    <3>2. DOMAIN s = {1} /\ s[1] = Msg("refused", u, 0) /\ Sent(u, s)
      BY <2>2, <3>1
    <3>3. \A i \in DOMAIN s : IdOk(u, s[i])
      BY <1>1, <3>2, Written
    <3> QED
      BY <1>1, <2>1, <2>4, <3>2, <3>3, Stays
  <2>6. ~Clear(u)
    BY <1>1, <1>3, Idle
  <2> QED
    BY <2>1, <2>2, <2>3, <2>5, <2>6 DEF RInv, UInv, Clear
<1> QED
  BY <1>2, <1>3

\* A player leaves its room.
LEMMA Leaves ==
  ASSUME RInv, Patient, NEW u \in Users, LeaveGame(u)
  PROVE  RInv'
<1>1. TypeInv /\ KnownInv /\ RoomsInv /\ Away(u)
  BY DEF RInv, UInv
<1>2. awaiting[u] = "none" /\ page[u] = "room" /\ u \in connected
  BY <1>1 DEF LeaveGame, Requests, Away
<1>3. Clear(u) => /\ ~Entering(u) /\ ~gameIdRequested[u] /\ ~userIdRequested[u] /\ MailInv(u) /\ KickInv(u)
                  /\ \A i \in At(u) : ~Made(u, i) /\ ~Listed(u, i) /\ ~Joined(u, i) /\ ~Denied(u, i)
  BY <1>2, Idle DEF RInv, UInv, ViewInv
<1>4. /\ UNCHANGED <<connected, idOf, ownerOf, userstat, isOwner, gameIdRequested, gameId, userIdRequested, userId, toldKicked, kicked,
                     belief, skips>>
      /\ leaveRequested' = [leaveRequested EXCEPT ![u] = TRUE] /\ playerstat' = [playerstat EXCEPT ![u] = 0]
      /\ page' = [page EXCEPT ![u] = "lobby"] /\ hosting' = [hosting EXCEPT ![u] = FALSE]
      /\ awaiting' = [awaiting EXCEPT ![u] = IF roomOf[u] = 0 THEN "refused" ELSE "GAMRLEAV"]
  BY DEF LeaveGame, Requests
<1>5. /\ leaveRequested'[u] /\ playerstat'[u] # 1 /\ page'[u] = "lobby" /\ ~hosting'[u]
      /\ (Clear(u) => ~gameIdRequested'[u] /\ ~userIdRequested'[u]) /\ awaiting'[u] = IF roomOf[u] = 0 THEN "refused" ELSE "GAMRLEAV"
  BY <1>1, <1>3, <1>4 DEF TypeInv
<1>6. \A w \in Users : w # u => Local(w)
  BY <1>1, <1>4 DEF Local, TypeInv
<1>7. CASE roomOf[u] = 0
  <2>1. UNCHANGED <<roomOf, playing>> /\ mail' = Send({u}, LAMBDA v : <<Msg("refused", u, 0)>>)
    BY <1>7 DEF LeaveGame
  <2>2. UNCHANGED <<connected, roomOf, ownerOf, playing, kicked, skips>>
    BY <1>4, <2>1
  <2>3. /\ mail' \in [Users -> Seq(Messages)] /\ Sent(u, <<Msg("refused", u, 0)>>)
        /\ KnownInv' /\ RoomsInv' /\ ShutInv' /\ \A w \in Users \ {u} : UInv(w)'
    BY <1>6, <2>1, <2>2, OnlyRefused
  <2>4. TypeInv'
    BY <1>1, <1>4, <1>7, <2>2, <2>3 DEF TypeInv
  <2>5. Away(u)' /\ LoginInv(u)' /\ IdInv(u)'
    <3>1. PICK s : s = <<Msg("refused", u, 0)>>
      OBVIOUS
    <3>2. DOMAIN s = {1} /\ s[1] = Msg("refused", u, 0) /\ Sent(u, s)
      BY <2>3, <3>1
    <3>3. \A i \in DOMAIN s : IdOk(u, s[i])
      BY <1>1, <3>2, Written
    <3> QED
      BY <1>2, <1>4, <3>2, <3>3, Stays
  <2>6. ASSUME Clear(u) PROVE ViewInv(u)'
    <3>1. roomOf'[u] = 0 /\ kicked' = kicked /\ toldKicked'[u] = toldKicked[u]
      BY <1>4, <1>7, <2>1
    <3>2. userIdRequested'[u] = userIdRequested[u] /\ awaiting'[u] = "refused"
      BY <1>4, <1>5, <1>7
    <3>3. ~gameIdRequested'[u] /\ page'[u] = "lobby" /\ ~hosting'[u] /\ playerstat'[u] # 1 /\ leaveRequested'[u]
      BY <1>5, <2>6
    <3>4. awaiting[u] = "none" /\ roomOf[u] = 0 /\ Sent(u, <<Msg("refused", u, 0)>>)
      BY <1>2, <1>7, <2>3
    <3> QED
      BY <2>6, <3>1, <3>2, <3>3, <3>4, Refuses
  <2> QED
    BY <1>4, <2>3, <2>4, <2>5, <2>6 DEF RInv, UInv, Clear
<1>8. CASE roomOf[u] # 0
  <2>1. Depart(u, Users)
    BY <1>8 DEF LeaveGame
  <2>2. /\ roomOf'[u] = 0 /\ roomOf' \in [Users -> Nat] /\ playing' \subseteq Users /\ mail' \in [Users -> Seq(Messages)]
        /\ KnownInv' /\ RoomsInv' /\ ShutInv' /\ Sent(u, Bye(u, u)) /\ \A w \in Users \ {u} : UInv(w)'
    <3>1. kicked \subseteq kicked' /\ connected' = connected /\ ownerOf' = ownerOf /\ skips' = skips
      BY <1>4
    <3> QED
      BY <1>6, <1>8, <2>1, <3>1, Departs
  <2>3. TypeInv'
    BY <1>1, <1>4, <1>8, <2>2 DEF TypeInv
  <2>4. PICK s : s = Bye(u, u)
    OBVIOUS
  <2>5. PICK n : n = Len(mail[u])
    OBVIOUS
  <2>6. Sent(u, s) /\ 1 \in DOMAIN s /\ DOMAIN s \subseteq {1, 2} /\ s[1] = Out(u) /\ (2 \in DOMAIN s => s[2] = Shut(u))
    BY <1>8, <2>2, <2>4, Byes
  <2>7. /\ n \in Nat
        /\ \A i \in At(u) : /\ i \in Nat /\ i <= n /\ i \in At(u)'
                            /\ (Made(u, i)' <=> Made(u, i)) /\ (Listed(u, i)' <=> Listed(u, i)) /\ (Joined(u, i)' <=> Joined(u, i))
                            /\ (Left(u, i)' <=> Left(u, i)) /\ (Begun(u, i)' <=> Begun(u, i)) /\ (Denied(u, i)' <=> Denied(u, i))
                            /\ \A h : Closed(u, i, h)' <=> Closed(u, i, h)
    BY <1>1, <2>5, <2>6, Sends
  <2>8. \A i \in At(u)' : i \in Nat /\ (i \in At(u) \/ (i > n /\ i - n \in DOMAIN s /\ mail'[u][i] = s[i - n]))
    BY <1>1, <2>5, <2>6, Sends
  <2>9. \A k \in DOMAIN s : k + n \in At(u)' /\ mail'[u][k + n] = s[k]
    BY <1>1, <2>5, <2>6, Sends
  <2>10. n + 1 \in At(u)' /\ mail'[u][n + 1] = Out(u)
    <3>1. 1 + n = n + 1
      BY <2>7
    <3> QED
      BY <2>6, <2>9, <3>1
  <2>11. \A i \in At(u)' : i \in At(u) \/ i = n + 1 \/ mail'[u][i] = Shut(u)
    <3>1. \A i \in Nat : i - n = 1 => i = n + 1
      BY <2>7
    <3> QED
      BY <2>6, <2>8, <3>1
  <2>12. Away(u)' /\ LoginInv(u)' /\ IdInv(u)'
    <3>1. \A i \in DOMAIN s : IdOk(u, s[i])
      BY <1>1, <2>6, Written DEF Out, Shut
    <3> QED
      BY <1>2, <1>4, <2>6, <3>1, Stays
  <2>13. ASSUME Clear(u) PROVE ViewInv(u)'
    <3>1. \A i \in At(u) : ~Left(u, i)
      BY <1>8, <2>13 DEF RInv, UInv, ViewInv, InRoomInv
    <3>2. /\ Left(u, n + 1)'
           /\ \A i \in At(u)' : /\ ~Made(u, i)' /\ ~Listed(u, i)' /\ ~Joined(u, i)' /\ ~Denied(u, i)'
                                /\ (Left(u, i)' => i = n + 1) /\ (Begun(u, i)' => i \in At(u))
      <4>1. Left(u, n + 1)' /\ ~Made(u, n + 1)' /\ ~Listed(u, n + 1)' /\ ~Joined(u, n + 1)' /\ ~Denied(u, n + 1)' /\ ~Begun(u, n + 1)'
        BY <2>10 DEF Own, Made, Listed, Joined, Left, Begun, Denied, Out, Msg
      <4>2. \A i \in At(u)' : mail'[u][i] = Shut(u) => ~Made(u, i)' /\ ~Listed(u, i)' /\ ~Joined(u, i)' /\ ~Left(u, i)' /\ ~Begun(u, i)' /\ ~Denied(u, i)'
        BY DEF Own, Made, Listed, Joined, Left, Begun, Denied, Shut, Msg
      <4> QED
        BY <1>3, <2>13, <2>7, <2>11, <3>1, <4>1, <4>2
    <3>3. awaiting'[u] = "GAMRLEAV"
      BY <1>5, <1>8
    <3>4. MailInv(u)'
      <4>1. \A i \in At(u) : i < n + 1
        BY <2>7
      <4> QED
        BY <3>2, <4>1 DEF MailInv, OneEach, EntryOrder, AfterEntry
    <3>5. AwaitInv(u)' /\ ~Entering(u)'
      BY <1>5, <2>13, <2>10, <3>2, <3>3 DEF AwaitInv, Entering
    <3>6. EntryInv(u)' /\ InRoomInv(u)' /\ PlayInv(u)' /\ OutInv(u)' /\ WindowInv(u)'
      BY <1>5, <2>13, <2>2, <3>2, <3>5 DEF EntryInv, EntryRoom, LearnsId, InRoomInv, PlayInv, OutInv, WindowInv
    <3>7. OrderInv(u)'
      <4>1. ASSUME NEW i \in At(u)', Left(u, i)' \/ Begun(u, i)' PROVE Behind(u, i)'
        <5>1. n + 1 >= i
          BY <2>7, <3>2, <4>1
        <5> QED
          BY <1>5, <2>13, <2>10, <3>2, <3>3, <5>1 DEF Behind
      <4> QED
        BY <4>1 DEF OrderInv
    <3>8. KickInv(u)'
      BY <1>3, <1>4, <1>5, <2>13, <3>3 DEF KickInv
    <3> QED
      BY <3>4, <3>5, <3>6, <3>7, <3>8 DEF ViewInv
  <2> QED
    BY <1>4, <2>2, <2>3, <2>12, <2>13 DEF RInv, UInv, Clear
<1> QED
  BY <1>1, <1>7, <1>8

\* What a user does not hear of leaves the closed rooms closed.
LEMMA ShutsStay ==
  ASSUME TypeInv, ShutInv, NEW w \in Users, mail'[w] = mail[w], \A g \in Known : g \in Known' /\ (In(g) = {} => In(g)' = {})
  PROVE  Shuts(w)'
<1>1. At(w)' = At(w) /\ Shuts(w)
  BY DEF At, ShutInv
<1> QED
  BY <1>1 DEF Shuts

\* A player of a room in which no game runs hears that one begins.
LEMMA HearsBegin ==
  ASSUME RInv, NEW u \in Users, Clear(u), NEW m \in Messages, m.kind = "GAMEBEGN", roomOf[u] # 0, u \notin playing, u \in playing', Sent(u, <<m>>),
         UNCHANGED <<connected, idOf, roomOf, ownerOf, userstat, playerstat, isOwner, gameIdRequested, gameId, userIdRequested, userId,
                     page, hosting, toldKicked, awaiting, kicked, skips>>,
         ~leaveRequested'[u]
  PROVE  ViewInv(u)'
<1>1. /\ TypeInv /\ RoomsInv /\ MailInv(u) /\ AwaitInv(u) /\ EntryInv(u) /\ InRoomInv(u) /\ PlayInv(u)
      /\ WindowInv(u) /\ OrderInv(u) /\ KickInv(u)
  BY DEF RInv, UInv, ViewInv
<1>2. PICK n : n = Len(mail[u])
  OBVIOUS
<1>3. /\ n \in Nat /\ n + 1 \in At(u)' /\ mail'[u][n + 1] = m
      /\ \A i \in At(u) : /\ i \in Nat /\ i < n + 1 /\ i # n + 1 /\ i \in At(u)' /\ mail'[u][i] = mail[u][i]
                          /\ (Made(u, i)' <=> Made(u, i)) /\ (Listed(u, i)' <=> Listed(u, i)) /\ (Joined(u, i)' <=> Joined(u, i))
                          /\ (Left(u, i)' <=> Left(u, i)) /\ (Begun(u, i)' <=> Begun(u, i)) /\ (Denied(u, i)' <=> Denied(u, i))
                          /\ \A g : Closed(u, i, g)' <=> Closed(u, i, g)
      /\ \A i \in At(u)' : i \in Nat /\ i > 0 /\ i <= n + 1 /\ (i \in At(u) \/ i = n + 1)
  BY <1>1, <1>2, OneMore
<1>4. /\ Begun(u, n + 1)' /\ ~Made(u, n + 1)' /\ ~Listed(u, n + 1)' /\ ~Joined(u, n + 1)' /\ ~Left(u, n + 1)' /\ ~Denied(u, n + 1)'
      /\ \A g : ~Closed(u, n + 1, g)'
  BY <1>3 DEF Own, Made, Listed, Joined, Left, Begun, Denied, Closed
<1>5. /\ \A i \in At(u) : ~Left(u, i) /\ ~Begun(u, i)
      /\ (page[u] = "room" \/ Entering(u)) /\ playerstat[u] # 1
      /\ ~gameIdRequested[u] => \A i \in At(u) : ~Closed(u, i, gameId[u])
  BY <1>1, KnowsRoom DEF InRoomInv, PlayInv
<1>6. \A i \in At(u)' : /\ (i # n + 1 => i \in At(u)) /\ ~Left(u, i)' /\ (Begun(u, i)' => i = n + 1)
  BY <1>3, <1>4, <1>5
<1>7. Entering(u)' <=> Entering(u)
  BY <1>3, <1>4 DEF Entering
<1>8. MailInv(u)'
  <2>1. OneEach(u)'
    BY <1>1, <1>3, <1>4, <1>6 DEF MailInv, OneEach
  <2>2. EntryOrder(u)'
    <3>1. \A j \in At(u) : Joined(u, j) => j = 1 \/ (Listed(u, j - 1) /\ j - 1 \in At(u))
      BY <1>1, LenProperties DEF MailInv, EntryOrder, At, TypeInv
    <3>2. \A j \in At(u)' : Joined(u, j)' => j = 1 \/ Listed(u, j - 1)'
      BY <1>3, <1>4, <3>1
    <3>3. \A i \in At(u)' : Listed(u, i)' => i + 1 \in At(u)' /\ Joined(u, i + 1)' /\ mail'[u][i + 1].game = mail'[u][i].game
      BY <1>1, <1>3, <1>4 DEF MailInv, EntryOrder
    <3>4. \A i \in At(u)' : Made(u, i)' => i + 1 \in At(u)' /\ Listed(u, i + 1)' /\ mail'[u][i + 1].game = mail'[u][i].game
      BY <1>1, <1>3, <1>4 DEF MailInv, EntryOrder
    <3> QED
      BY <3>2, <3>3, <3>4 DEF EntryOrder
  <2>3. AfterEntry(u)'
    BY <1>1, <1>3, <1>4, <1>6 DEF MailInv, AfterEntry
  <2> QED
    BY <2>1, <2>2, <2>3 DEF MailInv
<1>9. AwaitInv(u)'
  BY <1>1, <1>3, <1>4, <1>7 DEF AwaitInv
<1>10. EntryInv(u)'
  <2>1. \A j \in At(u)' : Joined(u, j)' => j \in At(u) /\ Joined(u, j) /\ mail'[u][j].game = mail[u][j].game
    BY <1>3, <1>4
  <2>2. ASSUME NEW j \in At(u), NEW g, Enters(u, j, g) PROVE Enters(u, j, g)'
    BY <2>2 DEF Enters, Known
  <2>3. EntryRoom(u)'
    BY <1>1, <2>1, <2>2 DEF EntryInv, EntryRoom
  <2>4. LearnsId(u)'
    <3> SUFFICES ASSUME userIdRequested[u] PROVE LearnsId(u)'
      BY DEF LearnsId
    <3>1. PICK j \in At(u) : Joined(u, j) /\ ownerOf[mail[u][j].game] = u /\ ~gameIdRequested[u]
      BY <1>1 DEF EntryInv, LearnsId
    <3>2. Joined(u, 1) \/ (Listed(u, 1) /\ Joined(u, 2))
      BY <1>1 DEF EntryInv, LearnsId
    <3>3. 1 \in At(u) /\ (Joined(u, 1) \/ (Listed(u, 1) /\ Joined(u, 2) /\ 2 \in At(u)))
      <4>1. 1 \in At(u)
        BY <1>1, <3>1, LenProperties DEF At, TypeInv
      <4> QED
        BY <1>1, <3>2, <4>1 DEF MailInv, EntryOrder
    <3> QED
      BY <1>3, <3>1, <3>3 DEF LearnsId
  <2> QED
    BY <2>3, <2>4 DEF EntryInv
<1>11. InRoomInv(u)'
  BY <1>1, <1>6, <1>7 DEF InRoomInv
<1>12. PlayInv(u)'
  BY <1>5, <1>6 DEF PlayInv
<1>13. OutInv(u)' /\ WindowInv(u)' /\ KickInv(u)'
  BY <1>1, <1>6 DEF OutInv, WindowInv, KickInv
<1>14. OrderInv(u)'
  BY <1>3, <1>4, <1>5, <1>6, <1>7 DEF OrderInv
<1> QED
  BY <1>8, <1>9, <1>10, <1>11, <1>12, <1>13, <1>14 DEF ViewInv

\* The owner starts the game.
LEMMA Starts ==
  ASSUME RInv, NEW h \in Users, StartGameOf(h)
  PROVE  RInv'
<1>1. TypeInv /\ KnownInv /\ RoomsInv /\ ShutInv
  BY DEF RInv
<1>2. PICK g : g = roomOf[h]
  OBVIOUS
<1>3. PICK m : m = Msg("GAMEBEGN", h, g)
  OBVIOUS
<1>4. /\ UNCHANGED <<connected, idOf, roomOf, ownerOf, userstat, playerstat, isOwner, gameIdRequested, gameId, userIdRequested, userId,
                     page, hosting, toldKicked, awaiting, kicked, belief, skips>>
      /\ leaveRequested' = [leaveRequested EXCEPT ![h] = FALSE] /\ playing' = playing \cup In(g)
      /\ g # 0 /\ ownerOf[g] = h /\ In(g) \cap playing = {}
  BY <1>2 DEF StartGameOf, windowVars
<1> DEFINE said(v) == IF v \in In(g) THEN <<m>> ELSE <<>>
<1>5. mail' = [v \in Users |-> mail[v] \o said(v)]
  BY <1>2, <1>3 DEF StartGameOf, Send
<1>6. m \in Messages /\ m.kind = "GAMEBEGN" /\ <<m>> \in Seq(Messages) /\ DOMAIN <<m>> = {1} /\ <<m>>[1] = m
  <2>1. m \in Messages /\ m.kind = "GAMEBEGN"
    BY <1>1, <1>2, <1>3 DEF Msg, Messages, TypeInv
  <2> QED
    BY <2>1, Tells, Single
<1>7. /\ \A v \in Users : said(v) \in Seq(Messages)
      /\ \A v \in Users : v \in In(g) => Sent(v, <<m>>) /\ mail'[v] = mail[v] \o <<m>>
      /\ \A v \in Users : v \notin In(g) => mail'[v] = mail[v]
  <2>1. \A v \in Users : v \notin In(g) => mail'[v] = mail[v]
    BY <1>1, <1>5, ConcatEmptySeq DEF TypeInv
  <2>2. \A v \in Users : v \in In(g) => Sent(v, <<m>>) /\ mail'[v] = mail[v] \o <<m>>
    BY <1>5, <1>6 DEF Sent
  <2> QED
    BY <1>6, <2>1, <2>2, EmptySeq
<1> HIDE DEF said
<1>8. TypeInv'
  <2>1. \A v \in Users : mail[v] \o said(v) \in Seq(Messages)
    BY <1>1, <1>7, Tells DEF TypeInv
  <2>2. mail' \in [Users -> Seq(Messages)]
    BY <1>5, <2>1
  <2>3. playing' \subseteq Users
    BY <1>1, <1>4 DEF TypeInv, In
  <2> QED
    BY <1>1, <1>4, <2>2, <2>3 DEF TypeInv
<1>9. Known' = Known /\ KnownInv'
  BY <1>1, <1>4 DEF Known, KnownInv
<1>10. RoomsInv'
  BY <1>1, <1>4, <1>9 DEF RoomsInv, In
<1>11. ShutInv'
  <2>1. \A x \in Known : x \in Known' /\ (In(x) = {} => In(x)' = {})
    BY <1>4, <1>9 DEF In
  <2>2. \A i \in DOMAIN <<m>> : <<m>>[i].kind = "GAMESHUT" => <<m>>[i].game \in Known' /\ In(<<m>>[i].game)' = {}
    BY <1>6
  <2>3. ASSUME NEW v \in Users PROVE Shuts(v)'
    <3>1. CASE v \in In(g)
      BY <1>1, <1>6, <1>7, <2>1, <2>2, <3>1, ShutsAfter
    <3>2. CASE v \notin In(g)
      BY <1>1, <1>7, <2>1, <3>2, ShutsStay
    <3> QED
      BY <3>1, <3>2
  <2> QED
    BY <2>3 DEF ShutInv
<1>12. ASSUME NEW v \in Users PROVE UInv(v)'
  <2>1. CASE v \in In(g)
    <3>1. roomOf[v] = g
      BY <2>1 DEF In
    <3>2. Clear(v) => ~leaveRequested'[v]
      <4>1. Clear(v) /\ v # h => ~leaveRequested[v]
        BY <1>4, <3>1 DEF RInv, UInv, ViewInv, InRoomInv
      <4> QED
        BY <1>1, <1>4, <4>1 DEF TypeInv
    <3>3. v \notin playing /\ v \in playing' /\ roomOf[v] # 0 /\ Sent(v, <<m>>)
      BY <1>4, <1>7, <2>1, <3>1
    <3>4. Clear(v) => ViewInv(v)'
      BY <1>4, <1>6, <3>2, <3>3, HearsBegin
    <3>5. v \in connected /\ v \in connected' /\ IdOk(v, m)
      BY <1>1, <1>4, <1>6, <3>1 DEF RoomsInv, IdOk
    <3>6. Away(v)' /\ LoginInv(v)' /\ IdInv(v)'
      <4>1. PICK s : s = <<m>>
        OBVIOUS
      <4>2. DOMAIN s = {1} /\ s[1] = m /\ Sent(v, s)
        BY <1>6, <3>3, <4>1
      <4> QED
        BY <1>4, <3>5, <4>2, Stays
    <3> QED
      BY <1>4, <3>4, <3>6 DEF UInv, Clear
  <2>2. CASE v \notin In(g)
    <3>1. v # h
      BY <1>2, <2>2 DEF In
    <3>2. Local(v)
      BY <1>1, <1>4, <3>1 DEF Local, TypeInv
    <3>3. mail'[v] = mail[v] /\ (v \in playing' <=> v \in playing) /\ (v \in kicked => v \in kicked')
      BY <1>4, <1>7, <2>2
    <3> QED
      BY <1>4, <1>9, <3>2, <3>3, Untouched
  <2> QED
    BY <2>1, <2>2
<1> QED
  BY <1>8, <1>9, <1>10, <1>11, <1>12 DEF RInv

\* Who drops out of the game ends it for itself.
LEMMA DropsOut ==
  ASSUME RInv, NEW u \in Users, Clear(u), page[u] = "room", playerstat[u] = 1, NEW s, Sent(u, s), \A i \in DOMAIN s : s[i].kind = "GAMRDROP",
         UNCHANGED <<connected, idOf, roomOf, ownerOf, userstat, isOwner, gameIdRequested, gameId, userIdRequested, userId,
                     page, hosting, toldKicked, awaiting, kicked, skips>>,
         ~leaveRequested'[u], playerstat'[u] = 0
  PROVE  ViewInv(u)'
<1>1. /\ TypeInv /\ RoomsInv /\ MailInv(u) /\ AwaitInv(u) /\ EntryInv(u) /\ InRoomInv(u) /\ PlayInv(u)
      /\ OutInv(u) /\ OrderInv(u) /\ KickInv(u)
  BY DEF RInv, UInv, ViewInv
<1>2. PICK n : n = Len(mail[u])
  OBVIOUS
<1>3. \A i \in At(u) : /\ i \in Nat /\ i \in At(u)' /\ mail'[u][i] = mail[u][i]
                       /\ (Made(u, i)' <=> Made(u, i)) /\ (Listed(u, i)' <=> Listed(u, i)) /\ (Joined(u, i)' <=> Joined(u, i))
                       /\ (Left(u, i)' <=> Left(u, i)) /\ (Begun(u, i)' <=> Begun(u, i)) /\ (Denied(u, i)' <=> Denied(u, i))
                       /\ \A g : Closed(u, i, g)' <=> Closed(u, i, g)
  BY <1>1, <1>2, Sends
<1>4. \A i \in At(u)' : i \in Nat /\ (i \in At(u) \/ mail'[u][i].kind = "GAMRDROP")
  BY <1>1, <1>2, Sends
<1>5. \A i \in At(u)' : /\ (Made(u, i)' => i \in At(u)) /\ (Listed(u, i)' => i \in At(u)) /\ (Joined(u, i)' => i \in At(u))
                        /\ (Left(u, i)' => i \in At(u)) /\ (Begun(u, i)' => i \in At(u)) /\ (Denied(u, i)' => i \in At(u))
                        /\ \A g : Closed(u, i, g)' => i \in At(u)
  BY <1>4 DEF Own, Made, Listed, Joined, Left, Begun, Denied, Closed
<1>6. awaiting[u] \notin {"GAMRLEAV", "refused"}
  BY <1>1 DEF KickInv
<1>7. \A i \in At(u) : ~Denied(u, i) /\ ~Behind(u, i)
  BY <1>1, <1>6 DEF AwaitInv, Behind
<1>8. roomOf[u] # 0 => \A i \in At(u) : ~Begun(u, i)
  BY <1>1 DEF PlayInv
<1>9. Entering(u)' <=> Entering(u)
  BY <1>3, <1>5 DEF Entering
<1>10. MailInv(u)'
  <2>1. OneEach(u)'
    BY <1>1, <1>3, <1>5 DEF MailInv, OneEach
  <2>2. EntryOrder(u)'
    <3>1. \A j \in At(u) : Joined(u, j) => j = 1 \/ (Listed(u, j - 1) /\ j - 1 \in At(u))
      BY <1>1, LenProperties DEF MailInv, EntryOrder, At, TypeInv
    <3>2. \A j \in At(u)' : Joined(u, j)' => j = 1 \/ Listed(u, j - 1)'
      BY <1>3, <1>5, <3>1
    <3>3. \A i \in At(u)' : Listed(u, i)' => i + 1 \in At(u)' /\ Joined(u, i + 1)' /\ mail'[u][i + 1].game = mail'[u][i].game
      BY <1>1, <1>3, <1>5 DEF MailInv, EntryOrder
    <3>4. \A i \in At(u)' : Made(u, i)' => i + 1 \in At(u)' /\ Listed(u, i + 1)' /\ mail'[u][i + 1].game = mail'[u][i].game
      BY <1>1, <1>3, <1>5 DEF MailInv, EntryOrder
    <3> QED
      BY <3>2, <3>3, <3>4 DEF EntryOrder
  <2>3. AfterEntry(u)'
    BY <1>1, <1>3, <1>5 DEF MailInv, AfterEntry
  <2> QED
    BY <2>1, <2>2, <2>3 DEF MailInv
<1>11. AwaitInv(u)'
  BY <1>1, <1>3, <1>5, <1>9 DEF AwaitInv
<1>12. EntryInv(u)'
  <2>1. \A j \in At(u)' : Joined(u, j)' => j \in At(u) /\ Joined(u, j) /\ mail'[u][j].game = mail[u][j].game
    BY <1>3, <1>5
  <2>2. ASSUME NEW j \in At(u), NEW g, Enters(u, j, g) PROVE Enters(u, j, g)'
    BY <2>2 DEF Enters, Known
  <2>3. EntryRoom(u)'
    BY <1>1, <2>1, <2>2 DEF EntryInv, EntryRoom
  <2>4. LearnsId(u)'
    <3> SUFFICES ASSUME userIdRequested[u] PROVE LearnsId(u)'
      BY DEF LearnsId
    <3>1. PICK j \in At(u) : Joined(u, j) /\ ownerOf[mail[u][j].game] = u /\ ~gameIdRequested[u]
      BY <1>1 DEF EntryInv, LearnsId
    <3>2. Joined(u, 1) \/ (Listed(u, 1) /\ Joined(u, 2))
      BY <1>1 DEF EntryInv, LearnsId
    <3>3. 1 \in At(u) /\ (Joined(u, 1) \/ (Listed(u, 1) /\ Joined(u, 2) /\ 2 \in At(u)))
      <4>1. 1 \in At(u)
        BY <1>1, <3>1, LenProperties DEF At, TypeInv
      <4> QED
        BY <1>1, <3>2, <4>1 DEF MailInv, EntryOrder
    <3> QED
      BY <1>3, <3>1, <3>3 DEF LearnsId
  <2> QED
    BY <2>3, <2>4 DEF EntryInv
<1>13. InRoomInv(u)'
  BY <1>1, <1>3, <1>5, <1>9 DEF InRoomInv
<1>14. PlayInv(u)'
  BY <1>3, <1>5, <1>8 DEF PlayInv
<1>15. OutInv(u)'
  BY <1>1, <1>3, <1>9 DEF OutInv
<1>16. WindowInv(u)' /\ KickInv(u)'
  BY <1>1, <1>3, <1>5, <1>6 DEF WindowInv, KickInv
<1>17. OrderInv(u)'
  BY <1>1, <1>3, <1>5, <1>7 DEF OrderInv
<1> QED
  BY <1>10, <1>11, <1>12, <1>13, <1>14, <1>15, <1>16, <1>17 DEF ViewInv

\* One drops the game.
LEMMA Drops ==
  ASSUME RInv, NEW u \in Users, DropGame(u)
  PROVE  RInv'
<1>1. TypeInv /\ KnownInv /\ RoomsInv /\ ShutInv
  BY DEF RInv
<1>2. PICK g : g = roomOf[u]
  OBVIOUS
<1>3. PICK m : m = Msg("GAMRDROP", u, g)
  OBVIOUS
<1>4. /\ UNCHANGED <<connected, idOf, roomOf, ownerOf, userstat, isOwner, gameIdRequested, gameId, userIdRequested, userId,
                     page, hosting, toldKicked, awaiting, kicked, belief, skips>>
      /\ leaveRequested' = [leaveRequested EXCEPT ![u] = FALSE] /\ playerstat' = [playerstat EXCEPT ![u] = 0]
      /\ playing' = playing \ {u} /\ page[u] = "room" /\ playerstat[u] = 1
  BY DEF DropGame, windowVars
<1> DEFINE said(v) == IF u \in playing /\ v \in In(g) THEN <<m>> ELSE <<>>
<1>5. m \in Messages /\ m.kind = "GAMRDROP" /\ <<m>> \in Seq(Messages) /\ DOMAIN <<m>> = {1} /\ <<m>>[1] = m
  <2>1. m \in Messages /\ m.kind = "GAMRDROP"
    BY <1>1, <1>2, <1>3 DEF Msg, Messages, TypeInv
  <2> QED
    BY <2>1, Tells, Single
<1>6. \A v \in Users : mail'[v] = mail[v] \o said(v) /\ Sent(v, said(v)) /\ said(v) \in {<<>>, <<m>>}
  <2>1. CASE u \in playing
    <3>1. mail' = [v \in Users |-> mail[v] \o said(v)]
      BY <1>2, <1>3, <2>1 DEF DropGame, Send
    <3> QED
      BY <1>5, <3>1, EmptySeq DEF Sent
  <2>2. CASE u \notin playing
    <3>1. mail' = mail
      BY <2>2 DEF DropGame
    <3> QED
      BY <1>1, <2>2, <3>1, EmptySeq, ConcatEmptySeq DEF Sent, TypeInv
  <2> QED
    BY <2>1, <2>2
<1>7. \A v \in Users : said(v) \in Seq(Messages) /\ \A i \in DOMAIN said(v) : said(v)[i] = m
  BY <1>5, EmptySeq
<1>8. \A v \in Users : v \notin connected => said(v) = <<>>
  BY <1>1, <1>2 DEF RoomsInv, In
<1>9. mail' \in [Users -> Seq(Messages)]
  <2>1. \A v \in Users : mail[v] \o said(v) \in Seq(Messages)
    <3> HIDE DEF said
    <3> QED
      BY <1>1, <1>7, Tells DEF TypeInv
  <2>2. mail' = [v \in Users |-> mail'[v]]
    BY <1>1 DEF DropGame, Send, TypeInv
  <2> QED
    BY <1>6, <2>1, <2>2
<1> HIDE DEF said
<1>10. TypeInv'
  BY <1>1, <1>4, <1>9 DEF TypeInv
<1>11. Known' = Known /\ KnownInv'
  BY <1>1, <1>4 DEF Known, KnownInv
<1>12. RoomsInv'
  BY <1>1, <1>4, <1>11 DEF RoomsInv
<1>13. ShutInv'
  <2>1. \A x \in Known : x \in Known' /\ (In(x) = {} => In(x)' = {})
    BY <1>4, <1>11 DEF In
  <2>2. ASSUME NEW v \in Users PROVE Shuts(v)'
    <3>1. PICK s : s = said(v)
      OBVIOUS
    <3>2. s \in Seq(Messages) /\ mail'[v] = mail[v] \o s /\ \A i \in DOMAIN s : s[i].kind # "GAMESHUT"
      BY <1>5, <1>6, <1>7, <3>1
    <3>3. \A i \in DOMAIN s : s[i].kind = "GAMESHUT" => s[i].game \in Known' /\ In(s[i].game)' = {}
      BY <3>2
    <3> QED
      BY <1>1, <2>1, <3>2, <3>3, ShutsAfter
  <2> QED
    BY <2>2 DEF ShutInv
<1>14. ASSUME NEW w \in Users \ {u} PROVE UInv(w)'
  <2>1. PICK s : s = said(w)
    OBVIOUS
  <2>2. s \in Seq(Messages) /\ mail'[w] = mail[w] \o s /\ (w \notin connected => s = <<>>)
    BY <1>6, <1>7, <1>8, <2>1
  <2>3. \A i \in DOMAIN s : Foreign(w, s[i])
    BY <1>5, <1>7, <2>1 DEF Foreign
  <2>4. Local(w)
    BY <1>1, <1>4 DEF Local, TypeInv
  <2>5. (w \in kicked => w \in kicked') /\ (w \in playing' <=> w \in playing)
    BY <1>4
  <2> QED
    BY <1>4, <1>11, <2>2, <2>3, <2>4, <2>5, Hears
<1>15. UInv(u)'
  <2>1. PICK s : s = said(u)
    OBVIOUS
  <2>2. Sent(u, s) /\ \A i \in DOMAIN s : s[i].kind = "GAMRDROP"
    BY <1>5, <1>6, <1>7, <2>1
  <2>3. ~leaveRequested'[u] /\ playerstat'[u] = 0
    BY <1>1, <1>4 DEF TypeInv
  <2>4. Clear(u) => ViewInv(u)'
    BY <1>4, <2>2, <2>3, DropsOut
  <2>5. u \in connected /\ u \in connected' /\ \A i \in DOMAIN s : IdOk(u, s[i])
    BY <1>4, <2>2 DEF RInv, UInv, Away, IdOk
  <2>6. Away(u)' /\ LoginInv(u)' /\ IdInv(u)'
    BY <1>4, <2>2, <2>5, Stays
  <2> QED
    BY <1>4, <2>4, <2>6 DEF UInv, Clear
<1> QED
  BY <1>10, <1>11, <1>12, <1>13, <1>14, <1>15 DEF RInv

\* The window is closed.
LEMMA Disconnects ==
  ASSUME RInv, NEW u \in Users, Disconnect(u)
  PROVE  RInv'
<1>1. TypeInv /\ KnownInv /\ RoomsInv /\ ShutInv
  BY DEF RInv
<1> DEFINE left == Msg("USERLEAV", u, 0)
           said(v) == IF v \in connected THEN Bye(u, v) \o <<left>> ELSE <<>>
<1>2. /\ connected' = connected \ {u} /\ UNCHANGED <<idOf, ownerOf, gameId, userId, skips>>
      /\ userstat' = [userstat EXCEPT ![u] = 0] /\ playerstat' = [playerstat EXCEPT ![u] = -1]
      /\ gameIdRequested' = [gameIdRequested EXCEPT ![u] = FALSE] /\ userIdRequested' = [userIdRequested EXCEPT ![u] = FALSE]
      /\ leaveRequested' = [leaveRequested EXCEPT ![u] = FALSE] /\ isOwner' = [isOwner EXCEPT ![u] = FALSE]
      /\ page' = [page EXCEPT ![u] = "lobby"] /\ hosting' = [hosting EXCEPT ![u] = FALSE]
      /\ awaiting' = [awaiting EXCEPT ![u] = "none"] /\ toldKicked' = [toldKicked EXCEPT ![u] = FALSE] /\ kicked' = kicked \ {u}
      /\ belief' = [belief EXCEPT ![u] = "stale"]
  BY DEF Disconnect
<1>3. roomOf' = [v \in Users |-> IF v \in Gone(u) THEN 0 ELSE roomOf[v]] /\ playing' = playing \ Gone(u)
  BY DEF Disconnect, Gone
<1>4. mail' = [v \in Users |-> IF v = u THEN <<>> ELSE mail[v] \o said(v)]
  BY DEF Disconnect, Bye, Out, Shut
<1>5. GoesOut(u)
  BY <1>2, <1>3 DEF GoesOut
<1>6. left \in Messages /\ left.kind = "USERLEAV" /\ <<left>> \in Seq(Messages) /\ \A v \in Users : Told(v, <<left>>)
  <2>1. left \in Messages /\ left.kind = "USERLEAV" /\ \A v \in Users : Foreign(v, left)
    BY DEF Msg, Messages, Foreign
  <2> HIDE DEF left
  <2> QED
    BY <2>1, Tells
<1>7. \A v \in Users : /\ said(v) \in Seq(Messages) /\ (v # u => Told(v, said(v)))
                       /\ (v \in connected /\ roomOf[u] # 0 /\ ownerOf[roomOf[u]] = u => Says(said(v), Shut(u)))
                       /\ \A i \in DOMAIN said(v) : said(v)[i].kind = "GAMESHUT" =>
                            said(v)[i] = Shut(u) /\ roomOf[u] # 0 /\ ownerOf[roomOf[u]] = u
  <2>1. ASSUME NEW v \in Users
        PROVE  /\ Bye(u, v) \o <<left>> \in Seq(Messages) /\ (v # u => Told(v, Bye(u, v) \o <<left>>))
               /\ (roomOf[u] # 0 /\ ownerOf[roomOf[u]] = u => Says(Bye(u, v) \o <<left>>, Shut(u)))
               /\ \A i \in DOMAIN (Bye(u, v) \o <<left>>) : (Bye(u, v) \o <<left>>)[i].kind = "GAMESHUT" =>
                    (Bye(u, v) \o <<left>>)[i] = Shut(u) /\ roomOf[u] # 0 /\ ownerOf[roomOf[u]] = u
    <3>1. PICK b : b = Bye(u, v)
      OBVIOUS
    <3>2. /\ b \in Seq(Messages) /\ (v # u => Told(v, b))
          /\ (roomOf[u] # 0 /\ ownerOf[roomOf[u]] = u => Says(b, Shut(u)))
          /\ \A i \in DOMAIN b : b[i].kind = "GAMESHUT" => b[i] = Shut(u) /\ roomOf[u] # 0 /\ ownerOf[roomOf[u]] = u
      BY <3>1, Byes
    <3>3. PICK c : c = <<left>>
      OBVIOUS
    <3>4. c \in Seq(Messages) /\ Told(v, c) /\ \A i \in DOMAIN c : c[i].kind # "GAMESHUT"
      <4>1. DOMAIN <<left>> = {1} /\ <<left>>[1] = left
        BY <1>6, Single
      <4> HIDE DEF left
      <4> QED
        BY <1>6, <3>3, <4>1
    <3>5. b \o c \in Seq(Messages) /\ (v # u => Told(v, b \o c)) /\ (Says(b, Shut(u)) => Says(b \o c, Shut(u)))
      BY <3>2, <3>4, Tells
    <3>6. \A i \in DOMAIN (b \o c) : (i \in DOMAIN b /\ (b \o c)[i] = b[i]) \/ (\E k \in DOMAIN c : (b \o c)[i] = c[k])
      BY <3>2, <3>4, Appended
    <3>7. \A i \in DOMAIN (b \o c) : (b \o c)[i].kind = "GAMESHUT" => (b \o c)[i] = Shut(u) /\ roomOf[u] # 0 /\ ownerOf[roomOf[u]] = u
      BY <3>2, <3>4, <3>6
    <3> QED
      BY <3>1, <3>2, <3>3, <3>5, <3>7
  <2> QED
    BY <2>1, Tells, EmptySeq
<1>8. \A v \in Users : v \notin connected => said(v) = <<>>
  OBVIOUS
<1> HIDE DEF said, left
<1>9. mail' \in [Users -> Seq(Messages)]
  <2>1. \A v \in Users : mail[v] \o said(v) \in Seq(Messages)
    BY <1>1, <1>7, Tells DEF TypeInv
  <2> QED
    BY <1>4, <2>1, EmptySeq
<1>10. /\ roomOf'[u] = 0 /\ roomOf' \in [Users -> Nat] /\ playing' \subseteq Users /\ Known' = Known /\ KnownInv' /\ RoomsInv'
       /\ \A g \in Known : g \in Known' /\ (In(g) = {} => In(g)' = {})
       /\ roomOf[u] # 0 /\ ownerOf[roomOf[u]] = u => roomOf[u] \in Known' /\ \A w \in Users : roomOf'[w] # roomOf[u]
  <2>1. RInv /\ GoesOut(u)
    BY <1>5
  <2> QED
    BY <2>1, Vacates
<1>11. TypeInv'
  <2>1. connected' \subseteq Users /\ skips' \in 0 .. MaxSkips /\ gameId' \in [Users -> Nat] /\ toldKicked' \in [Users -> BOOLEAN]
        /\ userId' \in [Users -> Nat] /\ idOf' \in [Users -> Nat] /\ belief' \in [Users -> {"stale", "own", "misled"}]
    BY <1>1, <1>2 DEF TypeInv
  <2>2. \A v, w \in connected' : idOf'[v] = idOf'[w] => v = w
    BY <1>1, <1>2 DEF TypeInv
  <2>3. /\ userstat' \in [Users -> 0 .. 3] /\ playerstat' \in [Users -> {-1, 0, 1}] /\ page' \in [Users -> {"lobby", "room"}]
        /\ awaiting' \in [Users -> {"none", "USERJOIN", "GAMRJOIN", "GAMRLEAV", "refused"}]
    BY <1>1, <1>2 DEF TypeInv
  <2>4. /\ isOwner' \in [Users -> BOOLEAN] /\ gameIdRequested' \in [Users -> BOOLEAN] /\ userIdRequested' \in [Users -> BOOLEAN]
        /\ leaveRequested' \in [Users -> BOOLEAN] /\ hosting' \in [Users -> BOOLEAN]
    BY <1>1, <1>2 DEF TypeInv
  <2> QED
    BY <1>9, <1>10, <2>1, <2>3, <2>4, <2>2, Zenon DEF TypeInv
<1>12. ShutInv'
  <2>1. Shut(u).game = roomOf[u]
    BY DEF Shut, Msg
  <2>2. ASSUME NEW v \in Users, v # u PROVE Shuts(v)'
    <3>1. PICK s : s = said(v)
      OBVIOUS
    <3>2. s \in Seq(Messages) /\ mail'[v] = mail[v] \o s
      BY <1>4, <1>7, <2>2, <3>1
    <3>3. \A i \in DOMAIN s : s[i].kind = "GAMESHUT" => s[i].game \in Known' /\ In(s[i].game)' = {}
      <4>1. \A i \in DOMAIN s : s[i].kind = "GAMESHUT" => s[i].game = roomOf[u] /\ roomOf[u] # 0 /\ ownerOf[roomOf[u]] = u
        BY <1>7, <2>1, <3>1
      <4>2. ASSUME NEW i \in DOMAIN s, s[i].kind = "GAMESHUT" PROVE In(s[i].game)' = {}
        <5>1. s[i].game = roomOf[u] /\ \A x \in Users : roomOf'[x] # roomOf[u]
          BY <1>10, <4>1, <4>2
        <5> QED
          BY <5>1 DEF In
      <4> QED
        BY <1>10, <4>1, <4>2
    <3> QED
      BY <1>1, <1>10, <3>2, <3>3, ShutsAfter
  <2>3. Shuts(u)'
    BY <1>4 DEF Shuts, At
  <2> QED
    BY <2>2, <2>3 DEF ShutInv
<1>13. ASSUME NEW w \in Users \ {u} PROVE UInv(w)'
  <2>1. Local(w)
    BY <1>1, <1>2 DEF Local, TypeInv
  <2>2. mail'[w] = mail[w] \o said(w) /\ w # u
    BY <1>4
  <2> QED
    BY <1>5, <1>7, <1>8, <2>1, <2>2, OthersHear
<1>14. UInv(u)'
  <2>1. At(u)' = {} /\ mail'[u] = <<>>
    BY <1>4 DEF At
  <2>2. /\ u \notin connected' /\ userstat'[u] = 0 /\ playerstat'[u] = -1 /\ page'[u] = "lobby" /\ ~hosting'[u] /\ awaiting'[u] = "none"
        /\ ~gameIdRequested'[u] /\ ~userIdRequested'[u] /\ ~toldKicked'[u] /\ belief'[u] = "stale"
    BY <1>1, <1>2 DEF TypeInv
  <2>3. Away(u)' /\ LoginInv(u)' /\ IdInv(u)'
    BY <1>10, <2>1, <2>2 DEF Away, LoginInv, IdInv
  <2>4. ~Entering(u)'
    BY <2>1 DEF Entering
  <2>5. MailInv(u)' /\ AwaitInv(u)' /\ EntryInv(u)'
    BY <2>1, <2>2, <2>4 DEF MailInv, OneEach, EntryOrder, AfterEntry, AwaitInv, EntryInv, EntryRoom, LearnsId
  <2>6. InRoomInv(u)' /\ PlayInv(u)' /\ OutInv(u)' /\ WindowInv(u)' /\ OrderInv(u)' /\ KickInv(u)'
    BY <1>10, <2>1, <2>2, <2>4 DEF InRoomInv, PlayInv, OutInv, WindowInv, OrderInv, KickInv
  <2> QED
    BY <2>3, <2>5, <2>6 DEF UInv, ViewInv
<1> QED
  BY <1>10, <1>11, <1>12, <1>13, <1>14 DEF RInv

\* At the start nobody is connected.
LEMMA RoomStarts == RoomInit => RInv
<1> SUFFICES ASSUME RoomInit PROVE RInv
  OBVIOUS
<1>1. Known = {} /\ \A g \in Known : ownerOf[g] \in Users
  BY DEF RoomInit, Known
<1>2. KnownInv
  <2>1. Known = {Games[i] : i \in 1 .. 0} /\ Cardinality(Known) = 0
    BY <1>1, FS_EmptySet
  <2>2. 0 \in 0 .. Len(Games)
    BY RoomAssumption, LenProperties
  <2> QED
    BY <1>1, <2>1, <2>2 DEF KnownInv
<1>3. /\ connected = {} /\ playing = {} /\ skips = 0 /\ kicked = {}
      /\ \A u \in Users : /\ roomOf[u] = 0 /\ mail[u] = <<>> /\ userstat[u] = 0 /\ playerstat[u] = -1 /\ gameId[u] = 0
                          /\ page[u] = "lobby" /\ awaiting[u] = "none" /\ userId[u] = 0 /\ idOf[u] = 0 /\ belief[u] = "stale"
                          /\ ~isOwner[u] /\ ~gameIdRequested[u] /\ ~userIdRequested[u] /\ ~leaveRequested[u] /\ ~hosting[u] /\ ~toldKicked[u]
  BY DEF RoomInit
<1>4. TypeInv
  BY RoomAssumption, EmptySeq DEF RoomInit, TypeInv
<1>5. RoomsInv
  BY <1>3 DEF RoomsInv
<1>6. \A u \in Users : At(u) = {} /\ ~Entering(u)
  BY <1>3 DEF At, Entering
<1>7. ShutInv
  BY <1>6 DEF ShutInv, Shuts
<1>8. ASSUME NEW u \in Users PROVE UInv(u)
  <2>1. Away(u) /\ LoginInv(u) /\ IdInv(u)
    BY <1>3, <1>6 DEF Away, LoginInv, IdInv
  <2>2. MailInv(u) /\ AwaitInv(u) /\ EntryInv(u)
    BY <1>3, <1>6 DEF MailInv, OneEach, EntryOrder, AfterEntry, AwaitInv, EntryInv, EntryRoom, LearnsId
  <2>3. InRoomInv(u) /\ PlayInv(u) /\ OutInv(u) /\ WindowInv(u) /\ OrderInv(u) /\ KickInv(u)
    BY <1>3, <1>6 DEF InRoomInv, PlayInv, OutInv, WindowInv, OrderInv, KickInv
  <2> QED
    BY <2>1, <2>2, <2>3 DEF UInv, ViewInv
<1> QED
  BY <1>2, <1>4, <1>5, <1>7, <1>8 DEF RInv

\* Every step keeps the invariant, with users that wait for their answers.
LEMMA RoomSteps ==
  ASSUME Patient, RInv, [RoomNext]_roomVars
  PROVE  RInv'
<1>1. CASE UNCHANGED roomVars
  <2>1. /\ UNCHANGED <<connected, idOf, roomOf, ownerOf, playing, mail, userstat, playerstat, isOwner, gameIdRequested, gameId>>
        /\ UNCHANGED <<userIdRequested, leaveRequested, userId, page, hosting, toldKicked, awaiting, kicked, belief, skips>>
    BY <1>1 DEF roomVars, serverVars, coreVars, windowVars
  <2>2. TypeInv'
    BY <2>1 DEF RInv, TypeInv
  <2>3. Known' = Known /\ KnownInv' /\ RoomsInv'
    BY <2>1 DEF RInv, KnownInv, RoomsInv, Known
  <2>4. ShutInv'
    BY <2>1, <2>3 DEF RInv, ShutInv, Shuts, At, In
  <2>5. ASSUME NEW w \in Users PROVE UInv(w)'
    <3>1. \A g \in Known : g \in Known' /\ ownerOf'[g] = ownerOf[g]
      BY <2>1, <2>3
    <3>2. Local(w)
      BY <2>1 DEF Local
    <3>3. (w \in kicked => w \in kicked') /\ (skips >= 1 => skips' >= 1)
      BY <2>1
    <3> QED
      BY <2>1, <3>1, <3>2, <3>3, Untouched
  <2> QED
    BY <2>2, <2>3, <2>4, <2>5 DEF RInv
<1>2. CASE RoomNext
  <2>1. PICK u \in Users : \/ Connect(u) \/ CreateGame(u) \/ LeaveGame(u) \/ StartGameOf(u) \/ DropGame(u) \/ Disconnect(u)
                           \/ Process(u) \/ Skip(u)
                           \/ \E g \in ToSet(Games) : JoinGame(u, g)
                           \/ \E v \in Users : Kick(u, v)
    BY <1>2 DEF RoomNext
  <2>2. CASE Process(u) \/ Skip(u)
    BY <2>2, Reads
  <2>3. CASE Connect(u)
    BY <2>3, Connects
  <2>4. CASE CreateGame(u)
    BY <2>4, Creates
  <2>5. CASE LeaveGame(u)
    BY <2>5, Leaves
  <2>6. CASE StartGameOf(u)
    BY <2>6, Starts
  <2>7. CASE DropGame(u)
    BY <2>7, Drops
  <2>8. CASE Disconnect(u)
    BY <2>8, Disconnects
  <2>9. CASE \E g \in ToSet(Games) : JoinGame(u, g)
    BY <2>9, Joins
  <2>10. CASE \E v \in Users : Kick(u, v)
    BY <2>10, Kicks
  <2> QED
    BY <2>1, <2>2, <2>3, <2>4, <2>5, <2>6, <2>7, <2>8, <2>9, <2>10
<1> QED
  BY <1>1, <1>2

\* The invariant of logging in and of the rooms (kaillera_core.cpp, kaillera_ui.cpp).
THEOREM SpecRoomInv ==
  ASSUME Patient
  PROVE  RoomSpec => []RInv
<1>1. RInv /\ [RoomNext]_roomVars => RInv'
  BY RoomSteps
<1> QED
  BY RoomStarts, <1>1, PTL DEF RoomSpec

\* The invariant, where everything was read.
LEMMA UpToDates ==
  ASSUME RInv, NEW u \in Users, UpToDate(u)
  PROVE  /\ u \in connected /\ ~Entering(u) /\ (MaxSkips <= 1 => userstat[u] > 1)
         /\ Clear(u) => /\ roomOf[u] # 0 => /\ page[u] = "room" /\ (hosting[u] <=> ownerOf[roomOf[u]] = u)
                                            /\ playerstat[u] = 1 => u \in playing
                        /\ roomOf[u] = 0 /\ page[u] = "room" => u \in kicked /\ userId[u] # idOf[u]
                        /\ page[u] = "lobby" => ~hosting[u] /\ playerstat[u] # 1
<1>1. /\ TypeInv /\ LoginInv(u)
      /\ Clear(u) => InRoomInv(u) /\ PlayInv(u) /\ OutInv(u) /\ WindowInv(u)
  BY DEF RInv, UInv, ViewInv
<1>2. mail[u] = <<>> /\ At(u) = {} /\ u \in connected
  BY DEF UpToDate, At
<1>3. ~Entering(u)
  BY <1>2 DEF Entering
<1>4. MaxSkips <= 1 => userstat[u] > 1
  <2>1. Len(mail[u]) = 0
    BY <1>2, EmptySeq
  <2>2. userstat[u] # 0 /\ (MaxSkips <= 1 => userstat[u] # 1)
    BY <1>1, <1>2, <2>1 DEF LoginInv
  <2>3. userstat[u] \in 0 .. 3
    BY <1>1 DEF TypeInv
  <2> QED
    BY <2>2, <2>3
<1>5. Clear(u) /\ roomOf[u] # 0 => page[u] = "room" /\ (hosting[u] <=> ownerOf[roomOf[u]] = u) /\ (playerstat[u] = 1 => u \in playing)
  BY <1>1, <1>3 DEF InRoomInv, PlayInv
<1>6. Clear(u) /\ roomOf[u] = 0 /\ page[u] = "room" => u \in kicked /\ userId[u] # idOf[u]
  BY <1>1, <1>2 DEF OutInv
<1>7. Clear(u) /\ page[u] = "lobby" => ~hosting[u] /\ playerstat[u] # 1
  BY <1>1 DEF WindowInv
<1> QED
  BY <1>2, <1>3, <1>4, <1>5, <1>6, <1>7

\* Who has read everything shows the room if and only if the server has it in one, with the owner's buttons if and
\* only if it owns it, however joins, leaves, kicks and closing rooms crossed.
THEOREM SpecWindowFollowsServer ==
  ASSUME Patient
  PROVE  RoomSpec => []WindowFollowsServer
<1>1. ASSUME RInv PROVE WindowFollowsServer
  <2> SUFFICES ASSUME NEW u \in Users, UpToDate(u), ~Deceived(u)
               PROVE  /\ page[u] = "room" <=> roomOf[u] # 0
                      /\ hosting[u] <=> (roomOf[u] # 0 /\ ownerOf[roomOf[u]] = u)
    BY DEF WindowFollowsServer
  <2>1. page[u] \in {"lobby", "room"}
    BY <1>1 DEF RInv, TypeInv
  <2> QED
    BY <1>1, <2>1, UpToDates DEF Deceived, Clear
<1> QED
  BY <1>1, SpecRoomInv, PTL

\* Who has read everything and is in a game is one of the players of its room's game.
THEOREM SpecPlaysWithTheRoom ==
  ASSUME Patient
  PROVE  RoomSpec => []PlaysWithTheRoom
<1>1. ASSUME RInv PROVE PlaysWithTheRoom
  <2> SUFFICES ASSUME NEW u \in Users, UpToDate(u), playerstat[u] = 1
               PROVE  u \in playing \/ Deceived(u)
    BY DEF PlaysWithTheRoom
  <2>1. page[u] \in {"lobby", "room"}
    BY <1>1 DEF RInv, TypeInv
  <2> QED
    BY <1>1, <2>1, UpToDates DEF Deceived, Clear
<1> QED
  BY <1>1, SpecRoomInv, PTL

\* A login is noticed although one of the two messages that tell of it was lost.
THEOREM SpecLoginNoticed ==
  ASSUME Patient, MaxSkips <= 1
  PROVE  RoomSpec => []LoginNoticed
<1>1. ASSUME RInv PROVE LoginNoticed
  BY <1>1, UpToDates DEF LoginNoticed
<1> QED
  BY <1>1, SpecRoomInv, PTL

\* Nobody is told it was kicked but who was.
THEOREM SpecOnlyKickedAreTold ==
  ASSUME Patient
  PROVE  RoomSpec => []OnlyKickedAreTold
<1>1. ASSUME RInv PROVE OnlyKickedAreTold
  BY <1>1 DEF RInv, UInv, ViewInv, KickInv, Clear, OnlyKickedAreTold
<1> QED
  BY <1>1, SpecRoomInv, PTL
=============================================================================
