------------------------------ MODULE RoomProps ------------------------------
\* What the window and the core of a user may think of the server.
EXTENDS Room

\* Everything the server sent u was read.
UpToDate(u) == mail[u] = <<>> /\ u \in connected

\* It cannot tell what becomes of it: it was kicked and its user_id, left by an earlier connection
\* or never set, is not its id; or such a user_id made it take another's leaving for its own.
\* A user_id it learned in this connection, by creating a room, never leads to this.
Deceived(u) == (u \in kicked /\ userId[u] # idOf[u]) \/ belief[u] = "misled"

\* Once a user has read everything, its window shows the room if and only if the server has
\* it in one, and has the owner's buttons if and only if it owns that room: whichever way
\* joins, leaves, kicks and closing rooms crossed.  Except for the deceived.
WindowFollowsServer ==
  \A u \in Users : UpToDate(u) /\ ~Deceived(u) =>
    /\ page[u] = "room" <=> roomOf[u] # 0
    /\ hosting[u] <=> (roomOf[u] # 0 /\ ownerOf[roomOf[u]] = u)

\* A start that crosses a leave, a kick or a closing room leaves nobody in a game of its own:
\* who is up to date and in a game is one of the players of its room's game, or deceived.
PlaysWithTheRoom ==
  \A u \in Users : UpToDate(u) /\ playerstat[u] = 1 => u \in playing \/ Deceived(u)

\* A login is noticed although k_message gave up one of the messages that tell of it: with
\* USERSTAT at 1 chat, games and the keep-alive would stay off.
LoginNoticed == \A u \in Users : UpToDate(u) => userstat[u] > 1

\* Only who was kicked in this connection is told so, however its own leaving crosses with the
\* others' doings, the last connection's id in user_id with other players' ids: except who never
\* created a room in this connection and was misled by a stale user_id.
OnlyKickedAreTold == \A u \in Users : toldKicked[u] => u \in kicked \/ belief[u] = "misled"
=============================================================================
