------------------------------- MODULE Frontend -------------------------------
(***************************************************************************)
(* The three threads of the client around KSSDFA, the word through which   *)
(* they tell each other that a game starts or ends.                        *)
(*   "main"  kailleraSelectServerDialog: the loop over KSSDFAST, which     *)
(*           calls kaillera_step                                           *)
(*   "ui"    GuiThread: the dialogs                                        *)
(*   "emu"   external: the emulator, which calls kailleraEndGame           *)
(* state and input are bit fields of one word: assigning one of them loads *)
(* the word, changes two bits and stores all of it.                        *)
(***************************************************************************)
EXTENDS Integers, Sequences
CONSTANTS MaxRequests,    \* bounds the requests to start or end
          MaxRooms        \* bounds the connections to a server
ASSUME FrontendAssumption == MaxRequests \in Nat /\ MaxRooms \in Nat

VARIABLES
  word,        \* KSSDFA
  todo,        \* of each thread: the assignments to KSSDFA it is about to make
  loaded,      \* of each thread: the word it has loaded to change a field, or NoWord
  loop,        \* where the main thread is
  readState,   \* the state it read to index KSSDFAST
  window,      \* where the window's thread is
  emulating,   \* external: a game runs in the emulator
  inPlay,      \* PLAYERSTAT > 0, or player_playing
  unread,      \* history: the fields of a request the loop has not read yet
  wanted,      \* history: the states that the last request asks for
  missed,      \* history: the fields of it that another thread's store undid
  requests, rooms   \* history: counted
frontWord == <<word, todo, loaded, unread, wanted, missed>>
frontVars == <<frontWord, loop, readState, window, emulating, inPlay, requests, rooms>>

Threads == {"main", "ui", "emu"}
NoWord == [state |-> -1, input |-> -1]
KSSDFASTWithoutEnd == <<0, 0, 1, 1,   1, 1, 1, 0,   2, 2, 2, 0,   3, 3, 3, 3>>   \* mutant
KSSDFAST == <<0, 0, 1, 1,   1, 0, 1, 0,   2, 0, 2, 0,   3, 3, 3, 3>>

\* An assignment, and the state it asks for: the loop's own ask for nothing, a request asks with the
\* first of its assignments.
OwnField == -1
More == -2
Assign(field, value, asks) == [field |-> field, value |-> value, asks |-> asks]
Own(field, value) == Assign(field, value, OwnField)
START == <<Assign("input", 2, 2)>>
END == <<Assign("input", 1, 0), Assign("state", 0, More)>>
CLOSE == <<Assign("state", 0, 0), Assign("input", 1, More)>>    \* WM_CLOSE and ConnectToServer

FrontInit ==
  /\ word = [state |-> 0, input |-> 0] /\ todo = [t \in Threads |-> <<>>] /\ loaded = [t \in Threads |-> NoWord]
  /\ loop = "test" /\ readState = 0 /\ window = "list" /\ emulating = FALSE /\ inPlay = FALSE
  /\ unread = {} /\ wanted = {0} /\ missed = {} /\ requests = 0 /\ rooms = 0

Idle(t) == todo[t] = <<>>
Queue(t, assignments) ==
  /\ requests < MaxRequests /\ requests' = requests + 1
  /\ todo' = [todo EXCEPT ![t] = assignments] /\ UNCHANGED <<word, loaded, unread, wanted, missed>>

LoadWord(t) ==
  /\ ~Idle(t) /\ loaded[t] = NoWord /\ loaded' = [loaded EXCEPT ![t] = word]
  /\ UNCHANGED <<word, todo, unread, wanted, missed, loop, readState, window, emulating, inPlay, requests, rooms>>
StoreWord(t) ==
  LET a == Head(todo[t])
      request == a.asks # OwnField
      contested == \E u \in Threads \ {t} : \E i \in DOMAIN todo[u] : todo[u][i].asks # OwnField
  IN
  /\ ~Idle(t) /\ loaded[t] # NoWord
  /\ word' = [loaded[t] EXCEPT ![a.field] = a.value]
  /\ todo' = [todo EXCEPT ![t] = Tail(@)] /\ loaded' = [loaded EXCEPT ![t] = NoWord]
  /\ wanted' = CASE request /\ contested -> {0, 2, 3}
                 [] request /\ ~contested /\ a.asks # More -> {a.asks}
                 [] OTHER -> wanted
  /\ unread' = IF request THEN unread \cup {a.field} ELSE unread \ {a.field}
  /\ missed' = (IF request THEN missed \ {a.field} ELSE missed \cup ({a.field} \cap unread))
                 \cup {f \in {"state", "input"} \ {a.field} : word[f] # loaded[t][f]}
  /\ UNCHANGED <<loop, readState, window, emulating, inPlay, requests, rooms>>

-----------------------------------------------------------------------------
\* The loop of kailleraSelectServerDialog.
At(place) == loop = place /\ Idle("main")
LoopTest ==
  /\ At("test")
  /\ loop' = (IF word.state = 3 THEN "over" ELSE "index") /\ readState' = word.state
  /\ unread' = unread \ {"state"}
  /\ UNCHANGED <<word, todo, loaded, wanted, missed, window, emulating, inPlay, requests, rooms>>
LoopIndex ==
  /\ At("index") /\ loop' = "act" /\ unread' = unread \ {"input"}
  /\ todo' = [todo EXCEPT !.main = <<Own("state", KSSDFAST[4 * readState + word.input + 1]), Own("input", 0)>>]
  /\ UNCHANGED <<word, loaded, wanted, missed>>
  /\ UNCHANGED <<readState, window, emulating, inPlay, requests, rooms>>
LoopAct ==
  /\ At("act")
  /\ loop' = CASE word.state = 0 -> "step" [] word.state = 1 -> "begin" [] OTHER -> "test"
  /\ todo' = [todo EXCEPT !.main = IF word.state = 1 THEN <<Own("state", 2)>> ELSE <<>>]
  /\ unread' = unread \ {"state"} /\ UNCHANGED <<word, loaded, wanted, missed>>
  /\ UNCHANGED <<readState, window, emulating, inPlay, requests, rooms>>
GameCallback ==
  /\ At("begin") /\ loop' = "test" /\ emulating' = TRUE
  /\ UNCHANGED <<frontWord, readState, window, inPlay, requests, rooms>>

\* kaillera_step, which the loop calls in state 0: GAMEBEGN, what ends a game here (GAMRDROP,
\* GAMRLEAV, GAMESHUT), or anything else.
StepTakes ==
  /\ At("step") /\ window \in {"room", "closing"} /\ UNCHANGED loop
  /\ \/ inPlay' = TRUE /\ Queue("main", START)
     \/ inPlay /\ inPlay' = FALSE /\ Queue("main", END)
  /\ UNCHANGED <<readState, window, emulating, rooms>>
StepReadsAll ==
  /\ At("step") /\ loop' = "test"
  /\ UNCHANGED <<frontWord, readState, window, emulating, inPlay, requests, rooms>>

-----------------------------------------------------------------------------
\* The window's thread.
Shows(place) == window = place /\ Idle("ui")
\* player_play and player_watch_begin.
PlayRecording ==
  /\ (Shows("list") \/ Shows("room")) /\ ~inPlay /\ inPlay' = TRUE /\ Queue("ui", START)
  /\ UNCHANGED <<loop, readState, window, emulating, rooms>>
StopRecording ==
  /\ Shows("list") /\ inPlay' = FALSE /\ Queue("ui", END)
  /\ UNCHANGED <<loop, readState, window, emulating, rooms>>
Connect ==
  /\ Shows("list") /\ ~inPlay /\ rooms < MaxRooms /\ rooms' = rooms + 1 /\ window' = "room"
  /\ UNCHANGED <<frontWord, loop, readState, emulating, inPlay, requests>>
LeaveRoom ==
  /\ Shows("room") /\ inPlay' = FALSE /\ Queue("ui", END)
  /\ UNCHANGED <<loop, readState, window, emulating, rooms>>
\* kaillera_game_drop asks for the end twice.
DropGame ==
  /\ Shows("room") /\ inPlay' = FALSE /\ Queue("ui", END \o END)
  /\ UNCHANGED <<loop, readState, window, emulating, rooms>>
CloseRoom ==
  /\ Shows("room") /\ window' = "closing"
  /\ Queue("ui", (IF word.state # 0 THEN END \o END ELSE <<>>) \o CLOSE)
  /\ inPlay' = (inPlay /\ word.state = 0)
  /\ UNCHANGED <<loop, readState, emulating, rooms>>
\* ConnectToServer after its dialog.
DialogEnds ==
  /\ Shows("closing") /\ window' = "list" /\ inPlay' = FALSE /\ Queue("ui", CLOSE)
  /\ UNCHANGED <<loop, readState, emulating, rooms>>
\* The last dialog is closed, perhaps while a recording plays, and the thread ends.
GuiThreadEnds ==
  /\ Shows("list") /\ window' = "ended" /\ Queue("ui", <<Assign("state", 3, 3)>>)
  /\ UNCHANGED <<loop, readState, emulating, inPlay, rooms>>

\* kailleraEndGame, because a call returned -1 or the user closed the game: of a session it asks
\* for the end twice.
EmulatorEnds ==
  /\ emulating /\ Idle("emu") /\ emulating' = FALSE /\ inPlay' = FALSE
  /\ Queue("emu", IF window \in {"room", "closing"} THEN END \o END ELSE END)
  /\ UNCHANGED <<loop, readState, window, rooms>>

FrontNext ==
  \/ \E t \in Threads : LoadWord(t) \/ StoreWord(t)
  \/ LoopTest \/ LoopIndex \/ LoopAct \/ GameCallback
  \/ StepTakes \/ StepReadsAll
  \/ PlayRecording \/ StopRecording \/ Connect \/ LeaveRoom \/ DropGame \/ CloseRoom \/ DialogEnds
  \/ GuiThreadEnds \/ EmulatorEnds
FrontSpec == FrontInit /\ [][FrontNext]_frontVars
-----------------------------------------------------------------------------
\* What the loop owes to those who write KSSDFA.

\* Once nobody is writing and the loop has taken the input, KSSDFA is what the last request asks for,
\* as long as its input was not written while the loop was between reading and storing it: an end
\* whose other half, state, was undone still ends the game, and does not turn into a start.
LoopFollowsRequests ==
  (loop = "test" /\ (\A t \in Threads : Idle(t)) /\ word.input = 0) =>
    \/ word.state \in wanted
    \/ wanted # {3} /\ "input" \in missed
    \/ wanted = {3} /\ "state" \in missed
=============================================================================
