----------------------------- MODULE RetryConnect -----------------------------
(***************************************************************************)
(* Continuing a recorded game (kaillera_retryconnect.cpp): every player of *)
(* the room downloads the recording the host chose and replays it by itself;*)
(* the host pauses, hands out the state of its emulator and finally goes   *)
(* live, for everybody.                                                    *)
(*                                                                         *)
(* The state of an emulator is the sequence of the inputs it has played; a *)
(* recorded input is its frame's number, and 0 is none.  The server relays *)
(* RETRYCON to everyone but its sender, in the order of the game's other   *)
(* messages.  A broken or stalled connection ends a download as its last   *)
(* byte does: what has come is the file.  A record cut in the middle counts*)
(* as not there.                                                           *)
(***************************************************************************)
EXTENDS Integers, SequencesExt
CONSTANTS Peers, Chooser,
          Frames,        \* input frames of the recording, and bounds the replay
          MaxControls,   \* bounds what the host does with its keys
          MaxFaults      \* bounds transfers that fail or are cut
ASSUME RetryAssumption == /\ Chooser \notin Peers
                          /\ {Frames, MaxControls, MaxFaults} \subseteq Nat
Players == Peers \cup {Chooser}

VARIABLES
  stage,      \* of each player: "room", "ready" (GAMRSRDY sent) or "run"
  active,     \* g_active
  total,      \* g_total_frames: frames in each player's copy of the recording
  pos,        \* g_reader.frame_index()
  held,       \* g_last_frame
  mailbox,    \* g_pending_action, g_pending_frame
  played,     \* external: the emulator
  paused,     \* external: the frontend is paused
  wire,       \* from the server to each player
  stored,     \* external: the state on the replay server
  readies,    \* external: the GAMRSRDY the server has seen
  refused,    \* history: who answered the selection with a NAK
  lost,       \* history: players that had a control overwritten
  controls,   \* history: the host's controls
  faults      \* history: the transfers that were not whole
retryPlayer == <<stage, active, total, pos, held, mailbox>>
retryFrontend == <<played, paused>>
retryServer == <<wire, stored, readies>>
retryVars == <<retryPlayer, retryFrontend, retryServer, refused, lost, controls, faults>>

None == [action |-> "none", frame |-> 0]
NoState == [frame |-> -1, state |-> <<>>]
Live(p) == stage[p] = "run" /\ ~active[p]

RetryInit ==
  /\ stage = [p \in Players |-> "room"] /\ active = [p \in Players |-> FALSE]
  /\ total = [p \in Players |-> -1] /\ pos = [p \in Players |-> 0] /\ held = [p \in Players |-> 0]
  /\ mailbox = [p \in Players |-> None]
  /\ played = [p \in Players |-> <<>>] /\ paused = [p \in Players |-> FALSE]
  /\ wire = [p \in Players |-> <<>>] /\ stored = NoState /\ readies = {}
  /\ refused = {} /\ lost = {} /\ controls = 0 /\ faults = <<>>

\* Appended to what is on its way to the players `to`.
Deliver(net, to, msg) == [p \in Players |-> IF p \in to THEN Append(net[p], msg) ELSE net[p]]
Control(action, f) == [type |-> "control", action |-> action, frame |-> f]
Plain(type) == [type |-> type, action |-> "none", frame |-> 0]
Pop(p) == [wire EXCEPT ![p] = Tail(@)]
Fault(what) == Len(faults) < MaxFaults /\ faults' = Append(faults, what)
Succeeds == UNCHANGED faults

\* n02_replays_download takes a cut file for the whole one.
DownloadReplay(p) ==
  \/ Succeeds /\ total' = [total EXCEPT ![p] = Frames]
  \/ Fault("recording cut") /\ \E n \in 0..Frames - 1 : total' = [total EXCEPT ![p] = n]

\* g_active, with the reader at the start and the mailbox empty.
Select(p) ==
  /\ DownloadReplay(p)
  /\ active' = [active EXCEPT ![p] = TRUE] /\ pos' = [pos EXCEPT ![p] = 0]
  /\ held' = [held EXCEPT ![p] = 0] /\ mailbox' = [mailbox EXCEPT ![p] = None]
ResetSession(p) ==
  /\ active' = [active EXCEPT ![p] = FALSE] /\ total' = [total EXCEPT ![p] = -1]
  /\ held' = [held EXCEPT ![p] = 0] /\ mailbox' = [mailbox EXCEPT ![p] = None]
-----------------------------------------------------------------------------
\* The selection and then the start go out; a failed download leaves the room as it was.
HostSelect ==
  /\ stage[Chooser] = "room" /\ ~active[Chooser] /\ wire[Chooser] = <<>>
  /\ Select(Chooser)
  /\ wire' = Deliver(Deliver(wire, Peers, Plain("select")), Players, Plain("begin"))
  /\ UNCHANGED <<stage, retryFrontend, stored, readies, refused, lost, controls>>

Arrives(p, type) == wire[p] # <<>> /\ Head(wire[p]).type = type

ReadSelect(p) ==
  /\ Arrives(p, "select")
  /\ \/ Select(p) /\ wire' = Pop(p) /\ UNCHANGED refused
     \/ /\ Fault("recording") /\ refused' = refused \cup {p}
        /\ wire' = Deliver(Pop(p), Players \ {p}, Plain("nak"))
        /\ UNCHANGED <<active, total, pos, held, mailbox>>
  /\ UNCHANGED <<stage, retryFrontend, stored, readies, lost, controls>>

\* GAMEBEGN and GameStartSequence: everyone waits for everyone's GAMRSRDY.
ReadGameBegin(p) ==
  /\ Arrives(p, "begin")
  /\ stage' = [stage EXCEPT ![p] = "ready"]
  /\ readies' = readies \cup {p}
  /\ wire' = IF readies' = Players THEN Deliver(Pop(p), Players, Plain("allReady")) ELSE Pop(p)
  /\ UNCHANGED <<active, total, pos, held, mailbox, retryFrontend, stored, refused, lost, controls, faults>>
ReadAllReady(p) ==
  /\ Arrives(p, "allReady")
  /\ stage' = [stage EXCEPT ![p] = "run"] /\ wire' = Pop(p)
  /\ UNCHANGED <<active, total, pos, held, mailbox, retryFrontend, stored, readies, refused, lost, controls, faults>>

ReadNakIgnored(p) ==                   \* mutant: the others replay without the one that refused
  /\ Arrives(p, "nak")
  /\ wire' = Pop(p)
  /\ UNCHANGED <<retryPlayer, retryFrontend, stored, readies, refused, lost, controls, faults>>

ReadNak(p) ==
  /\ Arrives(p, "nak")
  /\ ResetSession(p) /\ wire' = Pop(p)
  /\ UNCHANGED <<stage, pos, retryFrontend, stored, readies, refused, lost, controls, faults>>

\* kaillera_retryconnect_control_callback: one slot, whatever is still in it.
ReadControl(p) ==
  /\ Arrives(p, "control")
  /\ mailbox' = [mailbox EXCEPT ![p] = [action |-> Head(wire[p]).action, frame |-> Head(wire[p]).frame]]
  /\ lost' = IF mailbox[p] = None THEN lost ELSE lost \cup {p}
  /\ active' = [active EXCEPT ![p] = @ /\ Head(wire[p]).action # "goLive"]
  /\ wire' = Pop(p)
  /\ UNCHANGED <<stage, total, pos, held, retryFrontend, stored, readies, refused, controls, faults>>
-----------------------------------------------------------------------------
\* kaillera_retryconnect_modify_play_values: past the end of the copy the last input served goes on.
\* Nobody plays more frames than the recording has: a copy runs dry if it was cut.
ServeFrame(p) ==
  /\ stage[p] = "run" /\ active[p] /\ ~paused[p] /\ Len(played[p]) < Frames
  /\ pos' = [pos EXCEPT ![p] = IF @ < total[p] THEN @ + 1 ELSE @]
  /\ held' = [held EXCEPT ![p] = IF pos[p] < total[p] THEN pos'[p] ELSE @]
  /\ played' = [played EXCEPT ![p] = Append(@, held'[p])]
  /\ UNCHANGED <<stage, active, total, mailbox, paused, retryServer, refused, lost, controls, faults>>

\* n02_replays_download_state: the frame comes first, so a state that is cut after it still counts.
Fetch(got) ==
  IF got = "whole" THEN stored # NoState /\ Succeeds
  ELSE Fault(got) /\ (got = "state cut" => stored # NoState)

\* Without a state the player stays where it is.  Of one that was cut the reader learns the frame,
\* but the emulator cannot load it.
DownloadState(p) == \E got \in {"whole", "state cut", "state"} :
  /\ Fetch(got)
  /\ pos' = [pos EXCEPT ![p] = IF got = "state" THEN @ ELSE Min({stored.frame, total[p]})]
  /\ played' = [played EXCEPT ![p] = IF got = "whole" THEN stored.state ELSE @]

\* The frontend of a peer mirrors what the host did.
Poll(p) ==
  LET action == mailbox[p].action IN
    /\ stage[p] = "run" /\ action # "none"
    /\ mailbox' = [mailbox EXCEPT ![p] = None]
    /\ paused' = [paused EXCEPT ![p] = action \in {"pause", "stateReady"}]
    /\ IF action = "stateReady" THEN DownloadState(p) ELSE UNCHANGED <<played, pos, faults>>
    /\ UNCHANGED <<stage, active, total, held, retryServer, refused, lost, controls>>
-----------------------------------------------------------------------------
\* kaillera_retryconnect_can_control, and the game runs.
CanControl == active[Chooser] /\ stage[Chooser] = "run" /\ controls < MaxControls
Tell(action) == /\ wire' = Deliver(wire, Peers, Control(action, pos[Chooser]))
                /\ controls' = controls + 1

\* n02_replays_upload_state: if the answer is lost the server has the state and the host does not
\* know it.
Put(done, f, state) ==
  \/ done /\ Succeeds /\ stored' = [frame |-> f, state |-> state]
  \/ ~done /\ Fault("state") /\ stored' \in {stored, [frame |-> f, state |-> state]}

UploadStateBeforeSeek ==               \* mutant: the state is taken before the emulator is moved
  \E done \in BOOLEAN :
    /\ Put(done, pos[Chooser], played[Chooser])
    /\ wire' = Deliver(wire, Peers, Control(IF done THEN "stateReady" ELSE "pause", pos'[Chooser]))

\* The host's emulator is stopped at a frame and hands out its state; the others are told of it
\* when the server has it, and else only to stop.
UploadState ==
  \E done \in BOOLEAN :
    /\ Put(done, pos'[Chooser], played'[Chooser])
    /\ wire' = Deliver(wire, Peers, Control(IF done THEN "stateReady" ELSE "pause", pos'[Chooser]))
HostPause ==
  /\ CanControl /\ ~paused[Chooser] /\ paused' = [paused EXCEPT ![Chooser] = TRUE]
  /\ UNCHANGED <<pos, played>> /\ UploadState /\ controls' = controls + 1
  /\ UNCHANGED <<stage, active, total, held, mailbox, readies, refused, lost>>

\* "Rebobinar": an earlier checkpoint is loaded, the reader follows, and it is handed out the same way.
HostRewind ==
  /\ CanControl /\ paused[Chooser]
  /\ \E f \in 0..pos[Chooser] :
       /\ f < Len(played[Chooser]) /\ pos' = [pos EXCEPT ![Chooser] = f]
       /\ played' = [played EXCEPT ![Chooser] = SubSeq(@, 1, f)]
  /\ UploadState /\ controls' = controls + 1
  /\ UNCHANGED <<stage, active, total, held, mailbox, paused, readies, refused, lost>>

HostResume ==
  /\ CanControl /\ paused[Chooser] /\ paused' = [paused EXCEPT ![Chooser] = FALSE]
  /\ Tell("resume")
  /\ UNCHANGED <<retryPlayer, played, stored, readies, refused, lost, faults>>

HostGoesLive ==
  /\ CanControl /\ paused[Chooser] /\ paused' = [paused EXCEPT ![Chooser] = FALSE]
  /\ active' = [active EXCEPT ![Chooser] = FALSE]
  /\ Tell("goLive")
  /\ UNCHANGED <<stage, total, pos, held, mailbox, played, stored, readies, refused, lost, faults>>
-----------------------------------------------------------------------------
RetryNext ==
  \/ HostSelect \/ HostPause \/ HostRewind \/ HostResume \/ HostGoesLive
  \/ \E p \in Players :
       \/ ReadSelect(p) \/ ReadGameBegin(p) \/ ReadAllReady(p) \/ ReadNak(p) \/ ReadControl(p)
       \/ ServeFrame(p) \/ Poll(p)
RetrySpec == RetryInit /\ [][RetryNext]_retryVars
=============================================================================
