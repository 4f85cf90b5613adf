------------------------------- MODULE WatchLive -------------------------------
(***************************************************************************)
(* A spectator: the thread that fetches the server's file of a stream, the *)
(* buffer player_MPV reads records from, rewinding in it, and jumping to   *)
(* the live edge with a state downloaded from the host.                    *)
(*                                                                         *)
(* The file is a sequence of units.  A frame's input is its head (type and *)
(* length) and its payload, a chat line its type and its text: a chunk may *)
(* end between the two.  The spectator's emulator is the number of the last*)
(* frame it has played, as long as it was given every input in its turn.   *)
(***************************************************************************)
EXTENDS Integers, FiniteSets, SequencesExt
CONSTANTS File,          \* what the host will have streamed when the game is over
          HeaderUnits,   \* units of the file that are its header
          Retain,        \* WATCH_RETAIN_MAX_BYTES, in units
          Snapshots,     \* WATCH_SNAPSHOT_COUNT
          FrameGap,      \* WATCH_SNAPSHOT_MIN_FRAME_GAP
          Margin,        \* WATCH_RECORD_SAFETY_MARGIN, in units after the type
          MaxMoves       \* bounds rewinds and jumps

Frames(units) == Cardinality({i \in DOMAIN units : units[i].kind = "head"})
\* After the header whole records, with the inputs of frames 1, 2, ..
WholeRecords ==
  /\ \A i \in 1..HeaderUnits : File[i].kind = "header"
  /\ (Len(File) - HeaderUnits) % 2 = 0
  /\ \A i \in HeaderUnits + 1..Len(File) :
       IF (i - HeaderUnits) % 2 = 1 THEN File[i].kind \in {"head", "chat"}
       ELSE IF File[i - 1].kind = "head" THEN File[i] = [kind |-> "input", frame |-> Frames(SubSeq(File, 1, i))]
       ELSE File[i].kind = "text"
ASSUME WatchAssumption ==
  /\ File \in Seq([kind : {"head", "input", "chat", "text", "header"}, frame : Nat])
  /\ HeaderUnits \in 0..Len(File) /\ WholeRecords
  /\ {Retain, MaxMoves} \subseteq Nat /\ {Snapshots, FrameGap, Margin} \subseteq Nat \ {0}

VARIABLES
  uploadedUnits, \* units the server has
  over,          \* the session is finished there
  fetching,      \* the WatchThread: where its run() is
  offset,        \* its local offset
  got,           \* the chunk it received, not yet appended
  fetched,       \* g_watch_buf
  finished,      \* g_watch_finished
  buffer,        \* PlayBackBuffer.buffer
  ptr,           \* units of it consumed
  consumed,      \* g_watch_frames_consumed
  snapshots,     \* g_watch_snapshots
  reading,       \* what player_MPV is in the middle of
  playing,       \* player_playing
  lock,          \* g_watch_state_sent
  emulator,      \* history: the last frame the emulator played
  skewed,        \* history: an input was not the one of the next frame, or no record began at ptr
  base, top,     \* the frontend's checkpoints are of the frames base..top
  clamped,       \* history: a rewind went further back than the oldest snapshot
  target,        \* g_watch_start_offset of the next thread
  moves
watchNet == <<uploadedUnits, over>>
watchThread == <<fetching, offset, got, fetched, finished>>
watchPlayer == <<buffer, ptr, consumed, snapshots>>
watchEmulator == <<emulator, skewed, base, top, clamped>>
watchVars == <<watchNet, watchThread, watchPlayer, watchEmulator, reading, playing, lock, moves, target>>

\* Where records begin: the host posts whole records and takes states between two.
Boundaries == {n \in HeaderUnits..Len(File) : n = Len(File) \/ File[n + 1].kind \in {"head", "chat"}}
\* What is streamed from one snapshot to the next is retained: 600 frames and their lines in 16 MB.
RecordsFit ==
  \A m \in Boundaries : \A n \in m..Len(File) : Frames(SubSeq(File, m + 1, n)) <= FrameGap => n - m <= Retain

\* player_watch_begin: the header has arrived, and playback begins after it.
WatchInit ==
  /\ uploadedUnits = HeaderUnits /\ over = FALSE
  /\ fetching = "sleep" /\ offset = HeaderUnits /\ got = 0 /\ fetched = <<>> /\ finished = FALSE
  /\ buffer = SubSeq(File, 1, HeaderUnits) /\ ptr = HeaderUnits /\ consumed = 0
  /\ snapshots = <<[frame |-> 0, offset |-> HeaderUnits]>>
  /\ reading = "no" /\ playing = TRUE /\ lock = FALSE
  /\ emulator = 0 /\ skewed = FALSE /\ base = 0 /\ top = 0 /\ clamped = FALSE /\ moves = 0 /\ target = 0
-----------------------------------------------------------------------------
HostPosts ==
  /\ \E n \in Boundaries : n > uploadedUnits /\ uploadedUnits' = n
  /\ UNCHANGED <<over, watchThread, watchPlayer, watchEmulator, reading, playing, lock, moves, target>>
HostEnds ==
  /\ uploadedUnits = Len(File) /\ ~over /\ over' = TRUE
  /\ UNCHANGED <<uploadedUnits, watchThread, watchPlayer, watchEmulator, reading, playing, lock, moves, target>>

\* HttpGetBody: any part of what the server has from the offset on; a failure is a chunk of
\* nothing.  An empty answer of a finished session is the end.
Fetch ==
  /\ fetching = "sleep"
  /\ \/ \E n \in 1..(uploadedUnits - offset) : got' = n /\ fetching' = "append" /\ UNCHANGED finished
     \/ /\ over /\ uploadedUnits <= offset
        /\ finished' = TRUE /\ fetching' = "none" /\ UNCHANGED got
  /\ UNCHANGED <<watchNet, offset, fetched, watchPlayer, watchEmulator, reading, playing, lock, moves, target>>

WatchBufAppend ==
  /\ fetching \in {"append", "stopping"} /\ got > 0
  /\ fetched' = fetched \o SubSeq(File, offset + 1, offset + got)
  /\ offset' = offset + got /\ got' = 0
  /\ fetching' = IF fetching = "append" THEN "sleep" ELSE "none"
  /\ UNCHANGED <<watchNet, finished, watchPlayer, watchEmulator, reading, playing, lock, moves, target>>
-----------------------------------------------------------------------------
PlayBackBufferAppendAndSnapshot(chunk) ==   \* mutant: a snapshot per refill, wherever the reader is
  LET dropped == IF ptr > Retain THEN ptr - Retain ELSE 0 IN
    /\ buffer' = SubSeq(buffer, dropped + 1, Len(buffer)) \o chunk
    /\ ptr' = ptr - dropped
    /\ snapshots' = LET kept == SelectSeq(snapshots, LAMBDA s : s.offset >= dropped)
                    IN Append([i \in DOMAIN kept |-> [kept[i] EXCEPT !.offset = @ - dropped]],
                              [frame |-> consumed, offset |-> ptr'])

\* PlayBackBuffer_Append: consumed history beyond Retain goes, and with it its snapshots, which are
\* in the order of their offsets.
PlayBackBufferAppend(chunk) ==
  LET dropped == IF ptr > Retain THEN ptr - Retain ELSE 0
      gone == CHOOSE k \in 0..Len(snapshots) :
                \A i \in DOMAIN snapshots : i <= k <=> snapshots[i].offset < dropped
  IN /\ buffer' = SubSeq(buffer, dropped + 1, Len(buffer)) \o chunk
     /\ ptr' = ptr - dropped
     /\ snapshots' = [i \in 1..Len(snapshots) - gone |->
                        [frame |-> snapshots[i + gone].frame, offset |-> snapshots[i + gone].offset - dropped]]

Available == Len(buffer) - ptr
Needed == CASE reading = "record" -> 1 [] reading = "input" -> 1 [] reading = "chat" -> Margin [] OTHER -> 0

\* WatchEnsureBuffered: n02_watch_pull hands over what there is, or waits for it.
WatchRefill ==
  /\ playing /\ Available < Needed /\ fetched # <<>>
  /\ PlayBackBufferAppend(fetched) /\ fetched' = <<>>
  /\ UNCHANGED <<watchNet, fetching, offset, got, finished, consumed, watchEmulator, reading, playing, lock, moves, target>>

EndGame == playing' = FALSE /\ reading' = "no" /\ lock' = FALSE

StreamDry ==
  /\ playing /\ Available < Needed /\ fetched = <<>> /\ finished
  /\ EndGame
  /\ UNCHANGED <<watchNet, watchThread, watchPlayer, watchEmulator, moves, target>>

\* The emulator wants the input of its next frame.
CallMPV ==
  /\ playing /\ reading = "no" /\ reading' = "record"
  /\ UNCHANGED <<watchNet, watchThread, watchPlayer, watchEmulator, playing, lock, moves, target>>

WatchSnapshotRecord ==
  LET n == Len(snapshots) IN
    snapshots' = IF n > 0 /\ consumed - snapshots[n].frame < FrameGap THEN snapshots
                 ELSE Append(IF n = Snapshots THEN Tail(snapshots) ELSE snapshots, [frame |-> consumed, offset |-> ptr])

\* A record's type is read at ptr; anything but a head or a chat is an unknown record.
ReadType ==
  /\ playing /\ reading = "record" /\ Available >= Needed
  /\ WatchSnapshotRecord
  /\ ptr' = ptr + 1
  /\ reading' = CASE buffer[ptr + 1].kind = "head" -> "input" [] buffer[ptr + 1].kind = "chat" -> "chat" [] OTHER -> "no"
  /\ skewed' = (skewed \/ buffer[ptr + 1].kind \notin {"head", "chat"})
  /\ UNCHANGED <<watchNet, watchThread, buffer, consumed, emulator, base, top, clamped, playing, lock, moves, target>>

\* The payload goes to the emulator, whatever frame it is of.
ReadInput ==
  /\ playing /\ reading = "input" /\ Available >= Needed
  /\ ptr' = ptr + 1 /\ consumed' = consumed + 1 /\ reading' = "no"
  /\ emulator' = emulator + 1
  /\ skewed' = (skewed \/ buffer[ptr + 1] # [kind |-> "input", frame |-> emulator + 1])
  /\ top' = IF emulator' > top THEN emulator' ELSE top
  /\ UNCHANGED <<watchNet, watchThread, buffer, snapshots, base, clamped, playing, lock, moves, target>>

ReadChat ==
  /\ playing /\ reading = "chat" /\ Available >= Needed
  /\ ptr' = ptr + 1 /\ reading' = "record"
  /\ UNCHANGED <<watchNet, watchThread, buffer, consumed, snapshots, watchEmulator, playing, lock, moves, target>>
-----------------------------------------------------------------------------
\* The frontend loads its checkpoint of a frame, then player_seek_to_frame.  WatchSeekToFrame
\* takes the last snapshot at or before the frame, or else the first, and walks over whole records
\* that are buffered.
LastSnapshot(frame) ==
  LET before == {i \in DOMAIN snapshots : \A j \in 1..i : snapshots[j].frame <= frame}
  IN snapshots[IF before = {} THEN 1 ELSE CHOOSE i \in before : \A j \in before : j <= i]
Walk(from, frames, frame) ==           \* the end of the walk: the first record boundary past `frame`
  LET complete == {n \in from..Len(buffer) :
                     /\ (n = Len(buffer) \/ buffer[n + 1].kind \in {"head", "chat"})
                     /\ (n > from => buffer[n].kind \in {"input", "text"})}
      reached == {n \in complete : frames + Frames(SubSeq(buffer, from + 1, n)) = frame}
      inOrder == IF reached # {} THEN reached ELSE complete
  IN IF frames >= frame THEN from
     ELSE CHOOSE n \in inOrder : \A m \in inOrder : IF reached # {} THEN n <= m ELSE n >= m

SeekToFrame(frame) ==
  IF snapshots = <<>> THEN UNCHANGED <<ptr, consumed>> ELSE
    LET s == LastSnapshot(frame)
        end == Walk(s.offset, s.frame, frame)
    IN /\ ptr' = end
       /\ consumed' = s.frame + Frames(SubSeq(buffer, s.offset + 1, end))

Rewind ==
  /\ playing /\ reading = "no" /\ moves < MaxMoves
  /\ \E frame \in base..top :
       /\ emulator' = frame
       /\ clamped' = (clamped \/ (snapshots # <<>> /\ snapshots[1].frame > frame))
       /\ SeekToFrame(frame)
  /\ lock' = FALSE /\ moves' = moves + 1
  /\ UNCHANGED <<watchNet, watchThread, buffer, snapshots, reading, playing, skewed, base, top, target>>

\* The frontend pauses for longer than WATCH_PAUSE_UNLOCK_MS.
PauseUnlocks ==
  /\ lock /\ lock' = FALSE
  /\ UNCHANGED <<watchNet, watchThread, watchPlayer, watchEmulator, reading, playing, moves, target>>

\* A state the host took between two records, perhaps ones it has not posted yet, was asked for
\* while unlocked, downloaded and loaded.  player_watch_jump_to_live empties the buffer and
\* n02_watch_restart_from_offset stops the thread: it ends, in the middle of a chunk perhaps after
\* appending it, or is destroyed; then the new one starts.
JumpToLive ==
  /\ playing /\ reading = "no" /\ ~lock /\ moves < MaxMoves
  /\ \E n \in Boundaries :
       /\ target' = n /\ consumed' = Frames(SubSeq(File, 1, n))
       /\ emulator' = consumed' /\ base' = consumed' /\ top' = consumed'
  /\ buffer' = <<>> /\ ptr' = 0 /\ snapshots' = <<>>
  /\ reading' = "restart" /\ moves' = moves + 1
  /\ fetching' = IF fetching = "append" THEN "stopping" ELSE "none"
  /\ UNCHANGED <<watchNet, offset, got, fetched, finished, skewed, clamped, playing, lock>>

RestartFromOffset ==
  /\ reading = "restart"
  /\ fetched' = <<>> /\ finished' = FALSE
  /\ offset' = target /\ got' = 0 /\ fetching' = "sleep"
  /\ reading' = "no" /\ lock' = TRUE
  /\ UNCHANGED <<watchNet, watchPlayer, watchEmulator, playing, moves, target>>
-----------------------------------------------------------------------------
WatchNext ==
  \/ HostPosts \/ HostEnds \/ Fetch \/ WatchBufAppend \/ WatchRefill \/ StreamDry
  \/ CallMPV \/ ReadType \/ ReadInput \/ ReadChat \/ Rewind \/ PauseUnlocks
  \/ JumpToLive \/ RestartFromOffset
WatchSpec == WatchInit /\ [][WatchNext]_watchVars
-----------------------------------------------------------------------------
\* What a spectator must see.

\* Wherever chunks are cut, however often the spectator rewinds or jumps to the live edge, its
\* emulator is given the input of the frame it is about to play, and every record is read from its
\* first byte.  Only a rewind to before the oldest snapshot goes wrong.  A stream that is still being
\* posted never ends for a spectator who has caught up with it, and one that is over ends with its
\* last frame, give or take the safety margin of a chat line.
FrameExact ==
  /\ skewed => clamped
  /\ ~playing => over /\ (clamped \/ Frames(File) - emulator <= Margin \div 2)
=============================================================================
