------------------------------ MODULE Recording ------------------------------
(***************************************************************************)
(* A game on disk and played back: the writer (kailleraclient.cpp,         *)
(* RecordingBuffer), the reader (krec_reader.h), the list of recordings and*)
(* the playback of a file (player.cpp).                                    *)
(*                                                                         *)
(* A record keeps the bytes it takes: the reader refuses to copy anything  *)
(* once 10 bytes or fewer are left.  What it says is abstract, and one that*)
(* is not read from its start is garbage.  The header is left out:         *)
(* offset 0 is the first byte after it.                                    *)
(***************************************************************************)
EXTENDS Integers, Sequences, TLC, SequencesExt, FiniteSetsExt

CONSTANTS
  Players, Recorder,   \* numplayers, playerno
  InputLens,           \* what a frame of all players' inputs may take
  MarkerBytes, NickBytes, TextBytes,   \* a marker record; a nick and a chat text, with their NULs
  MaxFrames, MaxLines, MaxSeeks, MaxCut   \* bounds: frames and lines of a game, seeks, bytes cut off

ASSUME RecordingAssumption == Recorder \in Players /\ InputLens \subseteq 1 .. 255

VARIABLES
  tape,       \* "recording", "stored", "playing" (player_playing) or "ended"
  inputLen,   \* the bytes of this game's frames
  gone,       \* MPV returned -1: the game is over for this player
  buffer,     \* RecordingBuffer, as the records in it
  disk,       \* the file's records
  fileLen,    \* how many bytes of them there are to read
  ptr, consumed,         \* krec_reader
  settings, total,       \* g_playback_no_memcard, _multitap, _mc_sha and _total_frames
  dropped,               \* player_was_dropped
  seeks,                 \* history: how many so far
  from, served           \* history: the last seek's frame, and what the emulator got since
recordingVars ==
  <<tape, inputLen, gone, buffer, disk, fileLen, ptr, consumed, settings, total, dropped, seeks, from, served>>
writer == <<inputLen, gone, buffer, disk>>
playback == <<ptr, consumed, settings, total, dropped, seeks, from, served>>

Frame(len, id) == [type |-> "frame", bytes |-> 3 + (IF len > 255 THEN 0 ELSE len), len |-> len, id |-> id]
ChatLine(marker, bytes) == [type |-> "chat", bytes |-> bytes, marker |-> marker]
DropLine(p) == [type |-> "drop", bytes |-> 1 + NickBytes + 4, player |-> p]

IsFrame(r) == r.type = "frame"
Frames(s) == SelectSeq(s, IsFrame)

\* A record is put after what is there already, at byte "at" of the file.
Bytes(s) == IF s = <<>> THEN 0 ELSE Last(s).at + Last(s).bytes
Put(s, r) == Append(s, [at |-> Bytes(s)] @@ r)
-----------------------------------------------------------------------------
\* kailleraclient.cpp: the file is created with its markers, the memory cards' one only if they are
\* online.
GameCallback(cards) ==
  FoldLeft(LAMBDA s, marker : Put(s, ChatLine(marker, MarkerBytes)), <<>>,
           <<"Sem M. Card", "MultiTap">> \o (IF cards THEN <<"M. Card online">> ELSE <<>>))

RecordingInit ==
  /\ tape = "recording" /\ inputLen \in InputLens /\ gone = FALSE /\ buffer = <<>>
  /\ \E cards \in BOOLEAN : disk = GameCallback(cards)
  /\ fileLen = 0 /\ ptr = 0 /\ consumed = 0 /\ settings = {} /\ total = 0 /\ dropped = {}
  /\ seeks = 0 /\ from = 0 /\ served = <<>>

Recorded == disk \o buffer
Lines == Len(SelectSeq(Recorded, LAMBDA r : ~IsFrame(r) /\ (r.type = "chat" => r.marker = "none")))

\* kailleraModifyPlayValues: the frame goes to the file, with the lines that came before it.  The
\* delay's first frames are empty; -1, as a short, is a frame of 65535 bytes that are not there.
RecordFrame(len) ==
  /\ tape = "recording" /\ ~gone
  /\ disk' = Put(Recorded, Frame(len, Len(Frames(disk)) + 1)) /\ buffer' = <<>>
  /\ gone' = (len = 65535)
  /\ UNCHANGED <<tape, inputLen, fileLen, playback>>

\* _chatReceivedCallback and _clientDroppedCallback only fill the buffer, which the next frame's inputs
\* join.  Nothing compares it with its 500 bytes: what more lines than these overwrite is not modelled.
BufferBytes == 500
Fits(r) == Bytes(Recorded) - Bytes(disk) + r.bytes + 3 + inputLen <= BufferBytes
RecordLine(r) ==
  /\ tape = "recording" /\ ~gone /\ Lines < MaxLines /\ Fits(r)
  /\ buffer' = SubSeq(Put(Recorded, r), Len(disk) + 1, Len(Recorded) + 1)
  /\ UNCHANGED <<tape, inputLen, gone, disk, fileLen, playback>>

\* close_recording, when the state machine leaves the game; or the process is killed and the buffer is
\* lost; or the file is a replay whose upload or download was cut off somewhere.
CloseRecording ==
  /\ tape = "recording" /\ tape' = "stored"
  /\ disk' = Recorded /\ buffer' = <<>> /\ fileLen' = Bytes(Recorded)
  /\ UNCHANGED <<inputLen, gone, playback>>

CutOff ==
  /\ tape = "recording" /\ tape' = "stored"
  /\ fileLen' \in {n \in 0 .. Bytes(disk) : n >= Bytes(disk) - MaxCut} /\ buffer' = <<>>
  /\ UNCHANGED <<inputLen, gone, disk, playback>>
-----------------------------------------------------------------------------
\* krec_reader: load_bytes copies nothing, and does not move, with 10 bytes or fewer to go.
CanLoad(p) == p + 10 < fileLen
LoadTo(p, n) == IF CanLoad(p) THEN p + Min({n, fileLen - p}) ELSE p

ReadFrameNoSkip(p, r, max) ==   \* mutant: what does not fit the caller is not skipped
  LET len == IF CanLoad(p + 1) THEN r.len ELSE 0
      payload == LoadTo(p + 1, 2)
  IN [type |-> "frame", ptr |-> IF len > 0 /\ max > 0 THEN LoadTo(payload, Min({len, max})) ELSE payload,
      len |-> len, id |-> IF len > 0 /\ max > 0 /\ CanLoad(payload) THEN r.id ELSE 0]

\* A frame's inputs go to the caller as far as they fit, and the rest is skipped whatever the margin.
ReadFrame(p, r, max) ==
  LET len == IF CanLoad(p + 1) THEN r.len ELSE 0
      payload == LoadTo(p + 1, 2)
      fits == Min({len, max})
      after == IF fits > 0 THEN LoadTo(payload, fits) ELSE payload
      copied == fits > 0 /\ CanLoad(payload) /\ payload + fits <= fileLen
  IN [type |-> "frame", ptr |-> after + Min({len - fits, fileLen - after}), len |-> len,
      id |-> IF copied THEN r.id ELSE 0]

ReadDrop(p, r) ==
  LET number == LoadTo(p + 1, NickBytes) IN
  [type |-> "drop", ptr |-> LoadTo(number, 4), player |-> IF CanLoad(number) THEN {r.player} ELSE {}]

ReadChat(p, r) ==
  LET text == LoadTo(p + 1, NickBytes) IN
  [type |-> "chat", ptr |-> LoadTo(text, r.bytes - 1 - NickBytes),
   marker |-> IF CanLoad(text) THEN r.marker ELSE "none"]

NextRecord(p, max) ==
  LET here == {r \in ToSet(disk) : r.at = p} IN
  IF ~CanLoad(p) THEN [type |-> "eof", ptr |-> p]
  ELSE IF here = {} THEN [type |-> "unknown", ptr |-> p + 1]
  ELSE LET r == CHOOSE r \in here : TRUE IN
       CASE r.type = "frame" -> ReadFrame(p, r, max)
         [] r.type = "drop" -> ReadDrop(p, r)
         [] r.type = "chat" -> ReadChat(p, r)

\* seek_to_frame and count_total_frames walk the file from its start, taking no inputs.
WalkTo(target) ==
  FoldLeft(LAMBDA at, r :
             LET next == NextRecord(at.ptr, 0) IN
             IF at.frames = target \/ next.type = "eof" THEN at
             ELSE [ptr |-> next.ptr, frames |-> at.frames + (IF next.type = "frame" THEN 1 ELSE 0)],
           [ptr |-> 0, frames |-> 0], disk)
CountTotalFrames == WalkTo(Len(disk) + 1).frames

\* detect_marker: among the lines that come before the first frame, the first 8 of them.
DetectMarkers ==
  FoldLeft(LAMBDA at, i :
             LET next == NextRecord(at.ptr, 0) IN
             IF at.over \/ next.type \notin {"chat", "drop"} THEN [at EXCEPT !.over = TRUE]
             ELSE [ptr |-> next.ptr, over |-> FALSE,
                   found |-> at.found \cup (IF next.type = "chat" THEN {next.marker} ELSE {})],
           [ptr |-> 0, over |-> FALSE, found |-> {}], [i \in 1 .. 8 |-> i]).found \ {"none"}
-----------------------------------------------------------------------------
\* player.cpp.  RecordsList_Populate's Duration column has a scan of its own: whole frames, to the end.
Whole(r) == r.at + r.bytes <= fileLen /\ (IsFrame(r) => r.len # 65535)
Duration ==
  Cardinality({r \in ToSet(Frames(disk)) : \A q \in ToSet(Frames(disk)) : q.at <= r.at => Whole(q)})

PlayerPlay ==
  /\ tape = "stored" /\ tape' = "playing"
  /\ settings' = DetectMarkers /\ total' = CountTotalFrames
  /\ ptr' = 0 /\ consumed' = 0 /\ dropped' = {} /\ from' = 0 /\ served' = <<>>
  /\ UNCHANGED <<writer, fileLen, seeks>>

\* player_MPV: on to the next frame, past chat and the drops of others; the recorder's own drop and the
\* end of the file end the game.
Skipped(next) == next.type = "chat" \/ (next.type = "drop" /\ Recorder \notin next.player)
NextForEmulator ==
  FoldLeft(LAMBDA at, r :
             IF Skipped(at.next)
             THEN [next |-> NextRecord(at.next.ptr, 256),
                   dropped |-> at.dropped \cup (IF at.next.type = "drop" THEN at.next.player ELSE {})]
             ELSE at,
           [next |-> NextRecord(ptr, 256), dropped |-> dropped], disk)

PlayerMPV ==
  LET at == NextForEmulator  next == at.next IN
  /\ tape = "playing" /\ ptr' = next.ptr
  /\ IF next.type = "frame"
     THEN /\ consumed' = consumed + 1 /\ served' = Append(served, [len |-> next.len, id |-> next.id])
          /\ dropped' = at.dropped /\ UNCHANGED tape
     ELSE /\ UNCHANGED <<consumed, served>>
          /\ dropped' = at.dropped \cup (IF next.type = "drop" THEN next.player ELSE {})
          /\ tape' = (IF next.type = "unknown" THEN tape ELSE "ended")
  /\ UNCHANGED <<writer, fileLen, settings, total, seeks, from>>

\* player_seek_to_frame: the frontend has loaded the state of that frame and gets the inputs from there.
PlayerSeekToFrame ==
  /\ tape = "playing" /\ seeks < MaxSeeks /\ seeks' = seeks + 1
  /\ \E frame \in 0 .. total :
       ptr' = WalkTo(frame).ptr /\ consumed' = WalkTo(frame).frames /\ from' = WalkTo(frame).frames
  /\ served' = <<>>
  /\ UNCHANGED <<tape, writer, fileLen, settings, total, dropped>>
-----------------------------------------------------------------------------
RecordingNext ==
  \/ Len(Frames(disk)) < MaxFrames /\ \E len \in {0, inputLen} : RecordFrame(len)
  \/ RecordFrame(65535)
  \/ RecordLine(ChatLine("none", 1 + NickBytes + TextBytes)) \/ \E p \in Players : RecordLine(DropLine(p))
  \/ CloseRecording \/ CutOff
  \/ PlayerPlay \/ PlayerMPV \/ PlayerSeekToFrame

RecordingSpec == RecordingInit /\ [][RecordingNext]_recordingVars
-----------------------------------------------------------------------------
\* A frame that the reader's margin and a cut file leave whole.
Readable(r) == r.at + 13 < fileLen /\ Whole(r)

\* What the emulator gets is what was recorded, frame for frame, whatever chat, drops and seeks are in
\* between and wherever the file was cut, except in its last 13 bytes; and none is left out when the
\* file ends; nor in the toolbar's total and the list's duration (krec_reader.h, player.cpp).
PlaybackFaithful ==
  LET readable == SelectSeq(Frames(disk), Readable) IN
  /\ \A i \in DOMAIN served : from + i \in DOMAIN readable =>
       LET r == readable[from + i] IN
       served[i].len = r.len /\ (r.len > 0 => served[i].id = r.id)
  /\ tape \in {"playing", "ended"} => Len(readable) <= total /\ Len(readable) <= Duration
  /\ (tape = "ended" /\ Recorder \notin dropped) => consumed = total
  /\ (tape = "playing" => consumed <= total)
=============================================================================
