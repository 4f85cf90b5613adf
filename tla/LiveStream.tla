------------------------------ MODULE LiveStream ------------------------------
(***************************************************************************)
(* Streaming a game to spectators: the host's record queue, the thread that*)
(* posts batches until the server confirms them, the thread that answers   *)
(* spectators' requests for a state, and the server's file of the stream.  *)
(*                                                                         *)
(* A record is a frame's input (its number, from 1) or a chat line; each is*)
(* one unit long, and so is the header, so that an offset counts records.  *)
(***************************************************************************)
EXTENDS Integers, FiniteSets, SequencesExt
CONSTANTS QueueCap,      \* N02_STREAM_QUEUE_CAP
          BatchCap,      \* records that fit in sendBuf after the header
          MaxPushed,     \* bounds the records pushed in a session
          MaxLines,      \* and the chat lines among them, after the marker
          MaxSessions,   \* bounds the sessions
          MaxAsked,      \* bounds the requests for a state
          MaxRefused     \* bounds the batches the server refuses
ASSUME LiveStreamAssumption ==
  /\ QueueCap \in Nat \ {0} /\ BatchCap \in Nat \ {0}
  /\ {MaxPushed, MaxLines, MaxSessions, MaxAsked, MaxRefused} \subseteq Nat

VARIABLES
  queue,      \* g_stream_queue, oldest record first
  enqueued,   \* g_stream_bytes_enqueued
  active,     \* g_session_active
  ended,      \* g_session_ended
  sequence,   \* g_session_sequence
  sender,     \* where StreamThread::run is
  sawEnded,   \* its local `ended`, until it has drained
  batch,      \* its unconfirmed batch, or NoBatch
  stopping,   \* stop_requested of both threads
  keeper,     \* StateThread runs
  polling,    \* g_state_frontend_polling
  requested,  \* g_state_request_pending
  handed,     \* g_state_upload_buf, or NoState
  uploading,  \* the state StateThread is posting, or NoState
  server,     \* what the server holds of the session
  inFlight,   \* posts on their way to it
  session,    \* how many sessions were started
  pushed,     \* history: every record of the session
  losses      \* history: records overwritten, batches refused, records
              \* that did not fit in the last batch; requests made
streamHost == <<queue, enqueued, active, ended, sequence, polling, requested, handed>>
streamThreads == <<sender, sawEnded, batch, stopping, keeper, uploading>>
streamVars == <<streamHost, streamThreads, server, inFlight, session, pushed, losses>>

Header == -1
Chat == 0
NoBatch == [seq |-> -1, body |-> <<>>, end |-> FALSE]
NoState == [frame |-> -1, offset |-> 0, dropped |-> 0]
FrameOf(records) == Cardinality({i \in DOMAIN records : records[i] > 0})
EmptyServer == [file |-> <<>>, last |-> -1, closed |-> FALSE, asked |-> FALSE, state |-> NoState]

StreamInit ==
  /\ queue = <<>> /\ enqueued = 0 /\ active = FALSE /\ ended = FALSE /\ sequence = 0
  /\ sender = "none" /\ sawEnded = FALSE /\ batch = NoBatch /\ stopping = FALSE
  /\ keeper = FALSE /\ polling = FALSE /\ requested = FALSE
  /\ handed = NoState /\ uploading = NoState
  /\ server = EmptyServer /\ inFlight = {} /\ session = 0 /\ pushed = <<>>
  /\ losses = [dropped |-> 0, refused |-> 0, cut |-> 0, asked |-> 0]
-----------------------------------------------------------------------------
\* The threads of the last session have ended, or StreamThreadStop and StateThreadStop tired
\* of waiting for them and destroyed them, whatever they were doing.  The memory card marker is
\* the first record of the new one.
StartSession ==
  /\ session < MaxSessions /\ (session > 0 => ended)
  /\ queue' = <<Chat>> /\ enqueued' = 2 /\ pushed' = <<Chat>> /\ sequence' = 0
  /\ polling' = FALSE /\ requested' = FALSE /\ handed' = NoState
  /\ ended' = FALSE /\ active' = TRUE
  /\ stopping' = FALSE /\ sender' = "sleep" /\ batch' = NoBatch /\ sawEnded' = FALSE
  /\ keeper' = TRUE /\ uploading' = NoState
  /\ session' = session + 1 /\ server' = EmptyServer /\ inFlight' = {}
  /\ losses' = [losses EXCEPT !.dropped = 0, !.refused = 0, !.cut = 0]

\* A full queue loses its oldest record.
StreamEnqueue(record) ==
  LET full == Len(queue) = QueueCap IN
    /\ queue' = Append(IF full THEN Tail(queue) ELSE queue, record)
    /\ enqueued' = enqueued + (IF full THEN 0 ELSE 1)
    /\ losses' = IF full THEN [losses EXCEPT !.dropped = @ + 1] ELSE losses
    /\ pushed' = Append(pushed, record)

Push ==
  /\ active /\ ~ended /\ Len(pushed) < MaxPushed
  /\ \E record \in {Chat, FrameOf(pushed) + 1} :
       /\ record = Chat => Len(pushed) - FrameOf(pushed) <= MaxLines
       /\ StreamEnqueue(record)
  /\ UNCHANGED <<active, ended, sequence, polling, requested, handed, streamThreads, server, inFlight, session>>

\* The frontend's tick between two frames: it asks whether a state is wanted and hands over
\* what it serializes then, the inputs of all frames pushed so far applied.
UploadState ==
  handed' = [frame |-> FrameOf(pushed), offset |-> enqueued, dropped |-> losses.dropped]
CheckStateRequested ==
  /\ active /\ ~ended
  /\ polling' = TRUE
  /\ IF requested THEN requested' = FALSE /\ UploadState ELSE UNCHANGED <<requested, handed>>
  /\ UNCHANGED <<queue, enqueued, active, ended, sequence, streamThreads, server, inFlight, session, pushed, losses>>

EndSession ==
  /\ active /\ ~ended
  /\ ended' = TRUE
  /\ UNCHANGED <<queue, enqueued, active, sequence, polling, requested, handed, streamThreads,
                 server, inFlight, session, pushed, losses>>

\* kailleraShutdown.  StreamKilled is the destroy() that may follow.
StreamShutdown ==
  /\ session > 0 /\ ~stopping
  /\ ended' = (ended \/ active) /\ stopping' = TRUE
  /\ UNCHANGED <<queue, enqueued, active, sequence, polling, requested, handed, sender, sawEnded, batch,
                 keeper, uploading, server, inFlight, session, pushed, losses>>
StreamKilled ==
  /\ stopping /\ (sender # "none" \/ keeper)
  /\ sender' = "none" /\ keeper' = FALSE /\ uploading' = NoState
  /\ UNCHANGED <<streamHost, sawEnded, batch, stopping, server, inFlight, session, pushed, losses>>
-----------------------------------------------------------------------------
\* StreamThread: it looks at `ended` before it drains, never after.
SenderWake ==
  /\ sender = "sleep"
  /\ IF batch = NoBatch THEN sawEnded' = ended /\ sender' = "drain"
                        ELSE UNCHANGED sawEnded /\ sender' = "post"
  /\ UNCHANGED <<streamHost, batch, stopping, keeper, uploading, server, inFlight, session, pushed, losses>>

\* Where the loop tests stop_requested.
LoopTop == IF stopping THEN "none" ELSE "sleep"

StreamDrain ==
  /\ sender = "drain"
  /\ LET n == IF Len(queue) < BatchCap THEN Len(queue) ELSE BatchCap
         body == (IF sequence = 0 THEN <<Header>> ELSE <<>>) \o SubSeq(queue, 1, n)
     IN /\ queue' = SubSeq(queue, n + 1, Len(queue))
        /\ IF body = <<>> /\ ~sawEnded
             THEN sender' = LoopTop /\ UNCHANGED batch
             ELSE sender' = "post" /\ batch' = [seq |-> sequence, body |-> body, end |-> sawEnded]
        /\ losses' = IF sawEnded THEN [losses EXCEPT !.cut = Len(queue) - n] ELSE losses
  /\ sawEnded' = FALSE
  /\ UNCHANGED <<enqueued, active, ended, sequence, polling, requested, handed, stopping, keeper,
                 uploading, server, inFlight, session, pushed>>

\* HttpPostBytes, from the connection to the last byte sent.
PostBatch ==
  /\ sender = "post" /\ sender' = "reply"
  /\ inFlight' = inFlight \cup {batch}
  /\ UNCHANGED <<streamHost, sawEnded, batch, stopping, keeper, uploading, server, session, pushed, losses>>

RetryAsNew ==                          \* mutant: every post has a sequence number of its own
  /\ sender \in {"post", "reply"} /\ sender' = LoopTop
  /\ sequence' = sequence + 1 /\ batch' = [batch EXCEPT !.seq = @ + 1]
  /\ UNCHANGED <<queue, enqueued, active, ended, polling, requested, handed, sawEnded, stopping, keeper,
                 uploading, server, inFlight, session, pushed, losses>>

\* Its outcomes.  No connection, no reply in time or a reply such as 502 says nothing of what
\* the server has: the same bytes go again under the same sequence number.
Retry ==
  /\ sender \in {"post", "reply"} /\ sender' = LoopTop
  /\ UNCHANGED <<streamHost, sawEnded, batch, stopping, keeper, uploading, server, inFlight, session, pushed, losses>>

NextBatch ==
  /\ sequence' = sequence + 1 /\ batch' = NoBatch
  /\ IF batch.end THEN active' = FALSE /\ sender' = "none" ELSE sender' = LoopTop /\ UNCHANGED active
  /\ UNCHANGED <<queue, enqueued, ended, polling, requested, handed, sawEnded, stopping, keeper, uploading,
                 session, pushed>>
Delivered ==
  /\ sender = "reply" /\ server.last >= batch.seq
  /\ NextBatch /\ UNCHANGED <<server, inFlight, losses>>
BatchRefused ==
  /\ sender = "reply" /\ batch \in inFlight /\ server.last < batch.seq /\ losses.refused < MaxRefused
  /\ inFlight' = inFlight \ {batch}
  /\ losses' = [losses EXCEPT !.refused = @ + 1]
  /\ NextBatch /\ UNCHANGED server

\* The server takes a batch, or knows it by its sequence number and drops the repeat.
ServerTakes ==
  \E post \in inFlight :
    /\ server' = IF post.seq <= server.last THEN server
                 ELSE [server EXCEPT !.file = @ \o post.body, !.last = post.seq, !.closed = post.end]
    /\ inFlight' = inFlight \ {post}
    /\ UNCHANGED <<streamHost, streamThreads, session, pushed, losses>>
-----------------------------------------------------------------------------
\* StateThread.
KeeperRuns == ~stopping /\ active /\ ~ended

KeeperTakes ==
  /\ keeper /\ KeeperRuns /\ uploading = NoState /\ handed # NoState
  /\ uploading' = handed /\ handed' = NoState
  /\ UNCHANGED <<queue, enqueued, active, ended, sequence, polling, requested, sender, sawEnded, batch,
                 stopping, keeper, server, inFlight, session, pushed, losses>>

\* The upload arrives and clears the server's flag, or fails.
KeeperUploads ==
  /\ keeper /\ uploading # NoState /\ uploading' = NoState
  /\ \/ server' = [server EXCEPT !.asked = FALSE, !.state = uploading]
     \/ UNCHANGED server
  /\ UNCHANGED <<streamHost, sender, sawEnded, batch, stopping, keeper, inFlight, session, pushed, losses>>

KeeperPolls ==
  /\ keeper /\ KeeperRuns /\ uploading = NoState /\ handed = NoState
  /\ polling /\ ~requested /\ server.asked
  /\ requested' = TRUE
  /\ UNCHANGED <<queue, enqueued, active, ended, sequence, polling, handed, streamThreads, server, inFlight,
                 session, pushed, losses>>

KeeperEnds ==
  /\ keeper /\ ~KeeperRuns /\ uploading = NoState /\ keeper' = FALSE
  /\ UNCHANGED <<streamHost, sender, sawEnded, batch, stopping, uploading, server, inFlight, session, pushed, losses>>

\* A spectator's n02_watch_request_state.
SpectatorAsks ==
  /\ session > 0 /\ losses.asked < MaxAsked
  /\ server' = [server EXCEPT !.asked = TRUE]
  /\ losses' = [losses EXCEPT !.asked = @ + 1]
  /\ UNCHANGED <<streamHost, streamThreads, inFlight, session, pushed>>
-----------------------------------------------------------------------------
StreamNext ==
  \/ StartSession \/ Push \/ CheckStateRequested \/ EndSession \/ StreamShutdown \/ StreamKilled
  \/ SenderWake \/ StreamDrain \/ PostBatch \/ Retry \/ Delivered \/ BatchRefused \/ ServerTakes
  \/ KeeperTakes \/ KeeperUploads \/ KeeperPolls \/ KeeperEnds \/ SpectatorAsks
StreamSpec == StreamInit /\ [][StreamNext]_streamVars
=============================================================================
