---------------------------- MODULE LiveStreamProps ----------------------------
\* What a spectator may rely on in the server's file of a stream.
EXTENDS LiveStream

Whole == <<Header>> \o pushed
Lossless == losses.dropped = 0 /\ losses.refused = 0

\* Everything the file will hold if nothing else is lost.
Eventual ==
  server.file \o (IF batch # NoBatch /\ server.last < batch.seq THEN batch.body
                  ELSE IF sequence = 0 /\ batch = NoBatch THEN <<Header>> ELSE <<>>) \o queue

\* The server's file is the header and the records in the order they were pushed, each once,
\* whatever was posted again after a lost answer or arrived late; and it is all of them once the
\* stream is marked as finished, when what was left fitted in one batch: the last batch is not
\* drained before the end it announces.
FileIsRight ==
  Lossless => /\ IsPrefix(server.file, Whole)
              /\ (server.closed /\ losses.cut = 0) => server.file = Whole

\* "Frame-exact": the offset a spectator resumes from with a downloaded state separates exactly
\* the inputs the state has applied from the others, wherever those records are at the moment, as
\* long as no batch was refused and no record overwritten after the state was taken.
StateIsExact ==
  (server.state # NoState /\ losses.refused = 0 /\ server.state.dropped = losses.dropped) =>
    \A i \in DOMAIN Eventual :
      Eventual[i] > 0 => (i <= server.state.offset <=> Eventual[i] <= server.state.frame)

\* A spectator sees the game that is played: the file and the offset are both right.
StreamIsExact == FileIsRight /\ StateIsExact
=============================================================================
