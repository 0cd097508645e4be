---------------------------- MODULE StreamReplay ----------------------------
(***************************************************************************)
(* Response streams and their replay buffer: streaming/replay.py, the SSE  *)
(* endpoint that records and sends frames and the one that replays them    *)
(* (core/router_factory.py).  The buffer's lock is never held across       *)
(* another await, so a record is one step and so is a replay.              *)
(*                                                                         *)
(* A frame's position says which frame of its answer it is; the code keeps *)
(* only the sequence.                                                      *)
(***************************************************************************)
EXTENDS Integers, SequencesExt, FiniteSetsExt, Lists

CONSTANTS
  Stream,            \* stream ids
  Size,              \* the sizes a frame may have
  MaxFrames,         \* max_frames_per_stream
  MaxStreams,
  MaxStreamBytes,    \* max_bytes_per_stream
  MaxTotalBytes,
  Produces,          \* bound: frames an agent produces
  Returning          \* bound: streams whose client may leave and come back

ASSUME StreamReplayAssumption ==
  /\ Size \subseteq Nat \ {0}
  /\ Returning \subseteq Stream
  /\ \A n \in {MaxFrames, MaxStreams, MaxStreamBytes, MaxTotalBytes} : n \in Nat \ {0}

VARIABLES
  buffer,      \* the StreamReplayBuffer
  produced,    \* frames the stream's agent has produced so far
  open,        \* streams whose generator runs
  reader,      \* what the stream's client has: the position and the last id
  reply,       \* what the last replay told its client
  forgotten    \* streams evicted while their generator ran

vars == <<buffer, produced, open, reader, reply, forgotten>>

Init ==
  /\ buffer = [streams |-> <<>>, frames |-> [s \in Stream |-> <<>>],
               bytes |-> [s \in Stream |-> 0], total |-> 0,
               sequences |-> [s \in Stream |-> 0]]
  /\ produced = [s \in Stream |-> 0]
  /\ open = Stream
  /\ reader = [s \in Stream |-> [position |-> 0, id |-> 0, connected |-> TRUE]]
  /\ reply = [found |-> FALSE]
  /\ forgotten = {}

------------------------------------------------------------------------------
(* The buffer.                                                             *)

Measure(frames) == Total([n \in DOMAIN frames |-> frames[n].size])

\* What the n oldest frames of s, or the n oldest streams, take.
Oldest(b, s, n) == Measure(SubSeq(b.frames[s], 1, n))
Taken(b, streams) == Total([k \in DOMAIN streams |-> b.bytes[streams[k]]])
LeastRecent(b, n) == Taken(b, SubSeq(b.streams, 1, n))

DropOldest(b, s, n) ==
  [b EXCEPT !.frames[s] = SubSeq(@, n + 1, Len(@)),
            !.bytes[s] = @ - Oldest(b, s, n),
            !.total = @ - Oldest(b, s, n)]

\* bug: a frame that exceeds the limit alone goes too.
bugTrimStream(b, s, count, limit) ==
  LET length == Len(b.frames[s])
      Fits(n) == length - n <= count /\ b.bytes[s] - Oldest(b, s, n) <= limit
  IN  DropOldest(b, s, Min({n \in 0..length : Fits(n)}))

\* Frames go, oldest first, until the stream fits; the newest is always kept.
TrimStream(b, s, count, limit) ==
  LET length == Len(b.frames[s])
      Fits(n) == length - n <= count /\ b.bytes[s] - Oldest(b, s, n) <= limit
  IN  DropOldest(b, s, Min({n \in 0..(length - 1) : n = length - 1 \/ Fits(n)}))

\* bug: a stream that is evicted goes on counting.
bugForget(b, n) ==
  LET gone == ToSet(SubSeq(b.streams, 1, n))
  IN  [b EXCEPT !.streams = SubSeq(@, n + 1, Len(@)),
                !.frames = [s \in Stream |-> IF s \in gone THEN <<>> ELSE @[s]],
                !.bytes = [s \in Stream |-> IF s \in gone THEN 0 ELSE @[s]],
                !.sequences = [s \in Stream |-> IF s \in gone THEN 0 ELSE @[s]]]

\* The n least recently written streams are forgotten.
Forget(b, n) ==
  LET gone == ToSet(SubSeq(b.streams, 1, n))
  IN  [b EXCEPT !.streams = SubSeq(@, n + 1, Len(@)),
                !.frames = [s \in Stream |-> IF s \in gone THEN <<>> ELSE @[s]],
                !.total = @ - LeastRecent(b, n),
                !.bytes = [s \in Stream |-> IF s \in gone THEN 0 ELSE @[s]],
                !.sequences = [s \in Stream |-> IF s \in gone THEN 0 ELSE @[s]]]

\* Whole streams go, least recently written first, until the buffer fits; when
\* the one just written is alone, its frames.
TrimTotal(b, keep) ==
  LET length == Len(b.streams)
      Fits(n) == length - n <= MaxStreams /\ b.total - LeastRecent(b, n) <= MaxTotalBytes
      evicted == Min({n \in 0..(length - 1) : n = length - 1 \/ Fits(n)})
      rest == Forget(b, evicted)
  IN  IF rest.total > MaxTotalBytes
        THEN TrimStream(rest, keep, Len(rest.frames[keep]), MaxTotalBytes)
        ELSE rest

Appended(b, s, frame) ==
  [b EXCEPT !.streams = Append(Among(@, Stream \ {s}), s),
            !.frames[s] = Append(@, frame),
            !.bytes[s] = @ + frame.size,
            !.total = @ + frame.size,
            !.sequences[s] = frame.sequence]

Record(b, s, frame) == TrimTotal(TrimStream(Appended(b, s, frame), s, MaxFrames, MaxStreamBytes), s)

------------------------------------------------------------------------------
(* The endpoints.                                                          *)

\* The generator records a frame and hands it to the connection; a client that
\* is still there receives it before the generator goes on.
Produce(s) ==
  /\ s \in open /\ produced[s] < Produces
  /\ produced' = [produced EXCEPT ![s] = @ + 1]
  /\ \E size \in Size :
       LET sequence == buffer.sequences[s] + 1
       IN  /\ buffer' = Record(buffer, s, [sequence |-> sequence, position |-> produced'[s],
                                           size |-> size])
           /\ reader' = IF reader[s].connected
                          THEN [reader EXCEPT ![s].position = produced'[s], ![s].id = sequence]
                          ELSE reader
  /\ forgotten' = forgotten \cup {t \in open : buffer'.sequences[t] < buffer.sequences[t]}
  /\ UNCHANGED <<open, reply>>

\* The connection breaks; what the generator produced before it was cancelled
\* is not received.
Disconnect(s) ==
  /\ s \in Returning /\ reader[s].connected
  /\ reader' = [reader EXCEPT ![s].connected = FALSE]
  /\ UNCHANGED <<buffer, produced, open, reply, forgotten>>

\* The answer is complete, failed or suspended, or the cancellation arrives.
Close(s) ==
  /\ s \in open
  /\ open' = open \ {s}
  /\ UNCHANGED <<buffer, produced, reader, reply, forgotten>>

\* bug: one frame too many may be missing.
bugTruncated(b, s, since) == since > 0 /\ b.frames[s][1].sequence > since + 2

Truncated(b, s, since) == since > 0 /\ b.frames[s][1].sequence > since + 1

Since(b, s, since) ==
  Among(b.frames[s], {frame \in ToSet(b.frames[s]) : frame.sequence > since})

\* GET /invoke/stream/{id}: 404 when nothing of the stream is retained.
Replay(s) ==
  /\ s \in Returning /\ ~reader[s].connected
  /\ LET since == reader[s].id
         frames == Since(buffer, s, since)
     IN  IF buffer.frames[s] = <<>>
           THEN reply' = [found |-> FALSE] /\ UNCHANGED reader
           ELSE /\ reply' = [found |-> TRUE, stream |-> s, since |-> reader[s].position,
                             now |-> produced[s], truncated |-> Truncated(buffer, s, since),
                             positions |-> [n \in DOMAIN frames |-> frames[n].position]]
                /\ reader' = IF frames = <<>> THEN reader
                               ELSE [reader EXCEPT ![s].position = Last(frames).position,
                                                   ![s].id = Last(frames).sequence]
  /\ UNCHANGED <<buffer, produced, open, forgotten>>

Next == \E s \in Stream : Produce(s) \/ Disconnect(s) \/ Close(s) \/ Replay(s)

Spec == Init /\ [][Next]_vars

------------------------------------------------------------------------------
(* Properties.                                                             *)

\* The buffer's counts are what its frames measure, and they keep to the
\* ceilings: a stream that exceeds one holds a single frame, and the buffer
\* exceeds its own with a single frame only ("the accounting would drift
\* upwards until nothing could be retained at all").
BudgetKept ==
  LET retained == {s \in Stream : buffer.frames[s] # <<>>}
      Alone(s) == Len(buffer.frames[s]) = 1
  IN  /\ ToSet(buffer.streams) = retained
      /\ \A i, j \in DOMAIN buffer.streams : buffer.streams[i] = buffer.streams[j] => i = j
      /\ \A s \in Stream : buffer.bytes[s] = Measure(buffer.frames[s])
      /\ buffer.total = Taken(buffer, buffer.streams)
      /\ Len(buffer.streams) <= MaxStreams
      /\ \A s \in retained : /\ Len(buffer.frames[s]) <= MaxFrames
                             /\ buffer.bytes[s] <= MaxStreamBytes \/ Alone(s)
      /\ buffer.total <= MaxTotalBytes \/ \E s \in Stream : buffer.streams = <<s>> /\ Alone(s)

\* A client that received frames and asks again is told "truncated" exactly
\* when frames after its last are gone, and the frames it is sent are all that
\* are retained, in order; unless the stream was evicted while it ran.
ReplayIsHonest ==
  reply.found =>
    LET missing == (reply.now - reply.since) - Len(reply.positions)
    IN  reply.stream \in forgotten \/
          /\ \A n \in DOMAIN reply.positions :
               reply.positions[n] = reply.now - Len(reply.positions) + n
          /\ reply.since > 0 => (reply.truncated <=> missing > 0)

\* The frame just produced is retained, whatever its size and whatever it
\* pushes out ("The newest frame is always kept").
NewestIsRetained ==
  [][\A s \in Stream : produced'[s] # produced[s] =>
       /\ buffer'.frames[s] # <<>>
       /\ Last(buffer'.frames[s]).position = produced'[s]]_vars

\* StreamFrame.sequence: "Position in the stream, from 1, with no gaps."
SequenceIsPosition ==
  \A s \in Stream : \A n \in DOMAIN buffer.frames[s] :
    buffer.frames[s][n].sequence = buffer.frames[s][n].position
=============================================================================
