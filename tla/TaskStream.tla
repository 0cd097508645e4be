------------------------------ MODULE TaskStream ------------------------------
(***************************************************************************)
(* The resumable progress stream of one task: TaskManager._emit and        *)
(* subscribe (agentomatic/tasks/manager.py) on one side, the SSE generator *)
(* stream_events (agentomatic/tasks/routes.py) on the other, over the      *)
(* bounded history of TaskEventLog. Clients lose their connection at any   *)
(* frame and come back with the last id they saw. Other tasks write to the *)
(* same log and may push this task's history out of it.                    *)
(***************************************************************************)
EXTENDS TaskEventLog

CONSTANTS
  Client,
  Observed,      \* the task being streamed
  Size,          \* sizes an event may have
  QueueSize,     \* maxsize of a subscriber queue
  AsyncBackends, \* TRUE: the store's and the log's awaits suspend
  MaxSequence,   \* bound: events the task emits
  MaxNoise,      \* bound: events each other task emits
  MaxDrops       \* bound: lost connections

ASSUME TaskStreamAssumption ==
  /\ Observed \in Task
  /\ Size \subseteq Nat \ {0}
  /\ {QueueSize, MaxSequence} \subseteq Nat \ {0}
  /\ {MaxNoise, MaxDrops} \subseteq Nat
  /\ AsyncBackends \in BOOLEAN

VARIABLES
  saved,       \* states of the record saved so far; each is then emitted
  emitted,     \* _sequences: events appended to the log
  fanned,      \* events handed to the live queues
  finished,    \* is the stored record terminal?
  noise,       \* _sequences of the other tasks
  forgotten,   \* history: has the log ever lost this task's whole bucket?
  conn,        \* where each client's generator stands
  queue,       \* its live queue
  resumeFrom,  \* Last-Event-ID the connection was opened with
  cursor,      \* cursor of the generator
  replay,      \* frames of the resumption not yet sent
  cut,         \* does the resumption announce a truncated history?
  lastId,      \* client: id of the last frame received
  delivered,   \* client: sequences of the events received
  covered,     \* client: events up to here are reflected by a snapshot or were
               \*         announced as truncated
  informed,    \* client: has it been shown the terminal status?
  drops        \* connections lost

producer == <<saved, emitted, fanned, finished>>
generator == <<queue, resumeFrom, cursor, replay, cut>>
received == <<lastId, delivered, covered, informed>>
vars == <<logVars, producer, noise, forgotten, conn, generator, received, drops>>

Neighbour == Task \ {Observed}

\* A generator at one of these awaits a backend; at "replaying" and "live" it
\* has yielded a frame or waits for its queue.
Reading == {"subscribed", "resuming", "snapshot"}
Connected == Reading \cup {"replaying", "live"}

\* Backends that do not suspend let nobody in between a save and the broadcast
\* of its event, or between a generator's reads.
NoEmission == AsyncBackends \/ saved = fanned
NoReader(others) == AsyncBackends \/ \A c \in others : conn[c] \notin Reading
Turn(c) == NoEmission /\ NoReader(Client \ {c})

Init ==
  /\ LogInit
  /\ saved = 0 /\ emitted = 0 /\ fanned = 0 /\ finished = FALSE
  /\ noise = [t \in Neighbour |-> 0] /\ forgotten = FALSE /\ drops = 0
  /\ conn = [c \in Client |-> "off"]
  /\ queue = [c \in Client |-> <<>>]
  /\ resumeFrom = [c \in Client |-> 0]
  /\ cursor = [c \in Client |-> 0]
  /\ replay = [c \in Client |-> <<>>]
  /\ cut = [c \in Client |-> FALSE]
  /\ lastId = [c \in Client |-> 0]
  /\ delivered = [c \in Client |-> {}]
  /\ covered = [c \in Client |-> 0]
  /\ informed = [c \in Client |-> FALSE]

------------------------------------------------------------------------------
(* The task: every state is saved, then appended to the log, then put on   *)
(* the live queues (report and _finalize call save before _emit).          *)

Save(last) ==
  /\ saved = fanned /\ ~finished
  /\ NoReader(Client)
  /\ last \/ saved + 1 < MaxSequence
  /\ saved' = saved + 1
  /\ finished' = last
  /\ UNCHANGED <<emitted, fanned, logVars, noise, forgotten, conn, generator, received, drops>>

DueAlways == emitted <= saved         \* bug: an event without a new state
Due == emitted < saved

EmitAppend(size) ==
  /\ Due
  /\ emitted' = emitted + 1
  /\ Record(Observed, [sequence |-> emitted + 1, final |-> finished, size |-> size])
  /\ UNCHANGED <<saved, fanned, finished, noise, forgotten, conn, generator, received, drops>>

\* put_nowait: a full queue drops the event.
EmitFanOut ==
  /\ fanned < emitted
  /\ fanned' = fanned + 1
  /\ LET event == [sequence |-> fanned + 1, final |-> finished] IN
       queue' = [c \in Client |->
                   IF conn[c] \in Connected /\ Len(queue[c]) < QueueSize
                   THEN Append(queue[c], event) ELSE queue[c]]
  /\ UNCHANGED <<saved, emitted, finished, logVars, noise, forgotten, conn>>
  /\ UNCHANGED <<resumeFrom, cursor, replay, cut, received, drops>>

OtherTaskEmits(t, size) ==
  /\ NoEmission /\ NoReader(Client)
  /\ noise[t] < MaxNoise
  /\ noise' = [noise EXCEPT ![t] = @ + 1]
  /\ Record(t, [sequence |-> noise[t] + 1, final |-> FALSE, size |-> size])
  /\ forgotten' = (forgotten \/ (events[Observed] # <<>> /\ events'[Observed] = <<>>))
  /\ UNCHANGED <<producer, conn, generator, received, drops>>

------------------------------------------------------------------------------
(* stream_events, from one await or yield to the next.                     *)

\* GET /{id}/events: subscribe before reading the history.
Connect(c) ==
  /\ conn[c] = "off"
  /\ Turn(c)
  /\ saved > 0
  /\ conn' = [conn EXCEPT ![c] = "subscribed"]
  /\ resumeFrom' = [resumeFrom EXCEPT ![c] = lastId[c]]
  /\ queue' = [queue EXCEPT ![c] = <<>>]
  /\ UNCHANGED <<cursor, replay, cut, logVars, producer, noise, forgotten, received, drops>>

\* A new client starts at the high-water mark of the log.
ReadLatest(c) ==
  /\ conn[c] = "subscribed" /\ resumeFrom[c] = 0
  /\ Turn(c)
  /\ cursor' = [cursor EXCEPT ![c] = Latest(Observed)]
  /\ replay' = [replay EXCEPT ![c] = <<>>]
  /\ cut' = [cut EXCEPT ![c] = FALSE]
  /\ conn' = [conn EXCEPT ![c] = "snapshot"]
  /\ UNCHANGED <<queue, resumeFrom, logVars, producer, noise, forgotten, received, drops>>

\* manager.resume for a client that comes back: the missed events...
ReadHistory(c) ==
  /\ conn[c] = "subscribed" /\ resumeFrom[c] > 0
  /\ Turn(c)
  /\ replay' = [replay EXCEPT ![c] = Replay(Observed, resumeFrom[c])]
  /\ conn' = [conn EXCEPT ![c] = "resuming"]
  /\ UNCHANGED <<queue, resumeFrom, cursor, cut>>
  /\ UNCHANGED <<logVars, producer, noise, forgotten, received, drops>>

\* ...and then the oldest one retained. The truncated frame goes out at once.
ReadEarliest(c) ==
  /\ conn[c] = "resuming"
  /\ Turn(c)
  /\ LET truncated == Truncated(Observed, resumeFrom[c]) IN
       /\ cut' = [cut EXCEPT ![c] = truncated]
       /\ cursor' = [cursor EXCEPT ![c] = CaughtUpTo(replay[c], resumeFrom[c])]
       /\ covered' = IF truncated THEN [covered EXCEPT ![c] = Earliest(Observed) - 1]
                     ELSE covered
       /\ conn' = [conn EXCEPT ![c] = IF truncated \/ replay[c] # <<>>
                                      THEN "replaying" ELSE "snapshot"]
  /\ UNCHANGED <<queue, resumeFrom, replay, lastId, delivered, informed>>
  /\ UNCHANGED <<logVars, producer, noise, forgotten, drops>>

SendEvent(c, event) ==
  /\ lastId' = [lastId EXCEPT ![c] = event.sequence]
  /\ delivered' = [delivered EXCEPT ![c] = @ \cup {event.sequence}]
  /\ informed' = [informed EXCEPT ![c] = @ \/ event.final]
  /\ UNCHANGED covered

SendReplay(c) ==
  /\ conn[c] = "replaying"
  /\ Turn(c)
  /\ IF replay[c] = <<>>
     THEN /\ conn' = [conn EXCEPT ![c] = "snapshot"]
          /\ UNCHANGED <<replay, received>>
     ELSE /\ SendEvent(c, Head(replay[c]))
          /\ replay' = [replay EXCEPT ![c] = Tail(@)]
          /\ UNCHANGED conn
  /\ UNCHANGED <<queue, resumeFrom, cursor, cut>>
  /\ UNCHANGED <<logVars, producer, noise, forgotten, drops>>

\* manager.get: sent to a new or truncated client; a terminal record ends the
\* stream either way.
SnapshotIfCut(c) == cut[c]            \* bug: a new client gets no snapshot
SnapshotSent(c) == resumeFrom[c] = 0 \/ cut[c]

Snapshot(c) ==
  /\ conn[c] = "snapshot"
  /\ Turn(c)
  /\ IF SnapshotSent(c)
     THEN /\ lastId' = [lastId EXCEPT ![c] = cursor[c]]
          /\ covered' = [covered EXCEPT ![c] = saved]
          /\ informed' = [informed EXCEPT ![c] = @ \/ finished]
          /\ UNCHANGED delivered
     ELSE UNCHANGED received
  /\ conn' = [conn EXCEPT ![c] = IF finished THEN "done" ELSE "live"]
  /\ UNCHANGED <<generator, logVars, producer, noise, forgotten, drops>>

\* Replay and live queue overlap: what was sent already is skipped.
NeverSkipped(c, event) == FALSE       \* bug: no overlap check
SkippedOneAhead(c, event) == event.sequence <= cursor[c] + 1   \* bug: off by one
AlreadySent(c, event) == event.sequence <= cursor[c]

SendLive(c) ==
  /\ conn[c] = "live"
  /\ Turn(c)
  /\ queue[c] # <<>>
  /\ LET event == Head(queue[c]) IN
       IF AlreadySent(c, event)
       THEN UNCHANGED <<cursor, received, conn>>
       ELSE /\ cursor' = [cursor EXCEPT ![c] = event.sequence]
            /\ SendEvent(c, event)
            /\ conn' = [conn EXCEPT ![c] = IF event.final THEN "done" ELSE "live"]
  /\ queue' = [queue EXCEPT ![c] = Tail(@)]
  /\ UNCHANGED <<resumeFrom, replay, cut, logVars, producer, noise, forgotten, drops>>

\* The connection is lost; the finally clause unsubscribes.
Drop(c) ==
  /\ conn[c] \in Connected
  /\ NoEmission /\ NoReader(Client)
  /\ drops < MaxDrops
  /\ drops' = drops + 1
  /\ conn' = [conn EXCEPT ![c] = "off"]
  /\ queue' = [queue EXCEPT ![c] = <<>>]
  /\ resumeFrom' = [resumeFrom EXCEPT ![c] = 0]
  /\ cursor' = [cursor EXCEPT ![c] = 0]
  /\ replay' = [replay EXCEPT ![c] = <<>>]
  /\ cut' = [cut EXCEPT ![c] = FALSE]
  /\ UNCHANGED <<received, logVars, producer, noise, forgotten>>

------------------------------------------------------------------------------
Emit == EmitFanOut \/ \E size \in Size : EmitAppend(size)
Serve(c) ==
  ReadLatest(c) \/ ReadHistory(c) \/ ReadEarliest(c) \/ SendReplay(c) \/ Snapshot(c) \/ SendLive(c)

Next ==
  \/ Save(TRUE) \/ Save(FALSE) \/ Emit
  \/ \E t \in Neighbour, size \in Size : OtherTaskEmits(t, size)
  \/ \E c \in Client : Connect(c) \/ Serve(c) \/ Drop(c)

(* What was saved is broadcast, and the loop runs the generators; nothing  *)
(* makes the task end or a client come back.                               *)
Fairness == WF_vars(Emit) /\ \A c \in Client : WF_vars(Serve(c))

Spec == Init /\ [][Next]_vars /\ Fairness

------------------------------------------------------------------------------
TypeOK ==
  /\ saved \in 0..MaxSequence /\ emitted \in 0..saved /\ fanned \in 0..emitted
  /\ conn \in [Client -> Connected \cup {"off", "done"}]
  /\ lastId \in [Client -> 0..MaxSequence]
  /\ cursor \in [Client -> 0..MaxSequence]
  /\ delivered \in [Client -> SUBSET (1..MaxSequence)]
  /\ covered \in [Client -> 0..MaxSequence]

\* The last number given to an event of t.
Newest(t) == IF t = Observed THEN emitted ELSE noise[t]

(* Whatever was evicted, what is left of a task is an unbroken run of      *)
(* sequence numbers that ends with its newest event: the truncation test,  *)
(* which looks at the oldest one only, depends on it.                      *)
HistoryContiguous ==
  \A t \in Task : \A i \in 1..Len(events[t]) :
    events[t][i].sequence = Newest(t) - Len(events[t]) + i

\* Every event up to the client's id was received, is reflected by a snapshot
\* it got, or was announced as truncated.
GapFree(c) == \A n \in 1..lastId[c] : n \in delivered[c] \/ n <= covered[c]

(* routes.py:197-200: "When a resume point has already been evicted the    *)
(* stream says so in a truncated frame [...] so a client is never left     *)
(* believing it has a complete history".                                   *)
NoSilentGap == \A c \in Client : GapFree(c)

(* As long as the task keeps a place in the log: however often the client  *)
(* loses its connection, and wherever, replay, snapshot and live queue     *)
(* join without losing an event.                                           *)
NoSilentGapWhileRetained == ~forgotten => NoSilentGap

(* The ids a client sees never go back, across all of its connections:     *)
(* what it was sent is not sent again.                                     *)
IdsNeverGoBack == [][\A c \in Client : lastId'[c] >= lastId[c]]_vars

(* Once the task is over a connection that is not lost comes to an end:    *)
(* the outcome reaches the generator by its snapshot or by its queue.      *)
StreamEnds ==
  \A c \in Client : finished /\ conn[c] \in Connected ~> conn[c] \in {"off", "done"}

(* A stream opened without a resume point does not say [DONE] before it    *)
(* has shown the outcome.                                                  *)
FreshStreamInformed == \A c \in Client : conn[c] = "done" /\ resumeFrom[c] = 0 => informed[c]

(* routes.py:193-195: "A client that loses the connection reconnects and   *)
(* is sent the events it missed": a stream that said [DONE] has shown the  *)
(* outcome, resumed or not.                                                *)
StreamInformed == \A c \in Client : conn[c] = "done" => informed[c]
==============================================================================
