----------------------------- MODULE EventStream -----------------------------
(***************************************************************************)
(* One session's log as its readers see it: NOTIFY and the API's fan-out   *)
(* (apps/api/src/sse.ts, EventBus), the stream of one request              *)
(* (runSseStream), the wire, and the browser's EventSource that resumes    *)
(* with Last-Event-ID (routes/sessions.ts 102-123, web lib/api.ts          *)
(* streamEvents).  Events are never lost or reordered in the log; readers  *)
(* come to it by a wake-up that may be, and at their own cursor.           *)
(*                                                                         *)
(* A broken connection is seen by the browser at once and by the server    *)
(* later, so the stream of the last request may still run beside the next  *)
(* one.  One page and its browser are modelled; another reader is another  *)
(* instance.                                                               *)
(***************************************************************************)
EXTENDS Naturals, Sequences

CONSTANTS
  Types,      \* types of events
  Streams,    \* requests that the API serves at the same time
  PageSize,   \* events in a page, 500 in the code
  MaxFaults,  \* bound: faults that happen
  MaxLog,     \* bound: events in the log and faults together
  FaultKinds  \* the kinds they are of, among the arguments of Strikes

ASSUME EventStreamAssumption ==
  PageSize \in Nat \ {0} /\ MaxLog \in Nat /\ MaxFaults \in Nat

VARIABLES
  log,      \* session_events, a sequence of types
  bell,     \* a notification is on its way to the API's LISTEN connection
  streams,  \* the calls of runSseStream
  source,   \* the EventSource: its state, its request and the last id it got
  wire,     \* ids the open request has written and the browser has not read
  faults    \* how many faults there were, and which of those a property excuses

Excuses == {"notify"}

streamVars == <<log, bell, streams, source, wire, faults>>

-----------------------------------------------------------------------------
Free == [pc |-> "none", cursor |-> 0, notified |-> FALSE,
         alive |-> FALSE, stopped |-> FALSE]

StreamInit ==
  /\ log = <<>> /\ bell = FALSE
  /\ streams = [s \in Streams |-> Free]
  /\ source = [state |-> "connecting", stream |-> {}, last |-> 0]
  /\ wire = <<>> /\ faults = [count |-> 0, excuses |-> {}]

EventLeft == Len(log) + faults.count < MaxLog

Strikes(kind) ==
  /\ kind \in FaultKinds /\ faults.count < MaxFaults /\ EventLeft
  /\ faults' = [count |-> faults.count + 1,
                excuses |-> faults.excuses \cup ({kind} \cap Excuses)]

Struck(kind) == kind \in faults.excuses

\* The insert and its NOTIFY are one transaction.
Appended(type) ==
  /\ EventLeft
  /\ log' = Append(log, type) /\ bell' = TRUE
  /\ UNCHANGED <<streams, source, wire, faults>>

-----------------------------------------------------------------------------
(* The fan-out.                                                             *)

\* Mutant: a stream subscribes when its replay is over.
SubscribedLate(stream) == stream.pc = "wait"

\* From the first line of runSseStream to its cleanup.
Subscribed(stream) == stream.pc # "none" /\ ~stream.stopped

\* The stream's signal: an idle wait takes the flag with it.
Signalled(stream) ==
  IF stream.pc = "wait" THEN [stream EXCEPT !.pc = "read", !.notified = FALSE]
  ELSE [stream EXCEPT !.notified = TRUE]

Notify ==
  /\ bell /\ bell' = FALSE
  /\ streams' = [s \in Streams |->
       IF Subscribed(streams[s]) THEN Signalled(streams[s]) ELSE streams[s]]
  /\ UNCHANGED <<log, source, wire, faults>>

\* The connection went silent for this one.
LoseNotify ==
  /\ bell /\ Strikes("notify") /\ bell' = FALSE
  /\ UNCHANGED <<log, streams, source, wire>>

-----------------------------------------------------------------------------
(* The requests.                                                            *)

\* The names of requests are interchangeable: a new one takes the first free.
FirstFree == CHOOSE s \in Streams : streams[s] = Free

Opened(s, cursor) ==
  [Free EXCEPT !.pc = "read", !.cursor = cursor, !.alive = TRUE]

\* Mutant: a request starts at the end of the log.
ConnectAtTail(s) ==
  /\ source.state = "connecting" /\ streams[s] = Free /\ s = FirstFree
  /\ streams' = [streams EXCEPT ![s] = Opened(s, IF source.last = 0 THEN 0 ELSE Len(log))]
  /\ source' = [source EXCEPT !.state = "open", !.stream = {s}]
  /\ UNCHANGED <<log, bell, wire, faults>>

\* GET .../events/stream: subscribed, then at the read; the cursor is
\* Last-Event-ID, which the browser sends once it has one.
Connect(s) ==
  /\ source.state = "connecting" /\ streams[s] = Free /\ s = FirstFree
  /\ streams' = [streams EXCEPT ![s] = Opened(s, source.last)]
  /\ source' = [source EXCEPT !.state = "open", !.stream = {s}]
  /\ UNCHANGED <<log, bell, wire, faults>>

\* Any other answer than 200 (the look-up of the session throws): an
\* EventSource does not try again.
Refuse ==
  /\ source.state = "connecting" /\ Strikes("refuse")
  /\ source' = [source EXCEPT !.state = "closed"]
  /\ UNCHANGED <<log, bell, streams, wire>>

\* The connection breaks: what was under way is lost.
Cut ==
  /\ source.state = "open" /\ Strikes("wire")
  /\ streams' = [s \in Streams |->
       IF s \in source.stream THEN [streams[s] EXCEPT !.alive = FALSE] ELSE streams[s]]
  /\ source' = [source EXCEPT !.state = "connecting", !.stream = {}]
  /\ wire' = <<>>
  /\ UNCHANGED <<log, bell>>

\* The API's process ends, with its streams and its LISTEN connection.
Restart ==
  /\ Strikes("restart")
  /\ streams' = [s \in Streams |-> Free]
  /\ source' = [source EXCEPT !.state = IF @ = "open" THEN "connecting" ELSE @, !.stream = {}]
  /\ bell' = FALSE /\ wire' = <<>>
  /\ UNCHANGED log

\* The page is opened anew, and asks for the log from its beginning.
Reopen ==
  /\ Strikes("reopen")
  /\ streams' = [s \in Streams |->
       IF s \in source.stream THEN [streams[s] EXCEPT !.alive = FALSE] ELSE streams[s]]
  /\ source' = [state |-> "connecting", stream |-> {}, last |-> 0]
  /\ wire' = <<>>
  /\ UNCHANGED <<log, bell>>

\* The server notices: cleanup unsubscribes and wakes the loop.
Abort(s) ==
  /\ streams[s].pc # "none" /\ ~streams[s].alive /\ ~streams[s].stopped
  /\ streams' = [streams EXCEPT ![s] =
       IF @.pc = "wait" THEN Free
       ELSE [@ EXCEPT !.stopped = TRUE, !.notified = TRUE]]
  /\ UNCHANGED <<log, bell, source, wire, faults>>

-----------------------------------------------------------------------------
(* runSseStream.                                                            *)

Ids(from, n) == [i \in 1 .. n |-> from + i]

\* readPage and the writes: the events behind the cursor, one row more than the
\* page telling of more.  What a break in the middle leaves unsent was on a wire
\* that is lost, and nothing is sent to a browser that is gone.
Flush(s) ==
  LET n == IF Len(log) < streams[s].cursor + PageSize
           THEN Len(log) - streams[s].cursor ELSE PageSize
  IN  /\ streams[s].pc = "read"
      /\ streams' = [streams EXCEPT ![s].cursor = @ + n,
           ![s].pc = IF n < Len(log) - streams[s].cursor THEN "read" ELSE "flushed"]
      /\ wire' = IF streams[s].alive THEN wire \o Ids(streams[s].cursor, n) ELSE wire
      /\ UNCHANGED <<log, bell, source, faults>>

\* The read throws: finally cleans up and the response ends.
ReadThrows(s) ==
  /\ streams[s].pc = "read" /\ Strikes("read")
  /\ streams' = [streams EXCEPT ![s] = Free]
  /\ UNCHANGED <<log, bell, source, wire>>

\* Mutant: the loop goes on whoever is still there.
FlushForever(s) ==
  /\ streams[s].pc = "flushed"
  /\ streams' = [streams EXCEPT ![s] =
       IF @.notified THEN [@ EXCEPT !.pc = "read", !.notified = FALSE]
       ELSE [@ EXCEPT !.pc = "wait"]]
  /\ UNCHANGED <<log, bell, source, wire, faults>>

\* The last page is out: the end, another flush or the wait.
Flushed(s) ==
  /\ streams[s].pc = "flushed"
  /\ streams' = [streams EXCEPT ![s] =
       IF @.stopped THEN Free
       ELSE IF @.notified THEN [@ EXCEPT !.pc = "read", !.notified = FALSE]
       ELSE [@ EXCEPT !.pc = "wait"]]
  /\ UNCHANGED <<log, bell, source, wire, faults>>

\* Mutant: the heartbeat writes its comment and reads nothing.
HeartbeatOnly(s) ==
  /\ streams[s].pc = "wait"
  /\ UNCHANGED streamVars

\* 15 s without a wake-up: a comment, and another flush.
Heartbeat(s) ==
  /\ streams[s].pc = "wait"
  /\ streams' = [streams EXCEPT ![s].pc = "read"]
  /\ UNCHANGED <<log, bell, source, wire, faults>>

-----------------------------------------------------------------------------
(* The browser.                                                             *)

Receive ==
  /\ wire # <<>>
  /\ source' = [source EXCEPT !.last = Head(wire)]
  /\ wire' = Tail(wire)
  /\ UNCHANGED <<log, bell, streams, faults>>

\* The response has ended: connect again.
HangUp ==
  /\ source.state = "open" /\ wire = <<>>
  /\ \A s \in source.stream : streams[s].pc = "none"
  /\ source' = [source EXCEPT !.state = "connecting", !.stream = {}]
  /\ UNCHANGED <<log, bell, streams, wire, faults>>

-----------------------------------------------------------------------------
Serve(s) ==
  \/ Connect(s) \/ Abort(s) \/ Flush(s) \/ Flushed(s) \/ Heartbeat(s)

Browse == Receive \/ HangUp

StreamFault ==
  \/ LoseNotify \/ Refuse \/ Cut \/ Restart \/ \E s \in Streams : ReadThrows(s)

\* All that happens to a log once it is written, on a page that stays.
StreamNext ==
  \/ Notify \/ Browse \/ StreamFault \/ \E s \in Streams : Serve(s)

StreamStep == (\E type \in Types : Appended(type)) \/ StreamNext \/ Reopen

StreamSpec == StreamInit /\ [][StreamStep]_streamVars

-----------------------------------------------------------------------------
(* Properties.                                                              *)

Stream == [pc : {"none", "read", "flushed", "wait"}, cursor : Nat,
           notified : BOOLEAN, alive : BOOLEAN, stopped : BOOLEAN]

\* The type invariant.
StreamTypeOK ==
  /\ log \in Seq(Types) /\ bell \in BOOLEAN
  /\ streams \in [Streams -> Stream]
  /\ source \in [state : {"connecting", "open", "closed"}, stream : SUBSET Streams,
                 last : Nat]
  /\ wire \in Seq(Nat) /\ faults \in [count : 0 .. MaxFaults, excuses : SUBSET Excuses]

\* What the browser has, what is on the wire and what the request will read next
\* are one run of ids without a gap or a repetition, whichever request wrote
\* them and however many were cut (sse.ts 3-8 "never loses an event").
StreamIsDense ==
  /\ \A i \in DOMAIN wire : wire[i] = source.last + i
  /\ \A s \in source.stream : streams[s].alive =>
       streams[s].cursor = source.last + Len(wire)
  /\ source.last + Len(wire) <= Len(log)

\* A stream goes to sleep only when it has written the whole log, unless a
\* notification is still on its way to it: subscribing before the replay leaves
\* no window (sse.ts 101-104).
PromptStream ==
  \A s \in Streams :
    streams[s].pc = "wait" /\ ~bell /\ ~Struck("notify") => streams[s].cursor = Len(log)

\* A request whose browser is gone leaves nothing behind (sse.ts 46-47 "Every
\* subscribe() MUST be paired with its unsubscribe()").
StreamsEnd == []<>(\A s \in Streams : streams[s].pc = "none" \/ streams[s].alive)
=============================================================================
