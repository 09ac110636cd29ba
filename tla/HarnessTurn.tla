----------------------------- MODULE HarnessTurn ----------------------------
(***************************************************************************)
(* The turns of a session whose agent runs inside a vendor harness         *)
(* (harness-strategy.ts, the Claude Code driver claude-code.ts and its     *)
(* transcript store claude-code-store.ts).  The vendor's binary decides    *)
(* what happens next; the strategy fences the attempt, settles what an     *)
(* earlier attempt left open, journals each command before it runs,        *)
(* mirrors the transcript and commits.                                     *)
(*                                                                         *)
(* Unlike the native loop, one attempt has three threads on one copy of    *)
(* the log: the turn itself, the exec tool's handlers and the projection   *)
(* of assistant text.  The handlers and the projection append through a    *)
(* chain (one append in flight at a time); the terminal event is appended  *)
(* beside it.  An append fixes its seq when it is issued and takes effect  *)
(* later.  The session is ready and the shell's gate passed; the queue is  *)
(* the one of TurnRuntime, for the one row that the session has.           *)
(***************************************************************************)
EXTENDS Naturals, Sequences, FiniteSets

CONSTANTS
  Slots,        \* in-flight handle(job) calls, over all workers
  MaxAttempts,  \* turn_jobs.max_attempts
  MaxMessages,  \* bound: messages the user sends
  MaxOutput,    \* bound: texts and tool calls of the vendor, over all attempts
  Anonymous,    \* the entries of an attempt, by number, that carry no uuid
  MaxFaults,    \* bound: faults that happen
  FaultKinds    \* the kinds they are of, among "crash", "stall", "db"

ASSUME HarnessAssumption ==
  /\ MaxAttempts \in Nat \ {0} /\ MaxMessages \in Nat /\ MaxOutput \in Nat
  /\ Anonymous \subseteq Nat
  /\ MaxFaults \in Nat /\ FaultKinds \subseteq {"crash", "stall", "db"}

VARIABLES
  log,         \* session_events
  session,     \* sessions.harness_attempt and harness_state, 0: null
  transcript,  \* harness_transcript_entries, by ord
  job,         \* the turn_jobs row of the last message
  slots,       \* what each handle(job) holds in memory
  started, finished,  \* idemKeys whose command was spawned; has its exit code
  faults,      \* the faults so far
  stray,       \* an append took effect that its turn did not wait for
  spoken       \* texts and tool calls so far

vars == <<log, session, transcript, job, slots, started, finished, faults, stray, spoken>>

-----------------------------------------------------------------------------
(* Events.  A key is the seq of the call it names; "by" is the attempt that *)
(* wrote the event, an attempt being named by the seq of its event.         *)

\* SANDBOX_FATAL and INTERNAL, the shell's own classes, are one here.
FailClass == {"HARNESS", "BUDGET", "INTERNAL"}
EventType == {"user_message", "harness_attempt_started", "text", "call",
              "tool_result", "turn_completed", "turn_failed"}
Event == [type : EventType, key : Nat, class : FailClass \cup {"none"}, by : Nat]

Bare(type, by) == [type |-> type, key |-> 0, class |-> "none", by |-> by]
UserMessage == Bare("user_message", 0)
Started(token) == Bare("harness_attempt_started", token)
ToolResult(k, by) == [Bare("tool_result", by) EXCEPT !.key = k]
Failed(class, by) == [Bare("turn_failed", by) EXCEPT !.class = class]
Completed(entries, by) == [Bare("turn_completed", by) EXCEPT !.key = entries]

Terminal == {"turn_completed", "turn_failed"}

LastAt(l, types) ==
  LET at == {i \in DOMAIN l : l[i].type \in types}
  IN  IF at = {} THEN 0 ELSE CHOOSE i \in at : \A j \in at : j <= i

OpenTurn == LastAt(log, {"user_message"}) > LastAt(log, Terminal)

\* Calls of this turn that have no result in the log.
Unanswered(mem) ==
  {k \in DOMAIN mem :
     /\ k > LastAt(mem, {"user_message"}) /\ mem[k].type = "call"
     /\ ~\E r \in DOMAIN mem : mem[r].type = "tool_result" /\ mem[r].key = k}

-----------------------------------------------------------------------------
NoJob == [id |-> 0, state |-> "none", attempts |-> 0, lease |-> FALSE]

Idle == [pc |-> "idle", job |-> 0, last |-> FALSE, mem |-> <<>>, token |-> 0,
         told |-> {}, key |-> 0, chain |-> <<>>, seq |-> 0, execs |-> {},
         local |-> 0, sent |-> 0, mirror |-> "ok", fatal |-> "none",
         goal |-> UserMessage, end |-> 0, outcome |-> "none"]

Init ==
  /\ log = <<>> /\ transcript = <<>>
  /\ session = [fence |-> 0, state |-> 0]
  /\ job = NoJob
  /\ slots = [s \in Slots |-> Idle]
  /\ started = {} /\ finished = {}
  /\ faults = <<>>
  /\ stray = FALSE /\ spoken = 0

NextSeq(s) == Len(slots[s].mem) + 1

\* Nothing refers any more to what a finished turn held.
Rest(slot) == IF slot.pc = "idle" /\ slot.chain = <<>> /\ slot.execs = {} THEN Idle ELSE slot

\* The conditional append: somebody else has the seq.
Taken(seq) == Len(log) >= seq

\* What an appended event leaves in the events array.
Push(s, e) == Append(slots[s].mem, e)

\* handle(job) has its outcome.  The handlers still at work, the chain, the
\* events array they share and a batch in flight live on.
Done(slot, outcome) ==
  [(IF slot.chain = <<>> /\ slot.execs = {} /\ slot.sent = slot.local THEN Idle
    ELSE [Idle EXCEPT !.mem = slot.mem, !.token = slot.token, !.chain = slot.chain,
                      !.seq = slot.seq, !.execs = slot.execs,
                      !.local = slot.local, !.sent = slot.sent])
   EXCEPT !.pc = "settle", !.job = slot.job, !.outcome = outcome]

Return(s, outcome) ==
  slots' = [slots EXCEPT ![s] = Done(slots[s], outcome)]

\* A terminal event is issued: its seq is fixed here.
Issue(s, e) ==
  slots' = [slots EXCEPT ![s].pc = "end", ![s].goal = e, ![s].end = NextSeq(s)]

TerminalFail(s, class) == Issue(s, Failed(class, slots[s].token))

\* Mutant: a transient error is retried on the last attempt, too.
MapErrorNeverLast(s, err) ==
  IF err = "HARNESS" THEN TerminalFail(s, err)
  ELSE Return(s, IF err = "CONFLICT" THEN "conflict" ELSE "retry_later")

\* harnessStrategy.mapError, then the shell's.  CONFLICT stands for ErrConflict
\* and HarnessFencedError, HARNESS for a permanent error.
MapError(s, err) ==
  CASE err = "CONFLICT" -> Return(s, "conflict")
    [] err = "HARNESS" -> TerminalFail(s, "HARNESS")
    [] OTHER -> IF slots[s].last THEN TerminalFail(s, err) ELSE Return(s, "retry_later")

\* The driver's fail(): the first fatal error wins and aborts the vendor.
FirstFatal(s, err) ==
  IF slots[s].fatal = "none" /\ slots[s].pc \in {"drive", "ended"} THEN err ELSE slots[s].fatal

\* A fault of this kind happens.
Strikes(kind) ==
  /\ kind \in FaultKinds /\ Len(faults) < MaxFaults
  /\ faults' = Append(faults, kind)

Struck(kind) == \E i \in DOMAIN faults : faults[i] = kind

-----------------------------------------------------------------------------
(* The session's queue row.                                                 *)

SendMessage ==
  /\ job.id < MaxMessages /\ job.state \notin {"queued", "running"}
  /\ log' = Append(log, UserMessage)
  /\ job' = [id |-> job.id + 1, state |-> "queued", attempts |-> 0, lease |-> FALSE]
  /\ UNCHANGED <<session, transcript, slots, started, finished, faults, stray, spoken>>

\* A slot is reused when nothing of its last turn is at work in it.
Free(s) == slots[s] = Idle

Pull(s) ==
  /\ Free(s)
  /\ job.state = "queued" \/ (job.state = "running" /\ ~job.lease)
  /\ job' = [job EXCEPT !.state = "running", !.lease = TRUE, !.attempts = @ + 1]
  /\ slots' = [slots EXCEPT ![s] = [Idle EXCEPT !.pc = "read", !.job = job.id,
                                     !.last = (job.attempts + 1 >= MaxAttempts)]]
  /\ UNCHANGED <<log, session, transcript, started, finished, faults, stray, spoken>>

Holds(s) == slots[s].pc # "idle" /\ slots[s].job = job.id

ExpireLease ==
  /\ job.state = "running" /\ job.lease /\ \A s \in Slots : ~Holds(s)
  /\ job' = [job EXCEPT !.lease = FALSE]
  /\ UNCHANGED <<log, session, transcript, slots, started, finished, faults, stray, spoken>>

\* The lease runs out although a slot is at work.
Stall(s) ==
  /\ Holds(s) /\ job.state = "running" /\ job.lease /\ Strikes("stall")
  /\ job' = [job EXCEPT !.lease = FALSE]
  /\ UNCHANGED <<log, session, transcript, slots, started, finished, stray, spoken>>

\* ack deletes the row, nack requeues or buries it; both by id.
Settle(s) ==
  /\ slots[s].pc = "settle"
  /\ slots' = [slots EXCEPT ![s] = Rest([slots[s] EXCEPT !.pc = "idle"])]
  /\ job' = IF job.id # slots[s].job \/ job.state = "none" THEN job
            ELSE IF slots[s].outcome # "retry_later" THEN [job EXCEPT !.state = "none"]
            ELSE [job EXCEPT !.lease = FALSE,
                             !.state = IF job.attempts >= MaxAttempts
                                       THEN "dead" ELSE "queued"]
  /\ UNCHANGED <<log, session, transcript, started, finished, faults, stray, spoken>>

\* The process is lost with every thread it had.
Crash(s) ==
  /\ ~Free(s) /\ Strikes("crash")
  /\ slots' = [slots EXCEPT ![s] = Idle]
  /\ UNCHANGED <<log, session, transcript, job, started, finished, stray, spoken>>

-----------------------------------------------------------------------------
(* Fence and recovery.                                                      *)

\* The shell reads the log; a closed turn or an empty log is acked, a worker
\* without a driver fails the turn.
Read(s) ==
  /\ slots[s].pc = "read"
  /\ IF log = <<>> \/ LastAt(log, {"user_message"}) = 0 \/ log[Len(log)].type \in Terminal
     THEN Return(s, "completed")
     ELSE \/ slots' = [slots EXCEPT ![s].pc = "fence", ![s].mem = log]
          \/ slots' = [slots EXCEPT ![s].pc = "end", ![s].mem = log,
                                    ![s].goal = Failed("HARNESS", 0),
                                    ![s].end = Len(log) + 1]
  /\ UNCHANGED <<log, session, transcript, job, started, finished, faults, stray, spoken>>

FenceWrites(s) ==
  /\ log' = Append(log, Started(NextSeq(s)))
  /\ session' = [session EXCEPT !.fence = NextSeq(s)]

\* The attempt event and the token, in one transaction.
Fence(s) ==
  /\ slots[s].pc = "fence"
  /\ IF Taken(NextSeq(s))
     THEN Return(s, "conflict") /\ UNCHANGED <<log, session>>
     ELSE /\ FenceWrites(s)
          /\ slots' = [slots EXCEPT ![s].pc = "recover", ![s].token = NextSeq(s),
                                    ![s].mem = Push(s, Started(NextSeq(s)))]
  /\ UNCHANGED <<transcript, job, started, finished, faults, stray, spoken>>

\* Any other failure of that transaction, its effect landed or not.
FenceThrows(s) ==
  /\ slots[s].pc = "fence" /\ Strikes("db")
  /\ \/ UNCHANGED <<log, session>>
     \/ ~Taken(NextSeq(s)) /\ FenceWrites(s)
  /\ Return(s, "retry_later")
  /\ UNCHANGED <<transcript, job, started, finished, stray, spoken>>

\* The oldest unanswered call is run, or attached to, under its own key.
Recover(s) ==
  /\ slots[s].pc = "recover"
  /\ \E k \in Unanswered(slots[s].mem) :
       /\ \A i \in Unanswered(slots[s].mem) : k <= i
       /\ started' = started \cup {k}
       /\ slots' = [slots EXCEPT ![s].pc = "attach", ![s].key = k]
  /\ UNCHANGED <<log, session, transcript, job, finished, faults, stray, spoken>>

RecordRecovered(s) ==
  /\ slots[s].pc = "attach" /\ slots[s].key \in finished
  /\ LET e == ToolResult(slots[s].key, slots[s].token)
     IN  IF Taken(NextSeq(s))
         THEN Return(s, "conflict") /\ UNCHANGED log
         ELSE /\ log' = Append(log, e)
              /\ slots' = [slots EXCEPT ![s].pc = "recover", ![s].mem = Push(s, e),
                                        ![s].told = @ \cup {slots[s].key}]
  /\ UNCHANGED <<session, transcript, job, started, finished, faults, stray, spoken>>

\* The append of the recovered result throws, its effect landed or not.
RecoveryThrows(s) ==
  /\ slots[s].pc = "attach" /\ slots[s].key \in finished /\ Strikes("db")
  /\ \/ UNCHANGED log
     \/ ~Taken(NextSeq(s)) /\ log' = Append(log, ToolResult(slots[s].key, slots[s].token))
  /\ MapError(s, "INTERNAL")
  /\ UNCHANGED <<session, transcript, job, started, finished, stray, spoken>>

RecoveryFails(s) ==
  /\ slots[s].pc = "attach"
  /\ MapError(s, "INTERNAL")
  /\ UNCHANGED <<log, session, transcript, job, started, finished, faults, stray, spoken>>

\* runTurn starts query() with the prompt: the first transcript entry.
Drive(s) ==
  /\ slots[s].pc = "recover" /\ Unanswered(slots[s].mem) = {}
  /\ slots' = [slots EXCEPT ![s].pc = "drive", ![s].local = 1]
  /\ UNCHANGED <<log, session, transcript, job, started, finished, faults, stray, spoken>>

-----------------------------------------------------------------------------
(* The driver: the vendor's messages, the chain and the exec handlers.      *)

\* Queue an append; at the head of the chain it is issued at once.
Chain(s, e) ==
  slots' = [slots EXCEPT ![s].chain = Append(@, e),
                         ![s].seq = IF slots[s].chain = <<>> THEN NextSeq(s) ELSE @,
                         ![s].local = @ + 1]

Speaking(s) == slots[s].pc = "drive" /\ slots[s].fatal = "none"

\* The vendor says something (projected, not awaited) or calls the exec tool.
Say(s) ==
  /\ Speaking(s) /\ spoken < MaxOutput /\ spoken' = spoken + 1
  /\ \E type \in {"text", "call"} : Chain(s, Bare(type, slots[s].token))
  /\ UNCHANGED <<log, session, transcript, job, started, finished, faults, stray>>

\* Once its append is through, the next one in the chain is issued.
Pop(s, mem) ==
  [slots[s] EXCEPT !.chain = Tail(@), !.mem = mem, !.seq = Len(mem) + 1]

ChainConflicts(s) ==
  /\ slots[s].chain # <<>> /\ Taken(slots[s].seq)
  /\ slots' = [slots EXCEPT ![s] = Rest([Pop(s, slots[s].mem) EXCEPT
                                           !.fatal = FirstFatal(s, "CONFLICT")])]
  /\ UNCHANGED <<log, session, transcript, job, started, finished, faults, stray, spoken>>

\* Mutant: the append goes to the end of the log, whatever its seq.
ChainLandsAnywhere(s) ==
  /\ slots[s].chain # <<>>
  /\ log' = Append(log, Head(slots[s].chain))
  /\ slots' = [slots EXCEPT ![s] = Rest(Pop(s, Push(s, Head(slots[s].chain))))]
  /\ stray' = (stray \/ slots[s].pc \notin {"drive", "ended"})
  /\ UNCHANGED <<session, transcript, job, started, finished, faults, spoken>>

\* A call that is in the log goes on to exec; its seq is its key.
ChainLands(s) ==
  /\ slots[s].chain # <<>> /\ ~Taken(slots[s].seq)
  /\ LET e == Head(slots[s].chain)
     IN  /\ log' = Append(log, e)
         /\ slots' = [slots EXCEPT ![s] = Rest([Pop(s, Push(s, e)) EXCEPT
              !.execs = IF e.type = "call" THEN @ \cup {slots[s].seq} ELSE @])]
  /\ stray' = (stray \/ slots[s].pc \notin {"drive", "ended"})
  /\ UNCHANGED <<session, transcript, job, started, finished, faults, spoken>>

\* The row may be in although the insert throws.
ChainThrows(s) ==
  /\ slots[s].chain # <<>> /\ Strikes("db")
  /\ \/ UNCHANGED log
     \/ ~Taken(slots[s].seq) /\ log' = Append(log, Head(slots[s].chain))
  /\ slots' = [slots EXCEPT ![s] = Rest([Pop(s, slots[s].mem) EXCEPT
                                           !.fatal = FirstFatal(s, "INTERNAL")])]
  /\ UNCHANGED <<session, transcript, job, started, finished, stray, spoken>>

Exec(s) ==
  /\ \E k \in slots[s].execs \ started : started' = started \cup {k}
  /\ UNCHANGED <<log, session, transcript, job, slots, finished, faults, stray, spoken>>

CommandExits ==
  /\ \E k \in started \ finished : finished' = finished \cup {k}
  /\ UNCHANGED <<log, session, transcript, job, slots, started, faults, stray, spoken>>

\* Mutant: a result is reported before the command has ended.
ReportEarly(s) ==
  /\ \E k \in slots[s].execs \cap started :
       slots' = [slots EXCEPT ![s].execs = @ \ {k},
                  ![s].chain = Append(@, ToolResult(k, slots[s].token)),
                  ![s].seq = IF slots[s].chain = <<>> THEN NextSeq(s) ELSE @]
  /\ UNCHANGED <<log, session, transcript, job, started, finished, faults, stray, spoken>>

Report(s) ==
  /\ \E k \in slots[s].execs \cap finished :
       slots' = [slots EXCEPT ![s].execs = @ \ {k},
                  ![s].chain = Append(@, ToolResult(k, slots[s].token)),
                  ![s].seq = IF slots[s].chain = <<>> THEN NextSeq(s) ELSE @]
  /\ UNCHANGED <<log, session, transcript, job, started, finished, faults, stray, spoken>>

ExecThrows(s) ==
  /\ \E k \in slots[s].execs :
       slots' = [slots EXCEPT ![s] = Rest([slots[s] EXCEPT
                   !.execs = @ \ {k}, !.fatal = FirstFatal(s, "INTERNAL")])]
  /\ UNCHANGED <<log, session, transcript, job, started, finished, faults, stray, spoken>>

\* The stream throws, or ends without a result: transient, or an auth failure.
VendorFails(s) ==
  /\ Speaking(s)
  /\ \E err \in {"HARNESS", "INTERNAL"} :
       slots' = [slots EXCEPT ![s].fatal = err]
  /\ UNCHANGED <<log, session, transcript, job, started, finished, faults, stray, spoken>>

\* Tool calls the vendor waits for; a text it does not.
Waiting(s) ==
  \/ slots[s].execs # {}
  \/ \E i \in DOMAIN slots[s].chain : slots[s].chain[i].type # "text"

\* The result message: success, or a budget that is used up.
VendorResult(s) ==
  /\ Speaking(s) /\ ~Waiting(s)
  /\ \E e \in {Completed(slots[s].local, slots[s].token), Failed("BUDGET", slots[s].token)} :
       slots' = [slots EXCEPT ![s].pc = "ended", ![s].goal = e]
  /\ UNCHANGED <<log, session, transcript, job, started, finished, faults, stray, spoken>>

-----------------------------------------------------------------------------
(* The fenced mirror.                                                       *)

\* The entries a try inserts: those not yet mirrored, less the ones that an
\* earlier try has left in the table and the unique index recognises.  It knows
\* an entry by its uuid; one without goes in again.
Fresh(s) ==
  {e \in {[by |-> slots[s].token, n |-> n] : n \in slots[s].sent + 1 .. slots[s].local} :
     e.n \in Anonymous \/ \A r \in DOMAIN transcript : transcript[r] # e}

\* They go in by number.
Batches(s) ==
  {b \in UNION {[1 .. k -> Fresh(s)] : k \in 0 .. slots[s].local - slots[s].sent} :
     /\ Fresh(s) \subseteq {b[i] : i \in DOMAIN b}
     /\ \A i, j \in DOMAIN b : i < j => b[i].n < b[j].n}

Insert(s) == \E b \in Batches(s) : transcript' = transcript \o b

\* A batch in flight outlives the abort of its turn.
Unmirrored(s) == slots[s].pc # "idle" /\ slots[s].sent < slots[s].local

Guarded(s) == session.fence = slots[s].token

\* Mutant: the insert without its guard.
FlushUnguarded(s) ==
  /\ Unmirrored(s)
  /\ Insert(s)
  /\ slots' = [slots EXCEPT ![s].sent = slots[s].local]
  /\ UNCHANGED <<log, session, job, started, finished, faults, stray, spoken>>

\* The guarded insert.  No row went in: the fence is read again.
Flush(s) ==
  /\ Unmirrored(s)
  /\ IF Guarded(s)
     THEN /\ Insert(s)
          /\ slots' = [slots EXCEPT ![s].sent = slots[s].local]
     ELSE /\ slots' = [slots EXCEPT ![s].sent = slots[s].local, ![s].mirror = "fenced"]
          /\ UNCHANGED transcript
  /\ UNCHANGED <<log, session, job, started, finished, faults, stray, spoken>>

\* The insert's reply is lost; the vendor will send the batch again.
FlushReplyLost(s) ==
  /\ Unmirrored(s) /\ Guarded(s) /\ Insert(s) /\ Strikes("db")
  /\ UNCHANGED <<log, session, job, slots, started, finished, stray, spoken>>

\* All tries failed: the batch is gone and mirror_error is emitted.
DropBatch(s) ==
  /\ Unmirrored(s) /\ Strikes("db")
  /\ slots' = [slots EXCEPT ![s].sent = slots[s].local,
                            ![s].mirror = IF @ = "fenced" THEN @ ELSE "dropped"]
  /\ UNCHANGED <<log, session, transcript, job, started, finished, stray, spoken>>

\* Mutant: mirror_error is only logged, unless the fence is lost.
ObserveFencedOnly(s) ==
  /\ slots[s].pc \in {"drive", "ended"} /\ slots[s].mirror # "ok"
  /\ slots' = [slots EXCEPT ![s].mirror = "ok",
       ![s].fatal = IF slots[s].mirror = "fenced" THEN FirstFatal(s, "CONFLICT") ELSE @]
  /\ UNCHANGED <<log, session, transcript, job, started, finished, faults, stray, spoken>>

\* mirror_error reaches the message loop.
Observe(s) ==
  /\ slots[s].pc \in {"drive", "ended"} /\ slots[s].mirror # "ok"
  /\ slots' = [slots EXCEPT ![s].mirror = "ok",
       ![s].fatal = FirstFatal(s, IF slots[s].mirror = "fenced"
                                  THEN "CONFLICT" ELSE "INTERNAL")]
  /\ UNCHANGED <<log, session, transcript, job, started, finished, faults, stray, spoken>>

-----------------------------------------------------------------------------
(* The end of runTurn and the commit.                                       *)

Throw(s) ==
  /\ slots[s].pc \in {"drive", "ended"} /\ slots[s].fatal # "none"
  /\ MapError(s, slots[s].fatal)
  /\ UNCHANGED <<log, session, transcript, job, started, finished, faults, stray, spoken>>

\* The stream ends behind the last mirrored batch; the commit is issued.
StreamEnds(s) ==
  /\ slots[s].pc = "ended" /\ slots[s].fatal = "none"
  /\ slots[s].mirror = "ok" /\ slots[s].sent = slots[s].local
  /\ Issue(s, slots[s].goal)
  /\ UNCHANGED <<log, session, transcript, job, started, finished, faults, stray, spoken>>

\* A result's terminal event and the vendor's session are one transaction;
\* terminalFail writes the event alone.
Commits(s) ==
  slots[s].goal.type = "turn_completed" \/ slots[s].goal.class = "BUDGET"

EndWrites(s) ==
  /\ log' = Append(log, slots[s].goal)
  /\ session' = IF Commits(s) THEN [session EXCEPT !.state = slots[s].token] ELSE session

End(s) ==
  /\ slots[s].pc = "end"
  /\ IF Taken(slots[s].end)
     THEN Return(s, "conflict") /\ UNCHANGED <<log, session>>
     ELSE /\ EndWrites(s)
          /\ slots' = [slots EXCEPT ![s] =
               Done([slots[s] EXCEPT !.mem = Push(s, slots[s].goal)],
                    IF slots[s].goal.type = "turn_completed" THEN "completed" ELSE "failed")]
  /\ UNCHANGED <<transcript, job, started, finished, faults, stray, spoken>>

EndThrows(s) ==
  /\ slots[s].pc = "end" /\ Strikes("db")
  /\ \/ UNCHANGED <<log, session>>
     \/ ~Taken(slots[s].end) /\ EndWrites(s)
  /\ IF Commits(s) THEN MapError(s, "INTERNAL") ELSE Return(s, "retry_later")
  /\ UNCHANGED <<transcript, job, started, finished, stray, spoken>>

-----------------------------------------------------------------------------
Turn(s) ==
  \/ Read(s) \/ Fence(s) \/ Recover(s) \/ RecordRecovered(s)
  \/ RecoveryFails(s) \/ Drive(s) \/ Throw(s) \/ StreamEnds(s) \/ End(s) \/ Settle(s)

Driver(s) ==
  \/ Say(s) \/ VendorFails(s) \/ VendorResult(s) \/ ChainConflicts(s) \/ ChainLands(s)
  \/ Exec(s) \/ Report(s) \/ ExecThrows(s) \/ Flush(s) \/ Observe(s)

Fault(s) ==
  \/ Stall(s) \/ Crash(s) \/ FenceThrows(s) \/ RecoveryThrows(s) \/ ChainThrows(s)
  \/ FlushReplyLost(s) \/ DropBatch(s) \/ EndThrows(s)

Next ==
  \/ SendMessage \/ ExpireLease \/ CommandExits
  \/ \E s \in Slots : Pull(s) \/ Turn(s) \/ Driver(s) \/ Fault(s)

Spec == Init /\ [][Next]_vars

\* A live process takes the steps its promises and the vendor's stream await;
\* workers pull; leases of the dead expire; commands end.
Fairness ==
  /\ \A s \in Slots : WF_vars(Turn(s)) /\ WF_vars(Driver(s))
  /\ WF_vars(\E s \in Slots : Pull(s))
  /\ WF_vars(ExpireLease) /\ WF_vars(CommandExits)

FairSpec == Spec /\ Fairness

-----------------------------------------------------------------------------
(* Properties.                                                              *)

Pc == {"idle", "read", "fence", "recover", "attach", "drive", "ended", "end",
       "settle"}
Fatal == {"none", "CONFLICT", "HARNESS", "INTERNAL"}
Outcome == {"none", "completed", "failed", "conflict", "retry_later"}
Row == [by : Nat, n : Nat]

Slot == [pc : Pc, job : Nat, last : BOOLEAN, mem : Seq(Event), token : Nat,
         told : SUBSET Nat, key : Nat, chain : Seq(Event), seq : Nat,
         execs : SUBSET Nat, local : Nat, sent : Nat,
         mirror : {"ok", "dropped", "fenced"}, fatal : Fatal, goal : Event,
         end : Nat, outcome : Outcome]

\* The type invariant.
TypeOK ==
  /\ log \in Seq(Event) /\ transcript \in Seq(Row)
  /\ session \in [fence : Nat, state : Nat]
  /\ job \in [id : Nat, state : {"none", "queued", "running", "dead"},
              attempts : Nat, lease : BOOLEAN]
  /\ slots \in [Slots -> Slot]
  /\ started \subseteq Nat /\ finished \subseteq started
  /\ faults \in Seq(FaultKinds) /\ Len(faults) <= MaxFaults
  /\ stray \in BOOLEAN /\ spoken \in 0 .. MaxOutput

\* Winning the attempt's seq is winning the turn: whatever a worker appends on
\* behalf of an attempt, however late and from whichever of its threads, comes
\* before the next attempt and before the next message (harness-strategy.ts
\* 8-11, DESIGN.md 5.1 "every one of its writes bounces").
AttemptsDoNotMix ==
  \A i \in DOMAIN log : log[i].by # 0 =>
    log[i].by = LastAt(SubSeq(log, 1, i), {"harness_attempt_started", "user_message"})

\* The transcript is one lineage: no row of an attempt behind a row of a later
\* one (claude-code-store.ts 9-15, DESIGN.md 10, invariant 3).
MirrorIsFenced ==
  \A i, j \in DOMAIN transcript : i <= j => transcript[i].by <= transcript[j].by

\* No command is spawned before its call is in the log under that key, and a
\* result in the log was observed and is the only one of its call, whoever was
\* at work on it: handler, recovery or the handler of a lost attempt
\* (DESIGN.md 10, invariants 1 and 2).
CallsSettledOnce ==
  /\ \A k \in started : k \in DOMAIN log /\ log[k].type = "call"
  /\ \A i \in DOMAIN log : log[i].type = "tool_result" =>
       /\ log[i].key \in finished
       /\ \A j \in DOMAIN log : log[j].type = "tool_result" /\ log[j].key = log[i].key
                                => i = j

RowsOf(token) == {r \in DOMAIN transcript : transcript[r].by = token}

\* A completed turn has its whole transcript in the database, in order: the
\* rows of its attempt hold the entries 1 .. key (DESIGN.md 10, invariant 4).  An
\* entry with a uuid has one row, and a row that is not beyond all earlier ones
\* repeats an entry without: those, and only those, go in twice when a batch is
\* sent twice (claude-code-store.ts 79-80).
CommitIsWhole ==
  \A i \in DOMAIN log : log[i].type = "turn_completed" =>
    LET rows == RowsOf(log[i].by)
    IN  /\ {transcript[r].n : r \in rows} = 1 .. log[i].key
        /\ \A r, q \in rows : r < q /\ transcript[q].n <= transcript[r].n =>
             /\ transcript[q].n \in Anonymous
             /\ \E o \in rows : o < q /\ transcript[o] = transcript[q]

\* Every turn ends, unless a lease was stolen, a database call failed, or an
\* append took effect that its turn did not wait for: nothing else keeps a
\* harness turn open, whatever crashes, vendor failures and lost sandboxes do.
TurnsEnd ==
  OpenTurn ~> \/ ~OpenTurn \/ stray
              \/ Struck("stall") \/ Struck("db")

-----------------------------------------------------------------------------
(* What the documentation says and the code does not keep.                  *)

\* tests/chaos/README.md 19: "every turn ends in a terminal event": an open turn
\* has a job that will be delivered.
OpenTurnHasJob == OpenTurn => job.state \in {"queued", "running"}
=============================================================================
