----------------------------- MODULE TurnRuntime ----------------------------
(***************************************************************************)
(* One session of the durable agent runtime: its event log, its row, the   *)
(* jobs the API and the provisioner enqueue for it, and the worker slots   *)
(* that run them (worker.ts handle, turn.ts, native-strategy.ts, exec.ts,  *)
(* provision.ts, queue.ts, store.ts and the message half of service.ts).   *)
(*                                                                         *)
(* A slot is one in-flight handle(job) call of some worker process.  Each  *)
(* await that reads or writes shared state is a step of its own; what only *)
(* touches the slot's memory (the reducer, the model's reply) is folded    *)
(* into the step that publishes it.  A worker may crash, its lease may     *)
(* expire while it lives, and a database call may fail with or without     *)
(* having taken effect: each kind of fault has a budget.                   *)
(***************************************************************************)
EXTENDS Context

CONSTANTS
  Slots,          \* in-flight handle(job) calls, over all workers
  MaxAttempts,    \* turn_jobs.max_attempts
  MaxIterations,  \* tool_policy.max_iterations
  MaxMessages,    \* bound: messages the user sends
  MaxCrashes,     \* bound: slots lost with their process
  MaxStalls,      \* bound: leases that expire although a slot still works
  MaxDbErrors,    \* bound: database calls that throw
  StartReady,     \* the session is provisioned already (else: just created)
  FreshBoxes      \* provision() creates a new sandbox each time (docker, e2b)
                  \* or returns the session's own directory (subprocess)

ASSUME RuntimeAssumption ==
  /\ MaxAttempts \in Nat \ {0} /\ MaxIterations \in Nat \ {0}
  /\ MaxMessages \in Nat
  /\ MaxCrashes \in Nat /\ MaxStalls \in Nat /\ MaxDbErrors \in Nat
  /\ StartReady \in BOOLEAN /\ FreshBoxes \in BOOLEAN

VARIABLES
  log,       \* session_events rows of the session, by seq
  session,   \* the sessions row: status, handle (0: null), archivedAt set?
  jobs,      \* turn_jobs rows: 0 provisions, m runs the turn of message m
  messages,  \* user messages accepted
  slots,     \* what each slot holds in memory
  boxes,     \* sandboxes the provider has created
  started,   \* <<sandbox, idemKey>> whose command was spawned
  finished,  \* ... and has left its exit code
  faults     \* faults used up, by kind

vars == <<log, session, jobs, messages, slots, boxes, started, finished, faults>>

JobId == 0 .. MaxMessages
NoJob == [state |-> "none", attempts |-> 0, lease |-> FALSE]
Queued == [NoJob EXCEPT !.state = "queued"]

Idle == [pc |-> "idle", job |-> 0, last |-> FALSE, box |-> 0, mem |-> <<>>,
         seq |-> 0, rebooted |-> FALSE, goal |-> "none", class |-> "none",
         outcome |-> "none"]

Busy(s) == slots[s].pc # "idle"
Holds(s, j) == Busy(s) /\ slots[s].job = j
NextStep(s) == NextAction(slots[s].mem, MaxIterations)
Key(s) == PendingKey(slots[s].mem)

Init ==
  /\ log = IF StartReady THEN <<Provisioned>> ELSE <<>>
  /\ session = [status |-> IF StartReady THEN "ready" ELSE "provisioning",
                box |-> IF StartReady THEN 1 ELSE 0, archived |-> FALSE]
  /\ jobs = [j \in JobId |-> IF j = 0 /\ ~StartReady THEN Queued ELSE NoJob]
  /\ messages = 0
  /\ slots = [s \in Slots |-> Idle]
  /\ boxes = IF StartReady THEN 1 ELSE 0
  /\ started = {} /\ finished = {}
  /\ faults = [crash |-> 0, stall |-> 0, db |-> 0]

-----------------------------------------------------------------------------
(* The slot's own control flow.                                            *)

Goto(s, pc) == slots' = [slots EXCEPT ![s].pc = pc]

\* handle(job) has its TurnOutcome; what runTurn held in memory is gone.
Return(s, outcome) ==
  slots' = [slots EXCEPT ![s] = [Idle EXCEPT !.pc = "settle", !.job = slots[s].job,
                                             !.outcome = outcome]]

\* Mutant: the last attempt is over without a terminal event.
MapErrorUnrecorded(s, class) ==
  Return(s, IF slots[s].last THEN "failed" ELSE "retry_later")

\* An error escaped the step: transient until the last attempt, and then the
\* failure to record with terminalFail.
MapError(s, class) ==
  IF slots[s].last
  THEN slots' = [slots EXCEPT ![s].pc = "fail", ![s].class = class]
  ELSE Return(s, "retry_later")

\* Mutant: off by one.
SeqTakenOffByOne(s) == Len(log) > Len(slots[s].mem) + 1

\* The conditional append at seq = (last seq in memory) + 1.
SeqTaken(s) == Len(log) >= Len(slots[s].mem) + 1

\* Mutant: a conflict is taken for success, memory grows without the log.
AppendAndLoopBlindly(s, e) ==
  /\ log' = IF SeqTaken(s) THEN log ELSE Append(log, e)
  /\ slots' = [slots EXCEPT ![s].pc = "act", ![s].rebooted = FALSE,
                            ![s].mem = Append(slots[s].mem, e)]

\* A further event of the loop: on success memory follows the log.
AppendAndLoop(s, e) ==
  IF SeqTaken(s)
  THEN Return(s, "conflict") /\ UNCHANGED log
  ELSE /\ log' = Append(log, e)
       /\ slots' = [slots EXCEPT ![s].pc = "act", ![s].rebooted = FALSE,
                                 ![s].mem = Append(slots[s].mem, e)]

\* Mutant: the seq is read again at the insert instead of taken from memory.
AppendAndReturnAtEnd(s, e, outcome) ==
  log' = Append(log, e) /\ Return(s, outcome)

\* The turn's last event: then runTurn returns.
AppendAndReturn(s, e, outcome) ==
  IF SeqTaken(s)
  THEN Return(s, "conflict") /\ UNCHANGED log
  ELSE log' = Append(log, e) /\ Return(s, outcome)

DbFault == faults.db < MaxDbErrors /\ faults' = [faults EXCEPT !.db = @ + 1]

-----------------------------------------------------------------------------
(* The API.                                                                *)

\* Mutant: only queued jobs count.
HasQueuedTurn == \E j \in JobId \ {0} : jobs[j].state = "queued"

HasActiveTurn == \E j \in JobId \ {0} : jobs[j].state \in {"queued", "running"}

SendMessage ==
  /\ messages < MaxMessages
  /\ session.status \notin {"archived", "failed"}
  /\ ~HasActiveTurn
  /\ log' = Append(log, UserMessage)
  /\ jobs' = [jobs EXCEPT ![messages + 1] = Queued]
  /\ messages' = messages + 1
  /\ UNCHANGED <<session, slots, boxes, started, finished, faults>>

Archive ==
  /\ ~session.archived
  /\ session' = [session EXCEPT !.status = "archived", !.archived = TRUE]
  /\ UNCHANGED <<log, jobs, messages, slots, boxes, started, finished, faults>>

-----------------------------------------------------------------------------
(* The queue: claim, heartbeat, lease expiry, ack and nack.                *)

\* Mutant: a running job is claimed whatever its lease.
ClaimableRunning(j) == jobs[j].state \in {"queued", "running"}

Claimable(j) == \/ jobs[j].state = "queued"
                \/ jobs[j].state = "running" /\ ~jobs[j].lease

\* The claim about to be made is the last one the job gets.
LastAttempt(j) == jobs[j].attempts + 1 >= MaxAttempts

Pull(s) ==
  \E j \in JobId :
    /\ ~Busy(s) /\ Claimable(j)
    /\ jobs' = [jobs EXCEPT ![j] = [state |-> "running", lease |-> TRUE,
                                    attempts |-> @.attempts + 1]]
    /\ slots' = [slots EXCEPT ![s] = [Idle EXCEPT !.pc = "gate", !.job = j,
                                                 !.last = LastAttempt(j)]]
    /\ UNCHANGED <<log, session, messages, boxes, started, finished, faults>>

\* 60 s without a heartbeat of a job nobody works on any more ...
ExpireLease(j) ==
  /\ jobs[j].state = "running" /\ jobs[j].lease
  /\ \A s \in Slots : ~Holds(s, j)
  /\ jobs' = [jobs EXCEPT ![j].lease = FALSE]
  /\ UNCHANGED <<log, session, messages, slots, boxes, started, finished, faults>>

\* ... or of one whose slot is stalled, or cut off from the database.
Stall(s) ==
  /\ Busy(s) /\ faults.stall < MaxStalls
  /\ LET j == slots[s].job
     IN  /\ jobs[j].state = "running" /\ jobs[j].lease
         /\ jobs' = [jobs EXCEPT ![j].lease = FALSE]
  /\ faults' = [faults EXCEPT !.stall = @ + 1]
  /\ UNCHANGED <<log, session, messages, slots, boxes, started, finished>>

\* extendLease goes by job id alone: any slot that still runs the job, the
\* claim's owner or not, renews it.
Heartbeat(s) ==
  /\ Busy(s)
  /\ LET j == slots[s].job
     IN  /\ jobs[j].state = "running" /\ ~jobs[j].lease
         /\ jobs' = [jobs EXCEPT ![j].lease = TRUE]
  /\ UNCHANGED <<log, session, messages, slots, boxes, started, finished, faults>>

Ack(j) == [jobs EXCEPT ![j] = NoJob]

\* Mutant: buried one attempt early.
NackEarly(j) ==
  IF jobs[j].state = "none" THEN jobs
  ELSE [jobs EXCEPT ![j].lease = FALSE,
                    ![j].state = IF jobs[j].attempts + 1 >= MaxAttempts
                                 THEN "dead" ELSE "queued"]

Nack(j) ==
  IF jobs[j].state = "none" THEN jobs
  ELSE [jobs EXCEPT ![j].lease = FALSE,
                    ![j].state = IF jobs[j].attempts >= MaxAttempts
                                 THEN "dead" ELSE "queued"]

\* "threw" is the outcome of a handler that raised: handle's catch nacks.
Settled(s) ==
  IF slots[s].outcome \in {"completed", "failed", "abandoned", "conflict"}
  THEN Ack(slots[s].job) ELSE Nack(slots[s].job)

Settle(s) ==
  /\ slots[s].pc = "settle"
  /\ jobs' = Settled(s)
  /\ slots' = [slots EXCEPT ![s] = Idle]
  /\ UNCHANGED <<log, session, messages, boxes, started, finished, faults>>

\* The ack or nack throws, its effect landed or not: the catch nacks, and if
\* that throws as well the job is left to its lease.
SettleThrows(s) ==
  /\ slots[s].pc = "settle" /\ DbFault
  /\ jobs' \in {jobs, Settled(s)}
  /\ IF slots[s].outcome = "threw"
     THEN slots' = [slots EXCEPT ![s] = Idle]
     ELSE Return(s, "threw")
  /\ UNCHANGED <<log, session, messages, boxes, started, finished>>

-----------------------------------------------------------------------------
(* runTurn: the session gate and the one read of the log.                  *)

\* The session and its pinned agent version; a version is never deleted.
Gate(s) ==
  /\ slots[s].pc = "gate" /\ slots[s].job # 0
  /\ CASE session.status = "provisioning"            -> Return(s, "retry_later")
       [] session.status \in {"failed", "archived"}  -> Return(s, "abandoned")
       [] session.status = "ready" ->
            slots' = [slots EXCEPT ![s].pc = "read", ![s].box = session.box]
  /\ UNCHANGED <<log, session, jobs, messages, boxes, started, finished, faults>>

\* Mutant: one page of the log is taken for all of it.
ReadFirstPage(s) ==
  /\ slots[s].pc = "read"
  /\ slots' = [slots EXCEPT ![s].pc = "act",
                            ![s].mem = SubSeq(log, 1, IF Len(log) < 2 THEN Len(log) ELSE 2)]
  /\ UNCHANGED <<log, session, jobs, messages, boxes, started, finished, faults>>

ReadEvents(s) ==
  /\ slots[s].pc = "read"
  /\ slots' = [slots EXCEPT ![s].pc = "act", ![s].mem = log]
  /\ UNCHANGED <<log, session, jobs, messages, boxes, started, finished, faults>>

\* A throw before runTurn's or runProvision's try block.
ReadThrows(s) ==
  /\ slots[s].pc \in {"gate", "read"} /\ DbFault
  /\ Return(s, "threw")
  /\ UNCHANGED <<log, session, jobs, messages, boxes, started, finished>>

-----------------------------------------------------------------------------
(* nativeStrategy.run: the reducer's action, performed and appended.       *)

At(s, action) == slots[s].pc = "act" /\ NextStep(s) = action

\* The model answers, with or without a tool call.
Infer(s) ==
  /\ At(s, "infer")
  /\ \E call \in BOOLEAN : AppendAndLoop(s, Assistant(call))
  /\ UNCHANGED <<session, jobs, messages, boxes, started, finished, faults>>

Noop(s) ==
  /\ At(s, "noop")
  /\ Return(s, "completed")
  /\ UNCHANGED <<log, session, jobs, messages, boxes, started, finished, faults>>

Finish(s) ==
  /\ At(s, "finish")
  /\ AppendAndReturn(s, TurnCompleted, "completed")
  /\ UNCHANGED <<session, jobs, messages, boxes, started, finished, faults>>

ExhaustBudget(s) ==
  /\ At(s, "fail")
  /\ AppendAndReturn(s, TurnFailed("BUDGET"), "failed")
  /\ UNCHANGED <<session, jobs, messages, boxes, started, finished, faults>>

LlmFails(s) ==
  /\ At(s, "infer")
  /\ \/ slots' = [slots EXCEPT ![s].pc = "fail", ![s].class = "LLM_PERMANENT"]
     \/ MapError(s, "INTERNAL")
  /\ UNCHANGED <<log, session, jobs, messages, boxes, started, finished, faults>>

\* exec under the idemKey: the first caller spawns, later ones attach.
StartExec(s) ==
  /\ At(s, "exec_tool") /\ slots[s].box # 0
  /\ started' = started \cup {<<slots[s].box, Key(s)>>}
  /\ Goto(s, "tail")
  /\ UNCHANGED <<log, session, jobs, messages, boxes, finished, faults>>

\* The command runs on in the sandbox whoever watches it.
CommandExits ==
  /\ \E run \in started \ finished : finished' = finished \cup {run}
  /\ UNCHANGED <<log, session, jobs, messages, slots, boxes, started, faults>>

\* Mutant: a stream that ends without an exit event is a result.
CollectAnyEnd(s) ==
  /\ slots[s].pc = "tail"
  /\ AppendAndLoop(s, ToolResult(Key(s)))
  /\ UNCHANGED <<session, jobs, messages, boxes, started, finished, faults>>

\* The stream ended with an exit event: append the result.
Collect(s) ==
  /\ slots[s].pc = "tail" /\ <<slots[s].box, Key(s)>> \in finished
  /\ AppendAndLoop(s, ToolResult(Key(s)))
  /\ UNCHANGED <<session, jobs, messages, boxes, started, finished, faults>>

\* The command cannot be started or observed: one reboot per call, then the
\* error policy.  Any other driver error goes to the policy at once.
ExecFails(s) ==
  /\ At(s, "exec_tool") \/ slots[s].pc = "tail"
  /\ \/ IF slots[s].box # 0 /\ ~slots[s].rebooted
        THEN Goto(s, "reboot") ELSE MapError(s, "SANDBOX_FATAL")
     \/ MapError(s, "INTERNAL")
  /\ UNCHANGED <<log, session, jobs, messages, boxes, started, finished, faults>>

\* The rebooted handle names the same sandbox; it overwrites the row's.
Reboot(s) ==
  /\ slots[s].pc = "reboot"
  /\ session' = [session EXCEPT !.box = slots[s].box]
  /\ slots' = [slots EXCEPT ![s].pc = "act", ![s].rebooted = TRUE]
  /\ UNCHANGED <<log, jobs, messages, boxes, started, finished, faults>>

RebootFails(s) ==
  /\ slots[s].pc = "reboot"
  /\ \E class \in {"SANDBOX_FATAL", "INTERNAL"} : MapError(s, class)
  /\ UNCHANGED <<log, session, jobs, messages, boxes, started, finished, faults>>

\* terminalFail.
RecordFailure(s) ==
  /\ slots[s].pc = "fail"
  /\ AppendAndReturn(s, TurnFailed(slots[s].class), "failed")
  /\ UNCHANGED <<session, jobs, messages, boxes, started, finished, faults>>

\* The events the slot may be about to insert.
Appendable(s) ==
  CASE At(s, "infer")  -> {Assistant(call) : call \in BOOLEAN}
    [] At(s, "finish") -> {TurnCompleted}
    [] At(s, "fail")   -> {TurnFailed("BUDGET")}
    [] slots[s].pc = "tail" /\ <<slots[s].box, Key(s)>> \in finished
                       -> {ToolResult(Key(s))}
    [] slots[s].pc = "fail" -> {TurnFailed(slots[s].class)}
    [] OTHER -> {}

\* An insert throws something other than a conflict; the row may be in.
AppendThrows(s) ==
  /\ Appendable(s) # {} /\ DbFault
  /\ \/ UNCHANGED log
     \/ ~SeqTaken(s) /\ \E e \in Appendable(s) : log' = Append(log, e)
  /\ IF slots[s].pc = "fail" THEN Return(s, "retry_later") ELSE MapError(s, "INTERNAL")
  /\ UNCHANGED <<session, jobs, messages, boxes, started, finished>>

-----------------------------------------------------------------------------
(* runProvision and failProvision.  A transaction reads lastSeq at "open"  *)
(* and takes effect at "commit", unless another writer took the seq.       *)

\* Mutant: no status check, every delivery provisions.
ProvisionGateAlways(s) ==
  /\ slots[s].pc = "gate" /\ slots[s].job = 0
  /\ Goto(s, "box")
  /\ UNCHANGED <<log, session, jobs, messages, boxes, started, finished, faults>>

ProvisionGate(s) ==
  /\ slots[s].pc = "gate" /\ slots[s].job = 0
  /\ IF session.status # "provisioning" THEN Return(s, "completed") ELSE Goto(s, "box")
  /\ UNCHANGED <<log, session, jobs, messages, boxes, started, finished, faults>>

CreateBox(s) ==
  /\ slots[s].pc = "box"
  /\ boxes' = IF FreshBoxes THEN boxes + 1 ELSE 1
  /\ slots' = [slots EXCEPT ![s].pc = "open", ![s].goal = "ready", ![s].box = boxes']
  /\ UNCHANGED <<log, session, jobs, messages, started, finished, faults>>

\* Mutant: a provisioning failure is always retried.
RetryProvision(s) == Return(s, "retry_later")

\* failProvision: retry until the last attempt, then record the failure.
GiveUpProvision(s) ==
  IF ~slots[s].last THEN Return(s, "retry_later")
  ELSE slots' = [slots EXCEPT ![s].pc = "open", ![s].goal = "failed"]

CreateBoxFails(s) ==
  /\ slots[s].pc = "box"
  /\ GiveUpProvision(s)
  /\ UNCHANGED <<log, session, jobs, messages, boxes, started, finished, faults>>

OpenTx(s) ==
  /\ slots[s].pc = "open"
  /\ slots' = [slots EXCEPT ![s].pc = "commit", ![s].seq = Len(log) + 1]
  /\ UNCHANGED <<log, session, jobs, messages, boxes, started, finished, faults>>

\* What the transaction writes to the row and to the log.
ProvisionWrites(s) ==
  /\ Len(log) < slots[s].seq
  /\ IF slots[s].goal = "ready"
     THEN /\ session' = [session EXCEPT !.status = "ready", !.box = slots[s].box]
          /\ log' = Append(log, Provisioned)
     ELSE /\ session' = [session EXCEPT !.status = "failed"]
          /\ log' = Append(log, TurnFailed("SANDBOX_FATAL"))

CommitTx(s) ==
  /\ slots[s].pc = "commit"
  /\ \/ /\ ProvisionWrites(s)
        /\ Return(s, IF slots[s].goal = "ready" THEN "completed" ELSE "failed")
     \/ /\ Len(log) >= slots[s].seq
        /\ Return(s, "conflict")
        /\ UNCHANGED <<log, session>>
  /\ UNCHANGED <<jobs, messages, boxes, started, finished, faults>>

TxThrows(s) ==
  /\ slots[s].pc \in {"open", "commit"} /\ DbFault
  /\ \/ UNCHANGED <<log, session>>
     \/ slots[s].pc = "commit" /\ ProvisionWrites(s)
  /\ IF slots[s].goal = "ready" THEN GiveUpProvision(s) ELSE Return(s, "retry_later")
  /\ UNCHANGED <<jobs, messages, boxes, started, finished>>

-----------------------------------------------------------------------------
\* The process dies: everything the slot held is lost.
Crash(s) ==
  /\ Busy(s) /\ faults.crash < MaxCrashes
  /\ faults' = [faults EXCEPT !.crash = @ + 1]
  /\ slots' = [slots EXCEPT ![s] = Idle]
  /\ UNCHANGED <<log, session, jobs, messages, boxes, started, finished>>

TurnStep(s) ==
  \/ Gate(s) \/ ReadEvents(s) \/ Infer(s) \/ Noop(s) \/ Finish(s)
  \/ ExhaustBudget(s) \/ LlmFails(s) \/ StartExec(s) \/ Collect(s)
  \/ ExecFails(s) \/ Reboot(s) \/ RebootFails(s) \/ RecordFailure(s)

ProvisionStep(s) ==
  \/ ProvisionGate(s) \/ CreateBox(s) \/ CreateBoxFails(s)
  \/ OpenTx(s) \/ CommitTx(s)

Work(s) == TurnStep(s) \/ ProvisionStep(s) \/ Settle(s)

Fault(s) == \/ Stall(s) \/ Crash(s) \/ ReadThrows(s) \/ AppendThrows(s) \/ TxThrows(s)
            \/ SettleThrows(s)

Next ==
  \/ SendMessage \/ Archive \/ CommandExits
  \/ \E j \in JobId : ExpireLease(j)
  \/ \E s \in Slots : Pull(s) \/ Heartbeat(s) \/ Work(s) \/ Fault(s)

Spec == Init /\ [][Next]_vars

\* A live worker's event loop takes every step its slots await and keeps
\* pulling; a lease nobody renews expires; a command comes to an end.
Fairness ==
  /\ \A s \in Slots : WF_vars(Work(s))
  /\ WF_vars(\E s \in Slots : Pull(s))
  /\ \A j \in JobId : WF_vars(ExpireLease(j))
  /\ WF_vars(CommandExits)

FairSpec == Spec /\ Fairness

-----------------------------------------------------------------------------
(* Properties.                                                             *)

Pc == {"idle", "gate", "read", "act", "tail", "reboot", "fail",
       "box", "open", "commit", "settle"}

Outcome == {"completed", "failed", "conflict", "abandoned", "retry_later", "threw"}

Status == {"provisioning", "ready", "failed", "archived"}

Slot == [pc : Pc, job : JobId, last : BOOLEAN, box : Nat, mem : Seq(Event),
         seq : Nat, rebooted : BOOLEAN, goal : {"none", "ready", "failed"},
         class : ErrorClass \cup {"none"}, outcome : Outcome \cup {"none"}]

JobRow == [state : {"none", "queued", "running", "dead"}, attempts : Nat,
           lease : BOOLEAN]

\* The type invariant.
TypeOK ==
  /\ log \in Seq(Event)
  /\ session \in [status : Status, box : Nat, archived : BOOLEAN]
  /\ jobs \in [JobId -> JobRow]
  /\ messages \in 0 .. MaxMessages
  /\ slots \in [Slots -> Slot]
  /\ boxes \in Nat
  /\ started \subseteq Nat \X Nat /\ finished \subseteq started
  /\ faults \in [crash : 0 .. MaxCrashes, stall : 0 .. MaxStalls, db : 0 .. MaxDbErrors]

\* What a turn holds in memory is a prefix of the committed log, however old:
\* the conditional append stops a stale worker before its copy diverges, which
\* is what lets the reducer run on memory (turn.ts 77-90, store.ts 74-78).
MemIsPrefix ==
  \A s \in Slots :
    /\ Len(slots[s].mem) <= Len(log)
    /\ \A i \in 1 .. Len(slots[s].mem) : slots[s].mem[i] = log[i]

\* The whole runtime, whatever crashes, stalls and failing database calls do
\* to it, writes the log of one sequential executor (chaos suite, I1 and I2).
Promise == INSTANCE Conversation
WritesOneConversation == Promise!Spec

\* No command is spawned before the call that asks for it is in the log: after
\* any crash the log tells which commands may have run (turn.ts, exec.ts).
CommandsJournaled ==
  \A run \in started : /\ run[2] \in DOMAIN log
                       /\ log[run[2]] = Assistant(TRUE)

\* Every result in the log was observed: its command left an exit code in some
\* sandbox (exec.ts 44-45, port.ts "never synthesize a fake exit code").
ResultsObserved ==
  \A i \in DOMAIN log : log[i].type = "tool_result" =>
    \E run \in finished : run[2] = log[i].key

\* A slot that drives turn m has the m-th user message in memory, so the
\* reducer never meets a log without one (reducer.ts 25-27): message and job
\* are enqueued in one transaction.
TurnSeesItsMessage ==
  \A s \in Slots : slots[s].pc \in {"act", "tail", "reboot", "fail"} =>
    slots[s].job <=
      Cardinality({i \in DOMAIN slots[s].mem : slots[s].mem[i] = UserMessage})

\* Whatever workers died and whatever turns failed before, the request of an
\* inference pairs each tool call with its result (native-strategy.ts 5-9),
\* except for calls whose turn failed over them.
RequestsAnswerCalls ==
  \A s \in Slots : At(s, "infer") => WellAnswered(slots[s].mem)

\* As long as leases hold, one slot at a time drives the session's turns.
Driving(s) == Busy(s) /\ slots[s].job # 0 /\ slots[s].pc # "settle"
OneDriver == \A s, t \in Slots : Driving(s) /\ Driving(t) => s = t

\* The last user message has no terminal event behind it.
OpenTurn ==
  LastUser(log) > LastOf(log, "turn_completed")
  /\ LastUser(log) > LastOf(log, "turn_failed")

\* The outbox: a turn that still has to end always has a queued or running
\* job in the table, whatever worker is lost (service.ts sendMessage, Rule 1).
OpenTurnHasJob == OpenTurn /\ session.status = "ready" => HasActiveTurn

\* A new message never lands inside a turn that is still going on
\* (service.ts 203, "one in-flight turn per session").
MessagesBetweenTurns ==
  [][messages' # messages => ~OpenTurn]_vars

\* Every turn of a session that is not archived ends in a terminal event
\* (chaos suite, I4).
TurnsEnd == OpenTurn ~> (~OpenTurn \/ session.status = "archived")

\* The row and the log agree about provisioning: they change in one
\* transaction (provision.ts 44-58, 78-89).
ProvisionedOnce ==
  LET n == Cardinality({i \in DOMAIN log : log[i] = Provisioned})
  IN  /\ n <= 1
      /\ session.status = "provisioning" => n = 0
      /\ session.status = "ready" => n = 1 /\ session.box # 0

\* A session does not stay in provisioning: it becomes ready, or failed on the
\* last attempt, or the user archives it (provision.ts 66-68) - unless a message
\* may have taken the provisioner's seq, or the database failed it.
ProvisioningEnds ==
  <>(session.status # "provisioning" \/ messages > 0 \/ faults.db > 0)

\* No command runs in two sandboxes (chaos suite, I3: "no command is ever
\* executed twice"; within one sandbox the idemKey directory is the lock).
NoCommandTwice ==
  \A r1, r2 \in started : r1[2] = r2[2] => r1 = r2

-----------------------------------------------------------------------------
(* What the documentation says and the code does not keep.                 *)

\* turn.ts 62-64: the last attempt records a turn_failed "so a broken sandbox
\* never hangs the session": a turn job that is dead has its terminal event.
DeadTurnIsRecorded ==
  \A m \in JobId \ {0} : jobs[m].state = "dead" => ~OpenTurn

\* provision.ts 61: a provision that loses the seq does so because "another
\* worker already provisioned" the session.
ConflictMeansProvisioned ==
  \A s \in Slots :
    slots[s].pc = "settle" /\ slots[s].job = 0 /\ slots[s].outcome = "conflict"
    => session.status # "provisioning"

\* worker.ts 130-132: "if it fails and the job is stolen, nothing breaks": a
\* turn under way keeps a job in the table or a slot that drives it.
OpenTurnHasOwner ==
  OpenTurn /\ session.status = "ready" =>
    HasActiveTurn \/ \E s \in Slots : Busy(s) /\ slots[s].job # 0
=============================================================================
