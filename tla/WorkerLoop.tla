------------------------------ MODULE WorkerLoop -----------------------------
(***************************************************************************)
(* The lifecycle of worker processes (apps/worker/src/worker.ts, index.ts) *)
(* around the queue (packages/sessions/src/queue.ts): the pull loop and    *)
(* its wake-up, backpressure, heartbeats, drain and kill.  What a handler  *)
(* does for its session is TurnRuntime's subject; here it only ends, in    *)
(* one of the outcomes that the worker settles.                            *)
(*                                                                         *)
(* One member of Workers is one life of a process.  A claim is one         *)
(* statement, but it locks its row before it commits, and another pull     *)
(* skips a locked row.                                                     *)
(***************************************************************************)
EXTENDS Naturals, Sequences, FiniteSets

CONSTANTS
  Workers, Jobs,
  Concurrency,  \* FUNKY_WORKER_CONCURRENCY
  MaxAttempts,  \* turn_jobs.max_attempts
  MaxStops,     \* bound: processes that are drained, killed or lost
  MaxFaults,    \* bound: lost notifications and connections, failing statements
  MaxEvents     \* bound: jobs, stops and faults together

ASSUME WorkerLoopAssumption ==
  /\ Concurrency \in Nat \ {0} /\ MaxAttempts \in Nat \ {0}
  /\ MaxStops \in Nat /\ MaxFaults \in Nat /\ MaxEvents \in Nat

VARIABLES
  jobs,     \* the turn_jobs rows
  workers,  \* the state of startWorker's closure, by process
  faults,   \* how many faults there were
  stops     \* processes that were told to stop, or died

vars == <<jobs, workers, faults, stops>>

-----------------------------------------------------------------------------
\* "told" are the processes whose LISTEN connection was sent the NOTIFY, and
\* that no pull made skip the row without taking it.
Absent == [state |-> "none", attempts |-> 0, due |-> TRUE, lease |-> FALSE, told |-> {}]

Off == [loop |-> "off", got |-> {}, handling |-> {}, woken |-> FALSE, bells |-> 0,
        ears |-> FALSE, draining |-> FALSE, killed |-> FALSE]

Init ==
  /\ jobs = [j \in Jobs |-> Absent]
  /\ workers = [w \in Workers |-> Off]
  /\ faults = 0 /\ stops = 0

Running(w) == workers[w].loop \notin {"off", "gone"}

Enqueued == {j \in Jobs : jobs[j].state # "none" \/ jobs[j].attempts > 0}

EventLeft == Cardinality(Enqueued) + stops + faults < MaxEvents

Strikes == faults < MaxFaults /\ EventLeft /\ faults' = faults + 1

-----------------------------------------------------------------------------
(* The queue.                                                               *)

Claimable(j) ==
  \/ jobs[j].state = "queued" /\ jobs[j].due
  \/ jobs[j].state = "running" /\ ~jobs[j].lease

Locked(j) == \E w \in Workers : workers[w].loop = "locked" /\ j \in workers[w].got

\* A claim is rolled back, and its lock with it.
Released(w) ==
  [j \in Jobs |-> IF workers[w].loop = "locked" /\ j \in workers[w].got
                  THEN [jobs[j] EXCEPT !.told = {}] ELSE jobs[j]]

\* The row and the NOTIFY, in the caller's transaction.
Enqueue(j) ==
  LET listening == {w \in Workers : Running(w) /\ workers[w].ears}
  IN  /\ j \notin Enqueued /\ EventLeft
      /\ jobs' = [jobs EXCEPT ![j].state = "queued", ![j].told = listening]
      /\ workers' = [w \in Workers |->
           IF w \in listening THEN [workers[w] EXCEPT !.bells = @ + 1] ELSE workers[w]]
      /\ UNCHANGED <<faults, stops>>

BecomeDue(j) ==
  /\ ~jobs[j].due
  /\ jobs' = [jobs EXCEPT ![j].due = TRUE]
  /\ UNCHANGED <<workers, faults, stops>>

\* ack deletes; nack requeues with a backoff, without a NOTIFY, or buries.
Acked(row) == [Absent EXCEPT !.attempts = row.attempts]

Nacked(row) ==
  IF row.attempts >= MaxAttempts
  THEN [row EXCEPT !.state = "dead", !.lease = FALSE]
  ELSE [row EXCEPT !.state = "queued", !.due = FALSE, !.lease = FALSE]

\* Mutant: a drain ends the heartbeats, as a kill does.
KeepsLeaseUntilStop(w, j) ==
  \/ j \in workers[w].handling /\ ~workers[w].draining
  \/ workers[w].loop = "claimed" /\ j \in workers[w].got

\* A heartbeat, or the claim that was just made, keeps the lease.
KeepsLease(w, j) ==
  \/ j \in workers[w].handling /\ ~workers[w].killed
  \/ workers[w].loop = "claimed" /\ j \in workers[w].got

ExpireLease(j) ==
  /\ jobs[j].state = "running" /\ jobs[j].lease /\ \A w \in Workers : ~KeepsLease(w, j)
  /\ jobs' = [jobs EXCEPT ![j].lease = FALSE]
  /\ UNCHANGED <<workers, faults, stops>>

-----------------------------------------------------------------------------
(* Wake-ups.                                                                *)

\* Mutant: only a kill ends the loop.
AgainUntilKilled(worker) ==
  [worker EXCEPT !.loop =
     IF worker.killed THEN "done"
     ELSE IF Cardinality(worker.handling) >= Concurrency THEN "nap" ELSE "pull"]

\* The head of the loop, which runs on from where an await returned.
Again(worker) ==
  [worker EXCEPT !.loop =
     IF worker.draining THEN "done"
     ELSE IF Cardinality(worker.handling) >= Concurrency THEN "nap" ELSE "pull"]

\* startWorker: the loop starts at once, LISTEN completes some time later.
Boot(w) ==
  /\ workers[w].loop = "off"
  /\ workers' = [workers EXCEPT ![w] = Again(workers[w])]
  /\ UNCHANGED <<jobs, faults, stops>>

Listen(w) ==
  /\ Running(w) /\ ~workers[w].ears
  /\ workers' = [workers EXCEPT ![w].ears = TRUE]
  /\ UNCHANGED <<jobs, faults, stops>>

\* LISTEN fails, or its connection goes silent: nothing is sent there any more.
GoDeaf(w) ==
  /\ Running(w) /\ Strikes
  /\ workers' = [workers EXCEPT ![w].ears = FALSE, ![w].bells = 0]
  /\ jobs' = [j \in Jobs |-> [jobs[j] EXCEPT !.told = @ \ {w}]]
  /\ UNCHANGED stops

\* A notification on its way is lost.
LoseBell(w) ==
  /\ workers[w].bells > 0 /\ Strikes
  /\ workers' = [workers EXCEPT ![w].bells = @ - 1]
  /\ jobs' = [j \in Jobs |-> [jobs[j] EXCEPT !.told = @ \ {w}]]
  /\ UNCHANGED stops

\* signalWake: a waiting loop takes the flag with it, another finds it set.
Signalled(worker) ==
  IF worker.loop = "wait" THEN Again([worker EXCEPT !.woken = FALSE])
  ELSE [worker EXCEPT !.woken = TRUE]

Ring(w) ==
  /\ Running(w) /\ workers[w].bells > 0
  /\ workers' = [workers EXCEPT ![w] =
       [Signalled(workers[w]) EXCEPT !.bells = workers[w].bells - 1]]
  /\ UNCHANGED <<jobs, faults, stops>>

-----------------------------------------------------------------------------
(* The loop.                                                                *)

\* The subquery finds a row and locks it, or finds none that is not locked.
Lock(w) ==
  /\ workers[w].loop = "pull"
  /\ LET free == {j \in Jobs : Claimable(j) /\ ~Locked(j)}
     IN  \/ \E j \in free :
              workers' = [workers EXCEPT ![w].loop = "locked", ![w].got = {j}]
         \/ free = {} /\ workers' = [workers EXCEPT ![w].loop = "empty"]
  /\ UNCHANGED <<jobs, faults, stops>>

Claim(w) ==
  /\ workers[w].loop = "locked"
  /\ \E j \in workers[w].got :
       jobs' = [jobs EXCEPT ![j].state = "running", ![j].lease = TRUE,
                            ![j].attempts = @ + 1, ![j].told = {}]
  /\ workers' = [workers EXCEPT ![w].loop = "claimed"]
  /\ UNCHANGED <<faults, stops>>

\* pull throws: the claim was rolled back, or its reply was lost.
PullThrows(w) ==
  /\ workers[w].loop \in {"pull", "locked", "claimed", "empty"} /\ Strikes
  /\ workers' = [workers EXCEPT ![w].loop = "nap", ![w].got = {}]
  /\ jobs' = Released(w) /\ UNCHANGED stops

\* Mutant: a job that arrives during the shutdown is handled all the same.
DispatchAnyway(w) ==
  /\ workers[w].loop = "claimed"
  /\ workers' = [workers EXCEPT ![w] =
       Again([workers[w] EXCEPT !.got = {}, !.handling = @ \cup workers[w].got])]
  /\ UNCHANGED <<jobs, faults, stops>>

\* The claim arrives.  A loop that shuts down leaves the job to its lease.
Dispatch(w) ==
  /\ workers[w].loop = "claimed"
  /\ workers' =
       IF workers[w].draining
       THEN [workers EXCEPT ![w].loop = "done", ![w].got = {}]
       ELSE [workers EXCEPT ![w] =
              Again([workers[w] EXCEPT !.got = {}, !.handling = @ \cup workers[w].got])]
  /\ UNCHANGED <<jobs, faults, stops>>

\* Mutant: the wait does not look at the flag.
WaitRegardless(w) ==
  /\ workers[w].loop = "empty"
  /\ workers' = [workers EXCEPT ![w].loop = "wait", ![w].woken = FALSE]
  /\ UNCHANGED <<jobs, faults, stops>>

\* waitForWakeOrTimeout: a wake-up that is already there is taken at once.
Wait(w) ==
  /\ workers[w].loop = "empty"
  /\ workers' = [workers EXCEPT ![w] =
       IF workers[w].woken THEN Again([workers[w] EXCEPT !.woken = FALSE])
       ELSE [workers[w] EXCEPT !.loop = "wait"]]
  /\ UNCHANGED <<jobs, faults, stops>>

\* Mutant: the loop waits for a NOTIFY only.
TimeoutNever(w) ==
  /\ workers[w].loop = "nap"
  /\ workers' = [workers EXCEPT ![w] = Again(workers[w])]
  /\ UNCHANGED <<jobs, faults, stops>>

\* A timer: the fallback poll, the backpressure, the pause after an error.
Timeout(w) ==
  /\ workers[w].loop \in {"wait", "nap"}
  /\ workers' = [workers EXCEPT ![w] = Again(workers[w])]
  /\ UNCHANGED <<jobs, faults, stops>>

-----------------------------------------------------------------------------
(* The handlers.                                                            *)

\* The row after a handler's settlement; a killed one leaves it alone.
SettledRow(w, j, outcome) ==
  IF workers[w].killed THEN jobs[j]
  ELSE IF outcome = "ack" THEN Acked(jobs[j]) ELSE Nacked(jobs[j])

Finish(w, j) ==
  /\ j \in workers[w].handling
  /\ \E outcome \in {"ack", "nack"} :
       jobs' = [jobs EXCEPT ![j] = SettledRow(w, j, outcome)]
  /\ workers' = [workers EXCEPT ![w].handling = @ \ {j}]
  /\ UNCHANGED <<faults, stops>>

\* The settlement throws, its effect landed or not.  A failed ack is followed by
\* a nack, which may fail, too: the heartbeat ends all the same.
FinishThrows(w, j) ==
  /\ j \in workers[w].handling /\ ~workers[w].killed /\ Strikes
  /\ \/ UNCHANGED jobs
     \/ \E row \in {Acked(jobs[j]), Nacked(jobs[j])} : jobs' = [jobs EXCEPT ![j] = row]
  /\ workers' = [workers EXCEPT ![w].handling = @ \ {j}]
  /\ UNCHANGED stops

-----------------------------------------------------------------------------
(* The end of a process.                                                    *)

StopLeft == stops < MaxStops /\ EventLeft

MayEnd(w) == Running(w) /\ ~workers[w].draining /\ StopLeft /\ stops' = stops + 1

\* SIGTERM: no more pulls; the handlers end with their heartbeats on.
Stop(w) ==
  /\ MayEnd(w)
  /\ workers' = [workers EXCEPT ![w] = Signalled([workers[w] EXCEPT !.draining = TRUE])]
  /\ UNCHANGED <<jobs, faults>>

\* kill(): no heartbeats, no settlements; the handlers run on.
Kill(w) ==
  /\ MayEnd(w)
  /\ workers' = [workers EXCEPT ![w] = 
       Signalled([workers[w] EXCEPT !.draining = TRUE, !.killed = TRUE])]
  /\ UNCHANGED <<jobs, faults>>

\* The loop has returned and nothing is in flight.
Exit(w) ==
  /\ workers[w].loop = "done" /\ workers[w].handling = {}
  /\ workers' = [workers EXCEPT ![w] = [Off EXCEPT !.loop = "gone"]]
  /\ UNCHANGED <<jobs, faults, stops>>

\* The process dies, by itself or because a drain takes more than 120 s.
Die(w) ==
  /\ Running(w)
  /\ IF workers[w].draining THEN UNCHANGED stops ELSE StopLeft /\ stops' = stops + 1
  /\ workers' = [workers EXCEPT ![w] = [Off EXCEPT !.loop = "gone"]]
  /\ jobs' = Released(w) /\ UNCHANGED faults

-----------------------------------------------------------------------------
Loop(w) ==
  \/ Boot(w) \/ Lock(w) \/ Claim(w) \/ Dispatch(w) \/ Wait(w) \/ Timeout(w)
  \/ Exit(w)

Next ==
  \/ \E j \in Jobs : Enqueue(j) \/ BecomeDue(j) \/ ExpireLease(j)
  \/ \E w \in Workers :
       \/ Loop(w) \/ Listen(w) \/ GoDeaf(w) \/ LoseBell(w) \/ Ring(w) \/ PullThrows(w)
       \/ Stop(w) \/ Kill(w) \/ Die(w)
       \/ \E j \in Jobs : Finish(w, j) \/ FinishThrows(w, j)

Spec == Init /\ [][Next]_vars

\* Timers fire, statements return, handlers end, leases of the dead expire.
\* Nothing is assumed of NOTIFY.
Fairness ==
  /\ \A w \in Workers : WF_vars(Loop(w)) /\ WF_vars(\E j \in Jobs : Finish(w, j))
  /\ \A j \in Jobs : WF_vars(BecomeDue(j)) /\ WF_vars(ExpireLease(j))

FairSpec == Spec /\ Fairness

-----------------------------------------------------------------------------
(* Properties.                                                              *)

LoopState == {"off", "pull", "locked", "claimed", "empty", "wait", "nap", "done",
              "gone"}

JobRow == [state : {"none", "queued", "running", "dead"}, attempts : Nat,
           due : BOOLEAN, lease : BOOLEAN, told : SUBSET Workers]

Worker == [loop : LoopState, got : SUBSET Jobs, handling : SUBSET Jobs, woken : BOOLEAN,
           bells : Nat, ears : BOOLEAN, draining : BOOLEAN, killed : BOOLEAN]

\* The type invariant.
TypeOK ==
  /\ jobs \in [Jobs -> JobRow]
  /\ workers \in [Workers -> Worker]
  /\ \A w \in Workers : \A i, j \in workers[w].got : i = j
  /\ faults \in 0 .. MaxFaults
  /\ stops \in 0 .. MaxStops

\* No lost wake-up: a loop never sits in its wait while a new job is in the
\* queue whose NOTIFY its connection was sent and has delivered.
PromptPickup ==
  \A w \in Workers, j \in Jobs :
    /\ workers[w].loop = "wait" /\ workers[w].bells = 0 /\ w \in jobs[j].told
    /\ jobs[j].state = "queued" /\ jobs[j].attempts = 0
    => Locked(j)

\* A worker that drains never sits out the poll interval (worker.ts 196 "break
\* any in-progress idle wait so the loop exits promptly").
DrainIsPrompt ==
  \A w \in Workers : workers[w].draining => workers[w].loop # "wait"

\* While nobody is killed, a job is in the hands of one process: those of a
\* drain keep their leases to the end (worker.ts 194).
OneHandler ==
  \A w, v \in Workers, j \in Jobs :
    /\ j \in workers[w].handling /\ ~workers[w].killed
    /\ j \in workers[v].handling /\ ~workers[v].killed
    => w = v

\* Never more than FUNKY_WORKER_CONCURRENCY turns at once, claims that arrive
\* late included.
ConcurrencyRespected ==
  \A w \in Workers :
    Cardinality(workers[w].handling)
      + (IF workers[w].loop \in {"locked", "claimed"} THEN 1 ELSE 0) <= Concurrency

TakesNothing ==
  \A w \in Workers : workers[w].draining => workers'[w].handling \subseteq workers[w].handling

\* After the signal no handler starts, wherever the loop was.
NoWorkAfterStop == [][TakesNothing]_vars

\* Every job is settled as long as one process stays: lost notifications, deaf
\* listeners, abandoned claims and failed settlements only delay it.
JobsEnd ==
  []<>(\A j \in Jobs : jobs[j].state \in {"none", "dead"})

\* A process that was told to stop is gone after a while.
StopsEnd ==
  []<>(\A w \in Workers : ~workers[w].draining)
=============================================================================
