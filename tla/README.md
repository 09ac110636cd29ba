# Verification of the funky runtime

funky runs agent sessions durably. The state of a session is an append-only
event log in Postgres; API processes add user messages to it, worker processes
take jobs from a table, replay the log through a pure reducer, do the one thing
it orders (call the model, run a command in a sandbox, end the turn) and append
the result under a conditional insert. Any worker may die, stall or be cut off
from the database at any point.

This directory holds TLA+ models of that runtime, the TLC configurations that
check them on small instances, and TLAPS proofs about them. All paths are
relative to the repository root; `sessions/` is `packages/sessions/src/`.

## Inventory

| component | code | state it keeps | operations | what makes it correct |
|---|---|---|---|---|
| event log, reducer | `sessions/events.ts`, `reducer.ts` | none (pure) | `nextAction`, `idemKeyFor`, schemas | results answer calls; a call is answered before its turn goes on or completes; the iteration budget |
| event store | `sessions/store.ts` | `session_events` | `readEvents`, `readPage`, `appendEvent`, `lastSeq` | one event per seq; an append from an old copy fails |
| turn shell, native strategy | `sessions/turn.ts`, `native-strategy.ts`, `strategy.ts` | the log in memory, last attempt, handle | `runTurn`, the action loop, `buildContext`, `mapError`, `terminalFail` | the log reads as if one executor had written it; each turn ends; the model's request pairs calls and results |
| exec with reboot | `sessions/exec.ts` | handle in memory and in the row | `runExec`, one reboot, `persistHandle` | results are observed; nothing runs twice |
| provisioning | `sessions/provision.ts` | `sessions.status`, handle | `runProvision`, `failProvision` | provisioned once; ready or failed in the end |
| job queue | `sessions/queue.ts` | `turn_jobs` | `enqueue`, `pull`, `extendLease`, `ack`, `nack`, `hasActiveTurn`, `depth`, `onWake` | one worker per job while leases hold; an open turn has a job |
| worker loop | `apps/worker/src/worker.ts`, `index.ts` | in-flight count, heartbeats, wake flag, drain and kill flags | pull loop, `handle`, `stop`, `kill`, shutdown | no wake-up is lost; drain keeps its leases, takes nothing new and ends |
| session service | `sessions/service.ts` | `sessions` | `create`, `archive`, `sendMessage`, reads | message and job are one; one turn at a time; idempotent create |
| harness strategy | `sessions/harness-strategy.ts`, `packages/ports/harness` | attempt token, append chain, transcript entries, vendor state | claim, recovery, exec bridge, fenced mirror, commit | a zombie's writes bounce; a call is settled once; transcript and log agree |
| sandbox drivers | `packages/ports/sandbox` | `.funky/<idemKey>/{out,exit}` | provision, reboot, teardown, exec, attach, tail | at most one spawn per key; one exit code, not invented; whole output |
| event stream | `apps/api/src/sse.ts`, `routes/sessions.ts`, `apps/web/src/lib/api.ts` | subscriptions, cursor, wake flag; the browser's last id | subscribe, replay, live loop, heartbeat, cleanup, resume | dense, ordered, nothing lost, nothing left behind |
| configuration services | `packages/configs/src` | agents, versions, environments | create, update, archive, delete, get, list | versions are immutable and gapless; archive is final; no update is lost |
| web console | `apps/web/src/console` | events received, "sending" latch, requests | chat, quick start, configuration pages | the composer is given back only behind a turn or a send that failed; what is in the log is shown |
| llm drivers | `packages/ports/llm` | none | `complete`, `toModelMessages` | the request's calls and results carry matching ids; the provider is external |
| API surface, worker config and health, migrations, chaos suite | `apps/*`, `packages/db`, `tests/chaos` | none of the runtime's | routes, environment parsing, metrics | see Not modelled |

How they interact: the API and the workers share nothing but the database.
`create` inserts the session and its provision job, `sendMessage` the event and
its turn job, each in one transaction; workers claim jobs with a lease they
renew by heartbeat, and settle them with ack (delete) or nack (requeue or bury).
Workers reach the sandbox by the handle in the session row and address a
command by its idempotency key, which is the log position of its call.

A session of a harness agent runs the same queue and log under another
strategy: the vendor's binary decides, and the worker journals what it does. The
API reads the log back to browsers through NOTIFY and a cursor; sessions are
created against rows that the configuration services edit concurrently.

The hard behaviour is what crosses those boundaries: a stalled worker that goes
on with an old copy of the log, two workers on one job, a crash between a
command and its result, a commit whose reply is lost, a message in the middle of
a provision transaction, an off-by-one between three places that compare
`attempts` with `maxAttempts`. `PROJECT.json` lists these hazards by line.

## Modules

`Reducer` holds the event vocabulary and `nextAction`. An event is its type,
whether an assistant message carries a tool call, the key a result answers and
the class of a failure. The native runtime caps calls at one per message
(`events.ts:59`), so a call's key is the seq of its message. Positions are
1-based and 0 stands for `findLastIndex`'s -1; the comparison
`lastAssistant < lastUser` keeps its meaning. The empty log, on which the code
throws, is outside `NextAction`'s domain; `TurnSeesItsMessage` shows that no
worker gets there.

`Conversation` is the abstract specification: a log extended by user messages,
provisioning events and, within a turn, by exactly the event the reducer orders
on the log as it stands (or by `turn_failed` with the class of the step that
failed). No workers, no leases, no copies.

`MCConversation` bounds the length of that log for TLC.

`TurnRuntime` is the runtime of one session in detail.

| model | code |
|---|---|
| `log` | `session_events` of the session, by seq |
| `session` | the `sessions` row: `status`, `sandbox_handle` (0 is null), `archived_at` set |
| `jobs[0]`, `jobs[m]` | the provision job and the turn job of message m; "none" once acked |
| `slots[s]` | one `handle(job)` call of some worker: where it is, its job, `lastAttempt`, its copy of the log, its handle, its outcome |
| `boxes` | sandboxes the provider has created |
| `started`, `finished` | commands spawned, and those with an exit code, per sandbox and key |
| `faults` | fault budget used up |
| `SendMessage`, `Archive` | `service.ts` `sendMessage`, `archive` |
| `Pull`, `Heartbeat`, `ExpireLease`, `Stall` | `queue.ts` `pull`, `extendLease`; a lease that runs out on a dead or a live worker |
| `Settle`, `SettleThrows` | `worker.ts` `handle`: the outcome switch and its catch |
| `Gate`, `ReadEvents`, `ReadThrows` | `turn.ts`, up to the try |
| `Infer`, `Noop`, `Finish`, `ExhaustBudget`, `LlmFails` | `native-strategy.ts`, one case each |
| `StartExec`, `Collect`, `ExecFails`, `Reboot`, `RebootFails` | `exec.ts` |
| `MapError`, `RecordFailure`, `AppendThrows` | `mapError`, `terminalFail`, a failing insert |
| `ProvisionGate`, `CreateBox`, `CreateBoxFails`, `OpenTx`, `CommitTx`, `TxThrows`, `GiveUpProvision` | `provision.ts` |
| `CommandExits` | the sandbox: a command runs on whoever watches it |
| `Crash` | the process dies, its memory is gone |

Each await on shared state is a step. A database transaction takes effect at
its commit; what it read earlier it keeps (`OpenTx` reads `lastSeq`, `CommitTx`
loses if the seq is taken by then). `sendMessage` holds the session row from its
first read and its one retry after a conflict leaves no trace of the first
attempt, so it is one step. Steps that touch only the slot's memory (the
reducer, building the context, the model's reply before its append) are part of
the append that follows.

Abstractions: the backoff delay (a queued job may be claimed at once, which
contains every delay); the model's reply and its errors, which are free choices;
command output and exit codes; the namespace; a lease is a flag that expires
when its worker is gone, or by a bounded `Stall` when it is not. `FreshBoxes`
says whether `provision` makes a new sandbox on each call (docker, ComputeSDK)
or returns the session's own directory (subprocess). A ready session starts in
the state its provision job leaves behind, so that the runs about turns need not
repeat the provisioning. `kill()` differs from `Crash` in that the handler runs
on; what it can still do to the log is what a stalled slot can.

`IdemExec` is what the sandbox port promises about one idempotency key
(`packages/ports/sandbox/src/port.ts`): one run of the command, one exit code,
and each caller told that code or that nothing could be observed.

`SandboxExec` is one key's directory `<workdir>/.funky/<key>` and the exec calls
that race for it, on the subprocess driver or on the ComputeSDK driver (docker,
e2b), under the single reboot of `exec.ts`. The initial state picks the driver,
whether the call has a timeout, and whether the command ignores the SIGTERM that
is all `timeout(1)` sends (`computesdk.ts:212`; the timer of the subprocess driver
sends SIGKILL).

| model | code |
|---|---|
| `files` | does the directory exist, the size of `out`, the content of `exit` |
| `runner`, `rc` | the shell `(cmd) > out; echo $? > exit`: not there, about to start, running, ended its command, has opened `exit`, done, dead |
| `timer`, `owner` | the `setTimeout` of `subprocess.ts` in the process of the caller that took the lock |
| `box` | the sandbox: up, stopped or paused, gone |
| `callers[c]` | one exec call: where it is, rebooted yet?, code seen, bytes read, cap noticed, torn characters |
| `runs`, `written` | history: starts of the command, bytes when it ended |
| `Exec`, `Spawn` | `mkdir` as the lock, then the spawn by the worker, or by the start script inside the sandbox |
| `MkdirFails`, `StartFails` | the start script takes any failure of `mkdir` for a lost lock (`computesdk.ts:220`), and does not look whether what it writes and starts is there |
| `ShellDies` | the shell is killed from outside, or cannot write `exit` |
| `Write`, `Finish`, `TimeoutInside`, `OpenExit`, `StampExit` | the shell; `timeout(1)` of `computesdk.ts` |
| `TimerFires` ... `TimerStamps` | SIGKILL, exists, open, write: one step each |
| `Check`, `Drain` | `tail`. subprocess alternates drain and check, the poll script check and slice; both return after a drain that follows a successful check |
| `Unreachable`, `CallFails`, `Reboot`, `Fail` | a wrapper exit that is not 0, a system call that throws, `makeExecWithReboot` |
| `Crash`, `Outage` | a worker dies; a container or host stops, with or without its processes, or expires |

Output is a number of bytes; the text of a reader is the set of characters its
chunk boundaries tore. A killed shell stops at once. A command may hang and may
leave a child that goes on writing after the stamp (`Daemons`). The port's
`attach` and `teardown` have no caller outside the tests and are left out.
`TurnRuntime` uses the promise and not the files: its `StartExec` is the lock and
the spawn, its `CommandExits` is fair, so `TurnsEnd` holds of it up to an
orphaned key.

`HarnessTurn` is the turn of a harness agent, from the fence to the commit. One
attempt is three threads on one copy of the log: the turn, the exec tool's
handlers and the projection of assistant text.

| model | code |
|---|---|
| `log`, `job`, `Pull`, `ExpireLease`, `Stall`, `Settle` | as in `TurnRuntime`; one message's job at a time |
| `session.fence`, `session.state` | `harness_attempt`, `harness_state`: named by the seq of the attempt's event |
| `transcript` | `harness_transcript_entries` by ord, with attempt and position in that attempt; an entry whose position is in `Anonymous` has no uuid |
| `slots[s].chain`, `seq` | the promise chain of `ctx.append`: waiting appends, and the seq of the one under way |
| `slots[s].execs` | handlers that journaled their call and await its command |
| `slots[s].local`, `sent`, `mirror` | the vendor's entries, those handed to the mirror, what `mirror_error` will say |
| `slots[s].goal`, `end` | the terminal event of a turn, and the seq it was issued for |
| `Fence`, `FenceThrows` | attempt event and token in one transaction (`harness-strategy.ts` 77-98) |
| `Recover`, `RecordRecovered`, `RecoveryFails`, `RecoveryThrows` | the pre-pass over unanswered calls; its append may throw although it landed |
| `Say`, `ChainLands`, `ChainConflicts`, `ChainThrows`, `Exec`, `Report`, `ExecThrows` | the driver's callbacks (`claude-code.ts`) |
| `Flush`, `FlushReplyLost`, `DropBatch`, `Observe` | the guarded insert of `claude-code-store.ts`, the vendor SDK's retries, `mirror_error` |
| `VendorResult`, `VendorFails`, `StreamEnds`, `Throw`, `End`, `EndThrows` | end of `runTurn`, commit transaction or `terminalFail` |

Handlers, chain and batches of a turn that has returned go on in its slot until
they are through, as they do in the process. A batch that is sent again,
since the reply of the first insert was lost, holds its entries again: the partial
unique index skips those with a uuid, the others are inserted once more
(`Batches`; which of the entries not yet acknowledged a batch takes up is the
SDK's choice, in order). Left to data: what the vendor says
and in which order (a free choice of text, call, result, failure), the entry
from which it resumes, and the tip of the transcript.

`WorkerLoop` is the life of worker processes: `jobs` as rows with "due" and
"lease" flags, `workers[w]` as the closure of `startWorker` (where the loop is,
the claim under way, handlers, wake flag, notifications on their way, LISTEN up,
draining, killed). `told` is history: the processes whose LISTEN connection was
sent the NOTIFY of a job and that no pull has since made skip it. `Lock` and
`Claim` split the one claiming statement where `SKIP LOCKED` tells; what a
handler does for its session is the subject of the other modules, here it ends in
one of the outcomes the worker settles. A death stands for a crash and for the
forced exit after 120 seconds of drain.

`EventStream` is one session's log as one browser sees it: `bell` (a NOTIFY on
its way), `streams` (calls of `runSseStream` with cursor, flags and whether the
peer is there), `wire` (ids written and not yet received), `source` (the
EventSource with the last id it got). A broken connection is noticed by the
browser at once and by the server some time later, so two requests overlap.
`Console` adds `Chat.tsx` on top: the events shown, the "sending" latch,
`send()` with `waitReady`, and the API's answer; sessions and turns append what a
reader sees of them, and a job may end before its turn has (an acked conflict, the
nack of a last attempt).

The page is one sender of several (`OthersSend`): the quick start
(`QuickStart.tsx:74`) and the sessions page (`Sessions.tsx:158`) post the first
message and then open the chat, which starts without events and not busy; a second
tab and other clients of the API post when they like. So the page may post into a
turn that it does not show yet, and what keeps messages out of open turns is the
API's look at the job table (`Refused`), which `MessagesBetweenTurns` of
`TurnRuntime` is about. There may be several calls of `send()`, counted by the stage
they are at (`sends`): another sender's turn drops the latch while a call is out
(`Render`), the next click may then start a second one, and the `catch` of the first
drops the latch of the second (`Fails`). Calls of a page that was opened anew have no
component to answer to and are other senders.

`Configs` is the two configuration services and `create` of the session service,
one database statement per step: `call[c]` is the request a client waits for,
with what it has read so far. A body is a function from field names to values, so
"changes only the fields it names" can be said. `Unlocked` is `SELECT ... FOR
UPDATE`. `walk` is a reader that pages through the agents by `last_id`.

`Context` is `buildContext` and `toModelMessages`, as operators on a log: what
remains of an event is its role, whether it carries a call, and the id that
pairs call and result. What the two loops push is given by the positions they push
at (`Said`, `NotSystem`, the k-th of them `Nth`), which can be reasoned about, a
selection by recursion cannot. `RequestsAnswerCalls` in `TurnRuntime` applies them
to the memory of every worker about to infer.

`ConversationProofs`, `TurnRuntimeProofs`, `TurnRuntimeImplements`,
`SandboxExecProofs`, `HarnessTurnProofs`, `WorkerLoopProofs`, `ConsoleProofs` (of
`EventStream`, too) and `ConfigsProofs` hold the theorems. `MCTurnRuntime`,
`MCHarnessTurn` and `MCConfigs` add the symmetry of interchangeable slots,
clients and values, used only in runs without liveness.

Definitions commented "Mutant" are variants of the definition that follows them,
each with a plausible bug. They are not part of the specification; substituting
one for its original makes the property it is paired with in `PROJECT.json`
fail, which shows that the property depends on that code.

## Runs

| run | instance | question |
|---|---|---|
| `conversation` | logs of up to 8 events, budget 3 | does the reducer alone keep calls and results paired, within budget, and answered before the turn goes on? |
| `faults` | 2 slots, 1 message, 2 attempts, 2 iterations, 1 crash, 2 stalls, 1 database fault | do old copies, duplicate drivers and lost replies leave a sequential log, journaled commands and observed results? |
| `outbox` | 2 slots, 2 messages, 2 attempts, 2 iterations, 2 crashes, fair | while leases hold, is there one driver, does the open turn keep its job, do messages stay between turns, does each turn end, and does each request to the model pair calls and results? |
| `provision` | 2 slots, 1 message, 2 attempts, 1 crash, 1 database fault, a new sandbox per call, fair | is a session provisioned once, and does provisioning end? |
| `exec_once` | 2 callers, both drivers, commands that heed a SIGTERM or do not, 2 bytes under a cap of 1, 1 crash, 1 outage, 1 fault (a lost call, a failing `mkdir`, a shell that dies or is not started), fair | does the command run once, is no byte lost, is the port's promise kept, and what can keep a call from ending? |
| `harness` | 2 slots, 1 message, 2 attempts, 2 outputs of the vendor of which the second has no uuid, 1 crash or database fault | is each call settled once by handler, recovery and late handler together, and does a completed turn have its whole transcript? |
| `harness_faults` | the same with 1 output and stalls as well, fair | do a lost attempt's threads bounce off log and transcript, and what can keep a turn from ending? |
| `workers` | 2 processes, 2 jobs, concurrency 1, 1 stop, 1 fault, 3 events in all, fair | is no wake-up lost, does a drain keep its jobs and take nothing new, does every job and every stop end? |
| `console` | 2 concurrent requests, pages of 2, a log of 4, 2 messages by whoever sends them, 2 calls of `send()` at a time, 1 fault of any kind, fair | is the stream dense over cuts and restarts, does it sleep only when done, are streams cleaned up, is every event shown, and is the composer given back only behind a turn or a failed send? |
| `configs` | 2 clients, 2 agents, 1 environment, 1 session, 2 namespaces, 2 values, pages of 1, 4 calls | do racing calls keep versions, pins, edits, idempotent creates and pagination right? |
| `dead_while_provisioning`, `text_races_commit` | the smallest instance each needs | see Findings |

Bounds. Two slots are a current owner and a stale one; a third slot could only
lose its append to the same unique key. Two attempts are a retry and the last
attempt, the two cases the code tells apart. Two iterations let the budget be
reached after a tool result and leave room for a crash on either side of it. Two
messages make one turn follow another. Eight events and a budget of three hold two
turns, one of them with a tool call, or one turn with two. The fault budgets allow
each fault in combination with the others and keep liveness meaningful: a worker
that always crashes ends nothing.

Two callers are a worker and the one that takes its job over. A cap of one byte
lies between an empty output, an output it holds and one it cuts. One fault of
each kind, in any order, lets a caller be lost before or after the spawn, see
its sandbox vanish, and retry.

A harness turn with two outputs has a call beside a text, or two calls, in
flight at once; with one it already has a zombie with a handler, a chained
append and a batch when the next attempt claims the fence. An entry with a uuid
beside one without are the two cases of the index. One message suffices
for the attempts of one turn; `AttemptsDoNotMix` speaks of the next message, too,
and a larger instance (2 messages, no symmetry) shows nothing else but takes
longer than the others. Three events of the worker pool are two jobs and a stop
or fault, or one job with a stop and a fault. Pages of two events make a log of
four end on and inside a page. Two calls of `send()` are the one whose latch was dropped and
the next. Four calls of the configuration services are a
create, two racing updates or creates, and a third party (archive, session,
walk); two agents suffice for an order of pages. Numbers of versions and
behaviour fields are bounded by the calls.

Symmetry is used where slots, or clients with values and namespaces, are
interchangeable and the run checks invariants and properties of single steps
only. Deadlock is not checked: a session without further messages, a pool whose
processes are gone and services without calls are at rest.

Fairness of `TurnRuntime` (`FairSpec`). Weak fairness of each slot's own step:
`handle` awaits calls that return or throw, and an answer of either kind is a
step. Weak fairness of pulling by some slot: the loop polls every few seconds
even without a wake-up. Weak fairness of `ExpireLease`: time passes. Weak
fairness of `CommandExits`: a command terminates or is killed. Messages,
archiving, heartbeats and faults are not fair. Fairness of a slot's step does not
force a success: model and sandbox may fail every time, and `TurnsEnd` then holds
by `terminalFail` on the last attempt.

In `SandboxExec`: weak fairness of a waiting caller's own step (calls return or
throw; `tail` polls), of the spawn, of the shell's stamp, of `timeout(1)` ending a
command that does not ignore SIGTERM, and of the timer's steps. Neither the
command's end nor its output is fair.

In `HarnessTurn`: weak fairness of the turn's steps and of its driver's, per
slot, besides pulling, lease expiry and command exits. The vendor is a process
whose stream yields or ends; it is not forced to succeed.

In `WorkerLoop`: weak fairness of a process's loop (timers fire, statements
return), of its handlers' ends, of a backoff and of leases running out. Nothing
is assumed of NOTIFY, so `JobsEnd` rests on polling alone.

In `Console`: weak fairness of the server's reads, writes and clean-up, of the
browser's reads and reconnects, and of rendering. Nothing is assumed of NOTIFY; the
15-second heartbeat reads the log. Users, requests and turns are not fair.

Exclusions. `CallsEnd` excludes by `Orphaned` the ways in which a key stays without
a code that its callers, who poll with a fresh lease, wait for:

* the shell died, with its sandbox or host, by a kill from outside, or in the
  moment between opening and writing `exit` (the timer then takes the empty file
  for a result);
* it was never spawned, because the worker died right behind the `mkdir`, or the
  start script could not write or start it;
* the directory was not made: `mkdir` failed for another reason than that it
  exists, and the ComputeSDK driver tails it all the same;
* the command hangs, and nothing is left to end it: on the subprocess driver the
  timer died with its worker, on the ComputeSDK driver the command ignores the one
  SIGTERM of `timeout(1)`.

The run shows that, under the steps and faults the module has, a call with a
timeout ends in every other case. It is no statement about faults outside the
module, such as a file system that loses what was written.

`ProvisioningEnds` excludes two circumstances by name, a message and a database
fault: a message may take the provisioner's seq (see Findings), and a commit that
throws on the last attempt buries the job.

`HarnessTurn!TurnsEnd` excludes a stolen lease, a failed database call, and an
append that took effect without its turn waiting for it (`stray`): the race of
`text_races_commit`, and a handler's append that lands behind `retry_later` or
`turn_failed`. Under the module's steps and faults every other turn ends.

`SendsATurnApart` speaks of one page between two of its clicks, and excludes a
`send()` of that page that failed: its `catch` gives the composer back while the
message may well be in the log. A page opened anew has no last click.
`WellAnswered` excludes calls that a failed turn abandoned (see Findings).

## Findings

Two disagreements between the code and what it says of itself are kept as runs
that must find a violation.

* `dead_while_provisioning`: the gate's `retry_later` (`turn.ts:70`) ignores the
  last-attempt rule stated above it. With five attempts and a backoff of 2, 4, 8
  and 16 seconds, a message sent while a sandbox takes longer than half a minute
  dies without a terminal event.
* `text_races_commit`: the driver appends assistant text without awaiting it
  (`claude-code.ts:225`), and the commit (`harness-strategy.ts:165`) takes its seq
  from the same array beside the chain. When the text lands first, the commit
  meets the unique key, the turn returns "conflict", the job is acked, and the
  turn stays open without a job.

Others are stated as properties in the modules without a run of their own. Each
is violated on a small instance:

| property | instance | what happens |
|---|---|---|
| `TurnRuntime!ConflictMeansProvisioned` | as `dead_while_provisioning` | a user message takes the seq of the provision transaction; the conflict is read as "another worker already provisioned" (`provision.ts:61`), the job is acked, the session stays in provisioning |
| `TurnRuntime!OpenTurnHasOwner` | `StartReady`, 1 stall, 1 crash | settling goes by job id: the loser of a stolen lease deletes the row of the new owner; if that one crashes, nobody resumes the turn |
| `TurnRuntime!OneDriver` | `StartReady`, 3 attempts, 1 database fault | a nack that throws although it took effect is followed by the nack of `handle`'s `catch`, by job id again, which requeues the row that another worker has claimed meanwhile |
| `TurnRuntime!ProvisionedOnce` | not `StartReady`, 1 stall | as the next one: `session_provisioned` is written twice |
| `TurnRuntime!RequestsAnswerCalls` | `StartReady`, 2 messages, 2 attempts, 1 stall | the loser of a stolen lease fails over a call and nacks; the attempts of the second claim count, so the row is dead while its owner has yet to read the log; the next message is accepted, and the owner infers on a call without result and without `turn_failed` |
| `TurnRuntime!NoCommandTwice` | `FreshBoxes`, not `StartReady`, 1 stall, or 3 attempts and 1 database fault | the provision transaction does not read the status again: a stalled provisioner moves the session to a second sandbox, where a redelivered turn runs a journaled command again |
| `SandboxExec!ReattachesOrReruns` | 1 caller, 1 outage, `FairSpec` | the reboot starts a container with its files and without its processes: the retried exec attaches and polls for a code nobody will write, while the heartbeat keeps the lease. The same without an outage: 1 caller, 1 fault, where `mkdir` fails and is taken for a lost lock (`computesdk.ts:220`); or a command that ignores SIGTERM (`computesdk.ts:212`) and never ends |
| `SandboxExec!ReadersAgree` | 2 callers, 2 bytes of one character (`CharBytes = 2`) | each chunk of `out` is decoded by itself: a character cut by a poll is torn for one reader and whole for another |

Observed while modelling and not stated as properties:

* A mirror batch whose insert landed and whose reply was lost is sent again, and
  its entries without a uuid are inserted a second time: `claude-code-store.ts:79-80`
  says so, while the header of the same file says the index "makes re-delivery a
  no-op" (13-14) and the schema "skipped, never duplicated"
  (`harness-transcript.ts:46`). Whoever loads the transcript reads them twice.
  `CommitIsWhole` allows these rows and no others.
* The chat drops "sending" when it shows a turn go live. Events that arrive together
  are rendered together, so a turn that begins and ends between two renders leaves
  the latch up until the page is opened anew; another sender's turn drops it while
  the page's own message is on its way.
* The chat that the quick start or the sessions page opens behind its first message
  is not busy until the stream has shown that message; a message posted until then
  is refused with 409.
* The provision transaction overwrites the status of a session archived
  meanwhile (`provision.ts:48`, `service.ts:186`).
* A call whose turn failed with SANDBOX_FATAL or INTERNAL stays without a result
  in every later request (`native-strategy.ts:5-9`), under an id of its own; a
  provider that refuses such requests makes every later turn end in
  LLM_PERMANENT.
* A failed fence transaction returns `retry_later` on the last attempt, too
  (`harness-strategy.ts:90-93`): a dead job and an open turn. The same holds for a
  read of the log that throws before the `try` of `turn.ts`.
* Two texts pending at the end of a harness turn may leave one of them behind
  `turn_completed`. A crash between a result's append and the mirror leaves the
  result logged without its transcript entry (`DESIGN.md` 4.3); the transcript's
  tip is read before the fence commits (`DESIGN.md` 5.1).
* A worker without a driver for the agent fails the turn without claiming the
  fence, and an attempt of another worker runs on.
* An environment may be edited behind its archive by an update that read it
  before (`envs-service.ts:103-121`). A session create that is retried with a bare
  agent id after an update or an archive of that agent is answered 409. An
  environment deleted between its look-up and the insert surfaces as a foreign key
  error, an id of another namespace as a unique violation.
* sendMessage answers 409 between a turn's terminal event and the ack of its job
  (`service.ts:225`, `worker.ts:147`).
* An EventSource that was refused once stays closed. The console's list of event
  types lacks `harness_attempt_started`.
* The quick start draws new ids on each launch, so a retried one creates anew.

## Proofs

All theorems hold for every value of the constants, unless they name a
hypothesis: that leases hold, or which sessions are meant. These hypotheses are
needed: where one is dropped the table above or a run shows what happens.

* `ConversationProofs`: `LogTypeCorrect`, `ResultsArePaired`, `CallsAreAnswered`,
  (`[]CallsAnsweredInOrder`), `BudgetIsKept`. By the refinement below they hold of
  the log that the runtime writes.
* `TurnRuntimeProofs`: `TypeCorrect` (`[]TypeOK`), `TurnsHaveOneDriver`
  (`[](LeasesHold => OneDriver)`), `DriversAreFew` (`[]FewDrivers`: under any
  faults at most one driver more than stalls and failed database calls),
  `SessionIsProvisionedOnce` (`ProvisionedOnce`)
  and `CommandsRunInOneBox` (`NoCommandTwice`) likewise while leases hold,
  `OneBoxIsEnough` (`[]NoCommandTwice` under any faults), `OpenTurnsHaveJobs`
  (`OpenTurnHasJob`) and `MessagesWaitForTheTurn` (`MessagesBetweenTurns`).
* `TurnRuntimeImplements`: `MemoryIsPrefix` (`[]MemIsPrefix`), `Implements`
  (`WritesOneConversation`, the refinement of `Conversation`),
  `CommandsAreJournaled` (`[]CommandsJournaled`), `ResultsAreObserved`
  (`[]ResultsObserved`) and `TurnsSeeTheirMessage` (`[]TurnSeesItsMessage`), all
  under any faults, and while leases hold `TurnsUnderWayHaveJobs` (the part of
  `OpenTurnHasJob` that does not need a session ready from the start) and
  `RequestsAreAnswered` (`RequestsAnswerCalls`).
* `SandboxExecProofs`: `ExecTypeCorrect`, `CommandRunsOnce` (`[]RunsOnce`),
  `ExitStays` (`ExitIsFinal`), `ResultsAreWhole` (`[]WholeResult`) and
  `DriversKeepPromise` (`Spec => KeepsPromise`, the refinement of `IdemExec`).
* `ConfigsProofs`: `ConfigsTypeCorrect`, `LatestStaysNewest` (`[]LatestIsNewest`),
  `SessionsKeepBehaviour` (`BehaviourIsPinned`), `UpdatesAdd` (`EditsAdd`),
  `CreatesAreAnswered` (`CreatesAgree`) and `WalksAreComplete`
  (`[]WalkIsComplete`).
* `HarnessTurnProofs`: `HarnessTypeCorrect`, `AttemptsStayApart`
  (`[]AttemptsDoNotMix`), `MirrorStaysFenced` (`[]MirrorIsFenced`),
  `CallsAreSettledOnce` (`[]CallsSettledOnce`) and `CommitsAreWhole`
  (`[]CommitIsWhole`).
* `WorkerLoopProofs`: `WorkersTypeCorrect`, `JobsHaveOneHandler` (`[]OneHandler`),
  `NoWakeUpIsLost` (`[]PromptPickup`), `NothingAfterStop` (`NoWorkAfterStop`),
  `DrainsArePrompt` (`[]DrainIsPrompt`) and `ConcurrencyIsRespected`.
* `ConsoleProofs`: `StreamStaysDense` (`[]StreamIsDense`), `StreamIsPrompt`
  (`[]PromptStream`), both also of a stream without the console,
  `SendsStayATurnApart` (`[]SendsATurnApart`) and `ConsoleTypeCorrect`.

Beside these hypotheses the only assumptions are those on the constants, named in
the modules.

`Conversation`'s log grows at its end only, so each property is shown for the new
event: the reducer's order says which event that is, and `LastsExist` (each kind
of event that occurs has a last position) is what the reducer's `findLastIndex`
needs. The budget counts a set of positions, which a new message makes one
larger and a user message empties.

The refinement of `Conversation` needs more than the prefix property, since an
insert is ordered by the slot's memory and some steps before it. The inductive
invariant `IInv` says of each slot (`SlotFollowsLog`) that its memory is a prefix
of the log; that a slot at a command (`tail`, `reboot`) has a memory on which the
reducer orders `exec_tool`; that a slot about to record a failure has a class that
fits the ordered action; and that a slot in a turn has a user message in memory,
which in turn needs that a turn job exists only when a message is in the log
(`JobsHaveMessage`). An append goes through only when the log is no longer than
the memory (`FullPrefix`): then the two are equal and what the reducer ordered
on the memory it orders on the log, which is the abstract step. All other steps
leave the log alone, or are the message and provisioning steps that
`Conversation` allows at any time. `SameReducer` and `SameEvents` identify the
instantiated copies of the reducer's operators with the originals.

Five invariants of `TurnRuntime` concern the job table. `LeasesHold` is a
predicate of the state: no slot has stalled and no database call has thrown so
far. Crashes are not bounded by it, and neither are workers or messages.

* `HeldInv`: at most one turn row is queued or running, since a message is accepted
  only without one (`OneActive`), and a busy slot holds a running, leased row that
  no other slot works on (`OneHolder`). A claim needs a row without a lease, and
  only a crash, which frees the slot, or a stall ends one. A throwing call breaks
  this without a stall: the `catch` of `worker.ts` settles a second time, after
  another worker has claimed the row.
* `FewInv`: what is left of this after a stall. Of the slots at a turn each but one
  has cost a stall or a failed database call, and so has every one of them unless
  an active row of a turn is leased and worked on (`Kept`). A second claim of a
  row needs its lease gone, which a crash does only by freeing the slot; a nack by
  job id requeues a row that is worked on, but takes a slot away itself; and a
  message is accepted only without an active row.
* `ProvisionInv`: what a provisioner has read and what it has opened its
  transaction on is still so, and a turn that has passed the gate runs in the one
  box that the session got. With one provisioner at a time the second
  `session_provisioned` is never written.
* `OneBox`: where the provider returns the session's one directory, or the session
  is ready from the start, there is no second box. No lease is needed.
* `DriveInv`: the outcome a slot is about to settle fits the log (`OutcomeFits`):
  "completed" and "failed" mean that its turn is not open, "abandoned" that the
  session is archived, "retry_later" that attempts are left. A "conflict" needs an
  opponent, and `HeldInv` has none: the memory of the one driver is the log. On its
  last attempt a handler records a failure. So every open turn keeps an active row.
  The session has to be provisioned, else the gate's `retry_later` kills the row
  (`dead_while_provisioning`). From this, "no active row" at `sendMessage` is "no
  open turn".

Two more hold under any faults, because they rest on the append rule alone.
`CommandsJournaled` and `ResultsObserved` rest on the refinement's invariant: a slot
at a command has a memory that ends in the call, which is why the reducer orders
exec_tool on it (`SlotFollowsLog`), and that memory is a prefix of the log; a result
is appended by a slot that has read an exit code. `SeesInv`: message and row are
inserted together, and a slot reads the log after it has claimed the row, so its
memory has as many messages as the row's number.

`RequestsAnswerCalls` is shown in two halves. `PairedLog` is about `Context` alone:
in a log where every result stands behind its call with nothing said between, and
every call has its result so or is abandoned, the request is well answered. Its
lemmas (`NthPlace`, `NthOrder`, `NthNext`) say that the k-th position exists and
that neighbours in the request are neighbours among the messages of the log.
`TalkInv` says that the runtime writes such a log: a call has its result, is
abandoned, or has nothing behind it but its turn's failure (`Pending`), and what
follows a terminal event is a message. While leases hold the driver's memory is the
log, so a pending call is the one the reducer orders to run (`PendingMeansExec`),
and nobody infers; a message comes when no turn is under way, which makes a
pending call an abandoned one (`TalkByMessage`).

"No turn is under way" is `BeginInv`, `DriveInv` without the session that is ready
from the start. Before the session is ready nobody has spoken (`Unspoken`: behind
the gate it has been provisioned once, `ProvisionInv`), so a job that dies at the
gate, as in `dead_while_provisioning`, takes with it a message but no call. Once
the model has spoken (`Begun`), the argument of `DriveInv` applies: every way out
of a handler leaves a terminal event, an attempt, or a session that is gone.

The invariant of `SandboxExec` ties the three writers together. `ShellInv`: how
far the shell is says how often the command was started and what `exit` holds;
`TimerInv`: behind its SIGKILL the timer is the only writer, and it stamps only
when it has found no code; `CallerInv`: who is about to spawn holds the lock, and
a code in memory is the one in the file. From these `ExitStep` shows that no step
overwrites a code, on which the stability of a caller's memory and the
refinement rest: the spawn is the abstract run, a stamp by shell or timer the
abstract exit, the last drain of a call its return.

The invariant of `Configs` is the row lock. Between `LockAgent` and `WriteAgent` a
writer is alone with its agent (`OneWriter`), and what it has read is still so
(`WritersHold`); hence the next version is new and the fields carried forward are
current. A call that has resolved its pin finds the version still there when it
inserts (`CallsPinned`, versions only grow), and the foreign key keeps the
environment (`SessionsPinned`). `LostToARow` says that who has lost an insert
finds a row, because agents are never deleted. For the list walk, `WalkInv`: an
agent that was live throughout has been shown or is older than the cursor, what was
shown is not, and a page takes the newest of the older ones. The last row of a page
is the least id of it (`HasLeast`), from the library's theorem on well-founded
relations.

The invariant of `HarnessTurn` follows each handler's three threads. Its memory is
a prefix of the log (`Remembers`), although a chained append, the turn's own
append and a failed insert advance the two differently; its attempt is the last
one that memory knows of (`Fenced`); what waits in its chain is its own and
answers a call that memory knows unanswered, one result per call, and no call is
both in the chain and at a handler (`Chained`). An append that takes effect finds
its seq free, so the memory is then the whole log (`Whole`) and all of this is
true of the log: no attempt or message has come since, and the result is the
call's first. The same holds of an append that a thread of a returned turn makes,
and of one whose reply is lost. For the mirror, the fence is the seq of an attempt
and only grows, and the guard makes a batch the fence's own.

`CommitInv` says when the transcript is whole. As long as a driver has seen no
error (`Healthy`), the rows of its attempt mirror its entries `1 .. c`, with
`sent <= c <= local` (`Mirrors`): each of them has a row, and a row is beyond all
rows before it or repeats one of an entry without a uuid. A lost reply leaves `c`
above `sent`, and the next try sends what is missing and, again, what has no uuid
(`BatchIs`, `BatchMirrored`). A batch that
was dropped or fenced makes the driver unhealthy for good, because the first fatal
error stays. `StreamEnds` issues the commit of a healthy driver that has sent all,
and from then on the slot is silent (`Silent`), and it is the only one of its
attempt (`OneSlotAnAttempt`), so that no later batch touches these rows. The same
holds of a commit that lands although its reply is lost.

The invariant of `WorkerLoop` covers three ways to hold a job: a handler with its
heartbeat, a claim on its way to the loop, and a row lock. The first two keep the
lease (`Kept`), a locked row has none (`LocksFit`). For the wake-ups, a loop that
came back empty has seen all jobs or has the flag of the one it missed (`Asleep`),
and the signal's flag is not used up before the loop has seen the drain
(`Draining`).

In `EventStream` one request at a time writes on the wire (`OneRequest`), and a
stream behind its last page has the whole log, was told of the rest, or is about to
be (`Caught`). In `Console` (`Apart`) a latch that is down was never raised, was let go of by the
`catch` of a `send()` of this page, or has a user message among what was shown since
the click: it is dropped only by a render that makes the turn live, and such a
render shows a new message (`ActiveRises`). The composer is free when that message
has a terminal event behind it. Nothing of this asks who wrote the message.

Only model-checked: liveness, which is out of TLAPS's reach under fairness
(`TurnsEnd` of both turn modules, `ProvisioningEnds`, `CallsEnd`, `JobsEnd`,
`StopsEnd`, `EventsShown`, `StreamsEnd`). Of behaviours after a stall or a failed
database call the theorems with the hypothesis `LeasesHold` say nothing; what
happens there is in the table of Findings, and `FewDrivers` bounds it. The type
invariants of the modules with proofs are theorems and are not repeated in the
runs.

## Not modelled

* The vendor's own conversation: how Claude Code resumes from transcript entries,
  and the transcript store's listing and deletion, which only the SDK calls.
* The sandbox drivers' provisioning and files (`readFile`, `writeFile`, `attach`,
  `teardown`): one provider call each, seen by the runtime as `CreateBox` and
  `Reboot`; the port's `attach` and `teardown` have no caller outside the tests.
* The llm driver beyond the request it builds: the provider is external, and the
  runtime sees a reply, a transient or a permanent error.
* Routes, authentication and validation of the API, environment parsing, metrics
  and health of the worker: no state of their own. Migrations are generated.
* The console's other pages: one API call per click. The quick start creates
  agent, environment and session one after another.
* The chaos suite is a test; its invariants I1 to I4 are properties here.
* Row locks below transactions, except in `Configs`: a deadlock of `sendMessage`
  and a provisioning transaction on session row and event key is not expressible.

## Plan

Every safety property of the passing runs is a theorem, some under `LeasesHold`
or for sessions that are ready from the start. Next: a composition of `WorkerLoop`
with `TurnRuntime`'s slots, so that a drain meets a real turn; and the two
refinements `OneSlotAnAttempt` suggests, an abstract mirror for `HarnessTurn` and
an abstract list for the walk.
