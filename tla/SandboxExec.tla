---------------------------- MODULE SandboxExec -----------------------------
(***************************************************************************)
(* One idemKey directory of one sandbox, <workdir>/.funky/<key>/{out,exit}, *)
(* and the calls that race for it: the exec of the drivers subprocess.ts   *)
(* and computesdk.ts (which docker.ts plugs into) under the single reboot  *)
(* of exec.ts.  The two drivers share the protocol and differ in who       *)
(* spawns, who keeps the timeout and what can become unreachable; the      *)
(* initial state picks one.                                                *)
(*                                                                         *)
(* Directories of different keys share nothing but the sandbox, so one is  *)
(* enough.  A caller is one exec call of one worker; callers of one key    *)
(* are the attempts of its turn.  Every system call and every remote       *)
(* command that reads or changes the directory is a step of its own.       *)
(***************************************************************************)
EXTENDS Naturals

CONSTANTS
  Callers,      \* exec calls under the idemKey, over all workers
  Drivers,      \* drivers considered
  MaxOut,       \* bound: bytes the command writes
  Cap,          \* MAX_OUTPUT_BYTES
  CharBytes,    \* bytes per character of the output
  Daemons,      \* the command may leave a child that goes on writing
  MaxCrashes,   \* bound: callers lost with their worker
  MaxFaults,    \* bound: calls that throw or get lost, writes that fail, kills
  MaxOutages    \* bound: times the sandbox stops, pauses or expires

ASSUME ExecAssumption ==
  /\ Drivers \subseteq {"subprocess", "computesdk"}
  /\ MaxOut \in Nat /\ Cap \in Nat \ {0} /\ CharBytes \in Nat \ {0}
  /\ Daemons \in BOOLEAN
  /\ MaxCrashes \in Nat /\ MaxFaults \in Nat /\ MaxOutages \in Nat

VARIABLES
  setup,    \* the driver, whether the call carries a timeout, and whether the
            \* command ignores SIGTERM
  box,      \* the sandbox: up, stopped (also: paused) or gone
  files,    \* the directory: does it exist, bytes in out, content of exit
  runner,   \* the shell that runs the command and stamps exit
  rc,       \* the code it is about to stamp
  runs,     \* how often the command was started
  written,  \* bytes in out when the command ended
  timer,    \* subprocess: the setTimeout in the worker that spawned
  owner,    \* the caller that took the lock
  callers,  \* what each caller holds in memory
  faults    \* faults used up, by kind

vars == <<setup, box, files, runner, rc, runs, written, timer, owner, callers, faults>>
shell == <<files, runner, rc, runs, written>>
worker == <<timer, owner, callers>>

Codes == {"own", "timeout"}
NoOne == "no one"
Local == setup.driver = "subprocess"
Up == box = "up"

\* The shell is there and will touch the directory.
Alive == {"starting", "running", "finished", "stamping"}

Fresh == [pc |-> "idle", rebooted |-> FALSE, code |-> "none",
          got |-> 0, clipped |-> FALSE, torn |-> {}]
Again == [Fresh EXCEPT !.pc = "exec", !.rebooted = TRUE]

Ended == {"returned", "failed", "crashed"}
Waiting(c) == callers[c].pc \notin Ended \cup {"idle"}
Goto(c, pc) == callers' = [callers EXCEPT ![c].pc = pc]

\* A caller that fails or dies takes what its tail has read with it.
Left(c, pc) == [Fresh EXCEPT !.pc = pc, !.rebooted = callers[c].rebooted]
Leave(c, pc) == callers' = [callers EXCEPT ![c] = Left(c, pc)]

\* Where tail starts: subprocess reads out before exit, the poll script exit
\* before out; from there on both alternate.
TailStart == IF Local THEN "drain" ELSE "check"

Clip(n) == IF n > Cap THEN Cap ELSE n

Init ==
  /\ setup \in [driver : Drivers, timed : BOOLEAN, deaf : BOOLEAN]
  /\ setup.deaf => ~Local /\ setup.timed   \* nobody else sends a SIGTERM
  /\ box = "up"
  /\ files = [dir |-> FALSE, out |-> 0, exit |-> "absent"]
  /\ runner = "none" /\ rc = "own" /\ runs = 0 /\ written = 0
  /\ timer = "off" /\ owner = NoOne
  /\ callers = [c \in Callers |-> Fresh]
  /\ faults = [crash |-> 0, fault |-> 0, outage |-> 0]

----------------------------------------------------------------------------
(* exec: connect, which resumes a stopped sandbox; then mkdir as the lock. *)

\* Mutant: mkdir with recursive, which does not tell the first caller.
ExecRecursive(c) ==
  /\ callers[c].pc \in {"idle", "exec"} /\ box # "gone"
  /\ box' = "up" /\ owner' = c
  /\ files' = [files EXCEPT !.dir = TRUE]
  /\ runner' = "starting"
  /\ Goto(c, "spawn")
  /\ UNCHANGED <<setup, rc, runs, written, timer, faults>>

TakeLock(c) ==
  /\ ~files.dir
  /\ files' = [files EXCEPT !.dir = TRUE]
  /\ owner' = c /\ runner' = "starting"
  /\ Goto(c, "spawn")

LoseLock(c) ==
  /\ files.dir
  /\ Goto(c, TailStart)
  /\ UNCHANGED <<files, owner, runner>>

\* computesdk's "if mkdir" takes any failure for a lost lock (a full disk, a
\* missing permission) and tails a directory that is not there.  What is not
\* EEXIST is thrown by the subprocess driver (CallFails).
MkdirFails(c) ==
  /\ ~Local /\ ~files.dir /\ faults.fault < MaxFaults
  /\ callers[c].pc \in {"idle", "exec"} /\ box # "gone"
  /\ box' = "up"
  /\ faults' = [faults EXCEPT !.fault = faults.fault + 1]
  /\ Goto(c, TailStart)
  /\ UNCHANGED <<setup, shell, timer, owner>>

Exec(c) ==
  /\ callers[c].pc \in {"idle", "exec"} /\ box # "gone"
  /\ box' = "up"
  /\ TakeLock(c) \/ LoseLock(c)
  /\ UNCHANGED <<setup, rc, runs, written, timer, faults>>

\* The start returns, to the caller that still waits for it.
Started ==
  callers' = [c \in Callers |-> IF callers[c].pc = "spawn"
                                THEN [callers[c] EXCEPT !.pc = TailStart]
                                ELSE callers[c]]

\* The lock's holder starts the shell: the worker itself, or the rest of the
\* start script inside the sandbox, whoever still waits for its reply.
Spawn ==
  /\ runner = "starting" /\ Up
  /\ runner' = "running" /\ runs' = runs + 1
  /\ timer' = IF Local /\ setup.timed THEN "armed" ELSE timer
  /\ Started
  /\ UNCHANGED <<setup, box, files, rc, written, owner, faults>>

\* computesdk's start script does not look whether it could write what it starts.
StartFails ==
  /\ ~Local /\ runner = "starting" /\ Up /\ faults.fault < MaxFaults
  /\ faults' = [faults EXCEPT !.fault = faults.fault + 1]
  /\ runner' = "dead"
  /\ Started
  /\ UNCHANGED <<setup, box, files, rc, runs, written, timer, owner>>

----------------------------------------------------------------------------
(* The shell: (cmd) > out 2>&1; echo $? > exit, opening exit before writing *)

\* A child the command left behind holds out open when the shell has ended.
Writing ==
  \/ runner = "running"
  \/ Daemons /\ runner \in {"finished", "stamping", "ended"}

Write ==
  /\ Writing /\ Up /\ files.out < MaxOut
  /\ files' = [files EXCEPT !.out = files.out + 1]
  /\ UNCHANGED <<setup, box, runner, rc, runs, written, worker, faults>>

EndsWith(exitcode) ==
  /\ runner = "running" /\ Up
  /\ runner' = "finished" /\ rc' = exitcode /\ written' = files.out
  /\ UNCHANGED <<setup, box, files, runs, worker, faults>>

Finish == EndsWith("own")

\* computesdk wraps the command in timeout(1), which sends SIGTERM once, waits
\* for the command and reports 124.  A command that ignores the signal ends when
\* it likes, or never.
TimeoutInside == ~Local /\ setup.timed /\ EndsWith("timeout")

OpenExit ==
  /\ runner = "finished" /\ Up
  /\ runner' = "stamping"
  /\ files' = [files EXCEPT !.exit = "empty"]
  /\ UNCHANGED <<setup, box, rc, runs, written, worker, faults>>

StampExit ==
  /\ runner = "stamping" /\ Up
  /\ runner' = "ended"
  /\ files' = [files EXCEPT !.exit = rc]
  /\ UNCHANGED <<setup, box, rc, runs, written, worker, faults>>

\* Something else kills the shell (the command itself, the kernel), or exit
\* cannot be written.
ShellDies ==
  /\ runner \in Alive \ {"starting"} /\ Up /\ faults.fault < MaxFaults
  /\ faults' = [faults EXCEPT !.fault = faults.fault + 1]
  /\ runner' = "dead"
  /\ written' = IF runner = "running" THEN files.out ELSE written
  /\ UNCHANGED <<setup, box, files, rc, runs, worker>>

Shell == Write \/ Finish \/ TimeoutInside \/ OpenExit \/ StampExit

----------------------------------------------------------------------------
(* The timer of the subprocess driver, in the process of the owner.        *)

\* Mutant: the timer does not kill the process group.
TimerOnlyStamps ==
  /\ timer = "armed"
  /\ timer' = "check"
  /\ UNCHANGED <<setup, box, files, runner, rc, runs, written, owner, callers, faults>>

\* SIGKILL to the process group; a group that is gone is no error.
TimerFires ==
  /\ timer = "armed"
  /\ timer' = "check"
  /\ runner' = IF runner \in Alive THEN "dead" ELSE runner
  /\ written' = IF runner = "running" THEN files.out ELSE written
  /\ UNCHANGED <<setup, box, files, rc, runs, owner, callers, faults>>

\* child.on("exit").
TimerCleared ==
  /\ timer = "armed" /\ runner \in {"ended", "dead"}
  /\ timer' = "off"
  /\ UNCHANGED <<setup, box, shell, owner, callers, faults>>

\* Only an exit file that does not exist is stamped.
TimerChecks ==
  /\ timer = "check"
  /\ timer' = IF files.exit = "absent" THEN "open" ELSE "off"
  /\ UNCHANGED <<setup, box, shell, owner, callers, faults>>

\* writeFile(exit, "124"): open with truncation, then write.
TimerOpens ==
  /\ timer = "open"
  /\ timer' = "write"
  /\ files' = [files EXCEPT !.exit = "empty"]
  /\ UNCHANGED <<setup, box, runner, rc, runs, written, owner, callers, faults>>

TimerStamps ==
  /\ timer = "write"
  /\ timer' = "off"
  /\ files' = [files EXCEPT !.exit = "timeout"]
  /\ UNCHANGED <<setup, box, runner, rc, runs, written, owner, callers, faults>>

Timer == TimerFires \/ TimerCleared \/ TimerChecks \/ TimerOpens \/ TimerStamps

----------------------------------------------------------------------------
(* tail and the reboot.                                                    *)

\* Mutant: no final flush, the call returns as soon as it sees the code.
CheckReturns(c) ==
  /\ callers[c].pc = "check" /\ Up
  /\ callers' = [callers EXCEPT
       ![c].code = IF files.exit \in Codes THEN files.exit ELSE "none",
       ![c].pc = IF files.exit \in Codes THEN "returned" ELSE "drain"]
  /\ UNCHANGED <<setup, box, shell, timer, owner, faults>>

\* Look for a parseable exit code; without one the next drain is followed by
\* another poll.
Check(c) ==
  /\ callers[c].pc = "check" /\ Up
  /\ callers' = [callers EXCEPT
       ![c].code = IF files.exit \in Codes THEN files.exit ELSE "none",
       ![c].pc = "drain"]
  /\ UNCHANGED <<setup, box, shell, timer, owner, faults>>

\* Read out from the last offset and decode the chunk by itself: a chunk that
\* ends inside a character tears it.
Drain(c) ==
  /\ callers[c].pc = "drain" /\ Up
  /\ LET end  == Clip(files.out)
         tear == IF end > callers[c].got /\ end % CharBytes # 0 THEN {end} ELSE {}
     IN callers' = [callers EXCEPT
          ![c].got = end,
          ![c].clipped = files.out > Cap,
          ![c].torn = callers[c].torn \cup tear,
          ![c].pc = IF callers[c].code \in Codes THEN "returned" ELSE "check"]
  /\ UNCHANGED <<setup, box, shell, timer, owner, faults>>

\* Mutant: tail does not look at the wrapper's exit code and polls on.
UnreachableAtStart(c) ==
  /\ ~Local
  /\ \/ callers[c].pc \in {"idle", "exec"} /\ box = "gone"
     \/ callers[c].pc = "spawn" /\ ~Up
  /\ Leave(c, "down")
  /\ UNCHANGED <<setup, box, shell, timer, owner, faults>>

\* A sandbox that does not answer: nothing can be observed.
Unreachable(c) ==
  /\ ~Local
  /\ \/ callers[c].pc \in {"idle", "exec"} /\ box = "gone"
     \/ callers[c].pc \in {"spawn", "check", "drain"} /\ ~Up
  /\ Leave(c, "down")
  /\ UNCHANGED <<setup, box, shell, timer, owner, faults>>

\* A system call throws, which goes past the reboot to the caller; or a remote
\* command is not sent or its reply lost, which does not; or the reboot's is.
CallFails(c) ==
  /\ faults.fault < MaxFaults
  /\ faults' = [faults EXCEPT !.fault = faults.fault + 1]
  /\ \/ Local /\ callers[c].pc \in {"idle", "drain"} /\ Leave(c, "failed")
     \/ ~Local /\ callers[c].pc \in {"idle", "exec", "spawn", "check", "drain"} /\ Leave(c, "down")
     \/ ~Local /\ callers[c].pc = "down" /\ Leave(c, "failed")
  /\ UNCHANGED <<setup, box, shell, timer, owner>>

\* makeExecWithReboot: one reboot resumes the sandbox and execs again; a
\* sandbox that is gone, or a second failure, goes to the caller.
Reboot(c) ==
  /\ callers[c].pc = "down" /\ ~callers[c].rebooted /\ box # "gone"
  /\ box' = "up"
  /\ callers' = [callers EXCEPT ![c] = Again]
  /\ UNCHANGED <<setup, shell, timer, owner, faults>>

Fail(c) ==
  /\ callers[c].pc = "down" /\ (callers[c].rebooted \/ box = "gone")
  /\ Leave(c, "failed")
  /\ UNCHANGED <<setup, box, shell, timer, owner, faults>>

Call(c) == Exec(c) \/ Check(c) \/ Drain(c) \/ Unreachable(c) \/ Reboot(c) \/ Fail(c)

----------------------------------------------------------------------------
(* Faults.                                                                 *)

\* A worker dies.  Its timer dies with it, and so does a spawn it had not
\* come to; a shell that runs is detached and goes on.
Crash(c) ==
  /\ Waiting(c) /\ faults.crash < MaxCrashes
  /\ faults' = [faults EXCEPT !.crash = faults.crash + 1]
  /\ Leave(c, "crashed")
  /\ timer' = IF c = owner THEN "off" ELSE timer
  /\ runner' = IF Local /\ callers[c].pc = "spawn" THEN "dead" ELSE runner
  /\ UNCHANGED <<setup, box, files, rc, runs, written, owner>>

\* The sandbox stops or pauses, with its files and without or with its
\* processes, or expires.  The subprocess driver has its worker's host for a
\* sandbox: what stops is the host, and with it every worker on it.
Outage ==
  /\ faults.outage < MaxOutages /\ Up
  /\ faults' = [faults EXCEPT !.outage = faults.outage + 1]
  /\ IF Local
     THEN /\ runner' = IF runner \in Alive THEN "dead" ELSE runner
          /\ timer' = "off"
          /\ callers' = [c \in Callers |-> IF Waiting(c)
                                           THEN Left(c, "crashed")
                                           ELSE callers[c]]
          /\ UNCHANGED box
     ELSE /\ \/ box' \in {"stopped", "gone"} /\ runner' = IF runner \in Alive THEN "dead" ELSE runner
             \/ box' = "stopped" /\ UNCHANGED runner
          /\ UNCHANGED <<timer, callers>>
  /\ UNCHANGED <<setup, files, rc, runs, written, owner>>

Next ==
  \/ Spawn \/ Shell \/ Timer \/ StartFails \/ ShellDies \/ Outage
  \/ \E c \in Callers : Call(c) \/ MkdirFails(c) \/ CallFails(c) \/ Crash(c)

Spec == Init /\ [][Next]_vars

\* A caller that waits gets answers or errors; the shell and the timers run.
\* The command itself need not end, nor write, nor heed a SIGTERM.
FairSpec ==
  /\ Spec
  /\ \A c \in Callers : WF_vars(Waiting(c) /\ Call(c))
  /\ WF_vars(Spawn) /\ WF_vars(~setup.deaf /\ TimeoutInside)
  /\ WF_vars(OpenExit) /\ WF_vars(StampExit)
  /\ WF_vars(Timer)

----------------------------------------------------------------------------
(* Properties.                                                             *)

CallerType ==
  [pc : {"idle", "exec", "spawn", "check", "drain", "down"} \cup Ended,
   rebooted : BOOLEAN, code : Codes \cup {"none"},
   got : Nat, clipped : BOOLEAN, torn : SUBSET Nat]

\* Every variable has its type.
TypeOK ==
  /\ setup \in [driver : {"subprocess", "computesdk"}, timed : BOOLEAN, deaf : BOOLEAN]
  /\ box \in {"up", "stopped", "gone"}
  /\ files \in [dir : BOOLEAN, out : Nat, exit : Codes \cup {"absent", "empty"}]
  /\ runner \in Alive \cup {"none", "ended", "dead"}
  /\ rc \in Codes /\ runs \in Nat /\ written \in Nat
  /\ timer \in {"off", "armed", "check", "open", "write"}
  /\ owner \in Callers \cup {NoOne}
  /\ callers \in [Callers -> CallerType]
  /\ faults \in [crash : Nat, fault : Nat, outage : Nat]

\* The command runs at most once, whoever calls, dies, retries or reboots
\* (port.ts:25, subprocess.ts:64).
RunsOnce == runs <= 1

\* A result holds everything the command wrote until it ended, up to the cap,
\* and says so when the cap cut it (the final flush of tail).
WholeResult ==
  \A c \in Callers : callers[c].pc = "returned" =>
    /\ callers[c].got >= Clip(written)
    /\ callers[c].got < written => callers[c].clipped

\* Once exit holds a code it never changes: the timer's 124 does not overwrite
\* the command's own code, nor the other way round (subprocess.ts:130).
ExitIsFinal == [][files.exit \in Codes => UNCHANGED files.exit]_vars

\* The code the directory gives away, and what a caller has been told.
ExitCode == IF files.exit \in Codes THEN files.exit ELSE "none"

Told(c) ==
  CASE callers[c].pc = "returned" -> callers[c].code
    [] callers[c].pc = "failed"   -> "unavailable"
    [] OTHER                      -> "none"

Promise == INSTANCE IdemExec WITH
  code <- ExitCode, answer <- [c \in Callers |-> Told(c)]

\* Each driver keeps the port's promise: one run, one code, no code made up
\* (port.ts:5-8, 37-44).
KeepsPromise == Promise!Spec

\* A key without a code that the timeout does not get one for: its directory was
\* not made; the shell is dead, or was never spawned, and no timer is left; or
\* the command hangs, and its timer died with the worker or its timeout(1) has
\* sent a SIGTERM it ignores.
Orphaned ==
  /\ files.exit \notin Codes /\ timer = "off"
  /\ \/ ~files.dir \/ runner = "dead"
     \/ runner = "running" /\ IF Local THEN callers[owner].pc = "crashed" ELSE setup.deaf

\* A call with a timeout ends, in a result or an error, unless the key is
\* orphaned: the timer and the shell between them stamp a code, a sandbox that
\* went away is noticed, and no schedule of the callers makes them miss either.
CallsEnd ==
  \A c \in Callers :
    (setup.timed /\ Waiting(c)) ~> (~Waiting(c) \/ Orphaned)

\* "The same idemKey re-attaches to a still-running command or re-runs it
\* safely" (exec.ts:50): a call with a timeout ends.
ReattachesOrReruns ==
  \A c \in Callers : (setup.timed /\ Waiting(c)) ~> ~Waiting(c)

\* "every reader sees the full output" (subprocess.ts:140, tck.ts:82): two
\* callers of one key get the same text.
ReadersAgree ==
  \A c, d \in Callers :
    callers[c].pc = "returned" /\ callers[d].pc = "returned" =>
      <<callers[c].got, callers[c].torn>> = <<callers[d].got, callers[d].torn>>
=============================================================================
