------------------------- MODULE SandboxExecProofs --------------------------
(***************************************************************************)
(* What holds of an idemKey directory for any number of callers, faults    *)
(* and bytes: its types, one run, a final exit code, whole results, and    *)
(* that both drivers keep the port's promise.                              *)
(***************************************************************************)
EXTENDS SandboxExec, TLAPS

(***************************************************************************)
(* How far the shell is decides what exit holds and how often the command  *)
(* was started.                                                            *)
(***************************************************************************)
ShellInv ==
  /\ ~files.dir <=> runner = "none"
  /\ runs <= 1
  /\ runner \in {"none", "starting"} => runs = 0
  /\ runner \in {"running", "finished", "stamping", "ended"} => runs = 1
  /\ runner \in {"none", "starting", "running", "finished"} => files.exit = "absent"
  /\ runner = "stamping" => files.exit = "empty"
  /\ written <= files.out

\* A timer exists for a command that was started; past its SIGKILL the shell
\* writes no more, and a timer about to stamp has found no code.
TimerInv ==
  /\ timer # "off" => Local /\ runs = 1
  /\ timer = "armed" => runner \notin {"none", "starting"}
  /\ timer \in {"check", "open", "write"} => runner \in {"ended", "dead"}
  /\ timer \in {"open", "write"} => files.exit \notin Codes
  /\ runner = "ended" => files.exit \in Codes

\* A caller on its way to spawn holds the lock; a code in memory is the one in
\* the directory; a result has a code.
CallerInv ==
  \A c \in Callers :
    /\ callers[c].pc = "spawn" => files.dir /\ owner = c
    /\ callers[c].code \in Codes => callers[c].code = files.exit
    /\ callers[c].pc = "returned" => callers[c].code \in Codes

IInv == TypeOK /\ ShellInv /\ TimerInv /\ CallerInv /\ WholeResult

----------------------------------------------------------------------------
(* Types.                                                                  *)

LEMMA ClipType == \A n \in Nat : Clip(n) \in Nat /\ Clip(n) <= n
  BY ExecAssumption DEF Clip

LEMMA FreshType == Fresh \in CallerType /\ Again \in CallerType
  BY DEF Fresh, Again, CallerType, Ended

LEMMA GotoType ==
  ASSUME NEW c \in Callers,
         NEW pc \in {"idle", "exec", "spawn", "check", "drain", "down"} \cup Ended,
         callers \in [Callers -> CallerType], Goto(c, pc)
  PROVE  callers' \in [Callers -> CallerType]
  BY DEF Goto, CallerType

LEMMA LeaveType ==
  ASSUME NEW c \in Callers, NEW pc \in {"down"} \cup Ended,
         callers \in [Callers -> CallerType]
  PROVE  /\ Left(c, pc) \in CallerType
         /\ Leave(c, pc) => callers' \in [Callers -> CallerType]
  <1>1. Left(c, pc) \in CallerType
    BY FreshType DEF Left, CallerType
  <1> QED
    BY <1>1 DEF Leave

\* Whoever leaves is left with no code, and nobody else changes.
LEMMA LeftIs ==
  ASSUME NEW c \in Callers, NEW pc \in {"down"} \cup Ended
  PROVE  Left(c, pc).pc = pc /\ Left(c, pc).code = "none"
  BY DEF Left, Fresh

LEMMA LeaveIs ==
  ASSUME NEW c \in Callers, NEW pc \in {"down"} \cup Ended, pc # "returned",
         callers \in [Callers -> CallerType], Leave(c, pc),
         NEW d \in Callers
  PROVE  \/ callers'[d] = callers[d]
         \/ d = c /\ callers'[d].code = "none" /\ callers'[d].pc = pc
  BY LeftIs DEF Leave

LEMMA OutageIs ==
  ASSUME callers \in [Callers -> CallerType], Outage, NEW d \in Callers
  PROVE  \/ callers'[d] = callers[d]
         \/ /\ callers'[d].code = "none" /\ callers'[d].pc = "crashed"
            /\ callers[d].pc \notin {"idle", "returned", "failed", "crashed"}
  BY LeftIs DEF Outage, Waiting, Ended

LEMMA StartedType ==
  ASSUME callers \in [Callers -> CallerType], Started
  PROVE  callers' \in [Callers -> CallerType]
  BY DEF Started, CallerType, TailStart, Ended

LEMMA TypeInit == Init => TypeOK
  <1> SUFFICES ASSUME Init PROVE TypeOK
    OBVIOUS
  <1>1. setup \in [driver : {"subprocess", "computesdk"}, timed : BOOLEAN, deaf : BOOLEAN]
    BY ExecAssumption DEF Init
  <1> QED
    BY <1>1, FreshType DEF Init, TypeOK, Codes

LEMMA TypeStep == TypeOK /\ [Next]_vars => TypeOK'
  <1> SUFFICES ASSUME TypeOK, [Next]_vars PROVE TypeOK'
    OBVIOUS
  <1> USE DEF TypeOK
  <1>1. CASE Spawn
    BY <1>1, StartedType DEF Spawn, Alive
  <1>2. CASE Write
    BY <1>2 DEF Write, worker
  <1>3. CASE Finish
    BY <1>3 DEF Finish, EndsWith, worker, Codes, Alive
  <1>4. CASE TimeoutInside
    BY <1>4 DEF TimeoutInside, EndsWith, worker, Codes, Alive
  <1>5. CASE OpenExit
    BY <1>5 DEF OpenExit, worker, Alive
  <1>6. CASE StampExit
    BY <1>6 DEF StampExit, worker
  <1>7. CASE TimerFires
    BY <1>7 DEF TimerFires
  <1>8. CASE TimerCleared
    BY <1>8 DEF TimerCleared, shell
  <1>9. CASE TimerChecks
    BY <1>9 DEF TimerChecks, shell
  <1>10. CASE TimerOpens
    BY <1>10 DEF TimerOpens
  <1>11. CASE TimerStamps
    BY <1>11 DEF TimerStamps, Codes
  <1>12. CASE Outage
    <2>1. callers' \in [Callers -> CallerType]
      BY <1>12, LeaveType DEF Outage, Ended
    <2>2. box' \in {"up", "stopped", "gone"} /\ timer' \in {"off", "armed", "check", "open", "write"}
      BY <1>12 DEF Outage
    <2>3. runner' \in Alive \cup {"none", "ended", "dead"}
      BY <1>12 DEF Outage
    <2>4. faults' \in [crash : Nat, fault : Nat, outage : Nat]
      BY <1>12 DEF Outage
    <2> QED
      BY <1>12, <2>1, <2>2, <2>3, <2>4 DEF Outage
  <1>13. ASSUME NEW c \in Callers, Exec(c) PROVE TypeOK'
    <2>1. callers' \in [Callers -> CallerType]
      BY <1>13, GotoType DEF Exec, TakeLock, LoseLock, TailStart
    <2> QED
      BY <1>13, <2>1 DEF Exec, TakeLock, LoseLock, Alive
  <1>14. ASSUME NEW c \in Callers, Check(c) PROVE TypeOK'
    <2>1. callers' \in [Callers -> CallerType]
      BY <1>14 DEF Check, CallerType
    <2> QED
      BY <1>14, <2>1 DEF Check, shell
  <1>15. ASSUME NEW c \in Callers, Drain(c) PROVE TypeOK'
    <2> DEFINE tear == IF /\ Clip(files.out) > callers[c].got
                          /\ Clip(files.out) % CharBytes # 0
                       THEN {Clip(files.out)} ELSE {}
               next == IF callers[c].code \in Codes THEN "returned" ELSE "check"
    <2>1. Clip(files.out) \in Nat /\ tear \in SUBSET Nat
      BY ClipType
    <2>2. callers[c] \in CallerType /\ callers[c].torn \cup tear \in SUBSET Nat
      BY <2>1 DEF CallerType
    <2>3. (files.out > Cap) \in BOOLEAN
      OBVIOUS
    <2>4. callers' = [callers EXCEPT ![c].got = Clip(files.out),
                                     ![c].clipped = files.out > Cap,
                                     ![c].torn = callers[c].torn \cup tear,
                                     ![c].pc = next]
      BY <1>15 DEF Drain
    <2>5. callers' \in [Callers -> CallerType]
      BY <2>1, <2>2, <2>3, <2>4 DEF CallerType, Ended
    <2> QED
      BY <1>15, <2>5 DEF Drain, shell
  <1>16. ASSUME NEW c \in Callers, Unreachable(c) PROVE TypeOK'
    BY <1>16, LeaveType DEF Unreachable, shell
  <1>17. ASSUME NEW c \in Callers, Reboot(c) PROVE TypeOK'
    BY <1>17, FreshType DEF Reboot, shell
  <1>18. ASSUME NEW c \in Callers, Fail(c) PROVE TypeOK'
    BY <1>18, LeaveType DEF Fail, shell, Ended
  <1>19. ASSUME NEW c \in Callers, CallFails(c) PROVE TypeOK'
    <2>1. callers' \in [Callers -> CallerType]
      BY <1>19, LeaveType DEF CallFails, Ended
    <2> QED
      BY <1>19, <2>1 DEF CallFails, shell
  <1>20. ASSUME NEW c \in Callers, Crash(c) PROVE TypeOK'
    <2>1. callers' \in [Callers -> CallerType]
      BY <1>20, LeaveType DEF Crash, Ended
    <2> QED
      BY <1>20, <2>1 DEF Crash
  <1>21. CASE UNCHANGED vars
    BY <1>21 DEF vars
  <1>22. CASE ShellDies
    BY <1>22 DEF ShellDies, worker
  <1>23. CASE StartFails
    BY <1>23, StartedType DEF StartFails
  <1>24. ASSUME NEW c \in Callers, MkdirFails(c) PROVE TypeOK'
    <2>1. callers' \in [Callers -> CallerType]
      BY <1>24, GotoType DEF MkdirFails, TailStart
    <2> QED
      BY <1>24, <2>1 DEF MkdirFails, shell
  <1> QED
    BY <1>1, <1>2, <1>3, <1>4, <1>5, <1>6, <1>7, <1>8, <1>9, <1>10, <1>11, <1>12, <1>13, <1>14, <1>15, <1>16, <1>17, <1>18, <1>19, <1>20, <1>21, <1>22, <1>23, <1>24
    DEF Next, Shell, Timer, Call

\* Every variable of SandboxExec keeps its type, for any number of callers.
THEOREM ExecTypeCorrect == Spec => []TypeOK
  BY TypeInit, TypeStep, PTL DEF Spec

----------------------------------------------------------------------------
(* The inductive invariant.                                                *)

LEMMA InvInit == Init => IInv
  <1> SUFFICES ASSUME Init PROVE IInv
    OBVIOUS
  <1>1. TypeOK
    BY TypeInit
  <1>2. ShellInv /\ TimerInv
    BY DEF Init, ShellInv, TimerInv, Codes
  <1>3. CallerInv /\ WholeResult
    BY DEF Init, CallerInv, WholeResult, Fresh, Codes
  <1> QED
    BY <1>1, <1>2, <1>3 DEF IInv

LEMMA ShellStep == IInv /\ [Next]_vars => ShellInv'
  <1> SUFFICES ASSUME IInv, [Next]_vars PROVE ShellInv'
    OBVIOUS
  <1> USE DEF IInv, ShellInv, TimerInv, CallerInv, TypeOK, Codes, Local
  <1>1. CASE Spawn
    BY <1>1 DEF Spawn, Started
  <1>2. CASE Write
    BY <1>2 DEF Write, Writing, worker
  <1>3. CASE Finish
    BY <1>3 DEF Finish, EndsWith, worker
  <1>4. CASE TimeoutInside
    BY <1>4 DEF TimeoutInside, EndsWith, worker
  <1>5. CASE OpenExit
    BY <1>5 DEF OpenExit, worker
  <1>6. CASE StampExit
    BY <1>6 DEF StampExit, worker
  <1>7. CASE TimerFires
    BY <1>7 DEF TimerFires, Alive
  <1>8. CASE TimerCleared
    BY <1>8 DEF TimerCleared, shell
  <1>9. CASE TimerChecks
    BY <1>9 DEF TimerChecks, shell
  <1>10. CASE TimerOpens
    BY <1>10 DEF TimerOpens
  <1>11. CASE TimerStamps
    BY <1>11 DEF TimerStamps
  <1>12. CASE Outage
    BY <1>12 DEF Outage, Alive, Left, Fresh
  <1>13. ASSUME NEW c \in Callers, Exec(c) PROVE ShellInv'
    BY <1>13 DEF Exec, TakeLock, LoseLock, Goto, TailStart
  <1>14. ASSUME NEW c \in Callers, Check(c) PROVE ShellInv'
    BY <1>14 DEF Check, shell
  <1>15. ASSUME NEW c \in Callers, Drain(c) PROVE ShellInv'
    BY <1>15 DEF Drain, shell
  <1>16. ASSUME NEW c \in Callers, Unreachable(c) PROVE ShellInv'
    BY <1>16 DEF Unreachable, shell, Leave, Left, Fresh
  <1>17. ASSUME NEW c \in Callers, Reboot(c) PROVE ShellInv'
    BY <1>17 DEF Reboot, Again, Fresh, shell
  <1>18. ASSUME NEW c \in Callers, Fail(c) PROVE ShellInv'
    BY <1>18 DEF Fail, shell, Leave, Left, Fresh
  <1>19. ASSUME NEW c \in Callers, CallFails(c) PROVE ShellInv'
    BY <1>19 DEF CallFails, shell, Leave, Left, Fresh
  <1>20. ASSUME NEW c \in Callers, Crash(c) PROVE ShellInv'
    BY <1>20 DEF Crash, Leave, Left, Fresh, Waiting, Ended
  <1>21. CASE UNCHANGED vars
    BY <1>21 DEF vars
  <1>22. CASE ShellDies
    BY <1>22 DEF ShellDies, worker, Alive
  <1>23. CASE StartFails
    BY <1>23 DEF StartFails, Started, TailStart
  <1>24. ASSUME NEW c \in Callers, MkdirFails(c) PROVE ShellInv'
    BY <1>24 DEF MkdirFails, shell, Goto, TailStart
  <1> QED
    BY <1>1, <1>2, <1>3, <1>4, <1>5, <1>6, <1>7, <1>8, <1>9, <1>10, <1>11, <1>12,
       <1>13, <1>14, <1>15, <1>16, <1>17, <1>18, <1>19, <1>20, <1>21, <1>22, <1>23, <1>24
    DEF Next, Shell, Timer, Call

LEMMA TimerStep == IInv /\ [Next]_vars => TimerInv'
  <1> SUFFICES ASSUME IInv, [Next]_vars PROVE TimerInv'
    OBVIOUS
  <1> USE DEF IInv, ShellInv, TimerInv, CallerInv, TypeOK, Codes, Local
  <1>1. CASE Spawn
    BY <1>1 DEF Spawn, Started
  <1>2. CASE Write
    BY <1>2 DEF Write, Writing, worker
  <1>3. CASE Finish
    BY <1>3 DEF Finish, EndsWith, worker
  <1>4. CASE TimeoutInside
    BY <1>4 DEF TimeoutInside, EndsWith, worker
  <1>5. CASE OpenExit
    BY <1>5 DEF OpenExit, worker
  <1>6. CASE StampExit
    BY <1>6 DEF StampExit, worker
  <1>7. CASE TimerFires
    BY <1>7 DEF TimerFires, Alive
  <1>8. CASE TimerCleared
    BY <1>8 DEF TimerCleared, shell
  <1>9. CASE TimerChecks
    BY <1>9 DEF TimerChecks, shell
  <1>10. CASE TimerOpens
    BY <1>10 DEF TimerOpens
  <1>11. CASE TimerStamps
    BY <1>11 DEF TimerStamps
  <1>12. CASE Outage
    BY <1>12 DEF Outage, Alive, Left, Fresh
  <1>13. ASSUME NEW c \in Callers, Exec(c) PROVE TimerInv'
    BY <1>13 DEF Exec, TakeLock, LoseLock, Goto, TailStart
  <1>14. ASSUME NEW c \in Callers, Check(c) PROVE TimerInv'
    BY <1>14 DEF Check, shell
  <1>15. ASSUME NEW c \in Callers, Drain(c) PROVE TimerInv'
    BY <1>15 DEF Drain, shell
  <1>16. ASSUME NEW c \in Callers, Unreachable(c) PROVE TimerInv'
    BY <1>16 DEF Unreachable, shell, Leave, Left, Fresh
  <1>17. ASSUME NEW c \in Callers, Reboot(c) PROVE TimerInv'
    BY <1>17 DEF Reboot, Again, Fresh, shell
  <1>18. ASSUME NEW c \in Callers, Fail(c) PROVE TimerInv'
    BY <1>18 DEF Fail, shell, Leave, Left, Fresh
  <1>19. ASSUME NEW c \in Callers, CallFails(c) PROVE TimerInv'
    BY <1>19 DEF CallFails, shell, Leave, Left, Fresh
  <1>20. ASSUME NEW c \in Callers, Crash(c) PROVE TimerInv'
    BY <1>20 DEF Crash, Leave, Left, Fresh, Waiting, Ended
  <1>21. CASE UNCHANGED vars
    BY <1>21 DEF vars
  <1>22. CASE ShellDies
    BY <1>22 DEF ShellDies, worker, Alive
  <1>23. CASE StartFails
    BY <1>23 DEF StartFails, Started, TailStart
  <1>24. ASSUME NEW c \in Callers, MkdirFails(c) PROVE TimerInv'
    BY <1>24 DEF MkdirFails, shell, Goto, TailStart
  <1> QED
    BY <1>1, <1>2, <1>3, <1>4, <1>5, <1>6, <1>7, <1>8, <1>9, <1>10, <1>11, <1>12,
       <1>13, <1>14, <1>15, <1>16, <1>17, <1>18, <1>19, <1>20, <1>21, <1>22, <1>23, <1>24
    DEF Next, Shell, Timer, Call

\* Whoever writes exit has found no code in it.
LEMMA ExitStep ==
  IInv /\ [Next]_vars => (files.exit \in Codes => UNCHANGED files.exit)
  <1> SUFFICES ASSUME IInv, [Next]_vars PROVE (files.exit \in Codes => UNCHANGED files.exit)
    OBVIOUS
  <1> USE DEF IInv, ShellInv, TimerInv, TypeOK, Codes, Local
  <1>1. CASE Spawn
    BY <1>1 DEF Spawn, Started
  <1>2. CASE Write
    BY <1>2 DEF Write, Writing, worker
  <1>3. CASE Finish
    BY <1>3 DEF Finish, EndsWith, worker
  <1>4. CASE TimeoutInside
    BY <1>4 DEF TimeoutInside, EndsWith, worker
  <1>5. CASE OpenExit
    BY <1>5 DEF OpenExit, worker
  <1>6. CASE StampExit
    BY <1>6 DEF StampExit, worker
  <1>7. CASE TimerFires
    BY <1>7 DEF TimerFires, Alive
  <1>8. CASE TimerCleared
    BY <1>8 DEF TimerCleared, shell
  <1>9. CASE TimerChecks
    BY <1>9 DEF TimerChecks, shell
  <1>10. CASE TimerOpens
    BY <1>10 DEF TimerOpens
  <1>11. CASE TimerStamps
    BY <1>11 DEF TimerStamps
  <1>12. CASE Outage
    BY <1>12 DEF Outage, Alive, Left, Fresh
  <1>13. ASSUME NEW c \in Callers, Exec(c) PROVE (files.exit \in Codes => UNCHANGED files.exit)
    BY <1>13 DEF Exec, TakeLock, LoseLock, Goto, TailStart
  <1>14. ASSUME NEW c \in Callers, Check(c) PROVE (files.exit \in Codes => UNCHANGED files.exit)
    BY <1>14 DEF Check, shell
  <1>15. ASSUME NEW c \in Callers, Drain(c) PROVE (files.exit \in Codes => UNCHANGED files.exit)
    BY <1>15 DEF Drain, shell
  <1>16. ASSUME NEW c \in Callers, Unreachable(c) PROVE (files.exit \in Codes => UNCHANGED files.exit)
    BY <1>16 DEF Unreachable, shell, Leave, Left, Fresh
  <1>17. ASSUME NEW c \in Callers, Reboot(c) PROVE (files.exit \in Codes => UNCHANGED files.exit)
    BY <1>17 DEF Reboot, Again, Fresh, shell
  <1>18. ASSUME NEW c \in Callers, Fail(c) PROVE (files.exit \in Codes => UNCHANGED files.exit)
    BY <1>18 DEF Fail, shell, Leave, Left, Fresh
  <1>19. ASSUME NEW c \in Callers, CallFails(c) PROVE (files.exit \in Codes => UNCHANGED files.exit)
    BY <1>19 DEF CallFails, shell, Leave, Left, Fresh
  <1>20. ASSUME NEW c \in Callers, Crash(c) PROVE (files.exit \in Codes => UNCHANGED files.exit)
    BY <1>20 DEF Crash, Leave, Left, Fresh, Waiting, Ended
  <1>21. CASE UNCHANGED vars
    BY <1>21 DEF vars
  <1>22. CASE ShellDies
    BY <1>22 DEF ShellDies, worker, Alive
  <1>23. CASE StartFails
    BY <1>23 DEF StartFails, Started, TailStart
  <1>24. ASSUME NEW c \in Callers, MkdirFails(c) PROVE (files.exit \in Codes => UNCHANGED files.exit)
    BY <1>24 DEF MkdirFails, shell, Goto, TailStart
  <1> QED
    BY <1>1, <1>2, <1>3, <1>4, <1>5, <1>6, <1>7, <1>8, <1>9, <1>10, <1>11, <1>12,
       <1>13, <1>14, <1>15, <1>16, <1>17, <1>18, <1>19, <1>20, <1>21, <1>22, <1>23, <1>24
    DEF Next, Shell, Timer, Call

LEMMA CallerStep == IInv /\ [Next]_vars => CallerInv'
  <1> SUFFICES ASSUME IInv, [Next]_vars PROVE CallerInv'
    OBVIOUS
  <1> USE DEF IInv, ShellInv, TimerInv, CallerInv, TypeOK, Codes, Local, CallerType
  <1>1. CASE Spawn
    <2>1. /\ files' = files /\ owner' = owner
          /\ runner = "starting" /\ written' = written
      BY <1>1 DEF Spawn
    <2>2. ASSUME NEW d \in Callers
          PROVE  /\ callers'[d].code = callers[d].code
                 /\ callers'[d].got = callers[d].got
                 /\ callers'[d].clipped = callers[d].clipped
                 /\ callers'[d].pc \in {"spawn", "returned"} => callers'[d].pc = callers[d].pc
      <3>1. CASE callers[d].pc = "spawn"
        BY <1>1, <3>1 DEF Spawn, Started, TailStart
      <3>2. CASE callers[d].pc # "spawn"
        BY <1>1, <3>2 DEF Spawn, Started
      <3> QED
        BY <3>1, <3>2
    <2> QED
      BY <2>1, <2>2 DEF Clip
  <1>2. CASE Write
    BY <1>2, ExitStep DEF Write, Writing, worker
  <1>3. CASE Finish
    BY <1>3, ExitStep DEF Finish, EndsWith, worker
  <1>4. CASE TimeoutInside
    BY <1>4, ExitStep DEF TimeoutInside, EndsWith, worker
  <1>5. CASE OpenExit
    BY <1>5, ExitStep DEF OpenExit, worker
  <1>6. CASE StampExit
    BY <1>6, ExitStep DEF StampExit, worker
  <1>7. CASE TimerFires
    BY <1>7, ExitStep DEF TimerFires, Alive
  <1>8. CASE TimerCleared
    BY <1>8, ExitStep DEF TimerCleared, shell
  <1>9. CASE TimerChecks
    BY <1>9, ExitStep DEF TimerChecks, shell
  <1>10. CASE TimerOpens
    BY <1>10, ExitStep DEF TimerOpens
  <1>11. CASE TimerStamps
    BY <1>11, ExitStep DEF TimerStamps
  <1>12. CASE Outage
    <2>1. /\ files' = files /\ owner' = owner /\ written' = written
      BY <1>12 DEF Outage
    <2>2. Clip(written)' = Clip(written)
      BY <2>1
    <2> QED
      BY <1>12, <2>1, <2>2, OutageIs DEF Ended
  <1>13. ASSUME NEW c \in Callers, Exec(c) PROVE CallerInv'
    BY <1>13, ExitStep DEF Exec, TakeLock, LoseLock, Goto, TailStart
  <1>14. ASSUME NEW c \in Callers, Check(c) PROVE CallerInv'
    BY <1>14, ExitStep DEF Check, shell
  <1>15. ASSUME NEW c \in Callers, Drain(c) PROVE CallerInv'
    <2>1. files.exit' = files.exit /\ files.dir' = files.dir /\ owner' = owner
      BY <1>15 DEF Drain, shell
    <2>2. ASSUME NEW d \in Callers
          PROVE  /\ callers'[d].code = callers[d].code
                 /\ callers'[d].pc = "spawn" => callers[d].pc = "spawn"
                 /\ callers'[d].pc = "returned" =>
                      callers[d].pc = "returned" \/ callers[d].code \in Codes
      BY <1>15 DEF Drain
    <2> QED
      BY <2>1, <2>2
  <1>16. ASSUME NEW c \in Callers, Unreachable(c) PROVE CallerInv'
    BY <1>16, ExitStep DEF Unreachable, shell, Leave, Left, Fresh
  <1>17. ASSUME NEW c \in Callers, Reboot(c) PROVE CallerInv'
    BY <1>17, ExitStep DEF Reboot, Again, Fresh, shell
  <1>18. ASSUME NEW c \in Callers, Fail(c) PROVE CallerInv'
    BY <1>18, ExitStep DEF Fail, shell, Leave, Left, Fresh
  <1>19. ASSUME NEW c \in Callers, CallFails(c) PROVE CallerInv'
    <2>1. /\ files' = files /\ owner' = owner /\ written' = written
      BY <1>19 DEF CallFails, shell
    <2>2. Clip(written)' = Clip(written)
      BY <2>1
    <2>3. PICK pc \in {"failed", "down"} : Leave(c, pc)
      BY <1>19 DEF CallFails
    <2>4. ASSUME NEW d \in Callers
          PROVE  \/ callers'[d] = callers[d]
                 \/ callers'[d].code = "none" /\ callers'[d].pc = pc
      <3>1. pc \in {"down"} \cup Ended /\ pc # "returned"
        BY DEF Ended
      <3> QED
        BY <2>3, <3>1, LeaveIs
    <2> QED
      BY <2>1, <2>2, <2>4
  <1>20. ASSUME NEW c \in Callers, Crash(c) PROVE CallerInv'
    BY <1>20, ExitStep DEF Crash, Leave, Left, Fresh, Waiting, Ended
  <1>21. CASE UNCHANGED vars
    BY <1>21 DEF vars
  <1>22. CASE ShellDies
    BY <1>22, ExitStep DEF ShellDies, worker, Alive
  <1>23. CASE StartFails
    BY <1>23, ExitStep DEF StartFails, Started, TailStart
  <1>24. ASSUME NEW c \in Callers, MkdirFails(c) PROVE CallerInv'
    BY <1>24, ExitStep DEF MkdirFails, shell, Goto, TailStart
  <1> QED
    BY <1>1, <1>2, <1>3, <1>4, <1>5, <1>6, <1>7, <1>8, <1>9, <1>10, <1>11, <1>12,
       <1>13, <1>14, <1>15, <1>16, <1>17, <1>18, <1>19, <1>20, <1>21, <1>22, <1>23, <1>24
    DEF Next, Shell, Timer, Call

\* The bytes of an ended command do not change, and only grow in out.
LEMMA ResultStep == IInv /\ [Next]_vars => WholeResult'
  <1> SUFFICES ASSUME IInv, [Next]_vars PROVE WholeResult'
    OBVIOUS
  <1> USE DEF IInv, ShellInv, TimerInv, CallerInv, WholeResult, TypeOK, Codes, Local, CallerType
  <1>1. CASE Spawn
    <2>1. /\ files' = files /\ owner' = owner
          /\ runner = "starting" /\ written' = written
      BY <1>1 DEF Spawn
    <2>2. ASSUME NEW d \in Callers
          PROVE  /\ callers'[d].code = callers[d].code
                 /\ callers'[d].got = callers[d].got
                 /\ callers'[d].clipped = callers[d].clipped
                 /\ callers'[d].pc \in {"spawn", "returned"} => callers'[d].pc = callers[d].pc
      <3>1. CASE callers[d].pc = "spawn"
        BY <1>1, <3>1 DEF Spawn, Started, TailStart
      <3>2. CASE callers[d].pc # "spawn"
        BY <1>1, <3>2 DEF Spawn, Started
      <3> QED
        BY <3>1, <3>2
    <2> QED
      BY <2>1, <2>2 DEF Clip
  <1>2. CASE Write
    BY <1>2 DEF Write, Writing, worker
  <1>3. CASE Finish
    BY <1>3 DEF Finish, EndsWith, worker
  <1>4. CASE TimeoutInside
    BY <1>4 DEF TimeoutInside, EndsWith, worker
  <1>5. CASE OpenExit
    BY <1>5 DEF OpenExit, worker
  <1>6. CASE StampExit
    BY <1>6 DEF StampExit, worker
  <1>7. CASE TimerFires
    BY <1>7 DEF TimerFires, Alive
  <1>8. CASE TimerCleared
    BY <1>8 DEF TimerCleared, shell
  <1>9. CASE TimerChecks
    BY <1>9 DEF TimerChecks, shell
  <1>10. CASE TimerOpens
    BY <1>10 DEF TimerOpens
  <1>11. CASE TimerStamps
    BY <1>11 DEF TimerStamps
  <1>12. CASE Outage
    <2>1. /\ files' = files /\ owner' = owner /\ written' = written
      BY <1>12 DEF Outage
    <2>2. Clip(written)' = Clip(written)
      BY <2>1
    <2> QED
      BY <1>12, <2>1, <2>2, OutageIs DEF Ended
  <1>13. ASSUME NEW c \in Callers, Exec(c) PROVE WholeResult'
    BY <1>13 DEF Exec, TakeLock, LoseLock, Goto, TailStart
  <1>14. ASSUME NEW c \in Callers, Check(c) PROVE WholeResult'
    BY <1>14 DEF Check, shell
  <1>15. ASSUME NEW c \in Callers, Drain(c) PROVE WholeResult'
    <2>1. files' = files /\ written' = written
      BY <1>15 DEF Drain, shell
    <2>2. ASSUME NEW d \in Callers, d # c PROVE callers'[d] = callers[d]
      BY <1>15, <2>2 DEF Drain
    <2>3. callers'[c].got = Clip(files.out) /\ callers'[c].clipped = (files.out > Cap)
      BY <1>15 DEF Drain
    <2>4. Clip(files.out) >= Clip(written)
      BY ExecAssumption DEF Clip
    <2>5. Clip(files.out) < written => files.out > Cap
      BY ExecAssumption DEF Clip
    <2>6. Clip(written)' = Clip(written)
      BY <2>1 DEF Clip
    <2> SUFFICES ASSUME NEW d \in Callers, callers'[d].pc = "returned"
                 PROVE  /\ callers'[d].got >= Clip(written)'
                        /\ callers'[d].got < written' => callers'[d].clipped
      OBVIOUS
    <2>7. CASE d = c
      BY <2>1, <2>3, <2>4, <2>5, <2>6, <2>7
    <2>8. CASE d # c
      BY <2>1, <2>2, <2>6, <2>8
    <2> QED
      BY <2>7, <2>8
  <1>16. ASSUME NEW c \in Callers, Unreachable(c) PROVE WholeResult'
    BY <1>16 DEF Unreachable, shell, Leave, Left, Fresh
  <1>17. ASSUME NEW c \in Callers, Reboot(c) PROVE WholeResult'
    BY <1>17 DEF Reboot, Again, Fresh, shell
  <1>18. ASSUME NEW c \in Callers, Fail(c) PROVE WholeResult'
    BY <1>18 DEF Fail, shell, Leave, Left, Fresh
  <1>19. ASSUME NEW c \in Callers, CallFails(c) PROVE WholeResult'
    <2>1. /\ files' = files /\ owner' = owner /\ written' = written
      BY <1>19 DEF CallFails, shell
    <2>2. Clip(written)' = Clip(written)
      BY <2>1
    <2>3. PICK pc \in {"failed", "down"} : Leave(c, pc)
      BY <1>19 DEF CallFails
    <2>4. ASSUME NEW d \in Callers
          PROVE  \/ callers'[d] = callers[d]
                 \/ callers'[d].code = "none" /\ callers'[d].pc = pc
      <3>1. pc \in {"down"} \cup Ended /\ pc # "returned"
        BY DEF Ended
      <3> QED
        BY <2>3, <3>1, LeaveIs
    <2> QED
      BY <2>1, <2>2, <2>4
  <1>20. ASSUME NEW c \in Callers, Crash(c) PROVE WholeResult'
    BY <1>20 DEF Crash, Leave, Left, Fresh, Waiting, Ended
  <1>21. CASE UNCHANGED vars
    BY <1>21 DEF vars
  <1>22. CASE ShellDies
    BY <1>22 DEF ShellDies, worker, Alive
  <1>23. CASE StartFails
    BY <1>23 DEF StartFails, Started, TailStart
  <1>24. ASSUME NEW c \in Callers, MkdirFails(c) PROVE WholeResult'
    BY <1>24 DEF MkdirFails, shell, Goto, TailStart
  <1> QED
    BY <1>1, <1>2, <1>3, <1>4, <1>5, <1>6, <1>7, <1>8, <1>9, <1>10, <1>11, <1>12,
       <1>13, <1>14, <1>15, <1>16, <1>17, <1>18, <1>19, <1>20, <1>21, <1>22, <1>23, <1>24
    DEF Next, Shell, Timer, Call

LEMMA ExecInvariant == Spec => []IInv
  <1>1. IInv /\ [Next]_vars => IInv'
    BY TypeStep, ShellStep, TimerStep, CallerStep, ResultStep DEF IInv
  <1> QED
    BY InvInit, <1>1, PTL DEF Spec

\* The command runs at most once, whoever calls, retries, dies or reboots.
THEOREM CommandRunsOnce == Spec => []RunsOnce
  <1>1. IInv => RunsOnce
    BY DEF IInv, ShellInv, RunsOnce
  <1> QED
    BY ExecInvariant, <1>1, PTL

\* A result holds all the command wrote, or says that the cap cut it.
THEOREM ResultsAreWhole == Spec => []WholeResult
  <1>1. IInv => WholeResult
    BY DEF IInv
  <1> QED
    BY ExecInvariant, <1>1, PTL

\* An exit code, once stamped by the shell or the timer, stays.
THEOREM ExitStays == Spec => ExitIsFinal
  <1>1. IInv /\ [Next]_vars => [files.exit \in Codes => UNCHANGED files.exit]_vars
    BY ExitStep
  <1> QED
    BY ExecInvariant, <1>1, PTL DEF Spec, ExitIsFinal

----------------------------------------------------------------------------
(* The drivers implement IdemExec.                                         *)

LEMMA Stutters ==
  ASSUME runs' = runs, ExitCode' = ExitCode,
         \A d \in Callers : Told(d)' = Told(d)
  PROVE  UNCHANGED Promise!vars
  <1>1. [d \in Callers |-> Told(d)]' = [d \in Callers |-> Told(d)]
    OBVIOUS
  <1> QED
    BY <1>1 DEF Promise!vars

\* What is told to one caller changes when that caller's own call ends.
LEMMA OneTold ==
  ASSUME NEW c \in Callers, runs' = runs, ExitCode' = ExitCode,
         \A d \in Callers \ {c} : Told(d)' = Told(d),
         Told(c) = "none",
         \/ Told(c)' = "unavailable"
         \/ Told(c)' = ExitCode /\ ExitCode \in Codes
  PROVE  Promise!Next
  <1> DEFINE answer == [d \in Callers |-> Told(d)]
  <1>1. answer[c] = "none"
    OBVIOUS
  <1>2. answer' = [answer EXCEPT ![c] = Told(c)']
    OBVIOUS
  <1>3. CASE Told(c)' = "unavailable"
    BY <1>1, <1>2, <1>3 DEF Promise!Next, Promise!GiveUp
  <1>4. CASE Told(c)' = ExitCode /\ ExitCode \in Codes
    BY <1>1, <1>2, <1>4 DEF Promise!Next, Promise!Return
  <1> QED
    BY <1>3, <1>4

LEMMA Stamped ==
  ASSUME runs' = runs, runs = 1, ExitCode = "none", ExitCode' \in Codes,
         \A d \in Callers : Told(d)' = Told(d)
  PROVE  Promise!Next
  <1>1. [d \in Callers |-> Told(d)]' = [d \in Callers |-> Told(d)]
    OBVIOUS
  <1> QED
    BY <1>1 DEF Promise!Next, Promise!Exit

LEMMA PromiseStep ==
  ASSUME IInv, [Next]_vars
  PROVE  Promise!Next \/ UNCHANGED Promise!vars
  <1> USE DEF IInv, TypeOK, ShellInv, TimerInv, CallerInv
  <1>0. ASSUME UNCHANGED callers PROVE \A d \in Callers : Told(d)' = Told(d)
    BY <1>0 DEF Told
  <1>1. CASE Spawn
    <2>1. runs = 0 /\ runs' = 1 /\ ExitCode' = ExitCode
      BY <1>1 DEF Spawn, ExitCode
    <2>2. ASSUME NEW d \in Callers PROVE Told(d)' = Told(d)
      <3>1. CASE callers[d].pc = "spawn"
        BY <1>1, <3>1 DEF Spawn, Started, TailStart, Told, CallerType
      <3>2. CASE callers[d].pc # "spawn"
        BY <1>1, <3>2 DEF Spawn, Started, Told
      <3> QED
        BY <3>1, <3>2
    <2>3. [d \in Callers |-> Told(d)]' = [d \in Callers |-> Told(d)]
      BY <2>2
    <2> QED
      BY <2>1, <2>3 DEF Promise!Next, Promise!Run
  <1>2. CASE Write
    <2>1. runs' = runs /\ ExitCode' = ExitCode /\ UNCHANGED callers
      BY <1>2 DEF Write, worker, ExitCode
    <2> QED
      BY <2>1, <1>0, Stutters
  <1>3. CASE Finish
    <2>1. runs' = runs /\ ExitCode' = ExitCode /\ UNCHANGED callers
      BY <1>3 DEF Finish, EndsWith, worker, ExitCode
    <2> QED
      BY <2>1, <1>0, Stutters
  <1>4. CASE TimeoutInside
    <2>1. runs' = runs /\ ExitCode' = ExitCode /\ UNCHANGED callers
      BY <1>4 DEF TimeoutInside, EndsWith, worker, ExitCode
    <2> QED
      BY <2>1, <1>0, Stutters
  <1>5. CASE OpenExit
    <2>1. runs' = runs /\ ExitCode' = ExitCode /\ UNCHANGED callers
      BY <1>5 DEF OpenExit, worker, Codes, ExitCode
    <2> QED
      BY <2>1, <1>0, Stutters
  <1>6. CASE TimerFires
    <2>1. runs' = runs /\ ExitCode' = ExitCode /\ UNCHANGED callers
      BY <1>6 DEF TimerFires, ExitCode
    <2> QED
      BY <2>1, <1>0, Stutters
  <1>7. CASE TimerCleared
    <2>1. runs' = runs /\ ExitCode' = ExitCode /\ UNCHANGED callers
      BY <1>7 DEF TimerCleared, shell, ExitCode
    <2> QED
      BY <2>1, <1>0, Stutters
  <1>8. CASE TimerChecks
    <2>1. runs' = runs /\ ExitCode' = ExitCode /\ UNCHANGED callers
      BY <1>8 DEF TimerChecks, shell, ExitCode
    <2> QED
      BY <2>1, <1>0, Stutters
  <1>9. CASE TimerOpens
    <2>1. runs' = runs /\ ExitCode' = ExitCode /\ UNCHANGED callers
      BY <1>9 DEF TimerOpens, Codes, ExitCode
    <2> QED
      BY <2>1, <1>0, Stutters
  <1>10. CASE StampExit
    <2>1. runs' = runs /\ runs = 1 /\ ExitCode = "none" /\ ExitCode' \in Codes /\ UNCHANGED callers
      BY <1>10 DEF StampExit, worker, ExitCode, Codes
    <2> QED
      BY <2>1, <1>0, Stamped
  <1>11. CASE TimerStamps
    <2>1. runs' = runs /\ runs = 1 /\ ExitCode = "none" /\ ExitCode' \in Codes /\ UNCHANGED callers
      BY <1>11 DEF TimerStamps, ExitCode, Codes
    <2> QED
      BY <2>1, <1>0, Stamped
  <1>12. CASE Outage
    <2>1. runs' = runs /\ ExitCode' = ExitCode
      BY <1>12 DEF Outage, ExitCode
    <2>2. \A d \in Callers : Told(d)' = Told(d)
      BY <1>12, OutageIs DEF Told
    <2> QED
      BY <2>1, <2>2, Stutters
  <1>13. ASSUME NEW c \in Callers, Exec(c) PROVE UNCHANGED Promise!vars
    <2>1. runs' = runs /\ ExitCode' = ExitCode
      BY <1>13 DEF Exec, TakeLock, LoseLock, Goto, TailStart, ExitCode
    <2>2. \A d \in Callers : Told(d)' = Told(d)
      BY <1>13 DEF Exec, TakeLock, LoseLock, Goto, TailStart, Told, CallerType
    <2> QED
      BY <2>1, <2>2, Stutters
  <1>14. ASSUME NEW c \in Callers, Check(c) PROVE UNCHANGED Promise!vars
    <2>1. runs' = runs /\ ExitCode' = ExitCode
      BY <1>14 DEF Check, shell, ExitCode
    <2>2. \A d \in Callers : Told(d)' = Told(d)
      BY <1>14 DEF Check, shell, Told, CallerType
    <2> QED
      BY <2>1, <2>2, Stutters
  <1>15. ASSUME NEW c \in Callers, Unreachable(c) PROVE UNCHANGED Promise!vars
    <2>1. runs' = runs /\ ExitCode' = ExitCode
      BY <1>15 DEF Unreachable, shell, Leave, Left, Fresh, ExitCode
    <2>2. \A d \in Callers : Told(d)' = Told(d)
      BY <1>15 DEF Unreachable, shell, Leave, Left, Fresh, Told, CallerType
    <2> QED
      BY <2>1, <2>2, Stutters
  <1>16. ASSUME NEW c \in Callers, Reboot(c) PROVE UNCHANGED Promise!vars
    <2>1. runs' = runs /\ ExitCode' = ExitCode
      BY <1>16 DEF Reboot, Again, Fresh, shell, ExitCode
    <2>2. \A d \in Callers : Told(d)' = Told(d)
      BY <1>16 DEF Reboot, Again, Fresh, shell, Told, CallerType
    <2> QED
      BY <2>1, <2>2, Stutters
  <1>17. ASSUME NEW c \in Callers, Crash(c) PROVE UNCHANGED Promise!vars
    <2>1. runs' = runs /\ ExitCode' = ExitCode
      BY <1>17 DEF Crash, Leave, Left, Fresh, Waiting, Ended, ExitCode
    <2>2. \A d \in Callers : Told(d)' = Told(d)
      BY <1>17 DEF Crash, Leave, Left, Fresh, Waiting, Ended, Told, CallerType
    <2> QED
      BY <2>1, <2>2, Stutters
  <1>18. ASSUME NEW c \in Callers, Drain(c) PROVE Promise!Next \/ UNCHANGED Promise!vars
    <2>1. runs' = runs /\ ExitCode' = ExitCode
      BY <1>18 DEF Drain, shell, ExitCode
    <2>2. \A d \in Callers \ {c} : Told(d)' = Told(d)
      BY <1>18 DEF Drain, Told
    <2>3. Told(c) = "none"
      BY <1>18 DEF Drain, Told
    <2>4. callers'[c].code = callers[c].code
      BY <1>18 DEF Drain, CallerType
    <2>5. CASE callers[c].code \in Codes
      <3>1. callers'[c].pc = "returned"
        BY <1>18, <2>5 DEF Drain, CallerType
      <3>2. Told(c)' = ExitCode /\ ExitCode \in Codes
        BY <2>4, <2>5, <3>1 DEF Told, ExitCode
      <3> QED
        BY <2>1, <2>2, <2>3, <3>2, OneTold
    <2>6. CASE callers[c].code \notin Codes
      <3>1. callers'[c].pc = "check"
        BY <1>18, <2>6 DEF Drain, CallerType
      <3>2. Told(c)' = Told(c)
        BY <2>3, <3>1 DEF Told
      <3> QED
        BY <2>1, <2>2, <3>2, Stutters
    <2> QED
      BY <2>5, <2>6
  <1>19. ASSUME NEW c \in Callers, Fail(c) PROVE Promise!Next
    <2>1. runs' = runs /\ ExitCode' = ExitCode /\ Told(c) = "none"
      BY <1>19 DEF Fail, shell, ExitCode, Told
    <2>2. \A d \in Callers \ {c} : Told(d)' = Told(d)
      BY <1>19 DEF Fail, Leave, Left, Fresh, Told
    <2>3. Told(c)' = "unavailable"
      BY <1>19 DEF Fail, Leave, Left, Fresh, Told, CallerType
    <2> QED
      BY <2>1, <2>2, <2>3, OneTold
  <1>20. ASSUME NEW c \in Callers, CallFails(c) PROVE Promise!Next \/ UNCHANGED Promise!vars
    <2>1. runs' = runs /\ ExitCode' = ExitCode /\ Told(c) = "none"
      BY <1>20 DEF CallFails, shell, ExitCode, Told
    <2>2. \A d \in Callers \ {c} : Told(d)' = Told(d)
      BY <1>20 DEF CallFails, Leave, Left, Fresh, Told
    <2>3. CASE Leave(c, "failed")
      <3>1. Told(c)' = "unavailable"
        BY <2>3 DEF Leave, Left, Fresh, Told, CallerType
      <3> QED
        BY <2>1, <2>2, <3>1, OneTold
    <2>4. CASE Leave(c, "down")
      <3>1. Told(c)' = Told(c)
        BY <2>1, <2>4 DEF Leave, Left, Fresh, Told, CallerType
      <3> QED
        BY <2>1, <2>2, <3>1, Stutters
    <2> QED
      BY <1>20, <2>3, <2>4 DEF CallFails
  <1>21. CASE UNCHANGED vars
    <2>1. runs' = runs /\ ExitCode' = ExitCode /\ UNCHANGED callers
      BY <1>21 DEF vars, ExitCode
    <2> QED
      BY <2>1, <1>0, Stutters
  <1>22. CASE ShellDies
    <2>1. runs' = runs /\ ExitCode' = ExitCode /\ UNCHANGED callers
      BY <1>22 DEF ShellDies, worker, ExitCode
    <2> QED
      BY <2>1, <1>0, Stutters
  <1>23. CASE StartFails
    <2>1. runs' = runs /\ ExitCode' = ExitCode
      BY <1>23 DEF StartFails, ExitCode
    <2>2. \A d \in Callers : Told(d)' = Told(d)
      BY <1>23 DEF StartFails, Started, TailStart, Told, CallerType
    <2> QED
      BY <2>1, <2>2, Stutters
  <1>24. ASSUME NEW c \in Callers, MkdirFails(c) PROVE UNCHANGED Promise!vars
    <2>1. runs' = runs /\ ExitCode' = ExitCode
      BY <1>24 DEF MkdirFails, shell, ExitCode
    <2>2. \A d \in Callers : Told(d)' = Told(d)
      BY <1>24 DEF MkdirFails, Goto, TailStart, Told, CallerType
    <2> QED
      BY <2>1, <2>2, Stutters
  <1> QED
    BY <1>1, <1>2, <1>3, <1>4, <1>5, <1>6, <1>7, <1>8, <1>9, <1>10, <1>11, <1>12,
       <1>13, <1>14, <1>15, <1>16, <1>17, <1>18, <1>19, <1>20, <1>21, <1>22, <1>23, <1>24
    DEF Next, Shell, Timer, Call

\* Whatever the callers, crashes, lost calls and outages: each driver runs the
\* command at most once, decides one code, and tells each caller that code or
\* that it could not be observed.
THEOREM DriversKeepPromise == Spec => KeepsPromise
  <1>1. Init => Promise!Init
    <2> SUFFICES ASSUME Init PROVE Promise!Init
      OBVIOUS
    <2>1. \A d \in Callers : Told(d) = "none"
      BY DEF Init, Told, Fresh
    <2>2. ExitCode = "none" /\ runs = 0
      BY DEF Init, ExitCode, Codes
    <2> QED
      BY <2>1, <2>2 DEF Promise!Init
  <1>2. IInv /\ [Next]_vars => [Promise!Next]_(Promise!vars)
    BY PromiseStep
  <1> QED
    BY <1>1, <1>2, ExecInvariant, PTL DEF Spec, KeepsPromise, Promise!Spec
=============================================================================
