----------------------- MODULE TurnRuntimeImplements ------------------------
(***************************************************************************)
(* TurnRuntime implements Conversation, for every number of slots,         *)
(* messages, attempts, iterations and faults: no crash, stall, redelivery  *)
(* or failing database call puts an event into the log that a single       *)
(* executor working on the log itself would not have put there.            *)
(*                                                                         *)
(* The argument: a slot's memory is a prefix of the log (SlotFollowsLog);  *)
(* an append succeeds only when the prefix is the whole log; and what the  *)
(* slot is about to append is what the reducer orders on its memory.       *)
(*                                                                         *)
(* The same append rule makes the log a journal (JournalInv): a command    *)
(* runs behind its call in the log, and what was observed of it is the     *)
(* result that was logged.  A row is inserted with its message and a turn  *)
(* reads the log after it has claimed the row, so the memory it acts on    *)
(* holds that message (SeesInv).                                           *)
(*                                                                         *)
(* What the model is told of that log (Context) pairs every call with its  *)
(* result: in the log a turn's call is followed by its result or by the    *)
(* turn's failure, and that by the next message (TalkInv), for a turn the  *)
(* model has spoken in keeps its job until it ends (BeginInv); what is     *)
(* next to each other in the log, bookkeeping aside, is so in the request  *)
(* (PairedLog).                                                            *)
(***************************************************************************)
EXTENDS TurnRuntimeProofs, WellFoundedInduction

HasMessage(events) == \E i \in DOMAIN events : events[i] = UserMessage

InTurnPc == {"act", "tail", "reboot", "fail"}

\* The class a slot is about to record belongs to the step that failed.
ClassFits(class, action) ==
  /\ action # "noop"
  /\ \/ class = "LLM_PERMANENT" /\ action = "infer"
     \/ class = "SANDBOX_FATAL" /\ action = "exec_tool"
     \/ class = "INTERNAL"

IsPrefixOf(mem, events) ==
  /\ Len(mem) <= Len(events)
  /\ \A i \in 1 .. Len(mem) : mem[i] = events[i]

\* What a slot r holds, against the log.
SlotFollowsLog(r, events) ==
  /\ IsPrefixOf(r.mem, events)
  /\ r.job # 0 => HasMessage(events)
  /\ r.pc \in InTurnPc \cup {"read"} => r.job # 0
  /\ r.pc \in InTurnPc => HasMessage(r.mem)
  /\ r.pc \in {"tail", "reboot"} => NextAction(r.mem, MaxIterations) = "exec_tool"
  /\ r.pc = "fail" => ClassFits(r.class, NextAction(r.mem, MaxIterations))

JobsHaveMessage ==
  \A j \in JobId \ {0} : jobs[j].state # "none" => HasMessage(log)

\* The inductive invariant.
IInv == /\ TypeOK
        /\ \A s \in Slots : SlotFollowsLog(slots[s], log)
        /\ JobsHaveMessage

LogGrows == log' = log \/ \E e \in Event : log' = Append(log, e)

-----------------------------------------------------------------------------
(* A growing log keeps what was true of an older copy.                     *)

LEMMA MessageStays ==
  ASSUME NEW l \in Seq(Event), NEW e \in Event, HasMessage(l)
  PROVE  HasMessage(Append(l, e))
BY DEF HasMessage

LEMMA SlotStays ==
  ASSUME NEW l \in Seq(Event), NEW e \in Event, NEW r \in Slot,
         SlotFollowsLog(r, l)
  PROVE  SlotFollowsLog(r, Append(l, e))
<1>1. r.mem \in Seq(Event)
  BY DEF Slot
<1>2. IsPrefixOf(r.mem, Append(l, e))
  BY <1>1 DEF SlotFollowsLog, IsPrefixOf
<1> QED
  BY <1>2, MessageStays DEF SlotFollowsLog

\* A prefix as long as the log is the log.
LEMMA FullPrefix ==
  ASSUME NEW mem \in Seq(Event), NEW l \in Seq(Event),
         IsPrefixOf(mem, l), ~(Len(l) >= Len(mem) + 1)
  PROVE  mem = l
<1>1. Len(mem) = Len(l)
  BY DEF IsPrefixOf
<1>2. \A i \in 1 .. Len(mem) : mem[i] = l[i]
  BY DEF IsPrefixOf
<1> QED
  BY <1>1, <1>2

\* One slot writes its own record, the log grows and no job appears.
LEMMA OneSlotWrites ==
  ASSUME IInv, TypeOK', NEW s \in Slots, NEW r, LogGrows,
         slots' = [slots EXCEPT ![s] = r],
         SlotFollowsLog(r, log'),
         \A j \in JobId : jobs'[j].state # "none" => jobs[j].state # "none"
  PROVE  IInv'
<1>1. log \in Seq(Event) /\ \A t \in Slots : slots[t] \in Slot
  BY DEF IInv, TypeOK
<1>2. \A t \in Slots : SlotFollowsLog(slots'[t], log')
  <2> TAKE t \in Slots
  <2>1. CASE t = s
    BY <2>1 DEF IInv, TypeOK
  <2>2. CASE t # s
    <3>1. slots'[t] = slots[t] /\ SlotFollowsLog(slots[t], log)
      BY <2>2 DEF IInv, TypeOK
    <3> QED
      BY <1>1, <3>1, SlotStays DEF LogGrows
  <2> QED
    BY <2>1, <2>2
<1>3. JobsHaveMessage'
  BY <1>1, MessageStays DEF IInv, JobsHaveMessage, LogGrows
<1> QED
  BY <1>2, <1>3 DEF IInv

-----------------------------------------------------------------------------
(* The control helpers.                                                    *)

NoNewJob == \A j \in JobId : jobs'[j].state # "none" => jobs[j].state # "none"

\* A slot that forgets its turn follows any log.
LEMMA ForgetFollows ==
  ASSUME IInv, TypeOK', NEW s \in Slots, NEW r, LogGrows, NoNewJob,
         slots' = [slots EXCEPT ![s] = r],
         r.mem = <<>>, r.job \in {0, slots[s].job}, r.pc \notin InTurnPc \cup {"read"}
  PROVE  IInv'
<1>1. log \in Seq(Event) /\ log' \in Seq(Event)
  BY DEF IInv, TypeOK
<1>2. slots[s].job # 0 => HasMessage(log')
  BY <1>1, MessageStays DEF IInv, SlotFollowsLog, LogGrows
<1>3. SlotFollowsLog(r, log')
  BY <1>1, <1>2 DEF SlotFollowsLog, IsPrefixOf, InTurnPc
<1> QED
  BY <1>3, OneSlotWrites DEF NoNewJob

LEMMA ReturnFollows ==
  ASSUME IInv, TypeOK', NEW s \in Slots, NEW outcome, LogGrows, NoNewJob,
         Return(s, outcome)
  PROVE  IInv'
<1> DEFINE r == [Idle EXCEPT !.pc = "settle", !.job = slots[s].job,
                             !.outcome = outcome]
<1>1. r.mem = <<>> /\ r.job = slots[s].job /\ r.pc \notin InTurnPc \cup {"read"}
  BY DEF Idle, InTurnPc
<1>2. slots' = [slots EXCEPT ![s] = r]
  BY DEF Return
<1> HIDE DEF r
<1> QED
  BY <1>1, <1>2, ForgetFollows

LEMMA IdleFollows ==
  ASSUME IInv, TypeOK', NEW s \in Slots, LogGrows, NoNewJob,
         slots' = [slots EXCEPT ![s] = Idle]
  PROVE  IInv'
<1>1. Idle.mem = <<>> /\ Idle.job = 0 /\ Idle.pc \notin InTurnPc \cup {"read"}
  BY DEF Idle, InTurnPc
<1> QED
  BY <1>1, ForgetFollows

\* A step that keeps the slot's memory and job stays within the turn.
LEMMA StayFollows ==
  ASSUME IInv, TypeOK', NEW s \in Slots, NEW r, LogGrows, NoNewJob,
         slots' = [slots EXCEPT ![s] = r],
         r.mem = slots[s].mem, r.job = slots[s].job, slots[s].pc \in InTurnPc,
         r.pc \in {"tail", "reboot"} => NextStep(s) = "exec_tool",
         r.pc = "fail" => ClassFits(r.class, NextStep(s))
  PROVE  IInv'
<1>1. log \in Seq(Event) /\ slots[s] \in Slot /\ SlotFollowsLog(slots[s], log)
  BY DEF IInv, TypeOK
<1>2. SlotFollowsLog(slots[s], log')
  BY <1>1, SlotStays DEF LogGrows
<1>3. SlotFollowsLog(r, log')
  BY <1>2 DEF SlotFollowsLog, NextStep
<1> QED
  BY <1>3, OneSlotWrites DEF NoNewJob

LEMMA MapErrorFollows ==
  ASSUME IInv, TypeOK', NEW s \in Slots, NEW class \in ErrorClass, LogGrows, NoNewJob,
         MapError(s, class), slots[s].pc \in InTurnPc, ClassFits(class, NextStep(s))
  PROVE  IInv'
<1>1. CASE slots[s].last
  <2> DEFINE r == [slots[s] EXCEPT !.pc = "fail", !.class = class]
  <2>1. slots' = [slots EXCEPT ![s] = r]
    BY <1>1, SlotTypes DEF MapError, IInv
  <2>2. slots[s] \in Slot
    BY DEF IInv, TypeOK
  <2>3. /\ r.mem = slots[s].mem /\ r.job = slots[s].job
        /\ r.pc = "fail" /\ r.class = class
    BY <2>2 DEF Slot
  <2> HIDE DEF r
  <2> QED
    BY <2>1, <2>3, StayFollows
<1>2. CASE ~slots[s].last
  BY <1>2, ReturnFollows DEF MapError
<1> QED
  BY <1>1, <1>2

LEMMA AppendAndReturnFollows ==
  ASSUME IInv, TypeOK', NEW s \in Slots, NEW e \in Event, NEW outcome, NoNewJob,
         AppendAndReturn(s, e, outcome)
  PROVE  IInv'
<1>1. LogGrows
  BY DEF AppendAndReturn, LogGrows
<1> QED
  BY <1>1, ReturnFollows DEF AppendAndReturn

LEMMA AppendAndLoopFollows ==
  ASSUME IInv, TypeOK', NEW s \in Slots, NEW e \in Event, NoNewJob,
         AppendAndLoop(s, e), slots[s].pc \in InTurnPc
  PROVE  IInv'
<1>1. LogGrows
  BY DEF AppendAndLoop, LogGrows
<1>2. CASE SeqTaken(s)
  BY <1>1, <1>2, ReturnFollows DEF AppendAndLoop
<1>3. CASE ~SeqTaken(s)
  <2> DEFINE r == [slots[s] EXCEPT !.pc = "act", !.rebooted = FALSE,
                                   !.mem = Append(slots[s].mem, e)]
  <2>1. slots' = [slots EXCEPT ![s] = r] /\ log' = Append(log, e)
    BY <1>3, SlotTypes DEF AppendAndLoop, IInv
  <2>2. slots[s] \in Slot /\ log \in Seq(Event) /\ slots[s].mem \in Seq(Event)
    BY DEF IInv, TypeOK, Slot
  <2>3. SlotFollowsLog(slots[s], log)
    BY DEF IInv
  <2>4. slots[s].mem = log
    BY <1>3, <2>2, <2>3, FullPrefix DEF SeqTaken, SlotFollowsLog
  <2>5. r.mem = log' /\ r.job = slots[s].job /\ r.pc = "act"
    BY <2>1, <2>2, <2>4 DEF Slot
  <2>6. r.job # 0 /\ HasMessage(log)
    BY <2>3, <2>5 DEF SlotFollowsLog
  <2>7. HasMessage(log')
    BY <2>1, <2>2, <2>6, MessageStays
  <2>8. log' \in Seq(Event)
    BY <2>1, <2>2
  <2> HIDE DEF r
  <2>9. SlotFollowsLog(r, log')
    BY <2>5, <2>6, <2>7, <2>8 DEF SlotFollowsLog, IsPrefixOf, InTurnPc
  <2> QED
    BY <1>1, <2>1, <2>9, OneSlotWrites DEF NoNewJob
<1> QED
  BY <1>2, <1>3

-----------------------------------------------------------------------------
(* Every action keeps the inductive invariant.                             *)

LEMMA FollowsInit == Init => IInv
<1> SUFFICES ASSUME Init
             PROVE  IInv
  OBVIOUS
<1>1. TypeOK
  BY TypeInit
<1>2. \A s \in Slots : SlotFollowsLog(slots[s], log)
  <2> TAKE s \in Slots
  <2>1. slots[s] = Idle /\ log \in Seq(Event)
    BY <1>1 DEF Init, TypeOK
  <2>2. Idle.mem = <<>> /\ Idle.job = 0 /\ Idle.pc = "idle"
    BY DEF Idle
  <2> QED
    BY <2>1, <2>2 DEF SlotFollowsLog, IsPrefixOf, InTurnPc
<1>3. JobsHaveMessage
  BY DEF Init, JobsHaveMessage, NoJob
<1> QED
  BY <1>1, <1>2, <1>3 DEF IInv

\* Nothing the slots or the log hold changes.
LEMMA QuietFollows ==
  ASSUME IInv, TypeOK', NoNewJob, UNCHANGED <<log, slots>>
  PROVE  IInv'
BY DEF IInv, NoNewJob, JobsHaveMessage

LEMMA FollowsApi ==
  ASSUME IInv, TypeOK', SendMessage \/ Archive \/ CommandExits
  PROVE  IInv'
<1>1. CASE SendMessage
  <2>1. log \in Seq(Event) /\ log' = Append(log, UserMessage) /\ slots' = slots
    BY <1>1 DEF SendMessage, IInv, TypeOK
  <2>2. \A s \in Slots : SlotFollowsLog(slots'[s], log')
    BY <2>1, EventTypes, SlotStays DEF IInv, TypeOK
  <2>3. HasMessage(log')
    BY <2>1 DEF HasMessage
  <2> QED
    BY <2>2, <2>3 DEF IInv, JobsHaveMessage
<1>2. CASE Archive
  BY <1>2, QuietFollows DEF Archive, NoNewJob
<1>3. CASE CommandExits
  BY <1>3, QuietFollows DEF CommandExits, NoNewJob
<1> QED
  BY <1>1, <1>2, <1>3

LEMMA FollowsExpire ==
  ASSUME IInv, TypeOK', NEW j \in JobId, ExpireLease(j)
  PROVE  IInv'
<1>1. NoNewJob
  BY DEF ExpireLease, NoNewJob, IInv, TypeOK, JobRow
<1> QED
  BY <1>1, QuietFollows DEF ExpireLease

LEMMA SettledMakesNoJob ==
  ASSUME TypeOK, NEW s \in Slots, jobs' = Settled(s)
  PROVE  NoNewJob
<1>1. jobs \in [JobId -> JobRow] /\ slots[s].job \in JobId
  BY SlotTypes DEF TypeOK
<1>2. CASE jobs' = Ack(slots[s].job)
  BY <1>1, <1>2 DEF Ack, NoJob, NoNewJob, JobRow
<1>3. CASE jobs' = Nack(slots[s].job)
  BY <1>1, <1>3 DEF Nack, NoNewJob, JobRow
<1> QED
  BY <1>2, <1>3 DEF Settled

LEMMA FollowsQueue ==
  ASSUME IInv, TypeOK', NEW s \in Slots,
         \/ Pull(s) \/ Heartbeat(s) \/ Stall(s) \/ Crash(s)
         \/ Settle(s) \/ SettleThrows(s)
  PROVE  IInv'
<1>0. /\ TypeOK /\ jobs \in [JobId -> JobRow] /\ slots[s].job \in JobId
      /\ log \in Seq(Event)
  BY SlotTypes DEF IInv, TypeOK
<1>1. CASE Pull(s)
  <2>1. PICK j \in JobId :
          /\ Claimable(j)
          /\ jobs' = [jobs EXCEPT ![j] = [state |-> "running", lease |-> TRUE,
                                          attempts |-> @.attempts + 1]]
          /\ slots' = [slots EXCEPT ![s] = [Idle EXCEPT !.pc = "gate", !.job = j,
                                                       !.last = LastAttempt(j)]]
    BY <1>1 DEF Pull
  <2> DEFINE r == [Idle EXCEPT !.pc = "gate", !.job = j, !.last = LastAttempt(j)]
  <2>2. r.mem = <<>> /\ r.job = j /\ r.pc = "gate"
    BY DEF Idle
  <2>3. slots' = [slots EXCEPT ![s] = r] /\ log' = log
    BY <1>1, <2>1 DEF Pull
  <2> HIDE DEF r
  <2>4. j # 0 => HasMessage(log)
    BY <2>1 DEF IInv, JobsHaveMessage, Claimable
  <2>5. SlotFollowsLog(r, log')
    BY <1>0, <2>2, <2>3, <2>4 DEF SlotFollowsLog, IsPrefixOf, InTurnPc
  <2>6. NoNewJob
    BY <1>0, <2>1 DEF NoNewJob, Claimable
  <2> QED
    BY <2>3, <2>5, <2>6, OneSlotWrites DEF NoNewJob, LogGrows
<1>2. CASE Heartbeat(s)
  <2>1. NoNewJob
    BY <1>0, <1>2 DEF Heartbeat, NoNewJob, JobRow
  <2> QED
    BY <1>2, <2>1, QuietFollows DEF Heartbeat
<1>3. CASE Stall(s)
  <2>1. NoNewJob
    BY <1>0, <1>3 DEF Stall, NoNewJob, JobRow
  <2> QED
    BY <1>3, <2>1, QuietFollows DEF Stall
<1>4. CASE Crash(s)
  BY <1>4, IdleFollows DEF Crash, NoNewJob, LogGrows
<1>5. CASE Settle(s)
  BY <1>0, <1>5, IdleFollows, SettledMakesNoJob DEF Settle, LogGrows
<1>6. CASE SettleThrows(s)
  <2>1. NoNewJob
    BY <1>0, <1>6, SettledMakesNoJob DEF SettleThrows, NoNewJob
  <2>2. LogGrows
    BY <1>6 DEF SettleThrows, LogGrows
  <2> QED
    BY <1>6, <2>1, <2>2, IdleFollows, ReturnFollows DEF SettleThrows
<1> QED
  BY <1>1, <1>2, <1>3, <1>4, <1>5, <1>6

LEMMA FollowsTurn ==
  ASSUME IInv, TypeOK', NEW s \in Slots, TurnStep(s)
  PROVE  IInv'
<1>0. /\ TypeOK /\ slots[s] \in Slot /\ log \in Seq(Event) /\ Key(s) \in Nat
      /\ SlotFollowsLog(slots[s], log)
  BY KeyNat DEF IInv, TypeOK
<1>1. CASE Gate(s)
  <2>1. NoNewJob /\ LogGrows
    BY <1>1 DEF Gate, NoNewJob, LogGrows
  <2>2. CASE session.status = "ready"
    <3> DEFINE r == [slots[s] EXCEPT !.pc = "read", !.box = session.box]
    <3>1. slots' = [slots EXCEPT ![s] = r] /\ log' = log /\ slots[s].job # 0
      BY <1>1, <2>2, SlotTypes DEF Gate, IInv
    <3>2. r.mem = slots[s].mem /\ r.job = slots[s].job /\ r.pc = "read"
      BY <1>0 DEF Slot
    <3> HIDE DEF r
    <3>3. SlotFollowsLog(r, log')
      BY <1>0, <3>1, <3>2 DEF SlotFollowsLog, InTurnPc
    <3> QED
      BY <2>1, <3>1, <3>3, OneSlotWrites DEF NoNewJob
  <2>3. CASE session.status # "ready"
    <3>1. \E outcome : Return(s, outcome)
      BY <1>0, <1>1, <2>3 DEF Gate, TypeOK, Status
    <3> QED
      BY <2>1, <3>1, ReturnFollows
  <2> QED
    BY <2>2, <2>3
<1>2. CASE ReadEvents(s)
  <2> DEFINE r == [slots[s] EXCEPT !.pc = "act", !.mem = log]
  <2>1. slots' = [slots EXCEPT ![s] = r] /\ log' = log /\ slots[s].pc = "read"
    BY <1>2, SlotTypes DEF ReadEvents, IInv
  <2>2. r.mem = log /\ r.job = slots[s].job /\ r.pc = "act"
    BY <1>0 DEF Slot
  <2> HIDE DEF r
  <2>3. SlotFollowsLog(r, log')
    BY <1>0, <2>1, <2>2 DEF SlotFollowsLog, IsPrefixOf, InTurnPc
  <2>4. NoNewJob /\ LogGrows
    BY <1>2 DEF ReadEvents, NoNewJob, LogGrows
  <2> QED
    BY <2>1, <2>3, <2>4, OneSlotWrites DEF NoNewJob
<1>3. CASE Infer(s)
  BY <1>0, <1>3, EventTypes, AppendAndLoopFollows DEF Infer, At, InTurnPc, NoNewJob
<1>4. CASE Noop(s)
  BY <1>4, ReturnFollows DEF Noop, NoNewJob, LogGrows
<1>5. CASE Finish(s)
  BY <1>5, EventTypes, AppendAndReturnFollows DEF Finish, NoNewJob
<1>6. CASE ExhaustBudget(s)
  BY <1>6, EventTypes, AppendAndReturnFollows DEF ExhaustBudget, NoNewJob, ErrorClass
<1>7. CASE LlmFails(s)
  <2>1. /\ slots[s].pc = "act" /\ NextStep(s) = "infer" /\ NoNewJob /\ LogGrows
    BY <1>7 DEF LlmFails, At, NoNewJob, LogGrows
  <2>2. CASE MapError(s, "INTERNAL")
    <3>1. ClassFits("INTERNAL", NextStep(s)) /\ "INTERNAL" \in ErrorClass
      BY <2>1 DEF ClassFits, ErrorClass
    <3> QED
      BY <2>1, <2>2, <3>1, MapErrorFollows DEF InTurnPc
  <2>3. CASE slots' = [slots EXCEPT ![s].pc = "fail", ![s].class = "LLM_PERMANENT"]
    <3> DEFINE r == [slots[s] EXCEPT !.pc = "fail", !.class = "LLM_PERMANENT"]
    <3>1. slots' = [slots EXCEPT ![s] = r]
      BY <2>3, SlotTypes DEF IInv
    <3>2. /\ r.mem = slots[s].mem /\ r.job = slots[s].job
          /\ r.pc = "fail" /\ r.class = "LLM_PERMANENT"
      BY <1>0 DEF Slot
    <3> HIDE DEF r
    <3>3. ClassFits(r.class, NextStep(s))
      BY <2>1, <3>2 DEF ClassFits
    <3> QED
      BY <2>1, <3>1, <3>2, <3>3, StayFollows DEF InTurnPc
  <2> QED
    BY <1>7, <2>2, <2>3 DEF LlmFails
<1>8. CASE StartExec(s)
  <2> DEFINE r == [slots[s] EXCEPT !.pc = "tail"]
  <2>1. /\ slots[s].pc = "act" /\ NextStep(s) = "exec_tool" /\ NoNewJob /\ LogGrows
        /\ slots' = [slots EXCEPT ![s] = r]
    BY <1>8, SlotTypes DEF StartExec, Goto, At, NoNewJob, LogGrows, IInv
  <2>2. r.mem = slots[s].mem /\ r.job = slots[s].job /\ r.pc = "tail"
    BY <1>0 DEF Slot
  <2> HIDE DEF r
  <2> QED
    BY <2>1, <2>2, StayFollows DEF InTurnPc
<1>9. CASE Collect(s)
  BY <1>0, <1>9, EventTypes, AppendAndLoopFollows DEF Collect, InTurnPc, NoNewJob
<1>10. CASE ExecFails(s)
  <2>1. /\ slots[s].pc \in InTurnPc /\ NextStep(s) = "exec_tool"
        /\ NoNewJob /\ LogGrows
    BY <1>0, <1>10 DEF ExecFails, At, InTurnPc, NoNewJob, LogGrows, SlotFollowsLog,
                       NextStep
  <2>2. \A class \in {"SANDBOX_FATAL", "INTERNAL"} :
          class \in ErrorClass /\ ClassFits(class, NextStep(s))
    BY <2>1 DEF ClassFits, ErrorClass
  <2>3. CASE \E class \in {"SANDBOX_FATAL", "INTERNAL"} : MapError(s, class)
    BY <2>1, <2>2, <2>3, MapErrorFollows
  <2>4. CASE Goto(s, "reboot")
    <3> DEFINE r == [slots[s] EXCEPT !.pc = "reboot"]
    <3>1. slots' = [slots EXCEPT ![s] = r]
      BY <2>4, SlotTypes DEF Goto, IInv
    <3>2. r.mem = slots[s].mem /\ r.job = slots[s].job /\ r.pc = "reboot"
      BY <1>0 DEF Slot
    <3> HIDE DEF r
    <3> QED
      BY <2>1, <3>1, <3>2, StayFollows
  <2> QED
    BY <1>10, <2>3, <2>4 DEF ExecFails
<1>11. CASE Reboot(s)
  <2> DEFINE r == [slots[s] EXCEPT !.pc = "act", !.rebooted = TRUE]
  <2>1. /\ slots[s].pc \in InTurnPc /\ NoNewJob /\ LogGrows
        /\ slots' = [slots EXCEPT ![s] = r]
    BY <1>11, SlotTypes DEF Reboot, InTurnPc, NoNewJob, LogGrows, IInv
  <2>2. r.mem = slots[s].mem /\ r.job = slots[s].job /\ r.pc = "act"
    BY <1>0 DEF Slot
  <2> HIDE DEF r
  <2> QED
    BY <2>1, <2>2, StayFollows
<1>12. CASE RebootFails(s)
  <2>1. /\ slots[s].pc \in InTurnPc /\ NextStep(s) = "exec_tool"
        /\ NoNewJob /\ LogGrows
    BY <1>0, <1>12 DEF RebootFails, InTurnPc, NoNewJob, LogGrows, SlotFollowsLog,
                       NextStep
  <2>2. \A class \in {"SANDBOX_FATAL", "INTERNAL"} :
          class \in ErrorClass /\ ClassFits(class, NextStep(s))
    BY <2>1 DEF ClassFits, ErrorClass
  <2> QED
    BY <1>12, <2>1, <2>2, MapErrorFollows DEF RebootFails
<1>13. CASE RecordFailure(s)
  <2>1. TurnFailed(slots[s].class) \in Event /\ NoNewJob
    BY <1>0, <1>13, EventTypes DEF RecordFailure, NoNewJob, Slot
  <2> QED
    BY <1>13, <2>1, AppendAndReturnFollows DEF RecordFailure
<1> QED
  BY <1>1, <1>2, <1>3, <1>4, <1>5, <1>6, <1>7, <1>8, <1>9, <1>10, <1>11, <1>12,
     <1>13 DEF TurnStep

\* A provisioner holds no memory of the log; its steps stay clear of the turn's.
LEMMA FollowsGiveUpProvision ==
  ASSUME IInv, TypeOK', NEW s \in Slots, LogGrows, NoNewJob, GiveUpProvision(s),
         slots[s].pc \notin InTurnPc
  PROVE  IInv'
<1>1. CASE ~slots[s].last
  BY <1>1, ReturnFollows DEF GiveUpProvision
<1>2. CASE slots[s].last
  <2> DEFINE r == [slots[s] EXCEPT !.pc = "open", !.goal = "failed"]
  <2>1. slots' = [slots EXCEPT ![s] = r] /\ slots[s] \in Slot
    BY <1>2, SlotTypes DEF GiveUpProvision, IInv, TypeOK
  <2>2. r.mem = slots[s].mem /\ r.job = slots[s].job /\ r.pc = "open"
    BY <2>1 DEF Slot
  <2> HIDE DEF r
  <2>3. log \in Seq(Event) /\ SlotFollowsLog(slots[s], log)
    BY DEF IInv, TypeOK
  <2>4. SlotFollowsLog(slots[s], log')
    BY <2>1, <2>3, SlotStays DEF LogGrows
  <2>5. SlotFollowsLog(r, log')
    BY <2>2, <2>4 DEF SlotFollowsLog, InTurnPc
  <2> QED
    BY <2>1, <2>5, OneSlotWrites DEF NoNewJob
<1> QED
  BY <1>1, <1>2

LEMMA ProvisionGrows ==
  ASSUME NEW s \in Slots, ProvisionWrites(s)
  PROVE  LogGrows
BY EventTypes DEF ProvisionWrites, LogGrows, ErrorClass

LEMMA FollowsProvision ==
  ASSUME IInv, TypeOK', NEW s \in Slots, ProvisionStep(s)
  PROVE  IInv'
<1>0. TypeOK /\ slots[s] \in Slot /\ SlotFollowsLog(slots[s], log)
  BY DEF IInv, TypeOK
<1>1. CASE ProvisionGate(s)
  <2>1. NoNewJob /\ LogGrows
    BY <1>1 DEF ProvisionGate, NoNewJob, LogGrows
  <2>2. CASE Goto(s, "box")
    <3> DEFINE r == [slots[s] EXCEPT !.pc = "box"]
    <3>1. slots' = [slots EXCEPT ![s] = r] /\ log' = log
      BY <1>1, <2>2, SlotTypes DEF ProvisionGate, Goto, IInv
    <3>2. r.mem = slots[s].mem /\ r.job = slots[s].job /\ r.pc = "box"
      BY <1>0 DEF Slot
    <3> HIDE DEF r
    <3>3. SlotFollowsLog(r, log')
      BY <1>0, <3>1, <3>2 DEF SlotFollowsLog, InTurnPc
    <3> QED
      BY <2>1, <3>1, <3>3, OneSlotWrites DEF NoNewJob
  <2> QED
    BY <1>1, <2>1, <2>2, ReturnFollows DEF ProvisionGate
<1>2. CASE CreateBox(s)
  <2> DEFINE r == [slots[s] EXCEPT !.pc = "open", !.goal = "ready", !.box = boxes']
  <2>1. slots' = [slots EXCEPT ![s] = r] /\ log' = log /\ NoNewJob
    BY <1>2, SlotTypes DEF CreateBox, IInv, NoNewJob
  <2>2. r.mem = slots[s].mem /\ r.job = slots[s].job /\ r.pc = "open"
    BY <1>0 DEF Slot
  <2> HIDE DEF r
  <2>3. SlotFollowsLog(r, log')
    BY <1>0, <2>1, <2>2 DEF SlotFollowsLog, InTurnPc
  <2> QED
    BY <2>1, <2>3, OneSlotWrites DEF NoNewJob, LogGrows
<1>3. CASE CreateBoxFails(s)
  BY <1>3, FollowsGiveUpProvision DEF CreateBoxFails, InTurnPc, NoNewJob, LogGrows
<1>4. CASE OpenTx(s)
  <2> DEFINE r == [slots[s] EXCEPT !.pc = "commit", !.seq = Len(log) + 1]
  <2>1. slots' = [slots EXCEPT ![s] = r] /\ log' = log /\ NoNewJob
    BY <1>4, SlotTypes DEF OpenTx, IInv, NoNewJob
  <2>2. r.mem = slots[s].mem /\ r.job = slots[s].job /\ r.pc = "commit"
    BY <1>0 DEF Slot
  <2> HIDE DEF r
  <2>3. SlotFollowsLog(r, log')
    BY <1>0, <2>1, <2>2 DEF SlotFollowsLog, InTurnPc
  <2> QED
    BY <2>1, <2>3, OneSlotWrites DEF NoNewJob, LogGrows
<1>5. CASE CommitTx(s)
  <2>1. LogGrows /\ NoNewJob
    BY <1>5, ProvisionGrows DEF CommitTx, LogGrows, NoNewJob
  <2>2. \E outcome : Return(s, outcome)
    BY <1>5 DEF CommitTx
  <2> QED
    BY <2>1, <2>2, ReturnFollows
<1> QED
  BY <1>1, <1>2, <1>3, <1>4, <1>5 DEF ProvisionStep

LEMMA FollowsThrows ==
  ASSUME IInv, TypeOK', NEW s \in Slots,
         ReadThrows(s) \/ AppendThrows(s) \/ TxThrows(s)
  PROVE  IInv'
<1>0. TypeOK /\ SlotFollowsLog(slots[s], log)
  BY DEF IInv
<1>1. CASE ReadThrows(s)
  BY <1>1, ReturnFollows DEF ReadThrows, NoNewJob, LogGrows
<1>2. CASE AppendThrows(s)
  <2>1. LogGrows /\ NoNewJob
    BY <1>0, <1>2, AppendableType DEF AppendThrows, LogGrows, NoNewJob
  <2>2. CASE slots[s].pc = "fail"
    BY <1>2, <2>1, <2>2, ReturnFollows DEF AppendThrows
  <2>3. CASE slots[s].pc # "fail"
    <3>1. /\ MapError(s, "INTERNAL") /\ slots[s].pc \in InTurnPc
          /\ NextStep(s) \in {"infer", "finish", "fail", "exec_tool"}
      BY <1>0, <1>2, <2>3 DEF AppendThrows, Appendable, At, InTurnPc,
                              SlotFollowsLog, NextStep
    <3>2. ClassFits("INTERNAL", NextStep(s)) /\ "INTERNAL" \in ErrorClass
      BY <3>1 DEF ClassFits, ErrorClass
    <3> QED
      BY <2>1, <3>1, <3>2, MapErrorFollows
  <2> QED
    BY <2>2, <2>3
<1>3. CASE TxThrows(s)
  <2>1. LogGrows /\ NoNewJob
    BY <1>3, ProvisionGrows DEF TxThrows, LogGrows, NoNewJob
  <2> QED
    BY <1>3, <2>1, ReturnFollows, FollowsGiveUpProvision DEF TxThrows, InTurnPc
<1> QED
  BY <1>1, <1>2, <1>3

LEMMA FollowsNext == IInv /\ [Next]_vars => IInv'
<1> SUFFICES ASSUME IInv, [Next]_vars
             PROVE  IInv'
  OBVIOUS
<1>0. TypeOK'
  BY TypeNext DEF IInv
<1>1. CASE SendMessage \/ Archive \/ CommandExits
  BY <1>0, <1>1, FollowsApi
<1>2. CASE \E j \in JobId : ExpireLease(j)
  BY <1>0, <1>2, FollowsExpire
<1>3. CASE \E s \in Slots : Pull(s) \/ Heartbeat(s) \/ Work(s) \/ Fault(s)
  <2> PICK s \in Slots : Pull(s) \/ Heartbeat(s) \/ Work(s) \/ Fault(s)
    BY <1>3
  <2>1. CASE TurnStep(s)
    BY <1>0, <2>1, FollowsTurn
  <2>2. CASE ProvisionStep(s)
    BY <1>0, <2>2, FollowsProvision
  <2>3. CASE \/ Pull(s) \/ Heartbeat(s) \/ Stall(s) \/ Crash(s)
              \/ Settle(s) \/ SettleThrows(s)
    BY <1>0, <2>3, FollowsQueue
  <2>4. CASE ReadThrows(s) \/ AppendThrows(s) \/ TxThrows(s)
    BY <1>0, <2>4, FollowsThrows
  <2> QED
    BY <2>1, <2>2, <2>3, <2>4 DEF Work, Fault
<1>4. CASE UNCHANGED vars
  BY <1>0, <1>4, QuietFollows DEF vars, NoNewJob
<1> QED
  BY <1>1, <1>2, <1>3, <1>4 DEF Next

THEOREM InvariantHolds == Spec => []IInv
<1> QED
  BY FollowsInit, FollowsNext, PTL DEF Spec

\* However stale a worker is, the log it works from is a prefix of the
\* committed one.
THEOREM MemoryIsPrefix == Spec => []MemIsPrefix
<1>1. IInv => MemIsPrefix
  BY DEF IInv, SlotFollowsLog, IsPrefixOf, MemIsPrefix
<1> QED
  BY <1>1, InvariantHolds, PTL

-----------------------------------------------------------------------------
(* Every step is a step of Conversation, or leaves the log alone.          *)

\* The two modules read the same reducer.
LEMMA SameReducer ==
  /\ \A events, type : Promise!LastOf(events, type) = LastOf(events, type)
  /\ \A events, n : Promise!NextAction(events, n) = NextAction(events, n)
  /\ \A events : Promise!PendingKey(events) = PendingKey(events)
<1>1. \A events, type : Promise!LastOf(events, type) = LastOf(events, type)
  BY DEF Promise!LastOf, LastOf
<1>2. \A events : /\ Promise!LastUser(events) = LastUser(events)
                  /\ Promise!LastAssistant(events) = LastAssistant(events)
  BY <1>1 DEF Promise!LastUser, LastUser, Promise!LastAssistant, LastAssistant
<1>3. \A events, key : Promise!Answered(events, key) <=> Answered(events, key)
  BY <1>2 DEF Promise!Answered, Answered
<1>4. \A events : Promise!Iterations(events) = Iterations(events)
  BY <1>2 DEF Promise!Iterations, Iterations
<1>0. \A S : Promise!Cardinality(S) = Cardinality(S)
  BY DEF Promise!Cardinality, Cardinality
<1>5. \A events, n : Promise!NextAction(events, n) = NextAction(events, n)
  BY <1>0, <1>2, <1>3, <1>4 DEF Promise!NextAction, NextAction, Promise!IdemKeyFor,
     IdemKeyFor, Promise!IsTerminal, IsTerminal
<1>6. \A events : Promise!PendingKey(events) = PendingKey(events)
  BY <1>2 DEF Promise!PendingKey, PendingKey, Promise!IdemKeyFor, IdemKeyFor
<1> QED
  BY <1>1, <1>5, <1>6

LEMMA SameEvents ==
  /\ Promise!UserMessage = UserMessage /\ Promise!TurnCompleted = TurnCompleted
  /\ Promise!Provisioned = Provisioned
  /\ \A call : Promise!Assistant(call) = Assistant(call)
  /\ \A key : Promise!ToolResult(key) = ToolResult(key)
  /\ \A class : Promise!TurnFailed(class) = TurnFailed(class)
BY DEF Promise!UserMessage, UserMessage, Promise!TurnCompleted, TurnCompleted,
       Promise!Provisioned, Provisioned, Promise!Assistant, Assistant,
       Promise!ToolResult, ToolResult, Promise!TurnFailed, TurnFailed,
       Promise!Bare, Bare

\* The log after the insert of what the reducer ordered on a slot's memory.
\* The seq was free, so that memory is the log.
LEMMA OrderedOnLog ==
  ASSUME IInv, NEW s \in Slots, slots[s].pc \in InTurnPc, ~SeqTaken(s)
  PROVE  /\ Promise!InTurn /\ Promise!Turn = NextStep(s)
         /\ Promise!PendingKey(log) = Key(s)
<1>1. /\ log \in Seq(Event) /\ slots[s].mem \in Seq(Event)
      /\ SlotFollowsLog(slots[s], log)
  BY DEF IInv, TypeOK, Slot
<1>2. slots[s].mem = log
  BY <1>1, FullPrefix DEF SeqTaken, SlotFollowsLog
<1>3. Promise!InTurn
  BY <1>1, <1>2, SameEvents DEF Promise!InTurn, SlotFollowsLog, HasMessage
<1>4. Promise!Turn = NextStep(s)
  BY <1>2, SameReducer DEF Promise!Turn, NextStep
<1>5. Promise!PendingKey(log) = Key(s)
  BY <1>2, SameReducer DEF Key
<1> QED
  BY <1>3, <1>4, <1>5

\* The appended event is the action's.
LEMMA AppendableIsOrdered ==
  ASSUME IInv, NEW s \in Slots, NEW e \in Appendable(s), ~SeqTaken(s),
         log' = Append(log, e)
  PROVE  Promise!Next
<1>0. SlotFollowsLog(slots[s], log)
  BY DEF IInv
<1>1. slots[s].pc \in InTurnPc
  BY DEF Appendable, At, InTurnPc
<1>2. /\ Promise!InTurn /\ Promise!Turn = NextStep(s)
      /\ Promise!PendingKey(log) = Key(s)
  BY <1>1, OrderedOnLog
<1>3. CASE At(s, "infer")
  BY <1>2, <1>3, SameEvents
  DEF Appendable, At, Promise!Next, Promise!Infer, Promise!Extend
<1>4. CASE At(s, "finish")
  <2>1. e = TurnCompleted
    BY <1>4 DEF Appendable, At
  <2> QED
    BY <1>2, <1>4, <2>1, SameEvents DEF At, Promise!Next, Promise!Finish, Promise!Extend
<1>5. CASE At(s, "fail")
  <2>1. e = TurnFailed("BUDGET")
    BY <1>5 DEF Appendable, At
  <2> QED
    BY <1>2, <1>5, <2>1, SameEvents
    DEF At, Promise!Next, Promise!ExhaustBudget, Promise!Extend
<1>6. CASE slots[s].pc = "tail"
  <2>1. e = ToolResult(Key(s))
    BY <1>6 DEF Appendable, At
  <2>2. NextStep(s) = "exec_tool"
    BY <1>0, <1>6 DEF SlotFollowsLog, NextStep
  <2> QED
    BY <1>2, <2>1, <2>2, SameEvents DEF Promise!Next, Promise!RunTool, Promise!Extend
<1>7. CASE slots[s].pc = "fail"
  <2>1. e = TurnFailed(slots[s].class)
    BY <1>7 DEF Appendable, At
  <2>2. ClassFits(slots[s].class, NextStep(s))
    BY <1>0, <1>7 DEF SlotFollowsLog, NextStep
  <2> QED
    BY <1>2, <2>1, <2>2, SameEvents
    DEF ClassFits, Promise!Next, Promise!GiveUp, Promise!Extend
<1> QED
  BY <1>3, <1>4, <1>5, <1>6, <1>7 DEF Appendable

\* Who writes the log: the API, a provisioner, and the slot whose seq is free.
LEMMA LogWrites ==
  ASSUME [Next]_vars, log' # log
  PROVE  \/ SendMessage
         \/ \E s \in Slots : slots[s].pc = "commit" /\ ProvisionWrites(s)
         \/ \E s \in Slots : \E e \in Appendable(s) :
              ~SeqTaken(s) /\ log' = Append(log, e)
<1>1. ASSUME NEW s \in Slots, Work(s) \/ Fault(s)
      PROVE  \/ slots[s].pc = "commit" /\ ProvisionWrites(s)
             \/ \E e \in Appendable(s) : ~SeqTaken(s) /\ log' = Append(log, e)
  <2>1. CASE Infer(s)
    BY <2>1 DEF Infer, AppendAndLoop, Appendable, At
  <2>2. CASE Finish(s)
    BY <2>2 DEF Finish, AppendAndReturn, Appendable, At
  <2>3. CASE ExhaustBudget(s)
    BY <2>3 DEF ExhaustBudget, AppendAndReturn, Appendable, At
  <2>4. CASE Collect(s)
    BY <2>4 DEF Collect, AppendAndLoop, Appendable, At
  <2>5. CASE RecordFailure(s)
    BY <2>5 DEF RecordFailure, AppendAndReturn, Appendable, At
  <2>6. CASE AppendThrows(s)
    BY <2>6 DEF AppendThrows
  <2>7. CASE CommitTx(s) \/ TxThrows(s)
    BY <2>7 DEF CommitTx, TxThrows
  <2>8. CASE \/ Gate(s) \/ ReadEvents(s) \/ Noop(s) \/ LlmFails(s) \/ StartExec(s)
             \/ ExecFails(s) \/ Reboot(s) \/ RebootFails(s)
    BY <2>8 DEF Gate, ReadEvents, Noop, LlmFails, StartExec, ExecFails, Reboot,
                RebootFails
  <2>9. CASE \/ ProvisionGate(s) \/ CreateBox(s) \/ CreateBoxFails(s) \/ OpenTx(s)
             \/ Settle(s) \/ Stall(s) \/ Crash(s) \/ ReadThrows(s) \/ SettleThrows(s)
    BY <2>9 DEF ProvisionGate, CreateBox, CreateBoxFails, OpenTx, Settle, Stall,
                Crash, ReadThrows, SettleThrows
  <2> QED
    BY <1>1, <2>1, <2>2, <2>3, <2>4, <2>5, <2>6, <2>7, <2>8, <2>9
    DEF Work, TurnStep, ProvisionStep, Fault
<1> QED
  BY <1>1 DEF Next, vars, Archive, CommandExits, ExpireLease, Pull, Heartbeat

LEMMA StepImplements == IInv /\ [Next]_vars => [Promise!Next]_log
<1> SUFFICES ASSUME IInv, [Next]_vars, log' # log
             PROVE  Promise!Next
  OBVIOUS
<1>1. CASE SendMessage
  BY <1>1, SameEvents DEF SendMessage, Promise!Next, Promise!SendMessage, Promise!Extend
<1>2. CASE \E s \in Slots : ProvisionWrites(s)
  BY <1>2, SameEvents DEF ProvisionWrites, Promise!Next, Promise!FinishProvision,
     Promise!FailProvision, Promise!Extend
<1>3. CASE \E s \in Slots : \E e \in Appendable(s) :
             ~SeqTaken(s) /\ log' = Append(log, e)
  BY <1>3, AppendableIsOrdered
<1> QED
  BY <1>1, <1>2, <1>3, LogWrites

\* The runtime implements the sequential conversation, whatever crashes, stalls
\* and failing database calls do to it (chaos suite, I1 and I2).
THEOREM Implements == Spec => WritesOneConversation
<1>1. Init => Promise!Init
  BY SameEvents DEF Init, Promise!Init
<1>2. IInv /\ [Next]_vars => [Promise!Next]_log
  BY StepImplements
<1> QED
  BY <1>1, <1>2, InvariantHolds, PTL DEF Spec, WritesOneConversation, Promise!Spec
-----------------------------------------------------------------------------
(* The last event of a type: a log that has one has a last one, since the  *)
(* distances to its end are natural numbers.                               *)

LEMMA HasLeast ==
  ASSUME NEW T \in SUBSET Nat, T # {}
  PROVE  \E x \in T : \A y \in T : x <= y
<1> DEFINE R == {ss \in Nat \X Nat : ss[1] < ss[2]}
<1>1. OpToRel(<, Nat) = R
  BY DEF OpToRel
<1>2. IsWellFoundedOn(R, Nat)
  BY <1>1, NatLessThanWellFounded
<1>3. \E x \in T : \A y \in T : ~ (<<y, x>> \in R)
  <2> HIDE DEF R
  <2> QED
    BY <1>2, WFMin
<1>4. PICK x \in T : \A y \in T : ~ (<<y, x>> \in R)
  BY <1>3
<1>5. ASSUME NEW y \in T
      PROVE  x <= y
  <2>1. <<y, x>> \notin R /\ x \in Nat /\ y \in Nat
    BY <1>4
  <2>2. ~(y < x)
    BY <2>1
  <2> QED
    BY <2>1, <2>2
<1> QED
  BY <1>5

LEMMA HasGreatest ==
  ASSUME NEW n \in Nat, NEW H \in SUBSET (1 .. n), H # {}
  PROVE  \E x \in H : \A y \in H : y <= x
<1> DEFINE T == {m \in Nat : n - m \in H}
<1>1. T \in SUBSET Nat
  OBVIOUS
<1>2. PICK h \in H : TRUE
  OBVIOUS
<1>3. n - h \in Nat /\ n - (n - h) = h
  OBVIOUS
<1>4. T # {}
  BY <1>2, <1>3
<1>5. \E x \in T : \A y \in T : x <= y
  <2> HIDE DEF T
  <2> QED
    BY <1>1, <1>4, HasLeast
<1>6. PICK x \in T : \A y \in T : x <= y
  BY <1>5
<1>7. ASSUME NEW y \in H
      PROVE  y <= n - x
  <2>1. n - y \in T /\ y \in 1 .. n
    OBVIOUS
  <2>2. x <= n - y /\ x \in Nat
    BY <1>6, <2>1
  <2> QED
    BY <2>1, <2>2
<1> QED
  BY <1>6, <1>7

LEMMA LastOfFound ==
  ASSUME NEW events \in Seq(Event), NEW type,
         NEW at \in DOMAIN events, events[at].type = type
  PROVE  /\ LastOf(events, type) \in DOMAIN events
         /\ events[LastOf(events, type)].type = type
         /\ \A i \in DOMAIN events : events[i].type = type => i <= LastOf(events, type)
<1> DEFINE Hits == {i \in DOMAIN events : events[i].type = type}
           IsLast(i) == \A j \in Hits : j <= i
<1>1. Hits \in SUBSET (1 .. Len(events)) /\ Hits # {} /\ Len(events) \in Nat
  OBVIOUS
<1>2. \E i \in Hits : IsLast(i)
  <2> HIDE DEF Hits
  <2> QED
    BY <1>1, HasGreatest
<1>3. LastOf(events, type) = CHOOSE i \in Hits : IsLast(i)
  BY <1>2 DEF LastOf
<1>4. LastOf(events, type) \in Hits /\ IsLast(LastOf(events, type))
  BY <1>2, <1>3
<1> QED
  BY <1>4

LEMMA LastOfMissing ==
  ASSUME NEW events \in Seq(Event), NEW type,
         \A i \in DOMAIN events : events[i].type # type
  PROVE  LastOf(events, type) = 0
BY DEF LastOf

-----------------------------------------------------------------------------
(* The log as a journal of the commands: the call that asks for a command  *)
(* is logged before it starts, its result after it has ended.              *)

Formed(e) == e.type = "assistant_message" => e = Assistant(e.call)

ObservedIn(e, runs) == e.type = "tool_result" => \E run \in runs : run[2] = e.key

JournalInv == /\ \A i \in DOMAIN log : Formed(log[i])
              /\ CommandsJournaled
              /\ ResultsObserved

LEMMA ConstructorsFormed ==
  /\ \A key : Formed(ToolResult(key)) /\ ToolResult(key).key = key
  /\ \A call : Formed(Assistant(call)) /\ Assistant(call).type # "tool_result"
  /\ \A class : Formed(TurnFailed(class)) /\ TurnFailed(class).type # "tool_result"
  /\ \A e \in {UserMessage, TurnCompleted, Provisioned} :
       Formed(e) /\ e.type # "tool_result"
BY DEF Formed, UserMessage, TurnCompleted, Provisioned, Assistant, ToolResult,
       TurnFailed, Bare

LEMMA WrittenEvents ==
  ASSUME IInv, [Next]_vars, log' # log
  PROVE  \E e \in Event : /\ log' = Append(log, e)
                          /\ Formed(e) /\ ObservedIn(e, finished)
<1>1. CASE SendMessage
  BY <1>1, ConstructorsFormed, EventTypes DEF SendMessage, ObservedIn
<1>2. CASE \E s \in Slots : ProvisionWrites(s)
  <2>1. log' = Append(log, Provisioned) \/ log' = Append(log, TurnFailed("SANDBOX_FATAL"))
    BY <1>2 DEF ProvisionWrites
  <2> QED
    BY <2>1, ConstructorsFormed, EventTypes DEF ObservedIn, ErrorClass
<1>3. CASE \E s \in Slots : \E e \in Appendable(s) :
             ~SeqTaken(s) /\ log' = Append(log, e)
  <2> PICK s \in Slots : \E e \in Appendable(s) : log' = Append(log, e)
    BY <1>3
  <2> PICK e \in Appendable(s) : log' = Append(log, e)
    OBVIOUS
  <2>1. e \in Event
    BY AppendableType DEF IInv
  <2>2. Formed(e)
    BY ConstructorsFormed DEF Appendable
  <2>3. ObservedIn(e, finished)
    <3>1. CASE e = ToolResult(Key(s)) /\ <<slots[s].box, Key(s)>> \in finished
      BY <3>1, ConstructorsFormed DEF ObservedIn
    <3>2. CASE \/ \E call \in BOOLEAN : e = Assistant(call)
               \/ e = TurnCompleted \/ \E class : e = TurnFailed(class)
      BY <3>2, ConstructorsFormed DEF ObservedIn
    <3> QED
      BY <3>1, <3>2 DEF Appendable
  <2> QED
    BY <2>1, <2>2, <2>3
<1> QED
  BY <1>1, <1>2, <1>3, LogWrites

LEMMA RunsGrow ==
  ASSUME IInv, [Next]_vars
  PROVE  /\ finished \subseteq finished'
         /\ UNCHANGED started \/ \E s \in Slots : StartExec(s)
<1>1. CASE SendMessage \/ Archive \/ CommandExits \/ UNCHANGED vars
  BY <1>1 DEF SendMessage, Archive, CommandExits, vars
<1>2. CASE \E j \in JobId : ExpireLease(j)
  BY <1>2 DEF ExpireLease
<1>3. CASE \E s \in Slots : Pull(s) \/ Heartbeat(s) \/ Settle(s) \/ Fault(s)
  BY <1>3 DEF Pull, Heartbeat, Settle, Fault, Stall, Crash, ReadThrows, AppendThrows,
     TxThrows, SettleThrows
<1>4. CASE \E s \in Slots : TurnStep(s)
  BY <1>4 DEF TurnStep, Gate, ReadEvents, Infer, Noop, Finish, ExhaustBudget,
     LlmFails, StartExec, Collect, ExecFails, Reboot, RebootFails, RecordFailure
<1>5. CASE \E s \in Slots : ProvisionStep(s)
  BY <1>5 DEF ProvisionStep, ProvisionGate, CreateBox, CreateBoxFails, OpenTx,
     CommitTx
<1> QED
  BY <1>1, <1>2, <1>3, <1>4, <1>5 DEF Next, Work

\* The call a slot starts is in its memory, and so in the log.
LEMMA StartsJournaled ==
  ASSUME IInv, JournalInv, NEW s \in Slots, StartExec(s)
  PROVE  Key(s) \in DOMAIN log /\ log[Key(s)] = Assistant(TRUE)
<1> DEFINE mem == slots[s].mem
<1>1. mem \in Seq(Event) /\ log \in Seq(Event)
  BY SlotTypes DEF IInv, TypeOK
<1>2. IsPrefixOf(mem, log) /\ HasMessage(mem)
  BY DEF IInv, SlotFollowsLog, StartExec, At, InTurnPc
<1>3. NextAction(mem, MaxIterations) = "exec_tool"
  BY DEF StartExec, At, NextStep
<1> HIDE DEF mem
<1>4. PICK at \in DOMAIN mem : mem[at].type = "user_message"
  BY <1>2 DEF HasMessage, UserMessage, Bare
<1>5. LastUser(mem) \in DOMAIN mem
  BY <1>1, <1>4, LastOfFound DEF LastUser
<1>6. ~(LastAssistant(mem) < LastUser(mem)) /\ mem[LastAssistant(mem)].call
  BY <1>3 DEF NextAction
<1>7. LastAssistant(mem) # 0
  BY <1>1, <1>5, <1>6
<1>8. PICK i \in DOMAIN mem : mem[i].type = "assistant_message"
  BY <1>1, <1>7, LastOfMissing DEF LastAssistant
<1>9. /\ LastAssistant(mem) \in DOMAIN mem
      /\ mem[LastAssistant(mem)].type = "assistant_message"
  BY <1>1, <1>8, LastOfFound DEF LastAssistant
<1>10. /\ LastAssistant(mem) \in DOMAIN log
       /\ log[LastAssistant(mem)] = mem[LastAssistant(mem)]
  BY <1>1, <1>2, <1>9 DEF IsPrefixOf
<1>11. log[LastAssistant(mem)] = Assistant(mem[LastAssistant(mem)].call)
  BY <1>9, <1>10 DEF JournalInv, Formed
<1>12. mem[LastAssistant(mem)].call = TRUE
  <2>1. mem[LastAssistant(mem)] \in Event
    BY <1>1, <1>9
  <2>2. mem[LastAssistant(mem)].call \in BOOLEAN
    BY <2>1 DEF Event
  <2> QED
    BY <1>6, <2>2
<1>13. Key(s) = LastAssistant(mem)
  BY DEF Key, PendingKey, IdemKeyFor, mem
<1> QED
  BY <1>10, <1>11, <1>12, <1>13

LEMMA JournalNext == IInv /\ JournalInv /\ [Next]_vars => JournalInv'
<1> SUFFICES ASSUME IInv, JournalInv, [Next]_vars
             PROVE  JournalInv'
  OBVIOUS
<1>1. log \in Seq(Event) /\ finished \subseteq finished'
  BY RunsGrow DEF IInv, TypeOK
<1>2. /\ \A i \in DOMAIN log : i \in DOMAIN log' /\ log'[i] = log[i]
      /\ \A i \in DOMAIN log' \ DOMAIN log :
           Formed(log'[i]) /\ ObservedIn(log'[i], finished)
  <2>1. CASE log' = log
    BY <2>1
  <2>2. CASE log' # log
    <3> PICK e \in Event : /\ log' = Append(log, e)
                           /\ Formed(e) /\ ObservedIn(e, finished)
      BY <2>2, WrittenEvents
    <3>1. /\ DOMAIN log' = DOMAIN log \cup {Len(log) + 1}
          /\ log'[Len(log) + 1] = e
          /\ \A i \in DOMAIN log : log'[i] = log[i]
      BY <1>1
    <3> QED
      BY <3>1
  <2> QED
    BY <2>1, <2>2
<1>3. \A i \in DOMAIN log' : Formed(log'[i])
  BY <1>2 DEF JournalInv
<1>4. ResultsObserved'
  BY <1>1, <1>2 DEF JournalInv, ResultsObserved, ObservedIn
<1>5. CommandsJournaled'
  <2>1. CASE UNCHANGED started
    BY <1>2, <2>1 DEF JournalInv, CommandsJournaled
  <2>2. CASE \E s \in Slots : StartExec(s)
    <3> PICK s \in Slots : StartExec(s)
      BY <2>2
    <3>1. started' = started \cup {<<slots[s].box, Key(s)>>}
      BY DEF StartExec
    <3>2. Key(s) \in DOMAIN log /\ log[Key(s)] = Assistant(TRUE)
      BY StartsJournaled
    <3>3. ASSUME NEW run \in started'
          PROVE  run[2] \in DOMAIN log /\ log[run[2]] = Assistant(TRUE)
      <4>1. CASE run \in started
        BY <4>1 DEF JournalInv, CommandsJournaled
      <4>2. CASE run = <<slots[s].box, Key(s)>>
        BY <3>2, <4>2
      <4> QED
        BY <3>1, <4>1, <4>2
    <3> QED
      BY <1>2, <3>3 DEF CommandsJournaled
  <2> QED
    BY <2>1, <2>2, RunsGrow
<1> QED
  BY <1>3, <1>4, <1>5 DEF JournalInv

LEMMA JournalInit == Init => JournalInv
<1> SUFFICES ASSUME Init
             PROVE  JournalInv
  OBVIOUS
<1>1. log \in {<<>>, <<Provisioned>>} /\ started = {}
  BY DEF Init
<1>2. \A i \in DOMAIN log : log[i] = Provisioned
  BY <1>1
<1> QED
  BY <1>1, <1>2, ConstructorsFormed DEF JournalInv, CommandsJournaled, ResultsObserved

\* Whatever worker is lost or stale, no command is spawned before the call that
\* asks for it is in the log (turn.ts, exec.ts).
THEOREM CommandsAreJournaled == Spec => []CommandsJournaled
<1>1. JournalInv => CommandsJournaled
  BY DEF JournalInv
<1> QED
  BY <1>1, JournalInit, JournalNext, InvariantHolds, PTL DEF Spec

\* No result is in the log before its command has left an exit code in some
\* sandbox (exec.ts 44-45).
THEOREM ResultsAreObserved == Spec => []ResultsObserved
<1>1. JournalInv => ResultsObserved
  BY DEF JournalInv
<1> QED
  BY <1>1, JournalInit, JournalNext, InvariantHolds, PTL DEF Spec

-----------------------------------------------------------------------------
(* A turn sees its message.  Messages and jobs are counted alike, and what *)
(* a slot read of the log never shrinks.                                   *)

Messages(events) == Count(events, UserMessage)

SeesItsMessage(r) == r.pc \in InTurnPc => r.job <= Messages(r.mem)

SeesInv == /\ messages <= Messages(log)
           /\ \A j \in JobId : jobs[j].state # "none" => j <= messages
           /\ \A s \in Slots : /\ slots[s].job <= messages
                               /\ SeesItsMessage(slots[s])

\* What the step of slot s leaves in its record r: its job, or none; and a
\* memory that is the log, the one it had, or of no turn.
Remembers(s, r) ==
  /\ slots' = [slots EXCEPT ![s] = r]
  /\ r.job \in {0, slots[s].job}
  /\ \/ r.pc \notin InTurnPc
     \/ r.mem = log' /\ r.job = slots[s].job
     \/ slots[s].pc \in InTurnPc /\ r.mem = slots[s].mem /\ r.job = slots[s].job

LEMMA ReturnRemembers ==
  ASSUME NEW s \in Slots, NEW outcome, Return(s, outcome)
  PROVE  \E r : Remembers(s, r)
<1> DEFINE r == [Idle EXCEPT !.pc = "settle", !.job = slots[s].job,
                             !.outcome = outcome]
<1>1. r.job = slots[s].job /\ r.pc \notin InTurnPc
  BY DEF Idle, InTurnPc
<1>2. slots' = [slots EXCEPT ![s] = r]
  BY DEF Return
<1> HIDE DEF r
<1> QED
  BY <1>1, <1>2 DEF Remembers

LEMMA MapErrorRemembers ==
  ASSUME IInv, NEW s \in Slots, NEW class, MapError(s, class),
         slots[s].pc \in InTurnPc
  PROVE  \E r : Remembers(s, r)
<1>1. CASE slots[s].last
  <2> DEFINE r == [slots[s] EXCEPT !.pc = "fail", !.class = class]
  <2>1. slots[s] \in Slot /\ slots \in [Slots -> Slot]
    BY DEF IInv, TypeOK
  <2>2. slots' = [slots EXCEPT ![s] = r]
    BY <1>1, <2>1 DEF MapError
  <2>3. r.job = slots[s].job /\ r.mem = slots[s].mem
    BY <2>1 DEF Slot
  <2> HIDE DEF r
  <2> QED
    BY <2>2, <2>3 DEF Remembers
<1>2. CASE ~slots[s].last
  BY <1>2, ReturnRemembers DEF MapError
<1> QED
  BY <1>1, <1>2

LEMMA GotoRemembers ==
  ASSUME IInv, NEW s \in Slots, NEW pc, Goto(s, pc),
         slots[s].pc \in InTurnPc \/ pc \notin InTurnPc
  PROVE  \E r : Remembers(s, r)
<1> DEFINE r == [slots[s] EXCEPT !.pc = pc]
<1>1. slots[s] \in Slot /\ slots \in [Slots -> Slot]
  BY DEF IInv, TypeOK
<1>2. slots' = [slots EXCEPT ![s] = r]
  BY <1>1 DEF Goto
<1>3. r.job = slots[s].job /\ r.mem = slots[s].mem /\ r.pc = pc
  BY <1>1 DEF Slot
<1> HIDE DEF r
<1> QED
  BY <1>2, <1>3 DEF Remembers

LEMMA LoopRemembers ==
  ASSUME IInv, NEW s \in Slots, NEW e \in Event, AppendAndLoop(s, e)
  PROVE  \E r : Remembers(s, r)
<1>1. CASE SeqTaken(s)
  BY <1>1, ReturnRemembers DEF AppendAndLoop
<1>2. CASE ~SeqTaken(s)
  <2> DEFINE r == [slots[s] EXCEPT !.pc = "act", !.rebooted = FALSE,
                                   !.mem = Append(slots[s].mem, e)]
  <2>1. /\ slots[s] \in Slot /\ slots \in [Slots -> Slot] /\ log \in Seq(Event)
        /\ slots[s].mem \in Seq(Event) /\ IsPrefixOf(slots[s].mem, log)
    BY SlotTypes DEF IInv, TypeOK, SlotFollowsLog
  <2>2. slots' = [slots EXCEPT ![s] = r] /\ log' = Append(log, e)
    BY <1>2, <2>1 DEF AppendAndLoop
  <2>3. slots[s].mem = log
    BY <1>2, <2>1, FullPrefix DEF SeqTaken
  <2>4. r.job = slots[s].job /\ r.mem = log'
    BY <2>1, <2>2, <2>3 DEF Slot
  <2> HIDE DEF r
  <2> QED
    BY <2>2, <2>4 DEF Remembers
<1> QED
  BY <1>1, <1>2

LEMMA GiveUpProvisionRemembers ==
  ASSUME IInv, NEW s \in Slots, GiveUpProvision(s)
  PROVE  \E r : Remembers(s, r)
<1>1. CASE ~slots[s].last
  BY <1>1, ReturnRemembers DEF GiveUpProvision
<1>2. CASE slots[s].last
  <2> DEFINE r == [slots[s] EXCEPT !.pc = "open", !.goal = "failed"]
  <2>1. slots[s] \in Slot /\ slots \in [Slots -> Slot]
    BY DEF IInv, TypeOK
  <2>2. slots' = [slots EXCEPT ![s] = r]
    BY <1>2, <2>1 DEF GiveUpProvision
  <2>3. r.job = slots[s].job /\ r.pc \notin InTurnPc
    BY <2>1 DEF Slot, InTurnPc
  <2> HIDE DEF r
  <2> QED
    BY <2>2, <2>3 DEF Remembers
<1> QED
  BY <1>1, <1>2

LEMMA TurnRemembers ==
  ASSUME IInv, NEW s \in Slots, TurnStep(s)
  PROVE  \E r : Remembers(s, r)
<1>0. /\ slots[s] \in Slot /\ slots \in [Slots -> Slot] /\ Key(s) \in Nat
      /\ SlotFollowsLog(slots[s], log)
  BY KeyNat DEF IInv, TypeOK
<1>1. CASE Gate(s)
  <2>1. CASE session.status = "ready"
    <3> DEFINE r == [slots[s] EXCEPT !.pc = "read", !.box = session.box]
    <3>1. slots' = [slots EXCEPT ![s] = r]
      BY <1>0, <1>1, <2>1 DEF Gate
    <3>2. r.job = slots[s].job /\ r.pc \notin InTurnPc
      BY <1>0 DEF Slot, InTurnPc
    <3> HIDE DEF r
    <3> QED
      BY <3>1, <3>2 DEF Remembers
  <2>2. CASE session.status # "ready"
    <3>1. \E outcome : Return(s, outcome)
      BY <1>1, <2>2 DEF Gate, IInv, TypeOK, Status
    <3> QED
      BY <3>1, ReturnRemembers
  <2> QED
    BY <2>1, <2>2
<1>2. CASE ReadEvents(s)
  <2> DEFINE r == [slots[s] EXCEPT !.pc = "act", !.mem = log]
  <2>1. slots' = [slots EXCEPT ![s] = r] /\ log' = log
    BY <1>0, <1>2 DEF ReadEvents
  <2>2. r.job = slots[s].job /\ r.mem = log
    BY <1>0 DEF Slot
  <2> HIDE DEF r
  <2> QED
    BY <2>1, <2>2 DEF Remembers
<1>3. CASE Infer(s) \/ Collect(s)
  BY <1>0, <1>3, EventTypes, LoopRemembers DEF Infer, Collect
<1>4. CASE Noop(s) \/ Finish(s) \/ ExhaustBudget(s) \/ RecordFailure(s)
  BY <1>4, ReturnRemembers DEF Noop, Finish, ExhaustBudget, RecordFailure,
     AppendAndReturn
<1>5. CASE LlmFails(s)
  <2> DEFINE r == [slots[s] EXCEPT !.pc = "fail", !.class = "LLM_PERMANENT"]
  <2>1. r.job = slots[s].job /\ r.mem = slots[s].mem
    BY <1>0 DEF Slot
  <2>2. slots' = [slots EXCEPT ![s] = r] \/ MapError(s, "INTERNAL")
    BY <1>0, <1>5 DEF LlmFails
  <2>3. slots[s].pc \in InTurnPc
    BY <1>5 DEF LlmFails, At, InTurnPc
  <2> HIDE DEF r
  <2>4. CASE slots' = [slots EXCEPT ![s] = r]
    BY <2>1, <2>3, <2>4 DEF Remembers
  <2>5. CASE MapError(s, "INTERNAL")
    BY <2>3, <2>5, MapErrorRemembers
  <2> QED
    BY <2>2, <2>4, <2>5
<1>6. CASE StartExec(s)
  BY <1>6, GotoRemembers DEF StartExec, At, InTurnPc
<1>7. CASE ExecFails(s)
  <2>1. slots[s].pc \in InTurnPc
    BY <1>7 DEF ExecFails, At, InTurnPc
  <2> QED
    BY <1>7, <2>1, GotoRemembers, MapErrorRemembers DEF ExecFails
<1>8. CASE Reboot(s)
  <2> DEFINE r == [slots[s] EXCEPT !.pc = "act", !.rebooted = TRUE]
  <2>1. slots' = [slots EXCEPT ![s] = r] /\ slots[s].pc \in InTurnPc
    BY <1>0, <1>8 DEF Reboot, InTurnPc
  <2>2. r.job = slots[s].job /\ r.mem = slots[s].mem
    BY <1>0 DEF Slot
  <2> HIDE DEF r
  <2> QED
    BY <2>1, <2>2 DEF Remembers
<1>9. CASE RebootFails(s)
  <2>1. slots[s].pc \in InTurnPc /\ \E class : MapError(s, class)
    BY <1>9 DEF RebootFails, InTurnPc
  <2> QED
    BY <2>1, MapErrorRemembers
<1> QED
  BY <1>1, <1>2, <1>3, <1>4, <1>5, <1>6, <1>7, <1>8, <1>9 DEF TurnStep

LEMMA ProvisionRemembers ==
  ASSUME IInv, NEW s \in Slots, ProvisionStep(s)
  PROVE  \E r : Remembers(s, r)
<1>0. slots[s] \in Slot /\ slots \in [Slots -> Slot]
  BY DEF IInv, TypeOK
<1>1. CASE ProvisionGate(s)
  BY <1>1, GotoRemembers, ReturnRemembers DEF ProvisionGate, InTurnPc
<1>2. CASE CreateBox(s)
  <2> DEFINE r == [slots[s] EXCEPT !.pc = "open", !.goal = "ready", !.box = boxes']
  <2>1. slots' = [slots EXCEPT ![s] = r]
    BY <1>0, <1>2 DEF CreateBox
  <2>2. r.job = slots[s].job /\ r.pc \notin InTurnPc
    BY <1>0 DEF Slot, InTurnPc
  <2> HIDE DEF r
  <2> QED
    BY <2>1, <2>2 DEF Remembers
<1>3. CASE CreateBoxFails(s)
  BY <1>3, GiveUpProvisionRemembers DEF CreateBoxFails
<1>4. CASE OpenTx(s)
  <2> DEFINE r == [slots[s] EXCEPT !.pc = "commit", !.seq = Len(log) + 1]
  <2>1. slots' = [slots EXCEPT ![s] = r]
    BY <1>0, <1>4 DEF OpenTx
  <2>2. r.job = slots[s].job /\ r.pc \notin InTurnPc
    BY <1>0 DEF Slot, InTurnPc
  <2> HIDE DEF r
  <2> QED
    BY <2>1, <2>2 DEF Remembers
<1>5. CASE CommitTx(s)
  BY <1>5, ReturnRemembers DEF CommitTx
<1> QED
  BY <1>1, <1>2, <1>3, <1>4, <1>5 DEF ProvisionStep

\* Every other step of a slot, but the claim of a job.
LEMMA OthersRemember ==
  ASSUME IInv, NEW s \in Slots,
         \/ Crash(s) \/ Settle(s) \/ SettleThrows(s)
         \/ ReadThrows(s) \/ AppendThrows(s) \/ TxThrows(s)
  PROVE  \E r : Remembers(s, r)
<1>1. CASE slots' = [slots EXCEPT ![s] = Idle]
  <2>1. Idle.job = 0 /\ Idle.pc \notin InTurnPc
    BY DEF Idle, InTurnPc
  <2> QED
    BY <1>1, <2>1 DEF Remembers
<1>2. CASE Crash(s) \/ Settle(s) \/ SettleThrows(s) \/ ReadThrows(s)
  BY <1>1, <1>2, ReturnRemembers DEF Crash, Settle, SettleThrows, ReadThrows
<1>3. CASE AppendThrows(s)
  <2>1. slots[s].pc \in InTurnPc
    BY <1>3 DEF AppendThrows, Appendable, At, InTurnPc
  <2> QED
    BY <1>3, <2>1, ReturnRemembers, MapErrorRemembers DEF AppendThrows
<1>4. CASE TxThrows(s)
  BY <1>4, ReturnRemembers, GiveUpProvisionRemembers DEF TxThrows
<1> QED
  BY <1>2, <1>3, <1>4

\* No event takes a message out of the log.
LEMMA MessagesStay ==
  ASSUME IInv, [Next]_vars
  PROVE  /\ Messages(log) \in Nat /\ Messages(log)' \in Nat
         /\ Messages(log) <= Messages(log)'
<1>1. log \in Seq(Event)
  BY DEF IInv, TypeOK
<1>2. Messages(log) \in Nat
  BY <1>1, CountFinite DEF Messages
<1>3. CASE log' = log
  BY <1>2, <1>3
<1>4. CASE log' # log
  <2> PICK e \in Event : log' = Append(log, e)
    BY <1>4, WrittenEvents
  <2>1. Count(Append(log, e), UserMessage) =
          Count(log, UserMessage) + (IF e = UserMessage THEN 1 ELSE 0)
    BY <1>1, CountAppend
  <2>2. Messages(log') = Messages(log) + (IF e = UserMessage THEN 1 ELSE 0)
    BY <2>1 DEF Messages
  <2>3. Messages(log)' = Messages(log')
    BY DEF Messages, Count, UserMessage, Bare
  <2> QED
    BY <1>2, <2>2, <2>3
<1> QED
  BY <1>3, <1>4

LEMMA SeesInit == Init => SeesInv
<1> SUFFICES ASSUME Init
             PROVE  SeesInv
  OBVIOUS
<1>1. log \in Seq(Event)
  BY TypeInit DEF TypeOK
<1>2. Messages(log) \in Nat
  BY <1>1, CountFinite DEF Messages
<1>3. \A j \in JobId : jobs[j].state # "none" => j = 0
  BY DEF Init, NoJob
<1>4. \A s \in Slots : slots[s].job = 0 /\ slots[s].pc \notin InTurnPc
  BY DEF Init, Idle, InTurnPc
<1>5. messages = 0
  BY DEF Init
<1> QED
  BY <1>2, <1>3, <1>4, <1>5 DEF SeesInv, SeesItsMessage

LEMMA SeesBySlot ==
  ASSUME IInv, SeesInv, [Next]_vars, UNCHANGED messages, NoNewJob,
         NEW s \in Slots, NEW r, Remembers(s, r)
  PROVE  SeesInv'
<1>1. /\ slots \in [Slots -> Slot] /\ messages \in Nat /\ slots[s].job \in Nat
  BY SlotTypes, RuntimeAssumption DEF IInv, TypeOK, JobId
<1>2. /\ Messages(log) \in Nat /\ Messages(log)' \in Nat
      /\ Messages(log) <= Messages(log)'
  BY MessagesStay
<1>3. slots[s].job <= messages /\ messages <= Messages(log)
  BY DEF SeesInv
<1>4. r.job <= messages
  BY <1>1, <1>3 DEF Remembers
<1>5. Messages(log') = Messages(log)'
  BY DEF Messages, Count, UserMessage, Bare
<1>6. SeesItsMessage(r)
  <2>1. CASE r.pc \notin InTurnPc
    BY <2>1 DEF SeesItsMessage
  <2>2. CASE r.mem = log' /\ r.job = slots[s].job
    <3>1. r.job <= Messages(log')
      BY <1>1, <1>2, <1>3, <1>5, <2>2
    <3> QED
      BY <2>2, <3>1 DEF SeesItsMessage
  <2>3. CASE slots[s].pc \in InTurnPc /\ r.mem = slots[s].mem /\ r.job = slots[s].job
    BY <2>3 DEF SeesInv, SeesItsMessage
  <2> QED
    BY <2>1, <2>2, <2>3 DEF Remembers
<1>7. \A t \in Slots : /\ slots'[t].job <= messages
                       /\ SeesItsMessage(slots'[t])
  BY <1>1, <1>4, <1>6 DEF SeesInv, Remembers
<1>8. \A t \in Slots : SeesItsMessage(slots'[t]) => SeesItsMessage(slots[t])'
  BY DEF SeesItsMessage, Messages, Count, UserMessage, Bare, InTurnPc
<1>9. messages <= Messages(log)'
  BY <1>1, <1>2, <1>3
<1>10. \A j \in JobId : jobs'[j].state # "none" => j <= messages
  BY DEF SeesInv, NoNewJob
<1> QED
  BY <1>7, <1>8, <1>9, <1>10 DEF SeesInv

LEMMA SeesQuiet ==
  ASSUME IInv, SeesInv, [Next]_vars, NoNewJob, UNCHANGED <<slots, messages>>
  PROVE  SeesInv'
<1>1. messages \in Nat /\ messages <= Messages(log)
  BY RuntimeAssumption DEF IInv, TypeOK, SeesInv
<1>2. messages <= Messages(log)'
  BY <1>1, MessagesStay
<1>3. \A t \in Slots : SeesItsMessage(slots[t]) => SeesItsMessage(slots[t])'
  BY DEF SeesItsMessage, Messages, Count, UserMessage, Bare, InTurnPc
<1> QED
  BY <1>2, <1>3 DEF SeesInv, NoNewJob

LEMMA SeesMessage ==
  ASSUME IInv, SeesInv, SendMessage
  PROVE  SeesInv'
<1>1. /\ log \in Seq(Event) /\ messages \in Nat /\ jobs \in [JobId -> JobRow]
      /\ slots \in [Slots -> Slot]
      /\ \A s \in Slots : slots[s].job \in Nat
      /\ \A j \in JobId : j \in Nat
  BY SlotTypes, RuntimeAssumption DEF IInv, TypeOK, JobId
<1>2. /\ log' = Append(log, UserMessage) /\ messages' = messages + 1
      /\ jobs' = [jobs EXCEPT ![messages + 1] = Queued] /\ slots' = slots
  BY DEF SendMessage
<1>3. Messages(log)' = Messages(log) + 1 /\ Messages(log) \in Nat
  <2>1. Count(Append(log, UserMessage), UserMessage) = Count(log, UserMessage) + 1
    BY <1>1, CountAppend, EventTypes
  <2>2. Messages(log)' = Count(log', UserMessage)
    BY DEF Messages, Count, UserMessage, Bare
  <2> QED
    BY <1>1, <1>2, <2>1, <2>2, CountFinite DEF Messages
<1>4. messages' <= Messages(log)'
  BY <1>1, <1>2, <1>3 DEF SeesInv
<1>5. \A j \in JobId : jobs'[j].state # "none" => j <= messages'
  BY <1>1, <1>2 DEF SeesInv
<1>6. \A s \in Slots : slots'[s].job <= messages'
  BY <1>1, <1>2 DEF SeesInv
<1>7. \A s \in Slots : SeesItsMessage(slots[s])'
  BY <1>2 DEF SeesInv, SeesItsMessage, Messages, Count, UserMessage, Bare, InTurnPc
<1> QED
  BY <1>4, <1>5, <1>6, <1>7 DEF SeesInv

LEMMA SeesPull ==
  ASSUME IInv, SeesInv, NEW s \in Slots, Pull(s)
  PROVE  SeesInv'
<1>1. slots \in [Slots -> Slot] /\ jobs \in [JobId -> JobRow]
  BY DEF IInv, TypeOK
<1>2. PICK j \in JobId :
        /\ Claimable(j)
        /\ jobs' = [jobs EXCEPT ![j] = [state |-> "running", lease |-> TRUE,
                                        attempts |-> @.attempts + 1]]
        /\ slots' = [slots EXCEPT ![s] = [Idle EXCEPT !.pc = "gate", !.job = j,
                                                     !.last = LastAttempt(j)]]
        /\ UNCHANGED <<log, messages>>
  BY DEF Pull
<1> DEFINE r == [Idle EXCEPT !.pc = "gate", !.job = j, !.last = LastAttempt(j)]
<1>3. r.pc \notin InTurnPc /\ r.job = j /\ slots' = [slots EXCEPT ![s] = r]
  BY <1>2 DEF Idle, InTurnPc
<1> HIDE DEF r
<1>4. j <= messages
  BY <1>2 DEF SeesInv, Claimable
<1>5. \A i \in JobId : jobs'[i].state # "none" => i <= messages
  BY <1>1, <1>2, <1>4 DEF SeesInv
<1>6. \A t \in Slots : slots'[t].job <= messages /\ SeesItsMessage(slots'[t])
  BY <1>1, <1>3, <1>4 DEF SeesInv, SeesItsMessage
<1>7. \A t \in Slots : SeesItsMessage(slots'[t]) => SeesItsMessage(slots[t])'
  BY DEF SeesItsMessage, Messages, Count, UserMessage, Bare, InTurnPc
<1>8. Messages(log)' = Messages(log)
  BY <1>2 DEF Messages, Count, UserMessage, Bare
<1> QED
  BY <1>2, <1>5, <1>6, <1>7, <1>8 DEF SeesInv

LEMMA SeesNext == IInv /\ SeesInv /\ [Next]_vars => SeesInv'
<1> SUFFICES ASSUME IInv, SeesInv, [Next]_vars
             PROVE  SeesInv'
  OBVIOUS
<1>0. TypeOK /\ jobs \in [JobId -> JobRow]
  BY DEF IInv, TypeOK
<1>1. CASE SendMessage
  BY <1>1, SeesMessage
<1>2. CASE Archive \/ CommandExits \/ UNCHANGED vars
  BY <1>2, SeesQuiet DEF Archive, CommandExits, vars, NoNewJob
<1>3. CASE \E j \in JobId : ExpireLease(j)
  <2>1. NoNewJob
    BY <1>0, <1>3 DEF ExpireLease, NoNewJob, JobRow
  <2> QED
    BY <1>3, <2>1, SeesQuiet DEF ExpireLease
<1>4. CASE \E s \in Slots : Pull(s) \/ Heartbeat(s) \/ Work(s) \/ Fault(s)
  <2> PICK s \in Slots : Pull(s) \/ Heartbeat(s) \/ Work(s) \/ Fault(s)
    BY <1>4
  <2>1. CASE Pull(s)
    BY <2>1, SeesPull
  <2>2. CASE Heartbeat(s) \/ Stall(s)
    <3>1. NoNewJob
      BY <1>0, <2>2, SlotTypes DEF Heartbeat, Stall, NoNewJob, JobRow
    <3> QED
      BY <2>2, <3>1, SeesQuiet DEF Heartbeat, Stall
  <2>3. CASE TurnStep(s)
    BY <1>0, <2>3, TurnRemembers, TurnKeepsJob, SeesBySlot DEF NoNewJob
  <2>4. CASE ProvisionStep(s)
    BY <1>0, <2>4, ProvisionRemembers, ProvisionKeepsJob, SeesBySlot DEF NoNewJob
  <2>5. CASE Settle(s) \/ SettleThrows(s)
    <3>1. NoNewJob /\ UNCHANGED messages
      BY <1>0, <2>5, SettledMakesNoJob DEF Settle, SettleThrows, NoNewJob
    <3> QED
      BY <2>5, <3>1, OthersRemember, SeesBySlot
  <2>6. CASE Crash(s) \/ ReadThrows(s) \/ AppendThrows(s) \/ TxThrows(s)
    <3>1. NoNewJob /\ UNCHANGED messages
      BY <2>6 DEF Crash, ReadThrows, AppendThrows, TxThrows, NoNewJob
    <3> QED
      BY <2>6, <3>1, OthersRemember, SeesBySlot
  <2> QED
    BY <2>1, <2>2, <2>3, <2>4, <2>5, <2>6 DEF Work, Fault
<1> QED
  BY <1>1, <1>2, <1>3, <1>4 DEF Next

\* A slot that drives the m-th turn has read the m-th message, however late or
\* stale it is: message and job are written together (service.ts sendMessage).
THEOREM TurnsSeeTheirMessage == Spec => []TurnSeesItsMessage
<1>1. SeesInv => TurnSeesItsMessage
  BY DEF SeesInv, SeesItsMessage, TurnSeesItsMessage, Messages, Count, InTurnPc
<1> QED
  BY <1>1, SeesInit, SeesNext, InvariantHolds, PTL DEF Spec

-----------------------------------------------------------------------------
(* Counting positions: the k-th of a set of positions exists, and a larger *)
(* place means a later position.                                           *)

Place(P, i) == Cardinality({j \in P : j <= i})

LEMMA CountNat ==
  ASSUME NEW n \in Nat, NEW P \in SUBSET (1 .. n)
  PROVE  /\ IsFiniteSet(P) /\ Cardinality(P) \in Nat
         /\ \A x \in P : x \in Nat /\ 1 <= x /\ x <= n
<1>1. IsFiniteSet(1 .. n)
  BY FS_Interval
<1>2. IsFiniteSet(P)
  BY <1>1, FS_Subset
<1> QED
  BY <1>2, FS_CardinalityType

LEMMA PlaceNat ==
  ASSUME NEW n \in Nat, NEW P \in SUBSET (1 .. n), NEW i \in Nat
  PROVE  /\ IsFiniteSet({j \in P : j <= i})
         /\ Place(P, i) \in 0 .. Cardinality(P) /\ Place(P, i) \in Nat
<1>1. IsFiniteSet(P) /\ Cardinality(P) \in Nat
  BY CountNat
<1>2. {j \in P : j <= i} \in SUBSET P
  OBVIOUS
<1>3. /\ IsFiniteSet({j \in P : j <= i})
      /\ Cardinality({j \in P : j <= i}) <= Cardinality(P)
  BY <1>1, <1>2, FS_Subset
<1>4. Cardinality({j \in P : j <= i}) \in Nat
  BY <1>3, FS_CardinalityType
<1> QED
  BY <1>1, <1>3, <1>4 DEF Place

\* One position further.
LEMMA PlaceStep ==
  ASSUME NEW n \in Nat, NEW P \in SUBSET (1 .. n), NEW i \in Nat, i # 0
  PROVE  Place(P, i) = IF i \in P THEN Place(P, i - 1) + 1 ELSE Place(P, i - 1)
<1> DEFINE Up(x) == {j \in P : j <= x}
<1>1. \A x \in P : x \in Nat
  BY CountNat
<1>2. i - 1 \in Nat
  OBVIOUS
<1>3. IsFiniteSet(Up(i - 1))
  BY <1>2, PlaceNat
<1>4. CASE i \in P
  <2>1. \A x \in P : x <= i <=> x <= i - 1 \/ x = i
    BY <1>1
  <2>2. Up(i) = Up(i - 1) \cup {i}
    BY <1>4, <2>1
  <2>3. i \notin Up(i - 1)
    OBVIOUS
  <2> QED
    BY <1>3, <1>4, <2>2, <2>3, FS_AddElement DEF Place
<1>5. CASE i \notin P
  <2>1. \A x \in P : x <= i <=> x <= i - 1
    BY <1>1, <1>5
  <2>2. Up(i) = Up(i - 1)
    BY <2>1
  <2> QED
    BY <1>5, <2>2 DEF Place
<1> QED
  BY <1>4, <1>5

\* A later member has a larger place.
LEMMA PlaceGrows ==
  ASSUME NEW n \in Nat, NEW P \in SUBSET (1 .. n), NEW i \in P, NEW j \in P, i < j
  PROVE  Place(P, i) < Place(P, j)
<1> DEFINE A == {x \in P : x <= i}
           B == {x \in P : x <= j}
<1>1. i \in Nat /\ j \in Nat /\ \A x \in P : x \in Nat
  BY CountNat
<1>2. IsFiniteSet(A) /\ IsFiniteSet(B)
  BY <1>1, PlaceNat
<1>3. A \cup {j} \in SUBSET B /\ j \notin A
  <2>1. \A x \in P : x <= i => x <= j
    BY <1>1
  <2>2. ~(j <= i) /\ j <= j
    BY <1>1
  <2> QED
    BY <2>1, <2>2
<1>4. Cardinality(A \cup {j}) = Cardinality(A) + 1 /\ Cardinality(A \cup {j}) <= Cardinality(B)
  BY <1>2, <1>3, FS_AddElement, FS_Subset
<1>5. Cardinality(A) \in Nat /\ Cardinality(B) \in Nat
  BY <1>2, FS_CardinalityType
<1> HIDE DEF A, B
<1>6. Cardinality(A) < Cardinality(B)
  BY <1>4, <1>5
<1> QED
  BY <1>6 DEF A, B, Place

\* Every place is taken: the least position that has it or a later one.
LEMMA PlaceTaken ==
  ASSUME NEW n \in Nat, NEW P \in SUBSET (1 .. n), NEW k \in 1 .. Cardinality(P)
  PROVE  \E i \in P : Place(P, i) = k
<1> DEFINE Reached == {i \in Nat : Place(P, i) >= k}
<1>1. {j \in P : j <= n} = P
  BY CountNat
<1>2. Cardinality(P) \in Nat /\ k \in Nat /\ k <= Cardinality(P) /\ k >= 1
  BY CountNat
<1>3. n \in Reached
  BY <1>1, <1>2 DEF Place
<1>4. Reached \in SUBSET Nat /\ Reached # {}
  BY <1>3
<1>5. PICK i \in Reached : \A y \in Reached : i <= y
  BY <1>4, HasLeast
<1>6. i # 0
  <2>1. {j \in P : j <= 0} = {}
    <3>1. \A x \in P : ~(x <= 0)
      BY CountNat
    <3> QED
      BY <3>1
  <2>2. Place(P, 0) = 0
    BY <2>1, FS_EmptySet DEF Place
  <2> QED
    BY <1>2, <2>2
<1>7. /\ i \in Nat /\ ~(Place(P, i - 1) >= k)
      /\ Place(P, i - 1) \in Nat /\ Place(P, i) \in Nat
  <2>1. i \in Nat /\ i - 1 \in Nat /\ ~(i <= i - 1)
    BY <1>6
  <2>2. i - 1 \notin Reached
    BY <1>5, <2>1
  <2>3. Place(P, i - 1) \in Nat /\ Place(P, i) \in Nat
    BY <2>1, PlaceNat
  <2> QED
    BY <2>1, <2>2, <2>3
<1>8. Place(P, i) = IF i \in P THEN Place(P, i - 1) + 1 ELSE Place(P, i - 1)
  BY <1>6, <1>7, PlaceStep
<1>9. Place(P, i) >= k
  OBVIOUS
<1>10. i \in P /\ Place(P, i) = k
  BY <1>2, <1>7, <1>8, <1>9
<1> QED
  BY <1>10

\* The k-th position has place k, and is the only one.
LEMMA NthPlace ==
  ASSUME NEW n \in Nat, NEW P \in SUBSET (1 .. n)
  PROVE  /\ \A k \in 1 .. Cardinality(P) : Nth(P, k) \in P /\ Place(P, Nth(P, k)) = k
         /\ \A i \in P : Place(P, i) \in 1 .. Cardinality(P) /\ Nth(P, Place(P, i)) = i
<1>1. ASSUME NEW k \in 1 .. Cardinality(P)
      PROVE  Nth(P, k) \in P /\ Place(P, Nth(P, k)) = k
  <2>1. \E i \in P : Cardinality({j \in P : j <= i}) = k
    BY PlaceTaken DEF Place
  <2> QED
    BY <2>1 DEF Nth, Place
<1>2. ASSUME NEW i \in P
      PROVE  Place(P, i) \in 1 .. Cardinality(P) /\ Nth(P, Place(P, i)) = i
  <2>1. i \in Nat /\ i # 0 /\ i - 1 \in Nat
    <3>1. i \in Nat /\ 1 <= i
      BY CountNat
    <3> QED
      BY <3>1
  <2>2. Place(P, i) = Place(P, i - 1) + 1
    BY <2>1, PlaceStep
  <2>3. /\ Place(P, i - 1) \in Nat /\ Cardinality(P) \in Nat
        /\ Place(P, i) \in 0 .. Cardinality(P)
    BY <2>1, PlaceNat, CountNat
  <2>4. Place(P, i) \in 1 .. Cardinality(P)
    BY <2>2, <2>3
  <2> DEFINE m == Nth(P, Place(P, i))
  <2>5. m \in P /\ Place(P, m) = Place(P, i)
    BY <1>1, <2>4
  <2> HIDE DEF m
  <2>6. ~(m < i) /\ ~(i < m)
    <3>1. Place(P, m) \in Nat /\ Place(P, i) \in Nat
      BY <2>3, <2>4, <2>5
    <3>2. ~(Place(P, m) < Place(P, i)) /\ ~(Place(P, i) < Place(P, m))
      BY <2>5, <3>1
    <3> QED
      BY <2>5, <3>2, PlaceGrows
  <2>7. m = i
    BY <2>1, <2>5, <2>6
  <2> QED
    BY <2>4, <2>7 DEF m
<1> QED
  BY <1>1, <1>2

\* The positions come in order, and none is left out.
LEMMA NthOrder ==
  ASSUME NEW n \in Nat, NEW P \in SUBSET (1 .. n),
         NEW k \in 1 .. Cardinality(P), NEW m \in 1 .. Cardinality(P)
  PROVE  Nth(P, k) < Nth(P, m) <=> k < m
<1>1. /\ Nth(P, k) \in P /\ Place(P, Nth(P, k)) = k
      /\ Nth(P, m) \in P /\ Place(P, Nth(P, m)) = m
  BY NthPlace
<1>2. k \in Nat /\ m \in Nat /\ Nth(P, k) \in Nat /\ Nth(P, m) \in Nat
  BY <1>1, CountNat
<1>3. Nth(P, k) < Nth(P, m) => k < m
  BY <1>1, PlaceGrows
<1>4. Nth(P, m) < Nth(P, k) => m < k
  BY <1>1, PlaceGrows
<1>5. Nth(P, m) = Nth(P, k) => m = k
  BY <1>1
<1> QED
  BY <1>2, <1>3, <1>4, <1>5

\* Neighbours: what lies between two members that have none between them.
LEMMA NthNext ==
  ASSUME NEW n \in Nat, NEW P \in SUBSET (1 .. n),
         NEW i \in P, NEW j \in P, i < j, \A x \in P : ~(i < x /\ x < j)
  PROVE  Place(P, j) = Place(P, i) + 1
<1> DEFINE k == Place(P, i)
           m == Place(P, j)
<1>1. /\ k \in 1 .. Cardinality(P) /\ m \in 1 .. Cardinality(P)
      /\ Nth(P, k) = i /\ Nth(P, m) = j /\ Cardinality(P) \in Nat
  BY NthPlace, CountNat
<1> HIDE DEF k, m
<1>2. k < m
  BY <1>1, NthOrder
<1>3. ~(k + 1 < m)
  <2> SUFFICES ASSUME k + 1 < m
               PROVE  FALSE
    OBVIOUS
  <2>1. k + 1 \in 1 .. Cardinality(P) /\ k < k + 1
    BY <1>1
  <2>2. Nth(P, k + 1) \in P
    BY <2>1, NthPlace
  <2>3. i < Nth(P, k + 1) /\ Nth(P, k + 1) < j
    BY <1>1, <2>1, NthOrder
  <2> QED
    BY <2>2, <2>3
<1>4. m = k + 1
  BY <1>1, <1>2, <1>3
<1> QED
  BY <1>4 DEF k, m

-----------------------------------------------------------------------------
(* The request as a function of the log's positions.                       *)

LEMMA RoleIs ==
  /\ DOMAIN Role = {"user_message", "assistant_message", "tool_result"}
  /\ Role["user_message"] = "user" /\ Role["assistant_message"] = "assistant"
  /\ Role["tool_result"] = "tool"
BY DEF Role

LEMMA ConversationIs ==
  ASSUME NEW e, IsConversation(e)
  PROVE  /\ e.type \in {"user_message", "assistant_message", "tool_result"}
         /\ Role[e.type] \in {"user", "assistant", "tool"}
         /\ Role[e.type] = "tool" <=> e.type = "tool_result"
<1>1. e.type \in {"user_message", "assistant_message", "tool_result"}
  BY RoleIs DEF IsConversation
<1> QED
  BY <1>1, RoleIs

LEMMA ChatMessageIs ==
  ASSUME NEW e
  PROVE  /\ ChatMessage(e).role = Role[e.type]
         /\ ChatMessage(e).toolCall = e.call
         /\ ChatMessage(e).idemKey = e.key
BY DEF ChatMessage

\* A result goes by its key, and so does the call before it.
LEMMA ToolUseIs ==
  ASSUME NEW m, NEW i
  PROVE  /\ m[i].role = "tool" => ToolUse(m, i) = <<"key", m[i].idemKey>>
         /\ m[i].role = "assistant" /\ m[i].toolCall => ToolUse(m, i) = CallId(m, i)
<1>1. ASSUME m[i].role = "tool"
      PROVE  ToolUse(m, i) = <<"key", m[i].idemKey>>
  BY <1>1 DEF ToolUse
<1>2. ASSUME m[i].role = "assistant", m[i].toolCall
      PROVE  ToolUse(m, i) = CallId(m, i)
  BY <1>2 DEF ToolUse
<1> QED
  BY <1>1, <1>2

LEMMA Behind ==
  ASSUME NEW M, NEW a \in Seq(M), NEW b \in Seq(M)
  PROVE  /\ Len(a) \in Nat /\ Len(b) \in Nat /\ Len(a \o b) = Len(a) + Len(b)
         /\ a \o b \in Seq(M)
         /\ \A i \in 1 .. Len(a) : (a \o b)[i] = a[i]
         /\ \A i \in 1 .. Len(a \o b) : i > Len(a) => (a \o b)[i] = b[i - Len(a)]
OBVIOUS

LEMMA BehindOne ==
  ASSUME NEW M, NEW a \in Seq(M), NEW b \in Seq(M), Len(a) = 1
  PROVE  /\ Len(a \o b) = Len(b) + 1 /\ DOMAIN (a \o b) = 1 .. Len(b) + 1
         /\ (a \o b)[1] = a[1]
         /\ \A k \in 1 .. Len(b) : (a \o b)[k + 1] = b[k]
<1> DEFINE u == a \o b
<1>1. /\ Len(a) \in Nat /\ Len(b) \in Nat /\ Len(u) = Len(a) + Len(b)
      /\ u \in Seq(M)
      /\ \A i \in 1 .. Len(a) : u[i] = a[i]
      /\ \A i \in 1 .. Len(u) : i > Len(a) => u[i] = b[i - Len(a)]
  BY Behind, Zenon
<1> HIDE DEF u
<1>2. Len(u) = Len(b) + 1 /\ DOMAIN u = 1 .. Len(b) + 1 /\ u[1] = a[1]
  BY <1>1
<1>3. ASSUME NEW k \in 1 .. Len(b)
      PROVE  u[k + 1] = b[k]
  <2>1. k + 1 \in 1 .. Len(u) /\ k + 1 > 1 /\ (k + 1) - 1 = k
    BY <1>1
  <2>2. u[k + 1] = b[(k + 1) - 1]
    BY <1>1, <2>1
  <2> QED
    BY <2>1, <2>2
<1> QED
  BY <1>2, <1>3 DEF u

LEMMA ContextIs ==
  ASSUME NEW l \in Seq(Event)
  PROVE  /\ Said(l) \in SUBSET (1 .. Len(l))
         /\ Cardinality(Said(l)) \in Nat
         /\ Len(BuildContext(l)) = Cardinality(Said(l)) + 1
         /\ DOMAIN BuildContext(l) = 1 .. Cardinality(Said(l)) + 1
         /\ BuildContext(l)[1] = System
         /\ \A k \in 1 .. Cardinality(Said(l)) :
              BuildContext(l)[k + 1] = ChatMessage(l[Nth(Said(l), k)])
<1> DEFINE N == Cardinality(Said(l))
           b == [k \in 1 .. N |-> ChatMessage(l[Nth(Said(l), k)])]
           a == <<System>>
           M == {System} \cup {b[k] : k \in 1 .. N}
<1>1. Said(l) \in SUBSET (1 .. Len(l)) /\ Len(l) \in Nat
  BY DEF Said
<1>2. N \in Nat
  BY <1>1, CountNat
<1>3. /\ b \in [1 .. N -> M] /\ DOMAIN b = 1 .. N
      /\ \A k \in 1 .. N : b[k] = ChatMessage(l[Nth(Said(l), k)])
  OBVIOUS
<1>4. a \in Seq(M) /\ Len(a) = 1 /\ a[1] = System
  OBVIOUS
<1>5. BuildContext(l) = a \o b
  BY DEF BuildContext
<1> HIDE DEF a, b, M, N
<1>6. b \in Seq(M) /\ Len(b) = N
  BY <1>2, <1>3
<1>7. /\ Len(a \o b) = N + 1 /\ DOMAIN (a \o b) = 1 .. N + 1
      /\ (a \o b)[1] = a[1] /\ \A k \in 1 .. N : (a \o b)[k + 1] = b[k]
  BY <1>4, <1>6, BehindOne
<1>8. /\ Len(BuildContext(l)) = N + 1 /\ DOMAIN BuildContext(l) = 1 .. N + 1
      /\ BuildContext(l)[1] = System
      /\ \A k \in 1 .. N : BuildContext(l)[k + 1] = ChatMessage(l[Nth(Said(l), k)])
  BY <1>3, <1>4, <1>5, <1>7
<1> QED
  BY <1>1, <1>2, <1>8 DEF N

\* What the request says of the k-th message of the log.
LEMMA RequestIs ==
  ASSUME NEW l \in Seq(Event)
  PROVE  /\ DOMAIN ToModelMessages(BuildContext(l)) = 1 .. Cardinality(Said(l))
         /\ \A k \in 1 .. Cardinality(Said(l)) :
              ToModelMessages(BuildContext(l))[k] = ModelMessage(BuildContext(l), k + 1)
<1> DEFINE N == Cardinality(Said(l))
           c == BuildContext(l)
           P == NotSystem(c)
<1>1. /\ N \in Nat /\ DOMAIN c = 1 .. N + 1 /\ c[1].role = "system"
      /\ \A k \in 1 .. N : c[k + 1] = ChatMessage(l[Nth(Said(l), k)])
  BY ContextIs DEF System
<1>2. \A k \in 1 .. N : c[k + 1].role # "system"
  <2> SUFFICES ASSUME NEW k \in 1 .. N
               PROVE  c[k + 1].role # "system"
    OBVIOUS
  <2>1. Nth(Said(l), k) \in Said(l)
    <3>1. Said(l) \in SUBSET (1 .. Len(l)) /\ Len(l) \in Nat
      BY ContextIs
    <3> QED
      BY <3>1, NthPlace
  <2>2. IsConversation(l[Nth(Said(l), k)])
    BY <2>1 DEF Said
  <2>3. c[k + 1].role = Role[l[Nth(Said(l), k)].type]
    BY <1>1, ChatMessageIs
  <2> QED
    BY <2>2, <2>3, ConversationIs
<1>3. \A i \in 2 .. N + 1 : i - 1 \in 1 .. N /\ (i - 1) + 1 = i
  BY <1>1
<1>4. \A i \in 2 .. N + 1 : c[i].role # "system"
  BY <1>2, <1>3
<1>5. P = 2 .. N + 1
  <2>1. \A i \in 1 .. N + 1 : i = 1 \/ i \in 2 .. N + 1
    BY <1>1
  <2>2. 2 .. N + 1 \subseteq 1 .. N + 1 /\ 1 \notin 2 .. N + 1
    BY <1>1
  <2> QED
    BY <1>1, <1>4, <2>1, <2>2 DEF NotSystem
<1> HIDE DEF P, c, N
<1>6. P \in SUBSET (1 .. N + 1) /\ N + 1 \in Nat /\ Cardinality(P) = N
  <2>1. Cardinality(2 .. N + 1) = N
    BY <1>1, FS_Interval
  <2> QED
    BY <1>1, <1>5, <2>1
<1>7. ASSUME NEW k \in 1 .. N
      PROVE  Nth(P, k) = k + 1
  <2>1. k + 1 \in P
    BY <1>1, <1>5
  <2>2. {j \in P : j <= k + 1} = 2 .. k + 1
    BY <1>1, <1>5
  <2>3. Cardinality(2 .. k + 1) = k
    BY <1>1, FS_Interval
  <2>4. Place(P, k + 1) = k
    BY <2>2, <2>3 DEF Place
  <2> QED
    BY <1>6, <2>1, <2>4, NthPlace
<1>8. /\ ToModelMessages(c) = [k \in 1 .. N |-> ModelMessage(c, Nth(P, k))]
  BY <1>6 DEF ToModelMessages, P
<1>9. /\ DOMAIN ToModelMessages(c) = 1 .. N
      /\ \A k \in 1 .. N : ToModelMessages(c)[k] = ModelMessage(c, k + 1)
  BY <1>7, <1>8
<1> QED
  BY <1>9 DEF c, N

-----------------------------------------------------------------------------
(* Calls and results in the log, and what it means for the request.        *)

\* Nothing is said between two positions.
Quiet(l, k, i) == \A j \in k + 1 .. i - 1 : ~IsConversation(l[j])

AnswerAt(l, k, i) == l[i].type = "tool_result" /\ l[i].key = k /\ Quiet(l, k, i)

CallsAreSpoken(l) == \A i \in DOMAIN l : l[i].call => l[i].type = "assistant_message"

ResultsAnswer(l) ==
  \A i \in DOMAIN l : l[i].type = "tool_result" =>
    \E k \in 1 .. i - 1 : l[k].call /\ AnswerAt(l, k, i)

LEMMA PairedLog ==
  ASSUME NEW l \in Seq(Event), CallsAreSpoken(l), ResultsAnswer(l),
         \A k \in DOMAIN l : l[k].call =>
           \/ \E i \in k + 1 .. Len(l) : AnswerAt(l, k, i)
           \/ Abandoned(l, k)
  PROVE  WellAnswered(l)
<1> DEFINE S == Said(l)
           N == Cardinality(S)
           c == BuildContext(l)
           request == ToModelMessages(c)
           at(k) == Nth(S, k)
<1>1. /\ S \in SUBSET (1 .. Len(l)) /\ N \in Nat /\ Len(l) \in Nat
      /\ Len(c) = N + 1 /\ DOMAIN request = 1 .. N
      /\ \A k \in 1 .. N : c[k + 1] = ChatMessage(l[at(k)])
      /\ \A k \in 1 .. N : request[k] = ModelMessage(c, k + 1)
  BY ContextIs, RequestIs
<1>2. \A k \in 1 .. N : at(k) \in S /\ Place(S, at(k)) = k
  BY <1>1, NthPlace
<1>3. \A k \in 1 .. N : at(k) \in DOMAIN l /\ IsConversation(l[at(k)])
  BY <1>2 DEF Said
<1>4. \A k \in 1 .. N : /\ c[k + 1].role = Role[l[at(k)].type]
                        /\ c[k + 1].toolCall = l[at(k)].call
                        /\ c[k + 1].idemKey = l[at(k)].key
  BY <1>1, ChatMessageIs
<1>5. \A k \in 1 .. N : /\ request[k].role = Role[l[at(k)].type]
                        /\ request[k].call = l[at(k)].call
                        /\ request[k].id = ToolUse(c, k + 1)
  BY <1>1, <1>4 DEF ModelMessage
<1>6. \A k \in 1 .. N : Role[l[at(k)].type] = "tool" <=> l[at(k)].type = "tool_result"
  BY <1>3, ConversationIs
<1> DEFINE Answers(i) == /\ i + 1 \in DOMAIN request
                         /\ request[i + 1].role = "tool"
                         /\ request[i + 1].id = request[i].id
<1> HIDE DEF c, request, at, N
\* Call and result bear one id because the call takes the result's.
<1>7. ASSUME NEW k \in 1 .. N, k + 1 \in 1 .. N, l[at(k)].call,
             l[at(k + 1)].type = "tool_result"
      PROVE  Answers(k)
  <2>1. c[k + 1].toolCall /\ c[k + 1].role = "assistant"
    <3>1. l[at(k)].type = "assistant_message"
      BY <1>3, <1>7 DEF CallsAreSpoken
    <3> QED
      BY <1>4, <1>7, <3>1, RoleIs
  <2>2. c[(k + 1) + 1].role = "tool"
    BY <1>4, <1>7, RoleIs
  <2>3. k + 1 < Len(c)
    BY <1>1, <1>7
  <2>4. ToolUse(c, k + 1) = <<"key", c[(k + 1) + 1].idemKey>>
    BY <2>1, <2>2, <2>3, ToolUseIs DEF CallId
  <2>5. ToolUse(c, (k + 1) + 1) = <<"key", c[(k + 1) + 1].idemKey>>
    BY <2>2, ToolUseIs
  <2>6. request[k + 1].role = "tool" /\ request[k + 1].id = request[k].id
    BY <1>4, <1>5, <1>7, <2>2, <2>4, <2>5
  <2> QED
    BY <1>1, <1>7, <2>6
<1>8. ASSUME NEW i \in 1 .. N, request[i].role = "tool"
      PROVE  i > 1 /\ request[i - 1].call /\ Answers(i - 1)
  <2>1. l[at(i)].type = "tool_result" /\ at(i) \in DOMAIN l /\ at(i) \in S
    BY <1>2, <1>3, <1>5, <1>6, <1>8
  <2>2. PICK k \in 1 .. at(i) - 1 : l[k].call /\ AnswerAt(l, k, at(i))
    BY <2>1 DEF ResultsAnswer
  <2>3. k \in DOMAIN l /\ k < at(i)
    BY <2>1, <2>2
  <2>4. k \in S
    <3>1. l[k].type = "assistant_message"
      BY <2>2, <2>3 DEF CallsAreSpoken
    <3> QED
      BY <2>3, <3>1, RoleIs DEF Said, IsConversation
  <2>5. \A x \in S : ~(k < x /\ x < at(i))
    <3> SUFFICES ASSUME NEW x \in S, k < x, x < at(i)
                 PROVE  FALSE
      OBVIOUS
    <3>1. x \in k + 1 .. at(i) - 1
      BY <1>1, <2>1, <2>3
    <3>2. IsConversation(l[x])
      BY DEF Said
    <3> QED
      BY <2>2, <3>1, <3>2 DEF AnswerAt, Quiet
  <2>6. Place(S, at(i)) = Place(S, k) + 1
    BY <1>1, <2>1, <2>3, <2>4, <2>5, NthNext
  <2>7. Place(S, k) \in 1 .. N /\ at(Place(S, k)) = k
    BY <1>1, <2>4, NthPlace DEF N, at
  <2>8. i = Place(S, k) + 1
    BY <1>2, <2>6
  <2>9. i > 1 /\ i - 1 = Place(S, k) /\ i - 1 \in 1 .. N /\ (i - 1) + 1 = i
    BY <1>1, <2>7, <2>8
  <2>10. request[i - 1].call /\ l[at(i - 1)].call
    BY <1>5, <2>2, <2>7, <2>9
  <2>11. Answers(i - 1)
    <3> HIDE DEF Answers
    <3> QED
      BY <1>7, <2>1, <2>9, <2>10
  <2> QED
    BY <2>9, <2>10, <2>11
<1>9. ASSUME NEW i \in 1 .. N, request[i].call
      PROVE  Answers(i) \/ Abandoned(l, Nth(Said(l), i))
  <2>1. l[at(i)].call /\ at(i) \in DOMAIN l /\ at(i) \in S
    BY <1>2, <1>3, <1>5, <1>9
  <2>2. CASE Abandoned(l, at(i))
    BY <2>2 DEF at
  <2>3. CASE \E j \in at(i) + 1 .. Len(l) : AnswerAt(l, at(i), j)
    <3>1. PICK j \in at(i) + 1 .. Len(l) : AnswerAt(l, at(i), j)
      BY <2>3
    <3>2. j \in DOMAIN l /\ at(i) < j /\ l[j].type = "tool_result"
      BY <2>1, <3>1 DEF AnswerAt
    <3>3. j \in S
      BY <3>2, RoleIs DEF Said, IsConversation
    <3>4. \A x \in S : ~(at(i) < x /\ x < j)
      <4> SUFFICES ASSUME NEW x \in S, at(i) < x, x < j
                   PROVE  FALSE
        OBVIOUS
      <4>1. x \in at(i) + 1 .. j - 1
        BY <1>1, <2>1, <3>2
      <4>2. IsConversation(l[x])
        BY DEF Said
      <4> QED
        BY <3>1, <4>1, <4>2 DEF AnswerAt, Quiet
    <3>5. Place(S, j) = Place(S, at(i)) + 1
      <4> DEFINE x == at(i)
      <4>1. x \in S /\ x < j /\ \A y \in S : ~(x < y /\ y < j)
        BY <2>1, <3>2, <3>4
      <4> HIDE DEF x, S
      <4>2. Place(S, j) = Place(S, x) + 1
        BY <1>1, <3>3, <4>1, NthNext
      <4> QED
        BY <4>2 DEF x
    <3>6. i + 1 \in 1 .. N /\ at(i + 1) = j
      <4>1. Place(S, j) \in 1 .. Cardinality(S) /\ Nth(S, Place(S, j)) = j
        BY <1>1, <3>3, NthPlace
      <4>2. Place(S, j) = i + 1
        BY <1>2, <3>5
      <4> QED
        BY <4>1, <4>2 DEF N, at
    <3>7. Answers(i)
      <4> HIDE DEF Answers
      <4> QED
        BY <1>7, <2>1, <3>2, <3>6
    <3> QED
      BY <3>7
  <2> QED
    BY <2>1, <2>2, <2>3
<1> QED
  BY <1>1, <1>8, <1>9 DEF WellAnswered, request, c, N

-----------------------------------------------------------------------------
(* A turn under way.  Once the model has spoken, a turn that has not ended  *)
(* keeps its job, wherever the session began: what a slot gives up with no  *)
(* terminal event is a job that has attempts left, or a session that is     *)
(* gone.  And nothing is said before the session is ready.                  *)

Begun(l) == Open(l) /\ LastUser(l) < LastAssistant(l)

Unspoken(l) ==
  \A i \in DOMAIN l : l[i].type # "assistant_message" /\ ~IsTerminal(l[i])

Gone(status) == status \in {"archived", "failed"}

\* Why a handler may return what it returns.
ReturnFits(outcome, events, status, attempts) ==
  \/ ~Begun(events)
  \/ outcome = "abandoned" /\ Gone(status)
  \/ outcome = "retry_later" /\ attempts < MaxAttempts

\* What a slot r holds, when it is a turn that it drives.
TurnFits(r, events, status, queue) ==
  /\ r.pc \in InTurnPc => r.mem = events
  /\ r.job # 0 /\ r.pc \notin {"idle", "settle"} /\ ~r.last
       => queue[r.job].attempts < MaxAttempts
  /\ r.job # 0 /\ r.pc = "settle"
       => ReturnFits(r.outcome, events, status, queue[r.job].attempts)

\* Somebody is, or may yet be, at the sandbox's creation.
MayProvision ==
  session.status = "provisioning" \/ \E s \in Slots : slots[s].pc \in ProvisionPc

BeginInv ==
  /\ \A s \in Slots : TurnFits(slots[s], log, session.status, jobs)
  /\ Begun(log) => HasActiveTurn \/ Gone(session.status)
  /\ MayProvision => Unspoken(log)

LEMMA EventsAre ==
  /\ \A call : Assistant(call).type = "assistant_message"
  /\ \A key : /\ ToolResult(key).type = "tool_result" /\ ToolResult(key).key = key
              /\ ~ToolResult(key).call
  /\ \A class : /\ TurnFailed(class).type = "turn_failed"
                /\ TurnFailed(class).class = class /\ ~TurnFailed(class).call
  /\ TurnCompleted.type = "turn_completed" /\ ~TurnCompleted.call
  /\ UserMessage.type = "user_message" /\ ~UserMessage.call
BY DEF Assistant, ToolResult, TurnFailed, TurnCompleted, UserMessage, Bare

LEMMA LongerIs ==
  ASSUME NEW l \in Seq(Event), NEW e \in Event
  PROVE  /\ Append(l, e) \in Seq(Event) /\ Len(l) \in Nat
         /\ Len(Append(l, e)) = Len(l) + 1
         /\ DOMAIN l = 1 .. Len(l) /\ DOMAIN Append(l, e) = 1 .. Len(l) + 1
         /\ Append(l, e)[Len(l) + 1] = e
         /\ \A i \in 1 .. Len(l) : Append(l, e)[i] = l[i]
OBVIOUS

\* Nothing is under way in a log nobody has spoken in, or the user spoke last in.
LEMMA NotBegun ==
  ASSUME NEW l \in Seq(Event)
  PROVE  /\ Unspoken(l) => ~Begun(l)
         /\ Unspoken(l) =>
              \A e \in Event : e.type # "assistant_message" => ~Begun(Append(l, e))
         /\ ~Begun(Append(l, UserMessage))
<1>1. Unspoken(l) => LastAssistant(l) = 0
  BY LastOfMissing DEF Unspoken, LastAssistant
<1>2. ASSUME NEW e \in Event
      PROVE  LastUser(Append(l, e)) \in Nat
  <2>1. Append(l, e) \in Seq(Event)
    OBVIOUS
  <2> QED
    BY <2>1, LastOfNat DEF LastUser
<1>3. LastUser(l) \in Nat /\ LastAssistant(l) \in 0 .. Len(l) /\ Len(l) \in Nat
  BY LastOfNat, LastOfBound DEF LastUser, LastAssistant
<1>4. Unspoken(l) => ~Begun(l)
  BY <1>1, <1>3 DEF Begun
<1>5. ASSUME Unspoken(l), NEW e \in Event, e.type # "assistant_message"
      PROVE  ~Begun(Append(l, e))
  <2>1. LastAssistant(Append(l, e)) = 0
    BY <1>1, <1>5, LastOfAppend DEF LastAssistant
  <2> QED
    BY <1>2, <2>1 DEF Begun
<1>6. ~Begun(Append(l, UserMessage))
  <2>1. LastUser(Append(l, UserMessage)) = Len(l) + 1
    BY LastOfAppend, EventTypes, EventsAre DEF LastUser
  <2>2. LastAssistant(Append(l, UserMessage)) = LastAssistant(l)
    BY LastOfAppend, EventTypes, EventsAre DEF LastAssistant
  <2> QED
    BY <1>3, <2>1, <2>2 DEF Begun
<1> QED
  BY <1>4, <1>5, <1>6

LEMMA BeginInit == Init => BeginInv
<1> SUFFICES ASSUME Init
             PROVE  BeginInv
  OBVIOUS
<1>1. \A s \in Slots : slots[s].pc = "idle"
  BY DEF Init, Idle
<1>2. \A s \in Slots : TurnFits(slots[s], log, session.status, jobs)
  BY <1>1 DEF TurnFits, InTurnPc
<1>3. log \in Seq(Event)
  BY TypeInit DEF TypeOK
<1>4. \A i \in DOMAIN log : log[i] = Provisioned
  BY DEF Init
<1>5. Unspoken(log)
  BY <1>4 DEF Unspoken, Provisioned, Bare, IsTerminal
<1> QED
  BY <1>2, <1>3, <1>5, NotBegun DEF BeginInv

\* A slot with a turn's job is the only one: the others provision or are idle.
LEMMA OthersOut ==
  ASSUME IInv, HeldInv, NEW s \in Slots, Busy(s), slots[s].job # 0
  PROVE  /\ HasActiveTurn /\ slots[s].job \in JobId \ {0}
         /\ jobs[slots[s].job].state = "running" /\ jobs[slots[s].job].lease
         /\ \A t \in Slots \ {s} : /\ slots[t].pc = "idle" \/ slots[t].job = 0
                                   /\ slots[t].pc \notin InTurnPc
<1>1. \A t \in Slots : Busy(t) => /\ slots[t].job \in JobId
                                  /\ jobs[slots[t].job].state = "running"
                                  /\ jobs[slots[t].job].lease
  BY SlotTypes DEF IInv, HeldInv, OneHolder
<1>2. slots[s].job \in JobId \ {0} /\ HasActiveTurn
  BY <1>1 DEF HasActiveTurn
<1>3. ASSUME NEW t \in Slots \ {s}, slots[t].pc # "idle", slots[t].job # 0
      PROVE  FALSE
  <2>1. Busy(t) /\ Active(slots[t].job) /\ Active(slots[s].job)
    BY <1>1, <1>3 DEF Busy, Active
  <2>2. slots[t].job = slots[s].job
    BY <1>1, <1>2, <1>3, <2>1 DEF HeldInv, OneActive
  <2> QED
    BY <2>1, <2>2 DEF HeldInv, OneHolder
<1>4. \A t \in Slots \ {s} : slots[t].pc \notin InTurnPc
  BY <1>3 DEF IInv, SlotFollowsLog, InTurnPc
<1> QED
  BY <1>1, <1>2, <1>3, <1>4

\* A step of that slot.  Behind its gate it may write: nobody provisions then.
LEMMA BeginBySlot ==
  ASSUME IInv, HeldInv, ProvisionInv, BeginInv, NEW s \in Slots, NEW r, Busy(s),
         slots[s].job # 0, slots' = [slots EXCEPT ![s] = r], UNCHANGED jobs,
         session'.status = session.status, log' = log \/ slots[s].pc \in TurnPc,
         r.pc \notin ProvisionPc, TurnFits(r, log', session.status, jobs)
  PROVE  BeginInv'
<1>1. /\ slots'[s] = r /\ \A t \in Slots \ {s} : slots'[t] = slots[t]
      /\ \A t \in Slots \ {s} : /\ slots[t].pc = "idle" \/ slots[t].job = 0
                                /\ slots[t].pc \notin InTurnPc
  BY OthersOut DEF IInv, TypeOK
<1>2. \A t \in Slots \ {s} : TurnFits(slots'[t], log', session.status, jobs)
  BY <1>1 DEF TurnFits
<1>3. \A t \in Slots : TurnFits(slots'[t], log', session'.status, jobs')
  BY <1>1, <1>2
<1>4. HasActiveTurn'
  BY OthersOut DEF HasActiveTurn
<1>5. MayProvision' => MayProvision
  BY <1>1 DEF MayProvision
<1>6. slots[s].pc \in TurnPc => ~MayProvision
  <2> SUFFICES ASSUME slots[s].pc \in TurnPc
               PROVE  ~MayProvision
    OBVIOUS
  <2>1. Times(log) = 1
    BY DEF ProvisionInv, ProvisionFits
  <2> QED
    BY <2>1 DEF ProvisionInv, ProvisionFits, MayProvision
<1>7. (MayProvision => Unspoken(log))'
  BY <1>5, <1>6 DEF BeginInv
<1> QED
  BY <1>3, <1>4, <1>7 DEF BeginInv

LEMMA BeginByReturn ==
  ASSUME IInv, HeldInv, ProvisionInv, BeginInv, NEW s \in Slots, Busy(s),
         slots[s].job # 0, UNCHANGED jobs, session'.status = session.status,
         log' = log \/ slots[s].pc \in TurnPc,
         NEW outcome, Return(s, outcome),
         ReturnFits(outcome, log', session.status, jobs[slots[s].job].attempts)
  PROVE  BeginInv'
<1> DEFINE r == [Idle EXCEPT !.pc = "settle", !.job = slots[s].job,
                             !.outcome = outcome]
<1>1. slots' = [slots EXCEPT ![s] = r]
  BY DEF Return
<1>2. r.pc = "settle" /\ r.job = slots[s].job /\ r.outcome = outcome
  BY DEF Idle
<1> HIDE DEF r
<1>3. r.pc \notin ProvisionPc /\ TurnFits(r, log', session.status, jobs)
  BY <1>2 DEF TurnFits, InTurnPc, ProvisionPc
<1> QED
  BY <1>1, <1>3, BeginBySlot

\* A step within the turn: the slot's memory stays the log.
LEMMA BeginByTurn ==
  ASSUME IInv, HeldInv, ProvisionInv, BeginInv, NEW s \in Slots, NEW r, UNCHANGED jobs,
         slots' = [slots EXCEPT ![s] = r], session'.status = session.status,
         slots[s].pc \in TurnPc, r.pc \in TurnPc,
         r.job = slots[s].job, r.last = slots[s].last, r.pc # "read" => r.mem = log'
  PROVE  BeginInv'
<1>1. /\ Busy(s) /\ slots[s].job # 0 /\ TurnFits(slots[s], log, session.status, jobs)
  BY DEF Busy, TurnPc, InTurnPc, BeginInv, IInv, SlotFollowsLog
<1>2. ~slots[s].last => jobs[slots[s].job].attempts < MaxAttempts
  BY <1>1 DEF TurnFits, TurnPc
<1>3. TurnFits(r, log', session.status, jobs) /\ r.pc \notin ProvisionPc
  BY <1>2 DEF TurnFits, TurnPc, InTurnPc, ProvisionPc
<1> QED
  BY <1>1, <1>3, BeginBySlot

LEMMA BeginByMapError ==
  ASSUME IInv, HeldInv, ProvisionInv, BeginInv, NEW s \in Slots,
         UNCHANGED <<jobs, log>>,
         session'.status = session.status, slots[s].pc \in {"act", "tail", "reboot"},
         NEW class, MapError(s, class)
  PROVE  BeginInv'
<1>1. /\ Busy(s) /\ slots[s].job # 0 /\ TurnFits(slots[s], log, session.status, jobs)
      /\ slots[s] \in Slot /\ slots \in [Slots -> Slot]
  BY DEF Busy, InTurnPc, BeginInv, IInv, SlotFollowsLog, TypeOK
<1>2. CASE slots[s].last
  <2> DEFINE r == [slots[s] EXCEPT !.pc = "fail", !.class = class]
  <2>1. slots' = [slots EXCEPT ![s] = r]
    BY <1>1, <1>2 DEF MapError
  <2>2. /\ r.pc = "fail" /\ r.job = slots[s].job /\ r.last = slots[s].last
        /\ r.mem = slots[s].mem
    BY <1>1 DEF Slot
  <2>3. slots[s].mem = log
    BY <1>1 DEF TurnFits, InTurnPc
  <2> HIDE DEF r
  <2> QED
    BY <1>1, <2>1, <2>2, <2>3, BeginByTurn DEF TurnPc
<1>3. CASE ~slots[s].last
  <2>1. ReturnFits("retry_later", log', session.status, jobs[slots[s].job].attempts)
    BY <1>1, <1>3 DEF TurnFits, ReturnFits
  <2> QED
    BY <1>1, <1>3, <2>1, BeginByReturn DEF MapError
<1> QED
  BY <1>2, <1>3

\* The driver's seq is free: its memory is the log.
LEMMA BeginByLoop ==
  ASSUME IInv, HeldInv, ProvisionInv, BeginInv, NEW s \in Slots,
         UNCHANGED <<jobs, session>>,
         slots[s].pc \in {"act", "tail"}, NEW e \in Event, AppendAndLoop(s, e)
  PROVE  BeginInv'
<1>1. /\ slots[s] \in Slot /\ slots \in [Slots -> Slot] /\ log \in Seq(Event)
      /\ slots[s].mem = log
  BY DEF BeginInv, TurnFits, InTurnPc, IInv, TypeOK
<1>2. ~SeqTaken(s)
  BY <1>1 DEF SeqTaken
<1> DEFINE r == [slots[s] EXCEPT !.pc = "act", !.rebooted = FALSE,
                                 !.mem = Append(slots[s].mem, e)]
<1>3. slots' = [slots EXCEPT ![s] = r] /\ log' = Append(log, e)
  BY <1>1, <1>2 DEF AppendAndLoop
<1>4. /\ r.pc = "act" /\ r.job = slots[s].job /\ r.last = slots[s].last
      /\ r.mem = Append(log, e)
  BY <1>1 DEF Slot
<1> HIDE DEF r
<1> QED
  BY <1>3, <1>4, BeginByTurn DEF TurnPc

LEMMA BeginByTerminal ==
  ASSUME IInv, HeldInv, ProvisionInv, BeginInv, NEW s \in Slots,
         UNCHANGED <<jobs, session>>,
         slots[s].pc \in {"act", "fail"}, NEW e \in Event, IsTerminal(e),
         NEW outcome, AppendAndReturn(s, e, outcome)
  PROVE  BeginInv'
<1>1. /\ log \in Seq(Event) /\ Busy(s) /\ slots[s].job # 0 /\ slots[s].mem = log
      /\ slots[s].pc \in TurnPc
  BY DEF BeginInv, TurnFits, InTurnPc, IInv, SlotFollowsLog, TypeOK, Busy, TurnPc
<1>2. ~SeqTaken(s)
  BY <1>1 DEF SeqTaken
<1>3. log' = Append(log, e) /\ Return(s, outcome)
  BY <1>2 DEF AppendAndReturn
<1>4. ReturnFits(outcome, log', session.status, jobs[slots[s].job].attempts)
  BY <1>1, <1>3, AppendCloses DEF ReturnFits, Begun
<1> QED
  BY <1>1, <1>3, <1>4, BeginByReturn

LEMMA BeginByTurnStep ==
  ASSUME IInv, HeldInv, ProvisionInv, BeginInv, NEW s \in Slots, TurnStep(s)
  PROVE  BeginInv'
<1>0. /\ slots[s] \in Slot /\ slots \in [Slots -> Slot] /\ log \in Seq(Event)
      /\ TurnFits(slots[s], log, session.status, jobs)
      /\ SlotFollowsLog(slots[s], log) /\ Busy(s) /\ UNCHANGED jobs
  BY TurnKeepsJob DEF IInv, TypeOK, BeginInv
<1>a. slots[s].pc \in InTurnPc \cup {"read"} => slots[s].job # 0 /\ slots[s].pc \in TurnPc
  BY <1>0 DEF SlotFollowsLog, InTurnPc, TurnPc
<1>b. slots[s].pc \in InTurnPc => slots[s].mem = log
  BY <1>0 DEF TurnFits
<1>1. CASE Gate(s)
  <2>0. session' = session /\ log' = log /\ slots[s].pc = "gate" /\ slots[s].job # 0
    BY <1>1 DEF Gate
  <2>1. CASE session.status = "ready"
    <3> DEFINE r == [slots[s] EXCEPT !.pc = "read", !.box = session.box]
    <3>1. slots' = [slots EXCEPT ![s] = r]
      BY <1>0, <1>1, <2>1 DEF Gate
    <3>2. r.pc = "read" /\ r.job = slots[s].job /\ r.last = slots[s].last
      BY <1>0 DEF Slot
    <3> HIDE DEF r
    <3>3. TurnFits(r, log', session.status, jobs) /\ r.pc \notin ProvisionPc
      BY <1>0, <2>0, <3>2 DEF TurnFits, InTurnPc, ProvisionPc
    <3> QED
      BY <1>0, <2>0, <3>1, <3>3, BeginBySlot
  <2>2. CASE session.status = "provisioning"
    <3>1. Return(s, "retry_later")
      BY <1>1, <2>2 DEF Gate
    <3>2. ~Begun(log')
      BY <1>0, <2>0, <2>2, NotBegun DEF BeginInv, MayProvision
    <3>3. ReturnFits("retry_later", log', session.status, jobs[slots[s].job].attempts)
      BY <3>2 DEF ReturnFits
    <3> QED
      BY <1>0, <2>0, <3>1, <3>3, BeginByReturn
  <2>3. CASE session.status \in {"failed", "archived"}
    <3>1. Return(s, "abandoned")
      BY <1>1, <2>3 DEF Gate
    <3>2. ReturnFits("abandoned", log', session.status, jobs[slots[s].job].attempts)
      BY <2>3 DEF ReturnFits, Gone
    <3> QED
      BY <1>0, <2>0, <3>1, <3>2, BeginByReturn
  <2> QED
    BY <2>1, <2>2, <2>3 DEF IInv, TypeOK, Status
<1>2. CASE ReadEvents(s)
  <2> DEFINE r == [slots[s] EXCEPT !.pc = "act", !.mem = log]
  <2>1. slots' = [slots EXCEPT ![s] = r]
    BY <1>0, <1>2 DEF ReadEvents
  <2>2. r.pc = "act" /\ r.job = slots[s].job /\ r.last = slots[s].last /\ r.mem = log
    BY <1>0 DEF Slot
  <2> HIDE DEF r
  <2> QED
    BY <1>0, <1>2, <2>1, <2>2, BeginByTurn DEF ReadEvents, TurnPc
<1>3. CASE Infer(s)
  BY <1>3, EventTypes, BeginByLoop DEF Infer, At
<1>4. CASE Noop(s)
  <2>1. /\ slots[s].pc = "act" /\ NextStep(s) = "noop" /\ log' = log
        /\ session' = session /\ Return(s, "completed")
    BY <1>4 DEF Noop, At
  <2>2. slots[s].mem = log /\ slots[s].job # 0
    BY <1>a, <1>b, <2>1 DEF InTurnPc
  <2>3. IsTerminal(log[Len(log)])
    BY <2>1, <2>2 DEF NextStep, NextAction
  <2>4. log # <<>>
    BY <1>0, <2>1, <2>2 DEF SlotFollowsLog, HasMessage, InTurnPc
  <2>5. ReturnFits("completed", log', session.status, jobs[slots[s].job].attempts)
    BY <1>0, <2>1, <2>3, <2>4, TerminalCloses DEF ReturnFits, Begun
  <2> QED
    BY <1>0, <2>1, <2>2, <2>5, BeginByReturn
<1>5. CASE Finish(s)
  BY <1>0, <1>5, EventTypes, TerminalEvents, BeginByTerminal DEF Finish, At
<1>6. CASE ExhaustBudget(s)
  BY <1>0, <1>6, EventTypes, TerminalEvents, BeginByTerminal
  DEF ExhaustBudget, At, ErrorClass
<1>7. CASE LlmFails(s)
  <2> DEFINE r == [slots[s] EXCEPT !.pc = "fail", !.class = "LLM_PERMANENT"]
  <2>1. log' = log /\ session' = session /\ slots[s].pc = "act"
    BY <1>7 DEF LlmFails, At
  <2>2. /\ r.pc = "fail" /\ r.job = slots[s].job /\ r.last = slots[s].last
        /\ r.mem = slots[s].mem
    BY <1>0 DEF Slot
  <2>3. slots' = [slots EXCEPT ![s] = r] \/ MapError(s, "INTERNAL")
    BY <1>0, <1>7 DEF LlmFails
  <2>4. slots[s].mem = log
    BY <1>b, <2>1 DEF InTurnPc
  <2> HIDE DEF r
  <2> QED
    BY <1>0, <2>1, <2>2, <2>3, <2>4, BeginByTurn, BeginByMapError DEF TurnPc
<1>8. CASE StartExec(s)
  <2> DEFINE r == [slots[s] EXCEPT !.pc = "tail"]
  <2>1. /\ slots' = [slots EXCEPT ![s] = r] /\ slots[s].pc = "act"
        /\ log' = log /\ session' = session
    BY <1>0, <1>8 DEF StartExec, Goto, At
  <2>2. /\ r.pc = "tail" /\ r.job = slots[s].job /\ r.last = slots[s].last
        /\ r.mem = slots[s].mem
    BY <1>0 DEF Slot
  <2>3. slots[s].mem = log
    BY <1>b, <2>1 DEF InTurnPc
  <2> HIDE DEF r
  <2> QED
    BY <1>0, <2>1, <2>2, <2>3, BeginByTurn DEF TurnPc
<1>9. CASE Collect(s)
  BY <1>9, EventTypes, KeyNat, BeginByLoop DEF Collect, IInv
<1>10. CASE ExecFails(s)
  <2>1. /\ slots[s].pc \in {"act", "tail"} /\ log' = log /\ session' = session
    BY <1>10 DEF ExecFails, At
  <2>2. CASE Goto(s, "reboot")
    <3> DEFINE r == [slots[s] EXCEPT !.pc = "reboot"]
    <3>1. slots' = [slots EXCEPT ![s] = r]
      BY <1>0, <2>2 DEF Goto
    <3>2. /\ r.pc = "reboot" /\ r.job = slots[s].job /\ r.last = slots[s].last
          /\ r.mem = slots[s].mem
      BY <1>0 DEF Slot
    <3>3. slots[s].mem = log
      BY <1>b, <2>1 DEF InTurnPc
    <3> HIDE DEF r
    <3> QED
      BY <1>0, <2>1, <3>1, <3>2, <3>3, BeginByTurn DEF TurnPc
  <2> QED
    BY <1>0, <1>10, <2>1, <2>2, BeginByMapError DEF ExecFails
<1>11. CASE Reboot(s)
  <2> DEFINE r == [slots[s] EXCEPT !.pc = "act", !.rebooted = TRUE]
  <2>1. /\ slots' = [slots EXCEPT ![s] = r] /\ slots[s].pc = "reboot" /\ log' = log
        /\ session'.status = session.status
    BY <1>0, <1>11 DEF Reboot, IInv, TypeOK
  <2>2. /\ r.pc = "act" /\ r.job = slots[s].job /\ r.last = slots[s].last
        /\ r.mem = slots[s].mem
    BY <1>0 DEF Slot
  <2>3. slots[s].mem = log
    BY <1>b, <2>1 DEF InTurnPc
  <2> HIDE DEF r
  <2> QED
    BY <1>0, <2>1, <2>2, <2>3, BeginByTurn DEF TurnPc
<1>12. CASE RebootFails(s)
  BY <1>0, <1>12, BeginByMapError DEF RebootFails
<1>13. CASE RecordFailure(s)
  <2>1. slots[s].class \in ErrorClass \cup {"none"}
    BY <1>0 DEF Slot
  <2> QED
    BY <1>0, <1>13, <2>1, EventTypes, TerminalEvents, BeginByTerminal DEF RecordFailure
<1> QED
  BY <1>1, <1>2, <1>3, <1>4, <1>5, <1>6, <1>7, <1>8, <1>9, <1>10, <1>11, <1>12,
     <1>13 DEF TurnStep

\* A step of a slot that provisions, writes to the log excepted.
LEMMA BeginByProvision ==
  ASSUME IInv, BeginInv, NEW s \in Slots, NEW r, UNCHANGED <<jobs, session, log>>,
         slots' = [slots EXCEPT ![s] = r], r.job = 0, r.pc \notin InTurnPc,
         r.pc \in ProvisionPc => MayProvision
  PROVE  BeginInv'
<1>1. slots'[s] = r /\ \A t \in Slots \ {s} : slots'[t] = slots[t]
  BY DEF IInv, TypeOK
<1>2. \A t \in Slots : TurnFits(slots'[t], log, session.status, jobs)
  <2>1. TurnFits(r, log, session.status, jobs)
    BY DEF TurnFits
  <2> QED
    BY <1>1, <2>1 DEF BeginInv
<1>3. MayProvision' => MayProvision
  BY <1>1 DEF MayProvision
<1> QED
  BY <1>2, <1>3 DEF BeginInv, HasActiveTurn

\* The transaction that ends the provisioning finds a log nobody has spoken in.
LEMMA BeginByWrites ==
  ASSUME IInv, HeldInv, ProvisionInv, BeginInv, NEW s \in Slots,
         slots[s].pc = "commit", ProvisionWrites(s), UNCHANGED jobs,
         NEW outcome, Return(s, outcome)
  PROVE  BeginInv'
<1>1. /\ log \in Seq(Event) /\ slots \in [Slots -> Slot]
      /\ session \in [status : Status, box : Nat, archived : BOOLEAN]
      /\ \A t \in Slots \ {s} : slots[t].pc \notin ProvisionPc \cup TurnPc
  BY ProvisionerIsAlone DEF IInv, TypeOK, ProvisionPc
<1>2. Unspoken(log)
  BY DEF BeginInv, MayProvision, ProvisionPc
<1>3. \E e \in {Provisioned, TurnFailed("SANDBOX_FATAL")} : log' = Append(log, e)
  BY DEF ProvisionWrites
<1>4. session'.status \in {"ready", "failed"}
  BY <1>1 DEF ProvisionWrites
<1>5. \A e \in {Provisioned, TurnFailed("SANDBOX_FATAL")} :
        e \in Event /\ e.type # "assistant_message"
  <2>1. Provisioned.type = "session_provisioned"
    BY DEF Provisioned, Bare
  <2>2. TurnFailed("SANDBOX_FATAL").type = "turn_failed"
    BY EventsAre
  <2>3. Provisioned \in Event /\ TurnFailed("SANDBOX_FATAL") \in Event
    BY EventTypes DEF ErrorClass
  <2> QED
    BY <2>1, <2>2, <2>3
<1>6. ~Begun(log')
  BY <1>1, <1>2, <1>3, <1>5, NotBegun
<1> DEFINE r == [Idle EXCEPT !.pc = "settle", !.job = slots[s].job,
                             !.outcome = outcome]
<1>7. slots' = [slots EXCEPT ![s] = r] /\ r.pc = "settle"
  BY DEF Return, Idle
<1> HIDE DEF r
<1>8. \A t \in Slots : slots'[t].pc \notin ProvisionPc \cup InTurnPc
  BY <1>1, <1>7 DEF ProvisionPc, TurnPc, InTurnPc
<1>9. \A t \in Slots : TurnFits(slots'[t], log', session'.status, jobs')
  <2>1. TurnFits(r, log', session'.status, jobs')
    BY <1>6, <1>7 DEF TurnFits, ReturnFits, InTurnPc
  <2>2. ASSUME NEW t \in Slots \ {s}
        PROVE  TurnFits(slots[t], log', session'.status, jobs')
    <3>1. slots[t].pc \notin InTurnPc /\ TurnFits(slots[t], log, session.status, jobs)
      BY <1>1 DEF BeginInv, InTurnPc, TurnPc
    <3> QED
      BY <1>6, <3>1 DEF TurnFits, ReturnFits
  <2>3. slots'[s] = r /\ \A t \in Slots \ {s} : slots'[t] = slots[t]
    BY <1>1, <1>7
  <2> QED
    BY <2>1, <2>2, <2>3
<1>10. ~MayProvision'
  BY <1>4, <1>8 DEF MayProvision
<1> QED
  BY <1>6, <1>9, <1>10 DEF BeginInv

LEMMA BeginByProvisionStep ==
  ASSUME IInv, HeldInv, ProvisionInv, BeginInv, NEW s \in Slots, ProvisionStep(s)
  PROVE  BeginInv'
<1>0. /\ slots[s] \in Slot /\ slots \in [Slots -> Slot] /\ UNCHANGED jobs
      /\ ProvisionFits(slots[s], session, Times(log))
  BY ProvisionKeepsJob DEF IInv, TypeOK, ProvisionInv
<1>1. slots[s].job = 0
  BY <1>0 DEF ProvisionStep, ProvisionGate, CreateBox, CreateBoxFails, OpenTx, CommitTx,
              ProvisionFits, ProvisionPc
<1>2. slots[s].pc \in ProvisionPc => MayProvision
  BY DEF MayProvision
<1>3. ASSUME NEW outcome, Return(s, outcome), UNCHANGED <<session, log>>
      PROVE  BeginInv'
  <2> DEFINE r == [Idle EXCEPT !.pc = "settle", !.job = slots[s].job,
                               !.outcome = outcome]
  <2>1. slots' = [slots EXCEPT ![s] = r] /\ r.pc = "settle" /\ r.job = 0
    BY <1>1, <1>3 DEF Return, Idle
  <2> HIDE DEF r
  <2> QED
    BY <1>0, <1>3, <2>1, BeginByProvision DEF InTurnPc, ProvisionPc
<1>4. ASSUME NEW r, slots' = [slots EXCEPT ![s] = r], r.job = slots[s].job,
             r.pc \in ProvisionPc, MayProvision, UNCHANGED <<session, log>>
      PROVE  BeginInv'
  BY <1>0, <1>1, <1>4, BeginByProvision DEF InTurnPc, ProvisionPc
<1>5. CASE ProvisionGate(s)
  <2>1. CASE session.status # "provisioning"
    BY <1>3, <1>5, <2>1 DEF ProvisionGate
  <2>2. CASE session.status = "provisioning"
    <3> DEFINE r == [slots[s] EXCEPT !.pc = "box"]
    <3>1. slots' = [slots EXCEPT ![s] = r] /\ UNCHANGED <<session, log>>
      BY <1>0, <1>5, <2>2 DEF ProvisionGate, Goto
    <3>2. r.job = slots[s].job /\ r.pc = "box"
      BY <1>0 DEF Slot
    <3> HIDE DEF r
    <3> QED
      BY <1>4, <2>2, <3>1, <3>2 DEF MayProvision, ProvisionPc
  <2> QED
    BY <2>1, <2>2
<1>6. CASE CreateBox(s)
  <2> DEFINE r == [slots[s] EXCEPT !.pc = "open", !.goal = "ready", !.box = boxes']
  <2>1. /\ slots' = [slots EXCEPT ![s] = r] /\ slots[s].pc = "box"
        /\ UNCHANGED <<session, log>>
    BY <1>0, <1>6 DEF CreateBox
  <2>2. r.job = slots[s].job /\ r.pc = "open"
    BY <1>0 DEF Slot
  <2> HIDE DEF r
  <2> QED
    BY <1>2, <1>4, <2>1, <2>2 DEF ProvisionPc
<1>7. CASE CreateBoxFails(s)
  <2>1. CASE slots[s].last
    <3> DEFINE r == [slots[s] EXCEPT !.pc = "open", !.goal = "failed"]
    <3>1. /\ slots' = [slots EXCEPT ![s] = r] /\ slots[s].pc = "box"
          /\ UNCHANGED <<session, log>>
      BY <1>0, <1>7, <2>1 DEF CreateBoxFails, GiveUpProvision
    <3>2. r.job = slots[s].job /\ r.pc = "open"
      BY <1>0 DEF Slot
    <3> HIDE DEF r
    <3> QED
      BY <1>2, <1>4, <3>1, <3>2 DEF ProvisionPc
  <2>2. CASE ~slots[s].last
    BY <1>3, <1>7, <2>2 DEF CreateBoxFails, GiveUpProvision
  <2> QED
    BY <2>1, <2>2
<1>8. CASE OpenTx(s)
  <2> DEFINE r == [slots[s] EXCEPT !.pc = "commit", !.seq = Len(log) + 1]
  <2>1. /\ slots' = [slots EXCEPT ![s] = r] /\ slots[s].pc = "open"
        /\ UNCHANGED <<session, log>>
    BY <1>0, <1>8 DEF OpenTx
  <2>2. r.job = slots[s].job /\ r.pc = "commit"
    BY <1>0 DEF Slot
  <2> HIDE DEF r
  <2> QED
    BY <1>2, <1>4, <2>1, <2>2 DEF ProvisionPc
<1>9. CASE CommitTx(s)
  <2>1. CASE ProvisionWrites(s)
    <3>1. slots[s].pc = "commit" /\ \E outcome : Return(s, outcome)
      BY <1>9 DEF CommitTx
    <3> QED
      BY <1>0, <2>1, <3>1, BeginByWrites
  <2>2. CASE ~ProvisionWrites(s)
    BY <1>3, <1>9, <2>2 DEF CommitTx
  <2> QED
    BY <2>1, <2>2
<1> QED
  BY <1>5, <1>6, <1>7, <1>8, <1>9 DEF ProvisionStep

LEMMA BeginByQueue ==
  ASSUME IInv, HeldInv, BeginInv, NEW s \in Slots, Pull(s) \/ Settle(s) \/ Crash(s)
  PROVE  BeginInv'
<1>0. /\ jobs \in [JobId -> JobRow] /\ slots \in [Slots -> Slot]
      /\ \A t \in Slots : slots[t].job \in JobId
  BY SlotTypes DEF IInv, TypeOK
<1>1. CASE Pull(s)
  <2>1. PICK j \in JobId :
          /\ ~Busy(s) /\ Claimable(j)
          /\ jobs' = [jobs EXCEPT ![j] = [state |-> "running", lease |-> TRUE,
                                          attempts |-> @.attempts + 1]]
          /\ slots' = [slots EXCEPT ![s] = [Idle EXCEPT !.pc = "gate", !.job = j,
                                                       !.last = LastAttempt(j)]]
          /\ UNCHANGED <<log, session>>
    BY <1>1 DEF Pull
  <2> DEFINE r == [Idle EXCEPT !.pc = "gate", !.job = j, !.last = LastAttempt(j)]
  <2>2. slots' = [slots EXCEPT ![s] = r] /\ r.pc = "gate" /\ r.job = j
        /\ r.last = LastAttempt(j)
    BY <2>1 DEF Idle
  <2> HIDE DEF r
  <2>3. /\ jobs'[j].attempts = jobs[j].attempts + 1 /\ jobs'[j].state = "running"
        /\ \A k \in JobId \ {j} : jobs'[k] = jobs[k]
    BY <1>0, <2>1
  <2>4. ~r.last => jobs'[j].attempts < MaxAttempts
    <3> SUFFICES ASSUME ~r.last
                 PROVE  jobs'[j].attempts < MaxAttempts
      OBVIOUS
    <3>1. ~LastAttempt(j)
      BY <2>2
    <3>2. jobs[j].attempts \in Nat
      BY <1>0 DEF JobRow
    <3>3. jobs[j].attempts + 1 < MaxAttempts
      BY <3>1, <3>2, RuntimeAssumption DEF LastAttempt
    <3> QED
      BY <2>3, <3>3
  <2>5. TurnFits(r, log, session.status, jobs')
    BY <2>2, <2>4 DEF TurnFits, InTurnPc
  <2>6. ASSUME NEW t \in Slots \ {s}
        PROVE  TurnFits(slots[t], log, session.status, jobs')
    <3>1. TurnFits(slots[t], log, session.status, jobs)
      BY DEF BeginInv
    <3>2. CASE Busy(t)
      <4>1. slots[t].job # j
        BY <2>1, <3>2 DEF Claimable, HeldInv, OneHolder
      <4>2. jobs'[slots[t].job] = jobs[slots[t].job]
        BY <1>0, <2>3, <4>1
      <4> QED
        BY <3>1, <4>2 DEF TurnFits
    <3>3. CASE ~Busy(t)
      BY <3>3 DEF TurnFits, InTurnPc, Busy
    <3> QED
      BY <3>2, <3>3
  <2>7. slots'[s] = r /\ \A t \in Slots \ {s} : slots'[t] = slots[t]
    BY <1>0, <2>2
  <2>8. \A t \in Slots : TurnFits(slots'[t], log, session.status, jobs')
    BY <2>5, <2>6, <2>7
  <2>9. HasActiveTurn => HasActiveTurn'
    BY <2>3 DEF HasActiveTurn
  <2>10. MayProvision' => MayProvision
    BY <2>1, <2>2, <2>7 DEF MayProvision, ProvisionPc
  <2> QED
    BY <2>1, <2>8, <2>9, <2>10 DEF BeginInv
<1>2. CASE Settle(s) \/ Crash(s)
  <2>1. /\ slots' = [slots EXCEPT ![s] = Idle] /\ UNCHANGED <<log, session>>
        /\ Busy(s) /\ Idle.pc = "idle"
    BY <1>2 DEF Settle, Crash, Busy, Idle
  <2>2. slots'[s] = Idle /\ \A t \in Slots \ {s} : slots'[t] = slots[t]
    BY <1>0, <2>1
  <2>3. MayProvision' => MayProvision
    BY <2>1, <2>2 DEF MayProvision, ProvisionPc
  <2>4. TurnFits(Idle, log, session.status, jobs')
    BY <2>1 DEF TurnFits, InTurnPc
  <2>5. CASE Crash(s)
    <3>1. jobs' = jobs
      BY <2>5 DEF Crash
    <3>2. \A t \in Slots : TurnFits(slots'[t], log, session.status, jobs')
      BY <2>2, <2>4, <3>1 DEF BeginInv
    <3> QED
      BY <2>1, <2>3, <3>1, <3>2 DEF BeginInv, HasActiveTurn
  <2>6. CASE Settle(s)
    <3> DEFINE k == slots[s].job
    <3>1. /\ k \in JobId /\ jobs[k].state = "running"
          /\ jobs' = Settled(s) /\ slots[s].pc = "settle"
      BY <1>0, <2>1, <2>6 DEF Settle, HeldInv, OneHolder
    <3>2. \A j \in JobId \ {k} : jobs'[j] = jobs[j]
      BY <1>0, <3>1 DEF Settled, Ack, Nack
    <3>3. ASSUME NEW t \in Slots \ {s}
          PROVE  TurnFits(slots[t], log, session.status, jobs')
      <4>1. TurnFits(slots[t], log, session.status, jobs)
        BY DEF BeginInv
      <4>2. CASE Busy(t)
        <5>1. slots[t].job # k
          BY <2>1, <4>2 DEF HeldInv, OneHolder
        <5>2. jobs'[slots[t].job] = jobs[slots[t].job]
          BY <1>0, <3>2, <5>1
        <5> QED
          BY <4>1, <5>2 DEF TurnFits
      <4>3. CASE ~Busy(t)
        BY <4>3 DEF TurnFits, InTurnPc, Busy
      <4> QED
        BY <4>2, <4>3
    <3>4. \A t \in Slots : TurnFits(slots'[t], log, session.status, jobs')
      BY <2>2, <2>4, <3>3
    <3>5. Begun(log) => HasActiveTurn' \/ Gone(session.status)
      <4> SUFFICES ASSUME Begun(log), ~Gone(session.status)
                   PROVE  HasActiveTurn'
        OBVIOUS
      <4>1. CASE k = 0
        <5>1. HasActiveTurn
          BY DEF BeginInv
        <5> QED
          BY <3>2, <4>1, <5>1 DEF HasActiveTurn
      <4>2. CASE k # 0
        <5>1. ReturnFits(slots[s].outcome, log, session.status, jobs[k].attempts)
          BY <3>1, <4>2 DEF BeginInv, TurnFits
        <5>2. slots[s].outcome = "retry_later" /\ jobs[k].attempts < MaxAttempts
          BY <5>1 DEF ReturnFits
        <5>3. jobs' = Nack(k)
          BY <3>1, <5>2 DEF Settled
        <5>4. ~(jobs[k].attempts >= MaxAttempts)
          BY <1>0, <3>1, <5>2, RuntimeAssumption DEF JobRow
        <5>5. jobs'[k].state = "queued"
          BY <1>0, <3>1, <5>3, <5>4 DEF Nack
        <5> QED
          BY <3>1, <4>2, <5>5 DEF HasActiveTurn
      <4> QED
        BY <4>1, <4>2
    <3> QED
      BY <2>1, <2>3, <3>4, <3>5 DEF BeginInv
  <2> QED
    BY <1>2, <2>5, <2>6
<1> QED
  BY <1>1, <1>2

LEMMA BeginByOthers ==
  ASSUME IInv, HeldInv, BeginInv,
         \/ SendMessage \/ Archive \/ CommandExits \/ UNCHANGED vars
         \/ \E j \in JobId : ExpireLease(j)
         \/ \E s \in Slots : Heartbeat(s)
  PROVE  BeginInv'
<1>0. /\ jobs \in [JobId -> JobRow] /\ log \in Seq(Event)
      /\ session \in [status : Status, box : Nat, archived : BOOLEAN]
      /\ \A s \in Slots : slots[s].job \in JobId
  BY SlotTypes DEF IInv, TypeOK
<1>1. CASE SendMessage
  <2>1. log' = Append(log, UserMessage) /\ ~HasActiveTurn /\ UNCHANGED <<session, slots>>
    BY <1>1 DEF SendMessage
  <2>2. ~Begun(log')
    BY <1>0, <2>1, NotBegun
  <2>3. ASSUME NEW s \in Slots
        PROVE  TurnFits(slots'[s], log', session'.status, jobs')
    <3>1. slots[s].pc = "idle" \/ slots[s].job = 0
      BY <2>1, OthersOut DEF Busy
    <3>2. slots[s].pc \notin InTurnPc
      BY <3>1 DEF IInv, SlotFollowsLog, InTurnPc
    <3> QED
      BY <2>1, <3>1, <3>2 DEF TurnFits
  <2>4. (MayProvision => Unspoken(log))'
    <3>1. MayProvision' => Unspoken(log)
      BY <2>1 DEF BeginInv, MayProvision
    <3>2. ASSUME Unspoken(log)
          PROVE  Unspoken(log')
      <4>1. \A i \in DOMAIN log' : \/ i \in DOMAIN log /\ log'[i] = log[i]
                                   \/ log'[i] = UserMessage
        BY <1>0, <2>1, LongerIs, EventTypes
      <4>2. UserMessage.type # "assistant_message" /\ ~IsTerminal(UserMessage)
        BY EventsAre DEF IsTerminal
      <4> QED
        BY <3>2, <4>1, <4>2 DEF Unspoken
    <3> QED
      BY <3>1, <3>2
  <2> QED
    BY <2>2, <2>3, <2>4 DEF BeginInv
<1>2. CASE Archive
  <2>1. session'.status = "archived" /\ UNCHANGED <<log, slots, jobs>>
    BY <1>0, <1>2 DEF Archive
  <2>2. \A s \in Slots : TurnFits(slots[s], log, "archived", jobs)
    BY DEF BeginInv, TurnFits, ReturnFits, Gone
  <2>3. MayProvision' => MayProvision
    BY <2>1 DEF MayProvision
  <2> QED
    BY <2>1, <2>2, <2>3 DEF BeginInv, Gone
<1>3. CASE CommandExits \/ UNCHANGED vars
  <2>1. UNCHANGED <<log, session, slots, jobs>>
    BY <1>3 DEF CommandExits, vars
  <2> QED
    BY <2>1 DEF BeginInv, HasActiveTurn, MayProvision
<1>4. CASE \E j \in JobId : ExpireLease(j)
  <2>1. UNCHANGED <<log, session, slots>>
    BY <1>4 DEF ExpireLease
  <2>2. \A j \in JobId : /\ jobs'[j].state = jobs[j].state
                         /\ jobs'[j].attempts = jobs[j].attempts
    BY <1>0, <1>4 DEF ExpireLease, JobRow
  <2>3. \A s \in Slots : TurnFits(slots[s], log, session.status, jobs')
    BY <1>0, <2>2 DEF BeginInv, TurnFits
  <2> QED
    BY <2>1, <2>2, <2>3 DEF BeginInv, HasActiveTurn, MayProvision
<1>5. CASE \E s \in Slots : Heartbeat(s)
  BY <1>5 DEF Heartbeat, HeldInv, OneHolder
<1> QED
  BY <1>1, <1>2, <1>3, <1>4, <1>5

LEMMA BeginNext ==
  ASSUME IInv, HeldInv, ProvisionInv, BeginInv, HeldNext
  PROVE  BeginInv'
BY BeginByOthers, BeginByQueue, BeginByTurnStep, BeginByProvisionStep
DEF HeldNext, Handles

LEMMA BeginHolds == Spec => [](LeasesHold => BeginInv)
<1>1. /\ IInv /\ (LeasesHold => HeldInv) /\ (LeasesHold => ProvisionInv)
      /\ (LeasesHold => BeginInv) /\ [Next]_vars
      => (LeasesHold => BeginInv)'
  BY HeldStep, BeginNext DEF IInv
<1> QED
  BY <1>1, BeginInit, HeldHolds, ProvisionHolds, InvariantHolds, PTL DEF Spec

\* Once the model has spoken, a turn that still has to end has a queued or
\* running job, whatever workers are lost, until the session is gone (service.ts
\* sendMessage, Rule 1; turn.ts 62-64).  Of a turn that still waits for the sandbox
\* this cannot be said: the run dead_while_provisioning shows it.
THEOREM TurnsUnderWayHaveJobs ==
  Spec => [](LeasesHold => (Begun(log) => HasActiveTurn \/ Gone(session.status)))
<1>1. BeginInv => (Begun(log) => HasActiveTurn \/ Gone(session.status))
  BY DEF BeginInv
<1> QED
  BY <1>1, BeginHolds, PTL

-----------------------------------------------------------------------------
(* How the runtime pairs them.  A turn that has ordered a call goes on with *)
(* its result or fails over it; then the next message comes.                *)

FailsOver(e) == e.type = "turn_failed" /\ e.class \in {"SANDBOX_FATAL", "INTERNAL"}

\* The call has no result, and nothing but its turn's failure behind it.
Pending(l, k) == \A j \in k + 1 .. Len(l) : FailsOver(l[j])

CallSettled(l, k) == \/ \E i \in k + 1 .. Len(l) : AnswerAt(l, k, i)
                     \/ Abandoned(l, k)
                     \/ Pending(l, k)

TalkInv(l) ==
  /\ CallsAreSpoken(l) /\ ResultsAnswer(l)
  /\ \A k \in DOMAIN l : l[k].call => HasMessage(l) /\ CallSettled(l, k)
  /\ \A i \in DOMAIN l : i < Len(l) /\ IsTerminal(l[i]) => l[i + 1].type = "user_message"

\* What the reducer's order for a log lets a turn write behind it.
Ordered(l, e) ==
  LET action == NextAction(l, MaxIterations)
  IN  \/ action = "infer" /\ \E call \in BOOLEAN : e = Assistant(call)
      \/ action = "exec_tool" /\ e = ToolResult(PendingKey(l))
      \/ action = "finish" /\ e = TurnCompleted
      \/ action = "fail" /\ e = TurnFailed("BUDGET")
      \/ \E class \in ErrorClass : ClassFits(class, action) /\ e = TurnFailed(class)

LEMMA AnswerStays ==
  ASSUME NEW l \in Seq(Event), NEW e \in Event,
         NEW i \in DOMAIN l, NEW k \in 1 .. i - 1, AnswerAt(l, k, i)
  PROVE  AnswerAt(Append(l, e), k, i)
<1> DEFINE u == Append(l, e)
<1>1. /\ Len(l) \in Nat /\ DOMAIN l = 1 .. Len(l)
      /\ \A j \in 1 .. Len(l) : u[j] = l[j]
  BY LongerIs
<1> HIDE DEF u
<1>2. \A j \in k + 1 .. i - 1 : j \in 1 .. Len(l)
  BY <1>1
<1>3. Quiet(u, k, i)
  BY <1>1, <1>2 DEF AnswerAt, Quiet
<1>4. AnswerAt(u, k, i)
  BY <1>1, <1>3 DEF AnswerAt
<1> QED
  BY <1>4 DEF u

LEMMA AbandonedStays ==
  ASSUME NEW l \in Seq(Event), NEW e \in Event, NEW k \in DOMAIN l, Abandoned(l, k)
  PROVE  Abandoned(Append(l, e), k)
<1> DEFINE u == Append(l, e)
<1>1. /\ Len(l) \in Nat /\ DOMAIN l = 1 .. Len(l) /\ Len(u) = Len(l) + 1
      /\ \A j \in 1 .. Len(l) : u[j] = l[j]
  BY LongerIs
<1>2. LastUser(l) \in 0 .. Len(l)
  BY LastOfBound DEF LastUser
<1>3. LastUser(u) = Len(l) + 1 \/ LastUser(u) = LastUser(l)
  BY LastOfAppend DEF LastUser
<1> HIDE DEF u
<1>4. PICK f \in k + 1 .. Len(l) :
        /\ l[f].type = "turn_failed" /\ l[f].class \in {"SANDBOX_FATAL", "INTERNAL"}
        /\ \A j \in k + 1 .. f - 1 : ~IsConversation(l[j])
        /\ f < LastUser(l)
  BY DEF Abandoned
<1>5. /\ f \in k + 1 .. Len(u) /\ f \in 1 .. Len(l) /\ f < LastUser(u)
      /\ \A j \in k + 1 .. f - 1 : j \in 1 .. Len(l)
  BY <1>1, <1>2, <1>3, <1>4
<1>6. \A j \in k + 1 .. f - 1 : ~IsConversation(u[j])
  BY <1>1, <1>4, <1>5
<1>7. Abandoned(u, k)
  BY <1>1, <1>4, <1>5, <1>6 DEF Abandoned
<1> QED
  BY <1>7 DEF u

\* What was paired stays paired; the new event has to be.
LEMMA TalkStays ==
  ASSUME NEW l \in Seq(Event), NEW e \in Event, TalkInv(l),
         e.call => e.type = "assistant_message" /\ HasMessage(l),
         e.type = "tool_result" =>
           \E k \in DOMAIN l : l[k].call /\ AnswerAt(Append(l, e), k, Len(l) + 1),
         \A k \in DOMAIN l : l[k].call /\ Pending(l, k) => CallSettled(Append(l, e), k),
         l # <<>> /\ IsTerminal(l[Len(l)]) => e.type = "user_message"
  PROVE  TalkInv(Append(l, e))
<1> DEFINE u == Append(l, e)
<1>1. /\ Len(l) \in Nat /\ DOMAIN l = 1 .. Len(l) /\ Len(u) = Len(l) + 1
      /\ DOMAIN u = 1 .. Len(l) + 1 /\ u[Len(l) + 1] = e
      /\ \A j \in 1 .. Len(l) : u[j] = l[j]
  BY LongerIs
<1>2. \A i \in DOMAIN u : \/ i \in DOMAIN l /\ u[i] = l[i]
                          \/ i = Len(l) + 1 /\ u[i] = e
  BY <1>1
<1>3. HasMessage(l) => HasMessage(u)
  BY MessageStays
<1>4. \A k \in DOMAIN l : Abandoned(l, k) => Abandoned(u, k)
  BY AbandonedStays
<1>5. \A i \in DOMAIN l : \A k \in 1 .. i - 1 : AnswerAt(l, k, i) => AnswerAt(u, k, i)
  BY AnswerStays
<1> HIDE DEF u
<1>6. CallsAreSpoken(u)
  BY <1>2 DEF TalkInv, CallsAreSpoken
<1>7. ResultsAnswer(u)
  <2> SUFFICES ASSUME NEW i \in DOMAIN u, u[i].type = "tool_result"
               PROVE  \E k \in 1 .. i - 1 : u[k].call /\ AnswerAt(u, k, i)
    BY DEF ResultsAnswer
  <2>1. CASE i \in DOMAIN l /\ u[i] = l[i]
    <3>1. PICK k \in 1 .. i - 1 : l[k].call /\ AnswerAt(l, k, i)
      BY <2>1 DEF TalkInv, ResultsAnswer
    <3>2. k \in 1 .. Len(l)
      BY <1>1, <2>1
    <3>3. u[k].call /\ AnswerAt(u, k, i)
      BY <1>1, <1>5, <2>1, <3>1, <3>2
    <3> QED
      BY <3>3
  <2>2. CASE i = Len(l) + 1 /\ u[i] = e
    <3>1. PICK k \in DOMAIN l : l[k].call /\ AnswerAt(u, k, Len(l) + 1)
      BY <2>2 DEF u
    <3>2. k \in 1 .. i - 1 /\ u[k].call
      BY <1>1, <2>2, <3>1
    <3> QED
      BY <2>2, <3>1, <3>2
  <2> QED
    BY <1>2, <2>1, <2>2
<1>8. ASSUME NEW k \in DOMAIN u, u[k].call
      PROVE  HasMessage(u) /\ CallSettled(u, k)
  <2>1. CASE k \in DOMAIN l /\ u[k] = l[k]
    <3>1. HasMessage(l) /\ CallSettled(l, k)
      BY <1>8, <2>1 DEF TalkInv
    <3>2. CASE \E i \in k + 1 .. Len(l) : AnswerAt(l, k, i)
      <4>1. PICK i \in k + 1 .. Len(l) : AnswerAt(l, k, i)
        BY <3>2
      <4>2. i \in DOMAIN l /\ k \in 1 .. i - 1 /\ i \in k + 1 .. Len(u)
        BY <1>1, <2>1, <4>1
      <4>3. AnswerAt(u, k, i)
        BY <1>5, <4>1, <4>2
      <4> QED
        BY <1>3, <3>1, <4>2, <4>3 DEF CallSettled
    <3>3. CASE Abandoned(l, k)
      BY <1>3, <1>4, <2>1, <3>1, <3>3 DEF CallSettled
    <3>4. CASE Pending(l, k)
      <4>1. CallSettled(u, k)
        BY <1>8, <2>1, <3>4 DEF u
      <4> QED
        BY <1>3, <3>1, <4>1
    <3> QED
      BY <3>1, <3>2, <3>3, <3>4 DEF CallSettled
  <2>2. CASE k = Len(l) + 1 /\ u[k] = e
    <3>1. HasMessage(u)
      BY <1>3, <1>8, <2>2
    <3>2. Pending(u, k)
      <4>1. ~ \E j \in k + 1 .. Len(u) : TRUE
        BY <1>1, <2>2
      <4> QED
        BY <4>1 DEF Pending
    <3> QED
      BY <3>1, <3>2 DEF CallSettled
  <2> QED
    BY <1>2, <2>1, <2>2
<1>9. ASSUME NEW i \in DOMAIN u, i < Len(u), IsTerminal(u[i])
      PROVE  u[i + 1].type = "user_message"
  <2>1. i \in 1 .. Len(l) /\ u[i] = l[i]
    BY <1>1, <1>9
  <2>2. CASE i = Len(l)
    <3>1. l # <<>>
      BY <2>1
    <3> QED
      BY <1>1, <1>9, <2>1, <2>2, <3>1
  <2>3. CASE i # Len(l)
    <3>1. i \in DOMAIN l /\ i < Len(l) /\ i + 1 \in 1 .. Len(l)
      BY <1>1, <2>1, <2>3
    <3>2. l[i + 1].type = "user_message"
      BY <1>9, <2>1, <3>1 DEF TalkInv
    <3> QED
      BY <1>1, <3>1, <3>2
  <2> QED
    BY <2>2, <2>3
<1>10. TalkInv(u)
  BY <1>6, <1>7, <1>8, <1>9 DEF TalkInv
<1> QED
  BY <1>10 DEF u

\* A call that waits at the end of a log that has not ended is the one to run.
LEMMA PendingMeansExec ==
  ASSUME NEW l \in Seq(Event), TalkInv(l), ~IsTerminal(l[Len(l)]),
         NEW k \in DOMAIN l, l[k].call, Pending(l, k)
  PROVE  /\ k = Len(l) /\ LastAssistant(l) = k
         /\ NextAction(l, MaxIterations) = "exec_tool"
<1>1. Len(l) \in Nat /\ DOMAIN l = 1 .. Len(l)
  OBVIOUS
<1>2. k = Len(l)
  <2> SUFFICES ASSUME k # Len(l)
               PROVE  FALSE
    OBVIOUS
  <2>1. Len(l) \in k + 1 .. Len(l)
    BY <1>1
  <2>2. FailsOver(l[Len(l)])
    BY <2>1 DEF Pending
  <2> QED
    BY <2>2 DEF FailsOver, IsTerminal
<1>3. l # <<>> /\ l[Len(l)].type = "assistant_message"
  BY <1>1, <1>2 DEF TalkInv, CallsAreSpoken
<1>4. LastAssistant(l) = k
  BY <1>2, <1>3, LastOfLast DEF LastAssistant
<1>5. ~(k < LastUser(l))
  <2>1. LastUser(l) \in 0 .. Len(l)
    BY LastOfBound DEF LastUser
  <2> QED
    BY <1>1, <1>2, <2>1
<1>6. ~Answered(l, k)
  <2>1. ~ \E i \in k + 1 .. Len(l) : TRUE
    BY <1>1, <1>2
  <2> QED
    BY <1>4, <2>1 DEF Answered
<1>7. NextAction(l, MaxIterations) = "exec_tool"
  BY <1>4, <1>5, <1>6 DEF NextAction, IdemKeyFor
<1> QED
  BY <1>2, <1>4, <1>7
\* The result that a turn writes answers the last call, with nothing said since.
LEMMA ResultFits ==
  ASSUME NEW l \in Seq(Event), NEW e \in Event, TalkInv(l), HasMessage(l),
         NextAction(l, MaxIterations) = "exec_tool", e = ToolResult(PendingKey(l))
  PROVE  LET k == LastAssistant(l)
         IN  k \in DOMAIN l /\ l[k].call /\ AnswerAt(Append(l, e), k, Len(l) + 1)
<1> DEFINE k == LastAssistant(l)
           u == Append(l, e)
<1>1. /\ Len(l) \in Nat /\ DOMAIN l = 1 .. Len(l) /\ u[Len(l) + 1] = e
      /\ \A j \in 1 .. Len(l) : u[j] = l[j]
  BY LongerIs
<1>2. ~(k < LastUser(l)) /\ l[k].call /\ ~Answered(l, k)
  BY DEF NextAction, IdemKeyFor
<1>3. PICK at \in DOMAIN l : l[at].type = "user_message"
  BY EventsAre DEF HasMessage
<1>4. /\ LastUser(l) \in DOMAIN l
      /\ \A i \in DOMAIN l : l[i].type = "user_message" => i <= LastUser(l)
  BY <1>3, LastOfFound DEF LastUser
<1>5. k \in 0 .. Len(l)
  BY LastOfBound DEF LastAssistant
<1>6. k \in DOMAIN l /\ l[k].type = "assistant_message"
  <2>1. k \in DOMAIN l
    BY <1>1, <1>2, <1>4, <1>5
  <2> QED
    BY <1>2, <2>1 DEF TalkInv, CallsAreSpoken
<1>7. \A i \in DOMAIN l : l[i].type = "assistant_message" => i <= k
  BY <1>6, LastOfFound DEF LastAssistant
<1>8. ASSUME NEW j \in k + 1 .. Len(l)
      PROVE  ~IsConversation(l[j])
  <2>1. j \in DOMAIN l /\ ~(j <= k) /\ ~(j <= LastUser(l))
    BY <1>1, <1>2, <1>4, <1>6
  <2>2. l[j].type # "user_message" /\ l[j].type # "assistant_message"
    BY <1>4, <1>7, <2>1
  <2>3. ASSUME l[j].type = "tool_result"
        PROVE  FALSE
    <3>1. PICK c \in 1 .. j - 1 : l[c].call /\ AnswerAt(l, c, j)
      BY <2>1, <2>3 DEF TalkInv, ResultsAnswer
    <3>2. c \in DOMAIN l
      BY <1>1, <2>1, <3>1
    <3>3. c <= k
      BY <1>7, <3>1, <3>2 DEF TalkInv, CallsAreSpoken
    <3>4. c = k
      <4> SUFFICES ASSUME c # k
                   PROVE  FALSE
        OBVIOUS
      <4>1. k \in c + 1 .. j - 1
        BY <1>1, <1>6, <2>1, <3>2, <3>3
      <4>2. IsConversation(l[k])
        BY <1>6, RoleIs DEF IsConversation
      <4> QED
        BY <3>1, <4>1, <4>2 DEF AnswerAt, Quiet
    <3>5. l[j].key = k
      BY <3>1, <3>4 DEF AnswerAt
    <3> QED
      BY <1>2, <2>3, <3>5 DEF Answered
  <2> QED
    BY <2>2, <2>3, ConversationIs
<1>9. e.type = "tool_result" /\ e.key = k
  BY EventsAre DEF PendingKey, IdemKeyFor
<1> HIDE DEF u, k
<1>10. Quiet(u, k, Len(l) + 1)
  <2>1. \A j \in k + 1 .. (Len(l) + 1) - 1 : j \in k + 1 .. Len(l) /\ j \in 1 .. Len(l)
    BY <1>1, <1>6
  <2> QED
    BY <1>1, <1>8, <2>1 DEF Quiet
<1>11. AnswerAt(u, k, Len(l) + 1)
  BY <1>1, <1>9, <1>10 DEF AnswerAt
<1> QED
  BY <1>2, <1>6, <1>11 DEF u, k

LEMMA TalkByTurn ==
  ASSUME NEW l \in Seq(Event), NEW e \in Event, TalkInv(l), HasMessage(l), Ordered(l, e)
  PROVE  TalkInv(Append(l, e))
<1> DEFINE action == NextAction(l, MaxIterations)
<1>1. /\ Len(l) \in Nat /\ DOMAIN l = 1 .. Len(l)
      /\ Len(Append(l, e)) = Len(l) + 1 /\ Append(l, e)[Len(l) + 1] = e
  BY LongerIs
<1>2. ~IsTerminal(l[Len(l)])
  <2>1. action # "noop"
    BY DEF Ordered, ClassFits
  <2> QED
    BY <2>1 DEF NextAction
<1>3. e.call => e.type = "assistant_message" /\ HasMessage(l)
  BY EventsAre DEF Ordered
<1>4. e.type = "tool_result" =>
        \E k \in DOMAIN l : l[k].call /\ AnswerAt(Append(l, e), k, Len(l) + 1)
  <2> SUFFICES ASSUME e.type = "tool_result"
               PROVE  \E k \in DOMAIN l : l[k].call /\ AnswerAt(Append(l, e), k, Len(l) + 1)
    OBVIOUS
  <2>1. action = "exec_tool" /\ e = ToolResult(PendingKey(l))
    BY EventsAre DEF Ordered
  <2> QED
    BY <2>1, ResultFits
<1>5. ASSUME NEW k \in DOMAIN l, l[k].call, Pending(l, k)
      PROVE  CallSettled(Append(l, e), k)
  <2>1. k = Len(l) /\ LastAssistant(l) = k /\ action = "exec_tool"
    BY <1>2, <1>5, PendingMeansExec
  <2>2. CASE e = ToolResult(PendingKey(l))
    <3>1. AnswerAt(Append(l, e), k, Len(l) + 1)
      BY <2>1, <2>2, ResultFits
    <3>2. Len(l) + 1 \in k + 1 .. Len(Append(l, e))
      BY <1>1, <2>1
    <3> QED
      BY <3>1, <3>2 DEF CallSettled
  <2>3. CASE \E class : ClassFits(class, action) /\ e = TurnFailed(class)
    <3>1. FailsOver(e)
      BY <2>1, <2>3, EventsAre DEF ClassFits, FailsOver
    <3>2. \A j \in k + 1 .. Len(Append(l, e)) : j = Len(l) + 1
      BY <1>1, <2>1
    <3> QED
      BY <1>1, <3>1, <3>2 DEF Pending, CallSettled
  <2> QED
    BY <2>1, <2>2, <2>3 DEF Ordered
<1> QED
  BY <1>2, <1>3, <1>4, <1>5, TalkStays

\* The user writes when no turn is under way, and then the failure of the turn
\* before, if it failed over a call, is the last thing in the log.
LEMMA TalkByMessage ==
  ASSUME NEW l \in Seq(Event), TalkInv(l), ~Begun(l)
  PROVE  TalkInv(Append(l, UserMessage))
<1> DEFINE u == Append(l, UserMessage)
<1>1. /\ Len(l) \in Nat /\ DOMAIN l = 1 .. Len(l) /\ Len(u) = Len(l) + 1
      /\ \A j \in 1 .. Len(l) : u[j] = l[j]
  BY LongerIs, EventTypes
<1>2. LastUser(u) = Len(l) + 1
  BY LastOfAppend, EventTypes, EventsAre DEF LastUser
<1>3. ASSUME NEW k \in DOMAIN l, l[k].call, Pending(l, k)
      PROVE  CallSettled(u, k)
  <2>1. PICK at \in DOMAIN l : l[at].type = "user_message"
    BY <1>3, EventsAre DEF TalkInv, HasMessage
  <2>2. /\ LastUser(l) \in DOMAIN l
        /\ \A i \in DOMAIN l : l[i].type = "user_message" => i <= LastUser(l)
    BY <2>1, LastOfFound DEF LastUser
  <2>a. LastUser(l) < LastAssistant(l)
    <3>1. l[k].type = "assistant_message"
      BY <1>3 DEF TalkInv, CallsAreSpoken
    <3>2. LastAssistant(l) \in DOMAIN l /\ k <= LastAssistant(l)
      BY <3>1, LastOfFound DEF LastAssistant
    <3>3. l[LastUser(l)].type = "user_message"
      BY <2>1, LastOfFound DEF LastUser
    <3>4. LastUser(l) \notin k + 1 .. Len(l)
      BY <1>3, <3>3 DEF Pending, FailsOver
    <3>5. LastUser(l) # k
      BY <3>1, <3>3
    <3> QED
      BY <1>1, <2>2, <3>2, <3>4, <3>5
  <2>3. \E t \in DOMAIN l : LastUser(l) <= t /\ IsTerminal(l[t])
    <3>0. ~Open(l)
      BY <2>a DEF Begun
    <3>1. \E type \in {"turn_completed", "turn_failed"} : ~(LastUser(l) > LastOf(l, type))
      BY <3>0 DEF Open
    <3> PICK type \in {"turn_completed", "turn_failed"} : ~(LastUser(l) > LastOf(l, type))
      BY <3>1
    <3>2. LastOf(l, type) \in 0 .. Len(l) /\ LastUser(l) <= LastOf(l, type)
      <4>1. LastOf(l, type) \in 0 .. Len(l)
        BY LastOfBound
      <4> QED
        BY <1>1, <2>2, <4>1
    <3>3. LastOf(l, type) \in DOMAIN l /\ LastOf(l, type) # 0
      BY <1>1, <2>2, <3>2
    <3>4. PICK i \in DOMAIN l : l[i].type = type
      BY <3>3, LastOfMissing
    <3>5. l[LastOf(l, type)].type = type
      BY <3>4, LastOfFound
    <3> QED
      BY <3>2, <3>3, <3>5 DEF IsTerminal
  <2>4. PICK t \in DOMAIN l : LastUser(l) <= t /\ IsTerminal(l[t])
    BY <2>3
  <2>5. t = Len(l)
    <3> SUFFICES ASSUME t # Len(l)
                 PROVE  FALSE
      OBVIOUS
    <3>1. t < Len(l) /\ t + 1 \in DOMAIN l /\ ~(t + 1 <= LastUser(l))
      BY <1>1, <2>2, <2>4
    <3> QED
      BY <2>2, <2>4, <3>1 DEF TalkInv
  <2>6. l[k].type = "assistant_message"
    BY <1>3 DEF TalkInv, CallsAreSpoken
  <2>7. k # Len(l)
    BY <2>4, <2>5, <2>6 DEF IsTerminal
  <2>8. k + 1 \in k + 1 .. Len(l) /\ k + 1 \in 1 .. Len(l) /\ k + 1 \in k + 1 .. Len(u)
    BY <1>1, <2>7
  <2>9. FailsOver(l[k + 1])
    BY <1>3, <2>8 DEF Pending
  <2>10. k + 1 = Len(l)
    <3> SUFFICES ASSUME k + 1 # Len(l)
                 PROVE  FALSE
      OBVIOUS
    <3>1. k + 1 \in DOMAIN l /\ k + 1 < Len(l) /\ (k + 1) + 1 \in k + 1 .. Len(l)
      BY <1>1, <2>8
    <3>2. l[(k + 1) + 1].type = "user_message"
      BY <2>9, <3>1 DEF TalkInv, FailsOver, IsTerminal
    <3> QED
      BY <1>3, <3>1, <3>2 DEF Pending, FailsOver
  <2> HIDE DEF u
  <2>11. k + 1 < LastUser(u) /\ FailsOver(u[k + 1])
    BY <1>1, <1>2, <2>8, <2>9, <2>10
  <2>12. ~ \E j \in k + 1 .. (k + 1) - 1 : TRUE
    BY <1>1
  <2>13. Abandoned(u, k)
    BY <2>8, <2>11, <2>12 DEF Abandoned, FailsOver
  <2> QED
    BY <2>13 DEF CallSettled
<1> QED
  BY <1>3, EventsAre, EventTypes, TalkStays

LEMMA TalkInit ==
  ASSUME Init
  PROVE  TalkInv(log)
<1>1. log \in {<<>>, <<Provisioned>>}
  BY DEF Init
<1>2. \A i \in DOMAIN log : i = 1 /\ log[i] = Provisioned
  BY <1>1
<1>3. ~Provisioned.call /\ Provisioned.type = "session_provisioned"
  BY DEF Provisioned, Bare
<1>4. \A i \in DOMAIN log : ~(i < Len(log))
  BY <1>1
<1> QED
  BY <1>2, <1>3, <1>4 DEF TalkInv, CallsAreSpoken, ResultsAnswer

LEMMA TalkNext ==
  ASSUME IInv, BeginInv, TalkInv(log), [Next]_vars
  PROVE  TalkInv(log')
<1>1. log \in Seq(Event)
  BY DEF IInv, TypeOK
<1>2. CASE log' = log
  BY <1>2
<1>3. CASE SendMessage
  <2>1. ~Begun(log) /\ log' = Append(log, UserMessage)
    BY <1>3 DEF SendMessage, BeginInv, Gone
  <2> QED
    BY <1>1, <2>1, TalkByMessage
<1>4. CASE \E s \in Slots : slots[s].pc = "commit" /\ ProvisionWrites(s)
  <2>1. Unspoken(log)
    BY <1>4 DEF BeginInv, MayProvision, ProvisionPc
  <2>2. PICK e \in {Provisioned, TurnFailed("SANDBOX_FATAL")} : log' = Append(log, e)
    BY <1>4 DEF ProvisionWrites
  <2>3. e \in Event /\ ~e.call /\ e.type # "tool_result"
    <3>1. Provisioned.type = "session_provisioned" /\ ~Provisioned.call
      BY DEF Provisioned, Bare
    <3> QED
      BY <3>1, EventTypes, EventsAre DEF ErrorClass
  <2>4. \A k \in DOMAIN log : ~log[k].call
    BY <2>1 DEF Unspoken, TalkInv, CallsAreSpoken
  <2>5. log # <<>> => ~IsTerminal(log[Len(log)])
    BY <1>1, <2>1 DEF Unspoken
  <2> QED
    BY <1>1, <2>2, <2>3, <2>4, <2>5, TalkStays
<1>5. ASSUME NEW s \in Slots, NEW e \in Appendable(s), log' = Append(log, e)
      PROVE  TalkInv(log')
  <2>1. slots[s].pc \in InTurnPc
    BY DEF Appendable, At, InTurnPc
  <2>2. slots[s].mem = log /\ SlotFollowsLog(slots[s], log) /\ e \in Event
    BY <2>1, AppendableType DEF BeginInv, TurnFits, IInv
  <2>3. HasMessage(log)
    BY <2>1, <2>2 DEF SlotFollowsLog
  <2>4. NextStep(s) = NextAction(log, MaxIterations) /\ Key(s) = PendingKey(log)
    BY <2>2 DEF NextStep, Key
  <2>5. Ordered(log, e)
    <3>1. CASE At(s, "infer")
      BY <2>4, <3>1 DEF Appendable, At, Ordered
    <3>2. CASE At(s, "finish")
      <4>1. e = TurnCompleted
        BY <3>2 DEF Appendable, At
      <4> QED
        BY <2>4, <3>2, <4>1 DEF At, Ordered
    <3>3. CASE At(s, "fail")
      <4>1. e = TurnFailed("BUDGET")
        BY <3>3 DEF Appendable, At
      <4> QED
        BY <2>4, <3>3, <4>1 DEF At, Ordered
    <3>4. CASE slots[s].pc = "tail"
      <4>1. e = ToolResult(Key(s))
        BY <3>4 DEF Appendable, At
      <4>2. NextAction(log, MaxIterations) = "exec_tool"
        BY <2>2, <3>4 DEF SlotFollowsLog
      <4> QED
        BY <2>4, <4>1, <4>2 DEF Ordered
    <3>5. CASE slots[s].pc = "fail"
      <4>1. e = TurnFailed(slots[s].class)
        BY <3>5 DEF Appendable, At
      <4>2. ClassFits(slots[s].class, NextAction(log, MaxIterations))
        BY <2>2, <3>5 DEF SlotFollowsLog
      <4>3. slots[s].class \in ErrorClass
        BY <4>2 DEF ClassFits, ErrorClass
      <4> QED
        BY <4>1, <4>2, <4>3 DEF Ordered
    <3> QED
      BY <3>1, <3>2, <3>3, <3>4, <3>5 DEF Appendable
  <2> QED
    BY <1>1, <1>5, <2>2, <2>3, <2>5, TalkByTurn
<1> QED
  BY <1>2, <1>3, <1>4, <1>5, LogWrites

LEMMA TalkHolds == Spec => [](LeasesHold => TalkInv(log))
<1>1. Init => TalkInv(log)
  BY TalkInit
<1>2. /\ IInv /\ (LeasesHold => BeginInv) /\ (LeasesHold => TalkInv(log))
      /\ [Next]_vars
      => (LeasesHold' => TalkInv(log'))
  BY HeldStep, TalkNext DEF IInv
<1> DEFINE P == LeasesHold => TalkInv(log)
<1>3. P' <=> (LeasesHold' => TalkInv(log'))
  BY DEF TalkInv, CallsAreSpoken, ResultsAnswer, AnswerAt, Quiet, CallSettled, Pending,
     Abandoned, HasMessage, FailsOver, IsTerminal, LastUser, LastOf, UserMessage, Bare,
     IsConversation, Role
<1>4. Init => P
  BY <1>1
<1>5. IInv /\ (LeasesHold => BeginInv) /\ P /\ [Next]_vars => P'
  BY <1>2, <1>3
<1>6. Spec => []P
  <2> HIDE DEF P
  <2> QED
    BY <1>4, <1>5, BeginHolds, InvariantHolds, PTL DEF Spec
<1> QED
  BY <1>6

\* Whatever workers died and whatever turns failed before, the request of every
\* inference pairs each call with its result, save those a failed turn left
\* behind (native-strategy.ts 5-9, ai-sdk.ts 143-188), as long as leases hold and
\* database calls succeed.
THEOREM RequestsAreAnswered == Spec => [](LeasesHold => RequestsAnswerCalls)
<1>1. IInv /\ BeginInv /\ TalkInv(log) => RequestsAnswerCalls
  <2> SUFFICES ASSUME IInv, BeginInv, TalkInv(log), NEW s \in Slots, At(s, "infer")
               PROVE  WellAnswered(slots[s].mem)
    BY DEF RequestsAnswerCalls
  <2>1. log \in Seq(Event) /\ slots[s].mem = log
    BY DEF IInv, TypeOK, BeginInv, TurnFits, InTurnPc, At
  <2>2. NextAction(log, MaxIterations) = "infer"
    BY <2>1 DEF At, NextStep
  <2>3. ~IsTerminal(log[Len(log)])
    BY <2>2 DEF NextAction
  <2>4. \A k \in DOMAIN log : log[k].call => ~Pending(log, k)
    BY <2>1, <2>2, <2>3, PendingMeansExec
  <2>5. \A k \in DOMAIN log : log[k].call =>
           (\E i \in k + 1 .. Len(log) : AnswerAt(log, k, i)) \/ Abandoned(log, k)
    BY <2>4 DEF TalkInv, CallSettled
  <2>6. WellAnswered(log)
    BY <2>1, <2>5, PairedLog DEF TalkInv
  <2> QED
    BY <2>1, <2>6
<1> QED
  BY <1>1, TalkHolds, BeginHolds, InvariantHolds, PTL
=============================================================================
