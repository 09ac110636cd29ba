------------------------- MODULE TurnRuntimeProofs --------------------------
(***************************************************************************)
(* Theorems about TurnRuntime for every number of slots, messages,         *)
(* attempts, iterations and faults: types, the leases that give a turn one *)
(* driver, provisioning, the boxes commands run in, and the outbox.        *)
(*                                                                         *)
(* The arguments: a claimed row has one slot that may settle it, and a     *)
(* second claim needs the lease to have run out (HeldInv); once leases are *)
(* lost, each driver more has cost one (FewInv); the rows of a             *)
(* session never overlap, so provisioning and a turn that reaches the      *)
(* sandbox exclude each other (ProvisionInv); where a box is never         *)
(* replaced, a journaled command has no other box to run in (OneBox);      *)
(* every open turn has the row its message inserted or one that a slot has *)
(* returned to the queue (DriveInv).                                       *)
(***************************************************************************)
EXTENDS TurnRuntime, FiniteSetTheorems, TLAPS

-----------------------------------------------------------------------------
(* The event constructors and the reducer's helpers stay within their      *)
(* types.                                                                  *)

LEMMA EventTypes ==
  /\ UserMessage \in Event /\ TurnCompleted \in Event /\ Provisioned \in Event
  /\ \A call \in BOOLEAN : Assistant(call) \in Event
  /\ \A key \in Nat : ToolResult(key) \in Event
  /\ \A class \in ErrorClass \cup {"none"} : TurnFailed(class) \in Event
BY DEF UserMessage, TurnCompleted, Provisioned, Assistant, ToolResult, TurnFailed,
       Bare, Event, EventType, ErrorClass

\* A position in the log, or 0.
LEMMA LastOfNat ==
  ASSUME NEW events \in Seq(Event), NEW type
  PROVE  LastOf(events, type) \in Nat
<1> DEFINE Hits == {i \in DOMAIN events : events[i].type = type}
           IsLast(i) == \A j \in Hits : j <= i
<1>1. Hits \subseteq Nat
  OBVIOUS
<1>2. CASE \E i \in Hits : IsLast(i)
  <2>1. (CHOOSE i \in Hits : IsLast(i)) \in Hits
    BY <1>2
  <2> QED
    BY <1>1, <1>2, <2>1 DEF LastOf
<1>3. CASE ~ \E i \in Hits : IsLast(i)
  BY <1>3 DEF LastOf
<1> QED
  BY <1>2, <1>3

LEMMA KeyNat ==
  ASSUME TypeOK, NEW s \in Slots
  PROVE  Key(s) \in Nat
<1>1. slots[s].mem \in Seq(Event)
  BY DEF TypeOK, Slot
<1> QED
  BY <1>1, LastOfNat DEF Key, PendingKey, IdemKeyFor, LastAssistant

-----------------------------------------------------------------------------
(* What the control helpers do to the slots.                               *)

LEMMA IdleType == Idle \in Slot
BY RuntimeAssumption DEF Idle, Slot, Pc, JobId

\* Writing one slot keeps the type of all.
LEMMA SlotTypes ==
  ASSUME TypeOK
  PROVE  /\ slots \in [Slots -> Slot]
         /\ \A s \in Slots : slots[s].mem \in Seq(Event) /\ slots[s].job \in JobId
         /\ \A s \in Slots, new \in Slot : [slots EXCEPT ![s] = new] \in [Slots -> Slot]
BY DEF TypeOK, Slot

\* Updates of one slot's record.
LEMMA SlotUpdates ==
  ASSUME NEW r \in Slot
  PROVE  /\ \A pc \in Pc : [r EXCEPT !.pc = pc] \in Slot
         /\ \A pc \in Pc, class \in ErrorClass :
              [r EXCEPT !.pc = pc, !.class = class] \in Slot
         /\ \A pc \in Pc, mem \in Seq(Event) :
              [r EXCEPT !.pc = pc, !.mem = mem] \in Slot
         /\ \A pc \in Pc, mem \in Seq(Event), b \in BOOLEAN :
              [r EXCEPT !.pc = pc, !.rebooted = b, !.mem = mem] \in Slot
         /\ \A pc \in Pc, b \in BOOLEAN :
              [r EXCEPT !.pc = pc, !.rebooted = b] \in Slot
         /\ \A pc \in Pc, n \in Nat :
              /\ [r EXCEPT !.pc = pc, !.box = n] \in Slot
              /\ [r EXCEPT !.pc = pc, !.seq = n] \in Slot
         /\ \A pc \in Pc, goal \in {"ready", "failed"} :
              [r EXCEPT !.pc = pc, !.goal = goal] \in Slot
         /\ \A pc \in Pc, goal \in {"ready", "failed"}, n \in Nat :
              [r EXCEPT !.pc = pc, !.goal = goal, !.box = n] \in Slot
         /\ \A pc \in Pc, j \in JobId, b \in BOOLEAN :
              [r EXCEPT !.pc = pc, !.job = j, !.last = b] \in Slot
<1>1. \A pc \in Pc : [r EXCEPT !.pc = pc] \in Slot
  BY DEF Slot
<1>2. \A pc \in Pc, class \in ErrorClass :
        [r EXCEPT !.pc = pc, !.class = class] \in Slot
  BY DEF Slot
<1>3. \A pc \in Pc, mem \in Seq(Event) :
        [r EXCEPT !.pc = pc, !.mem = mem] \in Slot
  BY DEF Slot
<1>4. \A pc \in Pc, mem \in Seq(Event), b \in BOOLEAN :
        [r EXCEPT !.pc = pc, !.rebooted = b, !.mem = mem] \in Slot
  BY DEF Slot
<1>5. \A pc \in Pc, b \in BOOLEAN : [r EXCEPT !.pc = pc, !.rebooted = b] \in Slot
  BY DEF Slot
<1>6. \A pc \in Pc, n \in Nat : /\ [r EXCEPT !.pc = pc, !.box = n] \in Slot
                                /\ [r EXCEPT !.pc = pc, !.seq = n] \in Slot
  BY DEF Slot
<1>7. \A pc \in Pc, goal \in {"ready", "failed"} :
        [r EXCEPT !.pc = pc, !.goal = goal] \in Slot
  BY DEF Slot
<1>8. \A pc \in Pc, goal \in {"ready", "failed"}, n \in Nat :
        [r EXCEPT !.pc = pc, !.goal = goal, !.box = n] \in Slot
  BY DEF Slot
<1>9. \A pc \in Pc, j \in JobId, b \in BOOLEAN :
        [r EXCEPT !.pc = pc, !.job = j, !.last = b] \in Slot
  BY DEF Slot
<1> QED
  BY <1>1, <1>2, <1>3, <1>4, <1>5, <1>6, <1>7, <1>8, <1>9

LEMMA ReturnType ==
  ASSUME TypeOK, NEW s \in Slots, NEW outcome \in Outcome, Return(s, outcome)
  PROVE  slots' \in [Slots -> Slot]
<1> DEFINE returned == [Idle EXCEPT !.pc = "settle", !.job = slots[s].job,
                                    !.outcome = outcome]
<1>1. slots[s].job \in JobId
  BY DEF TypeOK, Slot
<1>2. returned \in Slot
  BY <1>1, IdleType DEF Slot, Pc
<1>3. slots' = [slots EXCEPT ![s] = returned]
  BY DEF Return
<1> QED
  BY <1>2, <1>3 DEF TypeOK

LEMMA MapErrorType ==
  ASSUME TypeOK, NEW s \in Slots, NEW class \in ErrorClass, MapError(s, class)
  PROVE  slots' \in [Slots -> Slot]
<1>1. CASE slots[s].last
  <2>1. [slots[s] EXCEPT !.pc = "fail", !.class = class] \in Slot
    BY SlotTypes, SlotUpdates DEF Pc
  <2>2. slots' = [slots EXCEPT ![s] = [slots[s] EXCEPT !.pc = "fail", !.class = class]]
    BY <1>1, SlotTypes DEF MapError
  <2> QED
    BY <2>1, <2>2, SlotTypes
<1>2. CASE ~slots[s].last
  BY <1>2, ReturnType DEF MapError, Outcome
<1> QED
  BY <1>1, <1>2

LEMMA AppendAndLoopType ==
  ASSUME TypeOK, NEW s \in Slots, NEW e \in Event, AppendAndLoop(s, e)
  PROVE  log' \in Seq(Event) /\ slots' \in [Slots -> Slot]
<1>1. CASE SeqTaken(s)
  BY <1>1, ReturnType DEF AppendAndLoop, Outcome, TypeOK
<1>2. CASE ~SeqTaken(s)
  <2> DEFINE new == [slots[s] EXCEPT !.pc = "act", !.rebooted = FALSE,
                                     !.mem = Append(slots[s].mem, e)]
  <2>1. Append(slots[s].mem, e) \in Seq(Event)
    BY SlotTypes
  <2>2. new \in Slot
    BY <2>1, SlotTypes, SlotUpdates DEF Pc
  <2>3. slots' = [slots EXCEPT ![s] = new] /\ log' = Append(log, e)
    BY <1>2, SlotTypes DEF AppendAndLoop
  <2>4. log' \in Seq(Event)
    BY <2>3 DEF TypeOK
  <2> QED
    BY <2>2, <2>3, <2>4, SlotTypes
<1> QED
  BY <1>1, <1>2

LEMMA AppendAndReturnType ==
  ASSUME TypeOK, NEW s \in Slots, NEW e \in Event, NEW outcome \in Outcome,
         AppendAndReturn(s, e, outcome)
  PROVE  log' \in Seq(Event) /\ slots' \in [Slots -> Slot]
<1>1. log \in Seq(Event)
  BY DEF TypeOK
<1>2. CASE SeqTaken(s)
  BY <1>1, <1>2, ReturnType DEF AppendAndReturn, Outcome
<1>3. CASE ~SeqTaken(s)
  BY <1>1, <1>3, ReturnType DEF AppendAndReturn
<1> QED
  BY <1>2, <1>3

LEMMA GotoType ==
  ASSUME TypeOK, NEW s \in Slots, NEW pc \in Pc, Goto(s, pc)
  PROVE  slots' \in [Slots -> Slot]
<1>1. [slots[s] EXCEPT !.pc = pc] \in Slot
  BY SlotTypes, SlotUpdates
<1>2. slots' = [slots EXCEPT ![s] = [slots[s] EXCEPT !.pc = pc]]
  BY SlotTypes DEF Goto
<1> QED
  BY <1>1, <1>2, SlotTypes

LEMMA GiveUpProvisionType ==
  ASSUME TypeOK, NEW s \in Slots, GiveUpProvision(s)
  PROVE  slots' \in [Slots -> Slot]
<1>1. CASE ~slots[s].last
  BY <1>1, ReturnType DEF GiveUpProvision, Outcome
<1>2. CASE slots[s].last
  <2> DEFINE new == [slots[s] EXCEPT !.pc = "open", !.goal = "failed"]
  <2>1. new \in Slot
    BY SlotTypes, SlotUpdates DEF Pc
  <2>2. slots' = [slots EXCEPT ![s] = new]
    BY <1>2, SlotTypes DEF GiveUpProvision
  <2> QED
    BY <2>1, <2>2, SlotTypes
<1> QED
  BY <1>1, <1>2

LEMMA DbFaultType ==
  ASSUME TypeOK, DbFault
  PROVE  faults' \in [crash : 0 .. MaxCrashes, stall : 0 .. MaxStalls,
                      db : 0 .. MaxDbErrors]
<1>1. faults.db < MaxDbErrors /\ faults' = [faults EXCEPT !.db = @ + 1]
  BY DEF DbFault
<1>2. faults \in [crash : 0 .. MaxCrashes, stall : 0 .. MaxStalls, db : 0 .. MaxDbErrors]
  BY DEF TypeOK
<1>3. faults.db + 1 \in 0 .. MaxDbErrors
  BY <1>1, <1>2, RuntimeAssumption
<1> QED
  BY <1>1, <1>2, <1>3

-----------------------------------------------------------------------------
(* Type correctness: each handler keeps the type invariant.                *)

LEMMA TypeInit == Init => TypeOK
<1> SUFFICES ASSUME Init
             PROVE  TypeOK
  OBVIOUS
<1>1. log \in Seq(Event)
  BY EventTypes, RuntimeAssumption DEF Init
<1>2. session \in [status : Status, box : Nat, archived : BOOLEAN]
  BY RuntimeAssumption DEF Init, Status
<1>3. jobs \in [JobId -> JobRow]
  BY DEF Init, Queued, NoJob, JobRow
<1>4. messages \in 0 .. MaxMessages /\ boxes \in Nat
  BY RuntimeAssumption DEF Init
<1>5. slots \in [Slots -> Slot]
  BY IdleType DEF Init
<1>6. faults \in [crash : 0 .. MaxCrashes, stall : 0 .. MaxStalls, db : 0 .. MaxDbErrors]
  BY RuntimeAssumption DEF Init
<1> QED
  BY <1>1, <1>2, <1>3, <1>4, <1>5, <1>6 DEF Init, TypeOK

LEMMA TypeApi == TypeOK /\ (SendMessage \/ Archive \/ CommandExits) => TypeOK'
<1>1. CASE TypeOK /\ SendMessage
  <2>1. log' \in Seq(Event)
    BY <1>1, EventTypes DEF SendMessage, TypeOK
  <2>2. messages' \in 0 .. MaxMessages
    BY <1>1, RuntimeAssumption DEF SendMessage, TypeOK
  <2>3. Queued \in JobRow
    BY DEF Queued, NoJob, JobRow
  <2>4. jobs' \in [JobId -> JobRow]
    BY <1>1, <2>3 DEF SendMessage, TypeOK
  <2> QED
    BY <1>1, <2>1, <2>2, <2>4 DEF SendMessage, TypeOK
<1>2. CASE TypeOK /\ Archive
  BY <1>2 DEF Archive, TypeOK, Status
<1>3. CASE TypeOK /\ CommandExits
  BY <1>3 DEF CommandExits, TypeOK
<1> QED
  BY <1>1, <1>2, <1>3

\* The lease bit of a job row may be written at will.
LEMMA LeaseType ==
  ASSUME TypeOK, NEW j \in JobId, NEW b \in BOOLEAN
  PROVE  [jobs EXCEPT ![j].lease = b] \in [JobId -> JobRow]
BY DEF TypeOK, JobRow

LEMMA SettledType ==
  ASSUME TypeOK, NEW s \in Slots
  PROVE  Settled(s) \in [JobId -> JobRow]
<1> DEFINE j == slots[s].job
<1>1. j \in JobId /\ jobs \in [JobId -> JobRow]
  BY SlotTypes DEF TypeOK
<1>2. Ack(j) \in [JobId -> JobRow]
  BY <1>1 DEF Ack, NoJob, JobRow
<1>3. Nack(j) \in [JobId -> JobRow]
  <2> DEFINE state == IF jobs[j].attempts >= MaxAttempts THEN "dead" ELSE "queued"
             new == [jobs[j] EXCEPT !.lease = FALSE, !.state = state]
  <2>1. Nack(j) = jobs \/ Nack(j) = [jobs EXCEPT ![j] = new]
    BY <1>1 DEF Nack
  <2>2. state \in {"dead", "queued"} /\ jobs[j] \in JobRow
    BY <1>1
  <2> HIDE DEF state
  <2>3. new \in JobRow
    BY <2>2 DEF JobRow
  <2> QED
    BY <1>1, <2>1, <2>3
<1> QED
  BY <1>2, <1>3 DEF Settled

LEMMA TypeQueue ==
  ASSUME TypeOK, NEW s \in Slots,
         \/ Pull(s) \/ Heartbeat(s) \/ Stall(s) \/ Crash(s)
         \/ Settle(s) \/ SettleThrows(s)
  PROVE  TypeOK'
<1>1. slots[s].job \in JobId /\ jobs \in [JobId -> JobRow]
  BY SlotTypes DEF TypeOK
<1>2. CASE Pull(s)
  <2>1. PICK j \in JobId :
          /\ jobs' = [jobs EXCEPT ![j] = [state |-> "running", lease |-> TRUE,
                                          attempts |-> @.attempts + 1]]
          /\ slots' = [slots EXCEPT ![s] = [Idle EXCEPT !.pc = "gate", !.job = j,
                                                       !.last = LastAttempt(j)]]
    BY <1>2 DEF Pull
  <2>2. jobs[j].attempts \in Nat
    BY <1>1 DEF JobRow
  <2>3. jobs' \in [JobId -> JobRow]
    BY <1>1, <2>1, <2>2 DEF JobRow
  <2>4. [Idle EXCEPT !.pc = "gate", !.job = j, !.last = LastAttempt(j)] \in Slot
    <3>1. LastAttempt(j) \in BOOLEAN
      BY <2>2, RuntimeAssumption DEF LastAttempt
    <3>2. \A b \in BOOLEAN :
            [Idle EXCEPT !.pc = "gate", !.job = j, !.last = b] \in Slot
      BY IdleType, SlotUpdates DEF Pc
    <3> QED
      BY <3>1, <3>2
  <2>5. slots' \in [Slots -> Slot]
    BY <2>1, <2>4, SlotTypes
  <2> QED
    BY <1>2, <2>3, <2>5 DEF Pull, TypeOK
<1>3. CASE Heartbeat(s)
  BY <1>1, <1>3, LeaseType DEF Heartbeat, TypeOK
<1>4. CASE Stall(s)
  <2>1. faults' \in [crash : 0 .. MaxCrashes, stall : 0 .. MaxStalls,
                     db : 0 .. MaxDbErrors]
    <3>1. faults.stall < MaxStalls /\ faults' = [faults EXCEPT !.stall = @ + 1]
      BY <1>4 DEF Stall
    <3>2. faults \in [crash : 0 .. MaxCrashes, stall : 0 .. MaxStalls,
                      db : 0 .. MaxDbErrors]
      BY DEF TypeOK
    <3>3. faults.stall + 1 \in 0 .. MaxStalls
      BY <3>1, <3>2, RuntimeAssumption
    <3> QED
      BY <3>1, <3>2, <3>3
  <2> QED
    BY <1>1, <1>4, <2>1, LeaseType DEF Stall, TypeOK
<1>5. CASE Crash(s)
  <2>1. faults' \in [crash : 0 .. MaxCrashes, stall : 0 .. MaxStalls,
                     db : 0 .. MaxDbErrors]
    <3>1. faults.crash < MaxCrashes /\ faults' = [faults EXCEPT !.crash = @ + 1]
      BY <1>5 DEF Crash
    <3>2. faults \in [crash : 0 .. MaxCrashes, stall : 0 .. MaxStalls,
                      db : 0 .. MaxDbErrors]
      BY DEF TypeOK
    <3>3. faults.crash + 1 \in 0 .. MaxCrashes
      BY <3>1, <3>2, RuntimeAssumption
    <3> QED
      BY <3>1, <3>2, <3>3
  <2>2. slots' \in [Slots -> Slot]
    BY <1>5, IdleType, SlotTypes DEF Crash
  <2> QED
    BY <1>5, <2>1, <2>2 DEF Crash, TypeOK
<1>6. CASE Settle(s)
  <2>1. slots' \in [Slots -> Slot]
    BY <1>6, IdleType, SlotTypes DEF Settle
  <2> QED
    BY <1>6, <2>1, SettledType DEF Settle, TypeOK
<1>7. CASE SettleThrows(s)
  <2>1. slots' \in [Slots -> Slot]
    <3>1. CASE slots[s].outcome = "threw"
      BY <1>7, <3>1, IdleType, SlotTypes DEF SettleThrows
    <3>2. CASE slots[s].outcome # "threw"
      BY <1>7, <3>2, ReturnType DEF SettleThrows, Outcome
    <3> QED
      BY <3>1, <3>2
  <2>2. jobs' \in [JobId -> JobRow]
    BY <1>1, <1>7, SettledType DEF SettleThrows
  <2> QED
    BY <1>7, <2>1, <2>2, DbFaultType DEF SettleThrows, TypeOK
<1> QED
  BY <1>2, <1>3, <1>4, <1>5, <1>6, <1>7

LEMMA TypeExpire ==
  ASSUME TypeOK, NEW j \in JobId, ExpireLease(j)
  PROVE  TypeOK'
BY LeaseType DEF ExpireLease, TypeOK

LEMMA TypeTurn ==
  ASSUME TypeOK, NEW s \in Slots, TurnStep(s)
  PROVE  TypeOK'
<1>1. CASE Gate(s)
  <2>1. CASE session.status = "provisioning"
    BY <1>1, <2>1, ReturnType DEF Gate, Outcome, TypeOK
  <2>2. CASE session.status \in {"failed", "archived"}
    BY <1>1, <2>2, ReturnType DEF Gate, Outcome, TypeOK
  <2>3. CASE session.status = "ready"
    <3> DEFINE new == [slots[s] EXCEPT !.pc = "read", !.box = session.box]
    <3>1. slots' = [slots EXCEPT ![s] = new]
      BY <1>1, <2>3, SlotTypes DEF Gate
    <3>2. new \in Slot
      BY SlotTypes, SlotUpdates DEF TypeOK, Pc
    <3> QED
      BY <1>1, <3>1, <3>2, SlotTypes DEF Gate, TypeOK
  <2> QED
    BY <2>1, <2>2, <2>3 DEF TypeOK, Status
<1>2. CASE ReadEvents(s)
  <2> DEFINE new == [slots[s] EXCEPT !.pc = "act", !.mem = log]
  <2>1. slots' = [slots EXCEPT ![s] = new]
    BY <1>2, SlotTypes DEF ReadEvents
  <2>2. new \in Slot
    BY SlotTypes, SlotUpdates DEF TypeOK, Pc
  <2> QED
    BY <1>2, <2>1, <2>2, SlotTypes DEF ReadEvents, TypeOK
<1>3. CASE Infer(s)
  <2>1. log' \in Seq(Event) /\ slots' \in [Slots -> Slot]
    BY <1>3, EventTypes, AppendAndLoopType DEF Infer
  <2> QED
    BY <1>3, <2>1 DEF Infer, TypeOK
<1>4. CASE Noop(s)
  BY <1>4, ReturnType DEF Noop, Outcome, TypeOK
<1>5. CASE Finish(s)
  <2>1. log' \in Seq(Event) /\ slots' \in [Slots -> Slot]
    BY <1>5, EventTypes, AppendAndReturnType DEF Finish, Outcome
  <2> QED
    BY <1>5, <2>1 DEF Finish, TypeOK
<1>6. CASE ExhaustBudget(s)
  <2>1. log' \in Seq(Event) /\ slots' \in [Slots -> Slot]
    BY <1>6, EventTypes, AppendAndReturnType DEF ExhaustBudget, Outcome, ErrorClass
  <2> QED
    BY <1>6, <2>1 DEF ExhaustBudget, TypeOK
<1>7. CASE LlmFails(s)
  <2> DEFINE new == [slots[s] EXCEPT !.pc = "fail", !.class = "LLM_PERMANENT"]
  <2>1. new \in Slot
    BY SlotTypes, SlotUpdates DEF Pc, ErrorClass
  <2>2. slots' \in [Slots -> Slot]
    <3>1. CASE MapError(s, "INTERNAL")
      BY <3>1, MapErrorType DEF ErrorClass
    <3>2. CASE ~MapError(s, "INTERNAL")
      <4>1. slots' = [slots EXCEPT ![s] = new]
        BY <1>7, <3>2, SlotTypes DEF LlmFails
      <4> QED
        BY <2>1, <4>1, SlotTypes
    <3> QED
      BY <3>1, <3>2
  <2> QED
    BY <1>7, <2>2 DEF LlmFails, TypeOK
<1>8. CASE StartExec(s)
  <2>1. slots' \in [Slots -> Slot]
    BY <1>8, GotoType DEF StartExec, Pc
  <2>2. slots[s].box \in Nat /\ Key(s) \in Nat
    BY KeyNat DEF TypeOK, Slot
  <2>3. started' \subseteq Nat \X Nat /\ started \subseteq started'
    BY <1>8, <2>2 DEF StartExec, TypeOK
  <2> QED
    BY <1>8, <2>1, <2>3 DEF StartExec, TypeOK
<1>9. CASE Collect(s)
  <2>1. log' \in Seq(Event) /\ slots' \in [Slots -> Slot]
    BY <1>9, EventTypes, KeyNat, AppendAndLoopType DEF Collect
  <2> QED
    BY <1>9, <2>1 DEF Collect, TypeOK
<1>10. CASE ExecFails(s)
  <2>1. slots' \in [Slots -> Slot]
    BY <1>10, GotoType, MapErrorType DEF ExecFails, Pc, ErrorClass
  <2> QED
    BY <1>10, <2>1 DEF ExecFails, TypeOK
<1>11. CASE Reboot(s)
  <2> DEFINE new == [slots[s] EXCEPT !.pc = "act", !.rebooted = TRUE]
  <2>1. slots' = [slots EXCEPT ![s] = new]
    BY <1>11, SlotTypes DEF Reboot
  <2>2. slots' \in [Slots -> Slot]
    BY <2>1, SlotTypes, SlotUpdates DEF Pc
  <2>3. slots[s].box \in Nat
    BY DEF TypeOK, Slot
  <2>4. session' \in [status : Status, box : Nat, archived : BOOLEAN]
    BY <1>11, <2>3 DEF Reboot, TypeOK
  <2> QED
    BY <1>11, <2>2, <2>4 DEF Reboot, TypeOK
<1>12. CASE RebootFails(s)
  <2>1. slots' \in [Slots -> Slot]
    BY <1>12, MapErrorType DEF RebootFails, ErrorClass
  <2> QED
    BY <1>12, <2>1 DEF RebootFails, TypeOK
<1>13. CASE RecordFailure(s)
  <2>1. slots[s].class \in ErrorClass \cup {"none"}
    BY DEF TypeOK, Slot
  <2>2. log' \in Seq(Event) /\ slots' \in [Slots -> Slot]
    BY <1>13, <2>1, EventTypes, AppendAndReturnType DEF RecordFailure, Outcome
  <2> QED
    BY <1>13, <2>2 DEF RecordFailure, TypeOK
<1> QED
  BY <1>1, <1>2, <1>3, <1>4, <1>5, <1>6, <1>7, <1>8, <1>9, <1>10, <1>11, <1>12,
     <1>13 DEF TurnStep

LEMMA ProvisionWritesType ==
  ASSUME TypeOK, NEW s \in Slots, ProvisionWrites(s)
  PROVE  /\ log' \in Seq(Event)
         /\ session' \in [status : Status, box : Nat, archived : BOOLEAN]
<1>1. slots[s].box \in Nat
  BY DEF TypeOK, Slot
<1>2. "SANDBOX_FATAL" \in ErrorClass
  BY DEF ErrorClass
<1> log \in Seq(Event) /\ session \in [status : Status, box : Nat, archived : BOOLEAN]
  BY DEF TypeOK
<1>3. CASE slots[s].goal = "ready"
  <2>1. log' = Append(log, Provisioned)
    BY <1>3 DEF ProvisionWrites
  <2>2. session' = [session EXCEPT !.status = "ready", !.box = slots[s].box]
    BY <1>3 DEF ProvisionWrites
  <2>3. log' \in Seq(Event)
    BY <2>1, EventTypes
  <2>4. session' \in [status : Status, box : Nat, archived : BOOLEAN]
    BY <1>1, <2>2 DEF Status
  <2> QED
    BY <2>3, <2>4
<1>4. CASE slots[s].goal # "ready"
  <2>1. log' = Append(log, TurnFailed("SANDBOX_FATAL"))
    BY <1>4 DEF ProvisionWrites
  <2>2. session' = [session EXCEPT !.status = "failed"]
    BY <1>4 DEF ProvisionWrites
  <2>3. log' \in Seq(Event)
    BY <1>2, <2>1, EventTypes
  <2>4. session' \in [status : Status, box : Nat, archived : BOOLEAN]
    BY <2>2 DEF Status
  <2> QED
    BY <2>3, <2>4
<1> QED
  BY <1>3, <1>4

LEMMA TypeProvision ==
  ASSUME TypeOK, NEW s \in Slots, ProvisionStep(s)
  PROVE  TypeOK'
<1>1. CASE ProvisionGate(s)
  <2>1. slots' \in [Slots -> Slot]
    BY <1>1, GotoType, ReturnType DEF ProvisionGate, Pc, Outcome
  <2> QED
    BY <1>1, <2>1 DEF ProvisionGate, TypeOK
<1>2. CASE CreateBox(s)
  <2> DEFINE new == [slots[s] EXCEPT !.pc = "open", !.goal = "ready", !.box = boxes']
  <2>1. boxes' \in Nat
    BY <1>2 DEF CreateBox, TypeOK
  <2>2. slots' = [slots EXCEPT ![s] = new]
    BY <1>2, SlotTypes DEF CreateBox
  <2>3. slots' \in [Slots -> Slot]
    BY <2>1, <2>2, SlotTypes, SlotUpdates DEF Pc
  <2> QED
    BY <1>2, <2>1, <2>3 DEF CreateBox, TypeOK
<1>3. CASE CreateBoxFails(s)
  BY <1>3, GiveUpProvisionType DEF CreateBoxFails, TypeOK
<1>4. CASE OpenTx(s)
  <2> DEFINE new == [slots[s] EXCEPT !.pc = "commit", !.seq = Len(log) + 1]
  <2>1. Len(log) + 1 \in Nat
    BY DEF TypeOK
  <2>2. slots' = [slots EXCEPT ![s] = new]
    BY <1>4, SlotTypes DEF OpenTx
  <2>3. slots' \in [Slots -> Slot]
    BY <2>1, <2>2, SlotTypes, SlotUpdates DEF Pc
  <2> QED
    BY <1>4, <2>3 DEF OpenTx, TypeOK
<1>5. CASE CommitTx(s)
  <2>1. slots' \in [Slots -> Slot]
    BY <1>5, ReturnType DEF CommitTx, Outcome
  <2>2. /\ log' \in Seq(Event)
        /\ session' \in [status : Status, box : Nat, archived : BOOLEAN]
    BY <1>5, ProvisionWritesType DEF CommitTx, TypeOK
  <2> QED
    BY <1>5, <2>1, <2>2 DEF CommitTx, TypeOK
<1> QED
  BY <1>1, <1>2, <1>3, <1>4, <1>5 DEF ProvisionStep

\* An event the slot is about to insert has the type of events.
LEMMA AppendableType ==
  ASSUME TypeOK, NEW s \in Slots, NEW e \in Appendable(s)
  PROVE  e \in Event
<1>1. slots[s].class \in ErrorClass \cup {"none"} /\ "BUDGET" \in ErrorClass
  BY DEF TypeOK, Slot, ErrorClass
<1> QED
  BY <1>1, KeyNat, EventTypes DEF Appendable

LEMMA TypeThrows ==
  ASSUME TypeOK, NEW s \in Slots,
         ReadThrows(s) \/ AppendThrows(s) \/ TxThrows(s)
  PROVE  TypeOK'
<1>1. CASE ReadThrows(s)
  BY <1>1, ReturnType, DbFaultType DEF ReadThrows, Outcome, TypeOK
<1>2. CASE AppendThrows(s)
  <2>1. log' \in Seq(Event)
    <3>1. CASE UNCHANGED log
      BY <3>1 DEF TypeOK
    <3>2. CASE \E e \in Appendable(s) : log' = Append(log, e)
      BY <3>2, AppendableType DEF TypeOK
    <3> QED
      BY <1>2, <3>1, <3>2 DEF AppendThrows
  <2>2. slots' \in [Slots -> Slot]
    BY <1>2, ReturnType, MapErrorType DEF AppendThrows, Outcome, ErrorClass
  <2> QED
    BY <1>2, <2>1, <2>2, DbFaultType DEF AppendThrows, TypeOK
<1>3. CASE TxThrows(s)
  <2>1. slots' \in [Slots -> Slot]
    BY <1>3, ReturnType, GiveUpProvisionType DEF TxThrows, Outcome
  <2>2. /\ log' \in Seq(Event)
        /\ session' \in [status : Status, box : Nat, archived : BOOLEAN]
    BY <1>3, ProvisionWritesType DEF TxThrows, TypeOK
  <2> QED
    BY <1>3, <2>1, <2>2, DbFaultType DEF TxThrows, TypeOK
<1> QED
  BY <1>1, <1>2, <1>3

LEMMA TypeNext == TypeOK /\ [Next]_vars => TypeOK'
<1> SUFFICES ASSUME TypeOK, [Next]_vars
             PROVE  TypeOK'
  OBVIOUS
<1>1. CASE SendMessage \/ Archive \/ CommandExits
  BY <1>1, TypeApi
<1>2. CASE \E j \in JobId : ExpireLease(j)
  BY <1>2, TypeExpire
<1>3. CASE \E s \in Slots : Pull(s) \/ Heartbeat(s) \/ Work(s) \/ Fault(s)
  <2> PICK s \in Slots : Pull(s) \/ Heartbeat(s) \/ Work(s) \/ Fault(s)
    BY <1>3
  <2>1. CASE TurnStep(s)
    BY <2>1, TypeTurn
  <2>2. CASE ProvisionStep(s)
    BY <2>2, TypeProvision
  <2>3. CASE \/ Pull(s) \/ Heartbeat(s) \/ Stall(s) \/ Crash(s)
              \/ Settle(s) \/ SettleThrows(s)
    BY <2>3, TypeQueue
  <2>4. CASE ReadThrows(s) \/ AppendThrows(s) \/ TxThrows(s)
    BY <2>4, TypeThrows
  <2> QED
    BY <2>1, <2>2, <2>3, <2>4 DEF Work, Fault
<1>4. CASE UNCHANGED vars
  BY <1>4 DEF vars, TypeOK
<1> QED
  BY <1>1, <1>2, <1>3, <1>4 DEF Next

\* Every variable keeps its type, whatever faults strike: in particular every
\* row of the log parses and every job and slot refers to a job that exists.
THEOREM TypeCorrect == Spec => []TypeOK
<1>1. Init => TypeOK
  BY TypeInit
<1>2. TypeOK /\ [Next]_vars => TypeOK'
  BY TypeNext
<1> QED
  BY <1>1, <1>2, PTL DEF Spec
-----------------------------------------------------------------------------
(* While leases hold: no slot has stalled and no database call has thrown. *)
(* Crashes do not matter, their jobs are claimed again after the lease.    *)

LeasesHold == faults.stall = 0 /\ faults.db = 0

\* What the slots do as long as that is so.
Handles(s) == TurnStep(s) \/ ProvisionStep(s)

HeldNext ==
  \/ SendMessage \/ Archive \/ CommandExits \/ UNCHANGED vars
  \/ \E j \in JobId : ExpireLease(j)
  \/ \E s \in Slots : Pull(s) \/ Heartbeat(s) \/ Crash(s) \/ Settle(s) \/ Handles(s)

LEMMA DbFaultCounts ==
  ASSUME TypeOK, DbFault
  PROVE  ~LeasesHold'
<1>1. faults' = [faults EXCEPT !.db = @ + 1]
  BY DEF DbFault
<1>2. faults \in [crash : 0 .. MaxCrashes, stall : 0 .. MaxStalls, db : 0 .. MaxDbErrors]
  BY DEF TypeOK
<1>3. faults'.db = faults.db + 1 /\ faults.db \in Nat
  BY <1>1, <1>2, RuntimeAssumption
<1> QED
  BY <1>3 DEF LeasesHold

LEMMA StallCounts ==
  ASSUME TypeOK, NEW s \in Slots, Stall(s)
  PROVE  ~LeasesHold'
<1>1. faults' = [faults EXCEPT !.stall = @ + 1]
  BY DEF Stall
<1>2. faults \in [crash : 0 .. MaxCrashes, stall : 0 .. MaxStalls, db : 0 .. MaxDbErrors]
  BY DEF TypeOK
<1>3. faults'.stall = faults.stall + 1 /\ faults.stall \in Nat
  BY <1>1, <1>2, RuntimeAssumption
<1> QED
  BY <1>3 DEF LeasesHold

\* A fault is never forgotten, so leases that hold held all along.
LEMMA HeldStep ==
  ASSUME TypeOK, [Next]_vars, LeasesHold'
  PROVE  LeasesHold /\ HeldNext
<1>1. CASE SendMessage \/ Archive \/ CommandExits \/ UNCHANGED vars
  BY <1>1 DEF SendMessage, Archive, CommandExits, vars, LeasesHold, HeldNext
<1>2. CASE \E j \in JobId : ExpireLease(j)
  BY <1>2 DEF ExpireLease, LeasesHold, HeldNext
<1>3. CASE \E s \in Slots : Pull(s) \/ Heartbeat(s) \/ Work(s) \/ Fault(s)
  <2> PICK s \in Slots : Pull(s) \/ Heartbeat(s) \/ Work(s) \/ Fault(s)
    BY <1>3
  <2>1. CASE Pull(s) \/ Heartbeat(s) \/ Settle(s)
    BY <2>1 DEF Pull, Heartbeat, Settle, LeasesHold, HeldNext
  <2>2. CASE TurnStep(s)
    <3>1. UNCHANGED faults
      BY <2>2 DEF TurnStep, Gate, ReadEvents, Infer, Noop, Finish, ExhaustBudget,
         LlmFails, StartExec, Collect, ExecFails, Reboot, RebootFails, RecordFailure
    <3> QED
      BY <2>2, <3>1 DEF LeasesHold, HeldNext, Handles
  <2>3. CASE ProvisionStep(s)
    <3>1. UNCHANGED faults
      BY <2>3 DEF ProvisionStep, ProvisionGate, CreateBox, CreateBoxFails, OpenTx,
         CommitTx
    <3> QED
      BY <2>3, <3>1 DEF LeasesHold, HeldNext, Handles
  <2>4. CASE Crash(s)
    <3>1. faults' = [faults EXCEPT !.crash = @ + 1]
      BY <2>4 DEF Crash
    <3>2. faults \in [crash : 0 .. MaxCrashes, stall : 0 .. MaxStalls,
                      db : 0 .. MaxDbErrors]
      BY DEF TypeOK
    <3>3. faults'.stall = faults.stall /\ faults'.db = faults.db
      BY <3>1, <3>2
    <3> QED
      BY <2>4, <3>3 DEF LeasesHold, HeldNext
  <2>5. CASE Stall(s)
    BY <2>5, StallCounts
  <2>6. CASE ReadThrows(s) \/ AppendThrows(s) \/ TxThrows(s) \/ SettleThrows(s)
    BY <2>6, DbFaultCounts DEF ReadThrows, AppendThrows, TxThrows, SettleThrows
  <2> QED
    BY <2>1, <2>2, <2>3, <2>4, <2>5, <2>6 DEF Work, Fault
<1> QED
  BY <1>1, <1>2, <1>3 DEF Next

-----------------------------------------------------------------------------
(* A handler keeps its job: it writes its own slot, and no row of the queue. *)

\* The sandbox it names is its own, the session's or one it created.
KeepsJob(s) ==
  \E r : /\ slots' = [slots EXCEPT ![s] = r]
         /\ r.job = slots[s].job /\ r.pc # "idle"
         /\ r.box \in {0, slots[s].box, session.box, boxes'}
         /\ r.pc = "box" => r.job = 0

LEMMA GotoKeeps ==
  ASSUME TypeOK, NEW s \in Slots, NEW pc, pc # "idle", Goto(s, pc),
         pc = "box" => slots[s].job = 0
  PROVE  KeepsJob(s)
<1> DEFINE r == [slots[s] EXCEPT !.pc = pc]
<1>1. slots[s] \in Slot /\ slots \in [Slots -> Slot]
  BY DEF TypeOK
<1>2. slots' = [slots EXCEPT ![s] = r]
  BY <1>1 DEF Goto
<1>3. r.job = slots[s].job /\ r.pc = pc /\ r.box = slots[s].box
  BY <1>1 DEF Slot
<1> HIDE DEF r
<1> QED
  BY <1>2, <1>3 DEF KeepsJob

LEMMA ReturnKeeps ==
  ASSUME NEW s \in Slots, NEW outcome, Return(s, outcome)
  PROVE  KeepsJob(s)
<1> DEFINE r == [Idle EXCEPT !.pc = "settle", !.job = slots[s].job,
                             !.outcome = outcome]
<1>1. slots' = [slots EXCEPT ![s] = r]
  BY DEF Return
<1>2. r.job = slots[s].job /\ r.pc = "settle" /\ r.box = 0
  BY DEF Idle
<1> HIDE DEF r
<1> QED
  BY <1>1, <1>2 DEF KeepsJob

LEMMA MapErrorKeeps ==
  ASSUME TypeOK, NEW s \in Slots, NEW class, MapError(s, class)
  PROVE  KeepsJob(s)
<1>1. CASE slots[s].last
  <2> DEFINE r == [slots[s] EXCEPT !.pc = "fail", !.class = class]
  <2>1. slots[s] \in Slot /\ slots \in [Slots -> Slot]
    BY DEF TypeOK
  <2>2. slots' = [slots EXCEPT ![s] = r]
    BY <1>1, <2>1 DEF MapError
  <2>3. r.job = slots[s].job /\ r.pc = "fail" /\ r.box = slots[s].box
    BY <2>1 DEF Slot
  <2> HIDE DEF r
  <2> QED
    BY <2>2, <2>3 DEF KeepsJob
<1>2. CASE ~slots[s].last
  BY <1>2, ReturnKeeps DEF MapError
<1> QED
  BY <1>1, <1>2

LEMMA AppendAndLoopKeeps ==
  ASSUME TypeOK, NEW s \in Slots, NEW e, AppendAndLoop(s, e)
  PROVE  KeepsJob(s)
<1>1. CASE SeqTaken(s)
  BY <1>1, ReturnKeeps DEF AppendAndLoop
<1>2. CASE ~SeqTaken(s)
  <2> DEFINE r == [slots[s] EXCEPT !.pc = "act", !.rebooted = FALSE,
                                   !.mem = Append(slots[s].mem, e)]
  <2>1. slots[s] \in Slot /\ slots \in [Slots -> Slot]
    BY DEF TypeOK
  <2>2. slots' = [slots EXCEPT ![s] = r]
    BY <1>2, <2>1 DEF AppendAndLoop
  <2>3. r.job = slots[s].job /\ r.pc = "act" /\ r.box = slots[s].box
    BY <2>1 DEF Slot
  <2> HIDE DEF r
  <2> QED
    BY <2>2, <2>3 DEF KeepsJob
<1> QED
  BY <1>1, <1>2

LEMMA GiveUpProvisionKeeps ==
  ASSUME TypeOK, NEW s \in Slots, GiveUpProvision(s)
  PROVE  KeepsJob(s)
<1>1. CASE ~slots[s].last
  BY <1>1, ReturnKeeps DEF GiveUpProvision
<1>2. CASE slots[s].last
  <2> DEFINE r == [slots[s] EXCEPT !.pc = "open", !.goal = "failed"]
  <2>1. slots[s] \in Slot /\ slots \in [Slots -> Slot]
    BY DEF TypeOK
  <2>2. slots' = [slots EXCEPT ![s] = r]
    BY <1>2, <2>1 DEF GiveUpProvision
  <2>3. r.job = slots[s].job /\ r.pc = "open" /\ r.box = slots[s].box
    BY <2>1 DEF Slot
  <2> HIDE DEF r
  <2> QED
    BY <2>2, <2>3 DEF KeepsJob
<1> QED
  BY <1>1, <1>2

\* Fields of a slot written at once, the job not among them.
LEMMA UpdateKeeps ==
  ASSUME TypeOK, NEW s \in Slots, NEW r,
         slots' = [slots EXCEPT ![s] = r], r.job = slots[s].job,
         r.pc \notin {"idle", "box"},
         r.box \in {slots[s].box, session.box, boxes'}
  PROVE  KeepsJob(s)
BY DEF KeepsJob

LEMMA TurnKeepsJob ==
  ASSUME TypeOK, NEW s \in Slots, TurnStep(s)
  PROVE  KeepsJob(s) /\ Busy(s) /\ UNCHANGED <<jobs, messages, faults>>
<1>0. slots[s] \in Slot /\ slots \in [Slots -> Slot]
  BY DEF TypeOK
<1>1. CASE Gate(s)
  <2>1. CASE session.status = "ready"
    <3> DEFINE r == [slots[s] EXCEPT !.pc = "read", !.box = session.box]
    <3>1. slots' = [slots EXCEPT ![s] = r]
      BY <1>0, <1>1, <2>1 DEF Gate
    <3>2. r.job = slots[s].job /\ r.pc = "read" /\ r.box = session.box
      BY <1>0 DEF Slot
    <3> HIDE DEF r
    <3> QED
      BY <1>1, <3>1, <3>2, UpdateKeeps DEF Gate, Busy
  <2>2. CASE session.status # "ready"
    <3>1. \E outcome : Return(s, outcome)
      BY <1>1, <2>2 DEF Gate, TypeOK, Status
    <3> QED
      BY <1>1, <3>1, ReturnKeeps DEF Gate, Busy
  <2> QED
    BY <2>1, <2>2
<1>2. CASE ReadEvents(s)
  <2> DEFINE r == [slots[s] EXCEPT !.pc = "act", !.mem = log]
  <2>1. slots' = [slots EXCEPT ![s] = r]
    BY <1>0, <1>2 DEF ReadEvents
  <2>2. r.job = slots[s].job /\ r.pc = "act" /\ r.box = slots[s].box
    BY <1>0 DEF Slot
  <2> HIDE DEF r
  <2> QED
    BY <1>2, <2>1, <2>2, UpdateKeeps DEF ReadEvents, Busy
<1>3. CASE Infer(s)
  BY <1>3, AppendAndLoopKeeps DEF Infer, At, Busy
<1>4. CASE Noop(s)
  BY <1>4, ReturnKeeps DEF Noop, At, Busy
<1>5. CASE Finish(s)
  BY <1>5, ReturnKeeps DEF Finish, AppendAndReturn, At, Busy
<1>6. CASE ExhaustBudget(s)
  BY <1>6, ReturnKeeps DEF ExhaustBudget, AppendAndReturn, At, Busy
<1>7. CASE LlmFails(s)
  <2> DEFINE r == [slots[s] EXCEPT !.pc = "fail", !.class = "LLM_PERMANENT"]
  <2>1. r.job = slots[s].job /\ r.pc = "fail" /\ r.box = slots[s].box
    BY <1>0 DEF Slot
  <2>2. slots' = [slots EXCEPT ![s] = r] \/ MapError(s, "INTERNAL")
    BY <1>0, <1>7 DEF LlmFails
  <2> HIDE DEF r
  <2> QED
    BY <1>7, <2>1, <2>2, UpdateKeeps, MapErrorKeeps DEF LlmFails, At, Busy
<1>8. CASE StartExec(s)
  BY <1>8, GotoKeeps DEF StartExec, At, Busy
<1>9. CASE Collect(s)
  BY <1>9, AppendAndLoopKeeps DEF Collect, Busy
<1>10. CASE ExecFails(s)
  BY <1>10, GotoKeeps, MapErrorKeeps DEF ExecFails, At, Busy
<1>11. CASE Reboot(s)
  <2> DEFINE r == [slots[s] EXCEPT !.pc = "act", !.rebooted = TRUE]
  <2>1. slots' = [slots EXCEPT ![s] = r]
    BY <1>0, <1>11 DEF Reboot
  <2>2. r.job = slots[s].job /\ r.pc = "act" /\ r.box = slots[s].box
    BY <1>0 DEF Slot
  <2> HIDE DEF r
  <2> QED
    BY <1>11, <2>1, <2>2, UpdateKeeps DEF Reboot, Busy
<1>12. CASE RebootFails(s)
  BY <1>12, MapErrorKeeps DEF RebootFails, Busy
<1>13. CASE RecordFailure(s)
  BY <1>13, ReturnKeeps DEF RecordFailure, AppendAndReturn, Busy
<1> QED
  BY <1>1, <1>2, <1>3, <1>4, <1>5, <1>6, <1>7, <1>8, <1>9, <1>10, <1>11, <1>12,
     <1>13 DEF TurnStep

LEMMA ProvisionKeepsJob ==
  ASSUME TypeOK, NEW s \in Slots, ProvisionStep(s)
  PROVE  KeepsJob(s) /\ Busy(s) /\ UNCHANGED <<jobs, messages, faults>>
<1>0. slots[s] \in Slot /\ slots \in [Slots -> Slot]
  BY DEF TypeOK
<1>1. CASE ProvisionGate(s)
  BY <1>1, GotoKeeps, ReturnKeeps DEF ProvisionGate, Busy
<1>2. CASE CreateBox(s)
  <2> DEFINE r == [slots[s] EXCEPT !.pc = "open", !.goal = "ready", !.box = boxes']
  <2>1. slots' = [slots EXCEPT ![s] = r]
    BY <1>0, <1>2 DEF CreateBox
  <2>2. r.job = slots[s].job /\ r.pc = "open" /\ r.box = boxes'
    BY <1>0 DEF Slot
  <2> HIDE DEF r
  <2> QED
    BY <1>2, <2>1, <2>2, UpdateKeeps DEF CreateBox, Busy
<1>3. CASE CreateBoxFails(s)
  BY <1>3, GiveUpProvisionKeeps DEF CreateBoxFails, Busy
<1>4. CASE OpenTx(s)
  <2> DEFINE r == [slots[s] EXCEPT !.pc = "commit", !.seq = Len(log) + 1]
  <2>1. slots' = [slots EXCEPT ![s] = r]
    BY <1>0, <1>4 DEF OpenTx
  <2>2. r.job = slots[s].job /\ r.pc = "commit" /\ r.box = slots[s].box
    BY <1>0 DEF Slot
  <2> HIDE DEF r
  <2> QED
    BY <1>4, <2>1, <2>2, UpdateKeeps DEF OpenTx, Busy
<1>5. CASE CommitTx(s)
  BY <1>5, ReturnKeeps DEF CommitTx, Busy
<1> QED
  BY <1>1, <1>2, <1>3, <1>4, <1>5 DEF ProvisionStep
-----------------------------------------------------------------------------
(* One slot at a time drives the session's turns, as long as leases hold.  *)

Active(j) == jobs[j].state \in {"queued", "running"}

\* The rows of the queue belong to accepted messages, one active at a time.
OneActive ==
  /\ \A j \in JobId : jobs[j].state # "none" => j <= messages
  /\ \A i, j \in JobId \ {0} : Active(i) /\ Active(j) => i = j

\* A claimed job is leased to the one slot that works on it.
OneHolder ==
  /\ \A s \in Slots :
       Busy(s) => jobs[slots[s].job].state = "running" /\ jobs[slots[s].job].lease
  /\ \A s, t \in Slots : Busy(s) /\ Busy(t) /\ slots[s].job = slots[t].job => s = t

HeldInv == OneActive /\ OneHolder

LEMMA HeldInit == Init => HeldInv
<1> SUFFICES ASSUME Init
             PROVE  HeldInv
  OBVIOUS
<1>1. \A j \in JobId : j # 0 => jobs[j].state = "none"
  BY DEF Init, NoJob
<1>2. 0 <= messages
  BY DEF Init
<1>3. OneActive
  BY <1>1, <1>2 DEF OneActive, Active
<1>4. \A s \in Slots : ~Busy(s)
  BY DEF Init, Busy, Idle
<1> QED
  BY <1>3, <1>4 DEF HeldInv, OneHolder

\* A slot that changes only its own record and keeps its job, or drops it.
LEMMA HeldByWork ==
  ASSUME TypeOK, HeldInv, NEW s \in Slots, NEW r, Busy(s),
         slots' = [slots EXCEPT ![s] = r], UNCHANGED <<jobs, messages>>,
         r.pc = "idle" \/ r.job = slots[s].job
  PROVE  HeldInv'
<1>1. slots'[s] = r /\ \A t \in Slots : t # s => slots'[t] = slots[t]
  BY DEF TypeOK
<1>2. OneActive'
  BY DEF HeldInv, OneActive, Active
<1>3. \A t \in Slots : Busy(t)' => Busy(t) /\ slots'[t].job = slots[t].job
  BY <1>1 DEF Busy
<1>4. OneHolder'
  BY <1>3 DEF HeldInv, OneHolder
<1> QED
  BY <1>2, <1>4 DEF HeldInv

LEMMA HeldByQueue ==
  ASSUME TypeOK, HeldInv, NEW s \in Slots, Pull(s) \/ Settle(s)
  PROVE  HeldInv'
<1>0. jobs \in [JobId -> JobRow] /\ slots \in [Slots -> Slot] /\ slots[s].job \in JobId
  BY SlotTypes DEF TypeOK
<1>1. CASE Pull(s)
  <2>1. PICK j \in JobId :
          /\ ~Busy(s) /\ Claimable(j)
          /\ jobs' = [jobs EXCEPT ![j] = [state |-> "running", lease |-> TRUE,
                                          attempts |-> @.attempts + 1]]
          /\ slots' = [slots EXCEPT ![s] = [Idle EXCEPT !.pc = "gate", !.job = j,
                                                       !.last = LastAttempt(j)]]
          /\ UNCHANGED messages
    BY <1>1 DEF Pull
  <2>2. \A i \in JobId : i # j => jobs'[i] = jobs[i]
    BY <1>0, <2>1
  <2>3. jobs'[j].state = "running" /\ jobs'[j].lease
    BY <1>0, <2>1
  <2>4. slots'[s].job = j /\ \A t \in Slots : t # s => slots'[t] = slots[t]
    BY <1>0, <2>1 DEF Idle
  <2>5. Active(j) /\ jobs[j].state # "none"
    BY <2>1 DEF Claimable, Active
  <2>6. OneActive'
    <3>1. \A i \in JobId : Active(i)' => Active(i)
      BY <2>2, <2>5 DEF Active
    <3>2. \A i \in JobId : jobs'[i].state # "none" => jobs[i].state # "none"
      BY <2>2, <2>5
    <3> QED
      BY <2>1, <3>1, <3>2 DEF HeldInv, OneActive
  <2>7. \A t \in Slots : Busy(t) => slots[t].job # j
    <3> SUFFICES ASSUME NEW t \in Slots, Busy(t), slots[t].job = j
                 PROVE  FALSE
      OBVIOUS
    <3>1. jobs[j].state = "running" /\ jobs[j].lease
      BY DEF HeldInv, OneHolder
    <3> QED
      BY <2>1, <3>1 DEF Claimable
  <2>8. \A t \in Slots : t # s /\ Busy(t)' => Busy(t) /\ slots'[t].job # j
    BY <2>4, <2>7 DEF Busy
  <2>9. \A t \in Slots : slots[t].job \in JobId
    BY SlotTypes
  <2>10. OneHolder'
    <3>1. \A t \in Slots : Busy(t)' =>
            jobs'[slots'[t].job].state = "running" /\ jobs'[slots'[t].job].lease
      <4> SUFFICES ASSUME NEW t \in Slots, Busy(t)'
                   PROVE  jobs'[slots'[t].job].state = "running" /\ jobs'[slots'[t].job].lease
        OBVIOUS
      <4>1. CASE t = s
        BY <2>3, <2>4, <4>1
      <4>2. CASE t # s
        <5>1. Busy(t) /\ slots'[t] = slots[t] /\ slots[t].job # j
          BY <2>4, <2>8, <4>2
        <5>2. jobs'[slots[t].job] = jobs[slots[t].job]
          BY <2>2, <2>9, <5>1
        <5> QED
          BY <5>1, <5>2 DEF HeldInv, OneHolder
      <4> QED
        BY <4>1, <4>2
    <3>2. ASSUME NEW t \in Slots, NEW u \in Slots, Busy(t)', Busy(u)',
                 slots'[t].job = slots'[u].job
          PROVE  t = u
      <4>1. CASE t = s \/ u = s
        BY <2>4, <2>8, <3>2, <4>1
      <4>2. CASE t # s /\ u # s
        BY <2>4, <2>8, <3>2, <4>2 DEF HeldInv, OneHolder
      <4> QED
        BY <4>1, <4>2
    <3> QED
      BY <3>1, <3>2 DEF OneHolder
  <2> QED
    BY <2>6, <2>10 DEF HeldInv
<1>2. CASE Settle(s)
  <2> DEFINE k == slots[s].job
  <2>1. slots' = [slots EXCEPT ![s] = Idle] /\ jobs' = Settled(s) /\ UNCHANGED messages
        /\ Busy(s)
    BY <1>2 DEF Settle, Busy
  <2>2. \A i \in JobId : i # k => jobs'[i] = jobs[i]
    BY <1>0, <2>1 DEF Settled, Ack, Nack
  <2>3. jobs[k].state = "running"
    BY <2>1 DEF HeldInv, OneHolder
  <2>4. OneActive'
    <3>1. \A i \in JobId : Active(i)' => Active(i)
      BY <2>2, <2>3 DEF Active
    <3>2. \A i \in JobId : jobs'[i].state # "none" => jobs[i].state # "none"
      BY <2>2, <2>3
    <3> QED
      BY <2>1, <3>1, <3>2 DEF HeldInv, OneActive
  <2>5. \A t \in Slots : Busy(t)' => t # s /\ Busy(t) /\ slots'[t] = slots[t]
    BY <1>0, <2>1 DEF Busy, Idle
  <2>6. \A t \in Slots : Busy(t)' => slots[t].job # k
    BY <2>1, <2>5 DEF HeldInv, OneHolder
  <2>7. \A t \in Slots : slots[t].job \in JobId
    BY SlotTypes
  <2>8. \A t \in Slots : Busy(t)' => jobs'[slots'[t].job] = jobs[slots[t].job]
    BY <2>2, <2>5, <2>6, <2>7
  <2>9. OneHolder'
    BY <2>5, <2>8 DEF HeldInv, OneHolder
  <2> QED
    BY <2>4, <2>9 DEF HeldInv
<1> QED
  BY <1>1, <1>2

\* Rows of jobs nobody works on.
LEMMA HeldByOthers ==
  ASSUME TypeOK, HeldInv,
         \/ SendMessage \/ Archive \/ CommandExits \/ UNCHANGED vars
         \/ \E j \in JobId : ExpireLease(j)
         \/ \E s \in Slots : Heartbeat(s)
  PROVE  HeldInv'
<1>0. jobs \in [JobId -> JobRow] /\ \A t \in Slots : slots[t].job \in JobId
  BY SlotTypes DEF TypeOK
<1>1. CASE SendMessage
  <2> DEFINE new == messages + 1
  <2>1. /\ jobs' = [jobs EXCEPT ![new] = Queued] /\ messages' = new /\ slots' = slots
        /\ ~HasActiveTurn /\ messages < MaxMessages
    BY <1>1 DEF SendMessage
  <2>2. messages \in Nat /\ new \in JobId \ {0} /\ new > messages
    BY <2>1, RuntimeAssumption DEF TypeOK, JobId
  <2>3. jobs[new].state = "none"
    BY <2>2 DEF HeldInv, OneActive, JobId
  <2>4. jobs'[new] = Queued /\ \A i \in JobId : i # new => jobs'[i] = jobs[i]
    BY <1>0, <2>1, <2>2
  <2>5. \A i \in JobId \ {0} : ~Active(i)
    BY <2>1 DEF HasActiveTurn, Active
  <2>6. OneActive'
    <3>1. \A i \in JobId : jobs'[i].state # "none" => i <= messages'
      BY <2>1, <2>2, <2>4 DEF HeldInv, OneActive, JobId
    <3>2. \A i \in JobId \ {0} : Active(i)' => i = new
      BY <2>4, <2>5 DEF Active
    <3> QED
      BY <3>1, <3>2 DEF OneActive
  <2>7. \A t \in Slots : Busy(t) => slots[t].job # new
    BY <2>3 DEF HeldInv, OneHolder
  <2>8. \A t \in Slots : Busy(t)' => Busy(t) /\ jobs'[slots'[t].job] = jobs[slots[t].job]
    BY <1>0, <2>1, <2>4, <2>7 DEF Busy
  <2>9. OneHolder'
    BY <2>1, <2>8 DEF HeldInv, OneHolder, Busy
  <2> QED
    BY <2>6, <2>9 DEF HeldInv
<1>2. CASE Archive \/ CommandExits \/ UNCHANGED vars
  <2>1. UNCHANGED <<jobs, messages, slots>>
    BY <1>2 DEF Archive, CommandExits, vars
  <2> QED
    BY <2>1 DEF HeldInv, OneActive, OneHolder, Active, Busy
<1>3. CASE \E j \in JobId : ExpireLease(j)
  <2>1. PICK j \in JobId : ExpireLease(j)
    BY <1>3
  <2>2. /\ jobs' = [jobs EXCEPT ![j].lease = FALSE] /\ UNCHANGED <<messages, slots>>
        /\ \A t \in Slots : Busy(t) => slots[t].job # j
    BY <2>1 DEF ExpireLease, Holds
  <2>3. \A i \in JobId : jobs'[i].state = jobs[i].state
    BY <1>0, <2>2 DEF JobRow
  <2>4. \A i \in JobId : i # j => jobs'[i] = jobs[i]
    BY <1>0, <2>2
  <2>5. OneActive'
    BY <2>2, <2>3 DEF HeldInv, OneActive, Active
  <2>6. OneHolder'
    BY <1>0, <2>2, <2>4 DEF HeldInv, OneHolder, Busy
  <2> QED
    BY <2>5, <2>6 DEF HeldInv
<1>4. CASE \E s \in Slots : Heartbeat(s)
  <2>1. PICK s \in Slots : Heartbeat(s)
    BY <1>4
  <2>2. FALSE
    BY <2>1 DEF Heartbeat, HeldInv, OneHolder
  <2> QED
    BY <2>2
<1> QED
  BY <1>1, <1>2, <1>3, <1>4

LEMMA HeldNextKeeps == TypeOK /\ HeldInv /\ HeldNext => HeldInv'
<1> SUFFICES ASSUME TypeOK, HeldInv, HeldNext
             PROVE  HeldInv'
  OBVIOUS
<1>1. CASE \/ SendMessage \/ Archive \/ CommandExits \/ UNCHANGED vars
           \/ \E j \in JobId : ExpireLease(j)
           \/ \E s \in Slots : Heartbeat(s)
  BY <1>1, HeldByOthers
<1>2. CASE \E s \in Slots : Pull(s) \/ Settle(s)
  BY <1>2, HeldByQueue
<1>3. CASE \E s \in Slots : Crash(s)
  <2>1. PICK s \in Slots : Crash(s)
    BY <1>3
  <2>2. /\ Busy(s) /\ slots' = [slots EXCEPT ![s] = Idle] /\ Idle.pc = "idle"
        /\ UNCHANGED <<jobs, messages>>
    BY <2>1 DEF Crash, Idle
  <2> QED
    BY <2>2, HeldByWork
<1>4. CASE \E s \in Slots : Handles(s)
  <2>1. PICK s \in Slots : Handles(s)
    BY <1>4
  <2>2. KeepsJob(s) /\ Busy(s) /\ UNCHANGED <<jobs, messages>>
    BY <2>1, TurnKeepsJob, ProvisionKeepsJob DEF Handles
  <2>3. PICK r : slots' = [slots EXCEPT ![s] = r] /\ r.job = slots[s].job
    BY <2>2 DEF KeepsJob
  <2> QED
    BY <2>2, <2>3, HeldByWork
<1> QED
  BY <1>1, <1>2, <1>3, <1>4 DEF HeldNext

LEMMA HeldHolds == Spec => [](LeasesHold => HeldInv)
<1>1. Init => TypeOK /\ (LeasesHold => HeldInv)
  BY TypeInit, HeldInit
<1>2. TypeOK /\ (LeasesHold => HeldInv) /\ [Next]_vars => (LeasesHold => HeldInv)'
  BY HeldStep, HeldNextKeeps
<1>3. TypeOK /\ [Next]_vars => TypeOK'
  BY TypeNext
<1> QED
  BY <1>1, <1>2, <1>3, PTL DEF Spec

\* As long as leases hold and database calls succeed, one slot at a time drives
\* the session's turns, however many workers pull and crash (queue.ts pull,
\* service.ts "one in-flight turn per session").
THEOREM TurnsHaveOneDriver == Spec => [](LeasesHold => OneDriver)
<1>1. TypeOK /\ HeldInv => OneDriver
  <2> SUFFICES ASSUME TypeOK, HeldInv, NEW s \in Slots, NEW t \in Slots,
                      Driving(s), Driving(t)
               PROVE  s = t
    BY DEF OneDriver
  <2>1. /\ slots[s].job \in JobId \ {0} /\ slots[t].job \in JobId \ {0}
        /\ Busy(s) /\ Busy(t)
    BY SlotTypes DEF Driving
  <2>2. Active(slots[s].job) /\ Active(slots[t].job)
    BY <2>1 DEF HeldInv, OneHolder, Active
  <2> QED
    BY <2>1, <2>2 DEF HeldInv, OneActive, OneHolder
<1> QED
  BY <1>1, HeldHolds, TypeCorrect, PTL
-----------------------------------------------------------------------------
(* What is left of that when leases do not hold.  A slot joins a turn that *)
(* others are at only when its row has lost a lease, to a stall or to a    *)
(* settlement that threw; a row without a worker admits one more slot, and *)
(* a slot that settles or crashes makes room for the one that follows.     *)

AtTurn == {s \in Slots : Busy(s) /\ slots[s].job # 0}

Lost == faults.stall + faults.db

\* Some slot works on the active turn row, and the row is leased.
Kept == \E s \in AtTurn : jobs[slots[s].job].state = "running" /\ jobs[slots[s].job].lease

\* A row dies of its last attempt, and no nack revives it.
DeadSpent == \A j \in JobId : jobs[j].state = "dead" => jobs[j].attempts >= MaxAttempts

FewInv ==
  /\ OneActive /\ DeadSpent
  /\ IsFiniteSet(AtTurn)
  /\ Cardinality(AtTurn) <= Lost + 1
  /\ ~Kept => Cardinality(AtTurn) <= Lost

LEMMA LostNat == TypeOK => Lost \in Nat
<1> SUFFICES ASSUME TypeOK PROVE Lost \in Nat
  OBVIOUS
<1>1. faults \in [crash : 0 .. MaxCrashes, stall : 0 .. MaxStalls, db : 0 .. MaxDbErrors]
  BY DEF TypeOK
<1>2. faults.stall \in Nat /\ faults.db \in Nat
  BY <1>1, RuntimeAssumption
<1> QED
  BY <1>2 DEF Lost

LEMMA LostNatNext == TypeOK' => Lost' \in Nat
<1> SUFFICES ASSUME TypeOK' PROVE Lost' \in Nat
  OBVIOUS
<1>1. faults' \in [crash : 0 .. MaxCrashes, stall : 0 .. MaxStalls, db : 0 .. MaxDbErrors]
  BY DEF TypeOK
<1>2. faults'.stall \in Nat /\ faults'.db \in Nat
  BY <1>1, RuntimeAssumption
<1> QED
  BY <1>2 DEF Lost

LEMMA LostGrows ==
  ASSUME TypeOK
  PROVE  /\ UNCHANGED faults => Lost' = Lost
         /\ DbFault => Lost' = Lost + 1
         /\ \A s \in Slots : Stall(s) => Lost' = Lost + 1
         /\ \A s \in Slots : Crash(s) => Lost' = Lost
<1>1. faults \in [crash : 0 .. MaxCrashes, stall : 0 .. MaxStalls, db : 0 .. MaxDbErrors]
  BY DEF TypeOK
<1>2. faults.stall \in Nat /\ faults.db \in Nat
  BY <1>1, RuntimeAssumption
<1>3. UNCHANGED faults => Lost' = Lost
  BY DEF Lost
<1>4. ASSUME DbFault PROVE Lost' = Lost + 1
  <2>1. faults' = [faults EXCEPT !.db = @ + 1]
    BY <1>4 DEF DbFault
  <2>2. faults'.db = faults.db + 1 /\ faults'.stall = faults.stall
    BY <1>1, <2>1
  <2> QED
    BY <1>2, <2>2 DEF Lost
<1>5. ASSUME NEW s \in Slots, Stall(s) PROVE Lost' = Lost + 1
  <2>1. faults' = [faults EXCEPT !.stall = @ + 1]
    BY <1>5 DEF Stall
  <2>2. faults'.stall = faults.stall + 1 /\ faults'.db = faults.db
    BY <1>1, <2>1
  <2> QED
    BY <1>2, <2>2 DEF Lost
<1>6. ASSUME NEW s \in Slots, Crash(s) PROVE Lost' = Lost
  <2>1. faults' = [faults EXCEPT !.crash = @ + 1]
    BY <1>6 DEF Crash
  <2>2. faults'.stall = faults.stall /\ faults'.db = faults.db
    BY <1>1, <2>1
  <2> QED
    BY <2>2 DEF Lost
<1> QED
  BY <1>3, <1>4, <1>5, <1>6

LEMMA FewInit == Init => FewInv
<1> SUFFICES ASSUME Init
             PROVE  FewInv
  OBVIOUS
<1>1. OneActive
  BY HeldInit DEF HeldInv
<1>2. DeadSpent
  BY DEF Init, DeadSpent, Queued, NoJob
<1>3. \A s \in Slots : ~Busy(s)
  BY DEF Init, Busy, Idle
<1>4. AtTurn = {}
  BY <1>3 DEF AtTurn
<1>5. Lost = 0
  BY DEF Init, Lost
<1> QED
  BY <1>1, <1>2, <1>4, <1>5, FS_EmptySet DEF FewInv

\* A row that can be claimed or re-leased is one that nobody keeps.
LEMMA NotKept ==
  ASSUME TypeOK, FewInv, NEW j \in JobId \ {0}, Active(j),
         ~(jobs[j].state = "running" /\ jobs[j].lease)
  PROVE  ~Kept
<1> SUFFICES ASSUME NEW t \in AtTurn, jobs[slots[t].job].state = "running",
                    jobs[slots[t].job].lease
             PROVE  FALSE
  BY DEF Kept
<1>1. slots[t].job \in JobId \ {0}
  BY SlotTypes DEF AtTurn
<1>2. Active(slots[t].job)
  BY DEF Active
<1> QED
  BY <1>1, <1>2 DEF FewInv, OneActive

-----------------------------------------------------------------------------
\* The slots at a turn stay, and so does the lease; or the step is a fault; or
\* there was room.
LEMMA FewByStay ==
  ASSUME TypeOK, TypeOK', FewInv, OneActive', DeadSpent', AtTurn' = AtTurn, Lost' >= Lost,
         Kept' = Kept \/ Lost' = Lost + 1 \/ ~Kept
  PROVE  FewInv'
<1>1. Lost \in Nat /\ Lost' \in Nat
  BY LostNat, LostNatNext
<1>2. IsFiniteSet(AtTurn) /\ Cardinality(AtTurn) \in Nat
  BY FS_CardinalityType DEF FewInv
<1>3. Cardinality(AtTurn') = Cardinality(AtTurn) /\ IsFiniteSet(AtTurn')
  BY <1>2
<1>4. Cardinality(AtTurn') <= Lost' + 1
  BY <1>1, <1>2, <1>3 DEF FewInv
<1>5. ~Kept' => Cardinality(AtTurn') <= Lost'
  <2>1. CASE Kept' = Kept
    BY <1>1, <1>2, <1>3, <2>1 DEF FewInv
  <2>2. CASE Lost' = Lost + 1
    BY <1>1, <1>2, <1>3, <2>2 DEF FewInv
  <2>3. CASE ~Kept
    BY <1>1, <1>2, <1>3, <2>3 DEF FewInv
  <2> QED
    BY <2>1, <2>2, <2>3
<1> QED
  BY <1>3, <1>4, <1>5 DEF FewInv

\* One slot leaves.
LEMMA FewByLeave ==
  ASSUME TypeOK, TypeOK', FewInv, OneActive', DeadSpent', NEW s \in AtTurn,
         AtTurn' = AtTurn \ {s}, Lost' >= Lost
  PROVE  FewInv'
<1>1. Lost \in Nat /\ Lost' \in Nat
  BY LostNat, LostNatNext
<1>2. IsFiniteSet(AtTurn) /\ Cardinality(AtTurn) \in Nat
  BY FS_CardinalityType DEF FewInv
<1>3. IsFiniteSet(AtTurn') /\ Cardinality(AtTurn') = Cardinality(AtTurn) - 1
  BY <1>2, FS_RemoveElement
<1>4. Cardinality(AtTurn') <= Lost'
  BY <1>1, <1>2, <1>3 DEF FewInv
<1>5. Cardinality(AtTurn') <= Lost' + 1
  BY <1>1, <1>2, <1>3, <1>4
<1> QED
  BY <1>3, <1>4, <1>5 DEF FewInv

\* One slot joins, at a row that nobody kept.
LEMMA FewByJoin ==
  ASSUME TypeOK, TypeOK', FewInv, OneActive', DeadSpent', NEW s,
         AtTurn' = AtTurn \cup {s}, Lost' = Lost, ~Kept, Kept'
  PROVE  FewInv'
<1>1. Lost \in Nat
  BY LostNat
<1>2. IsFiniteSet(AtTurn) /\ Cardinality(AtTurn) \in Nat
  BY FS_CardinalityType DEF FewInv
<1>3. /\ IsFiniteSet(AtTurn')
      /\ Cardinality(AtTurn') = Cardinality(AtTurn)
         \/ Cardinality(AtTurn') = Cardinality(AtTurn) + 1
  BY <1>2, FS_AddElement
<1>4. Cardinality(AtTurn') <= Lost' + 1
  BY <1>1, <1>2, <1>3 DEF FewInv
<1> QED
  BY <1>3, <1>4 DEF FewInv

-----------------------------------------------------------------------------
\* A slot that keeps its job, with the queue as it is.
LEMMA FewByWork ==
  ASSUME TypeOK, TypeOK', FewInv, NEW s \in Slots, Busy(s), KeepsJob(s),
         UNCHANGED <<jobs, messages>>, Lost' >= Lost
  PROVE  FewInv'
<1>1. PICK r : slots' = [slots EXCEPT ![s] = r] /\ r.job = slots[s].job /\ r.pc # "idle"
  BY DEF KeepsJob
<1>2. slots'[s] = r /\ \A t \in Slots : t # s => slots'[t] = slots[t]
  BY <1>1 DEF TypeOK
<1>3. \A t \in Slots : slots'[t].job = slots[t].job /\ (Busy(t)' <=> Busy(t))
  BY <1>1, <1>2 DEF Busy
<1>4. AtTurn' = AtTurn
  BY <1>3 DEF AtTurn
<1>5. \A t \in AtTurn : slots'[t].job = slots[t].job
  BY <1>3 DEF AtTurn
<1>6. Kept' = Kept
  BY <1>4, <1>5 DEF Kept
<1>7. OneActive' /\ DeadSpent'
  BY DEF FewInv, OneActive, Active, DeadSpent
<1> QED
  BY <1>4, <1>6, <1>7, FewByStay

\* What a settlement does to the queue: no row becomes active or is revived.
LEMMA SettledRows ==
  ASSUME TypeOK, FewInv, NEW s \in Slots, jobs' \in {jobs, Settled(s)}, UNCHANGED messages
  PROVE  /\ OneActive' /\ DeadSpent'
         /\ \A i \in JobId : i # slots[s].job => jobs'[i] = jobs[i]
<1>0. PICK k \in JobId : k = slots[s].job
  BY SlotTypes
<1>00. jobs \in [JobId -> JobRow]
  BY DEF TypeOK
<1>1. \A i \in JobId : i # k => jobs'[i] = jobs[i]
  BY <1>0, <1>00 DEF Settled, Ack, Nack
<1>2. /\ Active(k)' => Active(k)
      /\ jobs'[k].state # "none" => jobs[k].state # "none"
      /\ jobs'[k].state = "dead" => jobs'[k].attempts >= MaxAttempts
  <2>1. CASE jobs' = jobs
    BY <1>0, <1>00, <2>1 DEF Active, FewInv, DeadSpent
  <2>2. CASE jobs' = Ack(k)
    <3>1. jobs'[k] = NoJob
      BY <1>0, <1>00, <2>2 DEF Ack
    <3> QED
      BY <3>1 DEF NoJob, Active
  <2>3. CASE jobs' = Nack(k) /\ jobs[k].state # "none"
    <3> DEFINE x == IF jobs[k].attempts >= MaxAttempts THEN "dead" ELSE "queued"
    <3>1. jobs' = [jobs EXCEPT ![k].lease = FALSE, ![k].state = x]
      BY <2>3 DEF Nack
    <3>2. jobs'[k].state = x /\ jobs'[k].attempts = jobs[k].attempts
      BY <1>0, <1>00, <3>1 DEF JobRow
    <3>3. jobs[k].state \in {"queued", "running", "dead"}
      BY <1>0, <1>00, <2>3 DEF JobRow
    <3>4. jobs[k].state = "dead" => jobs[k].attempts >= MaxAttempts
      BY <1>0, <1>00 DEF FewInv, DeadSpent
    <3>5. CASE jobs[k].attempts >= MaxAttempts
      BY <2>3, <3>2, <3>5 DEF Active
    <3>6. CASE ~(jobs[k].attempts >= MaxAttempts)
      BY <2>3, <3>2, <3>3, <3>4, <3>6 DEF Active
    <3> QED
      BY <3>5, <3>6
  <2>4. CASE jobs' = Nack(k) /\ jobs[k].state = "none"
    BY <1>0, <1>00, <2>1, <2>4 DEF Nack
  <2> QED
    BY <1>0, <2>1, <2>2, <2>3, <2>4 DEF Settled
<1>3. \A i \in JobId : /\ Active(i)' => Active(i)
                       /\ jobs'[i].state # "none" => jobs[i].state # "none"
                       /\ jobs'[i].state = "dead" => jobs'[i].attempts >= MaxAttempts
  BY <1>1, <1>2 DEF Active, FewInv, DeadSpent
<1>4. OneActive'
  BY <1>3 DEF FewInv, OneActive
<1>5. DeadSpent'
  BY <1>3 DEF DeadSpent
<1> QED
  BY <1>0, <1>1, <1>4, <1>5

\* A slot is done with its job, settled or lost.
LEMMA FewByIdle ==
  ASSUME TypeOK, TypeOK', FewInv, NEW s \in Slots, Busy(s),
         slots' = [slots EXCEPT ![s] = Idle], jobs' \in {jobs, Settled(s)},
         UNCHANGED messages, Lost' >= Lost
  PROVE  FewInv'
<1>1. OneActive' /\ DeadSpent' /\ \A i \in JobId : i # slots[s].job => jobs'[i] = jobs[i]
  BY SettledRows
<1>2. slots'[s] = Idle /\ \A t \in Slots : t # s => slots'[t] = slots[t]
  BY DEF TypeOK
<1>3. ~Busy(s)' /\ \A t \in Slots : t # s => (Busy(t)' <=> Busy(t))
  BY <1>2 DEF Busy, Idle
<1>4. AtTurn' = AtTurn \ {s}
  BY <1>2, <1>3 DEF AtTurn
<1>5. CASE s \in AtTurn
  BY <1>1, <1>4, <1>5, FewByLeave
<1>6. CASE s \notin AtTurn
  <2>1. slots[s].job = 0
    BY <1>6 DEF AtTurn
  <2>2. AtTurn' = AtTurn
    BY <1>4, <1>6
  <2>3. \A t \in AtTurn : /\ slots'[t].job = slots[t].job
                          /\ jobs'[slots[t].job] = jobs[slots[t].job]
    BY <1>1, <1>2, <1>6, <2>1, SlotTypes DEF AtTurn
  <2>4. Kept' = Kept
    BY <2>2, <2>3 DEF Kept
  <2> QED
    BY <1>1, <2>2, <2>4, FewByStay
<1> QED
  BY <1>5, <1>6

LEMMA FewByQueue ==
  ASSUME TypeOK, TypeOK', FewInv, NEW s \in Slots,
         Pull(s) \/ Settle(s) \/ SettleThrows(s) \/ Crash(s)
  PROVE  FewInv'
<1>0. jobs \in [JobId -> JobRow] /\ slots \in [Slots -> Slot] /\ slots[s].job \in JobId
  BY SlotTypes DEF TypeOK
<1>00. Lost \in Nat
  BY LostNat
<1>1. CASE Pull(s)
  <2>1. PICK j \in JobId :
          /\ ~Busy(s) /\ Claimable(j)
          /\ jobs' = [jobs EXCEPT ![j] = [state |-> "running", lease |-> TRUE,
                                          attempts |-> @.attempts + 1]]
          /\ slots' = [slots EXCEPT ![s] = [Idle EXCEPT !.pc = "gate", !.job = j,
                                                       !.last = LastAttempt(j)]]
          /\ UNCHANGED <<messages, faults>>
    BY <1>1 DEF Pull
  <2>2. \A i \in JobId : i # j => jobs'[i] = jobs[i]
    BY <1>0, <2>1
  <2>3. jobs'[j].state = "running" /\ jobs'[j].lease
    BY <1>0, <2>1
  <2>4. /\ slots'[s].job = j /\ slots'[s].pc = "gate"
        /\ \A t \in Slots : t # s => slots'[t] = slots[t]
    BY <1>0, <2>1 DEF Idle
  <2>5. /\ Active(j) /\ jobs[j].state # "none"
        /\ ~(jobs[j].state = "running" /\ jobs[j].lease)
    BY <2>1 DEF Claimable, Active
  <2>6. OneActive'
    <3>1. \A i \in JobId : Active(i)' => Active(i)
      BY <2>2, <2>5 DEF Active
    <3>2. \A i \in JobId : jobs'[i].state # "none" => jobs[i].state # "none"
      BY <2>2, <2>5
    <3> QED
      BY <2>1, <3>1, <3>2 DEF FewInv, OneActive
  <2>7. DeadSpent'
    BY <2>2, <2>3 DEF FewInv, DeadSpent
  <2>8. s \notin AtTurn /\ Busy(s)' /\ \A t \in Slots : t # s => (Busy(t)' <=> Busy(t))
    BY <2>1, <2>4 DEF AtTurn, Busy
  <2>9. Lost' = Lost
    BY <2>1, LostGrows
  <2>10. CASE j = 0
    <3>1. AtTurn' = AtTurn
      BY <2>4, <2>8, <2>10 DEF AtTurn
    <3>2. \A t \in AtTurn : /\ slots'[t].job = slots[t].job
                            /\ jobs'[slots[t].job] = jobs[slots[t].job]
      BY <2>2, <2>4, <2>8, <2>10, SlotTypes DEF AtTurn
    <3>3. Kept' = Kept
      BY <3>1, <3>2 DEF Kept
    <3> QED
      BY <1>00, <2>6, <2>7, <2>9, <3>1, <3>3, FewByStay
  <2>11. CASE j # 0
    <3>1. ~Kept
      BY <2>5, <2>11, NotKept
    <3>2. AtTurn' = AtTurn \cup {s}
      BY <2>4, <2>8, <2>11 DEF AtTurn
    <3>3. Kept'
      BY <2>3, <2>4, <3>2 DEF Kept
    <3> QED
      BY <2>6, <2>7, <2>9, <3>1, <3>2, <3>3, FewByJoin
  <2> QED
    BY <2>10, <2>11
<1>2. CASE Settle(s)
  <2>1. Lost' = Lost
    BY <1>2, LostGrows DEF Settle
  <2>2. /\ Busy(s) /\ slots' = [slots EXCEPT ![s] = Idle]
        /\ jobs' = Settled(s) /\ UNCHANGED messages
    BY <1>2 DEF Settle, Busy
  <2>3. Lost' >= Lost
    BY <1>00, <2>1
  <2>4. jobs' \in {jobs, Settled(s)}
    BY <2>2
  <2> QED
    BY <2>2, <2>3, <2>4, FewByIdle
<1>3. CASE SettleThrows(s)
  <2>1. /\ Lost' = Lost + 1 /\ Busy(s)
        /\ jobs' \in {jobs, Settled(s)} /\ UNCHANGED messages
    BY <1>3, LostGrows DEF SettleThrows, Busy
  <2>2. CASE slots[s].outcome = "threw"
    BY <1>00, <1>3, <2>1, <2>2, FewByIdle DEF SettleThrows
  <2>3. CASE slots[s].outcome # "threw"
    <3>1. KeepsJob(s)
      BY <1>3, <2>3, ReturnKeeps DEF SettleThrows
    <3>2. PICK r : slots' = [slots EXCEPT ![s] = r] /\ r.job = slots[s].job /\ r.pc # "idle"
      BY <3>1 DEF KeepsJob
    <3>3. slots'[s] = r /\ \A t \in Slots : t # s => slots'[t] = slots[t]
      BY <1>0, <3>2
    <3>4. \A t \in Slots : slots'[t].job = slots[t].job /\ (Busy(t)' <=> Busy(t))
      BY <2>1, <3>2, <3>3 DEF Busy
    <3>5. AtTurn' = AtTurn
      BY <3>4 DEF AtTurn
    <3>6. OneActive' /\ DeadSpent'
      BY <2>1, SettledRows
    <3> QED
      BY <1>00, <2>1, <3>5, <3>6, FewByStay
  <2> QED
    BY <2>2, <2>3
<1>4. CASE Crash(s)
  <2>1. Lost' = Lost
    BY <1>4, LostGrows
  <2>2. /\ Busy(s) /\ slots' = [slots EXCEPT ![s] = Idle]
        /\ jobs' = jobs /\ UNCHANGED messages
    BY <1>4 DEF Crash
  <2>3. Lost' >= Lost
    BY <1>00, <2>1
  <2>4. jobs' \in {jobs, Settled(s)}
    BY <2>2
  <2> QED
    BY <2>2, <2>3, <2>4, FewByIdle
<1> QED
  BY <1>1, <1>2, <1>3, <1>4

\* Rows whose lease is lost, renewed or expires.
LEMMA FewByLease ==
  ASSUME TypeOK, TypeOK', FewInv,
         \/ \E s \in Slots : Stall(s) \/ Heartbeat(s)
         \/ \E j \in JobId : ExpireLease(j)
  PROVE  FewInv'
<1>0. jobs \in [JobId -> JobRow] /\ Lost \in Nat
  BY LostNat DEF TypeOK
<1>1. PICK j \in JobId, b \in BOOLEAN :
        jobs' = [jobs EXCEPT ![j].lease = b] /\ UNCHANGED <<messages, slots>>
  <2>1. CASE \E j \in JobId : ExpireLease(j)
    BY <2>1 DEF ExpireLease
  <2>2. CASE \E s \in Slots : Stall(s) \/ Heartbeat(s)
    BY <2>2, SlotTypes DEF Stall, Heartbeat
  <2> QED
    BY <2>1, <2>2
<1>2. \A i \in JobId : /\ jobs'[i].state = jobs[i].state
                       /\ jobs'[i].attempts = jobs[i].attempts
  BY <1>0, <1>1 DEF JobRow
<1>3. OneActive' /\ DeadSpent'
  BY <1>1, <1>2 DEF FewInv, OneActive, Active, DeadSpent
<1>4. AtTurn' = AtTurn
  BY <1>1 DEF AtTurn, Busy
<1>5. CASE \E s \in Slots : Stall(s)
  <2>1. Lost' = Lost + 1
    BY <1>5, LostGrows
  <2> QED
    BY <1>0, <1>3, <1>4, <2>1, FewByStay
<1>6. CASE \E s \in Slots : Heartbeat(s)
  <2>1. PICK s \in Slots : Heartbeat(s)
    BY <1>6
  <2> DEFINE k == slots[s].job
  <2>3. /\ jobs[k].state = "running" /\ ~jobs[k].lease /\ k \in JobId
        /\ jobs' = [jobs EXCEPT ![k].lease = TRUE] /\ Lost' = Lost
    BY <2>1, SlotTypes, LostGrows DEF Heartbeat
  <2>4. CASE k = 0
    <3>1. \A i \in JobId \ {0} : jobs'[i] = jobs[i]
      BY <1>0, <2>3, <2>4
    <3>2. \A t \in AtTurn : slots[t].job \in JobId \ {0}
      BY SlotTypes DEF AtTurn
    <3>3. Kept' = Kept
      BY <1>1, <1>4, <3>1, <3>2 DEF Kept
    <3> QED
      BY <1>0, <1>3, <1>4, <2>3, <3>3, FewByStay
  <2>5. CASE k # 0
    <3>1. ~Kept
      BY <2>3, <2>5, NotKept DEF Active
    <3> QED
      BY <1>0, <1>3, <1>4, <2>3, <3>1, FewByStay
  <2> QED
    BY <2>4, <2>5
<1>7. CASE \E i \in JobId : ExpireLease(i)
  <2>1. PICK i \in JobId : ExpireLease(i)
    BY <1>7
  <2>2. /\ jobs' = [jobs EXCEPT ![i].lease = FALSE] /\ Lost' = Lost
        /\ \A t \in Slots : Busy(t) => slots[t].job # i
    BY <2>1, LostGrows DEF ExpireLease, Holds
  <2>3. \A t \in AtTurn : jobs'[slots[t].job] = jobs[slots[t].job]
    BY <1>0, <2>2, SlotTypes DEF AtTurn
  <2>4. Kept' = Kept
    BY <1>1, <1>4, <2>3 DEF Kept
  <2> QED
    BY <1>0, <1>3, <1>4, <2>2, <2>4, FewByStay
<1> QED
  BY <1>5, <1>6, <1>7

LEMMA FewByApi ==
  ASSUME TypeOK, TypeOK', FewInv,
         SendMessage \/ Archive \/ CommandExits \/ UNCHANGED vars
  PROVE  FewInv'
<1>0. jobs \in [JobId -> JobRow] /\ Lost \in Nat
  BY LostNat DEF TypeOK
<1>1. UNCHANGED <<slots, faults>>
  BY DEF SendMessage, Archive, CommandExits, vars
<1>2. AtTurn' = AtTurn /\ Lost' = Lost
  BY <1>1 DEF AtTurn, Busy, Lost
<1>3. CASE SendMessage
  <2> DEFINE new == messages + 1
  <2>1. /\ jobs' = [jobs EXCEPT ![new] = Queued] /\ messages' = new
        /\ ~HasActiveTurn /\ messages < MaxMessages
    BY <1>3 DEF SendMessage
  <2>2. messages \in Nat /\ new \in JobId \ {0} /\ new > messages
    BY <2>1, RuntimeAssumption DEF TypeOK, JobId
  <2>3. jobs'[new] = Queued /\ \A i \in JobId : i # new => jobs'[i] = jobs[i]
    BY <1>0, <2>1, <2>2
  <2>4. \A i \in JobId \ {0} : ~Active(i)
    BY <2>1 DEF HasActiveTurn, Active
  <2>5. OneActive'
    <3>1. \A i \in JobId : jobs'[i].state # "none" => i <= messages'
      BY <2>1, <2>2, <2>3 DEF FewInv, OneActive, JobId
    <3>2. \A i \in JobId \ {0} : Active(i)' => i = new
      BY <2>3, <2>4 DEF Active
    <3> QED
      BY <3>1, <3>2 DEF OneActive
  <2>6. DeadSpent'
    BY <2>2, <2>3 DEF FewInv, DeadSpent, Queued, NoJob
  <2>7. ~Kept
    <3> SUFFICES ASSUME NEW t \in AtTurn, jobs[slots[t].job].state = "running"
                 PROVE  FALSE
      BY DEF Kept
    <3> QED
      BY <2>4, SlotTypes DEF AtTurn, Active
  <2> QED
    BY <1>0, <1>2, <2>5, <2>6, <2>7, FewByStay
<1>4. CASE Archive \/ CommandExits \/ UNCHANGED vars
  <2>1. UNCHANGED <<jobs, messages>>
    BY <1>4 DEF Archive, CommandExits, vars
  <2>2. OneActive' /\ DeadSpent'
    BY <2>1 DEF FewInv, OneActive, Active, DeadSpent
  <2>3. Kept' = Kept
    BY <1>1, <1>2, <2>1 DEF Kept
  <2> QED
    BY <1>0, <1>2, <2>2, <2>3, FewByStay
<1> QED
  BY <1>3, <1>4

LEMMA FewNext == TypeOK /\ TypeOK' /\ FewInv /\ [Next]_vars => FewInv'
<1> SUFFICES ASSUME TypeOK, TypeOK', FewInv, [Next]_vars
             PROVE  FewInv'
  OBVIOUS
<1>0. Lost \in Nat
  BY LostNat
<1>1. CASE SendMessage \/ Archive \/ CommandExits \/ UNCHANGED vars
  BY <1>1, FewByApi
<1>2. CASE \E j \in JobId : ExpireLease(j)
  BY <1>2, FewByLease
<1>3. CASE \E s \in Slots : Pull(s) \/ Heartbeat(s) \/ Work(s) \/ Fault(s)
  <2> PICK s \in Slots : Pull(s) \/ Heartbeat(s) \/ Work(s) \/ Fault(s)
    BY <1>3
  <2>1. CASE Pull(s) \/ Settle(s) \/ SettleThrows(s) \/ Crash(s)
    BY <2>1, FewByQueue
  <2>2. CASE Stall(s) \/ Heartbeat(s)
    BY <2>2, FewByLease
  <2>3. CASE TurnStep(s) \/ ProvisionStep(s)
    <3>1. KeepsJob(s) /\ Busy(s) /\ UNCHANGED <<jobs, messages, faults>>
      BY <2>3, TurnKeepsJob, ProvisionKeepsJob
    <3>2. Lost' = Lost
      BY <3>1, LostGrows
    <3> QED
      BY <1>0, <3>1, <3>2, FewByWork
  <2>4. CASE ReadThrows(s) \/ AppendThrows(s) \/ TxThrows(s)
    <3>1. KeepsJob(s)
      BY <2>4, ReturnKeeps, MapErrorKeeps, GiveUpProvisionKeeps
         DEF ReadThrows, AppendThrows, TxThrows
    <3>2. Busy(s)
      BY <2>4 DEF ReadThrows, AppendThrows, TxThrows, Appendable, At, Busy
    <3>3. UNCHANGED <<jobs, messages>> /\ Lost' = Lost + 1
      BY <2>4, LostGrows DEF ReadThrows, AppendThrows, TxThrows
    <3> QED
      BY <1>0, <3>1, <3>2, <3>3, FewByWork
  <2> QED
    BY <2>1, <2>2, <2>3, <2>4 DEF Work, Fault
<1> QED
  BY <1>1, <1>2, <1>3 DEF Next

FewDrivers ==
  /\ IsFiniteSet({s \in Slots : Driving(s)})
  /\ Cardinality({s \in Slots : Driving(s)}) <= 1 + faults.stall + faults.db

\* With any number of workers and crashes, at most one slot more drives the
\* session's turns than leases were lost to stalls and calls to the database
\* have thrown; heartbeats and settlements that go by job id alone, as those
\* of queue.ts do, cannot make it more.
THEOREM DriversAreFew == Spec => []FewDrivers
<1>1. TypeOK /\ FewInv => FewDrivers
  <2> SUFFICES ASSUME TypeOK, FewInv
               PROVE  FewDrivers
    OBVIOUS
  <2> DEFINE Drivers == {s \in Slots : Driving(s)}
  <2>1. Drivers \in SUBSET AtTurn
    BY DEF Driving, AtTurn
  <2>2. IsFiniteSet(AtTurn) /\ Cardinality(AtTurn) <= Lost + 1
    BY DEF FewInv
  <2>3. IsFiniteSet(Drivers) /\ Cardinality(Drivers) <= Cardinality(AtTurn)
    BY <2>1, <2>2, FS_Subset
  <2>4. Cardinality(Drivers) \in Nat /\ Cardinality(AtTurn) \in Nat
    BY <2>2, <2>3, FS_CardinalityType
  <2>5. faults.stall \in Nat /\ faults.db \in Nat
    <3>1. faults \in [crash : 0 .. MaxCrashes, stall : 0 .. MaxStalls,
                      db : 0 .. MaxDbErrors]
      BY DEF TypeOK
    <3> QED
      BY <3>1, RuntimeAssumption
  <2>6. Cardinality(Drivers) <= 1 + faults.stall + faults.db
    <3> HIDE DEF Drivers
    <3> QED
      BY <2>2, <2>3, <2>4, <2>5 DEF Lost
  <2> QED
    BY <2>3, <2>6 DEF FewDrivers
<1>2. Init => TypeOK /\ FewInv
  BY TypeInit, FewInit
<1>3. TypeOK /\ FewInv /\ [Next]_vars => TypeOK' /\ FewInv'
  BY TypeNext, FewNext
<1> QED
  BY <1>1, <1>2, <1>3, PTL DEF Spec
-----------------------------------------------------------------------------
(* The log, one event longer: how often an event occurs in it, and where   *)
(* the last one of a type stands.                                          *)

Count(events, e) == Cardinality({i \in DOMAIN events : events[i] = e})

LEMMA CountFinite ==
  ASSUME NEW events \in Seq(Event), NEW e
  PROVE  /\ IsFiniteSet({i \in DOMAIN events : events[i] = e})
         /\ Count(events, e) \in Nat
<1> DEFINE Hits == {i \in DOMAIN events : events[i] = e}
<1>1. IsFiniteSet(1 .. Len(events))
  BY FS_Interval
<1>2. Hits \in SUBSET (1 .. Len(events))
  OBVIOUS
<1> HIDE DEF Hits
<1>3. IsFiniteSet(Hits)
  BY <1>1, <1>2, FS_Subset
<1>4. Cardinality(Hits) \in Nat
  BY <1>3, FS_CardinalityType
<1> QED
  BY <1>3, <1>4 DEF Hits, Count

LEMMA CountAppend ==
  ASSUME NEW events \in Seq(Event), NEW new \in Event, NEW e
  PROVE  Count(Append(events, new), e) = Count(events, e) + (IF new = e THEN 1 ELSE 0)
<1> DEFINE longer == Append(events, new)
           Hits == {i \in DOMAIN events : events[i] = e}
           After == {i \in DOMAIN longer : longer[i] = e}
           at == Len(events) + 1
<1>1. /\ DOMAIN longer = DOMAIN events \cup {at} /\ longer[at] = new
      /\ \A i \in DOMAIN events : longer[i] = events[i]
  OBVIOUS
<1>2. at \notin DOMAIN events
  OBVIOUS
<1>3. IsFiniteSet(Hits) /\ Cardinality(Hits) \in Nat
  BY CountFinite DEF Count
<1>4. CASE new = e
  <2>1. After = Hits \cup {at} /\ at \notin Hits
    BY <1>1, <1>2, <1>4
  <2> HIDE DEF Hits, After, at
  <2>2. Cardinality(After) = Cardinality(Hits) + 1
    BY <1>3, <2>1, FS_AddElement
  <2> QED
    BY <1>4, <2>2 DEF Count, Hits, After
<1>5. CASE new # e
  <2>1. After = Hits
    BY <1>1, <1>2, <1>5
  <2>2. Count(longer, e) = Cardinality(After) /\ Count(events, e) = Cardinality(Hits)
    BY DEF Count
  <2> HIDE DEF Hits, After
  <2> QED
    BY <1>3, <1>5, <2>1, <2>2
<1> QED
  BY <1>4, <1>5

\* What an append may have put behind the log, or nothing.
GrowsBy(E) == log' = log \/ \E e \in E : log' = Append(log, e)

\* Every event but the provisioner's, the only kind a turn writes.
TurnEvent == {e \in Event : e.type \notin {"session_provisioned", "user_message"}}

LEMMA TurnEvents ==
  /\ TurnCompleted \in TurnEvent
  /\ \A call \in BOOLEAN : Assistant(call) \in TurnEvent
  /\ \A key \in Nat : ToolResult(key) \in TurnEvent
  /\ \A class \in ErrorClass \cup {"none"} : TurnFailed(class) \in TurnEvent
<1>1. /\ TurnCompleted.type = "turn_completed"
      /\ \A call \in BOOLEAN : Assistant(call).type = "assistant_message"
      /\ \A key \in Nat : ToolResult(key).type = "tool_result"
      /\ \A class : TurnFailed(class).type = "turn_failed"
  BY DEF TurnCompleted, Assistant, ToolResult, TurnFailed, Bare
<1> QED
  BY <1>1, EventTypes DEF TurnEvent

LEMMA TurnEventsDiffer ==
  \A e \in TurnEvent : e # Provisioned /\ e # UserMessage
BY DEF TurnEvent, Provisioned, UserMessage, Bare

\* A turn's step writes a turn's event, or none.
LEMMA TurnAppends ==
  ASSUME TypeOK, NEW s \in Slots, TurnStep(s)
  PROVE  GrowsBy(TurnEvent)
<1>1. slots[s].class \in ErrorClass \cup {"none"}
  BY DEF TypeOK, Slot
<1>2. CASE Infer(s)
  BY <1>2, TurnEvents DEF Infer, AppendAndLoop, GrowsBy
<1>3. CASE Finish(s)
  BY <1>3, TurnEvents DEF Finish, AppendAndReturn, GrowsBy
<1>4. CASE ExhaustBudget(s)
  BY <1>4, TurnEvents DEF ExhaustBudget, AppendAndReturn, GrowsBy, ErrorClass
<1>5. CASE Collect(s)
  BY <1>5, KeyNat, TurnEvents DEF Collect, AppendAndLoop, GrowsBy
<1>6. CASE RecordFailure(s)
  BY <1>1, <1>6, TurnEvents DEF RecordFailure, AppendAndReturn, GrowsBy
<1>7. CASE \/ Gate(s) \/ ReadEvents(s) \/ Noop(s) \/ LlmFails(s) \/ StartExec(s)
           \/ ExecFails(s) \/ Reboot(s) \/ RebootFails(s)
  BY <1>7 DEF Gate, ReadEvents, Noop, LlmFails, StartExec, ExecFails, Reboot,
              RebootFails, GrowsBy
<1> QED
  BY <1>2, <1>3, <1>4, <1>5, <1>6, <1>7 DEF TurnStep

-----------------------------------------------------------------------------
(* The session is provisioned once, as long as leases hold, and each of    *)
(* its commands runs in the one sandbox this gave it.                      *)

TurnPc == {"read", "act", "tail", "reboot", "fail"}
ProvisionPc == {"box", "open", "commit"}

\* What a slot r holds, against the session's row and the times it has been
\* provisioned: a provisioner behind the gate may still do it, the turn behind
\* its gate runs in the sandbox it was given.
ProvisionFits(r, row, times) ==
  /\ r.pc \in ProvisionPc => /\ r.job = 0 /\ times = 0
                             /\ row.status \in {"provisioning", "archived"}
  /\ r.pc \in {"open", "commit"} /\ r.goal = "ready" => r.box # 0
  /\ r.pc \in TurnPc => r.box = row.box /\ times = 1

Times(events) == Count(events, Provisioned)

ProvisionInv ==
  /\ \A s \in Slots : ProvisionFits(slots[s], session, Times(log))
  /\ Times(log) <= 1
  /\ session.status = "provisioning" => Times(log) = 0
  /\ session.status = "ready" => Times(log) = 1
  /\ Times(log) = 1 => session.box # 0
  /\ \A run \in started : run[1] = session.box /\ Times(log) = 1

LEMMA ProvisionInit == Init => ProvisionInv
<1> SUFFICES ASSUME Init
             PROVE  ProvisionInv
  OBVIOUS
<1>1. \A s \in Slots : slots[s].pc = "idle"
  BY DEF Init, Idle
<1>2. \A s \in Slots : ProvisionFits(slots[s], session, Times(log))
  BY <1>1 DEF ProvisionFits, ProvisionPc, TurnPc
<1>5. started = {}
  BY DEF Init
<1>3. CASE StartReady
  <2>1. log = <<Provisioned>> /\ session.status = "ready" /\ session.box = 1
    BY <1>3 DEF Init
  <2>2. {i \in DOMAIN log : log[i] = Provisioned} = {1}
    BY <2>1
  <2>3. Times(log) = 1
    BY <2>2, FS_Singleton DEF Times, Count
  <2> QED
    BY <1>2, <1>5, <2>1, <2>3 DEF ProvisionInv
<1>4. CASE ~StartReady
  <2>1. log = <<>> /\ session.status = "provisioning"
    BY <1>4 DEF Init
  <2>2. {i \in DOMAIN log : log[i] = Provisioned} = {}
    BY <2>1
  <2>3. Times(log) = 0
    BY <2>2, FS_EmptySet DEF Times, Count
  <2> QED
    BY <1>2, <1>5, <2>1, <2>3 DEF ProvisionInv
<1> QED
  BY <1>3, <1>4

LEMMA TimesNat == TypeOK => Times(log) \in Nat
BY CountFinite DEF TypeOK, Times

LEMMA TimesKept ==
  ASSUME TypeOK, GrowsBy(TurnEvent \cup {UserMessage, TurnFailed("SANDBOX_FATAL")})
  PROVE  Times(log') = Times(log)
<1>1. log \in Seq(Event) /\ Times(log) \in Nat
  BY TimesNat DEF TypeOK
<1>2. \A e \in TurnEvent \cup {UserMessage, TurnFailed("SANDBOX_FATAL")} :
        e \in Event /\ e # Provisioned
  <2>1. UserMessage # Provisioned /\ TurnFailed("SANDBOX_FATAL") # Provisioned
    BY DEF UserMessage, Provisioned, TurnFailed, Bare
  <2>2. TurnFailed("SANDBOX_FATAL") \in Event
    BY EventTypes DEF ErrorClass
  <2> QED
    BY <2>1, <2>2, EventTypes, TurnEventsDiffer DEF TurnEvent
<1>3. CASE log' = log
  BY <1>3
<1>4. CASE log' # log
  <2>1. PICK e \in TurnEvent \cup {UserMessage, TurnFailed("SANDBOX_FATAL")} :
          log' = Append(log, e)
    BY <1>4 DEF GrowsBy
  <2>2. Count(Append(log, e), Provisioned) = Count(log, Provisioned) + 0
    BY <1>1, <1>2, <2>1, CountAppend
  <2> QED
    BY <1>1, <2>1, <2>2 DEF Times
<1> QED
  BY <1>3, <1>4

\* A step of one slot that leaves the row, the runs and the sandbox's place in
\* the log alone.
LEMMA ProvisionBySlot ==
  ASSUME TypeOK, ProvisionInv, NEW s \in Slots, NEW r,
         slots' = [slots EXCEPT ![s] = r], UNCHANGED <<session, started>>,
         Times(log') = Times(log), ProvisionFits(r, session, Times(log))
  PROVE  ProvisionInv'
<1>1. \A t \in Slots : ProvisionFits(slots'[t], session, Times(log))
  BY DEF ProvisionInv, TypeOK
<1> QED
  BY <1>1 DEF ProvisionInv

\* A slot whose handler has returned, or that was lost.
LEMMA ProvisionByReturn ==
  ASSUME TypeOK, ProvisionInv, NEW s \in Slots, UNCHANGED <<session, started>>,
         Times(log') = Times(log),
         \/ slots' = [slots EXCEPT ![s] = Idle]
         \/ \E outcome : Return(s, outcome)
  PROVE  ProvisionInv'
<1>1. PICK r : slots' = [slots EXCEPT ![s] = r] /\ r.pc \in {"idle", "settle"}
  <2>1. CASE slots' = [slots EXCEPT ![s] = Idle]
    <3>1. Idle.pc = "idle"
      BY DEF Idle
    <3> QED
      BY <2>1, <3>1
  <2>2. ASSUME NEW outcome, Return(s, outcome)
        PROVE  \E r : slots' = [slots EXCEPT ![s] = r] /\ r.pc \in {"idle", "settle"}
    <3> DEFINE r == [Idle EXCEPT !.pc = "settle", !.job = slots[s].job,
                                 !.outcome = outcome]
    <3>1. slots' = [slots EXCEPT ![s] = r]
      BY <2>2 DEF Return
    <3>2. r.pc = "settle"
      BY DEF Idle
    <3> HIDE DEF r
    <3> QED
      BY <3>1, <3>2
  <2> QED
    BY <2>1, <2>2
<1>2. ProvisionFits(r, session, Times(log))
  BY <1>1 DEF ProvisionFits, ProvisionPc, TurnPc
<1> QED
  BY <1>1, <1>2, ProvisionBySlot

\* A step within the turn keeps its sandbox.
LEMMA ProvisionByTurn ==
  ASSUME TypeOK, ProvisionInv, NEW s \in Slots, NEW r,
         slots' = [slots EXCEPT ![s] = r], UNCHANGED <<session, started>>,
         Times(log') = Times(log), slots[s].pc \in TurnPc,
         r.box = slots[s].box, r.pc \in TurnPc
  PROVE  ProvisionInv'
<1>1. ProvisionFits(r, session, Times(log))
  BY DEF ProvisionInv, ProvisionFits, TurnPc, ProvisionPc
<1> QED
  BY <1>1, ProvisionBySlot

LEMMA ProvisionByMapError ==
  ASSUME TypeOK, ProvisionInv, NEW s \in Slots, UNCHANGED <<session, started>>,
         Times(log') = Times(log), slots[s].pc \in TurnPc,
         NEW class, MapError(s, class)
  PROVE  ProvisionInv'
<1>1. CASE slots[s].last
  <2> DEFINE r == [slots[s] EXCEPT !.pc = "fail", !.class = class]
  <2>1. slots[s] \in Slot /\ slots \in [Slots -> Slot]
    BY DEF TypeOK
  <2>2. slots' = [slots EXCEPT ![s] = r]
    BY <1>1, <2>1 DEF MapError
  <2>3. r.box = slots[s].box /\ r.pc = "fail"
    BY <2>1 DEF Slot
  <2> HIDE DEF r
  <2> QED
    BY <2>2, <2>3, ProvisionByTurn DEF TurnPc
<1>2. CASE ~slots[s].last
  BY <1>2, ProvisionByReturn DEF MapError
<1> QED
  BY <1>1, <1>2

LEMMA ProvisionByLoop ==
  ASSUME TypeOK, ProvisionInv, NEW s \in Slots, UNCHANGED <<session, started>>,
         Times(log') = Times(log), slots[s].pc \in TurnPc,
         NEW e, AppendAndLoop(s, e)
  PROVE  ProvisionInv'
<1>1. CASE SeqTaken(s)
  BY <1>1, ProvisionByReturn DEF AppendAndLoop
<1>2. CASE ~SeqTaken(s)
  <2> DEFINE r == [slots[s] EXCEPT !.pc = "act", !.rebooted = FALSE,
                                   !.mem = Append(slots[s].mem, e)]
  <2>1. slots[s] \in Slot /\ slots \in [Slots -> Slot]
    BY DEF TypeOK
  <2>2. slots' = [slots EXCEPT ![s] = r]
    BY <1>2, <2>1 DEF AppendAndLoop
  <2>3. r.box = slots[s].box /\ r.pc = "act"
    BY <2>1 DEF Slot
  <2> HIDE DEF r
  <2> QED
    BY <2>2, <2>3, ProvisionByTurn DEF TurnPc
<1> QED
  BY <1>1, <1>2

LEMMA ProvisionByTurnStep ==
  ASSUME TypeOK, ProvisionInv, NEW s \in Slots, TurnStep(s)
  PROVE  ProvisionInv'
<1>0. /\ slots[s] \in Slot /\ slots \in [Slots -> Slot]
      /\ ProvisionFits(slots[s], session, Times(log))
  BY DEF TypeOK, ProvisionInv
<1>t. Times(log') = Times(log)
  <2>1. GrowsBy(TurnEvent \cup {UserMessage, TurnFailed("SANDBOX_FATAL")})
    BY TurnAppends DEF GrowsBy
  <2> QED
    BY <2>1, TimesKept
<1>1. CASE Gate(s)
  <2>1. CASE session.status = "ready"
    <3> DEFINE r == [slots[s] EXCEPT !.pc = "read", !.box = session.box]
    <3>1. slots' = [slots EXCEPT ![s] = r]
      BY <1>0, <1>1, <2>1 DEF Gate
    <3>2. r.box = session.box /\ r.pc = "read"
      BY <1>0 DEF Slot
    <3> HIDE DEF r
    <3>3. ProvisionFits(r, session, Times(log))
      BY <2>1, <3>2 DEF ProvisionInv, ProvisionFits, ProvisionPc
    <3> QED
      BY <1>1, <1>t, <3>1, <3>3, ProvisionBySlot DEF Gate
  <2>2. CASE session.status # "ready"
    <3>1. \E outcome : Return(s, outcome)
      BY <1>1, <2>2 DEF Gate, TypeOK, Status
    <3> QED
      BY <1>1, <1>t, <3>1, ProvisionByReturn DEF Gate
  <2> QED
    BY <2>1, <2>2
<1>2. CASE ReadEvents(s)
  <2> DEFINE r == [slots[s] EXCEPT !.pc = "act", !.mem = log]
  <2>1. slots' = [slots EXCEPT ![s] = r]
    BY <1>0, <1>2 DEF ReadEvents
  <2>2. r.box = slots[s].box /\ r.pc = "act"
    BY <1>0 DEF Slot
  <2> HIDE DEF r
  <2> QED
    BY <1>2, <1>t, <2>1, <2>2, ProvisionByTurn DEF ReadEvents, TurnPc
<1>3. CASE Infer(s)
  BY <1>3, <1>t, ProvisionByLoop DEF Infer, At, TurnPc
<1>4. CASE Noop(s)
  BY <1>4, <1>t, ProvisionByReturn DEF Noop
<1>5. CASE Finish(s)
  BY <1>5, <1>t, ProvisionByReturn DEF Finish, AppendAndReturn
<1>6. CASE ExhaustBudget(s)
  BY <1>6, <1>t, ProvisionByReturn DEF ExhaustBudget, AppendAndReturn
<1>7. CASE LlmFails(s)
  <2> DEFINE r == [slots[s] EXCEPT !.pc = "fail", !.class = "LLM_PERMANENT"]
  <2>1. r.box = slots[s].box /\ r.pc = "fail"
    BY <1>0 DEF Slot
  <2>2. slots' = [slots EXCEPT ![s] = r] \/ MapError(s, "INTERNAL")
    BY <1>0, <1>7 DEF LlmFails
  <2> HIDE DEF r
  <2> QED
    BY <1>7, <1>t, <2>1, <2>2, ProvisionByTurn, ProvisionByMapError
    DEF LlmFails, At, TurnPc
<1>8. CASE StartExec(s)
  <2> DEFINE r == [slots[s] EXCEPT !.pc = "tail"]
  <2>1. /\ slots' = [slots EXCEPT ![s] = r] /\ slots[s].pc = "act"
        /\ started' = started \cup {<<slots[s].box, Key(s)>>} /\ session' = session
    BY <1>0, <1>8 DEF StartExec, Goto, At
  <2>2. r.box = slots[s].box /\ r.pc = "tail"
    BY <1>0 DEF Slot
  <2> HIDE DEF r
  <2>3. slots[s].box = session.box /\ Times(log) = 1
    BY <1>0, <2>1 DEF ProvisionFits, TurnPc
  <2>4. ProvisionFits(r, session, Times(log))
    BY <2>2, <2>3 DEF ProvisionFits, ProvisionPc, TurnPc
  <2>5. \A t \in Slots : ProvisionFits(slots'[t], session, Times(log))
    BY <1>0, <2>1, <2>4 DEF ProvisionInv
  <2>6. \A run \in started' : run[1] = session.box /\ Times(log) = 1
    BY <2>1, <2>3 DEF ProvisionInv
  <2> QED
    BY <1>t, <2>1, <2>5, <2>6 DEF ProvisionInv
<1>9. CASE Collect(s)
  BY <1>9, <1>t, ProvisionByLoop DEF Collect, TurnPc
<1>10. CASE ExecFails(s)
  <2>1. slots[s].pc \in TurnPc /\ UNCHANGED <<session, started>>
    BY <1>10 DEF ExecFails, At, TurnPc
  <2>2. CASE Goto(s, "reboot")
    <3> DEFINE r == [slots[s] EXCEPT !.pc = "reboot"]
    <3>1. slots' = [slots EXCEPT ![s] = r]
      BY <1>0, <2>2 DEF Goto
    <3>2. r.box = slots[s].box /\ r.pc = "reboot"
      BY <1>0 DEF Slot
    <3> HIDE DEF r
    <3> QED
      BY <1>t, <2>1, <3>1, <3>2, ProvisionByTurn DEF TurnPc
  <2> QED
    BY <1>10, <1>t, <2>1, <2>2, ProvisionByMapError DEF ExecFails
<1>11. CASE Reboot(s)
  <2> DEFINE r == [slots[s] EXCEPT !.pc = "act", !.rebooted = TRUE]
  <2>1. slots' = [slots EXCEPT ![s] = r] /\ slots[s].pc = "reboot" /\ started' = started
    BY <1>0, <1>11 DEF Reboot
  <2>2. r.box = slots[s].box /\ r.pc = "act"
    BY <1>0 DEF Slot
  <2> HIDE DEF r
  <2>3. slots[s].box = session.box
    BY <1>0, <2>1 DEF ProvisionFits, TurnPc
  <2>4. session' = session
    BY <1>11, <2>3 DEF Reboot, TypeOK
  <2> QED
    BY <1>t, <2>1, <2>2, <2>4, ProvisionByTurn DEF TurnPc
<1>12. CASE RebootFails(s)
  BY <1>12, <1>t, ProvisionByMapError DEF RebootFails, TurnPc
<1>13. CASE RecordFailure(s)
  BY <1>13, <1>t, ProvisionByReturn DEF RecordFailure, AppendAndReturn
<1> QED
  BY <1>1, <1>2, <1>3, <1>4, <1>5, <1>6, <1>7, <1>8, <1>9, <1>10, <1>11, <1>12,
     <1>13 DEF TurnStep
LEMMA ProvisionByGiveUp ==
  ASSUME TypeOK, ProvisionInv, NEW s \in Slots, UNCHANGED <<session, started, log>>,
         slots[s].pc \in ProvisionPc, GiveUpProvision(s)
  PROVE  ProvisionInv'
<1>1. CASE slots[s].last
  <2> DEFINE r == [slots[s] EXCEPT !.pc = "open", !.goal = "failed"]
  <2>1. slots[s] \in Slot /\ slots \in [Slots -> Slot]
    BY DEF TypeOK
  <2>2. slots' = [slots EXCEPT ![s] = r]
    BY <1>1, <2>1 DEF GiveUpProvision
  <2>3. r.job = slots[s].job /\ r.pc = "open" /\ r.goal = "failed"
    BY <2>1 DEF Slot
  <2> HIDE DEF r
  <2>4. ProvisionFits(r, session, Times(log))
    BY <2>3 DEF ProvisionInv, ProvisionFits, ProvisionPc, TurnPc
  <2> QED
    BY <2>2, <2>4, ProvisionBySlot
<1>2. CASE ~slots[s].last
  BY <1>2, ProvisionByReturn DEF GiveUpProvision
<1> QED
  BY <1>1, <1>2

\* Every other slot is out of the provisioner's way, and of the turns': a turn
\* behind its gate has a session that was provisioned.
LEMMA ProvisionerIsAlone ==
  ASSUME TypeOK, HeldInv, ProvisionInv, NEW s \in Slots, slots[s].pc \in ProvisionPc
  PROVE  /\ Times(log) = 0 /\ started = {}
         /\ session.status \in {"provisioning", "archived"}
         /\ \A t \in Slots \ {s} : slots[t].pc \notin ProvisionPc \cup TurnPc
<1>1. ProvisionFits(slots[s], session, Times(log))
  BY DEF ProvisionInv
<1>2. /\ slots[s].job = 0 /\ Times(log) = 0
      /\ session.status \in {"provisioning", "archived"}
  BY <1>1 DEF ProvisionFits
<1>3. ASSUME NEW t \in Slots \ {s}
      PROVE  slots[t].pc \notin ProvisionPc \cup TurnPc
  <2>1. ProvisionFits(slots[t], session, Times(log))
    BY DEF ProvisionInv
  <2>2. slots[t].pc \notin TurnPc
    BY <1>2, <2>1 DEF ProvisionFits
  <2>3. ASSUME slots[t].pc \in ProvisionPc
        PROVE  FALSE
    <3>1. slots[t].job = 0 /\ Busy(t) /\ Busy(s)
      BY <2>1, <2>3 DEF ProvisionFits, ProvisionPc, Busy
    <3> QED
      BY <1>2, <3>1 DEF HeldInv, OneHolder
  <2> QED
    BY <2>2, <2>3
<1>4. started = {}
  BY <1>2 DEF ProvisionInv
<1> QED
  BY <1>2, <1>3, <1>4

\* The one transaction that provisions, or fails, the session.
LEMMA ProvisionByWrites ==
  ASSUME TypeOK, HeldInv, ProvisionInv, NEW s \in Slots, slots[s].pc = "commit",
         ProvisionWrites(s), NEW outcome, Return(s, outcome), started' = started
  PROVE  ProvisionInv'
<1>0. /\ Times(log) = 0 /\ started = {}
      /\ \A t \in Slots \ {s} : slots[t].pc \notin ProvisionPc \cup TurnPc
      /\ log \in Seq(Event) /\ slots \in [Slots -> Slot]
      /\ session \in [status : Status, box : Nat, archived : BOOLEAN]
      /\ ProvisionFits(slots[s], session, Times(log))
  BY ProvisionerIsAlone DEF TypeOK, ProvisionPc, ProvisionInv
<1> DEFINE r == [Idle EXCEPT !.pc = "settle", !.job = slots[s].job,
                             !.outcome = outcome]
<1>1. slots' = [slots EXCEPT ![s] = r] /\ r.pc = "settle"
  BY DEF Return, Idle
<1> HIDE DEF r
<1>2. \A t \in Slots : slots'[t].pc \notin ProvisionPc \cup TurnPc
  BY <1>0, <1>1 DEF ProvisionPc, TurnPc
<1>3. \A t \in Slots : ProvisionFits(slots'[t], session', Times(log'))
  BY <1>2 DEF ProvisionFits, ProvisionPc
<1>4. CASE slots[s].goal = "ready"
  <2>1. /\ session' = [session EXCEPT !.status = "ready", !.box = slots[s].box]
        /\ log' = Append(log, Provisioned)
    BY <1>4 DEF ProvisionWrites
  <2>2. session'.status = "ready" /\ session'.box = slots[s].box
    BY <1>0, <2>1
  <2>3. slots[s].box # 0
    BY <1>0, <1>4 DEF ProvisionFits
  <2>4. Times(log') = 1
    <3>1. Count(Append(log, Provisioned), Provisioned) = Count(log, Provisioned) + 1
      BY <1>0, EventTypes, CountAppend
    <3> QED
      BY <1>0, <2>1, <3>1 DEF Times
  <2> QED
    BY <1>0, <1>3, <2>2, <2>3, <2>4 DEF ProvisionInv
<1>5. CASE slots[s].goal # "ready"
  <2>1. /\ session' = [session EXCEPT !.status = "failed"]
        /\ log' = Append(log, TurnFailed("SANDBOX_FATAL"))
    BY <1>5 DEF ProvisionWrites
  <2>2. session'.status = "failed"
    BY <1>0, <2>1
  <2>3. Times(log') = 0
    BY <1>0, <2>1, TimesKept DEF GrowsBy
  <2> QED
    BY <1>0, <1>3, <2>2, <2>3 DEF ProvisionInv
<1> QED
  BY <1>4, <1>5

LEMMA ProvisionByProvisionStep ==
  ASSUME TypeOK, HeldInv, ProvisionInv, NEW s \in Slots, ProvisionStep(s)
  PROVE  ProvisionInv'
<1>0. /\ slots[s] \in Slot /\ slots \in [Slots -> Slot]
      /\ ProvisionFits(slots[s], session, Times(log))
  BY DEF TypeOK, ProvisionInv
<1>1. CASE ProvisionGate(s)
  <2>1. CASE session.status # "provisioning"
    BY <1>1, <2>1, ProvisionByReturn DEF ProvisionGate
  <2>2. CASE session.status = "provisioning"
    <3> DEFINE r == [slots[s] EXCEPT !.pc = "box"]
    <3>1. slots' = [slots EXCEPT ![s] = r] /\ slots[s].job = 0
      BY <1>0, <1>1, <2>2 DEF ProvisionGate, Goto
    <3>2. r.job = slots[s].job /\ r.pc = "box"
      BY <1>0 DEF Slot
    <3> HIDE DEF r
    <3>3. ProvisionFits(r, session, Times(log))
      BY <2>2, <3>1, <3>2 DEF ProvisionInv, ProvisionFits, ProvisionPc, TurnPc
    <3> QED
      BY <1>1, <3>1, <3>3, ProvisionBySlot DEF ProvisionGate
  <2> QED
    BY <2>1, <2>2
<1>2. CASE CreateBox(s)
  <2> DEFINE r == [slots[s] EXCEPT !.pc = "open", !.goal = "ready", !.box = boxes']
  <2>1. slots' = [slots EXCEPT ![s] = r] /\ slots[s].pc = "box"
    BY <1>0, <1>2 DEF CreateBox
  <2>2. boxes' # 0
    BY <1>2 DEF CreateBox, TypeOK
  <2>3. r.job = slots[s].job /\ r.pc = "open" /\ r.box = boxes'
    BY <1>0 DEF Slot
  <2> HIDE DEF r
  <2>4. ProvisionFits(r, session, Times(log))
    BY <1>0, <2>1, <2>2, <2>3 DEF ProvisionFits, ProvisionPc, TurnPc
  <2> QED
    BY <1>2, <2>1, <2>4, ProvisionBySlot DEF CreateBox
<1>3. CASE CreateBoxFails(s)
  BY <1>3, ProvisionByGiveUp DEF CreateBoxFails, ProvisionPc
<1>4. CASE OpenTx(s)
  <2> DEFINE r == [slots[s] EXCEPT !.pc = "commit", !.seq = Len(log) + 1]
  <2>1. slots' = [slots EXCEPT ![s] = r] /\ slots[s].pc = "open"
    BY <1>0, <1>4 DEF OpenTx
  <2>2. /\ r.job = slots[s].job /\ r.pc = "commit" /\ r.box = slots[s].box
        /\ r.goal = slots[s].goal
    BY <1>0 DEF Slot
  <2> HIDE DEF r
  <2>3. ProvisionFits(r, session, Times(log))
    BY <1>0, <2>1, <2>2 DEF ProvisionFits, ProvisionPc, TurnPc
  <2> QED
    BY <1>4, <2>1, <2>3, ProvisionBySlot DEF OpenTx
<1>5. CASE CommitTx(s)
  <2>1. CASE ProvisionWrites(s)
    <3>1. \E outcome : Return(s, outcome)
      BY <1>5 DEF CommitTx
    <3> QED
      BY <1>5, <2>1, <3>1, ProvisionByWrites DEF CommitTx
  <2>2. CASE ~ProvisionWrites(s)
    BY <1>5, <2>2, ProvisionByReturn DEF CommitTx
  <2> QED
    BY <2>1, <2>2
<1> QED
  BY <1>1, <1>2, <1>3, <1>4, <1>5 DEF ProvisionStep

LEMMA ProvisionNextKeeps == TypeOK /\ HeldInv /\ ProvisionInv /\ HeldNext => ProvisionInv'
<1> SUFFICES ASSUME TypeOK, HeldInv, ProvisionInv, HeldNext
             PROVE  ProvisionInv'
  OBVIOUS
<1>1. CASE SendMessage
  <2>1. Times(log') = Times(log) /\ UNCHANGED <<session, slots, started>>
    BY <1>1, TimesKept DEF SendMessage, GrowsBy
  <2> QED
    BY <2>1 DEF ProvisionInv
<1>2. CASE Archive
  <2>1. /\ session'.status = "archived" /\ session'.box = session.box
        /\ UNCHANGED <<log, slots, started>>
    BY <1>2 DEF Archive, TypeOK
  <2>2. \A s \in Slots : ProvisionFits(slots[s], session', Times(log))
    BY <2>1 DEF ProvisionInv, ProvisionFits
  <2> QED
    BY <2>1, <2>2 DEF ProvisionInv
<1>3. CASE \/ CommandExits \/ UNCHANGED vars
           \/ \E j \in JobId : ExpireLease(j)
           \/ \E s \in Slots : Heartbeat(s)
  <2>1. UNCHANGED <<log, session, slots, started>>
    BY <1>3 DEF CommandExits, vars, ExpireLease, Heartbeat
  <2> QED
    BY <2>1 DEF ProvisionInv
<1>4. CASE \E s \in Slots : Pull(s)
  <2>1. PICK s \in Slots : Pull(s)
    BY <1>4
  <2>2. PICK j \in JobId :
          slots' = [slots EXCEPT ![s] = [Idle EXCEPT !.pc = "gate", !.job = j,
                                                     !.last = LastAttempt(j)]]
    BY <2>1 DEF Pull
  <2> DEFINE r == [Idle EXCEPT !.pc = "gate", !.job = j, !.last = LastAttempt(j)]
  <2>3. slots' = [slots EXCEPT ![s] = r] /\ r.pc = "gate"
    BY <2>2 DEF Idle
  <2> HIDE DEF r
  <2>4. ProvisionFits(r, session, Times(log))
    BY <2>3 DEF ProvisionFits, ProvisionPc, TurnPc
  <2> QED
    BY <2>1, <2>3, <2>4, ProvisionBySlot DEF Pull
<1>5. CASE \E s \in Slots : Crash(s) \/ Settle(s)
  BY <1>5, ProvisionByReturn DEF Crash, Settle
<1>6. CASE \E s \in Slots : Handles(s)
  BY <1>6, ProvisionByTurnStep, ProvisionByProvisionStep DEF Handles
<1> QED
  BY <1>1, <1>2, <1>3, <1>4, <1>5, <1>6 DEF HeldNext

LEMMA ProvisionHolds == Spec => [](LeasesHold => ProvisionInv)
<1>1. Init => TypeOK /\ (LeasesHold => ProvisionInv)
  BY TypeInit, ProvisionInit
<1>2. /\ TypeOK /\ (LeasesHold => HeldInv) /\ (LeasesHold => ProvisionInv)
      /\ [Next]_vars
      => (LeasesHold => ProvisionInv)'
  BY HeldStep, ProvisionNextKeeps
<1> QED
  BY <1>1, <1>2, HeldHolds, TypeCorrect, PTL DEF Spec

\* As long as leases hold and database calls succeed, at most one provisioner
\* writes, and the row and the log agree about it (provision.ts 44-58).
THEOREM SessionIsProvisionedOnce == Spec => [](LeasesHold => ProvisionedOnce)
<1>1. TypeOK /\ ProvisionInv => ProvisionedOnce
  BY TimesNat DEF ProvisionInv, ProvisionedOnce, Times, Count
<1> QED
  BY <1>1, ProvisionHolds, TypeCorrect, PTL

\* As long as leases hold and database calls succeed, no command runs in two
\* sandboxes, whatever a sandbox provider returns and however often a worker
\* dies between a command's start and its result (chaos suite, I3).
THEOREM CommandsRunInOneBox == Spec => [](LeasesHold => NoCommandTwice)
<1>1. TypeOK /\ ProvisionInv => NoCommandTwice
  <2> SUFFICES ASSUME TypeOK, ProvisionInv, NEW r1 \in started, NEW r2 \in started,
                      r1[2] = r2[2]
               PROVE  r1 = r2
    BY DEF NoCommandTwice
  <2>1. r1[1] = r2[1]
    BY DEF ProvisionInv
  <2>2. r1 \in Nat \X Nat /\ r2 \in Nat \X Nat
    BY DEF TypeOK
  <2> QED
    BY <2>1, <2>2
<1> QED
  BY <1>1, ProvisionHolds, TypeCorrect, PTL
-----------------------------------------------------------------------------
(* Where a session keeps one sandbox, because its provider always returns  *)
(* the same directory or because the session was ready from the start, the *)
(* promise about commands survives every fault: stalls, double claims,     *)
(* double provisioning and failing database calls.                         *)

OneBox ==
  /\ boxes \in {0, 1} /\ session.box \in {0, 1}
  /\ \A s \in Slots : slots[s].box \in {0, 1} /\ (slots[s].pc = "box" => slots[s].job = 0)
  /\ FreshBoxes => /\ jobs[0].state = "none"
                   /\ \A s \in Slots : Busy(s) => slots[s].job # 0
  /\ \A run \in started : run[1] = 1

LEMMA BoxInit ==
  ASSUME ~FreshBoxes \/ StartReady, Init
  PROVE  OneBox
<1>1. \A s \in Slots : slots[s].box = 0 /\ slots[s].pc = "idle"
  BY DEF Init, Idle
<1>2. boxes \in {0, 1} /\ session.box \in {0, 1} /\ started = {}
  BY RuntimeAssumption DEF Init
<1>3. FreshBoxes => jobs[0].state = "none"
  BY RuntimeAssumption DEF Init, NoJob, JobId
<1> QED
  BY <1>1, <1>2, <1>3 DEF OneBox, Busy

LEMMA BoxByWork ==
  ASSUME TypeOK, OneBox, NEW s \in Slots, Busy(s), KeepsJob(s), UNCHANGED jobs,
         boxes' \in {0, 1}, session'.box \in {session.box, slots[s].box},
         \A run \in started' :
           run \in started \/ (run[1] = slots[s].box /\ slots[s].box # 0)
  PROVE  OneBox'
<1>1. PICK r : /\ slots' = [slots EXCEPT ![s] = r] /\ r.job = slots[s].job
               /\ r.box \in {0, slots[s].box, session.box, boxes'}
               /\ r.pc = "box" => r.job = 0
  BY DEF KeepsJob
<1>2. slots'[s] = r /\ \A t \in Slots : t # s => slots'[t] = slots[t]
  BY <1>1 DEF TypeOK
<1>3. r.box \in {0, 1}
  BY <1>1 DEF OneBox
<1>4. \A t \in Slots :
        slots'[t].box \in {0, 1} /\ (slots'[t].pc = "box" => slots'[t].job = 0)
  BY <1>1, <1>2, <1>3 DEF OneBox
<1>5. FreshBoxes => \A t \in Slots : Busy(t)' => slots'[t].job # 0
  BY <1>1, <1>2 DEF OneBox, Busy
<1>6. \A run \in started' : run[1] = 1
  BY DEF OneBox
<1> QED
  BY <1>4, <1>5, <1>6 DEF OneBox

\* A slot that claims, returns or is lost holds no sandbox.
LEMMA BoxBySlot ==
  ASSUME TypeOK, OneBox, NEW s \in Slots, NEW r, slots' = [slots EXCEPT ![s] = r],
         UNCHANGED <<boxes, session, started>>,
         r.box = 0, r.pc # "box",
         FreshBoxes => jobs'[0].state = "none" /\ (r.pc = "idle" \/ r.job # 0)
  PROVE  OneBox'
<1>1. slots'[s] = r /\ \A t \in Slots : t # s => slots'[t] = slots[t]
  BY DEF TypeOK
<1>2. \A t \in Slots :
        slots'[t].box \in {0, 1} /\ (slots'[t].pc = "box" => slots'[t].job = 0)
  BY <1>1 DEF OneBox
<1>3. FreshBoxes => \A t \in Slots : Busy(t)' => slots'[t].job # 0
  BY <1>1 DEF OneBox, Busy
<1> QED
  BY <1>2, <1>3 DEF OneBox

\* Settling a job does not bring back another, and no job that was acked.
LEMMA SettledKeepsNone ==
  ASSUME TypeOK, NEW s \in Slots, NEW j \in JobId, jobs[j].state = "none"
  PROVE  Settled(s)[j].state = "none"
<1>1. jobs \in [JobId -> JobRow] /\ slots[s].job \in JobId
  BY SlotTypes DEF TypeOK
<1> QED
  BY <1>1 DEF Settled, Ack, Nack, NoJob

LEMMA BoxByTurnStep ==
  ASSUME TypeOK, OneBox, NEW s \in Slots, TurnStep(s)
  PROVE  OneBox'
<1>1. KeepsJob(s) /\ Busy(s) /\ UNCHANGED jobs
  BY TurnKeepsJob
<1>2. CASE StartExec(s)
  BY <1>1, <1>2, BoxByWork DEF StartExec, OneBox
<1>3. CASE Reboot(s)
  <2>1. session'.box = slots[s].box
    BY <1>3 DEF Reboot, TypeOK
  <2> QED
    BY <1>1, <1>3, <2>1, BoxByWork DEF Reboot, OneBox
<1>4. CASE \/ Gate(s) \/ ReadEvents(s) \/ Infer(s) \/ Noop(s) \/ Finish(s)
           \/ ExhaustBudget(s) \/ LlmFails(s) \/ Collect(s) \/ ExecFails(s)
           \/ RebootFails(s) \/ RecordFailure(s)
  <2>1. UNCHANGED <<boxes, session, started>>
    BY <1>4 DEF Gate, ReadEvents, Infer, Noop, Finish, ExhaustBudget, LlmFails,
       Collect, ExecFails, RebootFails, RecordFailure
  <2> QED
    BY <1>1, <2>1, BoxByWork DEF OneBox
<1> QED
  BY <1>2, <1>3, <1>4 DEF TurnStep

LEMMA WritesOwnBox ==
  ASSUME TypeOK, NEW s \in Slots, ProvisionWrites(s)
  PROVE  session'.box \in {session.box, slots[s].box}
BY DEF ProvisionWrites, TypeOK

LEMMA BoxByProvisionStep ==
  ASSUME TypeOK, OneBox, NEW s \in Slots, ProvisionStep(s)
  PROVE  OneBox'
<1>1. KeepsJob(s) /\ Busy(s) /\ UNCHANGED jobs
  BY ProvisionKeepsJob
<1>2. CASE CreateBox(s)
  <2>1. slots[s].pc = "box"
    BY <1>2 DEF CreateBox
  <2>2. ~FreshBoxes
    BY <1>1, <2>1 DEF OneBox
  <2>3. boxes' = 1 /\ UNCHANGED <<session, started>>
    BY <1>2, <2>2 DEF CreateBox
  <2> QED
    BY <1>1, <2>3, BoxByWork
<1>3. CASE CommitTx(s)
  BY <1>1, <1>3, WritesOwnBox, BoxByWork DEF CommitTx, OneBox
<1>4. CASE ProvisionGate(s) \/ CreateBoxFails(s) \/ OpenTx(s)
  <2>1. UNCHANGED <<boxes, session, started>>
    BY <1>4 DEF ProvisionGate, CreateBoxFails, OpenTx
  <2> QED
    BY <1>1, <2>1, BoxByWork DEF OneBox
<1> QED
  BY <1>2, <1>3, <1>4 DEF ProvisionStep

LEMMA BoxByThrows ==
  ASSUME TypeOK, OneBox, NEW s \in Slots,
         ReadThrows(s) \/ AppendThrows(s) \/ TxThrows(s)
  PROVE  OneBox'
<1>1. CASE ReadThrows(s)
  BY <1>1, ReturnKeeps, BoxByWork DEF ReadThrows, OneBox, Busy
<1>2. CASE AppendThrows(s)
  <2>1. Busy(s)
    BY <1>2 DEF AppendThrows, Appendable, At, Busy
  <2>2. KeepsJob(s)
    BY <1>2, ReturnKeeps, MapErrorKeeps DEF AppendThrows
  <2> QED
    BY <1>2, <2>1, <2>2, BoxByWork DEF AppendThrows, OneBox
<1>3. CASE TxThrows(s)
  <2>1. Busy(s)
    BY <1>3 DEF TxThrows, Busy
  <2>2. KeepsJob(s)
    BY <1>3, ReturnKeeps, GiveUpProvisionKeeps DEF TxThrows
  <2>3. session'.box \in {session.box, slots[s].box}
    BY <1>3, WritesOwnBox DEF TxThrows
  <2> QED
    BY <1>3, <2>1, <2>2, <2>3, BoxByWork DEF TxThrows, OneBox
<1> QED
  BY <1>1, <1>2, <1>3

LEMMA BoxByQueue ==
  ASSUME TypeOK, OneBox, NEW s \in Slots,
         \/ Pull(s) \/ Heartbeat(s) \/ Stall(s) \/ Crash(s)
         \/ Settle(s) \/ SettleThrows(s)
  PROVE  OneBox'
<1>0. jobs \in [JobId -> JobRow] /\ slots[s].job \in JobId /\ 0 \in JobId
  BY SlotTypes, RuntimeAssumption DEF TypeOK, JobId
<1>a. Idle.box = 0 /\ Idle.pc = "idle"
  BY DEF Idle
<1>1. CASE Pull(s)
  <2>1. PICK j \in JobId :
          /\ Claimable(j)
          /\ jobs' = [jobs EXCEPT ![j] = [state |-> "running", lease |-> TRUE,
                                          attempts |-> @.attempts + 1]]
          /\ slots' = [slots EXCEPT ![s] = [Idle EXCEPT !.pc = "gate", !.job = j,
                                                       !.last = LastAttempt(j)]]
          /\ UNCHANGED <<boxes, session, started>>
    BY <1>1 DEF Pull
  <2> DEFINE r == [Idle EXCEPT !.pc = "gate", !.job = j, !.last = LastAttempt(j)]
  <2>2. slots' = [slots EXCEPT ![s] = r] /\ r.pc = "gate" /\ r.box = 0 /\ r.job = j
    BY <2>1 DEF Idle
  <2> HIDE DEF r
  <2>3. FreshBoxes => j # 0 /\ jobs'[0].state = "none"
    BY <1>0, <2>1 DEF OneBox, Claimable
  <2> QED
    BY <2>1, <2>2, <2>3, BoxBySlot
<1>2. CASE Heartbeat(s) \/ Stall(s)
  <2>1. UNCHANGED <<boxes, session, started, slots>>
    BY <1>2 DEF Heartbeat, Stall
  <2>2. \A j \in JobId : jobs'[j].state = jobs[j].state
    BY <1>0, <1>2 DEF Heartbeat, Stall, JobRow
  <2> QED
    BY <1>0, <2>1, <2>2 DEF OneBox, Busy
<1>3. CASE Crash(s)
  BY <1>a, <1>3, BoxBySlot DEF Crash, OneBox
<1>4. CASE Settle(s)
  BY <1>0, <1>a, <1>4, SettledKeepsNone, BoxBySlot DEF Settle, OneBox
<1>5. CASE SettleThrows(s)
  <2>1. FreshBoxes => jobs'[0].state = "none"
    BY <1>0, <1>5, SettledKeepsNone DEF SettleThrows, OneBox
  <2>2. FreshBoxes => slots[s].job # 0
    BY <1>5 DEF SettleThrows, OneBox, Busy
  <2>3. UNCHANGED <<boxes, session, started>>
    BY <1>5 DEF SettleThrows
  <2>4. CASE slots[s].outcome = "threw"
    BY <1>a, <1>5, <2>1, <2>3, <2>4, BoxBySlot DEF SettleThrows
  <2>5. CASE slots[s].outcome # "threw"
    <3> DEFINE r == [Idle EXCEPT !.pc = "settle", !.job = slots[s].job,
                                 !.outcome = "threw"]
    <3>1. slots' = [slots EXCEPT ![s] = r]
      BY <1>5, <2>5 DEF SettleThrows, Return
    <3>2. r.pc = "settle" /\ r.box = 0 /\ r.job = slots[s].job
      BY DEF Idle
    <3> HIDE DEF r
    <3> QED
      BY <2>1, <2>2, <2>3, <3>1, <3>2, BoxBySlot
  <2> QED
    BY <2>4, <2>5
<1> QED
  BY <1>1, <1>2, <1>3, <1>4, <1>5

LEMMA BoxByOthers ==
  ASSUME TypeOK, OneBox,
         \/ SendMessage \/ Archive \/ CommandExits \/ UNCHANGED vars
         \/ \E j \in JobId : ExpireLease(j)
  PROVE  OneBox'
<1>0. jobs \in [JobId -> JobRow] /\ 0 \in JobId
  BY RuntimeAssumption DEF TypeOK, JobId
<1>1. CASE SendMessage
  <2>1. UNCHANGED <<boxes, session, slots, started>>
    BY <1>1 DEF SendMessage
  <2>2. jobs'[0] = jobs[0]
    BY <1>0, <1>1 DEF SendMessage, TypeOK
  <2> QED
    BY <2>1, <2>2 DEF OneBox, Busy
<1>2. CASE Archive
  <2>1. session'.box = session.box /\ UNCHANGED <<boxes, jobs, slots, started>>
    BY <1>2 DEF Archive, TypeOK
  <2> QED
    BY <2>1 DEF OneBox, Busy
<1>3. CASE CommandExits \/ UNCHANGED vars
  <2>1. UNCHANGED <<boxes, session, jobs, slots, started>>
    BY <1>3 DEF CommandExits, vars
  <2> QED
    BY <2>1 DEF OneBox, Busy
<1>4. CASE \E j \in JobId : ExpireLease(j)
  <2>1. UNCHANGED <<boxes, session, slots, started>>
    BY <1>4 DEF ExpireLease
  <2>2. \A j \in JobId : jobs'[j].state = jobs[j].state
    BY <1>0, <1>4 DEF ExpireLease, JobRow
  <2> QED
    BY <1>0, <2>1, <2>2 DEF OneBox, Busy
<1> QED
  BY <1>1, <1>2, <1>3, <1>4

LEMMA BoxNext == TypeOK /\ OneBox /\ [Next]_vars => OneBox'
<1> SUFFICES ASSUME TypeOK, OneBox, [Next]_vars
             PROVE  OneBox'
  OBVIOUS
<1>1. CASE \/ SendMessage \/ Archive \/ CommandExits \/ UNCHANGED vars
           \/ \E j \in JobId : ExpireLease(j)
  BY <1>1, BoxByOthers
<1>2. CASE \E s \in Slots : Pull(s) \/ Heartbeat(s) \/ Work(s) \/ Fault(s)
  <2> PICK s \in Slots : Pull(s) \/ Heartbeat(s) \/ Work(s) \/ Fault(s)
    BY <1>2
  <2> QED
    BY BoxByTurnStep, BoxByProvisionStep, BoxByThrows, BoxByQueue DEF Work, Fault
<1> QED
  BY <1>1, <1>2 DEF Next

\* With one directory per session (the subprocess driver), or with a session
\* that is ready from the start, no command runs in two sandboxes, whatever
\* stalls, crashes and failing database calls do (chaos suite, I3): the idemKey
\* directory of the one sandbox is the lock.
THEOREM OneBoxIsEnough ==
  ASSUME ~FreshBoxes \/ StartReady
  PROVE  Spec => []NoCommandTwice
<1>1. Init => OneBox
  BY BoxInit
<1>2. TypeOK /\ OneBox => NoCommandTwice
  <2> SUFFICES ASSUME TypeOK, OneBox, NEW r1 \in started, NEW r2 \in started,
                      r1[2] = r2[2]
               PROVE  r1 = r2
    BY DEF NoCommandTwice
  <2>1. r1[1] = 1 /\ r2[1] = 1
    BY DEF OneBox
  <2>2. r1 \in Nat \X Nat /\ r2 \in Nat \X Nat
    BY DEF TypeOK
  <2> QED
    BY <2>1, <2>2
<1> QED
  BY <1>1, <1>2, BoxNext, TypeCorrect, PTL DEF Spec
-----------------------------------------------------------------------------
(* The outbox.  While leases hold, a turn that still has to end has a job  *)
(* in the queue: the slot that drives it works on the log as it is, so it  *)
(* settles with ack only a turn that has ended, and with nack only a job   *)
(* that has attempts left.                                                 *)

LEMMA LastOfBound ==
  ASSUME NEW events \in Seq(Event), NEW type
  PROVE  LastOf(events, type) \in 0 .. Len(events)
<1> DEFINE Hits == {i \in DOMAIN events : events[i].type = type}
           IsLast(i) == \A j \in Hits : j <= i
<1>1. CASE \E i \in Hits : IsLast(i)
  <2>1. (CHOOSE i \in Hits : IsLast(i)) \in Hits
    BY <1>1
  <2> QED
    BY <1>1, <2>1 DEF LastOf
<1>2. CASE ~ \E i \in Hits : IsLast(i)
  BY <1>2 DEF LastOf
<1> QED
  BY <1>1, <1>2

\* An event at the end is the last of its type.
LEMMA LastOfLast ==
  ASSUME NEW events \in Seq(Event), NEW type, events # <<>>,
         events[Len(events)].type = type
  PROVE  LastOf(events, type) = Len(events)
<1> DEFINE Hits == {i \in DOMAIN events : events[i].type = type}
           IsLast(i) == \A j \in Hits : j <= i
<1>1. Len(events) \in Hits /\ IsLast(Len(events))
  OBVIOUS
<1>2. \A i \in Hits : IsLast(i) => i = Len(events)
  OBVIOUS
<1>3. (CHOOSE i \in Hits : IsLast(i)) = Len(events)
  BY <1>1, <1>2
<1> QED
  BY <1>1, <1>3 DEF LastOf

LEMMA LastOfAppend ==
  ASSUME NEW events \in Seq(Event), NEW new \in Event, NEW type
  PROVE  LastOf(Append(events, new), type) =
           IF new.type = type THEN Len(events) + 1 ELSE LastOf(events, type)
<1> DEFINE longer == Append(events, new)
<1>1. /\ longer \in Seq(Event) /\ longer # <<>> /\ Len(longer) = Len(events) + 1
      /\ longer[Len(longer)] = new
  OBVIOUS
<1>2. CASE new.type = type
  BY <1>1, <1>2, LastOfLast
<1>3. CASE new.type # type
  <2>1. {i \in DOMAIN longer : longer[i].type = type} =
          {i \in DOMAIN events : events[i].type = type}
    <3>1. DOMAIN longer = DOMAIN events \cup {Len(events) + 1}
      OBVIOUS
    <3>2. \A i \in DOMAIN events : longer[i] = events[i]
      OBVIOUS
    <3>3. longer[Len(events) + 1] = new /\ Len(events) + 1 \notin DOMAIN events
      OBVIOUS
    <3> QED
      BY <1>3, <3>1, <3>2, <3>3
  <2> QED
    BY <1>3, <2>1 DEF LastOf
<1> QED
  BY <1>2, <1>3

\* OpenTurn, of any log.
Open(events) ==
  LastUser(events) > LastOf(events, "turn_completed")
  /\ LastUser(events) > LastOf(events, "turn_failed")

\* A terminal event closes the turn it ends.
LEMMA TerminalCloses ==
  ASSUME NEW events \in Seq(Event), events # <<>>, IsTerminal(events[Len(events)])
  PROVE  ~Open(events)
<1>1. LastUser(events) <= Len(events) /\ Len(events) \in Nat
  BY LastOfBound DEF LastUser
<1>2. \/ LastOf(events, "turn_completed") = Len(events)
      \/ LastOf(events, "turn_failed") = Len(events)
  BY LastOfLast DEF IsTerminal
<1>3. LastUser(events) \in Nat
  BY LastOfNat DEF LastUser
<1> QED
  BY <1>1, <1>2, <1>3 DEF Open

LEMMA AppendCloses ==
  ASSUME NEW events \in Seq(Event), NEW e \in Event, IsTerminal(e)
  PROVE  ~Open(Append(events, e))
<1> DEFINE longer == Append(events, e)
<1>1. longer \in Seq(Event) /\ longer # <<>> /\ longer[Len(longer)] = e
  OBVIOUS
<1> HIDE DEF longer
<1>2. ~Open(longer)
  BY <1>1, TerminalCloses
<1> QED
  BY <1>2 DEF longer

LEMMA TerminalEvents ==
  /\ IsTerminal(TurnCompleted)
  /\ \A class : IsTerminal(TurnFailed(class))
BY DEF IsTerminal, TurnCompleted, TurnFailed, Bare

\* Why a handler may return what it returns.
OutcomeFits(outcome, events, status, attempts) ==
  \/ outcome \in {"completed", "failed"} /\ ~Open(events)
  \/ outcome = "abandoned" /\ status = "archived"
  \/ outcome = "retry_later" /\ attempts < MaxAttempts

\* What a slot r holds of a session that was ready from the start.
DriveFits(r, events, status, queue) ==
  /\ r.pc # "idle" => r.job # 0 /\ r.pc \notin ProvisionPc
  /\ r.pc \in {"act", "tail", "reboot", "fail"} => r.mem = events
  /\ r.pc \notin {"idle", "settle"} /\ ~r.last => queue[r.job].attempts < MaxAttempts
  /\ r.pc = "settle" => OutcomeFits(r.outcome, events, status, queue[r.job].attempts)

DriveInv ==
  /\ \A s \in Slots : DriveFits(slots[s], log, session.status, jobs)
  /\ jobs[0].state = "none"
  /\ session.status \in {"ready", "archived"}
  /\ log # <<>>
  /\ Open(log) /\ session.status = "ready" => HasActiveTurn

LEMMA DriveInit ==
  ASSUME StartReady, Init
  PROVE  DriveInv
<1>1. \A s \in Slots : slots[s].pc = "idle"
  BY DEF Init, Idle
<1>2. /\ log = <<Provisioned>> /\ session.status = "ready" /\ jobs[0].state = "none"
  BY RuntimeAssumption DEF Init, NoJob, JobId
<1>3. ~Open(log)
  <2>1. /\ <<>> \in Seq(Event) /\ Append(<<>>, Provisioned) = log
        /\ Provisioned \in Event /\ Provisioned.type = "session_provisioned"
    BY <1>2, EventTypes DEF Provisioned, Bare
  <2>2. LastOf(log, "user_message") = LastOf(<<>>, "user_message")
    BY <2>1, LastOfAppend
  <2>3. LastOf(<<>>, "user_message") \in 0 .. 0
    <3>1. Len(<<>>) = 0
      OBVIOUS
    <3>2. LastOf(<<>>, "user_message") \in 0 .. Len(<<>>)
      BY <2>1, LastOfBound
    <3> QED
      BY <3>1, <3>2
  <2>4. LastUser(log) = 0
    BY <2>2, <2>3 DEF LastUser
  <2>5. log \in Seq(Event)
    BY TypeInit DEF TypeOK
  <2>6. LastOf(log, "turn_completed") \in Nat
    BY <2>5, LastOfNat
  <2> QED
    BY <2>4, <2>6 DEF Open
<1> QED
  BY <1>1, <1>2, <1>3 DEF DriveInv, DriveFits, ProvisionPc

\* One slot at most is busy, and it holds the active job.
LEMMA OthersIdle ==
  ASSUME TypeOK, HeldInv, DriveInv, NEW s \in Slots, Busy(s)
  PROVE  /\ HasActiveTurn /\ slots[s].job \in JobId \ {0}
         /\ jobs[slots[s].job].state = "running" /\ jobs[slots[s].job].lease
         /\ \A t \in Slots \ {s} : slots[t].pc = "idle"
<1>1. \A t \in Slots : Busy(t) => /\ slots[t].job \in JobId \ {0}
                                  /\ jobs[slots[t].job].state = "running"
                                  /\ jobs[slots[t].job].lease
  BY SlotTypes DEF DriveInv, DriveFits, HeldInv, OneHolder, Busy
<1>2. HasActiveTurn
  BY <1>1 DEF HasActiveTurn
<1>3. ASSUME NEW t \in Slots \ {s}, slots[t].pc # "idle"
      PROVE  FALSE
  <2>1. Busy(t) /\ Active(slots[t].job) /\ Active(slots[s].job)
    BY <1>1, <1>3 DEF Busy, Active
  <2>2. slots[t].job = slots[s].job
    BY <1>1, <2>1 DEF HeldInv, OneActive
  <2> QED
    BY <2>1, <2>2 DEF HeldInv, OneHolder
<1> QED
  BY <1>1, <1>2, <1>3

\* A step of the one busy slot.
LEMMA DriveBySlot ==
  ASSUME TypeOK, HeldInv, DriveInv, NEW s \in Slots, NEW r, Busy(s),
         slots' = [slots EXCEPT ![s] = r], UNCHANGED jobs,
         session'.status = session.status, log' # <<>>,
         DriveFits(r, log', session.status, jobs)
  PROVE  DriveInv'
<1>1. \A t \in Slots \ {s} : slots[t].pc = "idle"
  BY OthersIdle
<1>2. slots'[s] = r /\ \A t \in Slots \ {s} : slots'[t] = slots[t]
  BY DEF TypeOK
<1>3. \A t \in Slots \ {s} : DriveFits(slots'[t], log', session.status, jobs)
  BY <1>1, <1>2 DEF DriveFits, ProvisionPc
<1>4. \A t \in Slots : DriveFits(slots'[t], log', session'.status, jobs')
  BY <1>2, <1>3
<1>5. HasActiveTurn'
  BY OthersIdle DEF HasActiveTurn
<1> QED
  BY <1>4, <1>5 DEF DriveInv

LEMMA DriveByReturn ==
  ASSUME TypeOK, HeldInv, DriveInv, NEW s \in Slots, Busy(s), UNCHANGED jobs,
         session'.status = session.status, log' # <<>>,
         NEW outcome, Return(s, outcome),
         OutcomeFits(outcome, log', session.status, jobs[slots[s].job].attempts)
  PROVE  DriveInv'
<1> DEFINE r == [Idle EXCEPT !.pc = "settle", !.job = slots[s].job,
                             !.outcome = outcome]
<1>1. slots' = [slots EXCEPT ![s] = r]
  BY DEF Return
<1>2. r.pc = "settle" /\ r.job = slots[s].job /\ r.outcome = outcome
  BY DEF Idle
<1>3. slots[s].job # 0
  BY OthersIdle
<1> HIDE DEF r
<1>4. DriveFits(r, log', session.status, jobs)
  BY <1>2, <1>3 DEF DriveFits, ProvisionPc
<1> QED
  BY <1>1, <1>4, DriveBySlot

\* A step within the turn: the slot's memory stays the log.
LEMMA DriveByTurn ==
  ASSUME TypeOK, HeldInv, DriveInv, NEW s \in Slots, NEW r, UNCHANGED jobs,
         slots' = [slots EXCEPT ![s] = r], session'.status = session.status,
         log' # <<>>, slots[s].pc \in TurnPc, r.pc \in TurnPc,
         r.job = slots[s].job, r.last = slots[s].last, r.pc # "read" => r.mem = log'
  PROVE  DriveInv'
<1>1. Busy(s) /\ DriveFits(slots[s], log, session.status, jobs)
  BY DEF Busy, TurnPc, DriveInv
<1>2. slots[s].job # 0 /\ (~slots[s].last => jobs[slots[s].job].attempts < MaxAttempts)
  BY <1>1 DEF DriveFits, TurnPc
<1>3. DriveFits(r, log', session.status, jobs)
  BY <1>2 DEF DriveFits, TurnPc, ProvisionPc
<1> QED
  BY <1>1, <1>3, DriveBySlot

LEMMA DriveByMapError ==
  ASSUME TypeOK, HeldInv, DriveInv, NEW s \in Slots, UNCHANGED <<jobs, log>>,
         session'.status = session.status, slots[s].pc \in {"act", "tail", "reboot"},
         NEW class, MapError(s, class)
  PROVE  DriveInv'
<1>1. /\ Busy(s) /\ DriveFits(slots[s], log, session.status, jobs) /\ log # <<>>
      /\ slots[s] \in Slot /\ slots \in [Slots -> Slot]
  BY DEF Busy, DriveInv, TypeOK
<1>2. CASE slots[s].last
  <2> DEFINE r == [slots[s] EXCEPT !.pc = "fail", !.class = class]
  <2>1. slots' = [slots EXCEPT ![s] = r]
    BY <1>1, <1>2 DEF MapError
  <2>2. /\ r.pc = "fail" /\ r.job = slots[s].job /\ r.last = slots[s].last
        /\ r.mem = slots[s].mem
    BY <1>1 DEF Slot
  <2>3. slots[s].mem = log
    BY <1>1 DEF DriveFits
  <2> HIDE DEF r
  <2> QED
    BY <1>1, <2>1, <2>2, <2>3, DriveByTurn DEF TurnPc
<1>3. CASE ~slots[s].last
  <2>1. OutcomeFits("retry_later", log', session.status, jobs[slots[s].job].attempts)
    BY <1>1, <1>3 DEF DriveFits, OutcomeFits
  <2> QED
    BY <1>1, <1>3, <2>1, DriveByReturn DEF MapError
<1> QED
  BY <1>2, <1>3

\* The driver's seq is free: its memory is the log.
LEMMA DriveByLoop ==
  ASSUME TypeOK, HeldInv, DriveInv, NEW s \in Slots, UNCHANGED <<jobs, session>>,
         slots[s].pc \in {"act", "tail"}, NEW e \in Event, AppendAndLoop(s, e)
  PROVE  DriveInv'
<1>1. /\ slots[s] \in Slot /\ slots \in [Slots -> Slot] /\ log \in Seq(Event)
      /\ DriveFits(slots[s], log, session.status, jobs)
  BY DEF DriveInv, TypeOK
<1>2. slots[s].mem = log
  BY <1>1 DEF DriveFits
<1>3. ~SeqTaken(s)
  BY <1>1, <1>2 DEF SeqTaken
<1> DEFINE r == [slots[s] EXCEPT !.pc = "act", !.rebooted = FALSE,
                                 !.mem = Append(slots[s].mem, e)]
<1>4. slots' = [slots EXCEPT ![s] = r] /\ log' = Append(log, e)
  BY <1>1, <1>3 DEF AppendAndLoop
<1>5. /\ r.pc = "act" /\ r.job = slots[s].job /\ r.last = slots[s].last
      /\ r.mem = Append(log, e)
  BY <1>1, <1>2 DEF Slot
<1>6. Append(log, e) # <<>>
  BY <1>1
<1> HIDE DEF r
<1> QED
  BY <1>4, <1>5, <1>6, DriveByTurn DEF TurnPc

LEMMA DriveByTerminal ==
  ASSUME TypeOK, HeldInv, DriveInv, NEW s \in Slots, UNCHANGED <<jobs, session>>,
         slots[s].pc \in {"act", "fail"}, NEW e \in Event, IsTerminal(e),
         NEW outcome \in {"completed", "failed"}, AppendAndReturn(s, e, outcome)
  PROVE  DriveInv'
<1>1. /\ log \in Seq(Event) /\ Busy(s)
      /\ DriveFits(slots[s], log, session.status, jobs)
  BY DEF DriveInv, TypeOK, Busy
<1>2. slots[s].mem = log
  BY <1>1 DEF DriveFits
<1>3. ~SeqTaken(s)
  BY <1>1, <1>2 DEF SeqTaken
<1>4. log' = Append(log, e) /\ Return(s, outcome)
  BY <1>3 DEF AppendAndReturn
<1>5. ~Open(log') /\ log' # <<>>
  BY <1>1, <1>4, AppendCloses
<1>6. OutcomeFits(outcome, log', session.status, jobs[slots[s].job].attempts)
  BY <1>5 DEF OutcomeFits
<1> QED
  BY <1>1, <1>4, <1>5, <1>6, DriveByReturn

LEMMA DriveByTurnStep ==
  ASSUME TypeOK, HeldInv, DriveInv, NEW s \in Slots, TurnStep(s)
  PROVE  DriveInv'
<1>0. /\ slots[s] \in Slot /\ slots \in [Slots -> Slot] /\ log \in Seq(Event)
      /\ DriveFits(slots[s], log, session.status, jobs) /\ log # <<>>
      /\ Busy(s) /\ UNCHANGED jobs
  BY TurnKeepsJob DEF TypeOK, DriveInv
<1>1. CASE Gate(s)
  <2>0. session' = session /\ log' = log /\ slots[s].pc = "gate"
    BY <1>1 DEF Gate
  <2>1. CASE session.status = "ready"
    <3> DEFINE r == [slots[s] EXCEPT !.pc = "read", !.box = session.box]
    <3>1. slots' = [slots EXCEPT ![s] = r]
      BY <1>0, <1>1, <2>1 DEF Gate
    <3>2. r.pc = "read" /\ r.job = slots[s].job /\ r.last = slots[s].last
      BY <1>0 DEF Slot
    <3> HIDE DEF r
    <3>3. DriveFits(r, log', session.status, jobs)
      BY <1>0, <2>0, <3>2 DEF DriveFits, ProvisionPc
    <3> QED
      BY <1>0, <2>0, <3>1, <3>3, DriveBySlot
  <2>2. CASE session.status # "ready"
    <3>1. session.status = "archived"
      BY <2>2 DEF DriveInv
    <3>2. Return(s, "abandoned")
      BY <1>1, <3>1 DEF Gate
    <3>3. OutcomeFits("abandoned", log', session.status, jobs[slots[s].job].attempts)
      BY <3>1 DEF OutcomeFits
    <3> QED
      BY <1>0, <2>0, <3>2, <3>3, DriveByReturn
  <2> QED
    BY <2>1, <2>2
<1>2. CASE ReadEvents(s)
  <2> DEFINE r == [slots[s] EXCEPT !.pc = "act", !.mem = log]
  <2>1. slots' = [slots EXCEPT ![s] = r]
    BY <1>0, <1>2 DEF ReadEvents
  <2>2. r.pc = "act" /\ r.job = slots[s].job /\ r.last = slots[s].last /\ r.mem = log
    BY <1>0 DEF Slot
  <2> HIDE DEF r
  <2> QED
    BY <1>0, <1>2, <2>1, <2>2, DriveByTurn DEF ReadEvents, TurnPc
<1>3. CASE Infer(s)
  BY <1>3, EventTypes, DriveByLoop DEF Infer, At
<1>4. CASE Noop(s)
  <2>1. /\ slots[s].mem = log /\ NextStep(s) = "noop" /\ log' = log
        /\ session' = session /\ Return(s, "completed")
    BY <1>0, <1>4 DEF Noop, At, DriveFits
  <2>2. IsTerminal(log[Len(log)])
    BY <2>1 DEF NextStep, NextAction
  <2>3. OutcomeFits("completed", log', session.status, jobs[slots[s].job].attempts)
    BY <1>0, <2>1, <2>2, TerminalCloses DEF OutcomeFits
  <2> QED
    BY <1>0, <2>1, <2>3, DriveByReturn
<1>5. CASE Finish(s)
  BY <1>0, <1>5, EventTypes, TerminalEvents, DriveByTerminal DEF Finish, At
<1>6. CASE ExhaustBudget(s)
  BY <1>0, <1>6, EventTypes, TerminalEvents, DriveByTerminal
  DEF ExhaustBudget, At, ErrorClass
<1>7. CASE LlmFails(s)
  <2> DEFINE r == [slots[s] EXCEPT !.pc = "fail", !.class = "LLM_PERMANENT"]
  <2>1. /\ slots[s].mem = log /\ log' = log /\ session' = session
        /\ slots[s].pc = "act"
    BY <1>0, <1>7 DEF LlmFails, At, DriveFits
  <2>2. /\ r.pc = "fail" /\ r.job = slots[s].job /\ r.last = slots[s].last
        /\ r.mem = slots[s].mem
    BY <1>0 DEF Slot
  <2>3. slots' = [slots EXCEPT ![s] = r] \/ MapError(s, "INTERNAL")
    BY <1>0, <1>7 DEF LlmFails
  <2> HIDE DEF r
  <2> QED
    BY <1>0, <2>1, <2>2, <2>3, DriveByTurn, DriveByMapError DEF TurnPc
<1>8. CASE StartExec(s)
  <2> DEFINE r == [slots[s] EXCEPT !.pc = "tail"]
  <2>1. /\ slots' = [slots EXCEPT ![s] = r] /\ slots[s].pc = "act"
        /\ log' = log /\ session' = session
    BY <1>0, <1>8 DEF StartExec, Goto, At
  <2>2. /\ r.pc = "tail" /\ r.job = slots[s].job /\ r.last = slots[s].last
        /\ r.mem = slots[s].mem
    BY <1>0 DEF Slot
  <2>3. slots[s].mem = log
    BY <1>0, <2>1 DEF DriveFits
  <2> HIDE DEF r
  <2> QED
    BY <1>0, <2>1, <2>2, <2>3, DriveByTurn DEF TurnPc
<1>9. CASE Collect(s)
  BY <1>9, EventTypes, KeyNat, DriveByLoop DEF Collect
<1>10. CASE ExecFails(s)
  <2>1. /\ slots[s].pc \in {"act", "tail"} /\ log' = log /\ session' = session
    BY <1>10 DEF ExecFails, At
  <2>2. CASE Goto(s, "reboot")
    <3> DEFINE r == [slots[s] EXCEPT !.pc = "reboot"]
    <3>1. slots' = [slots EXCEPT ![s] = r]
      BY <1>0, <2>2 DEF Goto
    <3>2. /\ r.pc = "reboot" /\ r.job = slots[s].job /\ r.last = slots[s].last
          /\ r.mem = slots[s].mem
      BY <1>0 DEF Slot
    <3>3. slots[s].mem = log
      BY <1>0, <2>1 DEF DriveFits
    <3> HIDE DEF r
    <3> QED
      BY <1>0, <2>1, <3>1, <3>2, <3>3, DriveByTurn DEF TurnPc
  <2> QED
    BY <1>0, <1>10, <2>1, <2>2, DriveByMapError DEF ExecFails
<1>11. CASE Reboot(s)
  <2> DEFINE r == [slots[s] EXCEPT !.pc = "act", !.rebooted = TRUE]
  <2>1. /\ slots' = [slots EXCEPT ![s] = r] /\ slots[s].pc = "reboot" /\ log' = log
        /\ session'.status = session.status
    BY <1>0, <1>11 DEF Reboot, TypeOK
  <2>2. /\ r.pc = "act" /\ r.job = slots[s].job /\ r.last = slots[s].last
        /\ r.mem = slots[s].mem
    BY <1>0 DEF Slot
  <2>3. slots[s].mem = log
    BY <1>0, <2>1 DEF DriveFits
  <2> HIDE DEF r
  <2> QED
    BY <1>0, <2>1, <2>2, <2>3, DriveByTurn DEF TurnPc
<1>12. CASE RebootFails(s)
  BY <1>0, <1>12, DriveByMapError DEF RebootFails
<1>13. CASE RecordFailure(s)
  <2>1. slots[s].class \in ErrorClass \cup {"none"}
    BY <1>0 DEF Slot
  <2> QED
    BY <1>0, <1>13, <2>1, EventTypes, TerminalEvents, DriveByTerminal DEF RecordFailure
<1> QED
  BY <1>1, <1>2, <1>3, <1>4, <1>5, <1>6, <1>7, <1>8, <1>9, <1>10, <1>11, <1>12,
     <1>13 DEF TurnStep

\* There is nothing to provision.
LEMMA NoProvisionStep ==
  ASSUME DriveInv, NEW s \in Slots, ProvisionStep(s)
  PROVE  FALSE
<1>1. DriveFits(slots[s], log, session.status, jobs)
  BY DEF DriveInv
<1> QED
  BY <1>1 DEF DriveFits, ProvisionPc, ProvisionStep, ProvisionGate, CreateBox,
     CreateBoxFails, OpenTx, CommitTx

LEMMA DriveByQueue ==
  ASSUME TypeOK, HeldInv, DriveInv, NEW s \in Slots, Pull(s) \/ Settle(s) \/ Crash(s)
  PROVE  DriveInv'
<1>0. /\ jobs \in [JobId -> JobRow] /\ slots \in [Slots -> Slot]
      /\ 0 \in JobId /\ slots[s].job \in JobId
  BY SlotTypes, RuntimeAssumption DEF TypeOK, JobId
<1>1. CASE Pull(s)
  <2>1. PICK j \in JobId :
          /\ ~Busy(s) /\ Claimable(j)
          /\ jobs' = [jobs EXCEPT ![j] = [state |-> "running", lease |-> TRUE,
                                          attempts |-> @.attempts + 1]]
          /\ slots' = [slots EXCEPT ![s] = [Idle EXCEPT !.pc = "gate", !.job = j,
                                                       !.last = LastAttempt(j)]]
          /\ UNCHANGED <<log, session>>
    BY <1>1 DEF Pull
  <2>2. j # 0 /\ jobs'[0] = jobs[0]
    BY <1>0, <2>1 DEF DriveInv, Claimable
  <2>3. ASSUME NEW t \in Slots, Busy(t)
        PROVE  FALSE
    <3>1. /\ slots[t].job \in JobId \ {0} /\ jobs[slots[t].job].state = "running"
          /\ jobs[slots[t].job].lease
      BY <2>3, OthersIdle
    <3>2. slots[t].job = j
      BY <2>1, <2>2, <3>1 DEF HeldInv, OneActive, Active, Claimable
    <3> QED
      BY <2>1, <3>1, <3>2 DEF Claimable
  <2> DEFINE r == [Idle EXCEPT !.pc = "gate", !.job = j, !.last = LastAttempt(j)]
  <2>4. slots' = [slots EXCEPT ![s] = r] /\ r.pc = "gate" /\ r.job = j
        /\ r.last = LastAttempt(j)
    BY <2>1 DEF Idle
  <2> HIDE DEF r
  <2>5. jobs'[j].attempts = jobs[j].attempts + 1 /\ jobs'[j].state = "running"
    BY <1>0, <2>1
  <2>6. ~r.last => jobs'[j].attempts < MaxAttempts
    <3> SUFFICES ASSUME ~r.last
                 PROVE  jobs'[j].attempts < MaxAttempts
      OBVIOUS
    <3>1. ~LastAttempt(j)
      BY <2>4
    <3>2. jobs[j].attempts \in Nat
      BY <1>0 DEF JobRow
    <3>3. jobs[j].attempts + 1 < MaxAttempts
      BY <3>1, <3>2, RuntimeAssumption DEF LastAttempt
    <3> QED
      BY <2>5, <3>3
  <2>7. DriveFits(r, log, session.status, jobs')
    BY <2>2, <2>4, <2>6 DEF DriveFits, ProvisionPc
  <2>8. \A t \in Slots \ {s} : slots'[t].pc = "idle"
    BY <1>0, <2>3, <2>4 DEF Busy
  <2>9. \A t \in Slots \ {s} : DriveFits(slots'[t], log, session.status, jobs')
    BY <2>8 DEF DriveFits, ProvisionPc
  <2>10. slots'[s] = r
    BY <1>0, <2>4
  <2>11. HasActiveTurn'
    BY <2>2, <2>5 DEF HasActiveTurn
  <2> QED
    BY <2>1, <2>2, <2>7, <2>9, <2>10, <2>11 DEF DriveInv
<1>2. CASE Settle(s) \/ Crash(s)
  <2>1. /\ slots' = [slots EXCEPT ![s] = Idle] /\ UNCHANGED <<log, session>>
        /\ Busy(s)
    BY <1>2 DEF Settle, Crash, Busy
  <2>2. \A t \in Slots : slots'[t].pc = "idle"
    BY <1>0, <2>1, OthersIdle DEF Idle
  <2>3. \A t \in Slots : DriveFits(slots'[t], log, session.status, jobs')
    BY <2>2 DEF DriveFits, ProvisionPc
  <2>4. CASE Crash(s)
    <3>1. jobs' = jobs
      BY <2>4 DEF Crash
    <3> QED
      BY <2>1, <2>3, <3>1 DEF DriveInv, HasActiveTurn
  <2>5. CASE Settle(s)
    <3> DEFINE k == slots[s].job
    <3>1. /\ k \in JobId \ {0} /\ jobs[k].state = "running"
          /\ jobs' = Settled(s) /\ slots[s].pc = "settle"
      BY <2>1, <2>5, OthersIdle DEF Settle
    <3>2. jobs'[0] = jobs[0]
      BY <1>0, <3>1 DEF Settled, Ack, Nack
    <3>3. OutcomeFits(slots[s].outcome, log, session.status, jobs[k].attempts)
      BY <3>1 DEF DriveInv, DriveFits
    <3>4. CASE slots[s].outcome = "retry_later"
      <4>1. jobs[k].attempts < MaxAttempts
        BY <3>3, <3>4 DEF OutcomeFits
      <4>2. jobs' = Nack(k)
        BY <3>1, <3>4 DEF Settled
      <4>3. ~(jobs[k].attempts >= MaxAttempts)
        BY <1>0, <3>1, <4>1, RuntimeAssumption DEF JobRow
      <4>4. jobs'[k].state = "queued"
        BY <1>0, <3>1, <4>2, <4>3 DEF Nack
      <4>5. HasActiveTurn'
        BY <3>1, <4>4 DEF HasActiveTurn
      <4> QED
        BY <2>1, <2>3, <3>2, <4>5 DEF DriveInv
    <3>5. CASE slots[s].outcome # "retry_later"
      <4>1. ~(Open(log) /\ session.status = "ready")
        BY <3>3, <3>5 DEF OutcomeFits
      <4> QED
        BY <2>1, <2>3, <3>2, <4>1 DEF DriveInv
    <3> QED
      BY <3>4, <3>5
  <2> QED
    BY <1>2, <2>4, <2>5
<1> QED
  BY <1>1, <1>2

LEMMA DriveByOthers ==
  ASSUME TypeOK, HeldInv, DriveInv,
         \/ SendMessage \/ Archive \/ CommandExits \/ UNCHANGED vars
         \/ \E j \in JobId : ExpireLease(j)
         \/ \E s \in Slots : Heartbeat(s)
  PROVE  DriveInv'
<1>0. jobs \in [JobId -> JobRow] /\ 0 \in JobId /\ log \in Seq(Event)
      /\ \A s \in Slots : slots[s].job \in JobId
  BY SlotTypes, RuntimeAssumption DEF TypeOK, JobId
<1>1. CASE SendMessage
  <2> DEFINE new == messages + 1
  <2>1. /\ jobs' = [jobs EXCEPT ![new] = Queued] /\ log' = Append(log, UserMessage)
        /\ ~HasActiveTurn /\ messages < MaxMessages /\ UNCHANGED <<session, slots>>
    BY <1>1 DEF SendMessage
  <2>2. new \in JobId \ {0}
    BY <2>1, RuntimeAssumption DEF TypeOK, JobId
  <2>3. jobs'[new].state = "queued" /\ jobs'[0] = jobs[0]
    BY <1>0, <2>1, <2>2 DEF Queued, NoJob
  <2>4. \A s \in Slots : slots[s].pc = "idle"
    BY <2>1, OthersIdle DEF Busy
  <2>5. \A s \in Slots : DriveFits(slots'[s], log', session'.status, jobs')
    BY <2>1, <2>4 DEF DriveFits, ProvisionPc
  <2>6. HasActiveTurn'
    BY <2>2, <2>3 DEF HasActiveTurn
  <2>7. log' # <<>>
    BY <1>0, <2>1
  <2> QED
    BY <2>1, <2>3, <2>5, <2>6, <2>7 DEF DriveInv
<1>2. CASE Archive
  <2>1. session'.status = "archived" /\ UNCHANGED <<log, slots, jobs>>
    BY <1>2 DEF Archive, TypeOK
  <2>2. \A s \in Slots : DriveFits(slots[s], log, "archived", jobs)
    BY DEF DriveInv, DriveFits, OutcomeFits
  <2> QED
    BY <2>1, <2>2 DEF DriveInv
<1>3. CASE CommandExits \/ UNCHANGED vars
  <2>1. UNCHANGED <<log, session, slots, jobs>>
    BY <1>3 DEF CommandExits, vars
  <2> QED
    BY <2>1 DEF DriveInv, HasActiveTurn
<1>4. CASE \E j \in JobId : ExpireLease(j)
  <2>1. UNCHANGED <<log, session, slots>>
    BY <1>4 DEF ExpireLease
  <2>2. \A j \in JobId : /\ jobs'[j].state = jobs[j].state
                         /\ jobs'[j].attempts = jobs[j].attempts
    BY <1>0, <1>4 DEF ExpireLease, JobRow
  <2>3. \A s \in Slots : DriveFits(slots[s], log, session.status, jobs')
    BY <1>0, <2>2 DEF DriveInv, DriveFits
  <2> QED
    BY <1>0, <2>1, <2>2, <2>3 DEF DriveInv, HasActiveTurn
<1>5. CASE \E s \in Slots : Heartbeat(s)
  BY <1>5 DEF Heartbeat, HeldInv, OneHolder
<1> QED
  BY <1>1, <1>2, <1>3, <1>4, <1>5

LEMMA DriveNextKeeps == TypeOK /\ HeldInv /\ DriveInv /\ HeldNext => DriveInv'
BY DriveByOthers, DriveByQueue, DriveByTurnStep, NoProvisionStep DEF HeldNext, Handles

LEMMA DriveHolds ==
  ASSUME StartReady
  PROVE  Spec => [](LeasesHold => DriveInv)
<1>1. Init => TypeOK /\ (LeasesHold => DriveInv)
  BY TypeInit, DriveInit
<1>2. /\ TypeOK /\ (LeasesHold => HeldInv) /\ (LeasesHold => DriveInv)
      /\ [Next]_vars
      => (LeasesHold => DriveInv)'
  BY HeldStep, DriveNextKeeps
<1> QED
  BY <1>1, <1>2, HeldHolds, TypeCorrect, PTL DEF Spec

\* A turn that still has to end has a queued or running job, whatever workers
\* are lost, as long as leases hold and database calls succeed (service.ts
\* sendMessage, Rule 1: message and job in one transaction).  The session is
\* provisioned: the run dead_while_provisioning shows what happens otherwise.
THEOREM OpenTurnsHaveJobs ==
  ASSUME StartReady
  PROVE  Spec => [](LeasesHold => OpenTurnHasJob)
<1>1. DriveInv => OpenTurnHasJob
  BY DEF DriveInv, OpenTurnHasJob, OpenTurn, Open
<1> QED
  BY <1>1, DriveHolds, PTL

\* ... and so a new message is accepted only when the turn before it has ended
\* (service.ts 203).
THEOREM MessagesWaitForTheTurn ==
  ASSUME StartReady, MaxStalls = 0, MaxDbErrors = 0
  PROVE  Spec => MessagesBetweenTurns
<1>1. TypeOK => LeasesHold
  <2> SUFFICES ASSUME TypeOK
               PROVE  LeasesHold
    OBVIOUS
  <2>1. faults.stall \in 0 .. 0 /\ faults.db \in 0 .. 0
    BY DEF TypeOK
  <2> QED
    BY <2>1 DEF LeasesHold
<1>2. TypeOK /\ DriveInv /\ [Next]_vars => [messages' # messages => ~OpenTurn]_vars
  <2> SUFFICES ASSUME TypeOK, DriveInv, Next, messages' # messages
               PROVE  ~OpenTurn
    BY DEF vars
  <2>1. SendMessage
    <3>1. ASSUME NEW s \in Slots, Work(s) \/ Fault(s)
          PROVE  messages' = messages
      <4>1. CASE TurnStep(s) \/ ProvisionStep(s)
        BY <4>1, TurnKeepsJob, ProvisionKeepsJob
      <4>2. CASE Settle(s) \/ Fault(s)
        BY <4>2 DEF Settle, Fault, Stall, Crash, ReadThrows, AppendThrows, TxThrows,
                    SettleThrows
      <4> QED
        BY <3>1, <4>1, <4>2 DEF Work
    <3> QED
      BY <3>1 DEF Next, Archive, CommandExits, ExpireLease, Pull, Heartbeat
  <2>2. ~HasActiveTurn /\ session.status = "ready"
    BY <2>1 DEF SendMessage, DriveInv
  <2> QED
    BY <2>2 DEF DriveInv, OpenTurn, Open
<1>3. [](TypeOK /\ DriveInv) /\ [][Next]_vars => MessagesBetweenTurns
  BY <1>2, PTL DEF MessagesBetweenTurns
<1> QED
  BY <1>1, <1>3, DriveHolds, TypeCorrect, PTL DEF Spec
=============================================================================
