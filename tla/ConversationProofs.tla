------------------------- MODULE ConversationProofs -------------------------
(***************************************************************************)
(* What every log of a Conversation is like, for every iteration budget    *)
(* and every length: results answer calls, calls are answered in order,    *)
(* and the budget is kept.  By the        *)
(* theorem Implements of TurnRuntimeImplements these are properties of the *)
(* log the workers write.                                                  *)
(*                                                                         *)
(* The log only grows at its end, so each step has to show its property    *)
(* for the new last event alone; what the reducer knows of the log (the    *)
(* last user and assistant message, LastFound) gives it.                   *)
(***************************************************************************)
EXTENDS Conversation, FiniteSetTheorems, TLAPS

IsLastOf(i, events, type) ==
  /\ i \in DOMAIN events /\ events[i].type = type
  /\ \A j \in DOMAIN events : events[j].type = type => j <= i

\* findLastIndex finds: a type that occurs has a last occurrence.
HasLast(events, type) ==
  (\E i \in DOMAIN events : events[i].type = type)
    => \E i \in DOMAIN events : IsLastOf(i, events, type)

LastsExist == /\ HasLast(log, "user_message")
              /\ HasLast(log, "assistant_message")

\* Bookkeeping the properties compare whole events by.
Shaped(e) == /\ e.type = "tool_result" => e = ToolResult(e.key)
             /\ e.type = "user_message" => e = UserMessage

IInv == /\ TypeOK
        /\ \A i \in DOMAIN log : Shaped(log[i])
        /\ LastsExist
        /\ ResultsPaired
        /\ CallsAnsweredInOrder
        /\ BudgetRespected

-----------------------------------------------------------------------------
(* Lemmas about the log and the reducer.                                   *)

LEMMA LastFound ==
  ASSUME NEW events, NEW type, HasLast(events, type),
         NEW i \in DOMAIN events, events[i].type = type
  PROVE  IsLastOf(LastOf(events, type), events, type)
<1> DEFINE Hits == {h \in DOMAIN events : events[h].type = type}
           IsLast(h) == \A j \in Hits : j <= h
<1>1. \E h \in Hits : IsLast(h)
  BY DEF HasLast, IsLastOf
<1>2. LastOf(events, type) = CHOOSE h \in Hits : IsLast(h)
  BY <1>1 DEF LastOf
<1>3. LastOf(events, type) \in Hits /\ IsLast(LastOf(events, type))
  BY <1>1, <1>2
<1> QED
  BY <1>3 DEF IsLastOf

LEMMA LastMissing ==
  ASSUME NEW events, NEW type, \A i \in DOMAIN events : events[i].type # type
  PROVE  LastOf(events, type) = 0
BY DEF LastOf

LEMMA LastStays ==
  ASSUME NEW events \in Seq(Event), NEW e \in Event, NEW type,
         HasLast(events, type)
  PROVE  HasLast(Append(events, e), type)
<1> DEFINE longer == Append(events, e)
           n == Len(events) + 1
<1>1. /\ n \in Nat
      /\ DOMAIN longer = 1 .. n /\ DOMAIN events = 1 .. n - 1
      /\ \A i \in DOMAIN events : longer[i] = events[i]
      /\ longer[n] = e
  OBVIOUS
<1>2. CASE e.type = type
  <2>1. IsLastOf(n, longer, type)
    BY <1>1, <1>2 DEF IsLastOf
  <2> QED
    BY <1>1, <2>1 DEF HasLast
<1>3. CASE e.type # type
  <2>1. SUFFICES ASSUME NEW i \in DOMAIN longer, longer[i].type = type
                 PROVE  \E k \in DOMAIN longer : IsLastOf(k, longer, type)
    BY DEF HasLast
  <2>2. i \in DOMAIN events /\ events[i].type = type
    BY <1>1, <1>3, <2>1
  <2>3. PICK k \in DOMAIN events : IsLastOf(k, events, type)
    BY <2>2 DEF HasLast
  <2>4. IsLastOf(k, longer, type)
    BY <1>1, <1>3, <2>3 DEF IsLastOf
  <2> QED
    BY <1>1, <2>3, <2>4
<1> QED
  BY <1>2, <1>3

\* What the reducer sees of a log within a turn.
LEMMA InTurnLog ==
  ASSUME IInv, InTurn
  PROVE  /\ IsLastOf(LastUser(log), log, "user_message")
         /\ LastAssistant(log) \in Nat
         /\ LastAssistant(log) # 0 =>
              IsLastOf(LastAssistant(log), log, "assistant_message")
         /\ \A i \in DOMAIN log :
              log[i].type = "assistant_message" => i <= LastAssistant(log)
<1>1. DOMAIN log = 1 .. Len(log) /\ Len(log) \in Nat
  BY DEF IInv, TypeOK
<1>2. IsLastOf(LastUser(log), log, "user_message")
  <2>1. PICK i \in DOMAIN log : log[i].type = "user_message"
    BY DEF InTurn, UserMessage, Bare
  <2> QED
    BY <2>1, LastFound DEF IInv, LastsExist, LastUser
<1>3. CASE \E i \in DOMAIN log : log[i].type = "assistant_message"
  <2>1. IsLastOf(LastAssistant(log), log, "assistant_message")
    BY <1>3, LastFound DEF IInv, LastsExist, LastAssistant
  <2> QED
    BY <1>1, <1>2, <2>1 DEF IsLastOf
<1>4. CASE \A i \in DOMAIN log : log[i].type # "assistant_message"
  BY <1>1, <1>2, <1>4, LastMissing DEF LastAssistant
<1> QED
  BY <1>3, <1>4

-----------------------------------------------------------------------------
(* One step.                                                               *)

\* What a step appends, and on which log.
Ordered(e) ==
  \/ e \in {UserMessage, Provisioned} \cup {TurnFailed(c) : c \in ErrorClass}
  \/ InTurn /\ Turn = "infer" /\ e \in {Assistant(c) : c \in BOOLEAN}
  \/ InTurn /\ Turn = "exec_tool" /\ e = ToolResult(PendingKey(log))
  \/ InTurn /\ Turn = "finish" /\ e = TurnCompleted

\* The case every step lemma is about.
Appends(e) == e \in Event /\ Ordered(e) /\ log' = Append(log, e)

LEMMA StepAppends ==
  ASSUME IInv, Next
  PROVE  \E e \in Event : Appends(e)
<1> USE DEF Appends, Ordered, Extend, Event, ErrorClass, EventType, Bare,
            UserMessage, Provisioned, TurnFailed, Assistant, ToolResult, TurnCompleted
<1>1. CASE SendMessage
  BY <1>1 DEF SendMessage
<1>2. CASE FinishProvision
  BY <1>2 DEF FinishProvision
<1>3. CASE FailProvision
  BY <1>3 DEF FailProvision
<1>4. CASE Infer
  BY <1>4 DEF Infer
<1>5. CASE RunTool
  <2>1. PendingKey(log) \in Nat
    BY <1>5, InTurnLog DEF RunTool, PendingKey, IdemKeyFor
  <2> QED
    BY <1>5, <2>1 DEF RunTool
<1>6. CASE Finish
  BY <1>6 DEF Finish
<1>7. CASE ExhaustBudget
  BY <1>7 DEF ExhaustBudget
<1>8. CASE GiveUp
  BY <1>8 DEF GiveUp
<1> QED
  BY <1>1, <1>2, <1>3, <1>4, <1>5, <1>6, <1>7, <1>8 DEF Next

LEMMA Longer ==
  ASSUME IInv, NEW e \in Event, Appends(e)
  PROVE  /\ log \in Seq(Event) /\ log' \in Seq(Event)
         /\ Len(log) \in Nat /\ Len(log') = Len(log) + 1
         /\ DOMAIN log = 1 .. Len(log) /\ DOMAIN log' = 1 .. Len(log) + 1
         /\ \A i \in 1 .. Len(log) : log'[i] = log[i]
         /\ log'[Len(log) + 1] = e
BY DEF IInv, TypeOK, Appends

LEMMA ShapeStep ==
  ASSUME IInv, NEW e \in Event, Appends(e)
  PROVE  TypeOK' /\ (\A i \in DOMAIN log : Shaped(log[i]))' /\ LastsExist'
<1>1. Shaped(e)
  BY DEF Appends, Ordered, Shaped, Bare, UserMessage, Provisioned, TurnFailed,
         Assistant, ToolResult, TurnCompleted
<1>2. (\A i \in DOMAIN log : Shaped(log[i]))'
  BY <1>1, Longer DEF IInv
<1>3. LastsExist'
  BY Longer, LastStays DEF IInv, LastsExist, Appends
<1> QED
  BY <1>2, <1>3, Longer DEF TypeOK

\* The result at position i of a log answers a call of its turn.
PairedAt(events, i) ==
  LET k == events[i].key
  IN  /\ k \in 1 .. i - 1
      /\ events[k].type = "assistant_message" /\ events[k].call
      /\ \A j \in k + 1 .. i - 1 :
           /\ events[j].type # "user_message"
           /\ events[j].type = "tool_result" => events[j].key # k

LEMMA ResultsStep ==
  ASSUME IInv, NEW e \in Event, Appends(e)
  PROVE  ResultsPaired'
<1> DEFINE n == Len(log) + 1
           k == PendingKey(log)
<1>1. SUFFICES ASSUME NEW i \in 1 .. n, log'[i].type = "tool_result"
               PROVE  PairedAt(log', i)
  BY Longer DEF ResultsPaired, PairedAt
<1>2. CASE i # n
  <2>1. i \in 1 .. Len(log) /\ log[i].type = "tool_result"
    BY <1>1, <1>2, Longer
  <2>2. PairedAt(log, i)
    BY <2>1, Longer DEF IInv, ResultsPaired, PairedAt
  <2>3. log'[i] = log[i] /\ \A j \in 1 .. i : log'[j] = log[j]
    BY <2>1, Longer
  <2>4. log[i].key \in 1 .. i - 1
    BY <2>2 DEF PairedAt
  <2>5. /\ log'[log[i].key] = log[log[i].key]
        /\ \A j \in log[i].key + 1 .. i - 1 : log'[j] = log[j]
    BY <2>1, <2>3, <2>4
  <2> QED
    BY <2>2, <2>3, <2>5, Zenon DEF PairedAt
<1>3. CASE i = n
  <2>1. InTurn /\ Turn = "exec_tool" /\ e = ToolResult(k)
    BY <1>1, <1>3, Longer
       DEF Appends, Ordered, Bare, UserMessage, Provisioned, TurnFailed,
           Assistant, TurnCompleted
  <2>2. /\ k = LastAssistant(log) /\ ~(k < LastUser(log))
        /\ log[k].call /\ ~Answered(log, k)
    BY <2>1 DEF Turn, NextAction, PendingKey, IdemKeyFor
  <2>3. IsLastOf(LastUser(log), log, "user_message") /\ k \in Nat
    BY <2>1, <2>2, InTurnLog
  <2>4. k # 0
    BY <2>2, <2>3, Longer DEF IsLastOf
  <2>5. k \in 1 .. Len(log) /\ log[k].type = "assistant_message"
    BY <2>1, <2>2, <2>4, InTurnLog, Longer DEF IsLastOf
  <2>6. \A j \in k + 1 .. Len(log) : log[j].type # "user_message"
    BY <2>2, <2>3, <2>5, Longer DEF IsLastOf
  <2>7. \A j \in k + 1 .. Len(log) : log[j].type = "tool_result" => log[j].key # k
    BY <2>2 DEF Answered
  <2>8. log'[n].key = k
    BY <2>1, Longer DEF ToolResult, Bare
  <2>9. \A j \in k + 1 .. Len(log) : log'[j] = log[j]
    BY <2>5, Longer
  <2>10. /\ k \in 1 .. i - 1 /\ Len(log) = i - 1
         /\ log'[k].type = "assistant_message" /\ log'[k].call
    BY <1>3, <2>2, <2>5, Longer
  <2> QED
    BY <1>3, <2>6, <2>7, <2>8, <2>9, <2>10 DEF PairedAt
<1> QED
  BY <1>2, <1>3

LEMMA OrderStep ==
  ASSUME IInv, NEW e \in Event, Appends(e)
  PROVE  CallsAnsweredInOrder'
<1> DEFINE n == Len(log) + 1
           Between(k, i) ==
             /\ k < i
             /\ log'[k].type = "assistant_message" /\ log'[k].call
             /\ log'[i].type \in {"assistant_message", "turn_completed"}
             /\ \A j \in k + 1 .. i - 1 : log'[j].type # "user_message"
<1>1. SUFFICES ASSUME NEW k \in 1 .. n, NEW i \in 1 .. n, Between(k, i)
               PROVE  \E j \in k + 1 .. i - 1 : log'[j] = ToolResult(k)
  BY Longer DEF CallsAnsweredInOrder
<1>2. CASE i # n
  <2>1. /\ k \in 1 .. Len(log) /\ i \in 1 .. Len(log) /\ i - 1 \in Nat
        /\ \A j \in k + 1 .. i - 1 : j \in 1 .. Len(log)
    BY <1>1, <1>2, Longer
  <2>2. /\ k < i /\ log[k].type = "assistant_message" /\ log[k].call
        /\ log[i].type \in {"assistant_message", "turn_completed"}
        /\ \A j \in k + 1 .. i - 1 : log[j].type # "user_message"
    BY <1>1, <2>1, Longer
  <2>3. \E j \in k + 1 .. i - 1 : log[j] = ToolResult(k)
    BY <2>1, <2>2, Longer DEF IInv, CallsAnsweredInOrder
  <2> QED
    BY <2>1, <2>3, Longer
<1>3. CASE i = n
  <2>1. InTurn /\ Turn \in {"infer", "finish"}
    BY <1>1, <1>3, Longer
       DEF Appends, Ordered, Bare, UserMessage, Provisioned, TurnFailed,
           ToolResult, TurnCompleted
  <2>2. k \in 1 .. Len(log) /\ log[k].type = "assistant_message" /\ log[k].call
    BY <1>1, <1>3, Longer
  <2>3. \A j \in k + 1 .. Len(log) : log[j].type # "user_message"
    BY <1>1, <1>3, Longer
  <2> DEFINE a == LastAssistant(log)
  <2>4. a \in Nat /\ k <= a /\ IsLastOf(a, log, "assistant_message")
    BY <2>1, <2>2, InTurnLog, Longer
  <2>5. ~(a < LastUser(log))
    <3>1. IsLastOf(LastUser(log), log, "user_message")
      BY <2>1, InTurnLog
    <3> QED
      BY <2>3, <2>4, <3>1, Longer DEF IsLastOf
  <2>6. log[a].call => Answered(log, a)
    BY <2>1, <2>5 DEF Turn, NextAction, IdemKeyFor
  <2>7. CASE k = a
    <3>1. PICK j \in a + 1 .. Len(log) : log[j].type = "tool_result" /\ log[j].key = a
      BY <2>2, <2>6, <2>7 DEF Answered
    <3>2. log[j] = ToolResult(a)
      BY <2>4, <3>1, Longer DEF IInv, Shaped
    <3>3. j \in 1 .. Len(log) /\ j \in k + 1 .. i - 1
      BY <1>3, <2>4, <2>7, <3>1, Longer
    <3>4. log'[j] = log[j]
      BY <3>3, Longer
    <3> QED
      BY <2>7, <3>2, <3>3, <3>4
  <2>8. CASE k # a
    <3>1. a \in 1 .. Len(log) /\ k < a /\ log[a].type = "assistant_message"
      BY <2>2, <2>4, <2>8, Longer DEF IsLastOf
    <3>2. \E j \in k + 1 .. a - 1 : log[j] = ToolResult(k)
      BY <2>2, <2>3, <3>1, Longer DEF IInv, CallsAnsweredInOrder
    <3>3. PICK j \in k + 1 .. a - 1 : log[j] = ToolResult(k)
      BY <3>2
    <3>4. j \in 1 .. Len(log) /\ j \in k + 1 .. i - 1
      BY <1>3, <2>2, <3>1, Longer
    <3>5. log'[j] = log[j]
      BY <3>4, Longer
    <3> QED
      BY <3>3, <3>4, <3>5
  <2> QED
    BY <2>7, <2>8
<1> QED
  BY <1>2, <1>3

\* Model calls of a turn whose message is at u, up to position n.
Spoken(events, u, n) == {i \in u + 1 .. n : events[i].type = "assistant_message"}

LEMMA SpokenFinite ==
  ASSUME NEW events, NEW u \in Nat, NEW n \in Nat
  PROVE  IsFiniteSet(Spoken(events, u, n)) /\ Cardinality(Spoken(events, u, n)) \in Nat
<1>1. IsFiniteSet(u + 1 .. n)
  BY FS_Interval
<1>2. Spoken(events, u, n) \subseteq u + 1 .. n
  BY DEF Spoken
<1> QED
  BY <1>1, <1>2, FS_Subset, FS_CardinalityType

LEMMA BudgetStep ==
  ASSUME IInv, NEW e \in Event, Appends(e)
  PROVE  BudgetRespected'
<1> DEFINE N == Len(log) + 1
           Quiet(u, n) == \A j \in u + 1 .. n : log'[j].type # "user_message"
<1>1. SUFFICES ASSUME NEW u \in 1 .. N, log'[u].type = "user_message",
                      NEW n \in u .. N, Quiet(u, n)
               PROVE  Cardinality(Spoken(log', u, n)) <= MaxIterations
  BY Longer DEF BudgetRespected, Spoken
<1>2. MaxIterations \in Nat /\ 1 <= MaxIterations
  BY ConversationAssumption
<1>3. ASSUME NEW m \in u .. Len(log), m <= n
      PROVE  /\ Spoken(log', u, m) = Spoken(log, u, m)
             /\ Cardinality(Spoken(log, u, m)) <= MaxIterations
  <2>1. /\ u \in 1 .. Len(log) /\ log[u].type = "user_message"
        /\ \A j \in u + 1 .. m : j \in 1 .. Len(log) /\ j \in u + 1 .. n
    BY <1>1, <1>3, Longer
  <2>2. \A j \in u + 1 .. m : log'[j] = log[j] /\ log[j].type # "user_message"
    BY <1>1, <2>1, Longer
  <2>3. Spoken(log', u, m) = Spoken(log, u, m)
    BY <2>2 DEF Spoken
  <2>4. Cardinality(Spoken(log, u, m)) <= MaxIterations
    BY <2>1, <2>2, Longer DEF IInv, BudgetRespected, Spoken
  <2> QED
    BY <2>3, <2>4
<1>4. CASE n # N
  BY <1>1, <1>3, <1>4, Longer
<1>5. CASE n = N /\ u = N
  <2>1. Spoken(log', u, n) = {}
    BY <1>5, Longer DEF Spoken
  <2> QED
    BY <1>2, <2>1, FS_EmptySet
<1>6. CASE n = N /\ u # N
  <2> DEFINE before == Spoken(log, u, Len(log))
  <2>1. /\ u \in 1 .. Len(log) /\ Len(log) \in u .. Len(log) /\ Len(log) <= n
        /\ u + 1 .. n = (u + 1 .. Len(log)) \cup {n}
    BY <1>6, Longer
  <2>2. /\ Spoken(log', u, Len(log)) = before
        /\ Cardinality(before) <= MaxIterations
    BY <1>3, <2>1
  <2>3. CASE e.type # "assistant_message"
    <3>1. Spoken(log', u, n) = Spoken(log', u, Len(log))
      BY <1>6, <2>1, <2>3, Longer DEF Spoken
    <3> QED
      BY <2>2, <3>1
  <2>4. CASE e.type = "assistant_message"
    <3>1. InTurn /\ Turn = "infer"
      BY <2>4 DEF Appends, Ordered, Bare, UserMessage, Provisioned, TurnFailed,
                  ToolResult, TurnCompleted
    <3>2. u = LastUser(log)
      <4>1. log[u].type = "user_message" /\ u \in DOMAIN log
        BY <1>1, <2>1, Longer
      <4>2. \A j \in u + 1 .. Len(log) : log[j].type # "user_message"
        BY <1>1, <2>1, Longer
      <4>3. IsLastOf(LastUser(log), log, "user_message")
        BY <3>1, InTurnLog
      <4> QED
        BY <4>1, <4>2, <4>3, Longer DEF IsLastOf
    <3>3. before = Iterations(log)
      BY <3>2 DEF Spoken, Iterations
    <3>4. Cardinality(before) + 1 <= MaxIterations
      <4>1. CASE LastAssistant(log) < LastUser(log)
        <5>1. before = {}
          BY <2>1, <3>1, <3>2, <4>1, InTurnLog, Longer DEF Spoken
        <5> QED
          BY <1>2, <5>1, FS_EmptySet
      <4>2. CASE ~(LastAssistant(log) < LastUser(log))
        <5>1. ~(Cardinality(before) >= MaxIterations)
          BY <3>1, <3>3, <4>2 DEF Turn, NextAction
        <5> QED
          BY <1>2, <2>1, <5>1, SpokenFinite, Longer
      <4> QED
        BY <4>1, <4>2
    <3>5. Spoken(log', u, n) = before \cup {n}
      BY <1>6, <2>1, <2>2, <2>4, Longer DEF Spoken
    <3>6. IsFiniteSet(before)
      BY <2>1, SpokenFinite, Longer
    <3>7. n \notin before
      BY <1>6, Longer DEF Spoken
    <3> QED
      BY <3>4, <3>5, <3>6, <3>7, FS_AddElement
  <2> QED
    BY <2>3, <2>4
<1> QED
  BY <1>4, <1>5, <1>6

-----------------------------------------------------------------------------
(* The theorems.                                                           *)

LEMMA Start == Init => IInv
<1> SUFFICES ASSUME Init PROVE IInv
  OBVIOUS
<1>1. log \in Seq(Event) /\ Len(log) \in {0, 1}
  <2>1. Provisioned \in Event
    BY DEF Event, EventType, ErrorClass, Provisioned, Bare
  <2>2. CASE log = <<>>
    BY <2>2
  <2>3. CASE log = <<Provisioned>>
    BY <2>1, <2>3
  <2> QED
    BY <2>2, <2>3 DEF Init
<1>2. DOMAIN log = 1 .. Len(log)
  BY <1>1
<1>3. \A i \in DOMAIN log : i = 1 /\ log[i].type = "session_provisioned"
  BY <1>1, <1>2 DEF Init, Provisioned, Bare
<1> QED
  BY <1>1, <1>2, <1>3
     DEF IInv, TypeOK, Shaped, LastsExist, HasLast, ResultsPaired,
         CallsAnsweredInOrder, BudgetRespected

LEMMA Step == IInv /\ [Next]_log => IInv'
<1>1. ASSUME IInv, Next PROVE IInv'
  <2>1. PICK e \in Event : Appends(e)
    BY <1>1, StepAppends
  <2> QED
    BY <1>1, <2>1, ShapeStep, ResultsStep, OrderStep, BudgetStep
       DEF IInv
<1>2. ASSUME IInv, UNCHANGED log PROVE IInv'
  <2>1. TypeOK' /\ (\A i \in DOMAIN log : Shaped(log[i]))' /\ LastsExist'
    BY <1>2 DEF IInv, TypeOK, LastsExist
  <2>2. ResultsPaired' /\ CallsAnsweredInOrder'
    BY <1>2 DEF IInv, ResultsPaired, CallsAnsweredInOrder
  <2>3. BudgetRespected'
    BY <1>2 DEF IInv, BudgetRespected
  <2> QED
    BY <2>1, <2>2, <2>3 DEF IInv
<1> QED
  BY <1>1, <1>2

\* IInv holds of every log of a conversation.
THEOREM Invariant == Spec => []IInv
BY Start, Step, PTL DEF Spec

\* Every row of the log parses against the schemas of events.ts.
THEOREM LogTypeCorrect == Spec => []TypeOK
BY Invariant, PTL DEF IInv

\* A tool result answers a call of its own turn, and no call is answered
\* twice, however long the log is (native-strategy.ts 108-117).
THEOREM ResultsArePaired == Spec => []ResultsPaired
BY Invariant, PTL DEF IInv

\* The model never speaks, and no turn completes, over a call that has no answer
\* (reducer.ts 44-65).
THEOREM CallsAreAnswered == Spec => []CallsAnsweredInOrder
BY Invariant, PTL DEF IInv

\* No turn costs more model calls than max_iterations (reducer.ts 68-74).
THEOREM BudgetIsKept == Spec => []BudgetRespected
BY Invariant, PTL DEF IInv
=============================================================================
