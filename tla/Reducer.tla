------------------------------ MODULE Reducer -------------------------------
(***************************************************************************)
(* The event log's vocabulary (events.ts) and the pure fold over it        *)
(* (reducer.ts): given a log, what does a turn do next?                    *)
(*                                                                         *)
(* An event keeps what the reducer and the properties look at: its type,   *)
(* whether an assistant message carries a tool call, the idempotency key a *)
(* tool result answers, and the class of a failure.  Texts, usage, output, *)
(* exit codes and timestamps are left out.                                 *)
(***************************************************************************)
EXTENDS Naturals, Sequences, FiniteSets

ErrorClass == {"LLM_PERMANENT", "SANDBOX_FATAL", "BUDGET", "INTERNAL"}

EventType == {"user_message", "assistant_message", "tool_result",
              "turn_completed", "turn_failed", "session_provisioned"}

Event == [type : EventType, call : BOOLEAN, key : Nat,
          class : ErrorClass \cup {"none"}]

Bare(type) == [type |-> type, call |-> FALSE, key |-> 0, class |-> "none"]

UserMessage      == Bare("user_message")
TurnCompleted    == Bare("turn_completed")
Provisioned      == Bare("session_provisioned")
Assistant(call)  == [Bare("assistant_message") EXCEPT !.call = call]
ToolResult(key)  == [Bare("tool_result") EXCEPT !.key = key]
TurnFailed(class) == [Bare("turn_failed") EXCEPT !.class = class]

IsTerminal(e) == e.type \in {"turn_completed", "turn_failed"}

-----------------------------------------------------------------------------
\* Position of the last event of a type, 0 when there is none.
LastOf(events, type) ==
  LET Hits == {i \in DOMAIN events : events[i].type = type}
      IsLast(i) == \A j \in Hits : j <= i
  IN  IF \E i \in Hits : IsLast(i) THEN CHOOSE i \in Hits : IsLast(i) ELSE 0

LastUser(events)      == LastOf(events, "user_message")
LastAssistant(events) == LastOf(events, "assistant_message")

\* The key of the (single) tool call of the assistant message at a position
\* is that position: the session id and the call index are fixed.
IdemKeyFor(assistantSeq) == assistantSeq

\* Mutant: slice(lastAssistant + 2), the result right behind its call is missed.
AnsweredSliceOffByOne(events, key) ==
  \E i \in LastAssistant(events) + 2 .. Len(events) :
    events[i].type = "tool_result" /\ events[i].key = key

\* Mutant: any result of the turn will do.
AnsweredByAnyResult(events, key) ==
  \E i \in LastUser(events) + 1 .. Len(events) : events[i].type = "tool_result"

Answered(events, key) ==
  \E i \in LastAssistant(events) + 1 .. Len(events) :
    events[i].type = "tool_result" /\ events[i].key = key

\* Mutant: counts behind the last assistant message, not the last user message.
IterationsSinceAssistant(events) ==
  {i \in LastAssistant(events) + 1 .. Len(events) :
     events[i].type = "assistant_message"}

\* Positions of the assistant messages since the last user message.
Iterations(events) ==
  {i \in LastUser(events) + 1 .. Len(events) :
     events[i].type = "assistant_message"}

NextAction(events, maxIterations) ==
  LET assistant == LastAssistant(events)
  IN  IF IsTerminal(events[Len(events)]) THEN "noop"
      ELSE IF assistant < LastUser(events) THEN "infer"
      ELSE IF ~events[assistant].call THEN "finish"
      ELSE IF ~Answered(events, IdemKeyFor(assistant)) THEN "exec_tool"
      ELSE IF Cardinality(Iterations(events)) >= maxIterations THEN "fail"
      ELSE "infer"

\* The key of the call the reducer orders to run (when it does).
PendingKey(events) == IdemKeyFor(LastAssistant(events))
=============================================================================
