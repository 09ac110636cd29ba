---------------------------- MODULE Conversation ----------------------------
(***************************************************************************)
(* What the runtime promises of one session's event log: it reads as if a  *)
(* single executor that never crashes and never works from an old copy had *)
(* written it.  Every event a turn adds is the one the reducer orders on   *)
(* the log as it stands; between them the API adds user messages and the   *)
(* provisioner adds its own two kinds of event.  TurnRuntime, with its     *)
(* workers, leases, retries and crashes, implements this specification.    *)
(***************************************************************************)
EXTENDS Reducer

CONSTANT MaxIterations   \* tool_policy.max_iterations of the pinned version

ASSUME ConversationAssumption == MaxIterations \in Nat \ {0}

VARIABLE log   \* the session_events rows of the session, in seq order

Turn == NextAction(log, MaxIterations)
InTurn == \E i \in DOMAIN log : log[i] = UserMessage

Extend(e) == log' = Append(log, e)

-----------------------------------------------------------------------------
Init == log \in {<<>>, <<Provisioned>>}

SendMessage == Extend(UserMessage)

FinishProvision == Extend(Provisioned)

FailProvision == Extend(TurnFailed("SANDBOX_FATAL"))

Infer == /\ InTurn /\ Turn = "infer"
         /\ \E call \in BOOLEAN : Extend(Assistant(call))

RunTool == /\ InTurn /\ Turn = "exec_tool"
           /\ Extend(ToolResult(PendingKey(log)))

Finish == /\ InTurn /\ Turn = "finish"
          /\ Extend(TurnCompleted)

ExhaustBudget == /\ InTurn /\ Turn = "fail"
                 /\ Extend(TurnFailed("BUDGET"))

\* A turn gives up with the class of the step that failed.
GiveUp == /\ InTurn /\ Turn # "noop"
          /\ \/ Turn = "infer" /\ Extend(TurnFailed("LLM_PERMANENT"))
             \/ Turn = "exec_tool" /\ Extend(TurnFailed("SANDBOX_FATAL"))
             \/ Extend(TurnFailed("INTERNAL"))

Next == \/ SendMessage \/ FinishProvision \/ FailProvision
        \/ Infer \/ RunTool \/ Finish \/ ExhaustBudget \/ GiveUp

Spec == Init /\ [][Next]_log

-----------------------------------------------------------------------------
\* The type invariant: every row parses against the schemas of events.ts.
TypeOK == log \in Seq(Event)

\* A tool result answers a call of its own turn: the assistant message its
\* key names is earlier, asked for a tool, and no user message separates the
\* two; and no call is answered twice (native-strategy.ts, events.ts).
ResultsPaired ==
  \A i \in DOMAIN log : log[i].type = "tool_result" =>
    LET k == log[i].key
    IN  /\ k \in 1 .. i - 1
        /\ log[k].type = "assistant_message" /\ log[k].call
        /\ \A j \in k + 1 .. i - 1 : /\ log[j].type # "user_message"
                                     /\ log[j].type = "tool_result" => log[j].key # k

\* Within a turn the model neither speaks again nor has the last word over a
\* call without an answer: between an assistant message that asked for a tool and
\* the next one, or the completion, of its turn lies the result of that very call,
\* however the turn was handed on (reducer.ts, steps 3 to 5).
CallsAnsweredInOrder ==
  \A k, i \in DOMAIN log :
    (/\ k < i
     /\ log[k].type = "assistant_message" /\ log[k].call
     /\ log[i].type \in {"assistant_message", "turn_completed"}
     /\ \A j \in k + 1 .. i - 1 : log[j].type # "user_message")
    => \E j \in k + 1 .. i - 1 : log[j] = ToolResult(k)

\* No turn costs more model calls than the agent version's budget, however
\* many workers and attempts it took (reducer.ts step 5; a turn whose model
\* answers without a tool ends there).
BudgetRespected ==
  \A u \in DOMAIN log : log[u].type = "user_message" =>
    \A n \in u .. Len(log) :
      (\A j \in u + 1 .. n : log[j].type # "user_message") =>
        Cardinality({i \in u + 1 .. n : log[i].type = "assistant_message"})
          <= MaxIterations
=============================================================================
