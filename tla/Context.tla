------------------------------ MODULE Context -------------------------------
(***************************************************************************)
(* What the model is told of a log: buildContext (native-strategy.ts)      *)
(* turns the log into chat messages, toModelMessages (llm, ai-sdk.ts)      *)
(* those into the provider's request.  A message keeps its role, whether   *)
(* it carries a tool call, and the id that pairs a call with its result;   *)
(* texts, commands and output are left out.                                *)
(***************************************************************************)
EXTENDS Reducer

Role == [user_message |-> "user", assistant_message |-> "assistant",
         tool_result |-> "tool"]

\* Everything else in the log is bookkeeping, not conversation.
IsConversation(e) == e.type \in DOMAIN Role

ChatMessage(e) == [role |-> Role[e.type], toolCall |-> e.call, idemKey |-> e.key]

System == [role |-> "system", toolCall |-> FALSE, idemKey |-> 0]

\* The k-th of a set of positions.  What a loop pushes is told by the positions
\* it pushes at, which, unlike SelectSeq, can be reasoned about.
Nth(positions, k) ==
  CHOOSE i \in positions : Cardinality({j \in positions : j <= i}) = k

Said(events) == {i \in DOMAIN events : IsConversation(events[i])}

BuildContext(events) ==
  <<System>> \o [k \in 1 .. Cardinality(Said(events)) |->
                    ChatMessage(events[Nth(Said(events), k)])]

\* Mutant: every call is named by its place in the request.
CallIdByIndex(messages, i) == <<"call", i>>

\* The log does not name calls: a call takes the name of the result behind it,
\* and a made-up one when there is none.
CallId(messages, i) ==
  IF i < Len(messages) /\ messages[i + 1].role = "tool"
  THEN <<"key", messages[i + 1].idemKey>>
  ELSE <<"call", i>>

ToolUse(messages, i) ==
  CASE messages[i].role = "tool" -> <<"key", messages[i].idemKey>>
    [] messages[i].role = "assistant" /\ messages[i].toolCall -> CallId(messages, i)
    [] OTHER -> <<"text", i>>

NotSystem(messages) == {i \in DOMAIN messages : messages[i].role # "system"}

ModelMessage(messages, i) == [role |-> messages[i].role,
                              call |-> messages[i].toolCall,
                              id   |-> ToolUse(messages, i)]

\* The system prompt travels apart from the messages.
ToModelMessages(messages) ==
  [k \in 1 .. Cardinality(NotSystem(messages)) |->
     ModelMessage(messages, Nth(NotSystem(messages), k))]

-----------------------------------------------------------------------------
\* The turn that ordered the call at position k of the log gave up before it
\* had the call's result, and the user has written since.
Abandoned(events, k) ==
  \E f \in k + 1 .. Len(events) :
    /\ events[f].type = "turn_failed"
    /\ events[f].class \in {"SANDBOX_FATAL", "INTERNAL"}
    /\ \A j \in k + 1 .. f - 1 : ~IsConversation(events[j])
    /\ f < LastUser(events)

\* In the request built from a log every result follows the call it answers
\* and bears its id, and every call is answered right behind it, save those
\* whose turn was abandoned.
WellAnswered(events) ==
  LET request == ToModelMessages(BuildContext(events))
      Answers(i) == /\ i + 1 \in DOMAIN request
                    /\ request[i + 1].role = "tool"
                    /\ request[i + 1].id = request[i].id
  IN  \A i \in DOMAIN request :
        /\ request[i].role = "tool" =>
             i > 1 /\ request[i - 1].call /\ Answers(i - 1)
        /\ request[i].call =>
             Answers(i) \/ Abandoned(events, Nth(Said(events), i))
=============================================================================
