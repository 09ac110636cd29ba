------------------------------- MODULE Console -------------------------------
(***************************************************************************)
(* The chat of the web console (apps/web/src/console/Chat.tsx) on a        *)
(* session's EventStream: what the page shows, the composer and its        *)
(* "sending" latch, and the API's sendMessage behind it.  The page is not  *)
(* the session's only sender: the quick start and the sessions page send a *)
(* first message before the chat is opened, and so may any client of the   *)
(* API.  Provisioning and turns are TurnRuntime's; here they append what a *)
(* reader sees of them.                                                    *)
(*                                                                         *)
(* React renders what it has received so far, so events that arrive        *)
(* together are shown together.                                            *)
(***************************************************************************)
EXTENDS EventStream, FiniteSets

CONSTANTS
  MaxSends,     \* bound: calls of send() at the same time
  MaxMessages,  \* bound: messages in the log
  MaxOutput     \* bound: what turns write besides

ASSUME ConsoleAssumption == MaxSends \in Nat /\ MaxMessages \in Nat /\ MaxOutput \in Nat

VARIABLES
  server,  \* sessions.status, and whether a turn job is queued or running
  chat,    \* the state of the Chat component
  sends    \* how many calls of send() the component has at which stage

vars == <<log, bell, streams, source, wire, faults, server, chat, sends>>

\* "assistant_message" stands for all that a turn writes between its message and
\* its end; a turn ends in "turn_completed" here, a provisioning in "turn_failed".
EventTypes == {"session_provisioned", "user_message", "assistant_message",
               "turn_completed", "turn_failed"}

Terminal == {"turn_completed", "turn_failed"}

ASSUME TypesAssumption == Types = EventTypes

-----------------------------------------------------------------------------
LastAt(n, types) ==
  LET at == {i \in 1 .. n : log[i] \in types}
  IN  IF at = {} THEN 0 ELSE CHOOSE i \in at : \A j \in at : j <= i

\* turnActive of a page that shows the first n events.
TurnActive(n) == LastAt(n, {"user_message"}) > LastAt(n, Terminal)

Count(type) == Cardinality({i \in DOMAIN log : log[i] = type})

\* A component that has just been mounted.  "click" is the first event that was
\* not shown at the last click, 0 when there was none or a send() failed since.
Chat == [shown |-> 0, sending |-> FALSE, click |-> 0]

Stage == {"none", "waiting", "posting", "accepted", "refused"}

NoCalls == [stage \in Stage |-> IF stage = "none" THEN MaxSends ELSE 0]

Init ==
  /\ StreamInit
  /\ server = [status |-> "provisioning", job |-> FALSE]
  /\ chat = Chat
  /\ sends = NoCalls

-----------------------------------------------------------------------------
(* The session.                                                             *)

ProvisionEnds ==
  /\ server.status = "provisioning"
  /\ \/ Appended("session_provisioned") /\ server' = [server EXCEPT !.status = "ready"]
     \/ Appended("turn_failed") /\ server' = [server EXCEPT !.status = "failed"]
  /\ UNCHANGED <<chat, sends>>

\* Whoever is at work on an open turn, its job still there or not.
TurnAppends ==
  /\ server.status = "ready" /\ TurnActive(Len(log))
  /\ \/ Count("assistant_message") < MaxOutput /\ Appended("assistant_message")
     \/ Appended("turn_completed")
  /\ UNCHANGED <<server, chat, sends>>

\* The job is acked some time behind the terminal event, or goes before it: a
\* conflict is acked, and the last attempt's nack buries the job.
JobEnds ==
  /\ server.job
  /\ server' = [server EXCEPT !.job = FALSE]
  /\ UNCHANGED <<streamVars, chat, sends>>

Refused == server.status = "failed" \/ server.job

\* sendMessage: event and job in one transaction.
Accepted ==
  /\ ~Refused /\ Count("user_message") < MaxMessages
  /\ Appended("user_message")
  /\ server' = [server EXCEPT !.job = TRUE]

\* The quick start, the sessions page, another tab, a call that a component no
\* longer there has left, or a client of the API.
OthersSend == Accepted /\ UNCHANGED <<chat, sends>>

-----------------------------------------------------------------------------
(* The page.                                                                *)

Busy == chat.sending \/ TurnActive(chat.shown)

\* Everything received is rendered; the effect runs when turnActive changes.
Render ==
  /\ chat.shown < source.last
  /\ chat' = [chat EXCEPT !.shown = source.last,
       !.sending = @ /\ ~(~TurnActive(chat.shown) /\ TurnActive(source.last))]
  /\ UNCHANGED <<streamVars, server, sends>>

Moves(from, to) ==
  /\ sends[from] > 0
  /\ sends' = [sends EXCEPT ![from] = sends[from] - 1, ![to] = sends[to] + 1]

\* send(): straight to the message once the page shows the sandbox is there.
Submit ==
  /\ ~Busy
  /\ chat' = [chat EXCEPT !.sending = TRUE, !.click = chat.shown + 1]
  /\ Moves("none", IF \E i \in 1 .. chat.shown : log[i] = "session_provisioned"
                   THEN "posting" ELSE "waiting")
  /\ UNCHANGED <<streamVars, server>>

\* The catch of send(): it lets go of the latch, whichever call has set it.
Fails(from) ==
  /\ Moves(from, "none")
  /\ chat' = [chat EXCEPT !.sending = FALSE, !.click = 0]

\* waitReady: the session has left provisioning, or 30 s are over.
WaitReady ==
  /\ \/ server.status = "failed" /\ Fails("waiting")
     \/ server.status # "failed" /\ Moves("waiting", "posting") /\ UNCHANGED chat
  /\ UNCHANGED <<streamVars, server>>

\* The request arrives: a message, or 409.
Post ==
  /\ UNCHANGED chat
  /\ \/ Refused /\ Moves("posting", "refused") /\ UNCHANGED <<streamVars, server>>
     \/ Accepted /\ Moves("posting", "accepted")

\* A request fails on its way there or on its way back, or loses the race for a
\* seq twice.
PostFails ==
  /\ Strikes("post")
  /\ \E stage \in {"waiting", "posting", "accepted"} : Moves(stage, "refused")
  /\ UNCHANGED <<log, bell, streams, source, wire, server, chat>>

\* Mutant: the latch is dropped with the reply.
ReplyUnlatches ==
  /\ \/ Moves("accepted", "none") /\ chat' = [chat EXCEPT !.sending = FALSE]
     \/ Fails("refused")
  /\ UNCHANGED <<streamVars, server>>

Reply ==
  /\ \/ Moves("accepted", "none") /\ UNCHANGED chat
     \/ Fails("refused")
  /\ UNCHANGED <<streamVars, server>>

\* A new component.  What the old one has under way is one of the others now.
OpenAgain ==
  /\ Reopen
  /\ chat' = Chat /\ sends' = NoCalls
  /\ UNCHANGED server

-----------------------------------------------------------------------------
Send == Submit \/ WaitReady \/ Post \/ PostFails \/ Reply

Next ==
  \/ StreamNext /\ UNCHANGED <<server, chat, sends>>
  \/ ProvisionEnds \/ TurnAppends \/ JobEnds \/ OthersSend
  \/ Render \/ OpenAgain \/ Send

Spec == Init /\ [][Next]_vars

\* Reads return, writes drain, timers fire, the server notices a lost peer, the
\* browser connects again and renders.  Nothing is assumed of NOTIFY.
FairSpec ==
  /\ Spec
  /\ WF_vars(Browse /\ UNCHANGED <<server, chat, sends>>) /\ WF_vars(Render)
  /\ \A s \in Streams :
       /\ WF_vars(Serve(s) /\ UNCHANGED <<server, chat, sends>>)
       /\ WF_vars(Abort(s) /\ UNCHANGED <<server, chat, sends>>)

-----------------------------------------------------------------------------
(* Properties.                                                              *)

\* The type invariant.
TypeOK ==
  /\ StreamTypeOK
  /\ server \in [status : {"provisioning", "ready", "failed"}, job : BOOLEAN]
  /\ chat \in [shown : Nat, sending : BOOLEAN, click : Nat]
  /\ sends \in [Stage -> Nat]
  /\ chat.shown <= source.last /\ chat.click <= chat.shown + 1

\* The composer takes the next message only behind a turn: since the last click
\* the page has shown a message and the end of a turn behind it, whatever the
\* reply, the stream and the other senders do.  Only a send() of this page that
\* fails gives the composer back before, an older one included (Chat.tsx 91-94,
\* 100-119).
SendsATurnApart ==
  ~Busy /\ chat.click # 0 =>
    \E u, t \in chat.click .. chat.shown :
      u < t /\ log[u] = "user_message" /\ log[t] \in Terminal

\* Every event is shown on a page that stays open.
EventsShown == []<>(chat.shown = Len(log) \/ source.state = "closed")

=============================================================================
