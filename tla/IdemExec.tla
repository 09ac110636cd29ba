------------------------------ MODULE IdemExec ------------------------------
(***************************************************************************)
(* What the sandbox port promises about one idemKey (port.ts): however     *)
(* many callers exec it, the command runs at most once; its exit code is   *)
(* decided once; a caller is told that code, or that nothing could be      *)
(* observed, and never a code made up for it.                              *)
(***************************************************************************)
EXTENDS Naturals

CONSTANTS
  Callers,  \* exec calls under the idemKey, over all workers
  Codes     \* exit codes a command can leave behind

VARIABLES
  runs,     \* how often the command was started
  code,     \* its exit code, once there is one
  answer    \* what each caller has been told

vars == <<runs, code, answer>>

Init ==
  /\ runs = 0
  /\ code = "none"
  /\ answer = [c \in Callers |-> "none"]

Run ==
  /\ runs = 0 /\ runs' = 1
  /\ UNCHANGED <<code, answer>>

Exit ==
  /\ runs = 1 /\ code = "none" /\ code' \in Codes
  /\ UNCHANGED <<runs, answer>>

Return(c) ==
  /\ answer[c] = "none" /\ code \in Codes
  /\ answer' = [answer EXCEPT ![c] = code]
  /\ UNCHANGED <<runs, code>>

GiveUp(c) ==
  /\ answer[c] = "none"
  /\ answer' = [answer EXCEPT ![c] = "unavailable"]
  /\ UNCHANGED <<runs, code>>

Next == Run \/ Exit \/ \E c \in Callers : Return(c) \/ GiveUp(c)

Spec == Init /\ [][Next]_vars
=============================================================================
