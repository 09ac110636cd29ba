--------------------------- MODULE MCConversation ---------------------------
(***************************************************************************)
(* Every log of at most MaxEvents events the reducer can drive.            *)
(***************************************************************************)
EXTENDS Conversation

CONSTANT MaxEvents

MCNext == Len(log) < MaxEvents /\ Next

MCSpec == Init /\ [][MCNext]_log
=============================================================================
