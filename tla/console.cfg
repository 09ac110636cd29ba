SPECIFICATION FairSpec
CONSTANTS
  Types = {"session_provisioned", "user_message", "assistant_message", "turn_completed", "turn_failed"}
  Streams = {s1, s2}
  PageSize = 2
  MaxLog = 4
  MaxSends = 2
  MaxMessages = 2
  MaxOutput = 1
  MaxFaults = 1
  FaultKinds = {"notify", "wire", "read", "refuse", "restart", "reopen", "post"}
INVARIANTS SendsATurnApart StreamIsDense PromptStream
PROPERTIES EventsShown StreamsEnd
CHECK_DEADLOCK FALSE
