----------------------------- MODULE ConsoleProofs ----------------------------
(***************************************************************************)
(* Proofs about EventStream and Console, for any number of requests, any   *)
(* page size and any bounds.  Why a stream is dense: one request at a time *)
(* writes on the wire (OneRequest), from a cursor that never passes the    *)
(* log.  Why it is prompt: behind the last page a stream is at the end of  *)
(* the log, or has been told, or is about to be (Caught).  Why the page    *)
(* takes messages a turn apart: while the latch is up it takes none, and    *)
(* the latch falls when a message has been shown since the click (Apart).   *)
(***************************************************************************)
EXTENDS Console, TLAPS

-----------------------------------------------------------------------------
\* Only the request that the browser waits for writes to it, and only while it
\* is open.
OneRequest ==
  /\ \A s, t \in source.stream : s = t
  /\ \A s \in Streams : streams[s].alive => s \in source.stream
  /\ source.state # "open" => wire = <<>> /\ source.stream = {}

\* A stream behind its last page has the whole log, or is told of the rest.
Caught ==
  \A s \in Streams :
    /\ streams[s].cursor <= Len(log)
    /\ streams[s].stopped => streams[s].notified
    /\ streams[s].pc = "wait" => ~streams[s].stopped
    /\ streams[s].pc = "none" => ~streams[s].alive
    /\ /\ streams[s].pc \in {"flushed", "wait"} /\ ~bell /\ ~Struck("notify")
       /\ streams[s].pc = "flushed" => ~streams[s].notified
       => streams[s].cursor = Len(log)

SInv == StreamTypeOK /\ OneRequest /\ StreamIsDense /\ Caught

\* The faults of the page's own requests count among the faults.
Elsewhere == Strikes("post") /\ UNCHANGED <<log, bell, streams, source, wire>>

-----------------------------------------------------------------------------
LEMMA StruckType ==
  ASSUME StreamTypeOK, NEW kind, Strikes(kind)
  PROVE  /\ faults' \in [count : 0 .. MaxFaults, excuses : SUBSET Excuses]
         /\ \A k : Struck(k) => Struck(k)'
<1>1. faults.count \in Nat /\ faults.count + 1 \in 0 .. MaxFaults
  BY EventStreamAssumption DEF StreamTypeOK, Strikes, EventStreamAssumption
<1>2. faults.excuses \cup ({kind} \cap Excuses) \in SUBSET Excuses
  BY DEF StreamTypeOK
<1> QED
  BY <1>1, <1>2 DEF Strikes, Struck

LEMMA FreeType ==
  Free \in Stream /\ ~Free.alive /\ ~Free.stopped /\ Free.cursor = 0 /\ Free.pc = "none"
BY DEF Free, Stream

LEMMA NoWireType == (\A T : <<>> \in Seq(T)) /\ Len(<<>>) = 0 /\ DOMAIN <<>> = {}
OBVIOUS

LEMMA SInvInit == StreamInit => SInv
<1> SUFFICES ASSUME StreamInit PROVE SInv
  OBVIOUS
<1>1. StreamTypeOK
  <2>1. log \in Seq(Types) /\ wire \in Seq(Nat) /\ bell \in BOOLEAN
    BY NoWireType DEF StreamInit
  <2>2. streams \in [Streams -> Stream]
    BY FreeType DEF StreamInit
  <2>3. source \in [state : {"connecting", "open", "closed"}, stream : SUBSET Streams, last : Nat]
    BY DEF StreamInit
  <2>4. faults \in [count : 0 .. MaxFaults, excuses : SUBSET Excuses]
    BY EventStreamAssumption DEF StreamInit, EventStreamAssumption
  <2> QED
    BY <2>1, <2>2, <2>3, <2>4 DEF StreamTypeOK
<1>2. OneRequest
  BY FreeType DEF StreamInit, OneRequest
<1>3. StreamIsDense
  BY NoWireType DEF StreamInit, StreamIsDense
<1>4. Caught
  BY FreeType DEF StreamInit, Caught
<1> QED
  BY <1>1, <1>2, <1>3, <1>4 DEF SInv

-----------------------------------------------------------------------------
(* The log and its notification.                                            *)

LEMMA StreamTyped ==
  ASSUME StreamTypeOK, NEW s \in Streams
  PROVE  streams[s] \in Stream
BY DEF StreamTypeOK

LEMMA AppendedStep ==
  ASSUME SInv, NEW type \in Types, Appended(type)
  PROVE  SInv'
<1>1. log \in Seq(Types) /\ log' = Append(log, type) /\ bell' = TRUE
  BY DEF SInv, StreamTypeOK, Appended
<1>2. log' \in Seq(Types) /\ Len(log') = Len(log) + 1 /\ Len(log) \in Nat
  BY <1>1
<1>3. UNCHANGED <<streams, source, wire, faults>>
  BY DEF Appended
<1>4. StreamTypeOK'
  BY <1>1, <1>2, <1>3 DEF SInv, StreamTypeOK
<1>5. OneRequest'
  BY <1>3 DEF SInv, OneRequest
<1>6. StreamIsDense'
  <2>1. source.last + Len(wire) \in Nat
    BY DEF SInv, StreamTypeOK
  <2> QED
    BY <1>2, <1>3, <2>1 DEF SInv, StreamIsDense
<1>7. Caught'
  <2> SUFFICES ASSUME NEW s \in Streams
               PROVE  /\ streams[s].cursor <= Len(log')
                      /\ streams[s].stopped => streams[s].notified
                      /\ streams[s].pc = "wait" => ~streams[s].stopped
                      /\ streams[s].pc = "none" => ~streams[s].alive
    BY <1>1, <1>3 DEF Caught
  <2>1. streams[s].cursor \in Nat
    BY StreamTyped DEF SInv, Stream
  <2> QED
    BY <1>2, <2>1 DEF SInv, Caught
<1> QED
  BY <1>4, <1>5, <1>6, <1>7 DEF SInv

\* What the signal of a wake-up does to one stream.
LEMMA SignalledIs ==
  ASSUME NEW x \in Stream
  PROVE  /\ Signalled(x) \in Stream
         /\ Signalled(x).cursor = x.cursor /\ Signalled(x).alive = x.alive
         /\ Signalled(x).stopped = x.stopped /\ Signalled(x).pc # "wait"
         /\ x.pc # "wait" => Signalled(x).notified
         /\ Signalled(x).pc = "flushed" => Signalled(x).notified
         /\ x.pc = "none" <=> Signalled(x).pc = "none"
<1>1. CASE x.pc = "wait"
  BY <1>1 DEF Signalled, Stream
<1>2. CASE x.pc # "wait"
  BY <1>2 DEF Signalled, Stream
<1> QED
  BY <1>1, <1>2

LEMMA NotifyStep ==
  ASSUME SInv, Notify
  PROVE  SInv'
<1>1. ASSUME NEW s \in Streams
      PROVE  /\ streams'[s] \in Stream
             /\ streams'[s].cursor = streams[s].cursor
             /\ streams'[s].alive = streams[s].alive
             /\ streams'[s].stopped = streams[s].stopped
             /\ streams'[s].stopped => streams'[s].notified
             /\ streams'[s].pc # "wait"
             /\ streams'[s].pc = "none" => ~streams'[s].alive
             /\ streams'[s].pc = "flushed" => streams'[s].notified
  <2>1. streams[s] \in Stream
    BY StreamTyped DEF SInv
  <2>2. CASE Subscribed(streams[s])
    <3>1. streams'[s] = Signalled(streams[s]) /\ ~streams[s].stopped /\ streams[s].pc # "none"
      BY <2>2 DEF Notify, Subscribed
    <3> QED
      BY <2>1, <3>1, SignalledIs
  <2>3. CASE ~Subscribed(streams[s])
    <3>1. streams'[s] = streams[s] /\ (streams[s].pc = "none" \/ streams[s].stopped)
      BY <2>1, <2>3 DEF Notify, Subscribed, Stream
    <3> QED
      BY <2>1, <3>1 DEF SInv, Caught
  <2> QED
    BY <2>2, <2>3
<1>2. streams' \in [Streams -> Stream]
  <2>1. streams' = [s \in Streams |-> streams'[s]]
    BY DEF Notify
  <2> QED
    BY <1>1, <2>1
<1>3. bell' = FALSE /\ UNCHANGED <<log, source, wire, faults>>
  BY DEF Notify
<1>4. StreamTypeOK'
  BY <1>2, <1>3 DEF SInv, StreamTypeOK
<1>5. OneRequest'
  BY <1>1, <1>3 DEF SInv, OneRequest
<1>6. StreamIsDense'
  <2>1. source.stream \subseteq Streams
    BY DEF SInv, StreamTypeOK
  <2> QED
    BY <1>1, <1>3, <2>1 DEF SInv, StreamIsDense
<1>7. Caught'
  BY <1>1, <1>3 DEF SInv, Caught
<1> QED
  BY <1>4, <1>5, <1>6, <1>7 DEF SInv

\* A fault that leaves the streams alone excuses what it must.
LEMMA StruckStep ==
  ASSUME SInv, NEW kind, Strikes(kind), UNCHANGED <<log, streams, source, wire>>,
         bell' = bell \/ (bell' = FALSE /\ Struck("notify")')
  PROVE  SInv'
<1>1. /\ faults' \in [count : 0 .. MaxFaults, excuses : SUBSET Excuses]
      /\ \A k : Struck(k) => Struck(k)'
  BY StruckType DEF SInv
<1>2. StreamTypeOK'
  BY <1>1 DEF SInv, StreamTypeOK
<1>3. OneRequest' /\ StreamIsDense'
  BY DEF SInv, OneRequest, StreamIsDense
<1>4. Caught'
  BY <1>1 DEF SInv, Caught
<1> QED
  BY <1>2, <1>3, <1>4 DEF SInv

LEMMA LoseNotifyStep ==
  ASSUME SInv, LoseNotify
  PROVE  SInv'
<1>1. Strikes("notify") /\ bell' = FALSE /\ UNCHANGED <<log, streams, source, wire>>
  BY DEF LoseNotify
<1>2. Struck("notify")'
  BY <1>1 DEF Strikes, Struck, Excuses
<1> QED
  BY <1>1, <1>2, StruckStep

-----------------------------------------------------------------------------
(* One stream moves.                                                        *)

\* A stream that sleeps, or is behind its last page, owes the log nothing.
Settled(x) ==
  /\ x \in Stream /\ x.cursor <= Len(log)
  /\ x.stopped => x.notified
  /\ x.pc = "wait" => ~x.stopped
  /\ x.pc = "none" => ~x.alive
  /\ /\ x.pc \in {"flushed", "wait"} /\ ~bell /\ ~Struck("notify")
     /\ x.pc = "flushed" => ~x.notified
     => x.cursor = Len(log)

LEMMA AreSettled ==
  ASSUME SInv, NEW s \in Streams
  PROVE  Settled(streams[s])
BY StreamTyped DEF SInv, Caught, Settled

LEMMA FreeSettled == StreamTypeOK => Settled(Free)
<1>1. StreamTypeOK => Len(log) \in Nat
  BY DEF StreamTypeOK
<1> QED
  BY <1>1, FreeType DEF Settled

LEMMA MoveStep ==
  ASSUME SInv, NEW s \in Streams, NEW x, Settled(x),
         x.alive => streams[s].alive /\ x.cursor = streams[s].cursor,
         streams' = [streams EXCEPT ![s] = x],
         UNCHANGED <<log, bell, source, wire>>,
         faults' = faults \/ \E kind : Strikes(kind)
  PROVE  SInv'
<1>1. /\ faults' \in [count : 0 .. MaxFaults, excuses : SUBSET Excuses]
      /\ \A k : Struck(k) => Struck(k)'
  <2>1. CASE faults' = faults
    BY <2>1 DEF SInv, StreamTypeOK, Struck
  <2>2. CASE \E kind : Strikes(kind)
    BY <2>2, StruckType DEF SInv
  <2> QED
    BY <2>1, <2>2
<1>2. x \in Stream /\ streams \in [Streams -> Stream]
  BY DEF Settled, SInv, StreamTypeOK
<1>3. streams' \in [Streams -> Stream]
  BY <1>2
<1>4. /\ streams'[s] = x
      /\ \A t \in Streams : t # s => streams'[t] = streams[t]
  BY <1>2
<1>5. StreamTypeOK'
  BY <1>1, <1>3 DEF SInv, StreamTypeOK
<1>6. \A t \in Streams : streams'[t].alive =>
        streams[t].alive /\ streams'[t].cursor = streams[t].cursor
  BY <1>4
<1>7. OneRequest'
  BY <1>6 DEF SInv, OneRequest
<1>8. StreamIsDense'
  <2>1. source.stream \subseteq Streams
    BY DEF SInv, StreamTypeOK
  <2> QED
    BY <1>6, <2>1 DEF SInv, StreamIsDense
<1>9. Caught'
  <2> SUFFICES ASSUME NEW t \in Streams
               PROVE  /\ streams'[t].cursor <= Len(log)
                      /\ streams'[t].stopped => streams'[t].notified
                      /\ streams'[t].pc = "wait" => ~streams'[t].stopped
                      /\ streams'[t].pc = "none" => ~streams'[t].alive
                      /\ /\ streams'[t].pc \in {"flushed", "wait"} /\ ~bell /\ ~Struck("notify")
                         /\ streams'[t].pc = "flushed" => ~streams'[t].notified
                         => streams'[t].cursor = Len(log)
    BY <1>1 DEF Caught
  <2>1. Settled(streams'[t])
    BY <1>4, AreSettled
  <2> QED
    BY <2>1 DEF Settled
<1> QED
  BY <1>5, <1>7, <1>8, <1>9 DEF SInv

LEMMA AbortStep ==
  ASSUME SInv, NEW s \in Streams, Abort(s)
  PROVE  SInv'
<1>1. UNCHANGED <<log, bell, source, wire, faults>> /\ ~streams[s].alive
  BY DEF Abort
<1>2. streams \in [Streams -> Stream] /\ streams[s] \in Stream /\ Settled(streams[s])
  BY AreSettled DEF SInv, StreamTypeOK
<1>3. CASE streams[s].pc = "wait"
  <2>1. streams' = [streams EXCEPT ![s] = Free]
    BY <1>2, <1>3 DEF Abort
  <2>2. Settled(Free) /\ ~Free.alive
    BY FreeSettled, FreeType DEF SInv
  <2> QED
    BY <1>1, <2>1, <2>2, MoveStep
<1>4. CASE streams[s].pc # "wait"
  <2> DEFINE x == [streams[s] EXCEPT !.stopped = TRUE, !.notified = TRUE]
  <2>1. streams' = [streams EXCEPT ![s] = x]
    BY <1>2, <1>4 DEF Abort
  <2>2. /\ x \in Stream /\ x.pc = streams[s].pc /\ x.cursor = streams[s].cursor
        /\ x.alive = streams[s].alive /\ x.notified
    BY <1>2 DEF Stream
  <2> HIDE DEF x
  <2>3. Settled(x) /\ ~x.alive
    BY <1>1, <1>2, <1>4, <2>2 DEF Settled
  <2> QED
    BY <1>1, <2>1, <2>3, MoveStep
<1> QED
  BY <1>3, <1>4

LEMMA ReadThrowsStep ==
  ASSUME SInv, NEW s \in Streams, ReadThrows(s)
  PROVE  SInv'
<1>1. Settled(Free) /\ ~Free.alive
  BY FreeSettled, FreeType DEF SInv
<1> QED
  BY <1>1, MoveStep DEF ReadThrows

LEMMA FlushedStep ==
  ASSUME SInv, NEW s \in Streams, Flushed(s)
  PROVE  SInv'
<1>1. UNCHANGED <<log, bell, source, wire, faults>> /\ streams[s].pc = "flushed"
  BY DEF Flushed
<1>2. streams \in [Streams -> Stream] /\ streams[s] \in Stream /\ Settled(streams[s])
  BY AreSettled DEF SInv, StreamTypeOK
<1>3. CASE streams[s].stopped
  <2>1. streams' = [streams EXCEPT ![s] = Free]
    BY <1>2, <1>3 DEF Flushed
  <2>2. Settled(Free) /\ ~Free.alive
    BY FreeSettled, FreeType DEF SInv
  <2> QED
    BY <1>1, <2>1, <2>2, MoveStep
<1>4. CASE ~streams[s].stopped /\ streams[s].notified
  <2> DEFINE x == [streams[s] EXCEPT !.pc = "read", !.notified = FALSE]
  <2>1. streams' = [streams EXCEPT ![s] = x]
    BY <1>2, <1>4 DEF Flushed
  <2>2. /\ x \in Stream /\ x.pc = "read" /\ x.cursor = streams[s].cursor
        /\ x.alive = streams[s].alive /\ x.stopped = streams[s].stopped
    BY <1>2 DEF Stream
  <2> HIDE DEF x
  <2>3. Settled(x)
    BY <1>2, <1>4, <2>2 DEF Settled
  <2> QED
    BY <1>1, <2>1, <2>2, <2>3, MoveStep
<1>5. CASE ~streams[s].stopped /\ ~streams[s].notified
  <2> DEFINE x == [streams[s] EXCEPT !.pc = "wait"]
  <2>1. streams' = [streams EXCEPT ![s] = x]
    BY <1>2, <1>5 DEF Flushed
  <2>2. /\ x \in Stream /\ x.pc = "wait" /\ x.cursor = streams[s].cursor
        /\ x.alive = streams[s].alive /\ x.stopped = streams[s].stopped
    BY <1>2 DEF Stream
  <2> HIDE DEF x
  <2>3. Settled(x)
    BY <1>1, <1>2, <1>5, <2>2 DEF Settled
  <2> QED
    BY <1>1, <2>1, <2>2, <2>3, MoveStep
<1> QED
  BY <1>3, <1>4, <1>5

LEMMA HeartbeatStep ==
  ASSUME SInv, NEW s \in Streams, Heartbeat(s)
  PROVE  SInv'
<1>1. streams \in [Streams -> Stream] /\ streams[s] \in Stream /\ Settled(streams[s])
  BY AreSettled DEF SInv, StreamTypeOK
<1> DEFINE x == [streams[s] EXCEPT !.pc = "read"]
<1>2. streams' = [streams EXCEPT ![s] = x] /\ UNCHANGED <<log, bell, source, wire, faults>>
  BY <1>1 DEF Heartbeat
<1>3. /\ x \in Stream /\ x.pc = "read" /\ x.cursor = streams[s].cursor
      /\ x.alive = streams[s].alive /\ x.stopped = streams[s].stopped
      /\ x.notified = streams[s].notified
  BY <1>1 DEF Stream
<1> HIDE DEF x
<1>4. Settled(x)
  BY <1>1, <1>3 DEF Settled
<1> QED
  BY <1>2, <1>3, <1>4, MoveStep

-----------------------------------------------------------------------------
(* Requests begin and break.                                                *)

LEMMA ConnectStep ==
  ASSUME SInv, NEW s \in Streams, Connect(s)
  PROVE  SInv'
<1> DEFINE x == Opened(s, source.last)
<1>1. /\ source.state = "connecting" /\ streams' = [streams EXCEPT ![s] = x]
      /\ source' = [source EXCEPT !.state = "open", !.stream = {s}]
      /\ UNCHANGED <<log, bell, wire, faults>>
  BY DEF Connect
<1>2. wire = <<>> /\ source.stream = {} /\ \A t \in Streams : ~streams[t].alive
  BY <1>1 DEF SInv, OneRequest
<1>3. source.last \in Nat /\ source.last <= Len(log) /\ Len(wire) = 0
  BY <1>2, NoWireType DEF SInv, StreamTypeOK, StreamIsDense
<1>4. /\ x \in Stream /\ x.pc = "read" /\ x.cursor = source.last
      /\ x.alive /\ ~x.stopped
  BY <1>3 DEF Opened, Free, Stream
<1> HIDE DEF x
<1>5. /\ streams \in [Streams -> Stream] /\ streams' \in [Streams -> Stream]
      /\ streams'[s] = x
      /\ \A t \in Streams : t # s => streams'[t] = streams[t]
  BY <1>1, <1>4 DEF SInv, StreamTypeOK
<1>6. /\ source' \in [state : {"connecting", "open", "closed"}, stream : SUBSET Streams, last : Nat]
      /\ source'.state = "open" /\ source'.stream = {s} /\ source'.last = source.last
  BY <1>1 DEF SInv, StreamTypeOK
<1>7. StreamTypeOK'
  BY <1>1, <1>5, <1>6 DEF SInv, StreamTypeOK
<1>8. OneRequest'
  BY <1>2, <1>5, <1>6 DEF OneRequest
<1>9. StreamIsDense'
  <2>1. /\ \A i \in DOMAIN wire : FALSE
        /\ source.last = source.last + Len(wire)
    BY <1>2, <1>3, NoWireType
  <2> QED
    BY <1>1, <1>3, <1>4, <1>5, <1>6, <2>1 DEF StreamIsDense
<1>10. Caught'
  <2> SUFFICES ASSUME NEW t \in Streams
               PROVE  /\ streams'[t].cursor <= Len(log)
                      /\ streams'[t].stopped => streams'[t].notified
                      /\ streams'[t].pc = "wait" => ~streams'[t].stopped
                      /\ streams'[t].pc = "none" => ~streams'[t].alive
                      /\ /\ streams'[t].pc \in {"flushed", "wait"} /\ ~bell /\ ~Struck("notify")
                         /\ streams'[t].pc = "flushed" => ~streams'[t].notified
                         => streams'[t].cursor = Len(log)
    BY <1>1 DEF Caught, Struck
  <2>1. Settled(x)
    BY <1>3, <1>4 DEF Settled
  <2>2. Settled(streams'[t])
    BY <1>5, <2>1, AreSettled
  <2> QED
    BY <2>2 DEF Settled
<1> QED
  BY <1>7, <1>8, <1>9, <1>10 DEF SInv

\* The browser's connection breaks, for whatever reason: nobody writes to it.
LEMMA BreakStep ==
  ASSUME SInv, NEW kind, Strikes(kind), log' = log, wire' = <<>>,
         source' \in [state : {"connecting", "open", "closed"}, stream : SUBSET Streams, last : Nat],
         source'.state # "open", source'.stream = {}, source'.last \in {0, source.last},
         streams' \in [Streams -> Stream],
         \A s \in Streams :
           \/ streams'[s] = Free
           \/ /\ bell' = bell /\ ~streams'[s].alive
              /\ \/ streams'[s] = streams[s]
                 \/ streams'[s] = [streams[s] EXCEPT !.alive = FALSE],
         bell' \in BOOLEAN
  PROVE  SInv'
<1>1. /\ faults' \in [count : 0 .. MaxFaults, excuses : SUBSET Excuses]
      /\ \A k : Struck(k) => Struck(k)'
  BY StruckType DEF SInv
<1>2. StreamTypeOK'
  BY <1>1, NoWireType DEF SInv, StreamTypeOK
<1>3. OneRequest'
  BY FreeType DEF OneRequest
<1>4. StreamIsDense'
  <2>1. /\ source.last \in Nat /\ Len(wire) \in Nat /\ Len(log) \in Nat
        /\ source.last + Len(wire) <= Len(log)
    BY DEF SInv, StreamTypeOK, StreamIsDense
  <2>2. source'.last + Len(wire') <= Len(log')
    BY <2>1, NoWireType
  <2> QED
    BY <2>2, NoWireType DEF StreamIsDense
<1>5. ASSUME NEW s \in Streams
      PROVE  /\ streams'[s].cursor <= Len(log)
             /\ streams'[s].stopped => streams'[s].notified
             /\ streams'[s].pc = "wait" => ~streams'[s].stopped
             /\ streams'[s].pc = "none" => ~streams'[s].alive
             /\ /\ streams'[s].pc \in {"flushed", "wait"} /\ ~bell' /\ ~Struck("notify")'
                /\ streams'[s].pc = "flushed" => ~streams'[s].notified
                => streams'[s].cursor = Len(log)
  <2>1. Settled(streams[s]) /\ streams[s] \in Stream
    BY AreSettled DEF Settled
  <2>2. CASE streams'[s] = Free
    <3>1. Settled(Free)
      BY FreeSettled DEF SInv
    <3> QED
      BY <2>2, <3>1, FreeType DEF Settled
  <2>3. CASE streams'[s] # Free
    <3>1. /\ streams'[s].pc = streams[s].pc /\ streams'[s].cursor = streams[s].cursor
          /\ streams'[s].stopped = streams[s].stopped
          /\ streams'[s].notified = streams[s].notified /\ bell' = bell
          /\ ~streams'[s].alive
      BY <2>1, <2>3 DEF Stream
    <3> QED
      BY <1>1, <2>1, <3>1 DEF Settled
  <2> QED
    BY <2>2, <2>3
<1>6. Caught'
  BY <1>5 DEF Caught
<1> QED
  BY <1>2, <1>3, <1>4, <1>6 DEF SInv

LEMMA Hushed ==
  ASSUME SInv,
         streams' = [s \in Streams |-> IF s \in source.stream
                                       THEN [streams[s] EXCEPT !.alive = FALSE]
                                       ELSE streams[s]]
  PROVE  /\ streams' \in [Streams -> Stream]
         /\ \A s \in Streams :
              /\ ~streams'[s].alive
              /\ \/ streams'[s] = streams[s]
                 \/ streams'[s] = [streams[s] EXCEPT !.alive = FALSE]
<1>1. ASSUME NEW s \in Streams
      PROVE  /\ streams'[s] \in Stream /\ ~streams'[s].alive
             /\ \/ streams'[s] = streams[s]
                \/ streams'[s] = [streams[s] EXCEPT !.alive = FALSE]
  <2>1. streams[s] \in Stream
    BY StreamTyped DEF SInv
  <2>2. CASE s \in source.stream
    BY <2>1, <2>2 DEF Stream
  <2>3. CASE s \notin source.stream
    BY <2>1, <2>3 DEF SInv, OneRequest
  <2> QED
    BY <2>2, <2>3
<1>2. streams' = [s \in Streams |-> streams'[s]]
  OBVIOUS
<1> QED
  BY <1>1, <1>2

LEMMA CutStep ==
  ASSUME SInv, Cut
  PROVE  SInv'
<1>1. /\ Strikes("wire") /\ log' = log /\ bell' = bell /\ wire' = <<>> /\ bell \in BOOLEAN
      /\ source' = [source EXCEPT !.state = "connecting", !.stream = {}]
  BY DEF Cut, SInv, StreamTypeOK
<1>2. /\ source' \in [state : {"connecting", "open", "closed"}, stream : SUBSET Streams, last : Nat]
      /\ source'.state # "open" /\ source'.stream = {} /\ source'.last = source.last
  BY <1>1 DEF SInv, StreamTypeOK
<1>3. /\ streams' \in [Streams -> Stream]
      /\ \A s \in Streams :
           /\ ~streams'[s].alive
           /\ \/ streams'[s] = streams[s]
              \/ streams'[s] = [streams[s] EXCEPT !.alive = FALSE]
  BY Hushed DEF Cut
<1> QED
  BY <1>1, <1>2, <1>3, BreakStep

LEMMA ReopenStep ==
  ASSUME SInv, Reopen
  PROVE  SInv'
<1>1. /\ Strikes("reopen") /\ log' = log /\ bell' = bell /\ wire' = <<>> /\ bell \in BOOLEAN
      /\ source' = [state |-> "connecting", stream |-> {}, last |-> 0]
  BY DEF Reopen, SInv, StreamTypeOK
<1>2. /\ source' \in [state : {"connecting", "open", "closed"}, stream : SUBSET Streams, last : Nat]
      /\ source'.state # "open" /\ source'.stream = {} /\ source'.last = 0
  BY <1>1
<1>3. /\ streams' \in [Streams -> Stream]
      /\ \A s \in Streams :
           /\ ~streams'[s].alive
           /\ \/ streams'[s] = streams[s]
              \/ streams'[s] = [streams[s] EXCEPT !.alive = FALSE]
  BY Hushed DEF Reopen
<1> QED
  BY <1>1, <1>2, <1>3, BreakStep

LEMMA RestartStep ==
  ASSUME SInv, Restart
  PROVE  SInv'
<1>1. /\ Strikes("restart") /\ log' = log /\ bell' = FALSE /\ wire' = <<>>
      /\ source' = [source EXCEPT !.state = IF @ = "open" THEN "connecting" ELSE @, !.stream = {}]
      /\ streams' = [s \in Streams |-> Free]
  BY DEF Restart
<1>2. /\ source' \in [state : {"connecting", "open", "closed"}, stream : SUBSET Streams, last : Nat]
      /\ source'.state # "open" /\ source'.stream = {} /\ source'.last = source.last
  BY <1>1 DEF SInv, StreamTypeOK
<1>3. streams' \in [Streams -> Stream] /\ \A s \in Streams : streams'[s] = Free
  BY <1>1, FreeType
<1> QED
  BY <1>1, <1>2, <1>3, BreakStep

LEMMA RefuseStep ==
  ASSUME SInv, Refuse
  PROVE  SInv'
<1>1. /\ Strikes("refuse") /\ UNCHANGED <<log, bell, streams, wire>>
      /\ source.state = "connecting" /\ source' = [source EXCEPT !.state = "closed"]
  BY DEF Refuse
<1>2. /\ wire = <<>> /\ source.stream = {} /\ bell \in BOOLEAN
      /\ \A t \in Streams : ~streams[t].alive
  BY <1>1 DEF SInv, OneRequest, StreamTypeOK
<1>3. /\ source' \in [state : {"connecting", "open", "closed"}, stream : SUBSET Streams, last : Nat]
      /\ source'.state # "open" /\ source'.stream = {} /\ source'.last = source.last
  BY <1>1, <1>2 DEF SInv, StreamTypeOK
<1>4. streams' \in [Streams -> Stream]
  BY <1>1 DEF SInv, StreamTypeOK
<1> QED
  BY <1>1, <1>2, <1>3, <1>4, BreakStep

-----------------------------------------------------------------------------
(* Pages are written and read.                                              *)

LEMMA IdsAre ==
  ASSUME NEW from \in Nat, NEW n \in Nat
  PROVE  /\ Ids(from, n) \in Seq(Nat) /\ Len(Ids(from, n)) = n
         /\ \A i \in 1 .. n : Ids(from, n)[i] = from + i
<1>1. \A i \in 1 .. n : from + i \in Nat
  OBVIOUS
<1>2. Ids(from, n) \in [1 .. n -> Nat]
  BY <1>1 DEF Ids
<1> QED
  BY <1>2 DEF Ids

\* Ids behind a run of ids continue it.
LEMMA RunsOn ==
  ASSUME NEW last \in Nat, NEW n \in Nat, NEW w \in Seq(Nat),
         \A i \in DOMAIN w : w[i] = last + i
  PROVE  LET v == w \o Ids(last + Len(w), n)
         IN  /\ v \in Seq(Nat) /\ Len(v) = Len(w) + n
             /\ \A i \in DOMAIN v : v[i] = last + i
<1> DEFINE u == Ids(last + Len(w), n)
           v == w \o u
<1>1. last + Len(w) \in Nat
  OBVIOUS
<1>2. u \in Seq(Nat) /\ Len(u) = n /\ \A i \in 1 .. n : u[i] = last + Len(w) + i
  BY <1>1, IdsAre
<1> HIDE DEF u
<1>3. v \in Seq(Nat) /\ Len(v) = Len(w) + n
  BY <1>2
<1>4. ASSUME NEW i \in 1 .. (Len(w) + n)
      PROVE  v[i] = last + i
  <2>1. CASE i <= Len(w)
    BY <1>2, <2>1
  <2>2. CASE i > Len(w)
    <3>1. i - Len(w) \in 1 .. n
      BY <2>2
    <3>2. v[i] = u[i - Len(w)]
      BY <1>2, <2>2
    <3>3. u[i - Len(w)] = last + Len(w) + (i - Len(w))
      BY <1>2, <3>1
    <3> QED
      BY <3>2, <3>3
  <2>3. i <= Len(w) \/ i > Len(w)
    OBVIOUS
  <2> HIDE DEF v
  <2> QED
    BY <2>1, <2>2, <2>3
<1> QED
  BY <1>3, <1>4 DEF u

LEMMA FlushStep ==
  ASSUME SInv, NEW s \in Streams, Flush(s)
  PROVE  SInv'
<1> DEFINE c == streams[s].cursor
           n == IF Len(log) < c + PageSize THEN Len(log) - c ELSE PageSize
           pc == IF n < Len(log) - c THEN "read" ELSE "flushed"
           x == [streams[s] EXCEPT !.cursor = c + n, !.pc = pc]
<1>1. /\ streams \in [Streams -> Stream] /\ streams[s] \in Stream /\ Settled(streams[s])
      /\ UNCHANGED <<log, bell, source, faults>> /\ streams[s].pc = "read"
  BY AreSettled DEF SInv, StreamTypeOK, Flush
<1>2. c \in Nat /\ c <= Len(log) /\ Len(log) \in Nat /\ PageSize \in Nat
  BY <1>1, EventStreamAssumption DEF Settled, Stream, SInv, StreamTypeOK, EventStreamAssumption
<1>3. streams' = [streams EXCEPT ![s] = x]
  BY <1>1 DEF Flush
<1>4. wire' = IF streams[s].alive THEN wire \o Ids(c, n) ELSE wire
  BY DEF Flush
<1>5. n \in Nat /\ c + n <= Len(log) /\ (pc = "flushed" => c + n = Len(log))
  BY <1>2
<1>6. pc \in {"read", "flushed"}
  OBVIOUS
<1> HIDE DEF c, n, pc
<1>7. /\ x \in Stream /\ x.cursor = c + n /\ x.pc = pc /\ x.alive = streams[s].alive
      /\ x.stopped = streams[s].stopped /\ x.notified = streams[s].notified
  <2>1. c + n \in Nat
    BY <1>2, <1>5
  <2> HIDE <1>5
  <2> QED
    BY <1>1, <1>6, <2>1 DEF Stream
<1> HIDE DEF x
<1>8. Settled(x)
  BY <1>1, <1>5, <1>6, <1>7 DEF Settled
<1>9. CASE ~streams[s].alive
  BY <1>1, <1>3, <1>4, <1>7, <1>8, <1>9, MoveStep
<1>10. CASE streams[s].alive
  <2>1. source.stream = {s} /\ c = source.last + Len(wire)
    BY <1>10 DEF SInv, OneRequest, StreamIsDense, StreamTypeOK, c
  <2>2. source.last \in Nat /\ wire \in Seq(Nat) /\ \A i \in DOMAIN wire : wire[i] = source.last + i
    BY DEF SInv, StreamTypeOK, StreamIsDense
  <2>3. wire' = wire \o Ids(source.last + Len(wire), n)
    BY <1>4, <1>10, <2>1
  <2>4. /\ wire' \in Seq(Nat) /\ Len(wire') = Len(wire) + n
        /\ \A i \in DOMAIN wire' : wire'[i] = source.last + i
    BY <1>5, <2>2, <2>3, RunsOn
  <2>5. source.last + Len(wire') = c + n
    BY <1>5, <2>1, <2>2, <2>4
  <2>6. /\ streams' \in [Streams -> Stream] /\ streams'[s] = x
        /\ \A t \in Streams : t # s => streams'[t] = streams[t]
    BY <1>1, <1>3, <1>7
  <2>7. StreamTypeOK'
    BY <1>1, <2>4, <2>6 DEF SInv, StreamTypeOK
  <2>8. OneRequest'
    <3>1. source.state = "open"
      BY <2>1 DEF SInv, OneRequest
    <3> QED
      BY <1>1, <1>7, <2>1, <2>6, <3>1 DEF SInv, OneRequest
  <2>9. StreamIsDense'
    BY <1>1, <1>5, <1>7, <2>1, <2>4, <2>5, <2>6 DEF StreamIsDense
  <2>10. Caught'
    <3> SUFFICES ASSUME NEW t \in Streams
                 PROVE  /\ streams'[t].cursor <= Len(log)
                        /\ streams'[t].stopped => streams'[t].notified
                        /\ streams'[t].pc = "wait" => ~streams'[t].stopped
                        /\ streams'[t].pc = "none" => ~streams'[t].alive
                        /\ /\ streams'[t].pc \in {"flushed", "wait"} /\ ~bell /\ ~Struck("notify")
                           /\ streams'[t].pc = "flushed" => ~streams'[t].notified
                           => streams'[t].cursor = Len(log)
      BY <1>1 DEF Caught, Struck
    <3>1. Settled(streams'[t])
      BY <1>8, <2>6, AreSettled
    <3> QED
      BY <3>1 DEF Settled
  <2> QED
    BY <2>7, <2>8, <2>9, <2>10 DEF SInv
<1> QED
  BY <1>9, <1>10

LEMMA ReceiveStep ==
  ASSUME SInv, Receive
  PROVE  SInv'
<1>1. /\ wire # <<>> /\ wire \in Seq(Nat) /\ wire' = Tail(wire)
      /\ source' = [source EXCEPT !.last = Head(wire)]
      /\ UNCHANGED <<log, bell, streams, faults>>
  BY DEF Receive, SInv, StreamTypeOK
<1>2. /\ Len(wire) \in Nat /\ Len(wire) > 0 /\ Head(wire) = wire[1] /\ Head(wire) \in Nat
      /\ wire' \in Seq(Nat) /\ Len(wire') = Len(wire) - 1
      /\ \A i \in 1 .. (Len(wire) - 1) : wire'[i] = wire[i + 1]
  BY <1>1
<1>3. /\ source.last \in Nat /\ \A i \in 1 .. Len(wire) : wire[i] = source.last + i
      /\ source.last + Len(wire) <= Len(log)
  BY <1>1 DEF SInv, StreamTypeOK, StreamIsDense
<1>4. Head(wire) = source.last + 1
  BY <1>2, <1>3
<1>5. /\ source' \in [state : {"connecting", "open", "closed"}, stream : SUBSET Streams, last : Nat]
      /\ source'.state = source.state /\ source'.stream = source.stream
      /\ source'.last = source.last + 1
  BY <1>1, <1>2, <1>4 DEF SInv, StreamTypeOK
<1>6. StreamTypeOK'
  BY <1>1, <1>2, <1>5 DEF SInv, StreamTypeOK
<1>7. OneRequest'
  BY <1>1, <1>5 DEF SInv, OneRequest
<1>8. StreamIsDense'
  <2>1. source'.last + Len(wire') = source.last + Len(wire)
    BY <1>2, <1>3, <1>5
  <2>2. ASSUME NEW i \in DOMAIN wire'
        PROVE  wire'[i] = source'.last + i
    <3>1. i \in 1 .. (Len(wire) - 1) /\ i + 1 \in 1 .. Len(wire)
      BY <1>2
    <3>2. wire'[i] = wire[i + 1] /\ wire[i + 1] = source.last + (i + 1)
      BY <1>2, <1>3, <3>1
    <3>3. i \in Nat /\ source.last \in Nat /\ source'.last = source.last + 1
      BY <1>2, <1>3, <1>5, <3>1
    <3>4. source'.last + i = source.last + (i + 1)
      BY <3>3
    <3> QED
      BY <3>2, <3>4
  <2> QED
    BY <1>1, <1>3, <1>5, <2>1, <2>2 DEF SInv, StreamIsDense
<1>9. Caught'
  BY <1>1 DEF SInv, Caught, Struck
<1> QED
  BY <1>6, <1>7, <1>8, <1>9 DEF SInv

LEMMA HangUpStep ==
  ASSUME SInv, HangUp
  PROVE  SInv'
<1>1. /\ UNCHANGED <<log, bell, streams, wire, faults>> /\ wire = <<>>
      /\ \A s \in source.stream : streams[s].pc = "none"
      /\ source' = [source EXCEPT !.state = "connecting", !.stream = {}]
  BY DEF HangUp
<1>2. \A s \in Streams : ~streams[s].alive
  BY <1>1 DEF SInv, OneRequest, Caught
<1>3. /\ source' \in [state : {"connecting", "open", "closed"}, stream : SUBSET Streams, last : Nat]
      /\ source'.stream = {} /\ source'.last = source.last
  BY <1>1 DEF SInv, StreamTypeOK
<1>4. StreamTypeOK' /\ OneRequest'
  BY <1>1, <1>2, <1>3 DEF SInv, StreamTypeOK, OneRequest
<1>5. StreamIsDense' /\ Caught'
  BY <1>1, <1>3 DEF SInv, StreamIsDense, Caught, Struck
<1> QED
  BY <1>4, <1>5 DEF SInv

-----------------------------------------------------------------------------
(* The streams of every log.                                                *)

LEMMA StreamNextStep ==
  ASSUME SInv, StreamNext
  PROVE  SInv'
<1>1. CASE Notify
  BY <1>1, NotifyStep
<1>2. CASE Browse
  BY <1>2, ReceiveStep, HangUpStep DEF Browse
<1>3. CASE StreamFault
  BY <1>3, LoseNotifyStep, RefuseStep, CutStep, RestartStep, ReadThrowsStep DEF StreamFault
<1>4. ASSUME NEW s \in Streams, Serve(s)
      PROVE  SInv'
  BY <1>4, ConnectStep, AbortStep, FlushStep, FlushedStep, HeartbeatStep DEF Serve
<1> QED
  BY <1>1, <1>2, <1>3, <1>4 DEF StreamNext

LEMMA SInvStutter ==
  ASSUME SInv, UNCHANGED streamVars
  PROVE  SInv'
<1>1. UNCHANGED <<log, bell, streams, source, wire, faults>>
  BY DEF streamVars
<1>2. StreamTypeOK' /\ OneRequest'
  BY <1>1 DEF SInv, StreamTypeOK, OneRequest
<1>3. StreamIsDense' /\ Caught'
  BY <1>1 DEF SInv, StreamIsDense, Caught, Struck
<1> QED
  BY <1>2, <1>3 DEF SInv

LEMMA StreamInvariant == SInv /\ [StreamStep \/ Elsewhere]_streamVars => SInv'
<1> SUFFICES ASSUME SInv, [StreamStep \/ Elsewhere]_streamVars
             PROVE  SInv'
  OBVIOUS
<1>1. CASE Elsewhere
  <2>1. bell \in BOOLEAN
    BY DEF SInv, StreamTypeOK
  <2>2. Strikes("post") /\ UNCHANGED <<log, streams, source, wire>> /\ bell' = bell
    BY <1>1 DEF Elsewhere
  <2> QED
    BY <2>1, <2>2, StruckStep
<1> QED
  BY <1>1, StreamNextStep, AppendedStep, ReopenStep, SInvStutter DEF StreamStep

\* The page's steps are steps of its stream.
LEMMA NextIsStreamStep == [Next]_vars => [StreamStep \/ Elsewhere]_streamVars
<1> SUFFICES ASSUME [Next]_vars
             PROVE  [StreamStep \/ Elsewhere]_streamVars
  OBVIOUS
<1>1. \A type \in EventTypes : Appended(type) => StreamStep
  BY TypesAssumption DEF StreamStep
<1>2. CASE UNCHANGED vars
  BY <1>2 DEF vars, streamVars
<1>3. CASE StreamNext
  BY <1>3 DEF StreamStep
<1>4. CASE ProvisionEnds \/ TurnAppends \/ OthersSend
  BY <1>1, <1>4 DEF ProvisionEnds, TurnAppends, OthersSend, Accepted, EventTypes
<1>5. CASE JobEnds \/ Render
  BY <1>5 DEF JobEnds, Render
<1>6. ASSUME Submit \/ WaitReady \/ Reply
      PROVE  UNCHANGED streamVars
  BY <1>6 DEF Submit, WaitReady, Reply
<1>7. ASSUME Post
      PROVE  [StreamStep \/ Elsewhere]_streamVars
  BY <1>1, <1>7 DEF Post, Accepted, EventTypes
<1>8. ASSUME PostFails
      PROVE  Elsewhere
  BY <1>8 DEF PostFails, Elsewhere
<1>9. CASE OpenAgain
  BY <1>9 DEF OpenAgain, StreamStep
<1> QED
  BY <1>2, <1>3, <1>4, <1>5, <1>6, <1>7, <1>8, <1>9 DEF Next, Send

LEMMA ConsoleStreams == Spec => []SInv
<1>1. Init => SInv
  BY SInvInit DEF Init
<1>2. SInv /\ [Next]_vars => SInv'
  BY StreamInvariant, NextIsStreamStep
<1> QED
  BY <1>1, <1>2, PTL DEF Spec

LEMMA AloneStreams == StreamSpec => []SInv
<1>1. SInv /\ [StreamStep]_streamVars => SInv'
  BY StreamInvariant
<1> QED
  BY <1>1, SInvInit, PTL DEF StreamSpec

\* What the browser has, the wire and the request that writes are one run of
\* ids, for any number of requests and restarts, of a stream alone and of the
\* console's (sse.ts 3-8).
THEOREM StreamStaysDense == (StreamSpec => []StreamIsDense) /\ (Spec => []StreamIsDense)
<1>1. SInv => StreamIsDense
  BY DEF SInv
<1> QED
  BY <1>1, AloneStreams, ConsoleStreams, PTL

\* No notification falls between the replay and the wait (sse.ts 101-104).
THEOREM StreamIsPrompt == (StreamSpec => []PromptStream) /\ (Spec => []PromptStream)
<1>1. SInv => PromptStream
  BY DEF SInv, Caught, PromptStream
<1> QED
  BY <1>1, AloneStreams, ConsoleStreams, PTL

-----------------------------------------------------------------------------
(* The page.  A click raises the latch.  It falls in a catch, or when a turn  *)
(* goes live on the page: then a message has been shown that the page did    *)
(* not show at the click.  The composer opens when that turn is over.        *)

\* The last event of given types up to the n-th, where there is one.
LastExists(types) ==
  \A n \in 0 .. Len(log) :
    (\E i \in 1 .. n : log[i] \in types)
      => \E i \in 1 .. n : /\ log[i] \in types
                           /\ \A j \in 1 .. n : log[j] \in types => j <= i

LastsExist == LastExists({"user_message"}) /\ LastExists(Terminal)

\* TurnActive without the positions.
Active(n) ==
  \E u \in 1 .. n : log[u] = "user_message" /\ \A t \in 1 .. n : log[t] \in Terminal => t < u

ChatTyped ==
  /\ server \in [status : {"provisioning", "ready", "failed"}, job : BOOLEAN]
  /\ chat \in [shown : Nat, sending : BOOLEAN, click : Nat]
  /\ sends \in [Stage -> Nat]
  /\ chat.shown <= source.last /\ chat.click <= chat.shown + 1

\* A latch that is down was never raised, or was let go of by a catch, or a
\* message has been shown since the click.
Apart ==
  \/ chat.sending \/ chat.click = 0
  \/ \E u \in chat.click .. chat.shown : log[u] = "user_message"

PInv == SInv /\ LastsExist /\ ChatTyped /\ Apart

LEMMA LastAtIs ==
  ASSUME NEW types, LastExists(types), NEW n \in 0 .. Len(log), Len(log) \in Nat
  PROVE  /\ LastAt(n, types) \in 0 .. n
         /\ LastAt(n, types) # 0 => log[LastAt(n, types)] \in types
         /\ \A j \in 1 .. n : log[j] \in types => j <= LastAt(n, types)
<1> DEFINE at == {i \in 1 .. n : log[i] \in types}
<1>1. CASE at = {}
  <2>1. LastAt(n, types) = 0
    BY <1>1 DEF LastAt
  <2> QED
    BY <1>1, <2>1
<1>2. CASE at # {}
  <2>1. \E i \in at : \A j \in at : j <= i
    BY <1>2 DEF LastExists
  <2>2. LastAt(n, types) = CHOOSE i \in at : \A j \in at : j <= i
    BY <1>2 DEF LastAt
  <2>3. LastAt(n, types) \in at /\ \A j \in at : j <= LastAt(n, types)
    BY <2>1, <2>2
  <2> QED
    BY <2>3
<1> QED
  BY <1>1, <1>2

LEMMA TurnActiveIs ==
  ASSUME LastsExist, NEW n \in 0 .. Len(log), Len(log) \in Nat
  PROVE  TurnActive(n) <=> Active(n)
<1> DEFINE U == LastAt(n, {"user_message"})
           T == LastAt(n, Terminal)
<1>1. /\ U \in 0 .. n /\ (U # 0 => log[U] = "user_message")
      /\ \A j \in 1 .. n : log[j] = "user_message" => j <= U
  BY LastAtIs DEF LastsExist
<1>2. /\ T \in 0 .. n /\ (T # 0 => log[T] \in Terminal)
      /\ \A j \in 1 .. n : log[j] \in Terminal => j <= T
  BY LastAtIs DEF LastsExist
<1>3. TurnActive(n) <=> U > T
  BY DEF TurnActive
<1> HIDE DEF U, T
<1>4. ASSUME U > T
      PROVE  Active(n)
  <2>1. U \in 1 .. n /\ log[U] = "user_message"
    BY <1>1, <1>2, <1>4
  <2>2. \A t \in 1 .. n : log[t] \in Terminal => t < U
    BY <1>1, <1>2, <1>4
  <2> QED
    BY <2>1, <2>2 DEF Active
<1>5. ASSUME Active(n)
      PROVE  U > T
  <2>1. PICK u \in 1 .. n : log[u] = "user_message" /\ \A t \in 1 .. n : log[t] \in Terminal => t < u
    BY <1>5 DEF Active
  <2>2. u <= U
    BY <1>1, <2>1
  <2>3. CASE T = 0
    BY <1>1, <2>2, <2>3
  <2>4. CASE T # 0
    <3>1. T \in 1 .. n /\ T < u
      BY <1>2, <2>1, <2>4
    <3> QED
      BY <1>1, <2>2, <3>1
  <2> QED
    BY <2>3, <2>4
<1> QED
  BY <1>3, <1>4, <1>5

LEMMA Grown ==
  ASSUME StreamTypeOK, NEW type \in Types, Appended(type)
  PROVE  /\ Len(log) \in Nat /\ DOMAIN log = 1 .. Len(log)
         /\ Len(log') = Len(log) + 1 /\ DOMAIN log' = 1 .. (Len(log) + 1)
         /\ \A i \in 1 .. Len(log) : log'[i] = log[i]
         /\ log'[Len(log) + 1] = type
<1>1. log \in Seq(Types) /\ log' = Append(log, type)
  BY DEF StreamTypeOK, Appended
<1> QED
  BY <1>1

LEMMA LastExistsGrows ==
  ASSUME StreamTypeOK, NEW type \in Types, Appended(type), NEW types, LastExists(types)
  PROVE  LastExists(types)'
<1> SUFFICES ASSUME NEW n \in 0 .. Len(log'), NEW k \in 1 .. n, log'[k] \in types
             PROVE  \E i \in 1 .. n : /\ log'[i] \in types
                                      /\ \A j \in 1 .. n : log'[j] \in types => j <= i
  BY DEF LastExists
<1> DEFINE m == Len(log)
<1>1. /\ m \in Nat /\ Len(log') = m + 1 /\ log'[m + 1] = type
      /\ \A i \in 1 .. m : log'[i] = log[i]
  BY Grown
<1> HIDE DEF m
<1>2. CASE n = m + 1 /\ type \in types
  <2>1. m + 1 \in 1 .. n /\ \A j \in 1 .. n : j <= m + 1
    BY <1>1, <1>2
  <2> QED
    BY <1>1, <1>2, <2>1
<1>3. CASE n <= m
  <2>1. n \in 0 .. Len(log) /\ k \in 1 .. n /\ log[k] \in types
    BY <1>1, <1>3 DEF m
  <2>2. PICK i \in 1 .. n : log[i] \in types /\ \A j \in 1 .. n : log[j] \in types => j <= i
    BY <2>1 DEF LastExists
  <2>3. \A j \in 1 .. n : log'[j] = log[j]
    BY <1>1, <1>3
  <2> QED
    BY <2>2, <2>3
<1>4. CASE n = m + 1 /\ type \notin types
  <2>1. k \in 1 .. m
    BY <1>1, <1>4
  <2>2. log[k] \in types /\ m \in 0 .. Len(log)
    BY <1>1, <2>1 DEF m
  <2>3. PICK i \in 1 .. m : log[i] \in types /\ \A j \in 1 .. m : log[j] \in types => j <= i
    BY <2>1, <2>2 DEF LastExists
  <2>4. ASSUME NEW j \in 1 .. n, log'[j] \in types
        PROVE  j <= i
    <3>1. j \in 1 .. m
      BY <1>1, <1>4, <2>4
    <3> QED
      BY <1>1, <2>3, <2>4, <3>1
  <2>5. i \in 1 .. n /\ log'[i] \in types
    BY <1>1, <1>4, <2>3
  <2> QED
    BY <2>4, <2>5
<1> QED
  BY <1>1, <1>2, <1>3, <1>4

\* What the page shows is in the log.
LEMMA ShownIs ==
  ASSUME PInv
  PROVE  /\ chat.shown \in Nat /\ chat.click \in Nat /\ source.last \in Nat /\ Len(log) \in Nat
         /\ chat.shown <= source.last /\ source.last <= Len(log)
         /\ chat.click <= chat.shown + 1
<1>1. Len(wire) \in Nat /\ source.last \in Nat /\ Len(log) \in Nat
      /\ source.last + Len(wire) <= Len(log)
  BY DEF PInv, SInv, StreamTypeOK, StreamIsDense
<1>2. /\ chat.shown \in Nat /\ chat.click \in Nat
      /\ chat.shown <= source.last /\ chat.click <= chat.shown + 1
  BY DEF PInv, ChatTyped
<1> QED
  BY <1>1, <1>2

\* A step of the log alone.
LEMMA AppendKeepsPage ==
  ASSUME PInv, NEW type \in Types, Appended(type), chat' = chat
  PROVE  Apart' /\ source' = source
<1> DEFINE m == Len(log)
<1>1. m \in Nat /\ \A i \in 1 .. m : log'[i] = log[i]
  BY Grown DEF PInv, SInv
<1>2. chat.shown <= m /\ chat.shown \in Nat /\ chat.click \in Nat
  BY ShownIs
<1> HIDE DEF m
<1>3. ASSUME chat.click # 0, NEW u \in chat.click .. chat.shown, log[u] = "user_message"
      PROVE  log'[u] = "user_message"
  BY <1>1, <1>2, <1>3
<1>4. Apart'
  BY <1>3 DEF PInv, Apart
<1> QED
  BY <1>4 DEF Appended

\* A turn goes live on the page: a message is among what is new.
LEMMA ActiveRises ==
  ASSUME NEW n \in Nat, NEW m \in Nat, n <= m, ~Active(n), Active(m)
  PROVE  \E u \in n + 1 .. m : log[u] = "user_message"
<1>1. PICK u \in 1 .. m : log[u] = "user_message" /\ \A t \in 1 .. m : log[t] \in Terminal => t < u
  BY DEF Active
<1>2. ASSUME u <= n
      PROVE  FALSE
  BY <1>1, <1>2 DEF Active
<1> QED
  BY <1>1, <1>2

LEMMA RenderKeepsPage ==
  ASSUME PInv, Render
  PROVE  ChatTyped' /\ Apart'
<1> DEFINE drops == ~TurnActive(chat.shown) /\ TurnActive(source.last)
           b == chat.sending /\ ~drops
<1>1. /\ chat.shown < source.last /\ UNCHANGED <<log, source, server, sends>>
      /\ chat' = [chat EXCEPT !.shown = source.last, !.sending = b]
  BY DEF Render, streamVars, PInv, ChatTyped
<1>2. b \in BOOLEAN
  OBVIOUS
<1>3. /\ chat.shown \in Nat /\ chat.click \in Nat /\ source.last \in Nat /\ Len(log) \in Nat
      /\ source.last <= Len(log) /\ chat.click <= chat.shown + 1
  BY ShownIs
<1> HIDE DEF b
<1>4. /\ chat' \in [shown : Nat, sending : BOOLEAN, click : Nat]
      /\ chat'.shown = source.last /\ chat'.click = chat.click /\ chat'.sending = b
  BY <1>1, <1>2, <1>3 DEF PInv, ChatTyped
<1>5. ChatTyped'
  BY <1>1, <1>3, <1>4 DEF PInv, ChatTyped
<1>6. CASE drops
  <2>1. ~Active(chat.shown) /\ Active(source.last)
    BY <1>1, <1>3, <1>6, TurnActiveIs DEF PInv
  <2>2. PICK u \in chat.shown + 1 .. source.last : log[u] = "user_message"
    BY <1>1, <1>3, <2>1, ActiveRises
  <2>3. u \in chat.click .. source.last
    BY <1>3
  <2> QED
    BY <1>1, <1>4, <1>5, <2>2, <2>3 DEF Apart
<1>7. CASE ~drops
  <2>1. b = chat.sending
    BY <1>7 DEF b, PInv, ChatTyped
  <2>2. \A u \in chat.click .. chat.shown : u \in chat.click .. source.last
    BY <1>1, <1>3
  <2> QED
    BY <1>1, <1>4, <1>5, <2>1, <2>2 DEF PInv, Apart
<1> QED
  BY <1>6, <1>7

\* A call of send() goes on to its next stage.
LEMMA MovesType ==
  ASSUME PInv, NEW from \in Stage, NEW to \in Stage, Moves(from, to)
  PROVE  sends' \in [Stage -> Nat]
<1>1. sends[from] - 1 \in Nat /\ sends[to] + 1 \in Nat
  BY DEF PInv, ChatTyped, Moves
<1> QED
  BY <1>1 DEF PInv, ChatTyped, Moves

LEMMA SubmitKeepsPage ==
  ASSUME PInv, Submit
  PROVE  ChatTyped' /\ Apart'
<1> DEFINE n == chat.shown + 1
<1>1. /\ UNCHANGED <<source, server>>
      /\ chat' = [chat EXCEPT !.sending = TRUE, !.click = n]
  BY DEF Submit, streamVars
<1>2. n \in Nat /\ n <= chat.shown + 1
  BY ShownIs
<1> HIDE DEF n
<1>3. \E to \in Stage : Moves("none", to)
  BY DEF Submit, Stage
<1>4. sends' \in [Stage -> Nat]
  BY <1>3, MovesType DEF Stage
<1>5. /\ chat' \in [shown : Nat, sending : BOOLEAN, click : Nat]
      /\ chat'.shown = chat.shown /\ chat'.click = n /\ chat'.sending
  BY <1>1, <1>2 DEF PInv, ChatTyped
<1> QED
  BY <1>1, <1>2, <1>4, <1>5 DEF PInv, ChatTyped, Apart

\* A send() goes on, or gives up and lets go of the latch and of the click.
LEMMA StageKeepsPage ==
  ASSUME PInv, WaitReady \/ Reply \/ PostFails \/ (Post /\ Refused),
         UNCHANGED <<log, source, server>>
  PROVE  ChatTyped' /\ Apart'
<1>1. /\ \E from, to \in Stage : Moves(from, to)
      /\ chat' = chat \/ chat' = [chat EXCEPT !.sending = FALSE, !.click = 0]
  BY DEF WaitReady, Reply, PostFails, Post, Accepted, Fails, Stage
<1>2. sends' \in [Stage -> Nat]
  BY <1>1, MovesType
<1>3. /\ chat' \in [shown : Nat, sending : BOOLEAN, click : Nat]
      /\ chat'.shown = chat.shown
      /\ chat' = chat \/ chat'.click = 0
  <2>1. CASE chat' = chat
    BY <2>1 DEF PInv, ChatTyped
  <2>2. CASE chat' = [chat EXCEPT !.sending = FALSE, !.click = 0]
    BY <2>2 DEF PInv, ChatTyped
  <2> QED
    BY <1>1, <2>1, <2>2
<1>4. chat.shown \in Nat /\ 0 <= chat.shown + 1
  BY ShownIs
<1> QED
  BY <1>2, <1>3, <1>4 DEF PInv, ChatTyped, Apart

\* A message goes into the log, the page's or another's.
LEMMA AcceptedKeepsPage ==
  ASSUME PInv, Accepted, chat' = chat,
         sends' \in [Stage -> Nat]
  PROVE  ChatTyped' /\ Apart'
<1>1. "user_message" \in Types /\ Appended("user_message")
  BY TypesAssumption DEF Accepted, EventTypes
<1>2. Apart' /\ source' = source
  BY <1>1, AppendKeepsPage
<1>3. server' \in [status : {"provisioning", "ready", "failed"}, job : BOOLEAN]
  BY DEF Accepted, PInv, ChatTyped
<1> QED
  BY <1>2, <1>3 DEF PInv, ChatTyped

LEMMA StreamKeepsPage ==
  ASSUME PInv, StreamNext, UNCHANGED <<server, chat, sends>>
  PROVE  ChatTyped' /\ Apart'
<1>1. log' = log
  BY DEF StreamNext, StreamFault, Notify, Browse, Serve, LoseNotify, Refuse, Cut, Restart,
         ReadThrows, Connect, Abort, Flush, Flushed, Heartbeat, Receive, HangUp
<1>2. source'.last = source.last \/ source'.last = source.last + 1
  <2>1. CASE Receive
    <3>1. wire # <<>> /\ wire \in Seq(Nat) /\ source' = [source EXCEPT !.last = Head(wire)]
      BY <2>1 DEF Receive, PInv, SInv, StreamTypeOK
    <3>2. Head(wire) = source.last + 1
      BY <3>1 DEF PInv, SInv, StreamIsDense
    <3> QED
      BY <3>1, <3>2 DEF PInv, SInv, StreamTypeOK
  <2>2. CASE ~Receive
    BY <2>2 DEF StreamNext, StreamFault, Notify, Browse, Serve, LoseNotify, Refuse, Cut, Restart,
         ReadThrows, Connect, Abort, Flush, Flushed, Heartbeat, HangUp, PInv, SInv, StreamTypeOK
  <2> QED
    BY <2>1, <2>2
<1>3. chat.shown <= source'.last
  BY <1>2, ShownIs
<1> QED
  BY <1>1, <1>3 DEF PInv, ChatTyped, Apart

LEMMA PInvInit == Init => PInv
<1> SUFFICES ASSUME Init PROVE PInv
  OBVIOUS
<1>1. SInv /\ log = <<>> /\ Len(log) = 0 /\ source.last = 0
  BY SInvInit, NoWireType DEF Init, StreamInit
<1>2. LastsExist
  BY <1>1 DEF LastsExist, LastExists
<1>3. chat.shown = 0 /\ chat.click = 0 /\ chat \in [shown : Nat, sending : BOOLEAN, click : Nat]
  BY DEF Init, Chat
<1>4. sends \in [Stage -> Nat]
  BY ConsoleAssumption DEF Init, NoCalls
<1>5. ChatTyped /\ Apart
  BY <1>1, <1>3, <1>4 DEF Init, ChatTyped, Apart
<1> QED
  BY <1>1, <1>2, <1>5 DEF PInv

LEMMA LastsExistStep ==
  ASSUME PInv, [Next]_vars
  PROVE  LastsExist'
<1>1. log' = log \/ \E type \in Types : Appended(type)
  BY TypesAssumption
     DEF Next, Send, StreamNext, StreamFault, Notify, Browse, Serve, LoseNotify, Refuse, Cut,
         Restart, ReadThrows, Connect, Abort, Flush, Flushed, Heartbeat, Receive, HangUp,
         ProvisionEnds, TurnAppends, JobEnds, OthersSend, Accepted, Render, Submit, WaitReady,
         Post, PostFails, Reply, OpenAgain, Reopen, EventTypes, streamVars, vars
<1>2. CASE log' = log
  BY <1>2 DEF PInv, LastsExist, LastExists
<1>3. CASE \E type \in Types : Appended(type)
  BY <1>3, LastExistsGrows DEF PInv, SInv, LastsExist
<1> QED
  BY <1>1, <1>2, <1>3

LEMMA PageStep ==
  ASSUME PInv, [Next]_vars
  PROVE  ChatTyped' /\ Apart'
<1>1. CASE UNCHANGED vars
  BY <1>1 DEF vars, PInv, ChatTyped, Apart
<1>2. CASE StreamNext /\ UNCHANGED <<server, chat, sends>>
  BY <1>2, StreamKeepsPage
<1>3. CASE ProvisionEnds
  <2>1. PICK type \in Types : Appended(type)
    BY <1>3, TypesAssumption DEF ProvisionEnds, EventTypes
  <2>2. UNCHANGED <<chat, sends>>
    BY <1>3 DEF ProvisionEnds
  <2>3. server' \in [status : {"provisioning", "ready", "failed"}, job : BOOLEAN]
    BY <1>3 DEF ProvisionEnds, PInv, ChatTyped
  <2>4. Apart' /\ source' = source
    BY <2>1, <2>2, AppendKeepsPage
  <2> QED
    BY <2>2, <2>3, <2>4 DEF PInv, ChatTyped
<1>4. CASE TurnAppends
  <2>1. PICK type \in Types : Appended(type)
    BY <1>4, TypesAssumption DEF TurnAppends, EventTypes
  <2>2. UNCHANGED <<server, chat, sends>>
    BY <1>4 DEF TurnAppends
  <2>3. Apart' /\ source' = source
    BY <2>1, <2>2, AppendKeepsPage
  <2> QED
    BY <2>2, <2>3 DEF PInv, ChatTyped
<1>5. CASE JobEnds
  BY <1>5 DEF JobEnds, streamVars, PInv, ChatTyped, Apart
<1>6. CASE OthersSend
  <2>1. Accepted /\ UNCHANGED <<chat, sends>>
    BY <1>6 DEF OthersSend
  <2> QED
    BY <2>1, AcceptedKeepsPage DEF PInv, ChatTyped
<1>7. CASE WaitReady \/ Reply \/ PostFails
  <2>1. UNCHANGED <<log, source, server>>
    BY <1>7 DEF WaitReady, Reply, PostFails, streamVars
  <2> QED
    BY <1>7, <2>1, StageKeepsPage
<1>8. CASE Post
  <2>1. CASE Refused
    <3>1. UNCHANGED <<log, source, server>>
      BY <1>8, <2>1 DEF Post, Accepted, streamVars
    <3> QED
      BY <1>8, <2>1, <3>1, StageKeepsPage
  <2>2. CASE ~Refused
    <3>1. Accepted /\ Moves("posting", "accepted") /\ chat' = chat
      BY <1>8, <2>2 DEF Post
    <3>2. sends' \in [Stage -> Nat]
      BY <3>1, MovesType DEF Stage
    <3> QED
      BY <3>1, <3>2, AcceptedKeepsPage
  <2> QED
    BY <2>1, <2>2
<1>9. CASE OpenAgain
  <2>1. source'.last = 0 /\ server' = server /\ chat' = Chat /\ sends' = NoCalls
    BY <1>9 DEF OpenAgain, Reopen
  <2>2. sends' \in [Stage -> Nat]
    BY <2>1, ConsoleAssumption DEF NoCalls
  <2>3. /\ chat' \in [shown : Nat, sending : BOOLEAN, click : Nat]
        /\ chat'.shown = 0 /\ chat'.click = 0
    BY <2>1 DEF Chat
  <2> QED
    BY <2>1, <2>2, <2>3 DEF PInv, ChatTyped, Apart
<1> QED
  BY <1>1, <1>2, <1>3, <1>4, <1>5, <1>6, <1>7, <1>8, <1>9, RenderKeepsPage, SubmitKeepsPage
     DEF Next, Send

LEMMA ConsoleInvariant == Spec => []PInv
<1>1. PInv /\ [Next]_vars => PInv'
  <2> SUFFICES ASSUME PInv, [Next]_vars
               PROVE  PInv'
    OBVIOUS
  <2>1. SInv'
    BY StreamInvariant, NextIsStreamStep DEF PInv
  <2> QED
    BY <2>1, LastsExistStep, PageStep DEF PInv
<1> QED
  BY <1>1, PInvInit, PTL DEF Spec

\* Every variable of the page and its stream keeps its type, and the page shows
\* nothing that it has not received.
THEOREM ConsoleTypeCorrect == Spec => []TypeOK
<1>1. PInv => TypeOK
  BY DEF PInv, SInv, ChatTyped, TypeOK
<1> QED
  BY <1>1, ConsoleInvariant, PTL

\* The composer takes the next message only behind a turn that the page has
\* shown since the last click, unless a send() of the page failed (Chat.tsx
\* 91-94, 100-119): whoever else sends, however many calls are under way and
\* whatever becomes of the ones an older page has left.
THEOREM SendsStayATurnApart == Spec => []SendsATurnApart
<1>1. PInv => SendsATurnApart
  <2> SUFFICES ASSUME PInv, ~Busy, chat.click # 0
               PROVE  \E u, t \in chat.click .. chat.shown :
                        u < t /\ log[u] = "user_message" /\ log[t] \in Terminal
    BY DEF SendsATurnApart
  <2>1. /\ chat.shown \in Nat /\ chat.click \in Nat /\ Len(log) \in Nat
        /\ chat.shown <= Len(log)
    BY ShownIs
  <2>2. ~chat.sending /\ ~Active(chat.shown)
    BY <2>1, TurnActiveIs DEF Busy, PInv
  <2>3. PICK u \in chat.click .. chat.shown : log[u] = "user_message"
    BY <2>2 DEF PInv, Apart
  <2>4. u \in 1 .. chat.shown
    BY <2>1
  <2>5. PICK t \in 1 .. chat.shown : log[t] \in Terminal /\ ~(t < u)
    BY <2>2, <2>3, <2>4 DEF Active
  <2>6. t # u
    BY <2>3, <2>5 DEF Terminal
  <2>7. u < t /\ t \in chat.click .. chat.shown
    BY <2>1, <2>4, <2>5, <2>6
  <2> QED
    BY <2>3, <2>5, <2>7
<1> QED
  BY <1>1, ConsoleInvariant, PTL
=============================================================================
