--------------------------- MODULE HarnessTurnProofs --------------------------
(***************************************************************************)
(* Proofs about HarnessTurn, for any number of workers, attempts, messages *)
(* and faults.                                                             *)
(*                                                                         *)
(* What a handler holds is a prefix of the log (Remembers), whichever of   *)
(* its threads wrote it last, and an append that takes effect finds it to  *)
(* be the whole log.  So what the handler knows of its own attempt and of  *)
(* the calls it has still to answer is then true of the log.               *)
(* The rows of an attempt whose driver has seen no error are the first     *)
(* entries that it has, so a commit finds them all (CommitInv).            *)
(***************************************************************************)
EXTENDS HarnessTurn, SequenceTheorems, FiniteSetTheorems, TLAPS

Starts == {"harness_attempt_started", "user_message"}

\* Attempt p was the last one to start, up to position i.
Reigns(l, p, i) ==
  /\ p \in 1 .. i /\ l[p].type = "harness_attempt_started"
  /\ \A j \in 1 .. i : l[j].type \in Starts => j <= p

HasResult(l, k) == \E r \in 1 .. Len(l) : l[r].type = "tool_result" /\ l[r].key = k

\* A call that this handler will answer.
Owed(l, k) == k \in 1 .. Len(l) /\ l[k].type = "call" /\ ~HasResult(l, k)

\* The results that wait in a chain.
Results(c) == {i \in 1 .. Len(c) : c[i].type = "tool_result"}

Remembers(x, l) ==
  Len(x.mem) <= Len(l) /\ \A i \in 1 .. Len(x.mem) : x.mem[i] = l[i]

Fenced(x) == x.token # 0 => Reigns(x.mem, x.token, Len(x.mem))

Chained(x, f) ==
  /\ x.chain # <<>> => x.seq <= Len(x.mem) + 1
  /\ \A i \in 1 .. Len(x.chain) :
       x.chain[i].by = x.token /\ x.chain[i].type \in {"text", "call", "tool_result"}
  /\ \A i \in Results(x.chain) :
       /\ x.chain[i].key \in f /\ Owed(x.mem, x.chain[i].key)
       /\ x.chain[i].key \notin x.execs
       /\ \A j \in Results(x.chain) : x.chain[i].key = x.chain[j].key => i = j
  /\ \A k \in x.execs : Owed(x.mem, k)

AtWork(x) ==
  /\ x.pc \in {"read", "fence", "recover", "attach"} => x.chain = <<>> /\ x.execs = {}
  /\ x.pc = "read" => x.token = 0
  /\ x.pc = "attach" => Owed(x.mem, x.key)
  /\ x.pc \in {"ended", "end"} => x.goal.type \in Terminal /\ x.goal.by \in {0, x.token}
  /\ x.pc = "end" => x.end <= Len(x.mem) + 1

\* What holds of a slot x beside the log l and the commands f that have ended.
SlotOK(x, l, f) ==
  x \in Slot /\ Remembers(x, l) /\ Fenced(x) /\ Chained(x, f) /\ AtWork(x)

\* What holds of the log.
LogOK(l, f) ==
  /\ l \in Seq(Event)
  /\ \A i \in 1 .. Len(l) : l[i].by # 0 => Reigns(l, l[i].by, i)
  /\ \A i \in 1 .. Len(l) : l[i].type = "tool_result" =>
       /\ l[i].key \in f /\ l[i].key < i
       /\ \A j \in 1 .. Len(l) : l[j].type = "tool_result" /\ l[j].key = l[i].key => i = j

CallsLogged == \A k \in started : k \in 1 .. Len(log) /\ log[k].type = "call"

\* The fence is the newest attempt's, and no row is newer than it.
MirrorOK ==
  /\ session.fence <= Len(log)
  /\ \A i \in 1 .. Len(transcript) : transcript[i].by <= session.fence
  /\ \A i, j \in 1 .. Len(transcript) : i <= j => transcript[i].by <= transcript[j].by

IInv == /\ TypeOK
        /\ \A s \in Slots : SlotOK(slots[s], log, finished)
        /\ LogOK(log, finished)
        /\ CallsLogged
        /\ MirrorOK

-----------------------------------------------------------------------------
(* Types.                                                                   *)

LEMMA EventTypes ==
  /\ UserMessage \in Event
  /\ \A p \in Nat : Started(p) \in Event
  /\ \A by \in Nat, type \in {"text", "call"} : Bare(type, by) \in Event
  /\ \A k, by \in Nat : ToolResult(k, by) \in Event /\ Completed(k, by) \in Event
  /\ \A class \in FailClass, by \in Nat : Failed(class, by) \in Event
BY DEF UserMessage, Started, ToolResult, Completed, Failed, Bare, Event, EventType, FailClass

LEMMA EventsAre ==
  /\ \A p : Started(p).type = "harness_attempt_started" /\ Started(p).by = p
  /\ UserMessage.type = "user_message" /\ UserMessage.by = 0
  /\ \A type, by : Bare(type, by).type = type /\ Bare(type, by).by = by
  /\ \A k, by : /\ ToolResult(k, by).type = "tool_result"
                /\ ToolResult(k, by).by = by /\ ToolResult(k, by).key = k
  /\ \A k, by : Completed(k, by).type = "turn_completed" /\ Completed(k, by).by = by
  /\ \A class, by : Failed(class, by).type = "turn_failed" /\ Failed(class, by).by = by
BY DEF UserMessage, Started, ToolResult, Completed, Failed, Bare

LEMMA IdleType == Idle \in Slot
<1>1. UserMessage \in Event /\ <<>> \in Seq(Event) /\ {} \in SUBSET Nat
  BY EventTypes
<1> QED
  BY <1>1 DEF Idle, Slot, Pc, Fatal, Outcome

LEMMA SlotFields ==
  ASSUME NEW x \in Slot
  PROVE  /\ x.pc \in Pc /\ x.job \in Nat /\ x.last \in BOOLEAN /\ x.mem \in Seq(Event)
         /\ x.token \in Nat /\ x.key \in Nat /\ x.chain \in Seq(Event) /\ x.seq \in Nat
         /\ x.execs \subseteq Nat /\ x.local \in Nat /\ x.sent \in Nat /\ x.fatal \in Fatal
         /\ x.goal \in Event /\ x.end \in Nat /\ x.told \subseteq Nat
         /\ x.mirror \in {"ok", "dropped", "fenced"} /\ x.outcome \in Outcome
BY DEF Slot

-----------------------------------------------------------------------------
(* Appending to a sequence of events.                                       *)

LEMMA Appends ==
  ASSUME NEW l \in Seq(Event), NEW e \in Event
  PROVE  /\ Append(l, e) \in Seq(Event) /\ Len(l) \in Nat /\ Len(Append(l, e)) = Len(l) + 1
         /\ \A i \in 1 .. Len(l) : Append(l, e)[i] = l[i]
         /\ Append(l, e)[Len(l) + 1] = e
OBVIOUS

LEMMA RemembersAppend ==
  ASSUME NEW x \in Slot, NEW l \in Seq(Event), NEW e \in Event, Remembers(x, l)
  PROVE  Remembers(x, Append(l, e))
<1>1. Len(x.mem) \in Nat
  BY SlotFields
<1> DEFINE m == Append(l, e)
<1>2. /\ Len(m) = Len(l) + 1 /\ Len(l) \in Nat
      /\ \A i \in 1 .. Len(l) : m[i] = l[i]
  BY Appends
<1> HIDE DEF m
<1>3. Remembers(x, m)
  BY <1>1, <1>2 DEF Remembers
<1> QED
  BY <1>3 DEF m

LEMMA SlotOKAppend ==
  ASSUME NEW x, NEW l \in Seq(Event), NEW e \in Event, NEW f, SlotOK(x, l, f)
  PROVE  SlotOK(x, Append(l, e), f)
BY RemembersAppend DEF SlotOK

LEMMA SlotOKFinish ==
  ASSUME NEW x, NEW l, NEW f, NEW g, f \subseteq g, SlotOK(x, l, f)
  PROVE  SlotOK(x, l, g)
BY DEF SlotOK, Chained

\* An append whose seq is free finds the log to be what the slot remembers.
LEMMA Whole ==
  ASSUME NEW x, NEW l \in Seq(Event), NEW f, SlotOK(x, l, f),
         NEW q \in Nat, q <= Len(x.mem) + 1, ~(Len(l) >= q)
  PROVE  Len(l) = Len(x.mem) /\ \A i \in 1 .. Len(l) : x.mem[i] = l[i]
<1>1. Len(x.mem) \in Nat /\ Len(l) \in Nat
  BY SlotFields DEF SlotOK
<1> QED
  BY <1>1 DEF SlotOK, Remembers

\* What appending e leaves to be owed.
LEMMA OwedAppend ==
  ASSUME NEW l \in Seq(Event), NEW e \in Event, NEW k, Owed(l, k),
         e.type = "tool_result" => e.key # k
  PROVE  Owed(Append(l, e), k)
<1> DEFINE m == Append(l, e)
<1>1. /\ Len(m) = Len(l) + 1 /\ Len(l) \in Nat /\ m[Len(l) + 1] = e
      /\ \A i \in 1 .. Len(l) : m[i] = l[i]
  BY Appends
<1> HIDE DEF m
<1>2. k \in 1 .. Len(m) /\ m[k].type = "call"
  BY <1>1 DEF Owed
<1>3. ASSUME NEW r \in 1 .. Len(m), m[r].type = "tool_result", m[r].key = k
      PROVE  FALSE
  <2>1. CASE r = Len(l) + 1
    BY <1>1, <1>3, <2>1
  <2>2. CASE r # Len(l) + 1
    <3>1. r \in 1 .. Len(l)
      BY <1>1, <2>2
    <3> QED
      BY <1>1, <1>3, <3>1 DEF Owed, HasResult
  <2> QED
    BY <2>1, <2>2
<1> QED
  BY <1>2, <1>3 DEF Owed, HasResult, m

LEMMA ReignsAppend ==
  ASSUME NEW l \in Seq(Event), NEW e \in Event, NEW p, Reigns(l, p, Len(l)),
         e.type \notin Starts
  PROVE  Reigns(Append(l, e), p, Len(l) + 1)
<1> DEFINE m == Append(l, e)
<1>1. /\ Len(m) = Len(l) + 1 /\ Len(l) \in Nat /\ m[Len(l) + 1] = e
      /\ \A i \in 1 .. Len(l) : m[i] = l[i]
  BY Appends
<1> HIDE DEF m
<1>2. p \in 1 .. (Len(l) + 1) /\ m[p].type = "harness_attempt_started"
  BY <1>1 DEF Reigns
<1>3. ASSUME NEW j \in 1 .. (Len(l) + 1), m[j].type \in Starts
      PROVE  j <= p
  <2>1. j # Len(l) + 1
    BY <1>1, <1>3
  <2>2. j \in 1 .. Len(l)
    BY <1>1, <2>1
  <2> QED
    BY <1>1, <1>3, <2>2 DEF Reigns
<1> QED
  BY <1>2, <1>3 DEF Reigns, m

LEMMA LogAppend ==
  ASSUME NEW l, NEW f, LogOK(l, f), NEW e \in Event,
         e.by # 0 => Reigns(Append(l, e), e.by, Len(l) + 1),
         e.type = "tool_result" => e.key \in f /\ e.key \in 1 .. Len(l) /\ ~HasResult(l, e.key)
  PROVE  LogOK(Append(l, e), f)
<1> DEFINE m == Append(l, e)
           n == Len(l)
<1>1. /\ Len(m) = n + 1 /\ n \in Nat /\ m[n + 1] = e /\ m \in Seq(Event)
      /\ \A i \in 1 .. n : m[i] = l[i]
  BY Appends DEF LogOK
<1>2. e.by # 0 => Reigns(m, e.by, n + 1)
  OBVIOUS
<1>3. \A i \in 1 .. n : l[i].by # 0 => Reigns(l, l[i].by, i)
  BY DEF LogOK
<1>4. \A i \in 1 .. n : l[i].type = "tool_result" =>
        /\ l[i].key \in f /\ l[i].key < i
        /\ \A j \in 1 .. n : l[j].type = "tool_result" /\ l[j].key = l[i].key => i = j
  BY DEF LogOK
<1>5. e.type = "tool_result" => /\ e.key \in f /\ e.key \in 1 .. n
                                /\ \A r \in 1 .. n : ~(l[r].type = "tool_result" /\ l[r].key = e.key)
  BY DEF HasResult
<1> HIDE DEF m, n
<1>6. ASSUME NEW i \in 1 .. Len(m), m[i].by # 0
      PROVE  Reigns(m, m[i].by, i)
  <2>1. CASE i = n + 1
    BY <1>1, <1>2, <1>6, <2>1
  <2>2. CASE i # n + 1
    <3>1. i \in 1 .. n
      BY <1>1, <2>2
    <3>2. Reigns(l, l[i].by, i) /\ m[i] = l[i]
      BY <1>1, <1>3, <1>6, <3>1
    <3>3. \A j \in 1 .. i : j \in 1 .. n
      BY <1>1, <3>1
    <3> QED
      BY <1>1, <3>2, <3>3 DEF Reigns
  <2> QED
    BY <2>1, <2>2
<1>7. ASSUME NEW i \in 1 .. Len(m), m[i].type = "tool_result"
      PROVE  /\ m[i].key \in f /\ m[i].key < i
             /\ \A j \in 1 .. Len(m) : m[j].type = "tool_result" /\ m[j].key = m[i].key => i = j
  <2>1. CASE i = n + 1
    <3>1. m[i] = e /\ e.key \in f /\ e.key < i
      BY <1>1, <1>5, <1>7, <2>1
    <3>2. ASSUME NEW j \in 1 .. Len(m), m[j].type = "tool_result", m[j].key = m[i].key
          PROVE  i = j
      <4>1. CASE j \in 1 .. n
        BY <1>1, <1>5, <1>7, <3>1, <3>2, <4>1
      <4> QED
        BY <1>1, <2>1, <4>1
    <3> QED
      BY <3>1, <3>2
  <2>2. CASE i # n + 1
    <3>1. i \in 1 .. n /\ m[i] = l[i]
      BY <1>1, <2>2
    <3>2. ASSUME NEW j \in 1 .. Len(m), m[j].type = "tool_result", m[j].key = m[i].key
          PROVE  i = j
      <4>1. CASE j \in 1 .. n
        BY <1>1, <1>4, <1>7, <3>1, <3>2, <4>1
      <4>2. CASE j = n + 1
        BY <1>1, <1>5, <1>7, <3>1, <3>2, <4>2
      <4> QED
        BY <1>1, <4>1, <4>2
    <3> QED
      BY <1>4, <1>7, <3>1, <3>2
  <2> QED
    BY <2>1, <2>2
<1>8. LogOK(m, f)
  BY <1>1, <1>6, <1>7 DEF LogOK
<1> QED
  BY <1>8 DEF m

\* A handler's append that takes effect.
LEMMA OwnAppend ==
  ASSUME NEW x, NEW l, NEW f, SlotOK(x, l, f), LogOK(l, f),
         NEW q \in Nat, q <= Len(x.mem) + 1, ~(Len(l) >= q),
         NEW e \in Event, e.type \notin Starts, e.by \in {0, x.token},
         e.type = "tool_result" => e.key \in f /\ Owed(x.mem, e.key)
  PROVE  /\ LogOK(Append(l, e), f)
         /\ Len(l) = Len(x.mem) /\ \A i \in 1 .. Len(l) : x.mem[i] = l[i]
<1>1. l \in Seq(Event) /\ x.mem \in Seq(Event) /\ Len(l) \in Nat
  BY SlotFields DEF SlotOK, LogOK
<1>2. Len(l) = Len(x.mem) /\ \A i \in 1 .. Len(l) : x.mem[i] = l[i]
  BY <1>1, Whole
<1>3. e.by # 0 => Reigns(Append(l, e), e.by, Len(l) + 1)
  <2>1. SUFFICES ASSUME e.by # 0 PROVE Reigns(Append(l, e), e.by, Len(l) + 1)
    OBVIOUS
  <2>2. Reigns(x.mem, e.by, Len(x.mem))
    BY <2>1 DEF SlotOK, Fenced
  <2>3. Reigns(l, e.by, Len(l))
    BY <1>1, <1>2, <2>2 DEF Reigns
  <2> QED
    BY <1>1, <2>3, ReignsAppend
<1>4. e.type = "tool_result" => e.key \in f /\ e.key \in 1 .. Len(l) /\ ~HasResult(l, e.key)
  BY <1>2 DEF Owed, HasResult
<1> QED
  BY <1>2, <1>3, <1>4, LogAppend

-----------------------------------------------------------------------------
(* What a step makes of the slot.                                           *)

LEMMA IdleOK ==
  ASSUME NEW l \in Seq(Event), NEW f
  PROVE  SlotOK(Idle, l, f)
<1>1. /\ Idle.pc = "idle" /\ Idle.mem = <<>> /\ Idle.chain = <<>> /\ Idle.execs = {}
      /\ Idle.token = 0
  BY DEF Idle
<1>2. Len(<<>>) = 0 /\ Len(l) \in Nat /\ Results(<<>>) = {}
  BY DEF Results
<1>3. Remembers(Idle, l)
  BY <1>1, <1>2 DEF Remembers
<1>4. Fenced(Idle) /\ AtWork(Idle)
  BY <1>1 DEF Fenced, AtWork
<1>5. Chained(Idle, f)
  BY <1>1, <1>2 DEF Chained
<1> QED
  BY <1>3, <1>4, <1>5, IdleType DEF SlotOK

\* Nothing is remembered anew, nothing new is owed.
LEMMA QuietOK ==
  ASSUME NEW x, NEW l, NEW f, SlotOK(x, l, f), NEW y \in Slot,
         y.mem = x.mem, y.token = x.token, y.chain = x.chain, y.seq = x.seq,
         y.execs \subseteq x.execs, AtWork(y)
  PROVE  SlotOK(y, l, f)
<1>1. Remembers(y, l) /\ Fenced(y)
  BY DEF SlotOK, Remembers, Fenced
<1>2. Chained(y, f)
  BY DEF SlotOK, Chained
<1> QED
  BY <1>1, <1>2 DEF SlotOK

LEMMA DoneIs ==
  ASSUME NEW x \in Slot, NEW o \in Outcome
  PROVE  LET y == Done(x, o)
         IN  /\ y \in Slot /\ y.pc = "settle"
             /\ \/ y.mem = <<>> /\ y.token = 0 /\ y.chain = <<>> /\ y.execs = {}
                \/ /\ y.mem = x.mem /\ y.token = x.token /\ y.chain = x.chain
                   /\ y.seq = x.seq /\ y.execs = x.execs
<1> DEFINE kept == [Idle EXCEPT !.mem = x.mem, !.token = x.token, !.chain = x.chain,
                                !.seq = x.seq, !.execs = x.execs,
                                !.local = x.local, !.sent = x.sent]
           base == IF x.chain = <<>> /\ x.execs = {} /\ x.sent = x.local THEN Idle ELSE kept
           y == [base EXCEPT !.pc = "settle", !.job = x.job, !.outcome = o]
<1>1. kept \in Slot
  BY IdleType, SlotFields DEF Slot
<1>2. /\ kept.mem = x.mem /\ kept.token = x.token /\ kept.chain = x.chain
      /\ kept.seq = x.seq /\ kept.execs = x.execs
  BY DEF Idle
<1> HIDE DEF kept
<1>3. base \in Slot
  BY <1>1, IdleType
<1>4. \/ base.mem = <<>> /\ base.token = 0 /\ base.chain = <<>> /\ base.execs = {}
      \/ /\ base.mem = x.mem /\ base.token = x.token /\ base.chain = x.chain
         /\ base.seq = x.seq /\ base.execs = x.execs
  BY <1>2 DEF Idle
<1>5. Done(x, o) = y
  BY DEF Done, kept
<1> HIDE DEF base
<1>6. y \in Slot
  BY <1>3, SlotFields DEF Slot, Pc
<1>7. /\ y.pc = "settle" /\ y.mem = base.mem /\ y.token = base.token /\ y.chain = base.chain
      /\ y.seq = base.seq /\ y.execs = base.execs
  BY <1>3 DEF Slot
<1> QED
  BY <1>4, <1>5, <1>6, <1>7

LEMMA DoneOK ==
  ASSUME NEW x, NEW l \in Seq(Event), NEW f, SlotOK(x, l, f), NEW o \in Outcome
  PROVE  SlotOK(Done(x, o), l, f)
<1> DEFINE y == Done(x, o)
<1>1. /\ y \in Slot /\ y.pc = "settle"
      /\ \/ y.mem = <<>> /\ y.token = 0 /\ y.chain = <<>> /\ y.execs = {}
         \/ /\ y.mem = x.mem /\ y.token = x.token /\ y.chain = x.chain
            /\ y.seq = x.seq /\ y.execs = x.execs
  BY DoneIs DEF SlotOK
<1> HIDE DEF y
<1>2. AtWork(y)
  BY <1>1 DEF AtWork
<1>3. CASE y.mem = x.mem /\ y.token = x.token /\ y.chain = x.chain
           /\ y.seq = x.seq /\ y.execs = x.execs
  BY <1>1, <1>2, <1>3, QuietOK DEF y
<1>4. CASE y.mem = <<>> /\ y.token = 0 /\ y.chain = <<>> /\ y.execs = {}
  <2>1. Len(<<>>) = 0 /\ Len(l) \in Nat /\ Results(<<>>) = {}
    BY DEF Results
  <2>2. Remembers(y, l) /\ Fenced(y)
    BY <1>4, <2>1 DEF Remembers, Fenced
  <2>3. Chained(y, f)
    BY <1>4, <2>1 DEF Chained
  <2> QED
    BY <1>1, <1>2, <2>2, <2>3 DEF SlotOK, y
<1> QED
  BY <1>1, <1>3, <1>4

LEMMA RestOK ==
  ASSUME NEW x, NEW l \in Seq(Event), NEW f, SlotOK(x, l, f)
  PROVE  SlotOK(Rest(x), l, f)
BY IdleOK DEF Rest

\* A terminal event is issued.
LEMMA IssueOK ==
  ASSUME NEW x, NEW l, NEW f, SlotOK(x, l, f), NEW e \in Event,
         e.type \in Terminal, e.by \in {0, x.token}
  PROVE  SlotOK([x EXCEPT !.pc = "end", !.goal = e, !.end = Len(x.mem) + 1], l, f)
<1> DEFINE q == Len(x.mem) + 1
           y == [x EXCEPT !.pc = "end", !.goal = e, !.end = q]
<1>1. x \in Slot /\ q \in Nat
  BY SlotFields DEF SlotOK
<1>2. q <= Len(x.mem) + 1
  BY <1>1
<1> HIDE DEF q
<1>3. /\ y \in Slot /\ y.mem = x.mem /\ y.token = x.token /\ y.chain = x.chain
      /\ y.seq = x.seq /\ y.execs = x.execs /\ y.pc = "end" /\ y.goal = e /\ y.end = q
  BY <1>1 DEF Slot, Pc
<1> HIDE DEF y
<1>4. AtWork(y)
  BY <1>2, <1>3 DEF AtWork
<1> QED
  BY <1>3, <1>4, QuietOK DEF y, q

\* An event joins the chain.
LEMMA ChainGrows ==
  ASSUME NEW x, NEW l, NEW f, SlotOK(x, l, f), NEW y \in Slot, NEW e \in Event,
         y.mem = x.mem, y.token = x.token, y.chain = Append(x.chain, e),
         y.seq = IF x.chain = <<>> THEN Len(x.mem) + 1 ELSE x.seq,
         y.execs \subseteq x.execs, AtWork(y),
         e.by = x.token, e.type \in {"text", "call", "tool_result"},
         e.type = "tool_result" => e.key \in f /\ e.key \in x.execs /\ e.key \notin y.execs
  PROVE  SlotOK(y, l, f)
<1>1. x \in Slot /\ x.chain \in Seq(Event) /\ Len(x.mem) \in Nat
  BY SlotFields DEF SlotOK
<1> DEFINE n == Len(x.chain)
<1>2. /\ n \in Nat /\ Len(y.chain) = n + 1 /\ y.chain[n + 1] = e
      /\ \A i \in 1 .. n : y.chain[i] = x.chain[i]
  BY <1>1, Appends
<1>3. Remembers(y, l) /\ Fenced(y)
  BY DEF SlotOK, Remembers, Fenced
<1>4. y.seq <= Len(y.mem) + 1
  BY <1>1 DEF SlotOK, Chained
<1>5. /\ \A i \in Results(x.chain) :
           /\ x.chain[i].key \in f /\ Owed(x.mem, x.chain[i].key)
           /\ x.chain[i].key \notin x.execs
           /\ \A j \in Results(x.chain) : x.chain[i].key = x.chain[j].key => i = j
      /\ \A k \in x.execs : Owed(x.mem, k)
      /\ \A i \in 1 .. n : /\ x.chain[i].by = x.token
                           /\ x.chain[i].type \in {"text", "call", "tool_result"}
  BY DEF SlotOK, Chained
<1> HIDE DEF n
<1>6. \A i \in Results(y.chain) :
        \/ i \in Results(x.chain) /\ y.chain[i] = x.chain[i]
        \/ i = n + 1 /\ y.chain[i] = e /\ e.type = "tool_result"
  BY <1>2 DEF Results, n
<1>7. \A i \in 1 .. Len(y.chain) :
        y.chain[i].by = y.token /\ y.chain[i].type \in {"text", "call", "tool_result"}
  <2> TAKE i \in 1 .. Len(y.chain)
  <2>1. i \in 1 .. n \/ i = n + 1
    BY <1>2
  <2> QED
    BY <1>2, <1>5, <2>1
<1>8. ASSUME NEW i \in Results(y.chain)
      PROVE  /\ y.chain[i].key \in f /\ Owed(y.mem, y.chain[i].key)
             /\ y.chain[i].key \notin y.execs
             /\ \A j \in Results(y.chain) : y.chain[i].key = y.chain[j].key => i = j
  <2>1. CASE i \in Results(x.chain) /\ y.chain[i] = x.chain[i]
    BY <1>5, <1>6, <2>1
  <2>2. CASE i = n + 1 /\ y.chain[i] = e /\ e.type = "tool_result"
    BY <1>5, <1>6, <2>2
  <2> QED
    BY <1>6, <2>1, <2>2
<1>9. Chained(y, f)
  BY <1>4, <1>5, <1>7, <1>8 DEF Chained
<1> QED
  BY <1>3, <1>9 DEF SlotOK

\* The first event leaves the chain, unwritten.
LEMMA TailIs ==
  ASSUME NEW c \in Seq(Event), c # <<>>
  PROVE  /\ Tail(c) \in Seq(Event) /\ Head(c) = c[1] /\ c[1] \in Event /\ Len(c) \in Nat
         /\ Len(c) >= 1 /\ Len(Tail(c)) = Len(c) - 1
         /\ \A i \in 1 .. Len(Tail(c)) : Tail(c)[i] = c[i + 1] /\ i + 1 \in 1 .. Len(c)
         /\ \A i \in Results(Tail(c)) : Tail(c)[i] = c[i + 1] /\ i + 1 \in Results(c)
<1>1. /\ Tail(c) \in Seq(Event) /\ Head(c) = c[1] /\ c[1] \in Event /\ Len(c) \in Nat
      /\ Len(c) >= 1 /\ Len(Tail(c)) = Len(c) - 1
  OBVIOUS
<1>2. \A i \in 1 .. Len(Tail(c)) : Tail(c)[i] = c[i + 1] /\ i + 1 \in 1 .. Len(c)
  BY <1>1
<1>3. \A i \in Results(Tail(c)) : Tail(c)[i] = c[i + 1] /\ i + 1 \in Results(c)
  BY <1>2 DEF Results
<1> QED
  BY <1>1, <1>2, <1>3

LEMMA PopOK ==
  ASSUME NEW x, NEW l, NEW f, SlotOK(x, l, f), NEW y \in Slot, x.chain # <<>>,
         y.mem = x.mem, y.token = x.token, y.chain = Tail(x.chain), y.seq = Len(x.mem) + 1,
         y.execs = x.execs, y.pc = x.pc, y.key = x.key, y.goal = x.goal, y.end = x.end
  PROVE  SlotOK(y, l, f)
<1>1. x \in Slot /\ x.chain \in Seq(Event) /\ Len(x.mem) \in Nat
  BY SlotFields DEF SlotOK
<1>2. /\ \A i \in 1 .. Len(y.chain) : y.chain[i] = x.chain[i + 1] /\ i + 1 \in 1 .. Len(x.chain)
      /\ \A i \in Results(y.chain) : y.chain[i] = x.chain[i + 1] /\ i + 1 \in Results(x.chain)
  <2> DEFINE c == x.chain
             t == Tail(c)
  <2>1. c \in Seq(Event) /\ c # <<>>
    BY <1>1
  <2> HIDE DEF c
  <2>2. /\ \A i \in 1 .. Len(t) : t[i] = c[i + 1] /\ i + 1 \in 1 .. Len(c)
        /\ \A i \in Results(t) : t[i] = c[i + 1] /\ i + 1 \in Results(c)
    BY <2>1, TailIs
  <2>3. y.chain = t
    BY DEF c
  <2> HIDE DEF t
  <2> QED
    BY <2>2, <2>3 DEF c
<1>3. Remembers(y, l) /\ Fenced(y)
  BY DEF SlotOK, Remembers, Fenced
<1>4. y.seq <= Len(y.mem) + 1
  BY <1>1
<1>5. \A i \in 1 .. Len(x.chain) :
        x.chain[i].by = x.token /\ x.chain[i].type \in {"text", "call", "tool_result"}
  BY DEF SlotOK, Chained
<1>6. /\ \A i \in Results(x.chain) :
           /\ x.chain[i].key \in f /\ Owed(x.mem, x.chain[i].key)
           /\ x.chain[i].key \notin x.execs
           /\ \A j \in Results(x.chain) : x.chain[i].key = x.chain[j].key => i = j
      /\ \A k \in x.execs : Owed(x.mem, k)
  BY DEF SlotOK, Chained
<1>7. ASSUME NEW i \in Results(y.chain)
      PROVE  /\ y.chain[i].key \in f /\ Owed(y.mem, y.chain[i].key)
             /\ y.chain[i].key \notin y.execs
             /\ \A j \in Results(y.chain) : y.chain[i].key = y.chain[j].key => i = j
  <2>1. /\ y.chain[i].key \in f /\ Owed(y.mem, y.chain[i].key)
        /\ y.chain[i].key \notin y.execs
    BY <1>2, <1>6
  <2>2. ASSUME NEW j \in Results(y.chain), y.chain[i].key = y.chain[j].key
        PROVE  i = j
    <3>0. /\ y.chain[i] = x.chain[i + 1] /\ i + 1 \in Results(x.chain)
          /\ y.chain[j] = x.chain[j + 1] /\ j + 1 \in Results(x.chain)
      BY <1>2
    <3>1. i + 1 = j + 1
      BY <1>6, <2>2, <3>0
    <3>2. i \in Nat /\ j \in Nat
      BY DEF Results
    <3> QED
      BY <3>1, <3>2
  <2> QED
    BY <2>1, <2>2
<1>8. Chained(y, f)
  <2>1. \A i \in 1 .. Len(y.chain) :
          y.chain[i].by = y.token /\ y.chain[i].type \in {"text", "call", "tool_result"}
    BY <1>2, <1>5
  <2> QED
    BY <1>4, <1>7, <1>6, <2>1 DEF Chained
<1>9. AtWork(y)
  BY DEF SlotOK, AtWork
<1> QED
  BY <1>3, <1>8, <1>9 DEF SlotOK

\* A call just logged is owed.
LEMMA OwedNew ==
  ASSUME NEW l, NEW f, LogOK(l, f), NEW m \in Seq(Event), Len(l) = Len(m),
         \A i \in 1 .. Len(l) : m[i] = l[i],
         NEW e \in Event, e.type = "call"
  PROVE  Owed(Append(m, e), Len(m) + 1)
<1> DEFINE n == Len(m)
           a == Append(m, e)
<1>1. /\ n \in Nat /\ Len(a) = n + 1 /\ a[n + 1] = e
      /\ \A i \in 1 .. n : a[i] = m[i]
  BY Appends
<1>2. Len(l) = n /\ \A i \in 1 .. n : m[i] = l[i]
  OBVIOUS
<1>3. \A i \in 1 .. n : l[i].type = "tool_result" => l[i].key < i
  BY <1>2 DEF LogOK
<1>4. \A i \in 1 .. n : l[i].key \in Nat
  <2>1. \A i \in 1 .. n : l[i] \in Event
    BY <1>2 DEF LogOK
  <2> QED
    BY <2>1 DEF Event
<1> HIDE DEF a, n
<1>5. ASSUME NEW r \in 1 .. (n + 1), a[r].type = "tool_result", a[r].key = n + 1
      PROVE  FALSE
  <2>1. CASE r \in 1 .. n
    BY <1>1, <1>2, <1>3, <1>4, <1>5, <2>1
  <2>2. CASE r = n + 1
    BY <1>1, <1>5, <2>2
  <2> QED
    BY <1>1, <2>1, <2>2
<1>6. Owed(a, n + 1)
  BY <1>1, <1>5 DEF Owed, HasResult
<1> QED
  BY <1>6 DEF a, n

\* The slot appends e to the log and remembers it.
LEMMA GrowOK ==
  ASSUME NEW x, NEW l, NEW f, SlotOK(x, l, f), LogOK(l, f),
         Len(l) = Len(x.mem), \A i \in 1 .. Len(l) : x.mem[i] = l[i],
         NEW e \in Event, NEW y \in Slot, y.mem = Append(x.mem, e),
         \/ e.type \notin Starts /\ y.token = x.token
         \/ e.type = "harness_attempt_started" /\ y.token = Len(x.mem) + 1,
         y.chain # <<>> => y.seq <= Len(x.mem) + 2,
         \A i \in 1 .. Len(y.chain) :
           y.chain[i].by = y.token /\ y.chain[i].type \in {"text", "call", "tool_result"},
         \A i \in Results(y.chain) :
           /\ y.chain[i].key \in f /\ Owed(x.mem, y.chain[i].key)
           /\ e.type = "tool_result" => e.key # y.chain[i].key
           /\ y.chain[i].key \notin y.execs
           /\ \A j \in Results(y.chain) : y.chain[i].key = y.chain[j].key => i = j,
         \A k \in y.execs :
           \/ k = Len(x.mem) + 1 /\ e.type = "call"
           \/ Owed(x.mem, k) /\ (e.type = "tool_result" => e.key # k),
         AtWork(y)
  PROVE  SlotOK(y, Append(l, e), f)
<1> DEFINE n == Len(x.mem)
           a == Append(x.mem, e)
           m == Append(l, e)
<1>1. /\ x.mem \in Seq(Event) /\ l \in Seq(Event)
  BY SlotFields DEF SlotOK, LogOK
<1>2. /\ n \in Nat /\ Len(a) = n + 1 /\ a[n + 1] = e /\ \A i \in 1 .. n : a[i] = x.mem[i]
      /\ Len(m) = n + 1 /\ m[n + 1] = e /\ \A i \in 1 .. n : m[i] = x.mem[i]
      /\ a \in Seq(Event)
  BY <1>1, Appends
<1>3. \A k : Owed(x.mem, k) /\ (e.type = "tool_result" => e.key # k) => Owed(a, k)
  BY <1>1, OwedAppend
<1>4. e.type = "call" => Owed(a, n + 1)
  BY <1>1, OwedNew
<1>5. e.type \notin Starts /\ x.token # 0 => Reigns(a, x.token, n + 1)
  BY <1>1, ReignsAppend DEF SlotOK, Fenced
<1>6. y.mem = a
  OBVIOUS
<1> HIDE DEF a, m
<1>7. ASSUME e.type = "harness_attempt_started"
      PROVE  Reigns(a, n + 1, n + 1)
  BY <1>2, <1>7 DEF Reigns
<1>8. Remembers(y, m)
  <2>1. \A i \in 1 .. (n + 1) : a[i] = m[i]
    BY <1>2
  <2> QED
    BY <1>2, <1>6, <2>1 DEF Remembers
<1>9. Fenced(y)
  BY <1>2, <1>5, <1>6, <1>7 DEF Fenced
<1>10. Chained(y, f)
  <2>1. y.chain # <<>> => y.seq <= Len(y.mem) + 1
    BY <1>2, <1>6 DEF Slot
  <2>2. \A k \in y.execs : Owed(y.mem, k)
    BY <1>3, <1>4, <1>6
  <2>3. \A i \in Results(y.chain) : Owed(y.mem, y.chain[i].key)
    BY <1>3, <1>6
  <2> QED
    BY <2>1, <2>2, <2>3 DEF Chained
<1> QED
  BY <1>8, <1>9, <1>10 DEF SlotOK, m

\* The same for a slot that nothing waits in.
LEMMA GrowAloneOK ==
  ASSUME NEW x, NEW l, NEW f, SlotOK(x, l, f), LogOK(l, f),
         Len(l) = Len(x.mem), \A i \in 1 .. Len(l) : x.mem[i] = l[i],
         NEW e \in Event, NEW y \in Slot, y.mem = Append(x.mem, e),
         \/ e.type \notin Starts /\ y.token = x.token
         \/ e.type = "harness_attempt_started" /\ y.token = Len(x.mem) + 1,
         y.chain = <<>>, y.execs = {}, AtWork(y)
  PROVE  SlotOK(y, Append(l, e), f)
<1>1. Len(y.chain) = 0 /\ Results(y.chain) = {}
  BY DEF Results
<1>2. \A i \in 1 .. Len(y.chain) :
        y.chain[i].by = y.token /\ y.chain[i].type \in {"text", "call", "tool_result"}
  BY <1>1
<1> QED
  BY <1>1, <1>2, GrowOK

\* The head of a chain, and what waits behind it.
Split(x, f, e, t) ==
  /\ e \in Event /\ e.by = x.token /\ e.type \in {"text", "call", "tool_result"}
  /\ e.type = "tool_result" =>
       e.key \in f /\ Owed(x.mem, e.key) /\ e.key \notin x.execs
  /\ \A i \in 1 .. Len(t) :
       t[i].by = x.token /\ t[i].type \in {"text", "call", "tool_result"}
  /\ \A i \in Results(t) :
       /\ t[i].key \in f /\ Owed(x.mem, t[i].key) /\ t[i].key \notin x.execs
       /\ e.type = "tool_result" => e.key # t[i].key
       /\ \A j \in Results(t) : t[i].key = t[j].key => i = j

LEMMA ChainSplit ==
  ASSUME NEW x, NEW f, Chained(x, f), x.chain \in Seq(Event), x.chain # <<>>
  PROVE  Split(x, f, Head(x.chain), Tail(x.chain))
<1> DEFINE c == x.chain
           t == Tail(c)
           e == Head(c)
<1>1. /\ \A i \in Results(c) :
           /\ c[i].key \in f /\ Owed(x.mem, c[i].key) /\ c[i].key \notin x.execs
           /\ \A j \in Results(c) : c[i].key = c[j].key => i = j
      /\ \A i \in 1 .. Len(c) : c[i].by = x.token /\ c[i].type \in {"text", "call", "tool_result"}
  BY DEF Chained
<1>0. c \in Seq(Event) /\ c # <<>>
  OBVIOUS
<1> HIDE DEF c
<1>2. e = c[1] /\ e \in Event /\ Len(c) \in Nat /\ 1 \in 1 .. Len(c)
  BY <1>0, TailIs
<1>3. /\ \A i \in 1 .. Len(t) : t[i] = c[i + 1] /\ i + 1 \in 1 .. Len(c)
      /\ \A i \in Results(t) : t[i] = c[i + 1] /\ i + 1 \in Results(c)
  BY <1>0, TailIs
<1> HIDE DEF e, t
<1>4. e.type = "tool_result" => 1 \in Results(c)
  BY <1>2 DEF Results
<1>5. \A i \in Results(t) : i \in Nat /\ i >= 1
  BY DEF Results
<1>6. ASSUME NEW i \in Results(t)
      PROVE  /\ t[i].key \in f /\ Owed(x.mem, t[i].key) /\ t[i].key \notin x.execs
             /\ e.type = "tool_result" => e.key # t[i].key
             /\ \A j \in Results(t) : t[i].key = t[j].key => i = j
  <2>0. 1 # i + 1
    BY <1>5
  <2>1. t[i] = c[i + 1] /\ i + 1 \in Results(c) /\ 1 # i + 1
    BY <1>3, <2>0
  <2>2. e.type = "tool_result" => e.key # t[i].key
    BY <1>1, <1>2, <1>4, <2>1
  <2>3. ASSUME NEW j \in Results(t), t[i].key = t[j].key
        PROVE  i = j
    <3>1. i + 1 = j + 1
      BY <1>1, <1>3, <2>1, <2>3
    <3> QED
      BY <1>5, <3>1
  <2> QED
    BY <1>1, <2>1, <2>2, <2>3
<1>7. \A i \in 1 .. Len(t) :
        t[i].by = x.token /\ t[i].type \in {"text", "call", "tool_result"}
  BY <1>1, <1>3
<1>8. /\ e.by = x.token /\ e.type \in {"text", "call", "tool_result"}
      /\ e.type = "tool_result" => e.key \in f /\ Owed(x.mem, e.key) /\ e.key \notin x.execs
  BY <1>1, <1>2, <1>4
<1>9. Split(x, f, e, t)
  BY <1>2, <1>6, <1>7, <1>8 DEF Split
<1> QED
  BY <1>9 DEF c, e, t

\* The first event of the chain takes effect.
LEMMA LandOK ==
  ASSUME NEW x, NEW l, NEW f, SlotOK(x, l, f), LogOK(l, f), x.chain # <<>>,
         ~(Len(l) >= x.seq), NEW e, e = Head(x.chain), NEW y \in Slot,
         y.mem = Append(x.mem, e), y.token = x.token, y.chain = Tail(x.chain),
         y.seq = Len(x.mem) + 2,
         y.execs = IF e.type = "call" THEN x.execs \cup {x.seq} ELSE x.execs,
         y.pc = x.pc, y.key = x.key, y.goal = x.goal, y.end = x.end
  PROVE  LogOK(Append(l, e), f) /\ SlotOK(y, Append(l, e), f)
<1>1. /\ x \in Slot /\ x.chain \in Seq(Event) /\ x.mem \in Seq(Event) /\ Len(x.mem) \in Nat
      /\ x.seq \in Nat /\ x.seq <= Len(x.mem) + 1 /\ x.end \in Nat /\ Len(l) \in Nat
      /\ Chained(x, f)
  BY SlotFields DEF SlotOK, Chained, LogOK
<1> DEFINE t == y.chain
<1>2. t = Tail(x.chain)
  OBVIOUS
<1> HIDE DEF t
<1>3. /\ e \in Event /\ e.by = x.token /\ e.type \in {"text", "call", "tool_result"}
      /\ e.type = "tool_result" =>
           e.key \in f /\ Owed(x.mem, e.key) /\ e.key \notin x.execs
      /\ \A i \in 1 .. Len(t) :
           t[i].by = x.token /\ t[i].type \in {"text", "call", "tool_result"}
      /\ \A i \in Results(t) :
           /\ t[i].key \in f /\ Owed(x.mem, t[i].key) /\ t[i].key \notin x.execs
           /\ e.type = "tool_result" => e.key # t[i].key
           /\ \A j \in Results(t) : t[i].key = t[j].key => i = j
  <2>1. Split(x, f, Head(x.chain), Tail(x.chain))
    BY <1>1, ChainSplit
  <2>2. Split(x, f, e, t)
    BY <1>2, <2>1
  <2> QED
    BY <2>2 DEF Split
<1>4. e.type \notin Starts
  BY <1>3 DEF Starts
<1>5. /\ LogOK(Append(l, e), f)
      /\ Len(l) = Len(x.mem) /\ \A i \in 1 .. Len(l) : x.mem[i] = l[i]
  BY <1>1, <1>3, <1>4, OwnAppend
<1>6. x.seq = Len(x.mem) + 1
  BY <1>1, <1>5
<1>7. AtWork(y)
  <2>1. x.pc \notin {"read", "fence", "recover", "attach"}
    BY DEF SlotOK, AtWork
  <2>2. x.pc = "end" => x.end <= Len(x.mem) + 2
    BY <1>1 DEF SlotOK, AtWork
  <2>3. Len(y.mem) = Len(x.mem) + 1
    BY <1>1, <1>3, Appends
  <2> QED
    BY <1>1, <2>1, <2>2, <2>3 DEF SlotOK, AtWork
<1>8. \A i \in Results(t) : t[i].key # x.seq
  BY <1>1, <1>3, <1>6 DEF Owed
<1>9. \A i \in Results(t) :
           /\ t[i].key \in f /\ Owed(x.mem, t[i].key)
           /\ e.type = "tool_result" => e.key # t[i].key
           /\ t[i].key \notin y.execs
           /\ \A j \in Results(t) : t[i].key = t[j].key => i = j
  BY <1>3, <1>8
<1>10. \A k \in y.execs :
         \/ k = Len(x.mem) + 1 /\ e.type = "call"
         \/ Owed(x.mem, k) /\ (e.type = "tool_result" => e.key # k)
  BY <1>1, <1>3, <1>6 DEF Chained
<1>11. y.seq <= Len(x.mem) + 2
  BY <1>1
<1>12. \A i \in 1 .. Len(t) :
         t[i].by = y.token /\ t[i].type \in {"text", "call", "tool_result"}
  BY <1>3
<1>13. SlotOK(y, Append(l, e), f)
  BY <1>3, <1>4, <1>5, <1>7, <1>9, <1>10, <1>11, <1>12, GrowOK DEF t
<1> QED
  BY <1>5, <1>13

-----------------------------------------------------------------------------
(* Steps of the state.                                                      *)

\* The rows and counters that no other part depends on.
RowsOK ==
  /\ job \in [id : Nat, state : {"none", "queued", "running", "dead"},
              attempts : Nat, lease : BOOLEAN]
  /\ faults \in Seq(FaultKinds) /\ Len(faults) <= MaxFaults
  /\ stray \in BOOLEAN /\ spoken \in 0 .. MaxOutput

SlotsOK == \A s \in Slots : SlotOK(slots[s], log, finished)

LEMMA Parts ==
  ASSUME IInv
  PROVE  /\ RowsOK /\ SlotsOK /\ LogOK(log, finished) /\ CallsLogged /\ MirrorOK
         /\ log \in Seq(Event) /\ transcript \in Seq(Row) /\ slots \in [Slots -> Slot]
         /\ session \in [fence : Nat, state : Nat]
         /\ started \subseteq Nat /\ finished \subseteq started
BY DEF IInv, TypeOK, RowsOK, SlotsOK

LEMMA RowFields ==
  ASSUME NEW t \in Seq(Row)
  PROVE  \A i \in 1 .. Len(t) : t[i] \in Row /\ t[i].by \in Nat
<1>1. \A i \in 1 .. Len(t) : t[i] \in Row
  OBVIOUS
<1> QED
  BY <1>1 DEF Row

\* The slot s becomes one that is right beside the log l.
Turns(s, l, f) == \E y : slots' = [slots EXCEPT ![s] = y] /\ SlotOK(y, l, f)

\* The log is as it was, or has one event more.
Grows == log' = log \/ \E e \in Event : log' = Append(log, e)

LEMMA SlotsStep ==
  ASSUME IInv, NEW s \in Slots, Turns(s, log', finished'), Grows, finished \subseteq finished'
  PROVE  slots' \in [Slots -> Slot] /\ SlotsOK'
<1>1. PICK y : slots' = [slots EXCEPT ![s] = y] /\ SlotOK(y, log', finished')
  BY DEF Turns
<1>2. slots \in [Slots -> Slot] /\ y \in Slot
  BY <1>1, Parts DEF SlotOK
<1>3. slots' \in [Slots -> Slot]
  BY <1>1, <1>2
<1>4. ASSUME NEW t \in Slots
      PROVE  SlotOK(slots'[t], log', finished')
  <2>1. CASE t = s
    BY <1>1, <1>2, <2>1
  <2>2. CASE t # s
    <3>1. slots'[t] = slots[t] /\ SlotOK(slots[t], log, finished) /\ log \in Seq(Event)
      BY <1>1, <1>2, <2>2, Parts DEF SlotsOK
    <3>2. SlotOK(slots[t], log', finished)
      BY <3>1, SlotOKAppend DEF Grows
    <3>3. SlotOK(slots[t], log', finished')
      BY <3>2, SlotOKFinish
    <3> QED
      BY <3>1, <3>3
  <2> QED
    BY <2>1, <2>2
<1> QED
  BY <1>3, <1>4 DEF SlotsOK

\* A step that leaves the log and the rows beside it alone.
LEMMA QuietStep ==
  ASSUME IInv, NEW s \in Slots, Turns(s, log, finished), RowsOK',
         UNCHANGED <<log, session, transcript, started, finished>>
  PROVE  IInv'
<1>1. slots' \in [Slots -> Slot] /\ SlotsOK'
  <2>1. Turns(s, log', finished') /\ Grows /\ finished \subseteq finished'
    BY DEF Grows
  <2> QED
    BY <2>1, SlotsStep
<1>2. LogOK(log, finished)' /\ CallsLogged' /\ MirrorOK'
  BY Parts DEF CallsLogged, MirrorOK
<1>3. TypeOK'
  BY <1>1, Parts DEF TypeOK, RowsOK
<1> QED
  BY <1>1, <1>2, <1>3 DEF IInv, SlotsOK

\* A step that appends e, and perhaps sets the fence to its seq.
LEMMA Written ==
  ASSUME IInv, NEW e \in Event, log' = Append(log, e), LogOK(log', finished),
         slots' \in [Slots -> Slot], SlotsOK', RowsOK',
         session' \in [fence : Nat, state : Nat], session'.fence \in {session.fence, Len(log) + 1},
         UNCHANGED <<transcript, started, finished>>
  PROVE  IInv'
<1>1. /\ log' \in Seq(Event) /\ Len(log) \in Nat /\ Len(log') = Len(log) + 1
      /\ \A i \in 1 .. Len(log) : log'[i] = log[i]
  BY Parts, Appends
<1>2. CallsLogged'
  <2>1. \A k \in 1 .. Len(log) : k \in 1 .. Len(log') /\ log'[k] = log[k]
    BY <1>1
  <2> QED
    BY <2>1, Parts DEF CallsLogged
<1>3. MirrorOK'
  <2>1. /\ session.fence <= Len(log)
        /\ \A i \in 1 .. Len(transcript) : transcript[i].by <= session.fence
        /\ \A i, j \in 1 .. Len(transcript) : i <= j => transcript[i].by <= transcript[j].by
    BY Parts DEF MirrorOK
  <2>2. session.fence \in Nat
    BY Parts
  <2>3. \A i \in 1 .. Len(transcript) : transcript[i].by \in Nat
    BY Parts, RowFields
  <2>4. session'.fence \in Nat /\ session.fence <= session'.fence /\ session'.fence <= Len(log')
    BY <1>1, <2>1, <2>2
  <2>5. \A i \in 1 .. Len(transcript) : transcript[i].by <= session'.fence
    BY <2>1, <2>2, <2>3, <2>4
  <2> QED
    BY <2>1, <2>4, <2>5 DEF MirrorOK
<1>4. TypeOK'
  BY <1>1, Parts DEF TypeOK, RowsOK
<1> QED
  BY <1>2, <1>3, <1>4 DEF IInv, SlotsOK

\* The same, made by a slot.
LEMMA WriteStep ==
  ASSUME IInv, NEW s \in Slots, NEW e \in Event, log' = Append(log, e),
         Turns(s, log', finished), LogOK(log', finished), RowsOK',
         session' \in [fence : Nat, state : Nat], session'.fence \in {session.fence, Len(log) + 1},
         UNCHANGED <<transcript, started, finished>>
  PROVE  IInv'
<1>1. Turns(s, log', finished') /\ Grows /\ finished \subseteq finished'
  BY DEF Grows
<1>2. slots' \in [Slots -> Slot] /\ SlotsOK'
  BY <1>1, SlotsStep
<1> QED
  BY <1>2, Written

\* A step that spawns the command of a logged call.
LEMMA SpawnStep ==
  ASSUME IInv, NEW s \in Slots, Turns(s, log, finished), RowsOK',
         NEW k, Owed(slots[s].mem, k), started' = started \cup {k},
         UNCHANGED <<log, session, transcript, finished>>
  PROVE  IInv'
<1>1. slots' \in [Slots -> Slot] /\ SlotsOK'
  <2>1. Turns(s, log', finished') /\ Grows /\ finished \subseteq finished'
    BY DEF Grows
  <2> QED
    BY <2>1, SlotsStep
<1>2. k \in Nat /\ k \in 1 .. Len(log) /\ log[k].type = "call"
  <2>1. Remembers(slots[s], log) /\ slots[s] \in Slot
    BY Parts DEF SlotsOK, SlotOK
  <2>2. Len(slots[s].mem) \in Nat /\ Len(log) \in Nat
    BY <2>1, SlotFields, Parts
  <2>3. k \in 1 .. Len(slots[s].mem) /\ slots[s].mem[k].type = "call"
    BY DEF Owed
  <2> QED
    BY <2>1, <2>2, <2>3 DEF Remembers
<1>3. CallsLogged'
  BY <1>2, Parts DEF CallsLogged
<1>4. LogOK(log, finished)' /\ MirrorOK'
  BY Parts DEF MirrorOK
<1>5. TypeOK'
  BY <1>1, <1>2, Parts DEF TypeOK, RowsOK
<1> QED
  BY <1>1, <1>3, <1>4, <1>5 DEF IInv, SlotsOK

-----------------------------------------------------------------------------
(* The control helpers.                                                     *)

LEMMA StruckType ==
  ASSUME RowsOK, NEW kind, Strikes(kind)
  PROVE  faults' \in Seq(FaultKinds) /\ Len(faults') <= MaxFaults
<1>1. /\ kind \in FaultKinds /\ Len(faults) < MaxFaults /\ faults' = Append(faults, kind)
      /\ faults \in Seq(FaultKinds)
  BY DEF Strikes, RowsOK
<1>2. faults' \in Seq(FaultKinds) /\ Len(faults') = Len(faults) + 1 /\ Len(faults) \in Nat
  BY <1>1
<1> QED
  BY <1>1, <1>2, HarnessAssumption DEF HarnessAssumption

LEMMA ReturnTurns ==
  ASSUME IInv, NEW s \in Slots, NEW o \in Outcome, Return(s, o)
  PROVE  Turns(s, log, finished)
<1>1. SlotOK(Done(slots[s], o), log, finished)
  BY Parts, DoneOK DEF SlotsOK
<1> QED
  BY <1>1 DEF Return, Turns

LEMMA IssueTurns ==
  ASSUME IInv, NEW s \in Slots, NEW e \in Event, e.type \in Terminal,
         e.by \in {0, slots[s].token}, Issue(s, e)
  PROVE  Turns(s, log, finished)
<1> DEFINE y == [slots[s] EXCEPT !.pc = "end", !.goal = e, !.end = Len(slots[s].mem) + 1]
<1>1. SlotOK(y, log, finished)
  BY Parts, IssueOK DEF SlotsOK
<1>2. slots' = [slots EXCEPT ![s] = y]
  BY Parts DEF Issue, NextSeq
<1> QED
  BY <1>1, <1>2 DEF Turns

LEMMA MapErrorTurns ==
  ASSUME IInv, NEW s \in Slots, NEW err \in {"CONFLICT", "HARNESS", "INTERNAL"}, MapError(s, err)
  PROVE  Turns(s, log, finished)
<1>1. slots[s].token \in Nat
  BY Parts, SlotFields
<1>2. ASSUME NEW class \in FailClass, TerminalFail(s, class)
      PROVE  Turns(s, log, finished)
  BY <1>1, <1>2, IssueTurns, EventTypes, EventsAre DEF TerminalFail, Terminal
<1> QED
  BY <1>2, ReturnTurns DEF MapError, Outcome, FailClass

LEMMA SameTurns ==
  ASSUME IInv, NEW s \in Slots, slots' = slots
  PROVE  Turns(s, log, finished)
<1>1. SlotOK(slots[s], log, finished) /\ slots' = [slots EXCEPT ![s] = slots[s]]
  BY Parts DEF SlotsOK
<1> QED
  BY <1>1 DEF Turns

LEMMA TurnsAppend ==
  ASSUME IInv, NEW s \in Slots, NEW e \in Event, Turns(s, log, finished)
  PROVE  Turns(s, Append(log, e), finished)
BY Parts, SlotOKAppend DEF Turns

LEMMA QuietTurns ==
  ASSUME IInv, NEW s \in Slots, NEW y \in Slot, slots' = [slots EXCEPT ![s] = y],
         y.mem = slots[s].mem, y.token = slots[s].token, y.chain = slots[s].chain,
         y.seq = slots[s].seq, y.execs \subseteq slots[s].execs, AtWork(y)
  PROVE  Turns(s, log, finished)
<1>1. SlotOK(slots[s], log, finished)
  BY Parts DEF SlotsOK
<1>2. SlotOK(y, log, finished)
  BY <1>1, QuietOK
<1> QED
  BY <1>2 DEF Turns

LEMMA QuietRestTurns ==
  ASSUME IInv, NEW s \in Slots, NEW y \in Slot, slots' = [slots EXCEPT ![s] = Rest(y)],
         y.mem = slots[s].mem, y.token = slots[s].token, y.chain = slots[s].chain,
         y.seq = slots[s].seq, y.execs \subseteq slots[s].execs, AtWork(y)
  PROVE  Turns(s, log, finished)
<1>1. SlotOK(slots[s], log, finished) /\ log \in Seq(Event)
  BY Parts DEF SlotsOK
<1>2. SlotOK(y, log, finished)
  BY <1>1, QuietOK
<1>3. SlotOK(Rest(y), log, finished)
  BY <1>1, <1>2, RestOK
<1> QED
  BY <1>3 DEF Turns

\* A step of one slot and of nothing else.
LEMMA StillStep ==
  ASSUME IInv, NEW s \in Slots, Turns(s, log, finished),
         UNCHANGED <<log, session, transcript, job, started, finished, faults, stray, spoken>>
  PROVE  IInv'
<1>1. RowsOK'
  BY Parts DEF RowsOK
<1> QED
  BY <1>1, QuietStep

\* A fault of one slot and of nothing else.
LEMMA StruckStep ==
  ASSUME IInv, NEW s \in Slots, Turns(s, log, finished), NEW kind, Strikes(kind),
         UNCHANGED <<log, session, transcript, job, started, finished, stray, spoken>>
  PROVE  IInv'
<1>1. RowsOK /\ faults' \in Seq(FaultKinds) /\ Len(faults') <= MaxFaults
  BY Parts, StruckType
<1>2. RowsOK'
  BY <1>1 DEF RowsOK
<1> QED
  BY <1>2, QuietStep

-----------------------------------------------------------------------------
(* The steps of the queue row.                                              *)

LEMMA SendMessageStep == IInv /\ SendMessage => IInv'
<1> SUFFICES ASSUME IInv, SendMessage PROVE IInv'
  OBVIOUS
<1>1. UserMessage \in Event /\ log' = Append(log, UserMessage)
  BY EventTypes DEF SendMessage
<1>2. LogOK(log', finished)
  BY <1>1, Parts, LogAppend, EventsAre
<1>3. slots' \in [Slots -> Slot] /\ SlotsOK'
  <2>1. \A s \in Slots : SlotOK(slots[s], log', finished)
    BY <1>1, Parts, SlotOKAppend DEF SlotsOK
  <2> QED
    BY <2>1, Parts DEF SendMessage, SlotsOK
<1>4. RowsOK'
  BY Parts DEF RowsOK, SendMessage
<1>5. session' = session /\ session \in [fence : Nat, state : Nat]
  BY Parts DEF SendMessage
<1>6. UNCHANGED <<transcript, started, finished>>
  BY DEF SendMessage
<1> QED
  BY <1>1, <1>2, <1>3, <1>4, <1>5, <1>6, Written

\* A step of the queue row, of the faults and of the commands' exits.
LEMMA AsideStep ==
  ASSUME IInv, RowsOK', finished \subseteq finished', finished' \subseteq started,
         UNCHANGED <<log, session, transcript, slots, started>>
  PROVE  IInv'
<1>1. SlotsOK'
  BY Parts, SlotOKFinish DEF SlotsOK
<1>2. LogOK(log', finished')
  BY Parts DEF LogOK
<1>3. CallsLogged' /\ MirrorOK'
  BY Parts DEF CallsLogged, MirrorOK
<1>4. TypeOK'
  BY Parts DEF TypeOK, RowsOK
<1> QED
  BY <1>1, <1>2, <1>3, <1>4 DEF IInv, SlotsOK

LEMMA ExpireLeaseStep == IInv /\ ExpireLease => IInv'
<1> SUFFICES ASSUME IInv, ExpireLease PROVE IInv'
  OBVIOUS
<1>1. RowsOK'
  BY Parts DEF RowsOK, ExpireLease
<1> QED
  BY <1>1, Parts, AsideStep DEF ExpireLease

LEMMA StallStep == \A s \in Slots : IInv /\ Stall(s) => IInv'
<1> SUFFICES ASSUME NEW s \in Slots, IInv, Stall(s) PROVE IInv'
  OBVIOUS
<1>1. RowsOK /\ faults' \in Seq(FaultKinds) /\ Len(faults') <= MaxFaults
  BY Parts, StruckType DEF Stall
<1>2. RowsOK'
  BY <1>1 DEF RowsOK, Stall
<1> QED
  BY <1>2, Parts, AsideStep DEF Stall

LEMMA CommandExitsStep == IInv /\ CommandExits => IInv'
<1> SUFFICES ASSUME IInv, CommandExits PROVE IInv'
  OBVIOUS
<1>1. RowsOK'
  BY Parts DEF RowsOK, CommandExits
<1>2. finished \subseteq finished' /\ finished' \subseteq started
  BY Parts DEF CommandExits
<1> QED
  BY <1>1, <1>2, AsideStep DEF CommandExits

LEMMA CrashStep == \A s \in Slots : IInv /\ Crash(s) => IInv'
<1> SUFFICES ASSUME NEW s \in Slots, IInv, Crash(s) PROVE IInv'
  OBVIOUS
<1>1. Turns(s, log, finished)
  BY Parts, IdleOK DEF Crash, Turns
<1> QED
  BY <1>1, StruckStep DEF Crash

LEMMA PullStep == \A s \in Slots : IInv /\ Pull(s) => IInv'
<1> SUFFICES ASSUME NEW s \in Slots, IInv, Pull(s) PROVE IInv'
  OBVIOUS
<1> DEFINE b == (job.attempts + 1 >= MaxAttempts)
           y == [Idle EXCEPT !.pc = "read", !.job = job.id, !.last = b]
<1>1. b \in BOOLEAN /\ slots' = [slots EXCEPT ![s] = y]
  BY DEF Pull
<1>2. /\ Idle.mem = <<>> /\ Idle.chain = <<>> /\ Idle.execs = {} /\ Idle.token = 0
  BY DEF Idle
<1> HIDE DEF b
<1>3. job.id \in Nat
  BY Parts DEF RowsOK
<1>4. /\ y \in Slot /\ y.pc = "read" /\ y.mem = Idle.mem /\ y.token = Idle.token
      /\ y.chain = Idle.chain /\ y.seq = Idle.seq /\ y.execs = Idle.execs
  BY <1>1, <1>3, IdleType DEF Slot, Pc
<1> HIDE DEF y
<1>5. AtWork(y)
  BY <1>2, <1>4 DEF AtWork
<1>6. SlotOK(y, log, finished)
  BY <1>4, <1>5, IdleOK, QuietOK, Parts
<1>7. Turns(s, log, finished)
  BY <1>1, <1>6 DEF Turns
<1>8. RowsOK'
  <2> DEFINE T == [id : Nat, state : {"none", "queued", "running", "dead"},
                   attempts : Nat, lease : BOOLEAN]
  <2>1. job \in T
    BY Parts DEF RowsOK
  <2> DEFINE n == job.attempts + 1
  <2>2. n \in Nat
    BY <2>1
  <2>3. job' = [job EXCEPT !.state = "running", !.lease = TRUE, !.attempts = n]
    BY DEF Pull
  <2> HIDE DEF n
  <2>4. job' \in T
    BY <2>1, <2>2, <2>3
  <2> QED
    BY <2>4, Parts DEF RowsOK, Pull
<1> QED
  BY <1>7, <1>8, QuietStep DEF Pull

LEMMA SettleStep == \A s \in Slots : IInv /\ Settle(s) => IInv'
<1> SUFFICES ASSUME NEW s \in Slots, IInv, Settle(s) PROVE IInv'
  OBVIOUS
<1> DEFINE x == slots[s]
           y == [x EXCEPT !.pc = "idle"]
<1>1. x \in Slot
  BY Parts
<1> HIDE DEF x
<1>2. /\ y \in Slot /\ y.pc = "idle" /\ y.mem = x.mem /\ y.token = x.token
      /\ y.chain = x.chain /\ y.seq = x.seq /\ y.execs = x.execs
  BY <1>1 DEF Slot, Pc
<1>3. slots' = [slots EXCEPT ![s] = Rest(y)]
  BY DEF Settle, x
<1> HIDE DEF y
<1>4. AtWork(y)
  BY <1>2 DEF AtWork
<1>5. Turns(s, log, finished)
  BY <1>2, <1>3, <1>4, QuietRestTurns DEF x
<1>6. job' \in [id : Nat, state : {"none", "queued", "running", "dead"},
                attempts : Nat, lease : BOOLEAN]
  BY Parts DEF RowsOK, Settle
<1>7. RowsOK'
  BY <1>6, Parts DEF RowsOK, Settle
<1> QED
  BY <1>5, <1>7, QuietStep DEF Settle

-----------------------------------------------------------------------------
(* The steps of the turn.                                                   *)

LEMMA ReadStep == \A s \in Slots : IInv /\ Read(s) => IInv'
<1> SUFFICES ASSUME NEW s \in Slots, IInv, Read(s) PROVE IInv'
  OBVIOUS
<1> DEFINE x == slots[s]
<1>1. x \in Slot /\ SlotOK(x, log, finished) /\ log \in Seq(Event) /\ x.pc = "read"
  BY Parts DEF Read, SlotsOK
<1>2. x.token = 0 /\ x.chain = <<>> /\ x.execs = {}
  BY <1>1 DEF SlotOK, AtWork
<1>3. ASSUME NEW y \in Slot, slots' = [slots EXCEPT ![s] = y], y.mem = log,
             y.token = x.token, y.chain = x.chain, y.execs = x.execs, AtWork(y)
      PROVE  Turns(s, log, finished)
  <2>1. Len(log) \in Nat /\ Results(<<>>) = {} /\ Len(<<>>) = 0
    BY <1>1 DEF Results
  <2>2. Remembers(y, log) /\ Fenced(y)
    BY <1>2, <1>3, <2>1 DEF Remembers, Fenced
  <2>3. Chained(y, finished)
    BY <1>2, <1>3, <2>1 DEF Chained
  <2> QED
    BY <1>3, <2>2, <2>3 DEF SlotOK, Turns
<1>4. ASSUME Return(s, "completed")
      PROVE  Turns(s, log, finished)
  BY <1>4, ReturnTurns DEF Outcome
<1>5. ASSUME slots' = [slots EXCEPT ![s].pc = "fence", ![s].mem = log]
      PROVE  Turns(s, log, finished)
  <2> DEFINE y == [x EXCEPT !.pc = "fence", !.mem = log]
  <2>1. slots' = [slots EXCEPT ![s] = y]
    BY <1>5, Parts
  <2> HIDE DEF x
  <2>2. /\ y \in Slot /\ y.pc = "fence" /\ y.mem = log /\ y.token = x.token
        /\ y.chain = x.chain /\ y.execs = x.execs
    BY <1>1 DEF Slot, Pc
  <2> HIDE DEF y
  <2>3. AtWork(y)
    BY <1>2, <2>2 DEF AtWork
  <2> QED
    BY <1>3, <2>1, <2>2, <2>3
<1>6. ASSUME slots' = [slots EXCEPT ![s].pc = "end", ![s].mem = log,
                                    ![s].goal = Failed("HARNESS", 0), ![s].end = Len(log) + 1]
      PROVE  Turns(s, log, finished)
  <2> DEFINE e == Failed("HARNESS", 0)
             q == Len(log) + 1
             y == [x EXCEPT !.pc = "end", !.mem = log, !.goal = e, !.end = q]
  <2>1. slots' = [slots EXCEPT ![s] = y]
    BY <1>6, Parts
  <2>2. e \in Event /\ e.type \in Terminal /\ e.by = 0
    BY EventTypes, EventsAre DEF FailClass, Terminal
  <2>3. q \in Nat /\ q <= Len(log) + 1
    BY <1>1
  <2> HIDE DEF x, e, q
  <2>4. /\ y \in Slot /\ y.pc = "end" /\ y.mem = log /\ y.token = x.token
        /\ y.chain = x.chain /\ y.execs = x.execs /\ y.goal = e /\ y.end = q
    BY <1>1, <2>2, <2>3 DEF Slot, Pc
  <2> HIDE DEF y
  <2>5. AtWork(y)
    BY <1>2, <2>2, <2>3, <2>4 DEF AtWork
  <2> QED
    BY <1>3, <2>1, <2>4, <2>5
<1>7. Turns(s, log, finished)
  BY <1>4, <1>5, <1>6 DEF Read
<1> QED
  BY <1>7, StillStep DEF Read

\* A new attempt is the last one to have started.
LEMMA FenceLogs ==
  ASSUME IInv, NEW s \in Slots, slots[s].pc = "fence", ~Taken(NextSeq(s))
  PROVE  /\ Started(NextSeq(s)) \in Event /\ NextSeq(s) = Len(log) + 1
         /\ LogOK(Append(log, Started(NextSeq(s))), finished)
         /\ Len(log) = Len(slots[s].mem)
         /\ \A i \in 1 .. Len(log) : slots[s].mem[i] = log[i]
<1> DEFINE x == slots[s]
           n == Len(x.mem)
           e == Started(n + 1)
           m == Append(log, e)
<1>1. /\ SlotOK(x, log, finished) /\ log \in Seq(Event) /\ n \in Nat
      /\ NextSeq(s) = n + 1 /\ ~(Len(log) >= n + 1)
  BY Parts, SlotFields DEF SlotsOK, NextSeq, Taken
<1>2. Len(log) = n /\ \A i \in 1 .. Len(log) : x.mem[i] = log[i]
  <2>1. n + 1 \in Nat /\ n + 1 <= n + 1
    BY <1>1
  <2> QED
    BY <1>1, <2>1, Whole
<1>3. e \in Event /\ e.type = "harness_attempt_started" /\ e.by = n + 1
  BY <1>1, EventTypes, EventsAre
<1>4. Len(m) = n + 1 /\ m[n + 1] = e
  BY <1>1, <1>2, <1>3, Appends
<1> HIDE DEF e, m, n
<1>5. Reigns(m, n + 1, n + 1)
  BY <1>1, <1>3, <1>4 DEF Reigns
<1>6. LogOK(m, finished)
  BY <1>2, <1>3, <1>5, Parts, LogAppend DEF m
<1> QED
  BY <1>1, <1>2, <1>3, <1>6 DEF e, m, n

LEMMA FenceStep == \A s \in Slots : IInv /\ Fence(s) => IInv'
<1> SUFFICES ASSUME NEW s \in Slots, IInv, Fence(s) PROVE IInv'
  OBVIOUS
<1>1. CASE Taken(NextSeq(s))
  <2>1. Return(s, "conflict")
    BY <1>1 DEF Fence
  <2>2. Turns(s, log, finished)
    BY <2>1, ReturnTurns DEF Outcome
  <2> QED
    BY <1>1, <2>2, StillStep DEF Fence
<1>2. CASE ~Taken(NextSeq(s))
  <2> DEFINE x == slots[s]
             q == NextSeq(s)
             e == Started(q)
             a == Append(x.mem, e)
             y == [x EXCEPT !.pc = "recover", !.token = q, !.mem = a]
  <2>1. /\ e \in Event /\ q = Len(log) + 1 /\ LogOK(Append(log, e), finished)
        /\ Len(log) = Len(x.mem) /\ \A i \in 1 .. Len(log) : x.mem[i] = log[i]
    BY <1>2, FenceLogs DEF Fence
  <2>2. slots' = [slots EXCEPT ![s] = y] /\ log' = Append(log, e) /\ session' = [session EXCEPT !.fence = q]
    BY <1>2, Parts DEF Fence, FenceWrites, Push
  <2>3. /\ SlotOK(x, log, finished) /\ x \in Slot /\ x.mem \in Seq(Event) /\ Len(log) \in Nat
        /\ x.pc = "fence" /\ x.chain = <<>> /\ x.execs = {}
    BY Parts, SlotFields DEF SlotsOK, SlotOK, AtWork, Fence
  <2>4. a \in Seq(Event) /\ q \in Nat
    BY <2>1, <2>3, Appends
  <2>5. e.type = "harness_attempt_started" /\ e.by = q
    BY EventsAre
  <2> HIDE DEF x, q, e, a
  <2>6. /\ y \in Slot /\ y.pc = "recover" /\ y.token = q /\ y.mem = a
        /\ y.chain = x.chain /\ y.execs = x.execs
    BY <2>3, <2>4 DEF Slot, Pc
  <2> HIDE DEF y
  <2>7. AtWork(y)
    BY <2>3, <2>6 DEF AtWork
  <2>8. y.chain = <<>> /\ y.execs = {}
    BY <2>3, <2>6
  <2>9. SlotOK(y, Append(log, e), finished)
    <3>1. y.mem = Append(x.mem, e) /\ y.token = Len(x.mem) + 1
      BY <2>1, <2>6 DEF a
    <3> QED
      BY <2>1, <2>3, <2>5, <2>6, <2>7, <2>8, <3>1, Parts, GrowAloneOK
  <2>10. Turns(s, log', finished)
    BY <2>2, <2>9 DEF Turns
  <2>11. RowsOK'
    BY Parts DEF RowsOK, Fence
  <2>12. session' \in [fence : Nat, state : Nat] /\ session'.fence = Len(log) + 1
    BY <2>1, <2>2, <2>4, Parts
  <2> QED
    BY <2>1, <2>2, <2>10, <2>11, <2>12, WriteStep DEF Fence
<1> QED
  BY <1>1, <1>2

LEMMA FenceThrowsStep == \A s \in Slots : IInv /\ FenceThrows(s) => IInv'
<1> SUFFICES ASSUME NEW s \in Slots, IInv, FenceThrows(s) PROVE IInv'
  OBVIOUS
<1>1. Turns(s, log, finished) /\ Strikes("db")
  BY ReturnTurns DEF FenceThrows, Outcome
<1>2. CASE UNCHANGED <<log, session>>
  BY <1>1, <1>2, StruckStep DEF FenceThrows
<1>3. CASE ~Taken(NextSeq(s)) /\ FenceWrites(s)
  <2> DEFINE e == Started(NextSeq(s))
  <2>1. e \in Event /\ NextSeq(s) = Len(log) + 1 /\ LogOK(Append(log, e), finished)
    BY <1>3, FenceLogs DEF FenceThrows
  <2>2. log' = Append(log, e) /\ session' = [session EXCEPT !.fence = NextSeq(s)]
    BY <1>3 DEF FenceWrites
  <2> HIDE DEF e
  <2>3. Turns(s, log', finished)
    BY <1>1, <2>1, <2>2, TurnsAppend
  <2>4. faults' \in Seq(FaultKinds) /\ Len(faults') <= MaxFaults
    BY <1>1, Parts, StruckType
  <2>5. RowsOK'
    BY <2>4, Parts DEF RowsOK, FenceThrows
  <2>6. session' \in [fence : Nat, state : Nat] /\ session'.fence = Len(log) + 1
    BY <2>1, <2>2, Parts
  <2> QED
    BY <2>1, <2>2, <2>3, <2>5, <2>6, WriteStep DEF FenceThrows
<1> QED
  BY <1>2, <1>3 DEF FenceThrows

LEMMA RecoverStep == \A s \in Slots : IInv /\ Recover(s) => IInv'
<1> SUFFICES ASSUME NEW s \in Slots, IInv, Recover(s) PROVE IInv'
  OBVIOUS
<1> DEFINE x == slots[s]
<1>1. PICK k \in Unanswered(x.mem) :
        started' = started \cup {k} /\ slots' = [slots EXCEPT ![s].pc = "attach", ![s].key = k]
  BY DEF Recover
<1>2. x \in Slot /\ x.mem \in Seq(Event) /\ x.pc = "recover" /\ SlotOK(x, log, finished)
  BY Parts, SlotFields DEF SlotsOK, Recover
<1>3. x.chain = <<>> /\ x.execs = {}
  BY <1>2 DEF SlotOK, AtWork
<1>4. Owed(x.mem, k) /\ k \in Nat
  <2>1. DOMAIN x.mem = 1 .. Len(x.mem)
    BY <1>2
  <2> QED
    BY <2>1 DEF Unanswered, Owed, HasResult
<1> DEFINE y == [x EXCEPT !.pc = "attach", !.key = k]
<1>5. slots' = [slots EXCEPT ![s] = y]
  BY <1>1, Parts
<1> HIDE DEF x
<1>6. /\ y \in Slot /\ y.pc = "attach" /\ y.key = k /\ y.mem = x.mem /\ y.token = x.token
      /\ y.chain = x.chain /\ y.seq = x.seq /\ y.execs = x.execs
  BY <1>2, <1>4 DEF Slot, Pc
<1> HIDE DEF y
<1>7. AtWork(y)
  BY <1>3, <1>4, <1>6 DEF AtWork
<1>8. Turns(s, log, finished)
  BY <1>5, <1>6, <1>7, QuietTurns DEF x
<1>9. RowsOK'
  BY Parts DEF RowsOK, Recover
<1> QED
  BY <1>1, <1>4, <1>8, <1>9, SpawnStep DEF Recover, x

LEMMA RecordRecoveredStep == \A s \in Slots : IInv /\ RecordRecovered(s) => IInv'
<1> SUFFICES ASSUME NEW s \in Slots, IInv, RecordRecovered(s) PROVE IInv'
  OBVIOUS
<1> DEFINE x == slots[s]
           e == ToolResult(x.key, x.token)
<1>1. CASE Taken(NextSeq(s))
  <2>1. Return(s, "conflict")
    BY <1>1 DEF RecordRecovered
  <2>2. Turns(s, log, finished)
    BY <2>1, ReturnTurns DEF Outcome
  <2> QED
    BY <1>1, <2>2, StillStep DEF RecordRecovered
<1>2. CASE ~Taken(NextSeq(s))
  <2> DEFINE a == Append(x.mem, e)
             told == x.told \cup {x.key}
             y == [x EXCEPT !.pc = "recover", !.mem = a, !.told = told]
  <2>1. /\ SlotOK(x, log, finished) /\ x \in Slot /\ x.pc = "attach" /\ x.key \in finished
        /\ x.mem \in Seq(Event) /\ Len(x.mem) \in Nat /\ x.key \in Nat /\ x.token \in Nat
        /\ x.told \subseteq Nat
    BY Parts, SlotFields DEF SlotsOK, RecordRecovered
  <2>2. x.chain = <<>> /\ x.execs = {} /\ Owed(x.mem, x.key)
    BY <2>1 DEF SlotOK, AtWork
  <2>3. /\ e \in Event /\ e.type = "tool_result" /\ e.by = x.token /\ e.key = x.key
    BY <2>1, EventTypes, EventsAre
  <2>4. slots' = [slots EXCEPT ![s] = y] /\ log' = Append(log, e)
    BY <1>2, Parts DEF RecordRecovered, Push
  <2>5. Len(x.mem) + 1 \in Nat /\ ~(Len(log) >= Len(x.mem) + 1)
    BY <1>2, <2>1 DEF Taken, NextSeq
  <2>6. a \in Seq(Event) /\ told \subseteq Nat
    BY <2>1, <2>3, Appends
  <2> HIDE DEF x, e, a, told
  <2>7. /\ LogOK(Append(log, e), finished)
        /\ Len(log) = Len(x.mem) /\ \A i \in 1 .. Len(log) : x.mem[i] = log[i]
    <3>1. e.type \notin Starts /\ e.by \in {0, x.token} /\ e.key \in finished /\ Owed(x.mem, e.key)
      BY <2>1, <2>2, <2>3 DEF Starts
    <3>2. Len(x.mem) + 1 <= Len(x.mem) + 1
      BY <2>1
    <3> QED
      BY <2>1, <2>3, <2>5, <3>1, <3>2, Parts, OwnAppend
  <2>8. /\ y \in Slot /\ y.pc = "recover" /\ y.token = x.token /\ y.mem = a
        /\ y.chain = x.chain /\ y.execs = x.execs
    BY <2>1, <2>6 DEF Slot, Pc
  <2> HIDE DEF y
  <2>9. AtWork(y)
    BY <2>2, <2>8 DEF AtWork
  <2>10. y.chain = <<>> /\ y.execs = {}
    BY <2>2, <2>8
  <2>11. SlotOK(y, Append(log, e), finished)
    <3>1. y.mem = Append(x.mem, e) /\ e.type \notin Starts
      BY <2>3, <2>8 DEF a, Starts
    <3> QED
      BY <2>1, <2>3, <2>7, <2>8, <2>9, <2>10, <3>1, Parts, GrowAloneOK
  <2>12. Turns(s, log', finished)
    BY <2>4, <2>11 DEF Turns
  <2>13. RowsOK'
    BY Parts DEF RowsOK, RecordRecovered
  <2>14. session' = session /\ session \in [fence : Nat, state : Nat]
    BY Parts DEF RecordRecovered
  <2> QED
    BY <2>3, <2>4, <2>7, <2>12, <2>13, <2>14, WriteStep DEF RecordRecovered
<1> QED
  BY <1>1, <1>2

LEMMA RecoveryThrowsStep == \A s \in Slots : IInv /\ RecoveryThrows(s) => IInv'
<1> SUFFICES ASSUME NEW s \in Slots, IInv, RecoveryThrows(s) PROVE IInv'
  OBVIOUS
<1> DEFINE x == slots[s]
           e == ToolResult(x.key, x.token)
<1>1. Turns(s, log, finished) /\ Strikes("db")
  BY MapErrorTurns DEF RecoveryThrows
<1>2. CASE UNCHANGED log
  BY <1>1, <1>2, StruckStep DEF RecoveryThrows
<1>3. CASE ~Taken(NextSeq(s)) /\ log' = Append(log, e)
  <2>1. /\ SlotOK(x, log, finished) /\ x.pc = "attach" /\ x.key \in finished
        /\ x.mem \in Seq(Event) /\ Len(x.mem) \in Nat /\ x.key \in Nat /\ x.token \in Nat
    BY Parts, SlotFields DEF SlotsOK, RecoveryThrows
  <2>2. Owed(x.mem, x.key)
    BY <2>1 DEF SlotOK, AtWork
  <2>3. /\ e \in Event /\ e.type = "tool_result" /\ e.by = x.token /\ e.key = x.key
    BY <2>1, EventTypes, EventsAre
  <2>4. log' = Append(log, e) /\ ~(Len(log) >= Len(x.mem) + 1)
    BY <1>3 DEF Taken, NextSeq
  <2>5. faults' \in Seq(FaultKinds) /\ Len(faults') <= MaxFaults
    BY <1>1, Parts, StruckType
  <2>6. RowsOK'
    BY <2>5, Parts DEF RowsOK, RecoveryThrows
  <2>7. session' = session /\ session \in [fence : Nat, state : Nat]
    BY Parts DEF RecoveryThrows
  <2> HIDE DEF x, e
  <2>8. LogOK(Append(log, e), finished)
    <3>1. e.type \notin Starts /\ e.by \in {0, x.token} /\ e.key \in finished /\ Owed(x.mem, e.key)
      BY <2>1, <2>2, <2>3 DEF Starts
    <3>2. Len(x.mem) + 1 \in Nat /\ Len(x.mem) + 1 <= Len(x.mem) + 1
      BY <2>1
    <3> QED
      BY <2>1, <2>3, <2>4, <3>1, <3>2, Parts, OwnAppend
  <2>9. Turns(s, log', finished)
    BY <1>1, <2>3, <2>4, TurnsAppend
  <2> QED
    BY <2>3, <2>4, <2>6, <2>7, <2>8, <2>9, WriteStep DEF RecoveryThrows
<1> QED
  BY <1>2, <1>3 DEF RecoveryThrows

LEMMA RecoveryFailsStep == \A s \in Slots : IInv /\ RecoveryFails(s) => IInv'
BY MapErrorTurns, StillStep DEF RecoveryFails

LEMMA DriveStep == \A s \in Slots : IInv /\ Drive(s) => IInv'
<1> SUFFICES ASSUME NEW s \in Slots, IInv, Drive(s) PROVE IInv'
  OBVIOUS
<1> DEFINE x == slots[s]
           y == [x EXCEPT !.pc = "drive", !.local = 1]
<1>1. x \in Slot /\ slots' = [slots EXCEPT ![s] = y]
  BY Parts DEF Drive
<1> HIDE DEF x
<1>2. /\ y \in Slot /\ y.pc = "drive" /\ y.mem = x.mem /\ y.token = x.token
      /\ y.chain = x.chain /\ y.seq = x.seq /\ y.execs = x.execs
  BY <1>1 DEF Slot, Pc
<1> HIDE DEF y
<1>3. AtWork(y)
  BY <1>2 DEF AtWork
<1>4. Turns(s, log, finished)
  BY <1>1, <1>2, <1>3, QuietTurns DEF x
<1> QED
  BY <1>4, StillStep DEF Drive

LEMMA ThrowStep == \A s \in Slots : IInv /\ Throw(s) => IInv'
<1> SUFFICES ASSUME NEW s \in Slots, IInv, Throw(s) PROVE IInv'
  OBVIOUS
<1>1. slots[s].fatal \in {"CONFLICT", "HARNESS", "INTERNAL"}
  BY Parts, SlotFields DEF Throw, Fatal
<1>2. Turns(s, log, finished)
  BY <1>1, MapErrorTurns DEF Throw
<1> QED
  BY <1>2, StillStep DEF Throw

LEMMA StreamEndsStep == \A s \in Slots : IInv /\ StreamEnds(s) => IInv'
<1> SUFFICES ASSUME NEW s \in Slots, IInv, StreamEnds(s) PROVE IInv'
  OBVIOUS
<1> DEFINE e == slots[s].goal
<1>1. slots[s].pc = "ended" /\ SlotOK(slots[s], log, finished) /\ Issue(s, e)
  BY Parts DEF StreamEnds, SlotsOK
<1>2. e \in Event /\ e.type \in Terminal /\ e.by \in {0, slots[s].token}
  BY <1>1, SlotFields DEF SlotOK, AtWork
<1>3. Turns(s, log, finished)
  BY <1>1, <1>2, IssueTurns
<1> QED
  BY <1>3, StillStep DEF StreamEnds

\* The terminal event takes effect.
LEMMA EndLogs ==
  ASSUME IInv, NEW s \in Slots, slots[s].pc = "end", ~Taken(slots[s].end), EndWrites(s)
  PROVE  /\ slots[s].goal \in Event /\ log' = Append(log, slots[s].goal)
         /\ LogOK(Append(log, slots[s].goal), finished)
         /\ slots[s].goal.type \in Terminal
         /\ Len(log) = Len(slots[s].mem)
         /\ \A i \in 1 .. Len(log) : slots[s].mem[i] = log[i]
         /\ session' \in [fence : Nat, state : Nat] /\ session'.fence = session.fence
<1> DEFINE x == slots[s]
           e == x.goal
<1>1. /\ SlotOK(x, log, finished) /\ x.pc = "end" /\ x.end \in Nat /\ e \in Event
      /\ x.token \in Nat /\ ~(Len(log) >= x.end)
  BY Parts, SlotFields DEF SlotsOK, Taken
<1>2. x.end <= Len(x.mem) + 1 /\ e.type \in Terminal /\ e.by \in {0, x.token}
  BY <1>1 DEF SlotOK, AtWork
<1>3. e.type \notin Starts /\ e.type # "tool_result"
  BY <1>2 DEF Starts, Terminal
<1>4. session' \in [fence : Nat, state : Nat] /\ session'.fence = session.fence
  BY <1>1, Parts DEF EndWrites
<1>5. log' = Append(log, e)
  BY DEF EndWrites
<1> HIDE DEF x, e
<1>6. /\ LogOK(Append(log, e), finished)
      /\ Len(log) = Len(x.mem) /\ \A i \in 1 .. Len(log) : x.mem[i] = log[i]
  BY <1>1, <1>2, <1>3, Parts, OwnAppend
<1> QED
  BY <1>1, <1>2, <1>4, <1>5, <1>6 DEF x, e

LEMMA EndStep == \A s \in Slots : IInv /\ End(s) => IInv'
<1> SUFFICES ASSUME NEW s \in Slots, IInv, End(s) PROVE IInv'
  OBVIOUS
<1>1. CASE Taken(slots[s].end)
  <2>1. Return(s, "conflict")
    BY <1>1 DEF End
  <2>2. Turns(s, log, finished)
    BY <2>1, ReturnTurns DEF Outcome
  <2> QED
    BY <1>1, <2>2, StillStep DEF End
<1>2. CASE ~Taken(slots[s].end)
  <2> DEFINE x == slots[s]
             e == x.goal
             a == Append(x.mem, e)
             y == [x EXCEPT !.mem = a]
             o == IF e.type = "turn_completed" THEN "completed" ELSE "failed"
  <2>1. EndWrites(s) /\ x.pc = "end" /\ slots' = [slots EXCEPT ![s] = Done(y, o)]
    BY <1>2 DEF End, Push
  <2>2. /\ e \in Event /\ log' = Append(log, e) /\ LogOK(Append(log, e), finished)
        /\ e.type \in Terminal
        /\ Len(log) = Len(x.mem) /\ \A i \in 1 .. Len(log) : x.mem[i] = log[i]
        /\ session' \in [fence : Nat, state : Nat] /\ session'.fence = session.fence
    BY <1>2, <2>1, EndLogs
  <2>3. /\ SlotOK(x, log, finished) /\ x \in Slot /\ x.mem \in Seq(Event) /\ Len(x.mem) \in Nat
        /\ x.seq \in Nat /\ x.end \in Nat
    BY Parts, SlotFields DEF SlotsOK
  <2>4. a \in Seq(Event) /\ Len(a) = Len(x.mem) + 1 /\ o \in Outcome
    BY <2>2, <2>3, Appends DEF Outcome
  <2>5. log \in Seq(Event) /\ Append(log, e) \in Seq(Event)
    BY <2>2, Parts, Appends
  <2> HIDE DEF x, e, a, o
  <2>6. /\ y \in Slot /\ y.pc = x.pc /\ y.token = x.token /\ y.mem = a /\ y.seq = x.seq
        /\ y.chain = x.chain /\ y.execs = x.execs /\ y.goal = x.goal /\ y.end = x.end
    BY <2>3, <2>4 DEF Slot
  <2> HIDE DEF y
  <2>7. x.end <= Len(x.mem) + 2
    BY <2>1, <2>3 DEF SlotOK, AtWork
  <2>8. AtWork(y)
    BY <2>1, <2>3, <2>4, <2>6, <2>7 DEF SlotOK, AtWork
  <2>9. /\ y.chain # <<>> => y.seq <= Len(x.mem) + 2
        /\ \A i \in 1 .. Len(y.chain) :
             y.chain[i].by = y.token /\ y.chain[i].type \in {"text", "call", "tool_result"}
        /\ \A i \in Results(y.chain) :
             /\ y.chain[i].key \in finished /\ Owed(x.mem, y.chain[i].key)
             /\ y.chain[i].key \notin y.execs
             /\ \A j \in Results(y.chain) : y.chain[i].key = y.chain[j].key => i = j
        /\ \A k \in y.execs : Owed(x.mem, k)
    BY <2>3, <2>6 DEF SlotOK, Chained
  <2>10. e.type \notin Starts /\ e.type # "tool_result"
    BY <2>2 DEF Starts, Terminal
  <2>11. SlotOK(y, Append(log, e), finished)
    <3>1. y.mem = Append(x.mem, e)
      BY <2>6 DEF a
    <3> QED
      BY <2>2, <2>3, <2>6, <2>8, <2>9, <2>10, <3>1, Parts, GrowOK
  <2>12. SlotOK(Done(y, o), Append(log, e), finished)
    BY <2>4, <2>5, <2>11, DoneOK
  <2>13. Turns(s, log', finished)
    BY <2>1, <2>2, <2>12 DEF Turns
  <2>14. RowsOK'
    BY Parts DEF RowsOK, End
  <2> QED
    BY <2>2, <2>13, <2>14, WriteStep DEF End
<1> QED
  BY <1>1, <1>2

LEMMA EndThrowsStep == \A s \in Slots : IInv /\ EndThrows(s) => IInv'
<1> SUFFICES ASSUME NEW s \in Slots, IInv, EndThrows(s) PROVE IInv'
  OBVIOUS
<1>1. Turns(s, log, finished) /\ Strikes("db")
  BY ReturnTurns, MapErrorTurns DEF EndThrows, Outcome
<1>2. CASE UNCHANGED <<log, session>>
  BY <1>1, <1>2, StruckStep DEF EndThrows
<1>3. CASE ~Taken(slots[s].end) /\ EndWrites(s)
  <2> DEFINE e == slots[s].goal
  <2>1. /\ e \in Event /\ log' = Append(log, e) /\ LogOK(Append(log, e), finished)
        /\ session' \in [fence : Nat, state : Nat] /\ session'.fence = session.fence
    BY <1>3, EndLogs DEF EndThrows
  <2> HIDE DEF e
  <2>2. Turns(s, log', finished)
    BY <1>1, <2>1, TurnsAppend
  <2>3. faults' \in Seq(FaultKinds) /\ Len(faults') <= MaxFaults
    BY <1>1, Parts, StruckType
  <2>4. RowsOK'
    BY <2>3, Parts DEF RowsOK, EndThrows
  <2> QED
    BY <2>1, <2>2, <2>4, WriteStep DEF EndThrows
<1> QED
  BY <1>2, <1>3 DEF EndThrows

-----------------------------------------------------------------------------
(* The steps of the driver and of the mirror.                               *)

LEMMA SayStep == \A s \in Slots : IInv /\ Say(s) => IInv'
<1> SUFFICES ASSUME NEW s \in Slots, IInv, Say(s) PROVE IInv'
  OBVIOUS
<1> DEFINE x == slots[s]
<1>1. PICK type \in {"text", "call"} : Chain(s, Bare(type, x.token))
  BY DEF Say
<1> DEFINE e == Bare(type, x.token)
           c == Append(x.chain, e)
           q == IF x.chain = <<>> THEN Len(x.mem) + 1 ELSE x.seq
           n == x.local + 1
           y == [x EXCEPT !.chain = c, !.seq = q, !.local = n]
<1>2. /\ x \in Slot /\ SlotOK(x, log, finished) /\ x.pc = "drive" /\ x.token \in Nat
      /\ x.chain \in Seq(Event) /\ x.local \in Nat /\ x.seq \in Nat /\ Len(x.mem) \in Nat
  BY Parts, SlotFields DEF SlotsOK, Say, Speaking
<1>3. e \in Event /\ e.by = x.token /\ e.type \in {"text", "call"}
  BY <1>2, EventTypes, EventsAre
<1>4. c \in Seq(Event) /\ q \in Nat /\ n \in Nat
  BY <1>2, <1>3, Appends
<1>5. slots' = [slots EXCEPT ![s] = y]
  BY <1>1, Parts DEF Chain, NextSeq
<1>6. /\ c = Append(x.chain, e) /\ q = IF x.chain = <<>> THEN Len(x.mem) + 1 ELSE x.seq
  OBVIOUS
<1> HIDE DEF x, e, c, q, n
<1>7. /\ y \in Slot /\ y.pc = "drive" /\ y.mem = x.mem /\ y.token = x.token
      /\ y.chain = c /\ y.seq = q /\ y.execs = x.execs
  BY <1>2, <1>4 DEF Slot
<1> HIDE DEF y
<1>8. AtWork(y)
  BY <1>7 DEF AtWork
<1>9. SlotOK(y, log, finished)
  BY <1>2, <1>3, <1>6, <1>7, <1>8, ChainGrows
<1>10. Turns(s, log, finished)
  BY <1>5, <1>9 DEF Turns
<1>11. RowsOK'
  <2>1. spoken' \in 0 .. MaxOutput
    BY HarnessAssumption, Parts DEF RowsOK, Say, HarnessAssumption
  <2> QED
    BY <2>1, Parts DEF RowsOK, Say
<1> QED
  BY <1>10, <1>11, QuietStep DEF Say

LEMMA ReportStep == \A s \in Slots : IInv /\ Report(s) => IInv'
<1> SUFFICES ASSUME NEW s \in Slots, IInv, Report(s) PROVE IInv'
  OBVIOUS
<1> DEFINE x == slots[s]
<1>1. PICK k \in x.execs \cap finished :
        slots' = [slots EXCEPT ![s].execs = @ \ {k},
                    ![s].chain = Append(@, ToolResult(k, x.token)),
                    ![s].seq = IF x.chain = <<>> THEN NextSeq(s) ELSE @]
  BY DEF Report
<1> DEFINE e == ToolResult(k, x.token)
           c == Append(x.chain, e)
           q == IF x.chain = <<>> THEN Len(x.mem) + 1 ELSE x.seq
           left == x.execs \ {k}
           y == [x EXCEPT !.execs = left, !.chain = c, !.seq = q]
<1>2. /\ x \in Slot /\ SlotOK(x, log, finished) /\ x.token \in Nat /\ x.execs \subseteq Nat
      /\ x.chain \in Seq(Event) /\ x.seq \in Nat /\ Len(x.mem) \in Nat
  BY Parts, SlotFields DEF SlotsOK
<1>3. e \in Event /\ e.by = x.token /\ e.type = "tool_result" /\ e.key = k
  BY <1>2, EventTypes, EventsAre
<1>4. c \in Seq(Event) /\ q \in Nat /\ left \subseteq Nat
  BY <1>2, <1>3, Appends
<1>5. slots' = [slots EXCEPT ![s] = y]
  BY <1>1, Parts DEF NextSeq
<1>6. /\ c = Append(x.chain, e) /\ q = IF x.chain = <<>> THEN Len(x.mem) + 1 ELSE x.seq
      /\ k \in x.execs /\ k \in finished /\ left = x.execs \ {k}
  OBVIOUS
<1> HIDE DEF x, e, c, q, left
<1>7. /\ y \in Slot /\ y.pc = x.pc /\ y.mem = x.mem /\ y.token = x.token
      /\ y.chain = c /\ y.seq = q /\ y.execs = left /\ y.goal = x.goal /\ y.end = x.end
  BY <1>2, <1>4 DEF Slot
<1> HIDE DEF y
<1>8. AtWork(y)
  BY <1>2, <1>6, <1>7 DEF SlotOK, AtWork
<1>9. SlotOK(y, log, finished)
  BY <1>2, <1>3, <1>6, <1>7, <1>8, ChainGrows
<1>10. Turns(s, log, finished)
  BY <1>5, <1>9 DEF Turns
<1> QED
  BY <1>10, StillStep DEF Report

\* The slot's next fatal error.
LEMMA FatalType ==
  ASSUME IInv, NEW s \in Slots, NEW err \in {"CONFLICT", "HARNESS", "INTERNAL"}
  PROVE  FirstFatal(s, err) \in Fatal
BY Parts, SlotFields DEF FirstFatal, Fatal

LEMMA ExecThrowsStep == \A s \in Slots : IInv /\ ExecThrows(s) => IInv'
<1> SUFFICES ASSUME NEW s \in Slots, IInv, ExecThrows(s) PROVE IInv'
  OBVIOUS
<1> DEFINE x == slots[s]
<1>1. PICK k \in x.execs :
        slots' = [slots EXCEPT ![s] = Rest([x EXCEPT
                     !.execs = @ \ {k}, !.fatal = FirstFatal(s, "INTERNAL")])]
  BY DEF ExecThrows
<1> DEFINE g == FirstFatal(s, "INTERNAL")
           left == x.execs \ {k}
           y == [x EXCEPT !.execs = left, !.fatal = g]
<1>2. /\ x \in Slot /\ SlotOK(x, log, finished) /\ g \in Fatal /\ left \subseteq Nat
      /\ left \subseteq x.execs /\ k \in x.execs
  BY Parts, SlotFields, FatalType DEF SlotsOK
<1>3. slots' = [slots EXCEPT ![s] = Rest(y)]
  BY <1>1
<1> HIDE DEF x, g, left
<1>4. /\ y \in Slot /\ y.pc = x.pc /\ y.mem = x.mem /\ y.token = x.token
      /\ y.chain = x.chain /\ y.seq = x.seq /\ y.execs = left /\ y.goal = x.goal
      /\ y.end = x.end
  BY <1>2 DEF Slot
<1> HIDE DEF y
<1>5. AtWork(y)
  BY <1>2, <1>4 DEF SlotOK, AtWork
<1>6. Turns(s, log, finished)
  BY <1>2, <1>3, <1>4, <1>5, QuietRestTurns DEF x
<1> QED
  BY <1>6, StillStep DEF ExecThrows

LEMMA ExecStep == \A s \in Slots : IInv /\ Exec(s) => IInv'
<1> SUFFICES ASSUME NEW s \in Slots, IInv, Exec(s) PROVE IInv'
  OBVIOUS
<1>1. PICK k \in slots[s].execs \ started : started' = started \cup {k}
  BY DEF Exec
<1>2. Owed(slots[s].mem, k)
  BY Parts DEF SlotsOK, SlotOK, Chained
<1>3. Turns(s, log, finished)
  BY SameTurns DEF Exec
<1>4. RowsOK'
  BY Parts DEF RowsOK, Exec
<1> QED
  BY <1>1, <1>2, <1>3, <1>4, SpawnStep DEF Exec

LEMMA VendorFailsStep == \A s \in Slots : IInv /\ VendorFails(s) => IInv'
<1> SUFFICES ASSUME NEW s \in Slots, IInv, VendorFails(s) PROVE IInv'
  OBVIOUS
<1> DEFINE x == slots[s]
<1>1. PICK err \in {"HARNESS", "INTERNAL"} : slots' = [slots EXCEPT ![s].fatal = err]
  BY DEF VendorFails
<1> DEFINE y == [x EXCEPT !.fatal = err]
<1>2. x \in Slot /\ SlotOK(x, log, finished) /\ slots' = [slots EXCEPT ![s] = y]
  BY <1>1, Parts DEF SlotsOK
<1> HIDE DEF x
<1>3. /\ y \in Slot /\ y.pc = x.pc /\ y.mem = x.mem /\ y.token = x.token
      /\ y.chain = x.chain /\ y.seq = x.seq /\ y.execs = x.execs /\ y.goal = x.goal
      /\ y.end = x.end /\ y.key = x.key
  BY <1>2 DEF Slot, Fatal
<1> HIDE DEF y
<1>4. AtWork(y)
  BY <1>2, <1>3 DEF SlotOK, AtWork
<1>5. Turns(s, log, finished)
  BY <1>2, <1>3, <1>4, QuietTurns DEF x
<1> QED
  BY <1>5, StillStep DEF VendorFails

LEMMA VendorResultStep == \A s \in Slots : IInv /\ VendorResult(s) => IInv'
<1> SUFFICES ASSUME NEW s \in Slots, IInv, VendorResult(s) PROVE IInv'
  OBVIOUS
<1> DEFINE x == slots[s]
<1>1. PICK e \in {Completed(x.local, x.token), Failed("BUDGET", x.token)} :
        slots' = [slots EXCEPT ![s].pc = "ended", ![s].goal = e]
  BY DEF VendorResult
<1> DEFINE y == [x EXCEPT !.pc = "ended", !.goal = e]
<1>2. /\ x \in Slot /\ SlotOK(x, log, finished) /\ slots' = [slots EXCEPT ![s] = y]
      /\ x.token \in Nat /\ x.local \in Nat
  BY <1>1, Parts, SlotFields DEF SlotsOK
<1>3. e \in Event /\ e.type \in Terminal /\ e.by = x.token
  BY <1>1, <1>2, EventTypes, EventsAre DEF FailClass, Terminal
<1> HIDE DEF x
<1>4. /\ y \in Slot /\ y.pc = "ended" /\ y.mem = x.mem /\ y.token = x.token
      /\ y.chain = x.chain /\ y.seq = x.seq /\ y.execs = x.execs /\ y.goal = e
  BY <1>2, <1>3 DEF Slot, Pc
<1> HIDE DEF y
<1>5. AtWork(y)
  BY <1>3, <1>4 DEF AtWork
<1>6. Turns(s, log, finished)
  BY <1>2, <1>4, <1>5, QuietTurns DEF x
<1> QED
  BY <1>6, StillStep DEF VendorResult

\* The first append of the chain is given up.
LEMMA PopTurns ==
  ASSUME IInv, NEW s \in Slots, slots[s].chain # <<>>,
         NEW err \in {"CONFLICT", "INTERNAL"},
         slots' = [slots EXCEPT ![s] = Rest([Pop(s, slots[s].mem) EXCEPT
                                               !.fatal = FirstFatal(s, err)])]
  PROVE  Turns(s, log, finished)
<1> DEFINE x == slots[s]
           g == FirstFatal(s, err)
           t == Tail(x.chain)
           q == Len(x.mem) + 1
           y == [x EXCEPT !.chain = t, !.mem = x.mem, !.seq = q, !.fatal = g]
<1>1. /\ x \in Slot /\ SlotOK(x, log, finished) /\ log \in Seq(Event) /\ g \in Fatal
      /\ x.chain \in Seq(Event) /\ x.chain # <<>> /\ x.mem \in Seq(Event) /\ q \in Nat
  BY Parts, SlotFields, FatalType DEF SlotsOK
<1>2. t \in Seq(Event)
  BY <1>1
<1>3. slots' = [slots EXCEPT ![s] = Rest(y)]
  BY DEF Pop
<1>4. t = Tail(x.chain) /\ q = Len(x.mem) + 1
  OBVIOUS
<1> HIDE DEF x, g, t, q
<1>5. /\ y \in Slot /\ y.pc = x.pc /\ y.mem = x.mem /\ y.token = x.token
      /\ y.chain = t /\ y.seq = q /\ y.execs = x.execs /\ y.goal = x.goal
      /\ y.end = x.end /\ y.key = x.key
  BY <1>1, <1>2 DEF Slot
<1> HIDE DEF y
<1>6. SlotOK(y, log, finished)
  BY <1>1, <1>4, <1>5, PopOK
<1>7. SlotOK(Rest(y), log, finished)
  BY <1>1, <1>6, RestOK
<1> QED
  BY <1>3, <1>7 DEF Turns

LEMMA ChainConflictsStep == \A s \in Slots : IInv /\ ChainConflicts(s) => IInv'
BY PopTurns, StillStep DEF ChainConflicts

\* The head of a chain is fit for the log it was issued against.
LEMMA ChainLogs ==
  ASSUME IInv, NEW s \in Slots, slots[s].chain # <<>>, ~Taken(slots[s].seq)
  PROVE  /\ Head(slots[s].chain) \in Event
         /\ LogOK(Append(log, Head(slots[s].chain)), finished)
<1> DEFINE x == slots[s]
           e == Head(x.chain)
<1>1. /\ SlotOK(x, log, finished) /\ x.chain \in Seq(Event) /\ x.chain # <<>> /\ x.seq \in Nat
      /\ ~(Len(log) >= x.seq)
  BY Parts, SlotFields DEF SlotsOK, Taken
<1> HIDE DEF x
<1>2. Split(x, finished, e, Tail(x.chain)) /\ x.seq <= Len(x.mem) + 1
  BY <1>1, ChainSplit DEF SlotOK, Chained
<1> HIDE DEF e
<1>3. /\ e \in Event /\ e.by \in {0, x.token} /\ e.type \notin Starts
      /\ e.type = "tool_result" => e.key \in finished /\ Owed(x.mem, e.key)
  BY <1>2 DEF Split, Starts
<1>4. LogOK(Append(log, e), finished)
  BY <1>1, <1>2, <1>3, Parts, OwnAppend
<1> QED
  BY <1>3, <1>4 DEF x, e

LEMMA ChainLandsStep == \A s \in Slots : IInv /\ ChainLands(s) => IInv'
<1> SUFFICES ASSUME NEW s \in Slots, IInv, ChainLands(s) PROVE IInv'
  OBVIOUS
<1> DEFINE x == slots[s]
           e == Head(x.chain)
           a == Append(x.mem, e)
           t == Tail(x.chain)
           q == Len(a) + 1
           more == IF e.type = "call" THEN x.execs \cup {x.seq} ELSE x.execs
           y == [x EXCEPT !.chain = t, !.mem = a, !.seq = q, !.execs = more]
<1>1. /\ x \in Slot /\ SlotOK(x, log, finished) /\ log \in Seq(Event) /\ x.seq \in Nat
      /\ x.chain \in Seq(Event) /\ x.chain # <<>> /\ x.mem \in Seq(Event)
      /\ Len(x.mem) \in Nat /\ x.execs \subseteq Nat /\ ~(Len(log) >= x.seq)
  BY Parts, SlotFields DEF SlotsOK, ChainLands, Taken
<1>2. e \in Event
  BY ChainLogs DEF ChainLands
<1>3. /\ t \in Seq(Event) /\ a \in Seq(Event) /\ q = Len(x.mem) + 2 /\ q \in Nat
      /\ more \subseteq Nat
  BY <1>1, <1>2, Appends
<1>4. slots' = [slots EXCEPT ![s] = Rest(y)] /\ log' = Append(log, e)
  BY DEF ChainLands, Pop, Push
<1>5. /\ e = Head(x.chain) /\ a = Append(x.mem, e) /\ t = Tail(x.chain)
      /\ more = IF e.type = "call" THEN x.execs \cup {x.seq} ELSE x.execs
  OBVIOUS
<1> HIDE DEF x, e, a, t, q, more
<1>6. /\ y \in Slot /\ y.pc = x.pc /\ y.mem = a /\ y.token = x.token
      /\ y.chain = t /\ y.seq = q /\ y.execs = more /\ y.goal = x.goal
      /\ y.end = x.end /\ y.key = x.key
  BY <1>1, <1>3 DEF Slot
<1> HIDE DEF y
<1>7. LogOK(log', finished) /\ SlotOK(y, log', finished)
  BY <1>1, <1>3, <1>4, <1>5, <1>6, Parts, LandOK
<1>8. log' \in Seq(Event)
  BY <1>1, <1>2, <1>4, Appends
<1>9. SlotOK(Rest(y), log', finished)
  BY <1>7, <1>8, RestOK
<1>10. Turns(s, log', finished)
  BY <1>4, <1>9 DEF Turns
<1>11. RowsOK'
  <2>1. stray' \in BOOLEAN
    BY Parts DEF RowsOK, ChainLands
  <2> QED
    BY <2>1, Parts DEF RowsOK, ChainLands
<1>12. session' = session /\ session \in [fence : Nat, state : Nat]
  BY Parts DEF ChainLands
<1> QED
  BY <1>2, <1>4, <1>7, <1>10, <1>11, <1>12, WriteStep DEF ChainLands

LEMMA ChainThrowsStep == \A s \in Slots : IInv /\ ChainThrows(s) => IInv'
<1> SUFFICES ASSUME NEW s \in Slots, IInv, ChainThrows(s) PROVE IInv'
  OBVIOUS
<1>1. Turns(s, log, finished) /\ Strikes("db")
  BY PopTurns DEF ChainThrows
<1>2. CASE UNCHANGED log
  BY <1>1, <1>2, StruckStep DEF ChainThrows
<1>3. CASE ~Taken(slots[s].seq) /\ log' = Append(log, Head(slots[s].chain))
  <2> DEFINE e == Head(slots[s].chain)
  <2>1. e \in Event /\ log' = Append(log, e) /\ LogOK(Append(log, e), finished)
    BY <1>3, ChainLogs DEF ChainThrows
  <2> HIDE DEF e
  <2>2. Turns(s, log', finished)
    BY <1>1, <2>1, TurnsAppend
  <2>3. faults' \in Seq(FaultKinds) /\ Len(faults') <= MaxFaults
    BY <1>1, Parts, StruckType
  <2>4. RowsOK'
    BY <2>3, Parts DEF RowsOK, ChainThrows
  <2>5. session' = session /\ session \in [fence : Nat, state : Nat]
    BY Parts DEF ChainThrows
  <2> QED
    BY <2>1, <2>2, <2>4, <2>5, WriteStep DEF ChainThrows
<1> QED
  BY <1>2, <1>3 DEF ChainThrows

LEMMA ObserveStep == \A s \in Slots : IInv /\ Observe(s) => IInv'
<1> SUFFICES ASSUME NEW s \in Slots, IInv, Observe(s) PROVE IInv'
  OBVIOUS
<1> DEFINE x == slots[s]
           g == FirstFatal(s, IF x.mirror = "fenced" THEN "CONFLICT" ELSE "INTERNAL")
           y == [x EXCEPT !.mirror = "ok", !.fatal = g]
<1>1. /\ x \in Slot /\ SlotOK(x, log, finished) /\ slots' = [slots EXCEPT ![s] = y]
      /\ g \in Fatal
  BY Parts, FatalType DEF SlotsOK, Observe
<1> HIDE DEF x, g
<1>2. /\ y \in Slot /\ y.pc = x.pc /\ y.mem = x.mem /\ y.token = x.token
      /\ y.chain = x.chain /\ y.seq = x.seq /\ y.execs = x.execs /\ y.goal = x.goal
      /\ y.end = x.end /\ y.key = x.key
  BY <1>1 DEF Slot
<1> HIDE DEF y
<1>3. AtWork(y)
  BY <1>1, <1>2 DEF SlotOK, AtWork
<1>4. Turns(s, log, finished)
  BY <1>1, <1>2, <1>3, QuietTurns DEF x
<1> QED
  BY <1>4, StillStep DEF Observe

\* The batch leaves the handler, whatever became of it.
LEMMA SentTurns ==
  ASSUME IInv, NEW s \in Slots, NEW m \in {"ok", "dropped", "fenced"},
         slots' = [slots EXCEPT ![s].sent = slots[s].local, ![s].mirror = m]
  PROVE  Turns(s, log, finished)
<1> DEFINE x == slots[s]
           n == x.local
           y == [x EXCEPT !.sent = n, !.mirror = m]
<1>1. /\ x \in Slot /\ SlotOK(x, log, finished) /\ slots' = [slots EXCEPT ![s] = y]
      /\ n \in Nat
  BY Parts, SlotFields DEF SlotsOK
<1> HIDE DEF x, n
<1>2. /\ y \in Slot /\ y.pc = x.pc /\ y.mem = x.mem /\ y.token = x.token
      /\ y.chain = x.chain /\ y.seq = x.seq /\ y.execs = x.execs /\ y.goal = x.goal
      /\ y.end = x.end /\ y.key = x.key
  BY <1>1 DEF Slot
<1> HIDE DEF y
<1>3. AtWork(y)
  BY <1>1, <1>2 DEF SlotOK, AtWork
<1> QED
  BY <1>1, <1>2, <1>3, QuietTurns DEF x

LEMMA DropBatchStep == \A s \in Slots : IInv /\ DropBatch(s) => IInv'
<1> SUFFICES ASSUME NEW s \in Slots, IInv, DropBatch(s) PROVE IInv'
  OBVIOUS
<1> DEFINE m == IF slots[s].mirror = "fenced" THEN slots[s].mirror ELSE "dropped"
<1>1. /\ slots' = [slots EXCEPT ![s].sent = slots[s].local, ![s].mirror = m]
      /\ m \in {"ok", "dropped", "fenced"}
  BY Parts DEF DropBatch
<1>2. Turns(s, log, finished)
  BY <1>1, SentTurns
<1> QED
  BY <1>2, StruckStep DEF DropBatch

\* The rows a handler sends are its own.
LEMMA BatchRows ==
  ASSUME IInv, NEW s \in Slots, NEW b \in Batches(s)
  PROVE  /\ b \in Seq(Row) /\ DOMAIN b = 1 .. Len(b)
         /\ \A i \in 1 .. Len(b) : b[i] \in Fresh(s) /\ b[i].by = slots[s].token
<1>1. /\ slots[s].token \in Nat /\ slots[s].sent \in Nat /\ slots[s].local \in Nat
  BY Parts, SlotFields
<1>2. PICK k \in 0 .. slots[s].local - slots[s].sent : b \in [1 .. k -> Fresh(s)]
  BY DEF Batches
<1>3. \A e \in Fresh(s) : e \in Row /\ e.by = slots[s].token
  <2> TAKE e \in Fresh(s)
  <2>1. PICK n \in slots[s].sent + 1 .. slots[s].local : e = [by |-> slots[s].token, n |-> n]
    BY DEF Fresh
  <2>2. n \in Nat
    BY <1>1
  <2> QED
    BY <1>1, <2>1, <2>2 DEF Row
<1>4. k \in Nat /\ b \in Seq(Row) /\ Len(b) = k
  BY <1>1, <1>2, <1>3
<1> QED
  BY <1>2, <1>3, <1>4

\* A batch goes in behind the fence, or none does.
LEMMA MirrorStep ==
  ASSUME IInv, NEW s \in Slots, Turns(s, log, finished), RowsOK',
         \/ transcript' = transcript
         \/ Guarded(s) /\ Insert(s),
         UNCHANGED <<log, session, started, finished>>
  PROVE  IInv'
<1>1. slots' \in [Slots -> Slot] /\ SlotsOK'
  <2>1. Turns(s, log', finished') /\ Grows /\ finished \subseteq finished'
    BY DEF Grows
  <2> QED
    BY <2>1, SlotsStep
<1>2. LogOK(log, finished)' /\ CallsLogged'
  BY Parts DEF CallsLogged
<1>3. transcript' \in Seq(Row) /\ MirrorOK'
  <2>1. CASE transcript' = transcript
    BY <2>1, Parts DEF MirrorOK
  <2>2. CASE Guarded(s) /\ Insert(s)
    <3>0. PICK b \in Batches(s) : transcript' = transcript \o b
      BY <2>2 DEF Insert
    <3> DEFINE t == transcript
               u == t \o b
               g == session.fence
    <3>1. /\ t \in Seq(Row) /\ b \in Seq(Row) /\ g \in Nat
          /\ \A i \in 1 .. Len(b) : b[i].by = g
      BY <2>2, Parts, BatchRows DEF Guarded
    <3>2. /\ g <= Len(log)
          /\ \A i \in 1 .. Len(t) : t[i].by <= g
          /\ \A i, j \in 1 .. Len(t) : i <= j => t[i].by <= t[j].by
      BY Parts DEF MirrorOK
    <3>3. transcript' = u /\ session' = session /\ log' = log
      BY <3>0
    <3> HIDE DEF t, g
    <3>4. /\ u \in Seq(Row) /\ Len(t) \in Nat /\ Len(b) \in Nat /\ Len(u) = Len(t) + Len(b)
          /\ \A i \in 1 .. Len(t) : u[i] = t[i]
          /\ \A i \in 1 .. Len(u) : i > Len(t) => u[i] = b[i - Len(t)]
      BY <3>1
    <3> HIDE DEF u
    <3>5. \A i \in 1 .. Len(u) : \/ i \in 1 .. Len(t)
                                 \/ i > Len(t) /\ i - Len(t) \in 1 .. Len(b)
      BY <3>4
    <3>6. \A i \in 1 .. Len(u) : i > Len(t) => u[i].by = g
      BY <3>1, <3>4, <3>5
    <3>7. \A i \in 1 .. Len(u) : u[i].by <= g
      <4> TAKE i \in 1 .. Len(u)
      <4>1. CASE i > Len(t)
        BY <3>1, <3>6, <4>1
      <4>2. CASE i \in 1 .. Len(t)
        BY <3>2, <3>4, <4>2
      <4> QED
        BY <3>5, <4>1, <4>2
    <3>8. \A i, j \in 1 .. Len(u) : i <= j => u[i].by <= u[j].by
      <4> SUFFICES ASSUME NEW i \in 1 .. Len(u), NEW j \in 1 .. Len(u), i <= j
                   PROVE  u[i].by <= u[j].by
        OBVIOUS
      <4>1. CASE j > Len(t)
        BY <3>6, <3>7, <4>1
      <4>2. CASE ~(j > Len(t))
        <5>1. i \in 1 .. Len(t) /\ j \in 1 .. Len(t)
          BY <3>4, <4>2
        <5> QED
          BY <3>2, <3>4, <5>1
      <4> QED
        BY <4>1, <4>2
    <3> QED
      BY <3>2, <3>3, <3>4, <3>7, <3>8 DEF MirrorOK, g
  <2> QED
    BY <2>1, <2>2
<1>4. TypeOK'
  BY <1>1, <1>3, Parts DEF TypeOK, RowsOK
<1> QED
  BY <1>1, <1>2, <1>3, <1>4 DEF IInv, SlotsOK

LEMMA FlushStep == \A s \in Slots : IInv /\ Flush(s) => IInv'
<1> SUFFICES ASSUME NEW s \in Slots, IInv, Flush(s) PROVE IInv'
  OBVIOUS
<1>1. RowsOK'
  BY Parts DEF RowsOK, Flush
<1>2. \E m \in {"ok", "dropped", "fenced"} :
        slots' = [slots EXCEPT ![s].sent = slots[s].local, ![s].mirror = m]
  <2>1. CASE Guarded(s)
    <3> DEFINE m == slots[s].mirror
    <3>1. slots' = [slots EXCEPT ![s].sent = slots[s].local, ![s].mirror = m]
      BY <2>1, Parts DEF Flush, Slot
    <3>2. m \in {"ok", "dropped", "fenced"}
      BY Parts, SlotFields
    <3> QED
      BY <3>1, <3>2
  <2>2. CASE ~Guarded(s)
    BY <2>2 DEF Flush
  <2> QED
    BY <2>1, <2>2
<1>3. Turns(s, log, finished)
  BY <1>2, SentTurns
<1>4. \/ transcript' = transcript
      \/ Guarded(s) /\ Insert(s)
  BY DEF Flush
<1> QED
  BY <1>1, <1>3, <1>4, MirrorStep DEF Flush

LEMMA FlushReplyLostStep == \A s \in Slots : IInv /\ FlushReplyLost(s) => IInv'
<1> SUFFICES ASSUME NEW s \in Slots, IInv, FlushReplyLost(s) PROVE IInv'
  OBVIOUS
<1>1. faults' \in Seq(FaultKinds) /\ Len(faults') <= MaxFaults
  BY Parts, StruckType DEF FlushReplyLost
<1>2. RowsOK'
  BY <1>1, Parts DEF RowsOK, FlushReplyLost
<1>3. Turns(s, log, finished)
  BY SameTurns DEF FlushReplyLost
<1> QED
  BY <1>2, <1>3, MirrorStep DEF FlushReplyLost

-----------------------------------------------------------------------------
(* The theorems.                                                            *)

LEMMA InitOK == Init => IInv
<1> SUFFICES ASSUME Init PROVE IInv
  OBVIOUS
<1>1. \A s \in Slots : SlotOK(slots[s], log, finished)
  <2>1. log \in Seq(Event) /\ \A s \in Slots : slots[s] = Idle
    BY DEF Init
  <2> QED
    BY <2>1, IdleOK
<1>2. Len(log) = 0 /\ Len(transcript) = 0 /\ log \in Seq(Event) /\ transcript \in Seq(Row)
  BY DEF Init
<1>3. LogOK(log, finished) /\ CallsLogged
  BY <1>2 DEF Init, LogOK, CallsLogged
<1>4. MirrorOK
  BY <1>2 DEF Init, MirrorOK
<1>5. TypeOK
  <2>1. job \in [id : Nat, state : {"none", "queued", "running", "dead"},
                 attempts : Nat, lease : BOOLEAN]
    BY DEF Init, NoJob
  <2>2. slots \in [Slots -> Slot]
    BY IdleType DEF Init
  <2>3. faults \in Seq(FaultKinds) /\ Len(faults) <= MaxFaults /\ spoken \in 0 .. MaxOutput
    BY HarnessAssumption DEF Init, HarnessAssumption
  <2> QED
    BY <1>2, <2>1, <2>2, <2>3 DEF Init, TypeOK
<1> QED
  BY <1>1, <1>3, <1>4, <1>5 DEF IInv

LEMMA NextOK == IInv /\ [Next]_vars => IInv'
<1> SUFFICES ASSUME IInv, [Next]_vars PROVE IInv'
  OBVIOUS
<1>1. CASE SendMessage \/ ExpireLease \/ CommandExits
  BY <1>1, SendMessageStep, ExpireLeaseStep, CommandExitsStep
<1>2. ASSUME NEW s \in Slots, Pull(s) PROVE IInv'
  BY <1>2, PullStep
<1>3. ASSUME NEW s \in Slots, Turn(s) PROVE IInv'
  BY <1>3, ReadStep, FenceStep, RecoverStep, RecordRecoveredStep, RecoveryFailsStep,
     DriveStep, ThrowStep, StreamEndsStep, EndStep, SettleStep DEF Turn
<1>4. ASSUME NEW s \in Slots, Driver(s) PROVE IInv'
  BY <1>4, SayStep, VendorFailsStep, VendorResultStep, ChainConflictsStep, ChainLandsStep,
     ExecStep, ReportStep, ExecThrowsStep, FlushStep, ObserveStep DEF Driver
<1>5. ASSUME NEW s \in Slots, Fault(s) PROVE IInv'
  BY <1>5, StallStep, CrashStep, FenceThrowsStep, RecoveryThrowsStep, ChainThrowsStep,
     FlushReplyLostStep, DropBatchStep, EndThrowsStep DEF Fault
<1>6. CASE UNCHANGED vars
  <2>1. UNCHANGED <<log, session, transcript, job, slots, started, finished, faults, stray, spoken>>
    BY <1>6 DEF vars
  <2>2. RowsOK'
    BY <2>1, Parts DEF RowsOK
  <2> QED
    BY <2>1, <2>2, Parts, AsideStep
<1> QED
  BY <1>1, <1>2, <1>3, <1>4, <1>5, <1>6 DEF Next

\* The inductive invariant, for any number of workers, attempts, messages and
\* faults.
THEOREM Invariant == Spec => []IInv
BY InitOK, NextOK, PTL DEF Spec

\* Every variable keeps its type (harness-strategy.ts, claude-code.ts).
THEOREM HarnessTypeCorrect == Spec => []TypeOK
<1>1. IInv => TypeOK
  BY DEF IInv
<1> QED
  BY <1>1, Invariant, PTL

\* Winning the attempt's seq is winning the turn (harness-strategy.ts 8-11):
\* no event of an attempt lies behind a later attempt or a later message.
THEOREM AttemptsStayApart == Spec => []AttemptsDoNotMix
<1>1. ASSUME IInv PROVE AttemptsDoNotMix
  <2> SUFFICES ASSUME NEW i \in DOMAIN log, log[i].by # 0
               PROVE  log[i].by = LastAt(SubSeq(log, 1, i), Starts)
    BY DEF AttemptsDoNotMix, Starts
  <2> DEFINE p == log[i].by
             l == SubSeq(log, 1, i)
             at == {j \in DOMAIN l : l[j].type \in Starts}
  <2>1. log \in Seq(Event) /\ i \in 1 .. Len(log) /\ Len(log) \in Nat
    BY <1>1, Parts
  <2>2. /\ p \in 1 .. i /\ log[p].type = "harness_attempt_started"
        /\ \A j \in 1 .. i : log[j].type \in Starts => j <= p
    BY <1>1, <2>1, Parts DEF LogOK, Reigns
  <2>3. DOMAIN l = 1 .. i /\ \A j \in 1 .. i : l[j] = log[j]
    BY <2>1
  <2> HIDE DEF p, l
  <2>4. p \in at /\ \A j \in at : j <= p
    BY <2>2, <2>3 DEF Starts
  <2>5. \A j \in at : j \in Nat
    BY <2>1, <2>3
  <2>6. LastAt(l, Starts) = CHOOSE j \in at : \A k \in at : k <= j
    BY <2>4 DEF LastAt
  <2> HIDE DEF at
  <2>7. \A j \in at : (\A k \in at : k <= j) => j = p
    BY <2>4, <2>5
  <2> QED
    BY <2>4, <2>6, <2>7 DEF p, l
<1> QED
  BY <1>1, Invariant, PTL

\* The transcript is one lineage (claude-code-store.ts 9-15): the guarded insert
\* never puts a row behind one of a later attempt.
THEOREM MirrorStaysFenced == Spec => []MirrorIsFenced
<1>1. ASSUME IInv PROVE MirrorIsFenced
  <2>1. DOMAIN transcript = 1 .. Len(transcript)
    BY <1>1, Parts
  <2> QED
    BY <1>1, <2>1, Parts DEF MirrorOK, MirrorIsFenced
<1> QED
  BY <1>1, Invariant, PTL

\* No command is spawned before its call is in the log, and a result in the log
\* was observed and is its call's only one (harness-strategy.ts, claude-code.ts).
THEOREM CallsAreSettledOnce == Spec => []CallsSettledOnce
<1>1. ASSUME IInv PROVE CallsSettledOnce
  <2>1. DOMAIN log = 1 .. Len(log)
    BY <1>1, Parts
  <2> QED
    BY <1>1, <2>1, Parts DEF LogOK, CallsLogged, CallsSettledOnce
<1> QED
  BY <1>1, Invariant, PTL

-----------------------------------------------------------------------------
(* A commit finds the whole transcript.                                     *)
(*                                                                          *)
(* As long as a driver has seen no error, the rows of its attempt are the   *)
(* first entries it has, at least those it takes for sent: of an insert     *)
(* whose reply was lost only the entries without a uuid are repeated, and a *)
(* batch that was dropped or fenced leaves the driver with an error.  The commit is issued when all entries  *)
(* are sent, and no thread of the attempt sends afterwards.                 *)

\* The rows of attempt p are its entries 1 .. c, in order but for the rows that
\* repeat an entry without a uuid.
Mirrors(t, p, c) ==
  /\ \A r \in 1 .. Len(t) : t[r].by = p => t[r].n \in 1 .. c
  /\ \A n \in 1 .. c : \E r \in 1 .. Len(t) : t[r] = [by |-> p, n |-> n]
  /\ \A r, q \in 1 .. Len(t) :
       r < q /\ t[r].by = p /\ t[q].by = p /\ t[q].n <= t[r].n =>
         /\ t[q].n \in Anonymous
         /\ \E o \in 1 .. Len(t) : o < q /\ t[o] = t[q]

Driven == {"recover", "attach", "drive", "ended"}
Healthy(x) == x.pc \in Driven /\ x.mirror = "ok" /\ x.fatal = "none"

\* The attempt is over and has nothing left to send.
Silent(x) == x.pc \in {"end", "settle", "idle"} /\ x.sent = x.local

ToCommit(x) == x.pc \in {"ended", "end"} /\ x.goal.type = "turn_completed"

\* What holds of a slot x beside the transcript t.
Sends(x, t) ==
  /\ x.sent <= x.local
  /\ x.pc \in {"read", "fence", "recover", "attach"} => x.local = 0
  /\ x.pc \in Driven => x.token # 0
  /\ Healthy(x) => \E c \in x.sent .. x.local : Mirrors(t, x.token, c)
  /\ ToCommit(x) => x.goal.key = x.local /\ x.goal.by = x.token
  /\ ToCommit(x) /\ x.pc = "end" =>
       x.token # 0 /\ x.sent = x.local /\ Mirrors(t, x.token, x.local)

OneSlotAnAttempt ==
  \A s, u \in Slots : slots[s].token = slots[u].token /\ slots[s].token # 0 => s = u

Committed(l, t) ==
  \A i \in 1 .. Len(l) : l[i].type = "turn_completed" =>
    l[i].by # 0 /\ Mirrors(t, l[i].by, l[i].key)

CommittedSilent ==
  \A i \in 1 .. Len(log) : log[i].type = "turn_completed" =>
    \A s \in Slots : slots[s].token = log[i].by => Silent(slots[s])

CommitInv ==
  /\ \A s \in Slots : Sends(slots[s], transcript)
  /\ OneSlotAnAttempt
  /\ Committed(log, transcript)
  /\ CommittedSilent

\* The slot may become y: of the same attempt or none, and as silent as x.
CalmTo(x, y, t) ==
  /\ Sends(y, t)
  /\ y.token \in {0, x.token}
  /\ y.token # 0 /\ Silent(x) => Silent(y)

LEMMA IdleCalm == \A x, t : CalmTo(x, Idle, t)
<1>1. /\ Idle.pc = "idle" /\ Idle.token = 0 /\ Idle.local = 0 /\ Idle.sent = 0
  BY DEF Idle
<1>2. \A t : Sends(Idle, t)
  BY <1>1 DEF Sends, Healthy, Driven, ToCommit
<1> QED
  BY <1>1, <1>2 DEF CalmTo

LEMMA CalmTrans ==
  ASSUME NEW x, NEW y, NEW z, NEW t, CalmTo(x, y, t), CalmTo(y, z, t)
  PROVE  CalmTo(x, z, t)
BY DEF CalmTo

LEMMA RestCalm ==
  ASSUME NEW x, NEW y, NEW t, CalmTo(x, y, t)
  PROVE  CalmTo(x, Rest(y), t)
BY IdleCalm DEF Rest

\* Nothing of what is sent or committed changes.
LEMMA LikeCalm ==
  ASSUME NEW x, NEW y, NEW t, Sends(x, t),
         y.pc = x.pc \/ {x.pc, y.pc} \subseteq {"recover", "attach"},
         y.token = x.token, y.local = x.local, y.sent = x.sent, y.goal = x.goal,
         Healthy(y) => Healthy(x)
  PROVE  CalmTo(x, y, t)
<1>1. /\ x.pc \in Driven <=> y.pc \in Driven
      /\ ToCommit(y) <=> ToCommit(x)
      /\ Silent(x) <=> Silent(y)
      /\ y.pc = "end" <=> x.pc = "end"
      /\ y.pc \in {"read", "fence", "recover", "attach"} => x.pc \in {"read", "fence", "recover", "attach"}
  BY DEF Driven, ToCommit, Silent
<1>2. Sends(y, t)
  BY <1>1 DEF Sends
<1> QED
  BY <1>1, <1>2 DEF CalmTo

\* The turn is over, or ends with a failure.
LEMMA OverCalm ==
  ASSUME NEW x, NEW y, NEW t, Sends(x, t), y.pc \in {"settle", "idle", "end"},
         y.token = x.token, y.local = x.local, y.sent = x.sent,
         y.pc = "end" => y.goal.type # "turn_completed"
  PROVE  CalmTo(x, y, t)
<1>1. y.pc \notin Driven /\ ~ToCommit(y)
  BY DEF Driven, ToCommit
<1>2. Sends(y, t)
  BY <1>1 DEF Sends, Healthy, Driven
<1>3. Silent(x) => Silent(y)
  BY DEF Silent
<1> QED
  BY <1>2, <1>3 DEF CalmTo

LEMMA DoneCalm ==
  ASSUME NEW x \in Slot, NEW t, NEW o \in Outcome, Sends(x, t)
  PROVE  CalmTo(x, Done(x, o), t)
<1> DEFINE kept == [Idle EXCEPT !.mem = x.mem, !.token = x.token, !.chain = x.chain,
                                !.seq = x.seq, !.execs = x.execs,
                                !.local = x.local, !.sent = x.sent]
           base == IF x.chain = <<>> /\ x.execs = {} /\ x.sent = x.local THEN Idle ELSE kept
           y == [base EXCEPT !.pc = "settle", !.job = x.job, !.outcome = o]
<1>1. kept \in Slot /\ Idle \in Slot
  BY IdleType, SlotFields DEF Slot
<1>2. /\ kept.token = x.token /\ kept.local = x.local /\ kept.sent = x.sent
      /\ Idle.token = 0 /\ Idle.local = 0 /\ Idle.sent = 0
  BY DEF Idle
<1>3. Done(x, o) = y
  BY DEF Done, kept
<1> HIDE DEF kept
<1>4. \/ base = Idle
      \/ base = kept
  OBVIOUS
<1>5. base \in Slot
  BY <1>1, <1>4
<1>6. \/ base.token = 0 /\ base.local = 0 /\ base.sent = 0
      \/ base.token = x.token /\ base.local = x.local /\ base.sent = x.sent
  BY <1>2, <1>4
<1> HIDE DEF base
<1>7. y.pc = "settle" /\ y.token = base.token /\ y.local = base.local /\ y.sent = base.sent
  BY <1>5 DEF Slot
<1> HIDE DEF y
<1>8. CASE y.token = x.token /\ y.local = x.local /\ y.sent = x.sent
  BY <1>3, <1>7, <1>8, OverCalm
<1>9. CASE y.token = 0 /\ y.local = 0 /\ y.sent = 0
  <2>1. Sends(y, t)
    BY <1>7, <1>9 DEF Sends, Healthy, Driven, ToCommit
  <2> QED
    BY <1>3, <1>9, <2>1 DEF CalmTo
<1> QED
  BY <1>6, <1>7, <1>8, <1>9

\* The slot s makes such a step, and the log grows at most by an event that is
\* no commit, or by the commit that the slot has issued.
Calm(s) == \E y : slots' = [slots EXCEPT ![s] = y] /\ CalmTo(slots[s], y, transcript)

Logs(s) ==
  \/ log' = log
  \/ \E e \in Event :
       /\ log' = Append(log, e)
       /\ e.type = "turn_completed" => slots[s].pc = "end" /\ e = slots[s].goal

LEMMA CalmStep ==
  ASSUME IInv, CommitInv, NEW s \in Slots, Calm(s), Logs(s), transcript' = transcript
  PROVE  CommitInv'
<1>1. PICK y : slots' = [slots EXCEPT ![s] = y] /\ CalmTo(slots[s], y, transcript)
  BY DEF Calm
<1>2. /\ slots'[s] = y
      /\ \A u \in Slots : u # s => slots'[u] = slots[u]
  BY <1>1, Parts
<1>3. \A u \in Slots : Sends(slots'[u], transcript')
  BY <1>1, <1>2 DEF CommitInv, CalmTo
<1>4. \A u \in Slots : slots'[u].token \in {0, slots[u].token}
  BY <1>1, <1>2 DEF CalmTo
<1>5. OneSlotAnAttempt'
  BY <1>4 DEF CommitInv, OneSlotAnAttempt
<1>6. ASSUME NEW u \in Slots, slots'[u].token # 0, Silent(slots[u])
      PROVE  Silent(slots'[u])
  BY <1>1, <1>2, <1>6 DEF CalmTo
<1>7. ASSUME NEW e, e.type = "turn_completed",
             \/ \E i \in 1 .. Len(log) : e = log[i]
             \/ slots[s].pc = "end" /\ e = slots[s].goal
      PROVE  /\ e.by # 0 /\ Mirrors(transcript', e.by, e.key)
             /\ \A u \in Slots : slots'[u].token = e.by => Silent(slots'[u])
  <2>1. CASE \E i \in 1 .. Len(log) : e = log[i]
    <3>1. /\ e.by # 0 /\ Mirrors(transcript, e.by, e.key)
          /\ \A u \in Slots : slots[u].token = e.by => Silent(slots[u])
      BY <1>7, <2>1 DEF CommitInv, Committed, CommittedSilent
    <3> QED
      BY <1>4, <1>6, <3>1
  <2>2. CASE slots[s].pc = "end" /\ e = slots[s].goal
    <3>1. ToCommit(slots[s]) /\ Sends(slots[s], transcript)
      BY <1>7, <2>2 DEF ToCommit, CommitInv
    <3>2. /\ e.key = slots[s].local /\ e.by = slots[s].token /\ slots[s].token # 0
          /\ slots[s].sent = slots[s].local
          /\ Mirrors(transcript, slots[s].token, slots[s].local)
      BY <2>2, <3>1 DEF Sends
    <3>3. Silent(slots[s])
      BY <2>2, <3>2 DEF Silent
    <3>4. ASSUME NEW u \in Slots, slots'[u].token = e.by
          PROVE  Silent(slots'[u])
      <4>1. slots[u].token = slots[s].token
        BY <1>4, <3>2, <3>4
      <4>2. u = s
        BY <3>2, <4>1 DEF CommitInv, OneSlotAnAttempt
      <4> QED
        BY <1>6, <3>2, <3>3, <3>4, <4>2
    <3> QED
      BY <3>2, <3>4
  <2> QED
    BY <1>7, <2>1, <2>2
<1>8. ASSUME NEW i \in 1 .. Len(log'), log'[i].type = "turn_completed"
      PROVE  \/ \E j \in 1 .. Len(log) : log'[i] = log[j]
             \/ slots[s].pc = "end" /\ log'[i] = slots[s].goal
  <2>1. CASE log' = log
    BY <2>1
  <2>2. CASE log' # log
    <3>1. PICK e \in Event :
             /\ log' = Append(log, e)
             /\ e.type = "turn_completed" => slots[s].pc = "end" /\ e = slots[s].goal
      BY <2>2 DEF Logs
    <3> DEFINE m == log'
    <3>2. /\ Len(m) = Len(log) + 1 /\ Len(log) \in Nat
          /\ \A j \in 1 .. Len(log) : m[j] = log[j]
          /\ m[Len(log) + 1] = e
      BY <3>1, Parts, Appends
    <3>3. i \in 1 .. Len(log) \/ i = Len(log) + 1
      BY <3>2
    <3> QED
      BY <1>8, <3>1, <3>2, <3>3
  <2> QED
    BY <2>1, <2>2
<1>9. Committed(log', transcript')
  BY <1>7, <1>8 DEF Committed
<1>10. CommittedSilent'
  BY <1>7, <1>8 DEF CommittedSilent
<1> QED
  BY <1>3, <1>5, <1>9, <1>10 DEF CommitInv

LEMMA ReturnCalm ==
  ASSUME IInv, CommitInv, NEW s \in Slots, NEW o \in Outcome, Return(s, o)
  PROVE  Calm(s)
<1>1. slots[s] \in Slot /\ Sends(slots[s], transcript)
  BY Parts DEF CommitInv
<1> QED
  BY <1>1, DoneCalm DEF Return, Calm

LEMMA FailCalm ==
  ASSUME IInv, CommitInv, NEW s \in Slots, NEW class \in FailClass, TerminalFail(s, class)
  PROVE  Calm(s)
<1> DEFINE x == slots[s]
           e == Failed(class, x.token)
           q == NextSeq(s)
           y == [x EXCEPT !.pc = "end", !.goal = e, !.end = q]
<1>1. x \in Slot /\ Sends(x, transcript)
  BY Parts DEF CommitInv
<1>2. slots' = [slots EXCEPT ![s] = y]
  BY Parts DEF TerminalFail, Issue
<1>3. e.type = "turn_failed"
  BY EventsAre
<1> HIDE DEF x, e, q
<1>4. /\ y.pc = "end" /\ y.goal = e /\ y.token = x.token /\ y.local = x.local
      /\ y.sent = x.sent
  BY <1>1 DEF Slot
<1> HIDE DEF y
<1>5. CalmTo(x, y, transcript)
  BY <1>1, <1>3, <1>4, OverCalm
<1> QED
  BY <1>2, <1>5 DEF Calm, x

LEMMA MapErrorCalm ==
  ASSUME IInv, CommitInv, NEW s \in Slots, NEW err \in {"CONFLICT", "HARNESS", "INTERNAL"},
         MapError(s, err)
  PROVE  Calm(s)
BY FailCalm, ReturnCalm DEF MapError, Outcome, FailClass

LEMMA SameCalm ==
  ASSUME IInv, CommitInv, NEW s \in Slots, slots' = slots
  PROVE  Calm(s)
<1>1. slots' = [slots EXCEPT ![s] = slots[s]]
  BY Parts
<1>2. CalmTo(slots[s], slots[s], transcript)
  BY DEF CommitInv, CalmTo
<1> QED
  BY <1>1, <1>2 DEF Calm

\* A step that leaves the slots alone.
LEMMA AsideKeeps ==
  ASSUME IInv, CommitInv, UNCHANGED <<slots, transcript>>,
         log' = log \/ log' = Append(log, UserMessage)
  PROVE  CommitInv'
<1>1. ASSUME NEW i \in 1 .. Len(log'), log'[i].type = "turn_completed"
      PROVE  \E j \in 1 .. Len(log) : log'[i] = log[j]
  <2>1. CASE log' = log
    BY <2>1
  <2>2. CASE log' = Append(log, UserMessage)
    <3> DEFINE m == log'
    <3>1. /\ Len(m) = Len(log) + 1 /\ Len(log) \in Nat
          /\ \A j \in 1 .. Len(log) : m[j] = log[j]
          /\ m[Len(log) + 1] = UserMessage
      BY <2>2, Parts, Appends, EventTypes
    <3>2. i \in 1 .. Len(log) \/ i = Len(log) + 1
      BY <3>1
    <3> QED
      BY <1>1, <3>1, <3>2, EventsAre
  <2> QED
    BY <2>1, <2>2
<1>2. Committed(log', transcript')
  BY <1>1 DEF CommitInv, Committed
<1>3. CommittedSilent'
  BY <1>1 DEF CommitInv, CommittedSilent
<1>4. OneSlotAnAttempt'
  BY DEF CommitInv, OneSlotAnAttempt
<1> QED
  BY <1>2, <1>3, <1>4 DEF CommitInv

LEMMA AsideCommits ==
  ASSUME IInv, CommitInv, SendMessage \/ ExpireLease \/ CommandExits \/ UNCHANGED vars
  PROVE  CommitInv'
BY AsideKeeps DEF SendMessage, ExpireLease, CommandExits, vars

LEMMA StallCommits == \A s \in Slots : IInv /\ CommitInv /\ (Stall(s) \/ Exec(s)) => CommitInv'
BY SameCalm, CalmStep DEF Stall, Exec, Logs

LEMMA CrashCommits == \A s \in Slots : IInv /\ CommitInv /\ Crash(s) => CommitInv'
BY IdleCalm, CalmStep DEF Crash, Calm, Logs

LEMMA PullCommits == \A s \in Slots : IInv /\ CommitInv /\ Pull(s) => CommitInv'
<1> SUFFICES ASSUME NEW s \in Slots, IInv, CommitInv, Pull(s) PROVE CommitInv'
  OBVIOUS
<1> DEFINE j == job.id
           b == (job.attempts + 1 >= MaxAttempts)
           y == [Idle EXCEPT !.pc = "read", !.job = j, !.last = b]
<1>1. slots' = [slots EXCEPT ![s] = y]
  BY DEF Pull
<1> HIDE DEF j, b
<1>2. y.pc = "read" /\ y.token = 0 /\ y.local = 0 /\ y.sent = 0
  BY DEF Idle
<1> HIDE DEF y
<1>3. CalmTo(slots[s], y, transcript)
  BY <1>2 DEF CalmTo, Sends, Healthy, Driven, ToCommit
<1> QED
  BY <1>1, <1>3, CalmStep DEF Pull, Calm, Logs

LEMMA SettleCommits == \A s \in Slots : IInv /\ CommitInv /\ Settle(s) => CommitInv'
<1> SUFFICES ASSUME NEW s \in Slots, IInv, CommitInv, Settle(s) PROVE CommitInv'
  OBVIOUS
<1> DEFINE x == slots[s]
           y == [x EXCEPT !.pc = "idle"]
<1>1. slots' = [slots EXCEPT ![s] = Rest(y)]
  BY DEF Settle
<1>2. x \in Slot /\ Sends(x, transcript)
  BY Parts DEF CommitInv
<1> HIDE DEF x
<1>3. y.pc = "idle" /\ y.token = x.token /\ y.local = x.local /\ y.sent = x.sent
  BY <1>2 DEF Slot
<1> HIDE DEF y
<1>4. CalmTo(x, Rest(y), transcript)
  BY <1>2, <1>3, OverCalm, RestCalm
<1> QED
  BY <1>1, <1>4, CalmStep DEF Settle, Calm, Logs, x

LEMMA ReadCommits == \A s \in Slots : IInv /\ CommitInv /\ Read(s) => CommitInv'
<1> SUFFICES ASSUME NEW s \in Slots, IInv, CommitInv, Read(s) PROVE CommitInv'
  OBVIOUS
<1> DEFINE x == slots[s]
<1>1. x \in Slot /\ Sends(x, transcript) /\ x.pc = "read"
  BY Parts DEF CommitInv, Read
<1>2. ASSUME Return(s, "completed")
      PROVE  Calm(s)
  BY <1>2, ReturnCalm DEF Outcome
<1>3. ASSUME slots' = [slots EXCEPT ![s].pc = "fence", ![s].mem = log]
      PROVE  Calm(s)
  <2> DEFINE y == [x EXCEPT !.pc = "fence", !.mem = log]
  <2>1. slots' = [slots EXCEPT ![s] = y]
    BY <1>3, Parts
  <2> HIDE DEF x
  <2>2. y.pc = "fence" /\ y.token = x.token /\ y.local = x.local /\ y.sent = x.sent
    BY <1>1 DEF Slot
  <2> HIDE DEF y
  <2>3. CalmTo(x, y, transcript)
    BY <1>1, <2>2 DEF CalmTo, Sends, Healthy, Driven, ToCommit, Silent
  <2> QED
    BY <2>1, <2>3 DEF Calm, x
<1>4. ASSUME slots' = [slots EXCEPT ![s].pc = "end", ![s].mem = log,
                                    ![s].goal = Failed("HARNESS", 0), ![s].end = Len(log) + 1]
      PROVE  Calm(s)
  <2> DEFINE e == Failed("HARNESS", 0)
             q == Len(log) + 1
             y == [x EXCEPT !.pc = "end", !.mem = log, !.goal = e, !.end = q]
  <2>1. slots' = [slots EXCEPT ![s] = y]
    BY <1>4, Parts
  <2>2. e.type = "turn_failed"
    BY EventsAre
  <2> HIDE DEF x, e, q
  <2>3. /\ y.pc = "end" /\ y.token = x.token /\ y.local = x.local /\ y.sent = x.sent
        /\ y.goal = e
    BY <1>1 DEF Slot
  <2> HIDE DEF y
  <2>4. CalmTo(x, y, transcript)
    BY <1>1, <2>2, <2>3, OverCalm
  <2> QED
    BY <2>1, <2>4 DEF Calm, x
<1>5. Calm(s)
  BY <1>2, <1>3, <1>4 DEF Read
<1> QED
  BY <1>5, CalmStep DEF Read, Logs

LEMMA FenceThrowsCommits == \A s \in Slots : IInv /\ CommitInv /\ FenceThrows(s) => CommitInv'
<1> SUFFICES ASSUME NEW s \in Slots, IInv, CommitInv, FenceThrows(s) PROVE CommitInv'
  OBVIOUS
<1>1. NextSeq(s) \in Nat
  <2>1. slots[s].mem \in Seq(Event)
    BY Parts, SlotFields
  <2> QED
    BY <2>1 DEF NextSeq
<1>2. Started(NextSeq(s)) \in Event /\ Started(NextSeq(s)).type # "turn_completed"
  BY <1>1, EventTypes, EventsAre
<1>3. Logs(s)
  BY <1>2 DEF FenceThrows, FenceWrites, Logs
<1>4. Calm(s)
  BY ReturnCalm DEF FenceThrows, Outcome
<1> QED
  BY <1>3, <1>4, CalmStep DEF FenceThrows

LEMMA RecoverCommits == \A s \in Slots : IInv /\ CommitInv /\ Recover(s) => CommitInv'
<1> SUFFICES ASSUME NEW s \in Slots, IInv, CommitInv, Recover(s) PROVE CommitInv'
  OBVIOUS
<1>1. PICK k : slots' = [slots EXCEPT ![s].pc = "attach", ![s].key = k]
  BY DEF Recover
<1> DEFINE x == slots[s]
           y == [x EXCEPT !.pc = "attach", !.key = k]
<1>2. slots' = [slots EXCEPT ![s] = y] /\ x \in Slot /\ Sends(x, transcript) /\ x.pc = "recover"
  BY <1>1, Parts DEF CommitInv, Recover
<1> HIDE DEF x
<1>3. /\ y.pc = "attach" /\ y.token = x.token /\ y.local = x.local /\ y.sent = x.sent
      /\ y.goal = x.goal /\ y.mirror = x.mirror /\ y.fatal = x.fatal
  BY <1>2 DEF Slot
<1> HIDE DEF y
<1>4. CalmTo(x, y, transcript)
  BY <1>2, <1>3, LikeCalm DEF Healthy, Driven
<1> QED
  BY <1>2, <1>4, CalmStep DEF Recover, Calm, Logs, x

LEMMA RecordRecoveredCommits ==
  \A s \in Slots : IInv /\ CommitInv /\ RecordRecovered(s) => CommitInv'
<1> SUFFICES ASSUME NEW s \in Slots, IInv, CommitInv, RecordRecovered(s) PROVE CommitInv'
  OBVIOUS
<1> DEFINE x == slots[s]
           e == ToolResult(x.key, x.token)
<1>1. x \in Slot /\ Sends(x, transcript) /\ x.pc = "attach"
  BY Parts DEF CommitInv, RecordRecovered
<1>2. e \in Event /\ e.type = "tool_result"
  BY <1>1, SlotFields, EventTypes, EventsAre
<1>3. CASE Taken(NextSeq(s))
  <2>1. Return(s, "conflict") /\ log' = log
    BY <1>3 DEF RecordRecovered
  <2>2. Calm(s)
    BY <2>1, ReturnCalm DEF Outcome
  <2> QED
    BY <2>1, <2>2, CalmStep DEF RecordRecovered, Logs
<1>4. CASE ~Taken(NextSeq(s))
  <2> DEFINE a == Push(s, e)
             d == x.told \cup {x.key}
             y == [x EXCEPT !.pc = "recover", !.mem = a, !.told = d]
  <2>1. slots' = [slots EXCEPT ![s] = y] /\ log' = Append(log, e)
    BY <1>4, Parts DEF RecordRecovered
  <2> HIDE DEF x, a, d, e
  <2>2. /\ y.pc = "recover" /\ y.token = x.token /\ y.local = x.local /\ y.sent = x.sent
        /\ y.goal = x.goal /\ y.mirror = x.mirror /\ y.fatal = x.fatal
    BY <1>1 DEF Slot
  <2> HIDE DEF y
  <2>3. CalmTo(x, y, transcript)
    BY <1>1, <2>2, LikeCalm DEF Healthy, Driven
  <2>4. Calm(s)
    BY <2>1, <2>3 DEF Calm, x
  <2>5. Logs(s)
    BY <1>2, <2>1 DEF Logs
  <2> QED
    BY <2>4, <2>5, CalmStep DEF RecordRecovered
<1> QED
  BY <1>3, <1>4

LEMMA RecoveryThrowsCommits ==
  \A s \in Slots : IInv /\ CommitInv /\ RecoveryThrows(s) => CommitInv'
<1> SUFFICES ASSUME NEW s \in Slots, IInv, CommitInv, RecoveryThrows(s) PROVE CommitInv'
  OBVIOUS
<1> DEFINE e == ToolResult(slots[s].key, slots[s].token)
<1>1. slots[s].key \in Nat /\ slots[s].token \in Nat
  BY Parts, SlotFields
<1>2. e \in Event /\ e.type = "tool_result"
  BY <1>1, EventTypes, EventsAre
<1>3. log' = log \/ log' = Append(log, e)
  BY DEF RecoveryThrows
<1> HIDE DEF e
<1>4. Logs(s)
  BY <1>2, <1>3 DEF Logs
<1>5. Calm(s)
  BY MapErrorCalm DEF RecoveryThrows
<1> QED
  BY <1>4, <1>5, CalmStep DEF RecoveryThrows

LEMMA ErrorCommits ==
  \A s \in Slots : IInv /\ CommitInv /\ (RecoveryFails(s) \/ Throw(s)) => CommitInv'
<1> SUFFICES ASSUME NEW s \in Slots, IInv, CommitInv, RecoveryFails(s) \/ Throw(s)
             PROVE  CommitInv'
  OBVIOUS
<1>1. slots[s].fatal \in Fatal
  BY Parts, SlotFields
<1>2. Calm(s)
  BY <1>1, MapErrorCalm DEF RecoveryFails, Throw, Fatal
<1> QED
  BY <1>2, CalmStep DEF RecoveryFails, Throw, Logs

LEMMA DriveCommits == \A s \in Slots : IInv /\ CommitInv /\ Drive(s) => CommitInv'
<1> SUFFICES ASSUME NEW s \in Slots, IInv, CommitInv, Drive(s) PROVE CommitInv'
  OBVIOUS
<1> DEFINE x == slots[s]
           y == [x EXCEPT !.pc = "drive", !.local = 1]
<1>1. /\ slots' = [slots EXCEPT ![s] = y] /\ x \in Slot /\ Sends(x, transcript)
      /\ x.pc = "recover"
  BY Parts DEF CommitInv, Drive
<1> HIDE DEF x
<1>2. /\ y.pc = "drive" /\ y.token = x.token /\ y.local = 1 /\ y.sent = x.sent
      /\ y.mirror = x.mirror /\ y.fatal = x.fatal
  BY <1>1 DEF Slot
<1> HIDE DEF y
<1>3. x.local = 0 /\ x.sent \in Nat /\ x.sent <= x.local /\ x.token # 0
  BY <1>1, SlotFields DEF Sends, Driven
<1>4. ASSUME Healthy(y)
      PROVE  \E c \in y.sent .. y.local : Mirrors(transcript, y.token, c)
  <2>1. Healthy(x)
    BY <1>1, <1>2, <1>4 DEF Healthy, Driven
  <2>2. PICK c \in x.sent .. x.local : Mirrors(transcript, x.token, c)
    BY <1>1, <2>1 DEF Sends
  <2>3. c \in y.sent .. y.local
    BY <1>2, <1>3
  <2> QED
    BY <1>2, <2>2, <2>3
<1>5. y.sent <= y.local
  BY <1>2, <1>3
<1>6. Sends(y, transcript)
  BY <1>2, <1>3, <1>4, <1>5 DEF Sends, ToCommit
<1>7. CalmTo(x, y, transcript)
  BY <1>1, <1>2, <1>6 DEF CalmTo, Silent
<1> QED
  BY <1>1, <1>7, CalmStep DEF Drive, Calm, Logs, x

\* The commit is issued when all entries are sent.
LEMMA StreamEndsCommits == \A s \in Slots : IInv /\ CommitInv /\ StreamEnds(s) => CommitInv'
<1> SUFFICES ASSUME NEW s \in Slots, IInv, CommitInv, StreamEnds(s) PROVE CommitInv'
  OBVIOUS
<1> DEFINE x == slots[s]
           e == x.goal
           q == NextSeq(s)
           y == [x EXCEPT !.pc = "end", !.goal = e, !.end = q]
<1>1. /\ slots' = [slots EXCEPT ![s] = y] /\ x \in Slot /\ Sends(x, transcript)
      /\ x.pc = "ended" /\ x.fatal = "none" /\ x.mirror = "ok" /\ x.sent = x.local
  BY Parts DEF CommitInv, StreamEnds, Issue
<1>2. e = x.goal
  OBVIOUS
<1> HIDE DEF x, q, e
<1>3. /\ y.pc = "end" /\ y.token = x.token /\ y.local = x.local /\ y.sent = x.sent
      /\ y.goal = x.goal
  BY <1>1, <1>2 DEF Slot
<1> HIDE DEF y
<1>4. Healthy(x) /\ x.token # 0
  BY <1>1 DEF Healthy, Driven, Sends
<1>5. PICK c \in x.sent .. x.local : Mirrors(transcript, x.token, c)
  BY <1>1, <1>4 DEF Sends
<1>6. c = x.local
  BY <1>1, SlotFields
<1>7. Sends(y, transcript)
  <2>1. ToCommit(y) => ToCommit(x)
    BY <1>1, <1>3 DEF ToCommit
  <2>2. ToCommit(y) => y.goal.key = y.local /\ y.goal.by = y.token
    BY <1>1, <1>3, <2>1 DEF Sends
  <2>3. y.token # 0 /\ y.sent = y.local /\ Mirrors(transcript, y.token, y.local)
    BY <1>1, <1>3, <1>4, <1>5, <1>6
  <2>4. y.sent <= y.local
    BY <1>1, <1>3 DEF Sends
  <2> QED
    BY <1>3, <2>2, <2>3, <2>4 DEF Sends, Healthy, Driven
<1>8. CalmTo(x, y, transcript)
  BY <1>1, <1>3, <1>7 DEF CalmTo, Silent
<1> QED
  BY <1>1, <1>8, CalmStep DEF StreamEnds, Calm, Logs, x

\* An event joins the chain and an entry the transcript the driver has.
LEMMA SayCommits == \A s \in Slots : IInv /\ CommitInv /\ Say(s) => CommitInv'
<1> SUFFICES ASSUME NEW s \in Slots, IInv, CommitInv, Say(s) PROVE CommitInv'
  OBVIOUS
<1>1. PICK type : Chain(s, Bare(type, slots[s].token))
  BY DEF Say
<1> DEFINE x == slots[s]
           c == Append(x.chain, Bare(type, x.token))
           q == IF x.chain = <<>> THEN NextSeq(s) ELSE x.seq
           n == x.local + 1
           y == [x EXCEPT !.chain = c, !.seq = q, !.local = n]
<1>2. slots' = [slots EXCEPT ![s] = y]
  BY <1>1, Parts DEF Chain
<1>3. x \in Slot /\ Sends(x, transcript) /\ x.pc = "drive" /\ x.fatal = "none"
  BY Parts DEF CommitInv, Say, Speaking
<1>4. x.local \in Nat /\ x.sent \in Nat /\ n = x.local + 1
  BY <1>3, SlotFields
<1> HIDE DEF x, c, q, n
<1>5. /\ y.pc = "drive" /\ y.token = x.token /\ y.local = n /\ y.sent = x.sent
      /\ y.mirror = x.mirror /\ y.fatal = x.fatal
  BY <1>3 DEF Slot
<1> HIDE DEF y
<1>6. ASSUME Healthy(y)
      PROVE  \E k \in y.sent .. y.local : Mirrors(transcript, y.token, k)
  <2>1. Healthy(x)
    BY <1>3, <1>5, <1>6 DEF Healthy, Driven
  <2>2. PICK k \in x.sent .. x.local : Mirrors(transcript, x.token, k)
    BY <1>3, <2>1 DEF Sends
  <2>3. k \in y.sent .. y.local
    BY <1>4, <1>5
  <2> QED
    BY <1>5, <2>2, <2>3
<1>7. y.sent <= y.local
  <2>1. x.sent <= x.local
    BY <1>3 DEF Sends
  <2> QED
    BY <1>4, <1>5, <2>1
<1>8. y.token # 0
  BY <1>3, <1>5 DEF Sends, Driven
<1>9. Sends(y, transcript)
  BY <1>5, <1>6, <1>7, <1>8 DEF Sends, ToCommit
<1>10. CalmTo(x, y, transcript)
  BY <1>3, <1>5, <1>9 DEF CalmTo, Silent
<1> QED
  BY <1>2, <1>10, CalmStep DEF Say, Calm, Logs, x

LEMMA ReportCommits == \A s \in Slots : IInv /\ CommitInv /\ Report(s) => CommitInv'
<1> SUFFICES ASSUME NEW s \in Slots, IInv, CommitInv, Report(s) PROVE CommitInv'
  OBVIOUS
<1>1. PICK k : slots' = [slots EXCEPT ![s].execs = @ \ {k},
                  ![s].chain = Append(@, ToolResult(k, slots[s].token)),
                  ![s].seq = IF slots[s].chain = <<>> THEN NextSeq(s) ELSE @]
  BY DEF Report
<1> DEFINE x == slots[s]
           w == x.execs \ {k}
           c == Append(x.chain, ToolResult(k, x.token))
           q == IF x.chain = <<>> THEN NextSeq(s) ELSE x.seq
           y == [x EXCEPT !.execs = w, !.chain = c, !.seq = q]
<1>2. slots' = [slots EXCEPT ![s] = y] /\ x \in Slot /\ Sends(x, transcript)
  BY <1>1, Parts DEF CommitInv
<1> HIDE DEF x, w, c, q
<1>3. /\ y.pc = x.pc /\ y.token = x.token /\ y.local = x.local /\ y.sent = x.sent
      /\ y.goal = x.goal /\ y.mirror = x.mirror /\ y.fatal = x.fatal
  BY <1>2 DEF Slot
<1> HIDE DEF y
<1>4. CalmTo(x, y, transcript)
  BY <1>2, <1>3, LikeCalm DEF Healthy
<1> QED
  BY <1>2, <1>4, CalmStep DEF Report, Calm, Logs, x

\* The first fatal error stays.
LEMMA FatalStays ==
  ASSUME NEW s, NEW err \in {"CONFLICT", "HARNESS", "INTERNAL"}
  PROVE  /\ FirstFatal(s, err) = "none" => slots[s].fatal = "none"
         /\ slots[s].pc \in {"drive", "ended"} => FirstFatal(s, err) # "none"
BY DEF FirstFatal

LEMMA ExecThrowsCommits == \A s \in Slots : IInv /\ CommitInv /\ ExecThrows(s) => CommitInv'
<1> SUFFICES ASSUME NEW s \in Slots, IInv, CommitInv, ExecThrows(s) PROVE CommitInv'
  OBVIOUS
<1>1. PICK k : slots' = [slots EXCEPT ![s] = Rest([slots[s] EXCEPT
                   !.execs = @ \ {k}, !.fatal = FirstFatal(s, "INTERNAL")])]
  BY DEF ExecThrows
<1> DEFINE x == slots[s]
           w == x.execs \ {k}
           g == FirstFatal(s, "INTERNAL")
           y == [x EXCEPT !.execs = w, !.fatal = g]
<1>2. /\ slots' = [slots EXCEPT ![s] = Rest(y)] /\ x \in Slot /\ Sends(x, transcript)
      /\ g = "none" => x.fatal = "none"
  BY <1>1, Parts, FatalStays DEF CommitInv
<1> HIDE DEF x, w, g
<1>3. /\ y.pc = x.pc /\ y.token = x.token /\ y.local = x.local /\ y.sent = x.sent
      /\ y.goal = x.goal /\ y.mirror = x.mirror /\ y.fatal = g
  BY <1>2 DEF Slot
<1> HIDE DEF y
<1>4. CalmTo(x, Rest(y), transcript)
  BY <1>2, <1>3, LikeCalm, RestCalm DEF Healthy
<1> QED
  BY <1>2, <1>4, CalmStep DEF ExecThrows, Calm, Logs, x

LEMMA VendorFailsCommits == \A s \in Slots : IInv /\ CommitInv /\ VendorFails(s) => CommitInv'
<1> SUFFICES ASSUME NEW s \in Slots, IInv, CommitInv, VendorFails(s) PROVE CommitInv'
  OBVIOUS
<1>1. PICK err \in {"HARNESS", "INTERNAL"} : slots' = [slots EXCEPT ![s].fatal = err]
  BY DEF VendorFails
<1> DEFINE x == slots[s]
           y == [x EXCEPT !.fatal = err]
<1>2. slots' = [slots EXCEPT ![s] = y] /\ x \in Slot /\ Sends(x, transcript)
  BY <1>1, Parts DEF CommitInv
<1> HIDE DEF x
<1>3. /\ y.pc = x.pc /\ y.token = x.token /\ y.local = x.local /\ y.sent = x.sent
      /\ y.goal = x.goal /\ y.mirror = x.mirror /\ y.fatal # "none"
  BY <1>2 DEF Slot
<1> HIDE DEF y
<1>4. CalmTo(x, y, transcript)
  BY <1>2, <1>3, LikeCalm DEF Healthy
<1> QED
  BY <1>2, <1>4, CalmStep DEF VendorFails, Calm, Logs, x

LEMMA VendorResultCommits == \A s \in Slots : IInv /\ CommitInv /\ VendorResult(s) => CommitInv'
<1> SUFFICES ASSUME NEW s \in Slots, IInv, CommitInv, VendorResult(s) PROVE CommitInv'
  OBVIOUS
<1> DEFINE x == slots[s]
           n == x.local
           p == x.token
<1>1. PICK e \in {Completed(n, p), Failed("BUDGET", p)} :
         slots' = [slots EXCEPT ![s].pc = "ended", ![s].goal = e]
  BY DEF VendorResult
<1> DEFINE y == [x EXCEPT !.pc = "ended", !.goal = e]
<1>2. slots' = [slots EXCEPT ![s] = y] /\ x \in Slot /\ Sends(x, transcript) /\ x.pc = "drive"
  BY <1>1, Parts DEF CommitInv, VendorResult, Speaking
<1>3. e.type = "turn_completed" => e.key = n /\ e.by = p
  BY <1>1 DEF Completed, Failed, Bare
<1>4. n = x.local /\ p = x.token
  OBVIOUS
<1> HIDE DEF x, n, p
<1>5. /\ y.pc = "ended" /\ y.token = p /\ y.local = n /\ y.sent = x.sent
      /\ y.goal = e /\ y.mirror = x.mirror /\ y.fatal = x.fatal
  BY <1>2, <1>4 DEF Slot
<1> HIDE DEF y
<1>6. Healthy(y) => Healthy(x)
  BY <1>2, <1>5 DEF Healthy, Driven
<1>7. x.token # 0
  BY <1>2 DEF Sends, Driven
<1>8. Sends(y, transcript)
  <2>1. Healthy(y) => \E c \in y.sent .. y.local : Mirrors(transcript, y.token, c)
    BY <1>2, <1>4, <1>5, <1>6 DEF Sends
  <2>2. ToCommit(y) => y.goal.key = y.local /\ y.goal.by = y.token
    BY <1>3, <1>5 DEF ToCommit
  <2>3. y.sent <= y.local /\ y.token # 0
    BY <1>2, <1>4, <1>5, <1>7 DEF Sends
  <2> QED
    BY <1>5, <2>1, <2>2, <2>3 DEF Sends
<1>9. CalmTo(x, y, transcript)
  BY <1>2, <1>4, <1>5, <1>8 DEF CalmTo, Silent
<1> QED
  BY <1>2, <1>9, CalmStep DEF VendorResult, Calm, Logs, x

\* The head of a chain, and what the slot becomes without it.
LEMMA HeadIsNoCommit ==
  ASSUME IInv, NEW s \in Slots, slots[s].chain # <<>>
  PROVE  Head(slots[s].chain) \in Event /\ Head(slots[s].chain).type # "turn_completed"
<1>1. /\ SlotOK(slots[s], log, finished) /\ slots[s].chain \in Seq(Event)
  BY Parts, SlotFields DEF SlotsOK
<1>2. 1 \in 1 .. Len(slots[s].chain) /\ Head(slots[s].chain) = slots[s].chain[1]
  BY <1>1
<1>3. slots[s].chain[1].type \in {"text", "call", "tool_result"}
  BY <1>1, <1>2 DEF SlotOK, Chained
<1> QED
  BY <1>1, <1>2, <1>3

LEMMA PopCalm ==
  ASSUME IInv, CommitInv, NEW s \in Slots, NEW err \in {"CONFLICT", "INTERNAL"},
         slots' = [slots EXCEPT ![s] = Rest([Pop(s, slots[s].mem) EXCEPT
                                               !.fatal = FirstFatal(s, err)])]
  PROVE  Calm(s)
<1> DEFINE x == slots[s]
           g == FirstFatal(s, err)
           t == Tail(x.chain)
           q == Len(x.mem) + 1
           y == [x EXCEPT !.chain = t, !.mem = x.mem, !.seq = q, !.fatal = g]
<1>1. /\ slots' = [slots EXCEPT ![s] = Rest(y)] /\ x \in Slot /\ Sends(x, transcript)
      /\ g = "none" => x.fatal = "none"
  BY Parts, FatalStays DEF CommitInv, Pop
<1> HIDE DEF x, t, q, g
<1>2. /\ y.pc = x.pc /\ y.token = x.token /\ y.local = x.local /\ y.sent = x.sent
      /\ y.goal = x.goal /\ y.mirror = x.mirror /\ y.fatal = g
  BY <1>1 DEF Slot
<1> HIDE DEF y
<1>3. CalmTo(x, Rest(y), transcript)
  BY <1>1, <1>2, LikeCalm, RestCalm DEF Healthy
<1> QED
  BY <1>1, <1>3 DEF Calm, x

LEMMA ChainFailsCommits ==
  \A s \in Slots : IInv /\ CommitInv /\ (ChainConflicts(s) \/ ChainThrows(s)) => CommitInv'
<1> SUFFICES ASSUME NEW s \in Slots, IInv, CommitInv, ChainConflicts(s) \/ ChainThrows(s)
             PROVE  CommitInv'
  OBVIOUS
<1>1. Calm(s)
  BY PopCalm DEF ChainConflicts, ChainThrows
<1>2. Logs(s)
  BY HeadIsNoCommit DEF ChainConflicts, ChainThrows, Logs
<1> QED
  BY <1>1, <1>2, CalmStep DEF ChainConflicts, ChainThrows

LEMMA ChainLandsCommits == \A s \in Slots : IInv /\ CommitInv /\ ChainLands(s) => CommitInv'
<1> SUFFICES ASSUME NEW s \in Slots, IInv, CommitInv, ChainLands(s) PROVE CommitInv'
  OBVIOUS
<1> DEFINE x == slots[s]
           e == Head(x.chain)
           a == Append(x.mem, e)
           t == Tail(x.chain)
           q == Len(a) + 1
           more == IF e.type = "call" THEN x.execs \cup {x.seq} ELSE x.execs
           y == [x EXCEPT !.chain = t, !.mem = a, !.seq = q, !.execs = more]
<1>1. slots' = [slots EXCEPT ![s] = Rest(y)] /\ log' = Append(log, e)
  BY DEF ChainLands, Pop, Push
<1>2. x \in Slot /\ Sends(x, transcript)
  BY Parts DEF CommitInv
<1>3. Logs(s)
  BY <1>1, HeadIsNoCommit DEF ChainLands, Logs
<1> HIDE DEF x, e, a, t, q, more
<1>4. /\ y.pc = x.pc /\ y.token = x.token /\ y.local = x.local /\ y.sent = x.sent
      /\ y.goal = x.goal /\ y.mirror = x.mirror /\ y.fatal = x.fatal
  BY <1>2 DEF Slot
<1> HIDE DEF y
<1>5. CalmTo(x, Rest(y), transcript)
  BY <1>2, <1>4, LikeCalm, RestCalm DEF Healthy
<1> QED
  BY <1>1, <1>3, <1>5, CalmStep DEF ChainLands, Calm, x

LEMMA ObserveCommits == \A s \in Slots : IInv /\ CommitInv /\ Observe(s) => CommitInv'
<1> SUFFICES ASSUME NEW s \in Slots, IInv, CommitInv, Observe(s) PROVE CommitInv'
  OBVIOUS
<1> DEFINE x == slots[s]
           g == FirstFatal(s, IF x.mirror = "fenced" THEN "CONFLICT" ELSE "INTERNAL")
           y == [x EXCEPT !.mirror = "ok", !.fatal = g]
<1>1. /\ slots' = [slots EXCEPT ![s] = y] /\ x \in Slot /\ Sends(x, transcript)
      /\ g # "none"
  BY Parts, FatalStays DEF CommitInv, Observe
<1> HIDE DEF x, g
<1>2. /\ y.pc = x.pc /\ y.token = x.token /\ y.local = x.local /\ y.sent = x.sent
      /\ y.goal = x.goal /\ y.fatal = g
  BY <1>1 DEF Slot
<1> HIDE DEF y
<1>3. CalmTo(x, y, transcript)
  BY <1>1, <1>2, LikeCalm DEF Healthy
<1> QED
  BY <1>1, <1>3, CalmStep DEF Observe, Calm, Logs, x

\* The terminal event takes effect, or is lost, or both.
LEMMA EndCommits == \A s \in Slots : IInv /\ CommitInv /\ End(s) => CommitInv'
<1> SUFFICES ASSUME NEW s \in Slots, IInv, CommitInv, End(s) PROVE CommitInv'
  OBVIOUS
<1> DEFINE x == slots[s]
<1>1. x \in Slot /\ Sends(x, transcript) /\ x.pc = "end" /\ x.goal \in Event
  BY Parts, SlotFields DEF CommitInv, End
<1>2. CASE Taken(x.end)
  <2>1. Return(s, "conflict") /\ log' = log
    BY <1>2 DEF End
  <2>2. Calm(s)
    BY <2>1, ReturnCalm DEF Outcome
  <2> QED
    BY <2>1, <2>2, CalmStep DEF End, Logs
<1>3. CASE ~Taken(x.end)
  <2> DEFINE a == Push(s, x.goal)
             o == IF x.goal.type = "turn_completed" THEN "completed" ELSE "failed"
             w == [x EXCEPT !.mem = a]
  <2>1. slots' = [slots EXCEPT ![s] = Done(w, o)] /\ log' = Append(log, x.goal)
    BY <1>3 DEF End, EndWrites
  <2>2. Logs(s)
    BY <1>1, <2>1 DEF Logs
  <2>3. a \in Seq(Event) /\ o \in Outcome
    BY <1>1, SlotFields, Appends DEF Push, Outcome
  <2> HIDE DEF x, a, o
  <2>4. /\ w \in Slot /\ w.pc = x.pc /\ w.token = x.token /\ w.local = x.local
        /\ w.sent = x.sent /\ w.goal = x.goal /\ w.mirror = x.mirror /\ w.fatal = x.fatal
    BY <1>1, <2>3 DEF Slot
  <2> HIDE DEF w
  <2>5. CalmTo(x, w, transcript)
    BY <1>1, <2>4, LikeCalm DEF Healthy
  <2>6. Sends(w, transcript)
    BY <2>5 DEF CalmTo
  <2>7. CalmTo(w, Done(w, o), transcript)
    BY <2>3, <2>4, <2>6, DoneCalm
  <2>8. Calm(s)
    BY <2>1, <2>5, <2>7, CalmTrans DEF Calm, x
  <2> QED
    BY <2>2, <2>8, CalmStep DEF End
<1> QED
  BY <1>2, <1>3

LEMMA EndThrowsCommits == \A s \in Slots : IInv /\ CommitInv /\ EndThrows(s) => CommitInv'
<1> SUFFICES ASSUME NEW s \in Slots, IInv, CommitInv, EndThrows(s) PROVE CommitInv'
  OBVIOUS
<1>1. slots[s].goal \in Event
  BY Parts, SlotFields
<1>2. Logs(s)
  BY <1>1 DEF EndThrows, EndWrites, Logs
<1>3. Calm(s)
  BY MapErrorCalm, ReturnCalm DEF EndThrows, Outcome
<1> QED
  BY <1>2, <1>3, CalmStep DEF EndThrows

\* No attempt, event or row is newer than the log.
LEMMA TokensAreOld ==
  ASSUME IInv
  PROVE  /\ \A s \in Slots : slots[s].token <= Len(log)
         /\ \A i \in 1 .. Len(log) : log[i].by <= Len(log)
         /\ \A r \in 1 .. Len(transcript) : transcript[r].by <= Len(log)
<1>1. Len(log) \in Nat
  BY Parts
<1>2. ASSUME NEW s \in Slots
      PROVE  slots[s].token <= Len(log)
  <2>1. SlotOK(slots[s], log, finished) /\ slots[s].token \in Nat /\ Len(slots[s].mem) \in Nat
    BY Parts, SlotFields DEF SlotsOK
  <2>2. CASE slots[s].token = 0
    BY <1>1, <2>2
  <2>3. CASE slots[s].token # 0
    <3>1. slots[s].token \in 1 .. Len(slots[s].mem) /\ Len(slots[s].mem) <= Len(log)
      BY <2>1, <2>3 DEF SlotOK, Fenced, Reigns, Remembers
    <3> QED
      BY <1>1, <2>1, <3>1
  <2> QED
    BY <2>2, <2>3
<1>3. ASSUME NEW i \in 1 .. Len(log)
      PROVE  log[i].by <= Len(log)
  <2>1. CASE log[i].by = 0
    BY <1>1, <2>1
  <2>2. CASE log[i].by # 0
    <3>1. log[i].by \in 1 .. i
      BY <2>2, Parts DEF LogOK, Reigns
    <3> QED
      BY <1>1, <3>1
  <2> QED
    BY <2>1, <2>2
<1>4. ASSUME NEW r \in 1 .. Len(transcript)
      PROVE  transcript[r].by <= Len(log)
  <2>1. transcript[r].by \in Nat /\ session.fence \in Nat
    BY Parts, RowFields
  <2>2. transcript[r].by <= session.fence /\ session.fence <= Len(log)
    BY Parts DEF MirrorOK
  <2> QED
    BY <1>1, <2>1, <2>2
<1> QED
  BY <1>2, <1>3, <1>4

\* A new attempt begins without rows.
LEMMA FenceCommits == \A s \in Slots : IInv /\ CommitInv /\ Fence(s) => CommitInv'
<1> SUFFICES ASSUME NEW s \in Slots, IInv, CommitInv, Fence(s) PROVE CommitInv'
  OBVIOUS
<1>1. CASE Taken(NextSeq(s))
  <2>1. Return(s, "conflict") /\ log' = log
    BY <1>1 DEF Fence
  <2>2. Calm(s)
    BY <2>1, ReturnCalm DEF Outcome
  <2> QED
    BY <2>1, <2>2, CalmStep DEF Fence, Logs
<1>2. CASE ~Taken(NextSeq(s))
  <2> DEFINE x == slots[s]
             q == NextSeq(s)
             e == Started(q)
             a == Append(x.mem, e)
             y == [x EXCEPT !.pc = "recover", !.token = q, !.mem = a]
             m == log'
  <2>1. /\ slots' = [slots EXCEPT ![s] = y] /\ log' = Append(log, e)
        /\ transcript' = transcript
    BY <1>2, Parts DEF Fence, FenceWrites, Push
  <2>2. e \in Event /\ q = Len(log) + 1
    BY <1>2, FenceLogs DEF Fence
  <2>3. x \in Slot /\ Sends(x, transcript) /\ x.pc = "fence" /\ Len(log) \in Nat
    BY Parts DEF CommitInv, Fence
  <2>4. e.type = "harness_attempt_started"
    BY EventsAre
  <2>5. /\ Len(m) = Len(log) + 1
        /\ \A j \in 1 .. Len(log) : m[j] = log[j]
        /\ m[Len(log) + 1] = e
    BY <2>1, <2>2, Parts, Appends
  <2>6. \A u \in Slots : u # s => slots'[u] = slots[u]
    BY <2>1, Parts
  <2>7. slots'[s] = y
    BY <2>1, Parts
  <2> HIDE DEF x, q, e, a
  <2>8. y.pc = "recover" /\ y.token = q /\ y.local = x.local /\ y.sent = x.sent
    BY <2>3 DEF Slot
  <2> HIDE DEF y, m
  <2>9. x.local = 0 /\ x.sent = 0
    <3>1. x.local = 0 /\ x.sent <= x.local /\ x.sent \in Nat
      BY <2>3, SlotFields DEF Sends
    <3> QED
      BY <3>1
  <2>10. \A r \in 1 .. Len(transcript) : transcript[r].by # q
    <3> TAKE r \in 1 .. Len(transcript)
    <3>1. transcript[r].by <= Len(log) /\ transcript[r].by \in Nat
      BY TokensAreOld, Parts, RowFields
    <3> QED
      BY <2>2, <2>3, <3>1
  <2>11. Mirrors(transcript, q, 0)
    BY <2>10 DEF Mirrors
  <2>12. q # 0
    BY <2>2, <2>3
  <2>13. Sends(y, transcript)
    <3>1. 0 \in y.sent .. y.local /\ y.sent <= y.local
      BY <2>8, <2>9
    <3> QED
      BY <2>8, <2>9, <2>11, <2>12, <3>1 DEF Sends, ToCommit
  <2>14. \A u \in Slots : Sends(slots'[u], transcript')
    BY <2>1, <2>6, <2>7, <2>13 DEF CommitInv
  <2>15. \A u \in Slots : u # s => slots'[u].token # q
    <3> SUFFICES ASSUME NEW u \in Slots, u # s PROVE slots'[u].token # q
      OBVIOUS
    <3>1. slots'[u].token <= Len(log) /\ slots'[u].token \in Nat
      BY <2>6, TokensAreOld, Parts, SlotFields
    <3> QED
      BY <2>2, <2>3, <3>1
  <2>16. OneSlotAnAttempt'
    BY <2>6, <2>7, <2>8, <2>15 DEF CommitInv, OneSlotAnAttempt
  <2>17. ASSUME NEW i \in 1 .. Len(m), m[i].type = "turn_completed"
         PROVE  i \in 1 .. Len(log) /\ m[i] = log[i]
    <3>1. i \in 1 .. Len(log) \/ i = Len(log) + 1
      BY <2>3, <2>5
    <3> QED
      BY <2>4, <2>5, <2>17, <3>1
  <2>18. Committed(m, transcript')
    BY <2>1, <2>17 DEF CommitInv, Committed
  <2>19. CommittedSilent'
    <3> SUFFICES ASSUME NEW i \in 1 .. Len(m), m[i].type = "turn_completed",
                        NEW u \in Slots, slots'[u].token = m[i].by
                 PROVE  Silent(slots'[u])
      BY DEF CommittedSilent, m
    <3>1. i \in 1 .. Len(log) /\ m[i] = log[i]
      BY <2>17
    <3>2. log[i].by <= Len(log) /\ log[i].by \in Nat
      <4>1. log[i] \in Event
        BY <3>1, Parts
      <4> QED
        BY <3>1, <4>1, TokensAreOld DEF Event
    <3>3. u # s
      BY <2>2, <2>3, <2>7, <2>8, <3>1, <3>2
    <3> QED
      BY <2>6, <3>1, <3>3 DEF CommitInv, CommittedSilent
  <2> QED
    BY <2>14, <2>16, <2>18, <2>19 DEF CommitInv, m
<1> QED
  BY <1>1, <1>2

\* A batch behind the rows.
LEMMA BatchBehind ==
  ASSUME NEW t \in Seq(Row), NEW b \in Seq(Row)
  PROVE  /\ Len(t) \in Nat /\ Len(b) \in Nat /\ Len(t \o b) = Len(t) + Len(b)
         /\ \A i \in 1 .. Len(t) : (t \o b)[i] = t[i]
         /\ \A i \in 1 .. Len(b) : Len(t) + i \in 1 .. Len(t \o b) /\ (t \o b)[Len(t) + i] = b[i]
         /\ \A i \in 1 .. Len(t \o b) :
              \/ i \in 1 .. Len(t)
              \/ i - Len(t) \in 1 .. Len(b) /\ (t \o b)[i] = b[i - Len(t)]
<1> DEFINE u == t \o b
<1>1. /\ Len(t) \in Nat /\ Len(b) \in Nat /\ Len(u) = Len(t) + Len(b)
      /\ \A i \in 1 .. Len(t) : u[i] = t[i]
      /\ \A i \in 1 .. Len(u) : i > Len(t) => u[i] = b[i - Len(t)]
  OBVIOUS
<1> HIDE DEF u
<1>2. \A i \in 1 .. Len(b) : Len(t) + i \in 1 .. Len(u) /\ u[Len(t) + i] = b[i]
  <2> TAKE i \in 1 .. Len(b)
  <2>1. Len(t) + i \in 1 .. Len(u) /\ Len(t) + i > Len(t) /\ (Len(t) + i) - Len(t) = i
    BY <1>1
  <2> QED
    BY <1>1, <2>1
<1>3. \A i \in 1 .. Len(u) :
        \/ i \in 1 .. Len(t)
        \/ i - Len(t) \in 1 .. Len(b) /\ u[i] = b[i - Len(t)]
  BY <1>1
<1> QED
  BY <1>1, <1>2, <1>3 DEF u

\* It leaves the rows of the other attempts as they are.
LEMMA OthersMirrored ==
  ASSUME NEW t \in Seq(Row), NEW b \in Seq(Row), NEW p, NEW q, NEW c, q # p,
         \A i \in 1 .. Len(b) : b[i].by = p, Mirrors(t, q, c)
  PROVE  Mirrors(t \o b, q, c)
<1> DEFINE u == t \o b
<1>1. /\ Len(t) \in Nat /\ Len(b) \in Nat /\ Len(u) = Len(t) + Len(b)
      /\ \A i \in 1 .. Len(t) : u[i] = t[i]
      /\ \A i \in 1 .. Len(u) :
           \/ i \in 1 .. Len(t)
           \/ i - Len(t) \in 1 .. Len(b) /\ u[i] = b[i - Len(t)]
  BY BatchBehind
<1> HIDE DEF u
<1>2. \A i \in 1 .. Len(u) : u[i].by = q => i \in 1 .. Len(t) /\ u[i] = t[i]
  BY <1>1
<1>3. \A i \in 1 .. Len(t) : i \in 1 .. Len(u)
  BY <1>1
<1>4. \A r \in 1 .. Len(u) : u[r].by = q => u[r].n \in 1 .. c
  BY <1>2 DEF Mirrors
<1>5. \A n \in 1 .. c : \E r \in 1 .. Len(u) : u[r] = [by |-> q, n |-> n]
  BY <1>1, <1>3 DEF Mirrors
<1>6. ASSUME NEW r \in 1 .. Len(u), NEW w \in 1 .. Len(u),
             r < w, u[r].by = q, u[w].by = q, u[w].n <= u[r].n
      PROVE  /\ u[w].n \in Anonymous
             /\ \E o \in 1 .. Len(u) : o < w /\ u[o] = u[w]
  <2>1. /\ r \in 1 .. Len(t) /\ u[r] = t[r]
        /\ w \in 1 .. Len(t) /\ u[w] = t[w]
    BY <1>2, <1>6
  <2>2. /\ t[w].n \in Anonymous
        /\ \E o \in 1 .. Len(t) : o < w /\ t[o] = t[w]
    BY <1>6, <2>1 DEF Mirrors
  <2> QED
    BY <1>1, <1>3, <2>1, <2>2
<1> QED
  BY <1>4, <1>5, <1>6 DEF Mirrors, u

\* Its own attempt then has all entries.
LEMMA BatchMirrored ==
  ASSUME NEW t \in Seq(Row), NEW b \in Seq(Row), NEW p \in Nat, NEW c \in Nat, NEW m \in Nat,
         c <= m, Mirrors(t, p, c),
         \A i \in 1 .. Len(b) : b[i].by = p /\ b[i].n \in 1 .. m,
         \A i \in 1 .. Len(b) : b[i].n <= c => b[i].n \in Anonymous,
         \A n \in 1 .. m : n > c => \E i \in 1 .. Len(b) : b[i] = [by |-> p, n |-> n],
         \A i, j \in 1 .. Len(b) : i < j => b[i].n < b[j].n
  PROVE  Mirrors(t \o b, p, m)
<1> DEFINE u == t \o b
<1>1. /\ Len(t) \in Nat /\ Len(b) \in Nat /\ Len(u) = Len(t) + Len(b)
      /\ \A i \in 1 .. Len(t) : u[i] = t[i]
      /\ \A i \in 1 .. Len(b) : Len(t) + i \in 1 .. Len(u) /\ u[Len(t) + i] = b[i]
      /\ \A i \in 1 .. Len(u) :
           \/ i \in 1 .. Len(t)
           \/ i - Len(t) \in 1 .. Len(b) /\ u[i] = b[i - Len(t)]
  BY BatchBehind
<1> HIDE DEF u
<1>2. \A i \in 1 .. Len(t) : i \in 1 .. Len(u)
  BY <1>1
<1>3. \A i \in 1 .. Len(t) : t[i].by = p => t[i].n \in 1 .. c
  BY DEF Mirrors
<1>4. ASSUME NEW r \in 1 .. Len(u), u[r].by = p
      PROVE  u[r].n \in 1 .. m
  <2>1. CASE r \in 1 .. Len(t)
    <3>1. u[r] = t[r] /\ t[r].n \in 1 .. c
      BY <1>1, <1>3, <1>4, <2>1
    <3> QED
      BY <3>1
  <2>2. CASE r - Len(t) \in 1 .. Len(b) /\ u[r] = b[r - Len(t)]
    BY <2>2
  <2> QED
    BY <1>1, <2>1, <2>2
<1>5. ASSUME NEW n \in 1 .. m
      PROVE  \E r \in 1 .. Len(u) : u[r] = [by |-> p, n |-> n]
  <2>1. CASE n <= c
    <3>1. n \in 1 .. c
      BY <2>1
    <3>2. PICK r \in 1 .. Len(t) : t[r] = [by |-> p, n |-> n]
      BY <3>1 DEF Mirrors
    <3> QED
      BY <1>1, <1>2, <3>2
  <2>2. CASE n > c
    <3>1. PICK i \in 1 .. Len(b) : b[i] = [by |-> p, n |-> n]
      BY <2>2
    <3> QED
      BY <1>1, <3>1
  <2> QED
    BY <2>1, <2>2
<1>6. ASSUME NEW r \in 1 .. Len(u), NEW q \in 1 .. Len(u),
             r < q, u[r].by = p, u[q].by = p, u[q].n <= u[r].n
      PROVE  /\ u[q].n \in Anonymous
             /\ \E o \in 1 .. Len(u) : o < q /\ u[o] = u[q]
  <2>1. CASE q \in 1 .. Len(t)
    <3>1. r \in 1 .. Len(t) /\ u[r] = t[r] /\ u[q] = t[q]
      BY <1>1, <1>6, <2>1
    <3>2. /\ t[q].n \in Anonymous
          /\ \E o \in 1 .. Len(t) : o < q /\ t[o] = t[q]
      BY <1>6, <2>1, <3>1 DEF Mirrors
    <3> QED
      BY <1>1, <1>2, <3>1, <3>2
\* The row is of the batch: an entry that the table had already.
  <2>2. CASE q - Len(t) \in 1 .. Len(b) /\ u[q] = b[q - Len(t)]
    <3>1. u[q].n \in 1 .. m /\ u[r].n \in 1 .. m /\ u[q] \in Row
      BY <1>4, <1>6, <2>2
    <3>2. u[q].n <= c
      <4>1. CASE r \in 1 .. Len(t)
        <5>1. u[r].n \in 1 .. c
          BY <1>1, <1>3, <1>6, <4>1
        <5> QED
          BY <1>6, <3>1, <5>1
      <4>2. CASE r - Len(t) \in 1 .. Len(b) /\ u[r] = b[r - Len(t)]
        <5>1. r - Len(t) < q - Len(t)
          BY <1>1, <1>6
        <5>2. u[r].n < u[q].n
          BY <2>2, <4>2, <5>1
        <5> QED
          BY <1>6, <3>1, <5>2
      <4> QED
        BY <1>1, <4>1, <4>2
    <3>3. u[q].n \in Anonymous
      BY <2>2, <3>2
    <3>4. u[q] = [by |-> p, n |-> u[q].n]
      BY <1>6, <3>1 DEF Row
    <3>5. PICK o \in 1 .. Len(t) : t[o] = [by |-> p, n |-> u[q].n]
      <4>1. u[q].n \in 1 .. c
        BY <3>1, <3>2
      <4> QED
        BY <4>1 DEF Mirrors
    <3>6. o \in 1 .. Len(u) /\ o < q /\ u[o] = u[q]
      BY <1>1, <1>2, <2>2, <3>4, <3>5
    <3> QED
      BY <3>3, <3>6
  <2> QED
    BY <1>1, <2>1, <2>2
<1> QED
  BY <1>4, <1>5, <1>6 DEF Mirrors, u

\* What a try sends: the entries that no earlier try has left in the table, and
\* those without a uuid.
LEMMA BatchIs ==
  ASSUME IInv, NEW s \in Slots, NEW b \in Batches(s),
         NEW c \in slots[s].sent .. slots[s].local,
         Mirrors(transcript, slots[s].token, c)
  PROVE  /\ c \in Nat /\ c <= slots[s].local
         /\ \A i \in 1 .. Len(b) : b[i].by = slots[s].token /\ b[i].n \in 1 .. slots[s].local
         /\ \A i \in 1 .. Len(b) : b[i].n <= c => b[i].n \in Anonymous
         /\ \A n \in 1 .. slots[s].local : n > c =>
              \E i \in 1 .. Len(b) : b[i] = [by |-> slots[s].token, n |-> n]
         /\ \A i, j \in 1 .. Len(b) : i < j => b[i].n < b[j].n
<1> DEFINE p == slots[s].token
           o == slots[s].sent
           h == slots[s].local
<1>1. o \in Nat /\ h \in Nat /\ p \in Nat /\ c \in Nat /\ o <= c /\ c <= h
  BY Parts, SlotFields
<1>2. /\ DOMAIN b = 1 .. Len(b)
      /\ \A i \in 1 .. Len(b) : b[i] \in Fresh(s) /\ b[i].by = p
  BY BatchRows
<1>3. /\ Fresh(s) \subseteq {b[i] : i \in DOMAIN b}
      /\ \A i, j \in DOMAIN b : i < j => b[i].n < b[j].n
  BY DEF Batches
<1>4. DOMAIN transcript = 1 .. Len(transcript) /\ Mirrors(transcript, p, c)
  BY Parts
<1>5. Fresh(s) = {e \in {[by |-> p, n |-> n] : n \in o + 1 .. h} :
                   e.n \in Anonymous \/ \A r \in DOMAIN transcript : transcript[r] # e}
  BY DEF Fresh
<1> HIDE DEF p, o, h
<1>6. ASSUME NEW i \in 1 .. Len(b)
      PROVE  b[i].n \in 1 .. h /\ (b[i].n <= c => b[i].n \in Anonymous)
  <2>1. PICK n \in o + 1 .. h : b[i] = [by |-> p, n |-> n]
    BY <1>2, <1>5
  <2>2. b[i].n = n /\ n \in 1 .. h
    BY <1>1, <2>1
  <2>3. ASSUME n <= c
        PROVE  n \in Anonymous
    <3>1. n \in 1 .. c
      BY <2>2, <2>3
    <3>2. PICK r \in 1 .. Len(transcript) : transcript[r] = [by |-> p, n |-> n]
      BY <1>4, <3>1 DEF Mirrors
    <3> QED
      BY <1>2, <1>4, <1>5, <2>1, <2>2, <3>2
  <2> QED
    BY <2>2, <2>3
<1>7. ASSUME NEW n \in 1 .. h, n > c
      PROVE  \E i \in 1 .. Len(b) : b[i] = [by |-> p, n |-> n]
  <2> DEFINE e == [by |-> p, n |-> n]
  <2>1. e.by = p /\ e.n = n /\ n \in o + 1 .. h /\ n \notin 1 .. c
    BY <1>1, <1>7
  <2>2. \A r \in 1 .. Len(transcript) : transcript[r] # e
    BY <1>4, <2>1 DEF Mirrors
  <2>3. e \in Fresh(s)
    BY <1>4, <1>5, <2>1, <2>2
  <2> HIDE DEF e
  <2>4. \E i \in 1 .. Len(b) : b[i] = e
    BY <1>2, <1>3, <2>3
  <2> QED
    BY <2>4 DEF e
<1>8. \A i, j \in 1 .. Len(b) : i < j => b[i].n < b[j].n
  BY <1>2, <1>3
<1> QED
  BY <1>1, <1>2, <1>6, <1>7, <1>8 DEF p, h

\* The slot after a batch left it, or after its reply was lost.
LEMMA SentCalm ==
  ASSUME NEW x \in Slot, NEW y \in Slot, NEW t, NEW u, Sends(x, t), x.sent < x.local,
         y.pc = x.pc, y.token = x.token, y.local = x.local, y.goal = x.goal,
         y.sent \in {x.sent, x.local},
         Healthy(y) => Mirrors(u, x.token, x.local)
  PROVE  CalmTo(x, y, u)
<1>1. /\ x.sent \in Nat /\ x.local \in Nat /\ y.sent \in Nat /\ y.local \in Nat
      /\ y.sent <= y.local /\ x.sent # x.local
  BY SlotFields
<1>2. y.local \in y.sent .. y.local
  BY <1>1
<1>3. ToCommit(y) <=> ToCommit(x)
  BY DEF ToCommit
<1>4. ~(ToCommit(y) /\ y.pc = "end")
  BY <1>1, <1>3 DEF Sends
<1>5. /\ y.pc \in {"read", "fence", "recover", "attach"} => y.local = 0
      /\ y.pc \in Driven => y.token # 0
      /\ ToCommit(y) => y.goal.key = y.local /\ y.goal.by = y.token
  BY <1>3 DEF Sends
<1>6. Healthy(y) => \E c \in y.sent .. y.local : Mirrors(u, y.token, c)
  BY <1>2
<1>7. Sends(y, u)
  BY <1>1, <1>4, <1>5, <1>6 DEF Sends
<1>8. ~Silent(x)
  BY <1>1 DEF Silent
<1> QED
  BY <1>7, <1>8 DEF CalmTo

LEMMA DropBatchCommits == \A s \in Slots : IInv /\ CommitInv /\ DropBatch(s) => CommitInv'
<1> SUFFICES ASSUME NEW s \in Slots, IInv, CommitInv, DropBatch(s) PROVE CommitInv'
  OBVIOUS
<1> DEFINE x == slots[s]
           n == x.local
           m == IF x.mirror = "fenced" THEN x.mirror ELSE "dropped"
           y == [x EXCEPT !.sent = n, !.mirror = m]
<1>1. /\ slots' = [slots EXCEPT ![s] = y] /\ x \in Slot /\ Sends(x, transcript)
      /\ x.sent < x.local /\ m \in {"dropped", "fenced"} /\ n \in Nat
  BY Parts, SlotFields DEF CommitInv, DropBatch, Unmirrored
<1>2. n = x.local
  OBVIOUS
<1> HIDE DEF x, m, n
<1>3. /\ y \in Slot /\ y.pc = x.pc /\ y.token = x.token /\ y.local = x.local
      /\ y.goal = x.goal /\ y.sent = x.local /\ y.mirror # "ok"
  BY <1>1, <1>2 DEF Slot
<1> HIDE DEF y
<1>4. CalmTo(x, y, transcript)
  BY <1>1, <1>3, SentCalm DEF Healthy
<1> QED
  BY <1>1, <1>4, CalmStep DEF DropBatch, Calm, Logs, x

\* A batch goes in: the slot takes it for sent, or never hears of it.
LEMMA BatchCommits ==
  ASSUME IInv, CommitInv, NEW s \in Slots, NEW y \in Slot, Unmirrored(s),
         slots' = [slots EXCEPT ![s] = y], Insert(s), log' = log,
         y.pc = slots[s].pc, y.token = slots[s].token, y.local = slots[s].local,
         y.goal = slots[s].goal, y.sent \in {slots[s].sent, slots[s].local},
         y.mirror = slots[s].mirror, y.fatal = slots[s].fatal
  PROVE  CommitInv'
<1>0. PICK b \in Batches(s) : transcript' = transcript \o b
  BY DEF Insert
<1> DEFINE x == slots[s]
           t == transcript
           p == slots[s].token
<1>1. /\ x \in Slot /\ Sends(x, t) /\ x.sent < x.local
      /\ t \in Seq(Row) /\ b \in Seq(Row) /\ \A i \in 1 .. Len(b) : b[i].by = p
  BY Parts, BatchRows DEF CommitInv, Unmirrored
<1>2. x.sent \in Nat /\ x.local \in Nat /\ p \in Nat
  BY <1>1, SlotFields
<1>3. ASSUME Healthy(y)
      PROVE  Mirrors(t \o b, p, x.local)
  <2>1. Healthy(x)
    BY <1>3 DEF Healthy
  <2>2. PICK c \in x.sent .. x.local : Mirrors(t, p, c)
    BY <1>1, <2>1 DEF Sends
  <2>3. /\ c \in Nat /\ c <= x.local
        /\ \A i \in 1 .. Len(b) : b[i].by = p /\ b[i].n \in 1 .. x.local
        /\ \A i \in 1 .. Len(b) : b[i].n <= c => b[i].n \in Anonymous
        /\ \A n \in 1 .. x.local : n > c =>
             \E i \in 1 .. Len(b) : b[i] = [by |-> p, n |-> n]
        /\ \A i, j \in 1 .. Len(b) : i < j => b[i].n < b[j].n
    BY <2>2, BatchIs
  <2> HIDE DEF x, t, p
  <2> QED
    BY <1>1, <1>2, <2>2, <2>3, BatchMirrored
<1>4. CalmTo(x, y, t \o b)
  BY <1>1, <1>3, SentCalm
<1>5. \A q, c : q # p /\ Mirrors(t, q, c) => Mirrors(t \o b, q, c)
  BY <1>1, OthersMirrored
<1>6. slots'[s] = y /\ \A u \in Slots : u # s => slots'[u] = slots[u]
  BY Parts
<1>7. ASSUME NEW u \in Slots, u # s
      PROVE  Sends(slots[u], t \o b)
  <2>1. Sends(slots[u], t)
    BY DEF CommitInv
  <2>2. slots[u].token # 0 => slots[u].token # p
    BY <1>7 DEF CommitInv, OneSlotAnAttempt
  <2>3. Healthy(slots[u]) => slots[u].token # 0
    BY <2>1 DEF Sends, Healthy
  <2> HIDE DEF t, p
  <2>4. Healthy(slots[u]) =>
          \E c \in slots[u].sent .. slots[u].local : Mirrors(t \o b, slots[u].token, c)
    BY <1>5, <2>1, <2>2, <2>3 DEF Sends
  <2>5. ToCommit(slots[u]) /\ slots[u].pc = "end" =>
          /\ slots[u].token # 0 /\ slots[u].sent = slots[u].local
          /\ Mirrors(t \o b, slots[u].token, slots[u].local)
    BY <1>5, <2>1, <2>2 DEF Sends
  <2> QED
    BY <2>1, <2>4, <2>5 DEF Sends
<1>8. \A u \in Slots : Sends(slots'[u], transcript')
  BY <1>0, <1>4, <1>6, <1>7 DEF CalmTo
<1>9. OneSlotAnAttempt'
  BY <1>6 DEF CommitInv, OneSlotAnAttempt
<1>10. ASSUME NEW i \in 1 .. Len(log), log[i].type = "turn_completed"
       PROVE  /\ log[i].by # 0 /\ Mirrors(t \o b, log[i].by, log[i].key)
              /\ \A u \in Slots : slots'[u].token = log[i].by => Silent(slots'[u])
  <2>1. /\ log[i].by # 0 /\ Mirrors(t, log[i].by, log[i].key)
        /\ \A u \in Slots : slots[u].token = log[i].by => Silent(slots[u])
    BY <1>10 DEF CommitInv, Committed, CommittedSilent
  <2>2. ~Silent(x)
    BY <1>1, <1>2 DEF Silent
  <2>3. log[i].by # p
    BY <2>1, <2>2
  <2>4. \A u \in Slots : slots'[u].token = log[i].by => Silent(slots'[u])
    BY <1>6, <2>1, <2>3
  <2> QED
    BY <1>5, <2>1, <2>3, <2>4
<1>11. Committed(log', transcript')
  BY <1>0, <1>10 DEF Committed
<1>12. CommittedSilent'
  BY <1>10 DEF CommittedSilent
<1> QED
  BY <1>8, <1>9, <1>11, <1>12 DEF CommitInv

LEMMA FlushCommits == \A s \in Slots : IInv /\ CommitInv /\ Flush(s) => CommitInv'
<1> SUFFICES ASSUME NEW s \in Slots, IInv, CommitInv, Flush(s) PROVE CommitInv'
  OBVIOUS
<1> DEFINE x == slots[s]
           n == x.local
<1>1. /\ x \in Slot /\ Sends(x, transcript) /\ x.sent < x.local /\ n \in Nat
      /\ Unmirrored(s)
  BY Parts, SlotFields DEF CommitInv, Flush, Unmirrored
<1>2. n = x.local
  OBVIOUS
<1>3. CASE Guarded(s)
  <2> DEFINE y == [x EXCEPT !.sent = n]
  <2>1. slots' = [slots EXCEPT ![s] = y] /\ Insert(s)
    BY <1>3, Parts DEF Flush
  <2> HIDE DEF x, n
  <2>2. /\ y \in Slot /\ y.pc = x.pc /\ y.token = x.token /\ y.local = x.local
        /\ y.goal = x.goal /\ y.sent = x.local /\ y.mirror = x.mirror /\ y.fatal = x.fatal
    BY <1>1, <1>2 DEF Slot
  <2> HIDE DEF y
  <2> QED
    BY <1>1, <2>1, <2>2, BatchCommits DEF Flush, x
<1>4. CASE ~Guarded(s)
  <2> DEFINE y == [x EXCEPT !.sent = n, !.mirror = "fenced"]
  <2>1. slots' = [slots EXCEPT ![s] = y] /\ transcript' = transcript
    BY <1>4, Parts DEF Flush
  <2> HIDE DEF x, n
  <2>2. /\ y \in Slot /\ y.pc = x.pc /\ y.token = x.token /\ y.local = x.local
        /\ y.goal = x.goal /\ y.sent = x.local /\ y.mirror # "ok"
    BY <1>1, <1>2 DEF Slot
  <2> HIDE DEF y
  <2>3. CalmTo(x, y, transcript)
    BY <1>1, <2>2, SentCalm DEF Healthy
  <2> QED
    BY <2>1, <2>3, CalmStep DEF Flush, Calm, Logs, x
<1> QED
  BY <1>3, <1>4

LEMMA FlushReplyLostCommits ==
  \A s \in Slots : IInv /\ CommitInv /\ FlushReplyLost(s) => CommitInv'
<1> SUFFICES ASSUME NEW s \in Slots, IInv, CommitInv, FlushReplyLost(s) PROVE CommitInv'
  OBVIOUS
<1>1. slots[s] \in Slot /\ slots' = [slots EXCEPT ![s] = slots[s]]
  BY Parts DEF FlushReplyLost
<1> QED
  BY <1>1, BatchCommits DEF FlushReplyLost

LEMMA CommitsStep == IInv /\ CommitInv /\ [Next]_vars => CommitInv'
<1> SUFFICES ASSUME IInv, CommitInv, [Next]_vars PROVE CommitInv'
  OBVIOUS
<1>1. ASSUME NEW s \in Slots, Turn(s) PROVE CommitInv'
  BY <1>1, ReadCommits, FenceCommits, RecoverCommits, RecordRecoveredCommits, ErrorCommits,
     DriveCommits, StreamEndsCommits, EndCommits, SettleCommits DEF Turn
<1>2. ASSUME NEW s \in Slots, Driver(s) PROVE CommitInv'
  BY <1>2, SayCommits, VendorFailsCommits, VendorResultCommits, ChainFailsCommits,
     ChainLandsCommits, StallCommits, ReportCommits, ExecThrowsCommits, FlushCommits,
     ObserveCommits DEF Driver
<1>3. ASSUME NEW s \in Slots, Fault(s) PROVE CommitInv'
  BY <1>3, StallCommits, CrashCommits, FenceThrowsCommits, RecoveryThrowsCommits,
     ChainFailsCommits, FlushReplyLostCommits, DropBatchCommits, EndThrowsCommits DEF Fault
<1> QED
  BY <1>1, <1>2, <1>3, AsideCommits, PullCommits DEF Next

LEMMA CommitsInit == Init => CommitInv
<1> SUFFICES ASSUME Init PROVE CommitInv
  OBVIOUS
<1>1. \A s \in Slots : slots[s] = Idle
  BY DEF Init
<1>2. Len(log) = 0
  BY DEF Init
<1>3. /\ Idle.token = 0 /\ \A t : Sends(Idle, t)
  BY IdleCalm DEF CalmTo, Idle
<1> QED
  BY <1>1, <1>2, <1>3 DEF CommitInv, OneSlotAnAttempt, Committed, CommittedSilent

\* A completed turn has its whole transcript in the database, in order, and
\* nothing but the entries without a uuid has more than one row (claude-code.ts,
\* claude-code-store.ts 79-80; DESIGN.md 10, invariant 4), whatever batches were
\* dropped, fenced or sent twice.
THEOREM CommitsAreWhole == Spec => []CommitIsWhole
<1>1. IInv /\ CommitInv => CommitIsWhole
  <2> SUFFICES ASSUME IInv, CommitInv, NEW i \in DOMAIN log, log[i].type = "turn_completed"
               PROVE  LET rows == RowsOf(log[i].by)
                      IN  /\ {transcript[r].n : r \in rows} = 1 .. log[i].key
                          /\ \A r, q \in rows : r < q /\ transcript[q].n <= transcript[r].n =>
                               /\ transcript[q].n \in Anonymous
                               /\ \E o \in rows : o < q /\ transcript[o] = transcript[q]
    BY DEF CommitIsWhole
  <2> DEFINE p == log[i].by
             k == log[i].key
  <2>1. DOMAIN log = 1 .. Len(log) /\ DOMAIN transcript = 1 .. Len(transcript)
    BY Parts
  <2>2. Mirrors(transcript, p, k)
    BY <2>1 DEF CommitInv, Committed
  <2>3. RowsOf(p) = {r \in 1 .. Len(transcript) : transcript[r].by = p}
    BY <2>1 DEF RowsOf
  <2> HIDE DEF p, k
  <2>4. ASSUME NEW n \in 1 .. k
        PROVE  \E r \in RowsOf(p) : transcript[r].n = n
    <3>1. PICK r \in 1 .. Len(transcript) : transcript[r] = [by |-> p, n |-> n]
      BY <2>2 DEF Mirrors
    <3> QED
      BY <2>3, <3>1
  <2>5. {transcript[r].n : r \in RowsOf(p)} = 1 .. k
    BY <2>2, <2>3, <2>4 DEF Mirrors
  <2>6. ASSUME NEW r \in RowsOf(p), NEW q \in RowsOf(p), r < q, transcript[q].n <= transcript[r].n
        PROVE  /\ transcript[q].n \in Anonymous
               /\ \E o \in RowsOf(p) : o < q /\ transcript[o] = transcript[q]
    BY <2>2, <2>3, <2>6 DEF Mirrors
  <2> QED
    BY <2>5, <2>6 DEF p, k
<1>2. Init => IInv /\ CommitInv
  BY InitOK, CommitsInit
<1>3. IInv /\ CommitInv /\ [Next]_vars => (IInv /\ CommitInv)'
  BY NextOK, CommitsStep
<1> QED
  BY <1>1, <1>2, <1>3, PTL DEF Spec
=============================================================================
