---------------------------- MODULE ConfigsProofs ---------------------------
(***************************************************************************)
(* For every number of clients, ids, fields, values and calls: agent       *)
(* versions are numbered without gaps and latest_version is the newest,    *)
(* pinned behaviour is immutable, and no update loses another one.         *)
(*                                                                         *)
(* The argument is the row lock.  Between LockAgent and WriteAgent the     *)
(* writer is alone with the identity (OneWriter): what it has read is      *)
(* still there when it writes (WritersHold).  A pin is checked before the  *)
(* session is inserted; versions only grow, so it still names one then     *)
(* (CallsPinned), and the foreign key keeps the environment.  An agent     *)
(* that a list walk owes was shown or lies behind the walk's cursor, and   *)
(* none that was shown lies behind it (WalkInv): a page begins where the   *)
(* one before it ended, and ids are never changed.                         *)
(***************************************************************************)
EXTENDS Configs, FiniteSetTheorems, TLAPS

Writing(c) == At(c, "update agent", "write")

\* What a writer has read of the row it holds.
WritersHold ==
  \A c \in Clients : Writing(c) =>
    /\ Here(agents[call[c].id]) /\ Live(agents[call[c].id])
    /\ call[c].latest = agents[call[c].id].latest

OneWriter ==
  \A c, d \in Clients : Writing(c) /\ Writing(d) /\ call[c].id = call[d].id => c = d

PinChecked(c) == call[c].op = "create session" /\ call[c].pc \in {"env", "find", "insert", "find again"}

CallsPinned ==
  \A c \in Clients : PinChecked(c) => call[c].pin.version \in DOMAIN versions[call[c].pin.agent]

SessionsPinned ==
  \A s \in Sessions : Here(sessions[s]) =>
    /\ sessions[s].version \in DOMAIN versions[sessions[s].agent]
    /\ Here(envs[sessions[s].env])

\* The inductive invariant.
IInv == TypeOK /\ LatestIsNewest /\ WritersHold /\ OneWriter /\ CallsPinned /\ SessionsPinned

-----------------------------------------------------------------------------
(* What the place of a call says of its record.                            *)

LEMMA Requests ==
  ASSUME TypeOK, NEW c \in Clients
  PROVE  /\ call[c].op = "create agent" =>
              call[c] \in [op : {"create agent"}, pc : {"find", "insert", "find again"},
                           id : Agents, ns : Namespaces, body : Bodies(Fields)]
         /\ At(c, "update agent", "lock") =>
              call[c] \in [op : {"update agent"}, pc : {"lock"}, id : Agents,
                           ns : Namespaces, body : Patches(Fields)]
         /\ At(c, "update agent", "write") =>
              call[c] \in [op : {"update agent"}, pc : {"write"}, id : Agents,
                           ns : Namespaces, body : Patches(Fields), latest : Nat \ {0}]
         /\ call[c].op = "create env" =>
              call[c] \in [op : {"create env"}, pc : {"find", "insert", "find again"},
                           id : Envs, ns : Namespaces, body : Bodies(Labels)]
         /\ At(c, "update env", "find") =>
              call[c] \in [op : {"update env"}, pc : {"find"}, id : Envs,
                           ns : Namespaces, body : Patches(Labels)]
         /\ At(c, "update env", "write") =>
              call[c] \in [op : {"update env"}, pc : {"write"}, id : Envs,
                           ns : Namespaces, body : Patches(Labels), row : EnvRow]
         /\ call[c].op = "archive env" =>
              call[c] \in [op : {"archive env"}, pc : {"get"}, id : Envs, ns : Namespaces]
         /\ call[c].op = "create session" => call[c] \in SessionRequest
<1>1. call[c] \in AgentRequest \cup EnvRequest \cup SessionRequest \cup Answer
  BY DEF TypeOK, Request
<1>2. CASE call[c] \in AgentRequest
  BY <1>2 DEF AgentRequest, At
<1>3. CASE call[c] \in EnvRequest
  BY <1>3 DEF EnvRequest, At
<1>4. CASE call[c] \in SessionRequest
  BY <1>4 DEF SessionRequest, At
<1>5. CASE call[c] \in Answer
  BY <1>5 DEF Answer, At
<1> QED
  BY <1>1, <1>2, <1>3, <1>4, <1>5

\* A row that a query finds is there.
LEMMA FoundIsHere ==
  ASSUME NEW row, NEW n \in Namespaces, Found(row, n)
  PROVE  Here(row) /\ row # Absent
<1>1. n # "none"
  BY ConfigsAssumption DEF ConfigsAssumption
<1> QED
  BY <1>1 DEF Found, Here, Absent

LEMMA PatchKeepsType ==
  ASSUME NEW fields, NEW body \in Bodies(fields), NEW all, NEW patch \in Patches(all)
  PROVE  Patched(body, patch) \in Bodies(fields)
<1>1. PICK named \in SUBSET all : patch \in [named -> Values]
  BY DEF Patches, Bodies
<1> QED
  BY <1>1 DEF Patched, Bodies

LEMMA Parts ==
  ASSUME NEW body \in Bodies(Fields)
  PROVE  Part(body, Labels) \in Bodies(Labels) /\ Part(body, Behaviour) \in Bodies(Behaviour)
BY DEF Part, Bodies, Fields

-----------------------------------------------------------------------------
(* Steps that leave the tables alone.                                      *)

LEMMA Quiet ==
  ASSUME IInv, UNCHANGED tables, walk' \in Walk, calls' \in 0 .. MaxCalls,
         NEW c \in Clients, NEW r \in Request, call' = [call EXCEPT ![c] = r],
         ~(r.op = "update agent" /\ r.pc = "write"),
         r.op = "create session" /\ r.pc \in {"env", "find", "insert", "find again"} =>
           r.pin.version \in DOMAIN versions[r.pin.agent]
  PROVE  IInv'
<1>1. TypeOK' /\ LatestIsNewest' /\ SessionsPinned'
  BY DEF IInv, TypeOK, LatestIsNewest, SessionsPinned, tables
<1>2. \A d \in Clients : call'[d] = IF d = c THEN r ELSE call[d]
  BY DEF IInv, TypeOK
<1>3. \A d \in Clients : Writing(d)' => d # c /\ Writing(d)
  BY <1>2 DEF Writing, At
<1>4. \A d \in Clients : Writing(d)' => Writing(d) /\ call'[d] = call[d]
  BY <1>2, <1>3
<1>6. WritersHold'
  BY <1>4 DEF IInv, WritersHold, tables, Here, Live
<1>7. OneWriter'
  BY <1>4 DEF IInv, OneWriter
<1>5. CallsPinned'
  BY <1>2 DEF IInv, CallsPinned, PinChecked, tables
<1> QED
  BY <1>1, <1>5, <1>6, <1>7 DEF IInv

LEMMA QuietSay ==
  ASSUME IInv, UNCHANGED <<tables, walk, calls>>, NEW c \in Clients,
         NEW said \in {"ok", "conflict", "missing", "error"}, Say(c, said)
  PROVE  IInv'
<1>1. [op |-> "none", said |-> said] \in Request
  BY DEF Answer, Request
<1>2. walk' \in Walk /\ calls' \in 0 .. MaxCalls
  BY DEF IInv, TypeOK
<1> QED
  BY <1>1, <1>2, Quiet DEF Say

LEMMA QuietGoto ==
  ASSUME IInv, UNCHANGED <<tables, walk, calls>>, NEW c \in Clients, NEW pc,
         Goto(c, pc), [call[c] EXCEPT !.pc = pc] \in Request,
         call[c].op \in {"create agent", "create env"}
  PROVE  IInv'
<1> DEFINE r == [call[c] EXCEPT !.pc = pc]
<1>1. r.op = call[c].op
  BY Requests DEF IInv
<1>2. walk' \in Walk /\ calls' \in 0 .. MaxCalls
  BY DEF IInv, TypeOK
<1>3. call' = [call EXCEPT ![c] = r]
  BY DEF Goto
<1> QED
  BY <1>1, <1>2, <1>3, Quiet

LEMMA OneMoreCall ==
  ASSUME calls \in 0 .. MaxCalls, calls < MaxCalls, calls' = calls + 1
  PROVE  calls' \in 0 .. MaxCalls
BY ConfigsAssumption DEF ConfigsAssumption

LEMMA QuietBegin ==
  ASSUME IInv, UNCHANGED <<tables, walk>>, NEW c \in Clients, NEW r \in Request,
         Begin(c, r), ~(r.op = "update agent" /\ r.pc = "write"),
         ~(r.op = "create session" /\ r.pc \in {"env", "find", "insert", "find again"})
  PROVE  IInv'
<1>1. calls' = calls + 1 /\ calls < MaxCalls
  BY DEF Begin
<1>2. calls \in 0 .. MaxCalls
  BY DEF IInv, TypeOK
<1>3. calls' \in 0 .. MaxCalls
  BY <1>1, <1>2, OneMoreCall
<1>4. walk' \in Walk
  BY DEF IInv, TypeOK
<1> QED
  BY <1>3, <1>4, Quiet DEF Begin

LEMMA QuietAgent ==
  ASSUME IInv, NEW c \in Clients,
         CreateAgent(c) \/ FindAgent(c) \/ FindAgentAgain(c) \/ UpdateAgent(c)
  PROVE  IInv'
<1>1. CASE CreateAgent(c)
  <2>1. PICK a \in Agents, n \in Namespaces, body \in Bodies(Fields) :
          Begin(c, [op |-> "create agent", pc |-> "find", id |-> a, ns |-> n, body |-> body])
    BY <1>1 DEF CreateAgent
  <2> DEFINE r == [op |-> "create agent", pc |-> "find", id |-> a, ns |-> n, body |-> body]
  <2>2. r \in Request /\ r.op = "create agent"
    BY DEF AgentRequest, Request
  <2> HIDE DEF r
  <2> QED
    BY <1>1, <2>1, <2>2, QuietBegin DEF CreateAgent, r
<1>2. CASE UpdateAgent(c)
  <2>1. PICK a \in Agents, n \in Namespaces, patch \in Patches(Fields) :
          Begin(c, [op |-> "update agent", pc |-> "lock", id |-> a, ns |-> n, body |-> patch])
    BY <1>2 DEF UpdateAgent
  <2> DEFINE r == [op |-> "update agent", pc |-> "lock", id |-> a, ns |-> n, body |-> patch]
  <2>2. r \in Request /\ r.op = "update agent" /\ r.pc = "lock"
    BY DEF AgentRequest, Request
  <2> HIDE DEF r
  <2> QED
    BY <1>2, <2>1, <2>2, QuietBegin DEF UpdateAgent, r
<1>3. CASE FindAgent(c)
  <2>1. call[c].op = "create agent" /\ [call[c] EXCEPT !.pc = "insert"] \in Request
    BY <1>3, Requests DEF FindAgent, At, IInv, AgentRequest, Request
  <2> QED
    BY <1>3, <2>1, QuietSay, QuietGoto DEF FindAgent, ResolveAgent, Resolve
<1>4. CASE FindAgentAgain(c)
  BY <1>4, QuietSay DEF FindAgentAgain, ResolveAgent, Resolve
<1> QED
  BY <1>1, <1>2, <1>3, <1>4

LEMMA QuietEnv ==
  ASSUME IInv, NEW c \in Clients,
         \/ CreateEnv(c) \/ FindEnv(c) \/ FindEnvAgain(c)
         \/ UpdateEnv(c) \/ ReadEnv(c) \/ GetEnv(c)
  PROVE  IInv'
<1>1. CASE CreateEnv(c)
  <2>1. PICK e \in Envs, n \in Namespaces, body \in Bodies(Labels) :
          Begin(c, [op |-> "create env", pc |-> "find", id |-> e, ns |-> n, body |-> body])
    BY <1>1 DEF CreateEnv
  <2> DEFINE r == [op |-> "create env", pc |-> "find", id |-> e, ns |-> n, body |-> body]
  <2>2. r \in Request /\ r.op = "create env"
    BY DEF EnvRequest, Request
  <2> HIDE DEF r
  <2> QED
    BY <1>1, <2>1, <2>2, QuietBegin DEF CreateEnv, r
<1>2. CASE UpdateEnv(c)
  <2>1. PICK e \in Envs, n \in Namespaces, patch \in Patches(Labels) :
          Begin(c, [op |-> "update env", pc |-> "find", id |-> e, ns |-> n, body |-> patch])
    BY <1>2 DEF UpdateEnv
  <2> DEFINE r == [op |-> "update env", pc |-> "find", id |-> e, ns |-> n, body |-> patch]
  <2>2. r \in Request /\ r.op = "update env"
    BY DEF EnvRequest, Request
  <2> HIDE DEF r
  <2> QED
    BY <1>2, <2>1, <2>2, QuietBegin DEF UpdateEnv, r
<1>3. CASE FindEnv(c)
  <2>1. call[c].op = "create env" /\ [call[c] EXCEPT !.pc = "insert"] \in Request
    BY <1>3, Requests DEF FindEnv, At, IInv, EnvRequest, Request
  <2> QED
    BY <1>3, <2>1, QuietSay, QuietGoto DEF FindEnv, ResolveEnv, Resolve
<1>4. CASE FindEnvAgain(c)
  BY <1>4, QuietSay DEF FindEnvAgain, ResolveEnv, Resolve
<1>5. CASE GetEnv(c)
  BY <1>5, QuietSay DEF GetEnv
<1>6. CASE ReadEnv(c)
  <2> DEFINE row == envs[call[c].id]
             r == [op |-> "update env", pc |-> "write", id |-> call[c].id,
                   ns |-> call[c].ns, body |-> call[c].body, row |-> row]
  <2>1. CASE Say(c, "missing") \/ Say(c, "conflict")
    BY <1>6, <2>1, QuietSay DEF ReadEnv
  <2>2. CASE /\ Found(row, call[c].ns) /\ call' = [call EXCEPT ![c] = r]
    <3>1. call[c] \in [op : {"update env"}, pc : {"find"}, id : Envs,
                       ns : Namespaces, body : Patches(Labels)]
      BY <1>6, Requests DEF ReadEnv, IInv
    <3>2. row \in EnvRow
      <4>1. call[c].ns \in Namespaces /\ call[c].id \in Envs
        BY <3>1
      <4>2. row \in EnvRow \cup {Absent}
        BY <4>1 DEF IInv, TypeOK
      <4> QED
        BY <2>2, <4>1, <4>2, FoundIsHere
    <3>3. r \in Request /\ r.op = "update env"
      BY <3>1, <3>2 DEF EnvRequest, Request
    <3>4. UNCHANGED tables /\ walk' \in Walk /\ calls' \in 0 .. MaxCalls
      BY <1>6 DEF ReadEnv, IInv, TypeOK
    <3> HIDE DEF r
    <3> QED
      BY <2>2, <3>3, <3>4, Quiet
  <2> QED
    BY <1>6, <2>1, <2>2 DEF ReadEnv
<1> QED
  BY <1>1, <1>2, <1>3, <1>4, <1>5, <1>6

LEMMA QuietSession ==
  ASSUME IInv, NEW c \in Clients,
         \/ CreateSession(c) \/ ReadAgent(c) \/ ReadVersion(c) \/ ReadEnvRef(c)
         \/ FindSession(c) \/ FindSessionAgain(c)
  PROVE  IInv'
<1>1. CASE CreateSession(c)
  <2>1. PICK s \in Sessions, n \in Namespaces, a \in Agents, v \in 0 .. MaxVersion, e \in Envs :
          Begin(c, [op |-> "create session", pc |-> "agent", id |-> s, ns |-> n,
                    pin |-> [agent |-> a, version |-> v, env |-> e]])
    BY <1>1 DEF CreateSession
  <2> DEFINE r == [op |-> "create session", pc |-> "agent", id |-> s, ns |-> n,
                   pin |-> [agent |-> a, version |-> v, env |-> e]]
  <2>2. r \in Request /\ r.op = "create session" /\ r.pc = "agent"
    <3>1. [agent |-> a, version |-> v, env |-> e] \in Pin
      BY DEF Pin
    <3> QED
      BY <3>1 DEF SessionRequest, Request
  <2> HIDE DEF r
  <2> QED
    BY <1>1, <2>1, <2>2, QuietBegin DEF CreateSession, r
\* The other steps, which move a request on.
<1>2. ASSUME call[c].op = "create session", NEW pc \in {"version", "env", "find", "insert", "find again"},
             Goto(c, pc), UNCHANGED <<tables, walk, calls>>,
             pc # "version" => call[c].pin.version \in DOMAIN versions[call[c].pin.agent]
      PROVE  IInv'
  <2> DEFINE r == [call[c] EXCEPT !.pc = pc]
  <2>1. call[c] \in SessionRequest
    BY <1>2, Requests DEF IInv
  <2>2. r \in Request /\ r.op = "create session" /\ r.pc = pc /\ r.pin = call[c].pin
    BY <2>1 DEF SessionRequest, Request
  <2>3. UNCHANGED tables /\ walk' \in Walk /\ calls' \in 0 .. MaxCalls
    BY <1>2 DEF IInv, TypeOK
  <2>4. call' = [call EXCEPT ![c] = r]
    BY <1>2 DEF Goto
  <2> HIDE DEF r
  <2> QED
    BY <1>2, <2>2, <2>3, <2>4, Quiet
<1>3. CASE ReadAgent(c)
  <2> DEFINE row == agents[call[c].pin.agent]
             pin == [call[c].pin EXCEPT !.version = row.latest]
             r == [call[c] EXCEPT !.pc = "env", !.pin = pin]
  <2>1. CASE Say(c, "missing") \/ Say(c, "conflict")
    BY <1>3, <2>1, QuietSay DEF ReadAgent
  <2>2. CASE Goto(c, "version")
    BY <1>2, <1>3, <2>2 DEF ReadAgent, At
  <2>3. CASE /\ Found(row, call[c].ns)
             /\ call' = [call EXCEPT ![c].pc = "env", ![c].pin.version = row.latest]
    <3>1. call[c] \in SessionRequest
      BY <1>3, Requests DEF ReadAgent, At, IInv
    <3>2. row \in AgentRow /\ Here(row)
      <4>1. call[c].ns \in Namespaces /\ call[c].pin.agent \in Agents
        BY <3>1 DEF SessionRequest, Pin
      <4>2. row \in AgentRow \cup {Absent}
        BY <4>1 DEF IInv, TypeOK
      <4> QED
        BY <2>3, <4>1, <4>2, FoundIsHere
    <3>3. row.latest \in DOMAIN versions[call[c].pin.agent] /\ row.latest \in Nat
      <4>1. call[c].pin.agent \in Agents
        BY <3>1 DEF SessionRequest, Pin
      <4>2. row.latest \in Nat \ {0}
        BY <3>2 DEF AgentRow
      <4>3. DOMAIN versions[call[c].pin.agent] = 1 .. row.latest
        BY <3>2, <4>1 DEF IInv, LatestIsNewest
      <4> QED
        BY <4>2, <4>3
    <3>4. pin \in Pin /\ pin.version = row.latest /\ pin.agent = call[c].pin.agent
      BY <3>1, <3>3 DEF SessionRequest, Pin
    <3>5. call' = [call EXCEPT ![c] = r]
      BY <2>3, <3>1 DEF SessionRequest, IInv, TypeOK
    <3> HIDE DEF pin
    <3>6. r \in Request /\ r.op = "create session" /\ r.pc = "env" /\ r.pin = pin
      BY <3>1, <3>4 DEF SessionRequest, Request
    <3>7. UNCHANGED tables /\ walk' \in Walk /\ calls' \in 0 .. MaxCalls
      BY <1>3 DEF ReadAgent, IInv, TypeOK
    <3> HIDE DEF r
    <3> QED
      BY <3>3, <3>4, <3>5, <3>6, <3>7, Quiet
  <2> QED
    BY <1>3, <2>1, <2>2, <2>3 DEF ReadAgent
<1>4. CASE ReadVersion(c)
  BY <1>2, <1>4, QuietSay DEF ReadVersion, At
<1>5. ASSUME At(c, "create session", "env") \/ At(c, "create session", "find")
      PROVE  /\ call[c].op = "create session"
             /\ call[c].pin.version \in DOMAIN versions[call[c].pin.agent]
  BY <1>5 DEF IInv, CallsPinned, PinChecked, At
<1>6. CASE ReadEnvRef(c)
  BY <1>2, <1>5, <1>6, QuietSay DEF ReadEnvRef
<1>7. CASE FindSession(c)
  BY <1>2, <1>5, <1>7, QuietSay DEF FindSession, Resolve
<1>8. CASE FindSessionAgain(c)
  BY <1>8, QuietSay DEF FindSessionAgain, Resolve
<1> QED
  BY <1>1, <1>3, <1>4, <1>6, <1>7, <1>8

-----------------------------------------------------------------------------
(* Steps that write the tables.                                            *)

\* A call that ends, or goes on without holding a row or a pin.
LEMMA CallsStay ==
  ASSUME TypeOK, NEW c \in Clients, NEW r \in Request, call' = [call EXCEPT ![c] = r],
         r.op # "update agent", r.op # "create session"
  PROVE  /\ call' \in [Clients -> Request]
         /\ \A d \in Clients : Writing(d)' => d # c /\ Writing(d) /\ call'[d] = call[d]
         /\ \A d \in Clients : PinChecked(d)' => PinChecked(d) /\ call'[d] = call[d]
<1>1. \A d \in Clients : call'[d] = IF d = c THEN r ELSE call[d]
  BY DEF TypeOK
<1>2. \A d \in Clients : Writing(d)' => d # c /\ Writing(d) /\ call'[d] = call[d]
  BY <1>1 DEF Writing, At
<1>3. \A d \in Clients : PinChecked(d)' => PinChecked(d) /\ call'[d] = call[d]
  BY <1>1 DEF PinChecked
<1> QED
  BY <1>2, <1>3 DEF TypeOK

LEMMA Said ==
  ASSUME TypeOK, NEW c \in Clients, NEW said \in {"ok", "conflict", "missing", "error"},
         Say(c, said)
  PROVE  /\ call' \in [Clients -> Request]
         /\ \A d \in Clients : Writing(d)' => d # c /\ Writing(d) /\ call'[d] = call[d]
         /\ \A d \in Clients : PinChecked(d)' => PinChecked(d) /\ call'[d] = call[d]
<1> DEFINE r == [op |-> "none", said |-> said]
<1>1. r \in Request /\ r.op = "none"
  BY DEF Answer, Request
<1>2. call' = [call EXCEPT ![c] = r]
  BY DEF Say
<1> HIDE DEF r
<1> QED
  BY <1>1, <1>2, CallsStay

\* A checked pin and a session's pin outlive every step that only adds versions.
LEMMA PinsStay ==
  ASSUME TypeOK, CallsPinned, SessionsPinned,
         UNCHANGED <<envs, sessions>>,
         \A a \in Agents : DOMAIN versions[a] \subseteq DOMAIN versions'[a],
         \A d \in Clients : PinChecked(d)' => PinChecked(d) /\ call'[d] = call[d]
  PROVE  CallsPinned' /\ SessionsPinned'
<1>1. ASSUME NEW d \in Clients, PinChecked(d)
      PROVE  call[d].pin.agent \in Agents
  BY <1>1, Requests DEF PinChecked, SessionRequest, Pin
<1>2. CallsPinned'
  BY <1>1 DEF CallsPinned
<1>3. ASSUME NEW s \in Sessions, Here(sessions[s])
      PROVE  sessions[s].agent \in Agents
  BY <1>3 DEF TypeOK, Here, Absent, SessionRow
<1>4. SessionsPinned'
  BY <1>3 DEF SessionsPinned
<1> QED
  BY <1>2, <1>4

LEMMA InsertAgentStep ==
  ASSUME IInv, NEW c \in Clients, InsertAgent(c)
  PROVE  IInv'
<1> DEFINE a == call[c].id
<1>1. call[c] \in [op : {"create agent"}, pc : {"find", "insert", "find again"},
                   id : Agents, ns : Namespaces, body : Bodies(Fields)]
  BY Requests DEF InsertAgent, At, IInv
<1>2. CASE Here(agents[a])
  <2>1. [call[c] EXCEPT !.pc = "find again"] \in Request
    BY <1>1 DEF AgentRequest, Request
  <2> QED
    BY <1>1, <1>2, <2>1, QuietGoto DEF InsertAgent
<1>3. CASE ~Here(agents[a])
  <2> DEFINE row == [ns |-> call[c].ns, latest |-> 1, archived |-> 0,
                     labels |-> Part(call[c].body, Labels)]
             first == [v \in {1} |-> Part(call[c].body, Behaviour)]
  <2>1. /\ agents' = [agents EXCEPT ![a] = row]
        /\ versions' = [versions EXCEPT ![a] = first]
        /\ Say(c, "ok") /\ UNCHANGED <<envs, sessions, walk, calls>>
    BY <1>3 DEF InsertAgent
  <2>2. row \in AgentRow /\ Here(row) /\ row.latest = 1
    <3>1. call[c].ns # "none"
      BY <1>1, ConfigsAssumption DEF ConfigsAssumption
    <3>2. call[c].ns \in Namespaces /\ Part(call[c].body, Labels) \in Bodies(Labels)
      BY <1>1, Parts
    <3>3. row \in AgentRow
      BY <3>2 DEF AgentRow
    <3> QED
      BY <3>1, <3>3 DEF Here
  <2>3. first \in [{1} -> Bodies(Behaviour)] /\ DOMAIN first = {1}
    BY <1>1, Parts
  <2> HIDE DEF row, first
  <2>4. a \in Agents /\ DOMAIN versions[a] = {}
    BY <1>1, <1>3 DEF IInv, LatestIsNewest
  <2>5. /\ agents' \in [Agents -> AgentRow \cup {Absent}]
        /\ \A b \in Agents : agents'[b] = IF b = a THEN row ELSE agents[b]
    BY <2>1, <2>2, <2>4 DEF IInv, TypeOK
  <2>6. /\ versions' = [b \in Agents |-> versions'[b]]
        /\ \A b \in Agents : versions'[b] = IF b = a THEN first ELSE versions[b]
    BY <2>1, <2>4 DEF IInv, TypeOK
  <2>7. \A b \in Agents : /\ DOMAIN versions'[b] \subseteq Nat \ {0}
                          /\ versions'[b] \in [DOMAIN versions'[b] -> Bodies(Behaviour)]
    BY <2>3, <2>6 DEF IInv, TypeOK
  <2>8. TypeOK'
    BY <2>1, <2>5, <2>6, <2>7, Said DEF IInv, TypeOK
  <2>9. LatestIsNewest'
    <3>1. SUFFICES ASSUME NEW b \in Agents
                   PROVE  DOMAIN versions'[b] =
                            IF Here(agents'[b]) THEN 1 .. agents'[b].latest ELSE {}
      BY DEF LatestIsNewest, Here
    <3>2. CASE b = a
      <4>1. agents'[b] = row /\ versions'[b] = first
        BY <2>5, <2>6, <3>2
      <4>2. 1 .. 1 = {1}
        OBVIOUS
      <4> QED
        BY <2>2, <2>3, <4>1, <4>2
    <3>3. CASE b # a
      BY <2>5, <2>6, <3>3 DEF IInv, LatestIsNewest
    <3> QED
      BY <3>2, <3>3
  <2>10. WritersHold' /\ OneWriter'
    <3>1. \A d \in Clients : Writing(d)' => Writing(d) /\ call'[d] = call[d]
      BY <2>1, Said DEF IInv
    <3>2. \A d \in Clients : Writing(d) => call[d].id \in Agents /\ call[d].id # a
      BY <1>3, Requests DEF IInv, WritersHold, Writing
    <3>3. WritersHold'
      BY <2>5, <3>1, <3>2 DEF IInv, WritersHold
    <3>4. OneWriter'
      BY <3>1 DEF IInv, OneWriter
    <3> QED
      BY <3>3, <3>4
  <2>11. CallsPinned' /\ SessionsPinned'
    <3>1. \A b \in Agents : DOMAIN versions[b] \subseteq DOMAIN versions'[b]
      BY <2>4, <2>6
    <3> QED
      BY <2>1, <3>1, PinsStay, Said DEF IInv
  <2> QED
    BY <2>8, <2>9, <2>10, <2>11 DEF IInv
<1> QED
  BY <1>2, <1>3

LEMMA LockAgentStep ==
  ASSUME IInv, NEW c \in Clients, LockAgent(c)
  PROVE  IInv'
<1> DEFINE a == call[c].id
           r == [op |-> "update agent", pc |-> "write", id |-> a, ns |-> call[c].ns,
                 body |-> call[c].body, latest |-> agents[a].latest]
<1>1. call[c] \in [op : {"update agent"}, pc : {"lock"}, id : Agents,
                   ns : Namespaces, body : Patches(Fields)]
  BY Requests DEF LockAgent, IInv
<1>2. CASE Say(c, "missing") \/ Say(c, "conflict")
  BY <1>2, QuietSay DEF LockAgent
<1>3. CASE /\ Found(agents[a], call[c].ns) /\ Live(agents[a])
           /\ call' = [call EXCEPT ![c] = r]
  <2>1. agents[a] \in AgentRow /\ Here(agents[a])
    <3>1. agents[a] \in AgentRow \cup {Absent} /\ call[c].ns \in Namespaces
      BY <1>1 DEF IInv, TypeOK
    <3> QED
      BY <1>3, <3>1, FoundIsHere
  <2>2. agents[a].latest \in Nat \ {0}
    BY <2>1 DEF AgentRow
  <2>3. /\ r \in Request /\ r.op = "update agent" /\ r.id = a
        /\ r.latest = agents[a].latest
    BY <1>1, <2>2 DEF AgentRequest, Request
  <2>4. /\ UNCHANGED <<tables, walk, calls>>
        /\ \A d \in Clients : ~(Writing(d) /\ call[d].id = a)
    BY DEF LockAgent, Unlocked, Writing
  <2> HIDE DEF r
  <2>5. \A d \in Clients : call'[d] = IF d = c THEN r ELSE call[d]
    BY <1>3 DEF IInv, TypeOK
  <2>6. TypeOK' /\ LatestIsNewest' /\ SessionsPinned'
    BY <1>3, <2>3, <2>4 DEF IInv, TypeOK, LatestIsNewest, SessionsPinned, tables
  <2>7. \A d \in Clients : Writing(d)' => d = c \/ (Writing(d) /\ call'[d] = call[d])
    BY <2>5 DEF Writing, At
  <2>8. WritersHold'
    BY <1>3, <2>1, <2>3, <2>4, <2>5, <2>7 DEF IInv, WritersHold, tables
  <2>9. OneWriter'
    BY <2>3, <2>4, <2>5, <2>7 DEF IInv, OneWriter
  <2>10. CallsPinned'
    BY <2>3, <2>4, <2>5 DEF IInv, CallsPinned, PinChecked, tables
  <2> QED
    BY <2>6, <2>8, <2>9, <2>10 DEF IInv
<1> QED
  BY <1>2, <1>3 DEF LockAgent

LEMMA WriteAgentStep ==
  ASSUME IInv, NEW c \in Clients, WriteAgent(c)
  PROVE  IInv'
<1> DEFINE a == call[c].id
           patch == call[c].body
           next == NextVersion(c)
           row == [agents[a] EXCEPT !.latest = next, !.labels = Patched(agents[a].labels, patch)]
           all == [v \in DOMAIN versions[a] \cup {next} |->
                     IF v = next THEN Patched(versions[a][call[c].latest], patch)
                     ELSE versions[a][v]]
<1>1. call[c] \in [op : {"update agent"}, pc : {"write"}, id : Agents,
                   ns : Namespaces, body : Patches(Fields), latest : Nat \ {0}]
  BY Requests DEF WriteAgent, IInv
<1>2. /\ a \in Agents /\ patch \in Patches(Fields) /\ Writing(c)
      /\ call[c].latest \in Nat \ {0} /\ next \in {call[c].latest, call[c].latest + 1}
  BY <1>1 DEF NextVersion, Writing, WriteAgent
<1>3. /\ Here(agents[a]) /\ agents[a] \in AgentRow
      /\ call[c].latest = agents[a].latest /\ DOMAIN versions[a] = 1 .. call[c].latest
  <2>1. Here(agents[a]) /\ call[c].latest = agents[a].latest
    BY <1>2 DEF IInv, WritersHold
  <2>2. agents[a] \in AgentRow
    BY <1>2, <2>1 DEF IInv, TypeOK, Here, Absent
  <2>3. DOMAIN versions[a] = 1 .. call[c].latest
    BY <1>2, <2>1 DEF IInv, LatestIsNewest
  <2> QED
    BY <2>1, <2>2, <2>3
<1>4. /\ versions' = [versions EXCEPT ![a] = all] /\ agents' = [agents EXCEPT ![a] = row]
      /\ Say(c, "ok") /\ UNCHANGED <<envs, sessions, walk, calls>>
  <2>1. agents' = [agents EXCEPT ![a].latest = next, ![a].labels = Patched(agents[a].labels, patch)]
    BY DEF WriteAgent
  <2>2. agents' = [agents EXCEPT ![a] = row]
    BY <1>2, <2>1 DEF IInv, TypeOK
  <2> QED
    BY <2>2 DEF WriteAgent
<1>5. row \in AgentRow /\ Here(row) /\ row.latest = next
  <2>1. Patched(agents[a].labels, patch) \in Bodies(Labels)
    BY <1>2, <1>3, PatchKeepsType DEF AgentRow
  <2>2. row \in AgentRow /\ row.latest = next /\ row.ns = agents[a].ns
    <3>1. next \in Nat \ {0}
      BY <1>2
    <3> HIDE DEF next
    <3> QED
      BY <1>3, <2>1, <3>1 DEF AgentRow
  <2> QED
    BY <1>3, <2>2 DEF Here
<1>6. all \in [1 .. next -> Bodies(Behaviour)]
  <2>1. (1 .. call[c].latest) \cup {next} = 1 .. next
    BY <1>2
  <2>2. \A v \in 1 .. call[c].latest : versions[a][v] \in Bodies(Behaviour)
    BY <1>2, <1>3 DEF IInv, TypeOK
  <2>3. Patched(versions[a][call[c].latest], patch) \in Bodies(Behaviour)
    BY <1>2, <2>2, PatchKeepsType
  <2> QED
    BY <1>3, <2>1, <2>2, <2>3
<1> HIDE DEF row, all, next
<1>7. /\ agents' \in [Agents -> AgentRow \cup {Absent}]
      /\ \A b \in Agents : agents'[b] = IF b = a THEN row ELSE agents[b]
  BY <1>2, <1>4, <1>5 DEF IInv, TypeOK
<1>8. /\ versions' = [b \in Agents |-> versions'[b]]
      /\ \A b \in Agents : versions'[b] = IF b = a THEN all ELSE versions[b]
  BY <1>2, <1>4 DEF IInv, TypeOK
<1>9. DOMAIN all = 1 .. next /\ 1 .. next \subseteq Nat \ {0}
  BY <1>2, <1>6
<1>10. \A b \in Agents : /\ DOMAIN versions'[b] \subseteq Nat \ {0}
                         /\ versions'[b] \in [DOMAIN versions'[b] -> Bodies(Behaviour)]
  BY <1>6, <1>8, <1>9 DEF IInv, TypeOK
<1>11. TypeOK'
  BY <1>4, <1>7, <1>8, <1>10, Said DEF IInv, TypeOK
<1>12. LatestIsNewest'
  <2>1. SUFFICES ASSUME NEW b \in Agents
                 PROVE  DOMAIN versions'[b] =
                          IF Here(agents'[b]) THEN 1 .. agents'[b].latest ELSE {}
    BY DEF LatestIsNewest, Here
  <2>2. CASE b = a
    BY <1>5, <1>7, <1>8, <1>9, <2>2
  <2>3. CASE b # a
    BY <1>7, <1>8, <2>3 DEF IInv, LatestIsNewest
  <2> QED
    BY <2>2, <2>3
<1>13. WritersHold' /\ OneWriter'
  <2>1. \A d \in Clients : Writing(d)' => d # c /\ Writing(d) /\ call'[d] = call[d]
    BY <1>4, Said DEF IInv
  <2>2. \A d \in Clients : d # c /\ Writing(d) => call[d].id \in Agents /\ call[d].id # a
    BY <1>2, Requests DEF IInv, OneWriter, Writing
  <2>3. WritersHold'
    BY <1>7, <2>1, <2>2 DEF IInv, WritersHold
  <2>4. OneWriter'
    BY <2>1 DEF IInv, OneWriter
  <2> QED
    BY <2>3, <2>4
<1>14. CallsPinned' /\ SessionsPinned'
  <2>1. \A b \in Agents : DOMAIN versions[b] \subseteq DOMAIN versions'[b]
    <3>1. 1 .. call[c].latest \subseteq 1 .. next
      BY <1>2
    <3> QED
      BY <1>3, <1>8, <1>9, <3>1
  <2> QED
    BY <1>4, <2>1, PinsStay, Said DEF IInv
<1> QED
  BY <1>11, <1>12, <1>13, <1>14 DEF IInv

LEMMA ArchivedRow ==
  ASSUME calls \in 0 .. MaxCalls
  PROVE  /\ \A row \in AgentRow : /\ Archived(row) \in AgentRow
                                  /\ Archived(row).latest = row.latest
                                  /\ Archived(row).ns = row.ns
                                  /\ Archived(row).labels = row.labels
                                  /\ ~Live(row) => Archived(row) = row
         /\ \A row \in EnvRow : /\ Archived(row) \in EnvRow
                                /\ Archived(row).ns = row.ns
                                /\ Archived(row).body = row.body
                                /\ ~Live(row) => Archived(row) = row
BY DEF Archived, AgentRow, EnvRow, Live

LEMMA ArchiveAgentStep ==
  ASSUME IInv, NEW c \in Clients, ArchiveAgent(c)
  PROVE  IInv'
<1>1. PICK a \in Agents, n \in Namespaces :
        /\ calls < MaxCalls /\ calls' = calls + 1 /\ Unlocked(a)
        /\ \/ /\ Found(agents[a], n)
              /\ agents' = [agents EXCEPT ![a] = Archived(agents[a])]
              /\ walk' = [walk EXCEPT !.owed = @ \ {a}]
              /\ Say(c, "ok")
           \/ Say(c, "missing") /\ UNCHANGED <<agents, walk>>
        /\ UNCHANGED <<versions, envs, sessions>>
  BY DEF ArchiveAgent
<1>2. calls \in 0 .. MaxCalls /\ calls' \in 0 .. MaxCalls
  BY <1>1, OneMoreCall DEF IInv, TypeOK
<1>3. /\ \A d \in Clients : Writing(d)' => Writing(d) /\ call'[d] = call[d]
      /\ \A d \in Clients : PinChecked(d)' => PinChecked(d) /\ call'[d] = call[d]
      /\ call' \in [Clients -> Request]
  BY <1>1, Said DEF IInv
<1>4. walk' \in Walk
  <2>1. walk \in Walk
    BY DEF IInv, TypeOK
  <2> QED
    BY <1>1, <2>1 DEF Walk
<1>5. /\ agents' \in [Agents -> AgentRow \cup {Absent}]
      /\ \A b \in Agents : /\ Here(agents'[b]) <=> Here(agents[b])
                           /\ agents'[b].latest = agents[b].latest
                           /\ b # a => agents'[b] = agents[b]
  <2>1. CASE UNCHANGED agents
    BY <2>1 DEF IInv, TypeOK
  <2>2. CASE Found(agents[a], n) /\ agents' = [agents EXCEPT ![a] = Archived(agents[a])]
    <3>1. agents[a] \in AgentRow
      <4>1. agents[a] \in AgentRow \cup {Absent}
        BY DEF IInv, TypeOK
      <4> QED
        BY <2>2, <4>1, FoundIsHere
    <3>2. /\ Archived(agents[a]) \in AgentRow
          /\ Archived(agents[a]).latest = agents[a].latest
          /\ Archived(agents[a]).ns = agents[a].ns
      BY <1>2, <3>1, ArchivedRow
    <3> QED
      BY <2>2, <3>2 DEF IInv, TypeOK, Here
  <2> QED
    BY <1>1, <2>1, <2>2
<1>6. TypeOK'
  BY <1>1, <1>2, <1>3, <1>4, <1>5 DEF IInv, TypeOK
<1>7. LatestIsNewest'
  BY <1>1, <1>5 DEF IInv, LatestIsNewest
<1>8. WritersHold' /\ OneWriter'
  <2>1. \A d \in Clients : Writing(d) => call[d].id \in Agents /\ call[d].id # a
    BY <1>1, Requests DEF IInv, Unlocked, Writing
  <2>2. WritersHold'
    BY <1>3, <1>5, <2>1 DEF IInv, WritersHold
  <2>3. OneWriter'
    BY <1>3 DEF IInv, OneWriter
  <2> QED
    BY <2>2, <2>3
<1>9. CallsPinned' /\ SessionsPinned'
  BY <1>1, <1>3, PinsStay DEF IInv
<1> QED
  BY <1>6, <1>7, <1>8, <1>9 DEF IInv

LEMMA EnvsWritten ==
  ASSUME IInv, UNCHANGED <<agents, versions, sessions, walk>>, calls' \in 0 .. MaxCalls,
         envs' \in [Envs -> EnvRow \cup {Absent}],
         \A e \in Envs : Here(envs[e]) /\ InUse(e) => Here(envs'[e]),
         call' \in [Clients -> Request],
         \A d \in Clients : Writing(d)' => Writing(d) /\ call'[d] = call[d],
         \A d \in Clients : PinChecked(d)' => PinChecked(d) /\ call'[d] = call[d]
  PROVE  IInv'
<1>1. TypeOK' /\ LatestIsNewest'
  BY DEF IInv, TypeOK, LatestIsNewest
<1>2. WritersHold' /\ OneWriter'
  BY DEF IInv, WritersHold, OneWriter
<1>3. CallsPinned'
  BY DEF IInv, CallsPinned
<1>4. SessionsPinned'
  <2>1. ASSUME NEW s \in Sessions, Here(sessions[s])
        PROVE  Here(envs'[sessions[s].env])
    <3>1. sessions[s].env \in Envs
      BY <2>1 DEF IInv, TypeOK, Here, Absent, SessionRow
    <3>2. Here(envs[sessions[s].env]) /\ InUse(sessions[s].env)
      BY <2>1 DEF IInv, SessionsPinned, InUse
    <3> QED
      BY <3>1, <3>2
  <2> QED
    BY <2>1 DEF IInv, SessionsPinned
<1> QED
  BY <1>1, <1>2, <1>3, <1>4 DEF IInv

LEMMA InsertEnvStep ==
  ASSUME IInv, NEW c \in Clients, InsertEnv(c)
  PROVE  IInv'
<1> DEFINE e == call[c].id
           row == [ns |-> call[c].ns, archived |-> 0, body |-> call[c].body]
<1>1. call[c] \in [op : {"create env"}, pc : {"find", "insert", "find again"},
                   id : Envs, ns : Namespaces, body : Bodies(Labels)]
  BY Requests DEF InsertEnv, At, IInv
<1>2. CASE Here(envs[e])
  <2>1. [call[c] EXCEPT !.pc = "find again"] \in Request
    BY <1>1 DEF EnvRequest, Request
  <2> QED
    BY <1>1, <1>2, <2>1, QuietGoto DEF InsertEnv, tables
<1>3. CASE ~Here(envs[e])
  <2>1. /\ envs' = [envs EXCEPT ![e] = row] /\ Say(c, "ok")
        /\ UNCHANGED <<agents, versions, sessions, walk, calls>>
    BY <1>3 DEF InsertEnv
  <2>2. row \in EnvRow
    BY <1>1 DEF EnvRow
  <2> HIDE DEF row
  <2>3. /\ envs' \in [Envs -> EnvRow \cup {Absent}]
        /\ \A d \in Envs : Here(envs[d]) => envs'[d] = envs[d]
    BY <1>1, <1>3, <2>1, <2>2 DEF IInv, TypeOK
  <2>4. calls' \in 0 .. MaxCalls
    BY <2>1 DEF IInv, TypeOK
  <2>5. \A d \in Envs : Here(envs[d]) /\ InUse(d) => Here(envs'[d])
    BY <2>3
  <2> QED
    BY <2>1, <2>3, <2>4, <2>5, Said, EnvsWritten DEF IInv
<1> QED
  BY <1>2, <1>3

LEMMA WriteEnvStep ==
  ASSUME IInv, NEW c \in Clients, WriteEnv(c)
  PROVE  IInv'
<1> DEFINE e == call[c].id
           row == EnvWritten(envs[e], c)
<1>1. call[c] \in [op : {"update env"}, pc : {"write"}, id : Envs,
                   ns : Namespaces, body : Patches(Labels), row : EnvRow]
  BY Requests DEF WriteEnv, IInv
<1>2. CASE Say(c, "missing") /\ UNCHANGED envs
  BY <1>2, QuietSay DEF WriteEnv, tables
<1>3. CASE /\ Found(envs[e], call[c].ns) /\ Say(c, "ok")
           /\ envs' = [envs EXCEPT ![e] = row]
  <2>1. envs[e] \in EnvRow /\ Here(envs[e])
    <3>1. call[c].ns \in Namespaces /\ envs[e] \in EnvRow \cup {Absent}
      BY <1>1 DEF IInv, TypeOK
    <3> QED
      BY <1>3, <3>1, FoundIsHere
  <2>2. row \in EnvRow /\ Here(row)
    <3>1. Patched(envs[e].body, call[c].body) \in Bodies(Labels)
      BY <1>1, <2>1, PatchKeepsType DEF EnvRow
    <3> QED
      BY <2>1, <3>1 DEF EnvWritten, EnvRow, Here
  <2> HIDE DEF row
  <2>3. /\ envs' \in [Envs -> EnvRow \cup {Absent}]
        /\ \A d \in Envs : Here(envs[d]) => Here(envs'[d])
    BY <1>1, <1>3, <2>2 DEF IInv, TypeOK
  <2>4. /\ UNCHANGED <<agents, versions, sessions, walk>> /\ calls' \in 0 .. MaxCalls
    BY DEF WriteEnv, IInv, TypeOK
  <2>5. \A d \in Envs : Here(envs[d]) /\ InUse(d) => Here(envs'[d])
    BY <2>3
  <2> QED
    BY <1>3, <2>3, <2>4, <2>5, Said, EnvsWritten DEF IInv
<1> QED
  BY <1>2, <1>3 DEF WriteEnv

LEMMA ArchiveEnvStep ==
  ASSUME IInv, NEW c \in Clients, ArchiveEnv(c)
  PROVE  IInv'
<1>1. PICK e \in Envs, n \in Namespaces :
        /\ Begin(c, [op |-> "archive env", pc |-> "get", id |-> e, ns |-> n])
        /\ envs' = [envs EXCEPT ![e] =
             IF Found(envs[e], n) THEN Archived(envs[e]) ELSE envs[e]]
        /\ UNCHANGED <<agents, versions, sessions, walk>>
  BY DEF ArchiveEnv
<1> DEFINE r == [op |-> "archive env", pc |-> "get", id |-> e, ns |-> n]
<1>2. r \in Request /\ r.op = "archive env"
  BY DEF EnvRequest, Request
<1>3. calls \in 0 .. MaxCalls /\ calls < MaxCalls /\ calls' = calls + 1 /\ call' = [call EXCEPT ![c] = r]
  BY <1>1 DEF Begin, IInv, TypeOK
<1>4. calls' \in 0 .. MaxCalls
  BY <1>3, OneMoreCall
<1> HIDE DEF r
<1>5. /\ call' \in [Clients -> Request]
      /\ \A d \in Clients : Writing(d)' => Writing(d) /\ call'[d] = call[d]
      /\ \A d \in Clients : PinChecked(d)' => PinChecked(d) /\ call'[d] = call[d]
  BY <1>2, <1>3, CallsStay DEF IInv
<1>6. /\ envs' \in [Envs -> EnvRow \cup {Absent}]
      /\ \A d \in Envs : Here(envs[d]) => Here(envs'[d])
  <2>1. CASE ~Found(envs[e], n)
    BY <1>1, <2>1 DEF IInv, TypeOK
  <2>2. CASE Found(envs[e], n)
    <3>1. envs[e] \in EnvRow /\ Here(envs[e])
      <4>1. envs[e] \in EnvRow \cup {Absent}
        BY DEF IInv, TypeOK
      <4> QED
        BY <2>2, <4>1, FoundIsHere
    <3>2. Archived(envs[e]) \in EnvRow /\ Here(Archived(envs[e]))
      BY <1>3, <3>1, ArchivedRow DEF Here
    <3>3. envs' = [envs EXCEPT ![e] = Archived(envs[e])]
      BY <1>1, <2>2
    <3> QED
      BY <3>2, <3>3 DEF IInv, TypeOK
  <2> QED
    BY <2>1, <2>2
<1> QED
  BY <1>1, <1>4, <1>5, <1>6, EnvsWritten

LEMMA DeleteEnvStep ==
  ASSUME IInv, NEW c \in Clients, DeleteEnv(c)
  PROVE  IInv'
<1>1. PICK e \in Envs :
        /\ calls < MaxCalls /\ calls' = calls + 1
        /\ \/ (Say(c, "missing") \/ Say(c, "error")) /\ UNCHANGED envs
           \/ ~InUse(e) /\ Say(c, "ok") /\ envs' = [envs EXCEPT ![e] = Absent]
        /\ UNCHANGED <<agents, versions, sessions, walk>>
  BY DEF DeleteEnv
<1>2. calls' \in 0 .. MaxCalls
  BY <1>1, OneMoreCall DEF IInv, TypeOK
<1>3. /\ call' \in [Clients -> Request]
      /\ \A d \in Clients : Writing(d)' => Writing(d) /\ call'[d] = call[d]
      /\ \A d \in Clients : PinChecked(d)' => PinChecked(d) /\ call'[d] = call[d]
  BY <1>1, Said DEF IInv
<1>4. /\ envs' \in [Envs -> EnvRow \cup {Absent}]
      /\ \A d \in Envs : Here(envs[d]) /\ InUse(d) => Here(envs'[d])
  BY <1>1 DEF IInv, TypeOK
<1> QED
  BY <1>1, <1>2, <1>3, <1>4, EnvsWritten

LEMMA InsertSessionStep ==
  ASSUME IInv, NEW c \in Clients, InsertSession(c)
  PROVE  IInv'
<1> DEFINE s == call[c].id
           pin == call[c].pin
           row == [ns |-> call[c].ns, agent |-> pin.agent, version |-> pin.version, env |-> pin.env]
           r == [call[c] EXCEPT !.pc = "find again"]
<1>1. call[c] \in SessionRequest /\ call[c].op = "create session" /\ PinChecked(c)
  BY Requests DEF InsertSession, At, IInv, PinChecked
<1>2. pin.version \in DOMAIN versions[pin.agent] /\ pin \in Pin
  BY <1>1 DEF IInv, CallsPinned, SessionRequest
<1>3. CASE Goto(c, "find again") /\ UNCHANGED sessions
  <2>1. r \in Request /\ r.op = "create session" /\ r.pin = pin
    BY <1>1 DEF SessionRequest, Request
  <2>2. UNCHANGED tables /\ walk' \in Walk /\ calls' \in 0 .. MaxCalls
    BY <1>3 DEF InsertSession, tables, IInv, TypeOK
  <2>3. call' = [call EXCEPT ![c] = r]
    BY <1>3 DEF Goto
  <2> HIDE DEF r
  <2> QED
    BY <1>2, <2>1, <2>2, <2>3, Quiet
<1>4. CASE Say(c, "error") /\ UNCHANGED sessions
  BY <1>4, QuietSay DEF InsertSession, tables
<1>5. CASE /\ Here(envs[pin.env]) /\ Say(c, "ok")
           /\ sessions' = [sessions EXCEPT ![s] = row]
  <2>1. UNCHANGED <<agents, versions, envs, walk, calls>>
    BY DEF InsertSession
  <2>2. row \in SessionRow /\ s \in Sessions
    <3>1. pin.version \in Nat \ {0}
      BY <1>2 DEF IInv, TypeOK, Pin
    <3> QED
      BY <1>1, <1>2, <3>1 DEF SessionRow, SessionRequest, Pin
  <2>3. row.version = pin.version /\ row.agent = pin.agent /\ row.env = pin.env
    OBVIOUS
  <2> HIDE DEF row
  <2>4. /\ sessions' \in [Sessions -> SessionRow \cup {Absent}]
        /\ \A t \in Sessions : sessions'[t] = IF t = s THEN row ELSE sessions[t]
    BY <1>5, <2>2 DEF IInv, TypeOK
  <2>5. TypeOK' /\ LatestIsNewest'
    BY <1>5, <2>1, <2>4, Said DEF IInv, TypeOK, LatestIsNewest
  <2>6. \A d \in Clients : Writing(d)' => Writing(d) /\ call'[d] = call[d]
    BY <1>5, Said DEF IInv
  <2>7. WritersHold' /\ OneWriter'
    BY <2>1, <2>6 DEF IInv, WritersHold, OneWriter
  <2>8. CallsPinned'
    BY <1>5, <2>1, Said DEF IInv, CallsPinned
  <2>9. SessionsPinned'
    BY <1>2, <1>5, <2>1, <2>3, <2>4 DEF IInv, SessionsPinned
  <2> QED
    BY <2>5, <2>7, <2>8, <2>9 DEF IInv
<1> QED
  BY <1>3, <1>4, <1>5 DEF InsertSession

\* The reader changes nothing but its own place.
LEMMA WalkStep ==
  ASSUME IInv, StartWalk \/ Page
  PROVE  IInv'
<1>1. UNCHANGED <<tables, call>>
  BY DEF StartWalk, Page
<1>2. calls' \in 0 .. MaxCalls
  <2>1. CASE StartWalk
    BY <2>1, OneMoreCall DEF StartWalk, IInv, TypeOK
  <2>2. CASE Page
    BY <2>2 DEF Page, IInv, TypeOK
  <2> QED
    BY <2>1, <2>2
<1>3. walk' \in Walk
  <2>1. walk \in Walk
    BY DEF IInv, TypeOK
  <2>2. CASE StartWalk
    BY <2>2 DEF StartWalk, NoWalk, Walk
  <2>3. CASE Page
    <3> DEFINE rows == {a \in Agents : Found(agents[a], walk.ns) /\ Live(agents[a]) /\ Behind(a)}
               page == {a \in rows : Cardinality({b \in rows : b > a}) < PageSize}
               on == Cardinality(rows) > PageSize
               after == {a \in page : \A b \in page : a <= b}
               seen == walk.seen \cup page
               twice == walk.twice \/ walk.seen \cap page # {}
    <3>1. walk' = [walk EXCEPT !.on = on, !.after = after, !.seen = seen, !.twice = twice]
      BY <2>3 DEF Page
    <3>2. on \in BOOLEAN /\ twice \in BOOLEAN
      OBVIOUS
    <3>3. after \in SUBSET Agents /\ seen \in SUBSET Agents
      BY <2>1 DEF Walk
    <3> HIDE DEF on, after, seen, twice
    <3> QED
      BY <2>1, <3>1, <3>2, <3>3 DEF Walk
  <2> QED
    BY <2>2, <2>3
<1> QED
  BY <1>1, <1>2, <1>3
     DEF IInv, TypeOK, LatestIsNewest, WritersHold, OneWriter, Writing, At,
         CallsPinned, PinChecked, SessionsPinned, tables

-----------------------------------------------------------------------------
(* The theorems.                                                           *)

LEMMA Start == Init => IInv
<1> SUFFICES ASSUME Init PROVE IInv
  OBVIOUS
<1>1. \A d \in Clients : call[d].op = "none" /\ call[d] \in Request
  BY DEF Init, Idle, Request, Answer
<1>2. ~Here(Absent)
  BY DEF Here, Absent
<1>3. /\ \A a \in Agents : agents[a] = Absent /\ DOMAIN versions[a] = {}
      /\ \A s \in Sessions : sessions[s] = Absent
  BY DEF Init
<1>4. calls \in 0 .. MaxCalls
  BY ConfigsAssumption DEF ConfigsAssumption, Init
<1>5. walk \in Walk
  BY DEF Init, NoWalk, Walk
<1>6. TypeOK
  BY <1>1, <1>4, <1>5 DEF Init, TypeOK
<1>7. LatestIsNewest /\ SessionsPinned
  BY <1>2, <1>3 DEF LatestIsNewest, SessionsPinned
<1>8. WritersHold /\ OneWriter /\ CallsPinned
  BY <1>1 DEF WritersHold, OneWriter, CallsPinned, PinChecked, Writing, At
<1> QED
  BY <1>6, <1>7, <1>8 DEF IInv

LEMMA Step == IInv /\ [Next]_vars => IInv'
<1>1. ASSUME IInv, NEW c \in Clients, AgentCall(c) PROVE IInv'
  BY <1>1, QuietAgent, InsertAgentStep, LockAgentStep, WriteAgentStep, ArchiveAgentStep
     DEF AgentCall
<1>2. ASSUME IInv, NEW c \in Clients, EnvCall(c) PROVE IInv'
  BY <1>2, QuietEnv, InsertEnvStep, WriteEnvStep, ArchiveEnvStep, DeleteEnvStep
     DEF EnvCall
<1>3. ASSUME IInv, NEW c \in Clients, SessionCall(c) PROVE IInv'
  BY <1>3, QuietSession, InsertSessionStep DEF SessionCall
<1>4. ASSUME IInv, UNCHANGED vars PROVE IInv'
  BY <1>4 DEF vars, IInv, TypeOK, LatestIsNewest, WritersHold, OneWriter, Writing, At,
              CallsPinned, PinChecked, SessionsPinned
<1> QED
  BY <1>1, <1>2, <1>3, <1>4, WalkStep DEF Next

\* IInv holds in every reachable state.
THEOREM Invariant == Spec => []IInv
BY Start, Step, PTL DEF Spec

\* Every row and every request keeps its type, for every number of clients.
THEOREM ConfigsTypeCorrect == Spec => []TypeOK
BY Invariant, PTL DEF IInv

\* latest_version is the newest of the versions 1, 2, 3..., whatever updates
\* race (configs service.ts 124-179).
THEOREM LatestStaysNewest == Spec => []LatestIsNewest
BY Invariant, PTL DEF IInv

-----------------------------------------------------------------------------
(* Who writes which table.                                                 *)

LEMMA Writers ==
  ASSUME NEW c \in Clients, AgentCall(c) \/ EnvCall(c) \/ SessionCall(c)
  PROVE  /\ UNCHANGED <<agents, versions>> \/ InsertAgent(c) \/ WriteAgent(c) \/ ArchiveAgent(c)
         /\ UNCHANGED envs \/ InsertEnv(c) \/ WriteEnv(c) \/ ArchiveEnv(c) \/ DeleteEnv(c)
         /\ UNCHANGED sessions \/ InsertSession(c)
<1>1. CASE AgentCall(c)
  <2>1. UNCHANGED <<envs, sessions>>
    BY <1>1 DEF AgentCall, CreateAgent, FindAgent, InsertAgent, FindAgentAgain,
                UpdateAgent, LockAgent, WriteAgent, ArchiveAgent, tables
  <2>2. UNCHANGED <<agents, versions>> \/ InsertAgent(c) \/ WriteAgent(c) \/ ArchiveAgent(c)
    BY <1>1 DEF AgentCall, CreateAgent, FindAgent, FindAgentAgain, UpdateAgent,
                LockAgent, tables
  <2> QED
    BY <2>1, <2>2
<1>2. CASE EnvCall(c)
  <2>1. UNCHANGED <<agents, versions, sessions>>
    BY <1>2 DEF EnvCall, CreateEnv, FindEnv, InsertEnv, FindEnvAgain, UpdateEnv, ReadEnv,
                WriteEnv, ArchiveEnv, GetEnv, DeleteEnv, tables
  <2>2. UNCHANGED envs \/ InsertEnv(c) \/ WriteEnv(c) \/ ArchiveEnv(c) \/ DeleteEnv(c)
    BY <1>2 DEF EnvCall, CreateEnv, FindEnv, FindEnvAgain, UpdateEnv, ReadEnv, GetEnv, tables
  <2> QED
    BY <2>1, <2>2
<1>3. CASE SessionCall(c)
  <2>1. UNCHANGED <<agents, versions, envs>>
    BY <1>3 DEF SessionCall, CreateSession, ReadAgent, ReadVersion, ReadEnvRef,
                FindSession, InsertSession, FindSessionAgain, tables
  <2>2. UNCHANGED sessions \/ InsertSession(c)
    BY <1>3 DEF SessionCall, CreateSession, ReadAgent, ReadVersion, ReadEnvRef,
                FindSession, FindSessionAgain, tables
  <2> QED
    BY <2>1, <2>2
<1> QED
  BY <1>1, <1>2, <1>3

\* A field that the patch does not name is carried forward.
LEMMA Carried ==
  ASSUME NEW fields, NEW body \in Bodies(fields), NEW patch, NEW f \in fields,
         f \notin DOMAIN patch
  PROVE  Patched(body, patch)[f] = body[f]
BY DEF Patched, Bodies

LEMMA NothingNamed ==
  ASSUME NEW fields, NEW body \in Bodies(fields), NEW patch, DOMAIN patch \cap fields = {}
  PROVE  Patched(body, patch) = body
BY DEF Patched, Bodies

\* What WriteAgent does to the agent it holds.
LEMMA Written ==
  ASSUME IInv, NEW c \in Clients, WriteAgent(c)
  PROVE  LET a == call[c].id  patch == call[c].body  cur == agents[a].latest
         IN  /\ a \in Agents /\ Live(agents[a]) /\ agents[a] \in AgentRow
             /\ patch \in Patches(Fields) /\ cur \in DOMAIN versions[a]
             /\ \A b \in Agents : b # a => agents'[b] = agents[b] /\ versions'[b] = versions[b]
             /\ agents'[a].labels = Patched(agents[a].labels, patch)
             /\ versions'[a][agents'[a].latest] = Patched(versions[a][cur], patch)
             /\ \A v \in DOMAIN versions[a] :
                  v \in DOMAIN versions'[a] /\ versions'[a][v] = versions[a][v]
<1> DEFINE a == call[c].id
           patch == call[c].body
           cur == agents[a].latest
           next == NextVersion(c)
<1>1. call[c] \in [op : {"update agent"}, pc : {"write"}, id : Agents,
                   ns : Namespaces, body : Patches(Fields), latest : Nat \ {0}]
  BY Requests DEF WriteAgent, IInv
<1>2. /\ a \in Agents /\ Writing(c) /\ patch \in Patches(Fields)
      /\ Here(agents[a]) /\ Live(agents[a]) /\ call[c].latest = cur
  BY <1>1 DEF Writing, WriteAgent, IInv, WritersHold
<1>3. agents[a] \in AgentRow /\ cur \in Nat \ {0} /\ DOMAIN versions[a] = 1 .. cur
  <2>1. agents[a] \in AgentRow
    BY <1>2 DEF IInv, TypeOK, Here, Absent
  <2>2. DOMAIN versions[a] = 1 .. cur
    BY <1>2 DEF IInv, LatestIsNewest
  <2> QED
    BY <2>1, <2>2 DEF AgentRow
<1>4. cur \in DOMAIN versions[a] /\ versions[a][cur] \in Bodies(Behaviour)
  <2>1. cur \in 1 .. cur
    BY <1>3
  <2> QED
    BY <1>2, <1>3, <2>1 DEF IInv, TypeOK
<1>5. /\ \A b \in Agents : b # a => agents'[b] = agents[b] /\ versions'[b] = versions[b]
      /\ agents'[a].labels = Patched(agents[a].labels, patch)
      /\ agents'[a].latest = next
  BY <1>2, <1>3 DEF WriteAgent, IInv, TypeOK, AgentRow
<1>6. versions'[a] = [v \in DOMAIN versions[a] \cup {next} |->
                        IF v = next THEN Patched(versions[a][cur], patch) ELSE versions[a][v]]
  BY <1>2 DEF WriteAgent, IInv, TypeOK
<1>7. \A v \in DOMAIN versions[a] :
        v \in DOMAIN versions'[a] /\ versions'[a][v] = versions[a][v]
  <2>1. CASE DOMAIN patch \cap Behaviour = {}
    <3>1. next = cur /\ Patched(versions[a][cur], patch) = versions[a][cur]
      BY <1>2, <1>4, <2>1, NothingNamed DEF NextVersion
    <3> QED
      BY <1>6, <3>1
  <2>2. CASE DOMAIN patch \cap Behaviour # {}
    <3>1. next = cur + 1
      BY <1>2, <2>2 DEF NextVersion
    <3>2. next \notin 1 .. cur
      BY <1>3, <3>1
    <3> QED
      BY <1>3, <1>6, <3>2
  <2> QED
    BY <2>1, <2>2
<1>8. versions'[a][next] = Patched(versions[a][cur], patch)
  BY <1>6
<1> QED
  BY <1>2, <1>3, <1>4, <1>5, <1>7, <1>8

\* No version is ever rewritten or removed.
LEMMA VersionsStay ==
  ASSUME IInv, Next, NEW a \in Agents, NEW v \in DOMAIN versions[a]
  PROVE  v \in DOMAIN versions'[a] /\ versions'[a][v] = versions[a][v]
<1>1. CASE UNCHANGED versions
  BY <1>1
<1>2. ASSUME NEW c \in Clients, InsertAgent(c), ~UNCHANGED versions
      PROVE  versions'[a] = versions[a]
  <2>1. /\ call[c].id \in Agents /\ ~Here(agents[call[c].id])
        /\ \E first : versions' = [versions EXCEPT ![call[c].id] = first]
    BY <1>2, Requests DEF InsertAgent, At, IInv, tables
  <2>2. DOMAIN versions[call[c].id] = {}
    BY <2>1 DEF IInv, LatestIsNewest
  <2> QED
    BY <2>1, <2>2 DEF IInv, TypeOK
<1>3. ASSUME NEW c \in Clients, WriteAgent(c)
      PROVE  v \in DOMAIN versions'[a] /\ versions'[a][v] = versions[a][v]
  BY <1>3, Written
<1>4. ASSUME NEW c \in Clients, ArchiveAgent(c) PROVE UNCHANGED versions
  BY <1>4 DEF ArchiveAgent
<1>5. StartWalk \/ Page => UNCHANGED versions
  BY DEF StartWalk, Page, tables
<1> QED
  BY <1>1, <1>2, <1>3, <1>4, <1>5, Writers DEF Next

-----------------------------------------------------------------------------
(* A session's behaviour is pinned.                                        *)

\* An environment that a session uses is never deleted.
LEMMA EnvsInUseStay ==
  ASSUME IInv, Next, NEW e \in Envs, Here(envs[e]), InUse(e)
  PROVE  Here(envs'[e])
<1>1. envs \in [Envs -> EnvRow \cup {Absent}]
  BY DEF IInv, TypeOK
<1>2. ASSUME NEW c \in Clients, InsertEnv(c) PROVE Here(envs'[e])
  <2>1. CASE Here(envs[call[c].id])
    BY <1>2, <2>1 DEF InsertEnv
  <2>2. CASE ~Here(envs[call[c].id])
    <3>1. envs'[e] = envs[e]
      BY <1>1, <1>2, <2>2 DEF InsertEnv
    <3> QED
      BY <3>1
  <2> QED
    BY <2>1, <2>2
<1>3. ASSUME NEW c \in Clients, WriteEnv(c) PROVE Here(envs'[e])
  <2>1. envs[e] \in EnvRow
    BY <1>1 DEF Here, Absent
  <2>2. EnvWritten(envs[e], c).ns = envs[e].ns
    BY <2>1 DEF EnvWritten, EnvRow
  <2>3. envs'[e] = envs[e] \/ envs'[e] = EnvWritten(envs[e], c)
    BY <1>1, <1>3 DEF WriteEnv
  <2> QED
    BY <2>2, <2>3 DEF Here
<1>4. ASSUME NEW c \in Clients, ArchiveEnv(c) PROVE Here(envs'[e])
  <2>1. envs[e] \in EnvRow
    BY <1>1 DEF Here, Absent
  <2>2. Archived(envs[e]).ns = envs[e].ns
    BY <2>1, ArchivedRow DEF IInv, TypeOK
  <2>3. envs'[e] = envs[e] \/ envs'[e] = Archived(envs[e])
    BY <1>1, <1>4 DEF ArchiveEnv
  <2> QED
    BY <2>2, <2>3 DEF Here
<1>5. ASSUME NEW c \in Clients, DeleteEnv(c) PROVE Here(envs'[e])
  BY <1>1, <1>5 DEF DeleteEnv
<1>6. StartWalk \/ Page => UNCHANGED envs
  BY DEF StartWalk, Page, tables
<1> QED
  BY <1>2, <1>3, <1>4, <1>5, <1>6, Writers DEF Next

\* The row of a session is written once.
LEMMA SessionsStay ==
  ASSUME IInv, Next, NEW s \in Sessions, Here(sessions[s])
  PROVE  sessions'[s] = sessions[s]
<1>1. ASSUME NEW c \in Clients, InsertSession(c) PROVE sessions'[s] = sessions[s]
  <2>1. call[c].id \in Sessions /\ sessions \in [Sessions -> SessionRow \cup {Absent}]
    BY <1>1, Requests DEF InsertSession, At, SessionRequest, IInv, TypeOK
  <2>2. CASE Here(sessions[call[c].id])
    BY <1>1, <2>2 DEF InsertSession
  <2>3. CASE ~Here(sessions[call[c].id])
    BY <1>1, <2>1, <2>3 DEF InsertSession
  <2> QED
    BY <2>2, <2>3
<1>2. StartWalk \/ Page => UNCHANGED sessions
  BY DEF StartWalk, Page, tables
<1> QED
  BY <1>1, <1>2, Writers DEF Next

LEMMA PinsKeptStep == IInv /\ [Next]_vars => [PinsKept]_vars
<1>1. ASSUME IInv, Next, NEW s \in Sessions, Here(sessions[s])
      PROVE  LET a == sessions[s].agent  v == sessions[s].version
             IN  /\ sessions'[s] = sessions[s] /\ Here(envs'[sessions[s].env])
                 /\ v \in DOMAIN versions[a] /\ versions'[a][v] = versions[a][v]
  <2>1. sessions[s].agent \in Agents /\ sessions[s].env \in Envs
    BY <1>1 DEF IInv, TypeOK, Here, Absent, SessionRow
  <2>2. /\ sessions[s].version \in DOMAIN versions[sessions[s].agent]
        /\ Here(envs[sessions[s].env]) /\ InUse(sessions[s].env)
    BY <1>1 DEF IInv, SessionsPinned, InUse
  <2>3. sessions'[s] = sessions[s]
    BY <1>1, SessionsStay
  <2>4. Here(envs'[sessions[s].env])
    BY <1>1, <2>1, <2>2, EnvsInUseStay
  <2>5. versions'[sessions[s].agent][sessions[s].version]
          = versions[sessions[s].agent][sessions[s].version]
    BY <1>1, <2>1, <2>2, VersionsStay
  <2> QED
    BY <2>2, <2>3, <2>4, <2>5
<1> QED
  BY <1>1 DEF PinsKept

\* The pins of a session, the version they name and its environment stay
\* (sessions service.ts 91-127, configs service.ts 124-179, envs-service.ts 139-152).
THEOREM SessionsKeepBehaviour == Spec => BehaviourIsPinned
BY Invariant, PinsKeptStep, PTL DEF Spec, BehaviourIsPinned

-----------------------------------------------------------------------------
(* Edits add up.                                                           *)

\* One step of an agent's row and versions.
LEMMA AgentsEdited ==
  ASSUME IInv, Next, NEW a \in Agents, Here(agents[a])
  PROVE  AgentEdited(a)
<1>1. /\ agents[a] \in AgentRow /\ agents[a].latest \in DOMAIN versions[a]
      /\ agents[a].labels \in Bodies(Labels)
      /\ versions[a][agents[a].latest] \in Bodies(Behaviour)
  <2>1. agents[a] \in AgentRow
    BY DEF IInv, TypeOK, Here, Absent
  <2>2. agents[a].latest \in 1 .. agents[a].latest
    BY <2>1 DEF AgentRow
  <2>3. agents[a].latest \in DOMAIN versions[a]
    BY <2>2 DEF IInv, LatestIsNewest
  <2>4. versions[a] \in [DOMAIN versions[a] -> Bodies(Behaviour)]
    BY DEF IInv, TypeOK
  <2>5. agents[a].labels \in Bodies(Labels)
    BY <2>1 DEF AgentRow
  <2> QED
    BY <2>1, <2>3, <2>4, <2>5
<1>2. ASSUME agents'[a] = agents[a], versions'[a] = versions[a] PROVE AgentEdited(a)
  BY <1>2 DEF AgentEdited, Agent
<1>3. ASSUME NEW c \in Clients, InsertAgent(c) PROVE AgentEdited(a)
  <2>1. call[c].id \in Agents
    BY <1>3, Requests DEF InsertAgent, At, IInv
  <2>2. agents'[a] = agents[a] /\ versions'[a] = versions[a]
    <3>1. CASE Here(agents[call[c].id])
      BY <1>3, <3>1 DEF InsertAgent, tables
    <3>2. CASE ~Here(agents[call[c].id])
      <4>1. /\ a # call[c].id
            /\ \E row : agents' = [agents EXCEPT ![call[c].id] = row]
            /\ \E first : versions' = [versions EXCEPT ![call[c].id] = first]
        BY <1>3, <3>2 DEF InsertAgent
      <4> QED
        BY <2>1, <4>1 DEF IInv, TypeOK
    <3> QED
      BY <3>1, <3>2
  <2> QED
    BY <1>2, <2>2
<1>4. ASSUME NEW c \in Clients, WriteAgent(c) PROVE AgentEdited(a)
  <2>1. CASE call[c].id # a
    <3>1. agents'[a] = agents[a] /\ versions'[a] = versions[a]
      BY <1>4, <2>1, Written
    <3> QED
      BY <1>2, <3>1
  <2>2. CASE call[c].id = a
    <3>1. /\ Live(agents[a])
          /\ agents'[a].labels = Patched(agents[a].labels, call[c].body)
          /\ versions'[a][agents'[a].latest]
               = Patched(versions[a][agents[a].latest], call[c].body)
      BY <1>4, <2>2, Written
    <3>2. ASSUME NEW f \in Fields, f \notin DOMAIN call[c].body
          PROVE  Agent(a)'[f] = Agent(a)[f]
      <4>1. CASE f \in Labels
        <5>1. agents'[a].labels[f] = agents[a].labels[f]
          BY <1>1, <3>1, <3>2, <4>1, Carried
        <5> QED
          BY <4>1, <5>1 DEF Agent
      <4>2. CASE f \notin Labels
        <5>1. f \in Behaviour
          BY <4>2 DEF Fields
        <5>2. versions'[a][agents'[a].latest][f] = versions[a][agents[a].latest][f]
          BY <1>1, <3>1, <3>2, <5>1, Carried
        <5> QED
          BY <4>2, <5>2 DEF Agent
      <4> QED
        BY <4>1, <4>2
    <3>3. \A f \in Fields : Agent(a)'[f] # Agent(a)[f] => Names(f, "update agent", a)
      BY <1>4, <2>2, <3>2 DEF Names, WriteAgent
    <3> QED
      BY <3>1, <3>3 DEF AgentEdited
  <2> QED
    BY <2>1, <2>2
<1>5. ASSUME NEW c \in Clients, ArchiveAgent(c) PROVE AgentEdited(a)
  <2>1. versions' = versions
    BY <1>5 DEF ArchiveAgent
  <2>2. agents'[a] = agents[a] \/ agents'[a] = Archived(agents[a])
    BY <1>5 DEF ArchiveAgent, IInv, TypeOK
  <2>3. CASE agents'[a] = agents[a]
    BY <1>2, <2>1, <2>3
  <2>4. CASE agents'[a] = Archived(agents[a])
    <3>1. /\ agents'[a].latest = agents[a].latest /\ agents'[a].labels = agents[a].labels
          /\ ~Live(agents[a]) => agents'[a] = agents[a]
      BY <1>1, <2>4, ArchivedRow DEF IInv, TypeOK
    <3>2. Agent(a)' = Agent(a)
      BY <2>1, <3>1 DEF Agent
    <3> QED
      BY <2>1, <3>1, <3>2 DEF AgentEdited
  <2> QED
    BY <2>2, <2>3, <2>4
<1>6. StartWalk \/ Page => UNCHANGED <<agents, versions>>
  BY DEF StartWalk, Page, tables
<1> QED
  BY <1>2, <1>3, <1>4, <1>5, <1>6, Writers DEF Next

\* One step of an environment's row.
LEMMA EnvsEdited ==
  ASSUME IInv, Next, NEW e \in Envs, Here(envs[e]), Here(envs'[e])
  PROVE  EnvEdited(e)
<1>1. envs \in [Envs -> EnvRow \cup {Absent}] /\ envs[e] \in EnvRow
  BY DEF IInv, TypeOK, Here, Absent
<1>2. ASSUME envs'[e] = envs[e] PROVE EnvEdited(e)
  BY <1>2 DEF EnvEdited
<1>3. ASSUME NEW c \in Clients, InsertEnv(c) PROVE EnvEdited(e)
  <2>1. envs'[e] = envs[e]
    <3>1. CASE Here(envs[call[c].id])
      BY <1>3, <3>1 DEF InsertEnv
    <3>2. CASE ~Here(envs[call[c].id])
      BY <1>1, <1>3, <3>2 DEF InsertEnv
    <3> QED
      BY <3>1, <3>2
  <2> QED
    BY <1>2, <2>1
<1>4. ASSUME NEW c \in Clients, WriteEnv(c) PROVE EnvEdited(e)
  <2>1. CASE envs'[e] = envs[e]
    BY <1>2, <2>1
  <2>2. CASE envs'[e] # envs[e]
    <3>1. call[c].id = e /\ envs'[e] = EnvWritten(envs[e], c)
      BY <1>1, <1>4, <2>2 DEF WriteEnv
    <3>2. /\ envs'[e].archived = envs[e].archived
          /\ envs'[e].body = Patched(envs[e].body, call[c].body)
      BY <1>1, <3>1 DEF EnvWritten, EnvRow
    <3>3. envs[e].body \in Bodies(Labels)
      BY <1>1 DEF EnvRow
    <3>4. ASSUME NEW f \in Labels, f \notin DOMAIN call[c].body
          PROVE  envs'[e].body[f] = envs[e].body[f]
      BY <3>2, <3>3, <3>4, Carried
    <3>5. \A f \in Labels : envs'[e].body[f] # envs[e].body[f] => Names(f, "update env", e)
      BY <1>4, <3>1, <3>4 DEF Names, WriteEnv
    <3> QED
      BY <3>2, <3>5 DEF EnvEdited
  <2> QED
    BY <2>1, <2>2
<1>5. ASSUME NEW c \in Clients, ArchiveEnv(c) PROVE EnvEdited(e)
  <2>1. envs'[e] = envs[e] \/ envs'[e] = Archived(envs[e])
    BY <1>1, <1>5 DEF ArchiveEnv
  <2>2. /\ Archived(envs[e]).body = envs[e].body
        /\ ~Live(envs[e]) => Archived(envs[e]) = envs[e]
    BY <1>1, ArchivedRow DEF IInv, TypeOK
  <2> QED
    BY <1>2, <2>1, <2>2 DEF EnvEdited
<1>6. ASSUME NEW c \in Clients, DeleteEnv(c) PROVE EnvEdited(e)
  <2>1. envs'[e] = envs[e] \/ envs'[e] = Absent
    BY <1>1, <1>6 DEF DeleteEnv
  <2> QED
    BY <1>2, <2>1 DEF Here, Absent
<1>7. StartWalk \/ Page => UNCHANGED envs
  BY DEF StartWalk, Page, tables
<1> QED
  BY <1>2, <1>3, <1>4, <1>5, <1>6, <1>7, Writers DEF Next

LEMMA EditedStep == IInv /\ [Next]_vars => [Edited]_vars
BY AgentsEdited, EnvsEdited DEF Edited

\* No update loses what another one wrote, and an archived agent is frozen
\* (configs service.ts 124-179, envs-service.ts 103-137).
THEOREM UpdatesAdd == Spec => EditsAdd
BY Invariant, EditedStep, PTL DEF Spec, EditsAdd

-----------------------------------------------------------------------------
(* Creates agree.                                                          *)

\* A create that lost the race for the key finds a row under it: agents are
\* never deleted.
LostToARow ==
  \A c \in Clients : At(c, "create agent", "find again") => Here(agents[call[c].id])

LEMMA AgentsStay ==
  ASSUME IInv, Next, NEW a \in Agents, Here(agents[a])
  PROVE  Here(agents'[a])
<1>1. agents \in [Agents -> AgentRow \cup {Absent}] /\ agents[a] \in AgentRow
  BY DEF IInv, TypeOK, Here, Absent
<1>2. ASSUME NEW c \in Clients, InsertAgent(c) PROVE Here(agents'[a])
  BY <1>1, <1>2 DEF InsertAgent, tables
<1>3. ASSUME NEW c \in Clients, WriteAgent(c) PROVE Here(agents'[a])
  BY <1>1, <1>3 DEF WriteAgent, AgentRow, Here
<1>4. ASSUME NEW c \in Clients, ArchiveAgent(c) PROVE Here(agents'[a])
  <2>1. agents'[a] = agents[a] \/ agents'[a] = Archived(agents[a])
    BY <1>1, <1>4 DEF ArchiveAgent
  <2>2. Archived(agents[a]).ns = agents[a].ns
    BY <1>1, ArchivedRow DEF IInv, TypeOK
  <2> QED
    BY <2>1, <2>2 DEF Here
<1>5. StartWalk \/ Page => UNCHANGED agents
  BY DEF StartWalk, Page, tables
<1> QED
  BY <1>2, <1>3, <1>4, <1>5, Writers DEF Next

\* A step of one client leaves the calls of the others alone.
LEMMA Alone ==
  ASSUME IInv, NEW d \in Clients, AgentCall(d) \/ EnvCall(d) \/ SessionCall(d),
         NEW c \in Clients, call'[c] # call[c]
  PROVE  c = d
<1>1. call = [k \in Clients |-> call[k]]
  BY DEF IInv, TypeOK
<1>2. CASE AgentCall(d)
  BY <1>1, <1>2 DEF AgentCall, CreateAgent, FindAgent, InsertAgent, FindAgentAgain,
     UpdateAgent, LockAgent, WriteAgent, ArchiveAgent, Begin, Goto, Say, Resolve, ResolveAgent
<1>3. CASE EnvCall(d)
  BY <1>1, <1>3 DEF EnvCall, CreateEnv, FindEnv, InsertEnv, FindEnvAgain, UpdateEnv,
     ReadEnv, WriteEnv, ArchiveEnv, GetEnv, DeleteEnv, Begin, Goto, Say, Resolve, ResolveEnv
<1>4. CASE SessionCall(d)
  BY <1>1, <1>4 DEF SessionCall, CreateSession, ReadAgent, ReadVersion, ReadEnvRef,
     FindSession, InsertSession, FindSessionAgain, Begin, Goto, Say, Resolve
<1> QED
  BY <1>2, <1>3, <1>4

\* The steps that move a create of an agent on.
LEMMA Creating ==
  ASSUME IInv, Next, NEW c \in Clients, call[c].op = "create agent", call'[c] # call[c]
  PROVE  FindAgent(c) \/ InsertAgent(c) \/ FindAgentAgain(c)
<1>1. AgentCall(c) => FindAgent(c) \/ InsertAgent(c) \/ FindAgentAgain(c)
  BY DEF AgentCall, CreateAgent, UpdateAgent, LockAgent, WriteAgent, ArchiveAgent, Begin, At
<1>2. ~EnvCall(c)
  BY DEF EnvCall, CreateEnv, FindEnv, InsertEnv, FindEnvAgain, UpdateEnv, ReadEnv,
     WriteEnv, ArchiveEnv, GetEnv, DeleteEnv, Begin, At
<1>3. ~SessionCall(c)
  BY DEF SessionCall, CreateSession, ReadAgent, ReadVersion, ReadEnvRef, FindSession,
     InsertSession, FindSessionAgain, Begin, At
<1>4. StartWalk \/ Page => UNCHANGED call
  BY DEF StartWalk, Page
<1> QED
  BY <1>1, <1>2, <1>3, <1>4, Alone DEF Next

\* Goto keeps the call.
LEMMA Went ==
  ASSUME IInv, NEW c \in Clients, NEW pc, Goto(c, pc),
         call[c].op \in {"create agent", "create env", "create session"}
  PROVE  call'[c].op = call[c].op /\ call'[c].id = call[c].id /\ call'[c].pc = pc
<1>1. call'[c] = [call[c] EXCEPT !.pc = pc]
  BY DEF Goto, IInv, TypeOK
<1>2. CASE call[c].op = "create agent"
  BY <1>1, <1>2, Requests DEF IInv
<1>3. CASE call[c].op = "create env"
  BY <1>1, <1>3, Requests DEF IInv
<1>4. CASE call[c].op = "create session"
  BY <1>1, <1>4, Requests DEF IInv, SessionRequest
<1> QED
  BY <1>2, <1>3, <1>4

LEMMA Put ==
  ASSUME IInv, NEW c \in Clients, NEW request, call' = [call EXCEPT ![c] = request]
  PROVE  call'[c] = request /\ call'[c].op = request.op /\ call'[c].pc = request.pc
<1>1. call'[c] = request
  BY DEF IInv, TypeOK
<1> QED
  BY <1>1

LEMMA Ended ==
  ASSUME IInv, NEW c \in Clients, NEW said, Say(c, said)
  PROVE  call'[c].op = "none" /\ call'[c].said = said
BY DEF Say, IInv, TypeOK

\* A create of an agent begins with the look for its row.
LEMMA Begun ==
  ASSUME IInv, Next, NEW c \in Clients, call[c].op # "create agent", call'[c] # call[c]
  PROVE  call'[c].op = "create agent" => call'[c].pc = "find"
<1>1. call \in [Clients -> Request]
  BY DEF IInv, TypeOK
<1>2. CASE AgentCall(c)
  <2>1. CASE CreateAgent(c)
    <3>1. PICK a \in Agents, n \in Namespaces, body \in Bodies(Fields) :
            Begin(c, [op |-> "create agent", pc |-> "find", id |-> a, ns |-> n, body |-> body])
      BY <2>1, Zenon DEF CreateAgent
    <3>2. call'[c].pc = [op |-> "create agent", pc |-> "find", id |-> a, ns |-> n, body |-> body].pc
      BY <3>1, Put, Zenon DEF Begin
    <3> QED
      BY <3>2
  <2>2. CASE UpdateAgent(c)
    <3>1. PICK a \in Agents, n \in Namespaces, patch \in Patches(Fields) :
            Begin(c, [op |-> "update agent", pc |-> "lock", id |-> a, ns |-> n, body |-> patch])
      BY <2>2, Zenon DEF UpdateAgent
    <3>2. call'[c].op = [op |-> "update agent", pc |-> "lock", id |-> a, ns |-> n, body |-> patch].op
      BY <3>1, Put, Zenon DEF Begin
    <3> QED
      BY <3>2
  <2>3. CASE LockAgent(c) \/ WriteAgent(c) \/ ArchiveAgent(c)
    <3>1. \/ \E said : Say(c, said)
          \/ call' = [call EXCEPT ![c] =
                [op |-> "update agent", pc |-> "write", id |-> call[c].id, ns |-> call[c].ns,
                 body |-> call[c].body, latest |-> agents[call[c].id].latest]]
      BY <2>3, Zenon DEF LockAgent, WriteAgent, ArchiveAgent
    <3>2. CASE call' = [call EXCEPT ![c] =
                 [op |-> "update agent", pc |-> "write", id |-> call[c].id, ns |-> call[c].ns,
                  body |-> call[c].body, latest |-> agents[call[c].id].latest]]
      <4>1. call'[c].op = [op |-> "update agent", pc |-> "write", id |-> call[c].id,
                 ns |-> call[c].ns, body |-> call[c].body,
                 latest |-> agents[call[c].id].latest].op
        BY <3>2, Put, Zenon
      <4> QED
        BY <4>1
    <3> QED
      BY <3>1, <3>2, Ended
  <2>4. ~FindAgent(c) /\ ~InsertAgent(c) /\ ~FindAgentAgain(c)
    BY DEF FindAgent, InsertAgent, FindAgentAgain, At
  <2> QED
    BY <1>2, <2>1, <2>2, <2>3, <2>4 DEF AgentCall
<1>3. CASE EnvCall(c)
  <2>1. CASE CreateEnv(c) \/ UpdateEnv(c) \/ ArchiveEnv(c) \/ ReadEnv(c)
    <3>1. ASSUME NEW e, NEW n, NEW body,
                 Begin(c, [op |-> "create env", pc |-> "find", id |-> e, ns |-> n, body |-> body])
          PROVE  call'[c].op # "create agent"
      <4>1. call'[c].op = [op |-> "create env", pc |-> "find", id |-> e, ns |-> n, body |-> body].op
        BY <3>1, Put, Zenon DEF Begin
      <4> QED
        BY <4>1
    <3>2. ASSUME NEW e, NEW n, NEW patch,
                 Begin(c, [op |-> "update env", pc |-> "find", id |-> e, ns |-> n, body |-> patch])
          PROVE  call'[c].op # "create agent"
      <4>1. call'[c].op = [op |-> "update env", pc |-> "find", id |-> e, ns |-> n, body |-> patch].op
        BY <3>2, Put, Zenon DEF Begin
      <4> QED
        BY <4>1
    <3>3. ASSUME NEW e, NEW n, Begin(c, [op |-> "archive env", pc |-> "get", id |-> e, ns |-> n])
          PROVE  call'[c].op # "create agent"
      <4>1. call'[c].op = [op |-> "archive env", pc |-> "get", id |-> e, ns |-> n].op
        BY <3>3, Put, Zenon DEF Begin
      <4> QED
        BY <4>1
    <3>4. CASE call' = [call EXCEPT ![c] =
                 [op |-> "update env", pc |-> "write", id |-> call[c].id, ns |-> call[c].ns,
                  body |-> call[c].body, row |-> envs[call[c].id]]]
      <4>1. call'[c].op = [op |-> "update env", pc |-> "write", id |-> call[c].id,
                 ns |-> call[c].ns, body |-> call[c].body, row |-> envs[call[c].id]].op
        BY <3>4, Put, Zenon
      <4> QED
        BY <4>1
    <3>5. CASE CreateEnv(c)
      BY <3>1, <3>5, Zenon DEF CreateEnv
    <3>6. CASE UpdateEnv(c)
      BY <3>2, <3>6, Zenon DEF UpdateEnv
    <3>7. CASE ArchiveEnv(c)
      BY <3>3, <3>7, Zenon DEF ArchiveEnv
    <3>8. CASE ReadEnv(c)
      <4>1. \/ \E said : Say(c, said)
            \/ call' = [call EXCEPT ![c] =
                 [op |-> "update env", pc |-> "write", id |-> call[c].id, ns |-> call[c].ns,
                  body |-> call[c].body, row |-> envs[call[c].id]]]
        BY <3>8, Zenon DEF ReadEnv
      <4> QED
        BY <3>4, <4>1, Ended
    <3> QED
      BY <2>1, <3>5, <3>6, <3>7, <3>8
  <2>2. CASE FindEnv(c) \/ InsertEnv(c) \/ FindEnvAgain(c)
    BY <2>2, Went, Ended DEF FindEnv, InsertEnv, FindEnvAgain, ResolveEnv, Resolve, At
  <2>3. CASE WriteEnv(c) \/ GetEnv(c) \/ DeleteEnv(c)
    BY <2>3, Ended DEF WriteEnv, GetEnv, DeleteEnv
  <2> QED
    BY <1>3, <2>1, <2>2, <2>3 DEF EnvCall
<1>4. CASE SessionCall(c)
  <2>1. CASE CreateSession(c)
    <3>1. PICK s \in Sessions, n \in Namespaces, a \in Agents, v \in 0 .. MaxVersion, e \in Envs :
            Begin(c, [op |-> "create session", pc |-> "agent", id |-> s, ns |-> n,
                      pin |-> [agent |-> a, version |-> v, env |-> e]])
      BY <2>1, Zenon DEF CreateSession
    <3>2. call'[c].op = [op |-> "create session", pc |-> "agent", id |-> s, ns |-> n,
                      pin |-> [agent |-> a, version |-> v, env |-> e]].op
      BY <3>1, Put, Zenon DEF Begin
    <3> QED
      BY <3>2
  <2>2. CASE ReadAgent(c)
    <3>1. call[c] \in SessionRequest
      BY <2>2, Requests DEF ReadAgent, At, IInv
    <3>2. CASE call' = [call EXCEPT ![c].pc = "env",
                                    ![c].pin.version = agents[call[c].pin.agent].latest]
      <4>1. call'[c].op = call[c].op
        BY <1>1, <3>1, <3>2 DEF SessionRequest
      <4> QED
        BY <4>1
    <3> QED
      BY <2>2, <3>2, Went, Ended DEF ReadAgent, At
  <2>3. CASE ReadVersion(c) \/ ReadEnvRef(c)
    BY <2>3, Went, Ended DEF ReadVersion, ReadEnvRef, At
  <2>4. CASE FindSession(c) \/ InsertSession(c) \/ FindSessionAgain(c)
    BY <2>4, Went, Ended DEF FindSession, InsertSession, FindSessionAgain, Resolve, At
  <2> QED
    BY <1>4, <2>1, <2>2, <2>3, <2>4 DEF SessionCall
<1>5. StartWalk \/ Page => UNCHANGED call
  BY DEF StartWalk, Page
<1> QED
  BY <1>2, <1>3, <1>4, <1>5, Alone DEF Next

LEMMA LostStep == IInv /\ LostToARow /\ [Next]_vars => LostToARow'
<1> SUFFICES ASSUME IInv, LostToARow, Next, NEW c \in Clients,
                    At(c, "create agent", "find again")'
             PROVE  Here(agents'[call'[c].id])
  BY DEF LostToARow, vars, At
<1>1. CASE call'[c] = call[c]
  <2>1. At(c, "create agent", "find again")
    BY <1>1 DEF At
  <2>2. call[c].id \in Agents /\ Here(agents[call[c].id])
    BY <2>1, Requests DEF IInv, LostToARow, At
  <2> QED
    BY <1>1, <2>2, AgentsStay
<1>2. CASE call'[c] # call[c] /\ call[c].op = "create agent"
  <2>1. call[c].id \in Agents
    BY <1>2, Requests DEF IInv
  <2>2. CASE InsertAgent(c) /\ Here(agents[call[c].id])
    <3>1. Goto(c, "find again")
      BY <2>2 DEF InsertAgent
    <3>2. call'[c].id = call[c].id
      BY <1>2, <3>1, Went
    <3> QED
      BY <2>1, <2>2, <3>2, AgentsStay
  <2>3. CASE InsertAgent(c) /\ ~Here(agents[call[c].id])
    BY <2>3, Ended DEF InsertAgent, At
  <2>4. CASE FindAgent(c) \/ FindAgentAgain(c)
    <3>1. Goto(c, "insert") \/ \E said : Say(c, said)
      BY <2>4 DEF FindAgent, FindAgentAgain, ResolveAgent, Resolve
    <3>2. ASSUME Goto(c, "insert") PROVE FALSE
      <4>1. call'[c].pc = "insert"
        BY <1>2, <3>2, Went
      <4> QED
        BY <4>1 DEF At
    <3> QED
      BY <3>1, <3>2, Ended DEF At
  <2> QED
    BY <1>2, <2>2, <2>3, <2>4, Creating
<1>3. CASE call'[c] # call[c] /\ call[c].op # "create agent"
  BY <1>3, Begun DEF At
<1> QED
  BY <1>1, <1>2, <1>3

LEMMA LostStart == Init => LostToARow
<1> SUFFICES ASSUME Init, NEW c \in Clients PROVE ~At(c, "create agent", "find again")
  BY DEF LostToARow
<1>1. call[c].op = "none"
  BY DEF Init, Idle
<1> QED
  BY <1>1 DEF At

LEMMA LosersFindARow == Spec => []LostToARow
BY Invariant, LostStart, LostStep, PTL DEF Spec

LEMMA OneVersion ==
  ASSUME NEW table, NEW body, table = [v \in {1} |-> body]
  PROVE  table[1] = body
OBVIOUS

LEMMA AgreedStep == IInv /\ LostToARow /\ [Next]_vars => [Agreed]_vars
<1> SUFFICES ASSUME IInv, LostToARow, Next, NEW c \in Clients, NEW a, a = call[c].id,
                    call[c].op = "create agent", call'[c].op = "none"
             PROVE  /\ Here(agents'[a])
                    /\ call'[c].said = "error" <=> agents'[a].ns # call[c].ns
                    /\ call'[c].said = "ok" <=>
                         agents'[a].ns = call[c].ns /\ Agent(a)' = call[c].body
  BY Zenon DEF Agreed
<1>1. /\ a \in Agents /\ call[c].ns \in Namespaces /\ call[c].body \in Bodies(Fields)
      /\ call \in [Clients -> Request]
  BY Requests DEF IInv, TypeOK
<1>2. ASSUME NEW said, Say(c, said) PROVE call'[c].said = said
  BY <1>2, Ended
<1>3. ASSUME NEW pc, Goto(c, pc) PROVE call'[c].op = "create agent"
  BY <1>3, Went
<1>4. CASE (FindAgent(c) \/ FindAgentAgain(c)) /\ Found(agents[a], call[c].ns)
  <2>1. UNCHANGED <<agents, versions>> /\ ResolveAgent(c)
    BY <1>4 DEF FindAgent, FindAgentAgain, tables
  <2>2. Here(agents[a]) /\ agents[a].ns = call[c].ns
    BY <1>1, <1>4, FoundIsHere DEF Found
  <2>3. Agent(a)' = Agent(a)
    BY <2>1 DEF Agent
  <2>4. Say(c, IF Agent(a) = call[c].body THEN "ok" ELSE "conflict")
    BY <2>1 DEF ResolveAgent, Resolve
  <2>5. call'[c].said = IF Agent(a) = call[c].body THEN "ok" ELSE "conflict"
    BY <1>2, <2>4
  <2> QED
    BY <2>1, <2>2, <2>3, <2>5
<1>5. CASE FindAgent(c) /\ ~Found(agents[a], call[c].ns)
  BY <1>3, <1>5 DEF FindAgent
<1>6. CASE FindAgentAgain(c) /\ ~Found(agents[a], call[c].ns)
  <2>1. UNCHANGED agents /\ call'[c].said = "error" /\ Here(agents[a])
    BY <1>2, <1>6 DEF FindAgentAgain, tables, LostToARow
  <2> QED
    BY <1>6, <2>1 DEF Found
<1>7. CASE InsertAgent(c) /\ Here(agents[a])
  BY <1>3, <1>7 DEF InsertAgent
<1>8. CASE InsertAgent(c) /\ ~Here(agents[a])
  <2>1. /\ agents'[a] = [ns |-> call[c].ns, latest |-> 1, archived |-> 0,
                         labels |-> Part(call[c].body, Labels)]
        /\ versions'[a] = [v \in {1} |-> Part(call[c].body, Behaviour)]
        /\ call'[c].said = "ok"
    BY <1>1, <1>2, <1>8 DEF InsertAgent, IInv, TypeOK
  <2>2. /\ agents'[a].ns = call[c].ns /\ agents'[a].latest = 1
        /\ agents'[a].labels = Part(call[c].body, Labels)
        /\ versions'[a][1] = Part(call[c].body, Behaviour)
    <3> DEFINE row == [ns |-> call[c].ns, latest |-> 1, archived |-> 0,
                       labels |-> Part(call[c].body, Labels)]
    <3>1. /\ agents'[a].ns = row.ns /\ agents'[a].latest = row.latest
          /\ agents'[a].labels = row.labels
      BY <2>1, Zenon
    <3>2. row.ns = call[c].ns /\ row.latest = 1 /\ row.labels = Part(call[c].body, Labels)
      OBVIOUS
    <3>3. versions'[a][1] = Part(call[c].body, Behaviour)
      BY <2>1, OneVersion
    <3> HIDE DEF row
    <3> QED
      BY <3>1, <3>2, <3>3
  <2>3. Agent(a)' = call[c].body
    <3> DEFINE labels == agents'[a].labels
               behaviour == versions'[a][agents'[a].latest]
               body == call[c].body
    <3>1. Agent(a)' = [f \in Fields |-> IF f \in Labels THEN labels[f] ELSE behaviour[f]]
      BY Zenon DEF Agent
    <3>2. labels = Part(body, Labels) /\ behaviour = Part(body, Behaviour)
      BY <2>2
    <3>3. body \in Bodies(Fields)
      BY <1>1
    <3> HIDE DEF labels, behaviour, body
    <3>4. [f \in Fields |-> IF f \in Labels THEN labels[f] ELSE behaviour[f]] = body
      <4>1. \A f \in Labels : labels[f] = body[f]
        BY <3>2 DEF Part
      <4>2. \A f \in Behaviour : behaviour[f] = body[f]
        BY <3>2 DEF Part
      <4>3. body = [f \in Fields |-> body[f]]
        BY <3>3 DEF Bodies
      <4> QED
        BY <4>1, <4>2, <4>3 DEF Fields
    <3> QED
      BY <3>1, <3>4, Zenon DEF body
  <2>4. Here(agents'[a])
    BY <1>1, <2>2, ConfigsAssumption DEF Here, ConfigsAssumption
  <2> QED
    BY <2>1, <2>2, <2>3, <2>4
<1>9. call'[c] # call[c]
  BY <1>1
<1> QED
  BY <1>4, <1>5, <1>6, <1>7, <1>8, <1>9, Creating

\* A create succeeds only on a row that is this very configuration, whoever wrote
\* it (configs service.ts 53-96).
THEOREM CreatesAreAnswered == Spec => CreatesAgree
BY Invariant, LosersFindARow, AgreedStep, PTL DEF Spec, CreatesAgree
-----------------------------------------------------------------------------
(* The walk through the pages.  Behind the last id of a page lie exactly   *)
(* the rows that no page has shown: nothing is shown twice, and what stays *)
(* live is shown before the walk ends.                                     *)

\* There are only finitely many rows, so a page has a last id.
WalkInv ==
  /\ IsFiniteSet({a \in Agents : Here(agents[a])})
  /\ ~walk.twice
  /\ walk.on => walk.ns \in Namespaces
  /\ \A a \in walk.owed :
       /\ Here(agents[a]) /\ Found(agents[a], walk.ns) /\ Live(agents[a])
       /\ a \in walk.seen \/ (walk.on /\ Behind(a))
  /\ walk.on => \A a \in walk.seen : \E last \in walk.after : last <= a

LEMMA HasLeast ==
  ASSUME NEW T \in SUBSET Nat, T # {}
  PROVE  \E x \in T : \A y \in T : x <= y
<1> DEFINE R == {ss \in Nat \X Nat : ss[1] < ss[2]}
<1>1. OpToRel(<, Nat) = R
  BY DEF OpToRel
<1>2. IsWellFoundedOn(R, Nat)
  BY <1>1, NatLessThanWellFounded
<1>3. \E x \in T : \A y \in T : ~ (<<y, x>> \in R)
  <2> HIDE DEF R
  <2> QED
    BY <1>2, WFMin
<1>4. PICK x \in T : \A y \in T : ~ (<<y, x>> \in R)
  BY <1>3
<1>5. ASSUME NEW y \in T
      PROVE  x <= y
  <2>1. <<y, x>> \notin R /\ x \in Nat /\ y \in Nat
    BY <1>4
  <2>2. ~(y < x)
    BY <2>1
  <2> QED
    BY <2>1, <2>2
<1> QED
  BY <1>5

\* What list returns of the rows behind the cursor: the newest, all of them if
\* they fit, and at least one if there are any.
LEMMA PageOf ==
  ASSUME NEW rows \in SUBSET Nat, IsFiniteSet(rows)
  PROVE  LET page == {a \in rows : Cardinality({b \in rows : b > a}) < PageSize}
         IN  /\ \A a \in rows \ page, p \in page : a < p
             /\ Cardinality(rows) <= PageSize => page = rows
             /\ rows # {} => \E p \in page : \A q \in page : p <= q
<1> DEFINE Newer(a) == {b \in rows : b > a}
           page == {a \in rows : Cardinality(Newer(a)) < PageSize}
<1>1. PageSize \in Nat \ {0}
  BY ConfigsAssumption DEF ConfigsAssumption
<1>2. \A a \in rows : IsFiniteSet(Newer(a)) /\ Cardinality(Newer(a)) \in Nat
  <2> TAKE a \in rows
  <2>1. Newer(a) \in SUBSET rows
    OBVIOUS
  <2> HIDE DEF Newer
  <2>2. IsFiniteSet(Newer(a))
    BY <2>1, FS_Subset
  <2> QED
    BY <2>2, FS_CardinalityType
<1>3. \A a, b \in rows : a < b => Cardinality(Newer(b)) < Cardinality(Newer(a))
  <2> TAKE a \in rows, b \in rows
  <2> HAVE a < b
  <2>1. Newer(b) \in SUBSET Newer(a) /\ b \in Newer(a) /\ b \notin Newer(b)
    <3>1. \A x \in rows : x \in Nat
      OBVIOUS
    <3>2. \A x \in rows : x > b => x > a
      BY <3>1
    <3>3. b > a /\ ~(b > b)
      BY <3>1
    <3> QED
      BY <3>2, <3>3
  <2> HIDE DEF Newer
  <2>2. /\ Cardinality(Newer(b)) <= Cardinality(Newer(a))
        /\ Cardinality(Newer(a)) # Cardinality(Newer(b))
    BY <1>2, <2>1, FS_Subset
  <2>3. Cardinality(Newer(b)) \in Nat /\ Cardinality(Newer(a)) \in Nat
    BY <1>2
  <2> QED
    BY <2>2, <2>3
<1>4. ASSUME NEW a \in rows \ page, NEW p \in page
      PROVE  a < p
  <2> DEFINE ca == Cardinality(Newer(a))
             cp == Cardinality(Newer(p))
  <2>1. ca >= PageSize /\ cp < PageSize /\ a # p
    BY <1>1, <1>2
  <2>2. p < a => ca < cp
    BY <1>3
  <2>3. ca \in Nat /\ cp \in Nat /\ a \in Nat /\ p \in Nat
    BY <1>2
  <2> HIDE DEF ca, cp
  <2> QED
    BY <1>1, <2>1, <2>2, <2>3
<1>5. ASSUME Cardinality(rows) <= PageSize, NEW a \in rows
      PROVE  a \in page
  <2>1. Newer(a) \in SUBSET rows /\ a \in rows /\ a \notin Newer(a)
    OBVIOUS
  <2> HIDE DEF Newer
  <2>2. /\ Cardinality(Newer(a)) <= Cardinality(rows)
        /\ Cardinality(Newer(a)) # Cardinality(rows)
    BY <2>1, FS_Subset
  <2>3. Cardinality(rows) \in Nat /\ Cardinality(Newer(a)) \in Nat
    BY <1>2, FS_CardinalityType
  <2>4. Cardinality(Newer(a)) < PageSize
    BY <1>1, <1>5, <2>2, <2>3
  <2> QED
    BY <2>4
<1>6. ASSUME rows # {}
      PROVE  page # {}
  <2> DEFINE T == {Cardinality(Newer(a)) : a \in rows}
  <2>1. T \in SUBSET Nat /\ T # {}
    BY <1>2, <1>6
  <2>2. \E x \in T : \A y \in T : x <= y
    <3> HIDE DEF T
    <3> QED
      BY <2>1, HasLeast
  <2>3. PICK a \in rows : \A b \in rows : Cardinality(Newer(a)) <= Cardinality(Newer(b))
    BY <2>2
  <2>4. Newer(a) = {}
    <3> SUFFICES ASSUME NEW b \in rows, b > a
                 PROVE  FALSE
      OBVIOUS
    <3> DEFINE ca == Cardinality(Newer(a))
               cb == Cardinality(Newer(b))
    <3>1. ca <= cb /\ ca \in Nat /\ cb \in Nat /\ a < b
      BY <1>2, <2>3
    <3>2. cb < ca
      BY <1>3, <3>1
    <3> HIDE DEF ca, cb
    <3> QED
      BY <3>1, <3>2
  <2>5. Cardinality(Newer(a)) = 0
    BY <2>4, FS_EmptySet
  <2> QED
    BY <1>1, <2>5
<1>7. rows # {} => \E p \in page : \A q \in page : p <= q
  <2>1. page \in SUBSET Nat
    OBVIOUS
  <2> HIDE DEF page
  <2> QED
    BY <1>6, <2>1, HasLeast
<1> QED
  BY <1>4, <1>5, <1>7

LEMMA WalkStart == Init => WalkInv
<1> SUFFICES ASSUME Init
             PROVE  WalkInv
  OBVIOUS
<1>1. {a \in Agents : Here(agents[a])} = {}
  BY DEF Init, Here, Absent
<1>2. /\ ~walk.twice /\ ~walk.on /\ walk.owed = {}
  BY DEF Init, NoWalk
<1> QED
  BY <1>1, <1>2, FS_EmptySet DEF WalkInv

LEMMA WalkBegins ==
  ASSUME IInv, WalkInv, StartWalk
  PROVE  WalkInv'
<1>1. PICK n \in Namespaces :
        walk' = [NoWalk EXCEPT !.on = TRUE, !.ns = n,
                   !.owed = {a \in Agents : Found(agents[a], n) /\ Live(agents[a])}]
  BY DEF StartWalk
<1>2. /\ walk'.on /\ ~walk'.twice /\ walk'.ns = n /\ walk'.seen = {} /\ walk'.after = {}
      /\ walk'.owed = {a \in Agents : Found(agents[a], n) /\ Live(agents[a])}
      /\ agents' = agents
  BY <1>1 DEF NoWalk, StartWalk, tables
<1>3. \A a \in walk'.owed : Here(agents[a]) /\ Found(agents[a], n) /\ Live(agents[a])
  BY <1>2, FoundIsHere
<1>4. \A a \in walk'.owed : Behind(a)'
  BY <1>2 DEF Behind
<1> QED
  BY <1>2, <1>3, <1>4 DEF WalkInv

LEMMA WalkPages ==
  ASSUME IInv, WalkInv, Page
  PROVE  WalkInv'
<1> DEFINE rows == {a \in Agents : Found(agents[a], walk.ns) /\ Live(agents[a]) /\ Behind(a)}
           page == {a \in rows : Cardinality({b \in rows : b > a}) < PageSize}
           on == Cardinality(rows) > PageSize
           after == {a \in page : \A b \in page : a <= b}
           seen == walk.seen \cup page
           twice == walk.twice \/ walk.seen \cap page # {}
<1>1. /\ walk \in Walk /\ walk.on /\ walk.ns \in Namespaces /\ agents' = agents
      /\ Agents \in SUBSET Nat
  BY ConfigsAssumption DEF ConfigsAssumption, IInv, TypeOK, WalkInv, Page, tables
<1>2. walk' = [walk EXCEPT !.on = on, !.after = after, !.seen = seen, !.twice = twice]
  BY DEF Page
<1>3. rows \in SUBSET Nat /\ IsFiniteSet(rows) /\ Cardinality(rows) \in Nat
  <2>1. rows \in SUBSET {a \in Agents : Here(agents[a])} /\ rows \in SUBSET Nat
    BY <1>1, FoundIsHere
  <2> HIDE DEF rows
  <2>2. IsFiniteSet(rows)
    BY <2>1, FS_Subset DEF WalkInv
  <2> QED
    BY <2>1, <2>2, FS_CardinalityType
<1>4. /\ \A a \in rows \ page, p \in page : a < p
      /\ Cardinality(rows) <= PageSize => page = rows
      /\ rows # {} => \E p \in page : \A q \in page : p <= q
  <2> HIDE DEF rows
  <2> QED
    BY <1>3, PageOf
<1>5. PageSize \in Nat \ {0}
  BY ConfigsAssumption DEF ConfigsAssumption
<1>6. on => \E least \in after : \A q \in page : least <= q
  <2>1. on => rows # {}
    <3> SUFFICES ASSUME rows = {}
                 PROVE  Cardinality(rows) = 0
      BY <1>5
    <3> QED
      BY FS_EmptySet
  <2> QED
    BY <1>4, <2>1
<1>7. page \subseteq rows /\ \A a \in rows : Behind(a) /\ a \in Nat
  BY <1>3
<1>8. ~on => page = rows
  BY <1>3, <1>4, <1>5
<1>9. \A a \in walk.seen : \E last \in walk.after : last <= a
  BY <1>1 DEF WalkInv
<1>10. walk.after \in SUBSET Nat /\ walk.seen \in SUBSET Nat
  BY <1>1 DEF Walk
<1>11. /\ walk'.on = on /\ walk'.after = after /\ walk'.seen = seen /\ walk'.twice = twice
       /\ walk'.ns = walk.ns /\ walk'.owed = walk.owed
  <2> HIDE DEF on, after, seen, twice
  <2> QED
    BY <1>1, <1>2 DEF Walk
<1> HIDE DEF rows, on
<1>12. ~twice
  <2> SUFFICES ASSUME NEW a \in walk.seen, a \in page
               PROVE  FALSE
    BY DEF WalkInv
  <2>1. PICK last \in walk.after : last <= a
    BY <1>9
  <2>2. a < last
    BY <1>7 DEF Behind
  <2> QED
    BY <1>10, <2>1, <2>2
<1>13. on => \A a \in seen : \E last \in after : last <= a
  <2> SUFFICES ASSUME on, NEW a \in seen
               PROVE  \E last \in after : last <= a
    OBVIOUS
  <2>1. PICK least \in after : \A q \in page : least <= q
    BY <1>6
  <2>2. CASE a \in page
    BY <2>1, <2>2
  <2>3. CASE a \in walk.seen
    <3>1. PICK last \in walk.after : last <= a
      BY <1>9, <2>3
    <3>2. least \in page
      OBVIOUS
    <3>3. least < last /\ least \in Nat
      BY <1>7, <3>2 DEF Behind
    <3>4. least <= a
      BY <1>10, <2>3, <3>1, <3>3
    <3> QED
      BY <3>4
  <2> QED
    BY <2>2, <2>3
<1>14. ASSUME NEW a \in walk.owed
       PROVE  /\ Here(agents[a]) /\ Found(agents[a], walk.ns) /\ Live(agents[a])
              /\ a \in seen \/ (on /\ \A last \in after : a < last)
  <2>1. /\ Here(agents[a]) /\ Found(agents[a], walk.ns) /\ Live(agents[a])
        /\ a \in walk.seen \/ Behind(a)
    BY DEF WalkInv
  <2>2. CASE a \in seen
    BY <2>1, <2>2
  <2>3. CASE a \notin seen
    <3>1. a \in rows
      BY <1>1, <2>1, <2>3 DEF rows, Walk
    <3>2. a \in rows \ page
      BY <2>3, <3>1
    <3>3. on
      BY <1>8, <3>2
    <3>4. \A last \in after : a < last
      BY <1>4, <3>2
    <3> QED
      BY <2>1, <3>3, <3>4
  <2> QED
    BY <2>2, <2>3
<1> HIDE DEF after, seen, twice
<1>15. \A a \in walk'.owed : /\ Here(agents'[a]) /\ Found(agents'[a], walk'.ns)
                             /\ Live(agents'[a])
                             /\ a \in walk'.seen \/ (walk'.on /\ Behind(a)')
  BY <1>1, <1>11, <1>14 DEF Behind
<1>16. IsFiniteSet({a \in Agents : Here(agents[a])})'
  BY <1>1 DEF WalkInv
<1> QED
  BY <1>1, <1>11, <1>12, <1>13, <1>15, <1>16 DEF WalkInv

\* What a call leaves of the rows that the walk owes: namespace and life, but for
\* the one that is archived, which is owed no longer.
LEMMA WalkKept ==
  ASSUME IInv, WalkInv, NEW c \in Clients, AgentCall(c) \/ EnvCall(c) \/ SessionCall(c)
  PROVE  WalkInv'
<1>1. /\ agents \in [Agents -> AgentRow \cup {Absent}] /\ walk \in Walk
      /\ Here(Absent) = FALSE /\ calls \in 0 .. MaxCalls
  BY DEF IInv, TypeOK, Here, Absent
<1>2. /\ walk'.on = walk.on /\ walk'.ns = walk.ns /\ walk'.after = walk.after
      /\ walk'.seen = walk.seen /\ walk'.twice = walk.twice
      /\ walk'.owed \subseteq walk.owed
  <2>1. CASE ArchiveAgent(c)
    BY <1>1, <2>1 DEF ArchiveAgent, Walk
  <2>2. CASE ~ArchiveAgent(c)
    <3>1. walk' = walk
      BY <2>2 DEF AgentCall, EnvCall, SessionCall, CreateAgent, FindAgent, InsertAgent,
         FindAgentAgain, UpdateAgent, LockAgent, WriteAgent, CreateEnv, FindEnv, InsertEnv,
         FindEnvAgain, UpdateEnv, ReadEnv, WriteEnv, ArchiveEnv, GetEnv, DeleteEnv,
         CreateSession, ReadAgent, ReadVersion, ReadEnvRef, FindSession, InsertSession,
         FindSessionAgain
    <3> QED
      BY <3>1
  <2> QED
    BY <2>1, <2>2
<1>3. \A a \in walk'.owed : /\ agents'[a].ns = agents[a].ns
                            /\ agents'[a].archived = agents[a].archived
  <2> SUFFICES ASSUME NEW a \in walk'.owed
               PROVE  /\ agents'[a].ns = agents[a].ns
                      /\ agents'[a].archived = agents[a].archived
    OBVIOUS
  <2>1. a \in Agents /\ Here(agents[a]) /\ agents[a] \in AgentRow
    BY <1>1, <1>2 DEF WalkInv, Walk
  <2>2. CASE UNCHANGED agents
    BY <2>2
  <2>3. CASE InsertAgent(c)
    BY <1>1, <2>1, <2>3 DEF InsertAgent, tables
  <2>4. CASE WriteAgent(c)
    BY <1>1, <2>1, <2>4 DEF WriteAgent, AgentRow
  <2>5. CASE ArchiveAgent(c)
    <3>1. CASE UNCHANGED agents
      BY <3>1
    <3>2. CASE \E b \in Agents : /\ agents' = [agents EXCEPT ![b] = Archived(agents[b])]
                                 /\ walk' = [walk EXCEPT !.owed = @ \ {b}]
      BY <1>1, <2>1, <3>2 DEF Walk
    <3> QED
      BY <2>5, <3>1, <3>2 DEF ArchiveAgent
  <2> QED
    BY <2>2, <2>3, <2>4, <2>5, Writers
<1>4. \A a \in walk'.owed : /\ Here(agents'[a]) /\ Found(agents'[a], walk'.ns)
                            /\ Live(agents'[a])
                            /\ a \in walk'.seen \/ (walk'.on /\ Behind(a)')
  BY <1>2, <1>3 DEF WalkInv, Here, Found, Live, Behind
<1>5. IsFiniteSet({a \in Agents : Here(agents'[a])})
  <2> DEFINE Rows == {a \in Agents : Here(agents[a])}
             After == {a \in Agents : Here(agents'[a])}
  <2>1. \E b : After \in SUBSET (Rows \cup {b})
    <3>1. CASE UNCHANGED agents
      BY <3>1
    <3>2. CASE InsertAgent(c)
      <4>1. \A a \in Agents : a # call[c].id => agents'[a] = agents[a]
        BY <1>1, <3>2 DEF InsertAgent, tables
      <4>2. After \in SUBSET (Rows \cup {call[c].id})
        BY <4>1
      <4> QED
        BY <4>2
    <3>3. CASE WriteAgent(c)
      <4>1. \A a \in Agents : a # call[c].id => agents'[a] = agents[a]
        BY <1>1, <3>3 DEF WriteAgent
      <4>2. After \in SUBSET (Rows \cup {call[c].id})
        BY <4>1
      <4> QED
        BY <4>2
    <3>4. CASE ArchiveAgent(c)
      <4>1. PICK b : \A a \in Agents : a # b => agents'[a] = agents[a]
        BY <1>1, <3>4 DEF ArchiveAgent
      <4>2. After \in SUBSET (Rows \cup {b})
        BY <4>1
      <4> QED
        BY <4>2
    <3> QED
      BY <3>1, <3>2, <3>3, <3>4, Writers
  <2>2. IsFiniteSet(Rows)
    BY DEF WalkInv
  <2> HIDE DEF Rows, After
  <2>3. IsFiniteSet(After)
    BY <2>1, <2>2, FS_AddElement, FS_Subset
  <2> QED
    BY <2>3 DEF After
<1>6. walk'.on => \A a \in walk'.seen : \E last \in walk'.after : last <= a
  BY <1>2 DEF WalkInv
<1> QED
  BY <1>2, <1>4, <1>5, <1>6 DEF WalkInv

LEMMA WalkNext == IInv /\ WalkInv /\ [Next]_vars => WalkInv'
<1>1. ASSUME WalkInv, UNCHANGED vars PROVE WalkInv'
  BY <1>1 DEF vars, WalkInv, Behind
<1> QED
  BY <1>1, WalkBegins, WalkPages, WalkKept DEF Next

\* A reader that follows last_id sees every agent that is live as long as the walk
\* lasts, and none twice, whatever is created, updated and archived between its
\* pages, and however many there are (configs service.ts list).
THEOREM WalksAreComplete == Spec => []WalkIsComplete
<1>1. WalkInv => WalkIsComplete
  BY DEF WalkInv, WalkIsComplete
<1> QED
  BY <1>1, WalkStart, WalkNext, Invariant, PTL DEF Spec
=============================================================================
