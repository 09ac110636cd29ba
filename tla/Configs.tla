------------------------------- MODULE Configs -------------------------------
(***************************************************************************)
(* The configuration services (packages/configs/src/service.ts and         *)
(* envs-service.ts) and the creation of sessions, which pins an agent      *)
(* version and an environment (packages/sessions/src/service.ts).          *)
(*                                                                         *)
(* A call is a sequence of statements, and statements of different calls   *)
(* interleave; a transaction's writes appear at its commit.  What the      *)
(* calls carry is a body: a function from field names to values.           *)
(***************************************************************************)
EXTENDS Naturals, FiniteSets

CONSTANTS
  Clients,    \* concurrent calls of the API
  Agents, Envs,
  Sessions,   \* client-supplied ids; uuidv7 ids are ordered, so these are numbers
  Namespaces,
  Labels,     \* name, description, metadata
  Behaviour,  \* system_prompt, model, tool_policy, runtime
  Values,
  PageSize,   \* the limit of a list call
  MaxVersion, \* bound: version numbers a caller may ask for
  MaxCalls    \* bound: calls, walks included

ASSUME ConfigsAssumption ==
  /\ Agents \subseteq Nat /\ PageSize \in Nat \ {0} /\ MaxVersion \in Nat \ {0}
  /\ MaxCalls \in Nat /\ Labels \cap Behaviour = {} /\ "none" \notin Namespaces

VARIABLES
  agents,    \* agent_configs
  versions,  \* agent_config_versions, by agent and version
  envs,      \* env_configs
  sessions,  \* sessions, as far as create writes them, with their provision jobs
  call,      \* the call each client waits for
  walk,      \* a reader that pages through the agents
  calls      \* calls begun

vars == <<agents, versions, envs, sessions, call, walk, calls>>

Absent == [ns |-> "none"]
Here(row) == row.ns # "none"

\* A row as a query of namespace n finds it.
Found(row, n) == row.ns = n

\* archived_at, as the number of the call that set it.
Live(row) == row.archived = 0

Archived(row) == [row EXCEPT !.archived = IF row.archived = 0 THEN calls + 1 ELSE row.archived]

Idle == [op |-> "none", said |-> "nothing"]

NoWalk == [on |-> FALSE, ns |-> "none", after |-> {}, seen |-> {}, twice |-> FALSE, owed |-> {}]

Init ==
  /\ agents = [a \in Agents |-> Absent]
  /\ versions = [a \in Agents |-> <<>>]
  /\ envs = [e \in Envs |-> Absent]
  /\ sessions = [s \in Sessions |-> Absent]
  /\ call = [c \in Clients |-> Idle]
  /\ walk = NoWalk /\ calls = 0

-----------------------------------------------------------------------------
(* Calls.                                                                   *)

Fields == Labels \cup Behaviour

Bodies(fields) == [fields -> Values]

\* An update names the fields it changes.
Patches(fields) == UNION {Bodies(named) : named \in SUBSET fields}

Patched(body, patch) ==
  [f \in DOMAIN body |-> IF f \in DOMAIN patch THEN patch[f] ELSE body[f]]

Part(body, fields) == [f \in fields |-> body[f]]

Begin(c, request) ==
  /\ call[c].op = "none" /\ calls < MaxCalls /\ calls' = calls + 1
  /\ call' = [call EXCEPT ![c] = request]

At(c, op, pc) == call[c].op = op /\ call[c].pc = pc

Goto(c, pc) == call' = [call EXCEPT ![c].pc = pc]

Say(c, outcome) == call' = [call EXCEPT ![c] = [op |-> "none", said |-> outcome]]

\* resolveIdempotentCreate: the row must be what this call would have written.
Resolve(c, same) == Say(c, IF same THEN "ok" ELSE "conflict")

tables == <<agents, versions, envs, sessions>>

-----------------------------------------------------------------------------
(* Agents.                                                                  *)

CreateAgent(c) ==
  /\ \E a \in Agents, n \in Namespaces, body \in Bodies(Fields) :
       Begin(c, [op |-> "create agent", pc |-> "find", id |-> a, ns |-> n, body |-> body])
  /\ UNCHANGED <<tables, walk>>

\* The identity joined with its latest version.
Agent(a) ==
  [f \in Fields |->
     IF f \in Labels THEN agents[a].labels[f] ELSE versions[a][agents[a].latest][f]]

\* Mutant: whoever comes second gets the row that is there.
ResolveAgentUnseen(c) == Say(c, "ok")

ResolveAgent(c) == Resolve(c, Agent(call[c].id) = call[c].body)

FindAgent(c) ==
  /\ At(c, "create agent", "find")
  /\ IF Found(agents[call[c].id], call[c].ns) THEN ResolveAgent(c) ELSE Goto(c, "insert")
  /\ UNCHANGED <<tables, walk, calls>>

\* Identity and version 1 commit together, or the key is taken.
InsertAgent(c) ==
  LET a == call[c].id
  IN  /\ At(c, "create agent", "insert")
      /\ IF Here(agents[a])
         THEN /\ Goto(c, "find again")
              /\ UNCHANGED tables
         ELSE /\ agents' = [agents EXCEPT ![a] =
                   [ns |-> call[c].ns, latest |-> 1, archived |-> 0,
                    labels |-> Part(call[c].body, Labels)]]
              /\ versions' = [versions EXCEPT ![a] =
                   [v \in {1} |-> Part(call[c].body, Behaviour)]]
              /\ Say(c, "ok")
              /\ UNCHANGED <<envs, sessions>>
      /\ UNCHANGED <<walk, calls>>

FindAgentAgain(c) ==
  /\ At(c, "create agent", "find again")
  /\ IF Found(agents[call[c].id], call[c].ns) THEN ResolveAgent(c) ELSE Say(c, "error")
  /\ UNCHANGED <<tables, walk, calls>>

UpdateAgent(c) ==
  /\ \E a \in Agents, n \in Namespaces, patch \in Patches(Fields) :
       Begin(c, [op |-> "update agent", pc |-> "lock", id |-> a, ns |-> n, body |-> patch])
  /\ UNCHANGED <<tables, walk>>

\* Mutant: nobody holds a row.
UnlockedAlways(a) == TRUE

\* No transaction holds the identity FOR UPDATE.
Unlocked(a) == \A c \in Clients : ~(At(c, "update agent", "write") /\ call[c].id = a)

\* SELECT ... FOR UPDATE; what it read is kept.
LockAgent(c) ==
  LET row == agents[call[c].id]
  IN  /\ At(c, "update agent", "lock") /\ Unlocked(call[c].id)
      /\ IF ~Found(row, call[c].ns) THEN Say(c, "missing")
         ELSE IF ~Live(row) THEN Say(c, "conflict")
         ELSE call' = [call EXCEPT ![c] =
                [op |-> "update agent", pc |-> "write", id |-> call[c].id, ns |-> call[c].ns,
                 body |-> call[c].body, latest |-> row.latest]]
      /\ UNCHANGED <<tables, walk, calls>>

\* Mutant: the current version is rewritten.
NextVersionSame(c) == call[c].latest

NextVersion(c) ==
  IF DOMAIN call[c].body \cap Behaviour = {} THEN call[c].latest ELSE call[c].latest + 1

\* The next version when behaviour changes, carrying the omitted fields forward;
\* labels and the pointer on the identity.
WriteAgent(c) ==
  LET a == call[c].id  patch == call[c].body  cur == call[c].latest  next == NextVersion(c)
  IN  /\ At(c, "update agent", "write")
      /\ versions' = [versions EXCEPT ![a] =
           [v \in DOMAIN versions[a] \cup {next} |->
              IF v = next THEN Patched(versions[a][cur], patch) ELSE versions[a][v]]]
      /\ agents' = [agents EXCEPT ![a].latest = next,
                      ![a].labels = Patched(agents[a].labels, patch)]
      /\ Say(c, "ok")
      /\ UNCHANGED <<envs, sessions, walk, calls>>

\* A single UPDATE, which waits for the row.
ArchiveAgent(c) ==
  \E a \in Agents, n \in Namespaces :
    /\ call[c].op = "none" /\ calls < MaxCalls /\ calls' = calls + 1 /\ Unlocked(a)
    /\ IF Found(agents[a], n)
       THEN /\ agents' = [agents EXCEPT ![a] = Archived(agents[a])]
            /\ walk' = [walk EXCEPT !.owed = @ \ {a}]
            /\ Say(c, "ok")
       ELSE /\ Say(c, "missing")
            /\ UNCHANGED <<agents, walk>>
    /\ UNCHANGED <<versions, envs, sessions>>

-----------------------------------------------------------------------------
(* Environments: one row, no versions, no transactions.                     *)

CreateEnv(c) ==
  /\ \E e \in Envs, n \in Namespaces, body \in Bodies(Labels) :
       Begin(c, [op |-> "create env", pc |-> "find", id |-> e, ns |-> n, body |-> body])
  /\ UNCHANGED <<tables, walk>>

ResolveEnv(c) == Resolve(c, envs[call[c].id].body = call[c].body)

FindEnv(c) ==
  /\ At(c, "create env", "find")
  /\ IF Found(envs[call[c].id], call[c].ns) THEN ResolveEnv(c) ELSE Goto(c, "insert")
  /\ UNCHANGED <<tables, walk, calls>>

InsertEnv(c) ==
  LET e == call[c].id
  IN  /\ At(c, "create env", "insert")
      /\ IF Here(envs[e])
         THEN /\ Goto(c, "find again")
              /\ UNCHANGED envs
         ELSE /\ envs' = [envs EXCEPT ![e] =
                   [ns |-> call[c].ns, archived |-> 0, body |-> call[c].body]]
              /\ Say(c, "ok")
      /\ UNCHANGED <<agents, versions, sessions, walk, calls>>

\* The row that took the key may have been deleted meanwhile.
FindEnvAgain(c) ==
  /\ At(c, "create env", "find again")
  /\ IF Found(envs[call[c].id], call[c].ns) THEN ResolveEnv(c) ELSE Say(c, "error")
  /\ UNCHANGED <<tables, walk, calls>>

UpdateEnv(c) ==
  /\ \E e \in Envs, n \in Namespaces, patch \in Patches(Labels) :
       Begin(c, [op |-> "update env", pc |-> "find", id |-> e, ns |-> n, body |-> patch])
  /\ UNCHANGED <<tables, walk>>

\* The row is read, and not locked.
ReadEnv(c) ==
  LET row == envs[call[c].id]
  IN  /\ At(c, "update env", "find")
      /\ IF ~Found(row, call[c].ns) THEN Say(c, "missing")
         ELSE IF ~Live(row) THEN Say(c, "conflict")
         ELSE call' = [call EXCEPT ![c] =
                [op |-> "update env", pc |-> "write", id |-> call[c].id, ns |-> call[c].ns,
                 body |-> call[c].body, row |-> row]]
      /\ UNCHANGED <<tables, walk, calls>>

\* Mutant: what was read is saved, with the patch in it.
EnvWrittenWhole(row, c) == [call[c].row EXCEPT !.body = Patched(call[c].row.body, call[c].body)]

\* The columns that the patch names.
EnvWritten(row, c) == [row EXCEPT !.body = Patched(row.body, call[c].body)]

\* The archive is not looked at again.
WriteEnv(c) ==
  LET e == call[c].id
  IN  /\ At(c, "update env", "write")
      /\ IF Found(envs[e], call[c].ns)
         THEN /\ envs' = [envs EXCEPT ![e] = EnvWritten(envs[e], c)]
              /\ Say(c, "ok")
         ELSE /\ Say(c, "missing")
              /\ UNCHANGED envs
      /\ UNCHANGED <<agents, versions, sessions, walk, calls>>

\* The UPDATE, whatever it finds; get follows.
ArchiveEnv(c) ==
  /\ \E e \in Envs, n \in Namespaces :
       /\ Begin(c, [op |-> "archive env", pc |-> "get", id |-> e, ns |-> n])
       /\ envs' = [envs EXCEPT ![e] =
            IF Found(envs[e], n) THEN Archived(envs[e]) ELSE envs[e]]
  /\ UNCHANGED <<agents, versions, sessions, walk>>

GetEnv(c) ==
  /\ At(c, "archive env", "get")
  /\ Say(c, IF Found(envs[call[c].id], call[c].ns) THEN "ok" ELSE "missing")
  /\ UNCHANGED <<tables, walk, calls>>

InUse(e) == \E s \in Sessions : Here(sessions[s]) /\ sessions[s].env = e

\* A single DELETE; the sessions' foreign key refuses it.
DeleteEnv(c) ==
  \E e \in Envs, n \in Namespaces :
    /\ call[c].op = "none" /\ calls < MaxCalls /\ calls' = calls + 1
    /\ IF ~Found(envs[e], n)
       THEN Say(c, "missing") /\ UNCHANGED envs
       ELSE IF InUse(e)
       THEN Say(c, "error") /\ UNCHANGED envs
       ELSE Say(c, "ok") /\ envs' = [envs EXCEPT ![e] = Absent]
    /\ UNCHANGED <<agents, versions, sessions, walk>>

-----------------------------------------------------------------------------
(* The creation of sessions.                                                *)

\* The agent by its bare id (version 0), or one version of it.
CreateSession(c) ==
  /\ \E s \in Sessions, n \in Namespaces, a \in Agents, v \in 0 .. MaxVersion, e \in Envs :
       Begin(c, [op |-> "create session", pc |-> "agent", id |-> s, ns |-> n,
                 pin |-> [agent |-> a, version |-> v, env |-> e]])
  /\ UNCHANGED <<tables, walk>>

\* A bare id is the latest version, resolved once.
ReadAgent(c) ==
  LET row == agents[call[c].pin.agent]
  IN  /\ At(c, "create session", "agent")
      /\ IF ~Found(row, call[c].ns) THEN Say(c, "missing")
         ELSE IF ~Live(row) THEN Say(c, "conflict")
         ELSE IF call[c].pin.version # 0 THEN Goto(c, "version")
         ELSE call' = [call EXCEPT ![c].pc = "env", ![c].pin.version = row.latest]
      /\ UNCHANGED <<tables, walk, calls>>

ReadVersion(c) ==
  /\ At(c, "create session", "version")
  /\ IF call[c].pin.version \in DOMAIN versions[call[c].pin.agent]
     THEN Goto(c, "env") ELSE Say(c, "missing")
  /\ UNCHANGED <<tables, walk, calls>>

ReadEnvRef(c) ==
  LET row == envs[call[c].pin.env]
  IN  /\ At(c, "create session", "env")
      /\ IF ~Found(row, call[c].ns) THEN Say(c, "missing")
         ELSE IF ~Live(row) THEN Say(c, "conflict")
         ELSE Goto(c, "find")
      /\ UNCHANGED <<tables, walk, calls>>

Pinned(s) == [agent |-> sessions[s].agent, version |-> sessions[s].version, env |-> sessions[s].env]

FindSession(c) ==
  /\ At(c, "create session", "find")
  /\ IF Found(sessions[call[c].id], call[c].ns)
     THEN Resolve(c, Pinned(call[c].id) = call[c].pin)
     ELSE Goto(c, "insert")
  /\ UNCHANGED <<tables, walk, calls>>

\* The row and its provision job; the key may be taken, the environment gone.
InsertSession(c) ==
  LET pin == call[c].pin
  IN  /\ At(c, "create session", "insert")
      /\ IF Here(sessions[call[c].id])
         THEN Goto(c, "find again") /\ UNCHANGED sessions
         ELSE IF ~Here(envs[pin.env])
         THEN Say(c, "error") /\ UNCHANGED sessions
         ELSE /\ sessions' = [sessions EXCEPT ![call[c].id] =
                   [ns |-> call[c].ns, agent |-> pin.agent, version |-> pin.version,
                    env |-> pin.env]]
              /\ Say(c, "ok")
      /\ UNCHANGED <<agents, versions, envs, walk, calls>>

FindSessionAgain(c) ==
  /\ At(c, "create session", "find again")
  /\ IF Found(sessions[call[c].id], call[c].ns)
     THEN Resolve(c, Pinned(call[c].id) = call[c].pin)
     ELSE Say(c, "error")
  /\ UNCHANGED <<tables, walk, calls>>

-----------------------------------------------------------------------------
(* A reader that follows last_id as long as has_more says so.               *)

StartWalk ==
  /\ ~walk.on /\ walk.ns = "none" /\ calls < MaxCalls /\ calls' = calls + 1
  /\ \E n \in Namespaces :
       walk' = [NoWalk EXCEPT !.on = TRUE, !.ns = n,
                  !.owed = {a \in Agents : Found(agents[a], n) /\ Live(agents[a])}]
  /\ UNCHANGED <<tables, call>>

\* Mutant: lte.
BehindInclusive(a) == \A last \in walk.after : a <= last

\* afterId.
Behind(a) == \A last \in walk.after : a < last

\* list: the newest ids behind last_id, and one row more to see whether any follow.
Page ==
  LET rows == {a \in Agents : Found(agents[a], walk.ns) /\ Live(agents[a]) /\ Behind(a)}
      page == {a \in rows : Cardinality({b \in rows : b > a}) < PageSize}
  IN  /\ walk.on
      /\ walk' = [walk EXCEPT !.on = Cardinality(rows) > PageSize,
                    !.after = {a \in page : \A b \in page : a <= b},
                    !.seen = walk.seen \cup page,
                    !.twice = walk.twice \/ walk.seen \cap page # {}]
      /\ UNCHANGED <<tables, call, calls>>

-----------------------------------------------------------------------------
AgentCall(c) ==
  \/ CreateAgent(c) \/ FindAgent(c) \/ InsertAgent(c) \/ FindAgentAgain(c)
  \/ UpdateAgent(c) \/ LockAgent(c) \/ WriteAgent(c) \/ ArchiveAgent(c)

EnvCall(c) ==
  \/ CreateEnv(c) \/ FindEnv(c) \/ InsertEnv(c) \/ FindEnvAgain(c)
  \/ UpdateEnv(c) \/ ReadEnv(c) \/ WriteEnv(c)
  \/ ArchiveEnv(c) \/ GetEnv(c) \/ DeleteEnv(c)

SessionCall(c) ==
  \/ CreateSession(c) \/ ReadAgent(c) \/ ReadVersion(c) \/ ReadEnvRef(c)
  \/ FindSession(c) \/ InsertSession(c) \/ FindSessionAgain(c)

Next ==
  \/ \E c \in Clients : AgentCall(c) \/ EnvCall(c) \/ SessionCall(c)
  \/ StartWalk \/ Page

Spec == Init /\ [][Next]_vars

-----------------------------------------------------------------------------
(* Properties.                                                              *)

AgentRow == [ns : Namespaces, latest : Nat \ {0}, archived : Nat, labels : Bodies(Labels)]
EnvRow == [ns : Namespaces, archived : Nat, body : Bodies(Labels)]
SessionRow == [ns : Namespaces, agent : Agents, version : Nat \ {0}, env : Envs]
Pin == [agent : Agents, version : Nat, env : Envs]

AgentRequest ==
  [op : {"create agent"}, pc : {"find", "insert", "find again"}, id : Agents,
   ns : Namespaces, body : Bodies(Fields)]
  \cup [op : {"update agent"}, pc : {"lock"}, id : Agents, ns : Namespaces,
        body : Patches(Fields)]
  \cup [op : {"update agent"}, pc : {"write"}, id : Agents, ns : Namespaces,
        body : Patches(Fields), latest : Nat \ {0}]

EnvRequest ==
  [op : {"create env"}, pc : {"find", "insert", "find again"}, id : Envs,
   ns : Namespaces, body : Bodies(Labels)]
  \cup [op : {"update env"}, pc : {"find"}, id : Envs, ns : Namespaces,
        body : Patches(Labels)]
  \cup [op : {"update env"}, pc : {"write"}, id : Envs, ns : Namespaces,
        body : Patches(Labels), row : EnvRow]
  \cup [op : {"archive env"}, pc : {"get"}, id : Envs, ns : Namespaces]

SessionRequest ==
  [op : {"create session"}, pc : {"agent", "version", "env", "find", "insert", "find again"},
   id : Sessions, ns : Namespaces, pin : Pin]

Answer == [op : {"none"}, said : {"nothing", "ok", "conflict", "missing", "error"}]

Request == AgentRequest \cup EnvRequest \cup SessionRequest \cup Answer

Walk == [on : BOOLEAN, ns : Namespaces \cup {"none"}, after : SUBSET Agents,
         seen : SUBSET Agents, twice : BOOLEAN, owed : SUBSET Agents]

\* The type invariant: the tables' rows and the calls' requests.
TypeOK ==
  /\ agents \in [Agents -> AgentRow \cup {Absent}]
  /\ versions = [a \in Agents |-> versions[a]]
  /\ \A a \in Agents : /\ DOMAIN versions[a] \subseteq Nat \ {0}
                       /\ versions[a] \in [DOMAIN versions[a] -> Bodies(Behaviour)]
  /\ envs \in [Envs -> EnvRow \cup {Absent}]
  /\ sessions \in [Sessions -> SessionRow \cup {Absent}]
  /\ call \in [Clients -> Request]
  /\ walk \in Walk
  /\ calls \in 0 .. MaxCalls

\* latest_version points at the newest of the versions 1, 2, 3... of an agent,
\* whatever updates race: one of labels alone must not set the pointer back.
LatestIsNewest ==
  \A a \in Agents : DOMAIN versions[a] = IF Here(agents[a]) THEN 1 .. agents[a].latest ELSE {}

\* Every agent that is live as long as the walk lasts is listed, and none twice,
\* whatever is created and archived between the pages.
WalkIsComplete == ~walk.twice /\ (walk.on \/ walk.owed \subseteq walk.seen)

PinsKept ==
  \A s \in Sessions : Here(sessions[s]) =>
    LET a == sessions[s].agent  v == sessions[s].version
    IN  /\ sessions'[s] = sessions[s] /\ Here(envs'[sessions[s].env])
        /\ v \in DOMAIN versions[a] /\ versions'[a][v] = versions[a][v]

\* A session keeps the behaviour it was created with: its pins stay, the version
\* is there and never rewritten, the environment cannot be deleted under it, and a
\* second create of its id changes nothing.
BehaviourIsPinned == [][PinsKept]_vars

Names(f, op, id) ==
  \E c \in Clients : At(c, op, "write") /\ call[c].id = id /\ f \in DOMAIN call[c].body

AgentEdited(a) ==
  /\ ~Live(agents[a]) => agents'[a] = agents[a] /\ versions'[a] = versions[a]
  /\ \A f \in Fields : Agent(a)'[f] # Agent(a)[f] => Names(f, "update agent", a)

EnvEdited(e) ==
  /\ ~Live(envs[e]) => envs'[e].archived = envs[e].archived
  /\ \A f \in Labels : envs'[e].body[f] # envs[e].body[f] => Names(f, "update env", e)

Edited ==
  /\ \A a \in Agents : Here(agents[a]) => AgentEdited(a)
  /\ \A e \in Envs : Here(envs[e]) /\ Here(envs'[e]) => EnvEdited(e)

\* What is archived stays so, since the same moment, and an archived agent is
\* frozen.  An update changes the fields it names and carries the others forward,
\* so of two racing updates none is lost; one of an environment may still land
\* behind the archive.
EditsAdd == [][Edited]_vars

Agreed ==
  \A c \in Clients : call[c].op = "create agent" /\ call'[c].op = "none" =>
    \A a \in {call[c].id} :
      /\ Here(agents'[a])
      /\ call'[c].said = "error" <=> agents'[a].ns # call[c].ns
      /\ call'[c].said = "ok" <=> agents'[a].ns = call[c].ns /\ Agent(a)' = call[c].body

\* A create is answered by what its id holds, whichever of two racing creates
\* wrote it: success means this very configuration, a failure that the key is
\* another namespace's.
CreatesAgree == [][Agreed]_vars
=============================================================================
