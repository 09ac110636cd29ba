-------------------------- MODULE WorkerLoopProofs --------------------------
(***************************************************************************)
(* For every number of processes, jobs, stops and faults: a job is in the  *)
(* hands of one process, no wake-up is lost, and the loop stops when told. *)
(*                                                                         *)
(* OneHandler is about three ways to hold a job: a handler with its        *)
(* heartbeat, a claim on its way to the loop, and a row lock.  The first   *)
(* two keep the lease (Kept), a locked row has none (LocksFit), so nobody  *)
(* can come by a job that somebody keeps.  PromptPickup is about the order *)
(* of pull and wait: a loop that came back empty has seen all jobs, or has *)
(* the flag of the one it missed (Asleep).                                 *)
(***************************************************************************)
EXTENDS WorkerLoop, FiniteSetTheorems, TLAPS

Handles(w, j) == j \in workers[w].handling /\ ~workers[w].killed
Claimed(w, j) == workers[w].loop = "claimed" /\ j \in workers[w].got
Locks(w, j) == workers[w].loop = "locked" /\ j \in workers[w].got

\* A job that was never claimed waits in the queue, or is not there.
NewJobs ==
  \A j \in Jobs : jobs[j].attempts = 0 => jobs[j].due /\ jobs[j].state \in {"none", "queued"}

Leased(j) == jobs[j].state = "running" /\ jobs[j].lease

Kept ==
  /\ \A w \in Workers, j \in Jobs : KeepsLease(w, j) => Leased(j)
  /\ \A w, v \in Workers, j \in Jobs : KeepsLease(w, j) /\ KeepsLease(v, j) => w = v
  /\ \A w \in Workers, j \in Jobs : ~(Handles(w, j) /\ Claimed(w, j))

LocksFit ==
  /\ \A w \in Workers, j \in Jobs : Locks(w, j) => Claimable(j)
  /\ \A w, v \in Workers, j \in Jobs : Locks(w, j) /\ Locks(v, j) => w = v

\* The heart of PromptPickup, for a loop between its pull and its wait, too.
Asleep ==
  \A w \in Workers, j \in Jobs :
    /\ workers[w].bells = 0 /\ w \in jobs[j].told
    /\ jobs[j].state = "queued" /\ jobs[j].attempts = 0
    => /\ workers[w].loop = "wait" => Locked(j)
       /\ workers[w].loop = "empty" => Locked(j) \/ workers[w].woken

\* The signal is not used up before the loop has seen the drain.
Draining ==
  \A w \in Workers : workers[w].draining =>
    workers[w].loop = "done" \/ (workers[w].woken /\ workers[w].loop # "wait")

\* The inductive invariant.
IInv == TypeOK /\ NewJobs /\ Kept /\ LocksFit /\ Asleep /\ Draining

-----------------------------------------------------------------------------
(* Operators on a process.                                                 *)

\* Everything but the place of the loop.
SameBut(x, y) ==
  /\ x.got = y.got /\ x.handling = y.handling /\ x.ears = y.ears
  /\ x.draining = y.draining /\ x.killed = y.killed /\ x.bells = y.bells

LEMMA AgainIs ==
  ASSUME NEW x \in Worker
  PROVE  /\ Again(x) \in Worker /\ SameBut(Again(x), x) /\ Again(x).woken = x.woken
         /\ Again(x).loop \in {"done", "nap", "pull"}
         /\ x.draining => Again(x).loop = "done"
<1> DEFINE l == IF x.draining THEN "done"
                ELSE IF Cardinality(x.handling) >= Concurrency THEN "nap" ELSE "pull"
<1>1. l \in {"done", "nap", "pull"} /\ (x.draining => l = "done")
  OBVIOUS
<1>2. Again(x) = [x EXCEPT !.loop = l]
  BY DEF Again
<1> HIDE DEF l
<1> QED
  BY <1>1, <1>2 DEF Worker, LoopState, SameBut

LEMMA SignalledIs ==
  ASSUME NEW x \in Worker
  PROVE  /\ Signalled(x) \in Worker /\ SameBut(Signalled(x), x)
         /\ x.loop = "wait" => Signalled(x).loop \in {"done", "nap", "pull"}
         /\ x.loop # "wait" => Signalled(x).loop = x.loop /\ Signalled(x).woken
         /\ x.loop = "wait" /\ x.draining => Signalled(x).loop = "done"
<1>1. CASE x.loop = "wait"
  <2> DEFINE y == [x EXCEPT !.woken = FALSE]
  <2>1. y \in Worker /\ SameBut(y, x) /\ y.draining = x.draining
    BY DEF Worker, SameBut
  <2>2. Signalled(x) = Again(y)
    BY <1>1 DEF Signalled
  <2> HIDE DEF y
  <2> QED
    BY <1>1, <2>1, <2>2, AgainIs DEF SameBut
<1>2. CASE x.loop # "wait"
  BY <1>2 DEF Signalled, Worker, SameBut
<1> QED
  BY <1>1, <1>2

-----------------------------------------------------------------------------
(* Steps of one process that claim nothing.                                *)

Changes(w, x) == workers' = [workers EXCEPT ![w] = x]

LEMMA Alone ==
  ASSUME TypeOK, NEW w \in Workers, NEW x \in Worker, Changes(w, x)
  PROVE  /\ workers' \in [Workers -> Worker]
         /\ workers'[w] = x /\ \A v \in Workers : v # w => workers'[v] = workers[v]
BY DEF TypeOK, Changes

\* Rows may be forgotten by those who were told of them, and that is all.
Quiet ==
  /\ jobs' \in [Jobs -> JobRow]
  /\ \A j \in Jobs :
       /\ jobs'[j].state = jobs[j].state /\ jobs'[j].attempts = jobs[j].attempts
       /\ jobs'[j].due = jobs[j].due /\ jobs'[j].lease = jobs[j].lease
       /\ jobs'[j].told \subseteq jobs[j].told

LEMMA JobsSame ==
  ASSUME TypeOK, UNCHANGED jobs
  PROVE  Quiet
BY DEF TypeOK, Quiet

\* Process w takes nothing new.
Loosens(w, x) ==
  /\ x.handling \subseteq workers[w].handling
  /\ workers[w].killed => x.killed \/ x.handling = {}
  /\ \/ x.loop \notin {"locked", "claimed"}
     \/ x.loop = workers[w].loop /\ x.got = workers[w].got

LEMMA OwnershipStays ==
  ASSUME IInv, NEW w \in Workers, NEW x \in Worker, Changes(w, x), Quiet, Loosens(w, x)
  PROVE  NewJobs' /\ Kept' /\ LocksFit'
<1>1. \A v \in Workers, j \in Jobs :
        /\ Handles(v, j)' => Handles(v, j)
        /\ Claimed(v, j)' => Claimed(v, j)
        /\ Locks(v, j)' => Locks(v, j)
  <2> TAKE v \in Workers, j \in Jobs
  <2>1. CASE v = w
    BY <2>1, Alone DEF IInv, Loosens, Handles, Claimed, Locks
  <2>2. CASE v # w
    BY <2>2, Alone DEF IInv, Handles, Claimed, Locks
  <2> QED
    BY <2>1, <2>2
<1>2. NewJobs'
  BY DEF IInv, NewJobs, Quiet
<1>3. \A v \in Workers, j \in Jobs : KeepsLease(v, j)' => KeepsLease(v, j)
  BY <1>1 DEF KeepsLease, Handles, Claimed
<1>4. \A j \in Jobs : /\ Leased(j) => Leased(j)'
                      /\ Claimable(j) => Claimable(j)'
  BY DEF Quiet, Leased, Claimable
<1>5. Kept'
  BY <1>1, <1>3, <1>4 DEF IInv, Kept
<1>6. LocksFit'
  BY <1>1, <1>4 DEF IInv, LocksFit
<1> QED
  BY <1>2, <1>5, <1>6

\* Process w does not fall asleep over a job it was told of.
Wakeful(w, x) ==
  \/ x.loop \notin {"wait", "empty"}
  \/ x.loop = "empty" /\ x.woken
  \/ \A j \in Jobs : w \notin jobs'[j].told
  \/ \A j \in Jobs : Claimable(j) => Locked(j)
  \/ /\ x.bells = workers[w].bells
     /\ \/ x.loop = workers[w].loop /\ x.woken = workers[w].woken
        \/ workers[w].loop = "empty" /\ ~workers[w].woken

\* Process w releases no row that somebody could still be told of.
Releases(w, x) ==
  \/ workers[w].loop # "locked"
  \/ x.loop = "locked" /\ x.got = workers[w].got
  \/ \A j \in workers[w].got : jobs'[j].told = {}

LEMMA AsleepStays ==
  ASSUME IInv, NEW w \in Workers, NEW x \in Worker, Changes(w, x), Quiet,
         Wakeful(w, x), Releases(w, x)
  PROVE  Asleep'
<1> SUFFICES ASSUME NEW v \in Workers, NEW j \in Jobs,
                    workers'[v].bells = 0, v \in jobs'[j].told,
                    jobs'[j].state = "queued", jobs'[j].attempts = 0
             PROVE  /\ workers'[v].loop = "wait" => Locked(j)'
                    /\ workers'[v].loop = "empty" => Locked(j)' \/ workers'[v].woken
  BY DEF Asleep
<1>1. v \in jobs[j].told /\ jobs[j].state = "queued" /\ jobs[j].attempts = 0 /\ jobs[j].due
  BY DEF Quiet, IInv, NewJobs
<1>2. Locked(j) => Locked(j)'
  <2> SUFFICES ASSUME NEW u \in Workers, workers[u].loop = "locked", j \in workers[u].got
               PROVE  Locked(j)'
    BY DEF Locked
  <2>1. CASE u = w
    BY <2>1, Alone DEF IInv, Releases, Locked
  <2>2. CASE u # w
    BY <2>2, Alone DEF IInv, Locked
  <2> QED
    BY <2>1, <2>2
<1>3. CASE v # w
  BY <1>1, <1>2, <1>3, Alone DEF IInv, Asleep
<1>4. CASE v = w
  <2>1. workers'[v] = x
    BY <1>4, Alone DEF IInv
  <2>2. Claimable(j)
    BY <1>1 DEF Claimable
  <2>3. ASSUME x.bells = workers[w].bells
        PROVE  /\ workers[w].loop = "wait" => Locked(j)
               /\ workers[w].loop = "empty" => Locked(j) \/ workers[w].woken
    BY <1>1, <1>4, <2>1, <2>3 DEF IInv, Asleep
  <2> QED
    BY <1>2, <1>4, <2>1, <2>2, <2>3 DEF Wakeful
<1> QED
  BY <1>3, <1>4

LEMMA Moves ==
  ASSUME IInv, NEW w \in Workers, NEW x \in Worker, Changes(w, x), Quiet,
         Loosens(w, x), Wakeful(w, x), Releases(w, x),
         \A i, j \in x.got : i = j,
         x.draining => x.loop = "done" \/ (x.woken /\ x.loop # "wait"),
         faults' \in 0 .. MaxFaults, stops' \in 0 .. MaxStops
  PROVE  IInv'
<1>1. TypeOK'
  BY Alone DEF IInv, TypeOK, Quiet
<1>2. Draining'
  BY Alone DEF IInv, Draining
<1> QED
  BY <1>1, <1>2, OwnershipStays, AsleepStays DEF IInv

LEMMA Bounds ==
  ASSUME TypeOK
  PROVE  /\ faults \in 0 .. MaxFaults /\ stops \in 0 .. MaxStops
         /\ Strikes => faults' \in 0 .. MaxFaults
         /\ StopLeft => stops + 1 \in 0 .. MaxStops
BY WorkerLoopAssumption DEF TypeOK, Strikes, StopLeft, WorkerLoopAssumption

LEMMA ProcessType ==
  ASSUME TypeOK, NEW w \in Workers
  PROVE  workers[w] \in Worker
BY DEF TypeOK

\* The loop goes on from x, which is w as it was but for its flag.
LEMMA GoesOn ==
  ASSUME IInv, NEW w \in Workers, NEW y \in Worker,
         y.got = workers[w].got \/ y.got = {}, y.handling = workers[w].handling,
         y.draining = workers[w].draining, y.killed = workers[w].killed,
         Changes(w, Again(y)), workers[w].loop # "locked",
         UNCHANGED <<jobs, faults, stops>>
  PROVE  IInv'
<1> DEFINE x == Again(y)
<1>1. /\ x \in Worker /\ SameBut(x, y) /\ x.loop \in {"done", "nap", "pull"}
      /\ y.draining => x.loop = "done"
  BY AgainIs
<1>2. Changes(w, x)
  OBVIOUS
<1> HIDE DEF x
<1>3. TypeOK /\ Quiet
  BY JobsSame DEF IInv
<1>4. Loosens(w, x) /\ Wakeful(w, x) /\ Releases(w, x)
  BY <1>1 DEF Loosens, Wakeful, Releases, SameBut
<1>5. \A i, j \in x.got : i = j
  BY <1>1 DEF IInv, TypeOK, SameBut
<1>6. x.draining => x.loop = "done"
  BY <1>1 DEF SameBut
<1>7. faults' \in 0 .. MaxFaults /\ stops' \in 0 .. MaxStops
  BY <1>3, Bounds
<1> QED
  BY <1>1, <1>2, <1>3, <1>4, <1>5, <1>6, <1>7, Moves

LEMMA BootStep ==
  ASSUME IInv, NEW w \in Workers, Boot(w)
  PROVE  IInv'
BY ProcessType, GoesOn DEF IInv, Boot, Changes

LEMMA TimeoutStep ==
  ASSUME IInv, NEW w \in Workers, Timeout(w)
  PROVE  IInv'
BY ProcessType, GoesOn DEF IInv, Timeout, Changes

LEMMA WaitStep ==
  ASSUME IInv, NEW w \in Workers, Wait(w)
  PROVE  IInv'
<1>1. workers[w] \in Worker /\ TypeOK
  BY ProcessType DEF IInv
<1>2. CASE workers[w].woken
  <2> DEFINE y == [workers[w] EXCEPT !.woken = FALSE]
  <2>1. /\ y \in Worker /\ y.got = workers[w].got /\ y.handling = workers[w].handling
        /\ y.draining = workers[w].draining /\ y.killed = workers[w].killed
    BY <1>1 DEF Worker
  <2>2. Changes(w, Again(y)) /\ workers[w].loop = "empty" /\ UNCHANGED <<jobs, faults, stops>>
    BY <1>2 DEF Wait, Changes
  <2> HIDE DEF y
  <2> QED
    BY <2>1, <2>2, GoesOn
<1>3. CASE ~workers[w].woken
  <2> DEFINE x == [workers[w] EXCEPT !.loop = "wait"]
  <2>1. x \in Worker /\ SameBut(x, workers[w]) /\ x.loop = "wait"
    BY <1>1 DEF Worker, LoopState, SameBut
  <2>2. Changes(w, x) /\ workers[w].loop = "empty" /\ UNCHANGED <<jobs, faults, stops>>
    BY <1>3 DEF Wait, Changes
  <2> HIDE DEF x
  <2>3. Quiet /\ Loosens(w, x) /\ Wakeful(w, x) /\ Releases(w, x)
    BY <1>1, <1>3, <2>1, <2>2, JobsSame DEF Loosens, Wakeful, Releases, SameBut
  <2>4. /\ \A i, j \in x.got : i = j
        /\ ~x.draining
    BY <1>3, <2>1, <2>2 DEF IInv, TypeOK, SameBut, Draining
  <2> QED
    BY <1>1, <2>1, <2>2, <2>3, <2>4, Bounds, Moves
<1> QED
  BY <1>2, <1>3

LEMMA ListenStep ==
  ASSUME IInv, NEW w \in Workers, Listen(w)
  PROVE  IInv'
<1> DEFINE x == [workers[w] EXCEPT !.ears = TRUE]
<1>1. TypeOK /\ workers[w] \in Worker
  BY ProcessType DEF IInv
<1>2. /\ x \in Worker /\ x.loop = workers[w].loop /\ x.got = workers[w].got
      /\ x.handling = workers[w].handling /\ x.killed = workers[w].killed
      /\ x.bells = workers[w].bells /\ x.woken = workers[w].woken
      /\ x.draining = workers[w].draining
  BY <1>1 DEF Worker
<1>3. Changes(w, x) /\ UNCHANGED <<jobs, faults, stops>>
  BY DEF Listen, Changes
<1> HIDE DEF x
<1>4. Quiet /\ Loosens(w, x) /\ Wakeful(w, x) /\ Releases(w, x)
  BY <1>1, <1>2, <1>3, JobsSame DEF Loosens, Wakeful, Releases
<1>5. /\ \A i, j \in x.got : i = j
      /\ x.draining => x.loop = "done" \/ (x.woken /\ x.loop # "wait")
  BY <1>2 DEF IInv, TypeOK, Draining
<1> QED
  BY <1>1, <1>2, <1>3, <1>4, <1>5, Bounds, Moves

LEMMA RowTold ==
  ASSUME TypeOK, NEW j \in Jobs, NEW told \in SUBSET jobs[j].told
  PROVE  /\ [jobs[j] EXCEPT !.told = told] \in JobRow
         /\ [jobs[j] EXCEPT !.told = told].state = jobs[j].state
         /\ [jobs[j] EXCEPT !.told = told].attempts = jobs[j].attempts
         /\ [jobs[j] EXCEPT !.told = told].due = jobs[j].due
         /\ [jobs[j] EXCEPT !.told = told].lease = jobs[j].lease
         /\ [jobs[j] EXCEPT !.told = told].told = told
BY DEF TypeOK, JobRow

\* A process that is no longer told of anything.
LEMMA DeafStep ==
  ASSUME IInv, NEW w \in Workers, GoDeaf(w) \/ LoseBell(w)
  PROVE  IInv'
<1>1. TypeOK /\ workers[w] \in Worker
  BY ProcessType DEF IInv
<1>2. PICK x \in Worker :
        /\ Changes(w, x)
        /\ x.loop = workers[w].loop /\ x.got = workers[w].got
        /\ x.handling = workers[w].handling /\ x.killed = workers[w].killed
        /\ x.woken = workers[w].woken /\ x.draining = workers[w].draining
  <2>1. CASE GoDeaf(w)
    <3> DEFINE x == [workers[w] EXCEPT !.ears = FALSE, !.bells = 0]
    <3>1. /\ x \in Worker /\ x.loop = workers[w].loop /\ x.got = workers[w].got
          /\ x.handling = workers[w].handling /\ x.killed = workers[w].killed
          /\ x.woken = workers[w].woken /\ x.draining = workers[w].draining
      BY <1>1 DEF Worker
    <3>2. Changes(w, x)
      BY <2>1 DEF GoDeaf, Changes
    <3> QED
      BY <3>1, <3>2
  <2>2. CASE LoseBell(w)
    <3> DEFINE x == [workers[w] EXCEPT !.bells = workers[w].bells - 1]
    <3>1. /\ x \in Worker /\ x.loop = workers[w].loop /\ x.got = workers[w].got
          /\ x.handling = workers[w].handling /\ x.killed = workers[w].killed
          /\ x.woken = workers[w].woken /\ x.draining = workers[w].draining
      BY <1>1, <2>2 DEF Worker, LoseBell
    <3>2. Changes(w, x)
      BY <2>2 DEF LoseBell, Changes
    <3> QED
      BY <3>1, <3>2
  <2> QED
    BY <2>1, <2>2
<1>3. /\ jobs' = [j \in Jobs |-> [jobs[j] EXCEPT !.told = @ \ {w}]]
      /\ Strikes /\ UNCHANGED stops
  BY DEF GoDeaf, LoseBell
<1>4. \A j \in Jobs : jobs'[j] = [jobs[j] EXCEPT !.told = jobs[j].told \ {w}]
  BY <1>3
<1>5. ASSUME NEW j \in Jobs
      PROVE  /\ jobs'[j] \in JobRow /\ w \notin jobs'[j].told
             /\ jobs'[j].state = jobs[j].state /\ jobs'[j].attempts = jobs[j].attempts
             /\ jobs'[j].due = jobs[j].due /\ jobs'[j].lease = jobs[j].lease
             /\ jobs'[j].told \subseteq jobs[j].told
  <2> DEFINE told == jobs[j].told \ {w}
  <2>1. told \in SUBSET jobs[j].told /\ w \notin told
    OBVIOUS
  <2>2. jobs'[j] = [jobs[j] EXCEPT !.told = told]
    BY <1>4
  <2> HIDE DEF told
  <2> QED
    BY <1>1, <2>1, <2>2, RowTold
<1>6. Quiet
  <2>1. jobs' \in [Jobs -> JobRow]
    BY <1>3, <1>5
  <2> QED
    BY <1>5, <2>1 DEF Quiet
<1>7. Loosens(w, x) /\ Wakeful(w, x) /\ Releases(w, x)
  BY <1>2, <1>5 DEF Loosens, Wakeful, Releases
<1>8. /\ \A i, j \in x.got : i = j
      /\ x.draining => x.loop = "done" \/ (x.woken /\ x.loop # "wait")
  BY <1>2 DEF IInv, TypeOK, Draining
<1> QED
  BY <1>1, <1>2, <1>3, <1>6, <1>7, <1>8, Bounds, Moves

\* signalWake, perhaps with a signal to stop in y.
LEMMA SignalStep ==
  ASSUME IInv, NEW w \in Workers, NEW y \in Worker, NEW x \in Worker, Changes(w, x),
         y.loop = workers[w].loop, y.got = workers[w].got,
         y.handling = workers[w].handling, workers[w].killed => y.killed,
         x.loop = Signalled(y).loop, x.woken = Signalled(y).woken,
         x.got = Signalled(y).got, x.handling = Signalled(y).handling,
         x.killed = Signalled(y).killed, x.draining = Signalled(y).draining,
         UNCHANGED <<jobs, faults>>, stops' \in 0 .. MaxStops
  PROVE  IInv'
<1>1. TypeOK /\ Quiet
  BY JobsSame DEF IInv
<1>2. /\ x.got = workers[w].got /\ x.handling = workers[w].handling
      /\ x.killed = y.killed /\ x.draining = y.draining
  BY SignalledIs DEF SameBut
<1>3. CASE workers[w].loop = "wait"
  <2>1. x.loop \in {"done", "nap", "pull"} /\ (x.draining => x.loop = "done")
    BY <1>2, <1>3, SignalledIs
  <2>2. Loosens(w, x) /\ Wakeful(w, x) /\ Releases(w, x)
    BY <1>2, <1>3, <2>1 DEF Loosens, Wakeful, Releases
  <2> QED
    BY <1>1, <1>2, <2>1, <2>2, Bounds, Moves DEF IInv, TypeOK
<1>4. CASE workers[w].loop # "wait"
  <2>1. x.loop = workers[w].loop /\ x.woken
    BY <1>4, SignalledIs
  <2>2. Loosens(w, x) /\ Wakeful(w, x) /\ Releases(w, x)
    BY <1>2, <1>4, <2>1 DEF Loosens, Wakeful, Releases
  <2> QED
    BY <1>1, <1>2, <1>4, <2>1, <2>2, Bounds, Moves DEF IInv, TypeOK
<1> QED
  BY <1>3, <1>4

LEMMA BellsSet ==
  ASSUME NEW z \in Worker, NEW b \in Nat
  PROVE  LET x == [z EXCEPT !.bells = b]
         IN  /\ x \in Worker /\ x.loop = z.loop /\ x.woken = z.woken
             /\ x.got = z.got /\ x.handling = z.handling
             /\ x.killed = z.killed /\ x.draining = z.draining
BY DEF Worker

LEMMA RingStep ==
  ASSUME IInv, NEW w \in Workers, Ring(w)
  PROVE  IInv'
<1> DEFINE y == workers[w]
           x == [Signalled(y) EXCEPT !.bells = y.bells - 1]
<1>1. TypeOK /\ y \in Worker /\ Signalled(y) \in Worker
  BY ProcessType, SignalledIs DEF IInv
<1>2. /\ x \in Worker
      /\ x.loop = Signalled(y).loop /\ x.woken = Signalled(y).woken
      /\ x.got = Signalled(y).got /\ x.handling = Signalled(y).handling
      /\ x.killed = Signalled(y).killed /\ x.draining = Signalled(y).draining
  <2>1. y.bells - 1 \in Nat
    BY <1>1 DEF Ring, Worker
  <2> QED
    BY <1>1, <2>1, BellsSet
<1>3. Changes(w, x) /\ UNCHANGED <<jobs, faults, stops>>
  BY DEF Ring, Changes
<1>4. stops' \in 0 .. MaxStops
  BY <1>1, <1>3, Bounds
<1> HIDE DEF x
<1> QED
  BY <1>1, <1>2, <1>3, <1>4, SignalStep

LEMMA StopStep ==
  ASSUME IInv, NEW w \in Workers, Stop(w) \/ Kill(w)
  PROVE  IInv'
<1> DEFINE y == [workers[w] EXCEPT !.draining = TRUE]
           z == [workers[w] EXCEPT !.draining = TRUE, !.killed = TRUE]
<1>1. TypeOK /\ workers[w] \in Worker
  BY ProcessType DEF IInv
<1>2. /\ y \in Worker /\ y.loop = workers[w].loop /\ y.got = workers[w].got
      /\ y.handling = workers[w].handling /\ y.killed = workers[w].killed
  BY <1>1 DEF Worker
<1>3. /\ z \in Worker /\ z.loop = workers[w].loop /\ z.got = workers[w].got
      /\ z.handling = workers[w].handling /\ z.killed
  BY <1>1 DEF Worker
<1>4. /\ Changes(w, Signalled(y)) \/ Changes(w, Signalled(z))
      /\ UNCHANGED <<jobs, faults>> /\ StopLeft /\ stops' = stops + 1
  BY DEF Stop, Kill, MayEnd, Changes
<1>5. stops' \in 0 .. MaxStops
  BY <1>1, <1>4, Bounds
<1> HIDE DEF y, z
<1>6. Signalled(y) \in Worker /\ Signalled(z) \in Worker
  BY <1>2, <1>3, SignalledIs
<1>7. CASE Changes(w, Signalled(y))
  BY <1>2, <1>4, <1>5, <1>6, <1>7, SignalStep
<1>8. CASE Changes(w, Signalled(z))
  BY <1>3, <1>4, <1>5, <1>6, <1>8, SignalStep
<1> QED
  BY <1>4, <1>7, <1>8

\* A rolled back claim.
LEMMA ReleasedIs ==
  ASSUME TypeOK, NEW w \in Workers, jobs' = Released(w)
  PROVE  Quiet /\ (workers[w].loop = "locked" => \A j \in workers[w].got : jobs'[j].told = {})
<1>1. ASSUME NEW j \in Jobs
      PROVE  /\ jobs'[j] \in JobRow
             /\ jobs'[j].state = jobs[j].state /\ jobs'[j].attempts = jobs[j].attempts
             /\ jobs'[j].due = jobs[j].due /\ jobs'[j].lease = jobs[j].lease
             /\ jobs'[j].told \subseteq jobs[j].told
             /\ workers[w].loop = "locked" /\ j \in workers[w].got => jobs'[j].told = {}
  <2>1. CASE workers[w].loop = "locked" /\ j \in workers[w].got
    <3>1. jobs'[j] = [jobs[j] EXCEPT !.told = {}]
      BY <2>1 DEF Released
    <3> QED
      BY <3>1, RowTold
  <2>2. CASE ~(workers[w].loop = "locked" /\ j \in workers[w].got)
    <3>1. jobs'[j] = jobs[j]
      BY <2>2 DEF Released
    <3> QED
      BY <2>2, <3>1 DEF TypeOK
  <2> QED
    BY <2>1, <2>2
<1>2. jobs' \in [Jobs -> JobRow]
  BY <1>1 DEF Released
<1>3. workers[w].got \subseteq Jobs
  BY DEF TypeOK, Worker
<1> QED
  BY <1>1, <1>2, <1>3 DEF Quiet

\* A process, or its claim, is gone.
LEMMA LetGo ==
  ASSUME IInv, NEW w \in Workers, NEW x \in Worker, Changes(w, x),
         x.loop \in {"nap", "gone", "done"}, x.got = {},
         x.handling \subseteq workers[w].handling, workers[w].killed => x.killed \/ x.handling = {},
         x.draining => x.loop = "done" \/ (workers[w].draining /\ x.woken /\ x.loop = "nap"),
         jobs' = Released(w) \/ (UNCHANGED jobs /\ workers[w].loop # "locked"),
         faults' \in 0 .. MaxFaults, stops' \in 0 .. MaxStops
  PROVE  IInv'
<1>1. Quiet /\ Releases(w, x)
  BY JobsSame, ReleasedIs DEF IInv, Releases
<1>2. Loosens(w, x) /\ Wakeful(w, x)
  BY DEF Loosens, Wakeful
<1> QED
  BY <1>1, <1>2, Moves

LEMMA GoneType ==
  LET gone == [Off EXCEPT !.loop = "gone"]
  IN  /\ gone \in Worker /\ gone.loop = "gone" /\ gone.got = {}
      /\ gone.handling = {} /\ ~gone.draining
BY DEF Off, Worker, LoopState

LEMMA ExitStep ==
  ASSUME IInv, NEW w \in Workers, Exit(w)
  PROVE  IInv'
<1> DEFINE gone == [Off EXCEPT !.loop = "gone"]
<1>1. /\ gone \in Worker /\ gone.loop = "gone" /\ gone.got = {}
      /\ gone.handling = {} /\ ~gone.draining
  BY GoneType
<1>2. Changes(w, gone) /\ workers[w].loop = "done" /\ UNCHANGED <<jobs, faults, stops>>
  BY DEF Exit, Changes
<1> HIDE DEF gone
<1>3. faults' \in 0 .. MaxFaults /\ stops' \in 0 .. MaxStops
  BY <1>2, Bounds DEF IInv
<1> QED
  BY <1>1, <1>2, <1>3, LetGo

LEMMA DieStep ==
  ASSUME IInv, NEW w \in Workers, Die(w)
  PROVE  IInv'
<1> DEFINE gone == [Off EXCEPT !.loop = "gone"]
<1>1. /\ gone \in Worker /\ gone.loop = "gone" /\ gone.got = {}
      /\ gone.handling = {} /\ ~gone.draining
  BY GoneType
<1>2. Changes(w, gone) /\ jobs' = Released(w) /\ UNCHANGED faults
  BY DEF Die, Changes
<1>3. UNCHANGED stops \/ (StopLeft /\ stops' = stops + 1)
  BY DEF Die
<1> HIDE DEF gone
<1>4. faults' \in 0 .. MaxFaults /\ stops' \in 0 .. MaxStops
  BY <1>2, <1>3, Bounds DEF IInv
<1> QED
  BY <1>1, <1>2, <1>4, LetGo

LEMMA PullThrowsStep ==
  ASSUME IInv, NEW w \in Workers, PullThrows(w)
  PROVE  IInv'
<1> DEFINE x == [workers[w] EXCEPT !.loop = "nap", !.got = {}]
<1>1. TypeOK /\ workers[w] \in Worker
  BY ProcessType DEF IInv
<1>2. /\ x \in Worker /\ x.loop = "nap" /\ x.got = {} /\ x.handling = workers[w].handling
      /\ x.killed = workers[w].killed /\ x.draining = workers[w].draining
      /\ x.woken = workers[w].woken
  BY <1>1 DEF Worker, LoopState
<1>3. /\ Changes(w, x) /\ jobs' = Released(w) /\ Strikes /\ UNCHANGED stops
      /\ workers[w].loop # "done"
  BY DEF PullThrows, Changes
<1>4. workers[w].draining => workers[w].woken
  BY <1>3 DEF IInv, Draining
<1>5. faults' \in 0 .. MaxFaults /\ stops' \in 0 .. MaxStops
  BY <1>1, <1>3, Bounds
<1> HIDE DEF x
<1> QED
  BY <1>2, <1>3, <1>4, <1>5, LetGo

-----------------------------------------------------------------------------
(* Steps that take a job, or that write its row.                           *)

\* A kept row is never free to take.
LEMMA KeptIsTaken ==
  ASSUME NEW j \in Jobs, Leased(j)
  PROVE  ~Claimable(j)
BY DEF Leased, Claimable

LEMMA NobodyKeeps ==
  ASSUME IInv, NEW j \in Jobs, ~Leased(j)
  PROVE  \A v \in Workers : ~KeepsLease(v, j)
BY DEF IInv, Kept

LEMMA NobodyLocks ==
  ASSUME IInv, NEW j \in Jobs, ~Claimable(j)
  PROVE  \A v \in Workers : ~Locks(v, j)
BY DEF IInv, LocksFit

LEMMA LockStep ==
  ASSUME IInv, NEW w \in Workers, Lock(w)
  PROVE  IInv'
<1>1. /\ TypeOK /\ workers[w] \in Worker /\ workers[w].loop = "pull"
      /\ UNCHANGED <<jobs, faults, stops>> /\ Quiet
      /\ faults' \in 0 .. MaxFaults /\ stops' \in 0 .. MaxStops
  BY ProcessType, JobsSame, Bounds DEF IInv, Lock
<1>2. workers[w].draining => workers[w].woken
  BY <1>1 DEF IInv, Draining
<1>3. CASE /\ \A j \in Jobs : Claimable(j) => Locked(j)
           /\ workers' = [workers EXCEPT ![w].loop = "empty"]
  <2> DEFINE x == [workers[w] EXCEPT !.loop = "empty"]
  <2>1. /\ x \in Worker /\ x.loop = "empty" /\ x.got = workers[w].got
        /\ x.handling = workers[w].handling /\ x.killed = workers[w].killed
        /\ x.draining = workers[w].draining /\ x.woken = workers[w].woken
    BY <1>1 DEF Worker, LoopState
  <2>2. Changes(w, x)
    BY <1>3 DEF Changes
  <2> HIDE DEF x
  <2>3. Loosens(w, x) /\ Wakeful(w, x) /\ Releases(w, x)
    BY <1>1, <1>3, <2>1 DEF Loosens, Wakeful, Releases
  <2>4. \A i, j \in x.got : i = j
    BY <2>1 DEF IInv, TypeOK
  <2> QED
    BY <1>1, <1>2, <2>1, <2>2, <2>3, <2>4, Moves
<1>4. CASE \E j \in Jobs : /\ Claimable(j) /\ ~Locked(j)
                           /\ workers' = [workers EXCEPT ![w].loop = "locked", ![w].got = {j}]
  <2>1. PICK j \in Jobs : /\ Claimable(j) /\ ~Locked(j)
                          /\ workers' = [workers EXCEPT ![w].loop = "locked", ![w].got = {j}]
    BY <1>4
  <2> DEFINE x == [workers[w] EXCEPT !.loop = "locked", !.got = {j}]
  <2>2. /\ x \in Worker /\ x.loop = "locked" /\ x.got = {j}
        /\ x.handling = workers[w].handling /\ x.killed = workers[w].killed
        /\ x.draining = workers[w].draining /\ x.woken = workers[w].woken
    BY <1>1 DEF Worker, LoopState
  <2>3. Changes(w, x)
    BY <2>1 DEF Changes
  <2> HIDE DEF x
  <2>4. \A v \in Workers, i \in Jobs :
          /\ Handles(v, i)' <=> Handles(v, i)
          /\ Claimed(v, i)' => Claimed(v, i)
          /\ Locks(v, i)' => Locks(v, i) \/ (v = w /\ i = j)
    <3> TAKE v \in Workers, i \in Jobs
    <3>1. CASE v = w
      BY <1>1, <2>2, <2>3, <3>1, Alone DEF Handles, Claimed, Locks
    <3>2. CASE v # w
      BY <1>1, <2>2, <2>3, <3>2, Alone DEF Handles, Claimed, Locks
    <3> QED
      BY <3>1, <3>2
  <2>5. TypeOK'
    BY <1>1, <2>2, <2>3, Alone DEF TypeOK
  <2>6. NewJobs' /\ \A i \in Jobs : (Leased(i)' <=> Leased(i)) /\ (Claimable(i)' <=> Claimable(i))
    BY <1>1 DEF IInv, NewJobs, Leased, Claimable
  <2>7. \A v \in Workers, i \in Jobs : KeepsLease(v, i)' => KeepsLease(v, i)
    BY <2>4 DEF KeepsLease, Handles, Claimed
  <2>8. Kept'
    BY <2>4, <2>6, <2>7 DEF IInv, Kept
  <2>9. \A v \in Workers : ~Locks(v, j)
    BY <2>1 DEF Locked, Locks
  <2>10. LocksFit'
    BY <2>1, <2>4, <2>6, <2>9 DEF IInv, LocksFit
  <2>11. Asleep'
    <3>1. Wakeful(w, x) /\ Releases(w, x)
      BY <1>1, <2>2 DEF Wakeful, Releases
    <3> QED
      BY <1>1, <2>2, <2>3, <3>1, AsleepStays
  <2>12. Draining'
    BY <1>1, <1>2, <2>2, <2>3, Alone DEF IInv, Draining
  <2> QED
    BY <2>5, <2>6, <2>8, <2>10, <2>11, <2>12 DEF IInv
<1> QED
  BY <1>3, <1>4 DEF Lock

LEMMA RowWritten ==
  ASSUME TypeOK, NEW j \in Jobs, NEW row \in JobRow, jobs' = [jobs EXCEPT ![j] = row]
  PROVE  /\ jobs' \in [Jobs -> JobRow] /\ jobs'[j] = row
         /\ \A i \in Jobs : i # j => jobs'[i] = jobs[i]
BY DEF TypeOK

LEMMA RowClaimed ==
  ASSUME TypeOK, NEW j \in Jobs,
         jobs' = [jobs EXCEPT ![j].state = "running", ![j].lease = TRUE,
                              ![j].attempts = @ + 1, ![j].told = {}]
  PROVE  /\ jobs' \in [Jobs -> JobRow] /\ Leased(j)' /\ jobs'[j].attempts # 0
         /\ jobs'[j].told = {} /\ \A i \in Jobs : i # j => jobs'[i] = jobs[i]
<1> DEFINE n == jobs[j].attempts + 1
           row == [jobs[j] EXCEPT !.state = "running", !.lease = TRUE,
                                  !.attempts = n, !.told = {}]
<1>1. n \in Nat \ {0} /\ jobs[j] \in JobRow
  BY DEF TypeOK, JobRow
<1>2. jobs' = [jobs EXCEPT ![j] = row]
  OBVIOUS
<1> HIDE DEF n
<1>3. /\ row \in JobRow /\ row.state = "running" /\ row.lease /\ row.attempts = n
      /\ row.told = {}
  BY <1>1 DEF JobRow
<1>4. row.attempts # 0
  BY <1>1, <1>3
<1> HIDE DEF row
<1>5. /\ jobs' \in [Jobs -> JobRow] /\ jobs'[j] = row
      /\ \A i \in Jobs : i # j => jobs'[i] = jobs[i]
  BY <1>2, <1>3, RowWritten
<1> QED
  BY <1>3, <1>4, <1>5 DEF Leased

LEMMA ClaimStep ==
  ASSUME IInv, NEW w \in Workers, Claim(w)
  PROVE  IInv'
<1> DEFINE x == [workers[w] EXCEPT !.loop = "claimed"]
<1>1. /\ TypeOK /\ workers[w] \in Worker /\ workers[w].loop = "locked"
      /\ UNCHANGED <<faults, stops>>
  BY ProcessType DEF IInv, Claim
<1>2. PICK j \in Jobs :
        /\ workers[w].got = {j}
        /\ jobs' = [jobs EXCEPT ![j].state = "running", ![j].lease = TRUE,
                                ![j].attempts = @ + 1, ![j].told = {}]
  <2>1. PICK j \in workers[w].got :
          jobs' = [jobs EXCEPT ![j].state = "running", ![j].lease = TRUE,
                               ![j].attempts = @ + 1, ![j].told = {}]
    BY DEF Claim
  <2>2. j \in Jobs /\ workers[w].got = {j}
    BY <1>1, <2>1 DEF TypeOK, Worker
  <2> QED
    BY <2>1, <2>2
<1>3. /\ x \in Worker /\ x.loop = "claimed" /\ x.got = {j}
      /\ x.handling = workers[w].handling /\ x.killed = workers[w].killed
      /\ x.draining = workers[w].draining /\ x.woken = workers[w].woken
  BY <1>1, <1>2 DEF Worker, LoopState
<1>4. Changes(w, x)
  BY DEF Claim, Changes
<1> HIDE DEF x
<1>5. /\ jobs' \in [Jobs -> JobRow] /\ Leased(j)' /\ jobs'[j].attempts # 0
      /\ jobs'[j].told = {} /\ \A i \in Jobs : i # j => jobs'[i] = jobs[i]
  BY <1>1, <1>2, RowClaimed
<1>6. Locks(w, j) /\ Claimable(j) /\ \A v \in Workers : Locks(v, j) => v = w
  BY <1>1, <1>2 DEF IInv, LocksFit, Locks
<1>7. \A v \in Workers : ~KeepsLease(v, j)
  BY <1>6, KeptIsTaken, NobodyKeeps
<1>8. \A v \in Workers, i \in Jobs :
        /\ Handles(v, i)' <=> Handles(v, i)
        /\ Claimed(v, i)' => Claimed(v, i) \/ (v = w /\ i = j)
        /\ Locks(v, i)' => Locks(v, i) /\ v # w
        /\ v # w => (Locks(v, i) => Locks(v, i)')
  <2> TAKE v \in Workers, i \in Jobs
  <2>1. CASE v = w
    BY <1>1, <1>3, <1>4, <2>1, Alone DEF Handles, Claimed, Locks
  <2>2. CASE v # w
    BY <1>1, <1>3, <1>4, <2>2, Alone DEF Handles, Claimed, Locks
  <2> QED
    BY <2>1, <2>2
<1>9. TypeOK'
  BY <1>1, <1>3, <1>4, <1>5, Alone DEF TypeOK
<1>10. NewJobs'
  BY <1>5 DEF IInv, NewJobs
<1>11. \A v \in Workers, i \in Jobs :
         KeepsLease(v, i)' => KeepsLease(v, i) \/ (v = w /\ i = j)
  BY <1>8 DEF KeepsLease, Handles, Claimed
<1>12. Kept'
  <2>1. \A v \in Workers, i \in Jobs : KeepsLease(v, i)' => Leased(i)'
    BY <1>5, <1>7, <1>11 DEF IInv, Kept, Leased
  <2>2. \A u, v \in Workers, i \in Jobs : KeepsLease(u, i)' /\ KeepsLease(v, i)' => u = v
    BY <1>7, <1>11 DEF IInv, Kept
  <2>3. \A v \in Workers, i \in Jobs : ~(Handles(v, i)' /\ Claimed(v, i)')
    BY <1>7, <1>8 DEF IInv, Kept, KeepsLease, Handles
  <2> QED
    BY <2>1, <2>2, <2>3 DEF Kept
<1>13. LocksFit'
  <2>1. \A v \in Workers, i \in Jobs : Locks(v, i)' => i # j /\ Claimable(i)'
    BY <1>5, <1>6, <1>8 DEF IInv, LocksFit, Claimable
  <2> QED
    BY <1>8, <2>1 DEF IInv, LocksFit
<1>14. Asleep'
  <2> SUFFICES ASSUME NEW v \in Workers, NEW i \in Jobs,
                      workers'[v].bells = 0, v \in jobs'[i].told,
                      jobs'[i].state = "queued", jobs'[i].attempts = 0
               PROVE  /\ workers'[v].loop = "wait" => Locked(i)'
                      /\ workers'[v].loop = "empty" => Locked(i)' \/ workers'[v].woken
    BY DEF Asleep
  <2>1. i # j /\ jobs'[i] = jobs[i]
    BY <1>5
  <2>2. Locked(i) => Locked(i)'
    <3>1. \A u \in Workers : Locks(u, i) => u # w
      BY <1>2, <2>1 DEF Locks
    <3> QED
      BY <1>8, <3>1 DEF Locked, Locks
  <2>3. v # w => workers'[v] = workers[v]
    BY <1>1, <1>3, <1>4, Alone
  <2>4. v = w => workers'[v].loop = "claimed"
    BY <1>1, <1>3, <1>4, Alone
  <2> QED
    BY <2>1, <2>2, <2>3, <2>4 DEF IInv, Asleep
<1>15. Draining'
  BY <1>1, <1>3, <1>4, Alone DEF IInv, Draining
<1> QED
  BY <1>9, <1>10, <1>12, <1>13, <1>14, <1>15 DEF IInv

LEMMA DispatchStep ==
  ASSUME IInv, NEW w \in Workers, Dispatch(w)
  PROVE  IInv'
<1>1. /\ TypeOK /\ workers[w] \in Worker /\ workers[w].loop = "claimed"
      /\ UNCHANGED <<jobs, faults, stops>> /\ Quiet
      /\ faults' \in 0 .. MaxFaults /\ stops' \in 0 .. MaxStops
  BY ProcessType, JobsSame, Bounds DEF IInv, Dispatch
<1>2. CASE workers[w].draining
  <2> DEFINE x == [workers[w] EXCEPT !.loop = "done", !.got = {}]
  <2>1. /\ x \in Worker /\ x.loop = "done" /\ x.got = {} /\ x.handling = workers[w].handling
        /\ x.killed = workers[w].killed
    BY <1>1 DEF Worker, LoopState
  <2>2. Changes(w, x)
    BY <1>2 DEF Dispatch, Changes
  <2> HIDE DEF x
  <2> QED
    BY <1>1, <2>1, <2>2, LetGo
<1>3. CASE ~workers[w].draining
  <2> DEFINE y == [workers[w] EXCEPT !.got = {},
                                     !.handling = workers[w].handling \cup workers[w].got]
             x == Again(y)
  <2>1. /\ y \in Worker /\ y.got = {} /\ ~y.draining /\ y.killed = workers[w].killed
        /\ y.handling = workers[w].handling \cup workers[w].got
    BY <1>1, <1>3 DEF Worker
  <2>2. Changes(w, x)
    BY <1>3 DEF Dispatch, Changes
  <2> HIDE DEF y
  <2>3. /\ x \in Worker /\ x.loop \in {"done", "nap", "pull"} /\ x.got = {} /\ ~x.draining
        /\ x.handling = workers[w].handling \cup workers[w].got
        /\ x.killed = workers[w].killed
    BY <2>1, AgainIs DEF SameBut
  <2> HIDE DEF x
  <2>4. \A v \in Workers, i \in Jobs :
          /\ Handles(v, i)' => KeepsLease(v, i)
          /\ Claimed(v, i)' => Claimed(v, i) /\ v # w
          /\ v # w => (Handles(v, i)' => Handles(v, i))
          /\ Locks(v, i)' => Locks(v, i)
    <3> TAKE v \in Workers, i \in Jobs
    <3>1. CASE v = w
      BY <1>1, <2>2, <2>3, <3>1, Alone DEF Handles, Claimed, Locks, KeepsLease
    <3>2. CASE v # w
      BY <1>1, <2>2, <2>3, <3>2, Alone DEF Handles, Claimed, Locks, KeepsLease
    <3> QED
      BY <3>1, <3>2
  <2>5. TypeOK'
    BY <1>1, <2>2, <2>3, Alone DEF TypeOK
  <2>6. NewJobs' /\ \A i \in Jobs : (Leased(i)' <=> Leased(i)) /\ (Claimable(i)' <=> Claimable(i))
    BY <1>1 DEF IInv, NewJobs, Leased, Claimable
  <2>7. \A v \in Workers, i \in Jobs : KeepsLease(v, i)' => KeepsLease(v, i)
    BY <2>4 DEF KeepsLease, Handles, Claimed
  <2>8. Kept'
    BY <2>4, <2>6, <2>7 DEF IInv, Kept
  <2>9. LocksFit'
    BY <2>4, <2>6 DEF IInv, LocksFit
  <2>10. Asleep'
    <3>1. Wakeful(w, x) /\ Releases(w, x)
      BY <1>1, <2>3 DEF Wakeful, Releases
    <3> QED
      BY <1>1, <2>2, <2>3, <3>1, AsleepStays
  <2>11. Draining'
    BY <1>1, <2>2, <2>3, Alone DEF IInv, Draining
  <2> QED
    BY <2>5, <2>6, <2>8, <2>9, <2>10, <2>11 DEF IInv
<1> QED
  BY <1>2, <1>3

\* A row that its handler settles.
SettledWell(row, was) ==
  /\ row \in JobRow /\ row.attempts = was.attempts /\ row.state # "running"

LEMMA Settlements ==
  ASSUME TypeOK, NEW j \in Jobs
  PROVE  SettledWell(Acked(jobs[j]), jobs[j]) /\ SettledWell(Nacked(jobs[j]), jobs[j])
BY DEF TypeOK, SettledWell, Acked, Nacked, Absent, JobRow

LEMMA HandlerEnds ==
  ASSUME IInv, NEW w \in Workers, NEW j \in Jobs, NEW row \in JobRow,
         j \in workers[w].handling,
         row = jobs[j] \/ (~workers[w].killed /\ SettledWell(row, jobs[j])),
         jobs' = [jobs EXCEPT ![j] = row],
         workers' = [workers EXCEPT ![w].handling = @ \ {j}],
         faults' \in 0 .. MaxFaults, stops' \in 0 .. MaxStops
  PROVE  IInv'
<1> DEFINE x == [workers[w] EXCEPT !.handling = workers[w].handling \ {j}]
<1>1. TypeOK /\ workers[w] \in Worker
  BY ProcessType DEF IInv
<1>2. /\ x \in Worker /\ x.loop = workers[w].loop /\ x.got = workers[w].got
      /\ x.handling = workers[w].handling \ {j} /\ x.killed = workers[w].killed
      /\ x.draining = workers[w].draining /\ x.woken = workers[w].woken
      /\ x.bells = workers[w].bells
  BY <1>1 DEF Worker
<1>3. Changes(w, x)
  BY DEF Changes
<1> HIDE DEF x
<1>4. CASE row = jobs[j]
  <2>1. jobs' = jobs
    BY <1>1, <1>4 DEF TypeOK
  <2>2. Quiet /\ Loosens(w, x) /\ Wakeful(w, x) /\ Releases(w, x)
    BY <1>1, <1>2, <2>1, JobsSame DEF Loosens, Wakeful, Releases
  <2>3. /\ \A i, k \in x.got : i = k
        /\ x.draining => x.loop = "done" \/ (x.woken /\ x.loop # "wait")
    BY <1>2 DEF IInv, TypeOK, Draining
  <2> QED
    BY <1>2, <1>3, <2>2, <2>3, Moves
<1>5. CASE ~workers[w].killed /\ SettledWell(row, jobs[j])
  <2>1. Handles(w, j) /\ KeepsLease(w, j) /\ Leased(j)
    BY <1>5 DEF Handles, KeepsLease, IInv, Kept
  <2>2. /\ jobs[j].attempts # 0 /\ ~Claimable(j)
        /\ \A v \in Workers : KeepsLease(v, j) => v = w
        /\ ~Claimed(w, j)
    BY <2>1, KeptIsTaken DEF IInv, NewJobs, Kept, Leased
  <2>3. \A v \in Workers : ~Locks(v, j)
    BY <2>2, NobodyLocks
  <2>4. /\ jobs' \in [Jobs -> JobRow] /\ jobs'[j] = row
        /\ \A i \in Jobs : i # j => jobs'[i] = jobs[i]
    BY <1>1, RowWritten
  <2>5. \A v \in Workers, i \in Jobs :
          /\ Handles(v, i)' => Handles(v, i) /\ ~(v = w /\ i = j)
          /\ Claimed(v, i)' <=> Claimed(v, i)
          /\ Locks(v, i)' <=> Locks(v, i)
    <3> TAKE v \in Workers, i \in Jobs
    <3>1. CASE v = w
      BY <1>1, <1>2, <1>3, <3>1, Alone DEF Handles, Claimed, Locks
    <3>2. CASE v # w
      BY <1>1, <1>2, <1>3, <3>2, Alone DEF Handles, Claimed, Locks
    <3> QED
      BY <3>1, <3>2
  <2>6. \A v \in Workers, i \in Jobs : KeepsLease(v, i)' => KeepsLease(v, i) /\ i # j
    <3>1. \A v \in Workers, i \in Jobs : KeepsLease(v, i)' => KeepsLease(v, i)
      BY <2>5 DEF KeepsLease, Handles, Claimed
    <3>2. \A v \in Workers : ~KeepsLease(v, j)'
      BY <2>2, <2>5, <3>1 DEF KeepsLease, Handles, Claimed
    <3> QED
      BY <3>1, <3>2
  <2>7. TypeOK'
    <3>1. workers' \in [Workers -> Worker]
      BY <1>1, <1>2, <1>3, Alone
    <3>2. \A v \in Workers : workers'[v].got = workers[v].got
      BY <1>1, <1>2, <1>3, Alone
    <3> QED
      BY <1>1, <2>4, <3>1, <3>2 DEF TypeOK
  <2>8. NewJobs'
    BY <1>5, <2>2, <2>4 DEF IInv, NewJobs, SettledWell
  <2>9. Kept'
    <3>1. \A v \in Workers, i \in Jobs : KeepsLease(v, i)' => Leased(i)'
      BY <2>4, <2>6 DEF IInv, Kept, Leased
    <3> QED
      BY <2>5, <2>6, <3>1 DEF IInv, Kept
  <2>10. LocksFit'
    <3>1. \A v \in Workers, i \in Jobs : Locks(v, i)' => i # j /\ Claimable(i)'
      BY <2>3, <2>4, <2>5 DEF IInv, LocksFit, Claimable
    <3> QED
      BY <2>5, <3>1 DEF IInv, LocksFit
  <2>11. Asleep'
    <3> SUFFICES ASSUME NEW v \in Workers, NEW i \in Jobs,
                        workers'[v].bells = 0, v \in jobs'[i].told,
                        jobs'[i].state = "queued", jobs'[i].attempts = 0
                 PROVE  /\ workers'[v].loop = "wait" => Locked(i)'
                        /\ workers'[v].loop = "empty" => Locked(i)' \/ workers'[v].woken
      BY DEF Asleep
    <3>1. i # j /\ jobs'[i] = jobs[i]
      BY <1>5, <2>2, <2>4 DEF SettledWell
    <3>2. Locked(i) => Locked(i)'
      BY <2>5 DEF Locked, Locks
    <3>3. /\ workers'[v].bells = workers[v].bells /\ workers'[v].loop = workers[v].loop
          /\ workers'[v].woken = workers[v].woken
      BY <1>1, <1>2, <1>3, Alone
    <3> QED
      BY <3>1, <3>2, <3>3 DEF IInv, Asleep
  <2>12. Draining'
    BY <1>1, <1>2, <1>3, Alone DEF IInv, Draining
  <2> QED
    BY <2>7, <2>8, <2>9, <2>10, <2>11, <2>12 DEF IInv
<1> QED
  BY <1>4, <1>5

LEMMA FinishStep ==
  ASSUME IInv, NEW w \in Workers, NEW j \in Jobs, Finish(w, j)
  PROVE  IInv'
<1>1. TypeOK /\ jobs[j] \in JobRow
  BY DEF IInv, TypeOK
<1>2. PICK outcome \in {"ack", "nack"} :
        jobs' = [jobs EXCEPT ![j] = SettledRow(w, j, outcome)]
  BY DEF Finish
<1> DEFINE row == SettledRow(w, j, outcome)
<1>3. /\ row \in JobRow
      /\ row = jobs[j] \/ (~workers[w].killed /\ SettledWell(row, jobs[j]))
  BY <1>1, Settlements DEF SettledRow, SettledWell
<1>4. /\ j \in workers[w].handling /\ jobs' = [jobs EXCEPT ![j] = row]
      /\ workers' = [workers EXCEPT ![w].handling = @ \ {j}]
      /\ UNCHANGED <<faults, stops>>
  BY <1>2 DEF Finish
<1> HIDE DEF row
<1>5. faults' \in 0 .. MaxFaults /\ stops' \in 0 .. MaxStops
  BY <1>1, <1>4, Bounds
<1> QED
  BY <1>3, <1>4, <1>5, HandlerEnds

LEMMA FinishThrowsStep ==
  ASSUME IInv, NEW w \in Workers, NEW j \in Jobs, FinishThrows(w, j)
  PROVE  IInv'
<1>1. TypeOK /\ jobs[j] \in JobRow
  BY DEF IInv, TypeOK
<1>2. PICK row \in {jobs[j], Acked(jobs[j]), Nacked(jobs[j])} :
        jobs' = [jobs EXCEPT ![j] = row]
  <2>1. CASE UNCHANGED jobs
    <3>1. jobs' = [jobs EXCEPT ![j] = jobs[j]]
      BY <1>1, <2>1 DEF TypeOK
    <3> QED
      BY <3>1
  <2>2. CASE \E row \in {Acked(jobs[j]), Nacked(jobs[j])} : jobs' = [jobs EXCEPT ![j] = row]
    BY <2>2
  <2> QED
    BY <2>1, <2>2 DEF FinishThrows
<1>3. /\ row \in JobRow
      /\ row = jobs[j] \/ (~workers[w].killed /\ SettledWell(row, jobs[j]))
  BY <1>1, <1>2, Settlements DEF SettledWell, FinishThrows
<1>4. /\ j \in workers[w].handling
      /\ workers' = [workers EXCEPT ![w].handling = @ \ {j}]
      /\ Strikes /\ UNCHANGED stops
  BY DEF FinishThrows
<1>5. faults' \in 0 .. MaxFaults /\ stops' \in 0 .. MaxStops
  BY <1>1, <1>4, Bounds
<1> QED
  BY <1>2, <1>3, <1>4, <1>5, HandlerEnds

LEMMA BecomeDueStep ==
  ASSUME IInv, NEW j \in Jobs, BecomeDue(j)
  PROVE  IInv'
<1> DEFINE row == [jobs[j] EXCEPT !.due = TRUE]
<1>1. /\ TypeOK /\ UNCHANGED <<workers, faults, stops>>
      /\ jobs' = [jobs EXCEPT ![j] = row]
  BY DEF IInv, BecomeDue
<1>2. /\ row \in JobRow /\ row.state = jobs[j].state /\ row.attempts = jobs[j].attempts
      /\ row.lease = jobs[j].lease /\ row.told = jobs[j].told /\ row.due
  BY <1>1 DEF TypeOK, JobRow
<1> HIDE DEF row
<1>3. /\ jobs' \in [Jobs -> JobRow] /\ jobs'[j] = row
      /\ \A i \in Jobs : i # j => jobs'[i] = jobs[i]
  BY <1>1, <1>2, RowWritten
<1>4. \A i \in Jobs :
        /\ jobs'[i].state = jobs[i].state /\ jobs'[i].attempts = jobs[i].attempts
        /\ jobs'[i].lease = jobs[i].lease /\ jobs'[i].told = jobs[i].told
        /\ jobs[i].due => jobs'[i].due
  BY <1>2, <1>3
<1>5. TypeOK' /\ Draining'
  BY <1>1, <1>3 DEF IInv, TypeOK, Draining
<1>6. NewJobs' /\ \A i \in Jobs : (Leased(i)' <=> Leased(i)) /\ (Claimable(i) => Claimable(i)')
  BY <1>4 DEF IInv, NewJobs, Leased, Claimable
<1>7. \A v \in Workers, i \in Jobs :
        /\ KeepsLease(v, i)' <=> KeepsLease(v, i)
        /\ Handles(v, i)' <=> Handles(v, i)
        /\ Claimed(v, i)' <=> Claimed(v, i)
        /\ Locks(v, i)' <=> Locks(v, i)
  BY <1>1 DEF KeepsLease, Handles, Claimed, Locks
<1>8. Kept' /\ LocksFit'
  BY <1>6, <1>7 DEF IInv, Kept, LocksFit
<1>9. Asleep'
  BY <1>1, <1>4 DEF IInv, Asleep, Locked
<1> QED
  BY <1>5, <1>6, <1>8, <1>9 DEF IInv

LEMMA ExpireLeaseStep ==
  ASSUME IInv, NEW j \in Jobs, ExpireLease(j)
  PROVE  IInv'
<1> DEFINE row == [jobs[j] EXCEPT !.lease = FALSE]
<1>1. /\ TypeOK /\ UNCHANGED <<workers, faults, stops>>
      /\ jobs' = [jobs EXCEPT ![j] = row]
      /\ jobs[j].state = "running" /\ \A v \in Workers : ~KeepsLease(v, j)
  BY DEF IInv, ExpireLease
<1>2. /\ row \in JobRow /\ row.state = jobs[j].state /\ row.attempts = jobs[j].attempts
      /\ row.due = jobs[j].due /\ row.told = jobs[j].told /\ ~row.lease
  BY <1>1 DEF TypeOK, JobRow
<1> HIDE DEF row
<1>3. /\ jobs' \in [Jobs -> JobRow] /\ jobs'[j] = row
      /\ \A i \in Jobs : i # j => jobs'[i] = jobs[i]
  BY <1>1, <1>2, RowWritten
<1>4. \A i \in Jobs :
        /\ jobs'[i].state = jobs[i].state /\ jobs'[i].attempts = jobs[i].attempts
        /\ jobs'[i].due = jobs[i].due /\ jobs'[i].told = jobs[i].told
        /\ jobs'[i].lease => jobs[i].lease
  BY <1>2, <1>3
<1>5. TypeOK' /\ Draining'
  BY <1>1, <1>3 DEF IInv, TypeOK, Draining
<1>6. NewJobs' /\ \A i \in Jobs : (i # j => (Leased(i)' <=> Leased(i))) /\ (Claimable(i) => Claimable(i)')
  BY <1>3, <1>4 DEF IInv, NewJobs, Leased, Claimable
<1>7. \A v \in Workers, i \in Jobs :
        /\ KeepsLease(v, i)' <=> KeepsLease(v, i)
        /\ Handles(v, i)' <=> Handles(v, i)
        /\ Claimed(v, i)' <=> Claimed(v, i)
        /\ Locks(v, i)' <=> Locks(v, i)
  BY <1>1 DEF KeepsLease, Handles, Claimed, Locks
<1>8. Kept' /\ LocksFit'
  BY <1>1, <1>6, <1>7 DEF IInv, Kept, LocksFit
<1>9. Asleep'
  BY <1>1, <1>4 DEF IInv, Asleep, Locked
<1> QED
  BY <1>5, <1>6, <1>8, <1>9 DEF IInv

LEMMA EnqueueStep ==
  ASSUME IInv, NEW j \in Jobs, Enqueue(j)
  PROVE  IInv'
<1> DEFINE listening == {w \in Workers : Running(w) /\ workers[w].ears}
           row == [jobs[j] EXCEPT !.state = "queued", !.told = listening]
<1>1. /\ TypeOK /\ UNCHANGED <<faults, stops>> /\ j \notin Enqueued
      /\ jobs' = [jobs EXCEPT ![j] = row]
      /\ workers' = [w \in Workers |->
           IF w \in listening THEN [workers[w] EXCEPT !.bells = workers[w].bells + 1]
           ELSE workers[w]]
  BY DEF IInv, Enqueue
<1>2. listening \subseteq Workers
  OBVIOUS
<1> HIDE DEF listening
<1>3. jobs[j].state = "none" /\ jobs[j].attempts = 0 /\ jobs[j].due
  BY <1>1 DEF Enqueued, IInv, NewJobs, TypeOK, JobRow
<1>4. /\ row \in JobRow /\ row.state = "queued" /\ row.attempts = 0 /\ row.due
      /\ row.told = listening
  BY <1>1, <1>2, <1>3 DEF TypeOK, JobRow
<1> HIDE DEF row
<1>5. /\ jobs' \in [Jobs -> JobRow] /\ jobs'[j] = row
      /\ \A i \in Jobs : i # j => jobs'[i] = jobs[i]
  BY <1>1, <1>4, RowWritten
<1>6. ASSUME NEW w \in Workers
      PROVE  /\ workers'[w] \in Worker /\ workers'[w].loop = workers[w].loop
             /\ workers'[w].got = workers[w].got
             /\ workers'[w].handling = workers[w].handling
             /\ workers'[w].killed = workers[w].killed
             /\ workers'[w].draining = workers[w].draining
             /\ workers'[w].woken = workers[w].woken
             /\ w \in listening => workers'[w].bells # 0
             /\ w \notin listening => workers'[w].bells = workers[w].bells
  <2> DEFINE b == workers[w].bells + 1
  <2>1. workers[w] \in Worker /\ b \in Nat /\ b # 0
    BY <1>1 DEF TypeOK, Worker
  <2>2. CASE w \in listening
    <3>1. workers'[w] = [workers[w] EXCEPT !.bells = b]
      BY <1>1, <2>2
    <3> HIDE DEF b
    <3> QED
      BY <2>1, <2>2, <3>1 DEF Worker
  <2>3. CASE w \notin listening
    BY <1>1, <2>1, <2>3
  <2> QED
    BY <2>2, <2>3
<1>7. TypeOK'
  <2>1. workers' \in [Workers -> Worker]
    BY <1>1, <1>6
  <2> QED
    BY <1>1, <1>5, <1>6, <2>1 DEF TypeOK
<1>8. Draining'
  BY <1>6 DEF IInv, Draining
<1>9. NewJobs'
  BY <1>4, <1>5 DEF IInv, NewJobs
<1>10. \A v \in Workers, i \in Jobs :
        /\ KeepsLease(v, i)' <=> KeepsLease(v, i)
        /\ Handles(v, i)' <=> Handles(v, i)
        /\ Claimed(v, i)' <=> Claimed(v, i)
        /\ Locks(v, i)' <=> Locks(v, i)
  BY <1>6 DEF KeepsLease, Handles, Claimed, Locks
<1>11. ~Leased(j) /\ ~Claimable(j)
  BY <1>3 DEF Leased, Claimable
<1>12. \A i \in Jobs : i # j => (Leased(i)' <=> Leased(i)) /\ (Claimable(i)' <=> Claimable(i))
  BY <1>5 DEF Leased, Claimable
<1>13. Kept' /\ LocksFit'
  BY <1>10, <1>11, <1>12 DEF IInv, Kept, LocksFit
<1>14. Asleep'
  <2> SUFFICES ASSUME NEW v \in Workers, NEW i \in Jobs,
                      workers'[v].bells = 0, v \in jobs'[i].told,
                      jobs'[i].state = "queued", jobs'[i].attempts = 0
               PROVE  /\ workers'[v].loop = "wait" => Locked(i)'
                      /\ workers'[v].loop = "empty" => Locked(i)' \/ workers'[v].woken
    BY DEF Asleep
  <2>1. v \notin listening /\ i # j
    BY <1>4, <1>5, <1>6
  <2>2. Locked(i) => Locked(i)'
    BY <1>10 DEF Locked, Locks
  <2> QED
    BY <1>5, <1>6, <2>1, <2>2 DEF IInv, Asleep
<1> QED
  BY <1>7, <1>8, <1>9, <1>13, <1>14 DEF IInv

-----------------------------------------------------------------------------
(* The theorems.                                                           *)

LEMMA Start == Init => IInv
<1> SUFFICES ASSUME Init
             PROVE  IInv
  OBVIOUS
<1>1. Off \in Worker /\ Absent \in JobRow
  BY DEF Off, Absent, Worker, LoopState, JobRow
<1>2. TypeOK
  BY <1>1, WorkerLoopAssumption DEF Init, TypeOK, WorkerLoopAssumption, Off
<1>3. NewJobs
  BY DEF Init, NewJobs, Absent
<1>4. Kept /\ LocksFit
  BY DEF Init, Kept, LocksFit, KeepsLease, Handles, Claimed, Locks, Off
<1>5. Asleep /\ Draining
  BY DEF Init, Asleep, Draining, Off
<1> QED
  BY <1>2, <1>3, <1>4, <1>5 DEF IInv

LEMMA Stutter == IInv /\ UNCHANGED vars => IInv'
BY DEF vars, IInv, TypeOK, NewJobs, Kept, LocksFit, Asleep, Draining, KeepsLease, Leased,
       Handles, Claimed, Locks, Claimable, Locked

LEMMA Step == IInv /\ [Next]_vars => IInv'
<1> SUFFICES ASSUME IInv, Next
             PROVE  IInv'
  BY Stutter
<1>1. ASSUME NEW j \in Jobs, Enqueue(j) \/ BecomeDue(j) \/ ExpireLease(j)
      PROVE  IInv'
  BY <1>1, EnqueueStep, BecomeDueStep, ExpireLeaseStep
<1>2. ASSUME NEW w \in Workers, Loop(w)
      PROVE  IInv'
  BY <1>2, BootStep, LockStep, ClaimStep, DispatchStep, WaitStep, TimeoutStep, ExitStep
     DEF Loop
<1>3. ASSUME NEW w \in Workers, Listen(w) \/ GoDeaf(w) \/ LoseBell(w) \/ Ring(w) \/ PullThrows(w)
      PROVE  IInv'
  BY <1>3, ListenStep, DeafStep, RingStep, PullThrowsStep
<1>4. ASSUME NEW w \in Workers, Stop(w) \/ Kill(w) \/ Die(w)
      PROVE  IInv'
  BY <1>4, StopStep, DieStep
<1>5. ASSUME NEW w \in Workers, NEW j \in Jobs, Finish(w, j) \/ FinishThrows(w, j)
      PROVE  IInv'
  BY <1>5, FinishStep, FinishThrowsStep
<1> QED
  BY <1>1, <1>2, <1>3, <1>4, <1>5 DEF Next

\* The inductive invariant holds.
THEOREM Invariant == Spec => []IInv
BY Start, Step, PTL DEF Spec

\* Every variable keeps its type.
THEOREM WorkersTypeCorrect == Spec => []TypeOK
<1>1. IInv => TypeOK
  BY DEF IInv
<1> QED
  BY <1>1, Invariant, PTL

\* However claims, lease expiries, drains, kills and failing settlements
\* interleave, two live handlers never run one job (worker.ts 194, queue.ts).
THEOREM JobsHaveOneHandler == Spec => []OneHandler
<1>1. IInv => OneHandler
  BY DEF IInv, Kept, OneHandler, KeepsLease
<1> QED
  BY <1>1, Invariant, PTL

\* No loop sleeps over a job whose NOTIFY has reached it (worker.ts, the wake
\* flag between pull and wait).
THEOREM NoWakeUpIsLost == Spec => []PromptPickup
<1>1. IInv => PromptPickup
  BY DEF IInv, Asleep, PromptPickup
<1> QED
  BY <1>1, Invariant, PTL

\* A draining loop is never found in its wait (worker.ts 196).
THEOREM DrainsArePrompt == Spec => []DrainIsPrompt
<1>1. IInv => DrainIsPrompt
  BY DEF IInv, Draining, DrainIsPrompt
<1> QED
  BY <1>1, Invariant, PTL

-----------------------------------------------------------------------------
(* Handlers: when one is added, and how many there can be.                 *)

HasRoom(x) == x.loop \in {"pull", "locked", "claimed"}
Full(x) == Cardinality(x.handling) >= Concurrency

\* How a process goes from x to y, as far as its handlers are concerned.
Takes(x, y) ==
  ~x.draining /\ x.loop = "claimed" /\ y.handling = x.handling \cup x.got

Tends(x, y) ==
  /\ y.handling \subseteq x.handling \/ Takes(x, y)
  /\ HasRoom(y) => (HasRoom(x) /\ y.handling \subseteq x.handling) \/ ~Full(y)

LEMMA AgainTends ==
  ASSUME NEW x \in Worker, NEW y \in Worker, SameBut(y, x) \/ Takes(x, y)
  PROVE  Tends(x, Again(y))
<1>1. Again(y).handling = y.handling /\ (HasRoom(Again(y)) => ~Full(y))
  <2>1. Again(y).handling = y.handling
    BY AgainIs DEF SameBut
  <2>2. ASSUME Full(y) PROVE ~HasRoom(Again(y))
    BY <2>2 DEF Again, Full, HasRoom, Worker
  <2> QED
    BY <2>1, <2>2
<1>2. y.handling \subseteq x.handling \/ Takes(x, Again(y))
  BY <1>1 DEF SameBut, Takes
<1> QED
  BY <1>1, <1>2 DEF Tends, Full

LEMMA SignalledTends ==
  ASSUME NEW x \in Worker, NEW y \in Worker,
         y.handling = x.handling, y.loop = x.loop, y.got = x.got
  PROVE  /\ Signalled(y).handling = x.handling
         /\ HasRoom(Signalled(y)) => HasRoom(x) \/ ~Full(x)
<1>1. CASE y.loop = "wait"
  <2> DEFINE z == [y EXCEPT !.woken = FALSE]
  <2>1. z \in Worker /\ SameBut(z, z) /\ z.handling = x.handling /\ z.loop = "wait"
    BY <1>1 DEF Worker, SameBut
  <2>2. Signalled(y) = Again(z)
    BY <1>1 DEF Signalled
  <2> HIDE DEF z
  <2>3. Tends(z, Again(z)) /\ Again(z).handling = z.handling
    BY <2>1, AgainTends, AgainIs DEF SameBut
  <2> QED
    BY <2>1, <2>2, <2>3 DEF Tends, HasRoom, Full
<1>2. CASE y.loop # "wait"
  BY <1>2, SignalledIs DEF SameBut, HasRoom
<1> QED
  BY <1>1, <1>2

LEMMA OthersTend ==
  ASSUME TypeOK, NEW v \in Workers, NEW w \in Workers, NEW x \in Worker, Changes(w, x),
         Tends(workers[w], x)
  PROVE  Tends(workers[v], workers'[v])
<1>1. CASE v = w
  BY <1>1, Alone
<1>2. CASE v # w
  BY <1>2, Alone DEF Tends
<1> QED
  BY <1>1, <1>2

LEMMA AllTend ==
  ASSUME IInv, Next, NEW v \in Workers
  PROVE  Tends(workers[v], workers'[v])
<1> USE DEF IInv
<1>1. ASSUME UNCHANGED workers PROVE Tends(workers[v], workers'[v])
  BY <1>1 DEF Tends
<1>2. ASSUME NEW j \in Jobs, Enqueue(j) PROVE Tends(workers[v], workers'[v])
  <2>1. \/ workers'[v] = workers[v]
        \/ workers'[v] = [workers[v] EXCEPT !.bells = workers[v].bells + 1]
    BY <1>2 DEF Enqueue
  <2>2. workers'[v].handling = workers[v].handling /\ workers'[v].loop = workers[v].loop
    BY <2>1, ProcessType DEF Worker
  <2> QED
    BY <2>2 DEF Tends, HasRoom
<1>3. ASSUME NEW w \in Workers, NEW x \in Worker, Changes(w, x),
             x.handling \subseteq workers[w].handling, HasRoom(x) => HasRoom(workers[w])
      PROVE  Tends(workers[v], workers'[v])
  BY <1>3, OthersTend DEF Tends
<1>4. ASSUME NEW w \in Workers, Boot(w) \/ Timeout(w)
      PROVE  Tends(workers[v], workers'[v])
  <2>1. workers[w] \in Worker /\ Changes(w, Again(workers[w]))
    BY <1>4, ProcessType DEF Boot, Timeout, Changes
  <2> QED
    BY <2>1, AgainIs, AgainTends, OthersTend DEF SameBut
<1>5. ASSUME NEW w \in Workers, Lock(w)
      PROVE  Tends(workers[v], workers'[v])
  <2>1. PICK x : /\ Changes(w, x) /\ x \in Worker /\ x.handling = workers[w].handling
    <3>1. CASE workers' = [workers EXCEPT ![w].loop = "empty"]
      <4>1. LET x == [workers[w] EXCEPT !.loop = "empty"]
            IN  Changes(w, x) /\ x \in Worker /\ x.handling = workers[w].handling
        BY <3>1, ProcessType DEF Changes, Worker, LoopState
      <4> QED
        BY <4>1
    <3>2. CASE \E j \in Jobs : workers' = [workers EXCEPT ![w].loop = "locked", ![w].got = {j}]
      <4>1. PICK j \in Jobs : workers' = [workers EXCEPT ![w].loop = "locked", ![w].got = {j}]
        BY <3>2
      <4>2. LET x == [workers[w] EXCEPT !.loop = "locked", !.got = {j}]
            IN  Changes(w, x) /\ x \in Worker /\ x.handling = workers[w].handling
        BY <4>1, ProcessType DEF Changes, Worker, LoopState
      <4> QED
        BY <4>2
    <3> QED
      BY <1>5, <3>1, <3>2 DEF Lock
  <2>2. HasRoom(workers[w])
    BY <1>5 DEF Lock, HasRoom
  <2> QED
    BY <1>3, <2>1, <2>2
<1>6. ASSUME NEW w \in Workers, Claim(w)
      PROVE  Tends(workers[v], workers'[v])
  <2> DEFINE x == [workers[w] EXCEPT !.loop = "claimed"]
  <2>1. x \in Worker /\ x.handling = workers[w].handling
    BY ProcessType DEF Worker, LoopState
  <2>2. Changes(w, x) /\ HasRoom(workers[w])
    BY <1>6 DEF Claim, Changes, HasRoom
  <2> HIDE DEF x
  <2> QED
    BY <1>3, <2>1, <2>2
<1>7. ASSUME NEW w \in Workers, PullThrows(w)
      PROVE  Tends(workers[v], workers'[v])
  <2> DEFINE x == [workers[w] EXCEPT !.loop = "nap", !.got = {}]
  <2>1. x \in Worker /\ x.handling = workers[w].handling /\ ~HasRoom(x)
    BY ProcessType DEF Worker, LoopState, HasRoom
  <2>2. Changes(w, x)
    BY <1>7 DEF PullThrows, Changes
  <2> HIDE DEF x
  <2> QED
    BY <1>3, <2>1, <2>2
<1>8. ASSUME NEW w \in Workers, Dispatch(w)
      PROVE  Tends(workers[v], workers'[v])
  <2>1. CASE workers[w].draining
    <3> DEFINE x == [workers[w] EXCEPT !.loop = "done", !.got = {}]
    <3>1. x \in Worker /\ x.handling = workers[w].handling /\ ~HasRoom(x)
      BY ProcessType DEF Worker, LoopState, HasRoom
    <3>2. Changes(w, x)
      BY <1>8, <2>1 DEF Dispatch, Changes
    <3> HIDE DEF x
    <3> QED
      BY <1>3, <3>1, <3>2
  <2>2. CASE ~workers[w].draining
    <3> DEFINE y == [workers[w] EXCEPT !.got = {},
                                       !.handling = workers[w].handling \cup workers[w].got]
    <3>1. y \in Worker /\ y.handling = workers[w].handling \cup workers[w].got
      BY ProcessType DEF Worker
    <3>2. Changes(w, Again(y)) /\ workers[w].loop = "claimed"
      BY <1>8, <2>2 DEF Dispatch, Changes
    <3> HIDE DEF y
    <3>3. Takes(workers[w], y)
      BY <2>2, <3>1, <3>2 DEF Takes
    <3> QED
      BY <3>1, <3>2, <3>3, ProcessType, AgainIs, AgainTends, OthersTend
  <2> QED
    BY <2>1, <2>2
<1>9. ASSUME NEW w \in Workers, Wait(w)
      PROVE  Tends(workers[v], workers'[v])
  <2>1. CASE workers[w].woken
    <3> DEFINE y == [workers[w] EXCEPT !.woken = FALSE]
    <3>1. y \in Worker /\ SameBut(y, workers[w])
      BY ProcessType DEF Worker, SameBut
    <3>2. Changes(w, Again(y))
      BY <1>9, <2>1 DEF Wait, Changes
    <3> HIDE DEF y
    <3> QED
      BY <3>1, <3>2, ProcessType, AgainIs, AgainTends, OthersTend
  <2>2. CASE ~workers[w].woken
    <3> DEFINE x == [workers[w] EXCEPT !.loop = "wait"]
    <3>1. x \in Worker /\ x.handling = workers[w].handling /\ ~HasRoom(x)
      BY ProcessType DEF Worker, LoopState, HasRoom
    <3>2. Changes(w, x)
      BY <1>9, <2>2 DEF Wait, Changes
    <3> HIDE DEF x
    <3> QED
      BY <1>3, <3>1, <3>2
  <2> QED
    BY <2>1, <2>2
<1>10. ASSUME NEW w \in Workers, Exit(w) \/ Die(w)
       PROVE  Tends(workers[v], workers'[v])
  <2> DEFINE gone == [Off EXCEPT !.loop = "gone"]
  <2>1. gone \in Worker /\ gone.handling = {} /\ gone.loop = "gone"
    BY GoneType
  <2>2. Changes(w, gone)
    BY <1>10 DEF Exit, Die, Changes
  <2> HIDE DEF gone
  <2>3. gone.handling \subseteq workers[w].handling /\ ~HasRoom(gone)
    BY <2>1 DEF HasRoom
  <2> QED
    BY <1>3, <2>1, <2>2, <2>3
<1>11. ASSUME NEW w \in Workers, Listen(w)
       PROVE  Tends(workers[v], workers'[v])
  <2> DEFINE x == [workers[w] EXCEPT !.ears = TRUE]
  <2>1. x \in Worker /\ x.handling = workers[w].handling /\ x.loop = workers[w].loop
    BY ProcessType DEF Worker
  <2>2. Changes(w, x)
    BY <1>11 DEF Listen, Changes
  <2> HIDE DEF x
  <2> QED
    BY <1>3, <2>1, <2>2 DEF HasRoom
<1>12. ASSUME NEW w \in Workers, GoDeaf(w)
       PROVE  Tends(workers[v], workers'[v])
  <2> DEFINE x == [workers[w] EXCEPT !.ears = FALSE, !.bells = 0]
  <2>1. x \in Worker /\ x.handling = workers[w].handling /\ x.loop = workers[w].loop
    BY ProcessType DEF Worker
  <2>2. Changes(w, x)
    BY <1>12 DEF GoDeaf, Changes
  <2> HIDE DEF x
  <2> QED
    BY <1>3, <2>1, <2>2 DEF HasRoom
<1>13. ASSUME NEW w \in Workers, LoseBell(w)
       PROVE  Tends(workers[v], workers'[v])
  <2> DEFINE x == [workers[w] EXCEPT !.bells = workers[w].bells - 1]
  <2>0. workers[w].bells - 1 \in Nat
    BY <1>13, ProcessType DEF LoseBell, Worker
  <2>1. x \in Worker /\ x.handling = workers[w].handling /\ x.loop = workers[w].loop
    BY <2>0, ProcessType, BellsSet
  <2>2. Changes(w, x)
    BY <1>13 DEF LoseBell, Changes
  <2> HIDE DEF x
  <2> QED
    BY <1>3, <2>1, <2>2 DEF HasRoom
<1>14. ASSUME NEW w \in Workers, Ring(w)
       PROVE  Tends(workers[v], workers'[v])
  <2> DEFINE y == Signalled(workers[w])
             b == workers[w].bells - 1
             x == [y EXCEPT !.bells = b]
  <2>1. /\ y \in Worker /\ b \in Nat /\ y.handling = workers[w].handling
        /\ HasRoom(y) => HasRoom(workers[w]) \/ ~Full(workers[w])
    BY <1>14, ProcessType, SignalledIs, SignalledTends DEF Ring, Worker
  <2>2. Changes(w, x)
    BY <1>14 DEF Ring, Changes
  <2> HIDE DEF y, b
  <2>3. x \in Worker /\ x.handling = y.handling /\ x.loop = y.loop
    BY <2>1, BellsSet
  <2> HIDE DEF x
  <2>4. Tends(workers[w], x)
    BY <2>1, <2>3 DEF Tends, HasRoom, Full
  <2> QED
    BY <2>2, <2>3, <2>4, OthersTend
<1>15. ASSUME NEW w \in Workers, Stop(w) \/ Kill(w)
       PROVE  Tends(workers[v], workers'[v])
  <2> DEFINE y == [workers[w] EXCEPT !.draining = TRUE]
             z == [workers[w] EXCEPT !.draining = TRUE, !.killed = TRUE]
  <2>1. /\ y \in Worker /\ y.loop = workers[w].loop /\ y.got = workers[w].got
        /\ y.handling = workers[w].handling
    BY ProcessType DEF Worker
  <2>2. /\ z \in Worker /\ z.loop = workers[w].loop /\ z.got = workers[w].got
        /\ z.handling = workers[w].handling
    BY ProcessType DEF Worker
  <2>3. Changes(w, Signalled(y)) \/ Changes(w, Signalled(z))
    BY <1>15 DEF Stop, Kill, Changes
  <2> HIDE DEF y, z
  <2>4. /\ Signalled(y) \in Worker /\ Signalled(y).handling = workers[w].handling
        /\ HasRoom(Signalled(y)) => HasRoom(workers[w]) \/ ~Full(workers[w])
    BY <2>1, ProcessType, SignalledIs, SignalledTends
  <2>5. /\ Signalled(z) \in Worker /\ Signalled(z).handling = workers[w].handling
        /\ HasRoom(Signalled(z)) => HasRoom(workers[w]) \/ ~Full(workers[w])
    BY <2>2, ProcessType, SignalledIs, SignalledTends
  <2>6. Tends(workers[w], Signalled(y)) /\ Tends(workers[w], Signalled(z))
    BY <2>4, <2>5 DEF Tends, Full
  <2> QED
    BY <2>3, <2>4, <2>5, <2>6, OthersTend
<1>16. ASSUME NEW w \in Workers, NEW j \in Jobs, Finish(w, j) \/ FinishThrows(w, j)
       PROVE  Tends(workers[v], workers'[v])
  <2> DEFINE x == [workers[w] EXCEPT !.handling = workers[w].handling \ {j}]
  <2>1. /\ x \in Worker /\ x.handling \subseteq workers[w].handling
        /\ x.loop = workers[w].loop
    BY ProcessType DEF Worker
  <2>2. Changes(w, x)
    BY <1>16 DEF Finish, FinishThrows, Changes
  <2> HIDE DEF x
  <2> QED
    BY <1>3, <2>1, <2>2 DEF HasRoom
<1>17. ASSUME NEW j \in Jobs, BecomeDue(j) \/ ExpireLease(j)
       PROVE  Tends(workers[v], workers'[v])
  BY <1>1, <1>17 DEF BecomeDue, ExpireLease
<1>18. ASSUME NEW w \in Workers, Loop(w)
       PROVE  Tends(workers[v], workers'[v])
  BY <1>4, <1>5, <1>6, <1>8, <1>9, <1>10, <1>18 DEF Loop
<1> QED
  BY <1>2, <1>7, <1>10, <1>11, <1>12, <1>13, <1>14, <1>15, <1>16, <1>17, <1>18 DEF Next

\* Nothing is dispatched behind the signal to stop, not even the job of a claim
\* that was under way (worker.ts 186-198).
THEOREM NothingAfterStop == Spec => NoWorkAfterStop
<1>1. IInv /\ [Next]_vars => [TakesNothing]_vars
  <2> SUFFICES ASSUME IInv, Next
               PROVE  TakesNothing
    BY DEF vars
  <2> QED
    BY AllTend DEF TakesNothing, Tends, Takes
<1> QED
  BY <1>1, Invariant, PTL DEF Spec, NoWorkAfterStop

\* A process never has more handlers than it may, and room for one more while
\* it asks for a job.
Capacity ==
  \A w \in Workers :
    /\ IsFiniteSet(workers[w].handling) /\ Cardinality(workers[w].handling) <= Concurrency
    /\ HasRoom(workers[w]) => ~Full(workers[w])

LEMMA CapacityStep == IInv /\ Capacity /\ [Next]_vars => Capacity'
<1>1. IInv /\ Capacity /\ UNCHANGED vars => Capacity'
  BY DEF vars, Capacity
<1> SUFFICES ASSUME IInv, Capacity, Next, NEW w \in Workers
             PROVE  /\ IsFiniteSet(workers'[w].handling)
                    /\ Cardinality(workers'[w].handling) <= Concurrency
                    /\ HasRoom(workers'[w]) => ~Full(workers'[w])
  BY <1>1 DEF Capacity, HasRoom, Full
<1> DEFINE S == workers[w].handling
           T == workers'[w].handling
<1>2. IsFiniteSet(S) /\ Cardinality(S) \in Nat /\ Cardinality(S) <= Concurrency
  BY FS_CardinalityType DEF Capacity
<1>3. Tends(workers[w], workers'[w])
  BY AllTend
<1>4. CASE T \subseteq S
  <2>1. IsFiniteSet(T) /\ Cardinality(T) <= Cardinality(S) /\ Cardinality(T) \in Nat
    BY <1>2, <1>4, FS_Subset, FS_CardinalityType
  <2>2. Cardinality(T) <= Concurrency
    BY <1>2, <2>1, WorkerLoopAssumption DEF WorkerLoopAssumption
  <2>3. Full(workers'[w]) => Full(workers[w])
    BY <1>2, <2>1, WorkerLoopAssumption DEF Full, WorkerLoopAssumption
  <2> QED
    BY <1>3, <2>1, <2>2, <2>3 DEF Tends, Capacity
<1>5. CASE ~(T \subseteq S)
  <2>1. /\ workers[w].loop = "claimed" /\ T = S \cup workers[w].got
        /\ HasRoom(workers'[w]) => ~Full(workers'[w])
    BY <1>3, <1>5 DEF Tends, Takes
  <2>2. PICK j \in workers[w].got : T = S \cup {j}
    BY <1>5, <2>1 DEF IInv, TypeOK
  <2>3. IsFiniteSet(T) /\ Cardinality(T) <= Cardinality(S) + 1
    <3> HIDE DEF S, T
    <3>1. /\ IsFiniteSet(S \cup {j})
          /\ Cardinality(S \cup {j}) = IF j \in S THEN Cardinality(S) ELSE Cardinality(S) + 1
      BY <1>2, FS_AddElement
    <3> QED
      BY <1>2, <2>2, <3>1
  <2>4. ~Full(workers[w])
    BY <2>1 DEF Capacity, HasRoom
  <2>5. Cardinality(S) < Concurrency
    BY <1>2, <2>4, WorkerLoopAssumption DEF Full, WorkerLoopAssumption
  <2>6. Cardinality(T) \in Nat
    BY <2>3, FS_CardinalityType
  <2>7. Cardinality(T) <= Concurrency
    BY <1>2, <2>3, <2>5, <2>6, WorkerLoopAssumption DEF WorkerLoopAssumption
  <2> QED
    BY <2>1, <2>3, <2>7
<1> QED
  BY <1>4, <1>5

\* FUNKY_WORKER_CONCURRENCY bounds handlers and claims under way together.
THEOREM ConcurrencyIsRespected == Spec => []ConcurrencyRespected
<1>1. Init => Capacity
  BY FS_EmptySet, WorkerLoopAssumption
     DEF Init, Capacity, Off, HasRoom, WorkerLoopAssumption
<1>2. Capacity => ConcurrencyRespected
  <2> SUFFICES ASSUME Capacity, NEW w \in Workers
               PROVE  Cardinality(workers[w].handling)
                        + (IF workers[w].loop \in {"locked", "claimed"} THEN 1 ELSE 0)
                      <= Concurrency
    BY DEF ConcurrencyRespected
  <2>1. Cardinality(workers[w].handling) \in Nat
    BY FS_CardinalityType DEF Capacity
  <2> QED
    BY <2>1, WorkerLoopAssumption DEF Capacity, HasRoom, Full, WorkerLoopAssumption
<1> QED
  BY <1>1, <1>2, CapacityStep, Invariant, PTL DEF Spec
=============================================================================
