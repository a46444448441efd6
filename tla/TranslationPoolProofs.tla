----------------------- MODULE TranslationPoolProofs -----------------------
(***************************************************************************)
(* Proofs about TranslationPool for every set of jobs and threads, every   *)
(* pool size and every number of crashes: its safety properties, and that  *)
(* it implements TaskService.                                              *)
(***************************************************************************)
EXTENDS TranslationPool, FiniteSetTheorems, SequenceTheorems, TLAPS

(* The jobs of a sequence, and that it holds each once. *)
Elems(s) == {s[i] : i \in 1..Len(s)}
Distinct(s) == \A i, j \in 1..Len(s) : s[i] = s[j] => i = j

(***************************************************************************)
(* The inductive invariant. Core relates the slots, what they hold, the    *)
(* queue, what the threads were given and answered, and the promises. Its  *)
(* arguments are the parts a handler has changed by the time it calls      *)
(* drain, so that one lemma about drain serves every handler.              *)
(***************************************************************************)
Core(slots, holds, q, gave, out, ans, box) ==
  /\ Distinct(q)
  /\ \A t \in Elems(q) : out[t] # "new" /\ \A w \in Thread : t \notin gave[w]
  /\ \A w \in Thread : holds[w] # NoTask => holds[w] \in gave[w]
  /\ \A w \in Thread : \A t \in gave[w] : ans[t] = "none" => holds[w] = t
  /\ \A w \in Thread, t \in Task : <<w, t>> \in box =>
       t \in gave[w] /\ ans[t] # "none" /\ holds[w] = t
  /\ \A v, w \in Thread : \A t \in gave[v] : t \in gave[w] => v = w
  /\ \A w \in Thread : \A t \in gave[w] : out[t] # "new"
  /\ \A t \in Task : out[t] = "waiting" => t \in Elems(q) \/ \E w \in slots : holds[w] = t

CoreInv == Core(workers, taskId, queue, given, outcome, answer, inbox)

(* A thread not yet spawned has no slot and no history, and a slot outlives  *)
(* its thread only during a shutdown.                                        *)
LifeInv ==
  /\ \A w \in Fresh : w \notin workers /\ taskId[w] = NoTask /\ given[w] = {}
  /\ \A w \in workers : phase[w] \in {"exit", "gone"} => draining
  /\ ~draining => terminating = {}
  /\ draining => queue = <<>> /\ pending = {}
  /\ ~started => queue = <<>> /\ workers = {}
  /\ ~started /\ ~draining => Fresh = Thread

(* this.pending holds exactly the jobs whose promise waits. *)
PendingInv == pending = {t \in Task : outcome[t] = "waiting"}

Inv == TypeOK /\ CoreInv /\ LifeInv /\ PendingInv /\ WorkConserving

-----------------------------------------------------------------------------
(***************************************************************************)
(* What drain() leaves behind.                                             *)
(***************************************************************************)

(* Slot w received a job from the queue `waiting`, which no longer holds it. *)
Received(w, slots, holds, waiting) ==
  /\ w \in slots /\ holds[w] = NoTask
  /\ taskId'[w] \in Elems(waiting) /\ taskId'[w] \notin Elems(queue')
  /\ given'[w] = given[w] \cup {taskId'[w]}

Kept(w, holds) == taskId'[w] = holds[w] /\ given'[w] = given[w]

Drained(slots, holds, waiting) ==
  /\ queue' \in Seq(Task) /\ Distinct(queue') /\ Elems(queue') \subseteq Elems(waiting)
  /\ taskId' \in [Thread -> Task \cup {NoTask}]
  /\ given' \in [Thread -> SUBSET Task]
  /\ \A w \in Thread : Kept(w, holds) \/ Received(w, slots, holds, waiting)
  /\ \A v, w \in Thread :
       taskId'[v] = taskId'[w] /\ ~Kept(v, holds) /\ ~Kept(w, holds) => v = w
  /\ \A t \in Elems(waiting) :
       t \in Elems(queue') \/ \E w \in slots : taskId'[w] = t /\ holds[w] = NoTask
  /\ queue' # <<>> => Idle(slots, taskId') = {}

(* drain(), called with any slots, jobs and queue of distinct jobs, moves a  *)
(* prefix of the queue into idle slots one to one, and stops only when the   *)
(* queue is empty or no slot is idle.                                        *)
LEMMA DrainLemma ==
  ASSUME NEW slots \in SUBSET Thread,
         NEW holds \in [Thread -> Task \cup {NoTask}],
         NEW waiting \in Seq(Task),
         Distinct(waiting),
         given \in [Thread -> SUBSET Task],
         Drain(slots, holds, waiting)
  PROVE  Drained(slots, holds, waiting)
<1>0. PICK n \in 0..Len(waiting), taken \in SUBSET Idle(slots, holds) :
        \E seat \in Bijection(taken, 1..n) :
          /\ n = Len(waiting) \/ taken = Idle(slots, holds)
          /\ Assign(taken, seat, holds, waiting, n)
  BY DEF Drain
<1>1. PICK seat \in Bijection(taken, 1..n) :
        /\ n = Len(waiting) \/ taken = Idle(slots, holds)
        /\ Assign(taken, seat, holds, waiting, n)
  BY <1>0
<1>2. seat \in [taken -> 1..n]
      /\ (\A a, b \in taken : seat[a] = seat[b] => a = b)
      /\ (\A i \in 1..n : \E a \in taken : seat[a] = i)
  BY DEF Bijection, Injection, Surjection, IsInjective
<1>3. taken \subseteq slots /\ taken \subseteq Thread /\ \A w \in taken : holds[w] = NoTask
  BY DEF Idle
<1>4. Len(waiting) \in Nat /\ n \in Nat /\ \A i \in 1..Len(waiting) : waiting[i] \in Task
  OBVIOUS
<1>5. /\ queue' = SubSeq(waiting, n + 1, Len(waiting))
      /\ \A w \in Thread : taskId'[w] = IF w \in taken THEN waiting[seat[w]] ELSE holds[w]
      /\ \A w \in Thread : given'[w] =
           IF w \in taken THEN given[w] \cup {waiting[seat[w]]} ELSE given[w]
  BY <1>1 DEF Assign
<1>6. /\ queue' \in Seq(Task) /\ Len(queue') = Len(waiting) - n
      /\ \A i \in 1..Len(queue') : queue'[i] = waiting[i + n]
  BY <1>4, <1>5
<1>7. \A w \in taken : seat[w] \in 1..Len(waiting) /\ waiting[seat[w]] \notin Elems(queue')
  BY <1>2, <1>4, <1>6 DEF Elems, Distinct
<1>8. Distinct(queue') /\ Elems(queue') \subseteq Elems(waiting)
  <2>1. \A i \in 1..Len(queue') : i + n \in 1..Len(waiting)
    BY <1>4, <1>6
  <2>2. ASSUME NEW i \in 1..Len(queue'), NEW j \in 1..Len(queue'), queue'[i] = queue'[j]
        PROVE  i = j
    <3>1. waiting[i + n] = waiting[j + n]
      BY <1>6, <2>2
    <3>2. i + n = j + n
      BY <2>1, <3>1 DEF Distinct
    <3>3. QED
      BY <1>4, <3>2
  <2>3. Distinct(queue')
    BY <2>2 DEF Distinct
  <2>4. ASSUME NEW i \in 1..Len(queue')
        PROVE  queue'[i] \in Elems(waiting)
    BY <1>6, <2>1 DEF Elems
  <2>5. Elems(queue') \subseteq Elems(waiting)
    BY <2>4 DEF Elems
  <2>6. QED
    BY <2>3, <2>5
<1>9. taskId' \in [Thread -> Task \cup {NoTask}] /\ given' \in [Thread -> SUBSET Task]
  BY <1>1, <1>2, <1>3, <1>4, <1>7 DEF Assign
<1>10. \A w \in Thread : Kept(w, holds) \/ Received(w, slots, holds, waiting)
  BY <1>3, <1>5, <1>7 DEF Kept, Received, Elems
<1>11. ASSUME NEW v \in Thread, NEW w \in Thread,
              taskId'[v] = taskId'[w], ~Kept(v, holds), ~Kept(w, holds)
       PROVE  v = w
  <2>1. v \in taken /\ w \in taken
    BY <1>5, <1>11 DEF Kept
  <2>2. waiting[seat[v]] = waiting[seat[w]]
    BY <1>5, <1>11, <2>1
  <2>3. seat[v] = seat[w]
    BY <1>7, <2>1, <2>2 DEF Distinct
  <2>4. QED
    BY <1>2, <2>1, <2>3
<1>12. ASSUME NEW t \in Elems(waiting), t \notin Elems(queue')
       PROVE  \E w \in slots : taskId'[w] = t /\ holds[w] = NoTask
  <2>1. PICK i \in 1..Len(waiting) : waiting[i] = t
    BY DEF Elems
  <2>2. i \in 1..n
    <3>1. SUFFICES ASSUME i > n PROVE FALSE
      BY <1>4
    <3>2. i - n \in 1..Len(queue') /\ queue'[i - n] = t
      BY <1>4, <1>6, <2>1, <3>1
    <3>3. QED
      BY <1>12, <3>2 DEF Elems
  <2>3. PICK w \in taken : seat[w] = i
    BY <1>2, <2>2
  <2>4. QED
    BY <1>3, <1>5, <2>1, <2>3
<1>13. ASSUME queue' # <<>> PROVE Idle(slots, taskId') = {}
  <2>1. n # Len(waiting)
    BY <1>4, <1>6, <1>13
  <2>2. taken = Idle(slots, holds)
    BY <1>1, <2>1
  <2>3. \A w \in taken : taskId'[w] # NoTask
    BY <1>3, <1>4, <1>5, <1>7, TaskAssumption
  <2>4. QED
    BY <1>3, <1>5, <2>2, <2>3 DEF Idle
<1>14. QED
  BY <1>6, <1>8, <1>9, <1>10, <1>11, <1>12, <1>13 DEF Drained

(* drain() preserves Core, whatever the handler changed before it called it. *)
LEMMA DrainCore ==
  ASSUME NEW slots \in SUBSET Thread,
         NEW holds \in [Thread -> Task \cup {NoTask}],
         NEW waiting \in Seq(Task),
         NEW out, NEW box,
         given \in [Thread -> SUBSET Task],
         Core(slots, holds, waiting, given, out, answer, box),
         Drain(slots, holds, waiting)
  PROVE  /\ Core(slots, taskId', queue', given', out, answer, box)
         /\ Drained(slots, holds, waiting)
<1>1. Drained(slots, holds, waiting)
  BY DrainLemma DEF Core
<1>2. Elems(waiting) \subseteq Task
  BY DEF Elems
<1>3. \A w \in Thread : Kept(w, holds) \/ Received(w, slots, holds, waiting)
  BY <1>1 DEF Drained
<1>4. ASSUME NEW w \in Thread, ~Kept(w, holds)
      PROVE  /\ w \in slots /\ holds[w] = NoTask
             /\ taskId'[w] \in Task /\ taskId'[w] \in Elems(waiting)
             /\ given'[w] = given[w] \cup {taskId'[w]}
             /\ \A t \in given[w] : answer[t] # "none"
             /\ \A t \in Task : <<w, t>> \notin box
  <2>1. Received(w, slots, holds, waiting)
    BY <1>3, <1>4
  <2>2. \A t \in given[w] : t # NoTask
    BY TaskAssumption
  <2>3. QED
    BY <1>2, <2>1, <2>2, TaskAssumption DEF Received, Core
<1>5. Distinct(queue') /\ Elems(queue') \subseteq Elems(waiting)
  BY <1>1 DEF Drained
<1>6. ASSUME NEW t \in Elems(queue')
      PROVE  out[t] # "new" /\ \A w \in Thread : t \notin given'[w]
  <2>1. t \in Elems(waiting)
    BY <1>5
  <2>2. ASSUME NEW w \in Thread PROVE t \notin given'[w]
    BY <1>3, <2>1 DEF Core, Kept, Received
  <2>3. QED
    BY <2>1, <2>2 DEF Core
<1>7. \A w \in Thread : taskId'[w] # NoTask => taskId'[w] \in given'[w]
  BY <1>3, <1>4 DEF Core, Kept
<1>8. ASSUME NEW w \in Thread, NEW t \in given'[w], answer[t] = "none"
      PROVE  taskId'[w] = t
  <2>1. CASE Kept(w, holds)
    BY <1>8, <2>1 DEF Core, Kept
  <2>2. CASE ~Kept(w, holds)
    BY <1>4, <1>8, <2>2
  <2>3. QED
    BY <2>1, <2>2
<1>9. \A w \in Thread, t \in Task : <<w, t>> \in box =>
        t \in given'[w] /\ answer[t] # "none" /\ taskId'[w] = t
  BY <1>3, <1>4 DEF Core, Kept
<1>10. ASSUME NEW v \in Thread, NEW w \in Thread, NEW t \in given'[v], t \in given'[w]
       PROVE  v = w
  <2>1. ASSUME NEW u \in Thread, t \in given'[u]
        PROVE  t \in given[u] \/ (~Kept(u, holds) /\ taskId'[u] = t /\ t \in Elems(waiting))
    BY <1>4, <2>1 DEF Kept
  <2>2. t \in Elems(waiting) => t \notin given[v] /\ t \notin given[w]
    BY DEF Core
  <2>3. CASE t \in Elems(waiting)
    <3>1. taskId'[v] = taskId'[w] /\ ~Kept(v, holds) /\ ~Kept(w, holds)
      BY <1>10, <2>1, <2>2, <2>3
    <3>2. QED
      BY <1>1, <3>1 DEF Drained
  <2>4. CASE t \notin Elems(waiting)
    BY <1>10, <2>1, <2>4 DEF Core
  <2>5. QED
    BY <2>3, <2>4
<1>11. \A w \in Thread : \A t \in given'[w] : out[t] # "new"
  BY <1>3, <1>4 DEF Core, Kept
<1>12. ASSUME NEW t \in Task, out[t] = "waiting"
       PROVE  t \in Elems(queue') \/ \E w \in slots : taskId'[w] = t
  <2>1. CASE t \in Elems(waiting)
    BY <1>1, <2>1 DEF Drained
  <2>2. CASE \E w \in slots : holds[w] = t
    BY <1>3, <1>4, <2>2, TaskAssumption DEF Kept
  <2>3. QED
    BY <1>12, <2>1, <2>2 DEF Core
<1>13. QED
  BY <1>1, <1>5, <1>6, <1>7, <1>8, <1>9, <1>10, <1>11, <1>12 DEF Core

-----------------------------------------------------------------------------
(***************************************************************************)
(* The invariant holds initially and every step preserves it.              *)
(***************************************************************************)

(* The pool as pool.js creates it satisfies the invariant.                   *)
LEMMA InitInv == Init => Inv
<1> SUFFICES ASSUME Init PROVE Inv
  OBVIOUS
<1>1. TypeOK
  <2>1. queue \in Seq(Task)
    BY DEF Init
  <2>2. outcome \in [Task -> Service!Outcome] /\ answer \in [Task -> Service!Answer]
    BY DEF Init, Service!Outcome, Service!Answer
  <2>3. phase \in [Thread -> Phase] /\ taskId \in [Thread -> Task \cup {NoTask}]
        /\ given \in [Thread -> SUBSET Task]
    BY DEF Init, Phase
  <2>4. QED
    BY <2>1, <2>2, <2>3 DEF Init, TypeOK
<1>2. Len(queue) = 0 /\ Elems(queue) = {} /\ queue = <<>>
  BY DEF Init, Elems
<1>3. CoreInv
  BY <1>2 DEF Init, CoreInv, Core, Distinct
<1>4. LifeInv /\ PendingInv /\ WorkConserving
  BY <1>2 DEF Init, LifeInv, Fresh, PendingInv, WorkConserving
<1>5. QED
  BY <1>1, <1>3, <1>4 DEF Inv

(* What every handler that ends in drain() has to show: the state it leaves  *)
(* to drain satisfies Core and is well typed.                                *)
LEMMA DrainStep ==
  ASSUME Inv,
         workers' \in SUBSET Thread,
         NEW holds \in [Thread -> Task \cup {NoTask}],
         NEW waiting \in Seq(Task),
         Core(workers', holds, waiting, given, outcome', answer, inbox'),
         answer' = answer,
         Drain(workers', holds, waiting)
  PROVE  /\ CoreInv' /\ WorkConserving'
         /\ queue' \in Seq(Task)
         /\ taskId' \in [Thread -> Task \cup {NoTask}]
         /\ given' \in [Thread -> SUBSET Task]
         /\ \A w \in Thread \ workers' : taskId'[w] = holds[w] /\ given'[w] = given[w]
<1>1. given \in [Thread -> SUBSET Task]
  BY DEF Inv, TypeOK
<1>2. /\ Core(workers', taskId', queue', given', outcome', answer, inbox')
      /\ Drained(workers', holds, waiting)
  BY <1>1, DrainCore
<1>3. CoreInv'
  BY <1>2 DEF CoreInv, Core, Distinct, Elems
<1>4. QED
  BY <1>2, <1>3 DEF Drained, Kept, Received, WorkConserving, Idle

(* Settle rejects or resolves a pending promise and touches no other. *)
LEMMA SettleLemma ==
  ASSUME TypeOK, PendingInv, NEW t, NEW verdict \in Service!Outcome \ {"new", "waiting"},
         Settle(t, verdict)
  PROVE  /\ pending' \subseteq pending /\ outcome' \in [Task -> Service!Outcome]
         /\ PendingInv'
         /\ \A u \in Task : outcome'[u] = "new" <=> outcome[u] = "new"
         /\ \A u \in Task : outcome'[u] = "waiting" => outcome[u] = "waiting" /\ u # t
<1>1. CASE t \in pending
  BY <1>1 DEF TypeOK, PendingInv, Settle, Service!Outcome
<1>2. CASE t \notin pending
  BY <1>2 DEF TypeOK, PendingInv, Settle, Service!Outcome
<1>3. QED
  BY <1>1, <1>2

(* run() preserves the invariant: the job is fresh, so it is queued nowhere  *)
(* else, and what start() spawns is idle.                                    *)
LEMMA RunStep ==
  ASSUME Inv, NEW t \in Task, Run(t)
  PROVE  Inv'
<1>1. PICK S \in SUBSET Fresh :
        /\ ~started \/ S = {}
        /\ workers' = workers \cup S
        /\ phase' = Life(S, phase)
        /\ pending' = pending \cup {t}
        /\ outcome' = [outcome EXCEPT ![t] = "waiting"]
        /\ Drain(workers', taskId, Append(queue, t))
  BY DEF Run, Spawned
<1>2. /\ outcome[t] = "new" /\ ~draining /\ started' = TRUE
      /\ UNCHANGED <<draining, answer, inbox, terminating, crashes>>
  BY DEF Run, IsNext
<1>3. TypeOK /\ CoreInv /\ LifeInv /\ PendingInv /\ WorkConserving
  BY DEF Inv
<1>4. S \subseteq Thread /\ \A w \in S : phase[w] = "none"
  BY DEF Fresh
<1>5. /\ Append(queue, t) \in Seq(Task)
      /\ Elems(Append(queue, t)) = Elems(queue) \cup {t}
      /\ t \notin Elems(queue)
      /\ Distinct(Append(queue, t))
  <2>1. queue \in Seq(Task) /\ Distinct(queue)
    BY <1>3 DEF TypeOK, CoreInv, Core
  <2>2. t \notin Elems(queue)
    BY <1>2, <1>3 DEF CoreInv, Core
  <2>3. QED
    BY <2>1, <2>2 DEF Elems, Distinct
<1>6. Core(workers', taskId, Append(queue, t), given, outcome', answer, inbox')
  <2>1. \A u \in Task : u # t => outcome'[u] = outcome[u]
    BY <1>1, <1>3 DEF TypeOK
  <2>2. outcome'[t] = "waiting" /\ \A w \in Thread : t \notin given[w]
    BY <1>1, <1>2, <1>3 DEF TypeOK, CoreInv, Core
  <2>3. Elems(queue) \subseteq Task /\ \A w \in Thread : given[w] \subseteq Task
    BY <1>3 DEF TypeOK, Elems
  <2>4. QED
    BY <1>1, <1>2, <1>3, <1>5, <2>1, <2>2, <2>3 DEF CoreInv, Core
<1>7. /\ CoreInv' /\ WorkConserving'
      /\ queue' \in Seq(Task)
      /\ taskId' \in [Thread -> Task \cup {NoTask}]
      /\ given' \in [Thread -> SUBSET Task]
      /\ \A w \in Thread \ workers' : taskId'[w] = taskId[w] /\ given'[w] = given[w]
  <2>1. workers' \in SUBSET Thread /\ taskId \in [Thread -> Task \cup {NoTask}]
    BY <1>1, <1>3, <1>4 DEF TypeOK
  <2>2. QED
    BY <1>1, <1>2, <1>5, <1>6, <2>1, DrainStep
<1>8. TypeOK'
  <2>1. phase' \in [Thread -> Phase] /\ outcome' \in [Task -> Service!Outcome]
    BY <1>1, <1>3 DEF TypeOK, Life, Phase, Service!Outcome
  <2>2. QED
    BY <1>1, <1>2, <1>3, <1>4, <1>7, <2>1 DEF TypeOK
<1>9. LifeInv'
  <2>1. \A w \in Thread : w \in S \/ phase'[w] = phase[w]
    BY <1>1 DEF Life
  <2>2. \A w \in S : phase'[w] = "up"
    BY <1>1, <1>4 DEF Life
  <2>3. ASSUME NEW w \in Fresh'
        PROVE  w \notin workers' /\ taskId'[w] = NoTask /\ given'[w] = {}
    <3>1. w \in Thread /\ phase'[w] = "none" /\ w \notin S /\ w \in Fresh
      BY <2>1, <2>2, <2>3 DEF Fresh
    <3>2. QED
      BY <1>1, <1>3, <1>7, <3>1 DEF LifeInv
  <2>4. ASSUME NEW w \in workers' PROVE phase'[w] \notin {"exit", "gone"}
    <3>1. w \in S \/ (w \in workers /\ phase'[w] = phase[w])
      BY <1>1, <1>3, <2>1 DEF TypeOK
    <3>2. QED
      BY <1>2, <1>3, <2>2, <3>1 DEF LifeInv
  <2>5. QED
    BY <1>2, <1>3, <2>3, <2>4 DEF LifeInv
<1>10. PendingInv'
  BY <1>1, <1>3 DEF PendingInv, TypeOK
<1>11. QED
  BY <1>7, <1>8, <1>9, <1>10 DEF Inv

(* The message listener preserves it: the answer is for the job its slot     *)
(* holds, unless the slot was freed, and drain() refills the slot.           *)
LEMMA MessageStep ==
  ASSUME Inv, NEW w \in Thread, NEW t \in Task, Message(w, t)
  PROVE  Inv'
<1> DEFINE freed == [taskId EXCEPT ![w] = NoTask]
<1>1. /\ <<w, t>> \in inbox /\ inbox' = inbox \ {<<w, t>>}
      /\ Settle(t, IF answer[t] = "ok" THEN "resolved" ELSE "failed")
      /\ Drain(workers, freed, queue)
      /\ UNCHANGED <<workers, started, draining, phase, answer, terminating, crashes>>
  BY DEF Message
<1>2. TypeOK /\ CoreInv /\ LifeInv /\ PendingInv
  BY DEF Inv
<1>3. /\ pending' \subseteq pending /\ outcome' \in [Task -> Service!Outcome]
      /\ PendingInv'
      /\ \A u \in Task : outcome'[u] = "new" <=> outcome[u] = "new"
      /\ \A u \in Task : outcome'[u] = "waiting" => outcome[u] = "waiting" /\ u # t
  <2>1. (IF answer[t] = "ok" THEN "resolved" ELSE "failed")
          \in Service!Outcome \ {"new", "waiting"}
    BY DEF Service!Outcome
  <2>2. QED
    BY <1>1, <1>2, <2>1, SettleLemma
<1>4. /\ freed \in [Thread -> Task \cup {NoTask}]
      /\ freed[w] = NoTask /\ \A v \in Thread : v # w => freed[v] = taskId[v]
      /\ taskId[w] = t /\ answer[t] # "none"
  BY <1>1, <1>2 DEF TypeOK, CoreInv, Core
<1>5. Core(workers', freed, queue, given, outcome', answer, inbox')
  <2>1. Elems(queue) \subseteq Task /\ \A v \in Thread : given[v] \subseteq Task
    BY <1>2 DEF TypeOK, Elems
  <2>2. \A v \in Thread, u \in Task : <<v, u>> \in inbox' => <<v, u>> \in inbox /\ v # w
    BY <1>1, <1>2 DEF CoreInv, Core
  <2>3. \A v \in Thread : \A u \in given[v] : answer[u] = "none" => freed[v] = u
    BY <1>2, <1>4 DEF CoreInv, Core
  <2>4. \A u \in Task : outcome'[u] = "waiting" =>
          u \in Elems(queue) \/ \E v \in workers' : freed[v] = u
    BY <1>1, <1>2, <1>3, <1>4 DEF CoreInv, Core, TypeOK
  <2>5. \A v \in Thread : freed[v] # NoTask => freed[v] \in given[v]
    BY <1>2, <1>4 DEF CoreInv, Core
  <2>6. \A v \in Thread, u \in Task : <<v, u>> \in inbox' =>
          u \in given[v] /\ answer[u] # "none" /\ freed[v] = u
    BY <1>2, <1>4, <2>2 DEF CoreInv, Core
  <2> HIDE DEF freed
  <2>7. QED
    BY <1>2, <1>3, <2>1, <2>3, <2>4, <2>5, <2>6 DEF CoreInv, Core
<1>6. /\ CoreInv' /\ WorkConserving'
      /\ queue' \in Seq(Task)
      /\ taskId' \in [Thread -> Task \cup {NoTask}]
      /\ given' \in [Thread -> SUBSET Task]
      /\ \A v \in Thread \ workers' : taskId'[v] = freed[v] /\ given'[v] = given[v]
  <2>1. workers' \in SUBSET Thread /\ queue \in Seq(Task)
    BY <1>1, <1>2 DEF TypeOK
  <2>2. Drain(workers', freed, queue) /\ answer' = answer
    BY <1>1
  <2> HIDE DEF freed
  <2>3. QED
    BY <1>4, <1>5, <2>1, <2>2, DrainStep
<1>7. TypeOK'
  BY <1>1, <1>2, <1>3, <1>6 DEF TypeOK
<1>8. LifeInv'
  <2>1. ASSUME NEW v \in Fresh
        PROVE  v \notin workers' /\ taskId'[v] = NoTask /\ given'[v] = {}
    <3>1. v \in Thread \ workers' /\ taskId[v] = NoTask /\ given[v] = {}
      BY <1>1, <1>2 DEF LifeInv, Fresh
    <3>2. QED
      BY <1>4, <1>6, <3>1
  <2>2. Fresh' = Fresh
    BY <1>1 DEF Fresh
  <2>3. queue = <<>> => queue' = <<>>
    BY <1>1, <1>2 DEF Drain, Assign, TypeOK
  <2>4. QED
    BY <1>1, <1>2, <1>3, <2>1, <2>2, <2>3 DEF LifeInv
<1>9. QED
  BY <1>3, <1>6, <1>7, <1>8 DEF Inv

(* replace(), called by a handler that has settled the job of the slot it    *)
(* drops.                                                                    *)
LEMMA ReplaceStep ==
  ASSUME Inv, NEW w \in Thread, NEW next \in {"exit", "gone"},
         phase[w] # "none",
         Replace(w, next),
         pending' \subseteq pending, outcome' \in [Task -> Service!Outcome], PendingInv',
         \A u \in Task : outcome'[u] = "new" <=> outcome[u] = "new",
         \A u \in Task : outcome'[u] = "waiting" =>
           outcome[u] = "waiting" /\ (w \in workers => u # taskId[w]),
         UNCHANGED <<started, draining, answer, inbox, terminating, crashes>>
  PROVE  Inv'
<1> DEFINE after == [phase EXCEPT ![w] = next]
<1>1. TypeOK /\ CoreInv /\ LifeInv /\ PendingInv /\ WorkConserving
  BY DEF Inv
<1>2. after \in [Thread -> Phase] /\ after[w] = next
      /\ \A v \in Thread : v # w => after[v] = phase[v]
  BY <1>1 DEF TypeOK, Phase
<1>3. CASE draining
  <2>1. workers' = workers \ {w} /\ phase' = after /\ UNCHANGED <<taskId, queue, given>>
    BY <1>3 DEF Replace
  <2>2. pending = {} /\ pending' = {} /\ queue = <<>> /\ draining'
    BY <1>1, <1>3 DEF LifeInv
  <2>3. TypeOK'
    BY <1>1, <1>2, <2>1 DEF TypeOK
  <2>4. \A u \in Task : outcome'[u] # "waiting"
    BY <2>2 DEF PendingInv
  <2>5. CoreInv'
    <3>1. \A v \in Thread : given[v] \subseteq Task
      BY <1>1 DEF TypeOK
    <3>2. Elems(queue) \subseteq Task
      BY <1>1 DEF TypeOK, Elems
    <3>3. Core(workers', taskId, queue, given, outcome', answer, inbox)
      BY <1>1, <2>4, <3>1, <3>2 DEF CoreInv, Core
    <3>4. QED
      BY <2>1, <3>3 DEF CoreInv, Core, Distinct, Elems
  <2>6. LifeInv'
    <3>1. \A v \in Fresh' : v \in Fresh
      BY <1>2, <2>1 DEF Fresh
    <3>2. started' = started /\ draining' = draining /\ workers' \subseteq workers
      BY <2>1
    <3>3. (~started => workers' = {}) /\ queue' = <<>> /\ pending' = {}
      BY <1>1, <2>1, <2>2 DEF LifeInv
    <3>4. QED
      BY <1>1, <2>1, <2>2, <3>1, <3>2, <3>3 DEF LifeInv
  <2>7. WorkConserving'
    BY <2>1, <2>2 DEF WorkConserving
  <2>8. QED
    BY <2>3, <2>5, <2>6, <2>7 DEF Inv
<1>4. CASE ~draining
  <2>1. PICK S \in SUBSET Fresh :
          /\ workers' = (workers \ {w}) \cup S
          /\ phase' = Life(S, after)
          /\ Drain(workers', taskId, queue)
          /\ S # {}
    <3>1. PICK S \in Spawned(1) :
            /\ workers' = (workers \ {w}) \cup S
            /\ phase' = Life(S, after)
            /\ Drain(workers', taskId, queue)
      BY <1>4 DEF Replace
    <3>2. S \in SUBSET Fresh /\ Cardinality(S) = 1
      BY <3>1 DEF Spawned
    <3>3. S # {}
      BY <3>2, FS_EmptySet
    <3>4. QED
      BY <3>1, <3>2, <3>3
  <2>2. S \subseteq Thread /\ w \notin S
    BY DEF Fresh
  <2>3. Core(workers', taskId, queue, given, outcome', answer, inbox')
    <3>1. \A v \in Thread : given[v] \subseteq Task
      BY <1>1 DEF TypeOK
    <3>2. Elems(queue) \subseteq Task
      BY <1>1 DEF TypeOK, Elems
    <3>3. \A u \in Task : outcome'[u] = "waiting" =>
            u \in Elems(queue) \/ \E v \in workers' : taskId[v] = u
      BY <1>1, <2>1 DEF CoreInv, Core
    <3>4. inbox' = inbox
      OBVIOUS
    <3>5. QED
      BY <1>1, <3>1, <3>2, <3>3, <3>4 DEF CoreInv, Core
  <2>4. /\ CoreInv' /\ WorkConserving'
        /\ queue' \in Seq(Task)
        /\ taskId' \in [Thread -> Task \cup {NoTask}]
        /\ given' \in [Thread -> SUBSET Task]
        /\ \A v \in Thread \ workers' : taskId'[v] = taskId[v] /\ given'[v] = given[v]
    <3>1. workers' \in SUBSET Thread /\ taskId \in [Thread -> Task \cup {NoTask}]
          /\ queue \in Seq(Task)
      BY <1>1, <2>1, <2>2 DEF TypeOK
    <3>2. QED
      BY <2>1, <2>3, <3>1, DrainStep
  <2>5. /\ phase' \in [Thread -> Phase]
        /\ \A v \in Thread : phase'[v] = IF v \in S THEN "up" ELSE after[v]
    BY <1>2, <2>1 DEF Life, Phase
  <2>6. TypeOK'
    BY <1>1, <2>1, <2>2, <2>4, <2>5 DEF TypeOK
  <2>7. ASSUME NEW v \in Fresh'
        PROVE  v \notin workers' /\ taskId'[v] = NoTask /\ given'[v] = {}
    <3>1. v \in Thread /\ phase'[v] = "none"
      BY DEF Fresh
    <3>2. v \notin S /\ v # w /\ v \in Fresh
      BY <1>2, <2>5, <3>1 DEF Fresh
    <3>3. QED
      BY <1>1, <2>1, <2>4, <3>1, <3>2 DEF LifeInv
  <2>8. ASSUME NEW v \in workers' PROVE phase'[v] \notin {"exit", "gone"}
    <3>1. v \in S \/ (v \in workers /\ v # w /\ v \in Thread)
      BY <1>1, <2>1 DEF TypeOK
    <3>2. QED
      BY <1>1, <1>2, <1>4, <2>2, <2>5, <3>1 DEF LifeInv
  <2>9. started
    BY <1>1, <1>4 DEF LifeInv, Fresh
  <2>10. LifeInv'
    BY <1>1, <1>4, <2>7, <2>8, <2>9 DEF LifeInv
  <2>11. QED
    BY <2>4, <2>6, <2>10 DEF Inv
<1>5. QED
  BY <1>3, <1>4

(* The error listener preserves it: what the thread held is settled, and     *)
(* its slot leaves the pool with it.                                         *)
LEMMA ErrorStep ==
  ASSUME Inv, NEW w \in Thread, Error(w)
  PROVE  Inv'
<1>1. TypeOK /\ PendingInv
  BY DEF Inv
<1>2. "failed" \in Service!Outcome \ {"new", "waiting"}
  BY DEF Service!Outcome
<1>3. /\ pending' \subseteq pending /\ outcome' \in [Task -> Service!Outcome]
      /\ PendingInv'
      /\ \A u \in Task : outcome'[u] = "new" <=> outcome[u] = "new"
      /\ \A u \in Task : outcome'[u] = "waiting" => outcome[u] = "waiting" /\ u # taskId[w]
  BY <1>1, <1>2, SettleLemma DEF Error
<1>4. QED
  BY <1>3, ReplaceStep DEF Error

(* The exit listener preserves it, also after the error listener has run.    *)
LEMMA ExitStep ==
  ASSUME Inv, NEW w \in Thread, Exit(w)
  PROVE  Inv'
<1>1. TypeOK /\ PendingInv /\ LifeInv
  BY DEF Inv
<1>2. UNCHANGED <<pending, started, draining, outcome, answer, inbox, terminating, crashes>>
      /\ phase[w] = "exit"
  BY DEF Exit
<1>3. w \in workers => \A u \in Task : outcome[u] # "waiting"
  BY <1>1, <1>2 DEF LifeInv, PendingInv
<1>4. PendingInv' /\ outcome' \in [Task -> Service!Outcome]
  BY <1>1, <1>2 DEF PendingInv, TypeOK
<1>5. CASE draining
  <2>1. phase' = [phase EXCEPT ![w] = "gone"] /\ UNCHANGED <<workers, taskId, queue, given>>
    BY <1>5 DEF Exit
  <2>2. TypeOK'
    BY <1>1, <1>2, <2>1 DEF TypeOK, Phase
  <2>3. CoreInv' /\ WorkConserving'
    BY <1>2, <1>5, <2>1 DEF Inv, CoreInv, Core, Distinct, Elems, LifeInv, WorkConserving
  <2>4. Fresh' = Fresh
    BY <1>1, <1>2, <2>1 DEF Fresh, TypeOK
  <2>5. LifeInv'
    BY <1>1, <1>2, <1>5, <2>1, <2>4 DEF LifeInv
  <2>6. QED
    BY <1>4, <2>2, <2>3, <2>5 DEF Inv
<1>6. CASE ~draining
  <2>1. Replace(w, "gone")
    BY <1>6 DEF Exit
  <2>2. QED
    BY <1>2, <1>3, <1>4, <2>1, ReplaceStep
<1>7. QED
  BY <1>5, <1>6

(* The steps that call neither drain nor replace. *)
LEMMA StartStep ==
  ASSUME Inv, Start
  PROVE  Inv'
<1>1. PICK S \in SUBSET Fresh : workers' = workers \cup S /\ phase' = Life(S, phase)
  BY DEF Start, Spawned
<1>2. /\ ~started /\ ~draining /\ started'
      /\ UNCHANGED <<taskId, queue, pending, draining, outcome,
                     given, answer, inbox, terminating, crashes>>
  BY DEF Start
<1>3. TypeOK /\ CoreInv /\ LifeInv /\ PendingInv
  BY DEF Inv
<1>4. S \subseteq Thread /\ queue = <<>> /\ workers = {}
  BY <1>2, <1>3 DEF Fresh, LifeInv
<1>5. phase' \in [Thread -> Phase] /\ \A w \in Thread : phase'[w] = IF w \in S THEN "up" ELSE phase[w]
  BY <1>1, <1>3 DEF TypeOK, Life, Phase
<1>6. TypeOK'
  BY <1>1, <1>2, <1>3, <1>4, <1>5 DEF TypeOK
<1>7. CoreInv' /\ PendingInv' /\ WorkConserving'
  BY <1>1, <1>2, <1>3, <1>4 DEF CoreInv, Core, Distinct, Elems, PendingInv, WorkConserving
<1>8. LifeInv'
  BY <1>1, <1>2, <1>3, <1>4, <1>5 DEF LifeInv, Fresh
<1>9. QED
  BY <1>6, <1>7, <1>8 DEF Inv

(* The task timer preserves it: the promise is settled and the slot keeps    *)
(* the job it is still running.                                              *)
LEMMA TimeoutStep ==
  ASSUME Inv, NEW t \in Task, Timeout(t) \/ Refuse(t)
  PROVE  Inv'
<1>1. TypeOK /\ CoreInv /\ LifeInv /\ PendingInv /\ WorkConserving
  BY DEF Inv
<1>2. UNCHANGED <<workers, taskId, queue, started, draining, threadVars>>
  BY DEF Timeout, Refuse
<1>3. /\ outcome' \in [Task -> Service!Outcome] /\ pending' \subseteq pending
      /\ PendingInv'
      /\ \A u \in Task : outcome'[u] = "new" => outcome[u] = "new"
      /\ \A u \in Task : outcome'[u] = "waiting" => outcome[u] = "waiting"
  <2>1. CASE Timeout(t)
    BY <1>1, <2>1 DEF Timeout, TypeOK, PendingInv, Service!Outcome
  <2>2. CASE Refuse(t)
    BY <1>1, <2>2 DEF Refuse, IsNext, TypeOK, PendingInv, Service!Outcome
  <2>3. QED
    BY <2>1, <2>2
<1>4. TypeOK'
  BY <1>1, <1>2, <1>3 DEF TypeOK, threadVars
<1>5. CoreInv'
  <2>1. Elems(queue) \subseteq Task /\ \A w \in Thread : given[w] \subseteq Task
    BY <1>1 DEF TypeOK, Elems
  <2>2. Core(workers, taskId, queue, given, outcome', answer, inbox)
    BY <1>1, <1>3, <2>1 DEF CoreInv, Core
  <2>3. QED
    BY <1>2, <2>2 DEF CoreInv, Core, Distinct, Elems, threadVars
<1>6. LifeInv' /\ WorkConserving'
  BY <1>1, <1>2, <1>3 DEF LifeInv, Fresh, WorkConserving, Idle, threadVars
<1>7. QED
  BY <1>3, <1>4, <1>5, <1>6 DEF Inv

(* Both halves of shutdown() preserve it: every waiting promise is rejected  *)
(* before the threads end.                                                   *)
LEMMA ShutdownStep ==
  ASSUME Inv, BeginShutdown \/ EndShutdown
  PROVE  Inv'
<1>1. TypeOK /\ CoreInv /\ LifeInv /\ PendingInv /\ WorkConserving
  BY DEF Inv
<1>2. CASE BeginShutdown
  <2>1. /\ draining' = TRUE /\ pending' = {} /\ queue' = <<>> /\ terminating' = workers
        /\ outcome' = [t \in Task |-> IF t \in pending THEN "refused" ELSE outcome[t]]
        /\ UNCHANGED <<workers, taskId, started, phase, given, answer, inbox, crashes>>
    BY <1>2 DEF BeginShutdown
  <2>2. /\ outcome' \in [Task -> Service!Outcome]
        /\ \A u \in Task : outcome'[u] # "waiting"
        /\ \A u \in Task : outcome'[u] = "new" => outcome[u] = "new"
    BY <1>1, <2>1 DEF TypeOK, PendingInv, Service!Outcome
  <2>3. queue' \in Seq(Task) /\ Elems(queue') = {} /\ Distinct(queue')
    BY <2>1 DEF Elems, Distinct
  <2>4. TypeOK'
    BY <1>1, <2>1, <2>2, <2>3 DEF TypeOK
  <2>5. CoreInv'
    <3>1. \A w \in Thread : given[w] \subseteq Task
      BY <1>1 DEF TypeOK
    <3>2. Core(workers, taskId, queue', given, outcome', answer, inbox)
      BY <1>1, <2>2, <2>3, <3>1 DEF CoreInv, Core
    <3>3. QED
      BY <2>1, <3>2 DEF CoreInv, Core, Distinct, Elems
  <2>6. LifeInv' /\ PendingInv' /\ WorkConserving'
    BY <1>1, <2>1, <2>2 DEF LifeInv, Fresh, PendingInv, WorkConserving
  <2>7. QED
    BY <2>4, <2>5, <2>6 DEF Inv
<1>3. CASE EndShutdown
  <2>1. /\ draining /\ workers' = {} /\ started' = FALSE
        /\ UNCHANGED <<taskId, queue, pending, draining, outcome, threadVars>>
    BY <1>3 DEF EndShutdown
  <2>2. pending = {} /\ queue = <<>>
    BY <1>1, <2>1 DEF LifeInv
  <2>3. TypeOK'
    BY <1>1, <2>1 DEF TypeOK, threadVars
  <2>4. CoreInv'
    <3>1. \A u \in Task : outcome[u] # "waiting"
      BY <1>1, <2>2 DEF PendingInv
    <3>2. Core({}, taskId, queue, given, outcome, answer, inbox)
      BY <1>1, <3>1 DEF CoreInv, Core
    <3>3. QED
      BY <2>1, <3>2 DEF CoreInv, Core, Distinct, Elems, threadVars
  <2>5. LifeInv' /\ PendingInv' /\ WorkConserving'
    BY <1>1, <2>1, <2>2 DEF LifeInv, Fresh, PendingInv, WorkConserving, threadVars
  <2>6. QED
    BY <2>3, <2>4, <2>5 DEF Inv
<1>4. QED
  BY <1>2, <1>3

(* A thread that posts its answer preserves it: it answers what it was       *)
(* given, once.                                                              *)
LEMMA ReplyStep ==
  ASSUME Inv, NEW w \in Thread, NEW t \in Task, Reply(w, t)
  PROVE  Inv'
<1>1. TypeOK /\ CoreInv /\ LifeInv /\ PendingInv /\ WorkConserving
  BY DEF Inv
<1>2. PICK a \in {"ok", "error"} : answer' = [answer EXCEPT ![t] = a]
  BY DEF Reply
<1>3. /\ t \in given[w] /\ answer[t] = "none"
      /\ inbox' = inbox \cup {<<w, t>>}
      /\ UNCHANGED <<poolVars, phase, given, terminating, crashes>>
  BY DEF Reply
<1>4. answer' \in [Task -> Service!Answer] /\ answer'[t] # "none"
      /\ \A u \in Task : u # t => answer'[u] = answer[u]
  BY <1>1, <1>2 DEF TypeOK, Service!Answer
<1>5. taskId[w] = t
  BY <1>1, <1>3 DEF CoreInv, Core
<1>6. TypeOK'
  BY <1>1, <1>3, <1>4 DEF TypeOK, poolVars
<1>7. CoreInv'
  <2>1. \A v \in Thread : \A u \in given[v] : u \in Task
    BY <1>1 DEF TypeOK
  <2>2. \A v \in Thread : \A u \in given[v] : answer'[u] = "none" => taskId[v] = u
    BY <1>1, <1>4, <2>1 DEF CoreInv, Core
  <2>3. \A v \in Thread, u \in Task : <<v, u>> \in inbox' =>
          u \in given[v] /\ answer'[u] # "none" /\ taskId[v] = u
    BY <1>1, <1>3, <1>4, <1>5 DEF CoreInv, Core
  <2>4. Core(workers, taskId, queue, given, outcome, answer', inbox')
    BY <1>1, <2>2, <2>3 DEF CoreInv, Core
  <2>5. QED
    BY <1>3, <2>4 DEF CoreInv, Core, Distinct, Elems, poolVars
<1>8. LifeInv' /\ PendingInv' /\ WorkConserving'
  BY <1>1, <1>3 DEF LifeInv, Fresh, PendingInv, WorkConserving, Idle, poolVars
<1>9. QED
  BY <1>6, <1>7, <1>8 DEF Inv

(* A thread that crashes or is terminated preserves it: nothing of the pool  *)
(* changes until an event is delivered.                                      *)
LEMMA DeathStep ==
  ASSUME Inv, NEW w \in Thread, Crash(w) \/ Terminated(w)
  PROVE  Inv'
<1>1. TypeOK /\ CoreInv /\ LifeInv /\ PendingInv /\ WorkConserving
  BY DEF Inv
<1>2. /\ UNCHANGED <<poolVars, given, answer, inbox, terminating>>
      /\ phase[w] = "up" /\ crashes' \in Nat
      /\ \/ phase' = [phase EXCEPT ![w] = "error"]
         \/ draining /\ phase' = [phase EXCEPT ![w] = "exit"]
  BY <1>1 DEF Crash, Terminated, LifeInv, TypeOK
<1>3. phase' \in [Thread -> Phase] /\ Fresh' = Fresh
  BY <1>1, <1>2 DEF TypeOK, Phase, Fresh
<1>4. TypeOK'
  BY <1>1, <1>2, <1>3 DEF TypeOK, poolVars
<1>5. CoreInv'
  BY <1>1, <1>2 DEF CoreInv, Core, Distinct, Elems, poolVars
<1>6. LifeInv'
  BY <1>1, <1>2, <1>3 DEF LifeInv, poolVars, TypeOK
<1>7. PendingInv' /\ WorkConserving'
  BY <1>1, <1>2 DEF PendingInv, WorkConserving, Idle, poolVars
<1>8. QED
  BY <1>4, <1>5, <1>6, <1>7 DEF Inv

(* Every step of the pool preserves the invariant: one lemma for each        *)
(* handler.                                                                  *)
LEMMA InvStep == Inv /\ [Next]_vars => Inv'
<1> SUFFICES ASSUME Inv, [Next]_vars PROVE Inv'
  OBVIOUS
<1>1. CASE Start
  BY <1>1, StartStep
<1>2. CASE BeginShutdown \/ EndShutdown
  BY <1>2, ShutdownStep
<1>3. CASE \E t \in Task : Run(t) \/ Refuse(t) \/ Timeout(t)
  BY <1>3, RunStep, TimeoutStep
<1>4. CASE Events
  BY <1>4, ErrorStep, ExitStep, MessageStep DEF Events
<1>5. CASE Replies
  BY <1>5, ReplyStep DEF Replies
<1>6. CASE \E w \in Thread : Crash(w) \/ Terminated(w)
  BY <1>6, DeathStep
<1>7. CASE UNCHANGED vars
  BY <1>7 DEF vars, poolVars, threadVars, Inv, TypeOK, CoreInv, Core, Distinct, Elems,
              LifeInv, Fresh, PendingInv, WorkConserving, Idle
<1>8. QED
  BY <1>1, <1>2, <1>3, <1>4, <1>5, <1>6, <1>7 DEF Next

(* The inductive invariant holds in every reachable state. *)
THEOREM Invariance == Spec => []Inv
<1>1. QED
  BY InitInv, InvStep, PTL DEF Spec

-----------------------------------------------------------------------------
(***************************************************************************)
(* What the runs check on small instances, for every instance.             *)
(***************************************************************************)

(* The pool's state is well typed. *)
THEOREM TypeCorrect == Spec => []TypeOK
<1>1. Inv => TypeOK
  BY DEF Inv
<1>2. QED
  BY <1>1, Invariance, PTL

(* Every promise that waits can still be settled without its timer. *)
THEOREM NoJobIsLost == Spec => []NoLostJob
<1>1. Inv => NoLostJob
  BY DEF Inv, CoreInv, Core, PendingInv, NoLostJob, Queued, Elems
<1>2. QED
  BY <1>1, Invariance, PTL

(* No slot is idle while a job is queued. *)
THEOREM PoolIsWorkConserving == Spec => []WorkConserving
<1>1. Inv => WorkConserving
  BY DEF Inv
<1>2. QED
  BY <1>1, Invariance, PTL

(* No job is ever posted to two threads, or posted again. *)
THEOREM JobsAreDispatchedOnce == Spec => []DispatchedOnce
<1>1. Inv => DispatchedOnce
  BY DEF Inv, CoreInv, Core, DispatchedOnce, Queued, Elems
<1>2. QED
  BY <1>1, Invariance, PTL

(* No thread ever has two jobs to run. *)
THEOREM ThreadsRunOneJob == Spec => []OneJobPerThread
<1>1. Inv => OneJobPerThread
  <2>1. SUFFICES ASSUME Inv, NEW w \in Thread, NEW t \in given[w], NEW u \in given[w],
                        answer[t] = "none", answer[u] = "none"
                 PROVE  t = u
    BY DEF OneJobPerThread
  <2>2. taskId[w] = t /\ taskId[w] = u
    BY <2>1 DEF Inv, CoreInv, Core
  <2>3. QED
    BY <2>2
<1>2. QED
  BY <1>1, Invariance, PTL

(* A running pool never has fewer threads than it was configured with: a    *)
(* replacement removes one slot at most and always adds one.                *)
LEMMA ReplaceKeepsCapacity ==
  ASSUME Inv, NEW w \in Thread, NEW next, Replace(w, next), ~draining,
         Cardinality(workers) >= Size
  PROVE  Cardinality(workers') >= Size
<1>1. IsFiniteSet(workers) /\ workers \subseteq Thread /\ Cardinality(workers) \in Nat
  BY ThreadAssumption, FS_Subset, FS_CardinalityType DEF Inv, TypeOK
<1>2. PICK S \in Spawned(1) : workers' = (workers \ {w}) \cup S
  BY DEF Replace
<1>3. S \subseteq Fresh /\ Cardinality(S) = 1 /\ IsFiniteSet(S)
  BY <1>2, ThreadAssumption, FS_Subset DEF Spawned, Fresh
<1>4. PICK x : S = {x}
  BY <1>3, FS_Singleton
<1>5. x \notin workers
  BY <1>3, <1>4 DEF Inv, LifeInv
<1>6. /\ IsFiniteSet(workers \ {w})
      /\ Cardinality(workers \ {w}) >= Cardinality(workers) - 1
  <2>1. CASE w \in workers
    <3>1. /\ IsFiniteSet(workers \ {w})
          /\ Cardinality(workers \ {w}) = Cardinality(workers) - 1
      BY <1>1, <2>1, FS_RemoveElement, Zenon
    <3>2. QED
      BY <1>1, <3>1
  <2>2. CASE w \notin workers
    <3>1. workers \ {w} = workers
      BY <2>2
    <3>2. QED
      BY <1>1, <3>1
  <2>3. QED
    BY <2>1, <2>2
<1>7. Cardinality(workers') = Cardinality(workers \ {w}) + 1
  BY <1>2, <1>4, <1>5, <1>6, FS_AddElement
<1>8. Cardinality(workers \ {w}) \in Nat
  BY <1>6, FS_CardinalityType
<1>9. QED
  BY <1>1, <1>6, <1>7, <1>8, SizeAssumption

(* Every step keeps the number of slots at the configured size or above,     *)
(* from the start of the pool to its shutdown.                               *)
LEMMA CapacityStep == Inv /\ CapacityKept /\ [Next]_vars => CapacityKept'
<1> SUFFICES ASSUME Inv, CapacityKept, [Next]_vars, started', ~draining'
             PROVE  Cardinality(workers') >= Size
  BY DEF CapacityKept
<1>1. ASSUME NEW S \in Spawned(Size), ~started, ~draining, workers' = workers \cup S
      PROVE  Cardinality(workers') >= Size
  <2>1. workers' = S /\ Cardinality(S) = Size
    BY <1>1 DEF Inv, LifeInv, Spawned
  <2>2. QED
    BY <2>1, SizeAssumption
<1>2. CASE Start
  BY <1>1, <1>2 DEF Start
<1>3. CASE \E t \in Task : Run(t)
  BY <1>1, <1>3 DEF Run, CapacityKept
<1>4. CASE \E w \in Thread : Error(w) \/ Exit(w)
  <2>1. PICK w \in Thread : Error(w) \/ Exit(w)
    BY <1>4
  <2>2. UNCHANGED <<started, draining>>
    BY <2>1 DEF Error, Exit
  <2>3. Cardinality(workers) >= Size
    BY <2>2 DEF CapacityKept
  <2>4. CASE Error(w)
    <3>1. Replace(w, "exit")
      BY <2>4 DEF Error
    <3>2. QED
      BY <2>2, <2>3, <3>1, ReplaceKeepsCapacity
  <2>5. CASE Exit(w)
    <3>1. Replace(w, "gone")
      BY <2>5 DEF Exit, CapacityKept
    <3>2. QED
      BY <2>2, <2>3, <3>1, ReplaceKeepsCapacity
  <2>6. QED
    BY <2>1, <2>4, <2>5
<1>5. CASE BeginShutdown \/ EndShutdown
  BY <1>5 DEF BeginShutdown, EndShutdown
<1>6. CASE (\E t \in Task : Refuse(t) \/ Timeout(t))
           \/ (\E w \in Thread, t \in Task : Message(w, t) \/ Reply(w, t))
           \/ (\E w \in Thread : Crash(w) \/ Terminated(w))
           \/ UNCHANGED vars
  <2>1. UNCHANGED <<workers, started, draining>>
    BY <1>6 DEF Refuse, Timeout, Message, Reply, Crash, Terminated, vars, poolVars
  <2>2. QED
    BY <2>1 DEF CapacityKept
<1>7. QED
  BY <1>2, <1>3, <1>4, <1>5, <1>6 DEF Next, Events, Replies

(* A crash costs the pool no capacity: started and not draining, it has at   *)
(* least `size` slots whatever threads have died and been replaced.          *)
THEOREM CapacityIsKept == Spec => []CapacityKept
<1>1. Init => CapacityKept
  BY DEF Init, CapacityKept
<1>2. QED
  BY <1>1, CapacityStep, Invariance, PTL DEF Spec

(***************************************************************************)
(* TranslationPool implements TaskService, for every instance: whatever    *)
(* the threads, the timers and a shutdown do, run() promises its callers   *)
(* what that module says and no more.                                      *)
(***************************************************************************)

(* A thread keeps every job it was given, and once dead it stays dead.      *)
Grows ==
  \A w \in Thread :
    /\ given[w] \subseteq given'[w]
    /\ phase[w] \in Dead => phase'[w] \in Dead

(* drain() takes nothing back that a thread was given.                       *)
LEMMA DrainGrows ==
  ASSUME NEW slots, NEW holds, NEW waiting, Drain(slots, holds, waiting)
  PROVE  \A w \in Thread : given[w] \subseteq given'[w]
BY DEF Drain, Assign

(* replace() takes nothing back, and brings no dead thread to life.          *)
LEMMA ReplaceGrows ==
  ASSUME Inv, NEW w \in Thread, NEW next \in Dead, Replace(w, next)
  PROVE  Grows
<1> DEFINE after == [phase EXCEPT ![w] = next]
<1>1. \A v \in Thread : phase[v] \in Dead => after[v] \in Dead
  BY DEF Inv, TypeOK
<1>2. CASE draining
  <2>1. phase' = after /\ given' = given
    BY <1>2 DEF Replace
  <2>2. QED
    BY <1>1, <2>1 DEF Grows
<1>3. CASE ~draining
  <2>1. PICK S \in Spawned(1) :
          phase' = Life(S, after) /\ Drain(workers', taskId, queue)
    BY <1>3 DEF Replace
  <2>2. \A v \in Thread : v \in S => phase[v] = "none"
    BY DEF Spawned, Fresh
  <2>3. \A v \in Thread : phase[v] \in Dead => phase'[v] \in Dead
    BY <1>1, <2>1, <2>2 DEF Life, Dead
  <2>4. \A v \in Thread : given[v] \subseteq given'[v]
    BY <2>1, DrainGrows
  <2>5. QED
    BY <2>3, <2>4 DEF Grows
<1>4. QED
  BY <1>2, <1>3

(* The abstract `lost` never shrinks. *)
LEMMA LostGrows ==
  ASSUME Grows
  PROVE  Lost \subseteq Lost' /\ Lost' \subseteq Task
BY DEF Grows, Lost

(* The first threads are spawned with nothing given, and no dead one revives. *)
LEMMA SpawnGrows ==
  ASSUME NEW S \in SUBSET Fresh, phase' = Life(S, phase),
         \A w \in Thread : given[w] \subseteq given'[w]
  PROVE  Grows
BY DEF Grows, Life, Fresh, Dead

(* settle() is a step of the service, or none when nothing waits any more. *)
LEMMA SettleMaps ==
  ASSUME Inv, NEW t, NEW verdict, Settle(t, verdict),
         UNCHANGED <<answer, draining>>
  PROVE  \/ t \in Task /\ Service!Settle(t, "waiting", verdict)
         \/ UNCHANGED <<outcome, answer, draining>>
BY DEF Settle, Service!Settle, Inv, PendingInv

(* Every step of the pool is a step of the service it promises to be, or     *)
(* none.                                                                     *)
LEMMA StepMaps == Inv /\ [Next]_vars => [Service!ServiceNext]_Service!serviceVars
<1> SUFFICES ASSUME Inv, [Next]_vars
             PROVE  Service!ServiceNext \/ UNCHANGED Service!serviceVars
  OBVIOUS
<1>1. CASE Start
  <2>1. Grows
    BY <1>1, SpawnGrows DEF Start, Spawned
  <2>2. QED
    BY <1>1, <2>1, LostGrows DEF Start, Service!ServiceNext
<1>2. ASSUME NEW t \in Task, Run(t) PROVE Service!ServiceNext
  <2>1. PICK S \in (IF started THEN {{}} ELSE Spawned(Size)) :
          phase' = Life(S, phase) /\ Drain(workers', taskId, Append(queue, t))
    BY <1>2 DEF Run
  <2>2. S \in SUBSET Fresh
    BY DEF Spawned
  <2>3. Grows
    BY <2>1, <2>2, DrainGrows, SpawnGrows
  <2>4. Service!Submit(t)
    BY <1>2 DEF Run, IsNext, Service!Submit, Service!Settle
  <2>5. QED
    BY <2>3, <2>4, LostGrows DEF Service!ServiceNext
<1>3. ASSUME NEW t \in Task, Refuse(t) \/ Timeout(t) PROVE Service!ServiceNext
  <2>1. Grows
    BY <1>3 DEF Refuse, Timeout, threadVars, Grows
  <2>2. CASE Refuse(t)
    <3>1. Service!Submit(t)
      BY <2>2 DEF Refuse, IsNext, Service!Submit, Service!Settle, threadVars
    <3>2. QED
      BY <2>1, <3>1, LostGrows DEF Service!ServiceNext
  <2>3. CASE Timeout(t)
    <3>1. Service!Expire(t)
      BY <2>3 DEF Timeout, Service!Expire, Service!Settle, threadVars, Inv, PendingInv
    <3>2. QED
      BY <2>1, <3>1, LostGrows DEF Service!ServiceNext
  <2>4. QED
    BY <1>3, <2>2, <2>3
<1>4. ASSUME NEW w \in Thread, NEW t \in Task, Message(w, t) PROVE Service!ServiceNext
  <2> DEFINE verdict == IF answer[t] = "ok" THEN "resolved" ELSE "failed"
  <2>1. /\ <<w, t>> \in inbox /\ Settle(t, verdict)
        /\ Drain(workers, [taskId EXCEPT ![w] = NoTask], queue)
        /\ UNCHANGED <<draining, phase, answer>>
    BY <1>4 DEF Message
  <2>2. Grows
    BY <2>1, DrainGrows DEF Grows
  <2>3. answer[t] \in {"ok", "error"}
    BY <2>1 DEF Inv, TypeOK, CoreInv, Core, Service!Answer
  <2>4. \/ Service!Settle(t, "waiting", verdict)
        \/ UNCHANGED <<outcome, answer, draining>>
    BY <2>1, SettleMaps
  <2>5. \/ Service!Resolve(t) \/ Service!Fail(t)
        \/ UNCHANGED <<outcome, answer, draining>>
    BY <2>3, <2>4 DEF Service!Resolve, Service!Fail
  <2>6. QED
    BY <2>2, <2>5, LostGrows DEF Service!ServiceNext
<1>5. ASSUME NEW w \in Thread, Error(w) PROVE Service!ServiceNext
  <2>1. /\ phase[w] = "error" /\ Settle(taskId[w], "failed") /\ Replace(w, "exit")
        /\ UNCHANGED <<draining, answer>>
    BY <1>5 DEF Error
  <2>2. Grows
    BY <2>1, ReplaceGrows DEF Dead
  <2>3. \/ taskId[w] \in Task /\ Service!Settle(taskId[w], "waiting", "failed")
        \/ UNCHANGED <<outcome, answer, draining>>
    BY <2>1, SettleMaps
  <2>4. taskId[w] \in Task => taskId[w] \in Lost
    <3>1. taskId[w] \in Task => taskId[w] \in given[w]
      BY TaskAssumption DEF Inv, CoreInv, Core
    <3>2. QED
      BY <2>1, <3>1 DEF Lost, Dead
  <2>5. \/ \E t \in Task : Service!Fail(t)
        \/ UNCHANGED <<outcome, answer, draining>>
    BY <2>3, <2>4 DEF Service!Fail
  <2>6. QED
    BY <2>2, <2>5, LostGrows DEF Service!ServiceNext
<1>6. ASSUME NEW w \in Thread, Exit(w) PROVE Service!ServiceNext
  <2>1. UNCHANGED <<outcome, answer, draining>>
    BY <1>6 DEF Exit
  <2>2. Grows
    <3>1. CASE draining
      BY <1>6, <3>1 DEF Exit, Grows, Dead, Inv, TypeOK
    <3>2. CASE ~draining
      BY <1>6, <3>2, ReplaceGrows DEF Exit, Dead
    <3>3. QED
      BY <3>1, <3>2
  <2>3. QED
    BY <2>1, <2>2, LostGrows DEF Service!ServiceNext
<1>7. CASE BeginShutdown
  <2>1. Grows
    BY <1>7 DEF BeginShutdown, Grows
  <2>2. Service!Close
    BY <1>7 DEF BeginShutdown, Service!Close, Inv, PendingInv
  <2>3. QED
    BY <2>1, <2>2, LostGrows DEF Service!ServiceNext
<1>8. CASE EndShutdown
  BY <1>8 DEF EndShutdown, threadVars, Service!serviceVars, Lost
<1>9. ASSUME NEW w \in Thread, NEW t \in Task, Reply(w, t) PROVE Service!ServiceNext
  <2>1. Grows
    BY <1>9 DEF Reply, Grows
  <2>2. outcome[t] # "new"
    BY <1>9 DEF Reply, Inv, CoreInv, Core
  <2>3. Service!Finish(t)
    BY <1>9, <2>2 DEF Reply, poolVars, Service!Finish, Service!Answer
  <2>4. QED
    BY <2>1, <2>3, LostGrows DEF Service!ServiceNext
<1>10. ASSUME NEW w \in Thread, Crash(w) \/ Terminated(w) PROVE Service!ServiceNext
  <2>1. UNCHANGED <<outcome, answer, draining, given>>
    BY <1>10 DEF Crash, Terminated, poolVars
  <2>2. Grows
    BY <1>10, <2>1 DEF Crash, Terminated, Grows, Dead, Inv, TypeOK
  <2>3. QED
    BY <2>1, <2>2, LostGrows DEF Service!ServiceNext
<1>11. CASE UNCHANGED vars
  BY <1>11 DEF vars, poolVars, threadVars, Service!serviceVars, Lost
<1>12. QED
  BY <1>1, <1>2, <1>3, <1>4, <1>5, <1>6, <1>7, <1>8, <1>9, <1>10, <1>11
  DEF Next, Events, Replies

(* Every behaviour of the pool is one the service allows: a promise settles  *)
(* at most once, with the pipeline's answer or for a cause.                  *)
THEOREM Refinement == Spec => ImplementsService
<1>1. Init => Service!ServiceInit
  BY DEF Init, Service!ServiceInit, Lost
<1>2. QED
  BY <1>1, StepMaps, Invariance, PTL DEF Spec, ImplementsService, Service!ServiceSpec
=============================================================================
