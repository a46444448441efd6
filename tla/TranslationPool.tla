-------------------------- MODULE TranslationPool --------------------------
(***************************************************************************)
(* The worker-thread pool that runs the translation pipeline               *)
(* (src/workers/pool.js) with the thread on the other side of each message *)
(* port (src/workers/translation.worker.js).                               *)
(*                                                                         *)
(* The main thread runs one handler at a time, so each handler, with every *)
(* call it makes, is one action: run, the task timer, the 'message',       *)
(* 'error' and 'exit' listeners, and the two halves of shutdown on either  *)
(* side of its await. A thread answers, dies or is terminated on its own;  *)
(* what it posted reaches the main thread later.                           *)
(*                                                                         *)
(* Threads are named by numbers in the order they are spawned, which is    *)
(* the order of this.workers: slots are pushed at the end and spliced out. *)
(* Jobs are numbered in the order run receives them. A slot's `busy` and   *)
(* `taskId` are always assigned together, so taskId stands for both.       *)
(***************************************************************************)
EXTENDS Naturals, Sequences, FiniteSets, Functions

CONSTANTS
  Task,        \* the numbers of the jobs callers submit
  Thread,      \* the numbers spawned threads take
  Size,        \* this.size
  MaxCrashes,  \* bound: how many threads may die of an uncaught error
  NoTask       \* null in a slot's taskId

ASSUME SizeAssumption == Size \in Nat \ {0}
ASSUME TaskAssumption == Task \subseteq Nat /\ NoTask \notin Task
ASSUME ThreadAssumption ==
  /\ Thread \subseteq Nat /\ IsFiniteSet(Thread)
  /\ MaxCrashes \in Nat /\ Cardinality(Thread) >= Size + 2 * MaxCrashes

VARIABLES
  workers,      \* the threads that have a slot in this.workers
  taskId,       \* taskId[w]: the job the slot of w holds
  queue,        \* this.queue
  pending,      \* the keys of this.pending
  started,
  draining,
  outcome,      \* outcome[t]: the state of the promise run(t) returned
  phase,        \* phase[w]: where thread w is in its life
  given,        \* given[w]: every job ever posted to w
  answer,       \* answer[t]: what the thread answered for t
  inbox,        \* answers posted by a thread and not yet delivered
  terminating,  \* threads whose terminate() shutdown awaits
  crashes       \* bound counter: threads that died so far

poolVars == <<workers, taskId, queue, pending, started, draining, outcome>>
threadVars == <<phase, given, answer, inbox, terminating, crashes>>
vars == <<poolVars, threadVars>>

(* "none": not spawned. "up": running. "error": dead, its 'error' event not  *)
(* yet delivered. "exit": its 'exit' event not yet delivered. "gone": over.  *)
Phase == {"none", "up", "error", "exit", "gone"}
Dead == {"error", "exit", "gone"}

(* The jobs that were posted to a thread that has died since. *)
Lost == {t \in Task : \E w \in Thread : t \in given[w] /\ phase[w] \in Dead}

Service == INSTANCE TaskService WITH lost <- Lost, closed <- draining

Fresh == {w \in Thread : phase[w] = "none"}

Idle(slots, holds) == {w \in slots : holds[w] = NoTask}

Init ==
  /\ workers = {}
  /\ taskId = [w \in Thread |-> NoTask]
  /\ queue = <<>>
  /\ pending = {}
  /\ started = FALSE
  /\ draining = FALSE
  /\ outcome = [t \in Task |-> "new"]
  /\ phase = [w \in Thread |-> "none"]
  /\ given = [w \in Thread |-> {}]
  /\ answer = [t \in Task |-> "none"]
  /\ inbox = {}
  /\ terminating = {}
  /\ crashes = 0

(***************************************************************************)
(* The calls the handlers share.                                           *)
(***************************************************************************)

(* drain(): hands the head of the queue to the first idle slot until the    *)
(* queue is empty or no slot is idle. The arguments are the slots, their    *)
(* jobs and the queue the handler left before it called drain; seat[w] is   *)
(* the place in that queue of the job w receives.                           *)
Assign(taken, seat, holds, waiting, n) ==
  /\ queue' = SubSeq(waiting, n + 1, Len(waiting))
  /\ taskId' = [w \in Thread |-> IF w \in taken THEN waiting[seat[w]] ELSE holds[w]]
  /\ given' = [w \in Thread |->
                 IF w \in taken THEN given[w] \cup {waiting[seat[w]]} ELSE given[w]]

Drain(slots, holds, waiting) ==
  \E n \in 0..Len(waiting), taken \in SUBSET Idle(slots, holds) :
    \E seat \in Bijection(taken, 1..n) :
      /\ n = Len(waiting) \/ taken = Idle(slots, holds)
      /\ \A w \in taken, v \in Idle(slots, holds) :
           v < w => v \in taken /\ seat[v] < seat[w]
      /\ Assign(taken, seat, holds, waiting, n)

(* spawn(), n times: the next n threads, each with an idle slot. *)
Spawned(n) == {S \in SUBSET Fresh :
                 Cardinality(S) = n /\ \A w \in S, v \in Fresh \ S : w < v}

Life(S, before) == [w \in Thread |-> IF w \in S THEN "up" ELSE before[w]]

(* Mutant of Settle: no look-up in this.pending first. *)
Settle_Blindly(t, verdict) ==
  pending' = pending \ {t} /\ outcome' = [outcome EXCEPT ![t] = verdict]

(* settle(): only a job still pending is settled; a late answer is dropped. *)
Settle(t, verdict) ==
  IF t \in pending
  THEN pending' = pending \ {t} /\ outcome' = [outcome EXCEPT ![t] = verdict]
  ELSE UNCHANGED <<pending, outcome>>

(* Mutant of Replace: a thread is spawned only when there is work for it. *)
Replace_OnDemand(w, next) ==
  LET after == [phase EXCEPT ![w] = next] IN
  IF draining \/ queue = <<>>
  THEN workers' = workers \ {w} /\ phase' = after /\ UNCHANGED <<taskId, queue, given>>
  ELSE \E S \in Spawned(1) :
         /\ workers' = (workers \ {w}) \cup S
         /\ phase' = Life(S, after)
         /\ Drain(workers', taskId, queue)

(* replace(): drops the slot if it is still there and, unless the pool is   *)
(* shutting down, spawns a thread and drains. `next` is w's next phase.     *)
Replace(w, next) ==
  LET after == [phase EXCEPT ![w] = next] IN
  IF draining
  THEN /\ workers' = workers \ {w}
       /\ phase' = after
       /\ UNCHANGED <<taskId, queue, given>>
  ELSE \E S \in Spawned(1) :
         /\ workers' = (workers \ {w}) \cup S
         /\ phase' = Life(S, after)
         /\ Drain(workers', taskId, queue)

(***************************************************************************)
(* The main thread.                                                        *)
(***************************************************************************)

(* start(), called once at boot (src/index.js) or by the first run. *)
Start ==
  /\ ~started /\ ~draining
  /\ \E S \in Spawned(Size) : workers' = workers \cup S /\ phase' = Life(S, phase)
  /\ started' = TRUE
  /\ UNCHANGED <<taskId, queue, pending, draining, outcome,
                 given, answer, inbox, terminating, crashes>>

(* run() has received every job numbered before t. *)
IsNext(t) == outcome[t] = "new" /\ \A u \in Task : u < t => outcome[u] # "new"

(* run(job) while the pool shuts down: the promise is rejected at once. *)
Refuse(t) ==
  /\ IsNext(t) /\ draining
  /\ outcome' = [outcome EXCEPT ![t] = "refused"]
  /\ UNCHANGED <<workers, taskId, queue, pending, started, draining, threadVars>>

Run(t) ==
  /\ IsNext(t) /\ ~draining
  /\ \E S \in (IF started THEN {{}} ELSE Spawned(Size)) :
       /\ workers' = workers \cup S
       /\ phase' = Life(S, phase)
       /\ pending' = pending \cup {t}
       /\ outcome' = [outcome EXCEPT ![t] = "waiting"]
       /\ Drain(workers', taskId, Append(queue, t))
  /\ started' = TRUE
  /\ UNCHANGED <<draining, answer, inbox, terminating, crashes>>

(* Mutant of Timeout: the slot of the overdue job is freed and reused. *)
Timeout_FreesSlot(t) ==
  /\ t \in pending
  /\ pending' = pending \ {t}
  /\ outcome' = [outcome EXCEPT ![t] = "timedout"]
  /\ Drain(workers, [w \in Thread |-> IF taskId[w] = t THEN NoTask ELSE taskId[w]], queue)
  /\ UNCHANGED <<workers, started, draining, phase, answer, inbox, terminating, crashes>>

(* The job's timer: the promise is rejected, and nothing else changes. The   *)
(* job stays queued, or its thread stays busy with it.                       *)
Timeout(t) ==
  /\ t \in pending
  /\ pending' = pending \ {t}
  /\ outcome' = [outcome EXCEPT ![t] = "timedout"]
  /\ UNCHANGED <<workers, taskId, queue, started, draining, threadVars>>

(* Mutant of Message: the freed slot waits for the next run() to drain. *)
Message_NoDrain(w, t) ==
  /\ <<w, t>> \in inbox
  /\ inbox' = inbox \ {<<w, t>>}
  /\ Settle(t, IF answer[t] = "ok" THEN "resolved" ELSE "failed")
  /\ taskId' = [taskId EXCEPT ![w] = NoTask]
  /\ UNCHANGED <<workers, queue, given, started, draining, phase, answer, terminating, crashes>>

(* The 'message' listener: settle, free the slot, drain. *)
Message(w, t) ==
  /\ <<w, t>> \in inbox
  /\ inbox' = inbox \ {<<w, t>>}
  /\ Settle(t, IF answer[t] = "ok" THEN "resolved" ELSE "failed")
  /\ Drain(workers, [taskId EXCEPT ![w] = NoTask], queue)
  /\ UNCHANGED <<workers, started, draining, phase, answer, terminating, crashes>>

(* Mutants of Error: the job is not failed; the job, if there is one, is     *)
(* queued again; whatever the slot holds, null included, is queued again.    *)
Error_ForgetsJob(w) ==
  /\ phase[w] = "error"
  /\ Replace(w, "exit")
  /\ UNCHANGED <<pending, outcome, started, draining, answer, inbox, terminating, crashes>>

Error_RetriesBlindly(w) ==
  /\ phase[w] = "error" /\ ~draining
  /\ \E S \in Spawned(1) :
       /\ workers' = (workers \ {w}) \cup S
       /\ phase' = Life(S, [phase EXCEPT ![w] = "exit"])
       /\ Drain(workers', taskId, Append(queue, taskId[w]))
  /\ UNCHANGED <<pending, outcome, started, draining, answer, inbox, terminating, crashes>>

Error_RetriesJob(w) == taskId[w] # NoTask /\ Error_RetriesBlindly(w)

(* The 'error' listener: fail the job the slot holds, replace the slot. *)
Error(w) ==
  /\ phase[w] = "error"
  /\ Settle(taskId[w], "failed")
  /\ Replace(w, "exit")
  /\ UNCHANGED <<started, draining, answer, inbox, terminating, crashes>>

(* The 'exit' listener. Every exit here has a nonzero code: it follows an    *)
(* uncaught error or terminate(). Node empties the thread's message port     *)
(* before it emits 'exit'. While the pool shuts down the slot stays.         *)
Exit(w) ==
  /\ phase[w] = "exit"
  /\ \A t \in Task : <<w, t>> \notin inbox
  /\ IF draining
     THEN phase' = [phase EXCEPT ![w] = "gone"] /\ UNCHANGED <<workers, taskId, queue, given>>
     ELSE Replace(w, "gone")
  /\ UNCHANGED <<pending, started, draining, outcome, answer, inbox, terminating, crashes>>

(* Mutant of BeginShutdown: the entries are cleared, not rejected. *)
BeginShutdown_ClearsOnly ==
  /\ ~draining
  /\ draining' = TRUE
  /\ pending' = {}
  /\ queue' = <<>>
  /\ terminating' = workers
  /\ UNCHANGED <<workers, taskId, outcome, started, phase, given, answer, inbox, crashes>>

(* shutdown() up to its await. *)
BeginShutdown ==
  /\ ~draining
  /\ draining' = TRUE
  /\ outcome' = [t \in Task |-> IF t \in pending THEN "refused" ELSE outcome[t]]
  /\ pending' = {}
  /\ queue' = <<>>
  /\ terminating' = workers
  /\ UNCHANGED <<workers, taskId, started, phase, given, answer, inbox, crashes>>

(* shutdown() after every terminate() has resolved. *)
EndShutdown ==
  /\ draining /\ started
  /\ \A w \in terminating : phase[w] = "gone"
  /\ workers' = {}
  /\ started' = FALSE
  /\ UNCHANGED <<taskId, queue, pending, draining, outcome, threadVars>>

(***************************************************************************)
(* The threads.                                                            *)
(***************************************************************************)

(* The pipeline ends for a job posted to w, with a result or an error, and   *)
(* the thread posts its answer.                                              *)
Reply(w, t) ==
  /\ phase[w] = "up" /\ t \in given[w] /\ answer[t] = "none"
  /\ \E a \in {"ok", "error"} : answer' = [answer EXCEPT ![t] = a]
  /\ inbox' = inbox \cup {<<w, t>>}
  /\ UNCHANGED <<poolVars, phase, given, terminating, crashes>>

(* An uncaught error, out of memory or a failing start, at any moment. *)
Crash(w) ==
  /\ phase[w] = "up" /\ crashes < MaxCrashes
  /\ phase' = [phase EXCEPT ![w] = "error"]
  /\ crashes' = crashes + 1
  /\ UNCHANGED <<poolVars, given, answer, inbox, terminating>>

Terminated(w) ==
  /\ w \in terminating /\ phase[w] = "up"
  /\ phase' = [phase EXCEPT ![w] = "exit"]
  /\ UNCHANGED <<poolVars, given, answer, inbox, terminating, crashes>>

Events == \E w \in Thread : Error(w) \/ Exit(w) \/ \E t \in Task : Message(w, t)
Replies == \E w \in Thread, t \in Task : Reply(w, t)

Next ==
  \/ Start \/ BeginShutdown \/ EndShutdown
  \/ \E t \in Task : Run(t) \/ Refuse(t) \/ Timeout(t)
  \/ Events
  \/ Replies
  \/ \E w \in Thread : Crash(w) \/ Terminated(w)

Spec == Init /\ [][Next]_vars

(* The event loop delivers what is pending, and a pipeline that runs ends.   *)
(* No timer is assumed to fire.                                              *)
FairSpec == Spec /\ WF_vars(Events) /\ WF_vars(Replies)

(***************************************************************************)
(* Properties.                                                             *)
(***************************************************************************)

TypeOK ==
  /\ workers \subseteq Thread
  /\ taskId \in [Thread -> Task \cup {NoTask}]
  /\ queue \in Seq(Task)
  /\ pending \subseteq Task
  /\ started \in BOOLEAN
  /\ draining \in BOOLEAN
  /\ outcome \in [Task -> Service!Outcome]
  /\ phase \in [Thread -> Phase]
  /\ given \in [Thread -> SUBSET Task]
  /\ answer \in [Task -> Service!Answer]
  /\ inbox \subseteq Thread \X Task
  /\ terminating \subseteq Thread
  /\ crashes \in Nat

Queued(t) == \E i \in 1..Len(queue) : queue[i] = t

(* A promise still waiting can be settled without its timer: its job is in   *)
(* this.pending, and is queued or held by a slot of the pool. A handler that *)
(* drops a slot or a queue entry without settling its job would break it.    *)
NoLostJob ==
  \A t \in Task : outcome[t] = "waiting" =>
    t \in pending /\ (Queued(t) \/ \E w \in workers : taskId[w] = t)

(* Between handlers no slot is idle while a job is queued, whatever crashes, *)
(* replacements and late answers came before.                                *)
WorkConserving == queue # <<>> => Idle(workers, taskId) = {}

(* A job is posted to one thread at most, and never again after a crash or a *)
(* timeout: translating it twice would spend the owner's quota twice.        *)
DispatchedOnce ==
  \A w \in Thread : \A t \in given[w] :
    /\ ~Queued(t)
    /\ \A v \in Thread \ {w} : t \notin given[v]

(* A thread of the pool never has two jobs to run: its listener is async, so *)
(* nothing but the slot's taskId keeps two pipelines from interleaving.      *)
OneJobPerThread ==
  \A w \in Thread : \A t, u \in given[w] :
    answer[t] = "none" /\ answer[u] = "none" => t = u

(* Crashes never cost the pool capacity. *)
CapacityKept == started /\ ~draining => Cardinality(workers) >= Size

(* run() keeps the promises of TaskService. *)
ImplementsService == Service!ServiceSpec

(* Every promise run() returned settles, even if no timer ever fires: a dead *)
(* thread fails the job it had, and a queued job gets its turn.              *)
EveryJobSettles == \A t \in Task : outcome[t] = "waiting" ~> outcome[t] # "waiting"
=============================================================================
