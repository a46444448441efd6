------------------------------ MODULE ChatLog ------------------------------
(***************************************************************************)
(* The log of the assistant's turns: a turn of a conversation              *)
(* (src/modules/chat/chat.service.js), the bounded buffer its entry waits  *)
(* in and the flush that writes it (chatLog.service.js), and the           *)
(* conversation it belongs to (chatSession.service.js).                    *)
(*                                                                         *)
(* record, and every stretch of flush between two of its awaits, run on    *)
(* the main thread without interruption, so each is part of one action.    *)
(* What separates actions is the insert flush awaits: while it is under    *)
(* way other turns may record, and so may overflow the buffer.             *)
(***************************************************************************)
EXTENDS Naturals, Sequences, FiniteSets

CONSTANTS
  Turn,         \* turns of the assistant
  Session,      \* conversations
  Capacity,     \* config.chat.logBufferSize
  MaxFailures,  \* bound: inserts the database fails, for no fault of the row
  NoTurn

ASSUME CapacityAssumption == Capacity \in Nat \ {0}
ASSUME TurnAssumption == IsFiniteSet(Turn) /\ NoTurn \notin Turn
ASSUME FailureAssumption == MaxFailures \in Nat

VARIABLES
  stage,      \* stage[t]: where the turn is
  session,    \* session[t]: the conversation t belongs to, once it started
  seen,       \* seen[t]: what t read when it started: turnCount, stored total
  total,      \* total[t]: totalTokenUsage in the entry of t
  buffer,     \* entries waiting to be written, oldest first
  writing,    \* the entry whose insert flush awaits; NoTurn when not flushing
  retryTimer, \* TRUE while the retry timer is set
  table,      \* rows of ai_chat_logs: which turn has which id
  live,       \* conversations that exist
  turnCount,  \* turnCount[s]: ai_chat_sessions.turn_count
  written, dropped, failures,  \* stats
  flushed,    \* flushed[t]: the promise record returned for t
  recorded,   \* history: every turn recorded, in order
  overtaken   \* history: an overflow dropped the very entry being written

turnVars == <<stage, session, seen, total, turnCount>>
history == <<recorded, overtaken>>
bufferVars == <<buffer, writing, retryTimer, written, dropped, failures, flushed, history>>
vars == <<turnVars, bufferVars, table, live>>

Elements(s) == {s[i] : i \in 1..Len(s)}
Highest(S) == CHOOSE n \in S : \A m \in S : m <= n

Init ==
  /\ stage = [t \in Turn |-> "new"]
  /\ session \in [Turn -> Session]
  /\ seen = [t \in Turn |-> [turnCount |-> 0, stored |-> 0]]
  /\ total = [t \in Turn |-> 0]
  /\ buffer = <<>>
  /\ writing = NoTurn
  /\ retryTimer = FALSE
  /\ table = {}
  /\ live = Session
  /\ turnCount = [s \in Session |-> 0]
  /\ written = 0
  /\ dropped = {}
  /\ failures = 0
  /\ flushed = [t \in Turn |-> "none"]
  /\ recorded = <<>>
  /\ overtaken = FALSE

(***************************************************************************)
(* A turn.                                                                 *)
(***************************************************************************)

Rows(s) == {row \in table : session[row.turn] = s}
Latest(rows) == CHOOSE row \in rows : \A other \in rows : other.id <= row.id

(* openSession and readSessionWindow: the conversation and its last row. *)
Start(t) ==
  /\ stage[t] = "new" /\ session[t] \in live
  /\ LET rows == Rows(session[t]) IN
     seen' = [seen EXCEPT ![t] =
                [turnCount |-> turnCount[session[t]],
                 stored    |-> IF rows = {} THEN 0 ELSE total[Latest(rows).turn]]]
  /\ stage' = [stage EXCEPT ![t] = "thinking"]
  /\ UNCHANGED <<session, total, turnCount, bufferVars, table, live>>

(* nextTotal, for a turn that used one token. *)
NextTotal(t) ==
  1 + Highest({seen[t].stored} \cup
              {total[u] : u \in {v \in Elements(buffer) : session[v] = session[t]}})

(* flush(), up to its await: nothing if a flush is running or there is       *)
(* nothing to write.                                                         *)
Flush(entries) ==
  writing' = IF writing = NoTurn /\ entries # <<>> THEN Head(entries) ELSE writing

Overflows == Len(buffer) >= Capacity

(* record(): at the ceiling the oldest entry is dropped and its promise      *)
(* rejected, even if it is the one being written.                            *)
Record(t) ==
  LET kept == IF Overflows THEN Tail(buffer) ELSE buffer
      lost == IF Overflows THEN {Head(buffer)} ELSE {}
  IN
  /\ dropped' = dropped \cup lost
  /\ buffer' = Append(kept, t)
  /\ flushed' = [u \in Turn |->
                   IF u = t THEN "pending" ELSE IF u \in lost THEN "rejected" ELSE flushed[u]]
  /\ recorded' = Append(recorded, t)
  /\ overtaken' = (overtaken \/ writing \in lost)
  /\ Flush(buffer')

(* The end of converse: the entry is recorded and recordTurn writes the      *)
(* counter from the instance read at the start.                              *)
Answer(t) ==
  /\ stage[t] = "thinking"
  /\ stage' = [stage EXCEPT ![t] = "answered"]
  /\ total' = [total EXCEPT ![t] = NextTotal(t)]
  /\ Record(t)
  /\ turnCount' = IF session[t] \in live
                  THEN [turnCount EXCEPT ![session[t]] = seen[t].turnCount + 1]
                  ELSE turnCount
  /\ UNCHANGED <<session, seen, retryTimer, written, failures, table, live>>

(* No provider answered: converse throws and nothing is recorded. *)
GiveUp(t) ==
  /\ stage[t] = "thinking"
  /\ stage' = [stage EXCEPT ![t] = "failed"]
  /\ UNCHANGED <<session, seen, total, turnCount, bufferVars, table, live>>

(***************************************************************************)
(* flush, on either side of its await.                                     *)
(***************************************************************************)

(* Mutant of Shift: the entry stays at the head once it is written. *)
Shift_Keeps(entries) == entries

Shift(entries) == Tail(entries)

(* The insert succeeded, under an id higher than any before: the head of the *)
(* buffer is removed, whichever entry that is now, and the loop goes on with *)
(* the next one.                                                             *)
WriteSucceeds ==
  /\ writing # NoTurn /\ session[writing] \in live
  /\ table' = table \cup {[id |-> written + 1, turn |-> writing]}
  /\ buffer' = Shift(buffer)
  /\ flushed' = [flushed EXCEPT ![writing] = IF @ = "pending" THEN "resolved" ELSE @]
  /\ written' = written + 1
  /\ writing' = IF buffer' = <<>> THEN NoTurn ELSE Head(buffer')
  /\ UNCHANGED <<turnVars, retryTimer, dropped, failures, history, live>>

(* Mutants of AfterFailure: the failed entry goes to the back; it is given   *)
(* up.                                                                       *)
AfterFailure_ToBack(entries) == Append(Tail(entries), Head(entries))
AfterFailure_GivesUp(entries) == Tail(entries)

(* What a failed insert leaves in the buffer: everything. *)
AfterFailure(entries) == entries

(* Mutant of Rearm: no retry is scheduled. *)
Rearm_Never == retryTimer' = retryTimer

(* scheduleRetry(). *)
Rearm == retryTimer' = (retryTimer \/ buffer' # <<>>)

(* The insert failed: the database is unwell, or the row's conversation was  *)
(* deleted and the foreign key refuses it.                                   *)
WriteFails ==
  /\ writing # NoTurn
  /\ session[writing] \in live => failures < MaxFailures
  /\ failures' = IF session[writing] \in live THEN failures + 1 ELSE failures
  /\ buffer' = AfterFailure(buffer)
  /\ Rearm
  /\ writing' = NoTurn
  /\ UNCHANGED <<turnVars, written, dropped, flushed, history, table, live>>

(* The retry timer. *)
Retry ==
  /\ retryTimer
  /\ retryTimer' = FALSE
  /\ Flush(buffer)
  /\ UNCHANGED <<turnVars, buffer, written, dropped, failures, flushed, history, table, live>>

(* deleteSession: the cascade takes the rows of the conversation. *)
DeleteSession(s) ==
  /\ s \in live
  /\ live' = live \ {s}
  /\ table' = table \ Rows(s)
  /\ UNCHANGED <<turnVars, bufferVars>>

Next ==
  \/ \E t \in Turn : Start(t) \/ Answer(t) \/ GiveUp(t)
  \/ WriteSucceeds \/ WriteFails \/ Retry
  \/ \E s \in Session : DeleteSession(s)

Spec == Init /\ [][Next]_vars

(* An insert ends, and the retry timer fires. The database fails only        *)
(* MaxFailures times, so it recovers.                                        *)
FairSpec == Spec /\ WF_vars(WriteSucceeds \/ WriteFails) /\ WF_vars(Retry)

(***************************************************************************)
(* Properties.                                                             *)
(***************************************************************************)

TypeOK ==
  /\ stage \in [Turn -> {"new", "thinking", "answered", "failed"}]
  /\ session \in [Turn -> Session]
  /\ seen \in [Turn -> [turnCount : Nat, stored : Nat]]
  /\ total \in [Turn -> Nat]
  /\ buffer \in Seq(Turn) /\ Len(buffer) <= Capacity
  /\ writing \in Turn \cup {NoTurn}
  /\ retryTimer \in BOOLEAN
  /\ table \subseteq [id : Nat, turn : Turn]
  /\ live \subseteq Session
  /\ turnCount \in [Session -> Nat]
  /\ written \in Nat /\ dropped \subseteq Turn /\ failures \in Nat
  /\ flushed \in [Turn -> {"none", "pending", "resolved", "rejected"}]
  /\ recorded \in Seq(Turn)
  /\ overtaken \in BOOLEAN

(* The counters an operator sees always add up: written, dropped and pending *)
(* are together as many as the entries ever buffered. Only the sum is exact: *)
(* once an overflow has taken the entry being written, that entry is counted *)
(* twice and another one not at all.                                         *)
CountersAddUp == Len(recorded) = written + Cardinality(dropped) + Len(buffer)

HasRow == {row.turn : row \in table}

(* Until then every entry is in one place, and is counted there once: it     *)
(* waits in the buffer with its promise pending, was dropped and its promise *)
(* rejected, or was written, and has its row while its conversation lives.   *)
EntriesAccounted ==
  ~overtaken =>
    /\ \A t \in Turn :
         /\ flushed[t] = "none" <=> stage[t] # "answered"
         /\ flushed[t] = "pending" <=> t \in Elements(buffer)
         /\ flushed[t] = "rejected" <=> t \in dropped
         /\ flushed[t] = "resolved" /\ session[t] \in live => t \in HasRow
    /\ written = Cardinality({t \in Turn : flushed[t] = "resolved"})

Position(t) == CHOOSE i \in 1..Len(recorded) : recorded[i] = t

(* Rows are inserted once each, in the order their turns ended, whatever     *)
(* failures and overflows came in between: ids order the history a later     *)
(* turn is answered from.                                                    *)
OrderKept ==
  \A row, next \in table : row.id < next.id => Position(row.turn) < Position(next.turn)

Missing == {t \in Elements(recorded) :
              session[t] \in live /\ t \notin HasRow /\ t \notin Elements(buffer)}

(* Failed inserts alone never lose an entry: until the buffer overflows,     *)
(* every turn of a live conversation is buffered or written.                 *)
NothingLostByFailures == dropped = {} => Missing = {}

(* An entry waits forever for nothing: while entries are buffered an insert  *)
(* is under way or a retry is set.                                           *)
FlushPending == buffer # <<>> => writing # NoTurn \/ retryTimer

(* The parts that hold in every state, as one invariant: the counters add    *)
(* up, and entry by entry until an overflow takes the one being written; and *)
(* nothing buffered waits for a timer nobody set.                            *)
LogSound == TypeOK /\ CountersAddUp /\ EntriesAccounted /\ FlushPending

(* Once the database recovers every entry is written, unless the buffer      *)
(* overflowed or a conversation was deleted.                                 *)
EveryTurnIsWritten ==
  \A t \in Turn : flushed[t] = "pending" ~>
    (flushed[t] = "resolved" \/ dropped # {} \/ live # Session)

(* "A silently discarded audit record is the one thing here that must never  *)
(* happen quietly" (chatLog.service.js): an entry that left the buffer       *)
(* without a row was dropped, with its log line and its rejection.           *)
NeverLostQuietly == Missing \subseteq dropped
=============================================================================
