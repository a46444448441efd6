------------------------------ MODULE UsageLog ------------------------------
(***************************************************************************)
(* The record of authenticated requests (middleware/recordUsage.js and      *)
(* usage.service.js): a bounded buffer that a periodic flush writes in       *)
(* batches, and the shutdown of the process (index.js) that is to write      *)
(* what is left before it closes the connection.                            *)
(*                                                                         *)
(* A batch is taken off the buffer before its insert, so for as long as the *)
(* insert lasts its entries are neither in the buffer nor in the table.      *)
(***************************************************************************)
EXTENDS Naturals, Sequences, FiniteSets

CONSTANTS
  Requests,     \* bound: how many requests arrive
  MaxBuffered,  \* MAX_BUFFERED
  BatchSize,    \* BATCH_SIZE
  Signal,       \* bound: signals the process receives, one shutdown each
  MaxFailures   \* bound: inserts that fail while the connection is open

ASSUME UsageAssumption ==
  /\ MaxBuffered \in Nat \ {0} /\ BatchSize \in Nat \ {0}
  /\ Requests \in Nat /\ "interval" \notin Signal

VARIABLES
  request,   \* request[i]: where request i stands, and whether it has an account
  recorded,  \* history: how many entries record was given
  buffer,    \* the module's buffer: entries are numbered as they are recorded
  batch,     \* batch[w]: the batch whose insert flush awaits, on behalf of w
  flushing,  \* the module's flag
  timer,     \* the interval is set
  stats,     \* stats.written, dropped, failures
  rows,      \* api_usage_logs, in the order of their identifiers
  down,      \* down[s]: how far the shutdown of signal s has come
  connection,
  process,
  overlapped,  \* history: a shutdown found a flush running
  cut          \* history: the backstop ended the process

usageVars ==
  <<request, recorded, buffer, batch, flushing, timer, stats, rows, down, connection, process,
    overlapped, cut>>

Request == 1 .. Requests
Flusher == Signal \cup {"interval"}
Up == process = "up"

UsageInit ==
  /\ request \in [Request -> [at : {"due"}, account : BOOLEAN]]
  /\ recorded = 0 /\ buffer = <<>> /\ batch = [w \in Flusher |-> <<>>]
  /\ flushing = FALSE /\ timer = TRUE
  /\ stats = [written |-> 0, dropped |-> 0, failures |-> 0] /\ rows = <<>>
  /\ down = [s \in Signal |-> "none"] /\ connection = "open" /\ process = "up"
  /\ overlapped = FALSE /\ cut = FALSE

(* Requests are served for as long as no shutdown has closed the listener.   *)
Arrive(i) ==
  /\ Up /\ request[i].at = "due" /\ \A s \in Signal : down[s] = "none"
  /\ request' = [request EXCEPT ![i].at = "open"]
  /\ UNCHANGED <<recorded, buffer, batch, flushing, timer, stats, rows, down, connection, process, overlapped, cut>>

(* record: at the ceiling the oldest entry makes room.                       *)
Record ==
  LET full == Len(buffer) >= MaxBuffered
      kept == IF full THEN Tail(buffer) ELSE buffer
  IN /\ buffer' = Append(kept, recorded + 1)
     /\ recorded' = recorded + 1
     /\ stats' = [stats EXCEPT !.dropped = IF full THEN @ + 1 ELSE @]

(* The recorded flag: only the first event of a response counts, and only of *)
(* a request that was authenticated.                                         *)
FirstEvent(i) == request[i].at = "open" /\ request[i].account

(* The response's 'finish', and then or instead of it its 'close'.           *)
Responds(i, event) ==
  /\ Up /\ request[i].at \in IF event = "finish" THEN {"open"} ELSE {"open", "finish"}
  /\ request' = [request EXCEPT ![i].at = event]
  /\ IF FirstEvent(i) THEN Record ELSE UNCHANGED <<buffer, recorded, stats>>
  /\ UNCHANGED <<batch, flushing, timer, rows, down, connection, process, overlapped, cut>>

(***************************************************************************)
(* flush.                                                                  *)
(***************************************************************************)
(* Mutant of Busy: two flushes at a time.                                    *)
Busy_WhenEmpty == buffer = <<>>

(* A call that finds a flush running, or nothing to write, returns at once.  *)
Busy == flushing \/ buffer = <<>>

Leading(k, s) == SubSeq(s, 1, IF k < Len(s) THEN k ELSE Len(s))
Following(k, s) == SubSeq(s, k + 1, Len(s))

StartFlush(w) ==
  /\ batch' = [batch EXCEPT ![w] = Leading(BatchSize, buffer)]
  /\ buffer' = Following(BatchSize, buffer)
  /\ flushing' = TRUE

Tick ==
  /\ Up /\ timer /\ ~Busy /\ StartFlush("interval")
  /\ UNCHANGED <<request, recorded, timer, stats, rows, down, connection, process, overlapped, cut>>

(* Mutant of AfterFlush: the flag is not reset after an insert that failed.   *)
AfterFlush_NoFinally(wrote) == ~wrote

(* The flag when the loop has nothing left to write.                         *)
AfterFlush(wrote) == FALSE

(* A batch that could not be written is dropped, and counted.                *)
Counted(w, wrote) ==
  stats' = [stats EXCEPT !.written = IF wrote THEN @ + Len(batch[w]) ELSE @,
                         !.dropped = IF wrote THEN @ ELSE @ + Len(batch[w]),
                         !.failures = IF wrote THEN @ ELSE @ + 1]

(* An insert ends, and the next batch is taken or the flush is over; what    *)
(* was sent before the connection closed may still be written.               *)
InsertEnds(w, wrote) ==
  /\ Up /\ batch[w] # <<>>
  /\ wrote \/ connection # "open" \/ stats.failures < MaxFailures
  /\ wrote => connection # "closed"
  /\ rows' = IF wrote THEN rows \o batch[w] ELSE rows
  /\ Counted(w, wrote)
  /\ IF buffer = <<>>
       THEN /\ batch' = [batch EXCEPT ![w] = <<>>]
            /\ flushing' = AfterFlush(wrote)
            /\ UNCHANGED buffer
       ELSE StartFlush(w)
  /\ connection' = IF connection = "closing" THEN "closed" ELSE connection
  /\ UNCHANGED <<request, recorded, timer, down, process, overlapped, cut>>

(***************************************************************************)
(* Shutdown.                                                               *)
(***************************************************************************)
(* server.close: no request is accepted any more, and its callback runs once *)
(* every response has closed.                                                *)
Signalled(s) ==
  /\ Up /\ down[s] = "none"
  /\ down' = [down EXCEPT ![s] = "waiting"]
  /\ UNCHANGED <<request, recorded, buffer, batch, flushing, timer, stats, rows, connection, process,
                 overlapped, cut>>

Closed(i) == request[i].at \in {"due", "close"}

(* stopFlushing.                                                             *)
StopFlushing(s) ==
  /\ Up /\ down[s] = "waiting" /\ \A i \in Request : Closed(i)
  /\ timer' = FALSE
  /\ overlapped' = (overlapped \/ flushing)
  /\ IF Busy
       THEN down' = [down EXCEPT ![s] = "flushed"] /\ UNCHANGED <<buffer, batch, flushing>>
       ELSE down' = [down EXCEPT ![s] = "flushing"] /\ StartFlush(s)
  /\ UNCHANGED <<request, recorded, stats, rows, connection, process, cut>>

(* Mutant of Awaited: the last flush is started and not awaited.             *)
Awaited_Not(s) == TRUE

Awaited(s) == batch[s] = <<>>

Flushed(s) ==
  /\ Up /\ down[s] = "flushing" /\ Awaited(s)
  /\ down' = [down EXCEPT ![s] = "flushed"]
  /\ UNCHANGED <<request, recorded, buffer, batch, flushing, timer, stats, rows, connection, process,
                 overlapped, cut>>

(* The pool is shut down, then the connection.                               *)
CloseDatabase(s) ==
  /\ Up /\ down[s] = "flushed"
  /\ down' = [down EXCEPT ![s] = "closed"]
  /\ connection' = IF connection = "open" /\ flushing THEN "closing" ELSE "closed"
  /\ UNCHANGED <<request, recorded, buffer, batch, flushing, timer, stats, rows, process, overlapped, cut>>

Exit(s) ==
  /\ Up /\ down[s] = "closed" /\ process' = "exited"
  /\ UNCHANGED <<request, recorded, buffer, batch, flushing, timer, stats, rows, down, connection,
                 overlapped, cut>>

(* The backstop, fifteen seconds after the signal.                           *)
TimeOut ==
  /\ Up /\ \E s \in Signal : down[s] # "none"
  /\ process' = "exited" /\ cut' = TRUE
  /\ UNCHANGED <<request, recorded, buffer, batch, flushing, timer, stats, rows, down, connection,
                 overlapped>>

UsageNext ==
  \/ Tick \/ TimeOut
  \/ \E i \in Request : Arrive(i) \/ \E event \in {"finish", "close"} : Responds(i, event)
  \/ \E w \in Flusher, wrote \in BOOLEAN : InsertEnds(w, wrote)
  \/ \E s \in Signal :
       Signalled(s) \/ StopFlushing(s) \/ Flushed(s) \/ CloseDatabase(s) \/ Exit(s)

UsageSpec == UsageInit /\ [][UsageNext]_usageVars

(* The interval fires for as long as it is set, and every insert ends.       *)
UsageFairSpec ==
  /\ UsageSpec /\ WF_usageVars(Tick)
  /\ \A w \in Flusher : WF_usageVars(\E wrote \in BOOLEAN : InsertEnds(w, wrote))

(***************************************************************************)
(* Properties.                                                             *)
(***************************************************************************)
Entries(s) == {s[k] : k \in DOMAIN s}
InFlight == {x \in Flusher \X (1 .. BatchSize) : x[2] \in DOMAIN batch[x[1]]}
Ended == {i \in Request : request[i].account /\ request[i].at \in {"finish", "close"}}

UsageTypeOK ==
  /\ request \in [Request -> [at : {"due", "open", "finish", "close"}, account : BOOLEAN]]
  /\ recorded \in 0 .. Requests
  /\ buffer \in Seq(Nat) /\ Len(buffer) <= MaxBuffered
  /\ batch \in [Flusher -> Seq(Nat)] /\ \A w \in Flusher : Len(batch[w]) <= BatchSize
  /\ flushing \in BOOLEAN /\ timer \in BOOLEAN /\ overlapped \in BOOLEAN /\ cut \in BOOLEAN
  /\ stats \in [written : Nat, dropped : Nat, failures : Nat] /\ rows \in Seq(Nat)
  /\ connection \in {"open", "closing", "closed"} /\ process \in {"up", "exited"}
  /\ down \in [Signal -> {"none", "waiting", "flushing", "flushed", "closed"}]

(* Every authenticated request whose response ended is one entry, which is   *)
(* in the table, dropped and counted, waiting or in the insert under way.    *)
CountersAddUp ==
  /\ Cardinality(Ended) = stats.written + stats.dropped + Len(buffer) + Cardinality(InFlight)
  /\ stats.written = Len(rows)

(* Identifiers follow the order of the requests: the list is read by them,   *)
(* newest first.                                                             *)
OrderKept == \A k \in 2 .. Len(rows) : rows[k - 1] < rows[k]

UsageSound == UsageTypeOK /\ CountersAddUp /\ OrderKept

(* A shutdown that found no flush running, and was not ended by the          *)
(* backstop, leaves no entry behind ("Drained before the connection closes").*)
DrainedUnlessOverlapped ==
  process = "exited" /\ ~cut /\ ~overlapped => buffer = <<>> /\ InFlight = {}

(* For as long as the process is not told to stop, an entry does not wait    *)
(* for ever: failed inserts do not end the flushing.                         *)
EntriesLeave ==
  \A e \in Request :
    (recorded >= e) ~> (\/ \E s \in Signal : down[s] # "none"
                       \/ e \notin Entries(buffer) \cup UNION {Entries(batch[w]) : w \in Flusher})
=============================================================================
