--------------------------- MODULE ChatLogProofs ---------------------------
(***************************************************************************)
(* Proofs about ChatLog for every set of turns and conversations, every    *)
(* size of the buffer and every number of failed inserts.                  *)
(***************************************************************************)
EXTENDS ChatLog, FiniteSetTheorems, WellFoundedInduction, TLAPS

(***************************************************************************)
(* The inductive invariant.                                                *)
(***************************************************************************)

(* How many of the recorded turns have left the buffer.                      *)
Gone == Len(recorded) - Len(buffer)

(* A turn is recorded once, when it is answered.                             *)
RecordedOnce ==
  /\ \A i \in 1..Len(recorded) : stage[recorded[i]] = "answered"
  /\ \A i, j \in 1..Len(recorded) : recorded[i] = recorded[j] => i = j

(* The buffer is what was recorded last, and the entries dropped are among   *)
(* those that left it.                                                       *)
BufferIsEnd ==
  /\ \A i \in 1..Len(buffer) : buffer[i] = recorded[Gone + i]
  /\ \A t \in dropped : \E i \in 1..Gone : recorded[i] = t

(* No total exceeds the number of turns answered.                            *)
TotalsBounded ==
  \A t \in Turn : total[t] <= Len(recorded) /\ seen[t].stored <= Len(recorded)

(* The entry being written is the head of the buffer or one that left it by  *)
(* an overflow.                                                              *)
WritingOK ==
  writing # NoTurn => buffer # <<>> /\ \E i \in 1..(Gone + 1) : recorded[i] = writing

(* The rows are of entries that left the buffer, before the one being        *)
(* written, and were given their ids in the order those were recorded.       *)
TableOK ==
  /\ \A row \in table : /\ row.id <= written
                        /\ \E i \in 1..Gone : recorded[i] = row.turn
  /\ \A row \in table : \A i, j \in 1..Len(recorded) :
       recorded[i] = row.turn /\ recorded[j] = writing => i < j
  /\ \A row, next \in table : \A i, j \in 1..Len(recorded) :
       recorded[i] = row.turn /\ recorded[j] = next.turn /\ row.id < next.id => i < j

(* While nothing was dropped, the entry being written is the head, and what  *)
(* left the buffer has its row as long as its conversation lives.            *)
NoneLost ==
  dropped = {} =>
    /\ writing # NoTurn => writing = Head(buffer)
    /\ \A i \in 1..Gone : session[recorded[i]] \in live => recorded[i] \in HasRow

(* Until an overflow takes it, the entry being written is the head.          *)
HeadWritten == ~overtaken /\ writing # NoTurn => writing = Head(buffer)

Inv ==
  /\ TypeOK /\ CountersAddUp /\ FlushPending /\ RecordedOnce /\ BufferIsEnd /\ TotalsBounded
  /\ WritingOK /\ TableOK /\ NoneLost /\ HeadWritten /\ EntriesAccounted

(***************************************************************************)
(* Sequences, and the highest of some numbers.                             *)
(***************************************************************************)

(* What the first entry of a buffer is, and what is left without it.         *)
LEMMA ShiftLaw ==
  ASSUME NEW S, NEW s \in Seq(S), s # <<>>
  PROVE  /\ Head(s) \in S /\ Head(s) = s[1] /\ Len(s) \in Nat \ {0}
         /\ Tail(s) \in Seq(S) /\ Len(Tail(s)) = Len(s) - 1
         /\ \A i \in 1..Len(Tail(s)) : Tail(s)[i] = s[i + 1]
OBVIOUS

(* What a sequence is with an entry more.                                    *)
LEMMA PushLaw ==
  ASSUME NEW S, NEW s \in Seq(S), NEW e \in S
  PROVE  /\ Append(s, e) \in Seq(S) /\ Len(Append(s, e)) = Len(s) + 1
         /\ Append(s, e) # <<>> /\ Append(s, e)[Len(s) + 1] = e
         /\ \A i \in 1..Len(s) : Append(s, e)[i] = s[i]
OBVIOUS

(* A sequence is empty when its length is none, and has no other entries.    *)
LEMMA SeqLaw ==
  ASSUME NEW S, NEW s \in Seq(S)
  PROVE  /\ Len(s) \in Nat /\ (s = <<>> <=> Len(s) = 0)
         /\ \A i \in 1..Len(s) : s[i] \in S
OBVIOUS

(* Highest finds the greatest of a nonempty set of numbers that has a bound. *)
LEMMA HighestLaw ==
  ASSUME NEW S, S \subseteq Nat, S # {}, NEW b \in Nat, \A n \in S : n <= b
  PROVE  Highest(S) \in S /\ \A n \in S : n <= Highest(S)
<1> DEFINE U == {n \in Nat : \A m \in S : m <= n}
<1>1. U \subseteq Nat /\ U # {}
  OBVIOUS
<1> DEFINE R == {ss \in Nat \X Nat : ss[1] < ss[2]}
<1>w. IsWellFoundedOn(R, Nat)
  BY NatLessThanWellFounded DEF OpToRel
<1>m. \E x \in U : \A y \in U : ~ (<<y, x>> \in R)
  <2> HIDE DEF R, U
  <2> QED BY <1>w, <1>1, WFMin
<1>2. PICK least \in U : \A n \in U : ~ (<<n, least>> \in R)
  BY <1>m
<1>3. \A n \in U : least <= n
  <2>1. SUFFICES ASSUME NEW n \in U, ~ (least <= n) PROVE FALSE
    OBVIOUS
  <2>2. n \in Nat /\ least \in Nat /\ n < least
    BY <2>1
  <2>3. <<n, least>> \in R
    BY <2>2
  <2> QED BY <1>2, <2>3
<1>4. least \in S
  <2>1. SUFFICES ASSUME least \notin S PROVE FALSE
    OBVIOUS
  <2>2. \A m \in S : m \in Nat /\ m < least
    BY <1>2, <2>1
  <2>3. least \in Nat /\ least # 0
    <3>1. PICK m \in S : TRUE
      OBVIOUS
    <3>2. m \in Nat /\ m < least /\ least \in Nat
      BY <2>2, <3>1
    <3> QED BY <3>2
  <2>4. least - 1 \in Nat /\ \A m \in S : m <= least - 1
    BY <2>2, <2>3
  <2>5. least - 1 \in U
    BY <2>4
  <2> QED BY <1>3, <2>3, <2>5
<1>5. least \in S /\ \A m \in S : m <= least
  BY <1>2, <1>4
<1> QED BY <1>5 DEF Highest

(***************************************************************************)
(* What the steps do to the buffer and to the record.                      *)
(***************************************************************************)

(* TypeOK and the position of the buffer bound both lengths.                 *)
LEMMA LengthsOK ==
  ASSUME TypeOK, CountersAddUp
  PROVE  /\ Len(recorded) \in Nat /\ Len(buffer) \in Nat /\ Gone \in Nat
         /\ IsFiniteSet(dropped) /\ Cardinality(dropped) \in Nat
         /\ Gone = written + Cardinality(dropped)
<1>1. IsFiniteSet(dropped) /\ Cardinality(dropped) \in Nat
  BY TurnAssumption, FS_Subset, FS_CardinalityType DEF TypeOK
<1> QED BY <1>1, SeqLaw DEF TypeOK, CountersAddUp, Gone

(* Recording a turn adds it to the end of the record and of the buffer, out  *)
(* of which an overflow takes the head.                                      *)
LEMMA RecordLaw ==
  ASSUME TypeOK, CountersAddUp, BufferIsEnd, NEW t \in Turn, Record(t)
  PROVE  /\ recorded' \in Seq(Turn) /\ Len(recorded') = Len(recorded) + 1
         /\ recorded'[Len(recorded) + 1] = t
         /\ \A i \in 1..Len(recorded) : recorded'[i] = recorded[i]
         /\ buffer' \in Seq(Turn) /\ buffer' # <<>> /\ Len(buffer') <= Capacity
         /\ Gone' = Gone + (IF Overflows THEN 1 ELSE 0)
         /\ Overflows => dropped' = dropped \cup {recorded[Gone + 1]}
         /\ ~Overflows => dropped' = dropped /\ (buffer # <<>> => Head(buffer') = Head(buffer))
         /\ \A i \in 1..Len(buffer') : buffer'[i] = recorded'[Gone' + i]
<1> DEFINE kept == IF Overflows THEN Tail(buffer) ELSE buffer
<1>0. /\ recorded \in Seq(Turn) /\ buffer \in Seq(Turn) /\ Capacity \in Nat \ {0}
      /\ Len(buffer) <= Capacity /\ Len(buffer) \in Nat /\ Len(recorded) \in Nat
      /\ Gone \in Nat /\ Gone = Len(recorded) - Len(buffer)
  BY LengthsOK, CapacityAssumption DEF TypeOK, Gone
<1>1. /\ buffer' = Append(kept, t) /\ recorded' = Append(recorded, t)
      /\ dropped' = dropped \cup (IF Overflows THEN {Head(buffer)} ELSE {})
  BY DEF Record
<1>2. /\ recorded' \in Seq(Turn) /\ Len(recorded') = Len(recorded) + 1
      /\ recorded'[Len(recorded) + 1] = t
      /\ \A i \in 1..Len(recorded) : recorded'[i] = recorded[i]
  BY <1>0, <1>1, PushLaw
<1>3. Overflows => buffer # <<>>
  BY <1>0, SeqLaw DEF Overflows
<1>4. /\ kept \in Seq(Turn) /\ Len(kept) = Len(buffer) - (IF Overflows THEN 1 ELSE 0)
      /\ Len(kept) < Capacity
      /\ \A i \in 1..Len(kept) : kept[i] = buffer[i + (IF Overflows THEN 1 ELSE 0)]
  <2>1. CASE Overflows
    BY <1>0, <1>3, <2>1, ShiftLaw
  <2>2. CASE ~Overflows
    BY <1>0, <2>2 DEF Overflows
  <2> QED BY <2>1, <2>2
<1> HIDE DEF kept
<1>5. /\ buffer' \in Seq(Turn) /\ buffer' # <<>> /\ Len(buffer') = Len(kept) + 1
      /\ buffer'[Len(kept) + 1] = t /\ \A i \in 1..Len(kept) : buffer'[i] = kept[i]
  BY <1>1, <1>4, PushLaw
<1>6. Len(kept) \in Nat
  BY <1>4, SeqLaw
<1>k. PICK k \in Nat : k = IF Overflows THEN 1 ELSE 0
  OBVIOUS
<1>l. Len(kept) = Len(buffer) - k
  BY <1>4, <1>k
<1>g. Gone' = Len(recorded') - Len(buffer')
  BY DEF Gone
<1>n. Len(buffer') = Len(buffer) - k + 1
  BY <1>5, <1>l
<1>m. Gone' = Gone + k
  BY <1>0, <1>2, <1>n, <1>g
<1>7. Gone' = Gone + (IF Overflows THEN 1 ELSE 0)
  BY <1>k, <1>m
<1>8. Overflows => dropped' = dropped \cup {recorded[Gone + 1]}
  BY <1>0, <1>1, <1>3, ShiftLaw DEF BufferIsEnd
<1>9. ~Overflows => dropped' = dropped /\ (buffer # <<>> => Head(buffer') = Head(buffer))
  <2>1. SUFFICES ASSUME ~Overflows PROVE dropped' = dropped /\ (buffer # <<>> => Head(buffer') = Head(buffer))
    OBVIOUS
  <2>2. buffer # <<>> => Len(kept) >= 1 /\ kept[1] = Head(buffer)
    BY <1>0, <1>4, <2>1, ShiftLaw
  <2>3. Head(buffer') = buffer'[1]
    BY <1>5, ShiftLaw
  <2> QED BY <1>1, <1>5, <1>6, <2>1, <2>2, <2>3
<1>10. ASSUME NEW i \in 1..Len(buffer') PROVE buffer'[i] = recorded'[Gone' + i]
  <2>1. CASE i = Len(buffer')
    <3>1. Gone' + i = Len(recorded) + 1
      BY <1>0, <1>n, <1>m, <2>1
    <3> QED BY <1>2, <1>5, <2>1, <3>1
  <2>2. CASE i # Len(buffer')
    <3>1. i \in 1..Len(kept) /\ i \in Nat
      BY <1>5, <1>6, <2>2
    <3>2. i + (IF Overflows THEN 1 ELSE 0) \in 1..Len(buffer)
      BY <1>0, <1>4, <1>6, <3>1
    <3>3. buffer'[i] = recorded[Gone + (i + (IF Overflows THEN 1 ELSE 0))]
      BY <1>4, <1>5, <3>1, <3>2 DEF BufferIsEnd
    <3>4. /\ Gone + (i + (IF Overflows THEN 1 ELSE 0)) = Gone' + i
          /\ Gone' + i \in 1..Len(recorded)
      BY <1>0, <1>7, <3>1, <3>2
    <3> QED BY <1>2, <3>3, <3>4
  <2> QED BY <2>1, <2>2
<1>11. Len(buffer') <= Capacity
  BY <1>0, <1>4, <1>5, <1>6
<1> QED BY <1>2, <1>5, <1>7, <1>8, <1>9, <1>10, <1>11

(* A successful insert takes the head out of the buffer.                     *)
LEMMA WrittenLaw ==
  ASSUME TypeOK, CountersAddUp, BufferIsEnd, buffer # <<>>, buffer' = Tail(buffer), recorded' = recorded
  PROVE  /\ buffer' \in Seq(Turn) /\ Len(buffer') <= Capacity
         /\ Gone \in Nat /\ Gone' = Gone + 1 /\ Gone + 1 <= Len(recorded) /\ Head(buffer) = recorded[Gone + 1]
         /\ \A i \in 1..Len(buffer') : buffer'[i] = recorded'[Gone' + i]
<1>0. /\ recorded \in Seq(Turn) /\ buffer \in Seq(Turn) /\ Capacity \in Nat \ {0}
      /\ Len(buffer) <= Capacity /\ Len(buffer) \in Nat /\ Len(recorded) \in Nat
      /\ Gone \in Nat /\ Gone = Len(recorded) - Len(buffer)
  BY LengthsOK, CapacityAssumption DEF TypeOK, Gone
<1>1. /\ buffer' \in Seq(Turn) /\ Len(buffer') = Len(buffer) - 1 /\ Len(buffer) >= 1
      /\ Head(buffer) = buffer[1] /\ \A i \in 1..Len(buffer') : buffer'[i] = buffer[i + 1]
  BY <1>0, ShiftLaw
<1>2. Gone' = Len(recorded') - Len(buffer')
  BY DEF Gone
<1>3. Gone' = Gone + 1
  BY <1>0, <1>1, <1>2
<1>4. ASSUME NEW i \in 1..Len(buffer') PROVE buffer'[i] = recorded'[Gone' + i]
  <2>1. i \in Nat /\ i + 1 \in 1..Len(buffer)
    BY <1>0, <1>1
  <2>2. buffer'[i] = recorded[Gone + (i + 1)]
    BY <1>1, <2>1 DEF BufferIsEnd
  <2>3. Gone + (i + 1) = Gone' + i
    BY <1>0, <1>3, <2>1
  <2> QED BY <2>2, <2>3
<1>5. Gone + 1 <= Len(recorded) /\ Head(buffer) = recorded[Gone + 1] /\ Len(buffer') <= Capacity
  BY <1>0, <1>1 DEF BufferIsEnd
<1> QED BY <1>0, <1>1, <1>3, <1>4, <1>5

(***************************************************************************)
(* Each part of the invariant is kept by each step.                        *)
(***************************************************************************)

(* The total of a turn that is answered is of a number, and one token more   *)
(* at most than there are turns.                                             *)
LEMMA TotalLaw ==
  ASSUME TypeOK, CountersAddUp, TotalsBounded, NEW t \in Turn
  PROVE  NextTotal(t) \in Nat /\ NextTotal(t) <= Len(recorded) + 1
<1> DEFINE S == {seen[t].stored} \cup
                  {total[u] : u \in {v \in Elements(buffer) : session[v] = session[t]}}
<1>1. Elements(buffer) \subseteq Turn
  BY SeqLaw DEF TypeOK, Elements
<1>a. \A u \in Turn : total[u] \in Nat /\ total[u] <= Len(recorded)
  BY DEF TypeOK, TotalsBounded
<1>b. seen[t].stored \in Nat /\ seen[t].stored <= Len(recorded)
  BY DEF TypeOK, TotalsBounded
<1>c. Len(recorded) \in Nat
  BY LengthsOK
<1>2. S \subseteq Nat /\ S # {} /\ (\A n \in S : n <= Len(recorded)) /\ Len(recorded) \in Nat
  BY <1>1, <1>a, <1>b, <1>c
<1>3. NextTotal(t) = 1 + Highest(S)
  BY DEF NextTotal
<1> HIDE DEF S
<1>4. Highest(S) \in Nat /\ Highest(S) <= Len(recorded)
  BY <1>2, HighestLaw
<1> QED BY <1>2, <1>3, <1>4

(* The last row of a conversation that has any is one of them.               *)
LEMMA LatestLaw ==
  ASSUME TypeOK, TableOK, NEW s \in Session, Rows(s) # {}
  PROVE  Latest(Rows(s)) \in table
<1> DEFINE rows == Rows(s)
           S == {row.id : row \in rows}
<1>1. rows \subseteq table /\ rows # {}
  BY DEF Rows
<1>a. written \in Nat /\ \A row \in table : row.id \in Nat /\ row.id <= written
  BY DEF TypeOK, TableOK
<1>2. S \subseteq Nat /\ S # {} /\ written \in Nat /\ \A n \in S : n <= written
  BY <1>1, <1>a
<1>3. PICK n \in S : \A m \in S : m <= n
  <2> HIDE DEF S
  <2> QED BY <1>2, HighestLaw
<1>4. \E row \in rows : \A other \in rows : other.id <= row.id
  BY <1>3
<1> HIDE DEF rows
<1>5. Latest(rows) \in rows
  BY <1>4 DEF Latest
<1> QED BY <1>1, <1>5 DEF rows

(* What a turn read at its start.                                            *)
LEMMA StartLaw ==
  ASSUME TypeOK, CountersAddUp, TotalsBounded, TableOK, NEW t \in Turn, Start(t)
  PROVE  /\ seen' \in [Turn -> [turnCount : Nat, stored : Nat]]
         /\ \A u \in Turn : seen'[u].stored <= Len(recorded)
<1> DEFINE rows == Rows(session[t])
           read == IF rows = {} THEN 0 ELSE total[Latest(rows).turn]
<1>1. session[t] \in Session
  BY DEF TypeOK
<1>2. rows # {} => Latest(rows) \in table
  BY <1>1, LatestLaw
<1>3. rows # {} => Latest(rows).turn \in Turn
  BY <1>2 DEF TypeOK
<1>a. \A u \in Turn : total[u] \in Nat /\ total[u] <= Len(recorded)
  BY DEF TypeOK, TotalsBounded
<1>b. Len(recorded) \in Nat
  BY LengthsOK
<1>4. read \in Nat /\ read <= Len(recorded)
  BY <1>3, <1>a, <1>b
<1>5. seen' = [seen EXCEPT ![t] = [turnCount |-> turnCount[session[t]], stored |-> read]]
  BY DEF Start
<1> HIDE DEF read
<1> QED BY <1>1, <1>4, <1>5 DEF TypeOK, TotalsBounded

(* The types.                                                                *)
LEMMA TypeKept ==
  ASSUME Inv, [Next]_vars
  PROVE  TypeOK'
<1>0. TypeOK /\ CountersAddUp /\ BufferIsEnd /\ TotalsBounded /\ TableOK /\ WritingOK
  BY DEF Inv
<1>1. ASSUME NEW t \in Turn, Start(t) PROVE TypeOK'
  <2>1. seen' \in [Turn -> [turnCount : Nat, stored : Nat]]
    BY <1>0, <1>1, StartLaw
  <2> QED BY <1>0, <1>1, <2>1 DEF Start, bufferVars, history, TypeOK
<1>2. ASSUME NEW t \in Turn, Answer(t) PROVE TypeOK'
  <2>1. Record(t)
    BY <1>2 DEF Answer
  <2>2. recorded' \in Seq(Turn) /\ buffer' \in Seq(Turn) /\ buffer' # <<>> /\ Len(buffer') <= Capacity
    BY <1>0, <2>1, RecordLaw
  <2>3. Head(buffer') \in Turn /\ NextTotal(t) \in Nat
    BY <1>0, <2>2, ShiftLaw, TotalLaw
  <2>4. dropped' \subseteq Turn
    <3>1. Overflows => Head(buffer) \in Turn
      BY <1>0, CapacityAssumption, SeqLaw, ShiftLaw DEF Overflows, TypeOK
    <3> QED BY <1>0, <2>1, <3>1 DEF Record, TypeOK
  <2>5. flushed' \in [Turn -> {"none", "pending", "resolved", "rejected"}]
    BY <1>0, <2>1 DEF Record, TypeOK
  <2>6. writing' \in Turn \cup {NoTurn}
    BY <1>0, <2>1, <2>3 DEF Record, Flush, TypeOK
  <2>7. turnCount' \in [Session -> Nat]
    BY <1>0, <1>2 DEF Answer, TypeOK
  <2>8. stage' \in [Turn -> {"new", "thinking", "answered", "failed"}] /\ total' \in [Turn -> Nat]
    BY <1>0, <1>2, <2>3 DEF Answer, TypeOK
  <2>9. overtaken' \in BOOLEAN
    BY <1>0, <2>1 DEF Record, TypeOK
  <2> QED BY <1>0, <1>2, <2>1, <2>2, <2>4, <2>5, <2>6, <2>7, <2>8, <2>9 DEF Answer, Record, TypeOK
<1>3. ASSUME NEW t \in Turn, GiveUp(t) PROVE TypeOK'
  BY <1>0, <1>3 DEF GiveUp, bufferVars, history, TypeOK
<1>4. CASE WriteSucceeds
  <2>1. buffer # <<>> /\ buffer' = Tail(buffer) /\ recorded' = recorded /\ writing \in Turn
    BY <1>0, <1>4 DEF WriteSucceeds, history, Shift, WritingOK, TypeOK
  <2>2. buffer' \in Seq(Turn) /\ Len(buffer') <= Capacity
    BY <1>0, <2>1, WrittenLaw
  <2>3. writing' \in Turn \cup {NoTurn}
    BY <1>4, <2>2, ShiftLaw DEF WriteSucceeds, history
  <2>4. flushed' \in [Turn -> {"none", "pending", "resolved", "rejected"}]
    BY <1>0, <1>4, <2>1 DEF WriteSucceeds, history, TypeOK
  <2>5. table' \subseteq [id : Nat, turn : Turn] /\ written' \in Nat
    <3>1. table \subseteq [id : Nat, turn : Turn] /\ written \in Nat
      BY <1>0 DEF TypeOK
    <3>2. table' = table \cup {[id |-> written + 1, turn |-> writing]} /\ written' = written + 1
      BY <1>4 DEF WriteSucceeds, history
    <3>3. [id |-> written + 1, turn |-> writing] \in [id : Nat, turn : Turn]
      BY <2>1, <3>1
    <3> QED BY <3>1, <3>2, <3>3
  <2> QED BY <1>0, <1>4, <2>2, <2>3, <2>4, <2>5 DEF WriteSucceeds, history, turnVars, TypeOK
<1>5. CASE WriteFails
  <2>1. failures' \in Nat
    BY <1>0, <1>5 DEF WriteFails, history, TypeOK
  <2>2. retryTimer' \in BOOLEAN
    BY <1>0, <1>5 DEF WriteFails, history, Rearm, TypeOK
  <2>3. buffer' = buffer /\ writing' = NoTurn
    BY <1>5 DEF WriteFails, history, AfterFailure
  <2>4. UNCHANGED <<turnVars, written, dropped, flushed, recorded, overtaken, table, live>>
    BY <1>5 DEF WriteFails, history
  <2> QED BY <1>0, <2>1, <2>2, <2>3, <2>4 DEF turnVars, TypeOK
<1>6. CASE Retry
  <2>1. writing' \in Turn \cup {NoTurn}
    BY <1>0, <1>6, ShiftLaw DEF Retry, history, Flush, TypeOK
  <2> QED BY <1>0, <1>6, <2>1 DEF Retry, history, turnVars, TypeOK
<1>7. ASSUME NEW s \in Session, DeleteSession(s) PROVE TypeOK'
  BY <1>0, <1>7 DEF DeleteSession, turnVars, bufferVars, history, TypeOK
<1>8. CASE UNCHANGED vars
  BY <1>0, <1>8 DEF vars, turnVars, bufferVars, history, TypeOK
<1> QED BY <1>1, <1>2, <1>3, <1>4, <1>5, <1>6, <1>7, <1>8 DEF Next

(* The counters. An entry an overflow drops was not dropped before.          *)
LEMMA CountersKept ==
  ASSUME Inv, [Next]_vars
  PROVE  CountersAddUp'
<1>0. TypeOK /\ CountersAddUp /\ BufferIsEnd /\ WritingOK /\ RecordedOnce
  BY DEF Inv
<1>a. /\ IsFiniteSet(dropped) /\ Cardinality(dropped) \in Nat /\ Gone \in Nat
      /\ Gone = written + Cardinality(dropped) /\ written \in Nat
      /\ Len(recorded) \in Nat /\ Len(buffer) \in Nat /\ Gone = Len(recorded) - Len(buffer)
  BY <1>0, LengthsOK DEF TypeOK, Gone
<1>b. TypeOK'
  BY TypeKept
<1>c. Len(recorded') \in Nat /\ Len(buffer') \in Nat /\ Gone' = Len(recorded') - Len(buffer')
  BY <1>b, SeqLaw DEF TypeOK, Gone
<1>d. ASSUME NEW g \in Nat, g = Gone', g = written' + Cardinality(dropped')
      PROVE  CountersAddUp'
  BY <1>c, <1>d DEF CountersAddUp
<1>1. ASSUME UNCHANGED <<buffer, recorded, written, dropped>> PROVE CountersAddUp'
  BY <1>0, <1>1 DEF CountersAddUp
<1>2. ASSUME NEW t \in Turn, Answer(t) PROVE CountersAddUp'
  <2>1. Record(t) /\ written' = written
    BY <1>2 DEF Answer
  <2>2. /\ Gone' = Gone + (IF Overflows THEN 1 ELSE 0)
        /\ Overflows => dropped' = dropped \cup {recorded[Gone + 1]}
        /\ ~Overflows => dropped' = dropped
    BY <1>0, <2>1, RecordLaw
  <2>3. CASE Overflows
    <3>1. Gone + 1 \in 1..Len(recorded)
      BY <1>a, <2>3, CapacityAssumption DEF Overflows
    <3>2. recorded[Gone + 1] \notin dropped
      BY <1>0, <1>a, <3>1 DEF BufferIsEnd, RecordedOnce
    <3>3. Cardinality(dropped') = Cardinality(dropped) + 1
      BY <1>a, <2>2, <2>3, <3>2, FS_AddElement
    <3>4. PICK g \in Nat : g = Gone + 1
      BY <1>a
    <3>5. g = Gone' /\ g = written' + Cardinality(dropped')
      BY SMTT(20), <1>a, <2>1, <2>2, <2>3, <3>3, <3>4
    <3> QED BY <1>d, <3>5
  <2>4. CASE ~Overflows
    <3>1. dropped' = dropped /\ Gone' = Gone
      BY <1>a, <2>2, <2>4
    <3>2. Cardinality(dropped') = Cardinality(dropped)
      BY <3>1
    <3>3. Gone \in Nat /\ Gone = Gone' /\ Gone = written' + Cardinality(dropped')
      BY <1>a, <2>1, <3>1, <3>2
    <3>4. PICK g \in Nat : g = Gone
      BY <1>a
    <3> QED BY <1>d, <3>3, <3>4
  <2> QED BY <2>3, <2>4
<1>3. CASE WriteSucceeds
  <2>1. buffer # <<>> /\ buffer' = Tail(buffer) /\ recorded' = recorded
    BY <1>0, <1>3 DEF WriteSucceeds, history, Shift, WritingOK
  <2>2. Gone' = Gone + 1 /\ written' = written + 1 /\ dropped' = dropped
    BY <1>0, <1>3, <2>1, WrittenLaw DEF WriteSucceeds, history
  <2>3. Cardinality(dropped') = Cardinality(dropped)
    BY <2>2
  <2>4. PICK g \in Nat : g = Gone + 1
    BY <1>a
  <2>5. g = Gone' /\ g = written' + Cardinality(dropped')
    BY SMTT(20), <1>a, <2>2, <2>3, <2>4
  <2> QED BY <1>d, <2>5
<1>4. (\E t \in Turn : Answer(t)) \/ WriteSucceeds \/ UNCHANGED <<buffer, recorded, written, dropped>>
  BY DEF Next, Start, GiveUp, WriteFails, AfterFailure, Retry, DeleteSession, vars, bufferVars, history
<1> QED BY <1>1, <1>2, <1>3, <1>4

(* The parts that depend on nothing else: a turn is recorded when it is      *)
(* answered and never again.                                                 *)
LEMMA RecordedOnceKept ==
  ASSUME Inv, [Next]_vars
  PROVE  RecordedOnce'
<1>0. TypeOK /\ CountersAddUp /\ BufferIsEnd /\ RecordedOnce
  BY DEF Inv
<1>a. recorded \in Seq(Turn) /\ Len(recorded) \in Nat /\ \A i \in 1..Len(recorded) : recorded[i] \in Turn
  BY <1>0, SeqLaw DEF TypeOK
<1>1. ASSUME NEW t \in Turn, Answer(t) PROVE RecordedOnce'
  <2>1. Record(t)
    BY <1>1 DEF Answer
  <2>2. /\ Len(recorded') = Len(recorded) + 1 /\ recorded'[Len(recorded) + 1] = t
        /\ \A i \in 1..Len(recorded) : recorded'[i] = recorded[i]
    BY <1>0, <2>1, RecordLaw
  <2>3. /\ stage[t] = "thinking" /\ stage' = [stage EXCEPT ![t] = "answered"]
        /\ \A u \in Turn : stage'[u] = IF u = t THEN "answered" ELSE stage[u]
    BY <1>0, <1>1 DEF Answer, TypeOK
  <2>4. \A i \in 1..Len(recorded) : recorded'[i] # t /\ stage'[recorded'[i]] = "answered"
    BY <1>0, <1>a, <2>2, <2>3 DEF RecordedOnce
  <2>5. \A i \in 1..Len(recorded') : i \in 1..Len(recorded) \/ i = Len(recorded) + 1
    BY <1>a, <2>2
  <2>6. \A i \in 1..Len(recorded') : stage'[recorded'[i]] = "answered"
    BY <2>2, <2>3, <2>4, <2>5
  <2>7. \A i, j \in 1..Len(recorded') : recorded'[i] = recorded'[j] => i = j
    <3>1. SUFFICES ASSUME NEW i \in 1..Len(recorded'), NEW j \in 1..Len(recorded'), recorded'[i] = recorded'[j]
                   PROVE  i = j
      OBVIOUS
    <3>2. CASE i \in 1..Len(recorded) /\ j \in 1..Len(recorded)
      BY <1>0, <2>2, <3>1, <3>2 DEF RecordedOnce
    <3>3. CASE ~(i \in 1..Len(recorded) /\ j \in 1..Len(recorded))
      BY <2>2, <2>4, <2>5, <3>1, <3>3
    <3> QED BY <3>2, <3>3
  <2> QED BY <2>6, <2>7 DEF RecordedOnce
<1>2. ASSUME recorded' = recorded, \A t \in Turn : stage[t] = "answered" => stage'[t] = "answered"
      PROVE  RecordedOnce'
  BY <1>0, <1>a, <1>2 DEF RecordedOnce
<1>3. ASSUME NEW t \in Turn, Start(t) \/ GiveUp(t)
      PROVE  recorded' = recorded /\ \A u \in Turn : stage[u] = "answered" => stage'[u] = "answered"
  BY <1>0, <1>3 DEF Start, GiveUp, bufferVars, history, TypeOK
<1>4. ASSUME \/ WriteSucceeds \/ WriteFails \/ Retry \/ UNCHANGED vars
             \/ \E s \in Session : DeleteSession(s)
      PROVE  recorded' = recorded /\ stage' = stage
  BY <1>4 DEF WriteSucceeds, WriteFails, Retry, DeleteSession, vars, bufferVars, history, turnVars
<1> QED BY <1>1, <1>2, <1>3, <1>4 DEF Next

(* Buffered entries do not wait for a timer nobody set.                      *)
LEMMA FlushKept ==
  ASSUME Inv, [Next]_vars
  PROVE  FlushPending'
<1>0. TypeOK /\ CountersAddUp /\ BufferIsEnd /\ FlushPending
  BY DEF Inv
<1>a. buffer' \in Seq(Turn) /\ (buffer' # <<>> => Head(buffer') # NoTurn)
  <2>1. buffer' \in Seq(Turn)
    BY TypeKept DEF TypeOK
  <2> QED BY <2>1, ShiftLaw, TurnAssumption
<1>1. ASSUME UNCHANGED <<buffer, writing, retryTimer>> PROVE FlushPending'
  BY <1>0, <1>1 DEF FlushPending
<1>2. ASSUME NEW t \in Turn, Answer(t) PROVE FlushPending'
  BY <1>a, <1>2 DEF Answer, Record, Flush, FlushPending
<1>3. CASE WriteSucceeds
  BY <1>a, <1>3 DEF WriteSucceeds, history, FlushPending
<1>4. CASE WriteFails
  BY <1>4 DEF WriteFails, history, Rearm, FlushPending
<1>5. CASE Retry
  BY <1>0, <1>a, <1>5 DEF Retry, history, Flush, FlushPending
<1>6. ASSUME \/ UNCHANGED vars \/ \E t \in Turn : Start(t) \/ GiveUp(t)
             \/ \E s \in Session : DeleteSession(s)
      PROVE  UNCHANGED <<buffer, writing, retryTimer>>
  BY <1>6 DEF vars, bufferVars, history, Start, GiveUp, DeleteSession
<1> QED BY <1>1, <1>2, <1>3, <1>4, <1>5, <1>6 DEF Next

(* The buffer stays the end of the record.                                   *)
LEMMA BufferIsEndKept ==
  ASSUME Inv, [Next]_vars
  PROVE  BufferIsEnd'
<1>0. TypeOK /\ CountersAddUp /\ BufferIsEnd /\ WritingOK
  BY DEF Inv
<1>a. Gone \in Nat /\ Gone <= Len(recorded) /\ Len(recorded) \in Nat
  BY <1>0, LengthsOK DEF Gone
<1>1. ASSUME UNCHANGED <<buffer, recorded, dropped>> PROVE BufferIsEnd'
  BY <1>0, <1>1 DEF BufferIsEnd, Gone
<1>2. ASSUME NEW t \in Turn, Answer(t) PROVE BufferIsEnd'
  <2>1. Record(t)
    BY <1>2 DEF Answer
  <2>2. /\ \A i \in 1..Len(recorded) : recorded'[i] = recorded[i]
        /\ Gone' = Gone + (IF Overflows THEN 1 ELSE 0)
        /\ Overflows => dropped' = dropped \cup {recorded[Gone + 1]}
        /\ ~Overflows => dropped' = dropped
        /\ \A i \in 1..Len(buffer') : buffer'[i] = recorded'[Gone' + i]
    BY <1>0, <2>1, RecordLaw
  <2>3. Overflows => Gone + 1 \in 1..Len(recorded)
    BY <1>0, <1>a, LengthsOK, CapacityAssumption DEF Overflows, Gone
  <2>4. ASSUME NEW u \in dropped' PROVE \E i \in 1..Gone' : recorded'[i] = u
    <3>1. CASE u \in dropped
      <4>1. PICK i \in 1..Gone : recorded[i] = u
        BY <1>0, <3>1 DEF BufferIsEnd
      <4>2. i \in 1..Gone' /\ i \in 1..Len(recorded)
        BY <1>a, <2>2, <4>1
      <4> QED BY <2>2, <4>1, <4>2
    <3>2. CASE u \notin dropped
      <4>1. Overflows /\ u = recorded[Gone + 1]
        BY <2>2, <2>4, <3>2
      <4>2. Gone + 1 \in 1..Gone' /\ recorded'[Gone + 1] = u
        BY <1>a, <2>2, <2>3, <4>1
      <4> QED BY <4>2
    <3> QED BY <3>1, <3>2
  <2> QED BY <2>2, <2>4 DEF BufferIsEnd
<1>3. CASE WriteSucceeds
  <2>1. buffer # <<>> /\ buffer' = Tail(buffer) /\ recorded' = recorded /\ dropped' = dropped
    BY <1>0, <1>3 DEF WriteSucceeds, history, Shift, WritingOK
  <2>2. Gone' = Gone + 1 /\ \A i \in 1..Len(buffer') : buffer'[i] = recorded'[Gone' + i]
    BY <1>0, <2>1, WrittenLaw
  <2>3. \A t \in dropped' : \E i \in 1..Gone' : recorded'[i] = t
    BY <1>0, <1>a, <2>1, <2>2 DEF BufferIsEnd
  <2> QED BY <2>2, <2>3 DEF BufferIsEnd
<1>4. (\E t \in Turn : Answer(t)) \/ WriteSucceeds \/ UNCHANGED <<buffer, recorded, dropped>>
  BY DEF Next, Start, GiveUp, WriteFails, AfterFailure, Retry, DeleteSession, vars, bufferVars, history
<1> QED BY <1>1, <1>2, <1>3, <1>4

(* The bound of the totals.                                                  *)
LEMMA TotalsKept ==
  ASSUME Inv, [Next]_vars
  PROVE  TotalsBounded'
<1>0. TypeOK /\ CountersAddUp /\ BufferIsEnd /\ TotalsBounded /\ TableOK
  BY DEF Inv
<1>a. /\ Len(recorded) \in Nat
      /\ \A t \in Turn : /\ total[t] \in Nat /\ total[t] <= Len(recorded)
                         /\ seen[t].stored \in Nat /\ seen[t].stored <= Len(recorded)
  BY <1>0, LengthsOK DEF TypeOK, TotalsBounded
<1>1. ASSUME UNCHANGED <<total, seen, recorded>> PROVE TotalsBounded'
  BY <1>0, <1>1 DEF TotalsBounded
<1>2. ASSUME NEW t \in Turn, Start(t) PROVE TotalsBounded'
  <2>1. \A u \in Turn : seen'[u].stored <= Len(recorded)
    BY <1>0, <1>2, StartLaw
  <2>2. total' = total /\ recorded' = recorded
    BY <1>2 DEF Start, bufferVars, history
  <2> QED BY <1>a, <2>1, <2>2 DEF TotalsBounded
<1>3. ASSUME NEW t \in Turn, Answer(t) PROVE TotalsBounded'
  <2>1. Record(t) /\ seen' = seen /\ total' = [total EXCEPT ![t] = NextTotal(t)]
    BY <1>3 DEF Answer
  <2>2. Len(recorded') = Len(recorded) + 1
    BY <1>0, <2>1, RecordLaw
  <2>3. NextTotal(t) \in Nat /\ NextTotal(t) <= Len(recorded) + 1
    BY <1>0, TotalLaw
  <2>4. \A u \in Turn : total'[u] = IF u = t THEN NextTotal(t) ELSE total[u]
    BY <1>0, <2>1 DEF TypeOK
  <2>5. \A u \in Turn : total'[u] <= Len(recorded')
    BY <1>a, <2>2, <2>3, <2>4
  <2>6. \A u \in Turn : seen'[u].stored <= Len(recorded')
    BY <1>a, <2>1, <2>2
  <2> QED BY <2>5, <2>6 DEF TotalsBounded
<1>4. (\E t \in Turn : Start(t) \/ Answer(t)) \/ UNCHANGED <<total, seen, recorded>>
  BY DEF Next, GiveUp, WriteSucceeds, WriteFails, Retry, DeleteSession, vars, turnVars, bufferVars, history
<1> QED BY <1>1, <1>2, <1>3, <1>4

(* The head of the buffer is the first of the record that has not left it.   *)
LEMMA HeadLaw ==
  ASSUME TypeOK, CountersAddUp, BufferIsEnd, buffer # <<>>
  PROVE  /\ Gone \in Nat /\ Len(recorded) \in Nat /\ Gone + 1 <= Len(recorded)
         /\ Head(buffer) \in Turn /\ Head(buffer) = recorded[Gone + 1]
<1>1. Len(buffer) \in Nat \ {0} /\ Head(buffer) = buffer[1] /\ Head(buffer) \in Turn
  BY ShiftLaw DEF TypeOK
<1>2. Gone \in Nat /\ Len(recorded) \in Nat /\ Gone = Len(recorded) - Len(buffer)
  BY LengthsOK DEF Gone
<1>3. Gone + 1 <= Len(recorded)
  BY <1>1, <1>2
<1>4. 1 \in 1..Len(buffer)
  BY <1>1
<1>5. buffer[1] = recorded[Gone + 1]
  BY <1>4 DEF BufferIsEnd
<1> QED BY <1>1, <1>2, <1>3, <1>5

(* What a step does to the record, the buffer's place in it and the entry    *)
(* being written.                                                            *)
LEMMA StepLaw ==
  ASSUME Inv, [Next]_vars
  PROVE  /\ Gone \in Nat /\ Gone' \in Nat /\ Gone <= Gone'
         /\ Len(recorded) \in Nat /\ Len(recorded) <= Len(recorded') /\ Gone <= Len(recorded)
         /\ \A i \in 1..Len(recorded) : recorded'[i] = recorded[i] /\ recorded[i] \in Turn
         /\ \/ writing' = NoTurn
            \/ writing' = writing /\ buffer' # <<>>
            \/ buffer' # <<>> /\ writing' = Head(buffer')
<1>0. TypeOK /\ CountersAddUp /\ BufferIsEnd /\ WritingOK
  BY DEF Inv
<1>a. /\ Gone \in Nat /\ Len(recorded) \in Nat /\ Gone <= Len(recorded)
      /\ \A i \in 1..Len(recorded) : recorded[i] \in Turn
  BY <1>0, LengthsOK, SeqLaw, SMTT(20) DEF Gone, TypeOK
<1>1. ASSUME NEW t \in Turn, Answer(t)
      PROVE  /\ Gone' \in Nat /\ Gone <= Gone' /\ Len(recorded) <= Len(recorded')
             /\ \A i \in 1..Len(recorded) : recorded'[i] = recorded[i]
             /\ buffer' # <<>> /\ (writing' = writing \/ writing' = Head(buffer'))
  <2>1. Record(t)
    BY <1>1 DEF Answer
  <2>2. /\ Len(recorded') = Len(recorded) + 1 /\ buffer' # <<>>
        /\ \A i \in 1..Len(recorded) : recorded'[i] = recorded[i]
        /\ Gone' = Gone + (IF Overflows THEN 1 ELSE 0)
    BY <1>0, <2>1, RecordLaw
  <2>3. Gone' \in Nat /\ Gone <= Gone'
    BY <1>a, <2>2
  <2>4. writing' = writing \/ writing' = Head(buffer')
    BY <2>1 DEF Record, Flush
  <2> QED BY <1>a, <2>2, <2>3, <2>4
<1>2. CASE WriteSucceeds
  <2>1. buffer # <<>> /\ buffer' = Tail(buffer) /\ recorded' = recorded
    BY <1>0, <1>2 DEF WriteSucceeds, history, Shift, WritingOK
  <2>2. Gone' = Gone + 1
    BY <1>0, <2>1, WrittenLaw
  <2>3. writing' = NoTurn \/ (buffer' # <<>> /\ writing' = Head(buffer'))
    BY <1>2 DEF WriteSucceeds, history
  <2> QED BY <1>a, <2>1, <2>2, <2>3
<1>3. ASSUME UNCHANGED <<buffer, recorded>> PROVE Gone' = Gone
  BY <1>3 DEF Gone
<1>4. CASE WriteFails
  <2>1. UNCHANGED <<buffer, recorded>> /\ writing' = NoTurn
    BY <1>4 DEF WriteFails, history, AfterFailure
  <2> QED BY <1>a, <1>3, <2>1
<1>5. CASE Retry
  <2>1. UNCHANGED <<buffer, recorded>>
    BY <1>5 DEF Retry, history
  <2>2. \/ writing' = writing /\ (writing = NoTurn \/ buffer' # <<>>)
        \/ buffer' # <<>> /\ writing' = Head(buffer')
    BY <1>0, <1>5 DEF Retry, history, Flush, WritingOK
  <2> QED BY <1>a, <1>3, <2>1, <2>2
<1>6. ASSUME UNCHANGED <<buffer, recorded, writing>>
      PROVE  writing' = NoTurn \/ (writing' = writing /\ buffer' # <<>>)
  BY <1>0, <1>6 DEF WritingOK
<1>7. \/ (\E t \in Turn : Answer(t)) \/ WriteSucceeds \/ WriteFails \/ Retry
      \/ UNCHANGED <<buffer, recorded, writing>>
  BY DEF Next, Start, GiveUp, DeleteSession, vars, bufferVars, history
<1>8. CASE UNCHANGED <<buffer, recorded, writing>>
  BY <1>a, <1>3, <1>6, <1>8
<1> QED BY <1>a, <1>1, <1>2, <1>4, <1>5, <1>7, <1>8

(* The head of the buffer after a step, likewise.                            *)
LEMMA NewHeadLaw ==
  ASSUME Inv, [Next]_vars, buffer' # <<>>
  PROVE  /\ Gone' \in Nat /\ Len(recorded') \in Nat /\ Gone' + 1 \in 1..Len(recorded')
         /\ Head(buffer') \in Turn /\ Head(buffer') = recorded'[Gone' + 1]
<1>0. TypeOK' /\ CountersAddUp' /\ BufferIsEnd'
  BY TypeKept, CountersKept, BufferIsEndKept
<1>1. Len(buffer') \in Nat \ {0} /\ Head(buffer') = buffer'[1] /\ Head(buffer') \in Turn
  BY <1>0, ShiftLaw DEF TypeOK
<1>2. Gone' \in Nat
  BY StepLaw
<1>3. Len(recorded') \in Nat
  BY <1>0, SeqLaw DEF TypeOK
<1>4. Gone' = Len(recorded') - Len(buffer')
  BY DEF Gone
<1>5. Gone' + 1 <= Len(recorded')
  BY <1>1, <1>2, <1>3, <1>4
<1>6. 1 \in 1..Len(buffer')
  BY <1>1
<1>7. buffer'[1] = recorded'[Gone' + 1]
  BY <1>0, <1>6 DEF BufferIsEnd
<1>8. Gone' + 1 \in 1..Len(recorded')
  <2>1. PICK g \in Nat, n \in Nat : g = Gone' /\ n = Len(recorded')
    BY <1>2, <1>3
  <2>2. g + 1 <= n
    BY <1>5, <2>1
  <2>3. g + 1 \in 1..n
    BY <2>2
  <2> QED BY <2>1, <2>3, Zenon
<1> QED BY <1>1, <1>2, <1>3, <1>7, <1>8

(* The place of the entry being written.                                     *)
LEMMA WritingKept ==
  ASSUME Inv, [Next]_vars
  PROVE  WritingOK'
<1>1. CASE writing' = NoTurn
  BY <1>1 DEF WritingOK
<1>2. CASE writing' = writing /\ writing # NoTurn /\ buffer' # <<>>
  <2>1. PICK i \in 1..(Gone + 1) : recorded[i] = writing
    BY <1>2 DEF Inv, WritingOK
  <2>2. buffer # <<>> /\ TypeOK /\ CountersAddUp /\ BufferIsEnd
    BY <1>2 DEF Inv, WritingOK
  <2>3. Gone + 1 <= Len(recorded)
    BY <2>2, HeadLaw
  <2>4. i \in 1..Len(recorded) /\ i \in 1..(Gone' + 1)
    BY <2>1, <2>3, StepLaw
  <2>5. recorded'[i] = writing'
    BY <1>2, <2>1, <2>4, StepLaw
  <2> QED BY <1>2, <2>4, <2>5 DEF WritingOK
<1>3. CASE buffer' # <<>> /\ writing' = Head(buffer')
  <2>1. Gone' \in Nat /\ Head(buffer') = recorded'[Gone' + 1]
    BY <1>3, NewHeadLaw
  <2>g. PICK g \in Nat : g = Gone'
    BY <2>1
  <2>a. recorded'[g + 1] = writing'
    BY <1>3, <2>1, <2>g
  <2>b. g + 1 \in 1..(g + 1)
    OBVIOUS
  <2>2. g + 1 \in 1..(g + 1) /\ recorded'[g + 1] = writing'
    BY <2>a, <2>b
  <2>3. \E i \in 1..(g + 1) : recorded'[i] = writing'
    BY <2>2
  <2> QED BY <1>3, <2>3, <2>g DEF WritingOK
<1> QED BY <1>1, <1>2, <1>3, StepLaw

(* Where the rows of the table, and the entry being written, are in the      *)
(* record after a step.                                                      *)
LEMMA PlacesLaw ==
  ASSUME Inv, [Next]_vars
  PROVE  /\ \A row \in table : \A i \in 1..Len(recorded') :
              recorded'[i] = row.turn => i \in 1..Gone /\ recorded[i] = row.turn
         /\ \A j \in 1..Len(recorded') :
              writing' # NoTurn /\ recorded'[j] = writing' =>
                \/ writing' = writing /\ j \in 1..Len(recorded) /\ recorded[j] = writing
                \/ j = Gone' + 1 /\ writing' = Head(buffer')
<1>0. TypeOK /\ CountersAddUp /\ BufferIsEnd /\ WritingOK /\ TableOK
  BY DEF Inv
<1>1. Len(recorded) \in Nat /\ Len(recorded') \in Nat /\ Gone \in Nat /\ Gone' \in Nat /\ Gone <= Len(recorded)
  BY TypeKept, StepLaw, SeqLaw DEF TypeOK
<1>2. /\ Len(recorded) <= Len(recorded')
      /\ \A i \in 1..Len(recorded) : recorded'[i] = recorded[i]
  BY StepLaw
<1>3. \A i, j \in 1..Len(recorded') : recorded'[i] = recorded'[j] => i = j
  BY RecordedOnceKept DEF RecordedOnce
<1>4. ASSUME NEW row \in table, NEW i \in 1..Len(recorded'), recorded'[i] = row.turn
      PROVE  i \in 1..Gone /\ recorded[i] = row.turn
  <2>1. PICK h \in 1..Gone : recorded[h] = row.turn
    BY <1>0 DEF TableOK
  <2>2. h \in 1..Len(recorded) /\ h \in 1..Len(recorded')
    BY <1>1, <1>2
  <2>3. h = i
    BY <1>2, <1>3, <1>4, <2>1, <2>2
  <2> QED BY <2>1, <2>3
<1>5. ASSUME NEW j \in 1..Len(recorded'), writing' # NoTurn, recorded'[j] = writing'
      PROVE  \/ writing' = writing /\ j \in 1..Len(recorded) /\ recorded[j] = writing
             \/ j = Gone' + 1 /\ writing' = Head(buffer')
  <2>1. CASE writing' = writing
    <3>1. PICK h \in 1..(Gone + 1) : recorded[h] = writing
      BY <1>0, <1>5, <2>1 DEF WritingOK
    <3>2. buffer # <<>>
      BY <1>0, <1>5, <2>1 DEF WritingOK
    <3>3. Gone + 1 <= Len(recorded)
      BY <1>0, <3>2, HeadLaw
    <3>4. h \in 1..Len(recorded) /\ h \in 1..Len(recorded')
      BY <1>1, <1>2, <3>3
    <3>5. h = j
      BY <1>2, <1>3, <1>5, <2>1, <3>1, <3>4
    <3> QED BY <2>1, <3>1, <3>4, <3>5
  <2>2. CASE buffer' # <<>> /\ writing' = Head(buffer')
    <3>1. Gone' + 1 \in 1..Len(recorded') /\ Head(buffer') = recorded'[Gone' + 1]
      BY <2>2, NewHeadLaw
    <3> QED BY <1>3, <1>5, <2>2, <3>1
  <2> QED BY <1>5, <2>1, <2>2, StepLaw
<1> QED BY <1>4, <1>5

(* The table, in the order of the record.                                    *)
LEMMA TableKept ==
  ASSUME Inv, [Next]_vars
  PROVE  TableOK'
<1>0. TypeOK /\ CountersAddUp /\ BufferIsEnd /\ WritingOK /\ TableOK
  BY DEF Inv
<1>1. Len(recorded) \in Nat /\ Len(recorded') \in Nat /\ Gone \in Nat /\ Gone' \in Nat /\ Gone <= Len(recorded)
  BY TypeKept, StepLaw, SeqLaw DEF TypeOK
<1>2. /\ Len(recorded) <= Len(recorded') /\ Gone <= Gone'
      /\ \A i \in 1..Len(recorded) : recorded'[i] = recorded[i]
  BY StepLaw
<1>3. \A row \in table : \A i \in 1..Len(recorded') :
        recorded'[i] = row.turn => i \in 1..Gone /\ i \in 1..Len(recorded) /\ recorded[i] = row.turn
  <2>1. 1..Gone \subseteq 1..Len(recorded)
    BY <1>1
  <2> QED BY <2>1, PlacesLaw
<1>4. \A j \in 1..Len(recorded') : recorded'[j] # NoTurn
  BY TypeKept, SeqLaw, TurnAssumption DEF TypeOK
<1>5. ASSUME NEW row \in table, NEW i \in 1..Len(recorded'), NEW j \in 1..Len(recorded'),
             recorded'[i] = row.turn, recorded'[j] = writing'
      PROVE  i < j
  <2>1. i \in 1..Gone /\ i \in 1..Len(recorded) /\ recorded[i] = row.turn /\ writing' # NoTurn
    BY <1>3, <1>4, <1>5
  <2>2. CASE writing' = writing /\ j \in 1..Len(recorded) /\ recorded[j] = writing
    BY <1>0, <2>1, <2>2 DEF TableOK
  <2>3. CASE j = Gone' + 1
    <3>1. i \in Nat /\ j \in Nat /\ i <= Gone
      BY <1>1, <2>1
    <3>2. PICK g \in Nat : g = Gone'
      BY <1>1
    <3>3. j = g + 1 /\ Gone <= g
      BY <1>2, <2>3, <3>2
    <3> QED BY <1>1, <3>1, <3>3
  <2> QED BY <1>5, <2>1, <2>2, <2>3, PlacesLaw
<1>6. ASSUME NEW row \in table, NEW next \in table, NEW i \in 1..Len(recorded'), NEW j \in 1..Len(recorded'),
             recorded'[i] = row.turn, recorded'[j] = next.turn, row.id < next.id
      PROVE  i < j
  BY <1>0, <1>3, <1>6 DEF TableOK
<1>7. ASSUME NEW row \in table, NEW n \in Nat, written <= n
      PROVE  row.id <= n /\ \E i \in 1..Gone' : recorded'[i] = row.turn
  <2>1. PICK h \in 1..Gone : recorded[h] = row.turn
    BY <1>0 DEF TableOK
  <2>2. h \in 1..Gone' /\ h \in 1..Len(recorded)
    BY <1>1, <1>2
  <2>3. row.id \in Nat /\ row.id <= written /\ written \in Nat
    BY <1>0 DEF TypeOK, TableOK
  <2>4. row.id <= n
    BY <1>7, <2>3
  <2> QED BY <1>2, <2>1, <2>2, <2>4
<1>8. ASSUME table' \subseteq table, written' = written PROVE TableOK'
  <2>1. written' \in Nat /\ written <= written'
    BY <1>0, <1>8 DEF TypeOK
  <2>2. \A row \in table' : row.id <= written' /\ \E i \in 1..Gone' : recorded'[i] = row.turn
    BY <1>7, <1>8, <2>1
  <2> QED BY <1>5, <1>6, <1>8, <2>2 DEF TableOK
<1>9. CASE WriteSucceeds
  <2> DEFINE new == [id |-> written + 1, turn |-> writing]
  <2>1. /\ table' = table \cup {new} /\ written' = written + 1 /\ writing # NoTurn
        /\ buffer # <<>> /\ buffer' = Tail(buffer) /\ recorded' = recorded
        /\ new.id = written + 1 /\ new.turn = writing
    BY <1>0, <1>9 DEF WriteSucceeds, history, Shift, WritingOK
  <2> HIDE DEF new
  <2>2. Gone' = Gone + 1
    BY <1>0, <2>1, WrittenLaw
  <2>3. PICK w \in 1..Gone' : recorded'[w] = writing
    BY <1>0, <2>1, <2>2 DEF WritingOK
  <2>4. Gone' <= Len(recorded')
    BY <1>0, <1>1, <2>1, <2>2, HeadLaw
  <2>5. \A i \in 1..Len(recorded') : recorded'[i] = writing => i = w
    <3>1. w \in 1..Len(recorded')
      BY <1>1, <2>4
    <3> QED BY <2>3, <3>1, RecordedOnceKept DEF RecordedOnce
  <2>6. written \in Nat /\ written' \in Nat /\ written <= written' /\ \A row \in table : row.id \in Nat /\ row.id <= written
    BY <1>0, <2>1 DEF TypeOK, TableOK
  <2>7. \A row \in table' : row.id <= written' /\ \E i \in 1..Gone' : recorded'[i] = row.turn
    BY <1>7, <2>1, <2>3, <2>6
  <2>8. ASSUME NEW row \in table', NEW i \in 1..Len(recorded'), NEW j \in 1..Len(recorded'),
               recorded'[i] = row.turn, recorded'[j] = writing'
        PROVE  i < j
    <3>1. CASE row \in table
      BY <1>5, <2>8, <3>1
    <3>2. CASE row = new
      <4>1. i = w
        BY <2>1, <2>5, <2>8, <3>2
      <4>2. buffer' # <<>> /\ writing' = Head(buffer')
        BY <1>4, <1>9, <2>8 DEF WriteSucceeds, history
      <4>3. Gone' + 1 \in 1..Len(recorded') /\ recorded'[Gone' + 1] = writing'
        BY <4>2, NewHeadLaw
      <4>5. j = Gone' + 1
        BY <2>8, <4>3, RecordedOnceKept DEF RecordedOnce
      <4>6. i \in Nat /\ j \in Nat /\ i <= Gone'
        BY <1>1, <2>3, <4>1
      <4>7. PICK g \in Nat : g = Gone'
        BY <1>1
      <4>8. j = g + 1 /\ i <= g
        BY <4>5, <4>6, <4>7
      <4> QED BY <4>6, <4>8
    <3> QED BY <2>1, <3>1, <3>2
  <2>9. ASSUME NEW row \in table', NEW next \in table', NEW i \in 1..Len(recorded'), NEW j \in 1..Len(recorded'),
               recorded'[i] = row.turn, recorded'[j] = next.turn, row.id < next.id
        PROVE  i < j
    <3>1. row \in table
      <4>1. SUFFICES ASSUME row = new PROVE FALSE
        BY <2>1
      <4>2. row.id = written + 1 /\ next.id <= written + 1 /\ next.id \in Nat
        BY <2>1, <2>6, <4>1
      <4> QED BY <2>6, <2>9, <4>2
    <3>2. CASE next \in table
      BY <1>6, <2>9, <3>1, <3>2
    <3>3. CASE next = new
      <4>1. recorded[i] = row.turn /\ recorded[j] = writing
        BY <2>1, <2>9, <3>3
      <4>2. i \in 1..Len(recorded) /\ j \in 1..Len(recorded)
        BY <2>1
      <4> QED BY <1>0, <3>1, <4>1, <4>2 DEF TableOK
    <3> QED BY <2>1, <3>2, <3>3
  <2> QED BY <2>7, <2>8, <2>9 DEF TableOK
<1>10. WriteSucceeds \/ (table' \subseteq table /\ written' = written)
  BY DEF Next, Start, Answer, GiveUp, WriteFails, Retry, DeleteSession, vars, bufferVars, history
<1> QED BY <1>8, <1>9, <1>10

(* Without an overflow the head of the buffer is the entry being written,    *)
(* and what left the buffer was written.                                     *)
LEMMA NoneLostKept ==
  ASSUME Inv, [Next]_vars
  PROVE  NoneLost'
<1>0. TypeOK /\ CountersAddUp /\ BufferIsEnd /\ WritingOK /\ TableOK /\ NoneLost
  BY DEF Inv
<1>1. Len(recorded) \in Nat /\ Gone \in Nat /\ 1..Gone \subseteq 1..Len(recorded)
  BY StepLaw
<1>2. \A i \in 1..Len(recorded) : recorded'[i] = recorded[i] /\ recorded[i] \in Turn
  BY StepLaw
<1>3. ASSUME UNCHANGED <<buffer, recorded, dropped, table, session, live>>,
             writing' \in {writing, NoTurn} \/ writing' = Head(buffer)
      PROVE  NoneLost'
  BY <1>0, <1>3 DEF NoneLost, HasRow, Gone
<1>4. ASSUME NEW t \in Turn, Answer(t), dropped' = {}
      PROVE  /\ writing' # NoTurn => writing' = Head(buffer')
             /\ \A i \in 1..Gone' : session'[recorded'[i]] \in live' => recorded'[i] \in HasRow'
  <2>1. Record(t) /\ UNCHANGED <<table, session, live>>
    BY <1>4 DEF Answer
  <2>2. dropped = {} /\ ~Overflows
    BY <1>0, <1>4, <2>1, RecordLaw
  <2>3. Gone' = Gone /\ (buffer # <<>> => Head(buffer') = Head(buffer))
    BY <1>0, <1>1, <2>1, <2>2, RecordLaw
  <2>4. writing' # NoTurn => writing' = Head(buffer')
    BY <1>0, <2>1, <2>2, <2>3 DEF Record, Flush, NoneLost, WritingOK
  <2>5. HasRow' = HasRow
    BY <2>1 DEF HasRow
  <2> QED BY <1>0, <1>1, <1>2, <2>1, <2>2, <2>3, <2>4, <2>5 DEF NoneLost
<1>5. ASSUME WriteSucceeds, dropped' = {}
      PROVE  /\ writing' # NoTurn => writing' = Head(buffer')
             /\ \A i \in 1..Gone' : session'[recorded'[i]] \in live' => recorded'[i] \in HasRow'
  <2>1. /\ buffer # <<>> /\ buffer' = Tail(buffer) /\ UNCHANGED <<session, live, recorded, dropped>>
        /\ writing # NoTurn /\ writing = Head(buffer)
    BY <1>0, <1>5 DEF WriteSucceeds, history, Shift, WritingOK, NoneLost, turnVars
  <2>2. Gone' = Gone + 1 /\ Head(buffer) = recorded[Gone + 1]
    BY <1>0, <2>1, WrittenLaw
  <2>3. HasRow' = HasRow \cup {writing}
    <3>1. table' = table \cup {[id |-> written + 1, turn |-> writing]}
      BY <1>5 DEF WriteSucceeds, history
    <3>2. [id |-> written + 1, turn |-> writing].turn = writing
      OBVIOUS
    <3> DEFINE new == [id |-> written + 1, turn |-> writing]
    <3> HIDE DEF new
    <3>3. HasRow' = {row.turn : row \in table \cup {new}} /\ new.turn = writing
      BY <3>1, <3>2 DEF HasRow, new
    <3> QED BY <3>3 DEF HasRow
  <2>4. writing' # NoTurn => writing' = Head(buffer')
    BY <1>5 DEF WriteSucceeds, history
  <2>5. \A i \in 1..Gone' : i \in 1..Gone \/ i = Gone + 1
    BY <1>1, <2>2
  <2> QED BY <1>0, <1>1, <1>5, <2>1, <2>2, <2>3, <2>4, <2>5 DEF NoneLost
<1>6. ASSUME NEW s \in Session, DeleteSession(s), dropped' = {}
      PROVE  /\ writing' # NoTurn => writing' = Head(buffer')
             /\ \A i \in 1..Gone' : session'[recorded'[i]] \in live' => recorded'[i] \in HasRow'
  <2>1. /\ UNCHANGED <<session, buffer, recorded, dropped, writing>>
        /\ live' = live \ {s} /\ table' = table \ Rows(s)
    BY <1>6 DEF DeleteSession, turnVars, bufferVars, history
  <2>2. Gone' = Gone
    BY <2>1 DEF Gone
  <2>3. \A u \in HasRow : session[u] # s => u \in HasRow'
    BY <2>1 DEF HasRow, Rows
  <2> QED BY <1>0, <1>1, <1>6, <2>1, <2>2, <2>3 DEF NoneLost
<1>7. \/ (\E t \in Turn : Answer(t)) \/ WriteSucceeds \/ (\E s \in Session : DeleteSession(s))
      \/ /\ UNCHANGED <<buffer, recorded, dropped, table, session, live>>
         /\ writing' \in {writing, NoTurn} \/ writing' = Head(buffer)
  BY DEF Next, Start, GiveUp, WriteFails, AfterFailure, Retry, Flush, vars, turnVars, bufferVars, history
<1> QED BY <1>3, <1>4, <1>5, <1>6, <1>7 DEF NoneLost

(* The entries of a sequence without its head, and with one more.            *)
LEMMA ElementsLaw ==
  ASSUME NEW S, NEW s \in Seq(S), NEW e \in S
  PROVE  /\ Elements(Append(s, e)) = Elements(s) \cup {e}
         /\ s # <<>> /\ (\A i, j \in 1..Len(s) : s[i] = s[j] => i = j) =>
              Elements(Tail(s)) = Elements(s) \ {Head(s)} /\ Head(s) \in Elements(s)
<1>1. Len(s) \in Nat
  BY SeqLaw
<1>2. Elements(Append(s, e)) = Elements(s) \cup {e}
  <2>1. /\ Len(Append(s, e)) = Len(s) + 1 /\ Append(s, e)[Len(s) + 1] = e
        /\ \A i \in 1..Len(s) : Append(s, e)[i] = s[i]
    BY PushLaw
  <2>2. \A i \in 1..(Len(s) + 1) : i \in 1..Len(s) \/ i = Len(s) + 1
    BY <1>1
  <2>3. \A i \in 1..Len(s) : i \in 1..(Len(s) + 1)
    BY <1>1
  <2>4. Len(s) + 1 \in 1..(Len(s) + 1)
    BY <1>1
  <2> QED BY <2>1, <2>2, <2>3, <2>4 DEF Elements
<1>3. ASSUME s # <<>>, \A i, j \in 1..Len(s) : s[i] = s[j] => i = j
      PROVE  Elements(Tail(s)) = Elements(s) \ {Head(s)} /\ Head(s) \in Elements(s)
  <2>1. /\ Head(s) = s[1] /\ Len(s) \in Nat \ {0} /\ Len(Tail(s)) = Len(s) - 1
        /\ \A i \in 1..Len(Tail(s)) : Tail(s)[i] = s[i + 1]
    BY <1>3, ShiftLaw
  <2>2. 1 \in 1..Len(s)
    BY <2>1
  <2>3. ASSUME NEW i \in 1..Len(Tail(s)) PROVE i + 1 \in 1..Len(s) /\ i + 1 # 1
    BY <2>1
  <2>4. ASSUME NEW i \in 1..Len(s), i # 1
        PROVE  i - 1 \in 1..Len(Tail(s)) /\ Tail(s)[i - 1] = s[i]
    <3>1. i - 1 \in 1..Len(Tail(s)) /\ (i - 1) + 1 = i
      BY <2>1, <2>4
    <3> QED BY <2>1, <3>1
  <2>5. Elements(Tail(s)) \subseteq Elements(s) \ {Head(s)}
    BY <1>3, <2>1, <2>2, <2>3 DEF Elements
  <2>6. Elements(s) \ {Head(s)} \subseteq Elements(Tail(s))
    BY <2>1, <2>4 DEF Elements
  <2> QED BY <2>1, <2>2, <2>5, <2>6 DEF Elements
<1> QED BY <1>2, <1>3

(* The buffer holds no entry twice.                                          *)
LEMMA BufferOnce ==
  ASSUME Inv
  PROVE  \A i, j \in 1..Len(buffer) : buffer[i] = buffer[j] => i = j
<1>1. TypeOK /\ CountersAddUp /\ BufferIsEnd /\ RecordedOnce
  BY DEF Inv
<1>2. /\ Gone \in Nat /\ Len(buffer) \in Nat /\ Len(recorded) \in Nat
      /\ Gone = Len(recorded) - Len(buffer)
  BY <1>1, LengthsOK DEF Gone
<1>3. SUFFICES ASSUME NEW i \in 1..Len(buffer), NEW j \in 1..Len(buffer), buffer[i] = buffer[j]
               PROVE  i = j
  OBVIOUS
<1>4. Gone + i \in 1..Len(recorded) /\ Gone + j \in 1..Len(recorded)
  BY <1>2
<1>5. recorded[Gone + i] = recorded[Gone + j]
  BY <1>1, <1>3 DEF BufferIsEnd
<1>6. Gone + i = Gone + j
  BY <1>1, <1>4, <1>5 DEF RecordedOnce
<1> QED BY <1>2, <1>6

(* Each entry stays in one place, whatever step is taken, until an overflow  *)
(* takes the entry being written.                                            *)
LEMMA AccountedKept ==
  ASSUME Inv, [Next]_vars
  PROVE  EntriesAccounted' /\ HeadWritten'
<1>0. /\ TypeOK /\ CountersAddUp /\ BufferIsEnd /\ WritingOK /\ HeadWritten /\ EntriesAccounted
      /\ written \in Nat /\ buffer \in Seq(Turn)
  BY DEF Inv, TypeOK
<1> DEFINE Resolved == {u \in Turn : flushed[u] = "resolved"}
<1>a. IsFiniteSet(Resolved)
  BY TurnAssumption, FS_Subset
<1>1. ASSUME NEW t \in Turn, Answer(t), ~overtaken'
      PROVE  EntriesAccounted' /\ HeadWritten'
  <2>1. /\ Record(t) /\ stage[t] = "thinking" /\ stage' = [stage EXCEPT ![t] = "answered"]
        /\ UNCHANGED <<session, written, table, live>>
    BY <1>1 DEF Answer
  <2> DEFINE kept == IF Overflows THEN Tail(buffer) ELSE buffer
             lost == IF Overflows THEN {Head(buffer)} ELSE {}
  <2>2. /\ dropped' = dropped \cup lost /\ buffer' = Append(kept, t)
        /\ flushed' = [u \in Turn |->
                         IF u = t THEN "pending" ELSE IF u \in lost THEN "rejected" ELSE flushed[u]]
        /\ ~overtaken /\ writing \notin lost
        /\ writing' = IF writing = NoTurn /\ buffer' # <<>> THEN Head(buffer') ELSE writing
    BY <1>1, <2>1 DEF Record, Flush
  <2>3. Overflows => buffer # <<>>
    BY <1>0, CapacityAssumption, SeqLaw DEF Overflows
  <2>4. /\ kept \in Seq(Turn) /\ Elements(kept) = Elements(buffer) \ lost
        /\ lost \subseteq Elements(buffer)
    <3>1. CASE Overflows
      <4>1. Tail(buffer) \in Seq(Turn)
        BY <1>0, <2>3, <3>1, ShiftLaw
      <4>2. Elements(Tail(buffer)) = Elements(buffer) \ {Head(buffer)} /\ Head(buffer) \in Elements(buffer)
        BY <1>0, <2>3, <3>1, BufferOnce, ElementsLaw
      <4> QED BY <3>1, <4>1, <4>2
    <3>2. CASE ~Overflows
      BY <1>0, <3>2
    <3> QED BY <3>1, <3>2
  <2> HIDE DEF kept, lost
  <2>5. Elements(buffer') = (Elements(buffer) \ lost) \cup {t}
    BY <2>2, <2>4, ElementsLaw
  <2>6. /\ \A u \in Turn : /\ flushed[u] = "none" <=> stage[u] # "answered"
                           /\ flushed[u] = "pending" <=> u \in Elements(buffer)
                           /\ flushed[u] = "rejected" <=> u \in dropped
                           /\ flushed[u] = "resolved" /\ session[u] \in live => u \in HasRow
        /\ written = Cardinality(Resolved)
    BY <1>0, <2>2 DEF EntriesAccounted
  <2>7. flushed[t] = "none" /\ t \notin lost /\ t \notin dropped
    BY <2>1, <2>4, <2>6
  <2>8. HasRow' = HasRow /\ \A u \in Turn : stage'[u] = IF u = t THEN "answered" ELSE stage[u]
    BY <1>0, <2>1 DEF HasRow, TypeOK
  <2>9. ASSUME NEW u \in Turn
        PROVE  /\ flushed'[u] = "none" <=> stage'[u] # "answered"
               /\ flushed'[u] = "pending" <=> u \in Elements(buffer')
               /\ flushed'[u] = "rejected" <=> u \in dropped'
               /\ flushed'[u] = "resolved" /\ session'[u] \in live' => u \in HasRow'
    <3>1. CASE u = t
      BY <2>2, <2>5, <2>7, <2>8, <3>1
    <3>2. CASE u # t /\ u \in lost
      <4>1. flushed[u] = "pending" /\ flushed'[u] = "rejected"
        BY <2>2, <2>4, <2>6, <3>2
      <4> QED BY <2>2, <2>5, <2>6, <2>8, <3>2, <4>1
    <3>3. CASE u # t /\ u \notin lost
      <4>1. flushed'[u] = flushed[u]
        BY <2>2, <3>3
      <4> QED BY <2>1, <2>2, <2>5, <2>6, <2>8, <3>3, <4>1
    <3> QED BY <3>1, <3>2, <3>3
  <2>10. Resolved' = Resolved
    <3>1. \A u \in Turn : flushed'[u] = "resolved" <=> flushed[u] = "resolved"
      BY <2>2, <2>4, <2>6, <2>7
    <3> QED BY <3>1
  <2>11. EntriesAccounted'
    BY <2>1, <2>6, <2>9, <2>10 DEF EntriesAccounted
  <2>12. HeadWritten'
    <3>1. CASE writing = NoTurn
      <4>1. writing' # NoTurn => writing' = Head(buffer')
        BY <2>2, <3>1
      <4> QED BY <4>1 DEF HeadWritten
    <3>2. CASE writing # NoTurn
      <4>1. writing = Head(buffer) /\ buffer # <<>> /\ writing' = writing
        BY <1>0, <2>2, <3>2 DEF HeadWritten, WritingOK
      <4>2. ~Overflows
        BY <2>2, <4>1 DEF lost
      <4>3. Head(buffer') = Head(buffer)
        BY <1>0, <2>1, <4>1, <4>2, RecordLaw
      <4> QED BY <4>1, <4>3 DEF HeadWritten
    <3> QED BY <3>1, <3>2
  <2> QED BY <2>11, <2>12
<1>2. ASSUME WriteSucceeds, ~overtaken'
      PROVE  EntriesAccounted' /\ HeadWritten'
  <2>1. /\ writing # NoTurn /\ buffer' = Tail(buffer) /\ written' = written + 1
        /\ flushed' = [flushed EXCEPT ![writing] = IF @ = "pending" THEN "resolved" ELSE @]
        /\ writing' = IF buffer' = <<>> THEN NoTurn ELSE Head(buffer')
        /\ table' = table \cup {[id |-> written + 1, turn |-> writing]}
        /\ UNCHANGED <<stage, session, dropped, live, overtaken>>
    BY <1>2 DEF WriteSucceeds, Shift, turnVars, history
  <2>2. ~overtaken /\ buffer # <<>> /\ writing = Head(buffer)
    BY <1>0, <1>2, <2>1 DEF HeadWritten, WritingOK
  <2>3. writing \in Turn /\ writing \in Elements(buffer)
        /\ Elements(buffer') = Elements(buffer) \ {writing}
    BY <1>0, <2>1, <2>2, ShiftLaw, BufferOnce, ElementsLaw
  <2>4. /\ \A u \in Turn : /\ flushed[u] = "none" <=> stage[u] # "answered"
                           /\ flushed[u] = "pending" <=> u \in Elements(buffer)
                           /\ flushed[u] = "rejected" <=> u \in dropped
                           /\ flushed[u] = "resolved" /\ session[u] \in live => u \in HasRow
        /\ written = Cardinality(Resolved)
    BY <1>0, <2>2 DEF EntriesAccounted
  <2>5. flushed[writing] = "pending"
        /\ \A u \in Turn : flushed'[u] = IF u = writing THEN "resolved" ELSE flushed[u]
    BY <1>0, <2>1, <2>3, <2>4 DEF TypeOK
  <2>6. writing \in HasRow' /\ HasRow \subseteq HasRow'
    <3>1. PICK new : new = [id |-> written + 1, turn |-> writing]
      OBVIOUS
    <3>2. new.turn = writing /\ table' = table \cup {new}
      BY <2>1, <3>1
    <3> QED BY <3>2 DEF HasRow
  <2>7. \A u \in Turn : /\ flushed'[u] = "none" <=> stage'[u] # "answered"
                        /\ flushed'[u] = "pending" <=> u \in Elements(buffer')
                        /\ flushed'[u] = "rejected" <=> u \in dropped'
                        /\ flushed'[u] = "resolved" /\ session'[u] \in live' => u \in HasRow'
    BY <2>1, <2>3, <2>4, <2>5, <2>6
  <2>8. Resolved' = Resolved \cup {writing} /\ writing \notin Resolved
    BY <2>3, <2>5
  <2>9. Cardinality(Resolved') = Cardinality(Resolved) + 1
    <3> HIDE DEF Resolved
    <3> QED BY <1>a, <2>8, FS_AddElement
  <2>10. written' = Cardinality(Resolved')
    BY <2>1, <2>4, <2>9
  <2>11. EntriesAccounted'
    BY <2>7, <2>10 DEF EntriesAccounted
  <2> QED BY <2>1, <2>11 DEF HeadWritten
<1>3. ASSUME UNCHANGED <<stage, session, buffer, table, live, written, dropped, flushed, overtaken>>,
             writing' \in {writing, NoTurn} \/ writing' = Head(buffer)
      PROVE  EntriesAccounted' /\ HeadWritten'
  BY <1>0, <1>3 DEF EntriesAccounted, HeadWritten, HasRow
<1>4. ASSUME NEW t \in Turn, Start(t) \/ GiveUp(t) PROVE EntriesAccounted' /\ HeadWritten'
  <2>1. /\ UNCHANGED <<session, buffer, writing, table, live, written, dropped, flushed, overtaken>>
        /\ \A u \in Turn : stage'[u] # "answered" <=> stage[u] # "answered"
    BY <1>0, <1>4 DEF Start, GiveUp, bufferVars, history, TypeOK
  <2> QED BY <1>0, <2>1 DEF EntriesAccounted, HeadWritten, HasRow
<1>5. ASSUME NEW s \in Session, DeleteSession(s) PROVE EntriesAccounted' /\ HeadWritten'
  <2>1. /\ UNCHANGED <<stage, session, buffer, writing, written, dropped, flushed, overtaken>>
        /\ live' = live \ {s} /\ table' = table \ Rows(s)
    BY <1>5 DEF DeleteSession, turnVars, bufferVars, history
  <2>2. \A u \in HasRow : session[u] # s => u \in HasRow'
    BY <2>1 DEF HasRow, Rows
  <2> QED BY <1>0, <2>1, <2>2 DEF EntriesAccounted, HeadWritten
<1>6. overtaken' => EntriesAccounted' /\ HeadWritten'
  BY DEF EntriesAccounted, HeadWritten
<1>7. \/ \E t \in Turn : Start(t) \/ Answer(t) \/ GiveUp(t)
      \/ WriteSucceeds \/ \E s \in Session : DeleteSession(s)
      \/ /\ UNCHANGED <<stage, session, buffer, table, live, written, dropped, flushed, overtaken>>
         /\ writing' \in {writing, NoTurn} \/ writing' = Head(buffer)
  BY DEF Next, WriteFails, AfterFailure, Retry, Flush, vars, turnVars, bufferVars, history
<1> QED BY <1>1, <1>2, <1>3, <1>4, <1>5, <1>6, <1>7

(***************************************************************************)
(* The theorems.                                                           *)
(***************************************************************************)

(* A log nobody wrote to yet satisfies the invariant.                        *)
LEMMA InvInit == Init => Inv
<1>1. SUFFICES ASSUME Init PROVE Inv
  OBVIOUS
<1>2. TypeOK
  <2>1. buffer \in Seq(Turn) /\ recorded \in Seq(Turn) /\ Len(buffer) = 0
    BY <1>1 DEF Init
  <2>2. Len(buffer) <= Capacity
    BY <2>1, CapacityAssumption
  <2>3. dropped \subseteq Turn /\ table \subseteq [id : Nat, turn : Turn] /\ live \subseteq Session
    BY <1>1 DEF Init
  <2>4. seen \in [Turn -> [turnCount : Nat, stored : Nat]]
    BY <1>1 DEF Init
  <2> QED BY <1>1, <2>1, <2>2, <2>3, <2>4 DEF Init, TypeOK
<1>3. Cardinality(dropped) = 0 /\ Len(buffer) = 0 /\ Len(recorded) = 0
  BY <1>1, FS_EmptySet DEF Init
<1>4. EntriesAccounted
  <2>1. Elements(<<>>) = {} /\ \A t \in Turn : flushed[t] = "none" /\ stage[t] = "new"
    BY <1>1 DEF Init, Elements
  <2>2. {t \in Turn : flushed[t] = "resolved"} = {}
    BY <2>1
  <2> QED BY <1>1, <2>1, <2>2, FS_EmptySet DEF Init, EntriesAccounted
<1> QED
  BY <1>1, <1>2, <1>3, <1>4
     DEF Init, Inv, CountersAddUp, FlushPending, RecordedOnce, BufferIsEnd, TotalsBounded,
         WritingOK, TableOK, NoneLost, Gone, HeadWritten

(* The invariant is inductive.                                               *)
THEOREM InvInvariant == Spec => []Inv
<1>1. Inv /\ [Next]_vars => Inv'
  BY TypeKept, CountersKept, FlushKept, RecordedOnceKept, BufferIsEndKept, TotalsKept,
     WritingKept, TableKept, NoneLostKept, AccountedKept DEF Inv
<1> QED BY <1>1, InvInit, PTL DEF Spec

(* In every state the counters an operator reads add up; until an overflow   *)
(* takes the entry being written, each entry is in one place and counted     *)
(* there once; and entries that wait have an insert under way or a timer     *)
(* that is set (chatLog.service.js).                                         *)
THEOREM LogSoundTheorem == Spec => []LogSound
<1>1. Inv => LogSound
  BY DEF Inv, LogSound
<1> QED BY <1>1, InvInvariant, PTL

(* The place of a recorded turn.                                             *)
LEMMA PositionLaw ==
  ASSUME RecordedOnce, NEW i \in 1..Len(recorded)
  PROVE  Position(recorded[i]) = i
BY DEF RecordedOnce, Position

(* Rows keep the order in which turns ended, however many inserts failed and *)
(* entries were dropped in between (flush, record).                          *)
THEOREM OrderKeptTheorem == Spec => []OrderKept
<1>1. ASSUME Inv, NEW row \in table, NEW next \in table, row.id < next.id
      PROVE  Position(row.turn) < Position(next.turn)
  <2>1. TypeOK /\ CountersAddUp /\ RecordedOnce /\ TableOK
    BY <1>1 DEF Inv
  <2>2. Gone \in Nat /\ Len(recorded) \in Nat /\ Gone <= Len(recorded)
    BY <2>1, LengthsOK DEF Gone
  <2>3. PICK i \in 1..Gone, j \in 1..Gone : recorded[i] = row.turn /\ recorded[j] = next.turn
    BY <1>1, <2>1 DEF TableOK
  <2>4. i \in 1..Len(recorded) /\ j \in 1..Len(recorded)
    BY <2>2
  <2>5. i < j
    BY <1>1, <2>1, <2>3, <2>4 DEF TableOK
  <2>6. Position(row.turn) = i /\ Position(next.turn) = j
    BY <2>1, <2>3, <2>4, PositionLaw
  <2> QED BY <2>5, <2>6
<1>2. Inv => OrderKept
  BY <1>1 DEF OrderKept
<1> QED BY <1>2, InvInvariant, PTL

(* Failed inserts alone lose nothing: without an overflow, a turn recorded   *)
(* for a conversation that lives is in the buffer or has its row (flush).    *)
THEOREM NothingLostByFailuresTheorem == Spec => []NothingLostByFailures
<1>1. ASSUME Inv, dropped = {} PROVE Missing = {}
  <2>1. TypeOK /\ CountersAddUp /\ BufferIsEnd /\ NoneLost
    BY <1>1 DEF Inv
  <2>2. /\ Gone \in Nat /\ Len(recorded) \in Nat /\ Len(buffer) \in Nat
        /\ Gone = Len(recorded) - Len(buffer)
    BY <2>1, LengthsOK DEF Gone
  <2>3. ASSUME NEW i \in 1..Len(recorded), session[recorded[i]] \in live
        PROVE  recorded[i] \in HasRow \/ recorded[i] \in Elements(buffer)
    <3>1. CASE i \in 1..Gone
      BY <1>1, <2>1, <2>3, <3>1 DEF NoneLost
    <3>2. CASE i \notin 1..Gone
      <4>1. i - Gone \in 1..Len(buffer) /\ Gone + (i - Gone) = i
        BY <2>2, <3>2
      <4>2. buffer[i - Gone] = recorded[i]
        BY <2>1, <4>1 DEF BufferIsEnd
      <4> QED BY <4>1, <4>2 DEF Elements
    <3> QED BY <3>1, <3>2
  <2> QED BY <2>3 DEF Missing, Elements
<1>2. Inv => NothingLostByFailures
  BY <1>1 DEF NothingLostByFailures
<1> QED BY <1>2, InvInvariant, PTL

=============================================================================
