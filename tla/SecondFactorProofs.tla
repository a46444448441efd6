------------------------- MODULE SecondFactorProofs -------------------------
(***************************************************************************)
(* Proofs about SecondFactor for every number of requests, secrets, sheets *)
(* and codes of a sheet, every window and every number of time steps.      *)
(***************************************************************************)
EXTENDS SecondFactor, FiniteSetTheorems, TLAPS

(***************************************************************************)
(* The inductive invariant.                                                *)
(***************************************************************************)

Place == {"idle", "enrol", "verify", "spend", "confirm", "clear", "insert", "dropCodes", "dropRow"}

JobRow ==
  [at : Place, kind : {"none", "enrol", "confirm", "verify", "regenerate", "disable"},
   row : Row(Secret) \cup {None}, code : (Secret \X (1..MaxStep)) \cup {None},
   read : Secret \cup {None}, fresh : BOOLEAN]

(* What a request that nobody has overlapped since it looked may rely on: to *)
(* replace a secret that is not in use, and to confirm one that was proved.  *)
JobOK(x) ==
  /\ x.at \in {"verify", "spend"} => x.code \in shown \X (1..MaxStep)
  /\ x.at = "enrol" /\ x.fresh /\ x.row # None => mfa # None /\ ~mfa.confirmed
  /\ x.at = "spend" /\ x.fresh => mfa # None /\ mfa.secret = x.code[1]
  /\ x.at = "confirm" /\ x.fresh => mfa # None /\ Proved(mfa.secret)

JobsOK == job \in [Job -> JobRow] /\ \A j \in Job : JobOK(job[j])

FactorOK == mfa # None /\ mfa.confirmed /\ "enrolment" \notin raced => Proved(mfa.secret)

(* No step that was accepted for the secret in the row is later than its     *)
(* counter.                                                                  *)
CountersOK ==
  mfa # None => \A n \in 1..MaxStep : <<mfa.secret, n>> \in accepted => n <= mfa.counter

(* While one request is between clearing the codes and inserting new ones,   *)
(* there are none.                                                           *)
SheetsOK ==
  "sheets" \notin raced =>
    /\ \A c, d \in unspent : c[1] = d[1]
    /\ \A j \in Job : job[j].at = "insert" =>
         unspent = {} /\ \A i \in Job : job[i].at = "insert" => i = j

(* A code that was accepted was printed, and is spent.                       *)
RecoveryOK ==
  /\ shown \subseteq Secret /\ printed \subseteq Sheet
  /\ unspent \cap accepted = {} /\ accepted \cap Code \subseteq printed \X Position

Inv == TypeOK /\ JobsOK /\ FactorOK /\ CountersOK /\ SheetsOK /\ RecoveryOK /\ CodesAcceptedOnce

(***************************************************************************)
(* What the parts of it need of a step.                                    *)
(***************************************************************************)

(* What was shown and accepted stays so.                                     *)
Grows == shown \subseteq shown' /\ accepted \subseteq accepted'

(* The row does not change but for its counter.                              *)
RowKept ==
  mfa # None => mfa' # None /\ mfa'.secret = mfa.secret /\ mfa'.confirmed = mfa.confirmed

(* A free slot.                                                              *)
LEMMA NoJobOK ==
  /\ NoJob \in JobRow /\ NoJob.at = "idle" /\ NoJob.row = None /\ NoJob.code = None
  /\ NoJob.kind = "none" /\ NoJob.read = None /\ NoJob.fresh = TRUE
BY DEF NoJob, JobRow, Place

(* A request that stays as it is may go on relying on what it did.           *)
LEMMA SameJob ==
  ASSUME Inv, NEW i \in Job, job'[i] = job[i], Grows, RowKept
  PROVE  job'[i] \in JobRow /\ JobOK(job[i])'
<1>1. job[i] \in JobRow /\ JobOK(job[i])
  BY DEF Inv, JobsOK
<1>2. QED
  BY <1>1 DEF JobOK, Proved, Grows, RowKept

(* A slot whose request has nothing to rely on.                              *)
LEMMA EmptyJob ==
  ASSUME NEW j \in Job, job'[j].at \notin {"verify", "spend", "enrol", "confirm"}
  PROVE  JobOK(job[j])'
BY DEF JobOK

(* The codes stay of one sheet when none are added and nobody begins to      *)
(* add.                                                                      *)
LEMMA SheetsKept ==
  ASSUME Inv, unspent' \subseteq unspent, "sheets" \in raced => "sheets" \in raced',
         \A i \in Job : job'[i].at = "insert" => job[i].at = "insert"
  PROVE  SheetsOK'
BY DEF Inv, SheetsOK

(* A request moved on and the tables did not change.                         *)
LEMMA MovedStep ==
  ASSUME Inv, NEW j \in Job, job' = [job EXCEPT ![j] = job'[j]], job'[j] \in JobRow, JobOK(job[j])',
         job'[j].at = "insert" => job[j].at = "insert",
         UNCHANGED <<mix, now, mfa, shown, printed, unspent, accepted, again, raced>>
  PROVE  Inv'
<1>1. job \in [Job -> JobRow] /\ \A i \in Job : i # j => job'[i] = job[i]
  BY DEF Inv, JobsOK
<1>2. Grows /\ RowKept
  BY DEF Grows, RowKept
<1>3. \A i \in Job : job'[i] \in JobRow /\ JobOK(job[i])'
  BY <1>1, <1>2, SameJob
<1>4. JobsOK'
  BY <1>1, <1>3 DEF JobsOK
<1>5. SheetsOK'
  BY <1>1, SheetsKept
<1>6. TypeOK' /\ FactorOK' /\ CountersOK' /\ RecoveryOK' /\ CodesAcceptedOnce'
  BY DEF Inv, TypeOK, FactorOK, CountersOK, RecoveryOK, CodesAcceptedOnce, Proved
<1>7. QED
  BY <1>4, <1>5, <1>6 DEF Inv

(* The requests that begin, and those that are cut, write nothing.           *)
LEMMA BeginSteps ==
  ASSUME Inv, NEW j \in Job,
         \/ BeginEnrolment(j) \/ Regenerate(j) \/ BeginDisable(j) \/ Cut(j)
         \/ \E k \in Secret, n \in 1..MaxStep : BeginConfirm(j, k, n) \/ BeginVerify(j, k, n)
  PROVE  Inv'
<1>1. job \in [Job -> JobRow] /\ mfa \in Row(Secret) \cup {None} /\ shown \subseteq Secret
  BY DEF Inv, JobsOK, TypeOK, RecoveryOK, Row
<1>2. CASE BeginEnrolment(j)
  <2> DEFINE new == [NoJob EXCEPT !.at = "enrol", !.kind = "enrol", !.row = mfa]
  <2>1. new \in JobRow /\ new.at = "enrol" /\ new.row = mfa
    BY <1>1, NoJobOK DEF JobRow, NoJob, Place
  <2>2. job'[j] = new /\ job' = [job EXCEPT ![j] = job'[j]]
    BY <1>1, <1>2 DEF BeginEnrolment, Begin
  <2> HIDE DEF new
  <2>3. JobOK(job[j])'
    BY <1>2, <2>1, <2>2 DEF JobOK, BeginEnrolment
  <2>4. QED
    BY <1>2, <2>1, <2>2, <2>3, MovedStep DEF BeginEnrolment
<1>3. CASE Regenerate(j)
  <2>1. Regeneration \in JobRow /\ Regeneration.at = "clear"
    BY NoJobOK DEF JobRow, NoJob, Place, Regeneration
  <2>2. job'[j] = Regeneration /\ job' = [job EXCEPT ![j] = job'[j]]
    BY <1>1, <1>3 DEF Regenerate, Begin
  <2>3. QED
    BY <1>3, <2>1, <2>2, EmptyJob, MovedStep DEF Regenerate
<1>4. CASE BeginDisable(j)
  <2> DEFINE new == [NoJob EXCEPT !.at = "dropCodes", !.kind = "disable", !.row = mfa]
  <2>1. new \in JobRow /\ new.at = "dropCodes"
    BY <1>1, NoJobOK DEF JobRow, NoJob, Place
  <2>2. job'[j] = new /\ job' = [job EXCEPT ![j] = job'[j]]
    BY <1>1, <1>4 DEF BeginDisable, Begin
  <2> HIDE DEF new
  <2>3. QED
    BY <1>4, <2>1, <2>2, EmptyJob, MovedStep DEF BeginDisable
<1>5. CASE Cut(j)
  <2>1. job'[j] = NoJob /\ job' = [job EXCEPT ![j] = job'[j]]
    BY <1>1, <1>5 DEF Cut
  <2>2. QED
    BY <1>5, <2>1, NoJobOK, EmptyJob, MovedStep DEF Cut
<1>6. ASSUME NEW k \in Secret, NEW n \in 1..MaxStep, BeginConfirm(j, k, n) PROVE Inv'
  <2> DEFINE new == [NoJob EXCEPT !.at = "verify", !.kind = "confirm", !.row = mfa, !.code = <<k, n>>]
  <2>1. new \in JobRow /\ new.at = "verify" /\ new.code = <<k, n>>
    BY <1>1, NoJobOK DEF JobRow, NoJob, Place
  <2>2. job'[j] = new /\ job' = [job EXCEPT ![j] = job'[j]]
    BY <1>1, <1>6 DEF BeginConfirm, Begin
  <2> HIDE DEF new
  <2>3. <<k, n>> \in shown' \X (1..MaxStep)
    BY <1>6 DEF BeginConfirm
  <2>4. JobOK(job[j])'
    BY <2>1, <2>2, <2>3 DEF JobOK
  <2>5. QED
    BY <1>6, <2>1, <2>2, <2>4, MovedStep DEF BeginConfirm
<1>7. ASSUME NEW k \in Secret, NEW n \in 1..MaxStep, BeginVerify(j, k, n) PROVE Inv'
  <2> DEFINE new == [NoJob EXCEPT !.at = "verify", !.kind = "verify", !.code = <<k, n>>]
  <2>1. new \in JobRow /\ new.at = "verify" /\ new.code = <<k, n>>
    BY <1>1, NoJobOK DEF JobRow, NoJob, Place
  <2>2. job'[j] = new /\ job' = [job EXCEPT ![j] = job'[j]]
    BY <1>1, <1>7 DEF BeginVerify, Begin
  <2> HIDE DEF new
  <2>3. <<k, n>> \in shown' \X (1..MaxStep)
    BY <1>7 DEF BeginVerify
  <2>4. JobOK(job[j])'
    BY <2>1, <2>2, <2>3 DEF JobOK
  <2>5. QED
    BY <1>7, <2>1, <2>2, <2>4, MovedStep DEF BeginVerify
<1>8. QED
  BY <1>2, <1>3, <1>4, <1>5, <1>6, <1>7

(* verifyTotp: the secret that is in the row has the code.                   *)
LEMMA VerifyStep == ASSUME Inv, NEW j \in Job, Verify(j) PROVE Inv'
<1>1. /\ job[j] \in JobRow /\ job \in [Job -> JobRow] /\ JobOK(job[j]) /\ job[j].at = "verify"
      /\ mfa \in Row(Secret) \cup {None}
      /\ UNCHANGED <<mix, now, mfa, shown, printed, unspent, accepted, again, raced>>
  BY DEF Inv, JobsOK, Verify, TypeOK, RecoveryOK, Row
<1>2. CASE mfa # None /\ mfa.secret = job[j].code[1]
           /\ job' = [job EXCEPT ![j] = [At(j, "spend") EXCEPT !.read = mfa.id, !.fresh = TRUE]]
  <2>1. /\ job'[j] = [At(j, "spend") EXCEPT !.read = mfa.id, !.fresh = TRUE]
        /\ mfa.id \in Secret
    BY <1>1, <1>2 DEF Row
  <2>2. job'[j] \in JobRow /\ job'[j].at = "spend" /\ job'[j].code = job[j].code
    BY <1>1, <2>1 DEF At, JobRow, Place
  <2>3. JobOK(job[j])'
    BY <1>1, <1>2, <2>2 DEF JobOK
  <2>4. job' = [job EXCEPT ![j] = job'[j]]
    BY <1>1, <1>2, <2>1
  <2>5. QED
    BY <1>1, <2>2, <2>3, <2>4, MovedStep
<1>3. CASE job' = [job EXCEPT ![j] = NoJob]
  <2>1. job'[j] = NoJob /\ job' = [job EXCEPT ![j] = job'[j]]
    BY <1>1, <1>3
  <2>2. QED
    BY <1>1, <2>1, NoJobOK, EmptyJob, MovedStep
<1>4. QED
  BY <1>2, <1>3 DEF Verify, Matches

(***************************************************************************)
(* The steps that write the row.                                           *)
(***************************************************************************)

(* What others loaded is old when a secret, or whether it is confirmed,      *)
(* changed.                                                                  *)
LEMMA WrittenJobs ==
  ASSUME Inv, NEW j \in Job, NEW row, NEW mine \in JobRow, Write(j, row, mine), JobOK(job[j])', Grows
  PROVE  JobsOK' /\ job'[j] = mine /\ \A i \in Job : i # j => job'[i].at = job[i].at
<1>1. job'[j] = mine /\ mfa' = row /\ job' = [i \in Job |-> job'[i]]
  BY DEF Write
<1>2. ASSUME NEW i \in Job, i # j
      PROVE  job'[i] \in JobRow /\ JobOK(job[i])' /\ job'[i].at = job[i].at
  <2> DEFINE kept == job[i].fresh /\ Same(row) /\ row.secret = mfa.secret /\ row.confirmed = mfa.confirmed
  <2>1. job[i] \in JobRow /\ JobOK(job[i])
    BY DEF Inv, JobsOK
  <2>2. job'[i] = [job[i] EXCEPT !.fresh = kept]
    BY <1>2 DEF Write
  <2>3. kept \in BOOLEAN
    BY <2>1 DEF JobRow, Same
  <2>4. kept => job[i].fresh /\ mfa # None /\ row # None
                /\ row.secret = mfa.secret /\ row.confirmed = mfa.confirmed
    BY DEF Same
  <2> HIDE DEF kept
  <2>5. /\ job'[i] \in JobRow /\ job'[i].at = job[i].at /\ job'[i].row = job[i].row
        /\ job'[i].code = job[i].code /\ job'[i].fresh = kept
    BY <2>1, <2>2, <2>3 DEF JobRow
  <2>6. JobOK(job[i])'
    BY <1>1, <2>1, <2>4, <2>5 DEF JobOK, Grows, Proved
  <2>7. QED
    BY <2>5, <2>6
<1>3. QED
  BY <1>1, <1>2 DEF JobsOK

(* One that found no row to write to.                                        *)
LEMMA KeptJobs ==
  ASSUME Inv, NEW j \in Job, NEW mine \in JobRow, Keep(j, mine), JobOK(job[j])', Grows
  PROVE  /\ JobsOK' /\ mfa' = mfa /\ job'[j] = mine
         /\ \A i \in Job : i # j => job'[i].at = job[i].at
<1>1. /\ job \in [Job -> JobRow] /\ job' = [job EXCEPT ![j] = mine] /\ mfa' = mfa
  BY DEF Keep, Inv, JobsOK
<1>2. job'[j] = mine /\ \A i \in Job : i # j => job'[i] = job[i]
  BY <1>1
<1>3. \A i \in Job : i # j => job'[i] \in JobRow /\ JobOK(job[i])'
  BY <1>1, <1>2, SameJob DEF RowKept
<1>4. QED
  BY <1>1, <1>2, <1>3 DEF JobsOK

(* A new secret has no code yet.                                             *)
LEMMA EnrolStep == ASSUME Inv, NEW j \in Job, NEW k \in Secret, Enrol(j, k) PROVE Inv'
<1> DEFINE old == job[j].row
<1>1. /\ job[j].at = "enrol" /\ k \notin shown /\ shown' = shown \cup {k} /\ JobOK(job[j])
      /\ raced' = (IF job[j].fresh THEN raced ELSE raced \cup {"enrolment"})
      /\ UNCHANGED <<mix, now, printed, unspent, accepted, again>>
      /\ job[j] \in JobRow /\ job \in [Job -> JobRow]
  BY DEF Enrol, Inv, JobsOK
<1>2. /\ mfa \in Row(shown) \cup {None} /\ Grows /\ k \in shown'
      /\ accepted \subseteq (shown \X (1..MaxStep)) \cup Code
  BY <1>1 DEF Inv, TypeOK, Grows
<1>3. \A n \in 1..MaxStep : <<k, n>> \notin accepted
  <2>1. \A n \in 1..MaxStep : <<k, n>> \notin Code
    BY RowAssumption DEF Code
  <2>2. QED
    BY <1>1, <1>2, <2>1
<1>4. CASE ~Same(old) /\ Keep(j, NoJob)
  <2>1. job'[j] = NoJob /\ mfa' = mfa
    BY <1>1, <1>4 DEF Keep
  <2>2. JobOK(job[j])'
    BY <2>1, NoJobOK, EmptyJob
  <2>3. JobsOK' /\ \A i \in Job : job'[i].at = "insert" => job[i].at = "insert"
    BY <1>2, <1>4, <2>1, <2>2, NoJobOK, KeptJobs
  <2>4. mfa' \in Row(shown') \cup {None}
    BY <1>1, <1>2, <2>1 DEF Row
  <2>5. TypeOK'
    BY <1>1, <1>2, <2>4 DEF Inv, TypeOK
  <2>6. FactorOK' /\ CountersOK'
    BY <1>1, <2>1 DEF Inv, FactorOK, CountersOK, Proved
  <2>7. RecoveryOK' /\ CodesAcceptedOnce'
    BY <1>1 DEF Inv, RecoveryOK, CodesAcceptedOnce
  <2>8. SheetsOK'
    BY <1>1, <2>3, SheetsKept
  <2>9. QED
    BY <2>3, <2>5, <2>6, <2>7, <2>8 DEF Inv
<1>5. ASSUME NEW row, Write(j, row, NoJob), row \in Row(shown'), row.secret = k,
             ~(row.confirmed /\ job[j].fresh)
      PROVE  Inv'
  <2>1. job'[j] = NoJob /\ mfa' = row
    BY <1>5 DEF Write
  <2>2. JobOK(job[j])'
    BY <2>1, NoJobOK, EmptyJob
  <2>3. JobsOK' /\ \A i \in Job : job'[i].at = "insert" => job[i].at = "insert"
    BY <1>2, <1>5, <2>1, <2>2, NoJobOK, WrittenJobs
  <2>4. TypeOK'
    BY <1>1, <1>2, <1>5, <2>1 DEF Inv, TypeOK
  <2>5. FactorOK'
    BY <1>1, <1>5, <2>1 DEF FactorOK
  <2>6. CountersOK'
    BY <1>1, <1>3, <1>5, <2>1 DEF CountersOK
  <2>7. RecoveryOK' /\ CodesAcceptedOnce'
    BY <1>1 DEF Inv, RecoveryOK, CodesAcceptedOnce
  <2>8. SheetsOK'
    BY <1>1, <2>3, SheetsKept
  <2>9. QED
    BY <2>3, <2>4, <2>5, <2>6, <2>7, <2>8 DEF Inv
<1>6. CASE mfa = None /\ Write(j, [id |-> k, secret |-> k, confirmed |-> FALSE, counter |-> 0], NoJob)
  <2> DEFINE row == [id |-> k, secret |-> k, confirmed |-> FALSE, counter |-> 0]
  <2>1. row \in Row(shown') /\ row.secret = k /\ ~row.confirmed
    BY <1>2, StepAssumption DEF Row
  <2> HIDE DEF row
  <2>2. QED
    BY <1>5, <1>6, <2>1 DEF row
<1>7. CASE Same(old) /\ Write(j, [mfa EXCEPT !.secret = k,
                                             !.counter = IF old.counter = 0 THEN @ ELSE 0], NoJob)
  <2> DEFINE row == [mfa EXCEPT !.secret = k, !.counter = IF old.counter = 0 THEN mfa.counter ELSE 0]
  <2>1. old # None /\ mfa # None /\ mfa \in Row(shown)
    BY <1>2, <1>7 DEF Same
  <2>2. row \in Row(shown') /\ row.secret = k /\ row.confirmed = mfa.confirmed
    <3>1. PICK c \in 0..MaxStep : c = IF old.counter = 0 THEN mfa.counter ELSE 0
      BY <2>1, StepAssumption DEF Row
    <3>2. row = [mfa EXCEPT !.secret = k, !.counter = c]
      BY <3>1
    <3>3. mfa \in Row(shown')
      BY <1>1, <2>1 DEF Row
    <3> HIDE DEF row
    <3>4. QED
      BY <1>2, <3>2, <3>3 DEF Row
  <2>3. job[j].fresh => ~mfa.confirmed
    BY <1>1, <2>1 DEF JobOK
  <2>4. Write(j, row, NoJob)
    BY <1>7
  <2> HIDE DEF row
  <2>5. QED
    BY <1>5, <2>2, <2>3, <2>4
<1>8. QED
  BY <1>4, <1>6, <1>7 DEF Enrol

(* spendCounter: the step is later than every one accepted for the secret in *)
(* the row, and the counter is from then on no earlier than it.              *)
LEMMA SpendStep == ASSUME Inv, NEW j \in Job, Spend(j) PROVE Inv'
<1> PICK k, n : k = job[j].code[1] /\ n = job[j].code[2]
  OBVIOUS
<1>1. /\ job[j].at = "spend" /\ JobOK(job[j]) /\ job[j] \in JobRow /\ job \in [Job -> JobRow]
      /\ UNCHANGED <<mix, now, shown, printed, unspent, raced>>
  BY DEF Spend, Inv, JobsOK
<1>2. /\ job[j].code = <<k, n>> /\ k \in shown /\ n \in 1..MaxStep /\ k \in Secret
      /\ mfa \in Row(shown) \cup {None} /\ k \notin Sheet
  BY <1>1, RowAssumption DEF JobOK, Inv, TypeOK, RecoveryOK
<1>3. CASE Keep(j, NoJob) /\ UNCHANGED <<accepted, again>>
  <2>1. job'[j] = NoJob /\ mfa' = mfa /\ job' = [job EXCEPT ![j] = job'[j]]
    BY <1>1, <1>3 DEF Keep
  <2>2. QED
    BY <1>1, <1>3, <2>1, NoJobOK, EmptyJob, MovedStep
<1>4. CASE mfa # None /\ Unspent(n)
  <2> DEFINE row == [mfa EXCEPT !.counter = n]
             mine == IF job[j].kind = "confirm"
                       THEN [At(j, "confirm") EXCEPT !.code = None, !.read = None] ELSE NoJob
  <2>1. /\ Write(j, row, mine) /\ accepted' = accepted \cup {<<k, n>>}
        /\ again' = again \cup (IF mfa.id = job[j].read /\ mfa.secret = k
                                  THEN accepted \cap {<<k, n>>} ELSE {})
    BY <1>2, <1>4 DEF Spend
  <2>2. /\ mine \in JobRow /\ mine.at \in {"confirm", "idle"} /\ (mine.at = "confirm" => mine.fresh = job[j].fresh)
    <3>1. [At(j, "confirm") EXCEPT !.code = None, !.read = None] \in JobRow
      BY <1>1 DEF At, JobRow, Place
    <3>2. /\ [At(j, "confirm") EXCEPT !.code = None, !.read = None].at = "confirm"
          /\ [At(j, "confirm") EXCEPT !.code = None, !.read = None].fresh = job[j].fresh
      BY <1>1 DEF At, JobRow, Place
    <3>3. QED
      BY <3>1, <3>2, NoJobOK
  <2>3. /\ row \in Row(shown) /\ row.secret = mfa.secret /\ row.confirmed = mfa.confirmed
        /\ row.counter = n /\ mfa.counter < n /\ mfa.counter \in 0..MaxStep /\ row # None
    <3>1. mfa \in Row(shown) /\ mfa.counter < n
      BY <1>2, <1>4 DEF Unspent
    <3>2. row \in Row(shown) /\ row.secret = mfa.secret /\ row.confirmed = mfa.confirmed /\ row.counter = n
      BY <1>2, <3>1 DEF Row
    <3>3. row # None
      BY <3>2, RowAssumption DEF Inv, RecoveryOK, Row
    <3>4. QED
      BY <3>1, <3>2, <3>3 DEF Row
  <2>4. mfa' = row /\ job'[j] = mine /\ Grows
    BY <1>1, <2>1 DEF Write, Grows
  <2> HIDE DEF row, mine
  <2>5. JobOK(job[j])'
    <3>1. job[j].fresh => mfa.secret = k
      BY <1>1, <1>2 DEF JobOK
    <3>2. <<k, n>> \in accepted' /\ n \in 1..MaxStep
      BY <1>2, <2>1
    <3>3. job[j].fresh => mfa' # None /\ Proved(mfa.secret)'
      BY <2>3, <2>4, <3>1, <3>2 DEF Proved
    <3>4. QED
      BY <2>2, <2>4, <3>3 DEF JobOK
  <2>6. JobsOK' /\ \A i \in Job : job'[i].at = "insert" => job[i].at = "insert"
    BY <2>1, <2>2, <2>4, <2>5, WrittenJobs
  <2>7. again' = {}
    <3>1. mfa.secret = k => <<k, n>> \notin accepted
      BY <1>2, <1>4, <2>3 DEF Inv, CountersOK
    <3>2. QED
      BY <2>1, <3>1 DEF Inv, CodesAcceptedOnce
  <2>8. TypeOK'
    BY <1>1, <1>2, <2>1, <2>3, <2>4, <2>7 DEF Inv, TypeOK
  <2>9. FactorOK'
    <3>1. accepted \subseteq accepted' /\ mfa'.secret = mfa.secret /\ mfa'.confirmed = mfa.confirmed
      BY <2>1, <2>3, <2>4
    <3>2. QED
      BY <1>1, <1>4, <3>1 DEF Inv, FactorOK, Proved
  <2>10. CountersOK'
    BY <1>2, <1>4, <2>1, <2>3, <2>4 DEF Inv, CountersOK
  <2>11. RecoveryOK'
    <3>1. <<k, n>> \notin Code /\ unspent \subseteq Code
      BY <1>2 DEF Code, Inv, TypeOK, RecoveryOK
    <3>2. QED
      BY <1>1, <2>1, <3>1 DEF Inv, RecoveryOK
  <2>12. SheetsOK'
    BY <1>1, <2>6, SheetsKept
  <2>13. QED
    BY <2>6, <2>7, <2>8, <2>9, <2>10, <2>11, <2>12 DEF Inv, CodesAcceptedOnce
<1>5. QED
  BY <1>3, <1>4 DEF Spend

(* record.update: a request that nobody overlapped confirms what it proved.  *)
LEMMA ConfirmStep == ASSUME Inv, NEW j \in Job, Confirm(j) PROVE Inv'
<1>1. /\ job[j].at = "confirm" /\ JobOK(job[j]) /\ job \in [Job -> JobRow] /\ job[j] \in JobRow
      /\ raced' = (IF job[j].fresh THEN raced ELSE raced \cup {"enrolment"})
      /\ UNCHANGED <<now, shown, printed, unspent, accepted, again, mix>>
      /\ mfa \in Row(shown) \cup {None}
  BY DEF Confirm, Inv, JobsOK, TypeOK
<1>2. Regeneration \in JobRow /\ Regeneration.at = "clear"
  BY NoJobOK DEF JobRow, NoJob, Place, Regeneration
<1>3. CASE Keep(j, Regeneration)
  <2>1. job'[j] = Regeneration /\ mfa' = mfa /\ Grows
    BY <1>1, <1>3 DEF Keep, Grows
  <2>2. JobsOK' /\ \A i \in Job : job'[i].at = "insert" => job[i].at = "insert"
    BY <1>2, <1>3, <2>1, EmptyJob, KeptJobs
  <2>3. TypeOK' /\ CountersOK' /\ RecoveryOK' /\ CodesAcceptedOnce' /\ FactorOK'
    BY <1>1, <2>1 DEF Inv, TypeOK, CountersOK, RecoveryOK, CodesAcceptedOnce, FactorOK, Proved
  <2>4. SheetsOK'
    BY <1>1, <2>2, SheetsKept
  <2>5. QED
    BY <2>2, <2>3, <2>4 DEF Inv
<1>4. CASE Same(job[j].row) /\ Write(j, [mfa EXCEPT !.confirmed = TRUE], Regeneration)
  <2> DEFINE row == [mfa EXCEPT !.confirmed = TRUE]
  <2>1. mfa \in Row(shown) /\ row \in Row(shown) /\ row.secret = mfa.secret /\ row.counter = mfa.counter
    BY <1>1, <1>4 DEF Same, Row
  <2>2. Write(j, row, Regeneration)
    BY <1>4
  <2>3. mfa' = row /\ job'[j] = Regeneration /\ Grows
    BY <1>1, <2>2 DEF Write, Grows
  <2> HIDE DEF row
  <2>4. JobsOK' /\ \A i \in Job : job'[i].at = "insert" => job[i].at = "insert"
    BY <1>2, <2>2, <2>3, EmptyJob, WrittenJobs
  <2>5. TypeOK' /\ RecoveryOK' /\ CodesAcceptedOnce'
    BY <1>1, <2>1, <2>3 DEF Inv, TypeOK, RecoveryOK, CodesAcceptedOnce
  <2>6. CountersOK'
    BY <1>1, <1>4, <2>1, <2>3 DEF Inv, CountersOK, Same
  <2>7. FactorOK'
    BY <1>1, <2>1, <2>3 DEF FactorOK, JobOK, Proved
  <2>8. SheetsOK'
    BY <1>1, <2>4, SheetsKept
  <2>9. QED
    BY <2>4, <2>5, <2>6, <2>7, <2>8 DEF Inv
<1>5. QED
  BY <1>3, <1>4 DEF Confirm

(* disable: the row goes, and with it what anybody may rely on.              *)
LEMMA DropRowStep == ASSUME Inv, NEW j \in Job, DropRow(j) PROVE Inv'
<1>1. /\ job \in [Job -> JobRow] /\ Grows
      /\ UNCHANGED <<mix, now, shown, printed, unspent, accepted, again, raced>>
  BY DEF DropRow, Inv, JobsOK, Grows
<1>2. job'[j] = NoJob /\ (mfa' = mfa \/ mfa' = None) /\ JobsOK'
      /\ \A i \in Job : job'[i].at = "insert" => job[i].at = "insert"
  <2>1. CASE Write(j, None, NoJob)
    <3>1. job'[j] = NoJob /\ mfa' = None
      BY <2>1 DEF Write
    <3>2. QED
      BY <1>1, <2>1, <3>1, NoJobOK, EmptyJob, WrittenJobs
  <2>2. CASE Keep(j, NoJob)
    <3>1. job'[j] = NoJob /\ mfa' = mfa
      BY <1>1, <2>2 DEF Keep
    <3>2. QED
      BY <1>1, <2>2, <3>1, NoJobOK, EmptyJob, KeptJobs
  <2>3. QED
    BY <2>1, <2>2 DEF DropRow
<1>3. TypeOK' /\ RecoveryOK' /\ CodesAcceptedOnce'
  BY <1>1, <1>2 DEF Inv, TypeOK, RecoveryOK, CodesAcceptedOnce
<1>4. CountersOK' /\ FactorOK'
  BY <1>1, <1>2 DEF Inv, CountersOK, FactorOK, Proved
<1>5. SheetsOK'
  BY <1>1, <1>2, SheetsKept
<1>6. QED
  BY <1>2, <1>3, <1>4, <1>5 DEF Inv

(***************************************************************************)
(* Recovery codes and time.                                                *)
(***************************************************************************)

(* regenerateRecoveryCodes, first half: there are no codes, and nobody else  *)
(* is about to insert any, unless two of these overlap.                      *)
LEMMA ClearStep == ASSUME Inv, NEW j \in Job, Clear(j) PROVE Inv'
<1>1. /\ job[j].at = "clear" /\ job[j] \in JobRow /\ job \in [Job -> JobRow] /\ unspent' = {}
      /\ job' = [job EXCEPT ![j] = At(j, "insert")]
      /\ raced' = (IF \E i \in Job \ {j} : job[i].at = "insert" THEN raced \cup {"sheets"} ELSE raced)
      /\ UNCHANGED <<mix, now, mfa, shown, printed, accepted, again>>
  BY DEF Clear, Inv, JobsOK, Remaining
<1>2. /\ job'[j] = At(j, "insert") /\ job'[j] \in JobRow /\ job'[j].at = "insert"
      /\ \A i \in Job : i # j => job'[i] = job[i]
  BY <1>1 DEF At, JobRow, Place
<1>3. Grows /\ RowKept
  BY <1>1 DEF Grows, RowKept
<1>4. JobsOK'
  <2>1. \A i \in Job : job'[i] \in JobRow /\ JobOK(job[i])'
    BY <1>2, <1>3, SameJob, EmptyJob
  <2>2. job' = [i \in Job |-> job'[i]]
    BY <1>1
  <2>3. QED
    BY <2>1, <2>2 DEF JobsOK
<1>5. SheetsOK'
  BY <1>1, <1>2 DEF SheetsOK
<1>6. TypeOK' /\ FactorOK' /\ CountersOK' /\ RecoveryOK' /\ CodesAcceptedOnce'
  BY <1>1 DEF Inv, TypeOK, FactorOK, CountersOK, RecoveryOK, CodesAcceptedOnce, Proved
<1>7. QED
  BY <1>4, <1>5, <1>6 DEF Inv

(* second half: a sheet that nobody printed takes the place of the codes.    *)
LEMMA InsertStep == ASSUME Inv, NEW j \in Job, NEW s \in Sheet, Insert(j, s) PROVE Inv'
<1>1. /\ job[j].at = "insert" /\ job \in [Job -> JobRow] /\ s \notin printed
      /\ printed' = printed \cup {s} /\ unspent' = unspent \cup ({s} \X Position)
      /\ job' = [job EXCEPT ![j] = NoJob]
      /\ UNCHANGED <<mix, now, mfa, shown, accepted, again, raced>>
  BY DEF Insert, Inv, JobsOK
<1>2. job'[j] = NoJob /\ \A i \in Job : i # j => job'[i] = job[i]
  BY <1>1
<1>3. Grows /\ RowKept
  BY <1>1 DEF Grows, RowKept
<1>4. JobsOK'
  <2>1. \A i \in Job : job'[i] \in JobRow /\ JobOK(job[i])'
    BY <1>2, <1>3, SameJob, EmptyJob, NoJobOK
  <2>2. job' = [i \in Job |-> job'[i]]
    BY <1>1
  <2>3. QED
    BY <2>1, <2>2 DEF JobsOK
<1>5. SheetsOK'
  <2> SUFFICES ASSUME "sheets" \notin raced
               PROVE  /\ \A c, d \in unspent' : c[1] = d[1]
                      /\ \A i \in Job : job'[i].at # "insert"
    BY <1>1 DEF SheetsOK
  <2>1. unspent = {} /\ \A i \in Job : job[i].at = "insert" => i = j
    BY <1>1 DEF Inv, SheetsOK
  <2>2. \A i \in Job : job'[i].at # "insert"
    BY <1>2, <2>1, NoJobOK
  <2>3. QED
    BY <1>1, <2>1, <2>2
<1>6. TypeOK' /\ FactorOK' /\ CountersOK' /\ CodesAcceptedOnce'
  BY <1>1 DEF Inv, TypeOK, FactorOK, CountersOK, CodesAcceptedOnce, Proved
<1>7. RecoveryOK'
  <2>1. \A p \in Position : <<s, p>> \notin accepted
    BY <1>1 DEF Inv, RecoveryOK, Code
  <2>2. unspent' \cap accepted' = {}
    BY <1>1, <2>1 DEF Inv, RecoveryOK
  <2>3. QED
    BY <1>1, <2>2 DEF Inv, RecoveryOK
<1>8. QED
  BY <1>4, <1>5, <1>6, <1>7 DEF Inv

(* The same of all requests at once.                                         *)
LEMMA SameJobs ==
  ASSUME Inv, UNCHANGED job, Grows, RowKept PROVE JobsOK'
<1>1. \A i \in Job : job'[i] = job[i]
  OBVIOUS
<1>2. \A i \in Job : job'[i] \in JobRow /\ JobOK(job[i])'
  BY <1>1, SameJob
<1>3. QED
  BY <1>2 DEF Inv, JobsOK

(* verifyRecoveryCode: a code that is stored was not accepted before.        *)
LEMMA SpendRecoveryStep == ASSUME Inv, NEW c \in Code, SpendRecovery(c) PROVE Inv'
<1>1. /\ c \in unspent /\ unspent' = unspent \ {c} /\ accepted' = accepted \cup {c}
      /\ again' = again \cup (accepted \cap {c})
      /\ UNCHANGED <<mix, now, mfa, shown, printed, job, raced>>
  BY DEF SpendRecovery
<1>2. again' = {}
  BY <1>1 DEF Inv, RecoveryOK, CodesAcceptedOnce
<1>3. Grows /\ RowKept
  BY <1>1 DEF Grows, RowKept
<1>4. JobsOK'
  BY <1>1, <1>3, SameJobs
<1>5. SheetsOK'
  BY <1>1, SheetsKept
<1>6. TypeOK'
  BY <1>1, <1>2 DEF Inv, TypeOK
<1>7. FactorOK'
  BY <1>1 DEF Inv, FactorOK, Proved
<1>8. CountersOK'
  <2>1. mfa # None => mfa.secret \in Secret
    BY DEF Inv, TypeOK, RecoveryOK, Row
  <2>2. mfa # None => \A n \in 1..MaxStep : <<mfa.secret, n>> # c
    BY <2>1, RowAssumption DEF Code
  <2>3. QED
    BY <1>1, <2>2 DEF Inv, CountersOK
<1>9. RecoveryOK'
  BY <1>1 DEF Inv, RecoveryOK, TypeOK
<1>10. QED
  BY <1>2, <1>4, <1>5, <1>6, <1>7, <1>8, <1>9 DEF Inv, CodesAcceptedOnce

(* disable, first half: the codes go.                                        *)
LEMMA DropCodesStep == ASSUME Inv, NEW j \in Job, DropCodes(j) PROVE Inv'
<1>1. /\ job[j].at = "dropCodes" /\ job[j] \in JobRow /\ job \in [Job -> JobRow] /\ unspent' = {}
      /\ job' = [job EXCEPT ![j] = At(j, "dropRow")]
      /\ UNCHANGED <<mix, now, mfa, shown, printed, accepted, again, raced>>
  BY DEF DropCodes, Inv, JobsOK
<1>2. /\ job'[j] = At(j, "dropRow") /\ job'[j] \in JobRow /\ job'[j].at = "dropRow"
      /\ \A i \in Job : i # j => job'[i] = job[i]
  BY <1>1 DEF At, JobRow, Place
<1>3. Grows /\ RowKept
  BY <1>1 DEF Grows, RowKept
<1>4. JobsOK'
  <2>1. \A i \in Job : job'[i] \in JobRow /\ JobOK(job[i])'
    BY <1>2, <1>3, SameJob, EmptyJob
  <2>2. job' = [i \in Job |-> job'[i]]
    BY <1>1
  <2>3. QED
    BY <2>1, <2>2 DEF JobsOK
<1>5. SheetsOK'
  BY <1>1, <1>2, SheetsKept
<1>6. TypeOK' /\ FactorOK' /\ CountersOK' /\ RecoveryOK' /\ CodesAcceptedOnce'
  BY <1>1 DEF Inv, TypeOK, FactorOK, CountersOK, RecoveryOK, CodesAcceptedOnce, Proved
<1>7. QED
  BY <1>4, <1>5, <1>6 DEF Inv

(* Time passes, or nothing happens.                                          *)
LEMMA TickStep ==
  ASSUME Inv, now' \in 1..MaxStep,
         UNCHANGED <<mix, mfa, shown, printed, unspent, job, accepted, again, raced>>
  PROVE  Inv'
<1>1. JobsOK'
  BY SameJobs DEF Grows, RowKept
<1>2. SheetsOK'
  BY SheetsKept
<1>3. TypeOK' /\ FactorOK' /\ CountersOK' /\ RecoveryOK' /\ CodesAcceptedOnce'
  BY DEF Inv, TypeOK, FactorOK, CountersOK, RecoveryOK, CodesAcceptedOnce, Proved
<1>4. QED
  BY <1>1, <1>2, <1>3 DEF Inv

(***************************************************************************)
(* The invariant holds, and what follows.                                  *)
(***************************************************************************)

(* The invariant holds before an enrolment and after one.                    *)
LEMMA StartsSound == Init => Inv
<1> SUFFICES ASSUME Init PROVE Inv
  OBVIOUS
<1>1. JobsOK
  <2>1. \A j \in Job : job[j] = NoJob /\ job = [i \in Job |-> NoJob]
    BY DEF Init
  <2>2. \A j \in Job : job[j] \in JobRow /\ JobOK(job[j])
    BY <2>1, NoJobOK DEF JobOK
  <2>3. job \in [Job -> JobRow]
    BY NoJobOK DEF Init
  <2>4. QED
    BY <2>2, <2>3 DEF JobsOK
<1>2. now \in 1..MaxStep /\ again = {} /\ raced = {} /\ mix \in {"enrol", "codes"}
      /\ \A j \in Job : job[j].at = "idle"
  BY StepAssumption, NoJobOK DEF Init
<1>3. CASE mfa = None /\ shown = {} /\ printed = {} /\ unspent = {} /\ accepted = {}
  BY <1>1, <1>2, <1>3
     DEF Inv, TypeOK, FactorOK, CountersOK, SheetsOK, RecoveryOK, CodesAcceptedOnce
<1>4. ASSUME NEW k \in Secret, NEW s \in Sheet,
             mfa = [id |-> k, secret |-> k, confirmed |-> TRUE, counter |-> 1],
             shown = {k}, printed = {s}, unspent = {s} \X Position, accepted = {<<k, 1>>}
      PROVE  Inv
  <2>1. mfa \in Row(shown) /\ 1 \in 1..MaxStep
    BY <1>4, StepAssumption DEF Row
  <2>2. k \notin Sheet
    BY RowAssumption
  <2>3. TypeOK
    BY <1>2, <1>4, <2>1 DEF TypeOK
  <2>4. FactorOK /\ CountersOK
    BY <1>4, <2>1 DEF FactorOK, CountersOK, Proved
  <2>5. SheetsOK
    BY <1>2, <1>4 DEF SheetsOK
  <2>6. RecoveryOK
    BY <1>4, <2>2 DEF RecoveryOK, Code
  <2>7. QED
    BY <1>1, <1>2, <2>3, <2>4, <2>5, <2>6 DEF Inv, CodesAcceptedOnce
<1>5. QED
  BY <1>3, <1>4 DEF Init

(* Every step keeps it.                                                      *)
LEMMA StepKeeps == Inv /\ [Next]_vars => Inv'
<1> SUFFICES ASSUME Inv, [Next]_vars PROVE Inv'
  OBVIOUS
<1>1. now \in 1..MaxStep
  BY DEF Inv, TypeOK
<1>2. CASE UNCHANGED vars
  BY <1>1, <1>2, TickStep DEF vars
<1>3. CASE Tick
  <2>1. now' \in 1..MaxStep
    BY <1>1, <1>3, StepAssumption DEF Tick
  <2>2. QED
    BY <1>3, <2>1, TickStep DEF Tick
<1>4. ASSUME NEW j \in Job,
             \/ BeginEnrolment(j) \/ Verify(j) \/ Spend(j) \/ Confirm(j) \/ Regenerate(j) \/ Clear(j)
             \/ BeginDisable(j) \/ DropCodes(j) \/ DropRow(j) \/ Cut(j)
             \/ \E k \in Secret : \/ Enrol(j, k)
                                  \/ \E n \in 1..MaxStep : BeginConfirm(j, k, n) \/ BeginVerify(j, k, n)
             \/ \E s \in Sheet : Insert(j, s)
      PROVE  Inv'
  BY <1>4, BeginSteps, VerifyStep, SpendStep, ConfirmStep, ClearStep, DropCodesStep, DropRowStep,
     EnrolStep, InsertStep
<1>5. QED
  BY <1>2, <1>3, <1>4, SpendRecoveryStep DEF Next

(* The inductive invariant holds of every behaviour.                         *)
LEMMA AlwaysInv == Spec => []Inv
<1>1. QED
  BY StartsSound, StepKeeps, PTL DEF Spec

(* A confirmed factor has a secret that a code proved, and the codes that    *)
(* work are of one sheet, unless requests overlapped (mfa.service.js).       *)
THEOREM FactorSoundTheorem == Spec => []FactorSound
<1>1. Inv => FactorSound
  <2> SUFFICES ASSUME Inv, "sheets" \notin raced PROVE Cardinality({c[1] : c \in unspent}) <= 1
    BY DEF Inv, FactorSound, FactorOK
  <2>1. \A c, d \in unspent : c[1] = d[1]
    BY DEF Inv, SheetsOK
  <2>2. CASE unspent = {}
    <3>1. {c[1] : c \in unspent} = {}
      BY <2>2
    <3>2. QED
      BY <3>1, FS_EmptySet
  <2>3. CASE unspent # {}
    <3>1. PICK c \in unspent : TRUE
      BY <2>3
    <3>2. PICK s : s = c[1]
      OBVIOUS
    <3>3. {d[1] : d \in unspent} = {s}
      BY <2>1, <3>2
    <3>4. Cardinality({s}) = 1
      BY FS_Singleton
    <3>5. QED
      BY <3>3, <3>4
  <2>4. QED
    BY <2>2, <2>3
<1>2. QED
  BY <1>1, AlwaysInv, PTL

(* No code passes twice, however many requests present it at once            *)
(* (mfa.service.js).                                                         *)
THEOREM CodesAcceptedOnceTheorem == Spec => []CodesAcceptedOnce
<1>1. Inv => CodesAcceptedOnce
  BY DEF Inv
<1>2. QED
  BY <1>1, AlwaysInv, PTL

=============================================================================
