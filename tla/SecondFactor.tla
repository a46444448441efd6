---------------------------- MODULE SecondFactor ----------------------------
(***************************************************************************)
(* The second factor of one account (mfa.service.js): enrolment of a       *)
(* secret, confirmation with a code, the time steps spent, the recovery    *)
(* codes and the removal of it all (totp.js decides which step a code is   *)
(* for).                                                                   *)
(*                                                                         *)
(* A request is a job of one step per statement. A code is a secret and a  *)
(* time step; anybody who was shown a secret may present its codes.        *)
(***************************************************************************)
EXTENDS Naturals, FiniteSets

CONSTANTS
  Job,       \* requests the server has in hand at a time
  Secret,    \* what generateSecret may return, each once
  Sheet,     \* sets of recovery codes, generated once each
  Position,  \* the codes of one sheet (RECOVERY_CODE_COUNT of them)
  MaxStep,   \* bound: the last time step
  Window,    \* TOTP_WINDOW
  None

ASSUME StepAssumption == MaxStep \in Nat \ {0, 1} /\ Window \in Nat

VARIABLES
  mix,      \* bound: whether this behaviour enrols or answers challenges
  now,      \* the current time step
  mfa,      \* the row, or None; counter is 0 while no step was spent
  shown,    \* the secrets generated so far
  printed,  \* the sheets generated so far
  unspent,  \* the recovery codes stored and not consumed: sheet and position
  job,      \* job[j]: the request in slot j
  accepted, \* codes accepted so far: the secret and the step, or the recovery code
  again,    \* codes accepted more than once
  raced     \* which requests have overlapped: subset of {"enrolment", "sheets"}

vars == <<mix, now, mfa, shown, printed, unspent, job, accepted, again, raced>>

Code == Sheet \X Position

(* The row is known by the secret it was created with.                       *)
Row(secrets) == [id : secrets, secret : secrets, confirmed : BOOLEAN, counter : 0..MaxStep]

(* No row is none, and nothing is both a secret and a sheet.                 *)
ASSUME RowAssumption == None \notin Row(Secret) \cup Secret /\ Secret \cap Sheet = {}

NoJob == [at |-> "idle", kind |-> "none", row |-> None, code |-> None, read |-> None, fresh |-> TRUE]

(* Bound: a behaviour that answers challenges starts after an enrolment with *)
(* the code of step 1.                                                       *)
Init ==
  /\ mix \in {"enrol", "codes"}
  /\ now = 2
  /\ job = [j \in Job |-> NoJob]
  /\ again = {} /\ raced = {}
  /\ IF mix = "enrol"
       THEN mfa = None /\ shown = {} /\ printed = {} /\ unspent = {} /\ accepted = {}
       ELSE \E k \in Secret, s \in Sheet :
              /\ mfa = [id |-> k, secret |-> k, confirmed |-> TRUE, counter |-> 1]
              /\ shown = {k} /\ printed = {s} /\ unspent = {s} \X Position
              /\ accepted = {<<k, 1>>}

Begin(j, new) == job[j].at = "idle" /\ job' = [job EXCEPT ![j] = new]
At(j, at) == [job[j] EXCEPT !.at = at]

Same(row) == row # None /\ mfa # None /\ mfa.id = row.id

(* The row is written by j, which becomes mine: a secret, or whether it is   *)
(* confirmed, that others loaded before it changed is old.                   *)
Write(j, row, mine) ==
  /\ mfa' = row
  /\ job' = [i \in Job |-> IF i = j THEN mine
                           ELSE [job[i] EXCEPT !.fresh = @ /\ Same(row)
                                   /\ row.secret = mfa.secret /\ row.confirmed = mfa.confirmed]]

Keep(j, mine) == mfa' = mfa /\ job' = [job EXCEPT ![j] = mine]

(* beginEnrolment loads the row and refuses a confirmed one; it is known by  *)
(* the secret it was created with.                                           *)
BeginEnrolment(j) ==
  /\ mix = "enrol" /\ (mfa # None => ~mfa.confirmed)
  /\ Begin(j, [NoJob EXCEPT !.at = "enrol", !.kind = "enrol", !.row = mfa])
  /\ UNCHANGED <<mix, now, mfa, shown, printed, unspent, accepted, again, raced>>

(* It creates a row, which the unique index refuses when there is one by     *)
(* then, or replaces the secret of the one it loaded; of the counter it      *)
(* clears what it saw. The row may be gone, or another.                      *)
Enrol(j, k) ==
  /\ job[j].at = "enrol" /\ k \notin shown
  /\ shown' = shown \cup {k}
  /\ LET old == job[j].row IN
     \/ /\ old = None /\ mfa = None
        /\ Write(j, [id |-> k, secret |-> k, confirmed |-> FALSE, counter |-> 0], NoJob)
     \/ /\ Same(old)
        /\ Write(j, [mfa EXCEPT !.secret = k,
                                !.counter = IF old.counter = 0 THEN @ ELSE 0], NoJob)
     \/ /\ ~Same(old) /\ (old # None \/ mfa # None)
        /\ Keep(j, NoJob)
  /\ raced' = IF job[j].fresh THEN raced ELSE raced \cup {"enrolment"}
  /\ UNCHANGED <<mix, now, printed, unspent, accepted, again>>

(* confirmEnrolment loads the row, which must not be confirmed. Bound: its   *)
(* code is of the current step or a later one.                               *)
BeginConfirm(j, k, n) ==
  /\ mfa # None /\ ~mfa.confirmed /\ k \in shown /\ n >= now
  /\ Begin(j, [NoJob EXCEPT !.at = "verify", !.kind = "confirm", !.row = mfa, !.code = <<k, n>>])
  /\ UNCHANGED <<mix, now, mfa, shown, printed, unspent, accepted, again, raced>>

(* A challenge is answered: verifyAnyCode with a six digit code. *)
BeginVerify(j, k, n) ==
  /\ mix = "codes" /\ k \in shown
  /\ Begin(j, [NoJob EXCEPT !.at = "verify", !.kind = "verify", !.code = <<k, n>>])
  /\ UNCHANGED <<mix, now, mfa, shown, printed, unspent, accepted, again, raced>>

(* verifyCode: the steps around the current one are tried.                   *)
Matches(k, n) == mfa.secret = k /\ n >= now - Window /\ n <= now + Window

(* verifyTotp reads the secret and compares.                                 *)
Verify(j) ==
  /\ job[j].at = "verify"
  /\ LET k == job[j].code[1] n == job[j].code[2] IN
     job' = [job EXCEPT ![j] =
       IF mfa # None /\ Matches(k, n)
         THEN [At(j, "spend") EXCEPT !.read = mfa.id, !.fresh = TRUE] ELSE NoJob]
  /\ UNCHANGED <<mix, now, mfa, shown, printed, unspent, accepted, again, raced>>

(* Mutant of Unspent: the step that was spent last may be spent again.       *)
Unspent_Same(n) == mfa.counter <= n

Unspent(n) == mfa.counter < n

(* spendCounter: one conditional update, on whatever row the account has.    *)
Spend(j) ==
  /\ job[j].at = "spend"
  /\ LET n == job[j].code[2] IN
     IF mfa # None /\ Unspent(n)
       THEN /\ Write(j, [mfa EXCEPT !.counter = n],
                     IF job[j].kind = "confirm"
                       THEN [At(j, "confirm") EXCEPT !.code = None, !.read = None] ELSE NoJob)
            /\ accepted' = accepted \cup {job[j].code}
            /\ again' = again \cup (IF mfa.id = job[j].read /\ mfa.secret = job[j].code[1]
                                       THEN accepted \cap {job[j].code} ELSE {})
       ELSE Keep(j, NoJob) /\ UNCHANGED <<mix, accepted, again>>
  /\ UNCHANGED <<mix, now, shown, printed, unspent, raced>>

Regeneration == [NoJob EXCEPT !.at = "clear", !.kind = "regenerate"]

(* record.update on the row that was loaded. *)
Confirm(j) ==
  /\ job[j].at = "confirm"
  /\ IF Same(job[j].row)
       THEN Write(j, [mfa EXCEPT !.confirmed = TRUE], Regeneration)
       ELSE Keep(j, Regeneration)
  /\ raced' = IF job[j].fresh THEN raced ELSE raced \cup {"enrolment"}
  /\ UNCHANGED <<mix, now, shown, printed, unspent, accepted, again>>

(* regenerateRecoveryCodes, of its own route or after a confirmation, which  *)
(* does not ask whether there is a factor: everything goes,                  *)
Regenerate(j) ==
  /\ Begin(j, Regeneration)
  /\ UNCHANGED <<mix, now, mfa, shown, printed, unspent, accepted, again, raced>>

(* Mutant of Remaining: a spent sheet is topped up.                          *)
Remaining_TopUp == unspent

Remaining == {}

Clear(j) ==
  /\ job[j].at = "clear"
  /\ unspent' = Remaining
  /\ job' = [job EXCEPT ![j] = At(j, "insert")]
  /\ raced' = IF \E i \in Job \ {j} : job[i].at = "insert" THEN raced \cup {"sheets"} ELSE raced
  /\ UNCHANGED <<mix, now, mfa, shown, printed, accepted, again>>

(* and a whole sheet takes its place.                                        *)
Insert(j, s) ==
  /\ job[j].at = "insert" /\ s \notin printed
  /\ printed' = printed \cup {s}
  /\ unspent' = unspent \cup ({s} \X Position)
  /\ job' = [job EXCEPT ![j] = NoJob]
  /\ UNCHANGED <<mix, now, mfa, shown, accepted, again, raced>>

(* verifyRecoveryCode: one conditional update decides. *)
SpendRecovery(c) ==
  /\ mix = "codes" /\ c \in unspent
  /\ unspent' = unspent \ {c}
  /\ accepted' = accepted \cup {c}
  /\ again' = again \cup (accepted \cap {c})
  /\ UNCHANGED <<mix, now, mfa, shown, printed, job, raced>>

(* disable: the recovery codes, the challenges and the row it loaded.        *)
BeginDisable(j) ==
  /\ mfa # None
  /\ Begin(j, [NoJob EXCEPT !.at = "dropCodes", !.kind = "disable", !.row = mfa])
  /\ UNCHANGED <<mix, now, mfa, shown, printed, unspent, accepted, again, raced>>

DropCodes(j) ==
  /\ job[j].at = "dropCodes"
  /\ unspent' = {}
  /\ job' = [job EXCEPT ![j] = At(j, "dropRow")]
  /\ UNCHANGED <<mix, now, mfa, shown, printed, accepted, again, raced>>

DropRow(j) ==
  /\ job[j].at = "dropRow"
  /\ IF Same(job[j].row) THEN Write(j, None, NoJob) ELSE Keep(j, NoJob)
  /\ UNCHANGED <<mix, now, shown, printed, unspent, accepted, again, raced>>

(* A statement fails, or the process stops. *)
Cut(j) ==
  /\ job[j].at # "idle"
  /\ job' = [job EXCEPT ![j] = NoJob]
  /\ UNCHANGED <<mix, now, mfa, shown, printed, unspent, accepted, again, raced>>

Tick ==
  /\ mix = "codes" /\ now < MaxStep
  /\ now' = now + 1
  /\ UNCHANGED <<mix, mfa, shown, printed, unspent, job, accepted, again, raced>>

Next ==
  \/ \E j \in Job :
       \/ BeginEnrolment(j) \/ Verify(j) \/ Spend(j) \/ Confirm(j) \/ Regenerate(j) \/ Clear(j)
       \/ BeginDisable(j) \/ DropCodes(j) \/ DropRow(j) \/ Cut(j)
       \/ \E k \in Secret : \/ Enrol(j, k)
                            \/ \E n \in 1..MaxStep : BeginConfirm(j, k, n) \/ BeginVerify(j, k, n)
       \/ \E s \in Sheet : Insert(j, s)
  \/ \E c \in Code : SpendRecovery(c)
  \/ Tick

Spec == Init /\ [][Next]_vars

(***************************************************************************)
(* Properties.                                                             *)
(***************************************************************************)

TypeOK ==
  /\ mix \in {"enrol", "codes"}
  /\ now \in 1..MaxStep
  /\ mfa \in Row(shown) \cup {None}
  /\ unspent \subseteq printed \X Position
  /\ again \subseteq accepted /\ accepted \subseteq (shown \X (1..MaxStep)) \cup Code

Proved(k) == \E n \in 1..MaxStep : <<k, n>> \in accepted

(* "The point is to prove the authenticator holds the secret", "all of them, *)
(* never a top up" (mfa.service.js): a confirmed factor has a secret that a  *)
(* code proved, unless an enrolment or a confirmation wrote over a row that  *)
(* had changed since it loaded it; and the codes that still work are of one  *)
(* sheet, unless two regenerations overlapped.                               *)
FactorSound ==
  /\ TypeOK
  /\ mfa # None /\ mfa.confirmed /\ "enrolment" \notin raced => Proved(mfa.secret)
  /\ "sheets" \notin raced => Cardinality({c[1] : c \in unspent}) <= 1

(* "Two requests arriving with the same code must not both pass": no code is *)
(* accepted twice for the secret and the row it was read from, and no        *)
(* recovery code twice.                                                      *)
CodesAcceptedOnce == again = {}
=============================================================================
