------------------------ MODULE ProviderSignInProofs ------------------------
(***************************************************************************)
(* Proofs about SignIn and ProviderSignIn for every number of requests,    *)
(* sessions, tokens, challenges, flows and identities, every ceiling and   *)
(* every number of password changes.                                       *)
(***************************************************************************)
EXTENDS ProviderSignIn, FiniteSetTheorems, TLAPS

(***************************************************************************)
(* The inductive invariant.                                                *)
(***************************************************************************)

(* Where a request can be: with a copy of the account in hand, with one that *)
(* it has not saved from yet, checking a code, or ending what a changed      *)
(* password leaves behind.                                                   *)
Unsaved == {"gate", "fail", "code", "attempt", "spend", "clear", "redeem", "rewrite"}
Holding == Unsaved \cup {"mint", "issue", "reload", "revoke", "withdraw", "link", "record",
                         "dropTokens", "dropSessions"}
Checking == {"answer", "code", "attempt"}
Dropping == {"dropTokens", "dropSessions"}

JobRow ==
  [at : Holding \cup {"idle", "answer", "load", "exchange", "found"},
   kind : Purpose \cup {"none", "password", "code", "reset", "settings", "api", "LOGIN", "LINK"},
   copy : Account \cup {None}, fresh : BOOLEAN,
   on : Challenge \cup State \cup Identity \cup {None}, by : Person \cup Session \cup {None}]

(* What a request has in hand where it is. A copy is not ahead of the row,   *)
(* one nobody has counted past has the counter of the row, nothing is        *)
(* refused inside the lock, and the account that finishes a link is the one  *)
(* its flow belongs to.                                                      *)
JobOK(x) ==
  /\ x.at \in Holding => x.copy \in Account /\ x.copy.pw <= account.pw
  /\ x.at \in {"fail", "code", "attempt"} => x.copy.lock # "on"
  /\ x.at \in Unsaved /\ x.fresh => x.copy.failed = account.failed
  /\ x.at \in Checking \cup {"spend"} => x.on \in Challenge
  /\ x.at \in {"withdraw", "link"} => x.kind \in Purpose
  /\ x.at = "exchange" =>
       /\ x.on \in State /\ state[x.on] # None
       /\ x.kind = "LINK" => x.by \in Person /\ x.by = state[x.on].account

JobsOK == job \in [Job -> JobRow] /\ \A j \in Job : JobOK(job[j])

(* Every request that was let past the ceiling of a challenge may still      *)
(* count an attempt on it.                                                   *)
InFlight(c) == {j \in Job : job[j].at \in Checking /\ job[j].on = c}

AttemptsOK ==
  \A c \in Rows(challenge) :
    challenge[c].attempts + Cardinality(InFlight(c)) <= MaxAttempts + Cardinality(Job) - 1

HistoryOK == history \in [failures : 0..(MaxFailed - 1), exact : BOOLEAN, torn : BOOLEAN]

(* A credential from before a change is left only while the change runs, or  *)
(* when it was cut.                                                          *)
Outlived(row) == row.live /\ row.kind = "SESSION" /\ ~row.overlapped /\ row.by # account.pw
Stale(row) == row.open /\ ~row.overlapped /\ row.by # account.pw

ChangeOK ==
  \/ history.torn
  \/ /\ (\E s \in Rows(session) : Outlived(session[s])) => \E j \in Job : job[j].at \in Dropping
     /\ (\E t \in Rows(token) : Stale(token[t])) => \E j \in Job : job[j].at = "dropTokens"

(* What was used is issued and closed.                                       *)
UsesOK ==
  /\ uses \in [Thing -> Nat]
  /\ \A t \in Token : token[t] = None \/ token[t].open => uses[t] = 0
  /\ \A c \in Challenge : challenge[c] = None \/ challenge[c].open => uses[c] = 0
  /\ \A x \in State : state[x] = None \/ state[x].open => uses[x] = 0

Inv ==
  /\ TypeOK /\ JobsOK /\ HistoryOK /\ AttemptsOK /\ CounterExact /\ ChangeOK /\ UsesOK
  /\ LinkedByItsStarter

(* account.update: a column is written when it differs from the copy.        *)
Columns == {"pw", "failed", "lock"}

(* A record with the three columns in range is an account.                   *)
LEMMA AccountColumns ==
  ASSUME NEW a, a = [f \in Columns |-> a[f]],
         a["pw"] \in 0..MaxPassword, a["failed"] \in 0..(MaxFailed - 1),
         a["lock"] \in {"none", "on", "past"}
  PROVE  a \in Account
BY DEF Account, Columns

(* The account and the requests after account.update, column by column.      *)
LEMMA Saved ==
  ASSUME NEW j \in Job, NEW put, NEW then, account \in Account, Save(j, put, then)
  PROVE  /\ account' = [f \in Columns |-> IF f \in DOMAIN put /\ put[f] # job[j].copy[f]
                                         THEN put[f] ELSE account[f]]
         /\ \A i \in Job : job'[i] =
              IF i = j THEN then
              ELSE IF (\A f \in DOMAIN put : put[f] = job[j].copy[f]) \/ job[i].copy = None
                THEN job[i]
              ELSE [job[i] EXCEPT !.fresh = FALSE]
         /\ job' = [i \in Job |-> job'[i]]
<1>1. DOMAIN account = Columns
  BY DEF Account, Columns
<1>2. QED
  BY <1>1 DEF Save

(***************************************************************************)
(* What a step keeps when it leaves alone what a part of the invariant is  *)
(* about.                                                                  *)
(***************************************************************************)

(* A flow keeps its account for good.                                        *)
FlowsKept == \A x \in State : state[x] # None =>
               state'[x] # None /\ state'[x].account = state[x].account

(* A request that stays as it is stays sound.                                *)
LEMMA SameJob ==
  ASSUME Inv, NEW i \in Job, job'[i] = job[i], FlowsKept,
         account'.pw \in {account.pw, account.pw + 1},
         account'.failed = account.failed \/ ~job[i].fresh \/ job[i].at \notin Unsaved
  PROVE  job'[i] \in JobRow /\ JobOK(job[i])'
<1>1. job[i] \in JobRow /\ JobOK(job[i]) /\ account.pw \in Nat
  BY DEF Inv, JobsOK, TypeOK, SignInTypeOK, Account
<1>2. job[i].copy \in Account /\ job[i].copy.pw <= account.pw => job[i].copy.pw <= account'.pw
  BY <1>1 DEF Account
<1>3. QED
  BY <1>1, <1>2 DEF JobOK, FlowsKept

(* A copy that somebody counted past.                                        *)
LEMMA OldJob ==
  ASSUME Inv, NEW i \in Job, job'[i] = [job[i] EXCEPT !.fresh = FALSE], FlowsKept,
         account'.pw \in {account.pw, account.pw + 1}
  PROVE  job'[i] \in JobRow /\ JobOK(job[i])'
<1>1. job[i] \in JobRow /\ JobOK(job[i]) /\ account.pw \in Nat
  BY DEF Inv, JobsOK, TypeOK, SignInTypeOK, Account
<1>2. /\ job'[i] \in JobRow /\ job'[i].at = job[i].at /\ job'[i].kind = job[i].kind
      /\ job'[i].copy = job[i].copy /\ job'[i].on = job[i].on /\ job'[i].by = job[i].by
      /\ ~job'[i].fresh
  BY <1>1 DEF JobRow
<1>3. job[i].copy \in Account /\ job[i].copy.pw <= account.pw => job[i].copy.pw <= account'.pw
  BY <1>1 DEF Account
<1>4. QED
  BY <1>1, <1>2, <1>3 DEF JobOK, FlowsKept

(* When nobody begins to check a code, no fewer finish than were checking.   *)
LEMMA FewerInFlight ==
  ASSUME NEW c, \A i \in Job : job'[i].at \in Checking =>
                  job[i].at \in Checking /\ job'[i].on = job[i].on
  PROVE  /\ Cardinality(InFlight(c)) \in Nat /\ Cardinality(InFlight(c)') \in Nat
         /\ Cardinality(InFlight(c)') <= Cardinality(InFlight(c))
         /\ Cardinality(Job) \in Nat
<1>1. IsFiniteSet(InFlight(c)) /\ IsFiniteSet(Job)
  BY CeilingAssumption, FS_Subset DEF InFlight
<1>2. InFlight(c)' \subseteq InFlight(c)
  BY DEF InFlight
<1>3. QED
  BY <1>1, <1>2, FS_Subset, FS_CardinalityType

(* The ceiling on the attempts of a challenge stays when nobody begins to    *)
(* check a code and no attempt is counted.                                   *)
LEMMA AttemptsKept ==
  ASSUME Inv, \A i \in Job : job'[i].at \in Checking =>
                job[i].at \in Checking /\ job'[i].on = job[i].on,
         \A c \in Rows(challenge)' :
           c \in Rows(challenge) /\ challenge'[c].attempts = challenge[c].attempts
  PROVE  AttemptsOK'
<1> SUFFICES ASSUME NEW c \in Rows(challenge)'
             PROVE  challenge'[c].attempts + Cardinality(InFlight(c)')
                      <= MaxAttempts + Cardinality(Job) - 1
  BY DEF AttemptsOK
<1>1. /\ c \in Rows(challenge) /\ challenge'[c].attempts = challenge[c].attempts
      /\ challenge[c].attempts + Cardinality(InFlight(c)) <= MaxAttempts + Cardinality(Job) - 1
  BY DEF Inv, AttemptsOK
<1>2. challenge[c].attempts \in Nat
  BY <1>1 DEF Inv, TypeOK, SignInTypeOK, ChallengeRow, Rows
<1>3. QED
  BY <1>1, <1>2, FewerInFlight, CeilingAssumption

(* What was used stays closed when nothing is opened again.                  *)
LEMMA UsesKept ==
  ASSUME Inv, UNCHANGED uses,
         \A t \in Token : token'[t] = None \/ token'[t].open => token[t] = None \/ token[t].open,
         \A c \in Challenge : challenge'[c] = None \/ challenge'[c].open =>
                                challenge[c] = None \/ challenge[c].open,
         \A x \in State : state'[x] = None \/ state'[x].open => state[x] = None \/ state[x].open
  PROVE  UsesOK'
BY DEF Inv, UsesOK

(* Nothing comes back that a changed password ends.                          *)
LEMMA ChangeKept ==
  ASSUME Inv, history.torn => history'.torn,
         \A s \in Rows(session)' : Outlived(session[s])' =>
           s \in Rows(session) /\ Outlived(session[s]),
         \A t \in Rows(token)' : Stale(token[t])' => t \in Rows(token) /\ Stale(token[t]),
         \A i \in Job : job[i].at \in Dropping => job'[i].at = job[i].at
  PROVE  ChangeOK'
BY DEF Inv, ChangeOK, Dropping

(* A step that leaves the account's counter and password and the history     *)
(* alone, and ends nobody's work on a changed password.                      *)
LEMMA Step ==
  ASSUME Inv, job' = [i \in Job |-> job'[i]],
         \A i \in Job : job'[i] \in JobRow /\ JobOK(job[i])',
         \A i \in Job : job[i].at \in Dropping => job'[i].at = job[i].at,
         account'.failed = account.failed, account'.pw = account.pw, history' = history,
         \A s \in Rows(session)' : Outlived(session[s])' =>
           s \in Rows(session) /\ Outlived(session[s]),
         \A t \in Rows(token)' : Stale(token[t])' => t \in Rows(token) /\ Stale(token[t]),
         TypeOK', UsesOK', AttemptsOK', LinkedByItsStarter'
  PROVE  Inv'
<1>1. JobsOK'
  BY DEF JobsOK
<1>2. ChangeOK'
  BY ChangeKept
<1>3. HistoryOK' /\ CounterExact'
  BY DEF Inv, HistoryOK, CounterExact
<1>4. QED
  BY <1>1, <1>2, <1>3 DEF Inv

(* The links stay when the identities do.                                    *)
LEMMA LinksKept == Inv /\ UNCHANGED identity => LinkedByItsStarter'
BY DEF Inv, LinkedByItsStarter, Rows

(* A request moved on, or ended, and wrote to no more than the tables.       *)
LEMMA MovedStep ==
  ASSUME Inv, NEW j \in Job, job' = [job EXCEPT ![j] = job'[j]],
         job'[j] \in JobRow, JobOK(job[j])', job[j].at \notin Dropping, FlowsKept,
         UNCHANGED <<mix, account, factor, history>>,
         session' \in [Session -> SessionRow \cup {None}], token' \in [Token -> TokenRow \cup {None}],
         challenge' \in [Challenge -> ChallengeRow \cup {None}],
         state' \in [State -> FlowRow \cup {None}], identity' \in [Identity -> LinkRow \cup {None}],
         \A s \in Rows(session)' : Outlived(session[s])' =>
           s \in Rows(session) /\ Outlived(session[s]),
         \A t \in Rows(token)' : Stale(token[t])' => t \in Rows(token) /\ Stale(token[t]),
         UsesOK', AttemptsOK', LinkedByItsStarter'
  PROVE  Inv'
<1>1. job \in [Job -> JobRow] /\ \A i \in Job : i # j => job'[i] = job[i]
  BY DEF Inv, JobsOK
<1>2. job' = [i \in Job |-> job'[i]]
  BY <1>1
<1>3. \A i \in Job : job'[i] \in JobRow /\ JobOK(job[i])'
  BY <1>1, SameJob
<1>4. \A i \in Job : job[i].at \in Dropping => job'[i].at = job[i].at
  BY <1>1
<1>5. \A i \in Job : job'[i].copy \in Account \cup {None}
  BY <1>3 DEF JobRow
<1>6. TypeOK'
  BY <1>5 DEF Inv, TypeOK, SignInTypeOK
<1>7. QED
  BY <1>2, <1>3, <1>4, <1>6, Step

(* A request moved on, or ended, and wrote nothing.                          *)
Quiet == UNCHANGED <<mix, account, factor, session, token, challenge, uses, history, state, identity>>

(* A step that writes to no table, whatever it begins to check.              *)
LEMMA JobStep ==
  ASSUME Inv, NEW j \in Job, job' = [job EXCEPT ![j] = job'[j]],
         job'[j] \in JobRow, JobOK(job[j])', job[j].at \notin Dropping, Quiet, AttemptsOK'
  PROVE  Inv'
<1>1. FlowsKept /\ UNCHANGED <<mix, account, factor, history>>
  BY DEF Quiet, FlowsKept
<1>2. UsesOK' /\ LinkedByItsStarter'
  BY UsesKept, LinksKept DEF Quiet
<1>3. /\ session' \in [Session -> SessionRow \cup {None}] /\ token' \in [Token -> TokenRow \cup {None}]
      /\ challenge' \in [Challenge -> ChallengeRow \cup {None}]
      /\ state' \in [State -> FlowRow \cup {None}] /\ identity' \in [Identity -> LinkRow \cup {None}]
  BY DEF Quiet, Inv, TypeOK, SignInTypeOK
<1>4. /\ \A s \in Rows(session)' : Outlived(session[s])' =>
           s \in Rows(session) /\ Outlived(session[s])
      /\ \A t \in Rows(token)' : Stale(token[t])' => t \in Rows(token) /\ Stale(token[t])
  BY DEF Quiet, Rows, Outlived, Stale
<1>5. QED
  BY <1>1, <1>2, <1>3, <1>4, MovedStep

(* The same, when the request is not checking a code from then on but it was *)
(* before.                                                                   *)
LEMMA QuietStep ==
  ASSUME Inv, NEW j \in Job, job' = [job EXCEPT ![j] = job'[j]],
         job'[j] \in JobRow, JobOK(job[j])', job[j].at \notin Dropping, Quiet,
         job'[j].at \in Checking => job[j].at \in Checking /\ job'[j].on = job[j].on
  PROVE  Inv'
<1>1. \A i \in Job : job'[i].at \in Checking => job[i].at \in Checking /\ job'[i].on = job[i].on
  BY DEF Inv, JobsOK
<1>2. \A c \in Rows(challenge)' :
        c \in Rows(challenge) /\ challenge'[c].attempts = challenge[c].attempts
  BY DEF Quiet, Rows
<1>3. AttemptsOK'
  BY <1>1, <1>2, AttemptsKept
<1>4. QED
  BY <1>3, JobStep

(* Begin, Go and End, on a slot.                                             *)
LEMMA NoJobOK ==
  /\ NoJob \in JobRow /\ NoJob.at = "idle" /\ NoJob.copy = None /\ NoJob.kind = "none"
  /\ NoJob.fresh = TRUE /\ NoJob.on = None /\ NoJob.by = None
BY DEF NoJob, JobRow

(* A slot without a request.                                                 *)
LEMMA EndedJob ==
  ASSUME NEW j \in Job, job'[j] = NoJob PROVE job'[j] \in JobRow /\ JobOK(job[j])'
<1>1. job'[j].at = "idle" /\ job'[j] \in JobRow
  BY NoJobOK
<1>2. QED
  BY <1>1 DEF JobOK, Holding, Unsaved, Checking

(* Go changes only where the request is.                                     *)
LEMMA GoneTo ==
  ASSUME Inv, NEW j \in Job, NEW at \in Holding \cup {"idle", "answer", "load", "exchange", "found"},
         Go(j, at)
  PROVE  /\ job' = [job EXCEPT ![j] = job'[j]] /\ job'[j] \in JobRow /\ job'[j].at = at
         /\ job'[j].kind = job[j].kind /\ job'[j].copy = job[j].copy
         /\ job'[j].fresh = job[j].fresh /\ job'[j].on = job[j].on /\ job'[j].by = job[j].by
<1>1. job[j] \in JobRow /\ job \in [Job -> JobRow]
  BY DEF Inv, JobsOK
<1>2. job' = [job EXCEPT ![j] = [job[j] EXCEPT !.at = at]]
  BY <1>1 DEF Go
<1>3. job'[j] = [job[j] EXCEPT !.at = at]
  BY <1>1, <1>2
<1>4. job' = [job EXCEPT ![j] = job'[j]]
  BY <1>2, <1>3
<1>5. QED
  BY <1>1, <1>3, <1>4 DEF JobRow

(* A request ends without writing anything.                                  *)
LEMMA EndStep ==
  ASSUME Inv, NEW j \in Job, End(j), job[j].at \notin Dropping, Quiet PROVE Inv'
<1>1. job'[j] = NoJob /\ job' = [job EXCEPT ![j] = job'[j]]
  BY DEF End, Inv, JobsOK
<1>2. QED
  BY <1>1, EndedJob, NoJobOK, QuietStep DEF Checking

(* A request begins with a slot that had none, and at most the account in    *)
(* hand.                                                                     *)
LEMMA BeginStep ==
  ASSUME Inv, NEW j \in Job, NEW new \in JobRow, Begin(j, new), Quiet,
         new.at \in Holding => new.copy = account, new.at = "fail" => account.lock # "on",
         new.at \notin Checking \cup {"spend", "exchange"},
         new.at \in {"withdraw", "link"} => new.kind \in Purpose
  PROVE  Inv'
<1>1. job'[j] = new /\ job' = [job EXCEPT ![j] = job'[j]] /\ job[j].at = "idle"
  BY DEF Begin, Inv, JobsOK
<1>2. account' = account /\ account \in Account /\ account.pw <= account.pw
  BY DEF Quiet, Inv, TypeOK, SignInTypeOK, Account
<1>3. JobOK(job[j])'
  <2>1. new.at \in Unsaved => new.at \in Holding
    BY DEF Holding
  <2>2. new.at \in Holding => new.copy \in Account /\ new.copy.pw <= account.pw
    BY <1>2
  <2>3. new.at \notin {"code", "attempt", "exchange"}
    BY DEF Checking
  <2>4. new.at = "fail" => new.copy.lock # "on"
    BY DEF Holding, Unsaved
  <2>5. QED
    BY <1>1, <1>2, <2>1, <2>2, <2>3, <2>4 DEF JobOK
<1>4. QED
  BY <1>1, <1>3, QuietStep DEF Dropping

(* Login, a request for a link, a settings request and one for an API token  *)
(* begin with the row as it is.                                              *)
LEMMA BeginSteps ==
  ASSUME Inv, NEW j \in Job, UNCHANGED <<state, identity>>,
         \/ \E right \in BOOLEAN : Login(j, right)
         \/ RequestReset(j)
         \/ \E s \in Session : IssueSettingsToken(j, s) \/ BeginSettings(j, s) \/ CreateApiToken(j, s)
  PROVE  Inv'
<1>1. account \in Account
  BY DEF Inv, TypeOK, SignInTypeOK
<1>2. ASSUME NEW right \in BOOLEAN, Login(j, right) PROVE Inv'
  <2> DEFINE new == [NoJob EXCEPT !.at = IF right THEN "gate" ELSE "fail",
                                  !.kind = "password", !.copy = account]
  <2>1. new \in JobRow /\ new.at \in {"gate", "fail"} /\ new.copy = account
    BY <1>1, NoJobOK DEF JobRow, NoJob, Holding, Unsaved
  <2>2. QED
    BY <1>2, <2>1, BeginStep DEF Login, Quiet, Checking
<1>3. CASE RequestReset(j)
  <2> DEFINE new == [NoJob EXCEPT !.at = "withdraw", !.kind = "PASSWORD_RESET", !.copy = account]
  <2>1. new \in JobRow /\ new.at = "withdraw" /\ new.kind \in Purpose /\ new.copy = account
    BY <1>1, NoJobOK DEF JobRow, NoJob, Holding, Unsaved, Purpose
  <2>2. QED
    BY <1>3, <2>1, BeginStep DEF RequestReset, Quiet, Checking
<1>4. ASSUME NEW s \in Session, IssueSettingsToken(j, s) PROVE Inv'
  <2> DEFINE new == [NoJob EXCEPT !.at = "link", !.kind = "SETTINGS_UPDATE", !.copy = account]
  <2>1. new \in JobRow /\ new.at = "link" /\ new.kind \in Purpose /\ new.copy = account
    BY <1>1, NoJobOK DEF JobRow, NoJob, Holding, Unsaved, Purpose
  <2>2. QED
    BY <1>4, <2>1, BeginStep DEF IssueSettingsToken, Quiet, Checking
<1>5. ASSUME NEW s \in Session, BeginSettings(j, s) PROVE Inv'
  <2> DEFINE new == [NoJob EXCEPT !.at = "redeem", !.kind = "settings", !.copy = account, !.by = s]
  <2>1. new \in JobRow /\ new.at = "redeem" /\ new.copy = account
    BY <1>1, NoJobOK DEF JobRow, NoJob, Holding, Unsaved
  <2>2. QED
    BY <1>5, <2>1, BeginStep DEF BeginSettings, Quiet, Checking
<1>6. ASSUME NEW s \in Session, CreateApiToken(j, s) PROVE Inv'
  <2> DEFINE new == [NoJob EXCEPT !.at = "record", !.kind = "api", !.copy = account]
  <2>1. new \in JobRow /\ new.at = "record" /\ new.copy = account
    BY <1>1, NoJobOK DEF JobRow, NoJob, Holding, Unsaved
  <2>2. QED
    BY <1>6, <2>1, BeginStep DEF CreateApiToken, Quiet, Checking
<1>7. QED
  BY <1>2, <1>3, <1>4, <1>5, <1>6

(* The account was read: what a request has in hand is the row.              *)
LEMMA LoadedStep ==
  ASSUME Inv, NEW j \in Job, NEW at \in {"code", "gate", "rewrite"},
         job' = [job EXCEPT ![j].at = at, ![j].copy = account], Quiet,
         job[j].at \notin Dropping, at = "code" => job[j].at \in Checking /\ account.lock # "on"
  PROVE  Inv'
<1>1. /\ job[j] \in JobRow /\ job \in [Job -> JobRow] /\ JobOK(job[j]) /\ account \in Account
      /\ account.pw <= account.pw
  BY DEF Inv, JobsOK, TypeOK, SignInTypeOK, Account
<1>2. job'[j] = [job[j] EXCEPT !.at = at, !.copy = account]
  BY <1>1
<1>3. job' = [job EXCEPT ![j] = job'[j]]
  BY <1>1, <1>2
<1>4. /\ job'[j] \in JobRow /\ job'[j].at = at /\ job'[j].copy = account
      /\ job'[j].on = job[j].on /\ account' = account
  <2>1. at \in Holding /\ account' = account
    BY DEF Holding, Unsaved, Quiet
  <2>2. QED
    BY ZenonT(40), <1>1, <1>2, <2>1 DEF JobRow
<1>5. JobOK(job[j])'
  BY <1>1, <1>4 DEF JobOK, Checking
<1>6. QED
  BY <1>3, <1>4, <1>5, QuietStep DEF Checking

(* The account is read again: for a challenge, a reset and a provider sign   *)
(* in.                                                                       *)
LEMMA LoadSteps ==
  ASSUME Inv, NEW j \in Job,
         \/ LoadAnswered(j) /\ UNCHANGED <<state, identity>>
         \/ LoadReset(j) /\ UNCHANGED <<state, identity>>
         \/ LoadLinked(j)
  PROVE  Inv'
<1>1. Quiet /\ job[j].at \notin Dropping
  BY DEF LoadAnswered, LoadReset, LoadLinked, Quiet, Dropping
<1>2. \/ End(j)
      \/ /\ job' = [job EXCEPT ![j].at = "code", ![j].copy = account]
         /\ job[j].at \in Checking /\ account.lock # "on"
      \/ job' = [job EXCEPT ![j].at = "rewrite", ![j].copy = account]
      \/ job' = [job EXCEPT ![j].at = "gate", ![j].copy = account]
  BY DEF LoadAnswered, LoadReset, LoadLinked, Checking
<1>3. QED
  BY <1>1, <1>2, EndStep, LoadedStep

(* completeSignIn, verifyAnyCode and what follows a failure: the request     *)
(* goes on with the copy it has.                                             *)
LEMMA GateStep == ASSUME Inv, NEW j \in Job, Gate(j), UNCHANGED <<state, identity>> PROVE Inv'
<1>1. /\ Quiet /\ job[j].at = "gate" /\ (Go(j, "mint") \/ Go(j, "clear"))
  BY DEF Gate, Quiet
<1>2. JobOK(job[j]) /\ account' = account
  BY DEF Inv, JobsOK, Gate
<1>3. PICK at \in {"mint", "clear"} : Go(j, at)
  BY <1>1
<1>4. /\ job' = [job EXCEPT ![j] = job'[j]] /\ job'[j] \in JobRow /\ job'[j].at = at
      /\ job'[j].copy = job[j].copy /\ job'[j].fresh = job[j].fresh
  BY <1>3, GoneTo DEF Holding, Unsaved
<1>5. JobOK(job[j])'
  BY <1>1, <1>2, <1>4 DEF JobOK, Holding, Unsaved, Checking
<1>6. QED
  BY <1>1, <1>4, <1>5, QuietStep DEF Checking, Dropping

(* A code was compared: spend or count.                                      *)
LEMMA VerifyStep ==
  ASSUME Inv, NEW j \in Job, NEW accepted \in BOOLEAN, Verify(j, accepted),
         UNCHANGED <<state, identity>>
  PROVE  Inv'
<1>1. Quiet /\ job[j].at = "code"
  BY DEF Verify, Quiet
<1>2. JobOK(job[j]) /\ account' = account
  BY DEF Inv, JobsOK, Verify
<1>3. PICK at \in {"spend", "attempt"} : Go(j, at)
  BY DEF Verify
<1>4. /\ job' = [job EXCEPT ![j] = job'[j]] /\ job'[j] \in JobRow /\ job'[j].at = at
      /\ job'[j].copy = job[j].copy /\ job'[j].fresh = job[j].fresh /\ job'[j].on = job[j].on
  BY <1>3, GoneTo DEF Holding, Unsaved
<1>5. JobOK(job[j])'
  BY <1>1, <1>2, <1>4 DEF JobOK, Holding, Unsaved, Checking
<1>6. QED
  BY <1>1, <1>4, <1>5, QuietStep DEF Checking, Dropping

(* After a counted failure the account is read again.                        *)
LEMMA ReloadStep == ASSUME Inv, NEW j \in Job, Reload(j), UNCHANGED <<state, identity>> PROVE Inv'
<1>1. Quiet /\ job[j].at = "reload" /\ (Go(j, "revoke") \/ End(j))
  BY DEF Reload, Quiet
<1>2. CASE Go(j, "revoke")
  <2>1. JobOK(job[j]) /\ account' = account
    BY <1>1 DEF Inv, JobsOK, Quiet
  <2>2. /\ job' = [job EXCEPT ![j] = job'[j]] /\ job'[j] \in JobRow /\ job'[j].at = "revoke"
        /\ job'[j].copy = job[j].copy
    BY <1>2, GoneTo DEF Holding, Unsaved
  <2>3. JobOK(job[j])'
    BY <1>1, <2>1, <2>2 DEF JobOK, Holding, Unsaved, Checking
  <2>4. QED
    BY <1>1, <2>2, <2>3, QuietStep DEF Checking, Dropping
<1>3. QED
  BY <1>1, <1>2, EndStep DEF Dropping

(* The identity of a provider sign in was looked up.                         *)
LEMMA FindIdentityStep ==
  ASSUME Inv, NEW j \in Job, NEW i \in Identity, FindIdentity(j, i) PROVE Inv'
<1>1. Quiet /\ job[j].at = "exchange"
  BY DEF FindIdentity, Quiet
<1>2. CASE End(j)
  BY <1>1, <1>2, EndStep DEF Dropping
<1>3. CASE job' = [job EXCEPT ![j].at = "found", ![j].on = i]
  <2>1. job[j] \in JobRow /\ job \in [Job -> JobRow]
    BY DEF Inv, JobsOK
  <2>2. job'[j] = [job[j] EXCEPT !.at = "found", !.on = i]
    BY <1>3, <2>1
  <2>3. job'[j] \in JobRow /\ job'[j].at = "found" /\ job' = [job EXCEPT ![j] = job'[j]]
    BY <1>3, <2>1, <2>2 DEF JobRow
  <2>4. JobOK(job[j])'
    BY <2>3 DEF JobOK, Holding, Unsaved, Checking
  <2>5. QED
    BY <1>1, <2>3, <2>4, QuietStep DEF Checking, Dropping
<1>4. QED
  BY <1>2, <1>3 DEF FindIdentity

(***************************************************************************)
(* The steps that write to a table.                                        *)
(***************************************************************************)

(* A conditional update that closes a row leaves the rest of it.             *)
LEMMA ClosedRows ==
  ASSUME Inv, NEW which
  PROVE  /\ which \subseteq Rows(token) /\ token' = Closed(token, which) =>
              /\ token' \in [Token -> TokenRow \cup {None}]
              /\ \A t \in Token :
                   /\ token'[t] = None <=> token[t] = None
                   /\ token[t] # None =>
                        /\ token'[t].by = token[t].by /\ token'[t].overlapped = token[t].overlapped
                        /\ token'[t].open = (token[t].open /\ t \notin which)
         /\ which \subseteq Rows(challenge) /\ challenge' = Closed(challenge, which) =>
              /\ challenge' \in [Challenge -> ChallengeRow \cup {None}]
              /\ \A c \in Challenge :
                   /\ challenge'[c] = None <=> challenge[c] = None
                   /\ challenge[c] # None =>
                        /\ challenge'[c].attempts = challenge[c].attempts
                        /\ challenge'[c].open = (challenge[c].open /\ c \notin which)
         /\ which \subseteq Rows(state) /\ state' = Closed(state, which) =>
              /\ state' \in [State -> FlowRow \cup {None}]
              /\ \A x \in State :
                   /\ state'[x] = None <=> state[x] = None
                   /\ state[x] # None =>
                        /\ state'[x].account = state[x].account
                        /\ state'[x].mode = state[x].mode
                        /\ state'[x].open = (state[x].open /\ x \notin which)
<1>1. /\ token \in [Token -> TokenRow \cup {None}]
      /\ challenge \in [Challenge -> ChallengeRow \cup {None}]
      /\ state \in [State -> FlowRow \cup {None}]
  BY DEF Inv, TypeOK, SignInTypeOK
<1>2. ASSUME NEW t \in TokenRow
      PROVE  /\ [t EXCEPT !.open = FALSE] \in TokenRow /\ [t EXCEPT !.open = FALSE].open = FALSE
             /\ [t EXCEPT !.open = FALSE].by = t.by
             /\ [t EXCEPT !.open = FALSE].overlapped = t.overlapped /\ t.open \in BOOLEAN
  BY DEF TokenRow
<1>3. ASSUME NEW c \in ChallengeRow
      PROVE  /\ [c EXCEPT !.open = FALSE] \in ChallengeRow /\ [c EXCEPT !.open = FALSE].open = FALSE
             /\ [c EXCEPT !.open = FALSE].attempts = c.attempts /\ c.open \in BOOLEAN
  BY DEF ChallengeRow
<1>4. ASSUME NEW x \in FlowRow
      PROVE  /\ [x EXCEPT !.open = FALSE] \in FlowRow /\ [x EXCEPT !.open = FALSE].open = FALSE
             /\ [x EXCEPT !.open = FALSE].account = x.account
             /\ [x EXCEPT !.open = FALSE].mode = x.mode /\ x.open \in BOOLEAN
  BY DEF FlowRow
<1>5. ASSUME which \subseteq Rows(token), token' = Closed(token, which)
      PROVE  /\ token' \in [Token -> TokenRow \cup {None}]
             /\ \A t \in Token :
                  /\ token'[t] = None <=> token[t] = None
                  /\ token[t] # None =>
                       /\ token'[t].by = token[t].by /\ token'[t].overlapped = token[t].overlapped
                       /\ token'[t].open = (token[t].open /\ t \notin which)
  <2>1. token' = [t \in Token |-> IF t \in which THEN [token[t] EXCEPT !.open = FALSE] ELSE token[t]]
    BY <1>1, <1>5 DEF Closed
  <2>2. \A t \in which : token[t] \in TokenRow /\ token[t] # None
    BY <1>1, <1>5 DEF Rows
  <2>3. None \notin TokenRow
    BY RowsAssumption
  <2>4. ASSUME NEW t \in Token, t \in which
        PROVE  token'[t] = [token[t] EXCEPT !.open = FALSE] /\ token[t] \in TokenRow /\ token[t] # None
    BY <2>1, <2>2, <2>4
  <2>5. ASSUME NEW t \in Token, t \notin which PROVE token'[t] = token[t]
    BY <2>1, <2>5
  <2>6. \A t \in Token : token[t] \in TokenRow \cup {None}
    BY <1>1
  <2>7. \A t \in Token : token'[t] \in TokenRow \cup {None}
    BY <1>2, <2>4, <2>5, <2>6
  <2>8. token' \in [Token -> TokenRow \cup {None}]
    BY <2>1, <2>7
  <2>9. ASSUME NEW t \in Token, t \in which
        PROVE  /\ token'[t] # None /\ token[t] # None /\ token'[t].open = FALSE
               /\ token'[t].by = token[t].by
               /\ token'[t].overlapped = token[t].overlapped
    BY <2>3, <2>4, <2>9, <1>2
  <2>10. ASSUME NEW t \in Token, token[t] # None PROVE token[t].open \in BOOLEAN
    BY <2>6, <2>10, <1>2
  <2>11. QED
    BY <2>5, <2>8, <2>9, <2>10
<1>6. ASSUME which \subseteq Rows(challenge), challenge' = Closed(challenge, which)
      PROVE  /\ challenge' \in [Challenge -> ChallengeRow \cup {None}]
             /\ \A c \in Challenge :
                  /\ challenge'[c] = None <=> challenge[c] = None
                  /\ challenge[c] # None =>
                       /\ challenge'[c].attempts = challenge[c].attempts
                       /\ challenge'[c].open = (challenge[c].open /\ c \notin which)
  <2>1. challenge' = [c \in Challenge |->
                        IF c \in which THEN [challenge[c] EXCEPT !.open = FALSE] ELSE challenge[c]]
    BY <1>1, <1>6 DEF Closed
  <2>2. \A c \in which : challenge[c] \in ChallengeRow /\ challenge[c] # None
    BY <1>1, <1>6 DEF Rows
  <2>3. None \notin ChallengeRow
    BY RowsAssumption
  <2>4. ASSUME NEW c \in Challenge, c \in which
        PROVE  challenge'[c] = [challenge[c] EXCEPT !.open = FALSE] /\ challenge[c] \in ChallengeRow /\ challenge[c] # None
    BY <2>1, <2>2, <2>4
  <2>5. ASSUME NEW c \in Challenge, c \notin which PROVE challenge'[c] = challenge[c]
    BY <2>1, <2>5
  <2>6. \A c \in Challenge : challenge[c] \in ChallengeRow \cup {None}
    BY <1>1
  <2>7. \A c \in Challenge : challenge'[c] \in ChallengeRow \cup {None}
    BY <1>3, <2>4, <2>5, <2>6
  <2>8. challenge' \in [Challenge -> ChallengeRow \cup {None}]
    BY <2>1, <2>7
  <2>9. ASSUME NEW c \in Challenge, c \in which
        PROVE  /\ challenge'[c] # None /\ challenge[c] # None /\ challenge'[c].open = FALSE
               /\ challenge'[c].attempts = challenge[c].attempts
    <3> DEFINE row == challenge[c]
    <3>1. row \in ChallengeRow /\ challenge'[c] = [row EXCEPT !.open = FALSE]
      BY <2>4, <2>9
    <3> HIDE DEF row
    <3>2. challenge'[c] \in ChallengeRow /\ challenge'[c].open = FALSE /\ challenge'[c].attempts = row.attempts
      BY <3>1, <1>3
    <3>3. QED
      BY <2>3, <2>4, <2>9, <3>2 DEF row
  <2>10. ASSUME NEW c \in Challenge, challenge[c] # None PROVE challenge[c].open \in BOOLEAN
    BY <2>6, <2>10, <1>3
  <2>11. QED
    BY <2>5, <2>8, <2>9, <2>10
<1>7. ASSUME which \subseteq Rows(state), state' = Closed(state, which)
      PROVE  /\ state' \in [State -> FlowRow \cup {None}]
             /\ \A x \in State :
                  /\ state'[x] = None <=> state[x] = None
                  /\ state[x] # None =>
                       /\ state'[x].account = state[x].account
                       /\ state'[x].mode = state[x].mode
                       /\ state'[x].open = (state[x].open /\ x \notin which)
  <2>1. state' = [x \in State |-> IF x \in which THEN [state[x] EXCEPT !.open = FALSE] ELSE state[x]]
    BY <1>1, <1>7 DEF Closed
  <2>2. \A x \in which : state[x] \in FlowRow /\ state[x] # None
    BY <1>1, <1>7 DEF Rows
  <2>3. None \notin FlowRow
    BY IdentifierAssumption
  <2>4. ASSUME NEW x \in State, x \in which
        PROVE  state'[x] = [state[x] EXCEPT !.open = FALSE] /\ state[x] \in FlowRow /\ state[x] # None
    BY <2>1, <2>2, <2>4
  <2>5. ASSUME NEW x \in State, x \notin which PROVE state'[x] = state[x]
    BY <2>1, <2>5
  <2>6. \A x \in State : state[x] \in FlowRow \cup {None}
    BY <1>1
  <2>7. \A x \in State : state'[x] \in FlowRow \cup {None}
    BY <1>4, <2>4, <2>5, <2>6
  <2>8. state' \in [State -> FlowRow \cup {None}]
    BY <2>1, <2>7
  <2>9. ASSUME NEW x \in State, x \in which
        PROVE  /\ state'[x] # None /\ state[x] # None /\ state'[x].open = FALSE
               /\ state'[x].account = state[x].account /\ state'[x].mode = state[x].mode
    BY <2>3, <2>4, <2>9, <1>4
  <2>10. ASSUME NEW x \in State, state[x] # None PROVE state[x].open \in BOOLEAN
    BY <2>6, <2>10, <1>4
  <2>11. QED
    BY <2>5, <2>8, <2>9, <2>10
<1>8. QED
  BY <1>5, <1>6, <1>7

(* A thing was used: it is closed from then on.                              *)
LEMMA UsesCounted ==
  ASSUME Inv, NEW x \in Thing, uses' = [uses EXCEPT ![x] = @ + 1],
         \A t \in Token : token'[t] = None \/ token'[t].open =>
                            t # x /\ (token[t] = None \/ token[t].open),
         \A c \in Challenge : challenge'[c] = None \/ challenge'[c].open =>
                                c # x /\ (challenge[c] = None \/ challenge[c].open),
         \A y \in State : state'[y] = None \/ state'[y].open =>
                            y # x /\ (state[y] = None \/ state[y].open)
  PROVE  UsesOK'
<1>1. uses \in [Thing -> Nat] /\ uses' \in [Thing -> Nat]
  BY DEF Inv, UsesOK
<1>2. \A y \in Thing : y # x => uses'[y] = uses[y]
  BY <1>1
<1>3. Token \subseteq Thing /\ Challenge \subseteq Thing /\ State \subseteq Thing
  BY DEF Thing
<1>4. QED
  BY <1>1, <1>2, <1>3 DEF Inv, UsesOK

(* The requests stay where they are.                                         *)
LEMMA StillStep ==
  ASSUME Inv, UNCHANGED <<job, history>>, account'.failed = account.failed, account'.pw = account.pw,
         FlowsKept, TypeOK', UsesOK', LinkedByItsStarter',
         \A s \in Rows(session)' : Outlived(session[s])' =>
           s \in Rows(session) /\ Outlived(session[s]),
         \A t \in Rows(token)' : Stale(token[t])' => t \in Rows(token) /\ Stale(token[t]),
         \A c \in Rows(challenge)' :
           c \in Rows(challenge) /\ challenge'[c].attempts = challenge[c].attempts
  PROVE  Inv'
<1>1. \A i \in Job : job'[i] = job[i]
  OBVIOUS
<1>2. \A i \in Job : job'[i] \in JobRow /\ JobOK(job[i])'
  BY <1>1, SameJob
<1>3. job' = [i \in Job |-> job'[i]]
  BY DEF Inv, JobsOK
<1>4. AttemptsOK'
  BY <1>1, AttemptsKept
<1>5. QED
  BY <1>1, <1>2, <1>3, <1>4, Step

(* What a step that leaves a table alone keeps of it.                        *)
LEMMA TableTypes ==
  ASSUME Inv
  PROVE  /\ session \in [Session -> SessionRow \cup {None}]
         /\ token \in [Token -> TokenRow \cup {None}]
         /\ challenge \in [Challenge -> ChallengeRow \cup {None}]
         /\ state \in [State -> FlowRow \cup {None}]
         /\ identity \in [Identity -> LinkRow \cup {None}]
         /\ account \in Account /\ job \in [Job -> JobRow]
BY DEF Inv, TypeOK, SignInTypeOK, JobsOK

(* No session outlives a change of the password that was not made.           *)
LEMMA SessionsSame ==
  ASSUME UNCHANGED <<session, account>>
  PROVE  \A s \in Rows(session)' : Outlived(session[s])' =>
           s \in Rows(session) /\ Outlived(session[s])
BY DEF Rows, Outlived

(* The same of links and settings tokens.                                    *)
LEMMA TokensSame ==
  ASSUME UNCHANGED <<token, account>>
  PROVE  \A t \in Rows(token)' : Stale(token[t])' => t \in Rows(token) /\ Stale(token[t])
BY DEF Rows, Stale

(* Challenges that were left alone keep their attempts.                      *)
LEMMA ChallengesSame ==
  ASSUME UNCHANGED challenge
  PROVE  \A c \in Rows(challenge)' :
           c \in Rows(challenge) /\ challenge'[c].attempts = challenge[c].attempts
BY DEF Rows

(* Action tokens were closed.                                                *)
LEMMA TokensClosed ==
  ASSUME Inv, NEW which, which \subseteq Rows(token), token' = Closed(token, which),
         account'.pw = account.pw
  PROVE  /\ token' \in [Token -> TokenRow \cup {None}]
         /\ \A t \in Token : token'[t] = None \/ token'[t].open =>
              t \notin which /\ (token[t] = None \/ token[t].open)
         /\ \A t \in Rows(token)' : Stale(token[t])' => t \in Rows(token) /\ Stale(token[t])
<1>1. /\ token' \in [Token -> TokenRow \cup {None}]
      /\ \A t \in Token :
           /\ token'[t] = None <=> token[t] = None
           /\ token[t] # None =>
                /\ token'[t].by = token[t].by /\ token'[t].overlapped = token[t].overlapped
                /\ token'[t].open = (token[t].open /\ t \notin which)
  BY ClosedRows
<1>2. which \subseteq Token /\ \A t \in which : token[t] # None
  BY TableTypes DEF Rows
<1>3. \A t \in Token : token'[t] = None \/ token'[t].open =>
        t \notin which /\ (token[t] = None \/ token[t].open)
  BY <1>1, <1>2
<1>4. \A t \in Rows(token)' : Stale(token[t])' => t \in Rows(token) /\ Stale(token[t])
  BY <1>1, TableTypes DEF Rows, Stale
<1>5. QED
  BY <1>1, <1>3, <1>4

(* Challenges were closed: attempts stay.                                    *)
LEMMA ChallengesClosed ==
  ASSUME Inv, NEW which, which \subseteq Rows(challenge), challenge' = Closed(challenge, which)
  PROVE  /\ challenge' \in [Challenge -> ChallengeRow \cup {None}]
         /\ \A c \in Challenge : challenge'[c] = None \/ challenge'[c].open =>
              c \notin which /\ (challenge[c] = None \/ challenge[c].open)
         /\ \A c \in Rows(challenge)' :
              c \in Rows(challenge) /\ challenge'[c].attempts = challenge[c].attempts
<1>1. /\ challenge' \in [Challenge -> ChallengeRow \cup {None}]
      /\ \A c \in Challenge :
           /\ challenge'[c] = None <=> challenge[c] = None
           /\ challenge[c] # None =>
                /\ challenge'[c].attempts = challenge[c].attempts
                /\ challenge'[c].open = (challenge[c].open /\ c \notin which)
  BY ClosedRows
<1>2. which \subseteq Challenge /\ \A c \in which : challenge[c] # None
  BY TableTypes DEF Rows
<1>3. \A c \in Challenge : challenge'[c] = None \/ challenge'[c].open =>
        c \notin which /\ (challenge[c] = None \/ challenge[c].open)
  BY <1>1, <1>2
<1>4. \A c \in Rows(challenge)' :
        c \in Rows(challenge) /\ challenge'[c].attempts = challenge[c].attempts
  BY <1>1, TableTypes DEF Rows
<1>5. QED
  BY <1>1, <1>3, <1>4

(* A flow was closed: it keeps its account.                                  *)
LEMMA FlowsClosed ==
  ASSUME Inv, NEW x \in Rows(state), state' = Closed(state, {x})
  PROVE  /\ state' \in [State -> FlowRow \cup {None}] /\ FlowsKept
         /\ \A y \in State : state'[y] = None \/ state'[y].open =>
              y # x /\ (state[y] = None \/ state[y].open)
<1>1. /\ state' \in [State -> FlowRow \cup {None}]
      /\ \A y \in State :
           /\ state'[y] = None <=> state[y] = None
           /\ state[y] # None =>
                /\ state'[y].account = state[y].account
                /\ state'[y].open = (state[y].open /\ y \notin {x})
  <2> DEFINE which == {x}
  <2>1. which \subseteq Rows(state) /\ state' = Closed(state, which)
    OBVIOUS
  <2> HIDE DEF which
  <2>2. /\ state' \in [State -> FlowRow \cup {None}]
        /\ \A y \in State :
             /\ state'[y] = None <=> state[y] = None
             /\ state[y] # None =>
                  /\ state'[y].account = state[y].account
                  /\ state'[y].open = (state[y].open /\ y \notin which)
    BY <2>1, ClosedRows
  <2>3. QED
    BY <2>2 DEF which
<1>2. x \in State /\ state[x] # None
  BY TableTypes DEF Rows
<1>3. QED
  BY <1>1, <1>2 DEF FlowsKept

(* Whoever answers passed the ceiling, and there are no more of them than    *)
(* requests.                                                                 *)
LEMMA AnswerStep ==
  ASSUME Inv, NEW j \in Job, NEW c \in Challenge, Answer(j, c), UNCHANGED <<state, identity>>
  PROVE  Inv'
<1> DEFINE new == [NoJob EXCEPT !.at = "answer", !.kind = "code", !.on = c]
<1>1. /\ new \in JobRow /\ new.at = "answer" /\ new.on = c
  BY NoJobOK DEF JobRow, NoJob
<1>2. job'[j] = new /\ job' = [job EXCEPT ![j] = job'[j]] /\ job[j].at = "idle" /\ Quiet
  BY TableTypes DEF Answer, Begin, Quiet
<1>3. JobOK(job[j])'
  BY <1>1, <1>2 DEF JobOK, Holding, Unsaved, Checking
<1>4. ASSUME NEW d \in Rows(challenge)'
      PROVE  challenge'[d].attempts + Cardinality(InFlight(d)')
               <= MaxAttempts + Cardinality(Job) - 1
  <2>1. /\ d \in Rows(challenge) /\ challenge'[d].attempts = challenge[d].attempts
        /\ challenge[d].attempts + Cardinality(InFlight(d)) <= MaxAttempts + Cardinality(Job) - 1
        /\ challenge[d].attempts \in Nat
    BY <1>2, TableTypes DEF Quiet, Rows, Inv, AttemptsOK, ChallengeRow
  <2>2. /\ IsFiniteSet(InFlight(d)) /\ IsFiniteSet(InFlight(d)') /\ IsFiniteSet(Job)
        /\ InFlight(d)' \subseteq Job
    BY CeilingAssumption, FS_Subset DEF InFlight
  <2>3. /\ Cardinality(InFlight(d)) \in Nat /\ Cardinality(InFlight(d)') \in Nat
        /\ Cardinality(Job) \in Nat /\ Cardinality(InFlight(d)') <= Cardinality(Job)
    BY <2>2, FS_Subset, FS_CardinalityType
  <2>4. CASE d = c
    BY <2>1, <2>3, <2>4, CeilingAssumption DEF Answer
  <2>5. CASE d # c
    <3>1. \A i \in Job : i # j => job'[i] = job[i]
      BY <1>2, TableTypes
    <3>2. InFlight(d)' = InFlight(d)
      BY <1>1, <1>2, <3>1, <2>5 DEF InFlight, Checking
    <3>3. QED
      BY <2>1, <3>2
  <2>6. QED
    BY <2>4, <2>5
<1>5. AttemptsOK'
  BY <1>4 DEF AttemptsOK
<1>6. QED
  BY <1>1, <1>2, <1>3, <1>5, JobStep DEF Dropping

(* Counting an attempt takes one from those that may still count.            *)
LEMMA AttemptStep ==
  ASSUME Inv, NEW j \in Job, Attempt(j), UNCHANGED <<state, identity>>
  PROVE  Inv'
<1> PICK c : c = job[j].on
  OBVIOUS
<1>1. /\ job[j].at = "attempt" /\ job[j] \in JobRow /\ JobOK(job[j])
      /\ UNCHANGED <<mix, account, factor, session, token, uses, history, state, identity>>
      /\ Go(j, "fail")
  BY DEF Attempt, Inv, JobsOK
<1>2. c \in Challenge
  BY <1>1 DEF JobOK, Checking
<1>3. /\ job' = [job EXCEPT ![j] = job'[j]] /\ job'[j] \in JobRow /\ job'[j].at = "fail"
      /\ job'[j].copy = job[j].copy /\ job'[j].fresh = job[j].fresh
  BY <1>1, GoneTo DEF Holding, Unsaved
<1>4. JobOK(job[j])'
  BY <1>1, <1>3 DEF JobOK, Holding, Unsaved, Checking
<1>5. \A i \in Job : i # j => job'[i] = job[i]
  BY <1>3, TableTypes
<1>6. challenge' \in [Challenge -> ChallengeRow \cup {None}] /\ UsesOK' /\ AttemptsOK'
  <2>1. CASE challenge[c] = None
    <3>1. challenge' = challenge
      BY <2>1 DEF Attempt
    <3>2. UsesOK'
      BY <1>1, <3>1, UsesKept
    <3>3. \A i \in Job : job'[i].at \in Checking => job[i].at \in Checking /\ job'[i].on = job[i].on
      BY <1>3, <1>5 DEF Checking
    <3>4. AttemptsOK'
      BY <3>1, <3>3, AttemptsKept, ChallengesSame
    <3>5. QED
      BY <3>1, <3>2, <3>4, TableTypes
  <2>2. CASE challenge[c] # None
    <3>1. challenge' = [challenge EXCEPT ![c].attempts = @ + 1]
      BY <2>2 DEF Attempt
    <3>2. /\ challenge[c] \in ChallengeRow /\ challenge[c].attempts \in Nat
          /\ challenge[c].attempts + Cardinality(InFlight(c)) <= MaxAttempts + Cardinality(Job) - 1
      BY <1>2, <2>2, TableTypes DEF Rows, Inv, AttemptsOK, ChallengeRow
    <3>3. /\ \A d \in Challenge : d # c => challenge'[d] = challenge[d]
          /\ challenge'[c] = [challenge[c] EXCEPT !.attempts = challenge[c].attempts + 1]
          /\ challenge' = [d \in Challenge |-> challenge'[d]]
      BY <1>2, <3>1, TableTypes
    <3>4. /\ IsFiniteSet(InFlight(c)) /\ IsFiniteSet(Job) /\ j \in InFlight(c)
      BY <1>1, CeilingAssumption, FS_Subset DEF InFlight, Checking
    <3>5. InFlight(c)' = InFlight(c) \ {j}
      BY <1>3, <1>5 DEF InFlight, Checking
    <3>6. /\ Cardinality(InFlight(c)) \in Nat /\ Cardinality(InFlight(c)') \in Nat
          /\ Cardinality(Job) \in Nat
          /\ Cardinality(InFlight(c)') = Cardinality(InFlight(c)) - 1
      BY <3>4, <3>5, FS_RemoveElement, FS_CardinalityType
    <3>7. challenge[c].attempts + 1 \in 0..(MaxAttempts + Cardinality(Job) - 1)
      BY <3>2, <3>6, CeilingAssumption
    <3>8. /\ challenge'[c] \in ChallengeRow /\ challenge'[c].open = challenge[c].open
          /\ challenge'[c].attempts = challenge[c].attempts + 1
      BY <3>2, <3>3, <3>7 DEF ChallengeRow
    <3>9. challenge' \in [Challenge -> ChallengeRow \cup {None}]
      BY <3>3, <3>8, TableTypes
    <3>10. None \notin ChallengeRow
      BY RowsAssumption
    <3>11. \A d \in Challenge : challenge'[d] = None \/ challenge'[d].open =>
                                  challenge[d] = None \/ challenge[d].open
      BY <3>3, <3>8, <3>10
    <3>12. UsesOK'
      BY <1>1, <3>11, UsesKept
    <3>13. ASSUME NEW d \in Rows(challenge)'
           PROVE  challenge'[d].attempts + Cardinality(InFlight(d)')
                    <= MaxAttempts + Cardinality(Job) - 1
      <4>1. CASE d = c
        BY <4>1, <3>2, <3>6, <3>8, CeilingAssumption
      <4>2. CASE d # c
        <5>1. d \in Rows(challenge) /\ challenge'[d] = challenge[d] /\ challenge[d].attempts \in Nat
          BY <4>2, <3>3, <3>13, TableTypes DEF Rows, ChallengeRow
        <5>2. \A i \in Job : job'[i].at \in Checking => job[i].at \in Checking /\ job'[i].on = job[i].on
          BY <1>3, <1>5 DEF Checking
        <5>3. challenge[d].attempts + Cardinality(InFlight(d)) <= MaxAttempts + Cardinality(Job) - 1
          BY <5>1 DEF Inv, AttemptsOK
        <5>4. QED
          BY <5>1, <5>2, <5>3, FewerInFlight, CeilingAssumption
      <4>3. QED
        BY <4>1, <4>2
    <3>14. AttemptsOK'
      BY <3>13 DEF AttemptsOK
    <3>15. QED
      BY <3>9, <3>12, <3>14
  <2>3. QED
    BY <2>1, <2>2
<1>7. FlowsKept /\ LinkedByItsStarter'
  BY <1>1, LinksKept DEF FlowsKept
<1>8. QED
  BY <1>1, <1>3, <1>4, <1>6, <1>7, TableTypes, SessionsSame, TokensSame, MovedStep DEF Dropping

(* A request that ends, or that checks no code any more, checks none.        *)
LEMMA ChecksNoMore ==
  ASSUME Inv, NEW j \in Job, job' = [job EXCEPT ![j] = job'[j]], job'[j].at \notin Checking
  PROVE  \A i \in Job : job'[i].at \in Checking => job[i].at \in Checking /\ job'[i].on = job[i].on
BY TableTypes

(* A request that ends is none from then on.                                 *)
LEMMA Ends ==
  ASSUME Inv, NEW j \in Job, End(j)
  PROVE  /\ job' = [job EXCEPT ![j] = job'[j]] /\ job'[j] \in JobRow /\ JobOK(job[j])'
         /\ job'[j].at = "idle"
<1>1. job'[j] = NoJob /\ job' = [job EXCEPT ![j] = job'[j]]
  BY TableTypes DEF End
<1>2. QED
  BY <1>1, EndedJob, NoJobOK

(* issueChallenge: a challenge starts without attempts.                      *)
LEMMA MintStep ==
  ASSUME Inv, NEW j \in Job, NEW c \in Challenge, Mint(j, c), UNCHANGED <<state, identity>>
  PROVE  Inv'
<1> DEFINE new == [open |-> TRUE, late |-> FALSE, attempts |-> 0]
<1>1. /\ job[j].at = "mint" /\ challenge[c] = None /\ challenge' = [challenge EXCEPT ![c] = new]
      /\ End(j) /\ UNCHANGED <<mix, account, factor, session, token, uses, history, state, identity>>
  BY DEF Mint
<1>2. /\ job' = [job EXCEPT ![j] = job'[j]] /\ job'[j] \in JobRow /\ JobOK(job[j])'
      /\ job'[j].at = "idle"
  BY <1>1, Ends
<1>3. Cardinality(Job) \in Nat /\ Cardinality(Job) >= 1
  <2>1. Cardinality(Job) \in Nat
    BY CeilingAssumption, FS_CardinalityType
  <2>2. Cardinality(Job) # 0
    BY CeilingAssumption, FS_EmptySet
  <2>3. QED
    BY <2>1, <2>2
<1>4. new \in ChallengeRow /\ new.attempts = 0 /\ new # None
  <2>1. 0 \in 0..(MaxAttempts + Cardinality(Job) - 1)
    BY <1>3, CeilingAssumption
  <2>2. new \in ChallengeRow
    BY <2>1 DEF ChallengeRow
  <2>3. QED
    BY <2>2, RowsAssumption
<1>5. /\ challenge' \in [Challenge -> ChallengeRow \cup {None}]
      /\ challenge'[c] = new /\ \A d \in Challenge : d # c => challenge'[d] = challenge[d]
  <2> HIDE DEF new
  <2> QED
    BY <1>1, <1>4, TableTypes
<1>6. UsesOK'
  BY <1>1, <1>5, UsesKept
<1>7. ASSUME NEW d \in Rows(challenge)'
      PROVE  challenge'[d].attempts + Cardinality(InFlight(d)')
               <= MaxAttempts + Cardinality(Job) - 1
  <2>1. \A i \in Job : job'[i].at \in Checking => job[i].at \in Checking /\ job'[i].on = job[i].on
    BY <1>2, ChecksNoMore DEF Checking
  <2>2. CASE d = c
    <3>1. IsFiniteSet(Job) /\ InFlight(c)' \subseteq Job
      BY CeilingAssumption DEF InFlight
    <3>2. /\ Cardinality(InFlight(c)') \in Nat
          /\ Cardinality(InFlight(c)') <= Cardinality(Job)
      BY <2>1, <3>1, FewerInFlight, FS_Subset
    <3>3. challenge'[d].attempts = 0
      BY <1>4, <1>5, <2>2
    <3>4. QED
      BY <1>3, <2>2, <3>2, <3>3, CeilingAssumption
  <2>3. CASE d # c
    <3>1. d \in Rows(challenge) /\ challenge'[d] = challenge[d]
      BY <1>5, <1>7, <2>3, TableTypes DEF Rows
    <3>2. /\ challenge[d].attempts + Cardinality(InFlight(d)) <= MaxAttempts + Cardinality(Job) - 1
          /\ challenge[d].attempts \in Nat
      BY <3>1, TableTypes DEF Inv, AttemptsOK, Rows, ChallengeRow
    <3>3. QED
      BY <2>1, <3>1, <3>2, FewerInFlight, CeilingAssumption
  <2>4. QED
    BY <2>2, <2>3
<1>8. AttemptsOK'
  BY <1>7 DEF AttemptsOK
<1>9. FlowsKept /\ LinkedByItsStarter'
  BY <1>1, LinksKept DEF FlowsKept
<1>10. QED
  BY <1>1, <1>2, <1>5, <1>6, <1>8, <1>9, TableTypes, SessionsSame, TokensSame, MovedStep DEF Dropping

(* revokeChallenges closes every challenge.                                  *)
LEMMA RevokeStep ==
  ASSUME Inv, NEW j \in Job, RevokeChallenges(j), UNCHANGED <<state, identity>>
  PROVE  Inv'
<1>1. /\ job[j].at = "revoke" /\ challenge' = Closed(challenge, Rows(challenge))
      /\ End(j) /\ UNCHANGED <<mix, account, factor, session, token, uses, history, state, identity>>
  BY DEF RevokeChallenges
<1>2. /\ job' = [job EXCEPT ![j] = job'[j]] /\ job'[j] \in JobRow /\ JobOK(job[j])'
      /\ job'[j].at = "idle"
  BY <1>1, Ends
<1>3. /\ challenge' \in [Challenge -> ChallengeRow \cup {None}]
      /\ \A c \in Challenge : challenge'[c] = None \/ challenge'[c].open =>
                                challenge[c] = None \/ challenge[c].open
      /\ \A c \in Rows(challenge)' :
           c \in Rows(challenge) /\ challenge'[c].attempts = challenge[c].attempts
  BY <1>1, ChallengesClosed
<1>4. UsesOK'
  BY <1>1, <1>3, UsesKept
<1>5. AttemptsOK'
  <2>1. \A i \in Job : job'[i].at \in Checking => job[i].at \in Checking /\ job'[i].on = job[i].on
    BY <1>2, ChecksNoMore DEF Checking
  <2>2. QED
    BY <1>3, <2>1, AttemptsKept
<1>6. FlowsKept /\ LinkedByItsStarter'
  BY <1>1, LinksKept DEF FlowsKept
<1>7. QED
  BY <1>1, <1>2, <1>3, <1>4, <1>5, <1>6, TableTypes, SessionsSame, TokensSame, MovedStep DEF Dropping

(* consumeChallenge: the request that wins it goes on, another one ends.     *)
LEMMA SpendStep ==
  ASSUME Inv, NEW j \in Job, Spend(j), UNCHANGED <<state, identity>>
  PROVE  Inv'
<1> DEFINE c == job[j].on
<1>1. /\ job[j].at = "spend" /\ JobOK(job[j])
      /\ UNCHANGED <<mix, account, factor, session, token, history, state, identity>>
  BY DEF Spend, Inv, JobsOK
<1>2. c \in Challenge /\ c \in Thing
  BY <1>1 DEF JobOK, Thing
<1>3. CASE Open(challenge[c])
  <2>1. /\ challenge' = Closed(challenge, {c}) /\ Go(j, "clear")
        /\ uses' = [uses EXCEPT ![c] = @ + 1] /\ {c} \subseteq Rows(challenge)
    BY <1>2, <1>3, TableTypes DEF Spend, Open, Rows
  <2>2. /\ job' = [job EXCEPT ![j] = job'[j]] /\ job'[j] \in JobRow /\ job'[j].at = "clear"
        /\ job'[j].copy = job[j].copy /\ job'[j].fresh = job[j].fresh
    BY <2>1, GoneTo DEF Holding, Unsaved
  <2>3. JobOK(job[j])'
    BY <1>1, <2>2 DEF JobOK, Holding, Unsaved, Checking
  <2>4. /\ challenge' \in [Challenge -> ChallengeRow \cup {None}]
        /\ \A d \in Challenge : challenge'[d] = None \/ challenge'[d].open =>
                                  d # c /\ (challenge[d] = None \/ challenge[d].open)
        /\ \A d \in Rows(challenge)' :
             d \in Rows(challenge) /\ challenge'[d].attempts = challenge[d].attempts
    <3> HIDE DEF c
    <3> DEFINE which == {c}
    <3>1. which \subseteq Rows(challenge) /\ challenge' = Closed(challenge, which)
      BY <2>1
    <3> HIDE DEF which
    <3>2. /\ challenge' \in [Challenge -> ChallengeRow \cup {None}]
          /\ \A d \in Challenge : challenge'[d] = None \/ challenge'[d].open =>
               d \notin which /\ (challenge[d] = None \/ challenge[d].open)
          /\ \A d \in Rows(challenge)' :
               d \in Rows(challenge) /\ challenge'[d].attempts = challenge[d].attempts
      BY <3>1, ChallengesClosed
    <3>3. QED
      BY <3>2 DEF which
  <2>5. UsesOK'
    <3>1. c \notin Token /\ c \notin State
      BY <1>2, IdentifierAssumption
    <3> HIDE DEF c
    <3>2. QED
      BY <1>1, <1>2, <2>1, <2>4, <3>1, UsesCounted
  <2>6. AttemptsOK'
    <3>1. \A i \in Job : job'[i].at \in Checking => job[i].at \in Checking /\ job'[i].on = job[i].on
      BY <2>2, ChecksNoMore DEF Checking
    <3>2. QED
      BY <2>4, <3>1, AttemptsKept
  <2>7. FlowsKept /\ LinkedByItsStarter'
    BY <1>1, LinksKept DEF FlowsKept
  <2>8. QED
    BY <1>1, <2>2, <2>3, <2>4, <2>5, <2>6, <2>7, TableTypes, SessionsSame, TokensSame, MovedStep
       DEF Dropping
<1>4. CASE ~Open(challenge[c])
  BY <1>1, <1>4, EndStep DEF Spend, Quiet, Dropping
<1>5. QED
  BY <1>3, <1>4

(* The steps outside any request.                                            *)
LEMMA SetFactorStep ==
  ASSUME Inv, SetFactor, UNCHANGED <<state, identity>> PROVE Inv'
<1>1. UNCHANGED <<mix, account, session, token, job, uses, history, state, identity>> /\ factor' \in BOOLEAN
  BY DEF SetFactor, Inv, TypeOK, SignInTypeOK
<1>2. /\ challenge' \in [Challenge -> ChallengeRow \cup {None}]
      /\ \A c \in Challenge : /\ challenge'[c] = None <=> challenge[c] = None
                              /\ challenge[c] # None =>
                                   /\ challenge'[c].attempts = challenge[c].attempts
                                   /\ challenge'[c].open => challenge[c].open
  <2>1. CASE challenge' = challenge
    BY <2>1, TableTypes
  <2>2. CASE challenge' = [c \in Challenge |-> IF challenge[c] = None THEN None
                             ELSE [challenge[c] EXCEPT !.open = FALSE, !.late = TRUE]]
    <3>1. ASSUME NEW c \in ChallengeRow
          PROVE  /\ [c EXCEPT !.open = FALSE, !.late = TRUE] \in ChallengeRow
                 /\ [c EXCEPT !.open = FALSE, !.late = TRUE].open = FALSE
                 /\ [c EXCEPT !.open = FALSE, !.late = TRUE].attempts = c.attempts
      BY DEF ChallengeRow
    <3>2. ASSUME NEW c \in Challenge, challenge[c] # None
          PROVE  /\ challenge'[c] \in ChallengeRow /\ challenge'[c].open = FALSE
                 /\ challenge'[c].attempts = challenge[c].attempts
      <4>1. challenge[c] \in ChallengeRow
        BY <3>2, TableTypes
      <4>2. challenge'[c] = [challenge[c] EXCEPT !.open = FALSE, !.late = TRUE]
        BY <2>2, <3>2
      <4>3. QED
        BY <4>1, <4>2, <3>1
    <3>3. ASSUME NEW c \in Challenge, challenge[c] = None PROVE challenge'[c] = None
      BY <2>2, <3>3
    <3>4. None \notin ChallengeRow
      BY RowsAssumption
    <3>5. challenge' = [c \in Challenge |-> challenge'[c]]
      BY <2>2
    <3>6. QED
      BY <3>2, <3>3, <3>4, <3>5
  <2>3. QED
    BY <2>1, <2>2 DEF SetFactor
<1>3. UsesOK'
  BY <1>1, <1>2, UsesKept
<1>4. \A c \in Rows(challenge)' :
        c \in Rows(challenge) /\ challenge'[c].attempts = challenge[c].attempts
  BY <1>2, TableTypes DEF Rows
<1>5. FlowsKept /\ LinkedByItsStarter'
  BY <1>1, LinksKept DEF FlowsKept
<1>6. TypeOK'
  BY <1>1, <1>2 DEF Inv, TypeOK, SignInTypeOK
<1>7. QED
  BY <1>1, <1>3, <1>4, <1>5, <1>6, SessionsSame, TokensSame, StillStep

(* The lock passes; the counter stays.                                       *)
LEMMA LockPassesStep ==
  ASSUME Inv, LockPasses, UNCHANGED <<state, identity>> PROVE Inv'
<1>1. /\ UNCHANGED <<mix, factor, session, token, challenge, job, uses, history, state, identity>>
      /\ account' = [account EXCEPT !.lock = "past"] /\ account \in Account
  BY TableTypes DEF LockPasses
<1>2. account' \in Account /\ account'.failed = account.failed /\ account'.pw = account.pw
  BY <1>1 DEF Account
<1>3. TypeOK'
  BY <1>1, <1>2 DEF Inv, TypeOK, SignInTypeOK
<1>4. UsesOK' /\ FlowsKept /\ LinkedByItsStarter'
  BY <1>1, UsesKept, LinksKept DEF FlowsKept
<1>5. /\ \A s \in Rows(session)' : Outlived(session[s])' =>
           s \in Rows(session) /\ Outlived(session[s])
      /\ \A t \in Rows(token)' : Stale(token[t])' => t \in Rows(token) /\ Stale(token[t])
  BY <1>1, <1>2 DEF Rows, Outlived, Stale
<1>6. QED
  BY <1>1, <1>2, <1>3, <1>4, <1>5, ChallengesSame, StillStep

(* A credential is given for the password of the copy, and is overlapped     *)
(* when that is not the one in force any more.                               *)
LEMMA CredentialStep ==
  ASSUME Inv, NEW j \in Job, NEW s \in Session, NEW kind \in {"SESSION", "API"},
         job[j].at \in {"issue", "record"}, session[s] = None,
         session' = [session EXCEPT ![s] = Credential(j, kind)], End(j),
         UNCHANGED <<mix, account, factor, token, challenge, uses, history, state, identity>>
  PROVE  Inv'
<1> DEFINE new == Credential(j, kind)
<1>1. JobOK(job[j]) /\ job[j].copy \in Account
  BY DEF Inv, JobsOK, JobOK, Holding
<1>2. new \in SessionRow /\ new.by = job[j].copy.pw /\ new.overlapped = (job[j].copy.pw # account.pw)
  BY <1>1 DEF Credential, SessionRow, Account
<1>3. /\ job' = [job EXCEPT ![j] = job'[j]] /\ job'[j] \in JobRow /\ JobOK(job[j])'
      /\ job'[j].at = "idle"
  BY Ends
<1>4. /\ session' \in [Session -> SessionRow \cup {None}]
      /\ session'[s] = new /\ \A r \in Session : r # s => session'[r] = session[r]
  <2> HIDE DEF new
  <2> QED
    BY <1>2, TableTypes DEF new
<1>5. \A r \in Rows(session)' : Outlived(session[r])' =>
        r \in Rows(session) /\ Outlived(session[r])
  <2> HIDE DEF new
  <2> QED
    BY <1>2, <1>4, TableTypes DEF Rows, Outlived
<1>6. UsesOK' /\ FlowsKept /\ LinkedByItsStarter'
  BY UsesKept, LinksKept DEF FlowsKept
<1>7. AttemptsOK'
  BY <1>3, ChecksNoMore, AttemptsKept, ChallengesSame DEF Checking
<1>8. QED
  BY <1>3, <1>4, <1>5, <1>6, <1>7, TableTypes, TokensSame, MovedStep DEF Dropping

(* Sessions end by request or in time.                                       *)
LEMMA EndSessionsStep ==
  ASSUME Inv, NEW gone \in SUBSET Session, EndSessions(gone), UNCHANGED <<state, identity>>
  PROVE  Inv'
<1>1. /\ UNCHANGED <<mix, account, factor, token, challenge, job, uses, history, state, identity>>
      /\ \A s \in gone : Live(s)
      /\ session' = [s \in Session |-> IF s \in gone THEN [session[s] EXCEPT !.live = FALSE]
                                       ELSE session[s]]
  BY DEF EndSessions
<1>2. ASSUME NEW r \in SessionRow
      PROVE  [r EXCEPT !.live = FALSE] \in SessionRow /\ [r EXCEPT !.live = FALSE].live = FALSE
  BY DEF SessionRow
<1>3. ASSUME NEW s \in gone
      PROVE  session'[s] \in SessionRow /\ session'[s].live = FALSE
  <2>1. session[s] \in SessionRow /\ session'[s] = [session[s] EXCEPT !.live = FALSE]
    BY <1>1, TableTypes DEF Live
  <2>2. QED
    BY <1>2, <2>1
<1>4. \A s \in Session : s \notin gone => session'[s] = session[s]
  BY <1>1
<1>5. session' \in [Session -> SessionRow \cup {None}]
  <2>1. session' = [s \in Session |-> session'[s]]
    BY <1>1
  <2>2. QED
    BY <1>3, <1>4, <2>1, TableTypes
<1>6. \A s \in Rows(session)' : Outlived(session[s])' =>
        s \in Rows(session) /\ Outlived(session[s])
  BY <1>1, <1>3, <1>4, <1>5, TableTypes DEF Rows, Outlived
<1>7. TypeOK'
  BY <1>1, <1>5 DEF Inv, TypeOK, SignInTypeOK
<1>8. UsesOK' /\ FlowsKept /\ LinkedByItsStarter'
  BY <1>1, UsesKept, LinksKept DEF FlowsKept
<1>9. QED
  BY <1>1, <1>6, <1>7, <1>8, TokensSame, ChallengesSame, StillStep

(* Earlier links are withdrawn.                                              *)
LEMMA WithdrawStep ==
  ASSUME Inv, NEW j \in Job, Withdraw(j), UNCHANGED <<state, identity>> PROVE Inv'
<1>1. /\ job[j].at = "withdraw" /\ JobOK(job[j]) /\ Go(j, "link")
      /\ UNCHANGED <<mix, account, factor, session, challenge, uses, history, state, identity>>
  BY DEF Withdraw, Inv, JobsOK
<1>2. /\ job' = [job EXCEPT ![j] = job'[j]] /\ job'[j] \in JobRow /\ job'[j].at = "link"
      /\ job'[j].copy = job[j].copy /\ job'[j].kind = job[j].kind
  BY <1>1, GoneTo DEF Holding, Unsaved
<1>3. JobOK(job[j])'
  BY <1>1, <1>2 DEF JobOK, Holding, Unsaved, Checking
<1>4. PICK which : which \subseteq Rows(token) /\ token' = Closed(token, which)
  BY DEF Withdraw
<1>5. /\ token' \in [Token -> TokenRow \cup {None}]
      /\ \A t \in Token : token'[t] = None \/ token'[t].open => token[t] = None \/ token[t].open
      /\ \A t \in Rows(token)' : Stale(token[t])' => t \in Rows(token) /\ Stale(token[t])
  BY <1>1, <1>4, TokensClosed
<1>6. UsesOK' /\ FlowsKept /\ LinkedByItsStarter'
  BY <1>1, <1>5, UsesKept, LinksKept DEF FlowsKept
<1>7. AttemptsOK'
  BY <1>1, <1>2, ChecksNoMore, AttemptsKept, ChallengesSame DEF Checking
<1>8. QED
  BY <1>1, <1>2, <1>3, <1>5, <1>6, <1>7, TableTypes, SessionsSame, MovedStep DEF Dropping

(* A link or a settings token is given for the password of the copy.         *)
LEMMA IssueActionTokenStep ==
  ASSUME Inv, NEW j \in Job, NEW t \in Token, IssueActionToken(j, t), UNCHANGED <<state, identity>>
  PROVE  Inv'
<1> DEFINE new == [purpose |-> job[j].kind, open |-> TRUE, by |-> job[j].copy.pw,
                   overlapped |-> job[j].copy.pw # account.pw]
<1>1. /\ job[j].at = "link" /\ JobOK(job[j]) /\ End(j) /\ token[t] = None
      /\ token' = [token EXCEPT ![t] = new]
      /\ UNCHANGED <<mix, account, factor, session, challenge, uses, history, state, identity>>
  BY DEF IssueActionToken, Inv, JobsOK
<1>2. job[j].copy \in Account /\ job[j].kind \in Purpose
  BY <1>1 DEF JobOK, Holding
<1>3. new \in TokenRow /\ new.by = job[j].copy.pw /\ new.overlapped = (job[j].copy.pw # account.pw)
  BY <1>2 DEF TokenRow, Account
<1>4. /\ job' = [job EXCEPT ![j] = job'[j]] /\ job'[j] \in JobRow /\ JobOK(job[j])'
      /\ job'[j].at = "idle"
  BY <1>1, Ends
<1>5. /\ token' \in [Token -> TokenRow \cup {None}]
      /\ token'[t] = new /\ \A u \in Token : u # t => token'[u] = token[u]
  <2> HIDE DEF new
  <2> QED
    BY <1>1, <1>3, TableTypes
<1>6. \A u \in Rows(token)' : Stale(token[u])' => u \in Rows(token) /\ Stale(token[u])
  <2> HIDE DEF new
  <2> QED
    BY <1>1, <1>3, <1>5, TableTypes DEF Rows, Stale
<1>7. UsesOK' /\ FlowsKept /\ LinkedByItsStarter'
  <2> HIDE DEF new
  <2> QED
    BY <1>1, <1>5, UsesKept, LinksKept DEF FlowsKept
<1>8. AttemptsOK'
  BY <1>1, <1>4, ChecksNoMore, AttemptsKept, ChallengesSame DEF Checking
<1>9. QED
  BY <1>1, <1>4, <1>5, <1>6, <1>7, <1>8, TableTypes, SessionsSame, MovedStep DEF Dropping

(* consumeActionToken, whoever asks.                                         *)
LEMMA RedeemStep ==
  ASSUME Inv, NEW j \in Job, NEW t \in Token, Redeem(j, t), UNCHANGED <<state, identity>>,
         job' = [job EXCEPT ![j] = job'[j]], job'[j] \in JobRow, JobOK(job[j])',
         job[j].at \notin Dropping, job'[j].at \notin Checking
  PROVE  Inv'
<1> DEFINE which == {t}
<1>1. /\ which \subseteq Rows(token) /\ token' = Closed(token, which) /\ t \in Thing
      /\ t \notin Challenge /\ t \notin State /\ uses' = [uses EXCEPT ![t] = @ + 1]
      /\ UNCHANGED <<mix, account, factor, session, challenge, history, state, identity>>
  BY TableTypes, IdentifierAssumption DEF Redeem, Open, Rows, Thing
<1> HIDE DEF which
<1>2. /\ token' \in [Token -> TokenRow \cup {None}]
      /\ \A u \in Token : token'[u] = None \/ token'[u].open =>
           u \notin which /\ (token[u] = None \/ token[u].open)
      /\ \A u \in Rows(token)' : Stale(token[u])' => u \in Rows(token) /\ Stale(token[u])
  BY <1>1, TokensClosed
<1>3. \A u \in Token : token'[u] = None \/ token'[u].open =>
        u # t /\ (token[u] = None \/ token[u].open)
  BY <1>2 DEF which
<1>4. UsesOK' /\ FlowsKept /\ LinkedByItsStarter'
  BY <1>1, <1>3, UsesCounted, LinksKept DEF FlowsKept
<1>5. AttemptsOK'
  BY <1>1, ChecksNoMore, AttemptsKept, ChallengesSame
<1>6. QED
  BY <1>1, <1>2, <1>4, <1>5, TableTypes, SessionsSame, MovedStep

(* A reset begins by using the link.                                         *)
LEMMA ResetPasswordStep ==
  ASSUME Inv, NEW j \in Job, NEW t \in Token, ResetPassword(j, t), UNCHANGED <<state, identity>>
  PROVE  Inv'
<1> DEFINE new == [NoJob EXCEPT !.at = "load", !.kind = "reset"]
<1>1. new \in JobRow /\ new.at = "load"
  BY NoJobOK DEF JobRow, NoJob
<1>2. /\ job'[j] = new /\ job' = [job EXCEPT ![j] = job'[j]] /\ job[j].at = "idle" /\ Redeem(j, t)
  BY TableTypes DEF ResetPassword, Begin
<1>3. JobOK(job[j])'
  BY <1>1, <1>2 DEF JobOK, Holding, Unsaved, Checking
<1>4. QED
  BY <1>1, <1>2, <1>3, RedeemStep DEF Dropping, Checking

(* A settings request uses its token and goes on, or ends.                   *)
LEMMA RedeemSettingsStep ==
  ASSUME Inv, NEW j \in Job, NEW t \in Token, NEW changes, RedeemSettings(j, t, changes),
         UNCHANGED <<state, identity>>
  PROVE  Inv'
<1>1. job[j].at = "redeem" /\ Redeem(j, t) /\ (Go(j, "rewrite") \/ End(j)) /\ JobOK(job[j])
  BY DEF RedeemSettings, Inv, JobsOK
<1>2. CASE End(j)
  BY <1>1, <1>2, Ends, RedeemStep DEF Dropping, Checking
<1>3. CASE Go(j, "rewrite")
  <2>1. /\ job' = [job EXCEPT ![j] = job'[j]] /\ job'[j] \in JobRow /\ job'[j].at = "rewrite"
        /\ job'[j].copy = job[j].copy /\ job'[j].fresh = job[j].fresh
    BY <1>3, GoneTo DEF Holding, Unsaved
  <2>2. account' = account
    BY <1>1 DEF Redeem
  <2>3. JobOK(job[j])'
    BY <1>1, <2>1, <2>2 DEF JobOK, Holding, Unsaved, Checking
  <2>4. QED
    BY <1>1, <2>1, <2>3, RedeemStep DEF Dropping, Checking
<1>4. QED
  BY <1>1, <1>2, <1>3

(* An action token or a challenge expires.                                   *)
LEMMA ExpireStep == ASSUME Inv, Expire, UNCHANGED <<state, identity>> PROVE Inv'
<1>1. UNCHANGED <<mix, account, factor, session, job, uses, history, state, identity>>
  BY DEF Expire
<1>2. FlowsKept /\ LinkedByItsStarter'
  BY <1>1, LinksKept DEF FlowsKept
<1>3. ASSUME NEW t \in Token, Open(token[t]), token' = Closed(token, {t}), UNCHANGED challenge
      PROVE  Inv'
  <2>1. PICK which : which \subseteq Rows(token) /\ token' = Closed(token, which)
    BY <1>3, TableTypes DEF Open, Rows
  <2>2. /\ token' \in [Token -> TokenRow \cup {None}]
        /\ \A u \in Token : token'[u] = None \/ token'[u].open => token[u] = None \/ token[u].open
        /\ \A u \in Rows(token)' : Stale(token[u])' => u \in Rows(token) /\ Stale(token[u])
    BY <1>1, <2>1, TokensClosed
  <2>3. UsesOK'
    BY <1>1, <1>3, <2>2, UsesKept
  <2>4. TypeOK'
    BY <1>1, <1>3, <2>2 DEF Inv, TypeOK, SignInTypeOK
  <2>5. QED
    BY <1>1, <1>2, <1>3, <2>2, <2>3, <2>4, SessionsSame, ChallengesSame, StillStep
<1>4. ASSUME NEW c \in Challenge, Open(challenge[c]),
             challenge' = [challenge EXCEPT ![c].late = TRUE], UNCHANGED token
      PROVE  Inv'
  <2>1. challenge[c] \in ChallengeRow
    BY <1>4, TableTypes DEF Open
  <2>2. /\ challenge'[c] = [challenge[c] EXCEPT !.late = TRUE]
        /\ \A d \in Challenge : d # c => challenge'[d] = challenge[d]
        /\ challenge' = [d \in Challenge |-> challenge'[d]]
    BY <1>4, TableTypes
  <2>3. /\ challenge'[c] \in ChallengeRow /\ challenge'[c].open = challenge[c].open
        /\ challenge'[c].attempts = challenge[c].attempts
    BY <2>1, <2>2 DEF ChallengeRow
  <2>4. None \notin ChallengeRow
    BY RowsAssumption
  <2>5. challenge' \in [Challenge -> ChallengeRow \cup {None}]
    BY <2>2, <2>3, TableTypes
  <2>6. \A d \in Challenge : challenge'[d] = None \/ challenge'[d].open =>
                               challenge[d] = None \/ challenge[d].open
    BY <2>2, <2>3, <2>4
  <2>7. \A d \in Rows(challenge)' :
          d \in Rows(challenge) /\ challenge'[d].attempts = challenge[d].attempts
    BY <1>4, <2>2, <2>3, <2>5, TableTypes DEF Rows, Open
  <2>8. UsesOK'
    BY <1>1, <1>4, <2>6, UsesKept
  <2>9. TypeOK'
    BY <1>1, <1>4, <2>5, TableTypes DEF Inv, TypeOK, SignInTypeOK
  <2>10. QED
    BY <1>1, <1>2, <1>4, <2>7, <2>8, <2>9, SessionsSame, TokensSame, StillStep
<1>5. QED
  BY <1>3, <1>4 DEF Expire

(***************************************************************************)
(* The steps of oauth.service.js.                                          *)
(***************************************************************************)

(* A flow is started.                                                        *)
LEMMA StartFlowStep ==
  ASSUME Inv, NEW x \in State, NEW v \in Provider, NEW who \in Person \cup {None},
         StartFlow(x, v, who)
  PROVE  Inv'
<1> DEFINE new == [provider |-> v, account |-> who, open |-> TRUE,
                   mode |-> IF who = None THEN "LOGIN" ELSE "LINK"]
<1>1. new \in FlowRow /\ None \notin FlowRow
  BY IdentifierAssumption DEF FlowRow
<1>2. /\ state[x] = None /\ state' = [state EXCEPT ![x] = new]
      /\ UNCHANGED <<mix, account, factor, session, token, challenge, job, uses, history, identity>>
  BY DEF StartFlow, signInVars
<1> HIDE DEF new
<1>3. /\ state' \in [State -> FlowRow \cup {None}] /\ state'[x] = new
      /\ \A y \in State : y # x => state'[y] = state[y]
  BY <1>1, <1>2, TableTypes
<1>4. FlowsKept
  BY <1>2, <1>3 DEF FlowsKept
<1>5. UsesOK' /\ LinkedByItsStarter'
  BY <1>2, <1>3, UsesKept, LinksKept
<1>6. TypeOK'
  BY <1>2, <1>3 DEF Inv, TypeOK, SignInTypeOK
<1>7. QED
  BY <1>2, <1>4, <1>5, <1>6, SessionsSame, TokensSame, ChallengesSame, StillStep

(* A flow expires.                                                           *)
LEMMA ExpireStateStep == ASSUME Inv, NEW x \in State, ExpireState(x) PROVE Inv'
<1>1. /\ x \in Rows(state) /\ state' = Closed(state, {x})
      /\ UNCHANGED <<mix, account, factor, session, token, challenge, job, uses, history, identity>>
  BY TableTypes DEF ExpireState, signInVars, Rows
<1>2. /\ state' \in [State -> FlowRow \cup {None}] /\ FlowsKept
      /\ \A y \in State : state'[y] = None \/ state'[y].open => state[y] = None \/ state[y].open
  BY <1>1, FlowsClosed
<1>3. UsesOK' /\ LinkedByItsStarter'
  BY <1>1, <1>2, UsesKept, LinksKept
<1>4. TypeOK'
  BY <1>1, <1>2 DEF Inv, TypeOK, SignInTypeOK
<1>5. QED
  BY <1>1, <1>2, <1>3, <1>4, SessionsSame, TokensSame, ChallengesSame, StillStep

(* consumeState: who goes on is the account that started the flow.           *)
LEMMA CallbackStep ==
  ASSUME Inv, NEW j \in Job, NEW x \in State, NEW who \in Person \cup {None}, Callback(j, x, who)
  PROVE  Inv'
<1> DEFINE new == [NoJob EXCEPT !.at = "exchange", !.kind = state[x].mode, !.on = x, !.by = who]
<1>1. /\ x \in Rows(state) /\ state' = Closed(state, {x}) /\ uses' = [uses EXCEPT ![x] = @ + 1]
      /\ (state[x].mode = "LINK") = (who # None) /\ job[j].at = "idle"
      /\ x \in Thing /\ x \notin Token /\ x \notin Challenge
      /\ UNCHANGED <<mix, account, factor, session, token, challenge, history, identity>>
  BY TableTypes, IdentifierAssumption DEF Callback, Rows, Thing
<1>2. /\ state' \in [State -> FlowRow \cup {None}] /\ FlowsKept
      /\ \A y \in State : state'[y] = None \/ state'[y].open =>
                            y # x /\ (state[y] = None \/ state[y].open)
  BY <1>1, FlowsClosed
<1>3. UsesOK'
  BY <1>1, <1>2, UsesCounted
<1>4. LinkedByItsStarter'
  BY <1>1, LinksKept
<1>5. CASE job' = job
  <2>1. TypeOK'
    BY <1>1, <1>2, <1>5 DEF Inv, TypeOK, SignInTypeOK
  <2>2. QED
    BY <1>1, <1>2, <1>3, <1>4, <1>5, <2>1, SessionsSame, TokensSame, ChallengesSame, StillStep
<1>6. CASE Belongs(state[x], who) /\ Begin(j, new)
  <2>1. state[x] \in FlowRow /\ state[x].account = who /\ state[x] # None
    BY <1>1, <1>6, TableTypes DEF Rows, Belongs
  <2>2. new \in JobRow /\ new.at = "exchange" /\ new.on = x /\ new.by = who /\ new.kind = state[x].mode
    BY <2>1, NoJobOK DEF JobRow, NoJob, FlowRow
  <2>3. job'[j] = new /\ job' = [job EXCEPT ![j] = job'[j]]
    BY <1>6, TableTypes DEF Begin
  <2> HIDE DEF new
  <2>4. state'[x] # None /\ state'[x].account = who
    BY <1>2, <2>1 DEF FlowsKept
  <2>5. JobOK(job[j])'
    BY <1>1, <2>2, <2>3, <2>4, IdentifierAssumption DEF JobOK, Holding, Unsaved, Checking
  <2>6. AttemptsOK'
    BY <1>1, <2>2, <2>3, ChecksNoMore, AttemptsKept, ChallengesSame DEF Checking
  <2>7. QED
    BY <1>1, <1>2, <1>3, <1>4, <2>2, <2>3, <2>5, <2>6, TableTypes, SessionsSame, TokensSame, MovedStep
       DEF Dropping
<1>7. QED
  BY <1>5, <1>6 DEF Callback

(* completeLink: the row is inserted for the account of the flow, and only   *)
(* where no index refuses it.                                                *)
LEMMA LinkStep == ASSUME Inv, NEW j \in Job, NEW i \in Identity, Link(j, i) PROVE Inv'
<1> DEFINE flow == state[job[j].on]
           new == [account |-> job[j].by, starter |-> flow.account]
<1>1. /\ job[j].at = "exchange" /\ job[j].kind = "LINK" /\ End(j) /\ JobOK(job[j])
      /\ UNCHANGED <<mix, account, factor, session, token, challenge, uses, history, state>>
  BY DEF Link, Inv, JobsOK
<1>2. job[j].by \in Person /\ job[j].by = flow.account
  BY <1>1 DEF JobOK
<1>3. new \in LinkRow /\ new.account = job[j].by /\ new.starter = job[j].by /\ None \notin LinkRow
  BY <1>2, IdentifierAssumption DEF LinkRow
<1>4. \/ identity' = identity
      \/ Accepts(i, job[j].by) /\ identity' = [identity EXCEPT ![i] = new]
  BY DEF Link
<1>5. identity' \in [Identity -> LinkRow \cup {None}] /\ LinkedByItsStarter'
  <2>1. CASE identity' = identity
    BY <2>1, LinksKept, TableTypes
  <2>2. CASE Accepts(i, job[j].by) /\ identity' = [identity EXCEPT ![i] = new]
    <3> HIDE DEF new, flow
    <3>1. /\ identity' \in [Identity -> LinkRow \cup {None}] /\ identity'[i] = new
          /\ \A h \in Identity : h # i => identity'[h] = identity[h]
      BY <1>3, <2>2, TableTypes
    <3>2. \A h \in Rows(identity)' : h # i => h \in Rows(identity) /\ identity'[h] = identity[h]
      BY <3>1, TableTypes DEF Rows
    <3>3. \A h \in Rows(identity)' : identity'[h].account = identity'[h].starter
      BY <1>3, <3>1, <3>2 DEF Inv, LinkedByItsStarter
    <3>4. ASSUME NEW h \in Rows(identity)', h # i, Home[h] = Home[i]
          PROVE  identity'[h].account # identity'[i].account
      BY <1>3, <2>2, <3>1, <3>2, <3>4, TableTypes DEF Accepts, Rows
    <3>5. ASSUME NEW g \in Rows(identity)', NEW h \in Rows(identity)',
                 Home[g] = Home[h], identity'[g].account = identity'[h].account
          PROVE  g = h
      <4>1. CASE g # i /\ h # i
        BY <3>2, <3>5, <4>1 DEF Inv, LinkedByItsStarter
      <4>2. CASE g = i \/ h = i
        BY <3>4, <3>5, <4>2
      <4>3. QED
        BY <4>1, <4>2
    <3>6. QED
      BY <3>1, <3>3, <3>5 DEF LinkedByItsStarter
  <2>3. QED
    BY <1>4, <2>1, <2>2
<1>6. /\ job' = [job EXCEPT ![j] = job'[j]] /\ job'[j] \in JobRow /\ JobOK(job[j])'
      /\ job'[j].at = "idle"
  BY <1>1, Ends
<1>7. UsesOK' /\ FlowsKept
  BY <1>1, UsesKept DEF FlowsKept
<1>8. AttemptsOK'
  BY <1>1, <1>6, ChecksNoMore, AttemptsKept, ChallengesSame DEF Checking
<1>9. QED
  BY <1>1, <1>5, <1>6, <1>7, <1>8, TableTypes, SessionsSame, TokensSame, MovedStep DEF Dropping

(* An identity is unlinked.                                                  *)
LEMMA UnlinkStep == ASSUME Inv, NEW i \in Identity, Unlink(i) PROVE Inv'
<1>1. /\ UNCHANGED <<mix, account, factor, session, token, challenge, job, uses, history, state>>
      /\ identity' = [identity EXCEPT ![i] = None]
  BY DEF Unlink, signInVars
<1>2. identity' \in [Identity -> LinkRow \cup {None}]
  BY <1>1, TableTypes
<1>3. \A h \in Rows(identity)' : h \in Rows(identity) /\ identity'[h] = identity[h]
  BY <1>1, <1>2, TableTypes DEF Rows
<1>4. LinkedByItsStarter'
  BY <1>3 DEF Inv, LinkedByItsStarter
<1>5. TypeOK'
  BY <1>1, <1>2 DEF Inv, TypeOK, SignInTypeOK
<1>6. UsesOK' /\ FlowsKept
  BY <1>1, UsesKept DEF FlowsKept
<1>7. QED
  BY <1>1, <1>4, <1>5, <1>6, SessionsSame, TokensSame, ChallengesSame, StillStep

(***************************************************************************)
(* The steps that save the account, and those that end what a changed      *)
(* password leaves behind.                                                 *)
(***************************************************************************)

(* What a save does to the requests: what others hold is old, unless nothing *)
(* was written.                                                              *)
LEMMA SavedJobs ==
  ASSUME Inv, NEW j \in Job, NEW put, NEW then \in JobRow, Save(j, put, then),
         job[j].at \in {"clear", "fail", "rewrite"},
         then.at \in {"issue", "reload", "dropTokens", "idle"},
         then.at \in Holding => then.copy = job[j].copy,
         account'.pw \in {account.pw, account.pw + 1},
         UNCHANGED <<mix, factor, session, token, challenge, uses, state, identity>>
  PROVE  /\ job' = [i \in Job |-> job'[i]] /\ job'[j] = then
         /\ \A i \in Job : job'[i] \in JobRow /\ JobOK(job[i])'
         /\ \A i \in Job : job[i].at \in Dropping => job'[i].at = job[i].at
         /\ AttemptsOK' /\ UsesOK' /\ LinkedByItsStarter'
<1>1. account \in Account
  BY TableTypes
<1>2. /\ account' = [f \in Columns |-> IF f \in DOMAIN put /\ put[f] # job[j].copy[f]
                                       THEN put[f] ELSE account[f]]
      /\ \A i \in Job : job'[i] =
           IF i = j THEN then
           ELSE IF (\A f \in DOMAIN put : put[f] = job[j].copy[f]) \/ job[i].copy = None
             THEN job[i]
           ELSE [job[i] EXCEPT !.fresh = FALSE]
      /\ job' = [i \in Job |-> job'[i]]
  BY <1>1, Saved
<1>3. FlowsKept
  BY DEF FlowsKept
<1>4. job'[j] = then /\ JobOK(job[j])'
  <2>1. job'[j] = then
    BY <1>2
  <2>2. JobOK(job[j])
    BY DEF Inv, JobsOK
  <2>3. job[j].copy \in Account /\ job[j].copy.pw <= account.pw
    BY <2>2 DEF JobOK, Holding, Unsaved
  <2>4. then.at \in Holding => then.copy \in Account /\ then.copy.pw <= account'.pw
    BY <1>1, <2>3 DEF Account
  <2>5. QED
    BY <2>1, <2>4 DEF JobOK, Unsaved, Checking
<1>5. ASSUME NEW i \in Job, i # j
      PROVE  /\ job'[i] \in JobRow /\ JobOK(job[i])'
             /\ job'[i].at = job[i].at /\ job'[i].on = job[i].on
  <2>1. CASE \A f \in DOMAIN put : put[f] = job[j].copy[f]
    <3>1. job'[i] = job[i]
      BY <1>2, <1>5, <2>1
    <3>2. account' = [f \in Columns |-> account[f]]
      BY <1>2, <2>1
    <3>3. account'.failed = account.failed
      BY <3>2 DEF Columns
    <3>4. QED
      BY <1>3, <3>1, <3>3, SameJob
  <2>2. CASE job[i].copy = None
    <3>1. job'[i] = job[i]
      BY <1>2, <1>5, <2>2
    <3>2. job[i].at \notin Unsaved
      BY <2>2, RowsAssumption DEF Inv, JobsOK, JobOK, Holding
    <3>3. QED
      BY <1>3, <3>1, <3>2, SameJob
  <2>3. CASE job[i].copy # None /\ ~(\A f \in DOMAIN put : put[f] = job[j].copy[f])
    <3>1. job'[i] = [job[i] EXCEPT !.fresh = FALSE]
      BY <1>2, <1>5, <2>3
    <3>2. job[i] \in JobRow
      BY TableTypes
    <3>3. job'[i].at = job[i].at /\ job'[i].on = job[i].on
      BY <3>1, <3>2 DEF JobRow
    <3>4. QED
      BY <1>3, <3>1, <3>3, OldJob
  <2>4. QED
    BY <2>1, <2>2, <2>3
<1>6. \A i \in Job : job'[i].at \in Checking => job[i].at \in Checking /\ job'[i].on = job[i].on
  BY <1>4, <1>5 DEF Checking
<1>7. AttemptsOK' /\ UsesOK' /\ LinkedByItsStarter'
  BY <1>6, AttemptsKept, ChallengesSame, UsesKept, LinksKept
<1>8. \A i \in Job : job[i].at \in Dropping => job'[i].at = job[i].at
  BY <1>5 DEF Dropping
<1>9. QED
  BY <1>2, <1>4, <1>5, <1>7, <1>8

(* The account after a save.                                                 *)
LEMMA SavedAccount ==
  ASSUME Inv, NEW j \in Job, NEW put, NEW then, Save(j, put, then),
         job[j].copy \in Account, DOMAIN put \subseteq Columns, "failed" \in DOMAIN put,
         put["failed"] \in 0..(MaxFailed - 1),
         "lock" \in DOMAIN put => put["lock"] \in {"none", "on", "past"},
         "pw" \in DOMAIN put => put["pw"] \in 0..MaxPassword
  PROVE  /\ account' \in Account
         /\ account'.failed = IF put["failed"] # job[j].copy.failed THEN put["failed"]
                              ELSE account.failed
         /\ "pw" \notin DOMAIN put => account'.pw = account.pw
         /\ "pw" \in DOMAIN put =>
              account'.pw = IF put["pw"] # job[j].copy.pw THEN put["pw"] ELSE account.pw
         /\ "lock" \in DOMAIN put =>
              account'.lock = IF put["lock"] # job[j].copy.lock THEN put["lock"] ELSE account.lock
<1>1. account \in Account
  BY TableTypes
<1>2. account' = [f \in Columns |-> IF f \in DOMAIN put /\ put[f] # job[j].copy[f]
                                    THEN put[f] ELSE account[f]]
  BY <1>1, Saved
<1>3. /\ account["pw"] \in 0..MaxPassword /\ account["failed"] \in 0..(MaxFailed - 1)
      /\ account["lock"] \in {"none", "on", "past"}
  BY <1>1 DEF Account
<1>4. account' = [f \in Columns |-> account'[f]]
  BY <1>2
<1>5. /\ account'["failed"] = IF put["failed"] # job[j].copy["failed"] THEN put["failed"]
                              ELSE account["failed"]
      /\ account'["pw"] = IF "pw" \in DOMAIN put /\ put["pw"] # job[j].copy["pw"] THEN put["pw"]
                          ELSE account["pw"]
      /\ account'["lock"] = IF "lock" \in DOMAIN put /\ put["lock"] # job[j].copy["lock"] THEN put["lock"]
                            ELSE account["lock"]
  BY <1>2 DEF Columns
<1>6. account' \in Account
  BY <1>3, <1>4, <1>5, AccountColumns
<1>7. QED
  BY <1>1, <1>5, <1>6 DEF Account

(* What a save leaves of the types.                                          *)
LEMMA SavedTypes ==
  ASSUME Inv, account' \in Account, \A i \in Job : job'[i] \in JobRow,
         UNCHANGED <<mix, factor, session, token, challenge, uses, state, identity>>
  PROVE  TypeOK'
<1>1. \A i \in Job : job'[i].copy \in Account \cup {None}
  BY DEF JobRow
<1>2. QED
  BY <1>1 DEF Inv, TypeOK, SignInTypeOK

(* What Recount leaves of the history.                                       *)
LEMMA RecountOK ==
  ASSUME HistoryOK, NEW failures \in 0..(MaxFailed - 1), NEW exact \in BOOLEAN, Recount(failures, exact)
  PROVE  /\ HistoryOK' /\ history'.exact = exact /\ history'.torn = history.torn
         /\ exact => history'.failures = failures
<1>1. 0 \in 0..(MaxFailed - 1)
  BY CeilingAssumption
<1>2. QED
  BY <1>1 DEF Recount, HistoryOK

(* A counter is exact again if it was and the copy was the row's.            *)
LEMMA ClearStep == ASSUME Inv, NEW j \in Job, Clear(j), UNCHANGED <<state, identity>> PROVE Inv'
<1> DEFINE put == [failed |-> 0, lock |-> "none"]
           then == At(j, "issue")
<1>1. /\ job[j].at = "clear" /\ JobOK(job[j]) /\ job[j] \in JobRow
      /\ Save(j, put, then) /\ Recount(0, history.exact /\ job[j].fresh)
      /\ UNCHANGED <<mix, factor, session, token, challenge, uses, state, identity>>
  BY DEF Clear, Inv, JobsOK
<1>2. job[j].copy \in Account /\ job[j].fresh \in BOOLEAN
  BY <1>1 DEF JobOK, Holding, Unsaved, JobRow
<1>3. then \in JobRow /\ then.at = "issue" /\ then.copy = job[j].copy
  BY <1>1 DEF At, JobRow, Holding, Unsaved
<1>4. /\ DOMAIN put = {"failed", "lock"} /\ put["failed"] = 0 /\ put["lock"] = "none"
      /\ 0 \in 0..(MaxFailed - 1)
  BY CeilingAssumption
<1> HIDE DEF put, then
<1>5. /\ account' \in Account
      /\ account'.failed = IF put["failed"] # job[j].copy.failed THEN put["failed"] ELSE account.failed
      /\ account'.pw = account.pw
  BY <1>1, <1>2, <1>4, SavedAccount DEF Columns
<1>6. /\ \A i \in Job : job'[i] \in JobRow /\ JobOK(job[i])'
      /\ \A i \in Job : job[i].at \in Dropping => job'[i].at = job[i].at
      /\ job' = [i \in Job |-> job'[i]] /\ AttemptsOK' /\ UsesOK' /\ LinkedByItsStarter'
  BY <1>1, <1>2, <1>3, <1>5, SavedJobs
<1>7. /\ HistoryOK' /\ history'.exact = (history.exact /\ job[j].fresh)
      /\ history'.torn = history.torn /\ (history.exact /\ job[j].fresh => history'.failures = 0)
  <2>1. HistoryOK /\ (history.exact /\ job[j].fresh) \in BOOLEAN
    BY <1>2 DEF Inv
  <2>2. QED
    BY <1>1, <1>4, <2>1, RecountOK
<1>8. CounterExact'
  <2>1. history.exact /\ job[j].fresh => job[j].copy.failed = account.failed
    BY <1>1 DEF JobOK, Unsaved
  <2>2. QED
    BY <1>4, <1>5, <1>7, <2>1 DEF CounterExact
<1>9. ChangeOK'
  BY <1>1, <1>5, <1>6, <1>7, ChangeKept DEF Rows, Outlived, Stale
<1>10. TypeOK' /\ JobsOK'
  BY <1>1, <1>5, <1>6, SavedTypes DEF JobsOK
<1>11. QED
  BY <1>6, <1>7, <1>8, <1>9, <1>10 DEF Inv

(* registerFailedAttempt: the counter moves as the history does, modulo the  *)
(* ceiling, when the copy was the row's.                                     *)
LEMMA FailStep == ASSUME Inv, NEW j \in Job, Fail(j), UNCHANGED <<state, identity>> PROVE Inv'
<1> DEFINE put == Counted(job[j].copy)
           then == IF job[j].kind = "code" THEN At(j, "reload") ELSE NoJob
           failures == (history.failures + 1) % MaxFailed
<1>1. /\ job[j].at = "fail" /\ JobOK(job[j]) /\ job[j] \in JobRow
      /\ Save(j, put, then) /\ Recount(failures, history.exact /\ job[j].fresh)
      /\ UNCHANGED <<mix, factor, session, token, challenge, uses, state, identity>>
  BY DEF Fail, Inv, JobsOK
<1>2. /\ job[j].copy \in Account /\ job[j].fresh \in BOOLEAN
      /\ job[j].copy.failed \in 0..(MaxFailed - 1)
  BY <1>1 DEF JobOK, Holding, Unsaved, JobRow, Account
<1>3. then \in JobRow /\ then.at \in {"reload", "idle"} /\ (then.at \in Holding => then.copy = job[j].copy)
  <2>1. At(j, "reload") \in JobRow /\ At(j, "reload").at = "reload" /\ At(j, "reload").copy = job[j].copy
    BY <1>1 DEF At, JobRow, Holding, Unsaved
  <2>2. QED
    BY <1>2, <2>1, NoJobOK DEF Holding, Unsaved
<1>4. /\ DOMAIN put \subseteq {"failed", "lock"} /\ "failed" \in DOMAIN put
      /\ put["failed"] = IF job[j].copy.failed + 1 >= MaxFailed THEN 0 ELSE job[j].copy.failed + 1
      /\ "lock" \in DOMAIN put => put["lock"] = "on"
  BY DEF Counted
<1>5. put["failed"] \in 0..(MaxFailed - 1)
  BY <1>2, <1>4, CeilingAssumption
<1>6. /\ history.failures \in 0..(MaxFailed - 1) /\ failures \in 0..(MaxFailed - 1)
      /\ failures = IF history.failures + 1 >= MaxFailed THEN 0 ELSE history.failures + 1
  <2>1. history.failures \in 0..(MaxFailed - 1)
    BY DEF Inv, HistoryOK
  <2>2. CASE history.failures + 1 >= MaxFailed
    <3>1. history.failures + 1 = MaxFailed
      BY <2>1, <2>2, CeilingAssumption
    <3>2. QED
      BY <2>1, <3>1, CeilingAssumption
  <2>3. CASE history.failures + 1 < MaxFailed
    BY <2>1, <2>3, CeilingAssumption
  <2>4. QED
    BY <2>1, <2>2, <2>3, CeilingAssumption
<1> HIDE DEF put, then, failures
<1>7. /\ account' \in Account
      /\ account'.failed = IF put["failed"] # job[j].copy.failed THEN put["failed"] ELSE account.failed
      /\ account'.pw = account.pw
  BY <1>1, <1>2, <1>4, <1>5, SavedAccount DEF Columns
<1>8. /\ \A i \in Job : job'[i] \in JobRow /\ JobOK(job[i])'
      /\ \A i \in Job : job[i].at \in Dropping => job'[i].at = job[i].at
      /\ job' = [i \in Job |-> job'[i]] /\ AttemptsOK' /\ UsesOK' /\ LinkedByItsStarter'
  BY <1>1, <1>3, <1>7, SavedJobs
<1>9. /\ HistoryOK' /\ history'.exact = (history.exact /\ job[j].fresh)
      /\ history'.torn = history.torn /\ (history.exact /\ job[j].fresh => history'.failures = failures)
  <2>1. HistoryOK /\ (history.exact /\ job[j].fresh) \in BOOLEAN
    BY <1>2 DEF Inv
  <2>2. QED
    BY <1>1, <1>6, <2>1, RecountOK
<1>10. CounterExact'
  <2>1. history.exact /\ job[j].fresh =>
          job[j].copy.failed = account.failed /\ account.failed = history.failures
    BY <1>1 DEF JobOK, Unsaved, Inv, CounterExact
  <2>2. QED
    BY <1>4, <1>6, <1>7, <1>9, <2>1 DEF CounterExact
<1>11. ChangeOK'
  BY <1>1, <1>7, <1>8, <1>9, ChangeKept DEF Rows, Outlived, Stale
<1>12. TypeOK' /\ JobsOK'
  BY <1>1, <1>7, <1>8, SavedTypes DEF JobsOK
<1>13. QED
  BY <1>8, <1>9, <1>10, <1>11, <1>12 DEF Inv

(* A changed password: what it leaves behind is about to be dropped.         *)
LEMMA RewriteStep == ASSUME Inv, NEW j \in Job, Rewrite(j), UNCHANGED <<state, identity>> PROVE Inv'
<1> DEFINE put == [pw |-> account.pw + 1, failed |-> 0, lock |-> "none"]
           then == At(j, "dropTokens")
<1>1. /\ job[j].at = "rewrite" /\ JobOK(job[j]) /\ job[j] \in JobRow /\ account.pw < MaxPassword
      /\ Save(j, put, then) /\ Recount(0, history.exact /\ job[j].fresh)
      /\ UNCHANGED <<mix, factor, session, token, challenge, uses, state, identity>>
  BY DEF Rewrite, Inv, JobsOK
<1>2. job[j].copy \in Account /\ job[j].fresh \in BOOLEAN
  BY <1>1 DEF JobOK, Holding, Unsaved, JobRow
<1>3. then \in JobRow /\ then.at = "dropTokens" /\ then.copy = job[j].copy
  BY <1>1 DEF At, JobRow, Holding, Unsaved
<1>4. /\ DOMAIN put = Columns /\ put["failed"] = 0 /\ put["lock"] = "none"
      /\ put["pw"] = account.pw + 1 /\ put["pw"] \in 0..MaxPassword /\ 0 \in 0..(MaxFailed - 1)
  BY <1>1, TableTypes, CeilingAssumption DEF Account, Columns
<1> HIDE DEF put, then
<1>5. /\ account' \in Account
      /\ account'.failed = IF put["failed"] # job[j].copy.failed THEN put["failed"] ELSE account.failed
      /\ account'.pw = account.pw + 1
  <2>1. /\ account' \in Account
        /\ account'.failed = IF put["failed"] # job[j].copy.failed THEN put["failed"] ELSE account.failed
        /\ account'.pw = IF put["pw"] # job[j].copy.pw THEN put["pw"] ELSE account.pw
    BY <1>1, <1>2, <1>4, SavedAccount DEF Columns
  <2>2. job[j].copy.pw <= account.pw /\ job[j].copy.pw \in Nat /\ account.pw \in Nat
    BY <1>1, <1>2, TableTypes DEF JobOK, Holding, Unsaved, Account
  <2>3. QED
    BY <1>4, <2>1, <2>2
<1>6. /\ \A i \in Job : job'[i] \in JobRow /\ JobOK(job[i])'
      /\ job'[j] = then /\ job' = [i \in Job |-> job'[i]]
      /\ AttemptsOK' /\ UsesOK' /\ LinkedByItsStarter'
  BY <1>1, <1>2, <1>3, <1>5, SavedJobs
<1>7. /\ HistoryOK' /\ history'.exact = (history.exact /\ job[j].fresh)
      /\ (history.exact /\ job[j].fresh => history'.failures = 0)
  <2>1. HistoryOK /\ (history.exact /\ job[j].fresh) \in BOOLEAN
    BY <1>2 DEF Inv
  <2>2. QED
    BY <1>1, <1>4, <2>1, RecountOK
<1>8. CounterExact'
  <2>1. history.exact /\ job[j].fresh => job[j].copy.failed = account.failed
    BY <1>1 DEF JobOK, Unsaved
  <2>2. QED
    BY <1>4, <1>5, <1>7, <2>1 DEF CounterExact
<1>9. ChangeOK'
  BY <1>3, <1>6 DEF ChangeOK, Dropping
<1>10. TypeOK' /\ JobsOK'
  BY <1>1, <1>5, <1>6, SavedTypes DEF JobsOK
<1>11. QED
  BY <1>6, <1>7, <1>8, <1>9, <1>10 DEF Inv

(* A request moved on that was ending what a changed password leaves behind, *)
(* or was cut.                                                               *)
LEMMA OthersKept ==
  ASSUME Inv, NEW j \in Job, job' = [job EXCEPT ![j] = job'[j]], job'[j] \in JobRow, JobOK(job[j])',
         job'[j].at \notin Checking,
         UNCHANGED <<mix, account, factor, challenge, uses, state, identity>>,
         session' \in [Session -> SessionRow \cup {None}], token' \in [Token -> TokenRow \cup {None}],
         \A t \in Token : token'[t] = None \/ token'[t].open => token[t] = None \/ token[t].open
  PROVE  /\ TypeOK' /\ JobsOK' /\ AttemptsOK' /\ UsesOK' /\ LinkedByItsStarter'
         /\ \A i \in Job : i # j => job'[i] = job[i]
<1>1. \A i \in Job : i # j => job'[i] = job[i]
  BY TableTypes
<1>2. job' = [i \in Job |-> job'[i]]
  BY TableTypes
<1>3. \A i \in Job : job'[i] \in JobRow /\ JobOK(job[i])'
  BY <1>1, SameJob DEF FlowsKept
<1>4. JobsOK'
  BY <1>2, <1>3 DEF JobsOK
<1>5. \A i \in Job : job'[i].copy \in Account \cup {None}
  BY <1>3 DEF JobRow
<1>6. TypeOK'
  BY <1>5 DEF Inv, TypeOK, SignInTypeOK
<1>7. AttemptsOK' /\ UsesOK' /\ LinkedByItsStarter'
  BY ChecksNoMore, AttemptsKept, ChallengesSame, UsesKept, LinksKept
<1>8. QED
  BY <1>1, <1>4, <1>6, <1>7

(* revokeActionTokens: no link or settings token of before is left, and the  *)
(* sessions come next.                                                       *)
LEMMA DropTokensStep ==
  ASSUME Inv, NEW j \in Job, DropTokens(j), UNCHANGED <<state, identity>> PROVE Inv'
<1>1. /\ job[j].at = "dropTokens" /\ JobOK(job[j]) /\ Go(j, "dropSessions")
      /\ token' = Closed(token, Rows(token))
      /\ UNCHANGED <<mix, account, factor, session, challenge, uses, history, state, identity>>
  BY DEF DropTokens, Inv, JobsOK
<1>2. /\ job' = [job EXCEPT ![j] = job'[j]] /\ job'[j] \in JobRow /\ job'[j].at = "dropSessions"
      /\ job'[j].copy = job[j].copy
  BY <1>1, GoneTo DEF Holding
<1>3. JobOK(job[j])'
  BY <1>1, <1>2 DEF JobOK, Holding, Unsaved, Checking
<1>4. /\ token' \in [Token -> TokenRow \cup {None}]
      /\ \A t \in Token : token'[t] = None \/ token'[t].open =>
           t \notin Rows(token) /\ (token[t] = None \/ token[t].open)
  BY <1>1, TokensClosed
<1>5. \A t \in Token : /\ token'[t] = None <=> token[t] = None
                       /\ token[t] # None => token'[t].open = (token[t].open /\ t \notin Rows(token))
  BY <1>1, ClosedRows
<1>6. \A t \in Rows(token)' : ~Stale(token[t])'
  BY <1>4, <1>5, TableTypes DEF Rows, Stale
<1>7. TypeOK' /\ JobsOK' /\ AttemptsOK' /\ UsesOK' /\ LinkedByItsStarter'
  BY <1>1, <1>2, <1>3, <1>4, TableTypes, OthersKept DEF Checking
<1>8. ChangeOK'
  BY <1>2, <1>6 DEF ChangeOK, Dropping
<1>9. HistoryOK' /\ CounterExact'
  BY <1>1 DEF Inv, HistoryOK, CounterExact
<1>10. QED
  BY <1>7, <1>8, <1>9 DEF Inv

(* revokeAll: what is left of before are the sessions it ended and those it  *)
(* kept, under the new password.                                             *)
LEMMA DropSessionsStep ==
  ASSUME Inv, NEW j \in Job, DropSessions(j), UNCHANGED <<state, identity>> PROVE Inv'
<1>1. /\ job[j].at = "dropSessions" /\ End(j)
      /\ session' = [s \in Session |->
           IF session[s] = None THEN None
           ELSE IF Ended(s, j) THEN [session[s] EXCEPT !.live = FALSE]
           ELSE [session[s] EXCEPT !.by = account.pw]]
      /\ UNCHANGED <<mix, account, factor, token, challenge, uses, history, state, identity>>
  BY DEF DropSessions
<1>2. /\ job' = [job EXCEPT ![j] = job'[j]] /\ job'[j] \in JobRow /\ JobOK(job[j])'
      /\ job'[j].at = "idle"
  BY <1>1, Ends
<1>3. account.pw \in 0..MaxPassword
  BY TableTypes DEF Account
<1>4. ASSUME NEW r \in SessionRow
      PROVE  /\ [r EXCEPT !.live = FALSE] \in SessionRow /\ [r EXCEPT !.live = FALSE].live = FALSE
             /\ [r EXCEPT !.by = account.pw] \in SessionRow /\ [r EXCEPT !.by = account.pw].by = account.pw
  BY <1>3 DEF SessionRow
<1>5. ASSUME NEW s \in Session
      PROVE  session'[s] = None \/
             (session'[s] \in SessionRow /\ (session'[s].live = FALSE \/ session'[s].by = account.pw))
  <2>1. CASE session[s] = None
    BY <1>1, <2>1
  <2>2. CASE session[s] # None
    <3>1. session[s] \in SessionRow
      BY <2>2, TableTypes
    <3>2. \/ session'[s] = [session[s] EXCEPT !.live = FALSE]
          \/ session'[s] = [session[s] EXCEPT !.by = account.pw]
      BY <1>1, <2>2
    <3>3. QED
      BY <1>4, <3>1, <3>2
  <2>3. QED
    BY <2>1, <2>2
<1>6. session' \in [Session -> SessionRow \cup {None}]
  <2>1. session' = [s \in Session |-> session'[s]]
    BY <1>1
  <2>2. QED
    BY <1>5, <2>1
<1>7. \A s \in Rows(session)' : ~Outlived(session[s])'
  <2>1. account' = account
    BY <1>1
  <2>2. \A s \in Session : session'[s] # None =>
          session'[s].live = FALSE \/ session'[s].by = account'.pw
    BY <1>5, <2>1
  <2>3. DOMAIN session' = Session
    BY <1>6
  <2>4. QED
    BY <2>2, <2>3 DEF Rows, Outlived
<1>8. /\ TypeOK' /\ JobsOK' /\ AttemptsOK' /\ UsesOK' /\ LinkedByItsStarter'
      /\ \A i \in Job : i # j => job'[i] = job[i]
  BY <1>1, <1>2, <1>6, TableTypes, OthersKept DEF Checking
<1>9. ChangeOK'
  <2>1. \A t \in Rows(token)' : Stale(token[t])' => t \in Rows(token) /\ Stale(token[t])
    BY <1>1, TokensSame
  <2>2. \A i \in Job : job[i].at = "dropTokens" => job'[i].at = "dropTokens"
    BY <1>1, <1>8
  <2>3. history' = history
    BY <1>1
  <2>4. QED
    BY <1>7, <2>1, <2>2, <2>3 DEF Inv, ChangeOK
<1>10. HistoryOK' /\ CounterExact'
  BY <1>1 DEF Inv, HistoryOK, CounterExact
<1>11. QED
  BY <1>8, <1>9, <1>10 DEF Inv

(* A cut request leaves what it wrote, and excuses what it was in the        *)
(* middle of.                                                                *)
LEMMA CutStep == ASSUME Inv, NEW j \in Job, Cut(j), UNCHANGED <<state, identity>> PROVE Inv'
<1> DEFINE exact == history.exact /\ job[j].at \notin {"fail", "clear"}
<1>1. /\ End(j)
      /\ history' = [history EXCEPT !.torn = history.torn \/ job[j].at \in Dropping,
                                    !.exact = exact, !.failures = IF exact THEN history.failures ELSE 0]
      /\ UNCHANGED <<mix, account, factor, session, token, challenge, uses, state, identity>>
  BY DEF Cut, Dropping
<1>2. /\ job' = [job EXCEPT ![j] = job'[j]] /\ job'[j] \in JobRow /\ JobOK(job[j])'
      /\ job'[j].at = "idle"
  BY <1>1, Ends
<1>3. HistoryOK /\ exact \in BOOLEAN /\ (history.torn \/ job[j].at \in Dropping) \in BOOLEAN
  BY DEF Inv, HistoryOK
<1>4. /\ HistoryOK' /\ history'.exact = exact
      /\ history'.torn = (history.torn \/ job[j].at \in Dropping)
      /\ exact => history'.failures = history.failures
  <2>1. 0 \in 0..(MaxFailed - 1)
    BY CeilingAssumption
  <2> HIDE DEF exact
  <2>2. QED
    BY <1>1, <1>3, <2>1 DEF HistoryOK
<1>5. /\ TypeOK' /\ JobsOK' /\ AttemptsOK' /\ UsesOK' /\ LinkedByItsStarter'
      /\ \A i \in Job : i # j => job'[i] = job[i]
  BY <1>1, <1>2, TableTypes, OthersKept DEF Checking
<1>6. CounterExact'
  BY <1>1, <1>4 DEF Inv, CounterExact
<1>7. ChangeOK'
  <2>1. CASE job[j].at \in Dropping
    BY <1>4, <2>1 DEF ChangeOK
  <2>2. CASE job[j].at \notin Dropping
    <3>1. \A i \in Job : job[i].at \in Dropping => job'[i].at = job[i].at
      BY <1>5, <2>2
    <3>2. history.torn => history'.torn
      BY <1>4
    <3>3. QED
      BY <1>1, <3>1, <3>2, SessionsSame, TokensSame, ChangeKept
  <2>3. QED
    BY <2>1, <2>2
<1>8. QED
  BY <1>4, <1>5, <1>6, <1>7 DEF Inv

(***************************************************************************)
(* The invariant holds.                                                    *)
(***************************************************************************)

(* The invariant holds of an empty database.                                 *)
LEMMA StartsSound == Init => Inv
<1> SUFFICES ASSUME Init PROVE Inv
  OBVIOUS
<1>1. \A j \in Job : job[j] = NoJob
  BY DEF Init, InitSignIn
<1>2. JobsOK
  <2>1. \A j \in Job : job[j] \in JobRow /\ job[j].at = "idle" /\ job[j].copy = None
    BY <1>1, NoJobOK
  <2>2. \A j \in Job : JobOK(job[j])
    BY <2>1 DEF JobOK, Holding, Unsaved, Checking
  <2>3. QED
    BY <2>1, <2>2 DEF JobsOK, Init, InitSignIn
<1>3. 0 \in 0..(MaxFailed - 1) /\ 0 \in 0..MaxPassword
  BY CeilingAssumption
<1>4. TypeOK
  <2>1. account \in Account
    BY <1>3 DEF Init, InitSignIn, Account
  <2>2. \A j \in Job : job[j].copy = None
    BY <1>1, NoJobOK
  <2>3. QED
    BY <2>1, <2>2 DEF TypeOK, SignInTypeOK, Init, InitSignIn
<1>5. HistoryOK /\ CounterExact
  BY <1>3 DEF HistoryOK, CounterExact, Init, InitSignIn
<1>6. Rows(challenge) = {} /\ Rows(session) = {} /\ Rows(token) = {} /\ Rows(identity) = {}
  BY DEF Rows, Init, InitSignIn
<1>7. AttemptsOK /\ ChangeOK /\ LinkedByItsStarter
  BY <1>6 DEF AttemptsOK, ChangeOK, LinkedByItsStarter
<1>8. UsesOK
  BY DEF UsesOK, Init, InitSignIn, Thing
<1>9. QED
  BY <1>2, <1>4, <1>5, <1>7, <1>8 DEF Inv

(* Every step of SignIn keeps it.                                            *)
LEMMA SignInStepKeeps == ASSUME Inv, SignInStep, UNCHANGED <<state, identity>> PROVE Inv'
<1>1. ASSUME NEW j \in Job,
             \/ \E right \in BOOLEAN : Login(j, right) \/ Verify(j, right)
             \/ Gate(j) \/ Clear(j) \/ Fail(j)
             \/ LoadAnswered(j) \/ Attempt(j) \/ Reload(j) \/ RevokeChallenges(j) \/ Spend(j)
             \/ \E c \in Challenge : Mint(j, c) \/ Answer(j, c)
      PROVE  Inv'
  BY <1>1, BeginSteps, VerifyStep, GateStep, ClearStep, FailStep, LoadSteps, AttemptStep, ReloadStep,
     RevokeStep, SpendStep, MintStep, AnswerStep
<1>2. ASSUME NEW j \in Job,
             \/ RequestReset(j) \/ Withdraw(j) \/ LoadReset(j) \/ Rewrite(j)
             \/ DropTokens(j) \/ DropSessions(j) \/ Cut(j)
             \/ \E t \in Token : \/ IssueActionToken(j, t) \/ ResetPassword(j, t)
                                 \/ RedeemSettings(j, t, "password") \/ RedeemSettings(j, t, "other")
      PROVE  Inv'
  BY <1>2, BeginSteps, WithdrawStep, LoadSteps, RewriteStep, DropTokensStep, DropSessionsStep, CutStep,
     IssueActionTokenStep, ResetPasswordStep, RedeemSettingsStep
<1>3. ASSUME NEW j \in Job, NEW s \in Session,
             \/ Issue(j, s) \/ IssueSettingsToken(j, s) \/ BeginSettings(j, s)
             \/ CreateApiToken(j, s) \/ RecordApi(j, s)
      PROVE  Inv'
  <2>1. CASE Issue(j, s)
    BY <2>1, CredentialStep DEF Issue
  <2>2. CASE RecordApi(j, s)
    BY <2>2, CredentialStep DEF RecordApi
  <2>3. QED
    BY <1>3, <2>1, <2>2, BeginSteps
<1>4. QED
  BY <1>1, <1>2, <1>3, SetFactorStep, LockPassesStep, ExpireStep, EndSessionsStep DEF SignInStep

(* Every step keeps it.                                                      *)
LEMMA StepKeeps == Inv /\ [Next]_vars => Inv'
<1> SUFFICES ASSUME Inv, [Next]_vars PROVE Inv'
  OBVIOUS
<1>1. CASE UNCHANGED vars
  <2>1. UNCHANGED <<mix, account, factor, session, token, challenge, job, uses, history, state, identity>>
    BY <1>1 DEF vars, signInVars
  <2>2. TypeOK'
    BY <2>1 DEF Inv, TypeOK, SignInTypeOK
  <2>3. UsesOK' /\ LinkedByItsStarter' /\ FlowsKept
    BY <2>1, UsesKept, LinksKept DEF FlowsKept
  <2>4. QED
    BY <2>1, <2>2, <2>3, SessionsSame, TokensSame, ChallengesSame, StillStep
<1>2. CASE SignInStep /\ UNCHANGED <<state, identity>>
  BY <1>2, SignInStepKeeps
<1>3. ASSUME NEW x \in State,
             \/ \E v \in Provider, who \in Person \cup {None} : StartFlow(x, v, who)
             \/ \E j \in Job, who \in Person \cup {None} : Callback(j, x, who)
             \/ ExpireState(x)
      PROVE  Inv'
  BY <1>3, StartFlowStep, CallbackStep, ExpireStateStep
<1>4. ASSUME NEW j \in Job, LoadLinked(j) \/ (\E i \in Identity : Link(j, i) \/ FindIdentity(j, i))
      PROVE  Inv'
  BY <1>4, LoadSteps, LinkStep, FindIdentityStep
<1>5. ASSUME NEW i \in Identity, Unlink(i) PROVE Inv'
  BY <1>5, UnlinkStep
<1>6. QED
  BY <1>1, <1>2, <1>3, <1>4, <1>5 DEF Next

(* The inductive invariant holds of every behaviour.                         *)
LEMMA AlwaysInv == Spec => []Inv
<1>1. Init => Inv
  BY StartsSound
<1>2. Inv /\ [Next]_vars => Inv'
  BY StepKeeps
<1>3. QED
  BY <1>1, <1>2, PTL DEF Spec

(***************************************************************************)
(* What follows.                                                           *)
(***************************************************************************)

(* The types, with the ceilings of the counter and of the attempts in them,  *)
(* and the counter of refused credentials (auth.service.js).                 *)
THEOREM SignInSoundTheorem == Spec => []SignInSound
<1>1. Inv => SignInSound
  BY DEF Inv, SignInSound
<1>2. QED
  BY <1>1, AlwaysInv, PTL

(* The account that started a flow is the one linked by it, and an account   *)
(* has one identity of a provider (oauth.service.js).                        *)
THEOREM LinkedByItsStarterTheorem == Spec => []LinkedByItsStarter
<1>1. Inv => LinkedByItsStarter
  BY DEF Inv
<1>2. QED
  BY <1>1, AlwaysInv, PTL

(* A change of the password that ran to its end left no session, link or     *)
(* settings token of before (account.service.js).                            *)
THEOREM EndedByChangeTheorem == Spec => []EndedByChange
<1>1. Inv => EndedByChange
  <2> SUFFICES ASSUME Inv, ~history.torn, \A j \in Job : job[j].at \notin {"dropTokens", "dropSessions"}
               PROVE  /\ \A s \in Session : Live(s) /\ session[s].kind = "SESSION" /\ ~session[s].overlapped
                                              => session[s].by = account.pw
                      /\ \A t \in Token : Open(token[t]) /\ ~token[t].overlapped => token[t].by = account.pw
    BY DEF EndedByChange
  <2>1. /\ \A s \in Rows(session) : ~Outlived(session[s])
        /\ \A t \in Rows(token) : ~Stale(token[t])
    BY DEF Inv, ChangeOK, Dropping
  <2>2. QED
    BY <2>1, TableTypes DEF Rows, Outlived, Stale, Live, Open
<1>2. QED
  BY <1>1, AlwaysInv, PTL

(* Who writes the account.                                                   *)
LEMMA AccountWriters ==
  ASSUME Next
  PROVE  \/ account' = account
         \/ account' = [account EXCEPT !.lock = "past"]
         \/ \E j \in Job : Clear(j) \/ Fail(j) \/ Rewrite(j)
<1>1. ASSUME SignInStep
      PROVE  \/ account' = account
             \/ account' = [account EXCEPT !.lock = "past"]
             \/ \E j \in Job : Clear(j) \/ Fail(j) \/ Rewrite(j)
  <2>1. ASSUME NEW j \in Job,
               \/ \E right \in BOOLEAN : Login(j, right) \/ Verify(j, right)
               \/ Gate(j) \/ LoadAnswered(j) \/ Attempt(j) \/ Reload(j) \/ RevokeChallenges(j) \/ Spend(j)
               \/ \E c \in Challenge : Mint(j, c) \/ Answer(j, c)
               \/ RequestReset(j) \/ Withdraw(j) \/ LoadReset(j)
               \/ DropTokens(j) \/ DropSessions(j) \/ Cut(j)
        PROVE  account' = account
    BY <2>1 DEF Login, Verify, Gate, LoadAnswered, Attempt, Reload, RevokeChallenges, Spend, Mint, Answer,
       RequestReset, Withdraw, LoadReset, DropTokens, DropSessions, Cut
  <2>2. ASSUME NEW j \in Job, NEW t \in Token,
               \/ IssueActionToken(j, t) \/ ResetPassword(j, t)
               \/ RedeemSettings(j, t, "password") \/ RedeemSettings(j, t, "other")
        PROVE  account' = account
    BY <2>2 DEF IssueActionToken, ResetPassword, RedeemSettings, Redeem
  <2>3. ASSUME NEW j \in Job, NEW s \in Session,
               \/ Issue(j, s) \/ IssueSettingsToken(j, s) \/ BeginSettings(j, s)
               \/ CreateApiToken(j, s) \/ RecordApi(j, s)
        PROVE  account' = account
    BY <2>3 DEF Issue, IssueSettingsToken, BeginSettings, CreateApiToken, RecordApi
  <2>4. CASE LockPasses
    BY <2>4 DEF LockPasses
  <2>5. ASSUME SetFactor \/ Expire \/ \E gone \in SUBSET Session : EndSessions(gone)
        PROVE  account' = account
    BY <2>5 DEF SetFactor, Expire, EndSessions
  <2>6. QED
    BY <1>1, <2>1, <2>2, <2>3, <2>4, <2>5 DEF SignInStep
<1>2. ASSUME NEW x \in State,
             \/ \E v \in Provider, who \in Person \cup {None} : StartFlow(x, v, who)
             \/ \E j \in Job, who \in Person \cup {None} : Callback(j, x, who)
             \/ ExpireState(x)
      PROVE  account' = account
  BY <1>2 DEF StartFlow, Callback, ExpireState, signInVars
<1>3. ASSUME NEW j \in Job, LoadLinked(j) \/ (\E i \in Identity : Link(j, i) \/ FindIdentity(j, i))
      PROVE  account' = account
  BY <1>3 DEF LoadLinked, Link, FindIdentity
<1>4. ASSUME NEW i \in Identity, Unlink(i) PROVE account' = account
  BY <1>4 DEF Unlink, signInVars
<1>5. QED
  BY <1>1, <1>2, <1>3, <1>4 DEF Next

(* A failure that is counted from a copy nobody has counted past lowers the  *)
(* counter only by locking the account.                                      *)
LEMMA FailLocks ==
  ASSUME Inv, NEW j \in Job, Fail(j), account'.failed < account.failed
  PROVE  account'.lock = "on" \/ ~job[j].fresh
<1> DEFINE put == Counted(job[j].copy)
           then == IF job[j].kind = "code" THEN At(j, "reload") ELSE NoJob
<1>1. job[j].at = "fail" /\ JobOK(job[j]) /\ Save(j, put, then)
  BY DEF Fail, Inv, JobsOK
<1>2. /\ job[j].copy \in Account /\ job[j].copy.failed \in 0..(MaxFailed - 1)
      /\ job[j].copy.lock # "on" /\ (job[j].fresh => job[j].copy.failed = account.failed)
  BY <1>1 DEF JobOK, Holding, Unsaved, Account
<1>3. /\ DOMAIN put \subseteq {"failed", "lock"} /\ "failed" \in DOMAIN put
      /\ \/ "lock" \in DOMAIN put /\ put["lock"] = "on" /\ put["failed"] = 0
         \/ "lock" \notin DOMAIN put /\ job[j].copy.failed + 1 < MaxFailed
            /\ put["failed"] = job[j].copy.failed + 1
  BY <1>2, CeilingAssumption DEF Counted
<1>4. put["failed"] \in 0..(MaxFailed - 1) /\ ("lock" \in DOMAIN put => put["lock"] = "on")
  BY <1>2, <1>3, CeilingAssumption
<1> HIDE DEF put, then
<1>5. /\ account'.failed = IF put["failed"] # job[j].copy.failed THEN put["failed"] ELSE account.failed
      /\ "lock" \in DOMAIN put =>
           account'.lock = IF put["lock"] # job[j].copy.lock THEN put["lock"] ELSE account.lock
  BY <1>1, <1>2, <1>3, <1>4, SavedAccount DEF Columns
<1>6. account.failed \in 0..(MaxFailed - 1)
  BY TableTypes DEF Account
<1>7. CASE "lock" \in DOMAIN put
  BY <1>2, <1>3, <1>5, <1>7
<1>8. CASE "lock" \notin DOMAIN put
  BY <1>2, <1>3, <1>5, <1>6, <1>8
<1>9. QED
  BY <1>7, <1>8

(* A saved password is not the one it replaces.                              *)
LEMMA RewriteChanges ==
  ASSUME Inv, NEW j \in Job, Rewrite(j) PROVE account'.pw # account.pw
<1> DEFINE put == [pw |-> account.pw + 1, failed |-> 0, lock |-> "none"]
<1>1. job[j].at = "rewrite" /\ JobOK(job[j]) /\ Save(j, put, At(j, "dropTokens")) /\ account.pw < MaxPassword
  BY DEF Rewrite, Inv, JobsOK
<1>2. /\ job[j].copy \in Account /\ job[j].copy.pw <= account.pw
      /\ job[j].copy.pw \in Nat /\ account.pw \in Nat
  BY <1>1, TableTypes DEF JobOK, Holding, Unsaved, Account
<1>3. /\ DOMAIN put = Columns /\ put["failed"] = 0 /\ put["lock"] = "none"
      /\ put["pw"] = account.pw + 1 /\ put["pw"] \in 0..MaxPassword /\ 0 \in 0..(MaxFailed - 1)
  BY <1>1, <1>2, CeilingAssumption DEF Columns
<1> HIDE DEF put
<1>4. account'.pw = IF put["pw"] # job[j].copy.pw THEN put["pw"] ELSE account.pw
  BY <1>1, <1>2, <1>3, SavedAccount DEF Columns
<1>5. QED
  BY <1>2, <1>3, <1>4

(* The counter falls by a lock, a session about to be issued, a changed      *)
(* password, and a failure counted from an old copy (auth.service.js).       *)
THEOREM CounterFallsOnlyByProofTheorem == Spec => CounterFallsOnlyByProof
<1>1. ASSUME Inv, [Next]_vars, account'.failed < account.failed
      PROVE  \/ account'.lock = "on" \/ account'.pw # account.pw
             \/ \E j \in Job : \/ job[j].at = "clear" /\ job'[j].at = "issue"
                               \/ job[j].at = "fail" /\ ~job[j].fresh
  <2>1. account \in Account /\ account.failed \in Nat
    BY <1>1, TableTypes DEF Account
  <2>2. account'.failed # account.failed /\ account' # account
    BY <1>1, <2>1
  <2>3. account' # [account EXCEPT !.lock = "past"]
    BY <2>1, <2>2 DEF Account
  <2>4. PICK j \in Job : Clear(j) \/ Fail(j) \/ Rewrite(j)
    BY <1>1, <2>2, <2>3, AccountWriters DEF vars, signInVars
  <2>5. CASE Clear(j)
    <3>1. job[j].at = "clear" /\ Save(j, [failed |-> 0, lock |-> "none"], At(j, "issue"))
      BY <2>5 DEF Clear
    <3>2. job'[j] = At(j, "issue")
      BY <3>1 DEF Save
    <3>3. job'[j].at = "issue"
      BY <3>2, <1>1, TableTypes DEF At, JobRow
    <3>4. QED
      BY <3>1, <3>3
  <2>6. CASE Fail(j)
    BY <1>1, <2>6, FailLocks DEF Fail
  <2>7. CASE Rewrite(j)
    BY <1>1, <2>7, RewriteChanges
  <2>8. QED
    BY <2>4, <2>5, <2>6, <2>7
<1>2. Inv /\ [Next]_vars =>
        [account'.failed < account.failed =>
           \/ account'.lock = "on" \/ account'.pw # account.pw
           \/ \E j \in Job : \/ job[j].at = "clear" /\ job'[j].at = "issue"
                             \/ job[j].at = "fail" /\ ~job[j].fresh]_signInVars
  BY <1>1
<1>3. QED
  BY <1>2, AlwaysInv, PTL DEF Spec, CounterFallsOnlyByProof

(***************************************************************************)
(* SignIn and ProviderSignIn implement OneTimeUse: what was handed out for *)
(* one use is accepted once.                                               *)
(***************************************************************************)

OpenThings ==
  {x \in Thing : \/ x \in Token /\ Open(token[x])
                 \/ x \in Challenge /\ Open(challenge[x])
                 \/ x \in State /\ Open(state[x])}

(* The closing updates, on what is open.                                     *)
LEMMA OpenRows ==
  ASSUME Inv, NEW which
  PROVE  /\ which \subseteq Rows(token) /\ token' = Closed(token, which) =>
              \A t \in Token : Open(token'[t]) <=> Open(token[t]) /\ t \notin which
         /\ which \subseteq Rows(challenge) /\ challenge' = Closed(challenge, which) =>
              \A c \in Challenge : Open(challenge'[c]) <=> Open(challenge[c]) /\ c \notin which
         /\ which \subseteq Rows(state) /\ state' = Closed(state, which) =>
              \A x \in State : Open(state'[x]) <=> Open(state[x]) /\ x \notin which
<1>1. ASSUME which \subseteq Rows(token), token' = Closed(token, which)
      PROVE  \A t \in Token : Open(token'[t]) <=> Open(token[t]) /\ t \notin which
  <2>1. \A t \in Token : /\ token'[t] = None <=> token[t] = None
                         /\ token[t] # None => token'[t].open = (token[t].open /\ t \notin which)
    BY <1>1, ClosedRows
  <2>2. QED
    BY <2>1 DEF Open
<1>2. ASSUME which \subseteq Rows(challenge), challenge' = Closed(challenge, which)
      PROVE  \A c \in Challenge : Open(challenge'[c]) <=> Open(challenge[c]) /\ c \notin which
  <2>1. \A c \in Challenge : /\ challenge'[c] = None <=> challenge[c] = None
                             /\ challenge[c] # None =>
                                  challenge'[c].open = (challenge[c].open /\ c \notin which)
    BY <1>2, ClosedRows
  <2>2. QED
    BY <2>1 DEF Open
<1>3. ASSUME which \subseteq Rows(state), state' = Closed(state, which)
      PROVE  \A x \in State : Open(state'[x]) <=> Open(state[x]) /\ x \notin which
  <2>1. \A x \in State : /\ state'[x] = None <=> state[x] = None
                         /\ state[x] # None => state'[x].open = (state[x].open /\ x \notin which)
    BY <1>3, ClosedRows
  <2>2. QED
    BY <2>1 DEF Open
<1>4. QED
  BY <1>1, <1>2, <1>3

(* A step of the abstract specification, or none.                            *)
LEMMA Withdrawn ==
  ASSUME uses' = uses, OpenThings' \subseteq OpenThings
  PROVE  [Once!Next]_(Once!vars)
<1> DEFINE gone == OpenThings \ OpenThings'
<1>1. OpenThings' = OpenThings \ gone /\ gone \in SUBSET OpenThings /\ gone \subseteq OpenThings
  OBVIOUS
<1>2. CASE gone = {}
  BY <1>1, <1>2 DEF Once!vars, OpenThings
<1>3. CASE gone # {}
  <2> HIDE DEF gone
  <2>1. \E g \in SUBSET OpenThings :
          g # {} /\ g \subseteq OpenThings /\ OpenThings' = OpenThings \ g /\ uses' = uses
    BY <1>1, <1>3
  <2>2. Once!Next
    BY <2>1 DEF Once!Next, Once!Withdraw, OpenThings
  <2>3. QED
    BY <2>2
<1>4. QED
  BY <1>2, <1>3

(* A thing that was never open, and is now, was issued.                      *)
LEMMA Issued ==
  ASSUME NEW x \in Thing, x \notin OpenThings, uses[x] = 0, uses' = uses,
         OpenThings' = OpenThings \cup {x}
  PROVE  [Once!Next]_(Once!vars)
<1>1. Once!Issue(x)
  BY DEF Once!Issue, OpenThings
<1>2. QED
  BY <1>1 DEF Once!Next

(* A thing that was open, and is counted and closed by one step, was used.   *)
LEMMA Used ==
  ASSUME NEW x \in Thing, x \in OpenThings, uses' = [uses EXCEPT ![x] = @ + 1],
         OpenThings' = OpenThings \ {x}
  PROVE  [Once!Next]_(Once!vars)
<1>1. Once!Use(x)
  BY DEF Once!Use, OpenThings
<1>2. QED
  BY <1>1 DEF Once!Next

(* What was closed of a table, and that the others were left alone.          *)
LEMMA ClosingWithdraws ==
  ASSUME Inv, NEW which, UNCHANGED uses,
         \/ /\ which \subseteq Rows(token) /\ token' = Closed(token, which)
            /\ UNCHANGED <<challenge, state>>
         \/ /\ which \subseteq Rows(challenge) /\ challenge' = Closed(challenge, which)
            /\ UNCHANGED <<token, state>>
         \/ /\ which \subseteq Rows(state) /\ state' = Closed(state, which)
            /\ UNCHANGED <<token, challenge>>
  PROVE  [Once!Next]_(Once!vars)
<1>1. OpenThings' \subseteq OpenThings
  BY OpenRows DEF OpenThings
<1>2. QED
  BY <1>1, Withdrawn

(* The conditional update of whoever wins is a use.                          *)
LEMMA ClosingUses ==
  ASSUME Inv, NEW x, uses' = [uses EXCEPT ![x] = @ + 1],
         \/ /\ x \in Token /\ Open(token[x]) /\ token' = Closed(token, {x})
            /\ UNCHANGED <<challenge, state>>
         \/ /\ x \in Challenge /\ Open(challenge[x]) /\ challenge' = Closed(challenge, {x})
            /\ UNCHANGED <<token, state>>
         \/ /\ x \in State /\ Open(state[x]) /\ state' = Closed(state, {x})
            /\ UNCHANGED <<token, challenge>>
  PROVE  [Once!Next]_(Once!vars)
<1> DEFINE which == {x}
<1>1. x \in Thing /\ x \in OpenThings
  BY DEF Thing, OpenThings
<1>2. /\ x \in Token => which \subseteq Rows(token) \/ ~Open(token[x])
      /\ x \in Challenge => which \subseteq Rows(challenge) \/ ~Open(challenge[x])
      /\ x \in State => which \subseteq Rows(state) \/ ~Open(state[x])
  BY TableTypes DEF Rows, Open
<1>3. \A y : y \in which <=> y = x
  OBVIOUS
<1> HIDE DEF which
<1>4. CASE x \in Token /\ Open(token[x]) /\ token' = Closed(token, which) /\ UNCHANGED <<challenge, state>>
  <2>1. \A t \in Token : Open(token'[t]) <=> Open(token[t]) /\ t \notin which
    BY <1>2, <1>4, OpenRows
  <2>2. x \notin Challenge /\ x \notin State
    BY <1>4, IdentifierAssumption
  <2>3. OpenThings' = OpenThings \ {x}
    BY <1>3, <1>4, <2>1, <2>2 DEF OpenThings
  <2>4. QED
    BY <1>1, <2>3, Used
<1>5. CASE x \in Challenge /\ Open(challenge[x]) /\ challenge' = Closed(challenge, which)
           /\ UNCHANGED <<token, state>>
  <2>1. \A c \in Challenge : Open(challenge'[c]) <=> Open(challenge[c]) /\ c \notin which
    BY <1>2, <1>5, OpenRows
  <2>2. x \notin Token /\ x \notin State
    BY <1>5, IdentifierAssumption
  <2>3. OpenThings' = OpenThings \ {x}
    BY <1>3, <1>5, <2>1, <2>2 DEF OpenThings
  <2>4. QED
    BY <1>1, <2>3, Used
<1>6. CASE x \in State /\ Open(state[x]) /\ state' = Closed(state, which)
           /\ UNCHANGED <<token, challenge>>
  <2>1. \A y \in State : Open(state'[y]) <=> Open(state[y]) /\ y \notin which
    BY <1>2, <1>6, OpenRows
  <2>2. x \notin Token /\ x \notin Challenge
    BY <1>6, IdentifierAssumption
  <2>3. OpenThings' = OpenThings \ {x}
    BY <1>3, <1>6, <2>1, <2>2 DEF OpenThings
  <2>4. QED
    BY <1>1, <2>3, Used
<1>7. QED
  BY <1>4, <1>5, <1>6 DEF which

(* A new row is an issue.                                                    *)
LEMMA OpeningIssues ==
  ASSUME Inv, NEW x, NEW row, row # None, UNCHANGED uses,
         \/ x \in Token /\ token[x] = None /\ token' = [token EXCEPT ![x] = row] /\ row.open
            /\ UNCHANGED <<challenge, state>>
         \/ x \in Challenge /\ challenge[x] = None /\ challenge' = [challenge EXCEPT ![x] = row] /\ row.open
            /\ UNCHANGED <<token, state>>
         \/ x \in State /\ state[x] = None /\ state' = [state EXCEPT ![x] = row] /\ row.open
            /\ UNCHANGED <<token, challenge>>
  PROVE  [Once!Next]_(Once!vars)
<1>1. x \in Thing /\ uses[x] = 0
  BY DEF Thing, Inv, UsesOK
<1>2. x \notin OpenThings /\ OpenThings' = OpenThings \cup {x}
  <2>1. CASE x \in Token /\ token[x] = None /\ token' = [token EXCEPT ![x] = row] /\ row.open
             /\ UNCHANGED <<challenge, state>>
    <3>1. x \notin Challenge /\ x \notin State
      BY <2>1, IdentifierAssumption
    <3>2. token'[x] = row /\ \A t \in Token : t # x => token'[t] = token[t]
      BY <2>1, TableTypes
    <3>3. QED
      BY <1>1, <2>1, <3>1, <3>2 DEF OpenThings, Open
  <2>2. CASE x \in Challenge /\ challenge[x] = None /\ challenge' = [challenge EXCEPT ![x] = row]
             /\ row.open /\ UNCHANGED <<token, state>>
    <3>1. x \notin Token /\ x \notin State
      BY <2>2, IdentifierAssumption
    <3>2. challenge'[x] = row /\ \A c \in Challenge : c # x => challenge'[c] = challenge[c]
      BY <2>2, TableTypes
    <3>3. QED
      BY <1>1, <2>2, <3>1, <3>2 DEF OpenThings, Open
  <2>3. CASE x \in State /\ state[x] = None /\ state' = [state EXCEPT ![x] = row]
             /\ row.open /\ UNCHANGED <<token, challenge>>
    <3>1. x \notin Token /\ x \notin Challenge
      BY <2>3, IdentifierAssumption
    <3>2. state'[x] = row /\ \A y \in State : y # x => state'[y] = state[y]
      BY <2>3, TableTypes
    <3>3. QED
      BY <1>1, <2>3, <3>1, <3>2 DEF OpenThings, Open
  <2>4. QED
    BY <2>1, <2>2, <2>3
<1>3. QED
  BY <1>1, <1>2, Issued

(* A step that leaves the tables alone is none of the abstract               *)
(* specification.                                                            *)
LEMMA TablesSame ==
  ASSUME UNCHANGED <<token, challenge, uses, state>> PROVE [Once!Next]_(Once!vars)
<1>1. OpenThings' \subseteq OpenThings
  BY DEF OpenThings
<1>2. QED
  BY <1>1, Withdrawn

(* A challenge that was counted on, became late or was closed is open only   *)
(* if it was.                                                                *)
LEMMA ChallengesWithdraw ==
  ASSUME UNCHANGED <<token, uses, state>>,
         \A c \in Challenge : Open(challenge'[c]) => Open(challenge[c])
  PROVE  [Once!Next]_(Once!vars)
<1>1. OpenThings' \subseteq OpenThings
  BY DEF OpenThings
<1>2. QED
  BY <1>1, Withdrawn

(* Steps that count on challenges, or close them or let them go late.        *)
LEMMA ChallengeStepsWithdraw ==
  ASSUME Inv, UNCHANGED state,
         SetFactor \/ Expire \/ \E j \in Job : Attempt(j) \/ RevokeChallenges(j)
  PROVE  [Once!Next]_(Once!vars)
<1>1. CASE SetFactor
  <2>1. ASSUME NEW c \in Challenge, Open(challenge'[c]) PROVE Open(challenge[c])
    <3>1. CASE challenge' = challenge
      BY <2>1, <3>1
    <3>2. CASE challenge' = [d \in Challenge |-> IF challenge[d] = None THEN None
                               ELSE [challenge[d] EXCEPT !.open = FALSE, !.late = TRUE]]
      <4>1. challenge[c] # None => challenge[c] \in ChallengeRow
        BY TableTypes
      <4>2. challenge[c] # None => challenge'[c].open = FALSE
        BY <3>2, <4>1 DEF ChallengeRow
      <4>3. challenge[c] = None => challenge'[c] = None
        BY <3>2
      <4>4. QED
        BY <2>1, <4>2, <4>3 DEF Open
    <3>3. QED
      BY <1>1, <3>1, <3>2 DEF SetFactor
  <2>2. UNCHANGED <<token, uses, state>>
    BY <1>1 DEF SetFactor
  <2>3. QED
    BY <2>1, <2>2, ChallengesWithdraw
<1>2. CASE Expire
  <2>1. ASSUME NEW t \in Token, Open(token[t]), token' = Closed(token, {t}), UNCHANGED challenge
        PROVE  [Once!Next]_(Once!vars)
    <3>1. PICK which : which \subseteq Rows(token) /\ token' = Closed(token, which)
      BY <2>1, TableTypes DEF Open, Rows
    <3>2. QED
      BY <1>2, <2>1, <3>1, ClosingWithdraws DEF Expire
  <2>2. ASSUME NEW c \in Challenge, Open(challenge[c]),
               challenge' = [challenge EXCEPT ![c].late = TRUE], UNCHANGED token
        PROVE  [Once!Next]_(Once!vars)
    <3>1. \A d \in Challenge : d # c => challenge'[d] = challenge[d]
      BY <2>2, TableTypes
    <3>2. UNCHANGED <<token, uses, state>>
      BY <1>2, <2>2 DEF Expire
    <3>3. QED
      BY <2>2, <3>1, <3>2, ChallengesWithdraw
  <2>3. QED
    BY <1>2, <2>1, <2>2 DEF Expire
<1>3. ASSUME NEW j \in Job, Attempt(j) PROVE [Once!Next]_(Once!vars)
  <2>1. UNCHANGED <<token, uses, state>>
    BY <1>3 DEF Attempt
  <2>2. ASSUME NEW c \in Challenge, Open(challenge'[c]) PROVE Open(challenge[c])
    <3>1. CASE challenge' = challenge
      BY <2>2, <3>1
    <3>2. CASE challenge[job[j].on] # None /\ challenge' = [challenge EXCEPT ![job[j].on].attempts = @ + 1]
      <4>1. CASE c # job[j].on
        BY <2>2, <3>2, <4>1, TableTypes
      <4>2. CASE c = job[j].on
        <5>1. challenge[c] \in ChallengeRow
          BY <3>2, <4>2, TableTypes
        <5>2. challenge'[c] = [challenge[c] EXCEPT !.attempts = challenge[c].attempts + 1]
          BY <3>2, <4>2, TableTypes
        <5>3. challenge'[c].open = challenge[c].open
          BY <5>1, <5>2 DEF ChallengeRow
        <5>4. QED
          BY <2>2, <3>2, <4>2, <5>3 DEF Open
      <4>3. QED
        BY <4>1, <4>2
    <3>3. QED
      BY <1>3, <3>1, <3>2 DEF Attempt
  <2>3. QED
    BY <2>1, <2>2, ChallengesWithdraw
<1>4. ASSUME NEW j \in Job, RevokeChallenges(j) PROVE [Once!Next]_(Once!vars)
  <2>1. PICK which : which \subseteq Rows(challenge) /\ challenge' = Closed(challenge, which)
    BY <1>4 DEF RevokeChallenges
  <2>2. QED
    BY <1>4, <2>1, ClosingWithdraws DEF RevokeChallenges
<1>5. QED
  BY <1>1, <1>2, <1>3, <1>4

(* Steps on links and settings tokens.                                       *)
LEMMA TokenStepsMap ==
  ASSUME Inv, UNCHANGED state, NEW j \in Job,
         \/ Withdraw(j) \/ DropTokens(j)
         \/ \E t \in Token : \/ IssueActionToken(j, t) \/ ResetPassword(j, t)
                             \/ RedeemSettings(j, t, "password") \/ RedeemSettings(j, t, "other")
  PROVE  [Once!Next]_(Once!vars)
<1>1. ASSUME Withdraw(j) \/ DropTokens(j) PROVE [Once!Next]_(Once!vars)
  <2>1. PICK which : which \subseteq Rows(token) /\ token' = Closed(token, which)
    BY <1>1 DEF Withdraw, DropTokens
  <2>2. UNCHANGED <<uses, challenge, state>>
    BY <1>1 DEF Withdraw, DropTokens
  <2>3. QED
    BY <2>1, <2>2, ClosingWithdraws
<1>2. ASSUME NEW t \in Token, IssueActionToken(j, t) PROVE [Once!Next]_(Once!vars)
  <2> DEFINE new == [purpose |-> job[j].kind, open |-> TRUE, by |-> job[j].copy.pw,
                     overlapped |-> job[j].copy.pw # account.pw]
  <2>1. /\ token[t] = None /\ token' = [token EXCEPT ![t] = new] /\ new.open
        /\ UNCHANGED <<uses, challenge, state>>
    BY <1>2 DEF IssueActionToken
  <2>2. new # None
    <3>1. job[j].copy \in Account /\ job[j].kind \in Purpose
      BY <1>2 DEF IssueActionToken, Inv, JobsOK, JobOK, Holding
    <3>2. new \in TokenRow
      BY <3>1 DEF TokenRow, Account
    <3>3. QED
      BY <3>2, RowsAssumption
  <2> HIDE DEF new
  <2>3. QED
    BY <2>1, <2>2, OpeningIssues
<1>3. ASSUME NEW t \in Token, Redeem(j, t) PROVE [Once!Next]_(Once!vars)
  BY <1>3, ClosingUses DEF Redeem
<1>4. QED
  BY <1>1, <1>2, <1>3 DEF ResetPassword, RedeemSettings

(* issueChallenge issues.                                                    *)
LEMMA MintMaps ==
  ASSUME Inv, UNCHANGED state, NEW j \in Job, NEW c \in Challenge, Mint(j, c)
  PROVE  [Once!Next]_(Once!vars)
<1> DEFINE new == [open |-> TRUE, late |-> FALSE, attempts |-> 0]
<1>1. /\ challenge[c] = None /\ challenge' = [challenge EXCEPT ![c] = new] /\ new.open
      /\ UNCHANGED <<uses, token, state>>
  BY DEF Mint
<1>2. new # None
  <2>1. IsFiniteSet(Job) /\ Cardinality(Job) # 0 /\ Cardinality(Job) \in Nat
    BY CeilingAssumption, FS_EmptySet, FS_CardinalityType
  <2>2. 0 \in 0..(MaxAttempts + Cardinality(Job) - 1)
    BY <2>1, CeilingAssumption
  <2>3. new \in ChallengeRow
    BY <2>2 DEF ChallengeRow
  <2>4. QED
    BY <2>3, RowsAssumption
<1> HIDE DEF new
<1>3. QED
  BY <1>1, <1>2, OpeningIssues

(* consumeChallenge uses, or does nothing.                                   *)
LEMMA SpendMaps ==
  ASSUME Inv, UNCHANGED state, NEW j \in Job, Spend(j)
  PROVE  [Once!Next]_(Once!vars)
<1>1. PICK c : c = job[j].on
  OBVIOUS
<1>2. c \in Challenge
  BY <1>1 DEF Spend, Inv, JobsOK, JobOK
<1>3. CASE Open(challenge[c])
  BY <1>1, <1>2, <1>3, ClosingUses DEF Spend
<1>4. CASE ~Open(challenge[c])
  BY <1>1, <1>4, TablesSame DEF Spend
<1>5. QED
  BY <1>3, <1>4

(* startFlow issues, consumeState uses, and a flow expires.                  *)
LEMMA FlowStepsMap ==
  ASSUME Inv, NEW x \in State,
         \/ \E v \in Provider, who \in Person \cup {None} : StartFlow(x, v, who)
         \/ \E j \in Job, who \in Person \cup {None} : Callback(j, x, who)
         \/ ExpireState(x)
  PROVE  [Once!Next]_(Once!vars)
<1>1. ASSUME NEW v \in Provider, NEW who \in Person \cup {None}, StartFlow(x, v, who)
      PROVE  [Once!Next]_(Once!vars)
  <2> DEFINE new == [provider |-> v, account |-> who, open |-> TRUE,
                     mode |-> IF who = None THEN "LOGIN" ELSE "LINK"]
  <2>1. /\ state[x] = None /\ state' = [state EXCEPT ![x] = new] /\ new.open
        /\ UNCHANGED <<uses, token, challenge>>
    BY <1>1 DEF StartFlow, signInVars
  <2>2. new \in FlowRow /\ new # None
    <3>1. new \in FlowRow
      BY DEF FlowRow
    <3>2. QED
      BY <3>1, IdentifierAssumption
  <2> HIDE DEF new
  <2>3. QED
    BY <2>1, <2>2, OpeningIssues
<1>2. ASSUME NEW j \in Job, NEW who \in Person \cup {None}, Callback(j, x, who)
      PROVE  [Once!Next]_(Once!vars)
  BY <1>2, ClosingUses DEF Callback, Open
<1>3. CASE ExpireState(x)
  <2>1. PICK which : which \subseteq Rows(state) /\ state' = Closed(state, which)
    BY <1>3, TableTypes DEF ExpireState, Rows
  <2>2. QED
    BY <1>3, <2>1, ClosingWithdraws DEF ExpireState, signInVars
<1>4. QED
  BY <1>1, <1>2, <1>3

(* Every step of SignIn maps to a step of the abstract specification or to   *)
(* none.                                                                     *)
LEMMA SignInStepMaps ==
  ASSUME Inv, SignInStep, UNCHANGED state
  PROVE  [Once!Next]_(Once!vars)
<1>1. ASSUME NEW j \in Job,
             \/ \E right \in BOOLEAN : Login(j, right) \/ Verify(j, right)
             \/ Gate(j) \/ Clear(j) \/ Fail(j) \/ LoadAnswered(j) \/ Reload(j)
             \/ \E c \in Challenge : Answer(j, c)
             \/ RequestReset(j) \/ LoadReset(j) \/ Rewrite(j) \/ DropSessions(j) \/ Cut(j)
             \/ \E s \in Session : \/ Issue(j, s) \/ IssueSettingsToken(j, s) \/ BeginSettings(j, s)
                                   \/ CreateApiToken(j, s) \/ RecordApi(j, s)
      PROVE  [Once!Next]_(Once!vars)
  <2>1. UNCHANGED <<token, challenge, uses>>
    BY <1>1 DEF Login, Verify, Gate, Clear, Fail, LoadAnswered, Reload, Answer, RequestReset, LoadReset,
       Rewrite, DropSessions, Cut, Issue, IssueSettingsToken, BeginSettings, CreateApiToken, RecordApi
  <2>2. QED
    BY <2>1, TablesSame
<1>2. ASSUME LockPasses \/ \E gone \in SUBSET Session : EndSessions(gone)
      PROVE  [Once!Next]_(Once!vars)
  BY <1>2, TablesSame DEF LockPasses, EndSessions
<1>3. QED
  BY <1>1, <1>2, ChallengeStepsWithdraw, TokenStepsMap, MintMaps, SpendMaps DEF SignInStep

(* "Two requests racing with the same token produce exactly one winner"      *)
(* (token.service.js), and the same of second factor challenges and of the   *)
(* states of a provider sign in.                                             *)
THEOREM ImplementsOneTimeUseTheorem == Spec => ImplementsOneTimeUse
<1>1. Init => Once!Init
  <2>1. Init => OpenThings = {} /\ uses = [x \in Thing |-> 0]
    BY DEF Init, InitSignIn, OpenThings, Open
  <2>2. QED
    BY <2>1 DEF Once!Init, OpenThings
<1>2. Inv /\ [Next]_vars => [Once!Next]_(Once!vars)
  <2> SUFFICES ASSUME Inv, [Next]_vars PROVE [Once!Next]_(Once!vars)
    OBVIOUS
  <2>1. CASE UNCHANGED vars
    BY <2>1, TablesSame DEF vars, signInVars
  <2>2. CASE SignInStep /\ UNCHANGED <<state, identity>>
    BY <2>2, SignInStepMaps
  <2>3. ASSUME NEW j \in Job, LoadLinked(j) \/ (\E i \in Identity : Link(j, i) \/ FindIdentity(j, i))
        PROVE  [Once!Next]_(Once!vars)
    BY <2>3, TablesSame DEF LoadLinked, Link, FindIdentity
  <2>4. ASSUME NEW i \in Identity, Unlink(i) PROVE [Once!Next]_(Once!vars)
    BY <2>4, TablesSame DEF Unlink, signInVars
  <2>5. QED
    BY <2>1, <2>2, <2>3, <2>4, FlowStepsMap DEF Next
<1>3. QED
  BY <1>1, <1>2, AlwaysInv, PTL DEF Spec, ImplementsOneTimeUse, Once!Spec

=============================================================================
