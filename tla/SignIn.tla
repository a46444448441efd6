------------------------------- MODULE SignIn -------------------------------
(***************************************************************************)
(* How one account is signed in to: its password, the counter of failures  *)
(* and the lock, the gate every sign in passes, second factor challenges,  *)
(* sessions and API tokens, reset links and settings tokens                *)
(* (auth.service.js, session.service.js, token.service.js,                 *)
(* apiToken.service.js, account.service.js and the challenges of           *)
(* mfa.service.js).                                                        *)
(*                                                                         *)
(* A request is a job: one step for each statement it sends, with the copy *)
(* of the account it loaded. A copy is compared and saved from, and only   *)
(* the columns that differ from it are written.                            *)
(***************************************************************************)
EXTENDS Naturals, FiniteSets

CONSTANTS
  Job,          \* requests the server has in hand at a time
  Session,      \* identifiers of sessions and API tokens, used once each
  Token,        \* identifiers of action tokens, used once each
  Challenge,    \* identifiers of challenges, used once each
  MaxFailed,    \* config.security.maxFailedLogins
  MaxAttempts,  \* MAX_CHALLENGE_ATTEMPTS
  MaxApi,       \* MAX_TOKENS_PER_ACCOUNT
  MaxPassword,  \* bound: how often the password is changed
  None

ASSUME CeilingAssumption ==
  /\ MaxFailed \in Nat \ {0, 1} /\ MaxAttempts \in Nat \ {0} /\ MaxPassword \in Nat
  /\ IsFiniteSet(Job)

VARIABLES
  mix,       \* bound: which requests arrive in this behaviour
  account,   \* the row: the password in force, the counter and the lock
  factor,    \* whether a confirmed second factor exists
  session,   \* session[s]: the row of s, or None
  token,     \* token[t]: the row of t, or None
  challenge, \* challenge[c]: the row of c, or None
  job,       \* job[j]: the request in slot j
  uses,      \* uses[x]: how often x was accepted, of what is for one use
  history    \* failures since the last success, and what excuses a miscount

signInVars == <<mix, account, factor, session, token, challenge, job, uses, history>>

Purpose == {"PASSWORD_RESET", "SETTINGS_UPDATE"}

(* A lock that has passed stays in the row until something clears it. *)
Account == [pw : 0..MaxPassword, failed : 0..(MaxFailed - 1), lock : {"none", "on", "past"}]

SessionRow == [kind : {"SESSION", "API"}, live : BOOLEAN, by : 0..MaxPassword, overlapped : BOOLEAN]
TokenRow == [purpose : Purpose, open : BOOLEAN, by : 0..MaxPassword, overlapped : BOOLEAN]

(* Attempts are counted after the ceiling was looked at, by each request.    *)
ChallengeRow ==
  [open : BOOLEAN, late : BOOLEAN, attempts : 0..(MaxAttempts + Cardinality(Job) - 1)]

(* What is not there is no row of a table. *)
ASSUME RowsAssumption == None \notin Account \cup SessionRow \cup TokenRow \cup ChallengeRow

NoJob == [at |-> "idle", kind |-> "none", copy |-> None, fresh |-> TRUE, on |-> None, by |-> None]

InitSignIn(Thing) ==
  /\ account = [pw |-> 0, failed |-> 0, lock |-> "none"]
  /\ factor \in BOOLEAN
  /\ session = [s \in Session |-> None]
  /\ token = [t \in Token |-> None]
  /\ challenge = [c \in Challenge |-> None]
  /\ job = [j \in Job |-> NoJob]
  /\ uses = [x \in Thing |-> 0]
  /\ history = [failures |-> 0, exact |-> TRUE, torn |-> FALSE]

Rows(table) == {x \in DOMAIN table : table[x] # None}
Live(s) == session[s] # None /\ session[s].live
Open(row) == row # None /\ row.open

Begin(j, new) == job[j].at = "idle" /\ job' = [job EXCEPT ![j] = new]
Go(j, at) == job' = [job EXCEPT ![j].at = at]
End(j) == job' = [job EXCEPT ![j] = NoJob]

At(j, at) == [job[j] EXCEPT !.at = at]

(* account.update: only what differs from the copy is written. What others   *)
(* loaded of the counter is old from then on.                                *)
Save(j, put, then) ==
  LET changed == {f \in DOMAIN put : put[f] # job[j].copy[f]}
  IN /\ account' = [f \in DOMAIN account |-> IF f \in changed THEN put[f] ELSE account[f]]
     /\ job' = [i \in Job |->
          IF i = j THEN then
          ELSE IF changed = {} \/ job[i].copy = None THEN job[i]
          ELSE [job[i] EXCEPT !.fresh = FALSE]]

(* The failures are followed as long as the count is exact. *)
Recount(failures, exact) ==
  history' = [history EXCEPT !.exact = exact, !.failures = IF exact THEN failures ELSE 0]

(***************************************************************************)
(* Signing in.                                                             *)
(***************************************************************************)

(* login: an account inside its lock is refused before the password is       *)
(* compared with the copy.                                                   *)
Login(j, right) ==
  /\ mix = "guess" \/ (mix = "change" /\ right)
  /\ account.lock # "on"
  /\ Begin(j, [NoJob EXCEPT !.at = IF right THEN "gate" ELSE "fail",
                            !.kind = "password", !.copy = account])
  /\ UNCHANGED <<mix, account, factor, session, token, challenge, uses, history>>

(* Mutant of Gate: a right password clears the counter before the second     *)
(* factor is asked for.                                                      *)
Gate_ClearsFirst(j) ==
  /\ job[j].at = "gate" /\ job[j].copy.lock # "on"
  /\ Save(j, [failed |-> 0, lock |-> "none"], At(j, IF factor THEN "mint" ELSE "issue"))
  /\ history' = [history EXCEPT !.failures = 0]
  /\ UNCHANGED <<mix, factor, session, token, challenge, uses>>

(* completeSignIn: isEnabled decides between a challenge and a session. *)
Gate(j) ==
  /\ job[j].at = "gate" /\ job[j].copy.lock # "on"
  /\ Go(j, IF factor THEN "mint" ELSE "clear")
  /\ UNCHANGED <<mix, account, factor, session, token, challenge, uses, history>>

(* issueChallenge. *)
Mint(j, c) ==
  /\ job[j].at = "mint" /\ challenge[c] = None
  /\ challenge' = [challenge EXCEPT ![c] = [open |-> TRUE, late |-> FALSE, attempts |-> 0]]
  /\ End(j)
  /\ UNCHANGED <<mix, account, factor, session, token, uses, history>>

(* clearFailedAttempts. *)
Clear(j) ==
  /\ job[j].at = "clear"
  /\ Save(j, [failed |-> 0, lock |-> "none"], At(j, "issue"))
  /\ Recount(0, history.exact /\ job[j].fresh)
  /\ UNCHANGED <<mix, factor, session, token, challenge, uses>>

(* by is the password the credential was given for, and overlapped says that *)
(* it was no longer in force.                                                *)
Credential(j, kind) ==
  [kind |-> kind, live |-> TRUE, by |-> job[j].copy.pw, overlapped |-> job[j].copy.pw # account.pw]

(* issueAccessToken. *)
Issue(j, s) ==
  /\ job[j].at = "issue" /\ session[s] = None
  /\ session' = [session EXCEPT ![s] = Credential(j, "SESSION")]
  /\ End(j)
  /\ UNCHANGED <<mix, account, factor, token, challenge, uses, history>>

(* Mutant of Counted: the lock leaves the counter as it is. *)
Counted_NoReset(copy) ==
  IF copy.failed + 1 >= MaxFailed THEN [lock |-> "on"] ELSE [failed |-> copy.failed + 1]

(* What registerFailedAttempt saves: at the ceiling the account is locked    *)
(* and the counter starts again.                                             *)
Counted(copy) ==
  IF copy.failed + 1 >= MaxFailed THEN [failed |-> 0, lock |-> "on"]
  ELSE [failed |-> copy.failed + 1]

(* A lock that is set again is a later date than the one that is past. *)
Fail(j) ==
  /\ job[j].at = "fail"
  /\ Save(j, Counted(job[j].copy), IF job[j].kind = "code" THEN At(j, "reload") ELSE NoJob)
  /\ Recount((history.failures + 1) % MaxFailed, history.exact /\ job[j].fresh)
  /\ UNCHANGED <<mix, factor, session, token, challenge, uses>>

(* completeMfaChallenge: loadChallenge, *)
Answer(j, c) ==
  /\ mix = "guess"
  /\ Open(challenge[c]) /\ ~challenge[c].late /\ challenge[c].attempts < MaxAttempts
  /\ Begin(j, [NoJob EXCEPT !.at = "answer", !.kind = "code", !.on = c])
  /\ UNCHANGED <<mix, account, factor, session, token, challenge, uses, history>>

(* the account, refused inside its lock,                                     *)
LoadAnswered(j) ==
  /\ job[j].at = "answer"
  /\ IF account.lock = "on" THEN End(j)
     ELSE job' = [job EXCEPT ![j].at = "code", ![j].copy = account]
  /\ UNCHANGED <<mix, account, factor, session, token, challenge, uses, history>>

(* verifyAnyCode, of which only the answer matters here,                     *)
Verify(j, accepted) ==
  /\ job[j].at = "code" /\ (accepted => factor)
  /\ Go(j, IF accepted THEN "spend" ELSE "attempt")
  /\ UNCHANGED <<mix, account, factor, session, token, challenge, uses, history>>

(* registerChallengeAttempt,                                                 *)
Attempt(j) ==
  /\ job[j].at = "attempt"
  /\ challenge' = IF challenge[job[j].on] = None THEN challenge
                  ELSE [challenge EXCEPT ![job[j].on].attempts = @ + 1]
  /\ Go(j, "fail")
  /\ UNCHANGED <<mix, account, factor, session, token, uses, history>>

(* after the failure is counted, account.reload and revokeChallenges,        *)
Reload(j) ==
  /\ job[j].at = "reload"
  /\ IF account.lock # "none" THEN Go(j, "revoke") ELSE End(j)
  /\ UNCHANGED <<mix, account, factor, session, token, challenge, uses, history>>

Closed(table, which) ==
  [x \in DOMAIN table |-> IF x \in which THEN [table[x] EXCEPT !.open = FALSE] ELSE table[x]]

RevokeChallenges(j) ==
  /\ job[j].at = "revoke"
  /\ challenge' = Closed(challenge, Rows(challenge))
  /\ End(j)
  /\ UNCHANGED <<mix, account, factor, session, token, uses, history>>

(* Mutant of Spend: the outcome of the conditional update is not looked at.  *)
Spend_Unchecked(j) ==
  /\ job[j].at = "spend"
  /\ LET c == job[j].on IN
       /\ challenge' = IF Open(challenge[c]) THEN Closed(challenge, {c}) ELSE challenge
       /\ uses' = [uses EXCEPT ![c] = @ + 1] /\ Go(j, "clear")
  /\ UNCHANGED <<mix, account, factor, session, token, history>>

(* or consumeChallenge, which one of those racing for it wins.               *)
Spend(j) ==
  /\ job[j].at = "spend"
  /\ LET c == job[j].on IN
     IF Open(challenge[c])
       THEN /\ challenge' = Closed(challenge, {c})
            /\ uses' = [uses EXCEPT ![c] = @ + 1] /\ Go(j, "clear")
       ELSE challenge' = challenge /\ uses' = uses /\ End(j)
  /\ UNCHANGED <<mix, account, factor, session, token, history>>

(* confirmEnrolment, and disable, which takes the challenges with it. Bound: *)
(* a factor is confirmed before there are challenges.                        *)
SetFactor ==
  /\ mix = "guess" /\ (factor \/ Rows(challenge) = {})
  /\ factor' = ~factor
  /\ challenge' = IF factor THEN [c \in Challenge |-> IF challenge[c] = None THEN None
                                     ELSE [challenge[c] EXCEPT !.open = FALSE, !.late = TRUE]]
                  ELSE challenge
  /\ UNCHANGED <<mix, account, session, token, job, uses, history>>

(***************************************************************************)
(* Links, settings tokens and the changes they allow.                      *)
(***************************************************************************)

(* requestPasswordReset finds the account, withdraws earlier links ...       *)
RequestReset(j) ==
  /\ mix = "change"
  /\ Begin(j, [NoJob EXCEPT !.at = "withdraw", !.kind = "PASSWORD_RESET", !.copy = account])
  /\ UNCHANGED <<mix, account, factor, session, token, challenge, uses, history>>

Withdraw(j) ==
  /\ job[j].at = "withdraw"
  /\ token' = Closed(token, {t \in Rows(token) : token[t].purpose = "PASSWORD_RESET"})
  /\ Go(j, "link")
  /\ UNCHANGED <<mix, account, factor, session, challenge, uses, history>>

(* ... and mints a new one, as issueSettingsToken does for a right password. *)
IssueActionToken(j, t) ==
  /\ job[j].at = "link" /\ token[t] = None
  /\ token' = [token EXCEPT ![t] = [purpose |-> job[j].kind, open |-> TRUE, by |-> job[j].copy.pw,
                                    overlapped |-> job[j].copy.pw # account.pw]]
  /\ End(j)
  /\ UNCHANGED <<mix, account, factor, session, challenge, uses, history>>

(* authenticate reads a live session and the account, which is not locked.   *)
Authenticated(s) == Live(s) /\ account.lock # "on"

IssueSettingsToken(j, s) ==
  /\ mix = "change" /\ Authenticated(s)
  /\ Begin(j, [NoJob EXCEPT !.at = "link", !.kind = "SETTINGS_UPDATE", !.copy = account])
  /\ UNCHANGED <<mix, account, factor, session, token, challenge, uses, history>>

(* consumeActionToken, one conditional update. A reset loads the account     *)
(* afterwards; a settings request was authenticated before.                  *)
Redeem(j, t) ==
  /\ Open(token[t])
  /\ token' = Closed(token, {t})
  /\ uses' = [uses EXCEPT ![t] = @ + 1]
  /\ UNCHANGED <<mix, account, factor, session, challenge, history>>

ResetPassword(j, t) ==
  /\ token[t] # None /\ token[t].purpose = "PASSWORD_RESET"
  /\ Begin(j, [NoJob EXCEPT !.at = "load", !.kind = "reset"])
  /\ Redeem(j, t)

LoadReset(j) ==
  /\ job[j].at = "load"
  /\ job' = [job EXCEPT ![j].at = "rewrite", ![j].copy = account]
  /\ UNCHANGED <<mix, account, factor, session, token, challenge, uses, history>>

(* updatePassword, updateUserId, updateEmail and the second factor's routes  *)
(* begin alike.                                                              *)
BeginSettings(j, s) ==
  /\ mix = "change" /\ Authenticated(s)
  /\ Begin(j, [NoJob EXCEPT !.at = "redeem", !.kind = "settings", !.copy = account, !.by = s])
  /\ UNCHANGED <<mix, account, factor, session, token, challenge, uses, history>>

RedeemSettings(j, t, changes) ==
  /\ job[j].at = "redeem" /\ token[t] # None /\ token[t].purpose = "SETTINGS_UPDATE"
  /\ IF changes = "password" THEN Go(j, "rewrite") ELSE End(j)
  /\ Redeem(j, t)

(* account.update of resetPassword and of updatePassword. *)
Rewrite(j) ==
  /\ job[j].at = "rewrite" /\ account.pw < MaxPassword
  /\ Save(j, [pw |-> account.pw + 1, failed |-> 0, lock |-> "none"], At(j, "dropTokens"))
  /\ Recount(0, history.exact /\ job[j].fresh)
  /\ UNCHANGED <<mix, factor, session, token, challenge, uses>>

(* Mutant of DropTokens: only reset links are dropped.                       *)
DropTokens_ResetOnly(j) ==
  /\ job[j].at = "dropTokens"
  /\ token' = Closed(token, {t \in Rows(token) : token[t].purpose = "PASSWORD_RESET"})
  /\ Go(j, "dropSessions")
  /\ UNCHANGED <<mix, account, factor, session, challenge, uses, history>>

(* revokeActionTokens, of every purpose. *)
DropTokens(j) ==
  /\ job[j].at = "dropTokens"
  /\ token' = Closed(token, Rows(token))
  /\ Go(j, "dropSessions")
  /\ UNCHANGED <<mix, account, factor, session, challenge, uses, history>>

(* revokeAll: a reset ends everything, a change from the settings the other  *)
(* sessions. The one kept goes on under the new password.                    *)
Ended(s, j) ==
  job[j].kind = "reset" \/ (session[s].kind = "SESSION" /\ s # job[j].by)

DropSessions(j) ==
  /\ job[j].at = "dropSessions"
  /\ session' = [s \in Session |->
       IF session[s] = None THEN None
       ELSE IF Ended(s, j) THEN [session[s] EXCEPT !.live = FALSE]
       ELSE [session[s] EXCEPT !.by = account.pw]]
  /\ End(j)
  /\ UNCHANGED <<mix, account, factor, token, challenge, uses, history>>

(***************************************************************************)
(* Sessions and API tokens.                                                *)
(***************************************************************************)

(* createApiToken counts and then records; a token cannot ask for one        *)
(* (requireSession).                                                         *)
CreateApiToken(j, s) ==
  /\ mix = "change" /\ Authenticated(s) /\ session[s].kind = "SESSION"
  /\ Cardinality({r \in Session : Live(r) /\ session[r].kind = "API"}) < MaxApi
  /\ Begin(j, [NoJob EXCEPT !.at = "record", !.kind = "api", !.copy = account])
  /\ UNCHANGED <<mix, account, factor, session, token, challenge, uses, history>>

RecordApi(j, s) ==
  /\ job[j].at = "record" /\ session[s] = None
  /\ session' = [session EXCEPT ![s] = Credential(j, "API")]
  /\ End(j)
  /\ UNCHANGED <<mix, account, factor, token, challenge, uses, history>>

(* revokeSession and logout, revokeAll from the list of sessions, and expiry.*)
EndSessions(gone) ==
  /\ mix = "change" /\ gone # {} /\ \A s \in gone : Live(s)
  /\ session' = [s \in Session |-> IF s \in gone THEN [session[s] EXCEPT !.live = FALSE] ELSE session[s]]
  /\ UNCHANGED <<mix, account, factor, token, challenge, job, uses, history>>

(***************************************************************************)
(* Time, and requests that are cut.                                        *)
(***************************************************************************)

LockPasses ==
  /\ account.lock = "on"
  /\ account' = [account EXCEPT !.lock = "past"]
  /\ UNCHANGED <<mix, factor, session, token, challenge, job, uses, history>>

(* consumeChallenge does not look at the time: a challenge that was loaded   *)
(* in time is spent in time.                                                 *)
Expire ==
  /\ \/ \E t \in Token : Open(token[t]) /\ token' = Closed(token, {t}) /\ UNCHANGED challenge
     \/ \E c \in Challenge :
          /\ Open(challenge[c]) /\ ~challenge[c].late
          /\ challenge' = [challenge EXCEPT ![c].late = TRUE] /\ UNCHANGED token
  /\ UNCHANGED <<mix, account, factor, session, job, uses, history>>

(* A statement fails, or the process stops: what was written stays written.  *)
Cut(j) ==
  /\ job[j].at # "idle"
  /\ End(j)
  /\ LET exact == history.exact /\ job[j].at \notin {"fail", "clear"}
     IN  history' = [history EXCEPT !.torn = @ \/ job[j].at \in {"dropTokens", "dropSessions"},
                                    !.exact = exact, !.failures = IF exact THEN @ ELSE 0]
  /\ UNCHANGED <<mix, account, factor, session, token, challenge, uses>>

SignInStep ==
  \/ \E j \in Job :
       \/ \E right \in BOOLEAN : Login(j, right) \/ Verify(j, right)
       \/ Gate(j) \/ Clear(j) \/ Fail(j)
       \/ LoadAnswered(j) \/ Attempt(j) \/ Reload(j) \/ RevokeChallenges(j) \/ Spend(j)
       \/ \E c \in Challenge : Mint(j, c) \/ Answer(j, c)
       \/ RequestReset(j) \/ Withdraw(j) \/ LoadReset(j) \/ Rewrite(j)
       \/ DropTokens(j) \/ DropSessions(j) \/ Cut(j)
       \/ \E t \in Token : \/ IssueActionToken(j, t) \/ ResetPassword(j, t)
                           \/ RedeemSettings(j, t, "password") \/ RedeemSettings(j, t, "other")
       \/ \E s \in Session : \/ Issue(j, s) \/ IssueSettingsToken(j, s) \/ BeginSettings(j, s)
                             \/ CreateApiToken(j, s) \/ RecordApi(j, s)
  \/ SetFactor \/ LockPasses \/ Expire
  \/ \E gone \in SUBSET Session : EndSessions(gone)

(***************************************************************************)
(* Properties.                                                             *)
(***************************************************************************)

SignInTypeOK ==
  /\ account \in Account /\ factor \in BOOLEAN
  /\ session \in [Session -> SessionRow \cup {None}]
  /\ token \in [Token -> TokenRow \cup {None}]
  /\ challenge \in [Challenge -> ChallengeRow \cup {None}]
  /\ \A j \in Job : job[j].copy \in Account \cup {None}

(* "Repeated failures lock an account for a cooling off period"              *)
(* (auth.service.js): unless two requests that count overlapped, or one was  *)
(* cut, the counter is the number of credentials of either kind refused      *)
(* since the last one that let somebody in, and the ceiling locks.           *)
CounterExact == history.exact => account.failed = history.failures

(* "Clearing them on a correct password would hand somebody who has the      *)
(* password an unlimited supply of fresh attempts at the second factor"      *)
(* (auth.service.js): the counter falls only when the account is locked, a   *)
(* session is about to be issued or the password has changed; and when a     *)
(* failure is counted from a copy that others have counted past since.       *)
CounterFallsOnlyByProof ==
  [][account'.failed < account.failed =>
       \/ account'.lock = "on" \/ account'.pw # account.pw
       \/ \E j \in Job : \/ job[j].at = "clear" /\ job'[j].at = "issue"
                         \/ job[j].at = "fail" /\ ~job[j].fresh]_signInVars

(* "Changing a password is how somebody ends access they no longer want"     *)
(* (account.service.js): once a change has run to its end no session but the *)
(* one that asked, and no link or settings token, is left from before it.    *)
(* Requests that overlapped the change, and one that was cut, are excepted.  *)
EndedByChange ==
  ~history.torn /\ (\A j \in Job : job[j].at \notin {"dropTokens", "dropSessions"}) =>
    /\ \A s \in Session : Live(s) /\ session[s].kind = "SESSION" /\ ~session[s].overlapped
                            => session[s].by = account.pw
    /\ \A t \in Token : Open(token[t]) /\ ~token[t].overlapped => token[t].by = account.pw
=============================================================================
