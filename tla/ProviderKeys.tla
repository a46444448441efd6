---------------------------- MODULE ProviderKeys ----------------------------
(***************************************************************************)
(* The AI credentials of accounts (accountKey.service.js) and the walk     *)
(* over them that every provider call makes (keyFallback.js), with the     *)
(* outcomes a vendor's answer is sorted into (providerError.js,            *)
(* vendorRequest.js and the adapters).                                     *)
(*                                                                         *)
(* A walk works on the chain it loaded, in memory, and records afterwards  *)
(* what happened to each key; meanwhile keys are added, changed, reordered *)
(* and removed, each a few statements long.  The chat and embedding models *)
(* of a key are left out: they follow its platform as a project's do.      *)
(***************************************************************************)
EXTENDS Naturals, FiniteSets, Sequences, TLC

CONSTANTS
  Org, Person,  \* the organisation's account, and the accounts of people
  Key,          \* identifiers of stored keys, used once each
  Start,        \* bound: the keys stored when a behaviour starts
  Provider,
  Job,          \* requests to change keys the server has in hand at a time
  Walk,         \* provider calls under way at a time
  Mix,          \* bound: what a behaviour is about
  Reply,        \* by mix, what a vendor's answer may be: a subset of DOMAIN KindOf
  Put,          \* bound: by mix, the fields a request may change
  Odd,          \* bound: by mix, the platforms of the odd key of a start
  MaxRequests,  \* bound: by mix, requests to change keys in a behaviour
  MaxKeys,      \* MAX_KEYS_PER_ACCOUNT
  MaxAttempts,  \* config.ai.maxAttemptsPerKey
  BuiltIn,      \* the development key, which has no row
  None

ASSUME LimitAssumption ==
  MaxKeys \in Nat \ {0} /\ MaxAttempts \in Nat \ {0} /\ \A m \in Mix : MaxRequests[m] \in Nat

(* An organisation is no person, and the built-in key has no row.            *)
ASSUME IdentifierAssumption ==
  /\ Org \notin Person /\ BuiltIn \notin Key /\ IsFiniteSet(Key) /\ Start \subseteq Key
  /\ Provider # {} /\ Person # {} /\ \A m \in Mix : Odd[m] \subseteq Provider
  /\ None \notin Person \cup {Org} \cup Key \cup Job

VARIABLES
  mix,      \* bound: what this behaviour is about
  fallback, \* config.ai.allowDefaultApiKey
  key,      \* key[k]: the row of k, or None
  made,     \* the keys ever stored, in the order of their created_at
  job,      \* job[j]: the request in slot j
  asked,    \* bound: how many requests there have been
  walk,     \* walk[w]: the call in slot w
  moved     \* history: moved[w], the accounts whose keys changed since w read them

vars == <<mix, fallback, key, made, job, asked, walk, moved>>

Account == Person \cup {Org}

(* Bound: people are interchangeable, and platforms are; those of a call.    *)
Caller == CHOOSE p \in Person : TRUE
Called == CHOOSE v \in Provider : TRUE

(* A vendor's answer, by what the code makes of it. A connection that is cut *)
(* and the deadline (kindFromTransportError),                                *)
TransportKind == [cut |-> "NETWORK", deadline |-> "TIMEOUT"]

(* a status (kindFromStatus),                                                *)
StatusKind ==
  [s401 |-> "AUTH", s403 |-> "AUTH", s402 |-> "QUOTA", s429 |-> "RATE_LIMIT",
   s4xx |-> "REQUEST", s5xx |-> "SERVER", s3xx |-> "SERVER"]

(* the checks of a 200: JSON, no upstream error of a broker, the array the   *)
(* prompt asks for (vendorRequest.js),                                       *)
BodyKind ==
  [answer |-> "SUCCESS", notJson |-> "INVALID_RESPONSE", contract |-> "INVALID_RESPONSE",
   upstream |-> "INVALID_RESPONSE", upstream429 |-> "RATE_LIMIT"]

(* and what one adapter finds before them; anything else it throws counts as *)
(* an invalid response.                                                      *)
AdapterKind == [refusal |-> "REQUEST", thrown |-> "INVALID_RESPONSE"]

KindOf == TransportKind @@ StatusKind @@ BodyKind @@ AdapterKind

Kind == {KindOf[r] : r \in DOMAIN KindOf}

ASSUME ReplyAssumption == \A m \in Mix : Reply[m] \subseteq DOMAIN KindOf

(* RETRY_SAME_KEY and FATAL_FOR_CHAIN. *)
RetrySameKey == {"SERVER", "NETWORK", "TIMEOUT"}
FatalForChain == {"REQUEST"}

Row == [account : Account, provider : Provider, priority : Nat, active : BOOLEAN,
        secret : BOOLEAN, error : (Kind \ {"SUCCESS"}) \cup {"none"}]

ASSUME RowAssumption == None \notin Row

Stored == {k \in Key : key[k] # None}
KeysOf(a) == {k \in Stored : key[k].account = a}
Members(s) == {s[i] : i \in 1..Len(s)}
Age(k) == CHOOSE i \in 1..Len(made) : made[i] = k

(* order: priority_order first, created_at second. *)
Before(j, k) ==
  \/ key[j].priority < key[k].priority
  \/ key[j].priority = key[k].priority /\ Age(j) < Age(k)

Arrangements(S) == [1..Cardinality(S) -> S]
InOrder(s) == \A i, j \in 1..Len(s) : i < j => Before(s[i], s[j])
Sorted(S) == CHOOSE s \in Arrangements(S) : InOrder(s)

Listed(a) == Sorted(KeysOf(a))

(* loadForAccount: the active keys of an account, for platform v if one is   *)
(* named.                                                                    *)
Usable(a, v) ==
  Sorted({k \in KeysOf(a) : key[k].active /\ (v = None \/ key[k].provider = v)})

NoJob == [kind |-> "none", account |-> None, on |-> None, gone |-> FALSE,
          put |-> None, count |-> 0, list |-> <<>>, todo |-> {}, fresh |-> TRUE]
NoWalk == [at |-> "idle", actor |-> None, provider |-> None, chain |-> <<>>,
           next |-> 1, retry |-> 0, log |-> <<>>, recorded |-> 0]

(* Bound: of the keys a behaviour starts with at most one is inactive or of  *)
(* another platform than most, and each slot of Walk serves one call.        *)
Init ==
  /\ mix \in Mix
  /\ fallback \in {FALSE, Walk # {}}
  /\ made = CHOOSE s \in Arrangements(Start) : Members(s) = Start
  /\ \E owner \in [Start -> Account], odd \in Start \cup {None}, v \in Odd[mix] :
       key = [k \in Key |->
         IF k \in Start
           THEN [account |-> owner[k], provider |-> IF k = odd THEN v ELSE Called, priority |-> 1,
                 active |-> k # odd \/ v # Called, secret |-> TRUE, error |-> "none"]
           ELSE None]
  /\ job = [j \in Job |-> NoJob]
  /\ asked = 0
  /\ walk = [w \in Walk |-> NoWalk]
  /\ moved = [w \in Walk |-> {}]

(***************************************************************************)
(* Changing keys.                                                          *)
(***************************************************************************)

Free(j) == job[j].kind = "none"

(* Bound: slots are interchangeable; the next request takes this one.        *)
Slot(j) == Free(j) /\ j = CHOOSE i \in Job : Free(i)

Ask == asked < MaxRequests[mix] /\ asked' = asked + 1
Finish(j) == job' = [job EXCEPT ![j] = NoJob]

(* The keys of account a are written by job j, which becomes mine: what      *)
(* others read of them is old, and a removed key is gone.                    *)
Touch(j, a, mine, removed) ==
  /\ moved' = [w \in Walk |-> moved[w] \cup {a}]
  /\ job' = [i \in Job |->
       IF i = j THEN mine
       ELSE IF job[i].account = a
         THEN [job[i] EXCEPT !.fresh = @ /\ job[i].kind = "update", !.gone = @ \/ job[i].on \in removed]
         ELSE job[i]]

(* addApiKey counts the keys of the account. wanted is the priority asked    *)
(* for, if any.                                                              *)
BeginAdd(j, a, wanted) ==
  /\ Slot(j) /\ Ask
  /\ Cardinality(KeysOf(a)) < MaxKeys
  /\ job' = [job EXCEPT ![j] = [NoJob EXCEPT !.kind = "add", !.account = a, !.put = wanted,
                                             !.count = Cardinality(KeysOf(a))]]
  /\ UNCHANGED <<mix, fallback, key, made, walk, moved>>

(* ... and creates one, at the priority asked for or at the count plus one.  *)
InsertKey(j, k, v) ==
  /\ job[j].kind = "add"
  /\ k \notin Members(made)
  /\ key' = [key EXCEPT ![k] =
       [account |-> job[j].account, provider |-> v, active |-> TRUE, secret |-> TRUE,
        priority |-> IF job[j].put = None THEN job[j].count + 1 ELSE job[j].put,
        error |-> "none"]]
  /\ made' = Append(made, k)
  /\ Touch(j, job[j].account, NoJob, {})
  /\ UNCHANGED <<mix, fallback, asked, walk>>

(* updateApiKey loads the row and settles what to save: a new secret clears  *)
(* the error of the old one. Bound: an update changes one thing, and a       *)
(* priority to the first or one after the last.                              *)
Puts(k) ==
  LET row == key[k] IN
  {put \in {[row EXCEPT !.priority = n] : n \in {1, MaxKeys + 1}}
             \cup {[row EXCEPT !.active = ~@], [row EXCEPT !.secret = ~@, !.error = "none"]} :
     \A a \in DOMAIN put : put[a] # row[a] => a \in Put[mix] \cup {"error"}}

(* key.update: only what differs from the loaded row is written. *)
Changed(loaded, put) ==
  [a \in {b \in DOMAIN put : put[b] # loaded[b]} |-> put[a]]

BeginUpdate(j, k) ==
  /\ Slot(j) /\ k \in Stored /\ Ask
  /\ \E put \in Puts(k) :
       job' = [job EXCEPT ![j] = [NoJob EXCEPT !.kind = "update", !.account = key[k].account,
                                               !.on = k, !.put = Changed(key[k], put)]]
  /\ UNCHANGED <<mix, fallback, key, made, walk, moved>>

Saved(row, put) == [a \in DOMAIN row |-> IF a \in DOMAIN put THEN put[a] ELSE row[a]]

SaveKey(j) ==
  /\ job[j].kind = "update"
  /\ IF job[j].gone
       THEN Finish(j) /\ UNCHANGED <<key, moved>>
       ELSE
         /\ key' = [key EXCEPT ![job[j].on] = Saved(@, job[j].put)]
         /\ Touch(j, job[j].account, NoJob, {})
  /\ UNCHANGED <<mix, fallback, made, asked, walk>>

(* reorderApiKeys accepts a list as long as the account has keys, made of    *)
(* keys it has. Bound: one reorder at a time, of no more keys than the limit.*)
BeginReorder(j, a) ==
  /\ Slot(j) /\ Ask
  /\ LET n == Cardinality(KeysOf(a)) IN
     \E list \in [1..n -> KeysOf(a)] :
       /\ n \in 1..MaxKeys /\ \A i \in Job : job[i].kind # "reorder"
       /\ job' = [job EXCEPT ![j] = [NoJob EXCEPT !.kind = "reorder", !.account = a,
                                                  !.list = list, !.todo = 1..n]]
  /\ UNCHANGED <<mix, fallback, key, made, walk, moved>>

(* Mutant of Place: the last of the list is tried first.                     *)
Place_Reversed(list, i) == Len(list) + 1 - i

Place(list, i) == i

(* One of its updates; Promise.all leaves their order to the database. *)
ReorderOne(j, i) ==
  /\ job[j].kind = "reorder" /\ i \in job[j].todo
  /\ LET k == job[j].list[i] IN
     key' = IF k \in KeysOf(job[j].account)
              THEN [key EXCEPT ![k].priority = Place(job[j].list, i)] ELSE key
  /\ Touch(j, job[j].account, [job[j] EXCEPT !.todo = @ \ {i}], {})
  /\ UNCHANGED <<mix, fallback, made, asked, walk>>

(* ... and the list it answers with, or a statement that failed. *)
EndJob(j) ==
  /\ ~Free(j)
  /\ Finish(j)
  /\ UNCHANGED <<mix, fallback, key, made, asked, walk, moved>>

RemoveKey(k) ==
  /\ k \in Stored /\ Ask
  /\ key' = [key EXCEPT ![k] = None]
  /\ Touch(None, key[k].account, NoJob, {k})
  /\ UNCHANGED <<mix, fallback, made, walk>>

(***************************************************************************)
(* Walking them.                                                           *)
(***************************************************************************)

(* loadDecryptedKeys, its first statement: inside an organisation the        *)
(* organisation pays first.                                                  *)
BeginWalk(w, p, ns, v) ==
  /\ walk[w].at = "idle"
  /\ walk' = [walk EXCEPT ![w] = [NoWalk EXCEPT !.at = "loading", !.actor = p, !.provider = v,
                                    !.chain = IF ns = Org THEN Usable(Org, v) ELSE <<>>]]
  /\ moved' = [moved EXCEPT ![w] = {}]
  /\ UNCHANGED <<mix, fallback, key, made, job, asked>>

(* Mutant of Chained: the caller pays first.                                 *)
Chained_OwnFirst(first, own) == own \o first

Chained(first, own) == first \o own

(* Its second: the caller's own keys follow. The chain is narrowed to the    *)
(* platform the call is for, if any, and an empty one may get the built-in   *)
(* key.                                                                      *)
LoadOwn(w) ==
  /\ walk[w].at = "loading"
  /\ LET whole == Chained(walk[w].chain, Usable(walk[w].actor, walk[w].provider))
         chain == IF whole = <<>> /\ fallback THEN <<BuiltIn>> ELSE whole
     IN walk' = [walk EXCEPT ![w].chain = chain,
                             ![w].at = IF chain = <<>> THEN "failed" ELSE "trying"]
  /\ moved' = [moved EXCEPT ![w] = @ \ {walk[w].actor}]
  /\ UNCHANGED <<mix, fallback, key, made, job, asked>>

(* Mutant of AfterFailure: a bad request burns the next key. *)
AfterFailure_IgnoresRequest(kind, retry) ==
  IF kind \in RetrySameKey /\ retry < MaxAttempts - 1 THEN "retry" ELSE "advance"

(* The three ways on after a failure. *)
AfterFailure(kind, retry) ==
  IF kind \in FatalForChain THEN "stop"
  ELSE IF kind \in RetrySameKey /\ retry < MaxAttempts - 1 THEN "retry" ELSE "advance"

(* One attempt of runWithKeyFallback, with the backoff before the next. *)
Attempt(w, reply) ==
  /\ walk[w].at = "trying"
  /\ LET kind == KindOf[reply]
         on   == AfterFailure(kind, walk[w].retry)
         last == walk[w].next = Len(walk[w].chain)
     IN walk' = [walk EXCEPT
          ![w].log   = Append(@, [key |-> walk[w].chain[walk[w].next], kind |-> kind]),
          ![w].retry = IF kind # "SUCCESS" /\ on = "retry" THEN @ + 1 ELSE 0,
          ![w].next  = IF kind # "SUCCESS" /\ on = "advance" /\ ~last THEN @ + 1 ELSE @,
          ![w].at    = IF kind = "SUCCESS" THEN "answered"
                       ELSE IF on = "stop" \/ (on = "advance" /\ last) THEN "failed" ELSE @]
  /\ UNCHANGED <<mix, fallback, key, made, job, asked, moved>>

Result(entry) == IF entry.kind = "SUCCESS" THEN "none" ELSE entry.kind

(* Mutant of RecordAttempt: a key that has no row holds the call up.         *)
RecordAttempt_NeedsRow(w) ==
  /\ walk[w].at \in {"answered", "failed"} /\ walk[w].recorded < Len(walk[w].log)
  /\ LET entry == walk[w].log[walk[w].recorded + 1] IN
       entry.key \in Stored /\ key' = [key EXCEPT ![entry.key].error = Result(entry)]
  /\ walk' = [walk EXCEPT ![w].recorded = @ + 1]
  /\ UNCHANGED <<mix, fallback, made, job, asked, moved>>

(* recordKeyAttempts, one update: the built-in key is skipped, and a key     *)
(* removed since is not found.                                               *)
RecordAttempt(w) ==
  /\ walk[w].at \in {"answered", "failed"} /\ walk[w].recorded < Len(walk[w].log)
  /\ LET entry == walk[w].log[walk[w].recorded + 1] IN
     key' = IF entry.key \in Stored
              THEN [key EXCEPT ![entry.key].error = Result(entry)] ELSE key
  /\ walk' = [walk EXCEPT ![w].recorded = @ + 1]
  /\ UNCHANGED <<mix, fallback, made, job, asked, moved>>

EndWalk(w) ==
  /\ walk[w].at \in {"answered", "failed"} /\ walk[w].recorded = Len(walk[w].log)
  /\ walk' = [walk EXCEPT ![w].at = "ended"]
  /\ UNCHANGED <<mix, fallback, key, made, job, asked, moved>>

(* A read of keys or an update of one that fails ends the call: what was not *)
(* recorded yet of its keys stays unrecorded.                                *)
StatementFails(w) ==
  /\ \/ walk[w].at = "loading"
     \/ walk[w].at \in {"answered", "failed"} /\ walk[w].recorded < Len(walk[w].log)
  /\ walk' = [walk EXCEPT ![w].at = "ended"]
  /\ UNCHANGED <<mix, fallback, key, made, job, asked, moved>>

WalkStep(w) ==
  LoadOwn(w) \/ (\E reply \in Reply[mix] : Attempt(w, reply)) \/ RecordAttempt(w) \/ EndWalk(w)

(* Bound: keys are added to and reordered on two accounts, and added on one  *)
(* platform: those of another account are never read with them. The          *)
(* identifiers of new keys are interchangeable.                              *)
Next ==
  \/ \E j \in Job :
       \/ \E a \in {Org, Caller} :
            BeginReorder(j, a) \/ \E wanted \in {None, 1} : BeginAdd(j, a, wanted)
       \/ /\ Key # Members(made)
          /\ InsertKey(j, CHOOSE k \in Key \ Members(made) : TRUE, Called)
       \/ \E k \in Key : BeginUpdate(j, k)
       \/ SaveKey(j) \/ EndJob(j)
       \/ \E i \in 1..Len(job[j].list) : ReorderOne(j, i)
  \/ \E k \in Key : RemoveKey(k)
  \/ \E w \in Walk :
       \/ \E p \in Person, ns \in Account, v \in Provider \cup {None} :
            /\ p = Caller /\ v \in {Called, None} /\ ns \in {p, Org}
            /\ BeginWalk(w, p, ns, v)
       \/ WalkStep(w) \/ StatementFails(w)

Spec == Init /\ [][Next]_vars

(* A vendor call ends, by its answer or its deadline (the deadline covers    *)
(* the headers; a body that stalls is left to the runtime's own limit), and  *)
(* the code between two of them runs on; nothing makes a statement fail.     *)
FairSpec == Spec /\ \A w \in Walk : WF_vars(WalkStep(w))

(***************************************************************************)
(* Properties.                                                             *)
(***************************************************************************)

TypeOK ==
  /\ mix \in Mix
  /\ fallback \in BOOLEAN /\ asked \in Nat /\ moved \in [Walk -> SUBSET Account]
  /\ key \in [Key -> Row \cup {None}]
  /\ made \in Seq(Key) /\ \A k \in Stored : k \in Members(made)
  /\ \A j \in Job : /\ job[j].kind \in {"none", "add", "update", "reorder"}
                    /\ job[j].count \in 0..MaxKeys
  /\ \A w \in Walk : /\ walk[w].at \in {"idle", "loading", "trying", "answered", "failed", "ended"}
                     /\ walk[w].chain \in Seq(Key \cup {BuiltIn})
                     /\ walk[w].retry \in 0..(MaxAttempts - 1)
                     /\ walk[w].recorded \in 0..Len(walk[w].log)

Tries(w, k) == {i \in 1..Len(walk[w].log) : walk[w].log[i].key = k}
Kinds(w) == {walk[w].log[i].kind : i \in 1..Len(walk[w].log)}

(* The keys a walk has given up on: those before the one it is at, and all   *)
(* when it failed for no bad request.                                        *)
GivenUp(w) ==
  {walk[w].chain[i] : i \in 1..(walk[w].next - 1)}
    \cup (IF walk[w].at = "failed" /\ Kinds(w) \cap FatalForChain = {}
            THEN Members(walk[w].chain) ELSE {})

(* The two rules of keyFallback.js: a request that is malformed, or an       *)
(* answer, is the last thing a chain sees, and a key is given up on only for *)
(* an error another key could survive, after the attempts a transient error  *)
(* is due and not one more.                                                  *)
WalkIsFair ==
  \A w \in Walk :
    /\ \A i \in 1..Len(walk[w].log) :
         walk[w].log[i].kind \in FatalForChain \cup {"SUCCESS"} =>
           i = Len(walk[w].log) /\ walk[w].at # "trying"
    /\ \A k \in GivenUp(w) :
         LET tries == Tries(w, k) IN
         /\ tries # {} /\ Cardinality(tries) <= MaxAttempts
         /\ \/ Cardinality(tries) = MaxAttempts
            \/ \E i \in tries : walk[w].log[i].kind \notin RetrySameKey

(* Whose key k is, for as long as it is stored.                              *)
Payer(k) == IF k \in Stored THEN key[k].account ELSE None

(* "Inside an organization the organization's credentials are tried first    *)
(* and the member's personal credentials come after them. A member never     *)
(* reaches another member's keys" (accountKey.service.js).                   *)
PayersInOrder ==
  \A w \in Walk : \A i \in 1..Len(walk[w].chain) :
    /\ Payer(walk[w].chain[i]) \in {Org, walk[w].actor, None}
    /\ Payer(walk[w].chain[i]) = Org =>
         \A h \in 1..i : Payer(walk[w].chain[h]) \in {Org, None}

(* Within an account, the order its keys were in when the call read them.    *)
ChainsInOrder ==
  \A w \in Walk : \A h, i \in 1..Len(walk[w].chain) :
    LET first == walk[w].chain[h]
        next  == walk[w].chain[i] IN
    h < i /\ Payer(first) = Payer(next) /\ Payer(first) \notin moved[w] \cup {None}
      => Before(first, next)

(* The parts that hold in every state, as one invariant: who pays for a call *)
(* and in which order, whatever keys are added, changed, reordered and       *)
(* removed before the call, between its two reads and while it runs.         *)
KeysSound == TypeOK /\ PayersInOrder /\ ChainsInOrder

(* A reorder that names every key once, and that no other change overlapped, *)
(* leaves the chain in the order it was given, whatever order its updates    *)
(* ran in.                                                                   *)
ReorderedAsAsked ==
  \A j \in Job :
    job[j].kind = "reorder" /\ job[j].todo = {} /\ job[j].fresh
      /\ Cardinality(Members(job[j].list)) = Len(job[j].list)
    => Listed(job[j].account) = job[j].list

(* Every provider call ends, whatever its keys answer and whether or not     *)
(* they are still stored when what happened to them is recorded.             *)
WalkEnds == \A w \in Walk : walk[w].at = "loading" ~> walk[w].at = "ended"
=============================================================================
