# LXTranslator server: specifications

TLA+ specifications of the LXTranslator server (`src/src`), the TLC
configurations that check them on small instances, and TLAPS proofs of what the
models promise on every instance. The server is one Node process: an Express
application over Sequelize (SQLite in development and tests, PostgreSQL in
production) and a pool of worker threads that run the translation pipeline.

Paths below are relative to the repository.

## 1. Inventory

### Components

| Component | State | Operations | Talks to |
| --- | --- | --- | --- |
| Worker pool (`workers/pool.js`) | slots, queue, pending promises, started, draining | `run`, the task timer, `message`, `error` and `exit` listeners, `shutdown` | threads by messages; called by files |
| Pipeline (`workers/pipeline.js`, `core/jsonTree.js`) | none (one job) | flatten, translate to English, fingerprint, fan out | key fallback, providers |
| Files (`modules/files`) | `files`, `translation_keys`, `translations` | upload, add languages, retranslate, merge, reprocess, delete | pool, credentials, database |
| Translations (`modules/translations`) | the same tables | correct a row, correct a master text; export and consistency (read-only) | database |
| Assistant turns (`modules/chat/chat.service.js`) | one turn: messages, step count | `converse`: the loop of provider call and tools | key fallback, every service through tools |
| Turn log (`modules/chat/chatLog.service.js`) | buffer, flushing, retry timer, counters; `ai_chat_logs` | `record`, `flush`, `scheduleRetry`, `nextTotal` | database, embeddings |
| Conversations (`modules/chat/chatSession.service.js`) | `ai_chat_sessions` | open, record a turn, rename, delete | database |
| Key fallback (`infrastructure/ai/keyFallback.js`) | one chain: position, retries, attempts | `runWithKeyFallback` | providers |
| Credentials (`modules/accountKeys`) | `account_api_keys`: priority, status, failures | add, update, reorder, remove, load, record attempts | database, secret box |
| Organisations (`modules/orgs`) | memberships and roles | create, add, change role, remove, delete | database |
| Namespaces, projects, export formats | accounts, projects, formats | resolve access, create, update, languages across files | database, files |
| Sign-in (`modules/auth`) | sessions, action tokens, lockout, challenges, recovery codes, OAuth states, identities | login, reset, second factor, link, revoke, purge | database, mailer |
| Usage (`modules/usage`) | buffer, timer; `api_usage_logs` | `record`, `flush`, `stopFlushing`, purge | database |
| Process (`index.js`) | purge timer, shutting down | start, shutdown, exit on unhandled rejection | pool, usage, database |
| Mailer, adapters, middleware, configuration | none that changes | I/O, validation, formatting | outside |

### Interactions

* A file request loads the file, its project and its namespace
  (`file.routes.js:30-43`), starts `processFile` without awaiting it and
  answers. The run then outlives its request. It marks the file, loads the
  credentials, calls `translationPool.run`, and writes the result in one
  transaction. The record's `status` is the only report of its outcome.
* `translationPool.run` queues a job and returns a promise. A thread receives
  the job by `postMessage`, calls the providers through the key fallback, and
  posts one answer. The promise is settled by the answer, the timer, the
  thread's death or a shutdown, whichever comes first.
* An assistant turn reads its conversation's last rows, calls a provider and
  tools for as long as it takes, and records its entry in a process-wide
  buffer. A single flush at a time writes the buffer to the database.
* Everything on the main thread runs to its next `await` without interruption.
  Worker threads, the database and the providers run beside it.

### What is hard, and what correct means

* **Pool.** Four parties race to settle a promise, and a slot outlives a timed
  out job, a dead thread and a shutdown in different ways. Correct: each promise
  settles exactly once and for a cause; no job is lost, run twice or left
  waiting beside an idle slot; a crash costs no capacity.
* **Files.** Runs overlap with each other, with reviewers, with deletion and
  with restarts, and each works on an instance read at its request. Correct: the
  status settles, the key count is right, a run leaves nothing stale, nothing
  survives deletion, and corrections and uploaded texts survive reruns.
* **Turn log.** The buffer changes during the insert of its own head, inserts
  fail, conversations disappear. Correct: counters add up, order is kept,
  failures lose nothing, entries are written in the end, totals grow.
* **Credentials and fallback.** Retries and fallback must spend each key as its
  last error allows; priorities must stay an order under add, remove, reorder.
* **Organisations.** Owners act at once; one must always remain.
* **Sign-in.** Single-use tokens, codes, states and challenges presented twice
  at once; lockout counters read and written apart; revocation racing use.
* **Usage and shutdown.** A bounded buffer, batches, and a last flush that must
  not be skipped because another is under way.

`PROJECT.json` lists every component under `components` and each hazard at its
line under `hazards`, with the properties that cover it or why none does.

## 2. Modules

| Module | Models |
| --- | --- |
| `TaskService` | what `run` promises a caller: an abstract specification without threads |
| `TranslationPool` | `pool.js` and `translation.worker.js` |
| `TranslationPoolProofs` | the inductive invariant of the pool, its safety theorems, and that it implements `TaskService` |
| `TranslationFile` | one file: `file.service.js`, `file.routes.js`, `translation.service.js`, what `pipeline.js` does to keys and locales |
| `TranslationFileProofs` | its invariants and the two rules of what a run leaves |
| `ChatLog` | `chatLog.service.js`, the frame of a turn in `chat.service.js`, conversations |
| `ChatLogProofs` | its counters, its order, and that failed inserts lose nothing |
| `Organisation` | `org.service.js` and the access resolution and routes in front of it |
| `NamespaceContent` | extends `Organisation` with projects, languages of their files and export formats |
| `NamespaceContentProofs` | owners, cascades and valid rows, of both modules |
| `ProviderKeys` | `accountKey.service.js`, `keyFallback.js`, `providerError.js`, `vendorRequest.js`, what the adapters throw |
| `OneTimeUse` | what every single-use token, challenge and state promises: an abstract specification |
| `SignIn` | one account: `auth.service.js`, `session.service.js`, `token.service.js`, `apiToken.service.js`, `account.service.js`, challenges |
| `ProviderSignIn` | extends `SignIn` with `oauth.service.js`; implements `OneTimeUse` |
| `ProviderSignInProofs` | the invariants of both modules, the rule of the failure counter, and that they implement `OneTimeUse` |
| `SecondFactor` | the factor itself: `mfa.service.js` without its challenges, `totp.js` |
| `SecondFactorProofs` | that a factor was proved and no code passes twice |
| `AssistantTools` | every tool of `modules/chat/tools` that changes something |
| `AssistantTurn` | extends `AssistantTools` with `converse`, the loop that calls them |
| `AssistantTurnProofs` | its invariants and the rule of who may change what |
| `UsageLog` | `recordUsage.js`, `usage.service.js`, the shutdown sequence of `index.js` |
| `KeysAndUsageProofs` | of `ProviderKeys`: who pays, which keys are given up, what a reorder leaves; of `UsageLog`: its counters and order, and what a shutdown leaves |
| `MC...` | the instance of each for TLC: functions a cfg cannot write, and symmetry |

Composition is by `EXTENDS` where two parts share state: content needs the
memberships that gate it and falls with the organisation, a provider sign-in
passes the gate of a password sign-in, a turn owns the context its tools change.
Where one part only relies on a promise of another the models are separate:
`TranslationFile` uses of the pool what `TaskService` promises, and
`AssistantTurn` hands to the log one row, which is what `ChatLog` calls a turn.

Two conventions hold throughout. A request is a slot (`req`, `job`, `run`) that
advances by one action per database statement, together with whatever runs on
the main thread before its next `await`; the slot's fields are what it has read.
And a *history* variable (`raced`, `tainted`, `overlapped`, `held`, `moved`, ...)
records that a read was out of date when it was written from, so that a property
can be stated for every behaviour but those. An `update` of a Sequelize instance writes
only the attributes that differ from what the instance loaded, and every module
that saves an instance models that.

### TranslationPool

`workers`, `taskId`, `queue`, `pending`, `started` and `draining` are the pool's
fields. A slot's `busy` and `taskId` change together, so `taskId # NoTask` stands
for `busy`. `outcome[t]` is the promise of job `t`. `phase`, `given`, `answer` and
`inbox` are the threads and their ports: what was posted to each, what it
answered, which answers are not yet delivered.

Each listener is one action together with everything it calls: `Message` is
`settle`, the freed slot and `drain`; `Error` is `settle` and `replace`, which
spawns and drains; `Run` may `start`. `shutdown` is two actions on either side
of its `await`, and its threads exit in between. `drain` is stated by its result
(the longest prefix of the queue goes to the first idle slots, in order) rather
than as a loop.

Threads and jobs are numbered in the order they are created, which is the order
of `this.workers` and of `this.queue`. A thread whose `error` event was delivered
still emits `exit`; Node empties a thread's port before `exit`, but not before
`error`, so `Message` of a dead thread may come after `Error`.

### TranslationFile

`status`, `targets`, `keyCount` are the record; `key`, `kept`, `row` the keys and
translations. A text stands for its own SHA-256 fingerprint. A translation is
abstracted to the master text it translates, whether it is flagged manual, and
whether a person wrote it.

`run[r]` goes from `asked` (the request has loaded the file) through `queued`
(`processFile` was called), `working` (the file is marked), and on PostgreSQL
`saving` (the transaction has read), to `Over`; or to `saved`, when recording the
attempts will fail after the commit, and the catch is still to come. Every write
of the record compares with the instance the run holds, not with the database.
`Fail` is the catch of `processFile`, which any statement of the run may reach;
`FailUnreported` is the catch that fails in turn: recording the attempts throws, or
the update that would write FAILED is refused and `.catch(() => {})` swallows it.
The history `unreported` says that the last run to end left no word of it; a run
that reports later clears it. `clashed` is the rows whose last correction was
written over another row than the one the reviewer had read.

SQLite serialises transactions, so there `Persist` is one step. On PostgreSQL a
transaction runs at READ COMMITTED, so `BeginPersist` reads and `Persist` writes
later; a creation that meets a row committed in between violates a unique index
and the run fails. `Dialects` chooses which databases an instance considers.

`Restart` is `process.exit(1)` after an unhandled rejection, or any other end of the
process: runs in memory are gone, rows are not, and nothing looks for files left
PROCESSING. A catch whose recording throws ends in this way too, but not at once in
the model: other runs may take a step before the handler is called.

### ChatLog

`record` always runs to the first `await` of the flush it starts, so `Answer`
contains `nextTotal`, the overflow, the push and the start of an insert. `writing`
is the entry whose insert is awaited; `WriteSucceeds` and `WriteFails` are the two
continuations, each up to the next insert or the end of the flush. `table` is the
set of rows, each a turn with its id; ids are handed out in the order of the inserts.
A turn uses one token. `overtaken` says that an overflow has dropped the very entry
that was being written: from then on only the sum of the counters is right (one entry
is counted twice, another not at all), and until then `EntriesAccounted` ties every
entry to one place, its promise and its count.

### Organisation, NamespaceContent

`org` and `role` are the account row and the memberships. `Create` and `Found` are
the two inserts of `createOrganization`. A request reads the caller's role in the
middleware (`Begin`), loads the row it names (`LoadInvitee`, `LoadMember`), counts
the owners where the code does (`Count`) and writes (`WriteInvitee`, `WriteRole`,
`WriteRemoval`); `Cut` is a statement that fails. Leaving is removing oneself.
`raced` is set when a write relied on a count or a row no longer true.

`project`, `format` and `langs` are the rows of `NamespaceContent`. A new project's
name is looked up (`BeginCreateProject`) one statement before it is inserted
(`InsertProject`), and the unique index has the last word. `BeginUpdateProject` and
`SaveProject` are either side of a load, and the platform and the model are two
columns: an update of one is checked against the loaded other. `BeginLanguages`
walks over the files of the projects it names, loading and saving one after the
other. `DeleteNamespace` is the `DELETE` with its cascades. `mix` restricts a
behaviour to requests of one sort, since those of different sorts meet only in the
deletion.

### ProviderKeys

`key[k]` is a row; `made` the order of `created_at`, which breaks ties of priority.
`BeginAdd` counts, `InsertKey` inserts with the priority computed from the count;
`BeginReorder` reads the list and `ReorderOne` is one of the updates that run side
by side; `BeginUpdate` and `SaveKey` an update, which drops the recorded error with
a new secret; `RemoveKey` a removal. `walk[w]` is a call of `runWithKeyFallback`:
`BeginWalk` and `LoadOwn` are the two reads of its chain, `WalkStep` is one attempt or
one recorded outcome, and `StatementFails` a read or a recording update that throws and
ends the call with the rest unrecorded. Every request may come at any point of a walk.
`moved[w]` is the accounts whose keys have changed since the walk read them.
`KindOf` is the table from a vendor's answer to a category, assembled from what
`kindFromTransportError`, `kindFromStatus`, the checks of the body and the adapters
return; `fallback` is whether the development key may end a chain. What a query with
`order` returns is stated by its result: `Sorted(S)` is an arrangement of the keys in `S`
by priority, then age, and the proofs show that there is exactly one.

### SignIn, ProviderSignIn, OneTimeUse

`account` is the row, `session`, `token` and `challenge` the tables of one account.
A sign-in is `Login`, `Gate` (`completeSignIn`), `Clear` and `Issue`, or `Mint`, `Answer`,
`Attempt`, `Spend` with a second factor; `Fail` is `registerFailedAttempt`; a reset is
`ResetPassword`, `Rewrite`, `DropTokens`, `DropSessions`. `Save` is the save of a
copy. `history` keeps the failures since the last success, whether the counter had a
chance to be exact (`exact`), and whether a change of the password was cut (`torn`).
The factor is a flag here; how a code is checked is `SecondFactor`.

`ProviderSignIn` adds `state`, the rows of flows, and `identity`, the links.
`Callback` consumes the state; `Link` and `FindIdentity` follow, and a sign-in goes
to `Gate` like any other.

`OneTimeUse` has two variables: what is open, and how often each thing was accepted.
A thing may be issued once, withdrawn, or used once. The mapping of
`ProviderSignIn` takes tokens, challenges and states together.

### SecondFactor

`mfa` is the row, known by the secret it was created with; a code is a pair of
secret and time step, and `now` the current step. `BeginEnrolment` and `Enrol`,
`BeginConfirm`, `Verify`, `Spend` and `Confirm`, `Regenerate`, `Clear` and `Insert`,
`BeginDisable`, `DropCodes` and `DropRow` are the statements of enrolment,
confirmation, regeneration and removal; `BeginVerify` and `SpendRecovery` those of a
code presented at sign-in. Spending a step is one conditional update.

### AssistantTools, AssistantTurn

`call` is the tool call in hand. A tool that takes many projects resolves and writes
them one after the other; one action per awaited write, access resolved where the
code resolves it. `context` is the object the tools share: the namespace and the
role in it, the attachment, and with `downloads` what the answer will offer. `Around`
is what somebody else does meanwhile: the role changes, a project or file is
deleted, a run ends. `held` is the namespaces where the person was ADMIN at some
time since the call was dispatched, the most a call may rely on, because a check and
the write it protects are never one statement. `Widen` takes all files of a project in
one step, where the code awaits one update per file: nobody else's change falls
between two files of one project.

`Pass` is a call of the provider and what the loop makes of its reply, `Handled` a
result that was returned to it, `GiveUp` a pass that threw: no credential answered, or
one did and how it fared could not be recorded, so that it was paid for and the turn
fails. `turn.spent` is `totalTokens`, what a reply cost is any number `Usage` admits, and
the history `paid` says whose credentials paid: those of the chain that was loaded
before the first pass, the namespace's and then the person's own. (The built-in
development key, which belongs to nobody, is not in this chain.) The tools called
are any list: which one comes next is chosen when it is dispatched, since nothing
looks at it before.

### UsageLog

`Responds` is the listener of `recordUsage`, which the response may call twice and
answers once; `Tick` the interval; `InsertEnds` the continuation of `flush`, which
either writes the next batch or ends. A batch leaves the buffer before its insert
and a failed one is not put back; `batch[w]` is the insert that flusher `w` (the
interval or a signal) awaits, `InFlight` what is in them. `Signalled`, `StopFlushing`, `Flushed`,
`CloseDatabase` and `Exit` are the stages of `shutdown`, for each signal on its own;
`TimeOut` is the fifteen-second backstop. What every specification has (its variables,
initial states, steps) is named with the prefix `Usage` here, since the module of its
proofs also extends `ProviderKeys`.

## 3. Runs

| Run | Instance | Shows |
| --- | --- | --- |
| `pool` | 3 jobs, size 2, 4 threads, 1 crash | type invariant, five safety properties, refinement of `TaskService`, every promise settles |
| `files` | 2 names, 2 locales, 2 texts; 3 runs on SQLite, or 2 with a restart and unrecorded attempts on PostgreSQL; 1 correction; failing catches | status settles unless unreported, key count, no orphans, corrections kept, nothing stale |
| `chat_log` | 3 turns, 2 conversations, buffer of 2, 2 failing inserts | counters, order, failures lose nothing, every entry is written |
| `chat_log_loss` | 2 turns, buffer of 1 | **violation**: `NeverLostQuietly` |
| `namespaces` | 3 people, 2 requests, 2 jobs, 2 projects and names, 2 platforms of 3 models, 1 format, 2 locales | owners are kept and only owners make owners; cascades; unique names; rows stay valid |
| `organisation_owner` | the same | **violation**: `OwnerKept` |
| `keys` | 3 keys of which 2 at the start, 2 people, 1 walk, limit 2; 2 overlapping requests, or 1 with 2 platforms, 4 answers, 2 attempts | payers and keys in order whatever changes around the reads, each key spent as its errors allow, a reorder is what was asked, a walk ends |
| `sign_in` | 2 jobs, 2 sessions, 2 tokens, 1 challenge, 3 states, 2 identities, ceilings of 3 and 2 | counter and lock, single use (refinement of `OneTimeUse`), a change ends old access, links belong to who began them |
| `second_factor` | 2 jobs, 2 secrets, 2 sheets of 2 codes, 4 time steps, drift 1 | a confirmed secret was proved, one sheet works, no code passes twice |
| `assistant` | 1 organisation, 2 projects, 3 files, 3 locales, 2 passes, 3 calls, 1 outside change, replies that cost 0 or 1 | rights at each write, a refusal changes nothing, offers distinct, who paid and how much is what the row says, the turn ends |
| `assistant_rights` | the same | **violation**: `CreatedWithRights` |
| `usage` | 4 requests, buffer 3, batch 2, 1 failing insert, 2 signals | counters, order, the last flush, entries leave |

Each violation run refutes a sentence of the repository, quoted under `findings`
in `PROJECT.json` with what the code does instead:

* an overflow during an insert makes the log's flush discard an entry nobody counts;
* two requests that each count two owners leave an organisation with none;
* a tool that creates in the namespace of the conversation acts on the role that
  was read when the turn began, not on the role at the call.

The remaining findings were met while modelling and have no run. The models take the
code as it is: `ThreadAssumption` allows for the extra threads of a crash, the file
model overwrites a correction an older run did not see and leaves a file PROCESSING
when its report is refused, and `CorrectionKept`, `OwnerKeptUnlessRaced`,
`RowsValidUnlessOverlapped`, `ReorderedAsAsked`, `FactorSound`, `EndedByChange` and
`DrainedUnlessOverlapped` state what the code does guarantee, each naming the overlap
it excepts.

### Bounds and why they suffice

* **Pool.** Size 2 gives an idle and a busy slot at once. Three jobs keep one
  queued behind two busy threads, which every queue property needs. One crash
  costs two further threads (`error` and `exit`), hence four:
  `ThreadAssumption` asks for `Size + 2 * MaxCrashes`, so that a spawn never
  fails for want of a name. The theorems cover the other values.
* **Files.** Three runs are what two merges after an upload need (the case for
  `KeyCountExact`); two names and two locales distinguish "all" from "those
  asked for"; two texts distinguish stale from fresh. What PostgreSQL, a restart
  and unrecorded attempts add appears with two runs, which keeps the product
  small: `RunBound`, `RestartBound` and `UnrecordedBound` give the bound per
  database. The upload is not English, the general case: its master is the
  result of a translation, any text.
* **Chat log.** A buffer of two overflows with three turns while its head is being
  inserted; two failures cover a failing retry; two conversations separate a
  deleted one from a live one.
* **Namespaces.** Three people are two owners and one who is neither; two requests
  are what a stale count needs. Two projects and names make a collision, two
  platforms of two and one models a pair that is not offered. `MaxFormats` is 1, the
  ceiling at its smallest.
* **Keys.** Two keys in place and a third identifier under a ceiling of two give a
  removal followed by an insertion beside a key that stayed. `mix` has two settings.
  In `order` two requests, by two jobs, add, remove and reorder keys or change the
  priority of one, anywhere around the reads and the walk; what a key answers does not
  matter to the order, so each answers. In `failure` one request adds or removes a key,
  or changes its secret or its activity, at any point, one key may be of another
  platform, and `Reply` has one answer of each treatment (success, next key, retry,
  fatal); the others of `KindOf` differ only in the category recorded. Two attempts
  distinguish a retry from the last one. What the settings leave out is a reorder or a
  second request around a walk that also fails: the walk looks at no row between its
  reads and its records, so it goes the same way. One call walks, from one person. A
  request takes the first free slot (`Slot`), which does what symmetry would, since
  the run has a liveness property.
* **Sign-in.** Two requests at once; a ceiling of two attempts, so that a counter is
  read below, at and past its limit, and of three failures: with two, a failure counted
  from a copy that others have counted past always locks the account, and
  `CounterFallsOnlyByProof` would hold without the exception it needs, that such a
  failure may write a lower counter than the one it finds. One change of the password
  separates before from after. `mix` separates guessing from changing and from
  providers, to keep the product small. It is a real restriction: guessing and changing
  the password both write the account row, each behaviour has its own way to save over
  the other (a stale copy), and a failure counted while a password is being changed is
  in none. Three states are a flow of each account and one
  in reserve.
* **Second factor.** Four steps with a drift of one are a code of the past, of now,
  of the future and one that has expired. Two sheets make a regeneration.
* **Assistant.** Two passes are a reply that calls tools and one that answers, or the
  ceiling; three calls fill and overflow two offers. One outside change may come at
  any point. `mix` separates tools that write different rows. Replies cost 0 or 1 in the
  behaviours about exports, in which the model may switch the namespace between its two
  passes: a reply left out of the total, counted twice or put to another namespace
  shows; elsewhere they cost nothing, and nothing there looks at what they cost.
* **Usage.** A buffer of three and batches of two leave a remainder and overflow with
  four requests.

Symmetry is used in `files`, `namespaces`, `organisation_owner`, `sign_in` and
`second_factor`, over identifiers of which no constant or `CHOOSE` singles one out;
none of these has a liveness property. Deadlock checking is off in every run: each
bound is finite, so each model stops when its jobs, calls or identifiers are used up.

### Fairness

* `TranslationPool.FairSpec`: weak fairness of the listeners (Node delivers
  events that are pending) and of the threads' replies (providers carry a request
  timeout and the pipeline's loops are bounded). Timers are **not** assumed to
  fire, so `EveryJobSettles` shows that the timer is needed only for pipelines
  that hang. Fairness is of the disjunctions `Events` and `Replies`, each of
  which is bounded, rather than of each listener.
* `ChatLog.FairSpec`: an insert that was started ends, and a timer that is set
  fires. `MaxFailures` bounds the failing inserts, that is, the database recovers.
* `ProviderKeys.FairSpec`: each walk takes its steps. A vendor call ends by its
  answer or by the abort timer of `vendorRequest.js`, and the rest is code. A statement
  that fails ends the walk as well, but nothing is assumed to fail. That timer
  is cleared when the headers arrive: a body that then never ends is cut by the
  runtime's own limit on a silent connection, which is assumed here.
* `AssistantTurn.FairSpec`: the turn takes its steps; what other people do is not
  assumed to happen. Its call of the provider ends as a walk does.
* `UsageLog.FairSpec`: the interval fires while it is set, and an insert ends.
  Neither a response nor a signal need come.
* `TranslationFile`, `NamespaceContent`, `ProviderSignIn` and `SecondFactor` check
  safety only: a request of theirs may stop at any statement.

## 4. Proofs

Eight modules hold proofs, each of the component whose name it begins with
(`KeysAndUsageProofs` of two, which share no state); together they prove every safety
invariant and every action property that a passing run checks, and both refinements. A
theorem is about the same
formula the run checks, for every value of the constants that satisfies the assumptions
its module declares. Each specification has one inductive invariant (`Inv`; `OrgInv` and
`ContentInv` for the two layers of a namespace, `KeysInv` and `UsageInv` where one module
proves both), shown to hold initially and to be kept
by every action; the theorems follow from it.

The assumptions name what the code takes for granted: limits are positive (or numbers),
identifiers of different tables are different, the values that stand for "no row" are
no rows, the registry's default model is one of the platform's models, and the sets
that are counted are finite. Two say more. `ThreadAssumption` asks for enough thread
names (section 3). `CeilingAssumption` asks for `MaxFailed` of at least two; the
configuration admits 3 to 20 (`config/index.js:187`).

### TranslationPoolProofs

    Inv == TypeOK /\ CoreInv /\ LifeInv /\ PendingInv /\ WorkConserving

* None of the properties is inductive. That a thread has one unanswered job needs
  that an undelivered answer (`inbox`) is for the job its slot still holds, which
  needs that a job was given to one thread only, which needs that the queue holds
  each job once and no job that was ever given.
* `CoreInv` states these together, as a predicate of the slots, what they hold,
  the queue and what was given. `drain` is called at the end of handlers that
  have already changed some of these, so `Core` takes them as arguments:
  `DrainLemma` says what `drain` leaves, `DrainCore` that it preserves `Core`,
  and each handler proves only that what it hands to `drain` satisfies `Core`.
* `LifeInv` says that a thread not spawned has no history and that only during
  shutdown does a slot outlive its thread: with it, a replacement thread cannot
  be given what an old one had.
* `PendingInv` says that `this.pending` is exactly the waiting promises, which is
  what makes `settle` a no-op for late answers.

`InvStep` has one lemma per handler. `CapacityKept` is proved beside `Inv`, not in
it: `ReplaceKeepsCapacity` counts slots. The refinement (`Refinement`) maps `closed` to
`draining` and `lost` to the jobs given to threads that have died; `StepMaps` goes
through the handlers again and shows that each changes the outcome of at most one job,
for a cause the abstract service allows.

### TranslationFileProofs

    Inv == TypeOK /\ NoOrphans /\ ReadyHasKeys /\ KeyCountExact /\ RunsOK /\ ReportDue
           /\ NotBegun /\ CorrectionsOK

A run works from an instance loaded long before. `RunsOK` says what of it is still
true when it is written: the instance of a run that works is marked PROCESSING, so
that whatever status the run ends with differs from it and is written (`MarkedOK`);
the keys a merge skips, and all that an open transaction has read, are stored for as
long as the file exists (`SkipsOK`, `ReadOK`), because until the deletion keys and rows
are only added (`Grown`); on SQLite no instance counts more keys than the record
(`CountOK`), without which a stale count could be written over a larger one and
`KeyCountExact` is not inductive. `ReportDue` is the promise behind `SettledWhenQuiet`:
somebody is still to report, unless the last run to end could not (`unreported`).
`CorrectionsOK` says that a row a person wrote is flagged and bears the fingerprint of
the text it translates, unless the correction clashed: that is what a run compares with.
`CorrectionKept` and `FreshAfterRun` are proved from the same invariant, action by
action, since only the step that ends a run satisfies their premise.

### ChatLogProofs

    Inv == TypeOK /\ CountersAddUp /\ FlushPending /\ RecordedOnce /\ BufferIsEnd
           /\ TotalsBounded /\ WritingOK /\ TableOK /\ NoneLost /\ HeadWritten /\ EntriesAccounted

The buffer is the end of the sequence of recorded turns, the rows are of turns before
it, and the entry being inserted is the head of the buffer or one that an overflow has
pushed out of it meanwhile (`WritingOK`). That exception is the finding of
`chat_log_loss`: `NothingLostByFailures` excludes overflows, and `NoneLost` is the
strengthening that holds without them. Until an overflow takes the entry being written
(`overtaken`) that entry is the head (`HeadWritten`), so what the flush shifts is what it
inserted, and `EntriesAccounted` is kept. A new row comes after every row there is because
the entry being written was recorded after all of them. That the highest total of some
rows exists is shown by a minimal counterexample (`WellFoundedInduction` on pairs of
numbers), as the library's induction rules cannot be instantiated here.

### NamespaceContentProofs

`OrgInv` adds to the memberships what a request has in hand (`RequestOK`): while no role
has changed since it read them, the row it loaded is the row, and if it is about to take
an owner away there are two owners. `OwnerKeptUnlessRaced` follows because every write
that breaks that condition sets `raced`. `OwnershipFromOwners` needs that a request grants
no more than the role it was let in with. `ContentInv` does the same for content:
while the row a job names is there and nobody wrote it, what the job loaded is the row,
so that a pair checked against it is a valid pair when it is saved; `SavedProject` and
`SavedFormat` say what an `update` of such an instance writes.

### ProviderSignInProofs

    Inv == TypeOK /\ JobsOK /\ HistoryOK /\ AttemptsOK /\ CounterExact /\ ChangeOK
           /\ UsesOK /\ LinkedByItsStarter

A copy of the account is never ahead of the row, and one nobody has counted past has its
counter (`JobOK`), which is what makes the counter exact where it is. `AttemptsOK` bounds the attempts on
a challenge by the ceiling and the requests still in flight. `ChangeOK` says that a
credential older than the password is left only while the change that will drop it runs,
or when one was cut. `UsesOK` relates the tables to `uses`, and with it each step maps to
one issue, use or withdrawal of `OneTimeUse`, or to a stutter. `CounterFallsOnlyByProof`
is the action property; its proof is where the exception for a stale copy was found.

### SecondFactorProofs

    Inv == TypeOK /\ JobsOK /\ FactorOK /\ CountersOK /\ SheetsOK /\ RecoveryOK /\ CodesAcceptedOnce

No accepted step of the stored secret is later than its counter, so a conditional
update that raises the counter accepts a step once; a recovery code that was accepted is
of a printed sheet and spent. `JobOK` and `SheetsOK` say what a request that nobody has
overlapped may rely on between its statements.

### AssistantTurnProofs

    Inv == TypeOK /\ OffersDistinct /\ CallOK(call) /\ RowsOK /\ RightsOK /\ PaidOK

`RightsOK` is what a call may rely on while it runs: its target, if it is still there,
lies where the person was ADMIN at some time since the call was dispatched; it is stable
because roles that are lost stay in `held`, a project never moves, and `RowsOK` (no file
outlives its project, nothing is there before it is created). `CallOK` says that a
running call that has changed something is a creation or a sweep that applied, which is
why a refusal cannot hide a change. `create_project` is excepted from `RightsOK`, as it is
from `ChangedWithRights`: it acts on the role read when the turn began, the finding of
`assistant_rights`. `PaidOK` keeps the total and what was paid in step: only the chain of
the namespace the turn was authorised against has paid, and until the turn is given up
the total is what that chain paid (`PaysLaw`, for one more reply). A turn that is given up
after a paid reply is not in step any more, and has no row.

### KeysAndUsageProofs

    KeysInv == Typed /\ AgesOK /\ WalksOK /\ PayersInOrder /\ ChainsInOrder /\ JobsOK

`WalkIsFair` speaks of the keys a walk has left behind, and it is not inductive: that a
key is left with as many attempts as it is due depends on `retry` having counted them,
and on the key not coming again further down the chain. `WalkOK` says so of one walk,
without a look at the table: the chain names no key twice; those before the current one
are spent (tried `MaxAttempts` times, or once with an error that no retry helps); the
current one was tried `retry` times, each with an error worth a retry; those after it were
not tried. `TriedLaw` shows that one attempt keeps this, whatever the vendor answers, and
no step of anybody else touches it.

`PayersInOrder` relates chains that were loaded at some time to rows that have changed
since. It is kept because of what the table never does (`RowsKept`): a key that is gone
does not come back, and no key passes to another account. `ChainOK` gives the rest: a
chain is made of keys that were stored once or of the built-in one, so that a key inserted
later is in none; and between the two reads of `loadDecryptedKeys` it holds keys of the
organisation only. Loading needs that `Sorted` returns what it was given
(`SortedLaw`). `ChainsInOrder` adds the order within an account: it is the order the
query returned, and stays the order of the rows for as long as no key of that account
changes (`moved`), since a key's age never does (`AgesOK`).

`ReorderedAsAsked` rests on `ReorderOK`: a reorder nothing has overlapped still names
exactly the keys of its account, and has given each key it is done with its place. When
all are done, the list it was given is an arrangement of the account's keys in the order
they are read in, and there is only one: `Before` orders the stored keys, since no two
have the same age (`BeforeLaw`), and a key's place in an ordered arrangement is the number
of keys that come before it. `UpdateOK` is what an update may rely on: unless the
row was removed after it was loaded (`gone`), it is there and on the same account, which
is why a changed priority cannot reach a reorder of another account.

The assumptions are that no person is the organisation, that the built-in key has no row,
that there are finitely many keys and some platform, and that `None` is none of them.

    UsageInv == UsageTypeOK /\ OneFlush /\ Recorded /\ Accounted /\ Ordered /\ AwaitedOK /\ StopOK /\ ExitOK

`OneFlush` says that the flag `flushing` stands for exactly one insert under way: then what
was recorded is written, dropped, buffered or in that insert, in this order. `StopOK` says
what a shutdown that overlapped no flush has left after each of its statements, from
which `DrainedUnlessOverlapped` follows.

### Only model-checked

* **Liveness** (`EveryJobSettles`, `EveryTurnIsWritten`, `WalkEnds`, `TurnEnds`,
  `EntriesLeave`): properties under fairness are out of the prover's reach.

## 5. Not modelled

* **Wording and data.** Texts of translations, placeholders, JSON paths, hashes
  as strings, prompts, errors' messages. Properties here do not tell them apart.
* **Consistency and export** (`modules/translations`): pure functions over rows that
  were read in one statement.
* **Embeddings.** Vectors attached to a written row by a best-effort call.
* **Batching in the pipeline** (`chunk`): batches of a run are translated in order
  and concatenated; a run succeeds or fails as a whole.
* **Targets that are the master locale.** `Lang` of `TranslationFile` is the locales a
  pipeline produces; the pipeline filters English out.
* **Files on disk.** The raw archive is written and never read back.
* **Ambiguous inserts.** A row that was written while an error is reported would be
  inserted again. The models take a failed insert as one without effect.
* **Buffered chat entries at exit.** The chat buffer is not flushed at shutdown; the
  module ends with the process.
* **Requests of different sorts in one behaviour**, where `mix` keeps them apart: a
  project renamed while a member is removed, an enrolment during a sign-in, a password
  guessed while it is changed. Only the last pair meets in a row.
* **Wall-clock time.** A lock that passes, a token that expires, a timer that fires
  is an action that may come at any moment.
* Single statements without a condition on other rows (renaming a conversation, a
  session or a profile), registration's unique indexes, lists and summaries.
* Mailer, middleware, configuration and core helpers: stateless or pure I/O.

## 6. Plan

Every safety property that a run checks is also a theorem, so what is left is breadth:

1. the progress of a chain of embeddings (`embedding.service.js`), if a turn comes to
   wait for them;
2. registration's unique indexes, as `NamespaceContent` has those of projects;
3. two walks that record outcomes of one key while it is changed, once an outcome
   decides more than what is displayed: today nothing reads the recorded error back.
