-------------------------- MODULE TranslationFile --------------------------
(***************************************************************************)
(* One uploaded file, from createUpload to deleteFile: its record, its     *)
(* master keys and its translations, the pipeline runs that write them     *)
(* (src/modules/files/file.service.js and file.routes.js) and the          *)
(* reviewers who correct them (src/modules/translations).                  *)
(*                                                                         *)
(* A handler is one action per stretch between awaits that other requests  *)
(* can tell apart. A request loads the record first and keeps that         *)
(* instance to the end; Sequelize writes only the attributes that differ   *)
(* from the instance, so what was read decides what is written.            *)
(*                                                                         *)
(* The fingerprint of a text is a SHA-256: a text stands for its own hash. *)
(* The wording of a translation is left out; a row says which master text  *)
(* it translates and whether a person wrote it.                            *)
(***************************************************************************)
EXTENDS Naturals, FiniteSets

CONSTANTS
  Name,         \* key names
  Lang,         \* target locales
  Text,         \* texts, in any language
  Run,          \* numbers of the runs of the pipeline, in the order requested
  English,      \* TRUE when the upload is in the master locale
  Dialects,     \* the databases considered, a subset of {"sqlite", "postgres"}
  MaxRuns,      \* bound: MaxRuns[d], how many runs on database d
  MaxEdits,     \* bound: corrections reviewers make
  MaxUnrecorded,\* bound: MaxUnrecorded[d], the last run that may fail to record
                \* its attempts after it committed
  MaxRestarts,  \* bound: MaxRestarts[d], how often the process dies
  NoText, NoRow, NoEdit

ASSUME NameAssumption == IsFiniteSet(Name)
ASSUME RunAssumption == Run \subseteq Nat
ASSUME NullAssumption == NoText \notin Text
ASSUME BoundAssumption ==
  /\ English \in BOOLEAN /\ Dialects \subseteq {"sqlite", "postgres"}
  /\ MaxEdits \in Nat /\ \A d \in Dialects : MaxRestarts[d] \in Nat

VARIABLES
  dialect,   \* the database of this deployment: how transactions interleave
  status,    \* files.status; "NONE" before the upload, "GONE" once deleted
  targets,   \* files.target_lang_codes
  keyCount,  \* files.key_count
  key,       \* key[n]: original_text of key n, and by it text_hash
  kept,      \* kept[n]: source_text of n is not null
  row,       \* row[n, l]: the translation of n into l
  run,       \* run[r]: one call of processFile and the request that makes it
  edit,      \* the correction a reviewer is making
  edits, restarts, \* bound counters
  unreported,\* history: the last run to end could not write how it ended
  clashed    \* history: rows whose last correction was written over a row that
             \* was no longer the one the reviewer read

recordVars == <<status, targets, keyCount>>
textVars == <<key, kept, row>>
history == <<unreported, clashed>>
vars == <<dialect, recordVars, textVars, run, edit, edits, restarts, history>>

Exists == status \notin {"NONE", "GONE"}
Keys == {n \in Name : key[n] # NoText}

(* A parsed document: a text for some of the names. *)
Doc == UNION {[D -> Text] : D \in SUBSET Name}
Master == [n \in Keys |-> key[n]]

Row == [hash : Text, manual : BOOLEAN, of : Text, by : {"machine", "human"}]
Edit == [kind : {"row"}, at : Name \X Lang, old : Row, hash : Text]
          \cup [kind : {"key"}, at : Name, text : Text]

(* What is not there is neither a row nor a correction. *)
ASSUME RowAssumption == NoRow \notin Row /\ NoEdit \notin Edit

Machine(t) == [hash |-> t, manual |-> FALSE, of |-> t, by |-> "machine"]

(* The attributes of the record that an instance of it holds. *)
Instance == [status |-> status, targets |-> targets, keyCount |-> keyCount]

Idle == [stage |-> "idle"]
Over == [stage |-> "over"]

Init ==
  /\ dialect \in Dialects
  /\ status = "NONE"
  /\ targets = {}
  /\ keyCount = 0
  /\ key = [n \in Name |-> NoText]
  /\ kept = [n \in Name |-> FALSE]
  /\ row = [p \in Name \X Lang |-> NoRow]
  /\ run = [r \in Run |-> Idle]
  /\ edit = NoEdit
  /\ edits = 0
  /\ restarts = 0
  /\ unreported = FALSE
  /\ clashed = {}

(***************************************************************************)
(* The requests that start a run.                                          *)
(***************************************************************************)

IsNext(r) ==
  /\ run[r] = Idle /\ r <= MaxRuns[dialect]
  /\ \A q \in Run : q < r => run[q] # Idle

(* processFile's arguments, and the instance it works on. *)
Queued(doc, english, langs, skip, instance) ==
  [stage |-> "queued", doc |-> doc, english |-> english, langs |-> langs,
   skip |-> skip, instance |-> instance]

Launch(r, job) == run' = [run EXCEPT ![r] = job]

(* createUpload: the record, then a run over the uploaded document. *)
CreateUpload(r) ==
  /\ IsNext(r) /\ status = "NONE"
  /\ \E doc \in Doc, langs \in (SUBSET Lang) \ {{}} :
       /\ targets' = langs
       /\ Launch(r, Queued(doc, English, langs, {},
                           [status |-> "PENDING", targets |-> langs, keyCount |-> 0]))
  /\ status' = "PENDING"
  /\ keyCount' = 0
  /\ UNCHANGED <<dialect, textVars, edit, edits, restarts, history>>

(* Every other request resolves the file first. *)
Request(r) ==
  /\ IsNext(r) /\ Exists
  /\ Launch(r, [stage |-> "asked", instance |-> Instance])
  /\ UNCHANGED <<dialect, recordVars, textVars, edit, edits, restarts, history>>

Asked(r) == run[r].stage = "asked"

(* addTargetLanguages: the locales are added to those of the instance. *)
AddTargetLanguages(r) ==
  /\ Asked(r)
  /\ LET instance == run[r].instance IN
     \E added \in SUBSET (Lang \ instance.targets) \ {{}} :
       IF Keys = {}
       THEN Launch(r, Over) /\ UNCHANGED targets
       ELSE /\ targets' = IF Exists THEN instance.targets \cup added ELSE targets
            /\ Launch(r, Queued(Master, TRUE, added, {},
                                [instance EXCEPT !.targets = @ \cup added]))
  /\ UNCHANGED <<dialect, status, keyCount, textVars, edit, edits, restarts, history>>

(* retranslateKeys: named keys, in some of the locales of the instance. *)
RetranslateKeys(r) ==
  /\ Asked(r)
  /\ \E wanted \in (SUBSET Name) \ {{}}, langs \in (SUBSET run[r].instance.targets) \ {{}} :
       IF wanted \subseteq Keys
       THEN Launch(r, Queued([n \in wanted |-> key[n]], TRUE, langs, {}, run[r].instance))
       ELSE Launch(r, Over)
  /\ UNCHANGED <<dialect, recordVars, textVars, edit, edits, restarts, history>>

(* mergeKeys: a document in the locale of the upload; keys held are skipped. *)
MergeKeys(r) ==
  /\ Asked(r)
  /\ LET instance == run[r].instance IN
     \E doc \in Doc : Launch(r, Queued(doc, English, instance.targets, Keys, instance))
  /\ UNCHANGED <<dialect, recordVars, textVars, edit, edits, restarts, history>>

(* POST /files/:fileId/reprocess: the stored master, whatever the status. *)
Reprocess(r) ==
  /\ Asked(r)
  /\ Launch(r, Queued(Master, TRUE, run[r].instance.targets, {}, run[r].instance))
  /\ UNCHANGED <<dialect, recordVars, textVars, edit, edits, restarts, history>>

(***************************************************************************)
(* processFile.                                                            *)
(***************************************************************************)

(* file.update: an attribute the instance already has is not written. *)
WriteStatus(instance, new) ==
  status' = IF Exists /\ instance.status # new THEN new ELSE status

MarkProcessing(r) ==
  /\ run[r].stage = "queued"
  /\ WriteStatus(run[r].instance, "PROCESSING")
  /\ run' = [run EXCEPT ![r].stage = "working", ![r].instance.status = "PROCESSING"]
  /\ UNCHANGED <<dialect, targets, keyCount, textVars, edit, edits, restarts, history>>

(* The pool has returned a result. An empty document never gives one. *)
Translated(r) == run[r].stage = "working" /\ DOMAIN run[r].doc # {}

(* What the transaction reads before it writes. *)
Stored == [key |-> key, row |-> row]

(* On PostgreSQL the transaction runs at READ COMMITTED: what it has read    *)
(* may change before it writes.                                              *)
BeginPersist(r) ==
  /\ dialect = "postgres" /\ Translated(r)
  /\ run' = [run EXCEPT ![r] = [stage |-> "saving", read |-> Stored, job |-> run[r]]]
  /\ UNCHANGED <<dialect, recordVars, textVars, edit, edits, restarts, history>>

Saving(r) ==
  IF dialect = "postgres" THEN run[r].stage = "saving" ELSE Translated(r)

Job(r) == IF run[r].stage \in {"saving", "saved"} THEN run[r].job ELSE run[r]
Read(r) == IF run[r].stage = "saving" THEN run[r].read ELSE Stored

(* The keys the pipeline returns: the document's, less the skipped ones. *)
Fresh(job) == DOMAIN job.doc \ job.skip

(* The master texts: the document's own, or what translating it gave. *)
Masters(job) ==
  IF job.english
  THEN {[n \in Fresh(job) |-> job.doc[n]]}
  ELSE [Fresh(job) -> Text]

(* Mutant of Accepts: a key may be created without its file. *)
Accepts_NoForeignKey(job, read) ==
  \A n \in Fresh(job) : read.key[n] = NoText => key[n] = NoText

(* The schema: a key needs its file, and no key or row is created twice. *)
Accepts(job, read) ==
  /\ Exists
  /\ \A n \in Fresh(job) : read.key[n] = NoText => key[n] = NoText
  /\ \A p \in Fresh(job) \X job.langs : read.row[p] = NoRow => row[p] = NoRow

(* Mutant of Corrected: a correction is kept whatever became of the text. *)
Corrected_Always(old, t) == old.manual

(* A correction of the same master text is left alone. *)
Corrected(old, t) == old.manual /\ old.hash = t

(* What existing.update leaves in a row read as `old`. *)
Rewritten(now, old, t) ==
  [hash   |-> IF old.hash # t THEN t ELSE now.hash,
   manual |-> IF old.manual THEN FALSE ELSE now.manual,
   of     |-> t,
   by     |-> "machine"]

NewRow(now, old, t) ==
  IF old = NoRow THEN Machine(t) ELSE IF Corrected(old, t) THEN now ELSE Rewritten(now, old, t)

(* The rows of a job. *)
InScope(job, p) == p[1] \in Fresh(job) /\ p[2] \in job.langs

(* Mutant of Counts: the number of keys in the result, not in the file. *)
Counts_ResultOnly(job, read) == {Cardinality(Fresh(job))}

(* TranslationKey.count sees the transaction's own keys and those committed  *)
(* before it, not what a concurrent transaction has yet to commit.           *)
Counts(job, read) ==
  {Cardinality(Fresh(job) \cup {n \in Name : k[n] # NoText}) : k \in {read.key, key}}

(* What follows the commit: the attempts on the keys are recorded, which is  *)
(* not seen here, or recording them fails and the catch is still to come.    *)
Unrecorded == [stage |-> "saved", job |-> [instance |-> [status |-> "READY"]]]
Committed(r) == {Over} \cup IF r <= MaxUnrecorded[dialect] THEN {Unrecorded} ELSE {}

(* persistPipelineResult, up to its commit. *)
Persist(r) ==
  LET job == Job(r)
      read == Read(r)
  IN
  /\ Saving(r) /\ Accepts(job, read)
  /\ \E m \in Masters(job), count \in Counts(job, read) :
       /\ key' = [n \in Name |->
                    IF n \in Fresh(job) /\ read.key[n] # m[n] THEN m[n] ELSE key[n]]
       /\ row' = [p \in Name \X Lang |->
                    IF InScope(job, p) THEN NewRow(row[p], read.row[p], m[p[1]]) ELSE row[p]]
       /\ keyCount' = IF count # job.instance.keyCount THEN count ELSE keyCount
  /\ kept' = [n \in Name |-> IF n \in Fresh(job) THEN ~job.english ELSE kept[n]]
  /\ WriteStatus(job.instance, "READY")
  /\ \E next \in Committed(r) : Launch(r, next)
  /\ unreported' = FALSE
  /\ UNCHANGED <<dialect, targets, edit, edits, restarts, clashed>>

Working(r) == run[r].stage \in {"queued", "working", "saving"}

(* The instance when the catch is reached: the first update marks it even    *)
(* if that write is what fails.                                              *)
Held(r) ==
  IF run[r].stage = "queued" THEN [run[r].instance EXCEPT !.status = "PROCESSING"]
  ELSE Job(r).instance

(* Mutant of Fail: the error is logged and the status left alone. *)
Fail_OnlyLogs(r) ==
  /\ Working(r) \/ run[r].stage = "saved"
  /\ Launch(r, Over)
  /\ UNCHANGED <<dialect, recordVars, textVars, edit, edits, restarts, history>>

(* A failing write, no credential, a provider error, a timeout, an empty     *)
(* document, a rolled back transaction, or attempts not recorded: the catch  *)
(* of processFile. It reports even a run that was committed as FAILED.       *)
Fail(r) ==
  /\ Working(r) \/ run[r].stage = "saved"
  /\ WriteStatus(Held(r), "FAILED")
  /\ Launch(r, Over)
  /\ unreported' = FALSE
  /\ UNCHANGED <<dialect, targets, keyCount, textVars, edit, edits, restarts, clashed>>

(* The catch fails in turn: recordKeyAttempts throws before the status is    *)
(* written, or the update is refused and its rejection swallowed.            *)
FailUnreported(r) ==
  /\ Working(r) \/ run[r].stage = "saved"
  /\ Launch(r, Over)
  /\ unreported' = (unreported \/ Working(r))
  /\ UNCHANGED <<dialect, recordVars, textVars, edit, edits, restarts, clashed>>

(***************************************************************************)
(* The editor.                                                             *)
(***************************************************************************)

CanEdit == edit = NoEdit /\ edits < MaxEdits

(* updateTranslation reads the row with its key, and later updates it. *)
ReadTranslation(n, l) ==
  /\ CanEdit /\ row[n, l] # NoRow
  /\ edit' = [kind |-> "row", at |-> <<n, l>>, old |-> row[n, l], hash |-> key[n]]
  /\ edits' = edits + 1
  /\ UNCHANGED <<dialect, recordVars, textVars, run, restarts, history>>

(* Mutant of Correction: the row is not flagged as a person's. *)
Correction_NotFlagged(now, old, text) ==
  [hash   |-> IF old.hash # text THEN text ELSE now.hash,
   manual |-> now.manual,
   of     |-> text,
   by     |-> "human"]

(* What translation.update leaves in a row read as `old`, its key as `text`. *)
Correction(now, old, text) ==
  [hash   |-> IF old.hash # text THEN text ELSE now.hash,
   manual |-> IF old.manual THEN now.manual ELSE TRUE,
   of     |-> text,
   by     |-> "human"]

UpdateTranslation ==
  /\ edit # NoEdit /\ edit.kind = "row"
  /\ LET now == row[edit.at] IN
     /\ row' = [row EXCEPT ![edit.at] =
                  IF now = NoRow THEN NoRow ELSE Correction(now, edit.old, edit.hash)]
     /\ clashed' = IF now = edit.old THEN clashed \ {edit.at} ELSE clashed \cup {edit.at}
  /\ edit' = NoEdit
  /\ UNCHANGED <<dialect, recordVars, key, kept, run, edits, restarts, unreported>>

(* updateMasterText reads the key, and writes unless the text is the same. *)
ReadMaster(n, t) ==
  /\ CanEdit /\ key[n] \notin {NoText, t}
  /\ edit' = [kind |-> "key", at |-> n, text |-> t]
  /\ edits' = edits + 1
  /\ UNCHANGED <<dialect, recordVars, textVars, run, restarts, history>>

UpdateMasterText ==
  /\ edit # NoEdit /\ edit.kind = "key"
  /\ key' = [key EXCEPT ![edit.at] = IF @ = NoText THEN NoText ELSE edit.text]
  /\ edit' = NoEdit
  /\ UNCHANGED <<dialect, recordVars, kept, row, run, edits, restarts, history>>

(***************************************************************************)
(* Deletion and restart.                                                   *)
(***************************************************************************)

(* deleteFile: the cascade takes the keys and the translations. *)
DeleteFile ==
  /\ Exists
  /\ status' = "GONE"
  /\ targets' = {}
  /\ keyCount' = 0
  /\ key' = [n \in Name |-> NoText]
  /\ kept' = [n \in Name |-> FALSE]
  /\ row' = [p \in Name \X Lang |-> NoRow]
  /\ UNCHANGED <<dialect, run, edit, edits, restarts, history>>

(* The process dies. Runs and requests are lost, the database is not. *)
Restart ==
  /\ restarts < MaxRestarts[dialect]
  /\ restarts' = restarts + 1
  /\ run' = [r \in Run |-> IF run[r] = Idle THEN Idle ELSE Over]
  /\ edit' = NoEdit
  /\ unreported' = (unreported \/ \E r \in Run : Working(r))
  /\ UNCHANGED <<dialect, recordVars, textVars, edits, clashed>>

Begin(r) == AddTargetLanguages(r) \/ RetranslateKeys(r) \/ MergeKeys(r) \/ Reprocess(r)
Process(r) ==
  MarkProcessing(r) \/ BeginPersist(r) \/ Persist(r) \/ Fail(r) \/ FailUnreported(r)

Next ==
  \/ \E r \in Run : CreateUpload(r) \/ Request(r) \/ Begin(r) \/ Process(r)
  \/ \E n \in Name, l \in Lang : ReadTranslation(n, l)
  \/ \E n \in Name, t \in Text : ReadMaster(n, t)
  \/ UpdateTranslation \/ UpdateMasterText
  \/ DeleteFile \/ Restart

Spec == Init /\ [][Next]_vars

(***************************************************************************)
(* Properties.                                                             *)
(***************************************************************************)

Status == {"NONE", "PENDING", "PROCESSING", "READY", "FAILED", "GONE"}
InstanceOf == [status : Status, targets : SUBSET Lang, keyCount : 0..Cardinality(Name)]
JobIn(stages) == [stage : stages, doc : Doc, english : BOOLEAN, langs : SUBSET Lang,
                  skip : SUBSET Name, instance : InstanceOf]
Keyed == [Name -> Text \cup {NoText}]
Translations == [Name \X Lang -> Row \cup {NoRow}]

RunState ==
  {Idle, Over, Unrecorded}
    \cup [stage : {"asked"}, instance : InstanceOf]
    \cup JobIn({"queued", "working"})
    \cup [stage : {"saving"}, read : [key : Keyed, row : Translations], job : JobIn({"working"})]

TypeOK ==
  /\ dialect \in Dialects
  /\ status \in Status
  /\ targets \subseteq Lang
  /\ keyCount \in 0..Cardinality(Name)
  /\ key \in Keyed
  /\ kept \in [Name -> BOOLEAN]
  /\ row \in Translations
  /\ run \in [Run -> RunState]
  /\ edit \in Edit \cup {NoEdit}
  /\ edits \in 0..MaxEdits
  /\ restarts \in 0..MaxRestarts[dialect]
  /\ unreported \in BOOLEAN
  /\ clashed \subseteq Name \X Lang

(* The status is the channel failure is reported through: a file no run      *)
(* works on says READY or FAILED, whatever old instances the runs wrote it   *)
(* from. The one way out is a run that ended without a word, because the     *)
(* process died or the catch could not write, with none reporting since.     *)
SettledWhenQuiet ==
  Exists /\ ~unreported /\ (\A r \in Run : ~Working(r)) => status \in {"READY", "FAILED"}

(* On SQLite key_count counts the keys, whatever runs merged or failed, and  *)
(* although each writes it from an instance of its own.                      *)
KeyCountExact == dialect = "sqlite" => keyCount = Cardinality(Keys)

(* A READY file has keys: no rerun of an empty master is ever a success. *)
ReadyHasKeys == status = "READY" => Keys # {}

(* A row is one of a stored key, and a stored row of a deleted file is none: *)
(* a run that ends after the deletion does not bring the file back.          *)
NoOrphans ==
  /\ \A p \in Name \X Lang : row[p] # NoRow => p[1] \in Keys
  /\ Keys # {} => Exists

(* The parts that hold in every state of every behaviour, as one invariant:  *)
(* the types, no row without its key, no READY file without text.            *)
FilesSound == TypeOK /\ NoOrphans /\ ReadyHasKeys

Succeeds(r) ==
  Saving(r) /\ Exists /\ run'[r] \in {Over, Unrecorded} /\ status' = "READY" /\ ~unreported'

(* A human correction outranks a machine rerun, unless the source text       *)
(* itself changed: a run that succeeds leaves a row a person wrote as it is  *)
(* when the row translates the master the run leaves. Two overlaps are out   *)
(* of its reach: what the transaction read was changed before it wrote, or   *)
(* the correction was written over a row other than the one the reviewer saw.*)
CorrectionKept ==
  [][\A r \in Run, p \in Name \X Lang :
       /\ Succeeds(r) /\ row[p] # NoRow /\ row[p].by = "human" /\ row[p].of = key'[p[1]]
       /\ Read(r).row[p] = row[p] /\ Read(r).key[p[1]] = key[p[1]] /\ p \notin clashed
       => row'[p] = row[p]]_vars

(* On SQLite a run that succeeds leaves nothing stale where it wrote, and a  *)
(* correction it left in place is one of the master it leaves.               *)
FreshAfterRun ==
  [][\A r \in Run : dialect = "sqlite" /\ Succeeds(r) =>
       \A p \in Fresh(Job(r)) \X Job(r).langs :
         row'[p] # NoRow /\ row'[p].hash = key'[p[1]]]_vars

=============================================================================
