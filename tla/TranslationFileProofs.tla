----------------------- MODULE TranslationFileProofs -----------------------
(***************************************************************************)
(* Proofs about TranslationFile: its invariants, for every set of keys,    *)
(* locales, texts and runs, either database and any number of runs,        *)
(* corrections and restarts; and the two rules of what a run writes.       *)
(*                                                                         *)
(* The three invariants are proved from one inductive invariant. What it   *)
(* adds is what a run may rely on while it works from an old copy: RunOK   *)
(* relates the copy each run holds, and what an open transaction has read, *)
(* to the tables. Until the file is deleted keys and rows are only ever    *)
(* added (Grown), which is why an old copy stays right.                    *)
(***************************************************************************)
EXTENDS TranslationFile, FiniteSetTheorems, TLAPS

(* What a call of processFile may rely on. The instance of a run that works  *)
(* is marked, so that whatever it ends with is written; and a transaction    *)
(* stores a document that has keys.                                          *)
MarkedOK(x) ==
  /\ x.stage = "working" => x.instance.status = "PROCESSING"
  /\ x.stage = "saving" => x.job.instance.status = "PROCESSING" /\ DOMAIN x.job.doc # {}

(* The keys a merge found are stored for as long as the file exists.         *)
SkipsOK(x) ==
  /\ x.stage \in {"queued", "working"} => x.skip \subseteq Keys
  /\ x.stage = "saving" => x.job.skip \subseteq Keys

(* So is all that an open transaction has read.                              *)
ReadOK(x) ==
  x.stage = "saving" =>
    /\ \A n \in Name : x.read.key[n] # NoText => n \in Keys
    /\ \A p \in Name \X Lang : x.read.row[p] # NoRow => row[p] # NoRow

(* On SQLite no transaction is open between two steps, and an instance never *)
(* counts more keys than the record does.                                    *)
CountOK(x) ==
  /\ x.stage # "saving"
  /\ Exists /\ x.stage \in {"asked", "queued", "working"} => x.instance.keyCount <= keyCount

RunOK(x) ==
  /\ MarkedOK(x)
  /\ Exists => SkipsOK(x) /\ ReadOK(x)
  /\ dialect = "sqlite" => CountOK(x)

RunsOK == \A r \in Run : RunOK(run[r])

(* Somebody is still to report how the file fares.                           *)
ReportDue ==
  Exists /\ ~unreported /\ status \notin {"READY", "FAILED"} => \E r \in Run : Working(r)

(* A correction is flagged, and bears the fingerprint of what it translates. *)
CorrectionsOK ==
  \A p \in Name \X Lang :
    row[p] # NoRow /\ row[p].by = "human" /\ p \notin clashed =>
      row[p].manual /\ row[p].hash = row[p].of

(* No run is older than the file.                                            *)
NotBegun == status = "NONE" => \A r \in Run : run[r] = Idle

Inv ==
  /\ TypeOK /\ NoOrphans /\ ReadyHasKeys
  /\ KeyCountExact /\ RunsOK /\ ReportDue /\ NotBegun /\ CorrectionsOK

(* Until it is deleted, a file loses no key and no translation.              *)
Grown ==
  Exists' =>
    /\ Exists /\ Keys \subseteq Keys'
    /\ \A p \in Name \X Lang : row[p] # NoRow => row'[p] # NoRow

(***************************************************************************)
(* Sets and types.                                                         *)
(***************************************************************************)

(* A document is a function from some of the names to texts.                 *)
LEMMA DocIs ==
  ASSUME NEW doc
  PROVE  doc \in Doc <=> \E D \in SUBSET Name : doc \in [D -> Text]
BY DEF Doc

(* The stored master is a document.                                          *)
LEMMA MasterIsDoc ==
  ASSUME TypeOK
  PROVE  Master \in Doc
<1>1. Keys \in SUBSET Name /\ \A n \in Keys : key[n] \in Text
  BY DEF TypeOK, Keyed, Keys
<1>2. Master \in [Keys -> Text]
  BY <1>1 DEF Master
<1>3. QED
  BY <1>1, <1>2, DocIs

(* The number of some of the names is a count of keys.                       *)
LEMMA Counted ==
  ASSUME NEW S \in SUBSET Name
  PROVE  IsFiniteSet(S) /\ Cardinality(S) \in 0..Cardinality(Name)
<1>1. IsFiniteSet(S) /\ Cardinality(S) <= Cardinality(Name)
  BY NameAssumption, FS_Subset
<1>2. Cardinality(S) \in Nat /\ Cardinality(Name) \in Nat
  BY <1>1, NameAssumption, FS_CardinalityType
<1>3. QED
  BY <1>1, <1>2

(* Instances are of the record's type.                                       *)
LEMMA InstanceTyped ==
  ASSUME TypeOK
  PROVE  Instance \in InstanceOf
BY DEF TypeOK, Instance, InstanceOf

(* What the stages of a run are.                                             *)
LEMMA Stages ==
  ASSUME NEW x \in RunState
  PROVE  /\ x.stage \in {"idle", "over", "saved", "asked", "queued", "working", "saving"}
         /\ x.stage = "idle" => x = Idle
         /\ x.stage = "over" => x = Over
         /\ x.stage = "saved" => x = Unrecorded
         /\ x.stage = "asked" => x \in [stage : {"asked"}, instance : InstanceOf]
         /\ x.stage \in {"queued", "working"} => x \in JobIn({"queued", "working"})
         /\ x.stage = "saving" =>
              x \in [stage : {"saving"}, read : [key : Keyed, row : Translations],
                     job : JobIn({"working"})]
BY DEF RunState, Idle, Over, Unrecorded, JobIn

(***************************************************************************)
(* What every step keeps.                                                  *)
(***************************************************************************)

(* A run that a step leaves alone may still rely on what it did, when the    *)
(* tables have only grown.                                                   *)
LEMMA RunsKept ==
  ASSUME TypeOK, RunsOK, Grown, dialect' = dialect,
         dialect = "sqlite" /\ Exists' => keyCount <= keyCount' /\ keyCount' \in Nat,
         \A q \in Run : run'[q] = run[q] \/ RunOK(run[q])'
  PROVE  RunsOK'
<1> SUFFICES ASSUME NEW q \in Run, run'[q] = run[q] PROVE RunOK(run[q])'
  BY DEF RunsOK
<1>1. RunOK(run[q]) /\ run[q] \in RunState /\ keyCount \in Nat
  BY NameAssumption, FS_CardinalityType DEF RunsOK, TypeOK
<1>2. PICK x : x = run[q]
  OBVIOUS
<1>3. x = run'[q] /\ RunOK(x) /\ x \in RunState
  BY <1>1, <1>2
<1>4. MarkedOK(x)'
  BY <1>3 DEF RunOK, MarkedOK
<1>5. ASSUME Exists' PROVE SkipsOK(x)' /\ ReadOK(x)'
  <2>1. Exists /\ SkipsOK(x) /\ ReadOK(x) /\ Keys \subseteq Keys'
        /\ \A p \in Name \X Lang : row[p] # NoRow => row'[p] # NoRow
    BY <1>3, <1>5 DEF RunOK, Grown
  <2>2. QED
    BY <2>1 DEF SkipsOK, ReadOK
<1>6. ASSUME dialect' = "sqlite" PROVE CountOK(x)'
  <2>1. CountOK(x)
    BY <1>3, <1>6 DEF RunOK
  <2>2. ASSUME Exists', x.stage \in {"asked", "queued", "working"}
        PROVE  x.instance.keyCount <= keyCount'
    <3>1. Exists /\ x.instance.keyCount <= keyCount /\ keyCount <= keyCount' /\ keyCount' \in Nat
      BY <1>6, <2>1, <2>2 DEF CountOK, Grown
    <3>2. x.instance.keyCount \in Nat
      BY <1>3, <2>2, Stages DEF JobIn, InstanceOf
    <3>3. QED
      BY <1>1, <3>1, <3>2
  <2>3. QED
    BY <2>1, <2>2 DEF CountOK
<1>7. QED
  BY <1>2, <1>4, <1>5, <1>6 DEF RunOK

(* A step of one run that writes no key and no translation.                  *)
LEMMA RunStep ==
  ASSUME Inv, NEW r \in Run, NEW x, run' = [run EXCEPT ![r] = x],
         x \in RunState, RunOK(x)', status' # "NONE",
         UNCHANGED <<dialect, keyCount, textVars, edit, edits, restarts, clashed>>,
         unreported' \in BOOLEAN, status' \in Status, targets' \subseteq Lang, Exists' <=> Exists,
         status' = "READY" => status = "READY", ReportDue'
  PROVE  Inv'
<1>1. TypeOK /\ NoOrphans /\ ReadyHasKeys /\ KeyCountExact /\ RunsOK
  BY DEF Inv
<1>2. UNCHANGED <<dialect, keyCount, key, kept, row, edit, edits, restarts, clashed>>
      /\ Keys' = Keys
  BY DEF textVars, Keys
<1>3. \A q \in Run : run'[q] = IF q = r THEN x ELSE run[q]
  BY <1>1 DEF TypeOK
<1>4. \A q \in Run : run'[q] \in RunState
  BY <1>1, <1>3 DEF TypeOK
<1>5. TypeOK'
  BY <1>1, <1>2, <1>4 DEF TypeOK, RunState, Unrecorded
<1>6. Grown
  BY <1>2 DEF Grown
<1>7. RunsOK'
  <2>1. keyCount \in Nat
    BY <1>1, NameAssumption, FS_CardinalityType DEF TypeOK
  <2>2. \A q \in Run : run'[q] = run[q] \/ RunOK(run[q])'
    <3> SUFFICES ASSUME NEW q \in Run, q = r PROVE RunOK(run[q])'
      BY <1>3
    <3>1. PICK y : y = run'[q]
      OBVIOUS
    <3>2. y = x
      BY <1>3, <3>1
    <3>3. QED
      BY <3>1, <3>2
  <2>3. QED
    BY <1>1, <1>2, <1>6, <2>1, <2>2, RunsKept
<1>8. NoOrphans' /\ ReadyHasKeys' /\ KeyCountExact' /\ NotBegun'
  BY <1>1, <1>2 DEF NoOrphans, ReadyHasKeys, KeyCountExact, NotBegun
<1>9. CorrectionsOK'
  BY <1>2 DEF Inv, CorrectionsOK
<1>10. QED
  BY <1>5, <1>7, <1>8, <1>9 DEF Inv

(* The report stays due while the run that changed works on, and is made     *)
(* when it writes one.                                                       *)
LEMMA StillDue ==
  ASSUME Inv, NEW r \in Run, NEW x \in RunState, run' = [run EXCEPT ![r] = x],
         Exists' <=> Exists,
         \/ x.stage \in {"queued", "working", "saving"}
         \/ Exists => status' \in {"READY", "FAILED"}
         \/ unreported'
         \/ UNCHANGED <<status, unreported>> /\ ~Working(r)
  PROVE  ReportDue'
<1> SUFFICES ASSUME Exists', ~unreported', status' \notin {"READY", "FAILED"}
             PROVE  \E q \in Run : Working(q)'
  BY DEF ReportDue
<1>1. run \in [Run -> RunState] /\ ReportDue
  BY DEF Inv, TypeOK
<1>2. \A q \in Run : run'[q] = IF q = r THEN x ELSE run[q]
  BY <1>1
<1>3. CASE x.stage \in {"queued", "working", "saving"}
  <2>1. Working(r)'
    BY <1>2, <1>3 DEF Working
  <2>2. QED
    BY <2>1
<1>4. CASE UNCHANGED <<status, unreported>> /\ ~Working(r)
  <2>1. PICK q \in Run : Working(q)
    BY <1>1, <1>4 DEF ReportDue
  <2>2. q # r
    BY <1>4, <2>1
  <2>3. Working(q)'
    BY <1>2, <2>1, <2>2 DEF Working
  <2>4. QED
    BY <2>3
<1>5. QED
  BY <1>3, <1>4

(***************************************************************************)
(* The requests that start a run.                                          *)
(***************************************************************************)

(* A request resolves the file: its copy counts what the record counts.      *)
LEMMA RequestStep ==
  ASSUME Inv, NEW r \in Run, Request(r)
  PROVE  Inv'
<1> PICK copy : copy = Instance
  OBVIOUS
<1> DEFINE x == [stage |-> "asked", instance |-> copy]
<1>1. /\ run' = [run EXCEPT ![r] = x] /\ run[r] = Idle /\ Exists
      /\ UNCHANGED <<dialect, status, targets, keyCount, textVars, edit, edits, restarts>>
      /\ UNCHANGED <<unreported, clashed>>
  BY DEF Request, Launch, IsNext, recordVars, history
<1>2. TypeOK /\ keyCount \in Nat /\ unreported' \in BOOLEAN
  BY <1>1, NameAssumption, FS_CardinalityType DEF Inv, TypeOK
<1>3. x \in RunState
  BY <1>2, InstanceTyped DEF RunState
<1>4. RunOK(x)'
  <2>1. MarkedOK(x)' /\ SkipsOK(x)' /\ ReadOK(x)'
    BY DEF MarkedOK, SkipsOK, ReadOK
  <2>2. CountOK(x)'
    BY <1>1, <1>2 DEF CountOK, Instance
  <2>3. QED
    BY <2>1, <2>2 DEF RunOK
<1>5. ~Working(r)
  BY <1>1 DEF Working, Idle
<1>6. Exists' /\ status' # "NONE" /\ status' \in Status /\ targets' \subseteq Lang
  BY <1>1, <1>2 DEF Exists, TypeOK
<1>7. ReportDue'
  <2> HIDE DEF x
  <2>1. QED
    BY <1>1, <1>3, <1>5, <1>6, StillDue
<1>8. QED
  <2> HIDE DEF x
  <2>1. QED
    BY <1>1, <1>2, <1>3, <1>4, <1>6, <1>7, RunStep

(* What a request asked of the pipeline is queued. The keys it skips are     *)
(* stored, and its copy is the one the request loaded, or one with more      *)
(* locales.                                                                  *)
LEMMA QueueStep ==
  ASSUME Inv, NEW r \in Run, Asked(r),
         NEW doc \in Doc, NEW english \in BOOLEAN, NEW langs \in SUBSET Lang,
         NEW skip \in SUBSET Keys, NEW instance \in InstanceOf,
         instance.keyCount = run[r].instance.keyCount,
         Launch(r, Queued(doc, english, langs, skip, instance)),
         targets' \in SUBSET Lang,
         UNCHANGED <<dialect, status, keyCount, textVars, edit, edits, restarts, history>>
  PROVE  Inv'
<1> DEFINE x == Queued(doc, english, langs, skip, instance)
<1>1. run' = [run EXCEPT ![r] = x] /\ UNCHANGED <<dialect, status, keyCount, key>>
      /\ UNCHANGED <<unreported, clashed>>
  BY DEF Launch, textVars, history
<1>2. TypeOK /\ RunOK(run[r]) /\ run[r].stage = "asked" /\ run[r] # Idle /\ NotBegun
      /\ unreported' \in BOOLEAN
  BY <1>1 DEF Inv, RunsOK, Asked, Idle, TypeOK
<1>3. x \in RunState
  <2>1. Keys \subseteq Name
    BY DEF Keys
  <2>2. x \in JobIn({"queued", "working"})
    BY <2>1 DEF Queued, JobIn
  <2>3. QED
    BY <2>2 DEF RunState
<1>4. x.stage = "queued" /\ x.skip = skip /\ x.instance = instance
  BY DEF Queued
<1>5. RunOK(x)'
  <2> HIDE DEF x
  <2>1. MarkedOK(x)' /\ SkipsOK(x)' /\ ReadOK(x)'
    BY <1>1, <1>4 DEF MarkedOK, SkipsOK, ReadOK, Keys
  <2>2. ASSUME dialect' = "sqlite" PROVE CountOK(x)'
    BY <1>1, <1>2, <1>4, <2>2 DEF RunOK, CountOK, Exists
  <2>3. QED
    BY <2>1, <2>2 DEF RunOK
<1>6. status' # "NONE" /\ status' \in Status /\ (Exists' <=> Exists)
  BY <1>1, <1>2 DEF NotBegun, TypeOK, Exists
<1>7. ReportDue'
  <2> HIDE DEF x
  <2>1. QED
    BY <1>1, <1>3, <1>4, <1>6, StillDue
<1>8. QED
  <2> HIDE DEF x
  <2>1. QED
    BY <1>1, <1>2, <1>3, <1>5, <1>6, <1>7, RunStep

(* A request that is refused ends its slot.                                  *)
LEMMA RefusedStep ==
  ASSUME Inv, NEW r \in Run, Asked(r), Launch(r, Over),
         UNCHANGED <<dialect, recordVars, textVars, edit, edits, restarts, history>>
  PROVE  Inv'
<1>1. run' = [run EXCEPT ![r] = Over] /\ UNCHANGED <<dialect, status, targets, keyCount>>
      /\ UNCHANGED <<unreported, clashed>>
  BY DEF Launch, recordVars, history
<1>2. TypeOK /\ run[r].stage = "asked" /\ run[r] # Idle /\ NotBegun /\ unreported' \in BOOLEAN
  BY <1>1 DEF Inv, Asked, Idle, TypeOK
<1>3. Over \in RunState
  BY DEF RunState
<1>4. RunOK(Over)'
  BY DEF RunOK, MarkedOK, SkipsOK, ReadOK, CountOK, Over
<1>5. status' # "NONE" /\ status' \in Status /\ (Exists' <=> Exists) /\ targets' \subseteq Lang
  BY <1>1, <1>2 DEF NotBegun, TypeOK, Exists
<1>6. ~Working(r)
  BY <1>2 DEF Working
<1>7. ReportDue'
  BY <1>1, <1>3, <1>5, <1>6, StillDue
<1>8. QED
  BY <1>1, <1>2, <1>3, <1>4, <1>5, <1>7, RunStep

(* Locales are added: the stored master into them, or nothing when there is  *)
(* no key.                                                                   *)
LEMMA AddStep ==
  ASSUME Inv, NEW r \in Run, AddTargetLanguages(r)
  PROVE  Inv'
<1> DEFINE instance == run[r].instance
<1>1. Asked(r) /\ UNCHANGED <<dialect, status, keyCount, textVars, edit, edits, restarts, history>>
  BY DEF AddTargetLanguages
<1>2. TypeOK /\ instance \in InstanceOf
  BY <1>1, Stages DEF Inv, TypeOK, Asked
<1>3. PICK added \in SUBSET (Lang \ instance.targets) \ {{}} :
        IF Keys = {}
        THEN Launch(r, Over) /\ UNCHANGED targets
        ELSE /\ targets' = IF Exists THEN instance.targets \cup added ELSE targets
             /\ Launch(r, Queued(Master, TRUE, added, {},
                                 [instance EXCEPT !.targets = @ \cup added]))
  BY DEF AddTargetLanguages
<1>4. CASE Keys = {}
  BY <1>1, <1>3, <1>4, RefusedStep DEF recordVars
<1>5. CASE Keys # {}
  <2>1. PICK copy : copy = [instance EXCEPT !.targets = @ \cup added]
    OBVIOUS
  <2>2. copy \in InstanceOf /\ copy.keyCount = instance.keyCount
    BY <1>2, <2>1 DEF InstanceOf
  <2>3. PICK doc : doc = Master
    OBVIOUS
  <2>4. doc \in Doc
    BY <1>2, <2>3, MasterIsDoc
  <2>5. targets' \in SUBSET Lang
    BY <1>2, <1>3, <1>5 DEF TypeOK, InstanceOf
  <2>6. Launch(r, Queued(doc, TRUE, added, {}, copy))
    BY <1>3, <1>5, <2>1, <2>3
  <2>7. QED
    BY <1>1, <2>2, <2>4, <2>5, <2>6, QueueStep
<1>6. QED
  BY <1>4, <1>5

(* Named keys are translated again.                                          *)
LEMMA RetranslateStep ==
  ASSUME Inv, NEW r \in Run, RetranslateKeys(r)
  PROVE  Inv'
<1>1. Asked(r) /\ UNCHANGED <<dialect, recordVars, textVars, edit, edits, restarts, history>>
  BY DEF RetranslateKeys
<1>2. TypeOK /\ run[r].instance \in InstanceOf
  BY <1>1, Stages DEF Inv, TypeOK, Asked
<1>3. PICK wanted \in (SUBSET Name) \ {{}}, langs \in (SUBSET run[r].instance.targets) \ {{}} :
        IF wanted \subseteq Keys
        THEN Launch(r, Queued([n \in wanted |-> key[n]], TRUE, langs, {}, run[r].instance))
        ELSE Launch(r, Over)
  BY DEF RetranslateKeys
<1>4. CASE wanted \subseteq Keys
  <2>1. PICK doc, copy : doc = [n \in wanted |-> key[n]] /\ copy = run[r].instance
    OBVIOUS
  <2>2. \A n \in wanted : key[n] \in Text
    BY <1>2, <1>4 DEF TypeOK, Keyed, Keys
  <2>3. doc \in Doc
    BY <2>1, <2>2, DocIs
  <2>4. langs \in SUBSET Lang /\ targets' \in SUBSET Lang
    BY <1>1, <1>2 DEF InstanceOf, TypeOK, recordVars
  <2>5. QED
    BY <1>1, <1>2, <1>3, <1>4, <2>1, <2>3, <2>4, QueueStep DEF recordVars
<1>5. CASE ~(wanted \subseteq Keys)
  BY <1>1, <1>3, <1>5, RefusedStep
<1>6. QED
  BY <1>4, <1>5

(* A merge skips the keys that are stored.                                   *)
LEMMA MergeStep ==
  ASSUME Inv, NEW r \in Run, MergeKeys(r)
  PROVE  Inv'
<1>1. Asked(r) /\ UNCHANGED <<dialect, recordVars, textVars, edit, edits, restarts, history>>
  BY DEF MergeKeys
<1>2. TypeOK /\ run[r].instance \in InstanceOf
  BY <1>1, Stages DEF Inv, TypeOK, Asked
<1>3. PICK doc \in Doc :
        Launch(r, Queued(doc, English, run[r].instance.targets, Keys, run[r].instance))
  BY DEF MergeKeys
<1>4. PICK copy, skip : copy = run[r].instance /\ skip = Keys
  OBVIOUS
<1>5. copy.targets \in SUBSET Lang /\ targets' \in SUBSET Lang /\ English \in BOOLEAN
  BY <1>1, <1>2, <1>4, BoundAssumption DEF InstanceOf, TypeOK, recordVars
<1>6. QED
  BY <1>1, <1>2, <1>3, <1>4, <1>5, QueueStep DEF recordVars

(* The stored master is processed again.                                     *)
LEMMA ReprocessStep ==
  ASSUME Inv, NEW r \in Run, Reprocess(r)
  PROVE  Inv'
<1>1. Asked(r) /\ UNCHANGED <<dialect, recordVars, textVars, edit, edits, restarts, history>>
      /\ Launch(r, Queued(Master, TRUE, run[r].instance.targets, {}, run[r].instance))
  BY DEF Reprocess
<1>2. TypeOK /\ run[r].instance \in InstanceOf
  BY <1>1, Stages DEF Inv, TypeOK, Asked
<1>3. PICK copy, doc : copy = run[r].instance /\ doc = Master
  OBVIOUS
<1>4. copy.targets \in SUBSET Lang /\ targets' \in SUBSET Lang /\ doc \in Doc
  BY <1>1, <1>2, <1>3, MasterIsDoc DEF InstanceOf, TypeOK, recordVars
<1>5. QED
  BY <1>1, <1>2, <1>3, <1>4, QueueStep DEF recordVars

(* The upload: there is no run, no key and no row yet.                       *)
LEMMA UploadStep ==
  ASSUME Inv, NEW r \in Run, CreateUpload(r)
  PROVE  Inv'
<1>1. /\ status = "NONE" /\ status' = "PENDING" /\ keyCount' = 0
      /\ UNCHANGED <<dialect, textVars, edit, edits, restarts, history>>
  BY DEF CreateUpload
<1>2. PICK doc \in Doc, langs \in (SUBSET Lang) \ {{}} :
        /\ targets' = langs
        /\ Launch(r, Queued(doc, English, langs, {},
                            [status |-> "PENDING", targets |-> langs, keyCount |-> 0]))
  BY DEF CreateUpload
<1> DEFINE x == Queued(doc, English, langs, {},
                       [status |-> "PENDING", targets |-> langs, keyCount |-> 0])
<1>3. TypeOK /\ NoOrphans /\ (\A q \in Run : run[q] = Idle) /\ ~Exists
  BY <1>1 DEF Inv, NotBegun, Exists
<1>4. Keys = {} /\ Keys' = {} /\ UNCHANGED <<key, kept, row>> /\ Exists' /\ status' # "NONE"
  BY <1>1, <1>3 DEF NoOrphans, Keys, textVars, Exists
<1>5. x \in RunState /\ x.stage = "queued" /\ x.skip = {} /\ x.instance.keyCount = 0
  <2>1. 0 \in 0..Cardinality(Name)
    BY NameAssumption, FS_CardinalityType
  <2>2. x \in JobIn({"queued", "working"})
    BY <2>1, BoundAssumption DEF Queued, JobIn, InstanceOf, Status
  <2>3. QED
    BY <2>2 DEF RunState, Queued
<1>6. \A q \in Run : run'[q] = IF q = r THEN x ELSE Idle
  BY <1>2, <1>3 DEF Launch, TypeOK
<1> HIDE DEF x
<1>7. TypeOK' /\ CorrectionsOK'
  <2>1. 0 \in 0..Cardinality(Name)
    BY NameAssumption, FS_CardinalityType
  <2>2. run' = [run EXCEPT ![r] = x]
    BY <1>2 DEF Launch, x
  <2>3. run' \in [Run -> RunState]
    BY <1>3, <1>5, <2>2 DEF TypeOK
  <2>4. RunState' = RunState
    BY DEF RunState, Unrecorded
  <2>5. QED
    BY <1>1, <1>2, <1>3, <1>4, <2>1, <2>3, <2>4 DEF TypeOK, Status, history, Inv, CorrectionsOK
<1>8. NoOrphans' /\ ReadyHasKeys' /\ NotBegun'
  BY <1>1, <1>3, <1>4 DEF NoOrphans, ReadyHasKeys, NotBegun
<1>9. KeyCountExact'
  BY <1>1, <1>4, FS_EmptySet DEF KeyCountExact
<1>10. RunsOK'
  <2> SUFFICES ASSUME NEW q \in Run PROVE RunOK(run[q])'
    BY DEF RunsOK
  <2>1. PICK y : y = run'[q]
    OBVIOUS
  <2>2. /\ y.stage \in {"queued", "idle"}
        /\ y.stage = "queued" => y.skip = {} /\ y.instance.keyCount = 0
    BY <1>5, <1>6, <2>1 DEF Idle
  <2>3. RunOK(y)'
    BY <1>1, <1>4, <2>2 DEF RunOK, MarkedOK, SkipsOK, ReadOK, CountOK
  <2>4. QED
    BY <2>1, <2>3
<1>11. ReportDue'
  BY <1>5, <1>6 DEF ReportDue, Working
<1>12. QED
  BY <1>7, <1>8, <1>9, <1>10, <1>11 DEF Inv

(***************************************************************************)
(* processFile.                                                            *)
(***************************************************************************)

(* A write of the status neither brings a file back nor ends one.            *)
LEMMA StatusWritten ==
  ASSUME TypeOK, status # "NONE", NEW instance, NEW new \in {"PROCESSING", "READY", "FAILED"},
         WriteStatus(instance, new)
  PROVE  /\ status' \in Status /\ status' # "NONE" /\ (Exists' <=> Exists)
         /\ status' # status => status' = new
         /\ Exists /\ instance.status # new => status' = new
BY DEF TypeOK, Status, WriteStatus, Exists

(* A run takes up its job. Its mark is written, or its copy says that it is. *)
LEMMA MarkStep ==
  ASSUME Inv, NEW r \in Run, MarkProcessing(r)
  PROVE  Inv'
<1>1. /\ run[r].stage = "queued" /\ WriteStatus(run[r].instance, "PROCESSING")
      /\ UNCHANGED <<dialect, targets, keyCount, textVars, edit, edits, restarts, history>>
      /\ run' = [run EXCEPT ![r].stage = "working", ![r].instance.status = "PROCESSING"]
  BY DEF MarkProcessing
<1>2. TypeOK /\ RunOK(run[r]) /\ NotBegun /\ run[r] # Idle
      /\ UNCHANGED <<unreported, clashed>> /\ unreported' \in BOOLEAN
  BY <1>1 DEF Inv, RunsOK, Idle, history, TypeOK
<1>3. run[r] \in JobIn({"queued", "working"})
  BY <1>1, <1>2, Stages DEF TypeOK
<1>4. PICK x : x = [run[r] EXCEPT !.stage = "working", !.instance.status = "PROCESSING"]
  OBVIOUS
<1>5. /\ x \in JobIn({"queued", "working"}) /\ x.stage = "working" /\ x.skip = run[r].skip
      /\ x.instance.status = "PROCESSING" /\ x.instance.keyCount = run[r].instance.keyCount
  BY <1>3, <1>4 DEF JobIn, InstanceOf, Status
<1>6. run' = [run EXCEPT ![r] = x]
  BY <1>1, <1>2, <1>4 DEF TypeOK
<1>7. x \in RunState
  BY <1>5 DEF RunState
<1>8. /\ status' \in Status /\ status' # "NONE" /\ (Exists' <=> Exists)
      /\ status' # status => status' = "PROCESSING"
  BY <1>1, <1>2, StatusWritten DEF NotBegun
<1>9. RunOK(x)'
  <2>1. UNCHANGED <<dialect, keyCount, Keys>>
    BY <1>1 DEF textVars, Keys
  <2>2. MarkedOK(x)' /\ ReadOK(x)'
    BY <1>5 DEF MarkedOK, ReadOK
  <2>3. Exists' => SkipsOK(x)'
    BY <1>1, <1>2, <1>5, <1>8, <2>1 DEF RunOK, SkipsOK
  <2>4. dialect' = "sqlite" => CountOK(x)'
    BY <1>1, <1>2, <1>5, <1>8, <2>1 DEF RunOK, CountOK
  <2>5. QED
    BY <2>2, <2>3, <2>4 DEF RunOK
<1>10. ReportDue'
  BY <1>1, <1>5, <1>6, <1>7, <1>8, StillDue
<1>11. targets' \subseteq Lang
  BY <1>1, <1>2 DEF TypeOK
<1>12. QED
  BY <1>1, <1>2, <1>6, <1>7, <1>8, <1>9, <1>10, <1>11, RunStep

(* On PostgreSQL the transaction reads what it will compare with.            *)
LEMMA BeginPersistStep ==
  ASSUME Inv, NEW r \in Run, BeginPersist(r)
  PROVE  Inv'
<1>1. /\ dialect = "postgres" /\ run[r].stage = "working" /\ DOMAIN run[r].doc # {}
      /\ UNCHANGED <<dialect, status, targets, keyCount, textVars, edit, edits, restarts, history>>
      /\ run' = [run EXCEPT ![r] = [stage |-> "saving", read |-> Stored, job |-> run[r]]]
  BY DEF BeginPersist, Translated, recordVars
<1>2. TypeOK /\ RunOK(run[r]) /\ NotBegun /\ run[r] # Idle
      /\ UNCHANGED <<unreported, clashed>> /\ unreported' \in BOOLEAN
  BY <1>1 DEF Inv, RunsOK, Idle, history, TypeOK
<1>3. run[r] \in JobIn({"working"})
  BY <1>1, <1>2, Stages DEF TypeOK, JobIn
<1>4. PICK x, read : read = Stored /\ x = [stage |-> "saving", read |-> read, job |-> run[r]]
  OBVIOUS
<1>5. x \in RunState
  <2>1. read \in [key : Keyed, row : Translations]
    BY <1>2, <1>4 DEF TypeOK, Stored
  <2>2. QED
    BY <1>3, <1>4, <2>1 DEF RunState
<1>6. run' = [run EXCEPT ![r] = x] /\ x.stage = "saving" /\ x.read = read /\ x.job = run[r]
  BY <1>1, <1>4
<1>7. status' \in Status /\ status' # "NONE" /\ (Exists' <=> Exists) /\ targets' \subseteq Lang
  BY <1>1, <1>2 DEF NotBegun, TypeOK, Exists
<1>8. RunOK(x)'
  <2>1. UNCHANGED <<dialect, Keys, key, row>> /\ read.key = key /\ read.row = row
    BY <1>1, <1>4 DEF textVars, Keys, Stored
  <2>2. MarkedOK(x)'
    BY <1>1, <1>2, <1>6 DEF RunOK, MarkedOK
  <2>3. Exists' => SkipsOK(x)'
    BY <1>1, <1>2, <1>6, <1>7, <2>1 DEF RunOK, SkipsOK
  <2>4. ReadOK(x)'
    BY <1>6, <2>1 DEF ReadOK, Keys
  <2>5. QED
    BY <1>1, <2>2, <2>3, <2>4 DEF RunOK
<1>9. ReportDue'
  BY <1>1, <1>5, <1>6, <1>7, StillDue
<1>10. QED
  BY <1>1, <1>2, <1>5, <1>6, <1>7, <1>8, <1>9, RunStep

(* The copy of a run that ends is marked, so that its verdict is written.    *)
LEMMA JobTyped ==
  ASSUME Inv, NEW r \in Run, run[r].stage \in {"working", "saving"}
  PROVE  /\ Job(r) \in JobIn({"queued", "working"}) /\ Job(r).instance.status = "PROCESSING"
         /\ Exists => Job(r).skip \subseteq Keys
         /\ dialect = "sqlite" => run[r].stage = "working" /\ Job(r) = run[r]
         /\ dialect = "sqlite" /\ Exists => Job(r).instance.keyCount <= keyCount
<1>1. TypeOK /\ RunOK(run[r])
  BY DEF Inv, RunsOK
<1>2. CASE run[r].stage = "working"
  <2>1. Job(r) = run[r] /\ run[r] \in JobIn({"queued", "working"})
    BY <1>1, <1>2, Stages DEF Job, TypeOK
  <2>2. QED
    BY <1>1, <1>2, <2>1 DEF RunOK, MarkedOK, SkipsOK, CountOK
<1>3. CASE run[r].stage = "saving"
  <2>1. Job(r) = run[r].job /\ run[r].job \in JobIn({"queued", "working"})
    BY <1>1, <1>3, Stages DEF Job, TypeOK, JobIn
  <2>2. QED
    BY <1>1, <1>3, <2>1 DEF RunOK, MarkedOK, SkipsOK, CountOK
<1>4. QED
  BY <1>2, <1>3

(* The copy a run holds when it fails does not say FAILED.                   *)
LEMMA HeldUnfailed ==
  ASSUME Inv, NEW r \in Run, Working(r) \/ run[r].stage = "saved"
  PROVE  Held(r).status # "FAILED"
<1>1. run[r] \in RunState
  BY DEF Inv, TypeOK
<1>2. CASE run[r].stage = "queued"
  <2>1. run[r].instance \in InstanceOf
    BY <1>1, <1>2, Stages DEF JobIn
  <2>2. Held(r).status = "PROCESSING"
    BY <1>2, <2>1 DEF Held, InstanceOf
  <2>3. QED
    BY <2>2
<1>3. CASE run[r].stage \in {"working", "saving"}
  <2>1. Held(r) = Job(r).instance
    BY <1>3 DEF Held
  <2>2. QED
    BY <1>3, <2>1, JobTyped
<1>4. CASE run[r].stage = "saved"
  BY <1>1, <1>4, Stages DEF Held, Job, Unrecorded
<1>5. QED
  BY <1>2, <1>3, <1>4 DEF Working

(* The catch of processFile reports FAILED.                                  *)
LEMMA FailStep ==
  ASSUME Inv, NEW r \in Run, Fail(r)
  PROVE  Inv'
<1>1. /\ Working(r) \/ run[r].stage = "saved"
      /\ WriteStatus(Held(r), "FAILED") /\ run' = [run EXCEPT ![r] = Over]
      /\ UNCHANGED <<dialect, targets, keyCount, textVars, edit, edits, restarts, clashed>>
      /\ unreported' \in BOOLEAN
  BY DEF Fail, Launch
<1>2. TypeOK /\ NotBegun /\ run[r] # Idle /\ Held(r).status # "FAILED"
  BY <1>1, HeldUnfailed DEF Inv, Idle, Working
<1>3. /\ status' \in Status /\ status' # "NONE" /\ (Exists' <=> Exists)
      /\ status' # status => status' = "FAILED"
      /\ Exists => status' = "FAILED"
  BY <1>1, <1>2, StatusWritten DEF NotBegun
<1> PICK x : x = Over
  OBVIOUS
<1>4. x \in RunState /\ RunOK(x)' /\ run' = [run EXCEPT ![r] = x]
  BY <1>1 DEF RunState, RunOK, MarkedOK, SkipsOK, ReadOK, CountOK, Over
<1>5. ReportDue' /\ targets' \subseteq Lang
  BY <1>1, <1>2, <1>3, <1>4, StillDue DEF TypeOK
<1>6. QED
  BY <1>1, <1>3, <1>4, <1>5, RunStep

(* The catch cannot write: the run ends, and what it should have said is     *)
(* remembered as unreported.                                                 *)
LEMMA FailUnreportedStep ==
  ASSUME Inv, NEW r \in Run, FailUnreported(r)
  PROVE  Inv'
<1>1. /\ Working(r) \/ run[r].stage = "saved"
      /\ run' = [run EXCEPT ![r] = Over] /\ unreported' = (unreported \/ Working(r))
      /\ UNCHANGED <<dialect, status, targets, keyCount, textVars, edit, edits, restarts, clashed>>
  BY DEF FailUnreported, Launch, recordVars
<1>2. TypeOK /\ NotBegun /\ run[r] # Idle
  BY <1>1 DEF Inv, Idle, Working
<1>3. /\ status' \in Status /\ status' # "NONE" /\ (Exists' <=> Exists)
      /\ targets' \subseteq Lang /\ unreported' \in BOOLEAN
  BY <1>1, <1>2 DEF NotBegun, TypeOK, Exists
<1> PICK x : x = Over
  OBVIOUS
<1>4. x \in RunState /\ RunOK(x)' /\ run' = [run EXCEPT ![r] = x]
  BY <1>1 DEF RunState, RunOK, MarkedOK, SkipsOK, ReadOK, CountOK, Over
<1>5. ReportDue'
  <2>1. unreported' \/ (UNCHANGED <<status, unreported>> /\ ~Working(r))
    BY <1>1, <1>2 DEF TypeOK
  <2>2. QED
    BY <1>1, <1>3, <1>4, <2>1, StillDue
<1>6. QED
  BY <1>1, <1>3, <1>4, <1>5, RunStep

(* What a run that persists has in hand: its job, the master texts it holds  *)
(* and what its transaction has read.                                        *)
LEMMA PersistHolds ==
  ASSUME Inv, NEW r \in Run, Saving(r), Exists
  PROVE  /\ run[r].stage \in {"working", "saving"}
         /\ DOMAIN Job(r).doc # {} /\ Fresh(Job(r)) \subseteq Name
         /\ \A m \in Masters(Job(r)) : m \in [Fresh(Job(r)) -> Text]
         /\ Read(r).key \in Keyed /\ Read(r).row \in Translations
         /\ \A n \in Name : Read(r).key[n] # NoText => n \in Keys
         /\ \A p \in Name \X Lang : Read(r).row[p] # NoRow => row[p] # NoRow
         /\ dialect = "sqlite" => Read(r).key = key /\ Read(r).row = row
<1>1. TypeOK /\ RunOK(run[r])
  BY DEF Inv, RunsOK
<1>2. run[r].stage \in {"working", "saving"}
  BY DEF Saving, Translated
<1>3. Job(r) \in JobIn({"queued", "working"})
  BY <1>2, JobTyped
<1>4. DOMAIN Job(r).doc # {}
  BY <1>1, <1>2 DEF Saving, Translated, Job, RunOK, MarkedOK
<1>5. PICK D \in SUBSET Name : Job(r).doc \in [D -> Text]
  BY <1>3, DocIs DEF JobIn
<1>6. Fresh(Job(r)) \subseteq Name /\ Fresh(Job(r)) \subseteq D
  BY <1>5 DEF Fresh
<1>7. \A m \in Masters(Job(r)) : m \in [Fresh(Job(r)) -> Text]
  BY <1>5, <1>6 DEF Masters
<1>8. CASE run[r].stage = "working"
  <2>1. Read(r).key = key /\ Read(r).row = row
    BY <1>8 DEF Read, Stored
  <2>2. QED
    BY <1>1, <1>2, <1>4, <1>6, <1>7, <2>1 DEF TypeOK, Keys
<1>9. CASE run[r].stage = "saving"
  <2>1. Read(r) = run[r].read
    BY <1>9 DEF Read
  <2>2. run[r].read.key \in Keyed /\ run[r].read.row \in Translations
    BY <1>1, <1>9, Stages DEF TypeOK
  <2>3. dialect # "sqlite" /\ ReadOK(run[r])
    BY <1>1, <1>9 DEF RunOK, CountOK
  <2>4. QED
    BY <1>2, <1>4, <1>6, <1>7, <1>9, <2>1, <2>2, <2>3 DEF ReadOK
<1>10. QED
  BY <1>2, <1>8, <1>9

(* A row that was read and one that was not are both left as rows.           *)
LEMMA NewRowTyped ==
  ASSUME NEW now \in Row \cup {NoRow}, NEW old \in Row \cup {NoRow}, NEW t \in Text,
         old # NoRow => now # NoRow
  PROVE  NewRow(now, old, t) \in Row
<1>1. CASE old = NoRow
  BY <1>1 DEF NewRow, Machine, Row
<1>2. CASE old # NoRow
  <2>1. now \in Row /\ old \in Row
    BY <1>2
  <2>2. Rewritten(now, old, t) \in Row
    BY <2>1 DEF Rewritten, Row
  <2>3. QED
    BY <1>2, <2>1, <2>2 DEF NewRow
<1>3. QED
  BY <1>1, <1>2

(* What a run writes is the machine's; a row still a person's is untouched.  *)
LEMMA NewRowMachine ==
  ASSUME NEW now, NEW old, NEW t, NewRow(now, old, t).by = "human"
  PROVE  NewRow(now, old, t) = now
BY DEF NewRow, Machine, Rewritten

(* A run is persisted: keys and rows only become more, the count is that of  *)
(* the keys on SQLite, and the file is READY.                                *)
LEMMA PersistStep ==
  ASSUME Inv, NEW r \in Run, Persist(r)
  PROVE  Inv'
<1>1. Saving(r) /\ Exists /\ TypeOK /\ NotBegun
  BY DEF Persist, Accepts, Inv
<1>2. PICK job, read : job = Job(r) /\ read = Read(r)
  OBVIOUS
<1>3. PICK m \in Masters(job), count \in Counts(job, read) :
        /\ key' = [n \in Name |->
                     IF n \in Fresh(job) /\ read.key[n] # m[n] THEN m[n] ELSE key[n]]
        /\ row' = [p \in Name \X Lang |->
                     IF InScope(job, p) THEN NewRow(row[p], read.row[p], m[p[1]]) ELSE row[p]]
        /\ keyCount' = IF count # job.instance.keyCount THEN count ELSE keyCount
  BY <1>2 DEF Persist
<1>4. /\ kept' = [n \in Name |-> IF n \in Fresh(job) THEN ~job.english ELSE kept[n]]
      /\ WriteStatus(job.instance, "READY")
      /\ UNCHANGED <<dialect, targets, edit, edits, restarts, clashed>>
      /\ unreported' = FALSE
  BY <1>2 DEF Persist
<1>5. PICK x \in {Over, Unrecorded} : run' = [run EXCEPT ![r] = x]
  BY DEF Persist, Launch, Committed
<1>6. /\ job.instance.status = "PROCESSING" /\ job \in JobIn({"queued", "working"})
      /\ job.skip \subseteq Keys
      /\ dialect = "sqlite" => job.instance.keyCount <= keyCount
  BY <1>1, <1>2, JobTyped DEF Saving, Translated
<1>7. /\ DOMAIN job.doc # {} /\ Fresh(job) \subseteq Name /\ m \in [Fresh(job) -> Text]
      /\ read.key \in Keyed /\ read.row \in Translations
      /\ \A n \in Name : read.key[n] # NoText => n \in Keys
      /\ \A p \in Name \X Lang : read.row[p] # NoRow => row[p] # NoRow
      /\ dialect = "sqlite" => read.key = key /\ read.row = row
  BY <1>1, <1>2, PersistHolds
<1>8. status' = "READY" /\ Exists'
  <2>1. status # "NONE"
    BY <1>1 DEF Exists
  <2>2. QED
    BY <1>1, <1>4, <1>6, <2>1, StatusWritten
<1>9. key' \in Keyed /\ Keys' = Keys \cup Fresh(job) /\ Keys \subseteq Name
  <2>1. \A n \in Name : key[n] \in Text \cup {NoText} /\ (n \in Keys <=> key[n] # NoText)
    BY <1>1 DEF TypeOK, Keyed, Keys
  <2>2. \A n \in Fresh(job) : key'[n] \in Text
    <3> SUFFICES ASSUME NEW n \in Fresh(job) PROVE key'[n] \in Text
      OBVIOUS
    <3>1. n \in Name /\ m[n] \in Text
      BY <1>7
    <3>2. CASE read.key[n] # m[n]
      BY <1>3, <3>1, <3>2
    <3>3. CASE read.key[n] = m[n]
      <4>1. n \in Keys
        BY <1>7, <3>1, <3>3, NullAssumption
      <4>2. QED
        BY <1>3, <2>1, <3>1, <3>3, <4>1
    <3>4. QED
      BY <3>2, <3>3
  <2>3. \A n \in Name \ Fresh(job) : key'[n] = key[n]
    BY <1>3
  <2>4. key' \in [Name -> Text \cup {NoText}]
    <3>1. \A n \in Name : key'[n] \in Text \cup {NoText}
      BY <2>1, <2>2, <2>3
    <3>2. key' = [n \in Name |-> key'[n]]
      BY <1>3
    <3>3. QED
      BY <3>1, <3>2
  <2>5. QED
    BY <1>7, <2>1, <2>2, <2>3, <2>4, NullAssumption DEF Keyed, Keys
<1>10. \A p \in Name \X Lang :
         /\ InScope(job, p) => p[1] \in Fresh(job) /\ row'[p] \in Row
         /\ ~InScope(job, p) => row'[p] = row[p]
  <2> SUFFICES ASSUME NEW p \in Name \X Lang
               PROVE  /\ InScope(job, p) => p[1] \in Fresh(job) /\ row'[p] \in Row
                      /\ ~InScope(job, p) => row'[p] = row[p]
    OBVIOUS
  <2>1. CASE InScope(job, p)
    <3>1. p[1] \in Fresh(job) /\ m[p[1]] \in Text
      BY <1>7, <2>1 DEF InScope
    <3>2. row[p] \in Row \cup {NoRow} /\ read.row[p] \in Row \cup {NoRow}
          /\ (read.row[p] # NoRow => row[p] # NoRow)
      BY <1>1, <1>7 DEF TypeOK, Translations
    <3>3. row'[p] = NewRow(row[p], read.row[p], m[p[1]])
      BY <1>3, <2>1
    <3>4. QED
      BY <2>1, <3>1, <3>2, <3>3, NewRowTyped
  <2>2. CASE ~InScope(job, p)
    BY <1>3, <2>2
  <2>3. QED
    BY <2>1, <2>2
<1>11. row' \in Translations /\ \A p \in Name \X Lang : row[p] # NoRow => row'[p] # NoRow
  <2>1. row' = [p \in Name \X Lang |-> row'[p]]
    BY <1>3
  <2>2. \A p \in Name \X Lang : row'[p] \in Row \cup {NoRow}
    BY <1>1, <1>10 DEF TypeOK, Translations
  <2>3. row' \in Translations
    BY <2>1, <2>2 DEF Translations
  <2>4. QED
    BY <1>10, <2>3, RowAssumption
<1>12. count \in 0..Cardinality(Name) /\ (dialect = "sqlite" => count = Cardinality(Keys'))
  <2>1. PICK k \in {read.key, key} : count = Cardinality(Fresh(job) \cup {n \in Name : k[n] # NoText})
    BY DEF Counts
  <2>2. Fresh(job) \cup {n \in Name : k[n] # NoText} \in SUBSET Name
    BY <1>7
  <2>3. dialect = "sqlite" => Fresh(job) \cup {n \in Name : k[n] # NoText} = Keys'
    BY <1>7, <1>9 DEF Keys
  <2>4. QED
    BY <2>1, <2>2, <2>3, Counted
<1>13. keyCount' \in 0..Cardinality(Name)
  BY <1>1, <1>3, <1>12 DEF TypeOK
<1>14. dialect = "sqlite" => keyCount' = Cardinality(Keys') /\ keyCount <= keyCount'
  <2> SUFFICES ASSUME dialect = "sqlite"
               PROVE  keyCount' = Cardinality(Keys') /\ keyCount <= keyCount'
    OBVIOUS
  <2>1. keyCount = Cardinality(Keys)
    BY DEF Inv, KeyCountExact
  <2>2. PICK old, new : old = Cardinality(Keys) /\ new = Cardinality(Keys')
    OBVIOUS
  <2>3. old \in Nat /\ new \in Nat /\ old <= new
    <3>1. Keys' \in SUBSET Name /\ Keys \in SUBSET Keys'
      BY <1>7, <1>9
    <3>2. IsFiniteSet(Keys') /\ Cardinality(Keys') \in 0..Cardinality(Name)
      BY <3>1, Counted
    <3>3. Cardinality(Keys) <= Cardinality(Keys') /\ Cardinality(Keys) \in Nat
      BY <3>1, <3>2, FS_Subset, FS_CardinalityType
    <3>4. Cardinality(Name) \in Nat
      BY NameAssumption, FS_CardinalityType
    <3>5. QED
      BY <2>2, <3>2, <3>3, <3>4
  <2>4. job.instance.keyCount \in Nat /\ job.instance.keyCount <= old
    <3>1. job.instance.keyCount \in 0..Cardinality(Name)
      BY <1>6 DEF JobIn, InstanceOf
    <3>2. QED
      BY <1>6, <2>1, <2>2, <3>1, NameAssumption, FS_CardinalityType
  <2>5. keyCount' = IF new # job.instance.keyCount THEN new ELSE old
    BY <1>3, <1>12, <2>1, <2>2
  <2>6. keyCount' = new
    BY <2>3, <2>4, <2>5
  <2>7. QED
    BY <2>1, <2>2, <2>3, <2>6
<1>15. x \in RunState /\ RunOK(x)'
  BY DEF RunState, RunOK, MarkedOK, SkipsOK, ReadOK, CountOK, Over, Unrecorded
<1>16. TypeOK'
  <2>1. kept' \in [Name -> BOOLEAN]
    BY <1>1, <1>4, <1>6 DEF TypeOK, JobIn
  <2>2. run' \in [Run -> RunState]
    BY <1>1, <1>5, <1>15 DEF TypeOK
  <2>3. RunState' = RunState
    BY DEF RunState, Unrecorded
  <2>4. QED
    BY <1>1, <1>4, <1>8, <1>9, <1>11, <1>13, <2>1, <2>2, <2>3 DEF TypeOK, Status
<1>17. NoOrphans' /\ ReadyHasKeys'
  <2>1. \A p \in Name \X Lang : row'[p] # NoRow => p[1] \in Keys'
    BY <1>9, <1>10 DEF Inv, NoOrphans
  <2>2. Keys' # {}
    BY <1>6, <1>7, <1>9 DEF Fresh
  <2>3. QED
    BY <1>8, <2>1, <2>2 DEF NoOrphans, ReadyHasKeys
<1>18. RunsOK'
  <2>1. Grown
    BY <1>1, <1>9, <1>11 DEF Grown
  <2>2. \A q \in Run : run'[q] = run[q] \/ RunOK(run[q])'
    <3> SUFFICES ASSUME NEW q \in Run, q = r PROVE RunOK(run[q])'
      BY <1>1, <1>5 DEF TypeOK
    <3>1. PICK y : y = run'[q]
      OBVIOUS
    <3>2. y = x
      BY <1>1, <1>5, <3>1 DEF TypeOK
    <3>3. QED
      BY <1>15, <3>1, <3>2
  <2>3. RunsOK /\ Cardinality(Name) \in Nat
    BY NameAssumption, FS_CardinalityType DEF Inv
  <2>4. dialect = "sqlite" => keyCount <= keyCount' /\ keyCount' \in Nat
    BY <1>13, <1>14, <2>3
  <2>5. QED
    BY <1>1, <1>4, <2>1, <2>2, <2>3, <2>4, RunsKept
<1>19. KeyCountExact' /\ ReportDue' /\ NotBegun'
  BY <1>4, <1>8, <1>14 DEF KeyCountExact, ReportDue, NotBegun
<1>20. CorrectionsOK'
  <2> SUFFICES ASSUME NEW p \in Name \X Lang, row'[p] # NoRow, row'[p].by = "human", p \notin clashed
               PROVE  row'[p].manual /\ row'[p].hash = row'[p].of
    BY <1>4 DEF CorrectionsOK
  <2>1. row'[p] = row[p]
    <3>1. CASE ~InScope(job, p)
      BY <1>10, <3>1
    <3>2. CASE InScope(job, p)
      <4>1. row'[p] = NewRow(row[p], read.row[p], m[p[1]])
        BY <1>3, <3>2
      <4>2. QED
        BY <4>1, NewRowMachine
    <3>3. QED
      BY <3>1, <3>2
  <2>2. QED
    BY <2>1 DEF Inv, CorrectionsOK
<1>21. QED
  BY <1>16, <1>17, <1>18, <1>19, <1>20 DEF Inv

(***************************************************************************)
(* The editor, deletion and restart.                                       *)
(***************************************************************************)

(* A step that touches neither the record nor a run, and keeps every key and *)
(* row where it is.                                                          *)
LEMMA EditStep ==
  ASSUME Inv, UNCHANGED <<dialect, recordVars, kept, run, restarts, unreported>>,
         clashed' \subseteq Name \X Lang, CorrectionsOK',
         key' \in Keyed, row' \in Translations, Keys' = Keys,
         \A p \in Name \X Lang : row'[p] # NoRow <=> row[p] # NoRow,
         edit' \in Edit \cup {NoEdit}, edits' \in 0..MaxEdits
  PROVE  Inv'
<1>1. UNCHANGED <<dialect, status, targets, keyCount, kept, run, restarts, unreported>> /\ TypeOK
  BY DEF recordVars, Inv
<1>2. TypeOK'
  <2>1. RunState' = RunState
    BY DEF RunState, Unrecorded
  <2>2. QED
    BY <1>1, <2>1 DEF TypeOK
<1>3. Exists' <=> Exists
  BY <1>1 DEF Exists
<1>4. RunsOK'
  <2>1. Grown
    BY <1>3 DEF Grown
  <2>2. keyCount' \in Nat /\ keyCount <= keyCount'
    BY <1>1, NameAssumption, FS_CardinalityType DEF TypeOK
  <2>3. QED
    BY <1>1, <2>1, <2>2, RunsKept DEF Inv
<1>5. NoOrphans' /\ ReadyHasKeys' /\ KeyCountExact' /\ NotBegun'
  BY <1>1, <1>3 DEF Inv, NoOrphans, ReadyHasKeys, KeyCountExact, NotBegun
<1>6. ReportDue'
  BY <1>1, <1>3 DEF Inv, ReportDue, Working
<1>7. QED
  BY <1>2, <1>4, <1>5, <1>6 DEF Inv

(* A reviewer reads what is to be corrected.                                 *)
LEMMA ReadStep ==
  ASSUME Inv,
         \/ \E n \in Name, l \in Lang : ReadTranslation(n, l)
         \/ \E n \in Name, t \in Text : ReadMaster(n, t)
  PROVE  Inv'
<1>1. /\ UNCHANGED <<dialect, recordVars, textVars, run, restarts, unreported, clashed>>
      /\ edits < MaxEdits /\ edits' = edits + 1
  BY DEF ReadTranslation, ReadMaster, CanEdit, history
<1>2. TypeOK /\ NoOrphans /\ CorrectionsOK
  BY DEF Inv
<1>3. edits' \in 0..MaxEdits
  BY <1>1, <1>2, BoundAssumption DEF TypeOK
<1>4. edit' \in Edit
  <2>1. CASE \E n \in Name, l \in Lang : ReadTranslation(n, l)
    <3>1. PICK n \in Name, l \in Lang : ReadTranslation(n, l)
      BY <2>1
    <3>2. PICK p : p = <<n, l>>
      OBVIOUS
    <3>3. p \in Name \X Lang /\ p[1] = n /\ row[p] # NoRow
      BY <3>1, <3>2 DEF ReadTranslation
    <3>4. row[p] \in Row /\ key[n] \in Text
      BY <1>2, <3>3 DEF TypeOK, Translations, Keyed, NoOrphans, Keys
    <3>5. edit' = [kind |-> "row", at |-> p, old |-> row[p], hash |-> key[n]]
      BY <3>1, <3>2 DEF ReadTranslation
    <3>6. QED
      BY <3>3, <3>4, <3>5 DEF Edit
  <2>2. CASE \E n \in Name, t \in Text : ReadMaster(n, t)
    BY <2>2 DEF ReadMaster, Edit
  <2>3. QED
    BY <2>1, <2>2
<1>5. UNCHANGED <<key, kept, row>> /\ Keys' = Keys
  BY <1>1 DEF textVars, Keys
<1>6. CorrectionsOK'
  BY <1>1, <1>2, <1>5 DEF CorrectionsOK
<1>7. QED
  BY <1>1, <1>2, <1>3, <1>4, <1>5, <1>6, EditStep DEF TypeOK

(* updateTranslation finds the row, or the file was deleted meanwhile.       *)
LEMMA UpdateRowStep ==
  ASSUME Inv, UpdateTranslation
  PROVE  Inv'
<1>1. TypeOK /\ edit \in Edit /\ edit.kind = "row"
  BY DEF UpdateTranslation, Inv, TypeOK
<1>2. /\ edit.at \in Name \X Lang /\ edit.old \in Row /\ edit.hash \in Text
  BY <1>1 DEF Edit
<1>3. PICK p, now : p = edit.at /\ now = row[p]
  OBVIOUS
<1>4. PICK new : new = Correction(now, edit.old, edit.hash)
  OBVIOUS
<1>5. /\ row' = [row EXCEPT ![p] = IF now = NoRow THEN NoRow ELSE new]
      /\ clashed' = IF now = edit.old THEN clashed \ {p} ELSE clashed \cup {p}
      /\ edit' = NoEdit
      /\ UNCHANGED <<dialect, recordVars, key, kept, run, edits, restarts, unreported>>
  BY <1>3, <1>4 DEF UpdateTranslation
<1>6. now # NoRow => now \in Row
  BY <1>1, <1>2, <1>3 DEF TypeOK, Translations
<1>7. now # NoRow => new \in Row
  BY <1>2, <1>4, <1>6 DEF Row, Correction
<1>8. row' \in Translations
  BY <1>1, <1>5, <1>7 DEF TypeOK, Translations
<1>9. \A q \in Name \X Lang : row'[q] # NoRow <=> row[q] # NoRow
  BY <1>1, <1>2, <1>3, <1>5, <1>7, RowAssumption DEF TypeOK, Translations
<1>10. Keys' = Keys
  BY <1>5 DEF Keys
<1>11. CorrectionsOK'
  <2>1. \A q \in Name \X Lang : q # p => row'[q] = row[q] /\ (q \in clashed' <=> q \in clashed)
    BY <1>1, <1>5 DEF TypeOK, Translations
  <2>2. ASSUME now = edit.old, now # NoRow PROVE row'[p].manual /\ row'[p].hash = row'[p].of
    <3>1. row'[p] = new /\ now \in Row
      BY <1>1, <1>2, <1>3, <1>5, <1>6, <2>2 DEF TypeOK, Translations
    <3>2. new.manual /\ new.hash = new.of
      BY <1>4, <2>2, <3>1 DEF Correction, Row
    <3>3. QED
      BY <3>1, <3>2
  <2>3. now # edit.old => p \in clashed'
    BY <1>5
  <2>4. now = NoRow => row'[p] = NoRow
    BY <1>1, <1>2, <1>3, <1>5 DEF TypeOK, Translations
  <2>5. QED
    BY <2>1, <2>2, <2>3, <2>4 DEF Inv, CorrectionsOK
<1>12. clashed' \subseteq Name \X Lang
  BY <1>1, <1>2, <1>3, <1>5 DEF TypeOK
<1>13. QED
  BY <1>1, <1>5, <1>8, <1>9, <1>10, <1>11, <1>12, EditStep DEF TypeOK

(* updateMasterText changes the text of a key that is there.                 *)
LEMMA UpdateKeyStep ==
  ASSUME Inv, UpdateMasterText
  PROVE  Inv'
<1>1. TypeOK /\ edit \in Edit /\ edit.kind = "key"
  BY DEF UpdateMasterText, Inv, TypeOK
<1>2. edit.at \in Name /\ edit.text \in Text
  BY <1>1 DEF Edit
<1>3. /\ key' = [key EXCEPT ![edit.at] = IF key[edit.at] = NoText THEN NoText ELSE edit.text]
      /\ edit' = NoEdit
      /\ UNCHANGED <<dialect, recordVars, kept, row, run, edits, restarts, unreported, clashed>>
  BY DEF UpdateMasterText, history
<1>4. key' \in Keyed
  BY <1>1, <1>2, <1>3 DEF TypeOK, Keyed
<1>5. Keys' = Keys
  BY <1>1, <1>2, <1>3, NullAssumption DEF TypeOK, Keyed, Keys
<1>6. CorrectionsOK'
  BY <1>3 DEF Inv, CorrectionsOK
<1>7. QED
  BY <1>1, <1>3, <1>4, <1>5, <1>6, EditStep DEF TypeOK

(* deleteFile takes the keys and the rows, and nothing brings them back.     *)
LEMMA DeleteStep ==
  ASSUME Inv, DeleteFile
  PROVE  Inv'
<1>1. /\ status' = "GONE" /\ targets' = {} /\ keyCount' = 0
      /\ key' = [n \in Name |-> NoText] /\ kept' = [n \in Name |-> FALSE]
      /\ row' = [p \in Name \X Lang |-> NoRow]
      /\ UNCHANGED <<dialect, run, edit, edits, restarts, unreported, clashed>>
  BY DEF DeleteFile, history
<1>2. TypeOK /\ RunsOK
  BY DEF Inv
<1>3. ~Exists' /\ Keys' = {}
  BY <1>1 DEF Exists, Keys
<1>4. TypeOK'
  <2>1. 0 \in 0..Cardinality(Name)
    BY NameAssumption, FS_CardinalityType
  <2>2. RunState' = RunState
    BY DEF RunState, Unrecorded
  <2>3. QED
    BY <1>1, <1>2, <2>1, <2>2 DEF TypeOK, Status, Keyed, Translations
<1>5. RunsOK'
  <2>1. Grown
    BY <1>3 DEF Grown
  <2>2. QED
    BY <1>1, <1>2, <1>3, <2>1, RunsKept
<1>6. NoOrphans' /\ ReadyHasKeys' /\ NotBegun' /\ ReportDue' /\ KeyCountExact' /\ CorrectionsOK'
  BY <1>1, <1>3, FS_EmptySet
    DEF NoOrphans, ReadyHasKeys, NotBegun, ReportDue, KeyCountExact, CorrectionsOK
<1>7. QED
  BY <1>4, <1>5, <1>6 DEF Inv

(* A restart ends the runs and leaves the tables.                            *)
LEMMA RestartStep ==
  ASSUME Inv, Restart
  PROVE  Inv'
<1>1. /\ restarts < MaxRestarts[dialect] /\ restarts' = restarts + 1 /\ edit' = NoEdit
      /\ run' = [r \in Run |-> IF run[r] = Idle THEN Idle ELSE Over]
      /\ unreported' = (unreported \/ \E r \in Run : Working(r))
      /\ UNCHANGED <<dialect, status, targets, keyCount, key, kept, row, edits, clashed>>
  BY DEF Restart, recordVars, textVars
<1>2. TypeOK /\ RunsOK
  BY DEF Inv
<1>3. MaxRestarts[dialect] \in Nat /\ restarts \in Nat
  BY <1>2, BoundAssumption DEF TypeOK
<1>4. (Exists' <=> Exists) /\ Keys' = Keys
  BY <1>1 DEF Exists, Keys
<1>5. TypeOK'
  <2>1. RunState' = RunState /\ Idle \in RunState /\ Over \in RunState
    BY DEF RunState, Unrecorded
  <2>2. run' \in [Run -> RunState]
    BY <1>1, <2>1
  <2>3. restarts' \in 0..MaxRestarts[dialect]
    BY <1>1, <1>3
  <2>4. QED
    BY <1>1, <1>2, <2>1, <2>2, <2>3 DEF TypeOK
<1>6. RunsOK'
  <2> SUFFICES ASSUME NEW q \in Run PROVE RunOK(run[q])'
    BY DEF RunsOK
  <2>1. PICK x : x = run'[q]
    OBVIOUS
  <2>2. x.stage \in {"idle", "over"}
    BY <1>1, <2>1 DEF Idle, Over
  <2>3. RunOK(x)'
    BY <2>2 DEF RunOK, MarkedOK, SkipsOK, ReadOK, CountOK
  <2>4. QED
    BY <2>1, <2>3
<1>7. ReportDue' /\ CorrectionsOK'
  BY <1>1, <1>2, <1>4 DEF Inv, ReportDue, CorrectionsOK, TypeOK
<1>8. NoOrphans' /\ ReadyHasKeys' /\ NotBegun' /\ KeyCountExact'
  BY <1>1, <1>4 DEF Inv, NoOrphans, ReadyHasKeys, NotBegun, KeyCountExact
<1>9. QED
  BY <1>5, <1>6, <1>7, <1>8 DEF Inv

(***************************************************************************)
(* The invariants.                                                         *)
(***************************************************************************)

(* Before the upload there is nothing.                                       *)
LEMMA InitInv == Init => Inv
<1> SUFFICES ASSUME Init PROVE Inv
  OBVIOUS
<1>1. /\ dialect \in Dialects /\ status = "NONE" /\ targets = {} /\ keyCount = 0
      /\ key = [n \in Name |-> NoText] /\ kept = [n \in Name |-> FALSE]
      /\ row = [p \in Name \X Lang |-> NoRow] /\ run = [r \in Run |-> Idle]
      /\ edit = NoEdit /\ edits = 0 /\ restarts = 0 /\ unreported = FALSE /\ clashed = {}
  BY DEF Init
<1>2. Keys = {} /\ ~Exists
  BY <1>1 DEF Keys, Exists
<1>3. TypeOK
  <2>1. 0 \in 0..Cardinality(Name)
    BY NameAssumption, FS_CardinalityType
  <2>2. 0 \in 0..MaxEdits /\ 0 \in 0..MaxRestarts[dialect]
    BY <1>1, BoundAssumption
  <2>3. Idle \in RunState
    BY DEF RunState
  <2>4. QED
    BY <1>1, <2>1, <2>2, <2>3 DEF TypeOK, Status, Keyed, Translations
<1>4. RunsOK
  BY <1>1 DEF RunsOK, RunOK, MarkedOK, SkipsOK, ReadOK, CountOK, Idle
<1>5. QED
  BY <1>1, <1>2, <1>3, <1>4, FS_EmptySet
    DEF Inv, NoOrphans, ReadyHasKeys, KeyCountExact, ReportDue, NotBegun, CorrectionsOK

(* Every step of a request, a run, a reviewer, a deletion or a restart       *)
(* preserves the invariant.                                                  *)
LEMMA InvStep == Inv /\ [Next]_vars => Inv'
<1> SUFFICES ASSUME Inv, [Next]_vars PROVE Inv'
  OBVIOUS
<1>1. ASSUME NEW r \in Run, CreateUpload(r) \/ Request(r) PROVE Inv'
  BY <1>1, UploadStep, RequestStep
<1>2. ASSUME NEW r \in Run, Begin(r) PROVE Inv'
  BY <1>2, AddStep, RetranslateStep, MergeStep, ReprocessStep DEF Begin
<1>3. ASSUME NEW r \in Run, Process(r) PROVE Inv'
  BY <1>3, MarkStep, BeginPersistStep, PersistStep, FailStep, FailUnreportedStep DEF Process
<1>4. ASSUME \/ \E n \in Name, l \in Lang : ReadTranslation(n, l)
             \/ \E n \in Name, t \in Text : ReadMaster(n, t)
      PROVE  Inv'
  BY <1>4, ReadStep
<1>5. CASE UpdateTranslation \/ UpdateMasterText
  BY <1>5, UpdateRowStep, UpdateKeyStep
<1>6. CASE DeleteFile \/ Restart
  BY <1>6, DeleteStep, RestartStep
<1>7. CASE UNCHANGED vars
  <2>1. /\ UNCHANGED <<dialect, recordVars, kept, run, restarts, unreported>>
        /\ UNCHANGED <<key, row, edit, edits, clashed>>
    BY <1>7 DEF vars, textVars, history
  <2>2. Keys' = Keys
    BY <2>1 DEF Keys
  <2>3. key' \in Keyed /\ row' \in Translations /\ edit' \in Edit \cup {NoEdit}
        /\ edits' \in 0..MaxEdits /\ clashed' \subseteq Name \X Lang /\ CorrectionsOK'
    BY <2>1 DEF Inv, TypeOK, CorrectionsOK
  <2>4. QED
    BY <2>1, <2>2, <2>3, EditStep
<1>8. QED
  BY <1>1, <1>2, <1>3, <1>4, <1>5, <1>6, <1>7 DEF Next

(* The inductive invariant holds in every reachable state.                   *)
THEOREM Invariance == Spec => []Inv
BY InitInv, InvStep, PTL DEF Spec

(* Whatever runs, requests, corrections, deletions and restarts overlap, the *)
(* file is well typed, no row outlives its key or its file, and a READY file *)
(* has keys.                                                                 *)
THEOREM FilesSoundTheorem == Spec => []FilesSound
<1>1. Inv => FilesSound
  BY DEF Inv, FilesSound
<1>2. QED
  BY <1>1, Invariance, PTL

(* A file that no run works on says READY or FAILED, unless the last run to  *)
(* end died with the process or could not write: every other run reported    *)
(* what became of it, whatever copy of the record it wrote from.             *)
THEOREM SettledTheorem == Spec => []SettledWhenQuiet
<1>1. Inv => SettledWhenQuiet
  BY DEF Inv, SettledWhenQuiet, ReportDue
<1>2. QED
  BY <1>1, Invariance, PTL

(* On SQLite files.key_count is the number of keys, although every run       *)
(* writes it by comparing with a copy of its own that may be old.            *)
THEOREM KeyCountTheorem == Spec => []KeyCountExact
<1>1. Inv => KeyCountExact
  BY DEF Inv
<1>2. QED
  BY <1>1, Invariance, PTL

(***************************************************************************)
(* What a run writes.                                                      *)
(***************************************************************************)

(* A run that goes from its transaction to its end with the file READY and   *)
(* nothing unreported is one that was persisted: no other step of any actor  *)
(* looks like that.                                                          *)
LEMMA SucceedsIsPersist ==
  ASSUME Inv, [Next]_vars, NEW r \in Run, Succeeds(r)
  PROVE  Persist(r)
<1>1. /\ run[r].stage \in {"working", "saving"} /\ Exists /\ status' = "READY"
      /\ run'[r] \in {Over, Unrecorded} /\ ~unreported' /\ Working(r)
  BY DEF Succeeds, Saving, Translated, Working
<1>2. run \in [Run -> RunState] /\ unreported \in BOOLEAN
  BY DEF Inv, TypeOK
<1>3. run'[r] # run[r]
  BY <1>1 DEF Over, Unrecorded
<1>4. ASSUME NEW q \in Run, NEW x, run' = [run EXCEPT ![q] = x] PROVE q = r
  BY <1>2, <1>3, <1>4
<1>5. ASSUME NEW q \in Run, CreateUpload(q) \/ Request(q) \/ Begin(q) \/ MarkProcessing(q)
      PROVE  FALSE
  <2>1. run[q].stage \in {"idle", "asked", "queued"}
    <3>1. CASE CreateUpload(q) \/ Request(q)
      BY <3>1 DEF CreateUpload, Request, IsNext, Idle
    <3>2. CASE Begin(q)
      <4>1. Asked(q)
        BY <3>2 DEF Begin, AddTargetLanguages, RetranslateKeys, MergeKeys, Reprocess
      <4>2. QED
        BY <4>1 DEF Asked
    <3>3. CASE MarkProcessing(q)
      BY <3>3 DEF MarkProcessing
    <3>4. QED
      BY <1>5, <3>1, <3>2, <3>3
  <2>2. \E x : run' = [run EXCEPT ![q] = x]
    <3>1. CASE MarkProcessing(q)
      <4>1. PICK x : x = [run[q] EXCEPT !.stage = "working", !.instance.status = "PROCESSING"]
        OBVIOUS
      <4>2. run' = [run EXCEPT ![q] = x]
        BY <1>2, <3>1, <4>1 DEF MarkProcessing
      <4>3. QED
        BY <4>2
    <3>2. CASE CreateUpload(q) \/ Request(q) \/ Begin(q)
      BY <3>2 DEF CreateUpload, Request, Begin, AddTargetLanguages, RetranslateKeys,
                  MergeKeys, Reprocess, Launch
    <3>3. QED
      BY <1>5, <3>1, <3>2
  <2>3. q = r
    BY <1>4, <2>2
  <2>4. QED
    BY <1>1, <2>1, <2>3
<1>6. ASSUME NEW q \in Run, BeginPersist(q) PROVE FALSE
  <2>1. run' = [run EXCEPT ![q] = [stage |-> "saving", read |-> Stored, job |-> run[q]]]
    BY <1>6 DEF BeginPersist
  <2>2. q = r
    BY <1>4, <2>1
  <2>3. run'[r].stage = "saving"
    BY <1>2, <2>1, <2>2
  <2>4. QED
    BY <1>1, <2>3 DEF Over, Unrecorded
<1>7. ASSUME NEW q \in Run, Fail(q) PROVE FALSE
  <2>1. run' = [run EXCEPT ![q] = Over] /\ WriteStatus(Held(q), "FAILED")
    BY <1>7 DEF Fail, Launch
  <2>2. q = r
    BY <1>4, <2>1
  <2>3. Held(r).status # "FAILED"
    BY <1>1, HeldUnfailed
  <2>4. QED
    BY <1>1, <2>1, <2>2, <2>3 DEF WriteStatus
<1>8. ASSUME NEW q \in Run, Persist(q) PROVE q = r
  BY <1>4, <1>8 DEF Persist, Launch
<1>9. ~Restart /\ \A q \in Run : ~FailUnreported(q)
  <2>1. ~Restart
    BY <1>1, <1>2 DEF Restart
  <2>2. ASSUME NEW q \in Run, FailUnreported(q) PROVE FALSE
    <3>1. run' = [run EXCEPT ![q] = Over] /\ unreported' = (unreported \/ Working(q))
      BY <2>2 DEF FailUnreported, Launch
    <3>2. q = r
      BY <1>4, <3>1
    <3>3. QED
      BY <1>1, <1>2, <3>1, <3>2
  <2>3. QED
    BY <2>1, <2>2
<1>10. ASSUME \/ \E n \in Name, l \in Lang : ReadTranslation(n, l)
              \/ \E n \in Name, t \in Text : ReadMaster(n, t)
              \/ UpdateTranslation \/ UpdateMasterText \/ DeleteFile \/ UNCHANGED vars
       PROVE  FALSE
  BY <1>3, <1>10 DEF ReadTranslation, ReadMaster, UpdateTranslation, UpdateMasterText,
                     DeleteFile, vars
<1>11. QED
  BY <1>5, <1>6, <1>7, <1>8, <1>9, <1>10 DEF Next, Process

(* What a run that is persisted leaves of a key and of a row: those of the   *)
(* master it holds, where they are in its scope.                             *)
LEMMA PersistWrites ==
  ASSUME Inv, NEW r \in Run, Persist(r)
  PROVE  \E m \in [Fresh(Job(r)) -> Text] :
           /\ \A n \in Fresh(Job(r)) :
                n \in Name /\ key'[n] = IF Read(r).key[n] # m[n] THEN m[n] ELSE key[n]
           /\ \A p \in Name \X Lang :
                row'[p] = IF InScope(Job(r), p) THEN NewRow(row[p], Read(r).row[p], m[p[1]]) ELSE row[p]
<1>1. PICK job, read : job = Job(r) /\ read = Read(r)
  OBVIOUS
<1>2. PICK m \in Masters(job) :
        /\ key' = [n \in Name |->
                     IF n \in Fresh(job) /\ read.key[n] # m[n] THEN m[n] ELSE key[n]]
        /\ row' = [p \in Name \X Lang |->
                     IF InScope(job, p) THEN NewRow(row[p], read.row[p], m[p[1]]) ELSE row[p]]
  BY <1>1 DEF Persist
<1>3. Saving(r) /\ Exists
  BY DEF Persist, Accepts
<1>4. Fresh(job) \subseteq Name /\ m \in [Fresh(job) -> Text]
  BY <1>1, <1>3, PersistHolds
<1>5. \A n \in Fresh(job) : n \in Name /\ key'[n] = IF read.key[n] # m[n] THEN m[n] ELSE key[n]
  BY <1>2, <1>4
<1>6. \A p \in Name \X Lang :
        row'[p] = IF InScope(job, p) THEN NewRow(row[p], read.row[p], m[p[1]]) ELSE row[p]
  BY <1>2
<1>7. QED
  BY <1>1, <1>4, <1>5, <1>6

(* On SQLite a persisted run leaves no row of an older master in its scope.  *)
LEMMA PersistFresh ==
  ASSUME Inv, NEW r \in Run, Persist(r), dialect = "sqlite",
         NEW p \in Fresh(Job(r)) \X Job(r).langs
  PROVE  row'[p] # NoRow /\ row'[p].hash = key'[p[1]]
<1>1. PICK m \in [Fresh(Job(r)) -> Text] :
        /\ \A n \in Fresh(Job(r)) :
             n \in Name /\ key'[n] = IF Read(r).key[n] # m[n] THEN m[n] ELSE key[n]
        /\ \A q \in Name \X Lang :
             row'[q] = IF InScope(Job(r), q) THEN NewRow(row[q], Read(r).row[q], m[q[1]]) ELSE row[q]
  BY PersistWrites
<1>2. Read(r).key = key /\ Read(r).row = row /\ Saving(r)
  BY PersistHolds DEF Persist, Accepts
<1>3. Job(r).langs \subseteq Lang
  <2>1. Job(r) \in JobIn({"queued", "working"})
    BY <1>2, JobTyped DEF Saving, Translated
  <2>2. QED
    BY <2>1 DEF JobIn
<1>4. p[1] \in Fresh(Job(r)) /\ p[1] \in Name /\ p \in Name \X Lang /\ p[2] \in Job(r).langs
  BY <1>1, <1>3
<1>5. PICK t, old : t = m[p[1]] /\ old = row[p]
  OBVIOUS
<1>6. t \in Text /\ key'[p[1]] = t
  BY <1>1, <1>2, <1>4, <1>5
<1>7. row'[p] = NewRow(old, old, t) /\ old \in Row \cup {NoRow}
  <2>1. InScope(Job(r), p)
    BY <1>4 DEF InScope
  <2>2. row \in Translations
    BY DEF Inv, TypeOK
  <2>3. QED
    BY <1>1, <1>2, <1>4, <1>5, <2>1, <2>2 DEF Translations
<1>8. NewRow(old, old, t) \in Row
  BY <1>6, <1>7, NewRowTyped
<1>9. NewRow(old, old, t).hash = t
  BY <1>6, <1>7 DEF NewRow, Machine, Corrected, Rewritten
<1>10. QED
  BY <1>6, <1>7, <1>8, <1>9, RowAssumption

(* A persisted run leaves a correction of the master that it leaves.         *)
LEMMA PersistKeeps ==
  ASSUME Inv, NEW r \in Run, Persist(r), NEW p \in Name \X Lang,
         row[p] # NoRow, row[p].by = "human", row[p].of = key'[p[1]], p \notin clashed,
         Read(r).row[p] = row[p], Read(r).key[p[1]] = key[p[1]]
  PROVE  row'[p] = row[p]
<1>1. PICK m \in [Fresh(Job(r)) -> Text] :
        /\ \A n \in Fresh(Job(r)) :
             n \in Name /\ key'[n] = IF Read(r).key[n] # m[n] THEN m[n] ELSE key[n]
        /\ \A q \in Name \X Lang :
             row'[q] = IF InScope(Job(r), q) THEN NewRow(row[q], Read(r).row[q], m[q[1]]) ELSE row[q]
  BY PersistWrites
<1>2. row[p].manual /\ row[p].hash = row[p].of
  BY DEF Inv, CorrectionsOK
<1>3. CASE ~InScope(Job(r), p)
  BY <1>1, <1>3
<1>4. CASE InScope(Job(r), p)
  <2>1. p[1] \in Fresh(Job(r))
    BY <1>4 DEF InScope
  <2>2. key'[p[1]] = m[p[1]]
    BY <1>1, <2>1
  <2>3. Corrected(row[p], m[p[1]])
    BY <1>2, <2>2 DEF Corrected
  <2>4. QED
    BY <1>1, <1>4, <2>3 DEF NewRow
<1>5. QED
  BY <1>3, <1>4

(* A correction outranks every rerun that leaves the text it translates,     *)
(* whatever requests, other runs and deletions came between.                 *)
THEOREM CorrectionKeptTheorem == Spec => CorrectionKept
<1>1. Inv /\ [Next]_vars =>
        \A r \in Run, p \in Name \X Lang :
          /\ Succeeds(r) /\ row[p] # NoRow /\ row[p].by = "human" /\ row[p].of = key'[p[1]]
          /\ Read(r).row[p] = row[p] /\ Read(r).key[p[1]] = key[p[1]] /\ p \notin clashed
          => row'[p] = row[p]
  BY SucceedsIsPersist, PersistKeeps
<1>2. QED
  BY <1>1, Invariance, PTL DEF Spec, CorrectionKept

(* On SQLite a run that succeeds leaves every row in its scope a translation *)
(* of the master it leaves, and a correction only where it is still one.     *)
THEOREM FreshAfterRunTheorem == Spec => FreshAfterRun
<1>1. Inv /\ [Next]_vars =>
        \A r \in Run : dialect = "sqlite" /\ Succeeds(r) =>
          \A p \in Fresh(Job(r)) \X Job(r).langs :
            row'[p] # NoRow /\ row'[p].hash = key'[p[1]]
  BY SucceedsIsPersist, PersistFresh
<1>2. QED
  BY <1>1, Invariance, PTL DEF Spec, FreshAfterRun

=============================================================================
