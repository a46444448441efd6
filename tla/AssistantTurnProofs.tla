------------------------ MODULE AssistantTurnProofs ------------------------
(***************************************************************************)
(* Proofs about AssistantTurn: its three invariants and the rule of who may *)
(* change what, for every set of organisations, projects, files and         *)
(* languages, every ceiling, and any number of role changes and removals    *)
(* meanwhile.                                                               *)
(*                                                                         *)
(* The inductive invariant adds to them what a call may rely on while it    *)
(* runs: CallOK, that its target and what it puts fit its tool and that it   *)
(* remembers having changed something; RightsOK, that its target, if it is   *)
(* still there, lies where the person was ADMIN since the dispatch; and      *)
(* RowsOK, without which a target that is gone could come back elsewhere.   *)
(* A sweep may hold a right the person has lost by the time it writes,      *)
(* which is why the rule speaks of held and not of the role in force.       *)
(***************************************************************************)
EXTENDS AssistantTurn, TLAPS

(* The tools that create a file. *)
Uploads == {"upload_file", "create_file", "create_project"}

(* The fields of a call. What is put depends on the tool. *)
CallForm(c) ==
  c \in [stage : {"idle", "ready", "running", "done"}, tool : {c.tool}, todo : SUBSET Project,
         at : {c.at}, put : {c.put}, applied : BOOLEAN, ok : BOOLEAN, changed : BOOLEAN,
         broke : BOOLEAN]

(* A call is at a project, or at nothing yet; add_keys is at a file. *)
TargetOK(c) == IF c.tool = "add_keys" THEN c.at \in File ELSE c.at \in Project \cup {None}

(* What is put fits the tool. *)
PutOK(c) ==
  /\ c.tool \in Uploads /\ c.put # None =>
       c.put = [langs |-> c.put.langs, name |-> c.put.name] /\ c.put.langs \subseteq Lang /\ c.put.name \in Name
  /\ c.tool = "add_languages" => c.put \subseteq Lang
  /\ c.tool = "update_project_description" => c.put \in BOOLEAN

(* A call that changed something will not end with a plain refusal.          *)
HonestWhileRunning(c) == c.changed => c.tool = "create_project" \/ (c.tool \in Sweeps /\ c.applied)

(* A refusal that ends a call hides nothing: RefusalChangesNothing of c.     *)
Honest(c) == c.stage = "done" /\ c.changed => c.ok \/ c.broke \/ c.tool = "create_project"

(* The call in hand. *)
CallOK(c) ==
  /\ CallForm(c)
  /\ c.stage = "running" => TargetOK(c) /\ PutOK(c) /\ HonestWhileRunning(c)
  /\ Honest(c)

(* What nobody has created yet is not there, and no file outlives its        *)
(* project.                                                                  *)
RowsOK ==
  /\ \A p \in Project \cap unborn : project[p] = None
  /\ \A f \in File \cap unborn : file[f] = None
  /\ \A f \in File : file[f] # None => project[file[f].project] # None

(* What a running call is at was resolved with the right to change it.       *)
RightsOK ==
  call.stage = "running" =>
    /\ Administered \subseteq held
    /\ call.tool = "add_keys" /\ file[call.at] # None => project[file[call.at].project].ns \in held
    /\ call.tool \notin {"add_keys", "create_project"} /\ call.at # None /\ project[call.at] # None =>
         project[call.at].ns \in held

(* Only the chain of the namespace the turn was authorised against has paid, *)
(* and the total kept is what it paid, until the turn is given up; the row   *)
(* of an answered turn says both.                                            *)
PaidOK ==
  /\ \A n \in Namespace \ Chain(turn.start) : paid[n] = 0
  /\ turn.phase # "failed" => turn.spent = PaidFor(turn.start)
  /\ turn.phase = "answered" => turn.row = [ns |-> turn.start, tokens |-> turn.spent]

(* The inductive invariant. *)
Inv ==
  /\ TypeOK /\ OffersDistinct /\ CallOK(call) /\ RowsOK /\ RightsOK
  /\ PaidOK

(***************************************************************************)
(* The ways a call is written.                                             *)
(***************************************************************************)

(* No call is due, or the next one is. *)
LEMMA NoCallOK == CallOK(NoCall) /\ CallOK([NoCall EXCEPT !.stage = "ready"])
BY DEF CallOK, CallForm, NoCall, Honest

(* An answer that needs no further step changed nothing. *)
LEMMA RepliedOK ==
  ASSUME NEW tool, NEW ok \in BOOLEAN
  PROVE  CallOK([NoCall EXCEPT !.stage = "done", !.tool = tool, !.ok = ok])
BY DEF CallOK, CallForm, NoCall, Honest

(* A call that begins is at nothing yet. *)
LEMMA BegunOK ==
  ASSUME NEW tool, NEW todo \in SUBSET Project, NEW put, tool # "add_keys",
         PutOK([NoCall EXCEPT !.stage = "running", !.tool = tool, !.todo = todo, !.put = put])
  PROVE  CallOK([NoCall EXCEPT !.stage = "running", !.tool = tool, !.todo = todo, !.put = put])
BY DEF CallOK, CallForm, NoCall, Honest, HonestWhileRunning, TargetOK

(* add_keys resolves its file as it begins. *)
LEMMA AddingOK ==
  ASSUME NEW f \in File
  PROVE  CallOK([NoCall EXCEPT !.stage = "running", !.tool = "add_keys", !.at = f])
BY DEF CallOK, CallForm, NoCall, Honest, HonestWhileRunning, TargetOK, PutOK, Uploads

(* A call in hand that ends keeps to its form, and a refusal that ends it    *)
(* may only hide what a creation did.                                        *)
LEMMA EndedOK ==
  ASSUME NEW c, CallOK(c), NEW ok \in BOOLEAN, NEW wrote \in BOOLEAN,
         ok \/ (~wrote /\ (c.changed => c.tool = "create_project"))
  PROVE  CallOK([c EXCEPT !.stage = "done", !.ok = ok, !.at = None, !.todo = {}, !.put = None,
                          !.changed = @ \/ wrote])
BY DEF CallOK, CallForm, Honest

(* A call that broke says so. *)
LEMMA BrokenOK ==
  ASSUME NEW c, CallOK(c)
  PROVE  CallOK([c EXCEPT !.stage = "done", !.at = None, !.todo = {}, !.put = None, !.broke = TRUE])
BY DEF CallOK, CallForm, Honest

(* A call moves to a target it has yet to handle, *)
LEMMA AimedOK ==
  ASSUME NEW c, CallOK(c), c.stage = "running", c.tool # "add_keys", NEW p \in Project
  PROVE  CallOK([c EXCEPT !.at = p])
BY DEF CallOK, CallForm, Honest, HonestWhileRunning, TargetOK, PutOK

(* and a sweep goes on to the next, with what the last one took. *)
LEMMA SweptOK ==
  ASSUME NEW c, CallOK(c), c.stage = "running", c.tool \in Sweeps, NEW p,
         NEW applied \in BOOLEAN, NEW wrote \in BOOLEAN, wrote \/ c.applied => applied
  PROVE  CallOK([c EXCEPT !.at = None, !.todo = @ \ {p}, !.applied = applied, !.changed = @ \/ wrote])
BY ToolsAssumption
  DEF CallOK, CallForm, Honest, HonestWhileRunning, TargetOK, PutOK, Sweeps, Uploads

(* A sweep skips what cannot take the change. *)
LEMMA SkippedOK ==
  ASSUME NEW c, CallOK(c), c.stage = "running", c.tool \in Sweeps, NEW p
  PROVE  /\ CallOK([c EXCEPT !.at = None, !.todo = @ \ {p}])
         /\ c.at = None => CallOK([c EXCEPT !.todo = @ \ {p}])
BY ToolsAssumption
  DEF CallOK, CallForm, Honest, HonestWhileRunning, TargetOK, PutOK, Sweeps, Uploads

(***************************************************************************)
(* The call in hand.                                                       *)
(***************************************************************************)

(* The actions that dispatch a call and write no row: it is answered at      *)
(* once, or begins, at nothing but for add_keys, whose file was resolved.    *)
Dispatching ==
  \/ Answers \/ Stop
  \/ \E n \in Namespace : SwitchNamespace(n)
  \/ \E p \in Project, b \in BOOLEAN : UpdateProjectDescription(p, b)
  \/ \E p \in Project, langs \in NewLangs : UploadFile(p, langs)
  \/ \E p \in Project, langs \in NewLangs \cup {None} : CreateFile(p, langs)
  \/ \E f \in File, inline \in BOOLEAN : AddKeys(f, inline)
  \/ \E named \in SUBSET Project, v \in Provider \cup {None},
        m \in UNION {Models[w] : w \in Provider} \cup {None} : UpdateProjectAi(named, v, m)
  \/ \E named \in SUBSET Project, langs \in NewLangs \cup {{}, Lang} : AddLanguages(named, langs)
  \/ \E d \in Download : ExportFile(d)

(* What such a step does. *)
Dispatched ==
  /\ call.stage = "ready" /\ held' = Administered
  /\ UNCHANGED <<mix, role, content>>
  /\ CallOK(call')
  /\ call'.stage = "running" =>
       \/ call'.tool # "add_keys" /\ call'.at = None
       \/ call'.tool = "add_keys" /\ VisibleFile(call'.at) /\ Allowed(file[call'.at].project)

(* An answer at once is a dispatch, *)
LEMMA ReplyDispatches ==
  ASSUME NEW tool, NEW ok \in BOOLEAN, Replies(tool, ok)
  PROVE  CallOK(call') /\ call'.stage = "done"
<1>1. call' = [NoCall EXCEPT !.stage = "done", !.tool = tool, !.ok = ok]
  BY DEF Replies
<1>2. PICK c : c = [NoCall EXCEPT !.stage = "done", !.tool = tool, !.ok = ok]
  OBVIOUS
<1>3. CallOK(c)
  BY <1>2, RepliedOK
<1>4. c.stage = "done"
  BY <1>2 DEF NoCall
<1> QED BY <1>1, <1>2, <1>3, <1>4

(* and so is a beginning with something that may be put. *)
LEMMA BeginDispatches ==
  ASSUME NEW tool, NEW todo \in SUBSET Project, NEW put, Begins(tool, todo, put), tool # "add_keys",
         tool \in Uploads /\ put # None =>
           put = [langs |-> put.langs, name |-> put.name] /\ put.langs \subseteq Lang /\ put.name \in Name,
         tool = "add_languages" => put \subseteq Lang,
         tool = "update_project_description" => put \in BOOLEAN
  PROVE  CallOK(call') /\ call'.at = None /\ call'.tool # "add_keys"
<1>1. PICK c : c = [NoCall EXCEPT !.stage = "running", !.tool = tool, !.todo = todo, !.put = put]
  OBVIOUS
<1>2. PutOK(c)
  BY <1>1 DEF NoCall, PutOK, Uploads
<1>3. CallOK(c)
  BY <1>1, <1>2, BegunOK
<1>4. c.at = None /\ c.tool = tool
  BY <1>1 DEF NoCall
<1>5. call' = c
  BY <1>1 DEF Begins
<1> QED BY <1>3, <1>4, <1>5

(* Collecting the targets of a sweep refuses it or begins it. *)
LEMMA CollectedDispatches ==
  ASSUME NEW tool, NEW named \in SUBSET Project, NEW all \in SUBSET Project, NEW put,
         Collected(tool, named, all, put), tool \in Sweeps, tool = "add_languages" => put \subseteq Lang
  PROVE  CallOK(call') /\ (call'.stage = "running" => call'.at = None /\ call'.tool # "add_keys")
<1>1. CASE Replies(tool, FALSE)
  BY <1>1, ReplyDispatches
<1>2. CASE ~Replies(tool, FALSE)
  <2>1. PICK todo \in SUBSET Project : Begins(tool, todo, put)
    BY <1>2 DEF Collected
  <2>2. tool # "add_keys" /\ tool \notin Uploads /\ tool # "update_project_description"
    BY DEF Sweeps, Uploads
  <2> QED BY <2>1, <2>2, BeginDispatches
<1> QED BY <1>1, <1>2

(* Every dispatch keeps the call well formed and writes no row. *)
LEMMA DispatchingWritesNothing ==
  ASSUME TypeOK, Dispatching
  PROVE  Dispatched
<1> USE DEF Asked, content
<1>1. CASE Answers
  BY <1>1, ReplyDispatches DEF Answers, Dispatched
<1>2. CASE Stop
  BY <1>2, ReplyDispatches DEF Stop, Dispatched
<1>3. CASE \E n \in Namespace : SwitchNamespace(n)
  <2>1. PICK n \in Namespace : SwitchNamespace(n)
    BY <1>3
  <2>2. (RoleIn(n) # "none") \in BOOLEAN
    OBVIOUS
  <2> QED BY <2>1, <2>2, ReplyDispatches DEF SwitchNamespace, Dispatched
<1>4. CASE \E p \in Project, b \in BOOLEAN : UpdateProjectDescription(p, b)
  <2>1. PICK p \in Project, b \in BOOLEAN : UpdateProjectDescription(p, b)
    BY <1>4
  <2>2. CallOK(call') /\ call'.at = None /\ call'.tool # "add_keys"
    BY <2>1, BeginDispatches DEF UpdateProjectDescription, Uploads
  <2> QED BY <2>1, <2>2 DEF UpdateProjectDescription, Dispatched
<1>5. CASE \E p \in Project, langs \in NewLangs : UploadFile(p, langs)
  <2>1. PICK p \in Project, langs \in NewLangs : UploadFile(p, langs)
    BY <1>5
  <2>2. langs \subseteq Lang /\ context.attachment \in Name \cup {None}
    BY ToolsAssumption DEF NewLangs, TypeOK
  <2>3. PICK put : /\ put = IF context.attachment = None THEN None
                           ELSE [langs |-> langs, name |-> context.attachment]
                   /\ Begins("upload_file", {p}, put)
    BY <2>1 DEF UploadFile
  <2>4. put # None =>
          put = [langs |-> put.langs, name |-> put.name] /\ put.langs \subseteq Lang /\ put.name \in Name
    BY <2>2, <2>3
  <2>5. CallOK(call') /\ call'.at = None /\ call'.tool # "add_keys"
    BY <2>3, <2>4, BeginDispatches
  <2> QED BY <2>1, <2>5 DEF UploadFile, Dispatched
<1>6. CASE \E p \in Project, langs \in NewLangs \cup {None} : CreateFile(p, langs)
  <2>1. PICK p \in Project, langs \in NewLangs \cup {None}, n \in Name :
          /\ CreateFile(p, langs)
          /\ Begins("create_file", {p}, IF langs = None THEN None ELSE [langs |-> langs, name |-> n])
    BY <1>6 DEF CreateFile
  <2>2. langs # None => langs \subseteq Lang
    BY ToolsAssumption DEF NewLangs
  <2>3. PICK put : /\ put = IF langs = None THEN None ELSE [langs |-> langs, name |-> n]
                   /\ Begins("create_file", {p}, put)
    BY <2>1
  <2>4. put # None =>
          put = [langs |-> put.langs, name |-> put.name] /\ put.langs \subseteq Lang /\ put.name \in Name
    BY <2>2, <2>3
  <2>5. CallOK(call') /\ call'.at = None /\ call'.tool # "add_keys"
    BY <2>3, <2>4, BeginDispatches
  <2> QED BY <2>1, <2>5 DEF CreateFile, Dispatched
<1>7. CASE \E f \in File, inline \in BOOLEAN : AddKeys(f, inline)
  <2>1. PICK f \in File, inline \in BOOLEAN : AddKeys(f, inline)
    BY <1>7
  <2>2. CASE VisibleFile(f) /\ Allowed(file[f].project) /\ inline = (context.attachment = None)
    <3>1. call' = [NoCall EXCEPT !.stage = "running", !.tool = "add_keys", !.at = f]
      BY <2>1, <2>2 DEF AddKeys
    <3>2. PICK c : c = [NoCall EXCEPT !.stage = "running", !.tool = "add_keys", !.at = f]
      OBVIOUS
    <3>3. CallOK(c) /\ c.tool = "add_keys" /\ c.at = f
      BY <3>2, AddingOK DEF NoCall
    <3>4. call' = c
      BY <3>1, <3>2
    <3> QED BY <2>1, <2>2, <3>3, <3>4 DEF AddKeys, Dispatched
  <2>3. CASE ~(VisibleFile(f) /\ Allowed(file[f].project) /\ inline = (context.attachment = None))
    <3>1. Replies("add_keys", FALSE)
      BY <2>1, <2>3 DEF AddKeys
    <3> QED BY <2>1, <3>1, ReplyDispatches DEF AddKeys, Dispatched
  <2> QED BY <2>2, <2>3
<1>8. CASE \E named \in SUBSET Project, v \in Provider \cup {None},
              m \in UNION {Models[w] : w \in Provider} \cup {None} : UpdateProjectAi(named, v, m)
  <2>1. PICK named \in SUBSET Project, v \in Provider \cup {None},
             m \in UNION {Models[w] : w \in Provider} \cup {None} : UpdateProjectAi(named, v, m)
    BY <1>8
  <2>2. \/ Replies("update_project_ai", FALSE)
        \/ Collected("update_project_ai", named, Reachable, [provider |-> v, model |-> m])
    BY <2>1 DEF UpdateProjectAi
  <2>3. CallOK(call') /\ (call'.stage = "running" => call'.at = None /\ call'.tool # "add_keys")
    <3>1. Reachable \in SUBSET Project
      BY DEF Reachable
    <3>2. PICK put : put = [provider |-> v, model |-> m]
      OBVIOUS
    <3> QED BY <2>2, <3>1, <3>2, ReplyDispatches, CollectedDispatches DEF Sweeps
  <2> QED BY <2>1, <2>3 DEF UpdateProjectAi, Dispatched
<1>9. CASE \E named \in SUBSET Project, langs \in NewLangs \cup {{}, Lang} : AddLanguages(named, langs)
  <2>1. PICK named \in SUBSET Project, langs \in NewLangs \cup {{}, Lang} : AddLanguages(named, langs)
    BY <1>9
  <2>2. PICK wanted : /\ wanted = IF langs = {} THEN InUse ELSE langs
                      /\ \/ Replies("add_languages", FALSE)
                         \/ Collected("add_languages", named, ProjectsOf(context.ns), wanted)
    BY <2>1 DEF AddLanguages
  <2>3. InUse \subseteq Lang
    BY DEF InUse, TypeOK, FileRow, VisibleFile
  <2>4. wanted \subseteq Lang
    BY <2>2, <2>3, ToolsAssumption DEF NewLangs
  <2>5. CallOK(call') /\ (call'.stage = "running" => call'.at = None /\ call'.tool # "add_keys")
    <3>1. ProjectsOf(context.ns) \in SUBSET Project
      BY DEF ProjectsOf
    <3> QED BY <2>2, <2>4, <3>1, ReplyDispatches, CollectedDispatches DEF Sweeps
  <2> QED BY <2>1, <2>5 DEF AddLanguages, Dispatched
<1>10. CASE \E d \in Download : ExportFile(d)
  <2>1. PICK d \in Download : ExportFile(d)
    BY <1>10
  <2>2. CanOffer(d) \in BOOLEAN
    BY DEF CanOffer, VisibleFile, Visible
  <2> QED BY <2>1, <2>2, ReplyDispatches DEF ExportFile, Dispatched
<1> QED
  BY <1>1, <1>2, <1>3, <1>4, <1>5, <1>6, <1>7, <1>8, <1>9, <1>10 DEF Dispatching

(* What a tool does in a step that is no mere dispatch. *)
LEMMA ToolCases ==
  ASSUME ToolStep
  PROVE  \/ Dispatching
         \/ \E langs \in NewLangs \cup {None} : CreateProject(langs)
         \/ \E x \in Format : CreateExportFormat(x)
         \/ \E p \in Project : Take(p)
         \/ MergeKeys \/ Retarget \/ Widen \/ EndSweep \/ Describe \/ CreateUpload \/ DatabaseFails
BY DEF ToolStep, Dispatching

(* The right to a project is a right to its namespace. *)
LEMMA AllowedIsAdministered ==
  ASSUME TypeOK, NEW p \in Project, Allowed(p)
  PROVE  project[p] # None /\ project[p].ns \in Administered
BY DEF TypeOK, Allowed, Visible, Administered, ProjectRow

(* A call ends as EndedOK has it. *)
LEMMA EndsOK ==
  ASSUME CallOK(call), NEW ok \in BOOLEAN, NEW wrote \in BOOLEAN, Ends(ok, wrote),
         ok \/ (~wrote /\ (call.changed => call.tool = "create_project"))
  PROVE  CallOK(call') /\ call'.stage = "done"
<1>1. PICK c : c = [call EXCEPT !.stage = "done", !.ok = ok, !.at = None, !.todo = {}, !.put = None,
                                !.changed = @ \/ wrote]
  OBVIOUS
<1>2. CallOK(c)
  BY <1>1, EndedOK
<1>3. c.stage = "done"
  BY <1>1 DEF CallOK, CallForm
<1>4. call' = c
  BY <1>1 DEF Ends
<1> QED BY <1>2, <1>3, <1>4

(* A call breaks as BrokenOK has it. *)
LEMMA BreaksOK ==
  ASSUME CallOK(call), Breaks
  PROVE  CallOK(call') /\ call'.stage = "done"
<1>1. PICK c : c = [call EXCEPT !.stage = "done", !.at = None, !.todo = {}, !.put = None, !.broke = TRUE]
  OBVIOUS
<1>2. CallOK(c) /\ c.stage = "done"
  BY <1>1, BrokenOK DEF CallOK, CallForm
<1>3. call' = c
  BY <1>1 DEF Breaks
<1> QED BY <1>2, <1>3

(* A sweep goes on as SweptOK and SkippedOK have it. *)
LEMMA SweepsOn ==
  ASSUME CallOK(call), call.stage = "running", call.tool \in Sweeps, NEW p,
         \/ Refused(p) \/ Taken(p, TRUE) \/ Taken(p, FALSE)
         \/ call.at = None /\ call' = [call EXCEPT !.todo = @ \ {p}]
  PROVE  CallOK(call') /\ call'.at = None
<1>1. CASE Refused(p)
  <2>1. PICK c : c = [call EXCEPT !.at = None, !.todo = @ \ {p}]
    OBVIOUS
  <2>2. CallOK(c) /\ c.at = None
    BY <2>1, SkippedOK DEF CallOK, CallForm
  <2>3. call' = c
    BY <1>1, <2>1 DEF Refused
  <2> QED BY <2>2, <2>3
<1>2. ASSUME NEW wrote \in BOOLEAN, Taken(p, wrote)
      PROVE  CallOK(call') /\ call'.at = None
  <2>1. PICK c : c = [call EXCEPT !.at = None, !.todo = @ \ {p}, !.applied = TRUE, !.changed = @ \/ wrote]
    OBVIOUS
  <2>2. CallOK(c)
    BY <2>1, SweptOK
  <2>3. c.at = None
    BY <2>1 DEF CallOK, CallForm
  <2>4. call' = c
    BY <1>2, <2>1 DEF Taken
  <2> QED BY <2>2, <2>3, <2>4
<1>3. CASE call.at = None /\ call' = [call EXCEPT !.todo = @ \ {p}]
  <2>1. PICK c : c = [call EXCEPT !.todo = @ \ {p}]
    OBVIOUS
  <2>2. CallOK(c)
    BY <1>3, <2>1, SkippedOK
  <2>3. c.at = None
    BY <1>3, <2>1 DEF CallOK, CallForm
  <2> QED BY <1>3, <2>1, <2>2, <2>3
<1> QED BY <1>1, <1>2, <1>3

(* The call in hand, after a step of a tool: done, at nothing, at a project  *)
(* the person administers, or at one it has just created.                    *)
Aimed ==
  \/ call'.at = None /\ call'.tool # "add_keys"
  \/ \E p \in Project : call'.at = p /\ Allowed(p) /\ call'.tool # "add_keys" /\ UNCHANGED project
  \/ call'.tool = "create_project"

(* No step of a tool leaves a call that is malformed, or aimed elsewhere.    *)
LEMMA CallStaysOK ==
  ASSUME TypeOK, CallOK(call), ToolStep, ~Dispatching
  PROVE  CallOK(call') /\ (call'.stage = "running" => Aimed)
<1>1. ASSUME NEW langs \in NewLangs \cup {None}, CreateProject(langs)
      PROVE  CallOK(call') /\ (call'.stage = "running" => Aimed)
  <2>1. CASE Replies("create_project", FALSE)
    BY <2>1, ReplyDispatches
  <2>2. CASE ~Replies("create_project", FALSE)
    <3>1. PICK uploads \in BOOLEAN : uploads = (context.attachment # None /\ langs # None)
      OBVIOUS
    <3>2. PICK put : put = IF uploads THEN [langs |-> langs, name |-> context.attachment] ELSE None
      OBVIOUS
    <3>3. PICK p \in Fresh(Project) :
              call' = [NoCall EXCEPT !.tool = "create_project", !.changed = TRUE,
                  !.stage = IF uploads THEN "running" ELSE "done", !.ok = ~uploads,
                  !.at = IF uploads THEN p ELSE None,
                  !.put = put]
      BY <1>1, <2>2, <3>1, <3>2 DEF CreateProject
    <3>4. p \in Project
      BY DEF Fresh
    <3>5. PICK c : c = [NoCall EXCEPT !.tool = "create_project", !.changed = TRUE,
                  !.stage = IF uploads THEN "running" ELSE "done", !.ok = ~uploads,
                  !.at = IF uploads THEN p ELSE None,
                  !.put = put]
      OBVIOUS
    <3>6. langs # None => langs \subseteq Lang
      BY ToolsAssumption DEF NewLangs
    <3>7. uploads => context.attachment \in Name
      BY <3>1 DEF TypeOK
    <3>8. /\ c.tool = "create_project" /\ c.put = put /\ c.at \in {p, None} /\ CallForm(c)
          /\ uploads => c.at = p
          /\ c.stage = "done" => c.ok
      BY <3>5 DEF NoCall, CallForm
    <3>9. put # None =>
            put = [langs |-> put.langs, name |-> put.name] /\ put.langs \subseteq Lang /\ put.name \in Name
      BY <3>1, <3>2, <3>6, <3>7
    <3>10. CallOK(c)
      BY <3>4, <3>8, <3>9 DEF CallOK, TargetOK, PutOK, HonestWhileRunning, Honest
    <3> QED BY <3>3, <3>5, <3>8, <3>10 DEF Aimed
  <2> QED BY <2>1, <2>2
<1>2. ASSUME NEW x \in Format, CreateExportFormat(x)
      PROVE  CallOK(call') /\ (call'.stage = "running" => Aimed)
  <2>1. CASE Replies("create_export_format", FALSE)
    BY <2>1, ReplyDispatches
  <2>2. CASE ~Replies("create_export_format", FALSE)
    <3>1. call' = [NoCall EXCEPT !.stage = "done", !.tool = "create_export_format",
                                  !.ok = TRUE, !.changed = TRUE]
      BY <1>2, <2>2 DEF CreateExportFormat
    <3>2. PICK c : c = [NoCall EXCEPT !.stage = "done", !.tool = "create_export_format",
                                  !.ok = TRUE, !.changed = TRUE]
      OBVIOUS
    <3>3. CallOK(c) /\ c.stage = "done"
      BY <3>2 DEF NoCall, CallOK, CallForm, Honest
    <3> QED BY <3>1, <3>2, <3>3
  <2> QED BY <2>1, <2>2
<1>3. ASSUME NEW p \in Project, Take(p)
      PROVE  CallOK(call') /\ (call'.stage = "running" => Aimed)
  <2>1. call.tool # "add_keys"
    BY <1>3, ToolsAssumption DEF Take, CallOK, TargetOK
  <2>2. CASE Allowed(p)
    <3>1. call' = [call EXCEPT !.at = p]
      BY <1>3, <2>2 DEF Take
    <3>2. PICK c : c = [call EXCEPT !.at = p]
      OBVIOUS
    <3>3. CallOK(c) /\ c.at = p /\ c.tool = call.tool
      BY <1>3, <2>1, <3>2, AimedOK DEF Take, CallOK, CallForm
    <3>4. UNCHANGED project
      BY <1>3 DEF Take, content
    <3> QED BY <2>1, <2>2, <3>1, <3>2, <3>3, <3>4 DEF Aimed
  <2>3. CASE ~Allowed(p) /\ call.tool \in Sweeps
    <3>1. CallOK(call') /\ call'.at = None
      BY <1>3, <2>3, SweepsOn DEF Take
    <3>2. call'.tool = call.tool
      BY <1>3, <2>3 DEF Take, CallOK, CallForm
    <3> QED BY <2>1, <3>1, <3>2 DEF Aimed
  <2>4. CASE ~Allowed(p) /\ call.tool \notin Sweeps
    <3>1. Ends(FALSE, FALSE)
      BY <1>3, <2>4 DEF Take
    <3>2. call.changed => call.tool = "create_project"
      BY <1>3, <2>4 DEF Take, CallOK, HonestWhileRunning
    <3> QED BY <3>1, <3>2, EndsOK
  <2> QED BY <2>2, <2>3, <2>4
<1>4. ASSUME MergeKeys
      PROVE  CallOK(call') /\ (call'.stage = "running" => Aimed)
  <2>1. PICK wrote \in BOOLEAN : Ends(TRUE, wrote)
    BY <1>4 DEF MergeKeys
  <2> QED BY <2>1, EndsOK
<1>5. ASSUME Retarget
      PROVE  CallOK(call') /\ (call'.stage = "running" => Aimed)
  <2>1. Refused(call.at) \/ Taken(call.at, TRUE) \/ Taken(call.at, FALSE)
    BY <1>5 DEF Retarget
  <2>2. CallOK(call') /\ call'.at = None
    BY <1>5, <2>1, SweepsOn DEF Retarget, Sweeps
  <2>3. call'.tool = call.tool
    BY <2>1 DEF Refused, Taken, CallOK, CallForm
  <2> QED BY <1>5, <2>2, <2>3 DEF Aimed, Retarget
<1>6. ASSUME Widen
      PROVE  CallOK(call') /\ (call'.stage = "running" => Aimed)
  <2>1. Refused(call.at) \/ Taken(call.at, TRUE)
    BY <1>6 DEF Widen
  <2>2. CallOK(call') /\ call'.at = None
    BY <1>6, <2>1, SweepsOn DEF Widen, Sweeps
  <2>3. call'.tool = call.tool
    BY <2>1 DEF Refused, Taken, CallOK, CallForm
  <2> QED BY <1>6, <2>2, <2>3 DEF Aimed, Widen
<1>7. ASSUME EndSweep
      PROVE  CallOK(call') /\ (call'.stage = "running" => Aimed)
  <2>1. PICK ok \in BOOLEAN : ok = (call.tool = "add_languages" \/ call.applied) /\ Ends(ok, FALSE)
    BY <1>7 DEF EndSweep, CallOK, CallForm
  <2>2. ok \/ (call.changed => call.tool = "create_project")
    BY <1>7, <2>1 DEF EndSweep, CallOK, HonestWhileRunning
  <2> QED BY <2>1, <2>2, EndsOK
<1>8. ASSUME Describe
      PROVE  CallOK(call') /\ (call'.stage = "running" => Aimed)
  <2>1. PICK wrote \in BOOLEAN : Ends(TRUE, wrote)
    BY <1>8 DEF Describe
  <2> QED BY <2>1, EndsOK
<1>9. ASSUME CreateUpload
      PROVE  CallOK(call') /\ (call'.stage = "running" => Aimed)
  <2>1. Ends(FALSE, FALSE) \/ Breaks \/ Ends(TRUE, TRUE)
    BY <1>9 DEF CreateUpload
  <2>2. call.changed => call.tool = "create_project"
    BY <1>9 DEF CreateUpload, CallOK, HonestWhileRunning, Sweeps
  <2> QED BY <2>1, <2>2, EndsOK, BreaksOK
<1>10. ASSUME DatabaseFails
       PROVE  CallOK(call') /\ (call'.stage = "running" => Aimed)
  BY <1>10, BreaksOK DEF DatabaseFails
<1> QED
  BY <1>1, <1>2, <1>3, <1>4, <1>5, <1>6, <1>7, <1>8, <1>9, <1>10, ToolCases

(***************************************************************************)
(* The offers.                                                             *)
(***************************************************************************)

(* Only export_file offers a download. *)
LEMMA OnlyExportOffers ==
  ASSUME [Next]_vars
  PROVE  UNCHANGED downloads \/ \E d \in Download : ExportFile(d)
<1>1. CASE ToolStep
  BY <1>1
  DEF ToolStep, Answers, Stop, MergeKeys, Retarget, Widen, EndSweep, Describe, CreateUpload, DatabaseFails,
      SwitchNamespace, Take, UpdateProjectDescription, UploadFile, CreateFile, AddKeys, CreateProject,
      CreateExportFormat, UpdateProjectAi, AddLanguages
<1>2. CASE Around
  BY <1>2 DEF Around, RoleChanges, ProjectIsDeleted, FileIsDeleted, RunEnds
<1>3. CASE Pass \/ GiveUp \/ Handled \/ UNCHANGED vars
  BY <1>3 DEF Pass, GiveUp, Handled, vars, toolVars
<1> QED BY <1>1, <1>2, <1>3 DEF Next, Step

(* Only switch_namespace moves the conversation. *)
LEMMA OnlySwitchMoves ==
  ASSUME [Next]_vars
  PROVE  UNCHANGED context \/ \E n \in Namespace : SwitchNamespace(n)
<1>1. CASE ToolStep
  BY <1>1
  DEF ToolStep, Answers, Stop, MergeKeys, Retarget, Widen, EndSweep, Describe, CreateUpload, DatabaseFails,
      ExportFile, Take, UpdateProjectDescription, UploadFile, CreateFile, AddKeys, CreateProject,
      CreateExportFormat, UpdateProjectAi, AddLanguages
<1>2. CASE Around
  BY <1>2 DEF Around, RoleChanges, ProjectIsDeleted, FileIsDeleted, RunEnds
<1>3. CASE Pass \/ GiveUp \/ Handled \/ UNCHANGED vars
  BY <1>3 DEF Pass, GiveUp, Handled, vars, toolVars
<1> QED BY <1>1, <1>2, <1>3 DEF Next, Step

(* An offer of what is offered already replaces it, any other is one more.   *)
LEMMA OffersStayDistinct ==
  ASSUME TypeOK, OffersDistinct, [Next]_vars
  PROVE  downloads' \in Seq(Download) /\ OffersDistinct'
<1>1. CASE UNCHANGED downloads
  BY <1>1 DEF TypeOK, OffersDistinct
<1>2. ASSUME NEW d \in Download, ExportFile(d)
      PROVE  downloads' \in Seq(Download) /\ OffersDistinct'
  <2>1. CASE ~CanOffer(d)
    BY <1>2, <2>1 DEF ExportFile, TypeOK, OffersDistinct
  <2>2. CASE CanOffer(d) /\ \E i \in DOMAIN downloads : SameOffer(downloads[i], d)
    <3>1. downloads' = [i \in DOMAIN downloads |-> IF SameOffer(downloads[i], d) THEN d ELSE downloads[i]]
      BY <1>2, <2>2 DEF ExportFile, WithOffer
    <3>2. DOMAIN downloads = 1 .. Len(downloads) /\ Len(downloads) \in Nat
      BY DEF TypeOK
    <3>3. \A i \in DOMAIN downloads : downloads[i] \in Download
      BY DEF TypeOK
    <3>4. downloads' \in [1 .. Len(downloads) -> Download]
      BY <3>1, <3>2, <3>3
    <3>5. downloads' \in Seq(Download) /\ Len(downloads') = Len(downloads)
      BY <3>2, <3>4
    <3>6. \A i \in DOMAIN downloads :
            /\ downloads'[i].file = downloads[i].file
            /\ downloads'[i].lang = downloads[i].lang
            /\ downloads'[i].format = downloads[i].format
      BY <3>1 DEF SameOffer
    <3> QED BY <3>1, <3>5, <3>6 DEF OffersDistinct
  <2>3. CASE CanOffer(d) /\ \A i \in DOMAIN downloads : ~SameOffer(downloads[i], d)
    <3>1. downloads' = Append(downloads, d)
      BY <1>2, <2>3 DEF ExportFile, WithOffer
    <3>2. DOMAIN downloads = 1 .. Len(downloads) /\ Len(downloads) \in Nat
      BY DEF TypeOK
    <3>3. /\ downloads' \in Seq(Download) /\ Len(downloads') = Len(downloads) + 1
          /\ DOMAIN downloads' = 1 .. (Len(downloads) + 1)
          /\ downloads'[Len(downloads) + 1] = d
          /\ \A i \in 1 .. Len(downloads) : downloads'[i] = downloads[i]
      BY <3>1 DEF TypeOK
    <3>4. Len(downloads') <= MaxDownloads
      BY <2>3, <3>2, <3>3, ToolsAssumption DEF CanOffer
    <3>5. ASSUME NEW i \in DOMAIN downloads', NEW j \in DOMAIN downloads',
                 downloads'[i].file = downloads'[j].file, downloads'[i].lang = downloads'[j].lang,
                 downloads'[i].format = downloads'[j].format
          PROVE  i = j
      <4>1. CASE i \in 1 .. Len(downloads) /\ j \in 1 .. Len(downloads)
        BY <3>2, <3>3, <3>5, <4>1 DEF OffersDistinct
      <4>2. CASE i = Len(downloads) + 1 /\ j \in 1 .. Len(downloads)
        BY <2>3, <3>2, <3>3, <3>5, <4>2 DEF SameOffer
      <4>3. CASE j = Len(downloads) + 1 /\ i \in 1 .. Len(downloads)
        BY <2>3, <3>2, <3>3, <3>5, <4>3 DEF SameOffer
      <4>4. CASE i = Len(downloads) + 1 /\ j = Len(downloads) + 1
        BY <4>4
      <4> QED BY <3>2, <3>3, <4>1, <4>2, <4>3, <4>4
    <3> QED BY <3>3, <3>4, <3>5 DEF OffersDistinct
  <2> QED BY <2>1, <2>2, <2>3
<1> QED BY <1>1, <1>2, OnlyExportOffers

(***************************************************************************)
(* The turn.                                                               *)
(***************************************************************************)

(* Only Pass, GiveUp and Handled move the turn, and only they pay. *)
LEMMA TurnCases ==
  ASSUME [Next]_vars
  PROVE  Pass \/ GiveUp \/ Handled \/ UNCHANGED <<turn, paid>>
BY DEF Next, Step, vars

(* A reply is paid for by the chain of the turn, and by nobody else. *)
LEMMA PaysLaw ==
  ASSUME TypeOK, NEW cost \in Nat, Pays(cost), \A n \in Namespace \ Chain(turn.start) : paid[n] = 0
  PROVE  /\ paid' \in [Namespace -> Nat]
         /\ \A n \in Namespace \ Chain(turn.start) : paid'[n] = 0
         /\ paid'[Home] + (IF turn.start = Home THEN 0 ELSE paid'[turn.start]) = PaidFor(turn.start) + cost
<1>1. PICK payer \in Chain(turn.start) : paid' = [paid EXCEPT ![payer] = @ + cost]
  BY DEF Pays
<1>2. PICK start \in Namespace : start = turn.start
  BY DEF TypeOK
<1>3. payer \in {start, Home} /\ start \in Namespace /\ Home \in Namespace /\ paid \in [Namespace -> Nat]
  BY <1>1, <1>2 DEF Chain, Namespace, TypeOK
<1>4. PICK sum \in Nat : sum = paid[payer] + cost
  <2>1. paid[payer] \in Nat
    BY <1>3
  <2> QED BY <2>1
<1>5. paid' = [paid EXCEPT ![payer] = sum]
  BY <1>1, <1>4
<1>6. paid' \in [Namespace -> Nat]
  BY <1>3, <1>5
<1>7. ASSUME NEW n \in Namespace \ Chain(turn.start)
      PROVE  paid'[n] = 0
  <2>1. n # payer
    BY <1>1
  <2> QED BY <1>3, <1>5, <2>1
<1>8. paid'[Home] + (IF start = Home THEN 0 ELSE paid'[start])
        = paid[Home] + (IF start = Home THEN 0 ELSE paid[start]) + cost
  <2>1. paid[Home] \in Nat /\ paid[start] \in Nat
    BY <1>3
  <2>2. CASE payer = Home
    <3>1. paid'[Home] = paid[Home] + cost /\ (start # Home => paid'[start] = paid[start])
      BY <1>3, <1>4, <1>5, <2>2
    <3> QED BY <2>1, <3>1
  <2>3. CASE payer # Home
    <3>1. payer = start /\ start # Home
      BY <1>3, <2>3
    <3>2. paid'[Home] = paid[Home] /\ paid'[start] = paid[start] + cost
      BY <1>3, <1>4, <1>5, <3>1
    <3> QED BY <2>1, <3>1, <3>2
  <2> QED BY <2>2, <2>3
<1> QED BY <1>2, <1>6, <1>7, <1>8 DEF PaidFor

(* The turn stays within its ceilings, its total is what was paid for it,    *)
(* and its row is the one Recorded says.                                     *)
LEMMA TurnStays ==
  ASSUME TypeOK, PaidOK, [Next]_vars
  PROVE  /\ turn' \in [phase : {"asking", "calling", "answered", "failed"}, step : 0 .. MaxRepeats,
                       left : 0 .. MaxCalls, calls : 0 .. MaxCalls, stopped : BOOLEAN, spent : Nat,
                       start : Namespace, row : [ns : Namespace, tokens : Nat] \cup {None}]
         /\ paid' \in [Namespace -> Nat]
         /\ PaidOK'
<1> DEFINE TurnType ==
             [phase : {"asking", "calling", "answered", "failed"}, step : 0 .. MaxRepeats,
              left : 0 .. MaxCalls, calls : 0 .. MaxCalls, stopped : BOOLEAN, spent : Nat,
              start : Namespace, row : [ns : Namespace, tokens : Nat] \cup {None}]
<1> SUFFICES turn' \in TurnType /\ paid' \in [Namespace -> Nat] /\ PaidOK'
  OBVIOUS
<1>0. /\ turn \in TurnType /\ MaxRepeats \in Nat /\ MaxCalls \in Nat /\ Usage[mix] \subseteq Nat
      /\ paid \in [Namespace -> Nat]
  BY TurnAssumption DEF TypeOK
<1>1. CASE UNCHANGED <<turn, paid>>
  BY <1>0, <1>1 DEF PaidOK, PaidFor
<1>2. CASE GiveUp
  <2>1. turn' \in TurnType /\ turn'.phase = "failed" /\ turn'.start = turn.start
    BY <1>0, <1>2 DEF GiveUp
  <2>2. paid' \in [Namespace -> Nat] /\ \A n \in Namespace \ Chain(turn.start) : paid'[n] = 0
    <3>1. CASE UNCHANGED paid
      BY <1>0, <3>1 DEF PaidOK
    <3>2. ASSUME NEW cost \in Usage[mix], Pays(cost)
          PROVE  paid' \in [Namespace -> Nat] /\ \A n \in Namespace \ Chain(turn.start) : paid'[n] = 0
      BY <1>0, <3>2, PaysLaw DEF PaidOK
    <3> QED BY <1>2, <3>1, <3>2 DEF GiveUp
  <2> QED BY <2>1, <2>2 DEF PaidOK, Chain
<1>3. CASE Pass
  <2>1. PICK cost \in Nat :
          /\ Pays(cost)
          /\ \/ turn' = [turn EXCEPT !.phase = "answered", !.step = @ + 1, !.spent = Spend(cost),
                                     !.row = Recorded(Spend(cost))]
             \/ \E k \in 1 .. (Budget - turn.calls) :
                  turn' = [turn EXCEPT !.phase = "calling", !.step = @ + 1, !.spent = Spend(cost),
                                       !.left = k, !.calls = @ + k]
    BY <1>0, <1>3 DEF Pass
  <2>2. /\ paid' \in [Namespace -> Nat]
        /\ \A n \in Namespace \ Chain(turn.start) : paid'[n] = 0
        /\ paid'[Home] + (IF turn.start = Home THEN 0 ELSE paid'[turn.start]) = PaidFor(turn.start) + cost
    BY <2>1, PaysLaw DEF PaidOK
  <2>3. turn.phase = "asking" /\ turn.step < MaxRepeats
    BY <1>3 DEF Pass
  <2>4. PICK next \in 0 .. MaxRepeats : next = turn.step + 1
    BY <1>0, <2>3
  <2>5. PICK total \in Nat : total = Spend(cost) /\ total = PaidFor(turn.start) + cost
    <3>1. turn.spent \in Nat /\ turn.spent = PaidFor(turn.start)
      BY <1>0, <2>3 DEF PaidOK
    <3>2. PICK spent \in Nat : spent = turn.spent
      BY <3>1
    <3>3. spent + cost \in Nat /\ Spend(cost) = spent + cost /\ PaidFor(turn.start) = spent
      BY <3>1, <3>2 DEF Spend
    <3> QED BY <3>3
  <2>6. CASE turn' = [turn EXCEPT !.phase = "answered", !.step = @ + 1, !.spent = Spend(cost),
                                  !.row = Recorded(Spend(cost))]
    <3>1. PICK row : row = [ns |-> turn.start, tokens |-> total]
      OBVIOUS
    <3>2. row \in [ns : Namespace, tokens : Nat]
      BY <1>0, <3>1
    <3>3. turn' = [turn EXCEPT !.phase = "answered", !.step = next, !.spent = total, !.row = row]
      BY <2>4, <2>5, <2>6, <3>1 DEF Recorded
    <3>4. turn' \in TurnType
      BY <1>0, <3>2, <3>3
    <3>5. turn'.row = row /\ turn'.start = turn.start /\ turn'.spent = total
      BY <1>0, <3>3
    <3> QED BY <2>2, <2>5, <3>1, <3>4, <3>5 DEF PaidOK, PaidFor, Chain
  <2>7. ASSUME NEW k \in 1 .. (Budget - turn.calls),
               turn' = [turn EXCEPT !.phase = "calling", !.step = @ + 1, !.spent = Spend(cost),
                                    !.left = k, !.calls = @ + k]
        PROVE  turn' \in TurnType /\ PaidOK'
    <3>1. Budget \in Nat /\ Budget <= MaxCalls
      BY <1>0, TurnAssumption DEF Budget
    <3>2. PICK calls \in 0 .. MaxCalls : calls = turn.calls + k /\ k \in 0 .. MaxCalls
      BY <1>0, <2>7, <3>1
    <3>3. turn' = [turn EXCEPT !.phase = "calling", !.step = next, !.spent = total,
                               !.left = k, !.calls = calls]
      BY <2>4, <2>5, <2>7, <3>2
    <3>4. turn' \in TurnType
      BY <1>0, <3>2, <3>3
    <3>5. turn'.phase = "calling" /\ turn'.start = turn.start /\ turn'.spent = total
      BY <1>0, <3>3
    <3> QED BY <2>2, <2>5, <3>4, <3>5 DEF PaidOK, PaidFor, Chain
  <2> QED BY <2>1, <2>2, <2>6, <2>7
<1>4. CASE Handled
  <2>1. PICK stopped \in BOOLEAN : stopped = (turn.stopped \/ (call.tool = "stop" /\ call.ok))
    OBVIOUS
  <2>2. PICK row : row = [ns |-> turn.start, tokens |-> turn.spent]
    OBVIOUS
  <2>3. row \in [ns : Namespace, tokens : Nat]
    BY <1>0, <2>2
  <2>4. UNCHANGED paid /\ turn.phase = "calling"
    BY <1>4 DEF Handled
  <2>5. 0 \in 0 .. MaxCalls
    BY <1>0
  <2>6. \/ turn.left > 1 /\ turn' = [turn EXCEPT !.left = @ - 1, !.stopped = stopped]
        \/ turn' = [turn EXCEPT !.phase = "answered", !.left = 0, !.stopped = stopped, !.row = row]
        \/ turn' = [turn EXCEPT !.phase = "asking", !.left = 0]
    BY <1>4, <2>1, <2>2 DEF Handled, Recorded
  <2>7. CASE turn.left > 1 /\ turn' = [turn EXCEPT !.left = @ - 1, !.stopped = stopped]
    <3>1. turn.left - 1 \in 0 .. MaxCalls
      BY <1>0, <2>7
    <3>2. turn' \in TurnType /\ turn'.phase = turn.phase /\ turn'.start = turn.start /\ turn'.spent = turn.spent
      BY <1>0, <2>7, <3>1
    <3> QED BY <1>0, <2>4, <3>2 DEF PaidOK, PaidFor, Chain
  <2>8. CASE turn' = [turn EXCEPT !.phase = "answered", !.left = 0, !.stopped = stopped, !.row = row]
    <3>1. turn' \in TurnType
      BY <1>0, <2>3, <2>5, <2>8
    <3>2. turn'.row = row /\ turn'.start = turn.start /\ turn'.spent = turn.spent
      BY <1>0, <2>8
    <3> QED BY <1>0, <2>2, <2>4, <3>1, <3>2 DEF PaidOK, PaidFor, Chain
  <2>9. CASE turn' = [turn EXCEPT !.phase = "asking", !.left = 0]
    <3>1. turn' \in TurnType
      BY <1>0, <2>5, <2>9
    <3>2. turn'.phase = "asking" /\ turn'.start = turn.start /\ turn'.spent = turn.spent
      BY <1>0, <2>9
    <3> QED BY <1>0, <2>4, <3>1, <3>2 DEF PaidOK, PaidFor, Chain
  <2> QED BY <1>0, <2>4, <2>6, <2>7, <2>8, <2>9
<1> QED BY <1>1, <1>2, <1>3, <1>4, TurnCases

(***************************************************************************)
(* The rows.                                                               *)
(***************************************************************************)
RowTypes ==
  /\ role \in [Org -> Rank]
  /\ project \in [Project -> ProjectRow \cup {None}]
  /\ file \in [File -> FileRow \cup {None}]
  /\ format \subseteq Namespace \X Format
  /\ unborn \subseteq Project \cup File

(* The steps that write rows, those of a tool and those of others.           *)
Writing ==
  \/ \E langs \in NewLangs \cup {None} : CreateProject(langs)
  \/ \E x \in Format : CreateExportFormat(x)
  \/ MergeKeys \/ Retarget \/ Widen \/ Describe \/ CreateUpload

Losing ==
  \/ \E p \in Project : ProjectIsDeleted(p)
  \/ \E f \in File : FileIsDeleted(f) \/ RunEnds(f)

(* Every other step leaves them as they are. *)
LEMMA RowCases ==
  ASSUME TypeOK, [Next]_vars
  PROVE  \/ ToolStep /\ Writing
         \/ Losing
         \/ UNCHANGED <<role, content>>
         \/ \E o \in Org, r \in Rank : RoleChanges(o, r)
<1>1. CASE ToolStep
  <2>1. CASE Dispatching
    BY <2>1, DispatchingWritesNothing DEF Dispatched
  <2>2. CASE (\E p \in Project : Take(p)) \/ EndSweep \/ DatabaseFails
    BY <2>2 DEF Take, EndSweep, DatabaseFails
  <2> QED BY <1>1, <2>1, <2>2, ToolCases DEF Writing
<1>2. CASE Around
  BY <1>2 DEF Around, Losing
<1>3. CASE Pass \/ GiveUp \/ Handled \/ UNCHANGED vars
  BY <1>3 DEF Pass, GiveUp, Handled, vars, toolVars, content
<1> QED BY <1>1, <1>2, <1>3 DEF Next, Step

(* A writing step keeps the rows typed, and what it creates is new.          *)
LEMMA WritingKeepsRows ==
  ASSUME TypeOK, CallOK(call), RowsOK, Writing
  PROVE  RowTypes' /\ RowsOK'
<1> USE DEF RowTypes, RowsOK, content
<1>0. RowTypes
  BY DEF TypeOK
<1>1. ASSUME NEW langs \in NewLangs \cup {None}, CreateProject(langs)
      PROVE  RowTypes' /\ RowsOK'
  <2>1. CASE UNCHANGED <<project, unborn>>
    BY <1>0, <1>1, <2>1 DEF CreateProject
  <2>2. CASE ~UNCHANGED <<project, unborn>>
    <3>1. PICK p \in Fresh(Project), v \in Provider :
            /\ unborn' = unborn \ {p}
            /\ project' = [project EXCEPT ![p] =
                 [ns |-> context.ns, pair |-> <<v, DefaultModel[v]>>, described |-> FALSE]]
      BY <1>1, <2>2 DEF CreateProject
    <3>2. p \in Project /\ p \in unborn
      BY DEF Fresh
    <3>3. <<v, DefaultModel[v]>> \in Pairs /\ context.ns \in Namespace
      BY ToolsAssumption DEF Pairs, TypeOK
    <3>4. PICK new \in ProjectRow :
            new = [ns |-> context.ns, pair |-> <<v, DefaultModel[v]>>, described |-> FALSE]
      BY <3>3 DEF ProjectRow
    <3>5. project' = [project EXCEPT ![p] = new] /\ UNCHANGED <<role, file, format>>
      BY <1>1, <3>1, <3>4 DEF CreateProject
    <3>6. RowTypes'
      BY <1>0, <3>1, <3>2, <3>4, <3>5
    <3>7. project[p] = None
      BY <3>2
    <3>8. \A q \in Project : q # p => project'[q] = project[q]
      BY <1>0, <3>5
    <3>9. \A q \in Project \cap unborn' : project'[q] = None
      BY <3>1, <3>8
    <3>10. \A f \in File \cap unborn' : file'[f] = None
      BY <3>1, <3>5
    <3>11. \A f \in File : file'[f] # None => project'[file'[f].project] # None
      <4> SUFFICES ASSUME NEW f \in File, file'[f] # None
                   PROVE  project'[file'[f].project] # None
        OBVIOUS
      <4>1. file[f] # None /\ file'[f] = file[f] /\ project[file[f].project] # None
        BY <3>5
      <4>2. file[f].project \in Project
        BY <1>0, <4>1 DEF FileRow
      <4> QED BY <3>7, <3>8, <4>1, <4>2
    <3> QED BY <3>6, <3>9, <3>10, <3>11
  <2> QED BY <2>1, <2>2
<1>2. ASSUME NEW x \in Format, CreateExportFormat(x)
      PROVE  RowTypes' /\ RowsOK'
  <2>1. UNCHANGED <<role, project, file, unborn>>
    BY <1>2 DEF CreateExportFormat
  <2>2. format' \subseteq Namespace \X Format
    <3>1. format' = format \/ format' = format \cup {<<context.ns, x>>}
      BY <1>2 DEF CreateExportFormat
    <3>2. context.ns \in Namespace
      BY DEF TypeOK
    <3> QED BY <1>0, <3>1, <3>2
  <2> QED BY <1>0, <2>1, <2>2
<1>3. CASE MergeKeys
  <2>1. call.at \in File /\ UNCHANGED <<role, project, format, unborn>>
    BY <1>3 DEF MergeKeys, CallOK, TargetOK
  <2>2. CASE file[call.at] = None
    BY <1>0, <1>3, <2>1, <2>2 DEF MergeKeys
  <2>3. CASE file[call.at] # None
    <3>1. file' = [file EXCEPT ![call.at].running = TRUE]
      BY <1>3, <2>3 DEF MergeKeys
    <3>2. file[call.at] \in FileRow
      BY <1>0, <2>1, <2>3
    <3>3. PICK new : new = [file[call.at] EXCEPT !.running = TRUE]
      OBVIOUS
    <3>4. new \in FileRow /\ new.project = file[call.at].project
      BY <3>2, <3>3 DEF FileRow
    <3>5. file' = [file EXCEPT ![call.at] = new]
      BY <3>1, <3>3
    <3> QED BY <1>0, <2>1, <2>3, <3>4, <3>5
  <2> QED BY <2>2, <2>3
<1>4. CASE Retarget \/ Describe
  <2>1. call.at \in Project /\ UNCHANGED <<role, file, format, unborn>>
    BY <1>4 DEF Retarget, Describe, CallOK, TargetOK
  <2>2. CASE UNCHANGED project
    BY <1>0, <2>1, <2>2
  <2>3. CASE ~UNCHANGED project
    <3>1. project[call.at] # None
      BY <1>4, <2>3 DEF Retarget, Describe
    <3>2. project[call.at] \in ProjectRow
      BY <1>0, <2>1, <3>1
    <3>3. PICK new \in ProjectRow : project' = [project EXCEPT ![call.at] = new]
      <4>1. CASE Retarget
        <5>1. PICK pair \in Pairs : project' = [project EXCEPT ![call.at].pair = pair]
          BY <4>1, <2>3 DEF Retarget
        <5>2. [project[call.at] EXCEPT !.pair = pair] \in ProjectRow
          BY <3>2 DEF ProjectRow
        <5> QED BY <5>1, <5>2
      <4>2. CASE Describe
        <5>1. call.put \in BOOLEAN
          BY <4>2 DEF Describe, CallOK, PutOK
        <5>2. project' = [project EXCEPT ![call.at].described = call.put]
          BY <4>2, <3>1 DEF Describe
        <5>3. [project[call.at] EXCEPT !.described = call.put] \in ProjectRow
          BY <3>2, <5>1 DEF ProjectRow
        <5> QED BY <5>2, <5>3
      <4> QED BY <1>4, <4>1, <4>2
    <3>4. new # None
      BY <3>3, RowAssumption
    <3> QED BY <1>0, <2>1, <3>1, <3>3, <3>4
  <2> QED BY <2>2, <2>3
<1>5. CASE Widen
  <2>1. UNCHANGED <<role, project, format, unborn>>
    BY <1>5 DEF Widen
  <2>2. PICK takes \in SUBSET FilesOf(call.at), langs \in SUBSET (Lang \ {Master}) :
          file' = [f \in File |->
            IF f \in takes THEN [file[f] EXCEPT !.langs = @ \cup langs, !.running = TRUE] ELSE file[f]]
    <3>1. call.put \ {Master} \subseteq Lang \ {Master}
      BY <1>5 DEF Widen, CallOK, PutOK
    <3> QED BY <1>5, <3>1 DEF Widen
  <2>3. ASSUME NEW f \in File
        PROVE  \/ file'[f] = file[f]
               \/ file[f] # None /\ file'[f] \in FileRow /\ file'[f].project = file[f].project
    <3>1. CASE f \in takes
      <4>1. file[f] # None /\ file[f] \in FileRow
        BY <1>0, <2>2, <3>1 DEF FilesOf
      <4>2. PICK new : new = [file[f] EXCEPT !.langs = @ \cup langs, !.running = TRUE]
        OBVIOUS
      <4>3. new \in FileRow /\ new.project = file[f].project
        BY <4>1, <4>2 DEF FileRow
      <4> QED BY <2>2, <3>1, <4>1, <4>2, <4>3
    <3>2. CASE f \notin takes
      BY <2>2, <3>2
    <3> QED BY <3>1, <3>2
  <2>4. file' \in [File -> FileRow \cup {None}]
    <3>1. \A f \in File : file'[f] \in FileRow \cup {None}
      BY <1>0, <2>3
    <3>2. DOMAIN file' = File /\ file' = [f \in File |-> file'[f]]
      BY <2>2
    <3> QED BY <3>1, <3>2
  <2> QED BY <1>0, <2>1, <2>3, <2>4
<1>6. CASE CreateUpload
  <2>1. UNCHANGED <<role, project, format>> /\ call.at \in Project
    BY <1>6 DEF CreateUpload, CallOK, TargetOK
  <2>2. CASE UNCHANGED <<file, unborn>>
    BY <1>0, <2>1, <2>2
  <2>3. CASE ~UNCHANGED <<file, unborn>>
    <3>1. PICK f \in Fresh(File) :
            /\ project[call.at] # None /\ call.put # None
            /\ unborn' = unborn \ {f}
            /\ file' = [file EXCEPT ![f] =
                 [project |-> call.at, name |-> call.put.name, langs |-> call.put.langs \ {Master},
                  keys |-> FALSE, running |-> TRUE]]
      BY <1>6, <2>3 DEF CreateUpload
    <3>2. f \in File /\ f \in unborn
      BY DEF Fresh
    <3>3. call.put.name \in Name /\ call.put.langs \subseteq Lang
      BY <1>6, <3>1 DEF CreateUpload, CallOK, PutOK, Uploads
    <3>4. PICK new \in FileRow :
            /\ new = [project |-> call.at, name |-> call.put.name, langs |-> call.put.langs \ {Master},
                      keys |-> FALSE, running |-> TRUE]
            /\ new.project = call.at
      <4>1. PICK langs \in SUBSET (Lang \ {Master}) : langs = call.put.langs \ {Master}
        BY <3>3
      <4>2. PICK name \in Name : name = call.put.name
        BY <3>3
      <4>3. [project |-> call.at, name |-> name, langs |-> langs, keys |-> FALSE, running |-> TRUE] \in FileRow
        BY <2>1 DEF FileRow
      <4> QED BY <4>1, <4>2, <4>3
    <3>5. file' = [file EXCEPT ![f] = new]
      BY <3>1, <3>4
    <3>6. RowTypes'
      BY <1>0, <2>1, <3>1, <3>2, <3>5
    <3>7. \A p \in Project \cap unborn' : project'[p] = None
      BY <2>1, <3>1
    <3>8. \A g \in File \cap unborn' : file'[g] = None
      BY <1>0, <3>1, <3>5
    <3>9. \A g \in File : file'[g] # None => project'[file'[g].project] # None
      BY <1>0, <2>1, <3>1, <3>2, <3>4, <3>5
    <3> QED BY <3>6, <3>7, <3>8, <3>9
  <2> QED BY <2>2, <2>3
<1> QED BY <1>1, <1>2, <1>3, <1>4, <1>5, <1>6 DEF Writing

(* What others remove takes its files with it, and what they leave is where  *)
(* it was.                                                                   *)
LEMMA LosingKeepsRows ==
  ASSUME TypeOK, RowsOK, Losing
  PROVE  /\ RowTypes' /\ RowsOK'
         /\ \A p \in Project : project'[p] \in {project[p], None}
         /\ \A f \in File : file'[f] # None => file[f] # None /\ file'[f].project = file[f].project
<1> USE DEF RowTypes, RowsOK
<1>0. RowTypes
  BY DEF TypeOK
<1>1. ASSUME NEW p \in Project, ProjectIsDeleted(p)
      PROVE  /\ RowTypes' /\ RowsOK'
             /\ \A q \in Project : project'[q] \in {project[q], None}
             /\ \A f \in File : file'[f] # None => file[f] # None /\ file'[f].project = file[f].project
  <2>1. /\ project' = [project EXCEPT ![p] = None]
        /\ file' = [f \in File |-> IF f \in FilesOf(p) THEN None ELSE file[f]]
        /\ UNCHANGED <<role, format, unborn>>
    BY <1>1 DEF ProjectIsDeleted
  <2>2. \A f \in File : file'[f] # None => file'[f] = file[f] /\ file[f] # None /\ file[f].project # p
    BY <2>1 DEF FilesOf
  <2>3. RowTypes'
    BY <1>0, <2>1
  <2>4. \A f \in File : file'[f] # None => project'[file'[f].project] # None
    BY <1>0, <2>1, <2>2 DEF FileRow
  <2> QED BY <1>0, <2>1, <2>2, <2>3, <2>4
<1>2. ASSUME NEW f \in File, FileIsDeleted(f)
      PROVE  /\ RowTypes' /\ RowsOK'
             /\ \A q \in Project : project'[q] \in {project[q], None}
             /\ \A g \in File : file'[g] # None => file[g] # None /\ file'[g].project = file[g].project
  BY <1>0, <1>2 DEF FileIsDeleted
<1>3. ASSUME NEW f \in File, RunEnds(f)
      PROVE  /\ RowTypes' /\ RowsOK'
             /\ \A q \in Project : project'[q] \in {project[q], None}
             /\ \A g \in File : file'[g] # None => file[g] # None /\ file'[g].project = file[g].project
  <2>1. file[f] \in FileRow /\ file[f] # None
    BY <1>0, <1>3 DEF RunEnds
  <2>2. PICK keys \in BOOLEAN : file' = [file EXCEPT ![f].running = FALSE, ![f].keys = @ \/ keys]
    BY <1>3 DEF RunEnds
  <2>3. PICK new \in FileRow : new = [file[f] EXCEPT !.running = FALSE, !.keys = @ \/ keys]
                              /\ new.project = file[f].project
    <3>1. PICK stored \in BOOLEAN : stored = (file[f].keys \/ keys)
      OBVIOUS
    <3>2. [file[f] EXCEPT !.running = FALSE, !.keys = stored] \in FileRow
      BY <2>1 DEF FileRow
    <3>3. [file[f] EXCEPT !.running = FALSE, !.keys = stored].project = file[f].project
      BY <2>1 DEF FileRow
    <3> QED BY <3>1, <3>2, <3>3
  <2>4. file' = [file EXCEPT ![f] = new] /\ UNCHANGED <<role, project, format, unborn>>
    BY <1>0, <1>3, <2>2, <2>3 DEF RunEnds
  <2> QED BY <1>0, <2>1, <2>3, <2>4
<1> QED BY <1>1, <1>2, <1>3 DEF Losing

(***************************************************************************)
(* The rights.                                                             *)
(***************************************************************************)

(* The rights a step may rely on are those since its call was dispatched.    *)
LEMMA RightsHeld ==
  ASSUME ToolStep, ~Dispatching
  PROVE  UNCHANGED role /\ (held' = Administered \/ (call.stage = "running" /\ held' = held))
BY ToolCases
DEF Asked, CreateProject, CreateExportFormat, Take, MergeKeys, Retarget, Widen, EndSweep, Describe,
    CreateUpload, DatabaseFails

(* A role that changes, changes the rights of its organisation only. *)
LEMMA RoleChangeKeepsHeld ==
  ASSUME TypeOK, NEW o \in Org, NEW r \in Rank, RoleChanges(o, r)
  PROVE  /\ role' \in [Org -> Rank] /\ held \subseteq held' /\ held' \subseteq Namespace
         /\ Administered \subseteq held => Administered' \subseteq held'
<1>1. role' = [role EXCEPT ![o] = r] /\ held' = IF r = "ADMIN" THEN held \cup {o} ELSE held
  BY DEF RoleChanges
<1>2. role \in [Org -> Rank] /\ held \subseteq Namespace
  BY DEF TypeOK
<1>3. role' \in [Org -> Rank]
  BY <1>1, <1>2
<1>4. ASSUME Administered \subseteq held
      PROVE  Administered' \subseteq held'
  <2>1. \A n \in Namespace : (IF n = Home THEN "ADMIN" ELSE role[n]) = "ADMIN" => n \in held
    BY <1>4 DEF Administered, RoleIn
  <2>2. \A n \in Namespace : (IF n = Home THEN "ADMIN" ELSE role'[n]) = "ADMIN" => n \in held'
    BY <1>1, <1>2, <2>1 DEF Namespace
  <2> QED BY <2>2 DEF Administered, RoleIn
<1> QED BY <1>1, <1>2, <1>3, <1>4 DEF Namespace

(* What a running call is at stays within the rights of the person.          *)
LEMMA RightsStay ==
  ASSUME TypeOK, RowsOK, CallOK(call), RightsOK, [Next]_vars
  PROVE  RightsOK'
<1>1. CASE Dispatching
  <2>1. Dispatched
    BY <1>1, DispatchingWritesNothing
  <2>2. UNCHANGED <<role, project, file>> /\ held' = Administered
    BY <2>1 DEF Dispatched, content
  <2>3. Administered' = Administered
    BY <2>2 DEF Administered, RoleIn
  <2>4. CASE call'.stage = "running" /\ call'.tool = "add_keys"
    <3>1. VisibleFile(call'.at) /\ Allowed(file[call'.at].project) /\ call'.at \in File
      BY <2>1, <2>4, ToolsAssumption DEF Dispatched, CallOK, TargetOK
    <3>2. file[call'.at].project \in Project
      BY <3>1 DEF TypeOK, FileRow, VisibleFile
    <3>3. project[file[call'.at].project].ns \in Administered
      BY <3>1, <3>2, AllowedIsAdministered
    <3> QED BY <2>2, <2>3, <2>4, <3>3 DEF RightsOK
  <2>5. CASE call'.stage = "running" /\ call'.tool # "add_keys"
    BY <2>1, <2>2, <2>3, <2>5 DEF Dispatched, RightsOK
  <2> QED BY <2>4, <2>5 DEF RightsOK
<1>2. CASE ToolStep /\ ~Dispatching
  <2>1. CASE call'.stage = "running"
    <3>1. Administered' = Administered
      BY <1>2, RightsHeld DEF Administered, RoleIn
    <3>2. Administered' \subseteq held'
      BY <1>2, <3>1, RightsHeld DEF RightsOK
    <3>3. Aimed
      BY <1>2, <2>1, CallStaysOK
    <3>4. CASE call'.at = None /\ call'.tool # "add_keys"
      BY <3>2, <3>4 DEF RightsOK
    <3>5. CASE \E p \in Project : call'.at = p /\ Allowed(p) /\ call'.tool # "add_keys" /\ UNCHANGED project
      BY <3>1, <3>2, <3>5, AllowedIsAdministered DEF RightsOK
    <3>6. CASE call'.tool = "create_project"
      BY <3>2, <3>6 DEF RightsOK
    <3> QED BY <3>3, <3>4, <3>5, <3>6 DEF Aimed
  <2> QED BY <2>1 DEF RightsOK
<1>3. CASE Pass \/ GiveUp \/ Handled \/ UNCHANGED vars
  <2>1. CASE UNCHANGED <<role, project, file, held, call>>
    BY <2>1 DEF RightsOK, Administered, RoleIn
  <2>2. CASE ~UNCHANGED <<role, project, file, held, call>>
    <3>1. call' = NoCall \/ call' = [NoCall EXCEPT !.stage = "ready"]
      BY <1>3, <2>2 DEF Pass, GiveUp, Handled, vars, toolVars, content
    <3>2. call'.stage # "running"
      BY <3>1 DEF NoCall
    <3> QED BY <3>2 DEF RightsOK
  <2> QED BY <2>1, <2>2
<1>4. ASSUME NEW o \in Org, NEW r \in Rank, RoleChanges(o, r)
      PROVE  RightsOK'
  <2>1. UNCHANGED <<project, file, call>>
    BY <1>4 DEF RoleChanges, content
  <2> QED BY <1>4, <2>1, RoleChangeKeepsHeld DEF RightsOK
<1>5. CASE Losing
  <2>1. UNCHANGED <<role, held, call>>
    BY <1>5 DEF Losing, ProjectIsDeleted, FileIsDeleted, RunEnds
  <2>2. Administered' = Administered
    BY <2>1 DEF Administered, RoleIn
  <2>3. /\ \A p \in Project : project'[p] \in {project[p], None}
        /\ \A f \in File : file'[f] # None => file[f] # None /\ file'[f].project = file[f].project
        /\ RowsOK' /\ RowTypes'
    BY <1>5, LosingKeepsRows
  <2>4. CASE call.stage = "running" /\ call.tool = "add_keys" /\ file'[call.at] # None
    <3>1. call.at \in File
      BY <2>4 DEF CallOK, TargetOK
    <3>2. file[call.at] # None /\ file'[call.at].project = file[call.at].project
      BY <2>3, <2>4, <3>1
    <3>3. file[call.at].project \in Project
      BY <3>1, <3>2 DEF TypeOK, FileRow
    <3>4. project'[file'[call.at].project] # None
      BY <2>3, <2>4, <3>1 DEF RowsOK
    <3>5. project'[file[call.at].project] = project[file[call.at].project]
      BY <2>3, <3>2, <3>3, <3>4
    <3>6. project[file[call.at].project].ns \in held
      BY <2>4, <3>2 DEF RightsOK
    <3> QED BY <2>1, <2>2, <2>4, <3>2, <3>5, <3>6 DEF RightsOK
  <2>5. CASE call.stage = "running" /\ ~(call.tool = "add_keys" /\ file'[call.at] # None)
    <3>1. call.tool # "add_keys" /\ call.at # None => call.at \in Project
      BY <2>5 DEF CallOK, TargetOK
    <3> QED BY <2>1, <2>2, <2>3, <2>5, <3>1 DEF RightsOK
  <2> QED BY <2>1, <2>4, <2>5 DEF RightsOK
<1> QED
  BY <1>1, <1>2, <1>3, <1>4, <1>5 DEF Next, Step, Around, Losing

(***************************************************************************)
(* The invariant.                                                          *)
(***************************************************************************)

(* The call in hand stays well formed in every step. *)
LEMMA CallStays ==
  ASSUME TypeOK, CallOK(call), [Next]_vars
  PROVE  CallOK(call')
<1>1. CASE ToolStep /\ Dispatching
  BY <1>1, DispatchingWritesNothing DEF Dispatched
<1>2. CASE ToolStep /\ ~Dispatching
  BY <1>2, CallStaysOK
<1>3. CASE Around
  BY <1>3 DEF Around, RoleChanges, ProjectIsDeleted, FileIsDeleted, RunEnds
<1>4. CASE Pass \/ GiveUp \/ Handled \/ UNCHANGED vars
  <2>1. call' = call \/ call' = NoCall \/ call' = [NoCall EXCEPT !.stage = "ready"]
    BY <1>4 DEF Pass, GiveUp, Handled, vars, toolVars
  <2>2. PICK c : c = [NoCall EXCEPT !.stage = "ready"]
    OBVIOUS
  <2> QED BY <2>1, <2>2, NoCallOK
<1> QED BY <1>1, <1>2, <1>3, <1>4 DEF Next, Step

(* So do the rows, *)
LEMMA RowsStay ==
  ASSUME TypeOK, CallOK(call), RowsOK, [Next]_vars
  PROVE  RowTypes' /\ RowsOK'
<1>1. CASE ToolStep /\ Writing
  BY <1>1, WritingKeepsRows
<1>2. CASE Losing
  BY <1>2, LosingKeepsRows
<1>3. CASE UNCHANGED <<role, content>>
  BY <1>3 DEF content, RowTypes, RowsOK, TypeOK
<1>4. ASSUME NEW o \in Org, NEW r \in Rank, RoleChanges(o, r)
      PROVE  RowTypes' /\ RowsOK'
  BY <1>4, RoleChangeKeepsHeld DEF RoleChanges, content, RowTypes, RowsOK, TypeOK
<1> QED BY <1>1, <1>2, <1>3, <1>4, RowCases

(* and the namespaces the person may act in. *)
LEMMA ContextStays ==
  ASSUME TypeOK, [Next]_vars
  PROVE  /\ context' \in [ns : Namespace, role : Rank \ {"none"}, attachment : Name \cup {None}]
         /\ held' \subseteq Namespace
<1>1. context' \in [ns : Namespace, role : Rank \ {"none"}, attachment : Name \cup {None}]
  <2>1. CASE UNCHANGED context
    BY <2>1 DEF TypeOK
  <2>2. ASSUME NEW n \in Namespace, SwitchNamespace(n)
        PROVE  context' \in [ns : Namespace, role : Rank \ {"none"}, attachment : Name \cup {None}]
    <3>1. RoleIn(n) \in Rank
      BY DEF RoleIn, Rank, Namespace, TypeOK
    <3> QED BY <2>2, <3>1 DEF SwitchNamespace, TypeOK
  <2> QED BY <2>1, <2>2, OnlySwitchMoves
<1>2. held' \subseteq Namespace
  <2>1. Administered \subseteq Namespace /\ held \subseteq Namespace
    BY DEF Administered, TypeOK
  <2>2. CASE ToolStep
    BY <2>1, <2>2, RightsHeld, DispatchingWritesNothing DEF Dispatched
  <2>3. CASE Pass \/ GiveUp \/ Handled \/ UNCHANGED vars
    BY <2>1, <2>3 DEF Pass, GiveUp, Handled, vars, toolVars
  <2>4. ASSUME NEW o \in Org, NEW r \in Rank, RoleChanges(o, r)
        PROVE  held' \subseteq Namespace
    BY <2>4, RoleChangeKeepsHeld
  <2>5. CASE Losing
    BY <2>1, <2>5 DEF Losing, ProjectIsDeleted, FileIsDeleted, RunEnds
  <2> QED BY <2>2, <2>3, <2>4, <2>5 DEF Next, Step, Around, Losing
<1> QED BY <1>1, <1>2

(* No step changes what the behaviour is about.                              *)
LEMMA MixStays ==
  ASSUME TypeOK, [Next]_vars
  PROVE  UNCHANGED mix
<1>1. CASE ToolStep
  <2>1. CASE Dispatching
    BY <2>1, DispatchingWritesNothing DEF Dispatched
  <2>2. CASE ~Dispatching
    BY <1>1, <2>2, ToolCases
      DEF CreateProject, CreateExportFormat, Take, MergeKeys, Retarget, Widen, EndSweep, Describe,
          CreateUpload, DatabaseFails
  <2> QED BY <2>1, <2>2
<1>2. CASE Pass \/ GiveUp \/ Handled \/ UNCHANGED vars
  BY <1>2 DEF Pass, GiveUp, Handled, vars, toolVars
<1>3. CASE Around
  BY <1>3 DEF Around, RoleChanges, ProjectIsDeleted, FileIsDeleted, RunEnds
<1> QED BY <1>1, <1>2, <1>3 DEF Next, Step

(* It holds when a turn begins, whatever is there by then, *)
LEMMA InitEstablishes ==
  ASSUME Init
  PROVE  Inv
<1> DEFINE Placed(ns, pair) ==
             [p \in Project |->
               IF p \in Present THEN [ns |-> ns[p], pair |-> pair[p], described |-> FALSE] ELSE None]
<1>1. PICK ns \in [Present -> Namespace], pair \in [Present -> Pairs] : project = Placed(ns, pair)
  <2>1. \E ns \in [Present -> Namespace], pair \in [Present -> Pairs] :
          /\ \A p \in Present :
               pair[p] = FirstPair \/ (mix = "projects" /\ pair[p][2] = DefaultModel[pair[p][1]])
          /\ project = Placed(ns, pair)
    BY DEF Init
  <2> HIDE DEF Placed
  <2> QED BY <2>1
<1> DEFINE First(langs, keyed) ==
             [f \in File |->
               IF mix # "projects" /\ \E p \in Present : Owner[p] = f
                 THEN LET p == CHOOSE q \in Present : Owner[q] = f IN
                      [project |-> p, name |-> FirstName, langs |-> langs[p], keys |-> p \in keyed,
                       running |-> FALSE]
                 ELSE None]
<1>2. PICK langs \in [Present -> (SUBSET (Lang \ {Master})) \ {{}}], keyed \in {Present, {CHOOSE p \in Project : TRUE}} :
        file = First(langs, keyed)
  <2>1. \E langs \in [Present -> (SUBSET (Lang \ {Master})) \ {{}}], keyed \in {Present, {CHOOSE p \in Project : TRUE}} :
          /\ mix # "languages" => \A p \in Present : langs[p] = {FirstLang} /\ p \in keyed
          /\ file = First(langs, keyed)
    BY DEF Init
  <2> HIDE DEF First
  <2> QED BY <2>1
<1>3. Present \subseteq Project
  BY ToolsAssumption DEF Present
<1>4. project \in [Project -> ProjectRow \cup {None}]
  BY <1>1, <1>3 DEF ProjectRow
<1>5. ASSUME NEW f \in File
      PROVE  /\ file[f] \in FileRow \cup {None}
             /\ file[f] # None => file[f].project \in Present
  <2>1. CASE mix # "projects" /\ \E p \in Present : Owner[p] = f
    <3>1. PICK p \in Present : p = CHOOSE q \in Present : Owner[q] = f
      BY <2>1
    <3>2. PICK k \in BOOLEAN : k = (p \in keyed)
      <4>1. (p \in keyed) = TRUE \/ (p \in keyed) = FALSE
        OBVIOUS
      <4> QED BY <4>1, Zenon
    <3>3. file[f] = [project |-> p, name |-> FirstName, langs |-> langs[p], keys |-> k, running |-> FALSE]
      BY <1>2, <2>1, <3>1, <3>2
    <3>4. FirstName \in Name /\ langs[p] \subseteq Lang \ {Master}
      BY ToolsAssumption DEF FirstName
    <3> QED BY <1>3, <3>3, <3>4 DEF FileRow
  <2>2. CASE ~(mix # "projects" /\ \E p \in Present : Owner[p] = f)
    BY <1>2, <2>2
  <2> QED BY <2>1, <2>2
<1>6. file \in [File -> FileRow \cup {None}]
  BY <1>2, <1>5
<1>7. \A p \in Present : project[p] # None
  <2>1. \A p \in Present : project[p] \in ProjectRow
    BY <1>1, <1>3 DEF ProjectRow
  <2> QED BY <2>1, RowAssumption
<1>8. RowsOK
  <2>1. unborn = {p \in Project : project[p] = None} \cup {f \in File : file[f] = None}
    BY DEF Init
  <2> QED BY <1>5, <1>7, <2>1, ToolsAssumption DEF RowsOK
<1>9. PICK home \in Namespace, attached \in Name \cup {None} :
        /\ RoleIn(home) # "none"
        /\ context = [ns |-> home, role |-> RoleIn(home), attachment |-> attached]
        /\ turn = [phase |-> "asking", step |-> 0, left |-> 0, calls |-> 0, stopped |-> FALSE, spent |-> 0,
                   start |-> home, row |-> None]
  BY ToolsAssumption DEF Init, FirstName
<1>10. role \in [Org -> Rank]
  BY DEF Init
<1>11. RoleIn(home) \in Rank
  BY <1>10 DEF RoleIn, Rank, Namespace
<1>12. context \in [ns : Namespace, role : Rank \ {"none"}, attachment : Name \cup {None}]
  BY <1>9, <1>11
<1>13. turn \in [phase : {"asking", "calling", "answered", "failed"}, step : 0 .. MaxRepeats,
                 left : 0 .. MaxCalls, calls : 0 .. MaxCalls, stopped : BOOLEAN, spent : Nat,
                 start : Namespace, row : [ns : Namespace, tokens : Nat] \cup {None}]
  BY <1>9, TurnAssumption
<1>14. format = {} /\ unborn \subseteq Project \cup File /\ downloads = <<>> /\ call = NoCall /\ held = {}
      /\ paid = [n \in Namespace |-> 0]
  BY DEF Init
<1>15. downloads \in Seq(Download) /\ Len(downloads) = 0
  BY <1>14
<1>16. OffersDistinct
  BY <1>14, <1>15, ToolsAssumption DEF OffersDistinct
<1>17. CallOK(call) /\ call.stage = "idle" /\ call.todo = {}
  BY <1>14, NoCallOK DEF NoCall
<1>18. TypeOK
  <2>1. mix \in Mix
    BY DEF Init
  <2> QED BY <2>1, <1>4, <1>6, <1>10, <1>12, <1>13, <1>14, <1>15, <1>17 DEF TypeOK
<1>19. PaidOK
  <2>1. \A n \in Namespace : paid[n] = 0
    BY DEF Init
  <2>2. Home \in Namespace /\ turn.start \in Namespace
    BY <1>9 DEF Namespace
  <2> QED BY <1>9, <2>1, <2>2 DEF PaidOK, PaidFor
<1> QED BY <1>8, <1>16, <1>17, <1>18, <1>19 DEF Inv, RightsOK

(* and every step keeps it. *)
LEMMA NextKeeps ==
  ASSUME Inv, [Next]_vars
  PROVE  Inv'
<1> USE DEF Inv
<1>1. CallOK(call')
  BY CallStays
<1>2. RowTypes' /\ RowsOK'
  BY RowsStay
<1>3. TypeOK'
  <2>1. call'.stage \in {"idle", "ready", "running", "done"} /\ call'.todo \subseteq Project
    BY <1>1 DEF CallOK, CallForm
  <2> QED BY <1>2, <2>1, MixStays, ContextStays, OffersStayDistinct, TurnStays DEF TypeOK, RowTypes
<1> QED BY <1>1, <1>2, <1>3, OffersStayDistinct, RightsStay, TurnStays

(* The inductive invariant, for every instance. *)
THEOREM Invariance == Spec => []Inv
<1>1. Init => Inv
  BY InitEstablishes
<1>2. Inv /\ [Next]_vars => Inv'
  BY NextKeeps
<1> QED BY <1>1, <1>2, PTL DEF Spec

(* AssistantSound: the state of a turn is well typed and nothing is offered  *)
(* twice or beyond MAX_DOWNLOADS_PER_TURN.                                   *)
THEOREM AssistantSoundTheorem == Spec => []AssistantSound
<1>1. Inv => AssistantSound
  BY DEF Inv, AssistantSound
<1> QED BY <1>1, Invariance, PTL

(* RefusalChangesNothing: a call refused as a whole changed no row.          *)
THEOREM RefusalTheorem == Spec => []RefusalChangesNothing
<1>1. Inv => RefusalChangesNothing
  BY DEF Inv, CallOK, Honest, RefusalChangesNothing
<1> QED BY <1>1, Invariance, PTL

(* BilledWhereAuthorised: only credentials of the chain of the namespace on  *)
(* the row of an answered turn paid for it, and the row says all they paid,  *)
(* over every pass and however often the model switched namespace.           *)
THEOREM BilledTheorem == Spec => []BilledWhereAuthorised
<1>1. Inv => BilledWhereAuthorised
  <2> SUFFICES ASSUME Inv, turn.phase = "answered"
               PROVE  /\ \A n \in Namespace \ Chain(turn.row.ns) : paid[n] = 0
                      /\ turn.row.tokens = PaidFor(turn.row.ns)
    BY DEF BilledWhereAuthorised
  <2>1. turn.row.ns = turn.start /\ turn.row.tokens = turn.spent
    BY DEF Inv, PaidOK
  <2> QED BY <2>1 DEF Inv, PaidOK
<1> QED BY <1>1, Invariance, PTL

(***************************************************************************)
(* Who may change what.                                                    *)
(***************************************************************************)

(* What changes of a project in a step: its row, or one of its files.        *)
Disturbed(p) ==
  \/ project'[p] # project[p]
  \/ \E f \in File : /\ file'[f] # file[f]
                     /\ \/ file[f] # None /\ file[f].project = p
                        \/ file'[f] # None /\ file'[f].project = p

(* A writing step that disturbs a project that was there is at it, or at one *)
(* of its files.                                                             *)
LEMMA WritesWhereItIs ==
  ASSUME TypeOK, CallOK(call), RowsOK, Writing, NEW p \in Project, project[p] # None, Disturbed(p)
  PROVE  /\ call.stage = "running"
         /\ \/ call.tool # "add_keys" /\ call.at = p
            \/ call.tool = "add_keys" /\ file[call.at] # None /\ file[call.at].project = p
<1>0. /\ project \in [Project -> ProjectRow \cup {None}]
      /\ file \in [File -> FileRow \cup {None}]
  BY DEF TypeOK
<1>1. ASSUME NEW langs \in NewLangs \cup {None}, CreateProject(langs)
      PROVE  FALSE
  <2>1. UNCHANGED file /\ (UNCHANGED project \/ \E q \in Fresh(Project) : \E new : project' = [project EXCEPT ![q] = new])
    BY <1>1 DEF CreateProject
  <2>2. project'[p] # project[p]
    BY <2>1 DEF Disturbed
  <2>3. PICK q \in Fresh(Project) : \E new : project' = [project EXCEPT ![q] = new]
    BY <2>1, <2>2
  <2>4. q = p
    BY <1>0, <2>2, <2>3
  <2> QED BY <2>4 DEF Fresh, RowsOK
<1>2. ASSUME NEW x \in Format, CreateExportFormat(x)
      PROVE  FALSE
  BY <1>2 DEF CreateExportFormat, Disturbed
<1>3. CASE MergeKeys
  <2>1. /\ call.stage = "running" /\ call.tool = "add_keys" /\ call.at \in File /\ UNCHANGED project
        /\ file' = IF file[call.at] = None THEN file ELSE [file EXCEPT ![call.at].running = TRUE]
    BY <1>3 DEF MergeKeys, CallOK, TargetOK
  <2>2. PICK f \in File : /\ file'[f] # file[f]
                          /\ \/ file[f] # None /\ file[f].project = p
                             \/ file'[f] # None /\ file'[f].project = p
    BY <2>1 DEF Disturbed
  <2>3. f = call.at /\ file[f] # None /\ file'[f] = [file[f] EXCEPT !.running = TRUE]
    BY <1>0, <2>1, <2>2
  <2>4. file[f] \in FileRow
    BY <1>0, <2>3
  <2>5. file'[f].project = file[f].project
    BY <2>3, <2>4 DEF FileRow
  <2> QED BY <2>1, <2>2, <2>3, <2>5
<1>4. CASE Retarget \/ Describe
  <2>1. call.stage = "running" /\ call.tool # "add_keys" /\ UNCHANGED file
    BY <1>4 DEF Retarget, Describe
  <2>2. project'[p] # project[p]
    BY <2>1 DEF Disturbed
  <2>3. UNCHANGED project \/ \E new : project' = [project EXCEPT ![call.at] = new]
    <3>1. CASE Retarget
      BY <3>1 DEF Retarget
    <3>2. CASE Describe
      BY <3>2 DEF Describe
    <3> QED BY <1>4, <3>1, <3>2
  <2>4. call.at = p
    BY <1>0, <2>2, <2>3
  <2> QED BY <2>1, <2>4
<1>5. CASE Widen
  <2>1. call.stage = "running" /\ call.tool # "add_keys" /\ UNCHANGED project
    BY <1>5 DEF Widen
  <2>2. PICK f \in File : /\ file'[f] # file[f]
                          /\ \/ file[f] # None /\ file[f].project = p
                             \/ file'[f] # None /\ file'[f].project = p
    BY <2>1 DEF Disturbed
  <2>3. PICK langs : /\ f \in FilesOf(call.at)
                     /\ file'[f] = [file[f] EXCEPT !.langs = @ \cup langs, !.running = TRUE]
    BY <1>5, <2>2 DEF Widen
  <2>4. file[f] \in FileRow /\ file[f] # None /\ file[f].project = call.at
    BY <1>0, <2>3 DEF FilesOf
  <2>5. file'[f].project = file[f].project
    BY <2>3, <2>4 DEF FileRow
  <2> QED BY <2>1, <2>2, <2>4, <2>5
<1>6. CASE CreateUpload
  <2>1. call.stage = "running" /\ call.tool # "add_keys" /\ UNCHANGED project
    BY <1>6 DEF CreateUpload
  <2>2. PICK f \in File : /\ file'[f] # file[f]
                          /\ \/ file[f] # None /\ file[f].project = p
                             \/ file'[f] # None /\ file'[f].project = p
    BY <2>1 DEF Disturbed
  <2>3. PICK g \in Fresh(File) :
          file' = [file EXCEPT ![g] =
                     [project |-> call.at, name |-> call.put.name, langs |-> call.put.langs \ {Master},
                      keys |-> FALSE, running |-> TRUE]]
    BY <1>6, <2>2 DEF CreateUpload
  <2>4. g = f /\ g \in File /\ file[g] = None
    BY <1>0, <2>2, <2>3 DEF Fresh, RowsOK
  <2>5. file'[f].project = call.at
    BY <1>0, <2>3, <2>4
  <2> QED BY <2>1, <2>2, <2>4, <2>5
<1> QED BY <1>1, <1>2, <1>3, <1>4, <1>5, <1>6 DEF Writing

(* ChangedWithRights: no call changes a project or its files but where the   *)
(* person was ADMIN since it was dispatched, whatever roles change, and      *)
(* projects and files are removed, meanwhile.                                *)
THEOREM ChangedWithRightsTheorem == Spec => ChangedWithRights
<1> DEFINE Lawful ==
             \A p \in Project :
               /\ call' # call /\ call.tool # "create_project" /\ project[p] # None
               /\ project'[p] # project[p] \/ \E f \in FilesOf(p) \cup FilesOf(p)' : file'[f] # file[f]
               => project[p].ns \in held
<1>1. ASSUME Inv, [Next]_vars
      PROVE  [Lawful]_vars
  <2> SUFFICES ASSUME NEW p \in Project, call' # call, call.tool # "create_project", project[p] # None,
                      project'[p] # project[p] \/ \E f \in FilesOf(p) \cup FilesOf(p)' : file'[f] # file[f]
               PROVE  project[p].ns \in held
    OBVIOUS
  <2>1. Disturbed(p)
    BY DEF Disturbed, FilesOf
  <2>2. ~UNCHANGED <<role, content>>
    BY <2>1 DEF Disturbed, content
  <2>3. ~Losing /\ ~\E o \in Org, r \in Rank : RoleChanges(o, r)
    BY DEF Losing, ProjectIsDeleted, FileIsDeleted, RunEnds, RoleChanges
  <2>4. Writing
    BY <1>1, <2>2, <2>3, RowCases DEF Inv
  <2>5. /\ call.stage = "running"
        /\ \/ call.tool # "add_keys" /\ call.at = p
           \/ call.tool = "add_keys" /\ file[call.at] # None /\ file[call.at].project = p
    BY <1>1, <2>1, <2>4, WritesWhereItIs DEF Inv
  <2>6. call.at = p => call.at # None
    BY ToolsAssumption
  <2> QED BY <1>1, <2>5, <2>6 DEF Inv, RightsOK
<1>2. Spec => [][Lawful]_vars
  BY <1>1, Invariance, PTL DEF Spec
<1> QED BY <1>2 DEF ChangedWithRights

=============================================================================
