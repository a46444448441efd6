--------------------------- MODULE AssistantTools ---------------------------
(***************************************************************************)
(* The tools a language model may call during one turn of the assistant    *)
(* (chat.tools.js and tools/): what each asks of the person's access, and   *)
(* what it does to projects, files, languages and export formats.          *)
(*                                                                         *)
(* A tool that acts on projects resolves each of them first and writes      *)
(* after further awaits; a sweep does so for one project after the other.  *)
(* Between any two steps somebody else may change the person's role or     *)
(* remove what the call is about.                                          *)
(***************************************************************************)
EXTENDS Naturals, Sequences, FiniteSets

CONSTANTS
  Org,            \* organisations the person may belong to
  Home,           \* the person's own namespace
  Project, File,  \* identifiers, used once each
  Name,           \* file names
  Lang, Master,   \* locales, and MASTER_LANG_CODE among them
  Provider, Models, DefaultModel,  \* the fixed registry of platforms
  Format,         \* identifiers of export formats; BuiltIn needs no row
  BuiltIn,
  MaxProjects,    \* MAX_PROJECTS_PER_CALL
  MaxLangs,       \* MAX_LANGS_PER_CALL
  MaxDownloads,   \* MAX_DOWNLOADS_PER_TURN
  MaxEvents,      \* bound: what other people do during the turn
  None

ASSUME ToolsAssumption ==
  /\ Home \notin Org /\ Master \in Lang /\ BuiltIn \notin Format
  /\ Project # {} /\ Name # {} /\ Project \cap File = {} /\ MaxDownloads \in Nat
  /\ \A v \in Provider : DefaultModel[v] \in Models[v]
  /\ None \notin Lang \cup Name \cup Project \cup File \cup Provider \cup UNION {Models[v] : v \in Provider}

VARIABLES
  mix,        \* bound: the tools the model calls in this behaviour
  role,       \* role[o]: what the person may do in organisation o
  project,    \* project[p]: the row of project p, or None
  file,       \* file[f]: the row of file f, or None
  format,     \* the rows of export_formats: <<namespace, identifier>>
  unborn,     \* identifiers not handed out yet
  context,    \* the context object: namespace, role in it, name of the attachment
  downloads,  \* context.downloads
  call,       \* the tool call in hand
  held,       \* history: where the person was ADMIN at some time since the call was dispatched
  events      \* bound: what other people have done so far

toolVars == <<mix, role, project, file, format, unborn, context, downloads, call, held, events>>
content == <<project, file, format, unborn>>

Namespace == Org \cup {Home}
Rank == {"none", "MEMBER", "ADMIN"}
Pairs == UNION {{v} \X Models[v] : v \in Provider}
ProjectRow == [ns : Namespace, pair : Pairs, described : BOOLEAN]
FileRow == [project : Project, name : Name, langs : SUBSET (Lang \ {Master}),
            keys : BOOLEAN, running : BOOLEAN]
ASSUME RowAssumption == None \notin ProjectRow \cup FileRow

Download == [file : File, lang : Lang \cup {None}, format : Format \cup {BuiltIn}, name : Name]

(* stage: no call is due, the next one of a list is due, it runs, its result *)
(* is there; todo: targets left; at: the target resolved; put: what to       *)
(* write; applied: some target took the change; changed: so did its row.     *)
NoCall == [stage |-> "idle", tool |-> "none", todo |-> {}, at |-> None, put |-> None,
           applied |-> FALSE, ok |-> FALSE, changed |-> FALSE, broke |-> FALSE]

RoleIn(n) == IF n = Home THEN "ADMIN" ELSE role[n]
Administered == {n \in Namespace : RoleIn(n) = "ADMIN"}

(* resolveProjectAccess: what the person cannot see does not exist.          *)
Visible(p) == project[p] # None /\ RoleIn(project[p].ns) # "none"
VisibleFile(f) == file[f] # None /\ Visible(file[f].project)
Reachable == {p \in Project : Visible(p)}
ProjectsOf(n) == {p \in Project : project[p] # None /\ project[p].ns = n}
FilesOf(p) == {f \in File : file[f] # None /\ file[f].project = p}

(* The next identifier: which one it is makes no difference.                 *)
Fresh(ids) == IF ids \cap unborn = {} THEN {} ELSE {CHOOSE i \in ids \cap unborn : TRUE}

(* Mutant of Allowed: the resolver is called without { admin: true }.        *)
Allowed_WhenVisible(p) == Visible(p)

Allowed(p) == Visible(p) /\ RoleIn(project[p].ns) = "ADMIN"

(***************************************************************************)
(* dispatchTool.                                                           *)
(***************************************************************************)
Asked(tool, tools) == call.stage = "ready" /\ mix \in tools /\ held' = Administered

Begins(tool, todo, put) ==
  call' = [NoCall EXCEPT !.stage = "running", !.tool = tool, !.todo = todo, !.put = put]

Replies(tool, ok) == call' = [NoCall EXCEPT !.stage = "done", !.tool = tool, !.ok = ok]

(* The call in hand ends; wrote: this step changed something for it.         *)
Ends(ok, wrote) ==
  call' = [call EXCEPT !.stage = "done", !.ok = ok, !.at = None, !.todo = {}, !.put = None,
                       !.changed = @ \/ wrote]

(* An error the application did not raise: a generic refusal, whatever the   *)
(* call had done by then.                                                    *)
Breaks == call' = [call EXCEPT !.stage = "done", !.at = None, !.todo = {}, !.put = None, !.broke = TRUE]

(* An unknown tool, unusable arguments, or a tool that only reads.           *)
Answers ==
  /\ Asked("read", {"projects", "languages", "files", "exports"})
  /\ \E ok \in BOOLEAN : Replies("read", ok)
  /\ UNCHANGED <<mix, role, content, context, downloads, events>>

Stop ==
  /\ Asked("stop", {"projects", "languages", "files", "exports"}) /\ Replies("stop", TRUE)
  /\ UNCHANGED <<mix, role, content, context, downloads, events>>

SwitchNamespace(n) ==
  /\ Asked("switch_namespace", {"projects", "languages", "exports"})
  /\ Replies("switch_namespace", RoleIn(n) # "none")
  /\ context' = IF RoleIn(n) # "none" THEN [context EXCEPT !.ns = n, !.role = RoleIn(n)] ELSE context
  /\ UNCHANGED <<mix, role, content, downloads, events>>

(***************************************************************************)
(* Tools that name one project or one file.                                *)
(***************************************************************************)
UploadFile(p, langs) ==
  /\ Asked("upload_file", {"files"})
  /\ Begins("upload_file", {p},
       IF context.attachment = None THEN None ELSE [langs |-> langs, name |-> context.attachment])
  /\ UNCHANGED <<mix, role, content, context, downloads, events>>

(* Without a language, with no key or too many, or under a name that does    *)
(* not pass, nothing is put.                                                 *)
CreateFile(p, langs) ==
  /\ Asked("create_file", {"files"})
  /\ \E n \in Name :
       Begins("create_file", {p}, IF langs = None THEN None ELSE [langs |-> langs, name |-> n])
  /\ UNCHANGED <<mix, role, content, context, downloads, events>>

UpdateProjectDescription(p, described) ==
  /\ Asked("update_project_description", {"projects"})
  /\ Begins("update_project_description", {p}, described)
  /\ UNCHANGED <<mix, role, content, context, downloads, events>>

(* Keys come from the message or from an attachment, and from one of them.   *)
AddKeys(f, inline) ==
  /\ Asked("add_keys", {"files"})
  /\ IF VisibleFile(f) /\ Allowed(file[f].project) /\ inline = (context.attachment = None)
       THEN call' = [NoCall EXCEPT !.stage = "running", !.tool = "add_keys", !.at = f]
       ELSE Replies("add_keys", FALSE)
  /\ UNCHANGED <<mix, role, content, context, downloads, events>>

(* mergeKeys starts a run of the file that is there, or of one that was.     *)
MergeKeys ==
  /\ call.stage = "running" /\ call.tool = "add_keys"
  /\ LET f == call.at IN
     /\ file' = IF file[f] = None THEN file ELSE [file EXCEPT ![f].running = TRUE]
     /\ Ends(TRUE, file[f] # None)
  /\ UNCHANGED <<mix, role, project, format, unborn, context, downloads, held, events>>

(***************************************************************************)
(* Tools that act in the namespace of the context, on the role it holds.   *)
(***************************************************************************)
(* The name is taken or the platform unknown; or a row is created, and with  *)
(* an attachment and languages a file is uploaded into it. Bound: it starts  *)
(* with a platform's default model.                                          *)
CreateProject(langs) ==
  /\ Asked("create_project", {"files"})
  /\ \/ Replies("create_project", FALSE) /\ UNCHANGED <<project, unborn>>
     \/ LET uploads == context.attachment # None /\ langs # None IN
        /\ context.role = "ADMIN"
        /\ langs = None \/ context.attachment # None
        /\ \E p \in Fresh(Project), v \in Provider :
             /\ unborn' = unborn \ {p}
             /\ project' = [project EXCEPT ![p] =
                  [ns |-> context.ns, pair |-> <<v, DefaultModel[v]>>, described |-> FALSE]]
             /\ call' = [NoCall EXCEPT !.tool = "create_project", !.changed = TRUE,
                  !.stage = IF uploads THEN "running" ELSE "done", !.ok = ~uploads,
                  !.at = IF uploads THEN p ELSE None,
                  !.put = IF uploads THEN [langs |-> langs, name |-> context.attachment] ELSE None]
  /\ UNCHANGED <<mix, role, file, format, context, downloads, events>>

(* The definitions are refused, the identifier is taken, or a row is added.  *)
CreateExportFormat(x) ==
  /\ Asked("create_export_format", {"exports"})
  /\ \/ Replies("create_export_format", FALSE) /\ UNCHANGED format
     \/ /\ context.role = "ADMIN" /\ <<context.ns, x>> \notin format
        /\ format' = format \cup {<<context.ns, x>>}
        /\ call' = [NoCall EXCEPT !.stage = "done", !.tool = "create_export_format",
                                  !.ok = TRUE, !.changed = TRUE]
  /\ UNCHANGED <<mix, role, project, file, unborn, context, downloads, events>>

(***************************************************************************)
(* Sweeps over projects.                                                   *)
(***************************************************************************)
Sweeps == {"update_project_ai", "add_languages"}

(* collectProjectTargets: named projects, or all of the sweep.               *)
Collected(tool, named, all, put) ==
  LET todo == IF named = {} THEN all ELSE named IN
  IF todo = {} \/ Cardinality(todo) > MaxProjects
    THEN Replies(tool, FALSE)
    ELSE Begins(tool, todo, put)

(* A platform outside the registry, or a model it does not offer, is refused *)
(* once for all.                                                             *)
UpdateProjectAi(named, v, m) ==
  /\ Asked("update_project_ai", {"projects"})
  /\ v # None \/ m # None
  /\ IF v # None /\ m # None /\ m \notin Models[v]
       THEN Replies("update_project_ai", FALSE)
       ELSE Collected("update_project_ai", named, Reachable, [provider |-> v, model |-> m])
  /\ UNCHANGED <<mix, role, content, context, downloads, events>>

(* collectConfiguredLangs: every target in use where the person can act.     *)
InUse == UNION {file[f].langs : f \in {g \in File : VisibleFile(g)}} \ {Master}

AddLanguages(named, langs) ==
  /\ Asked("add_languages", {"languages"})
  /\ LET wanted == IF langs = {} THEN InUse ELSE langs IN
     IF wanted = {} \/ Cardinality(wanted) > MaxLangs
       THEN Replies("add_languages", FALSE)
       ELSE Collected("add_languages", named, ProjectsOf(context.ns), wanted)
  /\ UNCHANGED <<mix, role, content, context, downloads, events>>

(* Every project is authorised on its own: a sweep skips one it may not      *)
(* change, a tool that names one project refuses.                            *)
Take(p) ==
  /\ call.stage = "running" /\ call.at = None /\ p \in call.todo
  /\ IF Allowed(p) THEN call' = [call EXCEPT !.at = p]
     ELSE IF call.tool \in Sweeps THEN call' = [call EXCEPT !.todo = @ \ {p}]
     ELSE Ends(FALSE, FALSE)
  /\ UNCHANGED <<mix, role, content, context, downloads, held, events>>

(* Mutant of Refused: the first project that cannot take the change ends the *)
(* sweep.                                                                    *)
Refused_EndsSweep(p) == Ends(FALSE, FALSE)

(* A project that cannot take the change is skipped.                         *)
Refused(p) == call' = [call EXCEPT !.at = None, !.todo = @ \ {p}]

Taken(p, wrote) ==
  call' = [call EXCEPT !.at = None, !.todo = @ \ {p}, !.applied = TRUE, !.changed = @ \/ wrote]

(* The pair updateProject writes.                                            *)
Retargeted(pair, put) ==
  LET v == IF put.provider = None THEN pair[1] ELSE put.provider IN
  <<v, IF put.model # None THEN put.model ELSE IF v = pair[1] THEN pair[2] ELSE DefaultModel[v]>>

(* updateProject of a row that is gone by now updates nothing and succeeds.  *)
Retarget ==
  /\ call.stage = "running" /\ call.tool = "update_project_ai" /\ call.at # None
  /\ LET p == call.at IN
     IF project[p] = None THEN Taken(p, FALSE) /\ UNCHANGED project
     ELSE IF Retargeted(project[p].pair, call.put) \in Pairs
       THEN /\ project' = [project EXCEPT ![p].pair = Retargeted(@, call.put)]
            /\ Taken(p, TRUE)
       ELSE Refused(p) /\ UNCHANGED project
  /\ UNCHANGED <<mix, role, file, format, unborn, context, downloads, held, events>>

(* addTargetLanguages on every file: one without keys, or that has all of    *)
(* them, is skipped. Bound: the files of a project take it in one step, where *)
(* the code awaits each.                                                     *)
Widen ==
  /\ call.stage = "running" /\ call.tool = "add_languages" /\ call.at # None
  /\ LET p == call.at
         takes == {f \in FilesOf(p) : file[f].keys /\ ~((call.put \ {Master}) \subseteq file[f].langs)}
     IN /\ file' = [f \in File |->
             IF f \in takes
               THEN [file[f] EXCEPT !.langs = @ \cup (call.put \ {Master}), !.running = TRUE]
               ELSE file[f]]
        /\ IF takes = {} THEN Refused(p) ELSE Taken(p, TRUE)
  /\ UNCHANGED <<mix, role, project, format, unborn, context, downloads, held, events>>

(* add_languages reports success whatever it skipped.                        *)
EndSweep ==
  /\ call.stage = "running" /\ call.tool \in Sweeps /\ call.at = None /\ call.todo = {}
  /\ Ends(call.tool = "add_languages" \/ call.applied, FALSE)
  /\ UNCHANGED <<mix, role, content, context, downloads, held, events>>

Describe ==
  /\ call.stage = "running" /\ call.tool = "update_project_description" /\ call.at # None
  /\ LET p == call.at IN
     /\ project' = IF project[p] = None THEN project ELSE [project EXCEPT ![p].described = call.put]
     /\ Ends(TRUE, project[p] # None)
  /\ UNCHANGED <<mix, role, file, format, unborn, context, downloads, held, events>>

(* createUpload: no target left beside the source, or a name in use, is      *)
(* refused; a project removed meanwhile fails the foreign key.               *)
CreateUpload ==
  /\ call.stage = "running" /\ call.at # None
  /\ call.tool \in {"upload_file", "create_file", "create_project"}
  /\ LET p == call.at
         usable == /\ call.put # None
                   /\ call.put.langs \ {Master} # {}
                   /\ \A f \in FilesOf(p) : file[f].name # call.put.name
     IN \/ ~usable /\ Ends(FALSE, FALSE) /\ UNCHANGED <<file, unborn>>
        \/ usable /\ project[p] = None /\ Breaks /\ UNCHANGED <<file, unborn>>
        \/ /\ usable /\ project[p] # None
           /\ \E f \in Fresh(File) :
                /\ unborn' = unborn \ {f}
                /\ file' = [file EXCEPT ![f] =
                     [project |-> p, name |-> call.put.name, langs |-> call.put.langs \ {Master},
                      keys |-> FALSE, running |-> TRUE]]
                /\ Ends(TRUE, TRUE)
  /\ UNCHANGED <<mix, role, project, format, context, downloads, held, events>>

(* The database fails under a call that runs.                                *)
DatabaseFails ==
  /\ call.stage = "running" /\ events < MaxEvents
  /\ events' = events + 1 /\ Breaks
  /\ UNCHANGED <<mix, role, content, context, downloads, held>>

(***************************************************************************)
(* export_file.                                                            *)
(***************************************************************************)
(* Mutant of SameOffer: a download under another name is another download.   *)
SameOffer_ByName(d, e) == d = e

SameOffer(d, e) == d.file = e.file /\ d.lang = e.lang /\ d.format = e.format

WithOffer(d) ==
  IF \E i \in DOMAIN downloads : SameOffer(downloads[i], d)
    THEN [i \in DOMAIN downloads |-> IF SameOffer(downloads[i], d) THEN d ELSE downloads[i]]
    ELSE Append(downloads, d)

(* The ceiling is looked at before an offer is found to be there already.    *)
CanOffer(d) ==
  /\ VisibleFile(d.file)
  /\ Len(downloads) < MaxDownloads
  /\ d.format = BuiltIn \/ <<project[file[d.file].project].ns, d.format>> \in format
  /\ file[d.file].keys
  /\ d.lang = None \/ d.lang \in file[d.file].langs \cup {Master}

ExportFile(d) ==
  /\ Asked("export_file", {"exports"})
  /\ Replies("export_file", CanOffer(d))
  /\ downloads' = IF CanOffer(d) THEN WithOffer(d) ELSE downloads
  /\ UNCHANGED <<mix, role, content, context, events>>

(* Bound: the languages a call names are the source, or all others.          *)
NewLangs == {{Master}, Lang \ {Master}}

ToolStep ==
  \/ Answers \/ Stop \/ MergeKeys \/ Retarget \/ Widen \/ EndSweep \/ Describe \/ CreateUpload
  \/ DatabaseFails
  \/ \E n \in Namespace : SwitchNamespace(n)
  \/ \E p \in Project : Take(p) \/ \E b \in BOOLEAN : UpdateProjectDescription(p, b)
  \/ \E p \in Project, langs \in NewLangs : UploadFile(p, langs)
  \/ \E p \in Project, langs \in NewLangs \cup {None} : CreateFile(p, langs)
  \/ \E f \in File, inline \in BOOLEAN : AddKeys(f, inline)
  \/ \E langs \in NewLangs \cup {None} : CreateProject(langs)
  \/ \E x \in Format : CreateExportFormat(x)
  \/ \E named \in SUBSET Project, v \in Provider \cup {None},
        m \in UNION {Models[w] : w \in Provider} \cup {None} : UpdateProjectAi(named, v, m)
  \/ \E named \in SUBSET Project, langs \in NewLangs \cup {{}, Lang} : AddLanguages(named, langs)
  \/ \E d \in Download : ExportFile(d)

(***************************************************************************)
(* Meanwhile.                                                              *)
(***************************************************************************)
Meanwhile == events < MaxEvents /\ events' = events + 1

(* An owner of the organisation changes the role of the person.              *)
RoleChanges(o, r) ==
  /\ Meanwhile /\ role[o] # r
  /\ role' = [role EXCEPT ![o] = r]
  /\ held' = IF r = "ADMIN" THEN held \cup {o} ELSE held
  /\ UNCHANGED <<mix, content, context, downloads, call>>

ProjectIsDeleted(p) ==
  /\ Meanwhile /\ project[p] # None
  /\ project' = [project EXCEPT ![p] = None]
  /\ file' = [f \in File |-> IF f \in FilesOf(p) THEN None ELSE file[f]]
  /\ UNCHANGED <<mix, role, format, unborn, context, downloads, call, held>>

FileIsDeleted(f) ==
  /\ Meanwhile /\ file[f] # None
  /\ file' = [file EXCEPT ![f] = None]
  /\ UNCHANGED <<mix, role, project, format, unborn, context, downloads, call, held>>

(* A pipeline run of the file ends: it stores keys, or it fails.             *)
RunEnds(f) ==
  /\ file[f] # None /\ file[f].running
  /\ \E keys \in BOOLEAN :
       file' = [file EXCEPT ![f].running = FALSE, ![f].keys = @ \/ keys]
  /\ UNCHANGED <<mix, role, project, format, unborn, context, downloads, call, held, events>>

Around ==
  \/ \E o \in Org, r \in Rank : RoleChanges(o, r)
  \/ \E p \in Project : ProjectIsDeleted(p)
  \/ \E f \in File : FileIsDeleted(f) \/ RunEnds(f)
=============================================================================
