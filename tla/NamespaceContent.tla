-------------------------- MODULE NamespaceContent --------------------------
(***************************************************************************)
(* What an organisation owns: projects (project.service.js), the languages *)
(* of their files, and export formats (exportFormat.service.js), beside    *)
(* the memberships of Organisation, whose deletion takes all of it.        *)
(*                                                                         *)
(* An update saves a loaded instance, and Sequelize writes only the        *)
(* attributes that differ from what was loaded: two updates of one row     *)
(* write different columns of it.                                          *)
(***************************************************************************)
EXTENDS Organisation

CONSTANTS
  Job,           \* requests about content the server has in hand at a time
  Project,       \* project identifiers, in no order, used once each
  Name,          \* project names
  Provider, Models, DefaultModel,  \* the fixed registry: Models[v] and its default
  Format,        \* identifiers of export formats that are not built in
  MaxFormats,    \* MAX_FORMATS_PER_NAMESPACE
  Lang,
  NoRow          \* an attribute, a row or an input that is not there

ASSUME RegistryAssumption ==
  /\ Provider # {}
  /\ \A v \in Provider : DefaultModel[v] \in Models[v]

VARIABLES
  mix,      \* bound: which requests this behaviour sees
  unborn,   \* identifiers the sequence behind projects.id has not handed out
  project,  \* project[p]: the row of project p, or NoRow
  format,   \* format[f]: the row of the format called f, or NoRow
  langs,    \* langs[p]: target_lang_codes of the file of project p
  owed,     \* history: the languages a request reported as added to that file
  job,      \* job[j]: the request in slot j
  tainted   \* history: rows written from an instance that was out of date

contentVars == <<mix, unborn, project, format, langs, owed, job, tainted>>
vars == <<orgVars, contentVars>>

Model == UNION {Models[v] : v \in Provider}
ProjectRow == [name : Name, provider : Provider, model : Model]

(* Field names of a leaf, and the two defaults among them. *)
Field == {"value", "hash"}
Leaf == [leaf : {"OBJECT", "STRING"}, value : Field \cup {"null"}, hash : Field \cup {"null"}]

(* Identifiers are of one table, and what is not there is none of the rest.  *)
ASSUME RowAssumption ==
  /\ Project \cap Format = {}
  /\ NoRow \notin Project \cup Provider \cup Model \cup ProjectRow \cup Leaf
  /\ NoRow \notin Field \cup {"null", "OBJECT", "STRING"}

Alive(p) == project[p] # NoRow

(* kind: what is asked; on: the project or format it names; gone: that row   *)
(* was removed since; loaded: the instance; put: the values to save; fresh:  *)
(* the row has not been written since it was loaded; todo: projects left.    *)
NoJob == [kind |-> "none", on |-> NoRow, gone |-> FALSE, loaded |-> NoRow, put |-> NoRow,
          fresh |-> TRUE, todo |-> {}]

InitContent ==
  /\ mix \in {"members", "projects", "formats", "languages"}
  /\ format = [f \in Format |-> NoRow]
  /\ langs = [p \in Project |-> {}]
  /\ owed = [p \in Project |-> {}]
  /\ job = [j \in Job |-> NoJob]
  /\ tainted = {}

(* A row of a pair the registry offers. *)
Offered == CHOOSE row \in ProjectRow : row.model = DefaultModel[row.provider]

(* A behaviour about content starts with a live organisation and one owner,  *)
(* and when it is about languages with every project in place.               *)
Init ==
  /\ InitContent
  /\ IF mix = "members"
       THEN InitOrganisation
       ELSE /\ org = "live" /\ founder = NoPerson /\ raced = FALSE
            /\ role \in {[p \in Person |-> IF p = q THEN "OWNER" ELSE "none"] : q \in Person}
            /\ req = [r \in Request |-> Idle]
  /\ IF mix = "languages"
       THEN \E names \in [Project -> Name] :
              /\ \A p, q \in Project : names[p] = names[q] => p = q
              /\ project = [p \in Project |-> [Offered EXCEPT !.name = names[p]]]
       ELSE project = [p \in Project |-> NoRow]
  /\ unborn = IF mix = "languages" THEN {} ELSE Project

Administrator == \E p \in Person : Holds(Access(p, org), "ADMIN")
Free(j) == job[j].kind = "none"
Finish(j) == job' = [job EXCEPT ![j] = NoJob]

(* The row called x in kinds is written: whoever loaded it holds an old      *)
(* instance, and one that is removed is gone.                                *)
Written(j, x, kinds, removed) ==
  job' = [i \in Job |->
    IF i = j THEN NoJob
    ELSE IF job[i].on = x /\ job[i].kind \in kinds
      THEN [job[i] EXCEPT !.fresh = FALSE, !.gone = @ \/ removed]
      ELSE job[i]]

(* instance.update: an attribute equal to the loaded one keeps what the row  *)
(* holds by now.                                                             *)
Saved(row, loaded, put) ==
  [a \in DOMAIN row |-> IF put[a] # loaded[a] THEN put[a] ELSE row[a]]

(***************************************************************************)
(* Projects.                                                               *)
(***************************************************************************)

(* The platform and model of updateProject: at most one pair, none when the  *)
(* platform does not offer the model.                                        *)
Pair(wanted, model, current) ==
  LET v == IF wanted = NoRow THEN current.provider ELSE wanted
      m == IF model # NoRow THEN model
           ELSE IF v = current.provider THEN current.model ELSE DefaultModel[v]
  IN {pair \in {<<v, m>>} : m \in Models[v]}

NameTaken(n, except) == \E q \in Project \ {except} : Alive(q) /\ project[q].name = n

(* createProject, up to its insert: the platform is the one named or the     *)
(* first one somebody pays for, which may be any.                            *)
BeginCreateProject(j, n) ==
  /\ mix = "projects" /\ Free(j) /\ Administrator
  /\ \E v \in Provider, m \in Model \cup {NoRow} :
       \E pair \in Pair(v, m, [provider |-> NoRow, model |-> NoRow]) :
         /\ ~NameTaken(n, NoRow)
         /\ job' = [job EXCEPT ![j] =
              [NoJob EXCEPT !.kind = "createProject",
                            !.put = [name |-> n, provider |-> pair[1], model |-> pair[2]]]]
  /\ UNCHANGED <<orgVars, mix, unborn, project, format, langs, owed, tainted>>

(* Mutant of Accepts: no foreign key to the namespace. *)
Accepts_NoForeignKey(n, except) == ~NameTaken(n, except)

(* The unique index on (namespace, name) and the foreign key.                *)
Accepts(n, except) == org = "live" /\ ~NameTaken(n, except)

InsertProject(j) ==
  /\ job[j].kind = "createProject"
  /\ IF Accepts(job[j].put.name, NoRow)
       THEN \E p \in Project :
              /\ p \in unborn
              /\ unborn' = unborn \ {p}
              /\ project' = [project EXCEPT ![p] = job[j].put]
       ELSE UNCHANGED <<unborn, project>>
  /\ Finish(j)
  /\ UNCHANGED <<orgVars, mix, format, langs, owed, tainted>>

(* The router loaded the project; updateProject then settles what to save.   *)
(* Bound: an update changes the name or the pair, not both.                  *)
BeginUpdateProject(j, p) ==
  /\ mix = "projects" /\ Free(j) /\ Administrator /\ Alive(p)
  /\ \E v \in Provider \cup {NoRow}, m \in Model \cup {NoRow}, n \in Name :
       \E pair \in Pair(v, m, project[p]) :
         /\ n = project[p].name \/ (v = NoRow /\ m = NoRow)
         /\ job' = [job EXCEPT ![j] =
              [NoJob EXCEPT !.kind = "updateProject", !.on = p, !.loaded = project[p],
                            !.put = [name |-> n, provider |-> pair[1], model |-> pair[2]]]]
  /\ UNCHANGED <<orgVars, mix, unborn, project, format, langs, owed, tainted>>

(* project.update: a name that is taken meets the unique index. *)
SaveProject(j) ==
  /\ job[j].kind = "updateProject"
  /\ LET p   == job[j].on
         row == Saved(project[p], job[j].loaded, job[j].put)
     IN
     IF ~job[j].gone /\ Accepts(row.name, p)
       THEN /\ project' = [project EXCEPT ![p] = row]
            /\ tainted' = IF job[j].fresh THEN tainted ELSE tainted \cup {p}
            /\ Written(j, p, {"updateProject"}, FALSE)
       ELSE Finish(j) /\ UNCHANGED <<project, tainted>>
  /\ UNCHANGED <<orgVars, mix, unborn, format, langs, owed>>

DeleteProject(p) ==
  /\ mix \in {"projects", "languages"} /\ Administrator /\ Alive(p)
  /\ project' = [project EXCEPT ![p] = NoRow]
  /\ langs' = [langs EXCEPT ![p] = {}]
  /\ owed' = [owed EXCEPT ![p] = {}]
  /\ job' = [i \in Job |->
       [job[i] EXCEPT !.gone = @ \/ (job[i].on = p /\ job[i].kind \in {"updateProject", "languages"})]]
  /\ UNCHANGED <<orgVars, mix, unborn, format, tainted>>

(***************************************************************************)
(* addLanguagesAcrossProjects: project by project, and for each its file's *)
(* list is read, extended and saved.                                       *)
(***************************************************************************)

(* Every project of the namespace, or those of the given ones it owns. *)
BeginLanguages(j, wanted, add) ==
  /\ mix = "languages" /\ Free(j) /\ Administrator
  /\ LET found == {p \in wanted : Alive(p)} IN
     /\ found # {}
     /\ job' = [job EXCEPT ![j] = [NoJob EXCEPT !.kind = "languages", !.put = add, !.todo = found]]
  /\ UNCHANGED <<orgVars, mix, unborn, project, format, langs, owed, tainted>>

(* The next project's file is loaded. One that was deleted has no files; one *)
(* that has every language, or no keys yet, is skipped with a reason.        *)
LoadFile(j, p) ==
  /\ job[j].kind = "languages" /\ job[j].on = NoRow /\ p \in job[j].todo
  /\ \/ /\ Alive(p) /\ ~(job[j].put \subseteq langs[p])
        /\ job' = [job EXCEPT ![j].on = p, ![j].todo = @ \ {p}, ![j].loaded = langs[p],
                              ![j].fresh = TRUE, ![j].gone = FALSE]
     \/ job' = [job EXCEPT ![j].todo = @ \ {p}]
  /\ UNCHANGED <<orgVars, mix, unborn, project, format, langs, owed, tainted>>

(* Mutant of Extended: the list is replaced by the languages asked for.      *)
Extended_Replaced(loaded, add) == add

Extended(loaded, add) == loaded \cup add

(* file.update({targetLangCodes}), and the file reported under applied.      *)
SaveLanguages(j) ==
  /\ job[j].kind = "languages" /\ job[j].on # NoRow
  /\ LET p == job[j].on IN
     /\ IF ~job[j].gone
          THEN /\ langs' = [langs EXCEPT ![p] = Extended(job[j].loaded, job[j].put)]
               /\ owed' = [owed EXCEPT ![p] = @ \cup job[j].put]
               /\ tainted' = IF job[j].fresh THEN tainted ELSE tainted \cup {p}
          ELSE UNCHANGED <<langs, owed, tainted>>
     /\ job' = [i \in Job |->
          IF i = j THEN [job[j] EXCEPT !.on = NoRow, !.loaded = NoRow]
          ELSE [job[i] EXCEPT !.fresh = @ /\ ~(job[i].on = p)]]
  /\ UNCHANGED <<orgVars, mix, unborn, project, format>>

EndLanguages(j) ==
  /\ job[j].kind = "languages" /\ job[j].on = NoRow /\ job[j].todo = {}
  /\ Finish(j)
  /\ UNCHANGED <<orgVars, mix, unborn, project, format, langs, owed, tainted>>

(***************************************************************************)
(* Export formats.                                                         *)
(***************************************************************************)

(* resolveLeafFields: in.x is NoRow where the payload leaves x out, and a    *)
(* hash of "null" asks for none; cur is the stored format or NoRow. At most  *)
(* one result, none when the combination is refused.                         *)
LeafFields(in, cur) ==
  LET Or(x, y) == IF x \in {NoRow, "null"} THEN y ELSE x
      Stored(a) == IF cur = NoRow THEN NoRow ELSE cur[a]
      leaf  == Or(in.leaf, Or(Stored("leaf"), "OBJECT"))
      value == Or(in.value, Or(Stored("value"), "value"))
      hash  == IF in.hash = NoRow THEN Or(Stored("hash"), "hash") ELSE in.hash
  IN IF leaf = "STRING"
       THEN IF in.value = NoRow /\ in.hash = NoRow
              THEN {[leaf |-> leaf, value |-> "null", hash |-> "null"]} ELSE {}
       ELSE IF hash # value
              THEN {[leaf |-> leaf, value |-> value, hash |-> hash]} ELSE {}

LeafInput == [leaf : {"OBJECT", "STRING", NoRow}, value : Field \cup {NoRow},
              hash : Field \cup {"null", NoRow}]

Formats == {f \in Format : format[f] # NoRow}

(* createFormat, up to its insert: not taken, below the ceiling. *)
BeginCreateFormat(j, f) ==
  /\ mix = "formats" /\ Free(j) /\ Administrator
  /\ f \notin Formats /\ Cardinality(Formats) < MaxFormats
  /\ \E in \in LeafInput : \E l \in LeafFields(in, NoRow) :
       job' = [job EXCEPT ![j] = [NoJob EXCEPT !.kind = "createFormat", !.on = f, !.put = l]]
  /\ UNCHANGED <<orgVars, mix, unborn, project, format, langs, owed, tainted>>

InsertFormat(j) ==
  /\ job[j].kind = "createFormat"
  /\ IF org = "live" /\ job[j].on \notin Formats
       THEN format' = [format EXCEPT ![job[j].on] = job[j].put]
       ELSE format' = format
  /\ Finish(j)
  /\ UNCHANGED <<orgVars, mix, unborn, project, langs, owed, tainted>>

BeginUpdateFormat(j, f) ==
  /\ mix = "formats" /\ Free(j) /\ Administrator /\ f \in Formats
  /\ \E in \in LeafInput : \E l \in LeafFields(in, format[f]) :
       job' = [job EXCEPT ![j] = [NoJob EXCEPT !.kind = "updateFormat", !.on = f,
                                               !.loaded = format[f], !.put = l]]
  /\ UNCHANGED <<orgVars, mix, unborn, project, format, langs, owed, tainted>>

(* A format created again under the name has another row. *)
SaveFormat(j) ==
  /\ job[j].kind = "updateFormat"
  /\ LET f == job[j].on IN
     IF ~job[j].gone
       THEN /\ format' = [format EXCEPT ![f] = Saved(@, job[j].loaded, job[j].put)]
            /\ tainted' = IF job[j].fresh THEN tainted ELSE tainted \cup {f}
            /\ Written(j, f, {"updateFormat"}, FALSE)
       ELSE Finish(j) /\ UNCHANGED <<format, tainted>>
  /\ UNCHANGED <<orgVars, mix, unborn, project, langs, owed>>

RemoveFormat(f) ==
  /\ mix = "formats" /\ Administrator /\ f \in Formats
  /\ format' = [format EXCEPT ![f] = NoRow]
  /\ tainted' = tainted \ {f}
  /\ job' = [i \in Job |->
       [job[i] EXCEPT !.gone = @ \/ (job[i].on = f /\ job[i].kind = "updateFormat")]]
  /\ UNCHANGED <<orgVars, mix, unborn, project, langs, owed>>

(***************************************************************************)
(* The organisation's deletion, and the whole.                             *)
(***************************************************************************)

(* The associations: everything that hangs off the account goes with it.     *)
Cascade ==
  /\ project' = [p \in Project |-> NoRow]
  /\ format' = [f \in Format |-> NoRow]
  /\ langs' = [p \in Project |-> {}] /\ owed' = [p \in Project |-> {}]
  /\ tainted' = {}
  /\ job' = [j \in Job |-> [job[j] EXCEPT !.gone = TRUE]]

DeleteNamespace(r) == DeleteOrganisation(r) /\ Cascade /\ UNCHANGED <<mix, unborn>>

(* A statement of the request fails, or the server restarts. *)
CutJob(j) ==
  /\ ~Free(j)
  /\ Finish(j)
  /\ UNCHANGED <<orgVars, mix, unborn, project, format, langs, owed, tainted>>

Next ==
  \/ mix = "members" /\ OrganisationStep /\ UNCHANGED contentVars
  \/ BeginDelete /\ UNCHANGED contentVars
  \/ \E r \in Request : DeleteNamespace(r)
  \/ \E j \in Job :
       \/ \E n \in Name : BeginCreateProject(j, n)
       \/ \E p \in Project : BeginUpdateProject(j, p) \/ LoadFile(j, p)
       \/ InsertProject(j) \/ SaveProject(j)
       \/ \E wanted \in SUBSET Project, add \in (SUBSET Lang) \ {{}} :
            BeginLanguages(j, wanted, add)
       \/ SaveLanguages(j) \/ EndLanguages(j)
       \/ \E f \in Format : BeginCreateFormat(j, f) \/ BeginUpdateFormat(j, f)
       \/ InsertFormat(j) \/ SaveFormat(j)
       \/ CutJob(j)
  \/ \E p \in Project : DeleteProject(p)
  \/ \E f \in Format : RemoveFormat(f)

Spec == Init /\ [][Next]_vars

(***************************************************************************)
(* Properties.                                                             *)
(***************************************************************************)

TypeOK ==
  /\ OrganisationTypeOK
  /\ mix \in {"members", "projects", "formats", "languages"}
  /\ unborn \subseteq Project /\ project \in [Project -> ProjectRow \cup {NoRow}]
  /\ format \in [Format -> Leaf \cup {NoRow}]
  /\ langs \in [Project -> SUBSET Lang] /\ owed \in [Project -> SUBSET Lang]
  /\ tainted \subseteq Project \cup Format
  /\ \A j \in Job : job[j].kind \in
       {"none", "createProject", "updateProject", "languages", "createFormat", "updateFormat"}

(* "Deleting a namespace cascades to all dependent data" (requirements.md,   *)
(* NFR-24), whatever requests were between two statements at the time.       *)
NoOrphans ==
  org = "deleted" => /\ \A p \in Project : ~Alive(p)
                     /\ Formats = {}
                     /\ \A p \in Project : langs[p] = {}
                     /\ \A p \in Person : role[p] = "none"

(* "Projects belong to a namespace and are unique by name within it"         *)
(* (FR-20): creation checks the name one statement too early, and a rename   *)
(* does not check it.                                                        *)
NamesUnique ==
  \A p, q \in Project :
    Alive(p) /\ Alive(q) /\ project[p].name = project[q].name => p = q

(* The parts that hold in every state, as one invariant: types, cascades and *)
(* the unique name, whatever requests overlap.                               *)
NamespaceSound == TypeOK /\ NoOrphans /\ NamesUnique

(* A project's platform offers its model; a string leaf has no fields and an *)
(* object leaf two different ones; a file has every language that was        *)
(* reported as added to it. All three hold until two updates of a row        *)
(* overlap.                                                                  *)
ValidRow(l) ==
  IF l.leaf = "STRING" THEN l.value = "null" /\ l.hash = "null"
  ELSE l.value # "null" /\ l.value # l.hash

RowsValidUnlessOverlapped ==
  /\ \A p \in Project \ tainted :
       /\ Alive(p) => project[p].model \in Models[project[p].provider]
       /\ Alive(p) => owed[p] \subseteq langs[p]
  /\ \A f \in Formats \ tainted : ValidRow(format[f])
=============================================================================
