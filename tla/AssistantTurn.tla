---------------------------- MODULE AssistantTurn ----------------------------
(***************************************************************************)
(* One turn of the assistant (converse in chat.service.js): the loop that   *)
(* asks a language model what to do next and runs the tools it calls, until *)
(* the model answers, stops or reaches the ceiling, and the row that records *)
(* what the turn cost.                                                      *)
(*                                                                         *)
(* The model is free to call anything in any order. A list of calls is       *)
(* represented by its length: which tool comes next is chosen when it is     *)
(* dispatched, since nothing looks at it before.                             *)
(***************************************************************************)
EXTENDS AssistantTools

CONSTANTS
  MaxRepeats,  \* AGENTS_CHAT_REPEAT
  Usage,       \* by mix, what a vendor may report a reply cost, 0 when it reports nothing
  MaxCalls     \* bound: tool calls in a turn

(* What a behaviour is about: the values of mix.                             *)
Mix == {"projects", "languages", "files", "exports"}

ASSUME TurnAssumption ==
  MaxRepeats \in Nat \ {0} /\ MaxCalls \in Nat \ {0} /\ \A m \in Mix : Usage[m] \subseteq Nat

VARIABLES
  turn,
  paid    \* history: tokens each namespace's credentials have paid for in this turn
(* Of a turn, phase: waiting for the model, running its calls, answered or   *)
(* given up; step: passes so far; left: calls of the reply not handled yet;  *)
(* calls: all calls so far; stopped: stop was called; spent: totalTokens;    *)
(* start: the namespace it was authorised against; row: what was handed to   *)
(* the log.                                                                  *)

vars == <<toolVars, turn, paid>>

(* Every project exists before a behaviour about platforms or languages; one *)
(* does before the others, and has a file. Each file is the only one of its  *)
(* project.                                                                  *)
Present == IF mix \in {"projects", "languages"} THEN Project ELSE {CHOOSE p \in Project : TRUE}
Owner == CHOOSE owner \in [Project -> File] : \A p, q \in Project : owner[p] = owner[q] => p = q
FirstName == CHOOSE n \in Name : TRUE
FirstLang == CHOOSE l \in Lang \ {Master} : TRUE
FirstPair == CHOOSE pair \in Pairs : TRUE

Init ==
  /\ mix \in Mix
  /\ role \in [Org -> Rank]
  /\ \E ns \in [Present -> Namespace], pair \in [Present -> Pairs] :
       /\ \A p \in Present : pair[p] = FirstPair \/ (mix = "projects" /\ pair[p][2] = DefaultModel[pair[p][1]])
       /\ project = [p \in Project |->
            IF p \in Present THEN [ns |-> ns[p], pair |-> pair[p], described |-> FALSE] ELSE None]
  /\ \E langs \in [Present -> (SUBSET (Lang \ {Master})) \ {{}}], keyed \in {Present, {CHOOSE p \in Project : TRUE}} :
       /\ mix # "languages" => \A p \in Present : langs[p] = {FirstLang} /\ p \in keyed
       /\ file = [f \in File |->
            IF mix # "projects" /\ \E p \in Present : Owner[p] = f
              THEN LET p == CHOOSE q \in Present : Owner[q] = f IN
                   [project |-> p, name |-> FirstName, langs |-> langs[p], keys |-> p \in keyed,
                    running |-> FALSE]
              ELSE None]
  /\ format = {}
  /\ unborn = {p \in Project : project[p] = None} \cup {f \in File : file[f] = None}
  /\ \E ns \in Namespace, attached \in {FirstName, None} :
       /\ RoleIn(ns) # "none" /\ (attached # None => mix = "files")
       /\ context = [ns |-> ns, role |-> RoleIn(ns), attachment |-> attached]
       /\ turn = [phase |-> "asking", step |-> 0, left |-> 0, calls |-> 0, stopped |-> FALSE, spent |-> 0,
                  start |-> ns, row |-> None]
  /\ paid = [n \in Namespace |-> 0]
  /\ downloads = <<>> /\ call = NoCall /\ held = {} /\ events = 0

(* The entry handed to the log names the namespace that was authorised.      *)
Recorded(spent) == [ns |-> turn.start, tokens |-> spent]

(* Whose credentials a turn in ns may use: those of the namespace, then the  *)
(* caller's own.                                                             *)
Chain(ns) == {ns, Home}

(* A credential of the chain loaded before the first pass pays for a reply.  *)
Pays(cost) == \E n \in Chain(turn.start) : paid' = [paid EXCEPT ![n] = @ + cost]

(* Mutant of Spend: only the last reply is counted.                          *)
Spend_LastReply(cost) == cost

(* totalTokens after one more reply.                                         *)
Spend(cost) == turn.spent + cost

(* Bound: only offers take three calls to collide.                           *)
Budget == IF mix = "exports" THEN MaxCalls ELSE MaxCalls - 1

(* One paid pass: the model replies with text, or with a list of tool calls. *)
Pass ==
  /\ turn.phase = "asking" /\ turn.step < MaxRepeats
  /\ \E cost \in Usage[mix] :
       /\ Pays(cost)
       /\ \/ turn' = [turn EXCEPT !.phase = "answered", !.step = @ + 1, !.spent = Spend(cost),
                                  !.row = Recorded(Spend(cost))]
             /\ UNCHANGED call
          \/ \E k \in 1 .. (Budget - turn.calls) :
               /\ turn' = [turn EXCEPT !.phase = "calling", !.step = @ + 1, !.spent = Spend(cost),
                                       !.left = k, !.calls = @ + k]
               /\ call' = [NoCall EXCEPT !.stage = "ready"]
  /\ UNCHANGED <<mix, role, content, context, downloads, held, events>>

(* No credential could answer, or one did and how they fared could not be    *)
(* recorded: the turn fails, and logs nothing.                               *)
GiveUp ==
  /\ turn.phase = "asking" /\ turn.step < MaxRepeats
  /\ turn' = [turn EXCEPT !.phase = "failed"]
  /\ UNCHANGED paid \/ \E cost \in Usage[mix] : Pays(cost)
  /\ UNCHANGED toolVars

(* Mutant of Over: a reply whose last call was refused does not count.       *)
Over_IfLastWorked(stopped) == stopped \/ (turn.step = MaxRepeats /\ call.ok)

(* The loop is left after a reply with a stop in it, or at the ceiling.      *)
Over(stopped) == stopped \/ turn.step = MaxRepeats

(* The result of a call goes back as data; the calls after a stop still run. *)
Handled ==
  /\ turn.phase = "calling" /\ call.stage = "done"
  /\ LET stopped == turn.stopped \/ (call.tool = "stop" /\ call.ok) IN
     IF turn.left > 1
       THEN /\ turn' = [turn EXCEPT !.left = @ - 1, !.stopped = stopped]
            /\ call' = [NoCall EXCEPT !.stage = "ready"]
     ELSE IF Over(stopped)
       THEN /\ turn' = [turn EXCEPT !.phase = "answered", !.left = 0, !.stopped = stopped,
                                    !.row = Recorded(turn.spent)]
            /\ call' = NoCall
       ELSE /\ turn' = [turn EXCEPT !.phase = "asking", !.left = 0]
            /\ call' = NoCall
  /\ UNCHANGED <<paid, mix, role, content, context, downloads, held, events>>

Step == Pass \/ GiveUp \/ Handled \/ (turn.phase = "calling" /\ ToolStep /\ UNCHANGED <<turn, paid>>)

Next == Step \/ (turn.phase \in {"asking", "calling"} /\ Around /\ UNCHANGED <<turn, paid>>)

Spec == Init /\ [][Next]_vars

(* The server runs its steps, and a call of a provider ends, as a walk of    *)
(* ProviderKeys does.                                                        *)
FairSpec == Spec /\ WF_vars(Step)

(***************************************************************************)
(* Properties.                                                             *)
(***************************************************************************)
TypeOK ==
  /\ mix \in Mix
  /\ role \in [Org -> Rank]
  /\ project \in [Project -> ProjectRow \cup {None}]
  /\ file \in [File -> FileRow \cup {None}]
  /\ format \subseteq Namespace \X Format
  /\ unborn \subseteq Project \cup File
  /\ context \in [ns : Namespace, role : Rank \ {"none"}, attachment : Name \cup {None}]
  /\ downloads \in Seq(Download)
  /\ call.stage \in {"idle", "ready", "running", "done"} /\ call.todo \subseteq Project
  /\ held \subseteq Namespace
  /\ paid \in [Namespace -> Nat]
  /\ turn \in [phase : {"asking", "calling", "answered", "failed"}, step : 0 .. MaxRepeats,
              left : 0 .. MaxCalls, calls : 0 .. MaxCalls, stopped : BOOLEAN, spent : Nat,
              start : Namespace, row : [ns : Namespace, tokens : Nat] \cup {None}]

(* A call changes a project, its files or their languages only where the     *)
(* person was ADMIN at some time since the call was dispatched: naming a     *)
(* project, or sweeping over many, gives no right to any of them.            *)
ChangedWithRights ==
  [][\A p \in Project :
       /\ call' # call /\ call.tool # "create_project" /\ project[p] # None
       /\ project'[p] # project[p] \/ \E f \in FilesOf(p) \cup FilesOf(p)' : file'[f] # file[f]
       => project[p].ns \in held]_vars

(* The same of what a call creates in a namespace: the person was ADMIN      *)
(* there at some time since the call was dispatched ("Every tool resolves    *)
(* access itself, on every call").                                           *)
CreatedWithRights ==
  [][/\ \A p \in Project : project[p] = None /\ project'[p] # None => project'[p].ns \in held'
     /\ \A x \in format' \ format : x[1] \in held']_vars

(* A call that answers with a refusal has changed nothing, unless it created *)
(* a project and could not fill it, or the database failed under it.         *)
RefusalChangesNothing ==
  call.stage = "done" /\ call.changed => call.ok \/ call.broke \/ call.tool = "create_project"

(* The same file in the same language and format is offered once, and never  *)
(* more than the ceiling of downloads.                                       *)
OffersDistinct ==
  /\ Len(downloads) <= MaxDownloads
  /\ \A i, j \in DOMAIN downloads :
       /\ downloads[i].file = downloads[j].file
       /\ downloads[i].lang = downloads[j].lang
       /\ downloads[i].format = downloads[j].format
       => i = j

(* The types, and the offers, in every state of every turn. *)
AssistantSound == TypeOK /\ OffersDistinct

(* What the credentials of the chain of ns have paid for.                    *)
PaidFor(ns) == paid[Home] + (IF ns = Home THEN 0 ELSE paid[ns])

(* An answered turn is billed for all it cost: over every pass, and wherever *)
(* the model switched the conversation meanwhile, only credentials of the    *)
(* chain of the namespace on the row paid, and the row says exactly what     *)
(* they paid ("the namespace the turn was authorised against and whose       *)
(* credentials paid").                                                       *)
BilledWhereAuthorised ==
  turn.phase = "answered" =>
    /\ \A n \in Namespace \ Chain(turn.row.ns) : paid[n] = 0
    /\ turn.row.tokens = PaidFor(turn.row.ns)

(* Whatever the model calls, the turn ends.                                  *)
TurnEnds == <>(turn.phase \in {"answered", "failed"})
=============================================================================
