--------------------------- MODULE ProviderSignIn ---------------------------
(***************************************************************************)
(* Signing in with, and linking, an account of an outside provider         *)
(* (oauth.service.js), composed with SignIn, whose gate a provider sign in *)
(* passes like any other. Each identity belongs to one provider; a flow is *)
(* started for a provider, and what the provider answers is its own.       *)
(***************************************************************************)
EXTENDS SignIn

CONSTANTS
  Self, Other,  \* the account of SignIn, and one more that may start a flow
  Provider,
  Identity,     \* accounts at the providers
  Home,         \* Home[i]: the provider of identity i
  State         \* identifiers of flows, used once each

VARIABLES
  state,   \* state[x]: the row of flow x, or None
  identity \* identity[i]: the row that links i, or None

vars == <<signInVars, state, identity>>

Person == {Self, Other}
Thing == Token \cup Challenge \cup State

FlowRow ==
  [provider : Provider, account : Person \cup {None}, open : BOOLEAN, mode : {"LOGIN", "LINK"}]
LinkRow == [account : Person, starter : Person]

(* Identifiers are of one table. *)
ASSUME IdentifierAssumption ==
  /\ None \notin Person \cup FlowRow \cup LinkRow
  /\ Token \cap Challenge = {} /\ Token \cap State = {} /\ Challenge \cap State = {}

Init ==
  /\ mix \in {"guess", "change", "provider"}
  /\ InitSignIn(Thing)
  /\ mix # "change" \/ ~factor
  /\ state = [x \in State |-> None]
  /\ identity = [i \in Identity |-> None]

(* startFlow: a link belongs to the account that asked for it. *)
StartFlow(x, v, who) ==
  /\ mix = "provider" /\ state[x] = None
  /\ state' = [state EXCEPT ![x] = [provider |-> v, account |-> who, open |-> TRUE,
                                    mode |-> IF who = None THEN "LOGIN" ELSE "LINK"]]
  /\ UNCHANGED <<signInVars, identity>>

(* Mutant of Belongs: whoever finishes a link gets it.                       *)
Belongs_ToAnyone(row, who) == TRUE

(* The assertion of consumeState. *)
Belongs(row, who) == row.account = who

(* consumeState: one conditional update on the hash and the mode, and the    *)
(* row read back. The state is spent before the code is exchanged, and also  *)
(* when it turns out to belong to somebody else. who is None for a sign in.  *)
Callback(j, x, who) ==
  /\ mix = "provider"
  /\ state[x] # None /\ state[x].open /\ (state[x].mode = "LINK") = (who # None)
  /\ job[j].at = "idle"
  /\ state' = Closed(state, {x})
  /\ uses' = [uses EXCEPT ![x] = @ + 1]
  /\ IF Belongs(state[x], who)
       THEN Begin(j, [NoJob EXCEPT !.at = "exchange", !.kind = state[x].mode, !.on = x, !.by = who])
       ELSE job' = job
  /\ UNCHANGED <<mix, account, factor, session, token, challenge, history, identity>>

(* The unique indexes of account_identities. *)
Accepts(i, who) ==
  /\ identity[i] = None
  /\ \A h \in Identity : identity[h] # None /\ Home[h] = Home[i] => identity[h].account # who

(* completeLink: the exchange answers with an identity of the provider, and  *)
(* the insert is caught when an index refuses it. starter is who asked.      *)
Link(j, i) ==
  /\ job[j].at = "exchange" /\ job[j].kind = "LINK"
  /\ LET flow == state[job[j].on] IN
       /\ Home[i] = flow.provider
       /\ identity' = IF Accepts(i, job[j].by)
                        THEN [identity EXCEPT ![i] = [account |-> job[j].by, starter |-> flow.account]]
                        ELSE identity
  /\ End(j)
  /\ UNCHANGED <<mix, account, factor, session, token, challenge, uses, history, state>>

(* completeLogin: the exchange, and the account of the identity. Bound: the  *)
(* sign ins of the other account are not followed.                           *)
FindIdentity(j, i) ==
  /\ job[j].at = "exchange" /\ job[j].kind = "LOGIN"
  /\ Home[i] = state[job[j].on].provider
  /\ IF identity[i] # None /\ identity[i].account = Self
       THEN job' = [job EXCEPT ![j].at = "found", ![j].on = i]
       ELSE End(j)
  /\ UNCHANGED <<mix, account, factor, session, token, challenge, uses, history, state, identity>>

(* The account is read after the identity; what is noted on the identity is  *)
(* not read here. Then completeSignIn, which refuses a locked account.       *)
LoadLinked(j) ==
  /\ job[j].at = "found"
  /\ IF account.lock = "on" THEN End(j)
     ELSE job' = [job EXCEPT ![j].at = "gate", ![j].copy = account]
  /\ UNCHANGED <<mix, account, factor, session, token, challenge, uses, history, state, identity>>

Unlink(i) ==
  /\ identity[i] # None
  /\ identity' = [identity EXCEPT ![i] = None]
  /\ UNCHANGED <<signInVars, state>>

ExpireState(x) ==
  /\ state[x] # None /\ state[x].open
  /\ state' = Closed(state, {x})
  /\ UNCHANGED <<signInVars, identity>>

Next ==
  \/ SignInStep /\ UNCHANGED <<state, identity>>
  \/ \E x \in State :
       \/ \E v \in Provider, who \in Person \cup {None} : StartFlow(x, v, who)
       \/ \E j \in Job, who \in Person \cup {None} : Callback(j, x, who)
       \/ ExpireState(x)
  \/ \E j \in Job : LoadLinked(j) \/ (\E i \in Identity : Link(j, i) \/ FindIdentity(j, i))
  \/ \E i \in Identity : Unlink(i)

Spec == Init /\ [][Next]_vars

(***************************************************************************)
(* Properties.                                                             *)
(***************************************************************************)

TypeOK ==
  /\ mix \in {"guess", "change", "provider"}
  /\ SignInTypeOK
  /\ state \in [State -> FlowRow \cup {None}]
  /\ identity \in [Identity -> LinkRow \cup {None}]

(* The types, and the counter of refused credentials of SignIn, for which a  *)
(* sign-in through a provider is none.                                       *)
SignInSound == TypeOK /\ CounterExact

(* "The account that started the flow must be the account finishing it"      *)
(* (oauth.service.js), and "one linked account per provider"                 *)
(* (accountIdentity.js), whatever flows of both accounts overlap.            *)
LinkedByItsStarter ==
  /\ \A i \in Rows(identity) : identity[i].account = identity[i].starter
  /\ \A i, h \in Rows(identity) :
       Home[i] = Home[h] /\ identity[i].account = identity[h].account => i = h

(* A token, a challenge and a state that is to be used once is: each is      *)
(* spent by one conditional update, and only the request whose update        *)
(* counted goes on.                                                          *)
Once == INSTANCE OneTimeUse WITH
  open <- {x \in Thing : \/ x \in Token /\ Open(token[x])
                         \/ x \in Challenge /\ Open(challenge[x])
                         \/ x \in State /\ Open(state[x])}

ImplementsOneTimeUse == Once!Spec
=============================================================================
