----------------------------- MODULE OneTimeUse -----------------------------
(***************************************************************************)
(* What the server promises of everything it hands out for one use: action *)
(* tokens, second factor challenges and the states of a provider sign in.  *)
(* "Two requests racing with the same token produce exactly one winner"    *)
(* (token.service.js).                                                     *)
(***************************************************************************)
EXTENDS Naturals

CONSTANT Thing

VARIABLES
  open, \* the things issued, and neither used nor withdrawn
  uses  \* uses[x]: how many requests were told that they used x

vars == <<open, uses>>

Init == open = {} /\ uses = [x \in Thing |-> 0]

Issue(x) == x \notin open /\ uses[x] = 0 /\ open' = open \cup {x} /\ uses' = uses

(* One winner, after whom x is open to nobody. *)
Use(x) == x \in open /\ open' = open \ {x} /\ uses' = [uses EXCEPT ![x] = @ + 1]

(* Expiry and revocation withdraw any number at once. *)
Withdraw(gone) == gone # {} /\ gone \subseteq open /\ open' = open \ gone /\ uses' = uses

Next == (\E x \in Thing : Issue(x) \/ Use(x)) \/ (\E gone \in SUBSET open : Withdraw(gone))

Spec == Init /\ [][Next]_vars
=============================================================================
