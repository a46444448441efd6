-------------------------- MODULE MCNamespaceContent --------------------------
(* NamespaceContent on small instances. *)
EXTENDS NamespaceContent, TLC

CONSTANTS x, y, x1, x2, y1

MCModels == (x :> {x1, x2}) @@ (y :> {y1})
MCDefaultModel == (x :> x1) @@ (y :> y1)

Interchangeable ==
  Permutations(Person) \cup Permutations(Request) \cup Permutations(Job) \cup Permutations(Project)
=============================================================================
