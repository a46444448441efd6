--------------------------- MODULE MCProviderSignIn ---------------------------
(* SignIn and ProviderSignIn on small instances. *)
EXTENDS ProviderSignIn, TLC

OneProvider == [i \in Identity |-> CHOOSE v \in Provider : TRUE]

Interchangeable ==
  Permutations(Job) \cup Permutations(Session) \cup Permutations(Token)
=============================================================================
