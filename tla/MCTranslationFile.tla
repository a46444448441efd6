------------------------- MODULE MCTranslationFile -------------------------
(* TranslationFile on small instances. *)
EXTENDS TranslationFile, TLC

Both == {"sqlite", "postgres"}

(* Two merges after the upload need three runs; what READ COMMITTED, a        *)
(* restart and attempts that are not recorded add shows with two.            *)
RunBound == [d \in Both |-> IF d = "sqlite" THEN 3 ELSE 2]
UnrecordedBound == [d \in Both |-> IF d = "sqlite" THEN 0 ELSE 2]
RestartBound == [d \in Both |-> IF d = "sqlite" THEN 0 ELSE 1]

Interchangeable == Permutations(Name) \cup Permutations(Lang) \cup Permutations(Text)
=============================================================================
