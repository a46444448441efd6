------------------------- MODULE MCTranslationPool -------------------------
(* TranslationPool on small instances. *)
EXTENDS TranslationPool

=============================================================================
