----------------------------- MODULE MCChatLog -----------------------------
(* ChatLog on small instances. *)
EXTENDS ChatLog
=============================================================================
