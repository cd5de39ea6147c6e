-------------------------- MODULE MCChatCompletion --------------------------
(* Small instances of ChatCompletion. *)
EXTENDS ChatCompletion
=============================================================================
