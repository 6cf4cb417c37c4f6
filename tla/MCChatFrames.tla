----------------------------- MODULE MCChatFrames ----------------------------
(* ChatFrames with two texts, one of them empty. *)
EXTENDS ChatFrames
=============================================================================
