----------------------------- MODULE MCTaskFlow -----------------------------
(* TaskFlow with small bounds. *)
EXTENDS TaskFlow
=============================================================================
