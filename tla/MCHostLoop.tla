------------------------------ MODULE MCHostLoop ------------------------------
(* HostLoop with a short history and a few turns. *)
EXTENDS HostLoop, TLC

\* Turns are interchangeable.
Symmetry == Permutations(Turns)
=============================================================================
