------------------------------ MODULE MCSkills ------------------------------
(* Skills with one name for every skill that is created.                   *)
EXTENDS Skills
MCSlug == [t \in Titles |-> "s"]
MCNth == [i \in Ids |-> [n \in Suffixes |-> CASE n = 2 -> "s-2" [] n = 3 -> "s-3" [] n = 4 -> "s-4"]]
=============================================================================
