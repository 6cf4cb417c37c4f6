------------------------------ MODULE MCPacks ------------------------------
(* Packs with two contents that share a parameter: one is what a spec is    *)
(* solidified to and asks Revit for a list, the other names another query   *)
(* and no list.                                                             *)
EXTENDS Packs, TLC
CONSTANTS q1, q2, t1, pa, pb

B == [code |-> "b", params |->
  [x |-> [type |-> "text", query |-> None, required |-> TRUE, source |-> q2, default |-> None], y |-> None]]

MCSpec == [code |-> "a", params |->
  [x |-> [value |-> [as |-> "text", text |-> t1], source |-> "tool", evidence |-> q1],
   y |-> [value |-> [as |-> "number", text |-> t1], source |-> "default", evidence |-> "default"]]]

\* A second spec with the same draft, so that the panel can be shown for another.
Other == [MCSpec EXCEPT !.params["y"].evidence = "page"]
MCSpecs == {MCSpec, Other}
MCContents == {DraftPack(s) : s \in MCSpecs} \union {B}
MCInstalled == {(pa :> DraftPack(MCSpec)) @@ (pb :> B)}
=============================================================================
