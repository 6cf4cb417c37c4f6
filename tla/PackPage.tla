------------------------------ MODULE PackPage ------------------------------
(***************************************************************************)
(* The page of capability packs: ToolLibrary.tsx with its form             *)
(* (ToolParamEditor.tsx) and the direct run (directRun.ts).                *)
(*                                                                         *)
(* Loading, running and saving a pack each await the server, and one flag, *)
(* `loading', keeps a second one from starting.  It does not keep the      *)
(* designer from clicking another row, from typing, or from leaving the    *)
(* page: the handler goes on with what it captured, and writes its answer  *)
(* into whatever the page shows by then.                                   *)
(*                                                                         *)
(* The table of packs is as old as its last refresh, so any row may be     *)
(* there to click; the listing itself is left out.  A pack is its code and *)
(* its parameters; other fields travel with them.                          *)
(***************************************************************************)
EXTENDS Naturals, FiniteSets

CONSTANTS
  Packs,         \* names of packs
  Installed,     \* the stores to start from
  Names,         \* names of parameters
  Queries,       \* what choices are asked of Revit: levels, types, elements
  Texts,         \* what can be typed or picked
  Numerals,      \* the texts that are numbers
  Truthy,        \* the texts that say yes
  Contents,      \* the packs that may be saved under a name
  MaxLeft,       \* bound: handlers of left pages under way when another starts
  Deletable,     \* bound: the packs deleted from here, one at a time
  None

\* A parameter as types/api.ts declares it.  A source in Queries is "tool:<query>".
Param ==
  [type : {"text", "number", "bool"}, query : Queries \union {None}, required : BOOLEAN,
   source : {"designer", "answer", "default"} \union Queries,
   default : Texts \union {None}]

Pack == [code : STRING, params : [Names -> Param \union {None}]]

ASSUME PacksAreFinite == IsFiniteSet(Packs) /\ IsFiniteSet(Names)
ASSUME PacksAreWellFormed ==
  /\ Contents \subseteq Pack /\ Numerals \union Truthy \subseteq Texts
  /\ Installed \subseteq [Packs -> Contents \union {None}]
ASSUME PackBounds == Deletable \subseteq Packs /\ MaxLeft \in Nat
ASSUME NoneIsNoPack ==
  None \notin Packs \union Param \union Contents \union Texts \union Queries
ASSUME QueriesAreNotSources == Queries \cap {"designer", "answer", "default"} = {}
ASSUME NoKeyIsNoText == "unset" \notin Texts /\ "blank" \notin Texts

VARIABLES
  store,      \* the server's packs, None for no such pack
  selected, step, shown, edit, editing, choices, values, loading,
  result,     \* the pack whose outcome is shown: executed, rejected or failed
  jobs,       \* load, run and save under way
  deletes,    \* deletions under way
  of,         \* history: whose content is shown
  editOf,     \* history: whose content is in the edit form
  crossed,    \* history: a row was clicked while a handler was under way
  drifted     \* history: the lists were not asked for the parameters shown

formVars == <<choices, values>>
editVars == <<edit, editing, editOf>>
pageVars == <<selected, step, shown, editVars, formVars, result, loading, of, crossed, drifted>>
vars == <<store, pageVars, jobs, deletes>>

NoList == [query |-> None, items |-> {}]
NoLists == [n \in Names |-> NoList]
Empty == [n \in Names |-> "unset"]         \* values: no key for the parameter
Fields == Texts \union {"unset", "blank"}

-----------------------------------------------------------------------------
(* directRun.ts: from the form to a TaskSpec.                                *)

ParamsOf(pack) == IF pack = None THEN {} ELSE {n \in Names : pack.params[n] # None}

IsToolSourced(p) == p.query # None \/ p.source \in Queries

\* Text for a numeric parameter stays text unless it is a number; of a boolean
\* only whether it says yes is kept.
TypedValue(p, t) ==
  CASE p.type = "number" /\ t \in Numerals -> [as |-> "number", text |-> t]
    [] p.type = "bool" -> [as |-> "bool", text |-> IF t \in Truthy THEN "true" ELSE "false"]
    [] OTHER -> [as |-> "text", text |-> t]

Binding(p, t, list) ==
  LET query == IF p.query # None THEN p.query ELSE p.source
      by(source, evidence) ==
        [value |-> TypedValue(p, t), source |-> source, evidence |-> evidence]
  IN IF IsToolSourced(p)
       THEN IF t \in list.items THEN by("tool", query) ELSE by("answer", "page")
       ELSE IF p.source = "default" /\ p.default = t THEN by("default", "default")
                                                     ELSE by("designer", "page")

Bound(pack, vs) == {n \in ParamsOf(pack) : vs[n] \in Texts}

SpecFromForm(tool, pack, vs, lists) ==
  [tool |-> tool,
   params |-> [n \in Names |-> IF n \in Bound(pack, vs)
                               THEN Binding(pack.params[n], vs[n], lists[n])
                               ELSE None]]

Required(pack) == {n \in ParamsOf(pack) : pack.params[n].required}

\* What the field of a parameter shows: the value, else the default.
Shows(n) ==
  IF values[n] = "unset" /\ choices[n].items = {} /\ shown.params[n].default # None
    THEN shown.params[n].default ELSE values[n]

HasSpec == selected # None /\ step >= 3
Spec_ == SpecFromForm(selected, shown, values, choices)

-----------------------------------------------------------------------------
Job(kind, name, sent, spec, token) ==
  [kind |-> kind, name |-> name, sent |-> sent, spec |-> spec, token |-> token,
   live |-> TRUE, answered |-> FALSE, data |-> None]

\* Bound only: what pages that were left still do.
RoomForOne == Cardinality({j \in jobs : ~j.live}) < MaxLeft

Start(job) == loading' = TRUE /\ jobs' = jobs \union {job}

\* finally { setLoading(false) }
Finish(j) == loading' = FALSE /\ jobs' = jobs \ {j}

PageInit ==
  /\ store \in Installed
  /\ selected = None /\ step = 1 /\ shown = None /\ result = None
  /\ edit = None /\ editing = FALSE
  /\ choices = NoLists /\ values = Empty
  /\ loading = FALSE /\ jobs = {} /\ deletes = {}
  /\ of = None /\ editOf = None /\ crossed = FALSE /\ drifted = FALSE

\* Mutant: the new row keeps what was loaded for the old one.
ShowKeeping(name) ==
  /\ selected' = name /\ step' = 1 /\ editing' = FALSE /\ result' = None
  /\ crossed' = (jobs # {}) /\ drifted' = FALSE
  /\ UNCHANGED <<shown, of, formVars, edit, editOf, loading>>

\* select(): everything of the pack before goes; the edit form stays, unseen.
Show(name) ==
  /\ selected' = name /\ step' = 1 /\ shown' = None /\ of' = None
  /\ editing' = FALSE /\ result' = None
  /\ choices' = NoLists /\ values' = Empty
  /\ crossed' = (\E j \in jobs : j.live) /\ drifted' = FALSE
  /\ UNCHANGED <<edit, editOf, loading>>

Select(name) == Show(name) /\ UNCHANGED <<store, jobs, deletes>>

-----------------------------------------------------------------------------
(* Load pack.                                                                *)

\* Mutant: the button is not disabled while a handler is under way.
AskLoadTwice ==
  /\ selected # None /\ RoomForOne
  /\ step' = 2 /\ result' = None
  /\ Start(Job("get", selected, None, None, None))
  /\ UNCHANGED <<store, selected, shown, editVars, formVars, of, crossed, drifted, deletes>>

AskLoad ==
  /\ selected # None /\ ~loading /\ RoomForOne
  /\ step' = 2 /\ result' = None
  /\ Start(Job("get", selected, None, None, None))
  /\ UNCHANGED <<store, selected, shown, editVars, formVars, of, crossed, drifted, deletes>>

\* Mutant: only the lists give values to start from.
StartValuesOfLists(pack, lists, n) == IF lists[n].items # {} THEN lists[n].items ELSE {"unset"}

\* The first choice, or the default.
StartValues(pack, lists, n) ==
  CASE n \notin ParamsOf(pack) -> {"unset"}
    [] n \in ParamsOf(pack) /\ lists[n].items # {} -> lists[n].items
    [] OTHER -> IF pack.params[n].default # None THEN {pack.params[n].default} ELSE {"unset"}

FillFrom(pack, lists) ==
  /\ choices' = lists
  /\ values' \in {v \in [Names -> Fields] : \A n \in Names : v[n] \in StartValues(pack, lists, n)}
  /\ step' = 3

\* Mutant: a list that is not asked for again is kept.
FillMerging(pack, lists) ==
  FillFrom(pack, [n \in Names |-> IF lists[n].items = {} THEN choices[n] ELSE lists[n]])

\* The end of load(): choices, the values they start from, and step 3.
Fill(pack, lists) == FillFrom(pack, lists)

\* The pack is here; its lists are asked for if it names any.
GotPack(j) ==
  /\ j.kind = "get" /\ j.live /\ j.answered
  /\ shown' = j.data /\ of' = j.name /\ edit' = j.data /\ editOf' = j.name
  /\ crossed' = (selected # j.name) /\ drifted' = FALSE
  /\ IF \E n \in ParamsOf(j.data) : j.data.params[n].query # None
       THEN /\ jobs' = (jobs \ {j}) \union {Job("choices", j.name, j.data, None, None)}
            /\ UNCHANGED <<formVars, step, loading>>
       ELSE Fill(j.data, NoLists) /\ Finish(j)
  /\ UNCHANGED <<store, selected, editing, result, deletes>>

\* Without the lists the fields are filled by hand.
GotChoices(j) ==
  /\ j.kind = "choices" /\ j.live
  /\ \E failed \in BOOLEAN :
       /\ failed \/ j.answered
       /\ Fill(j.sent, IF failed THEN NoLists ELSE j.data)
       /\ drifted' = (drifted \/ (~failed /\
            \E n \in ParamsOf(j.sent) : j.data[n].items # {} /\ j.data[n].query # j.sent.params[n].query))
  /\ Finish(j)
  /\ UNCHANGED <<store, selected, shown, editVars, result, of, crossed, deletes>>

SetValue(n) ==
  /\ step >= 3 /\ n \in ParamsOf(shown)
  /\ \E t \in {"blank"} \union (IF choices[n].items # {} THEN choices[n].items ELSE Texts) :
       values' = [values EXCEPT ![n] = t]
  /\ UNCHANGED <<store, selected, step, shown, editVars, choices, result, loading, of, crossed,
                 drifted, jobs, deletes>>

-----------------------------------------------------------------------------
(* Confirm and run: confirmAndRun() with the spec of the click.              *)

\* The values are counted, not compared with the required names.
CanRun ==
  /\ HasSpec /\ ~loading
  /\ Cardinality(Bound(shown, values)) >= Cardinality(Required(shown))

\* Mutant: one step further at every click.
AskRunFurther ==
  /\ CanRun /\ RoomForOne
  /\ step' = step + 1
  /\ Start(Job("confirm", selected, None, Spec_, None))
  /\ UNCHANGED <<store, selected, shown, editVars, formVars, result, of, crossed, drifted, deletes>>

AskRun ==
  /\ CanRun /\ RoomForOne
  /\ step' = 4
  /\ Start(Job("confirm", selected, None, Spec_, None))
  /\ UNCHANGED <<store, selected, shown, editVars, formVars, result, of, crossed, drifted, deletes>>

\* Mutant: the run is made from the form as it is by then.
ConfirmedFresh(j) ==
  /\ j.kind = "confirm"
  /\ jobs' = (jobs \ {j}) \union
       {[Job("run", j.name, None, IF HasSpec THEN Spec_ ELSE j.spec, j.spec) EXCEPT !.live = j.live]}
  /\ UNCHANGED <<store, pageVars, deletes>>

\* The token binds the confirmed spec; the run follows even if the page was left.
Confirmed(j) ==
  /\ j.kind = "confirm"
  /\ jobs' = (jobs \ {j}) \union
       {[Job("run", j.name, None, j.spec, j.spec) EXCEPT !.live = j.live]}
  /\ UNCHANGED <<store, pageVars, deletes>>

\* A refusal by confirm, the result of the run, or the failure of either.
GotResult(j) ==
  /\ j.kind \in {"confirm", "run"} /\ j.live
  /\ result' = j.name
  /\ Finish(j)
  /\ UNCHANGED <<store, selected, step, shown, editVars, formVars, of, crossed, drifted, deletes>>

-----------------------------------------------------------------------------
(* Edit and save.  Cancel leaves the edit form as it is.                     *)

Edit ==
  /\ shown # None /\ ~loading /\ editing' = TRUE
  /\ UNCHANGED <<store, selected, step, shown, edit, editOf, formVars, result, loading, of, crossed,
                 drifted, jobs, deletes>>

CancelEdit ==
  /\ editing /\ ~loading /\ editing' = FALSE
  /\ UNCHANGED <<store, selected, step, shown, edit, editOf, formVars, result, loading, of, crossed,
                 drifted, jobs, deletes>>

EditForm(pack) ==
  /\ editing /\ shown # None /\ edit' = pack
  /\ UNCHANGED <<store, selected, step, shown, editing, editOf, formVars, result, loading, of, crossed,
                 drifted, jobs, deletes>>

CanSave == editing /\ shown # None /\ selected # None /\ ~loading

AskSave ==
  /\ CanSave /\ RoomForOne
  /\ Start(Job("save", selected, edit, None, None))
  /\ UNCHANGED <<store, selected, step, shown, editVars, formVars, result, of, crossed, drifted, deletes>>

\* The lists and the values stay those of the parameters before.
Saved(j) ==
  /\ j.kind = "save" /\ j.live /\ j.answered
  /\ shown' = j.data /\ of' = j.name /\ editing' = FALSE /\ drifted' = TRUE
  /\ Finish(j)
  /\ UNCHANGED <<store, selected, step, edit, editOf, formVars, result, crossed, deletes>>

\* catch of load and save: only a notice.  The server may have done its part.
Failed(j) ==
  /\ j.kind \in {"get", "save"} /\ j.live
  /\ Finish(j)
  /\ UNCHANGED <<store, selected, step, shown, editVars, formVars, result, of, crossed, drifted, deletes>>

-----------------------------------------------------------------------------
(* Delete: compared with the selection of the click, not of the answer.      *)

AskDelete(name) ==
  /\ deletes = {} /\ name \in Deletable
  /\ deletes' = {[name |-> name, selected |-> selected = name, live |-> TRUE]}
  /\ UNCHANGED <<store, pageVars, jobs>>

GotDeleted(d) ==
  /\ deletes' = deletes \ {d}
  /\ \/ /\ store' = [store EXCEPT ![d.name] = None]
        /\ IF d.live /\ d.selected THEN Show(None) ELSE UNCHANGED pageVars
     \/ UNCHANGED <<store, pageVars>>
  /\ UNCHANGED <<jobs>>

\* Another tab of the page: the state is dropped, the handlers are not.
Leave ==
  /\ selected' = None /\ step' = 1 /\ shown' = None /\ result' = None
  /\ edit' = None /\ editing' = FALSE /\ choices' = NoLists /\ values' = Empty
  /\ loading' = FALSE /\ of' = None /\ editOf' = None /\ crossed' = FALSE /\ drifted' = FALSE
  /\ jobs' = {[j EXCEPT !.live = FALSE] : j \in jobs}
  /\ deletes' = {[d EXCEPT !.live = FALSE] : d \in deletes}
  /\ UNCHANGED <<store>>

\* The answer of a handler whose page is gone.
Dropped(j) ==
  /\ ~j.live
  /\ jobs' = jobs \ {j}
  /\ UNCHANGED <<store, pageVars, deletes>>

-----------------------------------------------------------------------------
(* The server.                                                               *)

Answered(j, data) ==
  jobs' = (jobs \ {j}) \union {[j EXCEPT !.answered = TRUE, !.data = data]}

\* A parameter's list is that of its query, as Revit has it now.
Lists(pack) ==
  {l \in [Names -> [query : Queries \union {None}, items : SUBSET Texts]] :
     \A n \in Names :
       IF n \in ParamsOf(pack) /\ pack.params[n].query # None
         THEN l[n].query = pack.params[n].query ELSE l[n] = NoList}

\* confirm and run change nothing that is kept here: their answers are in the
\* actions that read them.
Serve(j) ==
  /\ ~j.answered /\ store[j.name] # None
  /\ \/ j.kind = "get" /\ Answered(j, store[j.name]) /\ UNCHANGED store
     \/ j.kind = "choices" /\ (\E l \in Lists(store[j.name]) : Answered(j, l)) /\ UNCHANGED store
     \/ /\ j.kind = "save" /\ Answered(j, j.sent)
        /\ store' = [store EXCEPT ![j.name] = j.sent]
  /\ UNCHANGED <<pageVars, deletes>>

-----------------------------------------------------------------------------
Read(j) ==
  GotPack(j) \/ GotChoices(j) \/ Confirmed(j) \/ GotResult(j) \/ Saved(j) \/ Failed(j) \/ Dropped(j)

PageNext ==
  \/ \E name \in Packs : Select(name) \/ AskDelete(name)
  \/ AskLoad \/ AskRun \/ Edit \/ CancelEdit \/ AskSave
  \/ \E n \in Names : SetValue(n)
  \/ \E pack \in Contents : EditForm(pack)

\* What goes on whether the page is there or not.
Handlers ==
  \/ \E j \in jobs : Serve(j) \/ Read(j)
  \/ \E d \in deletes : GotDeleted(d)

-----------------------------------------------------------------------------
(* Properties.                                                               *)

Bindings == [value : [as : {"text", "number", "bool"}, text : Texts \union {"true", "false"}],
             source : {"tool", "answer", "default", "designer"},
             evidence : Queries \union {"page", "default"}]
Specs == [tool : Packs, params : [Names -> Bindings \union {None}]]
ListsOfRevit == [Names -> [query : Queries \union {None}, items : SUBSET Texts]]
Kinds == {"get", "choices", "confirm", "run", "save"}

TypeOK ==
  /\ store \in [Packs -> Contents \union {None}]
  /\ selected \in Packs \union {None} /\ step \in 1..4
  /\ shown \in Contents \union {None} /\ edit \in Contents \union {None} /\ editing \in BOOLEAN
  /\ choices \in ListsOfRevit /\ values \in [Names -> Fields]
  /\ result \in Packs \union {None}
  /\ loading \in BOOLEAN /\ crossed \in BOOLEAN /\ drifted \in BOOLEAN
  /\ of \in Packs \union {None} /\ editOf \in Packs \union {None}
  /\ \A j \in jobs :
       /\ j.kind \in Kinds /\ j.name \in Packs /\ j.live \in BOOLEAN
       /\ j.sent \in Contents \union {None} /\ {j.spec, j.token} \subseteq Specs \union {None}
       /\ j.answered \in BOOLEAN
       /\ j.data \in Contents \union {None} \/ j.data \in ListsOfRevit
  /\ \A d \in deletes : d.name \in Packs /\ d.selected \in BOOLEAN /\ d.live \in BOOLEAN

\* One handler of a page is under way at a time, and `loading' says whether
\* there is one: every early end of load, run and save puts it out.
OneAtATime ==
  /\ loading = (\E j \in jobs : j.live)
  /\ \A j, k \in jobs : j.live /\ k.live => j = k

\* Unless a row was clicked while a handler was under way, what is loaded, what
\* the edit form would save and the result are those of the pack selected.
OnlyItsOwn ==
  ~crossed =>
    /\ shown # None => of = selected /\ editOf = selected
    /\ step >= 3 => shown # None
    /\ result # None => result = selected
    /\ \A j \in jobs : j.live => j.name = selected

\* A run is made with the spec its token was issued for, whatever was typed,
\* selected or left while the confirmation was on its way (directRun.ts).
RunsAsConfirmed == \A j \in jobs : j.kind = "run" => j.spec = j.token

\* Evidence "tool:<query>" is only given for a value on the list that query
\* gave, until a save changes the parameters the lists were asked for.
EvidenceIsOfItsList ==
  HasSpec /\ ~drifted =>
    \A n \in Bound(shown, values) :
      Spec_.params[n].source = "tool" =>
        choices[n].query = Spec_.params[n].evidence /\ values[n] \in choices[n].items

\* A value the form shows is one the spec card lists, defaults included.
ShownIsSent ==
  step >= 3 /\ ~drifted =>
    \A n \in ParamsOf(shown) : Shows(n) \in Texts => n \in Bound(shown, values)
=============================================================================
