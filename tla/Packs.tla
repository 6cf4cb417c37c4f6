------------------------------- MODULE Packs -------------------------------
(***************************************************************************)
(* The page of packs and the panel that makes them (SolidifyPanel.tsx and  *)
(* solidifyDraft.ts), as App.tsx shows them: on two tabs, one at a time.   *)
(* Leaving a tab unmounts what is on it; what it asked for goes on.        *)
(*                                                                         *)
(* The panel belongs to the task page.  It is there while a confirmed code *)
(* spec that ran well is shown; the next confirmation takes the execution  *)
(* away first, so it never passes from one spec to another (TaskPage.tsx). *)
(***************************************************************************)
EXTENDS PackPage

CONSTANTS
  CodeSpecs,     \* confirmed execute_code specs that ran well
  Usable,        \* the queries the pack schema knows
  MaxSubmits     \* bound: packs submitted

VARIABLES
  tab,
  panel,      \* the spec the panel is mounted for, None when it is not there
  form,       \* name and pack as edited
  busy,
  saved,      \* the spec whose pack the notice says was saved
  submits,    \* requests under way
  made        \* how many packs were submitted

panelVars == <<panel, form, busy, saved, submits>>
allVars == <<vars, tab, panelVars, made>>

CodeSpec ==
  [code : STRING,
   params : [Names -> [value : [as : {"text", "number", "bool"}, text : Texts],
                       source : {"tool", "answer", "default", "designer", "preference"},
                       evidence : Queries \union {"page", "default"}] \union {None}]]

\* Mutant: the choices are kept as the source only.
DraftParameterNoChoices(b) ==
  [type |-> b.value.as, query |-> None, required |-> TRUE, source |-> "designer", default |-> None]

\* draftParameter(): a source the schema accepts, with choices if they can be asked again.
DraftParameter(b) ==
  LET draft(source, query) ==
        [type |-> b.value.as, query |-> query, required |-> source # "default", source |-> source,
         default |-> IF source = "default" THEN b.value.text ELSE None]
  IN CASE b.source = "tool" /\ b.evidence \in Usable -> draft(b.evidence, b.evidence)
       [] b.source = "tool" /\ b.evidence \notin Usable -> draft("answer", None)
       [] b.source \in {"answer", "default"} -> draft(b.source, None)
       [] OTHER -> draft("designer", None)

DraftPack(s) ==
  [code |-> s.code,
   params |-> [n \in Names |-> IF s.params[n] = None THEN None ELSE DraftParameter(s.params[n])]]

ASSUME CodeSpecsAreDrafted ==
  /\ CodeSpecs \subseteq CodeSpec /\ Usable \subseteq Queries /\ MaxSubmits \in Nat
  /\ \A s \in CodeSpecs : DraftPack(s) \in Contents
  /\ None \notin CodeSpecs

\* The text of a value is what String() makes of it.
ASSUME SpecValuesAreTyped ==
  \A s \in CodeSpecs : \A n \in Names : s.params[n] # None =>
    LET v == s.params[n].value
    IN /\ v.as = "number" => v.text \in Numerals
       /\ v.as = "bool" => v.text = IF v.text \in Truthy THEN "true" ELSE "false"

-----------------------------------------------------------------------------
Init ==
  /\ PageInit
  /\ tab \in {"task", "packs"}
  /\ panel = None /\ form = None /\ busy = FALSE /\ saved = None
  /\ submits = {} /\ made = 0

Gone == {[m EXCEPT !.live = FALSE, !.spec = None] : m \in submits}

\* The panel mounts with the draft of its spec.
Show_(s) ==
  /\ panel' = s /\ busy' = FALSE /\ saved' = None
  /\ \E name \in Packs : form' = [name |-> name, pack |-> DraftPack(s)]

\* Mutant: the panel is kept from one spec to the next.
ShowPanelKept(s) ==
  /\ tab = "task" /\ Show_(s)
  /\ UNCHANGED <<vars, tab, submits, made>>

ShowPanel(s) ==
  /\ tab = "task" /\ panel = None /\ Show_(s)
  /\ UNCHANGED <<vars, tab, submits, made>>

Unmount ==
  /\ panel' = None /\ form' = None /\ busy' = FALSE /\ saved' = None
  /\ submits' = Gone

HidePanel ==
  /\ panel # None /\ Unmount
  /\ UNCHANGED <<vars, tab, made>>

EditDraft ==
  /\ panel # None
  /\ \E name \in Packs, pack \in {c \in Contents : c.code = panel.code} :
       form' = [name |-> name, pack |-> pack]
  /\ UNCHANGED <<vars, tab, panel, busy, saved, submits, made>>

\* submit(): the code is that of the spec, whatever the form says.  Text that
\* does not parse ends it before the request.
Submit ==
  /\ panel # None /\ ~busy /\ made < MaxSubmits
  /\ busy' = TRUE /\ saved' = None /\ made' = made + 1
  /\ submits' = submits \union
       {[name |-> form.name, pack |-> [form.pack EXCEPT !.code = panel.code], spec |-> panel,
         live |-> TRUE, solidified |-> FALSE]}
  /\ UNCHANGED <<vars, tab, panel, form>>

\* POST /solidify.
Solidify(m) ==
  /\ ~m.solidified
  /\ store' = [store EXCEPT ![m.name] = m.pack]
  /\ submits' = (submits \ {m}) \union {[m EXCEPT !.solidified = TRUE]}
  /\ UNCHANGED <<pageVars, jobs, deletes, tab, panel, form, busy, saved, made>>

\* The answer, or the problems, or a lost answer; nothing is shown without the panel.
GotSolidified(m) ==
  /\ submits' = submits \ {m}
  /\ IF m.live THEN /\ busy' = FALSE
                    /\ saved' \in {None} \union (IF m.solidified THEN {m.spec} ELSE {})
               ELSE UNCHANGED <<busy, saved>>
  /\ UNCHANGED <<vars, tab, panel, form, made>>

\* App.tsx: only the active tab is mounted.
GoTo(t) ==
  /\ tab # t /\ tab' = t
  /\ IF t = "packs" THEN Unmount /\ UNCHANGED vars
                    ELSE Leave /\ UNCHANGED panelVars
  /\ UNCHANGED made

Next ==
  \/ tab = "packs" /\ PageNext /\ UNCHANGED <<tab, panelVars, made>>
  \/ Handlers /\ UNCHANGED <<tab, panelVars, made>>
  \/ \E s \in CodeSpecs : ShowPanel(s)
  \/ HidePanel \/ EditDraft \/ Submit
  \/ \E m \in submits : Solidify(m) \/ GotSolidified(m)
  \/ \E t \in {"task", "packs"} : GoTo(t)

Spec == Init /\ [][Next]_allVars

-----------------------------------------------------------------------------
(* Properties of the two together.                                           *)

\* The notice "Saved" and the disabled button are about the spec on the panel,
\* although the answer may come when another one is shown.
NoticeIsOfThisSpec ==
  /\ saved # None => saved = panel
  /\ busy = (\E m \in submits : m.live)

\* What a pack made from a spec asks for and records when it is run again from
\* the page: the same values, a list from the same query where there was one,
\* the same defaults.  (An answer becomes the designer's own value.)
AsksTheSame ==
  panel # None =>
    LET pack == DraftPack(panel)
        known == {n \in Names : panel.params[n] # None}
        again == SpecFromForm(None, pack,
                   [n \in Names |-> IF n \in known THEN panel.params[n].value.text ELSE "unset"],
                   [n \in Names |-> IF n \in known /\ pack.params[n].query # None
                      THEN [query |-> pack.params[n].query, items |-> {panel.params[n].value.text}]
                      ELSE NoList])
    IN \A n \in known :
         LET b == panel.params[n]
             c == again.params[n]
         IN /\ c.value = b.value
            /\ b.source = "tool" /\ b.evidence \in Usable => c.source = "tool" /\ c.evidence = b.evidence
            /\ b.source = "default" => c.source = "default"
            /\ c.source = "tool" => b.source = "tool"
=============================================================================
