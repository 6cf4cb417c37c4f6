---------------------------- MODULE PacksProofs ----------------------------
(***************************************************************************)
(* The invariants of Packs, for every set of packs, parameters and texts.  *)
(***************************************************************************)
EXTENDS Packs, TLAPS

-----------------------------------------------------------------------------
(* The inductive invariant.                                                  *)

\* Lists that were asked for: only a query has items.
AskedLists == {l \in ListsOfRevit : \A n \in Names : l[n].items # {} => l[n].query # None}

Data == Contents \union ListsOfRevit \union {None}

\* What the handlers carry, by their kind.
Handling ==
  {j \in [kind : Kinds, name : Packs, sent : Contents \union {None}, spec : Specs \union {None},
          token : Specs \union {None}, live : BOOLEAN, answered : BOOLEAN, data : Data] :
     /\ j.kind \in {"choices", "save"} => j.sent \in Contents
     /\ j.kind \in {"get", "save"} /\ j.answered => j.data \in Contents
     /\ j.kind = "choices" /\ j.answered => j.data \in AskedLists
     /\ j.kind = "confirm" => j.spec \in Specs
     /\ j.kind = "run" => j.spec = j.token}

JobsOK == jobs \subseteq Handling

DeletesOK ==
  \A d \in deletes : d \in [name : Packs, selected : BOOLEAN, live : BOOLEAN]

FlagsOK ==
  editing \in BOOLEAN /\ loading \in BOOLEAN /\ crossed \in BOOLEAN /\ drifted \in BOOLEAN

PageOK ==
  /\ selected \in Packs \union {None} /\ step \in 1..4
  /\ shown \in Contents \union {None} /\ edit \in Contents \union {None}
  /\ choices \in ListsOfRevit /\ values \in [Names -> Fields]
  /\ result \in Packs \union {None}
  /\ of \in Packs \union {None} /\ editOf \in Packs \union {None}

StoreOK == store \in [Packs -> Contents \union {None}]

\* The panel, what it was filled with, and the requests made from it: at most one
\* of them is the panel's own, and it carries the panel's spec.
PanelInv ==
  /\ panel \in CodeSpecs \union {None}
  /\ panel # None => form \in [name : Packs, pack : Contents] /\ form.pack.code = panel.code
  /\ \A m \in submits :
       /\ m \in [name : Packs, pack : Contents, spec : CodeSpecs \union {None},
                 live : BOOLEAN, solidified : BOOLEAN]
       /\ m.live => m.spec = panel /\ panel # None
  /\ \A m, l \in submits : m.live /\ l.live => m = l
  /\ NoticeIsOfThisSpec

\* Where the page stands while a handler of its own is under way.
LiveInv ==
  /\ shown # None => edit # None
  /\ \A j \in jobs : j.live =>
       /\ j.kind \in {"get", "choices"} => result = None /\ step < 3
       /\ j.kind = "choices" => shown \in {j.sent, None}
       /\ j.kind = "save" => edit # None
       /\ j.kind \in {"choices", "save"} /\ ~crossed => shown # None

\* Until a save changes the parameters, a list is that of its parameter's query, and
\* a parameter without a list has a value if it has a default.
ListsInv ==
  step >= 3 /\ ~drifted =>
    \A n \in ParamsOf(shown) :
      /\ choices[n].items # {} =>
           shown.params[n].query # None /\ choices[n].query = shown.params[n].query
      /\ choices[n].items = {} /\ values[n] = "unset" => shown.params[n].default = None

PacksInv ==
  /\ StoreOK /\ FlagsOK /\ PageOK /\ JobsOK /\ DeletesOK
  /\ OneAtATime /\ LiveInv /\ OnlyItsOwn /\ ListsInv /\ PanelInv

-----------------------------------------------------------------------------
(* What a step may be, and what the handlers under way become in it.         *)

\* Seen from the page, a step is one of its own, one of a handler, a change of tab,
\* or none of its business.
LEMMA PageSteps ==
  [Next]_allVars => PageNext \/ Handlers \/ Leave \/ UNCHANGED <<pageVars, jobs, deletes>>
  BY DEF Next, allVars, vars, ShowPanel, HidePanel, EditDraft, Submit, Solidify, GotSolidified, GoTo

\* Its fields are those of Job.
LEMMA JobFields ==
  ASSUME NEW kind, NEW name, NEW sent, NEW spec, NEW token
  PROVE  /\ Job(kind, name, sent, spec, token).kind = kind
         /\ Job(kind, name, sent, spec, token).name = name
         /\ Job(kind, name, sent, spec, token).sent = sent
         /\ Job(kind, name, sent, spec, token).spec = spec
         /\ Job(kind, name, sent, spec, token).token = token
         /\ Job(kind, name, sent, spec, token).live = TRUE
         /\ Job(kind, name, sent, spec, token).answered = FALSE
         /\ Job(kind, name, sent, spec, token).data = None
  BY DEF Job

\* The spec of the form is well typed, whatever was typed into the form.
LEMMA SpecIsTyped == ASSUME PageOK, HasSpec PROVE Spec_ \in Specs
  <1>1. selected \in Packs
    BY NoneIsNoPack DEF PageOK, HasSpec
  <1>2. ASSUME NEW n \in Bound(shown, values)
        PROVE  Binding(shown.params[n], values[n], choices[n]) \in Bindings
    <2> DEFINE p == shown.params[n]
    <2>1. shown \in Contents /\ n \in Names /\ p # None /\ values[n] \in Texts
      BY <1>2 DEF Bound, ParamsOf, PageOK
    <2>2. p \in Param
      BY <2>1, PacksAreWellFormed DEF Pack
    <2>3. TypedValue(p, values[n]) \in [as : {"text", "number", "bool"}, text : Texts \union {"true", "false"}]
      BY <2>1 DEF TypedValue
    <2>4. IsToolSourced(p) => (IF p.query # None THEN p.query ELSE p.source) \in Queries
      BY <2>2 DEF IsToolSourced, Param
    <2> QED
      BY <2>3, <2>4 DEF Binding, Bindings
  <1>3. [n \in Names |-> IF n \in Bound(shown, values)
                           THEN Binding(shown.params[n], values[n], choices[n])
                           ELSE None] \in [Names -> Bindings \union {None}]
    BY <1>2
  <1> QED
    BY <1>1, <1>3 DEF Spec_, SpecFromForm, Specs

-----------------------------------------------------------------------------
LEMMA InitInv == Init => PacksInv
  <1> SUFFICES ASSUME Init
               PROVE  PacksInv
    OBVIOUS
  <1> USE DEF Init, PageInit
  <1>1. StoreOK
    BY PacksAreWellFormed DEF StoreOK
  <1>2. choices \in ListsOfRevit /\ values \in [Names -> Fields]
    BY DEF ListsOfRevit, NoLists, NoList, Empty, Fields
  <1>3. PageOK
    BY <1>2 DEF PageOK
  <1>7. FlagsOK
    BY DEF FlagsOK
  <1>4. JobsOK /\ DeletesOK /\ LiveInv /\ OnlyItsOwn /\ ListsInv
    BY DEF JobsOK, DeletesOK, LiveInv, OnlyItsOwn, ListsInv
  <1>5. OneAtATime
    BY DEF OneAtATime
  <1>6. PanelInv
    BY DEF PanelInv, NoticeIsOfThisSpec
  <1> QED
    BY <1>1, <1>3, <1>4, <1>5, <1>6, <1>7 DEF PacksInv

-----------------------------------------------------------------------------
(* Types.                                                                    *)

\* The flags of the page.
LEMMA FlagsStep == PacksInv /\ [Next]_allVars => FlagsOK'
  <1> SUFFICES ASSUME PacksInv, [Next]_allVars
               PROVE  FlagsOK'
    OBVIOUS
  <1> USE DEF PacksInv, FlagsOK, editVars, pageVars, formVars
  <1>1. ASSUME NEW name \in Packs, Select(name)
        PROVE  FlagsOK'
    BY <1>1 DEF Select, Show
  <1>2. ASSUME NEW name \in Packs, AskDelete(name)
        PROVE  FlagsOK'
    BY <1>2 DEF AskDelete
  <1>3. CASE AskLoad
    BY <1>3 DEF AskLoad, Start
  <1>4. CASE AskRun
    BY <1>4 DEF AskRun, Start
  <1>5. CASE Edit
    BY <1>5 DEF Edit
  <1>6. CASE CancelEdit
    BY <1>6 DEF CancelEdit
  <1>7. CASE AskSave
    BY <1>7 DEF AskSave, Start
  <1>8. ASSUME NEW n \in Names, SetValue(n)
        PROVE  FlagsOK'
    BY <1>8 DEF SetValue
  <1>9. ASSUME NEW pack \in Contents, EditForm(pack)
        PROVE  FlagsOK'
    BY <1>9 DEF EditForm
  <1>10. ASSUME NEW j \in jobs, Serve(j)
        PROVE  FlagsOK'
    BY <1>10 DEF Serve
  <1>11. ASSUME NEW j \in jobs, GotPack(j)
        PROVE  FlagsOK'
    BY <1>11 DEF GotPack, Finish
  <1>12. ASSUME NEW j \in jobs, GotChoices(j)
        PROVE  FlagsOK'
    BY <1>12 DEF GotChoices, Finish
  <1>13. ASSUME NEW j \in jobs, Confirmed(j)
        PROVE  FlagsOK'
    BY <1>13 DEF Confirmed
  <1>14. ASSUME NEW j \in jobs, GotResult(j)
        PROVE  FlagsOK'
    BY <1>14 DEF GotResult, Finish
  <1>15. ASSUME NEW j \in jobs, Saved(j)
        PROVE  FlagsOK'
    BY <1>15 DEF Saved, Finish
  <1>16. ASSUME NEW j \in jobs, Failed(j)
        PROVE  FlagsOK'
    BY <1>16 DEF Failed, Finish
  <1>17. ASSUME NEW j \in jobs, Dropped(j)
        PROVE  FlagsOK'
    BY <1>17 DEF Dropped
  <1>18. ASSUME NEW d \in deletes, GotDeleted(d)
        PROVE  FlagsOK'
    BY <1>18 DEF GotDeleted, Show
  <1>19. CASE Leave
    BY <1>19 DEF Leave
  <1>20. CASE UNCHANGED <<pageVars, jobs, deletes>>
    BY <1>20
  <1> QED
    BY <1>1, <1>2, <1>3, <1>4, <1>5, <1>6, <1>7, <1>8, <1>9, <1>10, <1>11, <1>12,
       <1>13, <1>14, <1>15, <1>16, <1>17, <1>18, <1>19, <1>20, PageSteps DEF PageNext, Handlers, Read

\* What the page shows.
LEMMA PageStep == PacksInv /\ [Next]_allVars => PageOK'
  <1> SUFFICES ASSUME PacksInv, [Next]_allVars
               PROVE  PageOK'
    OBVIOUS
  <1> USE NoneIsNoPack DEF PacksInv, PageOK, editVars, pageVars, formVars
  <1>1. ASSUME NEW name \in Packs, Select(name)
        PROVE  PageOK'
    BY <1>1 DEF Select, Show, NoLists, NoList, Empty, ListsOfRevit, Fields
  <1>2. ASSUME NEW name \in Packs, AskDelete(name)
        PROVE  PageOK'
    BY <1>2 DEF AskDelete
  <1>3. CASE AskLoad
    BY <1>3 DEF AskLoad
  <1>4. CASE AskRun
    BY <1>4 DEF AskRun
  <1>5. CASE Edit
    BY <1>5 DEF Edit
  <1>6. CASE CancelEdit
    BY <1>6 DEF CancelEdit
  <1>7. CASE AskSave
    BY <1>7 DEF AskSave
  <1>8. ASSUME NEW n \in Names, SetValue(n)
        PROVE  PageOK'
    <2>1. PICK t \in {"blank"} \union (IF choices[n].items # {} THEN choices[n].items ELSE Texts) :
             values' = [values EXCEPT ![n] = t]
      BY <1>8 DEF SetValue
    <2>2. choices[n].items \subseteq Texts
      BY DEF ListsOfRevit
    <2>3. t \in Fields
      BY <2>1, <2>2 DEF Fields
    <2> QED
      BY <1>8, <2>1, <2>3 DEF SetValue
  <1>9. ASSUME NEW pack \in Contents, EditForm(pack)
        PROVE  PageOK'
    BY <1>9 DEF EditForm
  <1>10. ASSUME NEW j \in jobs, Serve(j)
        PROVE  PageOK'
    BY <1>10 DEF Serve
  <1>11. ASSUME NEW j \in jobs, GotPack(j)
        PROVE  PageOK'
    <2>1. j.data \in Contents /\ j.name \in Packs
      BY <1>11 DEF GotPack, JobsOK, Handling
    <2>2. choices' \in ListsOfRevit /\ values' \in [Names -> Fields] /\ step' \in 1..4
      BY <1>11 DEF GotPack, Fill, FillFrom, NoLists, NoList, ListsOfRevit
    <2> QED
      BY <1>11, <2>1, <2>2 DEF GotPack
  <1>12. ASSUME NEW j \in jobs, GotChoices(j)
        PROVE  PageOK'
    <2>1. choices' \in ListsOfRevit /\ values' \in [Names -> Fields] /\ step' \in 1..4
      BY <1>12 DEF GotChoices, Fill, FillFrom, NoLists, NoList, ListsOfRevit, AskedLists, JobsOK, Handling
    <2> QED
      BY <1>12, <2>1 DEF GotChoices
  <1>13. ASSUME NEW j \in jobs, Confirmed(j)
        PROVE  PageOK'
    BY <1>13 DEF Confirmed
  <1>14. ASSUME NEW j \in jobs, GotResult(j)
        PROVE  PageOK'
    BY <1>14 DEF GotResult, JobsOK, Handling
  <1>15. ASSUME NEW j \in jobs, Saved(j)
        PROVE  PageOK'
    BY <1>15 DEF Saved, JobsOK, Handling
  <1>16. ASSUME NEW j \in jobs, Failed(j)
        PROVE  PageOK'
    BY <1>16 DEF Failed
  <1>17. ASSUME NEW j \in jobs, Dropped(j)
        PROVE  PageOK'
    BY <1>17 DEF Dropped
  <1>18. ASSUME NEW d \in deletes, GotDeleted(d)
        PROVE  PageOK'
    <2>1. CASE Show(None)
      BY <2>1 DEF Show, NoLists, NoList, Empty, ListsOfRevit, Fields
    <2>2. CASE UNCHANGED pageVars
      BY <2>2
    <2> QED
      BY <1>18, <2>1, <2>2 DEF GotDeleted
  <1>19. CASE Leave
    BY <1>19 DEF Leave, NoLists, NoList, Empty, ListsOfRevit, Fields
  <1>20. CASE UNCHANGED <<pageVars, jobs, deletes>>
    BY <1>20
  <1> QED
    BY <1>1, <1>2, <1>3, <1>4, <1>5, <1>6, <1>7, <1>8, <1>9, <1>10, <1>11, <1>12,
       <1>13, <1>14, <1>15, <1>16, <1>17, <1>18, <1>19, <1>20, PageSteps DEF PageNext, Handlers, Read

\* A new job is well typed if what it carries is.
LEMMA JobBegins ==
  ASSUME NEW kind \in Kinds, NEW name \in Packs, NEW sent \in Contents \union {None},
         NEW spec \in Specs \union {None}, NEW token \in Specs \union {None},
         kind \in {"choices", "save"} => sent \in Contents,
         kind = "confirm" => spec \in Specs,
         kind = "run" => spec = token
  PROVE  Job(kind, name, sent, spec, token) \in Handling
  <1>1. Job(kind, name, sent, spec, token) \in
          [kind : Kinds, name : Packs, sent : Contents \union {None}, spec : Specs \union {None},
           token : Specs \union {None}, live : BOOLEAN, answered : BOOLEAN, data : Data]
    BY DEF Job, Data
  <1> QED
    BY <1>1 DEF Job, Handling

\* Revit gives items only for a query.
LEMMA ListsAreAsked == ASSUME NEW pack, NEW l \in Lists(pack) PROVE l \in AskedLists
  <1>1. l \in ListsOfRevit
    BY DEF Lists, ListsOfRevit
  <1>2. ASSUME NEW n \in Names, l[n].items # {}
        PROVE  l[n].query # None
    BY <1>2 DEF Lists, NoList
  <1> QED
    BY <1>1, <1>2 DEF AskedLists

\* The job with its answer.
WithAnswer(j, data) == [j EXCEPT !.answered = TRUE, !.data = data]

\* An answer of the right kind leaves the job well typed.
LEMMA JobAnswered ==
  ASSUME NEW j \in Handling, NEW data,
         j.kind \in {"get", "save", "choices"},
         j.kind \in {"get", "save"} => data \in Contents,
         j.kind = "choices" => data \in AskedLists
  PROVE  WithAnswer(j, data) \in Handling
  <1> DEFINE k == [j EXCEPT !.answered = TRUE, !.data = data]
  <1>1. data \in Data
    BY DEF Data, AskedLists
  <1>2. /\ j \in [kind : Kinds, name : Packs, sent : Contents \union {None}, spec : Specs \union {None},
                  token : Specs \union {None}, live : BOOLEAN, answered : BOOLEAN, data : Data]
        /\ j.kind = "save" => j.sent \in Contents
        /\ j.kind = "choices" => j.sent \in Contents
    BY DEF Handling
  <1>3. k \in [kind : Kinds, name : Packs, sent : Contents \union {None}, spec : Specs \union {None},
               token : Specs \union {None}, live : BOOLEAN, answered : BOOLEAN, data : Data]
    BY <1>1, <1>2
  <1>4. k.kind = j.kind /\ k.sent = j.sent /\ k.data = data
    BY <1>2
  <1> HIDE DEF k
  <1>5. k \in Handling
    BY <1>2, <1>3, <1>4 DEF Handling
  <1> QED
    BY <1>5 DEF k, WithAnswer

\* A handler keeps what it captured until it ends; its answer is of the kind it asked for.
LEMMA JobsStep == PacksInv /\ [Next]_allVars => JobsOK'
  <1> SUFFICES ASSUME PacksInv, [Next]_allVars
               PROVE  JobsOK'
    OBVIOUS
  <1> USE DEF PacksInv, JobsOK, pageVars
  <1>1. ASSUME NEW name \in Packs, Select(name)
        PROVE  JobsOK'
    BY <1>1 DEF Select
  <1>2. ASSUME NEW name \in Packs, AskDelete(name)
        PROVE  JobsOK'
    BY <1>2 DEF AskDelete
  <1>3. CASE AskLoad
    <2>1. selected \in Packs
      BY <1>3 DEF AskLoad, PageOK
    <2>2. Job("get", selected, None, None, None) \in Handling
      BY <2>1, JobBegins DEF Kinds
    <2> QED
      BY <1>3, <2>2 DEF AskLoad, Start
  <1>4. CASE AskRun
    <2>1. selected \in Packs /\ Spec_ \in Specs
      BY <1>4, SpecIsTyped DEF AskRun, CanRun, HasSpec, PageOK
    <2>2. Job("confirm", selected, None, Spec_, None) \in Handling
      BY <2>1, JobBegins DEF Kinds
    <2> QED
      BY <1>4, <2>2 DEF AskRun, Start
  <1>5. CASE Edit
    BY <1>5 DEF Edit
  <1>6. CASE CancelEdit
    BY <1>6 DEF CancelEdit
  <1>7. CASE AskSave
    <2>1. selected \in Packs /\ edit \in Contents
      BY <1>7 DEF AskSave, CanSave, PageOK, LiveInv
    <2>2. Job("save", selected, edit, None, None) \in Handling
      BY <2>1, JobBegins DEF Kinds
    <2> QED
      BY <1>7, <2>2 DEF AskSave, Start
  <1>8. ASSUME NEW n \in Names, SetValue(n)
        PROVE  JobsOK'
    BY <1>8 DEF SetValue
  <1>9. ASSUME NEW pack \in Contents, EditForm(pack)
        PROVE  JobsOK'
    BY <1>9 DEF EditForm
  <1>10. ASSUME NEW j \in jobs, Serve(j)
        PROVE  JobsOK'
    <2>1. j \in Handling
      BY DEF JobsOK
    <2>2. CASE j.kind = "get"
      <3>1. jobs' = (jobs \ {j}) \union {WithAnswer(j, store[j.name])}
        BY <1>10, <2>2 DEF Serve, Answered, WithAnswer
      <3>2. store[j.name] \in Contents
        BY <1>10, <2>1 DEF Serve, StoreOK, Handling
      <3>3. WithAnswer(j, store[j.name]) \in Handling
        BY <2>1, <2>2, <3>2, JobAnswered
      <3> QED
        BY <3>1, <3>3
    <2>3. CASE j.kind = "save"
      <3>1. jobs' = (jobs \ {j}) \union {WithAnswer(j, j.sent)}
        BY <1>10, <2>3 DEF Serve, Answered, WithAnswer
      <3>2. j.sent \in Contents
        BY <2>1, <2>3 DEF Handling
      <3>3. WithAnswer(j, j.sent) \in Handling
        BY <2>1, <2>3, <3>2, JobAnswered
      <3> QED
        BY <3>1, <3>3
    <2>4. CASE j.kind = "choices"
      <3>1. PICK l \in Lists(store[j.name]) :
               jobs' = (jobs \ {j}) \union {WithAnswer(j, l)}
        BY <1>10, <2>4 DEF Serve, Answered, WithAnswer
      <3>2. l \in AskedLists
        BY <3>1, ListsAreAsked
      <3>3. WithAnswer(j, l) \in Handling
        BY <2>1, <2>4, <3>2, JobAnswered
      <3> QED
        BY <3>1, <3>3
    <2> QED
      BY <1>10, <2>2, <2>3, <2>4 DEF Serve
  <1>11. ASSUME NEW j \in jobs, GotPack(j)
        PROVE  JobsOK'
    <2>1. j.data \in Contents /\ j.name \in Packs
      BY <1>11 DEF GotPack, JobsOK, Handling
    <2>2. Job("choices", j.name, j.data, None, None) \in Handling
      BY <2>1, JobBegins DEF Kinds
    <2> QED
      BY <1>11, <2>2 DEF GotPack, Finish
  <1>12. ASSUME NEW j \in jobs, GotChoices(j)
        PROVE  JobsOK'
    BY <1>12 DEF GotChoices, Finish
  <1>13. ASSUME NEW j \in jobs, Confirmed(j)
        PROVE  JobsOK'
    <2>1. j \in Handling
      BY DEF JobsOK
    <2>2. j.spec \in Specs /\ j.name \in Packs /\ j.live \in BOOLEAN
      BY <1>13, <2>1 DEF Confirmed, Handling
    <2>3. Job("run", j.name, None, j.spec, j.spec) \in Handling
      BY <2>2, JobBegins DEF Kinds
    <2>4. [Job("run", j.name, None, j.spec, j.spec) EXCEPT !.live = j.live] \in Handling
      BY <2>2, <2>3 DEF Handling
    <2> QED
      BY <1>13, <2>4 DEF Confirmed
  <1>14. ASSUME NEW j \in jobs, GotResult(j)
        PROVE  JobsOK'
    BY <1>14 DEF GotResult, Finish
  <1>15. ASSUME NEW j \in jobs, Saved(j)
        PROVE  JobsOK'
    BY <1>15 DEF Saved, Finish
  <1>16. ASSUME NEW j \in jobs, Failed(j)
        PROVE  JobsOK'
    BY <1>16 DEF Failed, Finish
  <1>17. ASSUME NEW j \in jobs, Dropped(j)
        PROVE  JobsOK'
    BY <1>17 DEF Dropped
  <1>18. ASSUME NEW d \in deletes, GotDeleted(d)
        PROVE  JobsOK'
    BY <1>18 DEF GotDeleted
  <1>19. CASE Leave
    <2>1. \A j \in jobs : [j EXCEPT !.live = FALSE] \in Handling
      BY DEF JobsOK, Handling
    <2> QED
      BY <1>19, <2>1 DEF Leave, JobsOK
  <1>20. CASE UNCHANGED <<pageVars, jobs, deletes>>
    BY <1>20
  <1> QED
    BY <1>1, <1>2, <1>3, <1>4, <1>5, <1>6, <1>7, <1>8, <1>9, <1>10, <1>11, <1>12,
       <1>13, <1>14, <1>15, <1>16, <1>17, <1>18, <1>19, <1>20, PageSteps DEF PageNext, Handlers, Read

\* The deletions under way.
LEMMA DeletesStep == PacksInv /\ [Next]_allVars => DeletesOK'
  <1> SUFFICES ASSUME PacksInv, [Next]_allVars
               PROVE  DeletesOK'
    OBVIOUS
  <1> USE DEF PacksInv, DeletesOK, pageVars
  <1>1. ASSUME NEW name \in Packs, Select(name)
        PROVE  DeletesOK'
    BY <1>1 DEF Select
  <1>2. ASSUME NEW name \in Packs, AskDelete(name)
        PROVE  DeletesOK'
    <2> DEFINE chosen == selected = name
    <2>1. chosen \in BOOLEAN /\ deletes' = {[name |-> name, selected |-> chosen, live |-> TRUE]}
      BY <1>2 DEF AskDelete
    <2> HIDE DEF chosen
    <2>2. [name |-> name, selected |-> chosen, live |-> TRUE] \in [name : Packs, selected : BOOLEAN, live : BOOLEAN]
      BY <2>1
    <2> QED
      BY <2>1, <2>2
  <1>3. CASE AskLoad
    BY <1>3 DEF AskLoad
  <1>4. CASE AskRun
    BY <1>4 DEF AskRun
  <1>5. CASE Edit
    BY <1>5 DEF Edit
  <1>6. CASE CancelEdit
    BY <1>6 DEF CancelEdit
  <1>7. CASE AskSave
    BY <1>7 DEF AskSave
  <1>8. ASSUME NEW n \in Names, SetValue(n)
        PROVE  DeletesOK'
    BY <1>8 DEF SetValue
  <1>9. ASSUME NEW pack \in Contents, EditForm(pack)
        PROVE  DeletesOK'
    BY <1>9 DEF EditForm
  <1>10. ASSUME NEW j \in jobs, Serve(j)
        PROVE  DeletesOK'
    BY <1>10 DEF Serve
  <1>11. ASSUME NEW j \in jobs, GotPack(j)
        PROVE  DeletesOK'
    BY <1>11 DEF GotPack
  <1>12. ASSUME NEW j \in jobs, GotChoices(j)
        PROVE  DeletesOK'
    BY <1>12 DEF GotChoices
  <1>13. ASSUME NEW j \in jobs, Confirmed(j)
        PROVE  DeletesOK'
    BY <1>13 DEF Confirmed
  <1>14. ASSUME NEW j \in jobs, GotResult(j)
        PROVE  DeletesOK'
    BY <1>14 DEF GotResult
  <1>15. ASSUME NEW j \in jobs, Saved(j)
        PROVE  DeletesOK'
    BY <1>15 DEF Saved
  <1>16. ASSUME NEW j \in jobs, Failed(j)
        PROVE  DeletesOK'
    BY <1>16 DEF Failed
  <1>17. ASSUME NEW j \in jobs, Dropped(j)
        PROVE  DeletesOK'
    BY <1>17 DEF Dropped
  <1>18. ASSUME NEW d \in deletes, GotDeleted(d)
        PROVE  DeletesOK'
    BY <1>18 DEF GotDeleted
  <1>19. CASE Leave
    BY <1>19 DEF Leave
  <1>20. CASE UNCHANGED <<pageVars, jobs, deletes>>
    BY <1>20
  <1> QED
    BY <1>1, <1>2, <1>3, <1>4, <1>5, <1>6, <1>7, <1>8, <1>9, <1>10, <1>11, <1>12,
       <1>13, <1>14, <1>15, <1>16, <1>17, <1>18, <1>19, <1>20, PageSteps DEF PageNext, Handlers, Read

\* The store holds packs of the schema, whoever writes them.
LEMMA StoreStep == PacksInv /\ [Next]_allVars => StoreOK'
  <1> SUFFICES ASSUME PacksInv, [Next]_allVars
               PROVE  StoreOK'
    OBVIOUS
  <1> USE DEF PacksInv, StoreOK
  <1>1. CASE PageNext
    BY <1>1 DEF PageNext, Select, AskDelete, AskLoad, AskRun, Edit, CancelEdit, AskSave, SetValue, EditForm
  <1>2. ASSUME NEW j \in jobs, Serve(j)
        PROVE  StoreOK'
    BY <1>2 DEF Serve, JobsOK, Handling
  <1>3. ASSUME NEW j \in jobs, Read(j)
        PROVE  StoreOK'
    BY <1>3 DEF Read, GotPack, GotChoices, Confirmed, GotResult, Saved, Failed, Dropped
  <1>4. ASSUME NEW d \in deletes, GotDeleted(d)
        PROVE  StoreOK'
    BY <1>4 DEF GotDeleted
  <1>5. ASSUME NEW m \in submits, Solidify(m)
        PROVE  StoreOK'
    BY <1>5 DEF Solidify, PanelInv
  <1>6. CASE UNCHANGED store
    BY <1>6
  <1>7. ASSUME NEW m \in submits, GotSolidified(m)
        PROVE  UNCHANGED store
    BY <1>7 DEF GotSolidified, vars
  <1>8. ASSUME \/ \E s \in CodeSpecs : ShowPanel(s)
               \/ HidePanel \/ EditDraft \/ Submit \/ UNCHANGED allVars
               \/ \E t \in {"task", "packs"} : GoTo(t)
        PROVE  UNCHANGED store
    BY <1>8 DEF ShowPanel, HidePanel, EditDraft, Submit, GoTo, Leave, vars, allVars
  <1> QED
    BY <1>1, <1>2, <1>3, <1>4, <1>5, <1>6, <1>7, <1>8 DEF Next, Handlers

-----------------------------------------------------------------------------
(* One handler at a time.                                                    *)

\* A handler starts: it is the only one of the page.
LEMMA OneStarts ==
  ASSUME PacksInv, ~loading, NEW k, k.live, loading' = TRUE, jobs' = jobs \union {k}
  PROVE  OneAtATime' /\ \A i \in jobs' : i.live => i = k
  <1>1. \A i \in jobs : ~i.live
    BY DEF PacksInv, OneAtATime
  <1> QED
    BY <1>1 DEF OneAtATime

\* It ends: there is none.
LEMMA OneEnds ==
  ASSUME PacksInv, NEW j \in jobs, j.live, loading' = FALSE, jobs' = jobs \ {j}
  PROVE  OneAtATime' /\ \A i \in jobs' : ~i.live
  <1>1. \A i \in jobs : i.live => i = j
    BY DEF PacksInv, OneAtATime
  <1>2. \A i \in jobs' : ~i.live
    BY <1>1
  <1> QED
    BY <1>2 DEF OneAtATime

\* It goes on as another: that one is alone if the first was.
LEMMA OneGoesOn ==
  ASSUME PacksInv, NEW j \in jobs, NEW k, k.live <=> j.live, loading' = loading,
         jobs' = (jobs \ {j}) \union {k}
  PROVE  OneAtATime' /\ \A i \in jobs' : i.live => i = k \/ (i \in jobs /\ ~j.live)
  <1>1. \A i, l \in jobs : i.live /\ l.live => i = l
    BY DEF PacksInv, OneAtATime
  <1>2. loading = (\E i \in jobs : i.live)
    BY DEF PacksInv, OneAtATime
  <1>3. (\E i \in jobs : i.live) <=> (\E i \in jobs' : i.live)
    OBVIOUS
  <1>4. \A i, l \in jobs' : i.live /\ l.live => i = l
    BY <1>1
  <1>5. loading' = (\E i \in jobs' : i.live)
    BY <1>2, <1>3
  <1> QED
    BY <1>1, <1>4, <1>5 DEF OneAtATime

\* The page does not move: neither does its handler.
LEMMA OneStays ==
  ASSUME PacksInv, loading' = loading, jobs' = jobs
  PROVE  OneAtATime'
  BY DEF PacksInv, OneAtATime

\* Every handler starts with the flag down, and puts it down where it ends.
LEMMA OneStep == PacksInv /\ [Next]_allVars => OneAtATime'
  <1> SUFFICES ASSUME PacksInv, [Next]_allVars
               PROVE  OneAtATime'
    OBVIOUS
  <1> USE DEF editVars, formVars, pageVars
  <1>1. ASSUME NEW name \in Packs, Select(name)
        PROVE  OneAtATime'
    BY <1>1, OneStays DEF Select, Show
  <1>2. ASSUME NEW name \in Packs, AskDelete(name)
        PROVE  OneAtATime'
    BY <1>2, OneStays DEF AskDelete
  <1>3. CASE AskLoad
    BY <1>3, OneStarts, JobFields DEF AskLoad, Start
  <1>4. CASE AskRun
    BY <1>4, OneStarts, JobFields DEF AskRun, CanRun, Start
  <1>5. CASE Edit
    BY <1>5, OneStays DEF Edit
  <1>6. CASE CancelEdit
    BY <1>6, OneStays DEF CancelEdit
  <1>7. CASE AskSave
    BY <1>7, OneStarts, JobFields DEF AskSave, CanSave, Start
  <1>8. ASSUME NEW n \in Names, SetValue(n)
        PROVE  OneAtATime'
    BY <1>8, OneStays DEF SetValue
  <1>9. ASSUME NEW pack \in Contents, EditForm(pack)
        PROVE  OneAtATime'
    BY <1>9, OneStays DEF EditForm
  <1>10. ASSUME NEW j \in jobs, Serve(j)
        PROVE  OneAtATime'
    <2>1. PICK data : jobs' = (jobs \ {j}) \union {WithAnswer(j, data)}
      BY <1>10 DEF Serve, Answered, WithAnswer
    <2>2. WithAnswer(j, data).live = j.live
      BY DEF WithAnswer, PacksInv, JobsOK, Handling
    <2> QED
      BY <1>10, <2>1, <2>2, OneGoesOn DEF Serve
  <1>11. ASSUME NEW j \in jobs, GotPack(j)
        PROVE  OneAtATime'
    <2>1. CASE Finish(j)
      BY <1>11, <2>1, OneEnds DEF GotPack, Finish
    <2>2. CASE jobs' = (jobs \ {j}) \union {Job("choices", j.name, j.data, None, None)} /\ loading' = loading
      BY <1>11, <2>2, OneGoesOn, JobFields DEF GotPack
    <2> QED
      BY <1>11, <2>1, <2>2 DEF GotPack
  <1>12. ASSUME NEW j \in jobs, GotChoices(j)
        PROVE  OneAtATime'
    BY <1>12, OneEnds DEF GotChoices, Finish
  <1>13. ASSUME NEW j \in jobs, Confirmed(j)
        PROVE  OneAtATime'
    <2> DEFINE k == [Job("run", j.name, None, j.spec, j.spec) EXCEPT !.live = j.live]
    <2>1. k.live = j.live
      BY DEF Job
    <2>2. jobs' = (jobs \ {j}) \union {k} /\ loading' = loading
      BY <1>13 DEF Confirmed
    <2> HIDE DEF k
    <2> QED
      BY <2>1, <2>2, OneGoesOn
  <1>14. ASSUME NEW j \in jobs, GotResult(j)
        PROVE  OneAtATime'
    BY <1>14, OneEnds DEF GotResult, Finish
  <1>15. ASSUME NEW j \in jobs, Saved(j)
        PROVE  OneAtATime'
    BY <1>15, OneEnds DEF Saved, Finish
  <1>16. ASSUME NEW j \in jobs, Failed(j)
        PROVE  OneAtATime'
    BY <1>16, OneEnds DEF Failed, Finish
  <1>17. ASSUME NEW j \in jobs, Dropped(j)
        PROVE  OneAtATime'
    <2>1. jobs' = jobs \ {j} /\ loading' = loading /\ ~j.live
      BY <1>17 DEF Dropped
    <2>2. (\E i \in jobs : i.live) <=> (\E i \in jobs' : i.live)
      BY <2>1
    <2> QED
      BY <2>1, <2>2 DEF PacksInv, OneAtATime
  <1>18. ASSUME NEW d \in deletes, GotDeleted(d)
        PROVE  OneAtATime'
    BY <1>18, OneStays DEF GotDeleted, Show
  <1>19. CASE Leave
    <2>1. \A j \in jobs : ~[j EXCEPT !.live = FALSE].live
      BY DEF PacksInv, JobsOK, Handling
    <2>2. \A j \in jobs' : ~j.live
      BY <1>19, <2>1 DEF Leave
    <2> QED
      BY <1>19, <2>2 DEF Leave, OneAtATime
  <1>20. CASE UNCHANGED <<pageVars, jobs, deletes>>
    BY <1>20, OneStays
  <1> QED
    BY <1>1, <1>2, <1>3, <1>4, <1>5, <1>6, <1>7, <1>8, <1>9, <1>10, <1>11, <1>12,
       <1>13, <1>14, <1>15, <1>16, <1>17, <1>18, <1>19, <1>20, PageSteps DEF PageNext, Handlers, Read

\* A row that is clicked meanwhile raises the flag crossed; nothing else moves the page.
LEMMA LiveStep == PacksInv /\ [Next]_allVars => LiveInv'
  <1> SUFFICES ASSUME PacksInv, [Next]_allVars
               PROVE  LiveInv'
    OBVIOUS
  <1> USE DEF LiveInv, editVars, formVars, pageVars
  <1>1. ASSUME NEW name \in Packs, Select(name)
        PROVE  LiveInv'
    BY <1>1 DEF Select, Show, PacksInv
  <1>2. ASSUME NEW name \in Packs, AskDelete(name)
        PROVE  LiveInv'
    BY <1>2 DEF AskDelete, PacksInv
  <1>3. CASE AskLoad
    <2> DEFINE k == Job("get", selected, None, None, None)
    <2>1. k.live /\ k.kind = "get" /\ k.name = selected /\ k.sent = None
      BY DEF Job
    <2>2. jobs' = jobs \union {k} /\ loading' = TRUE /\ ~loading
      BY <1>3 DEF AskLoad, Start
    <2> HIDE DEF k
    <2>3. \A i \in jobs' : i.live => i = k
      BY <2>1, <2>2, OneStarts
    <2> QED
      BY <1>3, <2>1, <2>3 DEF AskLoad, PacksInv
  <1>4. CASE AskRun
    <2> DEFINE k == Job("confirm", selected, None, Spec_, None)
    <2>1. k.live /\ k.kind = "confirm" /\ k.name = selected /\ k.sent = None
      BY DEF Job
    <2>2. jobs' = jobs \union {k} /\ loading' = TRUE /\ ~loading
      BY <1>4 DEF AskRun, CanRun, Start
    <2> HIDE DEF k
    <2>3. \A i \in jobs' : i.live => i = k
      BY <2>1, <2>2, OneStarts
    <2> QED
      BY <1>4, <2>1, <2>3 DEF AskRun, PacksInv
  <1>5. CASE Edit
    BY <1>5 DEF Edit, PacksInv
  <1>6. CASE CancelEdit
    BY <1>6 DEF CancelEdit, PacksInv
  <1>7. CASE AskSave
    <2> DEFINE k == Job("save", selected, edit, None, None)
    <2>1. k.live /\ k.kind = "save" /\ k.name = selected /\ k.sent = edit
      BY DEF Job
    <2>2. jobs' = jobs \union {k} /\ loading' = TRUE /\ ~loading
      BY <1>7 DEF AskSave, CanSave, Start
    <2> HIDE DEF k
    <2>3. \A i \in jobs' : i.live => i = k
      BY <2>1, <2>2, OneStarts
    <2> QED
      BY <1>7, <2>1, <2>3 DEF AskSave, CanSave, PacksInv
  <1>8. ASSUME NEW n \in Names, SetValue(n)
        PROVE  LiveInv'
    BY <1>8 DEF SetValue, PacksInv
  <1>9. ASSUME NEW pack \in Contents, EditForm(pack)
        PROVE  LiveInv'
    BY <1>9, NoneIsNoPack DEF EditForm, PacksInv
  <1>10. ASSUME NEW j \in jobs, Serve(j)
        PROVE  LiveInv'
    <2>1. PICK data : jobs' = (jobs \ {j}) \union {WithAnswer(j, data)}
      BY <1>10 DEF Serve, Answered, WithAnswer
    <2>2. /\ WithAnswer(j, data).live = j.live /\ WithAnswer(j, data).kind = j.kind
          /\ WithAnswer(j, data).sent = j.sent /\ WithAnswer(j, data).name = j.name
      BY DEF WithAnswer, PacksInv, JobsOK, Handling
    <2> QED
      BY <1>10, <2>1, <2>2 DEF Serve, PacksInv
  <1>11. ASSUME NEW j \in jobs, GotPack(j)
        PROVE  LiveInv'
    <2>1. j.data \in Contents /\ j.data # None
      BY <1>11, NoneIsNoPack DEF GotPack, PacksInv, JobsOK, Handling
    <2>2. CASE Finish(j)
      <3>1. \A i \in jobs' : ~i.live
        BY <1>11, <2>2, OneEnds DEF GotPack, Finish
      <3> QED
        BY <1>11, <2>1, <3>1 DEF GotPack
    <2>3. CASE jobs' = (jobs \ {j}) \union {Job("choices", j.name, j.data, None, None)}
               /\ UNCHANGED <<formVars, step, loading>>
      <3> DEFINE k == Job("choices", j.name, j.data, None, None)
      <3>1. k.live /\ k.kind = "choices" /\ k.name = j.name /\ k.sent = j.data
        BY DEF Job
      <3>2. jobs' = (jobs \ {j}) \union {k} /\ loading' = loading /\ j.live
        BY <1>11, <2>3 DEF GotPack
      <3> HIDE DEF k
      <3>3. \A i \in jobs' : i.live => i = k
        BY <3>1, <3>2, OneGoesOn
      <3>4. result = None /\ step < 3
        BY <1>11 DEF GotPack, PacksInv, LiveInv
      <3> QED
        BY <1>11, <2>1, <2>3, <3>1, <3>3, <3>4 DEF GotPack
    <2> QED
      BY <1>11, <2>2, <2>3 DEF GotPack
  <1>12. ASSUME NEW j \in jobs, GotChoices(j)
        PROVE  LiveInv'
    <2>1. \A i \in jobs' : ~i.live
      BY <1>12, OneEnds DEF GotChoices, Finish
    <2> QED
      BY <1>12, <2>1 DEF GotChoices, PacksInv
  <1>13. ASSUME NEW j \in jobs, Confirmed(j)
        PROVE  LiveInv'
    <2> DEFINE k == [Job("run", j.name, None, j.spec, j.spec) EXCEPT !.live = j.live]
    <2>1. k.live = j.live /\ k.kind = "run" /\ k.name = j.name
      BY DEF Job
    <2>2. jobs' = (jobs \ {j}) \union {k}
      BY <1>13 DEF Confirmed
    <2> HIDE DEF k
    <2> QED
      BY <1>13, <2>1, <2>2 DEF Confirmed, PacksInv
  <1>14. ASSUME NEW j \in jobs, GotResult(j)
        PROVE  LiveInv'
    <2>1. \A i \in jobs' : ~i.live
      BY <1>14, OneEnds DEF GotResult, Finish
    <2> QED
      BY <1>14, <2>1 DEF GotResult, PacksInv
  <1>15. ASSUME NEW j \in jobs, Saved(j)
        PROVE  LiveInv'
    <2>1. \A i \in jobs' : ~i.live
      BY <1>15, OneEnds DEF Saved, Finish
    <2> QED
      BY <1>15, <2>1 DEF Saved, PacksInv
  <1>16. ASSUME NEW j \in jobs, Failed(j)
        PROVE  LiveInv'
    <2>1. \A i \in jobs' : ~i.live
      BY <1>16, OneEnds DEF Failed, Finish
    <2> QED
      BY <1>16, <2>1 DEF Failed, PacksInv
  <1>17. ASSUME NEW j \in jobs, Dropped(j)
        PROVE  LiveInv'
    BY <1>17 DEF Dropped, PacksInv
  <1>18. ASSUME NEW d \in deletes, GotDeleted(d)
        PROVE  LiveInv'
    <2>1. CASE Show(None)
      BY <1>18, <2>1 DEF GotDeleted, Show, PacksInv
    <2>2. CASE UNCHANGED pageVars
      BY <1>18, <2>2 DEF GotDeleted, PacksInv
    <2> QED
      BY <1>18, <2>1, <2>2 DEF GotDeleted
  <1>19. CASE Leave
    <2>1. \A j \in jobs' : ~j.live
      BY <1>19 DEF Leave, PacksInv, JobsOK, Handling
    <2> QED
      BY <1>19, <2>1 DEF Leave
  <1>20. CASE UNCHANGED <<pageVars, jobs, deletes>>
    BY <1>20 DEF PacksInv
  <1> QED
    BY <1>1, <1>2, <1>3, <1>4, <1>5, <1>6, <1>7, <1>8, <1>9, <1>10, <1>11, <1>12,
       <1>13, <1>14, <1>15, <1>16, <1>17, <1>18, <1>19, <1>20, PageSteps DEF PageNext, Handlers, Read

\* The pack a handler works for is the one selected, unless a row was clicked meanwhile.
LEMMA OwnStep == PacksInv /\ [Next]_allVars => OnlyItsOwn'
  <1> SUFFICES ASSUME PacksInv, [Next]_allVars
               PROVE  OnlyItsOwn'
    OBVIOUS
  <1> USE DEF OnlyItsOwn, editVars, formVars, pageVars
  <1>1. ASSUME NEW name \in Packs, Select(name)
        PROVE  OnlyItsOwn'
    BY <1>1 DEF Select, Show, PacksInv
  <1>2. ASSUME NEW name \in Packs, AskDelete(name)
        PROVE  OnlyItsOwn'
    BY <1>2 DEF AskDelete, PacksInv
  <1>3. CASE AskLoad
    <2> DEFINE k == Job("get", selected, None, None, None)
    <2>1. k.live /\ k.kind = "get" /\ k.name = selected /\ k.sent = None
      BY DEF Job
    <2>2. jobs' = jobs \union {k} /\ loading' = TRUE /\ ~loading
      BY <1>3 DEF AskLoad, Start
    <2> HIDE DEF k
    <2>3. \A i \in jobs' : i.live => i = k
      BY <2>1, <2>2, OneStarts
    <2> QED
      BY <1>3, <2>1, <2>3 DEF AskLoad, PacksInv
  <1>4. CASE AskRun
    <2> DEFINE k == Job("confirm", selected, None, Spec_, None)
    <2>1. k.live /\ k.kind = "confirm" /\ k.name = selected /\ k.sent = None
      BY DEF Job
    <2>2. jobs' = jobs \union {k} /\ loading' = TRUE /\ ~loading
      BY <1>4 DEF AskRun, CanRun, Start
    <2> HIDE DEF k
    <2>3. \A i \in jobs' : i.live => i = k
      BY <2>1, <2>2, OneStarts
    <2> QED
      BY <1>4, <2>1, <2>3 DEF AskRun, CanRun, HasSpec, PacksInv
  <1>5. CASE Edit
    BY <1>5 DEF Edit, PacksInv
  <1>6. CASE CancelEdit
    BY <1>6 DEF CancelEdit, PacksInv
  <1>7. CASE AskSave
    <2> DEFINE k == Job("save", selected, edit, None, None)
    <2>1. k.live /\ k.kind = "save" /\ k.name = selected /\ k.sent = edit
      BY DEF Job
    <2>2. jobs' = jobs \union {k} /\ loading' = TRUE /\ ~loading
      BY <1>7 DEF AskSave, CanSave, Start
    <2> HIDE DEF k
    <2>3. \A i \in jobs' : i.live => i = k
      BY <2>1, <2>2, OneStarts
    <2> QED
      BY <1>7, <2>1, <2>3 DEF AskSave, CanSave, PacksInv
  <1>8. ASSUME NEW n \in Names, SetValue(n)
        PROVE  OnlyItsOwn'
    BY <1>8 DEF SetValue, PacksInv
  <1>9. ASSUME NEW pack \in Contents, EditForm(pack)
        PROVE  OnlyItsOwn'
    BY <1>9 DEF EditForm, PacksInv
  <1>10. ASSUME NEW j \in jobs, Serve(j)
        PROVE  OnlyItsOwn'
    <2>1. PICK data : jobs' = (jobs \ {j}) \union {WithAnswer(j, data)}
      BY <1>10 DEF Serve, Answered, WithAnswer
    <2>2. /\ WithAnswer(j, data).live = j.live /\ WithAnswer(j, data).kind = j.kind
          /\ WithAnswer(j, data).sent = j.sent /\ WithAnswer(j, data).name = j.name
      BY DEF WithAnswer, PacksInv, JobsOK, Handling
    <2> QED
      BY <1>10, <2>1, <2>2 DEF Serve, PacksInv
  <1>11. ASSUME NEW j \in jobs, GotPack(j)
        PROVE  OnlyItsOwn'
    <2>1. j.data \in Contents /\ j.data # None
      BY <1>11, NoneIsNoPack DEF GotPack, PacksInv, JobsOK, Handling
    <2>2. result = None
      BY <1>11 DEF GotPack, PacksInv, LiveInv
    <2>3. CASE Finish(j)
      <3>1. \A i \in jobs' : ~i.live
        BY <1>11, <2>3, OneEnds DEF GotPack, Finish
      <3> QED
        BY <1>11, <2>1, <2>2, <3>1 DEF GotPack
    <2>4. CASE jobs' = (jobs \ {j}) \union {Job("choices", j.name, j.data, None, None)}
               /\ UNCHANGED <<formVars, step, loading>>
      <3> DEFINE k == Job("choices", j.name, j.data, None, None)
      <3>1. k.live /\ k.kind = "choices" /\ k.name = j.name /\ k.sent = j.data
        BY DEF Job
      <3>2. jobs' = (jobs \ {j}) \union {k} /\ loading' = loading /\ j.live
        BY <1>11, <2>4 DEF GotPack
      <3> HIDE DEF k
      <3>3. \A i \in jobs' : i.live => i = k
        BY <3>1, <3>2, OneGoesOn
      <3>4. result = None /\ step < 3
        BY <1>11 DEF GotPack, PacksInv, LiveInv
      <3> QED
        BY <1>11, <2>1, <2>4, <3>1, <3>3, <3>4 DEF GotPack
    <2> QED
      BY <1>11, <2>3, <2>4 DEF GotPack
  <1>12. ASSUME NEW j \in jobs, GotChoices(j)
        PROVE  OnlyItsOwn'
    <2>1. \A i \in jobs' : ~i.live
      BY <1>12, OneEnds DEF GotChoices, Finish
    <2>2. ~crossed => shown # None
      BY <1>12 DEF GotChoices, PacksInv, LiveInv
    <2> QED
      BY <1>12, <2>1, <2>2 DEF GotChoices, PacksInv
  <1>13. ASSUME NEW j \in jobs, Confirmed(j)
        PROVE  OnlyItsOwn'
    <2> DEFINE k == [Job("run", j.name, None, j.spec, j.spec) EXCEPT !.live = j.live]
    <2>1. k.live = j.live /\ k.kind = "run" /\ k.name = j.name
      BY DEF Job
    <2>2. jobs' = (jobs \ {j}) \union {k}
      BY <1>13 DEF Confirmed
    <2> HIDE DEF k
    <2> QED
      BY <1>13, <2>1, <2>2 DEF Confirmed, PacksInv
  <1>14. ASSUME NEW j \in jobs, GotResult(j)
        PROVE  OnlyItsOwn'
    <2>1. \A i \in jobs' : ~i.live
      BY <1>14, OneEnds DEF GotResult, Finish
    <2> QED
      BY <1>14, <2>1 DEF GotResult, PacksInv
  <1>15. ASSUME NEW j \in jobs, Saved(j)
        PROVE  OnlyItsOwn'
    <2>1. \A i \in jobs' : ~i.live
      BY <1>15, OneEnds DEF Saved, Finish
    <2>2. ~crossed => shown # None
      BY <1>15 DEF Saved, PacksInv, LiveInv
    <2>3. j.data # None
      BY <1>15, NoneIsNoPack DEF Saved, PacksInv, JobsOK, Handling
    <2> QED
      BY <1>15, <2>1, <2>2, <2>3 DEF Saved, PacksInv
  <1>16. ASSUME NEW j \in jobs, Failed(j)
        PROVE  OnlyItsOwn'
    <2>1. \A i \in jobs' : ~i.live
      BY <1>16, OneEnds DEF Failed, Finish
    <2> QED
      BY <1>16, <2>1 DEF Failed, PacksInv
  <1>17. ASSUME NEW j \in jobs, Dropped(j)
        PROVE  OnlyItsOwn'
    BY <1>17 DEF Dropped, PacksInv
  <1>18. ASSUME NEW d \in deletes, GotDeleted(d)
        PROVE  OnlyItsOwn'
    <2>1. CASE Show(None)
      BY <1>18, <2>1 DEF GotDeleted, Show, PacksInv
    <2>2. CASE UNCHANGED pageVars
      BY <1>18, <2>2 DEF GotDeleted, PacksInv
    <2> QED
      BY <1>18, <2>1, <2>2 DEF GotDeleted
  <1>19. CASE Leave
    <2>1. \A j \in jobs' : ~j.live
      BY <1>19 DEF Leave, PacksInv, JobsOK, Handling
    <2> QED
      BY <1>19, <2>1 DEF Leave
  <1>20. CASE UNCHANGED <<pageVars, jobs, deletes>>
    BY <1>20 DEF PacksInv
  <1> QED
    BY <1>1, <1>2, <1>3, <1>4, <1>5, <1>6, <1>7, <1>8, <1>9, <1>10, <1>11, <1>12,
       <1>13, <1>14, <1>15, <1>16, <1>17, <1>18, <1>19, <1>20, PageSteps DEF PageNext, Handlers, Read

-----------------------------------------------------------------------------
(* The lists, the values and the parameters shown.                           *)

\* A form that was just filled has the lists and the values of its parameters.
LEMMA FilledForm ==
  ASSUME NEW pack \in Contents, NEW lists \in AskedLists, Fill(pack, lists), shown' \in {pack, None},
         \A n \in ParamsOf(pack) : lists[n].items # {} => lists[n].query = pack.params[n].query
  PROVE  ListsInv'
  <1>1. choices' = lists /\ \A n \in Names : values'[n] \in StartValues(pack, lists, n)
    BY DEF Fill, FillFrom
  <1>2. CASE shown' = None
    BY <1>2 DEF ListsInv, ParamsOf
  <1>3. CASE shown' = pack
    <2> SUFFICES ASSUME NEW n \in ParamsOf(pack)
                 PROVE  /\ lists[n].items # {} =>
                             pack.params[n].query # None /\ lists[n].query = pack.params[n].query
                        /\ lists[n].items = {} /\ values'[n] = "unset" => pack.params[n].default = None
      BY <1>1, <1>3 DEF ListsInv
    <2>1. n \in Names /\ pack.params[n] \in Param
      BY PacksAreWellFormed DEF ParamsOf, Pack
    <2>2. lists[n].items # {} => lists[n].query # None
      BY <2>1 DEF AskedLists
    <2>3. lists[n].items = {} /\ pack.params[n].default # None => values'[n] = pack.params[n].default
      BY <1>1, <2>1 DEF StartValues
    <2>4. pack.params[n].default # None => pack.params[n].default # "unset"
      BY <2>1, NoKeyIsNoText DEF Param
    <2> QED
      BY <2>2, <2>3, <2>4
  <1> QED
    BY <1>2, <1>3

\* The lists before any was asked for.
LEMMA NoListsAreAsked == NoLists \in AskedLists
  BY DEF NoLists, NoList, AskedLists, ListsOfRevit

\* Below step 3 there is nothing to say; step 3 is reached by filling the form.
LEMMA ListsStep == PacksInv /\ [Next]_allVars => ListsInv'
  <1> SUFFICES ASSUME PacksInv, [Next]_allVars
               PROVE  ListsInv'
    OBVIOUS
  <1> USE DEF editVars, formVars, pageVars
  <1>1. ASSUME NEW name \in Packs, Select(name)
        PROVE  ListsInv'
    BY <1>1 DEF Select, Show, ListsInv
  <1>2. ASSUME NEW name \in Packs, AskDelete(name)
        PROVE  ListsInv'
    BY <1>2 DEF AskDelete, PacksInv, ListsInv
  <1>3. CASE AskLoad
    BY <1>3 DEF AskLoad, PacksInv, ListsInv
  <1>4. CASE AskRun
    BY <1>4 DEF AskRun, CanRun, HasSpec, PacksInv, ListsInv
  <1>5. CASE Edit
    BY <1>5 DEF Edit, PacksInv, ListsInv
  <1>6. CASE CancelEdit
    BY <1>6 DEF CancelEdit, PacksInv, ListsInv
  <1>7. CASE AskSave
    BY <1>7 DEF AskSave, PacksInv, ListsInv
  <1>8. ASSUME NEW n \in Names, SetValue(n)
        PROVE  ListsInv'
    <2>1. PICK t \in {"blank"} \union (IF choices[n].items # {} THEN choices[n].items ELSE Texts) :
             values' = [values EXCEPT ![n] = t]
      BY <1>8 DEF SetValue
    <2>2. values'[n] = t /\ \A m \in Names \ {n} : values'[m] = values[m]
      BY <2>1 DEF PacksInv, PageOK
    <2>3. choices[n].items = {} => t # "unset"
      BY <2>1, NoKeyIsNoText
    <2>4. ParamsOf(shown) \subseteq Names
      BY DEF ParamsOf
    <2> QED
      BY <1>8, <2>2, <2>3, <2>4 DEF SetValue, PacksInv, ListsInv
  <1>9. ASSUME NEW pack \in Contents, EditForm(pack)
        PROVE  ListsInv'
    BY <1>9 DEF EditForm, PacksInv, ListsInv
  <1>10. ASSUME NEW j \in jobs, Serve(j)
        PROVE  ListsInv'
    BY <1>10 DEF Serve, PacksInv, ListsInv
  <1>11. ASSUME NEW j \in jobs, GotPack(j)
        PROVE  ListsInv'
    <2>1. j.data \in Contents
      BY <1>11 DEF GotPack, PacksInv, JobsOK, Handling
    <2>2. step < 3
      BY <1>11 DEF GotPack, PacksInv, LiveInv
    <2>3. CASE Fill(j.data, NoLists)
      <3>1. \A n \in ParamsOf(j.data) : NoLists[n].items = {}
        BY DEF NoLists, NoList, ParamsOf
      <3> QED
        BY <1>11, <2>1, <2>3, <3>1, FilledForm, NoListsAreAsked DEF GotPack
    <2>4. CASE UNCHANGED <<formVars, step, loading>>
      BY <2>2, <2>4 DEF ListsInv, PacksInv, PageOK
    <2> QED
      BY <1>11, <2>3, <2>4 DEF GotPack
  <1>12. ASSUME NEW j \in jobs, GotChoices(j)
        PROVE  ListsInv'
    <2>1. j \in Handling /\ j.kind = "choices" /\ j.sent \in Contents
      BY <1>12 DEF GotChoices, PacksInv, JobsOK, Handling
    <2>2. shown' \in {j.sent, None}
      BY <1>12 DEF GotChoices, PacksInv, LiveInv
    <2>3. CASE Fill(j.sent, NoLists)
      <3>1. \A n \in ParamsOf(j.sent) : NoLists[n].items = {}
        BY DEF NoLists, NoList, ParamsOf
      <3> QED
        BY <2>1, <2>2, <2>3, <3>1, FilledForm, NoListsAreAsked
    <2>4. CASE j.answered /\ Fill(j.sent, j.data) /\
               (~drifted' => \A n \in ParamsOf(j.sent) : j.data[n].items # {} =>
                                j.data[n].query = j.sent.params[n].query)
      <3>1. j.data \in AskedLists
        BY <2>1, <2>4 DEF Handling
      <3>2. CASE drifted'
        BY <3>2 DEF ListsInv
      <3>3. CASE ~drifted'
        BY <2>1, <2>2, <2>4, <3>1, <3>3, FilledForm
      <3> QED
        BY <3>2, <3>3
    <2> QED
      BY <1>12, <2>3, <2>4 DEF GotChoices
  <1>13. ASSUME NEW j \in jobs, Confirmed(j)
        PROVE  ListsInv'
    BY <1>13 DEF Confirmed, PacksInv, ListsInv
  <1>14. ASSUME NEW j \in jobs, GotResult(j)
        PROVE  ListsInv'
    BY <1>14 DEF GotResult, PacksInv, ListsInv
  <1>15. ASSUME NEW j \in jobs, Saved(j)
        PROVE  ListsInv'
    BY <1>15 DEF Saved, ListsInv
  <1>16. ASSUME NEW j \in jobs, Failed(j)
        PROVE  ListsInv'
    BY <1>16 DEF Failed, PacksInv, ListsInv
  <1>17. ASSUME NEW j \in jobs, Dropped(j)
        PROVE  ListsInv'
    BY <1>17 DEF Dropped, PacksInv, ListsInv
  <1>18. ASSUME NEW d \in deletes, GotDeleted(d)
        PROVE  ListsInv'
    <2>1. CASE Show(None)
      BY <2>1 DEF Show, ListsInv
    <2>2. CASE UNCHANGED pageVars
      BY <2>2 DEF PacksInv, ListsInv
    <2> QED
      BY <1>18, <2>1, <2>2 DEF GotDeleted
  <1>19. CASE Leave
    BY <1>19 DEF Leave, ListsInv
  <1>20. CASE UNCHANGED <<pageVars, jobs, deletes>>
    BY <1>20 DEF PacksInv, ListsInv
  <1> QED
    BY <1>1, <1>2, <1>3, <1>4, <1>5, <1>6, <1>7, <1>8, <1>9, <1>10, <1>11, <1>12,
       <1>13, <1>14, <1>15, <1>16, <1>17, <1>18, <1>19, <1>20, PageSteps DEF PageNext, Handlers, Read

-----------------------------------------------------------------------------
(* The panel.                                                                *)

\* It is there for one spec at a time, and what it asked for before is not its own.
LEMMA PanelStep == PacksInv /\ [Next]_allVars => PanelInv'
  <1> SUFFICES ASSUME PacksInv, [Next]_allVars
               PROVE  PanelInv'
    OBVIOUS
  <1>1. ASSUME NEW s \in CodeSpecs, ShowPanel(s)
        PROVE  PanelInv'
    <2>1. \A m \in submits' : m \in submits /\ ~m.live
      BY <1>1 DEF ShowPanel, PacksInv, PanelInv
    <2>2. panel' = s /\ busy' = FALSE /\ saved' = None
      BY <1>1 DEF ShowPanel, Show_
    <2>3. DraftPack(s) \in Contents /\ DraftPack(s).code = s.code
      BY CodeSpecsAreDrafted DEF DraftPack
    <2>4. PICK name \in Packs : form' = [name |-> name, pack |-> DraftPack(s)]
      BY <1>1 DEF ShowPanel, Show_
    <2>5. NoticeIsOfThisSpec'
      BY <2>1, <2>2 DEF NoticeIsOfThisSpec
    <2>6. form' \in [name : Packs, pack : Contents] /\ form'.pack.code = s.code
      BY <2>3, <2>4
    <2> QED
      BY <2>1, <2>2, <2>5, <2>6 DEF PacksInv, PanelInv
  <1>2. CASE Unmount
    <2>1. ASSUME NEW m \in submits'
          PROVE  /\ ~m.live
                 /\ m \in [name : Packs, pack : Contents, spec : CodeSpecs \union {None},
                           live : BOOLEAN, solidified : BOOLEAN]
      <3>1. PICK l \in submits : m = [l EXCEPT !.live = FALSE, !.spec = None]
        BY <1>2 DEF Unmount, Gone
      <3>2. l \in [name : Packs, pack : Contents, spec : CodeSpecs \union {None},
                   live : BOOLEAN, solidified : BOOLEAN]
        BY DEF PacksInv, PanelInv
      <3> QED
        BY <3>1, <3>2
    <2> QED
      BY <1>2, <2>1 DEF Unmount, PanelInv, NoticeIsOfThisSpec
  <1>3. CASE EditDraft
    <2>1. PICK name \in Packs, pack \in {c \in Contents : c.code = panel.code} :
             form' = [name |-> name, pack |-> pack]
      BY <1>3 DEF EditDraft
    <2>2. form' \in [name : Packs, pack : Contents] /\ form'.pack.code = panel.code
      BY <2>1
    <2> QED
      BY <1>3, <2>2 DEF EditDraft, PacksInv, PanelInv, NoticeIsOfThisSpec
  <1>4. CASE Submit
    <2> DEFINE l == [name |-> form.name, pack |-> [form.pack EXCEPT !.code = panel.code], spec |-> panel,
                     live |-> TRUE, solidified |-> FALSE]
    <2>1. panel # None /\ panel \in CodeSpecs /\ form.name \in Packs /\ form.pack \in Contents
          /\ form.pack.code = panel.code /\ ~busy
      BY <1>4 DEF Submit, PacksInv, PanelInv
    <2>2. [form.pack EXCEPT !.code = panel.code] = form.pack
      BY <2>1, PacksAreWellFormed DEF Pack
    <2>3. l \in [name : Packs, pack : Contents, spec : CodeSpecs \union {None},
                 live : BOOLEAN, solidified : BOOLEAN] /\ l.live /\ l.spec = panel
      BY <2>1, <2>2
    <2>4. submits' = submits \union {l} /\ busy' = TRUE /\ saved' = None /\ UNCHANGED <<panel, form>>
      BY <1>4 DEF Submit
    <2> HIDE DEF l
    <2>5. \A m \in submits : ~m.live
      BY <2>1 DEF PacksInv, PanelInv, NoticeIsOfThisSpec
    <2>6. NoticeIsOfThisSpec'
      BY <2>3, <2>4 DEF NoticeIsOfThisSpec
    <2> QED
      BY <2>1, <2>3, <2>4, <2>5, <2>6 DEF PacksInv, PanelInv
  <1>5. ASSUME NEW m \in submits, Solidify(m)
        PROVE  PanelInv'
    <2> DEFINE l == [m EXCEPT !.solidified = TRUE]
    <2>1. l \in [name : Packs, pack : Contents, spec : CodeSpecs \union {None},
                 live : BOOLEAN, solidified : BOOLEAN] /\ l.live = m.live /\ l.spec = m.spec
      BY DEF PacksInv, PanelInv
    <2>2. submits' = (submits \ {m}) \union {l} /\ UNCHANGED <<panel, form, busy, saved>>
      BY <1>5 DEF Solidify
    <2> HIDE DEF l
    <2>3. (\E i \in submits : i.live) <=> (\E i \in submits' : i.live)
      BY <2>1, <2>2
    <2>4. NoticeIsOfThisSpec'
      BY <2>2, <2>3 DEF PacksInv, PanelInv, NoticeIsOfThisSpec
    <2>5. \A i, k \in submits' : i.live /\ k.live => i = k
      BY <2>1, <2>2 DEF PacksInv, PanelInv
    <2>6. \A i \in submits' :
            /\ i \in [name : Packs, pack : Contents, spec : CodeSpecs \union {None},
                      live : BOOLEAN, solidified : BOOLEAN]
            /\ i.live => i.spec = panel' /\ panel' # None
      BY <2>1, <2>2 DEF PacksInv, PanelInv
    <2> QED
      BY <2>2, <2>4, <2>5, <2>6 DEF PacksInv, PanelInv
  <1>6. ASSUME NEW m \in submits, GotSolidified(m)
        PROVE  PanelInv'
    <2>1. submits' = submits \ {m} /\ UNCHANGED <<panel, form>>
      BY <1>6 DEF GotSolidified
    <2>2. CASE m.live
      <3>1. \A i \in submits' : ~i.live
        BY <2>1, <2>2 DEF PacksInv, PanelInv
      <3>2. busy' = FALSE /\ saved' \in {None, m.spec} /\ m.spec = panel
        BY <1>6, <2>2 DEF GotSolidified, PacksInv, PanelInv
      <3>3. NoticeIsOfThisSpec'
        BY <2>1, <3>1, <3>2 DEF NoticeIsOfThisSpec
      <3> QED
        BY <2>1, <3>1, <3>3 DEF PacksInv, PanelInv
    <2>3. CASE ~m.live
      <3>1. UNCHANGED <<busy, saved>>
        BY <1>6, <2>3 DEF GotSolidified
      <3>2. (\E i \in submits : i.live) <=> (\E i \in submits' : i.live)
        BY <2>1, <2>3
      <3>3. NoticeIsOfThisSpec'
        BY <2>1, <3>1, <3>2 DEF PacksInv, PanelInv, NoticeIsOfThisSpec
      <3> QED
        BY <2>1, <3>3 DEF PacksInv, PanelInv
    <2> QED
      BY <2>2, <2>3
  <1>7. CASE UNCHANGED panelVars
    BY <1>7 DEF panelVars, PacksInv, PanelInv, NoticeIsOfThisSpec
  <1> QED
    BY <1>1, <1>2, <1>3, <1>4, <1>5, <1>6, <1>7 DEF Next, HidePanel, GoTo, allVars, vars, panelVars

-----------------------------------------------------------------------------
(* The theorems.                                                             *)

LEMMA InvStep == PacksInv /\ [Next]_allVars => PacksInv'
  BY StoreStep, FlagsStep, PageStep, JobsStep, DeletesStep, OneStep, LiveStep, OwnStep, ListsStep,
     PanelStep DEF PacksInv

LEMMA Invariance == Spec => []PacksInv
  BY InitInv, InvStep, PTL DEF Spec

\* Whatever is clicked, typed, answered or left, every variable keeps its type.
THEOREM TypeCorrect == Spec => []TypeOK
  <1>1. PacksInv => TypeOK
    <2> SUFFICES ASSUME PacksInv
                 PROVE  TypeOK
      OBVIOUS
    <2>1. ASSUME NEW j \in jobs
          PROVE  /\ j.kind \in Kinds /\ j.name \in Packs /\ j.live \in BOOLEAN
                 /\ j.sent \in Contents \union {None} /\ {j.spec, j.token} \subseteq Specs \union {None}
                 /\ j.answered \in BOOLEAN
                 /\ j.data \in Contents \union {None} \/ j.data \in ListsOfRevit
      BY <2>1 DEF PacksInv, JobsOK, Handling, Data
    <2>2. \A d \in deletes : d.name \in Packs /\ d.selected \in BOOLEAN /\ d.live \in BOOLEAN
      BY DEF PacksInv, DeletesOK
    <2> QED
      BY <2>1, <2>2 DEF PacksInv, StoreOK, FlagsOK, PageOK, TypeOK
  <1> QED
    BY <1>1, Invariance, PTL

\* The flag `loading' and the handlers agree: one is under way, or none.
THEOREM OneHandlerAtATime == Spec => []OneAtATime
  <1>1. PacksInv => OneAtATime
    BY DEF PacksInv
  <1> QED
    BY <1>1, Invariance, PTL

\* What is loaded, edited or reported is the selected pack's, unless a row was
\* clicked while a handler was under way.
THEOREM PageIsOfItsPack == Spec => []OnlyItsOwn
  <1>1. PacksInv => OnlyItsOwn
    BY DEF PacksInv
  <1> QED
    BY <1>1, Invariance, PTL

\* A token is spent on the spec it was issued for.
THEOREM RunIsAsConfirmed == Spec => []RunsAsConfirmed
  <1>1. PacksInv => RunsAsConfirmed
    BY DEF PacksInv, JobsOK, Handling, RunsAsConfirmed
  <1> QED
    BY <1>1, Invariance, PTL

\* The evidence of a value names the query that listed it.
THEOREM EvidenceIsTrue == Spec => []EvidenceIsOfItsList
  <1>1. PacksInv => EvidenceIsOfItsList
    <2> SUFFICES ASSUME PacksInv, HasSpec, ~drifted, NEW n \in Bound(shown, values),
                        Spec_.params[n].source = "tool"
                 PROVE  choices[n].query = Spec_.params[n].evidence /\ values[n] \in choices[n].items
      BY DEF EvidenceIsOfItsList
    <2> DEFINE p == shown.params[n]
    <2>1. n \in Names /\ n \in ParamsOf(shown) /\ Spec_.params[n] = Binding(p, values[n], choices[n])
      BY DEF Bound, ParamsOf, Spec_, SpecFromForm
    <2>2. values[n] \in choices[n].items
      BY <2>1 DEF Binding
    <2>3. p.query # None /\ choices[n].query = p.query
      BY <2>1, <2>2 DEF PacksInv, ListsInv, HasSpec
    <2>4. Spec_.params[n].evidence = p.query
      BY <2>1, <2>2, <2>3 DEF Binding, IsToolSourced
    <2> QED
      BY <2>2, <2>3, <2>4
  <1> QED
    BY <1>1, Invariance, PTL

\* What the form shows, defaults included, is what the spec says.
THEOREM FormShowsWhatIsSent == Spec => []ShownIsSent
  <1>1. PacksInv => ShownIsSent
    <2> SUFFICES ASSUME PacksInv, step >= 3, ~drifted, NEW n \in ParamsOf(shown), Shows(n) \in Texts
                 PROVE  values[n] \in Texts
      BY DEF ShownIsSent, Bound
    <2> QED
      BY DEF PacksInv, ListsInv, Shows
  <1> QED
    BY <1>1, Invariance, PTL

\* "Saved" is said of the spec the panel is mounted for.
THEOREM NoticeIsTrue == Spec => []NoticeIsOfThisSpec
  <1>1. PacksInv => NoticeIsOfThisSpec
    BY DEF PacksInv, PanelInv
  <1> QED
    BY <1>1, Invariance, PTL

-----------------------------------------------------------------------------
(* From a spec to a pack and back.                                           *)

SpecBindings ==
  [value : [as : {"text", "number", "bool"}, text : Texts],
   source : {"tool", "answer", "default", "designer", "preference"},
   evidence : Queries \union {"page", "default"}]

\* What draftParameter() keeps of where a value is from.
LEMMA DraftFields ==
  ASSUME NEW b \in SpecBindings
  PROVE  LET p == DraftParameter(b)
         IN /\ p \in Param /\ p.type = b.value.as
            /\ b.source = "tool" /\ b.evidence \in Usable => p.query = b.evidence
            /\ ~(b.source = "tool" /\ b.evidence \in Usable) => p.query = None /\ p.source \notin Queries
            /\ b.source = "default" => p.source = "default" /\ p.default = b.value.text
            /\ b.source # "default" => p.source # "default"
  <1> DEFINE draft(source, query) ==
        [type |-> b.value.as, query |-> query, required |-> source # "default", source |-> source,
         default |-> IF source = "default" THEN b.value.text ELSE None]
  <1>1. b.value.as \in {"text", "number", "bool"} /\ b.value.text \in Texts
    BY DEF SpecBindings
  <1>2. \A source, query : /\ draft(source, query).type = b.value.as /\ draft(source, query).query = query
                           /\ draft(source, query).source = source
                           /\ draft(source, query).default = IF source = "default" THEN b.value.text ELSE None
    OBVIOUS
  <1>3. ASSUME NEW source \in {"designer", "answer", "default"} \union Queries,
               NEW query \in Queries \union {None}
        PROVE  draft(source, query) \in Param
    <2>1. (source # "default") \in BOOLEAN
      BY Zenon
    <2> QED
      BY <1>1, <2>1 DEF Param
  <1>4. Usable \subseteq Queries
    BY CodeSpecsAreDrafted
  <1>5. CASE b.source = "tool" /\ b.evidence \in Usable
    <2>1. DraftParameter(b) = draft(b.evidence, b.evidence)
      BY <1>5 DEF DraftParameter
    <2>2. b.evidence \in Queries /\ b.evidence # "default"
      BY <1>4, <1>5, QueriesAreNotSources
    <2>3. draft(b.evidence, b.evidence) \in Param
      BY <1>3, <2>2
    <2>4. /\ draft(b.evidence, b.evidence).type = b.value.as
          /\ draft(b.evidence, b.evidence).query = b.evidence
          /\ draft(b.evidence, b.evidence).source = b.evidence
      OBVIOUS
    <2> HIDE DEF draft
    <2> QED
      BY <1>5, <2>1, <2>2, <2>3, <2>4
  <1>6. CASE ~(b.source = "tool" /\ b.evidence \in Usable)
    <2>1. \E source \in {"designer", "answer", "default"} :
            /\ DraftParameter(b) = draft(source, None)
            /\ source = "default" <=> b.source = "default"
      <3>1. CASE b.source = "tool"
        BY <1>6, <3>1 DEF DraftParameter
      <3>2. CASE b.source = "answer"
        BY <3>2 DEF DraftParameter
      <3>3. CASE b.source = "default"
        BY <3>3 DEF DraftParameter
      <3>4. CASE b.source \in {"designer", "preference"}
        BY <3>4 DEF DraftParameter
      <3> QED
        BY <3>1, <3>2, <3>3, <3>4 DEF SpecBindings
    <2>2. PICK source \in {"designer", "answer", "default"} :
            /\ DraftParameter(b) = draft(source, None)
            /\ source = "default" <=> b.source = "default"
      BY <2>1
    <2>3. source \notin Queries
      BY QueriesAreNotSources
    <2> HIDE DEF draft
    <2> QED
      BY <1>2, <1>3, <1>6, <2>2, <2>3
  <1> QED
    BY <1>5, <1>6

\* What typedValue() makes of the text of a value is the value.
LEMMA ValueIsTyped ==
  ASSUME NEW b \in SpecBindings, NEW p, p.type = b.value.as,
         b.value.as = "number" => b.value.text \in Numerals,
         b.value.as = "bool" => b.value.text = IF b.value.text \in Truthy THEN "true" ELSE "false"
  PROVE  TypedValue(p, b.value.text) = b.value
  <1>1. b.value.as \in {"text", "number", "bool"} /\ b.value = [as |-> b.value.as, text |-> b.value.text]
    BY DEF SpecBindings
  <1>2. CASE b.value.as = "number"
    BY <1>1, <1>2 DEF TypedValue
  <1>3. CASE b.value.as = "bool"
    BY <1>1, <1>3 DEF TypedValue
  <1>4. CASE b.value.as = "text"
    BY <1>1, <1>4 DEF TypedValue
  <1> QED
    BY <1>1, <1>2, <1>3, <1>4

\* Run again with its own value on its own list, a parameter is bound as it was.
LEMMA BoundAgain ==
  ASSUME NEW b \in SpecBindings,
         b.value.as = "number" => b.value.text \in Numerals,
         b.value.as = "bool" => b.value.text = IF b.value.text \in Truthy THEN "true" ELSE "false",
         NEW list,
         list = IF DraftParameter(b).query # None
                  THEN [query |-> DraftParameter(b).query, items |-> {b.value.text}] ELSE NoList
  PROVE  LET c == Binding(DraftParameter(b), b.value.text, list)
         IN /\ c.value = b.value
            /\ b.source = "tool" /\ b.evidence \in Usable => c.source = "tool" /\ c.evidence = b.evidence
            /\ b.source = "default" => c.source = "default"
            /\ c.source = "tool" => b.source = "tool"
  <1> DEFINE p == DraftParameter(b)
             t == b.value.text
             v == TypedValue(p, t)
             c == Binding(p, t, list)
  <1>1. /\ p.type = b.value.as
        /\ b.source = "tool" /\ b.evidence \in Usable => p.query = b.evidence
        /\ ~(b.source = "tool" /\ b.evidence \in Usable) => p.query = None /\ p.source \notin Queries
        /\ b.source = "default" => p.source = "default" /\ p.default = t
        /\ b.source # "default" => p.source # "default"
    BY DraftFields
  <1>2. v = b.value
    BY <1>1, ValueIsTyped
  <1>3. p.query # None => t \in list.items
    OBVIOUS
  <1> HIDE DEF p, t, v
  <1>4. CASE b.source = "tool" /\ b.evidence \in Usable
    <2>1. p.query = b.evidence /\ p.query # None
      BY <1>1, <1>4, CodeSpecsAreDrafted, NoneIsNoPack
    <2>2. c = [value |-> v, source |-> "tool", evidence |-> b.evidence]
      BY <1>3, <2>1 DEF Binding, IsToolSourced, v
    <2> QED
      BY <1>2, <1>4, <2>2 DEF c, p, t
  <1>5. CASE ~(b.source = "tool" /\ b.evidence \in Usable)
    <2>1. ~IsToolSourced(p)
      BY <1>1, <1>5 DEF IsToolSourced
    <2>2. c = IF p.source = "default" /\ p.default = t
                THEN [value |-> v, source |-> "default", evidence |-> "default"]
                ELSE [value |-> v, source |-> "designer", evidence |-> "page"]
      BY <2>1 DEF Binding, v
    <2>3. c.value = v /\ c.source # "tool" /\ (b.source = "default" => c.source = "default")
      BY <1>1, <2>2
    <2> QED
      BY <1>2, <1>5, <2>3 DEF c, p, t
  <1> QED
    BY <1>4, <1>5

\* A pack made from a spec asks again for what the spec asked Revit for, keeps its
\* defaults and binds its values as they were: draftParameter() and specFromForm()
\* undo each other, for every spec that can be confirmed.
THEOREM PackAsksTheSame == Spec => []AsksTheSame
  <1>1. PacksInv => AsksTheSame
    <2> SUFFICES ASSUME PacksInv, panel # None
                 PROVE  AsksTheSame
      BY DEF AsksTheSame
    <2> DEFINE pack == DraftPack(panel)
               known == {n \in Names : panel.params[n] # None}
               vs == [n \in Names |-> IF n \in known THEN panel.params[n].value.text ELSE "unset"]
               lists == [n \in Names |-> IF n \in known /\ pack.params[n].query # None
                           THEN [query |-> pack.params[n].query, items |-> {panel.params[n].value.text}]
                           ELSE NoList]
               again == SpecFromForm(None, pack, vs, lists)
    <2>1. panel \in CodeSpecs
      BY DEF PacksInv, PanelInv
    <2>2. \A n \in known : n \in Names /\ panel.params[n] \in SpecBindings
      BY <2>1, CodeSpecsAreDrafted DEF CodeSpec, SpecBindings
    <2>3. pack # None
      BY <2>1, CodeSpecsAreDrafted, NoneIsNoPack
    <2>4. ASSUME NEW n \in known
          PROVE  /\ again.params[n].value = panel.params[n].value
                 /\ panel.params[n].source = "tool" /\ panel.params[n].evidence \in Usable =>
                      again.params[n].source = "tool" /\ again.params[n].evidence = panel.params[n].evidence
                 /\ panel.params[n].source = "default" => again.params[n].source = "default"
                 /\ again.params[n].source = "tool" => panel.params[n].source = "tool"
      <3> DEFINE b == panel.params[n]
      <3>1. b \in SpecBindings /\ n \in Names /\ b # None
        BY <2>2
      <3>2. pack.params[n] = DraftParameter(b)
        BY <3>1 DEF DraftPack
      <3>3. pack.params[n] # None
        BY <3>1, <3>2, DraftFields, NoneIsNoPack
      <3>4. /\ b.value.as = "number" => b.value.text \in Numerals
            /\ b.value.as = "bool" => b.value.text = IF b.value.text \in Truthy THEN "true" ELSE "false"
        BY <2>1, <3>1, SpecValuesAreTyped
      <3>5. vs[n] = b.value.text /\ b.value.text \in Texts
        BY <3>1 DEF SpecBindings
      <3>6. lists[n] = IF DraftParameter(b).query # None
                         THEN [query |-> DraftParameter(b).query, items |-> {b.value.text}] ELSE NoList
        BY <3>1, <3>2
      <3> HIDE DEF pack, vs, lists
      <3>7. n \in Bound(pack, vs)
        BY <2>3, <3>1, <3>3, <3>5 DEF Bound, ParamsOf
      <3>8. again.params[n] = Binding(DraftParameter(b), b.value.text, lists[n])
        BY <3>1, <3>2, <3>5, <3>7 DEF SpecFromForm
      <3> HIDE DEF b, again
      <3> QED
        BY <3>1, <3>4, <3>6, <3>8, BoundAgain DEF b
    <2> QED
      BY <2>4, Zenon DEF AsksTheSame
  <1> QED
    BY <1>1, Invariance, PTL
=============================================================================
