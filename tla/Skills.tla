------------------------------- MODULE Skills -------------------------------
(***************************************************************************)
(* The skills page (SkillsView.tsx, api/skills.ts) and the store behind it *)
(* (backend/skill_store.py, backend/api/skills.py).                        *)
(*                                                                         *)
(* The store is synchronous code called from coroutines: each request is   *)
(* served in one step.  The page shows the list it read last; what changes *)
(* the store asks for the list again, but the answers may cross, be lost,  *)
(* or come when the dialog that asked has been closed or opened anew.  The *)
(* designer has the admin password, without which the page only reads.     *)
(***************************************************************************)
EXTENDS Naturals, FiniteSets

CONSTANTS
  Ids,           \* ids of files
  Builtin,       \* the ids of the package's own skills, read-only
  Installed,     \* the skills there are at first
  Titles,        \* names a skill may be given
  Slug,          \* Slug[title]: the id made from it
  Nth,           \* Nth[id][n]: the id with "-n" behind it
  MaxMade,       \* bound: skills created
  MaxRequests,   \* bound: requests under way
  None

\* More suffixes than there can be files.
Suffixes == 2..(MaxMade + Cardinality(Installed) + 1)

ASSUME SlugsAreIds ==
  /\ Builtin \subseteq Installed /\ Installed \subseteq Ids /\ None \notin Ids
  /\ Slug \in [Titles -> Ids \ Builtin]
  /\ MaxMade \in Nat /\ MaxRequests \in Nat
  /\ None \notin [enabled : BOOLEAN, by : Nat]
  /\ IsFiniteSet(Installed)
  /\ Nth \in [Ids -> [Suffixes -> Ids \ Builtin]]
  /\ \A i \in Ids : \A m, n \in Suffixes : Nth[i][m] = Nth[i][n] => m = n

VARIABLES
  store,      \* the skills: enabled, and which creation wrote it; None for no file
  made,       \* how many skills were created
  skills,     \* what the page lists: enabled or not
  loading,
  view,       \* the skill in the dialog, or None
  adding,     \* the dialog "New skill": "closed", "open", "saving"
  importing,  \* the dialog "Import": "closed", "open", "busy", "done"
  requests,
  excused     \* history: the list may have missed a change

storeVars == <<store, made>>
dialogs == <<view, adding, importing>>
vars == <<storeVars, skills, loading, dialogs, requests, excused>>

Skill == [enabled : BOOLEAN, by : 0..MaxMade]
Listing == [Ids -> {"on", "off", "none"}]

Listed(s) ==
  [i \in Ids |-> IF s[i] = None THEN "none" ELSE IF s[i].enabled THEN "on" ELSE "off"]

\* `on': enabled or not; `over': the front matter of the file that is imported
\* has `_overwrite'; `live': the dialog that asked is still the one that is open;
\* `closes': the list is the one after a deletion, at whose end the view is closed.
Request(kind, id, on, title) ==
  [kind |-> kind, id |-> id, on |-> on, title |-> title, over |-> FALSE,
   served |-> FALSE, ok |-> FALSE, list |-> [i \in Ids |-> "none"], live |-> TRUE, closes |-> FALSE]

Room == Cardinality(requests) < MaxRequests

\* refresh().
AskList(others, closes) ==
  /\ loading' = TRUE
  /\ requests' = others \union {[Request("list", None, FALSE, None) EXCEPT !.closes = closes]}

Overlaps == \E r \in requests : r.kind = "list"

Init ==
  /\ store = [i \in Ids |-> IF i \in Installed THEN [enabled |-> TRUE, by |-> 0] ELSE None]
  /\ made = 0
  /\ skills = [i \in Ids |-> "none"] /\ loading = TRUE
  /\ view = None /\ adding = "closed" /\ importing = "closed"
  /\ requests = {Request("list", None, FALSE, None)}
  /\ excused = FALSE

-----------------------------------------------------------------------------
(* skill_store.py.                                                           *)

\* Mutant: the file of the name is written, whether it is there or not.
FreeIdOverwriting(id, over) == id

\* save(): the id of the name if it is free or to be overwritten, else the first
\* free one behind it.
FreeId(id, over) ==
  IF store[id] = None \/ over THEN id
  ELSE LET free == {n \in Suffixes : store[Nth[id][n]] = None}
       IN Nth[id][CHOOSE n \in free : \A m \in free : n <= m]

Served(r, ok, list) ==
  requests' = (requests \ {r}) \union {[r EXCEPT !.served = TRUE, !.ok = ok, !.list = list]}

\* POST / and POST /import end in save() with the id made from the name.  Of what a
\* form says only known fields arrive; what an imported file says arrives as it is.
ServeCreate(r) ==
  /\ r.kind \in {"add", "upload", "import"} /\ made < MaxMade
  /\ made' = made + 1
  /\ store' = [store EXCEPT ![FreeId(Slug[r.title], r.over)] = [enabled |-> r.on, by |-> made + 1]]
  /\ Served(r, TRUE, r.list)

\* PATCH, which is update(): what is not there or read-only is a 404, else save()
\* overwrites the file with what it was, but for `enabled'.
ServeToggle(r) ==
  /\ r.kind = "toggle"
  /\ IF store[r.id] # None /\ r.id \notin Builtin
       THEN /\ store' = [store EXCEPT ![FreeId(r.id, TRUE)] = [store[r.id] EXCEPT !.enabled = r.on]]
            /\ Served(r, TRUE, r.list)
       ELSE UNCHANGED store /\ Served(r, FALSE, r.list)
  /\ UNCHANGED made

ServeDelete(r) ==
  /\ r.kind = "delete"
  /\ IF store[r.id] # None /\ r.id \notin Builtin
       THEN store' = [store EXCEPT ![r.id] = None] /\ Served(r, TRUE, r.list)
       ELSE UNCHANGED store /\ Served(r, FALSE, r.list)
  /\ UNCHANGED made

ServeRead(r) ==
  /\ r.kind \in {"list", "get"}
  /\ Served(r, r.kind = "list" \/ store[r.id] # None, IF r.kind = "list" THEN Listed(store) ELSE r.list)
  /\ UNCHANGED storeVars

Serve(r) ==
  /\ ~r.served
  /\ ServeCreate(r) \/ ServeToggle(r) \/ ServeDelete(r) \/ ServeRead(r)
  /\ UNCHANGED <<skills, loading, dialogs, excused>>

-----------------------------------------------------------------------------
(* The page.                                                                 *)

Ask(r) == Room /\ requests' = requests \union {r}

\* The cards are not there while the list is loading.
ClickCard(id) ==
  /\ ~loading /\ skills[id] # "none"
  /\ Ask(Request("get", id, FALSE, None))
  /\ UNCHANGED <<storeVars, skills, loading, dialogs, excused>>

Toggle(id) ==
  /\ ~loading /\ skills[id] # "none" /\ id \notin Builtin
  /\ Ask(Request("toggle", id, skills[id] = "off", None))
  /\ UNCHANGED <<storeVars, skills, loading, dialogs, excused>>

Delete ==
  /\ view # None /\ view \notin Builtin
  /\ Ask(Request("delete", view, FALSE, None))
  /\ UNCHANGED <<storeVars, skills, loading, dialogs, excused>>

CloseView ==
  /\ view # None /\ view' = None
  /\ UNCHANGED <<storeVars, skills, loading, adding, importing, requests, excused>>

Upload(title) ==
  /\ Ask(Request("upload", None, TRUE, title))
  /\ UNCHANGED <<storeVars, skills, loading, dialogs, excused>>

\* The dialogs.  Cancel and a click beside them are open at any time; what was
\* asked goes on.
Orphaned(kind) == {[r EXCEPT !.live = r.live /\ r.kind # kind] : r \in requests}

OpenAdd ==
  /\ adding = "closed" /\ adding' = "open"
  /\ UNCHANGED <<storeVars, skills, loading, view, importing, requests, excused>>

Add(title) ==
  /\ adding = "open" /\ adding' = "saving"
  /\ Ask(Request("add", None, TRUE, title))
  /\ UNCHANGED <<storeVars, skills, loading, view, importing, excused>>

CloseAdd ==
  /\ adding # "closed" /\ adding' = "closed" /\ requests' = Orphaned("add")
  /\ UNCHANGED <<storeVars, skills, loading, view, importing, excused>>

OpenImport ==
  /\ importing = "closed" /\ importing' = "open"
  /\ UNCHANGED <<storeVars, skills, loading, view, adding, requests, excused>>

\* The button is disabled while one is under way; the Enter key is not.  What the
\* fetched file says is anybody's choice.
Import(title) ==
  /\ importing \in {"open", "busy"} /\ importing' = "busy"
  /\ \E on, over \in BOOLEAN : Ask([Request("import", None, on, title) EXCEPT !.over = over])
  /\ UNCHANGED <<storeVars, skills, loading, view, adding, excused>>

\* Only Done asks for the list.
CloseImport ==
  /\ importing # "closed" /\ importing' = "closed" /\ requests' = Orphaned("import")
  /\ excused' = (excused \/ importing = "done" \/ \E r \in requests : r.kind = "import")
  /\ UNCHANGED <<storeVars, skills, loading, view, adding>>

ImportDone ==
  /\ importing = "done" /\ importing' = "closed"
  /\ AskList(Orphaned("import"), FALSE)
  /\ excused' = (excused \/ Overlaps \/ \E r \in requests : r.kind = "import")
  /\ UNCHANGED <<storeVars, skills, view, adding>>

-----------------------------------------------------------------------------
(* The answers.                                                              *)

\* The list is read; whichever refresh ends first shows the cards again.
GotList(r) ==
  /\ r.kind = "list" /\ r.served
  /\ skills' = r.list /\ loading' = FALSE /\ requests' = requests \ {r}
  /\ view' = IF r.closes THEN None ELSE view
  /\ excused' = (excused /\ ~(requests = {r} /\ r.list = Listed(store)))
  /\ UNCHANGED <<storeVars, adding, importing>>

ListFailed(r) ==
  /\ r.kind = "list"
  /\ loading' = FALSE /\ requests' = requests \ {r} /\ excused' = TRUE
  /\ view' = IF r.closes THEN None ELSE view
  /\ UNCHANGED <<storeVars, skills, adding, importing>>

GotView(r) ==
  /\ r.kind = "get" /\ requests' = requests \ {r}
  /\ view' \in {view} \union (IF r.served /\ r.ok THEN {r.id} ELSE {})
  /\ UNCHANGED <<storeVars, skills, loading, adding, importing, excused>>

\* Mutant: the list is asked for together with the change.
GuardedUnrefreshed(r) ==
  /\ r.kind \in {"toggle", "upload", "delete"} /\ r.served /\ r.ok
  /\ requests' = requests \ {r}
  /\ UNCHANGED <<storeVars, skills, loading, dialogs, excused>>

\* guard(): the list after the change.
Guarded(r) ==
  /\ r.kind \in {"toggle", "upload", "delete"} /\ r.served /\ r.ok
  /\ AskList(requests \ {r}, r.kind = "delete")
  /\ excused' = (excused \/ Overlaps)
  /\ UNCHANGED <<storeVars, skills, dialogs>>

\* guard() keeps the failure to itself: the view is closed as if it was deleted.
GuardFailed(r) ==
  /\ r.kind \in {"toggle", "upload", "delete"}
  /\ requests' = requests \ {r}
  /\ view' = IF r.kind = "delete" THEN None ELSE view
  /\ excused' = (excused \/ r.served)
  /\ UNCHANGED <<storeVars, skills, loading, adding, importing>>

\* onSaved() closes the dialog that is open by now.
Added(r) ==
  /\ r.kind = "add" /\ r.served /\ adding' = "closed"
  /\ AskList({[q EXCEPT !.live = q.live /\ q.kind # "add"] : q \in requests \ {r}}, FALSE)
  /\ excused' = (excused \/ Overlaps)
  /\ UNCHANGED <<storeVars, skills, view, importing>>

AddFailed(r) ==
  /\ r.kind = "add" /\ requests' = requests \ {r}
  /\ adding' = IF r.live THEN "open" ELSE adding
  /\ excused' = (excused \/ r.served)
  /\ UNCHANGED <<storeVars, skills, loading, view, importing>>

\* A second import under way may end after the first is shown.
Imported(r) ==
  /\ r.kind = "import" /\ r.served /\ requests' = requests \ {r}
  /\ importing' = IF r.live THEN "done" ELSE importing
  /\ UNCHANGED <<storeVars, skills, loading, view, adding, excused>>

ImportFailed(r) ==
  /\ r.kind = "import" /\ requests' = requests \ {r}
  /\ importing' = IF r.live /\ importing # "done" THEN "open" ELSE importing
  /\ excused' = (excused \/ r.served)
  /\ UNCHANGED <<storeVars, skills, loading, view, adding>>

-----------------------------------------------------------------------------
Read(r) ==
  \/ GotList(r) \/ ListFailed(r) \/ GotView(r) \/ Guarded(r) \/ GuardFailed(r)
  \/ Added(r) \/ AddFailed(r) \/ Imported(r) \/ ImportFailed(r)

Designer ==
  \/ \E id \in Ids : ClickCard(id) \/ Toggle(id)
  \/ \E title \in Titles : Upload(title) \/ Add(title) \/ Import(title)
  \/ Delete \/ CloseView \/ OpenAdd \/ CloseAdd \/ OpenImport \/ CloseImport \/ ImportDone

Next == Designer \/ \E r \in requests : Serve(r) \/ Read(r)

Spec == Init /\ [][Next]_vars

-----------------------------------------------------------------------------
(* Properties.                                                               *)

TypeOK ==
  /\ store \in [Ids -> Skill \union {None}] /\ made \in 0..MaxMade
  /\ skills \in Listing /\ loading \in BOOLEAN /\ excused \in BOOLEAN
  /\ view \in Ids \union {None}
  /\ adding \in {"closed", "open", "saving"} /\ importing \in {"closed", "open", "busy", "done"}
  /\ requests \subseteq
       [kind : {"list", "get", "toggle", "delete", "upload", "add", "import"}, id : Ids \union {None},
        on : BOOLEAN, title : Titles \union {None}, over : BOOLEAN, served : BOOLEAN, ok : BOOLEAN,
        list : Listing, live : BOOLEAN, closes : BOOLEAN]

\* The skills whose file another one has been written into.
Replaced ==
  {i \in Ids : store[i] # None /\ store'[i] # None /\ store'[i].by # store[i].by}

New == {i \in Ids : store[i] = None /\ store'[i] # None}

\* However names and suffixes collide, and whatever is deleted between two creations, a
\* creation writes one file and no skill takes the place of another, with one exception:
\* an imported file that asks for it is written over the skill of its own name, never
\* over one that has the name with a suffix.  To switch a skill makes no second one of
\* it, and the package's own are never touched.
NothingOverwritten ==
  [][/\ \A i \in Replaced :
          \E r \in requests : r.kind = "import" /\ r.over /\ ~r.served /\ Slug[r.title] = i
     /\ Cardinality(Replaced \union New) = made' - made
     /\ \A i \in Builtin : store'[i] = store[i]]_vars

\* When nothing is under way or waits for Done the page lists what the store has, unless one of
\* four things happened since: two refreshes overlapped, one failed, a change
\* was made whose answer was lost, or an import was closed without Done.
ListIsCurrent ==
  requests = {} /\ importing # "done" /\ ~excused => skills = Listed(store)

\* The cards come back: there is no "Loading..." without a list under way.
LoadingIsAsked == loading => Overlaps
=============================================================================
