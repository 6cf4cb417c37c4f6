---------------------------- MODULE SkillsProofs -----------------------------
(***************************************************************************)
(* The skill store overwrites no skill unless an imported file asks it to, *)
(* for any names, any way they collide and any number of requests; the     *)
(* page waits for no list it has not asked for, and once it is quiet it    *)
(* lists what the store has.                                               *)
(***************************************************************************)
EXTENDS Skills, FiniteSetTheorems, WellFoundedInduction, TLAPS

Creates == {"add", "upload", "import"}
OfOneSkill == {"get", "toggle", "delete"}

Kinds == Creates \union OfOneSkill \union {"list"}

Requests ==
  [kind : Kinds, id : Ids \union {None}, on : BOOLEAN, title : Titles \union {None},
   over : BOOLEAN, served : BOOLEAN, ok : BOOLEAN, list : Listing, live : BOOLEAN, closes : BOOLEAN]

\* A request names the skill it is about, or the title of the one it creates; only an
\* imported file can ask to be written over another.
WellAsked(r) ==
  /\ r.kind \in Creates => r.title \in Titles
  /\ r.kind \in OfOneSkill => r.id \in Ids
  /\ r.over => r.kind = "import"

Occupied == {i \in Ids : store[i] # None}

\* There are never more skills than were there and were made.
FewSkills == IsFiniteSet(Occupied) /\ Cardinality(Occupied) <= made + Cardinality(Installed)

\* Every file was written by a creation there has been.
StoreOK ==
  /\ store \in [Ids -> Skill \union {None}] /\ made \in 0..MaxMade
  /\ \A i \in Ids : store[i] # None => store[i].by <= made

PageOK ==
  /\ skills \in Listing /\ loading \in BOOLEAN /\ excused \in BOOLEAN
  /\ view \in Ids \union {None}
  /\ adding \in {"closed", "open", "saving"} /\ importing \in {"closed", "open", "busy", "done"}

RequestsOK == \A r \in requests : r \in Requests /\ WellAsked(r)

\* The inductive invariant.
SkillsInv == StoreOK /\ PageOK /\ RequestsOK /\ FewSkills /\ LoadingIsAsked

-----------------------------------------------------------------------------
(* save() always finds a free id.                                            *)

LEMMA SuffixesAreEnough ==
  /\ Cardinality(Installed) \in Nat
  /\ IsFiniteSet(Suffixes) /\ Cardinality(Suffixes) = MaxMade + Cardinality(Installed)
  <1>1. Cardinality(Installed) \in Nat
    <2>1. IsFiniteSet(Installed)
      BY SlugsAreIds
    <2> QED
      BY <2>1, FS_CardinalityType
  <1>2. MaxMade + Cardinality(Installed) + 1 \in Int /\ 2 \in Int
    BY <1>1, SlugsAreIds
  <1>3. /\ IsFiniteSet(Suffixes)
        /\ Cardinality(Suffixes) = IF 2 > MaxMade + Cardinality(Installed) + 1 THEN 0
                                   ELSE (MaxMade + Cardinality(Installed) + 1) - 2 + 1
    BY <1>2, FS_Interval DEF Suffixes
  <1>4. MaxMade \in Nat
    BY SlugsAreIds
  <1>5. MaxMade + Cardinality(Installed) =
          IF 2 > MaxMade + Cardinality(Installed) + 1 THEN 0
          ELSE (MaxMade + Cardinality(Installed) + 1) - 2 + 1
    BY <1>1, <1>4
  <1> QED
    BY <1>1, <1>3, <1>5

LEMMA LeastOf == ASSUME NEW S, S \subseteq Nat, IsFiniteSet(S), S # {}
                 PROVE  \E n \in S : \A m \in S : n <= m
  <1> DEFINE Below(n) == {m \in S : m < n}
             Sets == {Below(n) : n \in S}
  <1>1. Sets \subseteq FiniteSubsetsOf(S) /\ Sets # {}
    <2>1. FiniteSubsetsOf(S) = SUBSET S
      BY FS_FiniteSubsetsOfFinite
    <2>2. Sets \subseteq SUBSET S
      OBVIOUS
    <2>3. PICK n \in S : TRUE
      OBVIOUS
    <2>4. Below(n) \in Sets
      OBVIOUS
    <2> HIDE DEF Sets
    <2> QED
      BY <2>1, <2>2, <2>4
  <1>2. \E x \in Sets : \A y \in Sets : ~ (<<y, x>> \in StrictSubsetOrdering(S))
    <2> HIDE DEF Sets
    <2> QED
      BY <1>1, WFMin, FS_StrictSubsetOrderingWellFounded
  <1>3. PICK n \in S : \A m \in S : ~ (<<Below(m), Below(n)>> \in StrictSubsetOrdering(S))
    BY <1>2
  <1>4. ASSUME NEW m \in S, m < n
        PROVE  FALSE
    <2>1. m \in Below(n) /\ m \notin Below(m)
      BY <1>4
    <2>2. Below(m) \subseteq Below(n)
      <3>1. \A k \in S : k \in Nat
        OBVIOUS
      <3>2. \A k \in S : k < m => k < n
        BY <1>4, <3>1
      <3> QED
        BY <3>2
    <2>3. <<Below(m), Below(n)>> \in StrictSubsetOrdering(S)
      BY <2>1, <2>2 DEF StrictSubsetOrdering
    <2> QED
      BY <1>3, <2>3
  <1> QED
    BY <1>4

LEMMA FreeIdIsFree ==
  ASSUME StoreOK, FewSkills, made < MaxMade, NEW id \in Ids \ Builtin, NEW over \in BOOLEAN
  PROVE  /\ FreeId(id, over) \in Ids \ Builtin
         /\ store[FreeId(id, over)] = None \/ (over /\ FreeId(id, over) = id)
  <1>1. CASE store[id] = None \/ over
    BY <1>1 DEF FreeId
  <1>2. CASE ~(store[id] = None \/ over)
    <2> DEFINE free == {n \in Suffixes : store[Nth[id][n]] = None}
    <2>1. free # {}
      <3> SUFFICES ASSUME free = {}
                   PROVE  FALSE
        OBVIOUS
      <3>1. Nth[id] \in [Suffixes -> Ids \ Builtin] /\ \A m, n \in Suffixes : Nth[id][m] = Nth[id][n] => m = n
        BY SlugsAreIds
      <3>2. \A n \in Suffixes : Nth[id][n] \in Occupied
        BY <3>1 DEF Occupied
      <3>3. Nth[id] \in Injection(Suffixes, Occupied)
        BY <3>1, <3>2 DEF Injection, IsInjective
      <3>4. Cardinality(Suffixes) <= Cardinality(Occupied)
        BY <3>3, FS_Injection DEF FewSkills
      <3>5. Cardinality(Occupied) \in Nat
        BY FS_CardinalityType DEF FewSkills
      <3> QED
        BY <3>4, <3>5, SuffixesAreEnough, SlugsAreIds DEF FewSkills, StoreOK
    <2>2. free \subseteq Nat /\ IsFiniteSet(free)
      <3>1. free \subseteq Suffixes /\ Suffixes \subseteq Nat
        BY DEF Suffixes
      <3> QED
        BY <3>1, SuffixesAreEnough, FS_Subset
    <2>3. \E n \in free : \A m \in free : n <= m
      <3> HIDE DEF free
      <3> QED
        BY <2>1, <2>2, LeastOf
    <2> DEFINE n == CHOOSE n \in free : \A m \in free : n <= m
    <2>4. n \in free
      BY <2>3
    <2>5. FreeId(id, over) = Nth[id][n]
      BY <1>2 DEF FreeId
    <2>6. n \in Suffixes /\ store[Nth[id][n]] = None
      BY <2>4
    <2>7. Nth[id][n] \in Ids \ Builtin
      <3> HIDE DEF n
      <3> QED
        BY <2>6, SlugsAreIds
    <2> QED
      BY <2>5, <2>6, <2>7
  <1> QED
    BY <1>1, <1>2
-----------------------------------------------------------------------------
(* Requests.                                                                 *)

LEMMA RequestIsTyped ==
  ASSUME NEW kind \in Kinds, NEW id \in Ids \union {None}, NEW on \in BOOLEAN,
         NEW title \in Titles \union {None}, NEW closes \in BOOLEAN,
         kind \in Creates => title \in Titles, kind \in OfOneSkill => id \in Ids
  PROVE  LET r == [Request(kind, id, on, title) EXCEPT !.closes = closes]
         IN r \in Requests /\ WellAsked(r)
  <1>1. [i \in Ids |-> "none"] \in Listing
    BY DEF Listing
  <1> QED
    BY <1>1 DEF Request, Requests, WellAsked

LEMMA RequestIsTyped2 ==
  ASSUME NEW kind \in Kinds, NEW id \in Ids \union {None}, NEW on \in BOOLEAN,
         NEW title \in Titles \union {None},
         kind \in Creates => title \in Titles, kind \in OfOneSkill => id \in Ids
  PROVE  Request(kind, id, on, title) \in Requests /\ WellAsked(Request(kind, id, on, title))
  <1>1. [i \in Ids |-> "none"] \in Listing
    BY DEF Listing
  <1> QED
    BY <1>1 DEF Request, Requests, WellAsked

LEMMA ImportIsTyped ==
  ASSUME NEW title \in Titles, NEW on \in BOOLEAN, NEW over \in BOOLEAN
  PROVE  LET r == [Request("import", None, on, title) EXCEPT !.over = over]
         IN r \in Requests /\ WellAsked(r)
  <1>1. [i \in Ids |-> "none"] \in Listing
    BY DEF Listing
  <1> QED
    BY <1>1 DEF Request, Requests, WellAsked, Kinds, Creates, OfOneSkill

LEMMA ServedIsTyped ==
  ASSUME NEW r \in Requests, WellAsked(r), NEW ok \in BOOLEAN, NEW list \in Listing
  PROVE  LET s == [r EXCEPT !.served = TRUE, !.ok = ok, !.list = list]
         IN s \in Requests /\ WellAsked(s)
  BY DEF Requests, WellAsked

LEMMA OrphanIsTyped ==
  ASSUME NEW r \in Requests, WellAsked(r), NEW live \in BOOLEAN
  PROVE  LET s == [r EXCEPT !.live = live]
         IN s \in Requests /\ WellAsked(s)
  BY DEF Requests, WellAsked
-----------------------------------------------------------------------------
(* The store.                                                                *)

Untouched ==
  /\ \A i \in Replaced :
       \E r \in requests : r.kind = "import" /\ r.over /\ ~r.served /\ Slug[r.title] = i
  /\ Cardinality(Replaced \union New) = made' - made
  /\ \A i \in Builtin : store'[i] = store[i]

\* A step after which every file is by who wrote it, and none is new.
LEMMA NoneWritten ==
  ASSUME StoreOK, made' = made, \A i \in Builtin : store'[i] = store[i],
         \A i \in Ids : store'[i] # None => store[i] # None /\ store'[i].by = store[i].by
  PROVE  Untouched
  <1>1. Replaced = {} /\ New = {}
    BY DEF Replaced, New
  <1>2. Cardinality(Replaced \union New) = 0
    BY <1>1, FS_EmptySet
  <1>3. made' - made = 0
    BY SlugsAreIds DEF StoreOK
  <1> QED
    BY <1>1, <1>2, <1>3 DEF Untouched

LEMMA CreateKeepsStore ==
  ASSUME StoreOK, FewSkills, RequestsOK, NEW r \in requests, ~r.served, ServeCreate(r)
  PROVE  StoreOK' /\ FewSkills' /\ Untouched
  <1> DEFINE id == FreeId(Slug[r.title], r.over)
             new == [enabled |-> r.on, by |-> made + 1]
  <1>1. /\ Slug[r.title] \in Ids \ Builtin /\ r.over \in BOOLEAN /\ r.on \in BOOLEAN
        /\ r.over => r.kind = "import"
    BY SlugsAreIds DEF RequestsOK, WellAsked, ServeCreate, Creates, Requests
  <1>2. id \in Ids \ Builtin /\ (store[id] = None \/ (r.over /\ id = Slug[r.title]))
    <2>1. made < MaxMade
      BY DEF ServeCreate
    <2> QED
      BY <1>1, <2>1, FreeIdIsFree
  <1>3. store' = [store EXCEPT ![id] = new] /\ made' = made + 1 /\ made < MaxMade
    BY DEF ServeCreate
  <1> HIDE DEF id
  <1>4. MaxMade \in Nat /\ made \in 0..MaxMade /\ made' \in 0..MaxMade
    BY <1>3, SlugsAreIds DEF StoreOK
  <1>5. new \in Skill /\ new # None /\ new.by = made + 1
    BY <1>1, <1>3, <1>4, SlugsAreIds DEF Skill
  <1>6. store'[id] = new /\ \A i \in Ids : i # id => store'[i] = store[i]
    BY <1>2, <1>3 DEF StoreOK
  <1>7. StoreOK'
    <2>1. store' \in [Ids -> Skill \union {None}]
      BY <1>3, <1>5 DEF StoreOK
    <2>2. ASSUME NEW i \in Ids, store'[i] # None
          PROVE  store'[i].by <= made'
      <3>1. CASE i = id
        BY <1>3, <1>4, <1>5, <1>6, <3>1
      <3>2. CASE i # id
        <4>1. store'[i] = store[i] /\ store[i].by <= made
          BY <1>6, <2>2, <3>2 DEF StoreOK
        <4>2. store[i].by \in Nat
          BY <2>2, <4>1 DEF StoreOK, Skill
        <4> QED
          BY <1>3, <1>4, <4>1, <4>2
      <3> QED
        BY <3>1, <3>2
    <2> QED
      BY <1>4, <2>1, <2>2 DEF StoreOK
  <1>8. Untouched
    <2>1. Replaced \subseteq {id} /\ New \subseteq {id}
      BY <1>6 DEF Replaced, New
    <2>2. id \in Replaced => r.kind = "import" /\ r.over /\ Slug[r.title] = id
      BY <1>1, <1>2 DEF Replaced
    <2>3. store[id] # None => store[id].by # made + 1
      <3> SUFFICES ASSUME store[id] # None
                   PROVE  store[id].by # made + 1
        OBVIOUS
      <3>1. store[id].by <= made /\ store[id].by \in Nat
        BY <1>2 DEF StoreOK, Skill
      <3> QED
        BY <1>4, <3>1
    <2>4. id \in Replaced \union New
      BY <1>2, <1>5, <1>6, <2>3 DEF Replaced, New
    <2>5. Replaced \union New = {id}
      BY <2>1, <2>4
    <2>6. Cardinality(Replaced \union New) = made' - made
      <3>1. Cardinality({id}) = 1
        BY FS_Singleton
      <3>2. made' - made = 1
        BY <1>3, <1>4
      <3> QED
        BY <2>5, <3>1, <3>2
    <2>7. \A i \in Builtin : store'[i] = store[i]
      BY <1>2, <1>6, SlugsAreIds
    <2> QED
      BY <2>1, <2>2, <2>6, <2>7 DEF Untouched
  <1>9. FewSkills'
    <2>1. IsFiniteSet(Occupied \union {id}) /\ Cardinality(Occupied \union {id}) <= Cardinality(Occupied) + 1
      <3>1. /\ IsFiniteSet(Occupied \union {id})
            /\ \/ Cardinality(Occupied \union {id}) = Cardinality(Occupied)
               \/ Cardinality(Occupied \union {id}) = Cardinality(Occupied) + 1
        BY FS_AddElement DEF FewSkills
      <3>2. Cardinality(Occupied) \in Nat
        BY FS_CardinalityType DEF FewSkills
      <3> QED
        BY <3>1, <3>2
    <2>2. Occupied' \subseteq Occupied \union {id}
      BY <1>6 DEF Occupied
    <2>3. IsFiniteSet(Occupied') /\ Cardinality(Occupied') <= Cardinality(Occupied \union {id})
      BY <2>1, <2>2, FS_Subset
    <2>4. /\ Cardinality(Occupied') \in Nat /\ Cardinality(Occupied) \in Nat
          /\ Cardinality(Occupied \union {id}) \in Nat
      BY <2>1, <2>3, FS_CardinalityType DEF FewSkills
    <2> QED
      BY <1>3, <1>4, <2>1, <2>3, <2>4, SuffixesAreEnough DEF FewSkills
  <1> QED
    BY <1>7, <1>8, <1>9

LEMMA FewerIsFew ==
  ASSUME StoreOK, FewSkills, Occupied' \subseteq Occupied, made' = made
  PROVE  FewSkills'
  <1>1. IsFiniteSet(Occupied') /\ Cardinality(Occupied') <= Cardinality(Occupied)
    BY FS_Subset DEF FewSkills
  <1>2. Cardinality(Occupied') \in Nat /\ Cardinality(Occupied) \in Nat
    BY <1>1, FS_CardinalityType DEF FewSkills
  <1>3. Cardinality(Occupied) <= made + Cardinality(Installed) /\ made \in Nat
    BY SlugsAreIds DEF FewSkills, StoreOK
  <1>4. Cardinality(Occupied') <= made + Cardinality(Installed)
    BY <1>1, <1>2, <1>3, SuffixesAreEnough
  <1> QED
    BY <1>1, <1>4 DEF FewSkills

LEMMA SameStore ==
  ASSUME StoreOK, FewSkills, UNCHANGED storeVars
  PROVE  StoreOK' /\ FewSkills' /\ Untouched
  <1>1. StoreOK' /\ FewSkills'
    BY FewerIsFew DEF storeVars, StoreOK, Occupied
  <1>2. Untouched
    BY NoneWritten DEF storeVars
  <1> QED
    BY <1>1, <1>2

LEMMA ToggleKeepsStore ==
  ASSUME StoreOK, FewSkills, RequestsOK, NEW r \in requests, ServeToggle(r)
  PROVE  StoreOK' /\ FewSkills' /\ Untouched
  <1>1. r.id \in Ids /\ r.on \in BOOLEAN
    BY DEF RequestsOK, WellAsked, ServeToggle, OfOneSkill, Requests
  <1>2. made' = made
    BY DEF ServeToggle
  <1>3. CASE UNCHANGED store
    BY <1>2, <1>3, SameStore DEF storeVars
  <1>4. CASE /\ store[r.id] # None /\ r.id \notin Builtin
             /\ store' = [store EXCEPT ![FreeId(r.id, TRUE)] = [store[r.id] EXCEPT !.enabled = r.on]]
    <2> DEFINE now == [store[r.id] EXCEPT !.enabled = r.on]
    <2>1. store[r.id] \in Skill
      BY <1>1, <1>4 DEF StoreOK
    <2>2. now \in Skill /\ now.by = store[r.id].by
      BY <1>1, <2>1 DEF Skill
    <2>3. FreeId(r.id, TRUE) = r.id
      BY DEF FreeId
    <2>4. store' = [store EXCEPT ![r.id] = now]
      BY <1>4, <2>3
    <2> HIDE DEF now
    <2>5. store'[r.id] = now /\ \A i \in Ids : i # r.id => store'[i] = store[i]
      BY <1>1, <2>4 DEF StoreOK
    <2>6. Occupied' \subseteq Occupied
      BY <1>4, <2>5 DEF Occupied
    <2>7. \A i \in Ids : store'[i] # None => store[i] # None /\ store'[i].by = store[i].by
      BY <1>4, <2>2, <2>5
    <2>8. StoreOK'
      BY <1>2, <2>2, <2>4, <2>7 DEF StoreOK
    <2>9. \A i \in Builtin : store'[i] = store[i]
      BY <1>4, <2>5, SlugsAreIds
    <2> QED
      BY <1>2, <2>6, <2>7, <2>8, <2>9, FewerIsFew, NoneWritten
  <1> QED
    BY <1>3, <1>4 DEF ServeToggle

LEMMA DeleteKeepsStore ==
  ASSUME StoreOK, FewSkills, RequestsOK, NEW r \in requests, ServeDelete(r)
  PROVE  StoreOK' /\ FewSkills' /\ Untouched
  <1>1. r.id \in Ids
    BY DEF RequestsOK, WellAsked, ServeDelete, OfOneSkill
  <1>2. made' = made
    BY DEF ServeDelete
  <1>3. CASE UNCHANGED store
    BY <1>2, <1>3, SameStore DEF storeVars
  <1>4. CASE r.id \notin Builtin /\ store' = [store EXCEPT ![r.id] = None]
    <2>1. store'[r.id] = None /\ \A i \in Ids : i # r.id => store'[i] = store[i]
      BY <1>1, <1>4 DEF StoreOK
    <2>2. Occupied' \subseteq Occupied
      BY <2>1 DEF Occupied
    <2>3. \A i \in Ids : store'[i] # None => store[i] # None /\ store'[i] = store[i]
      BY <2>1
    <2>4. StoreOK'
      BY <1>2, <1>4, <2>3 DEF StoreOK
    <2>5. \A i \in Builtin : store'[i] = store[i]
      BY <1>4, <2>1, SlugsAreIds
    <2>6. Untouched
      BY <1>2, <2>3, <2>5, NoneWritten
    <2> QED
      BY <1>2, <2>2, <2>4, <2>6, FewerIsFew
  <1> QED
    BY <1>3, <1>4 DEF ServeDelete

LEMMA StoreStep ==
  ASSUME StoreOK, FewSkills, RequestsOK, [Next]_vars
  PROVE  StoreOK' /\ FewSkills' /\ Untouched
  <1>1. ASSUME NEW r \in requests, Serve(r)
        PROVE  StoreOK' /\ FewSkills' /\ Untouched
    <2>1. ServeRead(r) => UNCHANGED storeVars
      BY DEF ServeRead
    <2> QED
      BY <1>1, <2>1, CreateKeepsStore, ToggleKeepsStore, DeleteKeepsStore, SameStore DEF Serve
  <1>2. ASSUME NEW r \in requests, Read(r)
        PROVE  UNCHANGED storeVars
    BY <1>2 DEF Read, GotList, ListFailed, GotView, Guarded, GuardFailed, Added, AddFailed,
                Imported, ImportFailed
  <1>3. Designer => UNCHANGED storeVars
    BY DEF Designer, ClickCard, Toggle, Upload, Add, Import, Delete, CloseView, OpenAdd, CloseAdd,
           OpenImport, CloseImport, ImportDone
  <1>4. UNCHANGED vars => UNCHANGED storeVars
    BY DEF vars
  <1> QED
    BY <1>1, <1>2, <1>3, <1>4, SameStore DEF Next
-----------------------------------------------------------------------------
(* The page.                                                                 *)

LEMMA ListedIsListing == ASSUME StoreOK PROVE Listed(store) \in Listing
  BY DEF Listed, Listing

LEMMA PageStep ==
  ASSUME PageOK, RequestsOK, [Next]_vars
  PROVE  PageOK'
  <1>1. ASSUME NEW r \in requests, Serve(r)
        PROVE  PageOK'
    BY <1>1 DEF Serve, dialogs, PageOK
  <1>2. ASSUME NEW r \in requests, Read(r)
        PROVE  PageOK'
    <2> r.list \in Listing /\ r.id \in Ids \union {None} /\ r.served \in BOOLEAN
      BY DEF RequestsOK, Requests
    <2>1. CASE GotList(r)
      <3>1. excused' \in BOOLEAN
        BY <2>1, Zenon DEF GotList
      <3> QED
        BY <2>1, <3>1 DEF GotList, PageOK
    <2>2. CASE ListFailed(r)
      BY <2>2 DEF ListFailed, PageOK
    <2>3. CASE GotView(r)
      BY <2>3 DEF GotView, PageOK
    <2>4. CASE Guarded(r)
      <3>1. excused' \in BOOLEAN
        BY <2>4, Zenon DEF Guarded
      <3> QED
        BY <2>4, <3>1 DEF Guarded, AskList, dialogs, PageOK
    <2>5. CASE GuardFailed(r)
      <3>1. excused' \in BOOLEAN
        BY <2>5, Zenon DEF GuardFailed
      <3> QED
        BY <2>5, <3>1 DEF GuardFailed, PageOK
    <2>6. CASE Added(r)
      <3>1. excused' \in BOOLEAN
        BY <2>6, Zenon DEF Added
      <3> QED
        BY <2>6, <3>1 DEF Added, AskList, PageOK
    <2>7. CASE AddFailed(r)
      <3>1. excused' \in BOOLEAN
        BY <2>7, Zenon DEF AddFailed
      <3> QED
        BY <2>7, <3>1 DEF AddFailed, PageOK
    <2>8. CASE Imported(r)
      BY <2>8 DEF Imported, PageOK
    <2>9. CASE ImportFailed(r)
      <3>1. excused' \in BOOLEAN
        BY <2>9, Zenon DEF ImportFailed
      <3> QED
        BY <2>9, <3>1 DEF ImportFailed, PageOK
    <2> QED
      BY <1>2, <2>1, <2>2, <2>3, <2>4, <2>5, <2>6, <2>7, <2>8, <2>9 DEF Read
  <1>3. CASE Designer
    <2>1. ASSUME NEW id \in Ids, ClickCard(id) \/ Toggle(id)
          PROVE  PageOK'
      BY <2>1 DEF ClickCard, Toggle, dialogs, PageOK
    <2>2. ASSUME NEW title \in Titles, Upload(title) \/ Add(title) \/ Import(title)
          PROVE  PageOK'
      BY <2>2 DEF Upload, Add, Import, dialogs, PageOK
    <2>3. CASE Delete \/ CloseView \/ OpenAdd \/ CloseAdd \/ OpenImport
      BY <2>3 DEF Delete, CloseView, OpenAdd, CloseAdd, OpenImport, dialogs, PageOK
    <2>4. CASE CloseImport
      <3>1. excused' \in BOOLEAN
        BY <2>4, Zenon DEF CloseImport
      <3> QED
        BY <2>4, <3>1 DEF CloseImport, PageOK
    <2>5. CASE ImportDone
      <3>1. excused' \in BOOLEAN
        BY <2>5, Zenon DEF ImportDone
      <3> QED
        BY <2>5, <3>1 DEF ImportDone, AskList, PageOK
    <2> QED
      BY <1>3, <2>1, <2>2, <2>3, <2>4, <2>5 DEF Designer
  <1>4. CASE UNCHANGED vars
    BY <1>4 DEF vars, dialogs, PageOK
  <1> QED
    BY <1>1, <1>2, <1>3, <1>4 DEF Next

-----------------------------------------------------------------------------
(* The requests under way.  Each step takes some away, marks some or adds    *)
(* one, so the form of every request is kept; and none loses its kind, so a  *)
(* list that is asked for stays asked for until it is read or fails.         *)

LEMMA OneMore ==
  ASSUME RequestsOK, NEW r \in Requests, WellAsked(r), requests' = requests \union {r}
  PROVE  RequestsOK' /\ (Overlaps => Overlaps')
  <1>1. RequestsOK'
    BY DEF RequestsOK, Requests, WellAsked
  <1>2. Overlaps => Overlaps'
    BY DEF Overlaps
  <1> QED
    BY <1>1, <1>2

LEMMA ListIsAsked ==
  ASSUME NEW others, \A r \in others : r \in Requests /\ WellAsked(r),
         NEW closes \in BOOLEAN, AskList(others, closes)
  PROVE  RequestsOK' /\ Overlaps'
  <1> DEFINE list == [Request("list", None, FALSE, None) EXCEPT !.closes = closes]
  <1>1. list \in Requests /\ WellAsked(list)
    BY RequestIsTyped DEF Kinds, Creates, OfOneSkill
  <1>2. requests' = others \union {list}
    BY DEF AskList
  <1>3. list.kind = "list"
    BY DEF Request
  <1> HIDE DEF list
  <1>4. RequestsOK'
    BY <1>1, <1>2 DEF RequestsOK, Requests, WellAsked
  <1>5. Overlaps'
    BY <1>2, <1>3 DEF Overlaps
  <1> QED
    BY <1>4, <1>5

LEMMA OneLess ==
  ASSUME RequestsOK, NEW r \in requests, requests' = requests \ {r}
  PROVE  RequestsOK' /\ (r.kind # "list" /\ Overlaps => Overlaps')
  <1>1. RequestsOK'
    BY DEF RequestsOK
  <1>2. r.kind # "list" /\ Overlaps => Overlaps'
    BY DEF Overlaps
  <1> QED
    BY <1>1, <1>2

Orphans(some, kind) == {[r EXCEPT !.live = r.live /\ r.kind # kind] : r \in some}

LEMMA OrphansAreTyped ==
  ASSUME NEW some, \A r \in some : r \in Requests /\ WellAsked(r), NEW kind
  PROVE  \A s \in Orphans(some, kind) : s \in Requests /\ WellAsked(s)
  <1> TAKE s \in Orphans(some, kind)
  <1>1. PICK r \in some : s = [r EXCEPT !.live = r.live /\ r.kind # kind]
    BY Zenon DEF Orphans
  <1>2. (r.live /\ r.kind # kind) \in BOOLEAN
    BY Zenon
  <1>3. r \in Requests /\ WellAsked(r)
    OBVIOUS
  <1> DEFINE live == r.live /\ r.kind # kind
  <1>4. s = [r EXCEPT !.live = live]
    BY <1>1
  <1>5. live \in BOOLEAN
    BY <1>2
  <1> HIDE DEF live
  <1> QED
    BY <1>3, <1>4, <1>5, OrphanIsTyped

LEMMA OrphanedIsTyped ==
  ASSUME RequestsOK, NEW kind
  PROVE  \A s \in Orphaned(kind) : s \in Requests /\ WellAsked(s)
  <1>1. \A r \in requests : r \in Requests /\ WellAsked(r)
    BY DEF RequestsOK
  <1>2. \A s \in Orphans(requests, kind) : s \in Requests /\ WellAsked(s)
    BY <1>1, OrphansAreTyped
  <1>3. Orphans(requests, kind) = Orphaned(kind)
    BY Zenon DEF Orphaned, Orphans
  <1> QED
    BY <1>2, <1>3

LEMMA OrphansKeepTheirKind ==
  ASSUME RequestsOK, NEW kind, requests' = Orphaned(kind)
  PROVE  RequestsOK' /\ (Overlaps => Overlaps')
  <1>1. RequestsOK'
    <2>1. \A s \in Orphaned(kind) : s \in Requests /\ WellAsked(s)
      BY OrphanedIsTyped
    <2>2. \A s \in requests' : s \in Requests /\ WellAsked(s)
      BY <2>1
    <2> QED
      BY <2>2 DEF RequestsOK, Requests, WellAsked
  <1>2. ASSUME NEW r \in requests, r.kind = "list"
        PROVE  \E s \in requests' : s.kind = "list"
    <2> DEFINE s == [r EXCEPT !.live = r.live /\ r.kind # kind]
    <2>1. s \in requests'
      BY Zenon DEF Orphaned
    <2>2. r \in Requests
      BY DEF RequestsOK
    <2>3. s.kind = "list"
      BY <1>2, <2>2 DEF Requests
    <2> HIDE DEF s
    <2> QED
      BY <2>1, <2>3
  <1>3. Overlaps => Overlaps'
    BY <1>2 DEF Overlaps
  <1> QED
    BY <1>1, <1>3
LEMMA ServedKeepsKind ==
  ASSUME RequestsOK, NEW r \in requests, NEW ok \in BOOLEAN, NEW list \in Listing, Served(r, ok, list)
  PROVE  RequestsOK' /\ (Overlaps => Overlaps')
  <1> DEFINE s == [r EXCEPT !.served = TRUE, !.ok = ok, !.list = list]
  <1>1. r \in Requests /\ WellAsked(r)
    BY DEF RequestsOK
  <1>2. s \in Requests /\ WellAsked(s)
    BY <1>1, ServedIsTyped
  <1>3. s.kind = r.kind
    BY <1>1 DEF Requests
  <1>4. requests' = (requests \ {r}) \union {s}
    BY DEF Served
  <1> HIDE DEF s
  <1>5. RequestsOK'
    BY <1>2, <1>4 DEF RequestsOK, Requests, WellAsked
  <1>6. Overlaps => Overlaps'
    BY <1>3, <1>4 DEF Overlaps
  <1> QED
    BY <1>5, <1>6

LEMMA RequestsStep ==
  ASSUME StoreOK, PageOK, RequestsOK, LoadingIsAsked, [Next]_vars
  PROVE  RequestsOK' /\ LoadingIsAsked'
  <1>1. ASSUME NEW r \in requests, Serve(r)
        PROVE  RequestsOK' /\ LoadingIsAsked'
    <2>1. r.list \in Listing /\ loading' = loading
      BY <1>1 DEF RequestsOK, Requests, Serve
    <2>2. \E ok \in BOOLEAN, list \in Listing : Served(r, ok, list)
      <3>1. CASE ServeCreate(r)
        BY <2>1, <3>1 DEF ServeCreate
      <3>2. CASE ServeToggle(r)
        BY <2>1, <3>2 DEF ServeToggle
      <3>3. CASE ServeDelete(r)
        BY <2>1, <3>3 DEF ServeDelete
      <3>4. CASE ServeRead(r)
        <4> DEFINE ok == r.kind = "list" \/ store[r.id] # None
                   list == IF r.kind = "list" THEN Listed(store) ELSE r.list
        <4>1. ok \in BOOLEAN
          BY Zenon
        <4>2. list \in Listing
          BY <2>1, ListedIsListing
        <4>3. Served(r, ok, list)
          BY <3>4 DEF ServeRead
        <4> HIDE DEF ok, list
        <4> QED
          BY <4>1, <4>2, <4>3
      <3> QED
        BY <1>1, <3>1, <3>2, <3>3, <3>4 DEF Serve
    <2>3. RequestsOK' /\ (Overlaps => Overlaps')
      BY <2>2, ServedKeepsKind
    <2> QED
      BY <2>1, <2>3 DEF LoadingIsAsked
  <1>2. ASSUME NEW r \in requests, Read(r)
        PROVE  RequestsOK' /\ LoadingIsAsked'
    <2>1. CASE GotList(r) \/ ListFailed(r)
      <3>1. requests' = requests \ {r} /\ loading' = FALSE
        BY <2>1 DEF GotList, ListFailed
      <3> QED
        BY <3>1, OneLess DEF LoadingIsAsked
    <2>2. CASE GotView(r) \/ GuardFailed(r) \/ AddFailed(r) \/ Imported(r) \/ ImportFailed(r)
      <3>1. requests' = requests \ {r} /\ loading' = loading /\ r.kind # "list"
        BY <2>2 DEF GotView, GuardFailed, AddFailed, Imported, ImportFailed
      <3> QED
        BY <3>1, OneLess DEF LoadingIsAsked
    <2>3. CASE Guarded(r)
      <3> DEFINE closes == r.kind = "delete"
      <3>1. AskList(requests \ {r}, closes)
        BY <2>3 DEF Guarded
      <3>2. closes \in BOOLEAN
        BY Zenon
      <3>3. \A q \in requests \ {r} : q \in Requests /\ WellAsked(q)
        BY DEF RequestsOK
      <3> HIDE DEF closes
      <3> QED
        BY <3>1, <3>2, <3>3, ListIsAsked DEF LoadingIsAsked
    <2>4. CASE Added(r)
      <3> DEFINE rest == Orphans(requests \ {r}, "add")
      <3>1. AskList(rest, FALSE)
        BY <2>4 DEF Added, Orphans
      <3>2. \A q \in requests \ {r} : q \in Requests /\ WellAsked(q)
        BY DEF RequestsOK
      <3>3. \A q \in rest : q \in Requests /\ WellAsked(q)
        BY <3>2, OrphansAreTyped
      <3> HIDE DEF rest
      <3> QED
        BY <3>1, <3>3, ListIsAsked DEF LoadingIsAsked
    <2> QED
      BY <1>2, <2>1, <2>2, <2>3, <2>4 DEF Read
  <1>3. ASSUME NEW r \in Requests, WellAsked(r), Ask(r), loading' = loading
        PROVE  RequestsOK' /\ LoadingIsAsked'
    BY <1>3, OneMore DEF Ask, LoadingIsAsked
  <1>4. CASE Designer
    <2>1. ASSUME NEW id \in Ids, ClickCard(id) \/ Toggle(id)
          PROVE  RequestsOK' /\ LoadingIsAsked'
      <3>1. (skills[id] = "off") \in BOOLEAN
        BY Zenon
      <3>2. /\ Request("get", id, FALSE, None) \in Requests /\ WellAsked(Request("get", id, FALSE, None))
            /\ Request("toggle", id, skills[id] = "off", None) \in Requests
            /\ WellAsked(Request("toggle", id, skills[id] = "off", None))
        BY <3>1, RequestIsTyped2 DEF Kinds, Creates, OfOneSkill
      <3> QED
        BY <1>3, <2>1, <3>2 DEF ClickCard, Toggle
    <2>2. ASSUME NEW title \in Titles, Upload(title) \/ Add(title) \/ Import(title)
          PROVE  RequestsOK' /\ LoadingIsAsked'
      <3>1. \A kind \in Creates : /\ Request(kind, None, TRUE, title) \in Requests
                                  /\ WellAsked(Request(kind, None, TRUE, title))
        BY RequestIsTyped2 DEF Kinds, Creates, OfOneSkill
      <3>2. CASE Upload(title) \/ Add(title)
        <4>1. \E kind \in Creates : Ask(Request(kind, None, TRUE, title)) /\ loading' = loading
          BY <3>2 DEF Upload, Add, Creates
        <4> QED
          BY <1>3, <3>1, <4>1
      <3>3. CASE Import(title)
        <4>1. PICK on \in BOOLEAN, over \in BOOLEAN :
                Ask([Request("import", None, on, title) EXCEPT !.over = over]) /\ loading' = loading
          BY <3>3 DEF Import
        <4>2. LET r == [Request("import", None, on, title) EXCEPT !.over = over]
              IN r \in Requests /\ WellAsked(r)
          BY ImportIsTyped
        <4> QED
          BY <1>3, <4>1, <4>2
      <3> QED
        BY <2>2, <3>2, <3>3
    <2>3. CASE Delete
      <3>1. view \in Ids
        BY <2>3 DEF Delete, PageOK
      <3>2. Request("delete", view, FALSE, None) \in Requests /\ WellAsked(Request("delete", view, FALSE, None))
        BY <3>1, RequestIsTyped2 DEF Kinds, Creates, OfOneSkill
      <3> QED
        BY <1>3, <2>3, <3>2 DEF Delete
    <2>4. CASE CloseView \/ OpenAdd \/ OpenImport
      BY <2>4 DEF CloseView, OpenAdd, OpenImport, RequestsOK, LoadingIsAsked, Overlaps
    <2>5. CASE CloseAdd \/ CloseImport
      <3>1. loading' = loading /\ \E kind \in Kinds : requests' = Orphaned(kind)
        BY <2>5 DEF CloseAdd, CloseImport, Kinds, Creates
      <3> QED
        BY <3>1, OrphansKeepTheirKind DEF LoadingIsAsked
    <2>6. CASE ImportDone
      <3>1. AskList(Orphaned("import"), FALSE)
        BY <2>6 DEF ImportDone
      <3>3. \A q \in Orphaned("import") : q \in Requests /\ WellAsked(q)
        BY OrphanedIsTyped
      <3> QED
        BY <3>1, <3>3, ListIsAsked DEF LoadingIsAsked
    <2> QED
      BY <1>4, <2>1, <2>2, <2>3, <2>4, <2>5, <2>6 DEF Designer
  <1>5. CASE UNCHANGED vars
    BY <1>5 DEF vars, RequestsOK, LoadingIsAsked, Overlaps
  <1> QED
    BY <1>1, <1>2, <1>4, <1>5 DEF Next

-----------------------------------------------------------------------------
(* The list is current.                                                      *)

Changes == Creates \union {"toggle", "delete"}

\* A change whose answer the page has yet to read: it will ask for the list again.
AnswerIsComing == \E r \in requests : r.kind \in Changes /\ r.served

OneList == \A r, q \in requests : r.kind = "list" /\ q.kind = "list" => r = q

ImportsLive == \A r \in requests : r.kind = "import" => r.live

\* What the page shows, or is about to read, is what the store has.
Current ==
  IF Overlaps THEN \A r \in requests : r.kind = "list" /\ r.served => r.list = Listed(store)
              ELSE skills = Listed(store)

Fresh == OneList /\ ImportsLive /\ (importing # "done" /\ ~AnswerIsComing => Current)

CurrentInv == ~excused => Fresh

\* Only a request of the kind is changed when a dialog goes, and only in `live'.
LEMMA OrphanOf ==
  ASSUME NEW r \in Requests, NEW kind
  PROVE  LET s == [r EXCEPT !.live = r.live /\ r.kind # kind]
         IN s.kind = r.kind /\ s.served = r.served /\ (r.kind # kind => s = r)
  <1> DEFINE live == r.live /\ r.kind # kind
             s == [r EXCEPT !.live = live]
  <1>1. r.kind # kind => live = r.live
    <2>1. r.live \in BOOLEAN
      BY DEF Requests
    <2>2. CASE r.live = TRUE
      BY <2>2, Zenon
    <2>3. CASE r.live = FALSE
      BY <2>3, Zenon
    <2> QED
      BY <2>1, <2>2, <2>3
  <1> HIDE DEF live
  <1>2. s.kind = r.kind /\ s.served = r.served /\ (r.kind # kind => s = r)
    BY <1>1 DEF Requests
  <1> QED
    BY <1>2 DEF live

LEMMA OrphansKeep ==
  ASSUME NEW some, \A r \in some : r \in Requests, NEW kind \in Creates
  PROVE  /\ \A s \in Orphans(some, kind) : s.kind # kind => s \in some
         /\ \A r \in some : r.kind # kind => r \in Orphans(some, kind)
         /\ \A s \in Orphans(some, kind) : \E r \in some : s.kind = r.kind /\ s.served = r.served
         /\ \A r \in some : \E s \in Orphans(some, kind) : s.kind = r.kind /\ s.served = r.served
  <1> DEFINE Orphan(r) == [r EXCEPT !.live = r.live /\ r.kind # kind]
  <1>1. Orphans(some, kind) = {Orphan(r) : r \in some}
    BY Zenon DEF Orphans
  <1>2. \A r \in some : /\ Orphan(r).kind = r.kind /\ Orphan(r).served = r.served
                        /\ r.kind # kind => Orphan(r) = r
    BY OrphanOf, Zenon
  <1> HIDE DEF Orphan
  <1>3. \A s \in Orphans(some, kind) : \E r \in some : s = Orphan(r)
    BY <1>1
  <1>4. \A r \in some : Orphan(r) \in Orphans(some, kind)
    BY <1>1
  <1>5. \A s \in Orphans(some, kind) : s.kind # kind => s \in some
    BY <1>2, <1>3
  <1>6. \A r \in some : r.kind # kind => r \in Orphans(some, kind)
    BY <1>2, <1>4
  <1>7. \A s \in Orphans(some, kind) : \E r \in some : s.kind = r.kind /\ s.served = r.served
    BY <1>2, <1>3
  <1>8. \A r \in some : \E s \in Orphans(some, kind) : s.kind = r.kind /\ s.served = r.served
    BY <1>2, <1>4
  <1> QED
    BY <1>5, <1>6, <1>7, <1>8

\* A step that lets the lists, the store and the page alone and drops no answer that
\* is coming.
LEMMA ListsKept ==
  ASSUME Fresh, store' = store, skills' = skills,
         \A r \in requests' : r.kind = "list" => r \in requests,
         \A r \in requests : r.kind = "list" => r \in requests',
         \A r \in requests' : r.kind = "import" => r.live,
         AnswerIsComing => AnswerIsComing',
         importing' # "done" => importing # "done"
  PROVE  Fresh'
  <1>1. OneList' /\ ImportsLive'
    BY DEF Fresh, OneList, ImportsLive
  <1>2. Overlaps' <=> Overlaps
    BY DEF Overlaps
  <1>3. Current => Current'
    BY <1>2 DEF Current, Overlaps, Listed
  <1> QED
    BY <1>1, <1>3 DEF Fresh

\* A change has been served.
LEMMA ChangeServed ==
  ASSUME Fresh, \A r \in requests' : r.kind = "list" => r \in requests,
         \A r \in requests' : r.kind = "import" => r.live, AnswerIsComing'
  PROVE  Fresh'
  BY DEF Fresh, OneList, ImportsLive

\* A list is asked for where none is under way.
LEMMA FreshlyAsked ==
  ASSUME NEW others, NEW closes, AskList(others, closes),
         \A r \in others : r.kind # "list" /\ (r.kind = "import" => r.live)
  PROVE  Fresh'
  <1> DEFINE list == [Request("list", None, FALSE, None) EXCEPT !.closes = closes]
  <1>1. list.kind = "list" /\ list.served = FALSE
    BY DEF Request
  <1>2. requests' = others \union {list}
    BY DEF AskList
  <1> HIDE DEF list
  <1>3. OneList' /\ ImportsLive'
    BY <1>1, <1>2 DEF OneList, ImportsLive
  <1>4. Overlaps' /\ \A r \in requests' : r.kind = "list" => ~r.served
    BY <1>1, <1>2 DEF Overlaps
  <1> QED
    BY <1>3, <1>4 DEF Fresh, Current

LEMMA ServeFresh ==
  ASSUME StoreOK, RequestsOK, Fresh, NEW r \in requests, Serve(r)
  PROVE  Fresh'
  <1>1. /\ r \in Requests /\ \A q \in requests : q.kind = "import" => q.live
        /\ skills' = skills /\ importing' = importing
    BY DEF RequestsOK, Fresh, ImportsLive, Serve, dialogs
  <1>2. ASSUME NEW ok, NEW list, Served(r, ok, list), r.kind \in Changes
        PROVE  Fresh'
    <2> DEFINE s == [r EXCEPT !.served = TRUE, !.ok = ok, !.list = list]
    <2>1. s.kind = r.kind /\ s.live = r.live /\ s.served = TRUE
      BY <1>1 DEF Requests
    <2>2. requests' = (requests \ {r}) \union {s}
      BY <1>2 DEF Served
    <2> HIDE DEF s
    <2>3. r.kind # "list"
      BY <1>2 DEF Changes, Creates
    <2>4. AnswerIsComing'
      BY <1>2, <2>1, <2>2 DEF AnswerIsComing
    <2> QED
      BY <1>1, <2>1, <2>2, <2>3, <2>4, ChangeServed
  <1>3. CASE ServeCreate(r) \/ ServeToggle(r) \/ ServeDelete(r)
    <2>1. r.kind \in Changes
      BY <1>3 DEF ServeCreate, ServeToggle, ServeDelete, Changes, Creates
    <2>2. \E ok, list : Served(r, ok, list)
      BY <1>3 DEF ServeCreate, ServeToggle, ServeDelete
    <2> QED
      BY <1>2, <2>1, <2>2
  <1>4. ASSUME NEW ok, NEW list, Served(r, ok, list), store' = store,
               r.kind = "get" \/ (r.kind = "list" /\ list = Listed(store))
        PROVE  Fresh'
    <2> DEFINE s == [r EXCEPT !.served = TRUE, !.ok = ok, !.list = list]
    <2>1. s.kind = r.kind /\ s.live = r.live /\ s.list = list
      BY <1>1 DEF Requests
    <2>2. requests' = (requests \ {r}) \union {s}
      BY <1>4 DEF Served
    <2> HIDE DEF s
    <2>3. r.kind \notin Changes
      BY <1>4 DEF Changes, Creates
    <2>4. AnswerIsComing' <=> AnswerIsComing
      BY <2>1, <2>2, <2>3 DEF AnswerIsComing
    <2>5. OneList' /\ ImportsLive'
      BY <1>1, <1>4, <2>1, <2>2 DEF Fresh, OneList, ImportsLive
    <2>6. Overlaps' <=> Overlaps
      BY <2>1, <2>2 DEF Overlaps
    <2>7. Listed(store') = Listed(store)
      BY <1>4
    <2>8. Current => Current'
      <3>1. CASE Overlaps
        <4> SUFFICES ASSUME Current, NEW q \in requests', q.kind = "list", q.served
                     PROVE  q.list = Listed(store)
          BY <2>6, <2>7, <3>1 DEF Current
        <4>1. CASE q = s
          BY <1>4, <2>1, <4>1
        <4>2. CASE q # s
          <5>1. q \in requests
            BY <2>2, <4>2
          <5> QED
            BY <3>1, <5>1 DEF Current
        <4> QED
          BY <4>1, <4>2
      <3>2. CASE ~Overlaps
        BY <1>1, <2>6, <2>7, <3>2 DEF Current
      <3> QED
        BY <3>1, <3>2
    <2> QED
      BY <1>1, <2>4, <2>5, <2>8 DEF Fresh
  <1>5. CASE ServeRead(r)
    <2> DEFINE ok == r.kind = "list" \/ store[r.id] # None
               list == IF r.kind = "list" THEN Listed(store) ELSE r.list
    <2>1. Served(r, ok, list) /\ store' = store
      BY <1>5 DEF ServeRead, storeVars
    <2>2. r.kind = "get" \/ (r.kind = "list" /\ list = Listed(store))
      BY <1>5 DEF ServeRead
    <2> HIDE DEF ok, list
    <2> QED
      BY <1>4, <2>1, <2>2
  <1> QED
    BY <1>3, <1>5 DEF Serve

\* An answer that is dropped without one to a change, or a view.
LEMMA DroppedFresh ==
  ASSUME Fresh, NEW r \in requests, requests' = requests \ {r}, store' = store, skills' = skills,
         r.kind # "list", r.kind \in Changes => ~r.served,
         importing' # "done" => importing # "done"
  PROVE  Fresh'
  <1>1. AnswerIsComing => AnswerIsComing'
    BY DEF AnswerIsComing
  <1>2. \A q \in requests' : q.kind = "import" => q.live
    BY DEF Fresh, ImportsLive
  <1> QED
    BY <1>1, <1>2, ListsKept

LEMMA ReadFresh ==
  ASSUME RequestsOK, CurrentInv, NEW r \in requests, Read(r), ~excused'
  PROVE  Fresh'
  <1>1. CASE GotList(r)
    <2>1. skills' = r.list /\ requests' = requests \ {r} /\ store' = store /\ importing' = importing
          /\ r.kind = "list" /\ r.served
      BY <1>1 DEF GotList, storeVars
    <2>2. Listed(store') = Listed(store)
      BY <2>1
    <2>3. CASE excused
      <3>1. requests = {r} /\ r.list = Listed(store)
        BY <1>1, <2>3 DEF GotList
      <3>2. requests' = {}
        BY <2>1, <3>1
      <3> QED
        BY <2>1, <2>2, <3>1, <3>2 DEF Fresh, OneList, ImportsLive, Current, Overlaps
    <2>4. CASE ~excused
      <3>1. Fresh
        BY <2>4 DEF CurrentInv
      <3>2. ~Overlaps' /\ OneList' /\ ImportsLive'
        BY <2>1, <3>1 DEF Fresh, OneList, ImportsLive, Overlaps
      <3>3. AnswerIsComing => AnswerIsComing'
        BY <2>1 DEF AnswerIsComing, Changes, Creates
      <3>4. Current => r.list = Listed(store)
        BY <2>1 DEF Current, Overlaps
      <3> QED
        BY <2>1, <2>2, <3>1, <3>2, <3>3, <3>4 DEF Fresh, Current
    <2> QED
      BY <2>3, <2>4
  <1>2. CASE ListFailed(r)
    BY <1>2 DEF ListFailed
  <1>3. CASE GotView(r)
    <2>1. /\ requests' = requests \ {r} /\ r.kind = "get"
          /\ UNCHANGED <<store, skills, importing, excused>>
      BY <1>3 DEF GotView, storeVars
    <2> QED
      BY <2>1, DroppedFresh DEF CurrentInv, Changes, Creates
  <1>4. CASE GuardFailed(r) \/ AddFailed(r) \/ ImportFailed(r)
    <2>1. /\ requests' = requests \ {r} /\ r.kind # "list" /\ store' = store /\ skills' = skills
          /\ excused' = (excused \/ r.served) /\ (importing' # "done" => importing # "done")
      BY <1>4 DEF GuardFailed, AddFailed, ImportFailed, storeVars
    <2> QED
      BY <2>1, DroppedFresh DEF CurrentInv
  <1>5. CASE Imported(r)
    <2>1. /\ requests' = requests \ {r} /\ r.kind = "import" /\ excused' = excused
          /\ importing' = IF r.live THEN "done" ELSE importing
      BY <1>5 DEF Imported
    <2>2. Fresh
      BY <2>1 DEF CurrentInv
    <2>3. r.live
      BY <2>1, <2>2 DEF Fresh, ImportsLive
    <2> QED
      BY <2>1, <2>2, <2>3 DEF Fresh, OneList, ImportsLive
  <1>6. CASE Guarded(r)
    <2>1. AskList(requests \ {r}, r.kind = "delete") /\ excused' = (excused \/ Overlaps)
      BY <1>6 DEF Guarded
    <2>2. \A q \in requests \ {r} : q.kind # "list" /\ (q.kind = "import" => q.live)
      BY <2>1 DEF CurrentInv, Fresh, ImportsLive, Overlaps
    <2> DEFINE closes == r.kind = "delete"
    <2>3. AskList(requests \ {r}, closes)
      BY <2>1
    <2> HIDE DEF closes
    <2> QED
      BY <2>2, <2>3, FreshlyAsked
  <1>7. CASE Added(r)
    <2> DEFINE rest == Orphans(requests \ {r}, "add")
    <2>1. AskList(rest, FALSE) /\ excused' = (excused \/ Overlaps)
      BY <1>7 DEF Added, Orphans
    <2>2. \A q \in requests \ {r} : q.kind # "list" /\ (q.kind = "import" => q.live)
      BY <2>1 DEF CurrentInv, Fresh, ImportsLive, Overlaps
    <2>3. \A q \in requests \ {r} : q \in Requests
      BY DEF RequestsOK
    <2>4. "add" \in Creates
      BY DEF Creates
    <2>5. /\ \A s \in rest : s.kind # "add" => s \in requests \ {r}
          /\ \A s \in rest : \E q \in requests \ {r} : s.kind = q.kind /\ s.served = q.served
      BY <2>3, <2>4, OrphansKeep
    <2> HIDE DEF rest
    <2>6. \A q \in rest : q.kind # "list" /\ (q.kind = "import" => q.live)
      BY <2>2, <2>5
    <2> QED
      BY <2>1, <2>6, FreshlyAsked
  <1> QED
    BY <1>1, <1>2, <1>3, <1>4, <1>5, <1>6, <1>7 DEF Read

\* A request of the designer's.
LEMMA AskFresh ==
  ASSUME Fresh, NEW q, Ask(q), q.kind # "list", q.live,
         store' = store, skills' = skills, importing' # "done" => importing # "done"
  PROVE  Fresh'
  <1>1. q.kind # "list" /\ q.live
    OBVIOUS
  <1>2. requests' = requests \union {q}
    BY DEF Ask
  <1>3. AnswerIsComing => AnswerIsComing'
    BY <1>2 DEF AnswerIsComing
  <1>4. \A r \in requests' : r.kind = "import" => r.live
    BY <1>1, <1>2 DEF Fresh, ImportsLive
  <1>5. /\ \A r \in requests' : r.kind = "list" => r \in requests
        /\ \A r \in requests : r.kind = "list" => r \in requests'
    BY <1>1, <1>2
  <1> QED
    BY <1>3, <1>4, <1>5, ListsKept

\* A dialog is closed that no import is under way for.
LEMMA OrphanedFresh ==
  ASSUME RequestsOK, Fresh, NEW kind \in Creates, requests' = Orphaned(kind),
         kind = "import" => \A r \in requests : r.kind # "import",
         store' = store, skills' = skills, importing' # "done" => importing # "done"
  PROVE  Fresh'
  <1>1. requests' = Orphans(requests, kind)
    BY Zenon DEF Orphaned, Orphans
  <1>2. \A r \in requests : r \in Requests
    BY DEF RequestsOK
  <1>3. /\ \A s \in requests' : s.kind # kind => s \in requests
        /\ \A r \in requests : r.kind # kind => r \in requests'
        /\ \A s \in requests' : \E r \in requests : s.kind = r.kind /\ s.served = r.served
        /\ \A r \in requests : \E s \in requests' : s.kind = r.kind /\ s.served = r.served
    BY <1>1, <1>2, OrphansKeep
  <1>4. kind # "list"
    BY DEF Creates
  <1>5. AnswerIsComing => AnswerIsComing'
    BY <1>3 DEF AnswerIsComing
  <1>6. \A s \in requests' : s.kind = "import" => s.live
    BY <1>3 DEF Fresh, ImportsLive
  <1> QED
    BY <1>3, <1>4, <1>5, <1>6, ListsKept

LEMMA DesignerFresh ==
  ASSUME RequestsOK, CurrentInv, Designer, ~excused'
  PROVE  Fresh'
  <1>1. ASSUME NEW id \in Ids, ClickCard(id) \/ Toggle(id)
        PROVE  Fresh'
    <2>1. Fresh /\ store' = store /\ skills' = skills /\ importing' = importing
      BY <1>1 DEF ClickCard, Toggle, CurrentInv, storeVars, dialogs
    <2>2. CASE ClickCard(id)
      <3> DEFINE q == Request("get", id, FALSE, None)
      <3>1. Ask(q) /\ q.kind # "list" /\ q.live
        BY <2>2 DEF ClickCard, Request
      <3> HIDE DEF q
      <3> QED
        BY <2>1, <3>1, AskFresh
    <2>3. CASE Toggle(id)
      <3> DEFINE q == Request("toggle", id, skills[id] = "off", None)
      <3>1. Ask(q) /\ q.kind # "list" /\ q.live
        BY <2>3 DEF Toggle, Request
      <3> HIDE DEF q
      <3> QED
        BY <2>1, <3>1, AskFresh
    <2> QED
      BY <1>1, <2>2, <2>3
  <1>2. ASSUME NEW title \in Titles, Upload(title) \/ Add(title) \/ Import(title)
        PROVE  Fresh'
    <2>1. Fresh /\ store' = store /\ skills' = skills /\ (importing' # "done" => importing # "done")
      BY <1>2 DEF Upload, Add, Import, CurrentInv, storeVars, dialogs
    <2>2. PICK kind \in Creates, on \in BOOLEAN, over \in BOOLEAN :
            \/ Ask(Request(kind, None, on, title))
            \/ Ask([Request(kind, None, on, title) EXCEPT !.over = over])
      BY <1>2 DEF Upload, Add, Import, Creates
    <2>3. kind # "list"
      BY DEF Creates
    <2>4. CASE Ask(Request(kind, None, on, title))
      <3> DEFINE q == Request(kind, None, on, title)
      <3>1. Ask(q) /\ q.kind # "list" /\ q.live
        BY <2>3, <2>4 DEF Request
      <3> HIDE DEF q
      <3> QED
        BY <2>1, <3>1, AskFresh
    <2>5. CASE Ask([Request(kind, None, on, title) EXCEPT !.over = over])
      <3> DEFINE q == [Request(kind, None, on, title) EXCEPT !.over = over]
      <3>1. Ask(q) /\ q.kind # "list" /\ q.live
        BY <2>3, <2>5 DEF Request
      <3> HIDE DEF q
      <3> QED
        BY <2>1, <3>1, AskFresh
    <2> QED
      BY <2>2, <2>4, <2>5
  <1>3. CASE Delete
    <2>1. Fresh /\ store' = store /\ skills' = skills /\ importing' = importing
      BY <1>3 DEF Delete, CurrentInv, storeVars, dialogs
    <2> DEFINE q == Request("delete", view, FALSE, None)
    <2>2. Ask(q) /\ q.kind # "list" /\ q.live
      BY <1>3 DEF Delete, Request
    <2> HIDE DEF q
    <2> QED
      BY <2>1, <2>2, AskFresh
  <1>4. CASE CloseView \/ OpenAdd \/ OpenImport
    <2>1. /\ Fresh /\ requests' = requests /\ store' = store /\ skills' = skills
          /\ importing' # "done" => importing # "done"
      BY <1>4 DEF CloseView, OpenAdd, OpenImport, CurrentInv, storeVars
    <2>2. AnswerIsComing => AnswerIsComing'
      BY <2>1 DEF AnswerIsComing
    <2> QED
      BY <2>1, <2>2, ListsKept DEF Fresh, ImportsLive
  <1>5. CASE CloseAdd
    <2>1. Fresh /\ requests' = Orphaned("add") /\ store' = store /\ skills' = skills /\ importing' = importing
      BY <1>5 DEF CloseAdd, CurrentInv, storeVars
    <2> QED
      BY <2>1, OrphanedFresh DEF Creates
  <1>6. CASE CloseImport
    <2>1. /\ Fresh /\ requests' = Orphaned("import") /\ store' = store /\ skills' = skills
          /\ importing # "done" /\ \A r \in requests : r.kind # "import"
      BY <1>6 DEF CloseImport, CurrentInv, storeVars
    <2> QED
      BY <2>1, OrphanedFresh DEF Creates
  <1>7. CASE ImportDone
    <2>1. /\ AskList(Orphaned("import"), FALSE)
          /\ \A r \in requests : r.kind # "list" /\ r.kind # "import"
      BY <1>7 DEF ImportDone, Overlaps
    <2>2. Orphaned("import") = Orphans(requests, "import")
      BY Zenon DEF Orphaned, Orphans
    <2>3. "import" \in Creates /\ \A r \in requests : r \in Requests
      BY DEF Creates, RequestsOK
    <2>4. \A s \in Orphaned("import") : \E r \in requests : s.kind = r.kind
      BY <2>2, <2>3, OrphansKeep
    <2> DEFINE others == Orphaned("import")
    <2>5. AskList(others, FALSE) /\ \A s \in others : s.kind # "list" /\ s.kind # "import"
      BY <2>1, <2>4
    <2> HIDE DEF others
    <2> QED
      BY <2>5, FreshlyAsked
  <1> QED
    BY <1>1, <1>2, <1>3, <1>4, <1>5, <1>6, <1>7 DEF Designer

LEMMA CurrentStep ==
  ASSUME SkillsInv, CurrentInv, [Next]_vars
  PROVE  CurrentInv'
  <1> SUFFICES ASSUME ~excused' PROVE Fresh'
    BY DEF CurrentInv
  <1> USE DEF SkillsInv
  <1>1. ASSUME NEW r \in requests, Serve(r) PROVE Fresh'
    <2>1. Fresh
      BY <1>1 DEF Serve, CurrentInv
    <2> QED
      BY <1>1, <2>1, ServeFresh
  <1>2. ASSUME NEW r \in requests, Read(r) PROVE Fresh'
    BY <1>2, ReadFresh
  <1>3. CASE Designer
    BY <1>3, DesignerFresh
  <1>4. CASE UNCHANGED vars
    <2>1. /\ Fresh /\ requests' = requests /\ store' = store /\ skills' = skills
          /\ importing' = importing
      BY <1>4 DEF vars, storeVars, dialogs, CurrentInv
    <2>2. AnswerIsComing => AnswerIsComing'
      BY <2>1 DEF AnswerIsComing
    <2> QED
      BY <2>1, <2>2, ListsKept DEF Fresh, ImportsLive
  <1> QED
    BY <1>1, <1>2, <1>3, <1>4 DEF Next

LEMMA CurrentAtFirst ==
  Init => CurrentInv
  <1> SUFFICES ASSUME Init PROVE Fresh
    BY DEF CurrentInv
  <1>1. \A r \in requests : r.kind = "list" /\ r.served = FALSE
    BY DEF Init, Request
  <1>2. Overlaps /\ OneList
    BY <1>1 DEF Init, Overlaps, OneList
  <1> QED
    BY <1>1, <1>2 DEF Fresh, ImportsLive, Current

-----------------------------------------------------------------------------
(* The theorems.                                                             *)

LEMMA InitEstablishes == Init => SkillsInv
  <1> SUFFICES ASSUME Init PROVE SkillsInv
    OBVIOUS
  <1>1. StoreOK
    BY SlugsAreIds DEF Init, StoreOK, Skill
  <1>2. PageOK
    BY DEF Init, PageOK, Listing
  <1>3. RequestsOK
    BY RequestIsTyped2 DEF Init, RequestsOK, Kinds, Creates, OfOneSkill
  <1>4. LoadingIsAsked
    BY DEF Init, LoadingIsAsked, Overlaps, Request
  <1>5. Occupied \subseteq Installed
    BY DEF Init, Occupied
  <1>6. IsFiniteSet(Occupied) /\ Cardinality(Occupied) <= Cardinality(Installed)
    BY <1>5, SlugsAreIds, FS_Subset
  <1>7. FewSkills
    BY <1>6, SuffixesAreEnough DEF Init, FewSkills
  <1> QED
    BY <1>1, <1>2, <1>3, <1>4, <1>7 DEF SkillsInv

LEMMA StepKeeps == SkillsInv /\ [Next]_vars => SkillsInv' /\ Untouched
  BY StoreStep, PageStep, RequestsStep DEF SkillsInv

LEMMA SkillsInvariant == Spec => []SkillsInv
  <1> QED
    BY InitEstablishes, StepKeeps, PTL DEF Spec

\* The store and the page keep to their types, whatever requests are under
\* way and however their answers cross with what the designer does meanwhile.
THEOREM TypeCorrect == Spec => []TypeOK
  <1>1. SkillsInv => TypeOK
    BY DEF SkillsInv, StoreOK, PageOK, RequestsOK, TypeOK, Requests, Kinds, Creates, OfOneSkill
  <1> QED
    BY <1>1, SkillsInvariant, PTL

\* Whatever "Loading..." stands for is under way: setLoading(false) comes at
\* the end of every refresh() and no answer of another kind takes its place.
THEOREM LoadingEnds == Spec => []LoadingIsAsked
  <1>1. SkillsInv => LoadingIsAsked
    BY DEF SkillsInv
  <1> QED
    BY <1>1, SkillsInvariant, PTL

\* save() writes one file for each creation, and to none that is there, with any number of
\* names and however they and their suffixes collide, unless it was told to by update() or
\* by the front matter of an import, and then to the one of that id.
THEOREM NoneOverwritten == Spec => NothingOverwritten
  <1>1. SkillsInv /\ [Next]_vars =>
          [/\ \A i \in Replaced :
                \E r \in requests : r.kind = "import" /\ r.over /\ ~r.served /\ Slug[r.title] = i
           /\ Cardinality(Replaced \union New) = made' - made
           /\ \A i \in Builtin : store'[i] = store[i]]_vars
    BY StepKeeps DEF Untouched
  <1> QED
    BY <1>1, SkillsInvariant, PTL DEF Spec, NothingOverwritten

\* With no request under way and no import waiting for Done, the page lists what
\* the store has, unless a refresh or an answer was lost on the way: of however many
\* changes and however their answers cross, the last leads to a list that is current.
THEOREM CurrentList == Spec => []ListIsCurrent
  <1>1. SkillsInv /\ CurrentInv /\ [Next]_vars => CurrentInv'
    BY CurrentStep
  <1>2. CurrentInv => ListIsCurrent
    BY DEF CurrentInv, Fresh, AnswerIsComing, Current, Overlaps, ListIsCurrent
  <1> QED
    BY <1>1, <1>2, CurrentAtFirst, SkillsInvariant, PTL DEF Spec
=============================================================================
