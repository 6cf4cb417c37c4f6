---------------------------- MODULE TaskFlowProofs ----------------------------
(***************************************************************************)
(* The safety properties of the task page: of its store (TaskFlow),        *)
(* however long the page is used, and of the stream of its chat            *)
(* (ChatFrames), however long the turn and however the bytes arrive.       *)
(***************************************************************************)
EXTENDS TaskFlow, ChatFrames, FiniteSetTheorems, SequenceTheorems, WellFoundedInduction, TLAPS

-----------------------------------------------------------------------------
(* The types, one group of variables at a time.                              *)

LEMMA OpenTypes ==
  ASSUME ChatTypes, NEW sides \in SUBSET Sides, NEW kind \in {"turn", "report"},
         Open(sides, kind)
  PROVE  ChatTypes'
  <1>1. opened' \in Nat /\ controller' \in 0..opened' /\ opened + 1 \in 1..opened'
    BY DEF ChatTypes, Open
  <1>2. transcript' \in [Sides -> [streaming : BOOLEAN, session : BOOLEAN]]
    BY DEF ChatTypes, Open
  <1>3. 1..opened \subseteq 1..opened'
    BY DEF ChatTypes, Open
  <1>4. streams \subseteq [side : Sides, kind : {"turn", "report"}, signal : 1..opened']
    BY <1>3 DEF ChatTypes
  <1>5. streams' \subseteq [side : Sides, kind : {"turn", "report"}, signal : 1..opened']
    BY <1>1, <1>4 DEF Open
  <1> QED
    BY <1>1, <1>2, <1>5 DEF ChatTypes

LEMMA ChatStep == ChatTypes /\ compare \in BOOLEAN /\ [Next]_vars
                    => ChatTypes' /\ compare' \in BOOLEAN
  <1> SUFFICES ASSUME ChatTypes, compare \in BOOLEAN, [Next]_vars
               PROVE  ChatTypes' /\ compare' \in BOOLEAN
    OBVIOUS
  <1>1. CASE Send
    BY <1>1, OpenTypes DEF Send, Sides
  <1>2. CASE Report
    BY <1>2, OpenTypes DEF Report, Sides
  <1>3. ASSUME NEW c \in calls, NEW o \in Outcomes, RunAnswers(c, o)
        PROVE  ChatTypes' /\ compare' \in BOOLEAN
    BY <1>3, OpenTypes DEF RunAnswers, Sides, chatVars, ChatTypes
  <1>4. CASE Reset
    BY <1>4 DEF Reset, ChatTypes
  <1>5. ASSUME NEW m \in streams, SessionEvent(m)
        PROVE  ChatTypes' /\ compare' \in BOOLEAN
    BY <1>5 DEF SessionEvent, ChatTypes
  <1>6. ASSUME NEW m \in streams, StreamEnds(m)
        PROVE  ChatTypes' /\ compare' \in BOOLEAN
    BY <1>6 DEF StreamEnds, ChatTypes
  <1>7. CASE SetCompare
    BY <1>7 DEF SetCompare, ChatTypes, chatVars
  <1>8. CASE UNCHANGED <<compare, chatVars>>
    BY <1>8 DEF ChatTypes, chatVars
  <1>9. CASE UNCHANGED vars
    BY <1>8, <1>9 DEF vars
  <1> QED
    BY <1>1, <1>2, <1>3, <1>4, <1>5, <1>6, <1>7, <1>8, <1>9
    DEF Next, Designer, Stream, ReconcileReturns, ConfirmReturns, RunReturns, Outcomes,
        Toggle, Confirm, Run, RunTampered, RunProjection, OnSpec, ReconcileFails,
        ReconcileAnswers, ConfirmIssued, ConfirmRefused, RunRejected

LEMMA CardStep == CardTypes /\ [Next]_vars => CardTypes' /\ specs <= specs'
  <1> SUFFICES ASSUME CardTypes, [Next]_vars
               PROVE  CardTypes' /\ specs <= specs'
    OBVIOUS
  <1>1. ASSUME specs < MaxSpecs, specs' = specs + 1
        PROVE  /\ specs' \in 0..MaxSpecs /\ specs' \in 1..specs' /\ specs <= specs'
               /\ 1..specs \subseteq 1..specs'
    BY <1>1, BoundsAreNat DEF CardTypes
  <1>2. ASSUME NEW m \in streams, NEW v \in Verdicts, OnSpec(m, v)
        PROVE  CardTypes' /\ specs <= specs'
    <2>1. proposal' \in Proposals'
      BY <1>1, <1>2 DEF OnSpec, Proposed, Proposals
    <2> QED
      BY <1>1, <1>2, <2>1 DEF OnSpec, CardTypes
  <1>3. CASE Toggle
    <2>1. proposal \in Proposals
      BY <1>3 DEF Toggle, CardTypes
    <2>2. proposal' \in Proposals'
      BY <1>1, <1>3, <2>1 DEF Toggle, Proposals
    <2> QED
      BY <1>1, <1>3, <2>2 DEF Toggle, CardTypes
  <1>4. ASSUME NEW d \in reconciles, ReconcileFails(d)
        PROVE  CardTypes' /\ specs <= specs'
    <2>1. specs' = specs /\ reconciles' \subseteq 1..specs
      BY <1>4 DEF ReconcileFails, CardTypes
    <2>2. ASSUME proposal # None
          PROVE  NotReconciled(proposal) \in Proposals
      BY <2>2 DEF NotReconciled, CardTypes, Proposals
    <2>3. proposal' \in Proposals \union {None}
      BY <1>4, <2>2 DEF ReconcileFails, IsDraft, CardTypes
    <2> QED
      BY <2>1, <2>3, BoundsAreNat DEF CardTypes, Proposals
  <1>5. ASSUME NEW d \in reconciles, NEW v \in {"open", "ready"}, ReconcileAnswers(d, v)
        PROVE  CardTypes' /\ specs <= specs'
    <2>1. specs' = specs /\ reconciles' \subseteq 1..specs
      BY <1>5 DEF ReconcileAnswers, CardTypes
    <2>2. ASSUME proposal # None
          PROVE  [proposal EXCEPT !.verdict = v, !.about = d, !.reconciling = FALSE,
                                  !.failed = FALSE] \in Proposals
      BY <2>2 DEF CardTypes, Proposals, Verdicts
    <2>3. proposal' \in Proposals \union {None}
      BY <1>5, <2>2 DEF ReconcileAnswers, IsDraft, CardTypes
    <2> QED
      BY <2>1, <2>3, BoundsAreNat DEF CardTypes, Proposals
  <1>6. CASE Reset
    BY <1>6, BoundsAreNat DEF Reset, CardTypes, Proposals
  <1>7. CASE UNCHANGED cardVars
    BY <1>7, BoundsAreNat DEF CardTypes, cardVars, Proposals
  <1>8. CASE UNCHANGED vars
    BY <1>7, <1>8 DEF vars
  <1> QED
    BY <1>2, <1>3, <1>4, <1>5, <1>6, <1>7, <1>8
    DEF Next, Designer, Stream, ReconcileReturns, ConfirmReturns, RunReturns, Send,
        SetCompare, Confirm, Run, RunTampered, RunProjection, Report, SessionEvent,
        StreamEnds, ConfirmIssued, ConfirmRefused, RunAnswers, RunRejected

LEMMA ConfStep == CardTypes /\ ConfTypes /\ [Next]_vars => ConfTypes' /\ issued <= issued'
  <1> SUFFICES ASSUME CardTypes, ConfTypes, [Next]_vars
               PROVE  ConfTypes' /\ issued <= issued'
    OBVIOUS
  <1>1. 1..specs \subseteq 1..specs' /\ specs \in Nat /\ specs' \in Nat
    BY CardStep, BoundsAreNat DEF CardTypes
  <1>2. confirms \subseteq [draft : 1..specs', origin : 1..specs']
    BY <1>1 DEF ConfTypes
  <1>3. [token : 1..issued, draft : 1..specs, origin : 1..specs, used : BOOLEAN]
          \subseteq [token : 1..issued, draft : 1..specs', origin : 1..specs', used : BOOLEAN]
    BY <1>1
  <1>4. CASE Confirm
    <2>1. [draft |-> proposal.draft, origin |-> proposal.origin]
            \in [draft : 1..specs, origin : 1..specs]
      BY <1>4 DEF Confirm, CanConfirm, CardTypes, Proposals
    <2> QED
      BY <1>4, <2>1 DEF Confirm, ConfTypes, Confirmations, cardVars
  <1>5. ASSUME NEW c \in confirms, ConfirmIssued(c)
        PROVE  ConfTypes' /\ issued <= issued'
    <2>1. issued' \in Nat /\ issued' \in 1..issued' /\ issued <= issued'
      BY <1>5 DEF ConfirmIssued, ConfTypes
    <2>2. c.draft \in 1..specs /\ c.origin \in 1..specs
      BY DEF ConfTypes
    <2>3. confirmation' \in Confirmations'
      BY <1>1, <1>5, <2>1, <2>2 DEF ConfirmIssued, Confirmations
    <2> QED
      BY <1>2, <1>5, <2>1, <2>3 DEF ConfirmIssued, ConfTypes
  <1>6. ASSUME NEW c \in confirms, ConfirmRefused(c)
        PROVE  ConfTypes' /\ issued <= issued'
    <2>1. UNCHANGED <<specs, issued, confirmation>>
      BY <1>6 DEF ConfirmRefused, cardVars
    <2>2. confirming' \in BOOLEAN /\ confirms' \subseteq confirms
      BY <1>6 DEF ConfirmRefused
    <2> QED
      BY <2>1, <2>2 DEF ConfTypes, Confirmations
  <1>7. ASSUME NEW m \in streams, NEW v \in Verdicts, OnSpec(m, v)
        PROVE  ConfTypes' /\ issued <= issued'
    BY <1>2, <1>7 DEF OnSpec, ConfTypes
  <1>8. CASE Reset
    <2>1. /\ UNCHANGED <<specs, confirms, issued>>
          /\ confirming' \in BOOLEAN /\ confirmation' = None
      BY <1>8 DEF Reset
    <2> QED
      BY <2>1 DEF ConfTypes
  <1>9. ASSUME NEW c \in calls, NEW o \in Outcomes, RunAnswers(c, o)
        PROVE  ConfTypes' /\ issued <= issued'
    <2>1. confirmation # None => [confirmation EXCEPT !.used = TRUE] \in Confirmations
      BY DEF ConfTypes, Confirmations
    <2>2. confirmation' \in Confirmations \union {None}
      BY <1>9, <2>1 DEF RunAnswers, ConfTypes
    <2>3. UNCHANGED <<specs, issued, confirming, confirms>>
      BY <1>9 DEF RunAnswers, cardVars
    <2> QED
      BY <2>2, <2>3 DEF ConfTypes, Confirmations
  <1>10. CASE UNCHANGED confVars
    BY <1>2, <1>3, <1>10 DEF ConfTypes, Confirmations, confVars
  <1>11. CASE UNCHANGED vars
    BY <1>10, <1>11 DEF vars
  <1> QED
    BY <1>4, <1>5, <1>6, <1>7, <1>8, <1>9, <1>10, <1>11
    DEF Next, Designer, Stream, ReconcileReturns, ConfirmReturns, RunReturns, Send,
        SetCompare, Toggle, Run, RunTampered, RunProjection, Report, SessionEvent,
        StreamEnds, ReconcileFails, ReconcileAnswers, RunRejected, Outcomes

LEMMA ExecStep == ConfTypes /\ ExecTypes /\ issued <= issued' /\ issued' \in Nat
                    /\ [Next]_vars => ExecTypes'
  <1> SUFFICES ASSUME ConfTypes, ExecTypes, issued <= issued', issued' \in Nat, [Next]_vars
               PROVE  ExecTypes'
    OBVIOUS
  <1>1. issued \in Nat /\ 1..issued \subseteq 1..issued'
    BY DEF ConfTypes
  <1>2. /\ calls \subseteq [id : 1..runs, token : 1..issued', kind : {"genuine", "tampered"},
                            changed : BOOLEAN]
        /\ answers \subseteq [token : 1..issued', outcome : Outcomes]
        /\ execution \in [id : 1..runs, token : 1..issued', outcome : Outcomes] \union {None}
    BY <1>1 DEF ExecTypes
  <1>3. ASSUME NEW kind \in {"genuine", "tampered"}, NEW changed \in BOOLEAN,
               RunProjection(kind, changed)
        PROVE  ExecTypes'
    <2>1. /\ runs' \in 0..MaxRuns /\ runs' \in 1..runs' /\ 1..runs \subseteq 1..runs'
          /\ issued' = issued /\ UNCHANGED <<execution, reported, told, answers>>
      BY <1>3, BoundsAreNat DEF RunProjection, ExecTypes, confVars
    <2>2. confirmation.token \in 1..issued
      BY <1>3 DEF RunProjection, ConfTypes, Confirmations
    <2>3. calls' \subseteq [id : 1..runs', token : 1..issued, kind : {"genuine", "tampered"},
                            changed : BOOLEAN]
      BY <1>3, <2>1, <2>2 DEF RunProjection, ExecTypes
    <2>4. running' = TRUE
      BY <1>3 DEF RunProjection
    <2> QED
      BY <2>1, <2>3, <2>4 DEF ExecTypes
  <1>4. ASSUME NEW c \in calls, NEW o \in Outcomes, RunAnswers(c, o) \/ RunRejected(c, o)
        PROVE  ExecTypes'
    <2>1. c.id \in 1..runs /\ c.token \in 1..issued /\ c.id \in 1..MaxRuns
      BY BoundsAreNat DEF ExecTypes
    <2>2. UNCHANGED <<runs, issued>> /\ reported' \in BOOLEAN /\ running' = FALSE
      BY <1>4 DEF RunAnswers, RunRejected, confVars, ReportsItself, Uses, CanReport
    <2>3. told' \in [1..MaxRuns -> Nat]
      BY <1>4, <2>1 DEF RunAnswers, RunRejected, ExecTypes
    <2>4. calls' \subseteq calls
      BY <1>4 DEF RunAnswers, RunRejected
    <2>5. answers' \subseteq [token : 1..issued, outcome : Outcomes]
      BY <1>4, <2>1 DEF RunAnswers, RunRejected, ExecTypes
    <2>6. execution' \in [id : 1..runs, token : 1..issued, outcome : Outcomes]
      BY <1>4, <2>1 DEF RunAnswers, RunRejected, Shown
    <2> QED
      BY <2>2, <2>3, <2>4, <2>5, <2>6 DEF ExecTypes
  <1>5. CASE Report
    <2>1. execution.id \in 1..MaxRuns
      BY <1>5, BoundsAreNat DEF Report, CanReport, ExecTypes
    <2>2. told' \in [1..MaxRuns -> Nat]
      BY <1>5, <2>1 DEF Report, ExecTypes
    <2> QED
      BY <1>2, <1>5, <2>2 DEF Report, ExecTypes
  <1>6. CASE Reset
    BY <1>2, <1>6 DEF Reset, ExecTypes
  <1>7. ASSUME NEW m \in streams, NEW v \in Verdicts, OnSpec(m, v)
        PROVE  ExecTypes'
    BY <1>2, <1>7 DEF OnSpec, ExecTypes
  <1>8. ASSUME NEW c \in confirms, ConfirmIssued(c)
        PROVE  ExecTypes'
    BY <1>2, <1>8 DEF ConfirmIssued, ExecTypes
  <1>9. CASE UNCHANGED execVars
    BY <1>2, <1>9 DEF ExecTypes, execVars
  <1>10. CASE UNCHANGED vars
    BY <1>9, <1>10 DEF vars
  <1> QED
    BY <1>3, <1>4, <1>5, <1>6, <1>7, <1>8, <1>9, <1>10
    DEF Next, Designer, Stream, ReconcileReturns, ConfirmReturns, RunReturns, Send,
        SetCompare, Toggle, Confirm, Run, RunTampered, SessionEvent, StreamEnds,
        ReconcileFails, ReconcileAnswers, ConfirmRefused, Outcomes

LEMMA TypeStep == TypeOK /\ [Next]_vars => TypeOK'
  <1> SUFFICES ASSUME TypeOK, [Next]_vars
               PROVE  TypeOK'
    OBVIOUS
  <1>1. ChatTypes' /\ compare' \in BOOLEAN
    BY ChatStep DEF TypeOK
  <1>2. CardTypes'
    BY CardStep DEF TypeOK
  <1>3. ConfTypes' /\ issued <= issued'
    BY ConfStep DEF TypeOK
  <1>4. ExecTypes'
    BY <1>3, ExecStep DEF TypeOK, ConfTypes
  <1> QED
    BY <1>1, <1>2, <1>3, <1>4 DEF TypeOK

-----------------------------------------------------------------------------
(* One stream on the bridge session.                                         *)

\* Who streams is shown, and the bridge side streams once: every action that opens
\* a stream there is behind a guard on the transcript.
BridgeInv ==
  /\ \A m \in streams : m.side = "bridge" => transcript["bridge"].streaming
  /\ \A m, n \in streams : m.side = "bridge" /\ n.side = "bridge" => m = n

LEMMA OpenBridge ==
  ASSUME ChatTypes, BridgeInv, NEW sides \in SUBSET Sides, NEW kind,
         ~transcript["bridge"].streaming, Open(sides, kind)
  PROVE  BridgeInv'
  <1> DEFINE opens(x) == [side |-> x, kind |-> kind, signal |-> opened + 1]
  <1>1. \A m \in streams : m.side # "bridge"
    BY DEF BridgeInv
  <1>2. streams' = streams \union {opens(x) : x \in sides}
    BY DEF Open
  <1>3. \A m \in streams' : m.side = "bridge" => m = opens("bridge") /\ "bridge" \in sides
    BY <1>1, <1>2
  <1>4. "bridge" \in sides => transcript'["bridge"].streaming
    BY DEF Open, ChatTypes, Sides
  <1> QED
    BY <1>3, <1>4 DEF BridgeInv

LEMMA BridgeStep == ChatTypes /\ BridgeInv /\ [Next]_vars => BridgeInv'
  <1> SUFFICES ASSUME ChatTypes, BridgeInv, [Next]_vars
               PROVE  BridgeInv'
    OBVIOUS
  <1>1. CASE Send
    BY <1>1, OpenBridge DEF Send, Busy, Sides
  <1>2. CASE Report
    BY <1>2, OpenBridge DEF Report, CanReport, Sides
  <1>3. ASSUME NEW c \in calls, NEW o \in Outcomes, RunAnswers(c, o)
        PROVE  BridgeInv'
    <2>1. CASE ReportsItself(c, o) /\ Open({"bridge"}, "report")
      BY <2>1, OpenBridge DEF ReportsItself, CanReport, Sides
    <2>2. CASE UNCHANGED chatVars
      BY <2>2 DEF chatVars, BridgeInv
    <2> QED
      BY <1>3, <2>1, <2>2 DEF RunAnswers
  <1>4. CASE Reset
    BY <1>4 DEF Reset, BridgeInv
  <1>5. ASSUME NEW m \in streams, SessionEvent(m)
        PROVE  BridgeInv'
    BY <1>5 DEF SessionEvent, ChatTypes, BridgeInv
  <1>6. ASSUME NEW m \in streams, StreamEnds(m)
        PROVE  BridgeInv'
    BY <1>6 DEF StreamEnds, ChatTypes, BridgeInv
  <1>7. CASE UNCHANGED chatVars
    BY <1>7 DEF chatVars, BridgeInv
  <1>8. CASE UNCHANGED vars
    BY <1>7, <1>8 DEF vars
  <1> QED
    BY <1>1, <1>2, <1>3, <1>4, <1>5, <1>6, <1>7, <1>8
    DEF Next, Designer, Stream, ReconcileReturns, ConfirmReturns, RunReturns, Outcomes,
        SetCompare, Toggle, Confirm, Run, RunTampered, RunProjection, OnSpec,
        ReconcileFails, ReconcileAnswers, ConfirmIssued, ConfirmRefused, RunRejected

LEMMA BridgeInvMeansOne == BridgeInv => OneBridgeStream
  <1> SUFFICES ASSUME BridgeInv
               PROVE  OneBridgeStream
    OBVIOUS
  <1> DEFINE on == {m \in streams : m.side = "bridge"}
  <1>1. CASE on = {}
    BY <1>1, FS_EmptySet DEF OneBridgeStream
  <1>2. ASSUME NEW m \in on
        PROVE  OneBridgeStream
    <2>1. on = {m}
      BY DEF BridgeInv
    <2>2. Cardinality({m}) = 1
      BY FS_Singleton
    <2> QED
      BY <2>1, <2>2 DEF OneBridgeStream
  <1> QED
    BY <1>1, <1>2

-----------------------------------------------------------------------------
(* What the model is told, and which tokens are offered.                     *)

\* An execution under way has not been told of; the one shown has been told of at
\* most once, and not at all while it may still be reported.
ToldInv ==
  /\ \A i \in 1..MaxRuns : told[i] <= 1 /\ (runs < i => told[i] = 0)
  /\ \A c \in calls : told[c.id] = 0
  /\ \A c, e \in calls : c.id = e.id => c = e
  /\ execution # None =>
       /\ \A c \in calls : c.id # execution.id
       /\ ~reported => told[execution.id] = 0

LEMMA ToldStep == ExecTypes /\ ToldInv /\ [Next]_vars => ToldInv'
  <1> SUFFICES ASSUME ExecTypes, ToldInv, [Next]_vars
               PROVE  ToldInv'
    OBVIOUS
  <1>1. ASSUME NEW kind \in {"genuine", "tampered"}, NEW changed \in BOOLEAN,
               RunProjection(kind, changed)
        PROVE  ToldInv'
    <2> DEFINE new == [id |-> runs', token |-> confirmation.token,
                       kind |-> kind, changed |-> changed]
    <2>1. /\ runs' = runs + 1 /\ runs' \in 1..MaxRuns /\ calls' = calls \union {new}
          /\ UNCHANGED <<told, execution, reported>>
      BY <1>1, BoundsAreNat DEF RunProjection, ExecTypes
    <2>2. \A c \in calls : c.id \in 1..runs /\ c.id # runs'
      BY <2>1 DEF ExecTypes
    <2>3. told[new.id] = 0
      BY <2>1 DEF ToldInv, ExecTypes
    <2>4. execution # None => execution.id # runs'
      BY <2>1 DEF ExecTypes
    <2>5. \A i \in 1..MaxRuns : runs' < i => runs < i
      BY <2>1 DEF ExecTypes
    <2> QED
      BY <2>1, <2>2, <2>3, <2>4, <2>5 DEF ToldInv
  <1>2. ASSUME NEW c \in calls, NEW o \in Outcomes, RunAnswers(c, o) \/ RunRejected(c, o)
        PROVE  ToldInv'
    <2>1. /\ c.id \in 1..MaxRuns /\ c.id <= runs /\ told[c.id] = 0
          /\ \A e \in calls \ {c} : e.id # c.id /\ e.id \in 1..MaxRuns
      BY BoundsAreNat DEF ExecTypes, ToldInv
    <2>2. /\ runs' = runs /\ calls' = calls \ {c} /\ execution' = Shown(c, o)
          /\ \/ told' = told
             \/ told' = [told EXCEPT ![c.id] = @ + 1] /\ reported'
      BY <1>2 DEF RunAnswers, RunRejected
    <2>3. \A i \in 1..MaxRuns : told'[i] <= 1 /\ (runs < i => told'[i] = 0)
      <3>1. /\ runs \in Nat /\ told \in [1..MaxRuns -> Nat]
            /\ \A i \in 1..MaxRuns : told[i] <= 1 /\ (runs < i => told[i] = 0)
        BY BoundsAreNat DEF ToldInv, ExecTypes
      <3>2. told'[c.id] \in {0, 1}
        <4>1. CASE told' = told
          BY <2>1, <4>1
        <4>2. CASE told' = [told EXCEPT ![c.id] = @ + 1]
          BY <2>1, <3>1, <4>2
        <4> QED
          BY <2>2, <4>1, <4>2
      <3>3. \A i \in 1..MaxRuns \ {c.id} : told'[i] = told[i]
        BY <2>1, <2>2, <3>1
      <3>4. ~(runs < c.id)
        BY <2>1, <3>1
      <3> QED
        BY <3>1, <3>2, <3>3, <3>4
    <2>4. \A e \in calls' : told'[e.id] = 0
      <3> SUFFICES ASSUME NEW e \in calls \ {c}
                   PROVE  told'[e.id] = 0
        BY <2>2
      <3>1. told[e.id] = 0 /\ e.id \in 1..MaxRuns /\ e.id # c.id
        BY <2>1 DEF ToldInv
      <3> QED
        BY <2>2, <3>1 DEF ExecTypes
    <2>5. ~reported' => told'[c.id] = 0
      BY <2>1, <2>2
    <2> QED
      BY <2>1, <2>2, <2>3, <2>4, <2>5 DEF ToldInv, Shown
  <1>3. CASE Report
    <2>1. /\ execution # None /\ ~reported /\ execution.id \in 1..MaxRuns
          /\ execution.id <= runs /\ reported'
          /\ told' = [told EXCEPT ![execution.id] = @ + 1]
          /\ UNCHANGED <<calls, runs, execution>>
      BY <1>3, BoundsAreNat DEF Report, CanReport, ExecTypes
    <2>2. told[execution.id] = 0 /\ \A c \in calls : c.id # execution.id
      BY <2>1 DEF ToldInv
    <2>3. \A i \in 1..MaxRuns : told'[i] <= 1 /\ (runs < i => told'[i] = 0)
      BY <2>1, <2>2 DEF ToldInv, ExecTypes
    <2>4. \A c \in calls : told'[c.id] = 0
      BY <2>1, <2>2, BoundsAreNat DEF ToldInv, ExecTypes
    <2> QED
      BY <2>1, <2>2, <2>3, <2>4 DEF ToldInv
  <1>4. CASE Reset
    BY <1>4 DEF Reset, ToldInv
  <1>5. ASSUME NEW m \in streams, NEW v \in Verdicts, OnSpec(m, v)
        PROVE  ToldInv'
    BY <1>5 DEF OnSpec, ToldInv
  <1>6. ASSUME NEW c \in confirms, ConfirmIssued(c)
        PROVE  ToldInv'
    BY <1>6 DEF ConfirmIssued, ToldInv
  <1>7. CASE UNCHANGED execVars
    BY <1>7 DEF execVars, ToldInv
  <1>8. CASE UNCHANGED vars
    BY <1>7, <1>8 DEF vars
  <1> QED
    BY <1>1, <1>2, <1>3, <1>4, <1>5, <1>6, <1>7, <1>8
    DEF Next, Designer, Stream, ReconcileReturns, ConfirmReturns, RunReturns, Outcomes,
        Send, SetCompare, Toggle, Confirm, Run, RunTampered, SessionEvent, StreamEnds,
        ReconcileFails, ReconcileAnswers, ConfirmRefused

LEMMA SpentStep == ConfTypes /\ ExecTypes /\ KnownSpentIsUsed /\ [Next]_vars
                     => KnownSpentIsUsed'
  <1> SUFFICES ASSUME ConfTypes, ExecTypes, KnownSpentIsUsed, [Next]_vars
               PROVE  KnownSpentIsUsed'
    OBVIOUS
  <1>1. ASSUME NEW c \in confirms, ConfirmIssued(c)
        PROVE  KnownSpentIsUsed'
    <2>1. /\ confirmation' # None => confirmation'.token = issued + 1
          /\ answers' = answers
      BY <1>1 DEF ConfirmIssued
    <2>2. \A a \in answers : a.token # issued + 1
      BY DEF ExecTypes, ConfTypes
    <2> QED
      BY <2>1, <2>2 DEF KnownSpentIsUsed
  <1>2. ASSUME NEW c \in calls, NEW o \in Outcomes, RunAnswers(c, o)
        PROVE  KnownSpentIsUsed'
    <2>1. answers' = answers \union {[token |-> c.token, outcome |-> o]}
      BY <1>2 DEF RunAnswers
    <2>2. CASE confirmation # None /\ Uses(o)
      <3>1. confirmation \in Confirmations /\ confirmation' = [confirmation EXCEPT !.used = TRUE]
        BY <1>2, <2>2 DEF RunAnswers, ConfTypes
      <3> QED
        BY <3>1 DEF KnownSpentIsUsed, Confirmations
    <2>3. CASE ~(confirmation # None /\ Uses(o))
      <3>1. confirmation' = confirmation /\ (confirmation # None => o = "refused")
        BY <1>2, <2>3 DEF RunAnswers, Uses
      <3> QED
        BY <2>1, <3>1 DEF KnownSpentIsUsed
    <2> QED
      BY <2>2, <2>3
  <1>3. ASSUME NEW c \in calls, NEW o \in Outcomes, RunRejected(c, o)
        PROVE  KnownSpentIsUsed'
    <2>1. /\ answers' = answers \union {[token |-> c.token, outcome |-> o]}
          /\ confirmation' = confirmation /\ o \notin {"success", "failed"}
      BY <1>3 DEF RunRejected, confVars, Rejections
    <2> QED
      BY <2>1 DEF KnownSpentIsUsed
  <1>4. CASE UNCHANGED answers /\ confirmation' \in {confirmation, None}
    BY <1>4 DEF KnownSpentIsUsed
  <1>5. CASE UNCHANGED vars
    BY <1>5 DEF vars, KnownSpentIsUsed, confVars, execVars
  <1> QED
    BY <1>1, <1>2, <1>3, <1>4, <1>5
    DEF Next, Designer, Stream, ReconcileReturns, ConfirmReturns, RunReturns, Outcomes,
        confVars, execVars, Send, SetCompare, Toggle, Confirm, Run, RunTampered,
        RunProjection, Report, Reset, OnSpec, SessionEvent, StreamEnds, ReconcileFails,
        ReconcileAnswers, ConfirmRefused

-----------------------------------------------------------------------------
(* The verdict that lights Confirm.                                          *)

\* A verdict that stands, with no reconcile awaited or failed, is on the draft.
VerdictInv ==
  proposal # None /\ ~proposal.reconciling /\ ~proposal.failed
    => proposal.about = proposal.draft

LEMMA VerdictStep == CardTypes /\ VerdictInv /\ [Next]_vars => VerdictInv'
  <1> SUFFICES ASSUME CardTypes, VerdictInv, [Next]_vars
               PROVE  VerdictInv'
    OBVIOUS
  <1>1. ASSUME NEW m \in streams, NEW v \in Verdicts, OnSpec(m, v)
        PROVE  VerdictInv'
    BY <1>1 DEF OnSpec, Proposed, VerdictInv
  <1>2. CASE Toggle
    BY <1>2 DEF Toggle, CardTypes, Proposals, VerdictInv
  <1>3. ASSUME NEW d \in reconciles, ReconcileFails(d)
        PROVE  VerdictInv'
    BY <1>3 DEF ReconcileFails, NotReconciled, IsDraft, CardTypes, Proposals, VerdictInv
  <1>4. ASSUME NEW d \in reconciles, NEW v \in {"open", "ready"}, ReconcileAnswers(d, v)
        PROVE  VerdictInv'
    BY <1>4 DEF ReconcileAnswers, IsDraft, CardTypes, Proposals, VerdictInv
  <1>5. CASE proposal' \in {proposal, None}
    BY <1>5 DEF VerdictInv
  <1>6. CASE UNCHANGED vars
    BY <1>6 DEF vars, cardVars, VerdictInv
  <1> QED
    BY <1>1, <1>2, <1>3, <1>4, <1>5, <1>6
    DEF Next, Designer, Stream, ReconcileReturns, ConfirmReturns, RunReturns, cardVars,
        Send, SetCompare, Confirm, Run, RunTampered, RunProjection, Report, Reset,
        SessionEvent, StreamEnds, ConfirmIssued, ConfirmRefused, RunAnswers, RunRejected

-----------------------------------------------------------------------------
\* The inductive invariant.
FlowInv ==
  /\ TypeOK
  /\ BridgeInv
  /\ ToldInv
  /\ KnownSpentIsUsed
  /\ VerdictInv

LEMMA InitInv == Init => FlowInv
  <1> SUFFICES ASSUME Init
               PROVE  FlowInv
    OBVIOUS
  <1>1. ChatTypes /\ BridgeInv
    BY DEF Init, ChatTypes, BridgeInv
  <1>2. CardTypes /\ VerdictInv
    BY BoundsAreNat DEF Init, CardTypes, VerdictInv
  <1>3. ConfTypes
    BY DEF Init, ConfTypes
  <1>4. ExecTypes /\ ToldInv /\ KnownSpentIsUsed
    <2>1. told = [i \in 1..MaxRuns |-> 0] /\ runs \in 0..MaxRuns
      BY BoundsAreNat DEF Init
    <2>2. ExecTypes
      <3>1. told \in [1..MaxRuns -> Nat]
        BY <2>1
      <3>2. calls = {} /\ answers = {} /\ execution = None
        BY DEF Init
      <3>3. running \in BOOLEAN /\ reported \in BOOLEAN
        BY DEF Init
      <3> QED
        BY <2>1, <3>1, <3>2, <3>3 DEF ExecTypes
    <2>3. ToldInv
      BY <2>1 DEF Init, ToldInv
    <2> QED
      BY <2>2, <2>3 DEF Init, KnownSpentIsUsed
  <1> QED
    BY <1>1, <1>2, <1>3, <1>4 DEF Init, FlowInv, TypeOK

LEMMA InvStep == FlowInv /\ [Next]_vars => FlowInv'
  BY TypeStep, BridgeStep, ToldStep, SpentStep, VerdictStep DEF FlowInv, TypeOK

LEMMA Invariance == Spec => []FlowInv
  BY InitInv, InvStep, PTL DEF Spec

\* The variables keep their types, for every bound.
THEOREM TypeCorrect == Spec => []TypeOK
  BY Invariance, PTL DEF FlowInv

\* The page never has two requests open on the bridge session (send, run, report, reset).
THEOREM OneStreamOnTheBridge == Spec => []OneBridgeStream
  BY Invariance, BridgeInvMeansOne, PTL DEF FlowInv

\* The model is told of an execution once (run and its report, the Report button).
THEOREM ExecutionsAreToldOnce == Spec => []ToldOnce
  <1>1. FlowInv => ToldOnce
    BY DEF FlowInv, ToldInv, ToldOnce
  <1> QED
    BY <1>1, Invariance, PTL

\* A token known to be spent is marked used, however late its run is answered
\* (runProjection, confirm).
THEOREM KnownSpentTokensAreUsed == Spec => []KnownSpentIsUsed
  BY Invariance, PTL DEF FlowInv

\* Unless the last reconcile failed, Confirm is lit by a verdict on the draft it would
\* confirm (toggleInterpretation, onSpec).
THEOREM ReadyIsOfTheDraft == Spec => []ReadyIsOfDraft
  <1>1. FlowInv => ReadyIsOfDraft
    BY DEF FlowInv, VerdictInv, ReadyIsOfDraft, CanConfirm
  <1> QED
    BY <1>1, Invariance, PTL

-----------------------------------------------------------------------------
(* The stream of the chat: its events, and the symbols they are sent as.   *)

\* The events with a name; a text has none.
Named == {"spec", "execution", "done", "error"}

Events == Tokens \union Named

Symbols == Events \union Field \union {LF, Torn}

\* A set of numbers has a least one.
LEMMA LeastNatural ==
  ASSUME NEW T, T \subseteq Nat, T # {}
  PROVE  \E n \in T : \A m \in T : n <= m
  <1> DEFINE R == {ss \in Nat \X Nat : ss[1] < ss[2]}
  <1>1. IsWellFoundedOn(R, Nat)
    BY NatLessThanWellFounded DEF OpToRel
  <1>2. \E n \in T : \A m \in T : ~ (<<m, n>> \in R)
    <2> HIDE DEF R
    <2> QED
      BY <1>1, WFMin
  <1>3. PICK n \in T : \A m \in T : ~ (<<m, n>> \in R)
    BY <1>2
  <1>4. \A m \in T : n <= m
    <2> SUFFICES ASSUME NEW m \in T PROVE n <= m
      OBVIOUS
    <2>1. m \in Nat /\ n \in Nat /\ ~ (<<m, n>> \in R)
      BY <1>3
    <2> QED
      BY <2>1
  <1> QED
    BY <1>4

-----------------------------------------------------------------------------
(* Frames.                                                                   *)

\* A text has a frame of one line.
LEMMA FrameOfToken ==
  ASSUME NEW e \in Tokens
  PROVE  /\ Frame(e) \in Seq(Symbols) /\ Len(Frame(e)) = 4
         /\ Frame(e)[1] = "data:" /\ Frame(e)[2] = e /\ Frame(e)[3] = LF /\ Frame(e)[4] = LF
  <1>1. Frame(e) = <<"data:", e, LF, LF>>
    BY DEF Frame
  <1>2. e \in Symbols /\ "data:" \in Symbols /\ LF \in Symbols
    BY DEF Symbols, Events, Field
  <1> QED
    BY <1>1, <1>2

\* A named event has a frame of two.
LEMMA FrameOfNamed ==
  ASSUME NEW e \in Named
  PROVE  /\ Frame(e) \in Seq(Symbols) /\ Len(Frame(e)) = 7
         /\ Frame(e)[1] = "event:" /\ Frame(e)[2] = e /\ Frame(e)[3] = LF
         /\ Frame(e)[4] = "data:" /\ Frame(e)[5] = e /\ Frame(e)[6] = LF /\ Frame(e)[7] = LF
  <1>1. Frame(e) = <<"event:", e, LF, "data:", e, LF, LF>>
    BY TokensAreTexts DEF Frame, Named
  <1>2. e \in Symbols /\ "data:" \in Symbols /\ "event:" \in Symbols /\ LF \in Symbols
    BY DEF Symbols, Events, Field
  <1> QED
    BY <1>1, <1>2

\* The value behind a field that is there once.
LEMMA ValueIs ==
  ASSUME NEW f \in Seq(Symbols), NEW field, NEW i \in 1..(Len(f) - 1),
         f[i] = field, f[i + 1] # LF, \A j \in 1..(Len(f) - 1) : f[j] = field => j = i
  PROVE  ValueOf(field, f) = f[i + 1]
  <1> DEFINE P(j) == j \in 1..(Len(f) - 1) /\ f[j] = field /\ f[j + 1] # LF
  <1>1. P(i) /\ \A j : P(j) => j = i
    OBVIOUS
  <1>2. i = CHOOSE j \in 1..(Len(f) - 1) : f[j] = field /\ f[j + 1] # LF
    BY <1>1
  <1>3. ValueOf(field, f) = f[1 + CHOOSE j \in 1..(Len(f) - 1) : f[j] = field /\ f[j + 1] # LF]
    BY <1>1 DEF ValueOf
  <1>4. 1 + i = i + 1
    OBVIOUS
  <1> QED
    BY <1>2, <1>3, <1>4

\* A field without a value behind it.
LEMMA NoValue ==
  ASSUME NEW f \in Seq(Symbols), NEW field,
         \A j \in 1..(Len(f) - 1) : f[j] = field => f[j + 1] = LF
  PROVE  ValueOf(field, f) = ""
  BY DEF ValueOf

\* What a line says, and another does not.
LEMMA Distinct ==
  /\ \A e \in Events : e \notin Field /\ e \notin {LF, Torn, "", Nil}
  /\ "event:" # "data:" /\ Field \cap {LF, Torn, "", Nil} = {}
  /\ LF \notin {Torn, "", Nil} /\ Torn \notin {"", Nil} /\ Tokens \cap Named = {}
  BY TokensAreTexts DEF Events, Named, Field, LF, Torn, Nil

\* The value behind the i-th symbol, the only field of its kind.
LEMMA TheValue ==
  ASSUME NEW f \in Seq(Symbols), NEW i \in 1..Len(f), NEW field, f[i] = field,
         \A j \in 1..Len(f) : f[j] = field => j = i,
         i + 1 <= Len(f) => f[i + 1] # LF
  PROVE  ValueOf(field, f) = IF i + 1 <= Len(f) THEN f[i + 1] ELSE ""
  <1>1. Len(f) \in Nat
    BY LenProperties
  <1>2. CASE i + 1 <= Len(f)
    BY <1>1, <1>2, ValueIs
  <1>3. CASE ~(i + 1 <= Len(f))
    <2>1. \A j \in 1..(Len(f) - 1) : f[j] # field
      BY <1>1, <1>3
    <2> QED
      BY <1>3, <2>1, NoValue
  <1> QED
    BY <1>2, <1>3

\* A field that is not there.
LEMMA NoField ==
  ASSUME NEW f \in Seq(Symbols), NEW field, \A j \in 1..Len(f) : f[j] # field
  PROVE  ValueOf(field, f) = ""
  <1>1. \A j \in 1..(Len(f) - 1) : f[j] # field
    BY LenProperties
  <1> QED
    BY <1>1, NoValue

\* What is read of the frame of a text from its first symbol on.
LEMMA TokenIsRead ==
  ASSUME NEW e \in Tokens, NEW f \in Seq(Symbols), NEW v \in {e, Torn},
         \A j \in 1..Len(f) : \/ j = 1 /\ f[j] = "data:"
                              \/ j = 2 /\ f[j] = v
                              \/ j = 3 /\ f[j] = LF
  PROVE  parseSseFrame(f) = IF Len(f) >= 2 /\ v = e THEN e ELSE Nil
  <1>1. e \in Events /\ v \notin {"data:", "event:", LF, "done", "error", ""}
    BY TokensAreTexts, Distinct DEF Events, Field, Torn
  <1>2. Len(f) \in Nat
    BY LenProperties
  <1>3. ValueOf("event:", f) = ""
    <2>1. \A j \in 1..Len(f) : f[j] # "event:"
      BY <1>1, Distinct DEF Field
    <2> QED
      BY <2>1, NoField
  <1>4. CASE Len(f) = 0
    <2>1. ~HasData(f)
      BY <1>4 DEF HasData
    <2> QED
      BY <1>4, <2>1 DEF parseSseFrame
  <1>5. CASE Len(f) >= 1
    <2>1. 1 \in 1..Len(f)
      BY <1>2, <1>5
    <2>2. f[1] = "data:" /\ \A j \in 1..Len(f) : f[j] = "data:" => j = 1
      <3>1. f[1] = "data:"
        BY <2>1
      <3>2. \A j \in 1..Len(f) : j # 1 => f[j] \in {v, LF}
        OBVIOUS
      <3>3. "data:" \notin {v, LF}
        BY <1>1 DEF LF
      <3> QED
        BY <3>1, <3>2, <3>3
    <2>3. 1 + 1 <= Len(f) => f[1 + 1] = v
      <3> HAVE 1 + 1 <= Len(f)
      <3>1. 2 \in 1..Len(f) /\ 1 + 1 = 2
        BY <1>2
      <3> QED
        BY <3>1
    <2>4. ValueOf("data:", f) = IF Len(f) >= 2 THEN v ELSE ""
      <3>1. ValueOf("data:", f) = IF 1 + 1 <= Len(f) THEN f[1 + 1] ELSE ""
        BY <1>1, <2>1, <2>2, <2>3, TheValue
      <3>2. 1 + 1 <= Len(f) <=> Len(f) >= 2
        BY <1>2
      <3> QED
        BY <2>3, <3>1, <3>2
    <2>5. HasData(f)
      BY <2>1, <2>2 DEF HasData
    <2>6. "" \notin Tokens /\ Torn \notin Tokens
      BY TokensAreTexts DEF Torn
    <2>7. parseSseFrame(f) = IF ValueOf("data:", f) \in Tokens THEN ValueOf("data:", f) ELSE Nil
      BY <1>1, <1>3, <2>4, <2>5 DEF parseSseFrame
    <2> QED
      BY <2>4, <2>6, <2>7
  <1> QED
    BY <1>2, <1>4, <1>5

\* What is read of the frame of a named event.
LEMMA NamedIsRead ==
  ASSUME NEW e \in Named, NEW f \in Seq(Symbols), NEW u \in {e, Torn}, NEW v \in {e, Torn},
         Len(f) >= 3 => u = e,
         \A j \in 1..Len(f) : \/ j = 1 /\ f[j] = "event:"
                              \/ j = 2 /\ f[j] = u
                              \/ j = 3 /\ f[j] = LF
                              \/ j = 4 /\ f[j] = "data:"
                              \/ j = 5 /\ f[j] = v
                              \/ j = 6 /\ f[j] = LF
  PROVE  parseSseFrame(f) = IF (Len(f) >= 5 /\ v = e) \/ (Len(f) >= 4 /\ e \in {"done", "error"})
                             THEN e ELSE Nil
  <1>1. /\ e \in Events /\ u \notin {"data:", "event:", LF, ""} /\ v \notin {"data:", "event:", LF, ""}
        /\ e \notin Tokens /\ Torn \notin Named
    BY TokensAreTexts, Distinct DEF Events, Field, Torn, Named
  <1>2. Len(f) \in Nat
    BY LenProperties
  <1>3. CASE Len(f) < 4
    <2>1. \A j \in 1..Len(f) : j < 4
      BY <1>2, <1>3
    <2>2. \A j \in 1..Len(f) : f[j] # "data:"
      <3>1. \A j \in 1..Len(f) : f[j] \in {"event:", u, LF}
        BY <2>1
      <3>2. "data:" \notin {"event:", u, LF}
        BY <1>1 DEF LF
      <3> QED
        BY <3>1, <3>2
    <2>3. ~HasData(f)
      BY <2>2 DEF HasData
    <2> QED
      BY <1>2, <1>3, <2>3 DEF parseSseFrame
  <1>4. CASE Len(f) >= 4
    <2>1. 1 \in 1..Len(f) /\ 2 \in 1..Len(f) /\ 4 \in 1..Len(f) /\ u = e
      BY <1>2, <1>4
    <2>2. f[1] = "event:" /\ f[2] = e /\ \A j \in 1..Len(f) : f[j] = "event:" => j = 1
      <3>1. f[1] = "event:" /\ f[2] = u
        BY <2>1
      <3>2. \A j \in 1..Len(f) : j # 1 => f[j] \in {"data:", u, v, LF}
        OBVIOUS
      <3>3. "event:" \notin {"data:", u, v, LF}
        BY <1>1 DEF LF
      <3> QED
        BY <2>1, <3>1, <3>2, <3>3
    <2>3. f[4] = "data:" /\ \A j \in 1..Len(f) : f[j] = "data:" => j = 4
      <3>1. f[4] = "data:"
        BY <2>1
      <3>2. \A j \in 1..Len(f) : j # 4 => f[j] \in {"event:", u, v, LF}
        OBVIOUS
      <3>3. "data:" \notin {"event:", u, v, LF}
        BY <1>1 DEF LF
      <3> QED
        BY <3>1, <3>2, <3>3
    <2>4. ValueOf("event:", f) = e
      <3>1. 1 + 1 = 2 /\ 1 + 1 <= Len(f)
        BY <1>2, <1>4
      <3>2. f[1 + 1] # LF
        BY <1>1, <2>1, <2>2, <3>1
      <3>3. ValueOf("event:", f) = IF 1 + 1 <= Len(f) THEN f[1 + 1] ELSE ""
        BY <2>1, <2>2, <3>2, TheValue
      <3> QED
        BY <2>2, <3>1, <3>3
    <2>5. 4 + 1 <= Len(f) => f[4 + 1] = v
      <3> HAVE 4 + 1 <= Len(f)
      <3>1. 5 \in 1..Len(f) /\ 4 + 1 = 5
        BY <1>2
      <3> QED
        BY <3>1
    <2>6. ValueOf("data:", f) = IF Len(f) >= 5 THEN v ELSE ""
      <3>1. ValueOf("data:", f) = IF 4 + 1 <= Len(f) THEN f[4 + 1] ELSE ""
        BY <1>1, <2>1, <2>3, <2>5, TheValue
      <3>2. 4 + 1 <= Len(f) <=> Len(f) >= 5
        BY <1>2
      <3> QED
        BY <2>5, <3>1, <3>2
    <2>7. HasData(f)
      BY <2>1, <2>3 DEF HasData
    <2>8. e = "done" => parseSseFrame(f) = e
      BY <2>4, <2>7 DEF parseSseFrame
    <2>9. v # "done" \/ e = "done"
      BY DEF Torn
    <2>10. e = "error" => parseSseFrame(f) = e
      BY <2>4, <2>6, <2>7, <2>9 DEF parseSseFrame
    <2>11. e \in {"spec", "execution"} =>
             parseSseFrame(f) = IF Len(f) >= 5 /\ v = e THEN e ELSE Nil
      <3> HAVE e \in {"spec", "execution"}
      <3>1. ValueOf("data:", f) # "done" /\ e \notin {"done", "error", ""}
        BY <2>6, <2>9
      <3>2. parseSseFrame(f) = IF ValueOf("data:", f) = e THEN e ELSE Nil
        BY <2>4, <2>7, <3>1 DEF parseSseFrame
      <3> QED
        BY <2>6, <3>1, <3>2
    <2> QED
      <3>1. CASE e \in {"done", "error"}
        BY <1>4, <2>8, <2>10, <3>1
      <3>2. CASE e \in {"spec", "execution"}
        <4>1. e \notin {"done", "error"}
          BY <3>2
        <4>2. ((Len(f) >= 5 /\ v = e) \/ (Len(f) >= 4 /\ e \in {"done", "error"}))
               <=> (Len(f) >= 5 /\ v = e)
          BY <4>1
        <4> QED
          BY <2>11, <3>2, <4>2
      <3> QED
        BY <3>1, <3>2 DEF Named
  <1> QED
    BY <1>2, <1>3, <1>4

\* A frame without the empty line that ends it is read as its event.
LEMMA BodyIsRead ==
  ASSUME NEW e \in Events, NEW f \in Seq(Symbols), Len(f) + 2 = Len(Frame(e)),
         \A j \in 1..Len(f) : f[j] = Frame(e)[j]
  PROVE  parseSseFrame(f) = e
  <1>0. Len(f) \in Nat
    BY LenProperties
  <1>1. CASE e \in Tokens
    <2>1. Len(Frame(e)) = 4 /\ Frame(e)[1] = "data:" /\ Frame(e)[2] = e
      BY <1>1, FrameOfToken
    <2>2. Len(f) = 2
      <3>1. Len(f) + 2 = 4
        BY <2>1
      <3>2. \A n \in Nat : n + 2 = 4 => n = 2
        OBVIOUS
      <3> QED
        BY <1>0, <3>1, <3>2
    <2>3. \A j \in 1..Len(f) : \/ j = 1 /\ f[j] = "data:"
                               \/ j = 2 /\ f[j] = e
      BY <2>1, <2>2
    <2>4. \A j \in 1..Len(f) : \/ j = 1 /\ f[j] = "data:"
                               \/ j = 2 /\ f[j] = e
                               \/ j = 3 /\ f[j] = LF
      BY <2>3
    <2>5. e \in {e, Torn} /\ Len(f) >= 2
      BY <2>2
    <2> QED
      BY <1>1, <2>4, <2>5, TokenIsRead
  <1>2. CASE e \in Named
    <2>1. /\ Len(Frame(e)) = 7 /\ Frame(e)[1] = "event:" /\ Frame(e)[2] = e /\ Frame(e)[3] = LF
          /\ Frame(e)[4] = "data:" /\ Frame(e)[5] = e
      BY <1>2, FrameOfNamed
    <2>2. Len(f) = 5
      <3>1. Len(f) + 2 = 7
        BY <2>1
      <3>2. \A n \in Nat : n + 2 = 7 => n = 5
        OBVIOUS
      <3> QED
        BY <1>0, <3>1, <3>2
    <2>3. \A j \in 1..Len(f) : \/ j = 1 /\ f[j] = "event:"
                               \/ j = 2 /\ f[j] = e
                               \/ j = 3 /\ f[j] = LF
                               \/ j = 4 /\ f[j] = "data:"
                               \/ j = 5 /\ f[j] = e
      <3>1. \A j \in 1..Len(f) : j = 1 \/ j = 2 \/ j = 3 \/ j = 4 \/ j = 5
        BY <2>2
      <3> QED
        BY <2>1, <3>1
    <2>4. \A j \in 1..Len(f) : \/ j = 1 /\ f[j] = "event:"
                               \/ j = 2 /\ f[j] = e
                               \/ j = 3 /\ f[j] = LF
                               \/ j = 4 /\ f[j] = "data:"
                               \/ j = 5 /\ f[j] = e
                               \/ j = 6 /\ f[j] = LF
      BY <2>3
    <2>5. e \in {e, Torn} /\ Len(f) >= 5 /\ (Len(f) >= 3 => e = e)
      BY <2>2
    <2> QED
      BY <1>2, <2>4, <2>5, NamedIsRead
  <1> QED
    BY <1>1, <1>2 DEF Events

\* The symbols of a part of a frame, the last value of which may be torn.
PartOf(f, e) ==
  /\ f \in Seq(Symbols) /\ Len(f) < Len(Frame(e))
  /\ \A j \in 1..Len(f) :
       \/ f[j] = Frame(e)[j]
       \/ j = Len(f) /\ f[j] = Torn /\ Frame(e)[j] \notin Field \union {LF}

\* A part of a frame is read as the event it is of, or not at all.
LEMMA PartIsRead ==
  ASSUME NEW e \in Events, NEW f, PartOf(f, e)
  PROVE  parseSseFrame(f) \in {e, Nil}
  <1>0. f \in Seq(Symbols) /\ Len(f) \in Nat
    BY LenProperties DEF PartOf
  <1> DEFINE partial(j) == j = Len(f) /\ f[j] = Torn /\ Frame(e)[j] \notin Field \union {LF}
  <1>1. CASE e \in Tokens
    <2>1. /\ Len(Frame(e)) = 4 /\ Frame(e)[1] = "data:" /\ Frame(e)[2] = e /\ Frame(e)[3] = LF
      BY <1>1, FrameOfToken
    <2>2. \A j \in 1..Len(f) : j = 1 \/ j = 2 \/ j = 3
      BY <1>0, <2>1 DEF PartOf
    <2>3. \A j \in 1..Len(f) : f[j] = Frame(e)[j] \/ partial(j)
      BY DEF PartOf
    <2> DEFINE v == IF Len(f) = 2 THEN f[2] ELSE e
    <2>5. v \in {e, Torn}
      <3>1. Len(f) = 2 => 2 \in 1..Len(f)
        OBVIOUS
      <3> QED
        BY <2>1, <2>3, <3>1
    <2>6. \A j \in 1..Len(f) : \/ j = 1 /\ f[j] = "data:"
                               \/ j = 2 /\ f[j] = v
                               \/ j = 3 /\ f[j] = LF
      BY <2>1, <2>2, <2>3 DEF Field
    <2> HIDE DEF v
    <2>7. parseSseFrame(f) = IF Len(f) >= 2 /\ v = e THEN e ELSE Nil
      BY <1>0, <1>1, <2>5, <2>6, TokenIsRead
    <2> QED
      BY <2>7
  <1>2. CASE e \in Named
    <2>1. /\ Len(Frame(e)) = 7 /\ Frame(e)[1] = "event:" /\ Frame(e)[2] = e /\ Frame(e)[3] = LF
          /\ Frame(e)[4] = "data:" /\ Frame(e)[5] = e /\ Frame(e)[6] = LF
      BY <1>2, FrameOfNamed
    <2>2. \A j \in 1..Len(f) : j = 1 \/ j = 2 \/ j = 3 \/ j = 4 \/ j = 5 \/ j = 6
      BY <1>0, <2>1 DEF PartOf
    <2>3. \A j \in 1..Len(f) : f[j] = Frame(e)[j] \/ partial(j)
      BY DEF PartOf
    <2> DEFINE u == IF Len(f) = 2 THEN f[2] ELSE e
               v == IF Len(f) = 5 THEN f[5] ELSE e
    <2>4. u \in {e, Torn}
      <3>1. Len(f) = 2 => 2 \in 1..Len(f)
        OBVIOUS
      <3> QED
        BY <2>1, <2>3, <3>1
    <2>5. v \in {e, Torn}
      <3>1. Len(f) = 5 => 5 \in 1..Len(f)
        OBVIOUS
      <3> QED
        BY <2>1, <2>3, <3>1
    <2>6. \A j \in 1..Len(f) : \/ j = 1 /\ f[j] = "event:"
                               \/ j = 2 /\ f[j] = u
                               \/ j = 3 /\ f[j] = LF
                               \/ j = 4 /\ f[j] = "data:"
                               \/ j = 5 /\ f[j] = v
                               \/ j = 6 /\ f[j] = LF
      BY <2>1, <2>2, <2>3 DEF Field
    <2>7. Len(f) >= 3 => u = e
      <3>1. \A n \in Nat : n >= 3 => n # 2
        OBVIOUS
      <3> QED
        BY <1>0, <3>1
    <2> HIDE DEF u, v
    <2>8. parseSseFrame(f) = IF (Len(f) >= 5 /\ v = e) \/ (Len(f) >= 4 /\ e \in {"done", "error"})
                             THEN e ELSE Nil
      BY <1>0, <1>2, <2>4, <2>5, <2>6, <2>7, NamedIsRead
    <2> QED
      BY <2>8
  <1> QED
    BY <1>1, <1>2 DEF Events

\* A frame ends in the only empty line it has.
LEMMA EndOfFrame ==
  ASSUME NEW e \in Events
  PROVE  /\ Frame(e) \in Seq(Symbols) /\ Len(Frame(e)) \in 4..7
         /\ Frame(e)[Len(Frame(e)) - 1] = LF /\ Frame(e)[Len(Frame(e))] = LF
         /\ \A j \in Nat : j >= 1 /\ j + 1 < Len(Frame(e)) /\ Frame(e)[j] = LF => Frame(e)[j + 1] # LF
         /\ \A j \in 1..Len(Frame(e)) : Frame(e)[j] # Torn
  <1>0. e \notin {LF, Torn} /\ "data:" \notin {LF, Torn} /\ "event:" \notin {LF, Torn} /\ LF # Torn
    BY Distinct DEF LF, Torn
  <1>1. CASE e \in Tokens
    <2>1. /\ Frame(e) \in Seq(Symbols) /\ Len(Frame(e)) = 4
          /\ Frame(e)[1] = "data:" /\ Frame(e)[2] = e /\ Frame(e)[3] = LF /\ Frame(e)[4] = LF
      BY <1>1, FrameOfToken
    <2>2. \A j \in Nat : j >= 1 /\ j + 1 < 4 => j = 1 \/ j = 2
      OBVIOUS
    <2>3. \A j \in 1..4 : j = 1 \/ j = 2 \/ j = 3 \/ j = 4
      OBVIOUS
    <2>4. Frame(e)[4 - 1] = LF /\ Frame(e)[1] # LF /\ Frame(e)[2] # LF
      BY <1>0, <2>1
    <2>5. \A j \in 1..4 : Frame(e)[j] # Torn
      BY <1>0, <2>1, <2>3
    <2> QED
      BY <2>1, <2>2, <2>4, <2>5
  <1>2. CASE e \in Named
    <2>1. /\ Frame(e) \in Seq(Symbols) /\ Len(Frame(e)) = 7
          /\ Frame(e)[1] = "event:" /\ Frame(e)[2] = e /\ Frame(e)[3] = LF
          /\ Frame(e)[4] = "data:" /\ Frame(e)[5] = e /\ Frame(e)[6] = LF /\ Frame(e)[7] = LF
      BY <1>2, FrameOfNamed
    <2>2. \A j \in Nat : j >= 1 /\ j + 1 < 7 => j = 1 \/ j = 2 \/ j = 3 \/ j = 4 \/ j = 5
      OBVIOUS
    <2>3. \A j \in 1..7 : j = 1 \/ j = 2 \/ j = 3 \/ j = 4 \/ j = 5 \/ j = 6 \/ j = 7
      OBVIOUS
    <2>4. /\ Frame(e)[7 - 1] = LF /\ Frame(e)[1] # LF /\ Frame(e)[2] # LF
          /\ Frame(e)[4] # LF /\ Frame(e)[5] # LF /\ Frame(e)[3 + 1] # LF
      BY <1>0, <2>1
    <2>5. \A j \in 1..7 : Frame(e)[j] # Torn
      BY <1>0, <2>1, <2>3
    <2> QED
      BY <2>1, <2>2, <2>4, <2>5
  <1> QED
    BY <1>1, <1>2 DEF Events

\* A part of a frame has no empty line.
LEMMA PartHasNoEnd ==
  ASSUME NEW e \in Events, NEW f, PartOf(f, e)
  PROVE  Ends(f) = {}
  <1> SUFFICES ASSUME NEW i \in 1..(Len(f) - 1), f[i] = LF, f[i + 1] = LF
               PROVE  FALSE
    BY DEF Ends
  <1>1. Len(f) \in Nat /\ i \in Nat /\ i + 1 \in 1..Len(f) /\ i \in 1..Len(f)
    BY LenProperties DEF PartOf
  <1>2. LF # Torn
    BY DEF LF, Torn
  <1>3. f[i] = Frame(e)[i] /\ f[i + 1] = Frame(e)[i + 1]
    BY <1>1, <1>2 DEF PartOf
  <1>4. i + 1 < Len(Frame(e)) /\ i >= 1
    BY <1>1, EndOfFrame DEF PartOf
  <1> QED
    BY <1>1, <1>3, <1>4, EndOfFrame

-----------------------------------------------------------------------------
(* What a turn is on the wire.                                               *)

\* Induction up to n, for the set of the numbers for which something holds.
LEMMA UpTo ==
  ASSUME NEW n \in Nat, NEW T, 0 \in T, \A k \in 1..n : k - 1 \in T => k \in T
  PROVE  \A k \in 0..n : k \in T
  <1> SUFFICES ASSUME NEW k \in 0..n, k \notin T
               PROVE  FALSE
    OBVIOUS
  <1> DEFINE B == {j \in 0..n : j \notin T}
  <1>1. B \subseteq Nat /\ B # {}
    OBVIOUS
  <1>2. PICK j \in B : \A i \in B : j <= i
    <2> HIDE DEF B
    <2> QED
      BY <1>1, LeastNatural
  <1>3. j \in 0..n /\ j \notin T
    OBVIOUS
  <1>4. j # 0
    BY <1>3
  <1>5. j \in 1..n /\ j - 1 \in 0..n
    BY <1>3, <1>4
  <1>6. j - 1 \in B
    BY <1>3, <1>5
  <1> QED
    BY <1>2, <1>5, <1>6

\* The events that end a turn.
Final == {"done", "error"}

WellEnded(t) ==
  /\ t \in Seq(Events) /\ Len(t) \in Nat \ {0}
  /\ \A i \in 1..Len(t) : t[i] \in Final <=> i = Len(t)

\* A turn has an end, and nothing behind it.
LEMMA TurnsAreWellEnded == ASSUME NEW t \in Turns PROVE WellEnded(t)
  <1>1. PICK f \in {<<>>, <<"execution">>}, m \in BoundedSeq(Items, MaxItems), l \in Final :
          t = f \o m \o <<l>>
    BY DEF Turns, Final
  <1>2. Items \subseteq Events /\ "execution" \in Events /\ Final \subseteq Events
    BY DEF Items, Events, Named, Final
  <1>3. "execution" \notin Final /\ Items \cap Final = {}
    BY TokensAreTexts DEF Items, Final
  <1>4. m \in Seq(Items)
    BY DEF BoundedSeq, SeqOf
  <1>5. m \in Seq(Events) /\ \A i \in 1..Len(m) : m[i] \notin Final
    BY <1>2, <1>3, <1>4, LenProperties, SeqMonotonic, ElementOfSeq
  <1>6. f \in Seq(Events) /\ \A i \in 1..Len(f) : f[i] \notin Final
    <2>1. CASE f = <<>>
      BY <2>1
    <2>2. CASE f = <<"execution">>
      <3>1. Len(f) = 1 /\ f[1] = "execution"
        BY <2>2
      <3> QED
        BY <1>2, <1>3, <2>2, <3>1
    <2> QED
      BY <2>1, <2>2
  <1>7. <<l>> \in Seq(Events) /\ Len(<<l>>) = 1 /\ <<l>>[1] = l
    BY <1>2
  <1> DEFINE g == f \o m
  <1>8. /\ g \in Seq(Events) /\ Len(g) = Len(f) + Len(m) /\ Len(f) \in Nat /\ Len(m) \in Nat
        /\ \A i \in 1..Len(f) + Len(m) : g[i] = IF i <= Len(f) THEN f[i] ELSE m[i - Len(f)]
    BY <1>5, <1>6, ConcatProperties, LenProperties
  <1>9. \A i \in 1..Len(g) : g[i] \notin Final
    <2> SUFFICES ASSUME NEW i \in 1..Len(g)
                 PROVE  g[i] \notin Final
      OBVIOUS
    <2> HIDE DEF g
    <2>1. CASE i <= Len(f)
      BY <1>6, <1>8, <2>1
    <2>2. CASE ~(i <= Len(f))
      <3>1. i - Len(f) \in 1..Len(m)
        BY <1>8, <2>2
      <3> QED
        BY <1>5, <1>8, <2>2, <3>1
    <2> QED
      BY <2>1, <2>2
  <1> HIDE DEF g
  <1>10. /\ t \in Seq(Events) /\ Len(t) = Len(g) + 1 /\ Len(g) \in Nat
         /\ \A i \in 1..Len(g) + 1 : t[i] = IF i <= Len(g) THEN g[i] ELSE <<l>>[i - Len(g)]
    <2>1. t = g \o <<l>>
      BY <1>1 DEF g
    <2> QED
      BY <1>7, <1>8, <2>1, ConcatProperties, LenProperties
  <1>11. \A i \in 1..Len(t) : i # Len(t) => t[i] = g[i] /\ i \in 1..Len(g)
    BY <1>10
  <1>12. t[Len(t)] = l
    <2>1. Len(t) \in 1..Len(g) + 1 /\ ~(Len(t) <= Len(g)) /\ Len(t) - Len(g) = 1
      BY <1>10
    <2> QED
      BY <1>7, <1>10, <2>1
  <1> QED
    BY <1>9, <1>10, <1>11, <1>12 DEF WellEnded

\* The first k events are the first k - 1 and the frame of the next.
LEMMA SentStep ==
  ASSUME NEW t \in Seq(Events)
  PROVE  /\ Sent(t)[0] = <<>>
         /\ \A k \in 1..Len(t) : Sent(t)[k] = Sent(t)[k - 1] \o Frame(t[k])
  <1> DEFINE N == Len(t)
             step(g, n) == [k \in 0..n |-> IF k = 0 THEN <<>> ELSE g[k - 1] \o Frame(t[k])]
             T == {n \in 0..N : \E g : g = step(g, n)}
  <1>1. N \in Nat
    BY LenProperties
  <1>2. 0 \in T
    <2> DEFINE g == [k \in 0..0 |-> <<>>]
    <2>1. g = step(g, 0)
      OBVIOUS
    <2> HIDE DEF g
    <2> QED
      BY <1>1, <2>1
  <1>3. ASSUME NEW n \in 1..N, n - 1 \in T
        PROVE  n \in T
    <2>1. PICK g : g = step(g, n - 1)
      BY <1>3
    <2> DEFINE h == [k \in 0..n |-> IF k = n THEN g[n - 1] \o Frame(t[n]) ELSE g[k]]
    <2>2. ASSUME NEW k \in 0..n
          PROVE  h[k] = IF k = 0 THEN <<>> ELSE h[k - 1] \o Frame(t[k])
      <3>1. CASE k = n
        <4>1. n - 1 \in 0..n /\ n - 1 # n /\ k # 0
          BY <1>1, <3>1
        <4>2. h[n - 1] = g[n - 1] /\ h[n] = g[n - 1] \o Frame(t[n])
          BY <4>1
        <4> QED
          BY <3>1, <4>1, <4>2
      <3>2. CASE k # n
        <4>1. k \in 0..(n - 1) /\ h[k] = g[k]
          BY <1>1, <3>2
        <4>2. g[k] = step(g, n - 1)[k]
          BY <2>1
        <4>3. g[k] = IF k = 0 THEN <<>> ELSE g[k - 1] \o Frame(t[k])
          BY <4>1, <4>2
        <4>4. k # 0 => k - 1 \in 0..n /\ k - 1 # n /\ h[k - 1] = g[k - 1]
          BY <1>1, <4>1
        <4> QED
          BY <4>1, <4>3, <4>4
      <3> QED
        BY <3>1, <3>2
    <2>3. h = step(h, n)
      <3>1. h = [k \in 0..n |-> h[k]]
        OBVIOUS
      <3> HIDE DEF h
      <3> QED
        BY <2>2, <3>1
    <2> HIDE DEF h
    <2>4. \E f : f = step(f, n)
      BY <2>3
    <2> QED
      BY <1>1, <2>4
  <1>4. N \in T
    <2> HIDE DEF T
    <2> QED
      BY <1>1, <1>2, <1>3, UpTo
  <1>5. PICK g : g = step(g, N)
    BY <1>4
  <1>6. Sent(t) = CHOOSE s : s = step(s, N)
    BY DEF Sent
  <1>7. Sent(t) = step(Sent(t), N)
    BY <1>5, <1>6
  <1>8. \A k \in 0..N : Sent(t)[k] = IF k = 0 THEN <<>> ELSE Sent(t)[k - 1] \o Frame(t[k])
    BY <1>7
  <1>9. 0 \in 0..N /\ \A k \in 1..N : k \in 0..N /\ k # 0
    BY <1>1
  <1> QED
    BY <1>8, <1>9

\* Each event puts its frame behind what was sent before.
SentUpTo(t, k) ==
  /\ Sent(t)[k] \in Seq(Symbols)
  /\ \A j \in 0..k :
       /\ SizeOf(t, j) \in Nat /\ SizeOf(t, j) <= SizeOf(t, k)
       /\ \A i \in 1..SizeOf(t, j) : Sent(t)[k][i] = Sent(t)[j][i]

\* What was sent is never changed.
LEMMA SentGrows ==
  ASSUME NEW t \in Seq(Events)
  PROVE  \A k \in 0..Len(t) : SentUpTo(t, k)
  <1> DEFINE T == {k \in 0..Len(t) : SentUpTo(t, k)}
  <1>1. Len(t) \in Nat
    BY LenProperties
  <1>2. 0 \in T
    <2>1. Sent(t)[0] = <<>>
      BY SentStep
    <2>2. SizeOf(t, 0) = 0
      BY <2>1 DEF SizeOf
    <2>3. SentUpTo(t, 0)
      BY <2>1, <2>2 DEF SentUpTo
    <2> QED
      BY <1>1, <2>3
  <1>3. ASSUME NEW k \in 1..Len(t), k - 1 \in T
        PROVE  k \in T
    <2>1. SentUpTo(t, k - 1) /\ t[k] \in Events
      BY <1>3, ElementOfSeq
    <2>2. Sent(t)[k] = Sent(t)[k - 1] \o Frame(t[k])
      BY SentStep
    <2>3. Frame(t[k]) \in Seq(Symbols) /\ Len(Frame(t[k])) \in 4..7
      BY <2>1, EndOfFrame
    <2>4. Sent(t)[k - 1] \in Seq(Symbols)
      BY <2>1 DEF SentUpTo
    <2>5. /\ Sent(t)[k] \in Seq(Symbols)
          /\ Len(Sent(t)[k]) = Len(Sent(t)[k - 1]) + Len(Frame(t[k]))
          /\ Len(Sent(t)[k - 1]) \in Nat
          /\ \A i \in 1..(Len(Sent(t)[k - 1]) + Len(Frame(t[k]))) :
               Sent(t)[k][i] = IF i <= Len(Sent(t)[k - 1]) THEN Sent(t)[k - 1][i]
                               ELSE Frame(t[k])[i - Len(Sent(t)[k - 1])]
      <3> DEFINE a == Sent(t)[k - 1]
                 b == Frame(t[k])
      <3>1. a \in Seq(Symbols) /\ b \in Seq(Symbols) /\ Sent(t)[k] = a \o b
        BY <2>2, <2>3, <2>4
      <3> HIDE DEF a, b
      <3>2. /\ Sent(t)[k] \in Seq(Symbols) /\ Len(Sent(t)[k]) = Len(a) + Len(b) /\ Len(a) \in Nat
            /\ \A i \in 1..(Len(a) + Len(b)) : Sent(t)[k][i] = IF i <= Len(a) THEN a[i] ELSE b[i - Len(a)]
        BY <3>1, ConcatProperties, LenProperties
      <3> QED
        BY <3>2 DEF a, b
    <2>6. /\ SizeOf(t, k) \in Nat /\ SizeOf(t, k - 1) \in Nat /\ SizeOf(t, k - 1) <= SizeOf(t, k)
          /\ \A i \in 1..SizeOf(t, k - 1) : Sent(t)[k][i] = Sent(t)[k - 1][i]
      <3> DEFINE a == Len(Sent(t)[k - 1])
                 b == Len(Frame(t[k]))
      <3>1. a \in Nat /\ b \in Nat /\ SizeOf(t, k) = a + b /\ SizeOf(t, k - 1) = a
        BY <2>3, <2>5 DEF SizeOf
      <3>2. \A i \in 1..(a + b) : i <= a => Sent(t)[k][i] = Sent(t)[k - 1][i]
        BY <2>5
      <3> HIDE DEF a, b
      <3> QED
        BY <3>1, <3>2
    <2>7. ASSUME NEW j \in 0..k
          PROVE  /\ SizeOf(t, j) \in Nat /\ SizeOf(t, j) <= SizeOf(t, k)
                 /\ \A i \in 1..SizeOf(t, j) : Sent(t)[k][i] = Sent(t)[j][i]
      <3>1. CASE j = k
        BY <2>6, <3>1
      <3>2. CASE j # k
        <4>1. j \in 0..(k - 1)
          BY <1>1, <3>2
        <4>2. /\ SizeOf(t, j) \in Nat /\ SizeOf(t, j) <= SizeOf(t, k - 1)
              /\ \A i \in 1..SizeOf(t, j) : Sent(t)[k - 1][i] = Sent(t)[j][i]
          BY <2>1, <4>1 DEF SentUpTo
        <4>3. \A i \in 1..SizeOf(t, j) : i \in 1..SizeOf(t, k - 1)
          BY <2>6, <4>2
        <4> QED
          BY <2>6, <4>2, <4>3
      <3> QED
        BY <3>1, <3>2
    <2>8. SentUpTo(t, k)
      BY <2>5, <2>7 DEF SentUpTo
    <2> QED
      BY <1>1, <2>8
  <1>4. \A k \in 0..Len(t) : k \in T
    <2> HIDE DEF T
    <2> QED
      BY <1>1, <1>2, <1>3, UpTo
  <1> QED
    BY <1>4

\* Where the frame of an event is in the whole.
LEMMA FrameOnTheWire ==
  ASSUME NEW t \in Seq(Events), NEW k \in 0..(Len(t) - 1)
  PROVE  /\ SizeOf(t, 0) = 0
         /\ SizeOf(t, k) \in Nat /\ SizeOf(t, k + 1) = SizeOf(t, k) + Len(Frame(t[k + 1]))
         /\ SizeOf(t, k + 1) <= Len(Wire(t))
         /\ \A j \in 1..Len(Frame(t[k + 1])) : Wire(t)[SizeOf(t, k) + j] = Frame(t[k + 1])[j]
  <1>1. Len(t) \in Nat /\ k \in 0..Len(t) /\ k + 1 \in 1..Len(t) /\ (k + 1) - 1 = k
    BY LenProperties
  <1>2. Sent(t)[0] = <<>>
    BY SentStep
  <1>3. Sent(t)[k + 1] = Sent(t)[k] \o Frame(t[k + 1])
    BY <1>1, SentStep
  <1>4. t[k + 1] \in Events
    BY <1>1, ElementOfSeq
  <1>5. Frame(t[k + 1]) \in Seq(Symbols) /\ Len(Frame(t[k + 1])) \in 4..7
    BY <1>4, EndOfFrame
  <1>6. SentUpTo(t, k) /\ SentUpTo(t, Len(t)) /\ k + 1 \in 0..Len(t) /\ k \in 0..k
    BY <1>1, SentGrows
  <1>7. Sent(t)[k] \in Seq(Symbols) /\ SizeOf(t, k) \in Nat
    BY <1>6 DEF SentUpTo
  <1>8. /\ Len(Sent(t)[k + 1]) = Len(Sent(t)[k]) + Len(Frame(t[k + 1]))
        /\ \A i \in 1..(Len(Sent(t)[k]) + Len(Frame(t[k + 1]))) :
             Sent(t)[k + 1][i] = IF i <= Len(Sent(t)[k]) THEN Sent(t)[k][i]
                                 ELSE Frame(t[k + 1])[i - Len(Sent(t)[k])]
    <2> DEFINE a == Sent(t)[k]
               b == Frame(t[k + 1])
    <2>1. a \in Seq(Symbols) /\ b \in Seq(Symbols) /\ Sent(t)[k + 1] = a \o b
      BY <1>3, <1>5, <1>7
    <2> HIDE DEF a, b
    <2>2. /\ Len(Sent(t)[k + 1]) = Len(a) + Len(b)
          /\ \A i \in 1..(Len(a) + Len(b)) : Sent(t)[k + 1][i] = IF i <= Len(a) THEN a[i] ELSE b[i - Len(a)]
      BY <2>1, ConcatProperties
    <2> QED
      BY <2>2 DEF a, b
  <1>9. /\ SizeOf(t, k + 1) = SizeOf(t, k) + Len(Frame(t[k + 1]))
        /\ \A i \in 1..(SizeOf(t, k) + Len(Frame(t[k + 1]))) :
             Sent(t)[k + 1][i] = IF i <= SizeOf(t, k) THEN Sent(t)[k][i]
                                 ELSE Frame(t[k + 1])[i - SizeOf(t, k)]
    BY <1>8 DEF SizeOf
  <1>10. /\ SizeOf(t, k + 1) <= SizeOf(t, Len(t))
         /\ \A i \in 1..SizeOf(t, k + 1) : Wire(t)[i] = Sent(t)[k + 1][i]
    BY <1>6 DEF SentUpTo, Wire
  <1>11. ASSUME NEW j \in 1..Len(Frame(t[k + 1]))
         PROVE  Wire(t)[SizeOf(t, k) + j] = Frame(t[k + 1])[j]
    <2>1. /\ SizeOf(t, k) + j \in 1..SizeOf(t, k + 1) /\ ~(SizeOf(t, k) + j <= SizeOf(t, k))
          /\ (SizeOf(t, k) + j) - SizeOf(t, k) = j
          /\ SizeOf(t, k) + j \in 1..(SizeOf(t, k) + Len(Frame(t[k + 1])))
      BY <1>5, <1>7, <1>9
    <2> QED
      BY <1>9, <1>10, <2>1
  <1>12. SizeOf(t, 0) = 0 /\ SizeOf(t, Len(t)) = Len(Wire(t))
    BY <1>2 DEF SizeOf, Wire
  <1> QED
    BY <1>7, <1>9, <1>10, <1>11, <1>12

\* The wire holds symbols only.
LEMMA WireIsSymbols ==
  ASSUME NEW t \in Seq(Events)
  PROVE  Wire(t) \in Seq(Symbols)
  <1>1. Len(t) \in 0..Len(t)
    BY LenProperties
  <1> QED
    BY <1>1, SentGrows DEF SentUpTo, Wire

\* The events are told apart by where they end.
LEMMA WholeIs ==
  ASSUME NEW t \in Seq(Events), NEW n \in Nat, NEW k \in 0..(Len(t) - 1),
         SizeOf(t, k) <= n, n < SizeOf(t, k + 1)
  PROVE  Whole(t, n) = k
  <1> DEFINE P(i) == i \in 0..Len(t) /\ SizeOf(t, i) <= n /\ (i < Len(t) => n < SizeOf(t, i + 1))
  <1>1. Len(t) \in Nat
    BY LenProperties
  <1>2. P(k)
    BY <1>1
  <1>3. ASSUME NEW i, P(i)
        PROVE  i = k
    <2>1. CASE i < k
      <3>1. i + 1 \in 0..k /\ k \in 0..Len(t) /\ i < Len(t)
        BY <1>1, <1>3, <2>1
      <3>2. SizeOf(t, i + 1) \in Nat /\ SizeOf(t, i + 1) <= SizeOf(t, k) /\ SizeOf(t, k) \in Nat
        BY <3>1, SentGrows DEF SentUpTo
      <3> QED
        BY <1>3, <3>1, <3>2
    <2>2. CASE k < i
      <3>1. k + 1 \in 0..i /\ i \in 0..Len(t)
        BY <1>1, <1>3, <2>2
      <3>2. SizeOf(t, k + 1) \in Nat /\ SizeOf(t, k + 1) <= SizeOf(t, i) /\ SizeOf(t, i) \in Nat
        <4>1. i \in 0..i
          BY <3>1
        <4> QED
          BY <3>1, <4>1, SentGrows DEF SentUpTo
      <3> QED
        BY <1>3, <3>2
    <2> QED
      BY <1>1, <1>3, <2>1, <2>2
  <1>4. k = CHOOSE i \in 0..Len(t) : SizeOf(t, i) <= n /\ (i < Len(t) => n < SizeOf(t, i + 1))
    BY <1>2, <1>3
  <1> QED
    BY <1>4 DEF Whole

-----------------------------------------------------------------------------
(* What is said.                                                             *)

\* What is said after each event.
LEMMA SaidStep ==
  ASSUME NEW s \in Seq(Events)
  PROVE  /\ Said(s)[0] = <<>>
         /\ \A k \in 1..Len(s) : Said(s)[k] = Shows(Said(s)[k - 1], s[k])
  <1> DEFINE N == Len(s)
             next(text, e) == IF chatStream(e) THEN Shows(text, e) ELSE text
             step(g, n) == [k \in 0..n |-> IF k = 0 THEN <<>> ELSE next(g[k - 1], s[k])]
             T == {n \in 0..N : \E g : g = step(g, n)}
  <1>0. \A text : \A e \in Events : next(text, e) = Shows(text, e)
    BY DEF chatStream, Shows
  <1> HIDE DEF next
  <1>1. N \in Nat
    BY LenProperties
  <1>2. 0 \in T
    <2> DEFINE g == [k \in 0..0 |-> <<>>]
    <2>1. g = step(g, 0)
      OBVIOUS
    <2> HIDE DEF g
    <2> QED
      BY <1>1, <2>1
  <1>3. ASSUME NEW n \in 1..N, n - 1 \in T
        PROVE  n \in T
    <2>1. PICK g : g = step(g, n - 1)
      BY <1>3
    <2> DEFINE h == [k \in 0..n |-> IF k = n THEN next(g[n - 1], s[n]) ELSE g[k]]
    <2>2. ASSUME NEW k \in 0..n
          PROVE  h[k] = IF k = 0 THEN <<>> ELSE next(h[k - 1], s[k])
      <3>1. CASE k = n
        <4>1. n - 1 \in 0..n /\ n - 1 # n /\ k # 0
          BY <1>1, <3>1
        <4>2. h[n - 1] = g[n - 1] /\ h[n] = next(g[n - 1], s[n])
          BY <4>1
        <4> QED
          BY <3>1, <4>1, <4>2
      <3>2. CASE k # n
        <4>1. k \in 0..(n - 1) /\ h[k] = g[k]
          BY <1>1, <3>2
        <4>2. g[k] = step(g, n - 1)[k]
          BY <2>1
        <4>3. g[k] = IF k = 0 THEN <<>> ELSE next(g[k - 1], s[k])
          BY <4>1, <4>2
        <4>4. k # 0 => k - 1 \in 0..n /\ k - 1 # n /\ h[k - 1] = g[k - 1]
          BY <1>1, <4>1
        <4> QED
          BY <4>1, <4>3, <4>4
      <3> QED
        BY <3>1, <3>2
    <2>3. h = step(h, n)
      <3>1. h = [k \in 0..n |-> h[k]]
        OBVIOUS
      <3> HIDE DEF h
      <3> QED
        BY <2>2, <3>1
    <2> HIDE DEF h
    <2>4. \E f : f = step(f, n)
      BY <2>3
    <2> QED
      BY <1>1, <2>4
  <1>4. N \in T
    <2> HIDE DEF T
    <2> QED
      BY <1>1, <1>2, <1>3, UpTo
  <1>5. PICK g : g = step(g, N)
    BY <1>4
  <1>6. Said(s) = CHOOSE f : f = step(f, N)
    BY DEF Said, next
  <1>7. Said(s) = step(Said(s), N)
    BY <1>5, <1>6
  <1>8. \A k \in 0..N : Said(s)[k] = IF k = 0 THEN <<>> ELSE next(Said(s)[k - 1], s[k])
    BY <1>7
  <1>9. 0 \in 0..N /\ \A k \in 1..N : k \in 0..N /\ k # 0 /\ s[k] \in Events
    BY <1>1, ElementOfSeq
  <1> QED
    BY <1>0, <1>8, <1>9

\* One more event says one thing more.
LEMMA SaidAppend ==
  ASSUME NEW s \in Seq(Events), NEW e \in Events
  PROVE  Said(Append(s, e))[Len(s) + 1] = Shows(Said(s)[Len(s)], e)
  <1> DEFINE r == Append(s, e)
             T == {k \in 0..Len(s) : Said(r)[k] = Said(s)[k]}
  <1>1. /\ r \in Seq(Events) /\ Len(r) = Len(s) + 1 /\ r[Len(s) + 1] = e /\ Len(s) \in Nat
        /\ \A i \in 1..Len(s) : r[i] = s[i]
    BY AppendProperties, LenProperties
  <1> HIDE DEF r
  <1>2. Said(r)[0] = <<>> /\ \A k \in 1..Len(r) : Said(r)[k] = Shows(Said(r)[k - 1], r[k])
    BY <1>1, SaidStep
  <1>3. Said(s)[0] = <<>> /\ \A k \in 1..Len(s) : Said(s)[k] = Shows(Said(s)[k - 1], s[k])
    BY SaidStep
  <1>4. 0 \in T
    BY <1>1, <1>2, <1>3
  <1>5. ASSUME NEW k \in 1..Len(s), k - 1 \in T
        PROVE  k \in T
    <2>1. k \in 1..Len(r) /\ r[k] = s[k] /\ k \in 0..Len(s)
      BY <1>1
    <2>2. Said(r)[k - 1] = Said(s)[k - 1]
      BY <1>5
    <2>3. Said(r)[k] = Said(s)[k]
      BY <1>2, <1>3, <2>1, <2>2
    <2> QED
      BY <2>1, <2>3
  <1>6. Len(s) \in T
    <2> HIDE DEF T
    <2>1. Len(s) \in 0..Len(s)
      BY <1>1
    <2> QED
      BY <1>1, <1>4, <1>5, <2>1, UpTo
  <1>7. Len(s) + 1 \in 1..Len(r) /\ (Len(s) + 1) - 1 = Len(s)
    BY <1>1
  <1> QED
    BY <1>1, <1>2, <1>6, <1>7 DEF r

-----------------------------------------------------------------------------
(* What the page has seen, what its buffer holds and what the reply says.  *)

\* The types of the stream.
StreamTypes ==
  /\ turn \in Turns /\ cut \in 0..Len(Wire(turn)) /\ torn \in BOOLEAN /\ at \in 0..cut
  /\ phase \in {"reading", "cutting", "closing", "ended"}
  /\ how \in {"", "done", "error", "closed", "broken", "aborted"}
  /\ (how # "") = (phase = "ended")

\* Only a value may arrive in part.
TornIsAValue == torn => cut > 0 /\ Wire(turn)[cut] \notin Field \union {LF}

\* What was seen is the beginning of the turn, all of it only at the end.
SeenInv ==
  /\ seen \in Seq(Events) /\ Len(seen) <= Len(turn)
  /\ \A i \in 1..Len(seen) : seen[i] = turn[i]
  /\ phase # "ended" => Len(seen) < Len(turn)

\* The pieces of a reply.
Pieces == Tokens \union {ModelError, NoResponse, SpecOnly}

\* The buffer is what was read last; until the stream ends it begins with the frame of
\* the next event, and the page waits for more only when that frame is not whole.
BufferInv ==
  /\ buffer \in Seq(Symbols) /\ Len(buffer) <= at
  /\ buffer = SubSeq(Arrives, at - Len(buffer) + 1, at)
  /\ phase \in {"reading", "cutting"} => at = SizeOf(turn, Len(seen)) + Len(buffer)
  /\ phase = "reading" => at < SizeOf(turn, Len(seen) + 1)

\* The reply is what the events seen say.
ReplyInv ==
  /\ reply \in Seq(Pieces)
  /\ phase # "ended" => reply = Said(seen)[Len(seen)]
  /\ ReplyIsOfTheEvents

\* The inductive invariant.
FramesInv == StreamTypes /\ TornIsAValue /\ SeenInv /\ BufferInv /\ ReplyInv

\* What arrives is what was sent, up to the cut and the value that is torn there.
LEMMA ArrivesIs ==
  ASSUME StreamTypes, TornIsAValue
  PROVE  /\ WellEnded(turn) /\ cut \in Nat /\ at \in Nat /\ at <= cut /\ cut <= Len(Wire(turn))
         /\ Arrives \in Seq(Symbols) /\ Len(Arrives) = cut
         /\ \A i \in 1..cut : Arrives[i] = IF torn /\ i = cut THEN Torn ELSE Wire(turn)[i]
  <1>1. WellEnded(turn) /\ turn \in Seq(Events)
    BY TurnsAreWellEnded DEF StreamTypes, WellEnded
  <1>2. Wire(turn) \in Seq(Symbols) /\ Len(Wire(turn)) \in Nat
    BY <1>1, WireIsSymbols, LenProperties
  <1>3. cut \in Nat /\ at \in Nat /\ at <= cut /\ cut <= Len(Wire(turn))
    <2>1. cut \in 0..Len(Wire(turn)) /\ at \in 0..cut
      BY DEF StreamTypes
    <2> QED
      BY <1>2, <2>1
  <1> DEFINE w == SubSeq(Wire(turn), 1, cut)
  <1>4. w \in Seq(Symbols) /\ Len(w) = cut /\ \A i \in 1..cut : w[i] = Wire(turn)[i]
    <2>1. \A i \in 1..cut : i \in 1..Len(Wire(turn))
      BY <1>2, <1>3
    <2>2. \A i \in 1..cut : Wire(turn)[i] \in Symbols
      BY <1>2, <2>1, ElementOfSeq
    <2>3. /\ w \in Seq(Symbols) /\ Len(w) = IF 1 <= cut THEN cut - 1 + 1 ELSE 0
          /\ \A i \in 1..cut - 1 + 1 : w[i] = Wire(turn)[1 + i - 1]
      <3>1. 1 \in Int /\ cut \in Int
        BY <1>3
      <3> QED
        BY <2>2, <3>1, SubSeqProperties
    <2> HIDE DEF w
    <2> QED
      BY <1>3, <2>3
  <1>5. Arrives = IF torn THEN [w EXCEPT ![cut] = Torn] ELSE w
    BY DEF Arrives
  <1> HIDE DEF w
  <1>6. CASE torn
    <2>1. cut \in 1..Len(w) /\ Torn \in Symbols
      BY <1>3, <1>4, <1>6 DEF TornIsAValue, Symbols
    <2>2. /\ [w EXCEPT ![cut] = Torn] \in Seq(Symbols)
          /\ Len([w EXCEPT ![cut] = Torn]) = Len(w)
          /\ \A j \in 1 .. Len(w) : [w EXCEPT ![cut] = Torn][j] = IF j = cut THEN Torn ELSE w[j]
      BY <1>4, <2>1, ExceptSeq
    <2> QED
      BY <1>1, <1>3, <1>4, <1>5, <1>6, <2>2
  <1>7. CASE ~torn
    BY <1>1, <1>3, <1>4, <1>5, <1>7
  <1> QED
    BY <1>6, <1>7

\* A part of what arrives.
LEMMA PartArrives ==
  ASSUME StreamTypes, TornIsAValue, NEW m \in Nat, NEW n \in 0..cut, m <= n
  PROVE  LET b == SubSeq(Arrives, m + 1, n)
         IN b \in Seq(Symbols) /\ Len(b) = n - m /\ \A i \in 1..(n - m) : b[i] = Arrives[m + i]
  <1> DEFINE b == SubSeq(Arrives, m + 1, n)
  <1>1. cut \in Nat /\ n \in Nat /\ n <= cut /\ Arrives \in Seq(Symbols) /\ Len(Arrives) = cut
    BY ArrivesIs
  <1>2. \A i \in (m + 1)..n : i \in 1..Len(Arrives)
    BY <1>1
  <1>3. \A i \in (m + 1)..n : Arrives[i] \in Symbols
    BY <1>1, <1>2, ElementOfSeq
  <1>4. m + 1 \in Int /\ n \in Int
    BY <1>1
  <1>5. /\ b \in Seq(Symbols) /\ Len(b) = IF m + 1 <= n THEN n - (m + 1) + 1 ELSE 0
        /\ \A i \in 1..(n - (m + 1) + 1) : b[i] = Arrives[(m + 1) + i - 1]
    BY <1>3, <1>4, SubSeqProperties
  <1> HIDE DEF b
  <1>6. Len(b) = n - m
    BY <1>1, <1>5
  <1>7. ASSUME NEW i \in 1..(n - m)
        PROVE  b[i] = Arrives[m + i]
    <2>1. i \in 1..(n - (m + 1) + 1) /\ (m + 1) + i - 1 = m + i
      BY <1>1
    <2> QED
      BY <1>5, <2>1
  <1> QED
    BY <1>5, <1>6, <1>7 DEF b

\* The next event, and where its frame is.
Due == turn[Len(seen) + 1]
DueAt == SizeOf(turn, Len(seen))

\* What the buffer has of the next frame.
LEMMA BufferIs ==
  ASSUME StreamTypes, TornIsAValue, SeenInv, BufferInv, phase \in {"reading", "cutting"}
  PROVE  /\ Due \in Events /\ DueAt \in Nat /\ Len(seen) \in Nat /\ Len(seen) \in 0..(Len(turn) - 1)
         /\ SizeOf(turn, Len(seen) + 1) = DueAt + Len(Frame(Due))
         /\ buffer = SubSeq(Arrives, DueAt + 1, at) /\ at = DueAt + Len(buffer) /\ Len(buffer) \in Nat
         /\ buffer \in Seq(Symbols)
         /\ Len(buffer) < Len(Frame(Due)) => PartOf(buffer, Due)
         /\ Len(buffer) >= Len(Frame(Due)) =>
              \A j \in 1..Len(Frame(Due)) : buffer[j] = Frame(Due)[j]
  <1>1. /\ turn \in Seq(Events) /\ cut \in Nat /\ at \in Nat /\ at <= cut /\ cut <= Len(Wire(turn))
        /\ Arrives \in Seq(Symbols) /\ Len(Arrives) = cut
        /\ \A i \in 1..cut : Arrives[i] = IF torn /\ i = cut THEN Torn ELSE Wire(turn)[i]
    BY ArrivesIs DEF WellEnded
  <1>2. Len(seen) \in Nat /\ Len(turn) \in Nat /\ Len(seen) < Len(turn)
    BY <1>1, LenProperties DEF SeenInv
  <1> DEFINE k == Len(seen)
  <1>3. k \in 0..(Len(turn) - 1) /\ k + 1 \in 1..Len(turn)
    BY <1>2
  <1>4. /\ DueAt \in Nat /\ SizeOf(turn, k + 1) = DueAt + Len(Frame(Due))
        /\ \A j \in 1..Len(Frame(Due)) : Wire(turn)[DueAt + j] = Frame(Due)[j]
    BY <1>1, <1>3, FrameOnTheWire DEF Due, DueAt
  <1>5. Due \in Events
    BY <1>1, <1>3, ElementOfSeq DEF Due
  <1>6. /\ Frame(Due) \in Seq(Symbols) /\ Len(Frame(Due)) \in 4..7
        /\ Frame(Due)[Len(Frame(Due))] = LF
    BY <1>5, EndOfFrame
  <1>7. at = DueAt + Len(buffer) /\ buffer = SubSeq(Arrives, at - Len(buffer) + 1, at)
    BY DEF BufferInv, DueAt
  <1>8. buffer \in Seq(Symbols) /\ Len(buffer) \in Nat
    BY LenProperties DEF BufferInv
  <1>9. DueAt <= at /\ buffer = SubSeq(Arrives, DueAt + 1, at)
    <2>1. at - Len(buffer) = DueAt
      BY <1>1, <1>4, <1>7, <1>8
    <2> QED
      BY <1>1, <1>4, <1>7, <1>8, <2>1
  <1>10. \A j \in 1..Len(buffer) : buffer[j] = Arrives[DueAt + j]
    <2>1. at \in 0..cut /\ at - DueAt = Len(buffer)
      BY <1>1, <1>4, <1>7, <1>8
    <2> QED
      BY <1>4, <1>9, <2>1, PartArrives
  <1>11. ASSUME NEW j \in 1..Len(buffer), j <= Len(Frame(Due))
         PROVE  \/ buffer[j] = Frame(Due)[j]
                \/ /\ j = Len(buffer) /\ buffer[j] = Torn /\ Frame(Due)[j] \notin Field \union {LF}
                   /\ j # Len(Frame(Due))
    <2>1. DueAt + j \in 1..cut /\ j \in 1..Len(Frame(Due))
      BY <1>1, <1>4, <1>6, <1>7, <1>8, <1>11
    <2>2. Wire(turn)[DueAt + j] = Frame(Due)[j]
      BY <1>4, <2>1
    <2>3. buffer[j] = IF torn /\ DueAt + j = cut THEN Torn ELSE Frame(Due)[j]
      BY <1>1, <1>10, <2>1, <2>2
    <2>4. CASE torn /\ DueAt + j = cut
      <3>1. Frame(Due)[j] \notin Field \union {LF}
        BY <2>2, <2>4 DEF TornIsAValue
      <3>2. j = Len(buffer)
        BY <1>1, <1>4, <1>7, <1>8, <2>4
      <3> QED
        BY <1>6, <2>3, <2>4, <3>1, <3>2
    <2> QED
      BY <2>3, <2>4
  <1>12. Len(buffer) < Len(Frame(Due)) => PartOf(buffer, Due)
    <2> HAVE Len(buffer) < Len(Frame(Due))
    <2>1. \A j \in 1..Len(buffer) : j <= Len(Frame(Due))
      BY <1>6, <1>8
    <2> QED
      BY <1>8, <1>11, <2>1 DEF PartOf
  <1>13. Len(buffer) >= Len(Frame(Due)) => \A j \in 1..Len(Frame(Due)) : buffer[j] = Frame(Due)[j]
    <2> SUFFICES ASSUME Len(buffer) >= Len(Frame(Due)), NEW j \in 1..Len(Frame(Due))
                 PROVE  buffer[j] = Frame(Due)[j]
      OBVIOUS
    <2>1. j \in 1..Len(buffer) /\ j <= Len(Frame(Due)) /\ (j = Len(buffer) => j = Len(Frame(Due)))
      BY <1>6, <1>8
    <2> QED
      BY <1>11, <2>1
  <1> QED
    BY <1>2, <1>3, <1>4, <1>5, <1>7, <1>8, <1>9, <1>12, <1>13

\* Where indexOf() cuts the buffer.
FirstEnd(b) == CHOOSE j \in Ends(b) : \A k \in Ends(b) : j <= k

\* The first frame that is cut off the buffer is that of the next event, and what is
\* left begins behind it.
LEMMA FirstFrame ==
  ASSUME StreamTypes, TornIsAValue, SeenInv, BufferInv, phase = "cutting", Ends(buffer) # {}
  PROVE  LET i == FirstEnd(buffer)
             rest == SubSeq(buffer, i + 2, Len(buffer))
         IN /\ parseSseFrame(SubSeq(buffer, 1, i - 1)) = Due
            /\ rest \in Seq(Symbols) /\ Len(rest) <= at /\ rest = SubSeq(Arrives, at - Len(rest) + 1, at)
            /\ at = SizeOf(turn, Len(seen) + 1) + Len(rest)
  <1> DEFINE L == Len(Frame(Due))
             i == FirstEnd(buffer)
             n == Len(buffer)
             rest == SubSeq(buffer, i + 2, n)
  <1>1. /\ Due \in Events /\ DueAt \in Nat /\ SizeOf(turn, Len(seen) + 1) = DueAt + L
        /\ buffer = SubSeq(Arrives, DueAt + 1, at) /\ at = DueAt + n /\ n \in Nat
        /\ buffer \in Seq(Symbols) /\ (n < L => PartOf(buffer, Due))
        /\ n >= L => \A j \in 1..L : buffer[j] = Frame(Due)[j]
    BY BufferIs
  <1>2. /\ L \in 4..7 /\ Frame(Due)[L - 1] = LF /\ Frame(Due)[L] = LF
        /\ \A j \in Nat : j >= 1 /\ j + 1 < L /\ Frame(Due)[j] = LF => Frame(Due)[j + 1] # LF
    BY <1>1, EndOfFrame
  <1>3. n >= L /\ \A j \in 1..L : buffer[j] = Frame(Due)[j]
    <2>1. ~(n < L)
      BY <1>1, PartHasNoEnd
    <2>2. n \in Nat /\ L \in 4..7
      BY <1>1, <1>2
    <2>3. n >= L
      <3> HIDE DEF n, L
      <3> QED
        BY <2>1, <2>2
    <2> QED
      BY <1>1, <2>3
  <1>size. L \in Nat /\ L >= 4 /\ n \in Nat /\ n >= L /\ DueAt \in Nat /\ at = DueAt + n
    <2>1. L \in 4..7 /\ n \in Nat /\ n >= L /\ DueAt \in Nat /\ at = DueAt + n
      BY <1>1, <1>2, <1>3
    <2> HIDE DEF L, n
    <2> QED
      BY <2>1
  <1>4. i = L - 1
    <2>1. L - 1 \in Ends(buffer)
      <3>1. L - 1 \in 1..L /\ L \in 1..L /\ (L - 1) + 1 = L /\ L - 1 \in 1..(n - 1)
        BY <1>1, <1>2, <1>3
      <3>2. buffer[L - 1] = LF /\ buffer[(L - 1) + 1] = LF
        BY <1>2, <1>3, <3>1
      <3> HIDE DEF n
      <3> QED
        BY <3>1, <3>2 DEF Ends, n
    <2>2. ASSUME NEW k \in Ends(buffer)
          PROVE  L - 1 <= k
      <3>1. k \in 1..(n - 1) /\ buffer[k] = LF /\ buffer[k + 1] = LF
        BY <2>2 DEF Ends
      <3>2. CASE k + 1 < L
        <4>1. k \in Nat /\ k >= 1 /\ k \in 1..L /\ k + 1 \in 1..L
          BY <1>1, <1>2, <3>1, <3>2
        <4> QED
          BY <1>2, <1>3, <3>1, <3>2, <4>1
      <3>3. k \in Nat
        BY <1>1, <3>1
      <3> QED
        BY <1>2, <3>2, <3>3
    <2>3. Ends(buffer) \subseteq Nat
      BY <1>1 DEF Ends
    <2>4. i \in Ends(buffer) /\ \A k \in Ends(buffer) : i <= k
      BY <2>1, <2>2 DEF FirstEnd
    <2> HIDE DEF i, L
    <2> QED
      BY <1>2, <2>1, <2>2, <2>3, <2>4
  <1>5. parseSseFrame(SubSeq(buffer, 1, i - 1)) = Due
    <2> DEFINE f == SubSeq(buffer, 1, i - 1)
               m == L - 2
    <2>1. m \in Nat /\ i - 1 = m /\ m + 2 = L /\ m <= n /\ m \in Int /\ 1 \in Int
      <3> HIDE DEF L, i, n
      <3> QED
        BY <1>size, <1>4
    <2>2. \A j \in 1..m : buffer[j] \in Symbols
      <3>1. \A j \in 1..m : j \in 1..Len(buffer)
        BY <1>1, <2>1
      <3> QED
        BY <1>1, <3>1, ElementOfSeq
    <2> HIDE DEF m
    <2>3. f = SubSeq(buffer, 1, m)
      BY <2>1
    <2> HIDE DEF f
    <2>4. /\ f \in Seq(Symbols) /\ Len(f) = IF 1 <= m THEN m - 1 + 1 ELSE 0
          /\ \A j \in 1..m - 1 + 1 : f[j] = buffer[1 + j - 1]
      BY <2>1, <2>2, <2>3, SubSeqProperties
    <2>5. Len(f) = m /\ \A j \in 1..m : f[j] = buffer[j]
      BY <2>1, <2>4
    <2>6. Len(f) + 2 = Len(Frame(Due))
      BY <2>1, <2>5
    <2>7. \A j \in 1..m : f[j] = Frame(Due)[j]
      <3>1. \A j \in 1..m : j \in 1..L
        BY <1>2, <2>1
      <3> QED
        BY <1>3, <2>5, <3>1
    <2>8. \A j \in 1..Len(f) : f[j] = Frame(Due)[j]
      BY <2>5, <2>7
    <2>9. parseSseFrame(f) = Due
      BY <1>1, <2>4, <2>6, <2>8, BodyIsRead
    <2> QED
      BY <2>9 DEF f
  <1>6. rest \in Seq(Symbols) /\ Len(rest) = n - L /\ \A j \in 1..(n - L) : rest[j] = buffer[L + j]
    <2>1. i + 2 = L + 1 /\ L + 1 \in Int /\ n \in Int
      BY <1>1, <1>2, <1>4
    <2>2. \A j \in L + 1..n : buffer[j] \in Symbols
      <3>1. \A j \in L + 1..n : j \in 1..Len(buffer)
        BY <1>1, <1>2
      <3> QED
        BY <1>1, <3>1, ElementOfSeq
    <2>3. rest = SubSeq(buffer, L + 1, n)
      BY <2>1
    <2> HIDE DEF rest, L, n
    <2>4. /\ rest \in Seq(Symbols) /\ Len(rest) = IF L + 1 <= n THEN n - (L + 1) + 1 ELSE 0
          /\ \A j \in 1..n - (L + 1) + 1 : rest[j] = buffer[(L + 1) + j - 1]
      BY <2>1, <2>2, <2>3, SubSeqProperties
    <2>5. n \in Nat /\ L \in Nat /\ n >= L
      BY <1>1, <1>2, <1>3
    <2>6. Len(rest) = n - L
      BY <2>4, <2>5
    <2>7. ASSUME NEW j \in 1..(n - L)
          PROVE  rest[j] = buffer[L + j]
      <3>1. j \in 1..n - (L + 1) + 1 /\ (L + 1) + j - 1 = L + j
        BY <2>5
      <3> QED
        BY <2>4, <3>1
    <2> QED
      BY <2>4, <2>6, <2>7
  <1>7. at \in Nat /\ at \in 0..cut /\ cut \in Nat
    BY ArrivesIs
  <1> DEFINE from == DueAt + L
  <1>8. from \in Nat /\ from <= at /\ at - from = n - L /\ at - (n - L) = from /\ n - L \in Nat
    <2> HIDE DEF L, n
    <2> QED
      BY <1>size
  <1>9. \A j \in 1..(n - L) : buffer[L + j] = Arrives[from + j]
    <2> SUFFICES ASSUME NEW j \in 1..(n - L)
                 PROVE  buffer[L + j] = Arrives[from + j]
      OBVIOUS
    <2>1. L + j \in 1..(at - DueAt) /\ DueAt + (L + j) = from + j /\ DueAt <= at
      <3> HIDE DEF L, n
      <3> QED
        BY <1>size
    <2>2. \A x \in 1..(at - DueAt) : buffer[x] = Arrives[DueAt + x]
      BY <1>1, <1>7, <2>1, PartArrives
    <2> QED
      BY <2>1, <2>2
  <1> DEFINE b == SubSeq(Arrives, from + 1, at)
  <1> HIDE DEF from
  <1>10. b \in Seq(Symbols) /\ Len(b) = at - from /\ \A j \in 1..(at - from) : b[j] = Arrives[from + j]
    BY <1>7, <1>8, PartArrives
  <1>11. rest = b
    <2> HIDE DEF rest, b
    <2>1. Len(rest) = Len(b) /\ \A j \in 1..Len(rest) : rest[j] = b[j]
      BY <1>6, <1>8, <1>9, <1>10
    <2> QED
      BY <1>6, <1>10, <2>1, SeqEqual
  <1>12. at = SizeOf(turn, Len(seen) + 1) + Len(rest)
    <2> HIDE DEF rest, n, L
    <2>1. Len(rest) = n - L /\ SizeOf(turn, Len(seen) + 1) = from
      BY <1>1, <1>6 DEF from
    <2> QED
      BY <1>7, <1>8, <2>1
  <1>13. Len(rest) <= at /\ at - Len(rest) + 1 = from + 1
    <2> HIDE DEF rest, n, L
    <2> QED
      BY <1>6, <1>7, <1>8
  <1> HIDE DEF rest, i, n, L
  <1>14. rest = SubSeq(Arrives, at - Len(rest) + 1, at)
    BY <1>11, <1>13
  <1> QED
    BY <1>5, <1>6, <1>12, <1>13, <1>14 DEF rest, i, n, L

\* When no frame is whole the page waits within the next one.
LEMMA NotWhole ==
  ASSUME StreamTypes, TornIsAValue, SeenInv, BufferInv, phase \in {"reading", "cutting"},
         Ends(buffer) = {}
  PROVE  at < SizeOf(turn, Len(seen) + 1)
  <1> DEFINE L == Len(Frame(Due))
             n == Len(buffer)
  <1>1. /\ Due \in Events /\ DueAt \in Nat /\ SizeOf(turn, Len(seen) + 1) = DueAt + L
        /\ at = DueAt + n /\ n \in Nat
        /\ n >= L => \A j \in 1..L : buffer[j] = Frame(Due)[j]
    BY BufferIs
  <1>2. L \in 4..7 /\ Frame(Due)[L - 1] = LF /\ Frame(Due)[L] = LF
    BY <1>1, EndOfFrame
  <1>size. L \in Nat /\ L >= 4
    <2>1. L \in 4..7
      BY <1>2
    <2> HIDE DEF L
    <2> QED
      BY <2>1
  <1>3. ASSUME n >= L
        PROVE  FALSE
    <2>1. L - 1 \in 1..L /\ L \in 1..L /\ (L - 1) + 1 = L /\ L - 1 \in 1..(n - 1)
      <3>1. L \in Nat /\ L >= 4 /\ n \in Nat /\ n >= L
        BY <1>1, <1>size, <1>3
      <3> HIDE DEF L, n
      <3> QED
        BY <3>1
    <2>2. buffer[L - 1] = LF /\ buffer[(L - 1) + 1] = LF
      BY <1>1, <1>2, <1>3, <2>1
    <2>3. L - 1 \in Ends(buffer)
      <3> HIDE DEF L
      <3> QED
        BY <2>1, <2>2 DEF Ends
    <2> QED
      BY <2>3
  <1>4. L \in Nat /\ n \in Nat /\ DueAt \in Nat /\ ~(n >= L) /\ at = DueAt + n
    BY <1>1, <1>size, <1>3
  <1>5. at < DueAt + L
    <2> HIDE DEF L, n
    <2> QED
      BY <1>4
  <1> QED
    BY <1>1, <1>5

\* What the reader has seen, an event further.
LEMMA NextIsSeen ==
  ASSUME WellEnded(turn), SeenInv, phase # "ended"
  PROVE  LET events == Append(seen, Due)
         IN /\ Due \in Events /\ Due # Nil
            /\ events \in Seq(Events) /\ Len(events) = Len(seen) + 1 /\ Len(seen) \in Nat
            /\ Len(events) <= Len(turn)
            /\ \A i \in 1..Len(events) : events[i] = turn[i]
            /\ Due \notin Final => Len(events) < Len(turn)
  <1> DEFINE events == Append(seen, Due)
  <1>1. turn \in Seq(Events) /\ Len(turn) \in Nat /\ \A i \in 1..Len(turn) : turn[i] \in Final <=> i = Len(turn)
    BY DEF WellEnded
  <1>2. seen \in Seq(Events) /\ Len(seen) \in Nat /\ Len(seen) < Len(turn)
    BY LenProperties DEF SeenInv
  <1>3. Len(seen) + 1 \in 1..Len(turn)
    BY <1>1, <1>2
  <1>4. Due \in Events
    BY <1>1, <1>3, ElementOfSeq DEF Due
  <1>5. Due # Nil
    BY <1>4, Distinct
  <1>6. /\ events \in Seq(Events) /\ Len(events) = Len(seen) + 1 /\ events[Len(seen) + 1] = Due
        /\ \A i \in 1..Len(seen) : events[i] = seen[i]
    BY <1>2, <1>4, AppendProperties
  <1> HIDE DEF events
  <1>7. Len(events) <= Len(turn)
    BY <1>1, <1>2, <1>6
  <1>8. ASSUME NEW i \in 1..Len(events)
        PROVE  events[i] = turn[i]
    <2>1. i = Len(seen) + 1 \/ i \in 1..Len(seen)
      BY <1>2, <1>6
    <2>2. \A j \in 1..Len(seen) : seen[j] = turn[j]
      BY DEF SeenInv
    <2> QED
      BY <1>6, <2>1, <2>2 DEF Due
  <1>9. Due \notin Final => Len(events) < Len(turn)
    <2>1. Due \notin Final => Len(seen) + 1 # Len(turn)
      BY <1>1, <1>3 DEF Due
    <2> QED
      BY <1>1, <1>2, <1>6, <2>1
  <1> QED
    BY <1>2, <1>4, <1>5, <1>6, <1>7, <1>8, <1>9 DEF events

\* The reply once the generator is closed.
LEMMA TheReply ==
  ASSUME NEW text \in Seq(Pieces), NEW events \in Seq(Events), text = Said(events)[Len(events)]
  PROVE  /\ Finished(text, events) \in Seq(Pieces)
         /\ Finished(text, events) =
              IF text = <<>> /\ Contains(events, "spec") THEN <<SpecOnly>> ELSE consumeChat(events)
         /\ Append(text, ModelError) \in Seq(Pieces)
         /\ Finished(Append(text, ModelError), events) = Append(text, ModelError)
  <1>1. <<SpecOnly>> \in Seq(Pieces) /\ <<NoResponse>> \in Seq(Pieces) /\ ModelError \in Pieces
    BY DEF Pieces
  <1>2. Append(text, ModelError) \in Seq(Pieces) /\ Append(text, ModelError) # <<>>
    BY <1>1, AppendProperties
  <1>3. consumeChat(events) = IF text = <<>> THEN <<NoResponse>> ELSE text
    BY DEF consumeChat
  <1> QED
    BY <1>1, <1>2, <1>3 DEF Finished

\* An event adds a piece, or none.
LEMMA ShowsPieces ==
  ASSUME NEW text \in Seq(Pieces), NEW e
  PROVE  Shows(text, e) \in Seq(Pieces)
  <1>1. ModelError \in Pieces /\ Tokens \subseteq Pieces
    BY DEF Pieces
  <1>2. \A p \in Pieces : Append(text, p) \in Seq(Pieces)
    BY AppendProperties
  <1> QED
    BY <1>1, <1>2 DEF Shows, Say

\* What the end of the stream makes of a reply is what the events say.
LEMMA EndWithTells ==
  ASSUME SeenInv', NEW text \in Seq(Pieces), NEW why, why # "broken",
         text = Said(seen')[Len(seen')], EndWith(text, seen', why)
  PROVE  ReplyInv' /\ phase' = "ended" /\ how' = why
  <1>1. seen' \in Seq(Events)
    BY DEF SeenInv
  <1>2. phase' = "ended" /\ how' = why /\ reply' = Finished(text, seen')
    BY DEF EndWith
  <1>3. ReplyInv'
    BY <1>1, <1>2, TheReply DEF ReplyInv, ReplyIsOfTheEvents
  <1> QED
    BY <1>2, <1>3

\* A frame that is read as the next event, or as none.
LEMMA HandleKeeps ==
  ASSUME WellEnded(turn), SeenInv, ReplyInv, phase # "ended", how = "", turn' = turn,
         NEW frame, NEW next \in {"cutting", "closing"},
         parseSseFrame(frame) \in {Due, Nil}, Handle(frame, next)
  PROVE  /\ SeenInv' /\ ReplyInv' /\ phase' \in {next, "ended"}
         /\ how' \in {"", "done", "error"} /\ (how' # "") = (phase' = "ended")
         /\ parseSseFrame(frame) = Due => Len(seen') = Len(seen) + 1
  <1> DEFINE e == parseSseFrame(frame)
             events == Append(seen, Due)
  <1>1. /\ Due \in Events /\ Due # Nil /\ events \in Seq(Events) /\ Len(events) = Len(seen) + 1
        /\ Len(seen) \in Nat /\ Len(events) <= Len(turn)
        /\ \A i \in 1..Len(events) : events[i] = turn[i]
        /\ Due \notin Final => Len(events) < Len(turn)
    BY NextIsSeen
  <1>2. seen \in Seq(Events) /\ reply \in Seq(Pieces) /\ reply = Said(seen)[Len(seen)]
    BY DEF SeenInv, ReplyInv
  <1>3. Said(events)[Len(events)] = Shows(reply, Due) /\ Shows(reply, Due) \in Seq(Pieces)
    BY <1>1, <1>2, SaidAppend, ShowsPieces
  <1>4. CASE e = Nil
    <2>1. phase' = next /\ seen' = seen /\ reply' = reply /\ how' = how
      BY <1>4 DEF Handle
    <2>2. next # "ended"
      OBVIOUS
    <2> QED
      BY <1>1, <1>4, <2>1, <2>2 DEF SeenInv, ReplyInv, ReplyIsOfTheEvents
  <1>5. CASE e = Due /\ Due \in Final
    <2>1. seen' = events /\ EndWith(Shows(reply, Due), events, Due)
      BY <1>1, <1>5 DEF Handle, Final
    <2>2. phase' = "ended" /\ how' = Due
      BY <2>1 DEF EndWith
    <2>3. SeenInv'
      BY <1>1, <2>1, <2>2 DEF SeenInv
    <2>4. Due # "broken" /\ Due # "" /\ Due \in {"done", "error"}
      BY <1>5 DEF Final
    <2> HIDE DEF events
    <2>5. ReplyInv'
      BY <1>3, <2>1, <2>3, <2>4, EndWithTells
    <2> QED
      BY <1>1, <2>1, <2>2, <2>3, <2>4, <2>5
  <1>6. CASE e = Due /\ Due \notin Final
    <2>1. seen' = events /\ reply' = Shows(reply, Due) /\ phase' = next /\ how' = how
      BY <1>1, <1>6 DEF Handle, Final
    <2>2. next # "ended"
      OBVIOUS
    <2>3. SeenInv'
      BY <1>1, <1>6, <2>1 DEF SeenInv
    <2> HIDE DEF events
    <2>4. ReplyInv'
      BY <1>3, <2>1, <2>2 DEF ReplyInv, ReplyIsOfTheEvents
    <2> QED
      BY <1>1, <2>1, <2>2, <2>3, <2>4
  <1> QED
    BY <1>4, <1>5, <1>6

-----------------------------------------------------------------------------
(* The invariant is inductive.                                               *)

\* A request that was just answered.
LEMMA FramesStart == FramesInit => FramesInv
  <1> SUFFICES ASSUME FramesInit
               PROVE  FramesInv
    OBVIOUS
  <1>0. /\ turn \in Turns /\ cut \in 0..Len(Wire(turn)) /\ torn \in BOOLEAN
        /\ at = 0 /\ buffer = <<>> /\ phase = "reading" /\ seen = <<>> /\ reply = <<>>
    BY DEF FramesInit
  <1>1. WellEnded(turn) /\ turn \in Seq(Events) /\ Len(turn) \in Nat \ {0}
    BY <1>0, TurnsAreWellEnded DEF WellEnded
  <1>2. Len(Wire(turn)) \in Nat /\ cut \in Nat
    <2>1. Len(Wire(turn)) \in Nat
      BY <1>1, WireIsSymbols, LenProperties
    <2> QED
      BY <1>0, <2>1
  <1>3. StreamTypes
    <2>1. at \in 0..cut
      BY <1>0, <1>2
    <2>2. how = "" /\ phase # "ended" /\ phase \in {"reading", "cutting", "closing", "ended"}
      BY DEF FramesInit
    <2> QED
      BY <1>0, <2>1, <2>2 DEF StreamTypes
  <1>4. TornIsAValue
    BY DEF FramesInit, TornIsAValue
  <1>5. seen \in Seq(Events) /\ Len(seen) = 0
    BY <1>0
  <1>6. SeenInv
    BY <1>0, <1>1, <1>5 DEF SeenInv
  <1>7. BufferInv
    <2>1. 0 \in 0..(Len(turn) - 1) /\ 0 + 1 = 1 /\ 1 \in 1..Len(turn)
      BY <1>1
    <2>2. SizeOf(turn, 0) = 0 /\ SizeOf(turn, 1) = 0 + Len(Frame(turn[1]))
      BY <1>1, <2>1, FrameOnTheWire
    <2>3. Len(Frame(turn[1])) \in 4..7
      BY <1>1, <2>1, ElementOfSeq, EndOfFrame
    <2>4. 0 < SizeOf(turn, 1)
      BY <2>2, <2>3
    <2>5. buffer \in Seq(Symbols) /\ Len(buffer) = 0
      BY <1>0
    <2>6. SubSeq(Arrives, 0 - 0 + 1, 0) = <<>>
      <3>1. SubSeq(Arrives, 0 + 1, 0) \in Seq(Symbols) /\ Len(SubSeq(Arrives, 0 + 1, 0)) = 0 - 0
        <4>1. 0 \in 0..cut /\ 0 <= 0
          BY <1>2
        <4> QED
          BY <1>3, <1>4, <4>1, PartArrives
      <3>2. 0 - 0 + 1 = 0 + 1 /\ 0 - 0 = 0
        OBVIOUS
      <3> QED
        BY <3>1, <3>2, EmptySeq
    <2> QED
      BY <1>0, <1>5, <2>2, <2>4, <2>5, <2>6 DEF BufferInv
  <1>8. ReplyInv
    <2>1. Said(seen)[0] = <<>>
      BY <1>5, SaidStep
    <2>2. reply = <<>> /\ reply \in Seq(Pieces) /\ phase # "ended"
      BY <1>0
    <2> QED
      BY <1>0, <1>5, <2>1, <2>2 DEF ReplyInv, ReplyIsOfTheEvents
  <1> QED
    BY <1>3, <1>4, <1>6, <1>7, <1>8 DEF FramesInv

\* A chunk goes on where the buffer ends.
LEMMA ChunkKeeps ==
  ASSUME FramesInv, NEW n \in 1..(cut - at), Chunk(n)
  PROVE  FramesInv'
  <1>1. StreamTypes /\ TornIsAValue /\ SeenInv /\ BufferInv /\ ReplyInv
    BY DEF FramesInv
  <1>2. /\ cut \in Nat /\ at \in Nat /\ at <= cut /\ Arrives \in Seq(Symbols) /\ Len(Arrives) = cut
    BY <1>1, ArrivesIs
  <1>3. /\ phase = "reading" /\ buffer' = buffer \o SubSeq(Arrives, at + 1, at + n)
        /\ at' = at + n /\ phase' = "cutting"
        /\ turn' = turn /\ cut' = cut /\ torn' = torn /\ seen' = seen /\ reply' = reply /\ how' = how
    BY DEF Chunk
  <1>4. n \in Nat /\ at + n \in Nat /\ at + n \in 0..cut /\ at <= at + n
    BY <1>2
  <1>5. Arrives' = Arrives
    BY <1>3 DEF Arrives
  <1>6. /\ DueAt \in Nat /\ buffer = SubSeq(Arrives, DueAt + 1, at) /\ at = DueAt + Len(buffer)
        /\ Len(buffer) \in Nat /\ buffer \in Seq(Symbols)
    BY <1>1, <1>3, BufferIs
  <1>7. buffer' = SubSeq(Arrives, DueAt + 1, at + n)
    <2>1. /\ DueAt + 1 \in 1..Len(Arrives) + 1 /\ at \in (DueAt + 1) - 1..Len(Arrives)
          /\ at + n \in at..Len(Arrives)
      BY <1>2, <1>4, <1>6
    <2>2. SubSeq(Arrives, DueAt + 1, at) \o SubSeq(Arrives, at + 1, at + n)
            = SubSeq(Arrives, DueAt + 1, at + n)
      BY <1>2, <2>1, ConcatAdjacentSubSeq
    <2> QED
      BY <1>3, <1>6, <2>2
  <1>8. buffer' \in Seq(Symbols) /\ Len(buffer') = (at + n) - DueAt
    <2>1. DueAt <= at + n
      BY <1>4, <1>6
    <2> QED
      BY <1>1, <1>4, <1>6, <1>7, <2>1, PartArrives
  <1>9. /\ Len(buffer') <= at' /\ at' - Len(buffer') + 1 = DueAt + 1
        /\ at' = DueAt + Len(buffer')
    <2> DEFINE m == Len(buffer')
    <2>1. m = (at + n) - DueAt
      BY <1>8
    <2> HIDE DEF m
    <2>2. m <= at + n /\ (at + n) - m + 1 = DueAt + 1 /\ at + n = DueAt + m
      BY <1>4, <1>6, <2>1
    <2> QED
      BY <1>3, <2>2 DEF m
  <1>10. BufferInv'
    <2>1. buffer' = SubSeq(Arrives', at' - Len(buffer') + 1, at')
      BY <1>3, <1>5, <1>7, <1>9
    <2>2. at' = SizeOf(turn', Len(seen')) + Len(buffer')
      BY <1>3, <1>9 DEF DueAt
    <2>3. phase' # "reading"
      BY <1>3
    <2> QED
      BY <1>8, <1>9, <2>1, <2>2, <2>3 DEF BufferInv
  <1>11. StreamTypes'
    BY <1>1, <1>3, <1>4 DEF StreamTypes
  <1>12. TornIsAValue'
    BY <1>1, <1>3 DEF TornIsAValue
  <1>13. SeenInv'
    BY <1>1, <1>3 DEF SeenInv
  <1>14. ReplyInv'
    BY <1>1, <1>3 DEF ReplyInv, ReplyIsOfTheEvents
  <1> QED
    BY <1>10, <1>11, <1>12, <1>13, <1>14 DEF FramesInv

\* A frame that is cut is that of the next event.
LEMMA CutFrameKeeps ==
  ASSUME FramesInv, CutFrame
  PROVE  FramesInv'
  <1> DEFINE i == FirstEnd(buffer)
             rest == SubSeq(buffer, i + 2, Len(buffer))
             frame == SubSeq(buffer, 1, i - 1)
  <1>1. StreamTypes /\ TornIsAValue /\ SeenInv /\ BufferInv /\ ReplyInv
    BY DEF FramesInv
  <1>2. /\ phase = "cutting" /\ Ends(buffer) # {} /\ buffer' = rest /\ Handle(frame, "cutting")
        /\ turn' = turn /\ cut' = cut /\ torn' = torn /\ at' = at
    BY DEF CutFrame, FirstEnd
  <1>3. /\ parseSseFrame(frame) = Due
        /\ rest \in Seq(Symbols) /\ Len(rest) <= at /\ rest = SubSeq(Arrives, at - Len(rest) + 1, at)
        /\ at = SizeOf(turn, Len(seen) + 1) + Len(rest)
    BY <1>1, <1>2, FirstFrame
  <1> HIDE DEF frame, rest
  <1>4. WellEnded(turn) /\ how = "" /\ phase # "ended"
    BY <1>1, <1>2, TurnsAreWellEnded DEF StreamTypes
  <1>5. /\ SeenInv' /\ ReplyInv' /\ phase' \in {"cutting", "ended"}
        /\ how' \in {"", "done", "error"} /\ (how' # "") = (phase' = "ended")
        /\ Len(seen') = Len(seen) + 1
    BY <1>1, <1>2, <1>3, <1>4, HandleKeeps
  <1>6. Arrives' = Arrives
    BY <1>2 DEF Arrives
  <1>7. BufferInv'
    BY <1>2, <1>3, <1>5, <1>6 DEF BufferInv
  <1>8. StreamTypes'
    BY <1>1, <1>2, <1>5 DEF StreamTypes
  <1>9. TornIsAValue'
    BY <1>1, <1>2 DEF TornIsAValue
  <1> QED
    BY <1>5, <1>7, <1>8, <1>9 DEF FramesInv

\* The page waits for more.
LEMMA NoFrameKeeps ==
  ASSUME FramesInv, NoFrame
  PROVE  FramesInv'
  <1>1. StreamTypes /\ TornIsAValue /\ SeenInv /\ BufferInv /\ ReplyInv
    BY DEF FramesInv
  <1>2. /\ phase = "cutting" /\ Ends(buffer) = {} /\ phase' = "reading"
        /\ turn' = turn /\ cut' = cut /\ torn' = torn /\ at' = at /\ buffer' = buffer
        /\ seen' = seen /\ reply' = reply /\ how' = how
    BY DEF NoFrame
  <1>3. at < SizeOf(turn, Len(seen) + 1)
    BY <1>1, <1>2, NotWhole
  <1>4. Arrives' = Arrives
    BY <1>2 DEF Arrives
  <1>5. BufferInv'
    BY <1>1, <1>2, <1>3, <1>4 DEF BufferInv
  <1>6. StreamTypes'
    BY <1>1, <1>2 DEF StreamTypes
  <1>7. TornIsAValue'
    BY <1>1, <1>2 DEF TornIsAValue
  <1>8. SeenInv'
    BY <1>1, <1>2 DEF SeenInv
  <1>9. ReplyInv'
    BY <1>1, <1>2 DEF ReplyInv, ReplyIsOfTheEvents
  <1> QED
    BY <1>5, <1>6, <1>7, <1>8, <1>9 DEF FramesInv

\* What is left at the end is the next event, cut short, or nothing.
LEMMA LastFrameKeeps ==
  ASSUME FramesInv, LastFrame
  PROVE  FramesInv'
  <1>1. StreamTypes /\ TornIsAValue /\ SeenInv /\ BufferInv /\ ReplyInv
    BY DEF FramesInv
  <1>2. /\ phase = "reading" /\ buffer' = <<>> /\ Handle(buffer, "closing")
        /\ turn' = turn /\ cut' = cut /\ torn' = torn /\ at' = at
    BY DEF LastFrame
  <1>3. parseSseFrame(buffer) \in {Due, Nil}
    <2>1. /\ Due \in Events /\ DueAt \in Nat /\ SizeOf(turn, Len(seen) + 1) = DueAt + Len(Frame(Due))
          /\ at = DueAt + Len(buffer) /\ Len(buffer) \in Nat
          /\ Len(buffer) < Len(Frame(Due)) => PartOf(buffer, Due)
      BY <1>1, <1>2, BufferIs
    <2>2. at < SizeOf(turn, Len(seen) + 1)
      BY <1>1, <1>2 DEF BufferInv
    <2>3. Len(Frame(Due)) \in 4..7
      BY <2>1, EndOfFrame
    <2>4. Len(buffer) < Len(Frame(Due))
      <3> DEFINE m == Len(buffer)
                 l == Len(Frame(Due))
      <3>1. DueAt + m < DueAt + l /\ m \in Nat /\ l \in 4..7
        BY <2>1, <2>2, <2>3
      <3> HIDE DEF m, l
      <3>2. m < l
        BY <2>1, <3>1
      <3> QED
        BY <3>2 DEF m, l
    <2> QED
      BY <2>1, <2>4, PartIsRead
  <1>4. WellEnded(turn) /\ how = "" /\ phase # "ended"
    BY <1>1, <1>2, TurnsAreWellEnded DEF StreamTypes
  <1>5. /\ SeenInv' /\ ReplyInv' /\ phase' \in {"closing", "ended"}
        /\ how' \in {"", "done", "error"} /\ (how' # "") = (phase' = "ended")
    BY <1>1, <1>2, <1>3, <1>4, HandleKeeps
  <1>6. BufferInv'
    <2>1. at \in Nat /\ at \in 0..cut /\ Arrives' = Arrives
      BY <1>1, <1>2, ArrivesIs DEF StreamTypes, Arrives
    <2>2. SubSeq(Arrives, at + 1, at) \in Seq(Symbols) /\ Len(SubSeq(Arrives, at + 1, at)) = at - at
      BY <1>1, <2>1, PartArrives
    <2>3. SubSeq(Arrives, at + 1, at) = <<>>
      BY <2>1, <2>2, EmptySeq
    <2>4. buffer' \in Seq(Symbols) /\ Len(buffer') = 0 /\ 0 <= at /\ at - 0 + 1 = at + 1
      BY <1>2, <2>1
    <2>5. phase' \notin {"reading", "cutting"}
      BY <1>5
    <2>6. buffer' = SubSeq(Arrives', at' - Len(buffer') + 1, at')
      BY <1>2, <2>1, <2>3, <2>4
    <2> QED
      BY <1>2, <2>4, <2>5, <2>6 DEF BufferInv
  <1>7. StreamTypes'
    BY <1>1, <1>2, <1>5 DEF StreamTypes
  <1>8. TornIsAValue'
    BY <1>1, <1>2 DEF TornIsAValue
  <1> QED
    BY <1>5, <1>6, <1>7, <1>8 DEF FramesInv

\* The stream is left without an event: it closes, breaks or is aborted.
LEMMA EndsKeep ==
  ASSUME FramesInv, Closes \/ Breaks \/ Aborts
  PROVE  FramesInv'
  <1>1. StreamTypes /\ TornIsAValue /\ SeenInv /\ BufferInv /\ ReplyInv
    BY DEF FramesInv
  <1>2. /\ phase \in {"reading", "closing"} /\ phase' = "ended"
        /\ how' \in {"closed", "broken", "aborted"}
        /\ turn' = turn /\ cut' = cut /\ torn' = torn /\ at' = at /\ buffer' = buffer /\ seen' = seen
        /\ reply' = Finished(IF how' = "broken" THEN Append(reply, ModelError) ELSE reply, seen)
    BY DEF Closes, Breaks, Aborts, EndWith
  <1>3. seen \in Seq(Events) /\ reply \in Seq(Pieces) /\ reply = Said(seen)[Len(seen)]
    BY <1>1, <1>2 DEF SeenInv, ReplyInv
  <1>4. ReplyInv'
    BY <1>2, <1>3, TheReply DEF ReplyInv, ReplyIsOfTheEvents
  <1>5. Arrives' = Arrives
    BY <1>2 DEF Arrives
  <1>6. BufferInv'
    BY <1>1, <1>2, <1>5 DEF BufferInv
  <1>7. StreamTypes'
    BY <1>1, <1>2 DEF StreamTypes
  <1>8. TornIsAValue'
    BY <1>1, <1>2 DEF TornIsAValue
  <1>9. SeenInv'
    BY <1>1, <1>2 DEF SeenInv
  <1> QED
    BY <1>4, <1>6, <1>7, <1>8, <1>9 DEF FramesInv

\* However the stream is cut, the invariant holds.
LEMMA FramesInvariance == FramesSpec => []FramesInv
  <1>1. FramesInv /\ [FramesNext]_frameVars => FramesInv'
    <2> SUFFICES ASSUME FramesInv, [FramesNext]_frameVars
                 PROVE  FramesInv'
      OBVIOUS
    <2>1. CASE \E n \in 1..(cut - at) : Chunk(n)
      BY <2>1, ChunkKeeps
    <2>2. CASE CutFrame
      BY <2>2, CutFrameKeeps
    <2>3. CASE NoFrame
      BY <2>3, NoFrameKeeps
    <2>4. CASE LastFrame
      BY <2>4, LastFrameKeeps
    <2>5. CASE Closes \/ Breaks \/ Aborts
      BY <2>5, EndsKeep
    <2>6. CASE UNCHANGED frameVars
      BY <2>6 DEF frameVars, FramesInv, StreamTypes, TornIsAValue, SeenInv, BufferInv, Arrives,
                  ReplyInv, ReplyIsOfTheEvents
    <2> QED
      BY <2>1, <2>2, <2>3, <2>4, <2>5, <2>6 DEF FramesNext
  <1> QED
    BY <1>1, FramesStart, PTL DEF FramesSpec

\* A sequence that agrees with a longer one is its beginning.
LEMMA SeenIsAPart ==
  ASSUME NEW s \in Seq(Events), NEW t \in Seq(Events), Len(s) <= Len(t),
         \A i \in 1..Len(s) : s[i] = t[i]
  PROVE  s = SubSeq(t, 1, Len(s))
  <1> DEFINE p == SubSeq(t, 1, Len(s))
             n == Len(s)
  <1>1. n \in Nat /\ Len(t) \in Nat /\ n \in Int /\ 1 \in Int
    BY LenProperties
  <1>2. \A i \in 1..n : t[i] \in Events
    <2>1. \A i \in 1..n : i \in 1..Len(t)
      BY <1>1
    <2> QED
      BY <2>1, ElementOfSeq
  <1>3. /\ p \in Seq(Events) /\ Len(p) = IF 1 <= n THEN n - 1 + 1 ELSE 0
        /\ \A i \in 1..n - 1 + 1 : p[i] = t[1 + i - 1]
    BY <1>1, <1>2, SubSeqProperties
  <1> HIDE DEF p
  <1>4. Len(p) = n /\ \A i \in 1..n : p[i] = t[i]
    BY <1>1, <1>3
  <1> QED
    BY <1>3, <1>4, SeqEqual DEF p

-----------------------------------------------------------------------------
(* The properties of the stream.                                             *)

\* The buffer holds what was read last and nothing else, and no more events are seen
\* than were sent (sseFrames).
THEOREM FramesTypeCorrect == FramesSpec => []FramesTypeOK
  <1>1. FramesInv => FramesTypeOK
    BY DEF FramesInv, StreamTypes, SeenInv, BufferInv, FramesTypeOK
  <1> QED
    BY <1>1, FramesInvariance, PTL

\* Whenever the page waits for more it has seen the events that have arrived whole,
\* however the bytes were cut into chunks (sseFrames, parseSseFrame).
THEOREM ArrivedEventsAreSeen == FramesSpec => []SeenIsWhatArrived
  <1>1. FramesInv => SeenIsWhatArrived
    <2> SUFFICES ASSUME FramesInv, phase = "reading"
                 PROVE  seen = SubSeq(turn, 1, Whole(turn, at))
      BY DEF SeenIsWhatArrived
    <2>1. StreamTypes /\ TornIsAValue /\ SeenInv /\ BufferInv
      BY DEF FramesInv
    <2>2. /\ Len(seen) \in 0..(Len(turn) - 1) /\ DueAt \in Nat /\ at = DueAt + Len(buffer)
          /\ Len(buffer) \in Nat /\ Len(seen) \in Nat
      BY <2>1, BufferIs
    <2>3. turn \in Seq(Events) /\ Len(turn) \in Nat /\ at \in Nat
      BY <2>1, ArrivesIs, LenProperties DEF WellEnded
    <2>4. SizeOf(turn, Len(seen)) <= at /\ at < SizeOf(turn, Len(seen) + 1)
      <3>1. DueAt <= at
        BY <2>2, <2>3
      <3> QED
        BY <2>1, <3>1 DEF BufferInv, DueAt
    <2>5. Whole(turn, at) = Len(seen)
      BY <2>2, <2>3, <2>4, WholeIs
    <2>6. seen = SubSeq(turn, 1, Len(seen))
      BY <2>1, <2>3, SeenIsAPart DEF SeenInv
    <2> QED
      BY <2>5, <2>6
  <1> QED
    BY <1>1, FramesInvariance, PTL

\* A connection lost at any symbol, or within a value, adds no event that was not sent
\* (the last frame of sseFrames).
THEOREM SeenEventsWereSent == FramesSpec => []NothingIsInvented
  <1>1. FramesInv => NothingIsInvented
    <2> SUFFICES ASSUME FramesInv
                 PROVE  IsPrefix(seen, turn)
      BY DEF NothingIsInvented
    <2>1. StreamTypes /\ TornIsAValue /\ SeenInv
      BY DEF FramesInv
    <2>2. turn \in Seq(Events) /\ seen \in Seq(Events) /\ Len(seen) <= Len(turn)
      BY <2>1, ArrivesIs DEF WellEnded, SeenInv
    <2>3. seen = SubSeq(turn, 1, Len(seen))
      BY <2>1, <2>2, SeenIsAPart DEF SeenInv
    <2>4. seen = SubSeq(seen, 1, Len(seen))
      BY <2>2, SubSeqFull
    <2> QED
      BY <2>2, <2>3, <2>4 DEF IsPrefix
  <1> QED
    BY <1>1, FramesInvariance, PTL

\* The reply at the end is what the events say, by consume() and by consumeChat(), and
\* never an empty message.
THEOREM RepliesAreOfTheEvents == FramesSpec => []ReplyIsOfTheEvents
  <1>1. FramesInv => ReplyIsOfTheEvents
    BY DEF FramesInv, ReplyInv
  <1> QED
    BY <1>1, FramesInvariance, PTL
=============================================================================
