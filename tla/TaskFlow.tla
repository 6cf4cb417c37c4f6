------------------------------ MODULE TaskFlow ------------------------------
(***************************************************************************)
(* The task page: the store of frontend/src/components/task/flow.ts and    *)
(* the controls that ExecutionPanel, SpecCard, ChatPanel and TaskPage put  *)
(* in front of it.  The page runs one handler at a time, but a handler     *)
(* that awaits the server resumes after others have run: every request     *)
(* here is sent by one action and answered, or failed, by a later one.     *)
(*                                                                         *)
(* A spec set is a number: the model's proposals and the designer's ticks  *)
(* each make a new one.  The gate is outside the repository; all that is   *)
(* used of it is which answers leave a token spent.                        *)
(***************************************************************************)
EXTENDS Naturals, FiniteSets

CONSTANTS
  MaxSpecs,      \* bound: spec sets proposed or ticked
  MaxSends,      \* bound: chat requests the designer makes
  MaxConfirms,   \* bound: confirmations under way or issued
  MaxRuns,       \* bound: executions the page asks for
  None

ASSUME BoundsAreNat ==
  MaxSpecs \in Nat /\ MaxSends \in Nat /\ MaxConfirms \in Nat /\ MaxRuns \in Nat

VARIABLES
  compare,       \* the switch "Compare with no bridge"
  transcript,    \* streaming and sessionId of each side
  streams,       \* the chat requests open, whatever the transcripts say
  opened,        \* how many chat requests were made: numbers the controllers
  controller,    \* the AbortController the store holds, 0 for null
  proposal,      \* the spec card, or None
  specs,         \* how many spec sets were made
  reconciles,    \* the drafts being reconciled
  confirming,
  confirms,      \* the confirmations on their way
  confirmation,  \* the token and the spec set it is bound to, or None
  issued,        \* how many tokens were issued
  running,
  calls,         \* the executions on their way
  runs,          \* how many executions were asked for
  execution,     \* the result shown, or None
  reported,
  told,          \* history: how often each execution was sent to the model
  answers        \* history: how each token's executions ended

chatVars == <<transcript, streams, opened, controller>>
cardVars == <<proposal, specs, reconciles>>
confVars == <<confirming, confirms, confirmation, issued>>
execVars == <<running, calls, runs, execution, reported, told, answers>>
vars == <<compare, chatVars, cardVars, confVars, execVars>>

Sides == {"bridge", "baseline"}
Verdicts == {"none", "open", "ready"}      \* no reconcile, not ready, ready

\* What an execution may end in.  "failed": it ran, Revit or the validator says
\* no; "kept": success is false but nothing reached Revit and the token is whole
\* (blocked, or the relay lost the add-in); "error": the request was rejected;
\* "lost": it ran and the answer never came back.
Results == {"success", "failed", "kept", "refused"}
Rejections == {"error", "lost"}
Spending == {"success", "failed", "lost"}

Spent == {a.token : a \in {b \in answers : b.outcome \in Spending}}

\* The gate redeems a token once and for the confirmed values only.
Possible(c) ==
  IF c.changed \/ c.token \in Spent
    THEN {"refused", "error"}
    ELSE Results \union Rejections

Init ==
  /\ compare \in BOOLEAN
  /\ transcript = [s \in Sides |-> [streaming |-> FALSE, session |-> FALSE]]
  /\ streams = {}
  /\ opened = 0
  /\ controller = 0
  /\ proposal = None
  /\ specs = 0
  /\ reconciles = {}
  /\ confirming = FALSE
  /\ confirms = {}
  /\ confirmation = None
  /\ issued = 0
  /\ running = FALSE
  /\ calls = {}
  /\ runs = 0
  /\ execution = None
  /\ reported = FALSE
  /\ told = [i \in 1..MaxRuns |-> 0]
  /\ answers = {}

-----------------------------------------------------------------------------
(* The chat.  consume() opens a stream, marks its side and unmarks it when   *)
(* the stream ends, in whatever way it ends.                                 *)

Busy == \E s \in Sides : transcript[s].streaming

\* A new AbortController and one request on each of the sides.
Open(sides, kind) ==
  /\ opened' = opened + 1
  /\ controller' = opened + 1
  /\ streams' = streams \union
       {[side |-> s, kind |-> kind, signal |-> opened + 1] : s \in sides}
  /\ transcript' = [s \in Sides |->
       IF s \in sides THEN [transcript[s] EXCEPT !.streaming = TRUE]
                      ELSE transcript[s]]

Send ==
  /\ ~Busy
  /\ opened < MaxSends
  /\ Open(IF compare THEN Sides ELSE {"bridge"}, "turn")
  /\ UNCHANGED <<compare, cardVars, confVars, execVars>>

\* The session id comes with the headers of the response.
SessionEvent(m) ==
  /\ ~transcript[m.side].session
  /\ transcript' = [transcript EXCEPT ![m.side].session = TRUE]
  /\ UNCHANGED <<compare, streams, opened, controller, cardVars, confVars, execVars>>

\* Mutant: the flag is left over from the proposal before.
ProposedKeepsReconciling(d, v) ==
  [draft |-> d, origin |-> d, verdict |-> v, about |-> d,
   reconciling |-> proposal # None /\ proposal.reconciling, failed |-> v = "none"]

\* The proposal of a spec event, with the verdict the server reconciled it to.
Proposed(d, v) ==
  [draft |-> d, origin |-> d, verdict |-> v, about |-> d,
   reconciling |-> FALSE, failed |-> v = "none"]

\* A new proposal supersedes the confirmed one and what it led to.  report() hands
\* consume() no onSpec: the spec event of a report is read and dropped.
OnSpec(m, v) ==
  /\ m.side = "bridge" /\ m.kind = "turn"
  /\ specs < MaxSpecs
  /\ specs' = specs + 1
  /\ proposal' = Proposed(specs', v)
  /\ confirmation' = None
  /\ execution' = None
  /\ reported' = FALSE
  /\ UNCHANGED <<compare, chatVars, reconciles, confirming, confirms, issued,
                 running, calls, runs, told, answers>>

StreamEnds(m) ==
  /\ streams' = streams \ {m}
  /\ transcript' = [transcript EXCEPT ![m.side].streaming = FALSE]
  /\ UNCHANGED <<compare, opened, controller, cardVars, confVars, execVars>>

SetCompare ==
  /\ ~Busy
  /\ compare' = ~compare
  /\ UNCHANGED <<chatVars, cardVars, confVars, execVars>>

-----------------------------------------------------------------------------
(* The spec card.                                                            *)

\* toggleInterpretation(): the ticks are disabled while a reconcile is awaited.
Toggle ==
  /\ proposal # None
  /\ ~proposal.reconciling
  /\ specs < MaxSpecs
  /\ specs' = specs + 1
  /\ proposal' = [proposal EXCEPT !.draft = specs', !.reconciling = TRUE]
  /\ reconciles' = reconciles \union {specs'}
  /\ UNCHANGED <<compare, chatVars, confVars, execVars>>

\* Mutant: whatever the card shows by now.
AnyDraft(d) == proposal # None

\* Is the draft that was sent still the card's?
IsDraft(d) == proposal # None /\ proposal.draft = d

\* The answer about a draft that is no longer the card's is dropped.
ReconcileAnswers(d, v) ==
  /\ reconciles' = reconciles \ {d}
  /\ proposal' =
       IF IsDraft(d)
         THEN [proposal EXCEPT !.verdict = v, !.about = d,
                               !.reconciling = FALSE, !.failed = FALSE]
         ELSE proposal
  /\ UNCHANGED <<compare, chatVars, specs, confVars, execVars>>

NotReconciled(p) == [p EXCEPT !.reconciling = FALSE, !.failed = TRUE]

\* A failed reconcile leaves the verdict of the draft before.
ReconcileFails(d) ==
  /\ reconciles' = reconciles \ {d}
  /\ proposal' =
       IF IsDraft(d) THEN NotReconciled(proposal) ELSE proposal
  /\ UNCHANGED <<compare, chatVars, specs, confVars, execVars>>

CanConfirm ==
  /\ proposal # None
  /\ proposal.verdict = "ready"
  /\ ~proposal.reconciling
  /\ ~confirming
  /\ ~transcript["bridge"].streaming

Confirm ==
  /\ CanConfirm
  /\ issued + Cardinality(confirms) < MaxConfirms
  /\ confirming' = TRUE
  /\ confirms' = confirms \union
       {[draft |-> proposal.draft, origin |-> proposal.origin]}
  /\ UNCHANGED <<compare, chatVars, cardVars, confirmation, issued, execVars>>

ConfirmIssued(c) ==
  /\ confirms' = confirms \ {c}
  /\ issued' = issued + 1
  /\ confirmation' = [token |-> issued', draft |-> c.draft, origin |-> c.origin,
                      used |-> FALSE]
  /\ confirming' = FALSE
  /\ execution' = None
  /\ reported' = FALSE
  /\ UNCHANGED <<compare, chatVars, cardVars, running, calls, runs, told, answers>>

ConfirmRefused(c) ==
  /\ confirms' = confirms \ {c}
  /\ confirming' = FALSE
  /\ UNCHANGED <<compare, chatVars, cardVars, confirmation, issued, execVars>>

-----------------------------------------------------------------------------
(* Confirm and run.                                                          *)

\* runProjection(): changed says that the values sent are not the confirmed ones.
RunProjection(kind, changed) ==
  /\ confirmation # None
  /\ ~running
  /\ runs < MaxRuns
  /\ running' = TRUE
  /\ runs' = runs + 1
  /\ calls' = calls \union {[id |-> runs', token |-> confirmation.token,
                             kind |-> kind, changed |-> changed]}
  /\ UNCHANGED <<compare, chatVars, cardVars, confVars, execution, reported,
                 told, answers>>

\* "Run" is disabled once the token is marked used.
Run ==
  /\ confirmation # None /\ ~confirmation.used
  /\ RunProjection("genuine", FALSE)

\* "Run edited" is not; the edited text may still stand for the same value.
RunTampered == \E changed \in BOOLEAN : RunProjection("tampered", changed)

\* Mutant: a turn may be streaming.
CanReportWhileStreaming(e, shown) ==
  e # None /\ transcript["bridge"].session /\ ~shown

\* Mutant: what was reported may be reported again.
CanReportAgain(e, shown) ==
  e # None /\ transcript["bridge"].session /\ ~transcript["bridge"].streaming

CanReport(e, shown) ==
  /\ e # None
  /\ transcript["bridge"].session
  /\ ~transcript["bridge"].streaming
  /\ ~shown

\* Mutant: only a success is taken to have used the token.
UsedOnSuccess(o) == o = "success"

\* Everything but a gate refusal marks the confirmation used.
Uses(o) == o # "refused"

Shown(c, o) == [id |-> c.id, token |-> c.token, outcome |-> o]

\* The result of a genuine run goes on to the model, unless the gate refused it.
ReportsItself(c, o) ==
  /\ c.kind = "genuine" /\ Uses(o)
  /\ CanReport(Shown(c, o), FALSE)

RunAnswers(c, o) ==
  /\ o \in Possible(c) \intersect Results
  /\ calls' = calls \ {c}
  /\ answers' = answers \union {[token |-> c.token, outcome |-> o]}
  /\ execution' = Shown(c, o)
  /\ running' = FALSE
  /\ confirmation' = IF confirmation # None /\ Uses(o)
                       THEN [confirmation EXCEPT !.used = TRUE]
                       ELSE confirmation
  /\ reported' = ReportsItself(c, o)
  /\ \/ ReportsItself(c, o) /\ Open({"bridge"}, "report")
                            /\ told' = [told EXCEPT ![c.id] = @ + 1]
     \/ ~ReportsItself(c, o) /\ UNCHANGED <<chatVars, told>>
  /\ UNCHANGED <<compare, cardVars, confirming, confirms, issued, runs>>

RunRejected(c, o) ==
  /\ o \in Possible(c) \intersect Rejections
  /\ calls' = calls \ {c}
  /\ answers' = answers \union {[token |-> c.token, outcome |-> o]}
  /\ execution' = Shown(c, o)
  /\ running' = FALSE
  /\ reported' = FALSE
  /\ UNCHANGED <<compare, chatVars, cardVars, confVars, runs, told>>

\* The button, which a refused execution does not have.
Report ==
  /\ CanReport(execution, reported)
  /\ execution.outcome # "refused"
  /\ opened < MaxSends
  /\ reported' = TRUE
  /\ told' = [told EXCEPT ![execution.id] = @ + 1]
  /\ Open({"bridge"}, "report")
  /\ UNCHANGED <<compare, cardVars, confVars, running, calls, runs, execution, answers>>

-----------------------------------------------------------------------------
\* "New session", enabled unless the bridge side is streaming.  abort() ends the
\* streams of the controller the store holds, and only those.
Reset ==
  /\ ~transcript["bridge"].streaming
  /\ streams' = {m \in streams : m.signal # controller}
  /\ controller' = 0
  /\ transcript' = [s \in Sides |-> [streaming |-> FALSE, session |-> FALSE]]
  /\ proposal' = None
  /\ confirmation' = None
  /\ confirming' = FALSE
  /\ execution' = None
  /\ running' = FALSE
  /\ reported' = FALSE
  /\ UNCHANGED <<compare, opened, specs, reconciles, confirms, issued, calls, runs,
                 told, answers>>

Designer ==
  \/ Send \/ SetCompare \/ Toggle \/ Confirm
  \/ Run \/ RunTampered \/ Report \/ Reset

Stream(m) ==
  \/ SessionEvent(m) \/ StreamEnds(m)
  \/ \E v \in Verdicts : OnSpec(m, v)

ReconcileReturns(d) ==
  \/ ReconcileFails(d)
  \/ \E v \in {"open", "ready"} : ReconcileAnswers(d, v)

ConfirmReturns(c) == ConfirmIssued(c) \/ ConfirmRefused(c)

RunReturns(c) == \E o \in Results \union Rejections : RunAnswers(c, o) \/ RunRejected(c, o)

Next ==
  \/ Designer
  \/ \E m \in streams : Stream(m)
  \/ \E d \in reconciles : ReconcileReturns(d)
  \/ \E c \in confirms : ConfirmReturns(c)
  \/ \E c \in calls : RunReturns(c)

Spec == Init /\ [][Next]_vars

\* Every request the page awaits is answered or fails; nothing is assumed of the
\* designer, nor of the chat's streams.
Fairness ==
  /\ \A d \in 1..MaxSpecs : WF_vars(d \in reconciles /\ ReconcileReturns(d))
  /\ \A d \in 1..MaxSpecs : WF_vars(\E c \in confirms : c.draft = d /\ ConfirmReturns(c))
  /\ \A i \in 1..MaxRuns : WF_vars(\E c \in calls : c.id = i /\ RunReturns(c))

FairSpec == Spec /\ Fairness

-----------------------------------------------------------------------------
ChatTypes ==
  /\ transcript \in [Sides -> [streaming : BOOLEAN, session : BOOLEAN]]
  /\ opened \in Nat /\ controller \in 0..opened
  /\ streams \subseteq [side : Sides, kind : {"turn", "report"}, signal : 1..opened]

Proposals == [draft : 1..specs, origin : 1..specs, verdict : Verdicts,
              about : 1..specs, reconciling : BOOLEAN, failed : BOOLEAN]

CardTypes ==
  /\ specs \in 0..MaxSpecs
  /\ proposal \in Proposals \union {None}
  /\ reconciles \subseteq 1..specs

Confirmations == [token : 1..issued, draft : 1..specs, origin : 1..specs, used : BOOLEAN]

ConfTypes ==
  /\ confirming \in BOOLEAN
  /\ confirms \subseteq [draft : 1..specs, origin : 1..specs]
  /\ issued \in Nat
  /\ confirmation \in Confirmations \union {None}

Outcomes == Results \union Rejections

ExecTypes ==
  /\ running \in BOOLEAN /\ reported \in BOOLEAN
  /\ runs \in 0..MaxRuns /\ told \in [1..MaxRuns -> Nat]
  /\ calls \subseteq [id : 1..runs, token : 1..issued, kind : {"genuine", "tampered"},
                      changed : BOOLEAN]
  /\ answers \subseteq [token : 1..issued, outcome : Outcomes]
  /\ execution \in [id : 1..runs, token : 1..issued, outcome : Outcomes] \union {None}

TypeOK == compare \in BOOLEAN /\ ChatTypes /\ CardTypes /\ ConfTypes /\ ExecTypes

\* Unless the last reconcile failed, Confirm is lit only by a verdict about the
\* very spec set it would confirm, whatever reconciles answer in between.
ReadyIsOfDraft ==
  CanConfirm /\ ~proposal.failed => proposal.about = proposal.draft

\* One conversation has one turn at a time: the page never has two requests open
\* on the bridge session, not even when a run's own report meets a turn.
OneBridgeStream == Cardinality({m \in streams : m.side = "bridge"}) <= 1

\* A token the page was told is spent is never offered for another run.
KnownSpentIsUsed ==
  \A a \in answers :
    (confirmation # None /\ confirmation.token = a.token
        /\ a.outcome \in {"success", "failed"}) => confirmation.used

\* The model is told of an execution once: by the run itself or by the button,
\* in whatever order the run, the designer and the end of the stream come.
ToldOnce == \A i \in 1..MaxRuns : told[i] <= 1

\* No wait leaves the page stuck: running, confirming and reconciling end, though
\* resets and new proposals drop the answers they waited for.
NothingHangs ==
  /\ running ~> ~running
  /\ confirming ~> ~confirming
  /\ (proposal # None /\ proposal.reconciling) ~>
       (proposal = None \/ ~proposal.reconciling)

=============================================================================
