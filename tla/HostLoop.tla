------------------------------ MODULE HostLoop ------------------------------
(***************************************************************************)
(* The host loop of backend/api/chat.py on one session of                  *)
(* backend/session.py.  A turn adds the user's message, sends the model a  *)
(* window of the history, runs the tools the model calls and sends the     *)
(* next request, until the model answers in text or its rounds are used up *)
(* and it is offered no tools.                                             *)
(*                                                                         *)
(* The loop awaits the model and the tools, so turns of one session may    *)
(* interleave: the page has one turn at a time, but a turn whose           *)
(* connection the page has lost may still run when the next one starts.    *)
(* A message is what it is and whose it is; its text is left out.          *)
(***************************************************************************)
EXTENDS Integers, Sequences, FiniteSets, SequencesExt

CONSTANTS
  Turns,         \* the requests made of the session
  MaxHistory,    \* MAX_HISTORY
  WindowSize,    \* HISTORY_WINDOW
  MaxRounds,     \* MAX_TOOL_ROUNDS
  MaxCalls,      \* bound: the calls of one completion
  MaxInFlight    \* bound: the turns under way at once

ASSUME WindowInHistory ==
  /\ MaxHistory \in Nat /\ WindowSize \in 1..MaxHistory /\ MaxRounds \in Nat
  /\ MaxCalls \in Nat

VARIABLES
  history,       \* Session.history
  pc,            \* where the turn is
  bridge,        \* does the turn offer tools?
  round,         \* round_no
  calls,         \* how many calls the round's completion has
  next,          \* the call the turn runs next
  sent,          \* the turn's own list of messages, as the model gets it
  overlapped     \* history: has a turn started while another was under way?

vars == <<history, pc, bridge, round, calls, next, sent, overlapped>>

Message == [role : {"user", "assistant", "tool"}, turn : Turns,
            round : 0..MaxRounds, n : 0..MaxCalls]

User(t) == [role |-> "user", turn |-> t, round |-> 0, n |-> 0]
\* An assistant message with n calls, and the result of the i-th of them.
Assistant(t, r, n) == [role |-> "assistant", turn |-> t, round |-> r, n |-> n]
Tool(t, r, i) == [role |-> "tool", turn |-> t, round |-> r, n |-> i]

InFlight == {t \in Turns : pc[t] \in {"model", "tools"}}

-----------------------------------------------------------------------------
(* The session.                                                              *)

LastOf(ms, k) == SubSeq(ms, IF Len(ms) > k THEN Len(ms) - k + 1 ELSE 1, Len(ms))

\* trim_at_user_turn(): all from the first user message on.
\* Mutant: nothing is dropped.
TrimNothing(ms) == ms
TrimAtUserTurn(ms) ==
  LET first == SelectInSeq(ms, LAMBDA m : m.role = "user")
  IN IF first = 0 THEN <<>> ELSE SubSeq(ms, first, Len(ms))

\* Session.add().
\* Mutant: the history is never cut.
AddUncut(h, m) == Append(h, m)
Add(h, m) ==
  IF Len(h) >= MaxHistory THEN TrimAtUserTurn(LastOf(Append(h, m), MaxHistory))
                          ELSE Append(h, m)

\* Session.window().
Window(h) == TrimAtUserTurn(LastOf(h, WindowSize))

Init ==
  /\ history = <<>>
  /\ pc = [t \in Turns |-> "new"]
  /\ bridge \in [Turns -> BOOLEAN]
  /\ round = [t \in Turns |-> 0]
  /\ calls = [t \in Turns |-> 0]
  /\ next = [t \in Turns |-> 0]
  /\ sent = [t \in Turns |-> <<>>]
  /\ overlapped = FALSE

-----------------------------------------------------------------------------
(* A turn.                                                                   *)

\* Mutant: the window is taken before the message is added.
FirstRequestTooEarly(t) == Window(history)
FirstRequest(t) == Window(Add(history, User(t)))

\* chat(), up to the first request.
Start(t) ==
  /\ pc[t] = "new"
  /\ Cardinality(InFlight) < MaxInFlight
  /\ history' = Add(history, User(t))
  /\ sent' = [sent EXCEPT ![t] = FirstRequest(t)]
  /\ pc' = [pc EXCEPT ![t] = "model"]
  /\ overlapped' = (overlapped \/ InFlight # {})
  /\ UNCHANGED <<bridge, round, calls, next>>

\* The last round goes out without tools, and so does all of bridge: false.
ToolsOffered(t) == bridge[t] /\ round[t] < MaxRounds

Leave(t, how, h) ==
  /\ history' = h
  /\ pc' = [pc EXCEPT ![t] = how]
  /\ UNCHANGED <<bridge, round, calls, next, sent, overlapped>>

End(t, h) == Leave(t, "done", h)

\* The model answers in text, or with nothing at all.
Answer(t) ==
  /\ pc[t] = "model"
  /\ \/ End(t, Add(history, Assistant(t, round[t], 0)))
     \/ End(t, history)

\* Calls the model was not offered are dropped, and an assistant message is kept.
DropCalls(t) ==
  /\ pc[t] = "model"
  /\ ~ToolsOffered(t)
  /\ End(t, Add(history, Assistant(t, round[t], 0)))

CallTools(t, n) ==
  /\ pc[t] = "model"
  /\ ToolsOffered(t)
  /\ history' = Add(history, Assistant(t, round[t], n))
  /\ sent' = [sent EXCEPT ![t] = Append(@, Assistant(t, round[t], n))]
  /\ calls' = [calls EXCEPT ![t] = n]
  /\ next' = [next EXCEPT ![t] = 1]
  /\ pc' = [pc EXCEPT ![t] = "tools"]
  /\ UNCHANGED <<bridge, round, overlapped>>

\* One call_tool() returned; after the last one the next request goes out.
ToolReturns(t) ==
  LET result == Tool(t, round[t], next[t])
  IN /\ pc[t] = "tools"
     /\ history' = Add(history, result)
     /\ sent' = [sent EXCEPT ![t] = Append(@, result)]
     /\ \/ /\ next[t] < calls[t]
           /\ next' = [next EXCEPT ![t] = @ + 1]
           /\ UNCHANGED <<pc, round>>
        \/ /\ next[t] = calls[t]
           /\ round' = [round EXCEPT ![t] = @ + 1]
           /\ pc' = [pc EXCEPT ![t] = "model"]
           /\ UNCHANGED next
     /\ UNCHANGED <<bridge, calls, overlapped>>

\* LLMError: an error event, and what was streamed so far is not kept.
ModelFails(t) == pc[t] = "model" /\ End(t, history)

\* The page is gone: the server cancels the generator at the await it is in.
ConnectionLost(t) == t \in InFlight /\ Leave(t, "lost", history)

\* get_or_create(): two idle hours later the id is unknown and a new session starts.
Expire ==
  /\ InFlight = {}
  /\ history # <<>>
  /\ history' = <<>>
  /\ UNCHANGED <<pc, bridge, round, calls, next, sent, overlapped>>

Turn(t) ==
  \/ Start(t) \/ Answer(t) \/ DropCalls(t) \/ ToolReturns(t) \/ ModelFails(t)
  \/ ConnectionLost(t)
  \/ \E n \in 1..MaxCalls : CallTools(t, n)

Next == Expire \/ \E t \in Turns : Turn(t)

Spec == Init /\ [][Next]_vars

-----------------------------------------------------------------------------
TypeOK ==
  /\ history \in Seq(Message) /\ Len(history) <= MaxHistory
  /\ pc \in [Turns -> {"new", "model", "tools", "done", "lost"}]
  /\ bridge \in [Turns -> BOOLEAN]
  /\ round \in [Turns -> 0..MaxRounds]
  /\ calls \in [Turns -> 0..MaxCalls]
  /\ next \in [Turns -> 0..MaxCalls]
  /\ sent \in [Turns -> Seq(Message)]
  /\ overlapped \in BOOLEAN

\* The requests the model is answering.
Requests == {sent[t] : t \in {u \in Turns : pc[u] = "model"}}

\* Every tool call in a request is followed by its results, in order, and every
\* result by its call: what the model's endpoint requires of a list of messages.
WellFormed(ms) ==
  \A i \in DOMAIN ms : LET m == ms[i] IN
    /\ m.role = "assistant" =>
         \A c \in 1..m.n : i + c \in DOMAIN ms /\ ms[i + c] = Tool(m.turn, m.round, c)
    /\ m.role = "tool" =>
         /\ i - m.n \in DOMAIN ms
         /\ \E k \in m.n..MaxCalls : ms[i - m.n] = Assistant(m.turn, m.round, k)

\* Turns one after the other, however they end short of a lost connection, send the
\* model well-formed requests only, wherever the history and the window are cut.
RequestsAreWellFormed ==
  ~overlapped /\ (\A t \in Turns : pc[t] # "lost") =>
    \A ms \in Requests : WellFormed(ms)

\* Whatever was trimmed, and whatever other turns add meanwhile, a request carries
\* the message the turn is about.
TurnSeesItsMessage ==
  \A t \in Turns : pc[t] = "model" => \E i \in DOMAIN sent[t] : sent[t][i] = User(t)

\* Turns one after the other: every call of a request has its result there too.
\* chat.py:5: "the host runs each call, feeds the result back as a tool message".
EveryCallIsAnswered ==
  ~overlapped =>
    \A ms \in Requests : \A i \in DOMAIN ms :
      ms[i].role = "assistant" =>
        \A c \in 1..ms[i].n : Tool(ms[i].turn, ms[i].round, c) \in ToSet(ms)
=============================================================================
