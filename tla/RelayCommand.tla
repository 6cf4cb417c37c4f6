---------------------------- MODULE RelayCommand ----------------------------
(***************************************************************************)
(* The requests of one device: DeviceRelay.send_command, resolve_response  *)
(* and unregister of backend/relay.py, over the connections the device's   *)
(* add-in opens one after the other.  Registration itself is modelled in   *)
(* RelayRegistry; here a connection registers when the place is free.      *)
(*                                                                         *)
(* An action is the code between two awaits, which the event loop runs     *)
(* without interruption.  Time is abstract: the deadline of a request that *)
(* was sent may pass at any step.  asyncio.Lock is first come first served *)
(* and asyncio.wait_for is Python 3.12's, which cancels the future it      *)
(* awaits when the timer fires and when the task is cancelled.             *)
(***************************************************************************)
EXTENDS Naturals, Sequences, FiniteSets

CONSTANTS
  Requests,     \* calls of send_command for this device
  Conns,        \* connections of its add-in, each used once
  NoRequest, NoConn,
  Stray,        \* a message with another id: a late reply, a notification
  BadJson,      \* a message that is not JSON
  NotObject,    \* a message that is JSON but no object
  MaxNoise,     \* bound on the messages that answer no request
  Cancellable   \* requests whose calling task may be cancelled

ASSUME CommandAssumption ==
  /\ IsFiniteSet(Requests)
  /\ NoRequest \notin Requests
  /\ NoConn \notin Conns
  /\ MaxNoise \in Nat
  /\ Cancellable \subseteq Requests

Noise == {Stray, BadJson, NotObject}

\* A message is the reply to a request, named by the request, or noise.
Messages == Requests \union Noise

\* A future: unresolved, cancelled, or its result; "none" is no future.
FutureStates == {"none", "waiting", "cancelled"}

ASSUME MessageAssumption ==
  /\ Noise \intersect Requests = {}
  /\ Cardinality(Noise) = 3
  /\ Messages \intersect FutureStates = {}

VARIABLES
  registered,   \* DeviceRelay._devices[device_id]
  link,         \* each connection's socket
  inbox,        \* messages received on the socket and not yet read
  wire,         \* requests written to the socket and not yet answered
  executed,     \* requests the add-in has run
  noise,        \* messages sent so far that answer no request
  crowdedOut,   \* history: requests whose reply met a future with another message in it
  closer,       \* where relay.disconnect() stands, for this device
  pending,      \* DeviceConnection.pending
  holder,       \* who holds DeviceConnection.lock
  waiters,      \* who waits for it
  requestCount, \* DeviceConnection.request_count
  pc,           \* where each send_command stands
  conn,         \* the connection it looked up
  expired,      \* its deadline has passed
  cancelled,    \* its task was cancelled from outside
  outcome       \* how it ended

socketVars == <<registered, link, inbox, wire, executed, noise, crowdedOut, closer>>
callVars == <<waiters, pc, conn, expired, cancelled, outcome, holder,
              requestCount>>
vars == <<socketVars, callVars, pending>>

\* "broken": the add-in's end is gone; "closed": the server called ws.close();
\* "gone": the receive loop has ended.
LinkStates == {"new", "open", "broken", "closed", "gone"}

Outcomes ==
  {"result", "bad_json", "exception", "timeout", "conn_error", "cancelled"}

TypeOK ==
  /\ registered \in Conns \union {NoConn}
  /\ link \in [Conns -> LinkStates]
  /\ inbox \in [Conns -> Seq(Messages)]
  /\ wire \in [Conns -> SUBSET Requests]
  /\ executed \in SUBSET Requests
  /\ noise \in 0..MaxNoise
  /\ crowdedOut \in SUBSET Requests
  /\ closer \in {"idle", "closing", "done"}
  /\ pending \in [Conns -> FutureStates \union Messages]
  /\ holder \in [Conns -> Requests \union {NoRequest}]
  /\ waiters \in [Conns -> Seq(Requests)]
  /\ requestCount \in [Conns -> Nat]
  /\ pc \in [Requests -> {"new", "lock", "send", "wait", "done"}]
  /\ conn \in [Requests -> Conns \union {NoConn}]
  /\ expired \in [Requests -> BOOLEAN]
  /\ cancelled \in [Requests -> BOOLEAN]
  /\ outcome \in [Requests -> Outcomes \union {"none"}]

\* Between the lock's acquisition and the finally that drops the future.
InService(r) == pc[r] \in {"send", "wait"}

Init ==
  /\ registered = NoConn
  /\ link = [c \in Conns |-> "new"]
  /\ inbox = [c \in Conns |-> <<>>]
  /\ wire = [c \in Conns |-> {}]
  /\ executed = {}
  /\ noise = 0
  /\ crowdedOut = {}
  /\ closer = "idle"
  /\ pending = [c \in Conns |-> "none"]
  /\ holder = [c \in Conns |-> NoRequest]
  /\ waiters = [c \in Conns |-> <<>>]
  /\ requestCount = [c \in Conns |-> 0]
  /\ pc = [r \in Requests |-> "new"]
  /\ conn = [r \in Requests |-> NoConn]
  /\ expired = [r \in Requests |-> FALSE]
  /\ cancelled = [r \in Requests |-> FALSE]
  /\ outcome = [r \in Requests |-> "none"]

-----------------------------------------------------------------------------
(* The add-in and its sockets *)

\* register(): a fresh DeviceConnection.
Connect(c) ==
  /\ registered = NoConn
  /\ link[c] = "new"
  /\ registered' = c
  /\ link' = [link EXCEPT ![c] = "open"]
  /\ UNCHANGED <<inbox, wire, executed, noise, crowdedOut, closer, callVars, pending>>

PeerLeaves(c) ==
  /\ link[c] = "open"
  /\ link' = [link EXCEPT ![c] = "broken"]
  /\ UNCHANGED <<registered, inbox, wire, executed, noise, crowdedOut, closer, callVars,
                 pending>>

\* The add-in runs what it was sent, whatever became of the socket.
Execute(c, r) ==
  /\ r \in wire[c]
  /\ r \notin executed
  /\ executed' = executed \union {r}
  /\ UNCHANGED <<registered, link, inbox, wire, noise, crowdedOut, closer, callVars,
                 pending>>

Reply(c, r) ==
  /\ link[c] = "open"
  /\ r \in wire[c] \intersect executed
  /\ wire' = [wire EXCEPT ![c] = @ \ {r}]
  /\ inbox' = [inbox EXCEPT ![c] = Append(@, r)]
  /\ UNCHANGED <<registered, link, executed, noise, crowdedOut, closer, callVars, pending>>

SendNoise(c, m) ==
  /\ link[c] = "open"
  /\ noise < MaxNoise
  /\ noise' = noise + 1
  /\ inbox' = [inbox EXCEPT ![c] = Append(@, m)]
  /\ UNCHANGED <<registered, link, wire, executed, crowdedOut, closer, callVars, pending>>

-----------------------------------------------------------------------------
(* The receive loop, unregister() and disconnect() *)

\* The connection a message or an unregister reaches: found by device id.
Awaited == registered # NoConn /\ pending[registered] = "waiting"

\* Two messages in one go of the loop: the second meets the first in the future.
CrowdedOut(m) ==
  m \in Requests /\ registered # NoConn /\ pending[registered] \in Messages

\* A message resolves the future somebody awaits, else it is dropped.
ResolveResponse(c) ==
  /\ inbox[c] # <<>>
  /\ link[c] \in {"open", "broken", "closed"}
  /\ inbox' = [inbox EXCEPT ![c] = Tail(@)]
  /\ crowdedOut' = crowdedOut \union {m \in {Head(inbox[c])} : CrowdedOut(m)}
  /\ pending' = IF Awaited
                THEN [pending EXCEPT ![registered] = Head(inbox[c])]
                ELSE pending
  /\ UNCHANGED <<registered, link, wire, executed, noise, closer, callVars>>

\* unregister() pops the device's connection and cancels its unresolved future.
Unregister ==
  /\ registered' = NoConn
  /\ pending' = IF Awaited
                THEN [pending EXCEPT ![registered] = "cancelled"]
                ELSE pending

\* The receive loop sees the disconnect, after the messages before it, or the
\* socket the server has closed, and ends with unregister().
ReceiveEnds(c) ==
  /\ link[c] = "closed" \/ (link[c] = "broken" /\ inbox[c] = <<>>)
  /\ link' = [link EXCEPT ![c] = "gone"]
  /\ inbox' = [inbox EXCEPT ![c] = <<>>]
  /\ Unregister
  /\ UNCHANGED <<wire, executed, noise, crowdedOut, closer, callVars>>

\* disconnect(): ws.close(), which a broken socket ignores.
DisconnectClose ==
  /\ closer = "idle"
  /\ registered # NoConn
  /\ closer' = "closing"
  /\ link' = [link EXCEPT ![registered] = IF @ = "open" THEN "closed" ELSE @]
  /\ UNCHANGED <<registered, inbox, wire, executed, noise, crowdedOut, callVars, pending>>

\* disconnect(): after the await, whichever connection is registered by then.
DisconnectUnregister ==
  /\ closer = "closing"
  /\ closer' = "done"
  /\ Unregister
  /\ UNCHANGED <<link, inbox, wire, executed, noise, crowdedOut, callVars>>

-----------------------------------------------------------------------------
(* send_command *)

\* No connection: ConnectionError before the lock is asked for.
SubmitUnconnected(r) ==
  /\ pc[r] = "new"
  /\ registered = NoConn
  /\ pc' = [pc EXCEPT ![r] = "done"]
  /\ outcome' = [outcome EXCEPT ![r] = "conn_error"]
  /\ UNCHANGED <<socketVars, waiters, conn, expired, cancelled, holder,
                 requestCount, pending>>

\* The lock is taken: id, deadline and future are made, then send_text is
\* awaited.  Only an open socket carries the request to the add-in.
Begin(r, c) ==
  /\ holder' = [holder EXCEPT ![c] = r]
  /\ pending' = [pending EXCEPT ![c] = "waiting"]
  /\ pc' = [pc EXCEPT ![r] = "send"]
  /\ wire' = [wire EXCEPT ![c] = IF link[c] = "open" THEN @ \union {r} ELSE @]

\* Mutant: nobody asks for the lock.
NoLock(c) == c \in Conns

LockFree(c) == holder[c] = NoRequest

\* A free lock nobody waits for is taken at once.
SubmitAlone(r) ==
  /\ pc[r] = "new"
  /\ registered # NoConn
  /\ LockFree(registered) /\ waiters[registered] = <<>>
  /\ conn' = [conn EXCEPT ![r] = registered]
  /\ Begin(r, registered)
  /\ UNCHANGED <<registered, link, inbox, executed, noise, crowdedOut, closer, waiters,
                 expired, cancelled, outcome, requestCount>>

SubmitQueued(r) ==
  /\ pc[r] = "new"
  /\ registered # NoConn
  /\ ~(LockFree(registered) /\ waiters[registered] = <<>>)
  /\ conn' = [conn EXCEPT ![r] = registered]
  /\ pc' = [pc EXCEPT ![r] = "lock"]
  /\ waiters' = [waiters EXCEPT ![registered] = Append(@, r)]
  /\ UNCHANGED <<socketVars, expired, cancelled, outcome, holder,
                 requestCount, pending>>

\* The released lock goes to the first waiter; its connection may be gone.
Acquire(r) ==
  /\ pc[r] = "lock"
  /\ LockFree(conn[r])
  /\ waiters[conn[r]] # <<>> /\ Head(waiters[conn[r]]) = r
  /\ waiters' = [waiters EXCEPT ![conn[r]] = Tail(@)]
  /\ Begin(r, conn[r])
  /\ UNCHANGED <<registered, link, inbox, executed, noise, crowdedOut, closer, conn,
                 expired, cancelled, outcome, requestCount>>

\* Mutant: the lock is not released when the call fails.
LeaveKeepsLock(r, o) ==
  /\ pc' = [pc EXCEPT ![r] = "done"]
  /\ outcome' = [outcome EXCEPT ![r] = o]
  /\ pending' = [pending EXCEPT ![conn[r]] = "none"]
  /\ holder' = [holder EXCEPT ![conn[r]] = IF o = "result" THEN NoRequest ELSE @]
  /\ UNCHANGED <<socketVars, waiters, conn, expired, cancelled>>

\* Leaving the try: the finally drops the future, the lock is released.
Leave(r, o) ==
  /\ pc' = [pc EXCEPT ![r] = "done"]
  /\ outcome' = [outcome EXCEPT ![r] = o]
  /\ pending' = [pending EXCEPT ![conn[r]] = "none"]
  /\ holder' = [holder EXCEPT ![conn[r]] = NoRequest]
  /\ UNCHANGED <<socketVars, waiters, conn, expired, cancelled>>

Written(r) == r \in wire[conn[r]] \/ r \in executed

\* Mutant: the future is made when the text is sent.
SendDoneFresh(r) ==
  /\ pc[r] = "send" /\ ~cancelled[r]
  /\ Written(r) \/ link[conn[r]] = "broken"
  /\ UNCHANGED requestCount
  /\ IF expired[r]
     THEN Leave(r, "timeout")
     ELSE /\ pc' = [pc EXCEPT ![r] = "wait"]
          /\ pending' = [pending EXCEPT ![conn[r]] = "waiting"]
          /\ UNCHANGED <<socketVars, waiters, conn, expired, cancelled,
                         outcome, holder>>

\* send_text returned: the deadline is checked, then the future is awaited.
SendDone(r) ==
  /\ pc[r] = "send" /\ ~cancelled[r]
  /\ Written(r) \/ link[conn[r]] = "broken"
  /\ UNCHANGED requestCount
  /\ IF expired[r]
     THEN Leave(r, "timeout")
     ELSE /\ pc' = [pc EXCEPT ![r] = "wait"]
          /\ UNCHANGED <<socketVars, waiters, conn, expired, cancelled,
                         outcome, holder, pending>>

\* send_text raised: WebSocketDisconnect, RuntimeError or OSError.
SendFails(r) ==
  /\ pc[r] = "send" /\ ~cancelled[r]
  /\ link[conn[r]] # "open"
  /\ UNCHANGED requestCount
  /\ Leave(r, "conn_error")

\* The except clause of CancelledError.
OnCancelled(r) ==
  /\ UNCHANGED requestCount
  /\ Leave(r, IF pending[conn[r]] = "cancelled" THEN "conn_error"
              ELSE "cancelled")

SendCancelled(r) ==
  /\ pc[r] = "send" /\ cancelled[r]
  /\ OnCancelled(r)

\* wait_for's future is done or its timer or its task made it so.
Woken(r) == pc[r] = "wait" /\ pending[conn[r]] # "waiting"

WakeCancelled(r) ==
  /\ Woken(r)
  /\ cancelled[r] \/ (~expired[r] /\ pending[conn[r]] = "cancelled")
  /\ OnCancelled(r)

\* Mutant: the except clause of CancelledError comes first and takes the timer's
\* cancellation for unregister's.
WakeTimeoutAsLeft(r) ==
  /\ Woken(r)
  /\ expired[r] /\ ~cancelled[r]
  /\ OnCancelled(r)

\* The timer fired: a TimeoutError, even when a reply came in meanwhile.
WakeTimeout(r) ==
  /\ Woken(r)
  /\ expired[r] /\ ~cancelled[r]
  /\ UNCHANGED requestCount
  /\ Leave(r, "timeout")

\* A message resolved the future and neither timer nor caller came before.
GotMessage(r) ==
  /\ Woken(r)
  /\ ~expired[r] /\ ~cancelled[r]
  /\ pending[conn[r]] \in Messages

\* Mutant: the id is not compared.
WakeAnyReply(r) ==
  /\ GotMessage(r)
  /\ pending[conn[r]] \notin {BadJson, NotObject}
  /\ requestCount' = [requestCount EXCEPT ![conn[r]] = @ + 1]
  /\ Leave(r, "result")

\* Our id: the reply is taken and counted.
WakeReply(r) ==
  /\ GotMessage(r)
  /\ pending[conn[r]] = r
  /\ requestCount' = [requestCount EXCEPT ![conn[r]] = @ + 1]
  /\ Leave(r, "result")

\* Not JSON is this request's answer; JSON but no object raises AttributeError.
WakeGarbled(r) ==
  /\ GotMessage(r)
  /\ UNCHANGED requestCount
  /\ \/ pending[conn[r]] = BadJson /\ Leave(r, "bad_json")
     \/ pending[conn[r]] = NotObject /\ Leave(r, "exception")

\* Another id: a new future, and the wait goes on.
WakeStray(r) ==
  /\ GotMessage(r)
  /\ pending[conn[r]] \notin {r, BadJson, NotObject}
  /\ pending' = [pending EXCEPT ![conn[r]] = "waiting"]
  /\ UNCHANGED <<socketVars, callVars>>

\* wait_for's timer and task.cancel() both cancel the future being awaited.
CancelAwaited(r) ==
  pending' = IF pc[r] = "wait" /\ pending[conn[r]] = "waiting"
             THEN [pending EXCEPT ![conn[r]] = "cancelled"]
             ELSE pending

\* The deadline passes.
Expire(r) ==
  /\ InService(r)
  /\ ~expired[r]
  /\ expired' = [expired EXCEPT ![r] = TRUE]
  /\ CancelAwaited(r)
  /\ UNCHANGED <<socketVars, waiters, pc, conn, cancelled, outcome, holder,
                 requestCount>>

\* The caller's task is cancelled: the browser of a chat went away, the wait_for
\* around a list of choices gave up.
Cancel(r) ==
  /\ r \in Cancellable
  /\ InService(r)
  /\ ~cancelled[r]
  /\ cancelled' = [cancelled EXCEPT ![r] = TRUE]
  /\ CancelAwaited(r)
  /\ UNCHANGED <<socketVars, waiters, pc, conn, expired, outcome, holder,
                 requestCount>>

\* Cancelled while it waits for the lock: it leaves the queue.
CancelQueued(r) ==
  /\ r \in Cancellable
  /\ pc[r] = "lock"
  /\ pc' = [pc EXCEPT ![r] = "done"]
  /\ outcome' = [outcome EXCEPT ![r] = "cancelled"]
  /\ cancelled' = [cancelled EXCEPT ![r] = TRUE]
  /\ \E i \in 1..Len(waiters[conn[r]]) :
       /\ waiters[conn[r]][i] = r
       /\ waiters' = [waiters EXCEPT ![conn[r]] =
                        SubSeq(@, 1, i - 1) \o SubSeq(@, i + 1, Len(@))]
  /\ UNCHANGED <<socketVars, conn, expired, holder, requestCount, pending>>

-----------------------------------------------------------------------------

Device ==
  \/ \E c \in Conns :
       \/ Connect(c) \/ PeerLeaves(c) \/ ResolveResponse(c) \/ ReceiveEnds(c)
       \/ \E r \in Requests : Execute(c, r) \/ Reply(c, r)
       \/ \E m \in Noise : SendNoise(c, m)
  \/ DisconnectClose
  \/ DisconnectUnregister

Wake(r) ==
  \/ WakeCancelled(r)
  \/ WakeTimeout(r)
  \/ WakeReply(r)
  \/ WakeGarbled(r)
  \/ WakeStray(r)

Send(r) == SendDone(r) \/ SendFails(r) \/ SendCancelled(r)

Command(r) ==
  \/ SubmitUnconnected(r) \/ SubmitAlone(r) \/ SubmitQueued(r)
  \/ Acquire(r)
  \/ Send(r)
  \/ Wake(r)
  \/ Expire(r) \/ Cancel(r) \/ CancelQueued(r)

Next == Device \/ \E r \in Requests : Command(r)

Spec == Init /\ [][Next]_vars

\* The event loop runs what is ready, send_text returns or raises, and the
\* clock reaches every deadline.  The add-in owes nothing.
Fairness ==
  \A r \in Requests :
    WF_vars(Acquire(r)) /\ WF_vars(Send(r)) /\ WF_vars(Wake(r))
    /\ WF_vars(Expire(r))

FairSpec == Spec /\ Fairness

-----------------------------------------------------------------------------
(* Properties *)

\* One device handles one request at a time: on a connection, at most one
\* request is between its send and its outcome, and it holds the lock.
OneInService ==
  \A r \in Requests : InService(r) => holder[conn[r]] = r

\* A future is on the connection exactly while a request is in service on it:
\* a message that arrives in between cannot be kept for the next request.
FutureHasOwner ==
  \A c \in Conns :
    pending[c] = "none" <=> ~\E r \in Requests : InService(r) /\ conn[r] = c

Replied(r) == r \in executed /\ r \notin wire[conn[r]]

InTime(r) == ~expired[r] /\ ~cancelled[r] /\ registered = conn[r]

\* The reply to the request in service is not lost, however fast it comes: it may be
\* read before send_text returns, behind the late reply to another request, or while
\* this one's coroutine has not run since.  As long as the deadline, the caller and the
\* connection hold, it is still to be read or it is what the caller wakes up to.  The
\* one exception is a reply right behind a message that nobody has taken out of the
\* future yet.
ReplyIsKept ==
  \A r \in Requests :
    InService(r) /\ Replied(r) /\ InTime(r) /\ r \notin crowdedOut
      => pending[conn[r]] = r \/ \E i \in 1..Len(inbox[conn[r]]) : inbox[conn[r]][i] = r

\* request_count counts the requests that were answered on the connection.
CountMatches ==
  \A c \in Conns :
    requestCount[c] =
      Cardinality({r \in Requests : conn[r] = c /\ outcome[r] = "result"})

Caused(r) ==
  conn[r] = NoConn \/ registered # conn[r] \/ link[conn[r]] # "open"

\* ConnectionError is raised for a reason: there was no connection, it was
\* unregistered or its socket was lost.  (Requests nobody cancels.)
ConnErrorHasCause ==
  \A r \in Requests \ Cancellable : outcome[r] = "conn_error" => Caused(r)

\* Every call returns, whatever the add-in does: no deadlock on the lock and no
\* wait without end.
EveryCallReturns ==
  \A r \in Requests : pc[r] \in {"lock", "send", "wait"} ~> pc[r] = "done"

\* What the caller knows of its request.
Status ==
  [r \in Requests |-> CASE pc[r] = "new" -> "new"
                        [] pc[r] = "done" -> "closed"
                        [] OTHER -> "open"]

Service == INSTANCE RelayService WITH status <- Status

\* The relay implements the service of RelayService: one outcome per request,
\* final, and a request is run at most once and only after it was submitted.
ImplementsService == Service!Spec

=============================================================================
