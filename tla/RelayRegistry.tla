--------------------------- MODULE RelayRegistry ---------------------------
(***************************************************************************)
(* The registry of add-in connections: the WebSocket endpoint of           *)
(* backend/api/bridge.py (handshake, registration, receive loop), the      *)
(* DeviceRelay of backend/relay.py that it registers with, and the         *)
(* DELETE /devices/{id} route of backend/api/devices.py that revokes a     *)
(* device and closes its socket.                                           *)
(*                                                                         *)
(* Every socket is served by one coroutine (handler) and every revocation  *)
(* by another.  A coroutine runs alone between two awaits, so an action is *)
(* the code between two awaits; a call handed to the thread pool           *)
(* (verify_device, revoke, touch) takes effect at a step of its own.       *)
(***************************************************************************)
EXTENDS Naturals, FiniteSets

CONSTANTS
  Devices,       \* device ids, all of them paired
  Sockets,       \* WebSockets an add-in may open, each used once
  NoSocket,      \* "no connection" in the registry
  MaxDevices     \* MAX_DEVICES

ASSUME RegistryAssumption ==
  /\ IsFiniteSet(Devices)
  /\ NoSocket \notin Sockets
  /\ MaxDevices \in Nat

VARIABLES
  handler,     \* where the endpoint's coroutine of each socket stands
  dials,       \* the {device_id} of the socket's path
  connected,   \* client_state = CONNECTED: no disconnect was received yet
  peer,        \* is the add-in's end of the socket still there?
  closed,      \* has the server called ws.close()?
  entry,       \* DeviceRelay._devices
  revoked,     \* the device store's verdict on the device
  revoker,     \* where the revoke route of each device stands
  checkedEarly \* history: sockets whose token was verified before revocation

vars == <<handler, dials, connected, peer, closed, entry,
          revoked, revoker, checkedEarly>>

\* "raised": the coroutine ended before it could unregister.
HandlerStates ==
  {"idle", "accepted", "verified", "touching", "serving", "ended", "raised"}
RevokerStates == {"idle", "stored", "closing", "done"}

TypeOK ==
  /\ handler \in [Sockets -> HandlerStates]
  /\ dials \in [Sockets -> Devices]
  /\ connected \in [Sockets -> BOOLEAN]
  /\ peer \in [Sockets -> {"up", "left"}]
  /\ closed \in [Sockets -> BOOLEAN]
  /\ entry \in [Devices -> Sockets \union {NoSocket}]
  /\ revoked \in [Devices -> BOOLEAN]
  /\ revoker \in [Devices -> RevokerStates]
  /\ checkedEarly \in [Devices -> SUBSET Sockets]

-----------------------------------------------------------------------------
(* DeviceRelay *)

Taken == {d \in Devices : entry[d] # NoSocket}

\* connected_ids: the registered devices whose socket is connected.
ConnectedIds == {d \in Taken : connected[entry[d]]}

\* register() answers "occupied".
Occupied(d) == d \in ConnectedIds

\* Mutant: one too many.
FullOffByOne(d) == entry[d] = NoSocket /\ Cardinality(ConnectedIds) > MaxDevices

\* register() answers "full".
Full(d) == entry[d] = NoSocket /\ Cardinality(ConnectedIds) >= MaxDevices

\* unregister() pops by device id, whichever connection is registered then.
Unregister(d) == entry' = [entry EXCEPT ![d] = NoSocket]

-----------------------------------------------------------------------------
(* The endpoint: one handler per socket *)

Init ==
  /\ handler = [s \in Sockets |-> "idle"]
  /\ dials \in [Sockets -> Devices]
  /\ connected = [s \in Sockets |-> TRUE]
  /\ peer = [s \in Sockets |-> "up"]
  /\ closed = [s \in Sockets |-> FALSE]
  /\ entry = [d \in Devices |-> NoSocket]
  /\ revoked = [d \in Devices |-> FALSE]
  /\ revoker = [d \in Devices |-> "idle"]
  /\ checkedEarly = [d \in Devices |-> {}]

\* An add-in opens the socket and the server accepts it.
Accept(s) ==
  /\ handler[s] = "idle"
  /\ handler' = [handler EXCEPT ![s] = "accepted"]
  /\ UNCHANGED <<dials, connected, peer, closed, entry, revoked, revoker,
                 checkedEarly>>

\* No first message within HANDSHAKE_TIMEOUT, a malformed one, one for another
\* device, a wrong token or a revoked device: 4003.
HandshakeFails(s) ==
  /\ handler[s] = "accepted"
  /\ handler' = [handler EXCEPT ![s] = "ended"]
  /\ closed' = [closed EXCEPT ![s] = TRUE]
  /\ UNCHANGED <<dials, connected, peer, entry, revoked, revoker, checkedEarly>>

\* Mutant: revocation is not looked at.
VerifiedThoughRevoked(s) ==
  /\ handler[s] = "accepted"
  /\ handler' = [handler EXCEPT ![s] = "verified"]
  /\ UNCHANGED <<dials, connected, peer, closed, entry, revoked, revoker,
                 checkedEarly>>

\* verify_device, in the thread pool, finds the token good: only a device that
\* is not revoked has a good token.  The coroutine resumes later.
HandshakeVerified(s) ==
  /\ handler[s] = "accepted"
  /\ ~revoked[dials[s]]
  /\ handler' = [handler EXCEPT ![s] = "verified"]
  /\ UNCHANGED <<dials, connected, peer, closed, entry, revoked, revoker,
                 checkedEarly>>

\* Mutant: the try block starts before register(), so that its finally runs for
\* a refused socket too.
RefuseUnregisters(s) ==
  /\ handler[s] = "verified"
  /\ Occupied(dials[s]) \/ Full(dials[s])
  /\ handler' = [handler EXCEPT ![s] = "ended"]
  /\ closed' = [closed EXCEPT ![s] = TRUE]
  /\ Unregister(dials[s])
  /\ UNCHANGED <<dials, connected, peer, revoked, revoker, checkedEarly>>

\* register() refuses: the socket is closed with 4002 or 4001.
Refuse(s) ==
  /\ handler[s] = "verified"
  /\ Occupied(dials[s]) \/ Full(dials[s])
  /\ handler' = [handler EXCEPT ![s] = "ended"]
  /\ closed' = [closed EXCEPT ![s] = TRUE]
  /\ UNCHANGED <<dials, connected, peer, entry, revoked, revoker, checkedEarly>>

\* register() takes the device's connection; touch is handed to the pool.
Register(s) ==
  /\ handler[s] = "verified"
  /\ ~Occupied(dials[s])
  /\ ~Full(dials[s])
  /\ entry' = [entry EXCEPT ![dials[s]] = s]
  /\ handler' = [handler EXCEPT ![s] = "touching"]
  /\ UNCHANGED <<dials, connected, peer, closed, revoked, revoker,
                 checkedEarly>>

\* touch returned: the coroutine enters its receive loop.
TouchDone(s) ==
  /\ handler[s] = "touching"
  /\ handler' = [handler EXCEPT ![s] = "serving"]
  /\ UNCHANGED <<dials, connected, peer, closed, entry, revoked, revoker,
                 checkedEarly>>

\* touch raised, before the try whose finally unregisters: the coroutine ends,
\* the server drops the socket and the registry keeps the entry.
TouchFails(s) ==
  /\ handler[s] = "touching"
  /\ handler' = [handler EXCEPT ![s] = "raised"]
  /\ closed' = [closed EXCEPT ![s] = TRUE]
  /\ UNCHANGED <<dials, connected, peer, entry, revoked, revoker, checkedEarly>>

\* Mutant: no finally.
ReceiveEndsKeepsEntry(s) ==
  /\ handler[s] = "serving"
  /\ peer[s] = "left" \/ closed[s]
  /\ handler' = [handler EXCEPT ![s] = "ended"]
  /\ UNCHANGED <<dials, connected, peer, closed, entry, revoked, revoker,
                 checkedEarly>>

\* The receive loop ends because the add-in left or the server closed the
\* socket; the finally unregisters.  No await lies in between.
ReceiveEnds(s) ==
  /\ handler[s] = "serving"
  /\ peer[s] = "left" \/ closed[s]
  /\ handler' = [handler EXCEPT ![s] = "ended"]
  /\ connected' = [connected EXCEPT ![s] = FALSE]
  /\ Unregister(dials[s])
  /\ UNCHANGED <<dials, peer, closed, revoked, revoker, checkedEarly>>

\* The add-in's end goes away at any time: Revit closes, the network drops.
PeerLeaves(s) ==
  /\ handler[s] \notin {"idle", "ended", "raised"}
  /\ peer[s] = "up"
  /\ peer' = [peer EXCEPT ![s] = "left"]
  /\ UNCHANGED <<handler, dials, connected, closed, entry, revoked, revoker,
                 checkedEarly>>

-----------------------------------------------------------------------------
(* DELETE /devices/{device_id} *)

\* DeviceStore.revoke, in the thread pool.
RevokeStored(d) ==
  /\ revoker[d] = "idle"
  /\ revoker' = [revoker EXCEPT ![d] = "stored"]
  /\ revoked' = [revoked EXCEPT ![d] = TRUE]
  /\ checkedEarly' =
       [checkedEarly EXCEPT ![d] = {s \in Sockets : handler[s] = "verified"}]
  /\ UNCHANGED <<handler, dials, connected, peer, closed, entry>>

\* disconnect(): nothing registered, nothing to close.
DisconnectNothing(d) ==
  /\ revoker[d] = "stored"
  /\ entry[d] = NoSocket
  /\ revoker' = [revoker EXCEPT ![d] = "done"]
  /\ UNCHANGED <<handler, dials, connected, peer, closed, entry, revoked,
                 checkedEarly>>

\* disconnect(): ws.close() of the registered connection, up to its await.
DisconnectClose(d) ==
  /\ revoker[d] = "stored"
  /\ entry[d] # NoSocket
  /\ revoker' = [revoker EXCEPT ![d] = "closing"]
  /\ closed' = [closed EXCEPT ![entry[d]] = TRUE]
  /\ UNCHANGED <<handler, dials, connected, peer, entry, revoked, checkedEarly>>

\* disconnect(): ws.close() returned or raised, then unregister().
DisconnectUnregister(d) ==
  /\ revoker[d] = "closing"
  /\ revoker' = [revoker EXCEPT ![d] = "done"]
  /\ Unregister(d)
  /\ UNCHANGED <<handler, dials, connected, peer, closed, revoked,
                 checkedEarly>>

-----------------------------------------------------------------------------

Endpoint(s) ==
  \/ Accept(s)
  \/ HandshakeFails(s)
  \/ HandshakeVerified(s)
  \/ Refuse(s)
  \/ Register(s)
  \/ TouchDone(s)
  \/ TouchFails(s)
  \/ ReceiveEnds(s)

RevokeRoute(d) ==
  \/ RevokeStored(d)
  \/ DisconnectNothing(d)
  \/ DisconnectClose(d)
  \/ DisconnectUnregister(d)

Next ==
  \/ \E s \in Sockets : Endpoint(s) \/ PeerLeaves(s)
  \/ \E d \in Devices : RevokeRoute(d)

Spec == Init /\ [][Next]_vars

\* The event loop resumes every coroutine that can run and the thread pool
\* finishes every call; nobody promises that an add-in dials, that it leaves
\* or that a device is revoked.
Fairness ==
  /\ \A s \in Sockets :
       /\ WF_vars(HandshakeFails(s) \/ HandshakeVerified(s))
       /\ WF_vars(Refuse(s) \/ Register(s))
       /\ WF_vars(TouchDone(s) \/ TouchFails(s))
       /\ WF_vars(ReceiveEnds(s))
  /\ \A d \in Devices :
       WF_vars(DisconnectNothing(d) \/ DisconnectClose(d)
               \/ DisconnectUnregister(d))

FairSpec == Spec /\ Fairness

-----------------------------------------------------------------------------
(* Safety *)

Live(s) == handler[s] \in {"touching", "serving"}

\* MAX_DEVICES bounds the registry, although register() counts connected
\* entries only and does not count at all when it replaces one.
CapRespected == Cardinality(Taken) <= MaxDevices

\* What is registered for a device is a connection of that device whose socket
\* is connected and whose coroutine reads it or is about to, so that a command
\* sent to it has a reader for its reply and "occupied" tells the truth.  The one
\* exception is a coroutine whose touch raised.
EntryIsLive ==
  \A d \in Taken :
    /\ dials[entry[d]] = d
    /\ connected[entry[d]]
    /\ Live(entry[d]) \/ handler[entry[d]] = "raised"

\* Unless its device was revoked, a socket that is being served is the one the
\* registry holds: unregister() pops by device id, and no late coroutine pops
\* the connection of a newer one, which would be open and yet unreachable.
ServedIsRegistered ==
  \A s \in Sockets : Live(s) /\ ~revoked[dials[s]] => entry[dials[s]] = s

\* After the revoke route has returned, the only connection a device can still
\* have is one whose token was verified before the revocation was stored.
RevokedStaysOut ==
  \A d \in Taken : revoker[d] = "done" => entry[d] \in checkedEarly[d]

\* What the documents say of revoking: the device's connection is closed and it
\* makes no more requests.  (README, devices.py revoke_device)
RevokedIsDisconnected ==
  \A d \in Devices : revoker[d] = "done" => entry[d] = NoSocket

-----------------------------------------------------------------------------
(* Liveness *)

\* A connection whose add-in has left does not keep its place in the registry,
\* unless its touch raised.
LeftIsForgotten ==
  \A s \in Sockets :
    (peer[s] = "left") ~> (handler[s] = "raised" \/ \A d \in Devices : entry[d] # s)

=============================================================================
