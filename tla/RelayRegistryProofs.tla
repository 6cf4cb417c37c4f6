------------------------- MODULE RelayRegistryProofs -------------------------
(***************************************************************************)
(* The safety properties of RelayRegistry, for every number of devices and *)
(* sockets and every cap.                                                  *)
(***************************************************************************)
EXTENDS RelayRegistry, FiniteSetTheorems, TLAPS

\* A registered connection is the device's own and its socket is connected,
\* even when the touch after its registration has failed.
EntryIsOwn ==
  \A d \in Taken : dials[entry[d]] = d /\ connected[entry[d]]

\* Only a coroutine that has ended can have received the disconnect.
RunningIsConnected ==
  \A s \in Sockets : handler[s] # "ended" => connected[s]

\* The route follows the store.
RevokerFollowsStore ==
  \A d \in Devices : revoked[d] <=> revoker[d] # "idle"

\* Once a device is revoked, a token that is known to be good was verified
\* before.
VerifiedEarly ==
  \A s \in Sockets :
    handler[s] = "verified" /\ revoked[dials[s]]
      => s \in checkedEarly[dials[s]]

\* The inductive invariant.
RegistryInv ==
  /\ TypeOK
  /\ EntryIsOwn
  /\ RunningIsConnected
  /\ RevokerFollowsStore
  /\ VerifiedEarly
  /\ ServedIsRegistered
  /\ RevokedStaysOut

-----------------------------------------------------------------------------

LEMMA InitInv == Init => RegistryInv
  BY RegistryAssumption
  DEF Init, RegistryInv, TypeOK, EntryIsOwn, RunningIsConnected, Taken,
      RevokerFollowsStore, VerifiedEarly, ServedIsRegistered, Live,
      RevokedStaysOut, HandlerStates, RevokerStates

\* The steps of the endpoint and of the revoke route preserve the types.
LEMMA TypeStep == TypeOK /\ [Next]_vars => TypeOK'
  <1> SUFFICES ASSUME TypeOK, [Next]_vars
               PROVE  TypeOK'
    OBVIOUS
  <1> USE DEF TypeOK, HandlerStates, RevokerStates
  <1>1. ASSUME NEW s \in Sockets, Accept(s)
        PROVE  TypeOK'
    BY <1>1 DEF Accept
  <1>2. ASSUME NEW s \in Sockets, HandshakeFails(s)
        PROVE  TypeOK'
    BY <1>2 DEF HandshakeFails
  <1>3. ASSUME NEW s \in Sockets, HandshakeVerified(s)
        PROVE  TypeOK'
    BY <1>3 DEF HandshakeVerified
  <1>4. ASSUME NEW s \in Sockets, Refuse(s)
        PROVE  TypeOK'
    BY <1>4 DEF Refuse
  <1>5. ASSUME NEW s \in Sockets, Register(s)
        PROVE  TypeOK'
    BY <1>5 DEF Register
  <1>6. ASSUME NEW s \in Sockets, TouchDone(s)
        PROVE  TypeOK'
    BY <1>6 DEF TouchDone
  <1>7. ASSUME NEW s \in Sockets, TouchFails(s)
        PROVE  TypeOK'
    BY <1>7 DEF TouchFails
  <1>8. ASSUME NEW s \in Sockets, ReceiveEnds(s)
        PROVE  TypeOK'
    BY <1>8 DEF ReceiveEnds, Unregister
  <1>9. ASSUME NEW s \in Sockets, PeerLeaves(s)
        PROVE  TypeOK'
    BY <1>9 DEF PeerLeaves
  <1>10. ASSUME NEW d \in Devices, RevokeStored(d)
         PROVE  TypeOK'
    BY <1>10 DEF RevokeStored
  <1>11. ASSUME NEW d \in Devices, DisconnectNothing(d)
         PROVE  TypeOK'
    BY <1>11 DEF DisconnectNothing
  <1>12. ASSUME NEW d \in Devices, DisconnectClose(d)
         PROVE  TypeOK'
    BY <1>12 DEF DisconnectClose
  <1>13. ASSUME NEW d \in Devices, DisconnectUnregister(d)
         PROVE  TypeOK'
    BY <1>13 DEF DisconnectUnregister, Unregister
  <1>14. CASE UNCHANGED vars
    BY <1>14 DEF vars
  <1> QED
    BY <1>1, <1>2, <1>3, <1>4, <1>5, <1>6, <1>7, <1>8, <1>9, <1>10, <1>11,
       <1>12, <1>13, <1>14 DEF Next, Endpoint, RevokeRoute

\* Every step preserves the invariant, one case per action.
LEMMA InvStep == RegistryInv /\ [Next]_vars => RegistryInv'
  <1> SUFFICES ASSUME RegistryInv, [Next]_vars
               PROVE  RegistryInv'
    OBVIOUS
  <1> USE RegistryAssumption
      DEF RegistryInv, TypeOK, EntryIsOwn, RunningIsConnected, Taken,
          RevokerFollowsStore, VerifiedEarly, ServedIsRegistered, Live,
          RevokedStaysOut
  <1>t. TypeOK'
    BY TypeStep
  <1>1. ASSUME NEW s \in Sockets, Accept(s)
        PROVE  RegistryInv'
    BY <1>1, <1>t DEF Accept
  <1>2. ASSUME NEW s \in Sockets, HandshakeFails(s)
        PROVE  RegistryInv'
    BY <1>2, <1>t DEF HandshakeFails
  <1>3. ASSUME NEW s \in Sockets, HandshakeVerified(s)
        PROVE  RegistryInv'
    BY <1>3, <1>t DEF HandshakeVerified
  <1>4. ASSUME NEW s \in Sockets, Refuse(s)
        PROVE  RegistryInv'
    BY <1>4, <1>t DEF Refuse
  <1>5. ASSUME NEW s \in Sockets, Register(s)
        PROVE  RegistryInv'
    BY <1>5, <1>t DEF Register, Occupied, ConnectedIds
  <1>6. ASSUME NEW s \in Sockets, TouchDone(s)
        PROVE  RegistryInv'
    BY <1>6, <1>t DEF TouchDone
  <1>7. ASSUME NEW s \in Sockets, TouchFails(s)
        PROVE  RegistryInv'
    BY <1>7, <1>t DEF TouchFails
  <1>8. ASSUME NEW s \in Sockets, ReceiveEnds(s)
        PROVE  RegistryInv'
    BY <1>8, <1>t DEF ReceiveEnds, Unregister
  <1>9. ASSUME NEW s \in Sockets, PeerLeaves(s)
        PROVE  RegistryInv'
    BY <1>9, <1>t DEF PeerLeaves
  <1>10. ASSUME NEW d \in Devices, RevokeStored(d)
         PROVE  RegistryInv'
    BY <1>10, <1>t DEF RevokeStored
  <1>11. ASSUME NEW d \in Devices, DisconnectNothing(d)
         PROVE  RegistryInv'
    BY <1>11, <1>t DEF DisconnectNothing
  <1>12. ASSUME NEW d \in Devices, DisconnectClose(d)
         PROVE  RegistryInv'
    BY <1>12, <1>t DEF DisconnectClose
  <1>13. ASSUME NEW d \in Devices, DisconnectUnregister(d)
         PROVE  RegistryInv'
    BY <1>13, <1>t DEF DisconnectUnregister, Unregister
  <1>14. CASE UNCHANGED vars
    BY <1>14 DEF vars
  <1> QED
    BY <1>1, <1>2, <1>3, <1>4, <1>5, <1>6, <1>7, <1>8, <1>9, <1>10, <1>11,
       <1>12, <1>13, <1>14 DEF Next, Endpoint, RevokeRoute

LEMMA Invariance == Spec => []RegistryInv
  BY InitInv, InvStep, PTL DEF Spec

-----------------------------------------------------------------------------
(* The cap *)

\* Under the invariant the registry's entries are the connected devices that
\* register() counts, so a registration that was not refused has a place.
LEMMA CapStep == RegistryInv /\ CapRespected /\ [Next]_vars => CapRespected'
  <1> SUFFICES ASSUME RegistryInv, CapRespected, [Next]_vars
               PROVE  CapRespected'
    OBVIOUS
  <1> USE RegistryAssumption DEF CapRespected, Taken
  <1>fin. /\ IsFiniteSet(Taken) /\ Cardinality(Taken) \in Nat
          /\ IsFiniteSet(Taken')
    <2>1. Taken \subseteq Devices /\ Taken' \subseteq Devices
      OBVIOUS
    <2> QED
      BY <2>1, FS_Subset, FS_CardinalityType
  <1>same. ASSUME Taken' \subseteq Taken
           PROVE  CapRespected'
    BY <1>same, <1>fin, FS_Subset, FS_CardinalityType
  <1>1. ASSUME NEW s \in Sockets, Register(s)
        PROVE  CapRespected'
    <2> DEFINE d == dials[s]
    <2>1. d \in Devices
      BY DEF RegistryInv, TypeOK
    <2>2. ConnectedIds = Taken
      BY DEF ConnectedIds, RegistryInv, EntryIsOwn
    <2>3. d \notin Taken /\ entry[d] = NoSocket
      BY <1>1, <2>1, <2>2 DEF Register, Occupied
    <2>4. ~(Cardinality(Taken) >= MaxDevices)
      BY <1>1, <2>2, <2>3 DEF Register, Full
    <2>5. Taken' = Taken \union {d}
      BY <1>1, <2>1, <2>3 DEF Register, RegistryInv, TypeOK
    <2>6. Cardinality(Taken') = Cardinality(Taken) + 1
      BY <2>3, <2>5, <1>fin, FS_AddElement
    <2> QED
      BY <2>4, <2>6, <1>fin
  <1>2. ASSUME NEW d \in Devices, Unregister(d)
        PROVE  CapRespected'
    <2>1. Taken' \subseteq Taken
      BY <1>2 DEF Unregister, RegistryInv, TypeOK
    <2> QED
      BY <2>1, <1>same
  <1>3. CASE UNCHANGED entry
    BY <1>3, <1>same
  <1>4. \/ UNCHANGED entry
        \/ \E s \in Sockets : Register(s)
        \/ \E d \in Devices : Unregister(d)
    BY DEF Next, vars, Endpoint, PeerLeaves, RevokeRoute, RevokeStored,
           DisconnectNothing, DisconnectClose, DisconnectUnregister, Accept,
           HandshakeFails, HandshakeVerified, Refuse, TouchDone, TouchFails,
           ReceiveEnds, RegistryInv, TypeOK
  <1> QED
    BY <1>1, <1>2, <1>3, <1>4

LEMMA InitCap == Init => CapRespected
  <1> SUFFICES ASSUME Init
               PROVE  CapRespected
    OBVIOUS
  <1>1. Taken = {}
    BY DEF Init, Taken
  <1> QED
    BY <1>1, FS_EmptySet, RegistryAssumption DEF CapRespected

-----------------------------------------------------------------------------
(* Live entries *)

LEMMA LiveStep == RegistryInv /\ EntryIsLive /\ [Next]_vars => EntryIsLive'
  <1> SUFFICES ASSUME RegistryInv, EntryIsLive, [Next]_vars
               PROVE  EntryIsLive'
    OBVIOUS
  <1> USE RegistryAssumption DEF RegistryInv, TypeOK, EntryIsLive, Taken, Live
  <1>1. ASSUME NEW s \in Sockets, Endpoint(s)
        PROVE  EntryIsLive'
    BY <1>1 DEF Endpoint, Accept, HandshakeFails, HandshakeVerified, Refuse,
                Register, TouchDone, TouchFails, ReceiveEnds, Unregister,
                RunningIsConnected
  <1>2. ASSUME NEW s \in Sockets, PeerLeaves(s)
        PROVE  EntryIsLive'
    BY <1>2 DEF PeerLeaves
  <1>3. ASSUME NEW d \in Devices, RevokeRoute(d)
        PROVE  EntryIsLive'
    BY <1>3 DEF RevokeRoute, RevokeStored, DisconnectNothing, DisconnectClose,
                DisconnectUnregister, Unregister
  <1>4. CASE UNCHANGED vars
    BY <1>4 DEF vars
  <1> QED
    BY <1>1, <1>2, <1>3, <1>4 DEF Next

-----------------------------------------------------------------------------
(* The theorems *)

\* The state of the registry and of its coroutines keeps its types.
THEOREM TypeCorrect == Spec => []TypeOK
  BY Invariance, PTL DEF RegistryInv

\* The registry never holds more than MAX_DEVICES connections, although
\* register() does not count when it replaces an entry.
THEOREM CapIsRespected == Spec => []CapRespected
  BY Invariance, InitCap, CapStep, PTL DEF Spec

\* Unless the device was revoked, a socket being served is the registered one:
\* unregister(), by device id, never takes away another handler's connection.
THEOREM ServedSocketsAreRegistered == Spec => []ServedIsRegistered
  BY Invariance, PTL DEF RegistryInv

\* After the revoke route has returned only a handshake verified before the
\* revocation can hold the device's place.
THEOREM RevokedStaysOutside == Spec => []RevokedStaysOut
  BY Invariance, PTL DEF RegistryInv

\* Whatever is registered has a connected socket and a coroutine that reads it,
\* unless its touch raised.
THEOREM EntriesAreLive == Spec => []EntryIsLive
  <1>1. Init => EntryIsLive
    BY DEF Init, EntryIsLive, Taken
  <1> QED
    BY <1>1, LiveStep, Invariance, PTL DEF Spec

=============================================================================
