-------------------------- MODULE RelayCommandProofs --------------------------
(***************************************************************************)
(* The safety properties of RelayCommand, for every number of requests and *)
(* connections and any amount of noise.                                    *)
(***************************************************************************)
EXTENDS RelayCommand, SequenceTheorems, FiniteSetTheorems, TLAPS

\* Who is in service holds the lock of a connection of the device, and who
\* holds a lock is in service there.
LockInv ==
  /\ \A r \in Requests : pc[r] # "new" /\ pc[r] # "done" => conn[r] \in Conns
  /\ \A r \in Requests : InService(r) => holder[conn[r]] = r
  /\ \A c \in Conns : holder[c] # NoRequest =>
       InService(holder[c]) /\ conn[holder[c]] = c

\* A lock is held exactly while there is a future.
FutureInv ==
  \A c \in Conns : pending[c] = "none" <=> holder[c] = NoRequest

\* What travels towards a caller is the reply to a request that was run.
ReplyInv ==
  /\ \A c \in Conns : \A i \in 1..Len(inbox[c]) :
       inbox[c][i] \in Requests => inbox[c][i] \in executed
  /\ \A c \in Conns : pending[c] \in Requests => pending[c] \in executed

\* A request that has not been submitted has left no trace; one that has not
\* ended has no outcome.
FreshInv ==
  /\ \A r \in Requests : pc[r] = "new" => conn[r] = NoConn
  /\ \A r \in Requests : pc[r] # "done" => outcome[r] = "none"
  /\ \A c \in Conns : \A r \in wire[c] : pc[r] # "new"

\* A connection that was looked up was registered before, and a connection
\* registers once.
UsedInv ==
  /\ registered # NoConn => link[registered] # "new"
  /\ \A r \in Requests :
       conn[r] # NoConn => conn[r] \in Conns /\ link[conn[r]] # "new"

\* A cancelled future has a cause: the deadline, the caller or unregister().
CauseInv ==
  /\ \A r \in Requests : cancelled[r] => r \in Cancellable
  /\ \A r \in Requests :
       InService(r) /\ pending[conn[r]] = "cancelled" =>
         expired[r] \/ cancelled[r] \/ registered # conn[r]

\* The inductive invariant.
CommandInv ==
  /\ TypeOK
  /\ LockInv
  /\ FutureInv
  /\ ReplyInv
  /\ FreshInv
  /\ UsedInv
  /\ CauseInv
  /\ ConnErrorHasCause

-----------------------------------------------------------------------------

LEMMA InitInv == Init => CommandInv
  <1> SUFFICES ASSUME Init
               PROVE  CommandInv
    OBVIOUS
  <1> USE CommandAssumption, MessageAssumption DEF Init
  <1>1. TypeOK
    BY DEF TypeOK, LinkStates, FutureStates
  <1>2. LockInv /\ FutureInv /\ FreshInv /\ UsedInv
    BY DEF LockInv, FutureInv, FreshInv, UsedInv, InService
  <1>3. ReplyInv
    BY DEF ReplyInv, FutureStates, Messages
  <1>4. CauseInv /\ ConnErrorHasCause
    BY DEF CauseInv, ConnErrorHasCause, InService
  <1> QED
    BY <1>1, <1>2, <1>3, <1>4 DEF CommandInv

\* Taking one element out of a sequence leaves a sequence.
LEMMA RemoveOne ==
  ASSUME NEW S, NEW w \in Seq(S), NEW i \in 1..Len(w)
  PROVE  SubSeq(w, 1, i - 1) \o SubSeq(w, i + 1, Len(w)) \in Seq(S)
  <1>1. Len(w) \in Nat /\ \A k \in 1..Len(w) : w[k] \in S
    BY ElementOfSeq, LenProperties
  <1>2. SubSeq(w, 1, i - 1) \in Seq(S)
    BY <1>1, SubSeqProperties
  <1>3. SubSeq(w, i + 1, Len(w)) \in Seq(S)
    BY <1>1, SubSeqProperties
  <1> QED
    BY <1>2, <1>3, ConcatProperties

\* After a send in time the future is awaited and nothing else has changed.
LEMMA SendDoneWaits ==
  ASSUME NEW r \in Requests, SendDone(r), ~expired[r]
  PROVE  /\ pc[r] = "send" /\ pc' = [pc EXCEPT ![r] = "wait"]
         /\ UNCHANGED <<registered, link, inbox, wire, executed, noise, crowdedOut, closer>>
         /\ UNCHANGED <<waiters, conn, expired, cancelled, outcome, holder>>
         /\ UNCHANGED <<requestCount, pending>>
  BY DEF SendDone, socketVars

LEMMA SendDoneWaitsTypes ==
  ASSUME TypeOK, NEW r \in Requests, SendDone(r), ~expired[r]
  PROVE  TypeOK'
  BY SendDoneWaits DEF TypeOK

LEMMA SendDoneWaitsInv ==
  ASSUME CommandInv, NEW r \in Requests, SendDone(r), ~expired[r]
  PROVE  CommandInv'
  <1>1. TypeOK'
    BY SendDoneWaitsTypes DEF CommandInv
  <1>2. /\ pc[r] = "send" /\ pc' = [pc EXCEPT ![r] = "wait"]
        /\ UNCHANGED <<conn, holder, pending, outcome, expired, cancelled>>
        /\ UNCHANGED <<registered, link, inbox, wire, executed>>
        /\ pc \in [Requests -> {"new", "lock", "send", "wait", "done"}]
    BY SendDoneWaits DEF CommandInv, TypeOK
  <1>3. \A q \in Requests : InService(q)' <=> InService(q)
    BY <1>2 DEF InService
  <1>4. LockInv'
    <2>1. /\ \A q \in Requests : pc'[q] # "new" /\ pc'[q] # "done" => conn[q] \in Conns
          /\ \A q \in Requests : InService(q)' => holder[conn[q]] = q
      BY <1>2, <1>3 DEF CommandInv, LockInv
    <2>2. ASSUME NEW c \in Conns, holder[c] # NoRequest
          PROVE  pc'[holder[c]] \in {"send", "wait"} /\ conn[holder[c]] = c
      <3>1. holder[c] \in Requests
        BY <2>2 DEF CommandInv, TypeOK
      <3> QED
        BY <1>3, <2>2, <3>1 DEF CommandInv, LockInv, InService
    <2>3. conn' = conn /\ holder' = holder
      BY <1>2
    <2> QED
      BY <2>1, <2>2, <2>3 DEF LockInv, InService
  <1>5. FutureInv' /\ ReplyInv'
    BY <1>2 DEF CommandInv, FutureInv, ReplyInv
  <1>6. FreshInv' /\ UsedInv'
    BY <1>2 DEF CommandInv, FreshInv, UsedInv
  <1>7. CauseInv'
    BY <1>2, <1>3 DEF CommandInv, CauseInv, InService
  <1>8. ConnErrorHasCause'
    BY <1>2 DEF CommandInv, ConnErrorHasCause, Caused
  <1> QED
    BY <1>1, <1>4, <1>5, <1>6, <1>7, <1>8 DEF CommandInv

\* The future that unregister() cancels belongs to no registered connection.
LEMMA UnregisterCause ==
  ASSUME TypeOK, LockInv, CauseInv, registered' = NoConn,
         UNCHANGED <<pc, conn, cancelled>>
  PROVE  CauseInv'
  BY CommandAssumption DEF CauseInv, LockInv, InService

\* A request that is submitted has no outcome yet.
LEMMA SubmitKeepsCause ==
  ASSUME ConnErrorHasCause, NEW r \in Requests, outcome[r] = "none",
         \A q \in Requests : q # r => conn'[q] = conn[q],
         UNCHANGED <<outcome, registered, link>>
  PROVE  ConnErrorHasCause'
  BY DEF ConnErrorHasCause, Caused

\* A reply that is taken is one's own, so the request was run.
LEMMA WakeReplyRun ==
  ASSUME CommandInv, NEW r \in Requests, WakeReply(r)
  PROVE  r \in executed /\ InService(r)
  BY DEF CommandInv, LockInv, ReplyInv, WakeReply, GotMessage, Woken, InService

LEMMA WakeReplyCount ==
  ASSUME TypeOK, LockInv, NEW r \in Requests, WakeReply(r)
  PROVE  requestCount' \in [Conns -> Nat]
  <1>1. conn[r] \in Conns
    BY DEF LockInv, WakeReply, GotMessage, Woken
  <1>2. requestCount' = [requestCount EXCEPT ![conn[r]] = @ + 1]
    BY DEF WakeReply
  <1> QED
    BY <1>1, <1>2 DEF TypeOK

\* The message at the head of the inbox, and what delivering it does.
LEMMA Delivered ==
  ASSUME TypeOK, NEW c \in Conns, ResolveResponse(c)
  PROVE  /\ Head(inbox[c]) \in Messages
         /\ Head(inbox[c]) = inbox[c][1] /\ Len(inbox[c]) \in Nat \ {0}
         /\ inbox' = [inbox EXCEPT ![c] = Tail(@)]
         /\ Tail(inbox[c]) \in Seq(Messages)
         /\ Len(Tail(inbox[c])) = Len(inbox[c]) - 1
         /\ \A i \in 1..Len(Tail(inbox[c])) : Tail(inbox[c])[i] = inbox[c][i + 1]
         /\ \/ pending' = pending
            \/ /\ registered \in Conns /\ pending[registered] = "waiting"
               /\ pending' = [pending EXCEPT ![registered] = Head(inbox[c])]
         /\ UNCHANGED <<registered, link, wire, executed, noise, closer, callVars>>
  <1>1. inbox[c] # <<>> /\ inbox[c] \in Seq(Messages)
    BY DEF TypeOK, ResolveResponse
  <1>2. /\ Head(inbox[c]) \in Messages /\ Head(inbox[c]) = inbox[c][1]
        /\ Tail(inbox[c]) \in Seq(Messages)
        /\ Len(Tail(inbox[c])) = Len(inbox[c]) - 1
        /\ \A i \in 1..Len(Tail(inbox[c])) : Tail(inbox[c])[i] = inbox[c][i + 1]
    BY <1>1, HeadTailProperties
  <1>3. Len(inbox[c]) \in Nat \ {0}
    BY <1>1, EmptySeq, LenProperties
  <1>4. /\ inbox' = [inbox EXCEPT ![c] = Tail(@)]
        /\ UNCHANGED <<registered, link, wire, executed, noise, closer, callVars>>
    BY DEF ResolveResponse
  <1>5. \/ pending' = pending
        \/ /\ registered \in Conns /\ pending[registered] = "waiting"
           /\ pending' = [pending EXCEPT ![registered] = Head(inbox[c])]
    BY DEF ResolveResponse, Awaited, TypeOK
  <1> QED
    BY <1>2, <1>3, <1>4, <1>5

LEMMA DeliveredTypes ==
  ASSUME TypeOK, NEW c \in Conns, ResolveResponse(c)
  PROVE  TypeOK'
  <1>1. inbox' \in [Conns -> Seq(Messages)]
    BY Delivered DEF TypeOK
  <1>2. pending' \in [Conns -> FutureStates \union Messages]
    BY Delivered DEF TypeOK
  <1>3. crowdedOut' \in SUBSET Requests
    BY DEF TypeOK, ResolveResponse, CrowdedOut
  <1> QED
    BY <1>1, <1>2, <1>3, Delivered DEF TypeOK, callVars

LEMMA DeliveredInv ==
  ASSUME CommandInv, NEW c \in Conns, ResolveResponse(c)
  PROVE  FutureInv' /\ ReplyInv' /\ CauseInv'
  <1> DEFINE m == Head(inbox[c])
  <1>1. m \in Messages /\ m # "none" /\ m # "cancelled"
    BY Delivered, MessageAssumption DEF CommandInv, FutureStates
  <1>2. m \in Requests => m \in executed
    BY Delivered DEF CommandInv, ReplyInv
  <1>3. UNCHANGED <<registered, executed, holder, pc, conn, expired, cancelled>>
    BY Delivered DEF CommandInv, callVars
  <1>4. \/ pending' = pending
        \/ /\ registered \in Conns /\ pending[registered] = "waiting"
           /\ pending' = [pending EXCEPT ![registered] = m]
    BY Delivered DEF CommandInv
  <1>5. pending \in [Conns -> FutureStates \union Messages]
    BY DEF CommandInv, TypeOK
  <1>6. \A k \in Conns : \A i \in 1..Len(inbox'[k]) :
          inbox'[k][i] \in Requests => inbox'[k][i] \in executed
    <2> SUFFICES ASSUME NEW k \in Conns, NEW i \in 1..Len(inbox'[k]),
                        inbox'[k][i] \in Requests
                 PROVE  inbox'[k][i] \in executed
      OBVIOUS
    <2>1. CASE k = c
      <3>1. inbox'[k] = Tail(inbox[c])
        BY <2>1, Delivered DEF CommandInv, TypeOK
      <3>2. inbox'[k][i] = inbox[c][i + 1] /\ i + 1 \in 1..Len(inbox[c])
        BY <3>1, Delivered DEF CommandInv
      <3> QED
        BY <3>2 DEF CommandInv, ReplyInv
    <2>2. CASE k # c
      <3>1. inbox'[k] = inbox[k]
        BY <2>2, Delivered DEF CommandInv, TypeOK
      <3> QED
        BY <3>1 DEF CommandInv, ReplyInv
    <2> QED
      BY <2>1, <2>2
  <1> HIDE DEF m
  <1>7. FutureInv'
    BY <1>1, <1>3, <1>4, <1>5 DEF CommandInv, FutureInv
  <1>8. ReplyInv'
    BY <1>2, <1>3, <1>4, <1>5, <1>6 DEF CommandInv, ReplyInv
  <1>9. CauseInv'
    BY <1>1, <1>3, <1>4, <1>5 DEF CommandInv, CauseInv, InService
  <1> QED
    BY <1>7, <1>8, <1>9

\* Leaving the try preserves the types.
LEMMA LeaveTypes ==
  ASSUME TypeOK, LockInv,
         NEW r \in Requests, NEW o \in Outcomes,
         InService(r), Leave(r, o),
         requestCount' \in [Conns -> Nat]
  PROVE  TypeOK'
  BY DEF TypeOK, LockInv, Leave, FutureStates, socketVars

\* Leaving the try preserves the invariant, if a ConnectionError has its cause.
LEMMA LeaveInv ==
  ASSUME CommandInv,
         NEW r \in Requests, NEW o \in Outcomes,
         InService(r), Leave(r, o),
         requestCount' \in [Conns -> Nat],
         o = "conn_error" /\ r \notin Cancellable => Caused(r)
  PROVE  CommandInv'
  <1> USE CommandAssumption, MessageAssumption
      DEF CommandInv, TypeOK, Leave, socketVars, InService, LockInv
  <1>t. TypeOK'
    BY LeaveTypes
  <1>c. conn[r] \in Conns /\ holder[conn[r]] = r
    OBVIOUS
  <1>1. LockInv'
    BY <1>t, <1>c DEF LockInv
  <1>2. FutureInv'
    BY <1>t, <1>c DEF FutureInv, Messages, FutureStates
  <1>3. ReplyInv'
    BY <1>t, <1>c DEF ReplyInv, Messages, FutureStates
  <1>4. FreshInv'
    BY <1>t, <1>c DEF FreshInv
  <1>5. UsedInv'
    BY <1>t, <1>c DEF UsedInv
  <1>6. CauseInv'
    BY <1>t, <1>c DEF CauseInv
  <1>7. ConnErrorHasCause'
    BY <1>t, <1>c DEF ConnErrorHasCause, Caused
  <1> QED
    BY <1>t, <1>1, <1>2, <1>3, <1>4, <1>5, <1>6, <1>7

\* Every step preserves the types.
LEMMA TypeStep == TypeOK /\ LockInv /\ [Next]_vars => TypeOK'
  <1> SUFFICES ASSUME TypeOK, LockInv, [Next]_vars
               PROVE  TypeOK'
    OBVIOUS
  <1> USE CommandAssumption
      DEF TypeOK, LockInv, InService, LinkStates, FutureStates, Messages,
          Outcomes, vars, socketVars, callVars
  <1>1. ASSUME NEW c \in Conns, Connect(c)
        PROVE  TypeOK'
    BY <1>1 DEF Connect
  <1>2. ASSUME NEW c \in Conns, PeerLeaves(c)
        PROVE  TypeOK'
    BY <1>2 DEF PeerLeaves
  <1>3. ASSUME NEW c \in Conns, ResolveResponse(c)
        PROVE  TypeOK'
    BY <1>3, DeliveredTypes
  <1>4. ASSUME NEW c \in Conns, ReceiveEnds(c)
        PROVE  TypeOK'
    BY <1>4 DEF ReceiveEnds, Unregister, Awaited
  <1>5. ASSUME NEW c \in Conns, NEW r \in Requests, Execute(c, r)
        PROVE  TypeOK'
    BY <1>5 DEF Execute
  <1>6. ASSUME NEW c \in Conns, NEW r \in Requests, Reply(c, r)
        PROVE  TypeOK'
    BY <1>6 DEF Reply
  <1>7. ASSUME NEW c \in Conns, NEW m \in Noise, SendNoise(c, m)
        PROVE  TypeOK'
    BY <1>7 DEF SendNoise
  <1>8. ASSUME DisconnectClose
        PROVE  TypeOK'
    BY <1>8 DEF DisconnectClose
  <1>9. ASSUME DisconnectUnregister
        PROVE  TypeOK'
    BY <1>9 DEF DisconnectUnregister, Unregister, Awaited
  <1>10. ASSUME NEW r \in Requests, SubmitUnconnected(r)
         PROVE  TypeOK'
    BY <1>10 DEF SubmitUnconnected
  <1>11. ASSUME NEW r \in Requests, SubmitAlone(r)
         PROVE  TypeOK'
    <2>1. registered \in Conns
      BY <1>11 DEF SubmitAlone
    <2>2. /\ holder' \in [Conns -> Requests \union {NoRequest}]
          /\ pending' \in [Conns -> FutureStates \union Messages]
      BY <1>11, <2>1 DEF SubmitAlone, Begin
    <2>3. /\ wire' \in [Conns -> SUBSET Requests]
          /\ conn' \in [Requests -> Conns \union {NoConn}]
          /\ pc' \in [Requests -> {"new", "lock", "send", "wait", "done"}]
      BY <1>11, <2>1 DEF SubmitAlone, Begin
    <2> QED
      BY <1>11, <2>2, <2>3 DEF SubmitAlone
  <1>12. ASSUME NEW r \in Requests, SubmitQueued(r)
         PROVE  TypeOK'
    BY <1>12 DEF SubmitQueued, LockFree
  <1>13. ASSUME NEW r \in Requests, Acquire(r)
         PROVE  TypeOK'
    <2>1. conn[r] \in Conns
      BY <1>13 DEF Acquire
    <2>2. Tail(waiters[conn[r]]) \in Seq(Requests)
      BY <1>13, <2>1, HeadTailProperties DEF Acquire
    <2>3. waiters' \in [Conns -> Seq(Requests)]
      BY <1>13, <2>1, <2>2 DEF Acquire
    <2> QED
      BY <1>13, <2>1, <2>3 DEF Acquire, Begin
  <1>14. ASSUME NEW r \in Requests, SendDone(r)
         PROVE  TypeOK'
    <2>1. CASE expired[r]
      BY <1>14, <2>1, LeaveTypes DEF SendDone
    <2>2. CASE ~expired[r]
      BY <1>14, <2>2, SendDoneWaitsTypes
    <2> QED
      BY <2>1, <2>2
  <1>15. ASSUME NEW r \in Requests, SendFails(r)
         PROVE  TypeOK'
    BY <1>15, LeaveTypes DEF SendFails
  <1>16. ASSUME NEW r \in Requests, SendCancelled(r)
         PROVE  TypeOK'
    BY <1>16, LeaveTypes DEF SendCancelled, OnCancelled
  <1>17. ASSUME NEW r \in Requests, WakeCancelled(r)
         PROVE  TypeOK'
    BY <1>17, LeaveTypes DEF WakeCancelled, OnCancelled, Woken
  <1>18. ASSUME NEW r \in Requests, WakeTimeout(r)
         PROVE  TypeOK'
    BY <1>18, LeaveTypes DEF WakeTimeout, Woken
  <1>19. ASSUME NEW r \in Requests, WakeReply(r)
         PROVE  TypeOK'
    BY <1>19, WakeReplyCount, LeaveTypes DEF WakeReply, GotMessage, Woken
  <1>20. ASSUME NEW r \in Requests, WakeGarbled(r)
         PROVE  TypeOK'
    BY <1>20, LeaveTypes DEF WakeGarbled, GotMessage, Woken
  <1>21. ASSUME NEW r \in Requests, WakeStray(r)
         PROVE  TypeOK'
    BY <1>21 DEF WakeStray, GotMessage, Woken
  <1>22. ASSUME NEW r \in Requests, Expire(r)
         PROVE  TypeOK'
    BY <1>22 DEF Expire, CancelAwaited
  <1>23. ASSUME NEW r \in Requests, Cancel(r)
         PROVE  TypeOK'
    BY <1>23 DEF Cancel, CancelAwaited
  <1>24. ASSUME NEW r \in Requests, CancelQueued(r)
         PROVE  TypeOK'
    <2>1. conn[r] \in Conns /\ waiters[conn[r]] \in Seq(Requests)
      BY <1>24 DEF CancelQueued
    <2>2. PICK i \in 1..Len(waiters[conn[r]]) :
            waiters' = [waiters EXCEPT ![conn[r]] =
                          SubSeq(@, 1, i - 1) \o SubSeq(@, i + 1, Len(@))]
      BY <1>24 DEF CancelQueued
    <2>3. waiters' \in [Conns -> Seq(Requests)]
      BY <2>1, <2>2, RemoveOne
    <2> QED
      BY <1>24, <2>1, <2>3 DEF CancelQueued
  <1>25. CASE UNCHANGED vars
    BY <1>25 DEF vars
  <1> QED
    BY <1>1, <1>2, <1>3, <1>4, <1>5, <1>6, <1>7, <1>8, <1>9, <1>10, <1>11,
       <1>12, <1>13, <1>14, <1>15, <1>16, <1>17, <1>18, <1>19, <1>20,
       <1>21, <1>22, <1>23, <1>24, <1>25
    DEF Next, Device, Command, Send, Wake

\* A message comes behind what is already in the inbox.
LEMMA InboxGrows ==
  ASSUME TypeOK, NEW c \in Conns, NEW m \in Messages,
         inbox' = [inbox EXCEPT ![c] = Append(@, m)]
  PROVE  \A k \in Conns : \A i \in 1..Len(inbox'[k]) :
           inbox'[k][i] = m \/ (i \in 1..Len(inbox[k]) /\ inbox'[k][i] = inbox[k][i])
  <1> SUFFICES ASSUME NEW k \in Conns, NEW i \in 1..Len(inbox'[k])
               PROVE  inbox'[k][i] = m \/ (i \in 1..Len(inbox[k]) /\ inbox'[k][i] = inbox[k][i])
    OBVIOUS
  <1>1. inbox \in [Conns -> Seq(Messages)]
    BY DEF TypeOK
  <1>2. CASE k = c
    <2>1. inbox'[k] = Append(inbox[k], m) /\ inbox[k] \in Seq(Messages)
      BY <1>1, <1>2
    <2> QED
      BY <2>1, AppendProperties, LenProperties
  <1>3. CASE k # c
    BY <1>1, <1>3
  <1> QED
    BY <1>2, <1>3

\* The add-in sends a reply.
LEMMA ReplySent ==
  ASSUME CommandInv, NEW c \in Conns, NEW r \in Requests, Reply(c, r)
  PROVE  ReplyInv' /\ FreshInv' /\ UsedInv'
  <1>1. /\ r \in executed /\ inbox' = [inbox EXCEPT ![c] = Append(@, r)]
        /\ wire' = [wire EXCEPT ![c] = @ \ {r}]
        /\ UNCHANGED <<executed, pending, pc, conn, outcome, registered, link>>
    BY DEF Reply, callVars
  <1>2. r \in Messages /\ wire \in [Conns -> SUBSET Requests]
    BY DEF CommandInv, TypeOK, Messages
  <1>3. ReplyInv'
    BY <1>1, <1>2, InboxGrows DEF CommandInv, ReplyInv
  <1>4. \A k \in Conns : wire'[k] \subseteq wire[k]
    BY <1>1, <1>2
  <1>5. FreshInv' /\ UsedInv'
    BY <1>1, <1>4 DEF CommandInv, FreshInv, UsedInv
  <1> QED
    BY <1>3, <1>5

\* The add-in sends something else.
LEMMA NoiseSent ==
  ASSUME CommandInv, NEW c \in Conns, NEW m \in Noise, SendNoise(c, m)
  PROVE  ReplyInv'
  <1>1. /\ inbox' = [inbox EXCEPT ![c] = Append(@, m)]
        /\ executed' = executed /\ pending' = pending
    BY DEF SendNoise
  <1>2. m \in Messages /\ m \notin Requests
    BY MessageAssumption DEF Messages
  <1> QED
    BY <1>1, <1>2, InboxGrows DEF CommandInv, ReplyInv

\* Every step preserves the invariant.
LEMMA InvStep == CommandInv /\ [Next]_vars => CommandInv'
  <1> SUFFICES ASSUME CommandInv, [Next]_vars
               PROVE  CommandInv'
    OBVIOUS
  <1> USE CommandAssumption, MessageAssumption
      DEF CommandInv, TypeOK, LockInv, FutureInv, ReplyInv, FreshInv, UsedInv,
          CauseInv, ConnErrorHasCause, Caused, InService,
          FutureStates, Messages, vars, socketVars, callVars
  <1>t. TypeOK'
    BY TypeStep
  <1>1. ASSUME NEW c \in Conns, Connect(c)
        PROVE  CommandInv'
    BY <1>1, <1>t DEF Connect
  <1>2. ASSUME NEW c \in Conns, PeerLeaves(c)
        PROVE  CommandInv'
    BY <1>2, <1>t DEF PeerLeaves
  <1>3. ASSUME NEW c \in Conns, ResolveResponse(c)
        PROVE  CommandInv'
    <2>1. LockInv'
      BY <1>3, <1>t DEF ResolveResponse, Awaited
    <2>2. FutureInv'
      BY <1>3, DeliveredInv
    <2>3. ReplyInv'
      BY <1>3, DeliveredInv
    <2>4. FreshInv'
      BY <1>3, <1>t DEF ResolveResponse, Awaited
    <2>5. UsedInv'
      BY <1>3, <1>t DEF ResolveResponse, Awaited
    <2>6. CauseInv'
      BY <1>3, DeliveredInv
    <2>7. ConnErrorHasCause'
      BY <1>3, <1>t DEF ResolveResponse, Awaited
    <2> QED
      BY <1>t, <2>1, <2>2, <2>3, <2>4, <2>5, <2>6, <2>7
  <1>4. ASSUME NEW c \in Conns, ReceiveEnds(c)
        PROVE  CommandInv'
    <2>1. LockInv'
      BY <1>4, <1>t DEF ReceiveEnds, Unregister, Awaited
    <2>2. FutureInv'
      BY <1>4, <1>t DEF ReceiveEnds, Unregister, Awaited
    <2>3. ReplyInv'
      BY <1>4, <1>t DEF ReceiveEnds, Unregister, Awaited
    <2>4. FreshInv'
      BY <1>4, <1>t DEF ReceiveEnds, Unregister, Awaited
    <2>5. UsedInv'
      BY <1>4, <1>t DEF ReceiveEnds, Unregister, Awaited
    <2>6. CauseInv'
      BY <1>4, UnregisterCause DEF ReceiveEnds, Unregister
    <2>7. ConnErrorHasCause'
      BY <1>4, <1>t DEF ReceiveEnds, Unregister, Awaited
    <2> QED
      BY <1>t, <2>1, <2>2, <2>3, <2>4, <2>5, <2>6, <2>7
  <1>5. ASSUME NEW c \in Conns, NEW r \in Requests, Execute(c, r)
        PROVE  CommandInv'
    BY <1>5, <1>t DEF Execute
  <1>6. ASSUME NEW c \in Conns, NEW r \in Requests, Reply(c, r)
        PROVE  CommandInv'
    <2>1. LockInv' /\ FutureInv'
      BY <1>6, <1>t DEF Reply
    <2>2. ReplyInv'
      BY <1>6, ReplySent
    <2>3. FreshInv' /\ UsedInv'
      BY <1>6, ReplySent
    <2>4. CauseInv' /\ ConnErrorHasCause'
      BY <1>6, <1>t DEF Reply
    <2> QED
      BY <1>t, <2>1, <2>2, <2>3, <2>4
  <1>7. ASSUME NEW c \in Conns, NEW m \in Noise, SendNoise(c, m)
        PROVE  CommandInv'
    <2>1. LockInv' /\ FutureInv'
      BY <1>7, <1>t DEF SendNoise
    <2>2. ReplyInv'
      BY <1>7, NoiseSent
    <2>3. FreshInv' /\ UsedInv'
      BY <1>7, <1>t DEF SendNoise
    <2>4. CauseInv' /\ ConnErrorHasCause'
      BY <1>7, <1>t DEF SendNoise
    <2> QED
      BY <1>t, <2>1, <2>2, <2>3, <2>4
  <1>8. ASSUME DisconnectClose
        PROVE  CommandInv'
    BY <1>8, <1>t DEF DisconnectClose
  <1>9. ASSUME DisconnectUnregister
        PROVE  CommandInv'
    <2>1. LockInv'
      BY <1>9, <1>t DEF DisconnectUnregister, Unregister, Awaited
    <2>2. FutureInv'
      BY <1>9, <1>t DEF DisconnectUnregister, Unregister, Awaited
    <2>3. ReplyInv'
      BY <1>9, <1>t DEF DisconnectUnregister, Unregister, Awaited
    <2>4. FreshInv'
      BY <1>9, <1>t DEF DisconnectUnregister, Unregister, Awaited
    <2>5. UsedInv'
      BY <1>9, <1>t DEF DisconnectUnregister, Unregister, Awaited
    <2>6. CauseInv'
      BY <1>9, UnregisterCause DEF DisconnectUnregister, Unregister
    <2>7. ConnErrorHasCause'
      BY <1>9, <1>t DEF DisconnectUnregister, Unregister, Awaited
    <2> QED
      BY <1>t, <2>1, <2>2, <2>3, <2>4, <2>5, <2>6, <2>7
  <1>10. ASSUME NEW r \in Requests, SubmitUnconnected(r)
         PROVE  CommandInv'
    BY <1>10, <1>t DEF SubmitUnconnected
  <1>11. ASSUME NEW r \in Requests, SubmitAlone(r)
         PROVE  CommandInv'
    <2>1. LockInv'
      BY <1>11, <1>t DEF SubmitAlone, Begin, LockFree
    <2>2. FutureInv'
      BY <1>11, <1>t DEF SubmitAlone, Begin, LockFree
    <2>3. ReplyInv'
      BY <1>11, <1>t DEF SubmitAlone, Begin, LockFree
    <2>4. FreshInv'
      BY <1>11, <1>t DEF SubmitAlone, Begin, LockFree
    <2>5. UsedInv'
      BY <1>11, <1>t DEF SubmitAlone, Begin, LockFree
    <2>6. CauseInv'
      BY <1>11, <1>t DEF SubmitAlone, Begin, LockFree
    <2>7. ConnErrorHasCause'
      <3>1. outcome[r] = "none"
        BY <1>11 DEF SubmitAlone
      <3>2. /\ \A q \in Requests : q # r => conn'[q] = conn[q]
            /\ UNCHANGED <<outcome, registered, link>>
        BY <1>11 DEF SubmitAlone
      <3> HIDE DEF ConnErrorHasCause, Caused
      <3> QED
        BY <3>1, <3>2, SubmitKeepsCause
    <2> QED
      BY <1>t, <2>1, <2>2, <2>3, <2>4, <2>5, <2>6, <2>7
  <1>12. ASSUME NEW r \in Requests, SubmitQueued(r)
         PROVE  CommandInv'
    <2>1. LockInv'
      BY <1>12, <1>t DEF SubmitQueued, LockFree
    <2>2. FutureInv'
      BY <1>12, <1>t DEF SubmitQueued, LockFree
    <2>3. ReplyInv'
      BY <1>12, <1>t DEF SubmitQueued, LockFree
    <2>4. FreshInv'
      BY <1>12, <1>t DEF SubmitQueued, LockFree
    <2>5. UsedInv'
      BY <1>12, <1>t DEF SubmitQueued, LockFree
    <2>6. CauseInv'
      BY <1>12, <1>t DEF SubmitQueued, LockFree
    <2>7. ConnErrorHasCause'
      <3>1. outcome[r] = "none"
        BY <1>12 DEF SubmitQueued
      <3>2. /\ \A q \in Requests : q # r => conn'[q] = conn[q]
            /\ UNCHANGED <<outcome, registered, link>>
        BY <1>12 DEF SubmitQueued
      <3> HIDE DEF ConnErrorHasCause, Caused
      <3> QED
        BY <3>1, <3>2, SubmitKeepsCause
    <2> QED
      BY <1>t, <2>1, <2>2, <2>3, <2>4, <2>5, <2>6, <2>7
  <1>13. ASSUME NEW r \in Requests, Acquire(r)
         PROVE  CommandInv'
    <2>1. LockInv'
      BY <1>13, <1>t DEF Acquire, Begin, LockFree
    <2>2. FutureInv'
      BY <1>13, <1>t DEF Acquire, Begin, LockFree
    <2>3. ReplyInv'
      BY <1>13, <1>t DEF Acquire, Begin, LockFree
    <2>4. FreshInv'
      BY <1>13, <1>t DEF Acquire, Begin, LockFree
    <2>5. UsedInv'
      BY <1>13, <1>t DEF Acquire, Begin, LockFree
    <2>6. CauseInv'
      BY <1>13, <1>t DEF Acquire, Begin, LockFree
    <2>7. ConnErrorHasCause'
      BY <1>13, <1>t DEF Acquire, Begin, LockFree
    <2> QED
      BY <1>t, <2>1, <2>2, <2>3, <2>4, <2>5, <2>6, <2>7
  <1>14. ASSUME NEW r \in Requests, SendDone(r)
         PROVE  CommandInv'
    <2>1. CASE expired[r]
      BY <1>14, <2>1, LeaveInv DEF SendDone, Outcomes
    <2>2. CASE ~expired[r]
      BY <1>14, <2>2, SendDoneWaitsInv
    <2> QED
      BY <2>1, <2>2
  <1>15. ASSUME NEW r \in Requests, SendFails(r)
         PROVE  CommandInv'
    BY <1>15, LeaveInv DEF SendFails, Outcomes
  <1>16. ASSUME NEW r \in Requests, SendCancelled(r)
         PROVE  CommandInv'
    BY <1>16, LeaveInv DEF SendCancelled, OnCancelled, Outcomes
  <1>17. ASSUME NEW r \in Requests, WakeCancelled(r)
         PROVE  CommandInv'
    BY <1>17, LeaveInv DEF WakeCancelled, OnCancelled, Woken, Outcomes
  <1>18. ASSUME NEW r \in Requests, WakeTimeout(r)
         PROVE  CommandInv'
    BY <1>18, LeaveInv DEF WakeTimeout, Woken, Outcomes
  <1>19. ASSUME NEW r \in Requests, WakeReply(r)
         PROVE  CommandInv'
    <2>1. requestCount' \in [Conns -> Nat]
      BY <1>t
    <2>2. r \in executed /\ InService(r)
      BY <1>19, WakeReplyRun
    <2>3. Leave(r, "result")
      BY <1>19 DEF WakeReply
    <2> QED
      BY <2>1, <2>2, <2>3, LeaveInv DEF Outcomes
  <1>20. ASSUME NEW r \in Requests, WakeGarbled(r)
         PROVE  CommandInv'
    BY <1>20, LeaveInv DEF WakeGarbled, GotMessage, Woken, Outcomes
  <1>21. ASSUME NEW r \in Requests, WakeStray(r)
         PROVE  CommandInv'
    <2>1. LockInv'
      BY <1>21, <1>t DEF WakeStray, GotMessage, Woken
    <2>2. FutureInv'
      BY <1>21, <1>t DEF WakeStray, GotMessage, Woken
    <2>3. ReplyInv'
      BY <1>21, <1>t DEF WakeStray, GotMessage, Woken
    <2>4. FreshInv'
      BY <1>21, <1>t DEF WakeStray, GotMessage, Woken
    <2>5. UsedInv'
      BY <1>21, <1>t DEF WakeStray, GotMessage, Woken
    <2>6. CauseInv'
      BY <1>21, <1>t DEF WakeStray, GotMessage, Woken
    <2>7. ConnErrorHasCause'
      BY <1>21, <1>t DEF WakeStray, GotMessage, Woken
    <2> QED
      BY <1>t, <2>1, <2>2, <2>3, <2>4, <2>5, <2>6, <2>7
  <1>22. ASSUME NEW r \in Requests, Expire(r)
         PROVE  CommandInv'
    <2>1. LockInv'
      BY <1>22, <1>t DEF Expire, CancelAwaited
    <2>2. FutureInv'
      BY <1>22, <1>t DEF Expire, CancelAwaited
    <2>3. ReplyInv'
      BY <1>22, <1>t DEF Expire, CancelAwaited
    <2>4. FreshInv'
      BY <1>22, <1>t DEF Expire, CancelAwaited
    <2>5. UsedInv'
      BY <1>22, <1>t DEF Expire, CancelAwaited
    <2>6. CauseInv'
      BY <1>22, <1>t DEF Expire, CancelAwaited
    <2>7. ConnErrorHasCause'
      BY <1>22, <1>t DEF Expire, CancelAwaited
    <2> QED
      BY <1>t, <2>1, <2>2, <2>3, <2>4, <2>5, <2>6, <2>7
  <1>23. ASSUME NEW r \in Requests, Cancel(r)
         PROVE  CommandInv'
    <2>1. LockInv'
      BY <1>23, <1>t DEF Cancel, CancelAwaited
    <2>2. FutureInv'
      BY <1>23, <1>t DEF Cancel, CancelAwaited
    <2>3. ReplyInv'
      BY <1>23, <1>t DEF Cancel, CancelAwaited
    <2>4. FreshInv'
      BY <1>23, <1>t DEF Cancel, CancelAwaited
    <2>5. UsedInv'
      BY <1>23, <1>t DEF Cancel, CancelAwaited
    <2>6. CauseInv'
      BY <1>23, <1>t DEF Cancel, CancelAwaited
    <2>7. ConnErrorHasCause'
      BY <1>23, <1>t DEF Cancel, CancelAwaited
    <2> QED
      BY <1>t, <2>1, <2>2, <2>3, <2>4, <2>5, <2>6, <2>7
  <1>24. ASSUME NEW r \in Requests, CancelQueued(r)
         PROVE  CommandInv'
    <2>1. LockInv'
      BY <1>24, <1>t DEF CancelQueued
    <2>2. FutureInv'
      BY <1>24, <1>t DEF CancelQueued
    <2>3. ReplyInv'
      BY <1>24, <1>t DEF CancelQueued
    <2>4. FreshInv'
      BY <1>24, <1>t DEF CancelQueued
    <2>5. UsedInv'
      BY <1>24, <1>t DEF CancelQueued
    <2>6. CauseInv'
      BY <1>24, <1>t DEF CancelQueued
    <2>7. ConnErrorHasCause'
      BY <1>24, <1>t DEF CancelQueued
    <2> QED
      BY <1>t, <2>1, <2>2, <2>3, <2>4, <2>5, <2>6, <2>7
  <1>25. CASE UNCHANGED vars
    BY <1>25 DEF vars
  <1> QED
    BY <1>1, <1>2, <1>3, <1>4, <1>5, <1>6, <1>7, <1>8, <1>9, <1>10, <1>11,
       <1>12, <1>13, <1>14, <1>15, <1>16, <1>17, <1>18, <1>19, <1>20,
       <1>21, <1>22, <1>23, <1>24, <1>25
    DEF Next, Device, Command, Send, Wake

LEMMA Invariance == Spec => []CommandInv
  BY InitInv, InvStep, PTL DEF Spec

-----------------------------------------------------------------------------
(* The abstract service *)

LEMMA ServiceInit == Init => Service!Init
  BY DEF Init, Service!Init, Status

\* A step that moves one request from "open" to "open", or none, is invisible.
LEMMA StatusUnchanged ==
  ASSUME \A r \in Requests : pc'[r] = pc[r]
  PROVE  Status' = Status
  BY DEF Status

LEMMA MovesOpen ==
  ASSUME TypeOK, NEW r \in Requests, pc[r] \in {"lock", "send", "wait"},
         pc' = [pc EXCEPT ![r] = "send"] \/ pc' = [pc EXCEPT ![r] = "wait"]
  PROVE  Status' = Status
  BY DEF TypeOK, Status

LEMMA MovesSubmit ==
  ASSUME TypeOK, NEW r \in Requests, pc[r] = "new",
         pc' = [pc EXCEPT ![r] = "lock"] \/ pc' = [pc EXCEPT ![r] = "send"],
         UNCHANGED <<outcome, executed>>
  PROVE  Service!Submit(r)
  <1>1. Status[r] = "new"
    BY DEF Status
  <1>2. Status' = [Status EXCEPT ![r] = "open"]
    BY DEF TypeOK, Status
  <1> QED
    BY <1>1, <1>2 DEF Service!Submit

LEMMA MovesFinish ==
  ASSUME TypeOK, NEW r \in Requests, NEW o \in Outcomes, pc[r] # "done",
         pc' = [pc EXCEPT ![r] = "done"],
         outcome' = [outcome EXCEPT ![r] = o],
         o = "result" => r \in executed,
         UNCHANGED executed
  PROVE  Service!Finish(r, o)
  <1>1. Status[r] # "closed"
    BY DEF Status
  <1>2. Status' = [Status EXCEPT ![r] = "closed"]
    BY DEF TypeOK, Status
  <1> QED
    BY <1>1, <1>2 DEF Service!Finish

LEMMA LeaveFinishes ==
  ASSUME TypeOK, NEW r \in Requests, NEW o \in Outcomes, InService(r),
         Leave(r, o), o = "result" => r \in executed
  PROVE  Service!Next
  <1>1. Service!Finish(r, o)
    BY MovesFinish DEF Leave, InService, socketVars
  <1> QED
    BY <1>1 DEF Service!Next

\* Every step of the relay is a step of the service or invisible to it.
LEMMA ServiceStep ==
  CommandInv /\ [Next]_vars => [Service!Next]_(Service!serviceVars)
  <1> SUFFICES ASSUME CommandInv, [Next]_vars
               PROVE  Service!Next \/ UNCHANGED <<Status, outcome, executed>>
    BY DEF Service!serviceVars
  <1> USE DEF CommandInv
  <1>quiet. ASSUME UNCHANGED <<pc, outcome, executed>>
            PROVE  UNCHANGED <<Status, outcome, executed>>
    BY <1>quiet, StatusUnchanged
  <1>1. ASSUME NEW c \in Conns,
               Connect(c) \/ PeerLeaves(c) \/ ResolveResponse(c) \/ ReceiveEnds(c)
        PROVE  UNCHANGED <<Status, outcome, executed>>
    BY <1>1, <1>quiet DEF Connect, PeerLeaves, ResolveResponse, ReceiveEnds,
                          callVars
  <1>2. ASSUME NEW c \in Conns, NEW r \in Requests, Execute(c, r)
        PROVE  Service!Next
    <2>1. pc[r] # "new" /\ Status' = Status
      BY <1>2, StatusUnchanged DEF Execute, FreshInv, callVars
    <2>2. Service!Execute(r)
      BY <1>2, <2>1 DEF Execute, Service!Execute, Status, callVars
    <2> QED
      BY <2>2 DEF Service!Next
  <1>3. ASSUME NEW c \in Conns, NEW r \in Requests, Reply(c, r)
        PROVE  UNCHANGED <<Status, outcome, executed>>
    BY <1>3, <1>quiet DEF Reply, callVars
  <1>4. ASSUME NEW c \in Conns, NEW m \in Noise, SendNoise(c, m)
        PROVE  UNCHANGED <<Status, outcome, executed>>
    BY <1>4, <1>quiet DEF SendNoise, callVars
  <1>5. ASSUME DisconnectClose \/ DisconnectUnregister
        PROVE  UNCHANGED <<Status, outcome, executed>>
    BY <1>5, <1>quiet DEF DisconnectClose, DisconnectUnregister, callVars
  <1>6. ASSUME NEW r \in Requests, SubmitUnconnected(r)
        PROVE  Service!Next
    <2>1. Service!Finish(r, "conn_error")
      BY <1>6, MovesFinish DEF SubmitUnconnected, Outcomes, socketVars
    <2> QED
      BY <2>1 DEF Service!Next, Outcomes
  <1>7. ASSUME NEW r \in Requests, SubmitAlone(r) \/ SubmitQueued(r)
        PROVE  Service!Next
    <2>1. Service!Submit(r)
      BY <1>7, MovesSubmit DEF SubmitAlone, SubmitQueued, Begin, socketVars
    <2> QED
      BY <2>1 DEF Service!Next
  <1>8. ASSUME NEW r \in Requests, Acquire(r)
        PROVE  UNCHANGED <<Status, outcome, executed>>
    BY <1>8, MovesOpen DEF Acquire, Begin
  <1>9. ASSUME NEW r \in Requests, SendDone(r)
        PROVE  Service!Next \/ UNCHANGED <<Status, outcome, executed>>
    <2>1. CASE expired[r]
      BY <1>9, <2>1, LeaveFinishes DEF SendDone, InService, Outcomes
    <2>2. CASE ~expired[r]
      BY <1>9, <2>2, SendDoneWaits, MovesOpen
    <2> QED
      BY <2>1, <2>2
  <1>10. ASSUME NEW r \in Requests, SendFails(r) \/ SendCancelled(r)
         PROVE  Service!Next
    BY <1>10, LeaveFinishes
    DEF SendFails, SendCancelled, OnCancelled, InService, Outcomes
  <1>11. ASSUME NEW r \in Requests,
                WakeCancelled(r) \/ WakeTimeout(r) \/ WakeGarbled(r)
         PROVE  Service!Next
    BY <1>11, LeaveFinishes
    DEF WakeCancelled, WakeTimeout, WakeGarbled, OnCancelled, GotMessage, Woken,
        InService, Outcomes
  <1>12. ASSUME NEW r \in Requests, WakeReply(r)
         PROVE  Service!Next
    BY <1>12, WakeReplyRun, LeaveFinishes DEF WakeReply, Outcomes
  <1>13. ASSUME NEW r \in Requests, WakeStray(r)
         PROVE  UNCHANGED <<Status, outcome, executed>>
    BY <1>13, <1>quiet DEF WakeStray, callVars, socketVars
  <1>14. ASSUME NEW r \in Requests, Expire(r) \/ Cancel(r)
         PROVE  UNCHANGED <<Status, outcome, executed>>
    BY <1>14, <1>quiet DEF Expire, Cancel, socketVars
  <1>15. ASSUME NEW r \in Requests, CancelQueued(r)
         PROVE  Service!Next
    <2>1. Service!Finish(r, "cancelled")
      BY <1>15, MovesFinish DEF CancelQueued, Outcomes, socketVars
    <2> QED
      BY <2>1 DEF Service!Next, Outcomes
  <1>16. CASE UNCHANGED vars
    BY <1>16, <1>quiet DEF vars, callVars, socketVars
  <1> QED
    BY <1>1, <1>2, <1>3, <1>4, <1>5, <1>6, <1>7, <1>8, <1>9, <1>10, <1>11,
       <1>12, <1>13, <1>14, <1>15, <1>16
    DEF Next, Device, Command, Send, Wake

-----------------------------------------------------------------------------
(* The counter of answered requests *)

Answered(c) == {r \in Requests : conn[r] = c /\ outcome[r] = "result"}

\* A step that answers nobody: a request without an outcome ends some other way
\* or looks up its connection.
LEMMA NotAnswered ==
  ASSUME CommandInv, CountMatches, UNCHANGED requestCount,
         \A r \in Requests :
           \/ conn'[r] = conn[r] /\ outcome'[r] = outcome[r]
           \/ outcome[r] = "none" /\ outcome'[r] # "result"
  PROVE  CountMatches'
  <1>1. ASSUME NEW c \in Conns
        PROVE  Answered(c)' = Answered(c)
    BY DEF Answered
  <1> QED
    BY <1>1 DEF CountMatches, Answered

LEMMA LeaveAnswersNot ==
  ASSUME CommandInv, CountMatches, NEW r \in Requests, NEW o, InService(r),
         Leave(r, o), o # "result", UNCHANGED requestCount
  PROVE  CountMatches'
  <1>1. outcome[r] = "none"
    BY DEF CommandInv, FreshInv, InService
  <1>2. \A q \in Requests :
          \/ conn'[q] = conn[q] /\ outcome'[q] = outcome[q]
          \/ outcome[q] = "none" /\ outcome'[q] # "result"
    BY <1>1 DEF Leave, CommandInv, TypeOK
  <1> QED
    BY <1>2, NotAnswered

LEMMA AnswerCounted ==
  ASSUME CommandInv, CountMatches, NEW r \in Requests, WakeReply(r)
  PROVE  CountMatches'
  <1>1. outcome[r] = "none" /\ conn[r] \in Conns
    BY WakeReplyRun DEF CommandInv, FreshInv, LockInv, InService
  <1>2. /\ outcome' = [outcome EXCEPT ![r] = "result"] /\ conn' = conn
        /\ requestCount' = [requestCount EXCEPT ![conn[r]] = @ + 1]
    BY DEF WakeReply, Leave
  <1>3. ASSUME NEW c \in Conns
        PROVE  requestCount'[c] = Cardinality(Answered(c)')
    <2>1. IsFiniteSet(Answered(c))
      BY FS_Subset, CommandAssumption DEF Answered
    <2>2. requestCount[c] = Cardinality(Answered(c))
      BY DEF CountMatches, Answered
    <2>3. CASE c = conn[r]
      <3>1. r \notin Answered(c)
        BY <1>1 DEF Answered
      <3>2. Answered(c)' = Answered(c) \union {r}
        BY <1>2, <2>3 DEF Answered, CommandInv, TypeOK
      <3>3. Cardinality(Answered(c)') = Cardinality(Answered(c)) + 1
        BY <2>1, <3>1, <3>2, FS_AddElement
      <3>4. requestCount'[c] = requestCount[c] + 1
        BY <1>2, <2>3 DEF CommandInv, TypeOK
      <3> QED
        BY <2>2, <3>3, <3>4
    <2>4. CASE c # conn[r]
      <3>1. Answered(c)' = Answered(c)
        BY <1>2, <2>4 DEF Answered, CommandInv, TypeOK
      <3>2. requestCount'[c] = requestCount[c]
        BY <1>2, <2>4 DEF CommandInv, TypeOK
      <3> QED
        BY <2>2, <3>1, <3>2
    <2> QED
      BY <2>3, <2>4
  <1> QED
    BY <1>3 DEF CountMatches, Answered

LEMMA CountStep == CommandInv /\ CountMatches /\ [Next]_vars => CountMatches'
  <1> SUFFICES ASSUME CommandInv, CountMatches, [Next]_vars
               PROVE  CountMatches'
    OBVIOUS
  <1>quiet. ASSUME UNCHANGED <<requestCount, conn, outcome>>
            PROVE  CountMatches'
    BY <1>quiet, NotAnswered
  <1>1. ASSUME NEW c \in Conns,
               Connect(c) \/ PeerLeaves(c) \/ ResolveResponse(c) \/ ReceiveEnds(c)
        PROVE  CountMatches'
    BY <1>1, <1>quiet DEF Connect, PeerLeaves, ResolveResponse, ReceiveEnds,
                          callVars
  <1>2. ASSUME NEW c \in Conns, NEW r \in Requests, Execute(c, r) \/ Reply(c, r)
        PROVE  CountMatches'
    BY <1>2, <1>quiet DEF Execute, Reply, callVars
  <1>3. ASSUME NEW c \in Conns, NEW m \in Noise, SendNoise(c, m)
        PROVE  CountMatches'
    BY <1>3, <1>quiet DEF SendNoise, callVars
  <1>4. ASSUME DisconnectClose \/ DisconnectUnregister
        PROVE  CountMatches'
    BY <1>4, <1>quiet DEF DisconnectClose, DisconnectUnregister, callVars
  <1>5. ASSUME NEW r \in Requests,
               SubmitUnconnected(r) \/ SubmitAlone(r) \/ SubmitQueued(r)
                 \/ CancelQueued(r)
        PROVE  CountMatches'
    <2>1. outcome[r] = "none"
      BY <1>5 DEF CommandInv, FreshInv, SubmitUnconnected, SubmitAlone,
                  SubmitQueued, CancelQueued
    <2>2. requestCount' = requestCount
      BY <1>5 DEF SubmitUnconnected, SubmitAlone, SubmitQueued, CancelQueued
    <2>3. \A q \in Requests :
            \/ conn'[q] = conn[q] /\ outcome'[q] = outcome[q]
            \/ outcome[q] = "none" /\ outcome'[q] # "result"
      BY <1>5, <2>1 DEF CommandInv, TypeOK, SubmitUnconnected, SubmitAlone,
                        SubmitQueued, CancelQueued
    <2> QED
      BY <2>2, <2>3, NotAnswered
  <1>6. ASSUME NEW r \in Requests,
               Acquire(r) \/ WakeStray(r) \/ Expire(r) \/ Cancel(r)
        PROVE  CountMatches'
    BY <1>6, <1>quiet DEF Acquire, WakeStray, Expire, Cancel, callVars
  <1>7. ASSUME NEW r \in Requests, SendDone(r)
        PROVE  CountMatches'
    <2>1. CASE expired[r]
      BY <1>7, <2>1, LeaveAnswersNot DEF SendDone, InService
    <2>2. CASE ~expired[r]
      BY <1>7, <2>2, SendDoneWaits, <1>quiet
    <2> QED
      BY <2>1, <2>2
  <1>8. ASSUME NEW r \in Requests, Send(r), ~SendDone(r)
        PROVE  CountMatches'
    BY <1>8, LeaveAnswersNot
    DEF Send, SendFails, SendCancelled, OnCancelled, InService
  <1>9. ASSUME NEW r \in Requests,
               WakeCancelled(r) \/ WakeTimeout(r) \/ WakeGarbled(r)
        PROVE  CountMatches'
    BY <1>9, LeaveAnswersNot
    DEF WakeCancelled, WakeTimeout, WakeGarbled, OnCancelled, GotMessage, Woken,
        InService
  <1>10. ASSUME NEW r \in Requests, WakeReply(r)
         PROVE  CountMatches'
    BY <1>10, AnswerCounted
  <1>11. CASE UNCHANGED vars
    BY <1>11, <1>quiet DEF vars, callVars
  <1> QED
    BY <1>1, <1>2, <1>3, <1>4, <1>5, <1>6, <1>7, <1>8, <1>9, <1>10, <1>11
    DEF Next, Device, Command, Wake, Send

-----------------------------------------------------------------------------
(* The reply to the request in service *)

\* A request is written to the connection it looked up, once it has its lock, and the
\* add-in runs only what was written.
WireInv ==
  /\ \A c \in Conns : \A r \in wire[c] : conn[r] = c /\ pc[r] \notin {"new", "lock"}
  /\ \A r \in executed : pc[r] \notin {"new", "lock"}

LEMMA WireStep == CommandInv /\ WireInv /\ [Next]_vars => WireInv'
  <1> SUFFICES ASSUME CommandInv, WireInv, [Next]_vars
               PROVE  WireInv'
    OBVIOUS
  <1> USE DEF WireInv
  <1>typed. /\ pc \in [Requests -> {"new", "lock", "send", "wait", "done"}]
            /\ conn \in [Requests -> Conns \union {NoConn}]
            /\ wire \in [Conns -> SUBSET Requests] /\ executed \in SUBSET Requests
    BY DEF CommandInv, TypeOK
  <1>quiet. ASSUME UNCHANGED <<pc, conn, wire, executed>>
            PROVE  WireInv'
    BY <1>quiet
  <1>leaves. ASSUME NEW r \in Requests, pc' = [pc EXCEPT ![r] = "done"],
                    UNCHANGED <<conn, wire, executed>>
             PROVE  WireInv'
    BY <1>leaves, <1>typed
  <1>1. ASSUME NEW c \in Conns,
               Connect(c) \/ PeerLeaves(c) \/ ResolveResponse(c) \/ ReceiveEnds(c)
        PROVE  WireInv'
    BY <1>1, <1>quiet DEF Connect, PeerLeaves, ResolveResponse, ReceiveEnds, callVars
  <1>2. ASSUME NEW c \in Conns, NEW r \in Requests, Execute(c, r)
        PROVE  WireInv'
    BY <1>2 DEF Execute, callVars
  <1>3. ASSUME NEW c \in Conns, NEW r \in Requests, Reply(c, r)
        PROVE  WireInv'
    BY <1>3, <1>typed DEF Reply, callVars
  <1>4. ASSUME NEW c \in Conns, NEW m \in Noise, SendNoise(c, m)
        PROVE  WireInv'
    BY <1>4, <1>quiet DEF SendNoise, callVars
  <1>5. ASSUME DisconnectClose \/ DisconnectUnregister
        PROVE  WireInv'
    BY <1>5, <1>quiet DEF DisconnectClose, DisconnectUnregister, callVars
  <1>6. ASSUME NEW r \in Requests, SubmitUnconnected(r) \/ CancelQueued(r)
        PROVE  WireInv'
    BY <1>6, <1>leaves DEF SubmitUnconnected, CancelQueued, socketVars
  <1>7. ASSUME NEW r \in Requests, SubmitAlone(r)
        PROVE  WireInv'
    BY <1>7, <1>typed DEF SubmitAlone, Begin
  <1>8. ASSUME NEW r \in Requests, SubmitQueued(r)
        PROVE  WireInv'
    BY <1>8, <1>typed DEF SubmitQueued, socketVars
  <1>9. ASSUME NEW r \in Requests, Acquire(r)
        PROVE  WireInv'
    BY <1>9, <1>typed DEF Acquire, Begin
  <1>10. ASSUME NEW r \in Requests, SendDone(r)
         PROVE  WireInv'
    <2>1. CASE expired[r]
      BY <1>10, <2>1, <1>leaves DEF SendDone, Leave, socketVars
    <2>2. CASE ~expired[r]
      BY <1>10, <2>2, <1>typed, SendDoneWaits
    <2> QED
      BY <2>1, <2>2
  <1>11. ASSUME NEW r \in Requests, NEW o, Leave(r, o)
         PROVE  WireInv'
    BY <1>11, <1>leaves DEF Leave, socketVars
  <1>12. ASSUME NEW r \in Requests, WakeStray(r) \/ Expire(r) \/ Cancel(r)
         PROVE  WireInv'
    BY <1>12, <1>quiet DEF WakeStray, Expire, Cancel, socketVars, callVars
  <1>13. CASE UNCHANGED vars
    BY <1>13, <1>quiet DEF vars, socketVars, callVars
  <1> QED
    BY <1>1, <1>2, <1>3, <1>4, <1>5, <1>6, <1>7, <1>8, <1>9, <1>10, <1>11, <1>12, <1>13
    DEF Next, Device, Command, Send, Wake, SendFails, SendCancelled, OnCancelled,
        WakeCancelled, WakeTimeout, WakeReply, WakeGarbled

\* The reply to r is there to be taken.
Kept(r) ==
  pending[conn[r]] = r \/ \E i \in 1..Len(inbox[conn[r]]) : inbox[conn[r]][i] = r

KeptFor(r) ==
  InService(r) /\ Replied(r) /\ InTime(r) /\ r \notin crowdedOut => Kept(r)

LEMMA EachKept == ReplyIsKept <=> \A r \in Requests : KeptFor(r)
  BY DEF ReplyIsKept, KeptFor, Kept

\* Two requests in service are on two connections.
LEMMA Apart ==
  ASSUME LockInv, NEW q \in Requests, NEW r \in Requests, q # r,
         InService(q), InService(r)
  PROVE  conn[q] # conn[r]
  BY DEF LockInv

\* A step that takes from r neither its reply nor its time.
LEMMA KeptUntouched ==
  ASSUME NEW r \in Requests, KeptFor(r),
         pc'[r] \in {"send", "wait"} => InService(r),
         conn'[r] = conn[r], inbox'[conn[r]] = inbox[conn[r]],
         InService(r) => pending'[conn[r]] = pending[conn[r]] \/ pending[conn[r]] # r,
         InService(r) => wire[conn[r]] \subseteq wire'[conn[r]],
         r \in executed' => r \in executed,
         registered' = registered, expired[r] => expired'[r], cancelled[r] => cancelled'[r],
         crowdedOut' = crowdedOut
  PROVE  KeptFor(r)'
  BY DEF KeptFor, Kept, InService, Replied, InTime

\* The add-in's reply and its other messages come behind what is already there.
LEMMA KeptBehind ==
  ASSUME NEW r \in Requests, NEW c \in Conns, NEW m \in Messages, TypeOK,
         conn[r] \in Conns, inbox' = [inbox EXCEPT ![c] = Append(@, m)],
         UNCHANGED <<conn, pending>>
  PROVE  /\ Kept(r) => Kept(r)'
         /\ conn[r] = c /\ m = r => Kept(r)'
  <1>1. inbox[c] \in Seq(Messages)
    BY DEF TypeOK
  <1>2. /\ Len(inbox'[c]) = Len(inbox[c]) + 1 /\ Len(inbox[c]) \in Nat
        /\ inbox'[c][Len(inbox[c]) + 1] = m
        /\ \A i \in 1..Len(inbox[c]) : inbox'[c][i] = inbox[c][i]
    BY <1>1, AppendProperties, LenProperties DEF TypeOK
  <1>3. \A k \in Conns : k # c => inbox'[k] = inbox[k]
    BY DEF TypeOK
  <1>4. ASSUME Kept(r)
        PROVE  Kept(r)'
    <2>1. CASE pending[conn[r]] = r
      BY <2>1 DEF Kept
    <2>2. CASE pending[conn[r]] # r
      <3>1. PICK i \in 1..Len(inbox[conn[r]]) : inbox[conn[r]][i] = r
        BY <1>4, <2>2 DEF Kept
      <3>2. i \in 1..Len(inbox'[conn[r]]) /\ inbox'[conn[r]][i] = r
        BY <3>1, <1>2, <1>3
      <3> QED
        BY <3>2 DEF Kept
    <2> QED
      BY <2>1, <2>2
  <1>5. ASSUME conn[r] = c, m = r
        PROVE  Kept(r)'
    <2>1. Len(inbox[c]) + 1 \in 1..Len(inbox'[c])
      BY <1>2
    <2> QED
      BY <1>2, <1>5, <2>1 DEF Kept
  <1> QED
    BY <1>4, <1>5

\* A message is read: the reply to the request in service finds the future it is for,
\* for the lock is held, nobody has cancelled it, and no message is in it.
LEMMA KeptWhenRead ==
  ASSUME CommandInv, NEW r \in Requests, KeptFor(r), NEW c \in Conns, ResolveResponse(c)
  PROVE  KeptFor(r)'
  <1>1. /\ UNCHANGED <<registered, wire, executed, pc, conn, expired, cancelled>>
        /\ inbox' = [inbox EXCEPT ![c] = Tail(@)]
        /\ crowdedOut \subseteq crowdedOut'
    BY DEF ResolveResponse, callVars
  <1> SUFFICES ASSUME InService(r), Replied(r), InTime(r), r \notin crowdedOut'
               PROVE  Kept(r)'
    BY <1>1 DEF KeptFor, InService, Replied, InTime
  <1>2. conn[r] \in Conns /\ conn[r] = registered /\ registered # NoConn
    BY CommandAssumption DEF CommandInv, LockInv, InService, InTime
  <1>3. Kept(r)
    BY <1>1 DEF KeptFor
  <1>4. pending \in [Conns -> FutureStates \union Messages] /\ inbox \in [Conns -> Seq(Messages)]
    BY DEF CommandInv, TypeOK
  <1>5. r # "waiting"
    BY MessageAssumption DEF Messages, FutureStates
  <1>6. CASE pending[conn[r]] = r
    <2>1. pending' = pending
      BY <1>2, <1>5, <1>6 DEF ResolveResponse, Awaited
    <2> QED
      BY <1>1, <1>6, <2>1 DEF Kept
  <1>7. CASE pending[conn[r]] # r
    <2>1. PICK i \in 1..Len(inbox[conn[r]]) : inbox[conn[r]][i] = r
      BY <1>3, <1>7 DEF Kept
    <2>2. CASE c # conn[r]
      BY <1>1, <1>2, <1>4, <2>1, <2>2 DEF Kept
    <2>3. CASE c = conn[r] /\ i # 1
      <3>1. inbox'[conn[r]] = Tail(inbox[c])
        BY <1>1, <1>2, <1>4, <2>3
      <3>2. i - 1 \in 1..Len(Tail(inbox[c])) /\ Tail(inbox[c])[i - 1] = inbox[c][i]
        BY <2>1, <2>3, Delivered DEF CommandInv
      <3> QED
        BY <1>1, <2>1, <2>3, <3>1, <3>2 DEF Kept
    <2>4. CASE c = conn[r] /\ i = 1
      <3>1. Head(inbox[c]) = r
        BY <2>1, <2>4, Delivered DEF CommandInv
      <3>2. pending[registered] \notin Messages
        BY <1>2, <3>1 DEF ResolveResponse, CrowdedOut
      <3>3. pending[registered] # "none"
        BY <1>2, CommandAssumption DEF CommandInv, LockInv, FutureInv
      <3>4. pending[registered] # "cancelled"
        BY <1>2 DEF CommandInv, CauseInv, InTime
      <3>5. Awaited
        BY <1>2, <1>4, <3>2, <3>3, <3>4 DEF Awaited, FutureStates
      <3>6. pending'[conn[r]] = r
        BY <1>2, <1>4, <3>1, <3>5 DEF ResolveResponse
      <3> QED
        BY <1>1, <3>6 DEF Kept
    <2> QED
      BY <2>2, <2>3, <2>4
  <1> QED
    BY <1>6, <1>7

\* The end of another request does not touch the future of this one.
LEMMA KeptWhenLeft ==
  ASSUME CommandInv, NEW r \in Requests, KeptFor(r),
         NEW q \in Requests, NEW o, InService(q), Leave(q, o)
  PROVE  KeptFor(r)'
  <1>1. /\ pc' = [pc EXCEPT ![q] = "done"] /\ pending' = [pending EXCEPT ![conn[q]] = "none"]
        /\ UNCHANGED <<inbox, wire, executed, registered, crowdedOut, conn, expired, cancelled>>
    BY DEF Leave, socketVars
  <1>2. pc \in [Requests -> {"new", "lock", "send", "wait", "done"}]
    BY DEF CommandInv, TypeOK
  <1>3. CASE r = q
    BY <1>1, <1>2, <1>3 DEF KeptFor, InService
  <1>4. CASE r # q
    <2>1. InService(r) => pending'[conn[r]] = pending[conn[r]]
      BY <1>1, <1>4, Apart DEF CommandInv, TypeOK
    <2>2. pc'[r] = pc[r]
      BY <1>1, <1>2, <1>4
    <2> QED
      BY <1>1, <2>1, <2>2, KeptUntouched DEF InService
  <1> QED
    BY <1>3, <1>4

\* A request begins on a connection where no other is in service, and has not been run.
LEMMA KeptWhenBegun ==
  ASSUME CommandInv, WireInv, NEW r \in Requests, KeptFor(r),
         NEW q \in Requests, NEW c \in Conns, pc[q] \in {"new", "lock"}, LockFree(c),
         Begin(q, c), \A p \in Requests : p # q => conn'[p] = conn[p],
         UNCHANGED <<inbox, executed, registered, crowdedOut, expired, cancelled>>
  PROVE  KeptFor(r)'
  <1>1. CASE r = q
    <2>1. q \notin executed'
      BY DEF WireInv
    <2> QED
      BY <1>1, <2>1 DEF KeptFor, Replied
  <1>2. CASE r # q
    <2>1. InService(r) => conn[r] \in Conns /\ conn[r] # c
      BY CommandAssumption DEF CommandInv, LockInv, LockFree, InService
    <2>2. pc'[r] = pc[r]
      BY <1>2 DEF Begin, CommandInv, TypeOK
    <2>3. InService(r) => pending'[conn[r]] = pending[conn[r]] /\ wire'[conn[r]] = wire[conn[r]]
      BY <2>1 DEF Begin, CommandInv, TypeOK
    <2>4. conn'[r] = conn[r]
      BY <1>2
    <2> QED
      BY <2>2, <2>3, <2>4, KeptUntouched DEF InService
  <1> QED
    BY <1>1, <1>2

LEMMA KeptStep == CommandInv /\ WireInv /\ ReplyIsKept /\ [Next]_vars => ReplyIsKept'
  <1> SUFFICES ASSUME CommandInv, WireInv, ReplyIsKept, [Next]_vars, NEW r \in Requests
               PROVE  KeptFor(r)'
    BY DEF ReplyIsKept, KeptFor, Kept
  <1>kept. KeptFor(r)
    BY EachKept
  <1>typed. /\ pc \in [Requests -> {"new", "lock", "send", "wait", "done"}]
            /\ pending \in [Conns -> FutureStates \union Messages]
            /\ InService(r) => conn[r] \in Conns
    BY DEF CommandInv, TypeOK, LockInv, InService
  <1>word. r # "waiting"
    BY MessageAssumption DEF Messages, FutureStates
  <1>quiet. ASSUME pc'[r] = pc[r] \/ pc'[r] \in {"lock", "done"},
                   UNCHANGED <<conn, inbox, wire, executed, registered, pending,
                               crowdedOut, expired, cancelled>>
            PROVE  KeptFor(r)'
    BY <1>quiet, <1>kept, KeptUntouched DEF InService
  <1>1. ASSUME NEW c \in Conns, Connect(c)
        PROVE  KeptFor(r)'
    <2>1. InService(r) => conn[r] # c
      BY <1>1, CommandAssumption DEF Connect, CommandInv, UsedInv, LockInv, InService
    <2>2. pc' = pc /\ conn' = conn /\ registered' = c
      BY <1>1 DEF Connect, callVars
    <2> QED
      BY <2>1, <2>2 DEF KeptFor, InService, InTime
  <1>2. ASSUME NEW c \in Conns, PeerLeaves(c)
        PROVE  KeptFor(r)'
    BY <1>2, <1>quiet DEF PeerLeaves, callVars
  <1>3. ASSUME NEW c \in Conns, ResolveResponse(c)
        PROVE  KeptFor(r)'
    BY <1>3, <1>kept, KeptWhenRead
  <1>4. ASSUME NEW c \in Conns, ReceiveEnds(c)
        PROVE  KeptFor(r)'
    <2>1. pc' = pc /\ conn' = conn /\ registered' = NoConn
      BY <1>4 DEF ReceiveEnds, Unregister, callVars
    <2> QED
      BY <1>typed, <2>1, CommandAssumption DEF KeptFor, InService, InTime
  <1>5. ASSUME NEW c \in Conns, NEW q \in Requests, Execute(c, q)
        PROVE  KeptFor(r)'
    <2>1. /\ executed' = executed \union {q}
          /\ UNCHANGED <<pc, conn, inbox, wire, registered, pending, crowdedOut,
                         expired, cancelled>>
      BY <1>5 DEF Execute, callVars
    <2>2. CASE r = q
      <3>1. r \in wire'[conn'[r]]
        BY <1>5, <2>1, <2>2 DEF Execute, WireInv
      <3> QED
        BY <3>1 DEF KeptFor, Replied
    <2>3. CASE r # q
      BY <1>kept, <2>1, <2>3, KeptUntouched DEF InService
    <2> QED
      BY <2>2, <2>3
  <1>6. ASSUME NEW c \in Conns, NEW q \in Requests, Reply(c, q)
        PROVE  KeptFor(r)'
    <2>1. /\ inbox' = [inbox EXCEPT ![c] = Append(@, q)] /\ wire' = [wire EXCEPT ![c] = @ \ {q}]
          /\ UNCHANGED <<pc, conn, executed, registered, pending, crowdedOut, expired, cancelled>>
          /\ q \in wire[c]
      BY <1>6 DEF Reply, callVars
    <2> SUFFICES ASSUME InService(r), Replied(r)', InTime(r), r \notin crowdedOut
                 PROVE  Kept(r)'
      BY <2>1 DEF KeptFor, InService, InTime
    <2>2. q \in Messages
      BY DEF Messages
    <2>3. CASE r = q
      <3>1. conn[r] = c
        BY <2>1, <2>3 DEF WireInv
      <3> QED
        BY <1>typed, <2>1, <2>2, <2>3, <3>1, KeptBehind DEF CommandInv
    <2>4. CASE r # q
      <3>1. Replied(r)
        BY <1>typed, <2>1, <2>4 DEF Replied, CommandInv, TypeOK
      <3> QED
        BY <1>kept, <1>typed, <2>1, <2>2, <3>1, KeptBehind DEF CommandInv, KeptFor
    <2> QED
      BY <2>3, <2>4
  <1>7. ASSUME NEW c \in Conns, NEW m \in Noise, SendNoise(c, m)
        PROVE  KeptFor(r)'
    <2>1. /\ inbox' = [inbox EXCEPT ![c] = Append(@, m)]
          /\ UNCHANGED <<pc, conn, wire, executed, registered, pending, crowdedOut,
                         expired, cancelled>>
      BY <1>7 DEF SendNoise, callVars
    <2>2. m \in Messages
      BY DEF Messages
    <2>3. InService(r) => (Kept(r) => Kept(r)')
      BY <1>typed, <2>1, <2>2, KeptBehind DEF CommandInv
    <2> QED
      BY <1>kept, <2>1, <2>3 DEF KeptFor, InService, Replied, InTime
  <1>8. ASSUME DisconnectClose
        PROVE  KeptFor(r)'
    BY <1>8, <1>quiet DEF DisconnectClose, callVars
  <1>9. ASSUME DisconnectUnregister
        PROVE  KeptFor(r)'
    <2>1. pc' = pc /\ conn' = conn /\ registered' = NoConn
      BY <1>9 DEF DisconnectUnregister, Unregister, callVars
    <2> QED
      BY <1>typed, <2>1, CommandAssumption DEF KeptFor, InService, InTime
  <1>10. ASSUME NEW q \in Requests, SubmitUnconnected(q)
         PROVE  KeptFor(r)'
    <2>1. pc'[r] = pc[r] \/ pc'[r] = "done"
      BY <1>10, <1>typed DEF SubmitUnconnected
    <2> QED
      BY <1>10, <2>1, <1>quiet DEF SubmitUnconnected, socketVars
  <1>11. ASSUME NEW q \in Requests, SubmitAlone(q)
         PROVE  KeptFor(r)'
    <2>1. registered \in Conns /\ \A p \in Requests : p # q => conn'[p] = conn[p]
      BY <1>11 DEF SubmitAlone, CommandInv, TypeOK
    <2> QED
      BY <1>11, <1>kept, <2>1, KeptWhenBegun DEF SubmitAlone
  <1>12. ASSUME NEW q \in Requests, SubmitQueued(q)
         PROVE  KeptFor(r)'
    <2>1. CASE r = q
      BY <1>12, <1>typed, <2>1 DEF SubmitQueued, KeptFor, InService
    <2>2. CASE r # q
      <3>1. pc'[r] = pc[r] /\ conn'[r] = conn[r]
        BY <1>12, <2>2 DEF SubmitQueued, CommandInv, TypeOK
      <3>2. UNCHANGED <<inbox, wire, executed, registered, pending, crowdedOut, expired, cancelled>>
        BY <1>12 DEF SubmitQueued, socketVars
      <3> QED
        BY <1>kept, <3>1, <3>2, KeptUntouched DEF InService
    <2> QED
      BY <2>1, <2>2
  <1>13. ASSUME NEW q \in Requests, Acquire(q)
         PROVE  KeptFor(r)'
    <2>1. conn[q] \in Conns
      BY <1>13 DEF Acquire, CommandInv, LockInv
    <2> QED
      BY <1>13, <1>kept, <2>1, KeptWhenBegun DEF Acquire
  <1>14. ASSUME NEW q \in Requests, SendDone(q)
         PROVE  KeptFor(r)'
    <2>1. CASE expired[q]
      BY <1>14, <1>kept, <2>1, KeptWhenLeft DEF SendDone, InService
    <2>2. CASE ~expired[q]
      <3>1. (pc[q] = "send" /\ pc'[r] = pc[r]) \/ r = q
        BY <1>14, <1>typed, <2>2, SendDoneWaits
      <3>2. pc'[r] \in {"send", "wait"} => InService(r)
        BY <1>14, <2>2, <3>1, SendDoneWaits DEF InService
      <3> QED
        BY <1>14, <1>kept, <2>2, <3>2, SendDoneWaits, KeptUntouched
    <2> QED
      BY <2>1, <2>2
  <1>15. ASSUME NEW q \in Requests, SendFails(q) \/ SendCancelled(q)
         PROVE  KeptFor(r)'
    BY <1>15, <1>kept, KeptWhenLeft DEF SendFails, SendCancelled, OnCancelled, InService
  <1>16. ASSUME NEW q \in Requests,
                WakeCancelled(q) \/ WakeTimeout(q) \/ WakeReply(q) \/ WakeGarbled(q)
         PROVE  KeptFor(r)'
    BY <1>16, <1>kept, KeptWhenLeft
    DEF WakeCancelled, WakeTimeout, WakeReply, WakeGarbled, OnCancelled, GotMessage, Woken,
        InService
  <1>17. ASSUME NEW q \in Requests, WakeStray(q)
         PROVE  KeptFor(r)'
    <2>1. /\ InService(q) /\ pending[conn[q]] # q
          /\ pending' = [pending EXCEPT ![conn[q]] = "waiting"]
          /\ UNCHANGED <<pc, conn, inbox, wire, executed, registered, crowdedOut,
                         expired, cancelled>>
      BY <1>17 DEF WakeStray, GotMessage, Woken, InService, socketVars, callVars
    <2>2. InService(r) => pending'[conn[r]] = pending[conn[r]] \/ pending[conn[r]] # r
      BY <1>typed, <2>1, Apart DEF CommandInv
    <2> QED
      BY <1>kept, <2>1, <2>2, KeptUntouched DEF InService
  <1>18. ASSUME NEW q \in Requests, Expire(q) \/ Cancel(q)
         PROVE  KeptFor(r)'
    <2>1. UNCHANGED <<pc, conn, inbox, wire, executed, registered, crowdedOut>>
      BY <1>18 DEF Expire, Cancel, socketVars
    <2>2. InService(r) => pending'[conn[r]] = pending[conn[r]] \/ pending[conn[r]] # r
      BY <1>18, <1>typed, <1>word DEF Expire, Cancel, CancelAwaited
    <2>3. (expired[r] => expired'[r]) /\ (cancelled[r] => cancelled'[r])
      BY <1>18 DEF Expire, Cancel, CommandInv, TypeOK
    <2> QED
      BY <1>kept, <2>1, <2>2, <2>3, KeptUntouched DEF InService
  <1>19. ASSUME NEW q \in Requests, CancelQueued(q)
         PROVE  KeptFor(r)'
    <2>1. pc'[r] = pc[r] \/ pc'[r] = "done"
      BY <1>19, <1>typed DEF CancelQueued
    <2>2. cancelled[r] => cancelled'[r]
      BY <1>19 DEF CancelQueued, CommandInv, TypeOK
    <2>3. UNCHANGED <<conn, inbox, wire, executed, registered, pending, crowdedOut, expired>>
      BY <1>19 DEF CancelQueued, socketVars
    <2> QED
      BY <1>kept, <2>1, <2>2, <2>3, KeptUntouched DEF InService
  <1>20. CASE UNCHANGED vars
    BY <1>20, <1>quiet DEF vars, socketVars, callVars
  <1> QED
    BY <1>1, <1>2, <1>3, <1>4, <1>5, <1>6, <1>7, <1>8, <1>9, <1>10, <1>11, <1>12, <1>13,
       <1>14, <1>15, <1>16, <1>17, <1>18, <1>19, <1>20
    DEF Next, Device, Command, Send, Wake

-----------------------------------------------------------------------------
(* The theorems *)

\* The relay's state keeps its types.
THEOREM TypeCorrect == Spec => []TypeOK
  BY Invariance, PTL DEF CommandInv

\* Of all the requests on a connection only the one that holds its lock is
\* between its send and its outcome.
THEOREM OneRequestAtATime == Spec => []OneInService
  BY Invariance, PTL DEF CommandInv, LockInv, OneInService

\* A connection has a future exactly while a request is in service on it, so a
\* late message is never kept for the next request.
THEOREM FutureBelongsToService == Spec => []FutureHasOwner
  <1>1. CommandInv => FutureHasOwner
    <2> SUFFICES ASSUME CommandInv, NEW c \in Conns
                 PROVE  pending[c] = "none"
                          <=> ~\E r \in Requests : InService(r) /\ conn[r] = c
      BY DEF FutureHasOwner
    <2>1. pending[c] = "none" <=> holder[c] = NoRequest
      BY DEF CommandInv, FutureInv
    <2>2. holder[c] \in Requests \union {NoRequest}
      BY DEF CommandInv, TypeOK
    <2>3. holder[c] # NoRequest => InService(holder[c]) /\ conn[holder[c]] = c
      BY DEF CommandInv, LockInv
    <2>4. \A r \in Requests : InService(r) /\ conn[r] = c => holder[c] = r
      BY DEF CommandInv, LockInv
    <2> QED
      BY <2>1, <2>2, <2>3, <2>4, CommandAssumption
  <1> QED
    BY <1>1, Invariance, PTL

\* The reply to the request in service is not lost while its deadline, its caller and
\* its connection hold, unless it came right behind another message.
THEOREM RepliesAreKept == Spec => []ReplyIsKept
  <1>1. Init => WireInv /\ ReplyIsKept
    BY DEF Init, WireInv, ReplyIsKept, Replied
  <1> QED
    BY <1>1, WireStep, KeptStep, Invariance, PTL DEF Spec

\* A request nobody cancels raises ConnectionError only for want of a
\* connection.
THEOREM ConnErrorsHaveCause == Spec => []ConnErrorHasCause
  BY Invariance, PTL DEF CommandInv

\* send_command implements the abstract service, for every number of requests,
\* connections and messages.
THEOREM RelayImplementsService == Spec => ImplementsService
  BY ServiceInit, ServiceStep, Invariance, PTL
  DEF Spec, ImplementsService, Service!Spec

\* request_count is the number of requests answered on the connection.
THEOREM CounterCounts == Spec => []CountMatches
  <1>1. Init => CountMatches
    <2> SUFFICES ASSUME Init, NEW c \in Conns
                 PROVE  requestCount[c] = Cardinality(Answered(c))
      BY DEF CountMatches, Answered
    <2>1. Answered(c) = {}
      BY DEF Init, Answered
    <2> QED
      BY <2>1, FS_EmptySet DEF Init
  <1> QED
    BY <1>1, CountStep, Invariance, PTL DEF Spec

=============================================================================
