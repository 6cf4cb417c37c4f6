-------------------------- MODULE PairingFlowProofs --------------------------
(***************************************************************************)
(* The safety properties of PairingFlow, for every number of devices, of   *)
(* polls and of requests under way.                                        *)
(***************************************************************************)
EXTENDS PairingFlow, TLAPS

Dead == {"revoked", "purged"}

\* A refusal is true of the host when it is read, however late that is: the host
\* takes no device back.
RefusalsAreTrue ==
  /\ \A d \in Devices :
       revokes[d] # None /\ revokes[d].answer \in {"done", "403", "404"} => host[d] \in Dead
  /\ \A d \in Devices : checks[d] \in {"403", "404"} => host[d] \in Dead

\* The inductive invariant.
PairingInv ==
  /\ TypeOK
  /\ SelectedIsRemembered
  /\ KeyIsKept
  /\ ForgottenIsDead
  /\ RefusalsAreTrue

-----------------------------------------------------------------------------

LEMMA InitInv == Init => PairingInv
  <1> SUFFICES ASSUME Init
               PROVE  PairingInv
    OBVIOUS
  <1>1. TypeOK
    <2>1. host \in [Devices -> HostStates]
      BY DEF Init, HostStates
    <2>2. expired \subseteq Devices /\ devices \subseteq Devices /\ forgotten \subseteq Devices
      BY DEF Init
    <2>3. pairs \in 0..MaxPairs
      BY AsksIsNat DEF Init
    <2>4. polls \in [Devices -> Pollers \union {None}]
      BY DEF Init
    <2> QED
      BY <2>1, <2>2, <2>3, <2>4 DEF Init, TypeOK
  <1>2. RefusalsAreTrue
    BY NoneIsNoAnswer DEF Init, RefusalsAreTrue, Answers
  <1> QED
    BY <1>1, <1>2 DEF Init, PairingInv, SelectedIsRemembered, KeyIsKept, ForgottenIsDead

LEMMA StatusIsAnswer == \A d \in Devices : StatusAnswers(d) \subseteq Answers
  BY DEF StatusAnswers, Answers

LEMMA TypeStep == TypeOK /\ [Next]_vars => TypeOK'
  <1> SUFFICES ASSUME TypeOK, [Next]_vars
               PROVE  TypeOK'
    OBVIOUS
  <1> USE AsksIsNat DEF TypeOK, stored, screen
  <1>1. ASSUME NEW d \in Devices, CodeExpires(d)
        PROVE  TypeOK'
    BY <1>1 DEF CodeExpires
  <1>2. ASSUME NEW d \in Devices, Purge(d)
        PROVE  TypeOK'
    BY <1>2 DEF Purge, HostStates
  <1>3. ASSUME NEW d \in Devices, Redeem(d)
        PROVE  TypeOK'
    BY <1>3 DEF Redeem, HostStates
  <1>4. ASSUME NEW d \in Devices, Select(d)
        PROVE  TypeOK'
    BY <1>4 DEF Select, Selectable
  <1>5. ASSUME NEW d \in Devices, PairIssued(d)
        PROVE  TypeOK'
    BY <1>5 DEF PairIssued, Remembered, HostStates, Pollers
  <1>6. ASSUME NEW d \in Devices, PollWakes(d)
        PROVE  TypeOK'
    BY <1>6 DEF PollWakes, Pollers
  <1>7. ASSUME NEW d \in Devices, PollServed(d)
        PROVE  TypeOK'
    <2>1. PICK a \in StatusAnswers(d) : polls' = [polls EXCEPT ![d].answer = a]
      BY <1>7 DEF PollServed
    <2>2. polls[d] \in Pollers /\ a \in Answers
      BY <1>7, StatusIsAnswer DEF PollServed
    <2> QED
      BY <1>7, <2>1, <2>2 DEF PollServed, Pollers
  <1>8. ASSUME NEW d \in Devices, PollOnline(d)
        PROVE  TypeOK'
    BY <1>8 DEF PollOnline, Selectable, PollEnds
  <1>9. ASSUME NEW d \in Devices, PollRefused(d)
        PROVE  TypeOK'
    BY <1>9 DEF PollRefused, PollEnds
  <1>10. ASSUME NEW d \in Devices, PollExpired(d)
        PROVE  TypeOK'
    BY <1>10 DEF PollExpired, SaysExpired, PollEnds
  <1>11. ASSUME NEW d \in Devices, PollUnanswered(d)
        PROVE  TypeOK'
    <2>1. CASE TimeIsUp(d) /\ PollEnds(d, pairing, FALSE)
      BY <1>11, <2>1 DEF PollUnanswered, PollEnds
    <2>2. CASE ~TimeIsUp(d) /\ PollAgain(d)
      <3>1. polls[d].asks \in 0..MaxAsks /\ polls[d].asks # MaxAsks
        BY <1>11, <2>2 DEF PollUnanswered, TimeIsUp, Pollers
      <3>2. polls[d].asks + 1 \in 0..MaxAsks
        BY <3>1
      <3>3. [asks |-> polls[d].asks + 1, answer |-> None] \in Pollers
        BY <3>2 DEF Pollers
      <3> QED
        BY <1>11, <2>2, <3>3 DEF PollUnanswered, PollAgain
    <2> QED
      BY <1>11, <2>1, <2>2 DEF PollUnanswered
  <1>12. ASSUME NEW d \in Devices, RevokeServed(d)
        PROVE  TypeOK'
    BY <1>12 DEF RevokeServed, RevokeAnswers, HostStates, Revocations
  <1>13. ASSUME NEW d \in Devices, RevokeReturns(d)
        PROVE  TypeOK'
    BY <1>13 DEF RevokeReturns, Forgets, Forget
  <1>14. ASSUME NEW d \in Devices, CheckServed(d)
        PROVE  TypeOK'
    BY <1>14, StatusIsAnswer DEF CheckServed
  <1>15. ASSUME NEW d \in Devices, CheckReturns(d)
        PROVE  TypeOK'
    BY <1>15 DEF CheckReturns, Forget
  <1>16. ASSUME NEW d \in Devices, NEW by \in {"key", "admin"}, Revoke(d, by)
        PROVE  TypeOK'
    BY <1>16 DEF Revoke, Revocations
  <1>24. ASSUME NEW d \in Devices, RevokedElsewhere(d)
        PROVE  TypeOK'
    BY <1>24 DEF RevokedElsewhere, HostStates
  <1>17. CASE Pair
    BY <1>17 DEF Pair
  <1>18. CASE PairFails
    BY <1>18 DEF PairFails
  <1>19. CASE Cancel
    BY <1>19 DEF Cancel
  <1>20. CASE Refresh
    BY <1>20 DEF Refresh
  <1>21. CASE Reload
    <2>1. pairs' \in 0..MaxPairs
      BY <1>21 DEF Reload
    <2> QED
      BY <1>21, <2>1 DEF Reload
  <1>22. CASE Select(None)
    BY <1>22 DEF Select, Selectable
  <1>23. CASE UNCHANGED vars
    BY <1>23 DEF vars
  <1> QED
    BY <1>1, <1>2, <1>3, <1>4, <1>5, <1>6, <1>7, <1>8, <1>9, <1>10, <1>11, <1>12, <1>13, <1>14, <1>15, <1>16, <1>17, <1>18, <1>19, <1>20, <1>21, <1>22, <1>23, <1>24 DEF Next, Device, Poll

LEMMA InvStep == PairingInv /\ [Next]_vars => PairingInv'
  <1> SUFFICES ASSUME PairingInv, [Next]_vars
               PROVE  PairingInv'
    OBVIOUS
  <1> USE NoneIsNoAnswer DEF PairingInv, TypeOK, SelectedIsRemembered, KeyIsKept, ForgottenIsDead, RefusalsAreTrue, Dead, HostStates, Answers, Revocations, stored, screen
  <1>t. TypeOK'
    BY TypeStep
  <1>1. ASSUME NEW d \in Devices, CodeExpires(d)
        PROVE  PairingInv'
    BY <1>1, <1>t DEF CodeExpires
  <1>2. ASSUME NEW d \in Devices, Purge(d)
        PROVE  PairingInv'
    BY <1>2, <1>t DEF Purge
  <1>3. ASSUME NEW d \in Devices, Redeem(d)
        PROVE  PairingInv'
    BY <1>3, <1>t DEF Redeem
  <1>4. ASSUME NEW d \in Devices, Select(d)
        PROVE  PairingInv'
    BY <1>4, <1>t DEF Select, Selectable
  <1>5. ASSUME NEW d \in Devices, PairIssued(d)
        PROVE  PairingInv'
    BY <1>5, <1>t DEF PairIssued, Remembered
  <1>6. ASSUME NEW d \in Devices, PollWakes(d)
        PROVE  PairingInv'
    BY <1>6, <1>t DEF PollWakes
  <1>7. ASSUME NEW d \in Devices, PollServed(d)
        PROVE  PairingInv'
    BY <1>7, <1>t DEF PollServed, StatusAnswers
  <1>8. ASSUME NEW d \in Devices, PollOnline(d)
        PROVE  PairingInv'
    BY <1>8, <1>t DEF PollOnline, Selectable, PollEnds
  <1>9. ASSUME NEW d \in Devices, PollRefused(d)
        PROVE  PairingInv'
    BY <1>9, <1>t DEF PollRefused, PollEnds
  <1>10. ASSUME NEW d \in Devices, PollExpired(d)
        PROVE  PairingInv'
    BY <1>10, <1>t DEF PollExpired, SaysExpired, PollEnds
  <1>11. ASSUME NEW d \in Devices, PollUnanswered(d)
        PROVE  PairingInv'
    BY <1>11, <1>t DEF PollUnanswered, TimeIsUp, PollEnds, PollAgain
  <1>12. ASSUME NEW d \in Devices, RevokeServed(d)
        PROVE  PairingInv'
    <2>1. PICK a \in RevokeAnswers(d, revokes[d].by) \union {"down"} :
             /\ revokes' = [revokes EXCEPT ![d].answer = a]
             /\ host' = IF a = "done" THEN [host EXCEPT ![d] = "revoked"] ELSE host
      BY <1>12 DEF RevokeServed
    <2>2. a \in {"403", "404"} => host[d] \in Dead
      BY <2>1 DEF RevokeAnswers
    <2>3. \A e \in Devices : host[e] \in Dead => host'[e] \in Dead
      BY <2>1
    <2>4. \A e \in Devices : revokes'[e] # None /\ revokes'[e].answer \in {"done", "403", "404"} => host'[e] \in Dead
      <3> TAKE e \in Devices
      <3>1. CASE e = d
        BY <2>1, <2>2, <3>1
      <3>2. CASE e # d
        BY <2>1, <2>3, <3>2
      <3> QED
        BY <3>1, <3>2
    <2>5. \A e \in Devices : host'[e] # "unused" => host[e] # "unused"
      BY <1>12, <2>1 DEF RevokeServed, RevokeAnswers
    <2> QED
      BY <1>12, <1>t, <2>3, <2>4, <2>5 DEF RevokeServed
  <1>13. ASSUME NEW d \in Devices, RevokeReturns(d)
        PROVE  PairingInv'
    BY <1>13, <1>t DEF RevokeReturns, Forgets, Forget
  <1>14. ASSUME NEW d \in Devices, CheckServed(d)
        PROVE  PairingInv'
    BY <1>14, <1>t DEF CheckServed, StatusAnswers
  <1>15. ASSUME NEW d \in Devices, CheckReturns(d)
        PROVE  PairingInv'
    BY <1>15, <1>t DEF CheckReturns, Forget
  <1>16. ASSUME NEW d \in Devices, NEW by \in {"key", "admin"}, Revoke(d, by)
        PROVE  PairingInv'
    BY <1>16, <1>t DEF Revoke, Asked
  <1>24. ASSUME NEW d \in Devices, RevokedElsewhere(d)
        PROVE  PairingInv'
    BY <1>24, <1>t DEF RevokedElsewhere
  <1>17. CASE Pair
    BY <1>17, <1>t DEF Pair
  <1>18. CASE PairFails
    BY <1>18, <1>t DEF PairFails
  <1>19. CASE Cancel
    BY <1>19, <1>t DEF Cancel
  <1>20. CASE Refresh
    BY <1>20, <1>t DEF Refresh, Asked
  <1>21. CASE Reload
    BY <1>21, <1>t DEF Reload
  <1>22. CASE Select(None)
    BY <1>22, <1>t DEF Select, Selectable
  <1>23. CASE UNCHANGED vars
    BY <1>23, <1>t DEF vars
  <1> QED
    BY <1>1, <1>2, <1>3, <1>4, <1>5, <1>6, <1>7, <1>8, <1>9, <1>10, <1>11, <1>12, <1>13, <1>14, <1>15, <1>16, <1>17, <1>18, <1>19, <1>20, <1>21, <1>22, <1>23, <1>24 DEF Next, Device, Poll

LEMMA Invariance == Spec => []PairingInv
  BY InitInv, InvStep, PTL DEF Spec

\* The variables keep their types: a poll count never passes its limit.
THEOREM TypeCorrect == Spec => []TypeOK
  BY Invariance, PTL DEF PairingInv

\* The device in use is one the browser holds a key for (selectDevice, forgetDevice).
THEOREM SelectedDeviceIsRemembered == Spec => []SelectedIsRemembered
  BY Invariance, PTL DEF PairingInv

\* An issued key is kept until its device is forgotten (pair, revoke, refresh).
THEOREM IssuedKeysAreKept == Spec => []KeyIsKept
  BY Invariance, PTL DEF PairingInv

\* Only devices the host is done with are forgotten (revoke, adminRevoke, refresh).
THEOREM ForgottenDevicesAreDead == Spec => []ForgottenIsDead
  BY Invariance, PTL DEF PairingInv

=============================================================================
