-------------------------- MODULE DeviceInUseProofs --------------------------
(***************************************************************************)
(* The properties of DeviceInUse, for every set of devices, records and    *)
(* filters, and any number of requests under way.                          *)
(***************************************************************************)
EXTENDS DeviceInUse, TLAPS

-----------------------------------------------------------------------------
(* Types.                                                                    *)

FlagsOK ==
  /\ loading \in BOOLEAN /\ moved \in BOOLEAN /\ crossed \in BOOLEAN
  /\ loading => loads # {}

DataOK ==
  /\ active \in Pages
  /\ device \in devices \union {Local} /\ devices \subseteq Devices
  /\ ledger \subseteq Ids
  /\ records \in [of : Asked \union {None}, ids : SUBSET Ids]
  /\ tool \in Filters
  /\ revalidations \in [Ids -> [status : {"none", "running", "done", "failed"}, on : Scopes \union {None}]]
  /\ loads \subseteq Asked
  /\ snapshot \in Scopes \union {None} /\ snapping \in Scopes \union {None}
  /\ check \in [stage : {"none", "capacity", "health", "snapshot"}, on : Scopes \union {None}]
  /\ status \in Scopes \union {None} /\ units \in Scopes \union {None}
  /\ confirming \in Scopes \union {None} /\ confirmation \in Scopes \union {None}
  /\ running \in [on : Scopes, scope : Scopes] \union {None}

LEMMA TypeParts == TypeOK <=> FlagsOK /\ DataOK
  BY DEF TypeOK, FlagsOK, DataOK

LEMMA InitType == Init => TypeOK
  <1> SUFFICES ASSUME Init
               PROVE  FlagsOK /\ DataOK
    BY TypeParts
  <1>1. FlagsOK
    BY DEF Init, FlagsOK
  <1>2. DataOK
    BY RecordsAreOwned DEF Init, DataOK, Pages, Scopes, Asked, NoCheck
  <1> QED
    BY <1>1, <1>2

LEMMA FlagsStep == TypeOK /\ [Next]_vars => FlagsOK'
  <1> SUFFICES ASSUME FlagsOK, [Next]_vars
               PROVE  FlagsOK'
    BY TypeParts
  <1> USE DEF FlagsOK, evidence
  <1>1. ASSUME NEW d \in Scopes, Select(d)
        PROVE  FlagsOK'
    BY <1>1 DEF Select, SelectDevice
  <1>2. ASSUME NEW d \in Devices, Remember(d)
        PROVE  FlagsOK'
    BY <1>2 DEF Remember
  <1>3. ASSUME NEW d \in Devices, Paired(d)
        PROVE  FlagsOK'
    BY <1>3 DEF Paired, SelectDevice
  <1>4. ASSUME NEW d \in Devices, Forget(d)
        PROVE  FlagsOK'
    BY <1>4 DEF Forget
  <1>5. ASSUME Reload
        PROVE  FlagsOK'
    BY <1>5 DEF Reload, Load
  <1>6. ASSUME NEW t \in Filters, SetFilter(t)
        PROVE  FlagsOK'
    BY <1>6 DEF SetFilter
  <1>7. ASSUME NEW l \in loads, Loaded(l)
        PROVE  FlagsOK'
    BY <1>7 DEF Loaded, Recent
  <1>8. ASSUME NEW l \in loads, LoadFailed(l)
        PROVE  FlagsOK'
    BY <1>8 DEF LoadFailed
  <1>9. ASSUME NEW i \in Ids, Validate(i)
        PROVE  FlagsOK'
    BY <1>9 DEF Validate
  <1>10. ASSUME NEW i \in Ids, Validated(i)
        PROVE  FlagsOK'
    BY <1>10 DEF Validated, OfThisScope
  <1>11. ASSUME NEW i \in Ids, ValidationFailed(i)
        PROVE  FlagsOK'
    BY <1>11 DEF ValidationFailed
  <1>12. ASSUME Refresh
        PROVE  FlagsOK'
    BY <1>12 DEF Refresh
  <1>13. ASSUME Snapped
        PROVE  FlagsOK'
    BY <1>13 DEF Snapped
  <1>14. ASSUME SnapFailed
        PROVE  FlagsOK'
    BY <1>14 DEF SnapFailed
  <1>15. ASSUME Check
        PROVE  FlagsOK'
    BY <1>15 DEF Check
  <1>16. ASSUME CapacityReturns
        PROVE  FlagsOK'
    BY <1>16 DEF CapacityReturns
  <1>17. ASSUME HealthReturns
        PROVE  FlagsOK'
    BY <1>17 DEF HealthReturns, NoCheck
  <1>18. ASSUME HealthFails
        PROVE  FlagsOK'
    BY <1>18 DEF HealthFails, NoCheck
  <1>19. ASSUME UnitsReturn
        PROVE  FlagsOK'
    BY <1>19 DEF UnitsReturn, NoCheck
  <1>20. ASSUME Confirm
        PROVE  FlagsOK'
    BY <1>20 DEF Confirm
  <1>21. ASSUME Confirmed
        PROVE  FlagsOK'
    BY <1>21 DEF Confirmed
  <1>22. ASSUME ConfirmFails
        PROVE  FlagsOK'
    BY <1>22 DEF ConfirmFails
  <1>23. ASSUME Run
        PROVE  FlagsOK'
    BY <1>23 DEF Run
  <1>24. ASSUME NEW i \in Ids, Ran(i)
        PROVE  FlagsOK'
    BY <1>24 DEF Ran, Redeems
  <1>25. ASSUME RunRefused
        PROVE  FlagsOK'
    BY <1>25 DEF RunRefused
  <1>26. ASSUME NEW p \in Pages, GoTo(p)
        PROVE  FlagsOK'
    BY <1>26 DEF GoTo, NoCheck, OpenEvidence, Load
  <1>27. ASSUME UNCHANGED vars
        PROVE  FlagsOK'
    BY <1>27 DEF vars
  <1> QED
    BY <1>1, <1>2, <1>3, <1>4, <1>5, <1>6, <1>7, <1>8, <1>9, <1>10, <1>11, <1>12, <1>13, <1>14, <1>15, <1>16, <1>17, <1>18, <1>19, <1>20, <1>21, <1>22, <1>23, <1>24, <1>25, <1>26, <1>27 DEF Next, Designer, Answers, Pairing

LEMMA DataStep == TypeOK /\ [Next]_vars => DataOK'
  <1> SUFFICES ASSUME DataOK, [Next]_vars
               PROVE  DataOK'
    BY TypeParts
  <1> USE RecordsAreOwned DEF DataOK, Pages, Scopes, Asked, evidence, panel, connect, task
  <1>1. ASSUME NEW d \in Scopes, Select(d)
        PROVE  DataOK'
    BY <1>1 DEF Select, SelectDevice
  <1>2. ASSUME NEW d \in Devices, Remember(d)
        PROVE  DataOK'
    BY <1>2 DEF Remember
  <1>3. ASSUME NEW d \in Devices, Paired(d)
        PROVE  DataOK'
    BY <1>3 DEF Paired, SelectDevice
  <1>4. ASSUME NEW d \in Devices, Forget(d)
        PROVE  DataOK'
    BY <1>4 DEF Forget
  <1>5. ASSUME Reload
        PROVE  DataOK'
    BY <1>5 DEF Reload, Load
  <1>6. ASSUME NEW t \in Filters, SetFilter(t)
        PROVE  DataOK'
    BY <1>6 DEF SetFilter
  <1>7. ASSUME NEW l \in loads, Loaded(l)
        PROVE  DataOK'
    BY <1>7 DEF Loaded, Recent
  <1>8. ASSUME NEW l \in loads, LoadFailed(l)
        PROVE  DataOK'
    BY <1>8 DEF LoadFailed
  <1>9. ASSUME NEW i \in Ids, Validate(i)
        PROVE  DataOK'
    BY <1>9 DEF Validate
  <1>10. ASSUME NEW i \in Ids, Validated(i)
        PROVE  DataOK'
    BY <1>10 DEF Validated, OfThisScope
  <1>11. ASSUME NEW i \in Ids, ValidationFailed(i)
        PROVE  DataOK'
    BY <1>11 DEF ValidationFailed
  <1>12. ASSUME Refresh
        PROVE  DataOK'
    BY <1>12 DEF Refresh
  <1>13. ASSUME Snapped
        PROVE  DataOK'
    BY <1>13 DEF Snapped
  <1>14. ASSUME SnapFailed
        PROVE  DataOK'
    BY <1>14 DEF SnapFailed
  <1>15. ASSUME Check
        PROVE  DataOK'
    BY <1>15 DEF Check
  <1>16. ASSUME CapacityReturns
        PROVE  DataOK'
    BY <1>16 DEF CapacityReturns
  <1>17. ASSUME HealthReturns
        PROVE  DataOK'
    BY <1>17 DEF HealthReturns, NoCheck
  <1>18. ASSUME HealthFails
        PROVE  DataOK'
    BY <1>18 DEF HealthFails, NoCheck
  <1>19. ASSUME UnitsReturn
        PROVE  DataOK'
    BY <1>19 DEF UnitsReturn, NoCheck
  <1>20. ASSUME Confirm
        PROVE  DataOK'
    BY <1>20 DEF Confirm
  <1>21. ASSUME Confirmed
        PROVE  DataOK'
    BY <1>21 DEF Confirmed
  <1>22. ASSUME ConfirmFails
        PROVE  DataOK'
    BY <1>22 DEF ConfirmFails
  <1>23. ASSUME Run
        PROVE  DataOK'
    BY <1>23 DEF Run
  <1>24. ASSUME NEW i \in Ids, Ran(i)
        PROVE  DataOK'
    BY <1>24 DEF Ran, Redeems
  <1>25. ASSUME RunRefused
        PROVE  DataOK'
    BY <1>25 DEF RunRefused
  <1>26. ASSUME NEW p \in Pages, GoTo(p)
        PROVE  DataOK'
    BY <1>26 DEF GoTo, NoCheck, OpenEvidence, Load
  <1>27. ASSUME UNCHANGED vars
        PROVE  DataOK'
    BY <1>27 DEF vars
  <1> QED
    BY <1>1, <1>2, <1>3, <1>4, <1>5, <1>6, <1>7, <1>8, <1>9, <1>10, <1>11, <1>12, <1>13, <1>14, <1>15, <1>16, <1>17, <1>18, <1>19, <1>20, <1>21, <1>22, <1>23, <1>24, <1>25, <1>26, <1>27 DEF Next, Designer, Answers, Pairing

\* Every state is well typed, and a page that says it is loading has asked for a list.
THEOREM TypeCorrect == Spec => []TypeOK
  <1>1. Init => TypeOK
    BY InitType
  <1>2. TypeOK /\ [Next]_vars => TypeOK'
    <2> SUFFICES ASSUME TypeOK, [Next]_vars
                 PROVE  TypeOK'
      OBVIOUS
    <2>1. FlagsOK' /\ DataOK'
      BY FlagsStep, DataStep
    <2> QED
      BY <2>1 DEF TypeOK, FlagsOK, DataOK
  <1> QED
    BY <1>1, <1>2, PTL DEF Spec

-----------------------------------------------------------------------------
(* What was reported, on its device.                                         *)

LEMMA ReportIsOfItsModelStep == TypeOK /\ ReportIsOfItsModel /\ [Next]_vars => ReportIsOfItsModel'
  <1> SUFFICES ASSUME TypeOK, ReportIsOfItsModel, [Next]_vars
               PROVE  ReportIsOfItsModel'
    OBVIOUS
  <1> USE DEF ReportIsOfItsModel, TypeOK
  <1>1. ASSUME NEW i \in Ids, Validate(i)
        PROVE  ReportIsOfItsModel'
    BY <1>1 DEF Validate
  <1>2. ASSUME NEW i \in Ids, Validated(i)
        PROVE  ReportIsOfItsModel'
    BY <1>2 DEF Validated, OfThisScope
  <1>3. ASSUME NEW i \in Ids, ValidationFailed(i)
        PROVE  ReportIsOfItsModel'
    BY <1>3 DEF ValidationFailed
  <1>4. ASSUME UNCHANGED revalidations
        PROVE  ReportIsOfItsModel'
    BY <1>4
  <1>5. ASSUME 
               \/ \E d \in Scopes : Select(d)
               \/ \E d \in Devices : Remember(d)
               \/ \E d \in Devices : Paired(d)
               \/ \E d \in Devices : Forget(d)
               \/ Reload
               \/ \E t \in Filters : SetFilter(t)
               \/ \E l \in loads : Loaded(l)
               \/ \E l \in loads : LoadFailed(l)
               \/ Refresh
               \/ Snapped
               \/ SnapFailed
               \/ Check
               \/ CapacityReturns
               \/ HealthReturns
               \/ HealthFails
               \/ UnitsReturn
               \/ Confirm
               \/ Confirmed
               \/ ConfirmFails
               \/ Run
               \/ \E i \in Ids : Ran(i)
               \/ RunRefused
               \/ \E p \in Pages : GoTo(p)
               \/ UNCHANGED vars
        PROVE  ReportIsOfItsModel'
    <2>1. UNCHANGED revalidations
      BY <1>5 DEF vars, evidence, Select, Remember, Paired, Forget, Reload, SetFilter, Loaded, LoadFailed, Refresh, Snapped, SnapFailed, Check, CapacityReturns, HealthReturns, HealthFails, UnitsReturn, Confirm, Confirmed, ConfirmFails, Run, Ran, RunRefused, GoTo
    <2> QED
      BY <2>1, <1>4
  <1> QED
    BY <1>1, <1>2, <1>3, <1>5 DEF Next, Designer, Answers, Pairing

\* What is reported under a record is of the model the record is about.
THEOREM ReportedThere == Spec => []ReportIsOfItsModel
  <1>1. Init => ReportIsOfItsModel
    BY DEF Init, ReportIsOfItsModel
  <1> QED
    BY <1>1, ReportIsOfItsModelStep, TypeCorrect, PTL DEF Spec

-----------------------------------------------------------------------------
(* What is on screen is of the device in use.                                *)

\* A snapshot under way was asked of the device in use, unless that changed since.
SnapshotInv ==
  active = "Task" /\ ~moved =>
    /\ snapping \in {device, None}
    /\ snapping = None => snapshot \in {device, None}

LEMMA SnapshotInvStep == TypeOK /\ SnapshotInv /\ [Next]_vars => SnapshotInv'
  <1> SUFFICES ASSUME TypeOK, SnapshotInv, [Next]_vars
               PROVE  SnapshotInv'
    OBVIOUS
  <1> USE DEF SnapshotInv, TypeOK, panel
  <1>1. ASSUME NEW d \in Scopes, Select(d)
        PROVE  SnapshotInv'
    BY <1>1 DEF Select, SelectDevice
  <1>2. ASSUME NEW d \in Devices, Paired(d)
        PROVE  SnapshotInv'
    BY <1>2 DEF Paired, SelectDevice
  <1>3. ASSUME NEW d \in Devices, Forget(d)
        PROVE  SnapshotInv'
    BY <1>3 DEF Forget
  <1>4. ASSUME Reload
        PROVE  SnapshotInv'
    BY <1>4 DEF Reload, Load
  <1>5. ASSUME Refresh
        PROVE  SnapshotInv'
    <2>1. device # None
      BY RecordsAreOwned DEF Scopes
    <2> QED
      BY <1>5, <2>1 DEF Refresh
  <1>6. ASSUME Snapped
        PROVE  SnapshotInv'
    BY <1>6 DEF Snapped
  <1>7. ASSUME SnapFailed
        PROVE  SnapshotInv'
    BY <1>7 DEF SnapFailed
  <1>8. ASSUME Check
        PROVE  SnapshotInv'
    BY <1>8 DEF Check
  <1>9. ASSUME NEW p \in Pages, GoTo(p)
        PROVE  SnapshotInv'
    BY <1>9 DEF GoTo, NoCheck, OpenEvidence, Load
  <1>10. ASSUME UNCHANGED <<active, device, moved, panel>>
        PROVE  SnapshotInv'
    BY <1>10
  <1>11. ASSUME 
               \/ \E d \in Devices : Remember(d)
               \/ \E t \in Filters : SetFilter(t)
               \/ \E l \in loads : Loaded(l)
               \/ \E l \in loads : LoadFailed(l)
               \/ \E i \in Ids : Validate(i)
               \/ \E i \in Ids : Validated(i)
               \/ \E i \in Ids : ValidationFailed(i)
               \/ CapacityReturns
               \/ HealthReturns
               \/ HealthFails
               \/ UnitsReturn
               \/ Confirm
               \/ Confirmed
               \/ ConfirmFails
               \/ Run
               \/ \E i \in Ids : Ran(i)
               \/ RunRefused
               \/ UNCHANGED vars
        PROVE  SnapshotInv'
    <2>1. UNCHANGED <<active, device, moved, panel>>
      BY <1>11 DEF vars, panel, Remember, SetFilter, Loaded, LoadFailed, Validate, Validated, ValidationFailed, CapacityReturns, HealthReturns, HealthFails, UnitsReturn, Confirm, Confirmed, ConfirmFails, Run, Ran, RunRefused
    <2> QED
      BY <2>1, <1>10
  <1> QED
    BY <1>1, <1>2, <1>3, <1>4, <1>5, <1>6, <1>7, <1>8, <1>9, <1>11 DEF Next, Designer, Answers, Pairing

\* The snapshot beside the brief is of the device in use.
THEOREM SnapshotCurrent == Spec => []SnapshotIsOfDeviceInUse
  <1>1. Init => SnapshotInv
    BY DEF Init, SnapshotInv
  <1>2. SnapshotInv => SnapshotIsOfDeviceInUse
    BY DEF SnapshotInv, SnapshotIsOfDeviceInUse
  <1> QED
    BY <1>1, <1>2, SnapshotInvStep, TypeCorrect, PTL DEF Spec

\* The stages of a check: its units are cleared first, and those of a later stage go with
\* the status of an earlier one.  Another page has no check.
CheckInv ==
  /\ active # "Connect" => check = NoCheck /\ status = None /\ units = None
  /\ ~moved =>
       /\ check.on \in {device, None}
       /\ check.stage # "none" => units = None
       /\ check.stage = "snapshot" => status \in {device, None}
       /\ check.stage = "none" => status \in {device, None} /\ units \in {device, None}

LEMMA CheckInvStep == TypeOK /\ CheckInv /\ [Next]_vars => CheckInv'
  <1> SUFFICES ASSUME TypeOK, CheckInv, [Next]_vars
               PROVE  CheckInv'
    OBVIOUS
  <1> USE DEF CheckInv, TypeOK, NoCheck, connect
  <1>1. ASSUME NEW d \in Scopes, Select(d)
        PROVE  CheckInv'
    BY <1>1 DEF Select, SelectDevice
  <1>2. ASSUME NEW d \in Devices, Paired(d)
        PROVE  CheckInv'
    BY <1>2 DEF Paired, SelectDevice
  <1>3. ASSUME NEW d \in Devices, Forget(d)
        PROVE  CheckInv'
    BY <1>3 DEF Forget
  <1>4. ASSUME Reload
        PROVE  CheckInv'
    BY <1>4 DEF Reload, Load
  <1>5. ASSUME Refresh
        PROVE  CheckInv'
    BY <1>5 DEF Refresh
  <1>6. ASSUME Check
        PROVE  CheckInv'
    BY <1>6 DEF Check
  <1>7. ASSUME CapacityReturns
        PROVE  CheckInv'
    BY <1>7 DEF CapacityReturns
  <1>8. ASSUME HealthReturns
        PROVE  CheckInv'
    BY <1>8 DEF HealthReturns, NoCheck
  <1>9. ASSUME HealthFails
        PROVE  CheckInv'
    BY <1>9 DEF HealthFails, NoCheck
  <1>10. ASSUME UnitsReturn
        PROVE  CheckInv'
    BY <1>10 DEF UnitsReturn, NoCheck
  <1>11. ASSUME NEW p \in Pages, GoTo(p)
        PROVE  CheckInv'
    BY <1>11 DEF GoTo, NoCheck, OpenEvidence, Load
  <1>12. ASSUME UNCHANGED <<active, device, moved, connect>>
        PROVE  CheckInv'
    BY <1>12
  <1>13. ASSUME 
               \/ \E d \in Devices : Remember(d)
               \/ \E t \in Filters : SetFilter(t)
               \/ \E l \in loads : Loaded(l)
               \/ \E l \in loads : LoadFailed(l)
               \/ \E i \in Ids : Validate(i)
               \/ \E i \in Ids : Validated(i)
               \/ \E i \in Ids : ValidationFailed(i)
               \/ Snapped
               \/ SnapFailed
               \/ Confirm
               \/ Confirmed
               \/ ConfirmFails
               \/ Run
               \/ \E i \in Ids : Ran(i)
               \/ RunRefused
               \/ UNCHANGED vars
        PROVE  CheckInv'
    <2>1. UNCHANGED <<active, device, moved, connect>>
      BY <1>13 DEF vars, connect, Remember, SetFilter, Loaded, LoadFailed, Validate, Validated, ValidationFailed, Snapped, SnapFailed, Confirm, Confirmed, ConfirmFails, Run, Ran, RunRefused
    <2> QED
      BY <2>1, <1>12
  <1> QED
    BY <1>1, <1>2, <1>3, <1>4, <1>5, <1>6, <1>7, <1>8, <1>9, <1>10, <1>11, <1>13 DEF Next, Designer, Answers, Pairing

\* The answers of a check are of one device, the one in use.
THEOREM CheckOfOne == Spec => []CheckIsOfOneDevice
  <1>1. Init => CheckInv
    BY DEF Init, CheckInv, NoCheck
  <1>2. CheckInv => CheckIsOfOneDevice
    BY DEF CheckInv, CheckIsOfOneDevice
  <1> QED
    BY <1>1, <1>2, CheckInvStep, TypeCorrect, PTL DEF Spec

\* On the open evidence page, one list at most is under way that crossed no other, and it
\* was asked of the device in use; without one, that list is on screen.
EvidenceInv ==
  active = "Evidence" /\ ~crossed /\ ~moved =>
    \/ loads = {} /\ (records.of = None \/ records.of.on = device)
    \/ \E l \in loads : loads = {l} /\ l.on = device

LEMMA EvidenceInvStep == TypeOK /\ EvidenceInv /\ [Next]_vars => EvidenceInv'
  <1> SUFFICES ASSUME TypeOK, EvidenceInv, [Next]_vars
               PROVE  EvidenceInv'
    OBVIOUS
  <1> USE DEF EvidenceInv
  <1>1. ASSUME NEW d \in Scopes, Select(d)
        PROVE  EvidenceInv'
    <2>1. active' = "Connect"
      BY <1>1 DEF Select
    <2> QED
      BY <2>1
  <1>2. ASSUME NEW d \in Devices, Paired(d)
        PROVE  EvidenceInv'
    <2>1. moved' \/ (moved' = moved /\ device' = device)
      BY <1>2 DEF Paired, TypeOK
    <2>2. UNCHANGED <<active, crossed, loads, records>>
      BY <1>2 DEF Paired, evidence
    <2> QED
      BY <2>1, <2>2
  <1>3. ASSUME NEW d \in Devices, Forget(d)
        PROVE  EvidenceInv'
    <2>1. moved' \/ (moved' = moved /\ device' = device)
      BY <1>3 DEF Forget, TypeOK
    <2>2. UNCHANGED <<active, crossed, loads, records>>
      BY <1>3 DEF Forget, evidence
    <2> QED
      BY <2>1, <2>2
  <1>4. ASSUME Reload
        PROVE  EvidenceInv'
    <2> DEFINE l == [on |-> device, tool |-> tool]
    <2>1. loads' = loads \union {l} /\ crossed' = (loads # {}) /\ device' = device
      BY <1>4 DEF Reload, Load
    <2>2. ~crossed' => loads' = {l} /\ l \in loads' /\ l.on = device'
      BY <2>1
    <2> QED
      BY <2>2
  <1>5. ASSUME NEW l \in loads, Loaded(l)
        PROVE  EvidenceInv'
    BY <1>5 DEF Loaded, Recent
  <1>6. ASSUME NEW l \in loads, LoadFailed(l)
        PROVE  EvidenceInv'
    BY <1>6 DEF LoadFailed
  <1>7. ASSUME Refresh
        PROVE  EvidenceInv'
    BY <1>7 DEF Refresh
  <1>8. ASSUME Check
        PROVE  EvidenceInv'
    BY <1>8 DEF Check
  <1>9. ASSUME NEW p \in Pages, GoTo(p)
        PROVE  EvidenceInv'
    <2> DEFINE l == [on |-> device, tool |-> tool]
    <2>1. CASE p = "Evidence"
      <3>1. loads' = loads \union {l} /\ crossed' = (loads # {}) /\ device' = device
        BY <1>9, <2>1 DEF GoTo, OpenEvidence, Load
      <3>2. ~crossed' => loads' = {l} /\ l \in loads' /\ l.on = device'
        BY <3>1
      <3> QED
        BY <3>2
    <2>2. CASE p # "Evidence"
      BY <1>9, <2>2 DEF GoTo
    <2> QED
      BY <2>1, <2>2
  <1>10. ASSUME UNCHANGED <<active, device, moved, crossed, loads, records>>
        PROVE  EvidenceInv'
    BY <1>10
  <1>11. ASSUME 
               \/ \E d \in Devices : Remember(d)
               \/ \E t \in Filters : SetFilter(t)
               \/ \E i \in Ids : Validate(i)
               \/ \E i \in Ids : Validated(i)
               \/ \E i \in Ids : ValidationFailed(i)
               \/ Snapped
               \/ SnapFailed
               \/ CapacityReturns
               \/ HealthReturns
               \/ HealthFails
               \/ UnitsReturn
               \/ Confirm
               \/ Confirmed
               \/ ConfirmFails
               \/ Run
               \/ \E i \in Ids : Ran(i)
               \/ RunRefused
               \/ UNCHANGED vars
        PROVE  EvidenceInv'
    <2>1. UNCHANGED <<active, device, moved, crossed, loads, records>>
      BY <1>11 DEF vars, evidence, Remember, SetFilter, Validate, Validated, ValidationFailed, Snapped, SnapFailed, CapacityReturns, HealthReturns, HealthFails, UnitsReturn, Confirm, Confirmed, ConfirmFails, Run, Ran, RunRefused
    <2> QED
      BY <2>1, <1>10
  <1> QED
    BY <1>1, <1>2, <1>3, <1>4, <1>5, <1>6, <1>7, <1>8, <1>9, <1>11 DEF Next, Designer, Answers, Pairing

\* The list of the evidence page is of the device in use.
THEOREM EvidenceCurrent == Spec => []EvidenceIsOfDeviceInUse
  <1>1. Init => EvidenceInv
    BY DEF Init, EvidenceInv
  <1>2. EvidenceInv => EvidenceIsOfDeviceInUse
    BY DEF EvidenceInv, EvidenceIsOfDeviceInUse
  <1> QED
    BY <1>1, <1>2, EvidenceInvStep, TypeCorrect, PTL DEF Spec
=============================================================================
