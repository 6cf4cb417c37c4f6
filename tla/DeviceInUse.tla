----------------------------- MODULE DeviceInUse -----------------------------
(***************************************************************************)
(* What the pages show of, and do on, the Revit selected in the browser    *)
(* (App.tsx, store/index.ts, EvidencePage.tsx, evidenceFlow.ts,            *)
(* SnapshotPanel.tsx, ConnectPage.tsx, shared/http.ts) and how the host    *)
(* keeps devices apart (bridge.py, current_scope).                         *)
(*                                                                         *)
(* Every request carries the device that is selected when it is sent.  The *)
(* designer selects one on the Connect page, but the poller of a pairing   *)
(* and the answers of revocations and refreshes select and forget devices  *)
(* whatever page is open.  The page of the evidence keeps its state when   *)
(* it is left, the others lose theirs.  A request ends in an answer or in  *)
(* a failure, in any order; it is served when it ends.  Pairing itself is  *)
(* PairingFlow, the card and its confirmation TaskFlow.                    *)
(***************************************************************************)
EXTENDS Naturals, FiniteSets

CONSTANTS
  Devices,     \* paired add-ins
  Local,       \* the add-in on the host's machine, used when no device is selected
  Ids,         \* ids of evidence records
  Owner,       \* Owner[id]: the device the record's execution ran on, its scope
  Tool,        \* Tool[id]: the pack it ran
  Filters,     \* what the designer types to filter
  NoFilter,
  MaxRequests, \* bound: requests under way
  None

Scopes == Devices \union {Local}

ASSUME RecordsAreOwned ==
  /\ Local \notin Devices /\ None \notin Scopes /\ None \notin Ids
  /\ Owner \in [Ids -> Scopes] /\ DOMAIN Tool = Ids
  /\ NoFilter \in Filters /\ MaxRequests \in Nat

Pages == {"Connect", "Task", "Capabilities", "Evidence"}

VARIABLES
  active,         \* the page that is open
  device,         \* the device in use
  devices,        \* the devices the browser holds keys for
  ledger,         \* the records of the host
  records,        \* the list on the evidence page: what it was asked for, and its ids
  loading,
  tool,           \* the filter in the box
  revalidations,  \* per record
  loads,          \* lists asked for and not answered: for which device and filter
  snapshot,       \* the device whose snapshot is shown, or None
  snapping,       \* the device a snapshot was asked of, or None
  check,          \* the connection check: stage and device of its request
  status, units,  \* what it found, of which device, or None
  confirming,     \* the device a confirmation was asked for, or None
  confirmation,   \* the scope of the confirmation held, or None
  running,        \* the device of a run under way, or None
  moved,          \* history: the device changed since the open page asked
  crossed         \* history: a list was asked for while another was

evidence == <<records, loading, tool, revalidations, loads>>
panel == <<snapshot, snapping>>
connect == <<check, status, units>>
task == <<confirming, confirmation, running>>
vars == <<active, device, devices, ledger, evidence, panel, connect, task, moved, crossed>>

\* Two lists asked for alike are one.
UnderWay ==
  Cardinality(loads) + Cardinality({i \in Ids : revalidations[i].status = "running"})
    + Cardinality({x \in {<<"snapshot", snapping>>, <<"check", check.on>>, <<"confirm", confirming>>,
                          <<"run", running>>} : x[2] # None})

Room == UnderWay < MaxRequests

NoCheck == [stage |-> "none", on |-> None]

Init ==
  /\ active = "Connect"
  /\ device = Local /\ devices = {}
  /\ ledger = {}
  /\ records = [of |-> None, ids |-> {}] /\ loading = FALSE
  /\ tool = NoFilter
  /\ revalidations = [i \in Ids |-> [status |-> "none", on |-> None]]
  /\ loads = {}
  /\ snapshot = None /\ snapping = None
  /\ check = NoCheck /\ status = None /\ units = None
  /\ confirming = None /\ confirmation = None /\ running = None
  /\ moved = FALSE /\ crossed = FALSE

-----------------------------------------------------------------------------
(* The device in use.                                                        *)

\* selectDevice(): a device without a key is the local add-in.
SelectDevice(d, known) == IF d \in known THEN d ELSE Local

\* A click in the list of devices.
Select(d) ==
  /\ active = "Connect" /\ d \in devices \union {Local}
  /\ device' = SelectDevice(d, devices)
  /\ moved' = (moved \/ device' # device)
  /\ UNCHANGED <<active, devices, ledger, evidence, panel, connect, task, crossed>>

\* The key is kept when the code is issued.
Remember(d) ==
  /\ d \notin devices
  /\ devices' = devices \union {d}
  /\ UNCHANGED <<active, device, ledger, evidence, panel, connect, task, moved, crossed>>

\* The poller of a pairing finds its add-in online.
Paired(d) ==
  /\ d \in devices
  /\ device' = SelectDevice(d, devices)
  /\ moved' = (moved \/ device' # device)
  /\ UNCHANGED <<active, devices, ledger, evidence, panel, connect, task, crossed>>

\* forgetDevice(): a revocation succeeded, or a refresh found the device gone.
Forget(d) ==
  /\ d \in devices
  /\ devices' = devices \ {d}
  /\ device' = IF device = d THEN Local ELSE device
  /\ moved' = (moved \/ device' # device)
  /\ UNCHANGED <<active, ledger, evidence, panel, connect, task, crossed>>

-----------------------------------------------------------------------------
(* The evidence page.                                                        *)

\* load(): the filter as it is now; the headers as they are now.
Load ==
  /\ loads' = loads \union {[on |-> device, tool |-> tool]}
  /\ loading' = TRUE
  /\ crossed' = (loads # {})

\* Enter asks whether or not a list is under way; the button is disabled.
Reload ==
  /\ active = "Evidence" /\ Room
  /\ Load
  /\ moved' = FALSE
  /\ UNCHANGED <<active, device, devices, ledger, records, tool, revalidations, panel, connect, task>>

SetFilter(t) ==
  /\ active = "Evidence" /\ t # tool
  /\ tool' = t
  /\ UNCHANGED <<active, device, devices, ledger, records, loading, revalidations, loads,
                 panel, connect, task, moved, crossed>>

\* GET /evidence: the records of the scope, of one pack if there is a filter.
Recent(l) == {i \in ledger : Owner[i] = l.on /\ (l.tool = NoFilter \/ Tool[i] = l.tool)}

Loaded(l) ==
  /\ records' = [of |-> l, ids |-> Recent(l)]
  /\ loads' = loads \ {l} /\ loading' = FALSE
  /\ UNCHANGED <<active, device, devices, ledger, tool, revalidations,
                 panel, connect, task, moved, crossed>>

LoadFailed(l) ==
  /\ records' = [of |-> None, ids |-> {}]
  /\ loads' = loads \ {l} /\ loading' = FALSE
  /\ UNCHANGED <<active, device, devices, ledger, tool, revalidations,
                 panel, connect, task, moved, crossed>>

\* Validate, in the details of a record: any that is listed can be opened.
Validate(i) ==
  /\ active = "Evidence" /\ i \in records.ids /\ Room
  /\ revalidations[i].status # "running"
  /\ revalidations' = [revalidations EXCEPT ![i] = [status |-> "running", on |-> device]]
  /\ UNCHANGED <<active, device, devices, ledger, records, loading, tool, loads,
                 panel, connect, task, moved, crossed>>

\* Mutant: a record is found whoever asks.
OfThisScopeAny(i, d) == i \in ledger

\* POST /evidence/{id}/validate answers 404 for a record of another device.
OfThisScope(i, d) == i \in ledger /\ Owner[i] = d

\* The assertion is run on the device of the request.
Validated(i) ==
  /\ revalidations[i].status = "running" /\ OfThisScope(i, revalidations[i].on)
  /\ revalidations' = [revalidations EXCEPT ![i].status = "done"]
  /\ UNCHANGED <<active, device, devices, ledger, records, loading, tool, loads,
                 panel, connect, task, moved, crossed>>

ValidationFailed(i) ==
  /\ revalidations[i].status = "running"
  /\ revalidations' = [revalidations EXCEPT ![i] = [status |-> "failed", on |-> None]]
  /\ UNCHANGED <<active, device, devices, ledger, records, loading, tool, loads,
                 panel, connect, task, moved, crossed>>

-----------------------------------------------------------------------------
(* The snapshot on the task page.                                            *)

Refresh ==
  /\ active = "Task" /\ snapping = None /\ Room
  /\ snapping' = device /\ moved' = FALSE
  /\ UNCHANGED <<active, device, devices, ledger, evidence, snapshot, connect, task, crossed>>

Snapped ==
  /\ snapping # None
  /\ snapshot' = snapping /\ snapping' = None
  /\ UNCHANGED <<active, device, devices, ledger, evidence, connect, task, moved, crossed>>

\* Mutant: the snapshot before stays until there is a new one.
SnapFailedKeeping ==
  /\ snapping # None
  /\ snapping' = None
  /\ UNCHANGED <<active, device, devices, ledger, evidence, snapshot, connect, task, moved, crossed>>

SnapFailed ==
  /\ snapping # None
  /\ snapshot' = None /\ snapping' = None
  /\ UNCHANGED <<active, device, devices, ledger, evidence, connect, task, moved, crossed>>

-----------------------------------------------------------------------------
(* The check on the Connect page: refresh() with the relay's capacity, then  *)
(* /revit-health, then /snapshot, each with the headers of its own moment.   *)

\* Mutant: the units of the check before stay until there are new ones.
CheckKeepingUnits ==
  /\ active = "Connect" /\ check.stage = "none" /\ Room
  /\ check' = [stage |-> "capacity", on |-> None] /\ UNCHANGED units
  /\ moved' = FALSE
  /\ UNCHANGED <<active, device, devices, ledger, evidence, panel, status, task, crossed>>

Check ==
  /\ active = "Connect" /\ check.stage = "none" /\ Room
  /\ check' = [stage |-> "capacity", on |-> None] /\ units' = None
  /\ moved' = FALSE
  /\ UNCHANGED <<active, device, devices, ledger, evidence, panel, status, task, crossed>>

\* The capacity is optional: its failure is passed over.
CapacityReturns ==
  /\ check.stage = "capacity"
  /\ check' = [stage |-> "health", on |-> device]
  /\ UNCHANGED <<active, device, devices, ledger, evidence, panel, status, units, task, moved, crossed>>

HealthReturns ==
  /\ check.stage = "health"
  /\ status' = check.on
  /\ \/ check' = [stage |-> "snapshot", on |-> device]
     \/ check' = NoCheck                           \* not connected
  /\ UNCHANGED <<active, device, devices, ledger, evidence, panel, units, task, moved, crossed>>

HealthFails ==
  /\ check.stage = "health"
  /\ status' = check.on /\ check' = NoCheck
  /\ UNCHANGED <<active, device, devices, ledger, evidence, panel, units, task, moved, crossed>>

\* The units, or the message why there are none.
UnitsReturn ==
  /\ check.stage = "snapshot"
  /\ units' = check.on /\ check' = NoCheck
  /\ UNCHANGED <<active, device, devices, ledger, evidence, panel, status, task, moved, crossed>>

-----------------------------------------------------------------------------
(* A confirmation and its run, each with the device of its own request.      *)

Confirm ==
  /\ active = "Task" /\ confirming = None /\ Room
  /\ confirming' = device
  /\ UNCHANGED <<active, device, devices, ledger, evidence, panel, connect, confirmation, running, moved, crossed>>

\* POST /spec/confirm issues the token for the scope of the request.
Confirmed ==
  /\ confirming # None
  /\ confirmation' = confirming /\ confirming' = None
  /\ UNCHANGED <<active, device, devices, ledger, evidence, panel, connect, running, moved, crossed>>

ConfirmFails ==
  /\ confirming # None
  /\ confirming' = None
  /\ UNCHANGED <<active, device, devices, ledger, evidence, panel, connect, confirmation, running, moved, crossed>>

Run ==
  /\ active = "Task" /\ confirmation # None /\ running = None /\ Room
  /\ running' = [on |-> device, scope |-> confirmation]
  /\ UNCHANGED <<active, device, devices, ledger, evidence, panel, connect, confirming, confirmation, moved, crossed>>

\* The gate redeems a token for the scope it was issued for (and once, see TaskFlow).
Redeems(r) == r.scope = r.on

\* What is executed is recorded under the device it ran on.
Ran(i) ==
  /\ running # None /\ Redeems(running)
  /\ i \notin ledger /\ Owner[i] = running.on
  /\ ledger' = ledger \union {i}
  /\ running' = None
  /\ UNCHANGED <<active, device, devices, evidence, panel, connect, confirming, confirmation, moved, crossed>>

RunRefused ==
  /\ running # None
  /\ running' = None
  /\ UNCHANGED <<active, device, devices, ledger, evidence, panel, connect, confirming, confirmation, moved, crossed>>

-----------------------------------------------------------------------------
(* The tabs: the page that is left is unmounted, the one that opens asks.    *)

\* Mutant: the list is asked for the first time only.
OpenEvidenceOnce ==
  IF records.of = None THEN Load ELSE UNCHANGED <<loads, loading, crossed>>

OpenEvidence == Load

GoTo(p) ==
  /\ p # active /\ active' = p
  /\ p \in {"Task", "Evidence"} => Room
  /\ IF p = "Evidence" THEN OpenEvidence ELSE UNCHANGED <<loads, loading, crossed>>
  /\ snapshot' = None /\ snapping' = IF p = "Task" THEN device ELSE None
  /\ check' = NoCheck /\ status' = None /\ units' = None
  /\ moved' = FALSE
  /\ UNCHANGED <<device, devices, ledger, records, tool, revalidations, task>>

Designer ==
  \/ \E p \in Pages : GoTo(p)
  \/ \E d \in Scopes : Select(d)
  \/ Reload \/ \E t \in Filters : SetFilter(t)
  \/ \E i \in Ids : Validate(i)
  \/ Refresh \/ Check \/ Confirm \/ Run

Answers ==
  \/ \E l \in loads : Loaded(l) \/ LoadFailed(l)
  \/ \E i \in Ids : Validated(i) \/ ValidationFailed(i) \/ Ran(i)
  \/ Snapped \/ SnapFailed
  \/ CapacityReturns \/ HealthReturns \/ HealthFails \/ UnitsReturn
  \/ Confirmed \/ ConfirmFails \/ RunRefused

Pairing == \E d \in Devices : Remember(d) \/ Paired(d) \/ Forget(d)

Next == Designer \/ Answers \/ Pairing

Spec == Init /\ [][Next]_vars

-----------------------------------------------------------------------------
Asked == [on : Scopes, tool : Filters]

TypeOK ==
  /\ active \in Pages
  /\ device \in devices \union {Local} /\ devices \subseteq Devices
  /\ ledger \subseteq Ids
  /\ records \in [of : Asked \union {None}, ids : SUBSET Ids]
  /\ loading \in BOOLEAN /\ (loading => loads # {})
  /\ tool \in Filters
  /\ revalidations \in [Ids -> [status : {"none", "running", "done", "failed"}, on : Scopes \union {None}]]
  /\ loads \subseteq Asked
  /\ snapshot \in Scopes \union {None} /\ snapping \in Scopes \union {None}
  /\ check \in [stage : {"none", "capacity", "health", "snapshot"}, on : Scopes \union {None}]
  /\ status \in Scopes \union {None} /\ units \in Scopes \union {None}
  /\ confirming \in Scopes \union {None}
  /\ confirmation \in Scopes \union {None}
  /\ running \in [on : Scopes, scope : Scopes] \union {None}
  /\ moved \in BOOLEAN /\ crossed \in BOOLEAN

\* The evidence page keeps its list when it is left.  Opened again it does not go on
\* showing the executions of the device used before, under the name of the one in use:
\* except while a list is under way, after two that crossed, and when the device was
\* changed behind the open page.
EvidenceIsOfDeviceInUse ==
  active = "Evidence" /\ loads = {} /\ ~crossed /\ ~moved
    => records.of = None \/ records.of.on = device

\* The snapshot beside the brief is of the device the brief will be carried out on: a page
\* that is opened again shows no older one, and a refresh that fails takes the one before
\* off the screen.  Except while a refresh is under way, and when the device was changed
\* behind the page after it was asked for.
SnapshotIsOfDeviceInUse ==
  active = "Task" /\ snapping = None /\ ~moved => snapshot \in {device, None}

\* The check's answers, each with the headers of its own moment, are of one device, the
\* one named beside them, unless it was changed since the check began; units found by the
\* check before do not stay beside the status of this one.
CheckIsOfOneDevice ==
  ~moved /\ check.stage = "none" => status \in {device, None} /\ units \in {device, None}

\* A report under a record says how the model stands that the record is about, although
\* the request goes to the device in use and the list may be of another one.
ReportIsOfItsModel ==
  \A i \in Ids : revalidations[i].status = "done" => revalidations[i].on = Owner[i]
=============================================================================
