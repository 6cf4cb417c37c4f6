SPECIFICATION Spec
CONSTANTS
  None = None
  Local = Local
  d1 = d1
  e1 = e1
  e2 = e2
  t1 = t1
  t2 = t2
  NoFilter = NoFilter
  Devices = {d1}
  Ids = {e1, e2}
  Filters = {NoFilter, t1}
  Owner <- MCOwner
  Tool <- MCTool
  MaxRequests = 2
INVARIANTS EvidenceIsOfDeviceInUse SnapshotIsOfDeviceInUse CheckIsOfOneDevice ReportIsOfItsModel
