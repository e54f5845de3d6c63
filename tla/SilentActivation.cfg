SPECIFICATION Spec
CONSTANTS
  None = None
  ann = ann
  bob = bob
  r1 = r1
  r2 = r2
  r3 = r3
  Types = {"general", "hrType"}
  Departments = {"IT", "HR"}
  DeptOf <- MCDeptOf
  DefaultType <- MCDefaultType
  Items = {"field", "open", "finish", "sla", "rule"}
  KindOf <- MCKindOf
  Initials = {"open"}
  Defaults = {"field", "open", "finish", "sla"}
  Admins = {ann, bob}
  Requests = {r1, r2, r3}
  Calls <- MCCalls
  MaxFaults = 0
SYMMETRY Symmetry
CHECK_DEADLOCK FALSE
INVARIANTS
  ActivatedIsReady
