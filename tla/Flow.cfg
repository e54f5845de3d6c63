SPECIFICATION Spec
CONSTANTS
  None = None
  NoThreshold = NoThreshold
  Requester = Requester
  a1 = a1
  a2 = a2
  mgr = mgr
  r1 = r1
  r2 = r2
  r3 = r3
  j1 = j1
  j2 = j2
  t1 = t1
  t2 = t2
  Staff = {a1, a2, mgr}
  Departments = {"IT"}
  CustomerTypes = {"B2C", "B2B"}
  Priorities = {"LOW", "HIGH"}
  Statuses = {"NEW", "OPEN", "CLOSED"}
  InitialStatus = "NEW"
  Terminal = {"CLOSED"}
  Moves <- MCMoves
  RoleOf <- MCRoleOf
  DeptOf <- MCDeptOf
  TicketDept <- MCTicketDept
  CustomerTypeOf <- MCCustomerTypeOf
  PriorityOf <- MCPriorityOf
  EscalationSnapshot <- MCDefaultSnapshot
  ResponseDueAt <- MCNoDue
  ResolutionDueAt <- MCNoDue
  Tickets = {t1}
  Requests = {r1, r2, r3}
  Jobs = {}
  Calls <- MCFlowCalls
  Readers = {}
  MaxTime = 1
  MaxFaults = 1
SYMMETRY Symmetry
CHECK_DEADLOCK FALSE
INVARIANTS
  TypeOK
  TimelineReplays
  ReassignmentsCounted
  ThresholdEscalates
  ResolutionAnnouncedOnce
PROPERTIES
  MovesAreLegal
  ActsAtomically
