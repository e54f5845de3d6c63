SPECIFICATION FairSpec
CONSTANTS
  None = None
  NoThreshold = NoThreshold
  Requester = Requester
  a1 = a1
  a2 = a2
  mgr = mgr
  r1 = r1
  r2 = r2
  r3 = r3
  j1 = j1
  j2 = j2
  t1 = t1
  t2 = t2
  Staff = {a1, a2, mgr}
  Departments = {"IT"}
  CustomerTypes = {"B2C", "B2B"}
  Priorities = {"LOW", "HIGH"}
  Statuses = {"NEW", "OPEN", "CLOSED"}
  InitialStatus = "NEW"
  Terminal = {"CLOSED"}
  Moves <- MCMoves
  RoleOf <- MCRoleOfNoManager
  DeptOf <- MCDeptOfNoManager
  TicketDept <- MCTicketDept
  CustomerTypeOf <- MCCustomerTypeOf
  PriorityOf <- MCPriorityOf
  EscalationSnapshot <- MCSnapshot
  ResponseDueAt <- MCDueInTurn
  ResolutionDueAt <- MCNoDue
  Tickets = {t1, t2}
  Requests = {r1, r2}
  Jobs = {j1}
  Calls <- MCBoardCalls
  Readers = {}
  MaxTime = 2
  MaxFaults = 0
CHECK_DEADLOCK FALSE
PROPERTIES
  BreachIsEscalated
  EscalationReachesManager
