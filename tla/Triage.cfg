SPECIFICATION FairSpec
CONSTANTS
  None = None
  NoCustomer = NoCustomer
  q1 = q1
  q2 = q2
  adm = adm
  root = root
  r1 = r1
  r2 = r2
  r3 = r3
  Queries = {q1, q2}
  Staff = {adm, root}
  Departments = {"IT", "HR"}
  Emails = {"ann@acme"}
  CompanyNames = {"Acme"}
  Requests = {r1, r2, r3}
  IsSuperAdmin <- MCIsSuperAdmin
  DeptOf <- MCDeptOf
  EmailOf <- MCEmailOf
  CompanyNameOf <- MCCompanyNameOf
  SuggestedDept <- MCSuggestedDept
  Calls <- MCCalls
  MaxFaults = 1
CHECK_DEADLOCK FALSE
INVARIANTS
  OneTicketPerQuery
  PendingHasNoTicket
  ClaimExcludes
  NamedCompanyIsB2B
PROPERTIES
  TicketIsLinked
  ClaimSettles
