SPECIFICATION Spec
CONSTANTS
  None = None
  NoCustomer = NoCustomer
  q1 = q1
  q2 = q2
  adm = adm
  root = root
  r1 = r1
  r2 = r2
  r3 = r3
  Queries = {q1}
  Staff = {adm, root}
  Departments = {"IT", "HR"}
  Emails = {"ann@acme"}
  CompanyNames = {"Acme"}
  Requests = {r1, r2}
  IsSuperAdmin <- MCIsSuperAdmin
  DeptOf <- MCDeptOf
  EmailOf <- MCEmailOf
  CompanyNameOf <- MCCompanyNameOf
  SuggestedDept <- MCSuggestedDept
  Calls <- MCQueryCalls
  MaxFaults = 0
CHECK_DEADLOCK FALSE
PROPERTY
  RejectsOnlyPending
