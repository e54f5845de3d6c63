SPECIFICATION Spec
CONSTANTS
  None = None
  Emails = {"ann"}
  Requests = {1, 2, 3}
  MaxFaults = 0
CHECK_DEADLOCK FALSE
INVARIANT
  StaffTicketIsB2C
