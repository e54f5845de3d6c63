SPECIFICATION Spec
CONSTANTS
  None = None
  Departments = {"IT", "HR"}
  Types = {"bug", "leave"}
  DeptOf <- MCDeptOf
  SchemaOf <- MCSchemaOf
  Priorities = {"MEDIUM", "HIGH"}
  Pages = {"new", "raise", "convert"}
  MaxCalls = 2
  MaxEdits = 2
  MaxVersion <- MCMaxVersion
  MaxLost = 1
CHECK_DEADLOCK FALSE
INVARIANTS
  TypeOK
  HandPickStands
  FlagIsHonest
  TicketFitsVersion
  OneTicketPerVisit
