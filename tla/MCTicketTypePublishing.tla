------------------------ MODULE MCTicketTypePublishing ------------------------
(* Small instances of TicketTypePublishing for TLC: the IT department and its *)
(* general-support type, a second type by quick creation, two administrators. *)
EXTENDS PublishingRefinement, TLC

CONSTANTS ann, bob,          \* administrators
          r1, r2, r3         \* requests

MCKindOf == [i \in Items |-> CASE i = "open"   -> "status"
                               [] i = "sla"    -> "rule"
                               [] i = "finish" -> "transition"
                               [] i = "rule"   -> "escalation"
                               [] OTHER        -> "field"]

MCDeptOf == [t \in Types |-> IF t = "hrType" THEN "HR" ELSE "IT"]
MCDefaultType == [d \in Departments |-> IF d = "IT" THEN "general" ELSE "hrType"]

Call(op, by, type) == [op |-> op, by |-> by, type |-> type]
Add(by, type, item) == [op |-> "add", by |-> by, type |-> type, item |-> item]
Toggle(by, type, on) == [op |-> "toggle", by |-> by, type |-> type, isActive |-> on]
Deprecate(by, item, flag) ==
  [op |-> "update", by |-> by, type |-> "general", item |-> item, isDeprecated |-> flag]

MCCalls ==
  {Toggle(bob, "general", on) : on \in BOOLEAN}
    \cup {Call("publish", a, "general") : a \in Admins}
    \cup {Add(bob, "general", i) : i \in Items}
    \cup {Call("quickCreate", bob, "general"), Call("create", ann, "hrType"),
          Call("ticket", ann, "general"), Deprecate(bob, "field", TRUE)}

Symmetry == Permutations(Requests)
==============================================================================
