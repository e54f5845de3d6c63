-------------------------- MODULE MCTicketLifecycle --------------------------
(* Small instances of TicketLifecycle for TLC: one department with two agents *)
(* and one manager, and a version of a ticket type with a terminal status     *)
(* that can be reopened and moves reserved to a role.                         *)
EXTENDS TicketRefinement, TLC

CONSTANTS a1, a2, mgr,      \* staff
          r1, r2, r3,       \* requests
          j1, j2,           \* SLA runs
          t1, t2            \* tickets

MCRoleOf == (a1 :> "AGENT") @@ (a2 :> "AGENT") @@ (mgr :> "DEPT_ADMIN")

\* A department without a manager: only an org-wide administrator can act.
MCRoleOfNoManager == (a1 :> "AGENT") @@ (a2 :> "AGENT") @@ (mgr :> "SUPER_ADMIN")
MCDeptOfNoManager == [s \in Staff |-> IF s = mgr THEN None ELSE "IT"]

MCDeptOf == [s \in Staff |-> "IT"]
MCTicketDept == [t \in Tickets |-> "IT"]
MCCustomerTypeOf == [t \in Tickets |-> "B2C"]
MCPriorityOf == [t \in Tickets |-> "HIGH"]

MCMoves ==
  {[from |-> "NEW", to |-> "OPEN", roles |-> {}],
   [from |-> "NEW", to |-> "CLOSED", roles |-> {"AGENT", "DEPT_ADMIN"}],
   [from |-> "OPEN", to |-> "CLOSED", roles |-> {"AGENT"}],
   [from |-> "CLOSED", to |-> "OPEN", roles |-> {"DEPT_ADMIN"}]}

\* A ticket of this kind is escalated at its first reassignment; the entry for
\* another priority must not apply to it.
MCSnapshot ==
  <<[customerType |-> "B2C", priority |-> "LOW",
     escalateOnSlaBreach |-> FALSE, reassignmentThreshold |-> NoThreshold],
    [customerType |-> "B2C", priority |-> "HIGH",
     escalateOnSlaBreach |-> TRUE, reassignmentThreshold |-> 1]>>

MCDefaultSnapshot == <<>>

MCNoDue == [t \in Tickets |-> None]
MCDueAtStart == [t \in Tickets |-> 0]
MCDueInTurn == (t1 :> 0) @@ (t2 :> 1)
MCDueLater == [t \in Tickets |-> 1]

Call(op, staff, ticket_, arg) == [op |-> op, staff |-> staff, ticket |-> ticket_, arg |-> arg]

\* Status moves and assignments of one ticket, with an escalation or a reply in
\* between.
MCFlowCalls ==
  {Call("transition", a1, t1, to) : to \in {"OPEN", "CLOSED"}}
  \cup {Call("transition", mgr, t1, "OPEN")}
  \cup {Call("assign", mgr, t1, agent) : agent \in {a1, a2, None}}
  \cup {Call("escalate", a1, t1, None), Call("notifyManager", a1, t1, None),
        Call("comment", a1, t1, "PUBLIC")}

\* Everything that escalates, answers, hides or acknowledges, against the SLA job.
MCClockCalls ==
  {Call("escalate", a1, t1, None), Call("acknowledge", mgr, t1, None),
   Call("archive", mgr, t1, None), Call("unarchive", mgr, t1, None),
   Call("assign", mgr, t1, a2), Call("transition", a1, t1, "CLOSED")}
  \cup {Call("comment", a1, t1, v) : v \in Visibilities}

\* Two tickets in one SLA run, one taken out of the job's hands by an agent.
MCBoardCalls ==
  {Call("escalate", a1, t1, None), Call("comment", a1, t1, "PUBLIC"),
   Call("archive", mgr, t2, None)}

Symmetry == Permutations(Requests) \cup Permutations(Jobs)
==============================================================================
