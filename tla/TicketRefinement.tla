--------------------------- MODULE TicketRefinement ---------------------------
(***************************************************************************)
(* The concurrent handlers of TicketLifecycle implement AtomicTicket: the  *)
(* abstract ticket is read off the row, its times and counters reduced to  *)
(* what they mean.                                                         *)
(***************************************************************************)
EXTENDS TicketLifecycle

Abstract == INSTANCE AtomicTicket WITH
  AgentsOf      <- [t \in Tickets |-> MembersOf(TicketDept[t])],
  RuleFor       <- [t \in Tickets |-> Rule(t)],
  status        <- [t \in Tickets |-> ticket[t].statusKey],
  agent         <- [t \in Tickets |-> ticket[t].assignedAgentId],
  reassignments <- [t \in Tickets |-> ticket[t].reassignmentCount],
  responded     <- [t \in Tickets |-> ticket[t].firstRespondedAt # None],
  resolved      <- [t \in Tickets |-> ticket[t].resolvedAt # None],
  escalated     <- [t \in Tickets |-> ticket[t].isEscalated]

\* The requests on a ticket take effect one at a time, each on the ticket as
\* it is when it does: what transition() and assign() decided on a row read
\* earlier (which move is legal, whether this is a reassignment and whether it
\* reaches the threshold, whether this is the first resolution) still holds
\* when they write it.
ActsAtomically == Abstract!Spec
==============================================================================
