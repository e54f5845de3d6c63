----------------------------- MODULE AtomicTicket -----------------------------
(***************************************************************************)
(* What a ticket promises to whoever looks at it: every request takes      *)
(* effect in one step, on the ticket as it is at that moment.  No reads    *)
(* ahead of writes, no versions, no handlers, no failures: the contract    *)
(* that the row version of transition() and assign() is there to keep.     *)
(***************************************************************************)
EXTENDS EscalationRules, Integers

CONSTANTS Tickets, Statuses, InitialStatus, Terminal, Moves, None,
          AgentsOf,    \* the staff a ticket can be assigned to
          RuleFor      \* the escalation rule of a ticket

VARIABLES status, agent, reassignments, responded, resolved, escalated

ticketVars == <<status, agent, reassignments, responded, resolved, escalated>>

Init ==
  /\ status = [t \in Tickets |-> InitialStatus]
  /\ agent \in {f \in [Tickets -> (UNION {AgentsOf[t] : t \in Tickets}) \cup {None}] :
                  \A t \in Tickets : f[t] \in AgentsOf[t] \cup {None}}
  /\ reassignments = [t \in Tickets |-> 0]
  /\ responded = [t \in Tickets |-> FALSE]
  /\ resolved = [t \in Tickets |-> FALSE]
  /\ escalated = [t \in Tickets |-> FALSE]

\* A move of the frozen schema; it answers the requester, and a terminal
\* status resolves the ticket for good.
Move(t, m) ==
  /\ m.from = status[t]
  /\ status' = [status EXCEPT ![t] = m.to]
  /\ responded' = [responded EXCEPT ![t] = TRUE]
  /\ resolved' = [resolved EXCEPT ![t] = @ \/ m.to \in Terminal]
  /\ UNCHANGED <<agent, reassignments, escalated>>

\* A hand-over from one agent to another counts, and the one that reaches the
\* threshold escalates; assigning a free ticket or freeing one does not.
Assign(t, to) ==
  LET handOver == agent[t] # None /\ to # None /\ to # agent[t]
      count    == reassignments[t] + 1
  IN  /\ agent' = [agent EXCEPT ![t] = to]
      /\ reassignments' = [reassignments EXCEPT ![t] = IF handOver THEN count ELSE @]
      /\ escalated' = [escalated EXCEPT ![t] = @ \/ (handOver /\ ReachesThreshold(RuleFor[t], count))]
      /\ UNCHANGED <<status, responded, resolved>>

\* A public reply.
Respond(t) ==
  /\ responded' = [responded EXCEPT ![t] = TRUE]
  /\ UNCHANGED <<status, agent, reassignments, resolved, escalated>>

\* By hand, or by the SLA job.
Escalate(t) ==
  /\ escalated' = [escalated EXCEPT ![t] = TRUE]
  /\ UNCHANGED <<status, agent, reassignments, responded, resolved>>

Next ==
  \E t \in Tickets :
    \/ \E m \in Moves : Move(t, m)
    \/ \E to \in AgentsOf[t] \cup {None} : Assign(t, to)
    \/ Respond(t)
    \/ Escalate(t)

Spec == Init /\ [][Next]_ticketVars
==============================================================================
