--------------------------- MODULE EscalationRules ---------------------------
(***************************************************************************)
(* The escalation policy shared by the REST service and the SLA job        *)
(* (packages/shared/src/escalation-rule.ts).  A version of a ticket type   *)
(* freezes a list of rules, one per customer type and priority; a ticket   *)
(* is judged by the rule of its own version, or by the default.            *)
(***************************************************************************)
EXTENDS Naturals, Sequences

CONSTANTS CustomerTypes, Priorities,
          NoThreshold   \* reassignmentThreshold: null, "never on reassignment"

Thresholds == Nat \cup {NoThreshold}

EscalationRule == [escalateOnSlaBreach : BOOLEAN, reassignmentThreshold : Thresholds]

EscalationRuleEntry == [customerType : CustomerTypes, priority : Priorities,
                        escalateOnSlaBreach : BOOLEAN,
                        reassignmentThreshold : Thresholds]

DefaultEscalationRule == [escalateOnSlaBreach |-> TRUE, reassignmentThreshold |-> 2]

\* The rule of a frozen snapshot for one kind of ticket.  A null snapshot (a
\* version published before rules existed) is the empty list: both miss.
ResolveEscalationRule(snapshot, customerType, priority) ==
  LET hits == {i \in DOMAIN snapshot : /\ snapshot[i].customerType = customerType
                                       /\ snapshot[i].priority = priority}
      first == CHOOSE i \in hits : \A k \in hits : i <= k
  IN  IF hits = {} THEN DefaultEscalationRule
      ELSE [escalateOnSlaBreach   |-> snapshot[first].escalateOnSlaBreach,
            reassignmentThreshold |-> snapshot[first].reassignmentThreshold]

ReachesThreshold(rule, count) ==
  /\ rule.reassignmentThreshold # NoThreshold
  /\ count >= rule.reassignmentThreshold
==============================================================================
