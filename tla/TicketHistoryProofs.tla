------------------------- MODULE TicketHistoryProofs -------------------------
(***************************************************************************)
(* Theorems about what a ticket's history says of it, for any number of    *)
(* tickets, staff, requests, SLA runs and failures: overlapping requests   *)
(* act on it one at a time, its timeline replays to its row, its           *)
(* hand-overs are counted, and an escalation is on the timeline.           *)
(***************************************************************************)
EXTENDS TicketLifecycleProofs, TicketRefinement, FiniteSetTheorems, SequenceTheorems

-----------------------------------------------------------------------------
(* What one step does to the rows and to the timelines *)

\* The fields of a row that the properties look at.
SameFields(row1, row2) ==
  /\ SameLockedFields(row1, row2)
  /\ row1.firstRespondedAt = row2.firstRespondedAt
  /\ row1.isEscalated = row2.isEscalated

FieldsKept == \A t \in Tickets : SameFields(ticket[t], ticket'[t])

OthersKept(t) == \A u \in Tickets \ {t} : ticket'[u] = ticket[u]

\* The entries es, and no others, are added to the timeline of t.
Logged(t, es) == /\ audit'[t] = audit[t] \o es
                 /\ \A u \in Tickets \ {t} : audit'[u] = audit[u]

NothingLogged == \A t \in Tickets : audit'[t] = audit[t]

\* transition(): the move it checked, from the status the ticket really has.
MoveEffect(r) ==
  LET t  == req[r].call.ticket
      to == req[r].call.arg
  IN  /\ Transition(r) /\ t \in Tickets /\ OthersKept(t)
      /\ MayMove(req[r].call.staff, ticket[t].statusKey, to)
      /\ ticket'[t].statusKey = to
      /\ ticket'[t].assignedAgentId = ticket[t].assignedAgentId
      /\ ticket'[t].reassignmentCount = ticket[t].reassignmentCount
      /\ ticket'[t].isEscalated = ticket[t].isEscalated
      /\ ticket'[t].firstRespondedAt # None
      /\ ticket'[t].resolvedAt # None <=> ticket[t].resolvedAt # None \/ to \in Terminal
      /\ Logged(t, <<Entry("TICKET_STATUS_CHANGED", r, ticket[t].statusKey, to)>>)

HandOver(t, to) ==
  ticket[t].assignedAgentId # None /\ to # None /\ to # ticket[t].assignedAgentId

\* assign(): from the agent the ticket really has.
AssignEffect(r) ==
  LET t  == req[r].call.ticket
      to == req[r].call.arg
      auto == WillAutoEscalate(t, req[r].snap, to)
  IN  /\ Assign(r) /\ t \in Tickets /\ OthersKept(t)
      /\ to \in MembersOf(TicketDept[t]) \cup {None}
      /\ ticket'[t].assignedAgentId = to
      /\ ticket'[t].statusKey = ticket[t].statusKey
      /\ ticket'[t].firstRespondedAt = ticket[t].firstRespondedAt
      /\ ticket'[t].resolvedAt = ticket[t].resolvedAt
      /\ ticket'[t].reassignmentCount = IF HandOver(t, to) THEN ticket[t].reassignmentCount + 1
                                        ELSE ticket[t].reassignmentCount
      /\ ticket'[t].isEscalated <=>
           \/ ticket[t].isEscalated
           \/ HandOver(t, to) /\ ReachesThreshold(Rule(t), ticket[t].reassignmentCount + 1)
      /\ ticket'[t].isEscalated <=> ticket[t].isEscalated \/ auto
      /\ Logged(t, (IF auto THEN <<Entry("TICKET_ESCALATED", r, None, "REASSIGNMENT_THRESHOLD")>>
                    ELSE <<>>)
                   \o (IF ticket[t].assignedAgentId # to
                       THEN <<Entry("TICKET_ASSIGNED", r, ticket[t].assignedAgentId, to)>>
                       ELSE <<>>))

\* An escalation of t, and nothing else about it.
Escalated(t) ==
  /\ OthersKept(t) /\ SameLockedFields(ticket[t], ticket'[t])
  /\ ticket'[t].firstRespondedAt = ticket[t].firstRespondedAt
  /\ ticket'[t].isEscalated

EscalateEffect(r) ==
  LET t == req[r].call.ticket
  IN  /\ Escalate(r) /\ t \in Tickets /\ Escalated(t)
      /\ Logged(t, <<Entry("TICKET_ESCALATED", r, None, "MANUAL")>>)

ClaimEffect(j, t) == /\ JobClaim(j, t) /\ ~ticket[t].isEscalated
                     /\ Escalated(t) /\ NothingLogged

JobAuditEffect(j) ==
  /\ JobAudit(j) /\ FieldsKept /\ job[j].cur \in Tickets
  /\ Logged(job[j].cur, <<Entry("TICKET_ESCALATED", j, None, "SLA_BREACH")>>)

\* addComment(): the stamp of the first response.
RespondEffect(r) ==
  LET t == req[r].call.ticket
  IN  /\ StampFirstResponse(r) /\ t \in Tickets /\ OthersKept(t) /\ NothingLogged
      /\ SameLockedFields(ticket[t], ticket'[t])
      /\ ticket'[t].isEscalated = ticket[t].isEscalated
      /\ ticket'[t].firstRespondedAt # None

\* An audit row of a request that changes no field looked at.
NoteEffect ==
  /\ FieldsKept
  /\ \E t \in Tickets, e \in AuditEntry :
       /\ e.action \notin {"TICKET_STATUS_CHANGED", "TICKET_ASSIGNED", "TICKET_ESCALATED"}
       /\ Logged(t, <<e>>)

\* No step of anybody does more than one of these.
Effect ==
  \/ FieldsKept /\ NothingLogged
  \/ NoteEffect
  \/ \E r \in Requests : MoveEffect(r) \/ AssignEffect(r) \/ EscalateEffect(r) \/ RespondEffect(r)
  \/ \E j \in Jobs : JobAuditEffect(j) \/ \E t \in Tickets : ClaimEffect(j, t)
-----------------------------------------------------------------------------
LEMMA LogAdds ==
  ASSUME TypeOK, NEW t \in Tickets, NEW es, Log(t, es)
  PROVE  Logged(t, es)
  BY DEF TypeOK, Log, Logged

\* The row after transition(), field by field.
LEMMA TransitionEffect ==
  ASSUME IInv, NEW r \in Requests, Transition(r)
  PROVE  MoveEffect(r)
  <1> DEFINE c == req[r].call
             t == c.ticket
             snap == req[r].snap
             to == c.arg
             responded == IF snap.firstRespondedAt = None THEN req[r].at
                          ELSE ticket[t].firstRespondedAt
             resolved == IF IsFirstResolution(snap, to) THEN req[r].at ELSE ticket[t].resolvedAt
             version == ticket[t].rowVersion + 1
             row == [ticket[t] EXCEPT !.statusKey = to, !.rowVersion = version,
                       !.firstRespondedAt = responded, !.resolvedAt = resolved]
  <1>1. req[r].pc = "loaded" /\ c.op = "transition"
    BY DEF Transition, At
  <1>2. /\ t \in Tickets /\ Accepts(c, snap) /\ snap \in Ticket /\ req[r].at \in Nat
        /\ Follows(snap, ticket[t]) /\ ticket[t] \in Ticket
    BY <1>1, LoadedTyped
  <1>3. SameLockedFields(snap, ticket[t])
    BY <1>2 DEF Transition, Unmodified, Follows
  <1>4. ticket' = [ticket EXCEPT ![t] = row]
    BY DEF Transition
  <1>5. MayMove(c.staff, ticket[t].statusKey, to)
    BY <1>1, <1>2, <1>3 DEF Accepts, SameLockedFields
  <1>6. /\ responded # None
        /\ resolved # None <=> ticket[t].resolvedAt # None \/ to \in Terminal
    BY <1>2, <1>3, NoneAssumption DEF Follows, SameLockedFields, IsFirstResolution
  <1>7. /\ row.statusKey = to
        /\ row.assignedAgentId = ticket[t].assignedAgentId
        /\ row.reassignmentCount = ticket[t].reassignmentCount
        /\ row.isEscalated = ticket[t].isEscalated
        /\ row.firstRespondedAt = responded /\ row.resolvedAt = resolved
    <2> HIDE DEF t, to, responded, resolved, version
    <2>1. QED
      BY <1>2 DEF Ticket
  <1>8. ticket'[t] = row /\ OthersKept(t)
    <2> HIDE DEF row
    <2>1. QED
      BY <1>2, <1>4 DEF IInv, TypeOK, OthersKept
  <1>9. Logged(t, <<Entry("TICKET_STATUS_CHANGED", r, ticket[t].statusKey, to)>>)
    BY <1>2, <1>3, LogAdds DEF Transition, SameLockedFields, IInv
  <1>10. QED
    <2> HIDE DEF row, responded, resolved
    <2>1. QED
      BY <1>2, <1>5, <1>6, <1>7, <1>8, <1>9 DEF MoveEffect

\* The row after assign(), field by field.
LEMMA AssignRow ==
  ASSUME IInv, NEW r \in Requests, Assign(r)
  PROVE  LET c    == req[r].call
             snap == req[r].snap
             old  == ticket[c.ticket]
             row  == ticket'[c.ticket]
         IN  /\ c.ticket \in Tickets /\ OthersKept(c.ticket)
             /\ row.assignedAgentId = c.arg
             /\ row.statusKey = old.statusKey
             /\ row.firstRespondedAt = old.firstRespondedAt
             /\ row.resolvedAt = old.resolvedAt
             /\ row.reassignmentCount = IF IsReassignment(snap, c.arg)
                                        THEN snap.reassignmentCount + 1
                                        ELSE old.reassignmentCount
             /\ row.isEscalated = (WillAutoEscalate(c.ticket, snap, c.arg) \/ old.isEscalated)
  <1> DEFINE t     == req[r].call.ticket
             agent == req[r].call.arg
             snap  == req[r].snap
             auto  == WillAutoEscalate(t, snap, agent)
             version == ticket[t].rowVersion + 1
             count == IF IsReassignment(snap, agent) THEN snap.reassignmentCount + 1
                      ELSE ticket[t].reassignmentCount
             escalated == auto \/ ticket[t].isEscalated
             reason == IF auto THEN "REASSIGNMENT_THRESHOLD" ELSE ticket[t].escalationReason
  <1>1. t \in Tickets /\ ticket[t] \in Ticket
    BY LoadedTyped DEF Assign, At
  <1>2. PICK time \in req[r].at .. now :
          ticket' = [ticket EXCEPT
             ![t].assignedAgentId = agent,
             ![t].rowVersion = @ + 1,
             ![t].reassignmentCount = IF IsReassignment(snap, agent)
                                      THEN snap.reassignmentCount + 1 ELSE @,
             ![t].isEscalated = auto \/ @,
             ![t].escalatedAt = IF auto THEN time ELSE @,
             ![t].escalationReason = IF auto THEN "REASSIGNMENT_THRESHOLD" ELSE @]
    BY DEF Assign
  <1> DEFINE escalatedAt == IF auto THEN time ELSE ticket[t].escalatedAt
             row == [ticket[t] EXCEPT
                       !.assignedAgentId = agent, !.rowVersion = version,
                       !.reassignmentCount = count, !.isEscalated = escalated,
                       !.escalatedAt = escalatedAt, !.escalationReason = reason]
  <1>3. ticket' = [ticket EXCEPT ![t] = row]
    BY <1>2, ZenonT(60)
  <1>4. /\ row.assignedAgentId = agent
        /\ row.statusKey = ticket[t].statusKey
        /\ row.firstRespondedAt = ticket[t].firstRespondedAt
        /\ row.resolvedAt = ticket[t].resolvedAt
        /\ row.reassignmentCount = count /\ row.isEscalated = escalated
    <2> HIDE DEF agent, version, count, escalated, escalatedAt, reason
    <2>1. QED
      BY <1>1 DEF Ticket
  <1>5. ticket'[t] = row /\ OthersKept(t)
    <2> HIDE DEF row
    <2>1. QED
      BY <1>1, <1>3 DEF IInv, TypeOK, OthersKept
  <1>6. QED
    <2> HIDE DEF row, auto
    <2>1. QED
      BY <1>1, <1>4, <1>5 DEF auto

LEMMA AssignmentEffect ==
  ASSUME IInv, NEW r \in Requests, Assign(r)
  PROVE  AssignEffect(r)
  <1> DEFINE c == req[r].call
             t == c.ticket
             to == c.arg
             snap == req[r].snap
             auto == WillAutoEscalate(t, snap, to)
             over == HandOver(t, to)
             alert == IF auto THEN <<Entry("TICKET_ESCALATED", r, None, "REASSIGNMENT_THRESHOLD")>>
                      ELSE <<>>
  <1>1. req[r].pc = "loaded" /\ c.op = "assign"
    BY DEF Assign, At
  <1>2. /\ t \in Tickets /\ Accepts(c, snap) /\ snap \in Ticket
        /\ Follows(snap, ticket[t]) /\ ticket[t] \in Ticket
    BY <1>1, LoadedTyped
  <1>3. SameLockedFields(snap, ticket[t]) /\ (snap.isEscalated => ticket[t].isEscalated)
    BY <1>2 DEF Assign, Unmodified, Follows
  <1>4. IsReassignment(snap, to) <=> over
    BY <1>3 DEF IsReassignment, HandOver, SameLockedFields
  <1>5. auto <=> /\ over /\ ~snap.isEscalated
                 /\ ReachesThreshold(Rule(t), ticket[t].reassignmentCount + 1)
    BY <1>3, <1>4 DEF WillAutoEscalate, SameLockedFields
  <1>6. to \in MembersOf(TicketDept[t]) \cup {None}
    BY <1>1, <1>2 DEF Accepts
  <1>7. /\ ticket'[t].reassignmentCount = IF over THEN ticket[t].reassignmentCount + 1
                                          ELSE ticket[t].reassignmentCount
        /\ ticket'[t].isEscalated = (auto \/ ticket[t].isEscalated)
    BY <1>3, <1>4, AssignRow DEF SameLockedFields
  <1>8. Logged(t, alert \o (IF ticket[t].assignedAgentId # to
                            THEN <<Entry("TICKET_ASSIGNED", r, ticket[t].assignedAgentId, to)>>
                            ELSE <<>>))
    BY <1>2, <1>3, LogAdds DEF Assign, SameLockedFields, IInv
  <1>9. /\ OthersKept(t) /\ ticket'[t].assignedAgentId = to
        /\ ticket'[t].statusKey = ticket[t].statusKey
        /\ ticket'[t].firstRespondedAt = ticket[t].firstRespondedAt
        /\ ticket'[t].resolvedAt = ticket[t].resolvedAt
    BY AssignRow
  <1>10. /\ ticket'[t].isEscalated <=> ticket[t].isEscalated \/ auto
         /\ ticket'[t].isEscalated <=>
              \/ ticket[t].isEscalated
              \/ over /\ ReachesThreshold(Rule(t), ticket[t].reassignmentCount + 1)
    <2> HIDE DEF auto, over
    <2> QED
      BY <1>3, <1>5, <1>7
  <1> QED
    <2> HIDE DEF auto, over, alert
    <2> QED
      BY <1>2, <1>6, <1>7, <1>8, <1>9, <1>10 DEF AssignEffect, auto, over, alert

LEMMA ManualEffect ==
  ASSUME IInv, NEW r \in Requests, Escalate(r)
  PROVE  EscalateEffect(r)
  <1> DEFINE t == req[r].call.ticket
             row == [ticket[t] EXCEPT !.isEscalated = TRUE, !.escalatedAt = now,
                                      !.escalationReason = "MANUAL"]
  <1>1. t \in Tickets /\ ticket[t] \in Ticket
    BY LoadedTyped DEF Escalate, At
  <1>2. ticket'[t] = row /\ OthersKept(t)
    BY <1>1 DEF Escalate, IInv, TypeOK, OthersKept
  <1>3. SameLockedFields(ticket[t], row) /\ row.isEscalated
        /\ row.firstRespondedAt = ticket[t].firstRespondedAt
    BY <1>1 DEF SameLockedFields, Ticket
  <1>4. Logged(t, <<Entry("TICKET_ESCALATED", r, None, "MANUAL")>>)
    BY <1>1, LogAdds DEF Escalate, IInv
  <1> HIDE DEF row
  <1> QED
    BY <1>1, <1>2, <1>3, <1>4 DEF EscalateEffect, Escalated

LEMMA StampEffect ==
  ASSUME IInv, NEW r \in Requests, StampFirstResponse(r)
  PROVE  RespondEffect(r)
  <1> DEFINE t == req[r].call.ticket
             row == [ticket[t] EXCEPT !.firstRespondedAt = now]
  <1>1. t \in Tickets /\ ticket[t] \in Ticket /\ now \in Nat
    BY BusyTyped DEF StampFirstResponse, At, IInv, TypeOK
  <1>2. ticket'[t] = row /\ OthersKept(t) /\ audit' = audit
    BY <1>1 DEF StampFirstResponse, IInv, TypeOK, OthersKept
  <1>3. SameLockedFields(ticket[t], row) /\ row.isEscalated = ticket[t].isEscalated
        /\ row.firstRespondedAt # None
    BY <1>1, NoneAssumption DEF SameLockedFields, Ticket
  <1> HIDE DEF row
  <1> QED
    BY <1>1, <1>2, <1>3 DEF RespondEffect, NothingLogged

LEMMA BreachEffect ==
  ASSUME IInv, NEW j \in Jobs, NEW t \in Tickets, JobClaim(j, t), ~ticket[t].isEscalated
  PROVE  ClaimEffect(j, t)
  <1> DEFINE row == [ticket[t] EXCEPT !.isEscalated = TRUE, !.escalatedAt = job[j].now,
                                      !.escalationReason = "SLA_BREACH"]
  <1>1. ticket[t] \in Ticket
    BY DEF IInv, TypeOK
  <1>2. ticket'[t] = row /\ OthersKept(t) /\ audit' = audit
    BY <1>1 DEF JobClaim, IInv, TypeOK, OthersKept
  <1>3. SameLockedFields(ticket[t], row) /\ row.isEscalated
        /\ row.firstRespondedAt = ticket[t].firstRespondedAt
    BY <1>1 DEF SameLockedFields, Ticket
  <1> HIDE DEF row
  <1> QED
    BY <1>1, <1>2, <1>3 DEF ClaimEffect, Escalated, NothingLogged

LEMMA AlertLogged ==
  ASSUME IInv, NEW j \in Jobs, JobAudit(j)
  PROVE  JobAuditEffect(j)
  <1>1. job[j].cur \in Tickets
    BY DEF JobAudit, IInv, HandlersWellFormed
  <1>2. FieldsKept
    BY DEF JobAudit, FieldsKept, SameFields, SameLockedFields
  <1>3. Logged(job[j].cur, <<Entry("TICKET_ESCALATED", j, None, "SLA_BREACH")>>)
    BY <1>1, LogAdds DEF JobAudit, IInv
  <1> QED
    BY <1>1, <1>2, <1>3 DEF JobAuditEffect

\* A row whose write changes no field looked at.
LEMMA UnseenWrites ==
  ASSUME IInv, NEW r \in Requests, Acknowledge(r) \/ SetArchived(r)
  PROVE  FieldsKept /\ NothingLogged
  <1> DEFINE t == req[r].call.ticket
  <1>1. t \in Tickets /\ ticket[t] \in Ticket /\ ticket \in [Tickets -> Ticket]
    BY BusyTyped DEF Acknowledge, SetArchived, At, IInv, TypeOK
  <1>2. audit' = audit
    BY DEF Acknowledge, SetArchived
  <1>3. CASE Acknowledge(r)
    BY <1>1, <1>2, <1>3 DEF Acknowledge, FieldsKept, SameFields, SameLockedFields, Ticket,
       NothingLogged
  <1>4. CASE SetArchived(r)
    BY <1>1, <1>2, <1>4 DEF SetArchived, FieldsKept, SameFields, SameLockedFields, Ticket,
       NothingLogged
  <1> QED
    BY <1>3, <1>4

LEMMA OtherAuditRows ==
  ASSUME IInv, NEW r \in Requests, AuditAcknowledge(r) \/ AuditArchived(r) \/ NotifyManager(r)
  PROVE  NoteEffect
  <1> DEFINE t == req[r].call.ticket
             Rest(e) == /\ e \in AuditEntry
                        /\ e.action \notin {"TICKET_STATUS_CHANGED", "TICKET_ASSIGNED",
                                            "TICKET_ESCALATED"}
  <1>1. t \in Tickets
    BY BusyTyped DEF AuditAcknowledge, AuditArchived, NotifyManager, At
  <1>2. FieldsKept
    BY DEF AuditAcknowledge, AuditArchived, NotifyManager, FieldsKept, SameFields,
       SameLockedFields
  <1>3. ASSUME NEW a \in {"TICKET_ESCALATION_ACKNOWLEDGED", "TICKET_ARCHIVED",
                          "TICKET_UNARCHIVED", "TICKET_MANAGER_NOTIFIED"}
        PROVE  Rest(Entry(a, r, None, None))
    BY <1>3 DEF Entry, AuditEntry, Actors
  <1>4. \E e : Rest(e) /\ Log(t, <<e>>)
    <2>1. CASE AuditAcknowledge(r)
      BY <1>3, <2>1 DEF AuditAcknowledge
    <2>2. CASE AuditArchived(r)
      BY <1>3, <2>2 DEF AuditArchived
    <2>3. CASE NotifyManager(r)
      BY <1>3, <2>3 DEF NotifyManager
    <2> QED
      BY <2>1, <2>2, <2>3
  <1>5. PICK e : Rest(e) /\ Log(t, <<e>>)
    BY <1>4
  <1>6. Logged(t, <<e>>)
    BY <1>1, <1>5, LogAdds DEF IInv
  <1> QED
    BY <1>1, <1>2, <1>5, <1>6 DEF NoteEffect

LEMMA StepEffect == ASSUME IInv, [Next]_vars PROVE Effect
  <1>1. ASSUME ticket' = ticket, audit' = audit PROVE Effect
    BY <1>1 DEF Effect, FieldsKept, SameFields, SameLockedFields, NothingLogged
  <1>2. ASSUME NEW r \in Requests, NEW c \in Calls, Load(r, c) PROVE Effect
    BY <1>1, <1>2 DEF Load, rows
  <1>3. ASSUME NEW r \in Requests, Serve(r) \/ SkipNotice(r) \/ Abort(r) PROVE Effect
    <2>1. CASE \/ Conflict(r) \/ MarkReadForTicket(r) \/ CreateComment(r)
               \/ Deliver(r) \/ SkipNotice(r) \/ Abort(r)
      BY <1>1, <2>1 DEF Conflict, MarkReadForTicket, CreateComment, Deliver, SkipNotice,
         Abort, rows
    <2>2. CASE Transition(r) \/ Assign(r) \/ Escalate(r) \/ StampFirstResponse(r)
      BY <2>2, TransitionEffect, AssignmentEffect, ManualEffect, StampEffect DEF Effect
    <2>3. CASE Acknowledge(r) \/ SetArchived(r)
      BY <2>3, UnseenWrites DEF Effect
    <2>4. CASE AuditAcknowledge(r) \/ AuditArchived(r) \/ NotifyManager(r)
      BY <2>4, OtherAuditRows DEF Effect
    <2> QED
      BY <1>3, <2>1, <2>2, <2>3, <2>4 DEF Serve
  <1>4. ASSUME NEW j \in Jobs, RunJob(j) \/ JobAbort(j) PROVE Effect
    <2>1. CASE JobScan(j) \/ JobNotify(j) \/ JobAbort(j)
      BY <1>1, <2>1 DEF JobScan, JobNotify, JobAbort, rows
    <2>2. CASE JobAudit(j)
      BY <2>2, AlertLogged DEF Effect
    <2>3. ASSUME NEW t \in Tickets, JobClaim(j, t) PROVE Effect
      <3>1. CASE ticket[t].isEscalated
        BY <1>1, <2>3, <3>1 DEF JobClaim
      <3>2. CASE ~ticket[t].isEscalated
        BY <2>3, <3>2, BreachEffect DEF Effect
      <3> QED
        BY <3>1, <3>2
    <2> QED
      BY <1>4, <2>1, <2>2, <2>3 DEF RunJob
  <1>5. ASSUME NEW u \in Readers, MarkRead(u) PROVE Effect
    BY <1>1, <1>5 DEF MarkRead, rows
  <1>6. CASE Tick \/ UNCHANGED vars
    BY <1>1, <1>6 DEF Tick, vars, rows
  <1> QED
    BY <1>2, <1>3, <1>4, <1>5, <1>6 DEF Next
-----------------------------------------------------------------------------
(* Requests act one at a time *)

LEMMA InitAtomic == Init => Abstract!Init
  <1> SUFFICES ASSUME Init PROVE Abstract!Init
    OBVIOUS
  <1>1. PICK agent \in [Tickets -> Staff \cup {None}] :
          /\ \A t \in Tickets : agent[t] \in MembersOf(TicketDept[t]) \cup {None}
          /\ \A t \in Tickets : /\ ticket[t].statusKey = InitialStatus
                                /\ ticket[t].assignedAgentId = agent[t]
                                /\ ticket[t].reassignmentCount = 0
                                /\ ticket[t].firstRespondedAt = None
                                /\ ticket[t].resolvedAt = None
                                /\ ticket[t].isEscalated = FALSE
    BY DEF Init
  <1> DEFINE agents == [t \in Tickets |-> MembersOf(TicketDept[t])]
             f == [t \in Tickets |-> ticket[t].assignedAgentId]
  <1>2. \A t \in Tickets : /\ f[t] \in agents[t] \cup {None}
                           /\ f[t] \in (UNION {agents[u] : u \in Tickets}) \cup {None}
    BY <1>1
  <1>3. f \in [Tickets -> (UNION {agents[u] : u \in Tickets}) \cup {None}]
    BY <1>2
  <1> HIDE DEF agents
  <1> QED
    BY <1>1, <1>2, <1>3 DEF Abstract!Init, agents

LEMMA MoveAtomic ==
  ASSUME IInv, NEW r \in Requests, MoveEffect(r)
  PROVE  Abstract!Next
  <1> DEFINE t == req[r].call.ticket
             to == req[r].call.arg
  <1>1. PICK m \in Moves : m.from = ticket[t].statusKey /\ m.to = to
    BY DEF MoveEffect, MayMove
  <1>2. t \in Tickets /\ OthersKept(t)
    BY DEF MoveEffect
  <1>3. /\ ticket'[t].statusKey = m.to
        /\ ticket'[t].assignedAgentId = ticket[t].assignedAgentId
        /\ ticket'[t].reassignmentCount = ticket[t].reassignmentCount
        /\ ticket'[t].isEscalated = ticket[t].isEscalated
        /\ ticket'[t].firstRespondedAt # None
        /\ ticket'[t].resolvedAt # None <=> ticket[t].resolvedAt # None \/ m.to \in Terminal
    BY <1>1 DEF MoveEffect
  <1> HIDE DEF t
  <1>4. Abstract!Move(t, m)
    BY <1>1, <1>2, <1>3 DEF Abstract!Move, OthersKept
  <1> QED
    BY <1>2, <1>4 DEF Abstract!Next

LEMMA AbstractAssign ==
  ASSUME NEW t \in Tickets, NEW to \in MembersOf(TicketDept[t]) \cup {None},
         Abstract!Assign(t, to)
  PROVE  Abstract!Next
  <1>1. to \in [u \in Tickets |-> MembersOf(TicketDept[u])][t] \cup {None}
    OBVIOUS
  <1> QED
    BY <1>1, Zenon DEF Abstract!Next

LEMMA AssignAtomic ==
  ASSUME IInv, NEW r \in Requests, AssignEffect(r)
  PROVE  Abstract!Next
  <1> PICK t \in Tickets, to \in Staff \cup {None} :
         t = req[r].call.ticket /\ to = req[r].call.arg
    BY DEF AssignEffect, MembersOf
  <1>1. t \in Tickets /\ OthersKept(t) /\ to \in MembersOf(TicketDept[t]) \cup {None}
    BY DEF AssignEffect
  <1>2. /\ ticket'[t].assignedAgentId = to
        /\ ticket'[t].statusKey = ticket[t].statusKey
        /\ ticket'[t].firstRespondedAt = ticket[t].firstRespondedAt
        /\ ticket'[t].resolvedAt = ticket[t].resolvedAt
        /\ ticket'[t].reassignmentCount = IF HandOver(t, to) THEN ticket[t].reassignmentCount + 1
                                          ELSE ticket[t].reassignmentCount
        /\ ticket'[t].isEscalated <=>
             \/ ticket[t].isEscalated
             \/ HandOver(t, to) /\ ReachesThreshold(Rule(t), ticket[t].reassignmentCount + 1)
    BY DEF AssignEffect
  <1>3. ticket[t].isEscalated \in BOOLEAN /\ ticket'[t].isEscalated \in BOOLEAN
    BY <1>1, NextPreserves DEF IInv, TypeOK, Ticket, AssignEffect, Next, Serve
  <1> DEFINE over == HandOver(t, to)
             count == ticket[t].reassignmentCount + 1
             reached == ReachesThreshold(Rule(t), count)
  <1>4. /\ [u \in Tickets |-> Rule(u)][t] = Rule(t)
        /\ [u \in Tickets |-> ticket[u].reassignmentCount][t] + 1 = count
        /\ Abstract!ReachesThreshold([u \in Tickets |-> Rule(u)][t], count) <=> reached
    BY <1>1 DEF Abstract!ReachesThreshold, ReachesThreshold
  <1>5. [u \in Tickets |-> ticket[u].assignedAgentId]'
          = [[u \in Tickets |-> ticket[u].assignedAgentId] EXCEPT ![t] = to]
    BY <1>1, <1>2 DEF OthersKept
  <1>6. [u \in Tickets |-> ticket[u].reassignmentCount]'
          = [[u \in Tickets |-> ticket[u].reassignmentCount] EXCEPT
               ![t] = IF over THEN count ELSE @]
    BY <1>1, <1>2 DEF OthersKept
  <1>7. [u \in Tickets |-> ticket[u].isEscalated]'
          = [[u \in Tickets |-> ticket[u].isEscalated] EXCEPT ![t] = @ \/ (over /\ reached)]
    BY <1>1, <1>2, <1>3 DEF OthersKept
  <1>8. UNCHANGED <<[u \in Tickets |-> ticket[u].statusKey],
                    [u \in Tickets |-> ticket[u].firstRespondedAt # None],
                    [u \in Tickets |-> ticket[u].resolvedAt # None]>>
    BY <1>1, <1>2 DEF OthersKept
  <1>9. over <=> /\ [u \in Tickets |-> ticket[u].assignedAgentId][t] # None
                 /\ to # None /\ to # [u \in Tickets |-> ticket[u].assignedAgentId][t]
    BY <1>1 DEF HandOver
  <1>10. Abstract!Assign(t, to)
    <2> HIDE DEF over, count, reached
    <2> QED
      BY <1>4, <1>5, <1>6, <1>7, <1>8, <1>9 DEF Abstract!Assign
  <1> QED
    BY <1>1, <1>10, AbstractAssign

\* By hand, or by the SLA job.
LEMMA EscalateAtomic ==
  ASSUME IInv, IInv', NEW t \in Tickets, Escalated(t)
  PROVE  Abstract!Next
  <1>1. /\ ticket'[t].isEscalated = TRUE /\ \A u \in Tickets : ticket'[u].isEscalated \in BOOLEAN
        /\ ticket'[t].statusKey = ticket[t].statusKey
        /\ ticket'[t].assignedAgentId = ticket[t].assignedAgentId
        /\ ticket'[t].reassignmentCount = ticket[t].reassignmentCount
        /\ ticket'[t].firstRespondedAt = ticket[t].firstRespondedAt
        /\ ticket'[t].resolvedAt = ticket[t].resolvedAt
        /\ \A u \in Tickets \ {t} : ticket'[u] = ticket[u]
    BY DEF Escalated, SameLockedFields, OthersKept, IInv, TypeOK, Ticket
  <1>2. [u \in Tickets |-> ticket[u].isEscalated]'
          = [[u \in Tickets |-> ticket[u].isEscalated] EXCEPT ![t] = TRUE]
    BY <1>1
  <1>3. UNCHANGED <<[u \in Tickets |-> ticket[u].statusKey],
                    [u \in Tickets |-> ticket[u].assignedAgentId],
                    [u \in Tickets |-> ticket[u].reassignmentCount],
                    [u \in Tickets |-> ticket[u].firstRespondedAt # None],
                    [u \in Tickets |-> ticket[u].resolvedAt # None]>>
    BY <1>1
  <1>4. Abstract!Escalate(t)
    BY <1>2, <1>3 DEF Abstract!Escalate
  <1> QED
    BY <1>4 DEF Abstract!Next

LEMMA RespondAtomic ==
  ASSUME IInv, NEW r \in Requests, RespondEffect(r)
  PROVE  Abstract!Next
  <1> PICK t \in Tickets : t = req[r].call.ticket
    BY DEF RespondEffect
  <1>1. /\ ticket'[t].isEscalated = ticket[t].isEscalated
        /\ ticket'[t].statusKey = ticket[t].statusKey
        /\ ticket'[t].assignedAgentId = ticket[t].assignedAgentId
        /\ ticket'[t].reassignmentCount = ticket[t].reassignmentCount
        /\ ticket'[t].firstRespondedAt # None
        /\ ticket'[t].resolvedAt = ticket[t].resolvedAt
        /\ \A u \in Tickets \ {t} : ticket'[u] = ticket[u]
    BY DEF RespondEffect, SameLockedFields, OthersKept
  <1>2. Abstract!Respond(t)
    BY <1>1 DEF Abstract!Respond
  <1> QED
    BY <1>2 DEF Abstract!Next

LEMMA SameFieldsAtomic ==
  ASSUME FieldsKept
  PROVE  UNCHANGED Abstract!ticketVars
  BY DEF FieldsKept, SameFields, SameLockedFields, Abstract!ticketVars

LEMMA StepAtomic == IInv /\ [Next]_vars => [Abstract!Next]_(Abstract!ticketVars)
  <1> SUFFICES ASSUME IInv, [Next]_vars PROVE [Abstract!Next]_(Abstract!ticketVars)
    OBVIOUS
  <1>1. IInv' /\ Effect
    BY NextPreserves, StepEffect
  <1>2. CASE FieldsKept
    BY <1>2, SameFieldsAtomic
  <1>3. ASSUME NEW r \in Requests,
               MoveEffect(r) \/ AssignEffect(r) \/ EscalateEffect(r) \/ RespondEffect(r)
        PROVE  Abstract!Next
    <2>1. CASE EscalateEffect(r)
      <3> PICK t \in Tickets : t = req[r].call.ticket /\ Escalated(t)
        BY <2>1 DEF EscalateEffect
      <3> QED
        BY <1>1, EscalateAtomic
    <2> QED
      BY <1>3, <2>1, MoveAtomic, AssignAtomic, RespondAtomic
  <1>4. ASSUME NEW j \in Jobs, NEW t \in Tickets, ClaimEffect(j, t)
        PROVE  Abstract!Next
    BY <1>1, <1>4, EscalateAtomic DEF ClaimEffect
  <1> QED
    BY <1>1, <1>2, <1>3, <1>4 DEF Effect, NoteEffect, JobAuditEffect

\* The handlers, which read ahead of their writes and overlap freely, implement
\* the ticket on which each request acts in one step.
THEOREM ActsAtomicallyAlways == Spec => ActsAtomically
  <1>1. Spec => Abstract!Init /\ [][Abstract!Next]_(Abstract!ticketVars)
    BY InvariantHolds, InitAtomic, StepAtomic, PTL DEF Spec
  <1> QED
    BY <1>1 DEF ActsAtomically, Abstract!Spec
-----------------------------------------------------------------------------
(* The timeline replays to the row *)

\* Entries() and Replays() of one timeline.
EntriesIn(log, action) == {i \in DOMAIN log : log[i].action = action}

LeftBy(log, S, initial) == IF S = {} THEN initial ELSE {log[Last(S)].after}

Chain(log, action, initial, current) ==
  LET kept == EntriesIn(log, action)
  IN  /\ \A i \in kept : log[i].before \in LeftBy(log, {k \in kept : k < i}, initial)
      /\ current \in LeftBy(log, kept, initial)

HandOversIn(log) == {i \in EntriesIn(log, "TICKET_ASSIGNED") : /\ log[i].before # None
                                                               /\ log[i].after # None}

LEMMA LastOf ==
  ASSUME NEW S \in SUBSET Nat, NEW m \in S, \A k \in S : k <= m
  PROVE  Last(S) = m
  <1>1. Last(S) \in S /\ \A k \in S : k <= Last(S)
    BY Zenon DEF Last
  <1>2. Last(S) \in Nat /\ m \in Nat /\ Last(S) <= m /\ m <= Last(S)
    BY <1>1
  <1> QED
    BY <1>2

\* The last of a set of indices is the same number in a longer log.
LEMMA AppendKeeps ==
  ASSUME NEW log \in Seq(AuditEntry), NEW e \in AuditEntry
  PROVE  /\ DOMAIN log = 1 .. Len(log) /\ Len(log) \in Nat
         /\ DOMAIN Append(log, e) = 1 .. Len(log) + 1
         /\ \A i \in DOMAIN log : Append(log, e)[i] = log[i]
         /\ Append(log, e)[Len(log) + 1] = e
  OBVIOUS

LEMMA EntriesGrow ==
  ASSUME NEW log \in Seq(AuditEntry), NEW e \in AuditEntry, NEW action
  PROVE  EntriesIn(Append(log, e), action)
           = EntriesIn(log, action) \cup (IF e.action = action THEN {Len(log) + 1} ELSE {})
  <1> DEFINE longer == Append(log, e)
             n == Len(log)
  <1>1. /\ DOMAIN log = 1 .. n /\ n \in Nat /\ DOMAIN longer = 1 .. n + 1
        /\ \A i \in DOMAIN log : longer[i] = log[i]
        /\ longer[n + 1] = e
    BY AppendKeeps
  <1> HIDE DEF longer, n
  <1>2. \A i : i \in 1 .. n + 1 <=> i \in 1 .. n \/ i = n + 1
    BY <1>1
  <1> QED
    BY <1>1, <1>2 DEF EntriesIn, longer, n

\* What a non-empty set of entries leaves is one of their values.
LEMMA LastIn ==
  ASSUME NEW n \in Nat, NEW S \in SUBSET (1 .. n), S # {}
  PROVE  Last(S) \in S /\ \A k \in S : k <= Last(S)
  <1> DEFINE T == {n - k : k \in S}
  <1>1. T \subseteq Nat /\ T # {}
    <2>1. \A k \in S : k \in Int /\ k <= n /\ n - k \in Nat
      OBVIOUS
    <2>2. PICK k \in S : TRUE
      OBVIOUS
    <2>3. n - k \in T
      OBVIOUS
    <2> QED
      BY <2>1, <2>3
  <1>2. PICK x \in T : \A y \in T : ~ (<<y, x>> \in OpToRel(<, Nat))
    BY <1>1, NatLessThanWellFounded, WFMin
  <1>3. \A y \in T : ~ (y < x)
    BY <1>1, <1>2 DEF OpToRel
  <1>4. PICK m \in S : x = n - m
    OBVIOUS
  <1>5. \A k \in S : k <= m
    <2> SUFFICES ASSUME NEW k \in S PROVE k <= m
      OBVIOUS
    <2>1. n - k \in T
      OBVIOUS
    <2>2. ~ (n - k < n - m)
      BY <1>3, <1>4, <2>1
    <2> QED
      BY <2>2
  <1> QED
    BY <1>5, Zenon DEF Last

\* An entry added later changes nothing of what earlier entries left.
LEMMA LeftByKept ==
  ASSUME NEW log \in Seq(AuditEntry), NEW e \in AuditEntry, NEW S \in SUBSET DOMAIN log,
         NEW initial
  PROVE  LeftBy(Append(log, e), S, initial) = LeftBy(log, S, initial)
  <1>1. CASE S = {}
    BY <1>1 DEF LeftBy
  <1>2. CASE S # {}
    <2>1. /\ DOMAIN log = 1 .. Len(log) /\ Len(log) \in Nat
          /\ \A i \in DOMAIN log : Append(log, e)[i] = log[i]
      BY AppendKeeps
    <2>2. Last(S) \in DOMAIN log
      BY <1>2, <2>1, LastIn
    <2> QED
      BY <1>2, <2>1, <2>2 DEF LeftBy
  <1> QED
    BY <1>1, <1>2

\* An entry of another kind is no link of the chain.
LEMMA ChainSkips ==
  ASSUME NEW log \in Seq(AuditEntry), NEW e \in AuditEntry, NEW action, e.action # action,
         NEW initial, NEW current, Chain(log, action, initial, current)
  PROVE  Chain(Append(log, e), action, initial, current)
  <1> DEFINE kept == EntriesIn(log, action)
             longer == Append(log, e)
             before(i) == {k \in kept : k < i}
  <1>1. EntriesIn(longer, action) = kept
    <2>1. EntriesIn(longer, action)
            = kept \cup (IF e.action = action THEN {Len(log) + 1} ELSE {})
      BY EntriesGrow
    <2> HIDE DEF kept, longer
    <2> QED
      BY <2>1
  <1>2. kept \subseteq DOMAIN log
    BY DEF EntriesIn
  <1>3. \A i \in kept : longer[i] = log[i]
    BY <1>2, AppendKeeps
  <1>4. \A i \in kept : LeftBy(longer, before(i), initial) = LeftBy(log, before(i), initial)
    BY <1>2, LeftByKept
  <1>5. LeftBy(longer, kept, initial) = LeftBy(log, kept, initial)
    BY <1>2, LeftByKept
  <1>6. /\ \A i \in kept : log[i].before \in LeftBy(log, before(i), initial)
        /\ current \in LeftBy(log, kept, initial)
    BY DEF Chain
  <1> HIDE DEF kept, longer
  <1>7. /\ \A i \in kept : longer[i].before \in LeftBy(longer, before(i), initial)
        /\ current \in LeftBy(longer, kept, initial)
    BY <1>3, <1>4, <1>5, <1>6
  <1> DEFINE all == EntriesIn(longer, action)
  <1>8. /\ \A i \in all : longer[i].before \in LeftBy(longer, {k \in all : k < i}, initial)
        /\ current \in LeftBy(longer, all, initial)
    <2>1. all = kept
      BY <1>1
    <2> HIDE DEF all
    <2> QED
      BY <1>7, <2>1
  <1> QED
    BY <1>8, Zenon DEF Chain, longer

\* An entry that starts from the current value is the next link.
LEMMA ChainGrows ==
  ASSUME NEW log \in Seq(AuditEntry), NEW e \in AuditEntry, NEW initial,
         Chain(log, e.action, initial, e.before)
  PROVE  Chain(Append(log, e), e.action, initial, e.after)
  <1> DEFINE kept == EntriesIn(log, e.action)
             longer == Append(log, e)
             n == Len(log) + 1
             before(i) == {k \in kept : k < i}
             more == kept \cup {n}
  <1>1. EntriesIn(longer, e.action) = more
    BY EntriesGrow
  <1>2. kept \subseteq DOMAIN log
    BY DEF EntriesIn
  <1>3. /\ n \in Nat /\ longer[n] = e
        /\ \A i \in kept : longer[i] = log[i] /\ i \in Nat /\ i < n
    BY <1>2, AppendKeeps
  <1>4. \A i \in kept : LeftBy(longer, before(i), initial) = LeftBy(log, before(i), initial)
    BY <1>2, LeftByKept
  <1>5. LeftBy(longer, kept, initial) = LeftBy(log, kept, initial)
    BY <1>2, LeftByKept
  <1>6. \A i \in kept : {k \in more : k < i} = before(i)
    BY <1>3
  <1>7. {k \in more : k < n} = kept
    BY <1>3
  <1>8. LeftBy(longer, more, initial) = {e.after}
    <2>1. Last(more) = n
      <3>1. more \in SUBSET Nat /\ n \in more /\ \A k \in more : k <= n
        BY <1>3
      <3> QED
        BY <3>1, LastOf
    <2> QED
      BY <1>3, <2>1 DEF LeftBy
  <1>9. \A i \in kept : log[i].before \in LeftBy(log, before(i), initial)
    BY DEF Chain
  <1>10. e.before \in LeftBy(log, kept, initial)
    BY DEF Chain
  <1>11. \A i \in more : longer[i].before \in LeftBy(longer, {k \in more : k < i}, initial)
    <2> HIDE DEF kept, longer, n
    <2>1. ASSUME NEW i \in kept
          PROVE  longer[i].before \in LeftBy(longer, {k \in more : k < i}, initial)
      BY <1>3, <1>4, <1>6, <1>9
    <2>2. longer[n].before \in LeftBy(longer, {k \in more : k < n}, initial)
      BY <1>3, <1>5, <1>7, <1>10
    <2> QED
      BY <2>1, <2>2
  <1> HIDE DEF longer, more, n, kept
  <1> QED
    BY <1>1, <1>8, <1>11 DEF Chain, longer

LEMMA HandOversGrow ==
  ASSUME NEW log \in Seq(AuditEntry), NEW e \in AuditEntry
  PROVE  /\ IsFiniteSet(HandOversIn(log))
         /\ e.action = "TICKET_ASSIGNED" /\ e.before # None /\ e.after # None
              => Cardinality(HandOversIn(Append(log, e))) = Cardinality(HandOversIn(log)) + 1
         /\ ~(e.action = "TICKET_ASSIGNED" /\ e.before # None /\ e.after # None)
              => HandOversIn(Append(log, e)) = HandOversIn(log)
  <1> DEFINE longer == Append(log, e)
             n == Len(log)
             old == HandOversIn(log)
             counts == e.action = "TICKET_ASSIGNED" /\ e.before # None /\ e.after # None
  <1>1. /\ DOMAIN log = 1 .. n /\ n \in Nat
        /\ \A i \in DOMAIN log : longer[i] = log[i]
        /\ longer[n + 1] = e
    BY AppendKeeps
  <1>2. old \subseteq 1 .. n
    BY <1>1 DEF HandOversIn, EntriesIn
  <1>3. IsFiniteSet(old)
    <2>1. IsFiniteSet(1 .. n)
      BY <1>1, FS_Interval
    <2> QED
      BY <1>2, <2>1, FS_Subset
  <1>4. EntriesIn(longer, "TICKET_ASSIGNED")
          = EntriesIn(log, "TICKET_ASSIGNED")
              \cup (IF e.action = "TICKET_ASSIGNED" THEN {n + 1} ELSE {})
    BY EntriesGrow
  <1>5. HandOversIn(longer) = old \cup (IF counts THEN {n + 1} ELSE {})
    <2>1. \A i \in EntriesIn(log, "TICKET_ASSIGNED") : longer[i] = log[i]
      BY <1>1 DEF EntriesIn
    <2> HIDE DEF longer, n
    <2> QED
      BY <1>1, <1>4, <2>1 DEF HandOversIn
  <1>6. n + 1 \notin old
    BY <1>1, <1>2
  <1> HIDE DEF longer, n, old, counts
  <1>7. counts => Cardinality(old \cup {n + 1}) = Cardinality(old) + 1
    BY <1>3, <1>6, FS_AddElement
  <1> QED
    BY <1>3, <1>5, <1>7 DEF longer, old, counts

\* What TimelineReplays and ReassignmentsCounted say of one ticket.
Told(t, log, row) ==
  /\ Chain(log, "TICKET_STATUS_CHANGED", {InitialStatus}, row.statusKey)
  /\ Chain(log, "TICKET_ASSIGNED", MembersOf(TicketDept[t]) \cup {None}, row.assignedAgentId)
  /\ row.reassignmentCount = Cardinality(HandOversIn(log))

TimelinesTold == \A t \in Tickets : Told(t, audit[t], ticket[t])

LEMMA ToldIsReplayed ==
  TimelinesTold <=> TimelineReplays /\ ReassignmentsCounted
  BY DEF TimelinesTold, Told, TimelineReplays, ReassignmentsCounted, Replays, Chain, LeftBy,
     Entries, EntriesIn, HandOversIn

LEMMA ToldOther ==
  ASSUME NEW t, NEW log \in Seq(AuditEntry), NEW row, NEW after, NEW e \in AuditEntry,
         Told(t, log, row), SameLockedFields(row, after),
         e.action \notin {"TICKET_STATUS_CHANGED", "TICKET_ASSIGNED"}
  PROVE  Told(t, Append(log, e), after)
  <1>1. /\ Chain(Append(log, e), "TICKET_STATUS_CHANGED", {InitialStatus}, row.statusKey)
        /\ Chain(Append(log, e), "TICKET_ASSIGNED", MembersOf(TicketDept[t]) \cup {None},
                 row.assignedAgentId)
    BY ChainSkips DEF Told
  <1>2. HandOversIn(Append(log, e)) = HandOversIn(log)
    BY HandOversGrow
  <1> QED
    BY <1>1, <1>2 DEF Told, SameLockedFields

LEMMA ToldMove ==
  ASSUME NEW t, NEW log \in Seq(AuditEntry), NEW row, NEW after, NEW e \in AuditEntry,
         Told(t, log, row),
         e.action = "TICKET_STATUS_CHANGED", e.before = row.statusKey,
         e.after = after.statusKey,
         after.assignedAgentId = row.assignedAgentId,
         after.reassignmentCount = row.reassignmentCount
  PROVE  Told(t, Append(log, e), after)
  <1>1. Chain(Append(log, e), "TICKET_STATUS_CHANGED", {InitialStatus}, after.statusKey)
    <2>1. Chain(log, e.action, {InitialStatus}, e.before)
      BY DEF Told
    <2> QED
      BY <2>1, ChainGrows
  <1>2. Chain(Append(log, e), "TICKET_ASSIGNED", MembersOf(TicketDept[t]) \cup {None},
              row.assignedAgentId)
    BY ChainSkips DEF Told
  <1>3. HandOversIn(Append(log, e)) = HandOversIn(log)
    BY HandOversGrow
  <1> QED
    BY <1>1, <1>2, <1>3 DEF Told

LEMMA ToldAssign ==
  ASSUME NEW t, NEW log \in Seq(AuditEntry), NEW row, NEW after, NEW e \in AuditEntry,
         Told(t, log, row),
         e.action = "TICKET_ASSIGNED", e.before = row.assignedAgentId,
         e.after = after.assignedAgentId,
         after.statusKey = row.statusKey,
         after.reassignmentCount = IF e.before # None /\ e.after # None
                                   THEN row.reassignmentCount + 1 ELSE row.reassignmentCount
  PROVE  Told(t, Append(log, e), after)
  <1>1. Chain(Append(log, e), "TICKET_ASSIGNED", MembersOf(TicketDept[t]) \cup {None},
              after.assignedAgentId)
    <2>1. Chain(log, e.action, MembersOf(TicketDept[t]) \cup {None}, e.before)
      BY DEF Told
    <2> QED
      BY <2>1, ChainGrows
  <1>2. Chain(Append(log, e), "TICKET_STATUS_CHANGED", {InitialStatus}, row.statusKey)
    BY ChainSkips DEF Told
  <1>3. after.reassignmentCount = Cardinality(HandOversIn(Append(log, e)))
    <2>1. row.reassignmentCount = Cardinality(HandOversIn(log))
      BY DEF Told
    <2> QED
      BY <2>1, HandOversGrow
  <1> QED
    BY <1>1, <1>2, <1>3 DEF Told

LEMMA OneOrTwoMore ==
  ASSUME NEW log \in Seq(AuditEntry), NEW e1 \in AuditEntry, NEW e2 \in AuditEntry
  PROVE  /\ log \o <<e1>> = Append(log, e1)
         /\ log \o (<<>> \o <<>>) = log
         /\ log \o (<<e1>> \o <<>>) = Append(log, e1)
         /\ log \o (<<>> \o <<e2>>) = Append(log, e2)
         /\ log \o (<<e1>> \o <<e2>>) = Append(Append(log, e1), e2)
         /\ Append(log, e1) \in Seq(AuditEntry)
  OBVIOUS

LEMMA EntriesTyped ==
  ASSUME NEW by \in Actors, NEW from \in Statuses, NEW to \in Statuses,
         NEW before \in Staff \cup {None}, NEW after \in Staff \cup {None}, NEW reason \in Reasons
  PROVE  /\ Entry("TICKET_STATUS_CHANGED", by, from, to) \in AuditEntry
         /\ Entry("TICKET_ASSIGNED", by, before, after) \in AuditEntry
         /\ Entry("TICKET_ESCALATED", by, None, reason) \in AuditEntry
  BY DEF Entry, AuditEntry

LEMMA InitTold == Init => TimelinesTold
  <1> SUFFICES ASSUME Init, NEW t \in Tickets PROVE Told(t, audit[t], ticket[t])
    BY DEF TimelinesTold
  <1>1. /\ audit[t] = <<>> /\ ticket[t].statusKey = InitialStatus
        /\ ticket[t].reassignmentCount = 0
        /\ ticket[t].assignedAgentId \in MembersOf(TicketDept[t]) \cup {None}
    BY DEF Init
  <1>2. \A action : EntriesIn(<<>>, action) = {}
    BY DEF EntriesIn
  <1>3. HandOversIn(<<>>) = {}
    BY <1>2 DEF HandOversIn
  <1>4. ASSUME NEW action, NEW initial, NEW current \in initial
        PROVE  Chain(<<>>, action, initial, current)
    BY <1>2, <1>4 DEF Chain, LeftBy
  <1> QED
    BY <1>1, <1>3, <1>4, FS_EmptySet DEF Told

\* One ticket's timeline after one step.
LEMMA MoveTold ==
  ASSUME IInv, TimelinesTold, NEW r \in Requests, MoveEffect(r)
  PROVE  TimelinesTold'
  <1> PICK t \in Tickets, to \in Statuses :
         t = req[r].call.ticket /\ to = req[r].call.arg
    <2>1. req[r].pc = "loaded" /\ req[r].call.op = "transition"
      BY DEF MoveEffect, Transition, At
    <2> QED
      BY <2>1, LoadedTyped, CallTyped DEF MoveEffect
  <1> DEFINE e == Entry("TICKET_STATUS_CHANGED", r, ticket[t].statusKey, to)
  <1>1. ticket[t] \in Ticket /\ audit[t] \in Seq(AuditEntry)
    BY DEF IInv, TypeOK
  <1>2. e \in AuditEntry
    BY <1>1 DEF Ticket, Entry, AuditEntry, Actors
  <1>3. audit'[t] = Append(audit[t], e) /\ \A u \in Tickets \ {t} : audit'[u] = audit[u]
    BY <1>1, <1>2, OneOrTwoMore DEF MoveEffect, Logged
  <1>4. /\ ticket'[t].statusKey = to
        /\ ticket'[t].assignedAgentId = ticket[t].assignedAgentId
        /\ ticket'[t].reassignmentCount = ticket[t].reassignmentCount
        /\ \A u \in Tickets \ {t} : ticket'[u] = ticket[u]
    BY DEF MoveEffect, OthersKept
  <1>5. /\ e.action = "TICKET_STATUS_CHANGED" /\ e.before = ticket[t].statusKey /\ e.after = to
    BY DEF Entry
  <1> HIDE DEF e
  <1>6. Told(t, audit'[t], ticket'[t])
    BY <1>1, <1>2, <1>3, <1>4, <1>5, ToldMove DEF TimelinesTold
  <1> QED
    BY <1>3, <1>4, <1>6 DEF TimelinesTold

LEMMA AssignTold ==
  ASSUME IInv, TimelinesTold, NEW r \in Requests, AssignEffect(r)
  PROVE  TimelinesTold'
  <1> PICK t \in Tickets, to \in Staff \cup {None} :
         t = req[r].call.ticket /\ to = req[r].call.arg
    BY DEF AssignEffect, MembersOf
  <1> DEFINE auto == WillAutoEscalate(t, req[r].snap, to)
             moved == ticket[t].assignedAgentId # to
             e1 == Entry("TICKET_ESCALATED", r, None, "REASSIGNMENT_THRESHOLD")
             e2 == Entry("TICKET_ASSIGNED", r, ticket[t].assignedAgentId, to)
             log == audit[t]
             both == (IF auto THEN <<e1>> ELSE <<>>) \o (IF moved THEN <<e2>> ELSE <<>>)
  <1>1. ticket[t] \in Ticket /\ log \in Seq(AuditEntry)
    BY DEF IInv, TypeOK
  <1>2. e1 \in AuditEntry /\ e2 \in AuditEntry
    <2>1. ticket[t].assignedAgentId \in Staff \cup {None}
      BY <1>1 DEF Ticket
    <2> QED
      BY <2>1, SchemaAssumption, EntriesTyped DEF Actors, Reasons
  <1>3. /\ e1.action = "TICKET_ESCALATED"
        /\ e2.action = "TICKET_ASSIGNED" /\ e2.before = ticket[t].assignedAgentId /\ e2.after = to
    BY DEF Entry
  <1>4. audit'[t] = log \o both /\ \A u \in Tickets \ {t} : audit'[u] = audit[u]
    BY DEF AssignEffect, Logged
  <1>5. /\ ticket'[t].assignedAgentId = to
        /\ ticket'[t].statusKey = ticket[t].statusKey
        /\ ticket'[t].resolvedAt = ticket[t].resolvedAt
        /\ ticket'[t].reassignmentCount = IF HandOver(t, to) THEN ticket[t].reassignmentCount + 1
                                          ELSE ticket[t].reassignmentCount
        /\ \A u \in Tickets \ {t} : ticket'[u] = ticket[u]
    BY DEF AssignEffect, OthersKept
  <1> HIDE DEF auto, e1, e2
  <1>6. Told(t, log, ticket[t])
    BY DEF TimelinesTold
  <1> DEFINE log1 == IF auto THEN Append(log, e1) ELSE log
  <1>7. log1 \in Seq(AuditEntry) /\ Told(t, log1, ticket[t])
    BY <1>1, <1>2, <1>3, <1>6, ToldOther DEF SameLockedFields
  <1>8. audit'[t] = IF moved THEN Append(log1, e2) ELSE log1
    <2> HIDE DEF log, moved
    <2> QED
      BY <1>1, <1>2, <1>4, OneOrTwoMore
  <1> HIDE DEF log1
  <1>9. Told(t, audit'[t], ticket'[t])
    <2>1. CASE moved
      <3>1. HandOver(t, to) <=> e2.before # None /\ e2.after # None
        BY <1>3, <2>1 DEF HandOver
      <3>2. Told(t, Append(log1, e2), ticket'[t])
        BY <1>2, <1>3, <1>5, <1>7, <3>1, ToldAssign
      <3> QED
        BY <1>8, <2>1, <3>2
    <2>2. CASE ~moved
      <3>1. ~HandOver(t, to)
        BY <2>2 DEF HandOver
      <3>2. Told(t, log1, ticket'[t])
        BY <1>5, <1>7, <2>2, <3>1 DEF Told
      <3> QED
        BY <1>8, <2>2, <3>2
    <2> QED
      BY <2>1, <2>2
  <1> QED
    BY <1>4, <1>5, <1>9 DEF TimelinesTold

\* One more entry of another kind on one timeline, and no locked field changed.
LEMMA OtherTold ==
  ASSUME IInv, TimelinesTold, NEW t \in Tickets, NEW e \in AuditEntry, Logged(t, <<e>>),
         e.action \notin {"TICKET_STATUS_CHANGED", "TICKET_ASSIGNED"},
         \A u \in Tickets : SameLockedFields(ticket[u], ticket'[u])
  PROVE  TimelinesTold'
  <1>1. audit[t] \in Seq(AuditEntry)
    BY DEF IInv, TypeOK
  <1>2. audit'[t] = Append(audit[t], e) /\ \A u \in Tickets \ {t} : audit'[u] = audit[u]
    BY <1>1, OneOrTwoMore DEF Logged
  <1>3. Told(t, audit'[t], ticket'[t])
    BY <1>1, <1>2, ToldOther DEF TimelinesTold
  <1>4. ASSUME NEW u \in Tickets \ {t} PROVE Told(u, audit'[u], ticket'[u])
    BY <1>2, <1>4 DEF TimelinesTold, Told, SameLockedFields
  <1> QED
    BY <1>3, <1>4 DEF TimelinesTold

LEMMA NoneTold ==
  ASSUME TimelinesTold, NothingLogged,
         \A u \in Tickets : SameLockedFields(ticket[u], ticket'[u])
  PROVE  TimelinesTold'
  BY DEF TimelinesTold, Told, SameLockedFields, NothingLogged

LEMMA StepTold == IInv /\ TimelinesTold /\ [Next]_vars => TimelinesTold'
  <1> SUFFICES ASSUME IInv, TimelinesTold, [Next]_vars PROVE TimelinesTold'
    OBVIOUS
  <1> DEFINE Locked == \A u \in Tickets : SameLockedFields(ticket[u], ticket'[u])
  <1>1. Effect
    BY StepEffect
  <1>2. FieldsKept => Locked
    BY DEF FieldsKept, SameFields
  <1>3. ASSUME NEW t \in Tickets, OthersKept(t), SameLockedFields(ticket[t], ticket'[t])
        PROVE  Locked
    BY <1>3 DEF OthersKept, SameLockedFields
  <1>4. CASE FieldsKept /\ NothingLogged
    BY <1>2, <1>4, NoneTold
  <1>5. CASE NoteEffect
    BY <1>2, <1>5, OtherTold DEF NoteEffect
  <1>6. ASSUME NEW r \in Requests, MoveEffect(r) \/ AssignEffect(r) PROVE TimelinesTold'
    BY <1>6, MoveTold, AssignTold
  <1>7. ASSUME NEW r \in Requests, EscalateEffect(r) PROVE TimelinesTold'
    <2> DEFINE e == Entry("TICKET_ESCALATED", r, None, "MANUAL")
    <2>1. e \in AuditEntry /\ e.action = "TICKET_ESCALATED"
      BY DEF Entry, AuditEntry, Actors, Reasons
    <2> HIDE DEF e
    <2> PICK t \in Tickets : Escalated(t) /\ Logged(t, <<e>>)
      BY <1>7 DEF EscalateEffect, e
    <2> QED
      BY <1>3, <2>1, OtherTold DEF Escalated
  <1>8. ASSUME NEW r \in Requests, RespondEffect(r) PROVE TimelinesTold'
    BY <1>3, <1>8, NoneTold DEF RespondEffect
  <1>9. ASSUME NEW j \in Jobs, JobAuditEffect(j) PROVE TimelinesTold'
    <2> DEFINE e == Entry("TICKET_ESCALATED", j, None, "SLA_BREACH")
    <2>1. e \in AuditEntry /\ e.action = "TICKET_ESCALATED"
      BY DEF Entry, AuditEntry, Actors, Reasons
    <2> HIDE DEF e
    <2>2. Logged(job[j].cur, <<e>>) /\ FieldsKept /\ job[j].cur \in Tickets
      BY <1>9 DEF JobAuditEffect, e
    <2> QED
      BY <1>2, <2>1, <2>2, OtherTold
  <1>10. ASSUME NEW j \in Jobs, NEW t \in Tickets, ClaimEffect(j, t) PROVE TimelinesTold'
    BY <1>3, <1>10, NoneTold DEF ClaimEffect, Escalated
  <1> QED
    BY <1>1, <1>4, <1>5, <1>6, <1>7, <1>8, <1>9, <1>10 DEF Effect

LEMMA AlwaysTold == Spec => []TimelinesTold
  BY InvariantHolds, InitTold, StepTold, PTL DEF Spec

\* The logged moves and assignments lead without a gap from the ticket's
\* creation to its status and its agent, whatever requests overlapped.
THEOREM TimelineAlwaysReplays == Spec => []TimelineReplays
  <1>1. TimelinesTold => TimelineReplays
    BY ToldIsReplayed
  <1> QED
    BY <1>1, AlwaysTold, PTL

\* No hand-over is lost or counted twice.
THEOREM ReassignmentsAlwaysCounted == Spec => []ReassignmentsCounted
  <1>1. TimelinesTold => ReassignmentsCounted
    BY ToldIsReplayed
  <1> QED
    BY <1>1, AlwaysTold, PTL
-----------------------------------------------------------------------------
(* Escalations on the timeline *)

HasEscalation(t) == Entries(t, "TICKET_ESCALATED") # {}

\* The SLA run j has claimed t and not yet written its audit row.
Claiming(j, t) == job[j].pc = "audit" /\ job[j].cur = t

\* The set that EscalationOnTimeline counts.
Unlogged == {t \in Tickets : /\ ticket[t].isEscalated
                             /\ Entries(t, "TICKET_ESCALATED") = {}
                             /\ ~ \E j \in Jobs : job[j].pc = "audit" /\ job[j].cur = t}

UnloggedBounded == IsFiniteSet(Unlogged) /\ Cardinality(Unlogged) <= faults

\* Every entry stays where it is.
TimelinesGrow ==
  \A t \in Tickets : \A i \in DOMAIN audit[t] :
    i \in DOMAIN audit'[t] /\ audit'[t][i] = audit[t][i]

LEMMA LongerKeeps ==
  ASSUME NEW log \in Seq(AuditEntry), NEW es \in Seq(AuditEntry)
  PROVE  \A i \in DOMAIN log : i \in DOMAIN (log \o es) /\ (log \o es)[i] = log[i]
  OBVIOUS

LEMMA FirstAdded ==
  ASSUME NEW log \in Seq(AuditEntry), NEW e \in AuditEntry, NEW es \in Seq(AuditEntry)
  PROVE  /\ Len(log) + 1 \in DOMAIN (log \o (<<e>> \o es))
         /\ (log \o (<<e>> \o es))[Len(log) + 1] = e
  <1> DEFINE new == <<e>> \o es
  <1>1. /\ new \in Seq(AuditEntry) /\ Len(new) = 1 + Len(es) /\ new[1] = e
        /\ Len(es) \in Nat /\ Len(log) \in Nat
    OBVIOUS
  <1> HIDE DEF new
  <1>2. Len(log) + 1 \in DOMAIN (log \o new) /\ (log \o new)[Len(log) + 1] = new[1]
    BY <1>1
  <1> QED
    BY <1>1, <1>2 DEF new

LEMMA LoggedGrows ==
  ASSUME IInv, NEW t \in Tickets, NEW es \in Seq(AuditEntry), Logged(t, es)
  PROVE  TimelinesGrow
  <1>1. audit[t] \in Seq(AuditEntry)
    BY DEF IInv, TypeOK
  <1>2. \A i \in DOMAIN audit[t] : i \in DOMAIN audit'[t] /\ audit'[t][i] = audit[t][i]
    BY <1>1, LongerKeeps DEF Logged
  <1> QED
    BY <1>2 DEF Logged, TimelinesGrow

LEMMA AssignGrows ==
  ASSUME IInv, NEW r \in Requests, AssignEffect(r)
  PROVE  /\ TimelinesGrow
         /\ \A t \in Tickets : ticket'[t].isEscalated => ticket[t].isEscalated \/ HasEscalation(t)'
  <1> PICK t \in Tickets, to \in Staff \cup {None} :
         t = req[r].call.ticket /\ to = req[r].call.arg
    BY DEF AssignEffect, MembersOf
  <1> DEFINE auto == WillAutoEscalate(t, req[r].snap, to)
             e1 == Entry("TICKET_ESCALATED", r, None, "REASSIGNMENT_THRESHOLD")
             e2 == Entry("TICKET_ASSIGNED", r, ticket[t].assignedAgentId, to)
             es1 == IF auto THEN <<e1>> ELSE <<>>
             es2 == IF ticket[t].assignedAgentId # to THEN <<e2>> ELSE <<>>
  <1>1. ticket[t] \in Ticket /\ audit[t] \in Seq(AuditEntry)
    BY DEF IInv, TypeOK
  <1>2. e1 \in AuditEntry /\ e2 \in AuditEntry /\ e1.action = "TICKET_ESCALATED"
    <2>1. ticket[t].assignedAgentId \in Staff \cup {None}
      BY <1>1 DEF Ticket
    <2> QED
      BY <2>1, SchemaAssumption, EntriesTyped DEF Actors, Reasons, Entry
  <1>3. Logged(t, es1 \o es2)
    BY DEF AssignEffect
  <1> HIDE DEF e1, e2
  <1>4. es1 \in Seq(AuditEntry) /\ es2 \in Seq(AuditEntry)
    BY <1>2
  <1>5. es1 \o es2 \in Seq(AuditEntry)
    <2> HIDE DEF es1, es2
    <2> QED
      BY <1>4
  <1>6. TimelinesGrow
    <2> HIDE DEF es1, es2
    <2> QED
      BY <1>3, <1>5, LoggedGrows
  <1>7. ASSUME auto PROVE HasEscalation(t)'
    <2>1. es1 = <<e1>>
      BY <1>7
    <2> HIDE DEF es1, es2
    <2>2. audit'[t] = audit[t] \o (<<e1>> \o es2)
      BY <1>3, <2>1 DEF Logged
    <2>3. Len(audit[t]) + 1 \in DOMAIN audit'[t] /\ audit'[t][Len(audit[t]) + 1] = e1
      <3> DEFINE log == audit[t]
      <3>1. log \in Seq(AuditEntry) /\ e1 \in AuditEntry /\ es2 \in Seq(AuditEntry)
        BY <1>1, <1>2, <1>4
      <3> HIDE DEF log
      <3>2. /\ Len(log) + 1 \in DOMAIN (log \o (<<e1>> \o es2))
            /\ (log \o (<<e1>> \o es2))[Len(log) + 1] = e1
        BY <3>1, FirstAdded
      <3> QED
        BY <2>2, <3>2, Zenon DEF log
    <2> QED
      BY <1>2, <2>3 DEF HasEscalation, Entries
  <1>8. /\ ticket'[t].isEscalated <=> ticket[t].isEscalated \/ auto
        /\ \A u \in Tickets \ {t} : ticket'[u] = ticket[u]
    BY DEF AssignEffect, OthersKept
  <1> HIDE DEF auto
  <1> QED
    BY <1>6, <1>7, <1>8

LEMMA OneLogged ==
  ASSUME IInv, NEW t \in Tickets, NEW e \in AuditEntry, Logged(t, <<e>>)
  PROVE  /\ TimelinesGrow
         /\ e.action = "TICKET_ESCALATED" => HasEscalation(t)'
  <1>1. audit[t] \in Seq(AuditEntry) /\ <<e>> \in Seq(AuditEntry)
    BY DEF IInv, TypeOK
  <1>2. TimelinesGrow
    BY <1>1, LoggedGrows
  <1>3. Len(audit[t]) + 1 \in DOMAIN audit'[t] /\ audit'[t][Len(audit[t]) + 1] = e
    BY <1>1 DEF Logged
  <1> QED
    BY <1>2, <1>3 DEF HasEscalation, Entries

\* An escalation is on the timeline in the step that makes it, or its SLA run
\* has just claimed the ticket.
LEMMA EscalationsLogged ==
  ASSUME IInv, [Next]_vars
  PROVE  /\ TimelinesGrow
         /\ \A t \in Tickets : ticket'[t].isEscalated =>
              \/ ticket[t].isEscalated \/ HasEscalation(t)'
              \/ \E j \in Jobs : ClaimEffect(j, t)
  <1> DEFINE Shown == \A t \in Tickets : ticket'[t].isEscalated =>
                        \/ ticket[t].isEscalated \/ HasEscalation(t)'
                        \/ \E j \in Jobs : ClaimEffect(j, t)
  <1>1. Effect
    BY StepEffect
  <1>2. FieldsKept => Shown
    BY DEF FieldsKept, SameFields
  <1>3. NothingLogged => TimelinesGrow
    BY DEF NothingLogged, TimelinesGrow
  <1>4. CASE NoteEffect
    BY <1>2, <1>4, OneLogged DEF NoteEffect
  <1>5. ASSUME NEW r \in Requests, MoveEffect(r) PROVE TimelinesGrow /\ Shown
    <2> PICK t \in Tickets, to \in Statuses :
           t = req[r].call.ticket /\ to = req[r].call.arg
      <3>1. req[r].pc = "loaded" /\ req[r].call.op = "transition"
        BY <1>5 DEF MoveEffect, Transition, At
      <3> QED
        BY <1>5, <3>1, LoadedTyped, CallTyped DEF MoveEffect
    <2> DEFINE e == Entry("TICKET_STATUS_CHANGED", r, ticket[t].statusKey, to)
    <2>1. e \in AuditEntry
      BY DEF Entry, AuditEntry, Actors, IInv, TypeOK, Ticket
    <2>2. Logged(t, <<e>>) /\ Shown
      BY <1>5 DEF MoveEffect, OthersKept
    <2> HIDE DEF e
    <2> QED
      BY <2>1, <2>2, OneLogged
  <1>6. ASSUME NEW r \in Requests, EscalateEffect(r) PROVE TimelinesGrow /\ Shown
    <2> DEFINE e == Entry("TICKET_ESCALATED", r, None, "MANUAL")
    <2>1. e \in AuditEntry /\ e.action = "TICKET_ESCALATED"
      BY DEF Entry, AuditEntry, Actors, Reasons
    <2> HIDE DEF e
    <2> PICK t \in Tickets : Escalated(t) /\ Logged(t, <<e>>)
      BY <1>6 DEF EscalateEffect, e
    <2>2. TimelinesGrow /\ HasEscalation(t)'
      BY <2>1, OneLogged
    <2> QED
      BY <2>2 DEF Escalated, OthersKept
  <1>7. ASSUME NEW r \in Requests, RespondEffect(r) PROVE Shown
    BY <1>7 DEF RespondEffect, OthersKept
  <1>8. ASSUME NEW j \in Jobs, JobAuditEffect(j) PROVE TimelinesGrow
    <2> DEFINE e == Entry("TICKET_ESCALATED", j, None, "SLA_BREACH")
    <2>1. e \in AuditEntry
      BY DEF Entry, AuditEntry, Actors, Reasons
    <2> HIDE DEF e
    <2> QED
      BY <1>8, <2>1, OneLogged DEF JobAuditEffect, e
  <1>9. ASSUME NEW j \in Jobs, NEW t \in Tickets, ClaimEffect(j, t) PROVE Shown
    BY <1>9 DEF ClaimEffect, Escalated, OthersKept
  <1> HIDE DEF Shown
  <1>10. TimelinesGrow /\ Shown
    BY <1>1, <1>2, <1>3, <1>4, <1>5, <1>6, <1>7, <1>8, <1>9, AssignGrows
    DEF Effect, NoteEffect, RespondEffect, JobAuditEffect, ClaimEffect, Shown
  <1> QED
    BY <1>10 DEF Shown

\* A run that has claimed a ticket writes its entry, or dies.
LEMMA ClaimsGoOn ==
  ASSUME IInv, [Next]_vars, NEW j \in Jobs, NEW t \in Tickets, Claiming(j, t)
  PROVE  Claiming(j, t)' \/ JobAudit(j) \/ JobAbort(j)
  <1> USE DEF Claiming
  <1>1. job \in [Jobs -> Job]
    BY DEF IInv, TypeOK
  <1>2. CASE job' = job
    BY <1>2
  <1>3. ASSUME NEW r \in Requests, NEW c \in Calls, Load(r, c) PROVE job' = job
    BY <1>3 DEF Load
  <1>4. ASSUME NEW r \in Requests, Serve(r) \/ SkipNotice(r) \/ Abort(r) PROVE job' = job
    BY <1>4 DEF Serve, Transition, Assign, Conflict, Escalate, Acknowledge, AuditAcknowledge,
       MarkReadForTicket, CreateComment, StampFirstResponse, SetArchived, AuditArchived,
       NotifyManager, Deliver, SkipNotice, Abort
  <1>5. ASSUME NEW i \in Jobs, RunJob(i) \/ JobAbort(i)
        PROVE  job'[j] = job[j] \/ JobAudit(j) \/ JobAbort(j)
    <2>1. CASE JobScan(i)
      BY <1>1, <2>1 DEF JobScan
    <2>2. CASE \E u \in Tickets : JobClaim(i, u)
      BY <1>1, <2>2 DEF JobClaim
    <2>3. CASE JobAudit(i)
      BY <1>1, <2>3 DEF JobAudit
    <2>4. CASE JobNotify(i)
      BY <1>1, <2>4 DEF JobNotify
    <2>5. CASE JobAbort(i)
      BY <1>1, <2>5 DEF JobAbort
    <2> QED
      BY <1>5, <2>1, <2>2, <2>3, <2>4, <2>5 DEF RunJob
  <1>6. ASSUME NEW u \in Readers, MarkRead(u) PROVE job' = job
    BY <1>6 DEF MarkRead
  <1>7. CASE Tick \/ UNCHANGED vars
    BY <1>2, <1>7 DEF Tick, vars
  <1> QED
    BY <1>2, <1>3, <1>4, <1>5, <1>6, <1>7 DEF Next

LEMMA FaultsGrow == ASSUME IInv, [Next]_vars PROVE faults' \in Nat /\ faults <= faults'
  <1>1. faults \in Nat
    BY DEF IInv, TypeOK
  <1> DEFINE Counted == faults' = faults \/ faults' = faults + 1
  <1>2. ASSUME NEW r \in Requests, NEW c \in Calls, Load(r, c) PROVE Counted
    BY <1>2 DEF Load
  <1>3. ASSUME NEW r \in Requests, Serve(r) PROVE Counted
    BY <1>3 DEF Serve, Transition, Assign, Conflict, Escalate, Acknowledge, AuditAcknowledge,
       MarkReadForTicket, CreateComment, StampFirstResponse, SetArchived, AuditArchived,
       NotifyManager, Deliver
  <1>4. ASSUME NEW r \in Requests, SkipNotice(r) \/ Abort(r) PROVE Counted
    BY <1>4 DEF SkipNotice, Abort
  <1>5. ASSUME NEW j \in Jobs, RunJob(j) \/ JobAbort(j) PROVE Counted
    BY <1>5 DEF RunJob, JobScan, JobClaim, JobAudit, JobNotify, JobAbort
  <1>6. ASSUME NEW u \in Readers, MarkRead(u) PROVE Counted
    BY <1>6 DEF MarkRead
  <1>7. ASSUME Tick \/ UNCHANGED vars PROVE Counted
    BY <1>7 DEF Tick, vars
  <1> HIDE DEF Counted
  <1>8. Counted
    BY <1>2, <1>3, <1>4, <1>5, <1>6, <1>7 DEF Next
  <1> QED
    BY <1>1, <1>8 DEF Counted

LEMMA EscalationStaysLogged ==
  ASSUME TimelinesGrow, NEW t \in Tickets, HasEscalation(t)
  PROVE  HasEscalation(t)'
  BY DEF TimelinesGrow, HasEscalation, Entries

LEMMA StepUnlogged ==
  ASSUME IInv, UnloggedBounded, [Next]_vars
  PROVE  UnloggedBounded'
  <1>1. /\ TimelinesGrow
        /\ \A t \in Tickets : ticket'[t].isEscalated =>
             \/ ticket[t].isEscalated \/ HasEscalation(t)'
             \/ \E j \in Jobs : ClaimEffect(j, t)
    BY EscalationsLogged
  <1>2. faults \in Nat /\ faults' \in Nat /\ faults <= faults'
    BY FaultsGrow DEF IInv, TypeOK
  <1>3. Cardinality(Unlogged) \in Nat
    BY FS_CardinalityType DEF UnloggedBounded
  <1>4. ASSUME NEW t \in Unlogged', t \notin Unlogged
        PROVE  \E j \in Jobs : JobAbort(j) /\ job[j].cur = t
    <2>1. t \in Tickets /\ ticket'[t].isEscalated /\ ~HasEscalation(t)'
      BY <1>4 DEF Unlogged, HasEscalation
    <2>2. \A j \in Jobs : ~Claiming(j, t)'
      BY <1>4 DEF Unlogged, Claiming
    <2>3. ~HasEscalation(t)
      BY <1>1, <2>1, EscalationStaysLogged
    <2>4. ASSUME NEW j \in Jobs, ClaimEffect(j, t) PROVE FALSE
      <3>1. Claiming(j, t)'
        BY <2>4 DEF ClaimEffect, JobClaim, Claiming, IInv, TypeOK, Job
      <3> QED
        BY <2>2, <3>1
    <2>5. ticket[t].isEscalated
      BY <1>1, <2>1, <2>4
    <2>6. PICK j \in Jobs : Claiming(j, t)
      BY <1>4, <2>1, <2>3, <2>5 DEF Unlogged, HasEscalation, Claiming
    <2>7. ~JobAudit(j)
      <3> SUFFICES ASSUME JobAudit(j) PROVE FALSE
        OBVIOUS
      <3> DEFINE e == Entry("TICKET_ESCALATED", j, None, "SLA_BREACH")
      <3>2. e \in AuditEntry /\ e.action = "TICKET_ESCALATED"
        BY DEF Entry, AuditEntry, Actors, Reasons
      <3> HIDE DEF e
      <3>3. Logged(t, <<e>>)
        <4>1. job[j].cur = t /\ JobAuditEffect(j)
          BY <2>6, AlertLogged DEF Claiming
        <4>2. Logged(job[j].cur, <<e>>)
          BY <4>1 DEF JobAuditEffect, e
        <4> QED
          BY <4>1, <4>2 DEF Logged
      <3>4. HasEscalation(t)'
        BY <2>1, <3>2, <3>3, OneLogged
      <3> QED
        BY <2>1, <3>4
    <2> QED
      BY <2>1, <2>2, <2>6, <2>7, ClaimsGoOn DEF Claiming
  <1>5. CASE Unlogged' \subseteq Unlogged
    <2>1. /\ IsFiniteSet(Unlogged') /\ Cardinality(Unlogged') <= Cardinality(Unlogged)
          /\ Cardinality(Unlogged') \in Nat
      BY <1>5, FS_Subset, FS_CardinalityType DEF UnloggedBounded
    <2> QED
      BY <1>2, <1>3, <2>1 DEF UnloggedBounded
  <1>6. CASE ~(Unlogged' \subseteq Unlogged)
    <2>1. PICK j \in Jobs : JobAbort(j)
      BY <1>4, <1>6
    <2> DEFINE more == Unlogged \cup {job[j].cur}
    <2>2. \A i \in Jobs : JobAbort(i) => i = j
      BY <2>1 DEF JobAbort, IInv, TypeOK, Job
    <2>3. Unlogged' \subseteq more
      BY <1>4, <2>2
    <2>4. IsFiniteSet(more) /\ Cardinality(more) <= Cardinality(Unlogged) + 1
      BY <1>3, FS_AddElement DEF UnloggedBounded
    <2> HIDE DEF more
    <2>5. /\ IsFiniteSet(Unlogged') /\ Cardinality(Unlogged') <= Cardinality(more)
          /\ Cardinality(Unlogged') \in Nat /\ Cardinality(more) \in Nat
      BY <2>3, <2>4, FS_Subset, FS_CardinalityType
    <2>6. faults' = faults + 1
      BY <2>1 DEF JobAbort
    <2>7. faults \in Nat /\ Cardinality(Unlogged) \in Nat /\ Cardinality(Unlogged) <= faults
      BY <1>3, FS_CardinalityType DEF UnloggedBounded, IInv, TypeOK
    <2>8. Cardinality(Unlogged') <= faults'
      BY <2>4, <2>5, <2>6, <2>7
    <2> QED
      BY <2>5, <2>8 DEF UnloggedBounded
  <1> QED
    BY <1>5, <1>6

LEMMA InitUnlogged == Init => UnloggedBounded
  <1> SUFFICES ASSUME Init PROVE UnloggedBounded
    OBVIOUS
  <1>1. Unlogged = {} /\ faults = 0
    BY DEF Init, Unlogged
  <1> QED
    BY <1>1, FS_EmptySet DEF UnloggedBounded

\* However many tickets and SLA runs there are, the tickets whose escalation
\* nobody logged or is about to log are no more than the failures.
THEOREM EscalationAlwaysOnTimeline == Spec => []EscalationOnTimeline
  <1>1. UnloggedBounded => EscalationOnTimeline
    BY DEF UnloggedBounded, Unlogged, EscalationOnTimeline
  <1>2. IInv /\ UnloggedBounded /\ [Next]_vars => UnloggedBounded'
    BY StepUnlogged
  <1> QED
    BY <1>1, <1>2, InitUnlogged, InvariantHolds, PTL DEF Spec
==============================================================================
