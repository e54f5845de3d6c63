------------------------ MODULE TicketLifecycleProofs ------------------------
(***************************************************************************)
(* Theorems about TicketLifecycle, for any number of tickets, staff,       *)
(* requests, SLA runs and failures and any frozen schema.  The invariant   *)
(* behind all of them is that a handler's snapshot is an earlier state of  *)
(* the row, equal to it in every locked field while the version is.        *)
(***************************************************************************)
EXTENDS TicketLifecycle, TLAPS

IInv == TypeOK /\ HandlersWellFormed /\ SnapshotsFollowed

\* Every row after the step is a later state of the row before it.
RowsFollow == \A t \in Tickets : Follows(ticket[t], ticket'[t])

\* A handler that is between its read and its write after the step was there
\* before it.
NothingLoaded == \A r \in Requests : req'[r].pc = "loaded" => req'[r] = req[r]

TicketsOK == ticket \in [Tickets -> Ticket]
-----------------------------------------------------------------------------
(* Typing of the helpers *)

LEMMA CallTyped ==
  ASSUME NEW c \in Calls
  PROVE  /\ c.op \in Ops /\ c.staff \in Staff /\ c.ticket \in Tickets
         /\ c.arg \in Statuses \cup Staff \cup Visibilities \cup {None}
         /\ c.op = "transition" => c.arg \in Statuses
         /\ c.op = "assign" => c.arg \in Staff \cup {None}
         /\ c.op = "comment" => c.arg \in Visibilities
  BY CallsAssumption DEF CallType

LEMMA ManagersAreStaff == \A d : ManagersOf(d) \subseteq Staff
  BY DEF ManagersOf, MembersOf

LEMMA NoticesTyped ==
  ASSUME NEW t, NEW s, NEW type \in NoticeTypes
  PROVE  /\ ToRequester(type) \in Notice
         /\ ToManagers(type, t) \in Notice
         /\ ToManagersBut(type, t, s) \in Notice
  BY ManagersAreStaff DEF ToRequester, ToManagers, ToManagersBut, Notice

LEMMA LogTyped ==
  ASSUME audit \in [Tickets -> Seq(AuditEntry)],
         NEW t \in Tickets, NEW es \in Seq(AuditEntry), Log(t, es)
  PROVE  audit' \in [Tickets -> Seq(AuditEntry)]
  BY DEF Log

LEMMA LogOneTyped ==
  ASSUME audit \in [Tickets -> Seq(AuditEntry)],
         NEW t \in Tickets, NEW e \in AuditEntry, Log(t, <<e>>)
  PROVE  audit' \in [Tickets -> Seq(AuditEntry)]
  <1>1. <<e>> \in Seq(AuditEntry)
    OBVIOUS
  <1>2. QED
    BY <1>1, LogTyped

\* A handler that moves on to point pc, with these notifications to send.
MovesOn(r, pc, box) ==
  /\ req' \in [Requests -> Request]
  /\ \A q \in Requests \ {r} : req'[q] = req[q]
  /\ req'[r].pc = pc /\ req'[r].call = req[r].call /\ req'[r].outbox = box

LEMMA GotoMovesOn ==
  ASSUME req \in [Requests -> Request], NEW r \in Requests, NEW pc \in Pcs, Goto(r, pc)
  PROVE  MovesOn(r, pc, req[r].outbox)
  <1> DEFINE h == [req[r] EXCEPT !.pc = pc, !.snap = None, !.at = None]
  <1>1. /\ h \in Request
        /\ h.pc = pc /\ h.call = req[r].call /\ h.outbox = req[r].outbox
    BY DEF Request, Times
  <1>2. req' = [req EXCEPT ![r] = h]
    BY DEF Goto
  <1> HIDE DEF h
  <1>3. QED
    BY <1>1, <1>2 DEF MovesOn

LEMMA SendMovesOn ==
  ASSUME req \in [Requests -> Request], NEW r \in Requests, NEW box \in Seq(Notice), Send(r, box)
  PROVE  MovesOn(r, IF box = <<>> THEN "done" ELSE "notifying", box)
  <1> DEFINE pc == IF box = <<>> THEN "done" ELSE "notifying"
             h  == [req[r] EXCEPT !.pc = pc, !.snap = None, !.at = None, !.outbox = box]
  <1>1. /\ h \in Request
        /\ h.pc = pc /\ h.call = req[r].call /\ h.outbox = box
    BY DEF Request, Times, Pcs
  <1>2. req' = [req EXCEPT ![r] = h]
    BY DEF Send
  <1> HIDE DEF h
  <1>3. QED
    BY <1>1, <1>2 DEF MovesOn

\* What such a step leaves of the invariant's part about handlers.
HandlersKept ==
  /\ req' \in [Requests -> Request]
  /\ NothingLoaded
  /\ \A q \in Requests :
       /\ req'[q].pc # "idle" => req'[q].call \in Calls
       /\ req'[q].pc = "notifying" => req'[q].outbox # <<>>

LEMMA MovesOnKeeps ==
  ASSUME HandlersWellFormed, NEW r \in Requests, req[r].pc # "idle",
         NEW pc \in Pcs \ {"idle", "loaded"}, NEW box,
         pc = "notifying" => box # <<>>, MovesOn(r, pc, box)
  PROVE  HandlersKept
  <1>1. req[r].call \in Calls
    BY DEF HandlersWellFormed
  <1>2. QED
    BY <1>1 DEF MovesOn, HandlersKept, NothingLoaded, HandlersWellFormed

LEMMA GotoKeeps ==
  ASSUME TypeOK, HandlersWellFormed, NEW r \in Requests, req[r].pc # "idle",
         NEW pc \in Pcs \ {"idle", "loaded", "notifying"}, Goto(r, pc)
  PROVE  HandlersKept
  <1>1. req \in [Requests -> Request] /\ req[r].outbox \in Seq(Notice)
    BY DEF TypeOK, Request
  <1>2. QED
    BY <1>1, GotoMovesOn, MovesOnKeeps

LEMMA SendKeeps ==
  ASSUME TypeOK, HandlersWellFormed, NEW r \in Requests, req[r].pc # "idle",
         NEW box \in Seq(Notice), Send(r, box)
  PROVE  HandlersKept
  <1>1. req \in [Requests -> Request]
    BY DEF TypeOK
  <1>2. MovesOn(r, IF box = <<>> THEN "done" ELSE "notifying", box)
    BY <1>1, SendMovesOn
  <1>3. QED
    BY <1>2, MovesOnKeeps DEF Pcs
-----------------------------------------------------------------------------
(* Typing of a written row *)

LEMMA RowWritten ==
  ASSUME ticket \in [Tickets -> Ticket], NEW t \in Tickets, NEW row \in Ticket,
         ticket' = [ticket EXCEPT ![t] = row], Follows(ticket[t], row)
  PROVE  ticket' \in [Tickets -> Ticket] /\ RowsFollow
  BY DEF RowsFollow, Follows, SameLockedFields, Ticket

LEMMA RowsUntouched ==
  ASSUME ticket \in [Tickets -> Ticket], ticket' = ticket
  PROVE  ticket' \in [Tickets -> Ticket] /\ RowsFollow
  BY DEF RowsFollow, Follows, SameLockedFields, Ticket

\* A handler that has read the ticket: its request, and its snapshot.
LEMMA LoadedTyped ==
  ASSUME IInv, NEW r \in Requests, req[r].pc = "loaded"
  PROVE  /\ req[r].call \in Calls /\ req[r].call.ticket \in Tickets
         /\ req[r].snap \in Ticket /\ req[r].at \in Nat
         /\ ticket[req[r].call.ticket] \in Ticket
         /\ Follows(req[r].snap, ticket[req[r].call.ticket])
         /\ Accepts(req[r].call, req[r].snap)
  BY CallTyped DEF IInv, TypeOK, HandlersWellFormed, SnapshotsFollowed

\* What each step of a handler preserves.
HandlerStep ==
  /\ ticket' \in [Tickets -> Ticket] /\ RowsFollow
  /\ HandlersKept
  /\ comments' \subseteq Comment
  /\ audit' \in [Tickets -> Seq(AuditEntry)]
  /\ notes' \subseteq Notification
  /\ job' = job /\ now' = now /\ faults' \in Nat

LEMMA TransitionStep ==
  ASSUME IInv, NEW r \in Requests, Transition(r)
  PROVE  HandlerStep
  <1> DEFINE t    == req[r].call.ticket
             to   == req[r].call.arg
             snap == req[r].snap
             first == IsFirstResolution(snap, to)
             responded == IF snap.firstRespondedAt = None THEN req[r].at
                          ELSE ticket[t].firstRespondedAt
             resolved == IF first THEN req[r].at ELSE ticket[t].resolvedAt
             version == ticket[t].rowVersion + 1
             row  == [ticket[t] EXCEPT !.statusKey = to, !.rowVersion = version,
                        !.firstRespondedAt = responded, !.resolvedAt = resolved]
             entry == Entry("TICKET_STATUS_CHANGED", r, snap.statusKey, to)
             box == <<ToRequester(IF first THEN "TICKET_RESOLVED" ELSE "TICKET_STATUS_CHANGED"),
                      ToManagersBut("TICKET_STATUS_UPDATE_FYI", t, req[r].call.staff)>>
  <1>1. req[r].pc = "loaded" /\ req[r].call.op = "transition"
    BY DEF Transition, At
  <1>2. /\ t \in Tickets /\ to \in Statuses /\ snap \in Ticket /\ req[r].at \in Nat
        /\ ticket[t] \in Ticket /\ Follows(snap, ticket[t])
    BY <1>1, LoadedTyped, CallTyped
  <1>3. ticket[t].rowVersion = snap.rowVersion
    BY DEF Transition, Unmodified
  <1>4. ticket' = [ticket EXCEPT ![t] = row]
    BY DEF Transition
  <1>5. /\ responded \in Times /\ resolved \in Times
        /\ version \in Nat /\ ticket[t].rowVersion < version
    <2>1. ticket[t].rowVersion \in Nat
      BY <1>2 DEF Ticket
    <2>2. QED
      BY <1>2, <2>1 DEF Ticket, Times
  <1>6. /\ responded # None
        /\ ticket[t].resolvedAt # None => resolved = ticket[t].resolvedAt
    BY <1>2, <1>3, NoneAssumption DEF Follows, SameLockedFields, IsFirstResolution
  <1>7. row \in Ticket /\ Follows(ticket[t], row)
    <2> HIDE DEF t, to, responded, resolved, version
    <2>1. row \in Ticket
      BY <1>2, <1>5 DEF Ticket
    <2>2. /\ row.rowVersion = version /\ row.isEscalated = ticket[t].isEscalated
          /\ row.firstRespondedAt = responded /\ row.resolvedAt = resolved
      BY <1>2 DEF Ticket
    <2>3. QED
      BY <1>2, <1>5, <1>6, <2>1, <2>2 DEF Follows, Ticket
  <1>8. ticket' \in [Tickets -> Ticket] /\ RowsFollow
    BY <1>2, <1>4, <1>7, RowWritten DEF IInv, TypeOK
  <1>9. HandlersKept
    <2>1. box \in Seq(Notice)
      BY NoticesTyped DEF NoticeTypes
    <2>2. Send(r, box)
      BY DEF Transition
    <2>3. QED
      BY <1>1, <2>1, <2>2, SendKeeps DEF IInv
  <1>10. audit' \in [Tickets -> Seq(AuditEntry)]
    <2>1. entry \in AuditEntry
      BY <1>2 DEF Entry, AuditEntry, Actors, Ticket
    <2>2. Log(t, <<entry>>)
      BY DEF Transition
    <2>3. QED
      BY <1>2, <2>1, <2>2, LogOneTyped DEF IInv, TypeOK
  <1>11. QED
    BY <1>8, <1>9, <1>10 DEF Transition, HandlerStep, IInv, TypeOK

LEMMA AssignStep ==
  ASSUME IInv, NEW r \in Requests, Assign(r)
  PROVE  HandlerStep
  <1> DEFINE t     == req[r].call.ticket
             agent == req[r].call.arg
             snap  == req[r].snap
             auto  == WillAutoEscalate(t, snap, agent)
             moved == snap.assignedAgentId # agent
             version == ticket[t].rowVersion + 1
             count == IF IsReassignment(snap, agent) THEN snap.reassignmentCount + 1
                      ELSE ticket[t].reassignmentCount
             escalated == auto \/ ticket[t].isEscalated
             reason == IF auto THEN "REASSIGNMENT_THRESHOLD" ELSE ticket[t].escalationReason
             alert == IF auto THEN <<ToManagers("TICKET_ESCALATED", t)>> ELSE <<>>
             news  == IF moved /\ agent # None
                      THEN <<ToRequester("TICKET_ASSIGNED"),
                             [type |-> "TICKET_ASSIGNED_TO_YOU", to |-> {agent}]>>
                      ELSE <<>>
             entry1 == Entry("TICKET_ESCALATED", r, None, "REASSIGNMENT_THRESHOLD")
             entry2 == Entry("TICKET_ASSIGNED", r, snap.assignedAgentId, agent)
             log1 == IF auto THEN <<entry1>> ELSE <<>>
             log2 == IF moved THEN <<entry2>> ELSE <<>>
  <1>1. req[r].pc = "loaded" /\ req[r].call.op = "assign"
    BY DEF Assign, At
  <1>2. /\ t \in Tickets /\ agent \in Staff \cup {None} /\ snap \in Ticket /\ req[r].at \in Nat
        /\ ticket[t] \in Ticket /\ Follows(snap, ticket[t])
    BY <1>1, LoadedTyped, CallTyped
  <1>3. PICK time \in req[r].at .. now :
          ticket' = [ticket EXCEPT
             ![t].assignedAgentId = agent,
             ![t].rowVersion = @ + 1,
             ![t].reassignmentCount = IF IsReassignment(snap, agent)
                                      THEN snap.reassignmentCount + 1 ELSE @,
             ![t].isEscalated = auto \/ @,
             ![t].escalatedAt = IF auto THEN time ELSE @,
             ![t].escalationReason = IF auto THEN "REASSIGNMENT_THRESHOLD" ELSE @]
    BY DEF Assign
  <1> DEFINE escalatedAt == IF auto THEN time ELSE ticket[t].escalatedAt
             row == [ticket[t] EXCEPT
                       !.assignedAgentId = agent, !.rowVersion = version,
                       !.reassignmentCount = count, !.isEscalated = escalated,
                       !.escalatedAt = escalatedAt, !.escalationReason = reason]
  <1>4. ticket' = [ticket EXCEPT ![t] = row]
    BY <1>3, ZenonT(60)
  <1>5. /\ version \in Nat /\ ticket[t].rowVersion < version
        /\ count \in Nat /\ reason \in Reasons \cup {None}
    <2>1. /\ ticket[t].rowVersion \in Nat /\ ticket[t].reassignmentCount \in Nat
          /\ snap.reassignmentCount \in Nat
          /\ ticket[t].escalationReason \in Reasons \cup {None}
      BY <1>2 DEF Ticket
    <2>2. QED
      BY <2>1 DEF Reasons
  <1>6. escalated \in BOOLEAN /\ (ticket[t].isEscalated => escalated)
    <2>1. ticket[t].isEscalated \in BOOLEAN
      BY <1>2 DEF Ticket
    <2>2. QED
      BY <2>1
  <1>7. escalatedAt \in Times
    <2>1. ticket[t].escalatedAt \in Times
      BY <1>2 DEF Ticket
    <2>2. time \in Nat
      BY <1>2 DEF IInv, TypeOK
    <2>3. QED
      BY <2>1, <2>2 DEF Times
  <1>8. row \in Ticket /\ Follows(ticket[t], row)
    <2> HIDE DEF t, agent, version, count, escalated, escalatedAt, reason
    <2>1. row \in Ticket
      BY <1>2, <1>5, <1>6, <1>7 DEF Ticket
    <2>2. /\ row.rowVersion = version /\ row.isEscalated = escalated
          /\ row.firstRespondedAt = ticket[t].firstRespondedAt
          /\ row.resolvedAt = ticket[t].resolvedAt
      BY <1>2 DEF Ticket
    <2>3. QED
      BY <1>2, <1>5, <1>6, <2>1, <2>2 DEF Follows, Ticket
  <1>9. ticket' \in [Tickets -> Ticket] /\ RowsFollow
    BY <1>2, <1>4, <1>8, RowWritten DEF IInv, TypeOK
  <1>10. HandlersKept
    <2>1. alert \in Seq(Notice)
      BY NoticesTyped DEF NoticeTypes
    <2>2. news \in Seq(Notice)
      <3>1. ToRequester("TICKET_ASSIGNED") \in Notice
        BY NoticesTyped DEF NoticeTypes
      <3>2. ASSUME agent # None
            PROVE  [type |-> "TICKET_ASSIGNED_TO_YOU", to |-> {agent}] \in Notice
        BY <1>2, <3>2 DEF Notice, NoticeTypes
      <3>3. QED
        BY <3>1, <3>2
    <2>3. Send(r, alert \o news)
      BY DEF Assign
    <2> HIDE DEF alert, news
    <2>4. alert \o news \in Seq(Notice)
      BY <2>1, <2>2
    <2>5. QED
      BY <1>1, <2>3, <2>4, SendKeeps DEF IInv
  <1>11. audit' \in [Tickets -> Seq(AuditEntry)]
    <2>1. entry1 \in AuditEntry
      BY DEF Entry, AuditEntry, Actors, Reasons
    <2>2. entry2 \in AuditEntry
      <3>1. snap.assignedAgentId \in Staff \cup {None}
        BY <1>2 DEF Ticket
      <3>2. QED
        BY <1>2, <3>1 DEF Entry, AuditEntry, Actors
    <2>3. Log(t, log1 \o log2)
      BY DEF Assign
    <2> HIDE DEF entry1, entry2
    <2>4. log1 \in Seq(AuditEntry) /\ log2 \in Seq(AuditEntry)
      BY <2>1, <2>2
    <2> HIDE DEF log1, log2
    <2>5. log1 \o log2 \in Seq(AuditEntry)
      BY <2>4
    <2>6. QED
      BY <1>2, <2>3, <2>5, LogTyped DEF IInv, TypeOK
  <1>12. QED
    BY <1>9, <1>10, <1>11 DEF Assign, HandlerStep, IInv, TypeOK

LEMMA ConflictStep ==
  ASSUME IInv, NEW r \in Requests, Conflict(r)
  PROVE  HandlerStep
  <1>1. req[r].pc # "idle" /\ Goto(r, "done") /\ ticket' = ticket
    BY DEF Conflict, At, rows
  <1>2. HandlersKept
    BY <1>1, GotoKeeps DEF IInv, Pcs
  <1>3. QED
    BY <1>1, <1>2, RowsUntouched DEF Conflict, HandlerStep, IInv, TypeOK, rows

LEMMA EscalateStep ==
  ASSUME IInv, NEW r \in Requests, Escalate(r)
  PROVE  HandlerStep
  <1> DEFINE t   == req[r].call.ticket
             row == [ticket[t] EXCEPT !.isEscalated = TRUE, !.escalatedAt = now,
                                      !.escalationReason = "MANUAL"]
             entry == Entry("TICKET_ESCALATED", r, None, "MANUAL")
             box == <<ToManagers("TICKET_ESCALATED", t)>>
  <1>1. req[r].pc = "loaded"
    BY DEF Escalate, At
  <1>2. t \in Tickets /\ ticket[t] \in Ticket
    BY <1>1, LoadedTyped
  <1>3. ticket' = [ticket EXCEPT ![t] = row]
    BY DEF Escalate
  <1>4. row \in Ticket /\ Follows(ticket[t], row)
    <2>1. now \in Times
      BY DEF IInv, TypeOK, Times
    <2> HIDE DEF t
    <2>2. row \in Ticket
      BY <1>2, <2>1 DEF Ticket, Reasons
    <2>3. /\ row.isEscalated /\ row.rowVersion = ticket[t].rowVersion
          /\ row.statusKey = ticket[t].statusKey
          /\ row.assignedAgentId = ticket[t].assignedAgentId
          /\ row.reassignmentCount = ticket[t].reassignmentCount
          /\ row.resolvedAt = ticket[t].resolvedAt
          /\ row.firstRespondedAt = ticket[t].firstRespondedAt
      BY <1>2 DEF Ticket
    <2>4. ticket[t].rowVersion \in Nat
      BY <1>2 DEF Ticket
    <2> HIDE DEF row
    <2>5. QED
      BY <2>2, <2>3, <2>4 DEF Follows, SameLockedFields
  <1>5. ticket' \in [Tickets -> Ticket] /\ RowsFollow
    BY <1>2, <1>3, <1>4, RowWritten DEF IInv, TypeOK
  <1>6. HandlersKept
    <2>1. box \in Seq(Notice)
      <3>1. ToManagers("TICKET_ESCALATED", t) \in Notice
        BY NoticesTyped DEF NoticeTypes
      <3>2. QED
        BY <3>1
    <2>2. Send(r, box)
      BY DEF Escalate
    <2>3. QED
      BY <1>1, <2>1, <2>2, SendKeeps DEF IInv
  <1>7. audit' \in [Tickets -> Seq(AuditEntry)]
    <2>1. entry \in AuditEntry
      BY DEF Entry, AuditEntry, Actors, Reasons
    <2>2. Log(t, <<entry>>)
      BY DEF Escalate
    <2>3. QED
      BY <1>2, <2>1, <2>2, LogOneTyped DEF IInv, TypeOK
  <1>8. QED
    BY <1>5, <1>6, <1>7 DEF Escalate, HandlerStep, IInv, TypeOK

LEMMA BusyTyped ==
  ASSUME IInv, NEW r \in Requests, req[r].pc # "idle"
  PROVE  /\ req[r].call \in Calls /\ req[r].call.ticket \in Tickets
         /\ ticket[req[r].call.ticket] \in Ticket
  BY CallTyped DEF IInv, TypeOK, HandlersWellFormed

LEMMA AcknowledgeStep ==
  ASSUME IInv, NEW r \in Requests,
         Acknowledge(r) \/ AuditAcknowledge(r) \/ MarkReadForTicket(r)
  PROVE  HandlerStep
  <1> DEFINE t == req[r].call.ticket
  <1>1. req[r].pc # "idle"
    BY DEF Acknowledge, AuditAcknowledge, MarkReadForTicket, At
  <1>2. t \in Tickets /\ ticket[t] \in Ticket
    BY <1>1, BusyTyped
  <1>3. CASE Acknowledge(r)
    <2> DEFINE row == [ticket[t] EXCEPT !.escalationAcknowledgedAt = now]
    <2>1. ticket' = [ticket EXCEPT ![t] = row]
      BY <1>3 DEF Acknowledge
    <2>2. row \in Ticket /\ Follows(ticket[t], row)
      <3> HIDE DEF t
      <3>1. row \in Ticket
        BY <1>2 DEF Ticket, IInv, TypeOK, Times
      <3>2. QED
        BY <1>2, <3>1 DEF Follows, SameLockedFields, Ticket
    <2>3. ticket' \in [Tickets -> Ticket] /\ RowsFollow
      BY <1>2, <2>1, <2>2, RowWritten DEF IInv, TypeOK
    <2>4. HandlersKept
      BY <1>1, <1>3, GotoKeeps DEF Acknowledge, IInv, Pcs
    <2>5. QED
      BY <1>3, <2>3, <2>4 DEF Acknowledge, HandlerStep, IInv, TypeOK
  <1>4. CASE AuditAcknowledge(r)
    <2> DEFINE entry == Entry("TICKET_ESCALATION_ACKNOWLEDGED", r, None, None)
    <2>1. entry \in AuditEntry /\ Log(t, <<entry>>)
      BY <1>4 DEF Entry, AuditEntry, Actors, AuditAcknowledge
    <2>2. audit' \in [Tickets -> Seq(AuditEntry)]
      BY <1>2, <2>1, LogOneTyped DEF IInv, TypeOK
    <2>3. HandlersKept
      BY <1>1, <1>4, GotoKeeps DEF AuditAcknowledge, IInv, Pcs
    <2>4. QED
      BY <1>4, <2>2, <2>3, RowsUntouched DEF AuditAcknowledge, HandlerStep, IInv, TypeOK
  <1>5. CASE MarkReadForTicket(r)
    <2>1. \A n \in notes : [n EXCEPT !.read = TRUE] \in Notification
      BY DEF IInv, TypeOK, Notification
    <2>2. notes' \subseteq Notification
      BY <1>5, <2>1 DEF MarkReadForTicket, IInv, TypeOK
    <2>3. HandlersKept
      BY <1>1, <1>5, GotoKeeps DEF MarkReadForTicket, IInv, Pcs
    <2>4. QED
      BY <1>5, <2>2, <2>3, RowsUntouched DEF MarkReadForTicket, HandlerStep, IInv, TypeOK, rows
  <1>6. QED
    BY <1>3, <1>4, <1>5

LEMMA CommentStep ==
  ASSUME IInv, NEW r \in Requests, CreateComment(r) \/ StampFirstResponse(r)
  PROVE  HandlerStep
  <1> DEFINE t == req[r].call.ticket
  <1>1. req[r].pc # "idle"
    BY DEF CreateComment, StampFirstResponse, At
  <1>2. t \in Tickets /\ ticket[t] \in Ticket /\ req[r].call \in Calls
    BY <1>1, BusyTyped
  <1>3. CommentNotices(r) \in Seq(Notice)
    BY NoticesTyped DEF CommentNotices, NoticeTypes
  <1>4. CASE CreateComment(r)
    <2>1. req[r].call.arg \in Visibilities
      BY <1>2, <1>4, CallTyped DEF CreateComment, At
    <2>2. comments' \subseteq Comment
      BY <1>2, <1>4, <2>1 DEF CreateComment, IInv, TypeOK, Comment
    <2>3. Goto(r, "done") \/ Goto(r, "written") \/ Send(r, CommentNotices(r))
      BY <1>4 DEF CreateComment
    <2>4. HandlersKept
      BY <1>1, <1>3, <2>3, GotoKeeps, SendKeeps DEF IInv, Pcs
    <2>5. QED
      BY <1>4, <2>2, <2>4, RowsUntouched DEF CreateComment, HandlerStep, IInv, TypeOK
  <1>5. CASE StampFirstResponse(r)
    <2> DEFINE row == [ticket[t] EXCEPT !.firstRespondedAt = now]
    <2>1. ticket' = [ticket EXCEPT ![t] = row]
      BY <1>5 DEF StampFirstResponse
    <2>2. row \in Ticket /\ Follows(ticket[t], row)
      <3>1. now \in Times /\ now # None
        BY NoneAssumption DEF IInv, TypeOK, Times
      <3> HIDE DEF t
      <3>2. row \in Ticket
        BY <1>2, <3>1 DEF Ticket
      <3>3. QED
        BY <1>2, <3>1, <3>2 DEF Follows, SameLockedFields, Ticket
    <2>3. ticket' \in [Tickets -> Ticket] /\ RowsFollow
      BY <1>2, <2>1, <2>2, RowWritten DEF IInv, TypeOK
    <2>4. HandlersKept
      BY <1>1, <1>3, <1>5, SendKeeps DEF StampFirstResponse, IInv
    <2>5. QED
      BY <1>5, <2>3, <2>4 DEF StampFirstResponse, HandlerStep, IInv, TypeOK
  <1>6. QED
    BY <1>4, <1>5

LEMMA ArchiveStep ==
  ASSUME IInv, NEW r \in Requests, SetArchived(r) \/ AuditArchived(r)
  PROVE  HandlerStep
  <1> DEFINE t == req[r].call.ticket
  <1>1. req[r].pc # "idle"
    BY DEF SetArchived, AuditArchived, At
  <1>2. t \in Tickets /\ ticket[t] \in Ticket
    BY <1>1, BusyTyped
  <1>3. CASE SetArchived(r)
    <2> DEFINE archived == req[r].call.op = "archive"
               row == [ticket[t] EXCEPT !.isArchived = archived]
    <2>1. ticket' = [ticket EXCEPT ![t] = row]
      BY <1>3 DEF SetArchived
    <2>2. row \in Ticket /\ Follows(ticket[t], row)
      <3>1. archived \in BOOLEAN
        OBVIOUS
      <3> HIDE DEF t, archived
      <3>2. row \in Ticket
        BY <1>2, <3>1 DEF Ticket
      <3>3. QED
        BY <1>2, <3>2 DEF Follows, SameLockedFields, Ticket
    <2>3. ticket' \in [Tickets -> Ticket] /\ RowsFollow
      BY <1>2, <2>1, <2>2, RowWritten DEF IInv, TypeOK
    <2>4. HandlersKept
      BY <1>1, <1>3, GotoKeeps DEF SetArchived, IInv, Pcs
    <2>5. QED
      BY <1>3, <2>3, <2>4 DEF SetArchived, HandlerStep, IInv, TypeOK
  <1>4. CASE AuditArchived(r)
    <2> DEFINE action == IF req[r].call.op = "archive" THEN "TICKET_ARCHIVED" ELSE "TICKET_UNARCHIVED"
               entry == Entry(action, r, None, None)
    <2>1. entry \in AuditEntry /\ Log(t, <<entry>>)
      BY <1>4 DEF Entry, AuditEntry, Actors, AuditArchived
    <2>2. audit' \in [Tickets -> Seq(AuditEntry)]
      BY <1>2, <2>1, LogOneTyped DEF IInv, TypeOK
    <2>3. HandlersKept
      BY <1>1, <1>4, GotoKeeps DEF AuditArchived, IInv, Pcs
    <2>4. QED
      BY <1>4, <2>2, <2>3, RowsUntouched DEF AuditArchived, HandlerStep, IInv, TypeOK
  <1>5. QED
    BY <1>3, <1>4

LEMMA NotifyManagerStep ==
  ASSUME IInv, NEW r \in Requests, NotifyManager(r)
  PROVE  HandlerStep
  <1> DEFINE t == req[r].call.ticket
             entry == Entry("TICKET_MANAGER_NOTIFIED", r, None, None)
             box == <<ToManagers("TICKET_MANAGER_FYI", t)>>
  <1>1. req[r].pc # "idle"
    BY DEF NotifyManager, At
  <1>2. t \in Tickets
    BY <1>1, BusyTyped
  <1>3. entry \in AuditEntry /\ Log(t, <<entry>>)
    BY DEF Entry, AuditEntry, Actors, NotifyManager
  <1>4. audit' \in [Tickets -> Seq(AuditEntry)]
    BY <1>2, <1>3, LogOneTyped DEF IInv, TypeOK
  <1>5. box \in Seq(Notice) /\ Send(r, box)
    BY NoticesTyped DEF NoticeTypes, NotifyManager
  <1>6. HandlersKept
    BY <1>1, <1>5, SendKeeps DEF IInv
  <1>7. QED
    BY <1>4, <1>6, RowsUntouched DEF NotifyManager, HandlerStep, IInv, TypeOK

LEMMA RowsTyped ==
  ASSUME NEW by \in Actors, NEW t \in Tickets, NEW notice \in Notice
  PROVE  Rows(by, t, notice) \subseteq Notification
  <1>1. notice.type \in NoticeTypes /\ notice.to \subseteq Staff \cup {Requester}
    BY DEF Notice
  <1>2. \A u \in notice.to :
          [by |-> by, ticket |-> t, type |-> notice.type, to |-> u, read |-> FALSE] \in Notification
    BY <1>1 DEF Notification
  <1>3. QED
    BY <1>2 DEF Rows

LEMMA NoticeStep ==
  ASSUME IInv, NEW r \in Requests, Deliver(r) \/ SkipNotice(r)
  PROVE  HandlerStep
  <1> DEFINE t == req[r].call.ticket
             box == req[r].outbox
  <1>1. req[r].pc = "notifying"
    BY DEF Deliver, SkipNotice
  <1>2. t \in Tickets /\ box \in Seq(Notice) /\ box # <<>>
    BY <1>1, BusyTyped DEF IInv, TypeOK, Request, HandlersWellFormed
  <1>3. Head(box) \in Notice /\ Tail(box) \in Seq(Notice)
    BY <1>2
  <1>4. Send(r, Tail(box))
    BY DEF Deliver, SkipNotice
  <1>5. HandlersKept
    BY <1>1, <1>3, <1>4, SendKeeps DEF IInv
  <1>6. notes' \subseteq Notification
    <2>1. Rows(r, t, Head(box)) \subseteq Notification
      BY <1>2, <1>3, RowsTyped DEF Actors
    <2>2. QED
      BY <2>1 DEF Deliver, SkipNotice, IInv, TypeOK
  <1>7. faults' \in Nat
    BY DEF Deliver, SkipNotice, IInv, TypeOK
  <1>8. QED
    BY <1>5, <1>6, <1>7, RowsUntouched DEF Deliver, SkipNotice, HandlerStep, IInv, TypeOK, rows

LEMMA AbortStep ==
  ASSUME IInv, NEW r \in Requests, Abort(r)
  PROVE  HandlerStep
  <1>1. req[r].pc # "idle" /\ Goto(r, "failed") /\ faults' \in Nat
    BY DEF Abort, IInv, TypeOK
  <1>2. HandlersKept
    BY <1>1, GotoKeeps DEF IInv, Pcs
  <1>3. QED
    BY <1>1, <1>2, RowsUntouched DEF Abort, HandlerStep, IInv, TypeOK, rows
-----------------------------------------------------------------------------
(* From the steps to the invariant *)

LEMMA FollowsTransitive ==
  ASSUME NEW x \in Ticket, NEW y \in Ticket, NEW z \in Ticket, Follows(x, y), Follows(y, z)
  PROVE  Follows(x, z)
  <1>1. x.rowVersion \in Nat /\ y.rowVersion \in Nat /\ z.rowVersion \in Nat
    BY DEF Ticket
  <1>2. QED
    BY <1>1 DEF Follows, SameLockedFields

\* Rows only move on, so a snapshot stays behind its row.
LEMMA SnapshotsStayBehind ==
  ASSUME IInv, ticket' \in [Tickets -> Ticket], RowsFollow, NothingLoaded
  PROVE  SnapshotsFollowed'
  <1> SUFFICES ASSUME NEW r \in Requests, req'[r].pc = "loaded"
               PROVE  Follows(req'[r].snap, ticket'[req'[r].call.ticket])
    BY DEF SnapshotsFollowed
  <1> DEFINE t == req[r].call.ticket
  <1>1. req'[r] = req[r] /\ req[r].pc = "loaded"
    BY DEF NothingLoaded
  <1>2. t \in Tickets /\ req[r].snap \in Ticket /\ ticket[t] \in Ticket /\ Follows(req[r].snap, ticket[t])
    BY <1>1, LoadedTyped
  <1>3. Follows(ticket[t], ticket'[t]) /\ ticket'[t] \in Ticket
    BY <1>2 DEF RowsFollow
  <1>4. QED
    BY <1>1, <1>2, <1>3, FollowsTransitive

LEMMA HandlerStepPreserves ==
  ASSUME IInv, HandlerStep
  PROVE  IInv'
  <1>1. TypeOK'
    BY DEF IInv, TypeOK, HandlerStep, HandlersKept
  <1>2. HandlersWellFormed'
    BY DEF IInv, HandlersWellFormed, HandlerStep, HandlersKept, NothingLoaded
  <1>3. SnapshotsFollowed'
    BY SnapshotsStayBehind DEF HandlerStep, HandlersKept
  <1>4. QED
    BY <1>1, <1>2, <1>3 DEF IInv

LEMMA LoadPreserves ==
  ASSUME IInv, NEW r \in Requests, NEW c \in Calls, Load(r, c)
  PROVE  IInv' /\ RowsFollow
  <1> DEFINE h == [req[r] EXCEPT !.pc = "loaded", !.call = c, !.snap = ticket[c.ticket], !.at = now]
  <1>1. c.ticket \in Tickets /\ ticket[c.ticket] \in Ticket /\ c \in CallType
    BY CallTyped, CallsAssumption DEF IInv, TypeOK
  <1>2. now \in Nat
    BY DEF IInv, TypeOK
  <1>3. /\ h \in Request
        /\ h.pc = "loaded" /\ h.call = c /\ h.snap = ticket[c.ticket] /\ h.at = now
    BY <1>1, <1>2 DEF IInv, TypeOK, Request, Pcs, Times
  <1>4. req' = [req EXCEPT ![r] = h]
    BY DEF Load
  <1> HIDE DEF h
  <1>5. /\ req' \in [Requests -> Request] /\ req'[r] = h
        /\ \A q \in Requests \ {r} : req'[q] = req[q]
    BY <1>3, <1>4 DEF IInv, TypeOK
  <1>6. TypeOK'
    BY <1>5 DEF Load, IInv, TypeOK, rows
  <1>7. HandlersWellFormed'
    BY <1>1, <1>2, <1>3, <1>5 DEF Load, IInv, HandlersWellFormed, rows
  <1>8. Follows(ticket[c.ticket], ticket[c.ticket])
    BY <1>1 DEF Follows, SameLockedFields, Ticket
  <1>9. SnapshotsFollowed'
    BY <1>3, <1>5, <1>8 DEF Load, IInv, SnapshotsFollowed, rows
  <1>10. RowsFollow
    BY RowsUntouched DEF Load, rows, IInv, TypeOK
  <1>11. QED
    BY <1>6, <1>7, <1>9, <1>10 DEF IInv

\* What each step of the SLA job preserves.
JobStep ==
  /\ ticket' \in [Tickets -> Ticket] /\ RowsFollow
  /\ job' \in [Jobs -> Job]
  /\ \A j \in Jobs : job'[j].pc \in {"audit", "notify"} => job'[j].cur \in Tickets
  /\ audit' \in [Tickets -> Seq(AuditEntry)]
  /\ notes' \subseteq Notification
  /\ UNCHANGED <<comments, req, now>> /\ faults' \in Nat

LEMMA JobStepPreserves ==
  ASSUME IInv, JobStep
  PROVE  IInv'
  <1>1. TypeOK'
    BY DEF IInv, TypeOK, JobStep
  <1>2. HandlersWellFormed'
    BY DEF IInv, HandlersWellFormed, JobStep
  <1>3. SnapshotsFollowed'
    BY SnapshotsStayBehind DEF JobStep, NothingLoaded
  <1>4. QED
    BY <1>1, <1>2, <1>3 DEF IInv

\* A run of the job in its next state.
LEMMA JobMoved ==
  ASSUME IInv, NEW j \in Jobs, NEW run \in Job, job' = [job EXCEPT ![j] = run],
         run.pc \in {"audit", "notify"} => run.cur \in Tickets
  PROVE  /\ job' \in [Jobs -> Job]
         /\ \A i \in Jobs : job'[i].pc \in {"audit", "notify"} => job'[i].cur \in Tickets
  BY DEF IInv, TypeOK, HandlersWellFormed

LEMMA JobScanStep ==
  ASSUME IInv, NEW j \in Jobs, JobScan(j)
  PROVE  JobStep
  <1> DEFINE run == [pc |-> "loop", now |-> now, todo |-> Candidates(now), cur |-> None]
  <1>1. run \in Job
    BY DEF Job, Candidates, IInv, TypeOK
  <1>2. job' = [job EXCEPT ![j] = run]
    BY DEF JobScan
  <1>3. QED
    BY <1>1, <1>2, JobMoved, RowsUntouched DEF JobScan, JobStep, IInv, TypeOK, rows

LEMMA JobClaimStep ==
  ASSUME IInv, NEW j \in Jobs, NEW t \in Tickets, JobClaim(j, t)
  PROVE  JobStep
  <1> DEFINE todo == job[j].todo \ {t}
  <1>1. job[j] \in Job /\ todo \subseteq Tickets /\ ticket[t] \in Ticket
    BY DEF IInv, TypeOK, Job
  <1>2. CASE ticket[t].isEscalated
    <2> DEFINE run == [job[j] EXCEPT !.todo = todo, !.pc = Resume(j, todo)]
    <2>1. run \in Job /\ run.pc \in {"idle", "loop"}
      BY <1>1 DEF Job, Resume
    <2>2. job' = [job EXCEPT ![j] = run] /\ ticket' = ticket
      BY <1>2 DEF JobClaim
    <2>3. QED
      BY <2>1, <2>2, JobMoved, RowsUntouched DEF JobClaim, JobStep, IInv, TypeOK
  <1>3. CASE ~ticket[t].isEscalated
    <2> DEFINE run == [job[j] EXCEPT !.todo = todo, !.pc = "audit", !.cur = t]
               row == [ticket[t] EXCEPT !.isEscalated = TRUE, !.escalatedAt = job[j].now,
                                        !.escalationReason = "SLA_BREACH"]
    <2>1. run \in Job /\ run.cur = t
      BY <1>1 DEF Job
    <2>2. job' = [job EXCEPT ![j] = run] /\ ticket' = [ticket EXCEPT ![t] = row]
      BY <1>3 DEF JobClaim
    <2>3. row \in Ticket /\ Follows(ticket[t], row)
      <3>1. job[j].now \in Times
        BY <1>1 DEF Job, Times
      <3>2. row \in Ticket
        BY <1>1, <3>1 DEF Ticket, Reasons
      <3>3. QED
        BY <1>1, <3>2 DEF Follows, SameLockedFields, Ticket
    <2>4. ticket' \in [Tickets -> Ticket] /\ RowsFollow
      BY <2>2, <2>3, RowWritten DEF IInv, TypeOK
    <2>5. QED
      BY <2>1, <2>2, <2>4, JobMoved, ZenonT(60) DEF JobClaim, JobStep, IInv, TypeOK
  <1>4. QED
    BY <1>2, <1>3

LEMMA JobAuditStep ==
  ASSUME IInv, NEW j \in Jobs, JobAudit(j)
  PROVE  JobStep
  <1> DEFINE run == [job[j] EXCEPT !.pc = "notify"]
             entry == Entry("TICKET_ESCALATED", j, None, "SLA_BREACH")
  <1>1. job[j] \in Job /\ job[j].cur \in Tickets
    BY DEF JobAudit, IInv, TypeOK, HandlersWellFormed
  <1>2. run \in Job /\ run.cur = job[j].cur /\ job' = [job EXCEPT ![j] = run]
    BY <1>1 DEF Job, JobAudit
  <1>3. entry \in AuditEntry /\ Log(job[j].cur, <<entry>>)
    BY DEF Entry, AuditEntry, Actors, Reasons, JobAudit
  <1>4. audit' \in [Tickets -> Seq(AuditEntry)]
    BY <1>1, <1>3, LogOneTyped DEF IInv, TypeOK
  <1>5. QED
    BY <1>1, <1>2, <1>4, JobMoved, RowsUntouched DEF JobAudit, JobStep, IInv, TypeOK

LEMMA JobNotifyStep ==
  ASSUME IInv, NEW j \in Jobs, JobNotify(j)
  PROVE  JobStep
  <1> DEFINE run == [job[j] EXCEPT !.pc = Resume(j, job[j].todo), !.cur = None]
             notice == ToManagers("TICKET_ESCALATED", job[j].cur)
  <1>1. job[j] \in Job /\ job[j].cur \in Tickets
    BY DEF JobNotify, IInv, TypeOK, HandlersWellFormed
  <1>2. run \in Job /\ run.pc \in {"idle", "loop"} /\ job' = [job EXCEPT ![j] = run]
    BY <1>1 DEF Job, JobNotify, Resume
  <1>3. notice \in Notice
    BY NoticesTyped DEF NoticeTypes
  <1>4. notes' \subseteq Notification
    BY <1>1, <1>3, RowsTyped DEF JobNotify, IInv, TypeOK, Actors
  <1>5. QED
    BY <1>2, <1>4, JobMoved, RowsUntouched DEF JobNotify, JobStep, IInv, TypeOK, rows

LEMMA JobAbortStep ==
  ASSUME IInv, NEW j \in Jobs, JobAbort(j)
  PROVE  JobStep
  <1> DEFINE run == [job[j] EXCEPT !.pc = "idle", !.todo = {}, !.cur = None]
  <1>1. job[j] \in Job
    BY DEF IInv, TypeOK
  <1>2. run \in Job /\ run.pc = "idle" /\ job' = [job EXCEPT ![j] = run]
    BY <1>1 DEF Job, JobAbort
  <1>3. faults' \in Nat
    BY DEF JobAbort, IInv, TypeOK
  <1>4. RowsFollow
    BY RowsUntouched DEF JobAbort, IInv, TypeOK, rows
  <1>5. QED
    BY <1>2, <1>3, <1>4, JobMoved DEF JobAbort, JobStep, IInv, TypeOK, rows

\* Every step of the specification keeps the invariant, and no row ever goes back.
LEMMA NextPreserves ==
  ASSUME IInv, [Next]_vars
  PROVE  IInv' /\ RowsFollow
  <1>1. ASSUME HandlerStep PROVE IInv' /\ RowsFollow
    BY <1>1, HandlerStepPreserves DEF HandlerStep
  <1>2. ASSUME JobStep PROVE IInv' /\ RowsFollow
    BY <1>2, JobStepPreserves DEF JobStep
  <1>3. ASSUME NEW r \in Requests, NEW c \in Calls, Load(r, c) PROVE IInv' /\ RowsFollow
    BY <1>3, LoadPreserves
  <1>4. ASSUME NEW r \in Requests, Serve(r) \/ SkipNotice(r) \/ Abort(r) PROVE IInv' /\ RowsFollow
    <2>1. HandlerStep
      BY <1>4, TransitionStep, AssignStep, ConflictStep, EscalateStep, AcknowledgeStep,
         CommentStep, ArchiveStep, NotifyManagerStep, NoticeStep, AbortStep DEF Serve
    <2>2. QED
      BY <1>1, <2>1
  <1>5. ASSUME NEW j \in Jobs, RunJob(j) \/ JobAbort(j) PROVE IInv' /\ RowsFollow
    <2>1. JobStep
      BY <1>5, JobScanStep, JobClaimStep, JobAuditStep, JobNotifyStep, JobAbortStep DEF RunJob
    <2>2. QED
      BY <1>2, <2>1
  <1>6. ASSUME NEW u \in Readers, MarkRead(u) PROVE IInv' /\ RowsFollow
    <2>1. PICK n \in notes : notes' = (notes \ {n}) \cup {[n EXCEPT !.read = TRUE]}
      BY <1>6 DEF MarkRead
    <2>2. [n EXCEPT !.read = TRUE] \in Notification
      BY DEF IInv, TypeOK, Notification
    <2>3. notes' \subseteq Notification
      BY <2>1, <2>2 DEF IInv, TypeOK
    <2>4. RowsFollow
      BY <1>6, RowsUntouched DEF MarkRead, IInv, TypeOK, rows
    <2>5. IInv'
      BY <1>6, <2>3 DEF MarkRead, IInv, TypeOK, HandlersWellFormed, SnapshotsFollowed, rows
    <2>6. QED
      BY <2>4, <2>5
  <1>7. CASE Tick
    <2>1. RowsFollow
      BY <1>7, RowsUntouched DEF Tick, IInv, TypeOK, rows
    <2>2. now \in Nat /\ now' = now + 1
      BY <1>7 DEF Tick, IInv, TypeOK
    <2>3. HandlersWellFormed'
      BY <1>7, <2>2 DEF Tick, IInv, HandlersWellFormed, rows
    <2>4. IInv'
      BY <1>7, <2>2, <2>3 DEF Tick, IInv, TypeOK, SnapshotsFollowed, rows
    <2>5. QED
      BY <2>1, <2>4
  <1>8. CASE UNCHANGED vars
    <2>1. RowsFollow
      BY <1>8, RowsUntouched DEF vars, IInv, TypeOK
    <2>2. IInv'
      BY <1>8 DEF vars, IInv, TypeOK, HandlersWellFormed, SnapshotsFollowed
    <2>3. QED
      BY <2>1, <2>2
  <1>9. QED
    BY <1>3, <1>4, <1>5, <1>6, <1>7, <1>8 DEF Next

LEMMA InitEstablishes == Init => IInv
  <1> SUFFICES ASSUME Init PROVE IInv
    OBVIOUS
  <1>1. ticket \in [Tickets -> Ticket]
    BY SchemaAssumption DEF Init, Ticket, Times
  <1>2. req \in [Requests -> Request]
    BY DEF Init, Request, Pcs, Times
  <1>3. job \in [Jobs -> Job]
    BY DEF Init, Job
  <1>4. TypeOK
    <2>1. comments \subseteq Comment /\ notes \subseteq Notification
      BY DEF Init
    <2>2. audit \in [Tickets -> Seq(AuditEntry)]
      BY DEF Init
    <2>3. now \in Nat /\ faults \in Nat
      BY DEF Init
    <2>4. QED
      BY <1>1, <1>2, <1>3, <2>1, <2>2, <2>3 DEF TypeOK
  <1>5. HandlersWellFormed /\ SnapshotsFollowed
    BY DEF Init, HandlersWellFormed, SnapshotsFollowed
  <1>6. QED
    BY <1>4, <1>5 DEF IInv
-----------------------------------------------------------------------------
LEMMA InvariantHolds == Spec => []IInv
  <1>1. IInv /\ [Next]_vars => IInv'
    BY NextPreserves
  <1>2. QED
    BY InitEstablishes, <1>1, PTL DEF Spec

\* Every state has the types the code's tables and handlers give it.
THEOREM TypeCorrect == Spec => []TypeOK
  <1>1. IInv => TypeOK
    BY DEF IInv
  <1>2. QED
    BY <1>1, InvariantHolds, PTL

\* A handler whose row version is still current has read the current status,
\* agent, reassignment count and resolution: the version is a lock on them,
\* whatever requests, SLA runs and failures go on around it.
THEOREM SnapshotsAreFollowed == Spec => []SnapshotsFollowed
  <1>1. IInv => SnapshotsFollowed
    BY DEF IInv
  <1>2. QED
    BY <1>1, InvariantHolds, PTL

\* No resolution time is ever changed and no escalation ever taken back.
THEOREM HistoryIsAlwaysKept == Spec => HistoryIsKept
  <1>1. IInv /\ [Next]_vars =>
          [\A t \in Tickets :
             /\ ticket[t].resolvedAt # None => ticket'[t].resolvedAt = ticket[t].resolvedAt
             /\ ticket[t].isEscalated => ticket'[t].isEscalated]_vars
    BY NextPreserves DEF RowsFollow, Follows
  <1>2. QED
    BY <1>1, InvariantHolds, PTL DEF Spec, HistoryIsKept
-----------------------------------------------------------------------------
(* Which steps move a status or count a reassignment *)

\* The status and the reassignment count of every ticket stay as they are.
CoreKept ==
  \A t \in Tickets : /\ ticket'[t].statusKey = ticket[t].statusKey
                     /\ ticket'[t].reassignmentCount = ticket[t].reassignmentCount

\* Every step keeps both, except the guarded writes of transition() and assign().
LEMMA OnlyGuardedWrites ==
  ASSUME IInv, [Next]_vars
  PROVE  CoreKept \/ \E r \in Requests : Transition(r) \/ Assign(r)
  <1> ticket \in [Tickets -> Ticket]
    BY DEF IInv, TypeOK
  <1>1. ASSUME ticket' = ticket PROVE CoreKept
    BY <1>1 DEF CoreKept
  <1>2. ASSUME NEW r \in Requests, NEW c \in Calls, Load(r, c) PROVE CoreKept
    BY <1>1, <1>2 DEF Load, rows
  <1>3. ASSUME NEW r \in Requests, Serve(r) \/ SkipNotice(r) \/ Abort(r)
        PROVE  CoreKept \/ Transition(r) \/ Assign(r)
    <2>1. CASE \/ Conflict(r) \/ AuditAcknowledge(r) \/ MarkReadForTicket(r) \/ CreateComment(r)
               \/ AuditArchived(r) \/ NotifyManager(r) \/ Deliver(r) \/ SkipNotice(r) \/ Abort(r)
      BY <1>1, <2>1 DEF Conflict, AuditAcknowledge, MarkReadForTicket, CreateComment,
         AuditArchived, NotifyManager, Deliver, SkipNotice, Abort, rows
    <2>2. CASE Escalate(r)
      BY <2>2 DEF Escalate, CoreKept, Ticket
    <2>3. CASE Acknowledge(r)
      BY <2>3 DEF Acknowledge, CoreKept, Ticket
    <2>4. CASE StampFirstResponse(r)
      BY <2>4 DEF StampFirstResponse, CoreKept, Ticket
    <2>5. CASE SetArchived(r)
      BY <2>5 DEF SetArchived, CoreKept, Ticket
    <2>6. QED
      BY <1>3, <2>1, <2>2, <2>3, <2>4, <2>5 DEF Serve
  <1>4. ASSUME NEW j \in Jobs, RunJob(j) \/ JobAbort(j) PROVE CoreKept
    <2>1. CASE JobScan(j) \/ JobAudit(j) \/ JobNotify(j) \/ JobAbort(j)
      BY <1>1, <2>1 DEF JobScan, JobAudit, JobNotify, JobAbort, rows
    <2>2. CASE \E t \in Tickets : JobClaim(j, t)
      BY <2>2 DEF JobClaim, CoreKept, Ticket
    <2>3. QED
      BY <1>4, <2>1, <2>2 DEF RunJob
  <1>5. ASSUME NEW u \in Readers, MarkRead(u) PROVE CoreKept
    BY <1>1, <1>5 DEF MarkRead, rows
  <1>6. CASE Tick \/ UNCHANGED vars
    BY <1>1, <1>6 DEF Tick, vars, rows
  <1>7. QED
    BY <1>2, <1>3, <1>4, <1>5, <1>6 DEF Next

\* transition() moves one ticket, from the status its handler has checked.
LEMMA TransitionIsLegal ==
  ASSUME IInv, NEW r \in Requests, Transition(r), NEW t \in Tickets,
         ticket'[t].statusKey # ticket[t].statusKey
  PROVE  /\ req[r].pc = "loaded" /\ req'[r].pc # "loaded"
         /\ MayMove(req[r].call.staff, ticket[t].statusKey, ticket'[t].statusKey)
  <1> DEFINE c == req[r].call
             snap == req[r].snap
  <1>1. req[r].pc = "loaded" /\ c.op = "transition"
    BY DEF Transition, At
  <1>2. /\ c.ticket \in Tickets /\ Accepts(c, snap) /\ snap \in Ticket
        /\ Follows(snap, ticket[c.ticket]) /\ ticket[c.ticket] \in Ticket
    BY <1>1, LoadedTyped
  <1>3. snap.statusKey = ticket[c.ticket].statusKey
    BY <1>2 DEF Transition, Unmodified, Follows, SameLockedFields
  <1>4. t = c.ticket /\ ticket'[t].statusKey = c.arg
    BY <1>2 DEF Transition, IInv, TypeOK, Ticket
  <1>5. MayMove(c.staff, snap.statusKey, c.arg)
    BY <1>1, <1>2 DEF Accepts
  <1>6. req'[r].pc # "loaded"
    <2>1. PICK box : Send(r, box)
      BY DEF Transition
    <2>2. req \in [Requests -> Request]
      BY DEF IInv, TypeOK
    <2>3. QED
      BY <2>1, <2>2 DEF Send, Request
  <1>7. QED
    BY <1>1, <1>3, <1>4, <1>5, <1>6

\* What assign() leaves in the fields of the ticket that matter here; it
\* touches no other ticket.
LEMMA AssignWrites ==
  ASSUME IInv, NEW r \in Requests, Assign(r)
  PROVE  LET c    == req[r].call
             snap == req[r].snap
             row  == ticket'[c.ticket]
         IN  /\ row.statusKey = ticket[c.ticket].statusKey
             /\ row.reassignmentCount = IF IsReassignment(snap, c.arg)
                                        THEN snap.reassignmentCount + 1
                                        ELSE ticket[c.ticket].reassignmentCount
             /\ WillAutoEscalate(c.ticket, snap, c.arg) => row.isEscalated
             /\ \A t \in Tickets \ {c.ticket} : ticket'[t] = ticket[t]
  <1> DEFINE t     == req[r].call.ticket
             agent == req[r].call.arg
             snap  == req[r].snap
             auto  == WillAutoEscalate(t, snap, agent)
             version == ticket[t].rowVersion + 1
             count == IF IsReassignment(snap, agent) THEN snap.reassignmentCount + 1
                      ELSE ticket[t].reassignmentCount
             escalated == auto \/ ticket[t].isEscalated
             reason == IF auto THEN "REASSIGNMENT_THRESHOLD" ELSE ticket[t].escalationReason
  <1>1. t \in Tickets /\ ticket[t] \in Ticket
    BY LoadedTyped DEF Assign, At
  <1>2. PICK time \in req[r].at .. now :
          ticket' = [ticket EXCEPT
             ![t].assignedAgentId = agent,
             ![t].rowVersion = @ + 1,
             ![t].reassignmentCount = IF IsReassignment(snap, agent)
                                      THEN snap.reassignmentCount + 1 ELSE @,
             ![t].isEscalated = auto \/ @,
             ![t].escalatedAt = IF auto THEN time ELSE @,
             ![t].escalationReason = IF auto THEN "REASSIGNMENT_THRESHOLD" ELSE @]
    BY DEF Assign
  <1> DEFINE escalatedAt == IF auto THEN time ELSE ticket[t].escalatedAt
             row == [ticket[t] EXCEPT
                       !.assignedAgentId = agent, !.rowVersion = version,
                       !.reassignmentCount = count, !.isEscalated = escalated,
                       !.escalatedAt = escalatedAt, !.escalationReason = reason]
  <1>3. ticket' = [ticket EXCEPT ![t] = row]
    BY <1>2, ZenonT(60)
  <1>4. auto => escalated
    OBVIOUS
  <1>5. /\ row.statusKey = ticket[t].statusKey
        /\ row.reassignmentCount = count /\ row.isEscalated = escalated
    <2> HIDE DEF agent, version, count, escalated, escalatedAt, reason
    <2>1. QED
      BY <1>1 DEF Ticket
  <1>6. ticket'[t] = row /\ \A u \in Tickets \ {t} : ticket'[u] = ticket[u]
    <2> HIDE DEF row
    <2>1. QED
      BY <1>1, <1>3 DEF IInv, TypeOK
  <1>7. QED
    <2> HIDE DEF row, escalated, auto
    <2>1. /\ ticket'[t].statusKey = ticket[t].statusKey
          /\ ticket'[t].reassignmentCount = count
          /\ auto => ticket'[t].isEscalated
      BY <1>4, <1>5, <1>6
    <2>2. QED
      BY <1>6, <2>1 DEF auto

\* assign() moves no status.
LEMMA AssignKeepsStatus ==
  ASSUME IInv, NEW r \in Requests, Assign(r), NEW t \in Tickets
  PROVE  ticket'[t].statusKey = ticket[t].statusKey
  BY AssignWrites

\* Whatever requests overlap, a ticket moves only along its own schema, from
\* the status it has at that moment and by a role that may.
THEOREM MovesAreAlwaysLegal == Spec => MovesAreLegal
  <1>1. IInv /\ [Next]_vars =>
          [\A t \in Tickets :
             ticket'[t].statusKey # ticket[t].statusKey =>
               \E r \in Requests : /\ req[r].pc = "loaded" /\ req'[r].pc # "loaded"
                                   /\ MayMove(req[r].call.staff, ticket[t].statusKey,
                                              ticket'[t].statusKey)]_vars
    BY OnlyGuardedWrites, TransitionIsLegal, AssignKeepsStatus DEF CoreKept
  <1>2. QED
    BY <1>1, InvariantHolds, PTL DEF Spec, MovesAreLegal
-----------------------------------------------------------------------------
(* The threshold *)

\* transition() counts no reassignment.
LEMMA TransitionKeepsCount ==
  ASSUME IInv, NEW r \in Requests, Transition(r), NEW t \in Tickets
  PROVE  ticket'[t].reassignmentCount = ticket[t].reassignmentCount
  <1> DEFINE u == req[r].call.ticket
             snap == req[r].snap
             responded == IF snap.firstRespondedAt = None THEN req[r].at
                          ELSE ticket[u].firstRespondedAt
             resolved == IF IsFirstResolution(snap, req[r].call.arg) THEN req[r].at
                         ELSE ticket[u].resolvedAt
             row == [ticket[u] EXCEPT !.statusKey = req[r].call.arg,
                       !.rowVersion = ticket[u].rowVersion + 1,
                       !.firstRespondedAt = responded, !.resolvedAt = resolved]
  <1>1. ticket \in [Tickets -> Ticket]
    BY DEF IInv, TypeOK
  <1>2. ticket' = [ticket EXCEPT ![u] = row]
    BY DEF Transition
  <1>3. CASE t # u
    BY <1>1, <1>2, <1>3
  <1>4. CASE t = u
    <2> HIDE DEF responded, resolved, u
    <2>1. ticket[u] \in Ticket
      BY <1>1, <1>4
    <2>2. row.reassignmentCount = ticket[u].reassignmentCount
      BY <2>1 DEF Ticket
    <2> HIDE DEF row
    <2>3. QED
      BY <1>1, <1>2, <1>4, <2>2
  <1>5. QED
    BY <1>3, <1>4

Due(t, row) == ReachesThreshold(Rule(t), row.reassignmentCount) /\ row.reassignmentCount > 0

\* If assign() counts one reassignment more, it is the count of the row itself
\* that it raises, and the row is escalated if that reaches the threshold.
LEMMA AssignKeepsThreshold ==
  ASSUME IInv, NEW r \in Requests, Assign(r), NEW t \in Tickets,
         Due(t, ticket'[t]), Due(t, ticket[t]) => ticket[t].isEscalated
  PROVE  ticket'[t].isEscalated
  <1> DEFINE c == req[r].call
             snap == req[r].snap
  <1>1. req[r].pc = "loaded"
    BY DEF Assign, At
  <1>2. /\ c.ticket \in Tickets /\ snap \in Ticket
        /\ Follows(snap, ticket[c.ticket]) /\ ticket[c.ticket] \in Ticket
    BY <1>1, LoadedTyped
  <1>3. /\ snap.reassignmentCount = ticket[c.ticket].reassignmentCount
        /\ snap.isEscalated => ticket[c.ticket].isEscalated
    BY <1>2 DEF Assign, Unmodified, Follows, SameLockedFields
  <1>4. ticket[t].isEscalated => ticket'[t].isEscalated
    BY NextPreserves DEF Next, Serve, RowsFollow, Follows
  <1>5. CASE t # c.ticket
    BY <1>5, AssignWrites
  <1>6. CASE t = c.ticket
    <2> DEFINE auto == WillAutoEscalate(t, snap, c.arg)
    <2>1. /\ auto => ticket'[t].isEscalated
          /\ ticket'[t].reassignmentCount =
               IF IsReassignment(snap, c.arg) THEN snap.reassignmentCount + 1
               ELSE ticket[t].reassignmentCount
      BY <1>6, AssignWrites
    <2>2. CASE IsReassignment(snap, c.arg)
      <3>1. ReachesThreshold(Rule(t), snap.reassignmentCount + 1)
        BY <2>1, <2>2 DEF Due
      <3>2. snap.isEscalated \/ auto
        BY <2>2, <3>1 DEF WillAutoEscalate
      <3>3. QED
        BY <1>3, <1>6, <1>4, <2>1, <3>2
    <2>3. CASE ~IsReassignment(snap, c.arg)
      BY <1>4, <2>1, <2>3 DEF Due
    <2>4. QED
      BY <2>2, <2>3
  <1>7. QED
    BY <1>5, <1>6

\* However assignments, escalations and SLA runs interleave, no ticket reaches
\* its rule's threshold of reassignments without being escalated.
THEOREM ThresholdAlwaysEscalates == Spec => []ThresholdEscalates
  <1>1. Init => ThresholdEscalates
    BY DEF Init, ThresholdEscalates
  <1>2. ASSUME IInv, ThresholdEscalates, [Next]_vars
        PROVE  ThresholdEscalates'
    <2> SUFFICES ASSUME NEW t \in Tickets, Due(t, ticket'[t])
                 PROVE  ticket'[t].isEscalated
      BY DEF ThresholdEscalates, Due, Rule, ReachesThreshold
    <2>1. Due(t, ticket[t]) => ticket[t].isEscalated
      BY <1>2 DEF ThresholdEscalates, Due
    <2>2. ticket[t].isEscalated => ticket'[t].isEscalated
      BY <1>2, NextPreserves DEF RowsFollow, Follows
    <2>3. CASE ticket'[t].reassignmentCount = ticket[t].reassignmentCount
      BY <2>1, <2>2, <2>3 DEF Due
    <2>4. CASE \E r \in Requests : Assign(r)
      BY <1>2, <2>1, <2>4, AssignKeepsThreshold
    <2>5. QED
      BY <1>2, <2>3, <2>4, OnlyGuardedWrites, TransitionKeepsCount DEF CoreKept
  <1>3. QED
    BY <1>1, <1>2, InvariantHolds, PTL DEF Spec
==============================================================================
