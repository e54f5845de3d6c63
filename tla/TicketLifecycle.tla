--------------------------- MODULE TicketLifecycle ---------------------------
(***************************************************************************)
(* A ticket from its creation on: the staff requests that change it        *)
(* (tickets.service.ts) and the SLA job that escalates it                  *)
(* (sla-breach-check.service.ts), all running concurrently against one     *)
(* database.                                                               *)
(*                                                                         *)
(* A handler is a chain of awaited database calls.  Each call, or each     *)
(* interactive transaction, is one action; between two of them anything    *)
(* else may run, so a handler acts on the ticket as it READ it (req[r].snap *)
(* below), not as it is.  Only transition() and assign() make their write  *)
(* conditional on the row version they read.                               *)
(***************************************************************************)
EXTENDS EscalationRules, Integers, FiniteSets

CONSTANTS
  Tickets, Staff, Departments,
  Requests,            \* staff requests, each served once
  Jobs,                \* runs of the SLA job that may overlap
  None,                \* null
  Requester,           \* whoever raised the ticket, as a recipient
  RoleOf, DeptOf,      \* of a staff member; DeptOf is None for org-wide staff
  TicketDept, CustomerTypeOf, PriorityOf,
  Statuses, InitialStatus, Terminal, Moves,   \* the frozen statusSchemaSnapshot
  EscalationSnapshot,                         \* the frozen escalationSnapshot
  ResponseDueAt, ResolutionDueAt,             \* stored at creation, or None
  Calls,               \* the requests staff may send
  Readers,             \* staff who open their notifications one by one
  MaxTime,             \* bound on the clock
  MaxFaults            \* bound on failed calls and crashes

Roles == {"AGENT", "DEPT_ADMIN", "SUPER_ADMIN", "EMPLOYEE"}
Visibilities == {"INTERNAL", "PUBLIC"}
Reasons == {"MANUAL", "REASSIGNMENT_THRESHOLD", "SLA_BREACH"}
Times == Nat \cup {None}

Ops == {"transition", "assign", "escalate", "acknowledge", "comment",
        "archive", "unarchive", "notifyManager"}

\* arg is the target status, the new agent or None, or the visibility.
CallType == [op : Ops, staff : Staff, ticket : Tickets,
             arg : Statuses \cup Staff \cup Visibilities \cup {None}]

ASSUME StaffAssumption ==
  /\ RoleOf \in [Staff -> Roles]
  /\ DeptOf \in [Staff -> Departments \cup {None}]
  /\ Readers \subseteq Staff

ASSUME TicketAssumption ==
  /\ TicketDept \in [Tickets -> Departments]
  /\ CustomerTypeOf \in [Tickets -> CustomerTypes]
  /\ PriorityOf \in [Tickets -> Priorities]
  /\ ResponseDueAt \in [Tickets -> Times]
  /\ ResolutionDueAt \in [Tickets -> Times]

ASSUME SchemaAssumption ==
  /\ InitialStatus \in Statuses
  /\ Terminal \subseteq Statuses
  /\ Moves \subseteq [from : Statuses, to : Statuses, roles : SUBSET Roles]
  /\ EscalationSnapshot \in Seq(EscalationRuleEntry)

\* The arguments a controller's DTO lets through for each operation.
ASSUME CallsAssumption ==
  /\ Calls \subseteq CallType
  /\ \A c \in Calls : /\ c.op = "transition" => c.arg \in Statuses
                      /\ c.op = "assign" => c.arg \in Staff \cup {None}
                      /\ c.op = "comment" => c.arg \in Visibilities

\* A request and a run of the job are different processes.
ASSUME ActorsAssumption == Requests \cap Jobs = {}

ASSUME BoundsAssumption == MaxTime \in Nat /\ MaxFaults \in Nat

ASSUME NoneAssumption == /\ None \notin Nat \cup Staff \cup Statuses \cup Departments \cup Tickets
                         /\ NoThreshold \notin Nat
                         /\ Requester \notin Staff

VARIABLES
  ticket,      \* the Ticket rows
  comments,    \* staff Comment rows: [by, ticket, visibility]
  audit,       \* per ticket, its AuditLog rows in order of commit, after creation
  notes,       \* Notification rows: [by, ticket, type, to, read]
  req,         \* the handler of each request
  job,         \* the SLA runs
  now,         \* the clock
  faults       \* failures so far

rows == <<ticket, comments, audit>>
vars == <<ticket, comments, audit, notes, req, job, now, faults>>
-----------------------------------------------------------------------------
Ticket == [statusKey : Statuses, assignedAgentId : Staff \cup {None},
           rowVersion : Nat, reassignmentCount : Nat,
           firstRespondedAt : Times, resolvedAt : Times,
           isEscalated : BOOLEAN, escalatedAt : Times,
           escalationReason : Reasons \cup {None},
           escalationAcknowledgedAt : Times, isArchived : BOOLEAN]

Actors == Requests \cup Jobs

Comment == [by : Requests, ticket : Tickets, visibility : Visibilities]

AuditEntry == [action : {"TICKET_STATUS_CHANGED", "TICKET_ASSIGNED", "TICKET_ESCALATED",
                         "TICKET_ESCALATION_ACKNOWLEDGED", "TICKET_ARCHIVED",
                         "TICKET_UNARCHIVED", "TICKET_MANAGER_NOTIFIED"},
               by : Actors,
               before : Statuses \cup Staff \cup {None},
               after : Statuses \cup Staff \cup Reasons \cup {None}]

NoticeTypes == {"TICKET_RESOLVED", "TICKET_STATUS_CHANGED", "TICKET_STATUS_UPDATE_FYI",
                "TICKET_ASSIGNED", "TICKET_ASSIGNED_TO_YOU", "TICKET_ESCALATED",
                "TICKET_COMMENT_ADDED", "TICKET_REPLY_FYI", "TICKET_MANAGER_FYI"}

Notification == [by : Actors, ticket : Tickets, type : NoticeTypes,
                 to : Staff \cup {Requester}, read : BOOLEAN]

\* A notification a handler still has to send, with its recipients.
Notice == [type : NoticeTypes, to : SUBSET (Staff \cup {Requester})]

Pcs == {"idle", "loaded", "written", "audited", "notifying", "done", "failed"}

\* snap is the row as the handler read it, at the time it read it.
Request == [pc : Pcs, call : CallType \cup {None}, snap : Ticket \cup {None},
            at : Times, outbox : Seq(Notice)]

Job == [pc : {"idle", "loop", "audit", "notify"}, now : Nat,
        todo : SUBSET Tickets, cur : Tickets \cup {None}]

TypeOK ==
  /\ ticket \in [Tickets -> Ticket]
  /\ comments \subseteq Comment
  /\ audit \in [Tickets -> Seq(AuditEntry)]
  /\ notes \subseteq Notification
  /\ req \in [Requests -> Request]
  /\ job \in [Jobs -> Job]
  /\ now \in Nat
  /\ faults \in Nat
-----------------------------------------------------------------------------
Rule(t) == ResolveEscalationRule(EscalationSnapshot, CustomerTypeOf[t], PriorityOf[t])

MembersOf(d) == {s \in Staff : DeptOf[s] = d}

\* Mutant: no fallback for a department without a manager.
ManagersOfNoFallback(d) == {s \in MembersOf(d) : RoleOf[s] = "DEPT_ADMIN"}

\* The fan-out of notifyDepartmentManagers: the department's managers, or the
\* org-wide administrators if it has none.
ManagersOf(d) ==
  LET managers == {s \in MembersOf(d) : RoleOf[s] = "DEPT_ADMIN"}
  IN  IF managers # {} THEN managers ELSE {s \in Staff : RoleOf[s] = "SUPER_ADMIN"}

\* assertStaffCanAccessTicket
MayAccess(s, t) == RoleOf[s] = "SUPER_ADMIN" \/ DeptOf[s] = TicketDept[t]

\* @Roles(DEPT_ADMIN) on the route; RolesGuard always lets SUPER_ADMIN in.
IsAdmin(s) == RoleOf[s] \in {"DEPT_ADMIN", "SUPER_ADMIN"}

MayMove(s, from, to) ==
  \E m \in Moves : /\ m.from = from /\ m.to = to
                   /\ m.roles = {} \/ RoleOf[s] = "SUPER_ADMIN" \/ RoleOf[s] \in m.roles

\* The checks a handler makes on the row it has read.  A call that fails one
\* of them, or that finds nothing to do, answers without a write.
Accepts(c, row) ==
  /\ MayAccess(c.staff, c.ticket)
  /\ c.op = "transition"  => MayMove(c.staff, row.statusKey, c.arg)
  /\ c.op = "assign"      => c.arg \in MembersOf(TicketDept[c.ticket]) \cup {None}
  /\ c.op = "escalate"    => ~row.isEscalated
  /\ c.op = "acknowledge" => IsAdmin(c.staff) /\ row.isEscalated
  /\ c.op = "archive"     => IsAdmin(c.staff) /\ ~row.isArchived
  /\ c.op = "unarchive"   => IsAdmin(c.staff) /\ row.isArchived

ToRequester(type) == [type |-> type, to |-> {Requester}]
ToManagers(type, t) == [type |-> type, to |-> ManagersOf(TicketDept[t])]
ToManagersBut(type, t, actor) == [type |-> type, to |-> ManagersOf(TicketDept[t]) \ {actor}]

\* Mutant: the values before and after are swapped.
EntrySwapped(action, by, before, after) ==
  [action |-> action, by |-> by, before |-> after, after |-> before]

Entry(action, by, before, after) ==
  [action |-> action, by |-> by, before |-> before, after |-> after]

Log(t, entries) == audit' = [audit EXCEPT ![t] = @ \o entries]

\* No handler looks at the row it read again after its first write.
Goto(r, pc) == req' = [req EXCEPT ![r].pc = pc, ![r].snap = None, ![r].at = None]

\* The handler goes on with its notifications, or answers.
Send(r, box) == req' = [req EXCEPT ![r].pc = IF box = <<>> THEN "done" ELSE "notifying",
                                   ![r].snap = None, ![r].at = None, ![r].outbox = box]

At(r, pc, op) == req[r].pc = pc /\ req[r].call.op = op
-----------------------------------------------------------------------------
Init ==
  /\ \E agent \in [Tickets -> Staff \cup {None}] :
       /\ \A t \in Tickets : agent[t] \in MembersOf(TicketDept[t]) \cup {None}
       /\ ticket = [t \in Tickets |->
            [statusKey |-> InitialStatus, assignedAgentId |-> agent[t],
             rowVersion |-> 0, reassignmentCount |-> 0,
             firstRespondedAt |-> None, resolvedAt |-> None,
             isEscalated |-> FALSE, escalatedAt |-> None, escalationReason |-> None,
             escalationAcknowledgedAt |-> None, isArchived |-> FALSE]]
  /\ comments = {}
  /\ audit = [t \in Tickets |-> <<>>]
  /\ notes = {}
  /\ req = [r \in Requests |-> [pc |-> "idle", call |-> None, snap |-> None,
                                at |-> None, outbox |-> <<>>]]
  /\ job = [j \in Jobs |-> [pc |-> "idle", now |-> 0, todo |-> {}, cur |-> None]]
  /\ now = 0
  /\ faults = 0

\* findUnique, then every check up to the first write.
Load(r, c) ==
  /\ req[r].pc = "idle"
  /\ Accepts(c, ticket[c.ticket])
  /\ req' = [req EXCEPT ![r].pc = "loaded", ![r].call = c,
                        ![r].snap = ticket[c.ticket], ![r].at = now]
  /\ UNCHANGED <<rows, notes, job, now, faults>>

\* Mutant: the row is written whatever its version.
UnmodifiedOrNot(r) == TRUE

\* The guard `where: { id, rowVersion }` of transition() and assign().
Unmodified(r) == ticket[req[r].call.ticket].rowVersion = req[r].snap.rowVersion

\* Mutant: reaching a terminal status again counts as resolving again.
IsAnyResolution(snap, to) == to \in Terminal

IsFirstResolution(snap, to) == to \in Terminal /\ snap.resolvedAt = None

Transition(r) ==
  LET t     == req[r].call.ticket
      to    == req[r].call.arg
      snap  == req[r].snap
      first == IsFirstResolution(snap, to)
  IN  /\ At(r, "loaded", "transition")
      /\ Unmodified(r)
      /\ ticket' = [ticket EXCEPT
           ![t].statusKey = to,
           ![t].rowVersion = @ + 1,
           ![t].firstRespondedAt = IF snap.firstRespondedAt = None THEN req[r].at ELSE @,
           ![t].resolvedAt = IF first THEN req[r].at ELSE @]
      /\ Log(t, <<Entry("TICKET_STATUS_CHANGED", r, snap.statusKey, to)>>)
      /\ Send(r, <<ToRequester(IF first THEN "TICKET_RESOLVED" ELSE "TICKET_STATUS_CHANGED"),
                   ToManagersBut("TICKET_STATUS_UPDATE_FYI", t, req[r].call.staff)>>)
      /\ UNCHANGED <<comments, notes, job, now, faults>>

\* Mutant: giving a ticket back counts as a reassignment.
IsAgentChange(snap, agent) ==
  snap.assignedAgentId # None /\ agent # snap.assignedAgentId

IsReassignment(snap, agent) ==
  snap.assignedAgentId # None /\ agent # None /\ agent # snap.assignedAgentId

\* Mutant: compares the count before this reassignment.
WillAutoEscalateLate(t, snap, agent) ==
  /\ IsReassignment(snap, agent)
  /\ ~snap.isEscalated
  /\ ReachesThreshold(Rule(t), snap.reassignmentCount)

WillAutoEscalate(t, snap, agent) ==
  /\ IsReassignment(snap, agent)
  /\ ~snap.isEscalated
  /\ ReachesThreshold(Rule(t), snap.reassignmentCount + 1)

\* escalatedAt is taken between the read and the transaction.
Assign(r) ==
  LET t     == req[r].call.ticket
      agent == req[r].call.arg
      snap  == req[r].snap
      auto  == WillAutoEscalate(t, snap, agent)
      moved == snap.assignedAgentId # agent
  IN  /\ At(r, "loaded", "assign")
      /\ Unmodified(r)
      /\ \E time \in req[r].at .. now :
           ticket' = [ticket EXCEPT
             ![t].assignedAgentId = agent,
             ![t].rowVersion = @ + 1,
             ![t].reassignmentCount = IF IsReassignment(snap, agent)
                                      THEN snap.reassignmentCount + 1 ELSE @,
             ![t].isEscalated = auto \/ @,
             ![t].escalatedAt = IF auto THEN time ELSE @,
             ![t].escalationReason = IF auto THEN "REASSIGNMENT_THRESHOLD" ELSE @]
      /\ Log(t, (IF auto THEN <<Entry("TICKET_ESCALATED", r, None, "REASSIGNMENT_THRESHOLD")>>
                 ELSE <<>>)
                \o (IF moved THEN <<Entry("TICKET_ASSIGNED", r, snap.assignedAgentId, agent)>>
                    ELSE <<>>))
      /\ Send(r, (IF auto THEN <<ToManagers("TICKET_ESCALATED", t)>> ELSE <<>>)
                 \o (IF moved /\ agent # None
                     THEN <<ToRequester("TICKET_ASSIGNED"),
                            [type |-> "TICKET_ASSIGNED_TO_YOU", to |-> {agent}]>>
                     ELSE <<>>))
      /\ UNCHANGED <<comments, notes, job, now, faults>>

\* P2025, answered as a 409: somebody else has changed the row.
Conflict(r) ==
  /\ At(r, "loaded", "transition") \/ At(r, "loaded", "assign")
  /\ ~Unmodified(r)
  /\ Goto(r, "done")
  /\ UNCHANGED <<rows, notes, job, now, faults>>

\* Mutant: the flag is set and nothing recorded.
EscalateUnlogged(r) ==
  LET t == req[r].call.ticket
  IN  /\ At(r, "loaded", "escalate")
      /\ ticket' = [ticket EXCEPT ![t].isEscalated = TRUE, ![t].escalatedAt = now,
                                  ![t].escalationReason = "MANUAL"]
      /\ Send(r, <<ToManagers("TICKET_ESCALATED", t)>>)
      /\ UNCHANGED <<comments, audit, notes, job, now, faults>>

\* The transaction of escalate(): the write carries no condition.
Escalate(r) ==
  LET t == req[r].call.ticket
  IN  /\ At(r, "loaded", "escalate")
      /\ ticket' = [ticket EXCEPT ![t].isEscalated = TRUE, ![t].escalatedAt = now,
                                  ![t].escalationReason = "MANUAL"]
      /\ Log(t, <<Entry("TICKET_ESCALATED", r, None, "MANUAL")>>)
      /\ Send(r, <<ToManagers("TICKET_ESCALATED", t)>>)
      /\ UNCHANGED <<comments, notes, job, now, faults>>
-----------------------------------------------------------------------------
(* acknowledgeEscalation(): three calls, no transaction. *)

Acknowledge(r) ==
  /\ At(r, "loaded", "acknowledge")
  /\ ticket' = [ticket EXCEPT ![req[r].call.ticket].escalationAcknowledgedAt = now]
  /\ Goto(r, "written")
  /\ UNCHANGED <<comments, audit, notes, job, now, faults>>

AuditAcknowledge(r) ==
  /\ At(r, "written", "acknowledge")
  /\ Log(req[r].call.ticket, <<Entry("TICKET_ESCALATION_ACKNOWLEDGED", r, None, None)>>)
  /\ Goto(r, "audited")
  /\ UNCHANGED <<ticket, comments, notes, job, now, faults>>

\* markReadForTicket: every unread notification about the ticket, whoever has it.
MarkReadForTicket(r) ==
  /\ At(r, "audited", "acknowledge")
  /\ notes' = {IF n.ticket = req[r].call.ticket THEN [n EXCEPT !.read = TRUE] ELSE n : n \in notes}
  /\ Goto(r, "done")
  /\ UNCHANGED <<rows, job, now, faults>>

(* addComment(): the comment, the response stamp, the notifications. *)

CommentNotices(r) ==
  <<ToRequester("TICKET_COMMENT_ADDED"),
    ToManagersBut("TICKET_REPLY_FYI", req[r].call.ticket, req[r].call.staff)>>

\* Mutant: a public reply leaves the response clock running.
CreateCommentNoStamp(r) ==
  LET c == req[r].call
  IN  /\ At(r, "loaded", "comment")
      /\ comments' = comments \cup {[by |-> r, ticket |-> c.ticket, visibility |-> c.arg]}
      /\ IF c.arg = "INTERNAL" THEN Goto(r, "done") ELSE Send(r, CommentNotices(r))
      /\ UNCHANGED <<ticket, audit, notes, job, now, faults>>

CreateComment(r) ==
  LET c == req[r].call
  IN  /\ At(r, "loaded", "comment")
      /\ comments' = comments \cup {[by |-> r, ticket |-> c.ticket, visibility |-> c.arg]}
      /\ \/ c.arg = "INTERNAL" /\ Goto(r, "done")
         \/ c.arg = "PUBLIC" /\ req[r].snap.firstRespondedAt = None /\ Goto(r, "written")
         \/ c.arg = "PUBLIC" /\ req[r].snap.firstRespondedAt # None /\ Send(r, CommentNotices(r))
      /\ UNCHANGED <<ticket, audit, notes, job, now, faults>>

StampFirstResponse(r) ==
  /\ At(r, "written", "comment")
  /\ ticket' = [ticket EXCEPT ![req[r].call.ticket].firstRespondedAt = now]
  /\ Send(r, CommentNotices(r))
  /\ UNCHANGED <<comments, audit, notes, job, now, faults>>

(* archive() and unarchive(): an unconditional write, then its audit row. *)

SetArchived(r) ==
  /\ At(r, "loaded", "archive") \/ At(r, "loaded", "unarchive")
  /\ ticket' = [ticket EXCEPT ![req[r].call.ticket].isArchived = (req[r].call.op = "archive")]
  /\ Goto(r, "written")
  /\ UNCHANGED <<comments, audit, notes, job, now, faults>>

AuditArchived(r) ==
  /\ At(r, "written", "archive") \/ At(r, "written", "unarchive")
  /\ Log(req[r].call.ticket,
         <<Entry(IF req[r].call.op = "archive" THEN "TICKET_ARCHIVED" ELSE "TICKET_UNARCHIVED",
                 r, None, None)>>)
  /\ Goto(r, "done")
  /\ UNCHANGED <<ticket, comments, notes, job, now, faults>>

\* notifyManager(): the audit row, then an FYI; the ticket is not touched.
NotifyManager(r) ==
  LET t == req[r].call.ticket
  IN  /\ At(r, "loaded", "notifyManager")
      /\ Log(t, <<Entry("TICKET_MANAGER_NOTIFIED", r, None, None)>>)
      /\ Send(r, <<ToManagers("TICKET_MANAGER_FYI", t)>>)
      /\ UNCHANGED <<ticket, comments, notes, job, now, faults>>
-----------------------------------------------------------------------------
\* notify(): one row per recipient, in one createMany; none for nobody.
Rows(by, t, notice) ==
  {[by |-> by, ticket |-> t, type |-> notice.type, to |-> u, read |-> FALSE] : u \in notice.to}

Deliver(r) ==
  /\ req[r].pc = "notifying"
  /\ notes' = notes \cup Rows(r, req[r].call.ticket, Head(req[r].outbox))
  /\ Send(r, Tail(req[r].outbox))
  /\ UNCHANGED <<rows, job, now, faults>>

\* safeNotify: a failed notification is logged and skipped.  notifyManager()
\* does not use it.
SkipNotice(r) ==
  /\ req[r].pc = "notifying"
  /\ req[r].call.op # "notifyManager"
  /\ faults < MaxFaults
  /\ faults' = faults + 1
  /\ Send(r, Tail(req[r].outbox))
  /\ UNCHANGED <<rows, notes, job, now>>

\* A database error at the handler's next call, or the end of its process.
Abort(r) ==
  /\ req[r].pc \in {"loaded", "written", "audited", "notifying"}
  /\ faults < MaxFaults
  /\ faults' = faults + 1
  /\ Goto(r, "failed")
  /\ UNCHANGED <<rows, notes, job, now>>

\* NotificationsService.markRead: only its recipient marks a notification read.
MarkRead(u) ==
  /\ \E n \in notes : /\ n.to = u /\ ~n.read
                      /\ notes' = (notes \ {n}) \cup {[n EXCEPT !.read = TRUE]}
  /\ UNCHANGED <<rows, req, job, now, faults>>
-----------------------------------------------------------------------------
(* SlaBreachCheckService.checkBreaches *)

Overdue(due, time) == due # None /\ due < time

IsBreached(t, time) ==
  LET row == ticket[t]
  IN  \/ Overdue(ResponseDueAt[t], time) /\ row.firstRespondedAt = None
      \/ Overdue(ResolutionDueAt[t], time) /\ row.resolvedAt = None

\* Mutant: AND for OR, a ticket counts as breached when both deadlines are.
CandidatesBothBreached(time) ==
  {t \in Tickets : /\ ~ticket[t].isEscalated
                   /\ ~ticket[t].isArchived
                   /\ Overdue(ResponseDueAt[t], time) /\ ticket[t].firstRespondedAt = None
                   /\ Overdue(ResolutionDueAt[t], time) /\ ticket[t].resolvedAt = None
                   /\ ticket[t].statusKey \notin Terminal
                   /\ Rule(t).escalateOnSlaBreach}

\* The candidates of findMany, without those the loop passes over on what it
\* read: a terminal status, or a rule that does not escalate on a breach.
Candidates(time) ==
  {t \in Tickets : /\ ~ticket[t].isEscalated
                   /\ ~ticket[t].isArchived
                   /\ IsBreached(t, time)
                   /\ ticket[t].statusKey \notin Terminal
                   /\ Rule(t).escalateOnSlaBreach}

JobScan(j) ==
  /\ job[j].pc = "idle"
  /\ Candidates(now) # {}
  /\ job' = [job EXCEPT ![j] = [pc |-> "loop", now |-> now, todo |-> Candidates(now), cur |-> None]]
  /\ UNCHANGED <<rows, notes, req, now, faults>>

Resume(j, todo) == IF todo = {} THEN "idle" ELSE "loop"

\* Mutant: the claim without its condition.
JobClaimAnyway(j, t) ==
  /\ job[j].pc = "loop"
  /\ t \in job[j].todo
  /\ job' = [job EXCEPT ![j].todo = @ \ {t}, ![j].pc = "audit", ![j].cur = t]
  /\ ticket' = [ticket EXCEPT ![t].isEscalated = TRUE, ![t].escalatedAt = job[j].now,
                              ![t].escalationReason = "SLA_BREACH"]
  /\ UNCHANGED <<comments, audit, notes, req, now, faults>>

\* updateMany where isEscalated is still false; on count 0 the loop goes on.
JobClaim(j, t) ==
  /\ job[j].pc = "loop"
  /\ t \in job[j].todo
  /\ IF ticket[t].isEscalated
     THEN /\ job' = [job EXCEPT ![j].todo = @ \ {t},
                                ![j].pc = Resume(j, job[j].todo \ {t})]
          /\ UNCHANGED ticket
     ELSE /\ job' = [job EXCEPT ![j].todo = @ \ {t}, ![j].pc = "audit", ![j].cur = t]
          /\ ticket' = [ticket EXCEPT ![t].isEscalated = TRUE, ![t].escalatedAt = job[j].now,
                                      ![t].escalationReason = "SLA_BREACH"]
  /\ UNCHANGED <<comments, audit, notes, req, now, faults>>

JobAudit(j) ==
  /\ job[j].pc = "audit"
  /\ Log(job[j].cur, <<Entry("TICKET_ESCALATED", j, None, "SLA_BREACH")>>)
  /\ job' = [job EXCEPT ![j].pc = "notify"]
  /\ UNCHANGED <<ticket, comments, notes, req, now, faults>>

JobNotify(j) ==
  /\ job[j].pc = "notify"
  /\ notes' = notes \cup Rows(j, job[j].cur, ToManagers("TICKET_ESCALATED", job[j].cur))
  /\ job' = [job EXCEPT ![j].pc = Resume(j, job[j].todo), ![j].cur = None]
  /\ UNCHANGED <<rows, req, now, faults>>

\* No call of the loop is caught: an error, like a crash, ends the run.
JobAbort(j) ==
  /\ job[j].pc # "idle"
  /\ faults < MaxFaults
  /\ faults' = faults + 1
  /\ job' = [job EXCEPT ![j].pc = "idle", ![j].todo = {}, ![j].cur = None]
  /\ UNCHANGED <<rows, notes, req, now>>

Tick ==
  /\ now < MaxTime
  /\ now' = now + 1
  /\ UNCHANGED <<rows, notes, req, job, faults>>
-----------------------------------------------------------------------------
\* What a handler does of its own accord once it has accepted its request.
Serve(r) ==
  \/ Transition(r) \/ Assign(r) \/ Conflict(r) \/ Escalate(r)
  \/ Acknowledge(r) \/ AuditAcknowledge(r) \/ MarkReadForTicket(r)
  \/ CreateComment(r) \/ StampFirstResponse(r)
  \/ SetArchived(r) \/ AuditArchived(r)
  \/ NotifyManager(r) \/ Deliver(r)

RunJob(j) ==
  \/ JobScan(j)
  \/ \E t \in Tickets : JobClaim(j, t)
  \/ JobAudit(j) \/ JobNotify(j)

Next ==
  \/ \E r \in Requests : \/ \E c \in Calls : Load(r, c)
                         \/ Serve(r) \/ SkipNotice(r) \/ Abort(r)
  \/ \E j \in Jobs : RunJob(j) \/ JobAbort(j)
  \/ \E u \in Readers : MarkRead(u)
  \/ Tick

Spec == Init /\ [][Next]_vars

\* An accepted request is served and the job is run again and again; nobody
\* need send a request or open a notification.
Fairness == /\ \A r \in Requests : WF_vars(Serve(r))
            /\ \A j \in Jobs : WF_vars(RunJob(j))
            /\ WF_vars(Tick)

FairSpec == Spec /\ Fairness
-----------------------------------------------------------------------------
(* What makes the row version a lock *)

\* The fields whose every change also changes the row version.
SameLockedFields(row1, row2) ==
  /\ row1.statusKey = row2.statusKey
  /\ row1.assignedAgentId = row2.assignedAgentId
  /\ row1.reassignmentCount = row2.reassignmentCount
  /\ row1.resolvedAt = row2.resolvedAt

\* row2 is a later, or the same, state of row1.
Follows(row1, row2) ==
  /\ row1.rowVersion <= row2.rowVersion
  /\ row1.rowVersion = row2.rowVersion => SameLockedFields(row1, row2)
  /\ row1.isEscalated => row2.isEscalated
  /\ row1.firstRespondedAt # None => row2.firstRespondedAt # None
  /\ row1.resolvedAt # None => row2.resolvedAt = row1.resolvedAt

\* What a handler has read is an earlier state of the row: as long as the row
\* version is the one it read, so are the status, the agent, the number of
\* reassignments and the resolution its decisions rest on.
SnapshotsFollowed ==
  \A r \in Requests :
    req[r].pc = "loaded" => Follows(req[r].snap, ticket[req[r].call.ticket])

\* Local state of the handlers and of the SLA runs at each point of the code.
HandlersWellFormed ==
  /\ \A r \in Requests :
       /\ req[r].pc # "idle" => req[r].call \in Calls
       /\ req[r].pc = "loaded" => /\ req[r].snap \in Ticket
                                  /\ req[r].at \in Nat /\ req[r].at <= now
                                  /\ Accepts(req[r].call, req[r].snap)
       /\ req[r].pc = "notifying" => req[r].outbox # <<>>
  /\ \A j \in Jobs : job[j].pc \in {"audit", "notify"} => job[j].cur \in Tickets
-----------------------------------------------------------------------------
(* Properties *)

Entries(t, action) == {i \in DOMAIN audit[t] : audit[t][i].action = action}

Last(S) == CHOOSE i \in S : \A k \in S : k <= i

\* The entries of one kind replay to the row: each starts from the value the
\* one before it left, the first from the value at creation, and the last
\* leaves the current value.
Replays(t, action, initial, current) ==
  LET kept == Entries(t, action)
      left(i) == LET earlier == {k \in kept : k < i}
                 IN  IF earlier = {} THEN initial ELSE {audit[t][Last(earlier)].after}
  IN  /\ \A i \in kept : audit[t][i].before \in left(i)
      /\ current \in IF kept = {} THEN initial ELSE {audit[t][Last(kept)].after}

\* The timeline a requester and the staff see is the ticket's real history: the
\* logged status moves chain without a gap from the initial status to the
\* current one, and the logged assignments to the current agent, whatever
\* requests of transition() and assign() overlapped.
TimelineReplays ==
  \A t \in Tickets :
    /\ Replays(t, "TICKET_STATUS_CHANGED", {InitialStatus}, ticket[t].statusKey)
    /\ Replays(t, "TICKET_ASSIGNED", MembersOf(TicketDept[t]) \cup {None},
               ticket[t].assignedAgentId)

\* assign() loses no reassignment: the counter that triggers the automatic
\* escalation is the number of hand-overs from one agent to another on record.
ReassignmentsCounted ==
  \A t \in Tickets :
    ticket[t].reassignmentCount =
      Cardinality({i \in Entries(t, "TICKET_ASSIGNED") : /\ audit[t][i].before # None
                                                         /\ audit[t][i].after # None})

\* A ticket that has reached its rule's threshold of reassignments is
\* escalated, also when assign() worked on a row read before other writes.
ThresholdEscalates ==
  \A t \in Tickets :
    ReachesThreshold(Rule(t), ticket[t].reassignmentCount) /\ ticket[t].reassignmentCount > 0
      => ticket[t].isEscalated

\* The requester is told only once that the ticket is resolved, however often
\* it is reopened and closed and whoever closes it at the same time.
ResolutionAnnouncedOnce ==
  \A t \in Tickets :
    LET sent    == {n \in notes : n.ticket = t /\ n.type = "TICKET_RESOLVED"}
        pending == {r \in Requests : /\ req[r].pc = "notifying"
                                     /\ req[r].call.ticket = t
                                     /\ \E i \in DOMAIN req[r].outbox :
                                          req[r].outbox[i].type = "TICKET_RESOLVED"}
    IN  Cardinality(sent) + Cardinality(pending) <= 1

\* The response clock does stop: once a public reply has been posted and its
\* request answered, the ticket counts as responded to (addComment).
ReplyStopsClock ==
  \A r \in Requests :
    At(r, "done", "comment") /\ req[r].call.arg = "PUBLIC"
      => ticket[req[r].call.ticket].firstRespondedAt # None

\* However many SLA runs overlap, at most one claims a ticket: one entry on its
\* timeline, one alert.
BreachClaimedOnce ==
  \A t \in Tickets :
    /\ Cardinality({i \in Entries(t, "TICKET_ESCALATED") : audit[t][i].after = "SLA_BREACH"}) <= 1
    /\ Cardinality({j \in Jobs : \/ job[j].cur = t
                                 \/ \E n \in notes : n.by = j /\ n.ticket = t}) <= 1

\* An escalated ticket has an escalation on its timeline, or the SLA run that
\* claimed it is about to write it. Only a run that dies in between leaves none,
\* and it leaves no other: a failure costs at most one entry.
EscalationOnTimeline ==
  LET unlogged ==
        {t \in Tickets :
           /\ ticket[t].isEscalated
           /\ Entries(t, "TICKET_ESCALATED") = {}
           /\ ~ \E j \in Jobs : job[j].pc = "audit" /\ job[j].cur = t}
  IN  Cardinality(unlogged) <= faults

\* A status moves only along a transition of the ticket's own frozen schema,
\* from the status it really has, and one open to the role of the staff member
\* whose request it is; a check made on a stale row never lets another move in.
MovesAreLegal ==
  [][\A t \in Tickets :
       ticket'[t].statusKey # ticket[t].statusKey =>
         \E r \in Requests : /\ req[r].pc = "loaded" /\ req'[r].pc # "loaded"
                             /\ MayMove(req[r].call.staff, ticket[t].statusKey,
                                        ticket'[t].statusKey)]_vars

\* The resolution time is history: later moves, reopenings and repeated
\* resolutions leave it alone, and an escalation is never taken back.
HistoryIsKept ==
  [][\A t \in Tickets :
       /\ ticket[t].resolvedAt # None => ticket'[t].resolvedAt = ticket[t].resolvedAt
       /\ ticket[t].isEscalated => ticket'[t].isEscalated]_vars

\* A ticket that stays breached, open and on the board under a rule that
\* escalates breaches is escalated in the end (runs without failures).
BreachIsEscalated ==
  \A t \in Tickets :
    /\ Rule(t).escalateOnSlaBreach
    /\ <>[](/\ ~ticket[t].isArchived /\ ticket[t].statusKey \notin Terminal
            /\ IsBreached(t, now))
    => <>(ticket[t].isEscalated)

\* Every escalation reaches the bell of somebody who can act on it, also in a
\* department that has no manager (runs without failures).
EscalationReachesManager ==
  \A t \in Tickets :
    ticket[t].isEscalated ~>
      \E n \in notes : /\ n.ticket = t /\ n.type = "TICKET_ESCALATED"
                       /\ n.to \in Staff /\ RoleOf[n.to] \in {"DEPT_ADMIN", "SUPER_ADMIN"}
-----------------------------------------------------------------------------
(* What a comment of the code says, and the code does not do. *)

\* "idempotent - already flagged, nothing to do" (comment in escalate()): nobody
\* replaces an escalation, its time or its reason, by a manual one.
EscalateIsIdempotent ==
  [][\A t \in Tickets :
       ticket[t].isEscalated /\ ticket'[t].escalationReason = "MANUAL" =>
         /\ ticket'[t].escalatedAt = ticket[t].escalatedAt
         /\ ticket'[t].escalationReason = ticket[t].escalationReason]_vars
==============================================================================
