----------------------- MODULE TicketNotificationProofs -----------------------
(***************************************************************************)
(* Theorems about who is told what of a ticket, for any number of tickets, *)
(* staff, requests, SLA runs and failures: a breach is claimed and         *)
(* announced by one SLA run, a resolution is announced once, and a public  *)
(* reply stops the response clock.                                         *)
(***************************************************************************)
EXTENDS TicketHistoryProofs

-----------------------------------------------------------------------------
(* Breaches are claimed once *)

Notified(j, t) == \E n \in notes : n.by = j /\ n.ticket = t

\* The SLA run j has claimed t, and has t in hand or has told somebody.
ClaimedBy(j, t) == job[j].cur = t \/ Notified(j, t)

BreachEntries(t) == {i \in Entries(t, "TICKET_ESCALATED") : audit[t][i].after = "SLA_BREACH"}

\* What BreachClaimedOnce says of t, and what makes it inductive: a claim needs
\* a ticket that is not escalated, nobody has claimed such a ticket, and the
\* entry of a claim is its ticket's first.
ClaimSound(t) ==
  /\ ~ticket[t].isEscalated => /\ BreachEntries(t) = {}
                               /\ \A j \in Jobs : ~ClaimedBy(j, t)
  /\ \A i, k \in BreachEntries(t) : i = k
  /\ \A i, k \in Jobs : ClaimedBy(i, t) /\ ClaimedBy(k, t) => i = k
  /\ \A j \in Jobs : Claiming(j, t) => BreachEntries(t) = {}

ClaimsSound ==
  /\ \A j \in Jobs : job[j].pc \notin {"audit", "notify"} => job[j].cur = None
  /\ \A t \in Tickets : ClaimSound(t)

\* A step that claims nothing for t.
LEMMA ClaimStays ==
  ASSUME NEW t \in Tickets, ClaimSound(t), ticket[t].isEscalated => ticket'[t].isEscalated,
         BreachEntries(t)' = BreachEntries(t),
         \A j \in Jobs : /\ ClaimedBy(j, t)' => ClaimedBy(j, t)
                         /\ Claiming(j, t)' => Claiming(j, t)
  PROVE  ClaimSound(t)'
  <1>1. \A i, k \in BreachEntries(t)' : i = k
    BY DEF ClaimSound
  <1>2. ~ticket'[t].isEscalated => BreachEntries(t)' = {}
    BY DEF ClaimSound
  <1>3. \A j \in Jobs : Claiming(j, t)' => BreachEntries(t)' = {}
    BY DEF ClaimSound
  <1>4. ~ticket'[t].isEscalated => \A j \in Jobs : ~ClaimedBy(j, t)'
    BY DEF ClaimSound
  <1>5. \A i, k \in Jobs : ClaimedBy(i, t)' /\ ClaimedBy(k, t)' => i = k
    BY DEF ClaimSound
  <1> QED
    BY <1>1, <1>2, <1>3, <1>4, <1>5 DEF ClaimSound

BreachIn(log) == {i \in DOMAIN log : /\ log[i].action = "TICKET_ESCALATED"
                                     /\ log[i].after = "SLA_BREACH"}

LEMMA BreachEntriesIn ==
  \A t : BreachEntries(t) = BreachIn(audit[t]) /\ BreachEntries(t)' = BreachIn(audit'[t])
  BY DEF BreachEntries, Entries, BreachIn

LEMMA BreachGrows ==
  ASSUME NEW log \in Seq(AuditEntry), NEW e \in AuditEntry
  PROVE  /\ e.action = "TICKET_ESCALATED" /\ e.after = "SLA_BREACH"
              => BreachIn(Append(log, e)) = BreachIn(log) \cup {Len(log) + 1}
         /\ ~(e.action = "TICKET_ESCALATED" /\ e.after = "SLA_BREACH")
              => BreachIn(Append(log, e)) = BreachIn(log)
  <1> DEFINE longer == Append(log, e)
             n == Len(log)
  <1>1. /\ DOMAIN log = 1 .. n /\ n \in Nat /\ DOMAIN longer = 1 .. n + 1
        /\ \A i \in DOMAIN log : longer[i] = log[i]
        /\ longer[n + 1] = e
    BY AppendKeeps
  <1> HIDE DEF longer, n
  <1>2. \A i : i \in 1 .. n + 1 <=> i \in 1 .. n \/ i = n + 1
    BY <1>1
  <1> QED
    BY <1>1, <1>2 DEF BreachIn, longer, n

\* One entry that is not a breach, on one timeline.
LEMMA OtherEntry ==
  ASSUME IInv, NEW t \in Tickets, NEW e \in AuditEntry, Logged(t, <<e>>),
         ~(e.action = "TICKET_ESCALATED" /\ e.after = "SLA_BREACH")
  PROVE  \A u \in Tickets : BreachEntries(u)' = BreachEntries(u)
  <1>1. audit[t] \in Seq(AuditEntry)
    BY DEF IInv, TypeOK
  <1>2. audit'[t] = Append(audit[t], e) /\ \A u \in Tickets \ {t} : audit'[u] = audit[u]
    BY <1>1, OneOrTwoMore DEF Logged
  <1>3. BreachIn(audit'[t]) = BreachIn(audit[t])
    BY <1>1, <1>2, BreachGrows
  <1> QED
    BY <1>2, <1>3, BreachEntriesIn

LEMMA AssignBreaches ==
  ASSUME IInv, NEW r \in Requests, AssignEffect(r)
  PROVE  \A t \in Tickets : BreachEntries(t)' = BreachEntries(t)
  <1> PICK t \in Tickets, to \in Staff \cup {None} :
         t = req[r].call.ticket /\ to = req[r].call.arg
    BY DEF AssignEffect, MembersOf
  <1> DEFINE auto == WillAutoEscalate(t, req[r].snap, to)
             moved == ticket[t].assignedAgentId # to
             e1 == Entry("TICKET_ESCALATED", r, None, "REASSIGNMENT_THRESHOLD")
             e2 == Entry("TICKET_ASSIGNED", r, ticket[t].assignedAgentId, to)
             log == audit[t]
             both == (IF auto THEN <<e1>> ELSE <<>>) \o (IF moved THEN <<e2>> ELSE <<>>)
             log1 == IF auto THEN Append(log, e1) ELSE log
  <1>1. ticket[t] \in Ticket /\ log \in Seq(AuditEntry)
    BY DEF IInv, TypeOK
  <1>2. e1 \in AuditEntry /\ e2 \in AuditEntry
    <2>1. ticket[t].assignedAgentId \in Staff \cup {None}
      BY <1>1 DEF Ticket
    <2> QED
      BY <2>1, SchemaAssumption, EntriesTyped DEF Actors, Reasons
  <1>3. e1.after = "REASSIGNMENT_THRESHOLD" /\ e2.action = "TICKET_ASSIGNED"
    BY DEF Entry
  <1>4. audit'[t] = log \o both /\ \A u \in Tickets \ {t} : audit'[u] = audit[u]
    BY DEF AssignEffect, Logged
  <1> HIDE DEF auto, e1, e2, log, moved
  <1>5. log1 \in Seq(AuditEntry) /\ BreachIn(log1) = BreachIn(log)
    BY <1>1, <1>2, <1>3, BreachGrows
  <1>6. audit'[t] = IF moved THEN Append(log1, e2) ELSE log1
    BY <1>1, <1>2, <1>4, OneOrTwoMore
  <1> HIDE DEF log1
  <1>7. BreachIn(audit'[t]) = BreachIn(log)
    BY <1>2, <1>3, <1>5, <1>6, BreachGrows
  <1> QED
    BY <1>4, <1>7, BreachEntriesIn DEF log

\* Only an SLA run writes the entry of a breach.
LEMMA BreachesKept ==
  ASSUME IInv, [Next]_vars, \A j \in Jobs : ~JobAudit(j)
  PROVE  \A t \in Tickets : BreachEntries(t)' = BreachEntries(t)
  <1> DEFINE Kept == \A t \in Tickets : BreachEntries(t)' = BreachEntries(t)
  <1>1. Effect
    BY StepEffect
  <1>2. NothingLogged => Kept
    BY BreachEntriesIn DEF NothingLogged
  <1>3. CASE NoteEffect
    BY <1>3, OtherEntry DEF NoteEffect
  <1>4. ASSUME NEW r \in Requests, MoveEffect(r) PROVE Kept
    <2> PICK t \in Tickets, to \in Statuses :
           t = req[r].call.ticket /\ to = req[r].call.arg
      <3>1. req[r].pc = "loaded" /\ req[r].call.op = "transition"
        BY <1>4 DEF MoveEffect, Transition, At
      <3> QED
        BY <1>4, <3>1, LoadedTyped, CallTyped DEF MoveEffect
    <2> DEFINE e == Entry("TICKET_STATUS_CHANGED", r, ticket[t].statusKey, to)
    <2>1. e \in AuditEntry /\ e.action = "TICKET_STATUS_CHANGED"
      BY DEF Entry, AuditEntry, Actors, IInv, TypeOK, Ticket
    <2>2. Logged(t, <<e>>)
      BY <1>4 DEF MoveEffect
    <2> HIDE DEF e
    <2> QED
      BY <2>1, <2>2, OtherEntry
  <1>5. ASSUME NEW r \in Requests, EscalateEffect(r) PROVE Kept
    <2> DEFINE e == Entry("TICKET_ESCALATED", r, None, "MANUAL")
    <2>1. e \in AuditEntry /\ e.after = "MANUAL"
      BY DEF Entry, AuditEntry, Actors, Reasons
    <2> HIDE DEF e
    <2> PICK t \in Tickets : Logged(t, <<e>>)
      BY <1>5 DEF EscalateEffect, e
    <2> QED
      BY <2>1, OtherEntry
  <1> HIDE DEF Kept
  <1>6. Kept
    BY <1>1, <1>2, <1>3, <1>4, <1>5, AssignBreaches
    DEF Effect, RespondEffect, JobAuditEffect, ClaimEffect, Kept
  <1> QED
    BY <1>6 DEF Kept

\* No SLA run is told of, or takes in hand, a ticket it had nothing to do with.
NothingClaimed ==
  /\ \A j \in Jobs, t \in Tickets : /\ ClaimedBy(j, t)' => ClaimedBy(j, t)
                                    /\ Claiming(j, t)' => Claiming(j, t)
  /\ \A j \in Jobs : job'[j].pc \notin {"audit", "notify"} => job'[j].cur = None

LEMMA UnclaimedStep ==
  ASSUME IInv, IInv', ClaimsSound, RowsFollow, NothingClaimed,
         \A t \in Tickets : BreachEntries(t)' = BreachEntries(t)
  PROVE  ClaimsSound'
  <1>1. \A t \in Tickets : ticket[t].isEscalated => ticket'[t].isEscalated
    BY DEF RowsFollow, Follows
  <1> QED
    BY <1>1, ClaimStays DEF ClaimsSound, NothingClaimed

\* The notifications of an SLA run after a step are those before it.
TellsKept == \A j \in Jobs, t \in Tickets : Notified(j, t)' => Notified(j, t)

LEMMA RequestsTellNobody ==
  ASSUME IInv, NEW r \in Requests,
         \/ \E c \in Calls : Load(r, c)
         \/ Serve(r) \/ SkipNotice(r) \/ Abort(r)
  PROVE  TellsKept /\ job' = job
  <1>1. ASSUME notes' = notes PROVE TellsKept
    BY <1>1 DEF TellsKept, Notified
  <1>2. CASE \E c \in Calls : Load(r, c)
    BY <1>1, <1>2 DEF Load
  <1>3. CASE \/ Transition(r) \/ Assign(r) \/ Conflict(r) \/ Escalate(r)
             \/ Acknowledge(r) \/ AuditAcknowledge(r)
             \/ CreateComment(r) \/ StampFirstResponse(r)
             \/ SetArchived(r) \/ AuditArchived(r) \/ NotifyManager(r)
             \/ SkipNotice(r) \/ Abort(r)
    BY <1>1, <1>3 DEF Transition, Assign, Conflict, Escalate, Acknowledge, AuditAcknowledge,
       CreateComment, StampFirstResponse, SetArchived, AuditArchived, NotifyManager,
       SkipNotice, Abort
  <1>4. CASE MarkReadForTicket(r)
    <2>1. ASSUME NEW n \in notes', NEW j \in Jobs, n.by = j
          PROVE  \E m \in notes : m.by = n.by /\ m.ticket = n.ticket
      <3>1. PICK m \in notes : n = IF m.ticket = req[r].call.ticket
                                   THEN [m EXCEPT !.read = TRUE] ELSE m
        BY <1>4 DEF MarkReadForTicket
      <3>2. m \in Notification
        BY DEF IInv, TypeOK
      <3> QED
        BY <3>1, <3>2 DEF Notification
    <2> QED
      BY <1>4, <2>1 DEF MarkReadForTicket, TellsKept, Notified
  <1>5. CASE Deliver(r)
    <2>1. \A n \in Rows(r, req[r].call.ticket, Head(req[r].outbox)) : n.by = r
      BY DEF Rows
    <2>2. r \notin Jobs
      BY ActorsAssumption
    <2> QED
      BY <1>5, <2>1, <2>2 DEF Deliver, TellsKept, Notified
  <1> QED
    BY <1>2, <1>3, <1>4, <1>5 DEF Serve

LEMMA ReadersTellNobody ==
  ASSUME IInv, NEW u \in Readers, MarkRead(u)
  PROVE  TellsKept /\ job' = job
  <1>1. PICK n \in notes : notes' = (notes \ {n}) \cup {[n EXCEPT !.read = TRUE]}
    BY DEF MarkRead
  <1>2. n \in Notification
    BY DEF IInv, TypeOK
  <1>3. [n EXCEPT !.read = TRUE].by = n.by /\ [n EXCEPT !.read = TRUE].ticket = n.ticket
    BY <1>2 DEF Notification
  <1> QED
    BY <1>1, <1>3 DEF MarkRead, TellsKept, Notified

LEMMA SameJobs ==
  ASSUME ClaimsSound, TellsKept, job' = job
  PROVE  NothingClaimed
  BY DEF ClaimsSound, TellsKept, NothingClaimed, ClaimedBy, Claiming

\* A run between two tickets, or at its end, has none in hand.
LEMMA JobLetsGo ==
  ASSUME IInv, ClaimsSound, NEW j \in Jobs, NEW run \in Job, job' = [job EXCEPT ![j] = run],
         run.cur = job[j].cur \/ run.cur = None,
         run.pc \notin {"audit", "notify"} => run.cur = None,
         run.pc # "audit", TellsKept
  PROVE  NothingClaimed
  <1>1. job \in [Jobs -> Job]
    BY DEF IInv, TypeOK
  <1>2. job'[j] = run /\ \A i \in Jobs \ {j} : job'[i] = job[i]
    BY <1>1
  <1>3. ASSUME NEW i \in Jobs, NEW t \in Tickets
        PROVE  /\ ClaimedBy(i, t)' => ClaimedBy(i, t)
               /\ Claiming(i, t)' => Claiming(i, t)
    <2>1. None # t
      BY NoneAssumption
    <2> QED
      BY <1>2, <2>1 DEF ClaimsSound, TellsKept, ClaimedBy, Claiming
  <1>4. \A i \in Jobs : job'[i].pc \notin {"audit", "notify"} => job'[i].cur = None
    BY <1>2 DEF ClaimsSound
  <1> QED
    BY <1>3, <1>4 DEF NothingClaimed

LEMMA ScanClaims ==
  ASSUME IInv, ClaimsSound, NEW j \in Jobs, JobScan(j)
  PROVE  NothingClaimed
  <1> DEFINE run == [pc |-> "loop", now |-> now, todo |-> Candidates(now), cur |-> None]
  <1>1. run \in Job
    BY DEF Job, Candidates, IInv, TypeOK
  <1>2. job' = [job EXCEPT ![j] = run] /\ TellsKept
    BY DEF JobScan, TellsKept, Notified
  <1>3. run.pc = "loop" /\ run.cur = None
    OBVIOUS
  <1> HIDE DEF run
  <1> QED
    BY <1>1, <1>2, <1>3, JobLetsGo

LEMMA AbortClaims ==
  ASSUME IInv, ClaimsSound, NEW j \in Jobs, JobAbort(j)
  PROVE  NothingClaimed
  <1> DEFINE run == [job[j] EXCEPT !.pc = "idle", !.todo = {}, !.cur = None]
  <1>1. run \in Job /\ run.pc = "idle" /\ run.cur = None
    BY DEF IInv, TypeOK, Job
  <1>2. job' = [job EXCEPT ![j] = run] /\ TellsKept
    BY DEF JobAbort, TellsKept, Notified
  <1> HIDE DEF run
  <1> QED
    BY <1>1, <1>2, JobLetsGo

\* The claim of a ticket that is escalated already claims nothing.
LEMMA PassClaims ==
  ASSUME IInv, ClaimsSound, NEW j \in Jobs, NEW t \in Tickets, JobClaim(j, t),
         ticket[t].isEscalated
  PROVE  NothingClaimed
  <1> DEFINE todo == job[j].todo \ {t}
             run == [job[j] EXCEPT !.todo = todo, !.pc = Resume(j, todo)]
  <1>1. job[j] \in Job /\ todo \subseteq Tickets /\ job[j].pc = "loop"
    BY DEF IInv, TypeOK, Job, JobClaim
  <1>2. run \in Job /\ run.pc \in {"idle", "loop"} /\ run.cur = job[j].cur
    BY <1>1 DEF Job, Resume
  <1>3. job' = [job EXCEPT ![j] = run] /\ TellsKept
    BY DEF JobClaim, TellsKept, Notified
  <1>4. job[j].cur = None
    BY <1>1 DEF ClaimsSound
  <1> HIDE DEF run
  <1> QED
    BY <1>2, <1>3, <1>4, JobLetsGo

\* The alert goes out under the name of the run that has the ticket in hand.
LEMMA NotifyClaims ==
  ASSUME IInv, ClaimsSound, NEW j \in Jobs, JobNotify(j)
  PROVE  NothingClaimed
  <1> DEFINE run == [job[j] EXCEPT !.pc = Resume(j, job[j].todo), !.cur = None]
             t == job[j].cur
  <1>1. job \in [Jobs -> Job] /\ t \in Tickets
    BY DEF JobNotify, IInv, TypeOK, HandlersWellFormed
  <1>2. run.cur = None /\ run.pc \in {"idle", "loop"}
    BY <1>1 DEF Job, Resume
  <1>3. job' = [job EXCEPT ![j] = run]
    BY DEF JobNotify
  <1> HIDE DEF run
  <1>4. job'[j] = run /\ \A i \in Jobs \ {j} : job'[i] = job[i]
    BY <1>1, <1>3
  <1>5. ASSUME NEW i \in Jobs, NEW u \in Tickets, Notified(i, u)'
        PROVE  Notified(i, u) \/ (i = j /\ u = t)
    <2>1. PICK n \in notes' : n.by = i /\ n.ticket = u
      BY <1>5 DEF Notified
    <2>2. \A m \in Rows(j, t, ToManagers("TICKET_ESCALATED", t)) : m.by = j /\ m.ticket = t
      BY DEF Rows
    <2> QED
      BY <2>1, <2>2 DEF JobNotify, Notified
  <1>6. ASSUME NEW i \in Jobs, NEW u \in Tickets
        PROVE  /\ ClaimedBy(i, u)' => ClaimedBy(i, u)
               /\ Claiming(i, u)' => Claiming(i, u)
    <2>1. u # None
      BY NoneAssumption
    <2> QED
      BY <1>2, <1>4, <1>5, <2>1 DEF ClaimedBy, Claiming
  <1>7. \A i \in Jobs : job'[i].pc \notin {"audit", "notify"} => job'[i].cur = None
    BY <1>2, <1>4 DEF ClaimsSound
  <1> QED
    BY <1>6, <1>7 DEF NothingClaimed

\* The run that claims a ticket is the first to do so.
LEMMA ClaimClaims ==
  ASSUME IInv, IInv', ClaimsSound, RowsFollow, NEW j \in Jobs, NEW t \in Tickets,
         JobClaim(j, t), ~ticket[t].isEscalated,
         \A u \in Tickets : BreachEntries(u)' = BreachEntries(u)
  PROVE  ClaimsSound'
  <1> DEFINE todo == job[j].todo \ {t}
             run == [job[j] EXCEPT !.todo = todo, !.pc = "audit", !.cur = t]
  <1>1. job \in [Jobs -> Job] /\ job[j].pc = "loop"
    BY DEF IInv, TypeOK, JobClaim
  <1>2. run.cur = t /\ run.pc = "audit"
    BY <1>1 DEF Job
  <1>3. job' = [job EXCEPT ![j] = run] /\ notes' = notes
    BY DEF JobClaim
  <1> HIDE DEF run
  <1>4. job'[j] = run /\ \A i \in Jobs \ {j} : job'[i] = job[i]
    BY <1>1, <1>3
  <1>5. ASSUME NEW i \in Jobs, NEW u \in Tickets
        PROVE  /\ ClaimedBy(i, u)' => ClaimedBy(i, u) \/ (i = j /\ u = t)
               /\ Claiming(i, u)' => Claiming(i, u) \/ (i = j /\ u = t)
    BY <1>2, <1>3, <1>4 DEF ClaimedBy, Claiming, Notified
  <1>6. \A u \in Tickets : ticket[u].isEscalated => ticket'[u].isEscalated
    BY DEF RowsFollow, Follows
  <1>7. ticket'[t].isEscalated
    BY BreachEffect DEF ClaimEffect, Escalated
  <1>8. /\ BreachEntries(t)' = {}
        /\ \A i \in Jobs : ~ClaimedBy(i, t)
    BY DEF ClaimsSound, ClaimSound
  <1>9. \A i \in Jobs : job'[i].pc \notin {"audit", "notify"} => job'[i].cur = None
    BY <1>2, <1>4 DEF ClaimsSound
  <1>10. ASSUME NEW u \in Tickets
         PROVE  ClaimSound(u)'
    <2>1. CASE u = t
      BY <1>5, <1>7, <1>8, <2>1 DEF ClaimSound
    <2>2. CASE u # t
      <3>1. \A i \in Jobs : (ClaimedBy(i, u)' => ClaimedBy(i, u)) /\ (Claiming(i, u)' => Claiming(i, u))
        BY <1>5, <2>2
      <3> QED
        BY <1>6, <3>1, ClaimStays DEF ClaimsSound
    <2> QED
      BY <2>1, <2>2
  <1> QED
    BY <1>9, <1>10 DEF ClaimsSound

\* The entry of a claim is its ticket's first.
LEMMA AuditClaims ==
  ASSUME IInv, IInv', ClaimsSound, NEW j \in Jobs, JobAudit(j)
  PROVE  ClaimsSound'
  <1> PICK t \in Tickets : t = job[j].cur
    BY DEF JobAudit, IInv, HandlersWellFormed
  <1> DEFINE run == [job[j] EXCEPT !.pc = "notify"]
             e == Entry("TICKET_ESCALATED", j, None, "SLA_BREACH")
             n == Len(audit[t]) + 1
  <1>1. job \in [Jobs -> Job] /\ job[j].pc = "audit" /\ audit[t] \in Seq(AuditEntry)
    BY DEF IInv, TypeOK, JobAudit
  <1>2. run.cur = t /\ run.pc = "notify"
    BY <1>1 DEF Job
  <1>3. job' = [job EXCEPT ![j] = run] /\ notes' = notes /\ ticket' = ticket
    BY DEF JobAudit
  <1>4. e \in AuditEntry /\ e.action = "TICKET_ESCALATED" /\ e.after = "SLA_BREACH"
    BY DEF Entry, AuditEntry, Actors, Reasons
  <1>5. Logged(t, <<e>>)
    BY <1>1, LogAdds DEF JobAudit, IInv
  <1> HIDE DEF run, e
  <1>6. job'[j] = run /\ \A i \in Jobs \ {j} : job'[i] = job[i]
    BY <1>1, <1>3
  <1>7. audit'[t] = Append(audit[t], e) /\ \A u \in Tickets \ {t} : audit'[u] = audit[u]
    BY <1>1, <1>4, <1>5, OneOrTwoMore DEF Logged
  <1>8. /\ BreachEntries(t)' = BreachEntries(t) \cup {n}
        /\ \A u \in Tickets \ {t} : BreachEntries(u)' = BreachEntries(u)
    <2>1. BreachIn(audit'[t]) = BreachIn(audit[t]) \cup {n}
      BY <1>1, <1>4, <1>7, BreachGrows
    <2> QED
      BY <1>7, <2>1, BreachEntriesIn
  <1> HIDE DEF n
  <1>9. Claiming(j, t) /\ ClaimedBy(j, t)
    BY <1>1 DEF Claiming, ClaimedBy
  <1>10. BreachEntries(t) = {} /\ ticket[t].isEscalated
         /\ \A i \in Jobs : ClaimedBy(i, t) => i = j
    BY <1>9 DEF ClaimsSound, ClaimSound
  <1>11. ASSUME NEW i \in Jobs, NEW u \in Tickets
         PROVE  /\ ClaimedBy(i, u)' => ClaimedBy(i, u)
                /\ Claiming(i, u)' => Claiming(i, u) /\ i # j
    BY <1>2, <1>3, <1>6 DEF ClaimedBy, Claiming, Notified
  <1>12. \A i \in Jobs : job'[i].pc \notin {"audit", "notify"} => job'[i].cur = None
    BY <1>2, <1>6 DEF ClaimsSound
  <1>13. \A i \in Jobs : ~Claiming(i, t)'
    BY <1>10, <1>11 DEF Claiming, ClaimedBy
  <1>14. ASSUME NEW u \in Tickets
         PROVE  ClaimSound(u)'
    <2>1. CASE u = t
      BY <1>3, <1>8, <1>10, <1>11, <1>13, <2>1 DEF ClaimSound
    <2>2. CASE u # t
      <3>1. /\ \A i \in Jobs : (ClaimedBy(i, u)' => ClaimedBy(i, u))
                               /\ (Claiming(i, u)' => Claiming(i, u))
            /\ BreachEntries(u)' = BreachEntries(u)
        BY <1>8, <1>11, <2>2
      <3> QED
        BY <1>3, <3>1, ClaimStays DEF ClaimsSound
    <2> QED
      BY <2>1, <2>2
  <1> QED
    BY <1>12, <1>14 DEF ClaimsSound

LEMMA StepClaims ==
  ASSUME IInv, ClaimsSound, [Next]_vars
  PROVE  ClaimsSound'
  <1>1. IInv' /\ RowsFollow
    BY NextPreserves
  <1>2. CASE \E j \in Jobs : JobAudit(j)
    BY <1>1, <1>2, AuditClaims
  <1>3. CASE ~ \E j \in Jobs : JobAudit(j)
    <2>1. \A t \in Tickets : BreachEntries(t)' = BreachEntries(t)
      BY <1>3, BreachesKept
    <2>2. NothingClaimed => ClaimsSound'
      BY <1>1, <2>1, UnclaimedStep
    <2>3. ASSUME NEW r \in Requests,
                 \/ \E c \in Calls : Load(r, c)
                 \/ Serve(r) \/ SkipNotice(r) \/ Abort(r)
          PROVE  ClaimsSound'
      BY <2>2, <2>3, RequestsTellNobody, SameJobs
    <2>4. ASSUME NEW u \in Readers, MarkRead(u) PROVE ClaimsSound'
      BY <2>2, <2>4, ReadersTellNobody, SameJobs
    <2>5. ASSUME NEW j \in Jobs, NEW t \in Tickets, JobClaim(j, t) PROVE ClaimsSound'
      <3>1. CASE ticket[t].isEscalated
        BY <2>2, <2>5, <3>1, PassClaims
      <3>2. CASE ~ticket[t].isEscalated
        BY <1>1, <2>1, <2>5, <3>2, ClaimClaims
      <3> QED
        BY <3>1, <3>2
    <2>6. ASSUME NEW j \in Jobs, JobScan(j) \/ JobNotify(j) \/ JobAbort(j) PROVE ClaimsSound'
      BY <2>2, <2>6, ScanClaims, NotifyClaims, AbortClaims
    <2>7. CASE Tick \/ UNCHANGED vars
      <3>1. job' = job /\ notes' = notes
        BY <2>7 DEF Tick, vars
      <3>2. TellsKept
        BY <3>1 DEF TellsKept, Notified
      <3> QED
        BY <2>2, <3>1, <3>2, SameJobs
    <2> QED
      BY <1>3, <2>3, <2>4, <2>5, <2>6, <2>7 DEF Next, RunJob
  <1> QED
    BY <1>2, <1>3

LEMMA InitClaims == Init => ClaimsSound
  <1> SUFFICES ASSUME Init PROVE ClaimsSound
    OBVIOUS
  <1>1. \A t \in Tickets : BreachEntries(t) = {}
    BY DEF Init, BreachEntries, Entries
  <1>2. \A j \in Jobs : job[j].cur = None /\ \A t \in Tickets : ~ClaimedBy(j, t)
    BY NoneAssumption DEF Init, ClaimedBy, Notified
  <1>3. \A t \in Tickets : \A i, k \in BreachEntries(t) : i = k
    BY <1>1
  <1> QED
    BY <1>1, <1>2, <1>3, Zenon DEF ClaimsSound, ClaimSound

\* A set whose members are all the same has one at most.
LEMMA OneAtMost ==
  ASSUME NEW S, \A x, y \in S : x = y
  PROVE  Cardinality(S) <= 1 /\ Cardinality(S) \in Nat
  <1>1. CASE S = {}
    BY <1>1, FS_EmptySet
  <1>2. CASE S # {}
    <2> PICK x \in S : TRUE
      BY <1>2
    <2>1. S = {x}
      OBVIOUS
    <2> QED
      BY <2>1, FS_Singleton
  <1> QED
    BY <1>1, <1>2

\* However many SLA runs overlap, and wherever they die, a ticket's breach is
\* claimed by one of them: one entry on the timeline, one run that tells.
THEOREM BreachAlwaysClaimedOnce == Spec => []BreachClaimedOnce
  <1>1. ASSUME ClaimsSound PROVE BreachClaimedOnce
    <2> SUFFICES ASSUME NEW t \in Tickets
                 PROVE  /\ Cardinality({i \in Entries(t, "TICKET_ESCALATED") :
                                          audit[t][i].after = "SLA_BREACH"}) <= 1
                        /\ Cardinality({j \in Jobs : \/ job[j].cur = t
                                                     \/ \E n \in notes : n.by = j /\ n.ticket = t}) <= 1
      BY DEF BreachClaimedOnce
    <2>1. Cardinality(BreachEntries(t)) <= 1
      BY <1>1, OneAtMost DEF ClaimsSound, ClaimSound
    <2>2. \A i, k \in {j \in Jobs : ClaimedBy(j, t)} : i = k
      BY <1>1 DEF ClaimsSound, ClaimSound
    <2>3. Cardinality({j \in Jobs : ClaimedBy(j, t)}) <= 1
      BY <2>2, OneAtMost
    <2> QED
      BY <2>1, <2>3 DEF BreachEntries, ClaimedBy, Notified
  <1>2. IInv /\ ClaimsSound /\ [Next]_vars => ClaimsSound'
    BY StepClaims
  <1> QED
    BY <1>1, <1>2, InitClaims, InvariantHolds, PTL DEF Spec
-----------------------------------------------------------------------------
(* A resolution is announced once *)

Announces(notice) == notice.type = "TICKET_RESOLVED"

Announcing(r, t) == /\ req[r].pc = "notifying"
                    /\ req[r].call.ticket = t
                    /\ \E i \in DOMAIN req[r].outbox : Announces(req[r].outbox[i])

Announced(t) == {n \in notes : n.ticket = t /\ n.type = "TICKET_RESOLVED"}

\* Only the requester is told of a resolution, and before anybody else is told.
TellsRequesterFirst(box) ==
  \A i \in DOMAIN box : Announces(box[i]) => i = 1 /\ box[i].to = {Requester}

\* What ResolutionAnnouncedOnce says of t, and what makes it inductive: it is
\* announced only with a resolution time, sent or still to be sent.
AnnouncementSound(t) ==
  /\ ticket[t].resolvedAt = None => /\ Announced(t) = {}
                                    /\ \A r \in Requests : ~Announcing(r, t)
  /\ \A m, n \in Announced(t) : m = n
  /\ \A q, r \in Requests : Announcing(q, t) /\ Announcing(r, t) => q = r
  /\ Announced(t) # {} => \A r \in Requests : ~Announcing(r, t)

AnnouncementsSound ==
  /\ \A r \in Requests : req[r].pc = "notifying" => TellsRequesterFirst(req[r].outbox)
  /\ \A t \in Tickets : AnnouncementSound(t)

\* A step after which t has no announcement that it did not have before.
LEMMA AnnouncementStays ==
  ASSUME NEW t \in Tickets, AnnouncementSound(t),
         ticket'[t].resolvedAt = None => ticket[t].resolvedAt = None,
         \A m, n \in Announced(t)' : m = n,
         Announced(t)' # {} => Announced(t) # {},
         \A r \in Requests : Announcing(r, t)' => Announcing(r, t)
  PROVE  AnnouncementSound(t)'
  <1>1. ticket'[t].resolvedAt = None => /\ Announced(t)' = {}
                                        /\ \A r \in Requests : ~Announcing(r, t)'
    BY DEF AnnouncementSound
  <1>2. \A q, r \in Requests : Announcing(q, t)' /\ Announcing(r, t)' => q = r
    BY DEF AnnouncementSound
  <1>3. Announced(t)' # {} => \A r \in Requests : ~Announcing(r, t)'
    BY DEF AnnouncementSound
  <1> QED
    BY <1>1, <1>2, <1>3 DEF AnnouncementSound

-----------------------------------------------------------------------------
\* What a handler's own state is after it has gone on.
LEMMA Sent ==
  ASSUME IInv, NEW r \in Requests, NEW box, Send(r, box)
  PROVE  /\ \A q \in Requests \ {r} : req'[q] = req[q]
         /\ req'[r].pc = IF box = <<>> THEN "done" ELSE "notifying"
         /\ req'[r].call = req[r].call /\ req'[r].outbox = box
  <1> DEFINE pc == IF box = <<>> THEN "done" ELSE "notifying"
             h  == [req[r] EXCEPT !.pc = pc, !.snap = None, !.at = None, !.outbox = box]
  <1>1. req \in [Requests -> Request]
    BY DEF IInv, TypeOK
  <1>2. h.pc = pc /\ h.call = req[r].call /\ h.outbox = box
    BY <1>1 DEF Request
  <1>3. req' = [req EXCEPT ![r] = h]
    BY DEF Send
  <1> HIDE DEF h
  <1> QED
    BY <1>1, <1>2, <1>3

LEMMA Gone ==
  ASSUME IInv, NEW r \in Requests, NEW pc, Goto(r, pc)
  PROVE  /\ \A q \in Requests \ {r} : req'[q] = req[q]
         /\ req'[r].pc = pc /\ req'[r].call = req[r].call
  <1> DEFINE h == [req[r] EXCEPT !.pc = pc, !.snap = None, !.at = None]
  <1>1. req \in [Requests -> Request]
    BY DEF IInv, TypeOK
  <1>2. h.pc = pc /\ h.call = req[r].call
    BY <1>1 DEF Request
  <1>3. req' = [req EXCEPT ![r] = h]
    BY DEF Goto
  <1> HIDE DEF h
  <1> QED
    BY <1>1, <1>2, <1>3

Silent(box) == \A i \in DOMAIN box : ~Announces(box[i])

\* After its step r has no resolution to announce, and nobody else has moved.
Silenced(r) == /\ \A q \in Requests \ {r} : req'[q] = req[q]
               /\ req'[r].pc = "notifying" => Silent(req'[r].outbox)

LEMMA SilentJoin ==
  ASSUME NEW b1 \in Seq(Notice), NEW b2 \in Seq(Notice), Silent(b1), Silent(b2)
  PROVE  Silent(b1 \o b2)
  <1> SUFFICES ASSUME NEW i \in DOMAIN (b1 \o b2) PROVE ~Announces((b1 \o b2)[i])
    BY DEF Silent
  <1>1. CASE i <= Len(b1)
    BY <1>1 DEF Silent
  <1>2. CASE i > Len(b1)
    <2>1. i - Len(b1) \in DOMAIN b2 /\ (b1 \o b2)[i] = b2[i - Len(b1)]
      BY <1>2
    <2> QED
      BY <2>1 DEF Silent
  <1> QED
    BY <1>1, <1>2

LEMMA SentSilently ==
  ASSUME IInv, NEW r \in Requests, NEW box, Send(r, box), Silent(box)
  PROVE  Silenced(r)
  BY Sent DEF Silenced

LEMMA GoneSilently ==
  ASSUME IInv, NEW r \in Requests, NEW pc, Goto(r, pc), pc # "notifying"
  PROVE  Silenced(r)
  BY Gone DEF Silenced

LEMMA AssignSilenced ==
  ASSUME IInv, NEW r \in Requests, Assign(r)
  PROVE  Silenced(r)
  <1> PICK t \in Tickets, agent \in Staff \cup {None} :
         t = req[r].call.ticket /\ agent = req[r].call.arg
    BY LoadedTyped, CallTyped DEF Assign, At
  <1> DEFINE auto == WillAutoEscalate(t, req[r].snap, agent)
             told == req[r].snap.assignedAgentId # agent /\ agent # None
             n1 == ToManagers("TICKET_ESCALATED", t)
             n2 == ToRequester("TICKET_ASSIGNED")
             n3 == [type |-> "TICKET_ASSIGNED_TO_YOU", to |-> {agent}]
             b1 == IF auto THEN <<n1>> ELSE <<>>
             b2 == IF told THEN <<n2, n3>> ELSE <<>>
  <1>1. Send(r, b1 \o b2)
    BY DEF Assign
  <1>2. /\ n1 \in Notice /\ n2 \in Notice /\ (told => n3 \in Notice)
        /\ ~Announces(n1) /\ ~Announces(n2) /\ ~Announces(n3)
    BY NoticesTyped DEF NoticeTypes, Notice, Announces, ToManagers, ToRequester
  <1> HIDE DEF auto, told, n1, n2, n3
  <1>3. b1 \in Seq(Notice) /\ Silent(b1)
    BY <1>2 DEF Silent
  <1>4. b2 \in Seq(Notice) /\ Silent(b2)
    BY <1>2 DEF Silent
  <1> HIDE DEF b1, b2
  <1> QED
    BY <1>1, <1>3, <1>4, SilentJoin, SentSilently

\* Whatever is left of a handler's notifications, the announcement is gone.
LEMMA TailSilenced ==
  ASSUME IInv, AnnouncementsSound, NEW r \in Requests, Deliver(r) \/ SkipNotice(r)
  PROVE  Silenced(r)
  <1> PICK box \in Seq(Notice) : box = req[r].outbox
    BY DEF IInv, TypeOK, Request
  <1>1. req[r].pc = "notifying" /\ Send(r, Tail(box)) /\ box # <<>>
    BY DEF Deliver, SkipNotice, IInv, HandlersWellFormed
  <1>2. \A i \in DOMAIN box : Announces(box[i]) => i = 1
    BY <1>1 DEF AnnouncementsSound, TellsRequesterFirst
  <1>3. ASSUME NEW i \in DOMAIN Tail(box) PROVE ~Announces(Tail(box)[i])
    <2>1. i \in Nat /\ i >= 1 /\ i + 1 \in DOMAIN box /\ Tail(box)[i] = box[i + 1]
      BY <1>1
    <2> QED
      BY <1>2, <2>1
  <1> QED
    BY <1>1, <1>3, SentSilently DEF Silent

LEMMA CommentNoticesSilent == ASSUME NEW r PROVE Silent(CommentNotices(r))
  BY DEF CommentNotices, Silent, Announces, ToRequester, ToManagersBut

LEMMA RequestSilenced ==
  ASSUME IInv, AnnouncementsSound, NEW r \in Requests,
         \/ \E c \in Calls : Load(r, c)
         \/ Serve(r) /\ ~Transition(r)
         \/ SkipNotice(r) \/ Abort(r)
  PROVE  Silenced(r)
  <1>1. ASSUME NEW c \in Calls, Load(r, c) PROVE Silenced(r)
    BY <1>1 DEF Load, Silenced, IInv, TypeOK, Request
  <1>2. CASE Assign(r)
    BY <1>2, AssignSilenced
  <1>3. CASE Deliver(r) \/ SkipNotice(r)
    BY <1>3, TailSilenced
  <1>4. CASE \/ Conflict(r) \/ Acknowledge(r) \/ AuditAcknowledge(r) \/ MarkReadForTicket(r)
             \/ SetArchived(r) \/ AuditArchived(r) \/ Abort(r)
    BY <1>4, GoneSilently DEF Conflict, Acknowledge, AuditAcknowledge, MarkReadForTicket,
       SetArchived, AuditArchived, Abort
  <1>5. CASE CreateComment(r) \/ StampFirstResponse(r)
    BY <1>5, GoneSilently, SentSilently, CommentNoticesSilent DEF CreateComment, StampFirstResponse
  <1>6. CASE Escalate(r)
    <2>1. Silent(<<ToManagers("TICKET_ESCALATED", req[r].call.ticket)>>)
      BY DEF Silent, Announces, ToManagers
    <2> QED
      BY <1>6, <2>1, SentSilently DEF Escalate
  <1>7. CASE NotifyManager(r)
    <2>1. Silent(<<ToManagers("TICKET_MANAGER_FYI", req[r].call.ticket)>>)
      BY DEF Silent, Announces, ToManagers
    <2> QED
      BY <1>7, <2>1, SentSilently DEF NotifyManager
  <1> QED
    BY <1>1, <1>2, <1>3, <1>4, <1>5, <1>6, <1>7 DEF Serve

\* Nobody is told of a resolution for the first time.
NobodyTold ==
  \A t \in Tickets : /\ \A m, n \in Announced(t)' : m = n
                     /\ Announced(t)' # {} => Announced(t) # {}

LEMMA SameNotesTellNobody ==
  ASSUME AnnouncementsSound, notes' = notes
  PROVE  NobodyTold
  BY DEF AnnouncementsSound, AnnouncementSound, NobodyTold, Announced

LEMMA ReadingTellsNobody ==
  ASSUME IInv, AnnouncementsSound,
         (\E r \in Requests : MarkReadForTicket(r)) \/ (\E u \in Readers : MarkRead(u))
  PROVE  NobodyTold
  <1> DEFINE Seen(n) == [n EXCEPT !.read = TRUE]
  <1>1. \A n \in notes : Seen(n).ticket = n.ticket /\ Seen(n).type = n.type
    BY DEF IInv, TypeOK, Notification
  <1> HIDE DEF Seen
  <1>2. ASSUME NEW r \in Requests, MarkReadForTicket(r) PROVE NobodyTold
    <2>1. notes' = {IF n.ticket = req[r].call.ticket THEN Seen(n) ELSE n : n \in notes}
      BY <1>2 DEF MarkReadForTicket, Seen
    <2>2. ASSUME NEW t \in Tickets, NEW m \in Announced(t)'
          PROVE  \E n \in Announced(t) : m = IF n.ticket = req[r].call.ticket THEN Seen(n) ELSE n
      BY <1>1, <2>1 DEF Announced
    <2> QED
      BY <2>2 DEF AnnouncementsSound, AnnouncementSound, NobodyTold
  <1>3. ASSUME NEW u \in Readers, MarkRead(u) PROVE NobodyTold
    <2>1. PICK n \in notes : notes' = (notes \ {n}) \cup {Seen(n)}
      BY <1>3 DEF MarkRead, Seen
    <2>2. ASSUME NEW t \in Tickets, NEW m \in Announced(t)'
          PROVE  \/ m \in Announced(t) /\ m # n
                 \/ m = Seen(n) /\ n \in Announced(t)
      BY <1>1, <2>1 DEF Announced
    <2> QED
      BY <2>2 DEF AnnouncementsSound, AnnouncementSound, NobodyTold
  <1> QED
    BY <1>2, <1>3

\* The alert of an SLA run announces no resolution.
LEMMA AlertTellsNobody ==
  ASSUME AnnouncementsSound, NEW j \in Jobs, JobNotify(j)
  PROVE  NobodyTold
  <1>1. \A n \in Rows(j, job[j].cur, ToManagers("TICKET_ESCALATED", job[j].cur)) :
          n.type = "TICKET_ESCALATED"
    BY DEF Rows, ToManagers
  <1>2. \A t \in Tickets : Announced(t)' = Announced(t)
    BY <1>1 DEF JobNotify, Announced
  <1> QED
    BY <1>2 DEF AnnouncementsSound, AnnouncementSound, NobodyTold

\* Every handler's announcement was its announcement before.
NothingAnnounced ==
  \A r \in Requests : \/ req'[r] = req[r]
                      \/ req'[r].pc = "notifying" => Silent(req'[r].outbox)

LEMMA QuietStep ==
  ASSUME IInv, AnnouncementsSound, RowsFollow, NobodyTold, NothingAnnounced
  PROVE  AnnouncementsSound'
  <1>1. \A t \in Tickets : ticket'[t].resolvedAt = None => ticket[t].resolvedAt = None
    BY DEF RowsFollow, Follows
  <1>2. \A r \in Requests, t \in Tickets : Announcing(r, t)' => Announcing(r, t)
    BY DEF NothingAnnounced, Announcing, Silent
  <1>3. ASSUME NEW r \in Requests, req'[r].pc = "notifying"
        PROVE  TellsRequesterFirst(req'[r].outbox)
    BY <1>3 DEF AnnouncementsSound, NothingAnnounced, Silent, TellsRequesterFirst
  <1>4. ASSUME NEW t \in Tickets PROVE AnnouncementSound(t)'
    <2>1. AnnouncementSound(t)
      BY DEF AnnouncementsSound
    <2> QED
      BY <1>1, <1>2, <2>1, AnnouncementStays DEF NobodyTold
  <1> QED
    BY <1>3, <1>4 DEF AnnouncementsSound

\* transition(): an announcement only of a ticket that had no resolution time,
\* and so none before.
LEMMA TransitionAnnounces ==
  ASSUME IInv, AnnouncementsSound, RowsFollow, NEW r \in Requests, Transition(r)
  PROVE  AnnouncementsSound'
  <1> PICK t \in Tickets, to \in Statuses :
         t = req[r].call.ticket /\ to = req[r].call.arg
    BY LoadedTyped, CallTyped DEF Transition, At
  <1> DEFINE first == IsFirstResolution(req[r].snap, to)
             n1 == ToRequester(IF first THEN "TICKET_RESOLVED" ELSE "TICKET_STATUS_CHANGED")
             n2 == ToManagersBut("TICKET_STATUS_UPDATE_FYI", t, req[r].call.staff)
             box == <<n1, n2>>
  <1>1. Send(r, box) /\ notes' = notes
    BY DEF Transition
  <1>2. /\ Announces(n1) <=> first
        /\ ~Announces(n2) /\ n1.to = {Requester}
    BY DEF Announces, ToRequester, ToManagersBut
  <1>3. first => to \in Terminal /\ ticket[t].resolvedAt = None
    <2>1. SameLockedFields(req[r].snap, ticket[t])
      BY LoadedTyped DEF Transition, At, Unmodified, Follows
    <2> QED
      BY <2>1 DEF IsFirstResolution, SameLockedFields
  <1>4. ticket'[t].resolvedAt # None <=> ticket[t].resolvedAt # None \/ to \in Terminal
    BY TransitionEffect DEF MoveEffect
  <1>5. NobodyTold
    BY <1>1, SameNotesTellNobody
  <1> HIDE DEF first, n1, n2
  <1>6. CASE ~first
    <2>1. Silent(box)
      BY <1>2, <1>6 DEF Silent
    <2>2. NothingAnnounced
      BY <1>1, <2>1, SentSilently DEF Silenced, NothingAnnounced
    <2> QED
      BY <1>5, <2>2, QuietStep
  <1>7. CASE first
    <2>1. /\ \A q \in Requests \ {r} : req'[q] = req[q]
          /\ req'[r].pc = "notifying" /\ req'[r].call.ticket = t /\ req'[r].outbox = box
      BY <1>1, Sent
    <2>2. /\ Announced(t) = {} /\ \A q \in Requests : ~Announcing(q, t)
          /\ ticket'[t].resolvedAt # None
      BY <1>3, <1>4, <1>7 DEF AnnouncementsSound, AnnouncementSound
    <2>3. TellsRequesterFirst(box)
      BY <1>2 DEF TellsRequesterFirst
    <2>4. ASSUME NEW q \in Requests, req'[q].pc = "notifying"
          PROVE  TellsRequesterFirst(req'[q].outbox)
      BY <2>1, <2>3, <2>4 DEF AnnouncementsSound
    <2>5. \A q \in Requests, u \in Tickets :
            Announcing(q, u)' => Announcing(q, u) \/ (q = r /\ u = t)
      BY <2>1 DEF Announcing
    <2>6. \A u \in Tickets : Announced(u)' = Announced(u)
      BY <1>1 DEF Announced
    <2>7. \A u \in Tickets : ticket'[u].resolvedAt = None => ticket[u].resolvedAt = None
      BY DEF RowsFollow, Follows
    <2>8. ASSUME NEW u \in Tickets
          PROVE  AnnouncementSound(u)'
      <3>1. CASE u = t
        BY <2>2, <2>5, <2>6, <3>1 DEF AnnouncementSound
      <3>2. CASE u # t
        <4>1. \A q \in Requests : Announcing(q, u)' => Announcing(q, u)
          BY <2>5, <3>2
        <4>2. AnnouncementSound(u) /\ Announced(u)' = Announced(u)
          BY <2>6 DEF AnnouncementsSound
        <4>3. \A m, n \in Announced(u)' : m = n
          BY <4>2 DEF AnnouncementSound
        <4> QED
          BY <2>7, <4>1, <4>2, <4>3, AnnouncementStays
      <3> QED
        BY <3>1, <3>2
    <2> QED
      BY <2>4, <2>8 DEF AnnouncementsSound
  <1> QED
    BY <1>6, <1>7

\* The announcement of t is sent by the one handler that has it to send.
LEMMA DeliverAnnounces ==
  ASSUME IInv, AnnouncementsSound, RowsFollow, NEW r \in Requests, Deliver(r)
  PROVE  AnnouncementsSound'
  <1> PICK t \in Tickets : t = req[r].call.ticket
    BY BusyTyped DEF Deliver
  <1> PICK box \in Seq(Notice) : box = req[r].outbox
    BY DEF IInv, TypeOK, Request
  <1> DEFINE head == Head(box)
             told == Rows(r, t, head)
  <1>1. /\ req[r].pc = "notifying" /\ box # <<>> /\ 1 \in DOMAIN box /\ head = box[1]
        /\ notes' = notes \cup told
    BY DEF Deliver, IInv, HandlersWellFormed
  <1>2. Silenced(r)
    BY TailSilenced
  <1>3. NothingAnnounced
    BY <1>2 DEF Silenced, NothingAnnounced
  <1>4. \A n \in told : n.ticket = t /\ n.type = head.type
    BY DEF Rows
  <1>5. CASE ~Announces(head)
    <2>1. \A u \in Tickets : Announced(u)' = Announced(u)
      BY <1>1, <1>4, <1>5 DEF Announced, Announces
    <2>2. NobodyTold
      BY <2>1 DEF AnnouncementsSound, AnnouncementSound, NobodyTold
    <2> QED
      BY <1>3, <2>2, QuietStep
  <1>6. CASE Announces(head)
    <2>1. Announcing(r, t) /\ head.to = {Requester}
      BY <1>1, <1>6 DEF Announcing, AnnouncementsSound, TellsRequesterFirst
    <2>2. /\ Announced(t) = {} /\ ticket[t].resolvedAt # None
          /\ \A q \in Requests : Announcing(q, t) => q = r
      BY <2>1 DEF AnnouncementsSound, AnnouncementSound
    <2>3. \A m, n \in told : m = n
      BY <2>1 DEF Rows
    <2> HIDE DEF told
    <2>4. /\ \A u \in Tickets \ {t} : Announced(u)' = Announced(u)
          /\ Announced(t)' \subseteq told
      BY <1>1, <1>4, <2>2 DEF Announced
    <2>5. \A q \in Requests : ~Announcing(q, t)'
      BY <1>2, <2>2 DEF Silenced, Silent, Announcing
    <2>6. \A q \in Requests, u \in Tickets : Announcing(q, u)' => Announcing(q, u)
      BY <1>3 DEF NothingAnnounced, Announcing, Silent
    <2>7. \A u \in Tickets : ticket'[u].resolvedAt = None => ticket[u].resolvedAt = None
      BY DEF RowsFollow, Follows
    <2>8. ASSUME NEW q \in Requests, req'[q].pc = "notifying"
          PROVE  TellsRequesterFirst(req'[q].outbox)
      BY <1>3, <2>8 DEF AnnouncementsSound, NothingAnnounced, Silent, TellsRequesterFirst
    <2>9. ASSUME NEW u \in Tickets
          PROVE  AnnouncementSound(u)'
      <3>1. CASE u = t
        BY <2>2, <2>3, <2>4, <2>5, <2>7, <3>1 DEF AnnouncementSound
      <3>2. CASE u # t
        <4>1. Announced(u)' = Announced(u)
          BY <2>4, <3>2
        <4>2. \A q \in Requests : Announcing(q, u)' => Announcing(q, u)
          BY <2>6
        <4>3. AnnouncementSound(u)
          BY DEF AnnouncementsSound
        <4>4. \A m, n \in Announced(u)' : m = n
          BY <4>1, <4>3 DEF AnnouncementSound
        <4> QED
          BY <2>7, <4>1, <4>2, <4>3, <4>4, AnnouncementStays
      <3> QED
        BY <3>1, <3>2
    <2> QED
      BY <2>8, <2>9 DEF AnnouncementsSound
  <1> QED
    BY <1>5, <1>6

LEMMA StepAnnouncements ==
  ASSUME IInv, AnnouncementsSound, [Next]_vars
  PROVE  AnnouncementsSound'
  <1>1. IInv' /\ RowsFollow
    BY NextPreserves
  <1>2. ASSUME NEW r \in Requests,
               \/ \E c \in Calls : Load(r, c)
               \/ Serve(r) \/ SkipNotice(r) \/ Abort(r)
        PROVE  AnnouncementsSound'
    <2>1. CASE Transition(r)
      BY <1>1, <2>1, TransitionAnnounces
    <2>2. CASE Deliver(r)
      BY <1>1, <2>2, DeliverAnnounces
    <2>3. CASE ~Transition(r) /\ ~Deliver(r)
      <3>1. NothingAnnounced
        BY <1>2, <2>3, RequestSilenced DEF Silenced, NothingAnnounced
      <3>2. CASE MarkReadForTicket(r)
        BY <1>1, <3>1, <3>2, ReadingTellsNobody, QuietStep
      <3>3. CASE ~MarkReadForTicket(r)
        <4>1. notes' = notes
          BY <1>2, <2>3, <3>3
          DEF Load, Serve, Assign, Conflict, Escalate, Acknowledge, AuditAcknowledge,
              CreateComment, StampFirstResponse, SetArchived, AuditArchived, NotifyManager,
              SkipNotice, Abort
        <4> QED
          BY <1>1, <3>1, <4>1, SameNotesTellNobody, QuietStep
      <3> QED
        BY <3>2, <3>3
    <2> QED
      BY <2>1, <2>2, <2>3
  <1>3. ASSUME req' = req PROVE NothingAnnounced
    BY <1>3 DEF NothingAnnounced
  <1>4. ASSUME NEW j \in Jobs, RunJob(j) \/ JobAbort(j) PROVE AnnouncementsSound'
    <2>1. req' = req
      BY <1>4 DEF RunJob, JobScan, JobClaim, JobAudit, JobNotify, JobAbort
    <2>2. NobodyTold
      <3>1. CASE JobNotify(j)
        BY <3>1, AlertTellsNobody
      <3>2. CASE ~JobNotify(j)
        BY <1>4, <3>2, SameNotesTellNobody DEF RunJob, JobScan, JobClaim, JobAudit, JobAbort
      <3> QED
        BY <3>1, <3>2
    <2> QED
      BY <1>1, <1>3, <2>1, <2>2, QuietStep
  <1>5. ASSUME NEW u \in Readers, MarkRead(u) PROVE AnnouncementsSound'
    BY <1>1, <1>3, <1>5, ReadingTellsNobody, QuietStep DEF MarkRead
  <1>6. CASE Tick \/ UNCHANGED vars
    BY <1>1, <1>3, <1>6, SameNotesTellNobody, QuietStep DEF Tick, vars
  <1> QED
    BY <1>2, <1>4, <1>5, <1>6 DEF Next

LEMMA InitAnnouncements == Init => AnnouncementsSound
  <1> SUFFICES ASSUME Init PROVE AnnouncementsSound
    OBVIOUS
  <1>1. \A r \in Requests : req[r].pc = "idle"
    BY DEF Init
  <1>2. \A t \in Tickets : Announced(t) = {}
    BY DEF Init, Announced
  <1> QED
    BY <1>1, <1>2 DEF AnnouncementsSound, AnnouncementSound, Announcing

\* Whatever requests resolve, reopen and resolve again a ticket at the same
\* time, its requester is told of one resolution.
THEOREM ResolutionAlwaysAnnouncedOnce == Spec => []ResolutionAnnouncedOnce
  <1>1. ASSUME AnnouncementsSound PROVE ResolutionAnnouncedOnce
    <2> DEFINE sent(t) == {n \in notes : n.ticket = t /\ n.type = "TICKET_RESOLVED"}
               pending(t) == {r \in Requests :
                                /\ req[r].pc = "notifying" /\ req[r].call.ticket = t
                                /\ \E i \in DOMAIN req[r].outbox :
                                     req[r].outbox[i].type = "TICKET_RESOLVED"}
    <2> SUFFICES ASSUME NEW t \in Tickets
                 PROVE  Cardinality(sent(t)) + Cardinality(pending(t)) <= 1
      BY DEF ResolutionAnnouncedOnce
    <2>1. sent(t) = Announced(t) /\ pending(t) = {r \in Requests : Announcing(r, t)}
      BY DEF Announced, Announcing, Announces
    <2> HIDE DEF sent, pending
    <2>2. /\ \A m, n \in sent(t) : m = n
          /\ \A q, r \in pending(t) : q = r
          /\ sent(t) = {} \/ pending(t) = {}
      BY <1>1, <2>1 DEF AnnouncementsSound, AnnouncementSound
    <2>3. /\ Cardinality(sent(t)) \in Nat /\ Cardinality(sent(t)) <= 1
          /\ Cardinality(pending(t)) \in Nat /\ Cardinality(pending(t)) <= 1
      BY <2>2, OneAtMost
    <2>4. Cardinality(sent(t)) = 0 \/ Cardinality(pending(t)) = 0
      BY <2>2, FS_EmptySet
    <2> QED
      BY <2>3, <2>4
  <1>2. IInv /\ AnnouncementsSound /\ [Next]_vars => AnnouncementsSound'
    BY StepAnnouncements
  <1> QED
    BY <1>1, <1>2, InitAnnouncements, InvariantHolds, PTL DEF Spec
-----------------------------------------------------------------------------
(* A public reply stops the response clock *)

\* The handler of a public reply has come to its notifications, or is through.
Replied(r) == /\ req[r].pc \in {"notifying", "done"}
              /\ req[r].call.op = "comment" /\ req[r].call.arg = "PUBLIC"

\* ReplyStopsClock from the moment the handler turns to its notifications.
RepliesStamped ==
  \A r \in Requests : Replied(r) => ticket[req[r].call.ticket].firstRespondedAt # None

\* Of its own step a handler has replied only if the ticket has its stamp.
RepliesKept ==
  \A r \in Requests : \/ req'[r] = req[r]
                      \/ /\ Replied(r)' => Replied(r)
                         /\ req'[r].call = req[r].call
                      \/ Replied(r)' => ticket'[req'[r].call.ticket].firstRespondedAt # None

LEMMA RepliedStep ==
  ASSUME IInv, RepliesStamped, RowsFollow, RepliesKept
  PROVE  RepliesStamped'
  <1> SUFFICES ASSUME NEW r \in Requests, Replied(r)'
               PROVE  ticket'[req'[r].call.ticket].firstRespondedAt # None
    BY DEF RepliesStamped
  <1>1. CASE Replied(r) /\ req'[r].call = req[r].call
    <2> PICK t \in Tickets : t = req[r].call.ticket
      BY <1>1, BusyTyped DEF Replied
    <2>1. ticket[t].firstRespondedAt # None
      BY <1>1 DEF RepliesStamped
    <2>2. ticket'[t].firstRespondedAt # None
      BY <2>1 DEF RowsFollow, Follows
    <2> QED
      BY <1>1, <2>2
  <1>2. CASE req'[r] = req[r]
    BY <1>1, <1>2 DEF Replied
  <1> QED
    BY <1>1, <1>2 DEF RepliesKept

\* addComment() answers a public reply at once only when it has read a stamp.
LEMMA CommentReplies ==
  ASSUME IInv, RowsFollow, NEW r \in Requests, CreateComment(r)
  PROVE  RepliesKept
  <1> PICK t \in Tickets : t = req[r].call.ticket
    BY LoadedTyped DEF CreateComment, At
  <1>1. ticket' = ticket /\ Follows(req[r].snap, ticket[t])
    BY LoadedTyped DEF CreateComment, At
  <1>2. CASE Goto(r, "done") /\ req[r].call.arg = "INTERNAL"
    BY <1>2, Gone DEF RepliesKept, Replied
  <1>3. CASE Goto(r, "written")
    BY <1>3, Gone DEF RepliesKept, Replied
  <1>4. CASE Send(r, CommentNotices(r)) /\ req[r].snap.firstRespondedAt # None
    <2>1. ticket'[t].firstRespondedAt # None
      BY <1>1, <1>4 DEF Follows
    <2>2. req'[r].call.ticket = t /\ \A q \in Requests \ {r} : req'[q] = req[q]
      BY <1>4, Sent
    <2> QED
      BY <2>1, <2>2 DEF RepliesKept
  <1> QED
    BY <1>2, <1>3, <1>4 DEF CreateComment

LEMMA StampReplies ==
  ASSUME IInv, NEW r \in Requests, StampFirstResponse(r)
  PROVE  RepliesKept
  <1> PICK t \in Tickets : t = req[r].call.ticket
    BY BusyTyped DEF StampFirstResponse, At
  <1>1. ticket'[t].firstRespondedAt # None
    BY StampEffect DEF RespondEffect
  <1>2. req'[r].call.ticket = t /\ \A q \in Requests \ {r} : req'[q] = req[q]
    BY Sent DEF StampFirstResponse
  <1> QED
    BY <1>1, <1>2 DEF RepliesKept

LEMMA RequestReplies ==
  ASSUME IInv, NEW r \in Requests,
         \/ \E c \in Calls : Load(r, c)
         \/ Serve(r) /\ ~CreateComment(r) /\ ~StampFirstResponse(r)
         \/ SkipNotice(r) \/ Abort(r)
  PROVE  RepliesKept
  <1>1. ASSUME NEW c \in Calls, Load(r, c) PROVE RepliesKept
    <2>1. req \in [Requests -> Request]
      BY DEF IInv, TypeOK
    <2>2. req'[r].pc = "loaded" /\ \A q \in Requests \ {r} : req'[q] = req[q]
      BY <1>1, <2>1 DEF Load, Request
    <2> QED
      BY <2>2 DEF RepliesKept, Replied
  <1>2. ASSUME NEW box, Send(r, box), req[r].pc = "notifying" \/ req[r].call.op # "comment"
        PROVE  RepliesKept
    BY <1>2, Sent DEF RepliesKept, Replied
  <1>3. ASSUME NEW pc, Goto(r, pc),
               req[r].call.op # "comment" \/ pc \notin {"notifying", "done"}
        PROVE  RepliesKept
    BY <1>3, Gone DEF RepliesKept, Replied
  <1>4. CASE Deliver(r) \/ SkipNotice(r)
    BY <1>2, <1>4 DEF Deliver, SkipNotice
  <1>5. CASE Transition(r)
    BY <1>2, <1>5 DEF Transition, At
  <1>6. CASE Assign(r)
    BY <1>2, <1>6 DEF Assign, At
  <1>7. CASE Escalate(r) \/ NotifyManager(r)
    BY <1>2, <1>7 DEF Escalate, NotifyManager, At
  <1>8. CASE \/ Conflict(r) \/ Acknowledge(r) \/ AuditAcknowledge(r) \/ MarkReadForTicket(r)
             \/ SetArchived(r) \/ AuditArchived(r) \/ Abort(r)
    BY <1>3, <1>8 DEF Conflict, Acknowledge, AuditAcknowledge, MarkReadForTicket,
       SetArchived, AuditArchived, Abort, At
  <1> QED
    BY <1>1, <1>4, <1>5, <1>6, <1>7, <1>8 DEF Serve

LEMMA StepReplies ==
  ASSUME IInv, RepliesStamped, [Next]_vars
  PROVE  RepliesStamped'
  <1>1. RowsFollow
    BY NextPreserves
  <1>2. ASSUME NEW r \in Requests,
               \/ \E c \in Calls : Load(r, c)
               \/ Serve(r) \/ SkipNotice(r) \/ Abort(r)
        PROVE  RepliesKept
    BY <1>1, <1>2, CommentReplies, StampReplies, RequestReplies
  <1>3. ASSUME req' = req PROVE RepliesKept
    BY <1>3 DEF RepliesKept
  <1>4. ASSUME NEW j \in Jobs, RunJob(j) \/ JobAbort(j) PROVE RepliesKept
    BY <1>3, <1>4 DEF RunJob, JobScan, JobClaim, JobAudit, JobNotify, JobAbort
  <1>5. ASSUME NEW u \in Readers, MarkRead(u) PROVE RepliesKept
    BY <1>3, <1>5 DEF MarkRead
  <1>6. ASSUME Tick \/ UNCHANGED vars PROVE RepliesKept
    BY <1>3, <1>6 DEF Tick, vars
  <1>7. RepliesKept
    BY <1>2, <1>4, <1>5, <1>6 DEF Next
  <1> QED
    BY <1>1, <1>7, RepliedStep

\* A public reply that was answered has stopped its ticket's response clock,
\* also when it went by a stamp it had read before.
THEOREM ReplyAlwaysStopsClock == Spec => []ReplyStopsClock
  <1>1. RepliesStamped => ReplyStopsClock
    BY DEF RepliesStamped, Replied, ReplyStopsClock, At
  <1>2. Init => RepliesStamped
    BY DEF Init, RepliesStamped, Replied
  <1>3. IInv /\ RepliesStamped /\ [Next]_vars => RepliesStamped'
    BY StepReplies
  <1> QED
    BY <1>1, <1>2, <1>3, InvariantHolds, PTL DEF Spec
==============================================================================
