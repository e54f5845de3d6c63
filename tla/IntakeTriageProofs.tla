-------------------------- MODULE IntakeTriageProofs --------------------------
(***************************************************************************)
(* Proofs about the triage queue, for any number of queries, staff and     *)
(* requests and any number of failures: types are kept, the claim of       *)
(* convert() excludes, a query yields at most one ticket and a query in    *)
(* the queue has none.                                                     *)
(***************************************************************************)
EXTENDS IntakeTriage, FiniteSetTheorems, TLAPS

\* At most one ticket per query, without counting.
SingleTicket == \A t, u \in tickets : t.query = u.query => t = u

\* The claim as a lock: what makes OneTicketPerQuery inductive.
IInv == /\ TypeOK
        /\ HandlersWellFormed
        /\ ClaimExcludes
        /\ PendingHasNoTicket
        /\ SingleTicket

THEOREM InitIInv == Init => IInv
  <1> SUFFICES ASSUME Init PROVE IInv
    OBVIOUS
  <1> USE DEF Init
  <1>1. TypeOK
    BY BoundAssumption DEF TypeOK, Query, Statuses, Request, Pcs
  <1>2. \A r \in Requests : req[r].pc = "idle" /\ ~Holds(r)
    BY DEF Holds, ClaimPcs, TryPcs
  <1>3. HandlersWellFormed /\ ClaimExcludes
    BY <1>2 DEF HandlersWellFormed, SawCustomer, ClaimExcludes
  <1>4. PendingHasNoTicket /\ SingleTicket
    BY DEF PendingHasNoTicket, SingleTicket, TicketsOf
  <1> QED
    BY <1>1, <1>3, <1>4 DEF IInv

\* Only these change: the handler of one request, and nobody else's.
Steps(r) == \A s \in Requests : s # r => req'[s] = req[s]

\* A step that takes no claim, files no ticket and puts nothing back into the
\* queue leaves the lock as it is.
LEMMA QuietStep ==
  ASSUME IInv, NEW r \in Requests, Steps(r),
         Holds(r)' => /\ Holds(r)
                      /\ req'[r].call = req[r].call
                      /\ req'[r].pc # "link" => req[r].pc # "link",
         tickets' = tickets,
         \A q \in Queries : query'[q].status = "PENDING" => query[q].status = "PENDING",
         \A s \in Requests : Holds(s) => QueryOf(s) \in Queries
  PROVE  ClaimExcludes' /\ PendingHasNoTicket' /\ SingleTicket'
  <1>1. \A s \in Requests : Holds(s)' => Holds(s) /\ QueryOf(s)' = QueryOf(s)
    BY DEF Steps, Holds, QueryOf
  <1>2. \A s \in Requests : req'[s].pc # "link" /\ Holds(s)' => req[s].pc # "link"
    BY DEF Steps
  <1>3. \A q \in Queries : TicketsOf(q)' = TicketsOf(q)
    BY DEF TicketsOf
  <1>4. ClaimExcludes'
    BY <1>1, <1>2, <1>3 DEF IInv, ClaimExcludes
  <1>5. PendingHasNoTicket'
    BY <1>3 DEF IInv, PendingHasNoTicket
  <1>6. SingleTicket'
    BY DEF IInv, SingleTicket
  <1> QED
    BY <1>4, <1>5, <1>6

\* The query of a conversion at work is a query of the queue.
LEMMA HeldQuery ==
  ASSUME TypeOK, HandlersWellFormed, NEW r \in Requests, req[r].pc # "idle"
  PROVE  req[r].call \in CallType /\ QueryOf(r) \in Queries /\ req[r].call.staff \in Staff
  BY CallsAssumption DEF HandlersWellFormed, QueryOf, CallType

\* Each action is a step of its own handler.
LEMMA OwnStep ==
  ASSUME TypeOK, NEW r \in Requests,
         (\E c \in Calls : Load(r, c)) \/ Serve(r) \/ CallFails(r) \/ Die(r)
  PROVE  Steps(r)
  BY DEF TypeOK, Steps, Load, Serve, Convert, Claim, FindCompany, CreateCompany, FindCustomer,
         UpsertCustomer, ReadCustomer, CreateTicket, RefuseTicket, Revert, Link, Reject,
         Audit, CallFails, Die, Goto

\* A query whose status and reviewer are written.
LEMMA QueryWritten ==
  ASSUME query \in [Queries -> Query], NEW q \in Queries, NEW status \in Statuses,
         NEW staff \in Staff \cup {None}
  PROVE  [query EXCEPT ![q].status = status, ![q].reviewedByUserId = staff]
           \in [Queries -> Query]
  <1> DEFINE moved == [query EXCEPT ![q].status = status]
  <1>1. moved \in [Queries -> Query]
    BY DEF Query
  <1> HIDE DEF moved
  <1>2. [moved EXCEPT ![q].reviewedByUserId = staff] \in [Queries -> Query]
    BY <1>1 DEF Query
  <1> QED
    BY <1>2 DEF moved

LEMMA TypeStep == TypeOK /\ HandlersWellFormed /\ [Next]_vars => TypeOK'
  <1> SUFFICES ASSUME TypeOK, HandlersWellFormed, [Next]_vars PROVE TypeOK'
    OBVIOUS
  <1> USE DEF TypeOK
  <1>1. ASSUME NEW r \in Requests, NEW c \in Calls, Load(r, c) PROVE TypeOK'
    <2>1. c \in CallType
      BY CallsAssumption
    <2>2. req' \in [Requests -> Request]
      BY <1>1, <2>1, ZenonT(60) DEF Load, Request, Pcs
    <2> QED
      BY <1>1, <2>2 DEF Load
  <1>2. ASSUME NEW r \in Requests, Serve(r) PROVE TypeOK'
    <2> req[r].pc # "idle" => /\ req[r].call \in CallType /\ QueryOf(r) \in Queries
                              /\ req[r].call.staff \in Staff
      BY HeldQuery
    <2>1. CASE Claim(r)
      <3>1. query' \in [Queries -> Query]
        <4>1. QueryOf(r) \in Queries /\ req[r].call.staff \in Staff
          BY <2>1 DEF Claim
        <4>2. CASE query' = query
          BY <4>2
        <4>3. CASE query' = [query EXCEPT ![QueryOf(r)].status = "CONVERTED",
                                          ![QueryOf(r)].reviewedByUserId = req[r].call.staff]
          BY <4>1, <4>3, QueryWritten DEF Statuses
        <4> QED
          BY <2>1, <4>2, <4>3 DEF Claim
      <3>2. req' \in [Requests -> Request]
        BY <2>1 DEF Claim, Goto, Request, Pcs, ClaimPcs, TryPcs
      <3> QED
        BY <2>1, <3>1, <3>2 DEF Claim
    <2>2. CASE FindCompany(r)
      BY <2>2 DEF FindCompany, Goto, Request, Pcs, ClaimPcs, TryPcs
    <2>3. CASE CreateCompany(r)
      BY <2>3, ZenonT(60) DEF CreateCompany, Request, Pcs, ClaimPcs, TryPcs
    <2>4. CASE FindCustomer(r)
      BY <2>4, ZenonT(60) DEF FindCustomer, Request, Pcs, ClaimPcs, TryPcs
    <2>5. CASE UpsertCustomer(r)
      BY <2>5 DEF UpsertCustomer, Goto, Request, Pcs, ClaimPcs, TryPcs
    <2>6. CASE ReadCustomer(r)
      <3>1. EmailOfReq(r) \in Emails /\ customer[EmailOfReq(r)] # NoCustomer
        BY <2>6 DEF ReadCustomer, HandlersWellFormed, SawCustomer, Holds, ClaimPcs, TryPcs
      <3> QED
        BY <2>6, <3>1, ZenonT(60) DEF ReadCustomer, Request, Pcs, ClaimPcs, TryPcs
    <2>7. CASE CreateTicket(r)
      BY <2>7 DEF CreateTicket, Goto, Request, Pcs, ClaimPcs, TryPcs, Ticket
    <2>8. CASE RefuseTicket(r)
      BY <2>8 DEF RefuseTicket, Goto, Request, Pcs, ClaimPcs, TryPcs
    <2>9. CASE Revert(r)
      <3>1. query' \in [Queries -> Query]
        BY <2>9, QueryWritten DEF Revert, Statuses
      <3>2. req' \in [Requests -> Request]
        BY <2>9 DEF Revert, Goto, Request, Pcs, ClaimPcs, TryPcs
      <3> QED
        BY <2>9, <3>1, <3>2 DEF Revert
    <2>10. CASE Link(r)
      BY <2>10, ZenonT(60) DEF Link, Goto, Query, Request, Pcs, ClaimPcs, TryPcs
    <2>11. CASE Reject(r)
      <3>1. query' \in [Queries -> Query]
        <4>1. QueryOf(r) \in Queries /\ req[r].call.staff \in Staff
          BY <2>11 DEF Reject
        <4>2. query' = [query EXCEPT ![QueryOf(r)].status = "REJECTED",
                                     ![QueryOf(r)].reviewedByUserId = req[r].call.staff]
          BY <2>11 DEF Reject
        <4> QED
          BY <4>1, <4>2, QueryWritten DEF Statuses
      <3>2. req' \in [Requests -> Request]
        BY <2>11 DEF Reject, Goto, Request, Pcs, ClaimPcs, TryPcs
      <3> QED
        BY <2>11, <3>1, <3>2 DEF Reject
    <2>12. CASE Audit(r)
      BY <2>12 DEF Audit, Goto, Request, Pcs, ClaimPcs, TryPcs, AuditEntry
    <2> QED
      BY <1>2, <2>1, <2>2, <2>3, <2>4, <2>5, <2>6, <2>7, <2>8, <2>9, <2>10, <2>11, <2>12
         DEF Serve, Convert
  <1>3. ASSUME NEW r \in Requests, CallFails(r) \/ Die(r) PROVE TypeOK'
    BY <1>3, BoundAssumption DEF CallFails, Die, Goto, Request, Pcs, ClaimPcs, TryPcs
  <1>4. CASE UNCHANGED vars
    BY <1>4 DEF vars
  <1> QED
    BY <1>1, <1>2, <1>3, <1>4 DEF Next

\* No step makes a Customer row disappear.
LEMMA CustomersStay ==
  ASSUME TypeOK, HandlersWellFormed, [Next]_vars, NEW e \in Emails, customer[e] # NoCustomer
  PROVE  customer'[e] # NoCustomer
  <1>1. ASSUME NEW r \in Requests, UpsertCustomer(r) PROVE customer'[e] # NoCustomer
    <2>1. req[r].company # NoCustomer
      BY SentinelAssumption DEF TypeOK, Request
    <2> QED
      BY <1>1, <2>1 DEF UpsertCustomer, TypeOK
  <1>2. ASSUME customer' = customer PROVE customer'[e] # NoCustomer
    BY <1>2
  <1> QED
    BY <1>1, <1>2 DEF Next, Serve, Convert, vars, Load, Claim, FindCompany, CreateCompany,
       FindCustomer, ReadCustomer, CreateTicket, RefuseTicket, Revert, Link, Reject, Audit,
       CallFails, Die

\* What a handler is entitled to know, after a step of its own.
LEMMA OwnHandlerStep ==
  ASSUME TypeOK, HandlersWellFormed, NEW r \in Requests,
         (\E c \in Calls : Load(r, c)) \/ Serve(r) \/ CallFails(r) \/ Die(r)
  PROVE  /\ req'[r].pc # "idle" => req'[r].call \in Calls
         /\ Holds(r)' \/ req'[r].pc = "claim" => EmailOf[req'[r].call.query] \in Emails
         /\ SawCustomer(r)' =>
              customer'[EmailOf[req'[r].call.query]] # NoCustomer
  <1> USE DEF TypeOK, Request, SawCustomer, Holds, ClaimPcs, TryPcs, EmailOfReq, QueryOf
  <1>1. ASSUME NEW c \in Calls, Load(r, c)
        PROVE  /\ req'[r].pc \in {"claim", "reject"} /\ req'[r].call = c
               /\ req'[r].pc = "claim" => EmailOf[c.query] \in Emails
    BY <1>1, CallsAssumption, QueryAssumption DEF Load, CallType
  <1>2. CASE UpsertCustomer(r)
    <2>1. /\ req[r].call \in Calls /\ EmailOf[req[r].call.query] \in Emails
          /\ req'[r].call = req[r].call
      BY <1>2 DEF UpsertCustomer, Goto, HandlersWellFormed
    <2>2. req[r].company # NoCustomer
      BY SentinelAssumption DEF Request
    <2>3. req'[r].pc = "customerType" => customer'[EmailOf[req[r].call.query]] # NoCustomer
      BY <1>2, <2>1, <2>2 DEF UpsertCustomer, Goto, HandlersWellFormed
    <2>4. req'[r].pc \in {"customerType", "revert"}
      BY <1>2 DEF UpsertCustomer, Goto
    <2> QED
      BY <2>1, <2>3, <2>4
  <1>3. CASE FindCustomer(r)
    <2>1. /\ req[r].call \in Calls /\ EmailOf[req[r].call.query] \in Emails
          /\ req'[r].call = req[r].call
      BY <1>3 DEF FindCustomer, HandlersWellFormed
    <2>2. /\ req'[r].pc = "upsert"
          /\ req'[r].exists => customer'[EmailOf[req[r].call.query]] # NoCustomer
      BY <1>3 DEF FindCustomer
    <2> QED
      BY <2>1, <2>2
  <1>4. ASSUME \/ Claim(r) \/ FindCompany(r) \/ CreateCompany(r) \/ ReadCustomer(r)
               \/ CreateTicket(r) \/ RefuseTicket(r) \/ Revert(r) \/ Link(r)
               \/ Reject(r) \/ Audit(r) \/ CallFails(r) \/ Die(r)
        PROVE  /\ req[r].pc # "idle" /\ req'[r].call = req[r].call
               /\ Holds(r)' => Holds(r) \/ req[r].pc = "claim"
               /\ req'[r].pc \notin {"customerType", "upsert", "claim"}
    <2>1. CASE Claim(r) \/ FindCompany(r) \/ CreateCompany(r)
      BY <2>1 DEF Claim, FindCompany, CreateCompany, Goto
    <2>2. CASE ReadCustomer(r) \/ CreateTicket(r) \/ RefuseTicket(r)
      BY <2>2 DEF ReadCustomer, CreateTicket, RefuseTicket, Goto
    <2>3. CASE Revert(r) \/ Link(r) \/ Reject(r) \/ Audit(r)
      BY <2>3 DEF Revert, Link, Reject, Audit, Goto
    <2>4. CASE CallFails(r) \/ Die(r)
      BY <2>4 DEF CallFails, Die, Goto
    <2> QED
      BY <1>4, <2>1, <2>2, <2>3, <2>4
  <1> QED
    BY <1>1, <1>2, <1>3, <1>4 DEF Serve, Convert, HandlersWellFormed

LEMMA HandlersStep ==
  TypeOK /\ HandlersWellFormed /\ [Next]_vars => HandlersWellFormed'
  <1> SUFFICES ASSUME TypeOK, HandlersWellFormed, [Next]_vars PROVE HandlersWellFormed'
    OBVIOUS
  <1>1. ASSUME NEW r \in Requests,
               (\E c \in Calls : Load(r, c)) \/ Serve(r) \/ CallFails(r) \/ Die(r)
        PROVE  HandlersWellFormed'
    <2>1. \A s \in Requests : s # r => req'[s] = req[s]
      BY <1>1, OwnStep DEF Steps
    <2>2. \A s \in Requests :
            s # r /\ SawCustomer(s) => customer'[EmailOfReq(s)] # NoCustomer
      BY CustomersStay DEF HandlersWellFormed, SawCustomer, Holds, ClaimPcs, TryPcs
    <2>3. \A s \in Requests : s # r =>
            /\ req'[s].pc # "idle" => req'[s].call \in Calls
            /\ Holds(s)' \/ req'[s].pc = "claim" => EmailOf[req'[s].call.query] \in Emails
            /\ SawCustomer(s)' =>
                 customer'[EmailOf[req'[s].call.query]] # NoCustomer
      BY <2>1, <2>2 DEF HandlersWellFormed, SawCustomer, Holds, EmailOfReq, QueryOf
    <2>4. /\ req'[r].pc # "idle" => req'[r].call \in Calls
          /\ Holds(r)' \/ req'[r].pc = "claim" => EmailOf[req'[r].call.query] \in Emails
          /\ SawCustomer(r)' =>
               customer'[EmailOf[req'[r].call.query]] # NoCustomer
      BY <1>1, OwnHandlerStep
    <2> QED
      BY <2>3, <2>4 DEF HandlersWellFormed, EmailOfReq, QueryOf
  <1>2. CASE UNCHANGED vars
    BY <1>2 DEF vars, HandlersWellFormed, SawCustomer, Holds, EmailOfReq, QueryOf
  <1> QED
    BY <1>1, <1>2 DEF Next

\* A successful claim: the query was in the queue, so nobody holds it and it has
\* no ticket.
LEMMA ClaimStep ==
  ASSUME IInv, NEW r \in Requests, Claim(r)
  PROVE  ClaimExcludes' /\ PendingHasNoTicket' /\ SingleTicket'
  <1> DEFINE q == QueryOf(r)
  <1>1. /\ Steps(r) /\ tickets' = tickets /\ q \in Queries
        /\ \A s \in Requests : Holds(s) => QueryOf(s) \in Queries
    BY OwnStep, HeldQuery DEF IInv, Serve, Convert, Claim, Holds, ClaimPcs, TryPcs
  <1>2. req'[r].call = req[r].call /\ ~Holds(r)
    BY DEF IInv, TypeOK, Request, Claim, Goto, Holds, ClaimPcs, TryPcs
  <1>3. CASE query[q].status # "PENDING"
    <2>1. ~Holds(r)' /\ query' = query
      BY <1>3 DEF Claim, Goto, IInv, TypeOK, Request, Holds, ClaimPcs, TryPcs
    <2> QED
      BY <1>1, <2>1, QuietStep
  <1>4. CASE query[q].status = "PENDING"
    <2>1. /\ req'[r].pc = "company"
          /\ query'[q].status = "CONVERTED"
          /\ \A p \in Queries : p # q => query'[p] = query[p]
      BY <1>1, <1>4 DEF Claim, Goto, IInv, TypeOK, Request, Query
    <2>2. /\ TicketsOf(q) = {}
          /\ \A s \in Requests : Holds(s) => QueryOf(s) # q
      BY <1>1, <1>4 DEF IInv, PendingHasNoTicket, ClaimExcludes
    <2>3. \A s \in Requests : s # r => /\ Holds(s)' = Holds(s)
                                       /\ QueryOf(s)' = QueryOf(s)
                                       /\ req'[s].pc = req[s].pc
      BY <1>1 DEF Steps, Holds, QueryOf
    <2>4. QueryOf(r)' = q
      BY <1>2 DEF QueryOf
    <2>5. \A p \in Queries : TicketsOf(p)' = TicketsOf(p)
      BY <1>1 DEF TicketsOf
    <2>6. ClaimExcludes'
      BY <1>1, <2>1, <2>2, <2>3, <2>4, <2>5 DEF IInv, ClaimExcludes
    <2>7. PendingHasNoTicket'
      BY <2>1, <2>2, <2>5 DEF IInv, PendingHasNoTicket
    <2>8. SingleTicket'
      BY <1>1 DEF IInv, SingleTicket
    <2> QED
      BY <2>6, <2>7, <2>8
  <1> QED
    BY <1>3, <1>4

\* A conversion at work holds its query alone, so its ticket is the first.
LEMMA CreateTicketStep ==
  ASSUME IInv, NEW r \in Requests, CreateTicket(r)
  PROVE  ClaimExcludes' /\ PendingHasNoTicket' /\ SingleTicket'
  <1> DEFINE q == QueryOf(r)
             new == [id |-> r, query |-> q, company |-> req[r].company]
  <1>1. /\ Steps(r) /\ q \in Queries /\ Holds(r) /\ req[r].pc # "link"
        /\ \A s \in Requests : Holds(s) => QueryOf(s) \in Queries
    BY OwnStep, HeldQuery DEF IInv, Serve, Convert, CreateTicket, Holds, ClaimPcs, TryPcs
  <1>2. /\ req'[r].call = req[r].call /\ req'[r].pc = "link"
        /\ query' = query /\ tickets' = tickets \cup {new} /\ new.query = q
    BY DEF IInv, TypeOK, Request, CreateTicket, Goto
  <1>3. /\ TicketsOf(q) = {} /\ query[q].status # "PENDING"
        /\ \A s \in Requests : s # r /\ Holds(s) => QueryOf(s) # q
    BY <1>1 DEF IInv, ClaimExcludes
  <1>4. \A s \in Requests : s # r => /\ Holds(s)' = Holds(s)
                                     /\ QueryOf(s)' = QueryOf(s)
                                     /\ req'[s].pc = req[s].pc
    BY <1>1 DEF Steps, Holds, QueryOf
  <1>5. \A p \in Queries : p # q => TicketsOf(p)' = TicketsOf(p)
    BY <1>2 DEF TicketsOf
  <1>6. QueryOf(r)' = q
    BY <1>2 DEF QueryOf
  <1>7. ClaimExcludes'
    BY <1>1, <1>2, <1>3, <1>4, <1>5, <1>6 DEF IInv, ClaimExcludes
  <1>8. PendingHasNoTicket'
    BY <1>2, <1>3, <1>5 DEF IInv, PendingHasNoTicket
  <1>9. SingleTicket'
    BY <1>2, <1>3 DEF IInv, SingleTicket, TicketsOf
  <1> QED
    BY <1>7, <1>8, <1>9

\* The catch block runs in the one holder of a query without a ticket.
LEMMA RevertStep ==
  ASSUME IInv, NEW r \in Requests, Revert(r)
  PROVE  ClaimExcludes' /\ PendingHasNoTicket' /\ SingleTicket'
  <1> DEFINE q == QueryOf(r)
  <1>1. /\ Steps(r) /\ q \in Queries /\ Holds(r) /\ req[r].pc # "link"
        /\ \A s \in Requests : Holds(s) => QueryOf(s) \in Queries
    BY OwnStep, HeldQuery DEF IInv, Serve, Convert, Revert, Holds, ClaimPcs, TryPcs
  <1>2. /\ ~Holds(r)' /\ tickets' = tickets
        /\ \A p \in Queries : p # q => query'[p] = query[p]
    BY DEF IInv, TypeOK, Request, Revert, Goto, Holds, ClaimPcs, TryPcs
  <1>3. /\ TicketsOf(q) = {}
        /\ \A s \in Requests : s # r /\ Holds(s) => QueryOf(s) # q
    BY <1>1 DEF IInv, ClaimExcludes
  <1>4. \A s \in Requests : Holds(s)' => /\ s # r /\ Holds(s)
                                         /\ QueryOf(s)' = QueryOf(s)
                                         /\ req'[s].pc = req[s].pc
    BY <1>1, <1>2 DEF Steps, Holds, QueryOf
  <1>5. \A p \in Queries : TicketsOf(p)' = TicketsOf(p)
    BY <1>2 DEF TicketsOf
  <1>6. ClaimExcludes'
    BY <1>1, <1>2, <1>3, <1>4, <1>5 DEF IInv, ClaimExcludes
  <1>7. PendingHasNoTicket'
    BY <1>2, <1>3, <1>5 DEF IInv, PendingHasNoTicket
  <1>8. SingleTicket'
    BY <1>2 DEF IInv, SingleTicket
  <1> QED
    BY <1>6, <1>7, <1>8

LEMMA LockStep ==
  IInv /\ [Next]_vars => ClaimExcludes' /\ PendingHasNoTicket' /\ SingleTicket'
  <1> SUFFICES ASSUME IInv, [Next]_vars
               PROVE  ClaimExcludes' /\ PendingHasNoTicket' /\ SingleTicket'
    OBVIOUS
  <1>1. \A s \in Requests : Holds(s) => QueryOf(s) \in Queries
    BY HeldQuery DEF IInv, Holds, ClaimPcs, TryPcs
  <1>2. ASSUME NEW r \in Requests, NEW c \in Calls, Load(r, c)
        PROVE  ClaimExcludes' /\ PendingHasNoTicket' /\ SingleTicket'
    <2>1. ~Holds(r)' /\ tickets' = tickets /\ query' = query
      BY <1>2 DEF Load, IInv, TypeOK, Request, Holds, ClaimPcs, TryPcs
    <2> QED
      BY <1>1, <1>2, <2>1, OwnStep, QuietStep DEF IInv
  <1>3. ASSUME NEW r \in Requests,
               \/ FindCompany(r) \/ CreateCompany(r) \/ FindCustomer(r) \/ UpsertCustomer(r)
               \/ ReadCustomer(r) \/ RefuseTicket(r) \/ CallFails(r)
        PROVE  ClaimExcludes' /\ PendingHasNoTicket' /\ SingleTicket'
    <2>1. /\ Holds(r) /\ req[r].pc # "link" /\ req'[r].call = req[r].call
          /\ tickets' = tickets /\ query' = query
      BY <1>3 DEF FindCompany, CreateCompany, FindCustomer, UpsertCustomer, ReadCustomer,
         RefuseTicket, CallFails, Goto, IInv, TypeOK, Request, Holds, ClaimPcs, TryPcs
    <2> QED
      BY <1>1, <1>3, <2>1, OwnStep, QuietStep DEF IInv, Serve, Convert
  <1>4. ASSUME NEW r \in Requests, Link(r) \/ Reject(r) \/ Audit(r) \/ Die(r)
        PROVE  ClaimExcludes' /\ PendingHasNoTicket' /\ SingleTicket'
    <2>1. ~Holds(r)' /\ tickets' = tickets
      BY <1>4 DEF Link, Reject, Audit, Die, Goto, IInv, TypeOK, Request, Holds, ClaimPcs, TryPcs
    <2>2. \A q \in Queries : query'[q].status = "PENDING" => query[q].status = "PENDING"
      BY <1>4 DEF Link, Reject, Audit, Die, IInv, TypeOK, Query
    <2> QED
      BY <1>1, <1>4, <2>1, <2>2, OwnStep, QuietStep DEF IInv, Serve, Convert
  <1>5. CASE UNCHANGED vars
    BY <1>5 DEF vars, IInv, ClaimExcludes, PendingHasNoTicket, SingleTicket, TicketsOf,
       Holds, QueryOf
  <1> QED
    BY <1>2, <1>3, <1>4, <1>5, ClaimStep, CreateTicketStep, RevertStep
       DEF Next, Serve, Convert

\* IInv is an inductive invariant of the triage queue.
THEOREM Invariance == Spec => []IInv
  <1>1. IInv /\ [Next]_vars => IInv'
    BY TypeStep, HandlersStep, LockStep DEF IInv
  <1> QED
    BY <1>1, InitIInv, PTL DEF Spec

\* The types of the tables and handlers are kept by every step.
THEOREM TriageTypeCorrect == Spec => []TypeOK
  <1>1. IInv => TypeOK
    BY DEF IInv
  <1> QED
    BY <1>1, Invariance, PTL

\* A conversion always works alone on its query.
THEOREM ClaimAlwaysExcludes == Spec => []ClaimExcludes
  <1>1. IInv => ClaimExcludes
    BY DEF IInv
  <1> QED
    BY <1>1, Invariance, PTL

\* A query of the queue never has a ticket, however often it was put back.
THEOREM PendingNeverHasTicket == Spec => []PendingHasNoTicket
  <1>1. IInv => PendingHasNoTicket
    BY DEF IInv
  <1> QED
    BY <1>1, Invariance, PTL

\* However many conversions, retries, rejections, failures and crashes there
\* are, a query yields at most one ticket.
THEOREM AtMostOneTicket == Spec => []OneTicketPerQuery
  <1>1. ASSUME IInv PROVE OneTicketPerQuery
    <2>1. SUFFICES ASSUME NEW q \in Queries PROVE Cardinality(TicketsOf(q)) <= 1
      BY DEF OneTicketPerQuery
    <2>2. CASE TicketsOf(q) = {}
      BY <2>2, FS_EmptySet
    <2>3. CASE TicketsOf(q) # {}
      <3>1. PICK t : t \in TicketsOf(q)
        BY <2>3
      <3>2. TicketsOf(q) = {t}
        BY <1>1, <3>1 DEF IInv, SingleTicket, TicketsOf
      <3>3. Cardinality({t}) = 1
        BY FS_Singleton
      <3> QED
        BY <3>2, <3>3
    <2> QED
      BY <2>2, <2>3
  <1> QED
    BY <1>1, Invariance, PTL
-----------------------------------------------------------------------------
(* A named company is the ticket's company *)

HasCompany(e) == customer[e] \notin {None, NoCustomer}

\* NamedCompanyIsB2B on its way through convert(): the company is resolved
\* before the customer is written, and the customer is never without one again.
CompanyKept(r) ==
  CompanyNameOf[QueryOf(r)] # None =>
    /\ req[r].pc \in {"customer", "upsert", "ticket"} => req[r].company # None
    /\ req[r].pc = "customerType" => HasCompany(EmailOfReq(r))

CompaniesKept == NamedCompanyIsB2B /\ \A r \in Requests : CompanyKept(r)

\* upsert() never takes a customer out of its company.
LEMMA CompaniesStay ==
  ASSUME TypeOK, [Next]_vars, NEW e \in Emails, HasCompany(e)
  PROVE  HasCompany(e)'
  <1>1. ASSUME NEW r \in Requests, UpsertCustomer(r) PROVE HasCompany(e)'
    <2>1. req[r].company \in Requests \cup {None} /\ customer \in [Emails -> Requests \cup {None, NoCustomer}]
      BY DEF TypeOK, Request
    <2> QED
      BY <1>1, <2>1, SentinelAssumption DEF UpsertCustomer, HasCompany
  <1>2. ASSUME customer' = customer PROVE HasCompany(e)'
    BY <1>2 DEF HasCompany
  <1> QED
    BY <1>1, <1>2 DEF Next, Serve, Convert, vars, Load, Claim, FindCompany, CreateCompany,
       FindCustomer, ReadCustomer, CreateTicket, RefuseTicket, Revert, Link, Reject, Audit,
       CallFails, Die

\* The handler whose step it is.
LEMMA OwnCompanyStep ==
  ASSUME IInv, NEW r \in Requests, CompanyKept(r),
         (\E c \in Calls : Load(r, c)) \/ Serve(r) \/ CallFails(r) \/ Die(r)
  PROVE  CompanyKept(r)'
  <1> USE DEF Request
  <1>1. req \in [Requests -> Request] /\ companies \subseteq Requests
    BY DEF IInv, TypeOK
  <1>2. CASE \E c \in Calls : Load(r, c)
    <2> PICK c \in Calls : Load(r, c)
      BY <1>2
    <2>1. req'[r].pc \in {"claim", "reject"}
      BY <1>1 DEF Load
    <2> QED
      BY <2>1 DEF CompanyKept
  <1>3. CASE \/ Claim(r) \/ CreateTicket(r) \/ RefuseTicket(r) \/ Revert(r) \/ Link(r)
             \/ Reject(r) \/ Audit(r) \/ CallFails(r) \/ Die(r)
    <2>1. req'[r].pc \notin {"customer", "upsert", "ticket", "customerType"}
      BY <1>1, <1>3 DEF Claim, CreateTicket, RefuseTicket, Revert, Link, Reject, Audit,
         CallFails, Die, Goto
    <2> QED
      BY <2>1 DEF CompanyKept
  <1>4. CASE FindCompany(r)
    <2>1. CompanyNameOf[QueryOf(r)] # None /\ req'[r].pc = "customer" => req'[r].company \in Requests
      BY <1>1, <1>4 DEF FindCompany, Goto
    <2>2. req'[r].pc \in {"customer", "newCompany"} /\ req'[r].call = req[r].call
      BY <1>1, <1>4 DEF FindCompany, Goto
    <2> QED
      BY <2>1, <2>2, SentinelAssumption DEF CompanyKept, QueryOf
  <1>5. CASE CreateCompany(r)
    <2>1. req'[r].pc = "customer" /\ req'[r].company = r
      BY <1>1, <1>5 DEF CreateCompany
    <2> QED
      BY <2>1, SentinelAssumption DEF CompanyKept
  <1>6. CASE FindCustomer(r)
    <2>1. /\ req[r].pc = "customer" /\ req'[r].pc = "upsert"
          /\ req'[r].call = req[r].call /\ req'[r].company = req[r].company
      BY <1>1, <1>6 DEF FindCustomer
    <2> QED
      BY <2>1 DEF CompanyKept, QueryOf
  <1>7. CASE UpsertCustomer(r)
    <2> DEFINE e == EmailOfReq(r)
    <2>1. e \in Emails /\ customer \in [Emails -> Requests \cup {None, NoCustomer}]
      BY <1>7 DEF UpsertCustomer, IInv, TypeOK, HandlersWellFormed, Holds, ClaimPcs, TryPcs
    <2>2. /\ req[r].pc = "upsert" /\ req'[r].call = req[r].call
          /\ req'[r].pc \in {"revert", "customerType"}
      BY <1>1, <1>7 DEF UpsertCustomer, Goto
    <2>3. req[r].company # None /\ req'[r].pc = "customerType" => customer'[e] = req[r].company
      BY <1>1, <1>7, <2>1 DEF UpsertCustomer, Goto
    <2>4. req[r].company # None => req[r].company \notin {None, NoCustomer}
      BY <1>1, SentinelAssumption
    <2> QED
      BY <2>2, <2>3, <2>4 DEF CompanyKept, HasCompany, QueryOf, EmailOfReq
  <1>8. CASE ReadCustomer(r)
    <2>1. /\ req[r].pc = "customerType" /\ req'[r].pc = "ticket"
          /\ req'[r].call = req[r].call /\ req'[r].company = customer[EmailOfReq(r)]
      BY <1>1, <1>8 DEF ReadCustomer
    <2> QED
      BY <2>1 DEF CompanyKept, HasCompany, QueryOf
  <1> QED
    BY <1>2, <1>3, <1>4, <1>5, <1>6, <1>7, <1>8 DEF Serve, Convert

LEMMA CompaniesStep ==
  ASSUME IInv, CompaniesKept, [Next]_vars
  PROVE  CompaniesKept'
  <1>1. CASE UNCHANGED vars
    BY <1>1 DEF vars, CompaniesKept, CompanyKept, NamedCompanyIsB2B, HasCompany, QueryOf,
       EmailOfReq
  <1>2. ASSUME NEW r \in Requests,
               (\E c \in Calls : Load(r, c)) \/ Serve(r) \/ CallFails(r) \/ Die(r)
        PROVE  CompaniesKept'
    <2>1. CompanyKept(r)'
      BY <1>2, OwnCompanyStep DEF CompaniesKept
    <2>2. ASSUME NEW s \in Requests, s # r PROVE CompanyKept(s)'
      <3>1. req'[s] = req[s]
        BY <1>2, <2>2, OwnStep DEF IInv, Steps
      <3>2. req[s].pc = "customerType" => EmailOfReq(s) \in Emails
        BY DEF IInv, HandlersWellFormed, Holds, ClaimPcs, TryPcs
      <3>3. /\ EmailOfReq(s)' = EmailOfReq(s) /\ QueryOf(s)' = QueryOf(s)
            /\ req'[s].pc = req[s].pc /\ req'[s].company = req[s].company
        BY <3>1 DEF EmailOfReq, QueryOf
      <3>4. ASSUME NEW e \in Emails, HasCompany(e) PROVE HasCompany(e)'
        BY <3>4, CompaniesStay DEF IInv
      <3>5. req[s].pc = "customerType" /\ HasCompany(EmailOfReq(s)) => HasCompany(EmailOfReq(s))'
        BY <3>2, <3>3, <3>4 DEF HasCompany
      <3> QED
        BY <3>3, <3>5 DEF CompaniesKept, CompanyKept
    <2>3. NamedCompanyIsB2B'
      <3>1. CASE CreateTicket(r)
        <4> DEFINE new == [id |-> r, query |-> QueryOf(r), company |-> req[r].company]
        <4>1. tickets' = tickets \cup {new} /\ req[r].pc = "ticket"
          BY <3>1 DEF CreateTicket
        <4> QED
          BY <4>1 DEF CompaniesKept, CompanyKept, NamedCompanyIsB2B
      <3>2. CASE ~CreateTicket(r)
        <4>1. tickets' = tickets
          BY <1>2, <3>2 DEF Serve, Convert, Load, Claim, FindCompany, CreateCompany,
             FindCustomer, UpsertCustomer, ReadCustomer, RefuseTicket, Revert, Link, Reject,
             Audit, CallFails, Die
        <4> QED
          BY <4>1 DEF CompaniesKept, NamedCompanyIsB2B
      <3> QED
        BY <3>1, <3>2
    <2> QED
      BY <2>1, <2>2, <2>3 DEF CompaniesKept
  <1> QED
    BY <1>1, <1>2 DEF Next

\* A ticket filed for a query that names a company is filed for that customer's
\* company, whatever else is done at the same time with the same address.
THEOREM NamedCompanyAlwaysB2B == Spec => []NamedCompanyIsB2B
  <1>1. Init => CompaniesKept
    BY DEF Init, CompaniesKept, CompanyKept, NamedCompanyIsB2B
  <1>2. IInv /\ CompaniesKept /\ [Next]_vars => CompaniesKept'
    BY CompaniesStep
  <1>3. CompaniesKept => NamedCompanyIsB2B
    BY DEF CompaniesKept
  <1> QED
    BY <1>1, <1>2, <1>3, Invariance, PTL DEF Spec
==============================================================================
