----------------------------- MODULE IntakeTriage -----------------------------
(***************************************************************************)
(* The triage queue: staff convert a staged query into a ticket, or reject *)
(* it (intake.service.ts), several of them at once and on the same query.  *)
(* convert() is a chain of database calls without a transaction: it claims *)
(* the query with a conditional update, finds or creates the company and   *)
(* the customer (customers.service.ts), creates the ticket, links it to    *)
(* the query and logs it; if anything before the link fails it puts the    *)
(* query back.  Each awaited call is an action.                            *)
(***************************************************************************)
EXTENDS Naturals, FiniteSets

CONSTANTS
  Queries, Staff, Departments, Emails, CompanyNames,
  Requests,         \* triage requests, each served once
  None,             \* null
  NoCustomer,       \* no Customer row has this address
  IsSuperAdmin, DeptOf,          \* of a staff member
  EmailOf, CompanyNameOf, SuggestedDept,   \* of a query, any of them may be None
  Calls,            \* the requests staff may send
  MaxFaults         \* bound on failed calls and crashes

Statuses == {"PENDING", "CONVERTED", "REJECTED"}

CallType == [op : {"convert", "reject"}, staff : Staff, query : Queries,
             dept : Departments \cup {None}]

ASSUME StaffAssumption ==
  /\ IsSuperAdmin \in [Staff -> BOOLEAN]
  /\ DeptOf \in [Staff -> Departments \cup {None}]

ASSUME QueryAssumption ==
  /\ EmailOf \in [Queries -> Emails \cup {None}]
  /\ CompanyNameOf \in [Queries -> CompanyNames \cup {None}]
  /\ SuggestedDept \in [Queries -> Departments \cup {None}]

ASSUME CallsAssumption ==
  /\ Calls \subseteq CallType
  /\ \A c \in Calls : c.op = "convert" => c.dept \in Departments

ASSUME SentinelAssumption ==
  /\ None \notin Requests \cup Staff \cup Queries \cup Departments \cup Emails \cup CompanyNames
  /\ NoCustomer \notin Requests \cup {None}

ASSUME BoundAssumption == MaxFaults \in Nat

VARIABLES
  query,      \* the IntakeQuery rows
  companies,  \* the Company rows, each named by the request that created it
  customer,   \* the company of each address's Customer row, or NoCustomer
  tickets,    \* the Ticket rows convert() has created
  audit,      \* the AuditLog rows of the queries
  req,        \* the handlers
  faults      \* failures so far

vars == <<query, companies, customer, tickets, audit, req, faults>>
-----------------------------------------------------------------------------
Query == [status : Statuses, convertedTicketId : Requests \cup {None},
          reviewedByUserId : Staff \cup {None}]

\* A ticket is named by the request that created it.
Ticket == [id : Requests, query : Queries, company : Requests \cup {None}]

AuditEntry == [action : {"INTAKE_QUERY_CONVERTED", "INTAKE_QUERY_REJECTED"},
               query : Queries, by : Requests]

\* The calls inside the try block of convert().
TryPcs == {"company", "newCompany", "customer", "upsert", "customerType", "ticket"}

\* From the claim to the link, or to the end of the catch block.
ClaimPcs == TryPcs \cup {"revert", "link"}

Pcs == {"idle", "claim", "reject", "audit", "done"} \cup ClaimPcs

\* company: the company resolved so far; exists: whether upsert() saw a Customer.
Request == [pc : Pcs, call : CallType \cup {None},
            company : Requests \cup {None}, exists : BOOLEAN]

TypeOK ==
  /\ query \in [Queries -> Query]
  /\ companies \subseteq Requests
  /\ customer \in [Emails -> Requests \cup {None, NoCustomer}]
  /\ tickets \subseteq Ticket
  /\ audit \subseteq AuditEntry
  /\ req \in [Requests -> Request]
  /\ faults \in Nat
-----------------------------------------------------------------------------
QueryOf(r) == req[r].call.query

\* The handler holds the claim on its query.
Holds(r) == req[r].pc \in ClaimPcs

EmailOfReq(r) == EmailOf[QueryOf(r)]

\* companyName of a Company row.
NameOf(company) == CompanyNameOf[QueryOf(company)]

\* intakeQueryScopeWhere
IsVisible(staff, q) ==
  \/ IsSuperAdmin[staff]
  \/ DeptOf[staff] # None /\ SuggestedDept[q] = DeptOf[staff]

\* assertDepartmentAccess
MayFileIn(staff, dept) == IsSuperAdmin[staff] \/ DeptOf[staff] = dept

Goto(r, pc) == req' = [req EXCEPT ![r].pc = pc]

Init ==
  /\ query = [q \in Queries |-> [status |-> "PENDING", convertedTicketId |-> None,
                                 reviewedByUserId |-> None]]
  /\ companies = {}
  /\ customer \in [Emails -> {None, NoCustomer}]
  /\ tickets = {}
  /\ audit = {}
  /\ req = [r \in Requests |-> [pc |-> "idle", call |-> None, company |-> None,
                                exists |-> FALSE]]
  /\ faults = 0

\* getVisibleOrThrow and the checks on the row it returns.
Load(r, c) ==
  /\ req[r].pc = "idle"
  /\ IsVisible(c.staff, c.query)
  /\ query[c.query].status = "PENDING"
  /\ c.op = "convert" => EmailOf[c.query] # None /\ MayFileIn(c.staff, c.dept)
  /\ req' = [req EXCEPT ![r].pc = IF c.op = "convert" THEN "claim" ELSE "reject",
                        ![r].call = c]
  /\ UNCHANGED <<query, companies, customer, tickets, audit, faults>>
-----------------------------------------------------------------------------
(* convert() *)

\* Mutant: the claim without its condition.
ClaimAnyway(r) ==
  LET q == QueryOf(r)
  IN  /\ req[r].pc = "claim"
      /\ query' = [query EXCEPT ![q].status = "CONVERTED",
                                ![q].reviewedByUserId = req[r].call.staff]
      /\ Goto(r, "company")
      /\ UNCHANGED <<companies, customer, tickets, audit, faults>>

\* updateMany where the status is still PENDING; on count 0 the request ends.
Claim(r) ==
  LET q == QueryOf(r)
  IN  /\ req[r].pc = "claim"
      /\ IF query[q].status = "PENDING"
         THEN /\ query' = [query EXCEPT ![q].status = "CONVERTED",
                                        ![q].reviewedByUserId = req[r].call.staff]
              /\ Goto(r, "company")
         ELSE Goto(r, "done") /\ UNCHANGED query
      /\ UNCHANGED <<companies, customer, tickets, audit, faults>>

\* The findFirst of resolveCompanyId.
FindCompany(r) ==
  LET name  == CompanyNameOf[QueryOf(r)]
      known == {co \in companies : NameOf(co) = name}
  IN  /\ req[r].pc = "company"
      /\ \/ name = None /\ Goto(r, "customer")
         \/ name # None /\ known = {} /\ Goto(r, "newCompany")
         \/ /\ name # None
            /\ \E co \in known : req' = [req EXCEPT ![r].pc = "customer", ![r].company = co]
      /\ UNCHANGED <<query, companies, customer, tickets, audit, faults>>

\* The create of resolveCompanyId: Company names carry no unique index.
CreateCompany(r) ==
  /\ req[r].pc = "newCompany"
  /\ companies' = companies \cup {r}
  /\ req' = [req EXCEPT ![r].pc = "customer", ![r].company = r]
  /\ UNCHANGED <<query, customer, tickets, audit, faults>>

\* With an `include`, upsert() is a read followed by an insert or an update.
FindCustomer(r) ==
  /\ req[r].pc = "customer"
  /\ req' = [req EXCEPT ![r].pc = "upsert",
                        ![r].exists = customer[EmailOfReq(r)] # NoCustomer]
  /\ UNCHANGED <<query, companies, customer, tickets, audit, faults>>

\* Mutant: a submission without a company takes the customer out of its own.
UpsertCustomerAlways(r) ==
  LET email == EmailOfReq(r)
  IN  /\ req[r].pc = "upsert"
      /\ customer' = [customer EXCEPT ![email] = req[r].company]
      /\ Goto(r, "customerType")
      /\ UNCHANGED <<query, companies, tickets, audit, faults>>

\* The insert fails on the unique address if a Customer has appeared since.
UpsertCustomer(r) ==
  LET email == EmailOfReq(r)
  IN  /\ req[r].pc = "upsert"
      /\ IF ~req[r].exists /\ customer[email] # NoCustomer
         THEN Goto(r, "revert") /\ UNCHANGED customer
         ELSE /\ customer' = [customer EXCEPT
                   ![email] = IF req[r].exists /\ req[r].company = None THEN @
                              ELSE req[r].company]
              /\ Goto(r, "customerType")
      /\ UNCHANGED <<query, companies, tickets, audit, faults>>

\* tickets.create() reads the customer again.
ReadCustomer(r) ==
  /\ req[r].pc = "customerType"
  /\ req' = [req EXCEPT ![r].pc = "ticket", ![r].company = customer[EmailOfReq(r)]]
  /\ UNCHANGED <<query, companies, customer, tickets, audit, faults>>

\* Mutant: the new ticket is never linked.
CreateTicketOnly(r) ==
  /\ req[r].pc = "ticket"
  /\ tickets' = tickets \cup {[id |-> r, query |-> QueryOf(r), company |-> req[r].company]}
  /\ Goto(r, "audit")
  /\ UNCHANGED <<query, companies, customer, audit, faults>>

\* The transaction of tickets.create().
CreateTicket(r) ==
  /\ req[r].pc = "ticket"
  /\ tickets' = tickets \cup {[id |-> r, query |-> QueryOf(r), company |-> req[r].company]}
  /\ Goto(r, "link")
  /\ UNCHANGED <<query, companies, customer, audit, faults>>

\* Mutant: the error is passed on and the claim kept.
RefuseTicketOnly(r) ==
  /\ req[r].pc \in {"customerType", "ticket"}
  /\ Goto(r, "done")
  /\ UNCHANGED <<query, companies, customer, tickets, audit, faults>>

\* tickets.create() refuses: department, type, fields or agent do not fit.
RefuseTicket(r) ==
  /\ req[r].pc \in {"customerType", "ticket"}
  /\ Goto(r, "revert")
  /\ UNCHANGED <<query, companies, customer, tickets, audit, faults>>

\* The catch block: the query goes back to the queue, whatever its status is now.
Revert(r) ==
  LET q == QueryOf(r)
  IN  /\ req[r].pc = "revert"
      /\ query' = [query EXCEPT ![q].status = "PENDING", ![q].reviewedByUserId = None]
      /\ Goto(r, "done")
      /\ UNCHANGED <<companies, customer, tickets, audit, faults>>

Link(r) ==
  /\ req[r].pc = "link"
  /\ query' = [query EXCEPT ![QueryOf(r)].convertedTicketId = r]
  /\ Goto(r, "audit")
  /\ UNCHANGED <<companies, customer, tickets, audit, faults>>
-----------------------------------------------------------------------------
\* reject(): its write carries no condition.
Reject(r) ==
  LET q == QueryOf(r)
  IN  /\ req[r].pc = "reject"
      /\ query' = [query EXCEPT ![q].status = "REJECTED",
                                ![q].reviewedByUserId = req[r].call.staff]
      /\ Goto(r, "audit")
      /\ UNCHANGED <<companies, customer, tickets, audit, faults>>

\* The last call of convert() and of reject().
Audit(r) ==
  /\ req[r].pc = "audit"
  /\ audit' = audit \cup {[action |-> IF req[r].call.op = "convert"
                                      THEN "INTAKE_QUERY_CONVERTED" ELSE "INTAKE_QUERY_REJECTED",
                           query |-> QueryOf(r), by |-> r]}
  /\ Goto(r, "done")
  /\ UNCHANGED <<query, companies, customer, tickets, faults>>

\* Mutant: the link inside the try block, so that its failure reverts as well.
CallFailsWide(r) ==
  /\ req[r].pc \in TryPcs \cup {"link"}
  /\ faults < MaxFaults
  /\ faults' = faults + 1
  /\ Goto(r, "revert")
  /\ UNCHANGED <<query, companies, customer, tickets, audit>>

\* A database call inside the try block fails.
CallFails(r) ==
  /\ req[r].pc \in TryPcs
  /\ faults < MaxFaults
  /\ faults' = faults + 1
  /\ Goto(r, "revert")
  /\ UNCHANGED <<query, companies, customer, tickets, audit>>

\* A call outside it fails, or the process ends: nothing is undone.
Die(r) ==
  /\ req[r].pc \notin {"idle", "done"}
  /\ faults < MaxFaults
  /\ faults' = faults + 1
  /\ Goto(r, "done")
  /\ UNCHANGED <<query, companies, customer, tickets, audit>>
-----------------------------------------------------------------------------
Convert(r) ==
  \/ Claim(r) \/ FindCompany(r) \/ CreateCompany(r) \/ FindCustomer(r)
  \/ UpsertCustomer(r) \/ ReadCustomer(r) \/ CreateTicket(r) \/ RefuseTicket(r)
  \/ Revert(r) \/ Link(r)

Serve(r) == Convert(r) \/ Reject(r) \/ Audit(r)

Next == \E r \in Requests : \/ \E c \in Calls : Load(r, c)
                            \/ Serve(r) \/ CallFails(r) \/ Die(r)

Spec == Init /\ [][Next]_vars

\* A request that was accepted is served to its end.
FairSpec == Spec /\ \A r \in Requests : WF_vars(Serve(r))
-----------------------------------------------------------------------------
(* Properties *)

\* The handler goes on as if its customer had a row.
SawCustomer(r) == \/ req[r].pc = "customerType"
                  \/ req[r].pc = "upsert" /\ req[r].exists

\* Local state of the handlers at each point of the code.
HandlersWellFormed ==
  \A r \in Requests :
    /\ req[r].pc # "idle" => req[r].call \in Calls
    /\ Holds(r) \/ req[r].pc = "claim" => EmailOfReq(r) \in Emails
    /\ SawCustomer(r) => customer[EmailOfReq(r)] # NoCustomer

TicketsOf(q) == {t \in tickets : t.query = q}

\* "two concurrent conversions ... both create a real Ticket" cannot happen: one
\* query yields at most one ticket, over all conversions, retries, rejections
\* and failures (the claim of convert()).
OneTicketPerQuery == \A q \in Queries : Cardinality(TicketsOf(q)) <= 1

\* A query in the queue, or put back into it, has no ticket: converting it again
\* can never file the same request twice.
PendingHasNoTicket ==
  \A q \in Queries : query[q].status = "PENDING" => TicketsOf(q) = {}

\* The claim excludes: a conversion works alone on its query, which is not in the
\* queue meanwhile and, until that conversion gives it one, has no ticket.
ClaimExcludes ==
  /\ \A r, s \in Requests :
       Holds(r) /\ Holds(s) /\ QueryOf(r) = QueryOf(s) => r = s
  /\ \A r \in Requests :
       Holds(r) => /\ query[QueryOf(r)].status # "PENDING"
                   /\ req[r].pc # "link" => TicketsOf(QueryOf(r)) = {}

\* A ticket filed for a query that names a company is a B2B ticket (and timed by
\* the B2B SLA), also when the same address writes in without a company at the
\* same time: create() reads the customer afresh, and upsert() never takes a
\* customer out of its company.
NamedCompanyIsB2B ==
  \A t \in tickets : CompanyNameOf[t.query] # None => t.company # None

\* Every ticket of the queue is linked to its query in the end, and on record
\* (again, unless a call fails).
TicketIsLinked ==
  \A r \in Requests :
    (\E t \in tickets : t.id = r) ~>
      faults > 0 \/ \E t \in tickets :
        /\ t.id = r
        /\ query[t.query].convertedTicketId = r
        /\ [action |-> "INTAKE_QUERY_CONVERTED", query |-> t.query, by |-> r] \in audit

\* No query stays claimed: it ends with its ticket, or back in the queue, or
\* rejected (again, unless a call fails).
ClaimSettles ==
  \A q \in Queries :
    query[q].status = "CONVERTED" ~>
      faults > 0 \/ query[q].convertedTicketId # None \/ query[q].status # "CONVERTED"
-----------------------------------------------------------------------------
(* What a test of the code says, and the code does not do. *)

\* "refuses to reject a query that is not PENDING" (test of reject).
RejectsOnlyPending ==
  [][\A q \in Queries : query'[q].status = "REJECTED" /\ query[q].status # "REJECTED"
                        => query[q].status = "PENDING"]_vars
==============================================================================
