-------------------------------- MODULE Accounts -------------------------------
(***************************************************************************)
(* Accounts of the staff, and the customers the staff's own tickets hang   *)
(* on: sign-up (AuthService), the administrator's new logins               *)
(* (UsersService), signing in, and the customer rows that are found or     *)
(* made by address (CustomersService, TicketsService).  A request is       *)
(* interleaved with others at every awaited call; any call may fail.       *)
(***************************************************************************)
EXTENDS Naturals, FiniteSets

CONSTANTS
  Emails,      \* normalised addresses, of the company's domain
  Requests,
  None,
  MaxFaults    \* bound on the failed calls

Roles == {"SUPER_ADMIN", "DEPT_ADMIN", "AGENT", "EMPLOYEE"}

\* What a request may ask.  password: the request on which it was chosen; company:
\* whether one is named.
Calls ==
  [op : {"signup"}, email : Emails]
    \cup [op : {"create"}, email : Emails, role : Roles]
    \cup [op : {"login"}, email : Emails, password : Requests]
    \cup [op : {"raise"}, email : Emails]
    \cup [op : {"customer", "intake"}, email : Emails, company : BOOLEAN]

VARIABLES
  users,        \* the account of each address: its role and the request it is from
  credentials,  \* passwords: whose, and the request on which each was chosen
  customers,    \* the customer of each address: whether a company's contact
  tickets,      \* tickets raised for colleagues
  tokens,       \* tokens issued
  pc, call,     \* each request: where it is, what it asks
  faults

vars == <<users, credentials, customers, tickets, tokens, pc, call, faults>>
-----------------------------------------------------------------------------
Account == [role : Roles, by : Requests]

Pcs == {"idle", "find", "user", "credential", "upsert", "done", "refused"}

TypeOK ==
  /\ users \in [Emails -> Account \cup {None}]
  /\ credentials \subseteq [email : Emails, by : Requests]
  /\ customers \in [Emails -> [company : BOOLEAN] \cup {None}]
  /\ tickets \subseteq [email : Emails, customerType : {"B2B", "B2C"}]
  /\ tokens \subseteq [email : Emails, role : Roles, password : Requests]
  /\ pc \in [Requests -> Pcs]
  /\ call \in [Requests -> Calls \cup {None}]
  /\ faults \in Nat

Init ==
  /\ users = [e \in Emails |-> None] /\ credentials = {}
  /\ customers = [e \in Emails |-> None]
  /\ tickets = {} /\ tokens = {}
  /\ pc = [q \in Requests |-> "idle"] /\ call = [q \in Requests |-> None]
  /\ faults = 0

To(q, step) == pc' = [pc EXCEPT ![q] = step]

Opens(op) == op \in {"signup", "create"}

\* A request comes in.
Ask(q, ops) ==
  /\ pc[q] = "idle"
  /\ \E c \in Calls : c.op \in ops /\ call' = [call EXCEPT ![q] = c]
  /\ To(q, "find")
  /\ UNCHANGED <<users, credentials, customers, tickets, tokens, faults>>

StaffSignupPage(q) == Ask(q, {"signup"})

StaffLoginPage(q) == Ask(q, {"login"})

CreateUserPage(q) == Ask(q, {"create"})

\* A new requester, a ticket for a colleague or oneself, a query to convert.
TicketPages(q) == Ask(q, {"customer", "raise", "intake"})
-----------------------------------------------------------------------------
(* Accounts *)

\* The address is looked up first.
FindUser(q) ==
  /\ pc[q] = "find" /\ Opens(call[q].op)
  /\ To(q, IF users[call[q].email] = None THEN "user" ELSE "refused")
  /\ UNCHANGED <<users, credentials, customers, tickets, tokens, call, faults>>

\* A sign-up is an employee's; the administrator gives any role.
RoleOf(c) == IF c.op = "signup" THEN "EMPLOYEE" ELSE c.role

\* Mutant: an account that is there by now is taken as it is.
CreateUserOrKeep(q) ==
  /\ pc[q] = "user"
  /\ users' = [users EXCEPT ![call[q].email] =
                 IF @ = None THEN [role |-> RoleOf(call[q]), by |-> q] ELSE @]
  /\ To(q, "credential")
  /\ UNCHANGED <<credentials, customers, tickets, tokens, call, faults>>

\* The address is unique: the second of two is an error.
CreateUser(q) ==
  /\ pc[q] = "user"
  /\ IF users[call[q].email] = None
     THEN /\ users' = [users EXCEPT ![call[q].email] = [role |-> RoleOf(call[q]), by |-> q]]
          /\ To(q, "credential")
     ELSE To(q, "refused") /\ UNCHANGED users
  /\ UNCHANGED <<credentials, customers, tickets, tokens, call, faults>>

Token(email, password) == [email |-> email, role |-> users[email].role, password |-> password]

\* The password, hashed; a sign-up is signed in at once.
CreateCredential(q) ==
  /\ pc[q] = "credential"
  /\ credentials' = credentials \cup {[email |-> call[q].email, by |-> q]}
  /\ tokens' = IF call[q].op = "signup" THEN tokens \cup {Token(call[q].email, q)} ELSE tokens
  /\ To(q, "done")
  /\ UNCHANGED <<users, customers, tickets, call, faults>>

\* validateStaff(): the account and its password, read at once.
Login(q) ==
  /\ pc[q] = "find" /\ call[q].op = "login"
  /\ IF [email |-> call[q].email, by |-> call[q].password] \in credentials
     THEN /\ tokens' = tokens \cup {Token(call[q].email, call[q].password)}
          /\ To(q, "done")
     ELSE To(q, "refused") /\ UNCHANGED tokens
  /\ UNCHANGED <<users, credentials, customers, tickets, call, faults>>
-----------------------------------------------------------------------------
(* Customers *)

\* create(): refused when the address is there.
FindCustomer(q) ==
  /\ pc[q] = "find" /\ call[q].op = "customer"
  /\ To(q, IF customers[call[q].email] = None THEN "upsert" ELSE "refused")
  /\ UNCHANGED <<users, credentials, customers, tickets, tokens, call, faults>>

CreateCustomer(q) ==
  /\ pc[q] = "upsert" /\ call[q].op = "customer"
  /\ IF customers[call[q].email] = None
     THEN /\ customers' = [customers EXCEPT ![call[q].email] = [company |-> call[q].company]]
          /\ To(q, "done")
     ELSE To(q, "refused") /\ UNCHANGED customers
  /\ UNCHANGED <<users, credentials, tickets, tokens, call, faults>>

\* findOrCreateByEmail(): a company that is named is the customer's from now on.
FindOrCreateByEmail(q) ==
  /\ pc[q] = "find" /\ call[q].op = "intake"
  /\ customers' = [customers EXCEPT ![call[q].email] =
       IF @ = None \/ call[q].company THEN [company |-> call[q].company] ELSE @]
  /\ To(q, "done")
  /\ UNCHANGED <<users, credentials, tickets, tokens, call, faults>>

\* findOrCreateCustomerForStaff(): the requester is read, and a customer of the
\* same address is found or made.
FindRequester(q) ==
  /\ pc[q] = "find" /\ call[q].op = "raise"
  /\ To(q, IF users[call[q].email] = None THEN "refused" ELSE "upsert")
  /\ UNCHANGED <<users, credentials, customers, tickets, tokens, call, faults>>

CustomerForStaff(e) == IF customers[e] = None THEN [company |-> FALSE] ELSE customers[e]

UpsertForStaff(q) ==
  /\ pc[q] = "upsert" /\ call[q].op = "raise"
  /\ LET e == call[q].email
     IN  /\ customers' = [customers EXCEPT ![e] = CustomerForStaff(e)]
         /\ tickets' = tickets \cup {[email |-> e, customerType |->
                         IF CustomerForStaff(e).company THEN "B2B" ELSE "B2C"]}
  /\ To(q, "done")
  /\ UNCHANGED <<users, credentials, tokens, call, faults>>

\* A call fails, or the process ends, between two steps.
Fail(q) ==
  /\ faults < MaxFaults
  /\ pc[q] \in {"find", "user", "credential", "upsert"}
  /\ To(q, "refused")
  /\ faults' = faults + 1
  /\ UNCHANGED <<users, credentials, customers, tickets, tokens, call>>
-----------------------------------------------------------------------------
Step(q) ==
  \/ StaffSignupPage(q) \/ StaffLoginPage(q) \/ CreateUserPage(q) \/ TicketPages(q)
  \/ FindUser(q) \/ CreateUser(q) \/ CreateCredential(q) \/ Login(q)
  \/ FindCustomer(q) \/ CreateCustomer(q) \/ FindOrCreateByEmail(q)
  \/ FindRequester(q) \/ UpsertForStaff(q) \/ Fail(q)

Next == \E q \in Requests : Step(q)

Spec == Init /\ [][Next]_vars
-----------------------------------------------------------------------------
(* Properties *)

\* Whoever signs in with a password of their own choosing is an employee, however
\* a sign-up and the administrator's new login for one address interleave.
SelfServeIsEmployee ==
  \A k \in tokens : call[k.password].op = "signup" => k.role = "EMPLOYEE"

\* An account has the one password of the request that opened it.
CredentialIsTheAccounts ==
  \A c \in credentials : users[c.email] # None /\ users[c.email].by = c.by

\* An account nobody can sign in to is one whose request is still under way, or
\* failed halfway.
AccountIsUsable ==
  \A e \in Emails :
    users[e] # None /\ (\A c \in credentials : c.email # e)
      => pc[users[e].by] \in {"credential", "refused"}

\* "Always B2C (companyId null) - there's no "company" concept for an internal
\* requester" (findOrCreateCustomerForStaff()).
StaffTicketIsB2C == \A k \in tickets : k.customerType = "B2C"
=============================================================================
