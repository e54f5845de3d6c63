------------------------------- MODULE PagesProofs -----------------------------
(***************************************************************************)
(* Proofs about the three components that MCPages puts side by side, for   *)
(* every number of requests, addresses, rows, cards and failures:          *)
(* Accounts, BulkAssist (what is sent, and in which order) and             *)
(* TicketThread (files, internal notes, what a list shows).                *)
(***************************************************************************)
EXTENDS MCPages, Sequences, SequenceTheorems, FiniteSetTheorems, NaturalsInduction,
  WellFoundedInduction, TLAPS
-----------------------------------------------------------------------------
(* Accounts *)

\* What a request asks fits the step it is at.
RequestsWellFormed ==
  /\ pc \in [Requests -> Staff!Pcs]
  /\ call \in [Requests -> Staff!Calls \cup {None}]
  /\ \A q \in Requests : pc[q] # "idle" => call[q] \in Staff!Calls
  /\ \A q \in Requests : pc[q] \in {"user", "credential"} => Staff!Opens(call[q].op)

\* An account is from a request that asked for it, and has the role that one gives.
UsersAreAskedFor ==
  /\ users \in [Emails -> Staff!Account \cup {None}]
  /\ \A e \in Emails : users[e] # None =>
       LET q == users[e].by
       IN  /\ pc[q] \in {"credential", "done", "refused"}
           /\ call[q] \in Staff!Calls /\ Staff!Opens(call[q].op) /\ call[q].email = e
           /\ users[e].role = Staff!RoleOf(call[q])
           /\ pc[q] = "done" => [email |-> e, by |-> q] \in credentials

\* A request that is to write a password has opened the account of its address.
OpenersOwnTheAccount ==
  \A q \in Requests : pc[q] = "credential" =>
    users[call[q].email] # None /\ users[call[q].email].by = q

\* A password is the one of the request that opened the account.
PasswordsAreTheAccounts ==
  /\ credentials \subseteq [email : Emails, by : Requests]
  /\ \A c \in credentials : users[c.email] # None /\ users[c.email].by = c.by

\* A token says the role of its account.
TokensAreTheAccounts ==
  /\ tokens \subseteq [email : Emails, role : Staff!Roles, password : Requests]
  /\ \A k \in tokens : /\ users[k.email] # None
                       /\ users[k.email].by = k.password
                       /\ users[k.email].role = k.role

StaffInv == /\ RequestsWellFormed /\ UsersAreAskedFor /\ OpenersOwnTheAccount
            /\ PasswordsAreTheAccounts /\ TokensAreTheAccounts

\* What an opener's call holds.
LEMMA OpenerCall ==
  ASSUME NEW c \in Staff!Calls, Staff!Opens(c.op)
  PROVE  c.email \in Emails /\ Staff!RoleOf(c) \in Staff!Roles
  BY DEF Staff!Calls, Staff!Opens, Staff!RoleOf, Staff!Roles

LEMMA CallEmail ==
  ASSUME NEW c \in Staff!Calls
  PROVE  c.email \in Emails
  BY DEF Staff!Calls

LEMMA StaffInit == Staff!Init => StaffInv
  BY DEF Staff!Init, StaffInv, RequestsWellFormed, UsersAreAskedFor, OpenersOwnTheAccount,
     PasswordsAreTheAccounts, TokensAreTheAccounts, Staff!Pcs

\* A step that moves one request on, from a step that has nothing to do with
\* opening an account to another of that kind, or from any to a refusal.
LEMMA MovedOn ==
  ASSUME StaffInv, NEW q \in Requests, NEW step \in Staff!Pcs,
         pc' = [pc EXCEPT ![q] = step],
         call' \in [Requests -> Staff!Calls \cup {None}],
         call'[q] \in Staff!Calls,
         \A p \in Requests \ {q} : call'[p] = call[p],
         pc[q] = "idle" \/ call'[q] = call[q],
         \/ step = "refused"
         \/ step = "user" /\ Staff!Opens(call'[q].op) /\ pc[q] = "find"
         \/ step \notin {"user", "credential"} /\ pc[q] \in {"idle", "find", "upsert"},
         UNCHANGED <<users, credentials, tokens>>
  PROVE  StaffInv'
  <1>1. RequestsWellFormed'
    BY DEF StaffInv, RequestsWellFormed, Staff!Pcs
  <1>2. UsersAreAskedFor'
    BY DEF StaffInv, UsersAreAskedFor, RequestsWellFormed, Staff!Account
  <1>3. OpenersOwnTheAccount'
    BY DEF StaffInv, OpenersOwnTheAccount, RequestsWellFormed
  <1>4. PasswordsAreTheAccounts' /\ TokensAreTheAccounts'
    BY DEF StaffInv, PasswordsAreTheAccounts, TokensAreTheAccounts
  <1> QED
    BY <1>1, <1>2, <1>3, <1>4 DEF StaffInv

LEMMA StaffAsk ==
  ASSUME StaffInv, NEW q \in Requests, NEW ops, Staff!Ask(q, ops)
  PROVE  StaffInv'
  <1>1. PICK c \in Staff!Calls : call' = [call EXCEPT ![q] = c]
    BY DEF Staff!Ask
  <1> QED
    BY <1>1, MovedOn DEF Staff!Ask, Staff!To, Staff!Pcs, StaffInv, RequestsWellFormed

LEMMA StaffCreateUser ==
  ASSUME StaffInv, NEW q \in Requests, Staff!CreateUser(q)
  PROVE  StaffInv'
  <1> DEFINE e == call[q].email
             account == [role |-> Staff!RoleOf(call[q]), by |-> q]
  <1>1. /\ pc[q] = "user" /\ call[q] \in Staff!Calls /\ Staff!Opens(call[q].op)
        /\ UNCHANGED <<credentials, tokens, call>>
    BY DEF Staff!CreateUser, StaffInv, RequestsWellFormed
  <1>2. CASE users[e] # None
    BY <1>1, <1>2, MovedOn DEF Staff!CreateUser, Staff!To, Staff!Pcs, StaffInv, RequestsWellFormed
  <1>3. CASE users[e] = None
    <2>1. /\ users' = [users EXCEPT ![e] = account]
          /\ pc' = [pc EXCEPT ![q] = "credential"]
      BY <1>3 DEF Staff!CreateUser, Staff!To
    <2>2. e \in Emails /\ account \in Staff!Account /\ account # None
      BY <1>1, OpenerCall, NoneAssumption DEF Staff!Account
    <2>3. \A f \in Emails : users[f] # None => users[f].by # q /\ f # e
      BY <1>1, <1>3 DEF StaffInv, UsersAreAskedFor
    <2>4. RequestsWellFormed'
      BY <1>1, <2>1 DEF StaffInv, RequestsWellFormed, Staff!Pcs
    <2>5. UsersAreAskedFor'
      <3>1. users' \in [Emails -> Staff!Account \cup {None}]
        BY <2>1, <2>2 DEF StaffInv, UsersAreAskedFor
      <3>2. ASSUME NEW f \in Emails, f # e, users[f] # None
            PROVE  users'[f] = users[f] /\ pc'[users[f].by] = pc[users[f].by]
        BY <2>1, <2>3, <3>2 DEF StaffInv, UsersAreAskedFor, RequestsWellFormed, Staff!Account
      <3>3. users'[e] = account /\ pc'[q] = "credential"
        BY <2>1, <2>2 DEF StaffInv, UsersAreAskedFor, RequestsWellFormed
      <3>4. \A f \in Emails \ {e} : users'[f] = users[f]
        BY <2>1, <2>2 DEF StaffInv, UsersAreAskedFor
      <3> QED
        BY <1>1, <2>2, <3>1, <3>2, <3>3, <3>4 DEF StaffInv, UsersAreAskedFor
    <2>6. OpenersOwnTheAccount'
      BY <1>1, <1>3, <2>1, <2>2 DEF StaffInv, OpenersOwnTheAccount, UsersAreAskedFor,
         RequestsWellFormed
    <2>7. PasswordsAreTheAccounts' /\ TokensAreTheAccounts'
      BY <1>1, <1>3, <2>1 DEF StaffInv, PasswordsAreTheAccounts, TokensAreTheAccounts,
         UsersAreAskedFor
    <2> QED
      BY <2>4, <2>5, <2>6, <2>7 DEF StaffInv
  <1> QED
    BY <1>2, <1>3

LEMMA StaffCreateCredential ==
  ASSUME StaffInv, NEW q \in Requests, Staff!CreateCredential(q)
  PROVE  StaffInv'
  <1> DEFINE e == call[q].email
             c == [email |-> e, by |-> q]
             k == [email |-> e, role |-> users[e].role, password |-> q]
  <1>1. /\ pc[q] = "credential" /\ call[q] \in Staff!Calls /\ Staff!Opens(call[q].op)
        /\ users[e] # None /\ users[e].by = q
        /\ UNCHANGED <<users, call>>
    BY DEF Staff!CreateCredential, StaffInv, RequestsWellFormed, OpenersOwnTheAccount
  <1>2. e \in Emails /\ users[e].role \in Staff!Roles
    BY <1>1, OpenerCall DEF StaffInv, UsersAreAskedFor, Staff!Account
  <1>3. /\ credentials' = credentials \cup {c}
        /\ tokens' = tokens \/ tokens' = tokens \cup {k}
        /\ pc' = [pc EXCEPT ![q] = "done"]
    BY DEF Staff!CreateCredential, Staff!Token, Staff!To
  <1>4. RequestsWellFormed'
    BY <1>1, <1>3 DEF StaffInv, RequestsWellFormed, Staff!Pcs
  <1>5. UsersAreAskedFor'
    <2>1. ASSUME NEW f \in Emails, users[f] # None, users[f].by = q
          PROVE  f = e
      BY <2>1 DEF StaffInv, UsersAreAskedFor
    <2>2. ASSUME NEW f \in Emails, users[f] # None
          PROVE  /\ pc'[users[f].by] \in {"credential", "done", "refused"}
                 /\ pc'[users[f].by] = "done" => [email |-> f, by |-> users[f].by] \in credentials'
      <3>1. users[f].by \in Requests
        BY <2>2 DEF StaffInv, UsersAreAskedFor, Staff!Account
      <3>2. CASE users[f].by = q
        BY <1>3, <2>1, <2>2, <3>2 DEF StaffInv, RequestsWellFormed
      <3>3. CASE users[f].by # q
        BY <1>3, <2>2, <3>1, <3>3 DEF StaffInv, RequestsWellFormed, UsersAreAskedFor
      <3> QED
        BY <3>2, <3>3
    <2> QED
      BY <1>1, <2>2 DEF StaffInv, UsersAreAskedFor
  <1>6. OpenersOwnTheAccount'
    BY <1>1, <1>3 DEF StaffInv, OpenersOwnTheAccount, RequestsWellFormed
  <1>7. PasswordsAreTheAccounts'
    BY <1>1, <1>2, <1>3 DEF StaffInv, PasswordsAreTheAccounts
  <1>8. TokensAreTheAccounts'
    BY <1>1, <1>2, <1>3 DEF StaffInv, TokensAreTheAccounts
  <1> QED
    BY <1>4, <1>5, <1>6, <1>7, <1>8 DEF StaffInv

LEMMA StaffLogin ==
  ASSUME StaffInv, NEW q \in Requests, Staff!Login(q)
  PROVE  StaffInv'
  <1> DEFINE e == call[q].email
             c == [email |-> e, by |-> call[q].password]
             k == [email |-> e, role |-> users[e].role, password |-> call[q].password]
  <1>1. /\ pc[q] = "find" /\ call[q] \in Staff!Calls
        /\ UNCHANGED <<users, credentials, call>>
    BY DEF Staff!Login, StaffInv, RequestsWellFormed
  <1>2. CASE c \notin credentials
    BY <1>1, <1>2, MovedOn DEF Staff!Login, Staff!To, Staff!Pcs, StaffInv, RequestsWellFormed
  <1>3. CASE c \in credentials
    <2>1. tokens' = tokens \cup {k} /\ pc' = [pc EXCEPT ![q] = "done"]
      BY <1>3 DEF Staff!Login, Staff!Token, Staff!To
    <2>2. /\ e \in Emails /\ call[q].password \in Requests
          /\ users[e] # None /\ users[e].by = call[q].password
      BY <1>3 DEF StaffInv, PasswordsAreTheAccounts
    <2>3. users[e].role \in Staff!Roles
      BY <2>2 DEF StaffInv, UsersAreAskedFor, Staff!Account
    <2>4. RequestsWellFormed'
      BY <1>1, <2>1 DEF StaffInv, RequestsWellFormed, Staff!Pcs
    <2>5. UsersAreAskedFor'
      BY <1>1, <2>1 DEF StaffInv, UsersAreAskedFor, RequestsWellFormed, Staff!Account
    <2>6. OpenersOwnTheAccount' /\ PasswordsAreTheAccounts'
      BY <1>1, <2>1 DEF StaffInv, OpenersOwnTheAccount, PasswordsAreTheAccounts,
         RequestsWellFormed
    <2>7. TokensAreTheAccounts'
      BY <1>1, <2>1, <2>2, <2>3 DEF StaffInv, TokensAreTheAccounts
    <2> QED
      BY <2>4, <2>5, <2>6, <2>7 DEF StaffInv
  <1> QED
    BY <1>2, <1>3

\* The steps of a request that opens no account, and those that fail.
LEMMA StaffOther ==
  ASSUME StaffInv, NEW q \in Requests,
         \/ Staff!FindUser(q) \/ Staff!FindCustomer(q) \/ Staff!CreateCustomer(q)
         \/ Staff!FindOrCreateByEmail(q) \/ Staff!FindRequester(q) \/ Staff!UpsertForStaff(q)
         \/ Staff!Fail(q)
  PROVE  StaffInv'
  <1>1. call' = call /\ call \in [Requests -> Staff!Calls \cup {None}]
    BY DEF StaffInv, RequestsWellFormed, Staff!FindUser, Staff!FindCustomer,
       Staff!CreateCustomer, Staff!FindOrCreateByEmail, Staff!FindRequester,
       Staff!UpsertForStaff, Staff!Fail
  <1>2. UNCHANGED <<users, credentials, tokens>>
    BY DEF Staff!FindUser, Staff!FindCustomer, Staff!CreateCustomer,
       Staff!FindOrCreateByEmail, Staff!FindRequester, Staff!UpsertForStaff, Staff!Fail
  <1>3. pc[q] \in {"find", "user", "credential", "upsert"} /\ call[q] \in Staff!Calls
    BY DEF StaffInv, RequestsWellFormed, Staff!FindUser, Staff!FindCustomer,
       Staff!CreateCustomer, Staff!FindOrCreateByEmail, Staff!FindRequester,
       Staff!UpsertForStaff, Staff!Fail
  <1>4. PICK step \in Staff!Pcs :
          /\ pc' = [pc EXCEPT ![q] = step]
          /\ \/ step = "refused"
             \/ step = "user" /\ Staff!Opens(call[q].op) /\ pc[q] = "find"
             \/ step \notin {"user", "credential"} /\ pc[q] \in {"find", "upsert"}
    BY DEF Staff!Pcs, Staff!To, Staff!FindUser, Staff!FindCustomer, Staff!CreateCustomer,
       Staff!FindOrCreateByEmail, Staff!FindRequester, Staff!UpsertForStaff, Staff!Fail
  <1> QED
    BY <1>1, <1>2, <1>3, <1>4, MovedOn

LEMMA StaffNext == StaffInv /\ [Staff!Next]_staffVars => StaffInv'
  <1> SUFFICES ASSUME StaffInv, [Staff!Next]_staffVars PROVE StaffInv'
    OBVIOUS
  <1>1. CASE UNCHANGED staffVars
    BY <1>1 DEF staffVars, StaffInv, RequestsWellFormed, UsersAreAskedFor,
       OpenersOwnTheAccount, PasswordsAreTheAccounts, TokensAreTheAccounts
  <1>2. ASSUME NEW q \in Requests, Staff!Step(q) PROVE StaffInv'
    <2>1. CASE \/ Staff!StaffSignupPage(q) \/ Staff!StaffLoginPage(q)
               \/ Staff!CreateUserPage(q) \/ Staff!TicketPages(q)
      BY <2>1, StaffAsk DEF Staff!StaffSignupPage, Staff!StaffLoginPage,
         Staff!CreateUserPage, Staff!TicketPages
    <2>2. CASE Staff!CreateUser(q)
      BY <2>2, StaffCreateUser
    <2>3. CASE Staff!CreateCredential(q)
      BY <2>3, StaffCreateCredential
    <2>4. CASE Staff!Login(q)
      BY <2>4, StaffLogin
    <2> QED
      BY <1>2, <2>1, <2>2, <2>3, <2>4, StaffOther DEF Staff!Step
  <1> QED
    BY <1>1, <1>2 DEF Staff!Next

THEOREM SpecStaffInv == Spec => []StaffInv
  <1>1. Init => StaffInv
    BY StaffInit DEF Init
  <1>2. StaffInv /\ [Next]_vars => StaffInv'
    BY StaffNext DEF Next, vars, BulkStep, StaffStep, InThread, staffVars
  <1> QED
    BY <1>1, <1>2, PTL DEF Spec

\* Whoever signs in with a password chosen at sign-up is an employee.
THEOREM SelfServeStaysEmployee == Spec => []SelfServeIsEmployee
  <1>1. ASSUME StaffInv, NEW k \in tokens PROVE k.role = Staff!RoleOf(call[k.password])
    <2>1. k.email \in Emails /\ users[k.email] # None
      BY <1>1 DEF StaffInv, TokensAreTheAccounts
    <2>2. users[k.email].by = k.password /\ users[k.email].role = k.role
      BY <1>1 DEF StaffInv, TokensAreTheAccounts
    <2> QED
      BY <1>1, <2>1, <2>2 DEF StaffInv, UsersAreAskedFor
  <1>2. StaffInv => SelfServeIsEmployee
    BY <1>1 DEF SelfServeIsEmployee, Staff!SelfServeIsEmployee, Staff!RoleOf
  <1> QED
    BY <1>2, SpecStaffInv, PTL

\* An account's passwords are those of the request that opened it.
THEOREM CredentialStaysTheAccounts == Spec => []CredentialIsTheAccounts
  <1>1. StaffInv => CredentialIsTheAccounts
    BY DEF StaffInv, PasswordsAreTheAccounts, CredentialIsTheAccounts,
       Staff!CredentialIsTheAccounts
  <1> QED
    BY <1>1, SpecStaffInv, PTL

\* An account without a password is one being opened, or one that failed halfway.
THEOREM AccountStaysUsable == Spec => []AccountIsUsable
  <1>1. StaffInv => AccountIsUsable
    BY DEF StaffInv, UsersAreAskedFor, AccountIsUsable, Staff!AccountIsUsable
  <1> QED
    BY <1>1, SpecStaffInv, PTL
-----------------------------------------------------------------------------
(* The files of a ticket *)

\* A file that is saved has its bytes, and so has one whose row is there.
FilesInv ==
  list = "files" =>
    /\ \A w \in writes : /\ w = [entry |-> w.entry, step |-> w.step]
                         /\ w.step = "saved" => w.entry.number \in blobs
    /\ \E S : entries \in Seq(S)
    /\ FilesHaveBytes

\* The insert of a row: its file has been saved.
LEMMA FilesStore ==
  ASSUME FilesInv, list = "files", NEW w \in writes, Thread!Store(w)
  PROVE  FilesInv'
  <1>1. PICK S : entries \in Seq(S)
    BY DEF FilesInv
  <1> DEFINE T == S \cup {w.entry}
  <1>2. entries \in Seq(T) /\ w.entry \in T
    BY <1>1, SeqMonotonic
  <1> HIDE DEF T
  <1>3. /\ entries' \in Seq(T) /\ Len(entries') = Len(entries) + 1
        /\ \A i \in 1 .. Len(entries) : entries'[i] = entries[i]
        /\ entries'[Len(entries) + 1] = w.entry
    BY <1>2, AppendProperties DEF Thread!Store
  <1>4. w.entry.number \in blobs /\ blobs' = blobs
    BY DEF FilesInv, Thread!Store, Thread!MayStore
  <1>5. \A i \in DOMAIN entries' : entries'[i].number \in blobs'
    <2> SUFFICES ASSUME NEW i \in 1 .. Len(entries') PROVE entries'[i].number \in blobs
      BY <1>3, <1>4
    <2>1. CASE i \in 1 .. Len(entries)
      BY <1>2, <1>3, <2>1 DEF FilesInv, FilesHaveBytes, Thread!FilesHaveBytes
    <2>2. CASE i = Len(entries) + 1
      BY <1>3, <1>4, <2>2
    <2> QED
      BY <1>2, <1>3, <2>1, <2>2
  <1>6. \A v \in writes' : v \in writes \/ v = [entry |-> w.entry, step |-> "stored"]
    BY DEF FilesInv, Thread!Store
  <1>7. FilesHaveBytes'
    BY <1>5 DEF FilesHaveBytes, Thread!FilesHaveBytes
  <1> QED
    BY <1>3, <1>4, <1>6, <1>7 DEF FilesInv

LEMMA FilesNext == FilesInv /\ [Thread!Next]_threadVars => FilesInv'
  <1> SUFFICES ASSUME FilesInv, [Thread!Next]_threadVars, list' = "files" PROVE FilesInv'
    BY DEF FilesInv
  <1>1. list = "files"
    BY DEF threadVars, Thread!Next, Thread!Poll, Thread!Add, Thread!Reading, Thread!Serve,
       Thread!Loaded, Thread!LoadFails, Thread!SaveBlob, Thread!Store, Thread!Added,
       Thread!AddFails
  <1>2. ASSUME entries' = entries, blobs \subseteq blobs',
               \A v \in writes' : \/ v \in writes
                                   \/ /\ v = [entry |-> v.entry, step |-> v.step]
                                      /\ v.step = "saved" => v.entry.number \in blobs'
        PROVE  FilesInv'
    <2>1. ASSUME NEW v \in writes'
          PROVE  /\ v = [entry |-> v.entry, step |-> v.step]
                 /\ v.step = "saved" => v.entry.number \in blobs'
      <3>1. CASE v \in writes
        BY <1>1, <1>2, <3>1 DEF FilesInv
      <3>2. CASE v \notin writes
        BY <1>2, <3>2
      <3> QED
        BY <3>1, <3>2
    <2>2. FilesHaveBytes' /\ \E S : entries' \in Seq(S)
      BY <1>1, <1>2 DEF FilesInv, FilesHaveBytes, Thread!FilesHaveBytes
    <2> QED
      BY <2>1, <2>2 DEF FilesInv
  <1>3. CASE \/ UNCHANGED threadVars
             \/ Thread!Poll
             \/ \E r \in Thread!BagToSet(reads) : Thread!Reading(r) \/ Thread!LoadFails(r)
    BY <1>2, <1>3 DEF threadVars, Thread!Poll, Thread!Reading, Thread!Serve, Thread!Loaded,
       Thread!LoadFails
  <1>4. ASSUME NEW p \in Thread!Pages, NEW visibility, Thread!Add(p, visibility)
        PROVE  FilesInv'
    BY <1>2, <1>4 DEF Thread!Add
  <1>5. ASSUME NEW w \in writes, Thread!SaveBlob(w)
        PROVE  FilesInv'
    <2>1. [w EXCEPT !.step = "saved"] = [entry |-> w.entry, step |-> "saved"]
      BY <1>1 DEF FilesInv
    <2>2. /\ entries' = entries /\ blobs' = blobs \cup {w.entry.number}
          /\ \A v \in writes' : v \in writes \/ v = [entry |-> w.entry, step |-> "saved"]
      BY <1>5, <2>1 DEF Thread!SaveBlob
    <2> QED
      BY <1>2, <2>2
  <1>6. ASSUME NEW w \in writes, Thread!Added(w) \/ Thread!AddFails(w)
        PROVE  FilesInv'
    BY <1>2, <1>6 DEF Thread!Added, Thread!AddFails
  <1>7. ASSUME NEW w \in writes, Thread!Store(w)
        PROVE  FilesInv'
    BY <1>1, <1>7, FilesStore
  <1>8. CASE Thread!Next
    BY <1>3, <1>4, <1>5, <1>6, <1>7, <1>8 DEF Thread!Next
  <1> QED
    BY <1>3, <1>8

\* Every file on a ticket can be downloaded, whatever failed on the way.
THEOREM FilesKeepBytes == Spec => []FilesHaveBytes
  <1>1. Init => FilesInv
    <2>1. <<>> \in Seq({})
      OBVIOUS
    <2> QED
      BY <2>1 DEF Init, Thread!Init, FilesInv, FilesHaveBytes, Thread!FilesHaveBytes
  <1>2. FilesInv /\ [Next]_vars => FilesInv'
    BY FilesNext DEF Next, vars, BulkStep, StaffStep, InThread, threadVars
  <1>3. FilesInv => FilesHaveBytes
    BY DEF FilesInv, FilesHaveBytes, Thread!FilesHaveBytes
  <1> QED
    BY <1>1, <1>2, <1>3, PTL DEF Spec
-----------------------------------------------------------------------------
(* Approving the cards of the bulk assistant *)

\* The assignment of an approval is over before its reply is under way.
LEMMA AssignedNext == AssignedFirst /\ [Bulk!Next]_bulkVars => AssignedFirst'
  <1> SUFFICES ASSUME AssignedFirst, [Bulk!Next]_bulkVars PROVE AssignedFirst'
    OBVIOUS
  <1>1. ASSUME assigned \subseteq assigned',
               \A a \in approvals' : \/ a \in approvals \/ a.step # "comment"
                                     \/ ~Bulk!Assigns(a.item) \/ a.item.ticketId \in assigned'
        PROVE  AssignedFirst'
    BY <1>1 DEF AssignedFirst, Bulk!AssignedFirst, Bulk!Assigns
  <1>2. ASSUME NEW item, NEW by, Bulk!Approve(item, by), assigned' = assigned
        PROVE  AssignedFirst'
    <2>1. \A a \in approvals' : \/ a \in approvals \/ a.step # "comment" \/ ~Bulk!Assigns(a.item)
      BY <1>2 DEF Bulk!Approve, Bulk!FirstStep
    <2> QED
      BY <1>1, <1>2, <2>1
  <1>3. CASE UNCHANGED bulkVars
    BY <1>1, <1>3 DEF bulkVars
  <1>4. CASE Bulk!OnRun \/ Bulk!OnApproveAll \/ Bulk!ItemsArrive \/ Bulk!RunFails \/ Bulk!SweepEnd
    BY <1>1, <1>4 DEF Bulk!OnRun, Bulk!OnApproveAll, Bulk!ItemsArrive, Bulk!RunFails,
       Bulk!SweepEnd
  <1>5. ASSUME NEW item, NEW text, Bulk!Skip(item) \/ Bulk!Edit(item, text) \/ Bulk!Check(item, text)
        PROVE  AssignedFirst'
    BY <1>1, <1>5 DEF Bulk!Skip, Bulk!Edit, Bulk!Check
  <1>6. ASSUME NEW item, Bulk!ApproveOne(item) \/ Bulk!SweepNext(item)
        PROVE  AssignedFirst'
    BY <1>2, <1>6 DEF Bulk!ApproveOne, Bulk!SweepNext
  <1>7. ASSUME NEW a \in approvals, Bulk!AssignAnswered(a)
        PROVE  AssignedFirst'
    <2>1. \A b \in approvals' : b \in approvals \/ b = [a EXCEPT !.step = "comment"]
      BY <1>7 DEF Bulk!AssignAnswered
    <2>2. [a EXCEPT !.step = "comment"].item.ticketId \in assigned'
      BY <1>7 DEF Bulk!AssignAnswered
    <2> QED
      BY <1>1, <1>7, <2>1, <2>2 DEF Bulk!AssignAnswered
  <1>8. ASSUME NEW a \in approvals, Bulk!CommentAnswered(a) \/ Bulk!ApprovalFails(a)
        PROVE  AssignedFirst'
    BY <1>1, <1>8 DEF Bulk!CommentAnswered, Bulk!ApprovalFails
  <1> QED
    BY <1>3, <1>4, <1>5, <1>6, <1>7, <1>8 DEF Bulk!Next, Bulk!Choose, Bulk!Answer

\* An approval that assigns has done so before its reply goes out, however the
\* cards and the sweep overlap.
THEOREM AssignmentComesFirst == Spec => []AssignedFirst
  <1>1. Init => AssignedFirst
    BY DEF Init, Bulk!Init, AssignedFirst, Bulk!AssignedFirst
  <1>2. AssignedFirst /\ [Next]_vars => AssignedFirst'
    BY AssignedNext DEF Next, vars, BulkStep, StaffStep, InThread, bulkVars
  <1> QED
    BY <1>1, <1>2, PTL DEF Spec

LEMMA SweepNextStep == SweepIsSequential /\ [Bulk!Next]_bulkVars => SweepIsSequential'
  <1> SUFFICES ASSUME SweepIsSequential, [Bulk!Next]_bulkVars PROVE SweepIsSequential'
    OBVIOUS
  <1> USE DEF SweepIsSequential, Bulk!SweepIsSequential, Bulk!Sweeps
  \* Steps that begin no approval of the sweep and add no card to it.
  <1>1. ASSUME queue' \subseteq queue, approvingAll' = approvingAll,
               \A a \in approvals' : a \in approvals \/ a.by = "hand"
        PROVE  SweepIsSequential'
    BY <1>1
  <1>2. CASE UNCHANGED bulkVars
    BY <1>1, <1>2 DEF bulkVars
  <1>3. CASE Bulk!OnRun \/ Bulk!ItemsArrive \/ Bulk!RunFails
    BY <1>1, <1>3 DEF Bulk!OnRun, Bulk!ItemsArrive, Bulk!RunFails
  <1>4. CASE Bulk!OnApproveAll \/ Bulk!SweepEnd
    BY <1>4 DEF Bulk!OnApproveAll, Bulk!SweepEnd
  <1>5. ASSUME NEW item, NEW text, Bulk!Skip(item) \/ Bulk!Edit(item, text) \/ Bulk!Check(item, text)
        PROVE  SweepIsSequential'
    BY <1>1, <1>5 DEF Bulk!Skip, Bulk!Edit, Bulk!Check
  <1>6. ASSUME NEW item, Bulk!ApproveOne(item)
        PROVE  SweepIsSequential'
    BY <1>1, <1>6 DEF Bulk!ApproveOne, Bulk!Approve
  <1>7. ASSUME NEW item \in queue, Bulk!SweepNext(item)
        PROVE  SweepIsSequential'
    BY <1>7 DEF Bulk!SweepNext, Bulk!Approve
  <1>8. ASSUME NEW a \in approvals, Bulk!AssignAnswered(a)
        PROVE  SweepIsSequential'
    <2> DEFINE next == [a EXCEPT !.step = "comment"]
    <2>1. /\ approvingAll' = approvingAll /\ queue' = queue
          /\ approvals' = (approvals \ {a}) \cup {next} \/ approvals' = approvals \ {a}
      BY <1>8 DEF Bulk!AssignAnswered
    <2>2. next.by = a.by
      OBVIOUS
    <2> HIDE DEF next
    <2> QED
      BY <2>1, <2>2
  <1>9. ASSUME NEW a \in approvals, Bulk!CommentAnswered(a) \/ Bulk!ApprovalFails(a)
        PROVE  SweepIsSequential'
    BY <1>1, <1>9 DEF Bulk!CommentAnswered, Bulk!ApprovalFails
  <1> QED
    BY <1>2, <1>3, <1>4, <1>5, <1>6, <1>7, <1>8, <1>9 DEF Bulk!Next, Bulk!Choose, Bulk!Answer

\* The sweep has one approval under way at most, and only while its button says so.
THEOREM SweepStaysSequential == Spec => []SweepIsSequential
  <1>1. Init => SweepIsSequential
    BY DEF Init, Bulk!Init, SweepIsSequential, Bulk!SweepIsSequential, Bulk!Sweeps
  <1>2. SweepIsSequential /\ [Next]_vars => SweepIsSequential'
    BY SweepNextStep DEF Next, vars, BulkStep, StaffStep, InThread, bulkVars
  <1> QED
    BY <1>1, <1>2, PTL DEF Spec
-----------------------------------------------------------------------------
(* The replies to the cards of the bulk assistant *)

\* A run whose cards have been drawn up: the assistant's answer is not awaited.
Drawn(n) == n \in 1 .. run /\ (assistant # None => n # run)

\* Cards, in the list or taken from it, of one ticket and one run.
SameCard(i, j) == i.ticketId = j.ticketId /\ i.run = j.run

\* What a reply to card i is known by.
Reply(i, by) == <<i.ticketId, i.run, by>>

\* The list is of the last run and has one card of each ticket.
ListInv ==
  /\ assistant # None => assistant.tickets \subseteq Tickets /\ items = None /\ run # 0
  /\ items # None => \A i, j \in items : i.run = run /\ (i.ticketId = j.ticketId => i = j)

\* The cards to be swept, the approvals under way and the replies posted are of
\* runs drawn up, one of each kind for a card, and a reply is under way or posted.
ApprovalsInv ==
  /\ \A q, r \in queue : Drawn(q.run) /\ (SameCard(q, r) => q = r)
  /\ \A a, b \in approvals : /\ Drawn(a.item.run)
                             /\ SameCard(a.item, b.item) /\ a.by = b.by => a = b
  /\ \A k \in DOMAIN posted : posted[k] = 1 /\ Drawn(k[2])
  /\ \A a \in approvals : Reply(a.item, a.by) \notin DOMAIN posted

\* A pending card is not being approved and has no reply; one to be swept is not
\* being approved by the sweep and has no reply of the sweep.
UnsentInv ==
  /\ \A i \in Bulk!Pending : /\ \A a \in approvals : ~SameCard(a.item, i)
                             /\ \A by \in {"hand", "sweep"} : Reply(i, by) \notin DOMAIN posted
  /\ \A q \in queue : /\ \A a \in approvals : SameCard(a.item, q) => a.by = "hand"
                      /\ Reply(q, "sweep") \notin DOMAIN posted

CardsInv == Bulk!TypeOK /\ ListInv /\ ApprovalsInv /\ UnsentInv

\* The list new after an update of cards of list: none becomes pending by it.
Updates(new, old) ==
  new = None \/
    /\ old # None
    /\ new \subseteq Bulk!Item
    /\ \A j \in new : \E i \in old : SameCard(i, j) /\ (j.status = "pending" => i.status = "pending")
    /\ \A j, k \in new : j.ticketId = k.ticketId => j = k

\* What a card's field may be set to.
Settable(field, value) ==
  \/ field = "draftText" /\ value \in Bulk!Texts
  \/ field = "assignChecked" /\ value \in BOOLEAN
  \/ field = "status" /\ value \in Bulk!CardStatuses \ {"pending"}

LEMMA CardSet ==
  ASSUME NEW i \in Bulk!Item, NEW field, NEW value, Settable(field, value)
  PROVE  LET j == [i EXCEPT ![field] = value]
         IN  /\ j \in Bulk!Item /\ SameCard(i, j)
             /\ j.status = IF field = "status" THEN value ELSE i.status
  <1>1. CASE field = "draftText" /\ value \in Bulk!Texts
    BY <1>1 DEF Bulk!Item, SameCard
  <1>2. CASE field = "assignChecked" /\ value \in BOOLEAN
    BY <1>2 DEF Bulk!Item, SameCard
  <1>3. CASE field = "status" /\ value \in Bulk!CardStatuses \ {"pending"}
    BY <1>3 DEF Bulk!Item, SameCard
  <1> QED
    BY <1>1, <1>2, <1>3 DEF Settable

\* updateItem() changes the ticket's card and no other.
LEMMA CardsUpdated ==
  ASSUME CardsInv, NEW t, NEW field, NEW value, Settable(field, value),
         items' = Bulk!Updated(t, field, value)
  PROVE  /\ Updates(items', items)
         /\ field = "status" => \A j \in Bulk!Pending' : j.ticketId # t
  <1>1. CASE items = None
    BY <1>1 DEF Bulk!Updated, Updates, Bulk!Pending
  <1>2. CASE items # None
    <2> DEFINE set(i) == IF i.ticketId = t THEN [i EXCEPT ![field] = value] ELSE i
    <2>1. items' = {set(i) : i \in items}
      BY <1>2 DEF Bulk!Updated
    <2>2. items \subseteq Bulk!Item /\ \A i, j \in items : i.ticketId = j.ticketId => i = j
      BY <1>2 DEF CardsInv, Bulk!TypeOK, ListInv
    <2>3. ASSUME NEW i \in items
          PROVE  /\ set(i) \in Bulk!Item /\ SameCard(i, set(i))
                 /\ set(i).status = "pending" => i.status = "pending"
                 /\ field = "status" /\ i.ticketId = t => set(i).status # "pending"
      <3>1. i \in Bulk!Item
        BY <2>2
      <3>2. CASE i.ticketId = t
        <4>1. /\ set(i) \in Bulk!Item /\ SameCard(i, set(i))
              /\ set(i).status = IF field = "status" THEN value ELSE i.status
          BY <3>1, <3>2, CardSet
        <4> QED
          BY <3>2, <4>1 DEF Settable
      <3>3. CASE i.ticketId # t
        BY <3>1, <3>3 DEF SameCard
      <3> QED
        BY <3>2, <3>3
    <2> HIDE DEF set
    <2>4. \A j \in items' : \E i \in items :
            /\ j = set(i) /\ j \in Bulk!Item /\ SameCard(i, j)
            /\ j.status = "pending" => i.status = "pending"
            /\ field = "status" /\ i.ticketId = t => j.status # "pending"
      BY <2>1, <2>3
    <2>5. \A j, k \in items' : j.ticketId = k.ticketId => j = k
      BY <2>2, <2>4 DEF SameCard
    <2>6. Updates(items', items)
      BY <1>2, <2>4, <2>5 DEF Updates
    <2>7. field = "status" => \A j \in Bulk!Pending' : j.ticketId # t
      BY <2>4 DEF Bulk!Pending, SameCard
    <2> QED
      BY <2>6, <2>7
  <1> QED
    BY <1>1, <1>2

\* A pending card of a list updated was pending before.
LEMMA PendingBefore ==
  ASSUME CardsInv, Updates(items', items), NEW j \in Bulk!Pending'
  PROVE  \E i \in Bulk!Pending : SameCard(i, j)
  BY DEF Updates, Bulk!Pending

LEMMA ListKept ==
  ASSUME CardsInv, Updates(items', items), run' = run, assistant' \in {assistant, None}
  PROVE  ListInv' /\ (items' # None => items' \subseteq Bulk!Item)
  BY DEF CardsInv, ListInv, Updates, SameCard

\* A step that posts nothing and begins no approval: cards change, approvals go on
\* or end, and the sweep's cards are fewer or are the pending ones.
LEMMA CardsQuietStep ==
  ASSUME CardsInv, Bulk!TypeOK', Updates(items', items),
         \A q \in queue' : q \in queue \/ q \in Bulk!Pending,
         queue' \subseteq queue \/ queue' \subseteq Bulk!Pending,
         \A b \in approvals' : \E a \in approvals : SameCard(a.item, b.item) /\ a.by = b.by,
         \A b, c \in approvals' : SameCard(b.item, c.item) /\ b.by = c.by => b = c,
         posted' = posted, run' = run, assistant' \in {assistant, None}
  PROVE  CardsInv'
  <1>1. ListInv'
    BY ListKept
  <1>2. \A n : Drawn(n) => Drawn(n)'
    BY DEF Drawn
  <1>3. \A i \in Bulk!Pending : i \in items /\ items # None
    BY DEF Bulk!Pending
  <1>4. \A i \in Bulk!Pending : i.run = run /\ assistant = None
    BY <1>3 DEF CardsInv, ListInv
  <1>5. ApprovalsInv'
    <2>1. \A q, r \in queue' : Drawn(q.run)' /\ (SameCard(q, r) => q = r)
      <3>1. \A q, r \in queue' : SameCard(q, r) => q = r
        BY <1>3 DEF CardsInv, ListInv, ApprovalsInv, SameCard
      <3>2. \A i \in Bulk!Pending : run \in 1 .. run
        BY <1>3, <1>4 DEF CardsInv, Bulk!TypeOK, Bulk!Item
      <3>3. \A q \in queue' : Drawn(q.run)
        BY <1>4, <3>2 DEF CardsInv, ApprovalsInv, Drawn
      <3> QED
        BY <1>2, <3>1, <3>3
    <2>2. \A b \in approvals' : Drawn(b.item.run)' /\ Reply(b.item, b.by) \notin DOMAIN posted
      <3> SUFFICES ASSUME NEW b \in approvals'
                   PROVE  Drawn(b.item.run)' /\ Reply(b.item, b.by) \notin DOMAIN posted
        OBVIOUS
      <3>1. PICK a \in approvals : SameCard(a.item, b.item) /\ a.by = b.by
        OBVIOUS
      <3>2. Drawn(a.item.run) /\ Reply(a.item, a.by) \notin DOMAIN posted
        BY DEF CardsInv, ApprovalsInv
      <3> QED
        BY <1>2, <3>1, <3>2 DEF SameCard, Reply
    <2>3. \A k \in DOMAIN posted' : posted'[k] = 1 /\ Drawn(k[2])'
      BY <1>2 DEF CardsInv, ApprovalsInv
    <2> QED
      BY <2>1, <2>2, <2>3 DEF ApprovalsInv, SameCard, Reply
  <1>6. UnsentInv'
    <2>1. ASSUME NEW j \in Bulk!Pending'
          PROVE  /\ \A b \in approvals' : ~SameCard(b.item, j)
                 /\ \A by \in {"hand", "sweep"} : Reply(j, by) \notin DOMAIN posted'
      <3>1. PICK i \in Bulk!Pending : SameCard(i, j)
        BY PendingBefore
      <3>2. /\ \A a \in approvals : ~SameCard(a.item, i)
            /\ \A by \in {"hand", "sweep"} : Reply(i, by) \notin DOMAIN posted
        BY DEF CardsInv, UnsentInv
      <3> QED
        BY <3>1, <3>2 DEF SameCard, Reply
    <2>2. ASSUME NEW q \in queue'
          PROVE  /\ \A b \in approvals' : SameCard(b.item, q) => b.by = "hand"
                 /\ Reply(q, "sweep") \notin DOMAIN posted'
      <3>1. /\ \A a \in approvals : SameCard(a.item, q) => a.by = "hand"
            /\ Reply(q, "sweep") \notin DOMAIN posted
        BY DEF CardsInv, UnsentInv
      <3> QED
        BY <3>1 DEF SameCard
    <2> QED
      BY <2>1, <2>2 DEF UnsentInv, SameCard, Reply
  <1> QED
    BY <1>1, <1>5, <1>6 DEF CardsInv

LEMMA ListUnchanged ==
  ASSUME CardsInv, items' = items
  PROVE  Updates(items', items)
  BY DEF CardsInv, Bulk!TypeOK, ListInv, Updates, SameCard

\* The user changes a card.
LEMMA CardsEdited ==
  ASSUME CardsInv, NEW item \in Bulk!Pending,
         \/ Bulk!Skip(item)
         \/ \E text \in Bulk!Texts : Bulk!Edit(item, text)
         \/ \E checked \in BOOLEAN : Bulk!Check(item, checked)
  PROVE  CardsInv'
  <1>1. PICK field, value : /\ Settable(field, value)
                            /\ items' = Bulk!Updated(item.ticketId, field, value)
    BY DEF Bulk!Skip, Bulk!Edit, Bulk!Check, Settable, Bulk!CardStatuses
  <1>2. UNCHANGED <<queue, approvingAll, running, run, cards, approvals, assistant, answered,
                    assigned, posted, faults>>
    BY DEF Bulk!Skip, Bulk!Edit, Bulk!Check
  <1>3. Updates(items', items)
    BY <1>1, CardsUpdated
  <1>4. Bulk!TypeOK'
    BY <1>2, <1>3, ListKept DEF CardsInv, Bulk!TypeOK, Bulk!IsABag
  <1>5. \A b, c \in approvals' : SameCard(b.item, c.item) /\ b.by = c.by => b = c
    BY <1>2 DEF CardsInv, ApprovalsInv
  <1> QED
    BY <1>2, <1>3, <1>4, <1>5, CardsQuietStep DEF SameCard

\* The approval of a card begins: pending, or the sweep's next.
LEMMA CardApproved ==
  ASSUME CardsInv, NEW item \in Bulk!Item, NEW by \in {"hand", "sweep"},
         Bulk!Approve(item, by),
         by = "hand" => item \in Bulk!Pending /\ queue' = queue,
         by = "sweep" => item \in queue /\ queue' = queue \ {item},
         UNCHANGED <<approvingAll, running, run, cards, assistant, answered, assigned, posted,
                     faults>>
  PROVE  CardsInv'
  <1>1. PICK status \in {"approving", "approved"} :
          /\ items' = Bulk!Updated(item.ticketId, "status", status)
          /\ \/ approvals' = approvals
             \/ /\ Bulk!FirstStep(item) \in {"assign", "comment"}
                /\ approvals' = approvals \cup
                     {[item |-> item, by |-> by, step |-> Bulk!FirstStep(item)]}
    BY DEF Bulk!Approve, Bulk!FirstStep
  <1>2. Updates(items', items) /\ \A j \in Bulk!Pending' : j.ticketId # item.ticketId
    BY <1>1, CardsUpdated DEF Settable, Bulk!CardStatuses
  <1>3. queue' \subseteq queue
    OBVIOUS
  <1>4. Bulk!TypeOK'
    <2>1. approvals' \subseteq Bulk!Approval
      BY <1>1 DEF CardsInv, Bulk!TypeOK, Bulk!Approval
    <2> QED
      BY <1>2, <1>3, <2>1, ListKept DEF CardsInv, Bulk!TypeOK, Bulk!IsABag
  <1>5. CASE approvals' = approvals
    <2>1. \A b, c \in approvals' : SameCard(b.item, c.item) /\ b.by = c.by => b = c
      BY <1>5 DEF CardsInv, ApprovalsInv
    <2> QED
      BY <1>2, <1>3, <1>4, <1>5, <2>1, CardsQuietStep DEF SameCard
  <1>6. ASSUME NEW new, new.item = item, new.by = by, approvals' = approvals \cup {new}
        PROVE  CardsInv'
    <2>1. /\ Drawn(item.run) /\ Reply(item, by) \notin DOMAIN posted
          /\ \A a \in approvals : ~(SameCard(a.item, item) /\ a.by = by)
      <3>1. CASE by = "hand"
        <4>1. item \in items /\ items # None
          BY <3>1 DEF Bulk!Pending
        <4>2. item.run = run /\ assistant = None /\ run \in 1 .. run
          BY <4>1 DEF CardsInv, ListInv, Bulk!TypeOK, Bulk!Item
        <4> QED
          BY <3>1, <4>2 DEF CardsInv, UnsentInv, Drawn
      <3>2. CASE by = "sweep"
        BY <3>2 DEF CardsInv, UnsentInv, ApprovalsInv
      <3> QED
        BY <3>1, <3>2
    <2>2. ListInv'
      BY <1>2, ListKept
    <2>3. \A n : Drawn(n)' <=> Drawn(n)
      BY DEF Drawn
    <2>4. ApprovalsInv'
      <3>1. \A q, r \in queue' : Drawn(q.run)' /\ (SameCard(q, r) => q = r)
        BY <1>3, <2>3 DEF CardsInv, ApprovalsInv
      <3>2. \A a, b \in approvals' : /\ Drawn(a.item.run)'
                                     /\ SameCard(a.item, b.item) /\ a.by = b.by => a = b
        BY <1>6, <2>1, <2>3 DEF CardsInv, ApprovalsInv, SameCard
      <3>3. \A a \in approvals' : Reply(a.item, a.by) \notin DOMAIN posted'
        BY <1>6, <2>1 DEF CardsInv, ApprovalsInv
      <3>4. \A k \in DOMAIN posted' : posted'[k] = 1 /\ Drawn(k[2])'
        BY <2>3 DEF CardsInv, ApprovalsInv
      <3> QED
        BY <3>1, <3>2, <3>3, <3>4 DEF ApprovalsInv, SameCard, Reply
    <2>5. UnsentInv'
      <3>1. ASSUME NEW j \in Bulk!Pending'
            PROVE  /\ \A b \in approvals' : ~SameCard(b.item, j)
                   /\ \A w \in {"hand", "sweep"} : Reply(j, w) \notin DOMAIN posted'
        <4>1. PICK i \in Bulk!Pending : SameCard(i, j)
          BY <1>2, PendingBefore
        <4>2. /\ \A a \in approvals : ~SameCard(a.item, i)
              /\ \A w \in {"hand", "sweep"} : Reply(i, w) \notin DOMAIN posted
          BY DEF CardsInv, UnsentInv
        <4>3. ~SameCard(new.item, j)
          BY <1>2, <1>6 DEF SameCard
        <4> QED
          BY <1>6, <4>1, <4>2, <4>3 DEF SameCard, Reply
      <3>2. ASSUME NEW q \in queue'
            PROVE  /\ \A b \in approvals' : SameCard(b.item, q) => b.by = "hand"
                   /\ Reply(q, "sweep") \notin DOMAIN posted'
        <4>1. /\ \A a \in approvals : SameCard(a.item, q) => a.by = "hand"
              /\ Reply(q, "sweep") \notin DOMAIN posted
          BY <1>3 DEF CardsInv, UnsentInv
        <4>2. by = "sweep" => ~SameCard(item, q)
          BY <1>3 DEF CardsInv, ApprovalsInv
        <4> QED
          BY <1>6, <4>1, <4>2
      <3> QED
        BY <3>1, <3>2 DEF UnsentInv, SameCard, Reply
    <2> QED
      BY <1>4, <2>2, <2>4, <2>5 DEF CardsInv
  <1> QED
    BY <1>1, <1>5, <1>6

\* The reply of an approval is posted, for the first time.
LEMMA ReplyPosted ==
  ASSUME CardsInv, NEW a \in approvals, Bulk!Post(a)
  PROVE  LET k == Reply(a.item, a.by)
         IN  /\ Bulk!IsABag(posted') /\ DOMAIN posted' = DOMAIN posted \cup {k}
             /\ k \notin DOMAIN posted /\ posted'[k] = 1
             /\ \A other \in DOMAIN posted : posted'[other] = posted[other]
  <1> DEFINE k == Reply(a.item, a.by)
             more == Bulk!(+)(posted, Bulk!SetToBag({k}))
  <1>1. k \notin DOMAIN posted /\ \A n \in DOMAIN posted : posted[n] = 1
    BY DEF CardsInv, ApprovalsInv
  <1>2. posted' = more
    BY DEF Bulk!Post, Reply
  <1> HIDE DEF k
  <1>3. /\ DOMAIN more = DOMAIN posted \cup {k}
        /\ \A n \in DOMAIN more :
             more[n] = (IF n \in DOMAIN posted THEN posted[n] ELSE 0) + (IF n \in {k} THEN 1 ELSE 0)
        /\ more = [n \in DOMAIN more |-> more[n]]
    BY DEF Bulk!(+), Bulk!SetToBag
  <1> HIDE DEF more
  <1>4. \A n \in DOMAIN more : more[n] = 1
    BY <1>1, <1>3
  <1>5. Bulk!IsABag(more)
    BY <1>3, <1>4 DEF Bulk!IsABag
  <1> QED
    BY <1>1, <1>2, <1>3, <1>4, <1>5 DEF k

LEMMA CardsPostStep ==
  ASSUME CardsInv, Bulk!TypeOK', NEW a \in approvals, Bulk!Post(a),
         approvals' = approvals \ {a}, Updates(items', items),
         UNCHANGED <<queue, run, assistant>>
  PROVE  CardsInv'
  <1> DEFINE k == Reply(a.item, a.by)
  <1>1. /\ DOMAIN posted' = DOMAIN posted \cup {k} /\ posted'[k] = 1
        /\ \A other \in DOMAIN posted : posted'[other] = posted[other]
    BY ReplyPosted
  <1>2. Drawn(a.item.run) /\ k[2] = a.item.run
    BY DEF CardsInv, ApprovalsInv, Reply
  <1>3. \A n : Drawn(n)' <=> Drawn(n)
    BY DEF Drawn
  <1>4. \A i : Reply(i, a.by) = k => SameCard(a.item, i)
    BY DEF Reply, SameCard
  <1>5. \A i, w : Reply(i, w) = k => SameCard(a.item, i) /\ w = a.by
    BY DEF Reply, SameCard
  <1> HIDE DEF k
  <1>6. ListInv'
    BY ListKept
  <1>7. ApprovalsInv'
    <2>1. \A q, r \in queue' : Drawn(q.run)' /\ (SameCard(q, r) => q = r)
      BY <1>3 DEF CardsInv, ApprovalsInv
    <2>2. \A b, c \in approvals' : /\ Drawn(b.item.run)'
                                   /\ SameCard(b.item, c.item) /\ b.by = c.by => b = c
      BY <1>3 DEF CardsInv, ApprovalsInv
    <2>3. ASSUME NEW b \in approvals'
          PROVE  Reply(b.item, b.by) \notin DOMAIN posted'
      <3>1. b \in approvals /\ b # a /\ Reply(b.item, b.by) \notin DOMAIN posted
        BY DEF CardsInv, ApprovalsInv
      <3>2. Reply(b.item, b.by) # k
        BY <1>5, <3>1 DEF CardsInv, ApprovalsInv
      <3> QED
        BY <1>1, <3>1, <3>2
    <2>4. \A n \in DOMAIN posted' : posted'[n] = 1 /\ Drawn(n[2])'
      BY <1>1, <1>2, <1>3 DEF CardsInv, ApprovalsInv
    <2> QED
      BY <2>1, <2>2, <2>3, <2>4 DEF ApprovalsInv, SameCard, Reply
  <1>8. UnsentInv'
    <2>1. ASSUME NEW j \in Bulk!Pending'
          PROVE  /\ \A b \in approvals' : ~SameCard(b.item, j)
                 /\ \A w \in {"hand", "sweep"} : Reply(j, w) \notin DOMAIN posted'
      <3>1. PICK i \in Bulk!Pending : SameCard(i, j)
        BY PendingBefore
      <3>2. /\ \A b \in approvals : ~SameCard(b.item, i)
            /\ \A w \in {"hand", "sweep"} : Reply(i, w) \notin DOMAIN posted
        BY DEF CardsInv, UnsentInv
      <3>3. \A b \in approvals : ~SameCard(b.item, j)
        BY <3>1, <3>2 DEF SameCard
      <3>4. \A w \in {"hand", "sweep"} : Reply(j, w) = Reply(i, w) /\ Reply(j, w) # k
        BY <1>5, <3>1, <3>3 DEF Reply, SameCard
      <3> QED
        BY <1>1, <3>2, <3>3, <3>4
    <2>2. ASSUME NEW q \in queue'
          PROVE  /\ \A b \in approvals' : SameCard(b.item, q) => b.by = "hand"
                 /\ Reply(q, "sweep") \notin DOMAIN posted'
      <3>1. /\ \A b \in approvals : SameCard(b.item, q) => b.by = "hand"
            /\ Reply(q, "sweep") \notin DOMAIN posted
        BY DEF CardsInv, UnsentInv
      <3>2. Reply(q, "sweep") # k
        BY <1>5, <3>1
      <3> QED
        BY <1>1, <3>1, <3>2
    <2> QED
      BY <2>1, <2>2 DEF UnsentInv, SameCard, Reply
  <1> QED
    BY <1>6, <1>7, <1>8 DEF CardsInv

\* The assistant is run: the list goes, and what is left is of earlier runs.
LEMMA CardsRun ==
  ASSUME CardsInv, Bulk!OnRun
  PROVE  CardsInv'
  <1>1. /\ run < MaxCards /\ run' = run + 1 /\ items' = None
        /\ cards' = cards + Bulk!Cardinality(Tickets \ answered) /\ cards' <= MaxCards
        /\ running' = TRUE
        /\ assistant' = [tickets |-> Tickets \ answered, assigned |-> assigned]
        /\ UNCHANGED <<queue, approvingAll, approvals, answered, assigned, posted, faults>>
    BY DEF Bulk!OnRun
  <1>2. /\ run \in Nat /\ MaxCards \in Nat /\ cards \in Nat
        /\ Bulk!Cardinality(Tickets \ answered) \in Nat
    <2>1. Cardinality(Tickets \ answered) \in Nat
      BY BoundAssumption, FS_Difference, FS_CardinalityType
    <2>2. Bulk!Cardinality(Tickets \ answered) = Cardinality(Tickets \ answered)
      BY Zenon DEF Cardinality, Bulk!Cardinality
    <2> QED
      BY <2>1, <2>2, BoundAssumption DEF CardsInv, Bulk!TypeOK
  <1>3. Bulk!TypeOK'
    <2>1. run' \in 0 .. MaxCards /\ cards' \in 0 .. MaxCards
      BY <1>1, <1>2
    <2> QED
      BY <1>1, <2>1 DEF CardsInv, Bulk!TypeOK, Bulk!IsABag
  <1>4. ListInv'
    BY <1>1, <1>2 DEF ListInv
  <1>5. \A n : Drawn(n) => Drawn(n)'
    BY <1>1, <1>2 DEF Drawn
  <1>6. Bulk!Pending' = {}
    BY <1>1 DEF Bulk!Pending
  <1>7. ApprovalsInv'
    BY <1>1, <1>5 DEF CardsInv, ApprovalsInv, SameCard, Reply
  <1>8. UnsentInv'
    BY <1>1, <1>6 DEF CardsInv, UnsentInv, SameCard, Reply
  <1> QED
    BY <1>3, <1>4, <1>7, <1>8 DEF CardsInv

\* The assistant's answer: cards of this run, of which nothing is under way yet.
LEMMA CardsArrive ==
  ASSUME CardsInv, Bulk!ItemsArrive
  PROVE  CardsInv'
  <1>1. PICK drafted \in SUBSET assistant.tickets,
             suggested \in SUBSET (assistant.tickets \ assistant.assigned) :
          items' = {Bulk!NewItem(t, drafted, suggested) : t \in assistant.tickets}
    BY DEF Bulk!ItemsArrive
  <1>2. /\ assistant # None /\ assistant' = None /\ running' = FALSE
        /\ UNCHANGED <<queue, approvingAll, run, cards, approvals, answered, assigned, posted,
                       faults>>
    BY DEF Bulk!ItemsArrive
  <1>3. /\ assistant.tickets \subseteq Tickets /\ run \in 1 .. MaxCards
        /\ run \in Nat
    BY <1>2, BoundAssumption DEF CardsInv, ListInv, Bulk!TypeOK
  <1>4. ASSUME NEW t \in assistant.tickets
        PROVE  LET i == Bulk!NewItem(t, drafted, suggested)
               IN  i \in Bulk!Item /\ i.run = run /\ i.ticketId = t
    <2> DEFINE text == IF t \in drafted THEN "text" ELSE ""
               known == t \in suggested
               i == Bulk!NewItem(t, drafted, suggested)
    <2>1. /\ i = [ticketId |-> t, run |-> run, draftText |-> text, suggestedAgent |-> known,
                  assignChecked |-> known, status |-> "pending"]
          /\ text \in Bulk!Texts /\ known \in BOOLEAN
      BY DEF Bulk!Texts, Bulk!NewItem
    <2> HIDE DEF text, known, i
    <2>2. i \in Bulk!Item /\ i.run = run /\ i.ticketId = t
      BY <1>3, <2>1 DEF Bulk!Item, Bulk!CardStatuses
    <2> QED
      BY <2>2 DEF i
  <1>5. /\ \A i \in items' : i \in Bulk!Item /\ i.run = run
        /\ \A i, j \in items' : i.ticketId = j.ticketId => i = j
    BY <1>1, <1>4
  <1>6. Bulk!TypeOK'
    BY <1>2, <1>5 DEF CardsInv, Bulk!TypeOK, Bulk!IsABag
  <1>7. ListInv'
    BY <1>2, <1>5 DEF ListInv
  <1>8. \A n : Drawn(n) => Drawn(n)' /\ n # run
    BY <1>2 DEF Drawn
  <1>9. ApprovalsInv'
    BY <1>2, <1>8 DEF CardsInv, ApprovalsInv, SameCard, Reply
  <1>10. UnsentInv'
    <2>1. ASSUME NEW j \in Bulk!Pending'
          PROVE  /\ \A b \in approvals' : ~SameCard(b.item, j)
                 /\ \A w \in {"hand", "sweep"} : Reply(j, w) \notin DOMAIN posted'
      <3>1. j.run = run
        BY <1>5 DEF Bulk!Pending
      <3>2. \A w : Reply(j, w)[2] = run
        BY <3>1 DEF Reply
      <3> QED
        BY <1>2, <1>8, <3>1, <3>2 DEF CardsInv, ApprovalsInv, SameCard
    <2> QED
      BY <1>2, <2>1 DEF CardsInv, UnsentInv, SameCard, Reply
  <1> QED
    BY <1>6, <1>7, <1>9, <1>10 DEF CardsInv

\* What leaves the cards, the approvals and the replies as they are: the run fails,
\* a sweep begins or ends.
LEMMA CardsOther ==
  ASSUME CardsInv, Bulk!RunFails \/ Bulk!OnApproveAll \/ Bulk!SweepEnd
  PROVE  CardsInv'
  <1>1. /\ UNCHANGED <<items, run, cards, approvals, answered, assigned, posted>>
        /\ queue' = queue \/ queue' = Bulk!Pending
        /\ assistant' \in {assistant, None}
        /\ approvingAll' \in {approvingAll, TRUE, FALSE} /\ running' \in {running, FALSE}
        /\ faults' \in {faults, faults + 1}
    BY DEF Bulk!RunFails, Bulk!OnApproveAll, Bulk!SweepEnd
  <1>2. Bulk!Pending \subseteq Bulk!Item
    BY DEF CardsInv, Bulk!TypeOK, Bulk!Pending
  <1>3. Bulk!TypeOK'
    <2>1. faults' \in Nat
      BY <1>1 DEF CardsInv, Bulk!TypeOK
    <2> QED
      BY <1>1, <1>2, <2>1 DEF CardsInv, Bulk!TypeOK, Bulk!IsABag
  <1>4. \A b, c \in approvals' : SameCard(b.item, c.item) /\ b.by = c.by => b = c
    BY <1>1 DEF CardsInv, ApprovalsInv
  <1>5. Updates(items', items)
    BY <1>1, ListUnchanged
  <1> QED
    BY <1>1, <1>3, <1>4, <1>5, CardsQuietStep DEF SameCard

\* An assignment has been made: the reply follows, or the approval is over.
LEMMA CardsAssigned ==
  ASSUME CardsInv, NEW a \in approvals, Bulk!AssignAnswered(a)
  PROVE  CardsInv'
  <1> DEFINE next == [a EXCEPT !.step = "comment"]
  <1>1. /\ assigned' = assigned \cup {a.item.ticketId}
        /\ UNCHANGED <<queue, approvingAll, running, run, cards, assistant, answered, posted, faults>>
        /\ \/ approvals' = (approvals \ {a}) \cup {next} /\ items' = items
           \/ /\ approvals' = approvals \ {a}
              /\ items' = Bulk!Updated(a.item.ticketId, "status", "approved")
    BY DEF Bulk!AssignAnswered
  <1>2. a \in Bulk!Approval /\ a.item.ticketId \in Tickets
    BY DEF CardsInv, Bulk!TypeOK, Bulk!Approval, Bulk!Item
  <1>3. next \in Bulk!Approval /\ next.item = a.item /\ next.by = a.by
    BY <1>2 DEF Bulk!Approval
  <1> HIDE DEF next
  <1>4. Updates(items', items)
    BY <1>1, ListUnchanged, CardsUpdated DEF Settable, Bulk!CardStatuses
  <1>5. Bulk!TypeOK'
    <2>1. approvals' \subseteq Bulk!Approval /\ assigned' \subseteq Tickets
      BY <1>1, <1>2, <1>3 DEF CardsInv, Bulk!TypeOK
    <2> QED
      BY <1>1, <1>4, <2>1, ListKept DEF CardsInv, Bulk!TypeOK, Bulk!IsABag
  <1>6. /\ \A b \in approvals' : \E c \in approvals : SameCard(c.item, b.item) /\ c.by = b.by
        /\ \A b, c \in approvals' : SameCard(b.item, c.item) /\ b.by = c.by => b = c
    BY <1>1, <1>3 DEF CardsInv, ApprovalsInv, SameCard
  <1> QED
    BY <1>1, <1>4, <1>5, <1>6, CardsQuietStep

\* A reply has been posted, with an answer or without; or an approval has failed.
LEMMA CardsAnswered ==
  ASSUME CardsInv, NEW a \in approvals, Bulk!CommentAnswered(a) \/ Bulk!ApprovalFails(a)
  PROVE  CardsInv'
  <1>1. PICK status \in {"approved", "error"} :
          items' = Bulk!Updated(a.item.ticketId, "status", status)
    BY DEF Bulk!CommentAnswered, Bulk!ApprovalFails
  <1>2. /\ approvals' = approvals \ {a}
        /\ UNCHANGED <<queue, approvingAll, running, run, cards, assistant>>
        /\ assigned' \subseteq assigned \cup {a.item.ticketId}
        /\ \/ posted' = posted /\ answered' = answered
           \/ Bulk!Post(a)
        /\ faults' \in Nat
    BY DEF CardsInv, Bulk!TypeOK, Bulk!CommentAnswered, Bulk!ApprovalFails
  <1>3. a.item.ticketId \in Tickets
    BY DEF CardsInv, Bulk!TypeOK, Bulk!Approval, Bulk!Item
  <1>4. Updates(items', items)
    BY <1>1, CardsUpdated DEF Settable, Bulk!CardStatuses
  <1>5. Bulk!IsABag(posted') /\ answered' \subseteq Tickets
    <2>1. CASE posted' = posted /\ answered' = answered
      BY <2>1 DEF CardsInv, Bulk!TypeOK, Bulk!IsABag
    <2>2. CASE Bulk!Post(a)
      BY <1>3, <2>2, ReplyPosted DEF CardsInv, Bulk!TypeOK, Bulk!Post
    <2> QED
      BY <1>2, <2>1, <2>2
  <1>6. Bulk!TypeOK'
    BY <1>2, <1>3, <1>4, <1>5, ListKept DEF CardsInv, Bulk!TypeOK, Bulk!IsABag
  <1>7. CASE posted' = posted
    <2>1. \A b, c \in approvals' : SameCard(b.item, c.item) /\ b.by = c.by => b = c
      BY <1>2 DEF CardsInv, ApprovalsInv
    <2> QED
      BY <1>2, <1>4, <1>6, <1>7, <2>1, CardsQuietStep DEF SameCard
  <1>8. CASE Bulk!Post(a)
    BY <1>2, <1>4, <1>6, <1>8, CardsPostStep
  <1> QED
    BY <1>2, <1>7, <1>8

LEMMA CardsStep == CardsInv /\ Bulk!Next => CardsInv'
  <1> SUFFICES ASSUME CardsInv, Bulk!Next PROVE CardsInv'
    OBVIOUS
  <1>1. ASSUME NEW item \in Bulk!Pending, Bulk!ApproveOne(item) PROVE CardsInv'
    <2>1. item \in Bulk!Item
      BY DEF CardsInv, Bulk!TypeOK, Bulk!Pending
    <2>2. /\ Bulk!Approve(item, "hand") /\ queue' = queue
          /\ UNCHANGED <<approvingAll, running, run, cards, assistant, answered, assigned, posted,
                         faults>>
      BY <1>1 DEF Bulk!ApproveOne
    <2> QED
      BY <2>1, <2>2, CardApproved
  <1>2. ASSUME NEW item \in queue, Bulk!SweepNext(item) PROVE CardsInv'
    <2>1. item \in Bulk!Item
      BY DEF CardsInv, Bulk!TypeOK
    <2>2. /\ Bulk!Approve(item, "sweep") /\ queue' = queue \ {item}
          /\ UNCHANGED <<approvingAll, running, run, cards, assistant, answered, assigned, posted,
                         faults>>
      BY <1>2 DEF Bulk!SweepNext
    <2> QED
      BY <2>1, <2>2, CardApproved
  <1>3. ASSUME NEW item \in Bulk!Pending, Bulk!Check(item, ~item.assignChecked) PROVE CardsInv'
    <2>1. (~item.assignChecked) \in BOOLEAN
      BY DEF CardsInv, Bulk!TypeOK, Bulk!Pending, Bulk!Item
    <2> QED
      BY <1>3, <2>1, CardsEdited
  <1>4. ASSUME NEW item \in Bulk!Pending,
               Bulk!Skip(item) \/ \E text \in Bulk!Texts \ {item.draftText} : Bulk!Edit(item, text)
        PROVE  CardsInv'
    BY <1>4, CardsEdited
  <1>5. CASE Bulk!Choose
    BY <1>1, <1>3, <1>4, <1>5, CardsRun, CardsOther DEF Bulk!Choose
  <1>6. ASSUME NEW a \in approvals, Bulk!Answer(a) PROVE CardsInv'
    BY <1>6, CardsAssigned, CardsAnswered DEF Bulk!Answer
  <1> QED
    BY <1>2, <1>5, <1>6, CardsArrive, CardsOther DEF Bulk!Next

LEMMA CardsUnchanged ==
  ASSUME CardsInv, UNCHANGED bulkVars, faults' \in Nat
  PROVE  CardsInv'
  BY DEF bulkVars, CardsInv, Bulk!TypeOK, Bulk!IsABag, ListInv, ApprovalsInv, UnsentInv,
     Bulk!Pending, Drawn, SameCard, Reply

\* The failures are counted by whichever component runs.
LEMMA FaultsCounted ==
  ASSUME [Next]_vars
  PROVE  faults' \in {faults, faults + 1}
  <1>1. CASE BulkStep
    BY <1>1 DEF BulkStep, Bulk!Next, Bulk!Choose, Bulk!Answer, Bulk!OnRun, Bulk!OnApproveAll,
       Bulk!Skip, Bulk!ApproveOne, Bulk!Edit, Bulk!Check, Bulk!ItemsArrive, Bulk!RunFails,
       Bulk!SweepEnd, Bulk!SweepNext, Bulk!AssignAnswered, Bulk!CommentAnswered,
       Bulk!ApprovalFails
  <1>2. CASE InThread(Thread!Next)
    BY <1>2 DEF InThread, Thread!Next, Thread!Poll, Thread!Add, Thread!Reading, Thread!Serve,
       Thread!Loaded, Thread!LoadFails, Thread!SaveBlob, Thread!Store, Thread!Added,
       Thread!AddFails
  <1>3. CASE StaffStep
    BY <1>3 DEF StaffStep, Staff!Next, Staff!Step, Staff!StaffSignupPage, Staff!StaffLoginPage,
         Staff!CreateUserPage, Staff!TicketPages, Staff!Ask, Staff!FindUser, Staff!CreateUser,
         Staff!CreateCredential, Staff!Login, Staff!FindCustomer, Staff!CreateCustomer,
         Staff!FindOrCreateByEmail, Staff!FindRequester, Staff!UpsertForStaff, Staff!Fail
  <1>4. CASE UNCHANGED vars
    BY <1>4 DEF vars
  <1> QED
    BY <1>1, <1>2, <1>3, <1>4 DEF Next

LEMMA SpecCardsInv == Spec => []CardsInv
  <1>1. Init => CardsInv
    <2> SUFFICES ASSUME Init PROVE CardsInv
      OBVIOUS
    <2>1. Bulk!Init
      BY DEF Init
    <2>2. posted = [k \in {} |-> 0] /\ DOMAIN posted = {}
      BY <2>1 DEF Bulk!Init, Bulk!EmptyBag, Bulk!SetToBag
    <2>3. Bulk!IsABag(posted)
      BY <2>2 DEF Bulk!IsABag
    <2>4. /\ items = None /\ queue = {} /\ run = 0 /\ cards = 0 /\ approvals = {}
          /\ assistant = None
          /\ answered \in SUBSET Tickets /\ assigned = {} /\ faults = 0
          /\ approvingAll = FALSE /\ running = FALSE
      BY <2>1 DEF Bulk!Init
    <2>5. 0 \in 0 .. MaxCards
      BY BoundAssumption
    <2>6. Bulk!TypeOK
      BY <2>3, <2>4, <2>5 DEF Bulk!TypeOK
    <2>7. ListInv /\ ApprovalsInv /\ UnsentInv
      BY <2>2, <2>4 DEF ListInv, ApprovalsInv, UnsentInv, Bulk!Pending
    <2> QED
      BY <2>6, <2>7 DEF CardsInv
  <1>2. CardsInv /\ [Next]_vars => CardsInv'
    <2> SUFFICES ASSUME CardsInv, [Next]_vars PROVE CardsInv'
      OBVIOUS
    <2>1. faults' \in Nat
      <3>1. faults' \in {faults, faults + 1} /\ faults \in Nat
        BY FaultsCounted DEF CardsInv, Bulk!TypeOK
      <3> QED
        BY <3>1
    <2>2. CASE BulkStep
      BY <2>2, CardsStep DEF BulkStep
    <2>3. CASE UNCHANGED bulkVars
      BY <2>1, <2>3, CardsUnchanged
    <2>4. BulkStep \/ UNCHANGED bulkVars
      BY DEF Next, vars, StaffStep, InThread
    <2> QED
      BY <2>2, <2>3, <2>4
  <1> QED
    BY <1>1, <1>2, PTL DEF Spec

\* From one list (BulkAssistPage) a ticket is replied to once by its card and once by
\* a sweep at most, whatever fails and however the two and a new run overlap.
THEOREM RepliesSentOnce == Spec => []SentOnceEachWay
  <1>1. CardsInv => SentOnceEachWay
    BY DEF CardsInv, ApprovalsInv, SentOnceEachWay, Bulk!SentOnceEachWay, Bulk!BagToSet
  <1> QED
    BY <1>1, SpecCardsInv, PTL
-----------------------------------------------------------------------------
(* Induction: a least counterexample, as the library's theorem about well-founded
   relations has it (its other theorems take an operator, which no prover here can
   instantiate), and what the recursive function of Public returns. *)

LEMMA LeastNumber ==
  ASSUME NEW S, S \subseteq Nat, S # {}
  PROVE  \E n \in S : \A m \in S : n <= m
  <1> DEFINE Less == {pair \in Nat \X Nat : pair[1] < pair[2]}
  <1>1. IsWellFoundedOn(Less, Nat)
    BY NatLessThanWellFounded, Zenon DEF OpToRel
  <1>2. \A n, m \in Nat : n < m => <<n, m>> \in Less
    BY DEF Less
  <1> HIDE DEF Less
  <1>3. PICK n \in S : \A m \in S : <<m, n>> \notin Less
    BY <1>1, WFMin
  <1>4. ASSUME NEW m \in S PROVE n <= m
    <2>1. n \in Nat /\ m \in Nat /\ ~(m < n)
      BY <1>2, <1>3
    <2> QED
      BY <2>1
  <1> QED
    BY <1>4

LEMMA Induction ==
  ASSUME NEW S, 0 \in S, \A n \in Nat : n \in S => n + 1 \in S
  PROVE  Nat \subseteq S
  <1> SUFFICES ASSUME Nat \ S # {} PROVE FALSE
    OBVIOUS
  <1>1. PICK n \in Nat \ S : \A m \in Nat \ S : n <= m
    BY LeastNumber
  <1>2. n # 0 /\ n - 1 \in Nat
    BY <1>1
  <1>3. n - 1 \in S /\ (n - 1) + 1 = n
    BY <1>1, <1>2
  <1> QED
    BY <1>1, <1>2, <1>3

\* f goes through the first n rows as Public does.
Selects(f, rows, n) ==
  f = [i \in 0 .. n |->
         IF i = 0 THEN <<>>
         ELSE IF rows[i].visibility = "PUBLIC" THEN Append(f[i - 1], rows[i])
         ELSE f[i - 1]]

LEMMA SelectionExists ==
  ASSUME NEW rows
  PROVE  \A n \in Nat : \E f : Selects(f, rows, n)
  <1> DEFINE S == {n \in Nat : \E f : Selects(f, rows, n)}
  <1>1. 0 \in S
    <2>1. Selects([i \in 0 .. 0 |-> <<>>], rows, 0)
      BY DEF Selects
    <2> QED
      BY <2>1
  <1>2. ASSUME NEW n \in Nat, n \in S PROVE n + 1 \in S
    <2>1. PICK f : Selects(f, rows, n)
      BY <1>2
    <2> DEFINE last == IF rows[n + 1].visibility = "PUBLIC" THEN Append(f[n], rows[n + 1])
                       ELSE f[n]
               g == [i \in 0 .. n + 1 |-> IF i = n + 1 THEN last ELSE f[i]]
    <2>2. /\ g = [i \in 0 .. n + 1 |-> g[i]]
          /\ g[n + 1] = last /\ \A i \in 0 .. n : g[i] = f[i]
      OBVIOUS
    <2> HIDE DEF g
    <2>3. ASSUME NEW i \in 0 .. n + 1
          PROVE  g[i] = IF i = 0 THEN <<>>
                        ELSE IF rows[i].visibility = "PUBLIC" THEN Append(g[i - 1], rows[i])
                        ELSE g[i - 1]
      <3>1. CASE i \in 0 .. n
        <4>1. i = 0 \/ i - 1 \in 0 .. n
          BY <3>1
        <4>2. f[i] = IF i = 0 THEN <<>>
                     ELSE IF rows[i].visibility = "PUBLIC" THEN Append(f[i - 1], rows[i])
                     ELSE f[i - 1]
          BY <2>1, <3>1 DEF Selects
        <4> QED
          BY <2>2, <3>1, <4>1, <4>2
      <3>2. CASE i = n + 1
        <4>1. i # 0 /\ i - 1 = n /\ n \in 0 .. n
          BY <3>2
        <4> QED
          BY <2>2, <3>2, <4>1
      <3> QED
        BY <3>1, <3>2
    <2>4. Selects(g, rows, n + 1)
      BY <2>2, <2>3, Zenon DEF Selects
    <2> QED
      BY <2>4
  <1> HIDE DEF S
  <1>3. Nat \subseteq S
    BY <1>1, <1>2, Induction
  <1> QED
    BY <1>3 DEF S

LEMMA PublicSelects ==
  ASSUME NEW rows, Len(rows) \in Nat
  PROVE  \E f : Selects(f, rows, Len(rows)) /\ Thread!Public(rows) = f[Len(rows)]
  <1> DEFINE f == CHOOSE f : Selects(f, rows, Len(rows))
  <1>1. Selects(f, rows, Len(rows))
    BY SelectionExists
  <1>2. Thread!Public(rows) = f[Len(rows)]
    BY DEF Thread!Public, Selects
  <1> HIDE DEF f
  <1> QED
    BY <1>1, <1>2

\* The sequence s has the public ones of the first n rows, each once if the rows are
\* different.
PublicOf(s, rows, n) ==
  /\ \A i \in DOMAIN s : s[i].visibility = "PUBLIC" /\ \E j \in 1 .. n : s[i] = rows[j]
  /\ \A j \in 1 .. n : rows[j].visibility = "PUBLIC" => \E i \in DOMAIN s : s[i] = rows[j]
  /\ Thread!IsInjective(rows) => Thread!IsInjective(s)

\* What the requester is given of the comments: the public ones, each once.
LEMMA PublicRows ==
  ASSUME NEW T, NEW rows \in Seq(T)
  PROVE  Thread!Public(rows) \in Seq(T) /\ PublicOf(Thread!Public(rows), rows, Len(rows))
  <1>1. Len(rows) \in Nat /\ DOMAIN rows = 1 .. Len(rows) /\ \A j \in 1 .. Len(rows) : rows[j] \in T
    BY LenProperties, ElementOfSeq
  <1>2. PICK f : Selects(f, rows, Len(rows)) /\ Thread!Public(rows) = f[Len(rows)]
    BY <1>1, PublicSelects
  <1> DEFINE S == {n \in Nat : n <= Len(rows) => f[n] \in Seq(T) /\ PublicOf(f[n], rows, n)}
  <1>3. 0 \in S
    <2>1. f[0] = <<>>
      BY <1>1, <1>2 DEF Selects
    <2>2. <<>> \in Seq(T) /\ DOMAIN <<>> = {} /\ 1 .. 0 = {}
      OBVIOUS
    <2>3. PublicOf(<<>>, rows, 0)
      BY <2>2 DEF PublicOf, Thread!IsInjective
    <2> QED
      BY <2>1, <2>2, <2>3
  <1>4. ASSUME NEW n \in Nat, n \in S PROVE n + 1 \in S
    <2> SUFFICES ASSUME n + 1 <= Len(rows)
                 PROVE  f[n + 1] \in Seq(T) /\ PublicOf(f[n + 1], rows, n + 1)
      OBVIOUS
    <2>1. n <= Len(rows) /\ n + 1 \in 1 .. Len(rows) /\ (n + 1) - 1 = n /\ n + 1 # 0
      BY <1>1
    <2>2. f[n] \in Seq(T) /\ PublicOf(f[n], rows, n)
      BY <1>4, <2>1
    <2>3. f[n + 1] = IF rows[n + 1].visibility = "PUBLIC" THEN Append(f[n], rows[n + 1]) ELSE f[n]
      <3>1. n + 1 \in 0 .. Len(rows)
        BY <2>1
      <3>2. f[n + 1] = IF n + 1 = 0 THEN <<>>
                       ELSE IF rows[n + 1].visibility = "PUBLIC"
                            THEN Append(f[(n + 1) - 1], rows[n + 1])
                            ELSE f[(n + 1) - 1]
        BY <1>2, <3>1, Zenon DEF Selects
      <3> QED
        BY <2>1, <3>2
    <2>4. 1 .. n + 1 = (1 .. n) \cup {n + 1} /\ 1 .. n \subseteq DOMAIN rows /\ n + 1 \in DOMAIN rows
          /\ n + 1 \notin 1 .. n
      BY <1>1, <2>1
    <2>5. CASE rows[n + 1].visibility # "PUBLIC"
      BY <2>2, <2>3, <2>4, <2>5 DEF PublicOf
    <2>6. CASE rows[n + 1].visibility = "PUBLIC"
      <3> DEFINE s == f[n]
                 e == rows[n + 1]
                 more == Append(s, e)
      <3>1. f[n + 1] = more /\ s \in Seq(T) /\ e \in T
        BY <1>1, <2>1, <2>2, <2>3, <2>6
      <3>2. /\ more \in Seq(T) /\ Len(s) \in Nat /\ DOMAIN s = 1 .. Len(s)
            /\ DOMAIN more = 1 .. Len(s) + 1 /\ more[Len(s) + 1] = e
            /\ \A i \in 1 .. Len(s) : more[i] = s[i]
        BY <3>1, AppendProperties, LenProperties
      <3>3. DOMAIN more = DOMAIN s \cup {Len(s) + 1}
        BY <3>2
      <3>4. PublicOf(s, rows, n) /\ e.visibility = "PUBLIC" /\ e = rows[n + 1]
        BY <2>2, <2>6
      <3> HIDE DEF s, e, more
      <3>5. Thread!IsInjective(rows) => \A i \in DOMAIN s : s[i] # e
        BY <2>4, <3>4 DEF PublicOf, Thread!IsInjective
      <3>6. \A i \in DOMAIN more : /\ more[i].visibility = "PUBLIC"
                                   /\ \E j \in 1 .. n + 1 : more[i] = rows[j]
        BY <2>4, <3>2, <3>3, <3>4 DEF PublicOf
      <3>7. \A j \in 1 .. n + 1 : rows[j].visibility = "PUBLIC" =>
              \E i \in DOMAIN more : more[i] = rows[j]
        BY <2>4, <3>2, <3>3, <3>4 DEF PublicOf
      <3>8. Thread!IsInjective(rows) => Thread!IsInjective(more)
        BY <3>2, <3>3, <3>4, <3>5 DEF PublicOf, Thread!IsInjective
      <3> QED
        BY <3>1, <3>2, <3>6, <3>7, <3>8 DEF PublicOf
    <2> QED
      BY <2>5, <2>6
  <1> HIDE DEF S
  <1>5. Len(rows) \in S
    BY <1>1, <1>3, <1>4, Induction
  <1> QED
    BY <1>1, <1>2, <1>5 DEF S
-----------------------------------------------------------------------------
(* The lists of a ticket's page *)

\* A load that was answered: rows that are or were there, each once, and for the
\* requester no internal note and no internal action.
Snapshot(p, rows, there) ==
  /\ rows \in Seq(Thread!Entry) /\ Thread!IsInjective(rows)
  /\ Thread!ToSet(rows) \subseteq Thread!ToSet(there)
  /\ p = "mine" => \A i \in DOMAIN rows : rows[i].visibility = "PUBLIC"

GoodRead(r, there) ==
  /\ r = [page |-> r.page, rows |-> r.rows] /\ r.page \in Thread!Pages
  /\ r.rows # None => Snapshot(r.page, r.rows, there)

\* The rows that may be on the list looked at.
Allowed(e) == list \notin Thread!Filtered \/ e.by = "mine" => e.visibility = "PUBLIC"

\* A number belongs to one row, and to one call until that row is there.
Numbered ==
  /\ \A i, j \in DOMAIN entries : entries[i].number = entries[j].number => i = j
  /\ \A v, w \in writes : v.entry.number = w.entry.number => v = w
  /\ \A w \in writes :
       \/ w.step = "stored" /\ w.entry \in Thread!ToSet(entries)
       \/ w.step # "stored" /\ \A i \in DOMAIN entries : entries[i].number # w.entry.number

RowsInv ==
  /\ list \in Thread!Lists
  /\ entries \in Seq(Thread!Entry) /\ writes \subseteq Thread!Write
  /\ blobs \subseteq 1 .. MaxEntries
  /\ \A i \in DOMAIN entries : Allowed(entries[i])
  /\ \A w \in writes : Allowed(w.entry)
  /\ Numbered

\* Loads under way; but for the timeline, one of each page at most, its first.
ReadsInv ==
  /\ Thread!IsABag(reads)
  /\ \A r \in DOMAIN reads : GoodRead(r, entries)
  /\ loaded \in [Thread!Pages -> BOOLEAN]
  /\ list # "history" =>
       \A r \in DOMAIN reads : /\ reads[r] = 1 /\ ~loaded[r.page]
                               /\ \A s \in DOMAIN reads : s.page = r.page => s = r

\* What is being added.
Adding == {w.entry : w \in writes}

\* What is shown on page p, of which nothing was added before the first load.
Faithful(p) ==
  /\ Thread!IsInjective(shown[p])
  /\ Thread!ToSet(shown[p]) \subseteq Thread!ToSet(entries)
  /\ \A e \in Adding : e.by = p => e \notin Thread!ToSet(shown[p]) /\ loaded[p]
  /\ \A e \in Thread!ToSet(entries) : e.by = p =>
       loaded[p] /\ (faults = 0 => e \in Thread!ToSet(shown[p]) \cup Adding)

ShownInv ==
  /\ shown \in [Thread!Pages -> Seq(Thread!Entry)]
  /\ \A i \in DOMAIN shown["mine"] : shown["mine"][i].visibility = "PUBLIC"
  /\ early \in [Thread!Pages -> BOOLEAN]
  /\ \A p \in Thread!Pages : ~early[p] /\ list # "history" => Faithful(p)

ThreadInv ==
  /\ RowsInv /\ ReadsInv /\ ShownInv
  /\ busy \in [Thread!Pages -> BOOLEAN] /\ failed \in [Thread!Pages -> BOOLEAN]
  /\ faults \in Nat

(* Bags and sequences *)

\* The bag C is B with x once more, or once less.
OneMore(B, x, C) ==
  /\ Thread!IsABag(C) /\ DOMAIN C = DOMAIN B \cup {x}
  /\ \A y \in DOMAIN B : y # x => C[y] = B[y]
  /\ x \notin DOMAIN B => C[x] = 1

OneLess(B, x, C) ==
  /\ Thread!IsABag(C) /\ DOMAIN C \subseteq DOMAIN B
  /\ \A y \in DOMAIN C : y # x => C[y] = B[y]
  /\ B[x] = 1 => x \notin DOMAIN C

LEMMA BagPlus ==
  ASSUME NEW B, Thread!IsABag(B), NEW x
  PROVE  OneMore(B, x, Thread!(+)(B, Thread!SetToBag({x})))
  BY DEF OneMore, Thread!IsABag, Thread!(+), Thread!SetToBag

LEMMA BagMinus ==
  ASSUME NEW B, Thread!IsABag(B), NEW x \in DOMAIN B
  PROVE  OneLess(B, x, Thread!(-)(B, Thread!SetToBag({x})))
  BY DEF OneLess, Thread!IsABag, Thread!(-), Thread!SetToBag

LEMMA Appended ==
  ASSUME NEW T, NEW s \in Seq(T), NEW x \in T
  PROVE  /\ Append(s, x) \in Seq(T)
         /\ Len(Append(s, x)) = Len(s) + 1
         /\ \A i \in 1 .. Len(s) : Append(s, x)[i] = s[i]
         /\ Append(s, x)[Len(s) + 1] = x
         /\ DOMAIN Append(s, x) = DOMAIN s \cup {Len(s) + 1}
         /\ Len(s) + 1 \notin DOMAIN s /\ DOMAIN s = 1 .. Len(s)
         /\ Thread!ToSet(Append(s, x)) = Thread!ToSet(s) \cup {x}
  <1>1. /\ Append(s, x) \in Seq(T) /\ Len(Append(s, x)) = Len(s) + 1
        /\ \A i \in 1 .. Len(s) : Append(s, x)[i] = s[i]
        /\ Append(s, x)[Len(s) + 1] = x
        /\ Len(s) \in Nat /\ DOMAIN s = 1 .. Len(s)
        /\ DOMAIN Append(s, x) = 1 .. Len(s) + 1
    BY AppendProperties, LenProperties
  <1>2. DOMAIN Append(s, x) = DOMAIN s \cup {Len(s) + 1} /\ Len(s) + 1 \notin DOMAIN s
    BY <1>1
  <1>3. \A i \in DOMAIN s : Append(s, x)[i] = s[i]
    BY <1>1
  <1>4. Thread!ToSet(Append(s, x)) = Thread!ToSet(s) \cup {x}
    <2>1. PICK more, n : /\ more = Append(s, x) /\ DOMAIN more = DOMAIN s \cup {n} /\ more[n] = x
                         /\ n \notin DOMAIN s /\ \A i \in DOMAIN s : more[i] = s[i]
      BY <1>1, <1>2, <1>3
    <2>2. ASSUME NEW e \in Thread!ToSet(more) PROVE e \in Thread!ToSet(s) \cup {x}
      BY <2>1 DEF Thread!ToSet
    <2>3. ASSUME NEW e \in Thread!ToSet(s) \cup {x} PROVE e \in Thread!ToSet(more)
      BY <2>1 DEF Thread!ToSet
    <2> QED
      BY <2>1, <2>2, <2>3
  <1> QED
    BY <1>1, <1>2, <1>4

\* Added at the end, something new stays there once.
LEMMA AppendedOnce ==
  ASSUME NEW T, NEW s \in Seq(T), NEW x \in T, Thread!IsInjective(s), x \notin Thread!ToSet(s)
  PROVE  Thread!IsInjective(Append(s, x))
  <1>1. \A i \in DOMAIN s : s[i] # x
    BY DEF Thread!ToSet
  <1> QED
    BY <1>1, Appended DEF Thread!IsInjective

(* Rows and the calls that add them *)

LEMMA FreshNumber ==
  ASSUME RowsInv, Thread!Cardinality(Thread!Used) < MaxEntries
  PROVE  Thread!Fresh \in (1 .. MaxEntries) \ Thread!Used
  <1> DEFINE free == (1 .. MaxEntries) \ Thread!Used
  <1>1. MaxEntries \in Nat
    BY BoundAssumption
  <1>2. Thread!Used \subseteq 1 .. MaxEntries
    <2>1. \A w \in writes : w.entry.number \in 1 .. MaxEntries
      BY DEF RowsInv, Thread!Write, Thread!Entry
    <2>2. \A i \in DOMAIN entries : entries[i] \in Thread!Entry
      BY ElementOfSeq, LenProperties DEF RowsInv
    <2>3. \A i \in DOMAIN entries : entries[i].number \in 1 .. MaxEntries
      BY <2>2 DEF Thread!Entry
    <2> QED
      BY <2>1, <2>3 DEF Thread!Used, RowsInv
  <1>3. free # {}
    <2> SUFFICES ASSUME free = {} PROVE FALSE
      OBVIOUS
    <2>1. Thread!Used = 1 .. MaxEntries
      BY <1>2
    <2>2. Cardinality(1 .. MaxEntries) = MaxEntries
      BY <1>1, FS_Interval
    <2>3. Thread!Cardinality(Thread!Used) = Cardinality(Thread!Used)
      BY Zenon DEF Cardinality, Thread!Cardinality
    <2> QED
      BY <1>1, <2>1, <2>2, <2>3
  <1>4. PICK n \in free : \A m \in free : n <= m
    <2>1. free \subseteq Nat
      OBVIOUS
    <2> HIDE DEF free
    <2> QED
      BY <1>3, <2>1, LeastNumber
  <1> QED
    BY <1>4, Zenon DEF Thread!Fresh

LEMMA EntriesTyped ==
  ASSUME RowsInv
  PROVE  /\ Len(entries) \in Nat /\ DOMAIN entries = 1 .. Len(entries)
         /\ \A i \in DOMAIN entries : entries[i] \in Thread!Entry
  BY ElementOfSeq, LenProperties DEF RowsInv

LEMMA RowsAdded ==
  ASSUME RowsInv, NEW p \in Thread!Pages, NEW visibility \in {"PUBLIC", "INTERNAL"},
         Thread!Add(p, visibility)
  PROVE  /\ RowsInv'
         /\ \E w \in Thread!Write :
              /\ writes' = writes \cup {w} /\ w.entry.by = p
              /\ w.entry \notin Thread!ToSet(entries)
  <1> DEFINE e == [by |-> p, visibility |-> visibility, number |-> Thread!Fresh]
             w == [entry |-> e, step |-> "asked"]
  <1>1. Thread!Fresh \in (1 .. MaxEntries) \ Thread!Used
    BY FreshNumber DEF Thread!Add
  <1>2. e \in Thread!Entry /\ w \in Thread!Write
    BY <1>1 DEF Thread!Entry, Thread!Write, Thread!Pages
  <1>3. /\ \A v \in writes : v.entry.number # e.number
        /\ \A i \in DOMAIN entries : entries[i].number # e.number
    BY <1>1 DEF Thread!Used
  <1>4. PICK x \in Thread!Write :
          /\ writes' = writes \cup {x} /\ x.step = "asked"
          /\ x.entry.by = p /\ x.entry.visibility = visibility
          /\ \A v \in writes : v.entry.number # x.entry.number
          /\ \A i \in DOMAIN entries : entries[i].number # x.entry.number
    <2>1. writes' = writes \cup {w}
      BY DEF Thread!Add
    <2> QED
      BY <1>2, <1>3, <2>1
  <1>5. /\ UNCHANGED <<list, entries, blobs>>
        /\ (p = "mine" \/ list \notin Thread!Filtered) => visibility = "PUBLIC"
    BY DEF Thread!Add
  <1>6. x.entry \notin Thread!ToSet(entries)
    BY <1>4 DEF Thread!ToSet
  <1>7. Numbered'
    BY <1>4, <1>5 DEF RowsInv, Numbered
  <1>8. RowsInv'
    BY <1>4, <1>5, <1>7 DEF RowsInv, Allowed
  <1> QED
    BY <1>4, <1>6, <1>8

\* A call goes a step on, before its row is there.
LEMMA WriteMoved ==
  ASSUME NEW w \in Thread!Write, NEW step \in {"asked", "saved", "stored"}
  PROVE  /\ [w EXCEPT !.step = step] \in Thread!Write
         /\ [w EXCEPT !.step = step].entry = w.entry
         /\ [w EXCEPT !.step = step].step = step
  BY DEF Thread!Write

LEMMA RowsSaved ==
  ASSUME RowsInv, NEW w \in writes, Thread!SaveBlob(w)
  PROVE  /\ RowsInv'
         /\ \E v \in Thread!Write : writes' = (writes \ {w}) \cup {v} /\ v.entry = w.entry
  <1>1. w \in Thread!Write /\ w.entry.number \in 1 .. MaxEntries
    BY DEF RowsInv, Thread!Write, Thread!Entry
  <1>2. PICK v \in Thread!Write :
          v.entry = w.entry /\ v.step = "saved" /\ writes' = (writes \ {w}) \cup {v}
    BY <1>1, WriteMoved DEF Thread!SaveBlob
  <1>3. w.step = "asked" /\ blobs' = blobs \cup {w.entry.number} /\ UNCHANGED <<list, entries>>
    BY DEF Thread!SaveBlob
  <1>4. Numbered'
    <2>1. \A x \in writes' : x \in writes \/ x = v
      BY <1>2
    <2>2. \A x, y \in writes' : x.entry.number = y.entry.number => x = y
      BY <1>2 DEF RowsInv, Numbered
    <2> QED
      BY <1>2, <1>3, <2>1, <2>2 DEF RowsInv, Numbered
  <1> QED
    BY <1>1, <1>2, <1>3, <1>4 DEF RowsInv, Allowed

LEMMA RowsStored ==
  ASSUME RowsInv, NEW w \in writes, Thread!Store(w)
  PROVE  /\ RowsInv'
         /\ \E v \in Thread!Write : writes' = (writes \ {w}) \cup {v} /\ v.entry = w.entry
         /\ Thread!ToSet(entries') = Thread!ToSet(entries) \cup {w.entry}
  <1>1. w \in Thread!Write /\ w.entry \in Thread!Entry
    BY DEF RowsInv, Thread!Write
  <1>2. PICK v \in Thread!Write :
          v.entry = w.entry /\ v.step = "stored" /\ writes' = (writes \ {w}) \cup {v}
    BY <1>1, WriteMoved DEF Thread!Store
  <1>3. w.step # "stored" /\ entries' = Append(entries, w.entry) /\ UNCHANGED <<list, blobs>>
    BY DEF Thread!Store, Thread!MayStore
  <1>4. \A i \in DOMAIN entries : entries[i].number # w.entry.number
    BY <1>3 DEF RowsInv, Numbered
  <1>5. /\ entries' \in Seq(Thread!Entry)
        /\ DOMAIN entries' = DOMAIN entries \cup {Len(entries) + 1}
        /\ \A i \in DOMAIN entries : entries'[i] = entries[i]
        /\ entries'[Len(entries) + 1] = w.entry
        /\ Thread!ToSet(entries') = Thread!ToSet(entries) \cup {w.entry}
    BY <1>1, <1>3, Appended DEF RowsInv
  <1>6. \A i \in DOMAIN entries' : i \in DOMAIN entries \/ i = Len(entries) + 1
    BY <1>5
  <1>7. Numbered'
    <2>1. \A i, j \in DOMAIN entries' : entries'[i].number = entries'[j].number => i = j
      BY <1>4, <1>5, <1>6 DEF RowsInv, Numbered
    <2>2. \A x, y \in writes' : x.entry.number = y.entry.number => x = y
      BY <1>2 DEF RowsInv, Numbered
    <2>3. ASSUME NEW x \in writes'
          PROVE  \/ x.step = "stored" /\ x.entry \in Thread!ToSet(entries')
                 \/ x.step # "stored" /\ \A i \in DOMAIN entries' : entries'[i].number # x.entry.number
      <3>1. CASE x = v
        BY <1>2, <1>5, <3>1
      <3>2. CASE x # v
        <4>1. x \in writes /\ x # w
          BY <1>2, <3>2
        <4>2. x.entry.number # w.entry.number
          BY <4>1 DEF RowsInv, Numbered
        <4> QED
          BY <1>5, <1>6, <4>1, <4>2 DEF RowsInv, Numbered
      <3> QED
        BY <3>1, <3>2
    <2> QED
      BY <2>1, <2>2, <2>3 DEF Numbered
  <1>8. (\A i \in DOMAIN entries : Allowed(entries[i]))' /\ (\A x \in writes : Allowed(x.entry))'
    BY <1>2, <1>3, <1>5, <1>6 DEF RowsInv, Allowed
  <1> QED
    BY <1>1, <1>2, <1>3, <1>5, <1>7, <1>8 DEF RowsInv

LEMMA RowsDropped ==
  ASSUME RowsInv, NEW w, writes' = writes \ {w}, UNCHANGED <<list, entries, blobs>>
  PROVE  RowsInv'
  BY DEF RowsInv, Numbered, Allowed

LEMMA RowsSame ==
  ASSUME RowsInv, UNCHANGED <<list, entries, writes, blobs>>
  PROVE  RowsInv'
  BY DEF RowsInv, Numbered, Allowed

(* Loads *)

LEMMA ReadsGrown ==
  ASSUME ReadsInv, Thread!ToSet(entries) \subseteq Thread!ToSet(entries'),
         UNCHANGED <<list, reads, loaded>>
  PROVE  ReadsInv'
  <1>1. \A r \in DOMAIN reads : GoodRead(r, entries')
    BY DEF ReadsInv, GoodRead, Snapshot
  <1> QED
    BY <1>1 DEF ReadsInv

\* What a page is given is a snapshot of the rows, as it may see them.
LEMMA VisibleRows ==
  ASSUME RowsInv, NEW p \in Thread!Pages
  PROVE  Snapshot(p, Thread!Visible(p), entries)
  <1>1. Thread!IsInjective(entries)
    BY DEF RowsInv, Numbered, Thread!IsInjective
  <1>2. CASE p = "mine" /\ list \in Thread!Filtered
    <2> DEFINE rows == Thread!Public(entries)
    <2>1. rows \in Seq(Thread!Entry) /\ PublicOf(rows, entries, Len(entries))
      BY PublicRows DEF RowsInv
    <2>2. Thread!Visible(p) = rows
      BY <1>2 DEF Thread!Visible
    <2> HIDE DEF rows
    <2>3. Thread!ToSet(rows) \subseteq Thread!ToSet(entries)
      <3>1. \A i \in DOMAIN rows : \E j \in 1 .. Len(entries) : rows[i] = entries[j]
        BY <2>1 DEF PublicOf
      <3>2. 1 .. Len(entries) = DOMAIN entries
        BY EntriesTyped
      <3> QED
        BY <3>1, <3>2, Zenon DEF Thread!ToSet
    <2>4. Thread!IsInjective(rows) /\ \A i \in DOMAIN rows : rows[i].visibility = "PUBLIC"
      BY <1>1, <2>1 DEF PublicOf
    <2> QED
      BY <2>1, <2>2, <2>3, <2>4 DEF Snapshot
  <1>3. CASE ~(p = "mine" /\ list \in Thread!Filtered)
    <2>1. Thread!Visible(p) = entries
      BY <1>3 DEF Thread!Visible
    <2>2. p = "mine" => \A i \in DOMAIN entries : entries[i].visibility = "PUBLIC"
      BY <1>3 DEF RowsInv, Allowed
    <2> QED
      BY <1>1, <2>1, <2>2 DEF Snapshot, RowsInv
  <1> QED
    BY <1>2, <1>3

LEMMA ReadsServed ==
  ASSUME RowsInv, ReadsInv, NEW r \in DOMAIN reads, Thread!Serve(r)
  PROVE  ReadsInv'
  <1>1. GoodRead(r, entries) /\ UNCHANGED <<list, entries, loaded>>
    BY DEF ReadsInv, Thread!Serve
  <1>2. PICK v : /\ v = [r EXCEPT !.rows = Thread!Visible(r.page)]
                 /\ reads' = Thread!(+)(Thread!(-)(reads, Thread!SetToBag({r})), Thread!SetToBag({v}))
    BY DEF Thread!Serve
  <1>3. GoodRead(v, entries) /\ v.page = r.page
    <2>1. v = [page |-> r.page, rows |-> Thread!Visible(r.page)]
      BY <1>1, <1>2 DEF GoodRead
    <2>2. r.page \in Thread!Pages /\ v.page = r.page /\ v.rows = Thread!Visible(r.page)
      BY <1>1, <2>1 DEF GoodRead
    <2> QED
      BY <2>1, <2>2, VisibleRows DEF GoodRead
  <1>4. PICK rest : OneLess(reads, r, rest) /\ rest = Thread!(-)(reads, Thread!SetToBag({r}))
    BY BagMinus DEF ReadsInv
  <1>5. OneMore(rest, v, Thread!(+)(rest, Thread!SetToBag({v})))
    BY <1>4, BagPlus DEF OneLess
  <1>6. OneMore(rest, v, reads')
    BY <1>2, <1>4, <1>5
  <1>7. \A s \in DOMAIN reads' : GoodRead(s, entries')
    BY <1>1, <1>3, <1>4, <1>6 DEF ReadsInv, OneMore, OneLess
  <1>8. ASSUME list' # "history", NEW s \in DOMAIN reads'
        PROVE  /\ reads'[s] = 1 /\ ~loaded'[s.page]
               /\ \A t \in DOMAIN reads' : t.page = s.page => t = s
    <2>1. /\ reads[r] = 1 /\ ~loaded[r.page]
          /\ \A t \in DOMAIN reads : t.page = r.page => t = r
          /\ \A x \in DOMAIN reads : /\ reads[x] = 1 /\ ~loaded[x.page]
                                     /\ \A t \in DOMAIN reads : t.page = x.page => t = x
      BY <1>1, <1>8 DEF ReadsInv
    <2>2. \A t \in DOMAIN rest : t.page # v.page /\ t # v
      BY <1>3, <1>4, <2>1 DEF OneLess
    <2> QED
      BY <1>1, <1>3, <1>4, <1>6, <2>1, <2>2 DEF OneMore, OneLess
  <1>9. loaded' \in [Thread!Pages -> BOOLEAN]
    BY <1>1 DEF ReadsInv
  <1> QED
    BY <1>6, <1>7, <1>8, <1>9 DEF ReadsInv, OneMore

\* A load is over: it has come in, or failed.
LEMMA ReadsOver ==
  ASSUME ReadsInv, NEW r \in DOMAIN reads, UNCHANGED <<list, entries>>,
         reads' = Thread!(-)(reads, Thread!SetToBag({r})),
         loaded' = loaded \/ loaded' = [loaded EXCEPT ![r.page] = TRUE]
  PROVE  ReadsInv'
  <1>1. OneLess(reads, r, reads')
    BY BagMinus DEF ReadsInv
  <1>2. \A s \in DOMAIN reads' : GoodRead(s, entries')
    BY <1>1 DEF ReadsInv, OneLess
  <1>3. /\ loaded' \in [Thread!Pages -> BOOLEAN]
        /\ \A p \in Thread!Pages : p # r.page => loaded'[p] = loaded[p]
    BY DEF ReadsInv
  <1>4. ASSUME list' # "history", NEW s \in DOMAIN reads'
        PROVE  /\ reads'[s] = 1 /\ ~loaded'[s.page]
               /\ \A t \in DOMAIN reads' : t.page = s.page => t = s
    <2>1. s # r /\ s \in DOMAIN reads
      BY <1>1, <1>4 DEF ReadsInv, OneLess
    <2>2. s.page # r.page /\ s.page \in Thread!Pages
      BY <1>4, <2>1 DEF ReadsInv, GoodRead
    <2> QED
      BY <1>1, <1>3, <1>4, <2>1, <2>2 DEF ReadsInv, OneLess
  <1> QED
    BY <1>1, <1>2, <1>3, <1>4 DEF ReadsInv, OneLess

\* The timeline is loaded once more.
LEMMA ReadsAsked ==
  ASSUME ReadsInv, list = "history", NEW p \in Thread!Pages, UNCHANGED <<list, entries, loaded>>,
         reads' = Thread!(+)(reads, Thread!SetToBag({Thread!Asked(p)}))
  PROVE  ReadsInv'
  <1>1. GoodRead(Thread!Asked(p), entries')
    BY DEF GoodRead, Thread!Asked
  <1>2. OneMore(reads, Thread!Asked(p), Thread!(+)(reads, Thread!SetToBag({Thread!Asked(p)})))
    BY BagPlus DEF ReadsInv
  <1>3. OneMore(reads, Thread!Asked(p), reads')
    BY <1>2
  <1>4. \A s \in DOMAIN reads' : GoodRead(s, entries')
    BY <1>1, <1>3 DEF ReadsInv, OneMore
  <1> QED
    BY <1>3, <1>4 DEF ReadsInv, OneMore

(* What is shown *)

\* Rows are added by calls that go on, and nothing else changes.
LEMMA ShownSame ==
  ASSUME ShownInv, UNCHANGED <<list, shown, loaded, early>>,
         Adding' = Adding, faults' = 0 => faults = 0,
         Thread!ToSet(entries) \subseteq Thread!ToSet(entries'),
         Thread!ToSet(entries') \subseteq Thread!ToSet(entries) \cup Adding
  PROVE  ShownInv'
  <1>1. ASSUME NEW p \in Thread!Pages, ~early[p], list # "history" PROVE Faithful(p)'
    <2>1. Faithful(p)
      BY <1>1 DEF ShownInv
    <2> HIDE DEF Adding
    <2> QED
      BY <2>1 DEF Faithful
  <1> QED
    BY <1>1 DEF ShownInv

LEMMA ShownAdd ==
  ASSUME ShownInv, ReadsInv, RowsInv, NEW p \in Thread!Pages,
         NEW visibility \in {"PUBLIC", "INTERNAL"}, Thread!Add(p, visibility)
  PROVE  ShownInv'
  <1>1. PICK w \in Thread!Write : /\ writes' = writes \cup {w} /\ w.entry.by = p
                                  /\ w.entry \notin Thread!ToSet(entries)
    BY RowsAdded
  <1>2. /\ UNCHANGED <<list, entries, shown, loaded, faults>>
        /\ early' = [early EXCEPT ![p] = early[p] \/ ~loaded[p]]
    BY DEF Thread!Add
  <1>3. early' \in [Thread!Pages -> BOOLEAN]
    BY <1>2 DEF ShownInv
  <1>4. Adding' = Adding \cup {w.entry}
    BY <1>1 DEF Adding
  <1>5. ASSUME NEW q \in Thread!Pages, ~early'[q], list' # "history" PROVE Faithful(q)'
    <2>1. ~early[q] /\ (q = p => loaded[p])
      BY <1>2, <1>5 DEF ShownInv
    <2>2. Faithful(q)
      BY <1>2, <1>5, <2>1 DEF ShownInv
    <2> HIDE DEF Adding
    <2> QED
      BY <1>1, <1>2, <1>4, <2>1, <2>2 DEF Faithful
  <1> QED
    BY <1>2, <1>3, <1>5 DEF ShownInv

\* The answer of a load replaces the list.
LEMMA ShownLoaded ==
  ASSUME ShownInv, ReadsInv, NEW r \in DOMAIN reads, Thread!Loaded(r)
  PROVE  ShownInv'
  <1>1. /\ UNCHANGED <<list, entries, writes, early, faults>>
        /\ shown' = [shown EXCEPT ![r.page] = r.rows]
        /\ loaded' = [loaded EXCEPT ![r.page] = TRUE]
        /\ r.page \in Thread!Pages /\ Snapshot(r.page, r.rows, entries)
        /\ shown \in [Thread!Pages -> Seq(Thread!Entry)] /\ loaded \in [Thread!Pages -> BOOLEAN]
    BY DEF Thread!Loaded, ReadsInv, GoodRead, ShownInv
  <1>2. /\ shown' \in [Thread!Pages -> Seq(Thread!Entry)]
        /\ shown'[r.page] = r.rows /\ loaded'[r.page]
        /\ \A p \in Thread!Pages \ {r.page} : shown'[p] = shown[p] /\ loaded'[p] = loaded[p]
    BY <1>1 DEF Snapshot
  <1>3. \A i \in DOMAIN shown'["mine"] : shown'["mine"][i].visibility = "PUBLIC"
    BY <1>1, <1>2 DEF Snapshot, ShownInv, Thread!Pages
  <1>4. Adding' = Adding
    BY <1>1 DEF Adding
  <1>5. ASSUME NEW q \in Thread!Pages, ~early'[q], list' # "history" PROVE Faithful(q)'
    <2>1. Faithful(q)
      BY <1>1, <1>5 DEF ShownInv
    <2> HIDE DEF Adding
    <2>2. CASE q # r.page
      BY <1>1, <1>2, <1>4, <2>1, <2>2 DEF Faithful
    <2>3. CASE q = r.page
      <3>1. ~loaded[q]
        BY <1>1, <1>5, <2>3 DEF ReadsInv
      <3>2. \A e \in Adding \cup Thread!ToSet(entries) : e.by # q
        BY <2>1, <3>1 DEF Faithful
      <3> QED
        BY <1>1, <1>2, <1>4, <2>3, <3>2 DEF Faithful, Snapshot
    <2> QED
      BY <2>2, <2>3
  <1> QED
    BY <1>1, <1>2, <1>3, <1>5 DEF ShownInv

LEMMA OthersAdding ==
  ASSUME RowsInv, NEW w \in writes, writes' = writes \ {w}
  PROVE  Adding' = Adding \ {w.entry}
  <1>1. \A v \in writes : v.entry = w.entry => v = w
    BY DEF RowsInv, Numbered
  <1> QED
    BY <1>1 DEF Adding

\* What was added is appended: its row is there, and was not shown before.
LEMMA ShownAdded ==
  ASSUME ShownInv, RowsInv, NEW w \in writes, Thread!Added(w), list # "history"
  PROVE  ShownInv'
  <1>1. /\ UNCHANGED <<list, entries, loaded, early, faults>>
        /\ shown' = [shown EXCEPT ![w.entry.by] = Append(shown[w.entry.by], w.entry)]
        /\ writes' = writes \ {w} /\ w.step = "stored"
    BY DEF Thread!Added
  <1>2. /\ w.entry \in Thread!Entry /\ w.entry.by \in Thread!Pages
        /\ w.entry.by = "mine" => w.entry.visibility = "PUBLIC"
        /\ w.entry \in Thread!ToSet(entries) /\ w.entry \in Adding
    BY <1>1 DEF RowsInv, Thread!Write, Thread!Entry, Allowed, Numbered, Adding
  <1>3. PICK e, p : e = w.entry /\ p = e.by /\ e \in Thread!Entry /\ p \in Thread!Pages
    BY <1>2
  <1>4. /\ shown' = [shown EXCEPT ![p] = Append(shown[p], e)]
        /\ p = "mine" => e.visibility = "PUBLIC"
        /\ e \in Thread!ToSet(entries) /\ e \in Adding
    BY <1>1, <1>2, <1>3
  <1>5. Adding' = Adding \ {e}
    BY <1>1, <1>3, OthersAdding
  <1>6. shown \in [Thread!Pages -> Seq(Thread!Entry)] /\ shown[p] \in Seq(Thread!Entry)
    BY <1>3 DEF ShownInv
  <1>7. /\ Append(shown[p], e) \in Seq(Thread!Entry)
        /\ DOMAIN Append(shown[p], e) = DOMAIN shown[p] \cup {Len(shown[p]) + 1}
        /\ \A i \in DOMAIN shown[p] : Append(shown[p], e)[i] = shown[p][i]
        /\ Append(shown[p], e)[Len(shown[p]) + 1] = e
        /\ Thread!ToSet(Append(shown[p], e)) = Thread!ToSet(shown[p]) \cup {e}
    BY <1>3, <1>6, Appended
  <1>8. /\ shown' \in [Thread!Pages -> Seq(Thread!Entry)]
        /\ shown'[p] = Append(shown[p], e)
        /\ \A q \in Thread!Pages \ {p} : shown'[q] = shown[q]
    BY <1>3, <1>4, <1>6, <1>7
  <1>9. \A i \in DOMAIN shown'["mine"] : shown'["mine"][i].visibility = "PUBLIC"
    <2>1. CASE p = "mine"
      BY <1>4, <1>7, <1>8, <2>1 DEF ShownInv
    <2>2. CASE p # "mine"
      BY <1>8, <2>2 DEF ShownInv, Thread!Pages
    <2> QED
      BY <2>1, <2>2
  <1>10. ASSUME NEW q \in Thread!Pages, ~early'[q], list' # "history" PROVE Faithful(q)'
    <2>1. Faithful(q)
      BY <1>1, <1>10 DEF ShownInv
    <2> HIDE DEF Adding
    <2>2. CASE q # p
      BY <1>1, <1>3, <1>5, <1>8, <2>1, <2>2 DEF Faithful
    <2>3. CASE q = p
      <3>1. e \notin Thread!ToSet(shown[p]) /\ Thread!IsInjective(shown[p])
        BY <1>3, <1>4, <2>1, <2>3 DEF Faithful
      <3>2. Thread!IsInjective(shown'[p])
        BY <1>3, <1>6, <1>8, <3>1, AppendedOnce
      <3>3. Thread!ToSet(shown'[p]) = Thread!ToSet(shown[p]) \cup {e}
        BY <1>7, <1>8
      <3> QED
        BY <1>1, <1>4, <1>5, <2>1, <2>3, <3>2, <3>3 DEF Faithful
    <2> QED
      BY <2>2, <2>3
  <1> QED
    BY <1>1, <1>8, <1>9, <1>10 DEF ShownInv

\* A call is given up, or ends without an append.
LEMMA ShownDropped ==
  ASSUME ShownInv, UNCHANGED <<list, entries, shown, loaded, early>>,
         Adding' \subseteq Adding, list = "history" \/ faults' # 0
  PROVE  ShownInv'
  <1>1. ASSUME NEW p \in Thread!Pages, ~early[p], list # "history" PROVE Faithful(p)'
    <2>1. Faithful(p)
      BY <1>1 DEF ShownInv
    <2> HIDE DEF Adding
    <2> QED
      BY <1>1, <2>1 DEF Faithful
  <1> QED
    BY <1>1 DEF ShownInv

(* Each step of a ticket's page *)

LEMMA FlagsTyped ==
  ASSUME ThreadInv, NEW p \in Thread!Pages, NEW b \in BOOLEAN
  PROVE  /\ [busy EXCEPT ![p] = b] \in [Thread!Pages -> BOOLEAN]
         /\ [failed EXCEPT ![p] = b] \in [Thread!Pages -> BOOLEAN]
  BY DEF ThreadInv

LEMMA ThreadReading ==
  ASSUME ThreadInv,
         \/ Thread!Poll
         \/ \E r \in Thread!BagToSet(reads) : Thread!Reading(r) \/ Thread!LoadFails(r)
  PROVE  ThreadInv'
  <1>1. UNCHANGED <<list, entries, writes, blobs, busy, failed, early>>
    BY DEF Thread!Poll, Thread!Reading, Thread!Serve, Thread!Loaded, Thread!LoadFails
  <1>2. RowsInv'
    BY <1>1, RowsSame DEF ThreadInv
  <1>3. faults' \in {faults, faults + 1} /\ faults \in Nat
    BY DEF ThreadInv, Thread!Poll, Thread!Reading, Thread!Serve, Thread!Loaded,
       Thread!LoadFails
  <1>4. faults' \in Nat /\ (faults' = 0 => faults = 0)
    BY <1>3
  <1>5. Adding' = Adding
    BY <1>1 DEF Adding
  <1>6. ASSUME UNCHANGED <<shown, loaded>> PROVE ShownInv'
    BY <1>1, <1>4, <1>5, <1>6, ShownSame DEF ThreadInv
  <1>7. ReadsInv' /\ ShownInv'
    <2>1. CASE Thread!Poll
      <3>1. "mine" \in Thread!Pages
        BY DEF Thread!Pages
      <3> QED
        BY <1>6, <2>1, <3>1, ReadsAsked DEF ThreadInv, Thread!Poll
    <2>2. ASSUME NEW r \in DOMAIN reads, Thread!Serve(r) PROVE ReadsInv' /\ ShownInv'
      BY <1>6, <2>2, ReadsServed DEF ThreadInv, Thread!Serve
    <2>3. ASSUME NEW r \in DOMAIN reads, Thread!Loaded(r) PROVE ReadsInv' /\ ShownInv'
      BY <2>3, ReadsOver, ShownLoaded DEF ThreadInv, Thread!Loaded
    <2>4. ASSUME NEW r \in DOMAIN reads, Thread!LoadFails(r) PROVE ReadsInv' /\ ShownInv'
      BY <1>6, <2>4, ReadsOver DEF ThreadInv, Thread!LoadFails
    <2> QED
      BY <2>1, <2>2, <2>3, <2>4 DEF Thread!Reading, Thread!BagToSet
  <1> QED
    BY <1>1, <1>2, <1>4, <1>7 DEF ThreadInv

LEMMA ThreadAdd ==
  ASSUME ThreadInv, NEW p \in Thread!Pages, NEW visibility \in {"PUBLIC", "INTERNAL"},
         Thread!Add(p, visibility)
  PROVE  ThreadInv'
  <1>1. /\ UNCHANGED <<list, entries, reads, failed, loaded, faults>>
        /\ busy' = [busy EXCEPT ![p] = TRUE]
    BY DEF Thread!Add
  <1>2. RowsInv' /\ ShownInv'
    BY RowsAdded, ShownAdd DEF ThreadInv
  <1>3. ReadsInv'
    BY <1>1, ReadsGrown DEF ThreadInv
  <1> QED
    BY <1>1, <1>2, <1>3, FlagsTyped DEF ThreadInv

LEMMA ThreadWriting ==
  ASSUME ThreadInv, NEW w \in writes, Thread!SaveBlob(w) \/ Thread!Store(w)
  PROVE  ThreadInv'
  <1>1. UNCHANGED <<list, reads, shown, busy, failed, loaded, early, faults>>
    BY DEF Thread!SaveBlob, Thread!Store
  <1>2. /\ RowsInv'
        /\ \E v \in Thread!Write : writes' = (writes \ {w}) \cup {v} /\ v.entry = w.entry
    BY RowsSaved, RowsStored DEF ThreadInv
  <1>3. \/ Thread!ToSet(entries') = Thread!ToSet(entries)
        \/ Thread!ToSet(entries') = Thread!ToSet(entries) \cup {w.entry}
    <2>1. CASE Thread!SaveBlob(w)
      BY <2>1 DEF Thread!SaveBlob
    <2>2. CASE Thread!Store(w)
      BY <2>2, RowsStored DEF ThreadInv
    <2> QED
      BY <2>1, <2>2
  <1>4. Adding' = Adding /\ w.entry \in Adding
    BY <1>2 DEF Adding
  <1>5. ReadsInv'
    BY <1>1, <1>3, ReadsGrown DEF ThreadInv
  <1>6. ShownInv'
    BY <1>1, <1>3, <1>4, ShownSame DEF ThreadInv
  <1> QED
    BY <1>1, <1>2, <1>5, <1>6 DEF ThreadInv

LEMMA ThreadAnswered ==
  ASSUME ThreadInv, NEW w \in writes, Thread!Added(w) \/ Thread!AddFails(w)
  PROVE  ThreadInv'
  <1>1. /\ UNCHANGED <<list, entries, blobs, loaded, early>> /\ writes' = writes \ {w}
        /\ busy' = [busy EXCEPT ![w.entry.by] = FALSE]
    BY DEF Thread!Added, Thread!AddFails
  <1>2. w.entry.by \in Thread!Pages
    BY DEF ThreadInv, RowsInv, Thread!Write, Thread!Entry
  <1>3. RowsInv'
    BY <1>1, RowsDropped DEF ThreadInv
  <1>4. Adding' \subseteq Adding
    BY <1>1 DEF Adding
  <1>5. busy' \in [Thread!Pages -> BOOLEAN]
    BY <1>1, <1>2, FlagsTyped
  <1>6. CASE Thread!Added(w) /\ list = "history"
    <2>1. /\ UNCHANGED <<shown, failed, faults>>
          /\ reads' = Thread!(+)(reads, Thread!SetToBag({Thread!Asked(w.entry.by)}))
      BY <1>6 DEF Thread!Added
    <2>2. ReadsInv'
      BY <1>1, <1>2, <1>6, <2>1, ReadsAsked DEF ThreadInv
    <2>3. ShownInv'
      BY <1>1, <1>4, <1>6, <2>1, ShownDropped DEF ThreadInv
    <2> QED
      BY <1>3, <1>5, <2>1, <2>2, <2>3 DEF ThreadInv
  <1>7. CASE Thread!Added(w) /\ list # "history"
    <2>1. UNCHANGED <<reads, failed, faults>>
      BY <1>7 DEF Thread!Added
    <2>2. ReadsInv' /\ ShownInv'
      BY <1>1, <1>7, <2>1, ReadsGrown, ShownAdded DEF ThreadInv
    <2> QED
      BY <1>3, <1>5, <2>1, <2>2 DEF ThreadInv
  <1>8. CASE Thread!AddFails(w)
    <2>1. UNCHANGED <<shown, reads>> /\ faults' = faults + 1 /\ faults \in Nat
      BY <1>8 DEF ThreadInv, Thread!AddFails
    <2>2. faults' \in Nat /\ faults' # 0
      BY <2>1
    <2>3. failed' \in [Thread!Pages -> BOOLEAN]
      <3> DEFINE b == list # "files"
      <3>1. b \in BOOLEAN /\ failed' = [failed EXCEPT ![w.entry.by] = b]
        BY <1>8 DEF Thread!AddFails
      <3> HIDE DEF b
      <3> QED
        BY <1>2, <3>1, FlagsTyped
    <2>4. ReadsInv' /\ ShownInv'
      BY <1>1, <1>4, <2>1, <2>2, ReadsGrown, ShownDropped DEF ThreadInv
    <2> QED
      BY <1>3, <1>5, <2>2, <2>3, <2>4 DEF ThreadInv
  <1> QED
    BY <1>6, <1>7, <1>8

\* The other parts of MCPages only count failures.
LEMMA ThreadElsewhere ==
  ASSUME ThreadInv, UNCHANGED threadVars, faults' \in {faults, faults + 1}
  PROVE  ThreadInv'
  <1>1. UNCHANGED <<list, entries, blobs, shown, reads, writes, busy, failed, loaded, early>>
    BY DEF threadVars
  <1>2. faults' \in Nat /\ (faults' = 0 => faults = 0)
    BY DEF ThreadInv
  <1>3. Adding' = Adding
    BY <1>1 DEF Adding
  <1>4. RowsInv' /\ ReadsInv' /\ ShownInv'
    BY <1>1, <1>2, <1>3, RowsSame, ReadsGrown, ShownSame DEF ThreadInv
  <1> QED
    BY <1>1, <1>2, <1>4 DEF ThreadInv

LEMMA ThreadInit == Thread!Init => ThreadInv
  <1> SUFFICES ASSUME Thread!Init PROVE ThreadInv
    OBVIOUS
  <1> DEFINE first == {Thread!Asked(p) : p \in Thread!Pages}
  <1>1. /\ list \in Thread!Lists /\ entries = <<>> /\ blobs = {} /\ writes = {} /\ faults = 0
        /\ shown = [p \in Thread!Pages |-> <<>>] /\ reads = Thread!SetToBag(first)
        /\ busy = [p \in Thread!Pages |-> FALSE] /\ failed = [p \in Thread!Pages |-> FALSE]
        /\ loaded = [p \in Thread!Pages |-> FALSE] /\ early = [p \in Thread!Pages |-> FALSE]
    BY DEF Thread!Init
  <1>2. /\ <<>> \in Seq(Thread!Entry) /\ DOMAIN <<>> = {}
        /\ Thread!ToSet(<<>>) = {} /\ Thread!IsInjective(<<>>)
    BY DEF Thread!ToSet, Thread!IsInjective
  <1>3. RowsInv
    BY <1>1, <1>2 DEF RowsInv, Numbered
  <1>4. \A r \in first : r.rows = None /\ GoodRead(r, entries)
    BY DEF GoodRead, Thread!Asked
  <1>5. \A r, s \in first : r.page = s.page => r = s
    BY DEF Thread!Asked
  <1>6. \A r \in first : r.page \in Thread!Pages
    BY DEF Thread!Asked
  <1> HIDE DEF first
  <1>7. Thread!IsABag(reads) /\ DOMAIN reads = first /\ \A r \in first : reads[r] = 1
    BY <1>1 DEF Thread!IsABag, Thread!SetToBag
  <1>8. ReadsInv
    BY <1>1, <1>4, <1>5, <1>6, <1>7 DEF ReadsInv
  <1>9. Adding = {}
    BY <1>1 DEF Adding
  <1>10. ShownInv
    <2>1. shown \in [Thread!Pages -> Seq(Thread!Entry)] /\ "mine" \in Thread!Pages
      BY <1>1, <1>2 DEF Thread!Pages
    <2>2. \A p \in Thread!Pages : Faithful(p)
      BY <1>1, <1>2, <1>9 DEF Faithful
    <2> QED
      BY <1>1, <1>2, <2>1, <2>2 DEF ShownInv
  <1> QED
    BY <1>1, <1>3, <1>8, <1>10 DEF ThreadInv

LEMMA SpecThreadInv == Spec => []ThreadInv
  <1>1. Init => ThreadInv
    BY ThreadInit DEF Init
  <1>2. ThreadInv /\ [Next]_vars => ThreadInv'
    <2> SUFFICES ASSUME ThreadInv, [Next]_vars PROVE ThreadInv'
      OBVIOUS
    <2>1. CASE Thread!Next
      BY <2>1, ThreadReading, ThreadAdd, ThreadWriting, ThreadAnswered DEF Thread!Next
    <2>2. CASE ~Thread!Next
      <3>1. UNCHANGED threadVars
        BY <2>2 DEF Next, vars, BulkStep, StaffStep, InThread
      <3>2. faults' \in {faults, faults + 1}
        BY FaultsCounted
      <3> QED
        BY <3>1, <3>2, ThreadElsewhere
    <2> QED
      BY <2>1, <2>2
  <1> QED
    BY <1>1, <1>2, PTL DEF Spec

\* The requester's page (MyTicketDetailPage) never shows an internal note, of any
\* time, whenever its loads were served and answered.
THEOREM InternalAlwaysStaysInternal == Spec => []InternalStaysInternal
  <1>1. ThreadInv => InternalStaysInternal
    BY DEF ThreadInv, ShownInv, InternalStaysInternal, Thread!InternalStaysInternal
  <1> QED
    BY <1>1, SpecThreadInv, PTL

\* Of a page whose first load came in before anything was added on it: everything
\* shown is stored and shown once, and what its user has added is there.
THEOREM AlwaysShownOnce == Spec => []ShownOnce
  <1>1. ThreadInv => ShownOnce
    BY DEF ThreadInv, ShownInv, Faithful, Adding, ShownOnce, Thread!ShownOnce
  <1> QED
    BY <1>1, SpecThreadInv, PTL
-----------------------------------------------------------------------------
(* Types *)

\* The customers and the tickets for colleagues, which nothing above is about.
StaffTypes ==
  /\ customers \in [Emails -> [company : BOOLEAN] \cup {None}]
  /\ tickets \subseteq [email : Emails, customerType : {"B2B", "B2C"}]

LEMMA CustomersTyped ==
  ASSUME StaffInv, StaffTypes, NEW q \in Requests, Staff!Step(q)
  PROVE  StaffTypes'
  <1>1. ASSUME UNCHANGED <<customers, tickets>> PROVE StaffTypes'
    BY <1>1 DEF StaffTypes
  <1>2. ASSUME NEW e \in Emails, NEW c \in [company : BOOLEAN] \cup {None},
               customers' = [customers EXCEPT ![e] = c], UNCHANGED tickets
        PROVE  StaffTypes'
    BY <1>2 DEF StaffTypes
  <1>3. pc[q] # "idle" => call[q] \in Staff!Calls /\ call[q].email \in Emails
    BY CallEmail DEF StaffInv, RequestsWellFormed
  <1>4. \A c \in Staff!Calls : c.op \in {"customer", "intake"} => c.company \in BOOLEAN
    BY DEF Staff!Calls
  <1>5. CASE Staff!CreateCustomer(q)
    <2>1. CASE UNCHANGED customers
      BY <1>1, <1>5, <2>1 DEF Staff!CreateCustomer
    <2>2. CASE ~(UNCHANGED customers)
      <3>1. /\ customers' = [customers EXCEPT ![call[q].email] = [company |-> call[q].company]]
            /\ UNCHANGED tickets /\ call[q].email \in Emails /\ call[q].company \in BOOLEAN
        BY <1>3, <1>4, <1>5, <2>2 DEF Staff!CreateCustomer
      <3> QED
        BY <1>2, <3>1
    <2> QED
      BY <2>1, <2>2
  <1>6. CASE Staff!FindOrCreateByEmail(q)
    <2>1. /\ UNCHANGED tickets /\ call[q].email \in Emails /\ call[q].company \in BOOLEAN
      BY <1>3, <1>4, <1>6 DEF Staff!FindOrCreateByEmail
    <2>2. PICK c : /\ customers' = [customers EXCEPT ![call[q].email] = c]
                   /\ c = [company |-> call[q].company] \/ c = customers[call[q].email]
      BY <1>6 DEF Staff!FindOrCreateByEmail
    <2>3. c \in [company : BOOLEAN] \cup {None}
      BY <2>1, <2>2 DEF StaffTypes
    <2> QED
      BY <1>2, <2>1, <2>2, <2>3
  <1>7. CASE Staff!UpsertForStaff(q)
    <2>1. call[q].email \in Emails
      BY <1>3, <1>7 DEF Staff!UpsertForStaff
    <2>2. PICK e, c, k : /\ e = call[q].email /\ c = Staff!CustomerForStaff(e)
                         /\ customers' = [customers EXCEPT ![e] = c]
                         /\ k = [email |-> e, customerType |-> IF c.company THEN "B2B" ELSE "B2C"]
                         /\ tickets' = tickets \cup {k}
      BY <1>7 DEF Staff!UpsertForStaff
    <2>3. c \in [company : BOOLEAN] \cup {None}
      BY <2>1, <2>2 DEF StaffTypes, Staff!CustomerForStaff
    <2>4. k \in [email : Emails, customerType : {"B2B", "B2C"}]
      BY <2>1, <2>2
    <2> QED
      BY <2>1, <2>2, <2>3, <2>4 DEF StaffTypes
  <1>8. CASE ~(\/ Staff!CreateCustomer(q) \/ Staff!FindOrCreateByEmail(q)
               \/ Staff!UpsertForStaff(q))
    <2>1. UNCHANGED <<customers, tickets>>
      BY <1>8 DEF Staff!Step, Staff!StaffSignupPage, Staff!StaffLoginPage,
         Staff!CreateUserPage, Staff!TicketPages, Staff!Ask, Staff!FindUser, Staff!CreateUser,
         Staff!CreateCredential, Staff!Login, Staff!FindCustomer, Staff!FindRequester,
         Staff!Fail
    <2> QED
      BY <1>1, <2>1
  <1> QED
    BY <1>5, <1>6, <1>7, <1>8

LEMMA SpecStaffTypes == Spec => []StaffTypes
  <1>1. Init => StaffTypes
    BY DEF Init, Staff!Init, StaffTypes
  <1>2. StaffInv /\ StaffTypes /\ [Next]_vars => StaffTypes'
    <2> SUFFICES ASSUME StaffInv, StaffTypes, [Next]_vars PROVE StaffTypes'
      OBVIOUS
    <2>1. CASE StaffStep
      BY <2>1, CustomersTyped DEF StaffStep, Staff!Next
    <2>2. CASE ~StaffStep
      BY <2>2 DEF Next, vars, BulkStep, InThread, staffVars, StaffTypes
    <2> QED
      BY <2>1, <2>2
  <1> QED
    BY <1>1, <1>2, SpecStaffInv, PTL DEF Spec

\* The variables of the bulk assistant, of a ticket's page and of the accounts have
\* the types of the rows, cards and calls they stand for, in every reachable state.
THEOREM PagesTypeCorrect == Spec => []TypeOK
  <1>1. CardsInv => Bulk!TypeOK
    BY DEF CardsInv
  <1>2. ThreadInv => Thread!TypeOK
    <2> SUFFICES ASSUME ThreadInv PROVE Thread!TypeOK
      OBVIOUS
    <2>1. \A i \in DOMAIN entries : entries[i] \in Thread!Entry
      BY EntriesTyped DEF ThreadInv
    <2>2. \A p \in Thread!Pages : \A i \in DOMAIN shown[p] : shown[p][i] \in Thread!Entry
      <3> SUFFICES ASSUME NEW p \in Thread!Pages, NEW i \in DOMAIN shown[p]
                   PROVE  shown[p][i] \in Thread!Entry
        OBVIOUS
      <3>1. shown[p] \in Seq(Thread!Entry)
        BY DEF ThreadInv, ShownInv
      <3> QED
        BY <3>1, ElementOfSeq, LenProperties
    <2>3. Thread!IsABag(reads) /\ \A r \in Thread!BagToSet(reads) : r.page \in Thread!Pages
      BY DEF ThreadInv, ReadsInv, GoodRead, Thread!BagToSet
    <2> QED
      BY <2>1, <2>2, <2>3 DEF ThreadInv, RowsInv, ReadsInv, ShownInv, Thread!TypeOK
  <1>3. StaffInv /\ StaffTypes /\ ThreadInv => Staff!TypeOK
    BY DEF StaffInv, RequestsWellFormed, UsersAreAskedFor, PasswordsAreTheAccounts,
       TokensAreTheAccounts, StaffTypes, ThreadInv, Staff!TypeOK
  <1>4. CardsInv /\ ThreadInv /\ StaffInv /\ StaffTypes => TypeOK
    BY <1>1, <1>2, <1>3 DEF TypeOK
  <1> QED
    BY <1>4, SpecCardsInv, SpecThreadInv, SpecStaffInv, SpecStaffTypes, PTL
==============================================================================
