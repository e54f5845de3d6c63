-------------------------------- MODULE MCPages --------------------------------
(* Small instances of BulkAssist, TicketThread and Accounts for TLC.  What a   *)
(* browser shows is one of the three; they share no row, so part, chosen at    *)
(* first, says which one runs, and the others stay as they began.              *)
EXTENDS Naturals, FiniteSets, Bags, TLC

CONSTANTS None,
          MaxFaults, MaxCards, MaxEntries, MaxReads,
          Tickets,           \* BulkAssist's
          Emails, Requests   \* Accounts'

VARIABLES part, faults,
          items, queue, approvingAll, running, run, cards, approvals, assistant,
          answered, assigned, posted,
          list, entries, blobs, shown, reads, writes, busy, failed, loaded, early,
          users, credentials, customers, tickets, tokens, pc, call

Bulk == INSTANCE BulkAssist
Thread == INSTANCE TicketThread
Staff == INSTANCE Accounts

ASSUME NoneAssumption == None \notin Staff!Account

ASSUME BoundAssumption ==
  {MaxFaults, MaxCards, MaxEntries, MaxReads} \subseteq Nat /\ IsFiniteSet(Tickets)

bulkVars == <<items, queue, approvingAll, running, run, cards, approvals, assistant,
              answered, assigned, posted>>
threadVars == <<list, entries, blobs, shown, reads, writes, busy, failed, loaded, early>>
staffVars == <<users, credentials, customers, tickets, tokens, pc, call>>
vars == <<part, faults, bulkVars, threadVars, staffVars>>

Init ==
  /\ part \in {"bulk", "thread", "accounts"}
  /\ Bulk!Init /\ Thread!Init /\ Staff!Init
  /\ part # "bulk" => answered = {}
  /\ part # "thread" => list = "files"

BulkStep == part = "bulk" /\ Bulk!Next /\ UNCHANGED <<part, threadVars, staffVars>>
StaffStep == part = "accounts" /\ Staff!Next /\ UNCHANGED <<part, bulkVars, threadVars>>

InThread(A) == part = "thread" /\ A /\ UNCHANGED <<part, bulkVars, staffVars>>

Next == BulkStep \/ InThread(Thread!Next) \/ StaffStep

Spec ==
  /\ Init /\ [][Next]_vars
  /\ WF_vars(InThread(Thread!Poll))
  /\ WF_vars(InThread(Thread!ServeMine))
  /\ WF_vars(InThread(Thread!LoadMine))
-----------------------------------------------------------------------------
\* Each component's variables have their types.
TypeOK == Bulk!TypeOK /\ Thread!TypeOK /\ Staff!TypeOK

\* A ticket is replied to once by its card and once by a sweep of one list.
SentOnceEachWay == Bulk!SentOnceEachWay

\* An approval that assigns has done so before its reply goes out.
AssignedFirst == Bulk!AssignedFirst

\* The sweep has one approval under way at most.
SweepIsSequential == Bulk!SweepIsSequential

\* Every file on a ticket has its bytes.
FilesHaveBytes == Thread!FilesHaveBytes

\* The requester's page shows no internal note and no internal action.
InternalStaysInternal == Thread!InternalStaysInternal

\* A list that came in before anything was added shows everything once.
ShownOnce == Thread!ShownOnce

\* The requester's timeline has all the ticket's milestones in the end.
HistoryCatchesUp ==
  <>[](part = "thread" /\ list = "history" => shown["mine"] = Thread!Public(entries))

\* A password of one's own choosing opens an employee's account only.
SelfServeIsEmployee == Staff!SelfServeIsEmployee

\* An account has the password of the request that opened it.
CredentialIsTheAccounts == Staff!CredentialIsTheAccounts

\* An account without a password is one being opened, or one that failed halfway.
AccountIsUsable == Staff!AccountIsUsable
=============================================================================
