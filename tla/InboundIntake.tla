---------------------------- MODULE InboundIntake -----------------------------
(***************************************************************************)
(* How queries come in from outside (intake.service.ts): the mail service  *)
(* calls a webhook for every mail and calls it again until it is answered  *)
(* with a 2xx; visitors send the public web form.  A mail is a reply on    *)
(* its sender's own ticket, which becomes a comment, or a query, which is  *)
(* staged for IntakeTriage.  Which of the two is found out at every        *)
(* delivery, from the tickets there are by then.  The handlers write       *)
(* without a transaction and do not remember which mails they have seen.   *)
(***************************************************************************)
EXTENDS Naturals, FiniteSets

CONSTANTS
  Mails, Visits,            \* webhook events, and visits to the web form
  EventOf,                  \* what the webhook says of a mail
  FromOf, SubjectOf,        \* its From header and its subject
  Filed,                    \* the tickets before the first delivery: number to customer
  Numbers,                  \* bound on the numbers tickets are given
  People,                   \* mailboxes, up to the case of their letters
  Departments, KeywordDept, \* the department a source's words name, or None
  None,
  MaxIncoming,              \* bound on the sources that come in
  MaxFaults                 \* bound on failures, lost answers and restarts

Sources == Mails \cup Visits

\* One call per delivery; a further delivery takes a fault of the one before.
Attempts == 1 .. MaxFaults + 1

Deliveries == Sources \X Attempts

\* A From header is "Name <address>", a bare address, or neither; a malformed
\* answer of the mail service has none at all.
From == [shape : {"named", "bare", "other", "missing"}, person : People, capitals : BOOLEAN]

\* The digits a subject has behind a department's key and behind "ticket" or "#".
Subject == [dash : Nat \cup {None}, word : Nat \cup {None}]

ASSUME SourcesAssumption ==
  /\ Mails \cap Visits = {}
  /\ EventOf \in [Mails -> {"email.received", "other"}]
  /\ FromOf \in [Mails -> From]
  /\ SubjectOf \in [Mails -> Subject]
  /\ KeywordDept \in [Sources -> Departments \cup {None}]

ASSUME TicketsAssumption ==
  /\ Numbers \subseteq Nat
  /\ DOMAIN Filed \subseteq Numbers
  /\ Filed \in [DOMAIN Filed -> People]

ASSUME NoneAssumption ==
  None \notin Nat \cup People \cup Departments \cup {"ok", "skipped", "failed"}

ASSUME BoundAssumption == MaxFaults \in Nat /\ MaxIncoming \in Nat

VARIABLES
  config,     \* what the environment variables and the seed leave to be done
  active,     \* the departments that are live
  tickets,    \* the address of every ticket's customer, by number
  waiting,    \* the mails not yet acknowledged and the forms not yet accepted
  comments,   \* the deliveries that have added a comment
  staged,     \* the suggested department of each delivery that staged a query
  audit,      \* the deliveries whose comment is in the audit log
  req,        \* the handlers
  faults

vars == <<config, active, tickets, waiting, comments, staged, audit, req, faults>>
-----------------------------------------------------------------------------
\* Only one thing at a time is set up wrongly: intake switched off, the webhook
\* secret or the API key missing, no organisation seeded.
Configs == {"ok", "off", "noSecret", "noKey", "noOrg"}

Pcs == {"idle", "fetch", "findTicket", "comment", "audit", "org", "classify", "stage",
        "answer", "done"}

\* answer: "skipped" is a 200 that leaves no record.  heard: nobody has given up
\* on the answer.  suggestion: what classifyDepartment() has come up with.
Handler == [pc : Pcs, answer : {None, "ok", "skipped", "failed"}, heard : BOOLEAN,
            suggestion : Departments \cup {None}]

TypeOK ==
  /\ config \in Configs
  /\ active \subseteq Departments
  /\ DOMAIN tickets \subseteq Numbers
  /\ tickets \in [DOMAIN tickets -> People]
  /\ waiting \subseteq Sources
  /\ comments \subseteq Deliveries
  /\ DOMAIN staged \subseteq Deliveries
  /\ \A d \in DOMAIN staged : staged[d] \in Departments \cup {None}
  /\ audit \subseteq comments
  /\ req \in [Deliveries -> Handler]
  /\ faults \in 0 .. MaxFaults
-----------------------------------------------------------------------------
SourceOf(d) == d[1]

DeliveriesOf(s) == {d \in Deliveries : SourceOf(d) = s}

\* parseFromHeader: the address, or null.
ParseFromHeader(from) == IF from.shape \in {"named", "bare"} THEN from.person ELSE None

\* extractTicketNumber: the number behind a key comes first.
ExtractTicketNumber(subject) == IF subject.dash # None THEN subject.dash ELSE subject.word

\* The sender is the customer of the ticket named in the subject, in whatever
\* case he writes his address, as far as a table of tickets goes.
NamesOwnTicket(m, table) ==
  LET number == ExtractTicketNumber(SubjectOf[m])
  IN  number \in DOMAIN table /\ table[number] = ParseFromHeader(FromOf[m])

\* verifySvixSignature: all headers, a time stamp of the last five minutes, one
\* matching signature.
Verified(headers) == headers.complete /\ headers.age <= 5 /\ headers.signed

Headers == [complete : BOOLEAN, age : {0, 6}, signed : BOOLEAN]

Goto(d, pc) == req' = [req EXCEPT ![d].pc = pc]

Respond(d, answer) == req' = [req EXCEPT ![d].pc = "answer", ![d].answer = answer]

\* A delivery whose handler has not come to its end.
InProgress(d) == req[d].pc \notin {"idle", "done"}

Fresh == [pc |-> "idle", answer |-> None, heard |-> TRUE, suggestion |-> None]

Init ==
  /\ config \in Configs
  /\ active \in SUBSET Departments
  /\ tickets = Filed
  /\ waiting \in {s \in SUBSET Sources : Cardinality(s) <= MaxIncoming}
  /\ comments = {} /\ staged = <<>> /\ audit = {}
  /\ req = [d \in Deliveries |-> Fresh]
  /\ faults = 0
-----------------------------------------------------------------------------
(* The two public routes *)

\* The first delivery nobody has made use of; earlier ones are over or given up:
\* the form's button is disabled while its answer is awaited, and the mail
\* service delivers one after the other.
IsNext(d) ==
  /\ req[d].pc = "idle"
  /\ \A e \in DeliveriesOf(SourceOf(d)) :
       e[2] < d[2] => req[e].pc # "idle" /\ (InProgress(e) => ~req[e].heard)

\* inboundEmail(): a refusal at the door leaves no trace but the mail still waiting.
ReceiveMail(d, headers) ==
  LET m == SourceOf(d)
  IN  /\ m \in Mails \cap waiting
      /\ IsNext(d)
      /\ CASE config = "off" -> Respond(d, "skipped")
           [] config # "off" /\ config # "noSecret" /\ Verified(headers) ->
                IF EventOf[m] = "email.received" THEN Goto(d, "fetch")
                ELSE Respond(d, "skipped")
           [] OTHER -> UNCHANGED req
      /\ UNCHANGED <<config, active, tickets, waiting, comments, staged, audit, faults>>

\* The web form: after a failure the visitor may press its button again.
SubmitForm(d) ==
  /\ SourceOf(d) \in Visits \cap waiting
  /\ IsNext(d)
  /\ config # "off"
  /\ Goto(d, "org")
  /\ UNCHANGED <<config, active, tickets, waiting, comments, staged, audit, faults>>
-----------------------------------------------------------------------------
(* handleInboundEmail() and createStagedQuery() *)

\* There are an address and a number to look for.
MayBeReply(m) ==
  ParseFromHeader(FromOf[m]) # None /\ ExtractTicketNumber(SubjectOf[m]) # None

\* Mutant: without a key the webhook is answered with an error.
FetchReceivedEmailOrThrow(d) ==
  LET m == SourceOf(d)
  IN  /\ req[d].pc = "fetch"
      /\ IF config = "noKey" \/ FromOf[m].shape = "missing" THEN req' = [req EXCEPT ![d] = Fresh]
         ELSE Goto(d, IF MayBeReply(m) THEN "findTicket" ELSE "org")
      /\ UNCHANGED <<config, active, tickets, waiting, comments, staged, audit, faults>>

\* fetchReceivedEmail(): without a key the mail is dropped with a 200.  A body
\* without a From header is not caught there: parsing it throws, and the mail
\* stays where it was.
FetchReceivedEmail(d) ==
  LET m == SourceOf(d)
  IN  /\ req[d].pc = "fetch"
      /\ CASE config = "noKey" -> Respond(d, "skipped")
           [] config # "noKey" /\ FromOf[m].shape = "missing" -> req' = [req EXCEPT ![d] = Fresh]
           [] OTHER -> Goto(d, IF MayBeReply(m) THEN "findTicket" ELSE "org")
      /\ UNCHANGED <<config, active, tickets, waiting, comments, staged, audit, faults>>

\* The same after a request that failed.
FetchFails(d) ==
  /\ req[d].pc = "fetch"
  /\ faults < MaxFaults
  /\ faults' = faults + 1
  /\ Respond(d, "skipped")
  /\ UNCHANGED <<config, active, tickets, waiting, comments, staged, audit>>

\* Mutant: a mail that has left a comment is not taken for a reply again.
FindTicketOnce(d) ==
  /\ req[d].pc = "findTicket"
  /\ Goto(d, IF NamesOwnTicket(SourceOf(d), tickets) /\ DeliveriesOf(SourceOf(d)) \cap comments = {}
             THEN "comment" ELSE "org")
  /\ UNCHANGED <<config, active, tickets, waiting, comments, staged, audit, faults>>

\* tryAddReplyComment() asks the table of tickets as it is now.
FindTicket(d) ==
  /\ req[d].pc = "findTicket"
  /\ Goto(d, IF NamesOwnTicket(SourceOf(d), tickets) THEN "comment" ELSE "org")
  /\ UNCHANGED <<config, active, tickets, waiting, comments, staged, audit, faults>>

CreateComment(d) ==
  /\ req[d].pc = "comment"
  /\ comments' = comments \cup {d}
  /\ Goto(d, "audit")
  /\ UNCHANGED <<config, active, tickets, waiting, staged, audit, faults>>

LogReply(d) ==
  /\ req[d].pc = "audit"
  /\ audit' = audit \cup {d}
  /\ Respond(d, "ok")
  /\ UNCHANGED <<config, active, tickets, waiting, comments, staged, faults>>

\* Without an organisation the call fails and leaves nothing behind.
FindOrg(d) ==
  /\ req[d].pc = "org"
  /\ IF config = "noOrg" THEN req' = [req EXCEPT ![d] = Fresh] ELSE Goto(d, "classify")
  /\ UNCHANGED <<config, active, tickets, waiting, comments, staged, audit, faults>>

\* classifyDepartment(): a live department whose keywords match, else one the
\* model picks from the list, else (or after any error) none.
Classify(d) ==
  LET named == KeywordDept[SourceOf(d)]
  IN  /\ req[d].pc = "classify"
      /\ \E choice \in IF named \in active THEN {named, None} ELSE active \cup {None} :
           req' = [req EXCEPT ![d].pc = "stage", ![d].suggestion = choice]
      /\ UNCHANGED <<config, active, tickets, waiting, comments, staged, audit, faults>>

\* Mutant: the queue's insert is not awaited.
AnswerThenStage(d) ==
  /\ req[d].pc = "stage"
  /\ Respond(d, "ok")
  /\ UNCHANGED <<config, active, tickets, waiting, comments, staged, audit, faults>>

CreateQuery(d) ==
  /\ req[d].pc = "stage"
  /\ staged' = [e \in DOMAIN staged \cup {d} |-> IF e = d THEN req[d].suggestion ELSE staged[e]]
  /\ Respond(d, "ok")
  /\ UNCHANGED <<config, active, tickets, waiting, comments, audit, faults>>
-----------------------------------------------------------------------------
(* Answers and failures *)

\* The answer arrives: the visitor is thanked, the mail service has delivered.
\* Anything but a 2xx leaves the source waiting.
AnswerHeard(d) ==
  /\ req[d].pc = "answer"
  /\ Goto(d, "done")
  /\ waiting' = IF req[d].heard /\ req[d].answer # "failed" THEN waiting \ {SourceOf(d)}
                ELSE waiting
  /\ UNCHANGED <<config, active, tickets, comments, staged, audit, faults>>

\* The answer is lost, or too late for the mail service.
GiveUp(d) ==
  /\ InProgress(d) /\ req[d].heard
  /\ faults < MaxFaults
  /\ faults' = faults + 1
  /\ req' = [req EXCEPT ![d].heard = FALSE]
  /\ UNCHANGED <<config, active, tickets, waiting, comments, staged, audit>>

\* Mutant: an unreadable ticket counts as no ticket.
CallFailsOver(d) ==
  /\ req[d].pc \in {"findTicket", "comment", "audit", "org", "stage"}
  /\ faults < MaxFaults
  /\ faults' = faults + 1
  /\ IF req[d].pc \in {"findTicket", "audit"} THEN Goto(d, "org") ELSE Respond(d, "failed")
  /\ UNCHANGED <<config, active, tickets, waiting, comments, staged, audit>>

\* A database call throws: 500.
CallFails(d) ==
  /\ req[d].pc \in {"findTicket", "comment", "audit", "org", "stage"}
  /\ faults < MaxFaults
  /\ faults' = faults + 1
  /\ Respond(d, "failed")
  /\ UNCHANGED <<config, active, tickets, waiting, comments, staged, audit>>

\* The server stops and starts again, perhaps set up differently.
Restart ==
  /\ faults < MaxFaults
  /\ faults' = faults + 1
  /\ config' \in Configs
  /\ req' = [d \in Deliveries |->
       IF InProgress(d) THEN [req[d] EXCEPT !.pc = "done", !.answer = "failed"] ELSE req[d]]
  /\ UNCHANGED <<active, tickets, waiting, comments, staged, audit>>
\* Somebody files a ticket, for a query of the queue or for anybody else.
FileTicket(number, customer) ==
  /\ number \notin DOMAIN tickets
  /\ tickets' = [n \in DOMAIN tickets \cup {number} |-> IF n = number THEN customer ELSE tickets[n]]
  /\ UNCHANGED <<config, active, waiting, comments, staged, audit, req, faults>>
-----------------------------------------------------------------------------
Receive(d) == (\E headers \in Headers : ReceiveMail(d, headers)) \/ SubmitForm(d)

Handle(d) ==
  \/ FetchReceivedEmail(d) \/ FindTicket(d) \/ CreateComment(d) \/ LogReply(d)
  \/ FindOrg(d) \/ Classify(d) \/ CreateQuery(d) \/ AnswerHeard(d)

Fail(d) == FetchFails(d) \/ GiveUp(d) \/ CallFails(d)

Next ==
  \/ \E d \in Deliveries : Receive(d) \/ Handle(d) \/ Fail(d)
  \/ \E number \in Numbers, customer \in People : FileTicket(number, customer)
  \/ Restart

Spec == Init /\ [][Next]_vars

\* A genuine delivery, on time.
Redeliver(d) == ReceiveMail(d, [complete |-> TRUE, age |-> 0, signed |-> TRUE])

\* Node runs every handler on, and the mail service delivers until it is heard.
FairSpec ==
  /\ Spec
  /\ \A d \in Deliveries : WF_vars(Handle(d))
  /\ \A d \in Mails \X Attempts : WF_vars(Redeliver(d))
-----------------------------------------------------------------------------
(* Properties *)

Recorded(d) == d \in comments \/ d \in DOMAIN staged

\* A reply on a ticket its sender already had when he wrote it never lands in the
\* queue as a query of its own, however often it is delivered and whatever fails
\* (tryAddReplyComment(): "rather than staging a duplicate query").
RepliesNotQueued ==
  \A d \in DOMAIN staged : SourceOf(d) \in Mails => ~NamesOwnTicket(SourceOf(d), Filed)

\* Once a delivery of a mail has left a comment, every later look at the tickets
\* takes that mail for a reply again.  The other way round a mail may change: one
\* that was staged becomes a reply when the ticket it names is filed meanwhile.
ReplyStaysReply ==
  [][\A d \in Deliveries :
       /\ DeliveriesOf(SourceOf(d)) \cap comments # {}
       /\ req[d].pc \in {"fetch", "findTicket"}
       => req'[d].pc # "org"]_vars

\* The mail service stops delivering a mail, and a visitor is thanked, only when
\* it is on record, unless the mail was dropped with a 200: intake switched off,
\* no API key, a fetch that failed, or an event that is not a mail.
AcknowledgedIsRecorded ==
  \A s \in Sources \ waiting :
    (\E d \in DeliveriesOf(s) : req[d].pc # "idle") =>
      \E d \in DeliveriesOf(s) :
        req[d].answer = "skipped" \/ (Recorded(d) /\ (d \in comments => d \in audit))

\* Once nothing more goes wrong and intake is set up, every mail that has a
\* sender is acknowledged.  (One without comes again and again.)
MailSettles ==
  (<>[](config \notin {"noSecret", "noOrg"})) =>
    \A m \in Mails : FromOf[m].shape # "missing" => <>(m \notin waiting)
=============================================================================
