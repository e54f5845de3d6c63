# Ticket platform: TLA+ models, checks and proofs

This directory specifies the ticket platform: a NestJS REST service over
PostgreSQL (Prisma), a cron job for SLA breaches, an intake queue for queries from
outside, and the React pages on which tickets are written, converted and answered.
The modules are translated from the TypeScript source; `PROJECT.json` maps every
definition to the lines it stands for.

Run a model with `tlc -config Flow.cfg MCTicketLifecycle.tla`, check a proof with
`tlapm TicketLifecycleProofs.tla`.

## 1. The system

| Part | State it keeps | Operations | What is hard |
|---|---|---|---|
| Ticket lifecycle (`tickets.service.ts`) | `Ticket`, `Comment`, `AuditLog` rows | transition, assign, escalate, acknowledge, comment, notify manager, archive, unarchive | every handler reads the row, decides, and writes later; only two of them write conditionally (`rowVersion`) |
| SLA breach job (`sla-breach-check.service.ts`) | none; the ticket rows | every five minutes: scan, claim, log, alert | runs overlap each other and the requests; a run may die half-way |
| Escalation policy (`packages/shared/src/escalation-rule.ts`) | frozen per version | resolve a rule, compare with the threshold | defaults, "never" thresholds |
| Notifications | `Notification` rows | fan-out to requester, agent, managers; mark read | sent after the commit, may fail, may arrive after the thing they announce was dealt with |
| Intake triage (`intake.service.ts`, `customers.service.ts`) | `IntakeQuery`, `Company`, `Customer` rows | convert, reject | five or more writes without a transaction; claim and revert |
| Intake channels (`intake.service.ts`, its public controllers) | `IntakeQuery`, `Comment` | inbound-mail webhook, web form | at-least-once delivery, no deduplication, errors that are answered with 200 |
| Ticket types (`ticket-types.service.ts`) | draft tables, `TicketTypeVersion` | author fields, statuses, transitions, rules; publish | publish reads drafts that are being edited; version numbers |
| Departments (`departments.service.ts`) | `Department` | switch on, provision a default type | check-then-act, swallowed unique violations |
| Ticket forms (`NewTicketPage`, `RaiseTicketPage`, `ConvertPanel`), `create()` | the form in the browser, `Ticket` | choose department and type, suggestions of the model, submit | answers in any order, each applied to whatever form is there by then |
| Ticket pages (`TicketDetailPage`, `MyTicketDetailPage`), attachments | lists in the browser, `Comment`, `Attachment`, blobs | load, poll, add | late answers; blob and row are two writes |
| Bulk assistant (`BulkAssistPage`, `bulkAssist()`) | cards in the browser | run, edit, skip, approve, approve all | an approval is two calls; the sweep works on a copy |
| Accounts (`auth.service.ts`, `users.service.ts`, `customers.service.ts`) | `User`, `AuthCredential`, `Customer` | sign-up, new login, log-in, new requester, ticket for a colleague | account and credential are two writes; upserts by address |
| Dashboards, audit browser, portal lists | none | reads | aggregation |
| Mailer, model providers, bootstrap, rest of the frontend | none | - | external services, layout |

How they interact: the REST handlers and the cron job share the database and
nothing else. There are no locks in the process; consistency between two
concurrent handlers comes from conditional updates (`rowVersion`, `isEscalated:
false`, `status: PENDING`), from unique indexes and from transactions.
Notifications are written by the handler that caused them, after its commit.
Intake channels fill the queue that intake triage empties; triage calls ticket
creation and the customer directory directly. A ticket is created against the
newest version of its type and keeps it. The pages talk to the handlers over HTTP,
so that a call, its effect and its answer are three moments.

What makes each part correct:

- *Lifecycle*: a decision made on an earlier read still holds when it is
  written; the timeline is the row's true history; nothing counted is lost;
  what is announced once is announced once.
- *SLA job*: every breached ticket is escalated once, by one run, and somebody
  who can act hears of it.
- *Intake triage*: one query, at most one ticket; a query is never lost between
  the queue and its ticket.
- *Channels*: what is acknowledged is on record; a reply on a ticket its sender has
  is not queued as a new query, whenever and however often it is delivered.
- *Ticket types, departments*: versions are usable, numbered without gaps and never
  change; a ticket stays with its version; a live department can be used.
- *Forms*: what a person chose stays chosen; what is created fits together.
- *Pages*: lists agree with the rows in the end; internal notes stay internal.
- *Bulk assistant*: nothing is sent twice the same way; assignment comes first.
- *Accounts*: a password of one's own choosing does not open another's account.

## 2. Modules

| Module | Role |
|---|---|
| `EscalationRules` | `resolveEscalationRule` and the threshold test, as pure operators |
| `TicketLifecycle` | the tickets: staff requests, SLA runs, notifications |
| `AtomicTicket`, `TicketRefinement` | abstract ticket: each request takes effect in one step on the ticket as it is; `TicketLifecycle` read as one |
| `IntakeTriage` | the triage queue: conversions and rejections |
| `TicketTypePublishing` | ticket types, publishing, provisioning, the version of a new ticket |
| `VersionLog`, `PublishingRefinement` | abstract types: per type an append-only log of usable versions, and tickets pinned to them; `TicketTypePublishing` read as one |
| `InboundIntake` | webhook deliveries and web forms up to the triage queue |
| `TicketForms` | the three forms and `create()`'s checks |
| `BulkAssist` | the bulk assistant's cards and approvals |
| `TicketThread` | the lists of a ticket's page, and files |
| `Accounts` | sign-up, logins, customers by address |
| `MC...` | instances for TLC; `MCPages` holds the last three side by side |
| `TicketLifecycleProofs`, `TicketHistoryProofs`, `TicketNotificationProofs` | theorems about tickets: the rows; their timelines and the refinement; who is told what |
| `IntakeTriageProofs`, `TicketTypePublishingProofs`, `InboundIntakeProofs`, `TicketFormsProofs`, `PagesProofs` | theorems about the others |

### Shape of a handler

A handler is a chain of awaited database calls. In the models one call, or one
interactive transaction, is one action, and anything else may run between two of
them. `req[r]` is the handler of request `r`: `pc` says which call comes next and
the other fields are its local variables (`pc[q]`, `call[q]` in `Accounts`). `Load`
stands for the reads and checks at the top of a handler up to its first write; a
request that fails a check, or finds nothing to do, answers without a write and is
not started. A request is served once; a retry by the client is another request
with the same arguments, except in `InboundIntake`, where redelivery is the point.
Calls that may be lost or fail are bounded by `MaxFaults` (`MaxLost` in
`TicketForms`). On the pages a call under way is an element of a set or a bag
(`net`, `reads`, `writes`, `approvals`), so that answers come in any order.

### TicketLifecycle

State: `ticket` (the fields of the `Ticket` row that handlers write), `comments`,
`audit` (per ticket, in order of commit), `notes` (bell notifications), `req`,
`job`, the clock `now`.

| Code | Actions |
|---|---|
| `transition` | `Load`, `Transition` or `Conflict` (P2025, a 409), `Deliver`/`SkipNotice` for each notification |
| `assign` | `Load`, `Assign` or `Conflict`, `Deliver`... |
| `escalate` | `Load`, `Escalate`, `Deliver`... |
| `acknowledgeEscalation` | `Load`, `Acknowledge`, `AuditAcknowledge`, `MarkReadForTicket` |
| `addComment` | `Load`, `CreateComment`, `StampFirstResponse` (if the row read had none), `Deliver`... |
| `archive`, `unarchive` | `Load`, `SetArchived`, `AuditArchived` |
| `notifyManager` | `Load`, `NotifyManager`, `Deliver` |
| `checkBreaches` | `JobScan`, then per ticket `JobClaim`, `JobAudit`, `JobNotify` |
| `markRead` | `MarkRead` |

The update `where: { id, rowVersion }` inside the transactions of `transition` and
`assign` is one atomic conditional update (PostgreSQL re-evaluates the condition
on the locked row), so the transaction is one action. `escalate`,
`addComment`, `archive` and `acknowledgeEscalation` update by `id` alone: their
actions have no such guard, and write what they decided on `snap`. `Abort` and
`JobAbort` end a handler or a run where it is; `SkipNotice` is `safeNotify`
swallowing an error. Assumed: requests come from authenticated staff whose role and
department do not change; staff stay active; a ticket starts as `create()` leaves
it, with or without an agent of its department.

### IntakeTriage

State: `query`, `companies`, `customer` (per address, its company, or that there is
no row), `tickets` (those created by conversions), `audit`, `req`.

| Code | Actions |
|---|---|
| `convert`: checks | `Load` |
| claim, `updateMany` where PENDING | `Claim` |
| `resolveCompanyId` | `FindCompany`, `CreateCompany` |
| `customer.upsert` (with an `include`: a read, then an insert or update) | `FindCustomer`, `UpsertCustomer` |
| `tickets.create` | `ReadCustomer`, then `CreateTicket` or `RefuseTicket` |
| `catch` block | `Revert` |
| link and log | `Link`, `Audit` |
| `reject` | `Load`, `Reject`, `Audit` |

`CallFails` is an error inside the `try` block, `Die` an error anywhere else or a
crash. Companies and tickets are named by the request that creates them.

### TicketTypePublishing

State: `active`, `defined`, `drafts` (rows by their unique key), `retired`
(deprecated fields), `versions` (per type, by number), `tickets`, `req`.

| Code | Actions |
|---|---|
| builder and admin pages, with the buttons they disable | `FieldsSection`, `StatusesSection`, `TransitionsSection`, `SlaRulesSection`, `EscalationRulesSection`, `OnPublish`, `OnCreate`, `OnToggle`, `RaiseTicket` |
| `DepartmentsService.update` | `UpdateDepartment`, `HasType`, then `provisionDefaultTicketType`: `Define` and the phases below |
| `createDefinition`, `quickCreateDefinition` | `FindType`, `Define`, `AddDefaults` |
| `addField`, `addStatus`, ... | `FindRow`, `InsertRow`; `Promise.all` over the default rows leaves several of them under way |
| `updateField` | `UpdateField` |
| `publish` | `ReadRelation` per table, `ReadNumber`, `InsertVersion` (unique by type and number) |
| `create`, as far as versions go | `LatestVersion`, `CreateTicket` |
| a rejected call | `CallFails`; `Rejected` says what becomes of the answer, which `update()` turns into 200 for a unique violation; inserts that run beside the rejected one run on |

A version's `floor` and a request's `floor` are history variables: how many versions
there were when it began.

### InboundIntake

State: `config` (what is set up wrongly, at most one thing), `active`, `tickets` (number
to customer's address; `Filed` at first), `waiting` (not yet acknowledged), `comments`,
`staged`, `audit`, one handler per delivery.

| Code | Actions |
|---|---|
| `inboundEmail`, `verifySvixSignature` | `ReceiveMail` with any headers |
| `submitLead`, `PublicLeadFormPage` | `SubmitForm` |
| `handleInboundEmail` | `FetchReceivedEmail` or `FetchFails`, `FindTicket`, `CreateComment`, `LogReply` |
| `createStagedQuery` | `FindOrg`, `Classify`, `CreateQuery` |
| `TicketsService.create`, called from anywhere | `FileTicket` |
| the answer, and its loss | `AnswerHeard`, `GiveUp` |
| errors, and the end of the process | `CallFails`, `Restart` (perhaps set up differently) |

The mail service delivers again whatever was not answered with a 2xx; a delivery it
has given up on runs on, beside the next one. Every delivery asks `tickets` anew, and
that table grows meanwhile: the query a mail was staged as may itself be converted into
the ticket the mail names, and the mail, delivered again, is then a comment too. How a
ticket is created is the business of `IntakeTriage` and `TicketForms`; here it is one
step that gives an unused number to somebody. Tickets are never deleted and customers
never change their address in this code. A mail fetched without a From header makes
the parser throw: the delivery ends with nothing done and may begin again. Addresses and
subjects are reduced to what the parsers tell apart.

### TicketForms

State: `page` (one of the three), `form`, `net` (calls under way), `latest`, `tickets`.
`PickDepartment`, `PickType`, `PickRequester`, `PickPriority`, `FillIn`, `Edit` are the
user; `AutoTriage` the timer; `OnSuggestWithAi`, `OnSubmit`, `OnRaise`, `OnConvert` the
buttons. `TriageAnswered`, `DefinitionFetched`, `FieldsFetched`, `LanguageChecked`,
`Created`, `Refused` are answers, `AnswerLost` a lost one. `Accepts` is `create()`'s
validation against the version that is the newest by then, and `Publish` makes one
meanwhile. Where the page cancels an effect's answer (`let cancelled`), the answer has
no effect; elsewhere it is applied to whatever form is there.

### BulkAssist, TicketThread, Accounts

`BulkAssist`: `OnRun`/`ItemsArrive` (`bulkAssist()`), `Edit`, `Check`, `Skip`,
`ApproveOne`, `OnApproveAll`/`SweepNext`/`SweepEnd`, and the answers `AssignAnswered`,
`CommentAnswered`, `ApprovalFails`. A card's update goes to the card of the same ticket
in whatever list is shown by then.

`TicketThread`: `Serve`/`Loaded`/`LoadFails` (a load), `Poll`, `Add`, `SaveBlob`,
`Store`, `Added`, `AddFails`. The lists of comments, files and history work alike and
share nothing, so `list` picks one of them. A row has a visibility: a comment its own, a
row of the timeline PUBLIC if its action is one of the four that `getMyHistory()` gives
the requester, INTERNAL if not (escalations, acknowledgements, archiving). `Visible`
filters the requester's comments and timeline by it, files are for both. A row is added
at a time, also where `assign()` logs an escalation with the assignment.

`Accounts`: `FindUser`, `CreateUser`, `CreateCredential` (`signupEmployee`, `create`),
`Login`, `FindCustomer`, `CreateCustomer`, `FindOrCreateByEmail`, `FindRequester`,
`UpsertForStaff`; `Fail` ends a request between two calls.

`MCPages` composes these three: they share no row, so `part` says which one runs. Its
properties are theirs.

## 3. Runs

Requests, faults and edits are bounded and a request is served once, so the modelled
system may come to rest: `CHECK_DEADLOCK FALSE`.

| Run | Question | Bounds |
|---|---|---|
| `Flow` | Do overlapping moves, assignments and escalations keep history, counter, threshold and announcements right, and implement `AtomicTicket`? | one ticket, 3 requests of 9 kinds, default escalation rule (threshold 2), one failure |
| `Clock` | Do requests and overlapping SLA runs agree on who escalated, once, and is it logged; does the response clock stop for replies? | one ticket, 2 requests of 8 kinds, 2 SLA runs, threshold 1, clock to 2, one failure |
| `Live` | Are breaches escalated and heard of? | 2 tickets with deadlines 0 and 1, clock to 2, one run repeated, 2 requests, no manager in the department |
| `Triage` | Can a query yield two tickets, or a queued query have one; does every claim settle? | 2 queries of one address, 3 requests, one failure |
| `Publishing` | Are versions usable, gapless and cumulative, is a live department ready, and do the handlers implement `VersionLog`? | 2 types in 2 departments, a row of each table, 3 requests of 13, 2 administrators, one failure |
| `Inbound` | Is what is acknowledged on record, is a reply always a reply, does every mail settle? | one of five sources at a time (a reply, a mail about a ticket filed later for its sender or a colleague, a bounce, a mail without a sender, a visit), 3 deliveries of it, 1 new ticket, 2 faults |
| `Forms` | Does a hand-picked type stand, is the AI flag true, does every ticket fit its version? | one type in each of 2 departments, 2 versions of one, 2 calls under way, 2 edits, one lost answer |
| `Pages` | Are approvals, lists and accounts right whatever overlaps? | 2 cards; 3 rows and 2 polls; 3 requests on one address; one fault |

Why the bounds are enough: three requests are a read, a conflicting write in between,
and a third request that builds on what the two left; two suffice where the SLA job is
the third party. Tickets only meet inside one SLA run and queries only through a shared
address or company, hence two of each there. `Flow` uses the default rule, so the
threshold takes two hand-overs, each from a read that may be stale. A clock of 2 gives
a time before, at and after a deadline. Three publishing requests are two publications
and an edit, or an activation, an edit and a ticket. Inbound sources share no row (a
delivery touches its own source's rows only), so one comes in at a time, with enough
faults for a lost answer and an error or a restart in the delivery after it. A second
call on a form is enough for an answer to overtake another. Requests and SLA runs are interchangeable and
used as symmetry sets, never together with liveness.

Fairness. `Live` and `Triage`: an accepted request is served to its end, because the
event loop resumes every handler whose call returns; the cron job runs again and again,
and time passes. `Inbound`: the same for handlers, and the mail service delivers until
it is answered with a 2xx, as its documentation and the webhook's comments say; visitors
are not assumed to press the button again. `Pages`: the timer of the requester's page
fires and its loads are answered. Nobody is assumed to send a request or to read a
notification. The code retries nothing by itself, so the liveness properties of
`Triage` say what holds where nothing has failed, and `Live` sets `MaxFaults = 0`;
`MailSettles` and `HistoryCatchesUp` hold in spite of (finitely many) faults.

### Where the code and its documentation disagree

Each of these runs finds a behaviour that contradicts a comment or a test:

| Run | What happens |
|---|---|
| `Reescalation` | `escalate()` checks on an earlier read and writes unconditionally: the escalation `assign()` made in between, for the hand-overs, becomes a manual one |
| `RejectRace` | `reject()` overwrites a conversion's claim; the rejected query still gets its ticket |
| `SilentActivation` | an activation is answered with 200 although a unique violation deep in its provisioning left the department without a published type |
| `StaffIsB2C` | a ticket for a colleague whose address is a company's contact is B2B |

Seen while modelling, without a run: `assign()` may likewise overwrite a manual
escalation made since its read, because `escalate()` leaves `rowVersion` alone; a mail
fetched without a From header is not dropped, as the comment on `fetchReceivedEmail()`
has it, but answered with 500 and delivered again for ever (`intake.service.ts:81`);
the alert of an escalation is written after its
transaction (`tickets.service.ts:916`), so an acknowledgement in between leaves it
unread; taking the agent off a ticket is logged as an assignment (`:835`); a failing
conversion puts a query back that a colleague has rejected meanwhile; two
conversions may create one new company twice; the employee's form can be sent twice
while its text is being checked; a first load that is answered late shows a new comment
twice or takes it away; the bulk sweep sends cards that were skipped or edited since it
began.

Weaknesses no document denies are recorded under "hazards" with a note: an SLA run that
dies between claim and alert, a conversion that dies between claim and link, a
webhook delivered again after an error, which posts or stages a second time. Where a
property can say that there is no *other* way to the bad state it does
(`EscalationOnTimeline`, `TicketIsLinked`, `OneTicketPerVisit`, `ShownOnce`, and, proved,
`AccountIsUsable`); the runs of the first two then check the failure-free part only, and
what a failure may cost an SLA run is the theorem. For the second record of a mail there
is no such property: when a mail is delivered again is up to the mail service.

## 4. Proofs

Checked by TLAPS for all tickets, staff, requests, rules, types, mails, addresses,
clocks and any number of failures, from the named assumptions on the constants in the
modules. Every invariant that a run checks, and both refinements, are theorems. Most
are not inductive, so each needs an invariant that says *why* they hold:

| Module | Inductive invariant | Theorems |
|---|---|---|
| `TicketLifecycleProofs` | `IInv`: `TypeOK`, `HandlersWellFormed`, `SnapshotsFollowed` | `TypeCorrect`, `SnapshotsAreFollowed`, `MovesAreAlwaysLegal`, `HistoryIsAlwaysKept`, `ThresholdAlwaysEscalates` |
| `TicketHistoryProofs` | and `TimelinesTold`; and `UnloggedBounded` | `ActsAtomicallyAlways`, `TimelineAlwaysReplays`, `ReassignmentsAlwaysCounted`; `EscalationAlwaysOnTimeline` |
| `TicketNotificationProofs` | and `ClaimsSound`; `AnnouncementsSound`; `RepliesStamped` | `BreachAlwaysClaimedOnce`; `ResolutionAlwaysAnnouncedOnce`; `ReplyAlwaysStopsClock` |
| `IntakeTriageProofs` | `TypeOK`, `HandlersWellFormed`, `ClaimExcludes`, `PendingHasNoTicket`, `SingleTicket`; and `CompaniesKept` | `TriageTypeCorrect`, `ClaimAlwaysExcludes`, `PendingNeverHasTicket`, `AtMostOneTicket`; `NamedCompanyAlwaysB2B` |
| `TicketTypePublishingProofs` | `IInv`; and `CopiesKept`; and `Provisioning` | `PublishingTypeCorrect`, `VersionsAlwaysUsable`, `VersionsAlwaysGapless`, `TicketsAlwaysCurrent`, `HandlersKeepLog`; `VersionsAlwaysSupersede`; `ActivationAlwaysProvisions` |
| `InboundIntakeProofs` | `IInv`: `TypeOK`, `Shape`, `TicketsKept`, `AcknowledgedIsOver` | `InboundTypeCorrect`, `RepliesNeverQueued`, `ReplyAlwaysStaysReply`, `AcknowledgedStaysRecorded` |
| `TicketFormsProofs` | `FormsInv` | `FormsTypeCorrect`, `HandPickAlwaysStands`, `FlagAlwaysHonest`, `TicketsAlwaysFitVersion`, `OneTicketAlwaysPerVisit` |
| `PagesProofs` | `StaffInv`, `FilesInv`, `CardsInv`, `ThreadInv`, `StaffTypes` | `SelfServeStaysEmployee`, `CredentialStaysTheAccounts`, `AccountStaysUsable`; `FilesKeepBytes`, `InternalAlwaysStaysInternal`, `AlwaysShownOnce`; `AssignmentComesFirst`, `SweepStaysSequential`, `RepliesSentOnce`; `PagesTypeCorrect` |

*Tickets, the rows.* `TypeOK` alone is not inductive: a handler writes its snapshot
back, so one has to know that snapshots are rows that passed the checks
(`HandlersWellFormed`). `SnapshotsFollowed` is the heart: what a handler read is an
earlier state of the row, and *if the version is still the same, then status,
agent, count and resolution are too*. It holds because each action either keeps
those fields or increments the version (lemmas `HandlerStep`, `RowsFollow`).

*Tickets, the history.* `StepEffect` sorts the steps of all handlers and runs by what
they do to rows and timelines (`Effect`: a move, an assignment, an escalation, a
response, a claim, an entry, or nothing of the kind), always in terms of the row *as it
is*: that is where `SnapshotsFollowed` is spent. The refinement `ActsAtomically` then
maps each effect to one abstract step, and each proof about timelines has one case per
effect. `TimelinesTold` strengthens `TimelineReplays` to chains that appending an entry
extends, and adds the count of hand-overs. For `EscalationOnTimeline`, the tickets that are
escalated without an entry and are in no run's hands are finitely many and no more than
the faults: a run that dies leaves one at most (`UnloggedBounded`).

*Tickets, who is told.* `ClaimsSound`: of a ticket that is not escalated nobody has made
a claim, and a run that is about to log one finds none logged. `AnnouncementsSound`: an
announcement, sent or still to be sent, is of a ticket with a resolution time, and is the
only one. Reopening does not unset that time, so a second resolution announces nothing.
`RepliesStamped`: a reply that leaves the clock alone has read a stamp, and stamps stay.

*Triage.* A second ticket is prevented by the claim, so the lock itself has to be part
of the invariant (one holder per query, no holder of a PENDING query, no ticket before
the holder's own), and also that a query put back has no ticket. `CompaniesKept`
follows a named company through `convert()`: resolved before the customer is written,
with the customer when `create()` reads it, and no upsert takes it away.

*Publishing.* A publication past its checks holds a usable snapshot and a number that
exists or is 0. Numbers stay gapless because it inserts one above a number it *read*, and
versions are never removed: either that number is new, and then it is the next one, or
the unique index refuses it. The refinement maps an insert to `Publish` (lemmas
`AppendedFrozen`, `PublishLog`), a ticket to `Raise`, every other step to a stutter.
`CopiesKept`: of the tables a publication has read so far, it has every row that the
versions below its floor froze. `Provisioning`: behind every live department is a
handler that switched it on, behind every type the handler that inserted it, and one
that answers well has left a version or found another's; when all is at rest, that
other has answered too.

*Channels.* What a mail is may change while it is being delivered, so `Shape` pins each
half of the decision to the tickets that bear it out: a delivery that comments, or has, is
of a mail that is a reply by the tickets *as they are*, and stays one because tickets
only grow; one that stages, or has, is of a mail that was no reply by the tickets
*as they were* at first (`TicketsKept` takes the one to the other, lemma `WasIsReply`).
`AcknowledgedIsOver` adds to `AcknowledgedIsRecorded` that the delivery with the record
is over, so that neither a restart nor another delivery can undo it.

*Forms.* `FormsInv` relates the form to the calls under way and to what was picked and
proposed (`FormFits`): an automatic answer is applied only to a form whose type is not
hand-picked, whatever it was asked for. A call that creates a ticket carries an honest
flag (`CreateCall`); on the staff form and the panel one such call at most is under way,
and until the page is left the answer of every ticket was lost (`OneFormSent`). That a ticket fits its
version is `create()`'s own check at the time of the insert, and versions stay
(`GoodTickets`).

*Accounts.* An account carries the request that opened it, a password and a token that
of their account.

*Bulk assistant.* `CardsInv` identifies a reply by ticket, run and sender. A pending card
has no reply under way or posted, a card still to be swept none of the sweep, and
no reply is under way twice or after it was posted. Runs are counted, so cards of an
older list, still in the queue of a sweep, are told from those of the next.

*Ticket pages.* `ThreadInv`: numbers belong to one row or one call, a load holds a
snapshot of rows of which the requester's has no internal note or action, and, but for
the timeline, a page has one load under way at most and only before its first came in (`ReadsInv`).
That is what keeps a late answer from replacing a list something was appended to, and
`Faithful` then says what `ShownOnce` needs of each call that adds something.

Induction over data. The library's induction theorems take an operator as a parameter,
which the provers cannot instantiate. Where the rows filtered for the requester are to
be known (`PublicRows`), induction is done by a least counterexample, from the library's
theorem on well-founded relations (`LeastNumber`, `Induction`), over a recursive
*function*; so `Visible` is written with one (`Public`) and not with `SelectSeq`.

Assumptions on constants, beyond their types: `None` is none of the values it is used
beside; in `TicketLifecycle`, requests and SLA runs are different (`ActorsAssumption`:
both name the actor of an entry); in `TicketForms`, priorities and schemas are
well-formed; in `MCPages`, bounds are numbers and the cards finitely many. Types do not
state the bounds of the guards (`MaxCalls`, `MaxFaults`), which only keep TLC finite.

Proved and not repeated by a run: the type invariants of `IntakeTriage`,
`TicketTypePublishing` and `InboundIntake`, `SnapshotsFollowed`, `HistoryIsKept`,
`CredentialIsTheAccounts`, `AccountIsUsable`, `AssignedFirst`, `SweepIsSequential`.

Model-checked only: liveness (`Live`, `Triage`'s and `Inbound`'s settling,
`HistoryCatchesUp`), since fairness and ENABLED are beyond the prover.

## 5. Not modelled

- Dashboards, the audit browser, search and the portal's lists: reads that keep no state.
- Mail delivery and the model providers: external; their answers are choices.
- Password hashing, tokens and webhook signatures: cryptography; a signature is right or
  wrong.
- Which agent the model or the shortest queue picks for a new ticket: any agent of the
  department or none is an initial state of `TicketLifecycle`.
- The validation of a single value by its field's type, and the formatting of ticket
  numbers and texts.
- The customer's own log-in, start-up and seed data, and the rest of the frontend
  (navigation, tables, dashboards), which shows what it is given.

## 6. What is left

Every safety property is proved. Left to TLC for good are the liveness properties; what
could be added is their safety core as theorems (for instance that a claim which is not
settled has a handler that can go on). `InboundIntake` and `IntakeTriage` meet in the
queue and in the tickets; a composition would replace `FileTicket`, which files any
ticket at any time, by the conversions that really come, and so allow less.
