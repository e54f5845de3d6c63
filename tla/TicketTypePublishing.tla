------------------------- MODULE TicketTypePublishing -------------------------
(***************************************************************************)
(* Ticket types and their versions (ticket-types.service.ts), the switch   *)
(* that turns a department on and provisions its first ticket type         *)
(* (departments.service.ts), and the admin pages that send the requests.   *)
(* The draft tables are open to every administrator while a version is     *)
(* being frozen from them: publish() reads them relation by relation, then *)
(* the last version's number, then inserts.  None of it is a transaction;  *)
(* the unique indexes are all that orders two writers.                     *)
(***************************************************************************)
EXTENDS Naturals, FiniteSets, FiniteSetsExt

CONSTANTS
  Types, Departments, DeptOf,  \* ticket types and the department of each
  DefaultType,                 \* the general-support type of a department
  Items, KindOf,               \* draft rows, named by their unique key
  Initials,                    \* the statuses marked as initial
  Defaults,                    \* the rows provisioning adds
  Admins,
  Requests,                    \* requests, each served once
  Calls,                       \* the requests that may be sent
  None,
  MaxFaults                    \* bound on failed calls

\* The draft tables, in the order in which publish() reads them.
Kinds == {"field", "status", "transition", "rule", "escalation"}

NextKind == [field |-> "status", status |-> "transition", transition |-> "rule",
             rule |-> "escalation", escalation |-> None]

Rows(kind) == {i \in Items : KindOf[i] = kind}

CallType ==
  [op : {"create", "quickCreate", "publish", "ticket"}, by : Admins, type : Types]
    \cup [op : {"add"}, by : Admins, type : Types, item : Items]
    \cup [op : {"update"}, by : Admins, type : Types, item : Items, isDeprecated : BOOLEAN]
    \cup [op : {"toggle"}, by : Admins, type : Types, isActive : BOOLEAN]

ASSUME TypesAssumption ==
  /\ DeptOf \in [Types -> Departments]
  /\ DefaultType \in [Departments -> Types]
  /\ \A d \in Departments : DeptOf[DefaultType[d]] = d

ASSUME ItemsAssumption ==
  /\ KindOf \in [Items -> Kinds]
  /\ IsFiniteSet(Items)
  /\ Initials \subseteq Rows("status")
  /\ Defaults \subseteq Items
  /\ Defaults \cap Initials # {}
  /\ \A kind \in {"field", "transition", "rule"} : Defaults \cap Rows(kind) # {}
  /\ Defaults \cap Rows("escalation") = {}

ASSUME CallsAssumption ==
  /\ Calls \subseteq CallType
  /\ \A c \in Calls : c.op = "update" => KindOf[c.item] = "field"
  /\ \A c \in Calls : c.op = "toggle" => c.type = DefaultType[DeptOf[c.type]]

ASSUME NoneAssumption ==
  /\ None \notin Kinds /\ None \notin Calls
  /\ None \notin {"ok", "lost", "swallowed", "refused", "failed"}

ASSUME BoundAssumption == MaxFaults \in Nat

VARIABLES
  active,     \* Department.isActive
  defined,    \* the TicketTypeDefinition rows
  drafts,     \* the draft rows of each type
  retired,    \* the fields of each type with isDeprecated set
  versions,   \* the TicketTypeVersion rows of each type, by versionNumber
  tickets,    \* the tickets and the version each was raised under
  req,        \* the handlers
  faults

vars == <<active, defined, drafts, retired, versions, tickets, req, faults>>
-----------------------------------------------------------------------------
\* items: the frozen snapshot.  floor: how many versions there were when the
\* publication began (a history variable).
Version == [items : SUBSET Items, floor : Nat]

Ticket == [name : Requests, type : Types, version : Nat]

Pcs == {"idle", "department", "hasType", "findType", "define", "adding",
        "read", "number", "insert", "latest", "ticket", "done"}

\* "lost" and "swallowed": the unique violations update() answers with 200, of
\* the definition itself and of any later insert.
Answers == {None, "ok", "lost", "swallowed", "refused", "failed"}

\* phase: the table being provisioned or read.  todo, checked: its inserts that
\* have not looked, and that have looked, for a row with their key.
\* items, floor, last: what publish() and create() have read.
Handler == [pc : Pcs, call : CallType \cup {None}, phase : Kinds,
            todo : SUBSET Items, checked : SUBSET Items, items : SUBSET Items,
            floor : Nat, last : Nat, answer : Answers]

TypeOK ==
  /\ active \in [Departments -> BOOLEAN]
  /\ defined \subseteq Types
  /\ drafts \in [Types -> SUBSET Items]
  /\ retired \in [Types -> SUBSET Rows("field")]
  /\ \A t \in Types : /\ DOMAIN versions[t] \subseteq Nat
                      /\ \A n \in DOMAIN versions[t] : versions[t][n] \in Version
  /\ tickets \subseteq Ticket
  /\ req \in [Requests -> Handler]
  /\ faults \in Nat
-----------------------------------------------------------------------------
TypeOf(r) == req[r].call.type

Op(r) == req[r].call.op

\* What create() takes out of a version: where a ticket starts and its times.
Usable(items) == items \cap Initials # {} /\ items \cap Rows("rule") # {}

\* findFirst, versionNumber desc; 0 when there is none.
LastNumber(t) == Max(DOMAIN versions[t] \cup {0})

Goto(r, pc) == req' = [req EXCEPT ![r].pc = pc]

Answer(r, answer) == req' = [req EXCEPT ![r].pc = "done", ![r].answer = answer]

\* Promise.all over the default rows of a table.
AddDefaults(h, kind) ==
  [h EXCEPT !.pc = "adding", !.phase = kind, !.todo = Defaults \cap Rows(kind)]

\* A promise of the handler rejects.  update() swallows a unique violation of
\* its provisioning; the inserts running beside the rejected one run on.
Rejected(h, error) ==
  IF h.answer # None THEN h
  ELSE [h EXCEPT !.pc = "done",
                 !.answer = CASE h.call.op = "toggle" /\ error = "P2002" -> "swallowed"
                              [] error = "conflict" -> "refused"
                              [] OTHER -> "failed"]

\* Once every insert of a phase is in: the next phase, publish(), or the answer.
Advanced(h) ==
  IF h.pc # "adding" \/ h.todo \cup h.checked # {} THEN h
  ELSE IF h.call.op = "add" THEN [h EXCEPT !.pc = "done", !.answer = "ok"]
  ELSE IF h.phase = "rule" THEN [h EXCEPT !.pc = "read", !.phase = "field"]
  ELSE AddDefaults(h, NextKind[h.phase])

Init ==
  /\ active = [d \in Departments |-> FALSE]
  /\ defined = {}
  /\ drafts = [t \in Types |-> {}]
  /\ retired = [t \in Types |-> {}]
  /\ versions = [t \in Types |-> <<>>]
  /\ tickets = {}
  /\ req = [r \in Requests |->
       [pc |-> "idle", call |-> None, phase |-> "field", todo |-> {}, checked |-> {},
        items |-> {}, floor |-> 0, last |-> 0, answer |-> None]]
  /\ faults = 0
-----------------------------------------------------------------------------
(* The requests the admin pages send *)

\* Each form of the pages is disabled while its last request is unanswered.
Form(c) == <<c.by, c.op, IF c.op = "add" THEN KindOf[c.item] ELSE None>>

IsBusy(c) == \E s \in Requests : /\ req[s].pc # "idle"
                                 /\ req[s].answer = None
                                 /\ Form(req[s].call) = Form(c)

Start(r, c, h) ==
  /\ req[r].pc = "idle"
  /\ c \in Calls
  /\ req' = [req EXCEPT ![r] = h]
  /\ UNCHANGED <<active, defined, drafts, retired, versions, tickets, faults>>

\* The builder page of a type: one form per draft table.
Section(r, c, kind) ==
  /\ c.op = "add" /\ KindOf[c.item] = kind
  /\ c.type \in defined
  /\ ~IsBusy(c)
  /\ Start(r, c, [req[r] EXCEPT !.pc = "adding", !.call = c, !.todo = {c.item}])

FieldsSection(r, c) == Section(r, c, "field")

StatusesSection(r, c) == Section(r, c, "status")

\* Offered once the type has a status to choose.
TransitionsSection(r, c) ==
  drafts[c.type] \cap Rows("status") # {} /\ Section(r, c, "transition")

SlaRulesSection(r, c) == Section(r, c, "rule")

EscalationRulesSection(r, c) == Section(r, c, "escalation")

OnPublish(r, c) ==
  /\ c.op = "publish" /\ c.type \in defined
  /\ ~IsBusy(c)
  /\ Start(r, c, [req[r] EXCEPT !.pc = "read", !.call = c])

\* TicketTypesAdminPage: a name and one click (or, by the API, a bare type).
OnCreate(r, c) ==
  /\ c.op \in {"create", "quickCreate"}
  /\ ~IsBusy(c)
  /\ Start(r, c, [req[r] EXCEPT !.pc = "findType", !.call = c])

\* DepartmentsAdminPage: busyId remembers the last switch only, so switching a
\* second department releases the first; no switch is sure to be disabled.
OnToggle(r, c) ==
  /\ c.op = "toggle"
  /\ Start(r, c, [req[r] EXCEPT !.pc = "department", !.call = c])

\* Somebody raises a ticket.
RaiseTicket(r, c) ==
  /\ c.op = "ticket"
  /\ Start(r, c, [req[r] EXCEPT !.pc = "latest", !.call = c, !.floor = LastNumber(c.type)])
-----------------------------------------------------------------------------
(* DepartmentsService.update() and the creation of a type *)

UpdateDepartment(r) ==
  /\ req[r].pc = "department"
  /\ active' = [active EXCEPT ![DeptOf[TypeOf(r)]] = req[r].call.isActive]
  /\ IF req[r].call.isActive THEN Goto(r, "hasType") ELSE Answer(r, "ok")
  /\ UNCHANGED <<defined, drafts, retired, versions, tickets, faults>>

\* hasTicketType: any ticket type at all, usable or not.
HasType(r) ==
  /\ req[r].pc = "hasType"
  /\ IF \E t \in defined : DeptOf[t] = DeptOf[TypeOf(r)]
     THEN Answer(r, "ok") ELSE Goto(r, "define")
  /\ UNCHANGED <<active, defined, drafts, retired, versions, tickets, faults>>

\* The pre-check of createDefinition() and quickCreateDefinition().
FindType(r) ==
  /\ req[r].pc = "findType"
  /\ IF TypeOf(r) \in defined THEN Answer(r, "refused") ELSE Goto(r, "define")
  /\ UNCHANGED <<active, defined, drafts, retired, versions, tickets, faults>>

\* Mutant: quick creation leaves the statuses to the administrator.
DefineBare(r) ==
  /\ req[r].pc = "define"
  /\ defined' = defined \cup {TypeOf(r)}
  /\ \/ /\ TypeOf(r) \in defined
        /\ Answer(r, IF Op(r) = "toggle" THEN "lost" ELSE "failed")
     \/ TypeOf(r) \notin defined /\ Op(r) # "toggle" /\ Answer(r, "ok")
     \/ /\ TypeOf(r) \notin defined /\ Op(r) = "toggle"
        /\ req' = [req EXCEPT ![r] = AddDefaults(@, "field")]
  /\ UNCHANGED <<active, drafts, retired, versions, tickets, faults>>

\* The insert of the definition, unique by department and key; provisioning
\* goes on with its fields, quick creation with the statuses.
Define(r) ==
  /\ req[r].pc = "define"
  /\ defined' = defined \cup {TypeOf(r)}
  /\ \/ /\ TypeOf(r) \in defined
        /\ Answer(r, IF Op(r) = "toggle" THEN "lost" ELSE "failed")
     \/ TypeOf(r) \notin defined /\ Op(r) = "create" /\ Answer(r, "ok")
     \/ /\ TypeOf(r) \notin defined /\ Op(r) # "create"
        /\ req' = [req EXCEPT ![r] = AddDefaults(@, IF Op(r) = "toggle" THEN "field" ELSE "status")]
  /\ UNCHANGED <<active, drafts, retired, versions, tickets, faults>>
-----------------------------------------------------------------------------
(* addField(), addStatus(), addTransition(), addSlaRule(), addEscalationRule() *)

\* The look for a row with the same key.
FindRow(r, i) ==
  LET h == [req[r] EXCEPT !.todo = @ \ {i}]
  IN  /\ i \in req[r].todo
      /\ req' = [req EXCEPT ![r] = IF i \in drafts[TypeOf(r)] THEN Rejected(h, "conflict")
                                   ELSE [h EXCEPT !.checked = @ \cup {i}]]
      /\ UNCHANGED <<active, defined, drafts, retired, versions, tickets, faults>>

\* The insert, unique by type and key.
InsertRow(r, i) ==
  LET h == [req[r] EXCEPT !.checked = @ \ {i}]
      t == TypeOf(r)
  IN  /\ i \in req[r].checked
      /\ drafts' = [drafts EXCEPT ![t] = @ \cup {i}]
      /\ req' = [req EXCEPT ![r] = IF i \in drafts[t] THEN Rejected(h, "P2002")
                                   ELSE Advanced(h)]
      /\ UNCHANGED <<active, defined, retired, versions, tickets, faults>>

\* updateField(): no page sends it, the API does.
UpdateField(r, c) ==
  /\ c.op = "update" /\ c.item \in drafts[c.type]
  /\ req[r].pc = "idle"
  /\ retired' = [retired EXCEPT ![c.type] =
                   IF c.isDeprecated THEN @ \cup {c.item} ELSE @ \ {c.item}]
  /\ req' = [req EXCEPT ![r].pc = "done", ![r].call = c, ![r].answer = "ok"]
  /\ UNCHANGED <<active, defined, drafts, versions, tickets, faults>>
-----------------------------------------------------------------------------
(* publish() *)

\* Mutant: only the escalation rules that no version has yet.
FrozenRowsNew(t, kind) ==
  (drafts[t] \cap Rows(kind)) \
    IF kind = "escalation" THEN UNION {versions[t][n].items : n \in DOMAIN versions[t]}
    ELSE retired[t]

\* The rows of a table that go into the snapshot.
FrozenRows(t, kind) == (drafts[t] \cap Rows(kind)) \ retired[t]

\* Mutant: the SLA rules may come later.
MayPublishEarly(items) == items \cap Initials # {}

\* The requirements: a status, an initial one, an SLA rule.
MayPublish(items) == items \cap Initials # {} /\ items \cap Rows("rule") # {}

\* One relation of getDefinitionOrThrow(); after the last, the requirements.
ReadRelation(r) ==
  LET t    == TypeOf(r)
      kind == req[r].phase
      h    == [req[r] EXCEPT !.items = @ \cup FrozenRows(t, kind),
                             !.floor = IF kind = "field" THEN LastNumber(t) ELSE @]
  IN  /\ req[r].pc = "read"
      /\ req' = [req EXCEPT ![r] =
           CASE NextKind[kind] # None -> [h EXCEPT !.phase = NextKind[kind]]
             [] NextKind[kind] = None /\ MayPublish(h.items) -> [h EXCEPT !.pc = "number"]
             [] OTHER -> [h EXCEPT !.pc = "done", !.answer = "refused"]]
      /\ UNCHANGED <<active, defined, drafts, retired, versions, tickets, faults>>

\* Mutant: the number counts every administrator's publication under way.
ReadNumberAhead(r) ==
  /\ req[r].pc = "number"
  /\ req' = [req EXCEPT ![r].pc = "insert",
       ![r].last = LastNumber(TypeOf(r)) + Cardinality({s \in Requests : req[s].pc = "insert"})]
  /\ UNCHANGED <<active, defined, drafts, retired, versions, tickets, faults>>

ReadNumber(r) ==
  /\ req[r].pc = "number"
  /\ req' = [req EXCEPT ![r].pc = "insert", ![r].last = LastNumber(TypeOf(r))]
  /\ UNCHANGED <<active, defined, drafts, retired, versions, tickets, faults>>

\* Mutant: an upsert by type and version number.
UpsertVersion(r) ==
  LET t       == TypeOf(r)
      number  == req[r].last + 1
      version == [items |-> req[r].items, floor |-> req[r].floor]
  IN  /\ req[r].pc = "insert"
      /\ versions' = [versions EXCEPT ![t] =
           [n \in DOMAIN @ \cup {number} |-> IF n = number THEN version ELSE @[n]]]
      /\ Answer(r, "ok")
      /\ UNCHANGED <<active, defined, drafts, retired, tickets, faults>>

\* The insert, unique by type and version number.
InsertVersion(r) ==
  LET t       == TypeOf(r)
      number  == req[r].last + 1
      version == [items |-> req[r].items, floor |-> req[r].floor]
  IN  /\ req[r].pc = "insert"
      /\ IF number \in DOMAIN versions[t]
         THEN req' = [req EXCEPT ![r] = Rejected(@, "P2002")] /\ UNCHANGED versions
         ELSE /\ versions' = [versions EXCEPT ![t] =
                   [n \in DOMAIN @ \cup {number} |-> IF n = number THEN version ELSE @[n]]]
              /\ Answer(r, "ok")
      /\ UNCHANGED <<active, defined, drafts, retired, tickets, faults>>
-----------------------------------------------------------------------------
(* TicketsService.create(), as far as versions go *)

\* Mutant: findFirst without its order.
AnyVersion(r) ==
  /\ req[r].pc = "latest"
  /\ IF DOMAIN versions[TypeOf(r)] = {} THEN Answer(r, "refused")
     ELSE \E n \in DOMAIN versions[TypeOf(r)] :
            req' = [req EXCEPT ![r].pc = "ticket", ![r].last = n]
  /\ UNCHANGED <<active, defined, drafts, retired, versions, tickets, faults>>

\* getLatestPublishedVersion()
LatestVersion(r) ==
  LET last == LastNumber(TypeOf(r))
  IN  /\ req[r].pc = "latest"
      /\ IF last = 0 THEN Answer(r, "refused")
         ELSE req' = [req EXCEPT ![r].pc = "ticket", ![r].last = last]
      /\ UNCHANGED <<active, defined, drafts, retired, versions, tickets, faults>>

CreateTicket(r) ==
  /\ req[r].pc = "ticket"
  /\ tickets' = tickets \cup {[name |-> r, type |-> TypeOf(r), version |-> req[r].last]}
  /\ Answer(r, "ok")
  /\ UNCHANGED <<active, defined, drafts, retired, versions, faults>>

\* A database call of the handler throws; of the inserts under way, one of them.
CallFails(r) ==
  LET running == req[r].todo \cup req[r].checked
  IN  /\ faults < MaxFaults
      /\ \/ /\ running = {} /\ req[r].pc \notin {"idle", "done"}
            /\ req' = [req EXCEPT ![r] = Rejected(@, "error")]
         \/ \E i \in running :
              LET h == [req[r] EXCEPT !.todo = @ \ {i}, !.checked = @ \ {i}]
              IN  req' = [req EXCEPT ![r] = Rejected(h, "error")]
      /\ faults' = faults + 1
      /\ UNCHANGED <<active, defined, drafts, retired, versions, tickets>>
-----------------------------------------------------------------------------
Send(r) ==
  \E c \in Calls :
    \/ FieldsSection(r, c) \/ StatusesSection(r, c) \/ TransitionsSection(r, c)
    \/ SlaRulesSection(r, c) \/ EscalationRulesSection(r, c)
    \/ OnPublish(r, c) \/ OnCreate(r, c) \/ OnToggle(r, c) \/ RaiseTicket(r, c)
    \/ UpdateField(r, c)

Serve(r) ==
  \/ UpdateDepartment(r) \/ HasType(r) \/ FindType(r) \/ Define(r)
  \/ \E i \in Items : FindRow(r, i) \/ InsertRow(r, i)
  \/ ReadRelation(r) \/ ReadNumber(r) \/ InsertVersion(r)
  \/ LatestVersion(r) \/ CreateTicket(r)

Next == \E r \in Requests : Send(r) \/ Serve(r) \/ CallFails(r)

Spec == Init /\ [][Next]_vars
-----------------------------------------------------------------------------
(* Properties *)

\* A ticket can be raised under every version: create() takes the status
\* marked as initial and an SLA rule out of the snapshot, whatever was added,
\* failed or was provisioned halfway while it was being frozen.
VersionUsable ==
  \A t \in Types : \A n \in DOMAIN versions[t] : Usable(versions[t][n].items)

\* Numbers have no gap and are never given twice, so that the newest version
\* is the one with the highest number.
VersionsGapless ==
  \A t \in Types : DOMAIN versions[t] = 1 .. Cardinality(DOMAIN versions[t])

\* The draft tables are append-only, so a publication that begins after an
\* earlier version was inserted repeats all of that version's statuses,
\* transitions and rules.
Supersedes ==
  \A t \in Types : \A n \in DOMAIN versions[t] : \A m \in 1 .. versions[t][n].floor :
    versions[t][m].items \ Rows("field") \subseteq versions[t][n].items

\* A ticket is raised under a version that exists, and never under an older
\* one than the newest at the time its request came in.
TicketOnCurrentVersion ==
  \A k \in tickets : /\ k.version \in DOMAIN versions[k.type]
                     /\ k.version >= req[k.name].floor

\* No handler and no insert left behind by one is under way.
Quiet == \A r \in Requests : /\ req[r].pc \in {"idle", "done"}
                             /\ req[r].todo \cup req[r].checked = {}

\* The requests that create a type of the department.
Creators(d) ==
  {r \in Requests : req[r].pc # "idle" /\ Op(r) \in {"create", "quickCreate", "toggle"}
                    /\ DeptOf[TypeOf(r)] = d}

IsReady(d) == \E t \in Types : DeptOf[t] = d /\ DOMAIN versions[t] # {}

\* A department that is on has a published ticket type once everything has
\* come to rest, if whoever switched it on or created a complete type was told
\* so, even when several did at once and all but one lost the race.
ActivationProvisions ==
  Quiet => \A d \in Departments :
    /\ active[d]
    /\ \A r \in Creators(d) : Op(r) # "create" /\ req[r].answer \in {"ok", "lost"}
    => IsReady(d)

\* The same as the pages and the comment in update() have it: every unique
\* violation it swallows is a "harmless double-activation", so each activation
\* answered with 200 leaves a department that can be used.
ActivatedIsReady ==
  Quiet => \A d \in Departments :
    /\ active[d]
    /\ \A r \in Creators(d) : Op(r) # "create" /\ req[r].answer \in {"ok", "lost", "swallowed"}
    => IsReady(d)
=============================================================================
