------------------------------ MODULE TicketForms -----------------------------
(***************************************************************************)
(* The pages on which a ticket is put together, in the browser: the staff  *)
(* form (NewTicketPage), the employee's (RaiseTicketPage) and the panel of *)
(* the intake queue (IntakeQueuePage's ConvertPanel).  Every choice starts *)
(* requests whose answers arrive in any order, and mostly nothing checks   *)
(* that an answer still fits the form; TicketsService.create() decides.    *)
(* A call is under way from the action that sends it to the action that    *)
(* takes it out of net.                                                    *)
(***************************************************************************)
EXTENDS Naturals, Sequences, Bags

CONSTANTS
  Departments, Types, DeptOf,  \* the active ticket types, each of one department
  SchemaOf,                    \* the fields of each version of a type
  Priorities,
  Pages,                       \* the pages to look at
  None,
  MaxVersion,                  \* bound on the versions of each type
  MaxCalls, MaxEdits, MaxLost  \* bounds on the calls under way, on edits, lost answers

AllPages == {"new", "raise", "convert"}

CustomerTypes == {"B2B", "B2C"}

Field == [key : STRING, required : BOOLEAN, appliesTo : CustomerTypes \cup {"BOTH"}]

ASSUME SchemaAssumption ==
  /\ DeptOf \in [Types -> Departments]
  /\ MaxVersion \in [Types -> Nat \ {0}]
  /\ \A t \in Types : \A n \in 1 .. MaxVersion[t] : \A f \in SchemaOf[t][n] : f \in Field

ASSUME PagesAssumption == Pages \subseteq AllPages

ASSUME PrioritiesAssumption == Priorities # {}

ASSUME NoneAssumption == None \notin Departments \cup Types \cup CustomerTypes

ASSUME BoundAssumption == MaxCalls \in Nat /\ MaxEdits \in Nat /\ MaxLost \in Nat

VARIABLES
  page,       \* which page this is
  form,       \* the page's state
  net,        \* the bag of the calls under way
  latest,     \* the newest published version of each type
  tickets,    \* the tickets created, oldest first
  picked,     \* the type picked by hand in this department and not yet replaced
              \* by a suggestion that was asked for (a history variable)
  proposal,   \* the last confident automatic suggestion applied (likewise)
  lost        \* answers lost so far

vars == <<page, form, net, latest, tickets, picked, proposal, lost>>
-----------------------------------------------------------------------------
\* visited: the departments whose types have been asked for.  typeManuallyPicked,
\* aiAutoTriaged, timer: as in NewTicketPage.  publishedVersion and shown: the
\* number and the fields fetched for the form.  values: the answers.  text: which
\* edit of subject and description.  languageChecked: as in RaiseTicketPage.
Form == [departmentId : Departments \cup {None}, visited : SUBSET Departments,
         ticketTypeId : Types \cup {None}, priority : Priorities,
         typeManuallyPicked : BOOLEAN, aiAutoTriaged : BOOLEAN,
         requester : CustomerTypes \cup {None}, publishedVersion : Nat \cup {None},
         shown : SUBSET Field, values : SUBSET Field, text : Nat,
         languageChecked : BOOLEAN, timer : BOOLEAN, suggesting : BOOLEAN,
         submitting : BOOLEAN, left : BOOLEAN]

Suggestion == [type : Types, priority : Priorities]

\* proposal: what the model had proposed when the form was sent.
Ticket == [departmentId : Departments, ticketTypeId : Types, priority : Priorities,
           version : Nat, values : SUBSET Field, customerType : CustomerTypes,
           aiAutoTriaged : BOOLEAN, proposal : Suggestion \cup {None}]

TypeOK ==
  /\ page \in Pages
  /\ form \in Form
  /\ IsABag(net)
  /\ \A t \in Types : latest[t] \in 1 .. MaxVersion[t]
  /\ \A i \in DOMAIN tickets : tickets[i] \in Ticket
  /\ picked \in Types \cup {None}
  /\ proposal \in Suggestion \cup {None}
  /\ lost \in Nat
-----------------------------------------------------------------------------
\* fieldsForCustomerType
FieldsForCustomerType(fields, customerType) ==
  {f \in fields : f.appliesTo \in {"BOTH", customerType}}

Keys(fields) == {f.key : f \in fields}

\* buildCustomFieldsSchema(): every required field is answered.
IsValid(schema, values) == Keys({f \in schema : f.required}) \subseteq Keys(values)

\* What the schema makes of the values: it strips the keys it does not know.
Parsed(schema, values) == {v \in values : v.key \in Keys(schema)}

\* Calls go out; the answer to call c comes in, and others may follow it.
Send(calls) == net' = net (+) SetToBag(calls) /\ BagCardinality(net') <= MaxCalls

Receive(c, calls) == net' = (net (-) SetToBag({c})) (+) SetToBag(calls)

\* The page's effect on a new type or requester: the form is emptied, and if
\* both are chosen its definition is fetched.
Reloaded(f) == [f EXCEPT !.publishedVersion = None, !.shown = {}, !.values = {}]

FetchForm(f) ==
  IF page = "convert" \/ f.ticketTypeId = None \/ f.requester = None THEN {}
  ELSE {[kind |-> "definition", type |-> f.ticketTypeId, customerType |-> f.requester]}

\* The form with another type or requester.
With(f) == IF f.ticketTypeId = form.ticketTypeId /\ f.requester = form.requester
           THEN [form |-> f, calls |-> {}]
           ELSE [form |-> Reloaded(f), calls |-> FetchForm(f)]

\* A page opened with what it is given.
Opened(d, t, customerType) ==
  [departmentId |-> d, visited |-> {d} \ {None}, ticketTypeId |-> t,
   priority |-> CHOOSE p \in Priorities : TRUE,
   typeManuallyPicked |-> FALSE, aiAutoTriaged |-> FALSE, requester |-> customerType,
   publishedVersion |-> None, shown |-> {}, values |-> {}, text |-> 0,
   languageChecked |-> FALSE, timer |-> FALSE, suggesting |-> FALSE,
   submitting |-> FALSE, left |-> FALSE]

\* The panel opens with what the query suggests, for a customer of either type;
\* the employee's form is for an employee, who is no company's.
Init ==
  /\ page \in Pages
  /\ \/ page = "new" /\ form = Opened(None, None, None)
     \/ page = "raise" /\ form = Opened(None, None, "B2C")
     \/ page = "convert" /\ \E d \in Departments \cup {None}, t \in Types \cup {None},
                               customerType \in CustomerTypes : form = Opened(d, t, customerType)
  /\ net = EmptyBag
  /\ latest = [t \in Types |-> 1]
  /\ tickets = <<>>
  /\ picked = None
  /\ proposal = None
  /\ lost = 0
-----------------------------------------------------------------------------
(* Filling in *)

\* Another department: its types are asked for, and the staff form and the
\* employee's start over with the type.  The panel keeps the type it had.
PickDepartment(d) ==
  /\ d # form.departmentId
  /\ LET chosen == [form EXCEPT !.departmentId = d, !.visited = @ \cup {d}]
         fresh  == [chosen EXCEPT !.ticketTypeId = None, !.typeManuallyPicked = FALSE,
                      !.aiAutoTriaged = FALSE, !.timer = page = "new" /\ form.text > 0]
     IN form' = IF page = "convert" THEN chosen ELSE With(fresh).form
  /\ picked' = None
  /\ UNCHANGED <<page, net, latest, tickets, proposal, lost>>

\* The picker offers the list that came in last: of this department's types, or
\* of those of one looked at before.
PickType(t) ==
  /\ DeptOf[t] \in form.visited /\ t # form.ticketTypeId
  /\ LET f == [form EXCEPT !.ticketTypeId = t, !.typeManuallyPicked = page = "new",
                           !.aiAutoTriaged = FALSE]
     IN form' = With(f).form /\ Send(With(f).calls)
  /\ picked' = IF page = "new" THEN t ELSE None
  /\ UNCHANGED <<page, latest, tickets, proposal, lost>>

\* Only the staff form asks who the ticket is for.
PickRequester(customerType) ==
  /\ page = "new" /\ customerType # form.requester
  /\ LET f == [form EXCEPT !.requester = customerType]
     IN form' = With(f).form /\ Send(With(f).calls)
  /\ UNCHANGED <<page, latest, tickets, picked, proposal, lost>>

\* Mutant: a priority chosen by hand leaves the flag.
PickPriorityOnly(p) ==
  /\ page = "new" /\ p # form.priority
  /\ form' = [form EXCEPT !.priority = p]
  /\ UNCHANGED <<page, net, latest, tickets, picked, proposal, lost>>

PickPriority(p) ==
  /\ page = "new" /\ p # form.priority
  /\ form' = [form EXCEPT !.priority = p, !.aiAutoTriaged = FALSE]
  /\ UNCHANGED <<page, net, latest, tickets, picked, proposal, lost>>

\* An edit of subject or description, which a new check and a new automatic
\* suggestion are due for.
Edit ==
  /\ page # "convert" /\ form.text < MaxEdits
  /\ form' = [form EXCEPT !.text = @ + 1, !.languageChecked = FALSE,
       !.timer = page = "new" /\ ~form.typeManuallyPicked /\ form.departmentId # None]
  /\ UNCHANGED <<page, net, latest, tickets, picked, proposal, lost>>

\* DynamicFormRenderer: an answer to a field that is shown.
FillIn(f) ==
  /\ f \in form.shown \ form.values
  /\ form' = [form EXCEPT !.values = @ \cup {f}]
  /\ UNCHANGED <<page, net, latest, tickets, picked, proposal, lost>>
-----------------------------------------------------------------------------
(* Suggestions *)

Triage(auto) == {[kind |-> "triage", departmentId |-> form.departmentId, auto |-> auto]}

\* A second after the last keystroke.
AutoTriage ==
  /\ form.timer
  /\ Send(Triage(TRUE))
  /\ form' = [form EXCEPT !.timer = FALSE, !.suggesting = TRUE]
  /\ UNCHANGED <<page, latest, tickets, picked, proposal, lost>>

\* The button.
OnSuggestWithAi ==
  /\ form.departmentId # None /\ (form.text > 0 \/ page = "convert")
  /\ ~form.suggesting
  /\ Send(Triage(FALSE))
  /\ form' = [form EXCEPT !.suggesting = TRUE]
  /\ UNCHANGED <<page, latest, tickets, picked, proposal, lost>>

\* What runTriage() does with an answer it applies.
Apply(c, t, p, high) ==
  LET f == [form EXCEPT !.ticketTypeId = t, !.suggesting = FALSE,
                        !.priority = IF page = "new" THEN p ELSE @,
                        !.aiAutoTriaged = c.auto /\ high]
  IN  /\ form' = With(f).form
      /\ Receive(c, With(f).calls)
      /\ picked' = IF c.auto THEN picked ELSE None
      /\ proposal' = IF c.auto /\ high THEN [type |-> t, priority |-> p] ELSE proposal

\* Mutant: the automatic answer is applied whatever has been picked meanwhile.
TriageAnsweredAlways(c) ==
  /\ c.kind = "triage"
  /\ \E t \in Types, p \in Priorities, high \in BOOLEAN :
       DeptOf[t] = c.departmentId /\ Apply(c, t, p, high)
  /\ UNCHANGED <<page, latest, tickets, lost>>

\* AiService.triage(): a type of the department it was asked about.  An automatic
\* answer is dropped once a type has been picked by hand.
TriageAnswered(c) ==
  /\ c.kind = "triage"
  /\ IF c.auto /\ form.typeManuallyPicked
     THEN /\ form' = [form EXCEPT !.suggesting = FALSE]
          /\ Receive(c, {})
          /\ UNCHANGED <<picked, proposal>>
     ELSE \E t \in Types, p \in Priorities, high \in BOOLEAN :
            DeptOf[t] = c.departmentId /\ Apply(c, t, p, high)
  /\ UNCHANGED <<page, latest, tickets, lost>>

TriageFails(c) ==
  /\ c.kind = "triage"
  /\ form' = [form EXCEPT !.suggesting = FALSE]
  /\ Receive(c, {})
  /\ UNCHANGED <<page, latest, tickets, picked, proposal, lost>>
-----------------------------------------------------------------------------
(* The form of the type *)

\* The newest version's number, and a call for its fields.
DefinitionFetched(c) ==
  /\ c.kind = "definition"
  /\ form' = [form EXCEPT !.publishedVersion = latest[c.type]]
  /\ Receive(c, {[kind |-> "fields", type |-> c.type, version |-> latest[c.type],
                  customerType |-> c.customerType]})
  /\ UNCHANGED <<page, latest, tickets, picked, proposal, lost>>

\* getVersionForRenderer()
FieldsFetched(c) ==
  /\ c.kind = "fields"
  /\ form' = [form EXCEPT !.shown =
       FieldsForCustomerType(SchemaOf[c.type][c.version], c.customerType)]
  /\ Receive(c, {})
  /\ UNCHANGED <<page, latest, tickets, picked, proposal, lost>>

\* An administrator publishes, while the page is open.
Publish(t) ==
  /\ ~form.left
  /\ latest[t] < MaxVersion[t]
  /\ latest' = [latest EXCEPT ![t] = @ + 1]
  /\ UNCHANGED <<page, form, net, tickets, picked, proposal, lost>>
-----------------------------------------------------------------------------
(* Submitting *)

Create(f) ==
  {[kind |-> "create", proposal |-> proposal, departmentId |-> f.departmentId,
    ticketTypeId |-> f.ticketTypeId, priority |-> f.priority, requester |-> f.requester,
    values |-> f.values, aiAutoTriaged |-> f.aiAutoTriaged]}

\* Mutant: the staff form may be sent before it is known whom it is for.
IsCompleteEarly ==
  /\ form.departmentId # None /\ form.ticketTypeId # None
  /\ page # "convert" => form.text > 0

\* Everything is chosen and the form's number has come in.
IsComplete ==
  /\ form.departmentId # None /\ form.ticketTypeId # None /\ form.requester # None
  /\ page # "convert" => form.publishedVersion # None /\ form.text > 0

OnSubmit ==
  /\ page = "new" /\ IsComplete /\ ~form.submitting
  /\ form' = [form EXCEPT !.submitting = TRUE]
  /\ Send(Create(form))
  /\ UNCHANGED <<page, latest, tickets, picked, proposal, lost>>

\* The text is checked before the button is disabled.
OnRaise ==
  /\ page = "raise" /\ IsComplete /\ ~form.submitting
  /\ IF form.languageChecked
     THEN form' = [form EXCEPT !.submitting = TRUE] /\ Send(Create(form))
     ELSE UNCHANGED form /\ Send({[kind |-> "check", create |-> Create(form)]})
  /\ UNCHANGED <<page, latest, tickets, picked, proposal, lost>>

OnConvert ==
  /\ page = "convert" /\ IsComplete /\ ~form.submitting
  /\ form' = [form EXCEPT !.submitting = TRUE]
  /\ Send(Create(form))
  /\ UNCHANGED <<page, latest, tickets, picked, proposal, lost>>

\* checkLanguage(): a flag warns and waits for a second click; anything else,
\* an error too, sends the form as it was when it was checked.
LanguageChecked(c) ==
  /\ c.kind = "check"
  /\ \/ /\ form' = [form EXCEPT !.languageChecked = ~form.left]
        /\ Receive(c, {})
     \/ /\ form' = [form EXCEPT !.submitting = ~form.left]
        /\ Receive(c, c.create)
  /\ UNCHANGED <<page, latest, tickets, picked, proposal, lost>>

\* The customer the ticket is for may turn out to be a company's contact with the
\* same address as the person the form was loaded for.
CustomersOf(requester) == {requester, "B2B"}

\* The frozen fields create() validates against.
Schema(c, customerType) ==
  FieldsForCustomerType(SchemaOf[c.ticketTypeId][latest[c.ticketTypeId]], customerType)

\* Mutant: the type is not compared with the department.
AcceptsAnyType(c, customerType) == IsValid(Schema(c, customerType), c.values)

Accepts(c, customerType) ==
  DeptOf[c.ticketTypeId] = c.departmentId /\ IsValid(Schema(c, customerType), c.values)

\* TicketsService.create(), on the values its schema lets through.
NewTicket(c, customerType) ==
  [departmentId |-> c.departmentId, ticketTypeId |-> c.ticketTypeId,
   priority |-> c.priority, version |-> latest[c.ticketTypeId],
   values |-> Parsed(Schema(c, customerType), c.values), customerType |-> customerType,
   aiAutoTriaged |-> c.aiAutoTriaged, proposal |-> c.proposal]

\* The answer to c leaves the page, and what it kept is gone.  Its other calls meet
\* nothing, but a check still sends its form, and what was sent is still created.
Leave(c) ==
  LET rest == net (-) SetToBag({c})
  IN  /\ net' = [d \in {e \in BagToSet(rest) : e.kind \in {"check", "create"}} |-> rest[d]]
      /\ form' = [Opened(None, None, None) EXCEPT !.left = TRUE]
      /\ picked' = None
      /\ proposal' = None

\* Mutant: the page stays as it is once the ticket is there.
CreatedStay(c) ==
  /\ c.kind = "create"
  /\ \E ct \in CustomersOf(c.requester) :
       Accepts(c, ct) /\ tickets' = Append(tickets, NewTicket(c, ct))
  /\ form' = [form EXCEPT !.submitting = FALSE]
  /\ Receive(c, {})
  /\ UNCHANGED <<page, latest, picked, proposal, lost>>

\* The page is left for the new ticket's.
Created(c) ==
  /\ c.kind = "create"
  /\ \E ct \in CustomersOf(c.requester) :
       Accepts(c, ct) /\ tickets' = Append(tickets, NewTicket(c, ct))
  /\ Leave(c)
  /\ UNCHANGED <<page, latest, lost>>

Refused(c) ==
  /\ c.kind = "create" /\ \E ct \in CustomersOf(c.requester) : ~Accepts(c, ct)
  /\ form' = [form EXCEPT !.submitting = FALSE]
  /\ Receive(c, {})
  /\ UNCHANGED <<page, latest, tickets, picked, proposal, lost>>

\* The ticket is there, its answer is lost, the page shows an error.
AnswerLost(c) ==
  /\ lost < MaxLost
  /\ c.kind = "create"
  /\ \E ct \in CustomersOf(c.requester) :
       Accepts(c, ct) /\ tickets' = Append(tickets, NewTicket(c, ct))
  /\ form' = [form EXCEPT !.submitting = FALSE]
  /\ Receive(c, {})
  /\ lost' = lost + 1
  /\ UNCHANGED <<page, latest, picked, proposal>>
-----------------------------------------------------------------------------
\* The user waits while the staff form or the panel is being sent (what is
\* changed then is not in what was sent), and after an error only sends again.
FillingIn ==
  /\ tickets = <<>> /\ (form.submitting => page = "raise")
  /\ \/ \E d \in Departments : PickDepartment(d)
     \/ \E t \in Types : PickType(t)
     \/ \E customerType \in CustomerTypes : PickRequester(customerType)
     \/ \E p \in Priorities : PickPriority(p)
     \/ \E f \in form.shown : FillIn(f)
     \/ Edit \/ AutoTriage \/ OnSuggestWithAi

Submitting == OnSubmit \/ OnRaise \/ OnConvert

Answer(c) ==
  \/ TriageAnswered(c) \/ TriageFails(c) \/ DefinitionFetched(c) \/ FieldsFetched(c)
  \/ LanguageChecked(c) \/ Created(c) \/ Refused(c)

Next ==
  \/ ~form.left /\ (FillingIn \/ Submitting)
  \/ \E c \in BagToSet(net) : Answer(c) \/ AnswerLost(c)
  \/ \E t \in Types : Publish(t)

Spec == Init /\ [][Next]_vars
-----------------------------------------------------------------------------
(* Properties *)

\* A type picked by hand stays until another one is picked, the department is
\* changed or a suggestion is asked for: no automatic answer takes its place,
\* whenever it was asked and whenever it comes in.
HandPickStands == picked # None => form.ticketTypeId = picked

\* A ticket marked as triaged automatically has the very type and priority that
\* a confident automatic suggestion put on the form; a choice by hand or a
\* suggestion asked for has been made since otherwise.
FlagIsHonest ==
  \A i \in DOMAIN tickets :
    LET k == tickets[i]
    IN k.aiAutoTriaged => k.proposal = [type |-> k.ticketTypeId, priority |-> k.priority]

\* Whatever list, suggestion or form the page was left with, a ticket's type is
\* one of its department's, and its answers are to fields of the version it
\* keeps and leave out none that version requires of its customer.
TicketFitsVersion ==
  \A i \in DOMAIN tickets :
    LET k      == tickets[i]
        schema == FieldsForCustomerType(SchemaOf[k.ticketTypeId][k.version], k.customerType)
    IN  /\ DeptOf[k.ticketTypeId] = k.departmentId
        /\ Keys(k.values) \subseteq Keys(schema)
        /\ IsValid(schema, k.values)

\* One ticket is created on a visit to the staff form or the panel, unless the
\* answer to it was lost and the form sent again.  (The employee's form can be
\* sent twice while its text is being checked.)
OneTicketPerVisit == page # "raise" => Len(tickets) <= 1 + lost
=============================================================================
