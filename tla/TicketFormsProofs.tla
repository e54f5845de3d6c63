---------------------------- MODULE TicketFormsProofs --------------------------
(***************************************************************************)
(* Proofs about the pages on which a ticket is put together, for any       *)
(* number of types, versions, edits and calls under way: the types, the    *)
(* hand-picked type, the honest flag, the fit of a ticket to its version   *)
(* and the one ticket of a visit.                                          *)
(***************************************************************************)
EXTENDS TicketForms, SequenceTheorems, TLAPS
-----------------------------------------------------------------------------
(* The bag of the calls under way *)

LEMMA SendBag ==
  ASSUME IsABag(net), NEW calls, Send(calls)
  PROVE  /\ IsABag(net')
         /\ DOMAIN net' = DOMAIN net \cup calls
         /\ \A d \in DOMAIN net \ calls : net'[d] = net[d]
         /\ \A d \in calls \ DOMAIN net : net'[d] = 1
  <1> DEFINE more == net (+) SetToBag(calls)
  <1>1. net' = more
    BY DEF Send
  <1>2. /\ DOMAIN more = DOMAIN net \cup calls
        /\ \A d \in DOMAIN more :
             more[d] = (IF d \in DOMAIN net THEN net[d] ELSE 0) + (IF d \in calls THEN 1 ELSE 0)
        /\ more = [d \in DOMAIN more |-> more[d]]
    BY DEF (+), SetToBag
  <1> HIDE DEF more
  <1>3. \A d \in DOMAIN net : net[d] \in Nat /\ net[d] > 0
    BY DEF IsABag
  <1>4. /\ \A d \in DOMAIN net \ calls : more[d] = net[d]
        /\ \A d \in calls \ DOMAIN net : more[d] = 1
        /\ \A d \in DOMAIN more : more[d] \in Nat /\ more[d] > 0
    BY <1>2, <1>3
  <1>5. IsABag(more)
    BY <1>2, <1>4 DEF IsABag
  <1> QED
    BY <1>1, <1>2, <1>4, <1>5

LEMMA TakenBag ==
  ASSUME IsABag(net), NEW c \in DOMAIN net
  PROVE  LET rest == net (-) SetToBag({c})
         IN  /\ IsABag(rest)
             /\ DOMAIN rest \subseteq DOMAIN net
             /\ \A d \in DOMAIN rest \ {c} : rest[d] = net[d]
             /\ c \in DOMAIN rest => net[c] # 1
  <1> DEFINE left == [e \in DOMAIN net |-> IF e \in {c} THEN net[e] - 1 ELSE net[e]]
             rest == net (-) SetToBag({c})
  <1>1. rest = [e \in {d \in DOMAIN left : left[d] > 0} |-> left[e]]
    BY DEF (-), SetToBag
  <1>2. /\ DOMAIN left = DOMAIN net
        /\ \A d \in DOMAIN net : left[d] = IF d = c THEN net[d] - 1 ELSE net[d]
        /\ \A d \in DOMAIN net : net[d] \in Nat /\ net[d] > 0
    BY DEF IsABag
  <1> HIDE DEF left, rest
  <1>3. /\ DOMAIN rest = {d \in DOMAIN net : left[d] > 0}
        /\ \A d \in DOMAIN rest : rest[d] = left[d]
        /\ rest = [d \in DOMAIN rest |-> rest[d]]
    BY <1>1, <1>2
  <1>4. \A d \in DOMAIN rest : rest[d] \in Nat /\ rest[d] > 0
    BY <1>2, <1>3
  <1>5. IsABag(rest)
    BY <1>3, <1>4 DEF IsABag
  <1>6. /\ DOMAIN rest \subseteq DOMAIN net
        /\ \A d \in DOMAIN rest \ {c} : rest[d] = net[d]
        /\ c \in DOMAIN rest => net[c] # 1
    BY <1>2, <1>3
  <1> QED
    BY <1>5, <1>6 DEF rest

LEMMA ReceiveBag ==
  ASSUME IsABag(net), NEW c \in DOMAIN net, NEW calls, Receive(c, calls)
  PROVE  /\ IsABag(net')
         /\ DOMAIN net' \subseteq DOMAIN net \cup calls
         /\ \A d \in DOMAIN net' \ calls : d \in DOMAIN net /\ (d # c => net'[d] = net[d])
         /\ c \in DOMAIN net' \ calls => net[c] # 1
  <1> DEFINE rest == net (-) SetToBag({c})
             more == rest (+) SetToBag(calls)
  <1>1. /\ IsABag(rest)
        /\ DOMAIN rest \subseteq DOMAIN net
        /\ \A d \in DOMAIN rest \ {c} : rest[d] = net[d]
        /\ c \in DOMAIN rest => net[c] # 1
    BY TakenBag
  <1>2. net' = more
    BY DEF Receive
  <1> HIDE DEF rest
  <1>3. /\ DOMAIN more = DOMAIN rest \cup calls
        /\ \A d \in DOMAIN more :
             more[d] = (IF d \in DOMAIN rest THEN rest[d] ELSE 0) + (IF d \in calls THEN 1 ELSE 0)
        /\ more = [d \in DOMAIN more |-> more[d]]
    BY DEF (+), SetToBag
  <1> HIDE DEF more
  <1>4. \A d \in DOMAIN rest : rest[d] \in Nat /\ rest[d] > 0
    BY <1>1 DEF IsABag
  <1>5. /\ \A d \in DOMAIN rest \ calls : more[d] = rest[d]
        /\ \A d \in DOMAIN more : more[d] \in Nat /\ more[d] > 0
    BY <1>3, <1>4
  <1>6. IsABag(more)
    BY <1>3, <1>5 DEF IsABag
  <1> QED
    BY <1>1, <1>2, <1>3, <1>5, <1>6
-----------------------------------------------------------------------------
(* The inductive invariant *)

\* What was sent to create a ticket: what the form asked for, and if it says it
\* was triaged automatically, what the model had proposed.
CreateCall(c) ==
  /\ c.departmentId \in Departments /\ c.ticketTypeId \in Types
  /\ c.priority \in Priorities /\ c.requester \in CustomerTypes
  /\ c.values \subseteq Field /\ c.aiAutoTriaged \in BOOLEAN
  /\ c.proposal \in Suggestion \cup {None}
  /\ c.aiAutoTriaged => c.proposal = [type |-> c.ticketTypeId, priority |-> c.priority]

\* Only the staff form asks for suggestions by itself, only the employee's has
\* its text checked.
WellFormedCall(c) ==
  /\ c.kind \in {"triage", "definition", "fields", "check", "create"}
  /\ c.kind = "triage" => /\ c.departmentId \in Departments /\ c.auto \in BOOLEAN
                          /\ c.auto => page = "new"
  /\ c.kind = "definition" => c.type \in Types /\ c.customerType \in CustomerTypes
  /\ c.kind = "fields" => /\ c.type \in Types /\ c.customerType \in CustomerTypes
                          /\ c.version \in 1 .. MaxVersion[c.type]
  /\ c.kind = "check" => /\ page = "raise"
                         /\ \E d : c.create = {d} /\ d.kind = "create" /\ CreateCall(d)
  /\ c.kind = "create" => CreateCall(c)

\* What the form f may be like when a type was picked and a suggestion applied.
FormFits(f, hand, suggestion) ==
  /\ f \in Form
  /\ f.timer => page = "new" /\ f.departmentId # None
  /\ hand # None => f.ticketTypeId = hand /\ f.typeManuallyPicked
  /\ f.aiAutoTriaged => suggestion = [type |-> f.ticketTypeId, priority |-> f.priority]

\* A ticket as FlagIsHonest and TicketFitsVersion have it.
Fits(k) ==
  LET schema == FieldsForCustomerType(SchemaOf[k.ticketTypeId][k.version], k.customerType)
  IN  /\ k.aiAutoTriaged => k.proposal = [type |-> k.ticketTypeId, priority |-> k.priority]
      /\ DeptOf[k.ticketTypeId] = k.departmentId
      /\ Keys(k.values) \subseteq Keys(schema)
      /\ IsValid(schema, k.values)

GoodTickets == {k \in Ticket : Fits(k)}

\* On a visit to the staff form or the panel at most one form is on its way, the
\* page waits for it, and before the page is left every ticket's answer was lost.
OneFormSent ==
  page # "raise" =>
    /\ \A c \in DOMAIN net : c.kind = "create" =>
         /\ net[c] = 1 /\ form.submitting /\ ~form.left
         /\ \A d \in DOMAIN net : d.kind = "create" => d = c
    /\ Len(tickets) <= IF form.left THEN 1 + lost ELSE lost

FormsInv ==
  /\ page \in Pages
  /\ latest \in [Types -> Nat] /\ \A t \in Types : latest[t] \in 1 .. MaxVersion[t]
  /\ picked \in Types \cup {None} /\ proposal \in Suggestion \cup {None} /\ lost \in Nat
  /\ FormFits(form, picked, proposal)
  /\ IsABag(net) /\ \A c \in DOMAIN net : WellFormedCall(c)
  /\ tickets \in Seq(GoodTickets)
  /\ OneFormSent
-----------------------------------------------------------------------------
(* The form, and what a step that sends and creates nothing owes *)

\* A form with another type or requester is the same in all but what is fetched
\* and answered; the call that goes out is for its definition.
LEMMA WithForm ==
  ASSUME NEW f \in Form, NEW hand, NEW suggestion, FormFits(f, hand, suggestion)
  PROVE  /\ FormFits(With(f).form, hand, suggestion)
         /\ With(f).form.submitting = f.submitting /\ With(f).form.left = f.left
         /\ \A c \in With(f).calls : WellFormedCall(c) /\ c.kind # "create"
  <1>1. CASE f.ticketTypeId = form.ticketTypeId /\ f.requester = form.requester
    <2>1. With(f).form = f /\ With(f).calls = {}
      BY <1>1 DEF With
    <2> QED
      BY <2>1
  <1>2. CASE ~(f.ticketTypeId = form.ticketTypeId /\ f.requester = form.requester)
    <2> DEFINE g == [f EXCEPT !.publishedVersion = None, !.shown = {}, !.values = {}]
    <2>1. With(f).form = g /\ With(f).calls = FetchForm(f)
      BY <1>2 DEF With, Reloaded
    <2>2. /\ g \in Form /\ g.timer = f.timer /\ g.departmentId = f.departmentId
          /\ g.ticketTypeId = f.ticketTypeId /\ g.priority = f.priority
          /\ g.typeManuallyPicked = f.typeManuallyPicked /\ g.aiAutoTriaged = f.aiAutoTriaged
          /\ g.submitting = f.submitting /\ g.left = f.left
      BY DEF Form
    <2> HIDE DEF g
    <2>3. FormFits(g, hand, suggestion)
      BY <2>2 DEF FormFits
    <2>4. ASSUME NEW c \in FetchForm(f) PROVE WellFormedCall(c) /\ c.kind # "create"
      <3>1. /\ f.ticketTypeId # None /\ f.requester # None
            /\ c = [kind |-> "definition", type |-> f.ticketTypeId, customerType |-> f.requester]
        BY <2>4 DEF FetchForm
      <3>2. f.ticketTypeId \in Types /\ f.requester \in CustomerTypes
        BY <3>1 DEF Form
      <3> QED
        BY <3>1, <3>2 DEF WellFormedCall
    <2> QED
      BY <2>1, <2>2, <2>3, <2>4
  <1> QED
    BY <1>1, <1>2

\* A step that neither sends a form nor answers one.
LEMMA QuietStep ==
  ASSUME FormsInv, FormFits(form', picked', proposal'),
         form'.submitting = form.submitting, form'.left = form.left,
         IsABag(net'),
         \A d \in DOMAIN net' : /\ WellFormedCall(d)
                                /\ d.kind = "create" => d \in DOMAIN net /\ net'[d] = net[d],
         latest' \in [Types -> Nat], \A t \in Types : latest'[t] \in 1 .. MaxVersion[t],
         picked' \in Types \cup {None}, proposal' \in Suggestion \cup {None},
         UNCHANGED <<page, tickets, lost>>
  PROVE  FormsInv'
  <1>1. FormFits(form, picked, proposal)'
    BY DEF FormFits
  <1>2. \A c \in DOMAIN net' : WellFormedCall(c)'
    BY DEF WellFormedCall
  <1>3. OneFormSent'
    BY DEF FormsInv, OneFormSent
  <1>4. tickets' \in Seq(GoodTickets)
    BY DEF FormsInv
  <1>5. (\A t \in Types : latest[t] \in 1 .. MaxVersion[t])'
    OBVIOUS
  <1> QED
    BY <1>1, <1>2, <1>3, <1>4, <1>5 DEF FormsInv

\* The same for one that sends nothing at all.
LEMMA FormStep ==
  ASSUME FormsInv, FormFits(form', picked', proposal'),
         form'.submitting = form.submitting, form'.left = form.left,
         picked' \in Types \cup {None}, proposal' \in Suggestion \cup {None},
         UNCHANGED <<page, net, latest, tickets, lost>>
  PROVE  FormsInv'
  <1>1. IsABag(net) /\ \A d \in DOMAIN net : WellFormedCall(d)
    BY DEF FormsInv
  <1> QED
    BY <1>1, QuietStep DEF FormsInv

\* The same for one that sends calls of another kind.
LEMMA SendStep ==
  ASSUME FormsInv, FormFits(form', picked', proposal'),
         form'.submitting = form.submitting, form'.left = form.left,
         NEW calls, \A c \in calls : WellFormedCall(c) /\ c.kind # "create",
         Send(calls),
         picked' \in Types \cup {None}, proposal' \in Suggestion \cup {None},
         UNCHANGED <<page, latest, tickets, lost>>
  PROVE  FormsInv'
  <1>1. IsABag(net) /\ \A d \in DOMAIN net : WellFormedCall(d)
    BY DEF FormsInv
  <1>2. /\ IsABag(net')
        /\ \A d \in DOMAIN net' : /\ WellFormedCall(d)
                                  /\ d.kind = "create" => d \in DOMAIN net /\ net'[d] = net[d]
    BY <1>1, SendBag
  <1> QED
    BY <1>2, QuietStep DEF FormsInv

\* The same for an answer to a call of another kind.
LEMMA ReceiveStep ==
  ASSUME FormsInv, FormFits(form', picked', proposal'),
         form'.submitting = form.submitting, form'.left = form.left,
         NEW c \in DOMAIN net, c.kind # "create",
         NEW calls, \A d \in calls : WellFormedCall(d) /\ d.kind # "create",
         Receive(c, calls),
         picked' \in Types \cup {None}, proposal' \in Suggestion \cup {None},
         UNCHANGED <<page, latest, tickets, lost>>
  PROVE  FormsInv'
  <1>1. IsABag(net) /\ \A d \in DOMAIN net : WellFormedCall(d)
    BY DEF FormsInv
  <1>2. /\ IsABag(net')
        /\ \A d \in DOMAIN net' : /\ WellFormedCall(d)
                                  /\ d.kind = "create" => d \in DOMAIN net /\ net'[d] = net[d]
    BY <1>1, ReceiveBag
  <1> QED
    BY <1>2, QuietStep DEF FormsInv
-----------------------------------------------------------------------------
(* Filling in *)

LEMMA PickDepartmentStep ==
  ASSUME FormsInv, NEW d \in Departments, PickDepartment(d)
  PROVE  FormsInv'
  <1> DEFINE chosen == [form EXCEPT !.departmentId = d, !.visited = @ \cup {d}]
             timer == page = "new" /\ form.text > 0
             fresh == [chosen EXCEPT !.ticketTypeId = None, !.typeManuallyPicked = FALSE,
                         !.aiAutoTriaged = FALSE, !.timer = timer]
  <1>1. FormFits(form, picked, proposal) /\ form \in Form /\ d # form.departmentId
    BY DEF FormsInv, FormFits, PickDepartment
  <1>2. /\ chosen \in Form /\ chosen.timer = form.timer /\ chosen.departmentId = d
        /\ chosen.ticketTypeId = form.ticketTypeId /\ chosen.priority = form.priority
        /\ chosen.aiAutoTriaged = form.aiAutoTriaged
        /\ chosen.submitting = form.submitting /\ chosen.left = form.left
    BY <1>1 DEF Form
  <1>3. /\ fresh \in Form /\ fresh.timer = timer /\ fresh.departmentId = d
        /\ fresh.aiAutoTriaged = FALSE
        /\ fresh.submitting = form.submitting /\ fresh.left = form.left
    <2> HIDE DEF chosen
    <2> QED
      BY <1>2 DEF Form
  <1>4. /\ form' = IF page = "convert" THEN chosen ELSE With(fresh).form
        /\ picked' = None
        /\ UNCHANGED <<page, net, latest, tickets, proposal, lost>>
    BY DEF PickDepartment
  <1> HIDE DEF chosen, fresh
  <1>5. CASE page = "convert"
    <2>1. ~form.timer
      BY <1>1, <1>5 DEF FormFits
    <2>2. FormFits(form', picked', proposal')
      BY <1>1, <1>2, <1>4, <1>5, <2>1 DEF FormFits
    <2> QED
      BY <1>2, <1>4, <1>5, <2>2, FormStep DEF FormsInv
  <1>6. CASE page # "convert"
    <2>1. FormFits(fresh, None, proposal)
      <3>1. timer => page = "new" /\ fresh.departmentId # None
        BY <1>3, NoneAssumption
      <3> QED
        BY <1>3, <3>1 DEF FormFits
    <2>2. /\ FormFits(With(fresh).form, None, proposal)
          /\ With(fresh).form.submitting = form.submitting /\ With(fresh).form.left = form.left
      BY <1>3, <2>1, WithForm
    <2> QED
      BY <1>4, <1>6, <2>2, FormStep DEF FormsInv
  <1> QED
    BY <1>5, <1>6

LEMMA PickTypeStep ==
  ASSUME FormsInv, NEW t \in Types, PickType(t)
  PROVE  FormsInv'
  <1> DEFINE byHand == page = "new"
             f == [form EXCEPT !.ticketTypeId = t, !.typeManuallyPicked = byHand,
                               !.aiAutoTriaged = FALSE]
  <1>1. FormFits(form, picked, proposal) /\ form \in Form
    BY DEF FormsInv, FormFits
  <1>2. /\ f \in Form /\ f.timer = form.timer /\ f.departmentId = form.departmentId
        /\ f.ticketTypeId = t /\ f.typeManuallyPicked = byHand /\ f.aiAutoTriaged = FALSE
        /\ f.submitting = form.submitting /\ f.left = form.left
    BY <1>1 DEF Form
  <1>3. /\ form' = With(f).form /\ Send(With(f).calls)
        /\ picked' = IF page = "new" THEN t ELSE None
        /\ UNCHANGED <<page, latest, tickets, proposal, lost>>
    BY DEF PickType
  <1> HIDE DEF f
  <1>4. FormFits(f, picked', proposal)
    BY <1>1, <1>2, <1>3 DEF FormFits
  <1>5. /\ FormFits(form', picked', proposal')
        /\ form'.submitting = form.submitting /\ form'.left = form.left
        /\ \A c \in With(f).calls : WellFormedCall(c) /\ c.kind # "create"
    BY <1>2, <1>3, <1>4, WithForm
  <1>6. picked' \in Types \cup {None} /\ proposal' \in Suggestion \cup {None}
    BY <1>3 DEF FormsInv
  <1> QED
    BY <1>3, <1>5, <1>6, SendStep

LEMMA PickRequesterStep ==
  ASSUME FormsInv, NEW customerType \in CustomerTypes, PickRequester(customerType)
  PROVE  FormsInv'
  <1> DEFINE f == [form EXCEPT !.requester = customerType]
  <1>1. FormFits(form, picked, proposal) /\ form \in Form
    BY DEF FormsInv, FormFits
  <1>2. /\ f \in Form /\ f.timer = form.timer /\ f.departmentId = form.departmentId
        /\ f.ticketTypeId = form.ticketTypeId /\ f.priority = form.priority
        /\ f.typeManuallyPicked = form.typeManuallyPicked
        /\ f.aiAutoTriaged = form.aiAutoTriaged
        /\ f.submitting = form.submitting /\ f.left = form.left
    BY <1>1 DEF Form
  <1>3. /\ form' = With(f).form /\ Send(With(f).calls)
        /\ UNCHANGED <<page, latest, tickets, picked, proposal, lost>>
    BY DEF PickRequester
  <1> HIDE DEF f
  <1>4. FormFits(f, picked, proposal)
    BY <1>1, <1>2 DEF FormFits
  <1>5. /\ FormFits(form', picked', proposal')
        /\ form'.submitting = form.submitting /\ form'.left = form.left
        /\ \A c \in With(f).calls : WellFormedCall(c) /\ c.kind # "create"
    BY <1>2, <1>3, <1>4, WithForm
  <1>6. picked' \in Types \cup {None} /\ proposal' \in Suggestion \cup {None}
    BY <1>3 DEF FormsInv
  <1> QED
    BY <1>3, <1>5, <1>6, SendStep

\* What changes nothing but the form, and none of what the invariant relates.
LEMMA PlainStep ==
  ASSUME FormsInv,
         \/ \E p \in Priorities : PickPriority(p)
         \/ \E field \in form.shown : FillIn(field)
         \/ Edit
  PROVE  FormsInv'
  <1>1. FormFits(form, picked, proposal) /\ form \in Form
    BY DEF FormsInv, FormFits
  <1>2. UNCHANGED <<page, net, latest, tickets, picked, proposal, lost>>
    BY DEF PickPriority, FillIn, Edit
  <1>3. /\ FormFits(form', picked, proposal)
        /\ form'.submitting = form.submitting /\ form'.left = form.left
    <2>1. ASSUME NEW p \in Priorities, form' = [form EXCEPT !.priority = p, !.aiAutoTriaged = FALSE]
          PROVE  /\ FormFits(form', picked, proposal)
                 /\ form'.submitting = form.submitting /\ form'.left = form.left
      <3>1. /\ form' \in Form /\ form'.timer = form.timer
            /\ form'.departmentId = form.departmentId
            /\ form'.ticketTypeId = form.ticketTypeId
            /\ form'.typeManuallyPicked = form.typeManuallyPicked /\ form'.aiAutoTriaged = FALSE
            /\ form'.submitting = form.submitting /\ form'.left = form.left
        BY <1>1, <2>1 DEF Form
      <3> QED
        BY <1>1, <3>1 DEF FormFits
    <2>2. ASSUME NEW field \in form.shown, form' = [form EXCEPT !.values = @ \cup {field}]
          PROVE  /\ FormFits(form', picked, proposal)
                 /\ form'.submitting = form.submitting /\ form'.left = form.left
      <3>1. /\ form' \in Form /\ form'.timer = form.timer
            /\ form'.departmentId = form.departmentId
            /\ form'.ticketTypeId = form.ticketTypeId /\ form'.priority = form.priority
            /\ form'.typeManuallyPicked = form.typeManuallyPicked
            /\ form'.aiAutoTriaged = form.aiAutoTriaged
            /\ form'.submitting = form.submitting /\ form'.left = form.left
        BY <1>1, <2>2 DEF Form
      <3> QED
        BY <1>1, <3>1 DEF FormFits
    <2>3. ASSUME Edit
          PROVE  /\ FormFits(form', picked, proposal)
                 /\ form'.submitting = form.submitting /\ form'.left = form.left
      <3> DEFINE timer == page = "new" /\ ~form.typeManuallyPicked /\ form.departmentId # None
                 text == form.text + 1
      <3>1. form' = [form EXCEPT !.text = text, !.languageChecked = FALSE, !.timer = timer]
        BY <2>3 DEF Edit
      <3>2. /\ timer \in BOOLEAN /\ (timer => page = "new" /\ form.departmentId # None)
            /\ text \in Nat
        BY <1>1 DEF Form
      <3> HIDE DEF timer, text
      <3>3. /\ form' \in Form /\ form'.timer = timer
            /\ form'.departmentId = form.departmentId
            /\ form'.ticketTypeId = form.ticketTypeId /\ form'.priority = form.priority
            /\ form'.typeManuallyPicked = form.typeManuallyPicked
            /\ form'.aiAutoTriaged = form.aiAutoTriaged
            /\ form'.submitting = form.submitting /\ form'.left = form.left
        BY <1>1, <3>1, <3>2 DEF Form
      <3> QED
        BY <1>1, <3>2, <3>3 DEF FormFits
    <2> QED
      BY <2>1, <2>2, <2>3 DEF PickPriority, FillIn
  <1> QED
    BY <1>2, <1>3, FormStep DEF FormsInv

\* A suggestion is asked for, by the timer or the button.
LEMMA AskStep ==
  ASSUME FormsInv, AutoTriage \/ OnSuggestWithAi
  PROVE  FormsInv'
  <1>1. FormFits(form, picked, proposal) /\ form \in Form
    BY DEF FormsInv, FormFits
  <1>2. PICK timer \in {FALSE, form.timer}, auto \in BOOLEAN :
          /\ form' = [form EXCEPT !.timer = timer, !.suggesting = TRUE]
          /\ Send(Triage(auto))
          /\ form.departmentId # None /\ (auto => page = "new")
    <2>1. CASE AutoTriage
      BY <1>1, <2>1 DEF AutoTriage, FormFits
    <2>2. CASE OnSuggestWithAi
      <3>1. /\ form' = [form EXCEPT !.suggesting = TRUE] /\ Send(Triage(FALSE))
            /\ form.departmentId # None
        BY <2>2 DEF OnSuggestWithAi
      <3>2. form' = [form EXCEPT !.timer = form.timer, !.suggesting = TRUE]
        BY <1>1, <3>1 DEF Form
      <3> QED
        BY <3>1, <3>2
    <2> QED
      BY <2>1, <2>2
  <1>3. /\ form' \in Form /\ form'.timer = timer
        /\ form'.departmentId = form.departmentId
        /\ form'.ticketTypeId = form.ticketTypeId /\ form'.priority = form.priority
        /\ form'.typeManuallyPicked = form.typeManuallyPicked
        /\ form'.aiAutoTriaged = form.aiAutoTriaged
        /\ form'.submitting = form.submitting /\ form'.left = form.left
    BY <1>1, <1>2 DEF Form
  <1>4. FormFits(form', picked, proposal)
    BY <1>1, <1>2, <1>3 DEF FormFits
  <1>5. \A c \in Triage(auto) : WellFormedCall(c) /\ c.kind # "create"
    BY <1>1, <1>2 DEF Triage, WellFormedCall, Form
  <1>6. /\ UNCHANGED <<page, latest, tickets, picked, proposal, lost>>
        /\ picked' \in Types \cup {None} /\ proposal' \in Suggestion \cup {None}
    BY DEF AutoTriage, OnSuggestWithAi, FormsInv
  <1>7. FormFits(form', picked', proposal')
    BY <1>4, <1>6
  <1> QED
    BY <1>2, <1>3, <1>5, <1>6, <1>7, SendStep
-----------------------------------------------------------------------------
(* Answers *)

\* A suggestion is applied: asked for, or automatic while no type is picked by
\* hand, which is then the form's own flag.
LEMMA ApplyStep ==
  ASSUME FormsInv, NEW c \in DOMAIN net, c.kind = "triage",
         ~(c.auto /\ form.typeManuallyPicked),
         NEW t \in Types, NEW p \in Priorities, NEW high \in BOOLEAN, Apply(c, t, p, high),
         UNCHANGED <<page, latest, tickets, lost>>
  PROVE  FormsInv'
  <1> DEFINE flag == c.auto /\ high
             priority == IF page = "new" THEN p ELSE form.priority
             f == [form EXCEPT !.ticketTypeId = t, !.suggesting = FALSE,
                               !.priority = priority, !.aiAutoTriaged = flag]
  <1>1. FormFits(form, picked, proposal) /\ form \in Form /\ WellFormedCall(c)
    BY DEF FormsInv, FormFits
  <1>2. /\ priority \in Priorities /\ flag \in BOOLEAN /\ c.auto \in BOOLEAN
        /\ flag => page = "new" /\ priority = p
    BY <1>1 DEF WellFormedCall, Form
  <1>3. /\ form' = With(f).form /\ Receive(c, With(f).calls)
        /\ picked' = IF c.auto THEN picked ELSE None
        /\ proposal' = IF flag THEN [type |-> t, priority |-> p] ELSE proposal
    <2>1. f = [form EXCEPT !.ticketTypeId = t, !.suggesting = FALSE,
                           !.priority = IF page = "new" THEN p ELSE @,
                           !.aiAutoTriaged = c.auto /\ high]
      OBVIOUS
    <2> HIDE DEF f
    <2> QED
      BY <2>1 DEF Apply
  <1> HIDE DEF flag, priority
  <1>4. /\ f \in Form /\ f.timer = form.timer /\ f.departmentId = form.departmentId
        /\ f.ticketTypeId = t /\ f.priority = priority
        /\ f.typeManuallyPicked = form.typeManuallyPicked /\ f.aiAutoTriaged = flag
        /\ f.submitting = form.submitting /\ f.left = form.left
    BY <1>1, <1>2 DEF Form
  <1> HIDE DEF f
  <1>5. picked' = None
    BY <1>1, <1>3 DEF FormFits
  <1>6. FormFits(f, picked', proposal')
    BY <1>1, <1>2, <1>3, <1>4, <1>5 DEF FormFits
  <1>7. /\ FormFits(form', picked', proposal')
        /\ form'.submitting = form.submitting /\ form'.left = form.left
        /\ \A d \in With(f).calls : WellFormedCall(d) /\ d.kind # "create"
    BY <1>3, <1>4, <1>6, WithForm
  <1>8. proposal' \in Suggestion \cup {None}
    BY <1>3 DEF FormsInv, Suggestion
  <1> QED
    BY <1>3, <1>5, <1>7, <1>8, ReceiveStep

\* A suggestion that is dropped, or none.
LEMMA DropStep ==
  ASSUME FormsInv, NEW c \in DOMAIN net, c.kind = "triage",
         form' = [form EXCEPT !.suggesting = FALSE], Receive(c, {}),
         UNCHANGED <<page, latest, tickets, picked, proposal, lost>>
  PROVE  FormsInv'
  <1>1. FormFits(form, picked, proposal) /\ form \in Form
    BY DEF FormsInv, FormFits
  <1>2. /\ form' \in Form /\ form'.timer = form.timer
        /\ form'.departmentId = form.departmentId
        /\ form'.ticketTypeId = form.ticketTypeId /\ form'.priority = form.priority
        /\ form'.typeManuallyPicked = form.typeManuallyPicked
        /\ form'.aiAutoTriaged = form.aiAutoTriaged
        /\ form'.submitting = form.submitting /\ form'.left = form.left
    BY <1>1 DEF Form
  <1>3. FormFits(form', picked', proposal')
    BY <1>1, <1>2 DEF FormFits
  <1>4. picked' \in Types \cup {None} /\ proposal' \in Suggestion \cup {None}
    BY DEF FormsInv
  <1>5. \A d \in {} : WellFormedCall(d) /\ d.kind # "create"
    OBVIOUS
  <1> QED
    BY <1>2, <1>3, <1>4, <1>5, ReceiveStep

LEMMA TriageStep ==
  ASSUME FormsInv, NEW c \in DOMAIN net, TriageAnswered(c) \/ TriageFails(c)
  PROVE  FormsInv'
  <1>1. CASE TriageFails(c) \/ (TriageAnswered(c) /\ c.auto /\ form.typeManuallyPicked)
    BY <1>1, DropStep DEF TriageFails, TriageAnswered
  <1>2. CASE TriageAnswered(c) /\ ~(c.auto /\ form.typeManuallyPicked)
    <2>1. PICK t \in Types, p \in Priorities, high \in BOOLEAN : Apply(c, t, p, high)
      BY <1>2 DEF TriageAnswered
    <2> QED
      BY <1>2, <2>1, ApplyStep DEF TriageAnswered
  <1> QED
    BY <1>1, <1>2

\* The number and then the fields of the newest version.
LEMMA FetchStep ==
  ASSUME FormsInv, NEW c \in DOMAIN net, DefinitionFetched(c) \/ FieldsFetched(c)
  PROVE  FormsInv'
  <1>1. /\ FormFits(form, picked, proposal) /\ form \in Form /\ WellFormedCall(c)
        /\ UNCHANGED <<page, latest, tickets, picked, proposal, lost>>
        /\ picked' \in Types \cup {None} /\ proposal' \in Suggestion \cup {None}
    BY DEF FormsInv, FormFits, DefinitionFetched, FieldsFetched
  <1>2. CASE DefinitionFetched(c)
    <2> DEFINE call == [kind |-> "fields", type |-> c.type, version |-> latest[c.type],
                        customerType |-> c.customerType]
               version == latest[c.type]
    <2>1. /\ c.kind = "definition" /\ c.type \in Types /\ c.customerType \in CustomerTypes
          /\ form' = [form EXCEPT !.publishedVersion = version] /\ Receive(c, {call})
      BY <1>1, <1>2 DEF DefinitionFetched, WellFormedCall
    <2>2. version \in Nat /\ version \in 1 .. MaxVersion[c.type]
      BY <2>1 DEF FormsInv
    <2>3. \A d \in {call} : WellFormedCall(d) /\ d.kind # "create"
      BY <2>1, <2>2 DEF WellFormedCall
    <2> HIDE DEF version, call
    <2>4. /\ form' \in Form /\ form'.timer = form.timer
          /\ form'.departmentId = form.departmentId
          /\ form'.ticketTypeId = form.ticketTypeId /\ form'.priority = form.priority
          /\ form'.typeManuallyPicked = form.typeManuallyPicked
          /\ form'.aiAutoTriaged = form.aiAutoTriaged
          /\ form'.submitting = form.submitting /\ form'.left = form.left
      BY <1>1, <2>1, <2>2 DEF Form
    <2>5. FormFits(form', picked', proposal')
      BY <1>1, <2>4 DEF FormFits
    <2> QED
      BY <1>1, <2>1, <2>3, <2>4, <2>5, ReceiveStep
  <1>3. CASE FieldsFetched(c)
    <2> DEFINE fields == FieldsForCustomerType(SchemaOf[c.type][c.version], c.customerType)
    <2>1. /\ c.kind = "fields" /\ c.type \in Types /\ c.version \in 1 .. MaxVersion[c.type]
          /\ form' = [form EXCEPT !.shown = fields] /\ Receive(c, {})
      BY <1>1, <1>3 DEF FieldsFetched, WellFormedCall
    <2>2. fields \in SUBSET Field
      BY <2>1, SchemaAssumption DEF FieldsForCustomerType
    <2> HIDE DEF fields
    <2>4. /\ form' \in Form /\ form'.timer = form.timer
          /\ form'.departmentId = form.departmentId
          /\ form'.ticketTypeId = form.ticketTypeId /\ form'.priority = form.priority
          /\ form'.typeManuallyPicked = form.typeManuallyPicked
          /\ form'.aiAutoTriaged = form.aiAutoTriaged
          /\ form'.submitting = form.submitting /\ form'.left = form.left
      BY <1>1, <2>1, <2>2 DEF Form
    <2>5. FormFits(form', picked', proposal')
      BY <1>1, <2>4 DEF FormFits
    <2>6. \A d \in {} : WellFormedCall(d) /\ d.kind # "create"
      OBVIOUS
    <2> QED
      BY <1>1, <2>1, <2>4, <2>5, <2>6, ReceiveStep
  <1> QED
    BY <1>2, <1>3

\* An administrator's publication.
LEMMA PublishStep ==
  ASSUME FormsInv, NEW t \in Types, Publish(t)
  PROVE  FormsInv'
  <1>1. /\ latest[t] < MaxVersion[t] /\ latest' = [latest EXCEPT ![t] = @ + 1]
        /\ UNCHANGED <<page, form, net, tickets, picked, proposal, lost>>
    BY DEF Publish
  <1>2. /\ latest \in [Types -> Nat] /\ \A u \in Types : latest[u] \in 1 .. MaxVersion[u]
        /\ MaxVersion[t] \in Nat
    BY SchemaAssumption DEF FormsInv
  <1>3. latest[t] + 1 \in Nat /\ latest[t] + 1 \in 1 .. MaxVersion[t]
    BY <1>1, <1>2
  <1>4. latest' \in [Types -> Nat] /\ \A u \in Types : latest'[u] \in 1 .. MaxVersion[u]
    BY <1>1, <1>2, <1>3
  <1>5. /\ FormFits(form', picked', proposal') /\ IsABag(net')
        /\ \A d \in DOMAIN net' : WellFormedCall(d)
        /\ picked' \in Types \cup {None} /\ proposal' \in Suggestion \cup {None}
    BY <1>1 DEF FormsInv
  <1> QED
    BY <1>1, <1>4, <1>5, QuietStep
-----------------------------------------------------------------------------
(* Submitting *)

\* What the form is sent as, whole and as honest as the form.
LEMMA FormCall ==
  ASSUME FormsInv, IsComplete
  PROVE  \E d : Create(form) = {d} /\ d.kind = "create" /\ CreateCall(d)
  <1> DEFINE call == [kind |-> "create", proposal |-> proposal,
                      departmentId |-> form.departmentId, ticketTypeId |-> form.ticketTypeId,
                      priority |-> form.priority, requester |-> form.requester,
                      values |-> form.values, aiAutoTriaged |-> form.aiAutoTriaged]
  <1>1. Create(form) = {call}
    BY DEF Create
  <1>2. /\ form.departmentId \in Departments /\ form.ticketTypeId \in Types
        /\ form.priority \in Priorities /\ form.requester \in CustomerTypes
        /\ form.values \subseteq Field /\ form.aiAutoTriaged \in BOOLEAN
        /\ proposal \in Suggestion \cup {None}
        /\ form.aiAutoTriaged =>
             proposal = [type |-> form.ticketTypeId, priority |-> form.priority]
    BY DEF FormsInv, FormFits, Form, IsComplete
  <1>3. call.kind = "create" /\ CreateCall(call)
    BY <1>2 DEF CreateCall
  <1> QED
    BY <1>1, <1>3

\* The form with its button enabled or disabled.
LEMMA ButtonForm ==
  ASSUME FormsInv, NEW waits \in BOOLEAN, form' = [form EXCEPT !.submitting = waits],
         UNCHANGED <<picked, proposal>>
  PROVE  /\ FormFits(form', picked', proposal')
         /\ form'.submitting = waits /\ form'.left = form.left
  <1>1. FormFits(form, picked, proposal) /\ form \in Form
    BY DEF FormsInv, FormFits
  <1>2. /\ form' \in Form /\ form'.timer = form.timer
        /\ form'.departmentId = form.departmentId
        /\ form'.ticketTypeId = form.ticketTypeId /\ form'.priority = form.priority
        /\ form'.typeManuallyPicked = form.typeManuallyPicked
        /\ form'.aiAutoTriaged = form.aiAutoTriaged
        /\ form'.submitting = waits /\ form'.left = form.left
    BY <1>1 DEF Form
  <1> QED
    BY <1>1, <1>2 DEF FormFits

\* The staff form or the panel is sent: nothing was on its way.
LEMMA SubmitStep ==
  ASSUME FormsInv, ~form.left, OnSubmit \/ OnConvert
  PROVE  FormsInv'
  <1>1. /\ page # "raise" /\ IsComplete /\ ~form.submitting
        /\ form' = [form EXCEPT !.submitting = TRUE] /\ Send(Create(form))
        /\ UNCHANGED <<page, latest, tickets, picked, proposal, lost>>
    BY DEF OnSubmit, OnConvert
  <1>2. PICK d : Create(form) = {d} /\ d.kind = "create" /\ CreateCall(d)
    BY <1>1, FormCall
  <1>3. /\ FormFits(form', picked', proposal') /\ form'.submitting /\ ~form'.left
    BY <1>1, ButtonForm
  <1>4. /\ IsABag(net) /\ \A c \in DOMAIN net : WellFormedCall(c)
        /\ \A c \in DOMAIN net : c.kind # "create"
        /\ Len(tickets) <= lost
    BY <1>1 DEF FormsInv, OneFormSent
  <1>5. /\ IsABag(net') /\ DOMAIN net' = DOMAIN net \cup {d} /\ net'[d] = 1
    BY <1>1, <1>2, <1>4, SendBag
  <1>6. WellFormedCall(d)
    BY <1>2 DEF WellFormedCall
  <1>7. \A c \in DOMAIN net' : WellFormedCall(c)'
    BY <1>1, <1>4, <1>5, <1>6 DEF WellFormedCall
  <1>8. OneFormSent'
    BY <1>1, <1>2, <1>3, <1>4, <1>5 DEF OneFormSent
  <1>9. FormFits(form, picked, proposal)'
    BY <1>1, <1>3 DEF FormFits
  <1>10. /\ page' \in Pages
         /\ latest' \in [Types -> Nat] /\ (\A t \in Types : latest[t] \in 1 .. MaxVersion[t])'
         /\ picked' \in Types \cup {None} /\ proposal' \in Suggestion \cup {None}
         /\ lost' \in Nat /\ tickets' \in Seq(GoodTickets)
    BY <1>1 DEF FormsInv
  <1> QED
    BY <1>5, <1>7, <1>8, <1>9, <1>10 DEF FormsInv

\* A step of the employee's form, which may have several on their way.
LEMMA RaiseStep ==
  ASSUME FormsInv, page = "raise", FormFits(form', picked', proposal'),
         IsABag(net'), \A d \in DOMAIN net' : WellFormedCall(d),
         UNCHANGED <<page, latest, tickets, picked, proposal, lost>>
  PROVE  FormsInv'
  <1>1. FormFits(form, picked, proposal)'
    BY DEF FormFits
  <1>2. \A c \in DOMAIN net' : WellFormedCall(c)'
    BY DEF WellFormedCall
  <1>3. OneFormSent'
    BY DEF OneFormSent
  <1>4. /\ page' \in Pages
        /\ latest' \in [Types -> Nat] /\ (\A t \in Types : latest[t] \in 1 .. MaxVersion[t])'
        /\ picked' \in Types \cup {None} /\ proposal' \in Suggestion \cup {None}
        /\ lost' \in Nat /\ tickets' \in Seq(GoodTickets)
    BY DEF FormsInv
  <1> QED
    BY <1>1, <1>2, <1>3, <1>4 DEF FormsInv

\* The employee's form is sent, or its text to be checked.
LEMMA OnRaiseStep ==
  ASSUME FormsInv, OnRaise
  PROVE  FormsInv'
  <1>1. /\ page = "raise" /\ IsComplete
        /\ UNCHANGED <<page, latest, tickets, picked, proposal, lost>>
        /\ IsABag(net) /\ \A c \in DOMAIN net : WellFormedCall(c)
        /\ FormFits(form, picked, proposal)
    BY DEF OnRaise, FormsInv
  <1>2. PICK d : Create(form) = {d} /\ d.kind = "create" /\ CreateCall(d)
    BY <1>1, FormCall
  <1>3. CASE form.languageChecked
    <2>1. form' = [form EXCEPT !.submitting = TRUE] /\ Send({d})
      BY <1>2, <1>3 DEF OnRaise
    <2>2. FormFits(form', picked', proposal')
      BY <1>1, <2>1, ButtonForm
    <2>3. IsABag(net') /\ DOMAIN net' = DOMAIN net \cup {d}
      BY <1>1, <2>1, SendBag
    <2>4. WellFormedCall(d)
      BY <1>2 DEF WellFormedCall
    <2> QED
      BY <1>1, <2>2, <2>3, <2>4, RaiseStep
  <1>4. CASE ~form.languageChecked
    <2> DEFINE check == [kind |-> "check", create |-> {d}]
    <2>1. form' = form /\ Send({check})
      BY <1>2, <1>4 DEF OnRaise
    <2>2. WellFormedCall(check)
      BY <1>1, <1>2 DEF WellFormedCall
    <2> HIDE DEF check
    <2>3. IsABag(net') /\ DOMAIN net' = DOMAIN net \cup {check}
      BY <1>1, <2>1, SendBag
    <2> QED
      BY <1>1, <2>1, <2>2, <2>3, RaiseStep
  <1> QED
    BY <1>3, <1>4

\* The text has been checked.
LEMMA CheckedStep ==
  ASSUME FormsInv, NEW c \in DOMAIN net, LanguageChecked(c)
  PROVE  FormsInv'
  <1>1. /\ c.kind = "check" /\ WellFormedCall(c)
        /\ UNCHANGED <<page, latest, tickets, picked, proposal, lost>>
        /\ IsABag(net) /\ \A d \in DOMAIN net : WellFormedCall(d)
        /\ FormFits(form, picked, proposal) /\ form \in Form
    BY DEF LanguageChecked, FormsInv, FormFits
  <1>2. PICK d : /\ page = "raise"
                 /\ c.create = {d} /\ d.kind = "create" /\ CreateCall(d)
    BY <1>1 DEF WellFormedCall
  <1>3. ASSUME form' = [form EXCEPT !.languageChecked = ~form.left], Receive(c, {})
        PROVE  FormsInv'
    <2> DEFINE checked == ~form.left
    <2>1. checked \in BOOLEAN
      BY <1>1 DEF Form
    <2> HIDE DEF checked
    <2>2. form' = [form EXCEPT !.languageChecked = checked]
      BY <1>3 DEF checked
    <2>3. /\ form' \in Form /\ form'.timer = form.timer
          /\ form'.departmentId = form.departmentId
          /\ form'.ticketTypeId = form.ticketTypeId /\ form'.priority = form.priority
          /\ form'.typeManuallyPicked = form.typeManuallyPicked
          /\ form'.aiAutoTriaged = form.aiAutoTriaged
      BY <1>1, <2>1, <2>2 DEF Form
    <2>4. FormFits(form', picked', proposal')
      BY <1>1, <2>3 DEF FormFits
    <2>5. IsABag(net') /\ DOMAIN net' \subseteq DOMAIN net
      BY <1>1, <1>3, ReceiveBag
    <2> QED
      BY <1>1, <1>2, <2>4, <2>5, RaiseStep
  <1>4. ASSUME form' = [form EXCEPT !.submitting = ~form.left], Receive(c, c.create)
        PROVE  FormsInv'
    <2>1. (~form.left) \in BOOLEAN
      BY <1>1 DEF Form
    <2>2. FormFits(form', picked', proposal')
      BY <1>1, <1>4, <2>1, ButtonForm
    <2>3. Receive(c, {d})
      BY <1>2, <1>4 DEF Receive
    <2>4. IsABag(net') /\ DOMAIN net' \subseteq DOMAIN net \cup {d}
      BY <1>1, <2>3, ReceiveBag
    <2>5. WellFormedCall(d)
      BY <1>2 DEF WellFormedCall
    <2>6. \A e \in DOMAIN net' : WellFormedCall(e)
      BY <1>1, <2>4, <2>5
    <2> QED
      BY <1>1, <1>2, <2>2, <2>4, <2>6, RaiseStep
  <1> QED
    BY <1>3, <1>4 DEF LanguageChecked
-----------------------------------------------------------------------------
(* What becomes of a form that was sent *)

\* create() keeps what its schema lets through, and that answers all it requires.
LEMMA NewTicketFits ==
  ASSUME FormsInv, NEW c, CreateCall(c), NEW ct \in CustomersOf(c.requester), Accepts(c, ct)
  PROVE  NewTicket(c, ct) \in GoodTickets
  <1> DEFINE k == NewTicket(c, ct)
             schema == Schema(c, ct)
             version == latest[c.ticketTypeId]
             answers == Parsed(schema, c.values)
  <1>1. /\ k.departmentId = c.departmentId /\ k.ticketTypeId = c.ticketTypeId
        /\ k.priority = c.priority /\ k.version = version /\ k.values = answers
        /\ k.customerType = ct /\ k.aiAutoTriaged = c.aiAutoTriaged /\ k.proposal = c.proposal
    BY DEF NewTicket
  <1>2. version \in Nat /\ ct \in CustomerTypes
    BY DEF FormsInv, CreateCall, CustomersOf, CustomerTypes
  <1>3. answers \subseteq Field
    BY DEF Parsed, CreateCall
  <1>4. k \in Ticket
    <2>1. k = [departmentId |-> c.departmentId, ticketTypeId |-> c.ticketTypeId,
               priority |-> c.priority, version |-> version, values |-> answers,
               customerType |-> ct, aiAutoTriaged |-> c.aiAutoTriaged, proposal |-> c.proposal]
      BY DEF NewTicket
    <2> HIDE DEF k, version, answers, schema
    <2> QED
      BY <1>2, <1>3, <2>1 DEF Ticket, CreateCall
  <1>5. /\ DeptOf[c.ticketTypeId] = c.departmentId /\ IsValid(schema, c.values)
        /\ schema = FieldsForCustomerType(SchemaOf[c.ticketTypeId][version], ct)
    BY DEF Accepts, Schema
  <1>6. Keys(answers) \subseteq Keys(schema)
    BY DEF Keys, Parsed
  <1>7. IsValid(schema, answers)
    <2>1. ASSUME NEW key \in Keys({f \in schema : f.required}) PROVE key \in Keys(answers)
      <3>1. key \in Keys(schema) /\ key \in Keys(c.values)
        BY <1>5 DEF IsValid, Keys
      <3>2. PICK v \in c.values : v.key = key
        BY <3>1 DEF Keys
      <3>3. v \in answers
        BY <3>1, <3>2 DEF Parsed
      <3> QED
        BY <3>2, <3>3 DEF Keys
    <2> QED
      BY <2>1 DEF IsValid
  <1> HIDE DEF k, version, answers, schema
  <1>8. Fits(k)
    BY <1>1, <1>5, <1>6, <1>7 DEF Fits, CreateCall
  <1> QED
    BY <1>4, <1>8 DEF GoodTickets, k

\* A form refused, or created with its answer lost: the page enables its button.
LEMMA AnsweredStep ==
  ASSUME FormsInv, NEW c \in DOMAIN net, c.kind = "create",
         form' = [form EXCEPT !.submitting = FALSE], Receive(c, {}),
         tickets' \in Seq(GoodTickets), lost' \in Nat,
         Len(tickets') - Len(tickets) = lost' - lost,
         UNCHANGED <<page, latest, picked, proposal>>
  PROVE  FormsInv'
  <1>1. /\ IsABag(net) /\ \A d \in DOMAIN net : WellFormedCall(d)
        /\ tickets \in Seq(GoodTickets) /\ lost \in Nat
    BY DEF FormsInv
  <1>2. /\ FormFits(form', picked', proposal')
        /\ form'.submitting = FALSE /\ form'.left = form.left
    BY ButtonForm
  <1>3. /\ IsABag(net') /\ DOMAIN net' \subseteq DOMAIN net
        /\ c \in DOMAIN net' => net[c] # 1
    BY <1>1, ReceiveBag
  <1>4. \A d \in DOMAIN net' : WellFormedCall(d)'
    BY <1>1, <1>3 DEF WellFormedCall
  <1>5. ASSUME page # "raise"
        PROVE  /\ \A d \in DOMAIN net' : d.kind # "create"
               /\ ~form.left /\ Len(tickets) <= lost
    <2>1. /\ net[c] = 1 /\ ~form.left /\ \A d \in DOMAIN net : d.kind = "create" => d = c
          /\ Len(tickets) <= lost
      BY <1>5 DEF FormsInv, OneFormSent
    <2> QED
      BY <1>3, <2>1
  <1>6. Len(tickets) \in Nat /\ Len(tickets') \in Nat
    BY <1>1, LenProperties
  <1>7. OneFormSent'
    <2>1. page # "raise" => Len(tickets') <= lost'
      BY <1>1, <1>5, <1>6
    <2> QED
      BY <1>2, <1>5, <2>1 DEF OneFormSent
  <1>8. FormFits(form, picked, proposal)'
    BY <1>2 DEF FormFits
  <1>9. /\ page' \in Pages
        /\ latest' \in [Types -> Nat] /\ (\A t \in Types : latest[t] \in 1 .. MaxVersion[t])'
        /\ picked' \in Types \cup {None} /\ proposal' \in Suggestion \cup {None}
    BY DEF FormsInv
  <1> QED
    BY <1>3, <1>4, <1>7, <1>8, <1>9 DEF FormsInv

LEMMA RefusedStep ==
  ASSUME FormsInv, NEW c \in DOMAIN net, Refused(c)
  PROVE  FormsInv'
  <1>1. /\ c.kind = "create" /\ form' = [form EXCEPT !.submitting = FALSE] /\ Receive(c, {})
        /\ UNCHANGED <<page, latest, tickets, picked, proposal, lost>>
    BY DEF Refused
  <1>2. tickets \in Seq(GoodTickets) /\ lost \in Nat
    BY DEF FormsInv
  <1>3. Len(tickets') - Len(tickets) = lost' - lost
    BY <1>1, <1>2, LenProperties
  <1> QED
    BY <1>1, <1>2, <1>3, AnsweredStep

\* The ticket that a form becomes.
LEMMA TicketAppended ==
  ASSUME FormsInv, NEW c \in DOMAIN net, c.kind = "create",
         \E ct \in CustomersOf(c.requester) :
           Accepts(c, ct) /\ tickets' = Append(tickets, NewTicket(c, ct))
  PROVE  tickets' \in Seq(GoodTickets) /\ Len(tickets') = Len(tickets) + 1
  <1>1. PICK ct \in CustomersOf(c.requester) :
          Accepts(c, ct) /\ tickets' = Append(tickets, NewTicket(c, ct))
    OBVIOUS
  <1>2. CreateCall(c) /\ tickets \in Seq(GoodTickets)
    BY DEF FormsInv, WellFormedCall
  <1>3. NewTicket(c, ct) \in GoodTickets
    BY <1>1, <1>2, NewTicketFits
  <1> QED
    BY <1>1, <1>2, <1>3, AppendProperties

LEMMA AnswerLostStep ==
  ASSUME FormsInv, NEW c \in DOMAIN net, AnswerLost(c)
  PROVE  FormsInv'
  <1>1. /\ c.kind = "create" /\ form' = [form EXCEPT !.submitting = FALSE] /\ Receive(c, {})
        /\ lost' = lost + 1
        /\ UNCHANGED <<page, latest, picked, proposal>>
    BY DEF AnswerLost
  <1>2. tickets' \in Seq(GoodTickets) /\ Len(tickets') = Len(tickets) + 1
    BY TicketAppended DEF AnswerLost
  <1>3. lost \in Nat /\ tickets \in Seq(GoodTickets)
    BY DEF FormsInv
  <1>4. lost' \in Nat /\ Len(tickets') - Len(tickets) = lost' - lost
    BY <1>1, <1>2, <1>3, LenProperties
  <1> QED
    BY <1>1, <1>2, <1>4, AnsweredStep

\* A page just opened, or left.
LEMMA OpenedForm ==
  ASSUME NEW d \in Departments \cup {None}, NEW t \in Types \cup {None},
         NEW customerType \in CustomerTypes \cup {None}
  PROVE  /\ Opened(d, t, customerType) \in Form
         /\ Opened(d, t, customerType).timer = FALSE
         /\ Opened(d, t, customerType).aiAutoTriaged = FALSE
         /\ Opened(d, t, customerType).left = FALSE
         /\ Opened(d, t, customerType).submitting = FALSE
  <1> DEFINE first == CHOOSE p \in Priorities : TRUE
             seen == {d} \ {None}
  <1>1. first \in Priorities /\ seen \in SUBSET Departments
    BY PrioritiesAssumption
  <1>2. Opened(d, t, customerType) =
          [departmentId |-> d, visited |-> seen, ticketTypeId |-> t, priority |-> first,
           typeManuallyPicked |-> FALSE, aiAutoTriaged |-> FALSE, requester |-> customerType,
           publishedVersion |-> None, shown |-> {}, values |-> {}, text |-> 0,
           languageChecked |-> FALSE, timer |-> FALSE, suggesting |-> FALSE,
           submitting |-> FALSE, left |-> FALSE]
    BY DEF Opened
  <1> HIDE DEF first, seen
  <1> QED
    BY <1>1, <1>2 DEF Form

\* The page is left for the new ticket's; of its calls, those that create stay.
LEMMA CreatedStep ==
  ASSUME FormsInv, NEW c \in DOMAIN net, Created(c)
  PROVE  FormsInv'
  <1> DEFINE rest == net (-) SetToBag({c})
             kept == {e \in BagToSet(rest) : e.kind \in {"check", "create"}}
  <1>1. /\ IsABag(net) /\ \A d \in DOMAIN net : WellFormedCall(d)
        /\ tickets \in Seq(GoodTickets) /\ lost \in Nat
        /\ c.kind = "create" /\ UNCHANGED <<page, latest, lost>>
    BY DEF FormsInv, Created
  <1>2. tickets' \in Seq(GoodTickets) /\ Len(tickets') = Len(tickets) + 1
    BY TicketAppended DEF Created
  <1>3. /\ net' = [d \in kept |-> rest[d]]
        /\ form' = [Opened(None, None, None) EXCEPT !.left = TRUE]
        /\ picked' = None /\ proposal' = None
    BY DEF Created, Leave
  <1>4. /\ IsABag(rest) /\ DOMAIN rest \subseteq DOMAIN net
        /\ c \in DOMAIN rest => net[c] # 1
    BY <1>1, TakenBag
  <1> HIDE DEF rest
  <1>5. kept \subseteq DOMAIN rest
    BY DEF BagToSet
  <1> HIDE DEF kept
  <1>6. DOMAIN net' = kept /\ \A d \in kept : net'[d] = rest[d]
    BY <1>3
  <1>7. IsABag(net')
    BY <1>3, <1>4, <1>5, <1>6 DEF IsABag
  <1>8. /\ form' \in Form /\ form'.timer = FALSE /\ form'.aiAutoTriaged = FALSE
        /\ form'.left = TRUE
    <2> DEFINE opened == Opened(None, None, None)
    <2>1. /\ opened \in Form /\ opened.timer = FALSE /\ opened.aiAutoTriaged = FALSE
      BY OpenedForm
    <2> HIDE DEF opened
    <2>2. form' = [opened EXCEPT !.left = TRUE]
      BY <1>3 DEF opened
    <2> QED
      BY <2>1, <2>2 DEF Form
  <1>9. FormFits(form, picked, proposal)'
    BY <1>3, <1>8 DEF FormFits
  <1>10. \A d \in DOMAIN net' : WellFormedCall(d)'
    BY <1>1, <1>4, <1>5, <1>6 DEF WellFormedCall
  <1>11. OneFormSent'
    <2>1. ASSUME page # "raise"
          PROVE  (\A d \in DOMAIN net' : d.kind # "create") /\ Len(tickets') <= 1 + lost
      <3>1. /\ net[c] = 1 /\ ~form.left /\ \A d \in DOMAIN net : d.kind = "create" => d = c
            /\ Len(tickets) <= lost
        BY <1>1, <2>1 DEF FormsInv, OneFormSent
      <3>2. Len(tickets) \in Nat
        BY <1>1, LenProperties
      <3>3. Len(tickets') <= 1 + lost
        BY <1>1, <1>2, <3>1, <3>2
      <3> QED
        BY <1>4, <1>5, <1>6, <3>1, <3>3
    <2> QED
      BY <1>1, <1>8, <2>1 DEF OneFormSent
  <1>12. /\ page' \in Pages
         /\ latest' \in [Types -> Nat] /\ (\A t \in Types : latest[t] \in 1 .. MaxVersion[t])'
         /\ picked' \in Types \cup {None} /\ proposal' \in Suggestion \cup {None}
         /\ lost' \in Nat
    BY <1>1, <1>3 DEF FormsInv
  <1> QED
    BY <1>2, <1>7, <1>9, <1>10, <1>11, <1>12 DEF FormsInv
-----------------------------------------------------------------------------
(* The theorems *)

LEMMA InitForms == Init => FormsInv
  <1> SUFFICES ASSUME Init PROVE FormsInv
    OBVIOUS
  <1>1. /\ page \in Pages /\ net = EmptyBag /\ latest = [t \in Types |-> 1]
        /\ tickets = <<>> /\ picked = None /\ proposal = None /\ lost = 0
    BY DEF Init
  <1>2. PICK d \in Departments \cup {None}, t \in Types \cup {None},
             customerType \in CustomerTypes \cup {None} : form = Opened(d, t, customerType)
    BY DEF Init, CustomerTypes
  <1>3. /\ form \in Form /\ form.timer = FALSE /\ form.aiAutoTriaged = FALSE
        /\ form.left = FALSE
    BY <1>2, OpenedForm
  <1>4. FormFits(form, picked, proposal)
    BY <1>1, <1>3 DEF FormFits
  <1>5. net = [k \in {} |-> 0] /\ DOMAIN net = {}
    BY <1>1 DEF EmptyBag, SetToBag
  <1>6. IsABag(net)
    BY <1>5 DEF IsABag
  <1>7. latest \in [Types -> Nat] /\ \A u \in Types : latest[u] \in 1 .. MaxVersion[u]
    BY <1>1, SchemaAssumption
  <1>8. tickets \in Seq(GoodTickets) /\ Len(tickets) = 0
    BY <1>1
  <1>9. OneFormSent
    BY <1>1, <1>5, <1>8 DEF OneFormSent
  <1> QED
    BY <1>1, <1>4, <1>5, <1>6, <1>7, <1>8, <1>9 DEF FormsInv

LEMMA NextForms == FormsInv /\ [Next]_vars => FormsInv'
  <1> SUFFICES ASSUME FormsInv, [Next]_vars PROVE FormsInv'
    OBVIOUS
  <1>1. CASE ~form.left /\ FillingIn
    BY <1>1, PickDepartmentStep, PickTypeStep, PickRequesterStep, PlainStep, AskStep
       DEF FillingIn
  <1>2. CASE ~form.left /\ Submitting
    BY <1>2, SubmitStep, OnRaiseStep DEF Submitting
  <1>3. ASSUME NEW c \in BagToSet(net), Answer(c) \/ AnswerLost(c)
        PROVE  FormsInv'
    <2>1. c \in DOMAIN net
      BY DEF BagToSet
    <2> QED
      BY <1>3, <2>1, TriageStep, FetchStep, CheckedStep, CreatedStep, RefusedStep,
         AnswerLostStep DEF Answer
  <1>4. CASE \E t \in Types : Publish(t)
    BY <1>4, PublishStep
  <1>5. CASE UNCHANGED vars
    <2>1. UNCHANGED <<page, form, net, latest, tickets, picked, proposal, lost>>
      BY <1>5 DEF vars
    <2>2. FormFits(form', picked', proposal')
      BY <2>1 DEF FormsInv
    <2> QED
      BY <2>1, <2>2, FormStep DEF FormsInv
  <1> QED
    BY <1>1, <1>2, <1>3, <1>4, <1>5 DEF Next

LEMMA SpecForms == Spec => []FormsInv
  <1> QED
    BY InitForms, NextForms, PTL DEF Spec

LEMMA TicketsFit ==
  ASSUME FormsInv, NEW i \in DOMAIN tickets
  PROVE  tickets[i] \in Ticket /\ Fits(tickets[i])
  <1>1. tickets \in Seq(GoodTickets)
    BY DEF FormsInv
  <1>2. tickets[i] \in GoodTickets
    BY <1>1, ElementOfSeq, LenProperties
  <1> QED
    BY <1>2 DEF GoodTickets

\* A page, its calls and the tickets that come of it are always of their kinds.
THEOREM FormsTypeCorrect == Spec => []TypeOK
  <1>1. FormsInv => TypeOK
    BY TicketsFit DEF FormsInv, FormFits, TypeOK
  <1> QED
    BY <1>1, SpecForms, PTL

\* However many automatic suggestions are on their way when a type is picked by
\* hand (NewTicketPage's typeManuallyPicked), none of them replaces it.
THEOREM HandPickAlwaysStands == Spec => []HandPickStands
  <1>1. FormsInv => HandPickStands
    BY DEF FormsInv, FormFits, HandPickStands
  <1> QED
    BY <1>1, SpecForms, PTL

\* A ticket says it was triaged automatically (aiAutoTriaged) only of the very
\* type and priority the model had confidently proposed.
THEOREM FlagAlwaysHonest == Spec => []FlagIsHonest
  <1>1. FormsInv => FlagIsHonest
    BY TicketsFit DEF Fits, FlagIsHonest
  <1> QED
    BY <1>1, SpecForms, PTL

\* Whatever the page showed when it was sent, create() leaves a ticket whose type
\* is one of its department's and whose answers fit the version it keeps.
THEOREM TicketsAlwaysFitVersion == Spec => []TicketFitsVersion
  <1>1. FormsInv => TicketFitsVersion
    BY TicketsFit DEF Fits, TicketFitsVersion
  <1> QED
    BY <1>1, SpecForms, PTL

\* A visit to the staff form or the panel leaves one ticket, and one more for
\* every answer that was lost.
THEOREM OneTicketAlwaysPerVisit == Spec => []OneTicketPerVisit
  <1>1. FormsInv => OneTicketPerVisit
    <2> SUFFICES ASSUME FormsInv, page # "raise" PROVE Len(tickets) <= 1 + lost
      BY DEF OneTicketPerVisit
    <2>1. /\ tickets \in Seq(GoodTickets) /\ lost \in Nat
          /\ Len(tickets) <= IF form.left THEN 1 + lost ELSE lost
      BY DEF FormsInv, OneFormSent
    <2>2. Len(tickets) \in Nat
      BY <2>1, LenProperties
    <2> QED
      BY <2>1, <2>2
  <1> QED
    BY <1>1, SpecForms, PTL
==============================================================================
