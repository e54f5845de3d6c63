---------------------- MODULE TicketTypePublishingProofs ----------------------
(***************************************************************************)
(* Proofs about publishing, for any number of ticket types, draft rows,    *)
(* requests and failures: types are kept, every version can be used,       *)
(* version numbers have no gap, a ticket is on a version that was current, *)
(* and the handlers implement the append-only log of versions.             *)
(***************************************************************************)
EXTENDS PublishingRefinement, FiniteSetTheorems, SequenceTheorems, TLAPS

\* LastNumber() of a type with these versions.
Highest(numbers) == Max(numbers \cup {0})

\* What the local variables of a handler are known to be, by the call that comes
\* next, when these are the versions.
WellFormed(h, log) ==
  /\ h.pc = "idle" => h.todo = {} /\ h.checked = {} /\ h.phase = "field"
  /\ h.pc # "idle" => h.call \in Calls
  /\ h.pc = "department" => h.call.op = "toggle"
  /\ h.pc = "adding" => h.phase # "escalation"
  /\ h.pc \in {"number", "insert"} => MayPublish(h.items)
  /\ h.pc = "insert" => h.last <= Highest(DOMAIN log[h.call.type])
  /\ h.pc = "ticket" => h.last \in DOMAIN log[h.call.type] /\ h.floor <= h.last
  /\ h.pc = "latest" => h.floor <= Highest(DOMAIN log[h.call.type])

HandlersWellFormed == \A r \in Requests : WellFormed(req[r], versions)

\* The numbers of each type are an initial segment.
Gapless ==
  /\ DOMAIN versions = Types
  /\ \A t \in Types : \E n \in Nat : DOMAIN versions[t] = 1 .. n

\* A ticket's request is over, so that its name is not given again.
TicketsAnswered == \A k \in tickets : req[k.name].pc = "done"

IInv == /\ TypeOK
        /\ HandlersWellFormed
        /\ Gapless
        /\ VersionUsable
        /\ TicketsAnswered
        /\ TicketOnCurrentVersion
-----------------------------------------------------------------------------
LEMMA MaxOfInterval ==
  ASSUME NEW n \in Nat
  PROVE  Max((1 .. n) \cup {0}) = n
  <1>1. /\ n \in (1 .. n) \cup {0}
        /\ \A y \in (1 .. n) \cup {0} : n >= y
    OBVIOUS
  <1>2. \A x \in (1 .. n) \cup {0} : (\A y \in (1 .. n) \cup {0} : x >= y) => x = n
    OBVIOUS
  <1> QED
    BY <1>1, <1>2 DEF Max

\* Without a gap, the highest number is how many there are.
LEMMA LastOfInterval ==
  ASSUME NEW t \in Types, NEW n \in Nat, DOMAIN versions[t] = 1 .. n
  PROVE  LastNumber(t) = n /\ Highest(DOMAIN versions[t]) = n
  BY MaxOfInterval DEF LastNumber, Highest

LEMMA LastIsNat ==
  ASSUME Gapless, NEW t \in Types
  PROVE  /\ LastNumber(t) \in Nat /\ DOMAIN versions[t] = 1 .. LastNumber(t)
         /\ LastNumber(t) = Highest(DOMAIN versions[t])
  BY LastOfInterval DEF Gapless

\* The counting form the runs check.
LEMMA GaplessIsCounted == Gapless => VersionsGapless
  <1> SUFFICES ASSUME Gapless, NEW t \in Types
               PROVE  DOMAIN versions[t] = 1 .. Cardinality(DOMAIN versions[t])
    BY DEF VersionsGapless
  <1>1. PICK n \in Nat : DOMAIN versions[t] = 1 .. n
    BY DEF Gapless
  <1>2. Cardinality(1 .. n) = n
    BY FS_Interval
  <1> QED
    BY <1>1, <1>2

\* Every call is for a ticket type, and a switch is on or off.
LEMMA CallOf ==
  ASSUME NEW c \in Calls
  PROVE  /\ c \in CallType /\ c # None
         /\ c.type \in Types
         /\ c.op = "toggle" => c.isActive \in BOOLEAN
         /\ c.op \in {"add", "update"} => c.item \in Items
         /\ c.op = "update" => c.item \in Rows("field")
  BY CallsAssumption, NoneAssumption DEF CallType, Rows

THEOREM InitIInv == Init => IInv
  <1> SUFFICES ASSUME Init PROVE IInv
    OBVIOUS
  <1> USE DEF Init
  <1>1. TypeOK
    BY BoundAssumption DEF TypeOK, Handler, Pcs, Answers, Kinds, Rows
  <1>2. HandlersWellFormed
    BY DEF HandlersWellFormed, WellFormed
  <1>3. Gapless
    BY DEF Gapless
  <1>4. VersionUsable /\ TicketsAnswered /\ TicketOnCurrentVersion
    BY DEF VersionUsable, TicketsAnswered, TicketOnCurrentVersion
  <1> QED
    BY <1>1, <1>2, <1>3, <1>4 DEF IInv
-----------------------------------------------------------------------------
(* The handlers that the actions make out of handlers *)

LEMMA RejectedHandler ==
  ASSUME NEW h \in Handler, NEW log, WellFormed(h, log), h.pc # "idle", NEW error
  PROVE  /\ Rejected(h, error) \in Handler
         /\ WellFormed(Rejected(h, error), log)
         /\ Rejected(h, error).pc \in {h.pc, "done"}
         /\ Rejected(h, error).floor = h.floor
  <1>1. \/ Rejected(h, error) = h
        \/ \E a \in Answers : Rejected(h, error) = [h EXCEPT !.pc = "done", !.answer = a]
    <2>1. CASE h.answer # None
      BY <2>1 DEF Rejected
    <2>2. CASE h.answer = None /\ h.call.op = "toggle" /\ error = "P2002"
      <3>1. Rejected(h, error) = [h EXCEPT !.pc = "done", !.answer = "swallowed"]
        BY <2>2 DEF Rejected
      <3> QED
        BY <3>1 DEF Answers
    <2>3. CASE h.answer = None /\ ~(h.call.op = "toggle" /\ error = "P2002") /\ error = "conflict"
      <3>1. Rejected(h, error) = [h EXCEPT !.pc = "done", !.answer = "refused"]
        BY <2>3 DEF Rejected
      <3> QED
        BY <3>1 DEF Answers
    <2>4. CASE h.answer = None /\ ~(h.call.op = "toggle" /\ error = "P2002") /\ error # "conflict"
      <3>1. Rejected(h, error) = [h EXCEPT !.pc = "done", !.answer = "failed"]
        BY <2>4 DEF Rejected
      <3> QED
        BY <3>1 DEF Answers
    <2> QED
      BY <2>1, <2>2, <2>3, <2>4
  <1>2. CASE Rejected(h, error) = h
    BY <1>2
  <1>3. ASSUME NEW a \in Answers, Rejected(h, error) = [h EXCEPT !.pc = "done", !.answer = a]
        PROVE  /\ Rejected(h, error) \in Handler
               /\ WellFormed(Rejected(h, error), log)
               /\ Rejected(h, error).pc \in {h.pc, "done"}
               /\ Rejected(h, error).floor = h.floor
    <2>1. Rejected(h, error) \in Handler
      BY <1>3 DEF Handler, Pcs
    <2>2. Rejected(h, error).pc = "done" /\ Rejected(h, error).floor = h.floor
      BY <1>3 DEF Handler
    <2>3. WellFormed(Rejected(h, error), log)
      BY <1>3 DEF Handler, WellFormed
    <2> QED
      BY <2>1, <2>2, <2>3
  <1> QED
    BY <1>1, <1>2, <1>3

LEMMA ProvisioningHandler ==
  ASSUME NEW h \in Handler, NEW log, WellFormed(h, log), h.pc # "idle",
         NEW kind \in Kinds \ {"escalation"}
  PROVE  /\ AddDefaults(h, kind) \in Handler
         /\ WellFormed(AddDefaults(h, kind), log)
         /\ AddDefaults(h, kind).pc = "adding"
  <1> DEFINE todo == Defaults \cap Rows(kind)
  <1>1. /\ todo \in SUBSET Items
        /\ AddDefaults(h, kind) = [h EXCEPT !.pc = "adding", !.phase = kind, !.todo = todo]
    BY ItemsAssumption DEF AddDefaults, Rows
  <1>2. todo \subseteq Defaults \cap Rows(kind)
    OBVIOUS
  <1> HIDE DEF todo
  <1>3. AddDefaults(h, kind) \in Handler
    BY <1>1 DEF Handler, Pcs
  <1>4. WellFormed(AddDefaults(h, kind), log)
    BY <1>1, <1>2 DEF Handler, WellFormed, Kinds
  <1> QED
    BY <1>1, <1>3, <1>4 DEF Handler

LEMMA AdvancedHandler ==
  ASSUME NEW h \in Handler, NEW log, WellFormed(h, log), h.pc # "idle"
  PROVE  /\ Advanced(h) \in Handler
         /\ WellFormed(Advanced(h), log)
         /\ Advanced(h) = h \/ h.pc = "adding"
  <1>1. CASE h.pc # "adding" \/ h.todo \cup h.checked # {}
    BY <1>1 DEF Advanced
  <1>2. CASE h.pc = "adding" /\ h.todo \cup h.checked = {} /\ h.call.op = "add"
    BY <1>2 DEF Advanced, Handler, Pcs, Answers, WellFormed
  <1>3. CASE h.pc = "adding" /\ h.todo \cup h.checked = {} /\ h.call.op # "add" /\ h.phase = "rule"
    BY <1>3 DEF Advanced, Handler, Pcs, Kinds, WellFormed
  <1>4. CASE h.pc = "adding" /\ h.todo \cup h.checked = {} /\ h.call.op # "add" /\ h.phase # "rule"
    <2>1. NextKind[h.phase] \in Kinds \ {"escalation"}
      BY <1>4 DEF WellFormed, Handler, NextKind, Kinds
    <2>2. Advanced(h) = AddDefaults(h, NextKind[h.phase])
      BY <1>4 DEF Advanced
    <2> QED
      BY <2>1, <2>2, <1>4, ProvisioningHandler
  <1> QED
    BY <1>1, <1>2, <1>3, <1>4
-----------------------------------------------------------------------------
(* Steps *)

\* A step that inserts no version and no ticket, and does not touch what a
\* request that is over has read, leaves everything as it was.
LEMMA QuietStep ==
  ASSUME IInv, NEW r \in Requests, NEW h \in Handler,
         req' = [req EXCEPT ![r] = h],
         WellFormed(h, versions),
         req[r].pc = "done" => h.pc = "done" /\ h.floor = req[r].floor,
         versions' = versions, tickets' = tickets,
         active' \in [Departments -> BOOLEAN], defined' \subseteq Types,
         drafts' \in [Types -> SUBSET Items],
         retired' \in [Types -> SUBSET Rows("field")], faults' \in Nat
  PROVE  IInv'
  <1> USE DEF IInv
  <1>1. TypeOK'
    BY DEF TypeOK
  <1>2. HandlersWellFormed'
    BY DEF HandlersWellFormed, TypeOK
  <1>3. Gapless' /\ VersionUsable'
    BY DEF Gapless, VersionUsable
  <1>4. \A s \in Requests : req[s].pc = "done" => req'[s].pc = "done" /\ req'[s].floor = req[s].floor
    BY DEF TypeOK
  <1>5. \A k \in tickets : k.name \in Requests
    BY DEF TypeOK, Ticket
  <1>6. TicketsAnswered' /\ TicketOnCurrentVersion'
    BY <1>4, <1>5 DEF TicketsAnswered, TicketOnCurrentVersion
  <1> QED
    BY <1>1, <1>2, <1>3, <1>6

\* The requests come in.
LEMMA SendStep ==
  ASSUME IInv, NEW r \in Requests, Send(r)
  PROVE  IInv'
  <1> USE DEF IInv
  <1>1. PICK c \in Calls :
          \/ FieldsSection(r, c) \/ StatusesSection(r, c) \/ TransitionsSection(r, c)
          \/ SlaRulesSection(r, c) \/ EscalationRulesSection(r, c)
          \/ OnPublish(r, c) \/ OnCreate(r, c) \/ OnToggle(r, c) \/ RaiseTicket(r, c)
          \/ UpdateField(r, c)
    BY DEF Send
  <1>2. req[r] \in Handler /\ WellFormed(req[r], versions)
    BY DEF TypeOK, HandlersWellFormed
  <1>3. c \in CallType /\ c.type \in Types
    BY CallOf
  <1>4. ASSUME NEW h \in Handler, Start(r, c, h), WellFormed(h, versions)
        PROVE  IInv'
    <2>1. /\ req' = [req EXCEPT ![r] = h] /\ req[r].pc # "done"
          /\ UNCHANGED <<active, defined, drafts, retired, versions, tickets, faults>>
      BY <1>4 DEF Start
    <2> QED
      BY <2>1, <1>4, QuietStep DEF TypeOK
  <1>5. ASSUME NEW kind, Section(r, c, kind) PROVE IInv'
    <2> DEFINE h == [req[r] EXCEPT !.pc = "adding", !.call = c, !.todo = {c.item}]
    <2>1. Start(r, c, h) /\ req[r].pc = "idle" /\ c.item \in Items
      BY <1>5, CallOf DEF Section, Start
    <2>2. h \in Handler /\ WellFormed(h, versions)
      BY <2>1, <1>2, <1>3 DEF Handler, Pcs, WellFormed
    <2> QED
      BY <2>1, <2>2, <1>4
  <1>6. CASE OnPublish(r, c)
    <2> DEFINE h == [req[r] EXCEPT !.pc = "read", !.call = c]
    <2>1. Start(r, c, h)
      BY <1>6 DEF OnPublish
    <2>2. h \in Handler /\ WellFormed(h, versions)
      BY <1>2, <1>3 DEF Handler, Pcs, WellFormed
    <2> QED
      BY <2>1, <2>2, <1>4
  <1>7. CASE OnCreate(r, c)
    <2> DEFINE h == [req[r] EXCEPT !.pc = "findType", !.call = c]
    <2>1. Start(r, c, h)
      BY <1>7 DEF OnCreate
    <2>2. h \in Handler /\ WellFormed(h, versions)
      BY <1>2, <1>3 DEF Handler, Pcs, WellFormed
    <2> QED
      BY <2>1, <2>2, <1>4
  <1>8. CASE OnToggle(r, c)
    <2> DEFINE h == [req[r] EXCEPT !.pc = "department", !.call = c]
    <2>1. Start(r, c, h) /\ c.op = "toggle"
      BY <1>8 DEF OnToggle
    <2>2. h \in Handler /\ WellFormed(h, versions)
      BY <2>1, <1>2, <1>3 DEF Handler, Pcs, WellFormed
    <2> QED
      BY <2>1, <2>2, <1>4
  <1>9. CASE RaiseTicket(r, c)
    <2> DEFINE h == [req[r] EXCEPT !.pc = "latest", !.call = c, !.floor = LastNumber(c.type)]
    <2>1. Start(r, c, h)
      BY <1>9 DEF RaiseTicket
    <2>2. LastNumber(c.type) \in Nat /\ LastNumber(c.type) = Highest(DOMAIN versions[c.type])
      BY <1>3, LastIsNat
    <2>3. /\ h \in Handler /\ h.pc = "latest" /\ h.call = c
          /\ h.floor = Highest(DOMAIN versions[c.type]) /\ h.floor \in Nat
      BY <2>2, <1>2, <1>3 DEF Handler, Pcs
    <2>4. h.floor <= Highest(DOMAIN versions[h.call.type])
      BY <2>3
    <2>5. WellFormed(h, versions)
      BY <2>3, <2>4 DEF WellFormed
    <2> QED
      BY <2>1, <2>3, <2>5, <1>4
  <1>10. CASE UpdateField(r, c)
    <2> DEFINE h == [req[r] EXCEPT !.pc = "done", !.call = c, !.answer = "ok"]
    <2>1. /\ req' = [req EXCEPT ![r].pc = "done", ![r].call = c, ![r].answer = "ok"]
          /\ req[r].pc # "done"
          /\ UNCHANGED <<active, defined, drafts, versions, tickets, faults>>
      BY <1>10 DEF UpdateField
    <2>4. req' = [req EXCEPT ![r] = h]
      BY <2>1, ZenonT(60) DEF TypeOK
    <2>2. h \in Handler /\ WellFormed(h, versions)
      BY <1>2, <1>3 DEF Handler, Pcs, Answers, WellFormed
    <2>3. retired' \in [Types -> SUBSET Rows("field")]
      BY <1>10, CallOf DEF UpdateField, TypeOK
    <2> QED
      BY <2>1, <2>2, <2>3, <2>4, QuietStep DEF TypeOK
  <1> QED
    BY <1>1, <1>5, <1>6, <1>7, <1>8, <1>9, <1>10
    DEF FieldsSection, StatusesSection, TransitionsSection, SlaRulesSection, EscalationRulesSection

\* What a handler that is at work is known to be.
LEMMA AtWork ==
  ASSUME IInv, NEW r \in Requests, req[r].pc # "idle"
  PROVE  /\ req[r] \in Handler /\ WellFormed(req[r], versions)
         /\ req[r].call \in Calls /\ TypeOf(r) \in Types
         /\ DeptOf[TypeOf(r)] \in Departments
         /\ LastNumber(TypeOf(r)) \in Nat
         /\ LastNumber(TypeOf(r)) = Highest(DOMAIN versions[TypeOf(r)])
         /\ DOMAIN versions[TypeOf(r)] = 1 .. LastNumber(TypeOf(r))
  <1>1. req[r] \in Handler /\ WellFormed(req[r], versions)
    BY DEF IInv, TypeOK, HandlersWellFormed
  <1>2. req[r].call \in Calls /\ TypeOf(r) \in Types
    BY <1>1, CallOf DEF WellFormed, TypeOf
  <1> QED
    BY <1>1, <1>2, LastIsNat, TypesAssumption DEF IInv

\* A handler that only goes on to its next call.
LEMMA GotoStep ==
  ASSUME IInv, NEW r \in Requests, req[r].pc \notin {"idle", "done"},
         NEW pc \in {"hasType", "define", "findType"}, Goto(r, pc),
         versions' = versions, tickets' = tickets,
         active' \in [Departments -> BOOLEAN],
         UNCHANGED <<defined, drafts, retired, faults>>
  PROVE  IInv'
  <1> DEFINE h == [req[r] EXCEPT !.pc = pc]
  <1>1. req' = [req EXCEPT ![r] = h]
    BY ZenonT(60) DEF Goto
  <1>2. h \in Handler /\ WellFormed(h, versions)
    <2>1. req[r] \in Handler /\ req[r].call \in Calls
      BY AtWork
    <2>2. h \in Handler /\ h.pc # "idle" /\ h.call \in Calls
      BY <2>1 DEF Handler, Pcs
    <2> QED
      BY <2>2, <2>1 DEF WellFormed, Handler
  <1> QED
    BY <1>1, <1>2, QuietStep DEF IInv, TypeOK

\* A handler that answers.
LEMMA AnswerStep ==
  ASSUME IInv, NEW r \in Requests, req[r].pc \notin {"idle", "done"},
         NEW answer \in Answers, Answer(r, answer),
         versions' = versions, tickets' = tickets,
         active' \in [Departments -> BOOLEAN], defined' \subseteq Types,
         UNCHANGED <<drafts, retired, faults>>
  PROVE  IInv'
  <1> DEFINE h == [req[r] EXCEPT !.pc = "done", !.answer = answer]
  <1>1. req' = [req EXCEPT ![r].pc = "done", ![r].answer = answer]
    BY DEF Answer
  <1>2. req' = [req EXCEPT ![r] = h]
    BY <1>1, ZenonT(60) DEF IInv, TypeOK
  <1>3. h \in Handler /\ WellFormed(h, versions)
    <2>1. req[r] \in Handler /\ req[r].call \in Calls
      BY AtWork
    <2>2. h \in Handler /\ h.pc # "idle" /\ h.call \in Calls
      BY <2>1 DEF Handler, Pcs
    <2> QED
      BY <2>2, <2>1 DEF WellFormed, Handler
  <1> QED
    BY <1>2, <1>3, QuietStep DEF IInv, TypeOK

LEMMA UpdateDepartmentStep ==
  ASSUME IInv, NEW r \in Requests, UpdateDepartment(r)
  PROVE  IInv'
  <1>1. req[r].pc = "department"
    BY DEF UpdateDepartment
  <1>2. req[r].call.isActive \in BOOLEAN
    BY <1>1, AtWork, CallOf DEF WellFormed
  <1>3. active' \in [Departments -> BOOLEAN]
    <2>1. active' = [active EXCEPT ![DeptOf[TypeOf(r)]] = req[r].call.isActive]
      BY DEF UpdateDepartment
    <2> QED
      BY <2>1, <1>2 DEF IInv, TypeOK
  <1>4. UNCHANGED <<defined, drafts, retired, versions, tickets, faults>> /\ defined' \subseteq Types
    BY DEF UpdateDepartment, IInv, TypeOK
  <1>5. Goto(r, "hasType") \/ Answer(r, "ok")
    BY DEF UpdateDepartment
  <1> QED
    BY <1>1, <1>3, <1>4, <1>5, GotoStep, AnswerStep DEF Answers

LEMMA LookStep ==
  ASSUME IInv, NEW r \in Requests, HasType(r) \/ FindType(r)
  PROVE  IInv'
  <1>1. /\ req[r].pc \in {"hasType", "findType"}
        /\ UNCHANGED <<active, defined, drafts, retired, versions, tickets, faults>>
        /\ Answer(r, "ok") \/ Answer(r, "refused") \/ Goto(r, "define")
    BY DEF HasType, FindType
  <1>2. active' \in [Departments -> BOOLEAN] /\ defined' \subseteq Types
    BY <1>1 DEF IInv, TypeOK
  <1> QED
    BY <1>1, <1>2, GotoStep, AnswerStep DEF Answers

LEMMA DefineStep ==
  ASSUME IInv, NEW r \in Requests, Define(r)
  PROVE  IInv'
  <1>1. /\ req[r].pc = "define"
        /\ UNCHANGED <<active, drafts, retired, versions, tickets, faults>>
        /\ defined' = defined \cup {TypeOf(r)}
    BY DEF Define
  <1>2. active' \in [Departments -> BOOLEAN] /\ defined' \subseteq Types
    BY <1>1, AtWork DEF IInv, TypeOK
  <1>3. CASE \E answer \in {"lost", "failed", "ok"} : Answer(r, answer)
    BY <1>1, <1>2, <1>3, AnswerStep DEF Answers
  <1>4. CASE \E kind \in {"field", "status"} : req' = [req EXCEPT ![r] = AddDefaults(@, kind)]
    <2>1. PICK kind \in {"field", "status"} : req' = [req EXCEPT ![r] = AddDefaults(@, kind)]
      BY <1>4
    <2> DEFINE h == AddDefaults(req[r], kind)
    <2>2. req' = [req EXCEPT ![r] = h]
      BY <2>1
    <2>3. h \in Handler /\ WellFormed(h, versions)
      BY <1>1, AtWork, ProvisioningHandler DEF Kinds
    <2> QED
      BY <1>1, <1>2, <2>2, <2>3, QuietStep DEF IInv, TypeOK
  <1> QED
    BY <1>3, <1>4 DEF Define

\* A handler is as well-formed as another that differs in its inserts only.
LEMMA InsertsHandler ==
  ASSUME NEW h \in Handler, NEW g \in Handler, NEW log, WellFormed(h, log), h.pc # "idle",
         g.pc = h.pc, g.call = h.call, g.phase = h.phase, g.items = h.items,
         g.floor = h.floor, g.last = h.last
  PROVE  WellFormed(g, log)
  BY DEF WellFormed

LEMMA FindRowStep ==
  ASSUME IInv, NEW r \in Requests, NEW i \in Items, FindRow(r, i)
  PROVE  IInv'
  <1> DEFINE g == [req[r] EXCEPT !.todo = @ \ {i}]
             f == [g EXCEPT !.checked = @ \cup {i}]
             h == IF i \in drafts[TypeOf(r)] THEN Rejected(g, "conflict") ELSE f
  <1>1. req[r].pc # "idle" /\ req[r] \in Handler /\ WellFormed(req[r], versions)
    BY DEF FindRow, IInv, TypeOK, HandlersWellFormed, WellFormed
  <1>2. /\ g \in Handler /\ g.pc = req[r].pc /\ g.call = req[r].call /\ g.phase = req[r].phase
        /\ g.items = req[r].items /\ g.floor = req[r].floor /\ g.last = req[r].last
    BY <1>1 DEF Handler
  <1>3. WellFormed(g, versions)
    BY <1>1, <1>2, InsertsHandler
  <1>4. /\ f \in Handler /\ f.pc = req[r].pc /\ f.call = req[r].call /\ f.phase = req[r].phase
        /\ f.items = req[r].items /\ f.floor = req[r].floor /\ f.last = req[r].last
    BY <1>1 DEF Handler
  <1>5. WellFormed(f, versions)
    BY <1>1, <1>4, InsertsHandler
  <1>6. /\ h \in Handler /\ WellFormed(h, versions)
        /\ h.pc \in {req[r].pc, "done"} /\ h.floor = req[r].floor
    <2>1. CASE i \in drafts[TypeOf(r)]
      BY <2>1, <1>1, <1>2, <1>3, RejectedHandler
    <2>2. CASE i \notin drafts[TypeOf(r)]
      BY <2>2, <1>4, <1>5
    <2> QED
      BY <2>1, <2>2
  <1>7. /\ req' = [req EXCEPT ![r] = h]
        /\ UNCHANGED <<active, defined, drafts, retired, versions, tickets, faults>>
    BY DEF FindRow
  <1> QED
    BY <1>1, <1>6, <1>7, QuietStep DEF IInv, TypeOK

LEMMA InsertRowStep ==
  ASSUME IInv, NEW r \in Requests, NEW i \in Items, InsertRow(r, i)
  PROVE  IInv'
  <1> DEFINE g == [req[r] EXCEPT !.checked = @ \ {i}]
             h == IF i \in drafts[TypeOf(r)] THEN Rejected(g, "P2002") ELSE Advanced(g)
  <1>1. req[r].pc # "idle" /\ req[r] \in Handler /\ WellFormed(req[r], versions)
    BY DEF InsertRow, IInv, TypeOK, HandlersWellFormed, WellFormed
  <1>2. /\ g \in Handler /\ g.pc = req[r].pc /\ g.call = req[r].call /\ g.phase = req[r].phase
        /\ g.items = req[r].items /\ g.floor = req[r].floor /\ g.last = req[r].last
    BY <1>1 DEF Handler
  <1>3. WellFormed(g, versions)
    BY <1>1, <1>2, InsertsHandler
  <1>4. h \in Handler /\ WellFormed(h, versions)
        /\ (req[r].pc = "done" => h.pc = "done" /\ h.floor = req[r].floor)
    <2> HIDE DEF g
    <2>1. CASE i \in drafts[TypeOf(r)]
      BY <2>1, <1>1, <1>2, <1>3, RejectedHandler
    <2>2. CASE i \notin drafts[TypeOf(r)]
      BY <2>2, <1>1, <1>2, <1>3, AdvancedHandler
    <2> QED
      BY <2>1, <2>2
  <1>5. /\ req' = [req EXCEPT ![r] = h]
        /\ UNCHANGED <<active, defined, retired, versions, tickets, faults>>
    BY DEF InsertRow
  <1>6. drafts' \in [Types -> SUBSET Items]
    BY <1>1, AtWork DEF InsertRow, IInv, TypeOK
  <1> QED
    BY <1>4, <1>5, <1>6, QuietStep DEF IInv, TypeOK

\* A handler that fails, whether one of its inserts does or the call it waits for.
LEMMA CallFailsStep ==
  ASSUME IInv, NEW r \in Requests, CallFails(r)
  PROVE  IInv'
  <1>1. /\ UNCHANGED <<active, defined, drafts, retired, versions, tickets>>
        /\ faults' \in Nat
    <2>1. faults \in Nat /\ faults' = faults + 1
      BY DEF CallFails, IInv, TypeOK
    <2>2. faults' \in Nat
      BY <2>1
    <2> QED
      BY <2>2 DEF CallFails
  <1>2. CASE req[r].pc \notin {"idle", "done"} /\ req' = [req EXCEPT ![r] = Rejected(@, "error")]
    <2> DEFINE h == Rejected(req[r], "error")
    <2>1. req' = [req EXCEPT ![r] = h]
      BY <1>2
    <2>2. h \in Handler /\ WellFormed(h, versions)
      BY <1>2, AtWork, RejectedHandler
    <2> QED
      BY <1>1, <1>2, <2>1, <2>2, QuietStep DEF IInv, TypeOK
  <1>3. CASE \E i \in req[r].todo \cup req[r].checked :
               LET g == [req[r] EXCEPT !.todo = @ \ {i}, !.checked = @ \ {i}]
               IN  req' = [req EXCEPT ![r] = Rejected(g, "error")]
    <2>1. PICK i \in req[r].todo \cup req[r].checked :
            LET g == [req[r] EXCEPT !.todo = @ \ {i}, !.checked = @ \ {i}]
            IN  req' = [req EXCEPT ![r] = Rejected(g, "error")]
      BY <1>3
    <2> DEFINE g == [req[r] EXCEPT !.todo = @ \ {i}, !.checked = @ \ {i}]
               h == Rejected(g, "error")
    <2>2. req' = [req EXCEPT ![r] = h]
      BY <2>1
    <2>3. req[r].pc # "idle" /\ req[r] \in Handler /\ WellFormed(req[r], versions)
      BY <2>1 DEF IInv, TypeOK, HandlersWellFormed, WellFormed
    <2>4. /\ g \in Handler /\ g.pc = req[r].pc /\ g.call = req[r].call /\ g.phase = req[r].phase
          /\ g.items = req[r].items /\ g.floor = req[r].floor /\ g.last = req[r].last
      BY <2>3 DEF Handler
    <2>6. WellFormed(g, versions)
      BY <2>3, <2>4, InsertsHandler
    <2>7. h \in Handler /\ WellFormed(h, versions)
          /\ h.pc \in {req[r].pc, "done"} /\ h.floor = req[r].floor
      <3> HIDE DEF g
      <3> QED
        BY <2>3, <2>4, <2>6, RejectedHandler
    <2> QED
      BY <1>1, <2>2, <2>7, QuietStep DEF IInv, TypeOK
  <1> QED
    BY <1>2, <1>3 DEF CallFails

LEMMA ReadRelationStep ==
  ASSUME IInv, NEW r \in Requests, ReadRelation(r)
  PROVE  IInv'
  <1> DEFINE t == TypeOf(r)
             kind == req[r].phase
             read == req[r].items \cup FrozenRows(t, kind)
             floor == IF kind = "field" THEN LastNumber(t) ELSE req[r].floor
             g == [req[r] EXCEPT !.items = @ \cup FrozenRows(t, kind),
                                 !.floor = IF kind = "field" THEN LastNumber(t) ELSE @]
             h == CASE NextKind[kind] # None -> [g EXCEPT !.phase = NextKind[kind]]
                    [] NextKind[kind] = None /\ MayPublish(g.items) -> [g EXCEPT !.pc = "number"]
                    [] OTHER -> [g EXCEPT !.pc = "done", !.answer = "refused"]
  <1>1. /\ req[r].pc = "read" /\ req[r] \in Handler /\ req[r].call \in Calls
        /\ t \in Types /\ LastNumber(t) \in Nat
    BY AtWork DEF ReadRelation
  <1>2. read \in SUBSET Items /\ floor \in Nat
    BY <1>1 DEF FrozenRows, IInv, TypeOK, Handler
  <1>3. /\ g \in Handler /\ g.pc = "read" /\ g.call \in Calls /\ g.items = read
    BY <1>1, <1>2 DEF Handler
  <1>4. h \in Handler /\ WellFormed(h, versions)
    <2> HIDE DEF g
    <2>1. CASE NextKind[kind] # None
      <3>1. NextKind[kind] \in Kinds
        BY <2>1, <1>1 DEF NextKind, Kinds, Handler
      <3>2. h = [g EXCEPT !.phase = NextKind[kind]]
        BY <2>1
      <3> QED
        BY <3>1, <3>2, <1>3 DEF Handler, WellFormed
    <2>2. CASE NextKind[kind] = None /\ MayPublish(g.items)
      <3>1. h = [g EXCEPT !.pc = "number"]
        BY <2>2
      <3> QED
        BY <2>2, <3>1, <1>3 DEF Handler, Pcs, WellFormed
    <2>3. CASE NextKind[kind] = None /\ ~MayPublish(g.items)
      <3>1. h = [g EXCEPT !.pc = "done", !.answer = "refused"]
        BY <2>3
      <3> QED
        BY <3>1, <1>3 DEF Handler, Pcs, Answers, WellFormed
    <2> QED
      BY <2>1, <2>2, <2>3
  <1>5. /\ req' = [req EXCEPT ![r] = h]
        /\ UNCHANGED <<active, defined, drafts, retired, versions, tickets, faults>>
    BY DEF ReadRelation
  <1> QED
    BY <1>1, <1>4, <1>5, QuietStep DEF IInv, TypeOK

LEMMA ReadNumberStep ==
  ASSUME IInv, NEW r \in Requests, ReadNumber(r)
  PROVE  IInv'
  <1> DEFINE h == [req[r] EXCEPT !.pc = "insert", !.last = LastNumber(TypeOf(r))]
  <1>1. /\ req[r].pc = "number" /\ req[r] \in Handler /\ WellFormed(req[r], versions)
        /\ req[r].call \in Calls /\ LastNumber(TypeOf(r)) \in Nat
        /\ LastNumber(TypeOf(r)) = Highest(DOMAIN versions[req[r].call.type])
    BY AtWork DEF ReadNumber, TypeOf
  <1>2. /\ h \in Handler /\ h.pc = "insert" /\ h.call = req[r].call /\ h.items = req[r].items
        /\ h.last = Highest(DOMAIN versions[h.call.type]) /\ h.last \in Nat
    BY <1>1 DEF Handler, Pcs
  <1>3. WellFormed(h, versions)
    <2>1. h.last <= Highest(DOMAIN versions[h.call.type])
      BY <1>2
    <2> QED
      BY <1>1, <1>2, <2>1 DEF WellFormed
  <1>4. /\ req' = [req EXCEPT ![r].pc = "insert", ![r].last = LastNumber(TypeOf(r))]
        /\ UNCHANGED <<active, defined, drafts, retired, versions, tickets, faults>>
    BY DEF ReadNumber
  <1>5. req' = [req EXCEPT ![r] = h]
    BY <1>4, ZenonT(60) DEF IInv, TypeOK
  <1> QED
    BY <1>1, <1>2, <1>3, <1>4, <1>5, QuietStep DEF IInv, TypeOK

LEMMA LatestVersionStep ==
  ASSUME IInv, NEW r \in Requests, LatestVersion(r)
  PROVE  IInv'
  <1>1. /\ req[r].pc = "latest" /\ req[r] \in Handler /\ WellFormed(req[r], versions)
        /\ req[r].call \in Calls /\ LastNumber(TypeOf(r)) \in Nat
        /\ LastNumber(TypeOf(r)) = Highest(DOMAIN versions[req[r].call.type])
        /\ DOMAIN versions[TypeOf(r)] = 1 .. LastNumber(TypeOf(r))
    BY AtWork DEF LatestVersion, TypeOf
  <1>2. UNCHANGED <<active, defined, drafts, retired, versions, tickets, faults>>
    BY DEF LatestVersion
  <1>3. CASE Answer(r, "refused")
    BY <1>1, <1>2, <1>3, AnswerStep DEF Answers, IInv, TypeOK
  <1>4. CASE /\ LastNumber(TypeOf(r)) # 0
             /\ req' = [req EXCEPT ![r].pc = "ticket", ![r].last = LastNumber(TypeOf(r))]
    <2> DEFINE h == [req[r] EXCEPT !.pc = "ticket", !.last = LastNumber(TypeOf(r))]
    <2>1. req' = [req EXCEPT ![r] = h]
      BY <1>4, ZenonT(60) DEF IInv, TypeOK
    <2>2. /\ h \in Handler /\ h.pc = "ticket" /\ h.call = req[r].call
          /\ h.floor = req[r].floor /\ h.last = LastNumber(TypeOf(r))
      BY <1>1 DEF Handler, Pcs
    <2>3. h.last \in DOMAIN versions[TypeOf(r)]
      BY <1>1, <1>4, <2>2
    <2>4. h.last \in DOMAIN versions[h.call.type] /\ h.floor <= h.last
      BY <1>1, <2>2, <2>3 DEF WellFormed, TypeOf
    <2>5. WellFormed(h, versions)
      BY <1>1, <2>2, <2>4 DEF WellFormed
    <2> QED
      BY <1>1, <1>2, <2>1, <2>2, <2>5, QuietStep DEF IInv, TypeOK
  <1> QED
    BY <1>3, <1>4 DEF LatestVersion

\* The ticket takes the version its request has read, under its own name.
LEMMA CreateTicketStep ==
  ASSUME IInv, NEW r \in Requests, CreateTicket(r)
  PROVE  IInv'
  <1> DEFINE h == [req[r] EXCEPT !.pc = "done", !.answer = "ok"]
             k == [name |-> r, type |-> TypeOf(r), version |-> req[r].last]
  <1>1. /\ req[r].pc = "ticket" /\ req[r] \in Handler /\ WellFormed(req[r], versions)
        /\ req[r].call \in Calls /\ TypeOf(r) \in Types
        /\ req[r].last \in DOMAIN versions[TypeOf(r)] /\ req[r].floor <= req[r].last
    BY AtWork DEF CreateTicket, TypeOf, WellFormed
  <1>2. /\ req' = [req EXCEPT ![r].pc = "done", ![r].answer = "ok"]
        /\ tickets' = tickets \cup {k}
        /\ UNCHANGED <<active, defined, drafts, retired, versions, faults>>
    BY DEF CreateTicket, Answer
  <1>3. req' = [req EXCEPT ![r] = h]
    BY <1>2, ZenonT(60) DEF IInv, TypeOK
  <1>4. /\ h \in Handler /\ h.pc = "done" /\ h.call = req[r].call /\ h.floor = req[r].floor
    BY <1>1 DEF Handler, Pcs, Answers
  <1>5. TypeOK'
    BY <1>1, <1>2, <1>3, <1>4 DEF IInv, TypeOK, Ticket, Handler
  <1>6. HandlersWellFormed'
    BY <1>1, <1>2, <1>3, <1>4 DEF IInv, TypeOK, HandlersWellFormed, WellFormed
  <1>7. Gapless' /\ VersionUsable'
    BY <1>2 DEF IInv, Gapless, VersionUsable
  <1>8. \A j \in tickets : j.name \in Requests /\ j.name # r
    BY <1>1 DEF IInv, TypeOK, Ticket, TicketsAnswered
  <1>9. TicketsAnswered' /\ TicketOnCurrentVersion'
    BY <1>1, <1>2, <1>3, <1>4, <1>8 DEF IInv, TypeOK, TicketsAnswered, TicketOnCurrentVersion
  <1> QED
    BY <1>5, <1>6, <1>7, <1>9 DEF IInv

\* The insert as a step of the log: it finds its number taken, or that number is
\* the next and its snapshot can be used.
LEMMA InsertedVersion ==
  ASSUME IInv, NEW r \in Requests, InsertVersion(r)
  PROVE  \/ UNCHANGED versions
         \/ \E t \in Types, n \in Nat, v \in Version :
              /\ DOMAIN versions[t] = 1 .. n
              /\ Usable(v.items)
              /\ versions' = [versions EXCEPT ![t] =
                   [m \in 1 .. n + 1 |-> IF m = n + 1 THEN v ELSE versions[t][m]]]
  <1> DEFINE t == TypeOf(r)
             number == req[r].last + 1
             v == [items |-> req[r].items, floor |-> req[r].floor]
             n == LastNumber(t)
  <1>1. /\ req[r].pc = "insert" /\ req[r] \in Handler /\ WellFormed(req[r], versions)
        /\ t \in Types /\ n \in Nat /\ DOMAIN versions[t] = 1 .. n
        /\ n = Highest(DOMAIN versions[req[r].call.type])
    BY AtWork DEF InsertVersion, TypeOf
  <1>2. v \in Version
    BY <1>1 DEF Handler, Version
  <1>3. Usable(v.items)
    BY <1>1 DEF WellFormed, MayPublish, Usable
  <1>4. req[r].last \in Nat /\ req[r].last <= n
    BY <1>1 DEF Handler, WellFormed
  <1>5. CASE number \in DOMAIN versions[t]
    BY <1>5 DEF InsertVersion
  <1>6. CASE number \notin DOMAIN versions[t]
    <2>1. number = n + 1
      BY <1>1, <1>4, <1>6
    <2>2. versions' = [versions EXCEPT ![t] =
            [m \in DOMAIN @ \cup {number} |-> IF m = number THEN v ELSE @[m]]]
      BY <1>6 DEF InsertVersion
    <2>3. (1 .. n) \cup {n + 1} = 1 .. n + 1
      BY <1>1
    <2>4. versions' = [versions EXCEPT ![t] =
            [m \in 1 .. n + 1 |-> IF m = n + 1 THEN v ELSE versions[t][m]]]
      BY <1>1, <2>1, <2>2, <2>3
    <2> QED
      BY <1>1, <1>2, <1>3, <2>4
  <1> QED
    BY <1>5, <1>6

\* A version that is added takes nothing away from what handlers know.
LEMMA GrownLog ==
  ASSUME IInv, NEW t \in Types, NEW n \in Nat, NEW v \in Version,
         DOMAIN versions[t] = 1 .. n,
         versions' = [versions EXCEPT ![t] =
           [m \in 1 .. n + 1 |-> IF m = n + 1 THEN v ELSE versions[t][m]]]
  PROVE  /\ Gapless'
         /\ \A u \in Types : /\ DOMAIN versions[u] \subseteq DOMAIN versions'[u]
                             /\ Highest(DOMAIN versions[u]) \in Nat
                             /\ Highest(DOMAIN versions'[u]) \in Nat
                             /\ Highest(DOMAIN versions[u]) <= Highest(DOMAIN versions'[u])
  <1>1. /\ DOMAIN versions' = Types
        /\ DOMAIN versions'[t] = 1 .. n + 1
        /\ \A u \in Types : u # t => versions'[u] = versions[u]
    BY DEF IInv, Gapless
  <1>2. Gapless'
    BY <1>1 DEF IInv, Gapless
  <1>3. Highest(DOMAIN versions[t]) = n /\ Highest(DOMAIN versions'[t]) = n + 1
    BY <1>1, MaxOfInterval DEF Highest
  <1>4. \A u \in Types : Highest(DOMAIN versions[u]) \in Nat
    BY LastIsNat DEF IInv
  <1> QED
    BY <1>1, <1>2, <1>3, <1>4

LEMMA InsertVersionStep ==
  ASSUME IInv, NEW r \in Requests, InsertVersion(r)
  PROVE  IInv'
  <1>1. /\ req[r].pc = "insert" /\ req[r] \in Handler /\ WellFormed(req[r], versions)
        /\ req[r].call \in Calls
        /\ UNCHANGED <<active, defined, drafts, retired, tickets, faults>>
    BY AtWork DEF InsertVersion
  <1>2. PICK h \in Handler : /\ req' = [req EXCEPT ![r] = h]
                             /\ h.pc \in {"insert", "done"} /\ WellFormed(h, versions)
    <2>1. CASE req' = [req EXCEPT ![r] = Rejected(@, "P2002")]
      BY <1>1, <2>1, RejectedHandler
    <2>2. CASE Answer(r, "ok")
      <3> DEFINE h == [req[r] EXCEPT !.pc = "done", !.answer = "ok"]
      <3>1. req' = [req EXCEPT ![r].pc = "done", ![r].answer = "ok"]
        BY <2>2 DEF Answer
      <3>2. req' = [req EXCEPT ![r] = h]
        BY <3>1, ZenonT(60) DEF IInv, TypeOK
      <3>3. h \in Handler /\ h.pc = "done" /\ h.call \in Calls
        BY <1>1 DEF Handler, Pcs, Answers
      <3> QED
        BY <3>2, <3>3 DEF WellFormed
    <2> QED
      BY <2>1, <2>2 DEF InsertVersion
  <1>3. CASE UNCHANGED versions
    BY <1>1, <1>2, <1>3, QuietStep DEF IInv, TypeOK
  <1>4. CASE ~UNCHANGED versions
    <2>1. PICK t \in Types, n \in Nat, v \in Version :
            /\ DOMAIN versions[t] = 1 .. n
            /\ Usable(v.items)
            /\ versions' = [versions EXCEPT ![t] =
                 [m \in 1 .. n + 1 |-> IF m = n + 1 THEN v ELSE versions[t][m]]]
      BY <1>4, InsertedVersion
    <2>2. /\ Gapless'
          /\ \A u \in Types : /\ DOMAIN versions[u] \subseteq DOMAIN versions'[u]
                              /\ Highest(DOMAIN versions[u]) \in Nat
                              /\ Highest(DOMAIN versions'[u]) \in Nat
                              /\ Highest(DOMAIN versions[u]) <= Highest(DOMAIN versions'[u])
      BY <2>1, GrownLog
    <2>3. \A u \in Types : \A m \in DOMAIN versions'[u] :
            m \in Nat /\ versions'[u][m] \in Version /\ Usable(versions'[u][m].items)
      <3>1. \A u \in Types : \A m \in DOMAIN versions[u] :
              m \in Nat /\ versions[u][m] \in Version /\ Usable(versions[u][m].items)
        BY DEF IInv, TypeOK, VersionUsable
      <3>2. /\ DOMAIN versions'[t] = 1 .. n + 1
            /\ \A m \in 1 .. n + 1 : versions'[t][m] = IF m = n + 1 THEN v ELSE versions[t][m]
            /\ \A u \in Types : u # t => versions'[u] = versions[u]
        BY <2>1 DEF IInv, Gapless
      <3>3. \A m \in 1 .. n + 1 :
              m \in Nat /\ versions'[t][m] \in Version /\ Usable(versions'[t][m].items)
        BY <2>1, <3>1, <3>2
      <3> QED
        BY <3>1, <3>2, <3>3
    <2>4. TypeOK' /\ VersionUsable'
      BY <1>1, <1>2, <2>3 DEF IInv, TypeOK, VersionUsable
    <2>5. ASSUME NEW g \in Handler, g.pc # "idle" => g.call.type \in Types,
                 WellFormed(g, versions)
          PROVE  WellFormed(g, versions')
      BY <2>2, <2>5 DEF WellFormed, Handler
    <2>6. HandlersWellFormed'
      <3> SUFFICES ASSUME NEW s \in Requests PROVE WellFormed(req'[s], versions')
        BY DEF HandlersWellFormed
      <3>1. req'[s] \in Handler /\ WellFormed(req'[s], versions)
        BY <1>2 DEF IInv, TypeOK, HandlersWellFormed
      <3>2. req'[s].pc # "idle" => req'[s].call.type \in Types
        BY <3>1, CallOf DEF WellFormed
      <3> QED
        BY <3>1, <3>2, <2>5
    <2>7. \A k \in tickets : k.name \in Requests /\ k.name # r /\ k.type \in Types
      BY <1>1 DEF IInv, TypeOK, Ticket, TicketsAnswered
    <2>8. TicketsAnswered' /\ TicketOnCurrentVersion'
      BY <1>1, <1>2, <2>2, <2>7 DEF IInv, TypeOK, TicketsAnswered, TicketOnCurrentVersion
    <2> QED
      BY <2>2, <2>4, <2>6, <2>8 DEF IInv
  <1> QED
    BY <1>3, <1>4

LEMMA NextIInv == IInv /\ [Next]_vars => IInv'
  <1> SUFFICES ASSUME IInv, [Next]_vars PROVE IInv'
    OBVIOUS
  <1>1. CASE UNCHANGED vars
    <2> USE <1>1 DEF vars
    <2>1. TypeOK' /\ HandlersWellFormed' /\ Gapless'
      BY DEF IInv, TypeOK, HandlersWellFormed, Gapless
    <2>2. VersionUsable' /\ TicketsAnswered' /\ TicketOnCurrentVersion'
      BY DEF IInv, VersionUsable, TicketsAnswered, TicketOnCurrentVersion
    <2> QED
      BY <2>1, <2>2 DEF IInv
  <1>2. ASSUME NEW r \in Requests, Send(r) \/ Serve(r) \/ CallFails(r) PROVE IInv'
    BY <1>2, SendStep, CallFailsStep, UpdateDepartmentStep, LookStep, DefineStep, FindRowStep,
       InsertRowStep, ReadRelationStep, ReadNumberStep, InsertVersionStep, LatestVersionStep,
       CreateTicketStep
    DEF Serve
  <1> QED
    BY <1>1, <1>2 DEF Next

THEOREM SpecIInv == Spec => []IInv
  BY InitIInv, NextIInv, PTL DEF Spec
-----------------------------------------------------------------------------
(* What the runs check, for all values of the constants *)

\* Every reachable state has the types of the tables and handlers.
THEOREM PublishingTypeCorrect == Spec => []TypeOK
  <1>1. IInv => TypeOK
    BY DEF IInv
  <1> QED
    BY <1>1, SpecIInv, PTL

\* A ticket can be raised under every version that is ever published.
THEOREM VersionsAlwaysUsable == Spec => []VersionUsable
  <1>1. IInv => VersionUsable
    BY DEF IInv
  <1> QED
    BY <1>1, SpecIInv, PTL

\* However many publications overlap or fail, a type's versions are numbered
\* from 1 without a gap.
THEOREM VersionsAlwaysGapless == Spec => []VersionsGapless
  <1>1. IInv => VersionsGapless
    BY GaplessIsCounted DEF IInv
  <1> QED
    BY <1>1, SpecIInv, PTL

\* A ticket's version exists and was not out of date when its request came in.
THEOREM TicketsAlwaysCurrent == Spec => []TicketOnCurrentVersion
  <1>1. IInv => TicketOnCurrentVersion
    BY DEF IInv
  <1> QED
    BY <1>1, SpecIInv, PTL
-----------------------------------------------------------------------------
(* The handlers implement the log of versions *)

\* What the log is read off.
Frozen(numbers, rows) == [m \in numbers |-> rows[m].items]

LEMMA AppendedFrozen ==
  ASSUME NEW n \in Nat, NEW rows, NEW v,
         \A m \in 1 .. n : rows[m].items \in SUBSET Items,
         v.items \in SUBSET Items
  PROVE  Frozen(1 .. n + 1, [m \in 1 .. n + 1 |-> IF m = n + 1 THEN v ELSE rows[m]])
           = Append(Frozen(1 .. n, rows), v.items)
  <1> DEFINE old == Frozen(1 .. n, rows)
             new == Frozen(1 .. n + 1, [m \in 1 .. n + 1 |-> IF m = n + 1 THEN v ELSE rows[m]])
             S == SUBSET Items
  <1>1. old \in Seq(S) /\ Len(old) = n /\ \A m \in 1 .. n : old[m] = rows[m].items
    <2>1. old \in [1 .. n -> S]
      BY DEF Frozen
    <2> QED
      BY <2>1 DEF Frozen
  <1>2. /\ new \in Seq(S) /\ Len(new) = n + 1
        /\ \A m \in 1 .. n + 1 : new[m] = IF m = n + 1 THEN v.items ELSE rows[m].items
    <2>1. /\ \A m \in 1 .. n + 1 : new[m] = IF m = n + 1 THEN v.items ELSE rows[m].items
          /\ new = [m \in 1 .. n + 1 |-> new[m]]
      BY DEF Frozen
    <2> HIDE DEF new
    <2>2. ASSUME NEW m \in 1 .. n + 1 PROVE new[m] \in S
      <3>1. CASE m = n + 1
        BY <2>1, <3>1
      <3>2. CASE m # n + 1
        <4>1. m \in 1 .. n
          BY <3>2
        <4> QED
          BY <2>1, <3>2, <4>1
      <3> QED
        BY <3>1, <3>2
    <2>3. new \in [1 .. n + 1 -> S]
      BY <2>1, <2>2
    <2> QED
      BY <2>1, <2>3
  <1> HIDE DEF old, new
  <1>3. /\ Append(old, v.items) \in Seq(S) /\ Len(Append(old, v.items)) = n + 1
        /\ \A m \in 1 .. n : Append(old, v.items)[m] = rows[m].items
        /\ Append(old, v.items)[n + 1] = v.items
    BY <1>1, AppendProperties
  <1>4. \A m \in 1 .. n + 1 : new[m] = Append(old, v.items)[m]
    BY <1>2, <1>3
  <1>5. new = Append(old, v.items)
    BY <1>2, <1>3, <1>4, SeqEqual
  <1> QED
    BY <1>5 DEF old, new

LEMMA InitLog == Init => Log!Init
  <1> SUFFICES ASSUME Init PROVE Log!Init
    OBVIOUS
  <1>1. \A t \in Types : Frozen(DOMAIN versions[t], versions[t]) = <<>>
    BY DEF Init, Frozen
  <1> QED
    BY <1>1 DEF Init, Log!Init, Frozen

\* The insert of a version appends it to the log of its type.
LEMMA PublishLog ==
  ASSUME IInv, NEW r \in Requests, InsertVersion(r)
  PROVE  [Log!Next]_(Log!logVars)
  <1>1. tickets' = tickets
    BY DEF InsertVersion
  <1>2. CASE UNCHANGED versions
    BY <1>1, <1>2 DEF Log!logVars
  <1>3. CASE ~UNCHANGED versions
    <2>1. PICK t \in Types, n \in Nat, v \in Version :
            /\ DOMAIN versions[t] = 1 .. n
            /\ Usable(v.items)
            /\ versions' = [versions EXCEPT ![t] =
                 [m \in 1 .. n + 1 |-> IF m = n + 1 THEN v ELSE versions[t][m]]]
      BY <1>3, InsertedVersion
    <2> DEFINE log == [u \in Types |-> Frozen(DOMAIN versions[u], versions[u])]
    <2>2. /\ v.items \in SUBSET Items
          /\ \A m \in 1 .. n : versions[t][m].items \in SUBSET Items
      BY <2>1 DEF IInv, TypeOK, Version
    <2>3. /\ versions'[t] = [m \in 1 .. n + 1 |-> IF m = n + 1 THEN v ELSE versions[t][m]]
          /\ \A u \in Types : u # t => versions'[u] = versions[u]
      BY <2>1 DEF IInv, Gapless
    <2>4. Frozen(DOMAIN versions'[t], versions'[t]) = Append(log[t], v.items)
      <3> DEFINE rows == versions[t]
                 both == [m \in 1 .. n + 1 |-> IF m = n + 1 THEN v ELSE rows[m]]
      <3>1. versions'[t] = both /\ DOMAIN both = 1 .. n + 1
        BY <2>3
      <3>2. log[t] = Frozen(1 .. n, rows)
        BY <2>1
      <3>3. Frozen(1 .. n + 1, both) = Append(Frozen(1 .. n, rows), v.items)
        BY <2>1, <2>2, AppendedFrozen
      <3> HIDE DEF both, log, rows
      <3> QED
        BY <3>1, <3>2, <3>3
    <2>5. log' = [log EXCEPT ![t] = Append(@, v.items)]
      BY <2>3, <2>4
    <2>6. Log!Publish(t, v.items)
      BY <1>1, <2>1, <2>5 DEF Log!Publish, Frozen
    <2> QED
      BY <2>2, <2>6 DEF Log!Next
  <1> QED
    BY <1>2, <1>3

\* A ticket that is created pins its version.
LEMMA RaiseLog ==
  ASSUME IInv, NEW r \in Requests, CreateTicket(r)
  PROVE  Log!Next
  <1> DEFINE k == [name |-> r, type |-> TypeOf(r), version |-> req[r].last]
  <1>1. /\ req[r].pc = "ticket" /\ TypeOf(r) \in Types
        /\ req[r].last \in DOMAIN versions[TypeOf(r)]
    BY AtWork DEF CreateTicket, TypeOf, WellFormed
  <1>2. \A other \in tickets : other.name # r
    BY <1>1 DEF IInv, TicketsAnswered
  <1>3. tickets' = tickets \cup {k} /\ versions' = versions
    BY DEF CreateTicket
  <1>4. Log!Raise(k)
    BY <1>1, <1>2, <1>3 DEF Log!Raise
  <1> QED
    BY <1>1, <1>4 DEF Log!Next

LEMMA NextLog == IInv /\ [Next]_vars => [Log!Next]_(Log!logVars)
  <1> SUFFICES ASSUME IInv, [Next]_vars PROVE [Log!Next]_(Log!logVars)
    OBVIOUS
  <1>1. CASE versions' = versions /\ tickets' = tickets
    BY <1>1 DEF Log!logVars
  <1>2. CASE ~(versions' = versions /\ tickets' = tickets)
    <2>1. PICK r \in Requests : Send(r) \/ Serve(r) \/ CallFails(r)
      BY <1>2 DEF Next, vars
    <2>2. ~Send(r)
      BY <1>2 DEF Send, FieldsSection, StatusesSection, TransitionsSection,
         SlaRulesSection, EscalationRulesSection, Section, OnPublish, OnCreate, OnToggle,
         RaiseTicket, Start, UpdateField
    <2>3. ~CallFails(r)
      BY <1>2 DEF CallFails
    <2>4. ~(UpdateDepartment(r) \/ HasType(r) \/ FindType(r) \/ Define(r))
      BY <1>2 DEF UpdateDepartment, HasType, FindType, Define
    <2>5. \A i \in Items : ~(FindRow(r, i) \/ InsertRow(r, i))
      BY <1>2 DEF FindRow, InsertRow
    <2>6. ~(ReadRelation(r) \/ ReadNumber(r) \/ LatestVersion(r))
      BY <1>2 DEF ReadRelation, ReadNumber, LatestVersion
    <2>7. InsertVersion(r) \/ CreateTicket(r)
      BY <2>1, <2>2, <2>3, <2>4, <2>5, <2>6 DEF Serve
    <2> QED
      BY <2>7, PublishLog, RaiseLog
  <1> QED
    BY <1>1, <1>2

\* However publications of one type overlap, each appends one usable version
\* under the next number or none at all, and a ticket keeps its version.
THEOREM HandlersKeepLog == Spec => KeepsLog
  BY InitLog, SpecIInv, NextLog, PTL DEF Spec, KeepsLog, Log!Spec
-----------------------------------------------------------------------------
(* What a step does to its handler *)

\* A handler has answered when it is over, and not before.
Answered == \A r \in Requests : req[r].pc = "done" <=> req[r].answer # None

\* The request keeps its call and what it has read.
SameRequest(g, h) == h.call = g.call /\ h.items = g.items /\ h.floor = g.floor

\* What becomes of a handler some of whose inserts end, or whose call fails:
\* it goes on, it fails, it was adding one row, or its provisioning goes on.
Ongoing(g, h) ==
  \/ h.pc = g.pc /\ h.phase = g.phase /\ h.answer = g.answer
  \/ g.answer = None /\ h.pc = "done" /\ h.answer \in {"swallowed", "refused", "failed"}
  \/ g.pc = "adding" /\ g.call.op = "add" /\ h.pc = "done" /\ h.answer = "ok"
  \/ g.pc = "adding" /\ h.pc = "read" /\ h.phase = "field" /\ h.answer = g.answer
  \/ g.pc = "adding" /\ h.pc = "adding" /\ h.answer = g.answer

LEMMA RejectedOngoing ==
  ASSUME NEW h \in Handler, NEW error
  PROVE  SameRequest(h, Rejected(h, error)) /\ Ongoing(h, Rejected(h, error))
  <1>1. CASE h.answer # None
    <2>1. Rejected(h, error) = h
      BY <1>1 DEF Rejected
    <2> QED
      BY <2>1 DEF SameRequest, Ongoing
  <1>2. CASE h.answer = None
    <2>1. PICK a \in {"swallowed", "refused", "failed"} :
            Rejected(h, error) = [h EXCEPT !.pc = "done", !.answer = a]
      <3>1. CASE h.call.op = "toggle" /\ error = "P2002"
        BY <1>2, <3>1 DEF Rejected
      <3>2. CASE ~(h.call.op = "toggle" /\ error = "P2002") /\ error = "conflict"
        BY <1>2, <3>2 DEF Rejected
      <3>3. CASE ~(h.call.op = "toggle" /\ error = "P2002") /\ error # "conflict"
        BY <1>2, <3>3 DEF Rejected
      <3> QED
        BY <3>1, <3>2, <3>3
    <2> QED
      BY <1>2, <2>1 DEF SameRequest, Ongoing, Handler
  <1> QED
    BY <1>1, <1>2

LEMMA AdvancedOngoing ==
  ASSUME NEW h \in Handler
  PROVE  SameRequest(h, Advanced(h)) /\ Ongoing(h, Advanced(h))
  <1>1. CASE h.pc # "adding" \/ h.todo \cup h.checked # {}
    <2>1. Advanced(h) = h
      BY <1>1 DEF Advanced
    <2> QED
      BY <2>1 DEF SameRequest, Ongoing
  <1>2. CASE h.pc = "adding" /\ h.todo \cup h.checked = {} /\ h.call.op = "add"
    <2>1. Advanced(h) = [h EXCEPT !.pc = "done", !.answer = "ok"]
      BY <1>2 DEF Advanced
    <2> QED
      BY <1>2, <2>1 DEF SameRequest, Ongoing, Handler
  <1>3. CASE h.pc = "adding" /\ h.todo \cup h.checked = {} /\ h.call.op # "add" /\ h.phase = "rule"
    <2>1. Advanced(h) = [h EXCEPT !.pc = "read", !.phase = "field"]
      BY <1>3 DEF Advanced
    <2> QED
      BY <1>3, <2>1 DEF SameRequest, Ongoing, Handler
  <1>4. CASE h.pc = "adding" /\ h.todo \cup h.checked = {} /\ h.call.op # "add" /\ h.phase # "rule"
    <2>1. Advanced(h) = [h EXCEPT !.pc = "adding", !.phase = NextKind[h.phase],
                                  !.todo = Defaults \cap Rows(NextKind[h.phase])]
      BY <1>4 DEF Advanced, AddDefaults
    <2> QED
      BY <1>4, <2>1 DEF SameRequest, Ongoing, Handler
  <1> QED
    BY <1>1, <1>2, <1>3, <1>4

\* A change of the inserts under way is none of the request.
LEMMA InsertsOngoing ==
  ASSUME NEW f \in Handler, NEW g \in Handler, NEW h,
         g.pc = f.pc, g.call = f.call, g.phase = f.phase, g.answer = f.answer,
         SameRequest(f, g), SameRequest(g, h), Ongoing(g, h)
  PROVE  SameRequest(f, h) /\ Ongoing(f, h)
  BY DEF SameRequest, Ongoing

\* The inserts of a handler, and its failures.
LEMMA InsertsShape ==
  ASSUME IInv, NEW r \in Requests,
         CallFails(r) \/ \E i \in Items : FindRow(r, i) \/ InsertRow(r, i)
  PROVE  /\ req[r].pc # "idle"
         /\ \E h : /\ req' = [req EXCEPT ![r] = h]
                   /\ SameRequest(req[r], h) /\ Ongoing(req[r], h)
         /\ UNCHANGED <<active, defined, retired, versions, tickets>>
         /\ \A t \in Types : drafts[t] \subseteq drafts'[t]
  <1>1. req[r] \in Handler /\ WellFormed(req[r], versions) /\ DOMAIN drafts = Types
    BY DEF IInv, TypeOK, HandlersWellFormed
  <1>2. ASSUME NEW i \in Items, FindRow(r, i)
        PROVE  /\ req[r].pc # "idle" /\ drafts' = drafts
               /\ \E h : /\ req' = [req EXCEPT ![r] = h]
                         /\ SameRequest(req[r], h) /\ Ongoing(req[r], h)
    <2> DEFINE g == [req[r] EXCEPT !.todo = @ \ {i}]
               f == [g EXCEPT !.checked = @ \cup {i}]
    <2>1. req[r].pc # "idle" /\ drafts' = drafts
      BY <1>1, <1>2 DEF FindRow, WellFormed
    <2>2. /\ g \in Handler /\ g.pc = req[r].pc /\ g.call = req[r].call
          /\ g.phase = req[r].phase /\ g.answer = req[r].answer /\ SameRequest(req[r], g)
      BY <1>1 DEF Handler, SameRequest
    <2>3. /\ f \in Handler /\ SameRequest(req[r], f) /\ Ongoing(req[r], f)
      BY <1>1 DEF Handler, SameRequest, Ongoing
    <2>4. \/ req' = [req EXCEPT ![r] = Rejected(g, "conflict")]
          \/ req' = [req EXCEPT ![r] = f]
      BY <1>2 DEF FindRow
    <2> HIDE DEF g, f
    <2>5. SameRequest(req[r], Rejected(g, "conflict")) /\ Ongoing(req[r], Rejected(g, "conflict"))
      BY <1>1, <2>2, RejectedOngoing, InsertsOngoing
    <2> QED
      BY <2>1, <2>3, <2>4, <2>5
  <1>3. ASSUME NEW i \in Items, InsertRow(r, i)
        PROVE  /\ req[r].pc # "idle" /\ \A t \in Types : drafts[t] \subseteq drafts'[t]
               /\ \E h : /\ req' = [req EXCEPT ![r] = h]
                         /\ SameRequest(req[r], h) /\ Ongoing(req[r], h)
    <2> DEFINE g == [req[r] EXCEPT !.checked = @ \ {i}]
    <2>1. req[r].pc # "idle"
      BY <1>1, <1>3 DEF InsertRow, WellFormed
    <2>2. drafts' = [drafts EXCEPT ![TypeOf(r)] = @ \cup {i}]
      BY <1>3 DEF InsertRow
    <2>3. /\ g \in Handler /\ g.pc = req[r].pc /\ g.call = req[r].call
          /\ g.phase = req[r].phase /\ g.answer = req[r].answer /\ SameRequest(req[r], g)
      BY <1>1 DEF Handler, SameRequest
    <2>4. \/ req' = [req EXCEPT ![r] = Rejected(g, "P2002")]
          \/ req' = [req EXCEPT ![r] = Advanced(g)]
      BY <1>3 DEF InsertRow
    <2> HIDE DEF g
    <2>5. SameRequest(req[r], Rejected(g, "P2002")) /\ Ongoing(req[r], Rejected(g, "P2002"))
      BY <1>1, <2>3, RejectedOngoing, InsertsOngoing
    <2>6. SameRequest(req[r], Advanced(g)) /\ Ongoing(req[r], Advanced(g))
      BY <1>1, <2>3, AdvancedOngoing, InsertsOngoing
    <2>7. \A t \in Types : drafts[t] \subseteq drafts'[t]
      BY <1>1, <2>2
    <2> QED
      BY <2>1, <2>4, <2>5, <2>6, <2>7
  <1>4. ASSUME CallFails(r)
        PROVE  /\ req[r].pc # "idle" /\ drafts' = drafts
               /\ \E h : /\ req' = [req EXCEPT ![r] = h]
                         /\ SameRequest(req[r], h) /\ Ongoing(req[r], h)
    <2>1. CASE req[r].pc # "idle" /\ req' = [req EXCEPT ![r] = Rejected(@, "error")]
      BY <1>1, <1>4, <2>1, RejectedOngoing DEF CallFails
    <2>2. ASSUME NEW i \in req[r].todo \cup req[r].checked,
                 req' = [req EXCEPT ![r] =
                   Rejected([req[r] EXCEPT !.todo = @ \ {i}, !.checked = @ \ {i}], "error")]
          PROVE  /\ req[r].pc # "idle" /\ drafts' = drafts
                 /\ \E h : /\ req' = [req EXCEPT ![r] = h]
                           /\ SameRequest(req[r], h) /\ Ongoing(req[r], h)
      <3> DEFINE g == [req[r] EXCEPT !.todo = @ \ {i}, !.checked = @ \ {i}]
      <3>1. /\ g \in Handler /\ g.pc = req[r].pc /\ g.call = req[r].call
            /\ g.phase = req[r].phase /\ g.answer = req[r].answer /\ SameRequest(req[r], g)
        BY <1>1 DEF Handler, SameRequest
      <3>2. req' = [req EXCEPT ![r] = Rejected(g, "error")]
        BY <2>2
      <3>3. req[r].pc # "idle" /\ drafts' = drafts
        BY <1>1, <1>4, <2>2 DEF CallFails, WellFormed
      <3> HIDE DEF g
      <3>4. SameRequest(req[r], Rejected(g, "error")) /\ Ongoing(req[r], Rejected(g, "error"))
        BY <1>1, <3>1, RejectedOngoing, InsertsOngoing
      <3> QED
        BY <3>2, <3>3, <3>4
    <2> QED
      BY <1>4, <2>1, <2>2 DEF CallFails
  <1>5. UNCHANGED <<active, defined, retired, versions, tickets>>
    BY DEF CallFails, FindRow, InsertRow
  <1> QED
    BY <1>2, <1>3, <1>4, <1>5

\* A request comes in: to add a row, to publish, to create or switch, to raise a
\* ticket; or it is an update of a field, which is over at once.
LEMMA SendShape ==
  ASSUME IInv, NEW r \in Requests, Send(r)
  PROVE  /\ req[r].pc = "idle"
         /\ \E c \in Calls, h \in Handler :
              /\ req' = [req EXCEPT ![r] = h]
              /\ h.call = c /\ h.items = req[r].items /\ h.phase = "field"
              /\ \/ /\ h.answer = req[r].answer
                    /\ \/ h.pc = "adding" /\ c.op = "add"
                       \/ h.pc = "read" /\ c.op = "publish"
                       \/ h.pc = "findType" /\ c.op \in {"create", "quickCreate"}
                       \/ h.pc = "department" /\ c.op = "toggle"
                       \/ h.pc = "latest" /\ c.op = "ticket"
                 \/ h.pc = "done" /\ h.answer = "ok" /\ c.op = "update"
         /\ UNCHANGED <<active, defined, drafts, versions, tickets>>
  <1> DEFINE P(c, h) == /\ h.call = c /\ h.items = req[r].items /\ h.phase = "field"
                        /\ \/ /\ h.answer = req[r].answer
                              /\ \/ h.pc = "adding" /\ c.op = "add"
                                 \/ h.pc = "read" /\ c.op = "publish"
                                 \/ h.pc = "findType" /\ c.op \in {"create", "quickCreate"}
                                 \/ h.pc = "department" /\ c.op = "toggle"
                                 \/ h.pc = "latest" /\ c.op = "ticket"
                           \/ h.pc = "done" /\ h.answer = "ok" /\ c.op = "update"
             Goal == /\ req[r].pc = "idle"
                     /\ \E c \in Calls, h \in Handler : req' = [req EXCEPT ![r] = h] /\ P(c, h)
                     /\ UNCHANGED <<active, defined, drafts, versions, tickets>>
  <1>1. PICK c \in Calls :
          \/ \E kind : Section(r, c, kind)
          \/ OnPublish(r, c) \/ OnCreate(r, c) \/ OnToggle(r, c) \/ RaiseTicket(r, c)
          \/ UpdateField(r, c)
    BY DEF Send, FieldsSection, StatusesSection, TransitionsSection, SlaRulesSection,
       EscalationRulesSection
  <1>2. /\ req[r].pc = "idle" => req[r].phase = "field"
        /\ req[r] \in Handler /\ c \in CallType /\ c.type \in Types
    BY CallOf DEF IInv, TypeOK, HandlersWellFormed, WellFormed
  <1>3. ASSUME NEW h \in Handler, Start(r, c, h), req[r].pc = "idle" => P(c, h) PROVE Goal
    BY <1>3 DEF Start
  <1>4. ASSUME NEW kind, Section(r, c, kind) PROVE Goal
    <2> DEFINE h == [req[r] EXCEPT !.pc = "adding", !.call = c, !.todo = {c.item}]
    <2>1. Start(r, c, h) /\ c.op = "add" /\ c.item \in Items
      BY <1>4, CallOf DEF Section
    <2>2. h \in Handler /\ (req[r].pc = "idle" => P(c, h))
      BY <2>1, <1>2 DEF Handler, Pcs
    <2> HIDE DEF h, Goal, P
    <2> QED
      BY <2>1, <2>2, <1>3
  <1>5. ASSUME OnPublish(r, c) PROVE Goal
    <2> DEFINE h == [req[r] EXCEPT !.pc = "read", !.call = c]
    <2>1. Start(r, c, h) /\ c.op = "publish"
      BY <1>5 DEF OnPublish
    <2>2. h \in Handler /\ (req[r].pc = "idle" => P(c, h))
      BY <2>1, <1>2 DEF Handler, Pcs
    <2> HIDE DEF h, Goal, P
    <2> QED
      BY <2>1, <2>2, <1>3
  <1>6. ASSUME OnCreate(r, c) PROVE Goal
    <2> DEFINE h == [req[r] EXCEPT !.pc = "findType", !.call = c]
    <2>1. Start(r, c, h) /\ c.op \in {"create", "quickCreate"}
      BY <1>6 DEF OnCreate
    <2>2. h \in Handler /\ (req[r].pc = "idle" => P(c, h))
      BY <2>1, <1>2 DEF Handler, Pcs
    <2> HIDE DEF h, Goal, P
    <2> QED
      BY <2>1, <2>2, <1>3
  <1>7. ASSUME OnToggle(r, c) PROVE Goal
    <2> DEFINE h == [req[r] EXCEPT !.pc = "department", !.call = c]
    <2>1. Start(r, c, h) /\ c.op = "toggle"
      BY <1>7 DEF OnToggle
    <2>2. h \in Handler /\ (req[r].pc = "idle" => P(c, h))
      BY <2>1, <1>2 DEF Handler, Pcs
    <2> HIDE DEF h, Goal, P
    <2> QED
      BY <2>1, <2>2, <1>3
  <1>8. ASSUME RaiseTicket(r, c) PROVE Goal
    <2> DEFINE h == [req[r] EXCEPT !.pc = "latest", !.call = c, !.floor = LastNumber(c.type)]
    <2>1. Start(r, c, h) /\ c.op = "ticket"
      BY <1>8 DEF RaiseTicket
    <2>2. h \in Handler /\ (req[r].pc = "idle" => P(c, h))
      BY <2>1, <1>2, LastIsNat DEF IInv, Handler, Pcs
    <2> HIDE DEF h, Goal, P
    <2> QED
      BY <2>1, <2>2, <1>3
  <1>9. ASSUME UpdateField(r, c) PROVE Goal
    <2> DEFINE h == [req[r] EXCEPT !.pc = "done", !.call = c, !.answer = "ok"]
    <2>1. /\ c.op = "update" /\ req[r].pc = "idle"
          /\ req' = [req EXCEPT ![r].pc = "done", ![r].call = c, ![r].answer = "ok"]
          /\ UNCHANGED <<active, defined, drafts, versions, tickets>>
      BY <1>9 DEF UpdateField
    <2>2. req' = [req EXCEPT ![r] = h]
      BY <2>1, ZenonT(60) DEF IInv, TypeOK
    <2>3. h \in Handler /\ P(c, h)
      BY <2>1, <1>2 DEF Handler, Pcs, Answers
    <2> HIDE DEF h, P
    <2> QED
      BY <2>1, <2>2, <2>3
  <1> QED
    BY <1>1, <1>4, <1>5, <1>6, <1>7, <1>8, <1>9

\* The answers and the calls a handler goes on to.
LEMMA GotoShape ==
  ASSUME IInv, NEW r \in Requests, NEW pc \in Pcs, Goto(r, pc)
  PROVE  \E h \in Handler :
           /\ req' = [req EXCEPT ![r] = h] /\ SameRequest(req[r], h)
           /\ h.pc = pc /\ h.phase = req[r].phase /\ h.answer = req[r].answer
  <1> DEFINE h == [req[r] EXCEPT !.pc = pc]
  <1>1. req' = [req EXCEPT ![r] = h]
    BY ZenonT(60) DEF Goto
  <1>2. req[r] \in Handler
    BY DEF IInv, TypeOK
  <1>3. /\ h \in Handler /\ SameRequest(req[r], h)
        /\ h.pc = pc /\ h.phase = req[r].phase /\ h.answer = req[r].answer
    BY <1>2 DEF Handler, SameRequest
  <1> HIDE DEF h
  <1> QED
    BY <1>1, <1>3

LEMMA AnswerShape ==
  ASSUME IInv, NEW r \in Requests, NEW a \in Answers, Answer(r, a)
  PROVE  \E h \in Handler :
           /\ req' = [req EXCEPT ![r] = h] /\ SameRequest(req[r], h)
           /\ h.pc = "done" /\ h.answer = a
  <1> DEFINE h == [req[r] EXCEPT !.pc = "done", !.answer = a]
  <1>1. req' = [req EXCEPT ![r].pc = "done", ![r].answer = a]
    BY DEF Answer
  <1>2. req' = [req EXCEPT ![r] = h]
    BY <1>1, ZenonT(60) DEF IInv, TypeOK
  <1>3. req[r] \in Handler
    BY DEF IInv, TypeOK
  <1>4. h \in Handler /\ SameRequest(req[r], h) /\ h.pc = "done" /\ h.answer = a
    BY <1>3 DEF Handler, SameRequest, Pcs
  <1> HIDE DEF h
  <1> QED
    BY <1>2, <1>4

\* Switching and creating, up to the first insert of a draft row.
LEMMA CreateShape ==
  ASSUME IInv, NEW r \in Requests,
         UpdateDepartment(r) \/ HasType(r) \/ FindType(r) \/ Define(r)
  PROVE  /\ req[r].pc \in {"department", "hasType", "findType", "define"}
         /\ \E h \in Handler :
              /\ req' = [req EXCEPT ![r] = h] /\ SameRequest(req[r], h)
              /\ \/ h.pc = "hasType" /\ h.answer = req[r].answer
                 \/ h.pc = "define" /\ h.answer = req[r].answer
                 \/ h.pc = "adding" /\ h.answer = req[r].answer
                 \/ h.pc = "done" /\ h.answer # None
         /\ UNCHANGED <<drafts, versions, tickets>>
  <1>1. /\ req[r].pc \in {"department", "hasType", "findType", "define"}
        /\ UNCHANGED <<drafts, versions, tickets>>
    BY DEF UpdateDepartment, HasType, FindType, Define
  <1>2. CASE \E pc \in {"hasType", "define"} : Goto(r, pc)
    BY <1>1, <1>2, GotoShape DEF Pcs
  <1>3. CASE \E a \in {"ok", "refused", "lost", "failed"} : Answer(r, a)
    <2>1. PICK a \in {"ok", "refused", "lost", "failed"} : Answer(r, a)
      BY <1>3
    <2>2. a \in Answers /\ a # None
      BY NoneAssumption DEF Answers
    <2> QED
      BY <1>1, <2>1, <2>2, AnswerShape
  <1>4. CASE \E kind \in {"field", "status"} : req' = [req EXCEPT ![r] = AddDefaults(@, kind)]
    <2>1. PICK kind \in {"field", "status"} : req' = [req EXCEPT ![r] = AddDefaults(@, kind)]
      BY <1>4
    <2> DEFINE h == AddDefaults(req[r], kind)
    <2>2. req' = [req EXCEPT ![r] = h]
      BY <2>1
    <2>3. h \in Handler
      BY <1>1, AtWork, ProvisioningHandler DEF Kinds
    <2>4. h = [req[r] EXCEPT !.pc = "adding", !.phase = kind, !.todo = Defaults \cap Rows(kind)]
      BY DEF AddDefaults
    <2>5. SameRequest(req[r], h) /\ h.pc = "adding" /\ h.answer = req[r].answer
      BY <2>4, AtWork, <1>1 DEF SameRequest, Handler
    <2> HIDE DEF h
    <2> QED
      BY <1>1, <2>2, <2>3, <2>5
  <1> QED
    BY <1>2, <1>3, <1>4 DEF UpdateDepartment, HasType, FindType, Define

\* One more table is read; after the last, the publication goes on or is refused.
LEMMA ReadShape ==
  ASSUME IInv, NEW r \in Requests, ReadRelation(r)
  PROVE  /\ req[r].pc = "read"
         /\ \E h \in Handler :
              /\ req' = [req EXCEPT ![r] = h]
              /\ h.call = req[r].call
              /\ h.items = req[r].items \cup FrozenRows(TypeOf(r), req[r].phase)
              /\ h.floor = IF req[r].phase = "field" THEN LastNumber(TypeOf(r)) ELSE req[r].floor
              /\ \/ /\ h.pc = "read" /\ h.answer = req[r].answer
                    /\ h.phase = NextKind[req[r].phase] /\ h.phase # None
                 \/ /\ h.pc = "number" /\ h.answer = req[r].answer
                    /\ NextKind[req[r].phase] = None
                 \/ h.pc = "done" /\ h.answer = "refused"
         /\ UNCHANGED <<active, defined, drafts, retired, versions, tickets>>
  <1> DEFINE t == TypeOf(r)
             kind == req[r].phase
             read == req[r].items \cup FrozenRows(t, kind)
             floor == IF kind = "field" THEN LastNumber(t) ELSE req[r].floor
             g == [req[r] EXCEPT !.items = @ \cup FrozenRows(t, kind),
                                 !.floor = IF kind = "field" THEN LastNumber(t) ELSE @]
             P(h) == /\ h.call = req[r].call /\ h.items = read /\ h.floor = floor
                     /\ \/ /\ h.pc = "read" /\ h.answer = req[r].answer
                           /\ h.phase = NextKind[kind] /\ h.phase # None
                        \/ h.pc = "number" /\ h.answer = req[r].answer /\ NextKind[kind] = None
                        \/ h.pc = "done" /\ h.answer = "refused"
  <1>1. /\ req[r].pc = "read" /\ req[r] \in Handler /\ kind \in Kinds
        /\ t \in Types /\ LastNumber(t) \in Nat
    BY AtWork DEF ReadRelation, Handler
  <1>2. read \in SUBSET Items /\ floor \in Nat
    BY <1>1 DEF FrozenRows, IInv, TypeOK, Handler
  <1>3. /\ g \in Handler /\ g.pc = "read" /\ g.call = req[r].call
        /\ g.answer = req[r].answer /\ g.items = read /\ g.floor = floor
    BY <1>1, <1>2 DEF Handler
  <1>4. req' = [req EXCEPT ![r] =
          CASE NextKind[kind] # None -> [g EXCEPT !.phase = NextKind[kind]]
            [] NextKind[kind] = None /\ MayPublish(g.items) -> [g EXCEPT !.pc = "number"]
            [] OTHER -> [g EXCEPT !.pc = "done", !.answer = "refused"]]
    BY DEF ReadRelation
  <1>5. UNCHANGED <<active, defined, drafts, retired, versions, tickets>>
    BY DEF ReadRelation
  <1> HIDE DEF g, read, floor, t
  <1>6. \E h \in Handler : req' = [req EXCEPT ![r] = h] /\ P(h)
    <2>1. CASE NextKind[kind] # None
      <3> DEFINE h == [g EXCEPT !.phase = NextKind[kind]]
      <3>1. NextKind[kind] \in Kinds
        BY <2>1, <1>1 DEF NextKind, Kinds
      <3>2. h \in Handler /\ P(h)
        BY <2>1, <3>1, <1>3 DEF Handler
      <3>3. req' = [req EXCEPT ![r] = h]
        BY <2>1, <1>4
      <3> HIDE DEF h, P
      <3> QED
        BY <3>2, <3>3
    <2>2. CASE NextKind[kind] = None /\ MayPublish(g.items)
      <3> DEFINE h == [g EXCEPT !.pc = "number"]
      <3>1. h \in Handler /\ P(h)
        BY <2>2, <1>3 DEF Handler, Pcs
      <3>2. req' = [req EXCEPT ![r] = h]
        BY <2>2, <1>4
      <3> HIDE DEF h, P
      <3> QED
        BY <3>1, <3>2
    <2>3. CASE NextKind[kind] = None /\ ~MayPublish(g.items)
      <3> DEFINE h == [g EXCEPT !.pc = "done", !.answer = "refused"]
      <3>1. h \in Handler /\ P(h)
        BY <2>3, <1>3 DEF Handler, Pcs, Answers
      <3>2. req' = [req EXCEPT ![r] = h]
        BY <2>3, <1>4
      <3> HIDE DEF h, P
      <3> QED
        BY <3>1, <3>2
    <2> QED
      BY <2>1, <2>2, <2>3
  <1> QED
    BY <1>1, <1>5, <1>6 DEF t, read, floor

LEMMA NumberShape ==
  ASSUME IInv, NEW r \in Requests, ReadNumber(r)
  PROVE  /\ req[r].pc = "number"
         /\ \E h \in Handler : /\ req' = [req EXCEPT ![r] = h] /\ SameRequest(req[r], h)
                               /\ h.pc = "insert" /\ h.answer = req[r].answer
         /\ UNCHANGED <<active, defined, drafts, versions, tickets>>
  <1> DEFINE h == [req[r] EXCEPT !.pc = "insert", !.last = LastNumber(TypeOf(r))]
  <1>1. /\ req[r].pc = "number" /\ req[r] \in Handler /\ LastNumber(TypeOf(r)) \in Nat
        /\ req' = [req EXCEPT ![r].pc = "insert", ![r].last = LastNumber(TypeOf(r))]
        /\ UNCHANGED <<active, defined, drafts, versions, tickets>>
    BY AtWork DEF ReadNumber
  <1>2. req' = [req EXCEPT ![r] = h]
    BY <1>1, ZenonT(60) DEF IInv, TypeOK
  <1>3. h \in Handler /\ SameRequest(req[r], h) /\ h.pc = "insert" /\ h.answer = req[r].answer
    BY <1>1 DEF Handler, SameRequest, Pcs
  <1> HIDE DEF h
  <1> QED
    BY <1>1, <1>2, <1>3

\* The insert: its number is taken and it fails, or its snapshot is the next version.
LEMMA VersionShape ==
  ASSUME IInv, NEW r \in Requests, InsertVersion(r)
  PROVE  /\ req[r].pc = "insert" /\ TypeOf(r) \in Types
         /\ LastNumber(TypeOf(r)) \in Nat
         /\ DOMAIN versions[TypeOf(r)] = 1 .. LastNumber(TypeOf(r))
         /\ \E h : /\ req' = [req EXCEPT ![r] = h] /\ SameRequest(req[r], h)
                   /\ \/ versions' = versions /\ Ongoing(req[r], h)
                      \/ /\ h.pc = "done" /\ h.answer = "ok"
                         /\ versions' = [versions EXCEPT ![TypeOf(r)] =
                              [m \in 1 .. LastNumber(TypeOf(r)) + 1 |->
                                IF m = LastNumber(TypeOf(r)) + 1
                                THEN [items |-> req[r].items, floor |-> req[r].floor]
                                ELSE versions[TypeOf(r)][m]]]
         /\ UNCHANGED <<active, defined, drafts, tickets>>
  <1> DEFINE t == TypeOf(r)
             number == req[r].last + 1
             v == [items |-> req[r].items, floor |-> req[r].floor]
             n == LastNumber(t)
  <1>1. /\ req[r].pc = "insert" /\ req[r] \in Handler /\ WellFormed(req[r], versions)
        /\ t \in Types /\ n \in Nat /\ DOMAIN versions[t] = 1 .. n
        /\ n = Highest(DOMAIN versions[req[r].call.type])
    BY AtWork DEF InsertVersion, TypeOf
  <1>2. UNCHANGED <<active, defined, drafts, tickets>>
    BY DEF InsertVersion
  <1>3. CASE number \in DOMAIN versions[t]
    <2>1. versions' = versions /\ req' = [req EXCEPT ![r] = Rejected(req[r], "P2002")]
      BY <1>3 DEF InsertVersion
    <2> QED
      BY <1>1, <1>2, <2>1, RejectedOngoing
  <1>4. CASE number \notin DOMAIN versions[t]
    <2>1. req[r].last \in Nat /\ req[r].last <= n
      BY <1>1 DEF Handler, WellFormed
    <2>2. number = n + 1
      BY <1>1, <1>4, <2>1
    <2>3. (1 .. n) \cup {n + 1} = 1 .. n + 1
      BY <1>1
    <2>4. /\ versions' = [versions EXCEPT ![t] =
               [m \in DOMAIN @ \cup {number} |-> IF m = number THEN v ELSE @[m]]]
          /\ Answer(r, "ok")
      BY <1>4 DEF InsertVersion
    <2>5. versions' = [versions EXCEPT ![t] =
            [m \in 1 .. n + 1 |-> IF m = n + 1 THEN v ELSE versions[t][m]]]
      BY <1>1, <2>2, <2>3, <2>4
    <2>6. PICK h \in Handler : /\ req' = [req EXCEPT ![r] = h] /\ SameRequest(req[r], h)
                               /\ h.pc = "done" /\ h.answer = "ok"
      BY <2>4, AnswerShape DEF Answers
    <2> HIDE DEF t, n, v
    <2>7. \E g : /\ req' = [req EXCEPT ![r] = g] /\ SameRequest(req[r], g)
                 /\ g.pc = "done" /\ g.answer = "ok"
                 /\ versions' = [versions EXCEPT ![t] =
                      [m \in 1 .. n + 1 |-> IF m = n + 1 THEN v ELSE versions[t][m]]]
      BY <2>5, <2>6
    <2> QED
      BY <1>1, <1>2, <2>7 DEF t, n, v
  <1> QED
    BY <1>3, <1>4

LEMMA TicketShape ==
  ASSUME IInv, NEW r \in Requests, LatestVersion(r) \/ CreateTicket(r)
  PROVE  /\ req[r].pc \in {"latest", "ticket"}
         /\ \E h \in Handler :
              /\ req' = [req EXCEPT ![r] = h] /\ SameRequest(req[r], h)
              /\ \/ h.pc = "ticket" /\ h.answer = req[r].answer
                 \/ h.pc = "done" /\ h.answer \in {"ok", "refused"}
         /\ UNCHANGED <<active, defined, drafts, versions>>
  <1>1. /\ req[r].pc \in {"latest", "ticket"} /\ UNCHANGED <<active, defined, drafts, versions>>
    BY DEF LatestVersion, CreateTicket
  <1>2. CASE \E a \in {"ok", "refused"} : Answer(r, a)
    BY <1>1, <1>2, AnswerShape DEF Answers
  <1>3. CASE req' = [req EXCEPT ![r].pc = "ticket", ![r].last = LastNumber(TypeOf(r))]
    <2> DEFINE h == [req[r] EXCEPT !.pc = "ticket", !.last = LastNumber(TypeOf(r))]
    <2>1. req' = [req EXCEPT ![r] = h]
      BY <1>3, ZenonT(60) DEF IInv, TypeOK
    <2>2. req[r] \in Handler /\ LastNumber(TypeOf(r)) \in Nat
      BY <1>1, AtWork
    <2>3. h \in Handler /\ SameRequest(req[r], h) /\ h.pc = "ticket" /\ h.answer = req[r].answer
      BY <2>2 DEF Handler, SameRequest, Pcs
    <2> HIDE DEF h
    <2> QED
      BY <1>1, <2>1, <2>3
  <1> QED
    BY <1>2, <1>3 DEF LatestVersion, CreateTicket
-----------------------------------------------------------------------------
(* A publication repeats what was published before it began *)

\* The tables a publication has been through.
ReadBefore ==
  [field |-> {}, status |-> {"field"}, transition |-> {"field", "status"},
   rule |-> {"field", "status", "transition"},
   escalation |-> {"field", "status", "transition", "rule"}]

KindsRead(h) == IF h.pc = "read" THEN ReadBefore[h.phase] ELSE Kinds

\* A publication that has begun to read and has not inserted its version.
Copying(h) == h.pc \in {"number", "insert"} \/ (h.pc = "read" /\ h.phase # "field")

\* What a handler has read is still in the draft tables, and of the tables it
\* has been through, it has all the rows of the versions before it but fields.
CopyKept(r) ==
  /\ req[r].pc = "idle" => req[r].items = {}
  /\ req[r].pc # "idle" => req[r].items \subseteq drafts[TypeOf(r)]
  /\ Copying(req[r]) =>
       /\ req[r].floor <= LastNumber(TypeOf(r))
       /\ \A m \in 1 .. req[r].floor : \A i \in versions[TypeOf(r)][m].items :
            KindOf[i] \in KindsRead(req[r]) \ {"field"} => i \in req[r].items

\* The rows of a version stay in the draft tables, and it began before itself.
VersionsKept ==
  \A t \in Types : \A n \in DOMAIN versions[t] :
    versions[t][n].items \subseteq drafts[t] /\ versions[t][n].floor <= n

CopiesKept == VersionsKept /\ Supersedes /\ \A r \in Requests : CopyKept(r)

LEMMA InitCopies == Init => CopiesKept
  BY DEF Init, CopiesKept, VersionsKept, Supersedes, CopyKept, Copying

\* A step that inserts no version, and reads for none either, keeps all of that.
LEMMA CopiesStay ==
  ASSUME IInv, CopiesKept, NEW r \in Requests, NEW h,
         req' = [req EXCEPT ![r] = h],
         h.pc # "idle", h.items = req[r].items, h.call.type \in Types,
         req[r].pc # "idle" => h.call = req[r].call,
         Copying(h) => /\ Copying(req[r]) /\ h.floor = req[r].floor
                       /\ KindsRead(h) \subseteq KindsRead(req[r]),
         versions' = versions,
         \A t \in Types : drafts[t] \subseteq drafts'[t]
  PROVE  CopiesKept'
  <1>1. VersionsKept' /\ Supersedes'
    BY DEF CopiesKept, VersionsKept, Supersedes
  <1>2. req'[r] = h /\ \A s \in Requests : s # r => req'[s] = req[s]
    BY DEF IInv, TypeOK
  <1>3. CopyKept(r)'
    <2>1. h.items \subseteq drafts'[h.call.type]
      <3>1. CASE req[r].pc = "idle"
        BY <3>1 DEF CopiesKept, CopyKept
      <3>2. CASE req[r].pc # "idle"
        BY <3>2 DEF CopiesKept, CopyKept, TypeOf
      <3> QED
        BY <3>1, <3>2
    <2>2. ASSUME Copying(h)
          PROVE  /\ h.floor <= LastNumber(h.call.type)
                 /\ \A m \in 1 .. h.floor : \A i \in versions[h.call.type][m].items :
                      KindOf[i] \in KindsRead(h) \ {"field"} => i \in h.items
      <3>1. req[r].pc # "idle" /\ Copying(req[r])
        BY <2>2 DEF Copying
      <3>2. /\ req[r].floor <= LastNumber(TypeOf(r))
            /\ \A m \in 1 .. req[r].floor : \A i \in versions[TypeOf(r)][m].items :
                 KindOf[i] \in KindsRead(req[r]) \ {"field"} => i \in req[r].items
        BY <3>1 DEF CopiesKept, CopyKept
      <3> QED
        BY <2>2, <3>1, <3>2 DEF TypeOf
    <2> QED
      BY <1>2, <2>1, <2>2 DEF CopyKept, TypeOf, LastNumber
  <1>4. ASSUME NEW s \in Requests, s # r PROVE CopyKept(s)'
    <2>1. req[s].pc # "idle" => TypeOf(s) \in Types
      BY AtWork
    <2>2. CopyKept(s)
      BY DEF CopiesKept
    <2> QED
      BY <1>2, <1>4, <2>1, <2>2 DEF CopyKept, TypeOf, LastNumber, Copying
  <1> QED
    BY <1>1, <1>3, <1>4 DEF CopiesKept

\* The next table: what it has of the rows of earlier versions is still there.
LEMMA ReadCopies ==
  ASSUME IInv, CopiesKept, NEW r \in Requests, ReadRelation(r)
  PROVE  CopiesKept'
  <1> DEFINE t == TypeOf(r)
             kind == req[r].phase
  <1>1. PICK h \in Handler :
          /\ req' = [req EXCEPT ![r] = h]
          /\ h.call = req[r].call
          /\ h.items = req[r].items \cup FrozenRows(t, kind)
          /\ h.floor = IF kind = "field" THEN LastNumber(t) ELSE req[r].floor
          /\ \/ h.pc = "read" /\ h.phase = NextKind[kind] /\ NextKind[kind] # None
             \/ h.pc = "number" /\ NextKind[kind] = None
             \/ h.pc = "done"
    BY ReadShape
  <1>2. /\ req[r].pc = "read" /\ kind \in Kinds /\ t \in Types /\ LastNumber(t) \in Nat
        /\ UNCHANGED <<drafts, versions>>
    BY AtWork DEF ReadRelation, Handler
  <1>3. req'[r] = h /\ \A s \in Requests : s # r => req'[s] = req[s]
    BY <1>1 DEF IInv, TypeOK
  <1>4. VersionsKept' /\ Supersedes'
    BY <1>2 DEF CopiesKept, VersionsKept, Supersedes
  <1>5. h.items \subseteq drafts[t]
    BY <1>1, <1>2 DEF CopiesKept, CopyKept, FrozenRows
  <1>6. ASSUME Copying(h)
        PROVE  /\ h.floor <= LastNumber(t)
               /\ \A m \in 1 .. h.floor : \A i \in versions[t][m].items :
                    KindOf[i] \in KindsRead(h) \ {"field"} => i \in h.items
    <2>1. CASE kind = "field"
      <3>1. h.floor = LastNumber(t)
        BY <1>1, <2>1
      <3>2. KindsRead(h) \ {"field"} = {}
        BY <1>1, <1>6, <2>1, NoneAssumption DEF KindsRead, ReadBefore, NextKind, Copying, Kinds
      <3> QED
        BY <1>2, <3>1, <3>2
    <2>2. CASE kind # "field"
      <3>1. h.floor = req[r].floor
        BY <1>1, <2>2
      <3>2. /\ req[r].floor <= LastNumber(t)
            /\ \A m \in 1 .. req[r].floor : \A i \in versions[t][m].items :
                 KindOf[i] \in KindsRead(req[r]) \ {"field"} => i \in req[r].items
        BY <1>2, <2>2 DEF CopiesKept, CopyKept, Copying
      <3>3. KindsRead(h) \subseteq KindsRead(req[r]) \cup {kind}
        <4>1. KindsRead(req[r]) = ReadBefore[kind]
          BY <1>2 DEF KindsRead
        <4>2. CASE h.pc = "read" /\ h.phase = NextKind[kind] /\ NextKind[kind] # None
          <5>1. ReadBefore[NextKind[kind]] = ReadBefore[kind] \cup {kind}
            BY <1>2, <4>2 DEF ReadBefore, NextKind, Kinds
          <5> QED
            BY <4>1, <4>2, <5>1 DEF KindsRead
        <4>3. CASE h.pc = "number" /\ NextKind[kind] = None
          <5>1. kind = "escalation"
            BY <1>2, <4>3, NoneAssumption DEF NextKind, Kinds
          <5>2. Kinds = ReadBefore["escalation"] \cup {"escalation"}
            BY DEF ReadBefore, Kinds
          <5> QED
            BY <4>1, <4>3, <5>1, <5>2 DEF KindsRead
        <4> QED
          BY <1>1, <1>6, <4>2, <4>3 DEF Copying
      <3>4. ASSUME NEW m \in 1 .. h.floor, NEW i \in versions[t][m].items, KindOf[i] = kind
            PROVE  i \in FrozenRows(t, kind)
        <4>1. m \in DOMAIN versions[t] /\ versions[t][m].items \subseteq Items
          <5>1. DOMAIN versions[t] = 1 .. LastNumber(t)
            BY <1>2, LastIsNat DEF IInv
          <5>2. m \in 1 .. LastNumber(t)
            <6>1. h.floor \in Nat /\ h.floor <= LastNumber(t)
              BY <3>1, <3>2 DEF Handler
            <6> QED
              BY <1>2, <6>1
          <5> QED
            BY <1>2, <5>1, <5>2 DEF IInv, TypeOK, Version
        <4>2. i \in drafts[t] /\ i \in Items
          BY <1>2, <4>1 DEF CopiesKept, VersionsKept
        <4>3. i \notin retired[t]
          BY <1>2, <2>2, <3>4 DEF IInv, TypeOK, Rows
        <4> QED
          BY <3>4, <4>2, <4>3 DEF FrozenRows, Rows
      <3> QED
        BY <1>1, <3>1, <3>2, <3>3, <3>4
    <2> QED
      BY <2>1, <2>2
  <1>7. CopyKept(r)'
    <2>1. /\ req'[r] = h /\ h.pc # "idle" /\ TypeOf(r)' = t
          /\ LastNumber(TypeOf(r))' = LastNumber(t) /\ versions' = versions /\ drafts' = drafts
      BY <1>1, <1>2, <1>3 DEF TypeOf, LastNumber
    <2> HIDE DEF t
    <2> QED
      BY <2>1, <1>5, <1>6 DEF CopyKept, Copying
  <1>8. ASSUME NEW s \in Requests, s # r PROVE CopyKept(s)'
    BY <1>2, <1>3, <1>8 DEF CopiesKept, CopyKept, TypeOf, LastNumber, Copying
  <1> QED
    BY <1>4, <1>7, <1>8 DEF CopiesKept

\* The insert: by then the publication has been through every table.
LEMMA VersionCopies ==
  ASSUME IInv, CopiesKept, NEW r \in Requests, InsertVersion(r)
  PROVE  CopiesKept'
  <1>0. PICK t \in Types, n \in Nat, v \in Version :
          t = TypeOf(r) /\ n = LastNumber(TypeOf(r))
          /\ v = [items |-> req[r].items, floor |-> req[r].floor]
    BY VersionShape DEF IInv, TypeOK, Handler, Version
  <1>1. /\ req[r].pc = "insert" /\ t = TypeOf(r) /\ n = LastNumber(t) /\ DOMAIN versions[t] = 1 .. n
        /\ v.items = req[r].items /\ v.floor = req[r].floor
        /\ drafts' = drafts
    BY VersionShape, <1>0
  <1>2. PICK h : /\ req' = [req EXCEPT ![r] = h] /\ SameRequest(req[r], h)
                 /\ \/ versions' = versions /\ Ongoing(req[r], h)
                    \/ /\ h.pc = "done" /\ h.answer = "ok"
                       /\ versions' = [versions EXCEPT ![t] =
                            [m \in 1 .. n + 1 |-> IF m = n + 1 THEN v ELSE versions[t][m]]]
    BY VersionShape, <1>0
  <1>3. CASE versions' = versions /\ Ongoing(req[r], h)
    <2>1. h.pc \in {"insert", "done"}
      BY <1>1, <1>3 DEF Ongoing
    <2>2. /\ h.items = req[r].items /\ h.call = req[r].call /\ h.call.type \in Types
          /\ h.floor = req[r].floor
      BY <1>1, <1>2 DEF SameRequest, TypeOf
    <2>3. Copying(h) => Copying(req[r]) /\ KindsRead(h) \subseteq KindsRead(req[r])
      BY <1>1, <2>1 DEF Copying, KindsRead
    <2> QED
      BY <1>1, <1>2, <1>3, <2>1, <2>2, <2>3, CopiesStay
  <1>4. CASE /\ h.pc = "done"
             /\ versions' = [versions EXCEPT ![t] =
                  [m \in 1 .. n + 1 |-> IF m = n + 1 THEN v ELSE versions[t][m]]]
    <2>1. /\ DOMAIN versions'[t] = 1 .. n + 1 /\ versions'[t][n + 1] = v
          /\ \A m \in 1 .. n : versions'[t][m] = versions[t][m]
          /\ \A u \in Types : u # t => versions'[u] = versions[u]
      BY <1>1, <1>4 DEF IInv, Gapless
    <2>2. /\ v.items \subseteq drafts[t] /\ req[r].floor \in Nat /\ req[r].floor <= n
          /\ v.items = req[r].items /\ v.floor = req[r].floor
          /\ \A m \in 1 .. req[r].floor : \A i \in versions[t][m].items :
               KindOf[i] \in Kinds \ {"field"} => i \in v.items
      BY <1>1 DEF CopiesKept, CopyKept, Copying, KindsRead, IInv, TypeOK, Handler
    <2>3. \A u \in Types : /\ LastNumber(u) <= LastNumber(u)'
                           /\ LastNumber(u) \in Nat /\ LastNumber(u)' \in Nat
                           /\ DOMAIN versions[u] = 1 .. LastNumber(u)
      <3>1. \A u \in Types : LastNumber(u) \in Nat /\ DOMAIN versions[u] = 1 .. LastNumber(u)
        BY LastIsNat DEF IInv
      <3>2. LastNumber(t)' = n + 1
        <4>1. Max((1 .. n + 1) \cup {0}) = n + 1
          BY MaxOfInterval
        <4> QED
          BY <2>1, <4>1 DEF LastNumber
      <3>3. \A u \in Types : u # t => LastNumber(u)' = LastNumber(u)
        BY <2>1 DEF LastNumber
      <3> QED
        BY <1>1, <3>1, <3>2, <3>3
    <2>4. \A u \in Types : \A m \in DOMAIN versions[u] :
            m \in DOMAIN versions'[u] /\ versions'[u][m] = versions[u][m]
      <3> TAKE u \in Types
      <3>1. CASE u = t
        <4>1. \A m \in 1 .. n : m \in 1 .. n + 1
          OBVIOUS
        <4> QED
          BY <1>1, <2>1, <3>1, <4>1
      <3>2. CASE u # t
        BY <2>1, <3>2
      <3> QED
        BY <3>1, <3>2
    <2>5. VersionsKept'
      <3> SUFFICES ASSUME NEW u \in Types, NEW m \in DOMAIN versions'[u]
                   PROVE  versions'[u][m].items \subseteq drafts[u] /\ versions'[u][m].floor <= m
        BY <1>1 DEF VersionsKept
      <3>1. CASE u = t /\ m = n + 1
        BY <1>1, <2>1, <2>2, <3>1
      <3>2. CASE ~(u = t /\ m = n + 1)
        BY <1>1, <2>1, <3>2 DEF CopiesKept, VersionsKept
      <3> QED
        BY <3>1, <3>2
    <2>6. Supersedes'
      <3> SUFFICES ASSUME NEW u \in Types, NEW k \in DOMAIN versions'[u],
                          NEW m \in 1 .. versions'[u][k].floor
                   PROVE  versions'[u][m].items \ Rows("field") \subseteq versions'[u][k].items
        BY DEF Supersedes
      <3>1. CASE u = t /\ k = n + 1
        <4>1. m \in 1 .. n /\ m \in 1 .. req[r].floor
          BY <1>1, <2>1, <2>2, <3>1
        <4>2. versions[t][m].items \subseteq Items
          BY <1>1, <4>1 DEF IInv, TypeOK, Version
        <4>3. ASSUME NEW i \in versions[t][m].items, i \notin Rows("field") PROVE i \in v.items
          <5>1. KindOf[i] \in Kinds \ {"field"}
            BY <4>2, <4>3, ItemsAssumption DEF Rows
          <5> QED
            BY <2>2, <4>1, <5>1
        <4> QED
          <5>1. versions'[u][k] = v /\ versions'[u][m] = versions[t][m]
            BY <2>1, <3>1, <4>1
          <5> QED
            BY <4>3, <5>1
      <3>2. CASE ~(u = t /\ k = n + 1)
        <4>1. k \in DOMAIN versions[u] /\ versions'[u][k] = versions[u][k]
          <5>1. CASE u = t
            <6>1. k \in 1 .. n + 1 /\ k # n + 1
              BY <2>1, <3>2, <5>1
            <6>2. k \in 1 .. n
              BY <6>1
            <6> QED
              BY <1>1, <2>1, <5>1, <6>2
          <5>2. CASE u # t
            BY <2>1, <5>2
          <5> QED
            BY <5>1, <5>2
        <4>2. versions[u][k].floor \in Nat /\ k \in Nat /\ versions[u][k].floor <= k
          BY <4>1 DEF IInv, TypeOK, Version, CopiesKept, VersionsKept
        <4>3. m \in DOMAIN versions[u]
          BY <2>3, <4>1, <4>2
        <4> QED
          BY <2>4, <4>1, <4>3 DEF CopiesKept, Supersedes
      <3> QED
        BY <3>1, <3>2
    <2>7. ASSUME NEW s \in Requests PROVE CopyKept(s)'
      <3>1. CASE s = r
        <4>1. req'[r] = h /\ h.items = req[r].items /\ h.call = req[r].call
          BY <1>2 DEF IInv, TypeOK, SameRequest
        <4>2. ~Copying(h)
          BY <1>4 DEF Copying
        <4> QED
          BY <1>1, <1>4, <2>2, <3>1, <4>1, <4>2 DEF CopyKept, TypeOf
      <3>2. CASE s # r
        <4>1. req'[s] = req[s] /\ CopyKept(s) /\ (req[s].pc # "idle" => TypeOf(s) \in Types)
          BY <1>2, <3>2, AtWork DEF IInv, TypeOK, CopiesKept
        <4>2. TypeOf(s)' = TypeOf(s)
          BY <4>1 DEF TypeOf
        <4>3. ASSUME Copying(req[s])
              PROVE  /\ req[s].floor <= LastNumber(TypeOf(s))'
                     /\ \A m \in 1 .. req[s].floor :
                          versions'[TypeOf(s)][m] = versions[TypeOf(s)][m]
          <5>1. TypeOf(s) \in Types /\ req[s].floor \in Nat /\ req[s].floor <= LastNumber(TypeOf(s))
            BY <4>1, <4>3 DEF Copying, CopyKept, IInv, TypeOK, Handler
          <5>2. PICK u \in Types : u = TypeOf(s)
            BY <5>1
          <5>3. /\ LastNumber(u) <= LastNumber(u)' /\ LastNumber(u)' \in Nat /\ LastNumber(u) \in Nat
                /\ DOMAIN versions[u] = 1 .. LastNumber(u)
            BY <2>3
          <5>4. req[s].floor <= LastNumber(u)'
            BY <5>1, <5>2, <5>3
          <5>5. \A m \in 1 .. req[s].floor : versions'[u][m] = versions[u][m]
            BY <2>4, <5>1, <5>2, <5>3
          <5> QED
            BY <4>2, <5>2, <5>4, <5>5
        <4> QED
          BY <1>1, <4>1, <4>2, <4>3 DEF CopyKept, Copying
      <3> QED
        BY <3>1, <3>2
    <2> QED
      BY <2>5, <2>6, <2>7 DEF CopiesKept
  <1> QED
    BY <1>2, <1>3, <1>4

LEMMA NextCopies == IInv /\ CopiesKept /\ [Next]_vars => CopiesKept'
  <1> SUFFICES ASSUME IInv, CopiesKept, [Next]_vars PROVE CopiesKept'
    OBVIOUS
  <1>1. CASE UNCHANGED vars
    BY <1>1 DEF vars, CopiesKept, VersionsKept, Supersedes, CopyKept, TypeOf, LastNumber,
       Copying
  <1>2. ASSUME NEW r \in Requests, Send(r) PROVE CopiesKept'
    <2>1. PICK c \in Calls, h \in Handler :
            /\ req' = [req EXCEPT ![r] = h]
            /\ h.call = c /\ h.items = req[r].items /\ h.phase = "field"
            /\ h.pc \in {"adding", "read", "findType", "department", "latest", "done"}
      BY <1>2, SendShape
    <2>2. /\ req[r].pc = "idle" /\ h.call.type \in Types /\ ~Copying(h) /\ h.pc # "idle"
          /\ UNCHANGED <<drafts, versions>>
      BY <1>2, <2>1, SendShape, CallOf DEF Copying
    <2> QED
      BY <2>1, <2>2, CopiesStay
  <1>3. ASSUME NEW r \in Requests,
               \/ UpdateDepartment(r) \/ HasType(r) \/ FindType(r) \/ Define(r)
               \/ LatestVersion(r) \/ CreateTicket(r)
        PROVE  CopiesKept'
    <2>1. PICK h \in Handler :
            /\ req' = [req EXCEPT ![r] = h] /\ SameRequest(req[r], h)
            /\ h.pc \in {"hasType", "define", "adding", "done", "ticket"}
      BY <1>3, CreateShape, TicketShape
    <2>2. req[r].pc # "idle" /\ UNCHANGED <<drafts, versions>>
      BY <1>3, CreateShape, TicketShape
    <2>3. /\ h.items = req[r].items /\ h.call = req[r].call /\ h.call.type \in Types
          /\ ~Copying(h) /\ h.pc # "idle"
      BY <2>1, <2>2, AtWork DEF SameRequest, TypeOf, Copying
    <2> QED
      BY <2>1, <2>2, <2>3, CopiesStay
  <1>4. ASSUME NEW r \in Requests,
               CallFails(r) \/ \E i \in Items : FindRow(r, i) \/ InsertRow(r, i)
        PROVE  CopiesKept'
    <2>1. PICK h : /\ req' = [req EXCEPT ![r] = h]
                   /\ SameRequest(req[r], h) /\ Ongoing(req[r], h)
      BY <1>4, InsertsShape
    <2>2. /\ req[r].pc # "idle" /\ versions' = versions
          /\ \A t \in Types : drafts[t] \subseteq drafts'[t]
      BY <1>4, InsertsShape
    <2>3. /\ h.items = req[r].items /\ h.call = req[r].call /\ h.call.type \in Types
          /\ h.floor = req[r].floor /\ h.pc # "idle"
      BY <2>1, <2>2, AtWork DEF SameRequest, TypeOf, Ongoing
    <2>4. Copying(h) => Copying(req[r]) /\ KindsRead(h) \subseteq KindsRead(req[r])
      BY <2>1 DEF Ongoing, Copying, KindsRead
    <2> QED
      BY <2>1, <2>2, <2>3, <2>4, CopiesStay
  <1>5. ASSUME NEW r \in Requests, ReadNumber(r) PROVE CopiesKept'
    <2>1. PICK h \in Handler : /\ req' = [req EXCEPT ![r] = h] /\ SameRequest(req[r], h)
                               /\ h.pc = "insert"
      BY <1>5, NumberShape
    <2>2. req[r].pc = "number" /\ UNCHANGED <<drafts, versions>>
      BY <1>5, NumberShape
    <2>3. /\ h.items = req[r].items /\ h.call = req[r].call /\ h.call.type \in Types
          /\ h.floor = req[r].floor
      BY <2>1, <2>2, AtWork DEF SameRequest, TypeOf
    <2>4. Copying(h) /\ Copying(req[r]) /\ KindsRead(h) = KindsRead(req[r])
      BY <2>1, <2>2 DEF Copying, KindsRead
    <2> QED
      BY <2>1, <2>2, <2>3, <2>4, CopiesStay
  <1> QED
    BY <1>1, <1>2, <1>3, <1>4, <1>5, ReadCopies, VersionCopies DEF Next, Serve

THEOREM SpecCopies == Spec => []CopiesKept
  BY InitCopies, SpecIInv, NextCopies, PTL DEF Spec

\* A publication that begins after a version was inserted repeats its statuses,
\* transitions and rules, however many rows come in while it reads.
THEOREM VersionsAlwaysSupersede == Spec => []Supersedes
  <1>1. CopiesKept => Supersedes
    BY DEF CopiesKept
  <1> QED
    BY <1>1, SpecCopies, PTL
-----------------------------------------------------------------------------
(* A department that was switched on is provisioned *)

HasTypeIn(d, types) == \E t \in types : DeptOf[t] = d

\* A request to switch a department on that is past the department's row.
SwitchedOn(h) ==
  h.pc \notin {"idle", "department"} /\ h.call.op = "toggle" /\ h.call.isActive

\* Adding draft rows or publishing them.
Working == {"adding", "read", "number", "insert"}

Creating == {"create", "quickCreate", "toggle"}

\* Which requests wait for which call.
Routed(h) ==
  /\ h.pc = "hasType" => h.call.op = "toggle" /\ h.call.isActive
  /\ h.pc = "findType" => h.call.op \in Creating \ {"toggle"}
  /\ h.pc = "define" => h.call.op \in Creating /\ (h.call.op = "toggle" => h.call.isActive)
  /\ h.pc \in {"latest", "ticket"} => h.call.op = "ticket"

\* Switching a department on ends well, or in a lost race, only where there is a
\* ticket type, its own or another, among these.
FindsType(h, types) ==
  SwitchedOn(h) =>
    /\ h.pc = "done" /\ h.answer \in {"ok", "lost"} => HasTypeIn(DeptOf[h.call.type], types)
    /\ h.pc \in Working => h.call.type \in types

\* The handler that inserted the type: unless it was told to create the bare
\* type, it answers well only with a version of it among these.
Defines(h, t, log) ==
  /\ h.pc \in Working \cup {"done"} /\ h.call.type = t /\ h.call.op \in Creating
  /\ h.call.op # "create" => /\ h.answer # "lost"
                             /\ h.answer = "ok" => DOMAIN log[t] # {}

\* Every department that is on was switched on, every type was inserted.
Provisioning ==
  /\ Answered
  /\ \A r \in Requests : Routed(req[r]) /\ FindsType(req[r], defined)
  /\ \A d \in Departments : active[d] =>
       \E r \in Requests : SwitchedOn(req[r]) /\ DeptOf[req[r].call.type] = d
  /\ \A t \in defined : \E r \in Requests : Defines(req[r], t, versions)

\* What a step owes that moves one handler from g to h.
Provides(g, h) ==
  /\ h.pc = "done" <=> h.answer # None
  /\ Routed(h) /\ FindsType(h, defined')
  /\ SwitchedOn(g) => SwitchedOn(h) /\ h.call.type = g.call.type
  /\ \A t \in defined : Defines(g, t, versions) => Defines(h, t, versions')
  /\ \A d \in Departments : active'[d] => active[d] \/ (SwitchedOn(h) /\ DeptOf[h.call.type] = d)
  /\ \A t \in defined' : t \in defined \/ Defines(h, t, versions')

LEMMA InitProvisioning == Init => Provisioning
  BY DEF Init, Provisioning, Answered, Routed, FindsType, SwitchedOn

LEMMA ProvisioningStays ==
  ASSUME IInv, Provisioning, NEW r \in Requests, NEW h, req' = [req EXCEPT ![r] = h],
         defined \subseteq defined',
         \A t \in Types : DOMAIN versions[t] \subseteq DOMAIN versions'[t],
         Provides(req[r], h)
  PROVE  Provisioning'
  <1>1. req'[r] = h /\ \A s \in Requests : s # r => req'[s] = req[s]
    BY DEF IInv, TypeOK
  <1>2. Answered'
    BY <1>1 DEF Provisioning, Answered, Provides
  <1>3. \A s \in Requests : Routed(req'[s]) /\ FindsType(req'[s], defined')
    <2> SUFFICES ASSUME NEW s \in Requests PROVE Routed(req'[s]) /\ FindsType(req'[s], defined')
      OBVIOUS
    <2>1. CASE s = r
      BY <1>1, <2>1 DEF Provides
    <2>2. CASE s # r
      <3>1. Routed(req[s]) /\ FindsType(req[s], defined) /\ req'[s] = req[s]
        BY <1>1, <2>2 DEF Provisioning
      <3>2. FindsType(req[s], defined')
        BY <3>1 DEF FindsType, HasTypeIn
      <3> QED
        BY <3>1, <3>2
    <2> QED
      BY <2>1, <2>2
  <1>4. ASSUME NEW d \in Departments, active'[d]
        PROVE  \E s \in Requests : SwitchedOn(req'[s]) /\ DeptOf[req'[s].call.type] = d
    <2>1. CASE active[d]
      <3>1. PICK s \in Requests : SwitchedOn(req[s]) /\ DeptOf[req[s].call.type] = d
        BY <2>1 DEF Provisioning
      <3> QED
        BY <1>1, <3>1 DEF Provides
    <2>2. CASE ~active[d]
      BY <1>1, <1>4, <2>2 DEF Provides
    <2> QED
      BY <2>1, <2>2
  <1>5. ASSUME NEW t \in defined'
        PROVE  \E s \in Requests : Defines(req'[s], t, versions')
    <2>1. CASE t \in defined
      <3>1. PICK s \in Requests : Defines(req[s], t, versions)
        BY <2>1 DEF Provisioning
      <3>2. CASE s = r
        BY <1>1, <2>1, <3>1, <3>2 DEF Provides
      <3>3. CASE s # r
        <4>1. DOMAIN versions[t] \subseteq DOMAIN versions'[t]
          BY <2>1 DEF IInv, TypeOK
        <4>2. Defines(req[s], t, versions')
          BY <3>1, <4>1 DEF Defines
        <4> QED
          BY <1>1, <3>3, <4>2
      <3> QED
        BY <3>2, <3>3
    <2>2. CASE t \notin defined
      BY <1>1, <1>5, <2>2 DEF Provides
    <2> QED
      BY <2>1, <2>2
  <1> QED
    BY <1>2, <1>3, <1>4, <1>5 DEF Provisioning

\* Most steps leave the departments and the types alone.
LEMMA ProvidesOn ==
  ASSUME NEW g, NEW h, UNCHANGED <<active, defined>>,
         h.pc = "done" <=> h.answer # None,
         Routed(h), FindsType(h, defined),
         SwitchedOn(g) => SwitchedOn(h) /\ h.call.type = g.call.type,
         \A t \in defined : Defines(g, t, versions) => Defines(h, t, versions')
  PROVE  Provides(g, h)
  BY DEF Provides

\* The inserts, and the failures.
LEMMA OngoingProvides ==
  ASSUME IInv, Provisioning, NEW r \in Requests, NEW h,
         req[r].pc # "idle", SameRequest(req[r], h), Ongoing(req[r], h),
         UNCHANGED <<active, defined, versions>>
  PROVE  Provides(req[r], h)
  <1>1. /\ req[r].pc = "done" <=> req[r].answer # None
        /\ Routed(req[r]) /\ FindsType(req[r], defined) /\ h.call = req[r].call
    BY DEF Provisioning, Answered, SameRequest
  <1>2. h.pc = "done" <=> h.answer # None
    BY <1>1, NoneAssumption DEF Ongoing
  <1>3. Routed(h)
    BY <1>1 DEF Routed, Ongoing
  <1>4. SwitchedOn(req[r]) => SwitchedOn(h)
    BY <1>1 DEF SwitchedOn, Ongoing
  <1>5. FindsType(h, defined)
    <2> SUFFICES ASSUME SwitchedOn(h)
                 PROVE  /\ h.pc = "done" /\ h.answer \in {"ok", "lost"} =>
                             HasTypeIn(DeptOf[h.call.type], defined)
                        /\ h.pc \in Working => h.call.type \in defined
      BY DEF FindsType
    <2>1. CASE h.pc = "done" /\ h.answer \in {"swallowed", "refused", "failed"}
      BY <2>1 DEF Working
    <2>2. CASE ~(h.pc = "done" /\ h.answer \in {"swallowed", "refused", "failed"})
      <3>1. /\ \/ h.pc = req[r].pc /\ h.answer = req[r].answer
               \/ req[r].pc = "adding" /\ h.pc \in {"read", "adding"}
            /\ SwitchedOn(req[r])
        BY <1>1, <2>2 DEF SwitchedOn, Ongoing
      <3> QED
        BY <1>1, <3>1 DEF FindsType, Working
    <2> QED
      BY <2>1, <2>2
  <1>6. ASSUME NEW t \in defined, Defines(req[r], t, versions) PROVE Defines(h, t, versions)
    BY <1>1, <1>6 DEF Defines, Ongoing, Working, Creating
  <1> QED
    BY <1>1, <1>2, <1>3, <1>4, <1>5, <1>6, ProvidesOn

\* A request that comes in.
LEMMA SendProvides ==
  ASSUME IInv, Provisioning, NEW r \in Requests, Send(r)
  PROVE  Provisioning'
  <1>1. PICK c \in Calls, h \in Handler :
          /\ req' = [req EXCEPT ![r] = h]
          /\ h.call = c
          /\ \/ /\ h.answer = req[r].answer
                /\ \/ h.pc = "adding" /\ c.op = "add"
                   \/ h.pc = "read" /\ c.op = "publish"
                   \/ h.pc = "findType" /\ c.op \in {"create", "quickCreate"}
                   \/ h.pc = "department" /\ c.op = "toggle"
                   \/ h.pc = "latest" /\ c.op = "ticket"
             \/ h.pc = "done" /\ h.answer = "ok" /\ c.op = "update"
    BY SendShape
  <1>2. req[r].pc = "idle" /\ UNCHANGED <<active, defined, versions>>
    BY SendShape
  <1>3. req[r].answer = None
    BY <1>2 DEF Provisioning, Answered
  <1>4. h.pc = "done" <=> h.answer # None
    BY <1>1, <1>3, NoneAssumption
  <1>5. Routed(h) /\ FindsType(h, defined)
    BY <1>1 DEF Routed, FindsType, SwitchedOn, Creating
  <1>6. ~SwitchedOn(req[r]) /\ \A t : ~Defines(req[r], t, versions)
    BY <1>2 DEF SwitchedOn, Defines, Working
  <1>7. Provides(req[r], h)
    BY <1>2, <1>4, <1>5, <1>6, ProvidesOn
  <1> QED
    BY <1>1, <1>2, <1>7, ProvisioningStays

\* The switch, and the look for a ticket type of the department.
LEMMA SwitchProvides ==
  ASSUME IInv, Provisioning, NEW r \in Requests,
         UpdateDepartment(r) \/ HasType(r) \/ FindType(r)
  PROVE  Provisioning'
  <1>1. /\ req[r].pc \in {"department", "hasType", "findType"}
        /\ req[r].answer = None /\ Routed(req[r])
        /\ UNCHANGED <<defined, versions>>
    BY DEF Provisioning, Answered, UpdateDepartment, HasType, FindType
  <1>2. \A t : ~Defines(req[r], t, versions)
    BY <1>1 DEF Defines, Working
  <1>3. TypeOf(r) \in Types /\ DeptOf[TypeOf(r)] \in Departments /\ req[r].call \in Calls
    BY <1>1, AtWork
  <1>4. CASE UpdateDepartment(r)
    <2>1. /\ req[r].pc = "department" /\ ~SwitchedOn(req[r]) /\ req[r].call.op = "toggle"
          /\ active' = [active EXCEPT ![DeptOf[TypeOf(r)]] = req[r].call.isActive]
      BY <1>1, <1>4, AtWork DEF UpdateDepartment, SwitchedOn, WellFormed
    <2>2. CASE req[r].call.isActive
      <3>1. PICK h \in Handler : /\ req' = [req EXCEPT ![r] = h] /\ SameRequest(req[r], h)
                                 /\ h.pc = "hasType" /\ h.answer = req[r].answer
        BY <1>4, <2>2, GotoShape DEF UpdateDepartment, Pcs
      <3>2. h.call = req[r].call /\ h.call.op = "toggle" /\ h.call.isActive
        BY <2>1, <2>2, <3>1 DEF SameRequest
      <3>3. SwitchedOn(h) /\ Routed(h) /\ FindsType(h, defined)
        BY <3>1, <3>2 DEF SwitchedOn, Routed, FindsType, Working
      <3>4. \A d \in Departments : active'[d] => active[d] \/ DeptOf[h.call.type] = d
        BY <1>3, <2>1, <3>2 DEF IInv, TypeOK, TypeOf
      <3>5. Provides(req[r], h)
        BY <1>1, <1>2, <2>1, <3>1, <3>3, <3>4 DEF Provides
      <3> QED
        BY <1>1, <3>1, <3>5, ProvisioningStays
    <2>3. CASE ~req[r].call.isActive
      <3>1. PICK h \in Handler : /\ req' = [req EXCEPT ![r] = h] /\ SameRequest(req[r], h)
                                 /\ h.pc = "done" /\ h.answer = "ok"
        BY <1>4, <2>3, AnswerShape DEF UpdateDepartment, Answers
      <3>2. ~SwitchedOn(h) /\ Routed(h) /\ FindsType(h, defined)
        BY <2>3, <3>1 DEF SwitchedOn, Routed, FindsType, SameRequest
      <3>3. \A d \in Departments : active'[d] => active[d]
        BY <1>3, <2>1, <2>3 DEF IInv, TypeOK
      <3>4. Provides(req[r], h)
        BY <1>1, <1>2, <2>1, <3>1, <3>2, <3>3, NoneAssumption DEF Provides
      <3> QED
        BY <1>1, <3>1, <3>4, ProvisioningStays
    <2> QED
      BY <2>2, <2>3
  <1>5. CASE HasType(r) \/ FindType(r)
    <2>1. UNCHANGED <<active, defined, versions>> /\ req[r].pc \in {"hasType", "findType"}
      BY <1>5 DEF HasType, FindType
    <2>2. CASE Goto(r, "define")
      <3>1. PICK h \in Handler : /\ req' = [req EXCEPT ![r] = h] /\ SameRequest(req[r], h)
                                 /\ h.pc = "define" /\ h.answer = req[r].answer
        BY <2>2, GotoShape DEF Pcs
      <3>2. h.call = req[r].call
        BY <3>1 DEF SameRequest
      <3>3. Routed(h) /\ FindsType(h, defined) /\ (SwitchedOn(req[r]) => SwitchedOn(h))
        BY <1>1, <2>1, <3>1, <3>2 DEF Routed, FindsType, SwitchedOn, Working, Creating
      <3>4. Provides(req[r], h)
        BY <1>1, <1>2, <2>1, <3>1, <3>2, <3>3, ProvidesOn
      <3> QED
        BY <1>1, <3>1, <3>4, ProvisioningStays
    <2>3. ASSUME NEW a \in {"ok", "refused"}, Answer(r, a),
                 a = "ok" => \E t \in defined : DeptOf[t] = DeptOf[TypeOf(r)]
          PROVE  Provisioning'
      <3>1. PICK h \in Handler : /\ req' = [req EXCEPT ![r] = h] /\ SameRequest(req[r], h)
                                 /\ h.pc = "done" /\ h.answer = a
        BY <2>3, AnswerShape DEF Answers
      <3>2. h.call = req[r].call
        BY <3>1 DEF SameRequest
      <3>3. Routed(h) /\ FindsType(h, defined) /\ (SwitchedOn(req[r]) => SwitchedOn(h))
        BY <2>3, <3>1, <3>2 DEF Routed, FindsType, HasTypeIn, SwitchedOn, Working, TypeOf
      <3>4. Provides(req[r], h)
        BY <1>1, <1>2, <2>1, <3>1, <3>2, <3>3, NoneAssumption, ProvidesOn
      <3> QED
        BY <1>1, <3>1, <3>4, ProvisioningStays
    <2> QED
      BY <1>5, <2>2, <2>3 DEF HasType, FindType
  <1> QED
    BY <1>4, <1>5

\* The insert of the type: it is this handler's, or there was one.
LEMMA DefineProvides ==
  ASSUME IInv, Provisioning, NEW r \in Requests, Define(r)
  PROVE  Provisioning'
  <1>1. /\ req[r].pc = "define" /\ req[r].answer = None /\ Routed(req[r])
        /\ defined' = defined \cup {TypeOf(r)} /\ UNCHANGED <<active, versions>>
        /\ req[r].call.op \in Creating
        /\ req[r].call.op = "toggle" => req[r].call.isActive
    BY DEF Provisioning, Answered, Define, Routed
  <1>2. \A t : ~Defines(req[r], t, versions)
    BY <1>1 DEF Defines, Working
  <1>3. ASSUME NEW h, req' = [req EXCEPT ![r] = h], SameRequest(req[r], h),
               h.pc \in {"adding", "done"}, h.pc = "done" <=> h.answer # None,
               TypeOf(r) \in defined \/ Defines(h, TypeOf(r), versions)
        PROVE  Provisioning'
    <2>1. h.call = req[r].call
      BY <1>3 DEF SameRequest
    <2>2. Routed(h) /\ (SwitchedOn(req[r]) => SwitchedOn(h))
      BY <1>3, <2>1 DEF Routed, SwitchedOn
    <2>3. FindsType(h, defined')
      BY <1>1, <2>1 DEF FindsType, HasTypeIn, TypeOf
    <2>4. Provides(req[r], h)
      BY <1>1, <1>2, <1>3, <2>1, <2>2, <2>3 DEF Provides
    <2> QED
      BY <1>1, <1>3, <2>4, ProvisioningStays
  <1>4. CASE TypeOf(r) \in defined
    <2>1. PICK a \in {"lost", "failed"} : Answer(r, a)
      BY <1>4 DEF Define
    <2>2. PICK h \in Handler : /\ req' = [req EXCEPT ![r] = h] /\ SameRequest(req[r], h)
                               /\ h.pc = "done" /\ h.answer = a
      BY <2>1, AnswerShape DEF Answers
    <2> QED
      BY <1>3, <1>4, <2>2, NoneAssumption
  <1>5. CASE TypeOf(r) \notin defined /\ Op(r) = "create"
    <2>1. PICK h \in Handler : /\ req' = [req EXCEPT ![r] = h] /\ SameRequest(req[r], h)
                               /\ h.pc = "done" /\ h.answer = "ok"
      BY <1>5, AnswerShape DEF Define, Answers
    <2>2. Defines(h, TypeOf(r), versions)
      BY <1>1, <1>5, <2>1 DEF Defines, SameRequest, TypeOf, Op
    <2> QED
      BY <1>3, <2>1, <2>2, NoneAssumption
  <1>6. CASE TypeOf(r) \notin defined /\ Op(r) # "create"
    <2>1. PICK kind \in {"field", "status"} : req' = [req EXCEPT ![r] = AddDefaults(@, kind)]
      BY <1>6 DEF Define
    <2> DEFINE h == AddDefaults(req[r], kind)
    <2>2. req' = [req EXCEPT ![r] = h]
      BY <2>1
    <2>3. req[r] \in Handler
      BY DEF IInv, TypeOK
    <2>4. h = [req[r] EXCEPT !.pc = "adding", !.phase = kind, !.todo = Defaults \cap Rows(kind)]
      BY DEF AddDefaults
    <2>5. SameRequest(req[r], h) /\ h.pc = "adding" /\ h.answer = None
      BY <1>1, <2>3, <2>4 DEF SameRequest, Handler
    <2> HIDE DEF h
    <2>6. Defines(h, TypeOf(r), versions)
      BY <1>1, <2>5, NoneAssumption DEF Defines, SameRequest, TypeOf, Working
    <2> QED
      BY <1>3, <2>2, <2>5, <2>6
  <1> QED
    BY <1>4, <1>5, <1>6

\* Publishing: the only good answer comes with a version.
LEMMA PublishProvides ==
  ASSUME IInv, Provisioning, NEW r \in Requests,
         ReadRelation(r) \/ ReadNumber(r) \/ InsertVersion(r)
  PROVE  Provisioning'
  <1>1. /\ req[r].pc \in {"read", "number", "insert"} /\ UNCHANGED <<active, defined>>
        /\ req[r].answer = None
    BY NoneAssumption DEF ReadRelation, ReadNumber, InsertVersion, Provisioning, Answered
  <1>2. FindsType(req[r], defined) /\ TypeOf(r) \in Types
    BY <1>1, AtWork DEF Provisioning
  <1>3. ASSUME NEW h, req' = [req EXCEPT ![r] = h], h.call = req[r].call,
               \A t \in Types : DOMAIN versions[t] \subseteq DOMAIN versions'[t],
               \/ h.pc \in {"read", "number", "insert"} /\ h.answer = None
               \/ h.pc = "done" /\ h.answer \in {"swallowed", "refused", "failed"}
               \/ h.pc = "done" /\ h.answer = "ok" /\ DOMAIN versions'[TypeOf(r)] # {}
        PROVE  Provisioning'
    <2>1. Routed(h) /\ (SwitchedOn(req[r]) => SwitchedOn(h)) /\ (h.pc = "done" <=> h.answer # None)
      BY <1>1, <1>3, NoneAssumption DEF Routed, SwitchedOn
    <2>2. FindsType(h, defined)
      <3>1. SwitchedOn(h) => SwitchedOn(req[r])
        BY <1>1, <1>3 DEF SwitchedOn
      <3> QED
        BY <1>1, <1>2, <1>3, <3>1 DEF FindsType, HasTypeIn, Working
    <2>3. \A t \in defined : Defines(req[r], t, versions) => Defines(h, t, versions')
      BY <1>1, <1>3, NoneAssumption DEF Defines, Working, TypeOf
    <2>4. Provides(req[r], h)
      BY <1>1, <1>3, <2>1, <2>2, <2>3, ProvidesOn
    <2> QED
      BY <1>1, <1>3, <2>4, ProvisioningStays
  <1>4. CASE ReadRelation(r)
    <2>1. PICK h \in Handler : /\ req' = [req EXCEPT ![r] = h] /\ h.call = req[r].call
                               /\ \/ h.pc \in {"read", "number"} /\ h.answer = req[r].answer
                                  \/ h.pc = "done" /\ h.answer = "refused"
      BY <1>4, ReadShape
    <2>2. versions' = versions
      BY <1>4, ReadShape
    <2> QED
      BY <1>1, <1>3, <2>1, <2>2
  <1>5. CASE ReadNumber(r)
    <2>1. PICK h \in Handler : /\ req' = [req EXCEPT ![r] = h] /\ SameRequest(req[r], h)
                               /\ h.pc = "insert" /\ h.answer = req[r].answer
      BY <1>5, NumberShape
    <2>2. versions' = versions /\ h.call = req[r].call
      BY <1>5, <2>1, NumberShape DEF SameRequest
    <2> QED
      BY <1>1, <1>3, <2>1, <2>2
  <1>6. CASE InsertVersion(r)
    <2>1. PICK t \in Types, n \in Nat, v \in Version :
            t = TypeOf(r) /\ n = LastNumber(TypeOf(r))
            /\ v = [items |-> req[r].items, floor |-> req[r].floor]
      BY <1>6, VersionShape DEF IInv, TypeOK, Handler, Version
    <2>2. /\ req[r].pc = "insert" /\ DOMAIN versions[t] = 1 .. n
      BY <1>6, <2>1, VersionShape
    <2>3. PICK h : /\ req' = [req EXCEPT ![r] = h] /\ SameRequest(req[r], h)
                   /\ \/ versions' = versions /\ Ongoing(req[r], h)
                      \/ /\ h.pc = "done" /\ h.answer = "ok"
                         /\ versions' = [versions EXCEPT ![t] =
                              [m \in 1 .. n + 1 |-> IF m = n + 1 THEN v ELSE versions[t][m]]]
      BY <1>6, <2>1, VersionShape
    <2>4. h.call = req[r].call
      BY <2>3 DEF SameRequest
    <2>5. CASE versions' = versions /\ Ongoing(req[r], h)
      <3>1. \/ h.pc = "insert" /\ h.answer = None
            \/ h.pc = "done" /\ h.answer \in {"swallowed", "refused", "failed"}
        BY <1>1, <2>2, <2>5 DEF Ongoing
      <3> QED
        BY <1>3, <2>3, <2>4, <2>5, <3>1
    <2>6. CASE /\ h.pc = "done" /\ h.answer = "ok"
               /\ versions' = [versions EXCEPT ![t] =
                    [m \in 1 .. n + 1 |-> IF m = n + 1 THEN v ELSE versions[t][m]]]
      <3>1. /\ DOMAIN versions'[t] = 1 .. n + 1 /\ n + 1 \in 1 .. n + 1 /\ 1 .. n \subseteq 1 .. n + 1
            /\ \A u \in Types : u # t => versions'[u] = versions[u]
        BY <2>6 DEF IInv, Gapless
      <3>2. \A u \in Types : DOMAIN versions[u] \subseteq DOMAIN versions'[u]
        BY <2>2, <3>1
      <3>3. DOMAIN versions'[TypeOf(r)] # {}
        BY <2>1, <3>1
      <3> QED
        BY <1>3, <2>3, <2>4, <2>6, <3>2, <3>3
    <2> QED
      BY <2>3, <2>5, <2>6
  <1> QED
    BY <1>4, <1>5, <1>6

\* Tickets are none of it.
LEMMA TicketProvides ==
  ASSUME IInv, Provisioning, NEW r \in Requests, LatestVersion(r) \/ CreateTicket(r)
  PROVE  Provisioning'
  <1>1. PICK h \in Handler : /\ req' = [req EXCEPT ![r] = h] /\ SameRequest(req[r], h)
                             /\ \/ h.pc = "ticket" /\ h.answer = req[r].answer
                                \/ h.pc = "done" /\ h.answer \in {"ok", "refused"}
    BY TicketShape
  <1>2. /\ req[r].pc \in {"latest", "ticket"} /\ UNCHANGED <<active, defined, versions>>
        /\ req[r].call.op = "ticket" /\ req[r].answer = None /\ h.call = req[r].call
    BY <1>1, TicketShape DEF Provisioning, Routed, Answered, SameRequest
  <1>3. Provides(req[r], h)
    BY <1>1, <1>2, NoneAssumption, ProvidesOn
    DEF Routed, FindsType, SwitchedOn, Defines, Working
  <1> QED
    BY <1>1, <1>2, <1>3, ProvisioningStays

LEMMA NextProvisioning == IInv /\ Provisioning /\ [Next]_vars => Provisioning'
  <1> SUFFICES ASSUME IInv, Provisioning, [Next]_vars PROVE Provisioning'
    OBVIOUS
  <1>1. CASE UNCHANGED vars
    BY <1>1 DEF vars, Provisioning, Answered
  <1>2. ASSUME NEW r \in Requests,
               CallFails(r) \/ \E i \in Items : FindRow(r, i) \/ InsertRow(r, i)
        PROVE  Provisioning'
    <2>1. PICK h : /\ req' = [req EXCEPT ![r] = h]
                   /\ SameRequest(req[r], h) /\ Ongoing(req[r], h)
      BY <1>2, InsertsShape
    <2>2. req[r].pc # "idle" /\ UNCHANGED <<active, defined, versions>>
      BY <1>2, InsertsShape
    <2>3. Provides(req[r], h)
      BY <2>1, <2>2, OngoingProvides
    <2> QED
      BY <2>1, <2>2, <2>3, ProvisioningStays
  <1> QED
    BY <1>1, <1>2, SendProvides, SwitchProvides, DefineProvides, PublishProvides, TicketProvides
    DEF Next, Serve

\* At rest, whoever switched the department on leads to a ticket type, and that
\* to the handler that inserted it, which published it.
LEMMA ProvisioningActivates == IInv /\ Provisioning => ActivationProvisions
  <1> SUFFICES ASSUME IInv, Provisioning, Quiet, NEW d \in Departments, active[d],
                      \A r \in Creators(d) : Op(r) # "create" /\ req[r].answer \in {"ok", "lost"}
               PROVE  IsReady(d)
    BY DEF ActivationProvisions
  <1>1. PICK r \in Requests : SwitchedOn(req[r]) /\ DeptOf[req[r].call.type] = d
    BY DEF Provisioning
  <1>2. req[r].pc = "done" /\ r \in Creators(d)
    BY <1>1 DEF Quiet, SwitchedOn, Creators, Op, TypeOf
  <1>3. HasTypeIn(d, defined)
    BY <1>1, <1>2 DEF Provisioning, FindsType
  <1>4. PICK t \in defined : DeptOf[t] = d
    BY <1>3 DEF HasTypeIn
  <1>5. PICK s \in Requests : Defines(req[s], t, versions)
    BY DEF Provisioning
  <1>6. s \in Creators(d)
    BY <1>4, <1>5 DEF Creators, Defines, Creating, Working, Op, TypeOf
  <1>7. DOMAIN versions[t] # {}
    BY <1>5, <1>6 DEF Defines, Op
  <1> QED
    BY <1>4, <1>7 DEF IsReady, IInv, TypeOK

THEOREM SpecProvisioning == Spec => []Provisioning
  BY InitProvisioning, SpecIInv, NextProvisioning, PTL DEF Spec

\* However many administrators switch a department on or create its types at
\* once: at rest, if all of them were told it went well or lost the race, and
\* none asked for a bare type, a department that is on has a published type.
THEOREM ActivationAlwaysProvisions == Spec => []ActivationProvisions
  BY SpecIInv, SpecProvisioning, ProvisioningActivates, PTL
==============================================================================
