---------------------------- MODULE InboundIntakeProofs -------------------------
(***************************************************************************)
(* Proofs about InboundIntake: what a webhook that may be delivered any    *)
(* number of times leaves behind, for every set of mails, visits, tickets  *)
(* filed before and meanwhile, and departments, and every number of        *)
(* failures.                                                               *)
(***************************************************************************)
EXTENDS InboundIntake, TLAPS
-----------------------------------------------------------------------------
(* The inductive invariant *)

\* The tickets make the source a reply: those of the beginning, and those of now.
WasReply(s) == s \in Mails /\ NamesOwnTicket(s, Filed)

IsReply(s) == s \in Mails /\ NamesOwnTicket(s, tickets)

\* No ticket is lost, and none changes hands.
TicketsKept ==
  \A n \in DOMAIN Filed : n \in DOMAIN tickets /\ tickets[n] = Filed[n]

\* What a delivery has left behind fits its source and the step it is at.
Shape(d) ==
  /\ req[d].pc \in {"fetch", "findTicket"} => SourceOf(d) \in Mails
  /\ req[d].pc \in {"comment", "audit"} \/ d \in comments => IsReply(SourceOf(d))
  /\ req[d].pc \in {"org", "classify", "stage"} \/ d \in DOMAIN staged => ~WasReply(SourceOf(d))
  /\ req[d].pc = "idle" => req[d] = Fresh
  /\ Recorded(d) => req[d].pc \in {"audit", "answer", "done"} /\ req[d].answer # "skipped"
  /\ req[d].pc \notin {"answer", "done"} => req[d].answer = None
  /\ req[d].pc \in {"answer", "done"} => req[d].answer # None
  /\ req[d].pc = "audit" => d \in comments
  /\ req[d].answer = "ok" => Recorded(d) /\ (d \in comments => d \in audit)

\* Whatever was acknowledged has a delivery that is over and left its record.
AcknowledgedIsOver ==
  \A s \in Sources \ waiting :
    (\E d \in DeliveriesOf(s) : req[d].pc # "idle") =>
      \E d \in DeliveriesOf(s) :
        /\ req[d].pc = "done"
        /\ req[d].answer = "skipped" \/ (Recorded(d) /\ (d \in comments => d \in audit))

IInv ==
  /\ TypeOK
  /\ \A d \in Deliveries : Shape(d)
  /\ TicketsKept
  /\ AcknowledgedIsOver
-----------------------------------------------------------------------------
(* Lemmas *)

\* A mail that names a ticket of its sender's has an address and a number.
LEMMA ReplyHasBoth ==
  ASSUME NEW m \in Mails, NEW table, DOMAIN table \subseteq Numbers,
         table \in [DOMAIN table -> People], NamesOwnTicket(m, table)
  PROVE  MayBeReply(m)
  BY NoneAssumption, TicketsAssumption DEF NamesOwnTicket, MayBeReply

\* What was a reply at the beginning is one now.
LEMMA WasIsReply ==
  ASSUME TicketsKept, NEW s, WasReply(s)
  PROVE  IsReply(s)
  BY DEF TicketsKept, WasReply, IsReply, NamesOwnTicket

\* A step of one handler touches the rows of its own delivery only.
Only(d) ==
  /\ req' \in [Deliveries -> Handler]
  /\ config' = config /\ tickets' = tickets
  /\ \A e \in Deliveries \ {d} :
       /\ req'[e] = req[e]
       /\ e \in comments' <=> e \in comments
       /\ e \in DOMAIN staged' <=> e \in DOMAIN staged
       /\ e \in audit' <=> e \in audit

\* It leaves the other deliveries as they are.
LEMMA Frame ==
  ASSUME IInv, NEW d \in Deliveries, Only(d), NEW e \in Deliveries, e # d
  PROVE  /\ Shape(e)'
         /\ InProgress(e)' <=> InProgress(e)
         /\ Recorded(e)' <=> Recorded(e)
  <1>1. /\ req'[e] = req[e] /\ tickets' = tickets
        /\ e \in comments' <=> e \in comments
        /\ e \in DOMAIN staged' <=> e \in DOMAIN staged
        /\ e \in audit' <=> e \in audit
    BY DEF Only
  <1>2. Recorded(e)' <=> Recorded(e)
    BY <1>1 DEF Recorded
  <1>4. InProgress(e)' <=> InProgress(e)
    BY <1>1 DEF InProgress
  <1>5. Shape(e)'
    <2>1. Shape(e)
      BY DEF IInv
    <2> QED
      BY <1>1, <1>2, <2>1 DEF Shape, IsReply
  <1> QED
    BY <1>2, <1>4, <1>5

\* A step within a delivery.
LEMMA Advance ==
  ASSUME IInv, NEW d \in Deliveries, Only(d), TypeOK',
         InProgress(d), req'[d].pc # "idle", Shape(d)',
         \/ waiting' = waiting /\ req'[d].pc # "done"
         \/ /\ req'[d].pc = "done" /\ req'[d].answer = req[d].answer
            /\ req'[d].heard = req[d].heard
            /\ waiting' = IF req[d].heard /\ req[d].answer # "failed"
                          THEN waiting \ {SourceOf(d)} ELSE waiting
  PROVE  IInv'
  <1>1. \A e \in Deliveries \ {d} :
           /\ Shape(e)'
           /\ InProgress(e)' <=> InProgress(e)
           /\ Recorded(e)' <=> Recorded(e)
           /\ req'[e] = req[e]
    BY Frame DEF Only
  <1>2. \A e \in Deliveries : Shape(e)'
    BY <1>1
  <1>3. TicketsKept'
    BY DEF IInv, TicketsKept, Only
  <1>7. AcknowledgedIsOver'
    <2> SUFFICES ASSUME NEW s \in Sources, s \notin waiting',
                        NEW f \in DeliveriesOf(s), req'[f].pc # "idle"
                 PROVE  \E g \in DeliveriesOf(s) :
                          /\ req'[g].pc = "done"
                          /\ \/ req'[g].answer = "skipped"
                             \/ Recorded(g)' /\ (g \in comments' => g \in audit')
      BY DEF AcknowledgedIsOver
    <2>1. CASE s \notin waiting
      <3>1. req[f].pc # "idle"
        BY <1>1 DEF InProgress, DeliveriesOf
      <3>2. PICK g \in DeliveriesOf(s) :
              /\ req[g].pc = "done"
              /\ req[g].answer = "skipped" \/ (Recorded(g) /\ (g \in comments => g \in audit))
        BY <2>1, <3>1 DEF IInv, AcknowledgedIsOver
      <3>3. g \in Deliveries \ {d}
        BY <3>2 DEF InProgress, DeliveriesOf
      <3> QED
        BY <1>1, <3>2, <3>3 DEF Only
    <2>2. CASE s \in waiting
      <3>1. /\ s = SourceOf(d) /\ req'[d].pc = "done"
            /\ req'[d].answer # "failed"
        BY <2>2
      <3>2. req'[d].answer \in {"ok", "skipped"}
        BY <1>2, <3>1 DEF TypeOK, Handler, Shape
      <3>3. d \in DeliveriesOf(s) /\ Shape(d)'
        BY <1>2, <3>1 DEF DeliveriesOf
      <3> QED
        BY <3>1, <3>2, <3>3 DEF Shape
    <2> QED
      BY <2>1, <2>2
  <1> QED
    BY <1>2, <1>3, <1>7 DEF IInv

\* The beginning of a delivery.
LEMMA Begin ==
  ASSUME IInv, NEW d \in Deliveries, NEW h \in Handler,
         SourceOf(d) \in waiting, IsNext(d),
         req' = [req EXCEPT ![d] = h], h.heard,
         \/ h.answer = None /\ h.pc = "fetch" /\ SourceOf(d) \in Mails
         \/ h.answer = None /\ h.pc = "org" /\ ~WasReply(SourceOf(d))
         \/ h.answer = "skipped" /\ h.pc = "answer",
         UNCHANGED <<config, active, tickets, waiting, comments, staged, audit, faults>>
  PROVE  IInv'
  <1>1. TypeOK' /\ Only(d) /\ req'[d] = h
    BY DEF IInv, TypeOK, Only
  <1>2. \A e \in Deliveries \ {d} :
           /\ Shape(e)'
           /\ InProgress(e)' <=> InProgress(e)
           /\ Recorded(e)' <=> Recorded(e)
           /\ req'[e] = req[e]
    BY <1>1, Frame DEF Only
  <1>3. req[d].pc = "idle" /\ ~Recorded(d)
    BY DEF IsNext, IInv, Shape
  <1>4. Shape(d)'
    BY <1>1, <1>3, NoneAssumption DEF Shape, Recorded
  <1>5. TicketsKept'
    BY DEF IInv, TicketsKept
  <1>10. AcknowledgedIsOver'
    <2> SUFFICES ASSUME NEW s \in Sources, s \notin waiting,
                        NEW f \in DeliveriesOf(s), req'[f].pc # "idle"
                 PROVE  \E g \in DeliveriesOf(s) :
                          /\ req'[g].pc = "done"
                          /\ \/ req'[g].answer = "skipped"
                             \/ Recorded(g)' /\ (g \in comments => g \in audit)
      BY DEF AcknowledgedIsOver
    <2>1. \A g \in DeliveriesOf(s) : g \in Deliveries \ {d}
      BY DEF DeliveriesOf
    <2> QED
      BY <1>2, <2>1 DEF IInv, AcknowledgedIsOver
  <1> QED
    BY <1>1, <1>2, <1>4, <1>5, <1>10 DEF IInv

\* A handler that throws with nothing done.
LEMMA SetBack ==
  ASSUME IInv, NEW d \in Deliveries, req[d].pc \in {"fetch", "org"},
         req' = [req EXCEPT ![d] = Fresh],
         UNCHANGED <<config, active, tickets, waiting, comments, staged, audit, faults>>
  PROVE  IInv'
  <1>1. TypeOK' /\ Only(d) /\ req'[d] = Fresh
    BY DEF IInv, TypeOK, Only, Fresh, Handler, Pcs
  <1>2. \A e \in Deliveries \ {d} :
           /\ Shape(e)'
           /\ InProgress(e)' <=> InProgress(e)
           /\ Recorded(e)' <=> Recorded(e)
           /\ req'[e] = req[e]
    BY <1>1, Frame DEF Only
  <1>3. InProgress(d) /\ ~Recorded(d)
    BY DEF IInv, Shape, InProgress
  <1>4. Shape(d)'
    BY <1>1, <1>3, NoneAssumption DEF Shape, Recorded, Fresh
  <1>5. TicketsKept'
    BY DEF IInv, TicketsKept
  <1>9. AcknowledgedIsOver'
    <2> SUFFICES ASSUME NEW s \in Sources, s \notin waiting,
                        NEW f \in DeliveriesOf(s), req'[f].pc # "idle"
                 PROVE  \E g \in DeliveriesOf(s) :
                          /\ req'[g].pc = "done"
                          /\ \/ req'[g].answer = "skipped"
                             \/ Recorded(g)' /\ (g \in comments => g \in audit)
      BY DEF AcknowledgedIsOver
    <2>1. f # d /\ req[f].pc # "idle"
      BY <1>1, <1>2 DEF DeliveriesOf, Fresh
    <2>2. PICK g \in DeliveriesOf(s) :
              /\ req[g].pc = "done"
              /\ req[g].answer = "skipped" \/ (Recorded(g) /\ (g \in comments => g \in audit))
      BY <2>1 DEF IInv, AcknowledgedIsOver
    <2>3. g \in Deliveries \ {d}
      BY <2>2 DEF DeliveriesOf
    <2> QED
      BY <1>2, <2>2, <2>3
  <1> QED
    BY <1>1, <1>2, <1>4, <1>5, <1>9 DEF IInv

\* A restart ends every delivery under way.
LEMMA Restarted == IInv /\ Restart => IInv'
  <1> SUFFICES ASSUME IInv, Restart PROVE IInv'
    OBVIOUS
  <1>1. /\ UNCHANGED <<active, tickets, waiting, comments, staged, audit>>
        /\ \A d \in Deliveries :
             /\ InProgress(d) => /\ req'[d].pc = "done" /\ req'[d].answer = "failed"
                                 /\ req'[d].heard = req[d].heard
                                 /\ req'[d].suggestion = req[d].suggestion
             /\ ~InProgress(d) => req'[d] = req[d]
    BY DEF Restart, IInv, TypeOK, Handler
  <1>2. TypeOK'
    <2>1. req' \in [Deliveries -> Handler]
      <3>1. ASSUME NEW h \in Handler
            PROVE  [h EXCEPT !.pc = "done", !.answer = "failed"] \in Handler
        BY DEF Handler, Pcs
      <3>2. /\ req \in [Deliveries -> Handler]
            /\ req' = [d \in Deliveries |->
                         IF InProgress(d) THEN [req[d] EXCEPT !.pc = "done", !.answer = "failed"]
                         ELSE req[d]]
        BY DEF Restart, IInv, TypeOK
      <3> QED
        BY <3>1, <3>2
    <2>2. config' \in Configs /\ faults' \in 0 .. MaxFaults
      <3>1. config' \in Configs /\ faults < MaxFaults /\ faults' = faults + 1
        BY DEF Restart
      <3> QED
        BY <3>1, BoundAssumption DEF IInv, TypeOK
    <2> QED
      BY <1>1, <2>1, <2>2 DEF IInv, TypeOK
  <1>3. ASSUME NEW d \in Deliveries
        PROVE  /\ Shape(d)' /\ ~InProgress(d)'
               /\ req'[d].pc # "idle" <=> req[d].pc # "idle"
               /\ Recorded(d)' <=> Recorded(d)
    <2>1. Shape(d)
      BY DEF IInv
    <2>2. Recorded(d)' <=> Recorded(d)
      BY <1>1 DEF Recorded
    <2>3. CASE InProgress(d)
      <3>1. /\ req'[d].pc = "done" /\ req'[d].answer = "failed"
            /\ comments' = comments /\ tickets' = tickets /\ staged' = staged
        BY <1>1, <2>3
      <3>2. Shape(d)'
        BY <2>1, <2>2, <3>1, NoneAssumption DEF Shape, IsReply
      <3> QED
        BY <2>2, <2>3, <3>1, <3>2 DEF InProgress
    <2>4. CASE ~InProgress(d)
      BY <1>1, <2>1, <2>2, <2>4 DEF Shape, IsReply, InProgress
    <2> QED
      BY <2>2, <2>3, <2>4
  <1>4. TicketsKept'
    BY <1>1 DEF IInv, TicketsKept
  <1>8. AcknowledgedIsOver'
    <2> SUFFICES ASSUME NEW s \in Sources, s \notin waiting,
                        NEW f \in DeliveriesOf(s), req'[f].pc # "idle"
                 PROVE  \E g \in DeliveriesOf(s) :
                          /\ req'[g].pc = "done"
                          /\ \/ req'[g].answer = "skipped"
                             \/ Recorded(g)' /\ (g \in comments => g \in audit)
      BY <1>1 DEF AcknowledgedIsOver
    <2>1. req[f].pc # "idle"
      BY <1>3 DEF DeliveriesOf
    <2>2. PICK g \in DeliveriesOf(s) :
              /\ req[g].pc = "done"
              /\ req[g].answer = "skipped" \/ (Recorded(g) /\ (g \in comments => g \in audit))
      BY <2>1 DEF IInv, AcknowledgedIsOver
    <2>3. g \in Deliveries /\ req'[g] = req[g] /\ (Recorded(g)' <=> Recorded(g))
      BY <1>1, <1>3, <2>2 DEF DeliveriesOf, InProgress
    <2> QED
      BY <2>2, <2>3
  <1> QED
    BY <1>2, <1>3, <1>4, <1>8 DEF IInv
-----------------------------------------------------------------------------
(* The steps *)

\* What Goto and Respond leave of a handler.
LEMMA GotoFields ==
  ASSUME TypeOK, NEW d \in Deliveries, NEW step \in Pcs, Goto(d, step)
  PROVE  /\ req' \in [Deliveries -> Handler]
         /\ \A e \in Deliveries \ {d} : req'[e] = req[e]
         /\ req'[d].pc = step /\ req'[d].answer = req[d].answer
         /\ req'[d].heard = req[d].heard /\ req'[d].suggestion = req[d].suggestion
  BY DEF TypeOK, Goto, Handler

LEMMA RespondFields ==
  ASSUME TypeOK, NEW d \in Deliveries, NEW answer \in {"ok", "skipped", "failed"},
         Respond(d, answer)
  PROVE  /\ req' \in [Deliveries -> Handler]
         /\ \A e \in Deliveries \ {d} : req'[e] = req[e]
         /\ req'[d].pc = "answer" /\ req'[d].answer = answer
         /\ req'[d].heard = req[d].heard /\ req'[d].suggestion = req[d].suggestion
  <1> DEFINE h == [req[d] EXCEPT !.pc = "answer", !.answer = answer]
  <1>1. req[d] \in Handler
    BY DEF TypeOK
  <1>2. /\ h \in Handler /\ h.pc = "answer" /\ h.answer = answer
        /\ h.heard = req[d].heard /\ h.suggestion = req[d].suggestion
    BY <1>1 DEF Handler, Pcs
  <1>3. req' = [req EXCEPT ![d] = h]
    BY ZenonT(60) DEF TypeOK, Respond
  <1> HIDE DEF h
  <1> QED
    BY <1>2, <1>3 DEF TypeOK

\* A refusal or an answer that is not a record: nothing else has happened.
LEMMA Failed ==
  ASSUME IInv, NEW d \in Deliveries, NEW answer \in {"skipped", "failed"},
         InProgress(d), req[d].pc # "answer", Respond(d, answer),
         answer = "skipped" => ~Recorded(d),
         faults' \in 0 .. MaxFaults,
         UNCHANGED <<config, active, tickets, waiting, comments, staged, audit>>
  PROVE  IInv'
  <1>1. /\ req' \in [Deliveries -> Handler]
        /\ \A e \in Deliveries \ {d} : req'[e] = req[e]
        /\ req'[d].pc = "answer" /\ req'[d].answer = answer
    BY RespondFields DEF IInv
  <1>2. TypeOK' /\ Only(d) /\ (Recorded(d)' <=> Recorded(d))
    BY <1>1 DEF IInv, TypeOK, Only, Recorded
  <1>3. Shape(d)
    BY DEF IInv
  <1>4. Shape(d)'
    BY <1>1, <1>2, <1>3, NoneAssumption DEF Shape, IsReply
  <1> QED
    BY <1>1, <1>2, <1>4, Advance

\* A step that only goes on to the next.
LEMMA GoneOn ==
  ASSUME IInv, NEW d \in Deliveries, NEW step \in Pcs, NEW choice \in Departments \cup {None},
         InProgress(d), req[d].pc \in {"fetch", "findTicket", "org", "classify"},
         step \in {"findTicket", "comment", "org", "classify", "stage"},
         req' = [req EXCEPT ![d].pc = step]
           \/ req' = [req EXCEPT ![d].pc = step, ![d].suggestion = choice],
         step = "findTicket" => SourceOf(d) \in Mails,
         step = "comment" => IsReply(SourceOf(d)),
         step \in {"org", "classify", "stage"} => ~WasReply(SourceOf(d)),
         UNCHANGED <<config, active, tickets, waiting, comments, staged, audit, faults>>
  PROVE  IInv'
  <1> DEFINE h == [req[d] EXCEPT !.pc = step, !.suggestion = choice]
  <1>1. req[d] \in Handler
    BY DEF IInv, TypeOK
  <1>2. /\ req' \in [Deliveries -> Handler]
        /\ \A e \in Deliveries \ {d} : req'[e] = req[e]
        /\ req'[d].pc = step /\ req'[d].answer = req[d].answer /\ req'[d].heard = req[d].heard
    <2>1. CASE req' = [req EXCEPT ![d].pc = step]
      BY <2>1, GotoFields DEF Goto, IInv
    <2>2. CASE req' = [req EXCEPT ![d].pc = step, ![d].suggestion = choice]
      <3>1. h \in Handler /\ h.pc = step /\ h.answer = req[d].answer /\ h.heard = req[d].heard
        BY <1>1 DEF Handler
      <3>2. req' = [req EXCEPT ![d] = h]
        BY <2>2, ZenonT(60) DEF IInv, TypeOK
      <3> HIDE DEF h
      <3> QED
        BY <3>1, <3>2 DEF IInv, TypeOK
    <2> QED
      BY <2>1, <2>2
  <1>3. TypeOK' /\ Only(d) /\ (Recorded(d)' <=> Recorded(d))
    BY <1>2 DEF IInv, TypeOK, Only, Recorded
  <1>4. Shape(d) /\ ~Recorded(d)
    BY DEF IInv, Shape
  <1>5. Shape(d)'
    BY <1>2, <1>3, <1>4, NoneAssumption DEF Shape, IsReply
  <1> QED
    BY <1>2, <1>3, <1>4, <1>5, Advance

LEMMA ReceiveStep ==
  ASSUME IInv, NEW d \in Deliveries, Receive(d)
  PROVE  IInv'
  <1>1. req[d] = Fresh /\ Fresh \in Handler /\ IsNext(d) /\ SourceOf(d) \in waiting
    <2>1. IsNext(d) /\ SourceOf(d) \in waiting
      BY DEF Receive, ReceiveMail, SubmitForm
    <2> QED
      BY <2>1 DEF IInv, TypeOK, Shape, IsNext
  <1>2. UNCHANGED <<config, active, tickets, waiting, comments, staged, audit, faults>>
    BY DEF Receive, ReceiveMail, SubmitForm
  <1>3. CASE Goto(d, "fetch") /\ SourceOf(d) \in Mails
    <2> DEFINE h == [Fresh EXCEPT !.pc = "fetch"]
    <2>1. h \in Handler /\ h.heard /\ h.answer = None /\ h.pc = "fetch"
      BY DEF Fresh, Handler, Pcs
    <2>2. req' = [req EXCEPT ![d] = h]
      BY <1>1, <1>3, ZenonT(60) DEF Goto, IInv, TypeOK
    <2> HIDE DEF h
    <2> QED
      BY <1>1, <1>2, <1>3, <2>1, <2>2, Begin
  <1>4. CASE Goto(d, "org") /\ SourceOf(d) \in Visits
    <2> DEFINE h == [Fresh EXCEPT !.pc = "org"]
    <2>1. h \in Handler /\ h.heard /\ h.answer = None /\ h.pc = "org"
      BY DEF Fresh, Handler, Pcs
    <2>2. req' = [req EXCEPT ![d] = h]
      BY <1>1, <1>4, ZenonT(60) DEF Goto, IInv, TypeOK
    <2>3. ~WasReply(SourceOf(d))
      BY <1>4, SourcesAssumption DEF WasReply
    <2> HIDE DEF h
    <2> QED
      BY <1>1, <1>2, <2>1, <2>2, <2>3, Begin
  <1>5. CASE Respond(d, "skipped")
    <2> DEFINE h == [Fresh EXCEPT !.pc = "answer", !.answer = "skipped"]
    <2>1. h \in Handler /\ h.heard /\ h.answer = "skipped" /\ h.pc = "answer"
      BY DEF Fresh, Handler, Pcs
    <2>2. req' = [req EXCEPT ![d] = h]
      BY <1>1, <1>5, ZenonT(60) DEF Respond, IInv, TypeOK
    <2> HIDE DEF h
    <2> QED
      BY <1>1, <1>2, <2>1, <2>2, Begin
  <1>6. CASE UNCHANGED req
    BY <1>2, <1>6 DEF IInv, TypeOK, Shape, IsReply, TicketsKept, AcknowledgedIsOver, Recorded
  <1> QED
    BY <1>3, <1>4, <1>5, <1>6 DEF Receive, ReceiveMail, SubmitForm

LEMMA MoreFaults ==
  ASSUME TypeOK, faults < MaxFaults, faults' = faults + 1
  PROVE  faults' \in 0 .. MaxFaults
  BY BoundAssumption DEF TypeOK

LEMMA FetchStep ==
  ASSUME IInv, NEW d \in Deliveries, FetchReceivedEmail(d)
  PROVE  IInv'
  <1>1. /\ req[d].pc = "fetch" /\ SourceOf(d) \in Mails /\ InProgress(d) /\ ~Recorded(d)
        /\ UNCHANGED <<config, active, tickets, waiting, comments, staged, audit, faults>>
    BY DEF FetchReceivedEmail, IInv, Shape, InProgress
  <1>2. CASE Respond(d, "skipped")
    BY <1>1, <1>2, Failed DEF IInv, TypeOK
  <1>3. CASE Goto(d, "findTicket")
    BY <1>1, <1>3, GoneOn DEF Goto, Pcs
  <1>4. CASE Goto(d, "org") /\ ~MayBeReply(SourceOf(d))
    <2>1. ~WasReply(SourceOf(d))
      BY <1>1, <1>4, ReplyHasBoth, TicketsAssumption DEF WasReply
    <2> QED
      BY <1>1, <1>4, <2>1, GoneOn DEF Goto, Pcs
  <1>5. CASE req' = [req EXCEPT ![d] = Fresh]
    BY <1>1, <1>5, SetBack
  <1> QED
    BY <1>2, <1>3, <1>4, <1>5 DEF FetchReceivedEmail

LEMMA FindStep ==
  ASSUME IInv, NEW d \in Deliveries, FindTicket(d) \/ FindOrg(d) \/ Classify(d)
  PROVE  IInv'
  <1>1. /\ req[d].pc \in {"findTicket", "org", "classify"} /\ InProgress(d)
        /\ UNCHANGED <<config, active, tickets, waiting, comments, staged, audit, faults>>
    BY DEF FindTicket, FindOrg, Classify, InProgress
  <1>2. CASE FindTicket(d)
    <2>1. SourceOf(d) \in Mails
      BY <1>2 DEF FindTicket, IInv, Shape
    <2>2. CASE IsReply(SourceOf(d))
      <3>1. Goto(d, "comment")
        BY <1>2, <2>2 DEF FindTicket, IsReply
      <3> QED
        BY <1>1, <2>2, <3>1, GoneOn DEF Goto, Pcs
    <2>3. CASE ~IsReply(SourceOf(d))
      <3>1. Goto(d, "org") /\ ~WasReply(SourceOf(d))
        BY <1>2, <2>1, <2>3, WasIsReply DEF FindTicket, IsReply, IInv
      <3> QED
        BY <1>1, <3>1, GoneOn DEF Goto, Pcs
    <2> QED
      BY <2>2, <2>3
  <1>3. CASE FindOrg(d) /\ config # "noOrg"
    <2>1. Goto(d, "classify") /\ ~WasReply(SourceOf(d))
      BY <1>3 DEF FindOrg, IInv, Shape
    <2> QED
      BY <1>1, <1>3, <2>1, GoneOn DEF Goto, Pcs
  <1>4. CASE FindOrg(d) /\ config = "noOrg"
    BY <1>1, <1>4, SetBack DEF FindOrg
  <1>5. CASE Classify(d)
    <2>1. ~WasReply(SourceOf(d))
      BY <1>1, <1>5 DEF Classify, IInv, Shape
    <2>2. PICK choice \in Departments \cup {None} :
            req' = [req EXCEPT ![d].pc = "stage", ![d].suggestion = choice]
      BY <1>5 DEF Classify, IInv, TypeOK
    <2> QED
      BY <1>1, <1>5, <2>1, <2>2, GoneOn DEF Classify, Pcs
  <1> QED
    BY <1>2, <1>3, <1>4, <1>5

LEMMA CommentStep ==
  ASSUME IInv, NEW d \in Deliveries, CreateComment(d) \/ LogReply(d)
  PROVE  IInv'
  <1>1. Shape(d) /\ req[d].pc \in {"comment", "audit"} /\ InProgress(d) /\ IsReply(SourceOf(d))
    BY DEF CreateComment, LogReply, IInv, Shape, InProgress
  <1>2. CASE CreateComment(d)
    <2>1. /\ req' \in [Deliveries -> Handler]
          /\ \A e \in Deliveries \ {d} : req'[e] = req[e]
          /\ req'[d].pc = "audit" /\ req'[d].answer = req[d].answer
          /\ req'[d].heard = req[d].heard
      BY <1>2, GotoFields DEF CreateComment, IInv, Pcs
    <2>2. /\ comments' = comments \cup {d} /\ req[d].pc = "comment"
          /\ UNCHANGED <<config, active, tickets, waiting, staged, audit, faults>>
      BY <1>2 DEF CreateComment
    <2>3. TypeOK' /\ Only(d)
      BY <2>1, <2>2 DEF IInv, TypeOK, Only
    <2>4. Shape(d)'
      BY <1>1, <2>1, <2>2, NoneAssumption DEF Shape, Recorded, IsReply
    <2> QED
      BY <1>1, <2>1, <2>2, <2>3, <2>4, Advance
  <1>3. CASE LogReply(d)
    <2>1. /\ req' \in [Deliveries -> Handler]
          /\ \A e \in Deliveries \ {d} : req'[e] = req[e]
          /\ req'[d].pc = "answer" /\ req'[d].answer = "ok"
          /\ req'[d].heard = req[d].heard
      BY <1>3, RespondFields DEF LogReply, IInv
    <2>2. /\ audit' = audit \cup {d} /\ req[d].pc = "audit" /\ d \in comments
          /\ UNCHANGED <<config, active, tickets, waiting, comments, staged, faults>>
      BY <1>1, <1>3 DEF LogReply, Shape
    <2>3. TypeOK' /\ Only(d)
      BY <2>1, <2>2 DEF IInv, TypeOK, Only
    <2>4. Shape(d)'
      BY <1>1, <2>1, <2>2, NoneAssumption DEF Shape, Recorded, IsReply
    <2> QED
      BY <1>1, <2>1, <2>2, <2>3, <2>4, Advance
  <1> QED
    BY <1>2, <1>3

LEMMA StageStep ==
  ASSUME IInv, NEW d \in Deliveries, CreateQuery(d)
  PROVE  IInv'
  <1>1. /\ Shape(d) /\ req[d].pc = "stage" /\ InProgress(d) /\ ~WasReply(SourceOf(d))
        /\ req[d].answer = None
    BY DEF CreateQuery, IInv, Shape, InProgress
  <1>2. /\ req' \in [Deliveries -> Handler]
        /\ \A e \in Deliveries \ {d} : req'[e] = req[e]
        /\ req'[d].pc = "answer" /\ req'[d].answer = "ok"
        /\ req'[d].heard = req[d].heard
    BY RespondFields DEF CreateQuery, IInv
  <1>3. /\ DOMAIN staged' = DOMAIN staged \cup {d}
        /\ staged'[d] = req[d].suggestion
        /\ \A e \in DOMAIN staged \ {d} : staged'[e] = staged[e]
        /\ UNCHANGED <<config, active, tickets, waiting, comments, audit, faults>>
    BY DEF CreateQuery
  <1>4. req[d].suggestion \in Departments \cup {None}
    BY DEF IInv, TypeOK, Handler
  <1>5. TypeOK' /\ Only(d)
    BY <1>2, <1>3, <1>4 DEF IInv, TypeOK, Only
  <1>6. Shape(d)'
    BY <1>1, <1>2, <1>3, NoneAssumption DEF Shape, Recorded
  <1> QED
    BY <1>1, <1>2, <1>3, <1>5, <1>6, Advance

LEMMA AnswerStep ==
  ASSUME IInv, NEW d \in Deliveries, AnswerHeard(d)
  PROVE  IInv'
  <1>1. Shape(d) /\ req[d].pc = "answer" /\ InProgress(d)
    BY DEF AnswerHeard, IInv, InProgress
  <1>2. /\ req' \in [Deliveries -> Handler]
        /\ \A e \in Deliveries \ {d} : req'[e] = req[e]
        /\ req'[d].pc = "done" /\ req'[d].answer = req[d].answer
        /\ req'[d].heard = req[d].heard
    BY GotoFields DEF AnswerHeard, IInv, Pcs
  <1>3. /\ waiting' = IF req[d].heard /\ req[d].answer # "failed"
                      THEN waiting \ {SourceOf(d)} ELSE waiting
        /\ UNCHANGED <<config, active, tickets, comments, staged, audit, faults>>
    BY DEF AnswerHeard
  <1>4. TypeOK' /\ Only(d) /\ (Recorded(d)' <=> Recorded(d))
    BY <1>2, <1>3 DEF IInv, TypeOK, Only, Recorded
  <1>5. Shape(d)'
    BY <1>1, <1>2, <1>3, <1>4 DEF Shape, IsReply
  <1> QED
    BY <1>1, <1>2, <1>3, <1>4, <1>5, Advance

LEMMA FailStep ==
  ASSUME IInv, NEW d \in Deliveries, Fail(d)
  PROVE  IInv'
  <1>1. /\ InProgress(d) /\ faults' \in 0 .. MaxFaults
        /\ UNCHANGED <<config, active, tickets, waiting, comments, staged, audit>>
    BY MoreFaults DEF Fail, FetchFails, GiveUp, CallFails, InProgress, IInv
  <1>2. CASE FetchFails(d)
    <2>1. req[d].pc = "fetch" /\ ~Recorded(d) /\ Respond(d, "skipped")
      BY <1>2 DEF FetchFails, IInv, Shape
    <2> QED
      BY <1>1, <2>1, Failed
  <1>3. CASE CallFails(d)
    BY <1>1, <1>3, Failed DEF CallFails
  <1>4. CASE GiveUp(d)
    <2>1. /\ req' \in [Deliveries -> Handler]
          /\ \A e \in Deliveries \ {d} : req'[e] = req[e]
          /\ req'[d].pc = req[d].pc /\ req'[d].answer = req[d].answer /\ ~req'[d].heard
      BY <1>4 DEF GiveUp, IInv, TypeOK, Handler
    <2>2. TypeOK' /\ Only(d) /\ (Recorded(d)' <=> Recorded(d))
      BY <1>1, <2>1 DEF IInv, TypeOK, Only, Recorded
    <2>3. Shape(d) /\ req[d].pc # "done" /\ req[d].pc # "idle"
      BY <1>1 DEF IInv, InProgress
    <2>4. Shape(d)'
      BY <1>1, <2>1, <2>2, <2>3 DEF Shape, IsReply
    <2> QED
      BY <1>1, <2>1, <2>2, <2>3, <2>4, Advance
  <1> QED
    BY <1>2, <1>3, <1>4 DEF Fail

\* A new ticket adds to the replies and takes nothing from them.
LEMMA FileStep ==
  ASSUME IInv, NEW number \in Numbers, NEW customer \in People, FileTicket(number, customer)
  PROVE  IInv'
  <1>1. /\ DOMAIN tickets' = DOMAIN tickets \cup {number}
        /\ tickets' \in [DOMAIN tickets' -> People]
        /\ \A n \in DOMAIN tickets : tickets'[n] = tickets[n]
        /\ UNCHANGED <<config, active, waiting, comments, staged, audit, req, faults>>
    BY DEF FileTicket, IInv, TypeOK
  <1>2. TypeOK' /\ TicketsKept'
    BY <1>1 DEF IInv, TypeOK, TicketsKept
  <1>3. ASSUME NEW s \in Sources, IsReply(s) PROVE IsReply(s)'
    BY <1>1, <1>3 DEF IsReply, NamesOwnTicket
  <1>4. ASSUME NEW d \in Deliveries PROVE Shape(d)'
    <2>1. Shape(d) /\ SourceOf(d) \in Sources
      BY DEF IInv, Deliveries, SourceOf
    <2>2. IsReply(SourceOf(d)) => IsReply(SourceOf(d))'
      BY <1>3, <2>1
    <2> QED
      BY <1>1, <2>1, <2>2 DEF Shape, Recorded
  <1>5. AcknowledgedIsOver'
    BY <1>1 DEF IInv, AcknowledgedIsOver, Recorded
  <1> QED
    BY <1>2, <1>4, <1>5 DEF IInv

LEMMA NextIInv == IInv /\ [Next]_vars => IInv'
  <1> SUFFICES ASSUME IInv, [Next]_vars PROVE IInv'
    OBVIOUS
  <1>1. CASE UNCHANGED vars
    BY <1>1 DEF vars, IInv, TypeOK, Shape, IsReply, TicketsKept, AcknowledgedIsOver, Recorded
  <1>2. ASSUME NEW d \in Deliveries, Receive(d) \/ Handle(d) \/ Fail(d) PROVE IInv'
    BY <1>2, ReceiveStep, FetchStep, FindStep, CommentStep, StageStep, AnswerStep, FailStep
       DEF Handle
  <1>3. ASSUME NEW number \in Numbers, NEW customer \in People, FileTicket(number, customer)
        PROVE  IInv'
    BY <1>3, FileStep
  <1> QED
    BY <1>1, <1>2, <1>3, Restarted DEF Next
-----------------------------------------------------------------------------
(* What holds of every behaviour *)

LEMMA InitIInv == Init => IInv
  <1> SUFFICES ASSUME Init PROVE IInv
    OBVIOUS
  <1>1. TypeOK
    <2>1. 0 \in 0 .. MaxFaults
      BY BoundAssumption
    <2> QED
      BY <2>1, TicketsAssumption DEF Init, TypeOK, Fresh, Handler, Pcs
  <1>2. \A d \in Deliveries : /\ req[d] = Fresh /\ ~Recorded(d)
                              /\ req[d].pc = "idle" /\ req[d].answer = None
                              /\ d \notin comments /\ d \notin DOMAIN staged
    BY DEF Init, Recorded, Fresh
  <1>3. \A d \in Deliveries : Shape(d)
    BY <1>2, NoneAssumption DEF Shape
  <1>4. TicketsKept
    BY DEF Init, TicketsKept
  <1>5. AcknowledgedIsOver
    BY <1>2 DEF AcknowledgedIsOver, DeliveriesOf
  <1> QED
    BY <1>1, <1>3, <1>4, <1>5 DEF IInv

THEOREM SpecIInv == Spec => []IInv
  BY InitIInv, NextIInv, PTL DEF Spec

\* Every variable keeps its type.
THEOREM InboundTypeCorrect == Spec => []TypeOK
  <1>1. IInv => TypeOK
    BY DEF IInv
  <1> QED
    BY <1>1, SpecIInv, PTL

\* However often a reply is delivered, and whatever fails and is filed meanwhile,
\* it is not queued if its sender had the ticket when he wrote.
THEOREM RepliesNeverQueued == Spec => []RepliesNotQueued
  <1>1. IInv => RepliesNotQueued
    BY DEF IInv, TypeOK, Shape, WasReply, RepliesNotQueued
  <1> QED
    BY <1>1, SpecIInv, PTL

\* A mail that has left a comment is a reply at every later look at the tickets.
THEOREM ReplyAlwaysStaysReply == Spec => ReplyStaysReply
  <1>1. ASSUME IInv, [Next]_vars, NEW d \in Deliveries,
               DeliveriesOf(SourceOf(d)) \cap comments # {},
               req[d].pc \in {"fetch", "findTicket"}
        PROVE  req'[d].pc # "org"
    <2>1. IsReply(SourceOf(d)) /\ MayBeReply(SourceOf(d))
      <3>1. PICK e \in Deliveries : SourceOf(e) = SourceOf(d) /\ e \in comments
        BY <1>1 DEF DeliveriesOf
      <3>2. IsReply(SourceOf(d))
        BY <1>1, <3>1 DEF IInv, Shape
      <3> QED
        BY <1>1, <3>2, ReplyHasBoth DEF IsReply, IInv, TypeOK
    <2>2. req[d].pc # "org" /\ req \in [Deliveries -> Handler] /\ TypeOK
      BY <1>1 DEF IInv, TypeOK
    <2>3. CASE req'[d] = req[d]
      BY <2>2, <2>3
    <2>4. ASSUME NEW e \in Deliveries, Receive(e) \/ Handle(e) \/ Fail(e), req'[d] # req[d]
          PROVE  req'[d].pc # "org"
      <3>1. e = d
        BY <2>2, <2>4 DEF Receive, ReceiveMail, SubmitForm, Handle, FetchReceivedEmail, FindTicket,
           CreateComment, LogReply, FindOrg, Classify, CreateQuery, AnswerHeard,
           Fail, FetchFails, GiveUp, CallFails, Goto, Respond
      <3>2. CASE Receive(d)
        BY <1>1, <3>2 DEF Receive, ReceiveMail, SubmitForm, IsNext
      <3>3. CASE Handle(d)
        <4>1. FetchReceivedEmail(d) \/ FindTicket(d)
          BY <1>1, <3>3 DEF Handle, CreateComment, LogReply, FindOrg, Classify, CreateQuery,
             AnswerHeard
        <4>2. \/ Respond(d, "skipped") \/ Goto(d, "findTicket") \/ Goto(d, "comment")
              \/ req' = [req EXCEPT ![d] = Fresh]
          BY <2>1, <4>1 DEF FetchReceivedEmail, FindTicket, IsReply
        <4>3. CASE Respond(d, "skipped")
          BY <2>2, <4>3, RespondFields
        <4>4. CASE Goto(d, "findTicket") \/ Goto(d, "comment")
          BY <2>2, <4>4, GotoFields DEF Pcs
        <4>5. CASE req' = [req EXCEPT ![d] = Fresh]
          BY <2>2, <4>5 DEF Fresh
        <4> QED
          BY <4>2, <4>3, <4>4, <4>5
      <3>4. CASE FetchFails(d) \/ CallFails(d)
        BY <2>2, <3>4, RespondFields DEF FetchFails, CallFails
      <3>5. CASE GiveUp(d)
        BY <2>2, <3>5 DEF GiveUp, Handler
      <3> QED
        BY <2>4, <3>1, <3>2, <3>3, <3>4, <3>5 DEF Fail
    <2>5. CASE Restart
      BY <1>1, <2>2, <2>5 DEF Restart, InProgress, Handler
    <2>6. CASE UNCHANGED req
      BY <2>2, <2>6
    <2> QED
      BY <1>1, <2>3, <2>4, <2>5, <2>6 DEF Next, vars, FileTicket
  <1>2. IInv /\ [Next]_vars =>
          [\A d \in Deliveries :
             /\ DeliveriesOf(SourceOf(d)) \cap comments # {}
             /\ req[d].pc \in {"fetch", "findTicket"}
             => req'[d].pc # "org"]_vars
    BY <1>1
  <1> QED
    BY <1>2, SpecIInv, PTL DEF Spec, ReplyStaysReply

\* What is acknowledged is on record, or was dropped with a 200.
THEOREM AcknowledgedStaysRecorded == Spec => []AcknowledgedIsRecorded
  <1>1. IInv => AcknowledgedIsRecorded
    BY DEF IInv, AcknowledgedIsOver, AcknowledgedIsRecorded
  <1> QED
    BY <1>1, SpecIInv, PTL
=============================================================================
