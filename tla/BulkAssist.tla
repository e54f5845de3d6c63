------------------------------- MODULE BulkAssist ------------------------------
(***************************************************************************)
(* The page that drafts replies to every unanswered ticket of a department *)
(* (BulkAssistPage): cards that are approved one by one or swept up, each  *)
(* approval a chain of an assignment and a reply.  Approvals overlap, and  *)
(* the sweep works through the cards as they were when it was started.     *)
(***************************************************************************)
EXTENDS Naturals, FiniteSets, Bags

CONSTANTS
  Tickets,
  None,
  MaxCards,    \* bound on the cards drawn up, over all runs
  MaxFaults    \* bound on the calls that fail or whose answer is lost

VARIABLES
  items,       \* the set of cards, or None (their order is left open)
  queue,       \* the cards the sweep has still to approve
  approvingAll, running,
  run, cards,  \* the times the assistant was run, the cards it drew up
  approvals,   \* the approvals under way
  assistant,   \* the call of bulkAssist under way, or None
  answered, assigned,   \* the tickets with a first reply, with an agent
  posted,      \* the bag of replies posted, <<ticket, run, by>> (a history variable)
  faults

vars == <<items, queue, approvingAll, running, run, cards, approvals, assistant, answered,
          assigned, posted, faults>>
-----------------------------------------------------------------------------
\* A card's text: only whether there is one matters.
Texts == {"", "text"}

CardStatuses == {"pending", "approving", "approved", "skipped", "error"}

\* A card; assign: an agent is suggested and the box is checked.
Item == [ticketId : Tickets, run : 1 .. MaxCards, draftText : Texts,
         suggestedAgent : BOOLEAN, assignChecked : BOOLEAN, status : CardStatuses]

\* approveOne(), waiting for the answer of a step, from a card or the sweep.
Approval == [item : Item, by : {"hand", "sweep"}, step : {"assign", "comment"}]

TypeOK ==
  /\ items # None => items \subseteq Item
  /\ queue \subseteq Item
  /\ approvingAll \in BOOLEAN /\ running \in BOOLEAN
  /\ run \in 0 .. MaxCards /\ cards \in 0 .. MaxCards
  /\ approvals \subseteq Approval
  /\ assistant # None => assistant.assigned \subseteq Tickets
  /\ answered \subseteq Tickets /\ assigned \subseteq Tickets
  /\ IsABag(posted)
  /\ faults \in Nat

Init ==
  /\ items = None /\ queue = {}
  /\ approvingAll = FALSE /\ running = FALSE /\ run = 0 /\ cards = 0
  /\ approvals = {} /\ assistant = None
  /\ answered \in SUBSET Tickets /\ assigned = {}
  /\ posted = EmptyBag /\ faults = 0
-----------------------------------------------------------------------------
(* Running the assistant *)

OnRun ==
  /\ ~running /\ run < MaxCards
  /\ cards' = cards + Cardinality(Tickets \ answered) /\ cards' <= MaxCards
  /\ running' = TRUE
  /\ run' = run + 1
  /\ items' = None
  /\ assistant' = [tickets |-> Tickets \ answered, assigned |-> assigned]
  /\ UNCHANGED <<queue, approvingAll, approvals, answered, assigned, posted, faults>>

\* A card of this run, with a draft or none and an agent or none.
NewItem(t, drafted, suggested) ==
  [ticketId |-> t, run |-> run, draftText |-> IF t \in drafted THEN "text" ELSE "",
   suggestedAgent |-> t \in suggested, assignChecked |-> t \in suggested,
   status |-> "pending"]

\* bulkAssist(): the queue as it was read at first; an agent may be suggested for
\* a ticket that had none.
ItemsArrive ==
  /\ assistant # None
  /\ \E drafted \in SUBSET assistant.tickets,
        suggested \in SUBSET (assistant.tickets \ assistant.assigned) :
       items' = {NewItem(t, drafted, suggested) : t \in assistant.tickets}
  /\ assistant' = None
  /\ running' = FALSE
  /\ UNCHANGED <<queue, approvingAll, run, cards, approvals, answered, assigned, posted, faults>>

RunFails ==
  /\ assistant # None /\ faults < MaxFaults
  /\ assistant' = None
  /\ running' = FALSE
  /\ faults' = faults + 1
  /\ UNCHANGED <<items, queue, approvingAll, run, cards, approvals, answered, assigned, posted>>
-----------------------------------------------------------------------------
(* The cards *)

\* updateItem(): whatever list is shown by then.
Updated(t, field, value) ==
  IF items = None THEN None
  ELSE {IF item.ticketId = t THEN [item EXCEPT ![field] = value] ELSE item : item \in items}

Pending == {item \in (IF items = None THEN {} ELSE items) : item.status = "pending"}

Edit(item, text) ==
  /\ items' = Updated(item.ticketId, "draftText", text)
  /\ UNCHANGED <<queue, approvingAll, running, run, cards, approvals, assistant, answered, assigned,
                 posted, faults>>

Check(item, checked) ==
  /\ item.suggestedAgent
  /\ items' = Updated(item.ticketId, "assignChecked", checked)
  /\ UNCHANGED <<queue, approvingAll, running, run, cards, approvals, assistant, answered, assigned,
                 posted, faults>>

Skip(item) ==
  /\ items' = Updated(item.ticketId, "status", "skipped")
  /\ UNCHANGED <<queue, approvingAll, running, run, cards, approvals, assistant, answered, assigned,
                 posted, faults>>
-----------------------------------------------------------------------------
(* Approving *)

Assigns(item) == item.assignChecked /\ item.suggestedAgent

Replies(item) == item.draftText # ""

\* The first call approveOne() makes for a card.
FirstStep(item) == IF Assigns(item) THEN "assign"
                   ELSE IF Replies(item) THEN "comment" ELSE "done"

\* Mutant: a card with nothing to send waits for an answer all the same.
ApproveAnyway(item, by) ==
  /\ items' = Updated(item.ticketId, "status", "approving")
  /\ approvals' = approvals \cup {[item |-> item, by |-> by, step |-> FirstStep(item)]}

\* approveOne() up to its first answer.
Approve(item, by) ==
  IF FirstStep(item) = "done"
  THEN items' = Updated(item.ticketId, "status", "approved") /\ UNCHANGED approvals
  ELSE /\ items' = Updated(item.ticketId, "status", "approving")
       /\ approvals' = approvals \cup {[item |-> item, by |-> by, step |-> FirstStep(item)]}

ApproveOne(item) ==
  /\ Approve(item, "hand")
  /\ UNCHANGED <<queue, approvingAll, running, run, cards, assistant, answered, assigned, posted, faults>>

\* The sweep is over the pending cards as they are now.
OnApproveAll ==
  /\ Pending # {}
  /\ ~approvingAll
  /\ approvingAll' = TRUE
  /\ queue' = Pending
  /\ UNCHANGED <<items, running, run, cards, approvals, assistant, answered, assigned, posted, faults>>

Sweeps == {a \in approvals : a.by = "sweep"}

SweepNext(item) ==
  /\ Sweeps = {}
  /\ Approve(item, "sweep")
  /\ queue' = queue \ {item}
  /\ UNCHANGED <<approvingAll, running, run, cards, assistant, answered, assigned, posted, faults>>

SweepEnd ==
  /\ approvingAll /\ queue = {} /\ Sweeps = {}
  /\ approvingAll' = FALSE
  /\ UNCHANGED <<items, queue, running, run, cards, approvals, assistant, answered, assigned, posted, faults>>

\* An answer to approval a: assigned, and the reply follows if there is one.
AssignAnswered(a) ==
  /\ a \in approvals /\ a.step = "assign"
  /\ assigned' = assigned \cup {a.item.ticketId}
  /\ IF Replies(a.item)
     THEN approvals' = (approvals \ {a}) \cup {[a EXCEPT !.step = "comment"]} /\ UNCHANGED items
     ELSE /\ approvals' = approvals \ {a}
          /\ items' = Updated(a.item.ticketId, "status", "approved")
  /\ UNCHANGED <<queue, approvingAll, running, run, cards, assistant, answered, posted, faults>>

Post(a) ==
  /\ posted' = posted (+) SetToBag({<<a.item.ticketId, a.item.run, a.by>>})
  /\ answered' = answered \cup {a.item.ticketId}

CommentAnswered(a) ==
  /\ a \in approvals /\ a.step = "comment"
  /\ Post(a)
  /\ approvals' = approvals \ {a}
  /\ items' = Updated(a.item.ticketId, "status", "approved")
  /\ UNCHANGED <<queue, approvingAll, running, run, cards, assistant, assigned, faults>>

\* Mutant: after an error the card can be approved again.
ApprovalFailsPending(a) ==
  /\ a \in approvals /\ faults < MaxFaults
  /\ \/ UNCHANGED <<assigned, posted, answered>>
     \/ a.step = "assign" /\ assigned' = assigned \cup {a.item.ticketId} /\ UNCHANGED <<posted, answered>>
     \/ a.step = "comment" /\ Post(a) /\ UNCHANGED assigned
  /\ approvals' = approvals \ {a}
  /\ items' = Updated(a.item.ticketId, "status", "pending")
  /\ faults' = faults + 1
  /\ UNCHANGED <<queue, approvingAll, running, run, cards, assistant>>

\* A call fails, or is carried out and its answer lost.
ApprovalFails(a) ==
  /\ a \in approvals /\ faults < MaxFaults
  /\ \/ UNCHANGED <<assigned, posted, answered>>
     \/ a.step = "assign" /\ assigned' = assigned \cup {a.item.ticketId} /\ UNCHANGED <<posted, answered>>
     \/ a.step = "comment" /\ Post(a) /\ UNCHANGED assigned
  /\ approvals' = approvals \ {a}
  /\ items' = Updated(a.item.ticketId, "status", "error")
  /\ faults' = faults + 1
  /\ UNCHANGED <<queue, approvingAll, running, run, cards, assistant>>
-----------------------------------------------------------------------------
\* The user at the cards.
Choose ==
  \/ OnRun \/ OnApproveAll
  \/ \E item \in Pending :
       \/ Skip(item) \/ ApproveOne(item)
       \/ \E text \in Texts \ {item.draftText} : Edit(item, text)
       \/ Check(item, ~item.assignChecked)

Answer(a) == AssignAnswered(a) \/ CommentAnswered(a) \/ ApprovalFails(a)

Next ==
  \/ Choose \/ ItemsArrive \/ RunFails \/ SweepEnd
  \/ \E item \in queue : SweepNext(item)
  \/ \E a \in approvals : Answer(a)

Spec == Init /\ [][Next]_vars
-----------------------------------------------------------------------------
(* Properties *)

\* From one list a ticket is replied to at most once by its card and once by a
\* sweep, whatever fails and however often the sweep is started.
SentOnceEachWay == \A reply \in BagToSet(posted) : posted[reply] = 1

\* An approval that assigns has done so before its reply goes out, however the
\* card and the sweep overlap.
AssignedFirst ==
  \A a \in approvals :
    a.step = "comment" /\ Assigns(a.item) => a.item.ticketId \in assigned

\* The sweep has one approval under way at most, and only while its button says so.
SweepIsSequential ==
  /\ \A a, b \in Sweeps : a = b
  /\ Sweeps # {} \/ queue # {} => approvingAll
=============================================================================
