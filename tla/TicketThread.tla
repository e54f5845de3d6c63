------------------------------ MODULE TicketThread -----------------------------
(***************************************************************************)
(* The lists of a ticket's page, in the browser of its requester           *)
(* (MyTicketDetailPage) and of an agent (TicketDetailPage), and the rows   *)
(* behind them: comments, files, and the timeline.  A page loads each list *)
(* when it is opened, appends what its own user adds and, for the timeline *)
(* only, loads it again; answers come in any order.  The lists share       *)
(* nothing, so one of them is looked at at a time.                         *)
(***************************************************************************)
EXTENDS Naturals, Sequences, FiniteSets, Bags, SequencesExt

CONSTANTS
  None,
  MaxEntries,  \* bound on the rows added
  MaxReads,    \* bound on the loads under way on a page
  MaxFaults    \* bound on the calls that fail or whose answer is lost

Pages == {"mine", "staff"}

Lists == {"comments", "files", "history"}

VARIABLES
  list,      \* the list looked at
  entries,   \* its rows, oldest first
  blobs,     \* the stored bytes, by storage key
  shown,     \* what each page shows of it
  reads,     \* the bag of loads under way, with the rows once they are read
  writes,    \* the calls under way that add something
  busy,      \* postingComment, uploadingAttachment, actionPending of each page
  failed,    \* error: the page shows nothing else from then on
  loaded,    \* the first load has come in
  early,     \* something was added before it had (a history variable)
  faults

vars == <<list, entries, blobs, shown, reads, writes, busy, failed, loaded, early, faults>>
-----------------------------------------------------------------------------
\* A row; number tells it from the others, and is the storage key of a file.  A
\* comment has its visibility; a row of the timeline is PUBLIC here if its action
\* is one of REQUESTER_VISIBLE_HISTORY_ACTIONS (created, assigned, status changed)
\* and INTERNAL if it is not (escalated, acknowledged, archived and the like).
Entry == [by : Pages, visibility : {"PUBLIC", "INTERNAL"}, number : 1 .. MaxEntries]

\* step: the call is under way, the bytes are saved, the row is there.
Write == [entry : Entry, step : {"asked", "saved", "stored"}]

TypeOK ==
  /\ list \in Lists
  /\ \A i \in DOMAIN entries : entries[i] \in Entry
  /\ blobs \subseteq 1 .. MaxEntries
  /\ \A p \in Pages : \A i \in DOMAIN shown[p] : shown[p][i] \in Entry
  /\ IsABag(reads) /\ \A r \in BagToSet(reads) : r.page \in Pages
  /\ writes \subseteq Write
  /\ busy \in [Pages -> BOOLEAN] /\ failed \in [Pages -> BOOLEAN]
  /\ loaded \in [Pages -> BOOLEAN] /\ early \in [Pages -> BOOLEAN]
  /\ faults \in Nat

Asked(p) == [page |-> p, rows |-> None]

ReadsOf(p) == {r \in BagToSet(reads) : r.page = p}

Init ==
  /\ list \in Lists
  /\ entries = <<>> /\ blobs = {}
  /\ shown = [p \in Pages |-> <<>>]
  /\ reads = SetToBag({Asked(p) : p \in Pages})
  /\ writes = {}
  /\ busy = [p \in Pages |-> FALSE] /\ failed = [p \in Pages |-> FALSE]
  /\ loaded = [p \in Pages |-> FALSE] /\ early = [p \in Pages |-> FALSE]
  /\ faults = 0
-----------------------------------------------------------------------------
(* Loading *)

\* Mutant: the requester is given every row.
VisibleAll(p) == entries

\* The public ones among the rows, in their order.  (A recursive function, which
\* can be reasoned about: SelectSeq is opaque to the provers.)
Public(rows) ==
  LET public[n \in 0 .. Len(rows)] ==
        IF n = 0 THEN <<>>
        ELSE IF rows[n].visibility = "PUBLIC" THEN Append(public[n - 1], rows[n])
        ELSE public[n - 1]
  IN  public[Len(rows)]

\* listMyComments() and getMyHistory() leave rows out, listMyAttachments() does not.
Filtered == {"comments", "history"}

\* Internal notes, and actions that are no milestones, are not for the requester.
Visible(p) == IF p = "mine" /\ list \in Filtered THEN Public(entries) ELSE entries

Serve(r) ==
  /\ r.rows = None
  /\ reads' = (reads (-) SetToBag({r})) (+) SetToBag({[r EXCEPT !.rows = Visible(r.page)]})
  /\ UNCHANGED <<list, entries, blobs, shown, writes, busy, failed, loaded, early, faults>>

\* The answer replaces the list.
Loaded(r) ==
  /\ r.rows # None
  /\ shown' = [shown EXCEPT ![r.page] = r.rows]
  /\ loaded' = [loaded EXCEPT ![r.page] = TRUE]
  /\ reads' = reads (-) SetToBag({r})
  /\ UNCHANGED <<list, entries, blobs, writes, busy, failed, early, faults>>

\* .catch(() => {}): nobody hears of it.
LoadFails(r) ==
  /\ faults < MaxFaults
  /\ reads' = reads (-) SetToBag({r})
  /\ faults' = faults + 1
  /\ UNCHANGED <<list, entries, blobs, shown, writes, busy, failed, loaded, early>>

\* Mutant: the requester's page loads the timeline once.
PollNever == FALSE /\ UNCHANGED vars

\* Every 30 seconds the requester's page loads the timeline again.
Poll ==
  /\ list = "history"
  /\ BagCardinality([r \in ReadsOf("mine") |-> reads[r]]) < MaxReads
  /\ reads' = reads (+) SetToBag({Asked("mine")})
  /\ UNCHANGED <<list, entries, blobs, shown, writes, busy, failed, loaded, early, faults>>
-----------------------------------------------------------------------------
(* Adding *)

\* The numbers given out, and the next.
Used == {w.entry.number : w \in writes} \cup {entries[i].number : i \in DOMAIN entries} \cup blobs

Fresh == CHOOSE n \in (1 .. MaxEntries) \ Used : \A m \in (1 .. MaxEntries) \ Used : n <= m

\* A comment, a file, or an action of an agent that leaves a row on the timeline.
Add(p, visibility) ==
  /\ ~busy[p] /\ ~failed[p]
  /\ list = "history" => p = "staff"
  /\ p = "mine" \/ list \notin Filtered => visibility = "PUBLIC"
  /\ Cardinality(Used) < MaxEntries
  /\ writes' = writes \cup
       {[entry |-> [by |-> p, visibility |-> visibility, number |-> Fresh], step |-> "asked"]}
  /\ busy' = [busy EXCEPT ![p] = TRUE]
  /\ early' = [early EXCEPT ![p] = @ \/ ~loaded[p]]
  /\ UNCHANGED <<list, entries, blobs, shown, reads, failed, loaded, faults>>

\* storage.save()
SaveBlob(w) ==
  /\ list = "files" /\ w.step = "asked"
  /\ blobs' = blobs \cup {w.entry.number}
  /\ writes' = (writes \ {w}) \cup {[w EXCEPT !.step = "saved"]}
  /\ UNCHANGED <<list, entries, shown, reads, busy, failed, loaded, early, faults>>

\* Mutant: the row is there before the bytes.
MayStoreAtOnce(w) == w.step = "asked"

\* A file's row follows its bytes.
MayStore(w) == w.step = IF list = "files" THEN "saved" ELSE "asked"

Store(w) ==
  /\ MayStore(w)
  /\ entries' = Append(entries, w.entry)
  /\ writes' = (writes \ {w}) \cup {[w EXCEPT !.step = "stored"]}
  /\ UNCHANGED <<list, blobs, shown, reads, busy, failed, loaded, early, faults>>

\* Mutant: the list is loaded again, and what was added appended as well.
AddedReload(w) ==
  /\ w.step = "stored"
  /\ shown' = [shown EXCEPT ![w.entry.by] = Append(@, w.entry)]
  /\ reads' = reads (+) SetToBag({Asked(w.entry.by)})
  /\ writes' = writes \ {w}
  /\ busy' = [busy EXCEPT ![w.entry.by] = FALSE]
  /\ UNCHANGED <<list, entries, blobs, failed, loaded, early, faults>>

\* The page appends what was added; an action has the timeline loaded again.
Added(w) ==
  /\ w.step = "stored"
  /\ IF list = "history"
     THEN reads' = reads (+) SetToBag({Asked(w.entry.by)}) /\ UNCHANGED shown
     ELSE shown' = [shown EXCEPT ![w.entry.by] = Append(@, w.entry)] /\ UNCHANGED reads
  /\ writes' = writes \ {w}
  /\ busy' = [busy EXCEPT ![w.entry.by] = FALSE]
  /\ UNCHANGED <<list, entries, blobs, failed, loaded, early, faults>>

\* The call fails where it stands, or its answer is lost.  The error of a file is
\* shown beside the list, any other in the place of the page.
AddFails(w) ==
  /\ faults < MaxFaults
  /\ writes' = writes \ {w}
  /\ busy' = [busy EXCEPT ![w.entry.by] = FALSE]
  /\ failed' = [failed EXCEPT ![w.entry.by] = list # "files"]
  /\ faults' = faults + 1
  /\ UNCHANGED <<list, entries, blobs, shown, reads, loaded, early>>
-----------------------------------------------------------------------------
Reading(r) == Serve(r) \/ Loaded(r)

Next ==
  \/ Poll
  \/ \E p \in Pages, visibility \in {"PUBLIC", "INTERNAL"} : Add(p, visibility)
  \/ \E r \in BagToSet(reads) : Reading(r) \/ LoadFails(r)
  \/ \E w \in writes : SaveBlob(w) \/ Store(w) \/ Added(w) \/ AddFails(w)

Spec == Init /\ [][Next]_vars

\* The timer goes on, and loads are answered.
ServeMine == \E r \in ReadsOf("mine") : Serve(r)

LoadMine == \E r \in ReadsOf("mine") : Loaded(r)

Fairness == WF_vars(Poll) /\ WF_vars(ServeMine) /\ WF_vars(LoadMine)

FairSpec == Spec /\ Fairness
-----------------------------------------------------------------------------
(* Properties *)

\* Every file on a ticket can be downloaded, whatever failed on the way
\* (readAttachmentBytes()).
FilesHaveBytes == list = "files" => \A i \in DOMAIN entries : entries[i].number \in blobs

\* The requester's page never shows an internal note, nor a row of the timeline
\* that is not a milestone of the ticket, of any time.
InternalStaysInternal ==
  \A i \in DOMAIN shown["mine"] : shown["mine"][i].visibility = "PUBLIC"

\* On a page whose first load came in before anything was added on it, everything
\* shown is stored and shown once, and what its user has added is there.  (Before
\* that, a late load may show a comment twice, or take it away.)
ShownOnce ==
  \A p \in Pages : ~early[p] /\ list # "history" =>
    /\ IsInjective(shown[p])
    /\ ToSet(shown[p]) \subseteq ToSet(entries)
    /\ faults = 0 => {e \in ToSet(entries) : e.by = p} \ {w.entry : w \in writes}
                         \subseteq ToSet(shown[p])

\* The requester's timeline has all milestones, and nothing else, in the end,
\* however loads overtake one another, though the requester does nothing.
HistoryCatchesUp ==
  <>[](list = "history" => shown["mine"] = Public(entries))
=============================================================================
