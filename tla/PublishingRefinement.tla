------------------------- MODULE PublishingRefinement -------------------------
(***************************************************************************)
(* The handlers of TicketTypePublishing implement VersionLog: the rows of  *)
(* a type, by version number, are its log.                                 *)
(***************************************************************************)
EXTENDS TicketTypePublishing

Log == INSTANCE VersionLog WITH
  Names    <- Requests,
  Contents <- SUBSET Items,
  log      <- [t \in Types |-> [n \in DOMAIN versions[t] |-> versions[t][n].items]],
  pinned   <- tickets

\* However publications of one type overlap, each appends one usable version
\* under the next number or none at all, no version changes or goes away, and
\* a ticket keeps the version it was raised under.
KeepsLog == Log!Spec
==============================================================================
