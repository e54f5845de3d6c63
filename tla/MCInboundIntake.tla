---------------------------- MODULE MCInboundIntake ---------------------------
(* A small instance of InboundIntake for TLC: a reply on the sender's own      *)
(* ticket, a mail that names a ticket which may be filed meanwhile, for its    *)
(* sender or for another, a bounce notice, a mail that is fetched without its  *)
(* From header, and a visit to the web form.                                   *)
EXTENDS InboundIntake, TLC

CONSTANTS reply, early, bounce, blank, visit

MCEventOf == [m \in Mails |-> IF m = bounce THEN "other" ELSE "email.received"]

MCFromOf == [m \in Mails |->
  [shape |-> CASE m = reply -> "named" [] m = blank -> "missing" [] OTHER -> "bare",
   person |-> IF m = reply THEN "ann" ELSE "bob", capitals |-> m = reply]]

\* "Re: [TECH-42] ticket 43" and "ticket 43"
MCSubjectOf == [m \in Mails |-> [dash |-> IF m = reply THEN 42 ELSE None, word |-> 43]]

MCFiled == 42 :> "ann"

MCKeywordDept == [s \in Sources |-> IF s = visit THEN "HR" ELSE None]
==============================================================================
