---------------------------- MODULE MCIntakeTriage ----------------------------
(* Small instances of IntakeTriage for TLC: two queries of one address, one   *)
(* of which names a company; an administrator of the IT department and one    *)
(* of the whole organisation.                                                 *)
EXTENDS IntakeTriage

CONSTANTS q1, q2,         \* queries
          adm, root,      \* staff
          r1, r2, r3      \* requests

MCIsSuperAdmin == [s \in Staff |-> s = root]
MCDeptOf == [s \in Staff |-> IF s = adm THEN "IT" ELSE None]

\* Both come from the same address.
MCEmailOf == [q \in Queries |-> "ann@acme"]
MCCompanyNameOf == [q \in Queries |-> IF q = q2 THEN None ELSE "Acme"]
MCSuggestedDept == [q \in Queries |-> IF q = q2 THEN None ELSE "IT"]

Call(op, staff, q, dept) == [op |-> op, staff |-> staff, query |-> q, dept |-> dept]

\* Two colleagues triage the same queue.
MCCalls ==
  {Call("convert", adm, q1, "IT"), Call("reject", adm, q1, None),
   Call("convert", root, q1, "HR"), Call("convert", root, q2, "IT")}

\* The same queue with one query.
MCQueryCalls == {c \in MCCalls : c.query = q1}
==============================================================================
