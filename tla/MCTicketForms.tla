----------------------------- MODULE MCTicketForms ----------------------------
(* A small instance of TicketForms for TLC: one type in each of two            *)
(* departments; the second version of the first asks for something else.       *)
EXTENDS TicketForms, TLC

MCDeptOf == ("bug" :> "IT") @@ ("leave" :> "HR")

MCMaxVersion == ("bug" :> 2) @@ ("leave" :> 1)

AField(key, required, appliesTo) == [key |-> key, required |-> required, appliesTo |-> appliesTo]

MCSchemaOf ==
  ("bug" :> << {AField("steps", TRUE, "BOTH")}, {AField("version", TRUE, "B2C")} >>) @@
  ("leave" :> << {AField("days", FALSE, "BOTH")} >>)
==============================================================================
