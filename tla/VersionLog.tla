------------------------------ MODULE VersionLog ------------------------------
(***************************************************************************)
(* What publishing promises to the tickets: each ticket type has one log   *)
(* of versions, numbered from 1, that only ever grows at its end, every    *)
(* version of it can be used, and a ticket holds on to the version it was  *)
(* raised under.                                                           *)
(***************************************************************************)
EXTENDS Naturals, Sequences

CONSTANTS Types, Names,   \* ticket types, and the names of tickets
          Contents,       \* what a version may freeze
          Usable(_)       \* a ticket can be raised under such a version

VARIABLES log, pinned

logVars == <<log, pinned>>

Pin == [name : Names, type : Types, version : Nat]

Init == log = [t \in Types |-> <<>>] /\ pinned = {}

Publish(t, content) ==
  /\ Usable(content)
  /\ log' = [log EXCEPT ![t] = Append(@, content)]
  /\ UNCHANGED pinned

Raise(pin) ==
  /\ pin.version \in DOMAIN log[pin.type]
  /\ \A other \in pinned : other.name # pin.name
  /\ pinned' = pinned \cup {pin}
  /\ UNCHANGED log

Next ==
  \/ \E t \in Types, content \in Contents : Publish(t, content)
  \/ \E name \in Names, t \in Types :
       \E n \in DOMAIN log[t] : Raise([name |-> name, type |-> t, version |-> n])

Spec == Init /\ [][Next]_logVars
==============================================================================
