------------------------------ MODULE MCRunner ------------------------------
(***************************************************************************)
(* Three events: one at a time, one in a window of two ticks, one whose     *)
(* effect gives the world an agent. A client that renames and one that      *)
(* writes in place.                                                         *)
(***************************************************************************)
EXTENDS Runner

CONSTANTS e1, e2, e3, c1, c2

MCTrigger ==
    [e \in Events |->
        CASE e = e1 -> [kind |-> "at_time", first |-> 1, last |-> 1]
          [] e = e2 -> [kind |-> "on_duration", first |-> 0, last |-> 2]
          [] OTHER  -> [kind |-> "at_condition", first |-> 0, last |-> 0]]

MCEffect ==
    [e \in Events |->
        CASE e = e1 -> "place_mutation" [] e = e2 -> "relation_change"
          [] OTHER -> "state_change"]

Asks(op, e) == [op |-> op, event |-> e]
MCKinds ==
    {[c \in Commands |-> IF c = c1 THEN Asks("inject", e2) ELSE Asks("reload", e2)],
     [c \in Commands |-> IF c = c1 THEN Asks("close", e2) ELSE Asks("move", e2)]}

MCScripts == {{e3}, {e1, e2}}
=============================================================================
