------------------------------- MODULE MCTurn -------------------------------
(***************************************************************************)
(* A small instance of Turn: a cafe whose roster is visible and a closed   *)
(* office, where coverage from the cafe to the office is closed and the    *)
(* other way open; two friends in the cafe, one of them without an uplink, and   *)
(* the friend of both in the office.                                       *)
(***************************************************************************)
EXTENDS Turn, TLC

CONSTANTS cafe, office, a1, a2, a3

Apart == (a1 :> cafe) @@ (a2 :> cafe) @@ (a3 :> office)

Friends == {<<a1, a3>>, <<a3, a1>>, <<a2, a3>>, <<a3, a2>>}

OneWay == [e \in Places \X Places |-> e # <<cafe, office>>]
=============================================================================
