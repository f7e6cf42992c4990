----------------------------- MODULE MCGroupBus -----------------------------
(***************************************************************************)
(* Small instances of GroupBus. The basement has no self-edge: a coverage  *)
(* row with can_reach = 0 switches the default self-loop off, and whoever  *)
(* is there waits for the sweep.                                           *)
(***************************************************************************)
EXTENDS GroupBus, TLC

CONSTANTS office, basement, a1, a2, g1, g2

OfficeCoverage == {<<office, office>>}

OneGroupRoster == << <<g1, a1>> >>
=============================================================================
