---------------------------- MODULE MCWorldStep ----------------------------
(***************************************************************************)
(* Small instances of WorldStep: an office and a yard with the self-edges  *)
(* at latency 0 that the boot code writes; the edges between them take one *)
(* tick and lead both ways, or from the office to the yard only.           *)
(***************************************************************************)
EXTENDS WorldStep, TLC

CONSTANTS office, yard, a1, a2, g1

OneGroup == << <<g1, a1>>, <<g1, a2>> >>

Friends == {<<a1, a2>>, <<a2, a1>>}

OpenCoverage == Places \X Places

OneWay == OpenCoverage \ {<<yard, office>>}

OneTickAway == [e \in Coverage |-> IF e[1] = e[2] THEN 0 ELSE 1]

Everybody == {Agents}

Anybody == SUBSET Agents
=============================================================================
