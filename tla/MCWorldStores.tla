--------------------------- MODULE MCWorldStores ---------------------------
(***************************************************************************)
(* Two agents, a symmetric and a directed type that exclude each other, and *)
(* the two types that are projected to the pools; one of them declares that *)
(* it excludes the directed type, which declares nothing of the kind.       *)
(***************************************************************************)
EXTENDS WorldStores

CONSTANTS a1, a2, office, cafe

Friendship ==
    {<<"friend", "enemy">>, <<"enemy", "friend">>, <<"mutual_follow", "enemy">>}
OfficeHome == [a \in Agents |-> office]
SeededEnemies == {<<a1, a2, "enemy">>}
SeededSignal == {<<a1, "signal_uplink">>}
=============================================================================
