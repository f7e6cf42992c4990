------------------------------ MODULE MCTools ------------------------------
(***************************************************************************)
(* Two agents in an office and a yard; they follow each other, and the     *)
(* office reaches the yard but not the other way round.                    *)
(***************************************************************************)
EXTENDS Tools, TLC

CONSTANTS a1, a2, office, yard

TwoPlaces == <<office, yard>>
Friends == {<<a1, a2>>, <<a2, a1>>}
OneWay == {<<office, office>>, <<yard, yard>>, <<office, yard>>}
Alike == Permutations(Agents)
=============================================================================
