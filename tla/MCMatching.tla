------------------------------ MODULE MCMatching ------------------------------
(* Instances of MatchingEngine.tla for TLC.  a1 and a2 are two orders of one *)
(* participant; x and y are anonymous.  Events also carry the first price    *)
(* above the range.                                                          *)
EXTENDS MatchingEngine

CONSTANTS a1, a2, x, y

ThreeIds == {a1, a2, x}
FourIds  == {a1, a2, x, y}
MCParticipantOf == [id \in OrderIds |-> IF id \in {a1, a2} THEN 1 ELSE 0]
MCInputPrices == 1..(MaxPrice + 1)
=============================================================================
