--------------------------- MODULE MCVerification ---------------------------
(* Two agents in the LGA north, none yet in the LGA south.                 *)
EXTENDS Verification, TLC

CONSTANTS a1, a2, e1, north, south

BothNorth == (a1 :> north) @@ (a2 :> north)

Agents == Permutations(Agent)
=============================================================================
