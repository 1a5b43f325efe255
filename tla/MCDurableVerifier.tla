------------------------- MODULE MCDurableVerifier -------------------------
(***************************************************************************)
(* The verifying direction trusts ka and permits launch.  ka also signs    *)
(* started for another verifier of its own, and kc belongs to a direction  *)
(* this one does not trust.                                                *)
(***************************************************************************)
EXTENDS DurableVerifier, TLC

CONSTANTS ka, kc, launch, started

MCSigns == ka :> {launch, started} @@ kc :> {launch}
Symmetry == Permutations(Caller) \cup Permutations(TokenID)
=============================================================================
