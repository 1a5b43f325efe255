-------------------------- MODULE MCMemoryVerifier --------------------------
\* Instances of MemoryVerifier: one trusted key, one permitted purpose.
EXTENDS MemoryVerifier, TLC

CONSTANTS ka, launch

MCSigns == ka :> {launch}
Symmetry == Permutations(Caller) \cup Permutations(TokenID)
=============================================================================
