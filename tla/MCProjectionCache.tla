------------------------- MODULE MCProjectionCache -------------------------
(* The readers of ProjectionCache for TLC. *)
EXTENDS ProjectionCache, TLC

Symmetric == Permutations(Readers)

=============================================================================
