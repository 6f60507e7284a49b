---------------------------- MODULE MCReadModels ----------------------------
(* Instance of ReadModels for TLC: two concurrent requests over two guests, *)
(* one of which is reviewed twice and the other only opened.                *)
EXTENDS ReadModels, TLC

CONSTANTS g1, g2

MCMaxReviews == g1 :> 2 @@ g2 :> 0

\* Requests are compared for equality alone.
Symmetry == Permutations(Requests)
=============================================================================
