------------------------------- MODULE MCFarm -------------------------------
(* One job and two workers: a worker that dies, hangs or answers late, and  *)
(* one that reaps and claims.                                               *)
EXTENDS FarmDelivery, TLC

CONSTANTS j1, w1, w2

\* Nothing in FarmDelivery tells one worker from another.
Symmetry == Permutations(Workers)
=============================================================================
