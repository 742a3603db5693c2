----------------------------- MODULE MCStorage -----------------------------
(* Instances of MemoriaStorage for TLC: pages of two bytes, three or four processes. *)
EXTENDS MemoriaStorage, TLC

CONSTANTS p1, p2, p3, p4

\* Five pages are asked for: more than the frames there are.
TightRequirement == p1 :> 3 @@ p2 :> 2 @@ p3 :> 3
\* Requests that a remainder of the memory seems to satisfy, and one of nothing.
SmallRequirement == p1 :> 1 @@ p2 :> 1 @@ p3 :> 1 @@ p4 :> 0
=============================================================================
