----------------------------- MODULE MCKernel -----------------------------
(* Instances of Kernel for TLC: two or three processes, one or two CPUs. *)
EXTENDS Kernel, TLC

CONSTANTS p1, p2, p3

\* Any process fits, and no two of them.
Exclusive == [p \in Procs |-> 2]
\* Two of the three fit together, or the last with either.
Mixed == [p \in Procs |-> IF p = p3 THEN 1 ELSE 2]
=============================================================================
