----------------------------- MODULE MCCPUCycle -----------------------------
(* Scripts for CPUCycle: a loop-free jump, a creation, IOs before and after other lines. *)
EXTENDS CPUCycle, TLC

CONSTANTS p1, p2, p3

Script(lines) == [n \in 0 .. Cardinality(DOMAIN lines) - 1 |-> lines[n + 1]]
Noop == [op |-> "NOOP"]
IO == [op |-> "IO", device |-> "DISK"]
Exit == [op |-> "EXIT"]

Scripts ==
    p1 :> Script(<<Noop, [op |-> "INIT_PROC", child |-> p2], IO, Exit>>)
    @@ p2 :> Script(<<[op |-> "GOTO", to |-> 2], Exit, Noop, [op |-> "GOTO", to |-> 1]>>)
    @@ p3 :> Script(<<Noop, IO, IO, Exit>>)
=============================================================================
