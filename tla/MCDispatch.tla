----------------------------- MODULE MCDispatch -----------------------------
(* Instances of IODispatch for TLC: devices of one name. *)
EXTENDS IODispatch

CONSTANTS d1, d2, n1

OneName == [d \in Devices |-> n1]
=============================================================================
