-------------------------- MODULE ProcessLifecycle --------------------------
(***************************************************************************)
(* What the kernel promises for each process: the seven-state life of its   *)
(* PCB together with the place of its memory, and a memory that is never    *)
(* overbooked.  There are no queues, threads, signals or timers here.       *)
(***************************************************************************)
EXTENDS Integers, FiniteSets

CONSTANTS Procs, Initial, Size, MemorySize

VARIABLES state, memory

vars == <<state, memory>>

\* The bytes of user memory that are taken, each with the process it belongs to.
Taken(m) == UNION {{p} \X (1 .. Size[p]) : p \in {r \in Procs : m[r] = "RAM"}}
InRAM(m) == Cardinality(Taken(m))

Init ==
    /\ state = [p \in Procs |-> IF p = Initial THEN "NEW" ELSE "ABSENT"]
    /\ memory = [p \in Procs |-> "none"]

\* p goes from one state and place to another, if the memory has room for it.
Goes(p, from, at, to, ends) ==
    /\ state[p] = from /\ memory[p] = at
    /\ state' = [state EXCEPT ![p] = to]
    /\ memory' = [memory EXCEPT ![p] = ends]
    /\ InRAM(memory') <= MemorySize

Create(p) == Goes(p, "ABSENT", "none", "NEW", "none")
Admit(p) == Goes(p, "NEW", "none", "READY", "RAM")
Dispatch(p) == Goes(p, "READY", "RAM", "EXEC", "RAM")
Block(p) == Goes(p, "EXEC", "RAM", "BLOCKED", "RAM")
Unblock(p) == Goes(p, "BLOCKED", "RAM", "READY", "RAM")
Suspend(p) == Goes(p, "BLOCKED", "RAM", "SUSP_BLOCKED", "RAM")
SwapOut(p) == Goes(p, "SUSP_BLOCKED", "RAM", "SUSP_BLOCKED", "SWAP")
UnblockSuspended(p) == Goes(p, "SUSP_BLOCKED", "SWAP", "SUSP_READY", "SWAP")
SwapIn(p) == Goes(p, "SUSP_READY", "SWAP", "READY", "RAM")
End(p) == Goes(p, "EXEC", "RAM", "EXIT", "RAM")
Release(p) == Goes(p, "EXIT", "RAM", "EXIT", "gone")

Next == \E p \in Procs :
    \/ Create(p) \/ Admit(p) \/ Dispatch(p) \/ Block(p) \/ Unblock(p)
    \/ Suspend(p) \/ SwapOut(p) \/ UnblockSuspended(p) \/ SwapIn(p)
    \/ End(p) \/ Release(p)

Spec == Init /\ [][Next]_vars
=============================================================================
