----------------------------- MODULE FlatMemory -----------------------------
(***************************************************************************)
(* What READ and WRITE promise to the script of a process: a flat array of *)
(* bytes of its own, which its writes change and its reads return.  There  *)
(* is no page, frame, TLB, cache or swap file here, and it does not matter *)
(* on which CPU an instruction runs.                                       *)
(***************************************************************************)
EXTENDS Naturals

CONSTANTS Procs,  \* the pids
          CPUs,   \* the CPUs
          Byte,   \* the values of a byte
          Size,   \* Size[p]: the bytes that p may address
          NoPid,  \* the pid of a CPU without a process
          None    \* no instruction

VARIABLES store,    \* store[p]: the bytes of p, as its instructions see them
          running,  \* running[c]: the process that CPU c runs
          doing,    \* doing[c]: the READ or WRITE under way
          reply     \* reply[c]: what the last READ has returned so far

vars == <<store, running, doing, reply>>

NoBytes == [a \in {} |-> 0]
Init ==
    /\ store = [p \in Procs |-> NoBytes]
    /\ running = [c \in CPUs |-> NoPid]
    /\ doing = [c \in CPUs |-> None]
    /\ reply = [c \in CPUs |-> NoBytes]

\* The bytes that a new process finds are any.
Admit(p) ==
    /\ store[p] = NoBytes
    /\ store'[p] \in [0 .. Size[p] - 1 -> Byte]
    /\ store' = [store EXCEPT ![p] = store'[p]]
    /\ UNCHANGED <<running, doing, reply>>

Leave(c) ==
    /\ running[c] # NoPid
    /\ store' = [store EXCEPT ![running[c]] = NoBytes]
    /\ running' = [running EXCEPT ![c] = NoPid]
    /\ UNCHANGED <<doing, reply>>

Dispatch(c, p) ==
    /\ running[c] = NoPid
    /\ \A d \in CPUs : running[d] # p
    /\ running' = [running EXCEPT ![c] = p]
    /\ UNCHANGED <<store, doing, reply>>

Release(c) ==
    /\ doing[c] = None
    /\ running' = [running EXCEPT ![c] = NoPid]
    /\ UNCHANGED <<store, doing, reply>>

Begin(c) ==
    /\ running[c] # NoPid /\ doing[c] = None
    /\ doing' = [doing EXCEPT ![c] = doing'[c]]
    /\ reply' = [reply EXCEPT ![c] = NoBytes]
    /\ UNCHANGED <<store, running>>

\* The first n bytes that a WRITE carries are in the array.  It is over when they
\* all are, those that fit.
Write(c) ==
    LET p == running[c]
        w == doing[c]
    IN  /\ w # None /\ w.kind = "write"
        /\ \E n \in 0 .. w.size :
              /\ store' = [store EXCEPT ![p] = [a \in DOMAIN @ |->
                    IF a \in w.addr .. w.addr + n - 1 THEN w.bytes[a - w.addr] ELSE @[a]]]
              /\ \/ UNCHANGED doing
                 \/ /\ n = w.size \/ w.addr + n \notin DOMAIN store[p]
                    /\ doing' = [doing EXCEPT ![c] = None]
        /\ UNCHANGED <<running, reply>>

\* A READ has the first n bytes, as they are in the array.
Read(c) ==
    LET p == running[c]
        r == doing[c]
    IN  /\ r # None /\ r.kind = "read"
        /\ \E n \in 1 .. r.size :
              /\ r.addr + n - 1 \in DOMAIN store[p]
              /\ reply' = [reply EXCEPT ![c] = [i \in 0 .. n - 1 |-> store[p][r.addr + i]]]
              /\ doing' = [doing EXCEPT ![c] = IF n = r.size THEN None ELSE r]
        /\ UNCHANGED <<store, running>>

\* The instruction fails, and the process goes no further.
Fail(c) ==
    /\ doing[c] # None
    /\ doing' = [doing EXCEPT ![c] = None]
    /\ UNCHANGED <<store, running, reply>>

Next ==
    \/ \E p \in Procs : Admit(p)
    \/ \E c \in CPUs, p \in Procs : Dispatch(c, p)
    \/ \E c \in CPUs :
          Leave(c) \/ Release(c) \/ Begin(c) \/ Write(c) \/ Read(c) \/ Fail(c)

Spec == Init /\ [][Next]_vars
=============================================================================
