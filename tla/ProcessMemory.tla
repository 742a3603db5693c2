--------------------------- MODULE ProcessMemory ---------------------------
(***************************************************************************)
(* What the memory module promises to the kernel and the CPUs: every       *)
(* process owns a private run of pages, whose contents only its own writes *)
(* change, wherever the pages happen to be kept.  There is no frame, no    *)
(* free list and no swap file here.                                        *)
(***************************************************************************)
EXTENDS Naturals, Sequences

CONSTANTS Procs,      \* the pids
          PageCount,  \* PageCount[p]: pages that p asked for
          PageValue   \* the contents a page may have

VARIABLES stage,      \* stage[p]: where the kernel's calls have taken p
          contents    \* contents[p]: the pages of p, as p sees them

vars == <<stage, contents>>

Stages == {"NEW", "RAM", "SWAP", "EXIT"}

Init ==
    /\ stage = [p \in Procs |-> "NEW"]
    /\ contents = [p \in Procs |-> <<>>]

\* Frames are not cleared when they change hands: the first contents are any.
Admit(p) ==
    /\ stage[p] = "NEW"
    /\ stage' = [stage EXCEPT ![p] = "RAM"]
    /\ \E pages \in [1..PageCount[p] -> PageValue] :
          contents' = [contents EXCEPT ![p] = pages]

Write(p) ==
    /\ stage[p] = "RAM"
    /\ \E i \in DOMAIN contents[p], page \in PageValue :
          contents' = [contents EXCEPT ![p] = [@ EXCEPT ![i] = page]]
    /\ UNCHANGED stage

SwapOut(p) ==
    /\ stage[p] = "RAM"
    /\ stage' = [stage EXCEPT ![p] = "SWAP"]
    /\ UNCHANGED contents

SwapIn(p) ==
    /\ stage[p] = "SWAP"
    /\ stage' = [stage EXCEPT ![p] = "RAM"]
    /\ UNCHANGED contents

Leave(p) ==
    /\ stage[p] \in {"RAM", "SWAP"}
    /\ stage' = [stage EXCEPT ![p] = "EXIT"]
    /\ contents' = [contents EXCEPT ![p] = <<>>]

Next == \E p \in Procs : Admit(p) \/ Write(p) \/ SwapOut(p) \/ SwapIn(p) \/ Leave(p)

Spec == Init /\ [][Next]_vars
=============================================================================
