---------------------------- MODULE MCCPUMemory ----------------------------
(* Instances of CPUMemory for TLC: pages of two bytes, tables of two entries. *)
EXTENDS CPUMemory, TLC

CONSTANTS p1, p2, c1, c2, c3

Pages == p1 :> 3 @@ p2 :> 1
TLBSizes == c1 :> 2 @@ c2 :> 1 @@ c3 :> 0
TLBAlgorithms == c1 :> "LRU" @@ c2 :> "FIFO" @@ c3 :> "LRU"
CacheSizes == c1 :> 2 @@ c2 :> 1 @@ c3 :> 0
CacheAlgorithms == c1 :> "CLOCK-M" @@ c2 :> "CLOCK" @@ c3 :> "CLOCK"

Put(a, n) == [kind |-> "write", addr |-> a, size |-> n, bytes |-> [i \in 0 .. n - 1 |-> 1]]
Take(a, n) == [kind |-> "read", addr |-> a, size |-> n]

\* WRITEs and READs over the end of a page; p2 goes past its own end too.
Scripts == p1 :> {Put(1, 4), Put(5, 1), Take(2, 3), Take(3, 2)} @@ p2 :> {Put(1, 2), Take(0, 3)}
=============================================================================
