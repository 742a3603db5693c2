--------------------------- MODULE LifecycleProofs ---------------------------
(***************************************************************************)
(* Proofs about Kernel as ProcessLifecycle sees it.  Every step moves at    *)
(* most one process from one state and place to another and charges the     *)
(* counter of memoria for it (StepMoves): from this follow the accounting   *)
(* of the memory, which is never overbooked, and the refinement.  The last  *)
(* part is about the threads: Rests says what each of them has found from   *)
(* the moment it stops looking, and is inductive when it is asleep before   *)
(* anything else happens.                                                   *)
(***************************************************************************)
EXTENDS KernelProofs

\* The counter of memoria in a step that takes a process from one place to another.
Charged(p, at, ends) ==
    IF at = ends THEN free' = free
    ELSE IF ends = "RAM" THEN Size[p] <= free /\ free' = free - Size[p]
    ELSE free' = free + Size[p]

Shifts(p, from, at, to, ends) ==
    /\ state[p] = from /\ memory[p] = at
    /\ state' = [state EXCEPT ![p] = to]
    /\ memory' = [memory EXCEPT ![p] = ends]
    /\ Charged(p, at, ends)

\* The moves of a process.  A dispatch that fails is the only one that goes back.
Moves(p) ==
    \/ Shifts(p, "ABSENT", "none", "NEW", "none")
    \/ Shifts(p, "NEW", "none", "READY", "RAM")
    \/ Shifts(p, "READY", "RAM", "EXEC", "RAM")
    \/ Shifts(p, "EXEC", "RAM", "BLOCKED", "RAM")
    \/ Shifts(p, "BLOCKED", "RAM", "READY", "RAM")
    \/ Shifts(p, "BLOCKED", "RAM", "SUSP_BLOCKED", "RAM")
    \/ Shifts(p, "SUSP_BLOCKED", "RAM", "SUSP_BLOCKED", "SWAP")
    \/ Shifts(p, "SUSP_BLOCKED", "SWAP", "SUSP_READY", "SWAP")
    \/ Shifts(p, "SUSP_READY", "SWAP", "READY", "RAM")
    \/ Shifts(p, "EXEC", "RAM", "EXIT", "RAM")
    \/ Shifts(p, "EXIT", "RAM", "EXIT", "gone")
    \/ DispatchFaults /\ Shifts(p, "EXEC", "RAM", "READY", "RAM")

Still == UNCHANGED <<state, memory, free>>

-----------------------------------------------------------------------------
(* One process at a time *)

\* A move that leaves the memory of the process where it is.
LEMMA StateShifts ==
    ASSUME TypeOK, NEW p \in Procs, NEW from, NEW at, NEW to, state[p] = from, memory[p] = at,
           state' = [state EXCEPT ![p] = to], UNCHANGED memoria
    PROVE  Shifts(p, from, at, to, at)
  <1>1. memory' = [memory EXCEPT ![p] = at]
    BY DEF TypeOK, memoria
  <1>2. free' = free
    BY DEF memoria
  <1>. QED BY <1>1, <1>2 DEF Shifts, Charged

\* A move that leaves the state of the process as it is.
LEMMA MemoryShifts ==
    ASSUME TypeOK, NEW p \in Procs, NEW from, NEW at, NEW ends, state[p] = from, memory[p] = at,
           memory' = [memory EXCEPT ![p] = ends], state' = state, Charged(p, at, ends)
    PROVE  Shifts(p, from, at, from, ends)
  <1>1. state' = [state EXCEPT ![p] = from]
    BY DEF TypeOK
  <1>. QED BY <1>1 DEF Shifts

LEMMA StepMoves ==
    ASSUME NoDumps, IInv, RInv, [Next]_vars
    PROVE  Still \/ \E p \in Procs : Moves(p)
  <1>1. TypeOK
    BY DEF IInv
  <1>2. CASE \/ StartLTS \/ LTSYields \/ LTSFindsNothing \/ LTSFinds \/ LTSIsRefused \/ LTSSleeps
    BY <1>2 DEF StartLTS, LTSYields, LTSFindsNothing, LTSFinds, LTSIsRefused, LTSSleeps,
       Still, procs, memoria
  <1>3. CASE \/ STSStarts \/ STSFindsNoProcess \/ STSFindsNoCPU \/ STSDispatches \/ STSSleeps
    BY <1>3 DEF STSStarts, STSFindsNoProcess, STSFindsNoCPU, STSDispatches, STSSleeps,
       Still, procs, memoria
  <1>4. CASE \/ MTSStartsTimers \/ MTSTakes \/ MTSFindsNothing \/ MTSIsRefused \/ MTSSleeps
    BY <1>4 DEF MTSStartsTimers, MTSTakes, MTSFindsNothing, MTSIsRefused, MTSSleeps,
       Still, procs, memoria
  <1>5. CASE LTSInitializes
    <2>1. PICK p \in Procs : p = ltsProc /\ state[p] = "NEW"
      BY <1>5, KernelAssumption DEF IInv, TypeOK, Hands, LTSInitializes
    <2>2. memory[p] = "none"
      BY <2>1 DEF RInv, Resides
    <2>3. Shifts(p, "NEW", "none", "READY", "RAM")
      BY <1>5, <2>1, <2>2 DEF LTSInitializes, Move, Shifts, Charged
    <2>. QED BY <2>3 DEF Moves
  <1>6. CASE STSTakes
    <2>1. PICK p \in Procs : p = stsHand'[1] /\ state[p] = "READY"
      <3>1. Queues(queue) /\ "READY" \in States /\ queue["READY"] # <<>>
        BY <1>6 DEF IInv, Places, States, STSTakes
      <3>2. stsHand'[1] = Head(queue["READY"])
        BY <1>6 DEF STSTakes
      <3>3. Head(queue["READY"]) \in Elements(queue["READY"])
        BY <3>1, PoppedKeeps
      <3>. QED BY <3>1, <3>2, <3>3 DEF IInv, Places
    <2>2. memory[p] = "RAM"
      BY <2>1 DEF RInv, Resides
    <2>3. Shifts(p, "READY", "RAM", "EXEC", "RAM")
      BY <1>1, <1>6, <2>1, <2>2, StateShifts DEF STSTakes
    <2>. QED BY <2>3 DEF Moves
  <1>7. CASE STSDispatchFails
    <2>1. PICK p \in Procs : p = stsHand[1] /\ state[p] = "EXEC"
      BY <1>7, KernelAssumption DEF IInv, TypeOK, Hands, STSDispatchFails
    <2>2. memory[p] = "RAM"
      BY <2>1 DEF RInv, Resides
    <2>3. DispatchFaults /\ Shifts(p, "EXEC", "RAM", "READY", "RAM")
      BY <1>1, <1>7, <2>1, <2>2, StateShifts DEF STSDispatchFails, Move
    <2>. QED BY <2>3 DEF Moves
  <1>8. CASE MTSBringsBack
    <2>1. PICK p \in Procs : p = mtsProc /\ state[p] = "SUSP_READY"
      BY <1>8, KernelAssumption DEF IInv, TypeOK, Hands, MTSBringsBack
    <2>2. Shifts(p, "SUSP_READY", "SWAP", "READY", "RAM")
      BY <1>8, <2>1 DEF MTSBringsBack, Unsuspends, Shifts, Charged
    <2>. QED BY <2>2 DEF Moves
  <1>9. CASE SuspenderEnqueues
    <2>1. PICK p \in Procs : p = suspender.proc /\ state[p] = "BLOCKED"
      BY <1>9, KernelAssumption DEF IInv, TypeOK, Hands, Idle, SuspenderEnqueues
    <2>2. memory[p] = "RAM"
      BY <2>1 DEF RInv, Resides
    <2>3. Shifts(p, "BLOCKED", "RAM", "SUSP_BLOCKED", "RAM")
      BY <1>1, <1>9, <2>1, <2>2, StateShifts DEF SuspenderEnqueues
    <2>. QED BY <2>3 DEF Moves
  <1>10. CASE SuspenderRequests
    <2>1. PICK p \in Procs : p = suspender.proc /\ Asks(p)
      BY <1>10 DEF IInv, Hands, Idle, Asks, SuspenderRequests
    <2>2. state[p] = "SUSP_BLOCKED" /\ memory[p] = "RAM"
      BY <2>1 DEF RInv, Resides
    <2>3. /\ memory' = [memory EXCEPT ![p] = "SWAP"]
          /\ state' = state /\ free' = free + Size[p]
      BY <1>10, <2>1, <2>2 DEF SuspenderRequests, Given, procs
    <2>4. Charged(p, "RAM", "SWAP")
      BY <2>3 DEF Charged
    <2>5. Shifts(p, "SUSP_BLOCKED", "RAM", "SUSP_BLOCKED", "SWAP")
      BY <1>1, <2>2, <2>3, <2>4, MemoryShifts
    <2>. QED BY <2>5 DEF Moves
  <1>11. CASE Timers
    BY <1>11 DEF Timers, TimerFires, Still, memoria
  <1>12. CASE \E c \in CPUs : ReceiveCPU(c)
    BY <1>12 DEF ReceiveCPU, Still, procs, memoria
  <1>13. CASE \E c \in CPUs : SyscallIO(c)
    <2>1. PICK p \in Procs : state[p] = "EXEC" /\ state' = [state EXCEPT ![p] = "BLOCKED"]
                             /\ UNCHANGED memoria
      BY <1>13 DEF SyscallIO, Executes, Blocks, Move
    <2>2. memory[p] = "RAM"
      BY <2>1 DEF RInv, Resides
    <2>3. Shifts(p, "EXEC", "RAM", "BLOCKED", "RAM")
      BY <1>1, <2>1, <2>2, StateShifts
    <2>. QED BY <2>3 DEF Moves
  <1>14. CASE \E c \in CPUs : SyscallMissingDevice(c) \/ SyscallExit(c) \/ ResultExit(c)
    <2>1. PICK p \in Procs : state[p] = "EXEC" /\ state' = [state EXCEPT ![p] = "EXIT"]
                             /\ UNCHANGED memoria
      BY <1>14 DEF SyscallMissingDevice, SyscallExit, ResultExit, Executes, Exits
    <2>2. memory[p] = "RAM"
      BY <2>1 DEF RInv, Resides
    <2>3. Shifts(p, "EXEC", "RAM", "EXIT", "RAM")
      BY <1>1, <2>1, <2>2, StateShifts
    <2>. QED BY <2>3 DEF Moves
  <1>15. CASE \E c \in CPUs : SyscallDump(c)
    BY <1>15 DEF SyscallDump, NoDumps
  <1>16. CASE \E c \in CPUs : SyscallInitProc(c)
    <2>1. PICK p \in Procs : state[p] = "ABSENT" /\ state' = [state EXCEPT ![p] = "NEW"]
                             /\ UNCHANGED memoria
      BY <1>16 DEF SyscallInitProc
    <2>2. memory[p] = "none"
      BY <2>1 DEF RInv, Resides
    <2>3. Shifts(p, "ABSENT", "none", "NEW", "none")
      BY <1>1, <2>1, <2>2, StateShifts
    <2>. QED BY <2>3 DEF Moves
  <1>17. CASE \E p \in Procs : TerminateProcess(p)
    <2>1. PICK p \in Procs :
            /\ deleting[p] # "no" /\ state[p] = "EXIT" /\ UNCHANGED state
            /\ memory' = [memory EXCEPT ![p] = "gone"] /\ free' = free + Size[p]
      BY <1>17 DEF TerminateProcess, Given, IInv, Ends, procs
    <2>2. memory[p] = "RAM"
      BY <2>1 DEF RInv, Resides
    <2>3. Charged(p, "RAM", "gone")
      BY <2>1 DEF Charged
    <2>4. Shifts(p, "EXIT", "RAM", "EXIT", "gone")
      BY <1>1, <2>1, <2>2, <2>3, MemoryShifts
    <2>. QED BY <2>4 DEF Moves
  <1>18. CASE \E p \in Procs : HandleIOFinished(p)
    <2>1. PICK p \in Procs : HandleIOFinished(p)
      BY <1>18
    <2>2. MTSQueue[p] = "io" /\ ~Asks(p) /\ UNCHANGED memoria
      BY <2>1 DEF HandleIOFinished, MutexFree, Idle, Asks
    <2>3. state[p] \in {"BLOCKED", "SUSP_BLOCKED"}
      BY <2>2 DEF RInv, Resides
    <2>4. CASE state[p] = "BLOCKED"
      <3>1. memory[p] = "RAM" /\ state' = [state EXCEPT ![p] = "READY"]
        BY <2>1, <2>4 DEF RInv, Resides, HandleIOFinished, Move
      <3>2. Shifts(p, "BLOCKED", "RAM", "READY", "RAM")
        BY <1>1, <2>2, <2>4, <3>1, StateShifts
      <3>. QED BY <3>2 DEF Moves
    <2>5. CASE state[p] = "SUSP_BLOCKED"
      <3>1. memory[p] = "SWAP" /\ state' = [state EXCEPT ![p] = "SUSP_READY"]
        BY <2>1, <2>2, <2>5 DEF RInv, Resides, HandleIOFinished, Move
      <3>2. Shifts(p, "SUSP_BLOCKED", "SWAP", "SUSP_READY", "SWAP")
        BY <1>1, <2>2, <2>5, <3>1, StateShifts
      <3>. QED BY <3>2 DEF Moves
    <2>. QED BY <2>3, <2>4, <2>5
  <1>19. CASE \E p \in Procs : DumpEnds(p)
    BY <1>19 DEF RInv, DumpEnds, DumpForgotten, DumpSucceeds, DumpFails
  <1>20. CASE UNCHANGED vars
    BY <1>20 DEF vars, procs, memoria, Still
  <1>. QED
    BY <1>2, <1>3, <1>4, <1>5, <1>6, <1>7, <1>8, <1>9, <1>10, <1>11, <1>12, <1>13, <1>14,
       <1>15, <1>16, <1>17, <1>18, <1>19, <1>20 DEF Next, LTS, STS, MTS, Suspender, CPUCalls

-----------------------------------------------------------------------------
(* The memory that is taken *)

\* The cardinality that ProcessLifecycle takes is the one of FiniteSets.
LEMMA TakenCount ==
    ASSUME NEW m
    PROVE  Lifecycle!InRAM(m) = Cardinality(Lifecycle!Taken(m))
  BY DEF Lifecycle!InRAM, Lifecycle!Cardinality, Cardinality

\* The bytes of one process.
LEMMA BytesOfOne ==
    ASSUME NEW p \in Procs
    PROVE  IsFiniteSet({p} \X (1 .. Size[p])) /\ Cardinality({p} \X (1 .. Size[p])) = Size[p]
  <1>1. Size[p] \in Nat
    BY KernelAssumption
  <1>2. IsFiniteSet(1 .. Size[p]) /\ Cardinality(1 .. Size[p]) = Size[p]
    <2>1. 1 \in Int /\ Size[p] \in Int
      BY <1>1
    <2>2. /\ IsFiniteSet(1 .. Size[p])
          /\ Cardinality(1 .. Size[p]) = IF 1 > Size[p] THEN 0 ELSE Size[p] - 1 + 1
      BY <2>1, FS_Interval, Zenon
    <2>. QED BY <1>1, <2>2
  <1>3. IsFiniteSet({p}) /\ Cardinality({p}) = 1
    BY FS_Singleton
  <1>4. /\ IsFiniteSet({p} \X (1 .. Size[p]))
        /\ Cardinality({p} \X (1 .. Size[p])) = Cardinality({p}) * Cardinality(1 .. Size[p])
    BY <1>2, <1>3, FS_Product
  <1>. QED BY <1>1, <1>2, <1>3, <1>4

\* A process more in memory: what is taken grows by its size.
LEMMA TakenGrows ==
    ASSUME NEW m, NEW n, NEW p \in Procs, m[p] # "RAM", n[p] = "RAM",
           \A r \in Procs : r # p => n[r] = m[r],
           IsFiniteSet(Lifecycle!Taken(m)) \/ IsFiniteSet(Lifecycle!Taken(n))
    PROVE  /\ IsFiniteSet(Lifecycle!Taken(m)) /\ IsFiniteSet(Lifecycle!Taken(n))
           /\ Lifecycle!InRAM(m) \in Nat
           /\ Lifecycle!InRAM(n) = Lifecycle!InRAM(m) + Size[p]
  <1> DEFINE M == Lifecycle!Taken(m)
             N == Lifecycle!Taken(n)
             B == {p} \X (1 .. Size[p])
  <1>1. N = M \union B
    BY DEF Lifecycle!Taken
  <1>2. M \intersect B = {}
    BY DEF Lifecycle!Taken
  <1>3. IsFiniteSet(B) /\ Cardinality(B) = Size[p]
    BY BytesOfOne
  <1>. HIDE DEF M, N, B
  <1>4. IsFiniteSet(M)
    <2>1. CASE IsFiniteSet(N)
      BY <1>1, <2>1, FS_Subset
    <2>. QED BY <2>1 DEF M, N
  <1>5. /\ IsFiniteSet(N)
        /\ Cardinality(N) = Cardinality(M) + Cardinality(B) - Cardinality(M \intersect B)
    BY <1>1, <1>3, <1>4, FS_Union
  <1>6. Cardinality(M \intersect B) = 0
    BY <1>2, FS_EmptySet
  <1>7. Cardinality(M) \in Nat
    BY <1>4, FS_CardinalityType
  <1>8. Size[p] \in Nat
    BY KernelAssumption
  <1>9. Cardinality(N) = Cardinality(M) + Size[p]
    BY <1>3, <1>5, <1>6, <1>7, <1>8
  <1>10. Lifecycle!InRAM(m) = Cardinality(M) /\ Lifecycle!InRAM(n) = Cardinality(N)
    BY TakenCount DEF M, N
  <1>. QED BY <1>4, <1>5, <1>7, <1>9, <1>10 DEF M, N

\* What is taken depends on who is in memory alone.
LEMMA TakenStays ==
    ASSUME NEW m, NEW n, \A r \in Procs : m[r] = "RAM" <=> n[r] = "RAM"
    PROVE  Lifecycle!Taken(n) = Lifecycle!Taken(m) /\ Lifecycle!InRAM(n) = Lifecycle!InRAM(m)
  <1>1. {r \in Procs : m[r] = "RAM"} = {r \in Procs : n[r] = "RAM"}
    OBVIOUS
  <1>2. Lifecycle!Taken(n) = Lifecycle!Taken(m)
    BY <1>1 DEF Lifecycle!Taken
  <1>. QED BY <1>2 DEF Lifecycle!InRAM

\* MemoryAccounted, with the finiteness that makes it a count.
Accounted == IsFiniteSet(Lifecycle!Taken(memory)) /\ MemoryAccounted

LEMMA ShiftAccounts ==
    ASSUME TypeOK, Accounted, NEW p \in Procs, NEW from, NEW to,
           NEW at \in {"none", "RAM", "SWAP", "gone"}, NEW ends \in {"none", "RAM", "SWAP", "gone"},
           at = ends \/ (at = "RAM" \/ ends = "RAM"), Shifts(p, from, at, to, ends)
    PROVE  Accounted'
  <1>1. /\ memory[p] = at /\ memory'[p] = ends
        /\ \A r \in Procs : r # p => memory'[r] = memory[r]
    BY DEF TypeOK, Shifts
  <1>2. Size[p] \in Nat /\ MemorySize \in Nat
    BY KernelAssumption
  <1>3. /\ IsFiniteSet(Lifecycle!Taken(memory))
        /\ free = MemorySize - Lifecycle!InRAM(memory) /\ free >= 0 /\ free \in Int
    BY DEF TypeOK, Accounted, MemoryAccounted
  <1>4. Lifecycle!InRAM(memory) \in Nat
    BY <1>3, FS_CardinalityType, TakenCount
  <1>5. CASE at = ends
    <2>1. /\ Lifecycle!Taken(memory') = Lifecycle!Taken(memory)
          /\ Lifecycle!InRAM(memory') = Lifecycle!InRAM(memory)
      BY <1>1, <1>5, TakenStays
    <2>2. free' = free
      BY <1>5 DEF Shifts, Charged
    <2>. QED BY <1>3, <2>1, <2>2 DEF Accounted, MemoryAccounted, Lifecycle!Taken, Lifecycle!InRAM
  <1>6. CASE at # ends /\ ends = "RAM"
    <2>1. /\ IsFiniteSet(Lifecycle!Taken(memory'))
          /\ Lifecycle!InRAM(memory') = Lifecycle!InRAM(memory) + Size[p]
      BY <1>1, <1>3, <1>6, TakenGrows
    <2>2. Size[p] <= free /\ free' = free - Size[p]
      BY <1>6 DEF Shifts, Charged
    <2>3. free' = MemorySize - Lifecycle!InRAM(memory') /\ free' >= 0
      BY <1>2, <1>3, <1>4, <2>1, <2>2
    <2>. QED BY <2>1, <2>3 DEF Accounted, MemoryAccounted, Lifecycle!Taken, Lifecycle!InRAM
  <1>7. CASE at # ends /\ at = "RAM"
    <2>1. /\ IsFiniteSet(Lifecycle!Taken(memory')) /\ Lifecycle!InRAM(memory') \in Nat
          /\ Lifecycle!InRAM(memory) = Lifecycle!InRAM(memory') + Size[p]
      BY <1>1, <1>3, <1>7, TakenGrows
    <2>2. free' = free + Size[p]
      BY <1>7 DEF Shifts, Charged
    <2>3. free' = MemorySize - Lifecycle!InRAM(memory') /\ free' >= 0
      BY <1>2, <1>3, <2>1, <2>2
    <2>. QED BY <2>1, <2>3 DEF Accounted, MemoryAccounted, Lifecycle!Taken, Lifecycle!InRAM
  <1>. QED BY <1>5, <1>6, <1>7

LEMMA AccountedStep ==
    ASSUME NoDumps, IInv, RInv, Accounted, [Next]_vars
    PROVE  Accounted'
  <1>1. TypeOK
    BY DEF IInv
  <1>2. CASE Still
    BY <1>2 DEF Still, Accounted, MemoryAccounted, Lifecycle!Taken, Lifecycle!InRAM
  <1>3. CASE \E p \in Procs : Moves(p)
    <2>1. PICK p \in Procs : Moves(p)
      BY <1>3
    <2>2. \E from, to, at, ends \in States \union {"ABSENT", "none", "RAM", "SWAP", "gone"} :
             /\ {at, ends} \subseteq {"none", "RAM", "SWAP", "gone"}
             /\ at = ends \/ (at = "RAM" \/ ends = "RAM")
             /\ Shifts(p, from, at, to, ends)
      BY <2>1 DEF Moves, States
    <2>. QED BY <1>1, <2>2, ShiftAccounts
  <1>. QED BY <1>2, <1>3, StepMoves

LEMMA AccountedInit ==
    ASSUME Init
    PROVE  Accounted
  <1>1. Lifecycle!Taken(memory) = {}
    BY DEF Init, Lifecycle!Taken
  <1>2. IsFiniteSet(Lifecycle!Taken(memory)) /\ Lifecycle!InRAM(memory) = 0
    BY <1>1, FS_EmptySet, TakenCount
  <1>. QED BY <1>2, KernelAssumption DEF Init, Accounted, MemoryAccounted

LEMMA AccountedInvariance == ASSUME NoDumps PROVE Spec => []Accounted
  <1>1. Init => Accounted
    BY AccountedInit
  <1>2. IInv /\ RInv /\ Accounted /\ [Next]_vars => Accounted'
    BY AccountedStep
  <1>. QED BY <1>1, <1>2, Invariance, ResidencyInvariance, PTL DEF Spec

\* Memory is given out once and taken back once, and never more than there is, over
\* admissions, suspensions, returns and ends of any number of processes.
THEOREM MemoryIsNeverOverbooked == ASSUME NoDumps PROVE Spec => []MemoryAccounted
  <1>1. Accounted => MemoryAccounted
    BY DEF Accounted
  <1>. QED BY <1>1, AccountedInvariance, PTL

-----------------------------------------------------------------------------
(* The refinement *)

\* Every dispatch to a CPU is accepted.
NoFaults == ~DispatchFaults

\* The room that the next state has left is the room that the move needed.
LEMMA ShiftGoes ==
    ASSUME TypeOK, Accounted', free' \in Int, NEW p, NEW from, NEW to, NEW at, NEW ends,
           Shifts(p, from, at, to, ends)
    PROVE  Lifecycle!Goes(p, from, at, to, ends)
  <1>1. /\ IsFiniteSet(Lifecycle!Taken(memory'))
        /\ free' = MemorySize - Lifecycle!InRAM(memory') /\ free' >= 0
    BY DEF Accounted, MemoryAccounted, Lifecycle!Taken, Lifecycle!InRAM
  <1>2. Lifecycle!InRAM(memory') \in Nat
    BY <1>1, FS_CardinalityType, TakenCount
  <1>3. Lifecycle!InRAM(memory') <= MemorySize
    BY <1>1, <1>2, KernelAssumption
  <1>. QED BY <1>3 DEF Shifts, Lifecycle!Goes

LEMMA StepFollows ==
    ASSUME NoDumps, NoFaults, IInv, IInv', RInv, Accounted, Accounted', [Next]_vars
    PROVE  [Lifecycle!Next]_(Lifecycle!vars)
  <1>1. TypeOK /\ free' \in Int
    BY DEF IInv, TypeOK
  <1>2. CASE Still
    BY <1>2 DEF Still, Lifecycle!vars
  <1>3. CASE \E p \in Procs : Moves(p)
    <2>1. PICK p \in Procs : Moves(p)
      BY <1>3
    <2>2. \A from, at, to, ends :
             Shifts(p, from, at, to, ends) => Lifecycle!Goes(p, from, at, to, ends)
      BY <1>1, ShiftGoes
    <2>3. \/ Lifecycle!Create(p) \/ Lifecycle!Admit(p) \/ Lifecycle!Dispatch(p)
          \/ Lifecycle!Block(p) \/ Lifecycle!Unblock(p) \/ Lifecycle!Suspend(p)
          \/ Lifecycle!SwapOut(p) \/ Lifecycle!UnblockSuspended(p) \/ Lifecycle!SwapIn(p)
          \/ Lifecycle!End(p) \/ Lifecycle!Release(p)
      BY <2>1, <2>2, Zenon DEF Moves, NoFaults, Lifecycle!Create, Lifecycle!Admit,
         Lifecycle!Dispatch, Lifecycle!Block, Lifecycle!Unblock, Lifecycle!Suspend,
         Lifecycle!SwapOut, Lifecycle!UnblockSuspended, Lifecycle!SwapIn, Lifecycle!End,
         Lifecycle!Release
    <2>. QED BY <2>3 DEF Lifecycle!Next
  <1>. QED BY <1>2, <1>3, StepMoves

\* The queues, threads, signals, timers and handlers of the kernel together give each process
\* the life that ProcessLifecycle promises, with a memory that always has room for it.
THEOREM KernelFollowsLifecycle == ASSUME NoDumps, NoFaults PROVE Spec => FollowsLifecycle
  <1>1. Init => Lifecycle!Init
    BY DEF Init, Lifecycle!Init
  <1>2. IInv /\ IInv' /\ RInv /\ Accounted /\ Accounted' /\ [Next]_vars
           => [Lifecycle!Next]_(Lifecycle!vars)
    BY StepFollows
  <1>. QED BY <1>1, <1>2, Invariance, ResidencyInvariance, AccountedInvariance, PTL
           DEF Spec, FollowsLifecycle, Lifecycle!Spec

-----------------------------------------------------------------------------
(* The three threads: nobody sleeps over work *)

\* A thread that has found nothing to do is asleep before anything else happens.
Prompt == ShortGaps

\* What each thread has found and still holds, from the moment it stops looking.
STSRests ==
    /\ sts \in {"empty", "toEmpty"} => queue["READY"] = <<>>
    /\ sts \in {"cpu", "toCPU"} => FreeCPUs = {}
    /\ sts \in {"first", "toFirst"} => AvailableCPUs = <<>>
LTSRests ==
    /\ lts \in {"empty", "toEmpty"} => queue["NEW"] = <<>>
    /\ lts = "init" => queue["NEW"] # <<>> /\ Size[ltsProc] <= Size[Head(queue["NEW"])]
MTSRests ==
    mts \in {"wait", "toWait"} =>
        /\ queue["SUSP_READY"] # <<>> => \E p \in Elements(queue["SUSP_READY"]) : Size[p] > free
        /\ lts \in {"resume", "toResume"} => queue["SUSP_READY"] # <<>>
        /\ lts \in {"retry", "toRetry"} /\ queue["SUSP_READY"] = <<>> =>
              queue["NEW"] # <<>> /\ Size[Head(queue["NEW"])] > free
Rests == STSRests /\ LTSRests /\ MTSRests

LEMMA EnqueuedElsewhere ==
    ASSUME NEW q, Queues(q), NEW s \in States, NEW p
    PROVE  /\ \A t \in States : t # s => Enqueued(q, s, p)[t] = q[t]
           /\ Enqueued(q, s, p)[s] = Append(q[s], p)
  BY DEF Queues, Enqueued

LEMMA RemovedElsewhere ==
    ASSUME NEW q, Queues(q), NEW s \in States, NEW p
    PROVE  \A t \in States : t # s => Removed(q, s, p)[t] = q[t]
  BY DEF Queues, Removed

LEMMA MovedElsewhere ==
    ASSUME NEW q, Queues(q), NEW from \in States, NEW to \in States, NEW p
    PROVE  \A t \in States : t # from /\ t # to => Moved(q, from, to, p)[t] = q[t]
  BY DEF Queues, Moved, Enqueued

LEMMA AppendBehind ==
    ASSUME NEW S, NEW q \in Seq(S), NEW x \in S
    PROVE  /\ Append(q, x) # <<>> /\ x \in Elements(Append(q, x))
           /\ q # <<>> => Head(Append(q, x)) = Head(q)
  <1> DEFINE a == Append(q, x)
  <1>1. Len(q) \in Nat /\ Len(a) = Len(q) + 1 /\ a \in Seq(S)
    BY DEF a
  <1>2. /\ DOMAIN a = 1 .. Len(q) + 1 /\ a[Len(q) + 1] = x
        /\ \A i \in 1 .. Len(q) : a[i] = q[i]
    BY <1>1
  <1>3. a # <<>>
    BY <1>1
  <1>4. x \in Elements(a)
    <2>1. Len(q) + 1 \in DOMAIN a
      BY <1>1, <1>2
    <2>. QED BY <1>2, <2>1 DEF Elements
  <1>5. q # <<>> => Head(a) = Head(q)
    <2>1. q # <<>> => 1 \in 1 .. Len(q)
      BY <1>1
    <2>2. Head(a) = a[1]
      BY <1>3
    <2>3. q # <<>> => Head(q) = q[1]
      OBVIOUS
    <2>. QED BY <1>2, <2>1, <2>2, <2>3
  <1>. QED BY <1>3, <1>4, <1>5

\* Under Prompt, what can happen while a thread falls asleep is that it does.
LEMMA NobodyInGap ==
    ASSUME Prompt, Running
    PROVE  /\ lts \notin {"toResume", "toEmpty", "toRetry"}
           /\ sts \notin {"toFirst", "toEmpty", "toCPU"}
           /\ mts # "toWait"
  BY DEF Prompt, Running, InGap

-----------------------------------------------------------------------------
(* STS *)

LEMMA STSQuiet ==
    ASSUME STSRests, UNCHANGED cpus, queue'["READY"] = queue["READY"],
           sts' = sts \/ sts' \notin {"empty", "toEmpty", "cpu", "toCPU", "first", "toFirst"}
    PROVE  STSRests'
  <1>1. FreeCPUs' = FreeCPUs /\ AvailableCPUs' = AvailableCPUs
    BY DEF FreeCPUs, cpus
  <1>. QED BY <1>1 DEF STSRests

LEMMA STSStep ==
    ASSUME NoDumps, Prompt, IInv, RInv, STSRests, [Next]_vars
    PROVE  STSRests'
  <1>1. /\ Queues(queue) /\ "READY" \in States
        /\ {"NEW", "EXEC", "BLOCKED", "SUSP_BLOCKED", "SUSP_READY", "EXIT"} \subseteq States
    BY DEF IInv, Places, States
  <1>2. /\ \A s \in States : \A p : s # "READY" => Enqueued(queue, s, p)["READY"] = queue["READY"]
        /\ \A s, t \in States : \A p : s # "READY" /\ t # "READY" =>
              Moved(queue, s, t, p)["READY"] = queue["READY"]
    BY <1>1, EnqueuedElsewhere, MovedElsewhere
  <1>3. \A s \in States : \A p : s # "READY" => Removed(queue, s, p)["READY"] = queue["READY"]
    BY <1>1, RemovedElsewhere
  <1>4. CASE \/ StartLTS \/ LTSYields \/ LTSFinds \/ LTSIsRefused \/ LTSSleeps
             \/ MTSStartsTimers \/ MTSFindsNothing \/ MTSSleeps \/ SuspenderRequests
             \/ UNCHANGED vars
    BY <1>4, STSQuiet DEF StartLTS, LTSYields, LTSFinds, LTSIsRefused, LTSSleeps,
       MTSStartsTimers, MTSFindsNothing, MTSSleeps, SuspenderRequests, vars, procs, STSvars
  <1>5. CASE LTSFindsNothing
    BY <1>5, STSQuiet DEF LTSFindsNothing, SignalSTSEmpty, procs
  <1>6. CASE LTSInitializes
    <2>1. sts' \notin {"empty", "toEmpty", "toCPU", "toFirst"} /\ UNCHANGED cpus
          /\ sts' \in {sts, "top"}
      BY <1>6, NobodyInGap DEF LTSInitializes, SignalSTSEmpty
    <2>2. FreeCPUs' = FreeCPUs /\ AvailableCPUs' = AvailableCPUs
      BY <2>1 DEF FreeCPUs, cpus
    <2>. QED BY <2>1, <2>2 DEF STSRests
  <1>7. CASE STSStarts
    BY <1>7 DEF STSStarts, STSRests, cpus
  <1>8. CASE \/ STSTakes \/ STSDispatches \/ STSDispatchFails
    BY <1>8 DEF STSTakes, STSDispatches, STSDispatchFails, STSRests
  <1>9. CASE STSFindsNoProcess
    BY <1>9 DEF STSFindsNoProcess, STSRests, procs
  <1>10. CASE STSFindsNoCPU
    <2>1. FreeCPUs' = {}
      BY <1>10 DEF STSFindsNoCPU, FreeCPUs, cpus
    <2>. QED BY <1>10, <2>1 DEF STSFindsNoCPU, STSRests
  <1>11. CASE STSSleeps
    <2>1. FreeCPUs' = FreeCPUs /\ AvailableCPUs' = AvailableCPUs /\ queue' = queue
      BY <1>11 DEF STSSleeps, FreeCPUs, cpus, procs
    <2>. QED BY <1>11, <2>1 DEF STSSleeps, STSRests
  <1>12. CASE MTSTakes \/ MTSIsRefused
    <2>1. \/ queue' = Removed(queue, "SUSP_READY", mtsProc')
          \/ queue' = Enqueued(queue, "SUSP_READY", mtsProc)
      BY <1>12 DEF MTSTakes, MTSIsRefused, Removed
    <2>2. queue'["READY"] = queue["READY"]
      BY <1>1, <1>2, <1>3, <2>1
    <2>. QED BY <1>12, <2>2, STSQuiet DEF MTSTakes, MTSIsRefused, STSvars
  <1>13. CASE MTSBringsBack
    <2>1. sts' \notin {"empty", "toEmpty", "cpu", "toCPU", "first", "toFirst"}
      BY <1>13, NobodyInGap DEF MTSBringsBack, UnlockSTS
    <2>. QED BY <2>1 DEF STSRests
  <1>14. CASE Timers
    <2>1. PICK p \in Procs, n \in 1 .. MaxCalls : TimerFires(p, n)
      BY <1>14 DEF Timers
    <2>2. queue' \in {queue, Removed(queue, "BLOCKED", p)}
      BY <2>1 DEF TimerFires, Removed
    <2>3. queue'["READY"] = queue["READY"]
      BY <1>1, <1>3, <2>2
    <2>. QED BY <2>1, <2>3, STSQuiet DEF TimerFires, STSvars
  <1>15. CASE SuspenderEnqueues
    BY <1>1, <1>2, <1>15, STSQuiet DEF SuspenderEnqueues, STSvars
  <1>16. CASE \E c \in CPUs : ReceiveCPU(c)
    <2>1. /\ sts' \notin {"cpu", "toCPU", "first", "toFirst", "toEmpty"} /\ sts' \in {sts, "top"}
          /\ queue' = queue
      BY <1>16, NobodyInGap DEF ReceiveCPU, SignalCpuAvailable, procs
    <2>. QED BY <2>1 DEF STSRests
  <1>17. CASE \E c \in CPUs : SyscallIO(c) \/ ResultExit(c)
    <2>1. /\ sts' \notin {"cpu", "toCPU", "first", "toFirst", "toEmpty"} /\ sts' \in {sts, "top"}
          /\ \E p \in Procs, t \in {"BLOCKED", "EXIT"} : queue' = Moved(queue, "EXEC", t, p)
      BY <1>17, NobodyInGap DEF SyscallIO, ResultExit, Blocks, Exits, Move, SignalCpuAvailable
    <2>2. queue'["READY"] = queue["READY"]
      BY <1>1, <1>2, <2>1
    <2>. QED BY <2>1, <2>2 DEF STSRests
  <1>18. CASE \E c \in CPUs : SyscallMissingDevice(c) \/ SyscallExit(c)
    <2>1. PICK p \in Procs : queue' = Moved(queue, "EXEC", "EXIT", p)
      BY <1>18 DEF SyscallMissingDevice, SyscallExit, Exits
    <2>2. queue'["READY"] = queue["READY"]
      BY <1>1, <1>2, <2>1
    <2>. QED BY <1>18, <2>2, STSQuiet DEF SyscallMissingDevice, SyscallExit, STSvars
  <1>19. CASE \E c \in CPUs : SyscallInitProc(c)
    BY <1>1, <1>2, <1>19, STSQuiet DEF SyscallInitProc, STSvars
  <1>20. CASE \E c \in CPUs : SyscallDump(c)
    BY <1>20 DEF SyscallDump, NoDumps
  <1>21. CASE \E p \in Procs : TerminateProcess(p)
    <2>1. queue' = queue /\ AvailableCPUs' = AvailableCPUs
      BY <1>21 DEF TerminateProcess, procs
    <2>2. CASE UNCHANGED <<cpu, sts>>
      BY <2>1, <2>2, STSQuiet DEF cpus
    <2>3. CASE sts' \notin {"cpu", "toCPU", "toFirst", "toEmpty"} /\ sts' \in {sts, "top"}
      BY <2>1, <2>3 DEF STSRests
    <2>. QED BY <1>21, <2>2, <2>3, NobodyInGap DEF TerminateProcess, SignalCpuAvailable
  <1>22. CASE \E p \in Procs : HandleIOFinished(p)
    <2>1. PICK p \in Procs : HandleIOFinished(p)
      BY <1>22
    <2>2. CASE state[p] = "BLOCKED"
      <3>1. sts' \notin {"empty", "toEmpty", "cpu", "toCPU", "first", "toFirst"}
        BY <2>1, <2>2, NobodyInGap DEF HandleIOFinished, UnlockSTS
      <3>. QED BY <3>1 DEF STSRests
    <2>3. CASE state[p] # "BLOCKED"
      <3>1. sts' = sts /\ UNCHANGED cpus
            /\ queue' \in {queue, Moved(queue, "SUSP_BLOCKED", "SUSP_READY", p)}
        BY <2>1, <2>3 DEF HandleIOFinished, Move
      <3>2. queue'["READY"] = queue["READY"]
        BY <1>1, <1>2, <3>1
      <3>. QED BY <3>1, <3>2, STSQuiet
    <2>. QED BY <2>2, <2>3
  <1>23. CASE \E p \in Procs : DumpEnds(p)
    BY <1>23 DEF RInv, DumpEnds, DumpForgotten, DumpSucceeds, DumpFails
  <1>. QED
    BY <1>4, <1>5, <1>6, <1>7, <1>8, <1>9, <1>10, <1>11, <1>12, <1>13, <1>14, <1>15, <1>16,
       <1>17, <1>18, <1>19, <1>20, <1>21, <1>22, <1>23
       DEF Next, LTS, STS, MTS, Suspender, CPUCalls

-----------------------------------------------------------------------------
(* LTS *)

LEMMA LTSQuiet ==
    ASSUME LTSRests, queue'["NEW"] = queue["NEW"],
           UNCHANGED LTSvars \/ lts' \notin {"empty", "toEmpty", "init"}
    PROVE  LTSRests'
  BY DEF LTSRests, LTSvars

\* The head is no smaller than the candidate.
LEMMA CandidateIsLeast ==
    ASSUME Queues(queue), NEW s \in States, NEW p \in Candidates(s)
    PROVE  queue[s] # <<>> /\ Size[p] <= Size[Head(queue[s])]
  <1>1. p \in Elements(queue[s]) /\ Elements(queue[s]) \subseteq Procs /\ queue[s] \in Seq(Procs)
    BY CandidatesWait, ElementsAreProcs DEF Queues
  <1>2. queue[s] # <<>>
    BY <1>1 DEF Elements
  <1>3. Head(queue[s]) \in Elements(queue[s])
    BY <1>2, PoppedKeeps
  <1>4. p = Head(queue[s]) \/ \A r \in Elements(queue[s]) : Size[p] <= Size[r]
    BY DEF Candidates
  <1>5. Size[p] \in Nat
    BY <1>1, KernelAssumption
  <1>. QED BY <1>2, <1>3, <1>4, <1>5

LEMMA LTSStep ==
    ASSUME NoDumps, Prompt, IInv, RInv, LTSRests, [Next]_vars
    PROVE  LTSRests'
  <1>1. /\ Queues(queue) /\ "NEW" \in States /\ queue["NEW"] \in Seq(Procs)
        /\ {"READY", "EXEC", "BLOCKED", "SUSP_BLOCKED", "SUSP_READY", "EXIT"} \subseteq States
    BY DEF IInv, Places, Queues, States
  <1>2. /\ \A s \in States : \A p : s # "NEW" => Enqueued(queue, s, p)["NEW"] = queue["NEW"]
        /\ \A s, t \in States : \A p : s # "NEW" /\ t # "NEW" =>
              Moved(queue, s, t, p)["NEW"] = queue["NEW"]
    BY <1>1, EnqueuedElsewhere, MovedElsewhere
  <1>3. \A s \in States : \A p : s # "NEW" => Removed(queue, s, p)["NEW"] = queue["NEW"]
    BY <1>1, RemovedElsewhere
  <1>4. CASE \/ STSStarts \/ STSFindsNoProcess \/ STSFindsNoCPU \/ STSDispatches \/ STSSleeps
             \/ MTSStartsTimers \/ MTSSleeps \/ SuspenderRequests
             \/ (\E c \in CPUs : ReceiveCPU(c)) \/ (\E p \in Procs : TerminateProcess(p))
             \/ UNCHANGED vars
    BY <1>4, LTSQuiet DEF STSStarts, STSFindsNoProcess, STSFindsNoCPU, STSDispatches, STSSleeps,
       MTSStartsTimers, MTSSleeps, SuspenderRequests, ReceiveCPU, TerminateProcess, vars, procs
  <1>5. CASE StartLTS \/ LTSYields \/ LTSIsRefused
    BY <1>5, LTSQuiet DEF StartLTS, LTSYields, LTSIsRefused, procs
  <1>6. CASE LTSFindsNothing
    BY <1>6 DEF LTSFindsNothing, LTSRests, procs
  <1>7. CASE LTSFinds
    <2>1. ltsProc' \in Candidates("NEW") /\ queue' = queue /\ lts' = "init"
      BY <1>7 DEF LTSFinds, procs
    <2>. QED BY <1>1, <2>1, CandidateIsLeast DEF LTSRests
  <1>8. CASE LTSInitializes
    BY <1>8 DEF LTSInitializes, LTSRests
  <1>9. CASE LTSSleeps
    BY <1>9 DEF LTSSleeps, LTSRests, procs
  <1>10. CASE STSTakes
    <2>1. queue' = Enqueued([queue EXCEPT !["READY"] = Tail(@)], "EXEC", stsHand'[1])
          /\ UNCHANGED LTSvars
      BY <1>10 DEF STSTakes
    <2>2. queue'["NEW"] = queue["NEW"]
      BY <1>1, <2>1 DEF Enqueued, Queues
    <2>. QED BY <2>1, <2>2, LTSQuiet
  <1>11. CASE STSDispatchFails
    <2>1. queue' = Moved(queue, "EXEC", "READY", stsHand[1]) /\ UNCHANGED LTSvars
      BY <1>11 DEF STSDispatchFails, Move
    <2>. QED BY <1>1, <1>2, <2>1, LTSQuiet
  <1>12. CASE MTSTakes \/ MTSIsRefused
    <2>1. \/ queue' = Removed(queue, "SUSP_READY", mtsProc')
          \/ queue' = Enqueued(queue, "SUSP_READY", mtsProc)
      BY <1>12 DEF MTSTakes, MTSIsRefused, Removed
    <2>2. queue'["NEW"] = queue["NEW"]
      BY <1>1, <1>2, <1>3, <2>1
    <2>. QED BY <1>12, <2>2, LTSQuiet DEF MTSTakes, MTSIsRefused
  <1>13. CASE MTSFindsNothing
    <2>1. queue' = queue /\ ltsProc' = ltsProc /\ (lts' = lts \/ lts' \in {"top", "search"})
      BY <1>13 DEF MTSFindsNothing, SignalLTS, procs
    <2>. QED BY <2>1, LTSQuiet DEF LTSvars
  <1>14. CASE MTSBringsBack
    <2>1. queue' = Enqueued(queue, "READY", mtsProc) /\ UNCHANGED LTSvars
      BY <1>14 DEF MTSBringsBack
    <2>. QED BY <1>1, <1>2, <2>1, LTSQuiet
  <1>15. CASE Timers
    <2>1. PICK p \in Procs, n \in 1 .. MaxCalls : TimerFires(p, n)
      BY <1>15 DEF Timers
    <2>2. queue' \in {queue, Removed(queue, "BLOCKED", p)} /\ UNCHANGED LTSvars
      BY <2>1 DEF TimerFires, Removed
    <2>3. queue'["NEW"] = queue["NEW"]
      BY <1>1, <1>3, <2>2
    <2>. QED BY <2>2, <2>3, LTSQuiet
  <1>16. CASE SuspenderEnqueues
    <2>1. queue' = Enqueued(queue, "SUSP_BLOCKED", suspender.proc) /\ UNCHANGED LTSvars
      BY <1>16 DEF SuspenderEnqueues
    <2>. QED BY <1>1, <1>2, <2>1, LTSQuiet
  <1>17. CASE \E c \in CPUs :
            SyscallIO(c) \/ ResultExit(c) \/ SyscallMissingDevice(c) \/ SyscallExit(c)
    <2>1. PICK p \in Procs, t \in {"BLOCKED", "EXIT"} :
             queue' = Moved(queue, "EXEC", t, p) /\ UNCHANGED LTSvars
      BY <1>17 DEF SyscallIO, ResultExit, SyscallMissingDevice, SyscallExit, Blocks, Exits, Move
    <2>. QED BY <1>1, <1>2, <2>1, LTSQuiet
  <1>18. CASE \E c \in CPUs : SyscallInitProc(c)
    <2>1. PICK new \in Procs : queue' = Enqueued(queue, "NEW", new)
      BY <1>18 DEF SyscallInitProc
    <2>2. /\ lts' \notin {"empty", "toEmpty"} /\ ltsProc' = ltsProc
          /\ lts' \in {lts, "top"}
      BY <1>18, NobodyInGap DEF SyscallInitProc, SignalLTSEmpty
    <2>3. queue'["NEW"] = Append(queue["NEW"], new)
      BY <1>1, <2>1, EnqueuedElsewhere
    <2>4. /\ queue'["NEW"] # <<>>
          /\ queue["NEW"] # <<>> => Head(queue'["NEW"]) = Head(queue["NEW"])
      BY <1>1, <2>3, AppendBehind
    <2>. QED BY <2>2, <2>4 DEF LTSRests
  <1>19. CASE \E c \in CPUs : SyscallDump(c)
    BY <1>19 DEF SyscallDump, NoDumps
  <1>20. CASE \E p \in Procs : HandleIOFinished(p)
    <2>1. PICK p \in Procs : HandleIOFinished(p)
      BY <1>20
    <2>2. /\ queue' \in {queue, Moved(queue, "SUSP_BLOCKED", "SUSP_READY", p),
                         Moved(queue, "BLOCKED", "READY", p)}
          /\ UNCHANGED LTSvars
      BY <2>1 DEF HandleIOFinished, Move
    <2>3. queue'["NEW"] = queue["NEW"]
      BY <1>1, <1>2, <2>2
    <2>. QED BY <2>2, <2>3, LTSQuiet
  <1>21. CASE \E p \in Procs : DumpEnds(p)
    BY <1>21 DEF RInv, DumpEnds, DumpForgotten, DumpSucceeds, DumpFails
  <1>. QED
    BY <1>4, <1>5, <1>6, <1>7, <1>8, <1>9, <1>10, <1>11, <1>12, <1>13, <1>14, <1>15, <1>16,
       <1>17, <1>18, <1>19, <1>20, <1>21
       DEF Next, LTS, STS, MTS, Suspender, CPUCalls

-----------------------------------------------------------------------------
(* MTS *)

LEMMA MTSQuiet ==
    ASSUME MTSRests, queue'["NEW"] = queue["NEW"], queue'["SUSP_READY"] = queue["SUSP_READY"],
           free' = free,
           mts' = mts \/ mts' \notin {"wait", "toWait"},
           lts' = lts \/ lts' \notin {"resume", "toResume", "retry", "toRetry"}
    PROVE  MTSRests'
  BY DEF MTSRests

LEMMA MTSStep ==
    ASSUME NoDumps, Prompt, IInv, RInv, LTSRests, MTSRests, [Next]_vars
    PROVE  MTSRests'
  <1>1. /\ Queues(queue) /\ {"NEW", "SUSP_READY"} \subseteq States
        /\ queue["NEW"] \in Seq(Procs) /\ queue["SUSP_READY"] \in Seq(Procs)
        /\ {"READY", "EXEC", "BLOCKED", "SUSP_BLOCKED", "EXIT"} \subseteq States
    BY DEF IInv, Places, Queues, States
  <1> DEFINE Same(q) == q["NEW"] = queue["NEW"] /\ q["SUSP_READY"] = queue["SUSP_READY"]
  <1>2. /\ \A s \in States : \A p : s \notin {"NEW", "SUSP_READY"} => Same(Enqueued(queue, s, p))
        /\ \A s, t \in States \ {"NEW", "SUSP_READY"} : \A p : Same(Moved(queue, s, t, p))
        /\ \A s \in States : \A p : s \notin {"NEW", "SUSP_READY"} => Same(Removed(queue, s, p))
    BY <1>1, EnqueuedElsewhere, MovedElsewhere, RemovedElsewhere
  <1>. HIDE DEF Same
  <1>3. free \in Int
    BY DEF IInv, TypeOK
  <1>4. CASE \/ StartLTS \/ LTSFindsNothing \/ LTSFinds
             \/ STSStarts \/ STSFindsNoProcess \/ STSFindsNoCPU \/ STSDispatches \/ STSSleeps
             \/ (\E c \in CPUs : ReceiveCPU(c)) \/ UNCHANGED vars
    BY <1>4, MTSQuiet DEF StartLTS, LTSFindsNothing, LTSFinds, STSStarts, STSFindsNoProcess,
       STSFindsNoCPU, STSDispatches, STSSleeps, ReceiveCPU, vars, procs, memoria, LTSvars, MTSvars
  <1>5. CASE \/ MTSStartsTimers \/ MTSTakes \/ MTSBringsBack
    BY <1>5 DEF MTSStartsTimers, MTSTakes, MTSBringsBack, MTSRests
  <1>6. CASE LTSYields
    BY <1>6, NobodyInGap DEF LTSYields, UnlockMTS, MTSRests
  <1>7. CASE LTSInitializes
    <2>1. /\ queue' = Moved(queue, "NEW", "READY", ltsProc) /\ mts' = mts /\ lts' = "top"
          /\ ltsProc \in Procs /\ free' = free - Size[ltsProc]
      BY <1>7 DEF LTSInitializes, Move, MTSvars, IInv, TypeOK
    <2>2. queue'["SUSP_READY"] = queue["SUSP_READY"]
      BY <1>1, <2>1, MovedElsewhere
    <2>3. free' \in Int /\ free' <= free
      BY <1>3, <2>1, KernelAssumption
    <2>4. \A p \in Elements(queue["SUSP_READY"]) : Size[p] \in Nat
      BY <1>1, ElementsAreProcs, KernelAssumption
    <2>5. \A p \in Elements(queue["SUSP_READY"]) : Size[p] > free => Size[p] > free'
      BY <1>3, <2>3, <2>4
    <2>. QED BY <2>1, <2>2, <2>5 DEF MTSRests
  <1>8. CASE LTSIsRefused
    <2>1. /\ queue' = queue /\ free' = free /\ mts' = mts /\ lts' = "toRetry"
          /\ Size[ltsProc] > free /\ ltsProc \in Procs
          /\ queue["NEW"] # <<>> /\ Size[ltsProc] <= Size[Head(queue["NEW"])]
      BY <1>8 DEF LTSIsRefused, LTSRests, procs, memoria, MTSvars, IInv, TypeOK
    <2>2. Head(queue["NEW"]) \in Procs
      BY <1>1, <2>1, PoppedKeeps, ElementsAreProcs
    <2>3. Size[Head(queue["NEW"])] > free
      BY <1>3, <2>1, <2>2, KernelAssumption
    <2>. QED BY <2>1, <2>3 DEF MTSRests
  <1>9. CASE LTSSleeps
    <2>1. UNCHANGED <<queue, free, mts>> /\ lts \in {"toResume", "toEmpty", "toRetry"}
      BY <1>9 DEF LTSSleeps, procs, memoria, MTSvars
    <2>2. /\ lts' \in {"resume", "toResume"} <=> lts \in {"resume", "toResume"}
          /\ lts' \in {"retry", "toRetry"} <=> lts \in {"retry", "toRetry"}
      BY <1>9 DEF LTSSleeps
    <2>. QED BY <2>1, <2>2 DEF MTSRests
  <1>10. CASE STSTakes
    <2>1. queue' = Enqueued([queue EXCEPT !["READY"] = Tail(@)], "EXEC", stsHand'[1])
          /\ UNCHANGED <<free, mts, lts>>
      BY <1>10 DEF STSTakes, memoria, LTSvars, MTSvars
    <2>2. Same(queue')
      BY <1>1, <2>1 DEF Same, Enqueued, Queues
    <2>. QED BY <2>1, <2>2, MTSQuiet DEF Same
  <1>11. CASE STSDispatchFails
    <2>1. queue' = Moved(queue, "EXEC", "READY", stsHand[1]) /\ UNCHANGED <<free, mts, lts>>
      BY <1>11 DEF STSDispatchFails, Move, memoria, LTSvars, MTSvars
    <2>2. Same(queue')
      BY <1>1, <1>2, <2>1
    <2>. QED BY <2>1, <2>2, MTSQuiet DEF Same
  <1>12. CASE MTSFindsNothing
    <2>1. /\ queue' = queue /\ queue["SUSP_READY"] = <<>>
          /\ lts' \notin {"resume", "toResume", "retry", "toRetry"}
      BY <1>12, NobodyInGap DEF MTSFindsNothing, SignalLTS, procs, IInv, TypeOK
    <2>. QED BY <2>1 DEF MTSRests
  <1>13. CASE MTSIsRefused
    <2>1. /\ queue' = Enqueued(queue, "SUSP_READY", mtsProc) /\ UNCHANGED <<free, lts>>
          /\ mtsProc \in Procs /\ state[mtsProc] = "SUSP_READY"
      BY <1>13, KernelAssumption DEF MTSIsRefused, memoria, LTSvars, IInv, TypeOK, Hands
    <2>2. memory[mtsProc] = "SWAP"
      BY <2>1 DEF RInv, Resides
    <2>3. Size[mtsProc] > free
      BY <1>3, <1>13, <2>1, <2>2, KernelAssumption DEF MTSIsRefused, Unsuspends
    <2>4. queue'["SUSP_READY"] = Append(queue["SUSP_READY"], mtsProc)
      BY <1>1, <2>1, EnqueuedElsewhere
    <2>5. queue'["SUSP_READY"] # <<>> /\ mtsProc \in Elements(queue'["SUSP_READY"])
      BY <1>1, <2>1, <2>4, AppendBehind
    <2>. QED BY <2>1, <2>3, <2>5 DEF MTSRests
  <1>14. CASE MTSSleeps
    BY <1>14 DEF MTSSleeps, MTSRests, procs, memoria, LTSvars
  <1>15. CASE Timers
    <2>1. PICK p \in Procs, n \in 1 .. MaxCalls : TimerFires(p, n)
      BY <1>15 DEF Timers
    <2>2. queue' \in {queue, Removed(queue, "BLOCKED", p)} /\ UNCHANGED <<free, mts, lts>>
      BY <2>1 DEF TimerFires, Removed, memoria, LTSvars, MTSvars
    <2>3. Same(queue') \/ queue' = queue
      BY <1>1, <1>2, <2>2
    <2>. QED BY <2>2, <2>3, MTSQuiet DEF Same
  <1>16. CASE SuspenderEnqueues
    <2>1. queue' = Enqueued(queue, "SUSP_BLOCKED", suspender.proc) /\ UNCHANGED <<free, mts, lts>>
      BY <1>16 DEF SuspenderEnqueues, memoria, LTSvars, MTSvars
    <2>2. Same(queue')
      BY <1>1, <1>2, <2>1
    <2>. QED BY <2>1, <2>2, MTSQuiet DEF Same
  <1>17. CASE SuspenderRequests
    <2>1. /\ queue' = queue /\ lts' = lts
          /\ (free' = free /\ mts' = mts) \/ mts' \notin {"wait", "toWait"}
      BY <1>17, NobodyInGap DEF SuspenderRequests, UnlockMTS, procs, memoria, LTSvars
    <2>. QED BY <2>1 DEF MTSRests
  <1>18. CASE \E c \in CPUs : SyscallIO(c)
    BY <1>18, NobodyInGap DEF SyscallIO, UnlockMTS, MTSRests
  <1>19. CASE \E c \in CPUs : ResultExit(c) \/ SyscallMissingDevice(c) \/ SyscallExit(c)
    <2>1. PICK p \in Procs :
             queue' = Moved(queue, "EXEC", "EXIT", p) /\ UNCHANGED <<free, mts, lts>>
      BY <1>19 DEF ResultExit, SyscallMissingDevice, SyscallExit, Exits, memoria, LTSvars, MTSvars
    <2>2. Same(queue')
      BY <1>1, <1>2, <2>1
    <2>. QED BY <2>1, <2>2, MTSQuiet DEF Same
  <1>20. CASE \E c \in CPUs : SyscallInitProc(c)
    <2>1. PICK new \in Procs : queue' = Enqueued(queue, "NEW", new) /\ UNCHANGED <<free, mts>>
      BY <1>20 DEF SyscallInitProc, memoria, MTSvars
    <2>2. lts' = lts \/ lts' = "top"
      BY <1>20 DEF SyscallInitProc, SignalLTSEmpty
    <2>3. /\ queue'["NEW"] = Append(queue["NEW"], new)
          /\ queue'["SUSP_READY"] = queue["SUSP_READY"]
      BY <1>1, <2>1, EnqueuedElsewhere
    <2>4. queue["NEW"] # <<>> => queue'["NEW"] # <<>> /\ Head(queue'["NEW"]) = Head(queue["NEW"])
      BY <1>1, <2>3, AppendBehind
    <2>. QED BY <2>1, <2>2, <2>3, <2>4 DEF MTSRests
  <1>21. CASE \E c \in CPUs : SyscallDump(c)
    BY <1>21 DEF SyscallDump, NoDumps
  <1>22. CASE \E p \in Procs : TerminateProcess(p)
    BY <1>22, NobodyInGap DEF TerminateProcess, UnlockMTS, MTSRests
  <1>23. CASE \E p \in Procs : HandleIOFinished(p)
    <2>1. PICK p \in Procs : HandleIOFinished(p)
      BY <1>23
    <2>2. CASE state[p] = "SUSP_BLOCKED"
      BY <2>1, <2>2, NobodyInGap DEF HandleIOFinished, UnlockMTS, MTSRests
    <2>3. CASE state[p] # "SUSP_BLOCKED"
      <3>1. /\ queue' \in {queue, Moved(queue, "BLOCKED", "READY", p)}
            /\ UNCHANGED <<free, mts, lts>>
        BY <2>1, <2>3 DEF HandleIOFinished, Move, memoria, LTSvars
      <3>2. Same(queue') \/ queue' = queue
        BY <1>1, <1>2, <3>1
      <3>. QED BY <3>1, <3>2, MTSQuiet DEF Same
    <2>. QED BY <2>2, <2>3
  <1>24. CASE \E p \in Procs : DumpEnds(p)
    BY <1>24 DEF RInv, DumpEnds, DumpForgotten, DumpSucceeds, DumpFails
  <1>. QED
    BY <1>4, <1>5, <1>6, <1>7, <1>8, <1>9, <1>10, <1>11, <1>12, <1>13, <1>14, <1>15, <1>16,
       <1>17, <1>18, <1>19, <1>20, <1>21, <1>22, <1>23, <1>24
       DEF Next, LTS, STS, MTS, Suspender, CPUCalls

LEMMA RestsInvariance == ASSUME NoDumps, Prompt PROVE Spec => []Rests
  <1>1. Init => Rests
    BY DEF Init, Rests, STSRests, LTSRests, MTSRests
  <1>2. IInv /\ RInv /\ Rests /\ [Next]_vars => Rests'
    BY STSStep, LTSStep, MTSStep DEF Rests
  <1>. QED BY <1>1, <1>2, Invariance, ResidencyInvariance, PTL DEF Spec

\* No thread sleeps while there is work that only it can do: every handler, timer and thread
\* that makes work sends the signal that the code sends, and it arrives.
THEOREM ThreadsSeeTheirWork ==
    ASSUME NoDumps, Prompt
    PROVE  Spec => []NoThreadSleepsOverWork
  <1>1. Rests => NoThreadSleepsOverWork
    BY DEF Rests, STSRests, LTSRests, MTSRests, NoThreadSleepsOverWork, STSAwake, ReadyIsSeen,
       LTSAwake, MTSAwake
  <1>. QED BY <1>1, RestsInvariance, PTL
=============================================================================
