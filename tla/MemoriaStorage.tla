--------------------------- MODULE MemoriaStorage ---------------------------
(***************************************************************************)
(* memoria/storage/storage.go: the paged user memory, the table of         *)
(* processes and the swap file, under the calls that the kernel and the    *)
(* CPUs make.  A handler is one action; two handlers that interleave       *)
(* inside allocateMemory are not modelled here.                            *)
(*                                                                         *)
(* A page base of the code is frame * PageSize; a frame number stands for  *)
(* it here.  stage[p] records the calls the kernel has already made for p, *)
(* and with them the calls it may make next.                               *)
(***************************************************************************)
EXTENDS Integers, Sequences, FiniteSets

CONSTANTS Procs,        \* the pids the kernel creates
          MemorySize,   \* config.Values.MemorySize, in bytes
          PageSize,     \* config.Values.PageSize, in bytes
          Requirement,  \* Requirement[p]: the bytes p asks for
          Byte,         \* the values a byte is tested with
          DeviceLoss,   \* may the kernel delete a process that is in swap?
          DiskFaults    \* may an operation on the swap file fail?

ASSUME SizesAssumption ==
    /\ PageSize \in Nat \ {0}
    /\ MemorySize \in Nat
    /\ Requirement \in [Procs -> Nat]
ASSUME EnvironmentAssumption == DeviceLoss \in BOOLEAN /\ DiskFaults \in BOOLEAN
ASSUME ByteAssumption == Byte # {}

nPages == MemorySize \div PageSize
Frame == 0 .. (nPages - 1)
PageValue == [0 .. (PageSize - 1) -> Byte]
RequiredPages(size) == (size + PageSize - 1) \div PageSize
PageCount == [p \in Procs |-> RequiredPages(Requirement[p])]

VARIABLES userMemory,       \* userMemory[f]: the bytes of frame f
          reservationBits,  \* reservationBits[f]: is f allocated?
          remainingMemory,  \* the counter that requests are checked against
          systemMemory,     \* the pids with an entry in the process table
          pageBases,        \* pageBases[p]: the frames in the entry of p
          swap,             \* swap[p]: p's blocks of the swap file, in file order
          stage,            \* stage[p]: what the kernel knows of p
          reply             \* the answer to the last request

storage == <<userMemory, reservationBits, remainingMemory, systemMemory, pageBases, swap>>
vars == <<storage, stage, reply>>

Answers == {"none", "ok", "refused", "panic", "short", "disk"}
Elements(s) == {s[i] : i \in DOMAIN s}
Free == {f \in Frame : ~reservationBits[f]}
Resident == {p \in systemMemory : swap[p] = <<>>}

\* Mutated form of PagesOf: the bytes of a page are numbered from one.
PagesFromOne(p) ==
    [i \in DOMAIN pageBases[p] |-> [d \in 1 .. PageSize |-> userMemory[pageBases[p][i]][d - 1]]]
PagesOf(p) == [i \in DOMAIN pageBases[p] |-> userMemory[pageBases[p][i]]]

TypeOK ==
    /\ userMemory \in [Frame -> PageValue]
    /\ reservationBits \in [Frame -> BOOLEAN]
    /\ remainingMemory \in Int
    /\ systemMemory \subseteq Procs
    /\ pageBases \in [Procs -> Seq(Frame)]
    /\ swap \in [Procs -> Seq(Seq(PageValue))]
    /\ stage \in [Procs -> {"NEW", "RAM", "SWAP", "EXIT"}]
    /\ reply \in Answers

Init ==
    /\ \E v \in Byte : userMemory = [f \in Frame |-> [d \in 0 .. (PageSize - 1) |-> v]]
    /\ reservationBits = [f \in Frame |-> FALSE]
    /\ remainingMemory = MemorySize
    /\ systemMemory = {}
    /\ pageBases = [p \in Procs |-> <<>>]
    /\ swap = [p \in Procs |-> <<>>]
    /\ stage = [p \in Procs |-> "NEW"]
    /\ reply = "none"

-----------------------------------------------------------------------------
(* allocateMemory and deallocateMemory *)

\* Mutated form of FirstFit: the bits are not looked at.
FirstFrames(bases, n) == DOMAIN bases = 1 .. n /\ \A i \in 1 .. n : bases[i] = i - 1

\* The loop over reservationBits takes the free frames of lowest index.
FirstFit(bases, n) ==
    /\ DOMAIN bases = 1 .. n
    /\ Elements(bases) \subseteq Free
    /\ \A i, j \in 1 .. n : i < j => bases[i] < bases[j]
    /\ \A f \in Free \ Elements(bases), i \in 1 .. n : bases[i] < f

Refused(size) ==
    /\ size > remainingMemory
    /\ reply' = "refused"
    /\ UNCHANGED <<remainingMemory, reservationBits>>

\* The counter is lowered before it is found negative; net/http recovers the
\* panic of a handler, so the process goes on with the lowered counter.
Panics(size) ==
    /\ size <= remainingMemory
    /\ remainingMemory' = remainingMemory - PageSize * RequiredPages(size)
    /\ remainingMemory' < 0
    /\ reply' = "panic"
    /\ UNCHANGED reservationBits

\* The loop ends without the pages: it has reserved all that were free.
RunsShort(size) ==
    /\ size <= remainingMemory
    /\ remainingMemory' = remainingMemory - PageSize * RequiredPages(size)
    /\ remainingMemory' >= 0
    /\ RequiredPages(size) > Cardinality(Free)
    /\ reservationBits' = [f \in Frame |-> TRUE]
    /\ reply' = "short"

\* Mutated form of Allocates: the bits are not set.
AllocatesUnmarked(size, bases) ==
    /\ size <= remainingMemory
    /\ remainingMemory' = remainingMemory - PageSize * RequiredPages(size)
    /\ FirstFit(bases, RequiredPages(size))
    /\ UNCHANGED reservationBits

Allocates(size, bases) ==
    /\ size <= remainingMemory
    /\ remainingMemory' = remainingMemory - PageSize * RequiredPages(size)
    /\ remainingMemory' >= 0
    /\ FirstFit(bases, RequiredPages(size))
    /\ reservationBits' = [f \in Frame |-> reservationBits[f] \/ f \in Elements(bases)]

AllocationFails(size) == Refused(size) \/ Panics(size) \/ RunsShort(size)

\* Mutated forms of deallocateMemory: the counter is not told, and the loop stops
\* one page early.
FreesBitsOnly(p) ==
    /\ reservationBits' = [f \in Frame |-> reservationBits[f] /\ f \notin Elements(pageBases[p])]
    /\ UNCHANGED remainingMemory
FreesAllButLast(p) ==
    /\ reservationBits' = [f \in Frame |->
          reservationBits[f] /\ \A i \in 1 .. Len(pageBases[p]) - 1 : pageBases[p][i] # f]
    /\ remainingMemory' = remainingMemory + PageSize * Len(pageBases[p])

\* pageBases[p] is left as it was: only the bits and the counter are told.
deallocateMemory(p) ==
    /\ reservationBits' = [f \in Frame |-> reservationBits[f] /\ f \notin Elements(pageBases[p])]
    /\ remainingMemory' = remainingMemory + PageSize * Len(pageBases[p])

-----------------------------------------------------------------------------
(* The handlers, each under the condition in which its caller calls it *)

\* LTS -> TryInititializeProcess -> CreateProcess.
CreateProcess(p) ==
    /\ stage[p] = "NEW" /\ Requirement[p] <= remainingMemory
    /\ \E bases \in [1 .. PageCount[p] -> Frame] :
          /\ IF Requirement[p] = 0
             THEN UNCHANGED <<reservationBits, remainingMemory>>
             ELSE Allocates(Requirement[p], bases)
          /\ pageBases' = [pageBases EXCEPT ![p] = bases]
    /\ systemMemory' = systemMemory \union {p}
    /\ stage' = [stage EXCEPT ![p] = "RAM"]
    /\ reply' = "ok"
    /\ UNCHANGED <<userMemory, swap>>

\* Mutated form of CreateFails: the entry is made before the memory is there.
CreateFailsWithEntry(p) ==
    /\ stage[p] = "NEW"
    /\ AllocationFails(Requirement[p])
    /\ systemMemory' = systemMemory \union {p}
    /\ UNCHANGED <<userMemory, pageBases, swap, stage>>

CreateFails(p) ==
    /\ stage[p] = "NEW"
    /\ AllocationFails(Requirement[p])
    /\ UNCHANGED <<userMemory, systemMemory, pageBases, swap, stage>>

\* TerminateProcess -> DeleteProcess -> Deallocate.  The kernel terminates the
\* processes of a lost device wherever they are, in swap too.
DeleteProcess(p) ==
    /\ stage[p] = "RAM" \/ (DeviceLoss /\ stage[p] = "SWAP")
    /\ p \in systemMemory
    /\ deallocateMemory(p)
    /\ systemMemory' = systemMemory \ {p}
    /\ pageBases' = [pageBases EXCEPT ![p] = <<>>]
    /\ stage' = [stage EXCEPT ![p] = "EXIT"]
    /\ reply' = "ok"
    /\ UNCHANGED <<userMemory, swap>>

\* sendToWait -> RequestSuspend -> SuspendProcess.
SuspendProcess(p) ==
    /\ stage[p] = "RAM" /\ p \in systemMemory
    /\ IF pageBases[p] = <<>>
       THEN UNCHANGED <<swap, reservationBits, remainingMemory>>
       ELSE /\ swap' = [swap EXCEPT ![p] = Append(@, PagesOf(p))]
            /\ deallocateMemory(p)
    /\ stage' = [stage EXCEPT ![p] = "SWAP"]
    /\ reply' = "ok"
    /\ UNCHANGED <<userMemory, systemMemory, pageBases>>

\* Mutated form of SuspendDiskFault: the frames are freed before the write.
FreesThenFaults(p) ==
    /\ DiskFaults
    /\ stage[p] = "RAM" /\ p \in systemMemory /\ pageBases[p] # <<>>
    /\ deallocateMemory(p)
    /\ stage' = [stage EXCEPT ![p] = "SWAP"]
    /\ reply' = "disk"
    /\ UNCHANGED <<userMemory, systemMemory, pageBases, swap>>

\* addToSwap fails, and the kernel takes p for suspended: sendToWait drops the error.
SuspendDiskFault(p) ==
    /\ DiskFaults
    /\ stage[p] = "RAM" /\ p \in systemMemory /\ pageBases[p] # <<>>
    /\ stage' = [stage EXCEPT ![p] = "SWAP"]
    /\ reply' = "disk"
    /\ UNCHANGED storage

\* What UnSuspendProcess has established when it calls allocateMemory.
FoundInSwap(p) ==
    stage[p] = "SWAP" /\ p \in systemMemory /\ pageBases[p] # <<>> /\ swap[p] # <<>>

BlockBytes(p) == PageSize * Len(Head(swap[p]))

\* Mutated form of removeFromSwap: the temporary file never replaces the swap file.
KeepsBlock(p) == UNCHANGED swap
\* The first block of p goes.
removeFromSwap(p) == swap' = [swap EXCEPT ![p] = Tail(@)]

\* MTS -> Unsuspend -> UnSuspendProcess.
UnSuspendProcess(p) ==
    /\ FoundInSwap(p)
    /\ \E bases \in [1 .. Len(Head(swap[p])) -> Frame] :
          /\ Allocates(BlockBytes(p), bases)
          /\ pageBases' = [pageBases EXCEPT ![p] = bases]
          /\ userMemory' = [f \in Frame |->
                IF \E i \in DOMAIN bases : bases[i] = f
                THEN Head(swap[p])[CHOOSE i \in DOMAIN bases : bases[i] = f]
                ELSE userMemory[f]]
    /\ removeFromSwap(p)
    /\ stage' = [stage EXCEPT ![p] = "RAM"]
    /\ reply' = "ok"
    /\ UNCHANGED systemMemory

\* "Nada que subir."
UnSuspendNothing(p) ==
    /\ stage[p] = "SWAP" /\ p \in systemMemory /\ pageBases[p] = <<>>
    /\ stage' = [stage EXCEPT ![p] = "RAM"]
    /\ reply' = "ok"
    /\ UNCHANGED storage

\* "could not find process in swapfile. is it even suspended?"
UnSuspendNotFound(p) ==
    /\ stage[p] = "SWAP" /\ p \in systemMemory /\ pageBases[p] # <<>> /\ swap[p] = <<>>
    /\ reply' = "refused"
    /\ UNCHANGED <<storage, stage>>

UnSuspendFails(p) ==
    /\ FoundInSwap(p)
    /\ AllocationFails(BlockBytes(p))
    /\ UNCHANGED <<userMemory, systemMemory, pageBases, swap, stage>>

\* removeFromSwap fails after allocateMemory has succeeded: the frames stay taken.
UnSuspendDiskFault(p) ==
    /\ DiskFaults
    /\ FoundInSwap(p)
    /\ \E bases \in [1 .. Len(Head(swap[p])) -> Frame] : Allocates(BlockBytes(p), bases)
    /\ reply' = "disk"
    /\ UNCHANGED <<userMemory, systemMemory, pageBases, swap, stage>>

\* A CPU writes one byte, at the frame LogicAddressToFrame gave it.
WriteToMemory(p) ==
    /\ stage[p] = "RAM" /\ p \in systemMemory
    /\ \E i \in DOMAIN pageBases[p], delta \in 0 .. (PageSize - 1), value \in Byte :
          userMemory' = [userMemory EXCEPT ![pageBases[p][i]] = [@ EXCEPT ![delta] = value]]
    /\ reply' = "ok"
    /\ UNCHANGED <<reservationBits, remainingMemory, systemMemory, pageBases, swap, stage>>

\* A CPU writes back a page of its cache.
WritePage(p) ==
    /\ stage[p] = "RAM" /\ p \in systemMemory
    /\ \E i \in DOMAIN pageBases[p], page \in PageValue :
          userMemory' = [userMemory EXCEPT ![pageBases[p][i]] = page]
    /\ reply' = "ok"
    /\ UNCHANGED <<reservationBits, remainingMemory, systemMemory, pageBases, swap, stage>>

Next == \E p \in Procs :
    \/ CreateProcess(p) \/ CreateFails(p) \/ DeleteProcess(p)
    \/ SuspendProcess(p) \/ SuspendDiskFault(p)
    \/ UnSuspendProcess(p) \/ UnSuspendNothing(p) \/ UnSuspendNotFound(p)
    \/ UnSuspendFails(p) \/ UnSuspendDiskFault(p)
    \/ WriteToMemory(p) \/ WritePage(p)

Spec == Init /\ [][Next]_vars

-----------------------------------------------------------------------------
(* Properties *)

\* No frame holds pages of two processes, nor two pages of one: a process in
\* memory never sees another's writes (CreateProcess, UnSuspendProcess, the
\* bits that deallocateMemory clears).
FramesExclusive ==
    \A p, q \in Resident : \A i \in DOMAIN pageBases[p], j \in DOMAIN pageBases[q] :
        pageBases[p][i] = pageBases[q][j] => p = q /\ i = j

\* A frame in use is never offered to allocateMemory again.
UsedFramesReserved ==
    \A p \in Resident : \A i \in DOMAIN pageBases[p] : reservationBits[pageBases[p][i]]

\* A process is in the swap file at most once, whole, and only once suspended:
\* getFromSwap returns the first block of the pid, so a second would be stale.
OneSwapBlock == \A p \in Procs :
    /\ Len(swap[p]) <= 1
    /\ swap[p] # <<>> => stage[p] \in {"SWAP", "EXIT"}
    /\ p \in systemMemory /\ swap[p] # <<>> =>
          pageBases[p] # <<>> /\ Len(Head(swap[p])) = Len(pageBases[p])

\* An entry exists exactly while the kernel owns the process, with every page it
\* asked for (so that LogicAddressToFrame covers the whole address space).
EntryComplete ==
    /\ systemMemory = {p \in Procs : stage[p] \in {"RAM", "SWAP"}}
    /\ \A p \in systemMemory : Len(pageBases[p]) = PageCount[p]
    /\ \A p \in Procs \ systemMemory : pageBases[p] = <<>>

\* The counter agrees with the bits: the sum of both frees and reservations is
\* the whole memory, so no frame leaks and none is freed twice.
CounterAgrees == remainingMemory = PageSize * Cardinality(Free)

\* Only a process in memory keeps a frame reserved: nothing leaks.
NoFrameLeaks ==
    \A f \in Frame : reservationBits[f] =>
        \E p \in Resident : \E i \in DOMAIN pageBases[p] : pageBases[p][i] = f

\* What the two unreachable lines of allocateMemory assert: a request that passes
\* the check against remainingMemory finds its pages.
AllocationNeverRunsShort == reply # "short"
MemoryNeverNegative == remainingMemory >= 0

\* The processes see what the abstract memory promises them.
contents == [p \in Procs |->
    IF p \notin systemMemory THEN <<>>
    ELSE IF swap[p] # <<>> THEN Head(swap[p]) ELSE PagesOf(p)]

Promise == INSTANCE ProcessMemory
PrivatePages == Promise!Spec
=============================================================================
