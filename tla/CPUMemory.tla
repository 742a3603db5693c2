----------------------------- MODULE CPUMemory -----------------------------
(***************************************************************************)
(* cpu/memory: how a CPU runs READ and WRITE over its TLB and its page     *)
(* cache, and the part of memoria and of the kernel that they meet: the    *)
(* page tables, the frames, the swap file, dispatch, system calls,         *)
(* interrupts and suspensions.                                             *)
(*                                                                         *)
(* An instruction is a series of steps per page: it is translated, fetched,*)
(* put in the cache (one step per entry that the hand passes) and copied.  *)
(* A page is the digits of its number, as in the code; bytes of a page and *)
(* of a request, and entries of the cache, are numbered from 0.            *)
(***************************************************************************)
EXTENDS Integers, Sequences, FiniteSets

CONSTANTS Procs,            \* the pids
          CPUs,             \* the CPUs
          NoPid,            \* the pid -1 of an empty entry or an idle CPU
          None,             \* no instruction under way
          Frames,           \* number of frames of the user memory
          PageSize,         \* bytes of a page
          EntriesPerPage,   \* entries of a page table
          Levels,           \* levels of page tables
          PageCount,        \* PageCount[p]: pages that p asks for
          Byte,             \* the values of a byte
          TLBEntries,       \* TLBEntries[c]: capacity of the TLB of c
          TLBReplacement,   \* TLBReplacement[c]: "FIFO" or "LRU"
          CacheEntries,     \* CacheEntries[c]: entries of the cache of c, 0: disabled
          CacheReplacement, \* CacheReplacement[c]: "CLOCK" or "CLOCK-M"
          Requests,         \* Requests[p]: the READs and WRITEs of the script of p
          Hazards           \* which conditions known to break the promise may arise

Hazard == {"suspendTranslated",  \* a suspension while a TLB has pages of the process
           "interruptCached",    \* an interrupt while the cache has pages of the process
           "crossUnaligned",     \* a READ without cache from inside a page into the next
           "overrunCached"}      \* a READ with cache past the end of the process

Page == [1 .. Levels -> 0 .. EntriesPerPage - 1]

\* memoria's walk over the tables: the index in the list of frames of the process.
PageIndex(page) ==
    LET walked[k \in 0 .. Levels] ==
            IF k = 0 THEN 0 ELSE walked[k - 1] * EntriesPerPage + page[k]
    IN  walked[Levels]

LastPage == [k \in 1 .. Levels |-> EntriesPerPage - 1]
LastAddress == PageSize * (PageIndex(LastPage) + 1) - 1

\* Mutated form of sum: the carry stops at the last digit.
SumLastDigit(page) == [page EXCEPT ![Levels] = (@ + 1) % EntriesPerPage]

\* The number of the next page: a digit moves when all those after it wrap.
sum(page) == [k \in 1 .. Levels |->
    IF \A j \in k + 1 .. Levels : page[j] = EntriesPerPage - 1
    THEN (page[k] + 1) % EntriesPerPage ELSE page[k]]

FromIntToLogicalAddres[n \in Nat] ==
    IF n = 0 THEN [k \in 1 .. Levels |-> 0] ELSE sum(FromIntToLogicalAddres[n - 1])

ASSUME SizesAssumption ==
    /\ Frames \in Nat \ {0} /\ PageSize \in Nat \ {0}
    /\ EntriesPerPage \in Nat \ {0} /\ Levels \in Nat \ {0}
    /\ PageCount \in [Procs -> Nat]
ASSUME ConfigAssumption ==
    \A c \in CPUs :
        /\ TLBEntries[c] \in Nat /\ CacheEntries[c] \in Nat
        /\ TLBReplacement[c] \in {"FIFO", "LRU"}
        /\ CacheReplacement[c] \in {"CLOCK", "CLOCK-M"}
ASSUME PidAssumption == NoPid \notin Procs
ASSUME NoneAssumption == \A p \in Procs : None \notin Requests[p]
ASSUME ByteAssumption == 0 \in Byte
\* Past LastAddress the digits of a page number start again from zero.
ASSUME RequestsAssumption == \A p \in Procs : \A r \in Requests[p] :
    /\ r.kind \in {"read", "write"} /\ r.addr \in Nat /\ r.size \in Nat \ {0}
    /\ r.addr + r.size - 1 <= LastAddress
    /\ r.kind = "write" => r.bytes \in [0 .. r.size - 1 -> Byte]
ASSUME HazardsAssumption == Hazards \subseteq Hazard

Frame == 0 .. Frames - 1
Content == [0 .. PageSize - 1 -> Byte]
Slot == [c \in CPUs |-> 0 .. CacheEntries[c] - 1]
CacheEnable(c) == CacheEntries[c] # 0

VARIABLES userMemory,  \* userMemory[f]: the bytes of frame f
          pageBases,   \* pageBases[p]: the frame of each page, stale while p is in swap
          swap,        \* swap[p]: the pages of p in the swap file
          stage,       \* stage[p]: where the kernel has p
          cpu,         \* cpu[c]: the process whose PID is in the Pcb of c
          at,          \* at[c]: the next step of c
          doing,       \* doing[c]: the instruction under way
          job,         \* job[c]: its local variables
          tlb,         \* tlb[c]: its entries, the next victim first
          cache,       \* cache[c]: its entries
          reply        \* reply[c]: what the last READ has read

memoria == <<userMemory, pageBases, swap, stage>>
vars == <<memoria, cpu, at, doing, job, tlb, cache, reply>>

Stages == {"NEW", "READY", "EXEC", "BLOCKED", "SWAPPED", "EXIT"}
Steps == {"instruction", "translate", "get", "scan", "copy", "flush", "exit", "lost", "down"}
NoPage == <<>>
NoBytes == [a \in {} |-> 0]
\* done: bytes read or written; page, frame, buffer: the page under way, where it is
\* and what GetPageInMemory returned; examined: entries that the hand has passed.
PageJob(done, page) ==
    [done |-> done, page |-> page, frame |-> 0, buffer |-> NoBytes, examined |-> 0]
NoJob == PageJob(0, NoPage)
EmptyEntry == [pid |-> NoPid, page |-> NoPage, content |-> NoBytes,
               use |-> FALSE, modified |-> FALSE, position |-> FALSE]

Init ==
    /\ userMemory = [f \in Frame |-> [d \in 0 .. PageSize - 1 |-> 0]]
    /\ pageBases = [p \in Procs |-> NoBytes]
    /\ swap = [p \in Procs |-> NoBytes]
    /\ stage = [p \in Procs |-> "NEW"]
    /\ cpu = [c \in CPUs |-> NoPid]
    /\ at = [c \in CPUs |-> "instruction"]
    /\ doing = [c \in CPUs |-> None]
    /\ job = [c \in CPUs |-> NoJob]
    /\ tlb = [c \in CPUs |-> <<>>]
    /\ cache = [c \in CPUs |-> [i \in Slot[c] |-> [EmptyEntry EXCEPT !.position = (i = 0)]]]
    /\ reply = [c \in CPUs |-> NoBytes]

-----------------------------------------------------------------------------
(* The tables of memoria *)

Least(S) == CHOOSE i \in S : \A j \in S : i <= j

LogicAddressToFrame(p, page) == pageBases[p][PageIndex(page)]
HasFrame(p, page) ==
    /\ \A k \in 1 .. Levels : page[k] < EntriesPerPage
    /\ PageIndex(page) \in DOMAIN pageBases[p]
HasPage(p, frame) == \E i \in DOMAIN pageBases[p] : pageBases[p][i] = frame

-----------------------------------------------------------------------------
(* The TLB *)

Hits(c, p, page) == {i \in DOMAIN tlb[c] : tlb[c][i].pid = p /\ tlb[c][i].page = page}

MovedToEnd(s, i) == [k \in DOMAIN s |->
    IF k < i THEN s[k] ELSE IF k = Len(s) THEN s[i] ELSE s[k + 1]]

\* LastUsed orders the entries: a hit makes the entry the last victim.
Touched(c, i) == IF TLBReplacement[c] = "LRU" THEN MovedToEnd(tlb[c], i) ELSE tlb[c]

findFrame(c, p, page) ==
    IF Hits(c, p, page) = {} THEN tlb[c] ELSE Touched(c, Least(Hits(c, p, page)))

\* Mutated form of AddEntryTLB: one entry too many before the first victim.
AddEntryTLBLate(c, entry) ==
    IF TLBEntries[c] = 0 THEN tlb[c]
    ELSE Append(IF Len(tlb[c]) > TLBEntries[c] THEN Tail(tlb[c]) ELSE tlb[c], entry)

AddEntryTLB(c, entry) ==
    IF TLBEntries[c] = 0 THEN tlb[c]
    ELSE Append(IF Len(tlb[c]) >= TLBEntries[c] THEN Tail(tlb[c]) ELSE tlb[c], entry)

\* Traducir: whether there is a frame, which one, and the TLB it leaves.
Found(c, p, page) == Hits(c, p, page) # {} \/ HasFrame(p, page)
Translated(c, p, page) ==
    IF Hits(c, p, page) # {} THEN tlb[c][Least(Hits(c, p, page))].frame
    ELSE LogicAddressToFrame(p, page)
Traducir(c, p, page) ==
    tlb' = [tlb EXCEPT ![c] =
        IF Hits(c, p, page) # {} \/ ~HasFrame(p, page) THEN findFrame(c, p, page)
        ELSE AddEntryTLB(c, [pid |-> p, page |-> page, frame |-> LogicAddressToFrame(p, page)])]

\* memoria takes the page if it is whole and the frame is of the process; the CPU
\* does not look at its answer.
SavePageInMemory(c, p, page, content) ==
    /\ Traducir(c, p, page)
    /\ userMemory' = IF HasPage(p, Translated(c, p, page)) /\ DOMAIN content = 0 .. PageSize - 1
                     THEN [userMemory EXCEPT ![Translated(c, p, page)] = content]
                     ELSE userMemory

-----------------------------------------------------------------------------
(* The steps of an instruction *)

Slots(c, page) == {i \in Slot[c] : cache[c][i].page = page}
IsInCache(c, page) == Slots(c, page) # {}
Entries(c, p) == {i \in Slot[c] : cache[c][i].pid = p}
Overruns(p, r) == r.addr + r.size > PageSize * PageCount[p]
Crosses(r) == (r.addr % PageSize) + r.size > PageSize

\* Conditions under which the code is known not to keep its promise.
Tame(c, r) ==
    /\ "crossUnaligned" \in Hazards
          \/ ~(r.kind = "read" /\ ~CacheEnable(c) /\ Crosses(r) /\ (r.addr % PageSize) # 0)
    /\ "overrunCached" \in Hazards
          \/ ~(r.kind = "read" /\ CacheEnable(c) /\ Overruns(cpu[c], r))

Goes(c, step) == at' = [at EXCEPT ![c] = step]

\* asign, and the start of WriteMemory: a page in the cache needs no frame.
Begins(c, p, r) ==
    LET page == FromIntToLogicalAddres[r.addr \div PageSize]
    IN  /\ cpu[c] = p /\ at[c] = "instruction" /\ Tame(c, r)
        /\ doing' = [doing EXCEPT ![c] = r]
        /\ job' = [job EXCEPT ![c] = PageJob(0, page)]
        /\ Goes(c, IF r.kind = "write" /\ CacheEnable(c) /\ IsInCache(c, page)
                   THEN "copy" ELSE "translate")
        /\ reply' = [reply EXCEPT ![c] = NoBytes]
        /\ UNCHANGED <<memoria, cpu, tlb, cache>>

\* The instruction is over; the cycle goes on, exits, or is never heard of again.
Ends(c, step) ==
    /\ Goes(c, step)
    /\ doing' = [doing EXCEPT ![c] = None]
    /\ job' = [job EXCEPT ![c] = NoJob]

\* A page that is missing ends a READ with EXIT and a WRITE with no message at all,
\* but for the later pages of a WRITE in the cache, whose failure nobody looks at.
Fails(c, mayExit) ==
    Ends(c, IF doing[c].kind = "read" /\ mayExit THEN "exit"
            ELSE IF doing[c].kind = "write" /\ CacheEnable(c) /\ job[c].done > 0 THEN "instruction"
            ELSE "lost")

Translates(c) ==
    LET p == cpu[c]
        page == job[c].page
    IN  /\ at[c] = "translate"
        /\ Traducir(c, p, page)
        /\ IF Found(c, p, page)
           THEN /\ job' = [job EXCEPT ![c].frame = Translated(c, p, page)]
                /\ Goes(c, IF CacheEnable(c) /\ IsInCache(c, page) THEN "copy" ELSE "get")
                /\ UNCHANGED doing
           ELSE Fails(c, CacheEnable(c) \/ job[c].done = 0)
        /\ UNCHANGED <<memoria, cpu, cache, reply>>

\* GetPageInMemory.  The first page of a READ with cache is put there whatever the
\* answer is.
Gets(c) ==
    LET has == HasPage(cpu[c], job[c].frame)
    IN  /\ at[c] = "get"
        /\ IF has \/ (doing[c].kind = "read" /\ CacheEnable(c) /\ job[c].done = 0)
           THEN /\ job' = [job EXCEPT ![c].buffer = IF has THEN userMemory[job[c].frame] ELSE NoBytes]
                /\ Goes(c, IF CacheEnable(c) THEN "scan" ELSE "copy")
                /\ UNCHANGED doing
           ELSE Fails(c, CacheEnable(c))
        /\ UNCHANGED <<memoria, cpu, tlb, cache, reply>>

Hand(c) == IF \E i \in Slot[c] : cache[c][i].position
           THEN Least({i \in Slot[c] : cache[c][i].position}) ELSE 0

\* CLOCK-M goes round for an entry neither used nor modified, then for a modified
\* one that is not used, clearing the use bits, three times.
SecondRound(c) == (job[c].examined \div CacheEntries[c]) % 2 = 1
Chosen(c, e) ==
    IF CacheReplacement[c] = "CLOCK" THEN e.pid = NoPid \/ ~e.use
    ELSE ~e.use /\ e.modified = SecondRound(c)
\* Mutated form of Passed: CLOCK-M never clears a use bit.
PassedInUse(c, e) == IF CacheReplacement[c] = "CLOCK" THEN [e EXCEPT !.use = FALSE] ELSE e
Passed(c, e) ==
    IF CacheReplacement[c] = "CLOCK" \/ SecondRound(c) THEN [e EXCEPT !.use = FALSE] ELSE e

\* Mutated form of HandMoved: the entry that the hand leaves keeps its mark.
HandLeft(entries, i, e) ==
    [j \in DOMAIN entries |->
       [(IF j = i THEN e ELSE entries[j]) EXCEPT !.position = @ \/ j = i
            \/ j = (i + 1) % Cardinality(DOMAIN entries)]]

HandMoved(entries, i, e) ==
    LET next == (i + 1) % Cardinality(DOMAIN entries)
    IN  [j \in DOMAIN entries |->
           [(IF j = i THEN e ELSE entries[j]) EXCEPT !.position = j = next \/ (@ /\ j # i)]]

\* One turn of the loops of AddEntryCacheClock and AddEntryCacheClockM.  A victim
\* goes back to memory, modified or not.
Scans(c) ==
    LET i == Hand(c)
        e == cache[c][i]
        new == [pid |-> cpu[c], page |-> job[c].page, content |-> job[c].buffer,
                use |-> TRUE, modified |-> FALSE, position |-> FALSE]
    IN  /\ at[c] = "scan"
        /\ CacheReplacement[c] = "CLOCK-M" => job[c].examined < 6 * CacheEntries[c]
        /\ IF Chosen(c, e)
           THEN /\ cache' = [cache EXCEPT ![c] = HandMoved(@, i, new)]
                /\ job' = [job EXCEPT ![c] = PageJob(job[c].done, job[c].page)]
                /\ IF e.pid = NoPid THEN Goes(c, "copy") /\ UNCHANGED <<userMemory, tlb>>
                   ELSE IF Found(c, e.pid, e.page)
                   THEN Goes(c, "copy") /\ SavePageInMemory(c, e.pid, e.page, e.content)
                   ELSE Goes(c, "down") /\ UNCHANGED <<userMemory, tlb>>
           ELSE /\ cache' = [cache EXCEPT ![c] = HandMoved(@, i, Passed(c, e))]
                /\ job' = [job EXCEPT ![c].examined = @ + 1]
                /\ UNCHANGED <<at, userMemory, tlb>>
        /\ UNCHANGED <<pageBases, swap, stage, cpu, doing, reply>>

\* The part of the page that the instruction is about.
Delta(c) == IF job[c].done = 0 THEN doing[c].addr % PageSize ELSE 0
Chunk(c) == Least({doing[c].size - job[c].done, PageSize - Delta(c)})

\* The instruction has come to its end, or goes on with the next page (NextPageMMU).
Advances(c) ==
    IF job[c].done + Chunk(c) = doing[c].size THEN Ends(c, "instruction")
    ELSE /\ Goes(c, "translate")
         /\ job' = [job EXCEPT ![c] = PageJob(job[c].done + Chunk(c), sum(job[c].page))]
         /\ UNCHANGED doing

Written(c, content) == [d \in DOMAIN content |->
    IF d \in Delta(c) .. Delta(c) + Chunk(c) - 1
    THEN doing[c].bytes[job[c].done + d - Delta(c)] ELSE content[d]]

WrittenEntry(e, content, modified) ==
    [pid |-> e.pid, page |-> e.page, content |-> content,
     use |-> e.use, modified |-> modified, position |-> e.position]

\* Mutated form of WritesCache: only the first page is marked as modified.
WritesCacheUnmarked(c) ==
    LET i == Least(Slots(c, job[c].page))
    IN  /\ at[c] = "copy" /\ CacheEnable(c) /\ doing[c].kind = "write"
        /\ cache' = [cache EXCEPT ![c][i] =
              WrittenEntry(@, Written(c, @.content), @.modified \/ job[c].done = 0)]
        /\ IF job[c].done = 0 THEN tlb' = [tlb EXCEPT ![c] = findFrame(c, cpu[c], job[c].page)]
           ELSE Traducir(c, cpu[c], job[c].page)
        /\ Advances(c)
        /\ UNCHANGED <<memoria, cpu, reply>>

\* WriteCache, one page.
WritesCache(c) ==
    LET i == Least(Slots(c, job[c].page))
    IN  /\ at[c] = "copy" /\ CacheEnable(c) /\ doing[c].kind = "write"
        /\ cache' = [cache EXCEPT ![c][i] = WrittenEntry(@, Written(c, @.content), TRUE)]
        /\ IF job[c].done = 0 THEN tlb' = [tlb EXCEPT ![c] = findFrame(c, cpu[c], job[c].page)]
           ELSE Traducir(c, cpu[c], job[c].page)
        /\ Advances(c)
        /\ UNCHANGED <<memoria, cpu, reply>>

\* WriteMemory without cache, one page.
WritesThrough(c) ==
    /\ at[c] = "copy" /\ ~CacheEnable(c) /\ doing[c].kind = "write"
    /\ SavePageInMemory(c, cpu[c], job[c].page, Written(c, job[c].buffer))
    /\ Advances(c)
    /\ UNCHANGED <<pageBases, swap, stage, cpu, cache, reply>>

\* ReadCache, one page.  A slice of a page that never came is a panic.
ReadsCache(c) ==
    LET i == Least(Slots(c, job[c].page))
        content == cache[c][i].content
    IN  /\ at[c] = "copy" /\ CacheEnable(c) /\ doing[c].kind = "read"
        /\ IF content = NoBytes
           THEN Ends(c, "down") /\ UNCHANGED <<cache, reply>>
           ELSE /\ cache' = [cache EXCEPT ![c][i].use = TRUE]
                /\ reply' = [reply EXCEPT ![c] = [j \in 0 .. job[c].done + Chunk(c) - 1 |->
                      IF j < job[c].done THEN reply[c][j] ELSE content[j - job[c].done + Delta(c)]]]
                /\ Advances(c)
        /\ UNCHANGED <<memoria, cpu, tlb>>

\* ReadMemory without cache, one page.  The first page counts as a whole one, and
\* delta is applied to all: the two errors cancel out when delta is 0.
ReadsThrough(c) ==
    LET delta == doing[c].addr % PageSize
        leido == IF job[c].done = 0 THEN 0 ELSE job[c].done + delta
        last == Least({leido + Chunk(c), doing[c].size}) - 1
        Byte0(j) == IF j \in DOMAIN reply[c] THEN reply[c][j] ELSE 0
    IN  /\ at[c] = "copy" /\ ~CacheEnable(c) /\ doing[c].kind = "read"
        /\ IF leido > doing[c].size
           THEN Ends(c, "down") /\ UNCHANGED reply
           ELSE /\ reply' = [reply EXCEPT ![c] = [j \in 0 .. last |->
                      IF j < leido THEN Byte0(j)
                      ELSE IF delta + j - leido < PageSize THEN job[c].buffer[delta + j - leido]
                      ELSE 0]]
                /\ Advances(c)
        /\ UNCHANGED <<memoria, cpu, tlb, cache>>

-----------------------------------------------------------------------------
(* Leaving the CPU *)

\* EndProcess, one entry: IO, DUMP_MEMORY and EXIT begin with it.  The emptied entry
\* does not keep the hand.
Flushes(c) ==
    LET i == Least(Entries(c, cpu[c]))
        e == cache[c][i]
    IN  /\ cpu[c] # NoPid /\ at[c] \in {"instruction", "flush"} /\ Entries(c, cpu[c]) # {}
        /\ cache' = [cache EXCEPT ![c][i] = EmptyEntry]
        /\ IF ~e.modified THEN Goes(c, "flush") /\ UNCHANGED <<userMemory, tlb>>
           ELSE IF Found(c, e.pid, e.page)
           THEN Goes(c, "flush") /\ SavePageInMemory(c, e.pid, e.page, e.content)
           ELSE Goes(c, "down") /\ UNCHANGED <<userMemory, tlb>>
        /\ UNCHANGED <<pageBases, swap, stage, cpu, doing, job, reply>>

LeavesFor(c, where) ==
    /\ stage' = [stage EXCEPT ![cpu[c]] = where]
    /\ cpu' = [cpu EXCEPT ![c] = NoPid]
    /\ Goes(c, "instruction")
    /\ UNCHANGED <<userMemory, swap, doing, job, tlb, cache, reply>>

\* Mutated form of Flushed: the pages are left in the cache.
FlushedOrNot(c) == cpu[c] # NoPid /\ at[c] \in {"instruction", "flush"}
Flushed(c) == cpu[c] # NoPid /\ at[c] \in {"instruction", "flush"} /\ Entries(c, cpu[c]) = {}

\* IO or DUMP_MEMORY.
Syscalls(c) == Flushed(c) /\ LeavesFor(c, "BLOCKED") /\ UNCHANGED pageBases

\* EXIT, or a READ that failed: the kernel has memoria delete the process.
Exits(c) ==
    /\ Flushed(c) \/ at[c] = "exit"
    /\ LeavesFor(c, "EXIT")
    /\ pageBases' = [pageBases EXCEPT ![cpu[c]] = NoBytes]

\* ciclo takes the interrupt between two instructions; nothing is flushed.
Interrupted(c) ==
    /\ cpu[c] # NoPid /\ at[c] = "instruction"
    /\ "interruptCached" \in Hazards \/ Entries(c, cpu[c]) = {}
    /\ LeavesFor(c, "READY") /\ UNCHANGED pageBases

-----------------------------------------------------------------------------
(* memoria and the kernel *)

Resident == {p \in Procs : stage[p] \in {"READY", "EXEC", "BLOCKED"}}
Free == {f \in Frame : \A p \in Resident : ~HasPage(p, f)}

\* The free frames of lowest number, in order.
FirstFit(bases) == \A i \in DOMAIN bases :
    bases[i] \in Free /\ {f \in Free : f < bases[i]} = {bases[j] : j \in 0 .. i - 1}

\* CreateProcess; the frames are not cleared.
Admits(p) ==
    /\ stage[p] = "NEW"
    /\ \E bases \in [0 .. PageCount[p] - 1 -> Frame] :
          FirstFit(bases) /\ pageBases' = [pageBases EXCEPT ![p] = bases]
    /\ stage' = [stage EXCEPT ![p] = "READY"]
    /\ UNCHANGED <<userMemory, swap, cpu, at, doing, job, tlb, cache, reply>>

\* receivePIDPC.
Dispatches(c, p) ==
    /\ stage[p] = "READY" /\ cpu[c] = NoPid
    /\ stage' = [stage EXCEPT ![p] = "EXEC"]
    /\ cpu' = [cpu EXCEPT ![c] = p]
    /\ UNCHANGED <<userMemory, pageBases, swap, at, doing, job, tlb, cache, reply>>

Unblocks(p) ==
    /\ stage[p] = "BLOCKED"
    /\ stage' = [stage EXCEPT ![p] = "READY"]
    /\ UNCHANGED <<userMemory, pageBases, swap, cpu, at, doing, job, tlb, cache, reply>>

\* Mutated form of Suspends: the loop over the frames stops before the last one.
SuspendsButLast(p) ==
    /\ stage[p] = "BLOCKED"
    /\ "suspendTranslated" \in Hazards \/ \A c \in CPUs : \A i \in DOMAIN tlb[c] : tlb[c][i].pid # p
    /\ swap' = [swap EXCEPT ![p] = [i \in {j \in DOMAIN pageBases[p] : j + 1 \in DOMAIN pageBases[p]} |->
                  userMemory[pageBases[p][i]]]]
    /\ stage' = [stage EXCEPT ![p] = "SWAPPED"]
    /\ UNCHANGED <<userMemory, pageBases, cpu, at, doing, job, tlb, cache, reply>>

\* SuspendProcess.
Suspends(p) ==
    /\ stage[p] = "BLOCKED"
    /\ "suspendTranslated" \in Hazards \/ \A c \in CPUs : \A i \in DOMAIN tlb[c] : tlb[c][i].pid # p
    /\ swap' = [swap EXCEPT ![p] = [i \in DOMAIN pageBases[p] |-> userMemory[pageBases[p][i]]]]
    /\ stage' = [stage EXCEPT ![p] = "SWAPPED"]
    /\ UNCHANGED <<userMemory, pageBases, cpu, at, doing, job, tlb, cache, reply>>

\* UnSuspendProcess, once the wait is over.
Returns(p) ==
    /\ stage[p] = "SWAPPED"
    /\ \E bases \in [DOMAIN swap[p] -> Frame] :
          /\ FirstFit(bases)
          /\ pageBases' = [pageBases EXCEPT ![p] = bases]
          /\ userMemory' = [f \in Frame |->
                IF \E i \in DOMAIN bases : bases[i] = f
                THEN swap[p][CHOOSE i \in DOMAIN bases : bases[i] = f] ELSE userMemory[f]]
    /\ swap' = [swap EXCEPT ![p] = NoBytes]
    /\ stage' = [stage EXCEPT ![p] = "READY"]
    /\ UNCHANGED <<cpu, at, doing, job, tlb, cache, reply>>

Next ==
    \/ \E c \in CPUs :
          \/ \E p \in Procs : \E r \in Requests[p] : Begins(c, p, r)
          \/ Translates(c) \/ Gets(c) \/ Scans(c)
          \/ WritesCache(c) \/ WritesThrough(c) \/ ReadsCache(c) \/ ReadsThrough(c)
          \/ Flushes(c) \/ Syscalls(c) \/ Exits(c) \/ Interrupted(c)
          \/ \E p \in Procs : Dispatches(c, p)
    \/ \E p \in Procs : Admits(p) \/ Unblocks(p) \/ Suspends(p) \/ Returns(p)

Spec == Init /\ [][Next]_vars

-----------------------------------------------------------------------------
(* Properties *)

Job == [done : Nat, page : Page \union {NoPage}, frame : Frame,
        buffer : Content \union {NoBytes}, examined : Nat]
TLBEntry == [pid : Procs, page : Page, frame : Frame]
CacheEntry == [pid : Procs \union {NoPid}, page : Page \union {NoPage},
               content : Content \union {NoBytes},
               use : BOOLEAN, modified : BOOLEAN, position : BOOLEAN]
Instructions == {None} \union UNION {Requests[p] : p \in Procs}
TypeOK ==
    /\ userMemory \in [Frame -> Content]
    /\ DOMAIN pageBases = Procs /\ DOMAIN swap = Procs
    /\ \A p \in Procs :
          /\ pageBases[p] \in {NoBytes} \union [0 .. PageCount[p] - 1 -> Frame]
          /\ swap[p] \in {NoBytes} \union [0 .. PageCount[p] - 1 -> Content]
    /\ stage \in [Procs -> Stages]
    /\ cpu \in [CPUs -> Procs \union {NoPid}]
    /\ at \in [CPUs -> Steps]
    /\ doing \in [CPUs -> Instructions]
    /\ job \in [CPUs -> Job]
    /\ tlb \in [CPUs -> Seq(TLBEntry)]
    /\ DOMAIN cache = CPUs /\ \A c \in CPUs : cache[c] \in [Slot[c] -> CacheEntry]

\* memoria's walk along the digits ends at the page of the address, however many times
\* sum has carried from one level to the next (FromIntToLogicalAddres, NextPageMMU).
DigitsOfAddress == \A c \in CPUs : job[c].page # NoPage =>
    PageIndex(job[c].page) = (doing[c].addr + job[c].done) \div PageSize

\* A TLB keeps to its size, has a page once, and names the frame in which memoria
\* has the page now, whatever happened to the process since (AddEntryTLB).
TLBAgrees == \A c \in CPUs :
    /\ Len(tlb[c]) <= TLBEntries[c]
    /\ \A i, j \in DOMAIN tlb[c] :
          tlb[c][i].pid = tlb[c][j].pid /\ tlb[c][i].page = tlb[c][j].page => i = j
    /\ \A i \in DOMAIN tlb[c] : LET e == tlb[c][i] IN
          e.pid \in Resident => HasFrame(e.pid, e.page) /\ e.frame = LogicAddressToFrame(e.pid, e.page)

\* The cache is searched by page alone: it may only hold pages of the process that
\* runs, or the next one would read them for its own (IsInCache, EndProcess).
CacheOfRunning == \A c \in CPUs : \A i \in Slot[c] : cache[c][i].pid \in {NoPid, cpu[c]}

\* A page is in a cache once, whatever was evicted since it was looked for, and the
\* hand is in one place at most: EndProcess loses it (AddEntryCache).
CachedOnce == \A c \in CPUs : \A i, j \in Slot[c] :
    /\ cache[c][i].pid # NoPid /\ cache[c][j].pid # NoPid
          /\ cache[c][i].page = cache[c][j].page => i = j
    /\ cache[c][i].position /\ cache[c][j].position => i = j

\* Nothing is lost when a page that is not marked as modified is dropped: memoria
\* has the same bytes (EndProcess saves only those that are).
CleanPagesMatch == \A c \in CPUs : \A i \in Slot[c] : LET e == cache[c][i] IN
    e.pid # NoPid /\ ~e.modified => e.content = userMemory[LogicAddressToFrame(e.pid, e.page)]

\* A victim is found, by CLOCK when the hand is back where it began at the latest,
\* by CLOCK-M in the fourth of its six rounds: the error that reports that a page
\* could not be added is never logged.
ScanEnds == \A c \in CPUs : at[c] = "scan" =>
    job[c].examined <= (IF CacheReplacement[c] = "CLOCK" THEN 1 ELSE 3) * CacheEntries[c]

\* What the instructions of a process see of its memory: a page in a cache, or in
\* the swap file, or in its frame.
PageSeen(p, n) ==
    LET caching == {c \in CPUs : \E i \in Entries(c, p) : PageIndex(cache[c][i].page) = n}
        c == CHOOSE x \in caching : TRUE
        i == CHOOSE j \in Entries(c, p) : PageIndex(cache[c][j].page) = n
    IN  IF caching # {} THEN cache[c][i].content
        ELSE IF stage[p] = "SWAPPED" THEN swap[p][n] ELSE userMemory[pageBases[p][n]]

SizeOf == [p \in Procs |-> PageSize * PageCount[p]]
Seen == [p \in Procs |->
    IF stage[p] \in {"NEW", "EXIT"} THEN NoBytes
    ELSE [a \in 0 .. SizeOf[p] - 1 |-> PageSeen(p, a \div PageSize)[a % PageSize]]]

\* The TLB, the cache with its two clocks, the write-backs, the walk over the
\* tables and the frames that change hands add up to a flat memory per process
\* (cpu/memory as a whole).
Flat == INSTANCE FlatMemory WITH store <- Seen, running <- cpu, Size <- SizeOf
FlatMemoryKept == Flat!Spec
=============================================================================
