-------------------------- MODULE FlatMemoryProofs --------------------------
(***************************************************************************)
(* Theorem about CPUMemory as a whole: it implements FlatMemory.           *)
(*                                                                         *)
(* Page n of a process Shows v when the cache that has it, or memoria when *)
(* none has, holds v: that is what PageSeen chooses.  No step but a WRITE  *)
(* of its own changes what a process is shown, and a WRITE puts its bytes  *)
(* there.  What an instruction has read or written so far is in the array  *)
(* (DInv), and so every copy is a step of FlatMemory.                      *)
(***************************************************************************)
EXTENDS CPUCacheProofs

\* A CPU between instructions has none; an empty entry has no page; a page is copied from
\* where it has been found or put; a READ without cache begins where a page does, or ends
\* in it.
Idle(c) == at[c] \notin Active => doing[c] = None
EmptyPages(c) == \A i \in Slot[c] : cache[c][i].pid = NoPid => cache[c][i].page = NoPage
CopyCached(c) == at[c] = "copy" /\ CacheEnable(c) =>
    \E i \in Slot[c] : cache[c][i].pid = cpu[c] /\ cache[c][i].page = job[c].page
Aligned(c) == at[c] \in Active /\ doing[c].kind = "read" /\ ~CacheEnable(c) =>
    ~Crosses(doing[c]) \/ doing[c].addr % PageSize = 0

XOwn(c) == Idle(c) /\ EmptyPages(c) /\ CopyCached(c) /\ Aligned(c)
XInv == DOMAIN reply = CPUs /\ \A c \in CPUs : XOwn(c)

\* A victim always has a frame to go back to.
LEMMA VictimSaved ==
    ASSUME AllInv, MInv, NEW c \in CPUs, Scans(c), Chosen(c, cache[c][Hand(c)])
    PROVE  LET e == cache[c][Hand(c)]
           IN  /\ at'[c] = "copy" /\ cpu[c] # NoPid
               /\ \/ e.pid = NoPid /\ UNCHANGED userMemory
                  \/ /\ e.pid = cpu[c] /\ e.page \in Page /\ HasFrame(cpu[c], e.page)
                     /\ e.content \in Content
                     /\ SavePageInMemory(c, cpu[c], e.page, e.content)
  <1>. DEFINE e == cache[c][Hand(c)]
  <1>0. TInv /\ Kept(c) /\ Hand(c) \in Slot[c] /\ at[c] = "scan"
    <2>1. TInv /\ at[c] = "scan"
      BY DEF AllInv, Scans
    <2>. QED BY <2>1, HandTurns DEF MInv
  <1>1. cpu[c] # NoPid /\ at \in [CPUs -> Steps]
    BY <1>0, ActiveRuns DEF TInv, TypeOK
  <1>2. IF e.pid = NoPid THEN Goes(c, "copy") /\ UNCHANGED <<userMemory, tlb>>
        ELSE IF Found(c, e.pid, e.page)
        THEN Goes(c, "copy") /\ SavePageInMemory(c, e.pid, e.page, e.content)
        ELSE Goes(c, "down") /\ UNCHANGED <<userMemory, tlb>>
    BY Zenon DEF Scans
  <1>3. CASE e.pid = NoPid
    BY <1>1, <1>2, <1>3 DEF Goes
  <1>4. CASE e.pid # NoPid
    <2>1. e.pid = cpu[c] /\ e.page \in Page
      BY <1>0, <1>4, OwnEntry
    <2>2. HasFrame(cpu[c], e.page) /\ e.content \in Content
      BY <1>0, <1>4 DEF Kept
    <2>. HIDE DEF e
    <2>3. Found(c, e.pid, e.page)
      BY <2>1, <2>2 DEF Found
    <2>4. Goes(c, "copy") /\ SavePageInMemory(c, e.pid, e.page, e.content)
      BY <1>2, <1>4, <2>3
    <2>. QED BY <1>1, <2>1, <2>2, <2>4 DEF Goes, e
  <1>. QED BY <1>3, <1>4

\* Where a copy leaves the instruction.
LEMMA CopyEnds ==
    ASSUME TInv, NEW c \in CPUs,
           WritesCache(c) \/ WritesThrough(c) \/ ReadsCache(c) \/ ReadsThrough(c)
    PROVE  /\ at[c] = "copy" /\ at[c] \in Active /\ UNCHANGED cpu
           /\ \/ at'[c] \in {"instruction", "down"} /\ doing'[c] = None
              \/ at'[c] = "translate" /\ doing'[c] = doing[c]
  <1>0. at \in [CPUs -> Steps] /\ doing \in [CPUs -> Instructions]
    BY DEF TInv, TypeOK
  <1>1. at[c] = "copy" /\ UNCHANGED cpu
    BY DEF WritesCache, WritesThrough, ReadsCache, ReadsThrough
  <1>2. \/ Ends(c, "instruction") \/ Ends(c, "down")
        \/ at' = [at EXCEPT ![c] = "translate"] /\ UNCHANGED doing
    BY Zenon DEF WritesCache, WritesThrough, ReadsCache, ReadsThrough, Advances, Goes
  <1>. QED BY <1>0, <1>1, <1>2 DEF Ends, Goes, Active

\* The page that is looked for is a page of the process.
LEMMA InCacheIsOwn ==
    ASSUME AllInv, NEW c \in CPUs, EmptyPages(c), NEW page \in Page, IsInCache(c, page)
    PROVE  \E i \in Slot[c] : cache[c][i].pid = cpu[c] /\ cache[c][i].page = page
  <1>1. PICK i \in Slot[c] : cache[c][i].page = page
    BY DEF IsInCache, Slots
  <1>2. cache[c][i].pid # NoPid
    BY <1>1, PageIsAPage DEF EmptyPages
  <1>. QED BY <1>1, <1>2, OwnEntry

LEMMA StepIdle ==
    ASSUME AllInv, MInv, XInv, [Next]_vars, NEW c \in CPUs
    PROVE  Idle(c)'
  <1>0. TInv /\ Idle(c) /\ at \in [CPUs -> Steps] /\ doing \in [CPUs -> Instructions]
    BY DEF AllInv, XInv, XOwn, TInv, TypeOK
  <1>1. CASE ~CPUStep(c)
    BY <1>0, <1>1, OwnKept DEF Own, Idle
  <1>2. CASE \E p \in Procs : \E r \in Requests[p] : Begins(c, p, r)
    <2>1. \E step \in {"copy", "translate"} : at' = [at EXCEPT ![c] = step]
      BY <1>2, Zenon DEF Begins, Goes
    <2>. QED BY <1>0, <2>1 DEF Idle, Active
  <1>3. CASE Translates(c)
    <2>1. \/ at'[c] \in Active \/ \E mayExit : Fails(c, mayExit)
      BY <1>0, <1>3, TranslatesTo DEF Active
    <2>2. ASSUME NEW mayExit, Fails(c, mayExit)
          PROVE  doing'[c] = None
      BY <1>0, <2>2 DEF Fails, Ends
    <2>. QED BY <2>1, <2>2 DEF Idle
  <1>4. CASE Gets(c)
    <2>1. HasPage(cpu[c], job[c].frame)
      BY <1>4, HeldFrame DEF Gets, Holds, AllInv, CInv, COwn
    <2>. QED BY <1>0, <1>4, <2>1, GetsPage DEF Idle, Active
  <1>5. CASE Scans(c)
    <2>1. at'[c] \in Active
      <3>1. CASE Chosen(c, cache[c][Hand(c)])
        BY <1>5, <3>1, VictimSaved DEF Active
      <3>2. CASE ~Chosen(c, cache[c][Hand(c)])
        BY <1>0, <1>5, <3>2, HandTurns DEF Scans, Active
      <3>. QED BY <3>1, <3>2
    <2>. QED BY <2>1 DEF Idle
  <1>6. CASE WritesCache(c) \/ WritesThrough(c) \/ ReadsCache(c) \/ ReadsThrough(c)
    BY <1>0, <1>6, CopyEnds DEF Idle, Active
  <1>7. CASE Flushes(c)
    BY <1>0, <1>7 DEF Flushes, Idle, Active
  <1>8. CASE Syscalls(c) \/ Exits(c) \/ Interrupted(c)
    BY <1>0, <1>8 DEF Syscalls, Exits, Interrupted, Flushed, LeavesFor, Idle, Active
  <1>9. CASE \E p \in Procs : Dispatches(c, p)
    BY <1>0, <1>9 DEF Dispatches, Idle
  <1>. QED BY <1>1, <1>2, <1>3, <1>4, <1>5, <1>6, <1>7, <1>8, <1>9 DEF CPUStep

LEMMA StepEmptyPages ==
    ASSUME AllInv, XInv, [Next]_vars, NEW c \in CPUs
    PROVE  EmptyPages(c)'
  <1>0. TInv /\ EmptyPages(c) /\ DOMAIN cache = CPUs /\ cache[c] \in [Slot[c] -> CacheEntry]
    BY DEF AllInv, XInv, XOwn, TInv, TypeOK
  <1>1. CASE cache'[c] = cache[c]
    BY <1>0, <1>1 DEF EmptyPages
  <1>2. CASE ~CPUStep(c)
    BY <1>0, <1>1, <1>2, OwnKept DEF Own
  <1>3. CASE (\E p \in Procs : \E r \in Requests[p] : Begins(c, p, r)) \/ Translates(c) \/ Gets(c)
    BY <1>1, <1>3 DEF Begins, Translates, Gets
  <1>4. CASE Scans(c)
    <2>. DEFINE h == Hand(c)
                e == cache[c][h]
    <2>0. h \in Slot[c]
      BY <1>0, <1>4, HandTurns
    <2>1. PICK x \in CacheEntry : /\ cache'[c] = HandMoved(cache[c], h, x)
                                  /\ x.pid = NoPid => x.page = NoPage
      <3>1. Passed(c, e) \in CacheEntry /\ Passed(c, e).pid = e.pid /\ Passed(c, e).page = e.page
        <4>1. e \in CacheEntry
          BY <1>0, <2>0
        <4>. HIDE DEF e
        <4>. QED BY <1>0, <4>1, PassedFields
      <3>2. Fetched(c).pid = cpu[c] /\ cpu[c] # NoPid
        BY <1>0, <1>4, ActiveRuns DEF Fetched, Scans
      <3>3. e.pid = NoPid => e.page = NoPage
        BY <1>0, <2>0 DEF EmptyPages
      <3>. HIDE DEF h, e
      <3>. QED BY <1>0, <1>4, <3>1, <3>2, <3>3, HandTurns DEF h, e
    <2>. HIDE DEF h
    <2>2. ASSUME NEW j \in Slot[c], cache'[c][j].pid = NoPid
          PROVE  cache'[c][j].page = NoPage
      <3>1. CASE j = h
        BY <1>0, <2>0, <2>1, <2>2, <3>1, HandMovedFields
      <3>2. CASE j # h
        BY <1>0, <2>0, <2>1, <2>2, <3>2, HandMovedFields DEF EmptyPages
      <3>. QED BY <3>1, <3>2
    <2>. QED BY <2>2 DEF EmptyPages
  <1>5. CASE WritesCache(c) \/ WritesThrough(c) \/ ReadsCache(c) \/ ReadsThrough(c)
    BY <1>0, <1>5, CopyChanges DEF EmptyPages
  <1>6. CASE Flushes(c)
    <2>1. \E i : cache' = [cache EXCEPT ![c][i] = EmptyEntry]
      BY <1>6, Zenon DEF Flushes
    <2>2. EmptyEntry.page = NoPage
      BY DEF EmptyEntry
    <2>. QED BY <1>0, <2>1, <2>2 DEF EmptyPages
  <1>7. CASE Syscalls(c) \/ Exits(c) \/ Interrupted(c) \/ \E p \in Procs : Dispatches(c, p)
    BY <1>1, <1>7 DEF Syscalls, Exits, Interrupted, LeavesFor, Dispatches
  <1>. QED BY <1>2, <1>3, <1>4, <1>5, <1>6, <1>7 DEF CPUStep

LEMMA StepCopyCached ==
    ASSUME AllInv, MInv, XInv, [Next]_vars, NEW c \in CPUs
    PROVE  CopyCached(c)'
  <1>0. TInv /\ EmptyPages(c) /\ CopyCached(c) /\ at \in [CPUs -> Steps] /\ job \in [CPUs -> Job]
    BY DEF AllInv, XInv, XOwn, TInv, TypeOK
  <1>1. SUFFICES ASSUME at'[c] = "copy", CacheEnable(c)
                 PROVE  \E i \in Slot[c] : /\ cache'[c][i].pid = cpu'[c]
                                           /\ cache'[c][i].page = job'[c].page
    BY DEF CopyCached
  <1>2. CASE ~CPUStep(c)
    BY <1>0, <1>1, <1>2, OwnKept DEF Own, CopyCached
  <1>3. ASSUME NEW p \in Procs, NEW r \in Requests[p], Begins(c, p, r)
        PROVE  \E i \in Slot[c] : cache'[c][i].pid = cpu'[c] /\ cache'[c][i].page = job'[c].page
    <2>. DEFINE page == FromIntToLogicalAddres[r.addr \div PageSize]
    <2>1. /\ cache' = cache /\ cpu' = cpu /\ job'[c].page = page
          /\ at' = [at EXCEPT ![c] = IF r.kind = "write" /\ CacheEnable(c) /\ IsInCache(c, page)
                                     THEN "copy" ELSE "translate"]
      BY <1>0, <1>3 DEF Begins, Goes, PageJob
    <2>2. page \in Page
      <3>1. r.addr \in Nat
        BY RequestTypes
      <3>2. r.addr \div PageSize \in Nat
        BY <3>1, Divided, SizesAssumption
      <3>. QED BY <3>2, DigitsArePages
    <2>. HIDE DEF page
    <2>3. IsInCache(c, page)
      BY <1>0, <1>1, <2>1
    <2>. QED BY <1>0, <2>1, <2>2, <2>3, InCacheIsOwn
  <1>4. CASE Translates(c)
    <2>1. /\ job'[c].page = job[c].page /\ UNCHANGED cache /\ UNCHANGED cpu
          /\ IsInCache(c, job[c].page) /\ at[c] \in Active
      BY <1>0, <1>1, <1>4, TranslatesTo DEF Active
    <2>2. job[c].page \in Page
      BY <1>0, <2>1, ActiveFacts
    <2>. QED BY <1>0, <2>1, <2>2, InCacheIsOwn
  <1>5. CASE Gets(c)
    <2>1. HasPage(cpu[c], job[c].frame)
      BY <1>5, HeldFrame DEF Gets, Holds, AllInv, CInv, COwn
    <2>. QED BY <1>0, <1>1, <1>5, <2>1, GetsPage
  <1>6. CASE Scans(c)
    <2>0. at[c] = "scan" /\ UNCHANGED cpu
      BY <1>6 DEF Scans
    <2>1. /\ cache'[c] = HandMoved(cache[c], Hand(c), Fetched(c))
          /\ job'[c] = PageJob(job[c].done, job[c].page)
          /\ Hand(c) \in Slot[c] /\ Fetched(c) \in CacheEntry
      BY <1>0, <1>1, <1>6, <2>0, HandTurns
    <2>2. cache'[c][Hand(c)].pid = cpu[c] /\ cache'[c][Hand(c)].page = job[c].page
      BY <1>0, <2>1, HandMovedFields DEF Fetched
    <2>. QED BY <2>0, <2>1, <2>2 DEF PageJob
  <1>7. CASE WritesCache(c) \/ WritesThrough(c) \/ ReadsCache(c) \/ ReadsThrough(c)
    BY <1>0, <1>1, <1>7, CopyEnds
  <1>8. CASE Flushes(c)
    <2>1. Goes(c, "flush") \/ Goes(c, "down")
      BY <1>8, Zenon DEF Flushes
    <2>. QED BY <1>0, <1>1, <2>1 DEF Goes
  <1>9. CASE Syscalls(c) \/ Exits(c) \/ Interrupted(c)
    BY <1>0, <1>1, <1>9 DEF Syscalls, Exits, Interrupted, LeavesFor, Goes
  <1>10. CASE \E p \in Procs : Dispatches(c, p)
    BY <1>0, <1>1, <1>10 DEF Dispatches, TInv, RunsOne
  <1>. QED BY <1>2, <1>3, <1>4, <1>5, <1>6, <1>7, <1>8, <1>9, <1>10 DEF CPUStep

LEMMA StepAligned ==
    ASSUME AllInv, MInv, XInv, [Next]_vars, NEW c \in CPUs, "crossUnaligned" \notin Hazards
    PROVE  Aligned(c)'
  <1>0. TInv /\ Aligned(c) /\ at \in [CPUs -> Steps] /\ doing \in [CPUs -> Instructions]
    BY DEF AllInv, XInv, XOwn, TInv, TypeOK
  <1>1. CASE at[c] \in Active /\ doing'[c] = doing[c]
    BY <1>0, <1>1 DEF Aligned, Crosses
  <1>2. CASE at'[c] \notin Active
    BY <1>2 DEF Aligned
  <1>3. CASE ~CPUStep(c)
    BY <1>0, <1>3, OwnKept DEF Own, Aligned, Crosses
  <1>4. ASSUME NEW p \in Procs, NEW r \in Requests[p], Begins(c, p, r)
        PROVE  Aligned(c)'
    <2>1. doing'[c] = r /\ Tame(c, r)
      BY <1>0, <1>4 DEF Begins
    <2>. QED BY <2>1 DEF Tame, Aligned, Crosses
  <1>5. CASE Translates(c)
    BY <1>0, <1>1, <1>2, <1>5, TranslatesTo
  <1>6. CASE Gets(c)
    <2>1. HasPage(cpu[c], job[c].frame)
      BY <1>6, HeldFrame DEF Gets, Holds, AllInv, CInv, COwn
    <2>. QED BY <1>0, <1>1, <1>6, <2>1, GetsPage DEF Active
  <1>7. CASE Scans(c)
    BY <1>1, <1>7 DEF Scans, Active
  <1>8. CASE WritesCache(c) \/ WritesThrough(c) \/ ReadsCache(c) \/ ReadsThrough(c)
    BY <1>0, <1>1, <1>2, <1>8, CopyEnds DEF Active
  <1>9. CASE Flushes(c)
    <2>1. Goes(c, "flush") \/ Goes(c, "down")
      BY <1>9, Zenon DEF Flushes
    <2>. QED BY <1>0, <1>2, <2>1 DEF Goes, Active
  <1>10. CASE Syscalls(c) \/ Exits(c) \/ Interrupted(c)
    BY <1>0, <1>2, <1>10 DEF Syscalls, Exits, Interrupted, LeavesFor, Goes, Active
  <1>11. CASE \E p \in Procs : Dispatches(c, p)
    BY <1>2, <1>11 DEF Dispatches, TInv, RunsOne, Active, AllInv
  <1>. QED BY <1>3, <1>4, <1>5, <1>6, <1>7, <1>8, <1>9, <1>10, <1>11 DEF CPUStep

LEMMA StepX ==
    ASSUME "crossUnaligned" \notin Hazards
    PROVE  AllInv /\ MInv /\ XInv /\ [Next]_vars => XInv'
  <1>. SUFFICES ASSUME AllInv, MInv, XInv, [Next]_vars
                PROVE  XInv'
    OBVIOUS
  <1>1. ASSUME NEW c \in CPUs, NEW x, reply' = [reply EXCEPT ![c] = x]
        PROVE  DOMAIN reply' = CPUs
    BY <1>1 DEF XInv
  <1>2. UNCHANGED reply => DOMAIN reply' = CPUs
    BY DEF XInv
  <1>3. ASSUME NEW c \in CPUs, CPUStep(c)
        PROVE  DOMAIN reply' = CPUs
    <2>1. CASE \E p \in Procs : \E r \in Requests[p] : Begins(c, p, r)
      BY <1>1, <2>1 DEF Begins
    <2>2. CASE ReadsCache(c)
      BY <1>1, <1>2, <2>2, Zenon DEF ReadsCache
    <2>3. CASE ReadsThrough(c)
      BY <1>1, <1>2, <2>3, Zenon DEF ReadsThrough
    <2>4. CASE \/ Translates(c) \/ Gets(c) \/ Scans(c) \/ WritesCache(c) \/ WritesThrough(c)
               \/ Flushes(c) \/ \E p \in Procs : Dispatches(c, p)
      BY <1>2, <2>4 DEF Translates, Gets, Scans, WritesCache, WritesThrough, Flushes, Dispatches
    <2>5. CASE Syscalls(c) \/ Exits(c) \/ Interrupted(c)
      BY <1>2, <2>5 DEF Syscalls, Exits, Interrupted, LeavesFor
    <2>. QED BY <1>3, <2>1, <2>2, <2>3, <2>4, <2>5 DEF CPUStep
  <1>4. ASSUME NEW p \in Procs, ProcStep(p)
        PROVE  UNCHANGED reply
    BY <1>4 DEF ProcStep, Admits, Unblocks, Suspends, Returns
  <1>5. UNCHANGED vars => UNCHANGED reply
    BY DEF vars
  <1>6. DOMAIN reply' = CPUs
    BY <1>2, <1>3, <1>4, <1>5, StepsOfWhom
  <1>7. \A c \in CPUs : XOwn(c)'
    BY StepIdle, StepEmptyPages, StepCopyCached, StepAligned DEF XOwn
  <1>. QED BY <1>6, <1>7 DEF XInv

LEMMA InitX == Init => XInv
  BY DEF Init, XInv, XOwn, Idle, EmptyPages, CopyCached, Aligned, Active, EmptyEntry

-----------------------------------------------------------------------------
(* What the instructions of a process see *)

CachedAt(c, i, p, n) == cache[c][i].pid = p /\ PageIndex(cache[c][i].page) = n
Cached(p, n) == \E c \in CPUs : \E i \in Slot[c] : CachedAt(c, i, p, n)
Stored(p, n) == IF stage[p] = "SWAPPED" THEN swap[p][n] ELSE userMemory[pageBases[p][n]]

\* Page n of p is v, in the cache that has it and, if there is none, in memoria.
Shows(p, n, v) ==
    /\ \A c \in CPUs : \A i \in Slot[c] : CachedAt(c, i, p, n) => cache[c][i].content = v
    /\ Cached(p, n) \/ Stored(p, n) = v

ShownIsSeen == \A p \in Procs : \A n, v : Shows(p, n, v) => PageSeen(p, n) = v

LEMMA ShownSeen == ShownIsSeen
  <1>. SUFFICES ASSUME NEW p \in Procs, NEW n, NEW v, Shows(p, n, v)
                PROVE  PageSeen(p, n) = v
    BY DEF ShownIsSeen
  <1>. DEFINE caching == {c \in CPUs : \E i \in Entries(c, p) : PageIndex(cache[c][i].page) = n}
              c == CHOOSE x \in caching : TRUE
              i == CHOOSE j \in Entries(c, p) : PageIndex(cache[c][j].page) = n
  <1>1. CASE caching # {}
    <2>1. c \in caching
      BY <1>1
    <2>. HIDE DEF c
    <2>2. c \in CPUs /\ i \in Slot[c] /\ CachedAt(c, i, p, n)
      BY <2>1 DEF Entries, CachedAt
    <2>3. PageSeen(p, n) = cache[c][i].content
      BY <1>1 DEF PageSeen, c
    <2>. QED BY <2>2, <2>3 DEF Shows
  <1>2. CASE caching = {}
    <2>1. ~Cached(p, n)
      BY <1>2 DEF Cached, CachedAt, Entries
    <2>2. PageSeen(p, n) = Stored(p, n)
      BY <1>2 DEF PageSeen, Stored
    <2>. QED BY <2>1, <2>2 DEF Shows
  <1>. QED BY <1>1, <1>2

LEMMA ShownSeenAfter == ShownIsSeen'
  BY ShownSeen, PTL

\* A page is cached by the CPU that runs its process, and in one entry.
LEMMA CachedThere ==
    ASSUME AllInv, NEW p \in Procs, NEW n,
           NEW c \in CPUs, NEW i \in Slot[c], CachedAt(c, i, p, n)
    PROVE  /\ cpu[c] = p /\ cache[c][i].page \in Page
           /\ \A d \in CPUs : \A j \in Slot[d] : CachedAt(d, j, p, n) => d = c /\ j = i
  <1>1. \A d \in CPUs : \A j \in Slot[d] :
           CachedAt(d, j, p, n) =>
              cpu[d] = p /\ cache[d][j].page \in Page /\ cache[d][j].pid # NoPid
    BY OwnEntry, PidAssumption DEF CachedAt
  <1>2. ASSUME NEW d \in CPUs, NEW j \in Slot[d], CachedAt(d, j, p, n)
        PROVE  d = c /\ j = i
    <2>1. d = c
      BY <1>1, <1>2, PidAssumption DEF AllInv, TInv, RunsOne
    <2>2. cache[c][j].page = cache[c][i].page
      BY <1>1, <1>2, <2>1, IndexIsInjective DEF CachedAt
    <2>. QED BY <1>1, <1>2, <2>1, <2>2 DEF AllInv, OInv, CachedOnce
  <1>. QED BY <1>1, <1>2

LEMMA SeenIsShown ==
    ASSUME AllInv, NEW p \in Procs, NEW n
    PROVE  Shows(p, n, PageSeen(p, n))
  <1>1. \E v : Shows(p, n, v)
    <2>1. ASSUME NEW c \in CPUs, NEW i \in Slot[c], CachedAt(c, i, p, n)
          PROVE  Shows(p, n, cache[c][i].content)
      BY <2>1, CachedThere DEF Shows, Cached
    <2>2. ASSUME ~Cached(p, n)
          PROVE  Shows(p, n, Stored(p, n))
      BY <2>2 DEF Shows, Cached
    <2>. QED BY <2>1, <2>2 DEF Cached
  <1>. QED BY <1>1, ShownSeen DEF ShownIsSeen

\* The frames of a process are written by the CPU that runs it, and by nobody else.
LEMMA FramesKept ==
    ASSUME AllInv, [Next]_vars, NEW p \in Resident, NEW n \in DOMAIN pageBases[p],
           \A c \in CPUs : cpu[c] = p => ~CPUStep(c)
    PROVE  userMemory'[pageBases[p][n]] = userMemory[pageBases[p][n]]
  <1>0. pageBases[p][n] \in Frame /\ p \in Procs
    BY DEF AllInv, FramesInv, Tables, Resident
  <1>1. CASE UNCHANGED userMemory
    BY <1>1
  <1>2. ASSUME NEW c \in CPUs, CPUStep(c), userMemory' # userMemory
        PROVE  userMemory'[pageBases[p][n]] = userMemory[pageBases[p][n]]
    <2>1. PICK w \in Page : WritesPage(c, w)
      BY <1>2, WrittenPages
    <2>2. cpu[c] # p /\ cpu[c] \in Resident
      BY <1>2, StepWrites, Running DEF AllInv
    <2>3. PageIndex(w) \in DOMAIN pageBases[cpu[c]]
      BY <2>1 DEF WritesPage, HasFrame
    <2>4. pageBases[p][n] # pageBases[cpu[c]][PageIndex(w)]
      BY <2>2, <2>3 DEF AllInv, FramesInv, Exclusive
    <2>. QED BY <1>0, <2>1, <2>4 DEF WritesPage, LogicAddressToFrame
  <1>3. ASSUME NEW q \in Procs, Returns(q)
        PROVE  userMemory'[pageBases[p][n]] = userMemory[pageBases[p][n]]
    <2>1. PICK bases \in [DOMAIN swap[q] -> Frame] :
             /\ FirstFit(bases)
             /\ userMemory' = [f \in Frame |->
                    IF \E i \in DOMAIN bases : bases[i] = f
                    THEN swap[q][CHOOSE i \in DOMAIN bases : bases[i] = f] ELSE userMemory[f]]
      BY <1>3 DEF Returns
    <2>2. \A i \in DOMAIN bases : bases[i] # pageBases[p][n]
      BY <2>1, FreeIsNobodys
    <2>. QED BY <1>0, <2>1, <2>2
  <1>4. ASSUME NEW q \in Procs, Admits(q) \/ Unblocks(q) \/ Suspends(q)
        PROVE  UNCHANGED userMemory
    BY <1>4 DEF Admits, Unblocks, Suspends
  <1>. QED BY <1>1, <1>2, <1>3, <1>4, StepsOfWhom DEF ProcStep, vars, memoria

\* A process that no CPU runs has no page in a cache, before a step and after it.
LEMMA NobodyCaches ==
    ASSUME AllInv, AllInv', [Next]_vars, NEW p \in Procs, NEW n, \A c \in CPUs : cpu[c] # p
    PROVE  ~Cached(p, n) /\ ~Cached(p, n)'
  <1>1. ~Cached(p, n)
    BY CachedThere DEF Cached
  <1>2. ASSUME NEW c \in CPUs, NEW i \in Slot[c], cache'[c][i].pid = p
        PROVE  FALSE
    <2>1. cpu'[c] = p
      BY <1>2, PidAssumption DEF AllInv, CInv, COwn, OwnPages
    <2>2. CPUStep(c)
      BY <2>1, OwnKept DEF AllInv, Own
    <2>3. UNCHANGED cache
      BY <2>1, <2>2, StepsCache DEF AllInv
    <2>4. cache[c][i].pid = p
      BY <1>2, <2>3
    <2>. QED BY <2>4, PidAssumption DEF AllInv, CInv, COwn, OwnPages
  <1>3. ~Cached(p, n)'
    BY <1>2 DEF Cached, CachedAt
  <1>. QED BY <1>1, <1>3

\* It is kept by memoria, whatever suspends it or brings it back.
LEMMA StoredKept ==
    ASSUME AllInv, [Next]_vars, NEW p \in Procs, NEW n \in 0 .. PageCount[p] - 1,
           stage[p] \notin {"NEW", "EXIT"}, \A c \in CPUs : cpu[c] # p
    PROVE  Stored(p, n)' = Stored(p, n)
  <1>0. TypeOK
    BY DEF AllInv, TInv
  <1>1. CASE Suspends(p)
    <2>1. /\ stage[p] = "BLOCKED" /\ stage'[p] = "SWAPPED"
          /\ swap'[p] = [i \in DOMAIN pageBases[p] |-> userMemory[pageBases[p][i]]]
      BY <1>0, <1>1 DEF Suspends, TypeOK
    <2>2. n \in DOMAIN pageBases[p]
      BY <2>1 DEF AllInv, FramesInv, Tables, Resident
    <2>. QED BY <2>1, <2>2 DEF Stored
  <1>2. CASE Returns(p)
    <2>1. PICK bases \in [DOMAIN swap[p] -> Frame] :
             /\ FirstFit(bases)
             /\ pageBases' = [pageBases EXCEPT ![p] = bases]
             /\ userMemory' = [f \in Frame |->
                    IF \E i \in DOMAIN bases : bases[i] = f
                    THEN swap[p][CHOOSE i \in DOMAIN bases : bases[i] = f] ELSE userMemory[f]]
      BY <1>2 DEF Returns
    <2>2. stage[p] = "SWAPPED" /\ stage'[p] = "READY"
      BY <1>0, <1>2 DEF Returns, TypeOK
    <2>3. DOMAIN swap[p] = 0 .. PageCount[p] - 1 /\ PageCount[p] \in Nat
      BY <2>2, SizesAssumption DEF AllInv, FramesInv, Tables
    <2>4. pageBases'[p] = bases
      BY <1>0, <2>1 DEF TypeOK
    <2>5. \A i \in DOMAIN bases : bases[i] = bases[n] => i = n
      BY <2>1, <2>3, FirstFitApart
    <2>6. userMemory'[bases[n]] = swap[p][n]
      BY <2>1, <2>3, <2>5
    <2>. QED BY <2>2, <2>4, <2>6 DEF Stored
  <1>3. CASE ~Suspends(p) /\ ~Returns(p)
    <2>1. /\ stage'[p] # "SWAPPED" <=> stage[p] # "SWAPPED"
          /\ stage[p] = "SWAPPED" => swap'[p] = swap[p]
          /\ stage[p] # "SWAPPED" => pageBases'[p] = pageBases[p]
      <3>1. ASSUME NEW c \in CPUs, CPUStep(c), ~(\E q \in Procs : Dispatches(c, q))
            PROVE  UNCHANGED swap /\ pageBases'[p] = pageBases[p] /\ stage'[p] = stage[p]
        <4>1. CASE UNCHANGED <<pageBases, stage, cpu>>
          BY <3>1, <4>1, TablesKept DEF AllInv
        <4>2. CASE Syscalls(c) \/ Exits(c) \/ Interrupted(c)
          BY <1>0, <3>1, <4>2 DEF Syscalls, Exits, Interrupted, LeavesFor, TypeOK
        <4>. QED BY <3>1, <4>1, <4>2, TablesKept DEF AllInv
      <3>2. ASSUME NEW c \in CPUs, NEW q \in Procs, Dispatches(c, q)
            PROVE  /\ UNCHANGED <<swap, pageBases>>
                   /\ stage'[p] = stage[p] \/ (stage[p] = "READY" /\ stage'[p] = "EXEC")
        BY <1>0, <3>2 DEF Dispatches, TypeOK
      <3>3. ASSUME NEW q \in Procs, q # p, ProcStep(q)
            PROVE  swap'[p] = swap[p] /\ pageBases'[p] = pageBases[p] /\ stage'[p] = stage[p]
        BY <1>0, <3>3 DEF ProcStep, Admits, Unblocks, Suspends, Returns, TypeOK
      <3>4. ASSUME ProcStep(p)
            PROVE  /\ UNCHANGED <<swap, pageBases>>
                   /\ stage[p] = "BLOCKED" /\ stage'[p] = "READY"
        BY <1>0, <1>3, <3>4 DEF ProcStep, Admits, Unblocks, TypeOK
      <3>5. UNCHANGED vars => UNCHANGED <<swap, pageBases, stage>>
        BY DEF vars, memoria
      <3>. QED BY <3>1, <3>2, <3>3, <3>4, <3>5, StepsOfWhom
    <2>2. CASE stage[p] = "SWAPPED"
      BY <2>1, <2>2 DEF Stored
    <2>3. CASE stage[p] # "SWAPPED"
      <3>1. p \in Resident
        BY <1>0, <2>3 DEF TypeOK, Stages, Resident
      <3>2. n \in DOMAIN pageBases[p]
        BY <3>1 DEF AllInv, FramesInv, Tables
      <3>3. userMemory'[pageBases[p][n]] = userMemory[pageBases[p][n]]
        BY <3>1, <3>2, FramesKept
      <3>. QED BY <2>1, <2>3, <3>3 DEF Stored
    <2>. QED BY <2>2, <2>3
  <1>. QED BY <1>1, <1>2, <1>3

LEMMA IdleShows ==
    ASSUME AllInv, AllInv', [Next]_vars, NEW p \in Procs, NEW n \in 0 .. PageCount[p] - 1,
           stage[p] \notin {"NEW", "EXIT"}, \A c \in CPUs : cpu[c] # p, NEW v, Shows(p, n, v)
    PROVE  Shows(p, n, v)'
  <1>1. ~Cached(p, n) /\ ~Cached(p, n)'
    BY NobodyCaches
  <1>2. Stored(p, n)' = v
    BY <1>1, StoredKept DEF Shows
  <1>. QED BY <1>1, <1>2 DEF Shows, Cached

\* While a process runs, others leave its pages as they are.
LEMMA WaitingShows ==
    ASSUME AllInv, AllInv', [Next]_vars, NEW p \in Procs, NEW n \in 0 .. PageCount[p] - 1,
           NEW c \in CPUs, cpu[c] = p, ~CPUStep(c), NEW v, Shows(p, n, v)
    PROVE  Shows(p, n, v)'
  <1>0. /\ TInv /\ cpu[c] # NoPid /\ p \in Resident /\ stage[p] = "EXEC"
        /\ n \in DOMAIN pageBases[p]
    <2>1. TInv /\ cpu[c] # NoPid
      BY PidAssumption DEF AllInv
    <2>2. p \in Resident /\ stage[p] = "EXEC"
      BY <2>1, Running
    <2>. QED BY <2>1, <2>2 DEF AllInv, FramesInv, Tables
  <1>1. /\ cpu'[c] = p /\ cache'[c] = cache[c]
        /\ pageBases'[p] = pageBases[p] /\ stage'[p] = stage[p]
    BY <1>0, RunningKept DEF Own
  <1>2. ASSUME NEW d \in CPUs, NEW i \in Slot[d], CachedAt(d, i, p, n) \/ CachedAt(d, i, p, n)'
        PROVE  d = c
    <2>1. cpu[d] = p \/ cpu'[d] = p
      BY <1>2, PidAssumption DEF CachedAt, AllInv, CInv, COwn, OwnPages
    <2>. QED BY <1>1, <2>1, PidAssumption DEF AllInv, TInv, RunsOne
  <1>3. \A d \in CPUs : cpu[d] = p => ~CPUStep(d)
    BY <1>0 DEF TInv, RunsOne
  <1>4. Stored(p, n)' = Stored(p, n)
    BY <1>0, <1>1, <1>3, FramesKept DEF Stored
  <1>5. \A d \in CPUs : \A i \in Slot[d] : CachedAt(d, i, p, n)' <=> CachedAt(d, i, p, n)
    BY <1>1, <1>2 DEF CachedAt
  <1>6. \A d \in CPUs : \A i \in Slot[d] : CachedAt(d, i, p, n)' => cache'[d][i].content = v
    BY <1>1, <1>2, <1>5 DEF Shows
  <1>. QED BY <1>4, <1>5, <1>6 DEF Shows, Cached

\* For the process that takes the step, only the cache of its CPU matters.
LEMMA OwnShows ==
    ASSUME AllInv, NEW p \in Procs, NEW n, NEW v, NEW w,
           NEW c \in CPUs, cpu[c] = p, CPUStep(c), Shows(p, n, v),
           \A i \in Slot[c] : CachedAt(c, i, p, n)' => cache'[c][i].content = w,
           (\A i \in Slot[c] : ~CachedAt(c, i, p, n)') => Stored(p, n)' = w
    PROVE  Shows(p, n, w)'
  <1>1. ASSUME NEW d \in CPUs, NEW i \in Slot[d], CachedAt(d, i, p, n)'
        PROVE  d = c
    <2>1. CASE d # c
      <3>1. cache'[d] = cache[d]
        BY <2>1, OthersKeep DEF AllInv, Own
      <3>2. CachedAt(d, i, p, n)
        BY <1>1, <3>1 DEF CachedAt
      <3>3. cpu[d] = p
        BY <3>2, CachedThere
      <3>. QED BY <3>3, PidAssumption DEF AllInv, TInv, RunsOne
    <2>. QED BY <2>1
  <1>2. \A d \in CPUs : \A i \in Slot[d] : CachedAt(d, i, p, n)' => cache'[d][i].content = w
    BY <1>1
  <1>3. Cached(p, n)' \/ Stored(p, n)' = w
    BY DEF Cached
  <1>. QED BY <1>2, <1>3 DEF Shows

\* A step that leaves the bytes in the cache and in memoria as they are.
LEMMA SameShows ==
    ASSUME AllInv, NEW p \in Procs, NEW n, NEW v,
           NEW c \in CPUs, cpu[c] = p, CPUStep(c), Shows(p, n, v),
           UNCHANGED <<userMemory, pageBases>>, stage'[p] # "SWAPPED",
           \A i \in Slot[c] : /\ cache'[c][i].pid = cache[c][i].pid
                              /\ cache'[c][i].page = cache[c][i].page
                              /\ cache'[c][i].content = cache[c][i].content
    PROVE  Shows(p, n, v)'
  <1>1. stage[p] = "EXEC"
    BY PidAssumption, Running DEF AllInv
  <1>2. Stored(p, n)' = Stored(p, n)
    BY <1>1 DEF Stored
  <1>3. \A i \in Slot[c] : CachedAt(c, i, p, n)' <=> CachedAt(c, i, p, n)
    BY DEF CachedAt
  <1>4. (\A i \in Slot[c] : ~CachedAt(c, i, p, n)) => ~Cached(p, n)
    <2>1. ASSUME NEW d \in CPUs, NEW i \in Slot[d], CachedAt(d, i, p, n)
          PROVE  d = c
      <3>1. cpu[d] = p
        BY <2>1, CachedThere
      <3>. QED BY <3>1, PidAssumption DEF AllInv, TInv, RunsOne
    <2>. QED BY <2>1 DEF Cached
  <1>5. \A i \in Slot[c] : CachedAt(c, i, p, n)' => cache'[c][i].content = v
    BY <1>3 DEF Shows
  <1>6. (\A i \in Slot[c] : ~CachedAt(c, i, p, n)') => Stored(p, n)' = v
    BY <1>2, <1>3, <1>4 DEF Shows
  <1>. QED BY <1>5, <1>6, OwnShows

\* A page that is written back.
LEMMA SavedPage ==
    ASSUME AllInv, NEW c \in CPUs, NEW p \in Procs, cpu[c] = p,
           NEW page \in Page, HasFrame(p, page),
           NEW content \in Content, SavePageInMemory(c, p, page, content),
           NEW n \in DOMAIN pageBases[p]
    PROVE  /\ n = PageIndex(page) => userMemory'[pageBases[p][n]] = content
           /\ n # PageIndex(page) => userMemory'[pageBases[p][n]] = userMemory[pageBases[p][n]]
  <1>. DEFINE f == pageBases[p][PageIndex(page)]
  <1>0. p \in Resident /\ TInv
    BY Running, PidAssumption DEF AllInv
  <1>1. Found(c, p, page)
    BY DEF Found
  <1>2. Translated(c, p, page) = f
    BY <1>0, <1>1, TranslatedIsRight DEF AllInv, LogicAddressToFrame
  <1>3. PageIndex(page) \in DOMAIN pageBases[p]
    BY DEF HasFrame
  <1>4. HasPage(p, f)
    BY <1>3 DEF HasPage
  <1>5. DOMAIN content = 0 .. PageSize - 1
    BY DEF Content
  <1>6. userMemory' = [userMemory EXCEPT ![f] = content]
    BY <1>2, <1>4, <1>5 DEF SavePageInMemory
  <1>7. /\ pageBases[p][n] \in Frame /\ f \in Frame /\ DOMAIN userMemory = Frame
        /\ pageBases[p][n] = f => n = PageIndex(page)
    <2>1. pageBases[p] \in [0 .. PageCount[p] - 1 -> Frame] /\ DOMAIN userMemory = Frame
      BY <1>0 DEF AllInv, FramesInv, Tables, TInv, TypeOK
    <2>2. pageBases[p][n] = f => n = PageIndex(page)
      BY <1>0, <1>3 DEF AllInv, FramesInv, Exclusive
    <2>. QED BY <1>3, <2>1, <2>2
  <1>. HIDE DEF f
  <1>8. pageBases[p][n] = f <=> n = PageIndex(page)
    BY <1>7 DEF f
  <1>9. CASE n = PageIndex(page)
    BY <1>6, <1>7, <1>8, <1>9
  <1>10. CASE n # PageIndex(page)
    BY <1>6, <1>7, <1>8, <1>10
  <1>. QED BY <1>9, <1>10

LEMMA SavedEntry ==
    ASSUME AllInv, NEW c \in CPUs, NEW p \in Procs, cpu[c] = p,
           NEW e, e.page \in Page, HasFrame(p, e.page), e.content \in Content,
           SavePageInMemory(c, p, e.page, e.content), NEW n \in DOMAIN pageBases[p]
    PROVE  /\ n = PageIndex(e.page) => userMemory'[pageBases[p][n]] = e.content
           /\ n # PageIndex(e.page) => userMemory'[pageBases[p][n]] = userMemory[pageBases[p][n]]
  <1>1. PICK page \in Page, x \in Content : page = e.page /\ x = e.content
    OBVIOUS
  <1>2. HasFrame(p, page) /\ SavePageInMemory(c, p, page, x)
    BY <1>1
  <1>3. /\ n = PageIndex(page) => userMemory'[pageBases[p][n]] = x
        /\ n # PageIndex(page) => userMemory'[pageBases[p][n]] = userMemory[pageBases[p][n]]
    BY <1>2, SavedPage
  <1>. QED BY <1>1, <1>3

\* The page that has been fetched is the one that memoria has.
LEMMA HeldPage ==
    ASSUME AllInv, MInv, NEW c \in CPUs, Holds(c), at[c] # "get", cpu[c] # NoPid,
           at[c] \in Active
    PROVE  LET m == PageIndex(job[c].page)
           IN  /\ job[c].page \in Page /\ HasFrame(cpu[c], job[c].page)
               /\ m \in DOMAIN pageBases[cpu[c]]
               /\ job[c].buffer = userMemory[pageBases[cpu[c]][m]]
               /\ job[c].buffer \in Content
  <1>0. TInv /\ cpu[c] \in Resident
    BY Running DEF AllInv
  <1>1. HasFrame(cpu[c], job[c].page) /\ job[c].frame = LogicAddressToFrame(cpu[c], job[c].page)
    BY DEF AllInv, CInv, COwn, Located
  <1>2. job[c].buffer = userMemory[job[c].frame]
    BY DEF MInv, Buffered
  <1>3. PageIndex(job[c].page) \in DOMAIN pageBases[cpu[c]]
    BY <1>1 DEF HasFrame
  <1>4. pageBases[cpu[c]][PageIndex(job[c].page)] \in Frame
    BY <1>0, <1>3 DEF AllInv, FramesInv, Tables
  <1>5. job[c].buffer \in Content
    BY <1>0, <1>1, <1>2, <1>4 DEF LogicAddressToFrame, TInv, TypeOK
  <1>6. job[c].page \in Page
    BY <1>0, ActiveFacts
  <1>. QED BY <1>1, <1>2, <1>3, <1>5, <1>6 DEF LogicAddressToFrame

LEMMA ScansShow ==
    ASSUME AllInv, MInv, NEW p \in Procs, NEW n \in 0 .. PageCount[p] - 1, NEW v,
           NEW c \in CPUs, cpu[c] = p, Scans(c), Shows(p, n, v)
    PROVE  Shows(p, n, v)'
  <1>h. PICK h \in Slot[c] : h = Hand(c)
    BY HandTurns DEF AllInv
  <1>. DEFINE e == cache[c][h]
              m == PageIndex(job[c].page)
  <1>0. /\ TInv /\ cpu[c] # NoPid /\ stage[p] = "EXEC" /\ CPUStep(c)
        /\ UNCHANGED <<pageBases, stage, cpu>> /\ at[c] = "scan"
        /\ n \in DOMAIN pageBases[p] /\ CacheEnable(c)
    <2>1. TInv /\ cpu[c] # NoPid
      BY PidAssumption DEF AllInv
    <2>2. p \in Resident /\ stage[p] = "EXEC"
      BY <2>1, Running
    <2>3. UNCHANGED <<pageBases, stage, cpu>> /\ at[c] = "scan"
      BY DEF Scans
    <2>4. CPUStep(c)
      BY DEF CPUStep
    <2>. QED BY <2>1, <2>2, <2>3, <2>4, HandTurns DEF AllInv, FramesInv, Tables
  <1>1. CASE ~Chosen(c, e)
    <2>1. /\ cache'[c] = HandMoved(cache[c], h, Passed(c, e)) /\ UNCHANGED userMemory
          /\ e \in CacheEntry
      BY <1>h, <1>0, <1>1, HandTurns
    <2>2. Passed(c, e) \in CacheEntry /\ Passed(c, e).pid = e.pid /\ Passed(c, e).page = e.page
          /\ Passed(c, e).content = e.content
      <3>. HIDE DEF e
      <3>. QED BY <1>0, <2>1, PassedFields
    <2>3. ASSUME NEW i \in Slot[c]
          PROVE  /\ cache'[c][i].pid = cache[c][i].pid
                 /\ cache'[c][i].page = cache[c][i].page
                 /\ cache'[c][i].content = cache[c][i].content
      BY <1>0, <2>1, <2>2, HandMovedFields
    <2>. QED BY <1>0, <2>1, <2>3, SameShows
  <1>2. CASE Chosen(c, e)
    <2>1. cache'[c] = HandMoved(cache[c], h, Fetched(c)) /\ Fetched(c) \in CacheEntry
      BY <1>h, <1>0, <1>2, HandTurns
    <2>2. \/ e.pid = NoPid /\ UNCHANGED userMemory
          \/ /\ e.pid = p /\ e.page \in Page /\ HasFrame(p, e.page) /\ e.content \in Content
             /\ SavePageInMemory(c, p, e.page, e.content)
      BY <1>h, <1>2, VictimSaved
    <2>3. /\ job[c].page \in Page /\ m \in DOMAIN pageBases[p]
          /\ job[c].buffer = userMemory[pageBases[p][m]]
      BY <1>0, HeldPage DEF Holds, Active
    <2>4. \A i \in Slot[c] : cache[c][i].page # job[c].page
      BY <1>0 DEF AllInv, OInv, NotYetCached
    <2>5. ASSUME NEW d \in CPUs, NEW i \in Slot[d]
          PROVE  ~CachedAt(d, i, p, m)
      <3>1. SUFFICES ASSUME CachedAt(d, i, p, m)
                     PROVE  FALSE
        OBVIOUS
      <3>2. cpu[d] = p /\ cache[d][i].page \in Page
        BY <3>1, CachedThere
      <3>3. d = c
        BY <1>0, <3>2 DEF TInv, RunsOne
      <3>4. cache[c][i].page = job[c].page
        BY <2>3, <3>1, <3>2, <3>3, IndexIsInjective DEF CachedAt
      <3>. QED BY <2>4, <3>3, <3>4
    <2>. HIDE DEF m
    <2>6. /\ cache'[c][h].pid = p /\ cache'[c][h].page = job[c].page
          /\ cache'[c][h].content = job[c].buffer
      BY <1>0, <2>1, HandMovedFields DEF Fetched
    <2>7. \A i \in Slot[c] \ {h} : /\ cache'[c][i].pid = cache[c][i].pid
                                   /\ cache'[c][i].page = cache[c][i].page
                                   /\ cache'[c][i].content = cache[c][i].content
      BY <1>0, <2>1, HandMovedFields
    <2>8. CASE n = m
      <3>1. Stored(p, n) = v
        BY <2>5, <2>8 DEF Shows, Cached
      <3>2. job[c].buffer = v
        BY <1>0, <2>3, <2>8, <3>1 DEF Stored
      <3>3. ASSUME NEW i \in Slot[c], CachedAt(c, i, p, n)'
            PROVE  i = h
        BY <2>5, <2>7, <2>8, <3>3 DEF CachedAt
      <3>4. CachedAt(c, h, p, n)'
        BY <2>6, <2>8 DEF CachedAt, m
      <3>. QED BY <1>0, <2>6, <3>2, <3>3, <3>4, OwnShows
    <2>9. CASE n # m
      <3>1. ~CachedAt(c, h, p, n)'
        BY <2>6, <2>9 DEF CachedAt, m
      <3>2. ASSUME NEW i \in Slot[c], CachedAt(c, i, p, n)'
            PROVE  cache'[c][i].content = v
        <4>1. i # h
          BY <3>1, <3>2
        <4>2. CachedAt(c, i, p, n)
          BY <2>7, <3>2, <4>1 DEF CachedAt
        <4>. QED BY <2>7, <4>1, <4>2 DEF Shows
      <3>3. ASSUME \A i \in Slot[c] : ~CachedAt(c, i, p, n)'
            PROVE  Stored(p, n)' = v
        <4>1. \A i \in Slot[c] : CachedAt(c, i, p, n) => i = h
          BY <2>7, <3>3 DEF CachedAt
        <4>2. Stored(p, n)' = userMemory'[pageBases[p][n]]
          BY <1>0 DEF Stored
        <4>3. CASE CachedAt(c, h, p, n)
          <5>1. e.pid = p /\ n = PageIndex(e.page) /\ e.content = v
            BY <1>0, <4>3 DEF CachedAt, Shows
          <5>2. /\ e.page \in Page /\ HasFrame(p, e.page) /\ e.content \in Content
                /\ SavePageInMemory(c, p, e.page, e.content)
            BY <1>0, <2>2, <5>1
          <5>. HIDE DEF e
          <5>3. userMemory'[pageBases[p][n]] = e.content
            BY <1>0, <5>1, <5>2, SavedEntry
          <5>. QED BY <4>2, <5>1, <5>3
        <4>4. CASE ~CachedAt(c, h, p, n)
          <5>1. ~Cached(p, n)
            <6>1. ASSUME NEW d \in CPUs, NEW i \in Slot[d], CachedAt(d, i, p, n)
                  PROVE  d = c
              <7>1. cpu[d] = p
                BY <6>1, CachedThere
              <7>. QED BY <1>0, <7>1 DEF TInv, RunsOne
            <6>. QED BY <4>1, <4>4, <6>1 DEF Cached
          <5>2. userMemory[pageBases[p][n]] = v
            BY <1>0, <5>1 DEF Shows, Stored
          <5>3. e.pid = p => n # PageIndex(e.page)
            BY <4>4 DEF CachedAt
          <5>. HIDE DEF e
          <5>. QED BY <1>0, <2>2, <4>2, <5>2, <5>3, SavedEntry
        <4>. QED BY <4>3, <4>4
      <3>. QED BY <1>0, <3>2, <3>3, OwnShows
    <2>. QED BY <2>8, <2>9
  <1>. QED BY <1>1, <1>2

LEMMA FlushesShow ==
    ASSUME AllInv, MInv, NEW p \in Procs, NEW n \in 0 .. PageCount[p] - 1, NEW v,
           NEW c \in CPUs, cpu[c] = p, Flushes(c), Shows(p, n, v)
    PROVE  Shows(p, n, v)'
  <1>h. PICK h \in Slot[c] : h = Least(Entries(c, cpu[c]))
    BY FlushedEntry DEF AllInv
  <1>. DEFINE e == cache[c][h]
  <1>0. /\ TInv /\ cpu[c] # NoPid /\ stage[p] = "EXEC" /\ CPUStep(c)
        /\ UNCHANGED <<pageBases, stage, cpu>>
        /\ n \in DOMAIN pageBases[p] /\ e.pid = p /\ e.page \in Page
        /\ cache' = [cache EXCEPT ![c][h] = EmptyEntry]
    <2>1. TInv /\ cpu[c] # NoPid
      BY PidAssumption DEF AllInv
    <2>2. p \in Resident /\ stage[p] = "EXEC"
      BY <2>1, Running
    <2>3. CPUStep(c)
      BY DEF CPUStep
    <2>. QED BY <1>h, <2>1, <2>2, <2>3, FlushedEntry DEF AllInv, FramesInv, Tables
  <1>1. DOMAIN cache = CPUs /\ DOMAIN cache[c] = Slot[c]
    BY <1>0 DEF TInv, TypeOK
  <1>2. /\ HasFrame(p, e.page) /\ e.content \in Content
        /\ e.modified \/ e.content = userMemory[pageBases[p][PageIndex(e.page)]]
    BY <1>0 DEF MInv, Kept, LogicAddressToFrame
  <1>3. /\ ~e.modified => UNCHANGED userMemory
        /\ e.modified => SavePageInMemory(c, p, e.page, e.content)
    <2>1. Found(c, p, e.page)
      BY <1>2 DEF Found
    <2>. QED BY <1>h, <1>0, <2>1 DEF Flushes
  <1>4. \A i \in Slot[c] \ {h} : cache'[c][i] = cache[c][i]
    BY <1>0, <1>1
  <1>5. ~CachedAt(c, h, p, n)'
    <2>1. cache'[c][h].pid = NoPid
      BY <1>0, <1>1 DEF EmptyEntry
    <2>. QED BY <1>0, <2>1 DEF CachedAt
  <1>6. Stored(p, n)' = userMemory'[pageBases[p][n]]
    BY <1>0 DEF Stored
  <1>7. ASSUME NEW i \in Slot[c], CachedAt(c, i, p, n)'
        PROVE  cache'[c][i].content = v
    <2>1. i # h
      BY <1>5, <1>7
    <2>2. CachedAt(c, i, p, n)
      BY <1>4, <1>7, <2>1 DEF CachedAt
    <2>. QED BY <1>4, <2>1, <2>2 DEF Shows
  <1>8. ASSUME \A i \in Slot[c] : ~CachedAt(c, i, p, n)'
        PROVE  Stored(p, n)' = v
    <2>1. \A i \in Slot[c] : CachedAt(c, i, p, n) => i = h
      BY <1>4, <1>8 DEF CachedAt
    <2>2. CASE CachedAt(c, h, p, n)
      <3>1. n = PageIndex(e.page) /\ e.content = v
        BY <2>2 DEF CachedAt, Shows
      <3>. HIDE DEF e
      <3>2. e.modified => userMemory'[pageBases[p][n]] = e.content
        BY <1>0, <1>2, <1>3, <3>1, SavedEntry
      <3>. QED BY <1>2, <1>3, <1>6, <3>1, <3>2
    <2>3. CASE ~CachedAt(c, h, p, n)
      <3>1. ~Cached(p, n)
        <4>1. ASSUME NEW d \in CPUs, NEW i \in Slot[d], CachedAt(d, i, p, n)
              PROVE  d = c
          <5>1. cpu[d] = p
            BY <4>1, CachedThere
          <5>. QED BY <1>0, <5>1 DEF TInv, RunsOne
        <4>. QED BY <2>1, <2>3, <4>1 DEF Cached
      <3>2. userMemory[pageBases[p][n]] = v
        BY <1>0, <3>1 DEF Shows, Stored
      <3>3. n # PageIndex(e.page)
        BY <1>0, <2>3 DEF CachedAt
      <3>. HIDE DEF e
      <3>4. e.modified => userMemory'[pageBases[p][n]] = userMemory[pageBases[p][n]]
        BY <1>0, <1>2, <1>3, <3>3, SavedEntry
      <3>. QED BY <1>3, <1>6, <3>2, <3>4
    <2>. QED BY <2>2, <2>3
  <1>. QED BY <1>0, <1>7, <1>8, OwnShows

\* What a WRITE makes of a page.
Rewritten(c, n, v) == IF n = PageIndex(job[c].page) THEN Written(c, v) ELSE v

LEMMA WritesCacheShows ==
    ASSUME AllInv, XInv, NEW p \in Procs, NEW n \in 0 .. PageCount[p] - 1, NEW v, NEW w,
           NEW c \in CPUs, cpu[c] = p, WritesCache(c), Shows(p, n, v), w = Rewritten(c, n, v)
    PROVE  Shows(p, n, w)'
  <1>h. PICK h \in Slot[c] : /\ h = Least(Slots(c, job[c].page))
                             /\ cache[c][h].page = job[c].page
                             /\ cache[c][h].pid = p /\ job[c].page \in Page
    <2>1. at[c] = "copy" /\ CacheEnable(c) /\ TInv
      BY DEF WritesCache, AllInv
    <2>2. \E i \in Slot[c] : cache[c][i].page = job[c].page
      BY <2>1 DEF XInv, XOwn, CopyCached
    <2>3. Slots(c, job[c].page) # {} /\ Slots(c, job[c].page) \subseteq Nat
      BY <2>2, ConfigAssumption DEF Slots, Slot
    <2>4. Least(Slots(c, job[c].page)) \in Slots(c, job[c].page)
      BY <2>3, LeastIsLeast
    <2>5. job[c].page \in Page
      BY <2>1, ActiveFacts DEF Active
    <2>6. \A i \in Slot[c] : cache[c][i].page = job[c].page => cache[c][i].pid # NoPid
      BY <2>5, PageIsAPage DEF XInv, XOwn, EmptyPages
    <2>7. \A i \in Slot[c] : cache[c][i].page = job[c].page => cache[c][i].pid = p
      BY <2>6, OwnEntry
    <2>. QED BY <2>4, <2>5, <2>7 DEF Slots
  <1>. DEFINE m == PageIndex(job[c].page)
  <1>0. /\ TInv /\ cpu[c] # NoPid /\ stage[p] = "EXEC" /\ CPUStep(c)
        /\ UNCHANGED <<pageBases, stage, cpu, userMemory>>
    <2>1. TInv /\ cpu[c] # NoPid
      BY PidAssumption DEF AllInv
    <2>2. stage[p] = "EXEC"
      BY <2>1, Running
    <2>3. UNCHANGED <<pageBases, stage, cpu, userMemory>>
      BY DEF WritesCache, memoria
    <2>. QED BY <2>1, <2>2, <2>3 DEF CPUStep
  <1>1. cache' = [cache EXCEPT ![c][h] = WrittenEntry(@, Written(c, @.content), TRUE)]
    BY <1>h, Zenon DEF WritesCache
  <1>2. DOMAIN cache = CPUs /\ DOMAIN cache[c] = Slot[c]
    BY <1>0 DEF TInv, TypeOK
  <1>3. /\ cache'[c][h].pid = p /\ cache'[c][h].page = job[c].page
        /\ cache'[c][h].content = Written(c, cache[c][h].content)
    BY <1>h, <1>1, <1>2 DEF WrittenEntry
  <1>4. \A i \in Slot[c] \ {h} : cache'[c][i] = cache[c][i]
    BY <1>1, <1>2
  <1>5. Stored(p, n)' = Stored(p, n)
    BY <1>0 DEF Stored
  <1>6. CachedAt(c, h, p, m)
    BY <1>h DEF CachedAt
  <1>. HIDE DEF m
  <1>7. CASE n = m
    <2>1. \A i \in Slot[c] : CachedAt(c, i, p, n) => i = h
      BY <1>6, <1>7, CachedThere
    <2>2. ASSUME NEW i \in Slot[c], CachedAt(c, i, p, n)'
          PROVE  i = h
      <3>1. CASE i # h
        BY <1>4, <2>1, <2>2, <3>1 DEF CachedAt
      <3>. QED BY <3>1
    <2>3. cache'[c][h].content = w
      <3>1. cache[c][h].content = v
        BY <1>6, <1>7 DEF Shows
      <3>. QED BY <1>3, <1>7, <3>1 DEF Rewritten, m
    <2>4. CachedAt(c, h, p, n)'
      BY <1>3, <1>7 DEF CachedAt, m
    <2>. QED BY <1>0, <2>2, <2>3, <2>4, OwnShows
  <1>8. CASE n # m
    <2>1. w = v
      BY <1>8 DEF Rewritten, m
    <2>2. ~CachedAt(c, h, p, n) /\ ~CachedAt(c, h, p, n)'
      BY <1>h, <1>3, <1>8 DEF CachedAt, m
    <2>3. ASSUME NEW i \in Slot[c]
          PROVE  /\ CachedAt(c, i, p, n)' <=> CachedAt(c, i, p, n)
                 /\ CachedAt(c, i, p, n)' => cache'[c][i].content = v
      <3>1. CASE i = h
        BY <2>2, <3>1
      <3>2. CASE i # h
        BY <1>4, <3>2 DEF CachedAt, Shows
      <3>. QED BY <3>1, <3>2
    <2>4. (\A i \in Slot[c] : ~CachedAt(c, i, p, n)) => ~Cached(p, n)
      <3>1. ASSUME NEW d \in CPUs, NEW i \in Slot[d], CachedAt(d, i, p, n)
            PROVE  d = c
        <4>1. cpu[d] = p
          BY <3>1, CachedThere
        <4>. QED BY <1>0, <4>1 DEF TInv, RunsOne
      <3>. QED BY <3>1 DEF Cached
    <2>5. ASSUME \A i \in Slot[c] : ~CachedAt(c, i, p, n)'
          PROVE  Stored(p, n)' = v
      BY <1>5, <2>3, <2>4, <2>5 DEF Shows
    <2>. QED BY <1>0, <2>1, <2>3, <2>5, OwnShows
  <1>. QED BY <1>7, <1>8

LEMMA WritesThroughShows ==
    ASSUME AllInv, MInv, NEW p \in Procs, NEW n \in 0 .. PageCount[p] - 1, NEW v, NEW w,
           NEW c \in CPUs, cpu[c] = p, WritesThrough(c), Shows(p, n, v), w = Rewritten(c, n, v)
    PROVE  Shows(p, n, w)'
  <1>. DEFINE m == PageIndex(job[c].page)
  <1>0. /\ TInv /\ cpu[c] # NoPid /\ stage[p] = "EXEC" /\ CPUStep(c) /\ n \in DOMAIN pageBases[p]
        /\ UNCHANGED <<pageBases, stage, cpu>> /\ at[c] = "copy" /\ ~CacheEnable(c)
        /\ SavePageInMemory(c, p, job[c].page, Written(c, job[c].buffer))
        /\ doing[c].kind = "write"
    <2>1. TInv /\ cpu[c] # NoPid
      BY PidAssumption DEF AllInv
    <2>2. p \in Resident /\ stage[p] = "EXEC"
      BY <2>1, Running
    <2>3. UNCHANGED <<pageBases, stage, cpu>> /\ at[c] = "copy" /\ ~CacheEnable(c)
          /\ SavePageInMemory(c, p, job[c].page, Written(c, job[c].buffer))
          /\ doing[c].kind = "write"
      BY DEF WritesThrough
    <2>4. CPUStep(c)
      BY DEF CPUStep
    <2>. QED BY <2>1, <2>2, <2>3, <2>4 DEF AllInv, FramesInv, Tables
  <1>1. Slot[c] = {}
    BY <1>0 DEF CacheEnable, Slot
  <1>2. /\ job[c].page \in Page /\ HasFrame(p, job[c].page)
        /\ job[c].buffer = userMemory[pageBases[p][m]] /\ job[c].buffer \in Content
    BY <1>0, HeldPage DEF Holds, Active
  <1>3. Written(c, job[c].buffer) \in Content
    <2>1. Written(c, job[c].buffer) \in Content \union {NoBytes}
      BY <1>0, <1>2, WrittenIsContent DEF Active
    <2>2. DOMAIN Written(c, job[c].buffer) = 0 .. PageSize - 1
      BY <1>2 DEF Written, Content
    <2>3. 0 \in 0 .. PageSize - 1
      BY SizesAssumption
    <2>4. DOMAIN NoBytes = {}
      BY DEF NoBytes
    <2>. QED BY <2>1, <2>2, <2>3, <2>4
  <1>4. PICK page \in Page, x \in Content : page = job[c].page /\ x = Written(c, job[c].buffer)
    BY <1>2, <1>3
  <1>5. HasFrame(p, page) /\ SavePageInMemory(c, p, page, x)
    BY <1>0, <1>2, <1>4
  <1>6. /\ n = m => userMemory'[pageBases[p][n]] = x
        /\ n # m => userMemory'[pageBases[p][n]] = userMemory[pageBases[p][n]]
    <2>1. /\ n = PageIndex(page) => userMemory'[pageBases[p][n]] = x
          /\ n # PageIndex(page) => userMemory'[pageBases[p][n]] = userMemory[pageBases[p][n]]
      <3>1. n \in DOMAIN pageBases[p]
        BY <1>0
      <3>. QED BY <1>5, <3>1, SavedPage, Z3
    <2>. QED BY <1>4, <2>1
  <1>7. userMemory[pageBases[p][n]] = v
    <2>1. ~Cached(p, n)
      <3>1. ASSUME NEW d \in CPUs, NEW i \in Slot[d], CachedAt(d, i, p, n)
            PROVE  d = c
        <4>1. cpu[d] = p
          BY <3>1, CachedThere
        <4>. QED BY <1>0, <4>1 DEF TInv, RunsOne
      <3>. QED BY <1>1, <3>1 DEF Cached
    <2>. QED BY <1>0, <2>1 DEF Shows, Stored
  <1>. HIDE DEF m
  <1>8. n = m => w = x
    BY <1>2, <1>4, <1>7 DEF Rewritten, m
  <1>9. n # m => w = v
    BY DEF Rewritten, m
  <1>10. userMemory'[pageBases[p][n]] = w
    BY <1>6, <1>7, <1>8, <1>9
  <1>11. Stored(p, n)' = w
    BY <1>0, <1>10 DEF Stored
  <1>. QED BY <1>0, <1>1, <1>11, OwnShows

Writes(c) == WritesCache(c) \/ WritesThrough(c)

\* What no WRITE of its own changes, a process goes on to see until it ends.
LEMMA StepShows ==
    ASSUME AllInv, AllInv', MInv, XInv, [Next]_vars,
           NEW p \in Procs, stage[p] \notin {"NEW", "EXIT"}, stage'[p] # "EXIT",
           \A c \in CPUs : cpu[c] = p => ~Writes(c),
           NEW n \in 0 .. PageCount[p] - 1, NEW v, Shows(p, n, v)
    PROVE  Shows(p, n, v)'
  <1>1. CASE \A c \in CPUs : cpu[c] # p
    BY <1>1, IdleShows
  <1>2. ASSUME NEW c \in CPUs, cpu[c] = p
        PROVE  Shows(p, n, v)'
    <2>0. TInv /\ cpu[c] # NoPid /\ stage[p] = "EXEC" /\ TypeOK
      BY <1>2, PidAssumption, Running DEF AllInv, TInv
    <2>1. CASE ~CPUStep(c)
      BY <1>2, <2>1, WaitingShows
    <2>2. ASSUME CPUStep(c), UNCHANGED <<userMemory, pageBases, cache>>, stage'[p] # "SWAPPED"
          PROVE  Shows(p, n, v)'
      BY <1>2, <2>2, SameShows
    <2>3. CASE (\E q \in Procs : \E r \in Requests[q] : Begins(c, q, r)) \/ Translates(c)
               \/ Gets(c)
      <3>1. UNCHANGED <<memoria, cache>> /\ CPUStep(c)
        BY <2>3 DEF Begins, Translates, Gets, CPUStep
      <3>. QED BY <2>0, <2>2, <3>1 DEF memoria
    <2>4. CASE Scans(c)
      BY <1>2, <2>4, ScansShow
    <2>5. CASE Flushes(c)
      BY <1>2, <2>5, FlushesShow
    <2>6. CASE ReadsCache(c) \/ ReadsThrough(c)
      <3>1. CPUStep(c)
        BY <2>6 DEF CPUStep
      <3>2. UNCHANGED memoria
        BY <2>6 DEF ReadsCache, ReadsThrough
      <3>3. ~WritesCache(c)
        BY <1>2 DEF Writes
      <3>4. \A i \in Slot[c] : /\ cache'[c][i].pid = cache[c][i].pid
                               /\ cache'[c][i].page = cache[c][i].page
                               /\ cache'[c][i].content = cache[c][i].content
        BY <2>0, <2>6, <3>3, CopyChanges
      <3>. QED BY <1>2, <2>0, <3>1, <3>2, <3>4, SameShows DEF memoria
    <2>7. CASE Syscalls(c) \/ Interrupted(c)
      <3>1. CPUStep(c)
        BY <2>7 DEF CPUStep
      <3>2. UNCHANGED <<userMemory, pageBases, cache>> /\ stage'[p] # "SWAPPED"
        BY <1>2, <2>0, <2>7 DEF Syscalls, Interrupted, LeavesFor, TypeOK
      <3>. QED BY <2>2, <3>1, <3>2
    <2>8. ~Exits(c)
      <3>1. Exits(c) => stage'[p] = "EXIT"
        BY <1>2, <2>0 DEF Exits, LeavesFor, TypeOK
      <3>. QED BY <3>1
    <2>9. ~(\E q \in Procs : Dispatches(c, q))
      BY <2>0 DEF Dispatches
    <2>. QED BY <1>2, <2>1, <2>3, <2>4, <2>5, <2>6, <2>7, <2>8, <2>9 DEF CPUStep, Writes
  <1>. QED BY <1>1, <1>2

-----------------------------------------------------------------------------
(* The array of a process *)

Gone(p) == stage[p] \in {"NEW", "EXIT"}

\* A process comes with Admits and goes with the Exits of its CPU.
LEMMA ComesAndGoes ==
    ASSUME TInv, [Next]_vars, NEW p \in Procs
    PROVE  \/ Admits(p) /\ stage[p] = "NEW" /\ stage'[p] = "READY"
           \/ /\ ~Gone(p) /\ stage'[p] = "EXIT"
              /\ \E c \in CPUs : cpu[c] = p /\ Exits(c)
           \/ ~Gone(p) /\ ~Gone(p)'
           \/ Gone(p) /\ Gone(p)'
  <1>0. DOMAIN stage = Procs
    BY DEF TInv, TypeOK
  <1>1. CASE stage'[p] = stage[p]
    BY <1>1 DEF Gone
  <1>2. ASSUME NEW c \in CPUs, CPUStep(c), stage'[p] # stage[p]
        PROVE  \/ /\ ~Gone(p) /\ stage'[p] = "EXIT" /\ cpu[c] = p /\ Exits(c)
               \/ ~Gone(p) /\ ~Gone(p)'
    <2>1. CASE \E q \in Procs : Dispatches(c, q)
      BY <1>0, <1>2, <2>1 DEF Dispatches, Gone
    <2>2. CASE Syscalls(c) \/ Interrupted(c) \/ Exits(c)
      <3>1. cpu[c] # NoPid
        BY <2>2, ActiveRuns DEF Syscalls, Interrupted, Exits, Flushed
      <3>2. cpu[c] = p
        BY <1>0, <1>2, <2>2 DEF Syscalls, Interrupted, Exits, LeavesFor
      <3>3. stage[p] = "EXEC"
        BY <3>1, <3>2, Running
      <3>. QED BY <1>0, <2>2, <3>2, <3>3 DEF Syscalls, Interrupted, Exits, LeavesFor, Gone
    <2>. QED BY <1>2, <2>1, <2>2, TablesKept
  <1>3. ASSUME NEW q \in Procs, ProcStep(q), stage'[p] # stage[p]
        PROVE  \/ Admits(p) /\ stage[p] = "NEW" /\ stage'[p] = "READY"
               \/ ~Gone(p) /\ ~Gone(p)'
    BY <1>0, <1>3 DEF ProcStep, Admits, Unblocks, Suspends, Returns, Gone
  <1>4. UNCHANGED vars => stage'[p] = stage[p]
    BY DEF vars, memoria
  <1>. QED BY <1>1, <1>2, <1>3, <1>4, StepsOfWhom

LEMMA SeenArray ==
    ASSUME NEW p \in Procs
    PROVE  /\ SizeOf[p] \in Nat
           /\ Seen[p] = IF Gone(p) THEN NoBytes
                        ELSE [a \in 0 .. SizeOf[p] - 1 |-> PageSeen(p, a \div PageSize)[a % PageSize]]
  BY SizesAssumption DEF Seen, SizeOf, Gone

\* The page of an address, and its place in it.
LEMMA AddressParts ==
    ASSUME NEW p \in Procs, NEW a \in 0 .. SizeOf[p] - 1
    PROVE  /\ a \in Nat /\ a \div PageSize \in 0 .. PageCount[p] - 1
           /\ a % PageSize \in 0 .. PageSize - 1
  <1>1. /\ PageCount[p] \in Nat /\ PageSize \in Nat \ {0} /\ SizeOf[p] = PageSize * PageCount[p]
        /\ PageSize * PageCount[p] \in Nat
    BY SizesAssumption DEF SizeOf
  <1>2. a \in Nat /\ a < PageSize * PageCount[p]
    BY <1>1
  <1>3. a \div PageSize \in Nat /\ a % PageSize \in 0 .. PageSize - 1
    BY <1>1, <1>2, Divided
  <1>4. a \div PageSize < PageCount[p]
    BY <1>1, <1>2, DivideBelow
  <1>. QED BY <1>1, <1>2, <1>3, <1>4

LEMMA PageIsContent ==
    ASSUME AllInv, MInv, NEW p \in Procs, ~Gone(p), NEW n \in 0 .. PageCount[p] - 1
    PROVE  PageSeen(p, n) \in Content
  <1>0. Shows(p, n, PageSeen(p, n)) /\ TypeOK
    BY SeenIsShown DEF AllInv, TInv
  <1>1. ASSUME NEW c \in CPUs, NEW i \in Slot[c], CachedAt(c, i, p, n)
        PROVE  PageSeen(p, n) \in Content
    <2>1. cache[c][i].pid # NoPid
      BY <1>1, PidAssumption DEF CachedAt
    <2>. QED BY <1>0, <1>1, <2>1 DEF MInv, Kept, Shows
  <1>2. Stored(p, n) \in Content
    <2>1. CASE stage[p] = "SWAPPED"
      BY <2>1 DEF Stored, AllInv, FramesInv, Tables
    <2>2. CASE stage[p] # "SWAPPED"
      <3>1. p \in Resident
        BY <1>0, <2>2 DEF TypeOK, Stages, Resident, Gone
      <3>2. pageBases[p][n] \in Frame
        BY <3>1 DEF AllInv, FramesInv, Tables
      <3>. QED BY <1>0, <2>2, <3>2 DEF Stored, TypeOK
    <2>. QED BY <2>1, <2>2
  <1>. QED BY <1>0, <1>1, <1>2 DEF Shows, Cached

PagesAreContent == AllInv /\ MInv =>
    \A p \in Procs : ~Gone(p) => \A n \in 0 .. PageCount[p] - 1 : PageSeen(p, n) \in Content

LEMMA PagesHaveContent == PagesAreContent
  BY PageIsContent DEF PagesAreContent

\* Only a WRITE of its own changes what a process sees, from its admission to its end.
LEMMA ArrayKept ==
    ASSUME AllInv, AllInv', MInv, XInv, [Next]_vars, NEW p \in Procs,
           \A c \in CPUs : cpu[c] = p => ~Writes(c), Gone(p) <=> Gone(p)'
    PROVE  Seen'[p] = Seen[p]
  <1>1. CASE Gone(p)
    BY <1>1 DEF Gone, Seen
  <1>2. CASE ~Gone(p)
    <2>1. ASSUME NEW n \in 0 .. PageCount[p] - 1
          PROVE  PageSeen(p, n)' = PageSeen(p, n)
      <3>1. PICK v : v = PageSeen(p, n)
        OBVIOUS
      <3>2. Shows(p, n, v)
        BY <3>1, SeenIsShown
      <3>3. Shows(p, n, v)'
        BY <1>2, <3>2, StepShows DEF Gone
      <3>4. PageSeen(p, n)' = v
        BY <3>3, ShownSeenAfter DEF ShownIsSeen
      <3>. QED BY <3>1, <3>4
    <2>2. ASSUME NEW a \in 0 .. SizeOf[p] - 1
          PROVE  PageSeen(p, a \div PageSize)'[a % PageSize] = PageSeen(p, a \div PageSize)[a % PageSize]
      BY <2>1, AddressParts
    <2>3. Seen'[p] = [a \in 0 .. SizeOf[p] - 1 |-> PageSeen(p, a \div PageSize)'[a % PageSize]]
      BY <1>2 DEF Seen, Gone, SizeOf
    <2>4. Seen[p] = [a \in 0 .. SizeOf[p] - 1 |-> PageSeen(p, a \div PageSize)[a % PageSize]]
      BY <1>2, SeenArray
    <2>. QED BY <2>2, <2>3, <2>4
  <1>. QED BY <1>1, <1>2

\* The addresses from a on that do not leave its page.
LEMMA WithinPage ==
    ASSUME NEW n \in Nat \ {0}, NEW a \in Nat, NEW k \in Nat, (a % n) + k <= n, NEW b \in Nat
    PROVE  /\ b \in a .. a + k - 1 <=>
                 (b \div n) = (a \div n) /\ (b % n) \in (a % n) .. (a % n) + k - 1
           /\ (b \div n) = (a \div n) => b - a = (b % n) - (a % n)
  <1>. DEFINE qa == a \div n
              ra == a % n
              qb == b \div n
              rb == b % n
  <1>1. /\ qa \in Nat /\ ra \in 0 .. n - 1 /\ a = n * qa + ra
        /\ qb \in Nat /\ rb \in 0 .. n - 1 /\ b = n * qb + rb
    BY Divided
  <1>. HIDE DEF qa, ra, qb, rb
  <1>2. qb = qa => b - a = rb - ra
    <2>1. CASE qb = qa
      <3>. DEFINE m == n * qa
      <3>1. m \in Nat /\ a = m + ra /\ b = m + rb
        BY <1>1, <2>1
      <3>. HIDE DEF m
      <3>. QED BY <1>1, <3>1
    <2>. QED BY <2>1
  <1>3. ASSUME b \in a .. a + k - 1
        PROVE  qb = qa
    <2>. DEFINE x == ra + (b - a)
    <2>1. x \in 0 .. n - 1
      BY <1>1, <1>3 DEF ra
    <2>2. qb * n + rb = qa * n + x
      <3>1. n * qb = qb * n /\ n * qa = qa * n /\ n * qb \in Nat /\ n * qa \in Nat
        BY <1>1
      <3>. QED BY <1>1, <3>1
    <2>. HIDE DEF x
    <2>3. /\ qa \in Nat /\ qb \in Nat /\ rb \in 0 .. n - 1
      BY <1>1
    <2>. QED BY <2>1, <2>2, <2>3, RemainderOfDigits
  <1>4. b \in a .. a + k - 1 <=> qb = qa /\ rb \in ra .. ra + k - 1
    <2>1. CASE qb = qa
      <3>1. b - a = rb - ra
        BY <1>2, <2>1
      <3>. QED BY <1>1, <2>1, <3>1
    <2>2. CASE qb # qa
      BY <1>3, <2>2
    <2>. QED BY <2>1, <2>2
  <1>. QED BY <1>2, <1>4 DEF qa, ra, qb, rb

\* Where the copy under way begins.
From(c) == doing[c].addr + job[c].done

LEMMA ChunkInPage ==
    ASSUME AllInv, NEW c \in CPUs, at[c] \in Active, NEW b \in Nat
    PROVE  LET m == PageIndex(job[c].page)
           IN  /\ From(c) \in Nat /\ Delta(c) \in 0 .. PageSize - 1 /\ Chunk(c) \in Nat \ {0}
               /\ job[c].done \in Nat /\ doing[c].addr \in Nat
               /\ job[c].done + Chunk(c) <= doing[c].size
               /\ b \in From(c) .. From(c) + Chunk(c) - 1 <=>
                     (b \div PageSize) = m /\ (b % PageSize) \in Delta(c) .. Delta(c) + Chunk(c) - 1
               /\ (b \div PageSize) = m =>
                     job[c].done + (b % PageSize) - Delta(c) = b - doing[c].addr
  <1>. DEFINE a == From(c)
  <1>0. TInv /\ Counted
    BY DEF AllInv
  <1>1. /\ a \in Nat /\ Delta(c) = a % PageSize /\ PageIndex(job[c].page) = a \div PageSize
    BY <1>0, ChunkOfPage DEF From
  <1>2. /\ Delta(c) \in 0 .. PageSize - 1 /\ Chunk(c) \in Nat \ {0} /\ Delta(c) + Chunk(c) <= PageSize
        /\ job[c] \in Job /\ doing[c] \in Requests[cpu[c]] /\ cpu[c] \in Procs
        /\ job[c].done + Chunk(c) <= doing[c].size
    BY <1>0, ActiveFacts
  <1>3. job[c].done \in Nat /\ doing[c].addr \in Nat
    BY <1>2, RequestTypes DEF Job
  <1>. HIDE DEF a
  <1>4. /\ b \in a .. a + Chunk(c) - 1 <=>
              (b \div PageSize) = (a \div PageSize) /\ (b % PageSize) \in (a % PageSize) .. (a % PageSize) + Chunk(c) - 1
        /\ (b \div PageSize) = (a \div PageSize) => b - a = (b % PageSize) - (a % PageSize)
    <2>1. Chunk(c) \in Nat /\ (a % PageSize) + Chunk(c) <= PageSize /\ PageSize \in Nat \ {0}
      BY <1>1, <1>2, SizesAssumption
    <2>. QED BY <1>1, <2>1, WithinPage
  <1>5. (b % PageSize) \in Int
    BY SizesAssumption, Divided
  <1>6. (b \div PageSize) = PageIndex(job[c].page) =>
           job[c].done + (b % PageSize) - Delta(c) = b - doing[c].addr
    <2>1. a = doing[c].addr + job[c].done
      BY DEF a, From
    <2>. QED BY <1>1, <1>2, <1>3, <1>4, <1>5, <2>1
  <1>. QED BY <1>1, <1>2, <1>3, <1>4, <1>6 DEF a

LEMMA PageWritten ==
    ASSUME AllInv, MInv, XInv, NEW p \in Procs, NEW n \in 0 .. PageCount[p] - 1,
           NEW c \in CPUs, cpu[c] = p, Writes(c)
    PROVE  PageSeen(p, n)' = Rewritten(c, n, PageSeen(p, n))
  <1>1. PICK v, w : v = PageSeen(p, n) /\ w = Rewritten(c, n, v)
    OBVIOUS
  <1>2. Shows(p, n, v)
    BY <1>1, SeenIsShown
  <1>3. Shows(p, n, w)'
    BY <1>1, <1>2, WritesCacheShows, WritesThroughShows DEF Writes
  <1>4. PageSeen(p, n)' = w
    BY <1>3, ShownSeenAfter DEF ShownIsSeen
  <1>. QED BY <1>1, <1>4

\* A WRITE puts its bytes into the array, as many as fit in the page.
LEMMA ArrayWritten ==
    ASSUME AllInv, MInv, XInv, NEW p \in Procs, NEW c \in CPUs, cpu[c] = p, Writes(c)
    PROVE  /\ ~Gone(p) /\ ~Gone(p)'
           /\ Seen'[p] = [a \in DOMAIN Seen[p] |->
                 IF a \in From(c) .. From(c) + Chunk(c) - 1
                 THEN doing[c].bytes[a - doing[c].addr] ELSE Seen[p][a]]
  <1>. DEFINE m == PageIndex(job[c].page)
  <1>0. at[c] \in Active /\ UNCHANGED stage
    BY DEF Writes, WritesCache, WritesThrough, Active, memoria
  <1>1. ~Gone(p) /\ ~Gone(p)'
    <2>1. stage[p] = "EXEC"
      BY PidAssumption, Running DEF AllInv
    <2>. QED BY <1>0, <2>1 DEF Gone
  <1>2. ASSUME NEW a \in 0 .. SizeOf[p] - 1
        PROVE  PageSeen(p, a \div PageSize)'[a % PageSize] =
                  IF a \in From(c) .. From(c) + Chunk(c) - 1
                  THEN doing[c].bytes[a - doing[c].addr]
                  ELSE PageSeen(p, a \div PageSize)[a % PageSize]
    <2>. DEFINE n == a \div PageSize
                d == a % PageSize
                v == PageSeen(p, n)
    <2>1. a \in Nat /\ n \in 0 .. PageCount[p] - 1 /\ d \in 0 .. PageSize - 1
      BY AddressParts
    <2>2. PageSeen(p, n)' = Rewritten(c, n, v)
      BY <2>1, PageWritten
    <2>3. DOMAIN v = 0 .. PageSize - 1
      BY <1>1, <2>1, PageIsContent DEF Content
    <2>4. a \in From(c) .. From(c) + Chunk(c) - 1 <=>
             n = m /\ d \in Delta(c) .. Delta(c) + Chunk(c) - 1
      BY <1>0, <2>1, ChunkInPage
    <2>5. n = m => job[c].done + d - Delta(c) = a - doing[c].addr
      BY <1>0, <2>1, ChunkInPage
    <2>. HIDE DEF n, d, v, m
    <2>6. CASE n = m
      <3>1. PageSeen(p, n)' = Written(c, v)
        BY <2>2, <2>6 DEF Rewritten, m
      <3>2. PageSeen(p, n)'[d] = IF d \in Delta(c) .. Delta(c) + Chunk(c) - 1
                                 THEN doing[c].bytes[a - doing[c].addr] ELSE v[d]
        BY <2>1, <2>3, <2>5, <2>6, <3>1 DEF Written
      <3>. QED BY <2>4, <2>6, <3>2 DEF n, d, v
    <2>7. CASE n # m
      <3>1. PageSeen(p, n)' = v
        BY <2>2, <2>7 DEF Rewritten, m
      <3>. QED BY <2>4, <2>7, <3>1 DEF n, d, v
    <2>. QED BY <2>6, <2>7
  <1>3. Seen'[p] = [a \in 0 .. SizeOf[p] - 1 |-> PageSeen(p, a \div PageSize)'[a % PageSize]]
    BY <1>1 DEF Seen, Gone, SizeOf
  <1>4. Seen[p] = [a \in 0 .. SizeOf[p] - 1 |-> PageSeen(p, a \div PageSize)[a % PageSize]]
    BY <1>1, SeenArray
  <1>5. DOMAIN Seen[p] = 0 .. SizeOf[p] - 1
    BY <1>4
  <1>6. \A a \in 0 .. SizeOf[p] - 1 : Seen[p][a] = PageSeen(p, a \div PageSize)[a % PageSize]
    BY <1>4
  <1>. QED BY <1>1, <1>2, <1>3, <1>5, <1>6

-----------------------------------------------------------------------------
(* What a READ returns *)

LEMMA LeastOfTwo ==
    ASSUME NEW a \in Nat, NEW b \in Nat, a <= b
    PROVE  Least({a, b}) = a
  <1>1. Least({a, b}) \in {a, b} /\ \A j \in {a, b} : Least({a, b}) <= j
    BY LeastIsLeast
  <1>. QED BY <1>1

LEMMA MultiplyAbove ==
    ASSUME NEW a \in Nat, NEW n \in Nat \ {0}, NEW b \in Nat, a \div n < b
    PROVE  a < n * b
  <1>. DEFINE q == a \div n
              r == a % n
  <1>1. q \in Nat /\ r \in 0 .. n - 1 /\ a = n * q + r /\ q < b
    BY Divided
  <1>. HIDE DEF q, r
  <1>2. PICK k \in Nat : b = q + 1 + k
    <2>1. b - (q + 1) \in Nat /\ b = q + 1 + (b - (q + 1))
      BY <1>1
    <2>. QED BY <2>1
  <1>3. n * b = n * q + n + n * k /\ n * k \in Nat /\ n * q \in Nat
    BY <1>1, <1>2
  <1>. QED BY <1>1, <1>3

\* The page that an instruction copies is the page that its process sees.
LEMMA CopiedPage ==
    ASSUME AllInv, MInv, XInv, NEW c \in CPUs, at[c] = "copy", NEW m,
           m = PageIndex(job[c].page)
    PROVE  /\ cpu[c] \in Procs /\ m \in 0 .. PageCount[cpu[c]] - 1
           /\ PageSeen(cpu[c], m) \in Content
           /\ CacheEnable(c) =>
                 cache[c][Least(Slots(c, job[c].page))].content = PageSeen(cpu[c], m)
           /\ ~CacheEnable(c) => job[c].buffer = PageSeen(cpu[c], m)
  <1>. DEFINE p == cpu[c]
  <1>0. /\ TInv /\ p \in Procs /\ p # NoPid /\ p \in Resident /\ stage[p] = "EXEC"
        /\ at[c] \in Active /\ job[c].page \in Page
    <2>1. TInv /\ p # NoPid /\ at[c] \in Active
      BY ActiveRuns DEF AllInv, Active
    <2>. QED BY <2>1, Running, ActiveFacts
  <1>1. HasFrame(p, job[c].page) => m \in 0 .. PageCount[p] - 1
    BY <1>0 DEF HasFrame, AllInv, FramesInv, Tables
  <1>2. m \in 0 .. PageCount[p] - 1 => PageSeen(p, m) \in Content
    BY <1>0, PageIsContent DEF Gone
  <1>3. Shows(p, m, PageSeen(p, m))
    BY <1>0, SeenIsShown
  <1>4. CASE CacheEnable(c)
    <2>. DEFINE i == Least(Slots(c, job[c].page))
    <2>1. i \in Slot[c] /\ cache[c][i].page = job[c].page
      <3>1. Slots(c, job[c].page) # {} /\ Slots(c, job[c].page) \subseteq Nat
        BY <1>4, SlotsAreAll DEF XInv, XOwn, CopyCached, Slots
      <3>2. i \in Slots(c, job[c].page)
        BY <3>1, LeastIsLeast
      <3>. QED BY <3>2 DEF Slots
    <2>. HIDE DEF i
    <2>2. cache[c][i].pid # NoPid
      BY <1>0, <2>1, PageIsAPage DEF XInv, XOwn, EmptyPages
    <2>3. cache[c][i].pid = p /\ HasFrame(p, job[c].page)
      BY <2>1, <2>2, OwnEntry DEF MInv, Kept
    <2>4. CachedAt(c, i, p, m)
      BY <2>1, <2>3 DEF CachedAt
    <2>5. cache[c][i].content = PageSeen(p, m)
      BY <1>3, <2>1, <2>4 DEF Shows
    <2>. QED BY <1>0, <1>1, <1>2, <1>4, <2>3, <2>5 DEF i
  <1>5. CASE ~CacheEnable(c)
    <2>1. /\ HasFrame(p, job[c].page) /\ m \in DOMAIN pageBases[p]
          /\ job[c].buffer = userMemory[pageBases[p][m]]
      BY <1>0, <1>5, HeldPage DEF Holds
    <2>2. ~Cached(p, m)
      <3>1. ASSUME NEW d \in CPUs, NEW i \in Slot[d], CachedAt(d, i, p, m)
            PROVE  FALSE
        <4>1. cpu[d] = p
          BY <1>0, <3>1, CachedThere
        <4>2. d = c
          BY <1>0, <4>1 DEF TInv, RunsOne
        <4>. QED BY <1>5, <4>2 DEF CacheEnable, Slot
      <3>. QED BY <3>1 DEF Cached
    <2>3. Stored(p, m) = PageSeen(p, m)
      BY <1>3, <2>2 DEF Shows
    <2>. QED BY <1>0, <1>1, <1>2, <1>5, <2>1, <2>3 DEF Stored
  <1>. QED BY <1>4, <1>5

\* The bytes of the copy under way, as the process sees them.
LEMMA ChunkSeen ==
    ASSUME AllInv, MInv, XInv, NEW c \in CPUs, at[c] = "copy", NEW m,
           m = PageIndex(job[c].page),
           NEW j \in job[c].done .. job[c].done + Chunk(c) - 1
    PROVE  /\ doing[c].addr + j \in 0 .. SizeOf[cpu[c]] - 1
           /\ doing[c].addr + j \in DOMAIN Seen[cpu[c]]
           /\ Seen[cpu[c]][doing[c].addr + j]
                 = PageSeen(cpu[c], m)[j - job[c].done + Delta(c)]
  <1>. DEFINE p == cpu[c]
              b == doing[c].addr + j
  <1>0. /\ TInv /\ p \in Procs /\ p # NoPid /\ stage[p] = "EXEC" /\ at[c] \in Active
        /\ m \in 0 .. PageCount[p] - 1
    <2>1. TInv /\ p # NoPid /\ at[c] \in Active
      BY ActiveRuns DEF AllInv, Active
    <2>. QED BY <2>1, Running, CopiedPage
  <1>1. /\ job[c].done \in Nat /\ doing[c].addr \in Nat /\ Chunk(c) \in Nat
        /\ Delta(c) \in 0 .. PageSize - 1
    BY <1>0, ChunkInPage
  <1>2. b \in Nat /\ b \in From(c) .. From(c) + Chunk(c) - 1 /\ j \in Nat
    BY <1>1 DEF From
  <1>3. (b \div PageSize) = m /\ job[c].done + (b % PageSize) - Delta(c) = b - doing[c].addr
    BY <1>0, <1>2, ChunkInPage
  <1>4. b % PageSize = j - job[c].done + Delta(c)
    <2>1. b % PageSize \in Int
      BY <1>2, Divided, SizesAssumption
    <2>. QED BY <1>1, <1>2, <1>3, <2>1
  <1>. HIDE DEF b
  <1>5. b \in 0 .. SizeOf[p] - 1
    <2>1. PageCount[p] \in Nat /\ PageSize \in Nat \ {0} /\ SizeOf[p] = PageSize * PageCount[p]
      BY <1>0, SizesAssumption DEF SizeOf
    <2>2. b \div PageSize < PageCount[p]
      BY <1>0, <1>3, <2>1
    <2>3. b < PageSize * PageCount[p]
      BY <1>2, <2>1, <2>2, MultiplyAbove
    <2>. QED BY <1>2, <2>1, <2>3
  <1>6. Seen[p] = [a \in 0 .. SizeOf[p] - 1 |-> PageSeen(p, a \div PageSize)[a % PageSize]]
    BY <1>0, SeenArray DEF Gone
  <1>7. Seen[p][b] = PageSeen(p, b \div PageSize)[b % PageSize] /\ b \in DOMAIN Seen[p]
    BY <1>5, <1>6
  <1>8. Seen[p][b] = PageSeen(p, m)[j - job[c].done + Delta(c)]
    BY <1>3, <1>4, <1>7
  <1>. QED BY <1>5, <1>7, <1>8 DEF b

\* What a READ has read and a WRITE has written so far is in the array.
DoneRead(c) == at[c] \in Active /\ doing[c].kind = "read" =>
    reply[c] = [i \in 0 .. job[c].done - 1 |-> Seen[cpu[c]][doing[c].addr + i]]
DoneWrite(c) == at[c] \in Active /\ doing[c].kind = "write" =>
    \A i \in 0 .. job[c].done - 1 : doing[c].addr + i \in DOMAIN Seen[cpu[c]] =>
        Seen[cpu[c]][doing[c].addr + i] = doing[c].bytes[i]
Done(c) == DoneRead(c) /\ DoneWrite(c)
DInv == \A c \in CPUs : Done(c)

\* Without a cache, the two errors of a READ leave no trace where it begins with a page
\* or ends in the first one.
LEMMA ErrorsCancel ==
    ASSUME AllInv, XInv, NEW c \in CPUs, at[c] = "copy", ~CacheEnable(c), doing[c].kind = "read"
    PROVE  /\ doing[c].addr % PageSize = Delta(c)
           /\ job[c].done # 0 => doing[c].addr % PageSize = 0
  <1>. DEFINE a == doing[c].addr
  <1>0. TInv /\ at[c] \in Active /\ Counted
    BY DEF AllInv, Active
  <1>1. /\ a \in Nat /\ job[c].done \in Nat /\ PageSize \in Nat \ {0}
        /\ doing[c].size \in Nat /\ job[c].done < doing[c].size
    <2>1. Chunk(c) \in Nat \ {0} /\ job[c].done \in Nat /\ a \in Nat
          /\ job[c].done + Chunk(c) <= doing[c].size
      BY <1>0, ChunkInPage
    <2>2. doing[c].size \in Nat
      BY <1>0, ActiveFacts, RequestTypes
    <2>. QED BY <2>1, <2>2, SizesAssumption
  <1>2. ASSUME job[c].done # 0, a % PageSize # 0
        PROVE  FALSE
    <2>1. (a % PageSize) + doing[c].size <= PageSize
      <3>1. ~Crosses(doing[c])
        BY <1>0, <1>2 DEF XInv, XOwn, Aligned
      <3>2. a % PageSize \in Int
        BY <1>1, Divided
      <3>. QED BY <1>1, <3>1, <3>2 DEF Crosses
    <2>2. a + job[c].done \in Nat /\ a + job[c].done \in a .. a + doing[c].size - 1
      BY <1>1
    <2>3. (a + job[c].done) % PageSize = 0
      <3>1. Delta(c) = 0
        BY <1>2 DEF Delta
      <3>. QED BY <1>0, <3>1, ChunkOfPage
    <2>. HIDE DEF a
    <2>4. PICK b \in Nat, k \in Nat : b = a + job[c].done /\ k = doing[c].size
      BY <1>1
    <2>5. b - a = (b % PageSize) - (a % PageSize)
      <3>1. b \in a .. a + k - 1 /\ (a % PageSize) + k <= PageSize
        BY <2>1, <2>2, <2>4
      <3>2. a \in Nat /\ PageSize \in Nat \ {0}
        BY <1>1
      <3>3. (b \div PageSize) = (a \div PageSize)
        BY <3>1, <3>2, WithinPage, Zenon
      <3>. QED BY <3>1, <3>2, <3>3, WithinPage, Zenon
    <2>6. a % PageSize \in Nat
      BY <1>1, Divided
    <2>. QED BY <1>1, <1>2, <2>3, <2>4, <2>5, <2>6
  <1>3. job[c].done # 0 => a % PageSize = 0
    BY <1>2
  <1>. QED BY <1>3 DEF Delta

\* A READ goes on to return the array.
LEMMA ReadsReply ==
    ASSUME AllInv, MInv, XInv, NEW c \in CPUs, Done(c), ReadsCache(c) \/ ReadsThrough(c)
    PROVE  /\ Advances(c) /\ UNCHANGED <<memoria, cpu>> /\ doing[c].kind = "read"
           /\ at[c] = "copy"
           /\ doing[c].addr + job[c].done + Chunk(c) - 1 \in DOMAIN Seen[cpu[c]]
           /\ reply' = [reply EXCEPT ![c] = [i \in 0 .. job[c].done + Chunk(c) - 1 |->
                                                Seen[cpu[c]][doing[c].addr + i]]]
  <1>. DEFINE p == cpu[c]
              done == job[c].done
              old == [i \in 0 .. done - 1 |-> Seen[p][doing[c].addr + i]]
              new == [i \in 0 .. done + Chunk(c) - 1 |-> Seen[p][doing[c].addr + i]]
  <1>0. at[c] = "copy" /\ doing[c].kind = "read" /\ at[c] \in Active /\ TInv
        /\ UNCHANGED <<memoria, cpu>>
    BY DEF ReadsCache, ReadsThrough, Active, AllInv
  <1>1. /\ done \in Nat /\ Chunk(c) \in Nat \ {0} /\ doing[c].addr \in Nat
        /\ Delta(c) \in 0 .. PageSize - 1 /\ done + Chunk(c) <= doing[c].size
        /\ Delta(c) + Chunk(c) <= PageSize /\ doing[c].size \in Nat /\ PageSize \in Nat
    BY <1>0, ChunkInPage, ActiveFacts, RequestTypes, SizesAssumption
  <1>2. reply[c] = old
    BY <1>0 DEF Done, DoneRead
  <1>3. PICK m, page : m = PageIndex(job[c].page) /\ page = PageSeen(p, m)
    OBVIOUS
  <1>4. page \in Content
    BY <1>0, <1>3, CopiedPage
  <1>5. \A j \in done .. done + Chunk(c) - 1 :
           /\ doing[c].addr + j \in DOMAIN Seen[p]
           /\ Seen[p][doing[c].addr + j] = page[j - done + Delta(c)]
    BY <1>0, <1>3, ChunkSeen
  <1>6. doing[c].addr + done + Chunk(c) - 1 \in DOMAIN Seen[p]
    <2>1. PICK j \in done .. done + Chunk(c) - 1 : j = done + Chunk(c) - 1
      BY <1>1
    <2>2. doing[c].addr + j = doing[c].addr + done + Chunk(c) - 1
      BY <1>1, <2>1
    <2>. QED BY <1>5, <2>2
  <1>7. CASE ReadsCache(c)
    <2>1. PICK content : content = cache[c][Least(Slots(c, job[c].page))].content
      OBVIOUS
    <2>2. content = page
      BY <1>0, <1>3, <1>7, <2>1, CopiedPage DEF ReadsCache
    <2>3. content # NoBytes
      <3>1. 0 \in DOMAIN content /\ DOMAIN NoBytes = {}
        BY <1>4, <2>2, SizesAssumption DEF Content, NoBytes
      <3>. QED BY <3>1
    <2>. DEFINE x == [j \in 0 .. done + Chunk(c) - 1 |->
                        IF j < done THEN reply[c][j] ELSE content[j - done + Delta(c)]]
    <2>4. Advances(c) /\ reply' = [reply EXCEPT ![c] = x]
      BY <1>7, <2>1, <2>3 DEF ReadsCache
    <2>5. x = new
      <3>1. ASSUME NEW j \in 0 .. done + Chunk(c) - 1
            PROVE  (IF j < done THEN reply[c][j] ELSE content[j - done + Delta(c)])
                      = Seen[p][doing[c].addr + j]
        <4>1. CASE j < done
          <5>1. j \in 0 .. done - 1
            BY <1>1, <4>1
          <5>. QED BY <1>2, <4>1, <5>1
        <4>2. CASE ~(j < done)
          <5>1. j \in done .. done + Chunk(c) - 1
            BY <1>1, <4>2
          <5>. QED BY <1>5, <2>2, <4>2, <5>1
        <4>. QED BY <4>1, <4>2
      <3>. QED BY <3>1
    <2>. QED BY <1>0, <1>6, <2>4, <2>5
  <1>8. CASE ReadsThrough(c)
    <2>1. PICK delta, leido : /\ delta = doing[c].addr % PageSize
                              /\ leido = IF done = 0 THEN 0 ELSE done + delta
      OBVIOUS
    <2>. DEFINE last == Least({leido + Chunk(c), doing[c].size}) - 1
                Byte0(j) == IF j \in DOMAIN reply[c] THEN reply[c][j] ELSE 0
                x == [j \in 0 .. last |->
                        IF j < leido THEN Byte0(j)
                        ELSE IF delta + j - leido < PageSize THEN job[c].buffer[delta + j - leido]
                        ELSE 0]
    <2>2. ~CacheEnable(c)
      BY <1>8 DEF ReadsThrough
    <2>3. job[c].buffer = page
      BY <1>0, <1>3, <2>2, CopiedPage
    <2>4. delta = Delta(c) /\ leido = done
      <3>1. delta = Delta(c) /\ (done # 0 => delta = 0)
        BY <1>0, <2>2, <2>1, ErrorsCancel
      <3>. QED BY <1>1, <2>1, <3>1
    <2>5. last = done + Chunk(c) - 1
      <3>1. done + Chunk(c) \in Nat
        BY <1>1
      <3>2. Least({done + Chunk(c), doing[c].size}) = done + Chunk(c)
        BY <1>1, <3>1, LeastOfTwo
      <3>. QED BY <1>1, <2>4, <3>2
    <2>6. ~(leido > doing[c].size)
      BY <1>1, <2>4
    <2>7. Advances(c) /\ reply' = [reply EXCEPT ![c] = x]
      BY <1>8, <2>6, <2>1 DEF ReadsThrough
    <2>8. x = new
      <3>1. ASSUME NEW j \in 0 .. done + Chunk(c) - 1
            PROVE  (IF j < leido THEN Byte0(j)
                    ELSE IF delta + j - leido < PageSize THEN job[c].buffer[delta + j - leido]
                    ELSE 0) = Seen[p][doing[c].addr + j]
        <4>1. CASE j < done
          <5>1. j \in 0 .. done - 1
            BY <1>1, <4>1
          <5>. QED BY <1>2, <2>4, <4>1, <5>1
        <4>2. CASE ~(j < done)
          <5>1. j \in done .. done + Chunk(c) - 1
            BY <1>1, <4>2
          <5>2. delta + j - leido = j - done + Delta(c) /\ delta + j - leido < PageSize
            BY <1>1, <2>4, <5>1
          <5>. QED BY <1>5, <2>3, <2>4, <4>2, <5>1, <5>2
        <4>. QED BY <4>1, <4>2
      <3>. QED BY <2>5, <3>1
    <2>. QED BY <1>0, <1>6, <2>7, <2>8
  <1>. QED BY <1>7, <1>8

LEMMA AdvancesTo ==
    ASSUME TInv, NEW c \in CPUs, at[c] \in Active, Advances(c)
    PROVE  \/ /\ job[c].done + Chunk(c) = doing[c].size /\ at'[c] = "instruction"
              /\ doing' = [doing EXCEPT ![c] = None]
           \/ /\ job[c].done + Chunk(c) # doing[c].size /\ at'[c] = "translate"
              /\ UNCHANGED doing /\ job'[c].done = job[c].done + Chunk(c)
  BY DEF TInv, TypeOK, Advances, Ends, Goes, PageJob

LEMMA ReplyKept ==
    ASSUME [Next]_vars, NEW c \in CPUs, ~CPUStep(c)
    PROVE  reply'[c] = reply[c]
  <1>1. ASSUME NEW d \in CPUs, d # c, NEW x, reply' = [reply EXCEPT ![d] = x]
        PROVE  reply'[c] = reply[c]
    BY <1>1
  <1>2. ASSUME NEW d \in CPUs, CPUStep(d)
        PROVE  reply'[c] = reply[c]
    <2>0. d # c
      BY <1>2
    <2>1. CASE \E p \in Procs : \E r \in Requests[p] : Begins(d, p, r)
      BY <1>1, <2>0, <2>1 DEF Begins
    <2>2. CASE ReadsCache(d)
      BY <1>1, <2>0, <2>2, Zenon DEF ReadsCache
    <2>3. CASE ReadsThrough(d)
      BY <1>1, <2>0, <2>3, Zenon DEF ReadsThrough
    <2>4. CASE \/ Translates(d) \/ Gets(d) \/ Scans(d) \/ WritesCache(d) \/ WritesThrough(d)
               \/ Flushes(d) \/ \E p \in Procs : Dispatches(d, p)
      BY <2>4 DEF Translates, Gets, Scans, WritesCache, WritesThrough, Flushes, Dispatches
    <2>5. CASE Syscalls(d) \/ Exits(d) \/ Interrupted(d)
      BY <2>5 DEF Syscalls, Exits, Interrupted, LeavesFor
    <2>. QED BY <1>2, <2>1, <2>2, <2>3, <2>4, <2>5 DEF CPUStep
  <1>3. ASSUME NEW p \in Procs, ProcStep(p)
        PROVE  reply'[c] = reply[c]
    BY <1>3 DEF ProcStep, Admits, Unblocks, Suspends, Returns
  <1>4. UNCHANGED vars => reply'[c] = reply[c]
    BY DEF vars
  <1>. QED BY <1>2, <1>3, <1>4, StepsOfWhom

\* A running process goes on to see the same until it writes or exits.
LEMMA RunningSees ==
    ASSUME AllInv, AllInv', MInv, XInv, [Next]_vars, NEW c \in CPUs,
           NEW p \in Procs, cpu[c] = p, ~Writes(c), ~Exits(c)
    PROVE  Seen'[p] = Seen[p] /\ ~Gone(p) /\ ~Gone(p)'
  <1>1. ~Gone(p) /\ TInv /\ stage[p] # "NEW" /\ p # NoPid
    BY Running, PidAssumption DEF AllInv, Gone
  <1>2. \A d \in CPUs : cpu[d] = p => d = c
    BY <1>1 DEF TInv, RunsOne
  <1>3. ~Gone(p)'
    BY <1>1, <1>2, ComesAndGoes
  <1>4. Seen'[p] = Seen[p]
    <2>1. \A d \in CPUs : cpu[d] = p => ~Writes(d)
      BY <1>2
    <2>. QED BY <1>1, <1>3, <2>1, ArrayKept
  <1>. QED BY <1>1, <1>3, <1>4

LEMMA SameDone ==
    ASSUME NEW c \in CPUs, Done(c), at[c] \in Active,
           doing'[c] = doing[c], job'[c].done = job[c].done, reply'[c] = reply[c],
           cpu'[c] = cpu[c], Seen'[cpu[c]] = Seen[cpu[c]]
    PROVE  Done(c)'
  <1>1. DoneRead(c)'
    BY DEF Done, DoneRead
  <1>2. DoneWrite(c)'
    BY DEF Done, DoneWrite
  <1>. QED BY <1>1, <1>2 DEF Done

LEMMA WritesDone ==
    ASSUME AllInv, MInv, XInv, NEW c \in CPUs, Done(c), Writes(c)
    PROVE  Done(c)'
  <1>. DEFINE p == cpu[c]
  <1>0. /\ TInv /\ at[c] \in Active /\ doing[c].kind = "write" /\ Advances(c)
        /\ UNCHANGED cpu /\ p \in Procs
    <2>1. TInv /\ at[c] \in Active /\ doing[c].kind = "write" /\ Advances(c) /\ UNCHANGED cpu
      BY DEF Writes, WritesCache, WritesThrough, Active, AllInv
    <2>. QED BY <2>1, ActiveFacts
  <1>1. CASE at'[c] \notin Active
    BY <1>1 DEF Done, DoneRead, DoneWrite
  <1>2. CASE at'[c] \in Active
    <2>1. doing'[c] = doing[c] /\ job'[c].done = job[c].done + Chunk(c)
      BY <1>0, <1>2, AdvancesTo DEF Active
    <2>2. /\ job[c].done \in Nat /\ Chunk(c) \in Nat /\ doing[c].addr \in Nat
      BY <1>0, ChunkInPage
    <2>3. Seen'[p] = [a \in DOMAIN Seen[p] |->
             IF a \in From(c) .. From(c) + Chunk(c) - 1
             THEN doing[c].bytes[a - doing[c].addr] ELSE Seen[p][a]]
      BY <1>0, ArrayWritten
    <2>4. ASSUME NEW i \in 0 .. job[c].done + Chunk(c) - 1,
                 doing[c].addr + i \in DOMAIN Seen'[p]
          PROVE  Seen'[p][doing[c].addr + i] = doing[c].bytes[i]
      <3>. DEFINE a == doing[c].addr + i
      <3>1. a \in DOMAIN Seen[p] /\ a \in Nat /\ a - doing[c].addr = i
        BY <2>2, <2>3, <2>4
      <3>2. CASE i < job[c].done
        <4>1. ~(a \in From(c) .. From(c) + Chunk(c) - 1) /\ i \in 0 .. job[c].done - 1
          BY <2>2, <3>2 DEF From
        <4>2. Seen[p][a] = doing[c].bytes[i]
          BY <1>0, <3>1, <4>1 DEF Done, DoneWrite
        <4>. HIDE DEF a
        <4>. QED BY <2>3, <3>1, <4>1, <4>2 DEF a
      <3>3. CASE ~(i < job[c].done)
        <4>1. a \in From(c) .. From(c) + Chunk(c) - 1
          BY <2>2, <3>3 DEF From
        <4>. QED BY <2>3, <3>1, <4>1
      <3>. QED BY <3>2, <3>3
    <2>5. DoneWrite(c)'
      <3>1. cpu'[c] = p /\ job'[c].done = job[c].done + Chunk(c) /\ doing'[c] = doing[c]
        BY <1>0, <2>1
      <3>2. ASSUME NEW i \in 0 .. job'[c].done - 1,
                   doing'[c].addr + i \in DOMAIN Seen'[cpu'[c]]
            PROVE  Seen'[cpu'[c]][doing'[c].addr + i] = doing'[c].bytes[i]
        <4>1. i \in 0 .. job[c].done + Chunk(c) - 1
          BY <2>2, <3>1
        <4>2. doing[c].addr + i \in DOMAIN Seen'[p]
          BY <3>1, <3>2, Zenon
        <4>3. Seen'[p][doing[c].addr + i] = doing[c].bytes[i]
          BY <2>4, <4>1, <4>2
        <4>. QED BY <3>1, <4>3, Zenon
      <3>. QED BY <3>2 DEF DoneWrite
    <2>6. DoneRead(c)'
      BY <1>0, <2>1 DEF DoneRead
    <2>. QED BY <2>5, <2>6 DEF Done
  <1>. QED BY <1>1, <1>2

LEMMA ReadsDone ==
    ASSUME AllInv, AllInv', MInv, XInv, [Next]_vars, NEW c \in CPUs, Done(c),
           ReadsCache(c) \/ ReadsThrough(c)
    PROVE  Done(c)'
  <1>0. /\ TInv /\ at[c] \in Active /\ Advances(c) /\ UNCHANGED <<memoria, cpu>>
        /\ doing[c].kind = "read"
        /\ reply' = [reply EXCEPT ![c] = [i \in 0 .. job[c].done + Chunk(c) - 1 |->
                                             Seen[cpu[c]][doing[c].addr + i]]]
    BY ReadsReply DEF AllInv, Active
  <1>1. CASE at'[c] \notin Active
    BY <1>1 DEF Done, DoneRead, DoneWrite
  <1>2. CASE at'[c] \in Active
    <2>1. doing'[c] = doing[c] /\ job'[c].done = job[c].done + Chunk(c)
      BY <1>0, <1>2, AdvancesTo DEF Active
    <2>2. job[c].done \in Nat /\ Chunk(c) \in Nat /\ cpu[c] \in Procs
      BY <1>0, ChunkInPage, ActiveFacts
    <2>3. PICK p \in Procs : p = cpu[c] /\ p = cpu'[c]
      BY <1>0, <2>2
    <2>4. Seen'[p] = Seen[p]
      <3>1. doing[c].kind # "write" /\ ~Exits(c)
        <4>1. at[c] = "copy"
          BY DEF ReadsCache, ReadsThrough
        <4>. QED BY <1>0, <4>1 DEF Exits, Flushed
      <3>2. ~Writes(c)
        BY <3>1 DEF Writes, WritesCache, WritesThrough
      <3>. QED BY <2>3, <3>1, <3>2, RunningSees
    <2>5. reply'[c] = [i \in 0 .. job'[c].done - 1 |-> Seen'[p][doing[c].addr + i]]
      <3>1. PICK n \in Int : n = job[c].done + Chunk(c) - 1 /\ n = job'[c].done - 1
        BY <2>1, <2>2
      <3>2. reply'[c] = [i \in 0 .. n |-> Seen[p][doing[c].addr + i]]
        BY <1>0, <2>3, <3>1 DEF XInv
      <3>. QED BY <2>4, <3>1, <3>2, Zenon
    <2>6. DoneRead(c)'
      BY <2>1, <2>3, <2>5, Zenon DEF DoneRead
    <2>7. DoneWrite(c)'
      BY <1>0, <2>1 DEF DoneWrite
    <2>. QED BY <2>6, <2>7 DEF Done
  <1>. QED BY <1>1, <1>2

LEMMA BeginsDone ==
    ASSUME TInv, XInv, NEW c \in CPUs, NEW p \in Procs, NEW r \in Requests[p], Begins(c, p, r)
    PROVE  Done(c)'
  <1>1. job'[c].done = 0 /\ reply'[c] = NoBytes
    BY DEF Begins, PageJob, TInv, TypeOK, XInv
  <1>2. 0 .. job'[c].done - 1 = {}
    BY <1>1
  <1>3. DoneRead(c)'
    BY <1>1, <1>2 DEF DoneRead, NoBytes
  <1>4. DoneWrite(c)'
    BY <1>2 DEF DoneWrite
  <1>. QED BY <1>3, <1>4 DEF Done

LEMMA StepDone ==
    AllInv /\ AllInv' /\ MInv /\ XInv /\ DInv /\ [Next]_vars => DInv'
  <1>. SUFFICES ASSUME AllInv, AllInv', MInv, XInv, DInv, [Next]_vars, NEW c \in CPUs
                PROVE  Done(c)'
    BY DEF DInv
  <1>0. TInv /\ Done(c) /\ at \in [CPUs -> Steps] /\ job \in [CPUs -> Job]
    BY DEF AllInv, DInv, TInv, TypeOK
  <1>1. CASE at'[c] \notin Active
    BY <1>1 DEF Done, DoneRead, DoneWrite
  <1>2. ASSUME at[c] \in Active, doing'[c] = doing[c], job'[c].done = job[c].done,
               reply'[c] = reply[c], cpu'[c] = cpu[c], ~Writes(c)
        PROVE  Done(c)'
    <2>1. cpu[c] \in Procs
      BY <1>0, <1>2, ActiveFacts
    <2>2. ~Exits(c)
      BY <1>2 DEF Exits, Flushed, Active
    <2>3. Seen'[cpu[c]] = Seen[cpu[c]]
      BY <1>2, <2>1, <2>2, RunningSees
    <2>. QED BY <1>0, <1>2, <2>3, SameDone
  <1>3. CASE ~CPUStep(c)
    <2>1. UNCHANGED Own(c) /\ reply'[c] = reply[c]
      BY <1>0, <1>3, OwnKept, ReplyKept
    <2>2. CASE at[c] \in Active
      BY <1>2, <1>3, <2>1, <2>2 DEF Own, Writes, CPUStep
    <2>3. CASE at[c] \notin Active
      BY <1>1, <2>1, <2>3 DEF Own
    <2>. QED BY <2>2, <2>3
  <1>4. CASE \E p \in Procs : \E r \in Requests[p] : Begins(c, p, r)
    BY <1>0, <1>4, BeginsDone
  <1>5. CASE Translates(c)
    <2>1. ~Writes(c) /\ UNCHANGED reply
      BY <1>5 DEF Writes, WritesCache, WritesThrough, Translates
    <2>2. at[c] \in Active /\ UNCHANGED cpu
      BY <1>0, <1>5, TranslatesTo
    <2>3. CASE at'[c] \in Active
      <3>1. job' = [job EXCEPT ![c].frame = Translated(c, cpu[c], job[c].page)]
            /\ doing'[c] = doing[c]
        BY <1>0, <1>5, <2>3, TranslatesTo DEF Translates
      <3>2. job'[c].done = job[c].done
        BY <1>0, <3>1 DEF Job
      <3>. QED BY <1>2, <2>1, <2>2, <3>1, <3>2
    <2>. QED BY <1>1, <2>3
  <1>6. CASE Gets(c)
    <2>1. HasPage(cpu[c], job[c].frame)
      BY <1>6, HeldFrame DEF Gets, Holds, AllInv, CInv, COwn
    <2>2. ~Writes(c) /\ UNCHANGED reply
      BY <1>6 DEF Writes, WritesCache, WritesThrough, Gets
    <2>. QED BY <1>0, <1>2, <1>6, <2>1, <2>2, GetsPage DEF Active
  <1>7. CASE Scans(c)
    <2>1. ~Writes(c) /\ UNCHANGED <<reply, doing, cpu>> /\ at[c] \in Active
      BY <1>7 DEF Writes, WritesCache, WritesThrough, Scans, Active
    <2>2. job'[c].done = job[c].done
      <3>1. \/ job'[c] = PageJob(job[c].done, job[c].page)
            \/ job'[c] = [job[c] EXCEPT !.examined = @ + 1]
        BY <1>0, <1>7, HandTurns
      <3>2. job[c] \in Job
        BY <1>0
      <3>3. [job[c] EXCEPT !.examined = @ + 1].done = job[c].done
        BY <3>2 DEF Job
      <3>4. PageJob(job[c].done, job[c].page).done = job[c].done
        BY DEF PageJob
      <3>. QED BY <3>1, <3>3, <3>4, Zenon
    <2>. QED BY <1>2, <2>1, <2>2
  <1>8. CASE Writes(c)
    BY <1>0, <1>8, WritesDone
  <1>9. CASE ReadsCache(c) \/ ReadsThrough(c)
    BY <1>0, <1>9, ReadsDone
  <1>10. CASE Flushes(c)
    <2>1. Goes(c, "flush") \/ Goes(c, "down")
      BY <1>10, Zenon DEF Flushes
    <2>. QED BY <1>0, <1>1, <2>1 DEF Goes, Active
  <1>11. CASE Syscalls(c) \/ Exits(c) \/ Interrupted(c)
    BY <1>0, <1>1, <1>11 DEF Syscalls, Exits, Interrupted, LeavesFor, Goes, Active
  <1>12. CASE \E p \in Procs : Dispatches(c, p)
    BY <1>0, <1>1, <1>12 DEF Dispatches, TInv, RunsOne, Active
  <1>. QED BY <1>3, <1>4, <1>5, <1>6, <1>7, <1>8, <1>9, <1>10, <1>11, <1>12 DEF CPUStep, Writes

LEMMA InitDone == Init => DInv
  BY DEF Init, DInv, Done, DoneRead, DoneWrite, Active

-----------------------------------------------------------------------------
(* Every step is a step of FlatMemory, or none *)

\* Whose array a step may change.
LEMMA SeenIsArrays == Seen = [p \in Procs |-> Seen[p]]
  BY DEF Seen

LEMMA SeenIsArraysAfter == Seen' = [p \in Procs |-> Seen'[p]]
  BY DEF Seen

LEMMA OneArray ==
    ASSUME NEW p \in Procs, NEW v, Seen'[p] = v, \A q \in Procs \ {p} : Seen'[q] = Seen[q]
    PROVE  Seen' = [Seen EXCEPT ![p] = v]
  <1>. PICK s, t : s = Seen /\ t = Seen'
    OBVIOUS
  <1>1. s = [q \in Procs |-> s[q]] /\ t = [q \in Procs |-> t[q]]
    BY SeenIsArrays, SeenIsArraysAfter
  <1>2. t = [s EXCEPT ![p] = v]
    BY <1>1
  <1>. QED BY <1>2

LEMMA NoArray ==
    ASSUME \A q \in Procs : Seen'[q] = Seen[q]
    PROVE  UNCHANGED Seen
  <1>. PICK s, t : s = Seen /\ t = Seen'
    OBVIOUS
  <1>1. s = [q \in Procs |-> s[q]] /\ t = [q \in Procs |-> t[q]]
    BY SeenIsArrays, SeenIsArraysAfter
  <1>2. t = s
    BY <1>1
  <1>. QED BY <1>2

\* A CPU writes in a step of its own only.
LEMMA OthersWriteNot ==
    ASSUME TInv, NEW c \in CPUs, at'[c] = at[c]
    PROVE  ~Writes(c)
  BY CopyEnds DEF Writes, Active

LEMMA ArraysKept ==
    ASSUME AllInv, AllInv', MInv, XInv, [Next]_vars, \A c \in CPUs : ~Writes(c),
           \A q \in Procs : Gone(q) <=> Gone(q)'
    PROVE  UNCHANGED Seen
  BY ArrayKept, NoArray

LEMMA OtherArraysKept ==
    ASSUME AllInv, AllInv', MInv, XInv, [Next]_vars,
           NEW c \in CPUs, CPUStep(c), NEW p \in Procs, cpu[c] = p, NEW q \in Procs \ {p},
           Gone(q) <=> Gone(q)'
    PROVE  Seen'[q] = Seen[q]
  <1>1. ASSUME NEW d \in CPUs, cpu[d] = q
        PROVE  ~Writes(d)
    <2>1. d # c
      BY <1>1
    <2>2. at'[d] = at[d]
      BY <2>1, OthersKeep DEF AllInv, Own
    <2>. QED BY <2>2, OthersWriteNot DEF AllInv
  <1>. QED BY <1>1, ArrayKept

\* A step of a CPU that neither writes nor moves a process leaves the arrays alone.
LEMMA LocalArraysKept ==
    ASSUME AllInv, AllInv', MInv, XInv, [Next]_vars,
           NEW c \in CPUs, CPUStep(c), ~Writes(c), \A q \in Procs : Gone(q) <=> Gone(q)'
    PROVE  UNCHANGED Seen
  <1>1. ASSUME NEW d \in CPUs
        PROVE  ~Writes(d)
    <2>1. CASE d = c
      BY <2>1
    <2>2. CASE d # c
      <3>1. at'[d] = at[d]
        BY <2>2, OthersKeep DEF AllInv, Own
      <3>. QED BY <3>1, OthersWriteNot DEF AllInv
    <2>. QED BY <2>1, <2>2
  <1>. QED BY <1>1, ArraysKept

LEMMA BeginsBegin ==
    ASSUME AllInv, AllInv', MInv, XInv, [Next]_vars,
           NEW c \in CPUs, NEW p \in Procs, NEW r \in Requests[p], Begins(c, p, r)
    PROVE  Flat!Begin(c)
  <1>1. CPUStep(c) /\ ~Writes(c)
    BY DEF CPUStep, Begins, Writes, WritesCache, WritesThrough
  <1>2. \A q \in Procs : Gone(q) <=> Gone(q)'
    BY DEF Begins, memoria, Gone
  <1>3. UNCHANGED Seen
    BY <1>1, <1>2, LocalArraysKept
  <1>4. doing[c] = None /\ cpu[c] # NoPid
    BY PidAssumption DEF Begins, XInv, XOwn, Idle, Active
  <1>5. doing' = [doing EXCEPT ![c] = doing'[c]]
    BY DEF Begins, AllInv, TInv, TypeOK
  <1>6. reply' = [reply EXCEPT ![c] = NoBytes] /\ UNCHANGED cpu
    BY DEF Begins
  <1>. QED BY <1>3, <1>4, <1>5, <1>6 DEF Flat!Begin, Flat!NoBytes, NoBytes

LEMMA IsNotNone ==
    ASSUME TInv, NEW c \in CPUs, at[c] \in Active
    PROVE  doing[c] # None
  BY ActiveFacts, NoneAssumption

LEMMA TranslatesFail ==
    ASSUME AllInv, AllInv', MInv, XInv, [Next]_vars, NEW c \in CPUs, Translates(c)
    PROVE  Flat!Fail(c) \/ UNCHANGED Flat!vars
  <1>1. CPUStep(c) /\ ~Writes(c) /\ at[c] \in Active /\ UNCHANGED <<memoria, cpu, reply>>
    BY DEF CPUStep, Translates, Writes, WritesCache, WritesThrough, Active
  <1>2. \A q \in Procs : Gone(q) <=> Gone(q)'
    BY <1>1 DEF memoria, Gone
  <1>3. UNCHANGED Seen
    BY <1>1, <1>2, LocalArraysKept
  <1>4. doing[c] # None
    BY <1>1, IsNotNone DEF AllInv
  <1>5. UNCHANGED doing \/ doing' = [doing EXCEPT ![c] = None]
    BY Zenon DEF Translates, Fails, Ends
  <1>. QED BY <1>1, <1>3, <1>4, <1>5 DEF Flat!Fail, Flat!vars

LEMMA HiddenSteps ==
    ASSUME AllInv, AllInv', MInv, XInv, [Next]_vars,
           NEW c \in CPUs, Gets(c) \/ Scans(c) \/ Flushes(c)
    PROVE  UNCHANGED Flat!vars
  <1>1. CPUStep(c) /\ ~Writes(c) /\ UNCHANGED <<stage, cpu, reply>>
    <2>1. CASE Gets(c)
      BY <2>1 DEF CPUStep, Gets, Writes, WritesCache, WritesThrough, memoria
    <2>2. CASE Scans(c)
      BY <2>2 DEF CPUStep, Scans, Writes, WritesCache, WritesThrough
    <2>3. CASE Flushes(c)
      BY <2>3 DEF CPUStep, Flushes, Writes, WritesCache, WritesThrough
    <2>. QED BY <2>1, <2>2, <2>3
  <1>2. \A q \in Procs : Gone(q) <=> Gone(q)'
    BY <1>1 DEF Gone
  <1>3. UNCHANGED Seen
    BY <1>1, <1>2, LocalArraysKept
  <1>4. UNCHANGED doing
    <2>1. CASE Gets(c)
      <3>1. HasPage(cpu[c], job[c].frame)
        BY <2>1, HeldFrame DEF Gets, Holds, AllInv, CInv, COwn
      <3>. QED BY <2>1, <3>1, GetsPage DEF AllInv
    <2>2. CASE Scans(c) \/ Flushes(c)
      BY <2>2 DEF Scans, Flushes
    <2>. QED BY <2>1, <2>2
  <1>. QED BY <1>1, <1>3, <1>4 DEF Flat!vars

LEMMA WritesWrite ==
    ASSUME AllInv, AllInv', MInv, XInv, DInv, [Next]_vars, NEW c \in CPUs, Writes(c)
    PROVE  Flat!Write(c)
  <1>1. /\ CPUStep(c) /\ at[c] \in Active /\ doing[c].kind = "write" /\ Advances(c)
        /\ UNCHANGED <<stage, cpu, reply>> /\ TInv /\ Done(c)
    BY DEF CPUStep, Writes, WritesCache, WritesThrough, Active, memoria, AllInv, DInv
  <1>2. PICK p \in Procs : p = cpu[c]
    BY <1>1, ActiveFacts
  <1>3. /\ job[c].done \in Nat /\ Chunk(c) \in Nat \ {0} /\ doing[c].addr \in Nat
        /\ job[c].done + Chunk(c) <= doing[c].size /\ doing[c].size \in Nat
    BY <1>1, ChunkInPage, ActiveFacts, RequestTypes
  <1>4. PICK n \in 0 .. doing[c].size : n = job[c].done + Chunk(c)
    BY <1>3
  <1>. DEFINE new == [a \in DOMAIN Seen[p] |->
                        IF a \in doing[c].addr .. doing[c].addr + n - 1
                        THEN doing[c].bytes[a - doing[c].addr] ELSE Seen[p][a]]
  <1>5. Seen'[p] = new
    <2>1. Seen'[p] = [a \in DOMAIN Seen[p] |->
             IF a \in From(c) .. From(c) + Chunk(c) - 1
             THEN doing[c].bytes[a - doing[c].addr] ELSE Seen[p][a]]
      BY <1>2, ArrayWritten
    <2>2. ASSUME NEW a \in DOMAIN Seen[p]
          PROVE  (IF a \in From(c) .. From(c) + Chunk(c) - 1
                  THEN doing[c].bytes[a - doing[c].addr] ELSE Seen[p][a])
                 = (IF a \in doing[c].addr .. doing[c].addr + n - 1
                    THEN doing[c].bytes[a - doing[c].addr] ELSE Seen[p][a])
      <3>1. CASE a \in From(c) .. From(c) + Chunk(c) - 1
        BY <1>3, <1>4, <3>1 DEF From
      <3>2. CASE a \in doing[c].addr .. From(c) - 1
        <4>1. PICK i \in 0 .. job[c].done - 1 : a = doing[c].addr + i
          <5>1. a - doing[c].addr \in 0 .. job[c].done - 1
            BY <1>3, <3>2 DEF From
          <5>2. a = doing[c].addr + (a - doing[c].addr)
            BY <1>3, <3>2
          <5>. QED BY <5>1, <5>2
        <4>2. Seen[p][a] = doing[c].bytes[i]
          BY <1>1, <1>2, <4>1 DEF Done, DoneWrite
        <4>3. i = a - doing[c].addr
          BY <1>3, <4>1
        <4>. QED BY <4>2, <4>3
      <3>3. CASE ~(a \in doing[c].addr .. doing[c].addr + n - 1)
        <4>1. ~(a \in From(c) .. From(c) + Chunk(c) - 1)
          BY <1>3, <1>4, <3>3 DEF From
        <4>. QED BY <3>3, <4>1
      <3>4. a \in doing[c].addr .. doing[c].addr + n - 1 =>
               \/ a \in From(c) .. From(c) + Chunk(c) - 1 \/ a \in doing[c].addr .. From(c) - 1
        BY <1>3, <1>4 DEF From
      <3>. QED BY <3>1, <3>2, <3>3, <3>4
    <2>. QED BY <2>1, <2>2
  <1>6. \A q \in Procs \ {p} : Seen'[q] = Seen[q]
    BY <1>1, <1>2, OtherArraysKept DEF Gone
  <1>7. Seen' = [Seen EXCEPT ![p] = new]
    <2>. HIDE DEF new
    <2>. QED BY <1>5, <1>6, OneArray
  <1>8. [Seen EXCEPT ![p] = new] = [Seen EXCEPT ![p] = [a \in DOMAIN @ |->
           IF a \in doing[c].addr .. doing[c].addr + n - 1
           THEN doing[c].bytes[a - doing[c].addr] ELSE @[a]]]
    OBVIOUS
  <1>9. \/ UNCHANGED doing
        \/ n = doing[c].size /\ doing' = [doing EXCEPT ![c] = None]
    BY <1>1, <1>4, AdvancesTo
  <1>10. doing[c] # None
    BY <1>1, IsNotNone
  <1>. QED BY <1>1, <1>2, <1>7, <1>8, <1>9, <1>10 DEF Flat!Write

LEMMA ReadsRead ==
    ASSUME AllInv, AllInv', MInv, XInv, DInv, [Next]_vars,
           NEW c \in CPUs, ReadsCache(c) \/ ReadsThrough(c)
    PROVE  Flat!Read(c)
  <1>1. /\ TInv /\ at[c] \in Active /\ Advances(c) /\ UNCHANGED <<memoria, cpu>>
        /\ doing[c].kind = "read" /\ CPUStep(c)
        /\ doing[c].addr + job[c].done + Chunk(c) - 1 \in DOMAIN Seen[cpu[c]]
        /\ reply' = [reply EXCEPT ![c] = [i \in 0 .. job[c].done + Chunk(c) - 1 |->
                                             Seen[cpu[c]][doing[c].addr + i]]]
    BY ReadsReply DEF AllInv, Active, DInv, CPUStep
  <1>2. UNCHANGED Seen
    <2>1. ~Writes(c)
      BY <1>1 DEF Writes, WritesCache, WritesThrough
    <2>2. \A q \in Procs : Gone(q) <=> Gone(q)'
      BY <1>1 DEF memoria, Gone
    <2>. QED BY <1>1, <2>1, <2>2, LocalArraysKept
  <1>3. /\ job[c].done \in Nat /\ Chunk(c) \in Nat \ {0} /\ doing[c].addr \in Nat
        /\ job[c].done + Chunk(c) <= doing[c].size /\ doing[c].size \in Nat
    BY <1>1, ChunkInPage, ActiveFacts, RequestTypes
  <1>4. PICK n \in 1 .. doing[c].size : n = job[c].done + Chunk(c)
    BY <1>3
  <1>5. /\ doing[c].addr + n - 1 = doing[c].addr + job[c].done + Chunk(c) - 1
        /\ n - 1 = job[c].done + Chunk(c) - 1
    BY <1>3, <1>4
  <1>6. reply' = [reply EXCEPT ![c] = [i \in 0 .. n - 1 |-> Seen[cpu[c]][doing[c].addr + i]]]
    BY <1>1, <1>5, Zenon
  <1>7. doing' = [doing EXCEPT ![c] = IF n = doing[c].size THEN None ELSE doing[c]]
    BY <1>1, <1>4, AdvancesTo DEF TInv, TypeOK
  <1>8. doing[c] # None
    BY <1>1, IsNotNone
  <1>9. doing[c].addr + n - 1 \in DOMAIN Seen[cpu[c]]
    BY <1>1, <1>5, Zenon
  <1>. QED BY <1>1, <1>2, <1>6, <1>7, <1>8, <1>9 DEF Flat!Read

LEMMA LeavesRelease ==
    ASSUME AllInv, AllInv', MInv, XInv, [Next]_vars,
           NEW c \in CPUs, Syscalls(c) \/ Interrupted(c)
    PROVE  Flat!Release(c)
  <1>1. /\ CPUStep(c) /\ at[c] \notin Active /\ cpu[c] # NoPid /\ TInv
        /\ cpu' = [cpu EXCEPT ![c] = NoPid] /\ UNCHANGED <<doing, reply>>
        /\ \E where \in {"BLOCKED", "READY"} : stage' = [stage EXCEPT ![cpu[c]] = where]
    BY DEF CPUStep, Syscalls, Interrupted, Flushed, LeavesFor, Active, AllInv
  <1>2. \A q \in Procs : Gone(q) <=> Gone(q)'
    BY <1>1, Running DEF Gone, TInv, TypeOK
  <1>3. ~Writes(c)
    BY <1>1 DEF Writes, WritesCache, WritesThrough, Active
  <1>4. UNCHANGED Seen
    BY <1>1, <1>2, <1>3, LocalArraysKept
  <1>5. doing[c] = None
    BY <1>1 DEF XInv, XOwn, Idle
  <1>. QED BY <1>1, <1>4, <1>5 DEF Flat!Release

LEMMA ExitsLeave ==
    ASSUME AllInv, AllInv', MInv, XInv, [Next]_vars, NEW c \in CPUs, Exits(c)
    PROVE  Flat!Leave(c)
  <1>1. /\ CPUStep(c) /\ TInv /\ cpu[c] # NoPid
        /\ cpu' = [cpu EXCEPT ![c] = NoPid] /\ UNCHANGED <<doing, reply>>
        /\ stage' = [stage EXCEPT ![cpu[c]] = "EXIT"]
    <2>1. TInv
      BY DEF AllInv
    <2>2. cpu[c] # NoPid
      BY <2>1, ActiveRuns DEF Exits, Flushed
    <2>. QED BY <2>1, <2>2 DEF CPUStep, Exits, LeavesFor
  <1>2. PICK p \in Procs : p = cpu[c]
    BY <1>1, Running
  <1>3. stage'[p] = "EXIT" /\ \A q \in Procs \ {p} : stage'[q] = stage[q]
    BY <1>1, <1>2 DEF TInv, TypeOK
  <1>4. Seen'[p] = NoBytes
    BY <1>3 DEF Seen
  <1>5. \A q \in Procs \ {p} : Seen'[q] = Seen[q]
    BY <1>1, <1>2, <1>3, OtherArraysKept DEF Gone
  <1>6. Seen' = [Seen EXCEPT ![p] = NoBytes]
    BY <1>4, <1>5, OneArray
  <1>. QED BY <1>1, <1>2, <1>6 DEF Flat!Leave, Flat!NoBytes, NoBytes

LEMMA DispatchesDispatch ==
    ASSUME AllInv, AllInv', MInv, XInv, [Next]_vars,
           NEW c \in CPUs, NEW p \in Procs, Dispatches(c, p)
    PROVE  Flat!Dispatch(c, p)
  <1>1. /\ CPUStep(c) /\ TInv /\ stage[p] = "READY" /\ cpu[c] = NoPid
        /\ stage' = [stage EXCEPT ![p] = "EXEC"] /\ cpu' = [cpu EXCEPT ![c] = p]
        /\ UNCHANGED <<at, doing, reply>>
    BY DEF Dispatches, CPUStep, AllInv
  <1>2. \A d \in CPUs : cpu[d] # p
    BY <1>1, Running, PidAssumption
  <1>3. ~Writes(c)
    BY <1>1, OthersWriteNot
  <1>4. \A q \in Procs : Gone(q) <=> Gone(q)'
    BY <1>1 DEF Gone, TInv, TypeOK
  <1>5. UNCHANGED Seen
    BY <1>1, <1>3, <1>4, LocalArraysKept
  <1>. QED BY <1>1, <1>2, <1>5 DEF Flat!Dispatch

LEMMA AdmitsAdmit ==
    ASSUME AllInv, AllInv', MInv, MInv', XInv, [Next]_vars, NEW p \in Procs, Admits(p)
    PROVE  Flat!Admit(p)
  <1>1. /\ stage[p] = "NEW" /\ stage' = [stage EXCEPT ![p] = "READY"] /\ TInv
        /\ UNCHANGED <<cpu, at, doing, reply>>
    BY DEF Admits, AllInv
  <1>2. ASSUME NEW q \in Procs \ {p}
        PROVE  Seen'[q] = Seen[q]
    <2>1. Gone(q) <=> Gone(q)'
      BY <1>1 DEF Gone, TInv, TypeOK
    <2>2. \A d \in CPUs : ~Writes(d)
      BY <1>1, OthersWriteNot
    <2>. QED BY <2>1, <2>2, ArrayKept
  <1>3. Seen[p] = NoBytes
    BY <1>1 DEF Seen
  <1>4. ~Gone(p)'
    BY <1>1 DEF Gone, TInv, TypeOK
  <1>5. \A n \in 0 .. PageCount[p] - 1 : PageSeen(p, n)' \in Content
    <2>1. PagesAreContent'
      BY PagesHaveContent, PTL
    <2>. QED BY <1>4, <2>1 DEF PagesAreContent
  <1>6. Seen'[p] \in [0 .. SizeOf[p] - 1 -> Byte]
    <2>1. Seen'[p] = [a \in 0 .. SizeOf[p] - 1 |-> PageSeen(p, a \div PageSize)'[a % PageSize]]
      BY <1>4 DEF Seen, Gone, SizeOf
    <2>2. ASSUME NEW a \in 0 .. SizeOf[p] - 1
          PROVE  PageSeen(p, a \div PageSize)'[a % PageSize] \in Byte
      BY <1>5, AddressParts DEF Content
    <2>. QED BY <2>1, <2>2
  <1>7. Seen' = [Seen EXCEPT ![p] = Seen'[p]]
    BY <1>2, OneArray
  <1>. QED BY <1>1, <1>3, <1>6, <1>7 DEF Flat!Admit, Flat!NoBytes, NoBytes

LEMMA OthersHide ==
    ASSUME AllInv, AllInv', MInv, XInv, [Next]_vars,
           \/ UNCHANGED vars
           \/ \E p \in Procs : Unblocks(p) \/ Suspends(p) \/ Returns(p)
    PROVE  UNCHANGED Flat!vars
  <1>1. UNCHANGED <<cpu, at, doing, reply>> /\ TInv
    BY DEF vars, Unblocks, Suspends, Returns, AllInv
  <1>2. \A c \in CPUs : ~Writes(c)
    BY <1>1, OthersWriteNot
  <1>3. \A q \in Procs : Gone(q) <=> Gone(q)'
    BY <1>1 DEF vars, memoria, Unblocks, Suspends, Returns, Gone, TInv, TypeOK
  <1>4. UNCHANGED Seen
    BY <1>2, <1>3, ArraysKept
  <1>. QED BY <1>1, <1>4 DEF Flat!vars

LEMMA StepMaps ==
    AllInv /\ AllInv' /\ MInv /\ MInv' /\ XInv /\ DInv /\ [Next]_vars => [Flat!Next]_Flat!vars
  <1>. SUFFICES ASSUME AllInv, AllInv', MInv, MInv', XInv, DInv, [Next]_vars
                PROVE  Flat!Next \/ UNCHANGED Flat!vars
    OBVIOUS
  <1>1. ASSUME NEW c \in CPUs, CPUStep(c)
        PROVE  Flat!Next \/ UNCHANGED Flat!vars
    <2>1. ASSUME NEW p \in Procs, NEW r \in Requests[p], Begins(c, p, r)
          PROVE  Flat!Next
      BY <2>1, BeginsBegin DEF Flat!Next
    <2>2. CASE Translates(c)
      BY <2>2, TranslatesFail DEF Flat!Next
    <2>3. CASE Gets(c) \/ Scans(c) \/ Flushes(c)
      BY <2>3, HiddenSteps
    <2>4. CASE WritesCache(c) \/ WritesThrough(c)
      BY <2>4, WritesWrite DEF Writes, Flat!Next
    <2>5. CASE ReadsCache(c) \/ ReadsThrough(c)
      BY <2>5, ReadsRead DEF Flat!Next
    <2>6. CASE Syscalls(c) \/ Interrupted(c)
      BY <2>6, LeavesRelease DEF Flat!Next
    <2>7. CASE Exits(c)
      BY <2>7, ExitsLeave DEF Flat!Next
    <2>8. ASSUME NEW p \in Procs, Dispatches(c, p)
          PROVE  Flat!Next
      BY <2>8, DispatchesDispatch DEF Flat!Next
    <2>. QED BY <1>1, <2>1, <2>2, <2>3, <2>4, <2>5, <2>6, <2>7, <2>8 DEF CPUStep
  <1>2. ASSUME NEW p \in Procs, ProcStep(p)
        PROVE  Flat!Next \/ UNCHANGED Flat!vars
    <2>1. CASE Admits(p)
      BY <2>1, AdmitsAdmit DEF Flat!Next
    <2>2. CASE Unblocks(p) \/ Suspends(p) \/ Returns(p)
      BY <2>2, OthersHide
    <2>. QED BY <1>2, <2>1, <2>2 DEF ProcStep
  <1>3. CASE UNCHANGED vars
    BY <1>3, OthersHide
  <1>. QED BY <1>1, <1>2, <1>3, StepsOfWhom

LEMMA InitMaps == Init => Flat!Init
  <1>. SUFFICES ASSUME Init
                PROVE  Flat!Init
    OBVIOUS
  <1>1. Seen = [p \in Procs |-> NoBytes]
    BY DEF Init, Seen
  <1>. QED BY <1>1 DEF Init, Flat!Init, Flat!NoBytes, NoBytes

\* The TLB, the cache with its two clocks, the write-backs, the walk over the tables, the
\* frames that change hands and the swap file add up to a flat memory per process: the
\* READs of its script return what its WRITEs have put there, whatever else happens in
\* between on any CPU (cpu/memory as a whole, with memoria's part of it), where the code
\* is not known to break it: no suspension with a translation left, no interrupt with a
\* page left, no cached READ past the end and none without cache across pages unless it
\* begins with one.
THEOREM FlatMemoryIsKept ==
    ASSUME "suspendTranslated" \notin Hazards, "interruptCached" \notin Hazards,
           "overrunCached" \notin Hazards, "crossUnaligned" \notin Hazards
    PROVE  Spec => FlatMemoryKept
  <1>. DEFINE IInv == AllInv /\ MInv /\ XInv /\ DInv
  <1>1. Init => IInv
    BY InitAll, InitMatches, InitX, InitDone
  <1>2. IInv /\ [Next]_vars => IInv'
    <2>1. AllInv /\ [Next]_vars => AllInv'
      BY StepAll
    <2>2. AllInv /\ MInv /\ [Next]_vars => MInv'
      BY StepMatches
    <2>3. AllInv /\ MInv /\ XInv /\ [Next]_vars => XInv'
      BY StepX
    <2>. QED BY <2>1, <2>2, <2>3, StepDone
  <1>3. IInv /\ IInv' /\ [Next]_vars => [Flat!Next]_Flat!vars
    BY StepMaps
  <1>. HIDE DEF IInv
  <1>. QED BY <1>1, <1>2, <1>3, InitMaps, PTL DEF Spec, FlatMemoryKept, Flat!Spec
=============================================================================
