-------------------------- MODULE CPUMemoryProofs --------------------------
(***************************************************************************)
(* What holds of CPUMemory for every value of its constants.               *)
(***************************************************************************)
EXTENDS CPUMemory, TLAPS, WellFoundedInduction

Active == {"translate", "get", "scan", "copy"}

\* A CPU with a step to do runs a process, which no other CPU runs.
RunsOne == \A c \in CPUs :
    /\ cpu[c] # NoPid => stage[cpu[c]] = "EXEC" /\ \A d \in CPUs : cpu[d] = cpu[c] => d = c
    /\ at[c] # "instruction" => cpu[c] # NoPid
    /\ at[c] \in Active => /\ doing[c] \in Requests[cpu[c]]
                           /\ job[c].page \in Page
                           /\ job[c].done < doing[c].size
    /\ at[c] = "scan" => CacheEnable(c)

CachedPages == \A c \in CPUs : \A i \in Slot[c] :
    cache[c][i].pid # NoPid => cache[c][i].page \in Page

TInv == TypeOK /\ RunsOne /\ CachedPages

-----------------------------------------------------------------------------
(* The operators *)

LEMMA LeastIsLeast ==
    ASSUME NEW S, S \subseteq Nat, S # {}
    PROVE  Least(S) \in S /\ \A j \in S : Least(S) <= j
  <1>1. PICK x \in S : \A y \in S : ~ (<<y, x>> \in OpToRel(<, Nat))
    BY NatLessThanWellFounded, WFMin
  <1>2. OpToRel(<, Nat) = {ss \in Nat \X Nat : ss[1] < ss[2]}
    BY Zenon DEF OpToRel
  <1>3. ASSUME NEW y \in S
        PROVE  x <= y
    <2>1. <<y, x>> \notin {ss \in Nat \X Nat : ss[1] < ss[2]}
      BY <1>1, <1>2
    <2>2. x \in Nat /\ y \in Nat
      OBVIOUS
    <2>3. ~(y < x)
      BY <2>1, <2>2
    <2>. QED BY <2>2, <2>3
  <1>. QED BY <1>3 DEF Least

LEMMA SumIsPage ==
    ASSUME NEW page \in Page
    PROVE  sum(page) \in Page
  BY SizesAssumption DEF sum, Page

\* Induction, for a property given by the set of the numbers that have it.
LEMMA ByInduction ==
    ASSUME NEW S, 0 \in S, \A n \in Nat : n \in S => n + 1 \in S
    PROVE  Nat \subseteq S
  <1>. DEFINE Bad == Nat \ S
  <1>1. SUFFICES ASSUME Bad # {} PROVE FALSE
    OBVIOUS
  <1>2. PICK m \in Bad : \A n \in Bad : m <= n
    <2>1. Bad \subseteq Nat
      OBVIOUS
    <2>. HIDE DEF Bad
    <2>. QED BY <1>1, <2>1, LeastIsLeast
  <1>3. m - 1 \in Nat /\ m - 1 \notin Bad
    BY <1>2
  <1>. QED BY <1>2, <1>3

\* The equation of the loop has a solution: every number of turns has a result, and those
\* of more turns go on from it.
LEMMA DigitsExist ==
    FromIntToLogicalAddres =
        [n \in Nat |-> IF n = 0 THEN [k \in 1 .. Levels |-> 0] ELSE sum(FromIntToLogicalAddres[n - 1])]
  <1>. DEFINE zero == [k \in 1 .. Levels |-> 0]
              Turns(n) == {f \in [0 .. n -> Page] :
                              f[0] = zero /\ \A k \in 1 .. n : f[k] = sum(f[k - 1])}
              S == {n \in Nat : Turns(n) # {}}
              first(n) == CHOOSE f : f \in Turns(n)
              all == [n \in Nat |-> first(n)[n]]
              Loop(f) == [n \in Nat |-> IF n = 0 THEN zero ELSE sum(f[n - 1])]
  <1>0. zero \in Page
    BY SizesAssumption DEF Page
  <1>1. 0 \in S
    <2>. DEFINE f == [k \in 0 .. 0 |-> zero]
    <2>. HIDE DEF zero
    <2>1. f \in [0 .. 0 -> Page] /\ f[0] = zero
      BY <1>0
    <2>2. \A k \in 1 .. 0 : f[k] = sum(f[k - 1])
      OBVIOUS
    <2>. HIDE DEF f
    <2>. QED BY <2>1, <2>2
  <1>2. ASSUME NEW n \in Nat, n \in S
        PROVE  n + 1 \in S
    <2>. HIDE DEF zero
    <2>1. PICK f \in Turns(n) : TRUE
      BY <1>2
    <2>. DEFINE g == [k \in 0 .. n + 1 |-> IF k <= n THEN f[k] ELSE sum(f[n])]
    <2>2. f \in [0 .. n -> Page] /\ f[0] = zero /\ \A k \in 1 .. n : f[k] = sum(f[k - 1])
      OBVIOUS
    <2>3. g \in [0 .. n + 1 -> Page]
      BY <2>2, SumIsPage
    <2>4. g[0] = zero /\ \A k \in 1 .. n + 1 : g[k] = sum(g[k - 1])
      BY <2>2
    <2>. HIDE DEF g
    <2>. QED BY <2>3, <2>4
  <1>. HIDE DEF S
  <1>3. \A n \in Nat : first(n) \in Turns(n)
    <2>1. Nat \subseteq S
      BY <1>1, <1>2, ByInduction
    <2>. HIDE DEF Turns
    <2>. QED BY <2>1, Zenon DEF S
  <1>4. ASSUME NEW n \in Nat, NEW m \in Nat, n <= m
        PROVE  first(n)[n] = first(m)[n]
    <2>. DEFINE B == {k \in Nat : k <= n => first(n)[k] = first(m)[k]}
    <2>. HIDE DEF first, zero
    <2>1. 0 \in B
      BY <1>3
    <2>2. ASSUME NEW k \in Nat, k \in B
          PROVE  k + 1 \in B
      <3>1. k + 1 <= n => /\ first(n)[k + 1] = sum(first(n)[k])
                          /\ first(m)[k + 1] = sum(first(m)[k])
        <4>1. ASSUME NEW j \in {n, m}, k + 1 <= j
              PROVE  first(j)[k + 1] = sum(first(j)[k])
          <5>1. \A i \in 1 .. j : first(j)[i] = sum(first(j)[i - 1])
            BY <1>3
          <5>2. k + 1 \in 1 .. j /\ (k + 1) - 1 = k
            BY <4>1
          <5>. QED BY <5>1, <5>2
        <4>. QED BY <1>4, <4>1
      <3>. QED BY <2>2, <3>1
    <2>. HIDE DEF B
    <2>3. n \in B
      BY <2>1, <2>2, ByInduction
    <2>. QED BY <2>3 DEF B
  <1>5. all = Loop(all)
    <2>. HIDE DEF first, zero
    <2>1. ASSUME NEW n \in Nat
          PROVE  all[n] = IF n = 0 THEN zero ELSE sum(all[n - 1])
      <3>1. CASE n = 0
        BY <1>3, <3>1
      <3>2. CASE n # 0
        <4>1. n - 1 \in Nat /\ n \in 1 .. n
          BY <3>2
        <4>2. first(n)[n] = sum(first(n)[n - 1])
          BY <1>3, <4>1
        <4>3. first(n)[n - 1] = first(n - 1)[n - 1]
          BY <1>4, <4>1
        <4>. QED BY <3>2, <4>1, <4>2, <4>3
      <3>. QED BY <3>1, <3>2
    <2>. QED BY <2>1
  <1>6. FromIntToLogicalAddres = CHOOSE f : f = Loop(f)
    BY DEF FromIntToLogicalAddres
  <1>. HIDE DEF all, Loop
  <1>7. FromIntToLogicalAddres = Loop(FromIntToLogicalAddres)
    BY <1>5, <1>6, Zenon
  <1>. QED BY <1>7 DEF Loop

LEMMA DigitsArePages == \A n \in Nat : FromIntToLogicalAddres[n] \in Page
  <1>. DEFINE S == {n \in Nat : FromIntToLogicalAddres[n] \in Page}
  <1>1. 0 \in S
    BY DigitsExist, SizesAssumption DEF Page
  <1>2. ASSUME NEW n \in Nat, n \in S
        PROVE  n + 1 \in S
    <2>1. n + 1 \in Nat /\ n + 1 # 0 /\ (n + 1) - 1 = n
      OBVIOUS
    <2>2. FromIntToLogicalAddres[n + 1] = sum(FromIntToLogicalAddres[n])
      BY <2>1, DigitsExist
    <2>. QED BY <1>2, <2>2, SumIsPage
  <1>. HIDE DEF S
  <1>3. Nat \subseteq S
    BY <1>1, <1>2, ByInduction
  <1>. QED BY <1>3 DEF S

\* A hit moves entries, and neither adds nor drops one.
LEMMA MovedEntries ==
    ASSUME NEW S, NEW s \in Seq(S), NEW i \in DOMAIN s
    PROVE  /\ MovedToEnd(s, i) \in Seq(S)
           /\ Len(MovedToEnd(s, i)) = Len(s)
           /\ \A k \in DOMAIN MovedToEnd(s, i) : \E m \in DOMAIN s : MovedToEnd(s, i)[k] = s[m]
  <1>. DEFINE m == MovedToEnd(s, i)
             n == Len(s)
  <1>1. n \in Nat /\ DOMAIN s = 1 .. n
    OBVIOUS
  <1>2. m = [k \in 1 .. n |-> IF k < i THEN s[k] ELSE IF k = n THEN s[i] ELSE s[k + 1]]
    BY <1>1 DEF MovedToEnd
  <1>. HIDE DEF m, n
  <1>3. ASSUME NEW k \in 1 .. n
        PROVE  \E l \in 1 .. n : m[k] = s[l]
    <2>1. CASE k < i \/ k = n
      BY <1>1, <1>2, <2>1
    <2>2. CASE ~(k < i) /\ k # n
      <3>1. m[k] = s[k + 1]
        BY <1>1, <1>2, <2>2
      <3>2. k + 1 \in 1 .. n
        BY <1>1, <2>2
      <3>. QED BY <3>1, <3>2
    <2>. QED BY <2>1, <2>2
  <1>4. ASSUME NEW k \in 1 .. n
        PROVE  m[k] \in S
    <2>1. PICK l \in 1 .. n : m[k] = s[l]
      BY <1>3
    <2>. QED BY <1>1, <2>1
  <1>5. m \in Seq(S) /\ Len(m) = n /\ DOMAIN m = 1 .. n
    BY <1>1, <1>2, <1>4
  <1>. QED BY <1>1, <1>3, <1>5 DEF m, n

LEMMA HitsAreEntries ==
    ASSUME TypeOK, NEW c \in CPUs, NEW p, NEW page, Hits(c, p, page) # {}
    PROVE  /\ Least(Hits(c, p, page)) \in DOMAIN tlb[c]
           /\ tlb[c][Least(Hits(c, p, page))].pid = p
           /\ tlb[c][Least(Hits(c, p, page))].page = page
           /\ tlb[c][Least(Hits(c, p, page))].frame \in Frame
  <1>1. tlb[c] \in Seq(TLBEntry)
    BY DEF TypeOK
  <1>2. Hits(c, p, page) \subseteq Nat
    BY <1>1 DEF Hits
  <1>3. Least(Hits(c, p, page)) \in Hits(c, p, page)
    BY <1>2, LeastIsLeast
  <1>4. ASSUME NEW i \in DOMAIN tlb[c]
        PROVE  tlb[c][i].frame \in Frame
    <2>1. tlb[c][i] \in TLBEntry
      BY <1>1
    <2>. QED BY <2>1 DEF TLBEntry
  <1>. QED BY <1>3, <1>4 DEF Hits, TLBEntry

LEMMA FrameOfPage ==
    ASSUME TypeOK, NEW p \in Procs, NEW page, HasFrame(p, page)
    PROVE  LogicAddressToFrame(p, page) \in Frame
  <1>1. pageBases[p] \in {NoBytes} \union [0 .. PageCount[p] - 1 -> Frame]
    BY DEF TypeOK
  <1>2. PageIndex(page) \in DOMAIN pageBases[p]
    BY DEF HasFrame
  <1>3. pageBases[p] \in [0 .. PageCount[p] - 1 -> Frame]
    BY <1>1, <1>2 DEF NoBytes
  <1>. QED BY <1>2, <1>3 DEF LogicAddressToFrame

LEMMA TranslatedIsFrame ==
    ASSUME TypeOK, NEW c \in CPUs, NEW p \in Procs, NEW page, Found(c, p, page)
    PROVE  Translated(c, p, page) \in Frame
  BY HitsAreEntries, FrameOfPage DEF Found, Translated

\* What a translation does to the entries of a TLB.
LEMMA TranslationTypes ==
    ASSUME TypeOK, NEW c \in CPUs, NEW p \in Procs, NEW page \in Page, Traducir(c, p, page)
    PROVE  tlb' \in [CPUs -> Seq(TLBEntry)]
  <1>1. tlb \in [CPUs -> Seq(TLBEntry)]
    BY DEF TypeOK
  <1>2. findFrame(c, p, page) \in Seq(TLBEntry)
    BY <1>1, HitsAreEntries, MovedEntries DEF findFrame, Touched
  <1>3. ASSUME NEW e \in TLBEntry
        PROVE  AddEntryTLB(c, e) \in Seq(TLBEntry)
    <2>1. CASE Len(tlb[c]) >= TLBEntries[c] /\ TLBEntries[c] # 0
      <3>1. tlb[c] # <<>>
        BY <1>1, <2>1, ConfigAssumption
      <3>. QED BY <1>1, <2>1, <3>1 DEF AddEntryTLB
    <2>. QED BY <1>1, <2>1 DEF AddEntryTLB
  <1>4. ASSUME HasFrame(p, page)
        PROVE  [pid |-> p, page |-> page, frame |-> LogicAddressToFrame(p, page)] \in TLBEntry
    BY <1>4, FrameOfPage DEF TLBEntry
  <1>. QED BY <1>1, <1>2, <1>3, <1>4 DEF Traducir

LEMMA SaveTypes ==
    ASSUME TypeOK, NEW c \in CPUs, NEW p \in Procs, NEW page \in Page,
           NEW content \in Content \union {NoBytes}, SavePageInMemory(c, p, page, content)
    PROVE  userMemory' \in [Frame -> Content] /\ tlb' \in [CPUs -> Seq(TLBEntry)]
  <1>1. tlb' \in [CPUs -> Seq(TLBEntry)]
    BY TranslationTypes DEF SavePageInMemory
  <1>2. DOMAIN content = 0 .. PageSize - 1 => content \in Content
    BY SizesAssumption DEF NoBytes
  <1>3. ASSUME NEW f, HasPage(p, f)
        PROVE  f \in Frame
    <2>1. pageBases[p] \in {NoBytes} \union [0 .. PageCount[p] - 1 -> Frame]
      BY DEF TypeOK
    <2>. QED BY <1>3, <2>1 DEF HasPage, NoBytes
  <1>. QED BY <1>1, <1>2, <1>3 DEF SavePageInMemory, TypeOK

-----------------------------------------------------------------------------
(* Every step keeps the types *)

LEMMA ActiveFacts ==
    ASSUME TInv, NEW c \in CPUs, at[c] \in Active
    PROVE  /\ cpu[c] \in Procs /\ job[c].page \in Page /\ doing[c] \in Requests[cpu[c]]
           /\ job[c] \in Job
           /\ Delta(c) \in 0 .. PageSize - 1
           /\ Chunk(c) \in Nat \ {0}
           /\ Delta(c) + Chunk(c) <= PageSize
           /\ job[c].done + Chunk(c) <= doing[c].size
  <1>1. cpu[c] \in Procs /\ doing[c] \in Requests[cpu[c]] /\ job[c].page \in Page
    BY DEF TInv, RunsOne, TypeOK, Active
  <1>2. doing[c].addr \in Nat /\ doing[c].size \in Nat
    BY <1>1, RequestsAssumption
  <1>3. job[c] \in Job /\ job[c].done \in Nat /\ job[c].done < doing[c].size
    BY DEF TInv, RunsOne, TypeOK, Job
  <1>4. Delta(c) \in 0 .. PageSize - 1
    BY <1>2, SizesAssumption DEF Delta
  <1>. DEFINE S == {doing[c].size - job[c].done, PageSize - Delta(c)}
  <1>5. S \subseteq Nat \ {0} /\ S # {}
    BY <1>2, <1>3, <1>4, SizesAssumption
  <1>6. Chunk(c) \in S /\ \A x \in S : Chunk(c) <= x
    BY <1>5, LeastIsLeast DEF Chunk
  <1>7. Chunk(c) \in Nat \ {0} /\ Chunk(c) <= doing[c].size - job[c].done
           /\ Chunk(c) <= PageSize - Delta(c)
    BY <1>5, <1>6
  <1>. QED BY <1>1, <1>2, <1>3, <1>4, <1>7, SizesAssumption

LEMMA Within ==
    ASSUME NEW a \in Nat, NEW b \in Nat, NEW n \in Nat, NEW m \in Nat, a + n <= m,
           NEW d \in b .. b + n - 1
    PROVE  a + d - b \in 0 .. m - 1
  OBVIOUS

LEMMA JobTypes ==
    ASSUME NEW done \in Nat, NEW page \in Page \union {NoPage}
    PROVE  /\ PageJob(done, page) \in Job
           /\ PageJob(done, page).done = done /\ PageJob(done, page).page = page
  BY SizesAssumption DEF PageJob, Job, Frame

LEMMA WrittenIsContent ==
    ASSUME TInv, NEW c \in CPUs, at[c] \in Active, doing[c].kind = "write",
           NEW content \in Content \union {NoBytes}
    PROVE  Written(c, content) \in Content \union {NoBytes}
  <1>1. doing[c].bytes \in [0 .. doing[c].size - 1 -> Byte] /\ doing[c].size \in Nat
    BY ActiveFacts, RequestsAssumption
  <1>2. job[c].done \in Nat
    BY ActiveFacts DEF Job
  <1>3. ASSUME NEW d \in Delta(c) .. Delta(c) + Chunk(c) - 1
        PROVE  doing[c].bytes[job[c].done + d - Delta(c)] \in Byte
    <2>1. Delta(c) \in Nat /\ Chunk(c) \in Nat /\ job[c].done + Chunk(c) <= doing[c].size
      BY ActiveFacts, SizesAssumption
    <2>2. job[c].done + d - Delta(c) \in 0 .. doing[c].size - 1
      BY <1>1, <1>2, <2>1, Within
    <2>. QED BY <1>1, <2>2
  <1>4. CASE content \in Content
    BY <1>3, <1>4 DEF Written, Content
  <1>5. CASE content = NoBytes
    BY <1>5 DEF Written, NoBytes
  <1>. QED BY <1>4, <1>5

LEMMA InstructionsOf == None \in Instructions /\ \A p \in Procs : Requests[p] \subseteq Instructions
  BY DEF Instructions

LEMMA EndsTypes ==
    ASSUME TInv, NEW c \in CPUs, NEW step \in Steps \ Active, Ends(c, step)
    PROVE  /\ at' \in [CPUs -> Steps] /\ job' \in [CPUs -> Job]
           /\ doing' \in [CPUs -> Instructions]
           /\ at'[c] = step
           /\ \A d \in CPUs \ {c} : at'[d] = at[d] /\ doing'[d] = doing[d] /\ job'[d] = job[d]
  <1>1. NoJob \in Job
    BY JobTypes DEF NoJob
  <1>2. at' = [at EXCEPT ![c] = step] /\ doing' = [doing EXCEPT ![c] = None]
           /\ job' = [job EXCEPT ![c] = NoJob]
    BY DEF Ends, Goes
  <1>3. at' \in [CPUs -> Steps] /\ job' \in [CPUs -> Job]
    BY <1>1, <1>2 DEF TInv, TypeOK
  <1>4. doing' \in [CPUs -> Instructions]
    BY <1>2, InstructionsOf DEF TInv, TypeOK
  <1>. QED BY <1>2, <1>3, <1>4 DEF TInv, TypeOK

\* A step of c that leaves the process and the other CPUs as they are.
Local(c) == /\ UNCHANGED <<pageBases, swap, stage, cpu>>
            /\ \A d \in CPUs \ {c} : at'[d] = at[d] /\ doing'[d] = doing[d] /\ job'[d] = job[d]

LEMMA LocalKeepsRunsOne ==
    ASSUME TInv, NEW c \in CPUs, Local(c), cpu[c] # NoPid,
           at'[c] \in Active => /\ doing'[c] \in Requests[cpu[c]]
                                /\ job'[c].page \in Page
                                /\ job'[c].done < doing'[c].size,
           at'[c] = "scan" => CacheEnable(c)
    PROVE  RunsOne'
  BY DEF TInv, RunsOne, Local

LEMMA AdvancesTypes ==
    ASSUME TInv, NEW c \in CPUs, at[c] \in Active, Advances(c)
    PROVE  /\ at' \in [CPUs -> Steps] /\ job' \in [CPUs -> Job]
           /\ doing' \in [CPUs -> Instructions]
           /\ \A d \in CPUs \ {c} : at'[d] = at[d] /\ doing'[d] = doing[d] /\ job'[d] = job[d]
           /\ at'[c] \in {"instruction", "translate"}
           /\ at'[c] \in Active => /\ doing'[c] \in Requests[cpu[c]]
                                   /\ job'[c].page \in Page
                                   /\ job'[c].done < doing'[c].size
  <1>1. CASE job[c].done + Chunk(c) = doing[c].size
    <2>1. Ends(c, "instruction")
      BY <1>1 DEF Advances
    <2>. QED BY <2>1, EndsTypes DEF Steps, Active
  <1>2. CASE job[c].done + Chunk(c) # doing[c].size
    <2>. DEFINE j == PageJob(job[c].done + Chunk(c), sum(job[c].page))
    <2>1. sum(job[c].page) \in Page /\ job[c].done \in Nat /\ Chunk(c) \in Nat
      BY ActiveFacts, SumIsPage DEF Job
    <2>6. j \in Job /\ j.page = sum(job[c].page) /\ j.done = job[c].done + Chunk(c)
      BY <2>1, JobTypes
    <2>3. job' = [job EXCEPT ![c] = j] /\ Goes(c, "translate") /\ UNCHANGED doing
      BY <1>2 DEF Advances
    <2>4. doing[c].size \in Nat
      BY ActiveFacts, RequestsAssumption
    <2>5. j.done < doing[c].size
      BY <1>2, <2>1, <2>6, <2>4, ActiveFacts
    <2>. HIDE DEF j
    <2>. QED BY <2>1, <2>6, <2>3, <2>5, ActiveFacts DEF TInv, TypeOK, Goes, Steps
  <1>. QED BY <1>1, <1>2

\* The entries of c change to others of the right type.
LEMMA CacheTypes ==
    ASSUME TInv, NEW c \in CPUs, NEW new \in [Slot[c] -> CacheEntry],
           \A i \in Slot[c] : new[i].pid # NoPid => new[i].page \in Page,
           cache' = [cache EXCEPT ![c] = new]
    PROVE  /\ DOMAIN cache' = CPUs /\ \A d \in CPUs : cache'[d] \in [Slot[d] -> CacheEntry]
           /\ CachedPages'
  BY DEF TInv, TypeOK, CachedPages

LEMMA EntryTypes ==
    ASSUME TInv, NEW c \in CPUs, NEW i \in Slot[c]
    PROVE  /\ cache[c][i] \in CacheEntry
           /\ cache[c][i].pid \in Procs \union {NoPid}
           /\ cache[c][i].content \in Content \union {NoBytes}
           /\ cache[c][i].use \in BOOLEAN /\ cache[c][i].position \in BOOLEAN
           /\ cache[c][i].pid # NoPid => cache[c][i].page \in Page
  BY DEF TInv, TypeOK, CachedPages, CacheEntry

LEMMA PositionTypes ==
    ASSUME NEW e \in CacheEntry, NEW b \in BOOLEAN
    PROVE  /\ [e EXCEPT !.position = b] \in CacheEntry
           /\ [e EXCEPT !.position = b].pid = e.pid
           /\ [e EXCEPT !.position = b].page = e.page
           /\ [e EXCEPT !.position = b].position = b
  BY DEF CacheEntry

LEMMA UseTypes ==
    ASSUME NEW e \in CacheEntry, NEW b \in BOOLEAN
    PROVE  /\ [e EXCEPT !.use = b] \in CacheEntry
           /\ [e EXCEPT !.use = b].pid = e.pid
           /\ [e EXCEPT !.use = b].page = e.page
           /\ [e EXCEPT !.use = b].position = e.position
  BY DEF CacheEntry

\* What the hand leaves behind differs from what was there in one entry, but for marks.
LEMMA HandMovedEntries ==
    ASSUME TInv, NEW c \in CPUs, NEW i \in Slot[c], NEW e \in CacheEntry
    PROVE  /\ HandMoved(cache[c], i, e) \in [Slot[c] -> CacheEntry]
           /\ HandMoved(cache[c], i, e)[i].pid = e.pid
           /\ HandMoved(cache[c], i, e)[i].page = e.page
           /\ \A j \in Slot[c] \ {i} :
                 /\ HandMoved(cache[c], i, e)[j].pid = cache[c][j].pid
                 /\ HandMoved(cache[c], i, e)[j].page = cache[c][j].page
           /\ \A j \in Slot[c] : HandMoved(cache[c], i, e)[j].position =>
                 j = (i + 1) % Cardinality(Slot[c]) \/ (j # i /\ cache[c][j].position)
  <1>. DEFINE moved == HandMoved(cache[c], i, e)
              next == (i + 1) % Cardinality(Slot[c])
              old(j) == IF j = i THEN e ELSE cache[c][j]
              mark(j) == j = next \/ (old(j).position /\ j # i)
  <1>1. cache[c] \in [Slot[c] -> CacheEntry] /\ DOMAIN cache[c] = Slot[c]
    BY DEF TInv, TypeOK
  <1>2. ASSUME NEW j \in Slot[c]
        PROVE  old(j) \in CacheEntry /\ mark(j) \in BOOLEAN
    BY <1>1 DEF CacheEntry
  <1>3. moved = [j \in Slot[c] |-> [old(j) EXCEPT !.position = mark(j)]]
    BY <1>1, Zenon DEF HandMoved
  <1>4. ASSUME NEW j \in Slot[c]
        PROVE  /\ moved[j] \in CacheEntry /\ moved[j].pid = old(j).pid
               /\ moved[j].page = old(j).page /\ moved[j].position = mark(j)
    <2>1. moved[j] = [old(j) EXCEPT !.position = mark(j)]
      BY <1>3
    <2>. HIDE DEF moved, old, mark
    <2>. QED BY <1>2, <2>1, PositionTypes
  <1>5. moved \in [Slot[c] -> CacheEntry]
    <2>. HIDE DEF old, mark
    <2>1. \A j \in Slot[c] : [old(j) EXCEPT !.position = mark(j)] \in CacheEntry
      BY <1>2, PositionTypes
    <2>. QED BY <1>3, <2>1
  <1>6. old(i) = e /\ \A j \in Slot[c] \ {i} : old(j) = cache[c][j]
    OBVIOUS
  <1>7. \A j \in Slot[c] : mark(j) => j = next \/ (j # i /\ cache[c][j].position)
    OBVIOUS
  <1>. HIDE DEF moved, old, mark
  <1>. QED BY <1>4, <1>5, <1>6, <1>7 DEF moved

LEMMA LocalTypes ==
    ASSUME TInv, NEW c \in CPUs, Local(c), cpu[c] # NoPid,
           userMemory' \in [Frame -> Content],
           at' \in [CPUs -> Steps], job' \in [CPUs -> Job], doing' \in [CPUs -> Instructions],
           tlb' \in [CPUs -> Seq(TLBEntry)],
           DOMAIN cache' = CPUs, \A d \in CPUs : cache'[d] \in [Slot[d] -> CacheEntry],
           CachedPages',
           at'[c] \in Active => /\ doing'[c] \in Requests[cpu[c]]
                                /\ job'[c].page \in Page
                                /\ job'[c].done < doing'[c].size,
           at'[c] = "scan" => CacheEnable(c)
    PROVE  TInv'
  <1>1. RunsOne'
    BY LocalKeepsRunsOne
  <1>2. TypeOK'
    BY DEF TInv, TypeOK, Local
  <1>. QED BY <1>1, <1>2 DEF TInv

LEMMA SameCache ==
    ASSUME TInv, UNCHANGED cache
    PROVE  /\ DOMAIN cache' = CPUs /\ \A d \in CPUs : cache'[d] \in [Slot[d] -> CacheEntry]
           /\ CachedPages'
  BY DEF TInv, TypeOK, CachedPages

LEMMA BeginsTypes ==
    ASSUME TInv, NEW c \in CPUs, NEW p \in Procs, NEW r \in Requests[p], Begins(c, p, r)
    PROVE  TInv'
  <1>. DEFINE page == FromIntToLogicalAddres[r.addr \div PageSize]
              j == PageJob(0, page)
  <1>1. page \in Page
    <2>1. r.addr \in Nat /\ PageSize \in Nat \ {0}
      BY RequestsAssumption, SizesAssumption
    <2>2. r.addr \div PageSize \in Nat
      BY <2>1
    <2>. QED BY <2>2, DigitsArePages
  <1>2. j \in Job /\ j.page = page /\ j.done = 0
    BY <1>1, JobTypes
  <1>3. /\ cpu[c] = p /\ cpu[c] # NoPid /\ doing' = [doing EXCEPT ![c] = r]
        /\ job' = [job EXCEPT ![c] = j]
        /\ \E step \in {"copy", "translate"} : at' = [at EXCEPT ![c] = step]
        /\ UNCHANGED <<memoria, cpu, tlb, cache>>
    BY PidAssumption DEF Begins, Goes
  <1>4. r \in Instructions /\ 0 < r.size
    BY InstructionsOf, RequestsAssumption
  <1>. HIDE DEF page, j
  <1>5. Local(c)
    BY <1>3 DEF Local, memoria, TInv, TypeOK
  <1>6. /\ userMemory' \in [Frame -> Content] /\ at' \in [CPUs -> Steps]
        /\ job' \in [CPUs -> Job] /\ tlb' \in [CPUs -> Seq(TLBEntry)]
    BY <1>2, <1>3 DEF TInv, TypeOK, memoria, Steps
  <1>7. doing' \in [CPUs -> Instructions]
    BY <1>3, <1>4 DEF TInv, TypeOK
  <1>8. at'[c] # "scan" /\ doing'[c] = r /\ job'[c] = j
    BY <1>3 DEF TInv, TypeOK
  <1>9. UNCHANGED cache
    BY <1>3
  <1>. QED BY <1>1, <1>2, <1>3, <1>4, <1>5, <1>6, <1>7, <1>8, <1>9, SameCache, LocalTypes

LEMMA FailsTypes ==
    ASSUME TInv, NEW c \in CPUs, NEW mayExit, Fails(c, mayExit)
    PROVE  /\ at' \in [CPUs -> Steps] /\ job' \in [CPUs -> Job]
           /\ doing' \in [CPUs -> Instructions]
           /\ at'[c] \notin Active
           /\ \A d \in CPUs \ {c} : at'[d] = at[d] /\ doing'[d] = doing[d] /\ job'[d] = job[d]
  <1>1. PICK step \in {"exit", "instruction", "lost"} : Ends(c, step)
    BY DEF Fails
  <1>2. step \in Steps \ Active
    BY DEF Steps, Active
  <1>. QED BY <1>1, <1>2, EndsTypes

LEMMA TranslatesTypes ==
    ASSUME TInv, NEW c \in CPUs, Translates(c)
    PROVE  TInv'
  <1>1. /\ at[c] \in Active /\ cpu[c] \in Procs /\ job[c].page \in Page
        /\ doing[c] \in Requests[cpu[c]] /\ job[c] \in Job /\ job[c].done < doing[c].size
    BY ActiveFacts DEF Translates, Active, TInv, RunsOne
  <1>2. tlb' \in [CPUs -> Seq(TLBEntry)]
    BY <1>1, TranslationTypes DEF Translates, TInv
  <1>3. UNCHANGED <<memoria, cpu, cache>> /\ cpu[c] # NoPid
    BY <1>1, PidAssumption DEF Translates
  <1>4. userMemory' \in [Frame -> Content] /\ UNCHANGED cache
    BY <1>3 DEF memoria, TInv, TypeOK
  <1>5. CASE Found(c, cpu[c], job[c].page)
    <2>. DEFINE j == [job[c] EXCEPT !.frame = Translated(c, cpu[c], job[c].page)]
    <2>1. Translated(c, cpu[c], job[c].page) \in Frame
      BY <1>1, <1>5, TranslatedIsFrame DEF TInv
    <2>2. j \in Job /\ j.page = job[c].page /\ j.done = job[c].done
      BY <1>1, <2>1 DEF Job
    <2>3. /\ job' = [job EXCEPT ![c] = j] /\ UNCHANGED doing
          /\ \E step \in {"copy", "get"} : at' = [at EXCEPT ![c] = step]
      BY <1>5 DEF Translates, Goes
    <2>. HIDE DEF j
    <2>4. at' \in [CPUs -> Steps] /\ job' \in [CPUs -> Job] /\ doing' \in [CPUs -> Instructions]
      BY <2>2, <2>3 DEF TInv, TypeOK, Steps
    <2>5. at'[c] # "scan" /\ doing'[c] = doing[c] /\ job'[c] = j
      BY <2>3 DEF TInv, TypeOK
    <2>6. Local(c)
      BY <1>3, <2>3 DEF Local, memoria, TInv, TypeOK
    <2>. QED BY <1>1, <1>2, <1>3, <1>4, <2>2, <2>4, <2>5, <2>6, SameCache, LocalTypes
  <1>6. CASE ~Found(c, cpu[c], job[c].page)
    <2>1. Fails(c, CacheEnable(c) \/ job[c].done = 0)
      BY <1>6 DEF Translates
    <2>2. /\ at' \in [CPUs -> Steps] /\ job' \in [CPUs -> Job]
          /\ doing' \in [CPUs -> Instructions] /\ at'[c] \notin Active
          /\ \A d \in CPUs \ {c} : at'[d] = at[d] /\ doing'[d] = doing[d] /\ job'[d] = job[d]
      BY <2>1, FailsTypes
    <2>3. Local(c)
      BY <1>3, <2>2 DEF Local, memoria
    <2>4. at'[c] # "scan"
      BY <2>2 DEF Active
    <2>. QED BY <1>2, <1>3, <1>4, <2>2, <2>3, <2>4, SameCache, LocalTypes
  <1>. QED BY <1>5, <1>6

LEMMA GetsTypes ==
    ASSUME TInv, NEW c \in CPUs, Gets(c)
    PROVE  TInv'
  <1>1. /\ at[c] \in Active /\ cpu[c] \in Procs /\ job[c].page \in Page
        /\ doing[c] \in Requests[cpu[c]] /\ job[c] \in Job /\ job[c].done < doing[c].size
    BY ActiveFacts DEF Gets, Active, TInv, RunsOne
  <1>2. UNCHANGED <<memoria, cpu, tlb, cache>> /\ cpu[c] # NoPid
    BY <1>1, PidAssumption DEF Gets
  <1>3. /\ userMemory' \in [Frame -> Content] /\ UNCHANGED cache
        /\ tlb' \in [CPUs -> Seq(TLBEntry)]
    BY <1>2 DEF memoria, TInv, TypeOK
  <1>. DEFINE has == HasPage(cpu[c], job[c].frame)
              goes == has \/ (doing[c].kind = "read" /\ CacheEnable(c) /\ job[c].done = 0)
  <1>4. CASE goes
    <2>. DEFINE b == IF has THEN userMemory[job[c].frame] ELSE NoBytes
                j == [job[c] EXCEPT !.buffer = b]
    <2>1. b \in Content \union {NoBytes}
      BY <1>1 DEF TInv, TypeOK, Job
    <2>3. /\ job' = [job EXCEPT ![c] = j] /\ UNCHANGED doing
          /\ at' = [at EXCEPT ![c] = IF CacheEnable(c) THEN "scan" ELSE "copy"]
      BY <1>4 DEF Gets, Goes
    <2>. HIDE DEF b
    <2>2. j \in Job /\ j.page = job[c].page /\ j.done = job[c].done
      BY <1>1, <2>1 DEF Job
    <2>. HIDE DEF j
    <2>4. at' \in [CPUs -> Steps] /\ job' \in [CPUs -> Job] /\ doing' \in [CPUs -> Instructions]
      BY <2>2, <2>3 DEF TInv, TypeOK, Steps
    <2>5. (at'[c] = "scan" => CacheEnable(c)) /\ doing'[c] = doing[c] /\ job'[c] = j
      BY <2>3 DEF TInv, TypeOK
    <2>6. Local(c)
      BY <1>2, <2>3 DEF Local, memoria, TInv, TypeOK
    <2>. QED BY <1>1, <1>2, <1>3, <2>2, <2>4, <2>5, <2>6, SameCache, LocalTypes
  <1>5. CASE ~goes
    <2>1. Fails(c, CacheEnable(c))
      BY <1>5 DEF Gets
    <2>2. /\ at' \in [CPUs -> Steps] /\ job' \in [CPUs -> Job]
          /\ doing' \in [CPUs -> Instructions] /\ at'[c] \notin Active
          /\ \A d \in CPUs \ {c} : at'[d] = at[d] /\ doing'[d] = doing[d] /\ job'[d] = job[d]
      BY <2>1, FailsTypes
    <2>3. Local(c)
      BY <1>2, <2>2 DEF Local, memoria
    <2>4. at'[c] # "scan"
      BY <2>2 DEF Active
    <2>. QED BY <1>2, <1>3, <2>2, <2>3, <2>4, SameCache, LocalTypes
  <1>. QED BY <1>4, <1>5

LEMMA HandIsSlot ==
    ASSUME TInv, NEW c \in CPUs, CacheEnable(c)
    PROVE  Hand(c) \in Slot[c]
  <1>1. CacheEntries[c] \in Nat \ {0} /\ Slot[c] = 0 .. CacheEntries[c] - 1
    BY ConfigAssumption DEF CacheEnable, Slot
  <1>. DEFINE S == {i \in Slot[c] : cache[c][i].position}
  <1>2. S \subseteq Nat
    BY <1>1
  <1>3. S # {} => Least(S) \in S
    <2>. HIDE DEF S
    <2>. QED BY <1>2, LeastIsLeast
  <1>. QED BY <1>1, <1>3 DEF Hand

LEMMA ScansTypes ==
    ASSUME TInv, NEW c \in CPUs, Scans(c)
    PROVE  TInv'
  <1>. DEFINE i == Hand(c)
              e == cache[c][i]
              new == [pid |-> cpu[c], page |-> job[c].page, content |-> job[c].buffer,
                      use |-> TRUE, modified |-> FALSE, position |-> FALSE]
  <1>1. /\ at[c] = "scan" /\ at[c] \in Active /\ cpu[c] \in Procs /\ job[c].page \in Page
        /\ doing[c] \in Requests[cpu[c]] /\ job[c] \in Job /\ job[c].done < doing[c].size
        /\ CacheEnable(c)
    BY ActiveFacts DEF Scans, Active, TInv, RunsOne
  <1>2. i \in Slot[c]
    BY <1>1, HandIsSlot
  <1>3. /\ e \in CacheEntry /\ e.pid \in Procs \union {NoPid}
        /\ e.content \in Content \union {NoBytes}
        /\ e.pid # NoPid => e.page \in Page
    BY <1>2, EntryTypes
  <1>4. new \in CacheEntry /\ new.page \in Page
    BY <1>1 DEF CacheEntry, Job
  <1>5. /\ job[c].done \in Nat /\ job[c].examined \in Nat /\ cpu[c] # NoPid
        /\ cache[c] \in [Slot[c] -> CacheEntry]
        /\ \A j \in Slot[c] : cache[c][j].pid # NoPid => cache[c][j].page \in Page
        /\ UNCHANGED <<pageBases, swap, stage, cpu, doing>>
        /\ doing \in [CPUs -> Instructions] /\ job \in [CPUs -> Job] /\ at \in [CPUs -> Steps]
        /\ tlb \in [CPUs -> Seq(TLBEntry)] /\ userMemory \in [Frame -> Content]
    BY <1>1, PidAssumption DEF Scans, TInv, TypeOK, Job, CachedPages
  <1>6. ASSUME NEW x \in CacheEntry, x.pid # NoPid => x.page \in Page,
               cache' = [cache EXCEPT ![c] = HandMoved(@, i, x)]
        PROVE  /\ DOMAIN cache' = CPUs /\ \A d \in CPUs : cache'[d] \in [Slot[d] -> CacheEntry]
               /\ CachedPages'
    <2>. DEFINE m == HandMoved(cache[c], i, x)
    <2>0. m = HandMoved(cache[c], i, x)
      OBVIOUS
    <2>. HIDE DEF i, e, new, m
    <2>1. /\ m \in [Slot[c] -> CacheEntry] /\ m[i].pid = x.pid /\ m[i].page = x.page
          /\ \A j \in Slot[c] \ {i} : m[j].pid = cache[c][j].pid /\ m[j].page = cache[c][j].page
      BY <1>2, HandMovedEntries DEF m
    <2>2. cache' = [cache EXCEPT ![c] = m]
      BY <1>6, <2>0
    <2>3. \A j \in Slot[c] : m[j].pid # NoPid => m[j].page \in Page
      BY <1>5, <1>6, <2>1
    <2>. QED BY <2>1, <2>2, <2>3, CacheTypes
  <1>7. CASE Chosen(c, e)
    <2>. DEFINE j == PageJob(job[c].done, job[c].page)
    <2>1. j \in Job /\ j.done = job[c].done /\ j.page = job[c].page
      BY <1>1, <1>5, JobTypes
    <2>2. cache' = [cache EXCEPT ![c] = HandMoved(@, i, new)] /\ job' = [job EXCEPT ![c] = j]
      BY <1>7 DEF Scans
    <2>3. /\ DOMAIN cache' = CPUs /\ \A d \in CPUs : cache'[d] \in [Slot[d] -> CacheEntry]
          /\ CachedPages'
      BY <1>4, <1>6, <2>2
    <2>4. /\ userMemory' \in [Frame -> Content] /\ tlb' \in [CPUs -> Seq(TLBEntry)]
          /\ \E step \in {"copy", "down"} : at' = [at EXCEPT ![c] = step]
      <3>. HIDE DEF i, new
      <3>0. IF e.pid = NoPid THEN Goes(c, "copy") /\ UNCHANGED <<userMemory, tlb>>
            ELSE IF Found(c, e.pid, e.page)
            THEN Goes(c, "copy") /\ SavePageInMemory(c, e.pid, e.page, e.content)
            ELSE Goes(c, "down") /\ UNCHANGED <<userMemory, tlb>>
        BY <1>7, Zenon DEF Scans, i
      <3>. HIDE DEF e
      <3>1. CASE e.pid = NoPid \/ ~Found(c, e.pid, e.page)
        BY <1>5, <3>0, <3>1 DEF Goes
      <3>2. CASE e.pid # NoPid /\ Found(c, e.pid, e.page)
        <4>1. SavePageInMemory(c, e.pid, e.page, e.content) /\ Goes(c, "copy")
          BY <3>0, <3>2
        <4>2. e.pid \in Procs /\ e.page \in Page
          BY <1>3, <3>2
        <4>3. userMemory' \in [Frame -> Content] /\ tlb' \in [CPUs -> Seq(TLBEntry)]
          BY <1>3, <3>2, <4>1, <4>2, SaveTypes DEF TInv
        <4>. QED BY <4>1, <4>3 DEF Goes
      <3>. QED BY <3>1, <3>2
    <2>. HIDE DEF i, e, new, j
    <2>5. /\ at' \in [CPUs -> Steps] /\ job' \in [CPUs -> Job] /\ doing' \in [CPUs -> Instructions]
          /\ at'[c] # "scan" /\ doing'[c] = doing[c] /\ job'[c] = j
      BY <1>5, <2>1, <2>2, <2>4 DEF Steps
    <2>6. Local(c)
      BY <1>5, <2>2, <2>4 DEF Local
    <2>. QED BY <1>1, <1>5, <2>1, <2>3, <2>4, <2>5, <2>6, LocalTypes
  <1>8. CASE ~Chosen(c, e)
    <2>. DEFINE j == [job[c] EXCEPT !.examined = @ + 1]
    <2>1. j \in Job /\ j.done = job[c].done /\ j.page = job[c].page
      <3>. HIDE DEF i, e, new
      <3>1. job[c].examined + 1 \in Nat
        BY <1>5
      <3>. QED BY <1>1, <1>5, <3>1 DEF Job
    <2>2. /\ cache' = [cache EXCEPT ![c] = HandMoved(@, i, Passed(c, e))]
          /\ job' = [job EXCEPT ![c] = j] /\ UNCHANGED <<at, userMemory, tlb>>
      BY <1>8 DEF Scans
    <2>. HIDE DEF j
    <2>3. Passed(c, e) \in CacheEntry /\ Passed(c, e).pid = e.pid /\ Passed(c, e).page = e.page
      <3>. HIDE DEF e
      <3>. QED BY <1>3, UseTypes DEF Passed
    <2>4. /\ DOMAIN cache' = CPUs /\ \A d \in CPUs : cache'[d] \in [Slot[d] -> CacheEntry]
          /\ CachedPages'
      <3>. HIDE DEF i, e
      <3>1. Passed(c, e).pid # NoPid => Passed(c, e).page \in Page
        BY <1>3, <2>3
      <3>. QED BY <1>6, <2>2, <2>3, <3>1
    <2>. HIDE DEF i, e, new
    <2>5. /\ at' \in [CPUs -> Steps] /\ job' \in [CPUs -> Job] /\ doing' \in [CPUs -> Instructions]
          /\ doing'[c] = doing[c] /\ job'[c] = j
      BY <1>5, <2>1, <2>2
    <2>6. Local(c) /\ userMemory' \in [Frame -> Content] /\ tlb' \in [CPUs -> Seq(TLBEntry)]
      BY <1>5, <2>2 DEF Local
    <2>. QED BY <1>1, <1>5, <2>1, <2>4, <2>5, <2>6, LocalTypes
  <1>. QED BY <1>7, <1>8

\* A step that copies part of a page and changes at most one entry of the cache.
LEMMA CopyTypes ==
    ASSUME TInv, NEW c \in CPUs, at[c] \in Active, Local(c),
           Advances(c) \/ Ends(c, "down"),
           userMemory' \in [Frame -> Content], tlb' \in [CPUs -> Seq(TLBEntry)],
           DOMAIN cache' = CPUs, \A d \in CPUs : cache'[d] \in [Slot[d] -> CacheEntry],
           CachedPages'
    PROVE  TInv'
  <1>1. cpu[c] # NoPid
    BY ActiveFacts, PidAssumption
  <1>2. CASE Advances(c)
    <2>1. at'[c] # "scan"
      BY <1>2, AdvancesTypes
    <2>. QED BY <1>1, <1>2, <2>1, AdvancesTypes, LocalTypes
  <1>3. CASE Ends(c, "down")
    <2>1. "down" \in Steps \ Active
      BY DEF Steps, Active
    <2>2. /\ at' \in [CPUs -> Steps] /\ job' \in [CPUs -> Job]
          /\ doing' \in [CPUs -> Instructions] /\ at'[c] = "down"
      BY <1>3, <2>1, EndsTypes
    <2>3. at'[c] # "scan" /\ at'[c] \notin Active
      BY <2>2 DEF Active
    <2>. QED BY <1>1, <2>2, <2>3, LocalTypes
  <1>. QED BY <1>2, <1>3

LEMMA OthersStay ==
    ASSUME TInv, NEW c \in CPUs, at[c] \in Active, Advances(c) \/ Ends(c, "down"),
           UNCHANGED <<pageBases, swap, stage, cpu>>
    PROVE  Local(c)
  <1>1. "down" \in Steps \ Active
    BY DEF Steps, Active
  <1>. QED BY <1>1, AdvancesTypes, EndsTypes DEF Local

LEMMA EntryChanged ==
    ASSUME TInv, NEW c \in CPUs, NEW i, NEW e,
           i \in Slot[c] => e \in CacheEntry /\ (e.pid # NoPid => e.page \in Page),
           cache' = [cache EXCEPT ![c][i] = e]
    PROVE  /\ DOMAIN cache' = CPUs /\ \A d \in CPUs : cache'[d] \in [Slot[d] -> CacheEntry]
           /\ CachedPages'
  <1>. DEFINE new == [cache[c] EXCEPT ![i] = e]
  <1>1. cache[c] \in [Slot[c] -> CacheEntry]
        /\ \A j \in Slot[c] : cache[c][j].pid # NoPid => cache[c][j].page \in Page
    BY DEF TInv, TypeOK, CachedPages
  <1>2. /\ new \in [Slot[c] -> CacheEntry]
        /\ \A j \in Slot[c] : new[j].pid # NoPid => new[j].page \in Page
    BY <1>1
  <1>3. cache' = [cache EXCEPT ![c] = new]
    OBVIOUS
  <1>. HIDE DEF new
  <1>. QED BY <1>2, <1>3, CacheTypes

LEMMA WritesCacheTypes ==
    ASSUME TInv, NEW c \in CPUs, WritesCache(c)
    PROVE  TInv'
  <1>. DEFINE i == Least(Slots(c, job[c].page))
              e == cache[c][i]
              w == WrittenEntry(e, Written(c, e.content), TRUE)
  <1>1. /\ at[c] \in Active /\ doing[c].kind = "write" /\ Advances(c)
        /\ UNCHANGED <<memoria, cpu>>
        /\ cache' = [cache EXCEPT ![c][i] = w]
    BY DEF WritesCache, Active
  <1>2. cpu[c] \in Procs /\ job[c].page \in Page
    BY <1>1, ActiveFacts
  <1>3. tlb' \in [CPUs -> Seq(TLBEntry)]
    <2>1. CASE job[c].done = 0
      <3>1. tlb \in [CPUs -> Seq(TLBEntry)] /\ TypeOK
        BY DEF TInv, TypeOK
      <3>2. findFrame(c, cpu[c], job[c].page) \in Seq(TLBEntry)
        BY <3>1, HitsAreEntries, MovedEntries DEF findFrame, Touched
      <3>. QED BY <2>1, <3>1, <3>2 DEF WritesCache
    <2>2. CASE job[c].done # 0
      <3>1. Traducir(c, cpu[c], job[c].page)
        BY <2>2 DEF WritesCache
      <3>. QED BY <1>2, <3>1, TranslationTypes DEF TInv
    <2>. QED BY <2>1, <2>2
  <1>4. /\ DOMAIN cache' = CPUs /\ \A d \in CPUs : cache'[d] \in [Slot[d] -> CacheEntry]
        /\ CachedPages'
    <2>1. ASSUME i \in Slot[c]
          PROVE  w \in CacheEntry /\ (w.pid # NoPid => w.page \in Page)
      <3>1. /\ e \in CacheEntry /\ e.content \in Content \union {NoBytes}
            /\ e.pid # NoPid => e.page \in Page
        BY <2>1, EntryTypes
      <3>2. Written(c, e.content) \in Content \union {NoBytes}
        BY <1>1, <3>1, WrittenIsContent
      <3>. HIDE DEF e
      <3>. QED BY <3>1, <3>2 DEF WrittenEntry, CacheEntry
    <2>. HIDE DEF i, w
    <2>. QED BY <1>1, <2>1, EntryChanged
  <1>5. userMemory' \in [Frame -> Content]
    BY <1>1 DEF memoria, TInv, TypeOK
  <1>6. UNCHANGED <<pageBases, swap, stage, cpu>>
    BY <1>1 DEF memoria
  <1>. QED BY <1>1, <1>3, <1>4, <1>5, <1>6, OthersStay, CopyTypes

LEMMA WritesThroughTypes ==
    ASSUME TInv, NEW c \in CPUs, WritesThrough(c)
    PROVE  TInv'
  <1>1. /\ at[c] \in Active /\ doing[c].kind = "write" /\ Advances(c)
        /\ UNCHANGED <<pageBases, swap, stage, cpu>> /\ UNCHANGED cache
        /\ SavePageInMemory(c, cpu[c], job[c].page, Written(c, job[c].buffer))
    BY DEF WritesThrough, Active
  <1>2. cpu[c] \in Procs /\ job[c].page \in Page /\ job[c].buffer \in Content \union {NoBytes}
    BY <1>1, ActiveFacts DEF Job
  <1>3. Written(c, job[c].buffer) \in Content \union {NoBytes}
    BY <1>1, <1>2, WrittenIsContent
  <1>4. userMemory' \in [Frame -> Content] /\ tlb' \in [CPUs -> Seq(TLBEntry)]
    BY <1>1, <1>2, <1>3, SaveTypes DEF TInv
  <1>. QED BY <1>1, <1>4, SameCache, OthersStay, CopyTypes

LEMMA ReadsThroughTypes ==
    ASSUME TInv, NEW c \in CPUs, ReadsThrough(c)
    PROVE  TInv'
  <1>1. /\ at[c] \in Active
        /\ Advances(c) \/ Ends(c, "down")
        /\ UNCHANGED <<memoria, cpu>> /\ UNCHANGED cache /\ UNCHANGED tlb
    BY DEF ReadsThrough, Active
  <1>2. /\ userMemory' \in [Frame -> Content] /\ tlb' \in [CPUs -> Seq(TLBEntry)]
        /\ UNCHANGED <<pageBases, swap, stage, cpu>>
    BY <1>1 DEF memoria, TInv, TypeOK
  <1>. QED BY <1>1, <1>2, SameCache, OthersStay, CopyTypes

LEMMA ReadsCacheTypes ==
    ASSUME TInv, NEW c \in CPUs, ReadsCache(c)
    PROVE  TInv'
  <1>. DEFINE i == Least(Slots(c, job[c].page))
              e == [cache[c][i] EXCEPT !.use = TRUE]
  <1>1. /\ at[c] \in Active
        /\ Advances(c) \/ Ends(c, "down")
        /\ UNCHANGED <<memoria, cpu>> /\ UNCHANGED tlb
        /\ UNCHANGED cache \/ cache' = [cache EXCEPT ![c][i].use = TRUE]
    BY DEF ReadsCache, Active
  <1>2. /\ userMemory' \in [Frame -> Content] /\ tlb' \in [CPUs -> Seq(TLBEntry)]
        /\ UNCHANGED <<pageBases, swap, stage, cpu>>
    BY <1>1 DEF memoria, TInv, TypeOK
  <1>3. CASE UNCHANGED cache
    BY <1>1, <1>2, <1>3, SameCache, OthersStay, CopyTypes
  <1>4. CASE cache' = [cache EXCEPT ![c][i].use = TRUE]
    <2>1. cache' = [cache EXCEPT ![c][i] = e]
      <3>. HIDE DEF i
      <3>. QED BY <1>4
    <2>2. ASSUME i \in Slot[c]
          PROVE  e \in CacheEntry /\ (e.pid # NoPid => e.page \in Page)
      <3>1. /\ cache[c][i] \in CacheEntry
            /\ cache[c][i].pid # NoPid => cache[c][i].page \in Page
        BY <2>2, EntryTypes
      <3>. HIDE DEF i
      <3>. QED BY <3>1, UseTypes
    <2>. HIDE DEF i, e
    <2>3. /\ DOMAIN cache' = CPUs /\ \A d \in CPUs : cache'[d] \in [Slot[d] -> CacheEntry]
          /\ CachedPages'
      BY <2>1, <2>2, EntryChanged
    <2>. QED BY <1>1, <1>2, <2>3, OthersStay, CopyTypes
  <1>. QED BY <1>1, <1>3, <1>4

LEMMA FlushesTypes ==
    ASSUME TInv, NEW c \in CPUs, Flushes(c)
    PROVE  TInv'
  <1>. DEFINE i == Least(Entries(c, cpu[c]))
              e == cache[c][i]
  <1>1. /\ cpu[c] # NoPid /\ cache' = [cache EXCEPT ![c][i] = EmptyEntry]
        /\ UNCHANGED <<pageBases, swap, stage, cpu, doing, job>>
    BY DEF Flushes
  <1>2. i \in Entries(c, cpu[c])
    <2>1. Entries(c, cpu[c]) \subseteq Nat /\ Entries(c, cpu[c]) # {}
      BY ConfigAssumption DEF Entries, Slot, Flushes
    <2>. QED BY <2>1, LeastIsLeast
  <1>3. /\ e \in CacheEntry /\ e.pid \in Procs \union {NoPid}
        /\ e.content \in Content \union {NoBytes} /\ e.pid = cpu[c]
        /\ e.pid # NoPid => e.page \in Page
    BY <1>2, EntryTypes DEF Entries
  <1>4. /\ DOMAIN cache' = CPUs /\ \A d \in CPUs : cache'[d] \in [Slot[d] -> CacheEntry]
        /\ CachedPages'
    <2>1. EmptyEntry \in CacheEntry /\ EmptyEntry.pid = NoPid
      BY DEF EmptyEntry, CacheEntry
    <2>. HIDE DEF i, e
    <2>. QED BY <1>1, <2>1, EntryChanged
  <1>5. /\ userMemory' \in [Frame -> Content] /\ tlb' \in [CPUs -> Seq(TLBEntry)]
        /\ \E step \in {"flush", "down"} : at' = [at EXCEPT ![c] = step]
    <2>. HIDE DEF i
    <2>1. IF ~e.modified THEN Goes(c, "flush") /\ UNCHANGED <<userMemory, tlb>>
          ELSE IF Found(c, e.pid, e.page)
          THEN Goes(c, "flush") /\ SavePageInMemory(c, e.pid, e.page, e.content)
          ELSE Goes(c, "down") /\ UNCHANGED <<userMemory, tlb>>
      BY Zenon DEF Flushes, i
    <2>2. userMemory \in [Frame -> Content] /\ tlb \in [CPUs -> Seq(TLBEntry)]
      BY DEF TInv, TypeOK
    <2>. HIDE DEF e
    <2>3. CASE UNCHANGED <<userMemory, tlb>>
      BY <2>1, <2>2, <2>3 DEF Goes
    <2>4. CASE Goes(c, "flush") /\ SavePageInMemory(c, e.pid, e.page, e.content)
      <3>1. e.pid \in Procs /\ e.page \in Page
        BY <1>1, <1>3
      <3>2. userMemory' \in [Frame -> Content] /\ tlb' \in [CPUs -> Seq(TLBEntry)]
        BY <1>3, <2>4, <3>1, SaveTypes DEF TInv
      <3>. QED BY <2>4, <3>2 DEF Goes
    <2>. QED BY <2>1, <2>3, <2>4
  <1>. HIDE DEF i, e
  <1>6. /\ at' \in [CPUs -> Steps] /\ at'[c] \notin Active /\ at'[c] # "scan"
        /\ \A d \in CPUs \ {c} : at'[d] = at[d]
        /\ doing' \in [CPUs -> Instructions] /\ job' \in [CPUs -> Job]
    BY <1>1, <1>5 DEF Steps, Active, TInv, TypeOK
  <1>7. Local(c)
    BY <1>1, <1>6 DEF Local
  <1>. QED BY <1>1, <1>4, <1>5, <1>6, <1>7, LocalTypes

LEMMA LeavesTypes ==
    ASSUME TInv, NEW c \in CPUs, NEW where \in Stages, LeavesFor(c, where), cpu[c] # NoPid,
           pageBases' = pageBases \/ pageBases' = [pageBases EXCEPT ![cpu[c]] = NoBytes]
    PROVE  TInv'
  <1>1. /\ stage' = [stage EXCEPT ![cpu[c]] = where] /\ cpu' = [cpu EXCEPT ![c] = NoPid]
        /\ at' = [at EXCEPT ![c] = "instruction"]
        /\ UNCHANGED <<userMemory, swap, doing, job, tlb>> /\ UNCHANGED cache
    BY DEF LeavesFor, Goes
  <1>2. cpu[c] \in Procs
    BY DEF TInv, TypeOK
  <1>3. TypeOK'
    <2>1. /\ stage' \in [Procs -> Stages] /\ cpu' \in [CPUs -> Procs \union {NoPid}]
          /\ at' \in [CPUs -> Steps]
      BY <1>1, <1>2 DEF TInv, TypeOK, Steps
    <2>2. /\ DOMAIN pageBases' = Procs
          /\ \A p \in Procs : pageBases'[p] \in {NoBytes} \union [0 .. PageCount[p] - 1 -> Frame]
      BY <1>2 DEF TInv, TypeOK
    <2>. QED BY <1>1, <2>1, <2>2 DEF TInv, TypeOK
  <1>4. RunsOne'
    BY <1>1, <1>2 DEF TInv, TypeOK, RunsOne, Active
  <1>. QED BY <1>1, <1>3, <1>4, SameCache DEF TInv

LEMMA DispatchesTypes ==
    ASSUME TInv, NEW c \in CPUs, NEW p \in Procs, Dispatches(c, p)
    PROVE  TInv'
  <1>1. /\ stage' = [stage EXCEPT ![p] = "EXEC"] /\ cpu' = [cpu EXCEPT ![c] = p]
        /\ stage[p] = "READY" /\ cpu[c] = NoPid
        /\ UNCHANGED <<userMemory, pageBases, swap, at, doing, job, tlb>> /\ UNCHANGED cache
    BY DEF Dispatches
  <1>2. TypeOK'
    BY <1>1 DEF TInv, TypeOK, Stages
  <1>3. at[c] = "instruction" /\ \A d \in CPUs : cpu[d] # p
    BY <1>1, PidAssumption DEF TInv, RunsOne
  <1>4. RunsOne'
    BY <1>1, <1>3 DEF TInv, TypeOK, RunsOne, Active
  <1>. QED BY <1>1, <1>2, <1>4, SameCache DEF TInv

\* A step that moves a process that no CPU runs.
LEMMA IdleKeepsRunsOne ==
    ASSUME TInv, NEW p \in Procs, NEW where, stage[p] # "EXEC",
           stage' = [stage EXCEPT ![p] = where],
           UNCHANGED <<cpu, at, doing, job>>
    PROVE  RunsOne'
  BY DEF TInv, TypeOK, RunsOne, Active

LEMMA IdleTypes ==
    ASSUME TInv, NEW p \in Procs, Admits(p) \/ Unblocks(p) \/ Suspends(p) \/ Returns(p)
    PROVE  TInv'
  <1>1. PICK where \in Stages : /\ stage' = [stage EXCEPT ![p] = where] /\ stage[p] # "EXEC"
                                /\ UNCHANGED <<cpu, at, doing, job, tlb>> /\ UNCHANGED cache
    BY DEF Admits, Unblocks, Suspends, Returns, Stages
  <1>. DEFINE Bases(q) == {NoBytes} \union [0 .. PageCount[q] - 1 -> Frame]
              Pages(q) == {NoBytes} \union [0 .. PageCount[q] - 1 -> Content]
  <1>2. /\ DOMAIN pageBases = Procs /\ DOMAIN swap = Procs /\ userMemory \in [Frame -> Content]
        /\ \A q \in Procs : pageBases[q] \in Bases(q) /\ swap[q] \in Pages(q)
    BY DEF TInv, TypeOK
  <1>3. /\ DOMAIN pageBases' = Procs /\ DOMAIN swap' = Procs /\ userMemory' \in [Frame -> Content]
        /\ \A q \in Procs : pageBases'[q] \in Bases(q) /\ swap'[q] \in Pages(q)
    <2>1. CASE Admits(p)
      <3>1. PICK bases \in [0 .. PageCount[p] - 1 -> Frame] :
               pageBases' = [pageBases EXCEPT ![p] = bases]
        BY <2>1 DEF Admits
      <3>. QED BY <1>2, <2>1, <3>1 DEF Admits
    <2>2. CASE Unblocks(p)
      BY <1>2, <2>2 DEF Unblocks
    <2>3. CASE Suspends(p)
      <3>. DEFINE saved == [i \in DOMAIN pageBases[p] |-> userMemory[pageBases[p][i]]]
      <3>1. swap' = [swap EXCEPT ![p] = saved] /\ UNCHANGED <<userMemory, pageBases>>
        BY <2>3 DEF Suspends
      <3>2. saved \in Pages(p)
        <4>1. CASE pageBases[p] = NoBytes
          BY <4>1 DEF NoBytes
        <4>2. CASE pageBases[p] \in [0 .. PageCount[p] - 1 -> Frame]
          BY <1>2, <4>2
        <4>. QED BY <1>2, <4>1, <4>2
      <3>. HIDE DEF saved
      <3>. QED BY <1>2, <3>1, <3>2
    <2>4. CASE Returns(p)
      <3>1. PICK bases \in [DOMAIN swap[p] -> Frame] :
              /\ pageBases' = [pageBases EXCEPT ![p] = bases]
              /\ userMemory' = [f \in Frame |->
                    IF \E i \in DOMAIN bases : bases[i] = f
                    THEN swap[p][CHOOSE i \in DOMAIN bases : bases[i] = f] ELSE userMemory[f]]
        BY <2>4 DEF Returns
      <3>2. swap' = [swap EXCEPT ![p] = NoBytes]
        BY <2>4 DEF Returns
      <3>3. bases \in Bases(p)
        <4>1. CASE swap[p] = NoBytes
          BY <4>1 DEF NoBytes
        <4>2. CASE swap[p] \in [0 .. PageCount[p] - 1 -> Content]
          BY <4>2
        <4>. QED BY <1>2, <4>1, <4>2
      <3>4. ASSUME NEW i \in DOMAIN bases
            PROVE  swap[p][i] \in Content
        <4>1. i \in DOMAIN swap[p]
          OBVIOUS
        <4>2. swap[p] \in [0 .. PageCount[p] - 1 -> Content]
          BY <1>2, <4>1 DEF NoBytes
        <4>. QED BY <4>1, <4>2
      <3>5. userMemory' \in [Frame -> Content]
        BY <1>2, <3>1, <3>4
      <3>. HIDE DEF Bases
      <3>6. NoBytes \in Pages(p)
        OBVIOUS
      <3>. HIDE DEF Pages
      <3>. QED BY <1>2, <3>1, <3>2, <3>3, <3>5, <3>6
    <2>. QED BY <2>1, <2>2, <2>3, <2>4
  <1>4. TypeOK'
    BY <1>1, <1>3 DEF TInv, TypeOK
  <1>5. RunsOne'
    BY <1>1, IdleKeepsRunsOne
  <1>. QED BY <1>1, <1>4, <1>5, SameCache DEF TInv

LEMMA InitTypes == Init => TInv
  <1>. SUFFICES ASSUME Init PROVE TInv
    OBVIOUS
  <1>1. NoJob \in Job
    BY JobTypes DEF NoJob
  <1>2. userMemory \in [Frame -> Content]
    BY ByteAssumption DEF Init, Content
  <1>3. DOMAIN cache = CPUs /\ \A c \in CPUs : cache[c] \in [Slot[c] -> CacheEntry]
    BY DEF Init, EmptyEntry, CacheEntry
  <1>4. TypeOK
    <2>1. /\ DOMAIN pageBases = Procs /\ DOMAIN swap = Procs
          /\ \A p \in Procs : pageBases[p] = NoBytes /\ swap[p] = NoBytes
      BY DEF Init
    <2>2. stage \in [Procs -> Stages] /\ at \in [CPUs -> Steps]
      BY DEF Init, Stages, Steps
    <2>3. doing \in [CPUs -> Instructions] /\ cpu \in [CPUs -> Procs \union {NoPid}]
      BY InstructionsOf DEF Init
    <2>4. tlb \in [CPUs -> Seq(TLBEntry)]
      BY DEF Init
    <2>5. job \in [CPUs -> Job]
      BY <1>1 DEF Init
    <2>. QED BY <1>2, <1>3, <2>1, <2>2, <2>3, <2>4, <2>5 DEF TypeOK
  <1>5. RunsOne
    BY DEF Init, RunsOne, Active
  <1>6. CachedPages
    BY DEF Init, CachedPages, EmptyEntry
  <1>. QED BY <1>4, <1>5, <1>6 DEF TInv

LEMMA StepTypes == TInv /\ [Next]_vars => TInv'
  <1>. SUFFICES ASSUME TInv, [Next]_vars PROVE TInv'
    OBVIOUS
  <1>1. CASE UNCHANGED vars
    BY <1>1 DEF vars, memoria, TInv, TypeOK, RunsOne, CachedPages, Active
  <1>2. ASSUME NEW c \in CPUs, NEW p \in Procs, NEW r \in Requests[p], Begins(c, p, r)
        PROVE  TInv'
    BY <1>2, BeginsTypes
  <1>3. ASSUME NEW c \in CPUs, Translates(c) \/ Gets(c) \/ Scans(c)
        PROVE  TInv'
    BY <1>3, TranslatesTypes, GetsTypes, ScansTypes
  <1>4. ASSUME NEW c \in CPUs,
               WritesCache(c) \/ WritesThrough(c) \/ ReadsCache(c) \/ ReadsThrough(c)
        PROVE  TInv'
    BY <1>4, WritesCacheTypes, WritesThroughTypes, ReadsCacheTypes, ReadsThroughTypes
  <1>5. ASSUME NEW c \in CPUs, Flushes(c)
        PROVE  TInv'
    BY <1>5, FlushesTypes
  <1>6. ASSUME NEW c \in CPUs, Syscalls(c) \/ Exits(c) \/ Interrupted(c)
        PROVE  TInv'
    <2>1. PICK where \in Stages : LeavesFor(c, where)
      BY <1>6 DEF Syscalls, Exits, Interrupted, Stages
    <2>2. cpu[c] # NoPid
      BY <1>6 DEF Syscalls, Exits, Interrupted, Flushed, TInv, RunsOne
    <2>3. pageBases' = pageBases \/ pageBases' = [pageBases EXCEPT ![cpu[c]] = NoBytes]
      BY <1>6 DEF Syscalls, Exits, Interrupted
    <2>. QED BY <2>1, <2>2, <2>3, LeavesTypes
  <1>7. ASSUME NEW c \in CPUs, NEW p \in Procs, Dispatches(c, p)
        PROVE  TInv'
    BY <1>7, DispatchesTypes
  <1>8. ASSUME NEW p \in Procs, Admits(p) \/ Unblocks(p) \/ Suspends(p) \/ Returns(p)
        PROVE  TInv'
    BY <1>8, IdleTypes
  <1>. QED BY <1>1, <1>2, <1>3, <1>4, <1>5, <1>6, <1>7, <1>8 DEF Next

\* The step and the local variables of every CPU, the entries of every TLB and cache and
\* what memoria keeps are of their types, whatever the configuration: an instruction
\* is only under way on behalf of the process that the Pcb names, with a page of its own
\* and bytes still to copy (RunsOne), so WriteCache and ReadCache never slice past a
\* page (asign, WriteMemory, ReadMemory, AddEntryCache).
THEOREM TypesHold == Spec => []TypeOK
  <1>1. TInv => TypeOK
    BY DEF TInv
  <1>. QED BY <1>1, InitTypes, StepTypes, PTL DEF Spec

-----------------------------------------------------------------------------
(* A page is in a cache once *)

\* From the search that misses until the page is put there, nothing else puts it there.
NotYetCached == \A c \in CPUs : at[c] \in {"get", "scan"} /\ CacheEnable(c) =>
    \A i \in Slot[c] : cache[c][i].page # job[c].page

OInv == CachedOnce /\ NotYetCached

\* Entries that are only emptied, rewritten or marked keep their pages apart.
LEMMA PagesStayApart ==
    ASSUME CachedOnce,
           \A d \in CPUs : \A j \in Slot[d] :
              /\ cache'[d][j].pid # NoPid => /\ cache[d][j].pid # NoPid
                                             /\ cache'[d][j].page = cache[d][j].page
              /\ cache'[d][j].position => cache[d][j].position
    PROVE  CachedOnce'
  BY DEF CachedOnce

LEMMA SameCacheOnce ==
    ASSUME TInv, OInv, NEW c \in CPUs, UNCHANGED cache,
           \A d \in CPUs \ {c} : at'[d] = at[d] /\ job'[d] = job[d],
           at'[c] \in {"get", "scan"} /\ CacheEnable(c) =>
              \A i \in Slot[c] : cache[c][i].page # job'[c].page
    PROVE  OInv'
  <1>1. CachedOnce'
    BY PagesStayApart DEF OInv
  <1>2. NotYetCached'
    BY DEF OInv, NotYetCached, CacheEnable
  <1>. QED BY <1>1, <1>2 DEF OInv

LEMMA TranslatesOnce ==
    ASSUME TInv, OInv, NEW c \in CPUs, Translates(c)
    PROVE  OInv'
  <1>1. at[c] \in Active /\ UNCHANGED cache
    BY DEF Translates, Active
  <1>2. CASE Found(c, cpu[c], job[c].page)
    <2>1. /\ job' = [job EXCEPT ![c].frame = Translated(c, cpu[c], job[c].page)]
          /\ at' = [at EXCEPT ![c] = IF CacheEnable(c) /\ IsInCache(c, job[c].page)
                                     THEN "copy" ELSE "get"]
      BY <1>2 DEF Translates, Goes
    <2>2. job[c] \in Job /\ at \in [CPUs -> Steps] /\ job \in [CPUs -> Job]
      BY DEF TInv, TypeOK
    <2>3. job'[c].page = job[c].page
      BY <2>1, <2>2 DEF Job
    <2>4. \A d \in CPUs \ {c} : at'[d] = at[d] /\ job'[d] = job[d]
      BY <2>1, <2>2
    <2>5. at'[c] = "get" /\ CacheEnable(c) => ~IsInCache(c, job[c].page)
      BY <2>1, <2>2
    <2>6. at'[c] # "scan"
      BY <2>1, <2>2
    <2>7. at'[c] \in {"get", "scan"} /\ CacheEnable(c) =>
             \A i \in Slot[c] : cache[c][i].page # job'[c].page
      BY <2>3, <2>5, <2>6 DEF IsInCache, Slots
    <2>. QED BY <1>1, <2>4, <2>7, SameCacheOnce
  <1>3. CASE ~Found(c, cpu[c], job[c].page)
    <2>1. Fails(c, CacheEnable(c) \/ job[c].done = 0)
      BY <1>3 DEF Translates
    <2>2. at'[c] \notin Active /\ \A d \in CPUs \ {c} : at'[d] = at[d] /\ job'[d] = job[d]
      BY <2>1, FailsTypes
    <2>. QED BY <1>1, <2>2, SameCacheOnce DEF Active
  <1>. QED BY <1>2, <1>3

LEMMA GetsOnce ==
    ASSUME TInv, OInv, NEW c \in CPUs, Gets(c)
    PROVE  OInv'
  <1>1. at[c] = "get" /\ UNCHANGED cache
    BY DEF Gets
  <1>2. ASSUME NEW mayExit, Fails(c, mayExit)
        PROVE  OInv'
    <2>1. at'[c] \notin Active /\ \A d \in CPUs \ {c} : at'[d] = at[d] /\ job'[d] = job[d]
      BY <1>2, FailsTypes
    <2>. QED BY <1>1, <2>1, SameCacheOnce DEF Active
  <1>3. ASSUME NEW b, job' = [job EXCEPT ![c].buffer = b],
               at' = [at EXCEPT ![c] = IF CacheEnable(c) THEN "scan" ELSE "copy"]
        PROVE  OInv'
    <2>1. job[c] \in Job /\ at \in [CPUs -> Steps] /\ job \in [CPUs -> Job]
      BY DEF TInv, TypeOK
    <2>2. job'[c].page = job[c].page
      BY <1>3, <2>1 DEF Job
    <2>3. \A d \in CPUs \ {c} : at'[d] = at[d] /\ job'[d] = job[d]
      BY <1>3, <2>1
    <2>4. CacheEnable(c) => \A i \in Slot[c] : cache[c][i].page # job'[c].page
      BY <1>1, <2>2 DEF OInv, NotYetCached
    <2>. QED BY <1>1, <2>3, <2>4, SameCacheOnce
  <1>. QED BY <1>2, <1>3, Zenon DEF Gets, Goes

LEMMA ScansOnce ==
    ASSUME TInv, OInv, NEW c \in CPUs, Scans(c)
    PROVE  OInv'
  <1>. DEFINE i == Hand(c)
              e == cache[c][i]
              new == [pid |-> cpu[c], page |-> job[c].page, content |-> job[c].buffer,
                      use |-> TRUE, modified |-> FALSE, position |-> FALSE]
  <1>1. /\ at[c] = "scan" /\ at[c] \in Active /\ CacheEnable(c)
        /\ cpu[c] \in Procs /\ job[c] \in Job /\ job[c].page \in Page
    BY ActiveFacts DEF Scans, Active, TInv, RunsOne
  <1>2. i \in Slot[c]
    BY <1>1, HandIsSlot
  <1>3. e \in CacheEntry
    BY <1>2, EntryTypes
  <1>4. \A j \in Slot[c] : cache[c][j].page # job[c].page
    BY <1>1 DEF OInv, NotYetCached
  <1>5. \A j \in Slot[c] : cache[c][j].position => j = i
    <2>1. ASSUME NEW j \in Slot[c], cache[c][j].position
          PROVE  j = i
      <3>. DEFINE S == {k \in Slot[c] : cache[c][k].position}
      <3>1. S \subseteq Nat /\ S # {}
        BY <2>1, ConfigAssumption DEF Slot
      <3>2. Least(S) \in S
        <4>. HIDE DEF S
        <4>. QED BY <3>1, LeastIsLeast
      <3>3. i = Least(S)
        BY <2>1 DEF Hand
      <3>. QED BY <2>1, <3>2, <3>3 DEF OInv, CachedOnce
    <2>. QED BY <2>1
  \* What holds of the entries, whichever one the hand leaves behind.
  <1>6. ASSUME NEW x \in CacheEntry, cache' = [cache EXCEPT ![c] = HandMoved(@, i, x)],
               \A j \in Slot[c] \ {i} :
                  x.pid # NoPid /\ cache[c][j].pid # NoPid => x.page # cache[c][j].page
        PROVE  CachedOnce'
    <2>. DEFINE m == HandMoved(cache[c], i, x)
    <2>0. m = HandMoved(cache[c], i, x)
      OBVIOUS
    <2>. HIDE DEF i, e, new, m
    <2>1. /\ m[i].pid = x.pid /\ m[i].page = x.page
          /\ \A j \in Slot[c] \ {i} : m[j].pid = cache[c][j].pid /\ m[j].page = cache[c][j].page
          /\ \A j \in Slot[c] : m[j].position =>
                j = (i + 1) % Cardinality(Slot[c]) \/ (j # i /\ cache[c][j].position)
      BY <1>2, HandMovedEntries DEF m
    <2>2. cache' = [cache EXCEPT ![c] = m] /\ DOMAIN cache = CPUs
      BY <1>6, <2>0 DEF TInv, TypeOK
    <2>3. \A j, k \in Slot[c] : m[j].position /\ m[k].position => j = k
      BY <1>5, <2>1
    <2>4. \A j, k \in Slot[c] :
             m[j].pid # NoPid /\ m[k].pid # NoPid /\ m[j].page = m[k].page => j = k
      BY <1>2, <1>6, <2>1 DEF OInv, CachedOnce
    <2>. QED BY <2>2, <2>3, <2>4 DEF OInv, CachedOnce
  <1>7. CASE Chosen(c, e)
    <2>1. /\ cache' = [cache EXCEPT ![c] = HandMoved(@, i, new)]
          /\ job' = [job EXCEPT ![c] = PageJob(job[c].done, job[c].page)]
          /\ \E step \in {"copy", "down"} : at' = [at EXCEPT ![c] = step]
      BY <1>7 DEF Scans, Goes
    <2>2. new \in CacheEntry /\ new.page = job[c].page
      BY <1>1 DEF CacheEntry, Job
    <2>. HIDE DEF i, e, new
    <2>3. CachedOnce'
      BY <1>4, <1>6, <2>1, <2>2
    <2>4. NotYetCached'
      BY <2>1 DEF OInv, NotYetCached, CacheEnable, TInv, TypeOK
    <2>. QED BY <2>3, <2>4 DEF OInv
  <1>8. CASE ~Chosen(c, e)
    <2>1. /\ cache' = [cache EXCEPT ![c] = HandMoved(@, i, Passed(c, e))]
          /\ job' = [job EXCEPT ![c].examined = @ + 1] /\ UNCHANGED at
      BY <1>8 DEF Scans
    <2>. HIDE DEF e
    <2>2. Passed(c, e) \in CacheEntry /\ Passed(c, e).pid = e.pid /\ Passed(c, e).page = e.page
      BY <1>3, UseTypes DEF Passed
    <2>. HIDE DEF i, new
    <2>3. CachedOnce'
      <3>1. \A j \in Slot[c] \ {i} :
               e.pid # NoPid /\ cache[c][j].pid # NoPid => e.page # cache[c][j].page
        BY <1>2 DEF OInv, CachedOnce, e
      <3>. QED BY <1>6, <2>1, <2>2, <3>1
    <2>4. job[c] \in Job /\ job \in [CPUs -> Job]
      BY DEF TInv, TypeOK
    <2>5. job'[c].page = job[c].page /\ \A d \in CPUs \ {c} : job'[d] = job[d]
      BY <2>1, <2>4 DEF Job
    <2>6. \A j \in Slot[c] : cache'[c][j].page = cache[c][j].page
      <3>1. cache'[c] = HandMoved(cache[c], i, Passed(c, e))
        BY <2>1 DEF TInv, TypeOK
      <3>2. /\ HandMoved(cache[c], i, Passed(c, e))[i].page = cache[c][i].page
            /\ \A j \in Slot[c] \ {i} :
                  HandMoved(cache[c], i, Passed(c, e))[j].page = cache[c][j].page
        BY <1>2, <2>2, HandMovedEntries DEF e
      <3>. QED BY <3>1, <3>2
    <2>7. \A d \in CPUs \ {c} : cache'[d] = cache[d]
      BY <2>1 DEF TInv, TypeOK
    <2>8. NotYetCached'
      BY <2>1, <2>5, <2>6, <2>7 DEF OInv, NotYetCached, CacheEnable
    <2>. QED BY <2>3, <2>8 DEF OInv
  <1>. QED BY <1>7, <1>8

\* A step of c that rewrites or empties one of its entries and waits for no page.
LEMMA EntryOnce ==
    ASSUME TInv, OInv, NEW c \in CPUs, NEW i, NEW e,
           cache' = [cache EXCEPT ![c][i] = e],
           i \in Slot[c] => /\ e.pid # NoPid => e.pid = cache[c][i].pid /\ e.page = cache[c][i].page
                            /\ e.position => cache[c][i].position,
           \A d \in CPUs \ {c} : at'[d] = at[d] /\ job'[d] = job[d],
           at'[c] \notin {"get", "scan"}
    PROVE  OInv'
  <1>1. DOMAIN cache = CPUs /\ \A d \in CPUs : DOMAIN cache[d] = Slot[d]
    BY DEF TInv, TypeOK
  <1>2. \A d \in CPUs : \A j \in Slot[d] :
           IF d = c /\ j = i THEN cache'[d][j] = e ELSE cache'[d][j] = cache[d][j]
    BY <1>1
  <1>3. CachedOnce'
    BY <1>2, PagesStayApart DEF OInv
  <1>4. NotYetCached'
    BY <1>2 DEF OInv, NotYetCached, CacheEnable
  <1>. QED BY <1>3, <1>4 DEF OInv

LEMMA CopiesOnce ==
    ASSUME TInv, OInv, NEW c \in CPUs,
           WritesCache(c) \/ WritesThrough(c) \/ ReadsCache(c) \/ ReadsThrough(c)
    PROVE  OInv'
  <1>. DEFINE i == Least(Slots(c, job[c].page))
  <1>1. /\ at[c] \in Active
        /\ Advances(c) \/ Ends(c, "down")
    BY DEF WritesCache, WritesThrough, ReadsCache, ReadsThrough, Active
  <1>2. /\ at'[c] \in {"instruction", "translate", "down"}
        /\ \A d \in CPUs \ {c} : at'[d] = at[d] /\ job'[d] = job[d]
    <2>1. "down" \in Steps \ Active
      BY DEF Steps, Active
    <2>2. CASE Advances(c)
      BY <1>1, <2>2, AdvancesTypes
    <2>3. CASE Ends(c, "down")
      BY <2>1, <2>3, EndsTypes
    <2>. QED BY <1>1, <2>2, <2>3
  <1>3. CASE UNCHANGED cache
    BY <1>2, <1>3, SameCacheOnce
  <1>4. CASE WritesCache(c)
    <2>. DEFINE w == WrittenEntry(cache[c][i], Written(c, cache[c][i].content), TRUE)
    <2>1. cache' = [cache EXCEPT ![c][i] = w]
      BY <1>4 DEF WritesCache
    <2>2. w.pid = cache[c][i].pid /\ w.page = cache[c][i].page
             /\ w.position = cache[c][i].position
      BY DEF WrittenEntry
    <2>. HIDE DEF i, w
    <2>. QED BY <1>2, <2>1, <2>2, EntryOnce
  <1>5. CASE cache' = [cache EXCEPT ![c][i].use = TRUE]
    <2>. DEFINE w == [cache[c][i] EXCEPT !.use = TRUE]
    <2>1. cache' = [cache EXCEPT ![c][i] = w]
      <3>. HIDE DEF i
      <3>. QED BY <1>5
    <2>2. ASSUME i \in Slot[c]
          PROVE  w.pid = cache[c][i].pid /\ w.page = cache[c][i].page
                    /\ w.position = cache[c][i].position
      BY <2>2, EntryTypes, UseTypes
    <2>. HIDE DEF i, w
    <2>. QED BY <1>2, <2>1, <2>2, EntryOnce
  <1>. QED BY <1>3, <1>4, <1>5, Zenon DEF WritesThrough, ReadsCache, ReadsThrough, i

LEMMA FlushesOnce ==
    ASSUME TInv, OInv, NEW c \in CPUs, Flushes(c)
    PROVE  OInv'
  <1>1. /\ cache' = [cache EXCEPT ![c][Least(Entries(c, cpu[c]))] = EmptyEntry]
        /\ UNCHANGED job
        /\ \E step \in {"flush", "down"} : at' = [at EXCEPT ![c] = step]
    BY DEF Flushes, Goes
  <1>2. at'[c] \notin {"get", "scan"} /\ \A d \in CPUs \ {c} : at'[d] = at[d] /\ job'[d] = job[d]
    BY <1>1 DEF TInv, TypeOK
  <1>3. EmptyEntry.pid = NoPid /\ EmptyEntry.position = FALSE
    BY DEF EmptyEntry
  <1>. QED BY <1>1, <1>2, <1>3, EntryOnce

LEMMA StepOnce == TInv /\ OInv /\ [Next]_vars => OInv'
  <1>. SUFFICES ASSUME TInv, OInv, [Next]_vars PROVE OInv'
    OBVIOUS
  <1>1. CASE UNCHANGED vars
    BY <1>1 DEF vars, OInv, CachedOnce, NotYetCached, CacheEnable
  <1>2. ASSUME NEW c \in CPUs, NEW p \in Procs, NEW r \in Requests[p], Begins(c, p, r)
        PROVE  OInv'
    <2>1. /\ \E step \in {"copy", "translate"} : at' = [at EXCEPT ![c] = step]
          /\ job' = [job EXCEPT ![c] = PageJob(0, FromIntToLogicalAddres[r.addr \div PageSize])]
          /\ UNCHANGED cache
      BY <1>2 DEF Begins, Goes
    <2>2. at'[c] \notin {"get", "scan"} /\ \A d \in CPUs \ {c} : at'[d] = at[d] /\ job'[d] = job[d]
      BY <2>1 DEF TInv, TypeOK
    <2>. QED BY <2>1, <2>2, SameCacheOnce
  <1>3. ASSUME NEW c \in CPUs, Translates(c) \/ Gets(c) \/ Scans(c)
        PROVE  OInv'
    BY <1>3, TranslatesOnce, GetsOnce, ScansOnce
  <1>4. ASSUME NEW c \in CPUs,
               WritesCache(c) \/ WritesThrough(c) \/ ReadsCache(c) \/ ReadsThrough(c)
        PROVE  OInv'
    BY <1>4, CopiesOnce
  <1>5. ASSUME NEW c \in CPUs, Flushes(c)
        PROVE  OInv'
    BY <1>5, FlushesOnce
  <1>6. ASSUME NEW c \in CPUs, Syscalls(c) \/ Exits(c) \/ Interrupted(c)
        PROVE  OInv'
    <2>1. at' = [at EXCEPT ![c] = "instruction"] /\ UNCHANGED job /\ UNCHANGED cache
      BY <1>6 DEF Syscalls, Exits, Interrupted, LeavesFor, Goes
    <2>2. at'[c] \notin {"get", "scan"} /\ \A d \in CPUs \ {c} : at'[d] = at[d] /\ job'[d] = job[d]
      BY <2>1 DEF TInv, TypeOK
    <2>. QED BY <2>1, <2>2, SameCacheOnce
  <1>7. CASE UNCHANGED <<at, job, cache>>
    BY <1>7 DEF OInv, CachedOnce, NotYetCached, CacheEnable
  <1>8. ASSUME NEW c \in CPUs, NEW p \in Procs, Dispatches(c, p)
        PROVE  OInv'
    BY <1>7, <1>8 DEF Dispatches
  <1>9. ASSUME NEW p \in Procs, Admits(p) \/ Unblocks(p) \/ Suspends(p) \/ Returns(p)
        PROVE  OInv'
    BY <1>7, <1>9 DEF Admits, Unblocks, Suspends, Returns
  <1>. QED BY <1>1, <1>2, <1>3, <1>4, <1>5, <1>6, <1>8, <1>9 DEF Next

LEMMA InitOnce == Init => OInv
  <1>1. ASSUME Init
        PROVE  CachedOnce
    <2>1. \A c \in CPUs : \A i \in Slot[c] :
             cache[c][i].pid = NoPid /\ cache[c][i].position = (i = 0)
      BY <1>1 DEF Init, EmptyEntry
    <2>. QED BY <2>1 DEF CachedOnce
  <1>2. Init => NotYetCached
    BY DEF Init, NotYetCached
  <1>. QED BY <1>1, <1>2 DEF OInv

\* No cache ever has a page twice, and no cache ever has two hands, for caches of any size
\* and both clocks: between the search that misses and the entry that is made (findFrame,
\* GetPageInMemory, every turn of AddEntryCacheClock and AddEntryCacheClockM) nothing brings
\* the page in.
THEOREM OneCopyInCache == Spec => []CachedOnce
  <1>1. Init => TInv /\ OInv
    BY InitTypes, InitOnce
  <1>2. TInv /\ OInv /\ [Next]_vars => (TInv /\ OInv)'
    BY StepTypes, StepOnce
  <1>3. TInv /\ OInv => CachedOnce
    BY DEF OInv
  <1>. QED BY <1>1, <1>2, <1>3, PTL DEF Spec

-----------------------------------------------------------------------------
(* The TLB names the frames of now *)

\* What a TLB knows of a page is true; its process is not in swap, nor has it been.
GoodEntry(e) ==
    /\ stage[e.pid] \notin {"NEW", "SWAPPED"}
    /\ e.pid \in Resident => HasFrame(e.pid, e.page) /\ e.frame = LogicAddressToFrame(e.pid, e.page)

GoodTLB(c, s) ==
    /\ Len(s) <= TLBEntries[c]
    /\ \A i, j \in DOMAIN s : s[i].pid = s[j].pid /\ s[i].page = s[j].page => i = j
    /\ \A i \in DOMAIN s : GoodEntry(s[i])

\* A cache has pages of the process that runs, or that a READ that failed has ended.
EntryPids == \A c \in CPUs : \A i \in Slot[c] :
    cache[c][i].pid # NoPid => cache[c][i].pid = cpu[c] \/ stage[cache[c][i].pid] = "EXIT"

AInv == (\A c \in CPUs : GoodTLB(c, tlb[c])) /\ EntryPids

LEMMA MovedIsGood ==
    ASSUME NEW c \in CPUs, NEW s \in Seq(TLBEntry), NEW i \in DOMAIN s, GoodTLB(c, s)
    PROVE  GoodTLB(c, MovedToEnd(s, i))
  <1>. DEFINE m == MovedToEnd(s, i)
              n == Len(s)
              from(k) == IF k < i THEN k ELSE IF k = n THEN i ELSE k + 1
  <1>1. n \in Nat /\ DOMAIN s = 1 .. n /\ i \in 1 .. n
    OBVIOUS
  <1>2. m \in Seq(TLBEntry) /\ Len(m) = n /\ DOMAIN m = 1 .. n
    BY <1>1, MovedEntries
  <1>3. m = [k \in 1 .. n |-> IF k < i THEN s[k] ELSE IF k = n THEN s[i] ELSE s[k + 1]]
    BY <1>1 DEF MovedToEnd
  <1>. HIDE DEF m, n
  <1>4. \A k \in 1 .. n : from(k) \in 1 .. n /\ m[k] = s[from(k)]
    BY <1>1, <1>3
  <1>5. \A k, l \in 1 .. n : from(k) = from(l) => k = l
    BY <1>1
  <1>. HIDE DEF from
  <1>6. /\ n <= TLBEntries[c]
        /\ \A k, l \in 1 .. n : s[k].pid = s[l].pid /\ s[k].page = s[l].page => k = l
        /\ \A k \in 1 .. n : GoodEntry(s[k])
    BY <1>1 DEF GoodTLB, n
  <1>7. ASSUME NEW k \in 1 .. n, NEW l \in 1 .. n, m[k].pid = m[l].pid /\ m[k].page = m[l].page
        PROVE  k = l
    <2>1. from(k) \in 1 .. n /\ from(l) \in 1 .. n /\ m[k] = s[from(k)] /\ m[l] = s[from(l)]
      BY <1>4
    <2>2. from(k) = from(l)
      BY <1>6, <1>7, <2>1
    <2>. QED BY <1>5, <2>2
  <1>8. \A k \in 1 .. n : GoodEntry(m[k])
    BY <1>4, <1>6
  <1>. QED BY <1>2, <1>6, <1>7, <1>8 DEF GoodTLB, m

LEMMA AddedIsGood ==
    ASSUME TInv, NEW c \in CPUs, GoodTLB(c, tlb[c]), NEW e \in TLBEntry, GoodEntry(e),
           Hits(c, e.pid, e.page) = {}
    PROVE  GoodTLB(c, AddEntryTLB(c, e))
  <1>. DEFINE s == tlb[c]
              t == IF Len(s) >= TLBEntries[c] THEN Tail(s) ELSE s
              shift == IF Len(s) >= TLBEntries[c] THEN 1 ELSE 0
  <1>1. /\ s \in Seq(TLBEntry) /\ TLBEntries[c] \in Nat /\ Len(s) <= TLBEntries[c]
        /\ \A i, j \in DOMAIN s : s[i].pid = s[j].pid /\ s[i].page = s[j].page => i = j
        /\ \A i \in DOMAIN s : GoodEntry(s[i])
        /\ \A i \in DOMAIN s : ~(s[i].pid = e.pid /\ s[i].page = e.page)
    BY ConfigAssumption DEF TInv, TypeOK, GoodTLB, Hits
  <1>2. CASE TLBEntries[c] = 0
    BY <1>2 DEF AddEntryTLB
  <1>3. CASE TLBEntries[c] # 0
    <2>. HIDE DEF s
    <2>1. Len(s) \in Nat /\ DOMAIN s = 1 .. Len(s)
      BY <1>1
    <2>2. /\ t \in Seq(TLBEntry) /\ Len(t) = Len(s) - shift /\ Len(t) < TLBEntries[c]
          /\ \A k \in 1 .. Len(t) : k + shift \in 1 .. Len(s) /\ t[k] = s[k + shift]
      <3>1. CASE Len(s) >= TLBEntries[c]
        <4>1. s # <<>>
          BY <1>1, <1>3, <3>1
        <4>2. Tail(s) \in Seq(TLBEntry) /\ Len(Tail(s)) = Len(s) - 1
              /\ \A k \in 1 .. Len(s) - 1 : Tail(s)[k] = s[k + 1]
          BY <1>1, <4>1
        <4>. QED BY <1>1, <2>1, <3>1, <4>2
      <3>2. CASE ~(Len(s) >= TLBEntries[c])
        BY <1>1, <2>1, <3>2
      <3>. QED BY <3>1, <3>2
    <2>3. shift \in Nat
      OBVIOUS
    <2>4. AddEntryTLB(c, e) = Append(t, e)
      BY <1>3 DEF AddEntryTLB, s
    <2>. HIDE DEF t, shift
    <2>. DEFINE a == Append(t, e)
                n == Len(t)
    <2>5. /\ a \in Seq(TLBEntry) /\ Len(a) = n + 1 /\ DOMAIN a = 1 .. n + 1
          /\ a[n + 1] = e /\ \A k \in 1 .. n : a[k] = t[k]
      BY <2>2
    <2>6. n \in Nat /\ n + 1 <= TLBEntries[c]
      BY <1>1, <2>2
    <2>. HIDE DEF a, n
    <2>7. \A k \in 1 .. n + 1 : GoodEntry(a[k])
      BY <1>1, <2>1, <2>2, <2>5, <2>6 DEF n
    <2>8. \A k \in 1 .. n : /\ k + shift \in DOMAIN s /\ a[k] = s[k + shift]
                            /\ ~(a[k].pid = e.pid /\ a[k].page = e.page)
      BY <1>1, <2>1, <2>2, <2>5 DEF n
    <2>9. ASSUME NEW k \in 1 .. n + 1, NEW l \in 1 .. n + 1,
                 a[k].pid = a[l].pid /\ a[k].page = a[l].page
          PROVE  k = l
      <3>1. CASE k \in 1 .. n /\ l \in 1 .. n
        <4>1. k + shift = l + shift
          BY <1>1, <2>8, <2>9, <3>1
        <4>. QED BY <2>3, <3>1, <4>1
      <3>2. CASE k = n + 1 \/ l = n + 1
        BY <2>5, <2>6, <2>8, <2>9, <3>2
      <3>. QED BY <2>6, <3>1, <3>2
    <2>. QED BY <2>4, <2>5, <2>6, <2>7, <2>9 DEF GoodTLB, a
  <1>. QED BY <1>2, <1>3

LEMMA FindIsGood ==
    ASSUME TInv, AInv, NEW c \in CPUs, NEW p, NEW page
    PROVE  GoodTLB(c, findFrame(c, p, page))
  <1>1. tlb[c] \in Seq(TLBEntry) /\ GoodTLB(c, tlb[c])
    BY DEF TInv, TypeOK, AInv
  <1>2. CASE Hits(c, p, page) = {}
    BY <1>1, <1>2 DEF findFrame
  <1>3. CASE Hits(c, p, page) # {}
    <2>1. Least(Hits(c, p, page)) \in DOMAIN tlb[c]
      BY <1>3, HitsAreEntries DEF TInv
    <2>. QED BY <1>1, <1>3, <2>1, MovedIsGood DEF findFrame, Touched
  <1>. QED BY <1>2, <1>3

LEMMA TranslationIsGood ==
    ASSUME TInv, AInv, NEW c \in CPUs, NEW p \in Procs, NEW page \in Page,
           stage[p] \notin {"NEW", "SWAPPED"}, Traducir(c, p, page)
    PROVE  \A d \in CPUs : GoodTLB(d, tlb'[d])
  <1>1. tlb \in [CPUs -> Seq(TLBEntry)] /\ \A d \in CPUs : GoodTLB(d, tlb[d])
    BY DEF TInv, TypeOK, AInv
  <1>2. GoodTLB(c, findFrame(c, p, page))
    BY FindIsGood
  <1>. DEFINE e == [pid |-> p, page |-> page, frame |-> LogicAddressToFrame(p, page)]
  <1>3. ASSUME Hits(c, p, page) = {}, HasFrame(p, page)
        PROVE  GoodTLB(c, AddEntryTLB(c, e))
    <2>1. e \in TLBEntry /\ e.pid = p /\ e.page = page
      BY <1>3, FrameOfPage DEF TLBEntry, TInv
    <2>2. GoodEntry(e)
      BY <1>3 DEF GoodEntry
    <2>. HIDE DEF e
    <2>. QED BY <1>1, <1>3, <2>1, <2>2, AddedIsGood
  <1>. HIDE DEF e
  <1>4. tlb' = [tlb EXCEPT ![c] = IF Hits(c, p, page) # {} \/ ~HasFrame(p, page)
                                 THEN findFrame(c, p, page) ELSE AddEntryTLB(c, e)]
    BY Zenon DEF Traducir, e
  <1>5. CASE Hits(c, p, page) # {} \/ ~HasFrame(p, page)
    BY <1>1, <1>2, <1>4, <1>5
  <1>6. CASE Hits(c, p, page) = {} /\ HasFrame(p, page)
    BY <1>1, <1>3, <1>4, <1>6
  <1>. QED BY <1>5, <1>6

\* A step that leaves the tables and the stages alone.
LEMMA SameTables ==
    ASSUME TInv, UNCHANGED <<pageBases, stage>>, \A d \in CPUs : GoodTLB(d, tlb'[d])
    PROVE  (\A d \in CPUs : GoodTLB(d, tlb[d]))'
  BY DEF GoodTLB, GoodEntry, Resident, HasFrame, LogicAddressToFrame

\* A step that changes one process, of which no TLB has a page or that has ended.
LEMMA OtherTables ==
    ASSUME TInv, AInv, NEW p, UNCHANGED tlb,
           \A q \in Procs \ {p} : pageBases'[q] = pageBases[q] /\ stage'[q] = stage[q],
           \/ \A c \in CPUs : \A i \in DOMAIN tlb[c] : tlb[c][i].pid # p
           \/ stage'[p] = "EXIT"
           \/ /\ pageBases'[p] = pageBases[p] /\ stage[p] \in {"READY", "EXEC", "BLOCKED"}
              /\ stage'[p] \in {"READY", "EXEC", "BLOCKED"}
    PROVE  (\A d \in CPUs : GoodTLB(d, tlb[d]))'
  <1>1. ASSUME NEW c \in CPUs, NEW i \in DOMAIN tlb[c]
        PROVE  GoodEntry(tlb[c][i])'
    <2>. DEFINE e == tlb[c][i]
    <2>1. tlb[c] \in Seq(TLBEntry)
      BY DEF TInv, TypeOK
    <2>2. e.pid \in Procs
      <3>1. e \in TLBEntry
        BY <2>1
      <3>. HIDE DEF e
      <3>. QED BY <3>1 DEF TLBEntry
    <2>3. GoodEntry(e)
      BY DEF AInv, GoodTLB
    <2>4. e' = e
      OBVIOUS
    <2>. HIDE DEF e
    <2>5. CASE e.pid # p
      <3>1. pageBases'[e.pid] = pageBases[e.pid] /\ stage'[e.pid] = stage[e.pid]
        BY <2>2, <2>5
      <3>. QED BY <2>2, <2>3, <2>4, <3>1 DEF GoodEntry, Resident, HasFrame, LogicAddressToFrame, e
    <2>6. CASE e.pid = p /\ stage'[p] = "EXIT"
      BY <2>4, <2>6 DEF GoodEntry, Resident, e
    <2>7. CASE e.pid = p /\ pageBases'[p] = pageBases[p]
               /\ stage[p] \in {"READY", "EXEC", "BLOCKED"}
               /\ stage'[p] \in {"READY", "EXEC", "BLOCKED"}
      BY <2>2, <2>3, <2>4, <2>7 DEF GoodEntry, Resident, HasFrame, LogicAddressToFrame, e
    <2>. QED BY <2>5, <2>6, <2>7 DEF e
  <1>. QED BY <1>1 DEF AInv, GoodTLB

\* A step of the process that c runs.
LEMMA RunningAgrees ==
    ASSUME TInv, AInv, UNCHANGED <<pageBases, stage, cpu>>,
           \A d \in CPUs : GoodTLB(d, tlb'[d]),
           \A d \in CPUs : \A j \in Slot[d] :
              cache'[d][j].pid \in {NoPid, cpu[d], cache[d][j].pid}
    PROVE  AInv'
  <1>1. (\A d \in CPUs : GoodTLB(d, tlb[d]))'
    BY SameTables
  <1>2. EntryPids'
    BY DEF AInv, EntryPids
  <1>. QED BY <1>1, <1>2 DEF AInv

LEMMA EntryPid ==
    ASSUME TInv, AInv, NEW c \in CPUs, NEW i \in Slot[c], cache[c][i].pid # NoPid
    PROVE  /\ cache[c][i].pid \in Procs /\ cache[c][i].page \in Page
           /\ stage[cache[c][i].pid] \notin {"NEW", "SWAPPED"}
  <1>1. cache[c][i].pid \in Procs /\ cache[c][i].page \in Page
    BY EntryTypes
  <1>2. cache[c][i].pid = cpu[c] => stage[cpu[c]] = "EXEC"
    BY <1>1, PidAssumption DEF TInv, RunsOne
  <1>. QED BY <1>1, <1>2 DEF AInv, EntryPids

\* c changes one entry of its cache.
LEMMA EntryAgrees ==
    ASSUME TInv, AInv, NEW c \in CPUs, NEW i, NEW e, UNCHANGED <<pageBases, stage, cpu>>,
           \A d \in CPUs : GoodTLB(d, tlb'[d]),
           cache' = [cache EXCEPT ![c][i] = e],
           i \in Slot[c] => e.pid \in {NoPid, cache[c][i].pid}
    PROVE  AInv'
  <1>1. DOMAIN cache = CPUs /\ \A d \in CPUs : DOMAIN cache[d] = Slot[d]
    BY DEF TInv, TypeOK
  <1>2. \A d \in CPUs : \A j \in Slot[d] :
           cache'[d][j].pid \in {NoPid, cpu[d], cache[d][j].pid}
    BY <1>1
  <1>. QED BY <1>2, RunningAgrees

LEMMA ScansAgrees ==
    ASSUME TInv, AInv, NEW c \in CPUs, Scans(c)
    PROVE  AInv'
  <1>. DEFINE i == Hand(c)
              e == cache[c][i]
              new == [pid |-> cpu[c], page |-> job[c].page, content |-> job[c].buffer,
                      use |-> TRUE, modified |-> FALSE, position |-> FALSE]
  <1>1. CacheEnable(c) /\ cpu[c] \in Procs /\ job[c] \in Job /\ job[c].page \in Page
    BY ActiveFacts DEF Scans, Active, TInv, RunsOne
  <1>2. i \in Slot[c]
    BY <1>1, HandIsSlot
  <1>3. e \in CacheEntry
    BY <1>2, EntryTypes
  <1>4. new \in CacheEntry /\ new.pid = cpu[c]
    BY <1>1 DEF CacheEntry, Job
  <1>5. UNCHANGED <<pageBases, stage, cpu>>
    BY DEF Scans
  <1>6. \A d \in CPUs : GoodTLB(d, tlb'[d])
    <2>0. tlb' = tlb => \A d \in CPUs : GoodTLB(d, tlb'[d])
      BY DEF AInv
    <2>1. \/ UNCHANGED tlb
          \/ (e.pid # NoPid /\ SavePageInMemory(c, e.pid, e.page, e.content))
      <3>1. CASE Chosen(c, e)
        <4>1. IF e.pid = NoPid THEN Goes(c, "copy") /\ UNCHANGED <<userMemory, tlb>>
              ELSE IF Found(c, e.pid, e.page)
              THEN Goes(c, "copy") /\ SavePageInMemory(c, e.pid, e.page, e.content)
              ELSE Goes(c, "down") /\ UNCHANGED <<userMemory, tlb>>
          BY <3>1, Zenon DEF Scans
        <4>. HIDE DEF e
        <4>. QED BY <4>1
      <3>2. CASE ~Chosen(c, e)
        BY <3>2, Zenon DEF Scans
      <3>. QED BY <3>1, <3>2
    <2>2. CASE e.pid # NoPid /\ SavePageInMemory(c, e.pid, e.page, e.content)
      <3>1. e.pid \in Procs /\ e.page \in Page /\ stage[e.pid] \notin {"NEW", "SWAPPED"}
        BY <1>2, <2>2, EntryPid
      <3>. HIDE DEF e
      <3>2. Traducir(c, e.pid, e.page)
        BY <2>2 DEF SavePageInMemory
      <3>. QED BY <3>1, <3>2, TranslationIsGood
    <2>. QED BY <2>0, <2>1, <2>2
  <1>7. ASSUME NEW x \in CacheEntry, x.pid \in {cpu[c], cache[c][i].pid},
               cache' = [cache EXCEPT ![c] = HandMoved(@, i, x)]
        PROVE  AInv'
    <2>. HIDE DEF i, e, new
    <2>1. /\ HandMoved(cache[c], i, x)[i].pid = x.pid
          /\ \A j \in Slot[c] \ {i} : HandMoved(cache[c], i, x)[j].pid = cache[c][j].pid
      BY <1>2, HandMovedEntries
    <2>2. /\ cache'[c] = HandMoved(cache[c], i, x)
          /\ \A d \in CPUs \ {c} : cache'[d] = cache[d]
      BY <1>7 DEF TInv, TypeOK
    <2>3. \A d \in CPUs : \A j \in Slot[d] :
             cache'[d][j].pid \in {NoPid, cpu[d], cache[d][j].pid}
      BY <1>7, <2>1, <2>2
    <2>. QED BY <1>5, <1>6, <2>3, RunningAgrees
  <1>8. CASE Chosen(c, e)
    <2>1. cache' = [cache EXCEPT ![c] = HandMoved(@, i, new)]
      BY <1>8 DEF Scans
    <2>. HIDE DEF i, e, new
    <2>. QED BY <1>4, <1>7, <2>1
  <1>9. CASE ~Chosen(c, e)
    <2>1. cache' = [cache EXCEPT ![c] = HandMoved(@, i, Passed(c, e))]
      BY <1>9 DEF Scans
    <2>. HIDE DEF e
    <2>2. Passed(c, e) \in CacheEntry /\ Passed(c, e).pid = e.pid
      BY <1>3, UseTypes DEF Passed
    <2>. HIDE DEF i, new
    <2>. QED BY <1>7, <2>1, <2>2 DEF e
  <1>. QED BY <1>8, <1>9

LEMMA CopiesAgree ==
    ASSUME TInv, AInv, NEW c \in CPUs,
           WritesCache(c) \/ WritesThrough(c) \/ ReadsCache(c) \/ ReadsThrough(c)
    PROVE  AInv'
  <1>. DEFINE i == Least(Slots(c, job[c].page))
  <1>1. /\ at[c] \in Active /\ UNCHANGED <<pageBases, stage, cpu>>
    BY DEF WritesCache, WritesThrough, ReadsCache, ReadsThrough, Active, memoria
  <1>2. cpu[c] \in Procs /\ job[c].page \in Page /\ stage[cpu[c]] \notin {"NEW", "SWAPPED"}
    BY <1>1, ActiveFacts, PidAssumption DEF TInv, RunsOne
  <1>3. \A d \in CPUs : GoodTLB(d, tlb'[d])
    <2>0. tlb \in [CPUs -> Seq(TLBEntry)] /\ \A d \in CPUs : GoodTLB(d, tlb[d])
      BY DEF AInv, TInv, TypeOK
    <2>1. \/ UNCHANGED tlb \/ Traducir(c, cpu[c], job[c].page)
          \/ tlb' = [tlb EXCEPT ![c] = findFrame(c, cpu[c], job[c].page)]
      BY DEF WritesCache, WritesThrough, ReadsCache, ReadsThrough, SavePageInMemory
    <2>2. CASE UNCHANGED tlb
      BY <2>0, <2>2
    <2>3. CASE Traducir(c, cpu[c], job[c].page)
      BY <1>2, <2>3, TranslationIsGood
    <2>4. CASE tlb' = [tlb EXCEPT ![c] = findFrame(c, cpu[c], job[c].page)]
      <3>1. GoodTLB(c, findFrame(c, cpu[c], job[c].page))
        BY FindIsGood
      <3>. QED BY <2>0, <2>4, <3>1
    <2>. QED BY <2>1, <2>2, <2>3, <2>4
  <1>4. CASE UNCHANGED cache
    BY <1>1, <1>3, <1>4, RunningAgrees
  <1>5. CASE WritesCache(c)
    <2>. DEFINE w == WrittenEntry(cache[c][i], Written(c, cache[c][i].content), TRUE)
    <2>1. cache' = [cache EXCEPT ![c][i] = w]
      BY <1>5 DEF WritesCache
    <2>2. w.pid = cache[c][i].pid
      BY DEF WrittenEntry
    <2>. HIDE DEF i, w
    <2>. QED BY <1>1, <1>3, <2>1, <2>2, EntryAgrees
  <1>6. CASE cache' = [cache EXCEPT ![c][i].use = TRUE]
    <2>. DEFINE w == [cache[c][i] EXCEPT !.use = TRUE]
    <2>1. cache' = [cache EXCEPT ![c][i] = w]
      <3>. HIDE DEF i
      <3>. QED BY <1>6
    <2>2. ASSUME i \in Slot[c]
          PROVE  w.pid = cache[c][i].pid
      BY <2>2, EntryTypes, UseTypes
    <2>. HIDE DEF i, w
    <2>. QED BY <1>1, <1>3, <2>1, <2>2, EntryAgrees
  <1>. QED BY <1>4, <1>5, <1>6, Zenon DEF WritesThrough, ReadsCache, ReadsThrough, i

LEMMA FlushesAgrees ==
    ASSUME TInv, AInv, NEW c \in CPUs, Flushes(c)
    PROVE  AInv'
  <1>. DEFINE i == Least(Entries(c, cpu[c]))
              e == cache[c][i]
  <1>1. /\ cpu[c] # NoPid /\ cache' = [cache EXCEPT ![c][i] = EmptyEntry]
        /\ UNCHANGED <<pageBases, stage, cpu>>
    BY DEF Flushes
  <1>2. i \in Slot[c] /\ e.pid = cpu[c]
    <2>1. Entries(c, cpu[c]) \subseteq Nat /\ Entries(c, cpu[c]) # {}
      BY ConfigAssumption DEF Entries, Slot, Flushes
    <2>2. i \in Entries(c, cpu[c])
      BY <2>1, LeastIsLeast
    <2>. QED BY <2>2 DEF Entries
  <1>3. \A d \in CPUs : GoodTLB(d, tlb'[d])
    <2>0. tlb' = tlb => \A d \in CPUs : GoodTLB(d, tlb'[d])
      BY DEF AInv
    <2>1. UNCHANGED tlb \/ SavePageInMemory(c, e.pid, e.page, e.content)
      BY Zenon DEF Flushes
    <2>2. CASE SavePageInMemory(c, e.pid, e.page, e.content)
      <3>1. e.pid \in Procs /\ e.page \in Page /\ stage[e.pid] \notin {"NEW", "SWAPPED"}
        BY <1>1, <1>2, EntryPid
      <3>. HIDE DEF e
      <3>2. Traducir(c, e.pid, e.page)
        BY <2>2 DEF SavePageInMemory
      <3>. QED BY <3>1, <3>2, TranslationIsGood
    <2>. QED BY <2>0, <2>1, <2>2
  <1>4. EmptyEntry.pid = NoPid
    BY DEF EmptyEntry
  <1>. HIDE DEF i, e
  <1>. QED BY <1>1, <1>3, <1>4, EntryAgrees

LEMMA LeavesAgrees ==
    ASSUME TInv, AInv, NEW c \in CPUs, NEW where \in {"READY", "BLOCKED", "EXIT"},
           LeavesFor(c, where), cpu[c] # NoPid,
           where = "EXIT" \/ (UNCHANGED pageBases /\ Entries(c, cpu[c]) = {}),
           pageBases' = pageBases \/ pageBases' = [pageBases EXCEPT ![cpu[c]] = NoBytes]
    PROVE  AInv'
  <1>. DEFINE p == cpu[c]
  <1>1. /\ stage' = [stage EXCEPT ![p] = where] /\ cpu' = [cpu EXCEPT ![c] = NoPid]
        /\ UNCHANGED tlb /\ UNCHANGED cache
    BY DEF LeavesFor
  <1>2. /\ p \in Procs /\ stage[p] = "EXEC" /\ \A d \in CPUs \ {c} : cpu[d] # p
        /\ stage \in [Procs -> Stages] /\ DOMAIN pageBases = Procs
        /\ cpu \in [CPUs -> Procs \union {NoPid}]
    BY DEF TInv, TypeOK, RunsOne
  <1>3. \A q \in Procs \ {p} : pageBases'[q] = pageBases[q] /\ stage'[q] = stage[q]
    BY <1>1, <1>2
  <1>4. stage'[p] = where
    BY <1>1, <1>2
  <1>5. (\A d \in CPUs : GoodTLB(d, tlb[d]))'
    <2>. HIDE DEF p
    <2>1. CASE where = "EXIT"
      BY <1>1, <1>3, <1>4, <2>1, OtherTables
    <2>2. CASE where # "EXIT"
      BY <1>1, <1>2, <1>3, <1>4, <2>2, OtherTables
    <2>. QED BY <2>1, <2>2
  <1>6. EntryPids'
    <2>1. ASSUME NEW d \in CPUs, NEW i \in Slot[d], cache[d][i].pid # NoPid
          PROVE  cache[d][i].pid = cpu'[d] \/ stage'[cache[d][i].pid] = "EXIT"
      <3>1. cache[d][i].pid = cpu[d] \/ stage[cache[d][i].pid] = "EXIT"
        BY <2>1 DEF AInv, EntryPids
      <3>2. cache[d][i].pid \in Procs
        BY <2>1, EntryPid
      <3>3. CASE cache[d][i].pid # p
        <4>1. d # c => cpu'[d] = cpu[d]
          BY <1>1, <1>2
        <4>2. stage'[cache[d][i].pid] = stage[cache[d][i].pid]
          BY <1>3, <3>2, <3>3
        <4>. QED BY <3>1, <3>3, <4>1, <4>2
      <3>4. CASE cache[d][i].pid = p
        <4>1. d = c
          BY <1>2, <3>1, <3>4
        <4>2. i \in Entries(c, p)
          BY <3>4, <4>1 DEF Entries
        <4>3. where = "EXIT"
          BY <4>2
        <4>. QED BY <1>4, <3>4, <4>3
      <3>. QED BY <3>3, <3>4
    <2>. QED BY <1>1, <2>1 DEF EntryPids
  <1>. QED BY <1>5, <1>6 DEF AInv

LEMMA DispatchesAgrees ==
    ASSUME TInv, AInv, NEW c \in CPUs, NEW p \in Procs, Dispatches(c, p)
    PROVE  AInv'
  <1>1. /\ stage[p] = "READY" /\ cpu[c] = NoPid /\ stage' = [stage EXCEPT ![p] = "EXEC"]
        /\ cpu' = [cpu EXCEPT ![c] = p] /\ UNCHANGED pageBases /\ UNCHANGED tlb /\ UNCHANGED cache
    BY DEF Dispatches
  <1>2. stage'[p] = "EXEC" /\ \A q \in Procs \ {p} : stage'[q] = stage[q]
    BY <1>1 DEF TInv, TypeOK
  <1>3. (\A d \in CPUs : GoodTLB(d, tlb[d]))'
    BY <1>1, <1>2, OtherTables
  <1>4. EntryPids'
    BY <1>1, <1>2, EntryPid DEF AInv, EntryPids, TInv, TypeOK
  <1>. QED BY <1>3, <1>4 DEF AInv

LEMMA IdleAgrees ==
    ASSUME TInv, AInv, "suspendTranslated" \notin Hazards,
           NEW p \in Procs, Admits(p) \/ Unblocks(p) \/ Suspends(p) \/ Returns(p)
    PROVE  AInv'
  <1>1. /\ UNCHANGED tlb /\ UNCHANGED <<cpu, cache>> /\ stage[p] \notin {"EXEC", "EXIT"}
        /\ \A q \in Procs \ {p} : pageBases'[q] = pageBases[q] /\ stage'[q] = stage[q]
    BY DEF Admits, Unblocks, Suspends, Returns, TInv, TypeOK
  <1>2. ASSUME stage[p] \in {"NEW", "SWAPPED"}, NEW c \in CPUs, NEW i \in DOMAIN tlb[c]
        PROVE  tlb[c][i].pid # p
    BY <1>2 DEF AInv, GoodTLB, GoodEntry
  <1>3. \/ \A c \in CPUs : \A i \in DOMAIN tlb[c] : tlb[c][i].pid # p
        \/ /\ pageBases'[p] = pageBases[p] /\ stage[p] \in {"READY", "EXEC", "BLOCKED"}
           /\ stage'[p] \in {"READY", "EXEC", "BLOCKED"}
    <2>1. CASE Admits(p) \/ Returns(p)
      BY <1>2, <2>1 DEF Admits, Returns
    <2>2. CASE Suspends(p)
      BY <2>2 DEF Suspends
    <2>3. CASE Unblocks(p)
      BY <2>3 DEF Unblocks, TInv, TypeOK
    <2>. QED BY <2>1, <2>2, <2>3
  <1>4. (\A d \in CPUs : GoodTLB(d, tlb[d]))'
    BY <1>1, <1>3, OtherTables
  <1>5. EntryPids'
    BY <1>1, EntryPid DEF AInv, EntryPids
  <1>. QED BY <1>4, <1>5 DEF AInv

LEMMA StepAgrees ==
    ASSUME "suspendTranslated" \notin Hazards, "interruptCached" \notin Hazards
    PROVE  TInv /\ AInv /\ [Next]_vars => AInv'
  <1>. SUFFICES ASSUME TInv, AInv, [Next]_vars PROVE AInv'
    OBVIOUS
  <1>0. CASE UNCHANGED <<pageBases, stage, cpu, tlb, cache>>
    <2>1. \A d \in CPUs : GoodTLB(d, tlb'[d])
      BY <1>0 DEF AInv
    <2>. QED BY <1>0, <2>1, RunningAgrees
  <1>1. CASE UNCHANGED vars
    BY <1>0, <1>1 DEF vars, memoria
  <1>2. ASSUME NEW c \in CPUs, NEW p \in Procs, NEW r \in Requests[p], Begins(c, p, r)
        PROVE  AInv'
    BY <1>0, <1>2 DEF Begins, memoria
  <1>3. ASSUME NEW c \in CPUs, Translates(c)
        PROVE  AInv'
    <2>1. /\ at[c] \in Active /\ Traducir(c, cpu[c], job[c].page)
          /\ UNCHANGED <<pageBases, stage, cpu>> /\ UNCHANGED cache
      BY <1>3 DEF Translates, Active, memoria
    <2>2. cpu[c] \in Procs /\ job[c].page \in Page /\ stage[cpu[c]] \notin {"NEW", "SWAPPED"}
      BY <2>1, ActiveFacts, PidAssumption DEF TInv, RunsOne
    <2>3. \A d \in CPUs : GoodTLB(d, tlb'[d])
      BY <2>1, <2>2, TranslationIsGood
    <2>. QED BY <2>1, <2>3, RunningAgrees
  <1>4. ASSUME NEW c \in CPUs, Gets(c)
        PROVE  AInv'
    BY <1>0, <1>4 DEF Gets, memoria
  <1>5. ASSUME NEW c \in CPUs, Scans(c)
        PROVE  AInv'
    BY <1>5, ScansAgrees
  <1>6. ASSUME NEW c \in CPUs,
               WritesCache(c) \/ WritesThrough(c) \/ ReadsCache(c) \/ ReadsThrough(c)
        PROVE  AInv'
    BY <1>6, CopiesAgree
  <1>7. ASSUME NEW c \in CPUs, Flushes(c)
        PROVE  AInv'
    BY <1>7, FlushesAgrees
  <1>8. ASSUME NEW c \in CPUs, Syscalls(c) \/ Exits(c) \/ Interrupted(c)
        PROVE  AInv'
    <2>1. cpu[c] # NoPid
      BY <1>8 DEF Syscalls, Exits, Interrupted, Flushed, TInv, RunsOne
    <2>2. CASE Syscalls(c)
      BY <2>1, <2>2, LeavesAgrees DEF Syscalls, Flushed
    <2>3. CASE Exits(c)
      <3>1. /\ LeavesFor(c, "EXIT")
            /\ pageBases' = [pageBases EXCEPT ![cpu[c]] = NoBytes]
        BY <2>3 DEF Exits
      <3>2. "EXIT" \in {"READY", "BLOCKED", "EXIT"}
        OBVIOUS
      <3>. DEFINE where == "EXIT"
      <3>3. /\ where \in {"READY", "BLOCKED", "EXIT"} /\ LeavesFor(c, where) /\ where = "EXIT"
        BY <3>1, <3>2
      <3>. HIDE DEF where
      <3>. QED BY <2>1, <3>1, <3>3, LeavesAgrees
    <2>4. CASE Interrupted(c)
      BY <2>1, <2>4, LeavesAgrees DEF Interrupted
    <2>. QED BY <1>8, <2>2, <2>3, <2>4
  <1>9. ASSUME NEW c \in CPUs, NEW p \in Procs, Dispatches(c, p)
        PROVE  AInv'
    BY <1>9, DispatchesAgrees
  <1>10. ASSUME NEW p \in Procs, Admits(p) \/ Unblocks(p) \/ Suspends(p) \/ Returns(p)
         PROVE  AInv'
    BY <1>10, IdleAgrees
  <1>. QED BY <1>1, <1>2, <1>3, <1>4, <1>5, <1>6, <1>7, <1>8, <1>9, <1>10 DEF Next

LEMMA InitAgrees == Init => AInv
  <1>. SUFFICES ASSUME Init PROVE AInv
    OBVIOUS
  <1>1. \A c \in CPUs : GoodTLB(c, tlb[c])
    BY ConfigAssumption DEF Init, GoodTLB
  <1>2. EntryPids
    BY DEF Init, EntryPids, EmptyEntry
  <1>. QED BY <1>1, <1>2 DEF AInv

\* However many processes a CPU has run, of whatever size its TLB and whichever way it
\* chooses the victim, no TLB is over its size or has a page twice, and what it says of
\* a process in memory is where memoria has the page now, as long as no process is
\* suspended while a TLB knows it and none is interrupted while the cache has pages of
\* it.  The first is what AddEntryTLB and findFrame owe SuspendProcess and
\* UnSuspendProcess, which give the frames away; the second counts because a page that
\* an interrupted process leaves in a cache is written back, and translated, later.
THEOREM TLBsAgree ==
    ASSUME "suspendTranslated" \notin Hazards, "interruptCached" \notin Hazards
    PROVE  Spec => []TLBAgrees
  <1>1. Init => TInv /\ AInv
    BY InitTypes, InitAgrees
  <1>2. TInv /\ AInv /\ [Next]_vars => (TInv /\ AInv)'
    BY StepTypes, StepAgrees
  <1>3. TInv /\ AInv => TLBAgrees
    BY DEF AInv, GoodTLB, GoodEntry, TLBAgrees
  <1>. QED BY <1>1, <1>2, <1>3, PTL DEF Spec
=============================================================================
