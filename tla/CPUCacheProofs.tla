--------------------------- MODULE CPUCacheProofs ---------------------------
(***************************************************************************)
(* What a CPU keeps of a page: the number it counts up, the entry of its   *)
(* cache, the copy that is clean, and how far the hand goes for a place.   *)
(***************************************************************************)
EXTENDS CPUMemoryProofs, FiniteSetTheorems

-----------------------------------------------------------------------------
(* Pages and their indices *)

\* The walk of memoria over the digits of a page, level by level.
Walked(page) == CHOOSE walked : walked =
    [k \in 0 .. Levels |-> IF k = 0 THEN 0 ELSE walked[k - 1] * EntriesPerPage + page[k]]

LEMMA IndexIsWalked == \A page : PageIndex(page) = Walked(page)[Levels]
  BY DEF PageIndex, Walked

LEMMA DigitTypes ==
    ASSUME NEW page \in Page, NEW k \in 1 .. Levels
    PROVE  page[k] \in Nat /\ page[k] < EntriesPerPage
  BY SizesAssumption DEF Page

LEMMA WalkExists ==
    ASSUME NEW page \in Page
    PROVE  /\ Walked(page) \in [0 .. Levels -> Nat]
           /\ Walked(page)[0] = 0
           /\ \A k \in 1 .. Levels :
                 Walked(page)[k] = Walked(page)[k - 1] * EntriesPerPage + page[k]
  <1>. DEFINE Walks(n) == {w \in [0 .. n -> Nat] :
                 w[0] = 0 /\ \A k \in 1 .. n : w[k] = w[k - 1] * EntriesPerPage + page[k]}
              S == {n \in Nat : n <= Levels => Walks(n) # {}}
              Walk(w) == [k \in 0 .. Levels |->
                 IF k = 0 THEN 0 ELSE w[k - 1] * EntriesPerPage + page[k]]
  <1>1. 0 \in S
    <2>. DEFINE w == [k \in 0 .. 0 |-> 0]
    <2>1. w \in [0 .. 0 -> Nat] /\ w[0] = 0 /\ \A k \in 1 .. 0 : w[k] = w[k - 1] * EntriesPerPage + page[k]
      OBVIOUS
    <2>. HIDE DEF w
    <2>. QED BY <2>1
  <1>2. ASSUME NEW n \in Nat, n \in S
        PROVE  n + 1 \in S
    <2>1. CASE n + 1 <= Levels
      <3>1. PICK w \in Walks(n) : TRUE
        BY <1>2, <2>1, SizesAssumption
      <3>. DEFINE last == w[n] * EntriesPerPage + page[n + 1]
                  v == [k \in 0 .. n + 1 |-> IF k <= n THEN w[k] ELSE last]
      <3>2. /\ w \in [0 .. n -> Nat] /\ w[0] = 0
            /\ \A k \in 1 .. n : w[k] = w[k - 1] * EntriesPerPage + page[k]
        OBVIOUS
      <3>3. last \in Nat
        <4>1. page[n + 1] \in Nat
          BY <2>1, DigitTypes, SizesAssumption
        <4>2. w[n] \in Nat /\ EntriesPerPage \in Nat
          BY <3>2, SizesAssumption
        <4>. HIDE DEF Walks
        <4>. QED BY <4>1, <4>2
      <3>4. v \in [0 .. n + 1 -> Nat]
        <4>. HIDE DEF last
        <4>. QED BY <3>2, <3>3
      <3>5. v[0] = 0 /\ \A k \in 1 .. n + 1 : v[k] = v[k - 1] * EntriesPerPage + page[k]
        <4>1. v[0] = 0
          BY <3>2
        <4>2. \A k \in 1 .. n : v[k] = v[k - 1] * EntriesPerPage + page[k]
          <5>1. \A k \in 1 .. n : v[k] = w[k] /\ v[k - 1] = w[k - 1]
            <6>. HIDE DEF last
            <6>. QED OBVIOUS
          <5>. HIDE DEF v
          <5>. QED BY <3>2, <5>1
        <4>3. v[n + 1] = v[(n + 1) - 1] * EntriesPerPage + page[n + 1]
          <5>1. v[n + 1] = last /\ v[(n + 1) - 1] = w[n]
            <6>. HIDE DEF last
            <6>. QED OBVIOUS
          <5>. QED BY <5>1
        <4>4. \A k \in 1 .. n + 1 : k \in 1 .. n \/ k = n + 1
          OBVIOUS
        <4>. HIDE DEF v
        <4>. QED BY <4>1, <4>2, <4>3, <4>4
      <3>. HIDE DEF v
      <3>6. v \in Walks(n + 1)
        BY <3>4, <3>5
      <3>. HIDE DEF Walks
      <3>. QED BY <3>6
    <2>. QED BY <2>1
  <1>. HIDE DEF S
  <1>3. PICK w \in Walks(Levels) : TRUE
    <2>1. Levels \in S
      BY <1>1, <1>2, ByInduction, SizesAssumption
    <2>. HIDE DEF Walks
    <2>. QED BY <2>1, SizesAssumption DEF S
  <1>4. w = Walk(w)
    <2>1. ASSUME NEW k \in 0 .. Levels
          PROVE  w[k] = IF k = 0 THEN 0 ELSE w[k - 1] * EntriesPerPage + page[k]
      BY SizesAssumption
    <2>. QED BY <2>1
  <1>5. Walked(page) = CHOOSE v : v = Walk(v)
    BY DEF Walked
  <1>. HIDE DEF Walk
  <1>6. Walked(page) = Walk(Walked(page))
    BY <1>4, <1>5, Zenon
  <1>. DEFINE v == Walked(page)
  <1>7. v[0] = 0 /\ \A k \in 1 .. Levels : v[k] = v[k - 1] * EntriesPerPage + page[k]
    <2>1. \A k \in 0 .. Levels : v[k] = IF k = 0 THEN 0 ELSE v[k - 1] * EntriesPerPage + page[k]
      BY <1>6 DEF Walk
    <2>. HIDE DEF v
    <2>. QED BY <2>1, SizesAssumption
  <1>8. v \in [0 .. Levels -> Nat]
    <2>. DEFINE T == {k \in Nat : k <= Levels => v[k] \in Nat}
    <2>0. v = Walk(v)
      BY <1>6
    <2>. HIDE DEF v
    <2>1. 0 \in T
      BY <1>7
    <2>2. ASSUME NEW n \in Nat, n \in T
          PROVE  n + 1 \in T
      <3>1. CASE n + 1 <= Levels
        <4>1. page[n + 1] \in Nat /\ EntriesPerPage \in Nat /\ v[n] \in Nat
          BY <2>2, <3>1, DigitTypes, SizesAssumption
        <4>2. v[n + 1] = v[n] * EntriesPerPage + page[n + 1]
          BY <1>7, <3>1, SizesAssumption
        <4>. QED BY <4>1, <4>2
      <3>. QED BY <3>1
    <2>. HIDE DEF T
    <2>3. Nat \subseteq T
      BY <2>1, <2>2, ByInduction
    <2>4. \A k \in 0 .. Levels : v[k] \in Nat
      BY <2>3, SizesAssumption DEF T
    <2>. QED BY <2>0, <2>4 DEF Walk
  <1>. QED BY <1>7, <1>8

LEMMA IndexIsNat ==
    ASSUME NEW page \in Page
    PROVE  PageIndex(page) \in Nat
  <1>1. Walked(page) \in [0 .. Levels -> Nat] /\ Levels \in 0 .. Levels
    BY WalkExists, SizesAssumption
  <1>. QED BY <1>1, IndexIsWalked

LEMMA SameFunctions ==
    ASSUME NEW S, NEW T, NEW f \in [S -> T], NEW g \in [S -> T], \A x \in S : f[x] = g[x]
    PROVE  f = g
  OBVIOUS

LEMMA RemainderOfDigits ==
    ASSUME NEW a \in Nat, NEW b \in Nat, NEW e \in Nat \ {0},
           NEW x \in 0 .. e - 1, NEW y \in 0 .. e - 1, a * e + x = b * e + y
    PROVE  a = b /\ x = y
  OBVIOUS

\* Different pages have different indices: a digit is less than the number of entries.
LEMMA IndexIsInjective ==
    ASSUME NEW page \in Page, NEW other \in Page, PageIndex(page) = PageIndex(other)
    PROVE  page = other
  <1>. DEFINE v == Walked(page)
              w == Walked(other)
              n == Levels
              S == {k \in Nat : k <= n => /\ v[n - k] = w[n - k]
                                          /\ \A j \in n - k + 1 .. n : page[j] = other[j]}
  <1>1. /\ v \in [0 .. n -> Nat] /\ w \in [0 .. n -> Nat] /\ v[n] = w[n] /\ n \in Nat
        /\ \A k \in 1 .. n : /\ v[k] = v[k - 1] * EntriesPerPage + page[k]
                             /\ w[k] = w[k - 1] * EntriesPerPage + other[k]
    BY WalkExists, IndexIsWalked, SizesAssumption
  <1>. HIDE DEF v, w, n
  <1>2. 0 \in S
    BY <1>1
  <1>3. ASSUME NEW k \in Nat, k \in S
        PROVE  k + 1 \in S
    <2>1. CASE k + 1 <= n
      <3>. DEFINE i == n - k
      <3>1. i \in 1 .. n /\ i - 1 \in 0 .. n /\ n - (k + 1) = i - 1 /\ n - (k + 1) + 1 = i
        BY <1>1, <2>1
      <3>2. v[i] = w[i] /\ \A j \in i + 1 .. n : page[j] = other[j]
        BY <1>1, <1>3, <2>1
      <3>. HIDE DEF i
      <3>3. /\ v[i - 1] \in Nat /\ w[i - 1] \in Nat
            /\ page[i] \in 0 .. EntriesPerPage - 1 /\ other[i] \in 0 .. EntriesPerPage - 1
            /\ v[i - 1] * EntriesPerPage + page[i] = w[i - 1] * EntriesPerPage + other[i]
        BY <1>1, <3>1, <3>2, SizesAssumption DEF Page, n
      <3>5. v[i - 1] = w[i - 1] /\ page[i] = other[i]
        <4>. DEFINE a == v[i - 1]
                    b == w[i - 1]
                    e == EntriesPerPage
                    x == page[i]
                    y == other[i]
        <4>1. /\ a \in Nat /\ b \in Nat /\ e \in Nat \ {0} /\ x \in 0 .. e - 1 /\ y \in 0 .. e - 1
              /\ a * e + x = b * e + y
          BY <3>3, SizesAssumption
        <4>. HIDE DEF a, b, e, x, y
        <4>2. a = b /\ x = y
          BY <4>1, RemainderOfDigits
        <4>. QED BY <4>2 DEF a, b, x, y
      <3>6. \A j \in i .. n : page[j] = other[j]
        <4>1. \A j \in i .. n : j = i \/ j \in i + 1 .. n
          BY <1>1, <3>1
        <4>. QED BY <3>2, <3>5, <4>1
      <3>. QED BY <3>1, <3>5, <3>6
    <2>. QED BY <2>1
  <1>. HIDE DEF S
  <1>4. n \in S
    BY <1>1, <1>2, <1>3, ByInduction
  <1>5. \A j \in 1 .. n : page[j] = other[j]
    BY <1>1, <1>4 DEF S
  <1>. DEFINE D == 1 .. n
              T == 0 .. EntriesPerPage - 1
  <1>6. page \in [D -> T] /\ other \in [D -> T] /\ \A j \in D : page[j] = other[j]
    BY <1>5 DEF Page, n
  <1>. HIDE DEF D, T
  <1>. QED BY <1>6, SameFunctions

\* sum counts: the carry adds one to the walk where it arrives and to no level before.
LEMMA SumCounts ==
    ASSUME NEW page \in Page, page # LastPage
    PROVE  PageIndex(sum(page)) = PageIndex(page) + 1
  <1>. DEFINE v == Walked(page)
              w == Walked(sum(page))
              n == Levels
              Carry(k) == \A j \in k + 1 .. n : page[j] = EntriesPerPage - 1
              S == {k \in Nat : k <= n => w[k] = IF Carry(k) THEN v[k] + 1 ELSE v[k]}
  <1>1. /\ v \in [0 .. n -> Nat] /\ w \in [0 .. n -> Nat] /\ n \in Nat \ {0}
        /\ v[0] = 0 /\ w[0] = 0 /\ EntriesPerPage \in Nat \ {0}
        /\ \A k \in 1 .. n : /\ v[k] = v[k - 1] * EntriesPerPage + page[k]
                             /\ w[k] = w[k - 1] * EntriesPerPage + sum(page)[k]
    BY WalkExists, SumIsPage, SizesAssumption
  <1>2. \A k \in 1 .. n : sum(page)[k] = IF Carry(k) THEN (page[k] + 1) % EntriesPerPage ELSE page[k]
    BY DEF sum
  <1>3. \A k \in 1 .. n : page[k] \in 0 .. EntriesPerPage - 1
    BY DEF Page
  <1>4. ~Carry(0)
    <2>1. SUFFICES ASSUME Carry(0) PROVE FALSE
      OBVIOUS
    <2>2. \A j \in 1 .. n : page[j] = EntriesPerPage - 1
      BY <2>1
    <2>3. page = LastPage
      BY <2>2 DEF Page, LastPage
    <2>. QED BY <2>3
  <1>. HIDE DEF v, w
  <1>5. 0 \in S
    BY <1>1, <1>4
  <1>6. ASSUME NEW i \in Nat, i \in S
        PROVE  i + 1 \in S
    <2>1. CASE i + 1 <= n
      <3>. DEFINE k == i + 1
                  e == EntriesPerPage
      <3>1. k \in 1 .. n /\ k - 1 = i /\ i \in 0 .. n /\ k \in 0 .. n
        BY <1>1, <2>1
      <3>2. /\ v[i] \in Nat /\ w[i] \in Nat /\ page[k] \in 0 .. e - 1 /\ e \in Nat \ {0}
            /\ v[k] = v[i] * e + page[k] /\ w[k] = w[i] * e + sum(page)[k]
        BY <1>1, <1>3, <3>1
      <3>3. w[i] = IF Carry(i) THEN v[i] + 1 ELSE v[i]
        BY <1>1, <1>6, <2>1
      <3>4. Carry(i) <=> Carry(k) /\ page[k] = e - 1
        <4>1. k \in i + 1 .. n
          BY <1>1, <3>1
        <4>2. \A j \in i + 1 .. n : j = k \/ j \in k + 1 .. n
          BY <1>1, <3>1
        <4>3. \A j \in k + 1 .. n : j \in i + 1 .. n
          BY <1>1, <3>1
        <4>. QED BY <4>1, <4>2, <4>3
      <3>5. sum(page)[k] = IF Carry(k) THEN (page[k] + 1) % e ELSE page[k]
        BY <1>2, <3>1
      <3>6. w[k] = IF Carry(k) THEN v[k] + 1 ELSE v[k]
        <4>. HIDE DEF Carry, n, k
        <4>1. CASE ~Carry(k)
          BY <3>2, <3>3, <3>4, <3>5, <4>1
        <4>2. CASE Carry(k) /\ page[k] # e - 1
          <5>1. (page[k] + 1) % e = page[k] + 1
            BY <3>2, <4>2
          <5>2. sum(page)[k] = page[k] + 1 /\ w[i] = v[i]
            BY <3>3, <3>4, <3>5, <4>2, <5>1
          <5>. QED BY <3>2, <4>2, <5>2
        <4>3. CASE Carry(k) /\ page[k] = e - 1
          <5>1. (page[k] + 1) % e = 0
            BY <3>2, <4>3
          <5>2. sum(page)[k] = 0 /\ w[i] = v[i] + 1
            BY <3>3, <3>4, <3>5, <4>3, <5>1
          <5>3. (v[i] + 1) * e = v[i] * e + e
            BY <3>2
          <5>. QED BY <3>2, <4>3, <5>2, <5>3
        <4>. QED BY <4>1, <4>2, <4>3
      <3>. QED BY <3>1, <3>6
    <2>. QED BY <2>1
  <1>. HIDE DEF S
  <1>7. n \in S
    BY <1>1, <1>5, <1>6, ByInduction
  <1>8. Carry(n)
    BY <1>1
  <1>9. w[n] = v[n] + 1
    BY <1>1, <1>7, <1>8 DEF S
  <1>. QED BY <1>9, IndexIsWalked DEF v, w, n

LEMMA DigitsCount ==
    ASSUME NEW n \in Nat, n <= PageIndex(LastPage)
    PROVE  PageIndex(FromIntToLogicalAddres[n]) = n
  <1>. DEFINE digits == FromIntToLogicalAddres
              S == {k \in Nat : k <= PageIndex(LastPage) => PageIndex(digits[k]) = k}
  <1>1. 0 \in S
    <2>. DEFINE zero == [k \in 1 .. Levels |-> 0]
                w == Walked(zero)
                T == {k \in Nat : k <= Levels => w[k] = 0}
    <2>1. zero \in Page /\ \A k \in 1 .. Levels : zero[k] = 0
      BY SizesAssumption DEF Page
    <2>2. digits[0] = zero
      BY DigitsExist
    <2>. HIDE DEF zero
    <2>3. w[0] = 0 /\ \A k \in 1 .. Levels : w[k] = w[k - 1] * EntriesPerPage + zero[k]
      BY <2>1, WalkExists
    <2>. HIDE DEF w
    <2>4. 0 \in T
      BY <2>3
    <2>5. ASSUME NEW k \in Nat, k \in T
          PROVE  k + 1 \in T
      <3>1. k + 1 <= Levels => w[k + 1] = w[k] * EntriesPerPage + 0
        BY <2>1, <2>3, SizesAssumption
      <3>. QED BY <2>5, <3>1, SizesAssumption
    <2>. HIDE DEF T
    <2>6. Levels \in T
      BY <2>4, <2>5, ByInduction, SizesAssumption
    <2>7. w[Levels] = 0
      BY <2>6, SizesAssumption DEF T
    <2>. QED BY <2>2, <2>7, IndexIsWalked DEF w
  <1>2. ASSUME NEW k \in Nat, k \in S
        PROVE  k + 1 \in S
    <2>1. LastPage \in Page
      BY SizesAssumption DEF LastPage, Page
    <2>2. PageIndex(LastPage) \in Nat
      BY <2>1, IndexIsNat
    <2>3. CASE k + 1 <= PageIndex(LastPage)
      <3>1. PageIndex(digits[k]) = k /\ k # PageIndex(LastPage)
        BY <1>2, <2>2, <2>3
      <3>2. digits[k] \in Page /\ digits[k] # LastPage
        BY <3>1, DigitsArePages
      <3>3. k + 1 \in Nat /\ k + 1 # 0 /\ (k + 1) - 1 = k
        OBVIOUS
      <3>4. digits[k + 1] = sum(digits[k])
        BY <3>3, DigitsExist
      <3>. QED BY <3>1, <3>2, <3>4, SumCounts
    <2>. QED BY <2>3
  <1>. HIDE DEF S
  <1>3. n \in S
    BY <1>1, <1>2, ByInduction
  <1>. QED BY <1>3 DEF S

-----------------------------------------------------------------------------
(* The page under way is that of the address *)

\* The number of the page is counted up with the bytes that are done, which end where
\* a page does.
Counted == \A c \in CPUs : job[c].page # NoPage =>
    /\ PageIndex(job[c].page) = (doing[c].addr + job[c].done) \div PageSize
    /\ job[c].done = 0 \/ (doing[c].addr + job[c].done) % PageSize = 0

\* What a step does to the instruction of a CPU.
KeepsJob(c) == /\ doing'[c] = doing[c]
               /\ job'[c].page = job[c].page /\ job'[c].done = job[c].done
NextPage(c) == /\ at[c] \in Active /\ job[c].done + Chunk(c) # doing[c].size
               /\ doing'[c] = doing[c]
               /\ job'[c] = PageJob(job[c].done + Chunk(c), sum(job[c].page))

LEMMA EndsJob ==
    ASSUME TInv, NEW c \in CPUs, NEW step, Ends(c, step)
    PROVE  job'[c] = NoJob
  BY DEF Ends, TInv, TypeOK

LEMMA AdvancesJob ==
    ASSUME TInv, NEW c \in CPUs, at[c] \in Active, Advances(c)
    PROVE  job'[c] = NoJob \/ NextPage(c)
  BY EndsJob DEF Advances, NextPage, TInv, TypeOK

LEMMA FieldsKept ==
    ASSUME TInv, NEW c \in CPUs, NEW x, UNCHANGED doing,
           \/ job' = [job EXCEPT ![c].frame = x]
           \/ job' = [job EXCEPT ![c].buffer = x]
           \/ job' = [job EXCEPT ![c].examined = x]
           \/ job' = [job EXCEPT ![c] = PageJob(job[c].done, job[c].page)]
    PROVE  KeepsJob(c)
  <1>1. job \in [CPUs -> Job] /\ job[c] \in Job
    BY DEF TInv, TypeOK
  <1>. QED BY <1>1 DEF KeepsJob, Job, PageJob

LEMMA JobMoves ==
    ASSUME TInv, [Next]_vars, NEW c \in CPUs
    PROVE  \/ KeepsJob(c) \/ job'[c] = NoJob \/ NextPage(c)
           \/ \E p \in Procs : \E r \in Requests[p] : Begins(c, p, r)
  <1>0. CASE UNCHANGED <<doing, job>>
    BY <1>0 DEF KeepsJob
  <1>1. ASSUME NEW d \in CPUs \ {c}, doing'[c] = doing[c] /\ job'[c] = job[c]
        PROVE  KeepsJob(c)
    BY <1>1 DEF KeepsJob
  <1>2. CASE UNCHANGED vars
    BY <1>0, <1>2 DEF vars
  <1>3. ASSUME NEW d \in CPUs, NEW p \in Procs, NEW r \in Requests[p], Begins(d, p, r)
        PROVE  KeepsJob(c) \/ Begins(c, p, r)
    BY <1>1, <1>3 DEF Begins, TInv, TypeOK
  <1>4. ASSUME NEW d \in CPUs, NEW step, Ends(d, step)
        PROVE  KeepsJob(c) \/ job'[c] = NoJob
    BY <1>1, <1>4, EndsJob DEF Ends, TInv, TypeOK
  <1>5. ASSUME NEW d \in CPUs, NEW x, UNCHANGED doing,
               \/ job' = [job EXCEPT ![d].frame = x]
               \/ job' = [job EXCEPT ![d].buffer = x]
               \/ job' = [job EXCEPT ![d].examined = x]
               \/ job' = [job EXCEPT ![d] = PageJob(job[d].done, job[d].page)]
        PROVE  KeepsJob(c)
    <2>1. CASE d = c
      BY <1>5, <2>1, FieldsKept
    <2>2. CASE d # c
      BY <1>1, <1>5, <2>2 DEF TInv, TypeOK
    <2>. QED BY <2>1, <2>2
  <1>6. ASSUME NEW d \in CPUs, at[d] \in Active, Advances(d)
        PROVE  KeepsJob(c) \/ job'[c] = NoJob \/ NextPage(c)
    <2>1. CASE d = c
      BY <1>6, <2>1, AdvancesJob
    <2>2. CASE d # c
      BY <1>1, <1>6, <2>2, AdvancesTypes
    <2>. QED BY <2>1, <2>2
  <1>7. ASSUME NEW d \in CPUs, Translates(d)
        PROVE  KeepsJob(c) \/ job'[c] = NoJob
    BY <1>4, <1>5, <1>7, Zenon DEF Translates, Fails
  <1>8. ASSUME NEW d \in CPUs, Gets(d)
        PROVE  KeepsJob(c) \/ job'[c] = NoJob
    BY <1>4, <1>5, <1>8, Zenon DEF Gets, Fails
  <1>9. ASSUME NEW d \in CPUs, Scans(d)
        PROVE  KeepsJob(c)
    BY <1>5, <1>9, Zenon DEF Scans
  <1>10. ASSUME NEW d \in CPUs,
                WritesCache(d) \/ WritesThrough(d) \/ ReadsCache(d) \/ ReadsThrough(d)
         PROVE  KeepsJob(c) \/ job'[c] = NoJob \/ NextPage(c)
    <2>1. at[d] \in Active
      BY <1>10 DEF WritesCache, WritesThrough, ReadsCache, ReadsThrough, Active
    <2>2. Advances(d) \/ \E step : Ends(d, step)
      BY <1>10, Zenon DEF WritesCache, WritesThrough, ReadsCache, ReadsThrough
    <2>. QED BY <1>4, <1>6, <2>1, <2>2
  <1>11. ASSUME NEW d \in CPUs, Flushes(d) \/ Syscalls(d) \/ Exits(d) \/ Interrupted(d)
         PROVE  UNCHANGED <<doing, job>>
    BY <1>11 DEF Flushes, Syscalls, Exits, Interrupted, LeavesFor
  <1>12. ASSUME NEW d \in CPUs, NEW p \in Procs, Dispatches(d, p)
         PROVE  UNCHANGED <<doing, job>>
    BY <1>12 DEF Dispatches
  <1>13. ASSUME NEW p \in Procs, Admits(p) \/ Unblocks(p) \/ Suspends(p) \/ Returns(p)
         PROVE  UNCHANGED <<doing, job>>
    BY <1>13 DEF Admits, Unblocks, Suspends, Returns
  <1>. QED
    BY <1>0, <1>2, <1>3, <1>7, <1>8, <1>9, <1>10, <1>11, <1>12, <1>13 DEF Next

LEMMA Divided ==
    ASSUME NEW a \in Nat, NEW n \in Nat \ {0}
    PROVE  a \div n \in Nat /\ a % n \in 0 .. n - 1 /\ a = n * (a \div n) + (a % n)
  OBVIOUS

LEMMA DivideBelow ==
    ASSUME NEW a \in Nat, NEW n \in Nat \ {0}, NEW b \in Nat, a < n * b
    PROVE  a \div n < b
  <1>. DEFINE q == a \div n
  <1>1. q \in Nat /\ n * q <= a
    BY Divided
  <1>. HIDE DEF q
  <1>2. CASE q >= b
    <2>1. n * q >= n * b
      BY <1>1, <1>2
    <2>. QED BY <1>1, <2>1
  <1>. QED BY <1>1, <1>2

LEMMA DivideExactly ==
    ASSUME NEW n \in Nat \ {0}, NEW q \in Nat
    PROVE  (n * q) \div n = q /\ (n * q) % n = 0
  OBVIOUS

\* The end of a page is where the next one begins.
LEMMA PageEnds ==
    ASSUME NEW a \in Nat, NEW n \in Nat \ {0}
    PROVE  /\ (a + (n - (a % n))) \div n = a \div n + 1
           /\ (a + (n - (a % n))) % n = 0
  <1>. DEFINE q == a \div n
              r == a % n
  <1>1. q \in Nat /\ r \in 0 .. n - 1 /\ a = n * q + r
    BY Divided
  <1>. HIDE DEF q, r
  <1>2. a + (n - r) = n * (q + 1) /\ q + 1 \in Nat
    BY <1>1
  <1>3. (a + (n - r)) \div n = q + 1 /\ (a + (n - r)) % n = 0
    BY <1>2, DivideExactly
  <1>. QED BY <1>3 DEF q, r

LEMMA PageIsAPage == NoPage \notin Page
  BY SizesAssumption DEF NoPage, Page

LEMMA LastPageIsAPage == LastPage \in Page /\ PageIndex(LastPage) \in Nat
  <1>1. LastPage \in Page
    BY SizesAssumption DEF LastPage, Page
  <1>. QED BY <1>1, IndexIsNat

\* What the script may ask for.
LEMMA RequestTypes ==
    ASSUME NEW p \in Procs, NEW r \in Requests[p]
    PROVE  /\ r.addr \in Nat /\ r.size \in Nat \ {0} /\ r.kind \in {"read", "write"}
           /\ r.addr + r.size <= PageSize * (PageIndex(LastPage) + 1)
  <1>1. /\ r.addr \in Nat /\ r.size \in Nat \ {0} /\ r.kind \in {"read", "write"}
        /\ r.addr + r.size - 1 <= LastAddress
    BY RequestsAssumption
  <1>. DEFINE top == PageSize * (PageIndex(LastPage) + 1)
  <1>2. top \in Nat /\ LastAddress = top - 1
    BY LastPageIsAPage, SizesAssumption DEF LastAddress
  <1>. HIDE DEF top
  <1>. QED BY <1>1, <1>2 DEF top

\* The bytes of a page that are left: those up to its end, or up to the end of the request.
LEMMA ChunkOfPage ==
    ASSUME TInv, Counted, NEW c \in CPUs, at[c] \in Active
    PROVE  /\ doing[c].addr + job[c].done \in Nat
           /\ Delta(c) = (doing[c].addr + job[c].done) % PageSize
           /\ Chunk(c) = doing[c].size - job[c].done \/ Chunk(c) = PageSize - Delta(c)
           /\ PageIndex(job[c].page) = (doing[c].addr + job[c].done) \div PageSize
  <1>1. cpu[c] \in Procs /\ doing[c] \in Requests[cpu[c]] /\ job[c].page \in Page
        /\ job[c] \in Job
    BY ActiveFacts
  <1>2. doing[c].addr \in Nat /\ doing[c].size \in Nat
    BY <1>1, RequestTypes
  <1>3. job[c].done \in Nat /\ job[c].done < doing[c].size
    BY <1>1 DEF Job, TInv, RunsOne
  <1>4. /\ PageIndex(job[c].page) = (doing[c].addr + job[c].done) \div PageSize
        /\ job[c].done = 0 \/ (doing[c].addr + job[c].done) % PageSize = 0
    BY <1>1, PageIsAPage DEF Counted
  <1>5. Delta(c) = (doing[c].addr + job[c].done) % PageSize
    BY <1>2, <1>3, <1>4 DEF Delta
  <1>6. Delta(c) \in 0 .. PageSize - 1
    BY ActiveFacts
  <1>. DEFINE S == {doing[c].size - job[c].done, PageSize - Delta(c)}
  <1>7. S \subseteq Nat /\ S # {}
    BY <1>2, <1>3, <1>6, SizesAssumption
  <1>8. Chunk(c) \in S
    BY <1>7, LeastIsLeast DEF Chunk
  <1>. QED BY <1>2, <1>3, <1>4, <1>5, <1>8

LEMMA NextPageCounts ==
    ASSUME TInv, Counted, NEW c \in CPUs, NextPage(c)
    PROVE  /\ PageIndex(job'[c].page) = (doing'[c].addr + job'[c].done) \div PageSize
           /\ (doing'[c].addr + job'[c].done) % PageSize = 0
           /\ PageIndex(job'[c].page) = PageIndex(job[c].page) + 1
  <1>. DEFINE a == doing[c].addr + job[c].done
              done == job[c].done + Chunk(c)
              last == PageIndex(LastPage)
  <1>1. at[c] \in Active /\ doing'[c] = doing[c] /\ job'[c] = PageJob(done, sum(job[c].page))
        /\ done # doing[c].size
    BY DEF NextPage
  <1>2. /\ cpu[c] \in Procs /\ doing[c] \in Requests[cpu[c]] /\ job[c].page \in Page
        /\ job[c] \in Job /\ Chunk(c) \in Nat /\ done <= doing[c].size
    BY <1>1, ActiveFacts
  <1>3. /\ doing[c].addr \in Nat /\ doing[c].size \in Nat /\ last \in Nat
        /\ doing[c].addr + doing[c].size <= PageSize * (last + 1)
    BY <1>2, RequestTypes, LastPageIsAPage
  <1>4. /\ a \in Nat /\ Delta(c) = a % PageSize /\ PageIndex(job[c].page) = a \div PageSize
        /\ Chunk(c) = doing[c].size - job[c].done \/ Chunk(c) = PageSize - Delta(c)
    BY <1>1, ChunkOfPage
  <1>5. job[c].done \in Nat
    BY <1>2 DEF Job
  <1>6. done \in Nat /\ done < doing[c].size /\ Chunk(c) = PageSize - Delta(c)
    BY <1>1, <1>2, <1>3, <1>4, <1>5
  <1>7. doing[c].addr + done = a + (PageSize - (a % PageSize))
    BY <1>3, <1>4, <1>5, <1>6, SizesAssumption
  <1>8. /\ (doing[c].addr + done) \div PageSize = (a \div PageSize) + 1
        /\ (doing[c].addr + done) % PageSize = 0
    BY <1>4, <1>7, PageEnds, SizesAssumption
  <1>9. job[c].page # LastPage
    <2>1. doing[c].addr + done < PageSize * (last + 1)
      <3>. DEFINE top == PageSize * (last + 1)
      <3>1. top \in Nat /\ doing[c].addr + doing[c].size <= top
        BY <1>3, SizesAssumption
      <3>. HIDE DEF top, done, last
      <3>. QED BY <1>3, <1>6, <3>1 DEF top
    <2>2. doing[c].addr + done \in Nat /\ last + 1 \in Nat /\ PageSize \in Nat \ {0}
      BY <1>3, <1>6, SizesAssumption
    <2>. HIDE DEF done, last
    <2>3. (doing[c].addr + done) \div PageSize < last + 1
      BY <2>1, <2>2, DivideBelow
    <2>4. a \div PageSize \in Nat
      BY <1>2, <1>4, IndexIsNat
    <2>5. a \div PageSize # last
      BY <1>3, <1>8, <2>3, <2>4
    <2>. QED BY <1>4, <2>5 DEF last
  <1>10. job'[c].page = sum(job[c].page) /\ job'[c].done = done
    BY <1>1 DEF PageJob
  <1>11. PageIndex(sum(job[c].page)) = PageIndex(job[c].page) + 1
    BY <1>2, <1>9, SumCounts
  <1>. HIDE DEF a, done
  <1>. QED BY <1>1, <1>4, <1>8, <1>10, <1>11

LEMMA BeginsCounted ==
    ASSUME TInv, NEW c \in CPUs, NEW p \in Procs, NEW r \in Requests[p], Begins(c, p, r)
    PROVE  /\ PageIndex(job'[c].page) = (doing'[c].addr + job'[c].done) \div PageSize
           /\ job'[c].done = 0 /\ doing'[c] = r
  <1>. DEFINE n == r.addr \div PageSize
  <1>1. doing'[c] = r /\ job'[c] = PageJob(0, FromIntToLogicalAddres[n])
    BY DEF Begins, TInv, TypeOK
  <1>2. /\ r.addr \in Nat /\ r.size \in Nat \ {0} /\ PageIndex(LastPage) \in Nat
        /\ r.addr + r.size <= PageSize * (PageIndex(LastPage) + 1)
    BY RequestTypes, LastPageIsAPage
  <1>3. r.addr < PageSize * (PageIndex(LastPage) + 1)
    <2>. DEFINE top == PageSize * (PageIndex(LastPage) + 1)
    <2>1. top \in Nat /\ r.addr + r.size <= top
      BY <1>2, SizesAssumption
    <2>. HIDE DEF top
    <2>. QED BY <1>2, <2>1 DEF top
  <1>4. n < PageIndex(LastPage) + 1 /\ n \in Nat
    <2>. DEFINE m == PageIndex(LastPage) + 1
    <2>1. m \in Nat /\ PageSize \in Nat \ {0} /\ r.addr < PageSize * m
      BY <1>2, <1>3, SizesAssumption
    <2>. HIDE DEF m
    <2>2. n < m /\ n \in Nat
      BY <1>2, <2>1, DivideBelow, Divided
    <2>. QED BY <2>2 DEF m
  <1>. HIDE DEF n
  <1>5. PageIndex(FromIntToLogicalAddres[n]) = n
    BY <1>2, <1>4, DigitsCount
  <1>6. job'[c].page = FromIntToLogicalAddres[n] /\ job'[c].done = 0
    BY <1>1 DEF PageJob
  <1>. QED BY <1>1, <1>2, <1>5, <1>6 DEF n

LEMMA StepCounts == TInv /\ Counted /\ [Next]_vars => Counted'
  <1>. SUFFICES ASSUME TInv, Counted, [Next]_vars, NEW c \in CPUs, job'[c].page # NoPage
                PROVE  /\ PageIndex(job'[c].page) = (doing'[c].addr + job'[c].done) \div PageSize
                       /\ job'[c].done = 0 \/ (doing'[c].addr + job'[c].done) % PageSize = 0
    BY DEF Counted
  <1>1. CASE KeepsJob(c)
    BY <1>1 DEF KeepsJob, Counted
  <1>2. CASE job'[c] = NoJob
    BY <1>2 DEF NoJob, PageJob
  <1>3. CASE NextPage(c)
    BY <1>3, NextPageCounts
  <1>4. CASE \E p \in Procs : \E r \in Requests[p] : Begins(c, p, r)
    BY <1>4, BeginsCounted
  <1>. QED BY <1>1, <1>2, <1>3, <1>4, JobMoves

LEMMA CountedInvariance == Spec => [](TInv /\ Counted)
  <1>1. Init => TInv
    BY InitTypes
  <1>2. Init => Counted
    BY DEF Init, Counted, NoJob, PageJob
  <1>. QED BY <1>1, <1>2, StepTypes, StepCounts, PTL DEF Spec

\* Wherever an instruction begins and however many pages it goes over, the digits that the
\* CPU counts up name to memoria's tables the page of the address that is due: the carry of
\* sum, which knows no page sizes, and the walk of LogicAddressToFrame, which knows no
\* addresses, agree (FromIntToLogicalAddres, NextPageMMU, LogicAddressToFrame).
THEOREM DigitsNameTheAddress == Spec => []DigitsOfAddress
  <1>1. TInv /\ Counted => DigitsOfAddress
    BY DEF Counted, DigitsOfAddress
  <1>. QED BY <1>1, CountedInvariance, PTL

-----------------------------------------------------------------------------
(* Whose step it is *)

CPUStep(c) ==
    \/ \E p \in Procs : \E r \in Requests[p] : Begins(c, p, r)
    \/ Translates(c) \/ Gets(c) \/ Scans(c)
    \/ WritesCache(c) \/ WritesThrough(c) \/ ReadsCache(c) \/ ReadsThrough(c)
    \/ Flushes(c) \/ Syscalls(c) \/ Exits(c) \/ Interrupted(c)
    \/ \E p \in Procs : Dispatches(c, p)
ProcStep(p) == Admits(p) \/ Unblocks(p) \/ Suspends(p) \/ Returns(p)

LEMMA StepsOfWhom == Next => (\E c \in CPUs : CPUStep(c)) \/ \E p \in Procs : ProcStep(p)
  BY DEF Next, CPUStep, ProcStep

\* What c keeps for itself.
Own(c) == <<cpu[c], at[c], doing[c], job[c], tlb[c], cache[c]>>

LEMMA TraducirStays ==
    ASSUME TInv, NEW c \in CPUs, NEW d \in CPUs \ {c}, NEW p, NEW page, Traducir(d, p, page)
    PROVE  tlb'[c] = tlb[c]
  BY DEF Traducir, TInv, TypeOK

LEMMA EndsStays ==
    ASSUME TInv, NEW c \in CPUs, NEW d \in CPUs \ {c}, NEW step, Ends(d, step)
    PROVE  at'[c] = at[c] /\ doing'[c] = doing[c] /\ job'[c] = job[c]
  BY DEF Ends, Goes, TInv, TypeOK

LEMMA GoesStays ==
    ASSUME TInv, NEW c \in CPUs, NEW d \in CPUs \ {c}, NEW step, Goes(d, step)
    PROVE  at'[c] = at[c]
  BY DEF Goes, TInv, TypeOK

LEMMA AdvancesStays ==
    ASSUME TInv, NEW c \in CPUs, NEW d \in CPUs \ {c}, Advances(d)
    PROVE  at'[c] = at[c] /\ doing'[c] = doing[c] /\ job'[c] = job[c]
  BY EndsStays, GoesStays DEF Advances, TInv, TypeOK

LEMMA FailsStays ==
    ASSUME TInv, NEW c \in CPUs, NEW d \in CPUs \ {c}, NEW mayExit, Fails(d, mayExit)
    PROVE  at'[c] = at[c] /\ doing'[c] = doing[c] /\ job'[c] = job[c]
  BY EndsStays DEF Fails

LEMMA EntriesStay ==
    ASSUME TInv, NEW c \in CPUs, NEW d \in CPUs \ {c}, NEW i, NEW x,
           \/ cache' = [cache EXCEPT ![d] = x]
           \/ cache' = [cache EXCEPT ![d][i] = x]
           \/ cache' = [cache EXCEPT ![d][i].use = x]
    PROVE  cache'[c] = cache[c]
  BY DEF TInv, TypeOK

LEMMA OthersKeep ==
    ASSUME TInv, NEW c \in CPUs, NEW d \in CPUs \ {c}, CPUStep(d)
    PROVE  UNCHANGED Own(c)
  <1>1. CASE \E p \in Procs : \E r \in Requests[p] : Begins(d, p, r)
    BY <1>1 DEF Begins, Goes, Own, TInv, TypeOK
  <1>2. CASE Translates(d)
    <2>1. cpu'[c] = cpu[c] /\ cache'[c] = cache[c] /\ tlb'[c] = tlb[c]
      BY <1>2, TraducirStays DEF Translates
    <2>2. at'[c] = at[c] /\ doing'[c] = doing[c] /\ job'[c] = job[c]
      <3>1. CASE Found(d, cpu[d], job[d].page)
        BY <1>2, <3>1, GoesStays DEF Translates, TInv, TypeOK
      <3>2. CASE ~Found(d, cpu[d], job[d].page)
        BY <1>2, <3>2, FailsStays DEF Translates
      <3>. QED BY <3>1, <3>2
    <2>. QED BY <2>1, <2>2 DEF Own
  <1>3. CASE Gets(d)
    <2>1. cpu'[c] = cpu[c] /\ cache'[c] = cache[c] /\ tlb'[c] = tlb[c]
      BY <1>3 DEF Gets
    <2>2. at'[c] = at[c] /\ doing'[c] = doing[c] /\ job'[c] = job[c]
      <3>1. CASE /\ \E x : job' = [job EXCEPT ![d].buffer = x]
                 /\ \E step : Goes(d, step)
                 /\ UNCHANGED doing
        BY <3>1, GoesStays DEF TInv, TypeOK
      <3>2. CASE \E mayExit : Fails(d, mayExit)
        BY <3>2, FailsStays
      <3>. QED BY <1>3, <3>1, <3>2, Zenon DEF Gets
    <2>. QED BY <2>1, <2>2 DEF Own
  <1>4. CASE Scans(d)
    <2>1. cpu'[c] = cpu[c] /\ doing'[c] = doing[c]
      BY <1>4 DEF Scans
    <2>2. cache'[c] = cache[c] /\ job'[c] = job[c]
      <3>1. \E x : cache' = [cache EXCEPT ![d] = x]
        BY <1>4, Zenon DEF Scans
      <3>2. \/ job' = [job EXCEPT ![d] = PageJob(job[d].done, job[d].page)]
            \/ job' = [job EXCEPT ![d].examined = @ + 1]
        BY <1>4, Zenon DEF Scans
      <3>. QED BY <3>1, <3>2 DEF TInv, TypeOK
    <2>3. at'[c] = at[c] /\ tlb'[c] = tlb[c]
      BY <1>4, GoesStays, TraducirStays, Zenon DEF Scans, SavePageInMemory
    <2>. QED BY <2>1, <2>2, <2>3 DEF Own
  <1>5. CASE WritesCache(d) \/ WritesThrough(d) \/ ReadsCache(d) \/ ReadsThrough(d)
    <2>1. cpu'[c] = cpu[c]
      BY <1>5 DEF WritesCache, WritesThrough, ReadsCache, ReadsThrough
    <2>2. cache'[c] = cache[c]
      <3>1. \/ UNCHANGED cache
            \/ \E i, x : \/ cache' = [cache EXCEPT ![d][i] = x]
                        \/ cache' = [cache EXCEPT ![d][i].use = x]
        BY <1>5, Zenon DEF WritesCache, WritesThrough, ReadsCache, ReadsThrough
      <3>. QED BY <3>1, EntriesStay
    <2>3. tlb'[c] = tlb[c]
      <3>1. \/ UNCHANGED tlb \/ \E p, page : Traducir(d, p, page)
            \/ \E x : tlb' = [tlb EXCEPT ![d] = x]
        BY <1>5, Zenon
           DEF WritesCache, WritesThrough, ReadsCache, ReadsThrough, SavePageInMemory
      <3>. QED BY <3>1, TraducirStays DEF TInv, TypeOK
    <2>4. at'[c] = at[c] /\ doing'[c] = doing[c] /\ job'[c] = job[c]
      BY <1>5, EndsStays, AdvancesStays, Zenon
         DEF WritesCache, WritesThrough, ReadsCache, ReadsThrough
    <2>. QED BY <2>1, <2>2, <2>3, <2>4 DEF Own
  <1>6. CASE Flushes(d)
    <2>1. cpu'[c] = cpu[c] /\ doing'[c] = doing[c] /\ job'[c] = job[c]
      BY <1>6 DEF Flushes
    <2>2. cache'[c] = cache[c]
      BY <1>6, EntriesStay, Zenon DEF Flushes
    <2>3. at'[c] = at[c] /\ tlb'[c] = tlb[c]
      BY <1>6, GoesStays, TraducirStays, Zenon DEF Flushes, SavePageInMemory
    <2>. QED BY <2>1, <2>2, <2>3 DEF Own
  <1>7. CASE Syscalls(d) \/ Exits(d) \/ Interrupted(d)
    <2>1. \E where : LeavesFor(d, where)
      BY <1>7 DEF Syscalls, Exits, Interrupted
    <2>. QED BY <2>1, GoesStays DEF LeavesFor, Own, TInv, TypeOK
  <1>8. CASE \E p \in Procs : Dispatches(d, p)
    BY <1>8 DEF Dispatches, Own, TInv, TypeOK
  <1>. QED BY <1>1, <1>2, <1>3, <1>4, <1>5, <1>6, <1>7, <1>8 DEF CPUStep

LEMMA ProcsKeep ==
    ASSUME TInv, NEW p \in Procs, ProcStep(p)
    PROVE  /\ UNCHANGED <<cpu, at, doing, job, tlb>> /\ UNCHANGED cache
           /\ stage[p] \notin {"EXEC", "EXIT"} /\ stage'[p] \notin {"EXEC", "EXIT"}
           /\ \A q \in Procs \ {p} : pageBases'[q] = pageBases[q] /\ stage'[q] = stage[q]
                                     /\ swap'[q] = swap[q]
  BY DEF ProcStep, Admits, Unblocks, Suspends, Returns, TInv, TypeOK

\* A step of a CPU that is not to give a process up or take one leaves memoria's tables alone.
LEMMA TablesKept ==
    ASSUME TInv, NEW c \in CPUs, CPUStep(c)
    PROVE  /\ UNCHANGED swap
           /\ \/ UNCHANGED <<pageBases, stage, cpu>>
              \/ Syscalls(c) \/ Exits(c) \/ Interrupted(c)
              \/ \E p \in Procs : Dispatches(c, p)
  <1>1. CASE \E p \in Procs : \E r \in Requests[p] : Begins(c, p, r)
    BY <1>1 DEF Begins, memoria
  <1>2. CASE Translates(c) \/ Gets(c) \/ Scans(c)
    BY <1>2 DEF Translates, Gets, Scans, memoria
  <1>3. CASE WritesCache(c) \/ WritesThrough(c) \/ ReadsCache(c) \/ ReadsThrough(c)
    BY <1>3 DEF WritesCache, WritesThrough, ReadsCache, ReadsThrough, memoria
  <1>4. CASE Flushes(c)
    BY <1>4 DEF Flushes
  <1>5. CASE Syscalls(c) \/ Exits(c) \/ Interrupted(c) \/ \E p \in Procs : Dispatches(c, p)
    BY <1>5 DEF Syscalls, Exits, Interrupted, LeavesFor, Dispatches
  <1>. QED BY <1>1, <1>2, <1>3, <1>4, <1>5 DEF CPUStep

\* The process that a CPU runs is moved by that CPU alone.
LEMMA RunningKept ==
    ASSUME TInv, [Next]_vars, NEW c \in CPUs, cpu[c] # NoPid, ~CPUStep(c)
    PROVE  /\ UNCHANGED Own(c) /\ cpu[c] \in Procs
           /\ pageBases'[cpu[c]] = pageBases[cpu[c]] /\ stage'[cpu[c]] = stage[cpu[c]]
           /\ stage[cpu[c]] = "EXEC"
  <1>1. cpu[c] \in Procs /\ stage[cpu[c]] = "EXEC" /\ \A d \in CPUs : cpu[d] = cpu[c] => d = c
    BY DEF TInv, TypeOK, RunsOne
  <1>2. CASE UNCHANGED vars
    BY <1>1, <1>2 DEF vars, memoria, Own
  <1>3. ASSUME NEW d \in CPUs, CPUStep(d)
        PROVE  /\ UNCHANGED Own(c)
               /\ pageBases'[cpu[c]] = pageBases[cpu[c]] /\ stage'[cpu[c]] = stage[cpu[c]]
    <2>1. d # c
      BY <1>3
    <2>2. UNCHANGED Own(c)
      BY <1>3, <2>1, OthersKeep
    <2>3. CASE UNCHANGED <<pageBases, stage, cpu>>
      BY <2>2, <2>3
    <2>4. CASE Syscalls(d) \/ Exits(d) \/ Interrupted(d)
      <3>1. cpu[d] # cpu[c]
        BY <1>1, <2>1
      <3>2. /\ \E where : stage' = [stage EXCEPT ![cpu[d]] = where]
            /\ pageBases' = pageBases \/ pageBases' = [pageBases EXCEPT ![cpu[d]] = NoBytes]
        BY <2>4 DEF Syscalls, Exits, Interrupted, LeavesFor
      <3>. QED BY <1>1, <2>2, <3>1, <3>2 DEF TInv, TypeOK
    <2>5. CASE \E p \in Procs : Dispatches(d, p)
      <3>1. PICK p \in Procs : Dispatches(d, p)
        BY <2>5
      <3>2. p # cpu[c] /\ stage' = [stage EXCEPT ![p] = "EXEC"] /\ UNCHANGED pageBases
        BY <1>1, <3>1 DEF Dispatches
      <3>. QED BY <1>1, <2>2, <3>2 DEF TInv, TypeOK
    <2>. QED BY <1>3, <2>3, <2>4, <2>5, TablesKept
  <1>4. ASSUME NEW p \in Procs, ProcStep(p)
        PROVE  /\ UNCHANGED Own(c)
               /\ pageBases'[cpu[c]] = pageBases[cpu[c]] /\ stage'[cpu[c]] = stage[cpu[c]]
    <2>1. p # cpu[c]
      BY <1>1, <1>4, ProcsKeep
    <2>. QED BY <1>1, <1>4, <2>1, ProcsKeep DEF Own
  <1>. QED BY <1>1, <1>2, <1>3, <1>4, StepsOfWhom

-----------------------------------------------------------------------------
(* A frame is of one page *)

\* memoria has a table, of all its pages, for each process in memory, and all the pages
\* of those in swap.
Tables ==
    /\ \A p \in Resident : pageBases[p] \in [0 .. PageCount[p] - 1 -> Frame]
    /\ \A p \in Procs : stage[p] = "SWAPPED" => swap[p] \in [0 .. PageCount[p] - 1 -> Content]

Exclusive == \A p, q \in Resident : \A i \in DOMAIN pageBases[p], j \in DOMAIN pageBases[q] :
    pageBases[p][i] = pageBases[q][j] => p = q /\ i = j

FramesInv == Tables /\ Exclusive

LEMMA FirstFitApart ==
    ASSUME NEW n \in Nat, NEW bases, DOMAIN bases = 0 .. n - 1, FirstFit(bases),
           NEW i \in DOMAIN bases, NEW j \in DOMAIN bases, bases[i] = bases[j]
    PROVE  i = j
  <1>1. ASSUME NEW k \in 0 .. n - 1, NEW l \in 0 .. n - 1, l < k
        PROVE  bases[l] < bases[k]
    <2>1. {f \in Free : f < bases[k]} = {bases[m] : m \in 0 .. k - 1}
      BY DEF FirstFit
    <2>2. l \in 0 .. k - 1
      BY <1>1
    <2>. QED BY <2>1, <2>2
  <1>2. bases[i] \in Int
    BY DEF FirstFit, Free, Frame
  <1>. QED BY <1>1, <1>2

LEMMA FreeIsNobodys ==
    ASSUME NEW bases, FirstFit(bases), NEW i \in DOMAIN bases,
           NEW q \in Resident, NEW j \in DOMAIN pageBases[q]
    PROVE  pageBases[q][j] # bases[i]
  BY DEF FirstFit, Free, HasPage

\* No process comes into memory or into swap.
LEMMA FramesLeft ==
    ASSUME FramesInv,
           \A q \in Procs : stage'[q] \in {"READY", "EXEC", "BLOCKED"} =>
              stage[q] \in {"READY", "EXEC", "BLOCKED"} /\ pageBases'[q] = pageBases[q],
           \A q \in Procs : stage'[q] = "SWAPPED" => stage[q] = "SWAPPED" /\ swap'[q] = swap[q]
    PROVE  FramesInv'
  <1>1. \A q \in Resident' : q \in Resident /\ pageBases'[q] = pageBases[q]
    BY DEF Resident
  <1>2. Tables'
    BY <1>1 DEF FramesInv, Tables
  <1>3. ASSUME NEW q \in Resident', NEW s \in Resident',
               NEW i \in DOMAIN pageBases'[q], NEW j \in DOMAIN pageBases'[s],
               pageBases'[q][i] = pageBases'[s][j]
        PROVE  q = s /\ i = j
    <2>1. /\ q \in Resident /\ s \in Resident
          /\ i \in DOMAIN pageBases[q] /\ j \in DOMAIN pageBases[s]
          /\ pageBases[q][i] = pageBases[s][j]
      BY <1>1, <1>3
    <2>. QED BY <2>1 DEF FramesInv, Exclusive
  <1>4. Exclusive'
    BY <1>3 DEF Exclusive
  <1>. QED BY <1>2, <1>4 DEF FramesInv

\* A process that comes into memory takes frames that nobody has.
LEMMA FramesTaken ==
    ASSUME TInv, FramesInv, NEW p \in Procs, p \notin Resident,
           NEW bases \in [0 .. PageCount[p] - 1 -> Frame], FirstFit(bases),
           pageBases' = [pageBases EXCEPT ![p] = bases],
           stage' = [stage EXCEPT ![p] = "READY"],
           \A q \in Procs \ {p} : swap'[q] = swap[q]
    PROVE  FramesInv'
  <1>1. stage'[p] = "READY" /\ \A q \in Procs \ {p} : stage'[q] = stage[q]
    BY DEF TInv, TypeOK
  <1>2. pageBases'[p] = bases /\ \A q \in Procs \ {p} : pageBases'[q] = pageBases[q]
    BY DEF TInv, TypeOK
  <1>3. Resident' = Resident \union {p}
    BY <1>1 DEF Resident
  <1>4. Tables'
    BY <1>1, <1>2, <1>3 DEF FramesInv, Tables, Resident
  <1>5. PageCount[p] \in Nat /\ DOMAIN bases = 0 .. PageCount[p] - 1
    BY SizesAssumption
  <1>6. \A i \in DOMAIN bases : \A q \in Resident : \A j \in DOMAIN pageBases[q] :
           pageBases[q][j] # bases[i]
    BY FreeIsNobodys
  <1>7. \A i, j \in DOMAIN bases : bases[i] = bases[j] => i = j
    BY <1>5, FirstFitApart
  <1>8. ASSUME NEW q \in Resident', NEW s \in Resident',
               NEW i \in DOMAIN pageBases'[q], NEW j \in DOMAIN pageBases'[s],
               pageBases'[q][i] = pageBases'[s][j]
        PROVE  q = s /\ i = j
    <2>0. q \in Procs /\ s \in Procs
      BY <1>3 DEF Resident
    <2>1. CASE q # p /\ s # p
      <3>1. /\ q \in Resident /\ s \in Resident
            /\ pageBases'[q] = pageBases[q] /\ pageBases'[s] = pageBases[s]
        BY <1>2, <1>3, <2>0, <2>1
      <3>. QED BY <1>8, <3>1 DEF FramesInv, Exclusive
    <2>2. CASE q = p /\ s = p
      <3>1. /\ i \in 0 .. PageCount[p] - 1 /\ j \in 0 .. PageCount[p] - 1
            /\ bases[i] = bases[j]
        BY <1>2, <1>5, <1>8, <2>2
      <3>2. i = j
        BY <1>5, <1>7, <3>1
      <3>. QED BY <2>2, <3>2
    <2>3. CASE q = p /\ s # p
      <3>1. /\ s \in Resident /\ i \in DOMAIN bases /\ j \in DOMAIN pageBases[s]
            /\ bases[i] = pageBases[s][j]
        BY <1>2, <1>3, <1>8, <2>0, <2>3
      <3>. QED BY <1>6, <3>1
    <2>4. CASE q # p /\ s = p
      <3>1. /\ q \in Resident /\ j \in DOMAIN bases /\ i \in DOMAIN pageBases[q]
            /\ bases[j] = pageBases[q][i]
        BY <1>2, <1>3, <1>8, <2>0, <2>4
      <3>. QED BY <1>6, <3>1
    <2>. QED BY <2>1, <2>2, <2>3, <2>4
  <1>9. Exclusive'
    BY <1>8 DEF Exclusive
  <1>. QED BY <1>4, <1>9 DEF FramesInv

LEMMA StepFrames == TInv /\ FramesInv /\ [Next]_vars => FramesInv'
  <1>. SUFFICES ASSUME TInv, FramesInv, [Next]_vars PROVE FramesInv'
    OBVIOUS
  <1>1. CASE UNCHANGED <<pageBases, stage, swap>>
    BY <1>1, FramesLeft
  <1>2. CASE UNCHANGED vars
    BY <1>1, <1>2 DEF vars, memoria
  <1>3. ASSUME NEW c \in CPUs, CPUStep(c)
        PROVE  FramesInv'
    <2>1. UNCHANGED swap
      BY <1>3, TablesKept
    <2>2. CASE UNCHANGED <<pageBases, stage, cpu>>
      BY <1>1, <2>1, <2>2
    <2>3. CASE Syscalls(c) \/ Exits(c) \/ Interrupted(c)
      <3>1. cpu[c] # NoPid /\ cpu[c] \in Procs /\ stage[cpu[c]] = "EXEC"
        BY <2>3 DEF Syscalls, Exits, Interrupted, Flushed, TInv, RunsOne, TypeOK
      <3>2. \E where \in {"READY", "BLOCKED", "EXIT"} :
               /\ stage' = [stage EXCEPT ![cpu[c]] = where]
               /\ \/ pageBases' = pageBases
                  \/ where = "EXIT" /\ pageBases' = [pageBases EXCEPT ![cpu[c]] = NoBytes]
        BY <2>3 DEF Syscalls, Exits, Interrupted, LeavesFor
      <3>. QED BY <2>1, <3>1, <3>2, FramesLeft DEF TInv, TypeOK
    <2>4. CASE \E p \in Procs : Dispatches(c, p)
      <3>1. \E p \in Procs : /\ stage[p] = "READY" /\ stage' = [stage EXCEPT ![p] = "EXEC"]
                            /\ pageBases' = pageBases
        BY <2>4 DEF Dispatches
      <3>. QED BY <2>1, <3>1, FramesLeft DEF TInv, TypeOK
    <2>. QED BY <1>3, <2>2, <2>3, <2>4, TablesKept
  <1>4. ASSUME NEW p \in Procs, Admits(p)
        PROVE  FramesInv'
    <2>1. p \notin Resident
      BY <1>4 DEF Admits, Resident
    <2>. QED BY <1>4, <2>1, FramesTaken DEF Admits
  <1>5. ASSUME NEW p \in Procs, Unblocks(p)
        PROVE  FramesInv'
    BY <1>5, FramesLeft DEF Unblocks, TInv, TypeOK
  <1>6. ASSUME NEW p \in Procs, Suspends(p)
        PROVE  FramesInv'
    <2>1. /\ stage[p] = "BLOCKED" /\ stage' = [stage EXCEPT ![p] = "SWAPPED"]
          /\ swap' = [swap EXCEPT ![p] = [i \in DOMAIN pageBases[p] |-> userMemory[pageBases[p][i]]]]
          /\ pageBases' = pageBases
      BY <1>6 DEF Suspends
    <2>2. p \in Resident /\ Resident' = Resident \ {p}
      BY <2>1 DEF Resident, TInv, TypeOK
    <2>3. pageBases[p] \in [0 .. PageCount[p] - 1 -> Frame] /\ userMemory \in [Frame -> Content]
      BY <2>2 DEF FramesInv, Tables, TInv, TypeOK
    <2>4. swap'[p] \in [0 .. PageCount[p] - 1 -> Content]
      BY <2>1, <2>3 DEF TInv, TypeOK
    <2>5. \A q \in Procs \ {p} : swap'[q] = swap[q] /\ stage'[q] = stage[q]
      BY <2>1 DEF TInv, TypeOK
    <2>6. Tables'
      BY <2>1, <2>2, <2>4, <2>5 DEF FramesInv, Tables
    <2>7. Exclusive'
      BY <2>1, <2>2 DEF FramesInv, Exclusive
    <2>. QED BY <2>6, <2>7 DEF FramesInv
  <1>7. ASSUME NEW p \in Procs, Returns(p)
        PROVE  FramesInv'
    <2>1. stage[p] = "SWAPPED" /\ p \notin Resident
      BY <1>7 DEF Returns, Resident
    <2>2. DOMAIN swap[p] = 0 .. PageCount[p] - 1
      BY <2>1 DEF FramesInv, Tables
    <2>3. PICK bases \in [0 .. PageCount[p] - 1 -> Frame] :
             FirstFit(bases) /\ pageBases' = [pageBases EXCEPT ![p] = bases]
      BY <1>7, <2>2 DEF Returns
    <2>4. \A q \in Procs \ {p} : swap'[q] = swap[q]
      BY <1>7 DEF Returns, TInv, TypeOK
    <2>. QED BY <1>7, <2>1, <2>3, <2>4, FramesTaken DEF Returns
  <1>. QED BY <1>2, <1>3, <1>4, <1>5, <1>6, <1>7, StepsOfWhom DEF ProcStep

LEMMA InitFrames == Init => FramesInv
  BY DEF Init, FramesInv, Tables, Exclusive, Resident

\* Two pages in memory are in two frames.
LEMMA FramesApart ==
    ASSUME FramesInv, NEW p \in Resident, NEW q \in Resident,
           NEW page \in Page, NEW other \in Page, HasFrame(p, page), HasFrame(q, other),
           LogicAddressToFrame(p, page) = LogicAddressToFrame(q, other)
    PROVE  p = q /\ page = other
  <1>1. p = q /\ PageIndex(page) = PageIndex(other)
    BY DEF FramesInv, Exclusive, HasFrame, LogicAddressToFrame
  <1>. QED BY <1>1, IndexIsInjective

-----------------------------------------------------------------------------
(* A cache has the pages of the process that runs *)

\* The frame that a CPU has looked up is of the process that it runs.
Holds(c) == at[c] \in {"get", "scan"} \/ (at[c] = "copy" /\ ~CacheEnable(c))
Located(c) == Holds(c) => /\ HasFrame(cpu[c], job[c].page)
                          /\ job[c].frame = LogicAddressToFrame(cpu[c], job[c].page)

\* A READ with cache does not end in the middle.
ReadsInside(c) ==
    /\ at[c] \in Active /\ CacheEnable(c) /\ doing[c].kind = "read" => ~Overruns(cpu[c], doing[c])
    /\ at[c] = "exit" => ~CacheEnable(c)

OwnPages(c) == \A i \in Slot[c] : cache[c][i].pid \in {NoPid, cpu[c]}

COwn(c) == Located(c) /\ ReadsInside(c) /\ OwnPages(c)
CInv == \A c \in CPUs : COwn(c)

LEMMA OwnKept ==
    ASSUME TInv, [Next]_vars, NEW c \in CPUs, ~CPUStep(c)
    PROVE  UNCHANGED Own(c)
  <1>1. CASE UNCHANGED vars
    BY <1>1 DEF vars, memoria, Own
  <1>2. ASSUME NEW d \in CPUs, CPUStep(d)
        PROVE  UNCHANGED Own(c)
    <2>1. d # c
      BY <1>2
    <2>. QED BY <1>2, <2>1, OthersKeep
  <1>3. ASSUME NEW p \in Procs, ProcStep(p)
        PROVE  UNCHANGED Own(c)
    BY <1>3, ProcsKeep DEF Own
  <1>. QED BY <1>1, <1>2, <1>3, StepsOfWhom

LEMMA Running ==
    ASSUME TInv, NEW c \in CPUs, cpu[c] # NoPid
    PROVE  cpu[c] \in Resident /\ cpu[c] \in Procs /\ stage[cpu[c]] = "EXEC"
  BY DEF TInv, RunsOne, TypeOK, Resident

LEMMA ActiveRuns ==
    ASSUME TInv, NEW c \in CPUs, at[c] # "instruction"
    PROVE  cpu[c] # NoPid /\ cpu[c] \in Resident /\ cpu[c] \in Procs
  BY Running DEF TInv, RunsOne

\* What a TLB or the tables answer about a process in memory is where its page is.
LEMMA TranslatedIsRight ==
    ASSUME TInv, AInv, NEW c \in CPUs, NEW p \in Resident, NEW page, Found(c, p, page)
    PROVE  HasFrame(p, page) /\ Translated(c, p, page) = LogicAddressToFrame(p, page)
  <1>1. CASE Hits(c, p, page) = {}
    BY <1>1 DEF Found, Translated
  <1>2. CASE Hits(c, p, page) # {}
    <2>. DEFINE i == Least(Hits(c, p, page))
    <2>1. i \in DOMAIN tlb[c] /\ tlb[c][i].pid = p /\ tlb[c][i].page = page
      BY <1>2, HitsAreEntries DEF TInv
    <2>2. GoodEntry(tlb[c][i])
      <3>. HIDE DEF i
      <3>. QED BY <2>1 DEF AInv, GoodTLB
    <2>. HIDE DEF i
    <2>3. HasFrame(p, page) /\ tlb[c][i].frame = LogicAddressToFrame(p, page)
      BY <2>1, <2>2 DEF GoodEntry
    <2>. QED BY <1>2, <2>3 DEF Translated, i
  <1>. QED BY <1>1, <1>2

\* A page of a request that does not go over the end has a frame.
LEMMA InsideHasFrame ==
    ASSUME TInv, Counted, FramesInv, NEW c \in CPUs, at[c] \in Active,
           ~Overruns(cpu[c], doing[c])
    PROVE  HasFrame(cpu[c], job[c].page)
  <1>. DEFINE p == cpu[c]
              a == doing[c].addr + job[c].done
              n == PageCount[p]
  <1>1. p \in Resident /\ p \in Procs /\ job[c].page \in Page /\ doing[c] \in Requests[p]
    BY ActiveFacts, ActiveRuns DEF Active
  <1>2. pageBases[p] \in [0 .. n - 1 -> Frame] /\ n \in Nat
    BY <1>1, SizesAssumption DEF FramesInv, Tables
  <1>3. a \in Nat /\ PageIndex(job[c].page) = a \div PageSize
    BY ChunkOfPage
  <1>4. a < PageSize * n
    <2>1. doing[c].addr + doing[c].size <= PageSize * n
      <3>. DEFINE top == PageSize * n
      <3>1. top \in Nat /\ doing[c].addr \in Nat /\ doing[c].size \in Nat
        BY <1>1, <1>2, RequestTypes, SizesAssumption
      <3>2. ~(doing[c].addr + doing[c].size > top)
        BY DEF Overruns
      <3>. HIDE DEF top
      <3>3. doing[c].addr + doing[c].size <= top
        BY <3>1, <3>2
      <3>. QED BY <3>3 DEF top
    <2>2. /\ doing[c].addr \in Nat /\ doing[c].size \in Nat
          /\ job[c].done \in Nat /\ job[c].done < doing[c].size
      BY <1>1, RequestTypes, ActiveFacts DEF TInv, RunsOne, Job
    <2>. DEFINE top == PageSize * n
    <2>3. top \in Nat /\ doing[c].addr + doing[c].size <= top
      BY <1>2, <2>1, SizesAssumption
    <2>. HIDE DEF top
    <2>4. a < top
      BY <2>2, <2>3
    <2>. QED BY <2>4 DEF top
  <1>. HIDE DEF a, n
  <1>5. a \div PageSize < n /\ a \div PageSize \in Nat
    BY <1>2, <1>3, <1>4, DivideBelow, Divided, SizesAssumption
  <1>6. PageIndex(job[c].page) \in DOMAIN pageBases[p]
    BY <1>2, <1>3, <1>5
  <1>7. \A k \in 1 .. Levels : job[c].page[k] < EntriesPerPage
    BY <1>1, DigitTypes
  <1>. QED BY <1>6, <1>7 DEF HasFrame

\* The entry that an AddEntryCache puts in the place of its victim.
Fetched(c) == [pid |-> cpu[c], page |-> job[c].page, content |-> job[c].buffer,
               use |-> TRUE, modified |-> FALSE, position |-> FALSE]

\* The hand changes one entry, and elsewhere nothing but marks.
LEMMA HandMovedFields ==
    ASSUME TInv, NEW c \in CPUs, NEW i \in Slot[c], NEW e \in CacheEntry, NEW j \in Slot[c]
    PROVE  LET m == HandMoved(cache[c], i, e)[j]
               o == IF j = i THEN e ELSE cache[c][j]
           IN  /\ m.pid = o.pid /\ m.page = o.page /\ m.content = o.content
               /\ m.use = o.use /\ m.modified = o.modified
               /\ m.position <=> (j = (i + 1) % Cardinality(Slot[c]) \/ (o.position /\ j # i))
  <1>. DEFINE o == IF j = i THEN e ELSE cache[c][j]
              mark == j = (i + 1) % Cardinality(Slot[c]) \/ (o.position /\ j # i)
  <1>1. cache[c] \in [Slot[c] -> CacheEntry] /\ DOMAIN cache[c] = Slot[c]
    BY DEF TInv, TypeOK
  <1>2. o \in CacheEntry
    BY <1>1
  <1>3. HandMoved(cache[c], i, e)[j] = [o EXCEPT !.position = mark]
    BY <1>1, Zenon DEF HandMoved
  <1>. HIDE DEF o, mark
  <1>4. /\ [o EXCEPT !.position = mark].pid = o.pid /\ [o EXCEPT !.position = mark].page = o.page
        /\ [o EXCEPT !.position = mark].content = o.content
        /\ [o EXCEPT !.position = mark].use = o.use
        /\ [o EXCEPT !.position = mark].modified = o.modified
        /\ [o EXCEPT !.position = mark].position = mark
    BY <1>2 DEF CacheEntry
  <1>. QED BY <1>3, <1>4 DEF o, mark

LEMMA PassedFields ==
    ASSUME TInv, NEW c \in CPUs, NEW e \in CacheEntry
    PROVE  /\ Passed(c, e) \in CacheEntry
           /\ Passed(c, e).pid = e.pid /\ Passed(c, e).page = e.page
           /\ Passed(c, e).content = e.content /\ Passed(c, e).modified = e.modified
           /\ IF CacheReplacement[c] = "CLOCK" \/ SecondRound(c)
              THEN Passed(c, e).use = FALSE ELSE Passed(c, e).use = e.use
  <1>1. /\ [e EXCEPT !.use = FALSE] \in CacheEntry /\ [e EXCEPT !.use = FALSE].use = FALSE
        /\ [e EXCEPT !.use = FALSE].pid = e.pid /\ [e EXCEPT !.use = FALSE].page = e.page
        /\ [e EXCEPT !.use = FALSE].content = e.content
        /\ [e EXCEPT !.use = FALSE].modified = e.modified /\ e.use \in BOOLEAN
    BY DEF CacheEntry
  <1>. QED BY <1>1 DEF Passed

\* A turn of the hand: it chooses the entry it is on, or passes it.
LEMMA HandTurns ==
    ASSUME TInv, NEW c \in CPUs, Scans(c)
    PROVE  /\ CacheEnable(c) /\ Hand(c) \in Slot[c] /\ cache[c][Hand(c)] \in CacheEntry
           /\ Fetched(c) \in CacheEntry
           /\ \/ /\ Chosen(c, cache[c][Hand(c)])
                 /\ cache'[c] = HandMoved(cache[c], Hand(c), Fetched(c))
                 /\ job'[c] = PageJob(job[c].done, job[c].page)
                 /\ at'[c] \in {"copy", "down"}
              \/ /\ ~Chosen(c, cache[c][Hand(c)])
                 /\ cache'[c] = HandMoved(cache[c], Hand(c), Passed(c, cache[c][Hand(c)]))
                 /\ job'[c] = [job[c] EXCEPT !.examined = @ + 1]
                 /\ UNCHANGED <<at, userMemory>>
  <1>. DEFINE i == Hand(c)
              e == cache[c][i]
  <1>1. at[c] = "scan" /\ CacheEnable(c) /\ cpu[c] \in Procs /\ job[c].page \in Page
        /\ job[c] \in Job
    BY ActiveFacts DEF Scans, TInv, RunsOne, Active
  <1>2. i \in Slot[c] /\ e \in CacheEntry
    BY <1>1, HandIsSlot, EntryTypes
  <1>3. Fetched(c) \in CacheEntry
    BY <1>1 DEF Fetched, CacheEntry, Job
  <1>4. CASE Chosen(c, e)
    <2>1. /\ cache' = [cache EXCEPT ![c] = HandMoved(@, i, Fetched(c))]
          /\ job' = [job EXCEPT ![c] = PageJob(job[c].done, job[c].page)]
          /\ Goes(c, "copy") \/ Goes(c, "down")
      BY <1>4, Zenon DEF Scans, Fetched
    <2>2. at'[c] \in {"copy", "down"}
      BY <2>1 DEF Goes, TInv, TypeOK
    <2>. HIDE DEF i, e
    <2>3. /\ cache'[c] = HandMoved(cache[c], i, Fetched(c))
          /\ job'[c] = PageJob(job[c].done, job[c].page)
      BY <2>1 DEF TInv, TypeOK
    <2>. QED BY <1>1, <1>2, <1>3, <1>4, <2>2, <2>3 DEF i, e
  <1>5. CASE ~Chosen(c, e)
    <2>1. /\ cache' = [cache EXCEPT ![c] = HandMoved(@, i, Passed(c, e))]
          /\ job' = [job EXCEPT ![c].examined = @ + 1]
          /\ UNCHANGED <<at, userMemory>>
      BY <1>5, Zenon DEF Scans
    <2>. HIDE DEF i, e
    <2>2. /\ cache'[c] = HandMoved(cache[c], i, Passed(c, e))
          /\ job'[c] = [job[c] EXCEPT !.examined = @ + 1]
      BY <2>1 DEF TInv, TypeOK
    <2>. QED BY <1>1, <1>2, <1>3, <1>5, <2>1, <2>2 DEF i, e
  <1>. QED BY <1>4, <1>5

\* A copy of a page changes one entry of the cache at most, and neither its process nor
\* its page.
LEMMA CopyChanges ==
    ASSUME TInv, NEW c \in CPUs,
           WritesCache(c) \/ WritesThrough(c) \/ ReadsCache(c) \/ ReadsThrough(c), NEW j \in Slot[c]
    PROVE  /\ cache'[c][j].pid = cache[c][j].pid /\ cache'[c][j].page = cache[c][j].page
           /\ cache'[c][j].position = cache[c][j].position
           /\ \/ /\ cache'[c][j].content = cache[c][j].content
                 /\ cache'[c][j].modified = cache[c][j].modified
              \/ /\ WritesCache(c) /\ cache'[c][j].modified
                 /\ cache'[c][j].content = Written(c, cache[c][j].content)
  <1>. DEFINE i == Least(Slots(c, job[c].page))
  <1>1. DOMAIN cache = CPUs /\ cache[c] \in [Slot[c] -> CacheEntry] /\ cache[c][j] \in CacheEntry
    BY DEF TInv, TypeOK
  <1>2. CASE UNCHANGED cache
    BY <1>2
  <1>3. CASE WritesCache(c)
    <2>. DEFINE w == WrittenEntry(cache[c][i], Written(c, cache[c][i].content), TRUE)
    <2>1. cache' = [cache EXCEPT ![c][i] = w]
      BY <1>3 DEF WritesCache
    <2>2. /\ w.pid = cache[c][i].pid /\ w.page = cache[c][i].page /\ w.modified = TRUE
          /\ w.content = Written(c, cache[c][i].content) /\ w.position = cache[c][i].position
      BY DEF WrittenEntry
    <2>. HIDE DEF i, w
    <2>. QED BY <1>1, <1>3, <2>1, <2>2
  <1>4. CASE cache' = [cache EXCEPT ![c][i].use = TRUE]
    <2>. HIDE DEF i
    <2>1. cache'[c][j] = IF j = i THEN [cache[c][j] EXCEPT !.use = TRUE] ELSE cache[c][j]
      BY <1>1, <1>4
    <2>2. /\ [cache[c][j] EXCEPT !.use = TRUE].pid = cache[c][j].pid
          /\ [cache[c][j] EXCEPT !.use = TRUE].page = cache[c][j].page
          /\ [cache[c][j] EXCEPT !.use = TRUE].content = cache[c][j].content
          /\ [cache[c][j] EXCEPT !.use = TRUE].modified = cache[c][j].modified
          /\ [cache[c][j] EXCEPT !.use = TRUE].position = cache[c][j].position
      BY <1>1 DEF CacheEntry
    <2>. QED BY <2>1, <2>2
  <1>. QED BY <1>2, <1>3, <1>4, Zenon DEF WritesThrough, ReadsCache, ReadsThrough, i

\* What a step of a CPU puts in its cache is of the process that it runs.
LEMMA StepsCache ==
    ASSUME TInv, NEW c \in CPUs, CPUStep(c)
    PROVE  \/ /\ UNCHANGED cpu
              /\ \A j \in Slot[c] : cache'[c][j].pid \in {NoPid, cpu[c], cache[c][j].pid}
           \/ /\ UNCHANGED cache
              /\ \/ Syscalls(c) \/ Exits(c) \/ Interrupted(c)
                 \/ \E p \in Procs : Dispatches(c, p)
  <1>1. CASE UNCHANGED cpu /\ UNCHANGED cache
    BY <1>1
  <1>2. CASE \E p \in Procs : \E r \in Requests[p] : Begins(c, p, r)
    BY <1>1, <1>2 DEF Begins
  <1>3. CASE Translates(c) \/ Gets(c)
    BY <1>1, <1>3 DEF Translates, Gets
  <1>4. CASE Scans(c)
    <2>1. UNCHANGED cpu
      BY <1>4 DEF Scans
    <2>2. ASSUME NEW j \in Slot[c]
          PROVE  cache'[c][j].pid \in {NoPid, cpu[c], cache[c][j].pid}
      <3>1. Fetched(c).pid = cpu[c]
        BY DEF Fetched
      <3>2. Passed(c, cache[c][Hand(c)]).pid = cache[c][Hand(c)].pid
            /\ Passed(c, cache[c][Hand(c)]) \in CacheEntry
        BY <1>4, HandTurns, PassedFields
      <3>3. PICK e \in CacheEntry : /\ e.pid \in {cpu[c], cache[c][Hand(c)].pid}
                                    /\ cache'[c] = HandMoved(cache[c], Hand(c), e)
        BY <1>4, <3>1, <3>2, HandTurns
      <3>4. Hand(c) \in Slot[c]
        BY <1>4, HandTurns
      <3>. QED BY <3>3, <3>4, HandMovedFields
    <2>. QED BY <2>1, <2>2
  <1>5. CASE WritesCache(c) \/ WritesThrough(c) \/ ReadsCache(c) \/ ReadsThrough(c)
    <2>1. UNCHANGED cpu
      BY <1>5 DEF WritesCache, WritesThrough, ReadsCache, ReadsThrough
    <2>. QED BY <1>5, <2>1, CopyChanges
  <1>6. CASE Flushes(c)
    <2>1. \E i : cache' = [cache EXCEPT ![c][i] = EmptyEntry]
      BY <1>6, Zenon DEF Flushes
    <2>2. UNCHANGED cpu /\ EmptyEntry.pid = NoPid
      BY <1>6 DEF Flushes, EmptyEntry
    <2>3. DOMAIN cache = CPUs /\ cache[c] \in [Slot[c] -> CacheEntry]
      BY DEF TInv, TypeOK
    <2>. QED BY <2>1, <2>2, <2>3
  <1>7. CASE Syscalls(c) \/ Exits(c) \/ Interrupted(c) \/ \E p \in Procs : Dispatches(c, p)
    BY <1>7 DEF Syscalls, Exits, Interrupted, LeavesFor, Dispatches
  <1>. QED BY <1>2, <1>3, <1>4, <1>5, <1>6, <1>7 DEF CPUStep

LEMMA StepOwnPages ==
    ASSUME TInv, CInv, [Next]_vars, NEW c \in CPUs, "interruptCached" \notin Hazards
    PROVE  OwnPages(c)'
  <1>1. OwnPages(c) /\ ReadsInside(c) /\ DOMAIN cache[c] = Slot[c]
    BY DEF CInv, COwn, TInv, TypeOK
  <1>2. CASE ~CPUStep(c)
    <2>1. UNCHANGED <<cpu[c], cache[c]>>
      BY <1>2, OwnKept DEF Own
    <2>. QED BY <1>1, <2>1 DEF OwnPages
  <1>3. CASE UNCHANGED cpu /\ \A j \in Slot[c] : cache'[c][j].pid \in {NoPid, cpu[c], cache[c][j].pid}
    BY <1>1, <1>3 DEF OwnPages
  <1>4. CASE UNCHANGED cache /\ (Syscalls(c) \/ Exits(c) \/ Interrupted(c))
    <2>1. Entries(c, cpu[c]) = {} \/ ~CacheEnable(c)
      BY <1>1, <1>4 DEF Syscalls, Exits, Interrupted, Flushed, ReadsInside
    <2>2. \A i \in Slot[c] : cache[c][i].pid = NoPid
      <3>1. CASE Entries(c, cpu[c]) = {}
        BY <1>1, <3>1 DEF OwnPages, Entries
      <3>2. CASE ~CacheEnable(c)
        BY <3>2 DEF CacheEnable, Slot
      <3>. QED BY <2>1, <3>1, <3>2
    <2>. QED BY <1>4, <2>2 DEF OwnPages
  <1>5. CASE UNCHANGED cache /\ \E p \in Procs : Dispatches(c, p)
    <2>1. cpu[c] = NoPid
      BY <1>5 DEF Dispatches
    <2>. QED BY <1>1, <1>5, <2>1 DEF OwnPages
  <1>. QED BY <1>2, <1>3, <1>4, <1>5, StepsCache

\* A step of a CPU after which it holds no frame: it is not one of the three that look a
\* frame up, fetch its page, or seek a place for it.
LEMMA HoldsAfter ==
    ASSUME TInv, NEW c \in CPUs, CPUStep(c), Holds(c)'
    PROVE  Translates(c) \/ Gets(c) \/ Scans(c)
  <1>0. at \in [CPUs -> Steps]
    BY DEF TInv, TypeOK
  <1>1. CASE \E p \in Procs : \E r \in Requests[p] : Begins(c, p, r)
    <2>1. at'[c] = "translate" \/ (at'[c] = "copy" /\ CacheEnable(c))
      <3>1. \/ at' = [at EXCEPT ![c] = "translate"]
            \/ CacheEnable(c) /\ at' = [at EXCEPT ![c] = "copy"]
        BY <1>1 DEF Begins, Goes
      <3>. QED BY <1>0, <3>1
    <2>. QED BY <2>1 DEF Holds
  <1>2. CASE WritesCache(c) \/ WritesThrough(c) \/ ReadsCache(c) \/ ReadsThrough(c)
    <2>1. at[c] \in Active
      BY <1>2 DEF WritesCache, WritesThrough, ReadsCache, ReadsThrough, Active
    <2>2. Advances(c) \/ Ends(c, "down")
      BY <1>2, Zenon DEF WritesCache, WritesThrough, ReadsCache, ReadsThrough
    <2>3. at'[c] \in {"instruction", "translate", "down"}
      BY <1>0, <2>1, <2>2, AdvancesTypes DEF Ends, Goes
    <2>. QED BY <2>3 DEF Holds
  <1>3. CASE Flushes(c)
    <2>1. Goes(c, "flush") \/ Goes(c, "down")
      BY <1>3, Zenon DEF Flushes
    <2>. QED BY <1>0, <2>1 DEF Goes, Holds
  <1>4. CASE Syscalls(c) \/ Exits(c) \/ Interrupted(c)
    BY <1>0, <1>4 DEF Syscalls, Exits, Interrupted, LeavesFor, Goes, Holds
  <1>5. CASE \E p \in Procs : Dispatches(c, p)
    BY <1>0, <1>5 DEF Dispatches, Holds, TInv, RunsOne
  <1>. QED BY <1>1, <1>2, <1>3, <1>4, <1>5 DEF CPUStep

\* Translates, when there is a frame and when there is none.
LEMMA TranslatesTo ==
    ASSUME TInv, NEW c \in CPUs, Translates(c)
    PROVE  /\ at[c] \in Active /\ UNCHANGED <<memoria, cpu>> /\ UNCHANGED cache
           /\ \/ /\ Found(c, cpu[c], job[c].page)
                 /\ job'[c].page = job[c].page
                 /\ job'[c].frame = Translated(c, cpu[c], job[c].page)
                 /\ doing'[c] = doing[c]
                 /\ at'[c] = IF CacheEnable(c) /\ IsInCache(c, job[c].page) THEN "copy" ELSE "get"
              \/ /\ ~Found(c, cpu[c], job[c].page) /\ Fails(c, CacheEnable(c) \/ job[c].done = 0)
                 /\ at'[c] \notin Active
                 /\ at'[c] = "exit" => doing[c].kind = "read"
  <1>1. at[c] \in Active /\ UNCHANGED <<memoria, cpu>> /\ UNCHANGED cache
    BY DEF Translates, Active
  <1>2. at \in [CPUs -> Steps] /\ job \in [CPUs -> Job] /\ job[c] \in Job
    BY DEF TInv, TypeOK
  <1>3. CASE Found(c, cpu[c], job[c].page)
    <2>1. /\ job' = [job EXCEPT ![c].frame = Translated(c, cpu[c], job[c].page)]
          /\ Goes(c, IF CacheEnable(c) /\ IsInCache(c, job[c].page) THEN "copy" ELSE "get")
          /\ UNCHANGED doing
      BY <1>3 DEF Translates
    <2>2. /\ job'[c].page = job[c].page
          /\ job'[c].frame = Translated(c, cpu[c], job[c].page)
      BY <1>2, <2>1 DEF Job
    <2>3. at'[c] = IF CacheEnable(c) /\ IsInCache(c, job[c].page) THEN "copy" ELSE "get"
      BY <1>2, <2>1 DEF Goes
    <2>. QED BY <1>1, <1>3, <2>1, <2>2, <2>3
  <1>4. CASE ~Found(c, cpu[c], job[c].page)
    <2>1. Fails(c, CacheEnable(c) \/ job[c].done = 0)
      BY <1>4 DEF Translates
    <2>2. at'[c] = "exit" => doing[c].kind = "read"
      BY <1>2, <2>1 DEF Fails, Ends, Goes
    <2>. QED BY <1>1, <1>4, <2>1, <2>2, FailsTypes
  <1>. QED BY <1>3, <1>4

\* Gets, when the frame is of the process.
LEMMA GetsPage ==
    ASSUME TInv, NEW c \in CPUs, Gets(c), HasPage(cpu[c], job[c].frame)
    PROVE  /\ at[c] = "get" /\ UNCHANGED <<memoria, cpu, doing>> /\ UNCHANGED cache
           /\ job'[c].page = job[c].page /\ job'[c].frame = job[c].frame
           /\ job'[c].done = job[c].done
           /\ job'[c].buffer = userMemory[job[c].frame]
           /\ at'[c] = IF CacheEnable(c) THEN "scan" ELSE "copy"
  <1>1. at \in [CPUs -> Steps] /\ job \in [CPUs -> Job] /\ job[c] \in Job
    BY DEF TInv, TypeOK
  <1>2. /\ at[c] = "get" /\ UNCHANGED <<memoria, cpu, doing>> /\ UNCHANGED cache
        /\ job' = [job EXCEPT ![c].buffer = userMemory[job[c].frame]]
        /\ Goes(c, IF CacheEnable(c) THEN "scan" ELSE "copy")
    BY DEF Gets
  <1>. QED BY <1>1, <1>2 DEF Job, Goes

LEMMA HeldFrame ==
    ASSUME NEW c \in CPUs, Located(c), Holds(c)
    PROVE  HasPage(cpu[c], job[c].frame)
  BY DEF Located, HasFrame, HasPage, LogicAddressToFrame

LEMMA StepLocated ==
    ASSUME TInv, AInv, CInv, [Next]_vars, NEW c \in CPUs
    PROVE  Located(c)'
  <1>1. Located(c)
    BY DEF CInv, COwn
  <1>2. SUFFICES ASSUME Holds(c)'
                 PROVE  /\ HasFrame(cpu[c], job[c].page)'
                        /\ job'[c].frame = LogicAddressToFrame(cpu[c], job[c].page)'
    BY DEF Located
  <1>3. ASSUME Holds(c), cpu'[c] = cpu[c], job'[c].page = job[c].page,
               job'[c].frame = job[c].frame, pageBases'[cpu[c]] = pageBases[cpu[c]]
        PROVE  /\ HasFrame(cpu[c], job[c].page)'
               /\ job'[c].frame = LogicAddressToFrame(cpu[c], job[c].page)'
    BY <1>1, <1>3 DEF Located, HasFrame, LogicAddressToFrame
  <1>4. CASE ~CPUStep(c)
    <2>1. UNCHANGED Own(c)
      BY <1>4, OwnKept
    <2>2. Holds(c)
      BY <1>2, <2>1 DEF Holds, Own
    <2>3. cpu[c] # NoPid
      BY <2>2, ActiveRuns DEF Holds
    <2>4. pageBases'[cpu[c]] = pageBases[cpu[c]]
      BY <1>4, <2>3, RunningKept
    <2>. QED BY <1>3, <2>1, <2>2, <2>4 DEF Own
  <1>5. CASE Translates(c)
    <2>1. at'[c] \in Active
      BY <1>2 DEF Holds, Active
    <2>2. /\ Found(c, cpu[c], job[c].page) /\ job'[c].page = job[c].page
          /\ job'[c].frame = Translated(c, cpu[c], job[c].page)
          /\ UNCHANGED <<pageBases, cpu>>
      BY <1>5, <2>1, TranslatesTo DEF memoria
    <2>3. cpu[c] \in Resident
      BY <1>5, ActiveRuns DEF Translates
    <2>4. /\ HasFrame(cpu[c], job[c].page)
          /\ Translated(c, cpu[c], job[c].page) = LogicAddressToFrame(cpu[c], job[c].page)
      BY <2>2, <2>3, TranslatedIsRight
    <2>. QED BY <2>2, <2>4 DEF HasFrame, LogicAddressToFrame
  <1>6. CASE Gets(c)
    <2>1. Holds(c)
      BY <1>6 DEF Gets, Holds
    <2>2. HasPage(cpu[c], job[c].frame)
      BY <1>1, <2>1, HeldFrame
    <2>. QED BY <1>3, <1>6, <2>1, <2>2, GetsPage DEF memoria
  <1>7. CASE Scans(c)
    <2>1. Holds(c) /\ CacheEnable(c) /\ UNCHANGED <<pageBases, cpu>>
      BY <1>7, HandTurns DEF Scans, Holds
    <2>2. at'[c] \notin {"copy", "down"}
      BY <1>2, <2>1 DEF Holds
    <2>3. job'[c] = [job[c] EXCEPT !.examined = @ + 1] /\ job[c] \in Job
      BY <1>7, <2>2, HandTurns DEF TInv, TypeOK
    <2>4. job'[c].page = job[c].page /\ job'[c].frame = job[c].frame
      BY <2>3 DEF Job
    <2>. QED BY <1>3, <2>1, <2>4
  <1>. QED BY <1>2, <1>4, <1>5, <1>6, <1>7, HoldsAfter

LEMMA StepReadsInside ==
    ASSUME TInv, Counted, FramesInv, CInv, [Next]_vars, NEW c \in CPUs,
           "overrunCached" \notin Hazards
    PROVE  ReadsInside(c)'
  <1>0. Located(c) /\ ReadsInside(c) /\ at \in [CPUs -> Steps]
    BY DEF CInv, COwn, TInv, TypeOK
  <1>1. SUFFICES ASSUME CacheEnable(c)
                 PROVE  /\ at'[c] \in Active /\ doing'[c].kind = "read" =>
                              ~Overruns(cpu'[c], doing'[c])
                        /\ at'[c] # "exit"
    BY DEF ReadsInside, Overruns
  <1>2. CASE /\ at[c] \in Active /\ doing'[c] = doing[c] /\ cpu'[c] = cpu[c]
             /\ at'[c] # "exit"
    BY <1>0, <1>1, <1>2 DEF ReadsInside
  <1>3. CASE at'[c] \notin Active /\ at'[c] # "exit"
    BY <1>3
  <1>4. CASE ~CPUStep(c)
    BY <1>0, <1>1, <1>4, OwnKept DEF Own, ReadsInside
  <1>5. ASSUME NEW p \in Procs, NEW r \in Requests[p], Begins(c, p, r)
        PROVE  /\ at'[c] \in Active /\ doing'[c].kind = "read" =>
                     ~Overruns(cpu'[c], doing'[c])
               /\ at'[c] # "exit"
    <2>1. doing'[c] = r /\ cpu'[c] = cpu[c] /\ Tame(c, r)
      BY <1>5 DEF Begins, TInv, TypeOK
    <2>2. \E step \in {"copy", "translate"} : at' = [at EXCEPT ![c] = step]
      BY <1>5, Zenon DEF Begins, Goes
    <2>. QED BY <1>0, <1>1, <2>1, <2>2 DEF Tame
  <1>6. CASE Translates(c)
    <2>1. ASSUME ~Found(c, cpu[c], job[c].page), doing[c].kind = "read"
          PROVE  FALSE
      <3>1. at[c] \in Active /\ ~Overruns(cpu[c], doing[c])
        BY <1>0, <1>1, <1>6, <2>1, TranslatesTo DEF ReadsInside
      <3>. QED BY <2>1, <3>1, InsideHasFrame DEF Found
    <2>. QED BY <1>2, <1>3, <1>6, <2>1, TranslatesTo
  <1>7. CASE Gets(c)
    <2>1. HasPage(cpu[c], job[c].frame)
      BY <1>0, <1>7, HeldFrame DEF Gets, Holds
    <2>. QED BY <1>1, <1>2, <1>7, <2>1, GetsPage DEF Active
  <1>8. CASE Scans(c)
    BY <1>0, <1>2, <1>3, <1>8, HandTurns DEF Scans, Active
  <1>9. CASE WritesCache(c) \/ WritesThrough(c) \/ ReadsCache(c) \/ ReadsThrough(c)
    <2>1. at[c] \in Active /\ cpu'[c] = cpu[c]
      BY <1>9 DEF WritesCache, WritesThrough, ReadsCache, ReadsThrough, Active
    <2>2. Advances(c) \/ Ends(c, "down")
      BY <1>9, Zenon DEF WritesCache, WritesThrough, ReadsCache, ReadsThrough
    <2>3. CASE Ends(c, "down")
      BY <1>0, <1>3, <2>3 DEF Ends, Goes, Active
    <2>4. CASE Advances(c)
      <3>1. \/ at'[c] = "instruction"
            \/ at'[c] = "translate" /\ doing'[c] = doing[c]
        BY <1>0, <2>4 DEF Advances, Ends, Goes
      <3>. QED BY <1>2, <1>3, <2>1, <3>1 DEF Active
    <2>. QED BY <2>2, <2>3, <2>4
  <1>10. CASE Flushes(c)
    <2>1. Goes(c, "flush") \/ Goes(c, "down")
      BY <1>10, Zenon DEF Flushes
    <2>. QED BY <1>0, <1>3, <2>1 DEF Goes, Active
  <1>11. CASE Syscalls(c) \/ Exits(c) \/ Interrupted(c)
    BY <1>0, <1>3, <1>11 DEF Syscalls, Exits, Interrupted, LeavesFor, Goes, Active
  <1>12. CASE \E p \in Procs : Dispatches(c, p)
    BY <1>3, <1>12 DEF Dispatches, Active, TInv, RunsOne
  <1>. QED BY <1>4, <1>5, <1>6, <1>7, <1>8, <1>9, <1>10, <1>11, <1>12 DEF CPUStep

LEMMA StepOwns ==
    ASSUME "interruptCached" \notin Hazards, "overrunCached" \notin Hazards
    PROVE  TInv /\ Counted /\ FramesInv /\ AInv /\ CInv /\ [Next]_vars => CInv'
  BY StepLocated, StepReadsInside, StepOwnPages DEF CInv, COwn

LEMMA InitOwns == Init => CInv
  BY DEF Init, CInv, COwn, Located, Holds, ReadsInside, Active, OwnPages, EmptyEntry

\* All that a CPU and memoria agree on.
AllInv == TInv /\ Counted /\ FramesInv /\ OInv /\ AInv /\ CInv

LEMMA StepAll ==
    ASSUME "suspendTranslated" \notin Hazards, "interruptCached" \notin Hazards,
           "overrunCached" \notin Hazards
    PROVE  AllInv /\ [Next]_vars => AllInv'
  BY StepTypes, StepCounts, StepFrames, StepOnce, StepAgrees, StepOwns DEF AllInv

LEMMA InitAll == Init => AllInv
  <1>1. Init => Counted
    BY DEF Init, Counted, NoJob, PageJob
  <1>. QED BY <1>1, InitTypes, InitFrames, InitOnce, InitAgrees, InitOwns DEF AllInv

\* A cache, which is searched by page alone, has pages of no process but the one that runs,
\* as long as no process is suspended while a TLB knows it, none is interrupted while the
\* cache has pages of it, and no READ goes over the end of its process: EndProcess empties
\* the cache of a process that leaves by a system call, and a READ that the tables can
\* answer to its last page never ends in the EXIT that skips it (IsInCache, EndProcess).
THEOREM CachesHoldTheRunning ==
    ASSUME "suspendTranslated" \notin Hazards, "interruptCached" \notin Hazards,
           "overrunCached" \notin Hazards
    PROVE  Spec => []CacheOfRunning
  <1>1. AllInv => CacheOfRunning
    BY DEF AllInv, CInv, COwn, OwnPages, CacheOfRunning
  <1>. QED BY <1>1, InitAll, StepAll, PTL DEF Spec

-----------------------------------------------------------------------------
(* A clean page is as memoria has it *)

\* The pages in a cache have frames, and the clean ones are as their frames are; so is the
\* page that has been fetched, until there is a place for it.
Kept(c) == \A i \in Slot[c] : cache[c][i].pid # NoPid =>
    /\ HasFrame(cpu[c], cache[c][i].page) /\ cache[c][i].content \in Content
    /\ cache[c][i].modified
          \/ cache[c][i].content = userMemory[LogicAddressToFrame(cpu[c], cache[c][i].page)]
Buffered(c) == Holds(c) /\ at[c] # "get" => job[c].buffer = userMemory[job[c].frame]

MInv == \A c \in CPUs : Kept(c) /\ Buffered(c)

LEMMA OwnEntry ==
    ASSUME AllInv, NEW c \in CPUs, NEW i \in Slot[c], cache[c][i].pid # NoPid
    PROVE  /\ cache[c][i].pid = cpu[c] /\ cpu[c] \in Resident /\ cpu[c] \in Procs
           /\ cpu[c] # NoPid /\ cache[c][i].page \in Page
  <1>1. cache[c][i].pid = cpu[c]
    BY DEF AllInv, CInv, COwn, OwnPages
  <1>. QED BY <1>1, Running, EntryTypes DEF AllInv

\* c writes no frame but that of page w of its process.
WritesPage(c, w) ==
    /\ HasFrame(cpu[c], w)
    /\ \A f \in Frame : f # LogicAddressToFrame(cpu[c], w) => userMemory'[f] = userMemory[f]

LEMMA SavesOnePage ==
    ASSUME TInv, AInv, NEW c \in CPUs, cpu[c] # NoPid, NEW page \in Page, NEW content,
           Found(c, cpu[c], page), SavePageInMemory(c, cpu[c], page, content)
    PROVE  WritesPage(c, page)
  <1>1. cpu[c] \in Resident
    BY Running
  <1>2. /\ HasFrame(cpu[c], page)
        /\ Translated(c, cpu[c], page) = LogicAddressToFrame(cpu[c], page)
    BY <1>1, TranslatedIsRight
  <1>3. \A f \in Frame : f # Translated(c, cpu[c], page) => userMemory'[f] = userMemory[f]
    BY DEF SavePageInMemory, TInv, TypeOK
  <1>. QED BY <1>2, <1>3 DEF WritesPage

LEMMA FlushedEntry ==
    ASSUME TInv, NEW c \in CPUs, Flushes(c)
    PROVE  LET i == Least(Entries(c, cpu[c]))
           IN  /\ cpu[c] # NoPid /\ i \in Slot[c] /\ cache[c][i].pid = cpu[c]
               /\ cache[c][i].page \in Page
               /\ cache' = [cache EXCEPT ![c][i] = EmptyEntry]
               /\ UNCHANGED <<pageBases, stage, cpu>>
               /\ \/ UNCHANGED userMemory
                  \/ /\ Found(c, cpu[c], cache[c][i].page) /\ cache[c][i].modified
                     /\ SavePageInMemory(c, cpu[c], cache[c][i].page, cache[c][i].content)
  <1>. DEFINE i == Least(Entries(c, cpu[c]))
              e == cache[c][i]
  <1>1. Entries(c, cpu[c]) \subseteq Nat /\ Entries(c, cpu[c]) # {} /\ cpu[c] # NoPid
    BY ConfigAssumption DEF Entries, Slot, Flushes
  <1>2. i \in Entries(c, cpu[c])
    BY <1>1, LeastIsLeast
  <1>3. i \in Slot[c] /\ e.pid = cpu[c] /\ e.page \in Page
    <2>1. i \in Slot[c] /\ e.pid = cpu[c]
      BY <1>2 DEF Entries
    <2>. HIDE DEF i
    <2>. QED BY <1>1, <2>1, EntryTypes
  <1>4. cache' = [cache EXCEPT ![c][i] = EmptyEntry] /\ UNCHANGED <<pageBases, stage, cpu>>
    BY DEF Flushes
  <1>5. \/ UNCHANGED userMemory
        \/ Found(c, e.pid, e.page) /\ e.modified /\ SavePageInMemory(c, e.pid, e.page, e.content)
    BY Zenon DEF Flushes
  <1>. HIDE DEF i
  <1>. QED BY <1>1, <1>3, <1>4, <1>5 DEF i

\* What a step of a CPU writes in the memory, and in whose page.
LEMMA StepWrites ==
    ASSUME AllInv, NEW c \in CPUs, CPUStep(c), userMemory' # userMemory
    PROVE  /\ cpu[c] # NoPid
           /\ \/ /\ Scans(c) /\ Chosen(c, cache[c][Hand(c)]) /\ cache[c][Hand(c)].pid = cpu[c]
                 /\ WritesPage(c, cache[c][Hand(c)].page)
              \/ WritesThrough(c) /\ WritesPage(c, job[c].page)
              \/ Flushes(c) /\ WritesPage(c, cache[c][Least(Entries(c, cpu[c]))].page)
  <1>0. TInv /\ AInv
    BY DEF AllInv
  <1>1. Scans(c) \/ WritesThrough(c) \/ Flushes(c)
    BY DEF CPUStep, Begins, Translates, Gets, WritesCache, ReadsCache, ReadsThrough, memoria,
           Syscalls, Exits, Interrupted, LeavesFor, Dispatches
  <1>2. CASE Scans(c)
    <2>. DEFINE e == cache[c][Hand(c)]
    <2>1. cpu[c] # NoPid /\ Hand(c) \in Slot[c] /\ Chosen(c, e)
      BY <1>0, <1>2, ActiveRuns, HandTurns DEF Scans
    <2>2. /\ e.pid # NoPid /\ Found(c, e.pid, e.page)
          /\ SavePageInMemory(c, e.pid, e.page, e.content)
      BY <1>2, Zenon DEF Scans
    <2>3. e.pid = cpu[c] /\ e.page \in Page
      BY <2>1, <2>2, OwnEntry
    <2>. HIDE DEF e
    <2>4. WritesPage(c, e.page)
      BY <1>0, <2>1, <2>2, <2>3, SavesOnePage
    <2>. QED BY <1>2, <2>1, <2>3, <2>4 DEF e
  <1>3. CASE WritesThrough(c)
    <2>1. /\ at[c] = "copy" /\ ~CacheEnable(c)
          /\ SavePageInMemory(c, cpu[c], job[c].page, Written(c, job[c].buffer))
      BY <1>3 DEF WritesThrough
    <2>2. Located(c) /\ Holds(c) /\ cpu[c] # NoPid /\ job[c].page \in Page
      BY <1>0, <2>1, ActiveRuns, ActiveFacts DEF AllInv, CInv, COwn, Holds, Active
    <2>3. Found(c, cpu[c], job[c].page)
      BY <2>2 DEF Located, Found
    <2>. QED BY <1>0, <1>3, <2>1, <2>2, <2>3, SavesOnePage
  <1>4. CASE Flushes(c)
    <2>. DEFINE i == Least(Entries(c, cpu[c]))
    <2>1. /\ cpu[c] # NoPid /\ cache[c][i].page \in Page /\ Found(c, cpu[c], cache[c][i].page)
          /\ SavePageInMemory(c, cpu[c], cache[c][i].page, cache[c][i].content)
      BY <1>0, <1>4, FlushedEntry
    <2>. HIDE DEF i
    <2>. QED BY <1>0, <1>4, <2>1, SavesOnePage DEF i
  <1>. QED BY <1>1, <1>2, <1>3, <1>4

\* A page of another process, and another page of this one, are not where c writes.
LEMMA OtherPagesKept ==
    ASSUME AllInv, NEW c \in CPUs, NEW d \in CPUs, cpu[c] # NoPid, cpu[d] # NoPid,
           NEW w \in Page, NEW page \in Page, WritesPage(c, w), HasFrame(cpu[d], page),
           d # c \/ page # w
    PROVE  userMemory'[LogicAddressToFrame(cpu[d], page)]
              = userMemory[LogicAddressToFrame(cpu[d], page)]
  <1>1. TInv /\ FramesInv /\ cpu[c] \in Resident /\ cpu[d] \in Resident /\ cpu[d] \in Procs
    BY Running DEF AllInv
  <1>2. LogicAddressToFrame(cpu[d], page) \in Frame
    BY <1>1, FrameOfPage DEF TInv
  <1>3. d # c => cpu[d] # cpu[c]
    BY <1>1 DEF TInv, RunsOne
  <1>4. LogicAddressToFrame(cpu[d], page) # LogicAddressToFrame(cpu[c], w)
    BY <1>1, <1>3, FramesApart DEF WritesPage
  <1>. QED BY <1>2, <1>4 DEF WritesPage

LEMMA WrittenPages ==
    ASSUME AllInv, NEW c \in CPUs, CPUStep(c), userMemory' # userMemory
    PROVE  \E w \in Page : WritesPage(c, w)
  <1>0. TInv
    BY DEF AllInv
  <1>1. Scans(c) /\ cache[c][Hand(c)].pid # NoPid => cache[c][Hand(c)].page \in Page
    BY <1>0, HandTurns, EntryTypes
  <1>2. WritesThrough(c) => job[c].page \in Page
    BY <1>0, ActiveFacts DEF WritesThrough, Active
  <1>3. Flushes(c) => cache[c][Least(Entries(c, cpu[c]))].page \in Page
    BY <1>0, FlushedEntry
  <1>. QED BY <1>1, <1>2, <1>3, StepWrites

\* The pages of the process that c runs are written by c alone.
LEMMA RunningPagesKept ==
    ASSUME AllInv, [Next]_vars, NEW c \in CPUs, ~CPUStep(c), cpu[c] # NoPid,
           NEW page \in Page, HasFrame(cpu[c], page)
    PROVE  userMemory'[LogicAddressToFrame(cpu[c], page)]
              = userMemory[LogicAddressToFrame(cpu[c], page)]
  <1>. DEFINE f == LogicAddressToFrame(cpu[c], page)
  <1>0. TInv /\ cpu[c] \in Resident /\ cpu[c] \in Procs /\ HasPage(cpu[c], f) /\ f \in Frame
    BY Running, FrameOfPage DEF AllInv, TInv, HasFrame, HasPage, LogicAddressToFrame
  <1>1. CASE UNCHANGED vars
    BY <1>1 DEF vars, memoria
  <1>2. ASSUME NEW d \in CPUs, CPUStep(d), userMemory' # userMemory
        PROVE  userMemory'[f] = userMemory[f]
    <2>1. d # c /\ cpu[d] # NoPid
      BY <1>2, StepWrites
    <2>2. \E w \in Page : WritesPage(d, w)
      BY <1>2, WrittenPages
    <2>. QED BY <2>1, <2>2, OtherPagesKept
  <1>3. ASSUME NEW p \in Procs, ProcStep(p), userMemory' # userMemory
        PROVE  userMemory'[f] = userMemory[f]
    <2>1. Returns(p)
      BY <1>3 DEF ProcStep, Admits, Unblocks, Suspends
    <2>2. PICK bases : /\ FirstFit(bases)
                       /\ userMemory' = [g \in Frame |->
                             IF \E i \in DOMAIN bases : bases[i] = g
                             THEN swap[p][CHOOSE i \in DOMAIN bases : bases[i] = g]
                             ELSE userMemory[g]]
      BY <2>1, Zenon DEF Returns
    <2>3. \A i \in DOMAIN bases : bases[i] # f
      BY <1>0, <2>2 DEF FirstFit, Free
    <2>. HIDE DEF f
    <2>. QED BY <1>0, <2>2, <2>3
  <1>. QED BY <1>1, <1>2, <1>3, StepsOfWhom

\* A page of the process that runs stays as good in the cache as it was.
LEMMA EntryKept ==
    ASSUME TInv, NEW c \in CPUs, NEW i \in Slot[c], NEW j \in Slot[c], Kept(c),
           UNCHANGED <<cpu[c], pageBases[cpu[c]]>>, cache'[c][i].pid # NoPid,
           cache[c][j].pid # NoPid, cache'[c][i].page = cache[c][j].page,
           cache'[c][i].content = cache[c][j].content,
           cache'[c][i].modified = cache[c][j].modified,
           userMemory'[LogicAddressToFrame(cpu[c], cache[c][j].page)]
              = userMemory[LogicAddressToFrame(cpu[c], cache[c][j].page)]
    PROVE  /\ HasFrame(cpu[c], cache[c][i].page)' /\ cache'[c][i].content \in Content
           /\ cache'[c][i].modified
                 \/ cache'[c][i].content
                       = userMemory'[LogicAddressToFrame(cpu[c], cache[c][i].page)']
  BY DEF Kept, HasFrame, LogicAddressToFrame

LEMMA ScansKeep ==
    ASSUME AllInv, NEW c \in CPUs, Kept(c), Buffered(c), Scans(c)
    PROVE  Kept(c)'
  <1>. DEFINE h == Hand(c)
              e == cache[c][h]
  <1>0. TInv /\ OInv /\ FramesInv /\ Located(c)
    BY DEF AllInv, CInv, COwn
  <1>1. /\ CacheEnable(c) /\ h \in Slot[c] /\ e \in CacheEntry /\ Fetched(c) \in CacheEntry
        /\ at[c] = "scan" /\ UNCHANGED <<cpu, pageBases>>
    <2>1. at[c] = "scan" /\ UNCHANGED <<cpu, pageBases>>
      BY DEF Scans
    <2>. QED BY <1>0, <2>1, HandTurns
  <1>2. /\ cpu[c] # NoPid /\ cpu[c] \in Procs /\ job[c].page \in Page /\ CPUStep(c)
    BY <1>0, <1>1, ActiveRuns, ActiveFacts DEF Active, CPUStep
  <1>3. SUFFICES ASSUME NEW j \in Slot[c], cache'[c][j].pid # NoPid
                 PROVE  /\ HasFrame(cpu[c], cache[c][j].page)' /\ cache'[c][j].content \in Content
                        /\ cache'[c][j].modified
                              \/ cache'[c][j].content
                                    = userMemory'[LogicAddressToFrame(cpu[c], cache[c][j].page)']
    BY DEF Kept
  <1>4. CASE ~Chosen(c, e)
    <2>1. /\ cache'[c] = HandMoved(cache[c], h, Passed(c, e)) /\ UNCHANGED userMemory
      BY <1>0, <1>4, HandTurns
    <2>2. /\ Passed(c, e) \in CacheEntry /\ Passed(c, e).pid = e.pid /\ Passed(c, e).page = e.page
          /\ Passed(c, e).content = e.content /\ Passed(c, e).modified = e.modified
      BY <1>0, <1>1, PassedFields
    <2>. HIDE DEF h
    <2>3. /\ cache'[c][j].pid = cache[c][j].pid /\ cache'[c][j].page = cache[c][j].page
          /\ cache'[c][j].content = cache[c][j].content
          /\ cache'[c][j].modified = cache[c][j].modified
      BY <1>0, <1>1, <2>1, <2>2, HandMovedFields
    <2>. QED BY <1>0, <1>1, <1>3, <2>1, <2>3, EntryKept
  <1>5. CASE Chosen(c, e)
    <2>1. cache'[c] = HandMoved(cache[c], h, Fetched(c))
      BY <1>0, <1>5, HandTurns
    <2>. HIDE DEF h
    <2>2. ASSUME NEW page \in Page, HasFrame(cpu[c], page), e.pid # NoPid => page # e.page
          PROVE  userMemory'[LogicAddressToFrame(cpu[c], page)]
                    = userMemory[LogicAddressToFrame(cpu[c], page)]
      <3>1. CASE userMemory' = userMemory
        BY <3>1
      <3>2. CASE userMemory' # userMemory
        <4>1. e.pid = cpu[c] /\ WritesPage(c, e.page)
          BY <1>1, <1>2, <3>2, StepWrites DEF Scans, WritesThrough, Flushes, h
        <4>2. e.page \in Page
          BY <1>1, <1>2, <4>1, OwnEntry
        <4>. QED BY <1>2, <2>2, <4>1, <4>2, OtherPagesKept
      <3>. QED BY <3>1, <3>2
    <2>3. CASE j = h
      <3>1. /\ cache'[c][j].page = job[c].page /\ cache'[c][j].content = job[c].buffer
        BY <1>0, <1>1, <2>1, <2>3, HandMovedFields DEF Fetched
      <3>2. /\ HasFrame(cpu[c], job[c].page)
            /\ job[c].buffer = userMemory[LogicAddressToFrame(cpu[c], job[c].page)]
        BY <1>0, <1>1 DEF Located, Holds, Buffered
      <3>3. job[c].buffer \in Content
        BY <1>0, <1>2, <3>2, FrameOfPage DEF TInv, TypeOK
      <3>4. e.page # job[c].page
        BY <1>0, <1>1 DEF OInv, NotYetCached
      <3>5. userMemory'[LogicAddressToFrame(cpu[c], job[c].page)] = job[c].buffer
        BY <1>2, <2>2, <3>2, <3>4
      <3>. QED BY <1>1, <3>1, <3>2, <3>3, <3>5 DEF HasFrame, LogicAddressToFrame
    <2>4. CASE j # h
      <3>1. /\ cache'[c][j].pid = cache[c][j].pid /\ cache'[c][j].page = cache[c][j].page
            /\ cache'[c][j].content = cache[c][j].content
            /\ cache'[c][j].modified = cache[c][j].modified
        BY <1>0, <1>1, <2>1, <2>4, HandMovedFields
      <3>2. cache[c][j].pid = cpu[c] /\ cache[c][j].page \in Page
            /\ HasFrame(cpu[c], cache[c][j].page)
        BY <1>3, <3>1, OwnEntry DEF Kept
      <3>3. e.pid # NoPid => cache[c][j].page # e.page
        BY <1>0, <1>1, <1>2, <2>4, <3>2 DEF OInv, CachedOnce
      <3>4. userMemory'[LogicAddressToFrame(cpu[c], cache[c][j].page)]
               = userMemory[LogicAddressToFrame(cpu[c], cache[c][j].page)]
        BY <2>2, <3>2, <3>3
      <3>. QED BY <1>0, <1>1, <1>3, <3>1, <3>4, EntryKept
    <2>. QED BY <2>3, <2>4
  <1>. QED BY <1>4, <1>5

LEMMA FlushesKeep ==
    ASSUME AllInv, NEW c \in CPUs, Kept(c), Flushes(c)
    PROVE  Kept(c)'
  <1>. DEFINE i == Least(Entries(c, cpu[c]))
              e == cache[c][i]
  <1>0. TInv /\ OInv
    BY DEF AllInv
  <1>1. /\ cpu[c] # NoPid /\ i \in Slot[c] /\ e.pid = cpu[c] /\ e.page \in Page
        /\ cache' = [cache EXCEPT ![c][i] = EmptyEntry] /\ UNCHANGED <<cpu, pageBases>>
    BY <1>0, FlushedEntry
  <1>2. userMemory' # userMemory => WritesPage(c, e.page)
    BY <1>0, FlushedEntry, SavesOnePage DEF AllInv
  <1>. HIDE DEF i
  <1>3. ASSUME NEW j \in Slot[c], cache'[c][j].pid # NoPid
        PROVE  /\ HasFrame(cpu[c], cache[c][j].page)' /\ cache'[c][j].content \in Content
               /\ cache'[c][j].modified
                     \/ cache'[c][j].content
                           = userMemory'[LogicAddressToFrame(cpu[c], cache[c][j].page)']
    <2>0. DOMAIN cache = CPUs /\ cache[c] \in [Slot[c] -> CacheEntry] /\ EmptyEntry.pid = NoPid
      BY <1>0 DEF TInv, TypeOK, EmptyEntry
    <2>1. j # i
      BY <1>1, <1>3, <2>0
    <2>2. cache'[c][j] = cache[c][j]
      BY <1>1, <2>0, <2>1
    <2>3. cache[c][j].pid = cpu[c] /\ cache[c][j].page \in Page
          /\ HasFrame(cpu[c], cache[c][j].page)
      BY <1>3, <2>2, OwnEntry DEF Kept
    <2>4. cache[c][j].page # e.page
      BY <1>0, <1>1, <2>1, <2>3 DEF OInv, CachedOnce
    <2>5. userMemory'[LogicAddressToFrame(cpu[c], cache[c][j].page)]
             = userMemory[LogicAddressToFrame(cpu[c], cache[c][j].page)]
      <3>1. CASE userMemory' = userMemory
        BY <3>1
      <3>2. CASE userMemory' # userMemory
        BY <1>1, <1>2, <2>3, <2>4, <3>2, OtherPagesKept
      <3>. QED BY <3>1, <3>2
    <2>. QED BY <1>0, <1>1, <1>3, <2>2, <2>5, EntryKept
  <1>. QED BY <1>3 DEF Kept

LEMMA CopiesKeep ==
    ASSUME AllInv, NEW c \in CPUs, Kept(c),
           WritesCache(c) \/ WritesThrough(c) \/ ReadsCache(c) \/ ReadsThrough(c)
    PROVE  Kept(c)'
  <1>0. TInv /\ at[c] \in Active /\ UNCHANGED <<cpu, pageBases>>
    BY DEF AllInv, WritesCache, WritesThrough, ReadsCache, ReadsThrough, Active, memoria
  <1>1. CASE WritesThrough(c) \/ ReadsThrough(c)
    <2>1. ~CacheEnable(c)
      BY <1>1 DEF WritesThrough, ReadsThrough
    <2>2. Slot[c] = {}
      BY <2>1 DEF CacheEnable, Slot
    <2>. QED BY <2>2 DEF Kept
  <1>2. CASE WritesCache(c) \/ ReadsCache(c)
    <2>1. UNCHANGED userMemory
      BY <1>2 DEF WritesCache, ReadsCache, memoria
    <2>2. ASSUME NEW j \in Slot[c], cache'[c][j].pid # NoPid
          PROVE  /\ HasFrame(cpu[c], cache[c][j].page)' /\ cache'[c][j].content \in Content
                 /\ cache'[c][j].modified
                       \/ cache'[c][j].content
                             = userMemory'[LogicAddressToFrame(cpu[c], cache[c][j].page)']
      <3>1. cache'[c][j].pid = cache[c][j].pid /\ cache'[c][j].page = cache[c][j].page
        BY <1>0, CopyChanges
      <3>2. CASE /\ cache'[c][j].content = cache[c][j].content
                 /\ cache'[c][j].modified = cache[c][j].modified
        BY <1>0, <2>1, <2>2, <3>1, <3>2, EntryKept
      <3>3. CASE /\ WritesCache(c) /\ cache'[c][j].modified
                 /\ cache'[c][j].content = Written(c, cache[c][j].content)
        <4>1. HasFrame(cpu[c], cache[c][j].page) /\ cache[c][j].content \in Content
          BY <2>2, <3>1 DEF Kept
        <4>2. cache'[c][j].content \in Content
          <5>1. doing[c].kind = "write"
            BY <3>3 DEF WritesCache
          <5>2. Written(c, cache[c][j].content) \in Content \union {NoBytes}
            BY <1>0, <4>1, <5>1, WrittenIsContent
          <5>3. DOMAIN Written(c, cache[c][j].content) = 0 .. PageSize - 1
            BY <4>1 DEF Written, Content
          <5>4. DOMAIN NoBytes # 0 .. PageSize - 1
            BY SizesAssumption DEF NoBytes
          <5>. QED BY <3>3, <5>2, <5>3, <5>4
        <4>. QED BY <1>0, <3>1, <3>3, <4>1, <4>2 DEF HasFrame
      <3>. QED BY <1>0, <3>2, <3>3, CopyChanges
    <2>. QED BY <2>2 DEF Kept
  <1>. QED BY <1>1, <1>2

LEMMA StepKept ==
    ASSUME AllInv, MInv, [Next]_vars, NEW c \in CPUs,
           "interruptCached" \notin Hazards
    PROVE  Kept(c)'
  <1>0. TInv /\ CInv /\ Kept(c) /\ Buffered(c) /\ DOMAIN cache[c] = Slot[c]
    BY DEF AllInv, MInv, TInv, TypeOK
  <1>1. CASE ~CPUStep(c)
    <2>1. UNCHANGED <<cpu[c], cache[c]>>
      BY <1>0, <1>1, OwnKept DEF Own
    <2>2. ASSUME NEW i \in Slot[c], cache'[c][i].pid # NoPid
          PROVE  /\ HasFrame(cpu[c], cache[c][i].page)' /\ cache'[c][i].content \in Content
                 /\ cache'[c][i].modified
                       \/ cache'[c][i].content
                             = userMemory'[LogicAddressToFrame(cpu[c], cache[c][i].page)']
      <3>1. cpu[c] # NoPid /\ cache[c][i].page \in Page /\ HasFrame(cpu[c], cache[c][i].page)
        BY <1>0, <2>1, <2>2, OwnEntry DEF Kept
      <3>2. pageBases'[cpu[c]] = pageBases[cpu[c]]
        BY <1>0, <1>1, <3>1, RunningKept
      <3>3. userMemory'[LogicAddressToFrame(cpu[c], cache[c][i].page)]
               = userMemory[LogicAddressToFrame(cpu[c], cache[c][i].page)]
        BY <1>1, <3>1, RunningPagesKept
      <3>. QED BY <1>0, <2>1, <2>2, <3>2, <3>3, EntryKept
    <2>. QED BY <2>2 DEF Kept
  <1>2. CASE (\E p \in Procs : \E r \in Requests[p] : Begins(c, p, r)) \/ Translates(c) \/ Gets(c)
    BY <1>0, <1>2 DEF Begins, Translates, Gets, memoria, Kept, HasFrame, LogicAddressToFrame
  <1>3. CASE Scans(c)
    BY <1>0, <1>3, ScansKeep
  <1>4. CASE WritesCache(c) \/ WritesThrough(c) \/ ReadsCache(c) \/ ReadsThrough(c)
    BY <1>0, <1>4, CopiesKeep
  <1>5. CASE Flushes(c)
    BY <1>0, <1>5, FlushesKeep
  <1>6. CASE Syscalls(c) \/ Exits(c) \/ Interrupted(c) \/ \E p \in Procs : Dispatches(c, p)
    <2>1. UNCHANGED cache
      BY <1>6 DEF Syscalls, Exits, Interrupted, LeavesFor, Dispatches
    <2>2. OwnPages(c) /\ OwnPages(c)'
      BY <1>0, StepOwnPages DEF CInv, COwn
    <2>3. cpu[c] = NoPid \/ cpu'[c] = NoPid
      BY <1>0, <1>6
         DEF Syscalls, Exits, Interrupted, LeavesFor, Dispatches, TInv, TypeOK
    <2>4. \A i \in Slot[c] : cache'[c][i].pid = NoPid
      BY <2>1, <2>2, <2>3 DEF OwnPages
    <2>. QED BY <2>4 DEF Kept
  <1>. QED BY <1>1, <1>2, <1>3, <1>4, <1>5, <1>6 DEF CPUStep

LEMMA StepBuffered ==
    ASSUME AllInv, MInv, [Next]_vars, NEW c \in CPUs
    PROVE  Buffered(c)'
  <1>0. TInv /\ Located(c) /\ Buffered(c)
    BY DEF AllInv, CInv, COwn, MInv
  <1>1. SUFFICES ASSUME Holds(c)', at'[c] # "get"
                 PROVE  job'[c].buffer = userMemory'[job'[c].frame]
    BY DEF Buffered
  <1>2. CASE ~CPUStep(c)
    <2>1. UNCHANGED <<cpu[c], at[c], job[c]>>
      BY <1>0, <1>2, OwnKept DEF Own
    <2>2. Holds(c) /\ at[c] # "get"
      BY <1>1, <2>1 DEF Holds
    <2>3. cpu[c] # NoPid /\ job[c].page \in Page
      BY <1>0, <2>2, ActiveRuns, ActiveFacts DEF Holds, Active
    <2>4. /\ HasFrame(cpu[c], job[c].page)
          /\ job[c].frame = LogicAddressToFrame(cpu[c], job[c].page)
          /\ job[c].buffer = userMemory[job[c].frame]
      BY <1>0, <2>2 DEF Located, Buffered
    <2>5. userMemory'[job[c].frame] = userMemory[job[c].frame]
      BY <1>2, <2>3, <2>4, RunningPagesKept
    <2>. QED BY <2>1, <2>4, <2>5
  <1>3. CASE Translates(c)
    BY <1>0, <1>1, <1>3, TranslatesTo DEF Holds, Active
  <1>4. CASE Gets(c)
    <2>1. HasPage(cpu[c], job[c].frame)
      BY <1>0, <1>4, HeldFrame DEF Gets, Holds
    <2>. QED BY <1>0, <1>4, <2>1, GetsPage DEF memoria
  <1>5. CASE Scans(c)
    <2>1. Holds(c) /\ at[c] # "get" /\ CacheEnable(c)
      BY <1>0, <1>5, HandTurns DEF Scans, Holds
    <2>2. at'[c] \notin {"copy", "down"}
      BY <1>1, <2>1 DEF Holds
    <2>3. job'[c] = [job[c] EXCEPT !.examined = @ + 1] /\ userMemory' = userMemory
      BY <1>0, <1>5, <2>2, HandTurns
    <2>4. job[c] \in Job
      BY <1>0 DEF TInv, TypeOK
    <2>. QED BY <1>0, <2>1, <2>3, <2>4 DEF Buffered, Job
  <1>. QED BY <1>0, <1>1, <1>2, <1>3, <1>4, <1>5, HoldsAfter

LEMMA StepMatches ==
    ASSUME "interruptCached" \notin Hazards
    PROVE  AllInv /\ MInv /\ [Next]_vars => MInv'
  BY StepKept, StepBuffered DEF MInv

LEMMA InitMatches == Init => MInv
  BY DEF Init, MInv, Kept, Buffered, Holds, EmptyEntry

\* A page that is dropped without being saved is as memoria has it: whatever other CPUs and
\* memoria do meanwhile, a page that is in a cache and not marked as modified has the bytes
\* of its frame.  The conditions are those of CachesHoldTheRunning, without which a page may
\* be written to a frame that has been given away (EndProcess, AddEntryCache, SavePageInMemory).
THEOREM CleanPagesAreSaved ==
    ASSUME "suspendTranslated" \notin Hazards, "interruptCached" \notin Hazards,
           "overrunCached" \notin Hazards
    PROVE  Spec => []CleanPagesMatch
  <1>1. AllInv /\ MInv => CleanPagesMatch
    <2>. SUFFICES ASSUME AllInv, MInv, NEW c \in CPUs, NEW i \in Slot[c],
                         cache[c][i].pid # NoPid, ~cache[c][i].modified
                  PROVE  cache[c][i].content
                            = userMemory[LogicAddressToFrame(cache[c][i].pid, cache[c][i].page)]
      BY DEF CleanPagesMatch
    <2>1. cache[c][i].pid = cpu[c]
      BY OwnEntry
    <2>. QED BY <2>1 DEF MInv, Kept
  <1>2. Init => AllInv /\ MInv
    BY InitAll, InitMatches
  <1>3. AllInv /\ MInv /\ [Next]_vars => (AllInv /\ MInv)'
    BY StepAll, StepMatches
  <1>. QED BY <1>1, <1>2, <1>3, PTL DEF Spec

-----------------------------------------------------------------------------
(* How far the hand goes *)

\* How many turns ago the hand was on entry j, were it to have gone once round.
Behind(c, j) == IF j < Hand(c) THEN Hand(c) - j ELSE Hand(c) + CacheEntries[c] - j

\* CLOCK has cleared the use bit of every entry that it has passed.
SweptClock(c) ==
    LET n == CacheEntries[c]
        r == job[c].examined
    IN  /\ r <= n
        /\ \A j \in Slot[c] : Behind(c, j) <= r => ~cache[c][j].use

\* What CLOCK-M knows of an entry: in the first round it has passed those in use or
\* modified, in the second it has cleared their use bits, in the third it has passed those
\* that are modified.  The fourth has nothing to pass.
SweptEntry(r, n, b, use, modified) ==
    /\ r <= n /\ b <= r => use \/ modified
    /\ n <= r /\ r <= 2 * n => (b <= r - n => ~use) /\ (b > r - n => use \/ modified)
    /\ 2 * n <= r => ~use /\ (b <= r - 2 * n => modified)
SweptClockM(c) ==
    LET n == CacheEntries[c]
        r == job[c].examined
    IN  /\ r <= 3 * n
        /\ \A j \in Slot[c] :
              SweptEntry(r, n, Behind(c, j), cache[c][j].use, cache[c][j].modified)

SInv == \A c \in CPUs :
    IF at[c] = "scan"
    THEN IF CacheReplacement[c] = "CLOCK" THEN SweptClock(c) ELSE SweptClockM(c)
    ELSE job[c].examined = 0

LEMMA SlotsAreAll ==
    ASSUME NEW c \in CPUs, CacheEnable(c)
    PROVE  /\ CacheEntries[c] \in Nat \ {0} /\ Slot[c] = 0 .. CacheEntries[c] - 1
           /\ Cardinality(Slot[c]) = CacheEntries[c]
  <1>. DEFINE n == CacheEntries[c]
  <1>1. n \in Nat \ {0} /\ Slot[c] = 0 .. n - 1
    BY ConfigAssumption DEF CacheEnable, Slot
  <1>2. Cardinality(0 .. n - 1) = n
    <2>1. 0 \in Int /\ n - 1 \in Int /\ 0 <= n - 1 /\ ((n - 1) - 0) + 1 = n
      BY <1>1
    <2>2. Cardinality(0 .. n - 1) = IF 0 > n - 1 THEN 0 ELSE ((n - 1) - 0) + 1
      BY <2>1, FS_Interval, Zenon
    <2>. QED BY <1>1, <2>1, <2>2
  <1>. QED BY <1>1, <1>2

\* A turn of the hand that passes an entry: the hand is on the next, and all that the
\* entry may lose is its use bit.
LEMMA PassMoves ==
    ASSUME TInv, OInv, OInv', NEW c \in CPUs, Scans(c), ~Chosen(c, cache[c][Hand(c)])
    PROVE  LET h == Hand(c)
               n == CacheEntries[c]
           IN  /\ n \in Nat \ {0} /\ h \in Slot[c]
               /\ at[c] = "scan" /\ at'[c] = "scan"
               /\ job[c].examined \in Nat /\ job'[c].examined = job[c].examined + 1
               /\ Behind(c, h) = n
               /\ \A j \in Slot[c] : /\ Behind(c, j) \in 1 .. n
                                     /\ j # h => Behind(c, j) < n
                                     /\ Behind(c, j)' = IF j = h THEN 1 ELSE Behind(c, j) + 1
                                     /\ cache'[c][j].modified = cache[c][j].modified
                                     /\ j # h => cache'[c][j].use = cache[c][j].use
               /\ cache'[c][h].use = Passed(c, cache[c][h]).use
  <1>. DEFINE h == Hand(c)
              n == CacheEntries[c]
              e == cache[c][h]
              next == (h + 1) % n
  <1>1. /\ CacheEnable(c) /\ h \in Slot[c] /\ e \in CacheEntry /\ at[c] = "scan" /\ at'[c] = at[c]
        /\ cache'[c] = HandMoved(cache[c], h, Passed(c, e))
        /\ job'[c] = [job[c] EXCEPT !.examined = @ + 1] /\ job[c] \in Job
    <2>1. at[c] = "scan"
      BY DEF Scans
    <2>. QED BY <2>1, HandTurns DEF TInv, TypeOK
  <1>2. n \in Nat \ {0} /\ Slot[c] = 0 .. n - 1 /\ Cardinality(Slot[c]) = n
    BY <1>1, SlotsAreAll
  <1>3. /\ Passed(c, e) \in CacheEntry /\ Passed(c, e).modified = e.modified
    BY <1>1, PassedFields
  <1>. HIDE DEF h, e
  <1>4. job[c].examined \in Nat /\ job'[c].examined = job[c].examined + 1
    BY <1>1 DEF Job
  <1>. HIDE DEF n
  <1>5. next \in Slot[c] /\ next = IF h = n - 1 THEN 0 ELSE h + 1
    <2>1. h \in 0 .. n - 1
      BY <1>1, <1>2
    <2>2. CASE h = n - 1
      BY <1>2, <2>1, <2>2
    <2>3. CASE h # n - 1
      BY <1>2, <2>1, <2>3
    <2>. QED BY <2>2, <2>3
  <1>6. \A j \in Slot[c] : /\ cache'[c][j].modified = cache[c][j].modified
                           /\ j # h => cache'[c][j].use = cache[c][j].use
    <2>1. ASSUME NEW j \in Slot[c]
          PROVE  /\ cache'[c][j].modified = cache[c][j].modified
                 /\ j # h => cache'[c][j].use = cache[c][j].use
      <3>1. CASE j = h
        BY <1>1, <1>3, <3>1, HandMovedFields DEF e
      <3>2. CASE j # h
        BY <1>1, <1>3, <3>2, HandMovedFields
      <3>. QED BY <3>1, <3>2
    <2>. QED BY <2>1
  <1>7. cache'[c][h].use = Passed(c, e).use
    BY <1>1, <1>3, HandMovedFields
  <1>8. cache'[c][next].position
    <2>1. next = (h + 1) % Cardinality(Slot[c])
      BY <1>2
    <2>. HIDE DEF next
    <2>. QED BY <1>1, <1>3, <1>5, <2>1, HandMovedFields
  <1>. HIDE DEF next
  <1>9. Hand(c)' = next
    <2>. DEFINE S == {k \in Slot[c] : cache'[c][k].position}
    <2>1. S = {next}
      BY <1>5, <1>8 DEF OInv, CachedOnce
    <2>2. Hand(c)' = Least(S)
      BY <2>1 DEF Hand
    <2>. HIDE DEF S
    <2>3. next \in Nat
      BY <1>2, <1>5
    <2>4. S \subseteq Nat /\ S # {}
      BY <2>1, <2>3
    <2>5. Least(S) \in S
      BY <2>4, LeastIsLeast
    <2>. QED BY <2>1, <2>2, <2>5
  <1>10. /\ Behind(c, h) = n
         /\ \A j \in Slot[c] : /\ Behind(c, j) \in 1 .. n
                               /\ j # h => Behind(c, j) < n
                               /\ Behind(c, j)' = IF j = h THEN 1 ELSE Behind(c, j) + 1
    <2>1. \A j \in Slot[c] : /\ Behind(c, j) = IF j < h THEN h - j ELSE h + n - j
                             /\ Behind(c, j)' = IF j < next THEN next - j ELSE next + n - j
      BY <1>9 DEF Behind, h, n
    <2>2. h \in 0 .. n - 1 /\ h < n
      BY <1>1, <1>2
    <2>3. ASSUME NEW j \in 0 .. n - 1
          PROVE  /\ Behind(c, j) \in 1 .. n /\ (j # h => Behind(c, j) < n)
                 /\ Behind(c, j)' = IF j = h THEN 1 ELSE Behind(c, j) + 1
      <3>1. /\ Behind(c, j) = IF j < h THEN h - j ELSE h + n - j
            /\ Behind(c, j)' = IF j < next THEN next - j ELSE next + n - j
        BY <1>2, <2>1, <2>3
      <3>2. CASE h = n - 1
        BY <1>2, <1>5, <2>2, <3>1, <3>2
      <3>3. CASE h # n - 1
        BY <1>2, <1>5, <2>2, <3>1, <3>3
      <3>. QED BY <3>2, <3>3
    <2>4. Behind(c, h) = n
      <3>1. Behind(c, h) = IF h < h THEN h - h ELSE h + n - h
        BY <1>1, <2>1
      <3>. QED BY <1>2, <2>2, <3>1
    <2>. HIDE DEF Behind
    <2>. QED BY <1>2, <2>3, <2>4
  <1>. QED BY <1>1, <1>2, <1>4, <1>6, <1>7, <1>10 DEF h, n, e

LEMMA Rounds ==
    ASSUME NEW c \in CPUs, NEW n \in Nat \ {0}, n = CacheEntries[c],
           NEW r \in Nat, r = job[c].examined
    PROVE  /\ r < n => ~SecondRound(c)
           /\ n <= r /\ r < 2 * n => SecondRound(c)
           /\ 2 * n <= r /\ r < 3 * n => ~SecondRound(c)
           /\ r = 3 * n => SecondRound(c)
  <1>1. ASSUME NEW q \in 0 .. 3, q * n <= r, r < (q + 1) * n
        PROVE  r \div n = q
    <2>1. r - (q * n) \in 0 .. n - 1
      BY <1>1
    <2>2. /\ r \div n \in Nat /\ r % n \in 0 .. n - 1 /\ r = n * (r \div n) + (r % n)
      BY Divided
    <2>. DEFINE a == r \div n
                x == r % n
                y == r - (q * n)
                b == q
    <2>3. a \in Nat /\ x \in 0 .. n - 1 /\ y \in 0 .. n - 1 /\ b \in Nat
          /\ a * n + x = b * n + y
      BY <2>1, <2>2
    <2>. HIDE DEF a, x, y, b
    <2>4. a = b
      BY <2>3, RemainderOfDigits
    <2>. QED BY <2>4 DEF a, b
  <1>2. SecondRound(c) <=> (r \div n) % 2 = 1
    BY DEF SecondRound
  <1>3. r < n => r \div n = 0
    BY <1>1
  <1>4. n <= r /\ r < 2 * n => r \div n = 1
    BY <1>1
  <1>5. 2 * n <= r /\ r < 3 * n => r \div n = 2
    BY <1>1
  <1>6. r = 3 * n => r \div n = 3
    BY <1>1
  <1>. QED BY <1>2, <1>3, <1>4, <1>5, <1>6

\* The entries that the hand is not on.
LEMMA OtherEntriesSwept ==
    ASSUME NEW n \in Nat \ {0}, NEW r \in Nat, NEW b \in 1 .. n - 1, NEW use, NEW modified,
           r < 3 * n, SweptEntry(r, n, b, use, modified)
    PROVE  SweptEntry(r + 1, n, b + 1, use, modified)
  BY DEF SweptEntry

\* The entry that it passes, by the round.
LEMMA PassedEntrySwept ==
    ASSUME NEW n \in Nat \ {0}, NEW r \in Nat, r <= 3 * n, NEW use \in BOOLEAN,
           NEW modified \in BOOLEAN, NEW odd \in BOOLEAN, SweptEntry(r, n, n, use, modified),
           r < n => ~odd, n <= r /\ r < 2 * n => odd,
           2 * n <= r /\ r < 3 * n => ~odd, r = 3 * n => odd,
           use \/ (modified <=> ~odd)
    PROVE  r < 3 * n /\ SweptEntry(r + 1, n, 1, use /\ ~odd, modified)
  <1>1. CASE r < n
    BY <1>1 DEF SweptEntry
  <1>2. CASE n <= r /\ r < 2 * n
    BY <1>2 DEF SweptEntry
  <1>3. CASE 2 * n <= r
    BY <1>3 DEF SweptEntry
  <1>. QED BY <1>1, <1>2, <1>3

LEMMA PassSweeps ==
    ASSUME TInv, OInv, OInv', NEW c \in CPUs, Scans(c), ~Chosen(c, cache[c][Hand(c)])
    PROVE  /\ CacheReplacement[c] = "CLOCK" /\ SweptClock(c) => SweptClock(c)'
           /\ CacheReplacement[c] # "CLOCK" /\ SweptClockM(c) => SweptClockM(c)'
  <1>. DEFINE h == Hand(c)
              n == CacheEntries[c]
              r == job[c].examined
              e == cache[c][h]
  <1>1. /\ n \in Nat \ {0} /\ h \in Slot[c] /\ r \in Nat /\ job'[c].examined = r + 1
        /\ Behind(c, h) = n
        /\ \A j \in Slot[c] : /\ Behind(c, j) \in 1 .. n /\ (j # h => Behind(c, j) < n)
                              /\ Behind(c, j)' = IF j = h THEN 1 ELSE Behind(c, j) + 1
                              /\ cache'[c][j].modified = cache[c][j].modified
                              /\ j # h => cache'[c][j].use = cache[c][j].use
        /\ cache'[c][h].use = Passed(c, e).use
    BY PassMoves
  <1>2. e \in CacheEntry /\ e.use \in BOOLEAN /\ e.modified \in BOOLEAN
    BY <1>1, EntryTypes DEF CacheEntry
  <1>3. CASE CacheReplacement[c] = "CLOCK" /\ SweptClock(c)
    <2>1. cache'[c][h].use = FALSE /\ e.use
      BY <1>1, <1>2, <1>3, PassedFields DEF Chosen
    <2>. HIDE DEF h, n, r, e
    <2>2. r <= n /\ \A j \in Slot[c] : Behind(c, j) <= r => ~cache[c][j].use
      BY <1>3 DEF SweptClock, n, r
    <2>3. r + 1 <= n
      BY <1>1, <2>1, <2>2 DEF e
    <2>4. \A j \in Slot[c] : Behind(c, j)' <= r + 1 => ~cache'[c][j].use
      <3>1. ASSUME NEW j \in Slot[c], Behind(c, j)' <= r + 1
            PROVE  ~cache'[c][j].use
        <4>1. CASE j = h
          BY <2>1, <4>1
        <4>2. CASE j # h
          BY <1>1, <2>2, <3>1, <4>2
        <4>. QED BY <4>1, <4>2
      <3>. QED BY <3>1
    <2>. QED BY <1>1, <1>3, <2>3, <2>4 DEF SweptClock, n
  <1>4. CASE CacheReplacement[c] # "CLOCK" /\ SweptClockM(c)
    <2>. DEFINE odd == SecondRound(c)
    <2>1. odd \in BOOLEAN /\ (e.use \/ (e.modified <=> ~odd))
      BY <1>2, <1>4 DEF Chosen, SecondRound
    <2>2. cache'[c][h].use = (e.use /\ ~odd)
      <3>1. IF odd THEN cache'[c][h].use = FALSE ELSE cache'[c][h].use = e.use
        BY <1>1, <1>2, <1>4, PassedFields
      <3>. HIDE DEF odd, e, h
      <3>. QED BY <1>2, <2>1, <3>1, Zenon
    <2>3. /\ r < n => ~odd
          /\ n <= r /\ r < 2 * n => odd
          /\ 2 * n <= r /\ r < 3 * n => ~odd
          /\ r = 3 * n => odd
      BY <1>1, Rounds
    <2>. HIDE DEF h, n, r, e, odd
    <2>4. r <= 3 * n /\ \A j \in Slot[c] :
             SweptEntry(r, n, Behind(c, j), cache[c][j].use, cache[c][j].modified)
      BY <1>4 DEF SweptClockM, n, r
    <2>5. r < 3 * n /\ SweptEntry(r + 1, n, 1, e.use /\ ~odd, e.modified)
      <3>1. SweptEntry(r, n, n, e.use, e.modified)
        BY <1>1, <2>4 DEF e
      <3>. QED BY <1>1, <1>2, <2>1, <2>3, <2>4, <3>1, PassedEntrySwept
    <2>6. ASSUME NEW j \in Slot[c]
          PROVE  SweptEntry(r + 1, n, Behind(c, j)', cache'[c][j].use, cache'[c][j].modified)
      <3>1. CASE j = h
        BY <1>1, <2>2, <2>5, <3>1 DEF e
      <3>2. CASE j # h
        BY <1>1, <2>4, <2>5, <3>2, OtherEntriesSwept
      <3>. QED BY <3>1, <3>2
    <2>7. r + 1 <= 3 * n
      BY <1>1, <2>5
    <2>. QED BY <1>1, <1>4, <2>6, <2>7 DEF SweptClockM, n
  <1>. QED BY <1>3, <1>4

LEMMA StartsAtZero ==
    ASSUME NEW done, NEW page
    PROVE  PageJob(done, page).examined = 0
  BY DEF PageJob

\* The hand has passed nothing yet.
LEMMA NothingSwept ==
    ASSUME TInv, NEW c \in CPUs, CacheEnable(c), job[c].examined = 0
    PROVE  SweptClock(c) /\ SweptClockM(c)
  <1>. DEFINE n == CacheEntries[c]
  <1>1. n \in Nat \ {0} /\ Slot[c] = 0 .. n - 1 /\ Hand(c) \in 0 .. n - 1
    BY SlotsAreAll, HandIsSlot
  <1>2. \A j \in Slot[c] : Behind(c, j) \in Nat \ {0}
    BY <1>1 DEF Behind
  <1>. QED BY <1>1, <1>2 DEF SweptClock, SweptClockM, SweptEntry

\* Seeking a place begins when GetPageInMemory has answered.
LEMMA ScansAfter ==
    ASSUME TInv, NEW c \in CPUs, CPUStep(c), ~Scans(c)
    PROVE  /\ at[c] # "scan"
           /\ \/ job'[c].examined = job[c].examined /\ (Gets(c) \/ at'[c] # "scan")
              \/ job'[c].examined = 0 /\ at'[c] # "scan"
  <1>0. at \in [CPUs -> Steps] /\ job \in [CPUs -> Job] /\ job[c] \in Job
    BY DEF TInv, TypeOK
  <1>1. ASSUME NEW step, step # "scan", Ends(c, step)
        PROVE  job'[c].examined = 0 /\ at'[c] # "scan"
    <2>1. job'[c] = NoJob
      BY <1>0, <1>1 DEF Ends
    <2>. QED BY <1>0, <1>1, <2>1, StartsAtZero DEF Ends, Goes, NoJob
  <1>2. CASE \E p \in Procs : \E r \in Requests[p] : Begins(c, p, r)
    <2>1. \E page : job' = [job EXCEPT ![c] = PageJob(0, page)]
      BY <1>2 DEF Begins
    <2>2. at[c] = "instruction" /\ \E step \in {"copy", "translate"} : at' = [at EXCEPT ![c] = step]
      BY <1>2, Zenon DEF Begins, Goes
    <2>. QED BY <1>0, <2>1, <2>2, StartsAtZero
  <1>3. CASE Translates(c)
    <2>1. at[c] = "translate"
      BY <1>3 DEF Translates
    <2>2. CASE Found(c, cpu[c], job[c].page)
      <3>1. /\ \E f : job' = [job EXCEPT ![c].frame = f]
            /\ \E step \in {"copy", "get"} : at' = [at EXCEPT ![c] = step]
        BY <1>3, <2>2, Zenon DEF Translates, Goes
      <3>. QED BY <1>0, <2>1, <3>1 DEF Job
    <2>3. CASE ~Found(c, cpu[c], job[c].page)
      <3>1. \E step \in {"exit", "instruction", "lost"} : Ends(c, step)
        BY <1>3, <2>3, Zenon DEF Translates, Fails
      <3>. QED BY <1>1, <2>1, <3>1
    <2>. QED BY <2>2, <2>3
  <1>4. CASE Gets(c)
    <2>1. at[c] = "get"
      BY <1>4 DEF Gets
    <2>2. \/ \E b : job' = [job EXCEPT ![c].buffer = b]
          \/ \E step \in {"exit", "instruction", "lost"} : Ends(c, step)
      BY <1>4, Zenon DEF Gets, Fails
    <2>3. CASE \E b : job' = [job EXCEPT ![c].buffer = b]
      BY <1>0, <1>4, <2>1, <2>3 DEF Job
    <2>. QED BY <1>1, <2>1, <2>2, <2>3
  <1>5. CASE WritesCache(c) \/ WritesThrough(c) \/ ReadsCache(c) \/ ReadsThrough(c)
    <2>1. at[c] = "copy"
      BY <1>5 DEF WritesCache, WritesThrough, ReadsCache, ReadsThrough
    <2>2. Advances(c) \/ Ends(c, "down")
      BY <1>5, Zenon DEF WritesCache, WritesThrough, ReadsCache, ReadsThrough
    <2>3. \/ Ends(c, "down") \/ Ends(c, "instruction")
          \/ /\ \E done, page : job' = [job EXCEPT ![c] = PageJob(done, page)]
             /\ at' = [at EXCEPT ![c] = "translate"]
      BY <2>2, Zenon DEF Advances, Goes
    <2>4. CASE /\ \E done, page : job' = [job EXCEPT ![c] = PageJob(done, page)]
               /\ at' = [at EXCEPT ![c] = "translate"]
      BY <1>0, <2>1, <2>4, StartsAtZero
    <2>. QED BY <1>1, <2>1, <2>3, <2>4
  <1>6. CASE Flushes(c)
    <2>1. at[c] # "scan" /\ UNCHANGED job /\ (Goes(c, "flush") \/ Goes(c, "down"))
      BY <1>6, Zenon DEF Flushes
    <2>. QED BY <1>0, <2>1 DEF Goes
  <1>7. CASE Syscalls(c) \/ Exits(c) \/ Interrupted(c)
    BY <1>0, <1>7 DEF Syscalls, Exits, Interrupted, Flushed, LeavesFor, Goes
  <1>8. CASE \E p \in Procs : Dispatches(c, p)
    BY <1>0, <1>8 DEF Dispatches, TInv, RunsOne
  <1>. QED BY <1>2, <1>3, <1>4, <1>5, <1>6, <1>7, <1>8 DEF CPUStep

LEMMA StepSweeps == TInv /\ OInv /\ SInv /\ [Next]_vars => SInv'
  <1>. SUFFICES ASSUME TInv, OInv, SInv, [Next]_vars, NEW c \in CPUs
                PROVE  IF at'[c] = "scan"
                       THEN IF CacheReplacement[c] = "CLOCK" THEN SweptClock(c)' ELSE SweptClockM(c)'
                       ELSE job'[c].examined = 0
    BY DEF SInv
  <1>0. IF at[c] = "scan"
        THEN IF CacheReplacement[c] = "CLOCK" THEN SweptClock(c) ELSE SweptClockM(c)
        ELSE job[c].examined = 0
    BY DEF SInv
  <1>1. CASE UNCHANGED <<at[c], job[c], cache[c]>>
    BY <1>0, <1>1 DEF SweptClock, SweptClockM, Behind, Hand
  <1>2. CASE ~CPUStep(c)
    BY <1>1, <1>2, OwnKept DEF Own
  <1>3. CASE Scans(c) /\ Chosen(c, cache[c][Hand(c)])
    <2>1. /\ job'[c] = PageJob(job[c].done, job[c].page)
          /\ at'[c] \in {"copy", "down"}
      BY <1>3, HandTurns
    <2>. QED BY <2>1, StartsAtZero
  <1>4. CASE Scans(c) /\ ~Chosen(c, cache[c][Hand(c)])
    <2>1. OInv'
      BY StepOnce
    <2>. QED BY <1>0, <1>4, <2>1, PassMoves, PassSweeps
  <1>5. CASE CPUStep(c) /\ ~Scans(c)
    <2>1. CASE at'[c] # "scan"
      BY <1>0, <1>5, <2>1, ScansAfter
    <2>2. CASE at'[c] = "scan"
      <3>1. Gets(c) /\ job[c].examined = 0 /\ job'[c].examined = 0
        BY <1>0, <1>5, <2>2, ScansAfter
      <3>2. UNCHANGED cache
        BY <3>1 DEF Gets
      <3>3. TInv'
        BY StepTypes
      <3>4. CacheEnable(c)
        BY <2>2, <3>3 DEF TInv, RunsOne
      <3>5. SweptClock(c) /\ SweptClockM(c)
        BY <3>1, <3>4, NothingSwept
      <3>6. UNCHANGED <<job[c].examined, cache[c]>>
        BY <3>1, <3>2
      <3>. QED BY <2>2, <3>5, <3>6 DEF SweptClock, SweptClockM, Behind, Hand
    <2>. QED BY <2>1, <2>2
  <1>. QED BY <1>2, <1>3, <1>4, <1>5 DEF CPUStep

LEMMA InitSweeps == Init => SInv
  BY StartsAtZero DEF Init, SInv, NoJob

\* Seeking a place for a page ends, in CLOCK when the hand has gone round once and in CLOCK-M
\* when it has three times, whatever is in the cache and wherever EndProcess has left the
\* hand: in CLOCK because the hand clears the use bits that it passes, in CLOCK-M because
\* what its first round leaves is in use or modified, what its second leaves is not in use,
\* and what its third leaves is modified besides, which is what the fourth looks for
\* (AddEntryCacheClock, AddEntryCacheClockM).
THEOREM ScansEnd == Spec => []ScanEnds
  <1>1. Init => TInv /\ OInv /\ SInv
    BY InitTypes, InitOnce, InitSweeps
  <1>2. TInv /\ OInv /\ SInv /\ [Next]_vars => (TInv /\ OInv /\ SInv)'
    BY StepTypes, StepOnce, StepSweeps
  <1>3. SInv => ScanEnds
    <2>1. ASSUME SInv, NEW c \in CPUs, at[c] = "scan"
          PROVE  job[c].examined
                    <= (IF CacheReplacement[c] = "CLOCK" THEN 1 ELSE 3) * CacheEntries[c]
      <3>1. IF CacheReplacement[c] = "CLOCK" THEN job[c].examined <= CacheEntries[c]
            ELSE job[c].examined <= 3 * CacheEntries[c]
        BY <2>1 DEF SInv, SweptClock, SweptClockM
      <3>2. 1 * CacheEntries[c] = CacheEntries[c]
        BY ConfigAssumption
      <3>. QED BY <3>1, <3>2
    <2>. QED BY <2>1 DEF ScanEnds
  <1>. QED BY <1>1, <1>2, <1>3, PTL DEF Spec
=============================================================================
