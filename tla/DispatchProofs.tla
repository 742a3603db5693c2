--------------------------- MODULE DispatchProofs ---------------------------
(***************************************************************************)
(* Proofs about IODispatch, for every number of processes, devices, names   *)
(* and bounds.  IInv is the inductive invariant:                            *)
(*   Entries      the processes of MTSQueue are those that wait, each once; *)
(*   Returning    SUSP_READY holds those in that state, each once;          *)
(*   Connections  a device is registered once, after it started, and has a  *)
(*                wait while it works.                                      *)
(* Reaping is needed for the loop that empties SUSP_READY.  OInv, inductive *)
(* relative to them when no handler overtakes a system call, says where the *)
(* waits are: what a device holds is in the past, marked, and nobody else's.*)
(* Current adds that it is the one its process is in, unless that is over.  *)
(***************************************************************************)
EXTENDS IODispatch, TLAPS, FiniteSetTheorems

Distinct(q) == \A i, j \in DOMAIN q : q[i] = q[j] => i = j

\* The processes that have an entry, in its order.
Waiting(q) == [i \in DOMAIN q |-> q[i].proc]

Working(d) == device[d] \in {"answered", "busy"}

\* A process has one entry and waits, or neither.
Entries ==
    /\ Distinct(Waiting(MTSQueue))
    /\ Elements(Waiting(MTSQueue)) = {p \in Procs : Waits(p)}
Returning ==
    /\ Distinct(SuspReadyQueue)
    /\ Elements(SuspReadyQueue) = {p \in Procs : state[p] = "SUSP_READY"}
Connections ==
    /\ Distinct(AvailableIOs)
    /\ \A d \in Devices :
          /\ Working(d) => job[d] \in Wait
          /\ device[d] # "off" \/ Registered(d) => starts[d] # 0

IInv == TypeOK /\ Entries /\ Returning /\ Connections

\* The index of the loop over SUSP_READY is one once it has begun.
Reaping == \A d \in Devices : reaper[d].step = "list" => reaper[d].at # 0

-----------------------------------------------------------------------------
(* Sequences *)

LEMMA SequenceType ==
    ASSUME NEW S, NEW q \in Seq(S)
    PROVE  /\ Len(q) \in Nat /\ DOMAIN q = 1 .. Len(q)
           /\ \A i \in 1 .. Len(q) : q[i] \in S
           /\ Elements(q) \subseteq S
  BY DEF Elements

LEMMA AppendKeeps ==
    ASSUME NEW S, NEW q \in Seq(S), Distinct(q), NEW x \in S, x \notin Elements(q)
    PROVE  /\ Append(q, x) \in Seq(S) /\ Distinct(Append(q, x))
           /\ Elements(Append(q, x)) = Elements(q) \union {x}
  <1>. DEFINE n == Len(q)
              a == Append(q, x)
  <1>1. n \in Nat /\ DOMAIN q = 1 .. n
    BY SequenceType
  <1>2. /\ a \in Seq(S) /\ DOMAIN a = 1 .. n + 1
        /\ \A k \in 1 .. n : a[k] = q[k]
        /\ a[n + 1] = x
    BY <1>1
  <1>. HIDE DEF a, n
  <1>3. \A k \in 1 .. n : a[k] # x
    BY <1>1, <1>2 DEF Elements
  <1>4. \A k \in 1 .. n + 1 : k \in 1 .. n \/ k = n + 1
    BY <1>1
  <1>5. Distinct(a)
    BY <1>1, <1>2, <1>3, <1>4 DEF Distinct
  <1>6. n + 1 \in 1 .. n + 1 /\ \A k \in 1 .. n : k \in 1 .. n + 1
    BY <1>1
  <1>7. Elements(a) = Elements(q) \union {x}
    BY <1>1, <1>2, <1>4, <1>6 DEF Elements
  <1>. QED BY <1>2, <1>5, <1>7 DEF a

\* What is behind the position i moves up.
LEMMA WithoutAt ==
    ASSUME NEW S, NEW q \in Seq(S), NEW i \in DOMAIN q
    PROVE  /\ Without(q, i) \in Seq(S)
           /\ DOMAIN Without(q, i) = 1 .. Len(q) - 1
           /\ \A k \in 1 .. Len(q) - 1 :
                 Without(q, i)[k] = IF k < i THEN q[k] ELSE q[k + 1]
  <1>. DEFINE n == Len(q)
              l == SubSeq(q, 1, i - 1)
              r == SubSeq(q, i + 1, n)
  <1>1. n \in Nat /\ i \in 1 .. n /\ \A k \in 1 .. n : q[k] \in S
    BY SequenceType
  <1>2. l \in Seq(S) /\ Len(l) = i - 1 /\ \A k \in 1 .. i - 1 : l[k] = q[k]
    BY <1>1
  <1>3. r \in Seq(S) /\ Len(r) = n - i /\ \A k \in 1 .. n - i : r[k] = q[k + i]
    BY <1>1
  <1>. HIDE DEF l, r
  <1>4. /\ l \o r \in Seq(S) /\ Len(l \o r) = n - 1
        /\ \A k \in 1 .. n - 1 :
              (l \o r)[k] = IF k <= Len(l) THEN l[k] ELSE r[k - Len(l)]
    <2>1. l \in Seq(S) /\ r \in Seq(S)
      BY <1>2, <1>3
    <2>2. /\ l \o r \in Seq(S) /\ Len(l \o r) = Len(l) + Len(r)
          /\ \A k \in 1 .. Len(l) + Len(r) :
                (l \o r)[k] = IF k <= Len(l) THEN l[k] ELSE r[k - Len(l)]
      BY <2>1
    <2>3. Len(l) + Len(r) = n - 1
      BY <1>1, <1>2, <1>3
    <2>. QED BY <2>2, <2>3
  <1>5. ASSUME NEW k \in 1 .. n - 1
        PROVE  (l \o r)[k] = IF k < i THEN q[k] ELSE q[k + 1]
    <2>1. CASE k < i
      BY <1>1, <1>2, <1>4, <2>1
    <2>2. CASE ~(k < i)
      <3>1. k - (i - 1) \in 1 .. n - i /\ (k - (i - 1)) + i = k + 1
        BY <1>1, <2>2
      <3>2. (l \o r)[k] = r[k - (i - 1)]
        BY <1>1, <1>2, <1>4, <2>2
      <3>3. r[k - (i - 1)] = q[(k - (i - 1)) + i]
        BY <1>3, <3>1
      <3>. QED BY <2>2, <3>1, <3>2, <3>3
    <2>. QED BY <2>1, <2>2
  <1>. HIDE DEF n
  <1>6. Without(q, i) = l \o r
    BY DEF Without, l, r, n
  <1>. QED BY <1>1, <1>4, <1>5, <1>6 DEF n

LEMMA WithoutKeeps ==
    ASSUME NEW S, NEW q \in Seq(S), Distinct(q), NEW i \in DOMAIN q
    PROVE  /\ Without(q, i) \in Seq(S) /\ Distinct(Without(q, i))
           /\ Elements(Without(q, i)) = Elements(q) \ {q[i]}
  <1>. DEFINE n == Len(q)
              w == Without(q, i)
              up(k) == IF k < i THEN k ELSE k + 1
  <1>1. n \in Nat /\ DOMAIN q = 1 .. n /\ i \in 1 .. n
    BY SequenceType
  <1>2. w \in Seq(S) /\ DOMAIN w = 1 .. n - 1
    BY WithoutAt
  <1>3. \A k \in 1 .. n - 1 : w[k] = q[up(k)]
    BY WithoutAt
  <1>. HIDE DEF w, n
  <1>4. \A k \in 1 .. n - 1 : up(k) \in 1 .. n /\ up(k) # i
    BY <1>1
  <1>5. \A j, k \in 1 .. n - 1 : up(j) = up(k) => j = k
    BY <1>1
  <1>6. \A m \in 1 .. n : m # i => \E k \in 1 .. n - 1 : m = up(k)
    <2>. SUFFICES ASSUME NEW m \in 1 .. n, m # i
                  PROVE  \E k \in 1 .. n - 1 : m = up(k)
      OBVIOUS
    <2>1. CASE m < i
      <3>1. m \in 1 .. n - 1 /\ m = up(m)
        BY <1>1, <2>1
      <3>. QED BY <3>1
    <2>2. CASE i < m
      <3>1. m - 1 \in 1 .. n - 1 /\ m = up(m - 1)
        BY <1>1, <2>2
      <3>. QED BY <3>1
    <2>. QED BY <1>1, <2>1, <2>2
  <1>. HIDE DEF up
  <1>7. Distinct(w)
    BY <1>1, <1>2, <1>3, <1>4, <1>5 DEF Distinct
  <1>8. Elements(w) \subseteq Elements(q) /\ q[i] \notin Elements(w)
    BY <1>1, <1>2, <1>3, <1>4 DEF Elements, Distinct
  <1>9. ASSUME NEW x \in Elements(q), x # q[i]
        PROVE  x \in Elements(w)
    <2>1. PICK m \in 1 .. n : q[m] = x
      BY <1>1 DEF Elements
    <2>2. PICK k \in 1 .. n - 1 : m = up(k)
      BY <1>6, <1>9, <2>1
    <2>3. w[k] = x
      BY <1>3, <2>1, <2>2
    <2>. QED BY <1>2, <2>3 DEF Elements
  <1>. QED BY <1>2, <1>7, <1>8, <1>9 DEF w

LEMMA TailKeeps ==
    ASSUME NEW S, NEW q \in Seq(S), Distinct(q), q # <<>>
    PROVE  /\ Tail(q) \in Seq(S) /\ Distinct(Tail(q))
           /\ Elements(Tail(q)) = Elements(q) \ {Head(q)}
           /\ Head(q) \in Elements(q) /\ Head(q) \in S
  <1>1. Len(q) \in Nat /\ DOMAIN q = 1 .. Len(q) /\ 1 \in DOMAIN q /\ Head(q) = q[1]
    BY SequenceType
  <1>2. /\ Tail(q) \in Seq(S) /\ DOMAIN Tail(q) = 1 .. Len(q) - 1
        /\ \A k \in 1 .. Len(q) - 1 : Tail(q)[k] = q[k + 1]
    BY <1>1
  <1>3. /\ Without(q, 1) \in Seq(S) /\ DOMAIN Without(q, 1) = 1 .. Len(q) - 1
        /\ \A k \in 1 .. Len(q) - 1 : Without(q, 1)[k] = q[k + 1]
    BY <1>1, WithoutAt
  <1>4. Tail(q) = Without(q, 1)
    <2>1. \A k \in 1 .. Len(q) - 1 : Tail(q)[k] = Without(q, 1)[k]
      BY <1>2, <1>3
    <2>. QED BY <1>2, <1>3, <2>1
  <1>5. Head(q) \in Elements(q) /\ Head(q) \in S
    BY <1>1 DEF Elements
  <1>6. Distinct(Without(q, 1)) /\ Elements(Without(q, 1)) = Elements(q) \ {q[1]}
    BY <1>1, WithoutKeeps
  <1>. QED BY <1>1, <1>2, <1>4, <1>5, <1>6

LEMMA DistinctLength ==
    ASSUME NEW S, NEW q \in Seq(S), Distinct(q)
    PROVE  IsFiniteSet(Elements(q)) /\ Cardinality(Elements(q)) = Len(q)
  <1>1. Len(q) \in Nat /\ DOMAIN q = 1 .. Len(q) /\ q \in [1 .. Len(q) -> Elements(q)]
    BY DEF Elements
  <1>2. q \in Bijection(1 .. Len(q), Elements(q))
    BY <1>1 DEF Bijection, Injection, Surjection, IsInjective, Elements, Distinct
  <1>3. ExistsBijection(1 .. Len(q), Elements(q))
    BY <1>2 DEF ExistsBijection
  <1>4. IsFiniteSet(1 .. Len(q)) /\ Cardinality(1 .. Len(q)) = Len(q)
    BY <1>1, FS_Interval
  <1>. QED BY <1>3, <1>4, FS_Bijection

-----------------------------------------------------------------------------
(* The entries and their processes *)

LEMMA WaitingOf ==
    ASSUME NEW q \in Seq(Entry)
    PROVE  /\ Waiting(q) \in Seq(Procs) /\ DOMAIN Waiting(q) = DOMAIN q
           /\ \A i \in DOMAIN q : Waiting(q)[i] = q[i].proc
  <1>1. Len(q) \in Nat /\ DOMAIN q = 1 .. Len(q) /\ \A i \in 1 .. Len(q) : q[i] \in Entry
    BY SequenceType
  <1>2. \A i \in 1 .. Len(q) : q[i].proc \in Procs
    BY <1>1 DEF Entry
  <1>3. Waiting(q) \in [1 .. Len(q) -> Procs]
    BY <1>1, <1>2 DEF Waiting
  <1>. QED BY <1>1, <1>3 DEF Waiting

LEMMA WaitingAppend ==
    ASSUME NEW q \in Seq(Entry), NEW e \in Entry
    PROVE  Waiting(Append(q, e)) = Append(Waiting(q), e.proc)
  <1>. DEFINE n == Len(q)
              w == Waiting(q)
              a == Append(q, e)
  <1>1. n \in Nat /\ DOMAIN q = 1 .. n /\ e.proc \in Procs
    BY DEF Entry
  <1>2. w \in Seq(Procs) /\ DOMAIN w = 1 .. n /\ Len(w) = n /\ \A i \in 1 .. n : w[i] = q[i].proc
    BY <1>1, WaitingOf
  <1>3. a \in Seq(Entry) /\ DOMAIN a = 1 .. n + 1 /\ a[n + 1] = e /\ \A i \in 1 .. n : a[i] = q[i]
    BY <1>1
  <1>. HIDE DEF n, w, a
  <1>4. /\ DOMAIN Append(w, e.proc) = 1 .. n + 1 /\ Append(w, e.proc)[n + 1] = e.proc
        /\ Append(w, e.proc) \in Seq(Procs)
        /\ \A i \in 1 .. n : Append(w, e.proc)[i] = w[i]
    BY <1>1, <1>2
  <1>5. Waiting(a) \in Seq(Procs) /\ DOMAIN Waiting(a) = 1 .. n + 1
        /\ \A i \in 1 .. n + 1 : Waiting(a)[i] = a[i].proc
    BY <1>3, WaitingOf
  <1>6. ASSUME NEW i \in 1 .. n + 1 PROVE Waiting(a)[i] = Append(w, e.proc)[i]
    <2>1. CASE i \in 1 .. n
      BY <1>2, <1>3, <1>4, <1>5, <2>1
    <2>2. CASE i = n + 1
      BY <1>3, <1>4, <1>5, <2>2
    <2>3. i \in 1 .. n \/ i = n + 1
      BY <1>1
    <2>. QED BY <2>1, <2>2, <2>3
  <1>7. Waiting(a) = Append(w, e.proc)
    BY <1>1, <1>4, <1>5, <1>6
  <1>. QED BY <1>7 DEF a, w

LEMMA WaitingWithout ==
    ASSUME NEW q \in Seq(Entry), NEW i \in DOMAIN q
    PROVE  Waiting(Without(q, i)) = Without(Waiting(q), i)
  <1>1. /\ Without(q, i) \in Seq(Entry) /\ DOMAIN Without(q, i) = 1 .. Len(q) - 1
        /\ \A k \in 1 .. Len(q) - 1 :
              Without(q, i)[k] = IF k < i THEN q[k] ELSE q[k + 1]
    BY WithoutAt
  <1>2. /\ Waiting(q) \in Seq(Procs) /\ DOMAIN Waiting(q) = DOMAIN q
        /\ \A k \in DOMAIN q : Waiting(q)[k] = q[k].proc
    BY WaitingOf
  <1>3. Len(q) \in Nat /\ DOMAIN q = 1 .. Len(q) /\ Len(Waiting(q)) = Len(q)
    BY <1>2
  <1>4. /\ Without(Waiting(q), i) \in Seq(Procs)
        /\ DOMAIN Without(Waiting(q), i) = 1 .. Len(q) - 1
        /\ \A k \in 1 .. Len(q) - 1 :
              Without(Waiting(q), i)[k] = IF k < i THEN Waiting(q)[k] ELSE Waiting(q)[k + 1]
    BY <1>2, <1>3, WithoutAt
  <1>5. /\ DOMAIN Waiting(Without(q, i)) = 1 .. Len(q) - 1
        /\ Waiting(Without(q, i)) \in Seq(Procs)
        /\ \A k \in 1 .. Len(q) - 1 : Waiting(Without(q, i))[k] = Without(q, i)[k].proc
    BY <1>1, WaitingOf
  <1>6. ASSUME NEW k \in 1 .. Len(q) - 1
        PROVE  Waiting(Without(q, i))[k] = Without(Waiting(q), i)[k]
    <2>1. k \in DOMAIN q /\ k + 1 \in DOMAIN q
      BY <1>3
    <2>2. CASE k < i
      BY <1>1, <1>2, <1>4, <1>5, <2>1, <2>2
    <2>3. CASE ~(k < i)
      BY <1>1, <1>2, <1>4, <1>5, <2>1, <2>3
    <2>. QED BY <2>2, <2>3
  <1>. QED BY <1>4, <1>5, <1>6

\* An entry is marked as Working.
LEMMA WaitingMarked ==
    ASSUME NEW q \in Seq(Entry), NEW r \in Seq(Entry), DOMAIN r = DOMAIN q,
           \A i \in DOMAIN q : r[i].proc = q[i].proc
    PROVE  Waiting(r) = Waiting(q)
  BY DEF Waiting

\* A new entry: its process starts to wait.
LEMMA EntryAdded ==
    ASSUME IInv, NEW e \in Entry, MTSQueue' = Append(MTSQueue, e),
           ~Waits(e.proc), \A p \in Procs : Waits(p)' <=> Waits(p) \/ p = e.proc
    PROVE  Entries' /\ MTSQueue' \in Seq(Entry)
  <1>1. MTSQueue \in Seq(Entry) /\ e.proc \in Procs
    BY DEF IInv, TypeOK, Entry
  <1>2. Waiting(MTSQueue') = Append(Waiting(MTSQueue), e.proc)
    BY <1>1, WaitingAppend
  <1>3. Waiting(MTSQueue) \in Seq(Procs) /\ e.proc \notin Elements(Waiting(MTSQueue))
    BY <1>1, WaitingOf DEF IInv, Entries
  <1>4. /\ Distinct(Append(Waiting(MTSQueue), e.proc))
        /\ Elements(Append(Waiting(MTSQueue), e.proc)) = Elements(Waiting(MTSQueue)) \union {e.proc}
    BY <1>1, <1>3, AppendKeeps DEF IInv, Entries
  <1>5. MTSQueue' \in Seq(Entry)
    BY <1>1
  <1>. QED BY <1>1, <1>2, <1>4, <1>5 DEF IInv, Entries

\* An entry is removed: its process waits no longer.
LEMMA EntryRemoved ==
    ASSUME IInv, NEW i \in DOMAIN MTSQueue, MTSQueue' = Without(MTSQueue, i),
           \A p \in Procs : Waits(p)' <=> Waits(p) /\ p # MTSQueue[i].proc
    PROVE  Entries' /\ MTSQueue' \in Seq(Entry)
  <1>1. MTSQueue \in Seq(Entry)
    BY DEF IInv, TypeOK
  <1>2. Waiting(MTSQueue') = Without(Waiting(MTSQueue), i)
    BY <1>1, WaitingWithout
  <1>3. /\ Waiting(MTSQueue) \in Seq(Procs) /\ i \in DOMAIN Waiting(MTSQueue)
        /\ Waiting(MTSQueue)[i] = MTSQueue[i].proc
    BY <1>1, WaitingOf
  <1>4. /\ Distinct(Without(Waiting(MTSQueue), i))
        /\ Elements(Without(Waiting(MTSQueue), i)) =
              Elements(Waiting(MTSQueue)) \ {MTSQueue[i].proc}
    BY <1>3, WithoutKeeps DEF IInv, Entries
  <1>5. MTSQueue' \in Seq(Entry)
    BY <1>1, WithoutAt
  <1>. QED BY <1>2, <1>4, <1>5 DEF IInv, Entries

\* Who has an entry waits.
LEMMA EntryWaits ==
    ASSUME IInv, NEW i \in DOMAIN MTSQueue
    PROVE  /\ MTSQueue[i] \in Entry /\ MTSQueue[i].proc \in Procs /\ Waits(MTSQueue[i].proc)
           /\ <<MTSQueue[i].proc, MTSQueue[i].wait>> \in Wait
  <1>1. MTSQueue \in Seq(Entry)
    BY DEF IInv, TypeOK
  <1>2. MTSQueue[i] \in Entry
    BY <1>1, SequenceType
  <1>3. MTSQueue[i].proc \in Procs /\ MTSQueue[i].wait \in 1 .. MaxCalls
    BY <1>2 DEF Entry
  <1>4. MTSQueue[i].proc \in Elements(Waiting(MTSQueue))
    BY <1>1, WaitingOf DEF Elements
  <1>. QED BY <1>2, <1>3, <1>4 DEF IInv, Entries, Wait

-----------------------------------------------------------------------------
(* SUSP_READY *)

LEMMA SuspReadyAdded ==
    ASSUME IInv, NEW p \in Procs, SuspReadyQueue' = Append(SuspReadyQueue, p),
           state[p] # "SUSP_READY", state' = [state EXCEPT ![p] = "SUSP_READY"]
    PROVE  Returning' /\ SuspReadyQueue' \in Seq(Procs)
  <1>1. SuspReadyQueue \in Seq(Procs) /\ p \notin Elements(SuspReadyQueue)
    BY DEF IInv, TypeOK, Returning
  <1>2. /\ SuspReadyQueue' \in Seq(Procs) /\ Distinct(SuspReadyQueue')
        /\ Elements(SuspReadyQueue') = Elements(SuspReadyQueue) \union {p}
    BY <1>1, AppendKeeps DEF IInv, Returning
  <1>. QED BY <1>2 DEF IInv, TypeOK, Returning

LEMMA SuspReadyRemoved ==
    ASSUME IInv, NEW i \in DOMAIN SuspReadyQueue, NEW t, t # "SUSP_READY",
           SuspReadyQueue' = Without(SuspReadyQueue, i),
           state' = [state EXCEPT ![SuspReadyQueue[i]] = t]
    PROVE  Returning' /\ SuspReadyQueue' \in Seq(Procs)
  <1>1. SuspReadyQueue \in Seq(Procs)
    BY DEF IInv, TypeOK
  <1>2. /\ SuspReadyQueue' \in Seq(Procs) /\ Distinct(SuspReadyQueue')
        /\ Elements(SuspReadyQueue') = Elements(SuspReadyQueue) \ {SuspReadyQueue[i]}
    BY <1>1, WithoutKeeps DEF IInv, Returning
  <1>. QED BY <1>2 DEF IInv, TypeOK, Returning

LEMMA SuspReadyIs ==
    ASSUME IInv, NEW i \in DOMAIN SuspReadyQueue
    PROVE  SuspReadyQueue[i] \in Procs /\ state[SuspReadyQueue[i]] = "SUSP_READY"
  <1>1. SuspReadyQueue \in Seq(Procs) /\ SuspReadyQueue[i] \in Elements(SuspReadyQueue)
    BY DEF IInv, TypeOK, Elements
  <1>. QED BY <1>1 DEF IInv, Returning

\* No process of SUSP_READY is moved.
LEMMA SuspReadyStays ==
    ASSUME IInv, UNCHANGED SuspReadyQueue,
           \A p \in Procs : state'[p] = "SUSP_READY" <=> state[p] = "SUSP_READY"
    PROVE  Returning'
  BY DEF IInv, Returning

-----------------------------------------------------------------------------
(* The steps *)

\* A step of a device moves no process.
LEMMA DevicesOnly ==
    ASSUME IInv, UNCHANGED <<procs, MTSQueue>>, TypeOK', Connections'
    PROVE  IInv'
  <1>1. Entries'
    BY DEF IInv, Entries, procs, Waits
  <1>2. Returning'
    BY DEF IInv, Returning, procs
  <1>. QED BY <1>1, <1>2 DEF IInv

LEMMA SyscallMissingDeviceInv ==
    ASSUME IInv, NEW p \in Procs, NEW n \in Names, SyscallMissingDevice(p, n)
    PROVE  IInv'
  <1>1. state' = [state EXCEPT ![p] = "EXIT"] /\ state[p] = "EXEC"
    BY DEF SyscallMissingDevice
  <1>2. \A r \in Procs : /\ state'[r] = IF r = p THEN "EXIT" ELSE state[r]
    BY <1>1 DEF IInv, TypeOK
  <1>3. Entries'
    BY <1>1, <1>2 DEF IInv, Entries, SyscallMissingDevice, Waits
  <1>4. Returning'
    BY <1>1, <1>2, SuspReadyStays DEF SyscallMissingDevice
  <1>5. TypeOK'
    <2>1. state' \in [Procs -> {"EXEC", "BLOCKED", "SUSP_BLOCKED", "SUSP_READY", "EXIT"}]
      BY <1>1 DEF IInv, TypeOK
    <2>2. UNCHANGED <<calls, SuspReadyQueue, MTSQueue, kernel, io, loss>>
      BY DEF SyscallMissingDevice
    <2>. QED BY <2>1, <2>2 DEF IInv, TypeOK, kernel, io, loss
  <1>6. Connections'
    BY DEF IInv, Connections, Registered, Working, SyscallMissingDevice, kernel, io
  <1>. QED BY <1>3, <1>4, <1>5, <1>6 DEF IInv

LEMMA BlocksInv ==
    ASSUME IInv, NEW p \in Procs, NEW n \in Names, NEW b \in BOOLEAN, Blocks(p, n, b),
           UNCHANGED <<SuspReadyQueue, AvailableIOs, io, loss>>,
           Disp' \in [Devices -> BOOLEAN], handler' \in [Devices -> Seq(Wait)],
           marking' \subseteq Wait \X Devices \X (1 .. MaxStarts)
    PROVE  IInv'
  <1>. DEFINE e == [proc |-> p, wait |-> calls[p] + 1, name |-> n, working |-> b]
  <1>1. /\ state' = [state EXCEPT ![p] = "BLOCKED"] /\ state[p] = "EXEC"
        /\ calls' = [calls EXCEPT ![p] = @ + 1] /\ calls[p] + 1 \in 1 .. MaxCalls
        /\ MTSQueue' = Append(MTSQueue, e)
    BY DispatchAssumption DEF IInv, TypeOK, Blocks
  <1>2. e \in Entry /\ e.proc = p
    BY <1>1 DEF Entry
  <1>3. \A r \in Procs : /\ state'[r] = IF r = p THEN "BLOCKED" ELSE state[r]
    BY <1>1 DEF IInv, TypeOK
  <1>. HIDE DEF e
  <1>4. Entries' /\ MTSQueue' \in Seq(Entry)
    BY <1>1, <1>2, <1>3, EntryAdded DEF Waits
  <1>5. Returning'
    BY <1>1, <1>3, SuspReadyStays
  <1>6. Connections'
    BY DEF IInv, Connections, Registered, Working, io
  <1>7. state' \in [Procs -> {"EXEC", "BLOCKED", "SUSP_BLOCKED", "SUSP_READY", "EXIT"}]
    BY <1>1 DEF IInv, TypeOK
  <1>8. calls' \in [Procs -> 0 .. MaxCalls]
    BY <1>1, DispatchAssumption DEF IInv, TypeOK
  <1>9. TypeOK'
    BY <1>4, <1>7, <1>8 DEF IInv, TypeOK, io, loss
  <1>. QED BY <1>4, <1>5, <1>6, <1>9 DEF IInv

LEMMA SyscallTakesInv ==
    ASSUME IInv, NEW p \in Procs, NEW n \in Names, SyscallTakes(p, n)
    PROVE  IInv'
  <1>1. PICK i \in DOMAIN AvailableIOs :
          /\ Takes(AvailableIOs[i]) /\ Blocks(p, n, ~Races)
          /\ IF Races
             THEN /\ marking' = marking \union
                        {<<<<p, calls[p] + 1>>, AvailableIOs[i], starts[AvailableIOs[i]]>>}
                  /\ UNCHANGED handler
             ELSE /\ handler' = [handler EXCEPT ![AvailableIOs[i]] =
                                   Append(@, <<p, calls[p] + 1>>)]
                  /\ UNCHANGED marking
          /\ UNCHANGED <<SuspReadyQueue, AvailableIOs, io, loss>>
    BY DEF SyscallTakes
  <1>. DEFINE d == AvailableIOs[i]
              w == <<p, calls[p] + 1>>
  <1>2. d \in Devices /\ Registered(d)
    BY DEF IInv, TypeOK, Registered, Elements
  <1>3. starts[d] \in 1 .. MaxStarts
    BY <1>2, DispatchAssumption DEF IInv, TypeOK, Connections
  <1>4. w \in Wait
    <2>1. calls[p] < MaxCalls
      BY <1>1 DEF Blocks
    <2>2. calls[p] \in 0 .. MaxCalls /\ MaxCalls \in Nat
      BY DispatchAssumption DEF IInv, TypeOK
    <2>3. calls[p] + 1 \in 1 .. MaxCalls
      BY <2>1, <2>2
    <2>. QED BY <2>3 DEF Wait
  <1>. HIDE DEF d, w
  <1>5. Disp' \in [Devices -> BOOLEAN]
    BY <1>1, <1>2 DEF Takes, IInv, TypeOK, d
  <1>6. marking' \subseteq Wait \X Devices \X (1 .. MaxStarts)
    <2>1. <<w, d, starts[d]>> \in Wait \X Devices \X (1 .. MaxStarts)
      BY <1>2, <1>3, <1>4
    <2>2. marking' \subseteq marking \union {<<w, d, starts[d]>>}
      BY <1>1 DEF d, w
    <2>. QED BY <2>1, <2>2 DEF IInv, TypeOK
  <1>7. handler' \in [Devices -> Seq(Wait)]
    <2>1. CASE Races
      BY <1>1, <2>1 DEF IInv, TypeOK
    <2>2. CASE ~Races
      <3>1. handler' = [handler EXCEPT ![d] = Append(@, w)]
        BY <1>1, <2>2 DEF d, w
      <3>2. Append(handler[d], w) \in Seq(Wait)
        BY <1>2, <1>4 DEF IInv, TypeOK
      <3>. QED BY <1>2, <3>1, <3>2 DEF IInv, TypeOK
    <2>. QED BY <2>1, <2>2
  <1>. QED BY <1>1, <1>5, <1>6, <1>7, BlocksInv, DispatchAssumption

LEMMA SyscallQueuesInv ==
    ASSUME IInv, NEW p \in Procs, NEW n \in Names, SyscallQueues(p, n)
    PROVE  IInv'
  <1>1. /\ Disp' \in [Devices -> BOOLEAN] /\ handler' \in [Devices -> Seq(Wait)]
        /\ marking' \subseteq Wait \X Devices \X (1 .. MaxStarts)
    BY DEF SyscallQueues, kernel, IInv, TypeOK
  <1>. QED BY <1>1, BlocksInv DEF SyscallQueues, kernel

LEMMA MarksInv ==
    ASSUME IInv, NEW m \in marking, Marks(m)
    PROVE  IInv'
  <1>1. /\ m[1] \in Wait /\ m[2] \in Devices
    BY DEF IInv, TypeOK
  <1>2. MTSQueue' = [i \in DOMAIN MTSQueue |->
          IF <<MTSQueue[i].proc, MTSQueue[i].wait>> = m[1]
          THEN [MTSQueue[i] EXCEPT !.working = TRUE] ELSE MTSQueue[i]]
    BY DEF Marks
  <1>3. Len(MTSQueue) \in Nat /\ DOMAIN MTSQueue = 1 .. Len(MTSQueue) /\ MTSQueue \in Seq(Entry)
    BY DEF IInv, TypeOK
  <1>4. \A i \in DOMAIN MTSQueue : MTSQueue'[i] \in Entry /\ MTSQueue'[i].proc = MTSQueue[i].proc
    BY <1>2, EntryWaits DEF Entry
  <1>5. MTSQueue' \in Seq(Entry) /\ DOMAIN MTSQueue' = DOMAIN MTSQueue
    <2>1. MTSQueue' \in [1 .. Len(MTSQueue) -> Entry]
      BY <1>2, <1>3, <1>4
    <2>. QED BY <1>3, <2>1
  <1>6. Waiting(MTSQueue') = Waiting(MTSQueue)
    BY <1>3, <1>4, <1>5, WaitingMarked
  <1>7. Entries' /\ Returning'
    BY <1>6 DEF Marks, procs, IInv, Entries, Returning, Waits
  <1>8. handler' \in [Devices -> Seq(Wait)]
    <2>1. Append(handler[m[2]], m[1]) \in Seq(Wait)
      BY <1>1 DEF IInv, TypeOK
    <2>. QED BY <1>1, <2>1 DEF Marks, IInv, TypeOK
  <1>9. TypeOK'
    BY <1>5, <1>8 DEF IInv, TypeOK, Marks, procs, io, loss
  <1>10. Connections'
    BY DEF IInv, Connections, Registered, Working, Marks, io
  <1>. QED BY <1>7, <1>9, <1>10 DEF IInv

\* recieveIO registers what it does not know.
LEMMA RegistersKeeps ==
    ASSUME IInv, NEW d \in Devices, Registers(d), device[d] = "idle"
    PROVE  /\ AvailableIOs' \in Seq(Devices) /\ Distinct(AvailableIOs')
           /\ \A c \in Devices : Registered(c)' <=> Registered(c) \/ c = d
           /\ starts[d] # 0
  <1>1. CASE Registered(d)
    BY <1>1 DEF Registers, IInv, TypeOK, Connections, Registered
  <1>2. CASE ~Registered(d)
    BY <1>2, AppendKeeps DEF Registers, IInv, TypeOK, Connections, Registered
  <1>. QED BY <1>1, <1>2

LEMMA TakesQueuedInv ==
    ASSUME IInv, NEW d \in Devices, TakesQueued(d)
    PROVE  IInv'
  <1>1. /\ device[d] = "idle" /\ Registers(d) /\ Takes(d)
        /\ device' = [device EXCEPT ![d] = "answered"]
        /\ UNCHANGED <<procs, handler, marking, assignedPID, starts, loss>>
    BY DEF TakesQueued
  <1>2. PICK i \in DOMAIN MTSQueue :
          /\ MTSQueue' = [MTSQueue EXCEPT ![i].working = TRUE]
          /\ job' = [job EXCEPT ![d] = <<MTSQueue[i].proc, MTSQueue[i].wait>>]
    BY DEF TakesQueued
  <1>3. Len(MTSQueue) \in Nat /\ DOMAIN MTSQueue = 1 .. Len(MTSQueue) /\ MTSQueue \in Seq(Entry)
    BY DEF IInv, TypeOK
  <1>4. \A k \in DOMAIN MTSQueue : MTSQueue'[k] \in Entry /\ MTSQueue'[k].proc = MTSQueue[k].proc
    BY <1>2, EntryWaits DEF Entry
  <1>5. MTSQueue' \in Seq(Entry) /\ DOMAIN MTSQueue' = DOMAIN MTSQueue
    <2>1. MTSQueue' \in [1 .. Len(MTSQueue) -> Entry]
      BY <1>2, <1>3, <1>4
    <2>. QED BY <1>3, <2>1
  <1>6. Waiting(MTSQueue') = Waiting(MTSQueue)
    BY <1>3, <1>4, <1>5, WaitingMarked
  <1>7. Entries' /\ Returning'
    BY <1>1, <1>6 DEF procs, IInv, Entries, Returning, Waits
  <1>8. job' \in [Devices -> Wait \union {NoJob}] /\ job'[d] \in Wait
    BY <1>2, EntryWaits DEF IInv, TypeOK
  <1>9. device' \in [Devices ->
          {"off", "idle", "polling", "answered", "busy", "stopping", "ending"}]
    BY <1>1 DEF IInv, TypeOK
  <1>10. Disp' \in [Devices -> BOOLEAN]
    BY <1>1 DEF IInv, TypeOK, Takes
  <1>11. TypeOK'
    BY <1>1, <1>5, <1>8, <1>9, <1>10, RegistersKeeps DEF IInv, TypeOK, procs, loss
  <1>12. \A c \in Devices : c # d => device'[c] = device[c] /\ job'[c] = job[c]
    BY <1>1, <1>2 DEF IInv, TypeOK
  <1>13. Connections'
    BY <1>1, <1>8, <1>12, RegistersKeeps DEF IInv, Connections, Working
  <1>. QED BY <1>7, <1>11, <1>13 DEF IInv

LEMMA PollsInv ==
    ASSUME IInv, NEW d \in Devices, Polls(d)
    PROVE  IInv'
  <1>1. /\ device[d] = "idle" /\ Registers(d)
        /\ device' = [device EXCEPT ![d] = "polling"]
        /\ Disp' \in [Devices -> BOOLEAN]
        /\ UNCHANGED <<procs, MTSQueue, handler, marking, job, assignedPID, starts, loss>>
    BY DEF Polls, IInv, TypeOK
  <1>2. device' \in [Devices ->
          {"off", "idle", "polling", "answered", "busy", "stopping", "ending"}]
    BY <1>1 DEF IInv, TypeOK
  <1>3. TypeOK'
    BY <1>1, <1>2, RegistersKeeps DEF IInv, TypeOK, procs, loss
  <1>4. \A c \in Devices : device'[c] = IF c = d THEN "polling" ELSE device[c]
    BY <1>1 DEF IInv, TypeOK
  <1>5. Connections'
    BY <1>1, <1>4, RegistersKeeps DEF IInv, Connections, Working
  <1>. QED BY <1>1, <1>3, <1>5, DevicesOnly

LEMMA ReceivesInv ==
    ASSUME IInv, NEW d \in Devices, Receives(d)
    PROVE  IInv'
  <1>1. /\ device[d] = "polling" /\ handler[d] # <<>>
        /\ handler' = [handler EXCEPT ![d] = Tail(@)]
        /\ job' = [job EXCEPT ![d] = Head(handler[d])]
        /\ device' = [device EXCEPT ![d] = "answered"]
        /\ UNCHANGED <<procs, MTSQueue, AvailableIOs, Disp, marking, assignedPID, starts, loss>>
    BY DEF Receives
  <1>2. Head(handler[d]) \in Wait /\ Tail(handler[d]) \in Seq(Wait)
    BY <1>1 DEF IInv, TypeOK
  <1>3. TypeOK'
    BY <1>1, <1>2 DEF IInv, TypeOK, procs, loss
  <1>4. \A c \in Devices : /\ device'[c] = IF c = d THEN "answered" ELSE device[c]
                           /\ job'[c] = IF c = d THEN Head(handler[d]) ELSE job[c]
    BY <1>1 DEF IInv, TypeOK
  <1>5. Connections'
    BY <1>1, <1>2, <1>4 DEF IInv, Connections, Registered, Working
  <1>. QED BY <1>1, <1>3, <1>5, DevicesOnly

LEMMA BeginsInv ==
    ASSUME IInv, NEW d \in Devices, Begins(d)
    PROVE  IInv'
  <1>1. /\ device[d] = "answered" /\ job[d] \in Wait
        /\ device' = [device EXCEPT ![d] = "busy"]
        /\ assignedPID' = [assignedPID EXCEPT ![d] = job[d][1]]
        /\ UNCHANGED <<procs, MTSQueue, kernel, job, starts, loss>>
    BY DEF Begins, PIDOf, IInv, Connections, Working
  <1>2. job[d][1] \in Procs
    BY <1>1 DEF Wait
  <1>3. TypeOK'
    BY <1>1, <1>2 DEF IInv, TypeOK, procs, kernel, loss
  <1>4. \A c \in Devices : device'[c] = IF c = d THEN "busy" ELSE device[c]
    BY <1>1 DEF IInv, TypeOK
  <1>5. Connections'
    BY <1>1, <1>4 DEF IInv, Connections, Registered, Working, kernel
  <1>. QED BY <1>1, <1>3, <1>5, DevicesOnly

LEMMA StartsInv ==
    ASSUME IInv, NEW d \in Devices, Starts(d)
    PROVE  IInv'
  <1>1. /\ starts' = [starts EXCEPT ![d] = @ + 1] /\ starts[d] < MaxStarts
        /\ device' = [device EXCEPT ![d] = "idle"]
        /\ assignedPID' = [assignedPID EXCEPT ![d] = First]
        /\ UNCHANGED <<procs, MTSQueue, kernel, job, loss>>
    BY DEF Starts
  <1>2. starts[d] \in 0 .. MaxStarts /\ starts[d] + 1 \in 1 .. MaxStarts
    BY <1>1, DispatchAssumption DEF IInv, TypeOK
  <1>3. TypeOK'
    <2>1. starts' \in [Devices -> 0 .. MaxStarts]
      BY <1>1, <1>2 DEF IInv, TypeOK
    <2>2. assignedPID' \in [Devices -> Procs]
      BY <1>1, DispatchAssumption DEF IInv, TypeOK
    <2>. QED BY <1>1, <2>1, <2>2 DEF IInv, TypeOK, procs, kernel, loss
  <1>4. \A c \in Devices : /\ device'[c] = IF c = d THEN "idle" ELSE device[c]
                           /\ starts'[c] = IF c = d THEN starts[d] + 1 ELSE starts[c]
    BY <1>1 DEF IInv, TypeOK
  <1>5. Connections'
    BY <1>1, <1>2, <1>4 DEF IInv, Connections, Registered, Working, kernel
  <1>. QED BY <1>1, <1>3, <1>5, DevicesOnly

LEMMA StopsInv ==
    ASSUME IInv, NEW d \in Devices, Stops(d)
    PROVE  IInv'
  <1>1. /\ device[d] # "off"
        /\ device' = [device EXCEPT ![d] = "stopping"]
        /\ orphan' = [orphan EXCEPT ![d] = (device[d] = "polling")]
        /\ UNCHANGED <<procs, MTSQueue, kernel, job, assignedPID, starts, reaper, panicked>>
    BY DEF Stops
  <1>2. device' \in [Devices ->
          {"off", "idle", "polling", "answered", "busy", "stopping", "ending"}]
    BY <1>1 DEF IInv, TypeOK
  <1>3. orphan' \in [Devices -> BOOLEAN]
    BY <1>1, Zenon DEF IInv, TypeOK
  <1>4. TypeOK'
    BY <1>1, <1>2, <1>3 DEF IInv, TypeOK, procs, kernel
  <1>5. \A c \in Devices : device'[c] = IF c = d THEN "stopping" ELSE device[c]
    BY <1>1 DEF IInv, TypeOK
  <1>6. Connections'
    BY <1>1, <1>5 DEF IInv, Connections, Registered, Working, kernel
  <1>. QED BY <1>1, <1>4, <1>6, DevicesOnly

LEMMA RequestIsLostInv ==
    ASSUME IInv, NEW d \in Devices, RequestIsLost(d)
    PROVE  IInv'
  <1>1. /\ handler[d] # <<>> /\ handler' = [handler EXCEPT ![d] = Tail(@)]
        /\ orphan' = [orphan EXCEPT ![d] = FALSE]
        /\ UNCHANGED <<procs, MTSQueue, AvailableIOs, Disp, marking, io, reaper, panicked>>
    BY DEF RequestIsLost
  <1>2. Tail(handler[d]) \in Seq(Wait)
    BY <1>1 DEF IInv, TypeOK
  <1>3. TypeOK'
    BY <1>1, <1>2 DEF IInv, TypeOK, procs, io
  <1>4. Connections'
    BY <1>1 DEF IInv, Connections, Registered, Working, io
  <1>. QED BY <1>1, <1>3, <1>4, DevicesOnly

LEMMA NeverConnectedInv ==
    ASSUME IInv, NEW d \in Devices, NeverConnected(d)
    PROVE  IInv'
  <1>1. /\ ~Registered(d) /\ device' = [device EXCEPT ![d] = "off"]
        /\ UNCHANGED <<procs, MTSQueue, kernel, job, assignedPID, starts, loss>>
    BY DEF NeverConnected
  <1>2. TypeOK'
    BY <1>1 DEF IInv, TypeOK, procs, kernel, loss
  <1>3. \A c \in Devices : device'[c] = IF c = d THEN "off" ELSE device[c]
    BY <1>1 DEF IInv, TypeOK
  <1>4. Connections'
    BY <1>1, <1>3 DEF IInv, Connections, Registered, Working, kernel
  <1>. QED BY <1>1, <1>2, <1>4, DevicesOnly

LEMMA RemovedInv ==
    ASSUME IInv, NEW d \in Devices, Removed(d)
    PROVE  IInv'
  <1>1. PICK i \in DOMAIN AvailableIOs :
          AvailableIOs[i] = d /\ AvailableIOs' = Without(AvailableIOs, i)
    BY DEF Removed, IsFirst
  <1>2. /\ handler' = [handler EXCEPT ![d] = <<>>]
        /\ orphan' = [orphan EXCEPT ![d] = FALSE]
        /\ Disp' = [Disp EXCEPT ![d] = FALSE]
        /\ job' = [job EXCEPT ![d] = NoJob]
        /\ device' = [device EXCEPT ![d] = "off"]
        /\ reaper' = reaper \/ reaper' = [reaper EXCEPT ![d].step = "first"]
        /\ UNCHANGED <<procs, MTSQueue, marking, assignedPID, starts, panicked>>
    BY DEF Removed
  <1>3. /\ AvailableIOs' \in Seq(Devices) /\ Distinct(AvailableIOs')
        /\ \A c \in Devices : Registered(c)' <=> Registered(c) /\ c # d
    <2>1. AvailableIOs \in Seq(Devices) /\ Distinct(AvailableIOs)
      BY DEF IInv, TypeOK, Connections
    <2>2. /\ AvailableIOs' \in Seq(Devices) /\ Distinct(AvailableIOs')
          /\ Elements(AvailableIOs') = Elements(AvailableIOs) \ {d}
      BY <1>1, <2>1, WithoutKeeps
    <2>. QED BY <2>2 DEF Registered
  <1>4. reaper' \in [Devices -> [step : {"off", "first", "range", "list"},
                                at : Nat, len : 0 .. Cardinality(Procs)]]
    <2>. DEFINE Reapers == [step : {"off", "first", "range", "list"},
                            at : Nat, len : 0 .. Cardinality(Procs)]
    <2>1. reaper \in [Devices -> Reapers]
      BY DEF IInv, TypeOK
    <2>2. [reaper[d] EXCEPT !.step = "first"] \in Reapers
      BY <2>1
    <2>. HIDE DEF Reapers
    <2>3. reaper' \in [Devices -> Reapers]
      BY <1>2, <2>1, <2>2
    <2>. QED BY <2>3 DEF Reapers
  <1>5. <<>> \in Seq(Wait)
    OBVIOUS
  <1>6. TypeOK'
    BY <1>2, <1>3, <1>4, <1>5 DEF IInv, TypeOK, procs, NoJob
  <1>7. \A c \in Devices : /\ device'[c] = IF c = d THEN "off" ELSE device[c]
                           /\ job'[c] = IF c = d THEN NoJob ELSE job[c]
    BY <1>2 DEF IInv, TypeOK
  <1>8. Connections'
    BY <1>2, <1>3, <1>7 DEF IInv, Connections, Working
  <1>. QED BY <1>2, <1>6, <1>8, DevicesOnly

\* The entry at i is removed and its process leaves the wait, not to SUSP_READY.
LEMMA EndsInv ==
    ASSUME IInv, NEW i \in DOMAIN MTSQueue, Ends(i)
    PROVE  Entries' /\ Returning' /\ MTSQueue' \in Seq(Entry)
           /\ state' \in [Procs -> {"EXEC", "BLOCKED", "SUSP_BLOCKED", "SUSP_READY", "EXIT"}]
           /\ UNCHANGED <<calls, SuspReadyQueue>>
  <1>. DEFINE p == MTSQueue[i].proc
  <1>1. /\ MTSQueue' = Without(MTSQueue, i) /\ state' = [state EXCEPT ![p] = "EXIT"]
        /\ UNCHANGED <<calls, SuspReadyQueue>>
    BY DEF Ends
  <1>2. p \in Procs /\ Waits(p)
    BY EntryWaits
  <1>. HIDE DEF p
  <1>3. \A r \in Procs : state'[r] = IF r = p THEN "EXIT" ELSE state[r]
    BY <1>1 DEF IInv, TypeOK
  <1>4. Entries' /\ MTSQueue' \in Seq(Entry)
    BY <1>1, <1>2, <1>3, EntryRemoved DEF Waits, p
  <1>5. Returning'
    BY <1>1, <1>2, <1>3, SuspReadyStays DEF Waits
  <1>6. state' \in [Procs -> {"EXEC", "BLOCKED", "SUSP_BLOCKED", "SUSP_READY", "EXIT"}]
    BY <1>1, <1>2 DEF IInv, TypeOK
  <1>. QED BY <1>1, <1>4, <1>5, <1>6

LEMMA DisconnectsInv ==
    ASSUME IInv, NEW d \in Devices, Disconnects(d)
    PROVE  IInv'
  <1>1. PICK i \in DOMAIN MTSQueue : Ends(i)
    BY DEF Disconnects
  <1>2. /\ device[d] = "stopping" /\ device' = [device EXCEPT ![d] = "ending"]
        /\ UNCHANGED <<kernel, job, assignedPID, starts, loss>>
    BY DEF Disconnects
  <1>3. device' \in [Devices ->
          {"off", "idle", "polling", "answered", "busy", "stopping", "ending"}]
    BY <1>2 DEF IInv, TypeOK
  <1>4. TypeOK'
    BY <1>1, <1>2, <1>3, EndsInv DEF IInv, TypeOK, kernel, loss
  <1>5. \A c \in Devices : device'[c] = IF c = d THEN "ending" ELSE device[c]
    BY <1>2 DEF IInv, TypeOK
  <1>6. Connections'
    BY <1>2, <1>5 DEF IInv, Connections, Registered, Working, kernel
  <1>. QED BY <1>1, <1>4, <1>6, EndsInv DEF IInv

\* What a reaper is between two steps.
Reapers == [step : {"off", "first", "range", "list"}, at : Nat, len : 0 .. Cardinality(Procs)]

LEMMA ReaperType ==
    IInv => reaper \in [Devices -> Reapers]
  BY DEF IInv, TypeOK, Reapers

LEMMA ReapsWaiterInv ==
    ASSUME IInv, NEW d \in Devices, ReapsWaiter(d)
    PROVE  IInv'
  <1>1. /\ reaper' = [reaper EXCEPT ![d].step = "range"]
        /\ UNCHANGED <<kernel, io, orphan, panicked>>
    BY DEF ReapsWaiter
  <1>2. [reaper[d] EXCEPT !.step = "range"] \in Reapers
    BY ReaperType DEF Reapers
  <1>3. reaper' \in [Devices -> Reapers]
    BY <1>1, <1>2, ReaperType
  <1>4. Connections'
    BY <1>1 DEF IInv, Connections, Registered, Working, kernel, io
  <1>5. (\E i \in DOMAIN MTSQueue : Ends(i)) \/ UNCHANGED <<procs, MTSQueue>>
    BY DEF ReapsWaiter
  <1>6. CASE UNCHANGED <<procs, MTSQueue>>
    <2>1. TypeOK'
      BY <1>1, <1>3, <1>6 DEF IInv, TypeOK, procs, kernel, io, Reapers
    <2>. QED BY <1>4, <1>6, <2>1, DevicesOnly
  <1>7. ASSUME NEW i \in DOMAIN MTSQueue, Ends(i)
        PROVE  IInv'
    <2>1. TypeOK'
      BY <1>1, <1>3, <1>7, EndsInv DEF IInv, TypeOK, kernel, io, Reapers
    <2>. QED BY <1>4, <1>7, <2>1, EndsInv DEF IInv
  <1>. QED BY <1>5, <1>6, <1>7

\* SUSP_READY holds a process once.
LEMMA SuspReadyLength ==
    IInv => Len(SuspReadyQueue) \in 0 .. Cardinality(Procs)
  <1>. SUFFICES ASSUME IInv PROVE Len(SuspReadyQueue) \in 0 .. Cardinality(Procs)
    OBVIOUS
  <1>1. SuspReadyQueue \in Seq(Procs) /\ Distinct(SuspReadyQueue)
    BY DEF IInv, TypeOK, Returning
  <1>2. Cardinality(Elements(SuspReadyQueue)) = Len(SuspReadyQueue)
    BY <1>1, DistinctLength
  <1>3. Elements(SuspReadyQueue) \subseteq Procs
    BY <1>1, SequenceType
  <1>4. /\ Cardinality(Elements(SuspReadyQueue)) <= Cardinality(Procs)
        /\ Cardinality(Procs) \in Nat
    BY <1>3, DispatchAssumption, FS_Subset, FS_CardinalityType
  <1>. QED BY <1>1, <1>2, <1>4

LEMMA ReapsSuspendedInv ==
    ASSUME IInv, Reaping, NEW d \in Devices, ReapsSuspended(d)
    PROVE  IInv'
  <1>. DEFINE at == IF reaper[d].step = "range" THEN 1 ELSE reaper[d].at
              len == IF reaper[d].step = "range" THEN Len(SuspReadyQueue) ELSE reaper[d].len
              r == [step |-> "list", at |-> at + 1, len |-> len]
  <1>1. UNCHANGED <<MTSQueue, kernel, io, orphan>>
    BY DEF ReapsSuspended
  <1>2. at \in Nat /\ len \in 0 .. Cardinality(Procs)
    BY ReaperType, SuspReadyLength DEF Reapers
  <1>3. r \in Reapers
    BY <1>2 DEF Reapers
  <1>4. Off \in Reapers
    <2>1. 0 \in 0 .. Cardinality(Procs)
      BY DispatchAssumption, FS_CardinalityType
    <2>. QED BY <2>1 DEF Off, Reapers
  <1>5. \/ at > len /\ reaper' = [reaper EXCEPT ![d] = Off] /\ UNCHANGED <<procs, panicked>>
        \/ at > Len(SuspReadyQueue) /\ panicked' = TRUE /\ UNCHANGED <<procs, reaper>>
        \/ /\ ~(at > len) /\ ~(at > Len(SuspReadyQueue))
           /\ state' = [state EXCEPT ![SuspReadyQueue[at]] = "EXIT"]
           /\ SuspReadyQueue' = Without(SuspReadyQueue, at)
           /\ reaper' = [reaper EXCEPT ![d] = r]
           /\ UNCHANGED <<calls, panicked>>
    BY DEF ReapsSuspended
  <1>. HIDE DEF r
  <1>6. reaper' \in [Devices -> Reapers] /\ panicked' \in BOOLEAN
    <2>1. \/ reaper' = reaper \/ reaper' = [reaper EXCEPT ![d] = Off]
          \/ reaper' = [reaper EXCEPT ![d] = r]
      BY <1>5
    <2>2. panicked' = panicked \/ panicked' = TRUE
      BY <1>5
    <2>3. reaper \in [Devices -> Reapers] /\ panicked \in BOOLEAN
      BY ReaperType DEF IInv, TypeOK
    <2>. QED BY <1>3, <1>4, <2>1, <2>2, <2>3
  <1>7. Connections'
    BY <1>1 DEF IInv, Connections, Registered, Working, kernel, io
  <1>8. CASE UNCHANGED procs
    <2>1. TypeOK'
      BY <1>1, <1>6, <1>8 DEF IInv, TypeOK, procs, kernel, io, Reapers
    <2>. QED BY <1>1, <1>7, <1>8, <2>1, DevicesOnly
  <1>9. CASE /\ ~(at > len) /\ ~(at > Len(SuspReadyQueue))
             /\ state' = [state EXCEPT ![SuspReadyQueue[at]] = "EXIT"]
             /\ SuspReadyQueue' = Without(SuspReadyQueue, at)
             /\ UNCHANGED calls
    <2>1. at \in DOMAIN SuspReadyQueue
      <3>1. at # 0
        <4>1. reaper[d].step = "range" \/ reaper[d].step = "list"
          BY DEF ReapsSuspended
        <4>. QED BY <4>1 DEF Reaping
      <3>. HIDE DEF at, len
      <3>2. DOMAIN SuspReadyQueue = 1 .. Len(SuspReadyQueue) /\ Len(SuspReadyQueue) \in Nat
        BY DEF IInv, TypeOK
      <3>. QED BY <1>2, <1>9, <3>1, <3>2
    <2>. HIDE DEF at, len
    <2>2. Returning' /\ SuspReadyQueue' \in Seq(Procs)
      BY <1>9, <2>1, SuspReadyRemoved
    <2>3. SuspReadyQueue[at] \in Procs /\ state[SuspReadyQueue[at]] = "SUSP_READY"
      BY <2>1, SuspReadyIs
    <2>4. Entries'
      BY <1>1, <1>9, <2>3 DEF IInv, TypeOK, Entries, Waits
    <2>5. TypeOK'
      BY <1>1, <1>6, <1>9, <2>2, <2>3 DEF IInv, TypeOK, kernel, io, Reapers
    <2>. QED BY <1>7, <2>2, <2>4, <2>5 DEF IInv
  <1>. QED BY <1>5, <1>8, <1>9 DEF procs

\* handleIOFinished.
LEMMA FinishesInv ==
    ASSUME IInv, NEW d \in Devices, Finishes(d)
    PROVE  IInv'
  <1>1. /\ device' = [device EXCEPT ![d] = "idle"] /\ device[d] = "busy"
        /\ job' = [job EXCEPT ![d] = NoJob]
        /\ Disp' = [Disp EXCEPT ![d] = Registered(d)]
        /\ UNCHANGED <<calls, AvailableIOs, handler, marking, assignedPID, starts, loss>>
    BY DEF Finishes
  <1>2. device' \in [Devices ->
          {"off", "idle", "polling", "answered", "busy", "stopping", "ending"}]
    BY <1>1 DEF IInv, TypeOK
  <1>3. job' \in [Devices -> Wait \union {NoJob}]
    BY <1>1 DEF IInv, TypeOK
  <1>4. Disp' \in [Devices -> BOOLEAN]
    <2>1. Registered(d) \in BOOLEAN
      BY DEF Registered
    <2>. QED BY <1>1, <2>1, Zenon DEF IInv, TypeOK
  <1>5. \A c \in Devices : /\ device'[c] = IF c = d THEN "idle" ELSE device[c]
                           /\ job'[c] = IF c = d THEN NoJob ELSE job[c]
    BY <1>1 DEF IInv, TypeOK
  <1>6. Connections'
    BY <1>1, <1>5 DEF IInv, Connections, Registered, Working
  <1>7. \/ UNCHANGED <<state, SuspReadyQueue, MTSQueue>>
        \/ \E i \in DOMAIN MTSQueue :
              MTSQueue' = Without(MTSQueue, i) /\ Wakes(MTSQueue[i].proc)
    BY DEF Finishes
  <1>8. CASE UNCHANGED <<state, SuspReadyQueue, MTSQueue>>
    <2>1. TypeOK'
      BY <1>1, <1>2, <1>3, <1>4, <1>8 DEF IInv, TypeOK, loss
    <2>. QED BY <1>1, <1>6, <1>8, <2>1, DevicesOnly DEF procs
  <1>9. ASSUME NEW i \in DOMAIN MTSQueue,
               MTSQueue' = Without(MTSQueue, i), Wakes(MTSQueue[i].proc)
        PROVE  IInv'
    <2>. DEFINE p == MTSQueue[i].proc
    <2>1. p \in Procs /\ Waits(p)
      BY EntryWaits
    <2>2. Wakes(p)
      BY <1>9
    <2>3. PICK t \in {"EXEC", "SUSP_READY"} : /\ state' = [state EXCEPT ![p] = t]
            /\ IF t = "SUSP_READY" THEN SuspReadyQueue' = Append(SuspReadyQueue, p)
               ELSE UNCHANGED SuspReadyQueue
      BY <2>2 DEF Wakes
    <2>. HIDE DEF p
    <2>4. \A r \in Procs : state'[r] = IF r = p THEN t ELSE state[r]
      BY <2>3 DEF IInv, TypeOK
    <2>5. Entries' /\ MTSQueue' \in Seq(Entry)
      BY <1>9, <2>1, <2>4, EntryRemoved DEF Waits, p
    <2>6. Returning' /\ SuspReadyQueue' \in Seq(Procs)
      <3>1. CASE t = "SUSP_READY"
        BY <2>1, <2>3, <3>1, SuspReadyAdded DEF Waits
      <3>2. CASE t = "EXEC"
        BY <2>1, <2>3, <2>4, <3>2, SuspReadyStays DEF Waits, IInv, TypeOK
      <3>. QED BY <3>1, <3>2
    <2>7. state' \in [Procs -> {"EXEC", "BLOCKED", "SUSP_BLOCKED", "SUSP_READY", "EXIT"}]
      BY <2>1, <2>3 DEF IInv, TypeOK
    <2>8. TypeOK'
      BY <1>1, <1>2, <1>3, <1>4, <2>5, <2>6, <2>7 DEF IInv, TypeOK, loss
    <2>. QED BY <1>6, <2>5, <2>6, <2>8 DEF IInv
  <1>. QED BY <1>7, <1>8, <1>9

LEMMA SuspendsInv ==
    ASSUME IInv, NEW p \in Procs, Suspends(p)
    PROVE  IInv'
  <1>1. /\ state[p] = "BLOCKED" /\ state' = [state EXCEPT ![p] = "SUSP_BLOCKED"]
        /\ UNCHANGED <<calls, SuspReadyQueue, MTSQueue, kernel, io, loss>>
    BY DEF Suspends
  <1>2. \A r \in Procs : state'[r] = IF r = p THEN "SUSP_BLOCKED" ELSE state[r]
    BY <1>1 DEF IInv, TypeOK
  <1>3. Entries' /\ Returning'
    BY <1>1, <1>2, SuspReadyStays DEF IInv, Entries, Waits
  <1>4. TypeOK' /\ Connections'
    BY <1>1 DEF IInv, TypeOK, Connections, Registered, Working, kernel, io, loss
  <1>. QED BY <1>3, <1>4 DEF IInv

LEMMA ReturnsInv ==
    ASSUME IInv, Returns
    PROVE  IInv'
  <1>1. /\ SuspReadyQueue # <<>> /\ SuspReadyQueue' = Tail(SuspReadyQueue)
        /\ state' = [state EXCEPT ![Head(SuspReadyQueue)] = "EXEC"]
        /\ UNCHANGED <<calls, MTSQueue, kernel, io, loss>>
    BY DEF Returns
  <1>2. SuspReadyQueue \in Seq(Procs) /\ Distinct(SuspReadyQueue)
    BY DEF IInv, TypeOK, Returning
  <1>3. /\ SuspReadyQueue' \in Seq(Procs) /\ Distinct(SuspReadyQueue')
        /\ Elements(SuspReadyQueue') = Elements(SuspReadyQueue) \ {Head(SuspReadyQueue)}
        /\ Head(SuspReadyQueue) \in Elements(SuspReadyQueue)
    BY <1>1, <1>2, TailKeeps
  <1>. DEFINE p == Head(SuspReadyQueue)
  <1>4. p \in Procs /\ state[p] = "SUSP_READY"
    BY <1>3 DEF IInv, Returning
  <1>. HIDE DEF p
  <1>5. \A r \in Procs : state'[r] = IF r = p THEN "EXEC" ELSE state[r]
    BY <1>1 DEF IInv, TypeOK, p
  <1>6. Returning'
    BY <1>3, <1>4, <1>5 DEF IInv, Returning, p
  <1>7. Entries'
    BY <1>1, <1>4, <1>5 DEF IInv, Entries, Waits
  <1>8. TypeOK' /\ Connections'
    BY <1>1, <1>3 DEF IInv, TypeOK, Connections, Registered, Working, kernel, io, loss
  <1>. QED BY <1>6, <1>7, <1>8 DEF IInv

-----------------------------------------------------------------------------
(* The invariant *)

LEMMA InitInv == Init => IInv /\ Reaping
  <1>. SUFFICES ASSUME Init PROVE IInv /\ Reaping
    OBVIOUS
  <1>1. Cardinality(Procs) \in Nat
    BY DispatchAssumption, FS_CardinalityType
  <1>2. \A S : <<>> \in Seq(S) /\ DOMAIN <<>> = {}
    OBVIOUS
  <1>3. Off \in [step : {"off", "first", "range", "list"}, at : Nat, len : 0 .. Cardinality(Procs)]
    BY <1>1 DEF Off
  <1>4. TypeOK
    <2>1. calls \in [Procs -> 0 .. MaxCalls] /\ starts \in [Devices -> 0 .. MaxStarts]
      BY DispatchAssumption DEF Init
    <2>2. /\ state \in [Procs -> {"EXEC", "BLOCKED", "SUSP_BLOCKED", "SUSP_READY", "EXIT"}]
          /\ assignedPID \in [Devices -> Procs]
      BY DispatchAssumption DEF Init
    <2>3. MTSQueue \in Seq(Entry) /\ SuspReadyQueue \in Seq(Procs) /\ AvailableIOs \in Seq(Devices)
      BY <1>2 DEF Init
    <2>4. handler \in [Devices -> Seq(Wait)]
      BY <1>2 DEF Init
    <2>5. /\ reaper \in [Devices -> [step : {"off", "first", "range", "list"}, at : Nat,
                                     len : 0 .. Cardinality(Procs)]]
          /\ panicked \in BOOLEAN /\ marking = {}
      BY <1>3 DEF Init
    <2>6. /\ Disp \in [Devices -> BOOLEAN] /\ orphan \in [Devices -> BOOLEAN]
          /\ device \in [Devices -> {"off", "idle", "polling", "answered", "busy", "stopping",
                                     "ending"}]
          /\ job \in [Devices -> Wait \union {NoJob}]
      BY DEF Init
    <2>. QED BY <2>1, <2>2, <2>3, <2>4, <2>5, <2>6 DEF TypeOK
  <1>5. Entries /\ Returning
    BY <1>2 DEF Init, Entries, Returning, Waiting, Elements, Distinct, Waits
  <1>6. Connections
    BY <1>2 DEF Init, Connections, Registered, Working, Elements, Distinct
  <1>7. Reaping
    BY DEF Init, Reaping, Off
  <1>. QED BY <1>4, <1>5, <1>6, <1>7 DEF IInv

LEMMA ReapingStep ==
    ASSUME IInv, Reaping, Next
    PROVE  Reaping'
  <1>1. UNCHANGED reaper => Reaping'
    BY DEF Reaping
  <1>2. \/ UNCHANGED reaper
        \/ \E d \in Devices : Removed(d) \/ ReapsWaiter(d) \/ ReapsSuspended(d)
    BY DEF Next, Syscall, SyscallMissingDevice, SyscallTakes, SyscallQueues, Suspends, Marks,
       Starts, RecieveIO, TakesQueued, Polls, Receives, Begins, Finishes, Loss, Stops,
       RequestIsLost, Disconnects, NeverConnected, Returns, loss
  <1>3. ASSUME NEW d \in Devices, Removed(d) \/ ReapsWaiter(d) \/ ReapsSuspended(d)
        PROVE  Reaping'
    <2>1. reaper \in [Devices -> Reapers]
      BY ReaperType
    <2>2. /\ \A c \in Devices : c # d => reaper'[c] = reaper[c]
          /\ reaper'[d] = reaper[d] \/ reaper'[d].step # "list" \/ reaper'[d].at # 0
      <3>1. CASE Removed(d)
        BY <2>1, <3>1 DEF Removed, Reapers
      <3>2. CASE ReapsWaiter(d)
        BY <2>1, <3>2 DEF ReapsWaiter, Reapers
      <3>3. CASE ReapsSuspended(d)
        BY <2>1, <3>3 DEF ReapsSuspended, Reapers, Off
      <3>. QED BY <1>3, <3>1, <3>2, <3>3
    <2>. QED BY <2>2 DEF Reaping
  <1>. QED BY <1>1, <1>2, <1>3

LEMMA NextInv ==
    ASSUME IInv, Reaping, [Next]_vars
    PROVE  IInv' /\ Reaping'
  <1>1. CASE UNCHANGED vars
    BY <1>1 DEF IInv, TypeOK, Entries, Returning, Connections, Registered, Working, Waits, Reaping,
       vars, procs, kernel, io, loss
  <1>2. CASE Next
    <2>1. ASSUME NEW p \in Procs, Syscall(p) \/ Suspends(p) PROVE IInv'
      BY <2>1, SyscallMissingDeviceInv, SyscallTakesInv, SyscallQueuesInv, SuspendsInv
         DEF Syscall
    <2>2. ASSUME NEW m \in marking, Marks(m) PROVE IInv'
      BY <2>2, MarksInv
    <2>3. ASSUME NEW d \in Devices, Starts(d) \/ RecieveIO(d) \/ Begins(d) \/ Finishes(d)
          PROVE  IInv'
      BY <2>3, StartsInv, TakesQueuedInv, PollsInv, ReceivesInv, BeginsInv, FinishesInv
         DEF RecieveIO
    <2>4. ASSUME NEW d \in Devices, Loss(d) PROVE IInv'
      BY <2>4, StopsInv, RequestIsLostInv, DisconnectsInv, RemovedInv, NeverConnectedInv,
         ReapsWaiterInv, ReapsSuspendedInv DEF Loss
    <2>. QED BY <1>2, <2>1, <2>2, <2>3, <2>4, ReturnsInv, ReapingStep DEF Next
  <1>. QED BY <1>1, <1>2

\* The invariant, for every value of the constants.
THEOREM DispatchInvariance == Spec => [](IInv /\ Reaping)
  BY InitInv, NextInv, PTL DEF Spec

\* Type correctness of the handlers and the loops of the devices.
THEOREM DispatchTypeOK == Spec => []TypeOK
  <1>1. IInv => TypeOK
    BY DEF IInv
  <1>. QED BY <1>1, DispatchInvariance, PTL

\* A process waits exactly as long as it has its one entry, and SUSP_READY holds those
\* that are in that state, whatever devices are lost and whichever handlers overlap.
THEOREM EntriesFollowWaits == Spec => []EntriesAreWaits
  <1>1. ASSUME IInv PROVE EntriesAreWaits
    <2>1. MTSQueue \in Seq(Entry) /\ SuspReadyQueue \in Seq(Procs)
      BY <1>1 DEF IInv, TypeOK
    <2>2. /\ Waiting(MTSQueue) \in Seq(Procs) /\ Len(Waiting(MTSQueue)) = Len(MTSQueue)
          /\ Elements(Waiting(MTSQueue)) = {e.proc : e \in Elements(MTSQueue)}
      <3>1. /\ Waiting(MTSQueue) \in Seq(Procs) /\ DOMAIN Waiting(MTSQueue) = DOMAIN MTSQueue
            /\ \A i \in DOMAIN MTSQueue : Waiting(MTSQueue)[i] = MTSQueue[i].proc
        BY <2>1, WaitingOf
      <3>. QED BY <2>1, <3>1 DEF Elements
    <2>3. /\ Cardinality(Elements(Waiting(MTSQueue))) = Len(MTSQueue)
          /\ Cardinality(Elements(SuspReadyQueue)) = Len(SuspReadyQueue)
      BY <1>1, <2>1, <2>2, DistinctLength DEF IInv, Entries, Returning
    <2>. QED BY <1>1, <2>2, <2>3 DEF IInv, Entries, Returning, EntriesAreWaits
  <1>. QED BY <1>1, DispatchInvariance, PTL

-----------------------------------------------------------------------------
(* One device per wait *)

\* Once a system call has blocked its process, nothing sees its entry unmarked.
NoRaces == ~Races

\* The waits that the kernel has handed to d: what d works on, and what its channel holds.
Holds(d) == Elements(handler[d]) \union (IF Working(d) THEN {job[d]} ELSE {})

Apart == \A c, d \in Devices : c # d => Holds(c) \cap Holds(d) = {}
Once == \A d \in Devices : /\ Distinct(handler[d])
                           /\ Working(d) => job[d] \notin Elements(handler[d])
Past == \A d \in Devices : \A w \in Holds(d) : w[2] <= calls[w[1]]
Marked == \A d \in Devices : \A i \in DOMAIN MTSQueue :
    <<MTSQueue[i].proc, MTSQueue[i].wait>> \in Holds(d) => MTSQueue[i].working

\* An entry is of the last wait of its process.
Counted == \A i \in DOMAIN MTSQueue : MTSQueue[i].wait = calls[MTSQueue[i].proc]

OInv == marking = {} /\ Apart /\ Once /\ Past /\ Marked /\ Counted

\* No device is given more.
HoldsLess == \A d \in Devices : Holds(d)' \subseteq Holds(d)

\* Nothing is handed over, and no entry is new.
LEMMA NothingHanded ==
    ASSUME OInv, UNCHANGED <<calls, marking>>, Once',
           \A d \in Devices : Holds(d)' \subseteq Holds(d),
           \A i \in DOMAIN MTSQueue' : \E j \in DOMAIN MTSQueue : MTSQueue'[i] = MTSQueue[j]
    PROVE  OInv'
  <1>1. Apart'
    BY DEF OInv, Apart
  <1>2. Past'
    BY DEF OInv, Past
  <1>3. Marked'
    <2>. SUFFICES ASSUME NEW d \in Devices, NEW i \in DOMAIN MTSQueue',
                         <<MTSQueue'[i].proc, MTSQueue'[i].wait>> \in Holds(d)'
                  PROVE  MTSQueue'[i].working
      BY DEF Marked
    <2>1. PICK j \in DOMAIN MTSQueue : MTSQueue'[i] = MTSQueue[j]
      OBVIOUS
    <2>2. <<MTSQueue[j].proc, MTSQueue[j].wait>> \in Holds(d)
      BY <2>1
    <2>. QED BY <2>1, <2>2 DEF OInv, Marked
  <1>4. Counted'
    BY DEF OInv, Counted
  <1>. QED BY <1>1, <1>2, <1>3, <1>4 DEF OInv

\* No device and no channel changes.
LEMMA DevicesStay ==
    ASSUME OInv, UNCHANGED <<calls, marking, handler, device, job>>,
           \A i \in DOMAIN MTSQueue' : \E j \in DOMAIN MTSQueue : MTSQueue'[i] = MTSQueue[j]
    PROVE  OInv' /\ HoldsLess
  <1>1. Once' /\ HoldsLess
    BY DEF HoldsLess, OInv, Once, Holds, Working
  <1>. QED BY <1>1, NothingHanded DEF HoldsLess

LEMMA WithoutIsPart ==
    ASSUME IInv, NEW i \in DOMAIN MTSQueue, MTSQueue' = Without(MTSQueue, i)
    PROVE  \A k \in DOMAIN MTSQueue' : \E j \in DOMAIN MTSQueue : MTSQueue'[k] = MTSQueue[j]
  <1>1. MTSQueue \in Seq(Entry) /\ Len(MTSQueue) \in Nat /\ DOMAIN MTSQueue = 1 .. Len(MTSQueue)
    BY DEF IInv, TypeOK
  <1>2. /\ DOMAIN MTSQueue' = 1 .. Len(MTSQueue) - 1
        /\ \A k \in 1 .. Len(MTSQueue) - 1 :
              MTSQueue'[k] = IF k < i THEN MTSQueue[k] ELSE MTSQueue[k + 1]
    BY <1>1, WithoutAt
  <1>3. \A k \in 1 .. Len(MTSQueue) - 1 : k \in DOMAIN MTSQueue /\ k + 1 \in DOMAIN MTSQueue
    BY <1>1
  <1>. QED BY <1>2, <1>3

\* A system call blocks its process, and may hand its wait to d.
LEMMA BlocksApart ==
    ASSUME IInv, OInv, NEW p \in Procs, NEW n \in Names, NEW b \in BOOLEAN, Blocks(p, n, b),
           UNCHANGED <<marking, device, job>>, NEW d \in Devices,
           IF b THEN handler' = [handler EXCEPT ![d] = Append(@, <<p, calls[p] + 1>>)]
           ELSE UNCHANGED handler
    PROVE  OInv'
  <1>. DEFINE e == [proc |-> p, wait |-> calls[p] + 1, name |-> n, working |-> b]
              w == <<p, calls[p] + 1>>
  <1>1. /\ state[p] = "EXEC" /\ calls[p] \in Nat /\ calls[p] + 1 \in 1 .. MaxCalls
        /\ calls' = [calls EXCEPT ![p] = @ + 1] /\ MTSQueue' = Append(MTSQueue, e)
    <2>1. calls[p] \in 0 .. MaxCalls /\ MaxCalls \in Nat
      BY DispatchAssumption DEF IInv, TypeOK
    <2>2. calls[p] < MaxCalls
      BY DEF Blocks
    <2>. QED BY <2>1, <2>2 DEF Blocks
  <1>2. w \in Wait /\ w[1] = p /\ w[2] = calls[p] + 1
    BY <1>1 DEF Wait
  <1>3. e.proc = p /\ <<e.proc, e.wait>> = w /\ e.working = b
    OBVIOUS
  <1>. HIDE DEF e, w
  <1>4. \A c \in Devices : w \notin Holds(c)
    BY <1>1, <1>2 DEF OInv, Past
  <1>5. \A c \in Devices : handler[c] \in Seq(Wait)
    BY DEF IInv, TypeOK
  <1>6. ASSUME b
        PROVE  \A c \in Devices :
                  /\ Distinct(handler'[c])
                  /\ Elements(handler'[c]) = IF c = d THEN Elements(handler[c]) \union {w}
                                              ELSE Elements(handler[c])
    <2>1. /\ handler' = [handler EXCEPT ![d] = Append(@, w)]
          /\ handler'[d] = Append(handler[d], w)
          /\ \A c \in Devices : c # d => handler'[c] = handler[c]
      BY <1>6 DEF IInv, TypeOK, w
    <2>2. w \notin Elements(handler[d]) /\ Distinct(handler[d])
      BY <1>4 DEF Holds, OInv, Once
    <2>3. Distinct(handler'[d]) /\ Elements(handler'[d]) = Elements(handler[d]) \union {w}
      BY <1>2, <1>5, <2>1, <2>2, AppendKeeps
    <2>. SUFFICES ASSUME NEW c \in Devices
                  PROVE  /\ Distinct(handler'[c])
                         /\ Elements(handler'[c]) = IF c = d THEN Elements(handler[c]) \union {w}
                                                     ELSE Elements(handler[c])
      OBVIOUS
    <2>4. CASE c = d
      BY <2>3, <2>4
    <2>5. CASE c # d
      BY <2>1, <2>5 DEF OInv, Once
    <2>. QED BY <2>4, <2>5
  <1>7. \A c \in Devices :
           Holds(c)' = IF b /\ c = d THEN Holds(c) \union {w} ELSE Holds(c)
    <2>1. CASE b
      BY <1>6, <2>1 DEF Holds, Working
    <2>2. CASE ~b
      BY <2>2 DEF Holds, Working
    <2>. QED BY <2>1, <2>2
  <1>8. Once'
    <2>1. CASE b
      <3>1. ASSUME NEW c \in Devices, Working(c)' PROVE (job[c] \notin Elements(handler[c]))'
        <4>1. Working(c) /\ job'[c] = job[c] /\ job[c] # w /\ job[c] \notin Elements(handler[c])
          BY <3>1, <1>4 DEF Working, Holds, OInv, Once
        <4>. QED BY <1>6, <2>1, <4>1
      <3>. QED BY <1>6, <2>1, <3>1 DEF Once
    <2>2. CASE ~b
      BY <2>2 DEF OInv, Once, Working
    <2>. QED BY <2>1, <2>2
  <1>9. Apart'
    BY <1>4, <1>7 DEF OInv, Apart
  <1>10. Past'
    <2>1. \A r \in Procs : calls[r] \in Nat /\ calls'[r] = IF r = p THEN calls[r] + 1 ELSE calls[r]
      BY <1>1, DispatchAssumption DEF IInv, TypeOK
    <2>2. \A c \in Devices : \A v \in Holds(c) : v \in Wait
      BY <1>5, SequenceType DEF Holds, IInv, Connections
    <2>3. \A v \in Wait : v[1] \in Procs /\ v[2] \in Int
      BY DEF Wait
    <2>4. ASSUME NEW c \in Devices, NEW v \in Holds(c)' PROVE v[2] <= calls'[v[1]]
      <3>1. CASE v = w
        BY <1>1, <1>2, <2>1, <3>1
      <3>2. CASE v \in Holds(c)
        <4>1. v[2] <= calls[v[1]] /\ v[1] \in Procs /\ v[2] \in Int
          BY <2>2, <2>3, <3>2 DEF OInv, Past
        <4>. QED BY <2>1, <4>1
      <3>. QED BY <1>7, <2>4, <3>1, <3>2
    <2>. QED BY <2>4 DEF Past
  <1>11. Marked'
    <2>. SUFFICES ASSUME NEW c \in Devices, NEW i \in DOMAIN MTSQueue',
                         <<MTSQueue'[i].proc, MTSQueue'[i].wait>> \in Holds(c)'
                  PROVE  MTSQueue'[i].working
      BY DEF Marked
    <2>1. MTSQueue \in Seq(Entry) /\ Len(MTSQueue) \in Nat /\ DOMAIN MTSQueue = 1 .. Len(MTSQueue)
      BY DEF IInv, TypeOK
    <2>2. CASE i \in DOMAIN MTSQueue
      <3>1. MTSQueue'[i] = MTSQueue[i]
        BY <1>1, <2>1, <2>2
      <3>2. MTSQueue[i].proc # p
        BY <1>1, <2>2, EntryWaits DEF Waits
      <3>3. <<MTSQueue[i].proc, MTSQueue[i].wait>> # w
        BY <1>2, <3>2 DEF w
      <3>. QED BY <1>7, <2>2, <3>1, <3>3 DEF OInv, Marked
    <2>3. CASE i = Len(MTSQueue) + 1
      <3>1. MTSQueue'[i] = e
        BY <1>1, <2>1, <2>3
      <3>. QED BY <1>3, <1>4, <1>7, <3>1
    <2>. QED BY <1>1, <2>1, <2>2, <2>3
  <1>12. Counted'
    <2>. SUFFICES ASSUME NEW i \in DOMAIN MTSQueue'
                  PROVE  MTSQueue'[i].wait = calls'[MTSQueue'[i].proc]
      BY DEF Counted
    <2>1. MTSQueue \in Seq(Entry) /\ Len(MTSQueue) \in Nat /\ DOMAIN MTSQueue = 1 .. Len(MTSQueue)
      BY DEF IInv, TypeOK
    <2>2. CASE i \in DOMAIN MTSQueue
      <3>1. MTSQueue'[i] = MTSQueue[i]
        BY <1>1, <2>1, <2>2
      <3>2. MTSQueue[i].proc # p /\ MTSQueue[i].proc \in Procs
        BY <1>1, <2>2, EntryWaits DEF Waits
      <3>3. calls'[MTSQueue[i].proc] = calls[MTSQueue[i].proc]
        BY <1>1, <3>2 DEF IInv, TypeOK
      <3>. QED BY <2>2, <3>1, <3>3 DEF OInv, Counted
    <2>3. CASE i = Len(MTSQueue) + 1
      <3>1. MTSQueue'[i] = e
        BY <1>1, <2>1, <2>3
      <3>2. calls'[p] = calls[p] + 1
        BY <1>1 DEF IInv, TypeOK
      <3>3. e.proc = p /\ e.wait = calls[p] + 1
        BY DEF e
      <3>. QED BY <1>1, <3>1, <3>2, <3>3
    <2>. QED BY <1>1, <2>1, <2>2, <2>3
  <1>. QED BY <1>8, <1>9, <1>10, <1>11, <1>12 DEF OInv

\* recieveIO takes an entry that nobody was given.
LEMMA TakesQueuedApart ==
    ASSUME IInv, OInv, NEW d \in Devices, TakesQueued(d)
    PROVE  OInv'
  <1>0. PICK i \in DOMAIN MTSQueue :
          /\ IsFirst(i, MTSQueue, LAMBDA e : Queued(e, Name[d]))
          /\ MTSQueue' = [MTSQueue EXCEPT ![i].working = TRUE]
          /\ job' = [job EXCEPT ![d] = <<MTSQueue[i].proc, MTSQueue[i].wait>>]
    BY DEF TakesQueued
  <1>1. ~MTSQueue[i].working
    <2>1. Queued(MTSQueue[i], Name[d])
      BY <1>0 DEF IsFirst
    <2>. QED BY <2>1 DEF Queued
  <1>. DEFINE w == <<MTSQueue[i].proc, MTSQueue[i].wait>>
  <1>2. /\ device[d] = "idle" /\ device' = [device EXCEPT ![d] = "answered"]
        /\ UNCHANGED <<calls, handler, marking>>
    BY DEF TakesQueued, procs
  <1>3. \A c \in Devices : w \notin Holds(c)
    BY <1>1 DEF OInv, Marked
  <1>4. w \in Wait /\ w[1] = MTSQueue[i].proc /\ w[2] = MTSQueue[i].wait
    BY EntryWaits
  <1>5. \A c \in Devices : /\ device'[c] = IF c = d THEN "answered" ELSE device[c]
                           /\ job'[c] = IF c = d THEN w ELSE job[c]
    BY <1>0, <1>2 DEF IInv, TypeOK
  <1>6. Len(MTSQueue) \in Nat /\ MTSQueue \in Seq(Entry)
    BY DEF IInv, TypeOK
  <1>7. /\ DOMAIN MTSQueue' = DOMAIN MTSQueue
        /\ \A k \in DOMAIN MTSQueue :
              /\ MTSQueue'[k].proc = MTSQueue[k].proc /\ MTSQueue'[k].wait = MTSQueue[k].wait
              /\ k # i => MTSQueue'[k] = MTSQueue[k]
        /\ MTSQueue'[i].working
    BY <1>0, <1>6, EntryWaits DEF Entry
  <1>8. \A k \in DOMAIN MTSQueue :
           <<MTSQueue[k].proc, MTSQueue[k].wait>> = w => k = i
    <2>. SUFFICES ASSUME NEW k \in DOMAIN MTSQueue, MTSQueue[k].proc = MTSQueue[i].proc
                  PROVE  k = i
      OBVIOUS
    <2>1. Waiting(MTSQueue)[k] = Waiting(MTSQueue)[i]
      BY <1>6, WaitingOf
    <2>. QED BY <1>6, <2>1, WaitingOf DEF IInv, Entries, Distinct
  <1>. HIDE DEF w
  <1>9. \A c \in Devices : Holds(c)' = IF c = d THEN Holds(c) \union {w} ELSE Holds(c)
    BY <1>2, <1>5 DEF Holds, Working
  <1>10. Apart'
    BY <1>3, <1>9 DEF OInv, Apart
  <1>11. Once'
    BY <1>2, <1>3, <1>5 DEF OInv, Once, Working, Holds
  <1>12. Past'
    <2>1. w[2] = calls[w[1]] /\ w[2] \in Nat
      BY <1>4 DEF OInv, Counted, Wait
    <2>. QED BY <1>2, <1>9, <2>1 DEF OInv, Past
  <1>13. Marked'
    <2>. SUFFICES ASSUME NEW c \in Devices, NEW k \in DOMAIN MTSQueue,
                         <<MTSQueue[k].proc, MTSQueue[k].wait>> \in Holds(c) \union {w}
                  PROVE  MTSQueue'[k].working
      BY <1>7, <1>9 DEF Marked
    <2>1. CASE k = i
      BY <1>7, <2>1
    <2>2. CASE k # i
      <3>1. <<MTSQueue[k].proc, MTSQueue[k].wait>> \in Holds(c)
        BY <1>8, <2>2 DEF w
      <3>. QED BY <1>7, <2>2, <3>1 DEF OInv, Marked
    <2>. QED BY <2>1, <2>2
  <1>14. Counted'
    BY <1>2, <1>7 DEF OInv, Counted
  <1>. QED BY <1>2, <1>10, <1>11, <1>12, <1>13, <1>14 DEF OInv

LEMMA ReceivesApart ==
    ASSUME IInv, OInv, NEW d \in Devices, Receives(d)
    PROVE  OInv' /\ HoldsLess
  <1>1. /\ device[d] = "polling" /\ handler[d] # <<>>
        /\ handler' = [handler EXCEPT ![d] = Tail(@)]
        /\ job' = [job EXCEPT ![d] = Head(handler[d])]
        /\ device' = [device EXCEPT ![d] = "answered"]
        /\ UNCHANGED <<calls, MTSQueue, marking>>
    BY DEF Receives, procs
  <1>. DEFINE w == Head(handler[d])
  <1>2. /\ Distinct(Tail(handler[d])) /\ w \in Elements(handler[d])
        /\ Elements(Tail(handler[d])) = Elements(handler[d]) \ {w}
    <2>1. handler[d] \in Seq(Wait) /\ Distinct(handler[d])
      BY DEF IInv, TypeOK, OInv, Once
    <2>. QED BY <1>1, <2>1, TailKeeps
  <1>. HIDE DEF w
  <1>3. \A c \in Devices : /\ device'[c] = IF c = d THEN "answered" ELSE device[c]
                           /\ job'[c] = IF c = d THEN w ELSE job[c]
                           /\ handler'[c] = IF c = d THEN Tail(handler[d]) ELSE handler[c]
    BY <1>1 DEF IInv, TypeOK, w
  <1>4. \A c \in Devices : Holds(c)' = Holds(c)
    BY <1>1, <1>2, <1>3 DEF Holds, Working
  <1>5. Once'
    BY <1>2, <1>3 DEF OInv, Once, Working
  <1>. QED BY <1>1, <1>4, <1>5, NothingHanded DEF HoldsLess

\* A device whose work or whose channel comes to an end.
LEMMA DeviceLetsGo ==
    ASSUME IInv, OInv, NEW d \in Devices, UNCHANGED <<calls, marking>>,
           \A c \in Devices : c # d =>
              device'[c] = device[c] /\ job'[c] = job[c] /\ handler'[c] = handler[c],
           device'[d] \in {"answered", "busy"} => Working(d) /\ job'[d] = job[d],
           \/ handler'[d] = handler[d] \/ handler'[d] = <<>>
           \/ handler[d] # <<>> /\ handler'[d] = Tail(handler[d]),
           \A i \in DOMAIN MTSQueue' : \E j \in DOMAIN MTSQueue : MTSQueue'[i] = MTSQueue[j]
    PROVE  OInv' /\ HoldsLess
  <1>1. handler[d] \in Seq(Wait) /\ Distinct(handler[d])
    BY DEF IInv, TypeOK, OInv, Once
  <1>2. Distinct(handler'[d]) /\ Elements(handler'[d]) \subseteq Elements(handler[d])
    <2>1. CASE handler'[d] = handler[d]
      BY <1>1, <2>1
    <2>2. CASE handler'[d] = <<>>
      <3>1. Distinct(<<>>) /\ Elements(<<>>) = {}
        BY DEF Distinct, Elements
      <3>. QED BY <2>2, <3>1
    <2>3. CASE handler[d] # <<>> /\ handler'[d] = Tail(handler[d])
      <3>1. /\ Distinct(Tail(handler[d]))
            /\ Elements(Tail(handler[d])) = Elements(handler[d]) \ {Head(handler[d])}
        BY <1>1, <2>3, TailKeeps
      <3>. QED BY <2>3, <3>1
    <2>. QED BY <2>1, <2>2, <2>3
  <1>3. Once' /\ \A c \in Devices : Holds(c)' \subseteq Holds(c)
    BY <1>2 DEF OInv, Once, Holds, Working
  <1>. QED BY <1>3, NothingHanded DEF HoldsLess

LEMMA ApartInit == Init => OInv
  <1>1. DOMAIN <<>> = {}
    OBVIOUS
  <1>. QED BY <1>1 DEF Init, OInv, Apart, Once, Past, Marked, Counted, Holds, Working,
          Elements, Distinct

LEMMA ApartStep ==
    ASSUME NoRaces, IInv, OInv, [Next]_vars
    PROVE  /\ OInv'
           /\ \/ HoldsLess
              \/ \E p \in Procs, n \in Names : SyscallTakes(p, n)
              \/ \E d \in Devices : TakesQueued(d)
  <1>0. \A i \in DOMAIN MTSQueue : \E j \in DOMAIN MTSQueue : MTSQueue[i] = MTSQueue[j]
    OBVIOUS
  <1>1. CASE UNCHANGED vars
    BY <1>0, <1>1, DevicesStay DEF vars, procs, kernel, io
  <1>2. ASSUME NEW p \in Procs, NEW n \in Names, SyscallMissingDevice(p, n) PROVE OInv' /\ HoldsLess
    BY <1>0, <1>2, DevicesStay DEF SyscallMissingDevice, kernel, io
  <1>3. ASSUME NEW p \in Procs, NEW n \in Names, SyscallTakes(p, n) PROVE OInv'
    <2>1. PICK i \in DOMAIN AvailableIOs :
            /\ Blocks(p, n, TRUE)
            /\ handler' = [handler EXCEPT ![AvailableIOs[i]] = Append(@, <<p, calls[p] + 1>>)]
            /\ UNCHANGED <<marking, io>>
      BY <1>3 DEF SyscallTakes, NoRaces
    <2>2. AvailableIOs[i] \in Devices
      BY DEF IInv, TypeOK
    <2>. QED BY <2>1, <2>2, BlocksApart DEF io
  <1>4. ASSUME NEW p \in Procs, NEW n \in Names, SyscallQueues(p, n) PROVE OInv' /\ HoldsLess
    <2>1. Blocks(p, n, FALSE) /\ UNCHANGED <<marking, handler, device, job>>
      BY <1>4 DEF SyscallQueues, kernel, io
    <2>2. PICK i \in DOMAIN AvailableIOs : TRUE
      BY <1>4 DEF SyscallQueues, HasOne
    <2>3. AvailableIOs[i] \in Devices
      BY DEF IInv, TypeOK
    <2>4. HoldsLess
      BY <2>1 DEF HoldsLess, Holds, Working
    <2>. QED BY <2>1, <2>3, <2>4, BlocksApart
  <1>5. ASSUME NEW p \in Procs, Suspends(p) PROVE OInv' /\ HoldsLess
    BY <1>0, <1>5, DevicesStay DEF Suspends, kernel, io
  <1>6. ~\E m \in marking : Marks(m)
    BY DEF OInv
  <1>7. ASSUME Returns PROVE OInv' /\ HoldsLess
    BY <1>0, <1>7, DevicesStay DEF Returns, kernel, io
  <1>8. ASSUME NEW d \in Devices, TakesQueued(d) PROVE OInv'
    BY <1>8, TakesQueuedApart
  <1>9. ASSUME NEW d \in Devices, Receives(d) PROVE OInv' /\ HoldsLess
    BY <1>9, ReceivesApart
  <1>10. ASSUME NEW d \in Devices, ReapsWaiter(d) \/ ReapsSuspended(d) PROVE OInv' /\ HoldsLess
    <2>1. /\ UNCHANGED <<calls, marking, handler, device, job>>
          /\ \/ UNCHANGED MTSQueue
             \/ \E i \in DOMAIN MTSQueue : MTSQueue' = Without(MTSQueue, i)
      BY <1>10 DEF ReapsWaiter, ReapsSuspended, Ends, kernel, io, procs
    <2>. QED BY <1>0, <2>1, WithoutIsPart, DevicesStay
  <1>11. ASSUME NEW d \in Devices,
                Starts(d) \/ Polls(d) \/ Begins(d) \/ Stops(d) \/ RequestIsLost(d)
                  \/ NeverConnected(d) \/ Removed(d)
         PROVE  OInv' /\ HoldsLess
    <2>1. UNCHANGED <<calls, marking, MTSQueue>>
      BY <1>11 DEF Starts, Polls, Begins, Stops, RequestIsLost, NeverConnected, Removed,
         procs, kernel
    <2>2. \A c \in Devices : c # d =>
             device'[c] = device[c] /\ job'[c] = job[c] /\ handler'[c] = handler[c]
      BY <1>11 DEF Starts, Polls, Begins, Stops, RequestIsLost, NeverConnected, Removed,
         kernel, io, IInv, TypeOK
    <2>3. device'[d] \in {"answered", "busy"} => Working(d) /\ job'[d] = job[d]
      BY <1>11 DEF Starts, Polls, Begins, Stops, RequestIsLost, NeverConnected, Removed,
         io, IInv, TypeOK, Working
    <2>4. \/ handler'[d] = handler[d] \/ handler'[d] = <<>>
          \/ handler[d] # <<>> /\ handler'[d] = Tail(handler[d])
      BY <1>11 DEF Starts, Polls, Begins, Stops, RequestIsLost, NeverConnected, Removed,
         kernel, IInv, TypeOK
    <2>5. \A i \in DOMAIN MTSQueue' : \E j \in DOMAIN MTSQueue : MTSQueue'[i] = MTSQueue[j]
      BY <1>0, <2>1
    <2>6. UNCHANGED <<calls, marking>>
      BY <2>1
    <2>. QED BY <2>2, <2>3, <2>4, <2>5, <2>6, DeviceLetsGo
  <1>12. ASSUME NEW d \in Devices, Finishes(d) \/ Disconnects(d) PROVE OInv' /\ HoldsLess
    <2>1. /\ UNCHANGED <<calls, marking, handler>>
          /\ \/ UNCHANGED MTSQueue
             \/ \E i \in DOMAIN MTSQueue : MTSQueue' = Without(MTSQueue, i)
      BY <1>12 DEF Finishes, Disconnects, Ends, kernel
    <2>2. /\ \A c \in Devices : c # d => device'[c] = device[c] /\ job'[c] = job[c]
          /\ ~(device'[d] \in {"answered", "busy"})
      BY <1>12 DEF Finishes, Disconnects, IInv, TypeOK, Working
    <2>3. \A i \in DOMAIN MTSQueue' : \E j \in DOMAIN MTSQueue : MTSQueue'[i] = MTSQueue[j]
      BY <1>0, <2>1, WithoutIsPart
    <2>4. \A c \in Devices : c # d =>
             device'[c] = device[c] /\ job'[c] = job[c] /\ handler'[c] = handler[c]
      BY <2>1, <2>2
    <2>5. UNCHANGED <<calls, marking>> /\ handler'[d] = handler[d]
      BY <2>1
    <2>. QED BY <2>2, <2>3, <2>4, <2>5, DeviceLetsGo
  <1>. QED BY <1>1, <1>2, <1>3, <1>4, <1>5, <1>6, <1>7, <1>8, <1>9, <1>10, <1>11, <1>12
          DEF Next, Syscall, RecieveIO, Loss

\* A wait is served once, by one device: recieveIO takes it out of MTSQueue or
\* SendIORequest hands it over, never both, as long as nothing sees an entry between the
\* append and its mark.
THEOREM WaitsAreServedOnce == ASSUME NoRaces PROVE Spec => []OneDevicePerWait
  <1>1. Spec => []OInv
    BY ApartInit, ApartStep, InitInv, NextInv, PTL DEF Spec
  <1>2. ASSUME OInv PROVE OneDevicePerWait
    <2>. SUFFICES ASSUME NEW w \in Wait PROVE Cardinality(Given(w)) + Cardinality(Sent(w)) <= 1
      BY DEF OneDevicePerWait
    <2>1. Given(w) \cap Sent(w) = {}
      BY <1>2 DEF Given, Sent, OInv, Once, Working
    <2>2. \A d \in Given(w) \union Sent(w) : d \in Devices /\ w \in Holds(d)
      BY DEF Given, Sent, Holds, Working
    <2>3. \A c, d \in Given(w) \union Sent(w) : c = d
      BY <1>2, <2>2 DEF OInv, Apart
    <2>4. Cardinality({}) = 0 /\ \A d \in Devices : Cardinality({d}) = 1
      BY FS_EmptySet, FS_Singleton
    <2>5. CASE Given(w) = {}
      <3>1. Sent(w) = {} \/ \E d \in Devices : Sent(w) = {d}
        BY <2>2, <2>3
      <3>. QED BY <2>4, <2>5, <3>1
    <2>6. CASE Given(w) # {}
      <3>1. Sent(w) = {} /\ \E d \in Devices : Given(w) = {d}
        BY <2>1, <2>2, <2>3, <2>6
      <3>. QED BY <2>4, <3>1
    <2>. QED BY <2>5, <2>6
  <1>. QED BY <1>1, <1>2, PTL

-----------------------------------------------------------------------------
(* A device ends its own wait *)

\* A wait that a device holds is the one that its process is in, unless that is over.
Current == \A d \in Devices : \A w \in Holds(d) :
    state[w[1]] = "EXIT" \/ (Waits(w[1]) /\ w[2] = calls[w[1]])

\* What the process p was doing is of no wait, or goes on, or is over.
GoesOn(p) ==
    \/ state[p] \notin {"BLOCKED", "SUSP_BLOCKED", "EXIT"}
    \/ /\ calls'[p] = calls[p]
       /\ state[p] = "EXIT" => state'[p] = "EXIT"
       /\ state'[p] \in {"BLOCKED", "SUSP_BLOCKED", "EXIT"}

LEMMA HoldsWaits ==
    ASSUME IInv, NEW d \in Devices, NEW w \in Holds(d)
    PROVE  w \in Wait /\ w[1] \in Procs /\ w[2] \in Nat /\ w = <<w[1], w[2]>>
  <1>1. w \in Wait
    <2>1. handler[d] \in Seq(Wait)
      BY DEF IInv, TypeOK
    <2>. QED BY <2>1, SequenceType DEF Holds, IInv, Connections
  <1>. QED BY <1>1 DEF Wait

LEMMA LivesOn ==
    ASSUME IInv, Current, HoldsLess, \A p \in Procs : GoesOn(p)
    PROVE  Current'
  <1>. SUFFICES ASSUME NEW d \in Devices, NEW w \in Holds(d)'
                PROVE  (state[w[1]] = "EXIT" \/ (Waits(w[1]) /\ w[2] = calls[w[1]]))'
    BY DEF Current
  <1>1. w \in Holds(d)
    BY DEF HoldsLess
  <1>2. w[1] \in Procs
    BY <1>1, HoldsWaits
  <1>. QED BY <1>1, <1>2 DEF Current, GoesOn, Waits

\* A step that moves one process.
LEMMA OneMoves ==
    ASSUME IInv, Current, HoldsLess, NEW p \in Procs, GoesOn(p),
           \A r \in Procs : r # p => state'[r] = state[r] /\ calls'[r] = calls[r]
    PROVE  Current'
  <1>1. ASSUME NEW r \in Procs PROVE GoesOn(r)
    BY DEF GoesOn, IInv, TypeOK
  <1>. QED BY <1>1, LivesOn

LEMMA FinishesCurrent ==
    ASSUME IInv, OInv, Current, HoldsLess, NEW d \in Devices, Finishes(d)
    PROVE  /\ Current'
           /\ \A p \in Procs : Waits(p) /\ state'[p] \in {"EXEC", "SUSP_READY"} =>
                 device[d] = "busy" /\ device'[d] = "idle" /\ job[d] = <<p, calls[p]>>
  <1>1. /\ device[d] = "busy" /\ device' = [device EXCEPT ![d] = "idle"]
        /\ UNCHANGED <<calls, handler>>
    BY DEF Finishes
  <1>2. device'[d] = "idle"
    BY <1>1 DEF IInv, TypeOK
  <1>3. CASE UNCHANGED state
    <2>1. \A p \in Procs : GoesOn(p)
      BY <1>1, <1>3 DEF GoesOn, IInv, TypeOK
    <2>. QED BY <1>3, <2>1, LivesOn DEF Waits
  <1>4. CASE ~UNCHANGED state
    <2>1. PICK i \in DOMAIN MTSQueue :
            /\ IsFirst(i, MTSQueue, LAMBDA e : IsOf(e, Name[d], job[d][1]))
            /\ Wakes(MTSQueue[i].proc)
      BY <1>4 DEF Finishes
    <2>2. IsOf(MTSQueue[i], Name[d], job[d][1])
      BY <2>1 DEF IsFirst
    <2>. DEFINE p == MTSQueue[i].proc
    <2>3. p = job[d][1] /\ p \in Procs /\ Waits(p) /\ Wakes(p)
      BY <2>1, <2>2, EntryWaits DEF IsOf
    <2>. HIDE DEF p
    <2>4. job[d] \in Holds(d)
      BY <1>1 DEF Holds, Working
    <2>5. job[d] = <<p, calls[p]>>
      BY <2>3, <2>4, HoldsWaits DEF Current, Waits
    <2>6. \A r \in Procs : r # p => state'[r] = state[r]
      BY <2>3 DEF Wakes, IInv, TypeOK
    <2>7. ASSUME NEW c \in Devices, NEW w \in Holds(c)' PROVE w[1] # p
      <3>1. w \in Holds(c)
        BY DEF HoldsLess
      <3>2. w = <<w[1], w[2]>>
        BY <3>1, HoldsWaits
      <3>3. w[1] = p => w = job[d]
        BY <2>3, <2>5, <3>1, <3>2 DEF Current, Waits
      <3>4. w = job[d] => c = d
        BY <2>4, <3>1 DEF OInv, Apart
      <3>5. c = d => w # job[d]
        BY <1>1, <1>2, <2>4 DEF Holds, Working, OInv, Once
      <3>. QED BY <3>3, <3>4, <3>5
    <2>8. Current'
      <3>. SUFFICES ASSUME NEW c \in Devices, NEW w \in Holds(c)'
                    PROVE  (state[w[1]] = "EXIT" \/ (Waits(w[1]) /\ w[2] = calls[w[1]]))'
        BY DEF Current
      <3>1. w \in Holds(c) /\ w[1] # p
        BY <2>7 DEF HoldsLess
      <3>2. w[1] \in Procs
        BY <3>1, HoldsWaits
      <3>. QED BY <1>1, <2>6, <3>1, <3>2 DEF Current, Waits
    <2>. QED BY <1>1, <1>2, <2>5, <2>6, <2>8 DEF Waits
  <1>. QED BY <1>3, <1>4

\* The step hands the wait w, that its process is in, to d.
LEMMA HandedIsCurrent ==
    ASSUME IInv, Current, NEW d \in Devices, NEW p \in Procs, NEW w, w[1] = p,
           state'[p] \in {"BLOCKED", "SUSP_BLOCKED"} /\ w[2] = calls'[p],
           state[p] \in {"EXEC", "BLOCKED", "SUSP_BLOCKED"},
           UNCHANGED <<state, calls>> \/ state[p] = "EXEC",
           \A r \in Procs : r # p => state'[r] = state[r] /\ calls'[r] = calls[r],
           \A c \in Devices : Holds(c)' \subseteq Holds(c) \union {w}
    PROVE  Current'
  <1>. SUFFICES ASSUME NEW c \in Devices, NEW v \in Holds(c)'
                PROVE  (state[v[1]] = "EXIT" \/ (Waits(v[1]) /\ v[2] = calls[v[1]]))'
    BY DEF Current
  <1>1. CASE v = w
    BY <1>1 DEF Waits
  <1>2. CASE v \in Holds(c)
    <2>1. v[1] \in Procs
      BY <1>2, HoldsWaits
    <2>2. state[v[1]] = "EXIT" \/ (Waits(v[1]) /\ v[2] = calls[v[1]])
      BY <1>2 DEF Current
    <2>. QED BY <2>1, <2>2 DEF Waits
  <1>. QED BY <1>1, <1>2

\* The loop over SUSP_READY ends who is there.
LEMMA ReapsOne ==
    ASSUME IInv, Reaping, NEW d \in Devices, ReapsSuspended(d)
    PROVE  \/ UNCHANGED procs
           \/ \E i \in DOMAIN SuspReadyQueue :
                 state' = [state EXCEPT ![SuspReadyQueue[i]] = "EXIT"] /\ UNCHANGED calls
  <1>. DEFINE at == IF reaper[d].step = "range" THEN 1 ELSE reaper[d].at
  <1>1. \/ UNCHANGED procs
        \/ /\ ~(at > Len(SuspReadyQueue))
           /\ state' = [state EXCEPT ![SuspReadyQueue[at]] = "EXIT"] /\ UNCHANGED calls
    BY DEF ReapsSuspended, procs
  <1>2. at \in Nat /\ at # 0
    BY ReaperType DEF Reapers, Reaping, ReapsSuspended
  <1>3. DOMAIN SuspReadyQueue = 1 .. Len(SuspReadyQueue) /\ Len(SuspReadyQueue) \in Nat
    BY DEF IInv, TypeOK
  <1>. HIDE DEF at
  <1>4. ~(at > Len(SuspReadyQueue)) => at \in DOMAIN SuspReadyQueue
    BY <1>2, <1>3
  <1>. QED BY <1>1, <1>4

LEMMA CurrentStep ==
    ASSUME NoRaces, IInv, Reaping, OInv, Current, [Next]_vars
    PROVE  /\ Current'
           /\ \A p \in Procs : Waits(p) /\ state'[p] \in {"EXEC", "SUSP_READY"} =>
                 \E d \in Devices : /\ device[d] = "busy" /\ device'[d] = "idle"
                                    /\ job[d] = <<p, calls[p]>>
  <1>. DEFINE Ended == \A p \in Procs : Waits(p) /\ state'[p] \in {"EXEC", "SUSP_READY"} =>
                 \E d \in Devices : /\ device[d] = "busy" /\ device'[d] = "idle"
                                    /\ job[d] = <<p, calls[p]>>
  <1>1. ASSUME UNCHANGED <<state, calls>>, HoldsLess PROVE Current' /\ Ended
    <2>1. \A p \in Procs : GoesOn(p)
      BY <1>1 DEF GoesOn, IInv, TypeOK
    <2>. QED BY <1>1, <2>1, LivesOn DEF Waits
  <1>2. ASSUME HoldsLess, NEW p \in Procs, GoesOn(p),
               Waits(p) => state'[p] \notin {"EXEC", "SUSP_READY"},
               \A r \in Procs : r # p => state'[r] = state[r] /\ calls'[r] = calls[r]
        PROVE  Current' /\ Ended
    <2>1. Ended
      BY <1>2 DEF Waits
    <2>. QED BY <1>2, <2>1, OneMoves
  <1>. HIDE DEF Ended
  <1>3. ASSUME NEW p \in Procs, NEW n \in Names, SyscallMissingDevice(p, n) PROVE Current' /\ Ended
    <2>1. HoldsLess
      BY <1>3 DEF HoldsLess, Holds, Working, SyscallMissingDevice, kernel, io
    <2>. QED BY <1>2, <1>3, <2>1 DEF SyscallMissingDevice, IInv, TypeOK, GoesOn, Waits
  <1>4. ASSUME NEW p \in Procs, NEW n \in Names, SyscallQueues(p, n) PROVE Current' /\ Ended
    <2>1. HoldsLess
      BY <1>4 DEF HoldsLess, Holds, Working, SyscallQueues, kernel, io
    <2>. QED BY <1>2, <1>4, <2>1 DEF SyscallQueues, Blocks, IInv, TypeOK, GoesOn, Waits
  <1>5. ASSUME NEW p \in Procs, NEW n \in Names, SyscallTakes(p, n) PROVE Current' /\ Ended
    <2>1. PICK i \in DOMAIN AvailableIOs :
            /\ Blocks(p, n, TRUE)
            /\ handler' = [handler EXCEPT ![AvailableIOs[i]] = Append(@, <<p, calls[p] + 1>>)]
            /\ UNCHANGED io
      BY <1>5 DEF SyscallTakes, NoRaces
    <2>. DEFINE d == AvailableIOs[i]
    <2>0. PICK w : w = <<p, calls[p] + 1>>
      OBVIOUS
    <2>2. d \in Devices
      BY DEF IInv, TypeOK
    <2>3. w \in Wait /\ w[1] = p /\ w[2] = calls[p] + 1
      <3>1. calls[p] < MaxCalls
        BY <2>1 DEF Blocks
      <3>2. calls[p] \in 0 .. MaxCalls /\ MaxCalls \in Nat
        BY DispatchAssumption DEF IInv, TypeOK
      <3>3. calls[p] + 1 \in 1 .. MaxCalls
        BY <3>1, <3>2
      <3>. QED BY <2>0, <3>3 DEF Wait
    <2>. HIDE DEF d
    <2>4. /\ state[p] = "EXEC" /\ state'[p] = "BLOCKED" /\ calls'[p] = calls[p] + 1
          /\ \A r \in Procs : r # p => state'[r] = state[r] /\ calls'[r] = calls[r]
      BY <2>1 DEF Blocks, IInv, TypeOK
    <2>5. /\ handler'[d] = Append(handler[d], w) /\ handler[d] \in Seq(Wait)
          /\ \A c \in Devices : c # d => handler'[c] = handler[c]
      BY <2>0, <2>1, <2>2 DEF IInv, TypeOK, d
    <2>6. Elements(Append(handler[d], w)) \subseteq Elements(handler[d]) \union {w}
      BY <2>3, <2>5 DEF Elements
    <2>7. \A c \in Devices : Holds(c)' \subseteq Holds(c) \union {w}
      BY <2>1, <2>5, <2>6 DEF Holds, Working, io
    <2>9. Current'
      BY <2>2, <2>3, <2>4, <2>7, HandedIsCurrent
    <2>. QED BY <2>4, <2>9 DEF Ended, Waits
  <1>6. ASSUME NEW d \in Devices, TakesQueued(d) PROVE Current' /\ Ended
    <2>1. PICK i \in DOMAIN MTSQueue :
            job' = [job EXCEPT ![d] = <<MTSQueue[i].proc, MTSQueue[i].wait>>]
      BY <1>6 DEF TakesQueued
    <2>0. PICK p, w : p = MTSQueue[i].proc /\ w = <<p, MTSQueue[i].wait>>
      OBVIOUS
    <2>2. /\ w[1] = p /\ p \in Procs /\ Waits(p) /\ w[2] = calls[p]
      BY <2>0, EntryWaits DEF OInv, Counted
    <2>3. UNCHANGED <<state, calls, handler>> /\ device' = [device EXCEPT ![d] = "answered"]
      BY <1>6 DEF TakesQueued, procs
    <2>4. \A c \in Devices : /\ job'[c] = IF c = d THEN w ELSE job[c]
                             /\ c # d => device'[c] = device[c]
      BY <2>0, <2>1, <2>3 DEF IInv, TypeOK
    <2>5. \A c \in Devices : Holds(c)' \subseteq Holds(c) \union {w}
      BY <2>3, <2>4 DEF Holds, Working
    <2>7. Current'
      BY <2>2, <2>3, <2>5, HandedIsCurrent DEF Waits
    <2>. QED BY <2>3, <2>7 DEF Ended, Waits
  <1>7. HoldsLess \/ (\E p \in Procs, n \in Names : SyscallTakes(p, n))
          \/ \E d \in Devices : TakesQueued(d)
    BY ApartStep
  <1>8. ASSUME NEW p \in Procs, Suspends(p) PROVE Current' /\ Ended
    <2>1. HoldsLess
      BY <1>8 DEF HoldsLess, Holds, Working, Suspends, kernel, io
    <2>. QED BY <1>2, <1>8, <2>1 DEF Suspends, IInv, TypeOK, GoesOn, Waits
  <1>9. ASSUME Returns PROVE Current' /\ Ended
    <2>1. HoldsLess
      BY <1>9 DEF HoldsLess, Holds, Working, Returns, kernel, io
    <2>2. Head(SuspReadyQueue) \in Procs /\ state[Head(SuspReadyQueue)] = "SUSP_READY"
      <3>1. SuspReadyQueue # <<>> /\ SuspReadyQueue \in Seq(Procs)
        BY <1>9 DEF Returns, IInv, TypeOK
      <3>2. 1 \in DOMAIN SuspReadyQueue /\ Head(SuspReadyQueue) = SuspReadyQueue[1]
        BY <3>1
      <3>. QED BY <3>2, SuspReadyIs
    <2>. QED BY <1>2, <1>9, <2>1, <2>2 DEF Returns, IInv, TypeOK, GoesOn, Waits
  <1>10. ASSUME NEW i \in DOMAIN MTSQueue, Ends(i), HoldsLess PROVE Current' /\ Ended
    <2>1. MTSQueue[i].proc \in Procs /\ Waits(MTSQueue[i].proc)
      BY EntryWaits
    <2>. QED BY <1>2, <1>10, <2>1 DEF Ends, IInv, TypeOK, GoesOn, Waits
  <1>11. ASSUME NEW d \in Devices, ReapsWaiter(d) \/ Disconnects(d), HoldsLess
         PROVE  Current' /\ Ended
    <2>1. (\E i \in DOMAIN MTSQueue : Ends(i)) \/ UNCHANGED <<state, calls>>
      BY <1>11 DEF ReapsWaiter, Disconnects, procs
    <2>. QED BY <1>1, <1>10, <1>11, <2>1
  <1>12. ASSUME NEW d \in Devices, ReapsSuspended(d), HoldsLess PROVE Current' /\ Ended
    <2>1. \/ UNCHANGED <<state, calls>>
          \/ \E i \in DOMAIN SuspReadyQueue :
                state' = [state EXCEPT ![SuspReadyQueue[i]] = "EXIT"] /\ UNCHANGED calls
      BY <1>12, ReapsOne DEF procs
    <2>2. ASSUME NEW i \in DOMAIN SuspReadyQueue,
                 state' = [state EXCEPT ![SuspReadyQueue[i]] = "EXIT"], UNCHANGED calls
          PROVE  Current' /\ Ended
      BY <1>2, <1>12, <2>2, SuspReadyIs DEF IInv, TypeOK, GoesOn, Waits
    <2>. QED BY <1>1, <1>12, <2>1, <2>2
  <1>13. ASSUME NEW d \in Devices, Finishes(d), HoldsLess PROVE Current' /\ Ended
    BY <1>13, FinishesCurrent DEF Ended
  <1>14. UNCHANGED <<state, calls>>
          \/ (\E p \in Procs, n \in Names : SyscallMissingDevice(p, n) \/ SyscallTakes(p, n)
                                             \/ SyscallQueues(p, n))
          \/ (\E p \in Procs : Suspends(p)) \/ Returns
          \/ (\E d \in Devices : \/ TakesQueued(d) \/ Finishes(d) \/ Disconnects(d)
                                 \/ ReapsWaiter(d) \/ ReapsSuspended(d))
    BY DEF Next, Syscall, RecieveIO, Loss, Marks, Starts, Polls, Receives, Begins, Stops,
       RequestIsLost, Removed, NeverConnected, vars, procs
  <1>. QED BY <1>1, <1>3, <1>4, <1>5, <1>6, <1>7, <1>8, <1>9, <1>11, <1>12, <1>13, <1>14
          DEF Ended

LEMMA CurrentInit == Init => Current
  <1>1. DOMAIN <<>> = {}
    OBVIOUS
  <1>. QED BY <1>1 DEF Init, Current, Holds, Working, Elements

\* handleIOFinished knows a wait by its PID only, and still ends the one that was served,
\* never a later one of the same process, as long as nothing sees an entry between the
\* append and its mark.
THEOREM FinishedWaitsAreServed == ASSUME NoRaces PROVE Spec => EndsItsOwnWait
  <1>1. IInv /\ Reaping /\ OInv /\ Current /\ [Next]_vars =>
           OInv' /\ Current' /\ [\A p \in Procs :
              Waits(p) /\ state'[p] \in {"EXEC", "SUSP_READY"} =>
                 \E d \in Devices : /\ device[d] = "busy" /\ device'[d] = "idle"
                                    /\ job[d] = <<p, calls[p]>>]_vars
    BY ApartStep, CurrentStep
  <1>. QED BY <1>1, ApartInit, CurrentInit, InitInv, NextInv, PTL DEF Spec, EndsItsOwnWait
=============================================================================
