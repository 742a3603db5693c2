---------------------------- MODULE KernelProofs ----------------------------
(***************************************************************************)
(* Proofs about Kernel, for every number of processes, CPUs, devices and    *)
(* bounds.  IInv is the inductive invariant:                                *)
(*   Places    the queues partition the processes that nobody has in hand,  *)
(*             by their states;                                             *)
(*   Hands     what a goroutine holds has the state it was taken in;        *)
(*   Boards    the CPUs' table is injective, and a process on a CPU runs or *)
(*             is about to leave it;                                        *)
(*   Ends      memoria is asked to delete, and the kernel shuts down, only  *)
(*             what is in EXIT;                                             *)
(*   Entries   an entry of MTSQueue was made by a system call.              *)
(* The operators on one queue come first, then one lemma per action.  RInv, *)
(* which says where each process is in memory for every state it can have,  *)
(* is inductive relative to IInv when no process calls DUMP_MEMORY.         *)
(***************************************************************************)
EXTENDS Kernel, TLAPS, FiniteSetTheorems

Distinct(q) == \A i, j \in DOMAIN q : q[i] = q[j] => i = j
Queues(q) == q \in [States -> Seq(Procs)] /\ \A s \in States : Distinct(q[s])
Removed(q, s, p) == [q EXCEPT ![s] = Without(@, p)]

\* The queues agree with the states, but for the processes that a goroutine holds.
Places ==
    /\ Queues(queue)
    /\ \A s \in States : Elements(queue[s]) = {p \in Procs : state[p] = s /\ ~InHand(p)}

\* What the goroutines hold between two steps.
Hands ==
    /\ mtsProc # None => state[mtsProc] = "SUSP_READY"
    /\ ltsProc # None => state[ltsProc] = "NEW"
    /\ suspender # Idle => suspender.proc \in Procs /\ suspender.step # "idle"
    /\ suspender.step = "taken" => state[suspender.proc] = "BLOCKED"
    /\ stsHand # NoHand => state[stsHand[1]] = "EXEC" /\ cpu[stsHand[2]] = stsHand[1]

\* A process that ends through a missing device keeps its CPU.
Boards ==
    /\ \A c, d \in CPUs : cpu[c] = cpu[d] /\ cpu[c] # None => c = d
    /\ \A c \in CPUs : cpu[c] # None =>
          /\ c \in Elements(AvailableCPUs)
          /\ state[cpu[c]] \in {"EXEC", "EXIT"}
          /\ ~MissingDevices =>
                state[cpu[c]] = "EXEC" \/ deleting[cpu[c]] = "exit" \/ last = cpu[c]
    /\ \A p \in Procs : state[p] = "EXEC" => \E c \in CPUs : cpu[c] = p

\* What is over: nothing is deleted before EXIT, and the last to enter it ends the kernel.
Ends ==
    /\ IsFiniteSet(Created)
    /\ \A p \in Procs : deleting[p] # "no" => state[p] = "EXIT"
    /\ last # None => \A p \in Created : state[p] = "EXIT"
    /\ halted => last # None

\* An entry outlives neither a system call nor, for a dump, the wait.
Entries == \A p \in Procs :
    /\ MTSQueue[p] # "none" => calls[p] # 0
    /\ p \in dumping => MTSQueue[p] = "dump" /\ state[p] \in {"BLOCKED", "SUSP_BLOCKED"}

IInv == TypeOK /\ Places /\ Hands /\ Boards /\ Ends /\ Entries

-----------------------------------------------------------------------------
(* The operators on one queue *)

LEMMA SequenceType ==
    ASSUME NEW S, NEW q \in Seq(S)
    PROVE  /\ Len(q) \in Nat /\ DOMAIN q = 1 .. Len(q)
           /\ \A i \in 1 .. Len(q) : q[i] \in S
           /\ Elements(q) \subseteq S
  BY DEF Elements

LEMMA WithoutKeeps ==
    ASSUME NEW S, NEW q \in Seq(S), Distinct(q), NEW p \in Elements(q)
    PROVE  /\ Without(q, p) \in Seq(S) /\ Distinct(Without(q, p))
           /\ Elements(Without(q, p)) = Elements(q) \ {p}
  <1>. DEFINE n == Len(q)
              w == Without(q, p)
  <1>1. /\ n \in Nat /\ DOMAIN q = 1 .. n /\ \A i \in 1 .. n : q[i] \in S
    BY SequenceType
  <1>2. PICK m \in 1 .. n : q[m] = p
    BY <1>1 DEF Elements
  <1>3. \A k \in 1 .. n : (\E j \in 1 .. k : q[j] = p) <=> m <= k
    BY <1>1, <1>2 DEF Distinct
  <1>4. w = [k \in 1 .. n - 1 |-> IF m <= k THEN q[k + 1] ELSE q[k]]
    BY <1>1, <1>3 DEF Without
  <1>. HIDE DEF w, n
  <1>5. w \in [1 .. n - 1 -> S]
    BY <1>1, <1>4
  <1>6. w \in Seq(S) /\ DOMAIN w = 1 .. n - 1
    BY <1>1, <1>2, <1>5
  <1> DEFINE up(k) == IF m <= k THEN k + 1 ELSE k
  <1>7. \A k \in 1 .. n - 1 : w[k] = q[up(k)] /\ up(k) \in 1 .. n /\ up(k) # m
    BY <1>1, <1>2, <1>4
  <1>8. \A j, k \in 1 .. n - 1 : up(j) = up(k) => j = k
    BY <1>1, <1>2
  <1>9. \A l \in 1 .. n : l # m => \E k \in 1 .. n - 1 : l = up(k)
    <2>. SUFFICES ASSUME NEW l \in 1 .. n, l # m
                  PROVE  \E k \in 1 .. n - 1 : l = up(k)
      OBVIOUS
    <2>1. CASE l < m
      <3>1. l \in 1 .. n - 1 /\ l = up(l)
        BY <1>1, <1>2, <2>1
      <3>. QED BY <3>1
    <2>2. CASE m < l
      <3>1. l - 1 \in 1 .. n - 1 /\ l = up(l - 1)
        BY <1>1, <1>2, <2>2
      <3>. QED BY <3>1
    <2>. QED BY <1>1, <1>2, <2>1, <2>2
  <1>. HIDE DEF up
  <1>10. Distinct(w)
    BY <1>1, <1>6, <1>7, <1>8 DEF Distinct
  <1>11. Elements(w) \subseteq Elements(q) /\ p \notin Elements(w)
    <2>1. \A k \in 1 .. n - 1 : w[k] \in Elements(q) /\ w[k] # p
      BY <1>1, <1>2, <1>7 DEF Elements, Distinct
    <2>. QED BY <1>6, <2>1 DEF Elements
  <1>12. ASSUME NEW r \in Elements(q), r # p
         PROVE  r \in Elements(w)
    <2>1. PICK l \in 1 .. n : q[l] = r
      BY <1>1 DEF Elements
    <2>2. PICK k \in 1 .. n - 1 : l = up(k)
      BY <1>2, <1>9, <1>12, <2>1
    <2>3. w[k] = r
      BY <2>1, <2>2, <1>7
    <2>. QED BY <1>6, <2>3 DEF Elements
  <1>13. Elements(w) = Elements(q) \ {p}
    BY <1>11, <1>12
  <1>. QED BY <1>6, <1>10, <1>13 DEF w

LEMMA AppendKeeps ==
    ASSUME NEW S, NEW q \in Seq(S), Distinct(q), NEW p \in S, p \notin Elements(q)
    PROVE  /\ Append(q, p) \in Seq(S) /\ Distinct(Append(q, p))
           /\ Elements(Append(q, p)) = Elements(q) \union {p}
  <1>. DEFINE n == Len(q)
              a == Append(q, p)
  <1>1. n \in Nat /\ DOMAIN q = 1 .. n
    BY SequenceType
  <1>2. /\ a \in Seq(S) /\ DOMAIN a = 1 .. n + 1
        /\ \A k \in 1 .. n : a[k] = q[k]
        /\ a[n + 1] = p
    BY <1>1
  <1>. HIDE DEF a, n
  <1>3. \A k \in 1 .. n : a[k] # p
    BY <1>1, <1>2 DEF Elements
  <1>4. \A k \in 1 .. n + 1 : k \in 1 .. n \/ k = n + 1
    BY <1>1
  <1>5. Distinct(a)
    BY <1>1, <1>2, <1>3, <1>4 DEF Distinct
  <1>6. \A k \in 1 .. n : k \in 1 .. n + 1
    BY <1>1
  <1>7. n + 1 \in 1 .. n + 1
    BY <1>1
  <1>8. Elements(a) = Elements(q) \union {p}
    BY <1>1, <1>2, <1>4, <1>6, <1>7 DEF Elements
  <1>. QED BY <1>2, <1>5, <1>8 DEF a

LEMMA TailKeeps ==
    ASSUME NEW S, NEW q \in Seq(S), Distinct(q), q # <<>>
    PROVE  /\ Tail(q) \in Seq(S) /\ Distinct(Tail(q))
           /\ Elements(Tail(q)) = Elements(q) \ {Head(q)}
           /\ Head(q) \in Elements(q)
  <1>. DEFINE n == Len(q)
              t == Tail(q)
  <1>1. n \in Nat /\ DOMAIN q = 1 .. n /\ n # 0 /\ Head(q) = q[1]
    BY SequenceType
  <1>2. /\ t \in Seq(S) /\ DOMAIN t = 1 .. n - 1
        /\ \A k \in 1 .. n - 1 : t[k] = q[k + 1]
    BY <1>1
  <1>. HIDE DEF t, n
  <1> DEFINE up(k) == k + 1
  <1>3. \A k \in 1 .. n - 1 : t[k] = q[up(k)] /\ up(k) \in 1 .. n /\ up(k) # 1
    BY <1>1, <1>2
  <1>4. \A j, k \in 1 .. n - 1 : up(j) = up(k) => j = k
    BY <1>1
  <1>5. \A l \in 1 .. n : l # 1 => \E k \in 1 .. n - 1 : l = up(k)
    <2>. SUFFICES ASSUME NEW l \in 1 .. n, l # 1
                  PROVE  \E k \in 1 .. n - 1 : l = up(k)
      OBVIOUS
    <2>1. l - 1 \in 1 .. n - 1 /\ l = up(l - 1)
      BY <1>1
    <2>. QED BY <2>1
  <1>6. 1 \in 1 .. n
    BY <1>1
  <1>. HIDE DEF up
  <1>7. Distinct(t)
    BY <1>1, <1>2, <1>3, <1>4 DEF Distinct
  <1>8. Elements(t) \subseteq Elements(q) /\ q[1] \notin Elements(t) /\ q[1] \in Elements(q)
    <2>1. \A k \in 1 .. n - 1 : t[k] \in Elements(q) /\ t[k] # q[1]
      BY <1>1, <1>3, <1>6 DEF Elements, Distinct
    <2>. QED BY <1>1, <1>2, <1>6, <2>1 DEF Elements
  <1>9. ASSUME NEW r \in Elements(q), r # q[1]
         PROVE  r \in Elements(t)
    <2>1. PICK l \in 1 .. n : q[l] = r
      BY <1>1 DEF Elements
    <2>2. PICK k \in 1 .. n - 1 : l = up(k)
      BY <1>5, <1>9, <2>1
    <2>3. t[k] = r
      BY <2>1, <2>2, <1>3
    <2>. QED BY <1>2, <2>3 DEF Elements
  <1>10. Elements(t) = Elements(q) \ {q[1]}
    BY <1>8, <1>9
  <1>. QED BY <1>1, <1>2, <1>7, <1>8, <1>10 DEF t

\* A sequence without repetition has as many elements as it is long.
LEMMA DistinctLength ==
    ASSUME NEW S, NEW q \in Seq(S), Distinct(q)
    PROVE  IsFiniteSet(Elements(q)) /\ Cardinality(Elements(q)) = Len(q)
  <1>1. Len(q) \in Nat /\ DOMAIN q = 1 .. Len(q) /\ q \in [1 .. Len(q) -> Elements(q)]
    BY DEF Elements
  <1>2. q \in Bijection(1 .. Len(q), Elements(q))
    BY <1>1 DEF Bijection, Injection, Surjection, IsInjective, Elements, Distinct
  <1>3. ExistsBijection(1 .. Len(q), Elements(q))
    BY <1>2 DEF ExistsBijection
  <1>4. IsFiniteSet(1 .. Len(q)) /\ Cardinality(1 .. Len(q)) = Len(q)
    BY <1>1, FS_Interval
  <1>. QED BY <1>3, <1>4, FS_Bijection

-----------------------------------------------------------------------------
(* Queues and places *)

LEMMA EnqueuedKeeps ==
    ASSUME NEW q, Queues(q), NEW s \in States, NEW p \in Procs, p \notin Elements(q[s])
    PROVE  /\ Queues(Enqueued(q, s, p))
           /\ \A t \in States : Elements(Enqueued(q, s, p)[t]) =
                 IF t = s THEN Elements(q[t]) \union {p} ELSE Elements(q[t])
  <1>1. q \in [States -> Seq(Procs)] /\ q[s] \in Seq(Procs) /\ Distinct(q[s])
    BY DEF Queues
  <1>2. /\ Append(q[s], p) \in Seq(Procs) /\ Distinct(Append(q[s], p))
        /\ Elements(Append(q[s], p)) = Elements(q[s]) \union {p}
    BY <1>1, AppendKeeps
  <1>. QED BY <1>1, <1>2, Zenon DEF Queues, Enqueued

LEMMA RemovedKeeps ==
    ASSUME NEW q, Queues(q), NEW s \in States, NEW p \in Elements(q[s])
    PROVE  /\ Queues(Removed(q, s, p))
           /\ \A t \in States : Elements(Removed(q, s, p)[t]) =
                 IF t = s THEN Elements(q[t]) \ {p} ELSE Elements(q[t])
  <1>1. q \in [States -> Seq(Procs)] /\ q[s] \in Seq(Procs) /\ Distinct(q[s])
    BY DEF Queues
  <1>2. /\ Without(q[s], p) \in Seq(Procs) /\ Distinct(Without(q[s], p))
        /\ Elements(Without(q[s], p)) = Elements(q[s]) \ {p}
    BY <1>1, WithoutKeeps
  <1>. QED BY <1>1, <1>2, Zenon DEF Queues, Removed

LEMMA PoppedKeeps ==
    ASSUME NEW q, Queues(q), NEW s \in States, q[s] # <<>>
    PROVE  /\ Queues([q EXCEPT ![s] = Tail(@)])
           /\ Head(q[s]) \in Elements(q[s])
           /\ \A t \in States : Elements([q EXCEPT ![s] = Tail(@)][t]) =
                 IF t = s THEN Elements(q[t]) \ {Head(q[s])} ELSE Elements(q[t])
  <1>1. q \in [States -> Seq(Procs)] /\ q[s] \in Seq(Procs) /\ Distinct(q[s])
    BY DEF Queues
  <1>2. /\ Tail(q[s]) \in Seq(Procs) /\ Distinct(Tail(q[s]))
        /\ Elements(Tail(q[s])) = Elements(q[s]) \ {Head(q[s])}
        /\ Head(q[s]) \in Elements(q[s])
    BY <1>1, TailKeeps
  <1>. QED BY <1>1, <1>2, Zenon DEF Queues

LEMMA ElementsAreProcs ==
    ASSUME NEW q, Queues(q), NEW s \in States
    PROVE  Elements(q[s]) \subseteq Procs
  BY SequenceType DEF Queues

LEMMA CandidatesWait ==
    ASSUME NEW s \in States, Queues(queue), NEW p \in Candidates(s)
    PROVE  p \in Elements(queue[s])
  BY PoppedKeeps DEF Candidates

\* Process by process.
LEMMA PlacesPointwise ==
    ASSUME Queues(queue'),
           \A t \in States, r \in Procs : r \in Elements(queue'[t]) <=> state'[r] = t /\ ~InHand(r)'
    PROVE  Places'
  <1>1. \A t \in States : Elements(queue'[t]) \subseteq Procs
    BY ElementsAreProcs
  <1>. QED BY <1>1 DEF Places

\* What Enqueue does, as one relation.
Gains(new, old, s, p) ==
    /\ Queues(new)
    /\ \A t \in States : Elements(new[t]) =
          IF t = s THEN Elements(old[t]) \union {p} ELSE Elements(old[t])

LEMMA EnqueuedGains ==
    ASSUME NEW q, Queues(q), NEW s \in States, NEW p \in Procs, p \notin Elements(q[s])
    PROVE  Gains(Enqueued(q, s, p), q, s, p)
  BY EnqueuedKeeps DEF Gains

\* A step that neither moves a process nor takes one in hand.
LEMMA PlacesStay ==
    ASSUME Places, UNCHANGED <<queue, state>>, \A p \in Procs : InHand(p)' <=> InHand(p)
    PROVE  Places'
  BY DEF Places

\* RemoveByPID in one queue and Enqueue in another.
LEMMA PlacesMove ==
    ASSUME Places, TypeOK, NEW p \in Procs, NEW from \in States, NEW to \in States,
           from # to, state[p] = from, ~InHand(p),
           queue' = Moved(queue, from, to, p), state' = [state EXCEPT ![p] = to],
           \A r \in Procs : InHand(r)' <=> InHand(r)
    PROVE  Places'
  <1> DEFINE q == Removed(queue, from, p)
  <1>1. Queues(queue) /\ p \in Elements(queue[from]) /\ p \notin Elements(queue[to])
    BY DEF Places
  <1>2. Queues(q) /\ \A t \in States : Elements(q[t]) =
            IF t = from THEN Elements(queue[t]) \ {p} ELSE Elements(queue[t])
    BY <1>1, RemovedKeeps
  <1>. HIDE DEF q
  <1>3. queue' = Enqueued(q, to, p) /\ p \notin Elements(q[to])
    BY <1>1, <1>2 DEF Moved, Removed, q
  <1>4. Queues(queue') /\ \A t \in States : Elements(queue'[t]) =
            IF t = to THEN Elements(q[t]) \union {p} ELSE Elements(q[t])
    <2>1. Queues(q) /\ p \notin Elements(q[to])
      BY <1>2, <1>3
    <2>2. Gains(Enqueued(q, to, p), q, to, p)
      BY <2>1, EnqueuedGains
    <2>. QED BY <1>3, <2>2 DEF Gains
  <1>5. ASSUME NEW t \in States
        PROVE  Elements(queue'[t]) = {r \in Procs : state'[r] = t /\ ~InHand(r)'}
    <2>1. Elements(queue'[t]) =
            IF t = to THEN Elements(queue[t]) \union {p}
            ELSE IF t = from THEN Elements(queue[t]) \ {p} ELSE Elements(queue[t])
      BY <1>2, <1>4
    <2>2. Elements(queue[t]) = {r \in Procs : state[r] = t /\ ~InHand(r)}
      BY DEF Places
    <2>3. \A r \in Procs : state'[r] = IF r = p THEN to ELSE state[r]
      BY DEF TypeOK
    <2>. QED BY <2>1, <2>2, <2>3
  <1>. QED BY <1>4, <1>5 DEF Places

\* A step of a thread that changes what it waits for, and not what it holds.
LEMMA ThreadsOnly ==
    ASSUME IInv, TypeOK', Hands', UNCHANGED <<procs, waits, exits, cpus, mtsProc>>
    PROVE  IInv'
  <1>1. Places'
    BY PlacesStay DEF IInv, InHand, procs, waits
  <1>2. Boards' /\ Ends' /\ Entries'
    BY DEF IInv, Boards, Ends, Entries, Created, procs, waits, exits, cpus
  <1>. QED BY <1>1, <1>2 DEF IInv

-----------------------------------------------------------------------------
(* The steps, one by one *)

LEMMA StartLTSInv ==
    ASSUME IInv, StartLTS
    PROVE  IInv'
  <1>1. TypeOK'
    BY DEF IInv, TypeOK, StartLTS, Running, procs, waits, exits, memoria, cpus, STSvars,
       MTSvars
  <1>2. Hands'
    BY DEF IInv, Hands, StartLTS, Running, procs, waits, exits, memoria, cpus, STSvars,
       MTSvars
  <1>. QED BY <1>1, <1>2, ThreadsOnly DEF StartLTS, STSvars, MTSvars

LEMMA LTSYieldsInv ==
    ASSUME IInv, LTSYields
    PROVE  IInv'
  <1>1. TypeOK'
    BY DEF IInv, TypeOK, LTSYields, Running, UnlockMTS, procs, waits, exits, memoria,
       cpus, STSvars
  <1>2. Hands'
    BY DEF IInv, Hands, LTSYields, Running, UnlockMTS, procs, waits, exits, memoria,
       cpus, STSvars
  <1>. QED BY <1>1, <1>2, ThreadsOnly DEF LTSYields, STSvars

LEMMA LTSFindsNothingInv ==
    ASSUME IInv, LTSFindsNothing
    PROVE  IInv'
  <1>1. TypeOK'
    BY DEF IInv, TypeOK, LTSFindsNothing, Running, LTSSearching, SignalSTSEmpty, procs,
       waits, exits, memoria, cpus, MTSvars
  <1>2. Hands'
    BY DEF IInv, Hands, LTSFindsNothing, Running, LTSSearching, SignalSTSEmpty, procs,
       waits, exits, memoria, cpus, MTSvars
  <1>. QED BY <1>1, <1>2, ThreadsOnly DEF LTSFindsNothing, MTSvars

LEMMA LTSIsRefusedInv ==
    ASSUME IInv, LTSIsRefused
    PROVE  IInv'
  <1>1. TypeOK'
    BY DEF IInv, TypeOK, LTSIsRefused, Running, procs, waits, exits, memoria, cpus,
       STSvars, MTSvars
  <1>2. Hands'
    BY DEF IInv, Hands, LTSIsRefused, Running, procs, waits, exits, memoria, cpus,
       STSvars, MTSvars
  <1>. QED BY <1>1, <1>2, ThreadsOnly DEF LTSIsRefused, STSvars, MTSvars

LEMMA STSStartsInv ==
    ASSUME IInv, STSStarts
    PROVE  IInv'
  <1>1. TypeOK'
    BY DEF IInv, TypeOK, STSStarts, Running, procs, waits, exits, memoria, cpus,
       LTSvars, MTSvars
  <1>2. Hands'
    BY DEF IInv, Hands, STSStarts, Running, procs, waits, exits, memoria, cpus, LTSvars,
       MTSvars
  <1>. QED BY <1>1, <1>2, ThreadsOnly DEF STSStarts, LTSvars, MTSvars

LEMMA STSFindsNoProcessInv ==
    ASSUME IInv, STSFindsNoProcess
    PROVE  IInv'
  <1>1. TypeOK'
    BY DEF IInv, TypeOK, STSFindsNoProcess, Running, procs, waits, exits, memoria, cpus,
       LTSvars, MTSvars
  <1>2. Hands'
    BY DEF IInv, Hands, STSFindsNoProcess, Running, procs, waits, exits, memoria, cpus,
       LTSvars, MTSvars
  <1>. QED BY <1>1, <1>2, ThreadsOnly DEF STSFindsNoProcess, LTSvars, MTSvars

LEMMA STSFindsNoCPUInv ==
    ASSUME IInv, STSFindsNoCPU
    PROVE  IInv'
  <1>1. TypeOK'
    BY DEF IInv, TypeOK, STSFindsNoCPU, Running, procs, waits, exits, memoria, cpus,
       LTSvars, MTSvars
  <1>2. Hands'
    BY DEF IInv, Hands, STSFindsNoCPU, Running, procs, waits, exits, memoria, cpus,
       LTSvars, MTSvars
  <1>. QED BY <1>1, <1>2, ThreadsOnly DEF STSFindsNoCPU, LTSvars, MTSvars

LEMMA STSDispatchesInv ==
    ASSUME IInv, STSDispatches
    PROVE  IInv'
  <1>1. TypeOK'
    BY DEF IInv, TypeOK, STSDispatches, Running, NoHand, procs, waits, exits, memoria,
       cpus, LTSvars, MTSvars
  <1>2. Hands'
    BY DEF IInv, Hands, STSDispatches, Running, NoHand, procs, waits, exits, memoria,
       cpus, LTSvars, MTSvars
  <1>. QED BY <1>1, <1>2, ThreadsOnly DEF STSDispatches, LTSvars, MTSvars

LEMMA LTSSleepsInv ==
    ASSUME IInv, LTSSleeps
    PROVE  IInv'
  <1>1. TypeOK'
    BY DEF IInv, TypeOK, LTSSleeps, procs, waits, exits, memoria, cpus, STSvars, MTSvars
  <1>2. Hands'
    BY DEF IInv, Hands, LTSSleeps, procs, waits, exits, memoria, cpus, STSvars, MTSvars
  <1>. QED BY <1>1, <1>2, ThreadsOnly DEF LTSSleeps, STSvars, MTSvars

LEMMA STSSleepsInv ==
    ASSUME IInv, STSSleeps
    PROVE  IInv'
  <1>1. TypeOK'
    BY DEF IInv, TypeOK, STSSleeps, procs, waits, exits, memoria, cpus, LTSvars, MTSvars
  <1>2. Hands'
    BY DEF IInv, Hands, STSSleeps, procs, waits, exits, memoria, cpus, LTSvars, MTSvars
  <1>. QED BY <1>1, <1>2, ThreadsOnly DEF STSSleeps, LTSvars, MTSvars

LEMMA MTSSleepsInv ==
    ASSUME IInv, MTSSleeps
    PROVE  IInv'
  <1>1. TypeOK'
    BY DEF IInv, TypeOK, MTSSleeps, procs, waits, exits, memoria, cpus, LTSvars, STSvars
  <1>2. Hands'
    BY DEF IInv, Hands, MTSSleeps, procs, waits, exits, memoria, cpus, LTSvars, STSvars
  <1>. QED BY <1>1, <1>2, ThreadsOnly DEF MTSSleeps, LTSvars, STSvars

LEMMA MTSFindsNothingInv ==
    ASSUME IInv, MTSFindsNothing
    PROVE  IInv'
  <1>1. TypeOK'
    BY DEF IInv, TypeOK, MTSFindsNothing, Running, SignalLTS, procs, waits, exits,
       memoria, cpus, STSvars
  <1>2. Hands'
    BY DEF IInv, Hands, MTSFindsNothing, Running, SignalLTS, procs, waits, exits,
       memoria, cpus, STSvars
  <1>. QED BY <1>1, <1>2, ThreadsOnly DEF MTSFindsNothing, STSvars

LEMMA LTSFindsInv ==
    ASSUME IInv, LTSFinds
    PROVE  IInv'
  <1>1. ltsProc' \in Elements(queue["NEW"])
    BY CandidatesWait DEF LTSFinds, IInv, Places, States
  <1>2. ltsProc' \in Procs /\ state[ltsProc'] = "NEW"
    BY <1>1 DEF IInv, Places, States
  <1>3. TypeOK'
    <2>1. lts' = "init" /\ ltsProc' # None
      BY <1>2, KernelAssumption DEF LTSFinds
    <2>2. UNCHANGED <<procs, waits, exits, memoria, cpus, STSvars, MTSvars>>
      BY DEF LTSFinds
    <2>. QED BY <1>2, <2>1, <2>2 DEF IInv, TypeOK, procs, waits, exits, memoria, cpus,
            STSvars, MTSvars
  <1>4. Hands'
    BY <1>2 DEF IInv, Hands, LTSFinds, procs, waits, cpus, STSvars, MTSvars
  <1>. QED BY <1>3, <1>4, ThreadsOnly DEF LTSFinds, MTSvars

LEMMA MTSStartsTimersInv ==
    ASSUME IInv, MTSStartsTimers
    PROVE  IInv'
  <1>1. Places'
    BY PlacesStay DEF IInv, MTSStartsTimers, InHand, procs
  <1>2. \A p \in Procs : WantsTimer(p) => calls[p] \in 1 .. MaxCalls
    BY KernelAssumption DEF IInv, TypeOK, Entries, WantsTimer
  <1>3. timers' \subseteq Procs \X (1 .. MaxCalls)
    BY <1>2 DEF IInv, TypeOK, MTSStartsTimers
  <1>4. TypeOK'
    BY <1>3 DEF IInv, TypeOK, MTSStartsTimers, WantsTimer, procs, exits, memoria, cpus,
       LTSvars, STSvars
  <1>5. Hands' /\ Boards' /\ Ends' /\ Entries'
    BY DEF IInv, Hands, Boards, Ends, Entries, Created, MTSStartsTimers, procs, exits, cpus,
       LTSvars, STSvars
  <1>. QED BY <1>1, <1>4, <1>5 DEF IInv

LEMMA SuspenderRequestsInv ==
    ASSUME IInv, SuspenderRequests
    PROVE  IInv'
  <1>1. suspender.step = "asking" /\ suspender.proc \in Procs
    BY DEF IInv, Hands, SuspenderRequests, Idle
  <1>2. Places'
    BY <1>1, PlacesStay DEF IInv, SuspenderRequests, InHand, Idle, procs
  <1>3. TypeOK'
    <2>1. suspender' \in [proc : Procs \union {None}, wait : 0 .. MaxCalls,
                          step : {"idle", "taken", "asking"}]
      BY KernelAssumption DEF SuspenderRequests, Idle
    <2>2. memory' \in [Procs -> {"none", "RAM", "SWAP", "gone"}] /\ free' \in Int
      <3>1. free \in Int /\ Size[suspender.proc] \in Int
        BY <1>1, KernelAssumption DEF IInv, TypeOK
      <3>2. CASE memory[suspender.proc] = "RAM"
        <4>1. /\ memory' = [memory EXCEPT ![suspender.proc] = "SWAP"]
              /\ free' = free + Size[suspender.proc]
          BY <3>2 DEF SuspenderRequests, Given
        <4>. QED BY <1>1, <3>1, <4>1 DEF IInv, TypeOK
      <3>3. CASE memory[suspender.proc] # "RAM"
        BY <3>3 DEF IInv, TypeOK, SuspenderRequests, memoria
      <3>. QED BY <3>2, <3>3
    <2>. QED BY <2>1, <2>2 DEF IInv, TypeOK, SuspenderRequests, UnlockMTS, procs, exits,
            memoria, cpus, LTSvars, STSvars
  <1>4. Hands' /\ Boards' /\ Ends' /\ Entries'
    BY DEF IInv, Hands, Boards, Ends, Entries, Created, SuspenderRequests, Idle, procs,
       exits, cpus, LTSvars, STSvars
  <1>. QED BY <1>2, <1>3, <1>4 DEF IInv

LEMMA ReceiveCPUInv ==
    ASSUME IInv, NEW c \in CPUs, ReceiveCPU(c)
    PROVE  IInv'
  <1>1. Places'
    BY PlacesStay DEF IInv, ReceiveCPU, InHand, procs, waits, MTSvars
  <1>2. AvailableCPUs \in Seq(CPUs) /\ AvailableCPUs' = Append(AvailableCPUs, c)
    BY DEF IInv, TypeOK, ReceiveCPU
  <1>3. Elements(AvailableCPUs) \subseteq Elements(AvailableCPUs')
    BY <1>2 DEF Elements
  <1>4. AvailableCPUs' \in Seq(CPUs)
    BY <1>2
  <1>5. TypeOK'
    BY <1>4 DEF IInv, TypeOK, ReceiveCPU, SignalCpuAvailable, procs, waits, exits, memoria,
       LTSvars, MTSvars
  <1>6. Hands' /\ Ends' /\ Entries'
    BY DEF IInv, Hands, Ends, Entries, Created, ReceiveCPU, procs, waits, exits, LTSvars, MTSvars
  <1>7. Boards'
    BY <1>3 DEF IInv, Boards, ReceiveCPU, procs, exits
  <1>. QED BY <1>1, <1>5, <1>6, <1>7 DEF IInv

LEMMA TerminateProcessInv ==
    ASSUME IInv, NEW p \in Procs, TerminateProcess(p)
    PROVE  IInv'
  <1>1. state[p] = "EXIT"
    BY DEF IInv, Ends, TerminateProcess
  <1>2. Places'
    BY PlacesStay DEF IInv, TerminateProcess, InHand, procs, waits
  <1>3. TypeOK'
    <2>1. /\ deleting' \in [Procs -> {"no", "exit", "result", "missing", "dump"}]
          /\ memory' \in [Procs -> {"none", "RAM", "SWAP", "gone"}]
          /\ free' \in Int /\ halted' \in BOOLEAN
      BY KernelAssumption DEF IInv, TypeOK, TerminateProcess, Given
    <2>2. cpu' \in [CPUs -> Procs \union {None}]
      BY DEF IInv, TypeOK, TerminateProcess, FreeCPU
    <2>3. mts' = IF mts = "wait" THEN "top" ELSE mts
      BY DEF TerminateProcess, UnlockMTS
    <2>4. sts' = sts \/ (sts \in {"cpu", "first"} /\ sts' = "top")
      <3>1. SignalCpuAvailable \/ UNCHANGED sts
        BY DEF TerminateProcess
      <3>. QED BY <3>1 DEF SignalCpuAvailable
    <2>5. UNCHANGED <<procs, waits, last, AvailableCPUs, LTSvars, stsHand, mtsProc>>
      BY DEF TerminateProcess
    <2>. QED BY <2>1, <2>2, <2>3, <2>4, <2>5 DEF IInv, TypeOK, procs, waits, LTSvars
  <1>4. Hands'
    BY <1>1, KernelAssumption DEF IInv, Hands, TypeOK, TerminateProcess, FreeCPU, NoHand,
       procs, waits, LTSvars
  <1>5. Boards'
    BY <1>1, KernelAssumption DEF IInv, Boards, TypeOK, TerminateProcess, FreeCPU, procs, Ends
  <1>6. Ends'
    BY KernelAssumption DEF IInv, Ends, TypeOK, TerminateProcess, Created, procs
  <1>7. Entries'
    BY DEF IInv, Entries, TerminateProcess, procs, waits
  <1>. QED BY <1>2, <1>3, <1>4, <1>5, <1>6, <1>7 DEF IInv

LEMMA DumpForgottenInv ==
    ASSUME IInv, NEW p \in Procs, DumpForgotten(p)
    PROVE  IInv'
  <1>1. Places'
    BY PlacesStay DEF IInv, DumpForgotten, InHand, procs, MTSvars
  <1>2. TypeOK'
    BY DEF IInv, TypeOK, DumpForgotten, procs, exits, memoria, cpus, LTSvars, STSvars, MTSvars
  <1>3. Hands' /\ Boards' /\ Ends' /\ Entries'
    BY DEF IInv, Hands, Boards, Ends, Entries, Created, DumpForgotten, procs, exits, cpus,
       LTSvars, STSvars, MTSvars
  <1>. QED BY <1>1, <1>2, <1>3 DEF IInv

\* What is known of a process that runs: no goroutine of the kernel holds it.
LEMMA RunningIsFree ==
    ASSUME IInv, NEW c \in CPUs, NEW p \in Procs, Executes(c, p)
    PROVE  /\ state[p] = "EXEC" /\ cpu[c] = p /\ p # None
           /\ ~InHand(p) /\ ltsProc # p /\ mtsProc # p /\ stsHand[1] # p
           /\ suspender.step = "taken" => suspender.proc # p
           /\ p \notin dumping /\ deleting[p] = "no" /\ last = None
  <1>1. state[p] = "EXEC" /\ cpu[c] = p /\ p # None
    BY DEF Executes
  <1>2. mtsProc # p /\ ltsProc # p /\ (suspender.step = "taken" => suspender.proc # p)
    BY <1>1 DEF IInv, Hands
  <1>3. stsHand[1] # p
    <2>1. CASE stsHand = NoHand
      BY <1>1, <2>1 DEF NoHand
    <2>2. CASE stsHand # NoHand
      <3>1. stsHand \in Procs \X CPUs /\ cpu[stsHand[2]] = stsHand[1]
        BY <2>2 DEF IInv, TypeOK, Hands
      <3>2. stsHand[1] = p => stsHand = <<p, c>>
        BY <1>1, <3>1 DEF IInv, Boards
      <3>. QED BY <3>2 DEF Executes
    <2>. QED BY <2>1, <2>2
  <1>4. p \notin dumping /\ deleting[p] = "no" /\ last = None
    BY <1>1 DEF IInv, Entries, Ends, Created
  <1>. QED BY <1>1, <1>2, <1>3, <1>4 DEF InHand

\* A blocking system call, of either kind.
LEMMA BlocksInv ==
    ASSUME IInv, NEW c \in CPUs, NEW p \in Procs, Executes(c, p), NEW kind \in {"io", "dump"},
           Blocks(p, kind), dumping' = dumping \/ (kind = "dump" /\ dumping' = dumping \union {p}),
           mts' \in {mts, IF mts = "wait" THEN "top" ELSE mts},
           UNCHANGED <<timers, suspender, exits, memoria, AvailableCPUs, LTSvars, stsHand, mtsProc>>
    PROVE  IInv'
  <1>1. /\ state[p] = "EXEC" /\ cpu[c] = p /\ p # None
        /\ ~InHand(p) /\ ltsProc # p /\ mtsProc # p /\ stsHand[1] # p
        /\ suspender.step = "taken" => suspender.proc # p
        /\ p \notin dumping /\ deleting[p] = "no" /\ last = None
    BY RunningIsFree
  <1>2. /\ state' = [state EXCEPT ![p] = "BLOCKED"]
        /\ queue' = Moved(queue, "EXEC", "BLOCKED", p)
    BY DEF Blocks, Move
  <1>3. Places'
    BY <1>1, <1>2, PlacesMove DEF IInv, InHand, States
  <1>4. TypeOK'
    <2>1. queue' \in [States -> Seq(Procs)]
      BY <1>3 DEF Places, Queues
    <2>2. state' \in [Procs -> States \union {"ABSENT"}]
      BY <1>2 DEF IInv, TypeOK, States
    <2>3. /\ cpu' \in [CPUs -> Procs \union {None}] /\ calls' \in [Procs -> 0 .. MaxCalls]
          /\ MTSQueue' \in [Procs -> {"none", "io", "dump"}]
          /\ TimerRunning' \in [Procs -> BOOLEAN] /\ dumping' \subseteq Procs
      BY KernelAssumption DEF IInv, TypeOK, Blocks, FreeCPU
    <2>. QED BY <2>1, <2>2, <2>3 DEF IInv, TypeOK, Blocks, SignalCpuAvailable, exits,
            memoria, LTSvars
  <1>5. Hands'
    BY <1>1, <1>2, KernelAssumption DEF IInv, Hands, TypeOK, Blocks, FreeCPU, NoHand, LTSvars
  <1>6. Boards'
    BY <1>1, <1>2 DEF IInv, Boards, TypeOK, Blocks, FreeCPU, exits
  <1>7. Created' = Created
    BY <1>1, <1>2 DEF Created, IInv, TypeOK
  <1>8. Ends'
    BY <1>1, <1>2, <1>7 DEF IInv, Ends, TypeOK, exits
  <1>9. Entries'
    BY <1>1, <1>2, KernelAssumption DEF IInv, Entries, TypeOK, Blocks
  <1>. QED BY <1>3, <1>4, <1>5, <1>6, <1>8, <1>9 DEF IInv

LEMMA SyscallIOInv ==
    ASSUME IInv, NEW c \in CPUs, SyscallIO(c)
    PROVE  IInv'
  <1>1. PICK p \in Procs :
            /\ Executes(c, p) /\ Blocks(p, "io") /\ UnlockMTS
            /\ UNCHANGED <<timers, suspender, dumping, exits, memoria, AvailableCPUs, LTSvars,
                           stsHand, mtsProc>>
    BY DEF SyscallIO
  <1>2. mts' \in {mts, IF mts = "wait" THEN "top" ELSE mts}
    BY <1>1 DEF UnlockMTS
  <1>. QED BY <1>1, <1>2, BlocksInv

LEMMA SyscallDumpInv ==
    ASSUME IInv, NEW c \in CPUs, SyscallDump(c)
    PROVE  IInv'
  <1>1. PICK p \in Procs :
            /\ Executes(c, p) /\ Blocks(p, "dump") /\ dumping' = dumping \union {p}
            /\ UNCHANGED <<timers, suspender, exits, memoria, AvailableCPUs, LTSvars,
                           stsHand, MTSvars>>
    BY DEF SyscallDump
  <1>. QED BY <1>1, BlocksInv DEF MTSvars

\* The last process to enter EXIT finds all the others there.
LEMMA ExitsEnds ==
    ASSUME IInv, Places', NEW p \in Procs, state[p] \notin {"ABSENT", "EXIT"},
           NEW q, NEW who \in {"exit", "result", "missing", "dump"}, Exits(p, q, who),
           UNCHANGED <<halted, mtsProc, suspender>>
    PROVE  Ends'
  <1>1. /\ queue' = q /\ state' = [state EXCEPT ![p] = "EXIT"]
        /\ deleting' = [deleting EXCEPT ![p] = who]
        /\ last' = IF Completes(q) THEN p ELSE last
    BY DEF Exits
  <1>2. Created' = Created /\ p \in Created
    BY <1>1 DEF Created, IInv, TypeOK
  <1>3. last = None /\ ~halted
    BY <1>2 DEF IInv, Ends
  <1>4. ASSUME Completes(q)
        PROVE  \A r \in Created : state'[r] = "EXIT"
    <2>1. /\ q["EXIT"] \in Seq(Procs) /\ Distinct(q["EXIT"])
          /\ Elements(q["EXIT"]) = {r \in Procs : state'[r] = "EXIT" /\ ~InHand(r)'}
      BY <1>1 DEF Places, Queues, States
    <2>2. Elements(q["EXIT"]) \subseteq Created
      BY <1>1, <1>2, <2>1 DEF Created
    <2>3. Cardinality(Elements(q["EXIT"])) = Cardinality(Created)
      BY <1>4, <2>1, DistinctLength DEF Completes
    <2>4. Elements(q["EXIT"]) = Created
      BY <2>2, <2>3, FS_Subset DEF IInv, Ends
    <2>. QED BY <2>1, <2>4
  <1>. QED BY <1>1, <1>2, <1>3, <1>4 DEF IInv, Ends, TypeOK

\* The process that runs ends: by EXIT, in either way, or through a missing device.
LEMMA RunningEndsInv ==
    ASSUME IInv, NEW c \in CPUs, NEW p \in Procs, Executes(c, p),
           NEW who \in {"exit", "result", "missing"},
           Exits(p, Moved(queue, "EXEC", "EXIT", p), who),
           \/ UNCHANGED <<cpu, sts>> /\ (who = "missing" => MissingDevices) /\ who # "result"
           \/ FreeCPU(p) /\ SignalCpuAvailable,
           UNCHANGED <<calls, waits, halted, memoria, AvailableCPUs, LTSvars, stsHand, MTSvars>>
    PROVE  IInv'
  <1>1. /\ state[p] = "EXEC" /\ cpu[c] = p /\ p # None
        /\ ~InHand(p) /\ ltsProc # p /\ mtsProc # p /\ stsHand[1] # p
        /\ suspender.step = "taken" => suspender.proc # p
        /\ p \notin dumping /\ deleting[p] = "no" /\ last = None
    BY RunningIsFree
  <1>2. /\ state' = [state EXCEPT ![p] = "EXIT"]
        /\ queue' = Moved(queue, "EXEC", "EXIT", p)
        /\ deleting' = [deleting EXCEPT ![p] = who]
        /\ last' \in {p, last}
    BY DEF Exits
  <1>3. Places'
    BY <1>1, <1>2, PlacesMove DEF IInv, InHand, States, waits, MTSvars
  <1>4. TypeOK'
    <2>1. queue' \in [States -> Seq(Procs)]
      BY <1>3 DEF Places, Queues
    <2>2. state' \in [Procs -> States \union {"ABSENT"}]
      BY <1>2 DEF IInv, TypeOK, States
    <2>3. /\ cpu' \in [CPUs -> Procs \union {None}]
          /\ deleting' \in [Procs -> {"no", "exit", "result", "missing", "dump"}]
      BY <1>2 DEF IInv, TypeOK, FreeCPU
    <2>. QED BY <1>2, <2>1, <2>2, <2>3 DEF IInv, TypeOK, SignalCpuAvailable, waits,
            memoria, LTSvars, MTSvars
  <1>5. Hands'
    BY <1>1, <1>2, KernelAssumption DEF IInv, Hands, TypeOK, FreeCPU, NoHand, waits, LTSvars,
       MTSvars
  <1>6. Boards'
    BY <1>1, <1>2 DEF IInv, Boards, TypeOK, FreeCPU
  <1>7. Ends'
    BY <1>1, <1>3, ExitsEnds DEF waits, MTSvars
  <1>8. Entries'
    BY <1>1, <1>2 DEF IInv, Entries, TypeOK, waits
  <1>. QED BY <1>3, <1>4, <1>5, <1>6, <1>7, <1>8 DEF IInv

LEMMA SyscallMissingDeviceInv ==
    ASSUME IInv, NEW c \in CPUs, SyscallMissingDevice(c)
    PROVE  IInv'
  <1>1. PICK p \in Procs :
            /\ MissingDevices /\ Executes(c, p)
            /\ Exits(p, Moved(queue, "EXEC", "EXIT", p), "missing")
            /\ UNCHANGED <<calls, waits, halted, memoria, cpus, LTSvars, STSvars, MTSvars>>
    BY DEF SyscallMissingDevice
  <1>. QED BY <1>1, RunningEndsInv DEF cpus, STSvars

LEMMA SyscallExitInv ==
    ASSUME IInv, NEW c \in CPUs, SyscallExit(c)
    PROVE  IInv'
  <1>1. PICK p \in Procs :
            /\ Executes(c, p) /\ Exits(p, Moved(queue, "EXEC", "EXIT", p), "exit")
            /\ UNCHANGED <<calls, waits, halted, memoria, cpus, LTSvars, STSvars, MTSvars>>
    BY DEF SyscallExit
  <1>. QED BY <1>1, RunningEndsInv DEF cpus, STSvars

LEMMA ResultExitInv ==
    ASSUME IInv, NEW c \in CPUs, ResultExit(c)
    PROVE  IInv'
  <1>1. PICK p \in Procs :
            /\ Executes(c, p) /\ FreeCPU(p) /\ SignalCpuAvailable
            /\ Exits(p, Moved(queue, "EXEC", "EXIT", p), "result")
            /\ UNCHANGED <<calls, waits, halted, memoria, AvailableCPUs, LTSvars, stsHand, MTSvars>>
    BY DEF ResultExit
  <1>. QED BY <1>1, RunningEndsInv

LEMMA LTSInitializesInv ==
    ASSUME IInv, LTSInitializes
    PROVE  IInv'
  <1>1. /\ ltsProc \in Procs /\ state[ltsProc] = "NEW" /\ ltsProc # None
        /\ queue' = Moved(queue, "NEW", "READY", ltsProc)
        /\ state' = [state EXCEPT ![ltsProc] = "READY"]
    BY DEF IInv, TypeOK, Hands, LTSInitializes, Move
  <1>2. ~InHand(ltsProc) /\ stsHand[1] # ltsProc
    BY <1>1 DEF IInv, Hands, InHand, NoHand
  <1>3. Places'
    BY <1>1, <1>2, PlacesMove DEF IInv, LTSInitializes, InHand, States, waits, MTSvars
  <1>4. TypeOK'
    <2>1. queue' \in [States -> Seq(Procs)]
      BY <1>3 DEF Places, Queues
    <2>2. state' \in [Procs -> States \union {"ABSENT"}]
      BY <1>1 DEF IInv, TypeOK, States
    <2>3. memory' \in [Procs -> {"none", "RAM", "SWAP", "gone"}] /\ free' \in Int
      BY <1>1, KernelAssumption DEF IInv, TypeOK, LTSInitializes
    <2>. QED BY <2>1, <2>2, <2>3 DEF IInv, TypeOK, LTSInitializes, SignalSTSEmpty, waits,
            exits, cpus, MTSvars
  <1>5. Hands'
    BY <1>1, <1>2, KernelAssumption DEF IInv, Hands, TypeOK, LTSInitializes, NoHand, waits,
       cpus, MTSvars
  <1>6. Boards'
    BY <1>1 DEF IInv, Boards, TypeOK, LTSInitializes, exits, cpus
  <1>7. Created' = Created /\ ltsProc \in Created
    BY <1>1 DEF Created, IInv, TypeOK
  <1>8. Ends' /\ Entries'
    BY <1>1, <1>7 DEF IInv, Ends, Entries, TypeOK, LTSInitializes, waits, exits
  <1>. QED BY <1>3, <1>4, <1>5, <1>6, <1>8 DEF IInv

LEMMA STSTakesInv ==
    ASSUME IInv, STSTakes
    PROVE  IInv'
  <1> DEFINE p == stsHand'[1]
             c == stsHand'[2]
             q == [queue EXCEPT !["READY"] = Tail(@)]
  <1>1. /\ queue["READY"] # <<>> /\ p = Head(queue["READY"])
        /\ stsHand' = <<p, c>>
        /\ \E i \in DOMAIN AvailableCPUs : c = AvailableCPUs[i] /\ cpu[c] = None
        /\ queue' = Enqueued(q, "EXEC", p)
        /\ state' = [state EXCEPT ![p] = "EXEC"]
        /\ cpu' = [cpu EXCEPT ![c] = p]
    BY DEF STSTakes, FreeCPUs
  <1>2. /\ Queues(queue) /\ Queues(q) /\ p \in Elements(queue["READY"])
        /\ \A t \in States : Elements(q[t]) =
              IF t = "READY" THEN Elements(queue[t]) \ {p} ELSE Elements(queue[t])
    <2>1. Queues(queue) /\ "READY" \in States
      BY DEF IInv, Places, States
    <2>2. /\ Queues(q) /\ Head(queue["READY"]) \in Elements(queue["READY"])
          /\ \A t \in States : Elements(q[t]) =
                IF t = "READY" THEN Elements(queue[t]) \ {Head(queue["READY"])}
                ELSE Elements(queue[t])
      BY <1>1, <2>1, PoppedKeeps, Zenon
    <2>. HIDE DEF p, q
    <2>. QED BY <1>1, <2>1, <2>2
  <1>. HIDE DEF p, c, q
  <1>3. p \in Procs /\ state[p] = "READY" /\ ~InHand(p) /\ p # None
    BY <1>2, KernelAssumption DEF IInv, Places, States
  <1>4. c \in CPUs /\ c \in Elements(AvailableCPUs) /\ cpu[c] = None
    <2>1. AvailableCPUs \in Seq(CPUs)
      BY DEF IInv, TypeOK
    <2>. QED BY <1>1, <2>1 DEF Elements
  <1>5. /\ Queues(queue')
        /\ \A t \in States : Elements(queue'[t]) =
              IF t = "EXEC" THEN Elements(q[t]) \union {p} ELSE Elements(q[t])
    <2>1. "EXEC" \in States /\ p \notin Elements(q["EXEC"])
      BY <1>2, <1>3 DEF IInv, Places, States
    <2>2. /\ Queues(Enqueued(q, "EXEC", p))
          /\ \A t \in States : Elements(Enqueued(q, "EXEC", p)[t]) =
                IF t = "EXEC" THEN Elements(q[t]) \union {p} ELSE Elements(q[t])
      <3>1. Queues(q) /\ p \in Procs
        BY <1>2, <1>3
      <3>. QED BY <2>1, <3>1, EnqueuedKeeps
    <2>. QED BY <1>1, <2>2
  <1>6. Places'
    <2>. SUFFICES ASSUME NEW t \in States
                  PROVE  Elements(queue'[t]) = {r \in Procs : state'[r] = t /\ ~InHand(r)'}
      BY <1>5 DEF Places
    <2>1. Elements(queue[t]) = {r \in Procs : state[r] = t /\ ~InHand(r)}
      BY DEF IInv, Places
    <2>2. \A r \in Procs : state'[r] = IF r = p THEN "EXEC" ELSE state[r]
      BY <1>1 DEF IInv, TypeOK
    <2>3. \A r \in Procs : InHand(r)' <=> InHand(r)
      BY DEF InHand, STSTakes, waits, MTSvars
    <2>4. Elements(queue'[t]) =
            IF t = "EXEC" THEN Elements(queue[t]) \union {p}
            ELSE IF t = "READY" THEN Elements(queue[t]) \ {p} ELSE Elements(queue[t])
      BY <1>2, <1>5
    <2>. QED BY <1>3, <2>1, <2>2, <2>3, <2>4
  <1>7. TypeOK'
    <2>1. queue' \in [States -> Seq(Procs)]
      BY <1>5 DEF Queues
    <2>2. /\ state' \in [Procs -> States \union {"ABSENT"}]
          /\ cpu' \in [CPUs -> Procs \union {None}]
          /\ stsHand' \in Procs \X CPUs /\ stsHand' # NoHand
      BY <1>1, <1>3, <1>4 DEF IInv, TypeOK, States, NoHand
    <2>3. sts' = "send" /\ UNCHANGED <<calls, waits, exits, memoria, AvailableCPUs, LTSvars, MTSvars>>
      BY DEF STSTakes
    <2>. QED BY <2>1, <2>2, <2>3 DEF IInv, TypeOK, waits, exits, memoria, LTSvars, MTSvars
  <1>8. Hands'
    BY <1>1, <1>3, <1>4 DEF IInv, Hands, TypeOK, STSTakes, NoHand, waits, LTSvars, MTSvars
  <1>9. Boards'
    <2>1. \A d \in CPUs : cpu'[d] = IF d = c THEN p ELSE cpu[d]
      BY <1>1 DEF IInv, TypeOK
    <2>2. \A d \in CPUs : cpu[d] # p
      BY <1>3 DEF IInv, Boards
    <2>3. \A r \in Procs : state'[r] = IF r = p THEN "EXEC" ELSE state[r]
      BY <1>1 DEF IInv, TypeOK
    <2>4. UNCHANGED <<AvailableCPUs, deleting, last>>
      BY DEF STSTakes, exits
    <2>5. \A d \in CPUs : cpu[d] # None => cpu[d] \in Procs
      BY DEF IInv, TypeOK
    <2>6. \A d, e \in CPUs : cpu'[d] = cpu'[e] /\ cpu'[d] # None => d = e
      BY <1>4, <2>1, <2>2 DEF IInv, Boards
    <2>7. \A d \in CPUs : cpu'[d] # None =>
            /\ d \in Elements(AvailableCPUs) /\ state'[cpu'[d]] \in {"EXEC", "EXIT"}
            /\ ~MissingDevices =>
                  state'[cpu'[d]] = "EXEC" \/ deleting[cpu'[d]] = "exit" \/ last = cpu'[d]
      BY <1>3, <1>4, <2>1, <2>2, <2>3, <2>5 DEF IInv, Boards
    <2>8. ASSUME NEW r \in Procs, state'[r] = "EXEC"
          PROVE  \E d \in CPUs : cpu'[d] = r
      <3>1. CASE r = p
        BY <1>4, <2>1, <3>1
      <3>2. CASE r # p
        <4>1. PICK d \in CPUs : cpu[d] = r
          BY <2>3, <2>8, <3>2 DEF IInv, Boards
        <4>2. r # None
          BY KernelAssumption
        <4>. QED BY <1>4, <2>1, <4>1, <4>2
      <3>. QED BY <3>1, <3>2
    <2>. QED BY <2>4, <2>6, <2>7, <2>8 DEF Boards
  <1>10. Created' = Created /\ p \in Created
    BY <1>1, <1>3 DEF Created, IInv, TypeOK
  <1>11. Ends' /\ Entries'
    BY <1>1, <1>3, <1>10 DEF IInv, Ends, Entries, TypeOK, STSTakes, waits, exits
  <1>. QED BY <1>6, <1>7, <1>8, <1>9, <1>11 DEF IInv

LEMMA STSDispatchFailsInv ==
    ASSUME IInv, STSDispatchFails
    PROVE  IInv'
  <1> DEFINE p == stsHand[1]
             c == stsHand[2]
  <1>1. /\ stsHand # NoHand /\ p \in Procs /\ c \in CPUs
        /\ state[p] = "EXEC" /\ cpu[c] = p /\ p # None
        /\ queue' = Moved(queue, "EXEC", "READY", p)
        /\ state' = [state EXCEPT ![p] = "READY"]
        /\ cpu' = [cpu EXCEPT ![c] = None]
    BY KernelAssumption DEF IInv, TypeOK, Hands, STSDispatchFails, Move
  <1>. HIDE DEF p, c
  <1>2. ~InHand(p) /\ ltsProc # p
    BY <1>1 DEF IInv, Hands, InHand
  <1>3. Places'
    BY <1>1, <1>2, PlacesMove DEF IInv, STSDispatchFails, InHand, States, waits, MTSvars
  <1>4. TypeOK'
    <2>1. queue' \in [States -> Seq(Procs)]
      BY <1>3 DEF Places, Queues
    <2>2. /\ state' \in [Procs -> States \union {"ABSENT"}]
          /\ cpu' \in [CPUs -> Procs \union {None}]
      BY <1>1 DEF IInv, TypeOK, States
    <2>. QED BY <2>1, <2>2 DEF IInv, TypeOK, STSDispatchFails, waits, exits, memoria,
            LTSvars, MTSvars
  <1>5. Hands'
    BY <1>1, <1>2 DEF IInv, Hands, TypeOK, STSDispatchFails, InHand, NoHand, waits, LTSvars,
       MTSvars
  <1>6. Boards'
    BY <1>1 DEF IInv, Boards, TypeOK, STSDispatchFails, exits
  <1>7. Created' = Created /\ p \in Created
    BY <1>1 DEF Created, IInv, TypeOK
  <1>8. Ends' /\ Entries'
    BY <1>1, <1>7 DEF IInv, Ends, Entries, TypeOK, STSDispatchFails, waits, exits
  <1>. QED BY <1>3, <1>4, <1>5, <1>6, <1>8 DEF IInv

LEMMA MTSTakesInv ==
    ASSUME IInv, MTSTakes
    PROVE  IInv'
  <1> DEFINE p == mtsProc'
  <1>1. /\ mtsProc = None /\ p \in Elements(queue["SUSP_READY"])
        /\ queue' = Removed(queue, "SUSP_READY", p)
    BY CandidatesWait DEF IInv, TypeOK, Places, States, MTSTakes, Removed
  <1>2. p \in Procs /\ state[p] = "SUSP_READY" /\ ~InHand(p) /\ p # None
    BY <1>1, KernelAssumption DEF IInv, Places, States
  <1>3. /\ Queues(queue')
        /\ \A t \in States : Elements(queue'[t]) =
              IF t = "SUSP_READY" THEN Elements(queue[t]) \ {p} ELSE Elements(queue[t])
    BY <1>1, RemovedKeeps DEF IInv, Places, States
  <1>4. Places'
    <2>1. \A r \in Procs : InHand(r)' <=> (InHand(r) \/ r = p)
      BY <1>1, KernelAssumption DEF InHand, MTSTakes, waits
    <2>2. UNCHANGED state
      BY DEF MTSTakes
    <2>3. ASSUME NEW t \in States
          PROVE  Elements(queue'[t]) = {r \in Procs : state'[r] = t /\ ~InHand(r)'}
      <3>1. Elements(queue[t]) = {r \in Procs : state[r] = t /\ ~InHand(r)}
        BY DEF IInv, Places
      <3>2. CASE t = "SUSP_READY"
        BY <1>3, <2>1, <2>2, <3>1, <3>2
      <3>3. CASE t # "SUSP_READY"
        BY <1>2, <1>3, <2>1, <2>2, <3>1, <3>3
      <3>. QED BY <3>2, <3>3
    <2>. QED BY <1>3, <2>3 DEF Places
  <1>5. TypeOK'
    <2>1. queue' \in [States -> Seq(Procs)]
      BY <1>3 DEF Queues
    <2>. QED BY <1>2, <2>1 DEF IInv, TypeOK, MTSTakes, waits, exits, memoria, cpus, LTSvars,
            STSvars
  <1>6. Hands' /\ Boards' /\ Ends' /\ Entries'
    BY <1>2 DEF IInv, Hands, Boards, Ends, Entries, Created, MTSTakes, waits, exits, cpus,
       LTSvars, STSvars
  <1>. QED BY <1>4, <1>5, <1>6 DEF IInv

\* MTS puts the process that it holds in a queue.
LEMMA PlacesPut ==
    ASSUME IInv, mtsProc # None, NEW to \in {"READY", "SUSP_READY"},
           queue' = Enqueued(queue, to, mtsProc), state' = [state EXCEPT ![mtsProc] = to],
           mtsProc' = None, UNCHANGED suspender
    PROVE  Places'
  <1>1. mtsProc \in Procs /\ state[mtsProc] = "SUSP_READY" /\ to \in States
    BY DEF IInv, TypeOK, Hands, States
  <1>2. mtsProc \notin Elements(queue[to])
    BY <1>1 DEF IInv, Places, InHand
  <1>3. /\ Queues(queue')
        /\ \A t \in States : Elements(queue'[t]) =
              IF t = to THEN Elements(queue[t]) \union {mtsProc} ELSE Elements(queue[t])
    BY <1>1, <1>2, EnqueuedKeeps DEF IInv, Places
  <1>4. \A r \in Procs : /\ InHand(r)' <=> (InHand(r) /\ r # mtsProc)
                         /\ state'[r] = IF r = mtsProc THEN to ELSE state[r]
    BY <1>1, KernelAssumption DEF IInv, TypeOK, Hands, InHand
  <1>5. InHand(mtsProc)
    BY DEF InHand
  <1>6. \A t \in States, r \in Procs : r \in Elements(queue[t]) <=> state[r] = t /\ ~InHand(r)
    BY DEF IInv, Places
  <1>7. ASSUME NEW t \in States, NEW r \in Procs
        PROVE  r \in Elements(queue'[t]) <=> state'[r] = t /\ ~InHand(r)'
    <2>1. r \in Elements(queue'[t]) <=> r \in Elements(queue[t]) \/ (t = to /\ r = mtsProc)
      BY <1>3
    <2>. QED BY <1>1, <1>4, <1>5, <1>6, <2>1
  <1>. QED BY <1>3, <1>7, PlacesPointwise

LEMMA MTSBringsBackInv ==
    ASSUME IInv, MTSBringsBack
    PROVE  IInv'
  <1>1. /\ mtsProc # None /\ mtsProc \in Procs /\ state[mtsProc] = "SUSP_READY"
        /\ state' = [state EXCEPT ![mtsProc] = "READY"]
    BY DEF IInv, TypeOK, Hands, MTSBringsBack
  <1>2. Places'
    BY <1>1, PlacesPut DEF MTSBringsBack
  <1>3. TypeOK'
    <2>1. queue' \in [States -> Seq(Procs)]
      BY <1>2 DEF Places, Queues
    <2>2. state' \in [Procs -> States \union {"ABSENT"}]
      BY <1>1 DEF IInv, TypeOK, States
    <2>3. /\ memory' \in [Procs -> {"none", "RAM", "SWAP", "gone"}] /\ free' \in Int
          /\ MTSQueue' \in [Procs -> {"none", "io", "dump"}]
      BY <1>1, KernelAssumption DEF IInv, TypeOK, MTSBringsBack, RemoveBlockedByPID
    <2>4. sts' = IF sts \in {"empty", "cpu", "first"} THEN "top" ELSE sts
      BY DEF MTSBringsBack, UnlockSTS
    <2>5. /\ mts' = "drain" /\ mtsProc' = None
          /\ UNCHANGED <<calls, TimerRunning, timers, suspender, dumping, exits, cpus, LTSvars, stsHand>>
      BY DEF MTSBringsBack
    <2>. QED BY <2>1, <2>2, <2>3, <2>4, <2>5 DEF IInv, TypeOK, exits, cpus, LTSvars
  <1>4. Hands'
    BY <1>1 DEF IInv, Hands, TypeOK, MTSBringsBack, NoHand, cpus, LTSvars
  <1>5. Boards'
    BY <1>1 DEF IInv, Boards, TypeOK, MTSBringsBack, exits, cpus
  <1>6. Created' = Created /\ mtsProc \in Created
    BY <1>1 DEF Created, IInv, TypeOK
  <1>7. Ends' /\ Entries'
    BY <1>1, <1>6 DEF IInv, Ends, Entries, TypeOK, MTSBringsBack, RemoveBlockedByPID, exits
  <1>. QED BY <1>2, <1>3, <1>4, <1>5, <1>7 DEF IInv

LEMMA MTSIsRefusedInv ==
    ASSUME IInv, MTSIsRefused
    PROVE  IInv'
  <1>1. mtsProc # None /\ mtsProc \in Procs /\ state[mtsProc] = "SUSP_READY"
    BY DEF IInv, TypeOK, Hands, MTSIsRefused
  <1>2. state' = [state EXCEPT ![mtsProc] = "SUSP_READY"]
    BY <1>1 DEF IInv, TypeOK, MTSIsRefused
  <1>3. Places'
    BY <1>1, <1>2, PlacesPut DEF MTSIsRefused, waits
  <1>4. TypeOK'
    <2>1. queue' \in [States -> Seq(Procs)]
      BY <1>3 DEF Places, Queues
    <2>. QED BY <2>1 DEF IInv, TypeOK, MTSIsRefused, waits, exits, memoria, cpus, LTSvars,
            STSvars
  <1>5. Hands' /\ Boards' /\ Ends' /\ Entries'
    BY DEF IInv, Hands, Boards, Ends, Entries, Created, MTSIsRefused, waits, exits, cpus,
       LTSvars, STSvars
  <1>. QED BY <1>3, <1>4, <1>5 DEF IInv

LEMMA TimerFiresInv ==
    ASSUME IInv, NEW p \in Procs, NEW n \in 1 .. MaxCalls, TimerFires(p, n)
    PROVE  IInv'
  <1>1. suspender = Idle
    BY DEF TimerFires, MutexFree
  <1>2. CASE StillBlocked(p)
    <2>1. /\ queue' = Removed(queue, "BLOCKED", p)
          /\ suspender' = [proc |-> p, wait |-> n, step |-> "taken"]
          /\ p \in Elements(queue["BLOCKED"]) /\ state[p] = "BLOCKED"
      BY <1>2 DEF TimerFires, StillBlocked, Removed
    <2>2. /\ Queues(queue')
          /\ \A t \in States : Elements(queue'[t]) =
                IF t = "BLOCKED" THEN Elements(queue[t]) \ {p} ELSE Elements(queue[t])
      BY <2>1, RemovedKeeps DEF IInv, Places, States
    <2>3. Places'
      <3>1. \A r \in Procs : InHand(r)' <=> (InHand(r) \/ r = p)
        BY <1>1, <2>1 DEF InHand, Idle, TimerFires, MTSvars
      <3>2. UNCHANGED state
        BY DEF TimerFires
      <3>3. \A t \in States, r \in Procs : r \in Elements(queue[t]) <=> state[r] = t /\ ~InHand(r)
        BY DEF IInv, Places
      <3>4. ASSUME NEW t \in States, NEW r \in Procs
            PROVE  r \in Elements(queue'[t]) <=> state'[r] = t /\ ~InHand(r)'
        <4>1. r \in Elements(queue'[t]) <=> r \in Elements(queue[t]) /\ ~(t = "BLOCKED" /\ r = p)
          BY <2>2
        <4>. QED BY <2>1, <3>1, <3>2, <3>3, <4>1
      <3>. QED BY <2>2, <3>4, PlacesPointwise
    <2>4. TypeOK'
      <3>1. queue' \in [States -> Seq(Procs)]
        BY <2>2 DEF Queues
      <3>2. suspender' \in [proc : Procs \union {None}, wait : 0 .. MaxCalls,
                            step : {"idle", "taken", "asking"}]
        BY <2>1, KernelAssumption
      <3>3. timers' \subseteq Procs \X (1 .. MaxCalls)
        BY DEF IInv, TypeOK, TimerFires
      <3>. QED BY <3>1, <3>2, <3>3 DEF IInv, TypeOK, TimerFires, exits, memoria, cpus,
              LTSvars, STSvars, MTSvars
    <2>5. Hands' /\ Boards' /\ Ends' /\ Entries'
      BY <2>1 DEF IInv, Hands, Boards, Ends, Entries, Created, TimerFires, exits, cpus,
         LTSvars, STSvars, MTSvars
    <2>. QED BY <2>3, <2>4, <2>5 DEF IInv
  <1>3. CASE ~StillBlocked(p)
    <2>1. UNCHANGED <<queue, suspender>>
      BY <1>3 DEF TimerFires
    <2>2. Places'
      BY <2>1, PlacesStay DEF IInv, TimerFires, InHand, MTSvars
    <2>3. TypeOK'
      BY <2>1 DEF IInv, TypeOK, TimerFires, exits, memoria, cpus, LTSvars, STSvars, MTSvars
    <2>4. Hands' /\ Boards' /\ Ends' /\ Entries'
      BY <2>1 DEF IInv, Hands, Boards, Ends, Entries, Created, TimerFires, exits, cpus,
         LTSvars, STSvars, MTSvars
    <2>. QED BY <2>2, <2>3, <2>4 DEF IInv
  <1>. QED BY <1>2, <1>3

LEMMA SuspenderEnqueuesInv ==
    ASSUME IInv, SuspenderEnqueues
    PROVE  IInv'
  <1> DEFINE p == suspender.proc
  <1>1. /\ suspender.step = "taken" /\ p \in Procs /\ state[p] = "BLOCKED"
        /\ queue' = Enqueued(queue, "SUSP_BLOCKED", p)
        /\ state' = [state EXCEPT ![p] = "SUSP_BLOCKED"]
        /\ suspender'.step = "asking" /\ suspender'.proc = p
        /\ suspender' \in [proc : Procs \union {None}, wait : 0 .. MaxCalls,
                           step : {"idle", "taken", "asking"}]
    <2>1. suspender \in [proc : Procs \union {None}, wait : 0 .. MaxCalls,
                         step : {"idle", "taken", "asking"}]
      BY DEF IInv, TypeOK
    <2>2. suspender.step = "taken" /\ suspender' = [suspender EXCEPT !.step = "asking"]
      BY DEF SuspenderEnqueues
    <2>3. p \in Procs /\ state[p] = "BLOCKED"
      BY <2>2 DEF IInv, Hands, Idle
    <2>. QED BY <2>1, <2>2, <2>3 DEF SuspenderEnqueues
  <1>. HIDE DEF p
  <1>2. mtsProc # p /\ ltsProc # p /\ stsHand[1] # p /\ InHand(p)
    BY <1>1, KernelAssumption DEF IInv, Hands, InHand, NoHand, p
  <1>3. /\ Queues(queue')
        /\ \A t \in States : Elements(queue'[t]) =
              IF t = "SUSP_BLOCKED" THEN Elements(queue[t]) \union {p} ELSE Elements(queue[t])
    <2>1. p \notin Elements(queue["SUSP_BLOCKED"]) /\ "SUSP_BLOCKED" \in States
      BY <1>1 DEF IInv, Places, States
    <2>. QED BY <1>1, <2>1, EnqueuedKeeps DEF IInv, Places
  <1>4. Places'
    <2>1. \A r \in Procs : /\ InHand(r)' <=> (InHand(r) /\ r # p)
                           /\ state'[r] = IF r = p THEN "SUSP_BLOCKED" ELSE state[r]
      BY <1>1, <1>2 DEF IInv, TypeOK, InHand, SuspenderEnqueues, MTSvars, p
    <2>2. \A t \in States, r \in Procs : r \in Elements(queue[t]) <=> state[r] = t /\ ~InHand(r)
      BY DEF IInv, Places
    <2>3. ASSUME NEW t \in States, NEW r \in Procs
          PROVE  r \in Elements(queue'[t]) <=> state'[r] = t /\ ~InHand(r)'
      <3>1. r \in Elements(queue'[t]) <=> r \in Elements(queue[t]) \/ (t = "SUSP_BLOCKED" /\ r = p)
        BY <1>3
      <3>. QED BY <1>1, <1>2, <2>1, <2>2, <3>1
    <2>. QED BY <1>3, <2>3, PlacesPointwise
  <1>5. TypeOK'
    <2>1. queue' \in [States -> Seq(Procs)]
      BY <1>3 DEF Queues
    <2>2. state' \in [Procs -> States \union {"ABSENT"}]
      BY <1>1 DEF IInv, TypeOK, States
    <2>3. TimerRunning' \in [Procs -> BOOLEAN]
      BY DEF IInv, TypeOK, SuspenderEnqueues
    <2>. QED BY <1>1, <2>1, <2>2, <2>3 DEF IInv, TypeOK, SuspenderEnqueues, exits, memoria,
            cpus, LTSvars, STSvars, MTSvars
  <1>6. Hands'
    BY <1>1, <1>2 DEF IInv, Hands, TypeOK, SuspenderEnqueues, Idle, NoHand, cpus, LTSvars,
       STSvars, MTSvars
  <1>7. Boards'
    BY <1>1 DEF IInv, Boards, TypeOK, SuspenderEnqueues, exits, cpus
  <1>8. Created' = Created /\ p \in Created
    BY <1>1 DEF Created, IInv, TypeOK
  <1>9. Ends' /\ Entries'
    BY <1>1, <1>8 DEF IInv, Ends, Entries, TypeOK, SuspenderEnqueues, exits
  <1>. QED BY <1>4, <1>5, <1>6, <1>7, <1>9 DEF IInv

LEMMA SyscallInitProcInv ==
    ASSUME IInv, NEW c \in CPUs, SyscallInitProc(c)
    PROVE  IInv'
  <1>1. PICK p \in Procs, new \in Procs :
            /\ Executes(c, p) /\ state[new] = "ABSENT"
            /\ queue' = Enqueued(queue, "NEW", new)
            /\ state' = [state EXCEPT ![new] = "NEW"]
    BY DEF SyscallInitProc
  <1>2. /\ last = None /\ ~InHand(new) /\ ltsProc # new /\ mtsProc # new /\ stsHand[1] # new
        /\ suspender.step = "taken" => suspender.proc # new
    BY <1>1, RunningIsFree, KernelAssumption DEF IInv, Hands, InHand, NoHand
  <1>3. "NEW" \in States /\ new \notin Elements(queue["NEW"])
    BY <1>1 DEF IInv, Places, States
  <1>4. /\ Queues(queue')
        /\ \A t \in States : Elements(queue'[t]) =
              IF t = "NEW" THEN Elements(queue[t]) \union {new} ELSE Elements(queue[t])
    <2>1. Queues(queue)
      BY DEF IInv, Places
    <2>2. /\ Queues(Enqueued(queue, "NEW", new))
          /\ \A t \in States : Elements(Enqueued(queue, "NEW", new)[t]) =
                IF t = "NEW" THEN Elements(queue[t]) \union {new} ELSE Elements(queue[t])
      BY <1>3, <2>1, EnqueuedKeeps
    <2>. QED BY <1>1, <2>2
  <1>5. Places'
    <2>1. \A r \in Procs : /\ InHand(r)' <=> InHand(r)
                           /\ state'[r] = IF r = new THEN "NEW" ELSE state[r]
      BY <1>1 DEF IInv, TypeOK, InHand, SyscallInitProc, waits, MTSvars
    <2>2. \A t \in States, r \in Procs : r \in Elements(queue[t]) <=> state[r] = t /\ ~InHand(r)
      BY DEF IInv, Places
    <2>3. "ABSENT" \notin States
      BY DEF States
    <2>4. ASSUME NEW t \in States, NEW r \in Procs
          PROVE  r \in Elements(queue'[t]) <=> state'[r] = t /\ ~InHand(r)'
      <3>1. r \in Elements(queue'[t]) <=> r \in Elements(queue[t]) \/ (t = "NEW" /\ r = new)
        BY <1>4
      <3>. QED BY <1>1, <1>2, <2>1, <2>2, <2>3, <3>1
    <2>. QED BY <1>4, <2>4, PlacesPointwise
  <1>6. TypeOK'
    <2>1. queue' \in [States -> Seq(Procs)]
      BY <1>4 DEF Queues
    <2>2. state' \in [Procs -> States \union {"ABSENT"}]
      BY <1>1, <1>3 DEF IInv, TypeOK
    <2>3. lts' = IF lts = "empty" THEN "top" ELSE lts
      BY DEF SyscallInitProc, SignalLTSEmpty
    <2>4. UNCHANGED <<calls, waits, exits, memoria, cpus, ltsProc, STSvars, MTSvars>>
      BY DEF SyscallInitProc
    <2>. QED BY <2>1, <2>2, <2>3, <2>4 DEF IInv, TypeOK, waits, exits, memoria, cpus, STSvars,
            MTSvars
  <1>7. Hands'
    BY <1>1, <1>2 DEF IInv, Hands, TypeOK, SyscallInitProc, NoHand, waits, cpus, STSvars, MTSvars
  <1>8. Boards'
    BY <1>1 DEF IInv, Boards, TypeOK, SyscallInitProc, exits, cpus
  <1>9. Ends'
    <2>1. Created' = Created \union {new}
      BY <1>1 DEF Created, IInv, TypeOK
    <2>2. IsFiniteSet(Created')
      BY <2>1, FS_AddElement DEF IInv, Ends
    <2>. QED BY <1>1, <1>2, <2>2 DEF IInv, Ends, TypeOK, SyscallInitProc, exits
  <1>10. Entries'
    BY <1>1 DEF IInv, Entries, TypeOK, SyscallInitProc, waits
  <1>. QED BY <1>5, <1>6, <1>7, <1>8, <1>9, <1>10 DEF IInv

\* A process that waits is in nobody's hand but the suspender's.
LEMMA WaitingIsFree ==
    ASSUME IInv, NEW p \in Procs, state[p] \in {"BLOCKED", "SUSP_BLOCKED"}
    PROVE  /\ ltsProc # p /\ mtsProc # p /\ stsHand[1] # p
           /\ \A c \in CPUs : cpu[c] # p
           /\ deleting[p] = "no" /\ last = None
           /\ p \in Elements(queue[state[p]]) \/ suspender = Idle => ~InHand(p)
  <1>1. p # None
    BY KernelAssumption
  <1>2. ltsProc # p /\ mtsProc # p /\ stsHand[1] # p
    BY <1>1 DEF IInv, Hands, NoHand
  <1>3. (\A c \in CPUs : cpu[c] # p) /\ deleting[p] = "no" /\ last = None
    BY <1>1 DEF IInv, Boards, Ends, Created
  <1>4. p \in Elements(queue[state[p]]) => ~InHand(p)
    BY DEF IInv, Places, States
  <1>5. suspender = Idle => ~InHand(p)
    BY <1>2 DEF InHand, Idle
  <1>. QED BY <1>2, <1>3, <1>4, <1>5

\* The end of a wait, or of a process that waits.
LEMMA WaitEndsInv ==
    ASSUME IInv, TypeOK', Ends', NEW p \in Procs, state[p] \in {"BLOCKED", "SUSP_BLOCKED"},
           ~InHand(p), NEW to \in {"READY", "SUSP_READY", "EXIT"},
           queue' = Moved(queue, state[p], to, p), state' = [state EXCEPT ![p] = to],
           last = None, deleting' \in {deleting, [deleting EXCEPT ![p] = "dump"]},
           MTSQueue' \in {MTSQueue, [MTSQueue EXCEPT ![p] = "none"]},
           dumping' = dumping \/ dumping' = dumping \ {p}, p \notin dumping',
           UNCHANGED <<calls, suspender, cpus, LTSvars, stsHand, mtsProc>>
    PROVE  IInv'
  <1>1. /\ ltsProc # p /\ mtsProc # p /\ stsHand[1] # p /\ \A c \in CPUs : cpu[c] # p
        /\ deleting[p] = "no"
    BY WaitingIsFree
  <1>2. Places'
    BY PlacesMove DEF IInv, InHand, States
  <1>3. Hands'
    BY <1>1 DEF IInv, Hands, TypeOK, InHand, NoHand, cpus, LTSvars
  <1>4. Boards'
    BY <1>1 DEF IInv, Boards, TypeOK, cpus
  <1>5. Entries'
    BY DEF IInv, Entries, TypeOK
  <1>. QED BY <1>2, <1>3, <1>4, <1>5 DEF IInv

LEMMA HandleIOFinishedInv ==
    ASSUME IInv, NEW p \in Procs, HandleIOFinished(p)
    PROVE  IInv'
  <1>1. MTSQueue[p] = "io" /\ p \notin dumping /\ suspender = Idle
    BY DEF HandleIOFinished, MutexFree, IInv, Entries
  <1>2. MTSQueue' = [MTSQueue EXCEPT ![p] = "none"]
    BY DEF HandleIOFinished, RemoveBlockedByPID
  <1>3. ASSUME NEW to \in {"READY", "SUSP_READY"}, state[p] \in {"BLOCKED", "SUSP_BLOCKED"},
               queue' = Moved(queue, state[p], to, p), state' = [state EXCEPT ![p] = to],
               sts' \in {sts, IF sts \in {"empty", "cpu", "first"} THEN "top" ELSE sts},
               mts' \in {mts, IF mts = "wait" THEN "top" ELSE mts}
        PROVE  IInv'
    <2>1. ~InHand(p) /\ last = None /\ deleting[p] = "no"
      BY <1>1, <1>3, WaitingIsFree
    <2>2. Places'
      BY <1>3, <2>1, PlacesMove DEF IInv, HandleIOFinished, InHand, States
    <2>3. TypeOK'
      <3>1. queue' \in [States -> Seq(Procs)]
        BY <2>2 DEF Places, Queues
      <3>2. /\ state' \in [Procs -> States \union {"ABSENT"}]
            /\ MTSQueue' \in [Procs -> {"none", "io", "dump"}]
        BY <1>2, <1>3 DEF IInv, TypeOK, States
      <3>. QED BY <1>3, <3>1, <3>2 DEF IInv, TypeOK, HandleIOFinished, exits, memoria, cpus,
              LTSvars
    <2>4. Created' = Created /\ p \in Created
      BY <1>3 DEF Created, IInv, TypeOK
    <2>5. Ends'
      BY <1>3, <2>1, <2>4 DEF IInv, Ends, TypeOK, HandleIOFinished, exits
    <2>. QED BY <1>1, <1>2, <1>3, <2>1, <2>3, <2>5, WaitEndsInv DEF HandleIOFinished, exits
  <1>4. CASE state[p] = "SUSP_BLOCKED"
    BY <1>3, <1>4 DEF HandleIOFinished, Move, UnlockMTS
  <1>5. CASE state[p] = "BLOCKED"
    BY <1>3, <1>5 DEF HandleIOFinished, Move, UnlockSTS
  <1>6. CASE state[p] \notin {"SUSP_BLOCKED", "BLOCKED"}
    <2>1. UNCHANGED <<state, queue, sts, mts>>
      BY <1>6 DEF HandleIOFinished
    <2>2. Places'
      BY <2>1, PlacesStay DEF IInv, HandleIOFinished, InHand
    <2>3. TypeOK'
      BY <1>2, <2>1 DEF IInv, TypeOK, HandleIOFinished, exits, memoria, cpus, LTSvars
    <2>4. Hands' /\ Boards' /\ Ends'
      BY <2>1 DEF IInv, Hands, Boards, Ends, Created, HandleIOFinished, exits, cpus, LTSvars
    <2>5. Entries'
      BY <1>1, <1>2, <2>1 DEF IInv, Entries, TypeOK, HandleIOFinished
    <2>. QED BY <2>2, <2>3, <2>4, <2>5 DEF IInv
  <1>. QED BY <1>4, <1>5, <1>6

LEMMA DumpSucceedsInv ==
    ASSUME IInv, NEW p \in Procs, DumpSucceeds(p)
    PROVE  IInv'
  <1>1. /\ state[p] \in {"BLOCKED", "SUSP_BLOCKED"} /\ p \in Elements(queue[state[p]])
        /\ dumping' = dumping \ {p} /\ MTSQueue' = [MTSQueue EXCEPT ![p] = "none"]
        /\ queue' = Moved(queue, state[p], "READY", p) /\ state' = [state EXCEPT ![p] = "READY"]
    BY DEF IInv, Entries, DumpSucceeds, RemoveBlockedByPID, Move
  <1>2. ~InHand(p) /\ last = None /\ deleting[p] = "no"
    BY <1>1, WaitingIsFree
  <1>3. Places'
    BY <1>1, <1>2, PlacesMove DEF IInv, DumpSucceeds, InHand, States
  <1>4. TypeOK'
    <2>1. queue' \in [States -> Seq(Procs)]
      BY <1>3 DEF Places, Queues
    <2>2. /\ state' \in [Procs -> States \union {"ABSENT"}]
          /\ MTSQueue' \in [Procs -> {"none", "io", "dump"}]
      BY <1>1 DEF IInv, TypeOK, States
    <2>. QED BY <1>1, <2>1, <2>2 DEF IInv, TypeOK, DumpSucceeds, UnlockMTS, exits, memoria,
            cpus, LTSvars, STSvars
  <1>5. Created' = Created /\ p \in Created
    BY <1>1 DEF Created, IInv, TypeOK
  <1>6. Ends'
    BY <1>1, <1>2, <1>5 DEF IInv, Ends, TypeOK, DumpSucceeds, exits
  <1>. QED BY <1>1, <1>2, <1>4, <1>6, WaitEndsInv DEF DumpSucceeds, exits, STSvars

LEMMA DumpFailsInv ==
    ASSUME IInv, NEW p \in Procs, DumpFails(p)
    PROVE  IInv'
  <1>1. /\ state[p] \in {"BLOCKED", "SUSP_BLOCKED"} /\ p \in Elements(queue[state[p]])
        /\ dumping' = dumping \ {p}
        /\ queue' = Moved(queue, state[p], "EXIT", p) /\ state' = [state EXCEPT ![p] = "EXIT"]
        /\ deleting' = [deleting EXCEPT ![p] = "dump"] /\ last' \in {p, last}
    BY DEF IInv, Entries, DumpFails, Exits
  <1>2. ~InHand(p) /\ last = None /\ deleting[p] = "no"
    BY <1>1, WaitingIsFree
  <1>3. Places'
    BY <1>1, <1>2, PlacesMove DEF IInv, DumpFails, InHand, States, MTSvars
  <1>4. TypeOK'
    <2>1. queue' \in [States -> Seq(Procs)]
      BY <1>3 DEF Places, Queues
    <2>2. /\ state' \in [Procs -> States \union {"ABSENT"}]
          /\ deleting' \in [Procs -> {"no", "exit", "result", "missing", "dump"}]
      BY <1>1 DEF IInv, TypeOK, States
    <2>. QED BY <1>1, <2>1, <2>2 DEF IInv, TypeOK, DumpFails, memoria, cpus, LTSvars,
            STSvars, MTSvars
  <1>5. Ends'
    BY <1>1, <1>3, ExitsEnds DEF DumpFails, MTSvars
  <1>. QED BY <1>1, <1>2, <1>4, <1>5, WaitEndsInv DEF DumpFails, STSvars, MTSvars

LEMMA InitInv ==
    ASSUME Init
    PROVE  IInv
  <1>1. /\ Elements(<<>>) = {} /\ Distinct(<<>>)
        /\ Elements(<<Initial>>) = {Initial} /\ Distinct(<<Initial>>)
    BY DEF Elements, Distinct
  <1>2. Initial \in Procs /\ None \notin Procs /\ MaxCalls \in Nat /\ MemorySize \in Int
    BY KernelAssumption
  <1>3. queue \in [States -> Seq(Procs)]
    BY <1>2 DEF Init
  <1>4. \A p \in Procs : ~InHand(p)
    BY <1>2 DEF Init, InHand, Idle
  <1>5. Places
    <2>1. \A s \in States : queue[s] = IF s = "NEW" THEN <<Initial>> ELSE <<>>
      BY DEF Init
    <2>2. Queues(queue)
      BY <1>1, <1>3, <2>1 DEF Queues
    <2>3. \A s \in States, p \in Procs :
            p \in Elements(queue[s]) <=> s = "NEW" /\ p = Initial
      BY <1>1, <2>1
    <2>4. \A p \in Procs : state[p] = IF p = Initial THEN "NEW" ELSE "ABSENT"
      BY DEF Init
    <2>5. \A s \in States : Elements(queue[s]) \subseteq Procs
      BY <2>2, ElementsAreProcs
    <2>6. "ABSENT" \notin States
      BY DEF States
    <2>. QED BY <1>4, <2>2, <2>3, <2>4, <2>5, <2>6 DEF Places
  <1>6. TypeOK
    <2>1. state \in [Procs -> States \union {"ABSENT"}] /\ AvailableCPUs \in Seq(CPUs)
      BY DEF Init, States
    <2>2. suspender \in [proc : Procs \union {None}, wait : 0 .. MaxCalls,
                         step : {"idle", "taken", "asking"}]
      BY <1>2 DEF Init, Idle
    <2>3. stsHand = NoHand /\ sts # "send"
      BY DEF Init
    <2>4. /\ cpu \in [CPUs -> Procs \union {None}]
          /\ MTSQueue \in [Procs -> {"none", "io", "dump"}]
          /\ TimerRunning \in [Procs -> BOOLEAN]
          /\ deleting \in [Procs -> {"no", "exit", "result", "missing", "dump"}]
          /\ calls \in [Procs -> 0 .. MaxCalls]
          /\ memory \in [Procs -> {"none", "RAM", "SWAP", "gone"}] /\ free \in Int
      BY <1>2 DEF Init
    <2>5. /\ timers = {} /\ dumping = {} /\ last = None /\ halted = FALSE
          /\ lts = "stopped" /\ ltsProc = None /\ sts = "start" /\ mts = "top" /\ mtsProc = None
      BY DEF Init
    <2>. QED BY <1>3, <2>1, <2>2, <2>3, <2>4, <2>5 DEF TypeOK
  <1>7. Hands /\ Boards /\ Entries
    BY <1>2 DEF Init, Hands, Boards, Entries, Idle, NoHand
  <1>8. Ends
    <2>1. Created = {Initial}
      BY <1>2 DEF Init, Created
    <2>. QED BY <2>1, FS_Singleton DEF Init, Ends
  <1>. QED BY <1>5, <1>6, <1>7, <1>8 DEF IInv

LEMMA NextInv ==
    ASSUME IInv, [Next]_vars
    PROVE  IInv'
  <1>1. CASE StartLTS
    BY <1>1, StartLTSInv
  <1>2. CASE LTSYields
    BY <1>2, LTSYieldsInv
  <1>3. CASE LTSFindsNothing
    BY <1>3, LTSFindsNothingInv
  <1>4. CASE LTSFinds
    BY <1>4, LTSFindsInv
  <1>5. CASE LTSInitializes
    BY <1>5, LTSInitializesInv
  <1>6. CASE LTSIsRefused
    BY <1>6, LTSIsRefusedInv
  <1>7. CASE LTSSleeps
    BY <1>7, LTSSleepsInv
  <1>8. CASE STSStarts
    BY <1>8, STSStartsInv
  <1>9. CASE STSTakes
    BY <1>9, STSTakesInv
  <1>10. CASE STSFindsNoProcess
    BY <1>10, STSFindsNoProcessInv
  <1>11. CASE STSFindsNoCPU
    BY <1>11, STSFindsNoCPUInv
  <1>12. CASE STSDispatches
    BY <1>12, STSDispatchesInv
  <1>13. CASE STSDispatchFails
    BY <1>13, STSDispatchFailsInv
  <1>14. CASE STSSleeps
    BY <1>14, STSSleepsInv
  <1>15. CASE MTSStartsTimers
    BY <1>15, MTSStartsTimersInv
  <1>16. CASE MTSTakes
    BY <1>16, MTSTakesInv
  <1>17. CASE MTSFindsNothing
    BY <1>17, MTSFindsNothingInv
  <1>18. CASE MTSBringsBack
    BY <1>18, MTSBringsBackInv
  <1>19. CASE MTSIsRefused
    BY <1>19, MTSIsRefusedInv
  <1>20. CASE MTSSleeps
    BY <1>20, MTSSleepsInv
  <1>21. CASE SuspenderEnqueues
    BY <1>21, SuspenderEnqueuesInv
  <1>22. CASE SuspenderRequests
    BY <1>22, SuspenderRequestsInv
  <1>23. CASE Timers
    BY <1>23, TimerFiresInv DEF Timers
  <1>24. CASE \E c \in CPUs : ReceiveCPU(c)
    BY <1>24, ReceiveCPUInv
  <1>25. CASE \E c \in CPUs : SyscallIO(c)
    BY <1>25, SyscallIOInv
  <1>26. CASE \E c \in CPUs : SyscallMissingDevice(c)
    BY <1>26, SyscallMissingDeviceInv
  <1>27. CASE \E c \in CPUs : SyscallInitProc(c)
    BY <1>27, SyscallInitProcInv
  <1>28. CASE \E c \in CPUs : SyscallDump(c)
    BY <1>28, SyscallDumpInv
  <1>29. CASE \E c \in CPUs : SyscallExit(c)
    BY <1>29, SyscallExitInv
  <1>30. CASE \E c \in CPUs : ResultExit(c)
    BY <1>30, ResultExitInv
  <1>31. CASE \E p \in Procs : TerminateProcess(p)
    BY <1>31, TerminateProcessInv
  <1>32. CASE \E p \in Procs : HandleIOFinished(p)
    BY <1>32, HandleIOFinishedInv
  <1>33. CASE \E p \in Procs : DumpForgotten(p)
    BY <1>33, DumpForgottenInv
  <1>34. CASE \E p \in Procs : DumpSucceeds(p)
    BY <1>34, DumpSucceedsInv
  <1>35. CASE \E p \in Procs : DumpFails(p)
    BY <1>35, DumpFailsInv
  <1>36. CASE UNCHANGED vars
    <2>1. Places'
      BY <1>36, PlacesStay DEF IInv, InHand, vars, procs, waits, MTSvars
    <2>2. TypeOK' /\ Hands' /\ Boards' /\ Ends' /\ Entries'
      BY <1>36 DEF IInv, TypeOK, Hands, Boards, Ends, Entries, Created, vars, procs, waits,
         exits, memoria, cpus, LTSvars, STSvars, MTSvars
    <2>. QED BY <2>1, <2>2 DEF IInv
  <1>. QED
    BY <1>1, <1>2, <1>3, <1>4, <1>5, <1>6, <1>7, <1>8, <1>9, <1>10, <1>11, <1>12, <1>13,
       <1>14, <1>15, <1>16, <1>17, <1>18, <1>19, <1>20, <1>21, <1>22, <1>23, <1>24,
       <1>25, <1>26, <1>27, <1>28, <1>29, <1>30, <1>31, <1>32, <1>33, <1>34, <1>35,
       <1>36 DEF Next, LTS, STS, MTS, Suspender, CPUCalls, DumpEnds

\* The invariant, for every value of the constants.
THEOREM Invariance == Spec => []IInv
  <1>1. Init => IInv
    BY InitInv
  <1>2. IInv /\ [Next]_vars => IInv'
    BY NextInv
  <1>. QED BY <1>1, <1>2, PTL DEF Spec

-----------------------------------------------------------------------------
(* What follows from it *)

\* Type correctness of the kernel: queues of processes, threads at their places.
THEOREM KernelTypeOK == Spec => []TypeOK
  <1>1. IInv => TypeOK
    BY DEF IInv
  <1>. QED BY <1>1, Invariance, PTL

\* A process is in exactly one queue, once, and in the one that its PCB names, unless a
\* goroutine has it in hand: for every interleaving, with dumps and failures of all kinds.
THEOREM ProcessesHaveOnePlace == Spec => []OnePlace
  <1>1. ASSUME IInv PROVE OnePlace
    <2>1. ASSUME NEW s \in States
          PROVE  /\ Elements(queue[s]) = {p \in Procs : state[p] = s /\ ~InHand(p)}
                 /\ Len(queue[s]) = Cardinality(Elements(queue[s]))
      BY <1>1, DistinctLength DEF IInv, Places, Queues
    <2>2. ASSUME NEW p \in Procs
          PROVE  /\ stsHand[1] = p => state[p] = "EXEC"
                 /\ mtsProc = p => state[p] = "SUSP_READY"
                 /\ suspender.step = "taken" /\ suspender.proc = p => state[p] = "BLOCKED"
      BY <1>1, KernelAssumption DEF IInv, Hands, NoHand
    <2>. QED BY <2>1, <2>2 DEF OnePlace
  <1>. QED BY <1>1, Invariance, PTL

\* The kernel shuts down only when every process it has created is over.
THEOREM ShutdownIsLast == Spec => []HaltsWhenDone
  <1>1. IInv => HaltsWhenDone
    BY DEF IInv, Ends, HaltsWhenDone
  <1>. QED BY <1>1, Invariance, PTL

\* Every IO names a device that is connected; otherwise the process ends and keeps its CPU.
KnownDevices == ~MissingDevices

\* A CPU runs one process and a process is on one CPU.
THEOREM CPUsAreExclusive == ASSUME KnownDevices PROVE Spec => []OneCPUEach
  <1>1. ASSUME IInv PROVE OneCPUEach
    <2>1. ASSUME NEW p \in Procs, state[p] = "EXEC"
          PROVE  \E c \in Elements(AvailableCPUs) : cpu[c] = p
      BY <1>1, <2>1, KernelAssumption DEF IInv, Boards
    <2>2. /\ \A c, d \in CPUs : cpu[c] = cpu[d] /\ cpu[c] # None => c = d
          /\ \A c \in CPUs : cpu[c] # None =>
                state[cpu[c]] = "EXEC" \/ deleting[cpu[c]] = "exit" \/ last = cpu[c]
      BY <1>1 DEF IInv, Boards, KnownDevices
    <2>. QED BY <2>1, <2>2 DEF OneCPUEach
  <1>. QED BY <1>1, Invariance, PTL

-----------------------------------------------------------------------------
(* EXIT is final *)

Final == \A p \in Procs : state[p] = "EXIT" =>
    state'[p] = "EXIT" /\ (memory[p] = "gone" => memory'[p] = "gone")

\* A step that changes one process, which is not over.
LEMMA OthersChange ==
    ASSUME NEW p \in Procs, state[p] # "EXIT",
           \A r \in Procs : r # p => state'[r] = state[r] /\ memory'[r] = memory[r]
    PROVE  Final
  BY DEF Final

LEMMA ExitStays ==
    ASSUME IInv, [Next]_vars
    PROVE  Final
  <1>1. TypeOK
    BY DEF IInv
  <1>2. UNCHANGED <<state, memory>> => Final
    BY DEF Final
  <1>3. CASE StartLTS
    BY <1>3, <1>2 DEF StartLTS, procs, memoria
  <1>4. CASE LTSYields
    BY <1>4, <1>2 DEF LTSYields, procs, memoria
  <1>5. CASE LTSFindsNothing
    BY <1>5, <1>2 DEF LTSFindsNothing, procs, memoria
  <1>6. CASE LTSFinds
    BY <1>6, <1>2 DEF LTSFinds, procs, memoria
  <1>7. CASE LTSIsRefused
    BY <1>7, <1>2 DEF LTSIsRefused, procs, memoria
  <1>8. CASE LTSSleeps
    BY <1>8, <1>2 DEF LTSSleeps, procs, memoria
  <1>9. CASE STSStarts
    BY <1>9, <1>2 DEF STSStarts, procs, memoria
  <1>10. CASE STSFindsNoProcess
    BY <1>10, <1>2 DEF STSFindsNoProcess, procs, memoria
  <1>11. CASE STSFindsNoCPU
    BY <1>11, <1>2 DEF STSFindsNoCPU, procs, memoria
  <1>12. CASE STSDispatches
    BY <1>12, <1>2 DEF STSDispatches, procs, memoria
  <1>13. CASE STSSleeps
    BY <1>13, <1>2 DEF STSSleeps, procs, memoria
  <1>14. CASE MTSStartsTimers
    BY <1>14, <1>2 DEF MTSStartsTimers, procs, memoria
  <1>15. CASE MTSTakes
    BY <1>15, <1>2 DEF MTSTakes, memoria
  <1>16. CASE MTSFindsNothing
    BY <1>16, <1>2 DEF MTSFindsNothing, procs, memoria
  <1>17. CASE MTSIsRefused
    BY <1>17, <1>2 DEF MTSIsRefused, memoria
  <1>18. CASE MTSSleeps
    BY <1>18, <1>2 DEF MTSSleeps, procs, memoria
  <1>19. CASE LTSInitializes
    <2>1. ltsProc \in Procs /\ state[ltsProc] # "EXIT"
      BY <1>19 DEF IInv, TypeOK, Hands, LTSInitializes
    <2>2. \A r \in Procs : r # ltsProc => state'[r] = state[r] /\ memory'[r] = memory[r]
      BY <1>19 DEF IInv, TypeOK, LTSInitializes, Move
    <2>. QED BY <2>1, <2>2, OthersChange
  <1>20. CASE STSTakes
    <2>1. stsHand'[1] \in Procs /\ state[stsHand'[1]] = "READY"
      <3>1. Queues(queue) /\ "READY" \in States /\ queue["READY"] # <<>>
        BY <1>20 DEF IInv, Places, States, STSTakes
      <3>2. stsHand'[1] \in Elements(queue["READY"])
        BY <1>20, <3>1, PoppedKeeps DEF STSTakes
      <3>. QED BY <3>1, <3>2 DEF IInv, Places
    <2>2. \A r \in Procs : r # stsHand'[1] => state'[r] = state[r] /\ memory'[r] = memory[r]
      BY <1>20 DEF IInv, TypeOK, STSTakes, memoria
    <2>. QED BY <2>1, <2>2, OthersChange
  <1>21. CASE STSDispatchFails
    <2>1. stsHand[1] \in Procs /\ state[stsHand[1]] # "EXIT"
      BY <1>21 DEF IInv, TypeOK, Hands, STSDispatchFails
    <2>2. \A r \in Procs : r # stsHand[1] => state'[r] = state[r] /\ memory'[r] = memory[r]
      BY <1>21 DEF IInv, TypeOK, STSDispatchFails, Move, memoria
    <2>. QED BY <2>1, <2>2, OthersChange
  <1>22. CASE MTSBringsBack
    <2>1. mtsProc \in Procs /\ state[mtsProc] # "EXIT"
      BY <1>22 DEF IInv, TypeOK, Hands, MTSBringsBack
    <2>2. \A r \in Procs : r # mtsProc => state'[r] = state[r] /\ memory'[r] = memory[r]
      BY <1>22 DEF IInv, TypeOK, MTSBringsBack
    <2>. QED BY <2>1, <2>2, OthersChange
  <1>23. CASE SuspenderEnqueues
    <2>1. suspender.proc \in Procs /\ state[suspender.proc] # "EXIT"
      BY <1>23 DEF IInv, Hands, Idle, SuspenderEnqueues
    <2>2. \A r \in Procs : r # suspender.proc => state'[r] = state[r] /\ memory'[r] = memory[r]
      BY <1>23 DEF IInv, TypeOK, SuspenderEnqueues, memoria
    <2>. QED BY <2>1, <2>2, OthersChange
  <1>24. CASE SuspenderRequests
    <2>1. CASE memory[suspender.proc] = "RAM"
      BY <1>24, <1>1, <2>1 DEF Final, TypeOK, SuspenderRequests, procs
    <2>2. CASE memory[suspender.proc] # "RAM"
      BY <1>24, <1>2, <2>2 DEF SuspenderRequests, procs, memoria
    <2>. QED BY <2>1, <2>2
  <1>25. CASE Timers
    BY <1>25, <1>2 DEF Timers, TimerFires, memoria
  <1>26. CASE \E c \in CPUs : ReceiveCPU(c)
    BY <1>26, <1>2 DEF ReceiveCPU, procs, memoria
  <1>27. CASE \E c \in CPUs : SyscallIO(c)
    <2>1. \E p \in Procs : /\ state[p] = "EXEC" /\ UNCHANGED memory
                           /\ \A r \in Procs : r # p => state'[r] = state[r]
      BY <1>27, <1>1 DEF TypeOK, SyscallIO, Executes, memoria, Blocks, Move
    <2>. QED BY <2>1, OthersChange
  <1>28. CASE \E c \in CPUs : SyscallMissingDevice(c)
    <2>1. \E p \in Procs : /\ state[p] = "EXEC" /\ UNCHANGED memory
                           /\ \A r \in Procs : r # p => state'[r] = state[r]
      BY <1>28, <1>1 DEF TypeOK, SyscallMissingDevice, Executes, memoria, Exits
    <2>. QED BY <2>1, OthersChange
  <1>29. CASE \E c \in CPUs : SyscallDump(c)
    <2>1. \E p \in Procs : /\ state[p] = "EXEC" /\ UNCHANGED memory
                           /\ \A r \in Procs : r # p => state'[r] = state[r]
      BY <1>29, <1>1 DEF TypeOK, SyscallDump, Executes, memoria, Blocks, Move
    <2>. QED BY <2>1, OthersChange
  <1>30. CASE \E c \in CPUs : SyscallExit(c)
    <2>1. \E p \in Procs : /\ state[p] = "EXEC" /\ UNCHANGED memory
                           /\ \A r \in Procs : r # p => state'[r] = state[r]
      BY <1>30, <1>1 DEF TypeOK, SyscallExit, Executes, memoria, Exits
    <2>. QED BY <2>1, OthersChange
  <1>31. CASE \E c \in CPUs : ResultExit(c)
    <2>1. \E p \in Procs : /\ state[p] = "EXEC" /\ UNCHANGED memory
                           /\ \A r \in Procs : r # p => state'[r] = state[r]
      BY <1>31, <1>1 DEF TypeOK, ResultExit, Executes, memoria, Exits
    <2>. QED BY <2>1, OthersChange
  <1>32. CASE \E c \in CPUs : SyscallInitProc(c)
    <2>1. \E p \in Procs : /\ state[p] # "EXIT" /\ UNCHANGED memory
                           /\ \A r \in Procs : r # p => state'[r] = state[r]
      BY <1>32 DEF IInv, TypeOK, SyscallInitProc, memoria
    <2>. QED BY <2>1, OthersChange
  <1>33. CASE \E p \in Procs : TerminateProcess(p)
    BY <1>33, <1>1 DEF Final, TypeOK, TerminateProcess, procs
  <1>34. CASE \E p \in Procs : HandleIOFinished(p)
    <2>1. PICK p \in Procs : HandleIOFinished(p)
      BY <1>34
    <2>2. CASE state[p] \in {"BLOCKED", "SUSP_BLOCKED"}
      <3>1. \A r \in Procs : r # p => state'[r] = state[r] /\ memory'[r] = memory[r]
        BY <1>1, <2>1, <2>2 DEF TypeOK, HandleIOFinished, Move, memoria
      <3>. QED BY <2>2, <3>1, OthersChange
    <2>3. CASE state[p] \notin {"BLOCKED", "SUSP_BLOCKED"}
      BY <1>2, <2>1, <2>3 DEF HandleIOFinished, memoria
    <2>. QED BY <2>2, <2>3
  <1>35. CASE \E p \in Procs : DumpForgotten(p)
    BY <1>35, <1>2 DEF DumpForgotten, procs, memoria
  <1>36. CASE \E p \in Procs : DumpSucceeds(p)
    <2>1. PICK p \in Procs : DumpSucceeds(p)
      BY <1>36
    <2>2. state[p] # "EXIT"
      BY <2>1 DEF IInv, Entries, DumpSucceeds
    <2>3. UNCHANGED memory /\ \A r \in Procs : r # p => state'[r] = state[r]
      BY <2>1 DEF IInv, TypeOK, DumpSucceeds, Move, memoria
    <2>. QED BY <2>2, <2>3, OthersChange
  <1>37. CASE \E p \in Procs : DumpFails(p)
    <2>1. PICK p \in Procs : DumpFails(p)
      BY <1>37
    <2>2. state[p] # "EXIT"
      BY <2>1 DEF IInv, Entries, DumpFails
    <2>3. UNCHANGED memory /\ \A r \in Procs : r # p => state'[r] = state[r]
      BY <2>1 DEF IInv, TypeOK, DumpFails, Exits, memoria
    <2>. QED BY <2>2, <2>3, OthersChange
  <1>38. CASE UNCHANGED vars
    BY <1>38, <1>2 DEF vars, procs, memoria
  <1>. QED
    BY <1>3, <1>4, <1>5, <1>6, <1>7, <1>8, <1>9, <1>10, <1>11, <1>12, <1>13, <1>14,
       <1>15, <1>16, <1>17, <1>18, <1>19, <1>20, <1>21, <1>22, <1>23, <1>24, <1>25,
       <1>26, <1>27, <1>28, <1>29, <1>30, <1>31, <1>32, <1>33, <1>34, <1>35, <1>36,
       <1>37, <1>38 DEF Next, LTS, STS, MTS, Suspender, CPUCalls, DumpEnds

\* EXIT is final, and what memoria has released stays released, whatever timer, dump or
\* device comes late.
THEOREM ExitStaysFinal == Spec => ExitIsFinal
  <1>1. IInv /\ [Next]_vars => [\A p \in Procs : state[p] = "EXIT" =>
            state'[p] = "EXIT" /\ (memory[p] = "gone" => memory'[p] = "gone")]_vars
    BY ExitStays DEF Final
  <1>. QED BY <1>1, Invariance, PTL DEF Spec, ExitIsFinal

-----------------------------------------------------------------------------
(* Where the memory of a process is *)

\* No process calls DUMP_MEMORY, whose end looks at no state.
NoDumps == ~Dumps

Asks(p) == suspender.proc = p /\ suspender.step = "asking"
Resides(p) ==
    /\ state[p] \in {"ABSENT", "NEW"} <=> memory[p] = "none"
    /\ state[p] \in {"READY", "EXEC", "BLOCKED"} => memory[p] = "RAM"
    /\ state[p] = "SUSP_READY" => memory[p] = "SWAP"
    /\ state[p] = "SUSP_BLOCKED" => memory[p] = IF Asks(p) THEN "RAM" ELSE "SWAP"
    /\ state[p] = "EXIT" => memory[p] = IF deleting[p] # "no" THEN "RAM" ELSE "gone"
    /\ MTSQueue[p] = "io" <=> state[p] \in {"BLOCKED", "SUSP_BLOCKED"}
    /\ Asks(p) => state[p] = "SUSP_BLOCKED"
RInv == dumping = {} /\ \A p \in Procs : Resides(p)

LEMMA AllReside ==
    ASSUME IInv, RInv, UNCHANGED <<state, memory, deleting, MTSQueue, dumping>>,
           \A p \in Procs : Asks(p)' <=> Asks(p)
    PROVE  RInv'
  BY DEF RInv, Resides

\* A step that concerns one process leaves the others where they are.
LEMMA OthersReside ==
    ASSUME RInv, NEW p \in Procs, dumping' = {}, Resides(p)',
           \A r \in Procs : r # p =>
              /\ state'[r] = state[r] /\ memory'[r] = memory[r] /\ deleting'[r] = deleting[r]
              /\ MTSQueue'[r] = MTSQueue[r] /\ (Asks(r)' <=> Asks(r))
    PROVE  RInv'
  <1>1. ASSUME NEW r \in Procs, r # p
        PROVE  Resides(r)'
    BY <1>1 DEF RInv, Resides
  <1>. QED BY <1>1 DEF RInv

\* Each action with the one process that it moves.
LEMMA ResidencyStep ==
    ASSUME NoDumps, IInv, RInv, [Next]_vars
    PROVE  RInv'
  <1>1. TypeOK
    BY DEF IInv
  <1>2. CASE StartLTS
    BY <1>2, AllReside DEF StartLTS, Asks, procs, waits, exits, memoria
  <1>3. CASE LTSYields
    BY <1>3, AllReside DEF LTSYields, Asks, procs, waits, exits, memoria
  <1>4. CASE LTSFindsNothing
    BY <1>4, AllReside DEF LTSFindsNothing, Asks, procs, waits, exits, memoria
  <1>5. CASE LTSFinds
    BY <1>5, AllReside DEF LTSFinds, Asks, procs, waits, exits, memoria
  <1>6. CASE LTSIsRefused
    BY <1>6, AllReside DEF LTSIsRefused, Asks, procs, waits, exits, memoria
  <1>7. CASE LTSSleeps
    BY <1>7, AllReside DEF LTSSleeps, Asks, procs, waits, exits, memoria
  <1>8. CASE STSStarts
    BY <1>8, AllReside DEF STSStarts, Asks, procs, waits, exits, memoria
  <1>9. CASE STSFindsNoProcess
    BY <1>9, AllReside DEF STSFindsNoProcess, Asks, procs, waits, exits, memoria
  <1>10. CASE STSFindsNoCPU
    BY <1>10, AllReside DEF STSFindsNoCPU, Asks, procs, waits, exits, memoria
  <1>11. CASE STSDispatches
    BY <1>11, AllReside DEF STSDispatches, Asks, procs, waits, exits, memoria
  <1>12. CASE STSSleeps
    BY <1>12, AllReside DEF STSSleeps, Asks, procs, waits, exits, memoria
  <1>13. CASE MTSStartsTimers
    BY <1>13, AllReside DEF MTSStartsTimers, Asks, procs, exits, memoria
  <1>14. CASE MTSTakes
    BY <1>14, AllReside DEF MTSTakes, Asks, waits, exits, memoria
  <1>15. CASE MTSFindsNothing
    BY <1>15, AllReside DEF MTSFindsNothing, Asks, procs, waits, exits, memoria
  <1>16. CASE MTSIsRefused
    BY <1>16, AllReside DEF MTSIsRefused, Asks, waits, exits, memoria
  <1>17. CASE MTSSleeps
    BY <1>17, AllReside DEF MTSSleeps, Asks, procs, waits, exits, memoria
  <1>18. CASE LTSInitializes
    <2>1. PICK p \in Procs : p = ltsProc /\ state[p] = "NEW"
      BY <1>18, KernelAssumption DEF IInv, TypeOK, Hands, LTSInitializes
    <2>2. /\ \A r \in Procs : r # p =>
                /\ state'[r] = state[r] /\ memory'[r] = memory[r] /\ deleting'[r] = deleting[r]
                /\ MTSQueue'[r] = MTSQueue[r] /\ (Asks(r)' <=> Asks(r))
          /\ dumping' = {}
      BY <1>18, <2>1 DEF IInv, TypeOK, RInv, Asks, LTSInitializes, Move, waits, exits
    <2>3. state'[p] = "READY" /\ memory'[p] = "RAM" /\ UNCHANGED <<MTSQueue, suspender>>
      BY <1>18, <2>1 DEF IInv, TypeOK, LTSInitializes, Move, waits
    <2>4. MTSQueue[p] # "io" /\ ~Asks(p)
      BY <2>1 DEF RInv, Resides
    <2>5. Resides(p)'
      BY <2>3, <2>4 DEF Resides, Asks
    <2>. QED BY <2>2, <2>5, OthersReside
  <1>19. CASE STSTakes
    <2>1. PICK p \in Procs : p = stsHand'[1] /\ state[p] = "READY"
      <3>1. Queues(queue) /\ "READY" \in States /\ queue["READY"] # <<>>
        BY <1>19 DEF IInv, Places, States, STSTakes
      <3>2. stsHand'[1] = Head(queue["READY"])
        BY <1>19 DEF STSTakes
      <3>3. Head(queue["READY"]) \in Elements(queue["READY"])
        BY <3>1, PoppedKeeps
      <3>. QED BY <3>1, <3>2, <3>3 DEF IInv, Places
    <2>2. /\ \A r \in Procs : r # p =>
                /\ state'[r] = state[r] /\ memory'[r] = memory[r] /\ deleting'[r] = deleting[r]
                /\ MTSQueue'[r] = MTSQueue[r] /\ (Asks(r)' <=> Asks(r))
          /\ dumping' = {}
      BY <1>19, <2>1 DEF IInv, TypeOK, RInv, Asks, STSTakes, waits, exits, memoria
    <2>3. Resides(p)'
      BY <1>19, <2>1 DEF IInv, TypeOK, RInv, Resides, Asks, STSTakes, waits, exits, memoria
    <2>. QED BY <2>2, <2>3, OthersReside
  <1>20. CASE STSDispatchFails
    <2>1. PICK p \in Procs : p = stsHand[1] /\ state[p] = "EXEC"
      BY <1>20, KernelAssumption DEF IInv, TypeOK, Hands, STSDispatchFails
    <2>2. /\ \A r \in Procs : r # p =>
                /\ state'[r] = state[r] /\ memory'[r] = memory[r] /\ deleting'[r] = deleting[r]
                /\ MTSQueue'[r] = MTSQueue[r] /\ (Asks(r)' <=> Asks(r))
          /\ dumping' = {}
      BY <1>20, <2>1 DEF IInv, TypeOK, RInv, Asks, STSDispatchFails, Move, waits, exits,
         memoria
    <2>3. state'[p] = "READY" /\ UNCHANGED <<memory, MTSQueue, suspender>>
      BY <1>20, <2>1 DEF IInv, TypeOK, STSDispatchFails, Move, waits, memoria
    <2>4. memory[p] = "RAM" /\ MTSQueue[p] # "io" /\ ~Asks(p)
      BY <2>1 DEF RInv, Resides
    <2>5. Resides(p)'
      BY <2>3, <2>4 DEF Resides, Asks
    <2>. QED BY <2>2, <2>5, OthersReside
  <1>21. CASE MTSBringsBack
    <2>1. PICK p \in Procs : p = mtsProc /\ state[p] = "SUSP_READY"
      BY <1>21, KernelAssumption DEF IInv, TypeOK, Hands, MTSBringsBack
    <2>2. /\ \A r \in Procs : r # p =>
                /\ state'[r] = state[r] /\ memory'[r] = memory[r] /\ deleting'[r] = deleting[r]
                /\ MTSQueue'[r] = MTSQueue[r] /\ (Asks(r)' <=> Asks(r))
          /\ dumping' = {}
      BY <1>21, <2>1 DEF IInv, TypeOK, RInv, Asks, MTSBringsBack, RemoveBlockedByPID, exits
    <2>3. Resides(p)'
      BY <1>21, <2>1 DEF IInv, TypeOK, RInv, Resides, Asks, MTSBringsBack,
         RemoveBlockedByPID, exits
    <2>. QED BY <2>2, <2>3, OthersReside
  <1>22. CASE SuspenderEnqueues
    <2>1. PICK p \in Procs : p = suspender.proc /\ state[p] = "BLOCKED"
      BY <1>22, KernelAssumption DEF IInv, TypeOK, Hands, Idle, SuspenderEnqueues
    <2>2. /\ \A r \in Procs : r # p =>
                /\ state'[r] = state[r] /\ memory'[r] = memory[r] /\ deleting'[r] = deleting[r]
                /\ MTSQueue'[r] = MTSQueue[r] /\ (Asks(r)' <=> Asks(r))
          /\ dumping' = {}
      BY <1>22, <2>1 DEF IInv, TypeOK, RInv, Asks, SuspenderEnqueues, exits, memoria
    <2>3. Resides(p)'
      BY <1>22, <2>1 DEF IInv, TypeOK, RInv, Resides, Asks, SuspenderEnqueues, exits,
         memoria
    <2>. QED BY <2>2, <2>3, OthersReside
  <1>23. CASE SuspenderRequests
    <2>1. PICK p \in Procs : p = suspender.proc /\ Asks(p) /\ suspender' = Idle
      BY <1>23 DEF IInv, Hands, Idle, Asks, SuspenderRequests
    <2>2. state[p] = "SUSP_BLOCKED" /\ memory[p] = "RAM"
      BY <2>1 DEF RInv, Resides
    <2>3. memory' = [memory EXCEPT ![p] = "SWAP"]
      BY <1>23, <2>1, <2>2 DEF SuspenderRequests
    <2>4. /\ \A r \in Procs : r # p =>
                /\ state'[r] = state[r] /\ memory'[r] = memory[r] /\ deleting'[r] = deleting[r]
                /\ MTSQueue'[r] = MTSQueue[r] /\ (Asks(r)' <=> Asks(r))
          /\ dumping' = {}
      BY <1>23, <2>1, <2>3, <1>1 DEF TypeOK, RInv, Asks, SuspenderRequests, Idle, procs, exits
    <2>5. Resides(p)'
      BY <1>23, <2>1, <2>2, <2>3, <1>1 DEF TypeOK, RInv, Resides, Asks, SuspenderRequests, Idle,
         procs, exits
    <2>. QED BY <2>4, <2>5, OthersReside
  <1>24. CASE Timers
    <2>1. PICK p \in Procs, i \in 1 .. MaxCalls : TimerFires(p, i)
      BY <1>24 DEF Timers
    <2>2. \A r \in Procs : ~Asks(r) /\ ~Asks(r)'
      BY <2>1 DEF TimerFires, MutexFree, Idle, Asks
    <2>. QED BY <2>1, <2>2, AllReside DEF TimerFires, exits, memoria
  <1>25. CASE \E c \in CPUs : ReceiveCPU(c)
    BY <1>25, AllReside DEF ReceiveCPU, Asks, procs, waits, exits, memoria
  <1>26. CASE \E c \in CPUs : SyscallIO(c)
    <2>1. PICK p \in Procs :
            /\ state[p] = "EXEC" /\ state' = [state EXCEPT ![p] = "BLOCKED"]
            /\ MTSQueue' = [MTSQueue EXCEPT ![p] = "io"]
            /\ UNCHANGED <<suspender, dumping, deleting, memory>>
      BY <1>26 DEF SyscallIO, Executes, Blocks, Move, exits, memoria
    <2>2. /\ \A r \in Procs : r # p =>
                /\ state'[r] = state[r] /\ memory'[r] = memory[r] /\ deleting'[r] = deleting[r]
                /\ MTSQueue'[r] = MTSQueue[r] /\ (Asks(r)' <=> Asks(r))
          /\ dumping' = {}
      BY <1>1, <2>1 DEF TypeOK, RInv, Asks
    <2>3. Resides(p)'
      BY <1>1, <2>1 DEF TypeOK, RInv, Resides, Asks
    <2>. QED BY <2>2, <2>3, OthersReside
  <1>27. CASE \E c \in CPUs : SyscallMissingDevice(c)
    <2>1. PICK p \in Procs :
            /\ state[p] = "EXEC" /\ state' = [state EXCEPT ![p] = "EXIT"]
            /\ \E who \in {"exit", "result", "missing"} :
                  deleting' = [deleting EXCEPT ![p] = who]
            /\ UNCHANGED <<suspender, dumping, MTSQueue, memory>>
      BY <1>27 DEF SyscallMissingDevice, Executes, Exits, waits, memoria
    <2>2. /\ \A r \in Procs : r # p =>
                /\ state'[r] = state[r] /\ memory'[r] = memory[r] /\ deleting'[r] = deleting[r]
                /\ MTSQueue'[r] = MTSQueue[r] /\ (Asks(r)' <=> Asks(r))
          /\ dumping' = {}
      BY <1>1, <2>1 DEF TypeOK, RInv, Asks
    <2>3. Resides(p)'
      BY <1>1, <2>1 DEF TypeOK, RInv, Resides, Asks
    <2>. QED BY <2>2, <2>3, OthersReside
  <1>28. CASE \E c \in CPUs : SyscallExit(c)
    <2>1. PICK p \in Procs :
            /\ state[p] = "EXEC" /\ state' = [state EXCEPT ![p] = "EXIT"]
            /\ \E who \in {"exit", "result", "missing"} :
                  deleting' = [deleting EXCEPT ![p] = who]
            /\ UNCHANGED <<suspender, dumping, MTSQueue, memory>>
      BY <1>28 DEF SyscallExit, Executes, Exits, waits, memoria
    <2>2. /\ \A r \in Procs : r # p =>
                /\ state'[r] = state[r] /\ memory'[r] = memory[r] /\ deleting'[r] = deleting[r]
                /\ MTSQueue'[r] = MTSQueue[r] /\ (Asks(r)' <=> Asks(r))
          /\ dumping' = {}
      BY <1>1, <2>1 DEF TypeOK, RInv, Asks
    <2>3. Resides(p)'
      BY <1>1, <2>1 DEF TypeOK, RInv, Resides, Asks
    <2>. QED BY <2>2, <2>3, OthersReside
  <1>29. CASE \E c \in CPUs : ResultExit(c)
    <2>1. PICK p \in Procs :
            /\ state[p] = "EXEC" /\ state' = [state EXCEPT ![p] = "EXIT"]
            /\ \E who \in {"exit", "result", "missing"} :
                  deleting' = [deleting EXCEPT ![p] = who]
            /\ UNCHANGED <<suspender, dumping, MTSQueue, memory>>
      BY <1>29 DEF ResultExit, Executes, Exits, waits, memoria
    <2>2. /\ \A r \in Procs : r # p =>
                /\ state'[r] = state[r] /\ memory'[r] = memory[r] /\ deleting'[r] = deleting[r]
                /\ MTSQueue'[r] = MTSQueue[r] /\ (Asks(r)' <=> Asks(r))
          /\ dumping' = {}
      BY <1>1, <2>1 DEF TypeOK, RInv, Asks
    <2>3. Resides(p)'
      BY <1>1, <2>1 DEF TypeOK, RInv, Resides, Asks
    <2>. QED BY <2>2, <2>3, OthersReside
  <1>30. CASE \E c \in CPUs : SyscallDump(c)
    BY <1>30 DEF SyscallDump, NoDumps
  <1>31. CASE \E c \in CPUs : SyscallInitProc(c)
    <2>1. PICK p \in Procs :
            /\ state[p] = "ABSENT" /\ state' = [state EXCEPT ![p] = "NEW"]
            /\ UNCHANGED <<suspender, dumping, MTSQueue, memory, deleting>>
      BY <1>31 DEF SyscallInitProc, waits, exits, memoria
    <2>2. /\ \A r \in Procs : r # p =>
                /\ state'[r] = state[r] /\ memory'[r] = memory[r] /\ deleting'[r] = deleting[r]
                /\ MTSQueue'[r] = MTSQueue[r] /\ (Asks(r)' <=> Asks(r))
          /\ dumping' = {}
      BY <1>1, <2>1 DEF TypeOK, RInv, Asks
    <2>3. Resides(p)'
      BY <1>1, <2>1 DEF TypeOK, RInv, Resides, Asks
    <2>. QED BY <2>2, <2>3, OthersReside
  <1>32. CASE \E p \in Procs : TerminateProcess(p)
    <2>1. PICK p \in Procs :
            /\ deleting[p] # "no" /\ deleting' = [deleting EXCEPT ![p] = "no"]
            /\ state[p] = "EXIT" /\ memory' = [memory EXCEPT ![p] = "gone"]
            /\ UNCHANGED <<state, suspender, dumping, MTSQueue>>
      BY <1>32 DEF TerminateProcess, IInv, Ends, procs, waits
    <2>2. /\ \A r \in Procs : r # p =>
                /\ state'[r] = state[r] /\ memory'[r] = memory[r] /\ deleting'[r] = deleting[r]
                /\ MTSQueue'[r] = MTSQueue[r] /\ (Asks(r)' <=> Asks(r))
          /\ dumping' = {}
      BY <1>1, <2>1 DEF TypeOK, RInv, Asks
    <2>3. deleting'[p] = "no" /\ memory'[p] = "gone"
      BY <1>1, <2>1 DEF TypeOK
    <2>4. MTSQueue[p] # "io" /\ ~Asks(p)
      BY <2>1 DEF RInv, Resides
    <2>5. Resides(p)'
      BY <2>1, <2>3, <2>4 DEF Resides, Asks
    <2>. QED BY <2>2, <2>5, OthersReside
  <1>33. CASE \E p \in Procs : HandleIOFinished(p)
    <2>1. PICK p \in Procs : HandleIOFinished(p)
      BY <1>33
    <2>2. /\ MTSQueue[p] = "io" /\ MTSQueue' = [MTSQueue EXCEPT ![p] = "none"]
          /\ UNCHANGED <<suspender, dumping, deleting, memory>>
          /\ \A r \in Procs : ~Asks(r)
      BY <2>1 DEF HandleIOFinished, RemoveBlockedByPID, MutexFree, Idle, Asks, exits, memoria
    <2>3. state[p] \in {"BLOCKED", "SUSP_BLOCKED"}
      BY <2>2 DEF RInv, Resides
    <2>4. state' = [state EXCEPT ![p] = IF state[p] = "BLOCKED" THEN "READY" ELSE "SUSP_READY"]
      BY <2>1, <2>3 DEF HandleIOFinished, Move
    <2>5. /\ \A r \in Procs : r # p =>
                /\ state'[r] = state[r] /\ memory'[r] = memory[r] /\ deleting'[r] = deleting[r]
                /\ MTSQueue'[r] = MTSQueue[r] /\ (Asks(r)' <=> Asks(r))
          /\ dumping' = {}
      BY <1>1, <2>2, <2>4 DEF TypeOK, RInv, Asks
    <2>6. Resides(p)'
      BY <1>1, <2>2, <2>3, <2>4 DEF TypeOK, RInv, Resides, Asks
    <2>. QED BY <2>5, <2>6, OthersReside
  <1>34. CASE \E p \in Procs : DumpForgotten(p)
    BY <1>34 DEF RInv, DumpForgotten
  <1>35. CASE \E p \in Procs : DumpSucceeds(p)
    BY <1>35 DEF RInv, DumpSucceeds
  <1>36. CASE \E p \in Procs : DumpFails(p)
    BY <1>36 DEF RInv, DumpFails
  <1>37. CASE UNCHANGED vars
    BY <1>37, AllReside DEF Asks, vars, procs, waits, exits, memoria
  <1>. QED
    BY <1>2, <1>3, <1>4, <1>5, <1>6, <1>7, <1>8, <1>9, <1>10, <1>11, <1>12, <1>13,
       <1>14, <1>15, <1>16, <1>17, <1>18, <1>19, <1>20, <1>21, <1>22, <1>23, <1>24,
       <1>25, <1>26, <1>27, <1>28, <1>29, <1>30, <1>31, <1>32, <1>33, <1>34, <1>35,
       <1>36, <1>37 DEF Next, LTS, STS, MTS, Suspender, CPUCalls, DumpEnds

LEMMA ResidencyInvariance == ASSUME NoDumps PROVE Spec => []RInv
  <1>1. Init => RInv
    BY KernelAssumption DEF Init, RInv, Resides, Asks, Idle
  <1>2. IInv /\ RInv /\ [Next]_vars => RInv'
    BY ResidencyStep
  <1>. QED BY <1>1, <1>2, Invariance, PTL DEF Spec

\* The kernel's idea of where a process is agrees with memoria's, in every interleaving of
\* schedulers, timers, answers and handlers, as long as no process calls DUMP_MEMORY.
THEOREM StatesAgreeWithMemory == ASSUME NoDumps PROVE Spec => []Residency
  <1>1. RInv => Residency
    BY DEF RInv, Resides, Asks, Residency
  <1>. QED BY <1>1, ResidencyInvariance, PTL

\* A wait has an entry as long as it lasts, and no longer.
THEOREM EntriesLastAsWaits == ASSUME NoDumps PROVE Spec => []WaitsHaveEntries
  <1>1. RInv => WaitsHaveEntries
    BY DEF RInv, Resides, WaitsHaveEntries
  <1>. QED BY <1>1, ResidencyInvariance, PTL
=============================================================================
