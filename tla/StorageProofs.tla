--------------------------- MODULE StorageProofs ---------------------------
(***************************************************************************)
(* What holds of MemoriaStorage for every value of its constants, as long  *)
(* as the kernel deletes no process that is in swap (KeepsDevices): the    *)
(* frames of a process are its own, and the storage implements             *)
(* ProcessMemory, with faults of the swap file and with a memory size that *)
(* is no multiple of the page size included.                               *)
(*                                                                         *)
(* When the memory is a whole number of pages, moreover, the counter       *)
(* remainingMemory and the reservation bits agree in every state, and the  *)
(* two ways in which allocateMemory can go wrong after it has accepted a   *)
(* request cannot happen.                                                  *)
(***************************************************************************)
EXTENDS MemoriaStorage, FiniteSetTheorems, TLAPS

KeepsDevices == DeviceLoss = FALSE

\* The inductive invariant: the conjuncts need one another.  A creation keeps
\* FramesExclusive because the frames in use are reserved, a deletion keeps
\* UsedFramesReserved because frames are exclusive, and a process counts as
\* resident only when it has no block in the swap file.
IInv == TypeOK /\ FramesExclusive /\ UsedFramesReserved /\ OneSwapBlock /\ EntryComplete

-----------------------------------------------------------------------------
(* Allocation *)

LEMMA PagesAreNat ==
    ASSUME NEW size \in Nat
    PROVE  RequiredPages(size) \in Nat
  BY SizesAssumption DEF RequiredPages

LEMMA PageCountIsNat == PageCount \in [Procs -> Nat]
  BY SizesAssumption, PagesAreNat DEF PageCount

LEMMA FrameIsNat == Frame \subseteq Nat
  BY DEF Frame

LEMMA BytesAreNat ==
    ASSUME NEW n \in Nat
    PROVE  PageSize * n \in Nat
  BY SizesAssumption

\* First fit takes frames that were free, each of them once.
LEMMA FirstFitIsFresh ==
    ASSUME NEW n \in Nat, NEW bases \in [1 .. n -> Frame], FirstFit(bases, n)
    PROVE  /\ \A i \in 1 .. n : ~reservationBits[bases[i]]
           /\ \A i, j \in 1 .. n : bases[i] = bases[j] => i = j
  <1>1. \A i \in 1 .. n : bases[i] \in Free
    BY DEF FirstFit, Elements
  <1>2. ASSUME NEW i \in 1 .. n, NEW j \in 1 .. n, bases[i] = bases[j]
        PROVE  i = j
    <2>1. bases[i] \in Nat /\ bases[j] \in Nat
      BY FrameIsNat
    <2>2. ~(i < j) /\ ~(j < i)
      BY <1>2, <2>1 DEF FirstFit
    <2>. QED BY <2>2
  <1>. QED BY <1>1, <1>2 DEF Free

\* The pages that an allocation asks for are those the caller indexes.
LEMMA BlockPages ==
    ASSUME NEW n \in Nat
    PROVE  RequiredPages(PageSize * n) = n
  BY SizesAssumption DEF RequiredPages

\* A failed allocation moves the counter and takes bits, and clears none.
LEMMA FailureKeepsBits ==
    ASSUME TypeOK, NEW size \in Nat, AllocationFails(size)
    PROVE  /\ reservationBits' \in [Frame -> BOOLEAN]
           /\ remainingMemory' \in Int
           /\ reply' \in Answers
           /\ \A f \in Frame : reservationBits[f] => reservationBits'[f]
  <1>. USE SizesAssumption, PagesAreNat DEF TypeOK, Answers
  <1>0. PageSize * RequiredPages(size) \in Nat
    BY BytesAreNat
  <1>1. CASE Refused(size)
    BY <1>1 DEF Refused
  <1>2. CASE Panics(size)
    <2>1. remainingMemory' \in Int
      BY <1>0, <1>2 DEF Panics
    <2>2. reservationBits' = reservationBits /\ reply' = "panic"
      BY <1>2 DEF Panics
    <2>. QED BY <2>1, <2>2
  <1>3. CASE RunsShort(size)
    BY <1>0, <1>3 DEF RunsShort
  <1>. QED BY <1>1, <1>2, <1>3 DEF AllocationFails

\* A successful one takes fresh frames and nothing else.
LEMMA SuccessTakesFresh ==
    ASSUME TypeOK, NEW size \in Nat, NEW n \in Nat, NEW bases \in [1 .. n -> Frame],
           n = RequiredPages(size), Allocates(size, bases)
    PROVE  /\ reservationBits' \in [Frame -> BOOLEAN]
           /\ remainingMemory' \in Int
           /\ \A f \in Frame : reservationBits[f] => reservationBits'[f]
           /\ \A i \in 1 .. n : reservationBits'[bases[i]] /\ ~reservationBits[bases[i]]
           /\ \A i, j \in 1 .. n : bases[i] = bases[j] => i = j
  <1>1. FirstFit(bases, n)
    BY DEF Allocates
  <1>2. /\ \A i \in 1 .. n : ~reservationBits[bases[i]]
        /\ \A i, j \in 1 .. n : bases[i] = bases[j] => i = j
    BY <1>1, FirstFitIsFresh
  <1>3. reservationBits' = [f \in Frame |-> reservationBits[f] \/ f \in Elements(bases)]
    BY DEF Allocates
  <1>4. \A i \in 1 .. n : bases[i] \in Elements(bases)
    BY DEF Elements
  <1>5. remainingMemory' \in Int
    BY SizesAssumption DEF Allocates, TypeOK
  <1>. QED BY <1>2, <1>3, <1>4, <1>5 DEF TypeOK

-----------------------------------------------------------------------------
(* The invariant *)

LEMMA InitInv == Init => IInv
  <1>. SUFFICES ASSUME Init PROVE IInv
    OBVIOUS
  <1>1. TypeOK
    BY SizesAssumption DEF Init, TypeOK, PageValue, Answers
  <1>2. FramesExclusive /\ UsedFramesReserved
    BY DEF Init, FramesExclusive, UsedFramesReserved, Resident
  <1>3. OneSwapBlock /\ EntryComplete
    BY DEF Init, OneSwapBlock, EntryComplete
  <1>. QED BY <1>1, <1>2, <1>3 DEF IInv
\* The steps that hand no frame over: they take bits at most.
LEMMA SameOwners ==
    ASSUME IInv, UNCHANGED <<systemMemory, pageBases, swap>>,
           \A f \in Frame : reservationBits[f] => reservationBits'[f]
    PROVE  FramesExclusive' /\ UsedFramesReserved'
  <1>. USE DEF IInv, Resident
  <1>1. FramesExclusive'
    BY DEF FramesExclusive
  <1>2. \A p \in Procs : \A i \in DOMAIN pageBases[p] : pageBases[p][i] \in Frame
    BY DEF TypeOK
  <1>3. UsedFramesReserved'
    BY <1>2 DEF UsedFramesReserved, TypeOK
  <1>. QED BY <1>1, <1>3

\* The steps that hand p frames that were free.
LEMMA NewOwner ==
    ASSUME IInv, NEW p \in Procs, p \notin Resident, Resident' = Resident \union {p},
           NEW bases \in Seq(Frame), pageBases' = [pageBases EXCEPT ![p] = bases],
           \A f \in Frame : reservationBits[f] => reservationBits'[f],
           \A i \in DOMAIN bases : reservationBits'[bases[i]] /\ ~reservationBits[bases[i]],
           \A i, j \in DOMAIN bases : bases[i] = bases[j] => i = j
    PROVE  FramesExclusive' /\ UsedFramesReserved'
  <1>1. pageBases'[p] = bases /\ \A q \in Procs \ {p} : pageBases'[q] = pageBases[q]
    BY DEF IInv, TypeOK
  <1>2. /\ Resident \subseteq Procs \ {p}
        /\ \A q \in Resident : \A i \in DOMAIN pageBases[q] :
              pageBases[q][i] \in Frame /\ reservationBits[pageBases[q][i]]
    BY DEF IInv, UsedFramesReserved, Resident, TypeOK
  <1>3. FramesExclusive'
    <2>. SUFFICES ASSUME NEW q \in Resident', NEW r \in Resident',
                         NEW i \in DOMAIN pageBases'[q], NEW j \in DOMAIN pageBases'[r],
                         pageBases'[q][i] = pageBases'[r][j]
                  PROVE  q = r /\ i = j
      BY DEF FramesExclusive
    <2>1. CASE q = p /\ r = p
      BY <2>1, <1>1
    <2>2. CASE q # p /\ r = p
      BY <2>2, <1>1, <1>2
    <2>3. CASE q = p /\ r # p
      BY <2>3, <1>1, <1>2
    <2>4. CASE q # p /\ r # p
      BY <2>4, <1>1, <1>2 DEF IInv, FramesExclusive
    <2>. QED BY <2>1, <2>2, <2>3, <2>4
  <1>4. UsedFramesReserved'
    <2>. SUFFICES ASSUME NEW q \in Resident', NEW i \in DOMAIN pageBases'[q]
                  PROVE  reservationBits'[pageBases'[q][i]]
      BY DEF UsedFramesReserved
    <2>1. CASE q = p
      BY <2>1, <1>1
    <2>2. CASE q # p
      BY <2>2, <1>1, <1>2
    <2>. QED BY <2>1, <2>2
  <1>. QED BY <1>3, <1>4

\* The steps that take the frames of p away from it: only exclusive frames may
\* be cleared without touching another process.
LEMMA OldOwner ==
    ASSUME IInv, NEW p \in Resident, Resident' = Resident \ {p}, deallocateMemory(p),
           \A q \in Procs \ {p} : pageBases'[q] = pageBases[q]
    PROVE  FramesExclusive' /\ UsedFramesReserved'
  <1>1. /\ Resident \subseteq Procs
        /\ \A q \in Resident : \A i \in DOMAIN pageBases[q] :
              pageBases[q][i] \in Frame /\ reservationBits[pageBases[q][i]]
    BY DEF IInv, UsedFramesReserved, Resident, TypeOK
  <1>2. FramesExclusive'
    BY <1>1 DEF IInv, FramesExclusive
  <1>3. \A f \in Frame : reservationBits[f] /\ f \notin Elements(pageBases[p])
                           => reservationBits'[f]
    BY DEF deallocateMemory
  <1>4. \A q \in Resident \ {p} : \A i \in DOMAIN pageBases[q] :
           pageBases[q][i] \notin Elements(pageBases[p])
    BY DEF IInv, FramesExclusive, Elements
  <1>5. UsedFramesReserved'
    BY <1>1, <1>3, <1>4 DEF UsedFramesReserved
  <1>. QED BY <1>2, <1>5

LEMMA CreateProcessInv ==
    ASSUME IInv, NEW p \in Procs, CreateProcess(p)
    PROVE  IInv'
  <1>. USE DEF IInv
  <1>1. p \notin systemMemory /\ swap[p] = <<>> /\ stage[p] = "NEW"
    BY DEF CreateProcess, EntryComplete, OneSwapBlock
  <1>2. PICK bases \in [1 .. PageCount[p] -> Frame] :
           /\ IF Requirement[p] = 0
              THEN UNCHANGED <<reservationBits, remainingMemory>>
              ELSE Allocates(Requirement[p], bases)
           /\ pageBases' = [pageBases EXCEPT ![p] = bases]
    BY DEF CreateProcess
  <1>3. PageCount[p] \in Nat /\ PageCount[p] = RequiredPages(Requirement[p])
        /\ Requirement[p] \in Nat
    BY PageCountIsNat, SizesAssumption DEF PageCount
  <1>4. Requirement[p] = 0 => PageCount[p] = 0
    BY <1>3, SizesAssumption DEF RequiredPages
  <1>5. bases \in Seq(Frame) /\ Len(bases) = PageCount[p] /\ DOMAIN bases = 1 .. PageCount[p]
    BY <1>3
  <1>6. /\ reservationBits' \in [Frame -> BOOLEAN] /\ remainingMemory' \in Int
        /\ \A f \in Frame : reservationBits[f] => reservationBits'[f]
        /\ \A i \in DOMAIN bases : reservationBits'[bases[i]] /\ ~reservationBits[bases[i]]
        /\ \A i, j \in DOMAIN bases : bases[i] = bases[j] => i = j
    <2>1. CASE Requirement[p] = 0
      BY <2>1, <1>2, <1>4, <1>5 DEF TypeOK
    <2>2. CASE Requirement[p] # 0
      BY <2>2, <1>2, <1>3, <1>5, SuccessTakesFresh
    <2>. QED BY <2>1, <2>2
  <1>7. /\ systemMemory' = systemMemory \union {p} /\ swap' = swap
        /\ userMemory' = userMemory
        /\ stage' = [stage EXCEPT ![p] = "RAM"] /\ reply' = "ok"
    BY DEF CreateProcess
  <1>8. TypeOK'
    BY <1>2, <1>5, <1>6, <1>7 DEF TypeOK, Answers
  <1>9. /\ pageBases'[p] = bases /\ stage'[p] = "RAM"
        /\ \A q \in Procs \ {p} : pageBases'[q] = pageBases[q] /\ stage'[q] = stage[q]
    BY <1>2, <1>7 DEF TypeOK
  <1>10. p \notin Resident /\ Resident' = Resident \union {p}
    BY <1>1, <1>7 DEF Resident
  <1>11. FramesExclusive' /\ UsedFramesReserved'
    BY <1>2, <1>5, <1>6, <1>10, NewOwner
  <1>12. OneSwapBlock'
    BY <1>1, <1>7, <1>9 DEF OneSwapBlock
  <1>13. EntryComplete'
    BY <1>1, <1>5, <1>7, <1>9 DEF EntryComplete, TypeOK
  <1>. QED BY <1>8, <1>11, <1>12, <1>13

LEMMA CreateFailsInv ==
    ASSUME IInv, NEW p \in Procs, CreateFails(p)
    PROVE  IInv'
  <1>. USE DEF IInv
  <1>1. /\ reservationBits' \in [Frame -> BOOLEAN] /\ remainingMemory' \in Int
        /\ reply' \in Answers
        /\ \A f \in Frame : reservationBits[f] => reservationBits'[f]
    BY FailureKeepsBits, SizesAssumption DEF CreateFails
  <1>2. UNCHANGED <<userMemory, systemMemory, pageBases, swap, stage>>
    BY DEF CreateFails
  <1>3. TypeOK'
    BY <1>1, <1>2 DEF TypeOK
  <1>4. FramesExclusive' /\ UsedFramesReserved'
    BY <1>1, <1>2, SameOwners
  <1>5. OneSwapBlock' /\ EntryComplete'
    BY <1>2 DEF OneSwapBlock, EntryComplete
  <1>. QED BY <1>3, <1>4, <1>5
LEMMA DeallocationType ==
    ASSUME IInv, NEW p \in Procs, deallocateMemory(p)
    PROVE  reservationBits' \in [Frame -> BOOLEAN] /\ remainingMemory' \in Int
  <1>1. Len(pageBases[p]) \in Nat
    BY DEF IInv, TypeOK
  <1>2. PageSize * Len(pageBases[p]) \in Nat
    BY <1>1, BytesAreNat
  <1>3. reservationBits' \in [Frame -> BOOLEAN]
    BY DEF deallocateMemory
  <1>4. remainingMemory' \in Int
    BY <1>2 DEF deallocateMemory, IInv, TypeOK
  <1>. QED BY <1>3, <1>4

LEMMA DeleteProcessInv ==
    ASSUME IInv, KeepsDevices, NEW p \in Procs, DeleteProcess(p)
    PROVE  IInv'
  <1>. USE DEF IInv
  <1>1. p \in systemMemory /\ stage[p] = "RAM" /\ swap[p] = <<>>
    BY DEF DeleteProcess, KeepsDevices, OneSwapBlock
  <1>2. /\ deallocateMemory(p)
        /\ systemMemory' = systemMemory \ {p} /\ pageBases' = [pageBases EXCEPT ![p] = <<>>]
        /\ stage' = [stage EXCEPT ![p] = "EXIT"] /\ reply' = "ok"
        /\ userMemory' = userMemory /\ swap' = swap
    BY DEF DeleteProcess
  <1>3. TypeOK'
    BY <1>2, DeallocationType DEF TypeOK, Answers
  <1>4. /\ pageBases'[p] = <<>> /\ stage'[p] = "EXIT"
        /\ \A q \in Procs \ {p} : pageBases'[q] = pageBases[q] /\ stage'[q] = stage[q]
    BY <1>2 DEF TypeOK
  <1>5. p \in Resident /\ Resident' = Resident \ {p}
    BY <1>1, <1>2 DEF Resident
  <1>6. FramesExclusive' /\ UsedFramesReserved'
    BY <1>2, <1>4, <1>5, OldOwner
  <1>7. OneSwapBlock'
    BY <1>1, <1>2, <1>4 DEF OneSwapBlock
  <1>8. EntryComplete'
    BY <1>1, <1>2, <1>4 DEF EntryComplete, TypeOK
  <1>. QED BY <1>3, <1>6, <1>7, <1>8

\* What a process sees of itself is made of page values.
LEMMA PagesOfType ==
    ASSUME IInv, NEW p \in Procs
    PROVE  PagesOf(p) \in Seq(PageValue) /\ Len(PagesOf(p)) = Len(pageBases[p])
  <1>1. pageBases[p] \in Seq(Frame)
    BY DEF IInv, TypeOK
  <1>2. PagesOf(p) \in [1 .. Len(pageBases[p]) -> PageValue]
    BY <1>1 DEF PagesOf, IInv, TypeOK
  <1>. QED BY <1>1, <1>2

LEMMA SuspendProcessInv ==
    ASSUME IInv, NEW p \in Procs, SuspendProcess(p)
    PROVE  IInv'
  <1>. USE DEF IInv
  <1>1. p \in systemMemory /\ stage[p] = "RAM" /\ swap[p] = <<>>
    BY DEF SuspendProcess, OneSwapBlock
  <1>2. /\ UNCHANGED <<userMemory, systemMemory, pageBases>>
        /\ stage' = [stage EXCEPT ![p] = "SWAP"] /\ reply' = "ok"
    BY DEF SuspendProcess
  <1>3. stage'[p] = "SWAP" /\ \A q \in Procs \ {p} : stage'[q] = stage[q]
    BY <1>2 DEF TypeOK
  <1>4. EntryComplete'
    BY <1>1, <1>2, <1>3 DEF EntryComplete
  <1>5. CASE pageBases[p] = <<>>
    <2>1. UNCHANGED <<swap, reservationBits, remainingMemory>>
      BY <1>5 DEF SuspendProcess
    <2>2. TypeOK'
      BY <1>2, <2>1 DEF TypeOK, Answers
    <2>3. FramesExclusive' /\ UsedFramesReserved'
      BY <1>2, <2>1, SameOwners
    <2>4. OneSwapBlock'
      BY <1>1, <1>2, <1>3, <2>1 DEF OneSwapBlock
    <2>. QED BY <1>4, <2>2, <2>3, <2>4
  <1>6. CASE pageBases[p] # <<>>
    <2>1. swap' = [swap EXCEPT ![p] = Append(@, PagesOf(p))] /\ deallocateMemory(p)
      BY <1>6 DEF SuspendProcess
    <2>2. PagesOf(p) \in Seq(PageValue) /\ Len(PagesOf(p)) = Len(pageBases[p])
      BY PagesOfType
    <2>3. swap'[p] = <<PagesOf(p)>> /\ \A q \in Procs \ {p} : swap'[q] = swap[q]
      <3>1. /\ swap'[p] = Append(swap[p], PagesOf(p))
            /\ \A q \in Procs \ {p} : swap'[q] = swap[q]
        BY <2>1 DEF TypeOK
      <3>2. Append(<<>>, PagesOf(p)) = <<PagesOf(p)>>
        BY <2>2
      <3>. QED BY <1>1, <3>1, <3>2
    <2>4. TypeOK'
      <3>1. Append(swap[p], PagesOf(p)) \in Seq(Seq(PageValue))
        BY <2>2 DEF TypeOK
      <3>2. swap' \in [Procs -> Seq(Seq(PageValue))]
        BY <2>1, <3>1 DEF TypeOK
      <3>3. /\ reservationBits' \in [Frame -> BOOLEAN] /\ remainingMemory' \in Int
        BY <2>1, DeallocationType
      <3>. QED BY <1>2, <3>2, <3>3 DEF TypeOK, Answers
    <2>5. p \in Resident /\ Resident' = Resident \ {p}
      <3>1. <<PagesOf(p)>> # <<>> /\ systemMemory \subseteq Procs
        BY DEF TypeOK
      <3>. QED BY <1>1, <1>2, <2>3, <3>1 DEF Resident
    <2>6. FramesExclusive' /\ UsedFramesReserved'
      BY <1>2, <2>1, <2>5, OldOwner
    <2>7. OneSwapBlock'
      <3>1. Len(<<PagesOf(p)>>) = 1 /\ Head(<<PagesOf(p)>>) = PagesOf(p)
        BY <2>2
      <3>2. pageBases' = pageBases /\ systemMemory' = systemMemory
        BY <1>2
      <3>. SUFFICES ASSUME NEW q \in Procs
                    PROVE  /\ Len(swap'[q]) <= 1
                           /\ swap'[q] # <<>> => stage'[q] \in {"SWAP", "EXIT"}
                           /\ q \in systemMemory /\ swap'[q] # <<>> =>
                                 pageBases[q] # <<>> /\ Len(Head(swap'[q])) = Len(pageBases[q])
        BY <3>2 DEF OneSwapBlock
      <3>3. CASE q = p
        BY <3>3, <1>3, <1>6, <2>2, <2>3, <3>1
      <3>4. CASE q # p
        BY <3>4, <1>3, <2>3 DEF OneSwapBlock
      <3>. QED BY <3>3, <3>4
    <2>. QED BY <1>4, <2>4, <2>6, <2>7
  <1>. QED BY <1>5, <1>6
\* A block is a number of bytes, whatever may become of the request for it.
LEMMA BlockBytesNat ==
    ASSUME IInv, NEW p \in Procs, FoundInSwap(p)
    PROVE  /\ Head(swap[p]) \in Seq(PageValue) /\ Len(Head(swap[p])) \in Nat
           /\ BlockBytes(p) \in Nat /\ RequiredPages(BlockBytes(p)) = Len(Head(swap[p]))
  <1>1. Head(swap[p]) \in Seq(PageValue)
    BY DEF IInv, TypeOK, FoundInSwap
  <1>. QED BY <1>1, BlockPages, BytesAreNat DEF BlockBytes

LEMMA UnSuspendProcessInv ==
    ASSUME IInv, NEW p \in Procs, UnSuspendProcess(p)
    PROVE  IInv'
  <1>. USE DEF IInv
  <1>1. /\ p \in systemMemory /\ stage[p] = "SWAP" /\ swap[p] # <<>>
        /\ Len(swap[p]) <= 1 /\ Len(Head(swap[p])) = Len(pageBases[p])
    BY DEF removeFromSwap, UnSuspendProcess, FoundInSwap, OneSwapBlock
  <1> DEFINE block == Head(swap[p])
  <1>2. Tail(swap[p]) = <<>>
    BY <1>1 DEF TypeOK
  <1>3. /\ block \in Seq(PageValue) /\ Len(block) \in Nat
        /\ BlockBytes(p) \in Nat /\ RequiredPages(BlockBytes(p)) = Len(block)
    BY BlockBytesNat DEF removeFromSwap, UnSuspendProcess
  <1>4. PICK bases \in [1 .. Len(block) -> Frame] :
          /\ Allocates(BlockBytes(p), bases)
          /\ pageBases' = [pageBases EXCEPT ![p] = bases]
          /\ userMemory' = [f \in Frame |->
                IF \E i \in DOMAIN bases : bases[i] = f
                THEN block[CHOOSE i \in DOMAIN bases : bases[i] = f]
                ELSE userMemory[f]]
    BY DEF removeFromSwap, UnSuspendProcess
  <1>5. /\ systemMemory' = systemMemory /\ swap' = [swap EXCEPT ![p] = Tail(@)]
        /\ stage' = [stage EXCEPT ![p] = "RAM"] /\ reply' = "ok"
    BY DEF removeFromSwap, UnSuspendProcess
  <1>6. bases \in Seq(Frame) /\ Len(bases) = Len(block) /\ DOMAIN bases = 1 .. Len(block)
    BY <1>3
  <1>7. /\ reservationBits' \in [Frame -> BOOLEAN] /\ remainingMemory' \in Int
        /\ \A f \in Frame : reservationBits[f] => reservationBits'[f]
        /\ \A i \in DOMAIN bases : reservationBits'[bases[i]] /\ ~reservationBits[bases[i]]
        /\ \A i, j \in DOMAIN bases : bases[i] = bases[j] => i = j
    <2>1. PICK n \in Nat : n = Len(block)
      BY <1>3
    <2>2. bases \in [1 .. n -> Frame] /\ n = RequiredPages(BlockBytes(p)) /\ DOMAIN bases = 1 .. n
      BY <1>3, <1>6, <2>1
    <2>3. TypeOK /\ BlockBytes(p) \in Nat /\ Allocates(BlockBytes(p), bases)
      BY <1>3, <1>4
    <2>. QED BY <2>2, <2>3, SuccessTakesFresh
  <1>8. /\ pageBases'[p] = bases /\ stage'[p] = "RAM" /\ swap'[p] = <<>>
        /\ \A q \in Procs \ {p} : /\ pageBases'[q] = pageBases[q] /\ stage'[q] = stage[q]
                                  /\ swap'[q] = swap[q]
    BY <1>2, <1>4, <1>5 DEF TypeOK
  <1>9. userMemory' \in [Frame -> PageValue]
    <2>1. ASSUME NEW f \in Frame, \E i \in DOMAIN bases : bases[i] = f
          PROVE  block[CHOOSE i \in DOMAIN bases : bases[i] = f] \in PageValue
      BY <1>3, <1>6, <2>1
    <2>. QED BY <1>4, <2>1 DEF TypeOK
  <1>10. TypeOK'
    <2>1. pageBases' \in [Procs -> Seq(Frame)]
      BY <1>4, <1>6 DEF TypeOK
    <2>2. Tail(swap[p]) \in Seq(Seq(PageValue))
      BY <1>1 DEF TypeOK
    <2>3. swap' \in [Procs -> Seq(Seq(PageValue))]
      BY <1>5, <2>2 DEF TypeOK
    <2>. QED BY <1>5, <1>7, <1>9, <2>1, <2>3 DEF TypeOK, Answers
  <1>11. p \notin Resident /\ Resident' = Resident \union {p}
    BY <1>1, <1>5, <1>8 DEF Resident, TypeOK
  <1>12. FramesExclusive' /\ UsedFramesReserved'
    BY <1>4, <1>6, <1>7, <1>11, NewOwner
  <1>13. OneSwapBlock'
    BY <1>1, <1>5, <1>8 DEF OneSwapBlock
  <1>14. EntryComplete'
    <2>1. systemMemory' = systemMemory
      BY <1>1, <1>5 DEF EntryComplete
    <2>2. systemMemory' = {q \in Procs : stage'[q] \in {"RAM", "SWAP"}}
      BY <1>1, <1>5, <1>8, <2>1 DEF EntryComplete
    <2>. QED BY <1>1, <1>6, <1>8, <2>1, <2>2 DEF EntryComplete, TypeOK
  <1>. QED BY <1>10, <1>12, <1>13, <1>14

\* The answers of suspend and unsuspend that move no frame and no block.
LEMMA StageOnlyInv ==
    ASSUME IInv, NEW p \in Procs,
           SuspendDiskFault(p) \/ UnSuspendNothing(p) \/ UnSuspendNotFound(p)
    PROVE  IInv'
  <1>. USE DEF IInv
  <1>1. /\ UNCHANGED storage /\ reply' \in Answers /\ p \in systemMemory
        /\ stage' = [stage EXCEPT ![p] = "SWAP"] \/ stage' = stage
           \/ (stage' = [stage EXCEPT ![p] = "RAM"] /\ swap[p] = <<>>)
    BY DEF SuspendDiskFault, UnSuspendNothing, UnSuspendNotFound, OneSwapBlock, Answers
  <1>2. TypeOK'
    BY <1>1 DEF TypeOK, storage
  <1>3. FramesExclusive' /\ UsedFramesReserved'
    BY <1>1, SameOwners DEF storage
  <1>4. \A q \in Procs \ {p} : stage'[q] = stage[q]
    BY <1>1 DEF TypeOK
  <1>5. stage'[p] \in {"RAM", "SWAP"} /\ (swap[p] # <<>> => stage'[p] = "SWAP")
    BY <1>1 DEF TypeOK, EntryComplete, OneSwapBlock
  <1>6. OneSwapBlock'
    BY <1>1, <1>4, <1>5 DEF OneSwapBlock, storage
  <1>7. EntryComplete'
    BY <1>1, <1>4, <1>5 DEF EntryComplete, storage
  <1>. QED BY <1>2, <1>3, <1>6, <1>7

LEMMA UnSuspendRefusedInv ==
    ASSUME IInv, NEW p \in Procs, UnSuspendFails(p) \/ UnSuspendDiskFault(p)
    PROVE  IInv'
  <1>. USE DEF IInv
  <1>1. FoundInSwap(p) /\ UNCHANGED <<userMemory, systemMemory, pageBases, swap, stage>>
    BY DEF UnSuspendFails, UnSuspendDiskFault
  <1>2. /\ reservationBits' \in [Frame -> BOOLEAN] /\ remainingMemory' \in Int
        /\ reply' \in Answers
        /\ \A f \in Frame : reservationBits[f] => reservationBits'[f]
    <2>1. CASE UnSuspendFails(p)
      BY <1>1, <2>1, BlockBytesNat, FailureKeepsBits DEF UnSuspendFails
    <2>2. CASE UnSuspendDiskFault(p)
      <3>1. PICK bases \in [1 .. Len(Head(swap[p])) -> Frame] : Allocates(BlockBytes(p), bases)
        BY <2>2 DEF UnSuspendDiskFault
      <3>2. reply' \in Answers
        BY <2>2 DEF UnSuspendDiskFault, Answers
      <3>. QED BY <1>1, <3>1, <3>2, BlockBytesNat, SuccessTakesFresh
    <2>. QED BY <2>1, <2>2
  <1>3. TypeOK'
    BY <1>1, <1>2 DEF TypeOK
  <1>4. FramesExclusive' /\ UsedFramesReserved'
    BY <1>1, <1>2, SameOwners
  <1>5. OneSwapBlock' /\ EntryComplete'
    BY <1>1 DEF OneSwapBlock, EntryComplete
  <1>. QED BY <1>3, <1>4, <1>5

LEMMA WriteInv ==
    ASSUME IInv, NEW p \in Procs, WriteToMemory(p) \/ WritePage(p)
    PROVE  IInv'
  <1>. USE DEF IInv
  <1>1. /\ UNCHANGED <<reservationBits, remainingMemory, systemMemory, pageBases, swap, stage>>
        /\ reply' = "ok"
    BY DEF WriteToMemory, WritePage
  <1>2. userMemory' \in [Frame -> PageValue]
    <2>1. CASE WritePage(p)
      BY <2>1 DEF WritePage, TypeOK
    <2>2. CASE WriteToMemory(p)
      <3>1. PICK i \in DOMAIN pageBases[p], delta \in 0 .. (PageSize - 1), value \in Byte :
               userMemory' = [userMemory EXCEPT ![pageBases[p][i]] = [@ EXCEPT ![delta] = value]]
        BY <2>2 DEF WriteToMemory
      <3>2. pageBases[p][i] \in Frame
        BY DEF TypeOK
      <3>3. userMemory[pageBases[p][i]] \in PageValue
        BY <3>2 DEF TypeOK
      <3>4. [userMemory[pageBases[p][i]] EXCEPT ![delta] = value] \in PageValue
        BY <3>3 DEF PageValue
      <3>. QED BY <3>1, <3>4 DEF TypeOK
    <2>. QED BY <2>1, <2>2
  <1>3. TypeOK'
    BY <1>1, <1>2 DEF TypeOK, Answers
  <1>4. FramesExclusive' /\ UsedFramesReserved'
    BY <1>1, SameOwners
  <1>5. OneSwapBlock' /\ EntryComplete'
    BY <1>1 DEF OneSwapBlock, EntryComplete
  <1>. QED BY <1>3, <1>4, <1>5

LEMMA NextInv ==
    ASSUME IInv, KeepsDevices, [Next]_vars
    PROVE  IInv'
  <1>1. ASSUME NEW p \in Procs, CreateProcess(p) PROVE IInv'
    BY <1>1, CreateProcessInv
  <1>2. ASSUME NEW p \in Procs, CreateFails(p) PROVE IInv'
    BY <1>2, CreateFailsInv
  <1>3. ASSUME NEW p \in Procs, DeleteProcess(p) PROVE IInv'
    BY <1>3, DeleteProcessInv
  <1>4. ASSUME NEW p \in Procs, SuspendProcess(p) PROVE IInv'
    BY <1>4, SuspendProcessInv
  <1>5. ASSUME NEW p \in Procs, UnSuspendProcess(p) PROVE IInv'
    BY <1>5, UnSuspendProcessInv
  <1>6. ASSUME NEW p \in Procs,
               SuspendDiskFault(p) \/ UnSuspendNothing(p) \/ UnSuspendNotFound(p)
        PROVE  IInv'
    BY <1>6, StageOnlyInv
  <1>7. ASSUME NEW p \in Procs, UnSuspendFails(p) \/ UnSuspendDiskFault(p) PROVE IInv'
    BY <1>7, UnSuspendRefusedInv
  <1>8. ASSUME NEW p \in Procs, WriteToMemory(p) \/ WritePage(p) PROVE IInv'
    BY <1>8, WriteInv
  <1>9. CASE UNCHANGED vars
    BY <1>9 DEF IInv, TypeOK, FramesExclusive, UsedFramesReserved, OneSwapBlock,
                EntryComplete, Resident, vars, storage
  <1>. QED BY <1>1, <1>2, <1>3, <1>4, <1>5, <1>6, <1>7, <1>8, <1>9 DEF Next

LEMMA InvariantHolds ==
    ASSUME KeepsDevices
    PROVE  Spec => []IInv
  <1>1. Init => IInv
    BY InitInv
  <1>2. IInv /\ [Next]_vars => IInv'
    BY NextInv
  <1>. QED BY <1>1, <1>2, PTL DEF Spec

\* Type correctness of the storage, whatever the sizes and the faults.
THEOREM StorageTypeOK ==
    ASSUME KeepsDevices
    PROVE  Spec => []TypeOK
  BY InvariantHolds, PTL DEF IInv

\* No two processes in memory share a frame, and no frame in use is on offer to
\* allocateMemory.
THEOREM FramesNeverShared ==
    ASSUME KeepsDevices
    PROVE  Spec => [](FramesExclusive /\ UsedFramesReserved)
  BY InvariantHolds, PTL DEF IInv

\* The swap file holds at most one block of a process, with all of its pages.
THEOREM SwapHoldsOneBlock ==
    ASSUME KeepsDevices
    PROVE  Spec => []OneSwapBlock
  BY InvariantHolds, PTL DEF IInv

\* The entry of a process is there exactly while the kernel owns it, in memory or in swap,
\* with all the pages it asked for.
THEOREM EntriesAreComplete ==
    ASSUME KeepsDevices
    PROVE  Spec => []EntryComplete
  BY InvariantHolds, PTL DEF IInv

-----------------------------------------------------------------------------
(* The storage implements ProcessMemory *)

LEMMA InitRefines == Init => Promise!Init
  BY DEF Init, Promise!Init, contents

\* A step that leaves entry, block and frames of q as they were is unseen by q.
LEMMA Unseen ==
    ASSUME NEW q \in Procs,
           q \in systemMemory' <=> q \in systemMemory,
           pageBases'[q] = pageBases[q], swap'[q] = swap[q],
           q \in Resident => \A i \in DOMAIN pageBases[q] :
                                userMemory'[pageBases[q][i]] = userMemory[pageBases[q][i]]
    PROVE  contents'[q] = contents[q]
  BY DEF contents, PagesOf, Resident

LEMMA CreateProcessRefines ==
    ASSUME IInv, IInv', NEW p \in Procs, CreateProcess(p)
    PROVE  Promise!Admit(p)
  <1>. USE DEF IInv
  <1>1. p \notin systemMemory /\ swap[p] = <<>> /\ stage[p] = "NEW"
    BY DEF CreateProcess, EntryComplete, OneSwapBlock
  <1>2. /\ stage' = [stage EXCEPT ![p] = "RAM"] /\ systemMemory' = systemMemory \union {p}
        /\ UNCHANGED <<userMemory, swap>>
        /\ \A q \in Procs \ {p} : pageBases'[q] = pageBases[q]
    BY DEF CreateProcess, TypeOK
  <1>3. \A q \in Procs \ {p} : contents'[q] = contents[q]
    BY <1>2, Unseen
  <1>4. contents'[p] = PagesOf(p)'
    BY <1>1, <1>2 DEF contents
  <1>5. /\ pageBases'[p] \in Seq(Frame) /\ Len(pageBases'[p]) = PageCount[p]
        /\ userMemory' \in [Frame -> PageValue]
    BY <1>1, <1>2 DEF TypeOK, EntryComplete
  <1>6. PagesOf(p)' \in [1 .. PageCount[p] -> PageValue]
    BY <1>5 DEF PagesOf
  <1>7. contents' = [contents EXCEPT ![p] = PagesOf(p)']
    BY <1>3, <1>4 DEF contents
  <1>. QED BY <1>1, <1>2, <1>6, <1>7 DEF Promise!Admit

LEMMA DeleteProcessRefines ==
    ASSUME IInv, KeepsDevices, NEW p \in Procs, DeleteProcess(p)
    PROVE  Promise!Leave(p)
  <1>. USE DEF IInv
  <1>1. /\ stage[p] = "RAM" /\ stage' = [stage EXCEPT ![p] = "EXIT"]
        /\ systemMemory' = systemMemory \ {p} /\ UNCHANGED <<userMemory, swap>>
        /\ \A q \in Procs \ {p} : pageBases'[q] = pageBases[q]
    BY DEF DeleteProcess, KeepsDevices, TypeOK
  <1>2. \A q \in Procs \ {p} : contents'[q] = contents[q]
    BY <1>1, Unseen
  <1>3. contents'[p] = <<>>
    BY <1>1 DEF contents
  <1>4. contents' = [contents EXCEPT ![p] = <<>>]
    BY <1>2, <1>3 DEF contents
  <1>. QED BY <1>1, <1>4 DEF Promise!Leave

\* A suspension moves the pages of p to its block and changes what nobody sees.
LEMMA SuspendProcessRefines ==
    ASSUME IInv, NEW p \in Procs, SuspendProcess(p)
    PROVE  Promise!SwapOut(p)
  <1>. USE DEF IInv
  <1>1. /\ stage[p] = "RAM" /\ p \in systemMemory /\ swap[p] = <<>>
        /\ stage' = [stage EXCEPT ![p] = "SWAP"]
        /\ UNCHANGED <<userMemory, systemMemory, pageBases>>
    BY DEF SuspendProcess, OneSwapBlock
  <1>2. ASSUME NEW q \in Procs
        PROVE  contents'[q] = contents[q]
    <2>1. CASE swap'[q] = swap[q]
      BY <1>1, <2>1, Unseen
    <2>2. CASE swap'[q] # swap[q]
      <3>1. /\ q = p
            /\ swap' = [swap EXCEPT ![p] = Append(@, PagesOf(p))]
        BY <2>2 DEF SuspendProcess, TypeOK
      <3>2. PagesOf(p) \in Seq(PageValue)
        BY PagesOfType
      <3>3. swap'[p] = Append(<<>>, PagesOf(p))
        BY <1>1, <3>1 DEF TypeOK
      <3>4. swap'[p] # <<>> /\ Head(swap'[p]) = PagesOf(p)
        BY <3>2, <3>3
      <3>. QED BY <1>1, <3>1, <3>4 DEF contents
    <2>. QED BY <2>1, <2>2
  <1>3. contents' = contents
    BY <1>2 DEF contents
  <1>. QED BY <1>1, <1>3 DEF Promise!SwapOut

\* The way back writes the block over frames that nobody was using.
LEMMA UnSuspendProcessRefines ==
    ASSUME IInv, IInv', NEW p \in Procs, UnSuspendProcess(p)
    PROVE  Promise!SwapIn(p)
  <1>. USE DEF IInv
  <1>1. FoundInSwap(p) /\ Len(swap[p]) <= 1 /\ swap[p] \in Seq(Seq(PageValue))
    BY DEF removeFromSwap, UnSuspendProcess, OneSwapBlock, TypeOK
  <1> DEFINE block == Head(swap[p])
  <1>2. PICK bases \in [1 .. Len(block) -> Frame] :
          /\ Allocates(BlockBytes(p), bases)
          /\ pageBases' = [pageBases EXCEPT ![p] = bases]
          /\ userMemory' = [f \in Frame |->
                IF \E i \in DOMAIN bases : bases[i] = f
                THEN block[CHOOSE i \in DOMAIN bases : bases[i] = f]
                ELSE userMemory[f]]
    BY DEF removeFromSwap, UnSuspendProcess
  <1>3. /\ block \in Seq(PageValue) /\ Len(block) \in Nat
        /\ BlockBytes(p) \in Nat /\ RequiredPages(BlockBytes(p)) = Len(block)
    BY <1>1, BlockBytesNat
  <1>4. PICK n \in Nat : n = Len(block)
    BY <1>3
  <1>5. bases \in [1 .. n -> Frame] /\ DOMAIN bases = 1 .. n
    BY <1>4
  <1>6. /\ \A i \in 1 .. n : ~reservationBits[bases[i]]
        /\ \A i, j \in 1 .. n : bases[i] = bases[j] => i = j
    <2>1. /\ TypeOK /\ BlockBytes(p) \in Nat /\ n = RequiredPages(BlockBytes(p))
          /\ Allocates(BlockBytes(p), bases)
      BY <1>2, <1>3, <1>4
    <2>2. FirstFit(bases, n)
      BY <2>1 DEF Allocates
    <2>. QED BY <1>5, <2>2, FirstFitIsFresh
  <1>7. /\ systemMemory' = systemMemory /\ swap' = [swap EXCEPT ![p] = Tail(@)]
        /\ stage' = [stage EXCEPT ![p] = "RAM"]
    BY DEF removeFromSwap, UnSuspendProcess
  <1>8. ASSUME NEW q \in Procs \ {p}
        PROVE  contents'[q] = contents[q]
    <2>1. pageBases'[q] = pageBases[q] /\ swap'[q] = swap[q]
      BY <1>2, <1>7 DEF TypeOK
    <2>2. ASSUME q \in Resident, NEW i \in DOMAIN pageBases[q]
          PROVE  userMemory'[pageBases[q][i]] = userMemory[pageBases[q][i]]
      <3>1. pageBases[q][i] \in Frame /\ reservationBits[pageBases[q][i]]
        BY <2>2 DEF TypeOK, UsedFramesReserved
      <3>2. ~ \E j \in DOMAIN bases : bases[j] = pageBases[q][i]
        BY <1>5, <1>6, <3>1
      <3>. QED BY <1>2, <3>1, <3>2
    <2>. QED BY <1>7, <2>1, <2>2, Unseen
  <1>9. contents'[p] = contents[p]
    <2>1. contents[p] = block
      BY <1>1 DEF contents, FoundInSwap
    <2>2. Tail(swap[p]) = <<>>
      BY <1>1 DEF FoundInSwap
    <2>3. swap'[p] = <<>> /\ pageBases'[p] = bases
      BY <1>2, <1>7, <2>2 DEF TypeOK
    <2>4. contents'[p] = [i \in DOMAIN bases |-> userMemory'[bases[i]]]
      BY <1>1, <1>7, <2>3 DEF contents, PagesOf, FoundInSwap
    <2>5. ASSUME NEW i \in 1 .. n
          PROVE  userMemory'[bases[i]] = block[i]
      <3>1. (CHOOSE j \in DOMAIN bases : bases[j] = bases[i]) = i
        BY <1>5, <1>6
      <3>. QED BY <1>2, <1>5, <3>1
    <2>6. block = [i \in 1 .. n |-> block[i]]
      BY <1>3, <1>4
    <2>. QED BY <1>5, <2>1, <2>4, <2>5, <2>6
  <1>10. contents' = contents
    BY <1>8, <1>9 DEF contents
  <1>. QED BY <1>1, <1>7, <1>10 DEF Promise!SwapIn, FoundInSwap

\* A write to one frame of p is a write to one page of p, and of nobody else.
LEMMA FrameWriteRefines ==
    ASSUME IInv, NEW p \in Procs, p \in systemMemory, stage[p] = "RAM",
           NEW i \in DOMAIN pageBases[p], NEW page \in PageValue,
           userMemory' = [userMemory EXCEPT ![pageBases[p][i]] = page],
           UNCHANGED <<systemMemory, pageBases, swap, stage>>
    PROVE  Promise!Write(p)
  <1>. USE DEF IInv
  <1>1. swap[p] = <<>> /\ p \in Resident
    BY DEF OneSwapBlock, Resident
  <1>2. /\ contents[p] = PagesOf(p) /\ contents'[p] = PagesOf(p)'
        /\ i \in DOMAIN contents[p]
    BY <1>1 DEF contents, PagesOf
  <1>3. \A q \in Procs : \A j \in DOMAIN pageBases[q] : pageBases[q][j] \in Frame
    BY DEF TypeOK
  <1>4. ASSUME NEW q \in Procs \ {p}
        PROVE  contents'[q] = contents[q]
    <2>1. ASSUME q \in Resident, NEW j \in DOMAIN pageBases[q]
          PROVE  userMemory'[pageBases[q][j]] = userMemory[pageBases[q][j]]
      <3>1. pageBases[q][j] # pageBases[p][i]
        BY <1>1, <2>1 DEF FramesExclusive
      <3>. QED BY <1>3, <3>1 DEF TypeOK
    <2>. QED BY <2>1, Unseen
  <1>5. PagesOf(p)' = [PagesOf(p) EXCEPT ![i] = page]
    <2>1. ASSUME NEW j \in DOMAIN pageBases[p]
          PROVE  userMemory'[pageBases[p][j]] =
                    IF j = i THEN page ELSE userMemory[pageBases[p][j]]
      <3>1. j # i => pageBases[p][j] # pageBases[p][i]
        BY <1>1 DEF FramesExclusive
      <3>. QED BY <1>3, <3>1 DEF TypeOK
    <2>. QED BY <2>1 DEF PagesOf
  <1>6. /\ contents = [q \in Procs |-> contents[q]]
        /\ contents' = [q \in Procs |-> contents'[q]]
    BY DEF contents
  <1>7. \A q \in Procs : contents'[q] =
          IF q = p THEN [contents[p] EXCEPT ![i] = page] ELSE contents[q]
    BY <1>2, <1>4, <1>5
  <1>8. contents' = [contents EXCEPT ![p] = [@ EXCEPT ![i] = page]]
    BY <1>6, <1>7
  <1>. QED BY <1>2, <1>8 DEF Promise!Write

LEMMA WriteRefines ==
    ASSUME IInv, NEW p \in Procs, WriteToMemory(p) \/ WritePage(p)
    PROVE  Promise!Write(p)
  <1>. USE DEF IInv
  <1>1. /\ p \in systemMemory /\ stage[p] = "RAM"
        /\ UNCHANGED <<systemMemory, pageBases, swap, stage>>
    BY DEF WriteToMemory, WritePage
  <1>2. CASE WritePage(p)
    BY <1>1, <1>2, FrameWriteRefines DEF WritePage
  <1>3. CASE WriteToMemory(p)
    <2>1. PICK i \in DOMAIN pageBases[p], delta \in 0 .. (PageSize - 1), value \in Byte :
             userMemory' = [userMemory EXCEPT ![pageBases[p][i]] = [@ EXCEPT ![delta] = value]]
      BY <1>3 DEF WriteToMemory
    <2>2. userMemory[pageBases[p][i]] \in PageValue
      BY DEF TypeOK
    <2>3. [userMemory[pageBases[p][i]] EXCEPT ![delta] = value] \in PageValue
      BY <2>2 DEF PageValue
    <2>. QED BY <1>1, <2>1, <2>3, FrameWriteRefines
  <1>. QED BY <1>2, <1>3

\* The remaining steps touch neither entry, block nor bytes.
LEMMA QuietSteps ==
    ASSUME UNCHANGED <<userMemory, systemMemory, pageBases, swap>>
    PROVE  contents' = contents
  BY DEF contents, PagesOf

LEMMA NextRefines ==
    ASSUME KeepsDevices, IInv, IInv', [Next]_vars
    PROVE  [Promise!Next]_(Promise!vars)
  <1>. USE DEF Promise!Next
  <1>1. ASSUME NEW p \in Procs, CreateProcess(p) PROVE Promise!Next
    BY <1>1, CreateProcessRefines
  <1>2. ASSUME NEW p \in Procs, DeleteProcess(p) PROVE Promise!Next
    BY <1>2, DeleteProcessRefines
  <1>3. ASSUME NEW p \in Procs, SuspendProcess(p) PROVE Promise!Next
    BY <1>3, SuspendProcessRefines
  <1>4. ASSUME NEW p \in Procs, UnSuspendProcess(p) PROVE Promise!Next
    BY <1>4, UnSuspendProcessRefines
  <1>5. ASSUME NEW p \in Procs, SuspendDiskFault(p) PROVE Promise!Next
    BY <1>5, QuietSteps DEF SuspendDiskFault, storage, Promise!SwapOut
  <1>6. ASSUME NEW p \in Procs, UnSuspendNothing(p) PROVE Promise!Next
    BY <1>6, QuietSteps DEF UnSuspendNothing, storage, Promise!SwapIn
  <1>7. ASSUME NEW p \in Procs, WriteToMemory(p) \/ WritePage(p) PROVE Promise!Next
    BY <1>7, WriteRefines
  <1>8. ASSUME NEW p \in Procs,
               \/ CreateFails(p) \/ UnSuspendFails(p)
               \/ UnSuspendDiskFault(p) \/ UnSuspendNotFound(p)
        PROVE  UNCHANGED Promise!vars
    <2>1. UNCHANGED <<userMemory, systemMemory, pageBases, swap, stage>>
      BY <1>8 DEF CreateFails, UnSuspendFails, UnSuspendDiskFault, UnSuspendNotFound, storage
    <2>. QED BY <2>1, QuietSteps DEF Promise!vars
  <1>9. CASE UNCHANGED vars
    BY <1>9, QuietSteps DEF vars, storage, Promise!vars
  <1>. QED BY <1>1, <1>2, <1>3, <1>4, <1>5, <1>6, <1>7, <1>8, <1>9 DEF Next

\* Every process sees a memory of its own: frames, first fit, swap file and the
\* faults of it are invisible in what it reads and writes.
THEOREM StorageImplementsProcessMemory ==
    ASSUME KeepsDevices
    PROVE  Spec => PrivatePages
  <1>1. Init => Promise!Init
    BY InitRefines
  <1>2. IInv /\ IInv' /\ [Next]_vars => [Promise!Next]_(Promise!vars)
    BY NextRefines
  <1>3. Spec => []IInv
    BY InvariantHolds
  <1>. QED BY <1>1, <1>2, <1>3, PTL DEF Spec, PrivatePages, Promise!Spec

-----------------------------------------------------------------------------
(* The counter and the reservation bits *)

WholePages == MemorySize = PageSize * nPages

\* CounterAgrees rests on IInv: the frames that a deallocation gives back are
\* counted once because they are exclusive and were reserved.
AInv == IInv /\ CounterAgrees /\ AllocationNeverRunsShort

LEMMA FreeIsFinite ==
    /\ IsFiniteSet(Free) /\ Cardinality(Free) \in Nat
  <1>1. nPages \in Int
    BY SizesAssumption DEF nPages
  <1>2. IsFiniteSet(Frame)
    BY <1>1, FS_Interval DEF Frame
  <1>3. Free \in SUBSET Frame
    BY DEF Free
  <1>4. IsFiniteSet(Free)
    BY <1>2, <1>3, FS_Subset
  <1>. QED BY <1>4, FS_CardinalityType

\* A run of n distinct frames is a set of n frames.
LEMMA DistinctElements ==
    ASSUME NEW n \in Nat, NEW S, NEW bases \in [1 .. n -> S],
           \A i, j \in 1 .. n : bases[i] = bases[j] => i = j
    PROVE  IsFiniteSet(Elements(bases)) /\ Cardinality(Elements(bases)) = n
  <1>1. bases \in Bijection(1 .. n, Elements(bases))
    BY DEF Bijection, Injection, Surjection, IsInjective, Elements
  <1>2. ExistsBijection(1 .. n, Elements(bases))
    BY <1>1 DEF ExistsBijection
  <1>3. IsFiniteSet(1 .. n) /\ Cardinality(1 .. n) = n
    BY FS_Interval
  <1>. QED BY <1>2, <1>3, FS_Bijection

\* A request that passes the check finds its pages.
LEMMA RequestFits ==
    ASSUME CounterAgrees, NEW size \in Nat, size <= remainingMemory
    PROVE  /\ RequiredPages(size) \in Nat /\ RequiredPages(size) <= Cardinality(Free)
           /\ PageSize * Cardinality(Free) - PageSize * RequiredPages(size) >= 0
  <1>1. Cardinality(Free) \in Nat
    BY FreeIsFinite
  <1> DEFINE k == Cardinality(Free)
             n == RequiredPages(size)
  <1>2. k \in Nat /\ size <= PageSize * k
    BY <1>1 DEF CounterAgrees
  <1>3. n \in Nat
    BY PagesAreNat
  <1>4. n <= k
    <2>. HIDE DEF k
    <2>. QED BY <1>2, SizesAssumption DEF RequiredPages
  <1>5. PageSize * k - PageSize * n >= 0
    <2>. HIDE DEF k, n
    <2>. QED BY <1>2, <1>3, <1>4, SizesAssumption
  <1>. QED BY <1>3, <1>4, <1>5

LEMMA NeverPanicsNorRunsShort ==
    ASSUME CounterAgrees, NEW size \in Nat
    PROVE  ~Panics(size) /\ ~RunsShort(size)
  <1>1. Cardinality(Free) \in Nat
    BY FreeIsFinite
  <1>2. ~RunsShort(size)
    BY <1>1, RequestFits DEF RunsShort
  <1>3. ASSUME Panics(size) PROVE FALSE
    <2>1. /\ size <= remainingMemory /\ remainingMemory' < 0
          /\ remainingMemory' = remainingMemory - PageSize * RequiredPages(size)
      BY <1>3 DEF Panics
    <2>2. PageSize * Cardinality(Free) - PageSize * RequiredPages(size) >= 0
      BY <2>1, RequestFits
    <2>3. remainingMemory' = PageSize * Cardinality(Free) - PageSize * RequiredPages(size)
      BY <2>1 DEF CounterAgrees
    <2>4. PageSize * Cardinality(Free) \in Nat /\ PageSize * RequiredPages(size) \in Nat
      BY <1>1, PagesAreNat, BytesAreNat
    <2>. QED BY <2>1, <2>2, <2>3, <2>4
  <1>. QED BY <1>2, <1>3

LEMMA AllocationAccounts ==
    ASSUME TypeOK, CounterAgrees, NEW size \in Nat, NEW n \in Nat,
           n = RequiredPages(size), NEW bases \in [1 .. n -> Frame], Allocates(size, bases)
    PROVE  CounterAgrees'
  <1>1. FirstFit(bases, n)
    BY DEF Allocates
  <1>2. Elements(bases) \subseteq Free
    BY <1>1 DEF FirstFit
  <1>3. IsFiniteSet(Elements(bases)) /\ Cardinality(Elements(bases)) = n
    BY <1>1, FirstFitIsFresh, DistinctElements
  <1>4. Free' = Free \ Elements(bases)
    BY DEF Allocates, Free
  <1>5. Free \cap Elements(bases) = Elements(bases)
    BY <1>2
  <1>6. Cardinality(Free \ Elements(bases)) = Cardinality(Free) - n
    <2>1. Cardinality(Free \ Elements(bases))
            = Cardinality(Free) - Cardinality(Free \cap Elements(bases))
      BY FreeIsFinite, FS_Difference
    <2>. QED BY <1>3, <1>5, <2>1
  <1>7. remainingMemory' = PageSize * Cardinality(Free) - PageSize * n
    BY DEF Allocates, CounterAgrees
  <1>8. PageSize * (Cardinality(Free) - n) = PageSize * Cardinality(Free) - PageSize * n
    BY FreeIsFinite, SizesAssumption
  <1>. QED BY <1>4, <1>6, <1>7, <1>8 DEF CounterAgrees

LEMMA DeallocationAccounts ==
    ASSUME IInv, CounterAgrees, NEW p \in Resident, deallocateMemory(p)
    PROVE  CounterAgrees'
  <1>1. p \in Procs /\ pageBases[p] \in Seq(Frame)
    BY DEF IInv, TypeOK, Resident
  <1>2. PICK n \in Nat : n = Len(pageBases[p]) /\ pageBases[p] \in [1 .. n -> Frame]
    BY <1>1
  <1>3. \A i, j \in 1 .. n : pageBases[p][i] = pageBases[p][j] => i = j
    BY <1>2 DEF IInv, FramesExclusive
  <1>4. IsFiniteSet(Elements(pageBases[p])) /\ Cardinality(Elements(pageBases[p])) = n
    BY <1>2, <1>3, DistinctElements
  <1>5. Elements(pageBases[p]) \subseteq Frame
    BY <1>2 DEF Elements
  <1>6. Free \cap Elements(pageBases[p]) = {}
    BY DEF IInv, UsedFramesReserved, Free, Elements
  <1>7. Free' = Free \union Elements(pageBases[p])
    BY <1>5 DEF deallocateMemory, Free
  <1>8. Cardinality(Free \union Elements(pageBases[p])) = Cardinality(Free) + n
    <2>1. Cardinality(Free \union Elements(pageBases[p]))
            = Cardinality(Free) + Cardinality(Elements(pageBases[p]))
              - Cardinality(Free \cap Elements(pageBases[p]))
      BY <1>4, FreeIsFinite, FS_Union
    <2>2. Cardinality(Free \cap Elements(pageBases[p])) = 0
      BY <1>6, FS_EmptySet
    <2>. QED BY <1>4, <2>1, <2>2, FreeIsFinite
  <1>9. remainingMemory' = PageSize * Cardinality(Free) + PageSize * n
    BY <1>2 DEF deallocateMemory, CounterAgrees
  <1>10. PageSize * (Cardinality(Free) + n) = PageSize * Cardinality(Free) + PageSize * n
    BY FreeIsFinite, SizesAssumption
  <1>. QED BY <1>7, <1>8, <1>9, <1>10 DEF CounterAgrees

LEMMA FailureAccounts ==
    ASSUME CounterAgrees, NEW size \in Nat, AllocationFails(size)
    PROVE  CounterAgrees' /\ reply' = "refused"
  <1>1. Refused(size)
    BY NeverPanicsNorRunsShort DEF AllocationFails
  <1>2. Free' = Free
    BY <1>1 DEF Refused, Free
  <1>. QED BY <1>1, <1>2 DEF Refused, CounterAgrees

LEMMA QuietAccounts ==
    ASSUME CounterAgrees, UNCHANGED <<reservationBits, remainingMemory>>
    PROVE  CounterAgrees'
  BY DEF CounterAgrees, Free

LEMMA InitAccounts == WholePages /\ Init => AInv
  <1>. SUFFICES ASSUME WholePages, Init PROVE AInv
    OBVIOUS
  <1>1. nPages \in Nat
    BY SizesAssumption DEF nPages
  <1>2. Free = 0 .. (nPages - 1)
    BY DEF Init, Free, Frame
  <1>3. Cardinality(Free) = nPages
    BY <1>1, <1>2, FS_Interval
  <1>. QED BY <1>3, InitInv DEF AInv, WholePages, CounterAgrees, AllocationNeverRunsShort, Init
LEMMA NextAccounts ==
    ASSUME KeepsDevices, AInv, [Next]_vars
    PROVE  AInv'
  <1>. USE DEF AInv
  <1>1. IInv'
    BY NextInv
  <1>2. ASSUME NEW p \in Procs, CreateProcess(p)
        PROVE  CounterAgrees' /\ reply' = "ok"
    <2>1. PICK bases \in [1 .. PageCount[p] -> Frame] :
             IF Requirement[p] = 0
             THEN UNCHANGED <<reservationBits, remainingMemory>>
             ELSE Allocates(Requirement[p], bases)
      BY <1>2 DEF CreateProcess
    <2>2. /\ Requirement[p] \in Nat /\ PageCount[p] \in Nat
          /\ PageCount[p] = RequiredPages(Requirement[p])
      BY SizesAssumption, PageCountIsNat DEF PageCount
    <2>3. CASE Requirement[p] = 0
      BY <1>2, <2>1, <2>3, QuietAccounts DEF CreateProcess
    <2>4. CASE Requirement[p] # 0
      BY <1>2, <2>1, <2>2, <2>4, AllocationAccounts DEF CreateProcess, IInv
    <2>. QED BY <2>3, <2>4
  <1>3. ASSUME NEW p \in Procs, CreateFails(p) \/ UnSuspendFails(p)
        PROVE  CounterAgrees' /\ reply' = "refused"
    <2>1. CASE CreateFails(p)
      BY <2>1, FailureAccounts, SizesAssumption DEF CreateFails
    <2>2. CASE UnSuspendFails(p)
      BY <2>2, FailureAccounts, BlockBytesNat DEF UnSuspendFails
    <2>. QED BY <1>3, <2>1, <2>2
  <1>4. ASSUME NEW p \in Procs, DeleteProcess(p)
        PROVE  CounterAgrees' /\ reply' = "ok"
    <2>1. p \in Resident
      BY <1>4 DEF DeleteProcess, KeepsDevices, IInv, OneSwapBlock, Resident
    <2>. QED BY <1>4, <2>1, DeallocationAccounts DEF DeleteProcess
  <1>5. ASSUME NEW p \in Procs, SuspendProcess(p)
        PROVE  CounterAgrees' /\ reply' = "ok"
    <2>1. p \in Resident
      BY <1>5 DEF SuspendProcess, IInv, OneSwapBlock, Resident
    <2>2. CASE pageBases[p] = <<>>
      BY <1>5, <2>2, QuietAccounts DEF SuspendProcess
    <2>3. CASE pageBases[p] # <<>>
      BY <1>5, <2>1, <2>3, DeallocationAccounts DEF SuspendProcess
    <2>. QED BY <2>2, <2>3
  <1>6. ASSUME NEW p \in Procs, UnSuspendProcess(p) \/ UnSuspendDiskFault(p)
        PROVE  CounterAgrees' /\ reply' \in {"ok", "disk"}
    <2>1. FoundInSwap(p) /\ reply' \in {"ok", "disk"}
      BY <1>6 DEF removeFromSwap, UnSuspendProcess, UnSuspendDiskFault
    <2>2. PICK bases \in [1 .. Len(Head(swap[p])) -> Frame] : Allocates(BlockBytes(p), bases)
      BY <1>6 DEF removeFromSwap, UnSuspendProcess, UnSuspendDiskFault
    <2>3. PICK n \in Nat : n = Len(Head(swap[p]))
      BY <2>1, BlockBytesNat
    <2>4. /\ TypeOK /\ bases \in [1 .. n -> Frame] /\ BlockBytes(p) \in Nat
          /\ n = RequiredPages(BlockBytes(p))
      BY <2>1, <2>3, BlockBytesNat DEF IInv
    <2>. QED BY <2>1, <2>2, <2>4, AllocationAccounts
  <1>7. ASSUME NEW p \in Procs,
               \/ SuspendDiskFault(p) \/ UnSuspendNothing(p) \/ UnSuspendNotFound(p)
               \/ WriteToMemory(p) \/ WritePage(p)
        PROVE  CounterAgrees' /\ reply' \in {"ok", "disk", "refused"}
    <2>1. UNCHANGED <<reservationBits, remainingMemory>> /\ reply' \in {"ok", "disk", "refused"}
      BY <1>7 DEF SuspendDiskFault, UnSuspendNothing, UnSuspendNotFound, WriteToMemory,
                  WritePage, storage
    <2>. QED BY <2>1, QuietAccounts
  <1>8. CASE UNCHANGED vars
    BY <1>1, <1>8, QuietAccounts DEF vars, storage, AllocationNeverRunsShort
  <1>. QED
    BY <1>1, <1>2, <1>3, <1>4, <1>5, <1>6, <1>7, <1>8 DEF Next, AllocationNeverRunsShort

\* The counter and the bits agree for ever: no frame is lost to the counter and
\* none is given back twice.
THEOREM CounterAlwaysAgrees ==
    ASSUME KeepsDevices, WholePages
    PROVE  Spec => []CounterAgrees
  <1>1. Init => AInv
    BY InitAccounts
  <1>2. AInv /\ [Next]_vars => AInv'
    BY NextAccounts
  <1>3. AInv => CounterAgrees
    BY DEF AInv
  <1>. QED BY <1>1, <1>2, <1>3, PTL DEF Spec

\* The panic "memory got negative" and the error "something wrong ocurred on
\* memory allocation" are dead code under the same two conditions.
THEOREM AcceptedRequestsAreServed ==
    ASSUME KeepsDevices, WholePages
    PROVE  Spec => [](AllocationNeverRunsShort /\ MemoryNeverNegative)
  <1>1. Init => AInv
    BY InitAccounts
  <1>2. AInv /\ [Next]_vars => AInv'
    BY NextAccounts
  <1>3. AInv => AllocationNeverRunsShort /\ MemoryNeverNegative
    BY FreeIsFinite, BytesAreNat DEF AInv, CounterAgrees, MemoryNeverNegative
  <1>. QED BY <1>1, <1>2, <1>3, PTL DEF Spec

-----------------------------------------------------------------------------
(* Nothing leaks *)

LInv == AInv /\ NoFrameLeaks

\* A reserved frame stays with its owner, or a new owner takes it.
LEMMA OwnersKeepFrames ==
    ASSUME NoFrameLeaks, NEW p \in Procs, NEW taken,
           \A f \in Frame : reservationBits'[f] => reservationBits[f] \/ f \in taken,
           \A f \in taken : p \in Resident' /\ \E i \in DOMAIN pageBases'[p] : pageBases'[p][i] = f,
           \A q \in Resident : \A i \in DOMAIN pageBases[q] :
              reservationBits'[pageBases[q][i]] => q \in Resident' /\ pageBases'[q] = pageBases[q]
    PROVE  NoFrameLeaks'
  <1>. SUFFICES ASSUME NEW f \in Frame, reservationBits'[f]
                PROVE  \E q \in Resident' : \E i \in DOMAIN pageBases'[q] : pageBases'[q][i] = f
    BY DEF NoFrameLeaks
  <1>1. CASE f \in taken
    BY <1>1
  <1>2. CASE reservationBits[f]
    <2>1. PICK q \in Resident : \E i \in DOMAIN pageBases[q] : pageBases[q][i] = f
      BY <1>2 DEF NoFrameLeaks
    <2>2. q \in Resident' /\ pageBases'[q] = pageBases[q]
      BY <2>1
    <2>. QED BY <2>1, <2>2
  <1>. QED BY <1>1, <1>2

LEMMA CreateProcessKeeps ==
    ASSUME LInv, NEW p \in Procs, CreateProcess(p)
    PROVE  NoFrameLeaks'
  <1>1. p \notin systemMemory /\ swap[p] = <<>>
    BY DEF LInv, AInv, IInv, EntryComplete, OneSwapBlock, CreateProcess
  <1>2. PICK bases \in [1 .. PageCount[p] -> Frame] :
           /\ IF Requirement[p] = 0 THEN UNCHANGED <<reservationBits, remainingMemory>>
              ELSE Allocates(Requirement[p], bases)
           /\ pageBases' = [pageBases EXCEPT ![p] = bases]
    BY DEF CreateProcess
  <1>3. p \in Resident' /\ pageBases'[p] = bases
    BY <1>1, <1>2 DEF CreateProcess, Resident, LInv, AInv, IInv, TypeOK
  <1>4. \A q \in Resident : q \in Resident' /\ pageBases'[q] = pageBases[q]
    BY <1>1, <1>2 DEF CreateProcess, Resident, LInv, AInv, IInv, TypeOK
  <1>5. \A f \in Frame : reservationBits'[f] => reservationBits[f] \/ f \in Elements(bases)
    BY <1>2 DEF Allocates
  <1>6. \A f \in Elements(bases) : \E i \in DOMAIN bases : bases[i] = f
    BY DEF Elements
  <1>7. \A f \in Elements(bases) :
           p \in Resident' /\ \E i \in DOMAIN pageBases'[p] : pageBases'[p][i] = f
    BY <1>3, <1>6
  <1>8. \A q \in Resident : \A i \in DOMAIN pageBases[q] :
           reservationBits'[pageBases[q][i]] => q \in Resident' /\ pageBases'[q] = pageBases[q]
    BY <1>4
  <1>9. NoFrameLeaks
    BY DEF LInv
  <1>. QED BY <1>5, <1>7, <1>8, <1>9, OwnersKeepFrames

LEMMA UnSuspendProcessKeeps ==
    ASSUME LInv, NEW p \in Procs, UnSuspendProcess(p)
    PROVE  NoFrameLeaks'
  <1>1. PICK bases \in [1 .. Len(Head(swap[p])) -> Frame] :
           Allocates(BlockBytes(p), bases) /\ pageBases' = [pageBases EXCEPT ![p] = bases]
    BY DEF UnSuspendProcess
  <1>2. p \in systemMemory /\ swap[p] # <<>> /\ swap'[p] = <<>>
    <2>1. swap[p] \in Seq(Seq(PageValue)) /\ swap[p] # <<>> /\ Len(swap[p]) <= 1
      BY DEF LInv, AInv, IInv, TypeOK, OneSwapBlock, UnSuspendProcess, FoundInSwap
    <2>2. Tail(swap[p]) = <<>>
      BY <2>1
    <2>. QED BY <2>1, <2>2
             DEF UnSuspendProcess, FoundInSwap, removeFromSwap, LInv, AInv, IInv, TypeOK
  <1>3. p \in Resident' /\ pageBases'[p] = bases
    BY <1>1, <1>2 DEF UnSuspendProcess, Resident, LInv, AInv, IInv, TypeOK
  <1>4. \A q \in Resident : q \in Resident' /\ pageBases'[q] = pageBases[q]
    BY <1>1, <1>2 DEF UnSuspendProcess, removeFromSwap, Resident, LInv, AInv, IInv, TypeOK
  <1>5. \A f \in Frame : reservationBits'[f] => reservationBits[f] \/ f \in Elements(bases)
    BY <1>1 DEF Allocates
  <1>6. \A f \in Elements(bases) : \E i \in DOMAIN bases : bases[i] = f
    BY DEF Elements
  <1>7. \A f \in Elements(bases) :
           p \in Resident' /\ \E i \in DOMAIN pageBases'[p] : pageBases'[p][i] = f
    BY <1>3, <1>6
  <1>8. \A q \in Resident : \A i \in DOMAIN pageBases[q] :
           reservationBits'[pageBases[q][i]] => q \in Resident' /\ pageBases'[q] = pageBases[q]
    BY <1>4
  <1>9. NoFrameLeaks
    BY DEF LInv
  <1>. QED BY <1>5, <1>7, <1>8, <1>9, OwnersKeepFrames

LEMMA DeleteOrSuspendKeeps ==
    ASSUME KeepsDevices, LInv, NEW p \in Procs, DeleteProcess(p) \/ SuspendProcess(p)
    PROVE  NoFrameLeaks'
  <1>1. CASE UNCHANGED <<reservationBits, systemMemory, pageBases, swap>>
    BY <1>1 DEF LInv, NoFrameLeaks, Resident
  <1>2. CASE deallocateMemory(p)
    <2>1. \A f \in Frame : reservationBits'[f] => reservationBits[f] /\ f \notin Elements(pageBases[p])
      BY <1>2 DEF deallocateMemory
    <2>2. \A q \in Resident \ {p} : q \in Resident' /\ pageBases'[q] = pageBases[q]
      BY DEF DeleteProcess, SuspendProcess, Resident, LInv, AInv, IInv, TypeOK
    <2>3. \A i \in DOMAIN pageBases[p] : pageBases[p][i] \in Elements(pageBases[p])
      BY DEF Elements
    <2>4. SUFFICES ASSUME NEW f \in Frame, reservationBits'[f]
                   PROVE  \E q \in Resident' : \E i \in DOMAIN pageBases'[q] : pageBases'[q][i] = f
      BY DEF NoFrameLeaks
    <2>5. PICK q \in Resident : \E i \in DOMAIN pageBases[q] : pageBases[q][i] = f
      BY <2>1, <2>4 DEF LInv, NoFrameLeaks
    <2>6. q \in Resident' /\ pageBases'[q] = pageBases[q]
      BY <2>1, <2>2, <2>3, <2>4, <2>5
    <2>. QED BY <2>5, <2>6
  <1>. QED BY <1>1, <1>2 DEF DeleteProcess, SuspendProcess

LEMMA NextKeeps ==
    ASSUME KeepsDevices, DiskFaults = FALSE, LInv, [Next]_vars
    PROVE  LInv'
  <1>1. AInv'
    BY NextAccounts DEF LInv
  <1>2. ASSUME NEW p \in Procs, CreateFails(p) \/ UnSuspendFails(p)
        PROVE  NoFrameLeaks'
    <2>1. Refused(Requirement[p]) \/ Refused(BlockBytes(p))
      <3>1. CASE CreateFails(p)
        BY <3>1, SizesAssumption, NeverPanicsNorRunsShort DEF CreateFails, AllocationFails, LInv, AInv
      <3>2. CASE UnSuspendFails(p)
        BY <3>2, BlockBytesNat, NeverPanicsNorRunsShort
           DEF UnSuspendFails, AllocationFails, LInv, AInv
      <3>. QED BY <1>2, <3>1, <3>2
    <2>. QED BY <1>2, <2>1 DEF Refused, CreateFails, UnSuspendFails, LInv, NoFrameLeaks, Resident
  <1>3. ASSUME NEW p \in Procs,
               \/ UnSuspendNothing(p) \/ UnSuspendNotFound(p)
               \/ WriteToMemory(p) \/ WritePage(p)
        PROVE  NoFrameLeaks'
    BY <1>3 DEF UnSuspendNothing, UnSuspendNotFound, WriteToMemory, WritePage, storage, LInv,
                NoFrameLeaks, Resident
  <1>4. CASE UNCHANGED vars
    <2>1. UNCHANGED <<reservationBits, systemMemory, pageBases, swap>>
      BY <1>4 DEF vars, storage
    <2>. QED BY <1>1, <2>1 DEF LInv, NoFrameLeaks, Resident
  <1>5. ASSUME NEW p \in Procs
        PROVE  ~SuspendDiskFault(p) /\ ~UnSuspendDiskFault(p)
    BY DEF SuspendDiskFault, UnSuspendDiskFault
  <1>. QED BY <1>1, <1>2, <1>3, <1>4, <1>5, CreateProcessKeeps, UnSuspendProcessKeeps,
              DeleteOrSuspendKeeps DEF Next, LInv

\* While the swap file does not fail, a frame is reserved only for a process in memory
\* (allocateMemory, deallocateMemory): whatever sequence of calls, none leaks.
THEOREM NothingLeaks ==
    ASSUME KeepsDevices, WholePages, DiskFaults = FALSE
    PROVE  Spec => []NoFrameLeaks
  <1>1. Init => LInv
    BY InitAccounts DEF LInv, Init, NoFrameLeaks
  <1>2. LInv /\ [Next]_vars => LInv'
    BY NextKeeps
  <1>3. LInv => NoFrameLeaks
    BY DEF LInv
  <1>. QED BY <1>1, <1>2, <1>3, PTL DEF Spec
=============================================================================
