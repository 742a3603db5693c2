--------------------------- MODULE CPUCycleProofs ---------------------------
(***************************************************************************)
(* Theorems about CPUCycle, for every set of processes, scripts and        *)
(* goroutines, under SRT or not: the process on the CPU is the one the     *)
(* kernel believes there, a CPU starts clean, and scripts run in order.    *)
(*                                                                         *)
(* Goroutines of several dispatches are alive at a time.  The argument is  *)
(* that one of them at most owns the CPU, that what all share (Pcb,        *)
(* instruction, status, the signals) is the owner's whenever it is used,   *)
(* and that from an interrupt to its answer no other goroutine is alive.   *)
(***************************************************************************)
EXTENDS CPUCycle, TLAPS

\* The conditions under which the theorems hold: an interrupt and the answer to a system
\* call arrive in time, and every IO names a device that is connected.
Lines == UNION {{Program[p][n] : n \in Line(p)} : p \in Procs}
InTime == Hazards = {}
KnownDevices == \A i \in Lines : i.op = "IO" => i.device \in Devices

\* A goroutine owns the CPU from its dispatch until the kernel takes the process from it.
Owns(k) ==
    /\ at[k] \in {"fetch", "exec", "syscall", "reply", "return", "select", "results"}
    /\ result[k] = 0
InSection(k) == at[k] \in {"return", "select"}
InstructionAt == Program[Pcb.pid][Pcb.pc]

Shapes ==
    /\ DOMAIN sent = Cycles /\ DOMAIN pcOf = Procs
    /\ Pcb = [pid |-> Pcb.pid, pc |-> Pcb.pc]
    /\ \A k \in Cycles : at[k] # "off" => Pcb.pid \in Procs

\* One cycle at a time depends on the global status, and it is its own.
Sections ==
    /\ \A j, k \in Cycles : InSection(j) /\ InSection(k) => j = k
    /\ \A k \in Cycles : at[k] \in {"fetch", "exec", "syscall"} => result[k] = 0
    /\ \A k \in Cycles : at[k] = "return" => status = result[k]

\* The owner is the only one, and runs the process of the kernel.
Owner ==
    /\ \A j, k \in Cycles : Owns(j) /\ Owns(k) => j = k
    /\ \A k \in Cycles : Owns(k) => process = Pcb.pid /\ sts # "sending"
    /\ process # None /\ sts # "sending" => \E k \in Cycles : Owns(k)
    /\ \A p \in Procs : state[p] = "EXEC" <=> process = p

\* What a cycle executes, and what it has sent.
Executing == \A k \in Cycles : at[k] = "exec" => instruction = InstructionAt
Asks(k) ==
    /\ sent[k].order \in Lines
    /\ at[k] = "syscall" => sent[k].pc = Pcb.pc
    /\ sent[k].order.op = "INIT_PROC" => result[k] = 0 /\ InstructionAt.op = "INIT_PROC"
    /\ at[k] = "reply" /\ sent[k].order.op = "IO" => result[k] = -1
Asking == \A k \in Cycles : at[k] \in {"syscall", "reply"} => Asks(k)
GivingBack == \A k \in Cycles : at[k] = "results" =>
    /\ result[k] = 0 => sent[k].pid = Pcb.pid /\ sent[k].pc = Pcb.pc
    /\ sent[k].reason = "Exit" => result[k] = 0 /\ InstructionAt.op = "EXIT"

\* The signal of EXIT is for the cycle that sent it.
ExitIsOwn == "Exit" \in signals =>
    /\ sts = "top"
    /\ \E k \in Cycles : InSection(k) /\ result[k] = 0 /\ instruction.op = "EXIT"
    /\ InstructionAt.op = "EXIT"

\* From the interrupt to its answer one goroutine is alive, and it answers.
Quiet == sts \in {"top", "sending"} =>
    /\ signals \subseteq {"Exit"}
    /\ \A k \in Cycles : at[k] # "finish" /\ (at[k] = "results" => sent[k].reason = "Exit")
Interrupting == sts = "interrupt" =>
    /\ signals = {} /\ victim = Pcb.pid
    /\ \E k \in Cycles : Alive = {k} /\ Answers(k)
Answering == sts = "answer" =>
    \/ /\ signals = {"Interrupt"}
       /\ \E k \in Cycles : Alive = {k} /\ Answers(k)
    \/ /\ signals = {}
       /\ \E k \in Cycles :
             /\ Alive = {k}
             /\ at[k] \in {"results", "finish"}
             /\ at[k] = "results" => sent[k].reason = "Interrupt"
    \/ /\ signals = {"Finish"} /\ Alive = {}
Targeting ==
    /\ sts # "dead"
    /\ sts = "sending" => target = process /\ process \in Procs
    /\ sts \in {"interrupt", "answer"} => target \in Procs /\ state[target] = "READY"

IInv ==
    /\ TypeOK /\ Shapes /\ Sections /\ Owner
    /\ Executing /\ Asking /\ GivingBack
    /\ ExitIsOwn /\ Quiet /\ Interrupting /\ Answering /\ Targeting

-----------------------------------------------------------------------------
(* One lemma per action, one step per part of the invariant *)

LEMMA LinesOfScripts ==
    ASSUME NEW p \in Procs, NEW n \in Line(p)
    PROVE  Program[p][n] \in Lines
  BY DEF Lines

LEMMA FetchesInv ==
    ASSUME IInv, NEW k \in Cycles, Fetches(k)
    PROVE  IInv'
  <1>1. TypeOK'
    BY ProgramAssumption DEF IInv, Fetches, Goes, kernel, scheduler, TypeOK, Shapes,
       Owner, Owns, Sections, Stage
  <1>2. Shapes'
    BY DEF IInv, Fetches, Goes, kernel, Shapes, TypeOK
  <1>3. Sections'
    BY DEF IInv, Fetches, Goes, Sections, InSection, TypeOK
  <1>4. Owner'
    BY DEF IInv, Fetches, Goes, kernel, scheduler, Owner, Owns, TypeOK
  <1>5. Executing'
    BY DEF IInv, Fetches, Goes, Executing, InstructionAt, Owner, Owns, Sections, TypeOK
  <1>6. Asking'
    BY DEF IInv, Fetches, Goes, Asking, Asks, InstructionAt, TypeOK
  <1>7. GivingBack'
    BY DEF IInv, Fetches, Goes, GivingBack, InstructionAt, TypeOK
  <1>8. ExitIsOwn'
    BY DEF IInv, Fetches, Goes, scheduler, ExitIsOwn, InSection, InstructionAt, Owner,
       Owns, Sections, TypeOK
  <1>9. Quiet'
    BY DEF IInv, Fetches, Goes, scheduler, Quiet, TypeOK
  <1>10. Interrupting'
    BY DEF IInv, Fetches, Goes, scheduler, Interrupting, Alive, Answers, Pending, TypeOK
  <1>11. Answering'
    BY DEF IInv, Fetches, Goes, scheduler, Answering, Alive, Answers, Pending, TypeOK
  <1>12. Targeting'
    BY DEF IInv, Fetches, kernel, scheduler, Targeting, TypeOK
  <1>. QED BY <1>1, <1>2, <1>3, <1>4, <1>5, <1>6, <1>7, <1>8, <1>9, <1>10, <1>11, <1>12 DEF IInv

LEMMA ExecutesInv ==
    ASSUME InTime, KnownDevices, IInv, NEW k \in Cycles, Executes(k)
    PROVE  IInv'
  <1>1. TypeOK'
    BY ProgramAssumption DEF IInv, Executes, Goes, sendSyscall, IsSyscall, PCAfter,
       kernel, scheduler, TypeOK, Shapes, Owner, Owns, Sections, Executing, Stage, Line,
       InstructionAt, Op, Signal
  <1>2. Shapes'
    BY DEF IInv, Executes, Goes, sendSyscall, kernel, Shapes, TypeOK
  <1>3. Sections'
    BY DEF IInv, Executes, Goes, sendSyscall, Alone, InTime, Sections, InSection, TypeOK
  <1>4. Owner'
    BY DEF IInv, Executes, Goes, sendSyscall, kernel, scheduler, Owner, Owns, TypeOK
  <1>5. Executing'
    BY DEF IInv, Executes, Goes, sendSyscall, Executing, InstructionAt, Owner, Owns,
       Sections, TypeOK
  <1>6. Asking'
    <2>1. ASSUME NEW j \in Cycles \ {k}, at[j] \in {"syscall", "reply"}
          PROVE  /\ sent'[j] = sent[j] /\ result'[j] = result[j] /\ at'[j] = at[j]
                 /\ result[j] # 0 /\ at[j] = "reply" /\ sent[j].order.op # "INIT_PROC"
      BY <2>1 DEF IInv, Executes, Goes, sendSyscall, TypeOK, Shapes, Sections, Owner, Owns,
         Asking, Asks
    <2>2. instruction = InstructionAt /\ instruction \in Lines /\ result'[k] = 0
      BY LinesOfScripts, ProcsAssumption
         DEF IInv, Executes, TypeOK, Shapes, Sections, Executing, InstructionAt
    <2>3. ASSUME at'[k] \in {"syscall", "reply"}
          PROVE  /\ at'[k] = "syscall" /\ sent'[k] = [pc |-> PCAfter, order |-> instruction]
                 /\ Pcb'.pc = PCAfter /\ Pcb'.pid = Pcb.pid
      BY <2>3 DEF IInv, Executes, Goes, sendSyscall, TypeOK, Shapes
    <2>4. instruction.op = "INIT_PROC" => PCAfter = Pcb.pc
      BY DEF PCAfter
    <2>5. ASSUME NEW j \in Cycles, at'[j] \in {"syscall", "reply"}
          PROVE  Asks(j)'
      <3>1. CASE j = k
        BY <2>2, <2>3, <2>4, <2>5, <3>1 DEF Asks, InstructionAt
      <3>2. CASE j # k
        <4>1. /\ at[j] = "reply" /\ at'[j] = "reply"
              /\ sent'[j] = sent[j] /\ result'[j] = result[j]
              /\ sent[j].order.op # "INIT_PROC"
          BY <2>1, <2>5, <3>2 DEF Executes, Goes, sendSyscall, IInv, TypeOK
        <4>2. Asks(j)
          BY <4>1 DEF IInv, Asking
        <4>. QED BY <4>1, <4>2 DEF Asks
      <3>. QED BY <3>1, <3>2
    <2>. QED BY <2>5 DEF Asking
  <1>7. GivingBack'
    BY DEF IInv, Executes, Goes, sendSyscall, GivingBack, InstructionAt, Owner, Owns,
       Sections, Shapes, TypeOK
  <1>8. ExitIsOwn'
    BY DEF IInv, Executes, Goes, sendSyscall, IsSyscall, PCAfter, scheduler, ExitIsOwn,
       InSection, InstructionAt, Owner, Owns, Sections, Executing, Interrupting,
       Answering, Targeting, Alive, Answers, Pending, TypeOK
  <1>9. Quiet'
    BY DEF IInv, Executes, Goes, sendSyscall, scheduler, Quiet, Owner, Owns, Sections,
       Shapes, Targeting, Interrupting, TypeOK
  <1>10. Interrupting'
    BY DEF IInv, Executes, Goes, sendSyscall, scheduler, InTime, Interrupting, Alive,
       Answers, Pending, ExitIsOwn, TypeOK
  <1>11. Answering'
    BY DEF IInv, Executes, Goes, sendSyscall, scheduler, Answering, Alive, Answers,
       Pending, TypeOK
  <1>12. Targeting'
    BY DEF IInv, Executes, sendSyscall, kernel, scheduler, Targeting, TypeOK
  <1>. QED BY <1>1, <1>2, <1>3, <1>4, <1>5, <1>6, <1>7, <1>8, <1>9, <1>10, <1>11, <1>12 DEF IInv

LEMMA RepliesInv ==
    ASSUME InTime, IInv, NEW k \in Cycles, Replies(k)
    PROVE  IInv'
  <1>1. TypeOK'
    BY ProgramAssumption DEF IInv, Replies, Goes, kernel, scheduler, TypeOK, Shapes,
       Owner, Owns, Sections, Asking, Asks, InstructionAt, Stage, Line
  <1>2. Shapes'
    BY DEF IInv, Replies, Goes, kernel, Shapes, TypeOK
  <1>3. Sections'
    BY DEF IInv, Replies, Goes, Alone, InTime, Sections, InSection, TypeOK
  <1>4. Owner'
    BY DEF IInv, Replies, Goes, kernel, scheduler, Owner, Owns, TypeOK
  <1>5. Executing'
    BY DEF IInv, Replies, Goes, Executing, InstructionAt, Owner, Owns, Sections, Asking,
       Asks, TypeOK
  <1>6. Asking'
    BY DEF IInv, Replies, Goes, Asking, Asks, InstructionAt, Owner, Owns, Sections, TypeOK
  <1>7. GivingBack'
    BY DEF IInv, Replies, Goes, GivingBack, InstructionAt, Owner, Owns, Sections, Asking,
       Asks, TypeOK
  <1>8. ExitIsOwn'
    BY DEF IInv, Replies, Goes, scheduler, ExitIsOwn, InSection, InstructionAt, Owner,
       Owns, Sections, Asking, Asks, TypeOK
  <1>9. Quiet'
    BY DEF IInv, Replies, Goes, scheduler, Quiet, TypeOK
  <1>10. Interrupting'
    BY DEF IInv, Replies, Goes, scheduler, InTime, Interrupting, Alive, Answers, Pending,
       TypeOK
  <1>11. Answering'
    <2>1. at[k] # "off" /\ at'[k] = "return" /\ \A j \in Cycles \ {k} : at'[j] = at[j]
      BY DEF IInv, TypeOK, Replies, Goes
    <2>2. Alive' = Alive
      BY <2>1 DEF Alive
    <2>3. at[k] = "reply" /\ UNCHANGED instruction
      BY DEF Replies
    <2>4. ASSUME NEW j \in Cycles, Alive = {j}, Answers(j)
          PROVE  Answers(j)'
      <3>1. j = k
        BY <2>1, <2>4 DEF Alive
      <3>. QED BY <2>1, <2>3, <2>4, <3>1 DEF Answers, Pending
    <2>. QED BY <2>1, <2>2, <2>4 DEF IInv, Replies, scheduler, Answering
  <1>12. Targeting'
    BY DEF IInv, Replies, kernel, scheduler, Targeting, TypeOK
  <1>. QED BY <1>1, <1>2, <1>3, <1>4, <1>5, <1>6, <1>7, <1>8, <1>9, <1>10, <1>11, <1>12 DEF IInv

LEMMA ReturnsInv ==
    ASSUME IInv, NEW k \in Cycles, Returns(k)
    PROVE  IInv'
  <1>1. TypeOK'
    BY DEF IInv, Returns, Goes, registers, kernel, scheduler, TypeOK, Shapes, Stage
  <1>2. Shapes'
    BY DEF IInv, Returns, Goes, registers, kernel, Shapes, TypeOK
  <1>3. Sections'
    BY DEF IInv, Returns, Goes, registers, Sections, InSection, TypeOK
  <1>4. Owner'
    BY DEF IInv, Returns, Goes, registers, kernel, scheduler, Owner, Owns, Sections,
       TypeOK
  <1>5. Executing'
    BY DEF IInv, Returns, Goes, registers, Executing, InstructionAt, TypeOK
  <1>6. Asking'
    BY DEF IInv, Returns, Goes, registers, Asking, Asks, InstructionAt, TypeOK
  <1>7. GivingBack'
    BY DEF IInv, Returns, Goes, registers, GivingBack, InstructionAt, TypeOK
  <1>8. ExitIsOwn'
    BY DEF IInv, Returns, Goes, registers, scheduler, ExitIsOwn, InSection, InstructionAt,
       Sections, TypeOK
  <1>9. Quiet'
    BY DEF IInv, Returns, Goes, scheduler, Quiet, TypeOK
  <1>10. Interrupting'
    BY DEF IInv, Returns, Goes, registers, scheduler, Interrupting, Alive, Answers,
       Pending, TypeOK
  <1>11. Answering'
    BY DEF IInv, Returns, Goes, registers, scheduler, Answering, Alive, Answers, Pending,
       TypeOK
  <1>12. Targeting'
    BY DEF IInv, Returns, kernel, scheduler, Targeting, TypeOK
  <1>. QED BY <1>1, <1>2, <1>3, <1>4, <1>5, <1>6, <1>7, <1>8, <1>9, <1>10, <1>11, <1>12 DEF IInv

LEMMA TakesInv ==
    ASSUME IInv, NEW k \in Cycles, at[k] = "select", MaySelect, InTime,
           NEW reason \in {"Interrupt", "Exit"}, Takes(k, reason), UNCHANGED <<registers,
           result, kernel, scheduler>>
    PROVE  IInv'
  <1>1. TypeOK'
    BY ProcsAssumption DEF IInv, Takes, Goes, registers, kernel, scheduler, TypeOK,
       Shapes, Stage, Signal
  <1>2. Shapes'
    BY DEF IInv, Takes, Goes, registers, kernel, Shapes, TypeOK
  <1>3. Sections'
    BY DEF IInv, Takes, Goes, registers, InTime, Sections, InSection, TypeOK
  <1>4. Owner'
    BY DEF IInv, Takes, Goes, registers, kernel, scheduler, Owner, Owns, ExitIsOwn, TypeOK
  <1>5. Executing'
    BY DEF IInv, Takes, Goes, registers, Executing, InstructionAt, TypeOK
  <1>6. Asking'
    BY DEF IInv, Takes, Goes, registers, Asking, Asks, InstructionAt, Shapes, TypeOK
  <1>7. GivingBack'
    BY DEF IInv, Takes, Goes, registers, GivingBack, InstructionAt, Shapes, ExitIsOwn,
       Sections, InSection, TypeOK
  <1>8. ExitIsOwn'
    BY DEF IInv, Takes, Goes, registers, scheduler, ExitIsOwn, InSection, InstructionAt,
       Quiet, TypeOK
  <1>9. Quiet'
    BY DEF IInv, Takes, Goes, scheduler, Quiet, Shapes, TypeOK
  <1>10. Interrupting'
    BY DEF IInv, Takes, Goes, registers, scheduler, MaySelect, InTime, Interrupting,
       Alive, Answers, Pending, TypeOK
  <1>11. Answering'
    BY DEF IInv, Takes, Goes, registers, scheduler, Answering, Alive, Answers, Pending,
       Shapes, ExitIsOwn, TypeOK
  <1>12. Targeting'
    BY DEF IInv, Takes, kernel, scheduler, Targeting, TypeOK
  <1>. QED BY <1>1, <1>2, <1>3, <1>4, <1>5, <1>6, <1>7, <1>8, <1>9, <1>10, <1>11, <1>12 DEF IInv

LEMMA GoesOnInv ==
    ASSUME IInv, NEW k \in Cycles, at[k] = "select", MaySelect, InTime, GoesOn(k),
           UNCHANGED <<registers, result, kernel, scheduler>>
    PROVE  IInv'
  <1>1. TypeOK'
    BY DEF IInv, GoesOn, Goes, registers, kernel, scheduler, TypeOK, Shapes, Stage
  <1>2. Shapes'
    BY DEF IInv, GoesOn, Goes, registers, kernel, Shapes, TypeOK
  <1>3. Sections'
    BY DEF IInv, GoesOn, Goes, registers, InTime, Sections, InSection, TypeOK
  <1>4. Owner'
    BY DEF IInv, GoesOn, Goes, registers, kernel, scheduler, Owner, Owns, TypeOK
  <1>5. Executing'
    BY DEF IInv, GoesOn, Goes, registers, Executing, InstructionAt, TypeOK
  <1>6. Asking'
    BY DEF IInv, GoesOn, Goes, registers, Asking, Asks, InstructionAt, TypeOK
  <1>7. GivingBack'
    BY DEF IInv, GoesOn, Goes, registers, GivingBack, InstructionAt, TypeOK
  <1>8. ExitIsOwn'
    BY DEF IInv, GoesOn, Goes, registers, scheduler, ExitIsOwn, InSection, InstructionAt,
       TypeOK
  <1>9. Quiet'
    BY DEF IInv, GoesOn, Goes, scheduler, Quiet, TypeOK
  <1>10. Interrupting'
    BY DEF IInv, GoesOn, Goes, registers, scheduler, MaySelect, InTime, Interrupting,
       Alive, Answers, Pending, TypeOK
  <1>11. Answering'
    BY DEF IInv, GoesOn, Goes, registers, scheduler, Answering, Alive, Answers, Pending,
       TypeOK
  <1>12. Targeting'
    BY DEF IInv, GoesOn, kernel, scheduler, Targeting, TypeOK
  <1>. QED BY <1>1, <1>2, <1>3, <1>4, <1>5, <1>6, <1>7, <1>8, <1>9, <1>10, <1>11, <1>12 DEF IInv

LEMMA FinishesInv ==
    ASSUME IInv, NEW k \in Cycles, Finishes(k)
    PROVE  IInv'
  <1>1. TypeOK'
    BY DEF IInv, Finishes, Goes, registers, kernel, scheduler, TypeOK, Shapes, Stage,
       Signal
  <1>2. Shapes'
    BY DEF IInv, Finishes, Goes, registers, kernel, Shapes, TypeOK
  <1>3. Sections'
    BY DEF IInv, Finishes, Goes, registers, Sections, InSection, TypeOK
  <1>4. Owner'
    BY DEF IInv, Finishes, Goes, registers, kernel, scheduler, Owner, Owns, TypeOK
  <1>5. Executing'
    BY DEF IInv, Finishes, Goes, registers, Executing, InstructionAt, TypeOK
  <1>6. Asking'
    BY DEF IInv, Finishes, Goes, registers, Asking, Asks, InstructionAt, TypeOK
  <1>7. GivingBack'
    BY DEF IInv, Finishes, Goes, registers, GivingBack, InstructionAt, TypeOK
  <1>8. ExitIsOwn'
    BY DEF IInv, Finishes, Goes, registers, scheduler, ExitIsOwn, InSection,
       InstructionAt, Answering, TypeOK
  <1>9. Quiet'
    BY DEF IInv, Finishes, Goes, scheduler, Quiet, Answering, TypeOK
  <1>10. Interrupting'
    BY DEF IInv, Finishes, Goes, registers, scheduler, Interrupting, Alive, Answers,
       Pending, TypeOK
  <1>11. Answering'
    BY DEF IInv, Finishes, Goes, registers, scheduler, Answering, Alive, Answers, Pending,
       TypeOK
  <1>12. Targeting'
    BY DEF IInv, Finishes, kernel, scheduler, Targeting, TypeOK
  <1>. QED BY <1>1, <1>2, <1>3, <1>4, <1>5, <1>6, <1>7, <1>8, <1>9, <1>10, <1>11, <1>12 DEF IInv

LEMMA RecieveSyscallInv ==
    ASSUME KnownDevices, IInv, NEW k \in Cycles, RecieveSyscall(k)
    PROVE  IInv'
  <1>1. TypeOK'
    BY ProcsAssumption DEF IInv, RecieveSyscall, Blocks, Creates, Moves, Goes, registers,
       kernel, scheduler, KnownDevices, TypeOK, Shapes, Owner, Owns, Sections, Stage,
       State, Asking, Asks
  <1>2. Shapes'
    BY DEF IInv, RecieveSyscall, Goes, registers, kernel, Shapes, TypeOK
  <1>3. Sections'
    BY DEF IInv, RecieveSyscall, Blocks, Creates, Goes, registers, Sections, InSection,
       TypeOK
  <1>4. Owner'
    BY ProcsAssumption DEF IInv, RecieveSyscall, Blocks, Creates, Moves, Goes, registers,
       kernel, scheduler, KnownDevices, Owner, Owns, Sections, Asking, Asks, Shapes,
       TypeOK
  <1>5. Executing'
    BY DEF IInv, RecieveSyscall, Goes, registers, Executing, InstructionAt, TypeOK
  <1>6. Asking'
    BY ProcsAssumption DEF IInv, RecieveSyscall, Blocks, Creates, Goes, registers,
       KnownDevices, Asking, Asks, InstructionAt, Owner, Owns, Sections, Shapes, TypeOK
  <1>7. GivingBack'
    BY DEF IInv, RecieveSyscall, Blocks, Creates, Goes, registers, GivingBack,
       InstructionAt, Sections, TypeOK
  <1>8. ExitIsOwn'
    BY DEF IInv, RecieveSyscall, Blocks, Creates, Goes, registers, scheduler, ExitIsOwn,
       InSection, InstructionAt, Owner, Owns, Sections, TypeOK
  <1>9. Quiet'
    BY DEF IInv, RecieveSyscall, Goes, scheduler, Quiet, TypeOK
  <1>10. Interrupting'
    BY DEF IInv, RecieveSyscall, Goes, registers, scheduler, Interrupting, Alive, Answers,
       Pending, TypeOK
  <1>11. Answering'
    BY DEF IInv, RecieveSyscall, Goes, registers, scheduler, Answering, Alive, Answers,
       Pending, TypeOK
  <1>12. Targeting'
    BY ProcsAssumption DEF IInv, RecieveSyscall, Blocks, Creates, Moves, kernel,
       scheduler, KnownDevices, Targeting, Asking, Asks, Owner, Owns, Sections, TypeOK
  <1>. QED BY <1>1, <1>2, <1>3, <1>4, <1>5, <1>6, <1>7, <1>8, <1>9, <1>10, <1>11, <1>12 DEF IInv

\* A process given back that is still in EXEC comes from the cycle that owned the CPU.
LEMMA BackFromOwner ==
    ASSUME IInv, NEW k \in Cycles, at[k] = "results", state[sent[k].pid] = "EXEC"
    PROVE  result[k] = 0
  <1>1. sent[k].pid \in Procs
    BY DEF IInv, TypeOK
  <1>. SUFFICES ASSUME result[k] # 0
                PROVE  FALSE
    OBVIOUS
  <1>2. sent[k].reason = "Interrupt" /\ sts = "answer"
    BY DEF IInv, TypeOK, GivingBack, Quiet, Interrupting, Alive, Answers, Targeting
  <1>3. Alive = {k}
    BY <1>2 DEF IInv, Answering, Answers, Alive
  <1>4. \A j \in Cycles : ~Owns(j)
    BY <1>3 DEF Owns, Alive
  <1>5. process = None
    BY <1>2, <1>4 DEF IInv, Owner
  <1>. QED BY <1>1, <1>5, ProcsAssumption DEF IInv, Owner

LEMMA HandleReasonInv ==
    ASSUME IInv, NEW k \in Cycles, HandleReason(k)
    PROVE  IInv'
  <1>1. TypeOK'
    BY DEF IInv, HandleReason, Moves, Goes, registers, kernel, scheduler, TypeOK, Shapes,
       Stage, State
  <1>2. Shapes'
    BY DEF IInv, HandleReason, Goes, registers, kernel, Shapes, TypeOK
  <1>3. Sections'
    BY DEF IInv, HandleReason, Goes, registers, Sections, InSection, TypeOK
  <1>4. Owner'
    <2>1. at[k] = "results" /\ sent[k].pid \in Procs
      BY DEF IInv, TypeOK, HandleReason
    <2>2. CASE result[k] = 0
      <3>1. Owns(k)
        BY <2>1, <2>2 DEF Owns
      <3>2. process = Pcb.pid /\ sent[k].pid = Pcb.pid /\ state[Pcb.pid] = "EXEC" /\ Pcb.pid
         \in Procs
        BY <2>1, <2>2, <3>1 DEF IInv, Owner, GivingBack
      <3>3. process' = None /\ ~Owns(k)'
        BY <3>2, <2>1 DEF IInv, TypeOK, HandleReason, Goes, Owns
      <3>4. \A j \in Cycles : ~Owns(j)'
        BY <3>1, <3>3 DEF IInv, TypeOK, Owner, HandleReason, Goes, Owns, registers
      <3>5. \A p \in Procs : state'[p] # "EXEC"
        BY <3>2 DEF IInv, TypeOK, Owner, HandleReason, Moves
      <3>. QED BY <3>3, <3>4, <3>5, ProcsAssumption DEF Owner
    <2>3. CASE result[k] # 0
      <3>1. UNCHANGED <<state, process, sts, Pcb>>
        BY <2>1, <2>3, BackFromOwner DEF HandleReason, kernel, scheduler, registers
      <3>2. \A j \in Cycles : Owns(j)' <=> Owns(j)
        BY <2>1, <2>3 DEF IInv, TypeOK, HandleReason, Goes, Owns
      <3>. QED BY <3>1, <3>2 DEF IInv, Owner
    <2>. QED BY <2>2, <2>3
  <1>5. Executing'
    BY DEF IInv, HandleReason, Goes, registers, Executing, InstructionAt, TypeOK
  <1>6. Asking'
    BY DEF IInv, HandleReason, Goes, registers, Asking, Asks, InstructionAt, Shapes,
       TypeOK
  <1>7. GivingBack'
    BY DEF IInv, HandleReason, Goes, registers, GivingBack, InstructionAt, Sections,
       Shapes, TypeOK
  <1>8. ExitIsOwn'
    BY DEF IInv, HandleReason, Goes, registers, scheduler, ExitIsOwn, InSection,
       InstructionAt, TypeOK
  <1>9. Quiet'
    BY DEF IInv, HandleReason, Goes, scheduler, Quiet, Shapes, TypeOK
  <1>10. Interrupting'
    BY DEF IInv, HandleReason, Goes, registers, scheduler, Interrupting, Alive, Answers,
       Pending, TypeOK
  <1>11. Answering'
    BY DEF IInv, HandleReason, Goes, registers, scheduler, Answering, Alive, Answers,
       Pending, Shapes, TypeOK
  <1>12. Targeting'
    BY DEF IInv, HandleReason, Moves, kernel, scheduler, Targeting, Owner, Owns, Sections,
       GivingBack, Quiet, Stage, State, TypeOK
  <1>. QED BY <1>1, <1>2, <1>3, <1>4, <1>5, <1>6, <1>7, <1>8, <1>9, <1>10, <1>11, <1>12 DEF IInv

LEMMA UnblocksInv ==
    ASSUME IInv, NEW p \in Procs, Unblocks(p)
    PROVE  IInv'
  <1>1. TypeOK'
    BY DEF IInv, Unblocks, Moves, registers, cycle, scheduler, TypeOK, Shapes, State
  <1>2. Shapes'
    BY DEF IInv, Unblocks, registers, cycle, Shapes, TypeOK
  <1>3. Sections'
    BY DEF IInv, Unblocks, registers, cycle, Sections, InSection, TypeOK
  <1>4. Owner'
    BY DEF IInv, Unblocks, Moves, registers, cycle, scheduler, Owner, Owns, TypeOK
  <1>5. Executing'
    BY DEF IInv, Unblocks, registers, cycle, Executing, InstructionAt, TypeOK
  <1>6. Asking'
    BY DEF IInv, Unblocks, registers, cycle, Asking, Asks, InstructionAt, TypeOK
  <1>7. GivingBack'
    BY DEF IInv, Unblocks, registers, cycle, GivingBack, InstructionAt, TypeOK
  <1>8. ExitIsOwn'
    BY DEF IInv, Unblocks, registers, cycle, scheduler, ExitIsOwn, InSection,
       InstructionAt, TypeOK
  <1>9. Quiet'
    BY DEF IInv, Unblocks, cycle, scheduler, Quiet, TypeOK
  <1>10. Interrupting'
    BY DEF IInv, Unblocks, registers, cycle, scheduler, Interrupting, Alive, Answers,
       Pending, TypeOK
  <1>11. Answering'
    BY DEF IInv, Unblocks, registers, cycle, scheduler, Answering, Alive, Answers,
       Pending, TypeOK
  <1>12. Targeting'
    BY DEF IInv, Unblocks, Moves, scheduler, Targeting, TypeOK
  <1>. QED BY <1>1, <1>2, <1>3, <1>4, <1>5, <1>6, <1>7, <1>8, <1>9, <1>10, <1>11, <1>12 DEF IInv

LEMMA DispatchesInv ==
    ASSUME IInv, NEW p \in Procs, Dispatches(p)
    PROVE  IInv'
  <1>1. TypeOK'
    BY ProcsAssumption DEF IInv, Dispatches, Sends, Moves, registers, cycle, TypeOK,
       Shapes, State
  <1>2. Shapes'
    BY DEF IInv, Dispatches, Sends, registers, cycle, Shapes, TypeOK
  <1>3. Sections'
    BY DEF IInv, Dispatches, registers, cycle, Sections, InSection, TypeOK
  <1>4. Owner'
    BY ProcsAssumption DEF IInv, Dispatches, Sends, Moves, registers, cycle, Owner, Owns,
       Shapes, TypeOK
  <1>5. Executing'
    BY DEF IInv, Dispatches, registers, cycle, Executing, InstructionAt, TypeOK
  <1>6. Asking'
    BY DEF IInv, Dispatches, registers, cycle, Asking, Asks, InstructionAt, TypeOK
  <1>7. GivingBack'
    BY DEF IInv, Dispatches, registers, cycle, GivingBack, InstructionAt, TypeOK
  <1>8. ExitIsOwn'
    BY ProcsAssumption DEF IInv, Dispatches, Sends, registers, cycle, ExitIsOwn,
       InSection, InstructionAt, Owner, Owns, Sections, Shapes, TypeOK
  <1>9. Quiet'
    BY DEF IInv, Dispatches, Sends, cycle, Quiet, TypeOK
  <1>10. Interrupting'
    BY DEF IInv, Dispatches, Sends, registers, cycle, Interrupting, Alive, Answers,
       Pending, TypeOK
  <1>11. Answering'
    BY DEF IInv, Dispatches, Sends, registers, cycle, Answering, Alive, Answers, Pending,
       TypeOK
  <1>12. Targeting'
    BY DEF IInv, Dispatches, Sends, Moves, Targeting, TypeOK
  <1>. QED BY <1>1, <1>2, <1>3, <1>4, <1>5, <1>6, <1>7, <1>8, <1>9, <1>10, <1>11, <1>12 DEF IInv

LEMMA ReceivePIDPCInv ==
    ASSUME IInv, NEW k \in Cycles, ReceivePIDPC(k)
    PROVE  IInv'
  <1>1. TypeOK'
    BY ProcsAssumption DEF IInv, ReceivePIDPC, Goes, kernel, TypeOK, Shapes, State,
       Targeting, Stage
  <1>2. Shapes'
    BY DEF IInv, ReceivePIDPC, Goes, kernel, Shapes, Targeting, TypeOK
  <1>3. Sections'
    BY DEF IInv, ReceivePIDPC, Goes, Sections, InSection, TypeOK
  <1>4. Owner'
    BY ProcsAssumption DEF IInv, ReceivePIDPC, Goes, kernel, Owner, Owns, Sections,
       Targeting, TypeOK
  <1>5. Executing'
    BY DEF IInv, ReceivePIDPC, Goes, Executing, InstructionAt, Owner, Owns, Sections,
       TypeOK
  <1>6. Asking'
    BY DEF IInv, ReceivePIDPC, Goes, Asking, Asks, InstructionAt, Owner, Owns, Sections,
       TypeOK
  <1>7. GivingBack'
    BY DEF IInv, ReceivePIDPC, Goes, GivingBack, InstructionAt, Owner, Owns, Sections,
       Quiet, TypeOK
  <1>8. ExitIsOwn'
    BY DEF IInv, ReceivePIDPC, Goes, ExitIsOwn, InSection, InstructionAt, TypeOK
  <1>9. Quiet'
    BY DEF IInv, ReceivePIDPC, Goes, Quiet, TypeOK
  <1>10. Interrupting'
    BY DEF IInv, ReceivePIDPC, Goes, Interrupting, Alive, Answers, Pending, TypeOK
  <1>11. Answering'
    BY DEF IInv, ReceivePIDPC, Goes, Answering, Alive, Answers, Pending, TypeOK
  <1>12. Targeting'
    BY DEF IInv, ReceivePIDPC, kernel, Targeting, TypeOK
  <1>. QED BY <1>1, <1>2, <1>3, <1>4, <1>5, <1>6, <1>7, <1>8, <1>9, <1>10, <1>11, <1>12 DEF IInv

LEMMA InterruptsInv ==
    ASSUME InTime, IInv, NEW p \in Procs, Interrupts(p)
    PROVE  IInv'
  <1>1. TypeOK'
    BY DEF IInv, Interrupts, registers, cycle, kernel, TypeOK, Shapes, State
  <1>2. Shapes'
    BY DEF IInv, Interrupts, registers, cycle, kernel, Shapes, TypeOK
  <1>3. Sections'
    BY DEF IInv, Interrupts, InTime, registers, cycle, Sections, InSection, TypeOK
  <1>4. Owner'
    BY DEF IInv, Interrupts, registers, cycle, kernel, Owner, Owns, TypeOK
  <1>5. Executing'
    BY DEF IInv, Interrupts, registers, cycle, Executing, InstructionAt, TypeOK
  <1>6. Asking'
    BY DEF IInv, Interrupts, registers, cycle, Asking, Asks, InstructionAt, TypeOK
  <1>7. GivingBack'
    BY DEF IInv, Interrupts, registers, cycle, GivingBack, InstructionAt, TypeOK
  <1>8. Interrupting'
    <2>1. PICK k \in Cycles : Alive = {k} /\ Answers(k)
      BY DEF IInv, Interrupts, MayInterrupt, InTime
    <2>2. \A j \in Cycles : j # k => at[j] = "off"
      BY <2>1 DEF Alive
    <2>3. victim' = Pcb.pid
      BY <2>2 DEF IInv, Interrupts, Owner, Owns
    <2>4. "Exit" \notin signals
      BY <2>1, <2>2 DEF IInv, ExitIsOwn, InSection, Answers, Pending
    <2>5. signals' = {}
      BY <2>4 DEF IInv, Interrupts, Quiet
    <2>6. Alive' = {k} /\ Answers(k)'
      BY <2>1 DEF Interrupts, Alive, Answers, Pending, registers, cycle
    <2>. QED BY <2>3, <2>5, <2>6 DEF Interrupting, Interrupts, registers
  <1>9. Quiet'
    BY DEF IInv, Interrupts, cycle, Quiet, TypeOK
  <1>10. ExitIsOwn'
    BY <1>8 DEF Interrupting, ExitIsOwn, Interrupts
  <1>11. Answering'
    BY DEF IInv, Interrupts, registers, cycle, Answering, Alive, Answers, Pending, TypeOK
  <1>12. Targeting'
    BY DEF IInv, Interrupts, kernel, Targeting, TypeOK
  <1>. QED BY <1>1, <1>2, <1>3, <1>4, <1>5, <1>6, <1>7, <1>8, <1>9, <1>10, <1>11, <1>12 DEF IInv

LEMMA InterruptedInv ==
    ASSUME IInv, Interrupted
    PROVE  IInv'
  <1>1. TypeOK'
    BY DEF IInv, Interrupted, registers, cycle, kernel, TypeOK, Shapes, Signal
  <1>2. Shapes'
    BY DEF IInv, Interrupted, registers, cycle, kernel, Shapes, TypeOK
  <1>3. Sections'
    BY DEF IInv, Interrupted, registers, cycle, Sections, InSection, TypeOK
  <1>4. Owner'
    BY DEF IInv, Interrupted, registers, cycle, kernel, Owner, Owns, Interrupting, TypeOK
  <1>5. Executing'
    BY DEF IInv, Interrupted, registers, cycle, Executing, InstructionAt, TypeOK
  <1>6. Asking'
    BY DEF IInv, Interrupted, registers, cycle, Asking, Asks, InstructionAt, TypeOK
  <1>7. GivingBack'
    BY DEF IInv, Interrupted, registers, cycle, GivingBack, InstructionAt, TypeOK
  <1>8. ExitIsOwn'
    BY DEF IInv, Interrupted, registers, cycle, ExitIsOwn, InSection, InstructionAt,
       Interrupting, TypeOK
  <1>9. Quiet'
    BY DEF IInv, Interrupted, cycle, Quiet, Interrupting, TypeOK
  <1>10. Interrupting'
    BY DEF IInv, Interrupted, registers, cycle, Interrupting, Alive, Answers, Pending,
       TypeOK
  <1>11. Answering'
    BY DEF IInv, Interrupted, registers, cycle, Answering, Alive, Answers, Pending,
       Interrupting, TypeOK
  <1>12. Targeting'
    BY DEF IInv, Interrupted, kernel, Targeting, Interrupting, TypeOK
  <1>. QED BY <1>1, <1>2, <1>3, <1>4, <1>5, <1>6, <1>7, <1>8, <1>9, <1>10, <1>11, <1>12 DEF IInv

LEMMA AnsweredInv ==
    ASSUME IInv, Answered
    PROVE  IInv'
  <1>1. TypeOK'
    BY ProcsAssumption DEF IInv, Answered, Sends, Moves, registers, cycle, kernel, TypeOK,
       Shapes, State, Signal, Targeting
  <1>2. Shapes'
    BY DEF IInv, Answered, Sends, registers, cycle, kernel, Shapes, TypeOK
  <1>3. Sections'
    BY DEF IInv, Answered, registers, cycle, Sections, InSection, TypeOK
  <1>4. Owner'
    BY ProcsAssumption DEF IInv, Answered, Sends, Moves, registers, cycle, kernel, Owner,
       Owns, Answering, Alive, Targeting, TypeOK
  <1>5. Executing'
    BY DEF IInv, Answered, registers, cycle, Executing, InstructionAt, TypeOK
  <1>6. Asking'
    BY DEF IInv, Answered, registers, cycle, Asking, Asks, InstructionAt, TypeOK
  <1>7. GivingBack'
    BY DEF IInv, Answered, registers, cycle, GivingBack, InstructionAt, TypeOK
  <1>8. ExitIsOwn'
    BY DEF IInv, Answered, Sends, registers, cycle, ExitIsOwn, InSection, InstructionAt,
       Answering, TypeOK
  <1>9. Quiet'
    BY DEF IInv, Answered, Sends, cycle, Quiet, Answering, Alive, Targeting, TypeOK
  <1>10. Interrupting'
    BY DEF IInv, Answered, Sends, registers, cycle, Interrupting, Alive, Answers, Pending,
       Targeting, TypeOK
  <1>11. Answering'
    BY DEF IInv, Answered, Sends, registers, cycle, Answering, Alive, Answers, Pending,
       Targeting, TypeOK
  <1>12. Targeting'
    BY DEF IInv, Answered, Sends, Moves, kernel, Targeting, TypeOK
  <1>. QED BY <1>1, <1>2, <1>3, <1>4, <1>5, <1>6, <1>7, <1>8, <1>9, <1>10, <1>11, <1>12 DEF IInv

LEMMA SelectsInv ==
    ASSUME InTime, IInv, NEW k \in Cycles, Selects(k)
    PROVE  IInv'
  BY TakesInv, GoesOnInv DEF Selects

-----------------------------------------------------------------------------
(* The invariant and what follows from it *)

LEMMA InitInv ==
    ASSUME Init
    PROVE  IInv
  BY ProcsAssumption, ProgramAssumption
     DEF Init, IInv, TypeOK, Shapes, Sections, Owner, Executing, Asking, GivingBack, ExitIsOwn,
        Quiet,
         Interrupting, Answering, Targeting, InSection, Owns, Stage, State, Signal

\* Every step keeps the invariant.
LEMMA NextInv ==
    ASSUME InTime, KnownDevices, IInv, [Next]_vars
    PROVE  IInv'
  <1>1. ASSUME NEW k \in Cycles, Runs(k)
        PROVE  IInv'
    BY <1>1, FetchesInv, ExecutesInv, RepliesInv, ReturnsInv, SelectsInv, FinishesInv,
       RecieveSyscallInv, HandleReasonInv DEF Runs
  <1>2. ASSUME NEW k \in Cycles, ReceivePIDPC(k)
        PROVE  IInv'
    BY <1>2, ReceivePIDPCInv
  <1>3. ASSUME NEW p \in Procs, Unblocks(p) \/ Dispatches(p) \/ Interrupts(p)
        PROVE  IInv'
    BY <1>3, UnblocksInv, DispatchesInv, InterruptsInv
  <1>4. CASE Interrupted \/ Answered
    BY <1>4, InterruptedInv, AnsweredInv
  <1>5. CASE UNCHANGED vars
    BY <1>5
       DEF vars, IInv, TypeOK, Shapes, Sections, Owner, Executing, Asking, Asks, GivingBack,
       ExitIsOwn, Quiet, Interrupting, Answering, Targeting, InSection, Owns, Alive, Answers,
       Pending, InstructionAt
  <1>. QED BY <1>1, <1>2, <1>3, <1>4, <1>5 DEF Next

LEMMA Invariant ==
    ASSUME InTime, KnownDevices
    PROVE  Spec => []IInv
  <1>1. Init => IInv
    BY InitInv
  <1>2. IInv /\ [Next]_vars => IInv'
    BY NextInv
  <1>. QED BY <1>1, <1>2, PTL DEF Spec

\* Types hold: no program counter, of the CPU, of a request or of the kernel, leaves the
\* script of its process (exec, RecieveSyscall, HandleReason).
THEOREM CycleTypeOK ==
    ASSUME InTime, KnownDevices
    PROVE  Spec => []TypeOK
  <1>1. IInv => TypeOK
    BY DEF IInv
  <1>. QED BY <1>1, Invariant, PTL

\* A cycle fetches and executes for the process of the kernel only, and no other cycle
\* does (ciclo, receivePIDPC, HandleReason).
THEOREM OneCycleRuns ==
    ASSUME InTime, KnownDevices
    PROVE  Spec => []RunsTheProcess
  <1>1. IInv => RunsTheProcess
    <2>1. ASSUME IInv, NEW k \in Cycles, at[k] \in {"fetch", "exec"}
          PROVE  Owns(k) /\ Pcb.pid \in Procs
      BY <2>1 DEF IInv, Shapes, Sections, Owns
    <2>. QED BY <2>1 DEF IInv, Owner, RunsTheProcess
  <1>. QED BY <1>1, Invariant, PTL

\* No process is sent to a CPU that has a signal left (ciclo, interrupt, sendToWork).
THEOREM DispatchesAreClean ==
    ASSUME InTime, KnownDevices
    PROVE  Spec => []CleanStart
  <1>1. IInv => CleanStart
    BY DEF IInv, Quiet, ExitIsOwn, CleanStart
  <1>. QED BY <1>1, Invariant, PTL

-----------------------------------------------------------------------------
(* The refinement of ProgramOrder *)

Position == [p \in Procs |-> IF OnCPU(p) THEN Pcb.pc ELSE pcOf[p]]
Ended == {p \in Procs : state[p] = "EXIT"}

\* A step in which p, on the CPU, moves to the next instruction of its script.
LEMMA Advances ==
    ASSUME IInv, NEW k \in Cycles, Owns(k), InstructionAt.op # "EXIT",
           Pcb' = [Pcb EXCEPT !.pc = Order!Successor(Pcb.pid, Pcb.pc)],
           UNCHANGED <<state, pcOf, process, sts>>
    PROVE  Order!Next
  <1>1. Pcb.pid \in Procs /\ process = Pcb.pid /\ OnCPU(Pcb.pid) /\ Pcb.pid \notin Ended
    BY DEF IInv, Shapes, Owner, Owns, OnCPU, Ended
  <1>2. Pcb'.pc = Order!Successor(Pcb.pid, Pcb.pc)
    BY DEF IInv, Shapes
  <1>3. \A p \in Procs : OnCPU(p)' <=> OnCPU(p)
    BY DEF OnCPU
  <1>4. \A p \in Procs : OnCPU(p) => p = Pcb.pid
    BY <1>1 DEF OnCPU
  <1>5. Position' = [Position EXCEPT ![Pcb.pid] = Order!Successor(Pcb.pid, @)]
    BY <1>1, <1>2, <1>3, <1>4 DEF Position
  <1>6. Position[Pcb.pid] = Pcb.pc /\ Ended' = Ended
    BY <1>1 DEF Position, Ended
  <1>. QED BY <1>1, <1>5, <1>6 DEF Order!Next, Order!Step, InstructionAt, Position, Ended

\* A step after which every process is where it was, and none has ended.
LEMMA Stutters ==
    ASSUME \A p \in Procs : Position'[p] = Position[p],
           \A p \in Procs : state'[p] = "EXIT" <=> state[p] = "EXIT"
    PROVE  UNCHANGED Order!vars
  <1>1. Position' = Position
    BY DEF Position
  <1>2. Ended' = Ended
    BY DEF Ended
  <1>. QED BY <1>1, <1>2 DEF Order!vars, Position, Ended

LEMMA ExecutesInOrder ==
    ASSUME IInv, NEW k \in Cycles, Executes(k)
    PROVE  [Order!Next]_Order!vars
  <1>1. Owns(k) /\ instruction = InstructionAt /\ instruction.op \in Op
    BY DEF IInv, TypeOK, Sections, Executing, Owns, Executes
  <1>2. Pcb' = [Pcb EXCEPT !.pc = PCAfter] /\ UNCHANGED <<state, pcOf, process, sts>>
    BY DEF Executes, kernel, scheduler
  <1>3. CASE instruction.op \in {"NOOP", "GOTO", "IO"}
    <2>1. PCAfter = Order!Successor(Pcb.pid, Pcb.pc)
      BY <1>1, <1>3 DEF PCAfter, Order!Successor, InstructionAt
    <2>. QED BY <1>1, <1>2, <1>3, <2>1, Advances
  <1>4. CASE instruction.op \in {"INIT_PROC", "EXIT"}
    <2>1. Pcb' = Pcb
      BY <1>2, <1>4 DEF PCAfter, IInv, Shapes
    <2>. QED BY <1>2, <2>1, Stutters DEF Position, OnCPU
  <1>. QED BY <1>1, <1>3, <1>4 DEF Op

LEMMA RepliesInOrder ==
    ASSUME IInv, NEW k \in Cycles, Replies(k)
    PROVE  [Order!Next]_Order!vars
  <1>1. UNCHANGED <<state, pcOf, process, sts>> /\ Asks(k) /\ at[k] = "reply"
    BY DEF Replies, kernel, scheduler, IInv, Asking
  <1>2. CASE sent[k].order.op = "INIT_PROC"
    <2>1. Owns(k) /\ InstructionAt.op = "INIT_PROC"
      BY <1>1, <1>2 DEF Asks, Owns
    <2>2. Pcb' = [Pcb EXCEPT !.pc = Order!Successor(Pcb.pid, Pcb.pc)]
      BY <1>2, <2>1 DEF Replies, Order!Successor, InstructionAt, IInv, Shapes
    <2>. QED BY <1>1, <2>1, <2>2, Advances
  <1>3. CASE sent[k].order.op # "INIT_PROC"
    <2>1. Pcb' = Pcb
      BY <1>3 DEF Replies, IInv, Shapes
    <2>. QED BY <1>1, <2>1, Stutters DEF Position, OnCPU
  <1>. QED BY <1>2, <1>3

\* The kernel takes the program counter that the CPU sends: the process stays where it is.
LEMMA RecieveSyscallInOrder ==
    ASSUME KnownDevices, IInv, NEW k \in Cycles, RecieveSyscall(k)
    PROVE  [Order!Next]_Order!vars
  <1>1. Owns(k) /\ process = Pcb.pid /\ sent[k].pc = Pcb.pc /\ sts # "sending" /\ Asks(k)
    BY DEF IInv, Sections, Owner, Owns, Asking, Asks, RecieveSyscall
  <1>2. process \in Procs /\ process # None /\ state[process] = "EXEC"
    BY <1>1, ProcsAssumption DEF IInv, Shapes, Owner, Owns
  <1>3. UNCHANGED <<Pcb, sts>> /\ pcOf' = [pcOf EXCEPT ![process] = Pcb.pc]
    BY <1>1, <1>2 DEF RecieveSyscall, registers, scheduler
  <1>4. process' \in {process, None}
    BY <1>2 DEF RecieveSyscall, Blocks, Creates
  <1>5. \A p \in Procs : Position'[p] = Position[p]
    BY <1>1, <1>2, <1>3, <1>4, ProcsAssumption DEF Position, OnCPU, IInv, TypeOK, Shapes
  <1>6. \A p \in Procs : state'[p] = "EXIT" <=> state[p] = "EXIT"
    BY <1>1, <1>2 DEF RecieveSyscall, Blocks, Creates, Moves, Asks, KnownDevices, IInv, TypeOK
  <1>. QED BY <1>5, <1>6, Stutters

LEMMA HandleReasonInOrder ==
    ASSUME IInv, NEW k \in Cycles, HandleReason(k)
    PROVE  [Order!Next]_Order!vars
  <1>1. at[k] = "results" /\ sent[k].pid \in Procs /\ UNCHANGED <<Pcb, sts>>
    BY DEF IInv, TypeOK, HandleReason, registers, scheduler
  <1>2. CASE state[sent[k].pid] # "EXEC"
    <2>1. UNCHANGED <<state, pcOf, process>>
      BY <1>2 DEF HandleReason, kernel
    <2>. QED BY <1>1, <2>1, Stutters DEF Position, OnCPU
  <1>3. CASE state[sent[k].pid] = "EXEC"
    <2>1. result[k] = 0
      BY <1>1, <1>3, BackFromOwner
    <2>2. /\ process = Pcb.pid /\ sts # "sending"
          /\ sent[k].pid = Pcb.pid /\ sent[k].pc = Pcb.pc
          /\ Pcb.pid \in Procs /\ Pcb.pid # None
      BY <1>1, <2>1, ProcsAssumption DEF IInv, Owner, Owns, GivingBack
    <2>3. /\ pcOf' = [pcOf EXCEPT ![Pcb.pid] = Pcb.pc] /\ process' = None
          /\ state' = [state EXCEPT ![Pcb.pid] =
                          IF sent[k].reason = "Exit" THEN "EXIT" ELSE "READY"]
      BY <1>3, <2>2 DEF HandleReason, Moves
    <2>4. \A p \in Procs : Position'[p] = Position[p]
      BY <1>1, <2>2, <2>3, ProcsAssumption DEF Position, OnCPU, IInv, Shapes
    <2>5. CASE sent[k].reason = "Exit"
      <3>1. InstructionAt.op = "EXIT"
        BY <1>1, <2>5 DEF IInv, GivingBack
      <3>2. Position' = Position /\ Position[Pcb.pid] = Pcb.pc
        BY <2>2, <2>4 DEF Position, OnCPU
      <3>3. Pcb.pid \notin Ended /\ Ended' = Ended \cup {Pcb.pid}
        BY <1>3, <2>2, <2>3, <2>5 DEF Ended, IInv, TypeOK
      <3>. QED BY <2>2, <3>1, <3>2, <3>3
              DEF Order!Next, Order!End, InstructionAt, Position, Ended
    <2>6. CASE sent[k].reason # "Exit"
      <3>1. \A p \in Procs : state'[p] = "EXIT" <=> state[p] = "EXIT"
        BY <1>3, <2>2, <2>3, <2>6 DEF IInv, TypeOK
      <3>. QED BY <2>4, <3>1, Stutters
    <2>. QED BY <2>5, <2>6
  <1>. QED BY <1>2, <1>3

\* The process is sent with the program counter that the kernel has.
LEMMA KernelInOrder ==
    ASSUME IInv,
           \/ \E p \in Procs : Unblocks(p) \/ Dispatches(p) \/ Interrupts(p)
           \/ Interrupted \/ Answered
           \/ \E k \in Cycles : ReceivePIDPC(k)
    PROVE  [Order!Next]_Order!vars
  <1>1. ASSUME NEW p \in Procs, Unblocks(p)
        PROVE  UNCHANGED Order!vars
    BY <1>1, Stutters DEF Unblocks, Moves, Position, OnCPU, registers, scheduler, IInv, TypeOK
  <1>2. ASSUME NEW p \in Procs, Dispatches(p)
        PROVE  UNCHANGED Order!vars
    BY <1>2, ProcsAssumption, Stutters
       DEF Dispatches, Sends, Moves, Position, OnCPU, registers, IInv, TypeOK
  <1>3. ASSUME NEW p \in Procs, Interrupts(p)
        PROVE  UNCHANGED Order!vars
    BY <1>3, Stutters DEF Interrupts, Position, OnCPU, registers, kernel
  <1>4. CASE Interrupted
    BY <1>4, Stutters DEF Interrupted, Position, OnCPU, registers, kernel
  <1>5. CASE Answered
    <2>1. target \in Procs /\ state[target] = "READY" /\ sts = "answer" /\ process = None
      BY <1>5, ProcsAssumption DEF Answered, IInv, Targeting, Owner, Owns, Answering, Alive
    <2>. QED BY <1>5, <2>1, ProcsAssumption, Stutters
            DEF Answered, Sends, Moves, Position, OnCPU, registers, IInv, TypeOK
  <1>6. ASSUME NEW k \in Cycles, ReceivePIDPC(k)
        PROVE  UNCHANGED Order!vars
    BY <1>6, Stutters DEF ReceivePIDPC, Position, OnCPU, kernel, IInv, Targeting
  <1>. QED BY <1>1, <1>2, <1>3, <1>4, <1>5, <1>6

\* Every script runs in order, each instruction once, until its EXIT: the refinement of
\* ProgramOrder (exec, RecieveSyscall, HandleReason, receivePIDPC).
THEOREM ScriptsRunInOrder ==
    ASSUME InTime, KnownDevices
    PROVE  Spec => RunsInOrder
  <1>1. Init => Order!Init
    BY ProcsAssumption DEF Init, Order!Init, OnCPU
  <1>2. IInv /\ [Next]_vars => [Order!Next]_Order!vars
    <2>1. ASSUME IInv, NEW k \in Cycles,
                 Fetches(k) \/ Returns(k) \/ Selects(k) \/ Finishes(k)
          PROVE  UNCHANGED Order!vars
      <3>1. UNCHANGED <<Pcb, state, pcOf, process, sts>>
        BY <2>1 DEF Fetches, Returns, Selects, Finishes, registers, kernel, scheduler
      <3>. QED BY <3>1, Stutters DEF Position, OnCPU
    <2>2. ASSUME IInv, NEW k \in Cycles, Runs(k)
          PROVE  [Order!Next]_Order!vars
      BY <2>1, <2>2, ExecutesInOrder, RepliesInOrder, RecieveSyscallInOrder,
         HandleReasonInOrder DEF Runs
    <2>3. ASSUME UNCHANGED vars
          PROVE  UNCHANGED Order!vars
      BY <2>3, Stutters DEF vars, Position, OnCPU
    <2>. QED BY <2>2, <2>3, KernelInOrder DEF Next
  <1>. QED BY <1>1, <1>2, Invariant, PTL DEF Spec, RunsInOrder, Order!Spec
=============================================================================
