------------------------------ MODULE CPUCycle ------------------------------
(***************************************************************************)
(* cpu/cpu.go: the instruction cycle of one CPU, its registers, its signal *)
(* channels and its handlers, and the part of the kernel that talks to it: *)
(* the short-term scheduler under SRT, the handler of the system calls and *)
(* the handler of the processes given back.                                *)
(*                                                                         *)
(* Every dispatch starts a goroutine that runs the cycle, and they share   *)
(* Pcb, instruction and status.  READ and WRITE are in CPUMemory: here      *)
(* they are NOOP.  DUMP_MEMORY is an IO whose device is always there.       *)
(***************************************************************************)
EXTENDS Integers, FiniteSets

CONSTANTS Procs,      \* the pids
          Initially,  \* the processes that are READY at the start
          Program,    \* Program[p][pc]: the instruction of p at pc
          Devices,    \* the names of the devices that are connected
          Cycles,     \* the goroutines of cycles that may be alive at a time
          None,       \* no process, no instruction
          SRT,        \* whether SCHEDULER_ALGORITHM is SRT
          Hazards     \* which conditions known to break the promise may arise

Hazard == {"lateInterrupt",  \* an interrupt for a cycle that ends without answering it
           "lateAnswer"}     \* a system call answered amid an instruction of the next process

Op == {"NOOP", "GOTO", "IO", "INIT_PROC", "EXIT"}
Line(p) == DOMAIN Program[p]

ASSUME ProcsAssumption == None \notin Procs /\ Initially \subseteq Procs
ASSUME ProgramAssumption == \A p \in Procs :
    /\ 0 \in Line(p) /\ Line(p) \subseteq Nat
    /\ \A n \in Line(p) :
        /\ Program[p][n].op \in Op
        /\ Program[p][n].op \in {"NOOP", "IO", "INIT_PROC"} => n + 1 \in Line(p)
        /\ Program[p][n].op = "GOTO" => Program[p][n].to \in Line(p)
        /\ Program[p][n].op = "INIT_PROC" => Program[p][n].child \in Procs
ASSUME HazardsAssumption == Hazards \subseteq Hazard /\ SRT \in BOOLEAN

VARIABLES
    Pcb,          \* the process and the program counter of the CPU
    instruction,  \* the instruction fetched
    status,       \* the global that exec returns
    signals,      \* the signals in InterruptChan, ExitChan and FinishBeforeInterrupt
    at,           \* at[k]: what goroutine k does next, "off" if it is not alive
    result,       \* result[k]: what exec returned to k
    sent,         \* sent[k]: the request of k that the kernel has not handled
    state,        \* state[p]: the queue of p
    pcOf,         \* pcOf[p]: the program counter in the kernel's PCB of p
    process,      \* the process that the kernel believes on the CPU
    sts,          \* what the short-term scheduler does next
    target,       \* the process that it wants on the CPU
    victim        \* the process that it interrupts

cycle == <<at, result, sent>>
registers == <<Pcb, instruction, status>>
kernel == <<state, pcOf, process>>
scheduler == <<sts, target, victim>>
vars == <<Pcb, instruction, status, signals, at, result, sent,
          state, pcOf, process, sts, target, victim>>

State == {"ABSENT", "READY", "EXEC", "BLOCKED", "EXIT"}
Stage == {"off", "fetch", "exec", "syscall", "reply", "return", "select", "results", "finish"}
Signal == {"Interrupt", "Exit", "Finish"}

Init ==
    /\ Pcb = [pid |-> None, pc |-> 0] /\ instruction = None /\ status = 0 /\ signals = {}
    /\ at = [k \in Cycles |-> "off"]
    /\ result = [k \in Cycles |-> 0]
    /\ sent = [k \in Cycles |-> None]
    /\ state = [p \in Procs |-> IF p \in Initially THEN "READY" ELSE "ABSENT"]
    /\ pcOf = [p \in Procs |-> 0]
    /\ process = None /\ sts = "top" /\ target = None /\ victim = None

Alive == {k \in Cycles : at[k] # "off"}

(***************************************************************************)
(* The conditions of Hazards.  A cycle answers an interrupt in the select   *)
(* that follows an instruction; after the select of its last one nobody    *)
(* does, and EXIT leaves a signal of its own for that select.  The section *)
(* of a cycle is where it depends on the global status.                    *)
(***************************************************************************)
Pending(k) == IF at[k] = "fetch" THEN Program[Pcb.pid][Pcb.pc] ELSE instruction
Answers(k) ==
    /\ at[k] \in {"fetch", "exec", "syscall", "reply", "return", "select"}
    /\ at[k] = "fetch" => Pcb.pc \in Line(Pcb.pid)
    /\ Pending(k).op # "EXIT"
MayInterrupt ==
    \/ "lateInterrupt" \in Hazards
    \/ \E k \in Cycles : Alive = {k} /\ Answers(k)
MaySelect == "lateInterrupt" \in Hazards \/ sts # "interrupt"
Alone(k) ==
    \/ "lateAnswer" \in Hazards
    \/ \A j \in Cycles \ {k} : at[j] \notin {"return", "select"}

-----------------------------------------------------------------------------
(* The goroutine k of a cycle. *)

Goes(k, stage) == at' = [at EXCEPT ![k] = stage]

\* A fetch that memoria refuses, past the end of the script, is tried again for ever.
Fetches(k) ==
    /\ at[k] = "fetch" /\ Pcb.pc \in Line(Pcb.pid)
    /\ instruction' = Program[Pcb.pid][Pcb.pc]
    /\ Goes(k, "exec")
    /\ UNCHANGED <<Pcb, status, signals, result, sent, kernel, scheduler>>

\* Mutated form of PCAfter: IO sends the program counter before it moves.
PCAfterIOLate == CASE instruction.op = "GOTO" -> instruction.to
                   [] instruction.op = "NOOP" -> Pcb.pc + 1
                   [] OTHER -> Pcb.pc

\* INIT_PROC moves the program counter when it is answered, EXIT never.
PCAfter == CASE instruction.op = "GOTO" -> instruction.to
             [] instruction.op \in {"NOOP", "IO"} -> Pcb.pc + 1
             [] OTHER -> Pcb.pc

IsSyscall == instruction.op \in {"IO", "INIT_PROC"}

\* The pid in the request is not looked at.
sendSyscall(k) ==
    /\ sent' = [sent EXCEPT ![k] = [pc |-> PCAfter, order |-> instruction]]
    /\ Goes(k, "syscall")

\* exec up to its return, or up to the request of a system call.  The buffers hold
\* one signal: EXIT waits while ExitChan is full.
Executes(k) ==
    /\ at[k] = "exec" /\ Alone(k)
    /\ status' = 0
    /\ Pcb' = [Pcb EXCEPT !.pc = PCAfter]
    /\ IF instruction.op = "EXIT"
       THEN "Exit" \notin signals /\ signals' = signals \cup {"Exit"}
       ELSE UNCHANGED signals
    /\ IF IsSyscall
       THEN sendSyscall(k)
       ELSE Goes(k, "return") /\ UNCHANGED sent
    /\ UNCHANGED <<instruction, result, kernel, scheduler>>

\* Mutated form of Replies: the program counter moves after every system call.
RepliesTwice(k) ==
    /\ at[k] = "reply" /\ Alone(k)
    /\ status' = result[k]
    /\ Pcb' = [Pcb EXCEPT !.pc = @ + 1]
    /\ sent' = [sent EXCEPT ![k] = None]
    /\ Goes(k, "return")
    /\ UNCHANGED <<instruction, signals, result, kernel, scheduler>>

\* The answer to a system call arrives; after INIT_PROC the program counter moves.
Replies(k) ==
    /\ at[k] = "reply" /\ Alone(k)
    /\ status' = result[k]
    /\ Pcb' = [Pcb EXCEPT !.pc = IF sent[k].order.op = "INIT_PROC" THEN @ + 1 ELSE @]
    /\ sent' = [sent EXCEPT ![k] = None]
    /\ Goes(k, "return")
    /\ UNCHANGED <<instruction, signals, result, kernel, scheduler>>

\* exec returns the global status, whatever it is by now.
Returns(k) ==
    /\ at[k] = "return"
    /\ result' = [result EXCEPT ![k] = status]
    /\ Goes(k, "select")
    /\ UNCHANGED <<registers, signals, sent, kernel, scheduler>>

\* Mutated form of Takes: the signal stays in its channel.
TakesAndLeaves(k, reason) ==
    /\ reason \in signals /\ UNCHANGED signals
    /\ sent' = [sent EXCEPT ![k] = [pid |-> Pcb.pid, pc |-> Pcb.pc, reason |-> reason]]
    /\ Goes(k, "results")

\* The cases of the select after exec: a signal gives the process back.
Takes(k, reason) ==
    /\ reason \in signals
    /\ signals' = signals \ {reason}
    /\ sent' = [sent EXCEPT ![k] = [pid |-> Pcb.pid, pc |-> Pcb.pc, reason |-> reason]]
    /\ Goes(k, "results")

\* Its default: the cycle ends after a system call that blocks, and goes on otherwise.
GoesOn(k) ==
    /\ signals \cap {"Interrupt", "Exit"} = {}
    /\ Goes(k, IF result[k] = -1 THEN "off" ELSE "fetch")
    /\ UNCHANGED <<signals, sent>>

Selects(k) ==
    /\ at[k] = "select" /\ MaySelect
    /\ Takes(k, "Interrupt") \/ Takes(k, "Exit") \/ GoesOn(k)
    /\ UNCHANGED <<registers, result, kernel, scheduler>>

\* Mutated form of Finishes: nobody tells the handler of the interrupt.
FinishesSilently(k) ==
    /\ at[k] = "finish" /\ "Finish" \notin signals
    /\ Goes(k, "off")
    /\ UNCHANGED <<registers, signals, result, sent, kernel, scheduler>>

\* Mutated form of Finishes: the cycle goes on after it gave the process back.
FinishesAndGoesOn(k) ==
    /\ at[k] = "finish" /\ "Finish" \notin signals
    /\ signals' = signals \cup {"Finish"}
    /\ Goes(k, "fetch")
    /\ UNCHANGED <<registers, result, sent, kernel, scheduler>>

\* The signal that lets the handler of the interrupt answer STS.
Finishes(k) ==
    /\ at[k] = "finish" /\ "Finish" \notin signals
    /\ signals' = signals \cup {"Finish"}
    /\ Goes(k, "off")
    /\ UNCHANGED <<registers, result, sent, kernel, scheduler>>

-----------------------------------------------------------------------------
(* The kernel's handlers of the requests of goroutine k. *)

Moves(p, to) == state' = [state EXCEPT ![p] = to]

\* IO on a device that is not connected ends the process, which keeps its CPU.
Blocks(k, p, known) ==
    /\ Moves(p, IF known THEN "BLOCKED" ELSE "EXIT")
    /\ process' = IF known THEN None ELSE process
    /\ result' = [result EXCEPT ![k] = -1]

Creates(k, child) ==
    /\ state' = [state EXCEPT ![child] = IF @ = "ABSENT" THEN "READY" ELSE @]
    /\ result' = [result EXCEPT ![k] = 0]
    /\ UNCHANGED process

\* RecieveSyscall takes the process of the CPU that calls, whatever pid it sends.
RecieveSyscall(k) ==
    /\ at[k] = "syscall"
    /\ Goes(k, "reply")
    /\ IF process = None
       THEN result' = [result EXCEPT ![k] = -1] /\ UNCHANGED kernel
       ELSE LET order == sent[k].order IN
            /\ pcOf' = [pcOf EXCEPT ![process] = sent[k].pc]
            /\ \/ order.op = "IO" /\ Blocks(k, process, order.device \in Devices)
               \/ order.op = "INIT_PROC" /\ Creates(k, order.child)
    /\ UNCHANGED <<registers, signals, sent, scheduler>>

\* Mutated form of HandleReason: the program counter sent is forgotten.
HandleReasonOnly(k) ==
    /\ at[k] = "results"
    /\ LET r == sent[k] IN
       /\ IF state[r.pid] = "EXEC"
          THEN /\ process' = IF process = r.pid THEN None ELSE process
               /\ Moves(r.pid, IF r.reason = "Exit" THEN "EXIT" ELSE "READY")
          ELSE UNCHANGED <<state, process>>
       /\ Goes(k, IF r.reason = "Interrupt" THEN "finish" ELSE "off")
    /\ sent' = [sent EXCEPT ![k] = None]
    /\ UNCHANGED <<registers, signals, result, pcOf, scheduler>>

\* HandleReason does nothing for a process that is not in EXEC.
HandleReason(k) ==
    /\ at[k] = "results"
    /\ LET r == sent[k] IN
       /\ IF state[r.pid] = "EXEC"
          THEN /\ pcOf' = [pcOf EXCEPT ![r.pid] = r.pc]
               /\ process' = IF process = r.pid THEN None ELSE process
               /\ Moves(r.pid, IF r.reason = "Exit" THEN "EXIT" ELSE "READY")
          ELSE UNCHANGED kernel
       /\ Goes(k, IF r.reason = "Interrupt" THEN "finish" ELSE "off")
    /\ sent' = [sent EXCEPT ![k] = None]
    /\ UNCHANGED <<registers, signals, result, scheduler>>

\* The device ends the IO of p, perhaps before the system call is answered.
Unblocks(p) ==
    /\ state[p] = "BLOCKED"
    /\ Moves(p, "READY")
    /\ UNCHANGED <<registers, signals, cycle, pcOf, process, scheduler>>

-----------------------------------------------------------------------------
(* The short-term scheduler and the handlers of the CPU that it calls. *)

Sends(p) ==
    /\ Moves(p, "EXEC")
    /\ process' = p /\ target' = p /\ sts' = "sending"
    /\ victim' = None
    /\ UNCHANGED pcOf

\* The CPU is free: p is taken from READY and sent.
Dispatches(p) ==
    /\ sts = "top" /\ process = None /\ state[p] = "READY"
    /\ Sends(p)
    /\ UNCHANGED <<registers, signals, cycle>>

\* receivePIDPC: the registers are overwritten and a new goroutine starts.
ReceivePIDPC(k) ==
    /\ sts = "sending" /\ at[k] = "off"
    /\ Pcb' = [pid |-> target, pc |-> pcOf[target]]
    /\ Goes(k, "fetch")
    /\ result' = [result EXCEPT ![k] = 0]
    /\ sts' = "top" /\ target' = None
    /\ UNCHANGED <<instruction, status, signals, sent, kernel, victim>>

\* The CPU is busy and the estimates say that p goes first.
Interrupts(p) ==
    /\ SRT /\ sts = "top" /\ process # None /\ state[p] = "READY" /\ MayInterrupt
    /\ sts' = "interrupt" /\ target' = p /\ victim' = process
    /\ UNCHANGED <<registers, signals, cycle, kernel>>

\* interrupt: for another process than the one in Pcb the answer is an error, and STS
\* returns for good.
Interrupted ==
    /\ sts = "interrupt"
    /\ IF Pcb.pid = victim
       THEN "Interrupt" \notin signals /\ signals' = signals \cup {"Interrupt"} /\ sts' = "answer"
       ELSE sts' = "dead" /\ UNCHANGED signals
    /\ UNCHANGED <<registers, cycle, kernel, target, victim>>

\* The handler of the interrupt takes its signal and answers; STS sends the target.
Answered ==
    /\ sts = "answer" /\ "Finish" \in signals
    /\ signals' = signals \ {"Finish"}
    /\ IF state[target] = "READY" THEN Sends(target)
       ELSE sts' = "dead" /\ UNCHANGED <<kernel, target, victim>>
    /\ UNCHANGED <<registers, cycle>>

-----------------------------------------------------------------------------
Runs(k) ==
    \/ Fetches(k) \/ Executes(k) \/ Replies(k) \/ Returns(k) \/ Selects(k) \/ Finishes(k)
    \/ RecieveSyscall(k) \/ HandleReason(k)

Next ==
    \/ \E k \in Cycles : Runs(k) \/ ReceivePIDPC(k)
    \/ \E p \in Procs : Unblocks(p) \/ Dispatches(p) \/ Interrupts(p)
    \/ Interrupted \/ Answered

Fairness ==
    /\ \A k \in Cycles : WF_vars(Runs(k))
    /\ WF_vars(\E k \in Cycles : ReceivePIDPC(k))
    /\ \A p \in Procs : WF_vars(Unblocks(p))
    /\ WF_vars(\E p \in Procs : Dispatches(p))
    /\ WF_vars(Interrupted) /\ WF_vars(Answered)

Spec == Init /\ [][Next]_vars
LiveSpec == Spec /\ Fairness

-----------------------------------------------------------------------------
\* Types.  The program counters of the CPU, of the requests and of the kernel stay inside
\* the script of their process.
TypeOK ==
    /\ Pcb.pid \in Procs \cup {None}
    /\ Pcb.pid # None => Pcb.pc \in Line(Pcb.pid)
    /\ status \in {-1, 0} /\ signals \subseteq Signal
    /\ at \in [Cycles -> Stage] /\ result \in [Cycles -> {-1, 0}]
    /\ \A k \in Cycles :
        /\ at[k] = "exec" => instruction.op \in Op
        /\ at[k] \in {"syscall", "reply"} => sent[k].order.op \in {"IO", "INIT_PROC"}
        /\ at[k] = "results" =>
            /\ sent[k].pid \in Procs /\ sent[k].pc \in Line(sent[k].pid)
            /\ sent[k].reason \in {"Interrupt", "Exit"}
    /\ state \in [Procs -> State] /\ \A p \in Procs : pcOf[p] \in Line(p)
    /\ sts \in {"top", "sending", "interrupt", "answer", "dead"}
    /\ {process, target, victim} \subseteq Procs \cup {None}

\* A cycle fetches and executes only for the process that the kernel believes on the CPU,
\* and only one cycle does: no process runs on while it is READY, BLOCKED or being sent.
RunsTheProcess ==
    \A k \in Cycles : at[k] \in {"fetch", "exec"} =>
        /\ process = Pcb.pid /\ state[Pcb.pid] = "EXEC" /\ sts # "sending"
        /\ \A j \in Cycles \ {k} : at[j] \notin {"fetch", "exec"}

\* A process is sent to a CPU without signals left from the one before: a stale signal of
\* ExitChan would end it at its first instruction, a stale interrupt would give it back.
CleanStart == sts = "sending" => signals = {}

\* Every instruction of a script runs once and in order, whatever dispatches, system calls
\* and interrupts come between: the process on the CPU is where Pcb says, the others are
\* where the kernel's PCB says.
OnCPU(p) == process = p /\ sts # "sending"
Order == INSTANCE ProgramOrder WITH
    position <- [p \in Procs |-> IF OnCPU(p) THEN Pcb.pc ELSE pcOf[p]],
    ended <- {p \in Procs : state[p] = "EXIT"}
RunsInOrder == Order!Spec

\* STS does not wait for ever for a CPU that it interrupts, nor gives up.
InterruptsAreAnswered == sts \in {"interrupt", "answer"} ~> sts \in {"top", "sending"}

\* Every process that was created ends: no interrupt, answer or signal lost on the way takes
\* the CPU or the scheduler from it, and every burst gets on.
ProcessesEnd == \A p \in Procs : state[p] # "ABSENT" ~> state[p] = "EXIT"
=============================================================================
