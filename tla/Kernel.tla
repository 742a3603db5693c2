------------------------------- MODULE Kernel -------------------------------
(***************************************************************************)
(* The kernel: its queues, the three scheduler goroutines LTS, STS and MTS, *)
(* the HTTP handlers that the CPUs and the devices call, the suspension     *)
(* timers and the dump goroutines.                                          *)
(*                                                                          *)
(* A goroutine is interrupted where it waits: at a channel, at a request to *)
(* memoria or to a CPU, at UnsuspendMutex.  Between two of these points it  *)
(* is one action, and a queue operation is atomic; sendToWait alone is also *)
(* interrupted while it holds a process that it has taken from its queue,   *)
(* which the dump goroutines may look for.  All the signal channels are     *)
(* unbuffered and every sender uses select/default: a signal is lost when   *)
(* its receiver is not waiting, so a thread that has found nothing to do    *)
(* passes through a state of its own ("to...") before it waits.             *)
(*                                                                          *)
(* Memoria is reduced to its capacity, a device to the moment at which it   *)
(* finishes.  SchedulerAlgorithm is FIFO.                                   *)
(***************************************************************************)
EXTENDS Integers, Sequences, FiniteSets

CONSTANTS Procs,          \* the processes that may come to exist
          Initial,        \* the one main() creates
          CPUs,           \* the CPUs that may connect
          None,           \* no process
          Size,           \* Size[p]: memory that p asks for
          MemorySize,     \* memory there is
          Ingress,        \* ReadyIngressAlgorithm: "FIFO" or "PMCP"
          MaxCalls,       \* bound: blocking syscalls of a process
          Dumps,          \* do processes call DUMP_MEMORY?
          MissingDevices, \* do processes name devices that are not connected?
          DispatchFaults, \* may a dispatch to a CPU fail?
          ShortGaps       \* is a thread asleep before anything else happens
                          \* once it has found nothing to do?

ASSUME KernelAssumption ==
    /\ Initial \in Procs /\ None \notin Procs
    /\ Size \in [Procs -> Nat] /\ MemorySize \in Nat /\ MaxCalls \in Nat
    /\ Ingress \in {"FIFO", "PMCP"}
    /\ {Dumps, MissingDevices, DispatchFaults, ShortGaps} \subseteq BOOLEAN

States == {"NEW", "READY", "EXEC", "BLOCKED", "SUSP_BLOCKED", "SUSP_READY", "EXIT"}

VARIABLES
    state,         \* state[p]: PCB.state; "ABSENT" before CreateProcess
    queue,         \* queue[s]: the queue of state s
    AvailableCPUs, \* the registered CPUs, in order
    cpu,           \* cpu[c]: CPUConnection.Process
    MTSQueue,      \* MTSQueue[p]: the Blocked entry of p: "none", "io" or "dump"
    TimerRunning,  \* TimerRunning[p]
    timers,        \* <<p, n>>: a sendToWait sleeps for the n-th wait of p
    suspender,     \* the sendToWait that holds UnsuspendMutex, and how far it is
    dumping,       \* the processes whose dump memoria has not answered
    deleting,      \* deleting[p]: who has called TerminateProcess for p
    last,          \* the process whose termination ends the kernel
    calls,         \* calls[p]: blocking syscalls made
    memory,        \* memory[p]: "none", "RAM", "SWAP" or "gone" in memoria
    free,          \* memoria's remainingMemory
    lts, ltsProc,  \* where LTS is, and the process it initialises
    sts, stsHand,  \* where STS is, and the process and CPU of its request
    mts, mtsProc,  \* where MTS is, and the process it brings back
    halted         \* ClearAndExit has run

procs == <<state, queue, calls>>
waits == <<MTSQueue, TimerRunning, timers, suspender, dumping>>
exits == <<deleting, last, halted>>
memoria == <<memory, free>>
cpus == <<AvailableCPUs, cpu>>
LTSvars == <<lts, ltsProc>>
STSvars == <<sts, stsHand>>
MTSvars == <<mts, mtsProc>>
vars == <<procs, waits, exits, memoria, cpus, LTSvars, STSvars, MTSvars>>

Elements(s) == {s[i] : i \in DOMAIN s}
Created == {p \in Procs : state[p] # "ABSENT"}
NoHand == <<None, None>>
Idle == [proc |-> None, wait |-> 0, step |-> "idle"]

TypeOK ==
    /\ state \in [Procs -> States \union {"ABSENT"}]
    /\ queue \in [States -> Seq(Procs)]
    /\ AvailableCPUs \in Seq(CPUs)
    /\ cpu \in [CPUs -> Procs \union {None}]
    /\ MTSQueue \in [Procs -> {"none", "io", "dump"}]
    /\ TimerRunning \in [Procs -> BOOLEAN]
    /\ timers \subseteq Procs \X (1 .. MaxCalls)
    /\ suspender \in [proc : Procs \union {None}, wait : 0 .. MaxCalls,
                      step : {"idle", "taken", "asking"}]
    /\ dumping \subseteq Procs
    /\ deleting \in [Procs -> {"no", "exit", "result", "missing", "dump"}]
    /\ last \in Procs \union {None}
    /\ calls \in [Procs -> 0 .. MaxCalls]
    /\ memory \in [Procs -> {"none", "RAM", "SWAP", "gone"}]
    /\ free \in Int
    /\ lts \in {"stopped", "top", "search", "init", "toResume", "resume",
                "toEmpty", "empty", "toRetry", "retry"}
    /\ ltsProc \in Procs \union {None} /\ (lts = "init" <=> ltsProc # None)
    /\ sts \in {"start", "toFirst", "first", "top", "send", "toEmpty", "empty", "toCPU", "cpu"}
    /\ stsHand \in (Procs \X CPUs) \union {NoHand} /\ (sts = "send" <=> stsHand # NoHand)
    /\ mts \in {"top", "drain", "ask", "toWait", "wait"}
    /\ mtsProc \in Procs \union {None} /\ (mts = "ask" <=> mtsProc # None)
    /\ halted \in BOOLEAN

Init ==
    /\ state = [p \in Procs |-> IF p = Initial THEN "NEW" ELSE "ABSENT"]
    /\ queue = [s \in States |-> IF s = "NEW" THEN <<Initial>> ELSE <<>>]
    /\ AvailableCPUs = <<>>
    /\ cpu = [c \in CPUs |-> None]
    /\ MTSQueue = [p \in Procs |-> "none"]
    /\ TimerRunning = [p \in Procs |-> FALSE]
    /\ timers = {} /\ suspender = Idle /\ dumping = {}
    /\ deleting = [p \in Procs |-> "no"] /\ last = None
    /\ calls = [p \in Procs |-> 0]
    /\ memory = [p \in Procs |-> "none"] /\ free = MemorySize
    /\ lts = "stopped" /\ ltsProc = None
    /\ sts = "start" /\ stsHand = NoHand
    /\ mts = "top" /\ mtsProc = None
    /\ halted = FALSE

-----------------------------------------------------------------------------
(* Queues and signals *)

\* Mutated form of Without: the shortened slice is not stored.
StillThere(q, p) == q
\* Those behind p move up.
Without(q, p) ==
    IF p \notin Elements(q) THEN q
    ELSE [k \in 1 .. Len(q) - 1 |-> IF \E j \in 1 .. k : q[j] = p THEN q[k + 1] ELSE q[k]]

\* Enqueue: the state first, then the tail of the queue of that state.
Enqueued(q, s, p) == [q EXCEPT ![s] = Append(@, p)]
\* RemoveByPID of one queue, Enqueue in another.
Moved(q, from, to, p) == Enqueued([q EXCEPT ![from] = Without(@, p)], to, p)

Move(from, to, p) ==
    /\ queue' = Moved(queue, from, to, p)
    /\ state' = [state EXCEPT ![p] = to]

\* Mutated form of Candidates: nil is not told from a process.
CandidatesOrNone(s) == IF queue[s] = <<>> THEN {None} ELSE {Head(queue[s])}
\* The head under FIFO; under PMCP the queue is sorted by size first.
Candidates(s) ==
    IF Ingress = "FIFO" /\ queue[s] # <<>> THEN {Head(queue[s])}
    ELSE {p \in Elements(queue[s]) : \A r \in Elements(queue[s]) : Size[p] <= Size[r]}

SignalSTSEmpty == sts' = IF sts = "empty" THEN "top" ELSE sts
\* Mutated form of SignalCpuAvailable: the signal is never sent.
SignalsNobody == sts' = sts
SignalCpuAvailable == sts' = IF sts \in {"cpu", "first"} THEN "top" ELSE sts
UnlockSTS == sts' = IF sts \in {"empty", "cpu", "first"} THEN "top" ELSE sts
UnlockMTS == mts' = IF mts = "wait" THEN "top" ELSE mts
SignalLTSEmpty == lts' = IF lts = "empty" THEN "top" ELSE lts
\* Mutated form of SignalLTS: RetryInitialization is not among the cases.
SignalsOnlyEmpty == lts' = IF lts = "empty" THEN "top" ELSE lts
\* The select of MTS over RetryInitialization and LTSEmpty.
SignalLTS == lts' = CASE lts = "resume" -> "search"
                      [] lts \in {"retry", "empty"} -> "top"
                      [] OTHER -> lts

\* Mutated form of FreeCPU: the CPU keeps the process.
KeepsCPU(p) == UNCHANGED cpu
FreeCPU(p) == cpu' = [c \in CPUs |-> IF cpu[c] = p THEN None ELSE cpu[c]]
\* Mutated form of FreeCPUs: a CPU is taken whether it is free or not.
AnyCPUs == DOMAIN AvailableCPUs
FreeCPUs == {i \in DOMAIN AvailableCPUs : cpu[AvailableCPUs[i]] = None}

\* A thread that has found nothing to do and is not asleep yet.
InGap == lts \in {"toResume", "toEmpty", "toRetry"} \/ sts \in {"toFirst", "toEmpty", "toCPU"}
         \/ mts = "toWait"
Running == ~halted /\ (ShortGaps => ~InGap)

-----------------------------------------------------------------------------
(* LTS *)

\* main() sends on LTSStopped when the user presses enter.
StartLTS ==
    /\ Running /\ lts = "stopped" /\ lts' = "top"
    /\ UNCHANGED <<procs, waits, exits, memoria, cpus, ltsProc, STSvars, MTSvars>>

LTSYields ==
    /\ Running /\ lts = "top" /\ queue["SUSP_READY"] # <<>>
    /\ lts' = "toResume" /\ UnlockMTS
    /\ UNCHANGED <<procs, waits, exits, memoria, cpus, ltsProc, STSvars, mtsProc>>

LTSSearching == lts = "search" \/ (lts = "top" /\ queue["SUSP_READY"] = <<>>)

LTSFindsNothing ==
    /\ Running /\ LTSSearching /\ queue["NEW"] = <<>>
    /\ lts' = "toEmpty" /\ SignalSTSEmpty
    /\ UNCHANGED <<procs, waits, exits, memoria, cpus, ltsProc, stsHand, MTSvars>>

LTSFinds ==
    /\ Running /\ LTSSearching
    /\ ltsProc' \in Candidates("NEW")
    /\ lts' = "init"
    /\ UNCHANGED <<procs, waits, exits, memoria, cpus, STSvars, MTSvars>>

\* TryInititializeProcess: memoria's answer, and what it leads to.
LTSInitializes ==
    /\ Running /\ lts = "init" /\ Size[ltsProc] <= free
    /\ memory' = [memory EXCEPT ![ltsProc] = "RAM"]
    /\ free' = free - Size[ltsProc]
    /\ Move("NEW", "READY", ltsProc)
    /\ SignalSTSEmpty
    /\ lts' = "top" /\ ltsProc' = None
    /\ UNCHANGED <<calls, waits, exits, cpus, stsHand, MTSvars>>

LTSIsRefused ==
    /\ Running /\ lts = "init" /\ Size[ltsProc] > free
    /\ lts' = "toRetry" /\ ltsProc' = None
    /\ UNCHANGED <<procs, waits, exits, memoria, cpus, STSvars, MTSvars>>

-----------------------------------------------------------------------------
(* STS *)

STSStarts ==
    /\ Running /\ sts = "start"
    /\ sts' = IF AvailableCPUs = <<>> THEN "toFirst" ELSE "top"
    /\ UNCHANGED <<procs, waits, exits, memoria, cpus, LTSvars, stsHand, MTSvars>>

\* A free CPU, a process for it, and sendToExecute up to its request.
STSTakes ==
    /\ Running /\ sts = "top" /\ FreeCPUs # {} /\ queue["READY"] # <<>>
    /\ \E i \in FreeCPUs :
          /\ \A j \in FreeCPUs : i <= j
          /\ stsHand' = <<Head(queue["READY"]), AvailableCPUs[i]>>
    /\ queue' = Enqueued([queue EXCEPT !["READY"] = Tail(@)], "EXEC", stsHand'[1])
    /\ state' = [state EXCEPT ![stsHand'[1]] = "EXEC"]
    /\ cpu' = [cpu EXCEPT ![stsHand'[2]] = stsHand'[1]]
    /\ sts' = "send"
    /\ UNCHANGED <<calls, waits, exits, memoria, AvailableCPUs, LTSvars, MTSvars>>

STSFindsNoProcess ==
    /\ Running /\ sts = "top" /\ FreeCPUs # {} /\ queue["READY"] = <<>>
    /\ sts' = "toEmpty"
    /\ UNCHANGED <<procs, waits, exits, memoria, cpus, LTSvars, stsHand, MTSvars>>

STSFindsNoCPU ==
    /\ Running /\ sts = "top" /\ FreeCPUs = {}
    /\ sts' = "toCPU"
    /\ UNCHANGED <<procs, waits, exits, memoria, cpus, LTSvars, stsHand, MTSvars>>

\* The CPU accepts the dispatch and answers.
STSDispatches ==
    /\ Running /\ sts = "send"
    /\ sts' = "top" /\ stsHand' = NoHand
    /\ UNCHANGED <<procs, waits, exits, memoria, cpus, LTSvars, MTSvars>>

\* The CPU does not: the process goes back, to the tail of READY.
STSDispatchFails ==
    /\ Running /\ DispatchFaults /\ sts = "send"
    /\ Move("EXEC", "READY", stsHand[1])
    /\ cpu' = [cpu EXCEPT ![stsHand[2]] = None]
    /\ sts' = "top" /\ stsHand' = NoHand
    /\ UNCHANGED <<calls, waits, exits, memoria, AvailableCPUs, LTSvars, MTSvars>>

\* A thread falls asleep; what is sent to it before this is lost.
LTSSleeps ==
    /\ ~halted /\ lts \in {"toResume", "toEmpty", "toRetry"}
    /\ lts' = CASE lts = "toResume" -> "resume" [] lts = "toEmpty" -> "empty" [] OTHER -> "retry"
    /\ UNCHANGED <<procs, waits, exits, memoria, cpus, ltsProc, STSvars, MTSvars>>

STSSleeps ==
    /\ ~halted /\ sts \in {"toFirst", "toEmpty", "toCPU"}
    /\ sts' = CASE sts = "toFirst" -> "first" [] sts = "toEmpty" -> "empty" [] OTHER -> "cpu"
    /\ UNCHANGED <<procs, waits, exits, memoria, cpus, LTSvars, stsHand, MTSvars>>

MTSSleeps ==
    /\ ~halted /\ mts = "toWait" /\ mts' = "wait"
    /\ UNCHANGED <<procs, waits, exits, memoria, cpus, LTSvars, STSvars, mtsProc>>

-----------------------------------------------------------------------------
(* MTS *)

\* Mutated form of RemoveBlockedByPID: the entry stays.
KeepsEntry(p) == UNCHANGED MTSQueue
RemoveBlockedByPID(p) == MTSQueue' = [MTSQueue EXCEPT ![p] = "none"]

\* DUMP_MEMORY of an entry is never true, so a dump gets a timer like an IO.
WantsTimer(p) == MTSQueue[p] # "none" /\ ~TimerRunning[p] /\ state[p] = "BLOCKED"

MTSStartsTimers ==
    /\ Running /\ mts = "top" /\ mts' = "drain"
    /\ TimerRunning' = [p \in Procs |-> TimerRunning[p] \/ WantsTimer(p)]
    /\ timers' = timers \union {<<p, calls[p]>> : p \in {r \in Procs : WantsTimer(r)}}
    /\ UNCHANGED <<procs, MTSQueue, suspender, dumping, exits, memoria, cpus, LTSvars, STSvars, mtsProc>>

\* Dequeue, and the request of Unsuspend: the process is in no queue.
MTSTakes ==
    /\ Running /\ mts = "drain" /\ mts' = "ask"
    /\ mtsProc' \in Candidates("SUSP_READY")
    /\ queue' = [queue EXCEPT !["SUSP_READY"] = Without(@, mtsProc')]
    /\ UNCHANGED <<state, calls, waits, exits, memoria, cpus, LTSvars, STSvars>>

MTSFindsNothing ==
    /\ Running /\ mts = "drain" /\ queue["SUSP_READY"] = <<>>
    /\ mts' = "toWait" /\ SignalLTS
    /\ UNCHANGED <<procs, waits, exits, memoria, cpus, ltsProc, STSvars, mtsProc>>

\* Mutated form of Given: the counter of memoria is not raised.
NotGiven(p) == UNCHANGED free
Given(p) == free' = free + Size[p]

\* Mutated form of Unsuspends: the room is not checked on the way back.
UnsuspendsUnchecked(p) == memory[p] = "SWAP"
Unsuspends(p) == memory[p] = "SWAP" /\ Size[p] <= free

MTSBringsBack ==
    /\ Running /\ mts = "ask" /\ Unsuspends(mtsProc)
    /\ memory' = [memory EXCEPT ![mtsProc] = "RAM"]
    /\ free' = free - Size[mtsProc]
    /\ RemoveBlockedByPID(mtsProc)
    /\ queue' = Enqueued(queue, "READY", mtsProc)
    /\ state' = [state EXCEPT ![mtsProc] = "READY"]
    /\ UnlockSTS
    /\ mts' = "drain" /\ mtsProc' = None
    /\ UNCHANGED <<calls, TimerRunning, timers, suspender, dumping, exits, cpus, LTSvars, stsHand>>

\* noMemory: MTS does not call LTS, which would take the memory first.
MTSIsRefused ==
    /\ Running /\ mts = "ask" /\ ~Unsuspends(mtsProc)
    /\ queue' = Enqueued(queue, "SUSP_READY", mtsProc)
    /\ mts' = "toWait" /\ mtsProc' = None
    /\ UNCHANGED <<state, calls, waits, exits, memoria, cpus, LTSvars, STSvars>>

-----------------------------------------------------------------------------
(* The suspension timers: sendToWait *)

\* Mutated form of MutexFree: UnsuspendMutex is not taken.
Unlocked == TRUE
MutexFree == suspender = Idle

\* Mutated form of StillBlocked: the process is taken to be where it was.
AssumedBlocked(p) == TRUE
StillBlocked(p) == state[p] = "BLOCKED" /\ p \in Elements(queue["BLOCKED"])

\* The timer has run out.  The wait it was started for may be over, and the
\* process in a later one: only the state is looked at.
TimerFires(p, n) ==
    /\ Running /\ <<p, n>> \in timers /\ MutexFree
    /\ timers' = timers \ {<<p, n>>}
    /\ IF StillBlocked(p)
       THEN /\ queue' = [queue EXCEPT !["BLOCKED"] = Without(@, p)]
            /\ suspender' = [proc |-> p, wait |-> n, step |-> "taken"]
       ELSE UNCHANGED <<queue, suspender>>
    /\ UNCHANGED <<state, calls, MTSQueue, TimerRunning, dumping, exits, memoria, cpus,
                   LTSvars, STSvars, MTSvars>>

SuspenderEnqueues ==
    /\ Running /\ suspender.step = "taken"
    /\ queue' = Enqueued(queue, "SUSP_BLOCKED", suspender.proc)
    /\ state' = [state EXCEPT ![suspender.proc] = "SUSP_BLOCKED"]
    /\ TimerRunning' = [TimerRunning EXCEPT ![suspender.proc] = FALSE]
    /\ suspender' = [suspender EXCEPT !.step = "asking"]
    /\ UNCHANGED <<calls, MTSQueue, timers, dumping, exits, memoria, cpus, LTSvars, STSvars, MTSvars>>

\* RequestSuspend, answered; memoria refuses a process that it no longer has.
SuspenderRequests ==
    /\ Running /\ suspender.step = "asking"
    /\ IF memory[suspender.proc] = "RAM"
       THEN /\ memory' = [memory EXCEPT ![suspender.proc] = "SWAP"]
            /\ Given(suspender.proc)
            /\ UnlockMTS
       ELSE UNCHANGED <<memoria, mts>>
    /\ suspender' = Idle
    /\ UNCHANGED <<procs, MTSQueue, TimerRunning, timers, dumping, exits, cpus, LTSvars, STSvars, mtsProc>>

-----------------------------------------------------------------------------
(* TerminateProcess: the process is in EXIT already, memoria has to answer *)

\* Mutated form of Completes: a process counts once it is admitted.
CompletesAdmitted(q) == Len(q["EXIT"]) = Cardinality({p \in Created : state[p] # "NEW"})
\* The kernel shuts down after the one whose entry into EXIT completes the queue.
Completes(q) == Len(q["EXIT"]) = Cardinality(Created)

Exits(p, q, who) ==
    /\ queue' = q
    /\ state' = [state EXCEPT ![p] = "EXIT"]
    /\ deleting' = [deleting EXCEPT ![p] = who]
    /\ last' = IF Completes(q) THEN p ELSE last

\* Deallocate frees the frames in the entry of p, even when p is in swap.
TerminateProcess(p) ==
    /\ Running /\ deleting[p] # "no"
    /\ deleting' = [deleting EXCEPT ![p] = "no"]
    /\ memory' = [memory EXCEPT ![p] = "gone"]
    /\ Given(p)
    /\ halted' = (last = p)
    /\ UnlockMTS
    /\ IF deleting[p] = "exit" /\ last # p
       THEN FreeCPU(p) /\ SignalCpuAvailable
       ELSE UNCHANGED <<cpu, sts>>
    /\ UNCHANGED <<procs, waits, last, AvailableCPUs, LTSvars, stsHand, mtsProc>>

-----------------------------------------------------------------------------
(* What a CPU calls: /cpu-notify, /syscall and /cpu-results *)

ReceiveCPU(c) ==
    /\ Running /\ c \notin Elements(AvailableCPUs)
    /\ AvailableCPUs' = Append(AvailableCPUs, c)
    /\ SignalCpuAvailable
    /\ UNCHANGED <<procs, waits, exits, memoria, cpu, LTSvars, stsHand, MTSvars>>

\* p runs on c, which has accepted it.
Executes(c, p) == cpu[c] = p /\ p # None /\ state[p] = "EXEC" /\ stsHand # <<p, c>>

\* CreateBlocked and the append to MTSQueue, for a device or for a dump.
Blocks(p, kind) ==
    /\ calls[p] < MaxCalls
    /\ calls' = [calls EXCEPT ![p] = @ + 1]
    /\ Move("EXEC", "BLOCKED", p)
    /\ FreeCPU(p) /\ SignalCpuAvailable
    /\ TimerRunning' = [TimerRunning EXCEPT ![p] = FALSE]
    /\ MTSQueue' = [MTSQueue EXCEPT ![p] = kind]

SyscallIO(c) == \E p \in Procs :
    /\ Running /\ Executes(c, p)
    /\ Blocks(p, "io") /\ UnlockMTS
    /\ UNCHANGED <<timers, suspender, dumping, exits, memoria, AvailableCPUs, LTSvars, stsHand, mtsProc>>

\* The device is not connected: the process ends, and its CPU is not freed.
SyscallMissingDevice(c) == \E p \in Procs :
    /\ Running /\ MissingDevices /\ Executes(c, p)
    /\ Exits(p, Moved(queue, "EXEC", "EXIT", p), "missing")
    /\ UNCHANGED <<calls, waits, halted, memoria, cpus, LTSvars, STSvars, MTSvars>>

SyscallInitProc(c) == \E p, new \in Procs :
    /\ Running /\ Executes(c, p) /\ state[new] = "ABSENT"
    /\ queue' = Enqueued(queue, "NEW", new)
    /\ state' = [state EXCEPT ![new] = "NEW"]
    /\ SignalLTSEmpty
    /\ UNCHANGED <<calls, waits, exits, memoria, cpus, ltsProc, STSvars, MTSvars>>

SyscallDump(c) == \E p \in Procs :
    /\ Running /\ Dumps /\ Executes(c, p)
    /\ Blocks(p, "dump")
    /\ dumping' = dumping \union {p}
    /\ UNCHANGED <<timers, suspender, exits, memoria, AvailableCPUs, LTSvars, stsHand, MTSvars>>

\* EXIT as a system call: the CPU is freed once memoria has answered.
SyscallExit(c) == \E p \in Procs :
    /\ Running /\ Executes(c, p)
    /\ Exits(p, Moved(queue, "EXEC", "EXIT", p), "exit")
    /\ UNCHANGED <<calls, waits, halted, memoria, cpus, LTSvars, STSvars, MTSvars>>

\* EXIT as a result, HandleReason: the CPU is freed first.
ResultExit(c) == \E p \in Procs :
    /\ Running /\ Executes(c, p)
    /\ FreeCPU(p) /\ SignalCpuAvailable
    /\ Exits(p, Moved(queue, "EXEC", "EXIT", p), "result")
    /\ UNCHANGED <<calls, waits, halted, memoria, AvailableCPUs, LTSvars, stsHand, MTSvars>>

-----------------------------------------------------------------------------
(* The end of a wait: a device answers, or memoria answers to a dump *)

HandleIOFinished(p) ==
    /\ Running /\ MTSQueue[p] = "io" /\ MutexFree
    /\ RemoveBlockedByPID(p)
    /\ CASE state[p] = "SUSP_BLOCKED" ->
                Move("SUSP_BLOCKED", "SUSP_READY", p) /\ UnlockMTS /\ UNCHANGED sts
         [] state[p] = "BLOCKED" ->
                Move("BLOCKED", "READY", p) /\ UnlockSTS /\ UNCHANGED mts
         [] OTHER -> UNCHANGED <<state, queue, sts, mts>>
    /\ UNCHANGED <<calls, TimerRunning, timers, suspender, dumping, exits, memoria, cpus,
                   LTSvars, stsHand, mtsProc>>

\* RemoveByPID of the queue of the current state finds nothing: the goroutine
\* gives up, and the end of the dump is forgotten.
DumpForgotten(p) ==
    /\ Running /\ p \in dumping /\ p \notin Elements(queue[state[p]])
    /\ dumping' = dumping \ {p}
    /\ UNCHANGED <<procs, MTSQueue, TimerRunning, timers, suspender, exits, memoria, cpus,
                   LTSvars, STSvars, MTSvars>>

DumpSucceeds(p) ==
    /\ Running /\ p \in dumping /\ p \in Elements(queue[state[p]])
    /\ dumping' = dumping \ {p}
    /\ RemoveBlockedByPID(p)
    /\ Move(state[p], "READY", p)
    /\ UnlockMTS
    /\ UNCHANGED <<calls, TimerRunning, timers, suspender, exits, memoria, cpus,
                   LTSvars, STSvars, mtsProc>>

\* The entry of p stays in MTSQueue.
DumpFails(p) ==
    /\ Running /\ p \in dumping /\ p \in Elements(queue[state[p]])
    /\ dumping' = dumping \ {p}
    /\ Exits(p, Moved(queue, state[p], "EXIT", p), "dump")
    /\ UNCHANGED <<calls, MTSQueue, TimerRunning, timers, suspender, halted, memoria, cpus,
                   LTSvars, STSvars, MTSvars>>

-----------------------------------------------------------------------------
LTS == StartLTS \/ LTSYields \/ LTSFindsNothing \/ LTSFinds \/ LTSInitializes \/ LTSIsRefused \/ LTSSleeps
STS == \/ STSStarts \/ STSTakes \/ STSFindsNoProcess \/ STSFindsNoCPU
       \/ STSDispatches \/ STSDispatchFails \/ STSSleeps
MTS == MTSStartsTimers \/ MTSTakes \/ MTSFindsNothing \/ MTSBringsBack \/ MTSIsRefused \/ MTSSleeps
CPUCalls(c) == \/ SyscallIO(c) \/ SyscallMissingDevice(c) \/ SyscallInitProc(c)
               \/ SyscallDump(c) \/ SyscallExit(c) \/ ResultExit(c)
Suspender == SuspenderEnqueues \/ SuspenderRequests
Timers == \E p \in Procs, n \in 1 .. MaxCalls : TimerFires(p, n)
DumpEnds(p) == DumpForgotten(p) \/ DumpSucceeds(p) \/ DumpFails(p)

Next ==
    \/ LTS \/ STS \/ MTS \/ Timers \/ Suspender
    \/ \E c \in CPUs : ReceiveCPU(c) \/ CPUCalls(c)
    \/ \E p \in Procs : TerminateProcess(p) \/ HandleIOFinished(p) \/ DumpEnds(p)

Spec == Init /\ [][Next]_vars

\* Goroutines are scheduled, requests are answered, CPUs and devices go on.
Fairness ==
    /\ WF_vars(LTS) /\ WF_vars(STS) /\ WF_vars(MTS)
    /\ WF_vars(Timers) /\ WF_vars(Suspender)
    /\ \A c \in CPUs : WF_vars(ReceiveCPU(c)) /\ WF_vars(CPUCalls(c))
    /\ \A p \in Procs :
          WF_vars(TerminateProcess(p)) /\ WF_vars(HandleIOFinished(p)) /\ WF_vars(DumpEnds(p))
FairSpec == Spec /\ Fairness

-----------------------------------------------------------------------------
(* Properties *)

Lifecycle == INSTANCE ProcessLifecycle

InHand(p) == mtsProc = p \/ (suspender.step = "taken" /\ suspender.proc = p)

\* A process is in exactly one queue, once, and in the one its PCB names, except
\* while a thread has taken it out to move it: RemoveByPID and Dequeue against
\* Enqueue, whoever calls them.
OnePlace ==
    /\ \A s \in States :
          /\ Elements(queue[s]) = {p \in Procs : state[p] = s /\ ~InHand(p)}
          /\ Len(queue[s]) = Cardinality(Elements(queue[s]))
    /\ \A p \in Procs :
          /\ stsHand[1] = p => state[p] = "EXEC"
          /\ mtsProc = p => state[p] = "SUSP_READY"
          /\ suspender.step = "taken" /\ suspender.proc = p => state[p] = "BLOCKED"

\* A CPU runs one process and a process is on one CPU; a CPU that holds a process
\* which is not in EXEC is one that RecieveSyscall is about to free.
OneCPUEach ==
    /\ \A p \in Procs : state[p] = "EXEC" => \E c \in Elements(AvailableCPUs) : cpu[c] = p
    /\ \A c, d \in CPUs : cpu[c] = cpu[d] /\ cpu[c] # None => c = d
    /\ \A c \in CPUs : cpu[c] # None =>
          state[cpu[c]] = "EXEC" \/ deleting[cpu[c]] = "exit" \/ last = cpu[c]

\* The kernel's idea of where a process is agrees with memoria's.  The exception is
\* the request that sendToWait has not had answered, and UnsuspendMutex keeps
\* the end of the wait from overtaking it.
Residency == \A p \in Procs :
    /\ state[p] \in {"ABSENT", "NEW"} <=> memory[p] = "none"
    /\ state[p] \in {"READY", "EXEC", "BLOCKED"} => memory[p] = "RAM"
    /\ state[p] = "SUSP_READY" => memory[p] = "SWAP"
    /\ state[p] = "SUSP_BLOCKED" =>
          memory[p] = IF suspender.proc = p /\ suspender.step = "asking" THEN "RAM" ELSE "SWAP"
    /\ state[p] = "EXIT" => memory[p] = IF deleting[p] # "no" THEN "RAM" ELSE "gone"

\* Memory is given out once and taken back once: admission, suspension, return
\* and termination balance over the whole life of every process.
MemoryAccounted ==
    /\ free = MemorySize - Lifecycle!InRAM(memory)
    /\ free >= 0

\* A wait has an entry as long as it lasts, and no longer: HandleIOFinished finds
\* the process it must wake, and MTS times nothing that is over.
WaitsHaveEntries == \A p \in Procs :
    MTSQueue[p] = "io" <=> state[p] \in {"BLOCKED", "SUSP_BLOCKED"}

\* The kernel shuts down only when every process it has created is over.
HaltsWhenDone == halted => \A p \in Created : state[p] = "EXIT"

\* EXIT is final, and what memoria has released stays released: no timer, dump or
\* device that comes late revives a process.
ExitIsFinal == [][\A p \in Procs : state[p] = "EXIT" =>
    state'[p] = "EXIT" /\ (memory[p] = "gone" => memory'[p] = "gone")]_vars

\* No thread sleeps while there is work that only it can do: every change that
\* makes work is followed by a signal to the thread that does it.
ReadyIsSeen == sts = "empty" => queue["READY"] = <<>>
STSAwake ==
    /\ ReadyIsSeen
    /\ sts = "cpu" => FreeCPUs = {}
    /\ sts = "first" => AvailableCPUs = <<>>
LTSAwake == ~(lts = "empty" /\ queue["NEW"] # <<>>)
MTSAwake ==
    mts = "wait" =>
        /\ queue["SUSP_READY"] # <<>> => \E p \in Elements(queue["SUSP_READY"]) : Size[p] > free
        /\ lts = "resume" => queue["SUSP_READY"] # <<>>
        /\ lts = "retry" /\ queue["SUSP_READY"] = <<>> => Size[Head(queue["NEW"])] > free
NoThreadSleepsOverWork == STSAwake /\ LTSAwake /\ MTSAwake

\* All the work is done in the end, and the kernel shuts down.
AllFinish == <>halted

\* The timer that suspends a process was started for the wait the process is in.
TimersAreCurrent == suspender # Idle => suspender.wait = calls[suspender.proc]

\* A suspended process comes back to READY through SUSP_READY.
SuspendedReturnsInOrder == [][\A p \in Procs :
    state[p] = "SUSP_BLOCKED" => state'[p] \in {"SUSP_BLOCKED", "SUSP_READY", "EXIT"}]_vars

\* The processes together behave as ProcessLifecycle says they do, whatever the threads do.
FollowsLifecycle == Lifecycle!Spec
=============================================================================
