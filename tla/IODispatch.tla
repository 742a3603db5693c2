----------------------------- MODULE IODispatch -----------------------------
(***************************************************************************)
(* The devices: the kernel's handlers of the system call IO and of the     *)
(* messages io-notify, io-finished and io-disconnected (kernel.go,         *)
(* kernel_api.go), and the loop of a device (io.go).                       *)
(*                                                                         *)
(* A device asks for work with io-notify and the kernel keeps the request  *)
(* until there is some, either a waiting entry of MTSQueue or a request    *)
(* that the system call sends on the Handler of the connection.  A handler *)
(* is interrupted where it waits: at that channel and at the request of    *)
(* TerminateProcess; with Races, also before it marks its entry Working.   *)
(*                                                                         *)
(* A connection is a device and the number of its start.  Of the scheduler *)
(* only the moves between EXEC, the waits and SUSP_READY are here.  A      *)
(* device that is told to stop sends io-disconnected and nothing else.     *)
(***************************************************************************)
EXTENDS Integers, Sequences, FiniteSets

CONSTANTS Procs,      \* the processes
          First,      \* the one whose PID is 0
          Devices,    \* the instances of devices
          Name,       \* Name[d]: the name that d registers with
          MaxCalls,   \* bound: system calls of a process
          MaxStarts,  \* bound: starts of a device
          Losses,     \* may a device be told to stop?
          Races       \* may another handler see an entry that is not marked yet?

ASSUME DispatchAssumption ==
    /\ IsFiniteSet(Procs) /\ First \in Procs /\ MaxCalls \in Nat /\ MaxStarts \in Nat
    /\ Losses \in BOOLEAN /\ Races \in BOOLEAN

VARIABLES
    state,          \* state[p]: PCB.state
    calls,          \* calls[p]: waits of p so far
    MTSQueue,       \* the entries: process, its wait, name, Working
    SuspReadyQueue,
    AvailableIOs,   \* the devices that are registered, in order
    Disp,           \* Disp[d]: is the connection of d taken to be free?
    handler,        \* handler[d]: the requests blocked on the channel of d
    marking,        \* system calls between the append and Working = true
    device,         \* device[d]: where d is in its loop
    job,            \* job[d]: the wait that d was last given
    assignedPID,    \* assignedPID[d]: what io.go has stored for d
    starts,         \* starts[d]
    orphan,         \* orphan[d]: the kernel keeps an io-notify of a stopped d
    reaper,         \* reaper[d]: the goroutine started by the loss of d
    panicked        \* an index out of range outside of a handler

procs == <<state, calls, SuspReadyQueue>>
kernel == <<AvailableIOs, Disp, handler, marking>>
io == <<device, job, assignedPID, starts>>
loss == <<orphan, reaper, panicked>>
vars == <<procs, MTSQueue, kernel, io, loss>>

Elements(s) == {s[i] : i \in DOMAIN s}
Names == {Name[d] : d \in Devices}
Wait == Procs \X (1 .. MaxCalls)
Entry == [proc : Procs, wait : 1 .. MaxCalls, name : Names, working : BOOLEAN]
NoJob == <<>>
Off == [step |-> "off", at |-> 0, len |-> 0]

TypeOK ==
    /\ state \in [Procs -> {"EXEC", "BLOCKED", "SUSP_BLOCKED", "SUSP_READY", "EXIT"}]
    /\ calls \in [Procs -> 0 .. MaxCalls]
    /\ MTSQueue \in Seq(Entry)
    /\ SuspReadyQueue \in Seq(Procs)
    /\ AvailableIOs \in Seq(Devices)
    /\ Disp \in [Devices -> BOOLEAN]
    /\ handler \in [Devices -> Seq(Wait)]
    /\ marking \subseteq Wait \X Devices \X (1 .. MaxStarts)
    /\ device \in [Devices -> {"off", "idle", "polling", "answered", "busy", "stopping", "ending"}]
    /\ job \in [Devices -> Wait \union {NoJob}]
    /\ assignedPID \in [Devices -> Procs]
    /\ starts \in [Devices -> 0 .. MaxStarts]
    /\ orphan \in [Devices -> BOOLEAN]
    /\ reaper \in [Devices -> [step : {"off", "first", "range", "list"},
                               at : Nat, len : 0 .. Cardinality(Procs)]]
    /\ panicked \in BOOLEAN

Init ==
    /\ state = [p \in Procs |-> "EXEC"]
    /\ calls = [p \in Procs |-> 0]
    /\ MTSQueue = <<>> /\ SuspReadyQueue = <<>> /\ AvailableIOs = <<>>
    /\ Disp = [d \in Devices |-> FALSE]
    /\ handler = [d \in Devices |-> <<>>]
    /\ marking = {}
    /\ device = [d \in Devices |-> "off"]
    /\ job = [d \in Devices |-> NoJob]
    /\ assignedPID = [d \in Devices |-> First]
    /\ starts = [d \in Devices |-> 0]
    /\ orphan = [d \in Devices |-> FALSE]
    /\ reaper = [d \in Devices |-> Off]
    /\ panicked = FALSE

-----------------------------------------------------------------------------
Registered(d) == d \in Elements(AvailableIOs)
Without(s, i) == SubSeq(s, 1, i - 1) \o SubSeq(s, i + 1, Len(s))

\* i is the first index of s at which Test holds.
IsFirst(i, s, Test(_)) == /\ i \in DOMAIN s /\ Test(s[i])
                          /\ \A j \in 1 .. i - 1 : ~Test(s[j])
HasOne(s, Test(_)) == \E i \in DOMAIN s : Test(s[i])

\* Mutated forms of Queued: Working is not looked at; entries are not looked for.
QueuedOrWorking(e, n) == e.name = n
NeverQueued(e, n) == FALSE
Queued(e, n) == e.name = n /\ ~e.working
\* Mutated form of IsOf: any process that waits for the name will do.
IsOfName(e, n, p) == e.name = n
IsOf(e, n, p) == e.name = n /\ e.proc = p

Takes(d) == Disp' = [Disp EXCEPT ![d] = FALSE]

-----------------------------------------------------------------------------
(* The system call IO *)

SyscallMissingDevice(p, n) ==
    /\ ~panicked /\ state[p] = "EXEC" /\ ~HasOne(AvailableIOs, LAMBDA d : Name[d] = n)
    /\ state' = [state EXCEPT ![p] = "EXIT"]
    /\ UNCHANGED <<calls, SuspReadyQueue, MTSQueue, kernel, io, loss>>

\* The process waits: its entry is the last one of MTSQueue.
Blocks(p, n, working) ==
    /\ state[p] = "EXEC" /\ calls[p] < MaxCalls
    /\ calls' = [calls EXCEPT ![p] = @ + 1]
    /\ state' = [state EXCEPT ![p] = "BLOCKED"]
    /\ MTSQueue' = Append(MTSQueue, [proc |-> p, wait |-> calls[p] + 1, name |-> n, working |-> working])

\* A connection that is free is taken, and the request handed to its channel.
SyscallTakes(p, n) == \E i \in DOMAIN AvailableIOs :
    LET d == AvailableIOs[i]
        request == <<p, calls[p] + 1>>
    IN  /\ ~panicked /\ IsFirst(i, AvailableIOs, LAMBDA c : Name[c] = n /\ Disp[c])
        /\ Takes(d)
        /\ Blocks(p, n, ~Races)
        /\ IF Races
           THEN marking' = marking \union {<<request, d, starts[d]>>} /\ UNCHANGED handler
           ELSE handler' = [handler EXCEPT ![d] = Append(@, request)] /\ UNCHANGED marking
        /\ UNCHANGED <<SuspReadyQueue, AvailableIOs, io, loss>>

\* All are busy: the entry stays for the next io-notify.
SyscallQueues(p, n) ==
    /\ ~panicked /\ HasOne(AvailableIOs, LAMBDA d : Name[d] = n)
    /\ ~HasOne(AvailableIOs, LAMBDA d : Name[d] = n /\ Disp[d])
    /\ Blocks(p, n, FALSE)
    /\ UNCHANGED <<SuspReadyQueue, kernel, io, loss>>

\* blocked.Working = true, and SendIORequest; nobody reads the channel of a
\* connection that is gone.
Marks(m) ==
    /\ ~panicked /\ m \in marking /\ marking' = marking \ {m}
    /\ MTSQueue' = [i \in DOMAIN MTSQueue |->
          IF <<MTSQueue[i].proc, MTSQueue[i].wait>> = m[1]
          THEN [MTSQueue[i] EXCEPT !.working = TRUE] ELSE MTSQueue[i]]
    /\ handler' = IF Registered(m[2]) /\ starts[m[2]] = m[3]
                  THEN [handler EXCEPT ![m[2]] = Append(@, m[1])] ELSE handler
    /\ UNCHANGED <<procs, AvailableIOs, Disp, io, loss>>

-----------------------------------------------------------------------------
(* A device at work *)

\* createKernelConnection; the goroutine of an earlier loss has ended.
Starts(d) ==
    /\ ~panicked /\ device[d] = "off" /\ starts[d] < MaxStarts /\ reaper[d] = Off
    /\ starts' = [starts EXCEPT ![d] = @ + 1]
    /\ device' = [device EXCEPT ![d] = "idle"]
    /\ assignedPID' = [assignedPID EXCEPT ![d] = First]
    /\ UNCHANGED <<procs, MTSQueue, kernel, job, loss>>

\* recieveIO makes a connection for a device it does not know.
Registers(d) == AvailableIOs' = IF Registered(d) THEN AvailableIOs ELSE Append(AvailableIOs, d)

\* recieveIO finds a process that waits for the name.
TakesQueued(d) ==
    /\ ~panicked /\ device[d] = "idle" /\ Registers(d)
    /\ \E i \in DOMAIN MTSQueue :
          /\ IsFirst(i, MTSQueue, LAMBDA e : Queued(e, Name[d]))
          /\ MTSQueue' = [MTSQueue EXCEPT ![i].working = TRUE]
          /\ job' = [job EXCEPT ![d] = <<MTSQueue[i].proc, MTSQueue[i].wait>>]
    /\ Takes(d)
    /\ device' = [device EXCEPT ![d] = "answered"]
    /\ UNCHANGED <<procs, handler, marking, assignedPID, starts, loss>>

\* ... or none: the io-notify waits for a request.
Polls(d) ==
    /\ ~panicked /\ device[d] = "idle" /\ Registers(d)
    /\ ~HasOne(MTSQueue, LAMBDA e : Queued(e, Name[d]))
    /\ Disp' = [Disp EXCEPT ![d] = @ \/ ~Registered(d)]
    /\ device' = [device EXCEPT ![d] = "polling"]
    /\ UNCHANGED <<procs, MTSQueue, handler, marking, job, assignedPID, starts, loss>>

Receives(d) ==
    /\ ~panicked /\ device[d] = "polling" /\ handler[d] # <<>>
    /\ handler' = [handler EXCEPT ![d] = Tail(@)]
    /\ job' = [job EXCEPT ![d] = Head(handler[d])]
    /\ device' = [device EXCEPT ![d] = "answered"]
    /\ UNCHANGED <<procs, MTSQueue, AvailableIOs, Disp, marking, assignedPID, starts, loss>>

\* Mutated form of PIDOf: the other field of the answer.
OtherField(answer) == answer[2]
PIDOf(answer) == answer[1]

\* notifyKernel reads the answer.
Begins(d) ==
    /\ ~panicked /\ device[d] = "answered"
    /\ device' = [device EXCEPT ![d] = "busy"]
    /\ assignedPID' = [assignedPID EXCEPT ![d] = PIDOf(job[d])]
    /\ UNCHANGED <<procs, MTSQueue, kernel, job, starts, loss>>

Wakes(p) ==
    IF state[p] = "SUSP_BLOCKED"
    THEN /\ state' = [state EXCEPT ![p] = "SUSP_READY"]
         /\ SuspReadyQueue' = Append(SuspReadyQueue, p)
    ELSE /\ state' = [state EXCEPT ![p] = "EXEC"]
         /\ UNCHANGED SuspReadyQueue

\* handleIOFinished, which knows the wait by the name and the PID only.
Finishes(d) ==
    /\ ~panicked /\ device[d] = "busy"
    /\ device' = [device EXCEPT ![d] = "idle"]
    /\ job' = [job EXCEPT ![d] = NoJob]
    /\ Disp' = [Disp EXCEPT ![d] = Registered(d)]
    /\ IF Registered(d) /\ HasOne(MTSQueue, LAMBDA e : IsOf(e, Name[d], job[d][1]))
       THEN \E i \in DOMAIN MTSQueue :
              /\ IsFirst(i, MTSQueue, LAMBDA e : IsOf(e, Name[d], job[d][1]))
              /\ MTSQueue' = Without(MTSQueue, i)
              /\ Wakes(MTSQueue[i].proc)
       ELSE UNCHANGED <<state, SuspReadyQueue, MTSQueue>>
    /\ UNCHANGED <<calls, AvailableIOs, handler, marking, assignedPID, starts, loss>>

-----------------------------------------------------------------------------
(* The loss of a device: the signal handler of io.go, handleIODisconnected *)

\* The io-notify that the kernel keeps is not withdrawn.
Stops(d) ==
    /\ ~panicked /\ Losses /\ device[d] \in {"idle", "polling", "answered", "busy"}
    /\ device' = [device EXCEPT ![d] = "stopping"]
    /\ orphan' = [orphan EXCEPT ![d] = device[d] = "polling"]
    /\ UNCHANGED <<procs, MTSQueue, kernel, job, assignedPID, starts, reaper, panicked>>

\* A request is written to a connection that nobody reads.
RequestIsLost(d) ==
    /\ ~panicked /\ orphan[d] /\ handler[d] # <<>>
    /\ handler' = [handler EXCEPT ![d] = Tail(@)]
    /\ orphan' = [orphan EXCEPT ![d] = FALSE]
    /\ UNCHANGED <<procs, MTSQueue, AvailableIOs, Disp, marking, io, reaper, panicked>>

\* Mutated form of Ends: the entry stays in MTSQueue.
EndsInQueue(i) ==
    /\ state' = [state EXCEPT ![MTSQueue[i].proc] = "EXIT"]
    /\ UNCHANGED <<calls, SuspReadyQueue, MTSQueue>>
\* The entry at i is removed and its process goes to EXIT.
Ends(i) ==
    /\ MTSQueue' = Without(MTSQueue, i)
    /\ state' = [state EXCEPT ![MTSQueue[i].proc] = "EXIT"]
    /\ UNCHANGED <<calls, SuspReadyQueue>>

\* A process with the PID of the message waits for the name: it is terminated.
Disconnects(d) == \E i \in DOMAIN MTSQueue :
    /\ ~panicked /\ device[d] = "stopping" /\ Registered(d)
    /\ IsFirst(i, MTSQueue, LAMBDA e : IsOf(e, Name[d], assignedPID[d]))
    /\ Ends(i)
    /\ device' = [device EXCEPT ![d] = "ending"]
    /\ UNCHANGED <<kernel, job, assignedPID, starts, loss>>

\* The connection is removed, and if it was the last of its name its waiters
\* are looked for by a goroutine.
Removed(d) ==
    /\ ~panicked
    /\ \/ device[d] = "ending"
       \/ /\ device[d] = "stopping" /\ Registered(d)
          /\ ~HasOne(MTSQueue, LAMBDA e : IsOf(e, Name[d], assignedPID[d]))
    /\ \E i \in DOMAIN AvailableIOs : /\ IsFirst(i, AvailableIOs, LAMBDA c : c = d)
                                      /\ AvailableIOs' = Without(AvailableIOs, i)
    /\ handler' = [handler EXCEPT ![d] = <<>>]
    /\ orphan' = [orphan EXCEPT ![d] = FALSE]
    /\ Disp' = [Disp EXCEPT ![d] = FALSE]
    /\ job' = [job EXCEPT ![d] = NoJob]
    /\ device' = [device EXCEPT ![d] = "off"]
    /\ reaper' = IF HasOne(AvailableIOs', LAMBDA c : Name[c] = Name[d]) THEN reaper
                 ELSE [reaper EXCEPT ![d].step = "first"]
    /\ UNCHANGED <<procs, MTSQueue, marking, assignedPID, starts, panicked>>

\* "this IO was never connected": it was told to stop before its first io-notify.
NeverConnected(d) ==
    /\ ~panicked /\ device[d] = "stopping" /\ ~Registered(d)
    /\ device' = [device EXCEPT ![d] = "off"]
    /\ UNCHANGED <<procs, MTSQueue, kernel, job, assignedPID, starts, loss>>

\* The goroutine ends one process that waits for the name.
ReapsWaiter(d) ==
    /\ ~panicked /\ reaper[d].step = "first"
    /\ reaper' = [reaper EXCEPT ![d].step = "range"]
    /\ IF HasOne(MTSQueue, LAMBDA e : e.name = Name[d])
       THEN \E i \in DOMAIN MTSQueue :
              IsFirst(i, MTSQueue, LAMBDA e : e.name = Name[d]) /\ Ends(i)
       ELSE UNCHANGED <<procs, MTSQueue>>
    /\ UNCHANGED <<kernel, io, orphan, panicked>>

\* ... and then those of SUSP_READY, by an index that runs up to the length the
\* queue had at first, while the queue gets shorter.
ReapsSuspended(d) ==
    /\ ~panicked /\ reaper[d].step \in {"range", "list"}
    /\ LET fresh == reaper[d].step = "range"
           at == IF fresh THEN 1 ELSE reaper[d].at
           len == IF fresh THEN Len(SuspReadyQueue) ELSE reaper[d].len
       IN  IF at > len
           THEN reaper' = [reaper EXCEPT ![d] = Off] /\ UNCHANGED <<procs, panicked>>
           ELSE IF at > Len(SuspReadyQueue)
           THEN panicked' = TRUE /\ UNCHANGED <<procs, reaper>>
           ELSE /\ state' = [state EXCEPT ![SuspReadyQueue[at]] = "EXIT"]
                /\ SuspReadyQueue' = Without(SuspReadyQueue, at)
                /\ reaper' = [reaper EXCEPT ![d] = [step |-> "list", at |-> at + 1, len |-> len]]
                /\ UNCHANGED <<calls, panicked>>
    /\ UNCHANGED <<MTSQueue, kernel, io, orphan>>

-----------------------------------------------------------------------------
(* The scheduler *)

\* sendToWait.
Suspends(p) ==
    /\ ~panicked /\ state[p] = "BLOCKED"
    /\ state' = [state EXCEPT ![p] = "SUSP_BLOCKED"]
    /\ UNCHANGED <<calls, SuspReadyQueue, MTSQueue, kernel, io, loss>>

\* MTS brings the first one back, and STS dispatches it.
Returns ==
    /\ ~panicked /\ SuspReadyQueue # <<>>
    /\ state' = [state EXCEPT ![Head(SuspReadyQueue)] = "EXEC"]
    /\ SuspReadyQueue' = Tail(SuspReadyQueue)
    /\ UNCHANGED <<calls, MTSQueue, kernel, io, loss>>

-----------------------------------------------------------------------------
Syscall(p) == \E n \in Names :
    SyscallMissingDevice(p, n) \/ SyscallTakes(p, n) \/ SyscallQueues(p, n)
RecieveIO(d) == TakesQueued(d) \/ Polls(d) \/ Receives(d)
Loss(d) == \/ Stops(d) \/ RequestIsLost(d) \/ Disconnects(d) \/ Removed(d)
           \/ NeverConnected(d) \/ ReapsWaiter(d) \/ ReapsSuspended(d)

Next ==
    \/ \E p \in Procs : Syscall(p) \/ Suspends(p)
    \/ \E m \in marking : Marks(m)
    \/ \E d \in Devices : Starts(d) \/ RecieveIO(d) \/ Begins(d) \/ Finishes(d) \/ Loss(d)
    \/ Returns

Spec == Init /\ [][Next]_vars

\* Devices ask, work and report; a system call that has begun goes on.
Fairness ==
    /\ \A d \in Devices : WF_vars(RecieveIO(d)) /\ WF_vars(Begins(d)) /\ WF_vars(Finishes(d))
    /\ WF_vars(\E m \in marking : Marks(m))
FairSpec == Spec /\ Fairness

-----------------------------------------------------------------------------
(* Properties *)

Waits(p) == state[p] \in {"BLOCKED", "SUSP_BLOCKED"}

\* The devices that have been given a wait, and those it was sent to.
Given(w) == {d \in Devices : job[d] = w /\ device[d] \in {"answered", "busy"}}
Sent(w) == {d \in Devices : w \in Elements(handler[d])}

\* A wait is served once: recieveIO takes it out of MTSQueue, or SendIORequest
\* hands it over, never both.
OneDevicePerWait == \A w \in Wait : Cardinality(Given(w)) + Cardinality(Sent(w)) <= 1

\* handleIOFinished looks for a PID: the wait it ends is the one that was served,
\* and not a later one of the same process.
EndsItsOwnWait == [][\A p \in Procs :
    Waits(p) /\ state'[p] \in {"EXEC", "SUSP_READY"} =>
        \E d \in Devices : /\ device[d] = "busy" /\ device'[d] = "idle"
                           /\ job[d] = <<p, calls[p]>>]_vars

\* Every wait ends, although io-notify serves the queue before the requests that
\* were sent.
EveryWaitEnds == \A p \in Procs : Waits(p) ~> ~Waits(p)

\* A process waits exactly as long as it has its one entry, and SUSP_READY holds
\* those that are in that state, however devices come, go and finish late.
EntriesAreWaits ==
    /\ {e.proc : e \in Elements(MTSQueue)} = {p \in Procs : Waits(p)}
    /\ Len(MTSQueue) = Cardinality({p \in Procs : Waits(p)})
    /\ Elements(SuspReadyQueue) = {p \in Procs : state[p] = "SUSP_READY"}
    /\ Len(SuspReadyQueue) = Cardinality(Elements(SuspReadyQueue))
=============================================================================
