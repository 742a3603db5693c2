---------------------------- MODULE ProgramOrder ----------------------------
(***************************************************************************)
(* What a processor promises to the script of a process: its instructions  *)
(* run one after the other, each once and each where the one before left   *)
(* the process, until its EXIT.  There is no dispatch, system call or       *)
(* interrupt here: they may not show.                                      *)
(***************************************************************************)
EXTENDS Naturals

CONSTANTS Procs,   \* the pids
          Program  \* Program[p][pc]: the instruction of p at pc

VARIABLES position,  \* position[p]: the instruction that p runs next
          ended      \* the processes that ran their EXIT

vars == <<position, ended>>

Init == position = [p \in Procs |-> 0] /\ ended = {}

Successor(p, pc) ==
    IF Program[p][pc].op = "GOTO" THEN Program[p][pc].to ELSE pc + 1

Step(p) ==
    /\ p \notin ended /\ Program[p][position[p]].op # "EXIT"
    /\ position' = [position EXCEPT ![p] = Successor(p, @)]
    /\ UNCHANGED ended

End(p) ==
    /\ p \notin ended /\ Program[p][position[p]].op = "EXIT"
    /\ ended' = ended \cup {p}
    /\ UNCHANGED position

Next == \E p \in Procs : Step(p) \/ End(p)

Spec == Init /\ [][Next]_vars
=============================================================================
