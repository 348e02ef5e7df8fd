---------------------------- MODULE UserMachine ----------------------------
(***************************************************************************)
(* What the trap path promises a user program: a machine of its own.  Only *)
(* instructions it executes itself change its registers, except that a     *)
(* system call may change the result register and goes on behind the       *)
(* ecall.  Interrupts and other processes take the processor away, and     *)
(* leave no other trace.                                                   *)
(***************************************************************************)
CONSTANTS Procs, RegVals, Sps, UserPcs, USER_BASE, After, None

VARIABLES running,  \* the process whose instructions are executed, or None
          life,     \* "unborn", "user", "calling" or "gone"
          view      \* pc, registers and stack pointer the program sees

Views == [pc : UserPcs, a : RegVals, s : RegVals, sp : Sps]
Blank == [pc |-> USER_BASE]

Init ==
  /\ running = None
  /\ life = [p \in Procs |-> "unborn"]
  /\ view = [p \in Procs |-> Blank]

\* The first instruction is at USER_BASE; nothing is promised of registers.
Start(p) ==
  /\ running = None /\ life[p] = "unborn"
  /\ running' = p
  /\ life' = [life EXCEPT ![p] = "user"]
  /\ view'[p] \in Views /\ view'[p].pc = USER_BASE
  /\ view' = [view EXCEPT ![p] = view'[p]]

Step(p) ==
  /\ running = p
  /\ view'[p] \in Views
  /\ view' = [view EXCEPT ![p] = view'[p]]
  /\ UNCHANGED <<running, life>>

Call(p) ==
  /\ running = p
  /\ running' = None
  /\ life' = [life EXCEPT ![p] = "calling"]
  /\ UNCHANGED view

Interrupted(p) ==
  /\ running = p
  /\ running' = None
  /\ UNCHANGED <<life, view>>

Return(p) ==
  /\ running = None /\ life[p] = "calling"
  /\ life' = [life EXCEPT ![p] = "user"]
  /\ \E r \in RegVals :
       view' = [view EXCEPT ![p].a = r, ![p].pc = After[view[p].pc]]
  /\ UNCHANGED running

Resume(p) ==
  /\ running = None /\ life[p] = "user"
  /\ running' = p
  /\ UNCHANGED <<life, view>>

Exit(p) ==
  /\ running = None /\ life[p] = "calling"
  /\ life' = [life EXCEPT ![p] = "gone"]
  /\ view' = [view EXCEPT ![p] = Blank]
  /\ UNCHANGED running

Next ==
  \E p \in Procs :
    \/ Start(p) \/ Step(p) \/ Call(p) \/ Interrupted(p)
    \/ Return(p) \/ Resume(p) \/ Exit(p)

Spec == Init /\ [][Next]_<<running, life, view>>
=============================================================================
