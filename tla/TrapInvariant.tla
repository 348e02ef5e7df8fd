--------------------------- MODULE TrapInvariant ---------------------------
(***************************************************************************)
(* The inductive invariant of Trap: what every thread finds on its stack   *)
(* when it goes on, and what sscratch, SPP and sepc say on the way.        *)
(***************************************************************************)
EXTENDS Trap

\* The stack of the thread of slot p, and its activation of yield or of
\* wait_for_interrupt there: idle is kernel_main, called by nobody; a process
\* is in a system call, below the frames of kernel_entry and of handle_trap.
Home(p) == IF p = Idle THEN BootStack ELSE p
Depth(p) == IF p = Idle THEN 1 ELSE 3
Activation(p) == [stack |-> Home(p), depth |-> Depth(p)]
BootTop == [stack |-> BootStack, depth |-> 0]

InCall(p) == mem[p][1].kind = "trap" /\ mem[p][2].kind = "handle_trap"

\* The activation can return to its caller: to kernel_main or the PANIC behind
\* its yield, or to a system call with interrupts off.
Returns(p, kind) ==
  LET f == mem[Home(p)][Depth(p)]
  IN  /\ f.kind = kind
      /\ p = Idle => f.ret = (IF kind = "wait" THEN "kernel_main" ELSE "panic")
      /\ p # Idle => /\ InCall(p)
                     /\ f.ret = "handle_syscall"
                     /\ f.saved.SIE = FALSE /\ f.saved.SPP = FALSE /\ f.saved.SUM = TRUE

\* Kernel code at c with stack pointer s may be interrupted.
Interruptible(c, s) ==
  \/ c \in {"kernel_main", "panic"} /\ current_proc = Idle /\ s = BootTop
  \/ c = "window" /\ s = Activation(current_proc) /\ Returns(current_proc, "wait")

\* A thread that does not run: a process that has never run, or one in yield.
Fresh(p) ==
  /\ p # Idle
  /\ procs[p].sp = Down(Top(p))
  /\ mem[p][1].kind = "switch" /\ mem[p][1].ra = "user_entry"
Parked(p) ==
  /\ procs[p].sp = Down(Activation(p))
  /\ Returns(p, "yield")
  /\ LET f == mem[Home(p)][Depth(p) + 1]
     IN  f.kind = "switch" /\ f.ra = "switched" /\ f.s = Home(p)

\* A user program runs.
InUser ==
  mode = "U" =>
    current_proc # Idle /\ pc \in UserPcs /\ sscratch = Top(current_proc) /\ sstatus.SUM = TRUE

\* Kernel code with interrupts on, or that may turn them on.
InKernel ==
  mode = "S" =>
    /\ pc \in KernelPcs
    /\ sstatus.SIE = TRUE => pc \in {"kernel_main", "window", "panic"}
    /\ pc \in {"kernel_main", "window"} \/ (pc = "panic" /\ sstatus.SIE = TRUE) =>
         Interruptible(pc, sp) /\ sscratch = Zero /\ regs.s = Home(current_proc)
    /\ pc = "boot" => current_proc = Idle /\ sp = BootTop /\ regs.s = BootStack
    /\ pc = "handle_syscall" =>
         /\ current_proc # Idle
         /\ sp = [stack |-> current_proc, depth |-> 2] /\ InCall(current_proc)
         /\ sstatus.SPP = FALSE /\ sstatus.SUM = TRUE
    /\ pc = "waiting" => sp = Activation(current_proc) /\ Returns(current_proc, "wait")
    /\ pc \in {"switched", "restoring"} =>
         sp = Activation(current_proc) /\ Returns(current_proc, "yield")
    /\ pc \in {"handle_syscall", "waiting", "restoring"} => sscratch = Zero
    /\ pc \in {"handle_syscall", "waiting", "switched", "restoring"} => regs.s = Home(current_proc)
    /\ pc = "user_entry" => current_proc # Idle /\ sscratch = Top(current_proc)

\* Between a trap and its sret; SPP tells whether the kernel was interrupted.
InTrap ==
  mode = "S" /\ pc \in {"kernel_entry", "handle_trap", "trap_exit"} =>
    /\ sstatus.SPP = TRUE =>
         /\ scause = "interrupt" /\ sscratch = Zero
         /\ pc = "kernel_entry" => Interruptible(sepc, sp) /\ regs.s = Home(current_proc)
         /\ pc # "kernel_entry" =>
              /\ sp.depth > 0 /\ Interruptible(sepc, Up(sp))
              /\ Frame(sp).kind = "trap" /\ Frame(sp).regs.s = Home(current_proc)
    /\ sstatus.SPP = FALSE =>
         /\ current_proc # Idle /\ sepc \in UserPcs /\ sstatus.SUM = TRUE
         /\ pc = "kernel_entry" => sscratch = Top(current_proc)
         /\ pc # "kernel_entry" =>
              /\ sscratch = Zero
              /\ sp = Down(Top(current_proc)) /\ mem[current_proc][1].kind = "trap"

\* All threads but the current one; an exited process has none.
Asleep ==
  \A p \in PSlots \ {current_proc} :
    p = Idle \/ procs[p].state = "RUNNABLE" => Fresh(p) \/ Parked(p)

\* satp follows current_proc from the first switch on, and idle never exits.
Space ==
  /\ satp # Bare => satp = current_proc /\ procs[current_proc].state = "RUNNABLE"
  /\ current_proc # Idle => satp # Bare
  /\ kmain > 0 \/ current_proc # Idle => procs[Idle].state = "RUNNABLE"

\* Every thread can go on where it is: the stack of the one that runs holds what
\* its code will pop, with sscratch, SPP and sepc as kernel_entry expects them,
\* each one that sleeps has the frames switch_context and yield will read, and
\* satp and the table agree with who runs.
IInv == TypeOK /\ InUser /\ InKernel /\ InTrap /\ Asleep /\ Space

\* Popped frames are cleared, so the first two frames of a kernel stack tell
\* where its user program is.
ClearedAway ==
  /\ \A p \in Procs : p >= kmain =>
       procs[p].state = "UNUSED" /\ mem[p][1] = NoFrame /\ mem[p][2] = NoFrame
  /\ \A p \in Procs \ {current_proc} :
       procs[p].state = "RUNNABLE" /\ Fresh(p) => mem[p][2] = NoFrame
ClearedHere ==
  current_proc # Idle =>
    /\ InHart(current_proc) \/ (mode = "S" /\ pc = "user_entry") =>
         mem[current_proc][1] = NoFrame /\ mem[current_proc][2] = NoFrame
    /\ mode = "S" /\ pc \in {"handle_trap", "trap_exit"} /\ sstatus.SPP = FALSE =>
         mem[current_proc][2] = NoFrame
Cleared == ClearedAway /\ ClearedHere
=============================================================================
