-------------------------------- MODULE Trap --------------------------------
(***************************************************************************)
(* The way between user programs and the kernel on the one hart:           *)
(* kernel_entry and handle_trap (kernel/kernel.c), switch_context, yield   *)
(* and user_entry (kernel/process.c) and wait_for_interrupt                *)
(* (kernel/interrupt.c), with the registers and CSRs they save and restore *)
(* and the kernel stacks they save them on.  Code that runs with SIE clear *)
(* is cut only where control can come from elsewhere.                      *)
(*                                                                         *)
(* Register a stands for a0 and the other caller-saved registers, s for    *)
(* s0-s11.  A stack pointer is a stack and the number of frames above it;  *)
(* the zero of sscratch is the pointer Zero.  mem[k][d] is the frame at    *)
(* depth d of stack k; frames below the stack pointer are dead (NoFrame).  *)
(* pc is a user address, or the kernel code about to run.                  *)
(***************************************************************************)
EXTENDS Scheduler

CONSTANTS NUSERS,              \* user processes created at boot
          Vals,                \* values user programs compute with
          UserPcs, USER_BASE,
          After,               \* the address behind an instruction
          DEPTH                \* bound on the frames of a stack

ASSUME TrapAssumption ==
  /\ NUSERS \in Nat /\ NUSERS < PROCS_MAX
  /\ Vals \subseteq Int
  /\ USER_BASE \in UserPcs
  /\ After \in [UserPcs -> UserPcs]
  /\ DEPTH \in Nat /\ DEPTH >= 4

VARIABLES mode, pc, sp, regs, sscratch, sepc, scause, sstatus, satp,
          procs, current_proc, mem,
          kmain    \* create_process calls kernel_main has made

hartVars == <<mode, pc, sp, regs, sscratch, sepc, scause, sstatus, satp>>
vars == <<hartVars, procs, current_proc, mem, kmain>>

Procs == PSlots \ {Idle}
BootStack == -1                \* __stack_top of the kernel, used by kernel_main
UserStack == -2
Stacks == PSlots \cup {BootStack, UserStack}
Sps == [stack : Stacks \cup {-3}, depth : 0 .. DEPTH]
Zero == [stack |-> -3, depth |-> 0]
UserSp == [stack |-> UserStack, depth |-> 0]
Top(p) == [stack |-> p, depth |-> 0]
Down(p) == [p EXCEPT !.depth = @ + 1]
Up(p) == [p EXCEPT !.depth = @ - 1]

\* What kernel code keeps in registers: a mark of the thread, or of a handler.
HandlerMark == -4
ThreadMark == IF current_proc = Idle THEN BootStack ELSE current_proc
RegVals == Vals \cup PSlots \cup {BootStack, HandlerMark}
Marked(m) == [a |-> m, s |-> m]

Bare == -1                     \* satp before the first switch

NoFrame == [kind |-> "none"]
Push(m, p, f) == [m EXCEPT ![p.stack][p.depth + 1] = f]
Pop(m, p) == [m EXCEPT ![p.stack][p.depth] = NoFrame]
Frame(p) == mem[p.stack][p.depth]

-----------------------------------------------------------------------------
(* The hart. *)

TakeTrap(cause) ==
  /\ sepc' = pc
  /\ scause' = cause
  /\ sstatus' = [sstatus EXCEPT !.SPIE = sstatus.SIE, !.SIE = FALSE, !.SPP = (mode = "S")]
  /\ mode' = "S"
  /\ pc' = "kernel_entry"
  /\ UNCHANGED <<sp, regs, sscratch, satp, procs, current_proc, mem, kmain>>

Ecall == mode = "U" /\ TakeTrap("ecall")

\* In user mode an interrupt is taken whatever SIE says.
Interrupt == (mode = "U" \/ sstatus.SIE) /\ TakeTrap("interrupt")

\* Any other exception of a user program.
Fault == mode = "U" /\ TakeTrap("fault")

\* sret with the sepc and sstatus given.
Sret(epc, st) ==
  /\ mode' = IF st.SPP THEN "S" ELSE "U"
  /\ pc' = epc
  /\ sstatus' = [st EXCEPT !.SIE = st.SPIE, !.SPIE = TRUE, !.SPP = FALSE]

-----------------------------------------------------------------------------
(* User code: start sets sp first, then anything. *)

UserStep ==
  /\ mode = "U"
  /\ pc' \in UserPcs
  /\ \/ regs' \in [a : Vals, s : {regs.s}]
     \/ regs' \in [a : {regs.a}, s : Vals]
  /\ sp' = UserSp
  /\ UNCHANGED <<mode, sscratch, sepc, scause, sstatus, satp, procs, current_proc, mem, kmain>>

-----------------------------------------------------------------------------
(* kernel/kernel.c *)

\* Up to the call of handle_trap.  sscratch not zero means there is a kernel
\* stack to switch to; SPP decides where the interrupted sp is found.
kernel_entry ==
  LET swap == sscratch # Zero
      from == IF swap THEN sscratch ELSE sp
      held == IF swap THEN sp ELSE sscratch
  IN  /\ mode = "S" /\ pc = "kernel_entry"
      /\ mem' = Push(mem, from, [kind |-> "trap", regs |-> regs,
                                 sp |-> IF sstatus.SPP THEN from ELSE held])
      /\ sp' = Down(from)
      /\ sscratch' = IF sstatus.SPP THEN held ELSE Zero
      /\ pc' = "handle_trap"
      /\ regs' = Marked(HandlerMark)
      /\ UNCHANGED <<mode, sepc, scause, sstatus, satp, procs, current_proc, kmain>>

\* The interrupt half of handle_trap, around handle_external_interrupt.
HandleInterrupt ==
  /\ mode = "S" /\ pc = "handle_trap"
  /\ scause = "interrupt"
  /\ pc' = "trap_exit"
  /\ UNCHANGED <<mode, sp, regs, sscratch, sepc, scause, sstatus, satp, procs, current_proc,
                 mem, kmain>>

\* The system-call half, up to the call of handle_syscall.
HandleEcall ==
  /\ mode = "S" /\ pc = "handle_trap"
  /\ scause = "ecall"
  /\ mem' = Push(mem, sp, [kind |-> "handle_trap", user_pc |-> sepc])
  /\ sp' = Down(sp)
  /\ pc' = "handle_syscall"
  /\ regs' = Marked(ThreadMark)
  /\ UNCHANGED <<mode, sscratch, sepc, scause, sstatus, satp, procs, current_proc, kmain>>

\* An unexpected trap stops the kernel.
HandleFault ==
  /\ mode = "S" /\ pc = "handle_trap"
  /\ scause = "fault"
  /\ pc' = "panic"
  /\ UNCHANGED <<mode, sp, regs, sscratch, sepc, scause, sstatus, satp, procs, current_proc,
                 mem, kmain>>

\* The second half of kernel_entry.
trap_exit ==
  /\ mode = "S" /\ pc = "trap_exit"
  /\ regs' = Frame(sp).regs
  /\ \/ /\ sstatus.SPP
        /\ sp' = Up(sp)
        /\ UNCHANGED sscratch
     \/ /\ ~ sstatus.SPP
        /\ sp' = Frame(sp).sp
        /\ sscratch' = Up(sp)
  /\ mem' = Pop(mem, sp)
  /\ Sret(sepc, sstatus)
  /\ UNCHANGED <<sepc, scause, satp, procs, current_proc, kmain>>

-----------------------------------------------------------------------------
(* kernel/interrupt.c: wait_for_interrupt, called by code that returns to ret. *)

wait_for_interrupt(ret) ==
  /\ mem' = Push(mem, sp, [kind |-> "wait", saved |-> sstatus, ret |-> ret])
  /\ sp' = Down(sp)
  /\ sstatus' = [sstatus EXCEPT !.SIE = FALSE]
  /\ pc' = "waiting"
  /\ UNCHANGED <<mode, regs, sscratch, sepc, scause, satp, procs, current_proc, kmain>>

\* wfi has returned: the window opens, and closes again.
WaitOpen ==
  /\ mode = "S" /\ pc = "waiting"
  /\ sstatus' = [Frame(sp).saved EXCEPT !.SIE = TRUE]
  /\ pc' = "window"
  /\ UNCHANGED <<mode, sp, regs, sscratch, sepc, scause, satp, procs, current_proc, mem, kmain>>

WaitClose ==
  /\ mode = "S" /\ pc = "window"
  /\ sstatus' = [Frame(sp).saved EXCEPT !.SIE = FALSE]
  /\ pc' = "waiting"
  /\ UNCHANGED <<mode, sp, regs, sscratch, sepc, scause, satp, procs, current_proc, mem, kmain>>

\* The flag is set.
WaitDone ==
  /\ mode = "S" /\ pc = "waiting"
  /\ sstatus' = Frame(sp).saved
  /\ pc' = Frame(sp).ret
  /\ sp' = Up(sp)
  /\ mem' = Pop(mem, sp)
  /\ UNCHANGED <<mode, regs, sscratch, sepc, scause, satp, procs, current_proc, kmain>>

-----------------------------------------------------------------------------
(* kernel/process.c *)

UnusedProc == [pid |-> 0, state |-> "UNUSED", sp |-> Zero]

\* Mutation: switch_context without the callee-saved registers.
switch_context_no_s(m, prev_sp, next_sp) ==
  LET f == m[next_sp.stack][next_sp.depth]
  IN  /\ mem' = Pop(Push(m, prev_sp, [kind |-> "switch", ra |-> "switched", s |-> regs.s]),
                    next_sp)
      /\ sp' = Up(next_sp)
      /\ pc' = f.ra
      /\ UNCHANGED regs

\* Saves the callee-saved registers under prev_sp and takes those found at
\* next_sp; ret goes where that stack says.
switch_context(m, prev_sp, next_sp) ==
  LET f == m[next_sp.stack][next_sp.depth]
  IN  /\ mem' = Pop(Push(m, prev_sp, [kind |-> "switch", ra |-> "switched", s |-> regs.s]),
                    next_sp)
      /\ sp' = Up(next_sp)
      /\ pc' = f.ra
      /\ regs' = [regs EXCEPT !.s = f.s]

\* Mutation: without state = PROC_UNUSED.
ReapedUnmarked(ps) ==
  IF ps[current_proc].state = "EXITED"
  THEN [ps EXCEPT ![current_proc] = [UnusedProc EXCEPT !.state = "EXITED"]] ELSE ps

\* release_process, when the current process has exited.
Reaped(ps) ==
  IF ps[current_proc].state = "EXITED"
  THEN [ps EXCEPT ![current_proc] = UnusedProc] ELSE ps

\* Mutation: without the write of satp.
EnterSpaceKeepSatp(next) ==
  /\ sscratch' = Top(next)
  /\ current_proc' = next
  /\ UNCHANGED satp

EnterSpace(next) ==
  /\ satp' = next
  /\ sscratch' = Top(next)
  /\ current_proc' = next

\* yield with the process table ps0, called by code that returns to ret.
yield(ret, ps0) ==
  LET ps == Reaped(ps0)
      next == PickNext(ps, current_proc)
  IN  /\ \/ /\ next = current_proc
            /\ procs' = ps
            /\ pc' = ret
            /\ UNCHANGED <<sp, regs, sscratch, sstatus, satp, current_proc, mem>>
         \/ /\ next # current_proc
            /\ sstatus' = [sstatus EXCEPT !.SIE = FALSE]
            /\ EnterSpace(next)
            /\ procs' = [ps EXCEPT ![current_proc].sp = Down(Down(sp))]
            /\ switch_context(Push(mem, sp, [kind |-> "yield", saved |-> sstatus, ret |-> ret]),
                              Down(sp), ps[next].sp)
      /\ UNCHANGED <<mode, sepc, scause, kmain>>

\* Mutation: sstatus is restored before sscratch is cleared.
yield_switched_status_first ==
  /\ mode = "S" /\ pc = "switched"
  /\ \/ /\ sstatus # Frame(sp).saved
        /\ sstatus' = Frame(sp).saved
        /\ UNCHANGED <<pc, sscratch>>
     \/ /\ sstatus = Frame(sp).saved
        /\ sscratch' = Zero
        /\ pc' = "restoring"
        /\ UNCHANGED sstatus
  /\ UNCHANGED <<mode, sp, regs, sepc, scause, satp, procs, current_proc, mem, kmain>>

\* The rest of yield, when the processor has come back: the two CSR writes one
\* after the other.
yield_switched ==
  /\ mode = "S" /\ pc = "switched"
  /\ sscratch' = Zero
  /\ pc' = "restoring"
  /\ UNCHANGED <<mode, sp, regs, sepc, scause, sstatus, satp, procs, current_proc, mem, kmain>>

yield_restore ==
  /\ mode = "S" /\ pc = "restoring"
  /\ sstatus' = Frame(sp).saved
  /\ pc' = Frame(sp).ret
  /\ sp' = Up(sp)
  /\ mem' = Pop(mem, sp)
  /\ UNCHANGED <<mode, regs, sepc, scause, sscratch, satp, procs, current_proc, kmain>>

user_entry ==
  /\ mode = "S" /\ pc = "user_entry"
  /\ sepc' = USER_BASE
  /\ Sret(USER_BASE, [SIE |-> FALSE, SPIE |-> TRUE, SPP |-> FALSE, SUM |-> TRUE])
  /\ UNCHANGED <<sp, regs, sscratch, scause, satp, procs, current_proc, mem, kmain>>

-----------------------------------------------------------------------------
(* kernel/syscall.c: the four ways a system call goes on. *)

InSyscall == mode = "S" /\ pc = "handle_syscall"

\* Mutation: sepc read after the system call.
SysReturnLate ==
  /\ InSyscall
  /\ \E r \in Vals \cup {Frame(Up(sp)).regs.a} :
       mem' = [Pop(mem, sp) EXCEPT ![sp.stack][sp.depth - 1].regs.a = r]
  /\ sepc' = IF sepc \in UserPcs THEN After[sepc] ELSE sepc
  /\ sp' = Up(sp)
  /\ pc' = "trap_exit"
  /\ UNCHANGED <<mode, regs, sscratch, scause, sstatus, satp, procs, current_proc, kmain>>

\* The result, if there is one, goes to f->a0, the return address behind the ecall to sepc.
SysReturn ==
  /\ InSyscall
  /\ \E r \in Vals \cup {Frame(Up(sp)).regs.a} :
       mem' = [Pop(mem, sp) EXCEPT ![sp.stack][sp.depth - 1].regs.a = r]
  /\ sepc' = After[Frame(sp).user_pc]
  /\ sp' = Up(sp)
  /\ pc' = "trap_exit"
  /\ UNCHANGED <<mode, regs, sscratch, scause, sstatus, satp, procs, current_proc, kmain>>

\* A call that does disk or network I/O.
SysWait == InSyscall /\ wait_for_interrupt("handle_syscall")

\* SYS_GETCHAR without input.
SysGetchar == InSyscall /\ yield("handle_syscall", procs)

SysExit ==
  /\ InSyscall
  /\ yield("panic", [procs EXCEPT ![current_proc].state = "EXITED"])

-----------------------------------------------------------------------------
(* kernel_main *)

\* WRITE_CSR(sscratch, 0), then SIE on.
kernel_main_init ==
  /\ mode = "S" /\ pc = "boot"
  /\ sscratch' = Zero
  /\ sstatus' = [sstatus EXCEPT !.SIE = TRUE]
  /\ pc' = "kernel_main"
  /\ UNCHANGED <<mode, sp, regs, sepc, scause, satp, procs, current_proc, mem, kmain>>

\* The drivers, fs_init and the tests.
BootWait == mode = "S" /\ pc = "kernel_main" /\ wait_for_interrupt("kernel_main")

\* The frame that makes the first switch_context return to user_entry.
create_process ==
  /\ mode = "S" /\ pc = "kernel_main"
  /\ kmain <= NUSERS
  /\ procs' = [procs EXCEPT ![kmain] = [pid |-> IF kmain = Idle THEN 0 ELSE kmain + 1,
                                        state |-> "RUNNABLE", sp |-> Down(Top(kmain))]]
  /\ mem' = Push(mem, Top(kmain), [kind |-> "switch", ra |-> "user_entry", s |-> 0])
  /\ kmain' = kmain + 1
  /\ UNCHANGED <<hartVars, current_proc>>

kernel_main_yield ==
  /\ mode = "S" /\ pc = "kernel_main"
  /\ kmain = NUSERS + 1
  /\ yield("panic", procs)

\* boot has set sp; what sscratch held before the kernel is unknown.
Init ==
  /\ mode = "S" /\ pc = "boot"
  /\ sp = [stack |-> BootStack, depth |-> 0]
  /\ regs = Marked(BootStack)
  /\ sscratch \in {Zero, UserSp}
  /\ sepc = "boot" /\ scause = "none"
  /\ sstatus = [SIE |-> FALSE, SPIE |-> FALSE, SPP |-> FALSE, SUM |-> FALSE]
  /\ satp = Bare
  /\ procs = [p \in PSlots |-> UnusedProc]
  /\ current_proc = Idle
  /\ mem = [k \in Stacks |-> [d \in 1 .. DEPTH |-> NoFrame]]
  /\ kmain = 0

Next ==
  \/ Ecall \/ Interrupt \/ Fault \/ UserStep
  \/ kernel_entry \/ HandleInterrupt \/ HandleEcall \/ HandleFault \/ trap_exit
  \/ WaitOpen \/ WaitClose \/ WaitDone
  \/ yield_switched \/ yield_restore \/ user_entry
  \/ SysReturn \/ SysWait \/ SysGetchar \/ SysExit
  \/ kernel_main_init \/ BootWait \/ create_process \/ kernel_main_yield

Spec == Init /\ [][Next]_vars

-----------------------------------------------------------------------------
Sstatus == [SIE : BOOLEAN, SPIE : BOOLEAN, SPP : BOOLEAN, SUM : BOOLEAN]
Regs == [a : RegVals, s : RegVals]
KernelPcs == {"boot", "kernel_main", "panic", "kernel_entry", "handle_trap", "trap_exit",
              "handle_syscall", "waiting", "window", "switched", "restoring",
              "user_entry"}
Frames ==
  {NoFrame}
    \cup [kind : {"trap"}, regs : Regs, sp : Sps]
    \cup [kind : {"handle_trap"}, user_pc : UserPcs]
    \cup [kind : {"wait", "yield"}, saved : Sstatus, ret : KernelPcs]
    \cup [kind : {"switch"}, ra : KernelPcs, s : RegVals]

\* The types of the registers and of the stacks: no system call or interrupt
\* needs more than DEPTH frames of a kernel stack.
TypeOK ==
  /\ mode \in {"U", "S"}
  /\ pc \in KernelPcs \cup UserPcs
  /\ sp \in Sps
  /\ regs \in Regs
  /\ sscratch \in Sps
  /\ sepc \in KernelPcs \cup UserPcs
  /\ scause \in {"none", "ecall", "interrupt", "fault"}
  /\ sstatus \in Sstatus
  /\ satp \in PSlots \cup {Bare}
  /\ procs \in [PSlots -> [pid : 0 .. PROCS_MAX, state : {"UNUSED", "RUNNABLE"}, sp : Sps]]
  /\ current_proc \in PSlots
  /\ mem \in [Stacks -> [1 .. DEPTH -> Frames]]
  /\ kmain \in 0 .. NUSERS + 1

\* The comment on kernel_entry: sscratch is the kernel stack top of the current
\* process in user mode, and zero in the kernel wherever an interrupt can come,
\* over nested traps, switches and exits.
ScratchProtocol ==
  /\ mode = "U" => sscratch = Top(current_proc)
  /\ mode = "S" /\ sstatus.SIE => sscratch = Zero

\* Kernel code continues on its own stack, with its own activation on top and
\* its callee-saved registers, after every interrupt in its wait window and
\* after every switch away and back.
OwnFrame == [handle_syscall |-> "handle_trap", waiting |-> "wait", window |-> "wait",
             switched |-> "yield", restoring |-> "yield"]
KernelAtHome ==
  mode = "S" /\ pc \in DOMAIN OwnFrame =>
    /\ sp.stack = ThreadMark
    /\ Frame(sp).kind = OwnFrame[pc]
    /\ regs.s = ThreadMark

\* A process's memory is reachable whenever its program or its system call
\* runs: satp holds its page table, which is not released, and in the kernel
\* SUM is set; and satp never keeps the table of a process that is gone.
AddressSpaceCurrent ==
  /\ mode = "U" => satp = current_proc
  /\ InSyscall => satp = current_proc /\ sstatus.SUM
  /\ satp # Bare => procs[satp].state = "RUNNABLE"

-----------------------------------------------------------------------------
(* What the user programs see. *)

\* The user state is in the hart until kernel_entry has saved it.
InHart(p) ==
  /\ p = current_proc
  /\ mode = "U" \/ (mode = "S" /\ pc = "kernel_entry" /\ ~ sstatus.SPP)
Unborn(p) ==
  \/ procs[p].state = "UNUSED" /\ p >= kmain
  \/ procs[p].state = "RUNNABLE" /\ mem[p][1].kind # "trap" /\ ~ InHart(p)
Life(p) ==
  IF Unborn(p) THEN "unborn"
  ELSE IF procs[p].state = "UNUSED" THEN "gone"
  ELSE IF \/ mem[p][2].kind = "handle_trap"
          \/ /\ p = current_proc /\ mode = "S" /\ scause = "ecall"
             /\ pc \in {"kernel_entry", "handle_trap"}
  THEN "calling" ELSE "user"
View(p) ==
  IF Life(p) \in {"unborn", "gone"} THEN [pc |-> USER_BASE]
  ELSE LET r == IF InHart(p) THEN regs ELSE mem[p][1].regs
       IN  [pc |-> IF mode = "U" /\ p = current_proc THEN pc
                   ELSE IF mem[p][2].kind = "handle_trap" THEN mem[p][2].user_pc
                   ELSE sepc,
            a |-> r.a, s |-> r.s,
            sp |-> IF InHart(p) THEN sp ELSE mem[p][1].sp]

Running == IF mode = "U" THEN current_proc ELSE Idle
Lives == [p \in Procs |-> Life(p)]
Views == [p \in Procs |-> View(p)]
Machine == INSTANCE UserMachine WITH None <- Idle, running <- Running, life <- Lives, view <- Views

\* Every user program sees a machine of its own: whatever interrupts come, in
\* user mode or in the wait window of a system call, and whoever runs between,
\* it continues at its own pc with its own registers and stack pointer.
ImplementsUserMachine == Machine!Spec
=============================================================================
