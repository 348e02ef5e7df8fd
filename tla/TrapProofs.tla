----------------------------- MODULE TrapProofs -----------------------------
(***************************************************************************)
(* IInv is an invariant of Trap for any number of processes, any user      *)
(* programs and any stack of at least four frames, and the safety          *)
(* properties of Trap and its refinement of UserMachine follow from it.    *)
(***************************************************************************)
EXTENDS TrapInvariant, TLAPS, WellFoundedInduction

\* The least number of a set of naturals, which PickNext takes, is in the set.
LEMMA MinIn ==
  ASSUME NEW S \in SUBSET Nat, S # {}
  PROVE  Min(S) \in S
<1>1. IsWellFoundedOn(OpToRel(<, Nat), Nat)
  BY NatLessThanWellFounded, Zenon
<1>2. PICK x \in S : \A y \in S : ~ (<<y, x>> \in OpToRel(<, Nat))
  BY <1>1, WFMin, Zenon
<1>3. \A y \in S : x <= y
  <2> TAKE y \in S
  <2>1. ~ (<<y, x>> \in {ss \in Nat \X Nat : ss[1] < ss[2]})
    BY <1>2, Zenon DEF OpToRel
  <2> QED
    BY <2>1, SMT
<1> QED
  BY <1>3, Zenon DEF Min

Table == [PSlots -> [pid : 0 .. PROCS_MAX, state : {"UNUSED", "RUNNABLE"}, sp : Sps]]

\* The scan in yield ends at a slot of the table, idle's or a runnable one.
LEMMA PickNextReady ==
  ASSUME NEW ps \in Table, NEW cur \in PSlots
  PROVE  /\ PickNext(ps, cur) \in PSlots
         /\ PickNext(ps, cur) # Idle => ps[PickNext(ps, cur)].state = "RUNNABLE"
<1>0. \A a, b \in Nat : a + b \in Nat
  BY SMT
<1> DEFINE slot(i) == (ps[cur].pid + i) % PROCS_MAX
           ready == {i \in PSlots : ps[slot(i)].state = "RUNNABLE" /\ ps[slot(i)].pid > 0}
<1>1. Idle \in PSlots
  BY SchedulerAssumption, SMT DEF Idle, PSlots
<1>2. PickNext(ps, cur) = IF ready = {} THEN Idle ELSE slot(Min(ready))
  BY Zenon DEF PickNext
<1>3. ASSUME ready # {}
      PROVE  slot(Min(ready)) \in PSlots /\ ps[slot(Min(ready))].state = "RUNNABLE"
  <2>1. ready \in SUBSET Nat
    BY SMT DEF PSlots
  <2>2. Min(ready) \in ready
    BY <1>3, <2>1, MinIn, Zenon
  <2>3. ps[cur].pid + Min(ready) \in Nat
    <3>1. Min(ready) \in Nat
      BY <2>1, <2>2, Zenon
    <3>2. ps[cur].pid \in Nat
      BY SMT DEF Table
    <3> QED
      BY <1>0, <3>1, <3>2, Zenon
  <2>4. \A n \in Nat : n % PROCS_MAX \in PSlots
    BY SchedulerAssumption, SMT DEF PSlots
  <2>5. slot(Min(ready)) \in PSlots
    BY <2>3, <2>4, Zenon
  <2> QED
    BY <2>2, <2>5, Zenon
<1> QED
  BY <1>1, <1>2, <1>3, Zenon

-----------------------------------------------------------------------------
(* Stacks *)

Mem == [Stacks -> [1 .. DEPTH -> Frames]]

\* What the frames of each kind hold.
LEMMA FrameFields ==
  ASSUME NEW f \in Frames
  PROVE  /\ f.kind = "trap" => f.regs \in Regs /\ f.sp \in Sps
         /\ f.kind = "handle_trap" => f.user_pc \in UserPcs
         /\ f.kind \in {"wait", "yield"} => f.saved \in Sstatus /\ f.ret \in KernelPcs
         /\ f.kind = "switch" => f.ra \in KernelPcs /\ f.s \in RegVals
  BY SMT DEF Frames, NoFrame

\* A push writes the one frame below the stack pointer.
LEMMA PushFrame ==
  ASSUME NEW m \in Mem, NEW p \in Sps, p.stack \in Stacks, p.depth < DEPTH, NEW f \in Frames
  PROVE  /\ Push(m, p, f) \in Mem
         /\ \A k \in Stacks : \A d \in 1 .. DEPTH :
              Push(m, p, f)[k][d] = IF k = p.stack /\ d = p.depth + 1 THEN f ELSE m[k][d]
<1> DEFINE top == p.depth + 1
<1>1. top \in 1 .. DEPTH
  BY TrapAssumption, SMT DEF Sps
<1>2. Push(m, p, f) = [m EXCEPT ![p.stack][top] = f]
  BY Zenon DEF Push
<1> DEFINE places == 1 .. DEPTH
<1> HIDE DEF top, places
<1>3. m \in [Stacks -> [places -> Frames]] /\ top \in places
  BY <1>1, Zenon DEF Mem, places
<1>4. /\ [m EXCEPT ![p.stack][top] = f] \in [Stacks -> [places -> Frames]]
      /\ \A k \in Stacks : \A d \in places :
           [m EXCEPT ![p.stack][top] = f][k][d] = IF k = p.stack /\ d = top THEN f ELSE m[k][d]
  BY <1>3
<1> QED
  BY <1>2, <1>4, Zenon DEF Mem, places, top

\* A pop clears the frame at the stack pointer.
LEMMA PopFrame ==
  ASSUME NEW m \in Mem, NEW p \in Sps, p.stack \in Stacks, p.depth > 0
  PROVE  /\ Pop(m, p) \in Mem
         /\ \A k \in Stacks : \A d \in 1 .. DEPTH :
              Pop(m, p)[k][d] = IF k = p.stack /\ d = p.depth THEN NoFrame ELSE m[k][d]
<1>1. p.depth \in 1 .. DEPTH /\ NoFrame \in Frames
  BY TrapAssumption, SMT DEF Sps, Frames
<1> DEFINE places == 1 .. DEPTH
<1> HIDE DEF places
<1>3. m \in [Stacks -> [places -> Frames]] /\ p.depth \in places
  BY <1>1, Zenon DEF Mem, places
<1>4. /\ [m EXCEPT ![p.stack][p.depth] = NoFrame] \in [Stacks -> [places -> Frames]]
      /\ \A k \in Stacks : \A d \in places :
           [m EXCEPT ![p.stack][p.depth] = NoFrame][k][d]
             = IF k = p.stack /\ d = p.depth THEN NoFrame ELSE m[k][d]
  BY <1>1, <1>3
<1> QED
  BY <1>4, Zenon DEF Mem, places, Pop

\* Slots have stacks of their own.
LEMMA Homes ==
  /\ \A p \in PSlots : Home(p) \in Stacks /\ Depth(p) \in 1 .. 3 /\ Activation(p) \in Sps
  /\ \A p, q \in PSlots : Home(p) = Home(q) => p = q
  /\ \A p \in PSlots : p # Idle => Home(p) = p
  /\ Idle \in PSlots /\ Home(Idle) = BootStack /\ BootTop \in Sps /\ Zero \in Sps /\ UserSp \in Sps
  BY SchedulerAssumption, TrapAssumption, SMT
     DEF PSlots, Stacks, BootStack, UserStack, Idle, Home, Depth, Activation, Sps, BootTop, Zero,
         UserSp
\* The stack of a slot, and the pointer to its top.
LEMMA Tops ==
  ASSUME NEW p \in PSlots
  PROVE  p \in Stacks /\ Top(p) \in Sps /\ Top(p).stack = p /\ Top(p).depth = 0
  BY SchedulerAssumption, TrapAssumption, SMT DEF PSlots, Stacks, Sps, Top

-----------------------------------------------------------------------------
(* The steps *)

\* A thread that does not run is not disturbed by what the others do on their
\* own stacks.
LEMMA AsleepKept ==
  ASSUME Asleep, current_proc \in PSlots, UNCHANGED <<current_proc, procs>>,
         \A p \in PSlots \ {current_proc} : \A d \in 1 .. DEPTH :
           mem'[Home(p)][d] = mem[Home(p)][d]
  PROVE  Asleep'
<1> SUFFICES ASSUME NEW p \in PSlots \ {current_proc},
                    p = Idle \/ procs[p].state = "RUNNABLE"
             PROVE  Fresh(p)' \/ Parked(p)'
  BY Zenon DEF Asleep
<1>1. /\ {1, 2, 3, 4} \subseteq 1 .. DEPTH
      /\ Depth(p) \in 1 .. DEPTH /\ Depth(p) + 1 \in 1 .. DEPTH
  BY TrapAssumption, SMT DEF Depth
<1>2. Home(p) = p \/ p = Idle
  BY Zenon DEF Home
<1>3. CASE Fresh(p)
  BY <1>1, <1>2, <1>3, Zenon DEF Fresh
<1>4. CASE Parked(p)
  BY <1>1, <1>2, <1>4, Zenon DEF Parked, Returns, InCall
<1> QED
  BY <1>3, <1>4, Zenon DEF Asleep

\* A step that writes to no stack leaves every activation as it was.
LEMMA StillThere ==
  ASSUME IInv, UNCHANGED <<current_proc, procs, mem, satp, kmain>>
  PROVE  /\ Asleep' /\ Space'
         /\ \A p : InCall(p)' <=> InCall(p)
         /\ \A p, kind : Returns(p, kind)' <=> Returns(p, kind)
         /\ \A c, s : Interruptible(c, s)' <=> Interruptible(c, s)
<1>1. Asleep'
  BY AsleepKept, Zenon DEF IInv, TypeOK
<1>2. Space'
  BY Zenon DEF IInv, Space
<1>3. \A p : InCall(p)' <=> InCall(p)
  BY Zenon DEF InCall
<1>4. \A p, kind : Returns(p, kind)' <=> Returns(p, kind)
  BY <1>3, Zenon DEF Returns
<1>5. \A c, s : Interruptible(c, s)' <=> Interruptible(c, s)
  BY <1>4, Zenon DEF Interruptible
<1> QED
  BY <1>1, <1>2, <1>3, <1>4, <1>5, Zenon

\* A step that changes nothing keeps the invariant.
LEMMA Stuttered ==
  ASSUME IInv, UNCHANGED vars
  PROVE  IInv'
<1> USE DEF vars, hartVars
<1>1. TypeOK' /\ InUser'
  BY Zenon DEF IInv, TypeOK, InUser
<1>2. InKernel' /\ InTrap'
  BY ZenonT(60) DEF IInv, InKernel, InTrap, Interruptible, Returns, InCall, Frame
<1>3. Asleep' /\ Space'
  BY StillThere, Zenon
<1> QED
  BY <1>1, <1>2, <1>3, Zenon DEF IInv

\* The hart takes a trap: the interrupted code is a user program, or kernel code
\* that may be interrupted.
LEMMA TrapTaken ==
  ASSUME IInv, Ecall \/ Interrupt \/ Fault
  PROVE  IInv'
<1>1. PICK cause \in {"ecall", "interrupt", "fault"} :
        /\ TakeTrap(cause)
        /\ mode = "U" \/ (cause = "interrupt" /\ sstatus.SIE = TRUE)
  BY SMT DEF Ecall, Interrupt, Fault, TypeOK, Sstatus
<1>2. /\ sstatus' \in Sstatus
      /\ sstatus'.SIE = FALSE /\ sstatus'.SUM = sstatus.SUM
      /\ mode = "U" => sstatus'.SPP = FALSE
      /\ mode = "S" => sstatus'.SPP = TRUE
  <2>1. mode \in {"U", "S"} /\ sstatus \in Sstatus /\ (mode = "S") \in BOOLEAN
    BY Zenon DEF IInv, TypeOK
  <2>2. /\ sstatus' \in Sstatus /\ sstatus'.SIE = FALSE /\ sstatus'.SUM = sstatus.SUM
        /\ sstatus'.SPP = (mode = "S")
    BY <1>1, <2>1, Zenon DEF TakeTrap, Sstatus
  <2> QED
    BY <2>1, <2>2, Zenon
<1>3. TypeOK'
  BY <1>1, <1>2, Zenon DEF IInv, TakeTrap, TypeOK, KernelPcs
<1>4. InUser' /\ InKernel'
  BY <1>1, <1>2, Zenon DEF TakeTrap, InUser, InKernel, KernelPcs
<1>5. InTrap'
  <2>1. CASE mode = "U"
    BY <1>1, <1>2, <2>1, SMT DEF IInv, TakeTrap, InUser, InTrap
  <2>2. CASE mode = "S"
    <3>1. Interruptible(pc, sp) /\ sscratch = Zero /\ regs.s = Home(current_proc)
      BY <1>1, <2>2, Zenon DEF IInv, InKernel
    <3>2. Interruptible(sepc, sp)'
      BY <3>1, <1>1, StillThere, Zenon DEF TakeTrap, TypeOK, Interruptible
    <3> QED
      BY <1>1, <1>2, <2>2, <3>1, <3>2, SMT DEF TakeTrap, InTrap
  <2> QED
    BY <2>1, <2>2, SMT DEF IInv, TypeOK
<1>6. Asleep' /\ Space'
  BY <1>1, StillThere, Zenon DEF TakeTrap
<1> QED
  BY <1>3, <1>4, <1>5, <1>6, Zenon DEF IInv
\* A user program changes its own registers only.
LEMMA UserStepped ==
  ASSUME IInv, UserStep
  PROVE  IInv'
<1>1. TypeOK'
  <2>1. regs' \in Regs
    BY SMT DEF IInv, UserStep, TypeOK, Regs, RegVals
  <2> QED
    BY <2>1, Homes, Zenon DEF IInv, UserStep, TypeOK
<1>2. InUser' /\ InKernel' /\ InTrap'
  BY Zenon DEF IInv, UserStep, InUser, InKernel, InTrap
<1>3. Asleep' /\ Space'
  BY StillThere, Zenon DEF UserStep
<1> QED
  BY <1>1, <1>2, <1>3, Zenon DEF IInv

\* handle_trap returns from an external interrupt.
LEMMA InterruptHandled ==
  ASSUME IInv, HandleInterrupt
  PROVE  IInv'
<1>1. TypeOK'
  BY Zenon DEF IInv, HandleInterrupt, TypeOK, KernelPcs
<1>2. InUser' /\ InKernel'
  BY Zenon DEF IInv, HandleInterrupt, InUser, InKernel, KernelPcs
<1>3. InTrap'
  <2>1. Interruptible(sepc, Up(sp)) => Interruptible(sepc, Up(sp))'
    BY StillThere, Zenon DEF HandleInterrupt, Up
  <2> QED
    BY <2>1, SMT DEF IInv, HandleInterrupt, InTrap, Frame
<1>4. Asleep' /\ Space'
  BY StillThere, Zenon DEF HandleInterrupt
<1> QED
  BY <1>1, <1>2, <1>3, <1>4, Zenon DEF IInv

\* handle_trap panics.
LEMMA FaultHandled ==
  ASSUME IInv, HandleFault
  PROVE  IInv'
<1>1. TypeOK'
  BY Zenon DEF IInv, HandleFault, TypeOK, KernelPcs
<1>2. InUser' /\ InKernel' /\ InTrap'
  BY Zenon DEF IInv, HandleFault, InUser, InKernel, InTrap, KernelPcs
<1>3. Asleep' /\ Space'
  BY StillThere, Zenon DEF HandleFault
<1> QED
  BY <1>1, <1>2, <1>3, Zenon DEF IInv
\* What wait_for_interrupt and yield find in their own frame.
LEMMA OwnFrameTyped ==
  ASSUME TypeOK, NEW kind \in {"wait", "yield"}, sp = Activation(current_proc),
         Returns(current_proc, kind)
  PROVE  /\ Frame(sp) = mem[Home(current_proc)][Depth(current_proc)]
         /\ Frame(sp).kind = kind
         /\ Frame(sp).saved \in Sstatus
         /\ Frame(sp).ret \in KernelPcs
         /\ sp.stack = Home(current_proc) /\ sp.stack \in Stacks
         /\ sp.depth = Depth(current_proc) /\ sp.depth > 0
<1>1. current_proc \in PSlots /\ mem \in Mem
  BY Zenon DEF TypeOK, Mem
<1>2. Home(current_proc) \in Stacks /\ Depth(current_proc) \in 1 .. DEPTH
  BY <1>1, Homes, TrapAssumption, SMT
<1>3. mem[Home(current_proc)][Depth(current_proc)] \in Frames
  BY <1>1, <1>2, Zenon DEF Mem
<1>4. /\ sp.stack = Home(current_proc) /\ sp.depth = Depth(current_proc)
      /\ Frame(sp) = mem[Home(current_proc)][Depth(current_proc)]
  BY SMT DEF Activation, Frame
<1>5. Frame(sp).kind = kind
  BY <1>4, Zenon DEF Returns
<1>6. Depth(current_proc) > 0
  BY SMT DEF Depth
<1> QED
  BY <1>2, <1>3, <1>4, <1>5, <1>6, FrameFields, Zenon

\* wait_for_interrupt opens its window with sscratch zero.
LEMMA WaitOpened ==
  ASSUME IInv, WaitOpen
  PROVE  IInv'
<1>1. /\ sp = Activation(current_proc) /\ Returns(current_proc, "wait")
      /\ sscratch = Zero /\ regs.s = Home(current_proc)
  BY Zenon DEF IInv, WaitOpen, InKernel
<1>2. sstatus' \in Sstatus
  BY <1>1, OwnFrameTyped, Zenon DEF IInv, WaitOpen, Sstatus
<1>3. TypeOK'
  BY <1>2, SMT DEF IInv, WaitOpen, TypeOK, KernelPcs
<1>4. Interruptible(pc, sp)' /\ regs'.s = Home(current_proc)'
  BY <1>1, StillThere, Zenon DEF WaitOpen, Interruptible, Activation
<1>5. InUser' /\ InKernel' /\ InTrap'
  BY <1>1, <1>4, Zenon DEF WaitOpen, InUser, InKernel, InTrap, KernelPcs
<1>6. Asleep' /\ Space'
  BY StillThere, Zenon DEF WaitOpen
<1> QED
  BY <1>3, <1>5, <1>6, Zenon DEF IInv

\* wait_for_interrupt closes its window with its frame on top.
LEMMA WaitClosed ==
  ASSUME IInv, WaitClose
  PROVE  IInv'
<1>1. /\ sp = Activation(current_proc) /\ Returns(current_proc, "wait")
      /\ sscratch = Zero /\ regs.s = Home(current_proc)
  BY Zenon DEF IInv, WaitClose, InKernel, Interruptible
<1>2. sstatus' \in Sstatus /\ sstatus'.SIE = FALSE
  BY <1>1, OwnFrameTyped, Zenon DEF IInv, WaitClose, Sstatus
<1>3. TypeOK'
  BY <1>2, SMT DEF IInv, WaitClose, TypeOK, KernelPcs
<1>4. /\ sp' = Activation(current_proc)' /\ Returns(current_proc, "wait")'
      /\ regs'.s = Home(current_proc)'
  BY <1>1, StillThere, Zenon DEF WaitClose
<1>5. InUser' /\ InKernel' /\ InTrap'
  BY <1>1, <1>2, <1>4, Zenon DEF WaitClose, InUser, InKernel, InTrap, KernelPcs
<1>6. Asleep' /\ Space'
  BY StillThere, Zenon DEF WaitClose
<1> QED
  BY <1>3, <1>5, <1>6, Zenon DEF IInv

\* user_entry goes to the user program of the current process.
LEMMA UserEntered ==
  ASSUME IInv, user_entry
  PROVE  IInv'
<1>1. sstatus' \in Sstatus /\ sstatus'.SUM = TRUE /\ mode' = "U" /\ pc' = USER_BASE
  BY Zenon DEF user_entry, Sret, Sstatus
<1>2. TypeOK'
  BY <1>1, TrapAssumption, Zenon DEF IInv, user_entry, TypeOK
<1>3. InUser' /\ InKernel' /\ InTrap'
  BY <1>1, TrapAssumption, Zenon DEF IInv, user_entry, InUser, InKernel, InTrap
<1>4. Asleep' /\ Space'
  BY StillThere, Zenon DEF user_entry
<1> QED
  BY <1>2, <1>3, <1>4, Zenon DEF IInv

\* kernel_main clears sscratch before it turns interrupts on.
LEMMA KernelMainBegun ==
  ASSUME IInv, kernel_main_init
  PROVE  IInv'
<1>1. sstatus' \in Sstatus
  BY Zenon DEF IInv, kernel_main_init, TypeOK, Sstatus
<1>2. TypeOK'
  BY <1>1, Homes, Zenon DEF IInv, kernel_main_init, TypeOK, KernelPcs
<1>3. InUser' /\ InKernel' /\ InTrap'
  BY Homes, Zenon DEF IInv, kernel_main_init, InUser, InKernel, InTrap, Interruptible, KernelPcs
<1>4. Asleep' /\ Space'
  BY StillThere, Zenon DEF kernel_main_init
<1> QED
  BY <1>2, <1>3, <1>4, Zenon DEF IInv
-----------------------------------------------------------------------------
(* The steps that write to the stack of the current thread *)

\* A step that writes to the current thread's stack disturbs no other thread.
LEMMA OwnStack ==
  ASSUME IInv, UNCHANGED <<current_proc, procs, satp, kmain>>,
         \A k \in Stacks \ {Home(current_proc)} : \A d \in 1 .. DEPTH : mem'[k][d] = mem[k][d]
  PROVE  Asleep' /\ Space'
<1>1. \A p \in PSlots \ {current_proc} : Home(p) \in Stacks \ {Home(current_proc)}
  BY Homes, Zenon DEF IInv, TypeOK
<1>2. Asleep'
  BY <1>1, AsleepKept, Zenon DEF IInv, TypeOK
<1>3. Space'
  BY Zenon DEF IInv, Space
<1> QED
  BY <1>2, <1>3, Zenon

\* An activation can return as long as the frames above it and its own are kept.
LEMMA ReturnsKept ==
  ASSUME current_proc \in PSlots, UNCHANGED current_proc, NEW kind,
         Returns(current_proc, kind),
         \A d \in 1 .. Depth(current_proc) :
           mem'[Home(current_proc)][d] = mem[Home(current_proc)][d]
  PROVE  Returns(current_proc, kind)'
<1>1. CASE current_proc = Idle
  <2>1. 1 \in 1 .. Depth(current_proc) /\ Depth(current_proc) = 1
    BY <1>1, SMT DEF Depth
  <2> QED
    BY <1>1, <2>1, Zenon DEF Returns
<1>2. CASE current_proc # Idle
  <2>1. {1, 2, 3} \subseteq 1 .. Depth(current_proc) /\ Depth(current_proc) = 3
    BY <1>2, SMT DEF Depth
  <2>2. Home(current_proc) = current_proc
    BY <1>2, Homes, Zenon
  <2> QED
    BY <1>2, <2>1, <2>2, Zenon DEF Returns, InCall
<1> QED
  BY <1>1, <1>2, Zenon

\* A stack pointer goes down and up again.
LEMMA DownUp ==
  ASSUME NEW s \in Sps
  PROVE  /\ Down(s).stack = s.stack /\ Down(s).depth = s.depth + 1
         /\ Up(s).stack = s.stack /\ Up(s).depth = s.depth - 1
         /\ Up(Down(s)) = s
         /\ s.depth < DEPTH => Down(s) \in Sps
         /\ s.depth > 0 => Up(s) \in Sps /\ Down(Up(s)) = s
<1>1. s = [stack |-> s.stack, depth |-> s.depth] /\ s.depth \in 0 .. DEPTH
  BY SMT DEF Sps
<1>2. /\ Down(s) = [stack |-> s.stack, depth |-> s.depth + 1]
      /\ Up(s) = [stack |-> s.stack, depth |-> s.depth - 1]
  BY <1>1, SMT DEF Down, Up
<1>3. Up(Down(s)) = s
  BY <1>1, <1>2, SMT DEF Up
<1>4. s.depth > 0 => Down(Up(s)) = s
  BY <1>1, <1>2, SMT DEF Down
<1> QED
  BY <1>1, <1>2, <1>3, <1>4, TrapAssumption, SMT DEF Sps

\* Code that may be interrupted runs on the current thread's stack, with room for
\* a trap frame.
LEMMA InterruptibleSp ==
  ASSUME current_proc \in PSlots, NEW c, NEW s, Interruptible(c, s)
  PROVE  /\ s \in Sps /\ s.stack = Home(current_proc) /\ s.stack \in Stacks
         /\ s.depth < DEPTH
         /\ c = "window" => s.depth = Depth(current_proc)
<1>1. s \in Sps /\ s.stack = Home(current_proc) /\ s.stack \in Stacks
  <2>1. s = Activation(current_proc) \/ (current_proc = Idle /\ s = BootTop)
    BY Zenon DEF Interruptible
  <2>2. s \in Sps
    BY <2>1, Homes, Zenon
  <2>3. s.stack = Home(current_proc)
    BY <2>1, SMT DEF Activation, BootTop, Home
  <2> QED
    BY <2>2, <2>3, Homes, Zenon
<1>2. s.depth < DEPTH
  BY TrapAssumption, SMT DEF Interruptible, Activation, BootTop, Depth
<1>3. c = "window" => s.depth = Depth(current_proc)
  BY SMT DEF Interruptible, Activation
<1> QED
  BY <1>1, <1>2, <1>3, Zenon

\* Interrupted code is not disturbed by what is pushed below it.
LEMMA InterruptibleKept ==
  ASSUME current_proc \in PSlots, UNCHANGED current_proc, NEW c, NEW s,
         Interruptible(c, s),
         \A d \in 1 .. s.depth : mem'[s.stack][d] = mem[s.stack][d]
  PROVE  Interruptible(c, s)'
<1>1. CASE c = "window" /\ s = Activation(current_proc) /\ Returns(current_proc, "wait")
  <2>1. s.depth = Depth(current_proc) /\ s.stack = Home(current_proc)
    BY <1>1, SMT DEF Activation
  <2> QED
    BY <1>1, <2>1, ReturnsKept, Zenon DEF Interruptible
<1> QED
  BY <1>1, Zenon DEF Interruptible
\* The frame kernel_entry pushes.
LEMMA TrapFrame ==
  ASSUME NEW r \in Regs, NEW s \in Sps
  PROVE  [kind |-> "trap", regs |-> r, sp |-> s] \in Frames
  BY SMT DEF Frames

\* From the kernel the frame goes below the interrupted code; from a user
\* program to the top of the process's stack.
LEMMA KernelEntered ==
  ASSUME IInv, kernel_entry
  PROVE  IInv'
<1> DEFINE from == IF sscratch # Zero THEN sscratch ELSE sp
           held == IF sscratch # Zero THEN sp ELSE sscratch
           f == [kind |-> "trap", regs |-> regs, sp |-> IF sstatus.SPP THEN from ELSE held]
<1>1. /\ mode = "S" /\ pc = "kernel_entry" /\ mode' = "S" /\ pc' = "handle_trap"
      /\ mem' = Push(mem, from, f) /\ sp' = Down(from) /\ regs' = Marked(HandlerMark)
      /\ sscratch' = IF sstatus.SPP THEN held ELSE Zero
      /\ UNCHANGED <<sepc, scause, sstatus, satp, procs, current_proc, kmain>>
  BY Zenon DEF kernel_entry
<1>2. /\ current_proc \in PSlots /\ mem \in Mem /\ sp \in Sps /\ sscratch \in Sps /\ regs \in Regs
      /\ sstatus \in Sstatus
  BY Zenon DEF IInv, TypeOK, Mem
<1>3. sstatus.SPP \in BOOLEAN
  BY <1>2, Zenon DEF Sstatus
<1>4. f \in Frames /\ f.kind = "trap" /\ f.regs = regs
  <2>1. (IF sstatus.SPP THEN from ELSE held) \in Sps
    BY <1>2, Zenon
  <2> QED
    BY <1>2, <2>1, TrapFrame, Zenon
<1>5. /\ from \in Sps /\ from.stack = Home(current_proc) /\ from.stack \in Stacks
      /\ from.depth < DEPTH
  <2>1. CASE sstatus.SPP = TRUE
    <3>1. from = sp /\ Interruptible(sepc, sp)
      BY <1>1, <2>1, SMT DEF IInv, InTrap
    <3> QED
      BY <1>2, <3>1, InterruptibleSp, Zenon
  <2>2. CASE sstatus.SPP = FALSE
    <3>1. current_proc # Idle /\ sscratch = Top(current_proc)
      BY <1>1, <2>2, SMT DEF IInv, InTrap
    <3>2. from = Top(current_proc)
      BY <1>2, <3>1, SMT DEF Top, Zero, PSlots
    <3> QED
      BY <1>2, <3>1, <3>2, Homes, TrapAssumption, SMT DEF Top
  <2> QED
    BY <1>3, <2>1, <2>2, Zenon
<1> HIDE DEF from, f
<1>6. /\ mem' \in Mem
      /\ \A k \in Stacks : \A d \in 1 .. DEPTH :
           mem'[k][d] = IF k = from.stack /\ d = from.depth + 1 THEN f ELSE mem[k][d]
  <2>1. /\ Push(mem, from, f) \in Mem
        /\ \A k \in Stacks : \A d \in 1 .. DEPTH :
             Push(mem, from, f)[k][d]
               = IF k = from.stack /\ d = from.depth + 1 THEN f ELSE mem[k][d]
    BY <1>2, <1>4, <1>5, PushFrame
  <2> QED
    BY <1>1, <2>1, Zenon
<1>7. /\ sp' \in Sps /\ sp'.stack = from.stack /\ sp'.depth = from.depth + 1 /\ Up(sp') = from
      /\ from.depth + 1 \in 1 .. DEPTH
  <2>1. from.depth + 1 \in 1 .. DEPTH
    BY <1>5, TrapAssumption, SMT DEF Sps
  <2> QED
    BY <1>1, <1>5, <2>1, DownUp, Zenon
<1>8. TypeOK'
  <2>1. regs' \in Regs
    BY <1>1, SMT DEF Marked, Regs, RegVals
  <2>2. sscratch' \in Sps
    BY <1>1, <1>2, Homes, Zenon
  <2> QED
    BY <1>1, <1>6, <1>7, <2>1, <2>2, Zenon DEF IInv, TypeOK, Mem, KernelPcs
<1>9. InUser' /\ InKernel'
  BY <1>1, Zenon DEF IInv, InUser, InKernel, KernelPcs
<1>10. InTrap'
  <2>0. Frame(sp)' = f
    BY <1>5, <1>6, <1>7, Zenon DEF Frame
  <2>1. CASE sstatus.SPP = TRUE
    <3>1. /\ from = sp /\ Interruptible(sepc, sp) /\ regs.s = Home(current_proc)
          /\ sscratch = Zero /\ scause = "interrupt"
      BY <1>1, <2>1, SMT DEF IInv, InTrap, from
    <3>2. Interruptible(sepc, Up(sp))'
      <4>1. PICK c, s : c = sepc /\ s = from
        OBVIOUS
      <4>2. Interruptible(c, s)
        BY <3>1, <4>1, Zenon
      <4>3. ASSUME NEW d \in 1 .. s.depth
            PROVE  mem'[s.stack][d] = mem[s.stack][d]
        <5>1. d \in 1 .. DEPTH /\ d # s.depth + 1
          BY <1>5, <4>1, TrapAssumption, SMT DEF Sps
        <5> QED
          BY <1>5, <1>6, <4>1, <5>1, Zenon
      <4>4. Interruptible(c, s)'
        BY <1>1, <1>2, <4>2, <4>3, InterruptibleKept, Zenon
      <4> QED
        BY <1>1, <1>7, <4>1, <4>4, Zenon DEF Interruptible
    <3> QED
      BY <1>1, <1>4, <1>5, <1>7, <2>0, <2>1, <3>1, <3>2, SMT DEF InTrap, Sps
  <2>2. CASE sstatus.SPP = FALSE
    <3>1. /\ current_proc # Idle /\ sscratch = Top(current_proc) /\ sepc \in UserPcs
          /\ sstatus.SUM = TRUE
      BY <1>1, <2>2, Zenon DEF IInv, InTrap
    <3>2. from = Top(current_proc)
      BY <1>2, <3>1, SMT DEF from, Top, Zero, PSlots
    <3> QED
      BY <1>1, <1>4, <1>6, <1>7, <2>0, <2>2, <3>1, <3>2, SMT DEF InTrap, Top, Frame
  <2> QED
    BY <1>3, <2>1, <2>2, Zenon
<1>11. Asleep' /\ Space'
  BY <1>1, <1>5, <1>6, OwnStack, Zenon
<1> QED
  BY <1>8, <1>9, <1>10, <1>11, Zenon DEF IInv
\* A frame pushed on, or popped from, the stack of the current thread.
LEMMA PushOwn ==
  ASSUME IInv, NEW f \in Frames, sp.stack = Home(current_proc), sp.depth < DEPTH,
         mem' = Push(mem, sp, f), sp' = Down(sp),
         UNCHANGED <<current_proc, procs, satp, kmain>>
  PROVE  /\ mem' \in Mem /\ sp' \in Sps /\ Asleep' /\ Space'
         /\ sp'.stack = sp.stack /\ sp'.depth = sp.depth + 1
         /\ \A d \in 1 .. DEPTH :
              mem'[sp.stack][d] = IF d = sp.depth + 1 THEN f ELSE mem[sp.stack][d]
<1>1. mem \in Mem /\ sp \in Sps /\ sp.stack \in Stacks
  BY Homes, Zenon DEF IInv, TypeOK, Mem
<1>2. /\ Push(mem, sp, f) \in Mem
      /\ \A k \in Stacks : \A d \in 1 .. DEPTH :
           Push(mem, sp, f)[k][d] = IF k = sp.stack /\ d = sp.depth + 1 THEN f ELSE mem[k][d]
  BY <1>1, PushFrame
<1>3. sp' \in Sps /\ sp'.stack = sp.stack /\ sp'.depth = sp.depth + 1
  BY <1>1, DownUp, Zenon
<1>4. Asleep' /\ Space'
  BY <1>2, OwnStack, Zenon
<1> QED
  BY <1>1, <1>2, <1>3, <1>4, Zenon

\* A frame popped from the stack of the current thread.
LEMMA PopOwn ==
  ASSUME IInv, sp.stack = Home(current_proc), sp.depth > 0, mem' = Pop(mem, sp),
         UNCHANGED <<current_proc, procs, satp, kmain>>
  PROVE  /\ mem' \in Mem /\ Asleep' /\ Space'
         /\ Up(sp) \in Sps /\ Up(sp).stack = sp.stack /\ Up(sp).depth = sp.depth - 1
         /\ \A d \in 1 .. DEPTH : d < sp.depth => mem'[sp.stack][d] = mem[sp.stack][d]
<1>1. mem \in Mem /\ sp \in Sps /\ sp.stack \in Stacks
  BY Homes, Zenon DEF IInv, TypeOK, Mem
<1>2. /\ Pop(mem, sp) \in Mem
      /\ \A k \in Stacks : \A d \in 1 .. DEPTH :
           Pop(mem, sp)[k][d] = IF k = sp.stack /\ d = sp.depth THEN NoFrame ELSE mem[k][d]
  BY <1>1, PopFrame
<1>3. Up(sp) \in Sps /\ Up(sp).stack = sp.stack /\ Up(sp).depth = sp.depth - 1
  BY <1>1, DownUp, Zenon
<1>4. Asleep' /\ Space'
  BY <1>2, OwnStack, Zenon
<1>5. \A d \in 1 .. DEPTH : d < sp.depth => mem'[sp.stack][d] = mem[sp.stack][d]
  <2>1. \A d \in 1 .. DEPTH : d < sp.depth => d # sp.depth
    BY <1>1, SMT DEF Sps
  <2> QED
    BY <1>1, <1>2, <2>1, Zenon
<1> QED
  BY <1>2, <1>3, <1>4, <1>5, Zenon

\* handle_trap keeps the address of the ecall in its own frame.
LEMMA EcallHandled ==
  ASSUME IInv, HandleEcall
  PROVE  IInv'
<1> DEFINE f == [kind |-> "handle_trap", user_pc |-> sepc]
<1>1. /\ current_proc # Idle /\ sepc \in UserPcs /\ sstatus.SUM = TRUE /\ sscratch = Zero
      /\ sp = Down(Top(current_proc)) /\ mem[current_proc][1].kind = "trap"
      /\ sstatus.SPP = FALSE
  <2>1. sstatus.SPP \in BOOLEAN
    BY Zenon DEF IInv, TypeOK, Sstatus
  <2> QED
    BY <2>1, SMT DEF IInv, HandleEcall, InTrap
<1>2. Home(current_proc) = current_proc /\ current_proc \in PSlots
  BY <1>1, Homes, Zenon DEF IInv, TypeOK
<1>3. sp.stack = current_proc /\ sp.depth = 1
  BY <1>1, SMT DEF Down, Top
<1>4. f \in Frames
  BY <1>1, SMT DEF Frames
<1>5. /\ mem' \in Mem /\ sp' \in Sps /\ Asleep' /\ Space'
      /\ sp'.stack = sp.stack /\ sp'.depth = sp.depth + 1
      /\ \A d \in 1 .. DEPTH :
           mem'[sp.stack][d] = IF d = sp.depth + 1 THEN f ELSE mem[sp.stack][d]
  <2>1. sp.depth < DEPTH /\ sp.stack = Home(current_proc)
    BY <1>2, <1>3, TrapAssumption, SMT
  <2> QED
    BY <1>4, <2>1, PushOwn DEF HandleEcall
<1>6. regs' = Marked(current_proc)
  BY <1>1, Zenon DEF HandleEcall, ThreadMark
<1>7. TypeOK'
  <2>1. regs' \in Regs
    BY <1>2, <1>6, SMT DEF Marked, Regs, RegVals
  <2> QED
    BY <1>5, <2>1, SMT DEF IInv, HandleEcall, TypeOK, Mem, KernelPcs
<1>8. InCall(current_proc)'
  <2>1. {1, 2} \subseteq 1 .. DEPTH
    BY TrapAssumption, SMT
  <2>2. mem'[current_proc][1] = mem[current_proc][1] /\ mem'[current_proc][2] = f
    BY <1>3, <1>5, <2>1, SMT
  <2> QED
    BY <1>1, <2>2, SMT DEF HandleEcall, InCall
<1>9. sp' = [stack |-> current_proc, depth |-> 2]
  BY <1>3, <1>5, SMTT(30) DEF Sps
<1>10. InUser' /\ InKernel' /\ InTrap'
  <2>1. sstatus.SIE # TRUE
    BY Zenon DEF IInv, HandleEcall, InKernel
  <2>2. regs'.s = Home(current_proc)'
    BY <1>2, <1>6, SMT DEF HandleEcall, Marked
  <2> QED
    BY <1>1, <1>8, <1>9, <2>1, <2>2, Zenon
       DEF IInv, HandleEcall, InUser, InKernel, InTrap, KernelPcs
<1> QED
  BY <1>5, <1>7, <1>10, Zenon DEF IInv
\* Back to the interrupted kernel code, or to the user program.
LEMMA TrapExited ==
  ASSUME IInv, trap_exit
  PROVE  IInv'
<1>1. /\ mode = "S" /\ pc = "trap_exit" /\ pc' = sepc /\ mem' = Pop(mem, sp)
      /\ regs' = Frame(sp).regs
      /\ UNCHANGED <<sepc, scause, satp, procs, current_proc, kmain>>
  BY Zenon DEF trap_exit, Sret
<1>2. /\ current_proc \in PSlots /\ mem \in Mem /\ sp \in Sps /\ sscratch \in Sps
      /\ sstatus \in Sstatus
  BY Zenon DEF IInv, TypeOK, Mem
<1>3. sstatus' \in Sstatus /\ sstatus'.SPP = FALSE /\ sstatus'.SUM = sstatus.SUM
  BY <1>2, Zenon DEF trap_exit, Sret, Sstatus
<1>4. sstatus.SPP \in BOOLEAN
  BY <1>2, Zenon DEF Sstatus
<1>5. sp.stack = Home(current_proc) /\ sp.depth > 0 /\ Frame(sp).kind = "trap"
  <2>1. CASE sstatus.SPP = TRUE
    <3>1. sp.depth > 0 /\ Interruptible(sepc, Up(sp)) /\ Frame(sp).kind = "trap"
      BY <1>1, <2>1, SMT DEF IInv, InTrap
    <3>2. Up(sp).stack = Home(current_proc)
      BY <1>2, <3>1, InterruptibleSp
    <3> QED
      BY <1>2, <3>1, <3>2, DownUp, Zenon
  <2>2. CASE sstatus.SPP = FALSE
    <3>1. /\ current_proc # Idle /\ sp = Down(Top(current_proc))
          /\ mem[current_proc][1].kind = "trap"
      BY <1>1, <2>2, SMT DEF IInv, InTrap
    <3> QED
      BY <1>2, <3>1, Homes, SMT DEF Down, Top, Frame
  <2> QED
    BY <1>4, <2>1, <2>2, Zenon
<1>6. /\ mem' \in Mem /\ Asleep' /\ Space'
      /\ Up(sp) \in Sps /\ Up(sp).stack = sp.stack /\ Up(sp).depth = sp.depth - 1
      /\ \A d \in 1 .. DEPTH : d < sp.depth => mem'[sp.stack][d] = mem[sp.stack][d]
  BY <1>1, <1>5, PopOwn, Zenon
<1>7. regs' \in Regs /\ Frame(sp).sp \in Sps
  <2>1. sp.stack \in Stacks /\ sp.depth \in 1 .. DEPTH
    BY <1>2, <1>5, Homes, SMT DEF Sps
  <2>2. Frame(sp) \in Frames
    BY <1>2, <2>1, Zenon DEF Frame, Mem
  <2> QED
    BY <1>1, <1>5, <2>2, FrameFields, Zenon
<1>8. CASE sstatus.SPP = TRUE
  <2>1. sp' = Up(sp) /\ sscratch' = sscratch /\ mode' = "S"
    BY <1>8, SMT DEF trap_exit, Sret
  <2>2. /\ Interruptible(sepc, Up(sp)) /\ Frame(sp).regs.s = Home(current_proc)
        /\ sscratch = Zero
    BY <1>1, <1>8, SMT DEF IInv, InTrap
  <2>3. Interruptible(pc, sp)'
    <3>1. PICK c, s : c = sepc /\ s = Up(sp)
      OBVIOUS
    <3>2. Interruptible(c, s)
      BY <2>2, <3>1, Zenon
    <3>3. ASSUME NEW d \in 1 .. s.depth
          PROVE  mem'[s.stack][d] = mem[s.stack][d]
      <4>1. d \in 1 .. DEPTH /\ d < sp.depth
        BY <1>2, <1>6, <3>1, TrapAssumption, SMT DEF Sps
      <4> QED
        BY <1>6, <3>1, <4>1, Zenon
    <3>4. Interruptible(c, s)'
      BY <1>1, <1>2, <3>2, <3>3, InterruptibleKept, Zenon
    <3> QED
      BY <1>1, <2>1, <3>1, <3>4, Zenon DEF Interruptible
  <2>4. pc' \in {"kernel_main", "window", "panic"}
    BY <2>3, Zenon DEF Interruptible
  <2>5. TypeOK'
    BY <1>1, <1>2, <1>3, <1>6, <1>7, <2>1, <2>4, SMT DEF IInv, TypeOK, Mem, KernelPcs
  <2>6. regs'.s = Home(current_proc)'
    BY <1>1, <2>2, Zenon
  <2>7. InUser' /\ InKernel' /\ InTrap'
    BY <1>1, <2>1, <2>2, <2>3, <2>4, <2>6, Zenon DEF InUser, InKernel, InTrap, KernelPcs
  <2> QED
    BY <1>6, <2>5, <2>7, Zenon DEF IInv
<1>9. CASE sstatus.SPP = FALSE
  <2>1. sp' = Frame(sp).sp /\ sscratch' = Up(sp) /\ mode' = "U"
    BY <1>9, SMT DEF trap_exit, Sret
  <2>2. /\ current_proc # Idle /\ sepc \in UserPcs /\ sstatus.SUM = TRUE
        /\ sp = Down(Top(current_proc))
    BY <1>1, <1>9, Zenon DEF IInv, InTrap
  <2>3. Up(sp) = Top(current_proc)
    BY <1>2, <2>2, Tops, DownUp, Zenon
  <2>4. TypeOK'
    BY <1>1, <1>2, <1>3, <1>6, <1>7, <2>1, <2>2, Zenon DEF IInv, TypeOK, Mem
  <2>5. InUser' /\ InKernel' /\ InTrap'
    BY <1>1, <1>3, <2>1, <2>2, <2>3, Zenon DEF InUser, InKernel, InTrap, Top
  <2> QED
    BY <1>6, <2>4, <2>5, Zenon DEF IInv
<1> QED
  BY <1>4, <1>8, <1>9, Zenon

\* What a thread finds when it has called wait_for_interrupt.
LEMMA WaitCalled ==
  ASSUME IInv, NEW ret \in KernelPcs, wait_for_interrupt(ret), mode = "S",
         pc \in {"kernel_main", "handle_syscall"}, ret = pc
  PROVE  IInv'
<1> DEFINE f == [kind |-> "wait", saved |-> sstatus, ret |-> ret]
<1>1. current_proc \in PSlots /\ sstatus \in Sstatus /\ sp \in Sps
  BY Zenon DEF IInv, TypeOK
<1>2. /\ sp.stack = Home(current_proc) /\ sp.depth + 1 = Depth(current_proc)
      /\ sscratch = Zero /\ regs.s = Home(current_proc)
      /\ pc = "kernel_main" => current_proc = Idle
      /\ pc = "handle_syscall" => /\ current_proc # Idle /\ InCall(current_proc)
                                  /\ sstatus.SPP = FALSE /\ sstatus.SUM = TRUE
  <2>1. CASE pc = "kernel_main"
    BY <2>1, Homes, SMTT(30) DEF IInv, InKernel, Interruptible, BootTop, Depth
  <2>2. CASE pc = "handle_syscall"
    BY <1>1, <2>2, Homes, SMTT(30) DEF IInv, InKernel, Depth
  <2> QED
    BY <2>1, <2>2, Zenon
<1>3. f \in Frames
  BY <1>1, Zenon DEF Frames
<1>4. Depth(current_proc) \in 1 .. DEPTH /\ sp.depth < DEPTH
  BY <1>1, <1>2, Homes, TrapAssumption, SMT DEF Sps
<1>5. /\ mem' \in Mem /\ sp' \in Sps /\ Asleep' /\ Space'
      /\ sp'.stack = sp.stack /\ sp'.depth = sp.depth + 1
      /\ \A d \in 1 .. DEPTH :
           mem'[sp.stack][d] = IF d = sp.depth + 1 THEN f ELSE mem[sp.stack][d]
  BY <1>2, <1>3, <1>4, PushOwn DEF wait_for_interrupt
<1>6. sp' = Activation(current_proc)
  BY <1>2, <1>5, SMT DEF Activation, Sps
<1>7. sstatus' \in Sstatus /\ sstatus'.SIE = FALSE
  BY <1>1, Zenon DEF wait_for_interrupt, Sstatus
<1>8. TypeOK'
  BY <1>5, <1>7, SMT DEF IInv, wait_for_interrupt, TypeOK, Mem, KernelPcs
<1>9. Returns(current_proc, "wait")'
  <2>1. mem'[Home(current_proc)][Depth(current_proc)] = f
    BY <1>2, <1>4, <1>5, SMT
  <2>2. CASE pc = "kernel_main"
    BY <1>2, <2>1, <2>2, SMT DEF wait_for_interrupt, Returns
  <2>3. CASE pc = "handle_syscall"
    <3>1. sstatus.SIE = FALSE
      <4>1. sstatus.SIE # TRUE
        BY <2>3, Zenon DEF IInv, InKernel
      <4> QED
        BY <1>1, <4>1, Zenon DEF Sstatus
    <3>2. Depth(current_proc) = 3 /\ Home(current_proc) = current_proc /\ sp.depth = 2
      BY <1>1, <1>2, <2>3, Homes, SMT DEF Depth, Sps
    <3>3. {1, 2} \subseteq 1 .. DEPTH
      BY TrapAssumption, SMT
    <3>4. InCall(current_proc)'
      <4>1. \A d \in {1, 2} : mem'[current_proc][d] = mem[current_proc][d]
        BY <1>2, <1>5, <3>2, <3>3, SMT
      <4> QED
        BY <1>2, <2>3, <4>1, Zenon DEF wait_for_interrupt, InCall
    <3> QED
      BY <1>2, <2>1, <2>3, <3>1, <3>4, SMT DEF wait_for_interrupt, Returns
  <2> QED
    BY <2>2, <2>3, Zenon
<1>10. InUser' /\ InKernel' /\ InTrap'
  <2>1. sp' = Activation(current_proc)' /\ regs'.s = Home(current_proc)'
    BY <1>2, <1>6, Zenon DEF wait_for_interrupt
  <2> QED
    BY <1>2, <1>7, <1>9, <2>1, Zenon DEF wait_for_interrupt, InUser, InKernel, InTrap, KernelPcs
<1> QED
  BY <1>5, <1>8, <1>10, Zenon DEF IInv
\* wait_for_interrupt and yield return to their caller.
LEMMA Returned ==
  ASSUME IInv, NEW kind \in {"wait", "yield"}, mode = "S",
         sp = Activation(current_proc), Returns(current_proc, kind),
         regs.s = Home(current_proc), sscratch' = Zero,
         sstatus' = Frame(sp).saved, pc' = Frame(sp).ret, sp' = Up(sp), mem' = Pop(mem, sp),
         UNCHANGED <<mode, regs, sepc, scause, satp, procs, current_proc, kmain>>
  PROVE  IInv'
<1>1. current_proc \in PSlots /\ sp \in Sps
  BY Zenon DEF IInv, TypeOK
<1>2. /\ Frame(sp) = mem[Home(current_proc)][Depth(current_proc)]
      /\ sstatus' \in Sstatus /\ pc' \in KernelPcs
      /\ sp.stack = Home(current_proc) /\ sp.depth = Depth(current_proc) /\ sp.depth > 0
  BY OwnFrameTyped, Zenon DEF IInv
<1>3. /\ mem' \in Mem /\ Asleep' /\ Space'
      /\ Up(sp) \in Sps /\ Up(sp).stack = sp.stack /\ Up(sp).depth = sp.depth - 1
      /\ \A d \in 1 .. DEPTH : d < sp.depth => mem'[sp.stack][d] = mem[sp.stack][d]
  BY <1>2, PopOwn, Zenon
<1>4. TypeOK'
  BY <1>2, <1>3, Homes, Zenon DEF IInv, TypeOK, Mem
<1>5. sp' = [stack |-> Home(current_proc), depth |-> Depth(current_proc) - 1]
  BY <1>2, <1>3, Zenon DEF Sps
<1>6. CASE current_proc = Idle
  <2>1. pc' \in {"kernel_main", "panic"}
    BY <1>2, <1>6, Zenon DEF Returns
  <2>2. sp' = BootTop
    BY <1>5, <1>6, SMT DEF Depth, Home, BootTop
  <2>3. Interruptible(pc, sp)'
    BY <1>6, <2>1, <2>2, Zenon DEF Interruptible, BootTop
  <2>4. regs'.s = Home(current_proc)'
    BY Zenon
  <2>5. InUser' /\ InKernel' /\ InTrap'
    BY <2>1, <2>3, <2>4, Zenon DEF InUser, InKernel, InTrap, KernelPcs
  <2> QED
    BY <1>3, <1>4, <2>5, Zenon DEF IInv
<1>7. CASE current_proc # Idle
  <2>1. /\ pc' = "handle_syscall" /\ InCall(current_proc)
        /\ sstatus'.SIE = FALSE /\ sstatus'.SPP = FALSE /\ sstatus'.SUM = TRUE
    BY <1>2, <1>7, Zenon DEF Returns
  <2>2. Home(current_proc) = current_proc /\ Depth(current_proc) = 3
    BY <1>1, <1>7, Homes, SMT DEF Depth
  <2>3. sp' = [stack |-> current_proc, depth |-> 2]
    BY <1>5, <2>2, SMT
  <2>4. InCall(current_proc)'
    <3>1. 1 \in 1 .. DEPTH /\ 2 \in 1 .. DEPTH /\ 1 < sp.depth /\ 2 < sp.depth
      BY <1>2, <2>2, TrapAssumption, SMT
    <3>2. /\ mem'[current_proc][1] = mem[current_proc][1]
          /\ mem'[current_proc][2] = mem[current_proc][2]
      BY <1>2, <1>3, <2>2, <3>1, SMT
    <3> QED
      BY <2>1, <3>2, Zenon DEF InCall
  <2>5. regs'.s = Home(current_proc)'
    BY Zenon
  <2>6. InUser' /\ InKernel' /\ InTrap'
    BY <1>7, <2>1, <2>3, <2>4, <2>5, Zenon DEF InUser, InKernel, InTrap, KernelPcs
  <2> QED
    BY <1>3, <1>4, <2>6, Zenon DEF IInv
<1> QED
  BY <1>6, <1>7, Zenon

\* wait_for_interrupt returns to kernel_main or to the system call.
LEMMA WaitReturned ==
  ASSUME IInv, WaitDone
  PROVE  IInv'
<1>1. /\ sp = Activation(current_proc) /\ Returns(current_proc, "wait")
      /\ sscratch = Zero /\ regs.s = Home(current_proc)
  BY Zenon DEF WaitDone, IInv, InKernel
<1> QED
  BY <1>1, Returned DEF WaitDone

\* yield clears sscratch after a switch back, with its frame on top.
LEMMA YieldSwitched ==
  ASSUME IInv, yield_switched
  PROVE  IInv'
<1>1. /\ sp = Activation(current_proc) /\ Returns(current_proc, "yield")
      /\ regs.s = Home(current_proc) /\ sstatus.SIE \in BOOLEAN /\ ~ sstatus.SIE = TRUE
  BY Zenon DEF IInv, yield_switched, InKernel, TypeOK, Sstatus
<1>2. TypeOK'
  BY Homes, Zenon DEF IInv, yield_switched, TypeOK, KernelPcs
<1>3. /\ sp' = Activation(current_proc)' /\ Returns(current_proc, "yield")'
      /\ regs'.s = Home(current_proc)' /\ sscratch' = Zero
  BY <1>1, StillThere, Zenon DEF yield_switched
<1>4. InUser' /\ InKernel' /\ InTrap'
  BY <1>1, <1>3, Zenon DEF yield_switched, InUser, InKernel, InTrap, KernelPcs
<1>5. Asleep' /\ Space'
  BY StillThere, Zenon DEF yield_switched
<1> QED
  BY <1>2, <1>4, <1>5, Zenon DEF IInv

\* yield returns after a switch back.
LEMMA YieldReturned ==
  ASSUME IInv, yield_restore
  PROVE  IInv'
<1>1. /\ sp = Activation(current_proc) /\ Returns(current_proc, "yield")
      /\ sscratch = Zero /\ regs.s = Home(current_proc)
  BY Zenon DEF yield_restore, IInv, InKernel
<1> QED
  BY <1>1, Returned DEF yield_restore

\* A system call writes its result to the trap frame of its process.
LEMMA CallReturned ==
  ASSUME IInv, SysReturn
  PROVE  /\ IInv'
         /\ \A p \in PSlots \ {Idle, current_proc} : \A d \in {1, 2} : mem'[p][d] = mem[p][d]
         /\ mem'[current_proc][2] = NoFrame
         /\ mem'[current_proc][1].kind = "trap"
         /\ mem'[current_proc][1].sp = mem[current_proc][1].sp
         /\ mem'[current_proc][1].regs.s = mem[current_proc][1].regs.s
         /\ mem'[current_proc][1].regs.a \in RegVals
<1> DEFINE g == mem[current_proc][1]
           m == Pop(mem, sp)
<1>1. /\ current_proc # Idle /\ InCall(current_proc) /\ sscratch = Zero
      /\ sp = [stack |-> current_proc, depth |-> 2]
      /\ sstatus.SPP = FALSE /\ sstatus.SUM = TRUE
  BY Zenon DEF IInv, SysReturn, InSyscall, InKernel
<1>2. current_proc \in PSlots /\ mem \in Mem /\ sp \in Sps /\ current_proc \in Stacks
  <2>1. current_proc \in PSlots /\ mem \in Mem /\ sp \in Sps
    BY Zenon DEF IInv, TypeOK, Mem
  <2> QED
    BY <2>1, Tops, Zenon
<1>3. 1 \in 1 .. DEPTH /\ 2 \in 1 .. DEPTH
  BY TrapAssumption, SMT
<1>4. g \in Frames /\ g.kind = "trap" /\ g.regs \in Regs /\ g.sp \in Sps
  <2>1. g \in Frames /\ g.kind = "trap"
    BY <1>1, <1>2, <1>3, Zenon DEF Mem, InCall
  <2> QED
    BY <2>1, FrameFields, Zenon
<1>5. /\ m \in Mem
      /\ \A k \in Stacks : \A d \in 1 .. DEPTH :
           m[k][d] = IF k = current_proc /\ d = 2 THEN NoFrame ELSE mem[k][d]
  <2>1. sp.stack = current_proc /\ sp.depth = 2 /\ sp.depth > 0
    BY <1>1, SMT
  <2> QED
    BY <1>2, <2>1, PopFrame
<1>6. m[current_proc][1] = g
  BY <1>2, <1>3, <1>5, SMT
<1> HIDE DEF m, g
<1>7. Frame(Up(sp)) = g /\ Up(sp) = Down(Top(current_proc)) /\ Up(sp) \in Sps
  <2>1. Up(sp) = [stack |-> current_proc, depth |-> 1]
    BY <1>1, SMT DEF Up
  <2>2. Down(Top(current_proc)) = [stack |-> current_proc, depth |-> 1]
    BY SMT DEF Down, Top
  <2>3. sp.depth > 0
    BY <1>1, SMT
  <2> QED
    BY <1>2, <2>1, <2>2, <2>3, DownUp, SMT DEF Frame, g
<1>8. PICK r \in RegVals : mem' = [m EXCEPT ![current_proc][1].regs.a = r]
  <2>1. PICK r \in Vals \cup {g.regs.a} : mem' = [m EXCEPT ![sp.stack][sp.depth - 1].regs.a = r]
    BY <1>7, Zenon DEF SysReturn, m
  <2>2. r \in RegVals
    BY <1>4, <2>1, SMT DEF Regs, RegVals
  <2>3. sp.stack = current_proc /\ sp.depth - 1 = 1
    BY <1>1, SMT
  <2> QED
    BY <2>1, <2>2, <2>3, Zenon
<1> DEFINE h == [g EXCEPT !.regs.a = r]
<1>9. /\ h \in Frames /\ h.kind = "trap" /\ h.sp = g.sp
      /\ h.regs.s = g.regs.s /\ h.regs.a = r
  BY <1>4, <1>8, SMT DEF Frames, Regs, NoFrame
<1> HIDE DEF h
<1>10. mem' = [m EXCEPT ![current_proc][1] = h]
  BY <1>6, <1>8, SMT DEF h
<1>11. /\ mem' \in Mem
       /\ \A k \in Stacks : \A d \in 1 .. DEPTH :
            mem'[k][d] = IF k = current_proc /\ d = 1 THEN h ELSE m[k][d]
  <2>1. /\ Top(current_proc) \in Sps /\ Top(current_proc).stack = current_proc
        /\ Top(current_proc).depth = 0
    BY <1>2, Tops, Zenon
  <2>2. Top(current_proc).depth + 1 = 1 /\ Top(current_proc).depth < DEPTH
    BY <2>1, TrapAssumption, SMT
  <2>3. mem' = Push(m, Top(current_proc), h)
    BY <1>10, <2>1, <2>2, Zenon DEF Push
  <2> QED
    BY <1>2, <1>5, <1>9, <2>1, <2>2, <2>3, PushFrame
<1>12a. sepc' \in UserPcs
  <2>1. Frame(sp) = mem[current_proc][2]
    BY <1>1, SMT DEF Frame
  <2>2. Frame(sp).user_pc \in UserPcs
    BY <1>1, <1>2, <1>3, <2>1, FrameFields, Zenon DEF Mem, InCall
  <2> QED
    BY <2>2, TrapAssumption, SMT DEF SysReturn
<1>12. TypeOK'
  BY <1>7, <1>11, <1>12a, Zenon DEF IInv, SysReturn, TypeOK, Mem, KernelPcs
<1>13. Asleep' /\ Space'
  <2>1. Home(current_proc) = current_proc
    BY <1>1, <1>2, Homes, Zenon
  <2>2. \A k \in Stacks \ {Home(current_proc)} : \A d \in 1 .. DEPTH : mem'[k][d] = mem[k][d]
    BY <1>2, <1>5, <1>11, <2>1, SMT
  <2> QED
    BY <2>2, OwnStack, Zenon DEF SysReturn
<1>14. InUser' /\ InKernel' /\ InTrap'
  <2>1. mem'[current_proc][1].kind = "trap"
    BY <1>2, <1>3, <1>9, <1>11, Zenon
  <2>2. sp' = Down(Top(current_proc)) /\ sepc' \in UserPcs
    BY <1>7, <1>12a, Zenon DEF SysReturn
  <2>3. sstatus.SIE # TRUE
    BY Zenon DEF IInv, SysReturn, InSyscall, InKernel
  <2> QED
    BY <1>1, <2>1, <2>2, <2>3, Zenon
       DEF IInv, SysReturn, InSyscall, InUser, InKernel, InTrap, KernelPcs, Down, Top
<1>15. /\ \A p \in PSlots \ {Idle, current_proc} : \A d \in {1, 2} : mem'[p][d] = mem[p][d]
       /\ mem'[current_proc][2] = NoFrame /\ mem'[current_proc][1] = h
  <2>1. \A p \in PSlots : p \in Stacks
    BY Tops, Zenon
  <2> QED
    BY <1>2, <1>3, <1>5, <1>11, <2>1, SMT
<1> QED
  BY <1>8, <1>9, <1>12, <1>13, <1>14, <1>15, Zenon DEF IInv, g
\* The frame switch_context pushes, and create_process prepares.
LEMMA SwitchFrame ==
  ASSUME NEW ra \in KernelPcs, NEW s \in RegVals
  PROVE  [kind |-> "switch", ra |-> ra, s |-> s] \in Frames
  BY SMT DEF Frames

\* create_process prepares the stack of a process that has not run.
LEMMA ProcessCreated ==
  ASSUME IInv, create_process
  PROVE  /\ IInv'
         /\ kmain \in PSlots /\ current_proc = Idle
         /\ procs'[kmain].state = "RUNNABLE" /\ mem'[kmain][1].kind = "switch"
         /\ \A p \in PSlots \ {kmain} : procs'[p] = procs[p]
         /\ \A p \in PSlots : mem'[p][2] = mem[p][2] /\ (p # kmain => mem'[p][1] = mem[p][1])
<1> DEFINE f == [kind |-> "switch", ra |-> "user_entry", s |-> 0]
           top == Top(kmain)
<1>1. /\ mode = "S" /\ pc = "kernel_main" /\ current_proc = Idle /\ mem' = Push(mem, top, f)
      /\ UNCHANGED <<mode, pc, sp, regs, sscratch, sepc, scause, sstatus, satp, current_proc>>
      /\ kmain' = kmain + 1
  BY Zenon DEF IInv, create_process, hartVars, InKernel, Interruptible
<1>2. kmain \in PSlots /\ kmain \in Nat /\ kmain <= NUSERS
  BY SchedulerAssumption, TrapAssumption, SMT DEF IInv, create_process, TypeOK, PSlots
<1>3. top \in Sps /\ top.stack = kmain /\ top.depth = 0 /\ kmain \in Stacks
  BY <1>2, Tops, Zenon
<1>4. f \in Frames
  <2>1. 0 \in RegVals /\ "user_entry" \in KernelPcs
    BY SchedulerAssumption, SMT DEF RegVals, PSlots, KernelPcs
  <2> QED
    BY <2>1, SwitchFrame, Zenon
<1>5. f.kind = "switch" /\ f.ra = "user_entry"
  BY SMT
<1> HIDE DEF f, top
<1>6. /\ mem' \in Mem
      /\ \A k \in Stacks : \A d \in 1 .. DEPTH :
           mem'[k][d] = IF k = kmain /\ d = 1 THEN f ELSE mem[k][d]
  <2>1. mem \in Mem
    BY Zenon DEF IInv, TypeOK, Mem
  <2>2. top.depth < DEPTH /\ top.depth + 1 = 1
    BY <1>3, TrapAssumption, SMT
  <2> QED
    BY <1>1, <1>3, <1>4, <2>1, <2>2, PushFrame
<1>7. Down(top) \in Sps
  <2>1. top.depth < DEPTH
    BY <1>3, TrapAssumption, SMT
  <2> QED
    BY <1>3, <2>1, DownUp, Zenon
<1>8. /\ procs' \in Table
      /\ procs'[kmain].state = "RUNNABLE" /\ procs'[kmain].sp = Down(top)
      /\ \A p \in PSlots \ {kmain} : procs'[p] = procs[p]
  <2> DEFINE pid == IF kmain = Idle THEN 0 ELSE kmain + 1
             new == [pid |-> pid, state |-> "RUNNABLE", sp |-> Down(top)]
  <2>1. procs' = [procs EXCEPT ![kmain] = new]
    BY Zenon DEF create_process, top
  <2>2. pid \in 0 .. PROCS_MAX
    BY <1>2, SchedulerAssumption, TrapAssumption, SMT
  <2> HIDE DEF pid
  <2>3. new \in [pid : 0 .. PROCS_MAX, state : {"UNUSED", "RUNNABLE"}, sp : Sps]
    BY <1>7, <2>2, SMT
  <2>4. procs \in Table
    BY Zenon DEF IInv, TypeOK, Table
  <2>5. new.state = "RUNNABLE" /\ new.sp = Down(top)
    BY SMT
  <2> HIDE DEF new
  <2> QED
    BY <1>2, <2>1, <2>3, <2>4, <2>5, SMT DEF Table
<1>9. TypeOK'
  <2>1. kmain' \in 0 .. NUSERS + 1
    BY <1>1, <1>2, TrapAssumption, SMT
  <2> QED
    BY <1>1, <1>6, <1>8, <2>1, Zenon DEF IInv, TypeOK, Mem, Table
<1>10. InUser' /\ InKernel' /\ InTrap'
  <2>1. Interruptible(pc, sp)'
    <3>1. pc = "kernel_main" /\ sp = BootTop
      BY <1>1, Zenon DEF IInv, InKernel, Interruptible
    <3> QED
      BY <1>1, <3>1, Zenon DEF Interruptible, BootTop
  <2>2. sscratch = Zero /\ regs'.s = Home(current_proc)'
    BY <1>1, Zenon DEF IInv, InKernel
  <2> QED
    BY <1>1, <2>1, <2>2, Zenon DEF InUser, InKernel, InTrap, KernelPcs
<1>11. Asleep'
  <2> SUFFICES ASSUME NEW p \in PSlots \ {Idle}, procs'[p].state = "RUNNABLE"
               PROVE  Fresh(p)' \/ Parked(p)'
    BY <1>1, Zenon DEF Asleep
  <2>1. {1, 2, 3, 4} \subseteq 1 .. DEPTH /\ Home(p) = p /\ Depth(p) = 3 /\ p \in Stacks
    BY TrapAssumption, Tops, SMT DEF Home, Depth
  <2>2. CASE p = kmain
    <3>1. mem'[p][1] = f
      BY <1>6, <2>1, <2>2, Zenon
    <3> QED
      BY <1>5, <1>8, <2>2, <3>1, Zenon DEF Fresh, top
  <2>3. CASE p # kmain
    <3>1. procs'[p] = procs[p] /\ \A d \in 1 .. DEPTH : mem'[p][d] = mem[p][d]
      BY <1>6, <1>8, <2>1, <2>3, Zenon
    <3>2. Fresh(p) \/ Parked(p)
      BY <1>1, <3>1, Zenon DEF IInv, Asleep
    <3>3. CASE Fresh(p)
      BY <2>1, <3>1, <3>3, SMT DEF Fresh
    <3>4. CASE Parked(p)
      <4>1. /\ mem'[p][1] = mem[p][1] /\ mem'[p][2] = mem[p][2]
            /\ mem'[p][3] = mem[p][3] /\ mem'[p][4] = mem[p][4]
        BY <2>1, <3>1, Zenon
      <4>2. Depth(p) + 1 = 4
        BY <2>1, SMT
      <4> QED
        BY <2>1, <3>1, <3>4, <4>1, <4>2, ZenonT(40)
           DEF Parked, Returns, InCall, Activation, Home, Depth
    <3> QED
      BY <3>2, <3>3, <3>4, Zenon
  <2> QED
    BY <2>2, <2>3, Zenon
<1>12. Space'
  <2>1. Idle \in PSlots
    BY Homes, Zenon
  <2>2. CASE kmain = Idle
    BY <1>1, <1>8, <2>2, Zenon DEF IInv, Space
  <2>3. CASE kmain # Idle
    <3>1. kmain > 0
      BY <1>2, <2>3, SMT DEF Idle
    <3> QED
      BY <1>1, <1>8, <2>1, <2>3, <3>1, Zenon DEF IInv, Space
  <2> QED
    BY <2>2, <2>3, Zenon
<1>13. /\ mem'[kmain][1].kind = "switch"
       /\ \A p \in PSlots : mem'[p][2] = mem[p][2] /\ (p # kmain => mem'[p][1] = mem[p][1])
  <2>1. \A p \in PSlots : p \in Stacks
    BY Tops, Zenon
  <2>2. 1 \in 1 .. DEPTH /\ 2 \in 1 .. DEPTH /\ 2 # 1
    BY TrapAssumption, SMT
  <2> QED
    BY <1>2, <1>5, <1>6, <2>1, <2>2, Zenon
<1> QED
  BY <1>1, <1>2, <1>8, <1>9, <1>10, <1>11, <1>12, <1>13, Zenon DEF IInv
-----------------------------------------------------------------------------
(* yield *)

\* The stack of a thread that sleeps, as switch_context finds it.
LEMMA SleeperStack ==
  ASSUME IInv, NEW p \in PSlots \ {current_proc}, p = Idle \/ procs[p].state = "RUNNABLE"
  PROVE  LET s == procs[p].sp
         IN  /\ s \in Sps /\ s.stack = Home(p) /\ s.depth \in 1 .. DEPTH
             /\ mem[Home(p)][s.depth].kind = "switch"
             /\ \/ Fresh(p) /\ p # Idle /\ s.depth = 1 /\ mem[Home(p)][1].ra = "user_entry"
                \/ /\ Parked(p) /\ Up(s) = Activation(p) /\ s.depth = Depth(p) + 1
                   /\ mem[Home(p)][s.depth].ra = "switched"
                   /\ mem[Home(p)][s.depth].s = Home(p)
<1>1. Fresh(p) \/ Parked(p)
  BY Zenon DEF IInv, Asleep
<1>2. CASE Fresh(p)
  <2>1. procs[p].sp = Down(Top(p)) /\ p # Idle
    BY <1>2, Zenon DEF Fresh
  <2>2. Top(p) \in Sps /\ Top(p).stack = p /\ Top(p).depth = 0 /\ Home(p) = p
    BY <2>1, Tops, Homes, Zenon
  <2>3. Down(Top(p)).stack = p /\ Down(Top(p)).depth = 1 /\ Down(Top(p)) \in Sps /\ 1 \in 1 .. DEPTH
    <3>1. Top(p).depth < DEPTH /\ Top(p).depth + 1 = 1 /\ 1 \in 1 .. DEPTH
      BY <2>2, TrapAssumption, SMT
    <3> QED
      BY <2>2, <3>1, DownUp, Zenon
  <2> QED
    BY <1>2, <2>1, <2>2, <2>3, Zenon DEF Fresh
<1>3. CASE Parked(p)
  <2>1. procs[p].sp = Down(Activation(p))
    BY <1>3, Zenon DEF Parked
  <2>2. /\ Activation(p) \in Sps /\ Activation(p).stack = Home(p)
        /\ Activation(p).depth = Depth(p)
    BY Homes, Zenon DEF Activation
  <2>3. Depth(p) + 1 \in 1 .. DEPTH /\ Activation(p).depth < DEPTH
    BY <2>2, TrapAssumption, SMT DEF Depth
  <2>4. /\ Down(Activation(p)) \in Sps /\ Down(Activation(p)).stack = Home(p)
        /\ Down(Activation(p)).depth = Depth(p) + 1 /\ Up(Down(Activation(p))) = Activation(p)
    BY <2>2, <2>3, DownUp, Zenon
  <2> QED
    BY <1>3, <2>1, <2>3, <2>4, Zenon DEF Parked
<1> QED
  BY <1>1, <1>2, <1>3, Zenon

\* yield goes from the current thread to next, with the process table ps.
MaySwitch(ps, next, ret) ==
  /\ mode = "S" /\ ps \in Table /\ next \in PSlots \ {current_proc} /\ ret \in KernelPcs
  /\ \A p \in PSlots \ {current_proc} : ps[p] = procs[p]
  /\ next = Idle \/ ps[next].state = "RUNNABLE"
  /\ current_proc = Idle => ps[Idle].state = "RUNNABLE" /\ ret = "panic"
  /\ current_proc # Idle /\ ps[current_proc].state = "RUNNABLE" =>
       /\ ret = "handle_syscall" /\ InCall(current_proc)
       /\ sstatus.SIE = FALSE /\ sstatus.SPP = FALSE /\ sstatus.SUM = TRUE
  /\ sp.stack = Home(current_proc) /\ sp.depth + 1 = Depth(current_proc)
  /\ regs.s = Home(current_proc)
Switch(ps, next, ret) ==
  /\ sstatus' = [sstatus EXCEPT !.SIE = FALSE]
  /\ EnterSpace(next)
  /\ procs' = [ps EXCEPT ![current_proc].sp = Down(Down(sp))]
  /\ switch_context(Push(mem, sp, [kind |-> "yield", saved |-> sstatus, ret |-> ret]),
                    Down(sp), ps[next].sp)
  /\ UNCHANGED <<mode, sepc, scause, kmain>>

\* The one thread leaves its activation of yield and its registers on its
\* stack, unless it has exited, the other finds its own; the frames of the
\* others and of system calls are kept.
LEMMA Switched ==
  ASSUME IInv, NEW ps, NEW next, NEW ret, MaySwitch(ps, next, ret), Switch(ps, next, ret)
  PROVE  /\ IInv'
         /\ current_proc' = next
         /\ pc' = IF Parked(next) THEN "switched" ELSE "user_entry"
         /\ \A p \in PSlots : procs'[p].state = ps[p].state
         /\ \A p \in PSlots \ {current_proc} : procs'[p] = procs[p]
         /\ \A p \in PSlots \ {Idle} : \A d \in {1, 2} :
              mem'[p][d] = IF p = next /\ ~ Parked(p) /\ d = 1 THEN NoFrame ELSE mem[p][d]
<1> USE DEF MaySwitch, Switch
<1> DEFINE y == [kind |-> "yield", saved |-> sstatus, ret |-> ret]
           w == [kind |-> "switch", ra |-> "switched", s |-> regs.s]
           here == Home(current_proc)
           there == Home(next)
           top == Depth(current_proc)
           m1 == Push(mem, sp, y)
           m2 == Push(m1, Down(sp), w)
           ns == procs[next].sp
           f == mem[there][ns.depth]
<1>1. /\ current_proc \in PSlots /\ mem \in Mem /\ sp \in Sps /\ sstatus \in Sstatus
      /\ regs \in Regs /\ procs \in Table
  BY Zenon DEF IInv, TypeOK, Mem, Table
<1>2. /\ here \in Stacks /\ there \in Stacks /\ here # there
      /\ top \in 1 .. DEPTH /\ top + 1 \in 1 .. DEPTH
  BY <1>1, Homes, TrapAssumption, SMT DEF Depth
<1>3. /\ Down(sp) \in Sps /\ Down(sp).stack = here /\ Down(sp).depth = top
      /\ Down(sp) = Activation(current_proc)
      /\ Down(Down(sp)) = Down(Activation(current_proc)) /\ Down(Down(sp)) \in Sps
  <2>1. sp.depth < DEPTH /\ top < DEPTH
    BY <1>1, <1>2, TrapAssumption, SMT DEF Sps
  <2>2. Down(sp) \in Sps /\ Down(sp).stack = here /\ Down(sp).depth = top
    BY <1>1, <2>1, DownUp, Zenon
  <2>3. Down(sp) = Activation(current_proc)
    BY <2>2, SMT DEF Activation, Sps
  <2> QED
    BY <2>1, <2>2, <2>3, DownUp, Zenon
<1>4. y \in Frames /\ w \in Frames
  <2>1. regs.s \in RegVals /\ "switched" \in KernelPcs
    BY <1>1, SMT DEF Regs, KernelPcs
  <2>2. w \in Frames
    BY <2>1, SwitchFrame, Zenon
  <2>3. y \in Frames
    BY <1>1, SMT DEF Frames
  <2> QED
    BY <2>2, <2>3, Zenon
<1>5. /\ y.kind = "yield" /\ y.saved = sstatus /\ y.ret = ret
      /\ w.kind = "switch" /\ w.ra = "switched" /\ w.s = here
  BY SMT
<1> HIDE DEF y, w
<1>6. /\ m1 \in Mem
      /\ \A k \in Stacks : \A d \in 1 .. DEPTH :
           m1[k][d] = IF k = here /\ d = top THEN y ELSE mem[k][d]
  <2>1. sp.depth < DEPTH
    BY <1>1, <1>2, TrapAssumption, SMT DEF Sps
  <2> QED
    BY <1>1, <1>2, <1>4, <2>1, PushFrame
<1> HIDE DEF m1
<1>7. /\ m2 \in Mem
      /\ \A k \in Stacks : \A d \in 1 .. DEPTH :
           m2[k][d] = IF k = here /\ d = top + 1 THEN w ELSE m1[k][d]
  <2>1. Down(sp).depth < DEPTH
    BY <1>2, <1>3, TrapAssumption, SMT
  <2> QED
    BY <1>2, <1>3, <1>4, <1>6, <2>1, PushFrame
<1> HIDE DEF m2
<1>8. /\ ps[next] = procs[next]
      /\ ns \in Sps /\ ns.stack = there /\ ns.depth \in 1 .. DEPTH
      /\ f.kind = "switch"
      /\ \/ Fresh(next) /\ next # Idle /\ f.ra = "user_entry" /\ ns.depth = 1
         \/ /\ Parked(next) /\ Up(ns) = Activation(next) /\ ns.depth = Depth(next) + 1
            /\ f.ra = "switched" /\ f.s = there
  <2>1. next = Idle \/ procs[next].state = "RUNNABLE"
    BY Zenon
  <2> QED
    BY <2>1, SleeperStack, Zenon
<1> HIDE DEF here, there, ns, top
<1>9. /\ mem' \in Mem
      /\ \A k \in Stacks : \A d \in 1 .. DEPTH :
           mem'[k][d] = IF k = there /\ d = ns.depth THEN NoFrame ELSE m2[k][d]
  <2>1. mem' = Pop(m2, ns)
    BY <1>8, Zenon DEF switch_context, m1, m2, w, y, ns
  <2>2. ns.depth > 0
    BY <1>8, SMT
  <2> QED
    BY <1>2, <1>7, <1>8, <2>1, <2>2, PopFrame
<1>10. m1[there][ns.depth] = f
  BY <1>2, <1>6, <1>8, SMT
<1>11. /\ pc' = f.ra /\ regs' = [regs EXCEPT !.s = f.s] /\ sp' = Up(ns)
       /\ satp' = next /\ sscratch' = Top(next) /\ current_proc' = next
  BY <1>8, <1>10, Zenon DEF switch_context, EnterSpace, m1, y, ns
<1>12. sstatus' \in Sstatus /\ sstatus'.SIE = FALSE
  BY <1>1, Zenon DEF Sstatus
<1>13. f \in Frames /\ f.ra \in KernelPcs /\ f.s \in RegVals
  BY <1>1, <1>2, <1>8, FrameFields, Zenon DEF Mem
<1> HIDE DEF f
<1>14. /\ procs' \in Table
       /\ procs'[current_proc].sp = Down(Activation(current_proc))
       /\ \A p \in PSlots : procs'[p].state = ps[p].state
       /\ \A p \in PSlots \ {current_proc} : procs'[p] = procs[p]
  <2> DEFINE dd == Down(Down(sp))
  <2>1. dd \in Sps /\ dd = Down(Activation(current_proc))
    BY <1>3, Zenon
  <2> HIDE DEF dd
  <2>2. procs' = [ps EXCEPT ![current_proc].sp = dd]
    BY Zenon DEF dd
  <2> QED
    BY <1>1, <2>1, <2>2, SMT DEF Table
<1>15. TypeOK'
  <2>1. regs' \in Regs
    BY <1>1, <1>11, <1>13, SMT DEF Regs
  <2>2. sp' \in Sps
    <3>1. ns.depth > 0
      BY <1>8, SMT
    <3> QED
      BY <1>8, <1>11, <3>1, DownUp, Zenon
  <2>3. sscratch' \in Sps
    BY <1>11, Tops, Zenon
  <2> QED
    BY <1>9, <1>11, <1>12, <1>13, <1>14, <2>1, <2>2, <2>3, Zenon DEF IInv, TypeOK, Mem, Table
<1>16. \A k \in Stacks : \A d \in 1 .. DEPTH :
          mem'[k][d] = IF k = there /\ d = ns.depth THEN NoFrame
                       ELSE IF k = here /\ d = top + 1 THEN w
                       ELSE IF k = here /\ d = top THEN y ELSE mem[k][d]
  <2> TAKE k \in Stacks
  <2> TAKE d \in 1 .. DEPTH
  <2>1. m1[k][d] = IF k = here /\ d = top THEN y ELSE mem[k][d]
    BY <1>6, Zenon
  <2>2. m2[k][d] = IF k = here /\ d = top + 1 THEN w ELSE m1[k][d]
    BY <1>7, Zenon
  <2>3. mem'[k][d] = IF k = there /\ d = ns.depth THEN NoFrame ELSE m2[k][d]
    BY <1>9, Zenon
  <2> QED
    BY <2>1, <2>2, <2>3, Zenon
<1>17. InUser' /\ InKernel' /\ InTrap'
  <2>1. CASE Fresh(next) /\ next # Idle /\ f.ra = "user_entry" /\ ns.depth = 1
    BY <1>11, <1>12, <2>1, Zenon DEF InUser, InKernel, InTrap, KernelPcs, Top
  <2>2. CASE /\ Parked(next) /\ Up(ns) = Activation(next) /\ ns.depth = Depth(next) + 1
             /\ f.ra = "switched" /\ f.s = there
    <3>1. Returns(next, "yield")'
      <4>1. \A d \in 1 .. DEPTH : d # Depth(next) + 1 => mem'[there][d] = mem[there][d]
        BY <1>2, <1>16, <2>2, SMT
      <4>2. Returns(next, "yield")
        BY <2>2, Zenon DEF Parked
      <4>3. CASE next = Idle
        <5>1. Depth(next) = 1 /\ 1 \in 1 .. DEPTH /\ 1 # Depth(next) + 1
          BY <4>3, TrapAssumption, SMT DEF Depth
        <5>2. mem'[there][1] = mem[there][1]
          BY <4>1, <5>1, Zenon
        <5> QED
          BY <4>2, <4>3, <5>1, <5>2, Zenon DEF Returns, there
      <4>4. CASE next # Idle
        <5>1. Depth(next) = 3 /\ {1, 2, 3} \subseteq 1 .. DEPTH /\ 4 \notin {1, 2, 3} /\ 3 + 1 = 4
          BY <4>4, TrapAssumption, SMT DEF Depth
        <5>2. there = next
          BY <4>4, Homes, Zenon DEF there
        <5>3. \A d \in {1, 2, 3} : mem'[next][d] = mem[next][d]
          BY <4>1, <5>1, <5>2, SMT
        <5> QED
          BY <4>2, <4>4, <5>1, <5>2, <5>3, Zenon DEF Returns, InCall, there
      <4> QED
        BY <4>3, <4>4, Zenon
    <3>2. regs'.s = Home(next)
      BY <1>1, <1>11, <2>2, SMT DEF Regs, there
    <3>3. sp' = Activation(next)
      BY <1>11, <2>2, Zenon
    <3>4. /\ Returns(current_proc, "yield")' /\ regs'.s = Home(current_proc)'
          /\ sp' = Activation(current_proc)'
      BY <1>11, <3>1, <3>2, <3>3, Zenon DEF Returns, InCall, Home, Depth, Activation
    <3> QED
      BY <1>11, <1>12, <2>2, <3>4, Zenon DEF InUser, InKernel, InTrap, KernelPcs
  <2> QED
    BY <1>8, <2>1, <2>2, Zenon
<1>18. Asleep'
  <2> SUFFICES ASSUME NEW p \in PSlots \ {next},
                      p = Idle \/ procs'[p].state = "RUNNABLE"
               PROVE  Fresh(p)' \/ Parked(p)'
    BY <1>11, Zenon DEF Asleep
  <2>0. Home(p) \in Stacks /\ Home(p) # there
    BY Homes, Zenon DEF there
  <2>1. CASE p = current_proc
    <3>1. mem'[here][top] = y /\ mem'[here][top + 1] = w
      <4>1. top # top + 1
        BY <1>2, SMT
      <4> QED
        BY <1>2, <1>16, <4>1, SMT
    <3>2. Returns(p, "yield")'
      <4>1. CASE current_proc = Idle
        BY <1>5, <2>1, <3>1, <4>1, Zenon DEF Returns, here, top
      <4>2. CASE current_proc # Idle
        <5>1. /\ ret = "handle_syscall" /\ InCall(current_proc)
              /\ sstatus.SIE = FALSE /\ sstatus.SPP = FALSE /\ sstatus.SUM = TRUE
          BY <1>14, <2>1, <4>2, Zenon
        <5>2. /\ here = current_proc /\ 1 \in 1 .. DEPTH /\ 2 \in 1 .. DEPTH
              /\ 1 # top /\ 2 # top /\ 1 # top + 1 /\ 2 # top + 1
          BY <4>2, TrapAssumption, SMT DEF here, top, Home, Depth
        <5>3. /\ mem'[current_proc][1] = mem[current_proc][1]
              /\ mem'[current_proc][2] = mem[current_proc][2]
          BY <1>2, <1>16, <5>2, SMT
        <5>4. InCall(p)'
          BY <2>1, <5>1, <5>3, Zenon DEF InCall
        <5> QED
          BY <1>5, <2>1, <3>1, <4>2, <5>1, <5>4, Zenon DEF Returns, here, top
      <4> QED
        BY <4>1, <4>2, Zenon
    <3> QED
      BY <1>5, <1>14, <2>1, <3>1, <3>2, Zenon DEF Parked, here, top
  <2>2. CASE p # current_proc
    <3>1. Home(p) # here
      BY <1>1, <2>2, Homes, Zenon DEF here
    <3>2. \A d \in 1 .. DEPTH : mem'[Home(p)][d] = mem[Home(p)][d]
      BY <1>16, <2>0, <3>1, SMT
    <3>3. procs'[p] = procs[p]
      BY <1>14, <2>2, Zenon
    <3>4. Fresh(p) \/ Parked(p)
      BY <2>2, <3>3, Zenon DEF IInv, Asleep
    <3>5. /\ {1, 2, 3, 4} \subseteq 1 .. DEPTH
          /\ Depth(p) \in 1 .. DEPTH /\ Depth(p) + 1 \in 1 .. DEPTH
      BY TrapAssumption, SMT DEF Depth
    <3>6. Home(p) = p \/ p = Idle
      BY Zenon DEF Home
    <3>7. CASE Fresh(p)
      BY <3>2, <3>3, <3>5, <3>6, <3>7, Zenon DEF Fresh
    <3>8. CASE Parked(p)
      BY <3>2, <3>3, <3>5, <3>6, <3>8, ZenonT(60) DEF Parked, Returns, InCall
    <3> QED
      BY <3>4, <3>7, <3>8, Zenon
  <2> QED
    BY <2>1, <2>2, Zenon
<1>19. Space'
  <2>1. Idle \in PSlots
    BY Homes, Zenon
  <2>2. ps[Idle].state = "RUNNABLE"
    BY <2>1, Zenon DEF IInv, Space
  <2>3. ps[next].state = "RUNNABLE"
    BY <2>2, Zenon
  <2>4. next # Bare
    BY SMT DEF PSlots, Bare
  <2> QED
    BY <1>11, <1>14, <2>1, <2>2, <2>3, <2>4, Zenon DEF Space
<1>20. CASE Fresh(next) /\ next # Idle /\ f.ra = "user_entry" /\ ns.depth = 1
  <2>1. ~ Parked(next)
    <3>1. Parked(next) => ns = Down(Activation(next))
      BY Zenon DEF Parked, ns
    <3>2. Down(Activation(next)).depth = 4
      BY <1>20, SMT DEF Down, Activation, Depth
    <3> QED
      BY <1>20, <3>1, <3>2, SMT
  <2>2. there = next /\ 1 \in 1 .. DEPTH /\ 2 \in 1 .. DEPTH
    BY <1>20, Homes, TrapAssumption, SMT DEF there
  <2>3. \A p \in PSlots \ {Idle} : p \in Stacks
    BY Tops, Zenon
  <2>4. \A p \in PSlots \ {Idle} : p = here => top = 3 /\ p = current_proc
    BY <1>1, Homes, SMT DEF here, top, Depth, Home, PSlots, BootStack
  <2> QED
    BY <1>11, <1>14, <1>15, <1>16, <1>17, <1>18, <1>19, <1>20, <2>1, <2>2, <2>3, <2>4, SMTT(30)
       DEF IInv
<1>21. CASE /\ Parked(next) /\ Up(ns) = Activation(next) /\ ns.depth = Depth(next) + 1
            /\ f.ra = "switched" /\ f.s = there
  <2>2. 1 \in 1 .. DEPTH /\ 2 \in 1 .. DEPTH
    BY TrapAssumption, SMT
  <2>3. \A p \in PSlots \ {Idle} : p \in Stacks
    BY Tops, Zenon
  <2>4. /\ \A p \in PSlots \ {Idle} : p = here => top = 3 /\ p = current_proc
        /\ \A p \in PSlots \ {Idle} : p = there => ns.depth = 4 /\ p = next
    BY <1>1, <1>21, Homes, SMT DEF here, there, top, Depth, Home, PSlots, BootStack
  <2> QED
    BY <1>11, <1>14, <1>15, <1>16, <1>17, <1>18, <1>19, <1>21, <2>2, <2>3, <2>4, SMTT(30)
       DEF IInv
<1> QED
  BY <1>8, <1>20, <1>21, Zenon
\* yield in SYS_GETCHAR.
LEMMA GetcharSwitches ==
  ASSUME IInv, SysGetchar
  PROVE  \/ UNCHANGED vars
         \/ \E next : /\ MaySwitch(procs, next, "handle_syscall")
                      /\ Switch(procs, next, "handle_syscall")
<1> DEFINE next == PickNext(procs, current_proc)
<1>1. /\ current_proc # Idle /\ InCall(current_proc) /\ regs.s = Home(current_proc)
      /\ sp = [stack |-> current_proc, depth |-> 2]
      /\ sstatus.SPP = FALSE /\ sstatus.SUM = TRUE /\ mode = "S" /\ pc = "handle_syscall"
  BY Zenon DEF IInv, SysGetchar, InSyscall, InKernel
<1>2. procs \in Table /\ current_proc \in PSlots /\ sstatus \in Sstatus
  BY Zenon DEF IInv, TypeOK, Table
<1>3. Reaped(procs) = procs
  <2>1. procs[current_proc].state # "EXITED"
    BY <1>2, SMT DEF Table
  <2> QED
    BY <2>1, Zenon DEF Reaped
<1>4. next \in PSlots /\ (next = Idle \/ procs[next].state = "RUNNABLE")
  BY <1>2, PickNextReady, Zenon
<1>5. sstatus.SIE = FALSE
  <2>1. sstatus.SIE # TRUE
    BY <1>1, Zenon DEF IInv, InKernel
  <2> QED
    BY <1>2, <2>1, Zenon DEF Sstatus
<1>6. sp.stack = Home(current_proc) /\ sp.depth + 1 = Depth(current_proc)
  BY <1>1, <1>2, Homes, SMT DEF Depth
<1> HIDE DEF next
<1>7. CASE next = current_proc
  BY <1>1, <1>3, <1>7, Zenon DEF SysGetchar, yield, next, vars, hartVars
<1>8. CASE next # current_proc
  <2>1. "handle_syscall" \in KernelPcs
    BY SMT DEF KernelPcs
  <2>2. Switch(procs, next, "handle_syscall")
    BY <1>3, <1>8, Zenon DEF SysGetchar, yield, next, Switch
  <2>3. MaySwitch(procs, next, "handle_syscall")
    BY <1>1, <1>2, <1>4, <1>5, <1>6, <1>8, <2>1, Zenon DEF MaySwitch
  <2> QED
    BY <2>2, <2>3, Zenon
<1> QED
  BY <1>7, <1>8, Zenon

\* The yield of kernel_main, which becomes idle.
LEMMA KernelMainSwitches ==
  ASSUME IInv, kernel_main_yield
  PROVE  /\ current_proc = Idle
         /\ \/ /\ pc' = "panic" /\ sp = BootTop /\ sscratch = Zero /\ mode = "S"
               /\ regs.s = Home(current_proc)
               /\ UNCHANGED <<mode, sp, regs, sscratch, sepc, scause, sstatus, satp, procs,
                              current_proc, mem, kmain>>
            \/ \E next : MaySwitch(procs, next, "panic") /\ Switch(procs, next, "panic")
<1> DEFINE next == PickNext(procs, current_proc)
<1>1. /\ current_proc = Idle /\ regs.s = Home(current_proc) /\ sp = BootTop /\ sscratch = Zero
      /\ mode = "S" /\ pc = "kernel_main" /\ kmain = NUSERS + 1
  BY Zenon DEF IInv, kernel_main_yield, InKernel, Interruptible
<1>2. procs \in Table /\ current_proc \in PSlots /\ sstatus \in Sstatus
  BY Zenon DEF IInv, TypeOK, Table
<1>3. Reaped(procs) = procs
  <2>1. procs[current_proc].state # "EXITED"
    BY <1>2, SMT DEF Table
  <2> QED
    BY <2>1, Zenon DEF Reaped
<1>4. next \in PSlots /\ (next = Idle \/ procs[next].state = "RUNNABLE")
  BY <1>2, PickNextReady, Zenon
<1>5. procs[Idle].state = "RUNNABLE"
  <2>1. kmain > 0
    BY <1>1, TrapAssumption, SMT
  <2> QED
    BY <2>1, Zenon DEF IInv, Space
<1>6. sp.stack = Home(current_proc) /\ sp.depth + 1 = Depth(current_proc)
  BY <1>1, Homes, SMTT(30) DEF Depth, BootTop
<1>7. "panic" \in KernelPcs
  BY SMT DEF KernelPcs
<1> HIDE DEF next
<1>8. CASE next = current_proc
  <2>1. /\ pc' = "panic"
        /\ UNCHANGED <<mode, sp, regs, sscratch, sepc, scause, sstatus, satp, procs, current_proc,
                       mem, kmain>>
    BY <1>3, <1>8, Zenon DEF kernel_main_yield, yield, next
  <2> QED
    BY <1>1, <2>1, Zenon
<1>9. CASE next # current_proc
  <2>1. Switch(procs, next, "panic")
    BY <1>3, <1>9, Zenon DEF kernel_main_yield, yield, next, Switch
  <2>2. MaySwitch(procs, next, "panic")
    BY <1>1, <1>2, <1>4, <1>5, <1>6, <1>7, <1>9, Zenon DEF MaySwitch
  <2> QED
    BY <1>1, <2>1, <2>2, Zenon
<1> QED
  BY <1>8, <1>9, Zenon

\* SYS_EXIT leaves a slot that is not chosen again.
LEMMA ExitSwitches ==
  ASSUME IInv, SysExit
  PROVE  LET ps == [procs EXCEPT ![current_proc] = UnusedProc]
         IN  /\ current_proc # Idle /\ ps[current_proc].state = "UNUSED"
             /\ \E next : MaySwitch(ps, next, "panic") /\ Switch(ps, next, "panic")
<1> DEFINE ps0 == [procs EXCEPT ![current_proc].state = "EXITED"]
           ps == [procs EXCEPT ![current_proc] = UnusedProc]
           next == PickNext(ps, current_proc)
<1>1. /\ current_proc # Idle /\ regs.s = Home(current_proc) /\ mode = "S"
      /\ sp = [stack |-> current_proc, depth |-> 2]
  BY Zenon DEF IInv, SysExit, InSyscall, InKernel
<1>2. procs \in Table /\ current_proc \in PSlots /\ sstatus \in Sstatus
  BY Zenon DEF IInv, TypeOK, Table
<1>3. /\ ps \in Table /\ ps[current_proc].state = "UNUSED"
      /\ \A p \in PSlots \ {current_proc} : ps[p] = procs[p]
  <2>1. UnusedProc \in [pid : 0 .. PROCS_MAX, state : {"UNUSED", "RUNNABLE"}, sp : Sps]
    BY SchedulerAssumption, Homes, SMT DEF UnusedProc
  <2>2. UnusedProc.state = "UNUSED"
    BY SMT DEF UnusedProc
  <2> QED
    BY <1>2, <2>1, <2>2, SMT DEF Table
<1>4. Reaped(ps0) = ps
  <2>1. ps0[current_proc].state = "EXITED"
    BY <1>2, SMT DEF Table
  <2>2. [ps0 EXCEPT ![current_proc] = UnusedProc] = ps
    <3>1. /\ ps0 \in [PSlots -> {ps0[p] : p \in PSlots}]
          /\ \A p \in PSlots \ {current_proc} : ps0[p] = procs[p]
      BY <1>2, SMT DEF Table
    <3> HIDE DEF ps0
    <3> QED
      BY <1>2, <3>1, Zenon DEF Table
  <2> QED
    BY <2>1, <2>2, Zenon DEF Reaped
<1> HIDE DEF ps0, ps
<1>5. next \in PSlots /\ (next = Idle \/ ps[next].state = "RUNNABLE")
  BY <1>2, <1>3, PickNextReady, Zenon
<1>6. next # current_proc
  BY <1>1, <1>3, <1>5, SMT
<1>7. sp.stack = Home(current_proc) /\ sp.depth + 1 = Depth(current_proc)
  BY <1>1, <1>2, Homes, SMT DEF Depth
<1> HIDE DEF next
<1>8. Switch(ps, next, "panic")
  BY <1>4, <1>6, Zenon DEF SysExit, yield, next, ps0, Switch
<1>9. "panic" \in KernelPcs /\ ps[current_proc].state # "RUNNABLE"
  BY <1>3, SMT DEF KernelPcs
<1>10. MaySwitch(ps, next, "panic")
  BY <1>1, <1>3, <1>5, <1>6, <1>7, <1>9, Zenon DEF MaySwitch
<1> QED
  BY <1>1, <1>3, <1>8, <1>10, Zenon DEF ps

\* Every yield keeps the invariant.
LEMMA Yielded ==
  ASSUME IInv, SysGetchar \/ SysExit \/ kernel_main_yield
  PROVE  IInv'
<1>1. CASE \E ps, next, ret : MaySwitch(ps, next, ret) /\ Switch(ps, next, ret)
  BY <1>1, Switched, Zenon
<1>2. CASE UNCHANGED vars
  BY <1>2, Stuttered, Zenon
<1>3. CASE /\ pc' = "panic" /\ sp = BootTop /\ sscratch = Zero /\ mode = "S"
           /\ regs.s = Home(current_proc) /\ current_proc = Idle
           /\ UNCHANGED <<mode, sp, regs, sscratch, sepc, scause, sstatus, satp, procs,
                          current_proc, mem, kmain>>
  <2>1. "panic" \in KernelPcs
    BY SMT DEF KernelPcs
  <2>2. TypeOK'
    BY <1>3, <2>1, SMT DEF IInv, TypeOK
  <2>3. Interruptible(pc, sp)' /\ regs'.s = Home(current_proc)'
    BY <1>3, Zenon DEF Interruptible, BootTop
  <2>4. InUser' /\ InKernel' /\ InTrap'
    BY <1>3, <2>3, Zenon DEF InUser, InKernel, InTrap, KernelPcs
  <2>5. Asleep' /\ Space'
    BY <1>3, StillThere, Zenon
  <2> QED
    BY <2>2, <2>4, <2>5, Zenon DEF IInv
<1> QED
  BY <1>1, <1>2, <1>3, GetcharSwitches, KernelMainSwitches, ExitSwitches, Zenon
-----------------------------------------------------------------------------
(* The theorems *)

\* boot starts in the invariant.
LEMMA InitIInv == Init => IInv
<1> SUFFICES ASSUME Init PROVE IInv
  OBVIOUS
<1>1. TypeOK
  <2>1. regs \in Regs
    BY SMT DEF Init, Marked, Regs, RegVals
  <2>2. sp \in Sps /\ sscratch \in Sps
    BY Homes, SMT DEF Init, BootTop
  <2>3. sstatus \in Sstatus
    BY Zenon DEF Init, Sstatus
  <2>4. procs \in Table
    BY SchedulerAssumption, Homes, SMT DEF Init, UnusedProc, Table
  <2>5. mem \in Mem
    <3>1. NoFrame \in Frames
      BY Zenon DEF Frames
    <3> QED
      BY <3>1, SMT DEF Init, Mem
  <2>6. kmain \in 0 .. NUSERS + 1 /\ current_proc \in PSlots
    BY TrapAssumption, Homes, SMT DEF Init
  <2> QED
    BY <2>1, <2>2, <2>3, <2>4, <2>5, <2>6, Zenon DEF Init, TypeOK, Table, Mem, KernelPcs
<1>2. InUser /\ InTrap
  BY Zenon DEF Init, InUser, InTrap
<1>3. InKernel
  BY Zenon DEF Init, InKernel, KernelPcs, Marked, BootTop
<1>4. Asleep
  BY SMT DEF Init, Asleep, UnusedProc
<1>5. Space
  BY SMT DEF Init, Space
<1> QED
  BY <1>1, <1>2, <1>3, <1>4, <1>5, Zenon DEF IInv

\* Every step keeps the invariant.
LEMMA NextIInv == IInv /\ [Next]_vars => IInv'
<1> SUFFICES ASSUME IInv, [Next]_vars PROVE IInv'
  OBVIOUS
<1>1. CASE Ecall \/ Interrupt \/ Fault
  BY <1>1, TrapTaken, Zenon
<1>2. CASE UserStep
  BY <1>2, UserStepped, Zenon
<1>3. CASE kernel_entry
  BY <1>3, KernelEntered, Zenon
<1>4. CASE HandleInterrupt
  BY <1>4, InterruptHandled, Zenon
<1>5. CASE HandleEcall
  BY <1>5, EcallHandled, Zenon
<1>6. CASE HandleFault
  BY <1>6, FaultHandled, Zenon
<1>7. CASE trap_exit
  BY <1>7, TrapExited, Zenon
<1>8. CASE WaitOpen
  BY <1>8, WaitOpened, Zenon
<1>9. CASE WaitClose
  BY <1>9, WaitClosed, Zenon
<1>10. CASE WaitDone
  BY <1>10, WaitReturned, Zenon
<1>11. CASE yield_switched
  BY <1>11, YieldSwitched, Zenon
<1>11a. CASE yield_restore
  BY <1>11a, YieldReturned, Zenon
<1>12. CASE user_entry
  BY <1>12, UserEntered, Zenon
<1>13. CASE SysReturn
  BY <1>13, CallReturned, Zenon
<1>14. CASE SysWait
  BY <1>14, WaitCalled, SMT DEF SysWait, InSyscall, KernelPcs
<1>15. CASE SysGetchar
  BY <1>15, Yielded, Zenon
<1>16. CASE SysExit
  BY <1>16, Yielded, Zenon
<1>17. CASE kernel_main_init
  BY <1>17, KernelMainBegun, Zenon
<1>18. CASE BootWait
  BY <1>18, WaitCalled, SMT DEF BootWait, KernelPcs
<1>19. CASE create_process
  BY <1>19, ProcessCreated, Zenon
<1>20. CASE kernel_main_yield
  BY <1>20, Yielded, Zenon
<1>21. CASE UNCHANGED vars
  BY <1>21, Stuttered, Zenon
<1> QED
  BY <1>1, <1>2, <1>3, <1>4, <1>5, <1>6, <1>7, <1>8, <1>9, <1>10, <1>11, <1>11a, <1>12,
     <1>13, <1>14, <1>15, <1>16, <1>17, <1>18, <1>19, <1>20, <1>21, Zenon DEF Next

\* What every thread finds on its stack when it goes on, for any number of
\* processes, any user programs and any interrupts: no system call needs more
\* than four frames, and each returns where it was called.
THEOREM StacksInOrder == Spec => []IInv
  BY InitIInv, NextIInv, PTL DEF Spec

\* The comment on kernel_entry about sscratch, for any number of processes.
THEOREM ScratchKept == Spec => []ScratchProtocol
<1>1. IInv => ScratchProtocol
  <2> SUFFICES ASSUME IInv PROVE ScratchProtocol
    OBVIOUS
  <2>1. sstatus.SIE \in BOOLEAN
    BY Zenon DEF IInv, TypeOK, Sstatus
  <2>2. ASSUME mode = "S", sstatus.SIE PROVE sscratch = Zero
    <3>1. sstatus.SIE = TRUE
      BY <2>1, <2>2, Zenon
    <3> QED
      BY <2>2, <3>1, Zenon DEF IInv, InKernel
  <2> QED
    BY <2>2, Zenon DEF ScratchProtocol, IInv, InUser
<1> QED
  BY <1>1, StacksInOrder, PTL

\* Kernel code goes on with its own stack and registers after every interrupt
\* in wait_for_interrupt and after every switch_context.
THEOREM KernelComesHome == Spec => []KernelAtHome
<1>1. IInv => KernelAtHome
  <2> SUFFICES ASSUME IInv, mode = "S", pc \in DOMAIN OwnFrame
               PROVE  /\ sp.stack = ThreadMark /\ Frame(sp).kind = OwnFrame[pc]
                      /\ regs.s = ThreadMark
    BY Zenon DEF KernelAtHome
  <2>1. ThreadMark = Home(current_proc) /\ TypeOK
    BY Zenon DEF IInv, ThreadMark, Home
  <2>1a. /\ OwnFrame["handle_syscall"] = "handle_trap" /\ OwnFrame["waiting"] = "wait"
         /\ OwnFrame["window"] = "wait" /\ OwnFrame["switched"] = "yield"
         /\ OwnFrame["restoring"] = "yield"
    BY SMT DEF OwnFrame
  <2>2. CASE pc = "handle_syscall"
    <3>1. /\ current_proc # Idle /\ sp = [stack |-> current_proc, depth |-> 2]
          /\ mem[current_proc][2].kind = "handle_trap" /\ regs.s = Home(current_proc)
      BY <2>2, Zenon DEF IInv, InKernel, InCall
    <3>2. Home(current_proc) = current_proc
      BY <3>1, Zenon DEF Home
    <3> QED
      <4>1. sp.stack = current_proc /\ sp.depth = 2
        BY <3>1, SMT
      <4> QED
        BY <2>1, <2>1a, <2>2, <3>1, <3>2, <4>1, Zenon DEF Frame
  <2>3. CASE pc \in {"waiting", "window"}
    <3>1. /\ sp = Activation(current_proc) /\ Returns(current_proc, "wait")
          /\ regs.s = Home(current_proc)
      BY <2>3, Zenon DEF IInv, InKernel, Interruptible
    <3>2. Frame(sp).kind = "wait" /\ sp.stack = Home(current_proc)
      BY <2>1, <3>1, OwnFrameTyped, Zenon
    <3> QED
      BY <2>1, <2>1a, <2>3, <3>1, <3>2, Zenon
  <2>4. CASE pc \in {"switched", "restoring"}
    <3>1. /\ sp = Activation(current_proc) /\ Returns(current_proc, "yield")
          /\ regs.s = Home(current_proc)
      BY <2>4, Zenon DEF IInv, InKernel
    <3>2. Frame(sp).kind = "yield" /\ sp.stack = Home(current_proc)
      BY <2>1, <3>1, OwnFrameTyped, Zenon
    <3> QED
      BY <2>1, <2>1a, <2>4, <3>1, <3>2, Zenon
  <2>5. pc \in {"handle_syscall", "waiting", "window", "switched", "restoring"}
    BY SMT DEF OwnFrame
  <2> QED
    BY <2>2, <2>3, <2>4, <2>5, Zenon
<1> QED
  BY <1>1, StacksInOrder, PTL

\* The page table of the process that runs is the one in satp, and one that is
\* in satp has not been released.
THEOREM SpaceCurrent == Spec => []AddressSpaceCurrent
<1>1. IInv => AddressSpaceCurrent
  BY Zenon DEF IInv, InUser, InKernel, Space, AddressSpaceCurrent, InSyscall
<1> QED
  BY <1>1, StacksInOrder, PTL

-----------------------------------------------------------------------------
\* Trap implements UserMachine: whatever the kernel does between two of its
\* instructions, a user program finds its own pc, registers and stack pointer
\* again.

\* Where the user state of p is: in the hart, in the frame of kernel_entry, or
\* there and in the frame of handle_trap.
HartView == [pc |-> IF mode = "U" THEN pc ELSE sepc, a |-> regs.a, s |-> regs.s, sp |-> sp]
SavedView(p, upc) ==
  [pc |-> upc, a |-> mem[p][1].regs.a, s |-> mem[p][1].regs.s, sp |-> mem[p][1].sp]

\* A slot without a process shows nothing.
LEMMA SeenUnused ==
  ASSUME NEW p \in Procs
  PROVE  LET C == procs[p].state = "UNUSED" =>
                    /\ Life(p) = IF p >= kmain THEN "unborn" ELSE "gone"
                    /\ View(p) = Machine!Blank
         IN  C /\ C'
BY SMTT(30) DEF Life, Unborn, View, Machine!Blank

\* A process that has not reached its first instruction shows nothing.
LEMMA SeenUnborn ==
  ASSUME NEW p \in Procs
  PROVE  LET C == procs[p].state = "RUNNABLE" /\ mem[p][1].kind # "trap" /\ ~ InHart(p) =>
                    Life(p) = "unborn" /\ View(p) = Machine!Blank
         IN  C /\ C'
BY SMTT(30) DEF Life, Unborn, View, Machine!Blank

\* A process in a system call shows what kernel_entry and handle_trap saved.
LEMMA SeenCalling ==
  ASSUME NEW p \in Procs
  PROVE  LET C == procs[p].state = "RUNNABLE" /\ InCall(p) /\ ~ InHart(p) =>
                    Life(p) = "calling" /\ View(p) = SavedView(p, mem[p][2].user_pc)
         IN  C /\ C'
<1>1. procs[p].state = "RUNNABLE" /\ InCall(p) /\ ~ InHart(p) =>
        Life(p) = "calling" /\ View(p) = SavedView(p, mem[p][2].user_pc)
  BY SMTT(30) DEF Life, Unborn, View, InCall, InHart, SavedView
<1>2. (procs[p].state = "RUNNABLE" /\ InCall(p) /\ ~ InHart(p) =>
        Life(p) = "calling" /\ View(p) = SavedView(p, mem[p][2].user_pc))'
  BY SMTT(30) DEF Life, Unborn, View, InCall, InHart, SavedView
<1> QED
  BY <1>1, <1>2

\* Before kernel_entry has saved it, the user state is in the hart.
LEMMA SeenInHart ==
  ASSUME NEW p \in Procs
  PROVE  LET C == procs[p].state = "RUNNABLE" /\ InHart(p) /\ mem[p][2] = NoFrame =>
                    /\ Life(p) = IF mode = "S" /\ scause = "ecall" THEN "calling" ELSE "user"
                    /\ View(p) = HartView
         IN  C /\ C'
<1>1. procs[p].state = "RUNNABLE" /\ InHart(p) /\ mem[p][2] = NoFrame =>
        /\ Life(p) = IF mode = "S" /\ scause = "ecall" THEN "calling" ELSE "user"
        /\ View(p) = HartView
  BY SMTT(30) DEF Life, Unborn, View, InHart, HartView, NoFrame
<1>2. (procs[p].state = "RUNNABLE" /\ InHart(p) /\ mem[p][2] = NoFrame =>
        /\ Life(p) = IF mode = "S" /\ scause = "ecall" THEN "calling" ELSE "user"
        /\ View(p) = HartView)'
  BY SMTT(30) DEF Life, Unborn, View, InHart, HartView, NoFrame
<1> QED
  BY <1>1, <1>2

\* Between kernel_entry and its second half it is in the trap frame and sepc.
Saved(p) ==
  /\ p = current_proc /\ mode = "S"
  /\ pc \in {"handle_trap", "trap_exit", "panic"}
  /\ mem[p][1].kind = "trap" /\ mem[p][2] = NoFrame
LEMMA SeenSaved ==
  ASSUME NEW p \in Procs
  PROVE  LET C == procs[p].state = "RUNNABLE" /\ Saved(p) =>
                    /\ Life(p) = IF pc = "handle_trap" /\ scause = "ecall" THEN "calling" ELSE "user"
                    /\ View(p) = SavedView(p, sepc)
         IN  C /\ C'
<1>1. procs[p].state = "RUNNABLE" /\ Saved(p) =>
        /\ Life(p) = IF pc = "handle_trap" /\ scause = "ecall" THEN "calling" ELSE "user"
        /\ View(p) = SavedView(p, sepc)
  BY SMTT(30) DEF Life, Unborn, View, InHart, Saved, SavedView, NoFrame
<1>2. (procs[p].state = "RUNNABLE" /\ Saved(p) =>
        /\ Life(p) = IF pc = "handle_trap" /\ scause = "ecall" THEN "calling" ELSE "user"
        /\ View(p) = SavedView(p, sepc))'
  BY SMTT(30) DEF Life, Unborn, View, InHart, Saved, SavedView, NoFrame
<1> QED
  BY <1>1, <1>2
-----------------------------------------------------------------------------
seenVars == <<Running, Lives, Views>>

\* What the invariant says of the process that runs, and of the slots.
LEMMA Current ==
  ASSUME IInv
  PROVE  /\ current_proc \in PSlots /\ mem \in Mem /\ sp \in Sps /\ sstatus \in Sstatus
         /\ sstatus.SPP \in BOOLEAN /\ sstatus.SIE \in BOOLEAN
         /\ \A p \in Procs : p \in PSlots /\ p \in Stacks /\ procs[p].state \in {"UNUSED", "RUNNABLE"}
         /\ Idle \notin Procs
         /\ current_proc # Idle => current_proc \in Procs /\ procs[current_proc].state = "RUNNABLE"
         /\ 1 \in 1 .. DEPTH /\ 2 \in 1 .. DEPTH
<1>1. /\ current_proc \in PSlots /\ mem \in Mem /\ sp \in Sps /\ sstatus \in Sstatus
      /\ procs \in Table
  BY Zenon DEF IInv, TypeOK, Mem, Table
<1>2. sstatus.SPP \in BOOLEAN /\ sstatus.SIE \in BOOLEAN
  BY <1>1, Zenon DEF Sstatus
<1>3. \A p \in PSlots : procs[p].state \in {"UNUSED", "RUNNABLE"}
  BY <1>1, SMT DEF Table
<1>4. 1 \in 1 .. DEPTH /\ 2 \in 1 .. DEPTH
  BY TrapAssumption, SMT
<1>5. current_proc # Idle => current_proc \in Procs /\ procs[current_proc].state = "RUNNABLE"
  BY <1>1, Zenon DEF IInv, Space, Procs
<1> QED
  BY <1>1, <1>2, <1>3, <1>4, <1>5, Tops, Zenon DEF Procs

\* A process that does not run looks the same as long as its slot and its first
\* two frames do.
LEMMA Elsewhere ==
  ASSUME IInv, NEW p \in Procs, p # current_proc, p # current_proc',
         kmain' = kmain, procs'[p] = procs[p],
         mem'[p][1] = mem[p][1], mem'[p][2] = mem[p][2]
  PROVE  Life(p)' = Life(p) /\ View(p)' = View(p)
<1>1. ~ InHart(p) /\ ~ InHart(p)'
  BY DEF InHart
<1>2. CASE procs[p].state = "UNUSED"
  BY <1>2, SeenUnused, Zenon DEF Machine!Blank
<1>3. CASE procs[p].state = "RUNNABLE"
  <2>1. Fresh(p) \/ Parked(p)
    BY <1>3, Zenon DEF IInv, Asleep, Procs
  <2>2. CASE Fresh(p)
    <3>1. mem[p][1].kind # "trap"
      BY <2>2 DEF Fresh
    <3> QED
      BY <1>1, <1>3, <3>1, SeenUnborn, Zenon DEF Machine!Blank
  <2>3. CASE Parked(p)
    <3>1. InCall(p) /\ InCall(p)'
      BY <2>3, Zenon DEF Parked, Returns, InCall, Procs
    <3> QED
      BY <1>1, <1>3, <3>1, SeenCalling, Zenon DEF SavedView
  <2> QED
    BY <2>1, <2>2, <2>3
<1> QED
  BY <1>2, <1>3, Current, Zenon

\* The user machine does not move when every process looks the same.
LEMMA NothingSeen ==
  ASSUME (mode' = mode /\ current_proc' = current_proc) \/ (mode = "S" /\ mode' = "S"),
         \A p \in Procs : Life(p)' = Life(p) /\ View(p)' = View(p)
  PROVE  UNCHANGED seenVars
<1>1. UNCHANGED Running
  BY DEF Running
<1>2. UNCHANGED Lives /\ UNCHANGED Views
  BY DEF Lives, Views
<1> QED
  BY <1>1, <1>2 DEF seenVars

\* Only q looks different.
LEMMA OneSeen ==
  ASSUME NEW q \in Procs,
         \A p \in Procs \ {q} : Life(p)' = Life(p) /\ View(p)' = View(p)
  PROVE  /\ Lives' = [Lives EXCEPT ![q] = Life(q)'] /\ Lives[q] = Life(q) /\ Lives'[q] = Life(q)'
         /\ Views' = [Views EXCEPT ![q] = View(q)'] /\ Views[q] = View(q) /\ Views'[q] = View(q)'
         /\ Life(q)' = Life(q) => UNCHANGED Lives
         /\ View(q)' = View(q) => UNCHANGED Views
BY DEF Lives, Views

\* What happens on the stack of the current process does not change the others.
LEMMA OthersSame ==
  ASSUME IInv, Cleared, UNCHANGED <<current_proc, procs, kmain>>,
         \A p \in Procs \ {current_proc} : mem'[p][1] = mem[p][1] /\ mem'[p][2] = mem[p][2]
  PROVE  /\ ClearedAway'
         /\ \A p \in Procs \ {current_proc} : Life(p)' = Life(p) /\ View(p)' = View(p)
<1>1. \A p \in Procs \ {current_proc} : Fresh(p)' => Fresh(p)
  BY Zenon DEF Fresh
<1>2. \A p \in Procs : p >= kmain => p # current_proc
  <2>1. "UNUSED" # "RUNNABLE"
    OBVIOUS
  <2> QED
    BY <2>1, Current, Zenon DEF Cleared, ClearedAway
<1>3. ClearedAway'
  BY <1>1, <1>2, Zenon DEF Cleared, ClearedAway
<1> QED
  BY <1>3, Elsewhere, Zenon

\* A step that changes nothing is not seen.
LEMMA Stutter ==
  ASSUME Cleared, UNCHANGED vars
  PROVE  Cleared' /\ UNCHANGED seenVars
<1> USE DEF vars, hartVars
<1>1. Cleared'
  BY Zenon DEF Cleared, ClearedAway, ClearedHere, Fresh, InHart
<1>2. \A p \in Procs : Life(p)' = Life(p) /\ View(p)' = View(p)
  BY ZenonT(60) DEF Life, View, Unborn, InHart
<1> QED
  BY <1>1, <1>2, NothingSeen

\* Kernel code that leaves the first two frames of every process alone.
LEMMA QuietStep ==
  ASSUME IInv, Cleared, mode = "S", mode' = "S", UNCHANGED <<current_proc, procs, kmain>>,
         \A p \in Procs : mem'[p][1] = mem[p][1] /\ mem'[p][2] = mem[p][2],
         current_proc # Idle => InCall(current_proc),
         current_proc # Idle => ~ InHart(current_proc) /\ ~ InHart(current_proc)',
         ~ (pc' \in {"handle_trap", "trap_exit"} /\ sstatus'.SPP = FALSE),
         pc' # "user_entry"
  PROVE  Cleared' /\ UNCHANGED seenVars
<1>1. Cleared'
  <2>1. \A p \in Procs \ {current_proc} : Fresh(p)' => Fresh(p)
    BY Zenon DEF Fresh
  <2> QED
    BY <2>1, Zenon DEF Cleared, ClearedAway, ClearedHere
<1>2. ASSUME NEW p \in Procs PROVE Life(p)' = Life(p) /\ View(p)' = View(p)
  <2>1. CASE p # current_proc
    BY <2>1, Elsewhere, Zenon
  <2>2. CASE p = current_proc
    <3>1. p # Idle /\ procs[p].state = "RUNNABLE" /\ InCall(p)
      BY <2>2, Current, Zenon
    <3>2. InCall(p)' /\ ~ InHart(p) /\ ~ InHart(p)'
      BY <2>2, <3>1, Zenon DEF InCall
    <3> QED
      BY <3>1, <3>2, SeenCalling, Zenon DEF SavedView
  <2> QED
    BY <2>1, <2>2
<1> QED
  BY <1>1, <1>2, NothingSeen, Zenon
-----------------------------------------------------------------------------
(* Kernel code that is not seen. *)

\* Frames pushed on the boot stack, or below the frame of handle_trap.
LEMMA PushDeep ==
  ASSUME IInv, NEW s \in Sps, s.stack = Home(current_proc), s.depth < DEPTH,
         current_proc # Idle => s.depth >= 2, NEW f \in Frames, mem' = Push(mem, s, f)
  PROVE  \A p \in Procs : mem'[p][1] = mem[p][1] /\ mem'[p][2] = mem[p][2]
<1>1. s.stack \in Stacks
  BY Current, Homes, Zenon
<1>2. \A k \in Stacks : \A d \in 1 .. DEPTH :
        mem'[k][d] = IF k = s.stack /\ d = s.depth + 1 THEN f ELSE mem[k][d]
  BY <1>1, Current, PushFrame
<1>3. current_proc # Idle => s.depth + 1 # 1 /\ s.depth + 1 # 2
  BY SMT DEF Sps
<1>4. current_proc = Idle => s.stack \notin Procs
  BY Homes, SMT DEF Procs, PSlots, BootStack
<1> QED
  BY <1>2, <1>3, <1>4, Current, ZenonT(60)

\* Frames popped there.
LEMMA PopDeep ==
  ASSUME IInv, NEW s \in Sps, s.stack = Home(current_proc), s.depth > 0,
         current_proc # Idle => s.depth >= 3, mem' = Pop(mem, s)
  PROVE  \A p \in Procs : mem'[p][1] = mem[p][1] /\ mem'[p][2] = mem[p][2]
<1>1. s.stack \in Stacks
  BY Current, Homes, Zenon
<1>2. \A k \in Stacks : \A d \in 1 .. DEPTH :
        mem'[k][d] = IF k = s.stack /\ d = s.depth THEN NoFrame ELSE mem[k][d]
  BY <1>1, Current, PopFrame
<1>3. current_proc # Idle => s.depth # 1 /\ s.depth # 2
  BY SMT DEF Sps
<1>4. current_proc = Idle => s.stack \notin Procs
  BY Homes, SMT DEF Procs, PSlots, BootStack
<1> QED
  BY <1>2, <1>3, <1>4, Current, ZenonT(60)

\* The frame of wait_for_interrupt.
LEMMA WaitFrame ==
  ASSUME NEW x \in Sstatus, NEW ret \in KernelPcs
  PROVE  [kind |-> "wait", saved |-> x, ret |-> ret] \in Frames
BY SMT DEF Frames

\* The call of wait_for_interrupt, in a system call or at boot.
LEMMA WaitQuiet ==
  ASSUME IInv, Cleared, SysWait \/ BootWait
  PROVE  Cleared' /\ UNCHANGED seenVars
<1>1. PICK ret \in KernelPcs : wait_for_interrupt(ret)
  BY Zenon DEF SysWait, BootWait, KernelPcs
<1>2. mode = "S" /\ pc \in {"handle_syscall", "kernel_main"}
  BY Zenon DEF SysWait, BootWait, InSyscall
<1>3. /\ current_proc # Idle => InCall(current_proc) /\ sp = [stack |-> current_proc, depth |-> 2]
      /\ current_proc = Idle => sp = BootTop
  BY <1>2, Zenon DEF IInv, InKernel, Interruptible
<1>4. sp.stack = Home(current_proc) /\ sp.depth < DEPTH /\ (current_proc # Idle => sp.depth >= 2)
  BY <1>3, Current, Homes, TrapAssumption, SMT DEF BootTop
<1>5. [kind |-> "wait", saved |-> sstatus, ret |-> ret] \in Frames
  <2>1. sstatus \in Sstatus
    BY Current, Zenon
  <2> QED
    BY <2>1, WaitFrame, Zenon
<1>6. \A p \in Procs : mem'[p][1] = mem[p][1] /\ mem'[p][2] = mem[p][2]
  BY <1>1, <1>4, <1>5, PushDeep, Current, Zenon DEF wait_for_interrupt
<1>7. mode' = "S" /\ pc' = "waiting" /\ UNCHANGED <<current_proc, procs, kmain>>
  BY <1>1, <1>2, Zenon DEF wait_for_interrupt
<1>8. ~ InHart(current_proc) /\ ~ InHart(current_proc)'
  BY <1>2, <1>7, SMT DEF InHart
<1> QED
  BY <1>2, <1>3, <1>6, <1>7, <1>8, QuietStep, Zenon

\* The window of wait_for_interrupt, and sscratch cleared in yield.
LEMMA WindowQuiet ==
  ASSUME IInv, Cleared, WaitOpen \/ WaitClose \/ yield_switched
  PROVE  Cleared' /\ UNCHANGED seenVars
<1>1. /\ mode = "S" /\ mode' = "S"
      /\ pc \in {"waiting", "window", "switched"} /\ pc' \in {"waiting", "window", "restoring"}
  BY Zenon DEF WaitOpen, WaitClose, yield_switched
<1>2. UNCHANGED <<current_proc, procs, kmain, mem>>
  BY Zenon DEF WaitOpen, WaitClose, yield_switched
<1>3. current_proc # Idle => InCall(current_proc)
  BY <1>1, Zenon DEF IInv, InKernel, Interruptible, Returns
<1>4. ~ InHart(current_proc) /\ ~ InHart(current_proc)'
  BY <1>1, SMT DEF InHart
<1> QED
  BY <1>1, <1>2, <1>3, <1>4, QuietStep, Zenon

\* The return of wait_for_interrupt, and of yield when the process runs again.
LEMMA ReturnQuiet ==
  ASSUME IInv, Cleared, WaitDone \/ yield_restore
  PROVE  Cleared' /\ UNCHANGED seenVars
<1>1. PICK kind \in {"wait", "yield"} : sp = Activation(current_proc) /\ Returns(current_proc, kind)
  BY Zenon DEF IInv, InKernel, WaitDone, yield_restore
<1>2. /\ mode = "S" /\ mode' = "S" /\ pc \in {"waiting", "restoring"} /\ pc' = Frame(sp).ret
      /\ mem' = Pop(mem, sp) /\ UNCHANGED <<current_proc, procs, kmain>>
  BY Zenon DEF WaitDone, yield_restore
<1>3. sp.stack = Home(current_proc) /\ sp.depth = Depth(current_proc)
  BY <1>1, SMT DEF Activation
<1>4. sp.depth > 0 /\ (current_proc # Idle => sp.depth >= 3)
  BY <1>3, SMT DEF Depth
<1>5. \A p \in Procs : mem'[p][1] = mem[p][1] /\ mem'[p][2] = mem[p][2]
  BY <1>2, <1>3, <1>4, PopDeep, Current, Zenon
<1>6. pc' \in {"kernel_main", "panic", "handle_syscall"}
  BY <1>1, <1>2, <1>3, Zenon DEF Returns, Frame
<1>7. current_proc # Idle => InCall(current_proc)
  BY <1>1, Zenon DEF Returns
<1>8. ~ InHart(current_proc) /\ ~ InHart(current_proc)'
  BY <1>2, <1>6, SMT DEF InHart
<1> QED
  BY <1>2, <1>5, <1>6, <1>7, <1>8, QuietStep, Zenon

\* The first lines of kernel_main.
LEMMA BootQuiet ==
  ASSUME IInv, Cleared, kernel_main_init
  PROVE  Cleared' /\ UNCHANGED seenVars
<1>1. /\ mode = "S" /\ mode' = "S" /\ pc = "boot" /\ pc' = "kernel_main"
      /\ UNCHANGED <<current_proc, procs, kmain, mem>>
  BY Zenon DEF kernel_main_init
<1>2. current_proc = Idle
  BY <1>1, Zenon DEF IInv, InKernel
<1> QED
  BY <1>1, <1>2, QuietStep, Zenon

\* An interrupt of the kernel.
LEMMA NestedQuiet ==
  ASSUME IInv, Cleared, Interrupt, mode = "S"
  PROVE  Cleared' /\ UNCHANGED seenVars
<1>1. /\ mode' = "S" /\ pc' = "kernel_entry" /\ sstatus'.SPP = TRUE
      /\ UNCHANGED <<current_proc, procs, kmain, mem>> /\ sstatus.SIE = TRUE
  <2>1. sstatus.SIE = TRUE
    BY Current, Zenon DEF Interrupt
  <2>2. sstatus'.SPP = TRUE
    BY Current, Zenon DEF Interrupt, TakeTrap, Sstatus
  <2> QED
    BY <2>1, <2>2, Zenon DEF Interrupt, TakeTrap
<1>2. pc \in {"kernel_main", "window", "panic"} /\ Interruptible(pc, sp)
  BY <1>1, Zenon DEF IInv, InKernel
<1>3. current_proc # Idle => InCall(current_proc)
  BY <1>2, Zenon DEF Interruptible, Returns
<1>4. ~ InHart(current_proc) /\ ~ InHart(current_proc)'
  BY <1>1, <1>2, SMT DEF InHart
<1> QED
  BY <1>1, <1>3, <1>4, QuietStep, Zenon
-----------------------------------------------------------------------------
(* The way in. *)

\* The frame is on the stack of the current process.
LEMMA PushTop ==
  ASSUME IInv, NEW s \in Sps, s.stack = current_proc, current_proc # Idle, s.depth < DEPTH,
         NEW f \in Frames, mem' = Push(mem, s, f)
  PROVE  /\ \A p \in Procs \ {current_proc} : mem'[p][1] = mem[p][1] /\ mem'[p][2] = mem[p][2]
         /\ \A d \in {1, 2} :
              mem'[current_proc][d] = IF d = s.depth + 1 THEN f ELSE mem[current_proc][d]
<1>1. \A k \in Stacks : \A d \in 1 .. DEPTH :
        mem'[k][d] = IF k = s.stack /\ d = s.depth + 1 THEN f ELSE mem[k][d]
  BY Current, PushFrame
<1> QED
  BY <1>1, Current, ZenonT(60)

\* A trap from a user program.
LEMMA TrapSeen ==
  ASSUME IInv, Cleared, mode = "U", NEW cause \in {"ecall", "interrupt", "fault"}, TakeTrap(cause),
         NEW p \in Procs, p = current_proc
  PROVE  Cleared' /\ IF cause = "ecall" THEN Machine!Call(p) ELSE Machine!Interrupted(p)
<1>1. /\ mode' = "S" /\ pc' = "kernel_entry" /\ sepc' = pc /\ scause' = cause
      /\ UNCHANGED <<current_proc, procs, kmain, mem, regs, sp>>
  BY Zenon DEF TakeTrap
<1>2. sstatus'.SPP = FALSE
  <2>1. sstatus'.SPP = (mode = "S")
    BY Current, Zenon DEF TakeTrap, Sstatus
  <2> QED
    BY <2>1
<1>3. current_proc # Idle /\ procs[p].state = "RUNNABLE"
  BY Current, Zenon
<1>4. InHart(p) /\ InHart(p)'
  BY <1>1, <1>2, SMT DEF InHart
<1>5. mem[p][1] = NoFrame /\ mem[p][2] = NoFrame
  BY <1>3, <1>4, Zenon DEF Cleared, ClearedHere
<1>6. ClearedAway' /\ \A q \in Procs \ {p} : Life(q)' = Life(q) /\ View(q)' = View(q)
  BY <1>1, OthersSame, Zenon
<1>7. ClearedHere'
  BY <1>1, <1>5, SMT DEF ClearedHere
<1>8. /\ Life(p) = "user" /\ View(p) = HartView
      /\ Life(p)' = (IF cause = "ecall" THEN "calling" ELSE "user") /\ View(p)' = HartView'
  BY <1>1, <1>3, <1>4, <1>5, SeenInHart, SMT
<1>9. HartView' = HartView
  BY <1>1, SMT DEF HartView
<1>10. Running = p /\ Running' = Idle
  BY <1>1, SMT DEF Running
<1>11. UNCHANGED Views
  BY <1>6, <1>8, <1>9, OneSeen, Zenon
<1>12. CASE cause = "ecall"
  BY <1>6, <1>7, <1>8, <1>10, <1>11, <1>12, OneSeen, Zenon DEF Cleared, Machine!Call
<1>13. CASE cause # "ecall"
  BY <1>6, <1>7, <1>8, <1>10, <1>11, <1>13, OneSeen, Zenon DEF Cleared, Machine!Interrupted
<1> QED
  BY <1>12, <1>13

\* A user instruction.
LEMMA StepSeen ==
  ASSUME IInv, Cleared, IInv', UserStep, NEW p \in Procs, p = current_proc
  PROVE  Cleared' /\ Machine!Step(p)
<1>1. mode = "U" /\ mode' = "U" /\ UNCHANGED <<current_proc, procs, kmain, mem, sepc, sstatus, scause>>
  BY Zenon DEF UserStep
<1>2. current_proc # Idle /\ procs[p].state = "RUNNABLE"
  BY Current, Zenon
<1>3. InHart(p) /\ InHart(p)'
  BY <1>1, SMT DEF InHart
<1>4. mem[p][1] = NoFrame /\ mem[p][2] = NoFrame
  BY <1>2, <1>3, Zenon DEF Cleared, ClearedHere
<1>5. ClearedAway' /\ \A q \in Procs \ {p} : Life(q)' = Life(q) /\ View(q)' = View(q)
  BY <1>1, OthersSame, Zenon
<1>6. ClearedHere'
  BY <1>1, <1>4, SMT DEF ClearedHere
<1>7. Life(p) = "user" /\ Life(p)' = "user" /\ View(p)' = HartView'
  BY <1>1, <1>2, <1>3, <1>4, SeenInHart, SMT
<1>8. HartView' \in Machine!Views
  <2>1. pc' \in UserPcs /\ regs' \in Regs /\ sp' \in Sps
    BY <1>1, Zenon DEF IInv, TypeOK, InUser
  <2> QED
    BY <1>1, <2>1, SMT DEF HartView, Machine!Views, Regs
<1>9. Running = p /\ UNCHANGED Running
  BY <1>1, SMT DEF Running
<1>10. Views'[p] = View(p)' /\ Views' = [Views EXCEPT ![p] = View(p)'] /\ UNCHANGED Lives
  BY <1>5, <1>7, OneSeen, Zenon
<1> QED
  BY <1>5, <1>6, <1>7, <1>8, <1>9, <1>10, Zenon DEF Cleared, Machine!Step

\* kernel_entry moves the user state into the trap frame; from the kernel it
\* saves kernel state, below the frames of the system call.
LEMMA EntryUnseen ==
  ASSUME IInv, Cleared, kernel_entry
  PROVE  Cleared' /\ UNCHANGED seenVars
<1> DEFINE from == IF sscratch # Zero THEN sscratch ELSE sp
           held == IF sscratch # Zero THEN sp ELSE sscratch
           f == [kind |-> "trap", regs |-> regs, sp |-> IF sstatus.SPP THEN from ELSE held]
<1>1. /\ mode = "S" /\ pc = "kernel_entry" /\ mode' = "S" /\ pc' = "handle_trap"
      /\ mem' = Push(mem, from, f)
      /\ UNCHANGED <<sepc, scause, sstatus, procs, current_proc, kmain>>
  BY Zenon DEF kernel_entry
<1>2. f \in Frames
  <2>1. (IF sstatus.SPP THEN from ELSE held) \in Sps /\ regs \in Regs
    BY Zenon DEF IInv, TypeOK
  <2> QED
    BY <2>1, TrapFrame, Zenon
<1>3. CASE sstatus.SPP = TRUE
  <2>1. from = sp /\ Interruptible(sepc, sp)
    BY <1>1, <1>3, SMTT(30) DEF IInv, InTrap
  <2>2. /\ current_proc # Idle => InCall(current_proc) /\ sp = Activation(current_proc)
        /\ sp.stack = Home(current_proc) /\ sp.depth < DEPTH
    BY <2>1, InterruptibleSp, Current, Zenon DEF Interruptible, Returns
  <2>3. current_proc # Idle => sp.depth >= 2
    BY <2>2, SMT DEF Activation, Depth
  <2> HIDE DEF f
  <2>4. \A p \in Procs : mem'[p][1] = mem[p][1] /\ mem'[p][2] = mem[p][2]
    BY <1>1, <1>2, <2>1, <2>2, <2>3, PushDeep, Current, Zenon
  <2>5. ~ InHart(current_proc) /\ ~ InHart(current_proc)'
    BY <1>1, <1>3, SMT DEF InHart
  <2>6. ~ (sstatus'.SPP = FALSE)
    BY <1>1, <1>3, SMT
  <2> QED
    BY <1>1, <2>2, <2>4, <2>5, <2>6, QuietStep, Zenon
<1>4. CASE sstatus.SPP = FALSE
  <2>1. current_proc # Idle /\ sscratch = Top(current_proc)
    BY <1>1, <1>4, SMTT(30) DEF IInv, InTrap
  <2>2. PICK p \in Procs : p = current_proc /\ procs[p].state = "RUNNABLE"
    BY <2>1, Current, Zenon
  <2>3. from = Top(p) /\ held = sp /\ Top(p) \in Sps /\ Top(p).stack = p /\ Top(p).depth = 0
    BY <2>1, <2>2, Tops, Current, SMT DEF Top, Zero, PSlots
  <2>4. f.kind = "trap" /\ f.regs = regs /\ f.sp = sp
    BY <1>4, <2>3, SMT
  <2> HIDE DEF f
  <2>5. /\ \A q \in Procs \ {p} : mem'[q][1] = mem[q][1] /\ mem'[q][2] = mem[q][2]
        /\ mem'[p][1] = f /\ mem'[p][2] = mem[p][2]
    <3>1. Top(p).depth < DEPTH /\ Top(p).depth + 1 = 1 /\ Top(p).depth + 1 # 2
      BY <2>3, TrapAssumption, SMT
    <3> QED
      BY <1>1, <1>2, <2>1, <2>2, <2>3, <3>1, PushTop, Zenon
  <2>6. InHart(p)
    BY <1>1, <1>4, <2>2, SMT DEF InHart
  <2>7. mem[p][2] = NoFrame
    BY <2>1, <2>2, <2>6, Zenon DEF Cleared, ClearedHere
  <2>8. Saved(p)'
    BY <1>1, <2>2, <2>4, <2>5, <2>7, SMT DEF Saved
  <2>9. Life(p)' = Life(p)
    BY <1>1, <2>2, <2>6, <2>7, <2>8, SeenInHart, SeenSaved, SMTT(30)
  <2>10. View(p)' = View(p)
    <3>1. View(p) = HartView /\ View(p)' = SavedView(p, sepc)'
      BY <1>1, <2>2, <2>6, <2>7, <2>8, SeenInHart, SeenSaved, SMTT(30)
    <3>2. SavedView(p, sepc)' = HartView
      BY <1>1, <2>4, <2>5, SMTT(30) DEF SavedView, HartView
    <3> QED
      BY <3>1, <3>2
  <2>11. ClearedAway' /\ \A q \in Procs \ {p} : Life(q)' = Life(q) /\ View(q)' = View(q)
    BY <1>1, <2>2, <2>5, OthersSame, Zenon
  <2>12. ClearedHere'
    BY <1>1, <2>2, <2>5, <2>7, SMT DEF ClearedHere, InHart
  <2> QED
    BY <1>1, <2>9, <2>10, <2>11, <2>12, NothingSeen, Zenon DEF Cleared
<1> QED
  BY <1>3, <1>4, Current, Zenon

\* handle_trap on an interrupt, or before the PANIC of an unexpected trap.
LEMMA HandleUnseen ==
  ASSUME IInv, Cleared, HandleInterrupt \/ HandleFault
  PROVE  Cleared' /\ UNCHANGED seenVars
<1>1. /\ mode = "S" /\ pc = "handle_trap" /\ mode' = "S" /\ pc' \in {"trap_exit", "panic"}
      /\ scause \in {"interrupt", "fault"}
      /\ UNCHANGED <<sepc, scause, sstatus, procs, current_proc, kmain, mem>>
  BY SMT DEF HandleInterrupt, HandleFault
<1>2. CASE sstatus.SPP = TRUE
  <2>1. Interruptible(sepc, Up(sp))
    BY <1>1, <1>2, SMT DEF IInv, InTrap
  <2>2. current_proc # Idle => InCall(current_proc)
    BY <2>1, Zenon DEF Interruptible, Returns
  <2>3. ~ InHart(current_proc) /\ ~ InHart(current_proc)'
    BY <1>1, SMT DEF InHart
  <2>4. ~ (sstatus'.SPP = FALSE) /\ pc' # "user_entry"
    BY <1>1, <1>2, SMT
  <2> QED
    BY <1>1, <2>2, <2>3, <2>4, QuietStep, Zenon
<1>3. CASE sstatus.SPP = FALSE
  <2>1. current_proc # Idle /\ mem[current_proc][1].kind = "trap"
    BY <1>1, <1>3, SMT DEF IInv, InTrap
  <2>2. PICK p \in Procs : p = current_proc /\ procs[p].state = "RUNNABLE"
    BY <2>1, Current, Zenon
  <2>3. mem[p][2] = NoFrame
    BY <1>1, <1>3, <2>1, <2>2, Zenon DEF Cleared, ClearedHere
  <2>4. Saved(p) /\ Saved(p)'
    BY <1>1, <2>1, <2>2, <2>3, SMT DEF Saved
  <2>5. Life(p)' = Life(p)
    BY <1>1, <2>2, <2>4, SeenSaved, SMT
  <2>6. View(p)' = View(p)
    BY <1>1, <2>2, <2>4, SeenSaved, SMTT(30) DEF SavedView
  <2>7. ClearedAway' /\ \A q \in Procs \ {p} : Life(q)' = Life(q) /\ View(q)' = View(q)
    BY <1>1, <2>2, OthersSame, Zenon
  <2>8. ClearedHere'
    BY <1>1, <2>2, <2>3, SMT DEF ClearedHere, InHart
  <2> QED
    BY <1>1, <2>5, <2>6, <2>7, <2>8, NothingSeen, Zenon DEF Cleared
<1> QED
  BY <1>2, <1>3, Current, Zenon

\* handle_trap moves the address of the ecall from sepc to its own frame.
LEMMA EcallUnseen ==
  ASSUME IInv, Cleared, HandleEcall
  PROVE  Cleared' /\ UNCHANGED seenVars
<1> DEFINE f == [kind |-> "handle_trap", user_pc |-> sepc]
<1>1. /\ mode = "S" /\ pc = "handle_trap" /\ mode' = "S" /\ pc' = "handle_syscall"
      /\ scause = "ecall" /\ mem' = Push(mem, sp, f)
      /\ UNCHANGED <<sepc, scause, sstatus, procs, current_proc, kmain>>
  BY Zenon DEF HandleEcall
<1>2. sstatus.SPP = FALSE
  <2>1. sstatus.SPP = TRUE => scause = "interrupt"
    BY <1>1, Zenon DEF IInv, InTrap
  <2>2. scause # "interrupt"
    BY <1>1
  <2> QED
    BY <2>1, <2>2, Current, Zenon
<1>3. /\ current_proc # Idle /\ mem[current_proc][1].kind = "trap"
      /\ sp = Down(Top(current_proc)) /\ sepc \in UserPcs
  BY <1>1, <1>2, SMTT(30) DEF IInv, InTrap
<1>4. PICK p \in Procs : p = current_proc /\ procs[p].state = "RUNNABLE"
  BY <1>3, Current, Zenon
<1>5. sp.stack = p /\ sp.depth = 1 /\ sp.depth < DEPTH /\ sp.depth + 1 = 2 /\ sp.depth + 1 # 1
  BY <1>3, <1>4, TrapAssumption, SMT DEF Down, Top
<1>6. f \in Frames /\ f.kind = "handle_trap" /\ f.user_pc = sepc
  BY <1>3, SMTT(30) DEF Frames
<1> HIDE DEF f
<1>7. /\ \A q \in Procs \ {p} : mem'[q][1] = mem[q][1] /\ mem'[q][2] = mem[q][2]
      /\ mem'[p][1] = mem[p][1] /\ mem'[p][2] = f
  BY <1>1, <1>3, <1>4, <1>5, <1>6, PushTop, Current, ZenonT(60)
<1>8. mem[p][2] = NoFrame
  BY <1>1, <1>2, <1>3, <1>4, Zenon DEF Cleared, ClearedHere
<1>9. Saved(p) /\ InCall(p)' /\ ~ InHart(p)'
  BY <1>1, <1>3, <1>4, <1>6, <1>7, <1>8, SMTT(30) DEF Saved, InCall, InHart
<1>10. Life(p)' = Life(p)
  BY <1>1, <1>4, <1>9, SeenSaved, SeenCalling, Zenon
<1>11. View(p)' = View(p)
  <2>1. View(p) = SavedView(p, sepc) /\ View(p)' = SavedView(p, mem[p][2].user_pc)'
    BY <1>1, <1>4, <1>9, SeenSaved, SeenCalling, ZenonT(60)
  <2>2. SavedView(p, mem[p][2].user_pc)' = SavedView(p, sepc)
    BY <1>6, <1>7, SMT DEF SavedView
  <2> QED
    BY <2>1, <2>2
<1>12. ClearedAway' /\ \A q \in Procs \ {p} : Life(q)' = Life(q) /\ View(q)' = View(q)
  BY <1>1, <1>4, <1>7, OthersSame, Zenon
<1>13. ClearedHere'
  BY <1>1, SMT DEF ClearedHere, InHart
<1> QED
  BY <1>1, <1>10, <1>11, <1>12, <1>13, NothingSeen, Zenon DEF Cleared
-----------------------------------------------------------------------------
(* The way back. *)

\* The second half of kernel_entry gives the user program its state back.
LEMMA ExitSeen ==
  ASSUME IInv, Cleared, trap_exit
  PROVE  Cleared' /\ (UNCHANGED seenVars \/ \E p \in Procs : Machine!Resume(p))
<1>1. /\ mode = "S" /\ pc = "trap_exit" /\ pc' = sepc /\ mem' = Pop(mem, sp)
      /\ regs' = Frame(sp).regs
      /\ UNCHANGED <<sepc, scause, procs, current_proc, kmain>>
  BY Zenon DEF trap_exit, Sret
<1>2. CASE sstatus.SPP = TRUE
  <2>1. sp.depth > 0 /\ Interruptible(sepc, Up(sp))
    BY <1>1, <1>2, Zenon DEF IInv, InTrap
  <2>2. Up(sp).stack = sp.stack /\ Up(sp).depth = sp.depth - 1
    BY Current, DownUp, Zenon
  <2>3. /\ sp.stack = Home(current_proc)
        /\ current_proc # Idle => InCall(current_proc) /\ Up(sp) = Activation(current_proc)
    BY <2>1, <2>2, InterruptibleSp, Current, Zenon DEF Interruptible, Returns
  <2>4. current_proc # Idle => sp.depth >= 3
    BY <2>2, <2>3, Current, SMT DEF Activation, Depth, Sps
  <2>5. \A p \in Procs : mem'[p][1] = mem[p][1] /\ mem'[p][2] = mem[p][2]
    BY <1>1, <2>1, <2>3, <2>4, PopDeep, Current, Zenon
  <2>6. mode' = "S" /\ pc' \in {"kernel_main", "window", "panic"}
    BY <1>1, <1>2, <2>1, SMT DEF trap_exit, Sret, Interruptible
  <2>7. ~ InHart(current_proc) /\ ~ InHart(current_proc)'
    BY <1>1, <2>6, SMT DEF InHart
  <2>8. Cleared' /\ UNCHANGED seenVars
    BY <1>1, <2>3, <2>5, <2>6, <2>7, QuietStep, Zenon
  <2> QED
    BY <2>8
<1>3. CASE sstatus.SPP = FALSE
  <2>1. current_proc # Idle /\ mem[current_proc][1].kind = "trap" /\ sp = Down(Top(current_proc))
    BY <1>1, <1>3, SMTT(30) DEF IInv, InTrap
  <2>2. PICK p \in Procs : p = current_proc /\ procs[p].state = "RUNNABLE"
    BY <2>1, Current, Zenon
  <2>3. sp.stack = p /\ sp.depth = 1 /\ sp.depth > 0 /\ sp.depth # 2
    BY <2>1, <2>2, SMT DEF Down, Top
  <2>4. mode' = "U" /\ sp' = mem[p][1].sp /\ regs' = mem[p][1].regs
    BY <1>1, <1>3, <2>3, SMT DEF trap_exit, Sret, Frame
  <2>5. mem[p][2] = NoFrame
    BY <1>1, <1>3, <2>1, <2>2, Zenon DEF Cleared, ClearedHere
  <2>6. /\ \A q \in Procs \ {p} : mem'[q][1] = mem[q][1] /\ mem'[q][2] = mem[q][2]
        /\ mem'[p][1] = NoFrame /\ mem'[p][2] = NoFrame
    <3>1. \A k \in Stacks : \A d \in 1 .. DEPTH :
            mem'[k][d] = IF k = sp.stack /\ d = sp.depth THEN NoFrame ELSE mem[k][d]
      BY <1>1, <2>2, <2>3, Current, PopFrame
    <3> QED
      BY <2>2, <2>3, <2>5, <3>1, Current, Zenon
  <2>7. Saved(p) /\ InHart(p)'
    BY <1>1, <2>1, <2>2, <2>4, <2>5, SMT DEF Saved, InHart
  <2>8. Life(p) = "user" /\ Life(p)' = "user"
    BY <1>1, <2>2, <2>4, <2>6, <2>7, SeenSaved, SeenInHart, Zenon
  <2>9. View(p)' = View(p)
    <3>1. View(p) = SavedView(p, sepc) /\ View(p)' = HartView'
      BY <1>1, <2>2, <2>6, <2>7, SeenSaved, SeenInHart, Zenon
    <3>2. HartView' = SavedView(p, sepc)
      BY <1>1, <2>4, SMT DEF HartView, SavedView
    <3> QED
      BY <3>1, <3>2
  <2>10. ClearedAway' /\ \A q \in Procs \ {p} : Life(q)' = Life(q) /\ View(q)' = View(q)
    BY <1>1, <2>2, <2>6, OthersSame, Zenon
  <2>11. ClearedHere'
    BY <1>1, <2>2, <2>4, <2>6, SMT DEF ClearedHere
  <2>12. Running = Idle /\ Running' = p
    BY <1>1, <2>2, <2>4, SMT DEF Running
  <2>13. Machine!Resume(p)
    BY <2>8, <2>9, <2>10, <2>12, OneSeen, Zenon DEF Machine!Resume
  <2> QED
    BY <2>10, <2>11, <2>13, Zenon DEF Cleared
<1> QED
  BY <1>2, <1>3, Current, Zenon

\* user_entry starts the program at its first instruction.
LEMMA StartSeen ==
  ASSUME IInv, Cleared, IInv', user_entry
  PROVE  Cleared' /\ \E p \in Procs : Machine!Start(p)
<1>1. /\ mode = "S" /\ pc = "user_entry" /\ mode' = "U" /\ pc' = USER_BASE
      /\ UNCHANGED <<scause, procs, current_proc, kmain, mem>>
  BY SMT DEF user_entry, Sret
<1>2. current_proc # Idle
  BY <1>1, Zenon DEF IInv, InKernel
<1>3. PICK p \in Procs : p = current_proc /\ procs[p].state = "RUNNABLE"
  BY <1>2, Current, Zenon
<1>4. mem[p][1] = NoFrame /\ mem[p][2] = NoFrame
  BY <1>1, <1>2, <1>3, Zenon DEF Cleared, ClearedHere
<1>5. mem[p][1].kind # "trap" /\ ~ InHart(p) /\ InHart(p)'
  BY <1>1, <1>3, <1>4, SMT DEF NoFrame, InHart
<1>6. Life(p) = "unborn" /\ Life(p)' = "user" /\ View(p)' = HartView'
  BY <1>1, <1>3, <1>4, <1>5, SeenUnborn, SeenInHart, SMTT(60)
<1>7. HartView' \in Machine!Views /\ HartView'.pc = USER_BASE
  <2>1. pc' \in UserPcs /\ regs' \in Regs /\ sp' \in Sps
    BY <1>1, Zenon DEF IInv, TypeOK, InUser
  <2> QED
    BY <1>1, <2>1, SMT DEF HartView, Machine!Views, Regs
<1>8. ClearedAway' /\ \A q \in Procs \ {p} : Life(q)' = Life(q) /\ View(q)' = View(q)
  BY <1>1, <1>3, OthersSame, Zenon
<1>9. ClearedHere'
  BY <1>1, <1>3, <1>4, SMT DEF ClearedHere
<1>10. Running = Idle /\ Running' = p
  BY <1>1, <1>3, SMT DEF Running
<1>11. Machine!Start(p)
  <2>1. /\ Lives' = [Lives EXCEPT ![p] = "user"] /\ Lives[p] = "unborn"
        /\ Views' = [Views EXCEPT ![p] = HartView'] /\ Views'[p] = HartView'
    BY <1>6, <1>8, OneSeen, Zenon
  <2> QED
    BY <1>7, <1>10, <2>1, Zenon DEF Machine!Start
<1> QED
  BY <1>8, <1>9, <1>11, Zenon DEF Cleared

\* Two fields of a record in a function.
LEMMA RewrittenAt ==
  ASSUME NEW S, NEW f, f = [q \in S |-> f[q]], NEW p \in S, NEW r, NEW w
  PROVE  [f EXCEPT ![p].a = r, ![p].pc = w]
           = [f EXCEPT ![p] = [[f[p] EXCEPT !.a = r] EXCEPT !.pc = w]]
OBVIOUS

\* handle_syscall's return gives the program its result and steps over the ecall.
LEMMA ReturnSeen ==
  ASSUME IInv, Cleared, IInv', SysReturn
  PROVE  Cleared' /\ \E p \in Procs : Machine!Return(p)
<1>1. /\ mode = "S" /\ pc = "handle_syscall" /\ mode' = "S" /\ pc' = "trap_exit"
      /\ sepc' = After[Frame(sp).user_pc]
      /\ UNCHANGED <<scause, procs, current_proc, kmain>>
  BY Zenon DEF SysReturn, InSyscall
<1>2. /\ current_proc # Idle /\ InCall(current_proc)
      /\ sp = [stack |-> current_proc, depth |-> 2]
  BY <1>1, Zenon DEF IInv, InKernel
<1>3. PICK p \in Procs : p = current_proc /\ procs[p].state = "RUNNABLE"
  BY <1>2, Current, Zenon
<1>4. sepc' = After[mem[p][2].user_pc]
  BY <1>1, <1>2, <1>3, SMT DEF Frame
<1>5. /\ \A q \in Procs \ {p} : mem'[q][1] = mem[q][1] /\ mem'[q][2] = mem[q][2]
      /\ mem'[p][1].kind = "trap" /\ mem'[p][2] = NoFrame
      /\ mem'[p][1].sp = mem[p][1].sp /\ mem'[p][1].regs.s = mem[p][1].regs.s
      /\ mem'[p][1].regs.a \in RegVals
  <2>1. \A q \in Procs \ {p} : q \in PSlots \ {Idle, current_proc}
    BY <1>3, Current, Zenon
  <2>2. 1 \in {1, 2} /\ 2 \in {1, 2}
    OBVIOUS
  <2> QED
    BY <1>3, <2>1, <2>2, CallReturned, Zenon
<1>6. ~ InHart(p) /\ InCall(p) /\ Saved(p)'
  BY <1>1, <1>2, <1>3, <1>5, SMT DEF InHart, Saved
<1>7. Life(p) = "calling" /\ Life(p)' = "user"
  BY <1>1, <1>3, <1>6, SeenCalling, SeenSaved, Zenon
<1>8. View(p) = SavedView(p, mem[p][2].user_pc) /\ View(p)' = SavedView(p, sepc)'
  BY <1>1, <1>3, <1>6, SeenCalling, SeenSaved, Zenon
<1>9. View(p)' = [[View(p) EXCEPT !.a = mem'[p][1].regs.a] EXCEPT !.pc = After[View(p).pc]]
  <2>1. View(p).pc = mem[p][2].user_pc
    BY <1>8, SMTT(30) DEF SavedView
  <2>2. View(p)' = [pc |-> After[View(p).pc], a |-> mem'[p][1].regs.a,
                    s |-> mem[p][1].regs.s, sp |-> mem[p][1].sp]
    BY <1>4, <1>5, <1>8, <2>1, SMTT(30) DEF SavedView
  <2>3. View(p) = [pc |-> mem[p][2].user_pc, a |-> mem[p][1].regs.a,
                   s |-> mem[p][1].regs.s, sp |-> mem[p][1].sp]
    BY <1>8, SMTT(30) DEF SavedView
  <2> DEFINE R == View(p)
             w == After[R.pc]
             r == mem'[p][1].regs.a
             u == mem[p][2].user_pc
             x == mem[p][1].regs.a
             y == mem[p][1].regs.s
             z == mem[p][1].sp
  <2>4. R = [pc |-> u, a |-> x, s |-> y, sp |-> z] /\ R' = [pc |-> w, a |-> r, s |-> y, sp |-> z]
    BY <2>2, <2>3, SMTT(30)
  <2>5. SUFFICES [[R EXCEPT !.a = r] EXCEPT !.pc = w] = R'
    OBVIOUS
  <2> HIDE DEF R, w, r, u, x, y, z
  <2>6. [R EXCEPT !.a = r] = [pc |-> u, a |-> r, s |-> y, sp |-> z]
    BY <2>4
  <2>7. [[pc |-> u, a |-> r, s |-> y, sp |-> z] EXCEPT !.pc = w] = R'
    BY <2>4
  <2> QED
    BY <2>6, <2>7, Zenon
<1>10. ClearedAway' /\ \A q \in Procs \ {p} : Life(q)' = Life(q) /\ View(q)' = View(q)
  BY <1>1, <1>3, <1>5, OthersSame, Zenon
<1>11. ClearedHere'
  BY <1>1, <1>3, <1>5, SMT DEF ClearedHere, InHart
<1>12. Running = Idle /\ UNCHANGED Running
  BY <1>1, SMT DEF Running
<1>13. Machine!Return(p)
  <2> DEFINE r == mem'[p][1].regs.a
             V == View(p)
             W == View(p)'
  <2>1. /\ Lives' = [Lives EXCEPT ![p] = "user"] /\ Lives[p] = "calling"
        /\ Views' = [Views EXCEPT ![p] = W] /\ Views[p] = V
        /\ W = [[V EXCEPT !.a = r] EXCEPT !.pc = After[V.pc]]
    BY <1>7, <1>9, <1>10, OneSeen, Zenon
  <2>2. Views = [q \in Procs |-> Views[q]]
    BY DEF Views
  <2>3. r \in RegVals
    BY <1>5
  <2> HIDE DEF r, V, W
  <2>4. Views' = [Views EXCEPT ![p].a = r, ![p].pc = After[Views[p].pc]]
    BY <2>1, <2>2, RewrittenAt, ZenonT(40)
  <2> QED
    BY <1>12, <2>1, <2>3, <2>4, Zenon DEF Machine!Return
<1> QED
  BY <1>10, <1>11, <1>13, Zenon DEF Cleared

\* create_process makes the next process runnable, before its first instruction.
LEMMA CreatedUnseen ==
  ASSUME IInv, Cleared, create_process
  PROVE  Cleared' /\ UNCHANGED seenVars
<1>1. /\ mode = "S" /\ mode' = "S" /\ current_proc' = current_proc /\ kmain' = kmain + 1
  BY Zenon DEF create_process, hartVars
<1>2. /\ kmain \in PSlots /\ current_proc = Idle
      /\ procs'[kmain].state = "RUNNABLE" /\ mem'[kmain][1].kind = "switch"
      /\ \A p \in PSlots \ {kmain} : procs'[p] = procs[p]
      /\ \A p \in PSlots : mem'[p][2] = mem[p][2] /\ (p # kmain => mem'[p][1] = mem[p][1])
  BY ProcessCreated
<1>3. \A p \in Procs : p \in Nat
  BY SMT DEF Procs, PSlots
<1>4. \A p \in Procs : p # current_proc /\ p # current_proc'
  BY <1>1, <1>2, Current, Zenon
<1>5. ASSUME NEW p \in Procs, p # kmain
      PROVE  /\ Life(p)' = Life(p) /\ View(p)' = View(p)
             /\ mem'[p][1] = mem[p][1] /\ mem'[p][2] = mem[p][2] /\ procs'[p] = procs[p]
             /\ (p >= kmain)' => p >= kmain
  <2>1. mem'[p][1] = mem[p][1] /\ mem'[p][2] = mem[p][2] /\ procs'[p] = procs[p]
    BY <1>2, <1>5, Current, Zenon
  <2>2. p >= kmain <=> (p >= kmain)'
    BY <1>1, <1>2, <1>3, <1>5, SMT DEF PSlots
  <2>3. ~ InHart(p) /\ ~ InHart(p)'
    BY <1>4, Zenon DEF InHart
  <2>4. CASE procs[p].state = "UNUSED"
    BY <2>1, <2>2, <2>4, SeenUnused, Zenon DEF Machine!Blank
  <2>5. CASE procs[p].state = "RUNNABLE" /\ mem[p][1].kind # "trap"
    BY <2>1, <2>2, <2>3, <2>5, SeenUnborn, Zenon DEF Machine!Blank
  <2>6. CASE procs[p].state = "RUNNABLE" /\ mem[p][1].kind = "trap"
    <3>1. Parked(p)
      <4>1. "trap" # "switch"
        OBVIOUS
      <4> QED
        BY <1>4, <2>6, <4>1, Current, Zenon DEF IInv, Asleep, Fresh
    <3>2. InCall(p) /\ InCall(p)'
      BY <2>1, <3>1, Current, Zenon DEF Parked, Returns, InCall
    <3> QED
      BY <2>1, <2>2, <2>3, <2>6, <3>2, SeenCalling, Zenon DEF SavedView
  <2> QED
    BY <2>1, <2>2, <2>4, <2>5, <2>6, Current, Zenon
<1>6. ASSUME NEW p \in Procs, p = kmain
      PROVE  /\ Life(p)' = Life(p) /\ View(p)' = View(p)
             /\ mem'[p][2] = NoFrame /\ ~ (p >= kmain)'
  <2>1. p >= kmain /\ ~ (p >= kmain)'
    BY <1>1, <1>3, <1>6, SMT
  <2>2. procs[p].state = "UNUSED" /\ mem[p][2] = NoFrame
    BY <2>1, Zenon DEF Cleared, ClearedAway
  <2>3. procs'[p].state = "RUNNABLE" /\ mem'[p][1].kind # "trap" /\ ~ InHart(p)'
    <3>1. "switch" # "trap"
      OBVIOUS
    <3> QED
      BY <1>2, <1>4, <1>6, <3>1, Zenon DEF InHart
  <2>4. mem'[p][2] = NoFrame
    BY <1>2, <1>6, <2>2, Current, Zenon
  <2> QED
    BY <2>1, <2>2, <2>3, <2>4, SeenUnused, SeenUnborn, SMT
<1>7. ClearedAway'
  <2>1. \A p \in Procs : p # kmain /\ Fresh(p)' => Fresh(p)
    BY <1>5, Zenon DEF Fresh
  <2>2. \A p \in Procs : (p >= kmain)' =>
          (procs[p].state = "UNUSED" /\ mem[p][1] = NoFrame /\ mem[p][2] = NoFrame)'
    BY <1>5, <1>6, Zenon DEF Cleared, ClearedAway
  <2>3. \A p \in Procs : (procs[p].state = "RUNNABLE" /\ Fresh(p) => mem[p][2] = NoFrame)'
    BY <1>4, <1>5, <1>6, <2>1, Zenon DEF Cleared, ClearedAway
  <2> QED
    BY <2>2, <2>3, Zenon DEF ClearedAway
<1>8. ClearedHere'
  BY <1>1, <1>2, Zenon DEF ClearedHere
<1> QED
  BY <1>1, <1>5, <1>6, <1>7, <1>8, NothingSeen, Zenon DEF Cleared
-----------------------------------------------------------------------------
(* yield.  Whoever sleeps looks as it did when it went to sleep. *)

\* The process switched to looks as it did asleep, whether it is in a system call
\* or has not begun; the one switched from stays in its call.
LEMMA SwitchUnseen ==
  ASSUME IInv, Cleared, pc # "kernel_entry",
         NEW ps, NEW next, NEW ret, MaySwitch(ps, next, ret), Switch(ps, next, ret)
  PROVE  /\ Cleared' /\ mode = "S" /\ mode' = "S" /\ kmain' = kmain /\ current_proc' # current_proc
         /\ \A p \in Procs \ {current_proc} : Life(p)' = Life(p) /\ View(p)' = View(p)
         /\ \A p \in Procs : procs'[p].state = ps[p].state
         /\ \A p \in Procs : p = current_proc /\ ps[p].state = "RUNNABLE" =>
              Life(p)' = Life(p) /\ View(p)' = View(p)
<1>1. /\ mode = "S" /\ next \in PSlots \ {current_proc}
      /\ \A p \in PSlots \ {current_proc} : ps[p] = procs[p]
      /\ next = Idle \/ ps[next].state = "RUNNABLE"
      /\ current_proc # Idle /\ ps[current_proc].state = "RUNNABLE" => InCall(current_proc)
  BY Zenon DEF MaySwitch
<1>2. mode' = "S" /\ kmain' = kmain
  BY <1>1, Zenon DEF Switch
<1>3. /\ current_proc' = next
      /\ pc' = IF Parked(next) THEN "switched" ELSE "user_entry"
      /\ \A p \in PSlots : procs'[p].state = ps[p].state
      /\ \A p \in PSlots \ {current_proc} : procs'[p] = procs[p]
      /\ \A p \in PSlots \ {Idle} : \A d \in {1, 2} :
           mem'[p][d] = IF p = next /\ ~ Parked(p) /\ d = 1 THEN NoFrame ELSE mem[p][d]
  BY Switched, SMTT(30)
<1>4. /\ \A p \in Procs : mem'[p][2] = mem[p][2]
      /\ \A p \in Procs : p # next \/ Parked(p) => mem'[p][1] = mem[p][1]
      /\ \A p \in Procs : p = next /\ ~ Parked(p) => mem'[p][1] = NoFrame
  <2>1. 1 \in {1, 2} /\ 2 \in {1, 2} /\ 2 # 1
    OBVIOUS
  <2>2. \A p \in Procs : p \in PSlots \ {Idle}
    BY Current, Zenon
  <2> QED
    BY <1>3, <2>1, <2>2, Zenon
<1>5. \A p \in Procs : ~ InHart(p) /\ ~ InHart(p)'
  <2>1. pc' # "kernel_entry" /\ mode # "U" /\ mode' # "U"
    BY <1>1, <1>2, <1>3, SMTT(30)
  <2> QED
    BY <2>1, Zenon DEF InHart
<1>6. ASSUME NEW p \in Procs, p = next
      PROVE  /\ Life(p)' = Life(p) /\ View(p)' = View(p)
             /\ (mem'[p][1] = NoFrame /\ mem'[p][2] = NoFrame) \/ Parked(p)
             /\ procs[p].state = "RUNNABLE"
  <2>1. procs[p].state = "RUNNABLE" /\ procs'[p] = procs[p] /\ p # current_proc
    BY <1>1, <1>3, <1>6, Current, Zenon
  <2>2. CASE Parked(p)
    <3>1. InCall(p) /\ InCall(p)'
      BY <1>4, <2>2, Current, Zenon DEF Parked, Returns, InCall
    <3>2. mem'[p][1] = mem[p][1] /\ mem'[p][2] = mem[p][2]
      BY <1>4, <2>2
    <3>3. Life(p)' = Life(p) /\ View(p)' = View(p)
      BY <1>5, <2>1, <3>1, <3>2, SeenCalling, Zenon DEF SavedView
    <3> QED
      BY <2>1, <2>2, <3>3
  <2>3. CASE ~ Parked(p)
    <3>1. Fresh(p)
      BY <2>1, <2>3, Current, Zenon DEF IInv, Asleep
    <3>2. mem'[p][1] = NoFrame /\ mem'[p][2] = NoFrame
      BY <1>4, <1>6, <2>1, <2>3, <3>1, Zenon DEF Cleared, ClearedAway
    <3>3. mem[p][1].kind # "trap" /\ mem'[p][1].kind # "trap"
      BY <3>1, <3>2, SMT DEF Fresh, NoFrame
    <3>4. Life(p)' = Life(p) /\ View(p)' = View(p)
      BY <1>5, <2>1, <3>3, SeenUnborn, Zenon DEF Machine!Blank
    <3> QED
      BY <2>1, <3>2, <3>4
  <2> QED
    BY <2>2, <2>3
<1>7. ASSUME NEW p \in Procs \ {current_proc}
      PROVE  Life(p)' = Life(p) /\ View(p)' = View(p)
  <2>1. CASE p = next
    BY <1>6, <2>1
  <2>2. CASE p # next
    <3>1. procs'[p] = procs[p] /\ mem'[p][1] = mem[p][1] /\ mem'[p][2] = mem[p][2]
      BY <1>3, <1>4, <2>2, Current, Zenon
    <3> QED
      BY <1>2, <1>3, <2>2, <3>1, Elsewhere, Zenon
  <2> QED
    BY <2>1, <2>2
<1>8. ASSUME NEW p \in Procs, p = current_proc, ps[p].state = "RUNNABLE"
      PROVE  /\ Life(p)' = Life(p) /\ View(p)' = View(p)
             /\ ~ Fresh(p)'
  <2>1. /\ InCall(p) /\ procs[p].state = "RUNNABLE" /\ procs'[p].state = "RUNNABLE"
        /\ mem'[p][1] = mem[p][1] /\ mem'[p][2] = mem[p][2]
    BY <1>1, <1>3, <1>4, <1>8, Current, Zenon
  <2>2. InCall(p)'
    BY <2>1, Zenon DEF InCall
  <2>3. ~ Fresh(p)'
    BY <2>1, SMT DEF InCall, Fresh
  <2>4. Life(p)' = Life(p) /\ View(p)' = View(p)
    BY <1>5, <2>1, <2>2, SeenCalling, Zenon DEF SavedView
  <2> QED
    BY <2>3, <2>4
<1>9. ClearedAway'
  <2>1. ASSUME NEW p \in Procs, (p >= kmain)'
        PROVE  (procs[p].state = "UNUSED" /\ mem[p][1] = NoFrame /\ mem[p][2] = NoFrame)'
    <3>1. procs[p].state = "UNUSED" /\ mem[p][1] = NoFrame /\ mem[p][2] = NoFrame
      BY <1>2, <2>1, Zenon DEF Cleared, ClearedAway
    <3>2. "UNUSED" # "RUNNABLE"
      OBVIOUS
    <3>3. p # current_proc /\ p # next
      BY <1>6, <3>1, <3>2, Current, Zenon
    <3> QED
      BY <1>3, <1>4, <3>1, <3>3, Current, Zenon
  <2>2. ASSUME NEW p \in Procs \ {next}, (procs[p].state = "RUNNABLE" /\ Fresh(p))'
        PROVE  (mem[p][2] = NoFrame)'
    <3>1. p # current_proc
      BY <1>3, <1>8, <2>2, Current, Zenon
    <3>2. procs[p].state = "RUNNABLE" /\ Fresh(p)
      BY <1>3, <1>4, <2>2, <3>1, Current, Zenon DEF Fresh
    <3> QED
      BY <1>4, <3>1, <3>2, Zenon DEF Cleared, ClearedAway
  <2> QED
    BY <1>3, <2>1, <2>2, Zenon DEF ClearedAway
<1>10. ClearedHere'
  <2>1. pc' \notin {"handle_trap", "trap_exit"}
    BY <1>3, SMT
  <2>2. ASSUME next # Idle, pc' = "user_entry"
        PROVE  mem'[next][1] = NoFrame /\ mem'[next][2] = NoFrame
    <3>1. next \in Procs
      BY <1>1, <2>2, Zenon DEF Procs
    <3>2. ~ Parked(next)
      BY <1>3, <2>2, SMT
    <3> QED
      BY <1>6, <3>1, <3>2
  <2>3. next # Idle => ~ InHart(next)'
    BY <1>1, <1>5, Zenon DEF Procs
  <2>4. current_proc' # Idle => ~ InHart(current_proc)'
    <3>1. pc' # "kernel_entry" /\ mode' # "U"
      BY <1>2, <1>3, SMT
    <3> QED
      BY <3>1, Zenon DEF InHart
  <2> QED
    BY <1>3, <2>1, <2>2, <2>4, Zenon DEF ClearedHere
<1> QED
  BY <1>1, <1>2, <1>3, <1>7, <1>8, <1>9, <1>10, Current, Zenon DEF Cleared

\* SYS_GETCHAR without input, seen by its program and by the others.
LEMMA GetcharUnseen ==
  ASSUME IInv, Cleared, SysGetchar
  PROVE  Cleared' /\ UNCHANGED seenVars
<1>1. CASE UNCHANGED vars
  BY <1>1, Stutter
<1>2. ASSUME NEW next, MaySwitch(procs, next, "handle_syscall"), Switch(procs, next, "handle_syscall")
      PROVE  Cleared' /\ UNCHANGED seenVars
  <2>1. pc # "kernel_entry"
    BY SMT DEF SysGetchar, InSyscall
  <2>2. \A p \in Procs : p = current_proc => procs[p].state = "RUNNABLE"
    BY Current, Zenon
  <2> QED
    BY <1>2, <2>1, <2>2, SwitchUnseen, NothingSeen, Zenon
<1> QED
  BY <1>1, <1>2, GetcharSwitches, Zenon

\* kernel_main's yield starts or continues a process, which cannot tell.
LEMMA KernelMainUnseen ==
  ASSUME IInv, Cleared, kernel_main_yield
  PROVE  Cleared' /\ UNCHANGED seenVars
<1>1. current_proc = Idle
  BY KernelMainSwitches
<1>2. ASSUME pc' = "panic", mode = "S", UNCHANGED <<mode, procs, current_proc, mem, kmain>>
      PROVE  Cleared' /\ UNCHANGED seenVars
  <2>1. mode' = "S" /\ pc' \notin {"handle_trap", "trap_exit", "user_entry"}
    BY <1>2, SMT
  <2>2. \A p \in Procs : mem'[p][1] = mem[p][1] /\ mem'[p][2] = mem[p][2]
    BY <1>2
  <2> QED
    BY <1>1, <1>2, <2>1, <2>2, QuietStep, Zenon
<1>3. ASSUME NEW next, MaySwitch(procs, next, "panic"), Switch(procs, next, "panic")
      PROVE  Cleared' /\ UNCHANGED seenVars
  <2>1. pc # "kernel_entry"
    BY SMT DEF kernel_main_yield
  <2>2. \A p \in Procs : p # current_proc
    BY <1>1, Current, Zenon
  <2> QED
    BY <1>3, <2>1, <2>2, SwitchUnseen, NothingSeen, Zenon
<1> QED
  BY <1>2, <1>3, KernelMainSwitches, Zenon

\* SYS_EXIT ends its process and no other.
LEMMA ExitedSeen ==
  ASSUME IInv, Cleared, SysExit
  PROVE  Cleared' /\ \E p \in Procs : Machine!Exit(p)
<1> DEFINE ps == [procs EXCEPT ![current_proc] = UnusedProc]
<1>1. /\ current_proc # Idle /\ ps[current_proc].state = "UNUSED"
      /\ \E next : MaySwitch(ps, next, "panic") /\ Switch(ps, next, "panic")
  BY ExitSwitches
<1> HIDE DEF ps
<1>2. PICK next : MaySwitch(ps, next, "panic") /\ Switch(ps, next, "panic")
  BY <1>1
<1>3. PICK p \in Procs : p = current_proc /\ procs[p].state = "RUNNABLE"
  BY <1>1, Current, Zenon
<1>4. mode = "S" /\ pc = "handle_syscall" /\ pc # "kernel_entry"
  BY SMT DEF SysExit, InSyscall
<1>5. /\ Cleared' /\ mode = "S" /\ mode' = "S" /\ kmain' = kmain
      /\ \A q \in Procs \ {p} : Life(q)' = Life(q) /\ View(q)' = View(q)
      /\ procs'[p].state = "UNUSED"
  BY <1>1, <1>2, <1>3, <1>4, SwitchUnseen, Zenon
<1>6. InCall(p) /\ ~ InHart(p)
  <2>1. InCall(p)
    BY <1>3, <1>4, Zenon DEF IInv, InKernel
  <2> QED
    BY <1>4, <2>1, SMT DEF InHart
<1>7. ~ (p >= kmain) /\ ~ (p >= kmain)'
  <2>1. "UNUSED" # "RUNNABLE"
    OBVIOUS
  <2> QED
    BY <1>3, <1>5, <2>1, Zenon DEF Cleared, ClearedAway
<1>8. Life(p) = "calling" /\ Life(p)' = "gone" /\ View(p)' = Machine!Blank'
  BY <1>3, <1>5, <1>6, <1>7, SeenCalling, SeenUnused, Zenon
<1>9. View(p)' = Machine!Blank
  BY <1>8 DEF Machine!Blank
<1>10. Running = Idle /\ UNCHANGED Running
  BY <1>5, SMT DEF Running
<1>11. Machine!Exit(p)
  BY <1>5, <1>8, <1>9, <1>10, OneSeen, Zenon DEF Machine!Exit
<1> QED
  BY <1>5, <1>11
-----------------------------------------------------------------------------
(* The refinement. *)

\* Every step of the kernel and of the processes is one of the user machine, or
\* one no program sees.
LEMMA NextSeen ==
  ASSUME IInv, Cleared, IInv', [Next]_vars
  PROVE  Cleared' /\ [Machine!Next]_seenVars
<1>1. CASE UNCHANGED vars
  BY <1>1, Stutter
<1>2. CASE (Ecall \/ Interrupt \/ Fault) /\ mode = "U"
  <2>1. PICK p \in Procs : p = current_proc
    BY <1>2, Current, Zenon DEF IInv, InUser
  <2>2. PICK cause \in {"ecall", "interrupt", "fault"} : TakeTrap(cause)
    BY <1>2, Zenon DEF Ecall, Interrupt, Fault
  <2>3. Cleared' /\ (Machine!Call(p) \/ Machine!Interrupted(p))
    BY <1>2, <2>1, <2>2, TrapSeen
  <2> QED
    BY <2>3, Zenon DEF Machine!Next
<1>3. CASE UserStep
  <2>1. PICK p \in Procs : p = current_proc
    BY <1>3, Current, Zenon DEF IInv, InUser, UserStep
  <2>2. Cleared' /\ Machine!Step(p)
    BY <1>3, <2>1, StepSeen
  <2> QED
    BY <2>2, Zenon DEF Machine!Next
<1>4. CASE trap_exit
  BY <1>4, ExitSeen, Zenon DEF Machine!Next
<1>5. CASE user_entry
  BY <1>5, StartSeen, Zenon DEF Machine!Next
<1>6. CASE SysReturn
  BY <1>6, ReturnSeen, Zenon DEF Machine!Next
<1>7. CASE SysExit
  BY <1>7, ExitedSeen, Zenon DEF Machine!Next
<1>8. CASE Interrupt /\ mode = "S"
  BY <1>8, NestedQuiet
<1>9. CASE kernel_entry
  BY <1>9, EntryUnseen
<1>10. CASE HandleInterrupt \/ HandleFault
  BY <1>10, HandleUnseen
<1>11. CASE HandleEcall
  BY <1>11, EcallUnseen
<1>12. CASE WaitOpen \/ WaitClose \/ yield_switched
  BY <1>12, WindowQuiet
<1>13. CASE WaitDone \/ yield_restore
  BY <1>13, ReturnQuiet
<1>14. CASE SysWait \/ BootWait
  BY <1>14, WaitQuiet
<1>15. CASE SysGetchar
  BY <1>15, GetcharUnseen
<1>16. CASE kernel_main_init
  BY <1>16, BootQuiet
<1>17. CASE create_process
  BY <1>17, CreatedUnseen
<1>18. CASE kernel_main_yield
  BY <1>18, KernelMainUnseen
<1>19. Ecall \/ Interrupt \/ Fault => mode = "U" \/ (Interrupt /\ mode = "S")
  <2>1. mode \in {"U", "S"}
    BY Zenon DEF IInv, TypeOK
  <2> QED
    BY <2>1, Zenon DEF Ecall, Interrupt, Fault
<1> QED
  BY <1>1, <1>2, <1>3, <1>4, <1>5, <1>6, <1>7, <1>8, <1>9, <1>10, <1>11, <1>12, <1>13, <1>14,
     <1>15, <1>16, <1>17, <1>18, <1>19, Zenon DEF Next

\* boot starts with cleared stacks and no process.
LEMMA InitSeen == Init => Cleared /\ Machine!Init
<1> SUFFICES ASSUME Init PROVE Cleared /\ Machine!Init
  OBVIOUS
<1>1. /\ mode = "S" /\ current_proc = Idle /\ kmain = 0
      /\ procs = [p \in PSlots |-> UnusedProc]
      /\ mem = [k \in Stacks |-> [d \in 1 .. DEPTH |-> NoFrame]]
  BY Zenon DEF Init
<1>2. \A p \in Procs : p \in PSlots /\ p \in Stacks /\ 1 \in 1 .. DEPTH /\ 2 \in 1 .. DEPTH
  BY Current, InitIInv, Zenon
<1>3. \A p \in Procs : p >= kmain
  BY <1>1, SMT DEF Procs, PSlots
<1>4. UnusedProc.state = "UNUSED" /\ "UNUSED" # "RUNNABLE"
  BY SMT DEF UnusedProc
<1>5. \A p \in Procs : procs[p].state = "UNUSED" /\ mem[p][1] = NoFrame /\ mem[p][2] = NoFrame
  BY <1>1, <1>2, <1>4, Zenon
<1>6. Cleared
  BY <1>1, <1>4, <1>5, Zenon DEF Cleared, ClearedAway, ClearedHere
<1>7. \A p \in Procs : Life(p) = "unborn" /\ View(p) = Machine!Blank
  BY <1>3, <1>5, SeenUnused
<1>8. Running = Idle
  BY <1>1, SMT DEF Running
<1>9. Lives = [p \in Procs |-> "unborn"] /\ Views = [p \in Procs |-> Machine!Blank]
  BY <1>7, Zenon DEF Lives, Views
<1> QED
  BY <1>6, <1>8, <1>9, Zenon DEF Machine!Init

\* Popped frames stay cleared, along with the invariant of the stacks.
LEMMA FramesCleared == Spec => [](IInv /\ Cleared)
<1>1. IInv /\ Cleared /\ [Next]_vars => (IInv /\ Cleared)'
  BY NextIInv, NextSeen, Zenon
<1> QED
  BY <1>1, InitIInv, InitSeen, PTL DEF Spec

\* Every user program runs on a machine of its own, for any number of processes
\* and any registers a program computes: whatever interrupts come, in user mode
\* or in the wait window of a system call, and whoever runs between, it goes on
\* at its own pc with its own registers and stack pointer.
THEOREM TrapImplementsUserMachine == Spec => ImplementsUserMachine
<1>1. IInv /\ Cleared /\ [Next]_vars => [Machine!Next]_seenVars
  BY NextIInv, NextSeen, Zenon
<1>2. Init => Machine!Init
  BY InitSeen
<1> QED
  BY <1>1, <1>2, FramesCleared, PTL DEF Spec, ImplementsUserMachine, Machine!Spec, seenVars
=============================================================================
