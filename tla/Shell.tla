------------------------------- MODULE Shell -------------------------------
(***************************************************************************)
(* user/shell.c as the program of every user process of Processes: the     *)
(* prompt loop with its line buffer and the commands that change the state *)
(* of the kernel, exit and shmtest.  Processes change only where a shell   *)
(* waits for input, in the yield of SYS_GETCHAR.                           *)
(***************************************************************************)
EXTENDS Processes

CONSTANTS CMDLINE_SIZE,   \* sizeof(cmdline)
          Chars,          \* characters typed, "exit" and "shmtest" spelled with them
          ExitCommand, ShmTestCommand,
          MAX_KEYS        \* bound on the keys pressed

ASSUME ShellAssumption ==
  /\ CMDLINE_SIZE \in Nat /\ CMDLINE_SIZE >= 2
  /\ {ExitCommand, ShmTestCommand} \subseteq Seq(Chars)
  /\ MAX_KEYS \in Nat

VARIABLES sh,     \* the stack of main and run_shmtest of each process
          keys    \* keys pressed so far

shellVars == <<vars, sh, keys>>

NUL == "NUL"
CR == "CR"
Junk == "junk"            \* what a stack holds before it is written
Users == PSlots \ {Idle}
Failed == -1
SHM_KEY == 100

me == sh[current_proc]
At(step) == InUser /\ me.at = step
Goto(step) == sh' = [sh EXCEPT ![current_proc].at = step]
Prompt == [me EXCEPT !.at = "read", !.i = 0, !.typed = <<>>]

\* Equality of the NUL-terminated strings in two arrays.
strcmp(s, t) ==
  LET k == Min({j \in DOMAIN s \cap DOMAIN t : s[j] = NUL \/ t[j] = NUL \/ s[j] # t[j]})
  IN  s[k] = t[k]
Literal(word) == [j \in 0 .. Len(word) |-> IF j < Len(word) THEN word[j + 1] ELSE NUL]

-----------------------------------------------------------------------------
(* The prompt loop of main. *)

GetcharEmpty == At("read") /\ yield /\ UNCHANGED <<sh, keys>>

\* Mutation: without cmdline[i] = '\0'.
EndLineOpen == [me EXCEPT !.at = "dispatch"]
EndLine == [me EXCEPT !.at = "dispatch", !.cmdline[me.i] = NUL]

\* The test for the last place comes first, also for the return key.
Getchar(c) ==
  /\ At("read")
  /\ keys < MAX_KEYS
  /\ keys' = keys + 1
  /\ sh' = [sh EXCEPT ![current_proc] =
              IF me.i = CMDLINE_SIZE - 1 THEN Prompt
              ELSE IF c = CR THEN EndLine
              ELSE [me EXCEPT !.cmdline[me.i] = c, !.i = @ + 1, !.typed = Append(@, c)]]
  /\ UNCHANGED vars

ExitShell ==
  /\ At("dispatch")
  /\ strcmp(me.cmdline, Literal(ExitCommand))
  /\ exit
  /\ UNCHANGED <<sh, keys>>

ShmTest ==
  /\ At("dispatch")
  /\ strcmp(me.cmdline, Literal(ShmTestCommand))
  /\ Goto("shm_get")
  /\ UNCHANGED <<vars, keys>>

\* Every other command leaves processes and shared memory alone.
OtherCommand ==
  /\ At("dispatch")
  /\ ~ strcmp(me.cmdline, Literal(ExitCommand))
  /\ ~ strcmp(me.cmdline, Literal(ShmTestCommand))
  /\ sh' = [sh EXCEPT ![current_proc] = Prompt]
  /\ UNCHANGED <<vars, keys>>

-----------------------------------------------------------------------------
(* run_shmtest; addresses are slots of the window, as in Processes. *)

ShmTestGet ==
  /\ At("shm_get")
  /\ shm_get(SHM_KEY)
  /\ LET found == find_by_key(shm_table', SHM_KEY)
     IN  IF found = {} THEN sh' = [sh EXCEPT ![current_proc] = Prompt]
         ELSE sh' = [sh EXCEPT ![current_proc].at = "attach_a",
                               ![current_proc].id = shm_table'[Min(found)].id]
  /\ UNCHANGED keys

\* The slot shm_attach has taken, if any.
AttachedSlot ==
  LET new == {v \in MSlots : /\ procs'[current_proc].shm_mappings[v].used
                             /\ ~ procs[current_proc].shm_mappings[v].used}
  IN  IF new = {} THEN Failed ELSE Min(new)

ShmTestAttachA ==
  /\ At("attach_a")
  /\ shm_attach(me.id)
  /\ sh' = [sh EXCEPT ![current_proc].at = "attach_b", ![current_proc].a = AttachedSlot]
  /\ UNCHANGED keys

ShmTestAttachB ==
  /\ At("attach_b")
  /\ shm_attach(me.id)
  /\ sh' = [sh EXCEPT ![current_proc].at = "compare", ![current_proc].b = AttachedSlot]
  /\ UNCHANGED keys

\* What is written through a is read through b.
Passes(s, maps) == s.a # Failed /\ s.b # Failed /\ maps[s.a].pa = maps[s.b].pa

ShmTestCompare == At("compare") /\ Goto("detach_a") /\ UNCHANGED <<vars, keys>>

\* Mutation: the address of the first mapping twice.
SecondAddressTwice == me.a
SecondAddress == me.b

\* Both detach calls, also on the failure path where only one address is good.
ShmTestDetachA ==
  /\ At("detach_a")
  /\ IF me.a # Failed THEN shm_detach(me.a) ELSE UNCHANGED vars
  /\ Goto("detach_b")
  /\ UNCHANGED keys

ShmTestDetachB ==
  /\ At("detach_b")
  /\ IF me.b # Failed THEN shm_detach(SecondAddress) ELSE UNCHANGED vars
  /\ sh' = [sh EXCEPT ![current_proc] = Prompt]
  /\ UNCHANGED keys

-----------------------------------------------------------------------------
Kernel ==
  /\ create_process \/ kernel_main_yield \/ kernel_main_idle
  /\ UNCHANGED <<sh, keys>>

ShellInit ==
  /\ Init
  /\ sh = [p \in Users |-> [at |-> "read", i |-> 0, typed |-> <<>>,
                            cmdline |-> [j \in 0 .. CMDLINE_SIZE - 1 |-> Junk],
                            id |-> 0, a |-> Failed, b |-> Failed]]
  /\ keys = 0

ShellNext ==
  \/ Kernel
  \/ GetcharEmpty
  \/ \E c \in Chars \cup {CR} : Getchar(c)
  \/ ExitShell \/ ShmTest \/ OtherCommand
  \/ ShmTestGet \/ ShmTestAttachA \/ ShmTestAttachB \/ ShmTestCompare
  \/ ShmTestDetachA \/ ShmTestDetachB

\* The hart keeps executing: a shell that finds no input yields, and a command
\* goes on (weak fairness with the guard written out, for a step of a running
\* command is never blocked).
Busy == InUser /\ me.at # "read"
Fairness ==
  /\ WF_shellVars(GetcharEmpty)
  /\ []<>(~ Busy) \/ []<><<Busy /\ ShellNext>>_shellVars

ShellSpec == ShellInit /\ [][ShellNext]_shellVars /\ Fairness

-----------------------------------------------------------------------------
\* The command that runs is the one typed since the prompt: nothing of an
\* earlier or overlong line that the buffer still holds gets into it.
RunsWhatWasTyped ==
  At("dispatch") =>
    \A word \in {ExitCommand, ShmTestCommand} :
      strcmp(me.cmdline, Literal(word)) <=> me.typed = word

\* shmtest passes, whatever other shells did before: both addresses reach one
\* page (docs/shared-memory.md: "both mappings observe the same data").
ShmTestPasses == At("compare") => Passes(me, procs[current_proc].shm_mappings)

\* A shell at its prompt holds no mapping, and no object is left behind that
\* nobody is attached to.
PromptHoldsNothing ==
  At("read") =>
    /\ \A v \in MSlots : ~ procs[current_proc].shm_mappings[v].used
    /\ \A o \in OSlots : shm_table[o].used => shm_table[o].refcount > 0
=============================================================================
