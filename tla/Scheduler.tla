----------------------------- MODULE Scheduler -----------------------------
(***************************************************************************)
(* The choice yield of kernel/process.c makes, as an operator on the       *)
(* process table: ps[i].pid and ps[i].state of every slot.                 *)
(***************************************************************************)
EXTENDS Integers, FiniteSetsExt

CONSTANT PROCS_MAX

ASSUME SchedulerAssumption == PROCS_MAX \in Nat \ {0}

PSlots == 0 .. PROCS_MAX - 1
Idle == 0                       \* idle_proc is the first process created

\* Mutation: a scan that always starts at slot 0.
PickNextFromZero(ps, cur) ==
  LET ready == {i \in PSlots : ps[i].state = "RUNNABLE" /\ ps[i].pid > 0}
  IN  IF ready = {} THEN Idle ELSE Min(ready)

\* PROCS_MAX slots from the one the current pid names; idle if none is ready.
PickNext(ps, cur) ==
  LET slot(i) == (ps[cur].pid + i) % PROCS_MAX
      ready == {i \in PSlots : ps[slot(i)].state = "RUNNABLE" /\ ps[slot(i)].pid > 0}
  IN  IF ready = {} THEN Idle ELSE slot(Min(ready))
=============================================================================
