----------------------------- MODULE BlockStore -----------------------------
(***************************************************************************)
(* What read_write_disk promises the file system: a call on a valid sector *)
(* is performed at most once, between the call and its return, and a       *)
(* successful read returns what the store held at that moment.  A failed   *)
(* operation changes neither the store nor the caller's buffer.            *)
(***************************************************************************)
CONSTANTS Sectors, Values

VARIABLES store, op, result, buf

vars == <<store, op, result, buf>>

Ops == [kind : {"read", "write"}, sector : Sectors]
NoOp == [kind |-> "none"]
None == [kind |-> "none"]
Failed == [kind |-> "failed"]
Done(v) == [kind |-> "done", data |-> v]

Init ==
  /\ store \in [Sectors -> Values]
  /\ op = NoOp
  /\ result = None
  /\ buf \in Values

\* The caller fills its buffer and calls.
Call(o, v) ==
  /\ op = NoOp
  /\ op' = o
  /\ buf' = v
  /\ UNCHANGED <<store, result>>

\* A call on a sector outside the disk.
Reject(v) ==
  /\ op = NoOp
  /\ buf' = v
  /\ UNCHANGED <<store, op, result>>

PerformRead ==
  /\ op.kind = "read"
  /\ result = None
  /\ result' = Done(store[op.sector])
  /\ UNCHANGED <<store, op, buf>>

PerformWrite ==
  /\ op.kind = "write"
  /\ result = None
  /\ store' = [store EXCEPT ![op.sector] = buf]
  /\ result' = Done(buf)
  /\ UNCHANGED <<op, buf>>

Fail ==
  /\ op # NoOp
  /\ result = None
  /\ result' = Failed
  /\ UNCHANGED <<store, op, buf>>

Return ==
  /\ result # None
  /\ op' = NoOp
  /\ result' = None
  /\ buf' = IF op.kind = "read" /\ result # Failed THEN result.data ELSE buf
  /\ UNCHANGED store

Next ==
  \/ \E o \in Ops, v \in Values : Call(o, v)
  \/ \E v \in Values : Reject(v)
  \/ PerformRead
  \/ PerformWrite
  \/ Fail
  \/ Return

Spec == Init /\ [][Next]_vars
=============================================================================
