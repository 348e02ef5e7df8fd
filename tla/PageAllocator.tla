--------------------------- MODULE PageAllocator ---------------------------
(***************************************************************************)
(* What kernel/allocator.c promises its callers, without regions: every    *)
(* page is free or belongs to one handle, an allocation takes a run of     *)
(* free pages, a release frees exactly the pages of its handle and touches *)
(* no page until it returns, and after a PANIC nothing happens.            *)
(***************************************************************************)
EXTENDS Integers

CONSTANTS Handles, Pages, NoOwner

VARIABLES owner, busy, halted

Owned(h) == {p \in Pages : owner[p] = h}

Init ==
  /\ owner = [p \in Pages |-> NoOwner]
  /\ busy = FALSE
  /\ halted = FALSE

\* Handle h takes the run of pages from a to b.
Alloc(h, a, b) ==
  /\ ~ halted
  /\ ~ busy
  /\ Owned(h) = {}
  /\ a .. b \subseteq Owned(NoOwner)
  /\ owner' = [p \in Pages |-> IF p \in a .. b THEN h ELSE owner[p]]
  /\ UNCHANGED <<busy, halted>>

\* The pages of h are free at once; the call goes on.
Release(h) ==
  /\ ~ halted
  /\ ~ busy
  /\ Owned(h) # {}
  /\ owner' = [p \in Pages |-> IF owner[p] = h THEN NoOwner ELSE owner[p]]
  /\ busy' = TRUE
  /\ UNCHANGED halted

Return ==
  /\ busy
  /\ busy' = FALSE
  /\ UNCHANGED <<owner, halted>>

Panic ==
  /\ ~ busy
  /\ halted' = TRUE
  /\ UNCHANGED <<owner, busy>>

Next ==
  \/ \E h \in Handles, a, b \in Pages : a <= b /\ Alloc(h, a, b)
  \/ \E h \in Handles : Release(h)
  \/ Return
  \/ Panic

Spec == Init /\ [][Next]_<<owner, busy, halted>>
=============================================================================
