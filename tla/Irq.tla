-------------------------------- MODULE Irq --------------------------------
(***************************************************************************)
(* External interrupts on the one hart: the PLIC as kernel/plic.c uses it, *)
(* the trap into handle_external_interrupt, and wait_for_interrupt of      *)
(* kernel/interrupt.c one CSR access at a time.  A driver module gives the *)
(* kernel thread its other steps and the handler its body.                 *)
(*                                                                         *)
(*   kpc    where the kernel thread is; "wait", "test", "wfi", "window"    *)
(*          and "restore" are inside wait_for_interrupt, "woken" after it  *)
(*   sie    the hart takes supervisor interrupts: sstatus.SIE, or user mode*)
(*   saved  saved_sstatus of wait_for_interrupt (TRUE outside it)          *)
(*   plic   the pending sources and the claimed ones                       *)
(*   ipc    where the trap handler is, "none" when no trap is being taken  *)
(*   irq    the local variable of handle_external_interrupt                *)
(***************************************************************************)
EXTENDS Integers, FiniteSetsExt

VARIABLES kpc, sie, saved, plic, ipc, irq

irqVars == <<kpc, sie, saved, plic, ipc, irq>>

VIRTIO_BLK_IRQ == 1
VIRTIO_NET_IRQ == 2
Sources == {VIRTIO_BLK_IRQ, VIRTIO_NET_IRQ}

WaitSteps == {"wait", "test", "wfi", "window", "restore", "woken"}

IrqInit ==
  /\ kpc = "idle"
  /\ sie = TRUE
  /\ saved = TRUE
  /\ plic = [pending |-> {}, claimed |-> {}]
  /\ ipc = "none"
  /\ irq = 0

-----------------------------------------------------------------------------
(* The kernel thread runs only when the trap handler does not. *)

KernelAt(step) == ipc = "none" /\ kpc = step

\* A pending interrupt is taken at the latest right after the write of
\* sstatus that enables it.
Deliverable == sie /\ ipc = "none" /\ plic.pending # {}

WaitEnter ==
  /\ KernelAt("wait")
  /\ saved' = sie
  /\ sie' = FALSE
  /\ kpc' = "test"
  /\ UNCHANGED <<plic, ipc, irq>>

WaitTest(done) ==
  /\ KernelAt("test")
  /\ kpc' = IF done THEN "restore" ELSE "wfi"
  /\ UNCHANGED <<sie, saved, plic, ipc, irq>>

\* wfi returns once an interrupt is pending, whatever SIE says; then SIE is set.
WaitWfi ==
  /\ KernelAt("wfi")
  /\ plic.pending # {}
  /\ sie' = TRUE
  /\ kpc' = "window"
  /\ UNCHANGED <<saved, plic, ipc, irq>>

\* The architecture lets wfi return for no reason.
WaitWfiSpurious ==
  /\ KernelAt("wfi")
  /\ plic.pending = {}
  /\ sie' = TRUE
  /\ kpc' = "window"
  /\ UNCHANGED <<saved, plic, ipc, irq>>

\* Mutation: an if in place of the while.
WaitCloseOnce ==
  /\ KernelAt("window")
  /\ ~ Deliverable
  /\ sie' = FALSE
  /\ kpc' = "restore"
  /\ UNCHANGED <<saved, plic, ipc, irq>>

WaitClose ==
  /\ KernelAt("window")
  /\ ~ Deliverable
  /\ sie' = FALSE
  /\ kpc' = "test"
  /\ UNCHANGED <<saved, plic, ipc, irq>>

\* Mutation: interrupts are turned on instead of sstatus restored.
WaitRestoreEnabled ==
  /\ KernelAt("restore")
  /\ sie' = TRUE
  /\ saved' = TRUE
  /\ kpc' = "woken"
  /\ UNCHANGED <<plic, ipc, irq>>

WaitRestore ==
  /\ KernelAt("restore")
  /\ sie' = saved
  /\ saved' = TRUE
  /\ kpc' = "woken"
  /\ UNCHANGED <<plic, ipc, irq>>

-----------------------------------------------------------------------------
(* The trap and the PLIC. *)

Trap ==
  /\ Deliverable
  /\ sie' = FALSE
  /\ ipc' = "claim"
  /\ UNCHANGED <<kpc, saved, plic, irq>>

\* plic_claim returns the pending source with the lowest number (both have
\* priority 1) and the gateway forwards nothing from it until plic_complete.
Claim(handler) ==
  /\ ipc = "claim"
  /\ irq' = Min(plic.pending)
  /\ plic' = [pending |-> plic.pending \ {irq'}, claimed |-> plic.claimed \cup {irq'}]
  /\ ipc' = handler[irq']
  /\ UNCHANGED <<kpc, sie, saved>>

Complete ==
  /\ ipc = "complete"
  /\ plic' = [plic EXCEPT !.claimed = @ \ {irq}]
  /\ irq' = 0
  /\ ipc' = "sret"
  /\ UNCHANGED <<kpc, sie, saved>>

\* sret restores the SIE the trap was taken with, which was set.
Sret ==
  /\ ipc = "sret"
  /\ sie' = TRUE
  /\ ipc' = "none"
  /\ UNCHANGED <<kpc, saved, plic, irq>>

\* The gateway of a source forwards its level unless one is pending or claimed.
Latch(src) ==
  /\ src \notin plic.pending \cup plic.claimed
  /\ plic' = [plic EXCEPT !.pending = @ \cup {src}]
  /\ UNCHANGED <<kpc, sie, saved, ipc, irq>>
=============================================================================
