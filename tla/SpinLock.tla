------------------------------- MODULE SpinLock -------------------------------
(*****************************************************************************)
(* SpinLock<T> of src/sync/spin_lock.rs over the two assembly versions of    *)
(* sync_spin_lock, sync_spin_try_lock and sync_spin_unlock.  One step is one *)
(* memory or event instruction; the register-only instructions around it     *)
(* (compare, branch, return) belong to its step.                             *)
(*                                                                           *)
(* The cores' exclusive monitors and event registers are modelled from what  *)
(* the code asks of them: a store-exclusive succeeds while the core's        *)
(* monitor is set; any store to the lock clears the monitors.  On AArch64    *)
(* the loss of a monitor sets the core's event register, which is all that   *)
(* wakes a core there (sync_spin_unlock has no SEV); on ARM only SEV and     *)
(* exceptions do.  Memory is sequentially consistent: the barriers and the   *)
(* acquire/release forms give the instructions modelled that order.          *)
(*****************************************************************************)
EXTENDS Integers

CONSTANTS
  Core,
  MaxInterrupts   \* bound on the exceptions a core takes

ASSUME InterruptAssumption == MaxInterrupts \in Nat

VARIABLES
  arch,       \* "arm" or "aarch64": the assembly the kernel was built with
  lock_var,   \* the lock word
  pc,         \* where each core is
  monitor,    \* monitor[c]: core c's exclusive monitor is set
  event,      \* event[c]: core c's event register
  irqs        \* irqs[c]: exceptions core c has taken

vars == <<arch, lock_var, pc, monitor, event, irqs>>

Init ==
  /\ arch \in {"arm", "aarch64"}
  /\ lock_var = 0
  /\ pc = [c \in Core |-> "idle"]
  /\ monitor = [c \in Core |-> FALSE]
  /\ event \in [Core -> BOOLEAN]
  /\ irqs = [c \in Core |-> 0]

Goto(c, from, to) == pc[c] = from /\ pc' = [pc EXCEPT ![c] = to]

(* Core c stores to the lock word: nobody keeps a monitor on it. *)
StoreWord(c, value) ==
  /\ lock_var' = value
  /\ monitor' = [d \in Core |-> FALSE]
  /\ event' = [d \in Core |-> event[d] \/ (arch = "aarch64" /\ d # c /\ monitor[d])]

(* Mutant: AArch64 starts at WFE without SEVL. *)
LockNoSevl(c) ==
  /\ Goto(c, "idle", "wait")
  /\ UNCHANGED <<lock_var, event, monitor, irqs>>

(*****************************************************************************)
(* lock().  AArch64 sets its own event register (SEVL) and starts at WFE;    *)
(* ARM starts at the load.                                                   *)
(*****************************************************************************)
Lock(c) ==
  /\ IF arch = "arm"
     THEN Goto(c, "idle", "load") /\ event' = event
     ELSE Goto(c, "idle", "wait") /\ event' = [event EXCEPT ![c] = TRUE]
  /\ UNCHANGED <<lock_var, monitor, irqs>>

(* LDREX, LDAXR: wait when the lock is taken, else try to store. *)
Load(c) ==
  /\ Goto(c, "load", IF lock_var # 0 THEN "wait" ELSE "store")
  /\ monitor' = [monitor EXCEPT ![c] = TRUE]
  /\ UNCHANGED <<lock_var, event, irqs>>

(* WFE: sleep until the event register is set, and clear it. *)
Wait(c) ==
  /\ Goto(c, "wait", "load")
  /\ event[c]
  /\ event' = [event EXCEPT ![c] = FALSE]
  /\ UNCHANGED <<lock_var, monitor, irqs>>

(* Mutant: the store is not exclusive. *)
StorePlain(c) ==
  /\ Goto(c, "store", "held")
  /\ StoreWord(c, 1)
  /\ irqs' = irqs

(* STREX, STXR: ARM retries from the load, AArch64 from WFE. *)
Store(c) ==
  /\ IF monitor[c]
     THEN Goto(c, "store", "held") /\ StoreWord(c, 1)
     ELSE /\ Goto(c, "store", IF arch = "arm" THEN "load" ELSE "wait")
          /\ UNCHANGED <<lock_var, monitor, event>>
  /\ irqs' = irqs

(* try_lock(): a failed load or store returns. *)
TryLoad(c) ==
  /\ Goto(c, "idle", IF lock_var # 0 THEN "idle" ELSE "tryStore")
  /\ monitor' = [monitor EXCEPT ![c] = TRUE]
  /\ UNCHANGED <<lock_var, event, irqs>>

TryStore(c) ==
  /\ IF monitor[c]
     THEN Goto(c, "tryStore", "held") /\ StoreWord(c, 1)
     ELSE Goto(c, "tryStore", "idle") /\ UNCHANGED <<lock_var, monitor, event>>
  /\ irqs' = irqs

(* Mutant: ARM's release ends without SEV, like AArch64's. *)
UnlockSilent(c) ==
  /\ Goto(c, "held", "idle")
  /\ StoreWord(c, 0)
  /\ irqs' = irqs

(* Dropping the guard.  ARM wakes the waiters with a separate SEV. *)
Unlock(c) ==
  /\ Goto(c, "held", IF arch = "arm" THEN "sev" ELSE "idle")
  /\ StoreWord(c, 0)
  /\ irqs' = irqs

SendEvent(c) ==
  /\ Goto(c, "sev", "idle")
  /\ event' = [d \in Core |-> TRUE]
  /\ UNCHANGED <<lock_var, monitor, irqs>>

(* An exception is taken and returned from: the monitor is lost and the     *)
(* return sets the event register.  Locks do not mask interrupts.           *)
Interrupt(c) ==
  /\ irqs[c] < MaxInterrupts
  /\ irqs' = [irqs EXCEPT ![c] = @ + 1]
  /\ monitor' = [monitor EXCEPT ![c] = FALSE]
  /\ event' = [event EXCEPT ![c] = TRUE]
  /\ UNCHANGED <<lock_var, pc>>

(* The instructions a core goes on executing once it has called lock or     *)
(* try_lock, up to the release of the lock.                                 *)
Step(c) ==
  /\ Load(c) \/ Wait(c) \/ Store(c) \/ TryStore(c) \/ Unlock(c) \/ SendEvent(c)
  /\ UNCHANGED arch

Next ==
  \E c \in Core :
    /\ \/ Lock(c) \/ TryLoad(c)
       \/ Load(c) \/ Wait(c) \/ Store(c)
       \/ TryStore(c)
       \/ Unlock(c) \/ SendEvent(c)
       \/ Interrupt(c)
    /\ UNCHANGED arch

Spec == Init /\ [][Next]_vars

(* A core that is not asleep executes its next instruction, and a critical  *)
(* section ends; no core is obliged to ask for the lock.                    *)
FairSpec == Spec /\ \A c \in Core : WF_vars(Step(c))

-----------------------------------------------------------------------------
(*****************************************************************************)
(* Properties.                                                               *)
(*****************************************************************************)

(* The variables keep their types. *)
TypeOK ==
  /\ arch \in {"arm", "aarch64"}
  /\ lock_var \in {0, 1}
  /\ pc \in [Core -> {"idle", "load", "wait", "store", "tryStore", "held", "sev"}]
  /\ monitor \in [Core -> BOOLEAN]
  /\ event \in [Core -> BOOLEAN]
  /\ irqs \in [Core -> 0 .. MaxInterrupts]

(* The cores that own a guard. *)
Holders == {c \in Core : pc[c] = "held"}

(* The assembly is a mutual exclusion lock: no interleaving of lock,        *)
(* try_lock, unlock and exceptions gives two cores a guard, and a core      *)
(* takes the lock only when nobody holds it.                                *)
Guard == INSTANCE Mutex WITH Owners <- Core, holder <- Holders

ImplementsMutex == Guard!Spec

(* No wakeup is lost: when the lock is free, a core asleep in WFE is about  *)
(* to be woken by a releasing core that has not reached SEV yet.  On        *)
(* AArch64, where there is no SEV, no core sleeps while the lock is free.   *)
NoLostWakeup ==
  \A c \in Core :
    (lock_var = 0 /\ pc[c] = "wait" /\ ~event[c]) => \E d \in Core : pc[d] = "sev"

(* A core that asks for the lock gets it, unless other cores take it again  *)
(* and again for ever: the code promises progress, not order.               *)
WaiterServed ==
  \A c \in Core :
    (<>[](\A d \in Core \ {c} : pc[d] # "held")) =>
      (pc[c] \in {"load", "wait", "store"} ~> pc[c] = "held")

=============================================================================
