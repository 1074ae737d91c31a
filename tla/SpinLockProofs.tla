----------------------------- MODULE SpinLockProofs -----------------------------
(*****************************************************************************)
(* The spin lock is a mutual exclusion lock and loses no wakeup, for any     *)
(* number of cores, either architecture and any number of exceptions.        *)
(*****************************************************************************)
EXTENDS SpinLock, TLAPS

(* The lock word is 1 exactly while one core owns a guard, and a core whose *)
(* store-exclusive would succeed has seen the word at 0 with no store since.*)
WordMatchesHolder ==
  /\ \A c, d \in Core : pc[c] = "held" /\ pc[d] = "held" => c = d
  /\ lock_var = 1 <=> \E c \in Core : pc[c] = "held"
  /\ \A c \in Core : pc[c] \in {"store", "tryStore"} /\ monitor[c] => lock_var = 0

(* On AArch64 a core with no event pending still watches the lock word:     *)
(* asleep, it watches a taken lock; about to store, it may succeed.         *)
A64Watches ==
  arch = "aarch64" => \A c \in Core :
    /\ pc[c] = "wait" /\ ~event[c] => monitor[c] /\ lock_var = 1
    /\ pc[c] = "store" => monitor[c] \/ event[c]

LockInv == TypeOK /\ WordMatchesHolder /\ NoLostWakeup /\ A64Watches

(* A lock that nobody has asked for satisfies the invariant. *)
LEMMA InitLock == Init => LockInv
BY InterruptAssumption
   DEF Init, LockInv, TypeOK, WordMatchesHolder, NoLostWakeup, A64Watches

(* A store by core c that leaves the word at `value` keeps the types. *)
LEMMA StoreWordType ==
  ASSUME TypeOK, NEW c \in Core, NEW value \in {0, 1}, StoreWord(c, value)
  PROVE  /\ lock_var' = value
         /\ monitor' \in [Core -> BOOLEAN] /\ \A d \in Core : ~monitor'[d]
         /\ event' \in [Core -> BOOLEAN]
         /\ \A d \in Core : event'[d] <=> (event[d] \/ (arch = "aarch64" /\ d # c /\ monitor[d]))
BY DEF StoreWord, TypeOK

(* A successful store-exclusive: the core becomes the holder. *)
LEMMA TakeKeepsInv ==
  ASSUME LockInv, NEW c \in Core, NEW from \in {"store", "tryStore"},
         monitor[c], Goto(c, from, "held"), StoreWord(c, 1), irqs' = irqs, arch' = arch
  PROVE  LockInv'
<1>1. TypeOK /\ WordMatchesHolder /\ NoLostWakeup /\ A64Watches
  BY DEF LockInv
<1>2. /\ pc[c] = from /\ pc' = [pc EXCEPT ![c] = "held"]
      /\ pc \in [Core -> {"idle", "load", "wait", "store", "tryStore", "held", "sev"}]
  BY <1>1 DEF Goto, TypeOK
<1>3. /\ lock_var' = 1
      /\ monitor' \in [Core -> BOOLEAN] /\ \A d \in Core : ~monitor'[d]
      /\ event' \in [Core -> BOOLEAN]
      /\ \A d \in Core : event'[d] <=> (event[d] \/ (arch = "aarch64" /\ d # c /\ monitor[d]))
  BY <1>1, StoreWordType
<1>4. TypeOK'
  BY <1>1, <1>2, <1>3 DEF TypeOK
<1>5. WordMatchesHolder'
  <2>1. lock_var = 0
    BY <1>1, <1>2 DEF WordMatchesHolder
  <2>2. \A d \in Core : pc[d] # "held"
    BY <2>1, <1>1 DEF WordMatchesHolder
  <2> QED BY <2>2, <1>2, <1>3 DEF WordMatchesHolder
<1>6. NoLostWakeup'
  BY <1>3 DEF NoLostWakeup
<1>7. A64Watches'
  BY <1>1, <1>2, <1>3 DEF A64Watches
<1> QED BY <1>4, <1>5, <1>6, <1>7 DEF LockInv

(* Every instruction of every core keeps the invariant. *)
LEMMA StepLock == LockInv /\ [Next]_vars => LockInv'
<1> SUFFICES ASSUME LockInv, [Next]_vars PROVE LockInv'
  OBVIOUS
<1>1. TypeOK /\ WordMatchesHolder /\ NoLostWakeup /\ A64Watches
  BY DEF LockInv
<1>2. CASE UNCHANGED vars
  BY <1>1, <1>2 DEF vars, LockInv, TypeOK, WordMatchesHolder, NoLostWakeup, A64Watches
<1> SUFFICES ASSUME NEW c \in Core,
                    \/ Lock(c) \/ TryLoad(c) \/ Load(c) \/ Wait(c) \/ Store(c)
                    \/ TryStore(c) \/ Unlock(c) \/ SendEvent(c) \/ Interrupt(c),
                    arch' = arch
             PROVE  LockInv'
  BY <1>2 DEF Next
<1>3. CASE Lock(c)
  <2>1. /\ pc[c] = "idle" /\ lock_var' = lock_var /\ monitor' = monitor /\ irqs' = irqs
        /\ \/ pc' = [pc EXCEPT ![c] = "load"] /\ event' = event
           \/ pc' = [pc EXCEPT ![c] = "wait"] /\ event' = [event EXCEPT ![c] = TRUE]
    BY <1>3 DEF Lock, Goto
  <2>2. TypeOK'
    BY <1>1, <2>1 DEF TypeOK
  <2>3. WordMatchesHolder'
    BY <1>1, <2>1 DEF TypeOK, WordMatchesHolder
  <2>4. NoLostWakeup' /\ A64Watches'
    BY <1>1, <2>1 DEF TypeOK, NoLostWakeup, A64Watches
  <2> QED BY <2>2, <2>3, <2>4 DEF LockInv
<1>4. CASE TryLoad(c)
  BY <1>1, <1>4 DEF TryLoad, Goto, LockInv, TypeOK, WordMatchesHolder, NoLostWakeup, A64Watches
<1>5. CASE Load(c)
  BY <1>1, <1>5 DEF Load, Goto, LockInv, TypeOK, WordMatchesHolder, NoLostWakeup, A64Watches
<1>6. CASE Wait(c)
  BY <1>1, <1>6 DEF Wait, Goto, LockInv, TypeOK, WordMatchesHolder, NoLostWakeup, A64Watches
<1>7. CASE Store(c)
  <2>1. CASE monitor[c]
    BY <1>7, <2>1, TakeKeepsInv DEF Store
  <2>2. CASE ~monitor[c]
    BY <1>1, <1>7, <2>2
       DEF Store, Goto, LockInv, TypeOK, WordMatchesHolder, NoLostWakeup, A64Watches
  <2> QED BY <2>1, <2>2
<1>8. CASE TryStore(c)
  <2>1. CASE monitor[c]
    BY <1>8, <2>1, TakeKeepsInv DEF TryStore
  <2>2. CASE ~monitor[c]
    BY <1>1, <1>8, <2>2
       DEF TryStore, Goto, LockInv, TypeOK, WordMatchesHolder, NoLostWakeup, A64Watches
  <2> QED BY <2>1, <2>2
<1>9. CASE Unlock(c)
  <2>1. /\ pc[c] = "held" /\ irqs' = irqs
        /\ pc' = [pc EXCEPT ![c] = IF arch = "arm" THEN "sev" ELSE "idle"]
        /\ pc \in [Core -> {"idle", "load", "wait", "store", "tryStore", "held", "sev"}]
    BY <1>1, <1>9 DEF Unlock, Goto, TypeOK
  <2>2. /\ lock_var' = 0
        /\ monitor' \in [Core -> BOOLEAN] /\ \A d \in Core : ~monitor'[d]
        /\ event' \in [Core -> BOOLEAN]
        /\ \A d \in Core : event'[d] <=> (event[d] \/ (arch = "aarch64" /\ d # c /\ monitor[d]))
    BY <1>1, <1>9, StoreWordType DEF Unlock
  <2>3. TypeOK'
    BY <1>1, <2>1, <2>2 DEF TypeOK
  <2>4. WordMatchesHolder'
    BY <1>1, <2>1, <2>2 DEF WordMatchesHolder
  <2>5. A64Watches'
    BY <1>1, <2>1, <2>2 DEF A64Watches
  <2>6. NoLostWakeup'
    BY <1>1, <2>1, <2>2, <2>5 DEF NoLostWakeup, A64Watches, TypeOK
  <2> QED BY <2>3, <2>4, <2>5, <2>6 DEF LockInv
<1>10. CASE SendEvent(c)
  BY <1>1, <1>10 DEF SendEvent, Goto, LockInv, TypeOK, WordMatchesHolder, NoLostWakeup, A64Watches
<1>11. CASE Interrupt(c)
  BY <1>1, <1>11, InterruptAssumption
     DEF Interrupt, LockInv, TypeOK, WordMatchesHolder, NoLostWakeup, A64Watches
<1> QED BY <1>3, <1>4, <1>5, <1>6, <1>7, <1>8, <1>9, <1>10, <1>11

(* The invariant holds in every reachable state of the lock. *)
THEOREM LockInvariance == Spec => []LockInv
BY InitLock, StepLock, PTL DEF Spec

(* No core sleeps in WFE beside a free lock with nobody about to wake it,   *)
(* whatever exceptions come between its load and its WFE.                   *)
THEOREM WakeupsKept == Spec => []NoLostWakeup
<1>1. LockInv => NoLostWakeup
  BY DEF LockInv
<1> QED BY <1>1, LockInvariance, PTL

(* A step of the assembly gives a guard, takes one back, or does neither. *)
LEMMA StepIsGuardStep ==
  ASSUME LockInv, [Next]_vars
  PROVE  [Guard!Next]_Holders
<1> USE DEF Guard!Next, Guard!Acquire, Guard!Release, Holders
<1>1. TypeOK /\ WordMatchesHolder
  BY DEF LockInv
<1>2. CASE UNCHANGED vars
  BY <1>2 DEF vars
<1> SUFFICES ASSUME NEW c \in Core,
                    \/ Lock(c) \/ TryLoad(c) \/ Load(c) \/ Wait(c) \/ Store(c)
                    \/ TryStore(c) \/ Unlock(c) \/ SendEvent(c) \/ Interrupt(c)
             PROVE  [Guard!Next]_Holders
  BY <1>2 DEF Next
<1>3. CASE pc'[c] = "held" /\ pc[c] # "held"
  <2>1. monitor[c] /\ pc[c] \in {"store", "tryStore"} /\ pc' = [pc EXCEPT ![c] = "held"]
    BY <1>1, <1>3 DEF Lock, TryLoad, Load, Wait, Store, TryStore, Unlock, SendEvent, Interrupt, Goto, TypeOK
  <2>2. Holders = {}
    BY <1>1, <2>1 DEF WordMatchesHolder
  <2>3. Holders' = {c}
    BY <1>1, <2>1, <2>2 DEF TypeOK
  <2> QED BY <2>2, <2>3
<1>4. CASE pc[c] = "held" /\ pc'[c] # "held"
  <2>1. pc' = [pc EXCEPT ![c] = pc'[c]]
    BY <1>1, <1>4 DEF Lock, TryLoad, Load, Wait, Store, TryStore, Unlock, SendEvent, Interrupt, Goto, TypeOK
  <2>2. Holders = {c}
    BY <1>1, <1>4 DEF WordMatchesHolder
  <2>3. Holders' = {}
    BY <1>1, <1>4, <2>1, <2>2 DEF TypeOK
  <2> QED BY <2>2, <2>3
<1>5. CASE pc[c] = "held" <=> pc'[c] = "held"
  <2>1. \A d \in Core : d # c => pc'[d] = pc[d]
    BY <1>1 DEF Lock, TryLoad, Load, Wait, Store, TryStore, Unlock, SendEvent, Interrupt, Goto, TypeOK
  <2> QED BY <1>5, <2>1
<1> QED BY <1>3, <1>4, <1>5

(* lock, try_lock and the guard's drop implement a mutual exclusion lock.   *)
THEOREM SpinLockIsMutex == Spec => ImplementsMutex
<1>1. Init => Guard!Init
  BY DEF Init, Guard!Init, Holders
<1>2. LockInv /\ [Next]_vars => [Guard!Next]_Holders
  BY StepIsGuardStep
<1> QED
  BY <1>1, <1>2, LockInvariance, PTL DEF Spec, ImplementsMutex, Guard!Spec

=============================================================================
