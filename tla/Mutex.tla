-------------------------------- MODULE Mutex --------------------------------
(*****************************************************************************)
(* What SpinLock<T> of src/sync/spin_lock.rs promises: one guard at a time.  *)
(*****************************************************************************)
CONSTANT Owners    \* the cores

VARIABLE holder    \* the cores that own a guard

Init == holder = {}

Acquire == holder = {} /\ \E c \in Owners : holder' = {c}

Release == holder # {} /\ holder' = {}

Next == Acquire \/ Release

Spec == Init /\ [][Next]_holder

=============================================================================
