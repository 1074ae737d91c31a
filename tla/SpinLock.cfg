SPECIFICATION FairSpec
CONSTANTS
  Core = {c1, c2, c3}
  MaxInterrupts = 1
INVARIANT NoLostWakeup
PROPERTIES ImplementsMutex WaiterServed
