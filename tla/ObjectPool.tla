------------------------------ MODULE ObjectPool ------------------------------
(*****************************************************************************)
(* What an object allocator promises its clients: alloc returns an object    *)
(* that nobody uses, and only free puts an object back.                      *)
(*****************************************************************************)
EXTENDS Integers

CONSTANT Objects

VARIABLES
  used,        \* the objects clients own
  allocated    \* how many objects clients were given and have not freed

Init == used = {} /\ allocated = 0

Alloc ==
  \E o \in Objects \ used :
    used' = used \cup {o} /\ allocated' = allocated + 1

Free ==
  \E o \in used :
    used' = used \ {o} /\ allocated' = allocated - 1

Next == Alloc \/ Free

Spec == Init /\ [][Next]_<<used, allocated>>

=============================================================================
