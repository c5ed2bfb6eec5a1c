----------------------------- MODULE ObjectPool -----------------------------
(***************************************************************************)
(* What a Slab (src/kernel/slab.hpp) promises its users: a fixed set of    *)
(* places for objects, each handed to one user at a time.  An alloc() that *)
(* runs out of physical memory halfway may lose a place for good.          *)
(***************************************************************************)
CONSTANT Objects  \* where an object can be

VARIABLES
  live,       \* the objects in their users' hands
  available   \* the objects that an alloc() can still hand out

poolVars == <<live, available>>

Init == live = {} /\ available = Objects

Take(o) ==
  /\ o \in available
  /\ live' = live \cup {o}
  /\ available' = available \ {o}

Lose(o) ==
  /\ o \in available
  /\ available' = available \ {o}
  /\ UNCHANGED live

Give(o) ==
  /\ o \in live
  /\ live' = live \ {o}
  /\ available' = available \cup {o}

Next == \E o \in Objects : Take(o) \/ Lose(o) \/ Give(o)

Spec == Init /\ [][Next]_poolVars
=============================================================================
