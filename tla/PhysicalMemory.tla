--------------------------- MODULE PhysicalMemory ---------------------------
(***************************************************************************)
(* What PMem (src/kernel/pmem.hpp) promises its callers, with nothing of   *)
(* how it keeps the promise: physical memory is a row of blocks, some set  *)
(* aside at boot for good, every other with a number of references.  A     *)
(* caller asks for a run of adjacent blocks and is granted the highest run *)
(* that nobody references, or is refused because there is none.            *)
(***************************************************************************)
EXTENDS Integers

CONSTANTS
  MapLength,   \* number of blocks
  BlockBytes,  \* size of a block
  Sizes,       \* the sizes, in bytes, that callers ask for
  MaxRefs      \* how many references one block can carry

VARIABLES
  refs,       \* refs[b]: references to block b that callers hold
  reserved,   \* blocks set aside at boot
  wanted,     \* length of the request being answered, or NoRequest
  reply       \* first block of the last run granted, or NoBlock if refused

absVars == <<refs, reserved, wanted, reply>>

Blocks == 0 .. MapLength - 1
NoBlock == -1
NoRequest == -1

\* A run of n blocks from first on that can be handed out.
Available(first, n) ==
  /\ n > 0
  /\ first + n <= MapLength
  /\ \A b \in first .. first + n - 1 : refs[b] = 0 /\ b \notin reserved

Init ==
  /\ reserved \in SUBSET Blocks
  /\ refs = [b \in Blocks |-> 0]
  /\ wanted = NoRequest
  /\ reply = NoBlock

\* n blocks are enough for that many bytes, and n - 1 are not.
Covers(n, bytes) == n * BlockBytes >= bytes /\ (n - 1) * BlockBytes < bytes

Request(bytes) ==
  /\ wanted = NoRequest
  /\ wanted' \in Nat
  /\ Covers(wanted', bytes)
  /\ UNCHANGED <<refs, reserved, reply>>

Grant(first) ==
  /\ Available(first, wanted)
  /\ \A other \in Blocks : Available(other, wanted) => other <= first
  /\ refs' = [b \in Blocks |->
                IF b \in first .. first + wanted - 1 THEN 1 ELSE refs[b]]
  /\ reply' = first
  /\ wanted' = NoRequest
  /\ UNCHANGED reserved

Refuse ==
  /\ wanted # NoRequest
  /\ \A first \in Blocks : ~Available(first, wanted)
  /\ reply' = NoBlock
  /\ wanted' = NoRequest
  /\ UNCHANGED <<refs, reserved>>

Share(b) ==
  /\ b \notin reserved
  /\ refs[b] < MaxRefs
  /\ refs' = [refs EXCEPT ![b] = @ + 1]
  /\ UNCHANGED <<reserved, wanted, reply>>

Release(b) ==
  /\ refs[b] > 0
  /\ refs' = [refs EXCEPT ![b] = @ - 1]
  /\ UNCHANGED <<reserved, wanted, reply>>

Next ==
  \/ \E bytes \in Sizes : Request(bytes)
  \/ \E first \in Blocks : Grant(first)
  \/ Refuse
  \/ \E b \in Blocks : Share(b) \/ Release(b)

Spec == Init /\ [][Next]_absVars
=============================================================================
