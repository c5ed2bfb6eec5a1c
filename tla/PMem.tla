-------------------------------- MODULE PMem --------------------------------
(***************************************************************************)
(* The physical memory allocator: PMem::map, one byte per 4 KiB block that *)
(* holds the block's reference count or a BlockState, and the operations   *)
(* of pmem_alloc.cpp and pmem_states.cpp on it.  The downward scan of      *)
(* alloc_end() is taken loop iteration by loop iteration, so that what the *)
(* loop knows at each turn can be stated; the kernel runs with interrupts  *)
(* off, so no other PMem call comes between two iterations.                *)
(***************************************************************************)
EXTENDS Integers

CONSTANTS
  MapLength,   \* PMem::map_length, number of blocks
  BlockBytes,  \* KB(4)
  TopState,    \* 0xFF, the largest value of a map byte
  Sizes        \* the request sizes, in bytes, that callers pass to alloc_end()

ASSUME MapLengthAssumption == MapLength \in Nat
ASSUME BlockBytesAssumption == BlockBytes \in Nat \ {0}
ASSUME TopStateAssumption == TopState \in Nat /\ TopState >= 3
ASSUME SizesAssumption == Sizes \subseteq Nat

VARIABLES
  map,        \* PMem::map
  pc,         \* "idle" between calls, "scan" inside alloc_end(), "hung"
  i,          \* alloc_end(): the loop counter; -1 is size_t's wrapped -1
  block_end,  \* alloc_end(): lowest block in use above i, or MapLength
  blocks,     \* alloc_end(): length asked for, in blocks
  result,     \* what the last alloc_end() returned: a first block or NoBlock
  held,       \* history: references to each block its callers hold
  reserved    \* history: the blocks PMem::init() set aside

scanVars == <<pc, i, block_end, blocks, result>>
vars == <<map, pc, i, block_end, blocks, result, held, reserved>>

FREE == 0
USED == 1
RESERVED == TopState
NON_EXISTANT == TopState - 1

Blocks == 0 .. MapLength - 1
NoBlock == -1

\* Mutant: the remainder is dropped.
floordiv(a, b) == a \div b

ceildiv(a, b) == IF a = 0 THEN 0 ELSE ((a - 1) \div b) + 1

-----------------------------------------------------------------------------
(* The state PMem::init() leaves: the map cleared, then some blocks set    *)
(* to RESERVED.                                                            *)

Init ==
  /\ reserved \in SUBSET Blocks
  /\ map = [b \in Blocks |-> IF b \in reserved THEN RESERVED ELSE FREE]
  /\ held = [b \in Blocks |-> 0]
  /\ pc = "idle"
  /\ i = -1
  /\ block_end = MapLength
  /\ blocks = 0
  /\ result = NoBlock

(* alloc_end(): the call, then one action per way through the loop body.  *)

\* Mutant: the run's end starts one block too high.
AllocEndPastLength(bytes) ==
  /\ pc = "idle"
  /\ pc' = "scan"
  /\ blocks' = ceildiv(bytes, BlockBytes)
  /\ block_end' = MapLength + 1
  /\ i' = MapLength - 1
  /\ UNCHANGED <<map, result, held, reserved>>

AllocEnd(bytes) ==
  /\ pc = "idle"
  /\ pc' = "scan"
  /\ blocks' = ceildiv(bytes, BlockBytes)
  /\ block_end' = MapLength
  /\ i' = MapLength - 1
  /\ UNCHANGED <<map, result, held, reserved>>

\* Mutant: the loop forgets that the run above i ends at the used block.
ScanUsedKeepsEnd ==
  /\ pc = "scan" /\ i # -1
  /\ map[i] # FREE
  /\ i' = i - 1
  /\ UNCHANGED <<map, pc, block_end, blocks, result, held, reserved>>

ScanUsed ==
  /\ pc = "scan" /\ i # -1
  /\ map[i] # FREE
  /\ block_end' = i
  /\ i' = i - 1
  /\ UNCHANGED <<map, pc, blocks, result, held, reserved>>

\* Mutant: a `continue` that skips the loop's decrement.
ScanShortStays ==
  /\ pc = "scan" /\ i # -1
  /\ map[i] = FREE
  /\ block_end - i # blocks
  /\ UNCHANGED vars

ScanShort ==
  /\ pc = "scan" /\ i # -1
  /\ map[i] = FREE
  /\ block_end - i # blocks
  /\ i' = i - 1
  /\ UNCHANGED <<map, pc, block_end, blocks, result, held, reserved>>

\* The bounds test with which set_state() opens; it hangs the CPU on failure.
InBounds(start, length) == start + length <= MapLength

ScanFit ==
  /\ pc = "scan" /\ i # -1
  /\ map[i] = FREE
  /\ block_end - i = blocks
  /\ IF InBounds(i, blocks)
     THEN LET run == i .. i + blocks - 1 IN
          /\ map' = [b \in Blocks |-> IF b \in run THEN USED ELSE map[b]]
          /\ held' = [b \in Blocks |-> IF b \in run THEN 1 ELSE held[b]]
          /\ result' = i
          /\ pc' = "idle"
     ELSE pc' = "hung" /\ UNCHANGED <<map, held, result>>
  /\ UNCHANGED <<i, block_end, blocks, reserved>>

ScanFail ==
  /\ pc = "scan" /\ i = -1
  /\ result' = NoBlock
  /\ pc' = "idle"
  /\ UNCHANGED <<map, i, block_end, blocks, held, reserved>>

Scan == ScanUsed \/ ScanShort \/ ScanFit \/ ScanFail

(* increase_ref_count(): fails, changing nothing, on a full or set-aside   *)
(* block.                                                                  *)
\* Mutant: the guard lets the count reach the RESERVED mark.
CanCountToTop(byte) == byte <= RESERVED - 1

CanCount(byte) == byte < RESERVED - 1

IncreaseRefCount(b) ==
  /\ pc = "idle"
  /\ CanCount(map[b])
  /\ map' = [map EXCEPT ![b] = @ + 1]
  /\ held' = [held EXCEPT ![b] = @ + 1]
  /\ UNCHANGED <<scanVars, reserved>>

(* free(): a caller gives up a reference it holds.                         *)
Free(b) ==
  /\ pc = "idle"
  /\ held[b] > 0
  /\ map' = IF map[b] > FREE THEN [map EXCEPT ![b] = @ - 1] ELSE map
  /\ held' = [held EXCEPT ![b] = @ - 1]
  /\ UNCHANGED <<scanVars, reserved>>

Next ==
  \/ \E bytes \in Sizes : AllocEnd(bytes)
  \/ Scan
  \/ \E b \in Blocks : IncreaseRefCount(b) \/ Free(b)

Spec == Init /\ [][Next]_vars

\* The loop is straight-line kernel code, nothing can suspend it.
FairSpec == Spec /\ WF_vars(Scan)

-----------------------------------------------------------------------------
(* Properties.                                                             *)

TypeOK ==
  /\ reserved \in SUBSET Blocks
  /\ map \in [Blocks -> 0 .. TopState]
  /\ held \in [Blocks -> 0 .. TopState]
  /\ pc \in {"idle", "scan", "hung"}
  /\ i \in -1 .. MapLength - 1
  /\ block_end \in 0 .. MapLength
  /\ blocks \in Nat
  /\ result \in Blocks \cup {NoBlock}

(* A byte of the map is either the RESERVED mark of a block nobody holds,  *)
(* or exactly the number of references its callers hold.  The map mixes    *)
(* counts with marks in one byte, so a count that grew one too far would   *)
(* turn the block into a reserved one that no free() gives back.           *)
MapCountsReferences ==
  \A b \in Blocks :
    IF b \in reserved
    THEN map[b] = RESERVED /\ held[b] = 0
    ELSE map[b] = held[b] /\ held[b] <= NON_EXISTANT

(* What alloc_end()'s loop knows at the top of every turn: the blocks above *)
(* i and below block_end are free and too few for the request, block_end is *)
(* the end of the map or a block in use, and no run that would do starts    *)
(* above i.                                                                 *)
FreeRun(first, n) ==
  n > 0 /\ first + n <= MapLength
        /\ \A b \in first .. first + n - 1 : map[b] = FREE

ScanKnows ==
  pc = "scan" =>
    /\ i < block_end
    /\ \A b \in i + 1 .. block_end - 1 : map[b] = FREE
    /\ block_end < MapLength => map[block_end] # FREE
    /\ blocks = 0 \/ block_end - i <= blocks
    /\ \A first \in i + 1 .. MapLength - 1 : ~FreeRun(first, blocks)

(* alloc_end() never takes set_state()'s out-of-bounds exit, which stops   *)
(* the CPU: the run it marks always ends within the map.                   *)
NeverHangs == pc # "hung"

(* alloc_end() and its kin keep the promise of PhysicalMemory: a caller is *)
(* granted the highest run that nobody references, long enough and no      *)
(* longer, or refused because no run there is.                             *)
Abs == INSTANCE PhysicalMemory WITH
  MaxRefs <- NON_EXISTANT,
  refs    <- held,
  wanted  <- IF pc = "scan" THEN blocks ELSE -1,
  reply   <- result

ImplementsPhysicalMemory == Abs!Spec

(* Every alloc_end() returns.                                              *)
AllocReturns == pc = "scan" ~> pc = "idle"

=============================================================================
