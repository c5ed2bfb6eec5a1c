----------------------------- MODULE BootMemory -----------------------------
(***************************************************************************)
(* PMem::init(): how the kernel finds memory for PMem::map in the boot     *)
(* loader's memory map, and which blocks it sets aside before the first    *)
(* allocation.  The recursion over the entries goes down to the last one   *)
(* and adds pages on its way back up; then come the loops of               *)
(* reserve_map_entries().                                                  *)
(***************************************************************************)
EXTENDS Integers, Sequences, FiniteSetsExt, SequencesExt

CONSTANTS
  PageSize,     \* KB(4); a page of the map describes PageSize * PageSize bytes
  MemoryEnd,    \* bound: end of the boot loader's memory map, below 4 GiB
  MaxEntries,   \* bound: its entries
  KernelStart,  \* physical start and end of the kernel's image
  KernelEnd

ASSUME PageSizeAssumption == PageSize \in Nat \ {0}
ASSUME MapAssumption == MemoryEnd \in Nat \ {0} /\ MaxEntries \in Nat \ {0}
ASSUME KernelAssumption ==
  /\ KernelStart \in Nat /\ KernelEnd \in Nat
  /\ KernelStart < KernelEnd /\ KernelEnd <= MemoryEnd
  /\ KernelStart % PageSize = 0   \* linker.ld puts it at 1 MiB

VARIABLES
  entries,       \* Multiboot::mbt's memory map
  given,         \* history: the memory map as the boot loader gave it
  pc,            \* the loop init() is in, "ready", "out_of_memory" or "hung"
  index,         \* the entry the recursion, then the loop, is at
  total_memory,  \* PMem's total_memory
  pages,         \* pagetable: the pages that PMem::map is in, in its order
  map            \* PMem::map

vars == <<entries, given, pc, index, total_memory, pages, map>>

FREE == 0
RESERVED == 255

Kinds == {"available", "reserved", "unlisted"}

ceildiv(a, b) == IF a = 0 THEN 0 ELSE ((a - 1) \div b) + 1
floorg(n, granularity) == (n \div granularity) * granularity

\* ceilg(); that of 0 is 0 by its wrap-around.
ceilg(n, granularity) == ceildiv(n, granularity) * granularity

\* The entry of the bytes from one cut of the memory to the next.
Entry(cuts, kinds, i) ==
  [addr |-> cuts[i], len |-> cuts[i + 1] - cuts[i], type |-> kinds[i]]

\* The memory maps: ascending entries that do not overlap, with holes.
MemoryMap(cuts, kinds) ==
  SelectSeq([i \in 1 .. Len(cuts) - 1 |-> Entry(cuts, kinds, i)],
            LAMBDA e : e.type # "unlisted")

EndOf(e) == e.addr + e.len

Ascending(list) ==
  /\ list \in Seq([addr : 0 .. MemoryEnd, len : 1 .. MemoryEnd,
                   type : {"available", "reserved"}])
  /\ \A i \in DOMAIN list : EndOf(list[i]) <= MemoryEnd
  /\ \A i, j \in DOMAIN list : i < j => EndOf(list[i]) <= list[j].addr

Holds(e, first, end) == e.addr <= first /\ end <= EndOf(e)

\* The boot loader put the kernel, in whole pages, into one available area.
KernelFits(list) ==
  \E i \in DOMAIN list :
    /\ list[i].type = "available"
    /\ Holds(list[i], KernelStart, ceilg(KernelEnd, PageSize))

Init ==
  /\ \E n \in 0 .. MaxEntries - 1 :
     \E inner \in kSubset(n, 1 .. MemoryEnd - 1) :
     \E kinds \in [1 .. n + 1 -> Kinds] :
       entries = MemoryMap(SetToSortSeq(inner \cup {0, MemoryEnd}, <), kinds)
  /\ Ascending(entries)
  /\ KernelFits(entries)
  /\ given = entries
  /\ pc = "scan"
  /\ index = 1
  /\ total_memory = 0
  /\ pages = <<>>
  /\ map = <<>>

-----------------------------------------------------------------------------
(* add_pagetable_entries_for_mementry()                                    *)

\* Mutant: the last entry decides.
TotalWithLast(e) == IF e.type = "available" THEN EndOf(e) ELSE 0

TotalWith(e) ==
  IF e.type = "available" THEN Max({EndOf(e), total_memory}) ELSE total_memory

\* On the way down: every entry counts for the end of memory.
ScanEntry ==
  /\ pc = "scan"
  /\ total_memory' = TotalWith(entries[index])
  /\ IF index < Len(entries)
     THEN index' = index + 1 /\ UNCHANGED pc
     ELSE pc' = "add" /\ UNCHANGED index
  /\ UNCHANGED <<entries, given, pages, map>>

\* Mutant: a part of a map page is not counted.
NeededFloor == total_memory \div (PageSize * PageSize)

\* blocks_needed; map_length is still 0 then.
Needed == ceildiv(total_memory, PageSize * PageSize)

\* process_area(): at most n whole pages from an area, lowest first.
WholePages(first, last, n) ==
  LET from  == ceilg(first, PageSize)
      count == (floorg(last, PageSize) - from) \div PageSize
  IN IF from >= floorg(last, PageSize) THEN <<>>
     ELSE [i \in 1 .. Min({n, count}) |-> from + (i - 1) * PageSize]

\* Mutant: no area is split.
AreaPagesUnsplit(first, last, n) == WholePages(first, last, n)

\* Mutant: what is above the kernel is forgotten.
AreaPagesBelow(first, last, n) ==
  WholePages(first,
             IF KernelStart >= first /\ KernelStart < last
             THEN KernelStart ELSE last, n)

\* offset_for_kernel(): the second half of its condition is never true.
AreaPages(first, last, n) ==
  IF KernelStart >= first /\ KernelStart < last
  THEN LET below == WholePages(first, KernelStart, n)
       IN below \o WholePages(KernelEnd, last, n - Len(below))
  ELSE WholePages(first, last, n)

\* What an entry adds: the page of its last byte is never used.
PagesFrom(e) ==
  IF e.type # "available" THEN <<>>
  ELSE AreaPages(ceilg(e.addr, PageSize), floorg(EndOf(e) - 1, PageSize), Needed)

\* On the way up: each entry has to give all that is needed by itself.
AddEntry ==
  /\ pc = "add"
  /\ LET new == PagesFrom(entries[index]) IN
     /\ pages' = pages \o new
     /\ CASE Len(new) = Needed              -> pc' = "clear" /\ UNCHANGED index
          [] Len(new) < Needed /\ index > 1 -> index' = index - 1 /\ UNCHANGED pc
          [] OTHER -> pc' = "out_of_memory" /\ UNCHANGED index
  /\ UNCHANGED <<entries, given, total_memory, map>>

-----------------------------------------------------------------------------
(* clear_memory_map() and reserve_map_entries()                            *)

MapLength == total_memory \div PageSize

ClearMap ==
  /\ pc = "clear"
  /\ map' = [b \in 0 .. MapLength - 1 |-> FREE]
  /\ pc' = "reserve_entries"
  /\ index' = 1
  /\ UNCHANGED <<entries, given, total_memory, pages>>

\* Mutant: the last block, if only partly in the range, is left out.
BlocksFloor(addr, bytes) ==
  LET start == addr \div PageSize
  IN start .. start + (bytes \div PageSize) - 1

BlocksOf(addr, bytes) ==
  LET start == addr \div PageSize
  IN start .. start + ceildiv(bytes, PageSize) - 1

OutOfBounds(addr, bytes) == \E b \in BlocksOf(addr, bytes) : b >= MapLength

\* PMem::set_state(..., RESERVED) and where it goes on.
Reserve(addr, bytes, next) ==
  IF OutOfBounds(addr, bytes)
  THEN pc' = "hung" /\ UNCHANGED map
  ELSE /\ pc' = next
       /\ map' = [b \in DOMAIN map |->
                    IF b \in BlocksOf(addr, bytes) THEN RESERVED ELSE map[b]]

\* entry = get_next_entry(entry): the first entry becomes a copy of the one
\* that follows it in memory, every time.
Advanced ==
  IF Len(entries) = 1 THEN entries ELSE [entries EXCEPT ![1] = entries[2]]

\* One turn of the loop over the entries' length.
ReserveEntry ==
  /\ pc = "reserve_entries"
  /\ index <= Len(entries)
  /\ IF entries[1].type # "available"
     THEN Reserve(entries[1].addr, entries[1].len, "reserve_entries")
     ELSE UNCHANGED <<pc, map>>
  /\ index' = index + 1
  /\ entries' = Advanced
  /\ UNCHANGED <<given, total_memory, pages>>

ReserveKernel ==
  /\ pc = "reserve_entries"
  /\ index > Len(entries)
  /\ Reserve(KernelStart, KernelEnd - KernelStart, "reserve_map")
  /\ index' = 1
  /\ UNCHANGED <<entries, given, total_memory, pages>>

\* One turn of the loop over the pagetable's present entries.
ReserveMapPage ==
  /\ pc = "reserve_map"
  /\ index <= Len(pages)
  /\ IF pages[index] < total_memory
     THEN Reserve(pages[index], PageSize, "reserve_map")
     ELSE UNCHANGED <<pc, map>>
  /\ index' = index + 1
  /\ UNCHANGED <<entries, given, total_memory, pages>>

Finish ==
  /\ pc = "reserve_map"
  /\ index > Len(pages)
  /\ pc' = "ready"
  /\ UNCHANGED <<entries, given, index, total_memory, pages, map>>

\* init() has returned, or CPU::hang() has the CPU.
Over == pc \in {"ready", "out_of_memory", "hung"} /\ UNCHANGED vars

Next ==
  \/ ScanEntry
  \/ AddEntry
  \/ ClearMap
  \/ ReserveEntry
  \/ ReserveKernel
  \/ ReserveMapPage
  \/ Finish
  \/ Over

Spec == Init /\ [][Next]_vars

-----------------------------------------------------------------------------
(* Properties.                                                             *)

TypeOK ==
  /\ pc \in {"scan", "add", "clear", "reserve_entries", "reserve_map",
             "ready", "out_of_memory", "hung"}
  /\ Len(entries) = Len(given)
  /\ index \in Nat \ {0}
  /\ total_memory \in 0 .. MemoryEnd
  /\ pages \in Seq(0 .. MemoryEnd - PageSize)
  /\ map # <<>> => map \in [0 .. MapLength - 1 -> {FREE, RESERVED}]

(* PMem::map lies in whole pages of available memory outside the kernel's  *)
(* image, and in no page twice.                                            *)
PageIn(page, first, end) == first <= page /\ page + PageSize <= end

MapPagesUsable ==
  \A i \in DOMAIN pages :
    /\ \E k \in DOMAIN given :
          /\ given[k].type = "available"
          /\ PageIn(pages[i], given[k].addr, EndOf(given[k]))
    /\ pages[i] + PageSize <= KernelStart \/ KernelEnd <= pages[i]
    /\ \A j \in DOMAIN pages : pages[i] = pages[j] => i = j

(* The bytes of the map that are cleared and used are all in memory.       *)
MapFitsItsPages == map # <<>> => MapLength <= Len(pages) * PageSize

(* When init() returns, no allocation can get a block of the kernel's      *)
(* image or one that PMem::map is in.                                      *)
OwnMemoryReserved ==
  pc = "ready" =>
    /\ \A b \in KernelStart \div PageSize .. (KernelEnd - 1) \div PageSize :
          map[b] = RESERVED
    /\ \A i \in DOMAIN pages : map[pages[i] \div PageSize] = RESERVED

(* The boot stops for want of memory only when no area has more pages than *)
(* the map needs; how much the areas have together does not count.         *)
UsablePages(e) ==
  {p \in 0 .. MapLength - 1 :
     /\ e.type = "available"
     /\ PageIn(p * PageSize, e.addr, EndOf(e))
     /\ (p + 1) * PageSize <= KernelStart \/ KernelEnd <= p * PageSize}

OutOfMemoryIsReal ==
  pc = "out_of_memory" =>
    \A k \in DOMAIN given : Cardinality(UsablePages(given[k])) <= Needed

(* The boot stops in set_state() only for a reserved area past the end of  *)
(* the available memory, and only if it is the first or the second entry.  *)
HangsForAreaAbove ==
  pc = "hung" =>
    \E k \in {1, 2} \cap DOMAIN given :
      given[k].type = "reserved" /\ EndOf(given[k]) > MapLength * PageSize

(* "Reserve memory from map entries." (pmem_init.cpp:125): each reserved   *)
(* area of the memory map that the map covers is set aside.                *)
ReservedEntriesReserved ==
  pc = "ready" =>
    \A k \in DOMAIN given :
      /\ given[k].type = "reserved"
      /\ ~OutOfBounds(given[k].addr, given[k].len)
      => \A b \in BlocksOf(given[k].addr, given[k].len) : map[b] = RESERVED
=============================================================================
