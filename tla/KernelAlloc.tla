----------------------------- MODULE KernelAlloc -----------------------------
(***************************************************************************)
(* Kernel::alloc(): memory that is never given back, cut from the front of *)
(* one page table's 4 MiB and backed page by page.  A call is taken turn   *)
(* by turn of its loop, since PMem may run out between two turns.          *)
(***************************************************************************)
EXTENDS Integers

CONSTANTS
  PageSize,     \* KB(4)
  TablePages,   \* entries of a page table, 1024
  Requests,     \* bound: the numbers of bytes callers ask for
  ClientLimit   \* bound: the bytes callers ask for in all

ASSUME TableAssumption == PageSize \in Nat \ {0} /\ TablePages \in Nat \ {0}
ASSUME RequestsAssumption == Requests \subseteq Nat /\ ClientLimit \in Nat

VARIABLES
  pagetable,    \* pagetable[i]: how often entry i was given a block
  alloc_index,
  alloced,
  region,       \* where the memory of the last call begins
  status,       \* "idle", "growing", or how the last call ended otherwise
  granted,      \* history: the regions returned, from a byte to a byte
  supply        \* the blocks PMem can give

allocVars == <<pagetable, alloc_index, alloced, region, status, granted>>

TableBytes == PageSize * TablePages   \* MB(4)
Entries == 0 .. TablePages - 1

tbl_index(virt) == (virt % TableBytes) \div PageSize

AllocInit ==
  /\ pagetable = [i \in Entries |-> 0]
  /\ alloc_index = 0 /\ alloced = 0 /\ region = 0
  /\ status = "idle"
  /\ granted = {}
  /\ supply \in Nat

-----------------------------------------------------------------------------
Callable == status \in {"idle", "failed"}

\* alloc_map + alloc_index
NextAddress == alloc_index

Alloc(bytes) ==
  /\ Callable
  /\ alloc_index < TableBytes
  /\ alloc_index + bytes <= ClientLimit
  /\ region' = NextAddress
  /\ alloc_index' = alloc_index + bytes
  /\ status' = "growing"
  /\ UNCHANGED <<pagetable, alloced, granted, supply>>

\* The limit is looked at before the size is added.
AllocTooMuch ==
  /\ Callable
  /\ alloc_index >= TableBytes
  /\ status' = "out_of_memory"
  /\ UNCHANGED <<pagetable, alloc_index, alloced, region, granted, supply>>

\* Mutant: the last page of a region is left out if it is only partly used.
WantsWholePage == alloc_index >= alloced + PageSize

WantsPage == alloc_index > alloced

Grow ==
  /\ status = "growing" /\ WantsPage
  /\ supply > 0
  /\ supply' = supply - 1
  /\ pagetable' = [pagetable EXCEPT ![tbl_index(alloced)] = @ + 1]
  /\ alloced' = alloced + PageSize
  /\ UNCHANGED <<alloc_index, region, status, granted>>

\* alloc_index stays where it is.
GrowFails ==
  /\ status = "growing" /\ WantsPage
  /\ supply = 0
  /\ status' = "failed"
  /\ UNCHANGED <<pagetable, alloc_index, alloced, region, granted, supply>>

AllocReturns ==
  /\ status = "growing" /\ ~WantsPage
  /\ status' = "idle"
  /\ granted' = granted \cup {[from |-> region, to |-> alloc_index]}
  /\ UNCHANGED <<pagetable, alloc_index, alloced, region, supply>>

\* The rest of the kernel takes blocks from PMem and gives them back.
OthersUsePMem == supply' \in Nat /\ UNCHANGED allocVars

AllocNext ==
  \/ \E bytes \in Requests : Alloc(bytes)
  \/ AllocTooMuch
  \/ Grow
  \/ GrowFails
  \/ AllocReturns
  \/ OthersUsePMem

AllocSpec == AllocInit /\ [][AllocNext]_<<allocVars, supply>>

-----------------------------------------------------------------------------
(* Properties.                                                             *)

AllocTypeOK ==
  /\ pagetable \in [Entries -> Nat]
  /\ alloc_index \in 0 .. ClientLimit
  /\ alloced \in Nat
  /\ region \in 0 .. alloc_index
  /\ status \in {"idle", "growing", "failed", "out_of_memory"}
  /\ granted \subseteq [from : 0 .. ClientLimit, to : 0 .. ClientLimit]
  /\ supply \in Nat

(* Every page of a region that was granted has a block, and keeps the one  *)
(* it was given first: also after calls that failed half way, which leave  *)
(* alloc_index ahead of what is backed.                                    *)
PagesOf(g) == {i \in Entries : i * PageSize < g.to /\ g.from < (i + 1) * PageSize}

GrantsBacked == \A g \in granted : \A i \in PagesOf(g) : pagetable[i] = 1
=============================================================================
