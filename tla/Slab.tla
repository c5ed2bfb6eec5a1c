-------------------------------- MODULE Slab --------------------------------
(***************************************************************************)
(* Slab<T> of slab.hpp: a 4 MiB page table's worth of address space, with  *)
(* elements growing up from its start and an array of free element offsets *)
(* growing down from its end, each page of either backed by a PMem block   *)
(* on first use.  An element is named by its offset from m_elements.       *)
(***************************************************************************)
EXTENDS Integers, FiniteSets

CONSTANTS
  TableSize,    \* MB(4), the bytes one page table maps
  PageSize,     \* KB(4)
  ElementSize,  \* m_element_size; init() hangs the CPU on 0
  WordSize,     \* sizeof(size_t)
  ClientLimit,  \* bound: how many elements users hold (or lost) at once
  MaxSupply     \* bound: the blocks PMem has left to give

ASSUME SizesAssumption ==
  /\ TableSize \in Nat /\ PageSize \in Nat \ {0}
  /\ ElementSize \in Nat \ {0} /\ WordSize \in Nat \ {0}
ASSUME BoundsAssumption == ClientLimit \in Nat /\ MaxSupply \in Nat

VARIABLES
  free,         \* m_free, by index
  freeIndex,    \* m_free_index: top of the stack of free offsets
  freeCreated,  \* m_free_created: the entries above it have been written
  present,      \* the pages of the table that are backed by memory
  supply,       \* how many blocks PMem::alloc_end() can still give
  live,         \* history: the elements handed out and not freed
  lost,         \* history: the elements popped by an alloc() that then failed
  faulted       \* a write went to a page without memory: the kernel hangs

vars == <<free, freeIndex, freeCreated, present, supply, live, lost, faulted>>

Capacity == TableSize \div (ElementSize + WordSize)

\* Byte offset of m_free[index] in the table: the array ends where it ends.
EntryOffset(index) == TableSize - (Capacity - index) * WordSize

PageOf(offset) == offset \div PageSize

Unwritten == -1

\* size_t indexes, those past a wrapped zero counted as negative numbers.
Indexes == Capacity - ClientLimit .. Capacity - 1

Init ==
  /\ free = [index \in Indexes |-> Unwritten]
  /\ freeIndex = Capacity - 1
  /\ freeCreated = Capacity - 1
  /\ present = {}
  /\ supply \in 0 .. MaxSupply
  /\ live = {}
  /\ lost = {}
  /\ faulted = FALSE

-----------------------------------------------------------------------------
(* alloc() = pop() and then need_memory_at() the element.  pop() creates   *)
(* the next entry when no freed one is on the stack, and needs memory for  *)
(* it.                                                                     *)

Fresh == freeCreated = freeIndex

\* Mutant: the offset counts from the wrong end.
NextElementOneUp == (Capacity - freeCreated) * ElementSize

NextElement == (Capacity - freeCreated - 1) * ElementSize

Popped == IF Fresh THEN NextElement ELSE free[freeIndex]

\* Mutant: pop() trusts the page of a fresh entry to be there.
PopPagesUnbacked == present

\* The pages present after pop(), and after all of alloc().
PopPages ==
  IF Fresh THEN present \cup {PageOf(EntryOffset(freeIndex))} ELSE present

\* Mutant: alloc() only makes room for the entry, not for the element.
AllocPagesNoElement == PopPages

AllocPages == PopPages \cup {PageOf(Popped)}

\* need_memory_at() takes one block of PMem for a page not yet present.
Cost(offset, pages) == IF PageOf(offset) \in pages THEN 0 ELSE 1
PopCost == IF Fresh THEN Cost(EntryOffset(freeIndex), present) ELSE 0
AllocCost == PopCost + Cost(Popped, PopPages)

\* Mutant: a fresh entry is left to be created once more.
PopForgets ==
  /\ free' = [free EXCEPT ![freeIndex] = Popped]
  /\ freeIndex' = freeIndex - 1
  /\ UNCHANGED freeCreated

Pop ==
  /\ free' = [free EXCEPT ![freeIndex] = Popped]
  /\ freeCreated' = IF Fresh THEN freeCreated - 1 ELSE freeCreated
  /\ freeIndex' = freeIndex - 1

CanAlloc ==
  /\ ~faulted
  /\ freeIndex # Capacity
  /\ Capacity - 1 - freeIndex < ClientLimit

AllocSucceeds ==
  /\ CanAlloc
  /\ AllocCost <= supply
  /\ Pop
  /\ present' = AllocPages
  /\ supply' = supply - AllocCost
  /\ live' = live \cup {Popped}
  /\ UNCHANGED <<lost, faulted>>

\* There is memory for the entry and then none for the element, which by
\* now is off the stack.
AllocLoses ==
  /\ CanAlloc
  /\ PopCost <= supply
  /\ AllocCost > supply
  /\ Pop
  /\ present' = PopPages
  /\ supply' = supply - PopCost
  /\ lost' = lost \cup {Popped}
  /\ UNCHANGED <<live, faulted>>

\* pop() finds no memory for the entry; the failed alloc() changes nothing.
AllocFails ==
  /\ CanAlloc
  /\ PopCost > supply
  /\ UNCHANGED vars

-----------------------------------------------------------------------------
(* free(): push() the element's offset on the stack.                       *)

\* Mutant: post-increment, the offset lands on the entry below.
PushSlotLow == freeIndex

PushSlot == freeIndex + 1

Free(element) ==
  /\ ~faulted
  /\ element \in live
  /\ IF PageOf(EntryOffset(PushSlot)) \in present
     THEN /\ free' = [free EXCEPT ![PushSlot] = element]
          /\ freeIndex' = freeIndex + 1
          /\ live' = live \ {element}
          /\ UNCHANGED faulted
     ELSE faulted' = TRUE /\ UNCHANGED <<free, freeIndex, live>>
  /\ UNCHANGED <<freeCreated, present, supply, lost>>

\* The rest of the kernel takes blocks from PMem and gives blocks back.
OthersUseMemory ==
  /\ supply' \in 0 .. MaxSupply
  /\ UNCHANGED <<free, freeIndex, freeCreated, present, live, lost, faulted>>

Next ==
  \/ AllocSucceeds
  \/ AllocLoses
  \/ AllocFails
  \/ \E element \in live : Free(element)
  \/ OthersUseMemory

Spec == Init /\ [][Next]_vars

-----------------------------------------------------------------------------
(* Properties.                                                             *)

\* The first n elements of the table.
Elements(n) == {k * ElementSize : k \in 0 .. n - 1}

TypeOK ==
  /\ free \in [Indexes -> Int]
  /\ freeIndex \in Indexes \cup {Capacity - ClientLimit - 1}
  /\ freeCreated \in Indexes \cup {Capacity - ClientLimit - 1}
  /\ present \subseteq Int
  /\ supply \in 0 .. MaxSupply
  /\ live \subseteq Elements(ClientLimit)
  /\ lost \subseteq Elements(ClientLimit)
  /\ faulted \in BOOLEAN

(* The elements created so far are each in exactly one place: with a user, *)
(* lost, or once on the stack between m_free_created and m_free_index; and *)
(* m_free_index counts the elements that are not on the stack.             *)
OnStack == {free[index] : index \in freeCreated + 1 .. freeIndex}

EveryElementOnce ==
  /\ freeCreated <= freeIndex
  /\ live \cup lost \cup OnStack = Elements(Capacity - 1 - freeCreated)
  /\ live \cap lost = {}
  /\ (live \cup lost) \cap OnStack = {}
  /\ IsFiniteSet(live \cup lost)
  /\ Cardinality(live \cup lost) = Capacity - 1 - freeIndex
  /\ \A f, g \in freeCreated + 1 .. freeIndex :
        free[f] = free[g] => f = g

(* push() writes where pop() has put memory before: slab.hpp:104 says so   *)
(* and free() checks nothing.                                              *)
PushIsBacked == ~faulted

(* An element that users hold starts in memory, and ends there too when    *)
(* its size divides the page.                                              *)
ElementsBacked ==
  \A element \in live :
    /\ PageOf(element) \in present
    /\ PageSize % ElementSize = 0 =>
         PageOf(element + ElementSize - 1) \in present

(* No element reaches into the array of free offsets.                      *)
ElementsBelowFreeArray ==
  \A element \in live : element + ElementSize <= EntryOffset(0)

(* A slab is a pool of Capacity objects, each with one user at a time.     *)
Pool == INSTANCE ObjectPool WITH
  Objects   <- Elements(Capacity),
  available <- Elements(Capacity) \ (live \cup lost)

ImplementsPool == Pool!Spec
=============================================================================
