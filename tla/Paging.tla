------------------------------- MODULE Paging -------------------------------
(***************************************************************************)
(* The page directory, the page tables and the metatable through which the *)
(* kernel edits the tables, after Paging::init(): alloc_table(),           *)
(* make_table(), Process::map_page(), alloc_any_memory() and the           *)
(* free_memory() of Process::kill().  There is one directory; a table is   *)
(* the content of the frame that holds it, and the table of directory      *)
(* entry d is edited as tables[d], that is, through metatable entry d.     *)
(***************************************************************************)
EXTENDS Integers, FiniteSets

CONSTANTS
  NumDirs,     \* entries of the directory, 1024; the last is the metatable's
  KernelDir,   \* first entry of the kernel, that of 3 GiB; user space is below
  FirstAlloc,  \* the initial start_entry, that of 0xC1000000
  NumEntries,  \* entries of a table, 1024
  NumFrames    \* the blocks PMem can give

ASSUME LayoutAssumption ==
  /\ NumDirs \in Nat /\ KernelDir \in Nat /\ FirstAlloc \in Nat
  /\ KernelDir < FirstAlloc /\ FirstAlloc < NumDirs - 1
ASSUME SizesAssumption == NumEntries \in Nat /\ NumFrames \in Nat

VARIABLES
  pde,          \* pde[d]: the frame of directory entry d, None if not present
  meta,         \* meta[d]: the same of metatable entry d
  content,      \* content[f]: the entries of the table that frame f can hold
  refs,         \* PMem's reference count of each frame
  start_entry,  \* Paging::start_entry
  hung          \* CPU::out_of_memory() was called

vars == <<pde, meta, content, refs, start_entry, hung>>

Dirs == 0 .. NumDirs - 1
Entries == 0 .. NumEntries - 1
Frames == 0 .. NumFrames - 1
MetaDir == NumDirs - 1
UserDirs == 0 .. KernelDir - 1

None == -1
Junk == -2           \* what a frame holds that nobody wrote a table to
DefaultTable == -3   \* frames inside the kernel's image: the table of the
PMemTable == -4      \* first 4 MiB, the table of PMem::map, and the
Metatable == -5      \* metatable itself

BootEntries ==
  [d \in Dirs |->
    CASE d = KernelDir  -> DefaultTable
      [] d = FirstAlloc -> PMemTable
      [] d = MetaDir    -> Metatable
      [] OTHER          -> None]

\* The state Paging::init() leaves: PMem::init() has taken one entry already.
Init ==
  /\ pde = BootEntries
  /\ meta = BootEntries
  /\ content = [f \in Frames |-> [e \in Entries |-> Junk]]
  /\ refs = [f \in Frames |-> 0]
  /\ start_entry = FirstAlloc + 1
  /\ hung = FALSE

-----------------------------------------------------------------------------
(* Pieces of the operations.                                               *)

\* PMem::alloc_end(KB(4)) gives the highest block without references, as
\* PhysicalMemory says.
Free == {f \in Frames : refs[f] = 0}
Highest(f, among) == f \in among /\ \A g \in among : g <= f

\* Mutant: the entries are left as the frame had them.
MadeTableUncleared(d, f, tables) == tables

\* Mutant: tables[d] is cleared while it still means the table d had before.
MadeTableEarly(d, f, tables) ==
  [tables EXCEPT ![IF meta[d] \in Frames THEN meta[d] ELSE f]
     = [e \in Entries |-> None]]

\* make_table(): tables[d] is frame f once its metatable entry is.
MadeTable(d, f, tables) == [tables EXCEPT ![f] = [e \in Entries |-> None]]

\* A process may leave anything in a page of its own.
Scribbled(f, tables) == [tables EXCEPT ![f] = [e \in Entries |-> Junk]]

SetPage(d, e, f, tables) == Scribbled(f, [tables EXCEPT ![meta'[d]][e] = f])

\* Mutant: the table goes to the directory and not to the metatable.
NewTableUnlisted(d, f) ==
  /\ meta' = IF meta[d] = None THEN [meta EXCEPT ![d] = f] ELSE meta
  /\ pde' = [pde EXCEPT ![d] = f]

NewTable(d, f) ==
  /\ meta' = [meta EXCEPT ![d] = f]
  /\ pde' = [pde EXCEPT ![d] = f]

-----------------------------------------------------------------------------
(* alloc_table() of the kernel; its callers run out of memory with it.     *)

\* alloc_dir_entry()
NextEntry == start_entry + 1

AllocTable ==
  /\ ~hung
  /\ start_entry < MetaDir    \* bound: the boot makes four calls in all
  /\ start_entry' = NextEntry
  /\ pde[start_entry] = None  \* none of the entries from there on is in use
  /\ IF Free = {}
     THEN hung' = TRUE /\ UNCHANGED <<pde, meta, content, refs>>
     ELSE \E f \in Free :
            /\ Highest(f, Free)
            /\ refs' = [refs EXCEPT ![f] = 1]
            /\ NewTable(start_entry, f)
            /\ content' = MadeTable(start_entry, f, content)
            /\ UNCHANGED hung

\* Kernel::alloc(), alloc_table_entry()'s callers and need_memory_at() back a
\* page of a table that alloc_table() gave them, once.
AllocAnyMemory(d, e) ==
  /\ ~hung
  /\ d \in FirstAlloc + 1 .. start_entry - 1
  /\ content[meta[d]][e] = None
  /\ \E f \in Free :
       /\ Highest(f, Free)
       /\ refs' = [refs EXCEPT ![f] = 1]
       /\ meta' = meta
       /\ content' = SetPage(d, e, f, content)
  /\ UNCHANGED <<pde, start_entry, hung>>

-----------------------------------------------------------------------------
(* Process::map_page() of a page in user space.                            *)

MapInTable(d, e) ==
  /\ ~hung
  /\ pde[d] # None
  /\ content[meta[d]][e] = None
  /\ \E f \in Free :
       /\ Highest(f, Free)
       /\ refs' = [refs EXCEPT ![f] = 1]
       /\ meta' = meta
       /\ content' = SetPage(d, e, f, content)
  /\ UNCHANGED <<pde, start_entry, hung>>

MapInNewTable(d, e) ==
  /\ ~hung
  /\ pde[d] = None
  /\ \E t, f \in Free :
       /\ t # f
       /\ Highest(t, Free)
       /\ Highest(f, Free \ {t})
       /\ refs' = [refs EXCEPT ![t] = 1, ![f] = 1]
       /\ NewTable(d, t)
       /\ content' = SetPage(d, e, f, MadeTable(d, t, content))
  /\ UNCHANGED <<start_entry, hung>>

\* The last block went into the table: the call fails, the table stays.
MapOnlyTable(d, e) ==
  /\ ~hung
  /\ pde[d] = None
  /\ \E t \in Free :
       /\ Free = {t}
       /\ refs' = [refs EXCEPT ![t] = 1]
       /\ NewTable(d, t)
       /\ content' = MadeTable(d, t, content)
  /\ UNCHANGED <<start_entry, hung>>

\* The page is there already, or there is no memory at all.
MapNothing(d, e) ==
  /\ ~hung
  /\ IF pde[d] # None THEN content[meta[d]][e] # None \/ Free = {} ELSE Free = {}
  /\ UNCHANGED vars

-----------------------------------------------------------------------------
(* free_memory() of kill(): every present page of every present user table,*)
(* then the table.  The metatable keeps its entries.                       *)

FreedPages == {content[meta[d]][e] : d \in {x \in UserDirs : pde[x] # None},
                                     e \in Entries} \ {None}

\* Mutant: the tables themselves are not given back.
FreedPagesOnly == FreedPages

Freed == FreedPages \cup ({pde[d] : d \in UserDirs} \ {None})

FreeMemory ==
  /\ ~hung
  /\ refs' = [f \in Frames |->
                IF f \in Freed /\ refs[f] > 0 THEN refs[f] - 1 ELSE refs[f]]
  /\ content' = [f \in Frames |->
                   IF \E d \in UserDirs : pde[d] # None /\ meta[d] = f
                   THEN [e \in Entries |-> None] ELSE content[f]]
  /\ pde' = [d \in Dirs |-> IF d \in UserDirs THEN None ELSE pde[d]]
  /\ UNCHANGED <<meta, start_entry, hung>>

\* CPU::hang()
Halted == hung /\ UNCHANGED vars

Next ==
  \/ AllocTable
  \/ \E d \in FirstAlloc + 1 .. MetaDir - 1, e \in Entries : AllocAnyMemory(d, e)
  \/ \E d \in UserDirs, e \in Entries :
       \/ MapInTable(d, e)
       \/ MapInNewTable(d, e)
       \/ MapOnlyTable(d, e)
       \/ MapNothing(d, e)
  \/ FreeMemory
  \/ Halted

Spec == Init /\ [][Next]_vars

-----------------------------------------------------------------------------
(* Properties.                                                             *)

\* The directory entries whose tables PMem's frames hold.
TableDirs == UserDirs \cup (FirstAlloc + 1 .. MetaDir - 1)

\* What the CPU finds behind a page.
Translation(d, e) == IF pde[d] \in Frames THEN content[pde[d]][e] ELSE None

TypeOK ==
  /\ pde \in [Dirs -> Frames \cup {None, DefaultTable, PMemTable, Metatable}]
  /\ meta \in [Dirs -> Frames \cup {None, DefaultTable, PMemTable, Metatable}]
  /\ content \in [Frames -> [Entries -> Frames \cup {None, Junk}]]
  /\ refs \in [Frames -> Nat]
  /\ start_entry \in FirstAlloc + 1 .. MetaDir
  /\ hung \in BOOLEAN

(* tables[d] is the table the CPU uses for entry d: an edit through the    *)
(* metatable never lands in another table or in memory given back.         *)
TablesAreTheDirectorys == \A d \in Dirs : pde[d] # None => meta[d] = pde[d]

(* No page translates through an entry that make_table() did not write.    *)
NoJunkMapped == \A d \in TableDirs, e \in Entries : Translation(d, e) # Junk

(* The uses of a frame, as a table and as a page, are what PMem counts,    *)
(* and there is at most one: nothing is shared, leaked or used when free.  *)
Uses(f) ==
  Cardinality({d \in TableDirs : pde[d] = f})
    + Cardinality({p \in TableDirs \X Entries : Translation(p[1], p[2]) = f})

FramesAccounted == \A f \in Frames : refs[f] = Uses(f) /\ refs[f] <= 1

(* The tables and the metatable together are an AddressSpace.              *)
Space == INSTANCE AddressSpace WITH
  Pages     <- TableDirs \X Entries,
  UserPages <- UserDirs \X Entries,
  NoFrame   <- None,
  mapping   <- [p \in TableDirs \X Entries |-> Translation(p[1], p[2])]

ImplementsAddressSpace == Space!Spec
=============================================================================
