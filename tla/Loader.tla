------------------------------- MODULE Loader -------------------------------
(***************************************************************************)
(* Elf::extract(): a program of the ramdisk is read through a TarReader    *)
(* into the memory of the current process, whose pages map_page() backs    *)
(* one by one.  A cell of the file is a byte, or one of its headers; a     *)
(* byte is named by its place in the file.                                 *)
(***************************************************************************)
EXTENDS Integers, FiniteSets

CONSTANTS
  PageSize,    \* KB(4)
  NumPages,    \* bound: pages of user space
  NumEntries,  \* pages of a page table, 1024
  FileSize,    \* bound: cells of the file, TarReader::m_size
  NumHeaders,  \* bound: m_header.ph_num
  MaxBytes,    \* bound: size of a segment
  MaxSupply,   \* bound: blocks PMem can give
  SizeValues   \* 2^32, values of a size_t

ASSUME SizesAssumption ==
  /\ PageSize \in Nat \ {0} /\ NumPages \in Nat /\ NumEntries \in Nat \ {0}
  /\ MaxBytes \in Nat /\ MaxSupply \in Nat
ASSUME FileAssumption ==
  /\ NumHeaders \in Nat /\ FileSize \in Nat /\ NumHeaders < FileSize
  /\ SizeValues \in Nat /\ 2 * FileSize < SizeValues

VARIABLES
  headers,       \* the program headers in the file
  given,         \* history: the blocks PMem could give at the start
  supply,        \* the blocks PMem can give
  tables,        \* the directory entries of user space with a table
  mapped,        \* the pages of user space with a block
  memory,        \* memory[a]: the cell of the file at address a, or Junk
  m_position,    \* TarReader::m_position
  header_index,  \* ElfProgramReader::header_index
  header,        \* ElfProgramReader::header
  block,         \* i of prepare_blocks()
  pc             \* "next", "prepare", "done", "failed" or "fault"

mapVars == <<supply, tables, mapped>>
vars == <<headers, given, mapVars, memory, m_position, header_index, header,
          block, pc>>

Junk == -1   \* what a block holds that nobody has written

Addresses == 0 .. PageSize * NumPages - 1
PageOf(address) == address \div PageSize
TableOf(page) == page \div NumEntries

ceildiv(a, b) == IF a = 0 THEN 0 ELSE ((a - 1) \div b) + 1

Least(a, b) == IF a < b THEN a ELSE b

\* PH_LOAD headers as linkers make them: an offset in the file congruent to
\* the address, which is not always aligned.
Segments ==
  {s \in [load : {TRUE}, offset : 0 .. FileSize - 1, vaddr : Addresses,
          size_in_file : 0 .. MaxBytes, size_in_memory : 0 .. MaxBytes] :
     /\ s.offset % PageSize = s.vaddr % PageSize
     /\ s.vaddr + s.size_in_memory <= PageSize * NumPages}

Other == [load |-> FALSE]

\* Ascending, and apart.
InOrder(list) ==
  \A i, j \in DOMAIN list :
    i < j /\ list[i].load /\ list[j].load =>
      list[i].vaddr + list[i].size_in_memory <= list[j].vaddr

Init ==
  /\ headers \in [1 .. NumHeaders -> Segments \cup {Other}]
  /\ InOrder(headers)
  /\ given \in 0 .. MaxSupply
  /\ supply = given
  /\ tables = {} /\ mapped = {}
  /\ memory = [a \in Addresses |-> Junk]
  /\ m_position = 0   \* where is_valid() has read the file's own header
  /\ header_index = 0
  /\ header = Other
  /\ block = 0
  /\ pc = "next"

-----------------------------------------------------------------------------
(* TarReader                                                               *)

\* Mutant: the reader goes on from where it is.
SeekNowhere(address) == m_position

\* seek() from the beginning
Seek(address) == address

\* How much of len bytes read() gives: remaining() wraps past the end.
ReadLength(position, len) == Least(len, (FileSize - position) % SizeValues)

\* m_position += m_position
AfterRead(position) == (position + position) % SizeValues

-----------------------------------------------------------------------------
(* extract_programs()                                                      *)

\* The file's header is its cell 0 and the program headers follow it: cell
\* ph_off + i * ph_entsize is the header with index i.
HeaderAt(position) ==
  IF position \in 1 .. NumHeaders THEN headers[position] ELSE Other

\* read_next_program_header()
NextHeader ==
  /\ pc = "next"
  /\ header_index < NumHeaders
  /\ LET position == Seek(1 + header_index) IN
     /\ header' = IF ReadLength(position, 1) = 1 THEN HeaderAt(position) ELSE header
     /\ m_position' = AfterRead(position)
  /\ header_index' = header_index + 1
  /\ pc' = IF header'.load THEN "prepare" ELSE "next"
  /\ block' = 0
  /\ UNCHANGED <<headers, given, mapVars, memory>>

LastHeader ==
  /\ pc = "next"
  /\ header_index = NumHeaders
  /\ pc' = "done"
  /\ UNCHANGED <<headers, given, mapVars, memory, m_position, header_index,
                 header, block>>

-----------------------------------------------------------------------------
(* extract_program(): prepare_blocks(), then the file's bytes.             *)

\* Mutant: the part of a page at the end gets none.
NumBlocksFloor(h) == h.size_in_memory \div PageSize

\* num_blocks, whatever the place of the address in its page.
NumBlocks(h) == ceildiv(h.size_in_memory, PageSize)

Page == PageOf(header.vaddr + block * PageSize)

\* Mutant: a page that is present gets another block.
BlocksForAgain == IF TableOf(Page) \in tables THEN 1 ELSE 2

\* What map_page() takes from PMem: a table if there is none, and a block
\* for the page unless it is present.
BlocksFor ==
  IF Page \in mapped THEN 0 ELSE IF TableOf(Page) \in tables THEN 1 ELSE 2

Preparing == pc = "prepare" /\ block < NumBlocks(header)

PrepareBlock ==
  /\ Preparing
  /\ BlocksFor <= supply
  /\ supply' = supply - BlocksFor
  /\ tables' = tables \cup {TableOf(Page)}
  /\ mapped' = mapped \cup {Page}
  /\ block' = block + 1
  /\ UNCHANGED <<headers, given, memory, m_position, header_index, header, pc>>

\* Mutant: the call that fails takes nothing.
TablesAfterFailureNone == tables

\* With the last block map_page() makes the table and then fails.
TablesAfterFailure == IF supply = 1 THEN tables \cup {TableOf(Page)} ELSE tables

PrepareFails ==
  /\ Preparing
  /\ BlocksFor > supply
  /\ supply' = 0
  /\ tables' = TablesAfterFailure
  /\ pc' = "failed"
  /\ UNCHANGED <<headers, given, mapped, memory, m_position, header_index,
                 header, block>>

\* bytes_to_copy
BytesToCopy(h) == Least(h.size_in_memory, h.size_in_file)

\* The bytes before the first page that is not there, where the CPU faults.
Reach(start, n) ==
  CHOOSE k \in 0 .. n :
    /\ \A j \in 0 .. k - 1 : PageOf(start + j) \in mapped
    /\ k < n => PageOf(start + k) \notin mapped

CopyContent ==
  /\ pc = "prepare"
  /\ block = NumBlocks(header)
  /\ LET position == Seek(header.offset)
         n == ReadLength(position, BytesToCopy(header))
         written == Reach(header.vaddr, n)
     IN /\ memory' = [a \in Addresses |->
                        IF a \in header.vaddr .. header.vaddr + written - 1
                        THEN position + (a - header.vaddr) ELSE memory[a]]
        /\ m_position' = AfterRead(position)
        /\ pc' = IF written = n THEN "next" ELSE "fault"
  /\ UNCHANGED <<headers, given, mapVars, header_index, header, block>>

\* extract() has returned, or CPU::hang() has the CPU.
Over == pc \in {"done", "failed", "fault"} /\ UNCHANGED vars

Next ==
  \/ NextHeader
  \/ LastHeader
  \/ PrepareBlock
  \/ PrepareFails
  \/ CopyContent
  \/ Over

Spec == Init /\ [][Next]_vars

-----------------------------------------------------------------------------
(* Properties.                                                             *)

TypeOK ==
  /\ pc \in {"next", "prepare", "done", "failed", "fault"}
  /\ supply \in 0 .. given
  /\ mapped \subseteq 0 .. NumPages - 1
  /\ tables \subseteq {TableOf(p) : p \in 0 .. NumPages - 1}
  /\ memory \in [Addresses -> 0 .. FileSize - 1 \cup {Junk}]
  /\ m_position \in 0 .. SizeValues - 1
  /\ header_index \in 0 .. NumHeaders
  /\ header \in Segments \cup {Other}
  /\ block \in Nat

\* The segments, and the byte that the program expects at an address.
Loads == {headers[i] : i \in {k \in 1 .. NumHeaders : headers[k].load}}

InFile(s, a) ==
  LET k == a - s.vaddr
  IN k >= 0 /\ k < s.size_in_memory /\ k < s.size_in_file
            /\ s.offset + k < FileSize

Image(a) ==
  IF \E s \in Loads : InFile(s, a)
  THEN LET s == CHOOSE s \in Loads : InFile(s, a) IN s.offset + (a - s.vaddr)
  ELSE Junk

(* A successful extract() leaves each byte of the file that a segment has  *)
(* at its address, also where two segments share a page; whatever the      *)
(* outcome, no other byte is written.                                      *)
ImageIsLoaded ==
  \A a \in Addresses :
    memory[a] = Image(a) \/ (memory[a] = Junk /\ pc # "done")

\* The pages that the segments' blocks are in.
NeededPages ==
  UNION {{PageOf(s.vaddr) + b : b \in 0 .. NumBlocks(s) - 1} : s \in Loads}

(* Every block that extract() took from PMem is a page of a segment or a   *)
(* table, also when it fails half way: that is all kill() can give back.   *)
BlocksAccounted ==
  /\ given - supply = Cardinality(mapped) + Cardinality(tables)
  /\ mapped \subseteq NeededPages

(* extract() fails only if PMem had fewer blocks than pages and tables are *)
(* needed: one for each, however many segments are in it.                  *)
FailsForMemory ==
  pc = "failed" =>
    Cardinality(NeededPages)
      + Cardinality({TableOf(p) : p \in NeededPages}) > given

(* The copy touches a page that was not prepared only for a segment whose  *)
(* address is not aligned to a page, which linker.ld makes none of.        *)
FaultsOnlyUnaligned == pc = "fault" => header.vaddr % PageSize # 0
=============================================================================
