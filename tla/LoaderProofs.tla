---------------------------- MODULE LoaderProofs ----------------------------
(***************************************************************************)
(* Proofs about Loader, for every page and table size, file, list of       *)
(* segments as linkers make them and supply of blocks.                     *)
(***************************************************************************)
EXTENDS Loader, FiniteSetTheorems, WellFoundedInduction, TLAPS

USE SizesAssumption, FileAssumption

Pages == 0 .. NumPages - 1

NeededTables == {TableOf(p) : p \in NeededPages}

Types ==
  /\ TypeOK
  /\ headers \in [1 .. NumHeaders -> Segments \cup {Other}] /\ InOrder(headers)
  /\ given \in Nat /\ supply \in Nat

\* The header that extract_program() is at.
AtHeader ==
  pc \in {"prepare", "failed", "fault"} =>
    /\ header_index \in 1 .. NumHeaders
    /\ header = headers[header_index] /\ header.load

AtEnd == pc = "done" => header_index = NumHeaders

\* The blocks prepare_blocks() is done with, of the header it is at.
Prepared ==
  pc = "prepare" =>
    /\ block <= NumBlocks(header)
    /\ \A b \in 0 .. block - 1 : PageOf(header.vaddr) + b \in mapped

\* A page that is there has its table, and a table has a page that is needed.
TablesNeeded ==
  /\ tables \subseteq NeededTables
  /\ \A p \in mapped : TableOf(p) \in tables

\* The headers whose segments are in memory.
Finished == IF pc \in {"next", "done"} THEN header_index ELSE header_index - 1

FinishedLoaded ==
  \A i \in 1 .. Finished : headers[i].load =>
    \A a \in Addresses : InFile(headers[i], a) => memory[a] = Image(a)

NothingElse == \A a \in Addresses : memory[a] # Junk => memory[a] = Image(a)

IInv ==
  /\ Types /\ AtHeader /\ AtEnd
  /\ Prepared /\ TablesNeeded /\ BlocksAccounted
  /\ FinishedLoaded /\ NothingElse
  /\ FailsForMemory /\ FaultsOnlyUnaligned

-----------------------------------------------------------------------------
(* A set of natural numbers has a least one.                               *)
LEMMA LeastNumber ==
  ASSUME NEW S, S \subseteq Nat, S # {}
  PROVE  \E n \in S : \A m \in S : n <= m
<1> DEFINE R == OpToRel(<, Nat)
<1>1. IsWellFoundedOn(R, Nat)
      BY NatLessThanWellFounded
<1>2. \A x, y \in Nat : <<x, y>> \in R <=> x < y
      BY DEF OpToRel
<1> HIDE DEF R
<1>3. PICK n \in S : \A m \in S : ~ (<<m, n>> \in R)
      BY <1>1, WFMin
<1>4. \A m \in S : ~ (m < n)
      BY <1>2, <1>3
<1>5. \A m \in S : n <= m
      BY <1>4
<1> QED BY <1>5

-----------------------------------------------------------------------------
(* The page of an address, and of one some pages and bytes on.             *)
LEMMA PageBounds ==
  ASSUME NEW a \in Nat
  PROVE  /\ PageOf(a) \in Nat
         /\ PageOf(a) * PageSize <= a /\ a < (PageOf(a) + 1) * PageSize
BY DEF PageOf

LEMMA PageIs ==
  ASSUME NEW a \in Nat, NEW p \in Nat, p * PageSize <= a, a < (p + 1) * PageSize
  PROVE  PageOf(a) = p
BY DEF PageOf

LEMMA PageFurther ==
  ASSUME NEW a \in Nat, NEW b \in Nat
  PROVE  PageOf(a + b * PageSize) = PageOf(a) + b
<1>1. /\ PageOf(a) \in Nat
      /\ PageOf(a) * PageSize <= a /\ a < (PageOf(a) + 1) * PageSize
      BY PageBounds
<1>2. /\ (PageOf(a) + b) * PageSize = PageOf(a) * PageSize + b * PageSize
      /\ (PageOf(a) + b + 1) * PageSize = (PageOf(a) + 1) * PageSize + b * PageSize
      BY <1>1
<1>3. b * PageSize \in Nat /\ a + b * PageSize \in Nat
      OBVIOUS
<1> QED BY <1>1, <1>2, <1>3, PageIs

(* num_blocks is the number of pages that the bytes fill, the last in part.*)
LEMMA Blocks ==
  ASSUME NEW h, h.size_in_memory \in Nat
  PROVE  /\ NumBlocks(h) \in Nat
         /\ \A b \in Nat : b < NumBlocks(h) <=> b * PageSize < h.size_in_memory
<1> DEFINE s == h.size_in_memory
           n == NumBlocks(h)
<1>1. CASE s = 0
      BY <1>1 DEF NumBlocks, ceildiv
<1>2. CASE s # 0
  <2>1. n = ((s - 1) \div PageSize) + 1
        BY <1>2 DEF NumBlocks, ceildiv
  <2>2. /\ (s - 1) \div PageSize \in Nat
        /\ ((s - 1) \div PageSize) * PageSize <= s - 1
        /\ s - 1 < (((s - 1) \div PageSize) + 1) * PageSize
        BY <1>2
  <2> DEFINE q == (s - 1) \div PageSize
  <2>3. n = q + 1 /\ q \in Nat /\ q * PageSize <= s - 1 /\ s - 1 < (q + 1) * PageSize
        BY <2>1, <2>2
  <2> HIDE DEF q, n
  <2>4. ASSUME NEW b \in Nat, b < n
        PROVE  b * PageSize < s
    <3>1. b <= q
          BY <2>3, <2>4
    <3>2. b * PageSize <= q * PageSize
          BY <2>3, <3>1
    <3> QED BY <2>3, <3>2
  <2>5. ASSUME NEW b \in Nat, ~ (b < n)
        PROVE  ~ (b * PageSize < s)
    <3>1. q + 1 <= b
          BY <2>3, <2>5
    <3>2. (q + 1) * PageSize <= b * PageSize
          BY <2>3, <3>1
    <3> QED BY <2>3, <3>2
  <2> QED BY <2>3, <2>4, <2>5 DEF n
<1> QED BY <1>1, <1>2

(* What a linker makes of a segment.                                       *)
LEMMA SegmentFacts ==
  ASSUME NEW h \in Segments
  PROVE  /\ h.load /\ h.offset \in 0 .. FileSize - 1
         /\ h.vaddr \in Nat /\ h.vaddr \in Addresses
         /\ h.size_in_file \in Nat /\ h.size_in_memory \in Nat
         /\ h.vaddr + h.size_in_memory <= PageSize * NumPages
         /\ PageSize * NumPages \in Nat
         /\ NumBlocks(h) \in Nat
         /\ \A b \in Nat : b < NumBlocks(h) <=> b * PageSize < h.size_in_memory
<1>1. /\ h.load /\ h.offset \in 0 .. FileSize - 1 /\ h.vaddr \in Addresses
      /\ h.size_in_file \in Nat /\ h.size_in_memory \in Nat
      /\ h.vaddr + h.size_in_memory <= PageSize * NumPages
  <2>1. /\ h \in [load : {TRUE}, offset : 0 .. FileSize - 1, vaddr : Addresses,
                  size_in_file : 0 .. MaxBytes, size_in_memory : 0 .. MaxBytes]
        /\ h.vaddr + h.size_in_memory <= PageSize * NumPages
        BY DEF Segments
  <2>2. /\ h.load = TRUE /\ h.offset \in 0 .. FileSize - 1 /\ h.vaddr \in Addresses
        /\ h.size_in_file \in 0 .. MaxBytes /\ h.size_in_memory \in 0 .. MaxBytes
        BY ONLY <2>1
  <2> QED BY <2>1, <2>2
<1>2. PageSize * NumPages \in Nat
      OBVIOUS
<1>3. h.vaddr \in Nat
      BY <1>1, <1>2 DEF Addresses
<1> QED BY <1>1, <1>2, <1>3, Blocks

LEMMA HeaderIsSegment ==
  ASSUME Types, NEW i \in 1 .. NumHeaders, headers[i].load
  PROVE  headers[i] \in Segments /\ headers[i] \in Loads
<1>1. headers[i] \in Segments \cup {Other}
      BY DEF Types
<1>2. ~ Other.load
      BY DEF Other
<1> QED BY <1>1, <1>2 DEF Loads

-----------------------------------------------------------------------------
(* The byte that a segment puts at an address is the image's, for segments *)
(* are apart.                                                              *)
LEMMA ImageOfSegment ==
  ASSUME Types, NEW i \in 1 .. NumHeaders, headers[i].load,
         NEW a \in Addresses, InFile(headers[i], a)
  PROVE  Image(a) = headers[i].offset + (a - headers[i].vaddr)
<1>1. headers[i] \in Loads
      BY HeaderIsSegment
<1>2. a \in Nat
      BY DEF Addresses
<1>3. ASSUME NEW s \in Loads, InFile(s, a)
      PROVE  s = headers[i]
  <2>1. PICK j \in 1 .. NumHeaders : headers[j].load /\ s = headers[j]
        BY DEF Loads
  <2>2. headers[i] \in Segments /\ headers[j] \in Segments
        BY <2>1, HeaderIsSegment
  <2>3. /\ headers[i].vaddr <= a /\ a < headers[i].vaddr + headers[i].size_in_memory
        /\ headers[j].vaddr <= a /\ a < headers[j].vaddr + headers[j].size_in_memory
        /\ headers[i].vaddr \in Nat /\ headers[i].size_in_memory \in Nat
        /\ headers[j].vaddr \in Nat /\ headers[j].size_in_memory \in Nat
    <3>1. /\ headers[i].vaddr \in Nat /\ headers[i].size_in_memory \in Nat
          /\ headers[j].vaddr \in Nat /\ headers[j].size_in_memory \in Nat
          BY <2>2, SegmentFacts
    <3> QED BY <1>2, <1>3, <2>1, <3>1 DEF InFile
  <2>4. /\ i < j => headers[i].vaddr + headers[i].size_in_memory <= headers[j].vaddr
        /\ j < i => headers[j].vaddr + headers[j].size_in_memory <= headers[i].vaddr
        BY <2>1 DEF Types, InOrder
  <2>5. i = j
        BY <1>2, <2>3, <2>4
  <2> QED BY <2>1, <2>5
<1>4. (CHOOSE s \in Loads : InFile(s, a)) = headers[i]
      BY <1>1, <1>3
<1> QED BY <1>1, <1>4 DEF Image

(* The needed pages are finitely many pages of user space.                 *)
LEMMA NeededFinite ==
  ASSUME Types
  PROVE  /\ NeededPages \subseteq Pages
         /\ IsFiniteSet(Pages) /\ IsFiniteSet(NeededPages)
         /\ IsFiniteSet(NeededTables)
<1>1. ASSUME NEW s \in Loads, NEW b \in 0 .. NumBlocks(s) - 1
      PROVE  PageOf(s.vaddr) + b \in Pages
  <2>1. s \in Segments
        BY HeaderIsSegment DEF Loads
  <2>2. /\ s.vaddr \in Nat /\ s.size_in_memory \in Nat
        /\ s.vaddr + s.size_in_memory <= PageSize * NumPages
        /\ NumBlocks(s) \in Nat
        /\ \A k \in Nat : k < NumBlocks(s) <=> k * PageSize < s.size_in_memory
        BY <2>1, SegmentFacts
  <2>3. b \in Nat /\ b * PageSize < s.size_in_memory /\ b * PageSize \in Nat
        BY <2>2
  <2>4. s.vaddr + b * PageSize \in Nat /\ s.vaddr + b * PageSize < NumPages * PageSize
        BY <2>2, <2>3
  <2> DEFINE p == PageOf(s.vaddr + b * PageSize)
  <2>5. p \in Nat /\ p * PageSize < NumPages * PageSize
    <3>1. p \in Nat /\ p * PageSize <= s.vaddr + b * PageSize
          BY <2>4, PageBounds
    <3>2. p * PageSize \in Nat /\ NumPages * PageSize \in Nat
          BY <3>1
    <3> QED BY <2>4, <3>1, <3>2
  <2>6. p < NumPages
    <3> HIDE DEF p
    <3>1. NumPages <= p => NumPages * PageSize <= p * PageSize
          BY <2>5
    <3> QED BY <2>5, <3>1
  <2>7. p = PageOf(s.vaddr) + b
        BY <2>2, <2>3, PageFurther
  <2> QED BY <2>5, <2>6, <2>7 DEF Pages
<1>2. NeededPages \subseteq Pages
      BY <1>1 DEF NeededPages
<1>3. IsFiniteSet(Pages)
      BY FS_Interval DEF Pages
<1>4. IsFiniteSet(NeededPages)
      BY <1>2, <1>3, FS_Subset
<1>5. IsFiniteSet(NeededTables)
  <2>1. \A p \in Pages : TableOf(p) \in Pages
        BY DEF Pages, TableOf
  <2>2. NeededTables \subseteq Pages
        BY <1>2, <2>1 DEF NeededTables
  <2> QED BY <1>3, <2>2, FS_Subset
<1> QED BY <1>2, <1>3, <1>4, <1>5

(* The first page that is not there ends a copy; if there is none it goes  *)
(* to its end.                                                             *)
LEMMA ReachFacts ==
  ASSUME NEW start \in Nat, NEW n \in Nat
  PROVE  /\ Reach(start, n) \in 0 .. n
         /\ (\A j \in 0 .. n - 1 : PageOf(start + j) \in mapped) => Reach(start, n) = n
<1> DEFINE Ends(k) == /\ \A j \in 0 .. k - 1 : PageOf(start + j) \in mapped
                      /\ k < n => PageOf(start + k) \notin mapped
           S == {k \in 0 .. n : k < n => PageOf(start + k) \notin mapped}
<1>1. Reach(start, n) = CHOOSE k \in 0 .. n : Ends(k)
      BY DEF Reach
<1>2. \E k \in 0 .. n : Ends(k)
  <2>1. n \in S /\ S \subseteq Nat
        OBVIOUS
  <2>2. PICK k \in S : \A m \in S : k <= m
    <3> HIDE DEF S
    <3> QED BY <2>1, LeastNumber
  <2>3. ASSUME NEW j \in 0 .. k - 1, PageOf(start + j) \notin mapped
        PROVE  FALSE
    <3>1. k \in 0 .. n
          OBVIOUS
    <3>2. j \in S
          BY <2>3, <3>1
    <3>3. k <= j
      <4> HIDE DEF S
      <4> QED BY <2>2, <3>2
    <3> QED BY <3>1, <3>3
  <2> QED BY <2>2, <2>3
<1>3. ASSUME \A j \in 0 .. n - 1 : PageOf(start + j) \in mapped,
             NEW k \in 0 .. n, Ends(k)
      PROVE  k = n
      BY <1>3
<1> HIDE DEF Ends
<1> QED BY <1>1, <1>2, <1>3

-----------------------------------------------------------------------------
(* Nothing is loaded yet.                                                  *)
LEMMA InitIInv == Init => IInv
<1> SUFFICES ASSUME Init PROVE IInv
    OBVIOUS
<1>1. Types
  <2>1. TypeOK
        BY DEF Init, TypeOK
  <2> QED BY <2>1 DEF Init, Types
<1>2. AtHeader /\ AtEnd /\ Prepared /\ TablesNeeded
      BY DEF Init, AtHeader, AtEnd, Prepared, TablesNeeded
<1>3. BlocksAccounted
      BY FS_EmptySet DEF Init, BlocksAccounted
<1>4. FinishedLoaded /\ NothingElse
      BY DEF Init, FinishedLoaded, Finished, NothingElse
<1>5. FailsForMemory /\ FaultsOnlyUnaligned
      BY DEF Init, FailsForMemory, FaultsOnlyUnaligned
<1> QED BY <1>1, <1>2, <1>3, <1>4, <1>5 DEF IInv

(* What depends on the file only stays.                                    *)
LEMMA FileKept ==
  ASSUME UNCHANGED headers
  PROVE  /\ NeededPages' = NeededPages /\ NeededTables' = NeededTables
         /\ Loads' = Loads
         /\ \A a \in Addresses : Image(a)' = Image(a)
<1>1. Loads' = Loads
      BY DEF Loads
<1> QED BY <1>1 DEF NeededPages, NeededTables, Image

(* read_next_program_header(): the header read is the next one, whatever   *)
(* the reader's position was left at.                                      *)
LEMMA StepNextHeader ==
  ASSUME IInv, NextHeader
  PROVE  IInv'
<1> USE DEF IInv
<1>1. /\ pc = "next" /\ header_index < NumHeaders
      /\ UNCHANGED <<headers, given, supply, tables, mapped, memory>>
      /\ header_index' = header_index + 1 /\ block' = 0
      /\ pc' = IF header'.load THEN "prepare" ELSE "next"
      BY DEF NextHeader, mapVars
<1>2. header_index \in Nat /\ 1 + header_index \in 1 .. NumHeaders
      BY <1>1 DEF Types, TypeOK
<1>3. header' = headers[1 + header_index]
  <2>1. ReadLength(1 + header_index, 1) = 1
    <3>1. FileSize - (1 + header_index) \in 1 .. FileSize
          BY <1>2
    <3>2. (FileSize - (1 + header_index)) % SizeValues = FileSize - (1 + header_index)
          BY <3>1
    <3> QED BY <3>1, <3>2 DEF ReadLength, Least
  <2> QED BY <1>2, <2>1 DEF NextHeader, Seek, HeaderAt
<1>4. m_position' \in 0 .. SizeValues - 1
  <2>1. m_position' = ((1 + header_index) + (1 + header_index)) % SizeValues
        BY DEF NextHeader, Seek, AfterRead
  <2> QED BY <1>2, <2>1
<1>5. Types'
  <2>1. header' \in Segments \cup {Other}
        BY <1>2, <1>3 DEF Types
  <2>2. TypeOK'
        BY <1>1, <1>2, <1>4, <2>1 DEF Types, TypeOK
  <2> QED BY <1>1, <2>2 DEF Types, InOrder
<1>6. AtHeader' /\ AtEnd'
      BY <1>1, <1>2, <1>3 DEF AtHeader, AtEnd
<1>7. Prepared'
  <2>1. CASE header'.load
    <3>1. header' \in Segments
          BY <1>2, <1>3, <2>1, HeaderIsSegment
    <3>2. NumBlocks(header') \in Nat
          BY <3>1, SegmentFacts
    <3> QED BY <1>1, <3>2 DEF Prepared
  <2>2. CASE ~ header'.load
        BY <1>1, <2>2 DEF Prepared
  <2> QED BY <2>1, <2>2
<1>8. TablesNeeded' /\ BlocksAccounted'
      BY <1>1, FileKept DEF TablesNeeded, BlocksAccounted
<1>9. FinishedLoaded'
  <2>1. CASE header'.load
    <3>1. Finished' = Finished
          BY <1>1, <1>2, <2>1 DEF Finished
    <3> QED BY <1>1, <3>1, FileKept DEF FinishedLoaded
  <2>2. CASE ~ header'.load
    <3>1. Finished' = header_index + 1 /\ Finished = header_index
          BY <1>1, <2>2 DEF Finished
    <3>2. ASSUME NEW i \in 1 .. Finished', headers[i].load
          PROVE  i \in 1 .. Finished
          BY <1>2, <1>3, <2>2, <3>1, <3>2
    <3> QED BY <1>1, <3>2, FileKept DEF FinishedLoaded
  <2> QED BY <2>1, <2>2
<1>10. NothingElse'
      BY <1>1, FileKept DEF NothingElse
<1>11. FailsForMemory' /\ FaultsOnlyUnaligned'
      BY <1>1 DEF FailsForMemory, FaultsOnlyUnaligned
<1> QED BY <1>5, <1>6, <1>7, <1>8, <1>9, <1>10, <1>11

(* There is no header left.                                                *)
LEMMA StepLastHeader ==
  ASSUME IInv, LastHeader
  PROVE  IInv'
<1> USE DEF IInv
<1>1. /\ pc = "next" /\ pc' = "done" /\ header_index = NumHeaders
      /\ UNCHANGED <<headers, given, supply, tables, mapped, memory, m_position,
                     header_index, header, block>>
      BY DEF LastHeader, mapVars
<1>2. Types'
      BY <1>1 DEF Types, TypeOK, InOrder
<1>3. AtHeader' /\ AtEnd' /\ Prepared' /\ FailsForMemory' /\ FaultsOnlyUnaligned'
      BY <1>1 DEF AtHeader, AtEnd, Prepared, FailsForMemory, FaultsOnlyUnaligned
<1>4. TablesNeeded' /\ BlocksAccounted' /\ NothingElse'
      BY <1>1, FileKept DEF TablesNeeded, BlocksAccounted, NothingElse
<1>5. FinishedLoaded'
      BY <1>1, FileKept DEF FinishedLoaded, Finished
<1> QED BY <1>2, <1>3, <1>4, <1>5

(* The page that prepare_blocks() is at is needed and in user space.       *)
LEMMA PageIsNeeded ==
  ASSUME IInv, Preparing
  PROVE  /\ header_index \in 1 .. NumHeaders /\ header = headers[header_index]
         /\ header.load /\ header \in Segments
         /\ block \in Nat /\ NumBlocks(header) \in Nat
         /\ Page = PageOf(header.vaddr) + block
         /\ Page \in NeededPages /\ TableOf(Page) \in NeededTables
<1>1. pc = "prepare" /\ block < NumBlocks(header) /\ block \in Nat
      BY DEF Preparing, IInv, Types, TypeOK
<1>2. /\ header_index \in 1 .. NumHeaders /\ header = headers[header_index]
      /\ header.load
      BY <1>1 DEF IInv, AtHeader
<1>3. header \in Segments /\ header \in Loads
      BY <1>2, HeaderIsSegment DEF IInv
<1>4. header.vaddr \in Nat /\ NumBlocks(header) \in Nat
      BY <1>3, SegmentFacts
<1>5. Page = PageOf(header.vaddr) + block
      BY <1>1, <1>4, PageFurther DEF Page
<1>6. Page \in NeededPages
  <2>1. block \in 0 .. NumBlocks(header) - 1
        BY <1>1, <1>4
  <2> QED BY <1>3, <1>5, <2>1 DEF NeededPages
<1>7. TableOf(Page) \in NeededTables
      BY <1>6 DEF NeededTables
<1> QED BY <1>1, <1>2, <1>3, <1>4, <1>5, <1>6, <1>7

(* A set with one element more, or the same.                               *)
LEMMA Adding ==
  ASSUME NEW S, IsFiniteSet(S), NEW x
  PROVE  /\ IsFiniteSet(S \cup {x})
         /\ Cardinality(S) \in Nat
         /\ x \in S => Cardinality(S \cup {x}) = Cardinality(S)
         /\ x \notin S => Cardinality(S \cup {x}) = Cardinality(S) + 1
<1>1. Cardinality(S) \in Nat
      BY FS_CardinalityType
<1>2. CASE x \in S
  <2>1. S \cup {x} = S
        BY <1>2
  <2>2. Cardinality(S \cup {x}) = Cardinality(S) /\ IsFiniteSet(S \cup {x})
        BY <2>1
  <2> QED BY <1>1, <1>2, <2>2
<1>3. CASE x \notin S
      BY <1>1, <1>3, FS_AddElement
<1> QED BY <1>2, <1>3

(* The blocks that the page and its table take are those that they add.    *)
LEMMA BlocksTaken ==
  ASSUME IInv, Preparing
  PROVE  /\ IsFiniteSet(mapped) /\ IsFiniteSet(tables)
         /\ Cardinality(mapped) \in Nat /\ Cardinality(tables) \in Nat
         /\ given - supply = Cardinality(mapped) + Cardinality(tables)
         /\ BlocksFor \in Nat
         /\ \/ /\ Page \in mapped /\ BlocksFor = 0
            \/ /\ Page \notin mapped /\ TableOf(Page) \in tables /\ BlocksFor = 1
            \/ /\ Page \notin mapped /\ TableOf(Page) \notin tables /\ BlocksFor = 2
<1>1. given - supply = Cardinality(mapped) + Cardinality(tables)
      BY DEF IInv, BlocksAccounted
<1>2. IsFiniteSet(mapped) /\ IsFiniteSet(tables)
  <2>1. IsFiniteSet(NeededPages) /\ IsFiniteSet(NeededTables)
        BY NeededFinite DEF IInv
  <2>2. mapped \subseteq NeededPages /\ tables \subseteq NeededTables
        BY DEF IInv, BlocksAccounted, TablesNeeded
  <2> QED BY <2>1, <2>2, FS_Subset
<1>3. Cardinality(mapped) \in Nat /\ Cardinality(tables) \in Nat
      BY <1>2, FS_CardinalityType
<1> QED BY <1>1, <1>2, <1>3 DEF BlocksFor

(* map_page() backs the page.                                              *)
LEMMA StepPrepareBlock ==
  ASSUME IInv, PrepareBlock
  PROVE  IInv'
<1>1. /\ Preparing /\ BlocksFor <= supply /\ pc = "prepare"
      /\ supply' = supply - BlocksFor
      /\ tables' = tables \cup {TableOf(Page)} /\ mapped' = mapped \cup {Page}
      /\ block' = block + 1
      /\ UNCHANGED <<headers, given, memory, m_position, header_index, header, pc>>
      BY DEF PrepareBlock, Preparing
<1>2. /\ header \in Segments /\ block \in Nat /\ NumBlocks(header) \in Nat
      /\ block < NumBlocks(header) /\ Page = PageOf(header.vaddr) + block
      /\ Page \in NeededPages /\ TableOf(Page) \in NeededTables
      BY <1>1, PageIsNeeded DEF Preparing
<1>3. Page \in Pages
      BY <1>2, NeededFinite DEF IInv
<1>4. PICK n \in Nat : n = BlocksFor
      BY <1>1, BlocksTaken
<1>5. Types'
  <2>1. TypeOK /\ supply \in Nat /\ given \in Nat
        BY DEF IInv, Types
  <2>2. supply' \in 0 .. given' /\ supply' \in Nat
        BY <1>1, <1>4, <2>1 DEF TypeOK
  <2>3. mapped' \subseteq 0 .. NumPages - 1
        BY <1>1, <1>3, <2>1 DEF TypeOK, Pages
  <2>4. tables' \subseteq {TableOf(p) : p \in 0 .. NumPages - 1}
        BY <1>1, <1>3, <2>1 DEF TypeOK, Pages
  <2>5. block' \in Nat
        BY <1>1, <1>2
  <2>6. TypeOK'
        BY <1>1, <2>1, <2>2, <2>3, <2>4, <2>5 DEF TypeOK
  <2> QED BY <1>1, <2>1, <2>2, <2>6 DEF IInv, Types, InOrder
<1>6. AtHeader' /\ AtEnd'
      BY <1>1 DEF IInv, AtHeader, AtEnd
<1>7. Prepared'
  <2>1. NumBlocks(header)' = NumBlocks(header)
        BY <1>1
  <2>2. block' <= NumBlocks(header)
        BY <1>1, <1>2
  <2>3. ASSUME NEW b \in 0 .. block' - 1
        PROVE  PageOf(header.vaddr) + b \in mapped'
    <3>1. b = block \/ b \in 0 .. block - 1
          BY <1>1, <1>2
    <3>2. b \in 0 .. block - 1 => PageOf(header.vaddr) + b \in mapped
          BY <1>1 DEF IInv, Prepared
    <3> QED BY <1>1, <1>2, <3>1, <3>2
  <2> QED BY <1>1, <2>1, <2>2, <2>3 DEF Prepared
<1>8. TablesNeeded'
  <2>1. NeededTables' = NeededTables
        BY <1>1, FileKept
  <2>2. tables' \subseteq NeededTables
        BY <1>1, <1>2 DEF IInv, TablesNeeded
  <2>3. \A p \in mapped' : TableOf(p) \in tables'
        BY <1>1 DEF IInv, TablesNeeded
  <2> QED BY <2>1, <2>2, <2>3 DEF TablesNeeded, TableOf
<1>9. BlocksAccounted'
  <2>1. NeededPages' = NeededPages
        BY <1>1, FileKept
  <2>2. mapped' \subseteq NeededPages
        BY <1>1, <1>2 DEF IInv, BlocksAccounted
  <2>3. /\ IsFiniteSet(mapped) /\ IsFiniteSet(tables)
        /\ Cardinality(mapped) \in Nat /\ Cardinality(tables) \in Nat
        /\ given - supply = Cardinality(mapped) + Cardinality(tables)
        BY <1>1, BlocksTaken
  <2>4. \/ /\ Page \in mapped /\ n = 0
        \/ /\ Page \notin mapped /\ TableOf(Page) \in tables /\ n = 1
        \/ /\ Page \notin mapped /\ TableOf(Page) \notin tables /\ n = 2
        BY <1>1, <1>4, BlocksTaken
  <2>5. Page \in mapped => TableOf(Page) \in tables
        BY DEF IInv, TablesNeeded
  <2>6. /\ Page \in mapped => Cardinality(mapped') = Cardinality(mapped)
        /\ Page \notin mapped => Cardinality(mapped') = Cardinality(mapped) + 1
        BY <1>1, <2>3, Adding
  <2>7. /\ TableOf(Page) \in tables => Cardinality(tables') = Cardinality(tables)
        /\ TableOf(Page) \notin tables => Cardinality(tables') = Cardinality(tables) + 1
        BY <1>1, <2>3, Adding
  <2>8. Cardinality(mapped') + Cardinality(tables')
          = Cardinality(mapped) + Cardinality(tables) + n
        BY <2>3, <2>4, <2>5, <2>6, <2>7
  <2>9. given' - supply' = (given - supply) + n
        BY <1>1, <1>4 DEF IInv, Types
  <2> QED BY <2>1, <2>2, <2>3, <2>8, <2>9 DEF BlocksAccounted
<1>10. FinishedLoaded' /\ NothingElse'
  <2>1. Finished' = Finished
        BY <1>1 DEF Finished
  <2> QED BY <1>1, <2>1, FileKept DEF IInv, FinishedLoaded, NothingElse
<1>11. FailsForMemory' /\ FaultsOnlyUnaligned'
      BY <1>1 DEF FailsForMemory, FaultsOnlyUnaligned
<1> QED BY <1>5, <1>6, <1>7, <1>8, <1>9, <1>10, <1>11 DEF IInv

(* map_page() finds no block: what it needed is more than there was.       *)
LEMMA StepPrepareFails ==
  ASSUME IInv, PrepareFails
  PROVE  IInv'
<1>1. /\ Preparing /\ BlocksFor > supply /\ pc = "prepare"
      /\ supply' = 0 /\ tables' = TablesAfterFailure /\ pc' = "failed"
      /\ UNCHANGED <<headers, given, mapped, memory, m_position, header_index,
                     header, block>>
      BY DEF PrepareFails, Preparing
<1>2. Page \in NeededPages /\ TableOf(Page) \in NeededTables
      BY <1>1, PageIsNeeded
<1>3. Page \in Pages
      BY <1>2, NeededFinite DEF IInv
<1>4. supply \in Nat /\ given \in Nat /\ supply \in 0 .. given
      BY DEF IInv, Types, TypeOK
<1>5. /\ IsFiniteSet(mapped) /\ IsFiniteSet(tables)
      /\ Cardinality(mapped) \in Nat /\ Cardinality(tables) \in Nat
      /\ given - supply = Cardinality(mapped) + Cardinality(tables)
      BY <1>1, BlocksTaken
<1>6. \/ /\ Page \notin mapped /\ supply = 0 /\ tables' = tables
      \/ /\ Page \notin mapped /\ TableOf(Page) \notin tables
         /\ supply = 1 /\ tables' = tables \cup {TableOf(Page)}
  <2>1. \/ /\ Page \in mapped /\ BlocksFor = 0
        \/ /\ Page \notin mapped /\ TableOf(Page) \in tables /\ BlocksFor = 1
        \/ /\ Page \notin mapped /\ TableOf(Page) \notin tables /\ BlocksFor = 2
        BY <1>1, BlocksTaken
  <2> QED BY <1>1, <1>4, <2>1 DEF TablesAfterFailure
<1>7. tables' = tables \/ tables' = tables \cup {TableOf(Page)}
      BY <1>6
<1>8. Types'
  <2>1. TypeOK
        BY DEF IInv, Types
  <2>2. supply' \in 0 .. given' /\ supply' \in Nat
        BY <1>1, <1>4
  <2>3. tables' \subseteq {TableOf(p) : p \in 0 .. NumPages - 1}
        BY <1>3, <1>7, <2>1 DEF TypeOK, Pages
  <2>4. TypeOK'
        BY <1>1, <2>1, <2>2, <2>3 DEF TypeOK
  <2> QED BY <1>1, <2>2, <2>4 DEF IInv, Types, InOrder
<1>9. AtHeader' /\ AtEnd' /\ Prepared' /\ FaultsOnlyUnaligned'
      BY <1>1 DEF IInv, AtHeader, AtEnd, Prepared, FaultsOnlyUnaligned
<1>10. TablesNeeded'
  <2>1. NeededTables' = NeededTables
        BY <1>1, FileKept
  <2>2. tables' \subseteq NeededTables /\ \A p \in mapped : TableOf(p) \in tables'
        BY <1>2, <1>7 DEF IInv, TablesNeeded
  <2> QED BY <1>1, <2>1, <2>2 DEF TablesNeeded, TableOf
<1>11. BlocksAccounted'
  <2>1. mapped' \subseteq NeededPages'
        BY <1>1, FileKept DEF IInv, BlocksAccounted
  <2>2. TableOf(Page) \notin tables =>
          Cardinality(tables \cup {TableOf(Page)}) = Cardinality(tables) + 1
        BY <1>5, Adding
  <2>3. Cardinality(tables') = Cardinality(tables) + supply
    <3>1. CASE supply = 0 /\ tables' = tables
      <4>1. Cardinality(tables') = Cardinality(tables)
            BY <3>1
      <4> QED BY <1>5, <3>1, <4>1
    <3>2. CASE /\ TableOf(Page) \notin tables
               /\ supply = 1 /\ tables' = tables \cup {TableOf(Page)}
      <4>1. Cardinality(tables') = Cardinality(tables \cup {TableOf(Page)})
            BY <3>2
      <4> QED BY <1>5, <2>2, <3>2, <4>1
    <3> QED BY <1>6, <3>1, <3>2
  <2>4. given' - supply' = Cardinality(mapped') + Cardinality(tables')
        BY <1>1, <1>4, <1>5, <2>3
  <2> QED BY <2>1, <2>4 DEF BlocksAccounted
<1>12. FinishedLoaded' /\ NothingElse'
  <2>1. Finished' = Finished
        BY <1>1 DEF Finished
  <2> QED BY <1>1, <2>1, FileKept DEF IInv, FinishedLoaded, NothingElse
<1>13. FailsForMemory'
  <2>1. IsFiniteSet(NeededPages) /\ IsFiniteSet(NeededTables)
        BY NeededFinite DEF IInv
  <2>2. Cardinality(NeededPages) \in Nat /\ Cardinality(NeededTables) \in Nat
        BY <2>1, FS_CardinalityType
  <2>3. /\ mapped \cup {Page} \subseteq NeededPages
        /\ tables \cup {TableOf(Page)} \subseteq NeededTables
        /\ tables \subseteq NeededTables
        BY <1>2 DEF IInv, BlocksAccounted, TablesNeeded
  <2>4. /\ Cardinality(mapped \cup {Page}) <= Cardinality(NeededPages)
        /\ Cardinality(tables \cup {TableOf(Page)}) <= Cardinality(NeededTables)
        /\ Cardinality(tables) <= Cardinality(NeededTables)
        BY <2>1, <2>3, FS_Subset
  <2>5. Cardinality(mapped \cup {Page}) = Cardinality(mapped) + 1
        BY <1>5, <1>6, Adding
  <2>6. TableOf(Page) \notin tables =>
          Cardinality(tables \cup {TableOf(Page)}) = Cardinality(tables) + 1
        BY <1>5, Adding
  <2>7. Cardinality(NeededPages) + Cardinality(NeededTables) > given
        BY <1>4, <1>5, <1>6, <2>2, <2>4, <2>5, <2>6
  <2>8. NeededPages' = NeededPages /\ NeededTables' = NeededTables /\ given' = given
        BY <1>1, FileKept
  <2>9. (Cardinality(NeededPages) + Cardinality(NeededTables) > given)'
        BY <2>7, <2>8
  <2> QED BY <2>9 DEF FailsForMemory, NeededTables
<1> QED BY <1>8, <1>9, <1>10, <1>11, <1>12, <1>13 DEF IInv

-----------------------------------------------------------------------------
(* From an aligned address pages begin where the bytes' count does.        *)
LEMMA AlignedPage ==
  ASSUME NEW a \in Nat, a % PageSize = 0, NEW j \in Nat
  PROVE  PageOf(a + j) = PageOf(a) + j \div PageSize
<1> DEFINE p == PageOf(a)
           q == j \div PageSize
<1>1. p \in Nat /\ p * PageSize = a
      BY DEF PageOf
<1>2. q \in Nat /\ q * PageSize <= j /\ j < (q + 1) * PageSize
      BY PageBounds DEF PageOf
<1> HIDE DEF p, q
<1>3. /\ (p + q) * PageSize = p * PageSize + q * PageSize
      /\ (p + q + 1) * PageSize = p * PageSize + (q + 1) * PageSize
      BY <1>1, <1>2
<1>4. q * PageSize \in Nat /\ (q + 1) * PageSize \in Nat /\ p + q \in Nat
      BY <1>1, <1>2
<1>5. PageOf(a + j) = p + q
      BY <1>1, <1>2, <1>3, <1>4, PageIs
<1> QED BY <1>5 DEF p, q

(* What a segment's copy asks for, and what read() gives it: the bytes that *)
(* the file has.                                                           *)
LEMMA CopyFacts ==
  ASSUME NEW h \in Segments
  PROVE  /\ ReadLength(h.offset, BytesToCopy(h)) \in Nat
         /\ ReadLength(h.offset, BytesToCopy(h)) <= h.size_in_memory
         /\ \A a \in Addresses :
              InFile(h, a) <=>
                a \in h.vaddr .. h.vaddr + ReadLength(h.offset, BytesToCopy(h)) - 1
<1>1. /\ h.offset \in 0 .. FileSize - 1 /\ h.vaddr \in Nat
      /\ h.size_in_file \in Nat /\ h.size_in_memory \in Nat
      BY SegmentFacts
<1>2. (FileSize - h.offset) % SizeValues = FileSize - h.offset
  <2>1. FileSize - h.offset \in 1 .. FileSize
        BY <1>1
  <2> QED BY <2>1
<1>3. ReadLength(h.offset, BytesToCopy(h))
        = Least(Least(h.size_in_memory, h.size_in_file), FileSize - h.offset)
      BY <1>2 DEF ReadLength, BytesToCopy
<1> DEFINE n == ReadLength(h.offset, BytesToCopy(h))
<1>4. /\ n \in Nat /\ n <= h.size_in_memory
      /\ \A k \in Int : k < n <=> /\ k < h.size_in_memory /\ k < h.size_in_file
                                  /\ h.offset + k < FileSize
      BY <1>1, <1>3 DEF Least
<1> HIDE DEF n
<1>5. ASSUME NEW a \in Addresses
      PROVE  InFile(h, a) <=> a \in h.vaddr .. h.vaddr + n - 1
  <2>1. a \in Nat /\ a - h.vaddr \in Int
        BY <1>1 DEF Addresses
  <2>2. InFile(h, a) <=> a - h.vaddr >= 0 /\ a - h.vaddr < n
        BY <1>4, <2>1 DEF InFile
  <2> QED BY <1>1, <1>4, <2>1, <2>2
<1> QED BY <1>4, <1>5 DEF n

(* The file's bytes are copied to the segment's.                           *)
LEMMA StepCopyContent ==
  ASSUME IInv, CopyContent
  PROVE  IInv'
<1>1. /\ pc = "prepare" /\ block = NumBlocks(header)
      /\ UNCHANGED <<headers, given, supply, tables, mapped, header_index, header,
                     block>>
      BY DEF CopyContent, mapVars
<1>2. /\ header_index \in 1 .. NumHeaders /\ header = headers[header_index]
      /\ headers[header_index].load
      BY <1>1 DEF IInv, AtHeader
<1>3. header \in Segments
      BY <1>2, HeaderIsSegment DEF IInv
<1>4. PICK n \in Nat : n = ReadLength(header.offset, BytesToCopy(header))
      BY <1>3, CopyFacts
<1>5. /\ n <= header.size_in_memory
      /\ \A a \in Addresses :
           InFile(header, a) <=> a \in header.vaddr .. header.vaddr + n - 1
      BY <1>3, <1>4, CopyFacts
<1>6. /\ header.offset \in 0 .. FileSize - 1 /\ header.vaddr \in Nat
      /\ header.size_in_memory \in Nat
      BY <1>3, SegmentFacts
<1>7. PICK written \in 0 .. n : written = Reach(header.vaddr, n)
      BY <1>6, ReachFacts
<1>8. /\ memory' = [a \in Addresses |->
                      IF a \in header.vaddr .. header.vaddr + written - 1
                      THEN header.offset + (a - header.vaddr) ELSE memory[a]]
      /\ m_position' = AfterRead(header.offset)
      /\ pc' = IF written = n THEN "next" ELSE "fault"
      BY <1>4, <1>7 DEF CopyContent, Seek
<1>9. ASSUME NEW a \in Addresses, InFile(header, a)
      PROVE  /\ Image(a) = header.offset + (a - header.vaddr)
             /\ Image(a) \in 0 .. FileSize - 1
  <2>1. Image(a) = header.offset + (a - header.vaddr)
        BY <1>2, <1>9, ImageOfSegment DEF IInv
  <2>2. a \in Nat
        BY DEF Addresses
  <2> QED BY <1>6, <1>9, <2>1, <2>2 DEF InFile
<1>10. ASSUME NEW a \in Addresses, a \in header.vaddr .. header.vaddr + written - 1
       PROVE  InFile(header, a) /\ memory'[a] = Image(a)
  <2>1. InFile(header, a)
        BY <1>5, <1>6, <1>10
  <2> QED BY <1>8, <1>9, <1>10, <2>1
<1>11. ASSUME NEW a \in Addresses, a \notin header.vaddr .. header.vaddr + written - 1
       PROVE  memory'[a] = memory[a]
       BY <1>8, <1>11
<1>12. Types'
  <2>1. TypeOK
        BY DEF IInv, Types
  <2>2. memory' \in [Addresses -> 0 .. FileSize - 1 \cup {Junk}]
    <3>1. ASSUME NEW a \in Addresses
          PROVE  memory'[a] \in 0 .. FileSize - 1 \cup {Junk}
          BY <1>9, <1>10, <1>11, <2>1 DEF TypeOK
    <3>2. memory' = [a \in Addresses |-> memory'[a]]
          BY <1>8
    <3> QED BY <3>1, <3>2
  <2>3. m_position' \in 0 .. SizeValues - 1
        BY <1>6, <1>8 DEF AfterRead
  <2>4. pc' \in {"next", "fault"}
        BY <1>8
  <2>5. TypeOK'
        BY <1>1, <2>1, <2>2, <2>3, <2>4 DEF TypeOK
  <2> QED BY <1>1, <2>5 DEF IInv, Types, InOrder
<1>13. AtHeader' /\ AtEnd' /\ Prepared'
       BY <1>1, <1>2, <1>8 DEF AtHeader, AtEnd, Prepared
<1>14. TablesNeeded' /\ BlocksAccounted'
       BY <1>1, FileKept DEF IInv, TablesNeeded, TableOf, BlocksAccounted
<1>15. NothingElse'
  <2>1. \A a \in Addresses : memory'[a] # Junk => memory'[a] = Image(a)
        BY <1>10, <1>11 DEF IInv, NothingElse
  <2> QED BY <1>1, <2>1, FileKept DEF NothingElse
<1>16. FinishedLoaded'
  <2>1. ASSUME NEW i \in 1 .. Finished', headers[i].load,
               NEW a \in Addresses, InFile(headers[i], a)
        PROVE  memory'[a] = Image(a)
    <3>1. CASE a \in header.vaddr .. header.vaddr + written - 1
          BY <1>10, <3>1
    <3>2. CASE a \notin header.vaddr .. header.vaddr + written - 1
      <4>1. Finished = header_index - 1
            BY <1>1 DEF Finished
      <4>2. Finished' = IF written = n THEN header_index ELSE header_index - 1
            BY <1>1, <1>8 DEF Finished
      <4>3. ~ (i = header_index /\ written = n)
            BY <1>2, <1>5, <2>1, <3>2
      <4>4. i \in 1 .. Finished
            BY <1>2, <4>1, <4>2, <4>3
      <4> QED BY <1>11, <2>1, <3>2, <4>4 DEF IInv, FinishedLoaded
    <3> QED BY <3>1, <3>2
  <2> QED BY <1>1, <2>1, FileKept DEF FinishedLoaded, InFile
<1>17. FailsForMemory'
       BY <1>8 DEF FailsForMemory
<1>18. FaultsOnlyUnaligned'
  <2>1. ASSUME header.vaddr % PageSize = 0
        PROVE  written = n
    <3>1. ASSUME NEW j \in 0 .. n - 1
          PROVE  PageOf(header.vaddr + j) \in mapped
      <4>1. j \in Nat /\ j < header.size_in_memory
            BY <1>5, <1>6
      <4>2. PICK b \in Nat : b = j \div PageSize /\ b * PageSize <= j
            BY <4>1, PageBounds DEF PageOf
      <4>3. b * PageSize \in Nat /\ b * PageSize < header.size_in_memory
            BY <1>6, <4>1, <4>2
      <4>4. b < NumBlocks(header) /\ NumBlocks(header) \in Nat
            BY <1>3, <4>3, SegmentFacts
      <4>5. PageOf(header.vaddr) + b \in mapped
            BY <1>1, <4>4 DEF IInv, Prepared
      <4>6. PageOf(header.vaddr + j) = PageOf(header.vaddr) + b
            BY <1>6, <2>1, <4>1, <4>2, AlignedPage
      <4> QED BY <4>5, <4>6
    <3> QED BY <1>6, <1>7, <3>1, ReachFacts
  <2>2. pc' = "fault" => header.vaddr % PageSize # 0
        BY <1>8, <2>1
  <2> QED BY <1>1, <2>2 DEF FaultsOnlyUnaligned
<1> QED BY <1>12, <1>13, <1>14, <1>15, <1>16, <1>17, <1>18 DEF IInv

(* Nothing happens.                                                        *)
LEMMA StepStutter ==
  ASSUME IInv, UNCHANGED vars
  PROVE  IInv'
<1>1. UNCHANGED <<headers, given, supply, tables, mapped, memory, m_position,
                  header_index, header, block, pc>>
      BY DEF vars, mapVars
<1>2. Types' /\ AtHeader' /\ AtEnd' /\ Prepared'
      BY <1>1 DEF IInv, Types, TypeOK, InOrder, AtHeader, AtEnd, Prepared
<1>3. TablesNeeded' /\ BlocksAccounted'
      BY <1>1, FileKept DEF IInv, TablesNeeded, TableOf, BlocksAccounted
<1>4. NothingElse' /\ FinishedLoaded'
      BY <1>1, FileKept DEF IInv, NothingElse, FinishedLoaded, Finished, InFile
<1>5. FaultsOnlyUnaligned'
      BY <1>1 DEF IInv, FaultsOnlyUnaligned
<1>6. FailsForMemory'
      BY <1>1, FileKept DEF IInv, FailsForMemory, NeededTables
<1> QED BY <1>2, <1>3, <1>4, <1>5, <1>6 DEF IInv

LEMMA NextIInv == IInv /\ [Next]_vars => IInv'
<1> SUFFICES ASSUME IInv, [Next]_vars PROVE IInv'
    OBVIOUS
<1>1. CASE NextHeader
      BY <1>1, StepNextHeader
<1>2. CASE LastHeader
      BY <1>2, StepLastHeader
<1>3. CASE PrepareBlock
      BY <1>3, StepPrepareBlock
<1>4. CASE PrepareFails
      BY <1>4, StepPrepareFails
<1>5. CASE CopyContent
      BY <1>5, StepCopyContent
<1>6. CASE Over \/ UNCHANGED vars
      BY <1>6, StepStutter DEF Over
<1> QED BY <1>1, <1>2, <1>3, <1>4, <1>5, <1>6 DEF Next

-----------------------------------------------------------------------------
(* The invariant: the blocks taken are those of the pages prepared so far, *)
(* and the segments done with are in memory.                               *)
THEOREM SpecIInv == Spec => []IInv
<1> QED BY InitIInv, NextIInv, PTL DEF Spec

(* extract()'s variables stay in their sets.                               *)
THEOREM SpecTypeOK == Spec => []TypeOK
<1>1. IInv => TypeOK
      BY DEF IInv, Types
<1> QED BY <1>1, SpecIInv, PTL

(* A successful extract() has every byte of the file that a segment has at *)
(* its address, and no outcome leaves another byte written.                *)
THEOREM SpecImageIsLoaded == Spec => []ImageIsLoaded
<1>1. ASSUME IInv PROVE ImageIsLoaded
  <2>1. ASSUME NEW a \in Addresses, memory[a] = Junk, pc = "done"
        PROVE  Image(a) = Junk
    <3>1. Finished = NumHeaders
          BY <1>1, <2>1 DEF IInv, AtEnd, Finished
    <3>2. ASSUME NEW s \in Loads, InFile(s, a)
          PROVE  FALSE
      <4>1. PICK i \in 1 .. NumHeaders : headers[i].load /\ s = headers[i]
            BY DEF Loads
      <4>2. memory[a] = Image(a)
            BY <1>1, <3>1, <3>2, <4>1 DEF IInv, FinishedLoaded
      <4>3. Image(a) = headers[i].offset + (a - headers[i].vaddr)
            BY <1>1, <3>2, <4>1, ImageOfSegment DEF IInv
      <4>4. /\ headers[i].offset \in Nat /\ headers[i].vaddr \in Nat
            BY <1>1, <4>1, HeaderIsSegment, SegmentFacts DEF IInv
      <4>5. a - headers[i].vaddr >= 0 /\ a \in Nat
            BY <3>2, <4>1 DEF InFile, Addresses
      <4> QED BY <2>1, <4>2, <4>3, <4>4, <4>5 DEF Junk
    <3> QED BY <3>2 DEF Image
  <2> QED BY <1>1, <2>1 DEF IInv, NothingElse, ImageIsLoaded
<1> QED BY <1>1, SpecIInv, PTL

(* Every block taken is a page of a segment or a table.                    *)
THEOREM SpecBlocksAccounted == Spec => []BlocksAccounted
<1>1. IInv => BlocksAccounted
      BY DEF IInv
<1> QED BY <1>1, SpecIInv, PTL

(* extract() fails only if there was less memory than is needed.           *)
THEOREM SpecFailsForMemory == Spec => []FailsForMemory
<1>1. IInv => FailsForMemory
      BY DEF IInv
<1> QED BY <1>1, SpecIInv, PTL

(* The copy faults only for a segment that is not aligned.                 *)
THEOREM SpecFaultsOnlyUnaligned == Spec => []FaultsOnlyUnaligned
<1>1. IInv => FaultsOnlyUnaligned
      BY DEF IInv
<1> QED BY <1>1, SpecIInv, PTL
=============================================================================
