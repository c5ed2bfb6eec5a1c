------------------------------- MODULE RamDisk -------------------------------
(***************************************************************************)
(* RamDisk: the archive the loader put in memory, listed once and then     *)
(* searched by name.  Addresses count bytes from first_file.               *)
(***************************************************************************)
EXTENDS Integers, Sequences

CONSTANTS
  BlockSize,   \* 512
  SizeValues,  \* values of size_t, a multiple of BlockSize
  NameSize,    \* length of the field of a file's name, 100
  Letters,     \* bound: the characters of names
  SizeDigits,  \* octal digits in the field of a file's size, 11
  Contents     \* bound: what files hold, with their sizes

ASSUME ArchiveAssumption ==
  /\ BlockSize \in Nat \ {0}
  /\ SizeValues \in Nat \ {0} /\ SizeValues % BlockSize = 0
  /\ NameSize \in Nat \ {0} /\ SizeDigits \in Nat \ {0}
  /\ Letters \subseteq Nat \ {0}

VARIABLES
  files,      \* history: the files that were archived
  archive,    \* the blocks of the archive
  num_files,
  file        \* the header that init_ramdisk() is at

ramdiskVars == <<files, archive, num_files, file>>

-----------------------------------------------------------------------------
(* The archive, as tar writes it.                                          *)

Zero == 48   \* '0'

\* A name fills its field or is ended by a NUL.
Names ==
  {n \in [1 .. NameSize -> Letters \cup {0}] :
     n[1] # 0 /\ \A i, j \in 1 .. NameSize : i < j /\ n[i] = 0 => n[j] = 0}

\* Shifted(n)[i] is n without its last i octal digits.
Shifted(n) ==
  LET shifted[i \in 0 .. SizeDigits] == IF i = 0 THEN n ELSE shifted[i - 1] \div 8
  IN  shifted

\* The digits and the NUL that ends them.
Octal(n) ==
  [i \in 1 .. SizeDigits + 1 |->
     IF i <= SizeDigits THEN Zero + (Shifted(n)[SizeDigits - i] % 8) ELSE 0]

\* A file's size fits its field, and the file memory.
ASSUME ContentAssumption ==
  \A c \in Contents :
    /\ c.size \in Nat /\ c.size + BlockSize <= SizeValues
    /\ Shifted(c.size)[SizeDigits] = 0
    /\ c.blocks \in Nat

Header(name, size) == [holds |-> "header", filename |-> name, size |-> Octal(size)]
ZeroBlock == [holds |-> "zero"]

Files == [name : Names, content : Contents]

\* Content may look like anything: like the end, or like a file's header.
Block(content) ==
  CASE content.like = "zeros"  -> ZeroBlock
    [] content.like = "header" -> Header([i \in 1 .. NameSize |-> 1], 0)
    [] OTHER                   -> [holds |-> content.like, blocks |-> content.blocks]

Archived(f) ==
  <<Header(f.name, f.content.size)>>
    \o [i \in 1 .. (f.content.size + BlockSize - 1) \div BlockSize |-> Block(f.content)]

\* Members(fs)[n] is the first n files, one behind the other.
Members(fs) ==
  LET members[n \in 0 .. Len(fs)] ==
        IF n = 0 THEN <<>> ELSE members[n - 1] \o Archived(fs[n])
  IN  members

Archive(fs) == Members(fs)[Len(fs)] \o <<ZeroBlock, ZeroBlock>>

-----------------------------------------------------------------------------
(* How the kernel reads it.                                                *)

BlockAt(address) == archive[address \div BlockSize + 1]

IsZeroBlock(address) == BlockAt(address) = ZeroBlock

\* A turn of get_size()'s loop: i digits are read, or fewer and then the end.
ReadDigit(s, d) ==
  IF s.ended \/ d = 0 THEN [s EXCEPT !.ended = TRUE]
  ELSE [s EXCEPT !.size = (@ * 8 + (d - Zero)) % SizeValues]

ReadDigits(digits) ==
  LET read[i \in 0 .. SizeDigits + 1] ==
        IF i = 0 THEN [size |-> 0, ended |-> FALSE]
        ELSE ReadDigit(read[i - 1], digits[i])
  IN  read

\* TarFile::get_size()
GetSize(header) == ReadDigits(header.size)[SizeDigits + 1].size

\* ceilg() of a size_t: 0 - 1 wraps, and so does the result, back to 0.
ceilg(n) ==
  ((((n - 1) % SizeValues) \div BlockSize + 1) * BlockSize) % SizeValues

NextFile(address) == address + BlockSize + ceilg(GetSize(BlockAt(address)))

\* Mutant: a name that only begins like the one asked for is taken for it.
Prefixed(str1, str2) ==
  \A i \in 1 .. NameSize : str1[i] = str2[i] \/ \E j \in 1 .. i : str1[j] = 0

\* strncmp() of a field of NameSize characters gives 0.
SameName(str1, str2) ==
  \A i \in 1 .. NameSize : str1[i] = str2[i] \/ \E j \in 1 .. i - 1 : str1[j] = 0 /\ str2[j] = 0

\* The header that the search for a name is at in turn i of its loop.
FileAt[i \in 0 .. num_files] == IF i = 0 THEN 0 ELSE NextFile(FileAt[i - 1])

Matches(filename) ==
  {i \in 0 .. num_files - 1 : SameName(filename, BlockAt(FileAt[i]).filename)}

HasFile(filename) == Matches(filename) # {}

GetFile(filename) ==
  FileAt[CHOOSE i \in Matches(filename) : \A j \in Matches(filename) : i <= j]

-----------------------------------------------------------------------------
RamDiskInit == files = <<>> /\ archive = <<>> /\ num_files = 0 /\ file = 0

\* RamDisk::init() with the loader's one module.
FindRamDisk(fs) ==
  /\ files' = fs
  /\ archive' = Archive(fs)
  /\ file' = 0
  /\ UNCHANGED num_files

\* A turn of init_ramdisk()'s loop.  The length of the module plays no part.
ListFile ==
  /\ ~IsZeroBlock(file)
  /\ num_files' = num_files + 1
  /\ file' = NextFile(file)
  /\ UNCHANGED <<files, archive>>

Listed == IsZeroBlock(file) /\ UNCHANGED ramdiskVars
=============================================================================
