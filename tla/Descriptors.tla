----------------------------- MODULE Descriptors -----------------------------
(***************************************************************************)
(* The GDT and the TSS, written once by CPU::init_gdt(), and what the CPU  *)
(* makes of the fields a descriptor's base and limit are cut into.         *)
(***************************************************************************)
EXTENDS Integers, Sequences

CONSTANTS
  Word,         \* the values of 16 bits; Octet * Octet of them, as in the code
  Octet,        \* the values of 8 bits
  Nibble,       \* the values of 4 bits
  KernelStart,  \* Kernel::kernel_start, GB(3)
  TssAddress,
  TssSize       \* sizeof(CPU::TSS)

ASSUME WidthAssumption ==
  /\ Octet \in Nat \ {0} /\ Word = Octet * Octet
  /\ Nibble \in Nat \ {0} /\ Word % Nibble = 0

VARIABLES gdt, tss

Memory == Word * Octet * Octet      \* GB(4)
Granule == Memory \div (Word * Nibble)  \* KB(4)

ASSUME PlaceAssumption ==
  /\ KernelStart \in Granule .. Memory /\ KernelStart % Granule = 0
  /\ TssAddress \in Nat /\ TssSize \in Nat \ {0}
  /\ TssAddress + TssSize < Memory

\* SegmentDescriptor::set_base_limit(), in whole pages whatever the
\* granularity, and with the base in the limit.
BaseLimit(address, bytes) ==
  LET limit == ((address + bytes) % Memory) \div Granule
  IN  [base00_15  |-> address % Word,
       base16_23  |-> (address \div Word) % Octet,
       base24_31  |-> (address \div (Word * Octet)) % Octet,
       limit00_15 |-> limit % Word,
       limit16_19 |-> (limit \div Word) % Nibble]

Null == [present |-> FALSE]

Segment(executable, dpl, bytes) ==
  [present |-> TRUE, system |-> FALSE, executable |-> executable, rw |-> TRUE,
   dpl |-> dpl, granularity |-> "PAGE", place |-> BaseLimit(0, bytes)]

TssDescriptor ==
  [present |-> TRUE, system |-> TRUE, executable |-> TRUE, rw |-> FALSE,
   dpl |-> 3, granularity |-> "BYTE", place |-> BaseLimit(TssAddress, TssSize - 1)]

KernelBytes == Memory - 1

\* Mutant: a limit counted in bytes as the kernel's is.
UserBytesToKernel == KernelStart

UserBytes == KernelStart - Granule

Gdt == <<Null, Segment(TRUE, 0, KernelBytes), Segment(FALSE, 0, KernelBytes),
         Segment(TRUE, 3, UserBytes), Segment(FALSE, 3, UserBytes),
         TssDescriptor>>

Tss == [ss0 |-> 16, iomap_base |-> TssSize, esp0 |-> 0]

InitGdt == gdt' = Gdt /\ tss' = Tss

\* CPU::set_ring3_syscall_stack()
SetRing3SyscallStack(stack) == tss' = [tss EXCEPT !.esp0 = stack]

-----------------------------------------------------------------------------
(* What the CPU reads from a table it was given with lgdt or ltr.          *)

Selected(selector) ==
  IF selector \div 8 + 1 \in DOMAIN gdt THEN gdt[selector \div 8 + 1] ELSE Null

BaseOf(d) ==
  d.place.base00_15 + Word * d.place.base16_23 + Word * Octet * d.place.base24_31

LastOf(d) ==
  LET limit == d.place.limit00_15 + Word * d.place.limit16_19
  IN  BaseOf(d) + (IF d.granularity = "PAGE" THEN (limit + 1) * Granule - 1
                   ELSE limit)

\* A code or data segment for a privilege level, from a byte to a byte.
IsSegment(d, executable, level, from, to) ==
  /\ d.present /\ ~d.system
  /\ d.executable = executable /\ d.rw
  /\ d.dpl = level
  /\ BaseOf(d) = from /\ LastOf(d) = to
=============================================================================
