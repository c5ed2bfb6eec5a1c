-------------------------------- MODULE Safe --------------------------------
(***************************************************************************)
(* Safe::memcpy(), Safe::strnlen() and Safe::strncpy(): loops over memory  *)
(* that look up the page of a pointer when a counter of bytes left in the  *)
(* page says so.  One call, loop turn by loop turn; a read or a write of a *)
(* page that is not there is a page fault, and the kernel hangs.           *)
(***************************************************************************)
EXTENDS Integers

CONSTANTS
  PageSize,    \* KB(4)
  NumPages,    \* bound: pages of memory
  KernelPage,  \* first page of the kernel, that of 3 GiB
  MaxLimit     \* bound: the largest count a caller passes

ASSUME ShapeAssumption ==
  /\ PageSize \in Nat \ {0} /\ NumPages \in Nat /\ KernelPage \in Nat
  /\ MaxLimit \in Nat

VARIABLES
  present,  \* the pages that are mapped
  memory,   \* the bytes
  before,   \* history: the bytes when the call was made
  call,     \* history: the function called and its arguments
  pc,       \* the loop the call is in, "called", "done" or "fault"
  src,      \* the pointers, as the loop moves them
  dest,
  left,     \* the limit or byte count, as the loop counts it down
  read,     \* the protection level and the bytes to recheck for reading
  write,    \* the same for writing
  result,   \* strnlen()'s result, strncpy()'s copy_limit
  answer    \* the SafeResult

vars == <<present, memory, before, call, pc, src, dest, left, read, write,
          result, answer>>

OK == "OK"
PROTECTION_BOUNDS_CROSSED == "PROTECTION_BOUNDS_CROSSED"
PAGE_NOT_PRESENT == "PAGE_NOT_PRESENT"

Addresses == 0 .. PageSize * NumPages - 1
Functions == {"memcpy", "strnlen", "strncpy"}

PageOf(address) == address \div PageSize
Exists(address) == PageOf(address) \in present
ProtectionLevel(address) == IF PageOf(address) >= KernelPage THEN 0 ELSE 1

\* Mutant: one byte of the next page counts as one of this.
BytesInPageLate(address) == PageSize - (address % PageSize) + 1

BytesInPage(address) == PageSize - (address % PageSize)

Check(level, recheck) == [level |-> level, recheck |-> recheck]

\* What a caller passes: source and destination lie within the modelled
\* memory, and apart; strnlen() has no destination.
Calls ==
  {c \in [function : Functions, src : Addresses, dest : Addresses,
          count : 0 .. MaxLimit] :
     /\ c.src + c.count \in Addresses
     /\ IF c.function = "strnlen" THEN c.dest = 0
        ELSE /\ c.dest + c.count \in Addresses
             /\ c.src + c.count <= c.dest \/ c.dest + c.count <= c.src}

\* One string that ends at some address, or does not end at all.
Init ==
  /\ present \in SUBSET (0 .. NumPages - 1)
  /\ call \in Calls
  /\ \E end \in (IF call.function = "memcpy" THEN {} ELSE Addresses) \cup {-1} :
       memory = [a \in Addresses |-> IF a = end THEN 0 ELSE a + 1]
  /\ before = memory
  /\ pc = "called"
  /\ src = call.src /\ dest = call.dest /\ left = call.count
  /\ read = Check(0, 0) /\ write = Check(0, 0)
  /\ result = 0
  /\ answer = OK

Done(with) == pc' = "done" /\ answer' = with

-----------------------------------------------------------------------------
(* strnlen()                                                               *)

BeginStrnlen ==
  /\ pc = "called"
  /\ call.function \in {"strnlen", "strncpy"}
  /\ IF Exists(src)
     THEN /\ pc' = "strnlen"
          /\ read' = Check(ProtectionLevel(src), BytesInPage(src))
          /\ result' = 0
          /\ UNCHANGED answer
     ELSE Done(PAGE_NOT_PRESENT) /\ UNCHANGED <<read, result>>
  /\ UNCHANGED <<present, memory, before, call, src, dest, left, write>>

\* What follows strnlen() when it was OK: strncpy() copies from the start of
\* the string as many bytes as it is long.
StrnlenOK ==
  IF call.function = "strncpy"
  THEN /\ pc' = "copy"
       /\ src' = call.src
       /\ left' = result
       /\ UNCHANGED answer
  ELSE Done(OK) /\ UNCHANGED <<src, left>>

StrnlenEnd ==
  /\ pc = "strnlen"
  /\ left = 0 \/ (Exists(src) /\ memory[src] = 0)
  /\ StrnlenOK
  /\ UNCHANGED <<present, memory, before, call, dest, read, write, result>>

\* Mutant: the byte that was just read is not counted.
CountedLate == IF read.recheck = 0 THEN result ELSE result + 1

Counted == result + 1

StrnlenByte ==
  /\ pc = "strnlen"
  /\ left > 0
  /\ IF ~Exists(src)
     THEN pc' = "fault" /\ UNCHANGED <<src, left, read, result, answer>>
     ELSE /\ memory[src] # 0
          /\ src' = src + 1
          /\ left' = left - 1
          /\ IF read.recheck > 0
             THEN /\ read' = [read EXCEPT !.recheck = @ - 1]
                  /\ result' = Counted
                  /\ UNCHANGED <<pc, answer>>
             ELSE IF ~Exists(src')
             THEN Done(PAGE_NOT_PRESENT) /\ UNCHANGED <<read, result>>
             ELSE IF ProtectionLevel(src') # read.level
             THEN Done(PROTECTION_BOUNDS_CROSSED) /\ UNCHANGED <<read, result>>
             ELSE /\ read' = [read EXCEPT !.recheck = PageSize]
                  /\ result' = Counted
                  /\ UNCHANGED <<pc, answer>>
  /\ UNCHANGED <<present, memory, before, call, dest, write>>

-----------------------------------------------------------------------------
(* memcpy()                                                                *)

\* The level for reads is taken from dest and that for writes from src.
BeginMemcpy ==
  /\ pc = "copy" \/ (pc = "called" /\ call.function = "memcpy")
  /\ IF Exists(dest) /\ Exists(src)
     THEN /\ pc' = "memcpy"
          /\ read' = Check(ProtectionLevel(dest), BytesInPage(src))
          /\ write' = Check(ProtectionLevel(src), BytesInPage(dest))
          /\ UNCHANGED answer
     ELSE Done(PAGE_NOT_PRESENT) /\ UNCHANGED <<read, write>>
  /\ UNCHANGED <<present, memory, before, call, src, dest, left, result>>

MemcpyEnd ==
  /\ pc = "memcpy"
  /\ left = 0
  /\ Done(OK)
  /\ UNCHANGED <<present, memory, before, call, src, dest, left, read, write,
                 result>>

\* Mutant: the protection level is not looked at.
RecheckPresence(pointer, check) ==
  IF check.recheck > 0 \/ Exists(pointer) THEN OK ELSE PAGE_NOT_PRESENT

\* One pointer's recheck: why it stops the copy, or OK.
Recheck(pointer, check) ==
  IF check.recheck > 0 THEN OK
  ELSE IF ~Exists(pointer) THEN PAGE_NOT_PRESENT
  ELSE IF ProtectionLevel(pointer) # check.level THEN PROTECTION_BOUNDS_CROSSED
  ELSE OK

AfterRecheck(check) ==
  [check EXCEPT !.recheck = IF @ > 0 THEN @ - 1 ELSE PageSize]

\* Mutant: the destination does not move.
NextDestSame == dest

NextDest == dest + 1

MemcpyByte ==
  /\ pc = "memcpy"
  /\ left > 0
  /\ left' = left - 1
  /\ IF Recheck(src, read) # OK
     THEN Done(Recheck(src, read)) /\ UNCHANGED <<memory, src, dest, read, write>>
     ELSE IF Recheck(dest, write) # OK
     THEN Done(Recheck(dest, write)) /\ UNCHANGED <<memory, src, dest, read, write>>
     ELSE /\ read' = AfterRecheck(read)
          /\ write' = AfterRecheck(write)
          /\ IF Exists(src) /\ Exists(dest)
             THEN /\ memory' = [memory EXCEPT ![dest] = memory[src]]
                  /\ src' = src + 1
                  /\ dest' = NextDest
                  /\ UNCHANGED <<pc, answer>>
             ELSE pc' = "fault" /\ UNCHANGED <<memory, src, dest, answer>>
  /\ UNCHANGED <<present, before, call, result>>

Loop == \/ BeginStrnlen \/ StrnlenEnd \/ StrnlenByte
        \/ BeginMemcpy \/ MemcpyEnd \/ MemcpyByte

\* The call has returned, or CPU::hang() has the CPU.
Over == pc \in {"done", "fault"} /\ UNCHANGED vars

Next == Loop \/ Over

Spec == Init /\ [][Next]_vars

-----------------------------------------------------------------------------
(* Properties.                                                             *)

TypeOK ==
  /\ pc \in {"called", "strnlen", "copy", "memcpy", "done", "fault"}
  /\ src \in Addresses /\ dest \in Addresses
  /\ left \in 0 .. MaxLimit /\ result \in 0 .. MaxLimit
  /\ read \in [level : {0, 1}, recheck : 0 .. PageSize]
  /\ write \in [level : {0, 1}, recheck : 0 .. PageSize]

\* The length of the string at an address, or the limit if that is less.
LengthWithin(start, limit) ==
  CHOOSE n \in 0 .. limit :
    /\ \A k \in 0 .. n - 1 : before[start + k] # 0
    /\ n < limit => before[start + n] = 0

(* safe.hpp:26-27: a strnlen() that is OK gives the length of the string,  *)
(* "but it will never be higher than limit".                               *)
LengthIsRight ==
  pc = "done" /\ answer = OK /\ call.function # "memcpy" =>
    result = LengthWithin(call.src, call.count)

\* Memory once n bytes are copied.
Copied(n) ==
  [a \in Addresses |->
     IF a \in call.dest .. call.dest + n - 1
     THEN before[call.src + (a - call.dest)] ELSE before[a]]

(* Whatever the answer, memcpy() has written a prefix of the copy, and all *)
(* of it when it is OK.  strncpy() has written at most a prefix and a      *)
(* terminator behind it, within limit bytes (safe.hpp:31); when it is OK   *)
(* the prefix is the string, or falls short of limit by no more than the   *)
(* terminator's byte.  Whether that is there is StrncpyTerminates.         *)
CopiesAPrefix ==
  pc = "done" =>
    /\ call.function = "memcpy" =>
         \E n \in 0 .. call.count :
           memory = Copied(n) /\ (answer = OK => n = call.count)
    /\ call.function = "strncpy" =>
         \E n \in 0 .. call.count :
           /\ \A a \in Addresses :
                \/ memory[a] = Copied(n)[a]
                \/ a = call.dest + n /\ n < call.count /\ memory[a] = 0
           /\ answer = OK => n >= call.count - 1 \/ before[call.src + n] = 0

(* "The last character it writes will always be a null terminator"         *)
(* (safe.hpp:32), of a strncpy() that is OK and wrote something.           *)
StrncpyTerminates ==
  pc = "done" /\ answer = OK /\ call.function = "strncpy" /\ dest > call.dest =>
    memory[dest - 1] = 0

\* Source and destination each cross one page boundary at most.
CrossesOnce(start, count) == PageOf(start + count) <= PageOf(start) + 1

ShortCopy ==
  /\ call.function = "memcpy"
  /\ CrossesOnce(call.src, call.count) /\ CrossesOnce(call.dest, call.count)

(* Such a memcpy() touches no page that is not there.                      *)
ShortCopyNeverFaults == ShortCopy => pc # "fault"

(* Such a memcpy() within user or within kernel memory reads and writes no *)
(* byte beyond 3 GiB, or below: between the two it stops (safe.hpp:1-4).   *)
OnSide(start, pointer) ==
  \A k \in 0 .. pointer - start - 1 :
    ProtectionLevel(start + k) = ProtectionLevel(start)

SameSide == ProtectionLevel(call.src) = ProtectionLevel(call.dest)

ShortCopyStaysOnSide ==
  ShortCopy /\ SameSide => OnSide(call.src, src) /\ OnSide(call.dest, dest)

(* "utility functions such as strncpy that check user/kernel space         *)
(* boundaries" (safe.hpp:1-4): a page that is not there is an answer, not  *)
(* a page fault.                                                           *)
NeverFaults == pc # "fault"
=============================================================================
