----------------------------- MODULE SafeProofs -----------------------------
(***************************************************************************)
(* Proofs about Safe, for every page size, memory, split of it into user   *)
(* and kernel space, string and call.                                      *)
(***************************************************************************)
EXTENDS Safe, TLAPS

USE ShapeAssumption

Answers == {OK, PROTECTION_BOUNDS_CROSSED, PAGE_NOT_PRESENT}

Checks == [level : {0, 1}, recheck : 0 .. PageSize]

Types ==
  /\ TypeOK
  /\ answer \in Answers
  /\ call \in Calls
  /\ before \in [Addresses -> Nat]
  /\ \E end \in Int : before = [a \in Addresses |-> IF a = end THEN 0 ELSE a + 1]

(* n is what LengthWithin() means of the call's source.                    *)
IsLength(n) ==
  /\ n \in 0 .. call.count
  /\ \A k \in 0 .. n - 1 : before[call.src + k] # 0
  /\ n < call.count => before[call.src + n] = 0

(* The first n bytes are copied and no other is changed.                   *)
Written(n) == memory = Copied(n)

Called ==
  pc = "called" =>
    /\ src = call.src /\ dest = call.dest /\ left = call.count
    /\ memory = before /\ result = 0

\* strnlen() is result bytes on, and none of them was 0.
Measuring ==
  pc = "strnlen" =>
    /\ call.function \in {"strnlen", "strncpy"}
    /\ memory = before /\ dest = call.dest
    /\ result <= call.count
    /\ src = call.src + result /\ left = call.count - result
    /\ \A k \in 0 .. result - 1 : before[call.src + k] # 0

Measured ==
  pc = "copy" =>
    /\ call.function = "strncpy"
    /\ memory = before /\ IsLength(result)
    /\ src = call.src /\ dest = call.dest /\ left = result

\* memcpy() was asked for this many bytes, and has left of them to go.
Goal == IF call.function = "memcpy" THEN call.count ELSE result

Copying ==
  pc = "memcpy" =>
    /\ call.function \in {"memcpy", "strncpy"}
    /\ call.function = "strncpy" => IsLength(result)
    /\ left <= Goal
    /\ src = call.src + (Goal - left) /\ dest = call.dest + (Goal - left)
    /\ Written(Goal - left)

Returned ==
  pc = "done" =>
    /\ answer = OK /\ call.function # "memcpy" => IsLength(result)
    /\ \/ Written(0) /\ (answer = OK => call.function = "strnlen")
       \/ \E n \in 0 .. Goal :
            /\ Written(n) /\ call.function # "strnlen"
            /\ call.function = "strncpy" => IsLength(result)
            /\ answer = OK => n = Goal

(* How far a pointer is in the page it started in, which is there, and     *)
(* that the page after it is there once the pointer is past its first byte.*)
Boundary(start) == (PageOf(start) + 1) * PageSize

PageChecked(start, pointer, check) ==
  IF pointer <= Boundary(start)
  THEN PageOf(start) \in present /\ check.recheck = Boundary(start) - pointer
  ELSE PageOf(start) + 1 \in present

PagesChecked ==
  pc = "memcpy" /\ call.function = "memcpy" =>
    /\ CrossesOnce(call.src, call.count) => PageChecked(call.src, src, read)
    /\ CrossesOnce(call.dest, call.count) => PageChecked(call.dest, dest, write)

IInv ==
  /\ Types
  /\ Called /\ Measuring /\ Measured /\ Copying /\ Returned
  /\ PagesChecked /\ ShortCopyNeverFaults

-----------------------------------------------------------------------------
(* The page of an address.                                                 *)
LEMMA PageBounds ==
  ASSUME NEW a \in Nat
  PROVE  /\ PageOf(a) \in Nat
         /\ PageOf(a) * PageSize <= a /\ a < (PageOf(a) + 1) * PageSize
         /\ BytesInPage(a) = Boundary(a) - a
         /\ BytesInPage(a) \in 1 .. PageSize
BY DEF PageOf, Boundary, BytesInPage

LEMMA PageIs ==
  ASSUME NEW a \in Nat, NEW p \in Nat, p * PageSize <= a, a < (p + 1) * PageSize
  PROVE  PageOf(a) = p
BY DEF PageOf

(* The arguments of a call, and the bytes they stand for.                  *)
LEMMA CallFacts ==
  ASSUME call \in Calls
  PROVE  /\ call.function \in Functions
         /\ call.count \in 0 .. MaxLimit
         /\ call.src \in Addresses /\ call.dest \in Addresses
         /\ call.src + call.count \in Addresses
         /\ \A k \in 0 .. call.count : call.src + k \in Addresses
         /\ call.function # "strnlen" =>
              /\ call.dest + call.count \in Addresses
              /\ \A k \in 0 .. call.count : call.dest + k \in Addresses
              /\ call.src + call.count <= call.dest \/ call.dest + call.count <= call.src
<1>1. /\ call.function \in Functions
      /\ call.count \in 0 .. MaxLimit
      /\ call.src \in Addresses /\ call.dest \in Addresses
      /\ call.src + call.count \in Addresses
      BY DEF Calls
<1>2. PageSize * NumPages \in Nat
      OBVIOUS
<1>3. \A k \in 0 .. call.count : call.src + k \in Addresses
      BY <1>1, <1>2 DEF Addresses
<1>4. call.function # "strnlen" =>
        /\ call.dest + call.count \in Addresses
        /\ call.src + call.count <= call.dest \/ call.dest + call.count <= call.src
      BY DEF Calls
<1>5. call.function # "strnlen" => \A k \in 0 .. call.count : call.dest + k \in Addresses
      BY <1>1, <1>2, <1>4 DEF Addresses
<1> QED BY <1>1, <1>3, <1>4, <1>5

(* A string has one length.                                                *)
LEMMA LengthUnique ==
  ASSUME call \in Calls, NEW n, IsLength(n)
  PROVE  LengthWithin(call.src, call.count) = n
<1> DEFINE Fits(m) == /\ \A k \in 0 .. m - 1 : before[call.src + k] # 0
                      /\ m < call.count => before[call.src + m] = 0
<1>1. n \in 0 .. call.count /\ Fits(n)
      BY DEF IsLength
<1>2. ASSUME NEW m \in 0 .. call.count, Fits(m)
      PROVE  m = n
  <2>1. call.count \in Nat
        BY CallFacts
  <2>2. CASE m < n
        BY <1>1, <1>2, <2>1, <2>2
  <2>3. CASE n < m
        BY <1>1, <1>2, <2>1, <2>3
  <2> QED BY <1>1, <2>1, <2>2, <2>3
<1>3. LengthWithin(call.src, call.count) = CHOOSE m \in 0 .. call.count : Fits(m)
      BY DEF LengthWithin
<1> HIDE DEF Fits
<1> QED BY <1>1, <1>2, <1>3

(* Every string has a length.                                              *)
LEMMA LengthExists ==
  ASSUME Types
  PROVE  /\ IsLength(LengthWithin(call.src, call.count))
         /\ LengthWithin(call.src, call.count) \in 0 .. call.count
<1>1. PICK end \in Int : before = [a \in Addresses |-> IF a = end THEN 0 ELSE a + 1]
      BY DEF Types
<1> DEFINE n == IF end - call.src \in 0 .. call.count THEN end - call.src ELSE call.count
<1>2. IsLength(n)
  <2>1. /\ call.count \in Nat /\ call.src \in Nat
        /\ \A k \in 0 .. call.count : call.src + k \in Addresses
        BY CallFacts DEF Types, Addresses
  <2>2. n \in 0 .. call.count
        BY <2>1
  <2>3. \A k \in 0 .. call.count : before[call.src + k] = 0 <=> call.src + k = end
    <3>1. \A a \in Addresses : before[a] = 0 <=> a = end
          BY <1>1 DEF Addresses
    <3> QED BY <2>1, <3>1
  <2>4. \A k \in 0 .. n - 1 : before[call.src + k] # 0
        BY <2>1, <2>2, <2>3
  <2>5. n < call.count => before[call.src + n] = 0
        BY <2>1, <2>2, <2>3
  <2> QED BY <2>2, <2>4, <2>5 DEF IsLength
<1> HIDE DEF n
<1>3. LengthWithin(call.src, call.count) = n
      BY <1>2, LengthUnique DEF Types
<1> QED BY <1>2, <1>3 DEF IsLength

-----------------------------------------------------------------------------
(* A call has done nothing yet.                                            *)
LEMMA InitIInv == Init => IInv
<1> SUFFICES ASSUME Init PROVE IInv
    OBVIOUS
<1>1. PICK end \in Addresses \cup {-1} :
        memory = [a \in Addresses |-> IF a = end THEN 0 ELSE a + 1]
      BY DEF Init
<1>2. PageSize * NumPages \in Nat
      OBVIOUS
<1>3. end \in Int /\ Addresses \subseteq Nat
      BY <1>2 DEF Addresses
<1>4. memory \in [Addresses -> Nat] /\ before = memory
      BY <1>1, <1>3 DEF Init
<1>5. /\ pc = "called" /\ answer = OK /\ call \in Calls
      /\ src = call.src /\ dest = call.dest /\ left = call.count /\ result = 0
      /\ read = Check(0, 0) /\ write = Check(0, 0)
      BY DEF Init
<1>6. TypeOK
      BY <1>5, CallFacts DEF TypeOK, Check
<1>7. Types
      BY <1>1, <1>3, <1>4, <1>5, <1>6 DEF Types, Answers
<1>8. Called /\ Measuring /\ Measured /\ Copying /\ Returned
      BY <1>4, <1>5 DEF Called, Measuring, Measured, Copying, Returned
<1>9. PagesChecked /\ ShortCopyNeverFaults
      BY <1>5 DEF PagesChecked, ShortCopyNeverFaults
<1> QED BY <1>7, <1>8, <1>9 DEF IInv

(* Nothing is written yet.                                                 *)
LEMMA WrittenNone ==
  ASSUME Types, memory = before
  PROVE  Written(0)
<1>1. call.dest \in Int
      BY CallFacts DEF Types, Addresses
<1>2. call.dest .. call.dest + 0 - 1 = {}
      BY <1>1
<1> QED BY <1>2 DEF Types, Written, Copied

(* One more byte is written: what is read is what was there before, for    *)
(* source and destination are apart.                                       *)
LEMMA WrittenOneMore ==
  ASSUME Types, NEW n \in Nat, n < call.count, call.function # "strnlen",
         Written(n), UNCHANGED <<call, before>>,
         memory' = [memory EXCEPT ![call.dest + n] = memory[call.src + n]]
  PROVE  Written(n + 1)'
<1>1. /\ call.src \in Nat /\ call.dest \in Nat /\ call.count \in Nat
      /\ call.src + n \in Addresses /\ call.dest + n \in Addresses
      /\ call.src + call.count <= call.dest \/ call.dest + call.count <= call.src
  <2>1. call.count \in Nat /\ n \in 0 .. call.count
        BY CallFacts DEF Types
  <2>2. Addresses \subseteq Nat
        BY DEF Addresses
  <2> QED BY <2>1, <2>2, CallFacts DEF Types
<1>2. memory[call.src + n] = before[call.src + n]
      BY <1>1 DEF Written, Copied
<1>3. ASSUME NEW a \in Addresses
      PROVE  memory'[a] = IF a \in call.dest .. call.dest + (n + 1) - 1
                          THEN before[call.src + (a - call.dest)] ELSE before[a]
  <2>1. a \in Int
        BY DEF Addresses
  <2>2. CASE a = call.dest + n
    <3>1. memory'[a] = before[call.src + n] /\ a - call.dest = n
          BY <1>1, <1>2, <2>2 DEF Written, Copied
    <3> QED BY <1>1, <2>2, <3>1
  <2>3. CASE a # call.dest + n
    <3>1. memory'[a] = memory[a]
          BY <1>1, <2>3 DEF Written, Copied
    <3>2. a \in call.dest .. call.dest + (n + 1) - 1 <=> a \in call.dest .. call.dest + n - 1
          BY <1>1, <2>1, <2>3
    <3> QED BY <3>1, <3>2 DEF Written, Copied
  <2> QED BY <2>2, <2>3
<1>4. memory' = [a \in Addresses |->
                   IF a \in call.dest .. call.dest + (n + 1) - 1
                   THEN before[call.src + (a - call.dest)] ELSE before[a]]
  <2>1. DOMAIN memory = Addresses
        BY DEF Written, Copied
  <2>2. memory' = [a \in Addresses |-> memory'[a]]
        BY <2>1
  <2> QED BY ONLY <1>3, <2>2
<1> QED BY <1>4 DEF Written, Copied

(* A turn of memcpy()'s loop keeps a pointer within pages that were        *)
(* checked, or the check has stopped the copy.                             *)
LEMMA PageStaysChecked ==
  ASSUME NEW start \in Nat, NEW pointer \in Nat, NEW count \in Nat,
         NEW check \in Checks,
         start <= pointer, pointer < start + count,
         CrossesOnce(start, count),
         PageChecked(start, pointer, check),
         Recheck(pointer, check) = OK
  PROVE  /\ Exists(pointer)
         /\ PageChecked(start, pointer + 1, AfterRecheck(check))
<1> DEFINE p == PageOf(start)
           b == Boundary(start)
<1>1. /\ p \in Nat /\ p * PageSize <= start /\ start < b
      /\ b = (p + 1) * PageSize /\ b \in Nat
      BY PageBounds DEF Boundary
<1>2. PageOf(start + count) \in Nat /\ PageOf(start + count) <= p + 1
      BY PageBounds DEF CrossesOnce
<1>3. start + count < (p + 2) * PageSize
  <2>1. start + count < (PageOf(start + count) + 1) * PageSize
        BY PageBounds
  <2>2. (PageOf(start + count) + 1) * PageSize <= (p + 2) * PageSize
        BY <1>1, <1>2
  <2>3. (PageOf(start + count) + 1) * PageSize \in Nat /\ (p + 2) * PageSize \in Nat
        BY <1>1, <1>2
  <2> QED BY <2>1, <2>2, <2>3
<1>4. PageOf(b) = p + 1
  <2>1. (p + 1) * PageSize < ((p + 1) + 1) * PageSize
        BY <1>1
  <2> QED BY <1>1, <2>1, PageIs
<1>5. check.recheck \in 0 .. PageSize
      BY DEF Checks
<1> HIDE DEF p, b
<1>6. CASE pointer < b
  <2>1. p \in present /\ check.recheck = b - pointer
        BY <1>1, <1>6 DEF PageChecked, p, b
  <2>2. PageOf(pointer) = p
        BY <1>1, <1>6, PageIs
  <2>3. AfterRecheck(check).recheck = b - (pointer + 1)
        BY <1>1, <1>5, <1>6, <2>1 DEF AfterRecheck, Checks
  <2>4. pointer + 1 <= b
        BY <1>1, <1>6
  <2> QED BY <2>1, <2>2, <2>3, <2>4 DEF PageChecked, Exists, p, b
<1>7. CASE pointer = b
  <2>1. check.recheck = 0
        BY <1>1, <1>7 DEF PageChecked, p, b
  <2>2. Exists(pointer)
        BY <2>1 DEF Recheck, OK, PAGE_NOT_PRESENT
  <2>3. p + 1 \in present
        BY <1>4, <1>7, <2>2 DEF Exists
  <2> QED BY <1>1, <1>7, <2>2, <2>3 DEF PageChecked, p, b
<1>8. CASE pointer > b
  <2>1. p + 1 \in present
        BY <1>1, <1>8 DEF PageChecked, p, b
  <2>2. PageOf(pointer) = p + 1
    <3>1. pointer < ((p + 1) + 1) * PageSize
          BY <1>1, <1>3
    <3> QED BY <1>1, <1>8, <3>1, PageIs
  <2> QED BY <1>1, <1>8, <2>1, <2>2 DEF PageChecked, Exists, p, b
<1> QED BY <1>1, <1>6, <1>7, <1>8

-----------------------------------------------------------------------------
(* What all steps keep, and that memory is made of addresses.              *)
LEMMA TypesKept ==
  ASSUME Types, UNCHANGED <<call, before>>, TypeOK', answer' \in Answers
  PROVE  Types'
BY DEF Types

LEMMA AddressesNat == Addresses \subseteq Nat
BY DEF Addresses

(* strnlen() begins.                                                       *)
LEMMA StepBeginStrnlen ==
  ASSUME IInv, BeginStrnlen
  PROVE  IInv'
<1> USE DEF IInv
<1>1. UNCHANGED <<present, memory, before, call, src, dest, left, write>> /\ pc = "called"
      BY DEF BeginStrnlen
<1>2. /\ src = call.src /\ dest = call.dest /\ left = call.count
      /\ memory = before /\ result = 0 /\ call.function \in {"strnlen", "strncpy"}
      BY <1>1 DEF BeginStrnlen, Called
<1>3. call \in Calls /\ src \in Nat
      BY AddressesNat DEF Types, TypeOK
<1>4. CASE Exists(src)
  <2>1. /\ pc' = "strnlen" /\ result' = 0 /\ UNCHANGED answer
        /\ read' = Check(ProtectionLevel(src), BytesInPage(src))
        BY <1>4 DEF BeginStrnlen
  <2>2. read' \in Checks
        BY <1>3, <2>1, PageBounds DEF Check, Checks, ProtectionLevel
  <2>3. TypeOK'
        BY <1>1, <2>1, <2>2 DEF Types, TypeOK, Checks
  <2>4. Types'
        BY <1>1, <2>1, <2>3, TypesKept DEF Types
  <2>5. Measuring'
        BY <1>1, <1>2, <1>3, <2>1, CallFacts, AddressesNat DEF Measuring
  <2>6. Called' /\ Measured' /\ Copying' /\ Returned' /\ PagesChecked'
        BY <2>1 DEF Called, Measured, Copying, Returned, PagesChecked
  <2> QED BY <2>1, <2>4, <2>5, <2>6 DEF ShortCopyNeverFaults
<1>5. CASE ~Exists(src)
  <2>1. pc' = "done" /\ answer' = PAGE_NOT_PRESENT /\ UNCHANGED <<read, result>>
        BY <1>5 DEF BeginStrnlen, Done
  <2>2. Types'
        BY <1>1, <2>1, TypesKept DEF Types, TypeOK, Answers
  <2>3. Written(0)'
        BY <1>1, <1>2, <2>2, WrittenNone DEF Written, Copied
  <2>4. Returned'
        BY <2>1, <2>3 DEF Returned, OK, PAGE_NOT_PRESENT
  <2>5. Called' /\ Measuring' /\ Measured' /\ Copying' /\ PagesChecked'
        BY <2>1 DEF Called, Measuring, Measured, Copying, PagesChecked
  <2> QED BY <2>1, <2>2, <2>4, <2>5 DEF ShortCopyNeverFaults
<1> QED BY <1>4, <1>5

(* strnlen() is at the limit or at a 0: its result is the length.          *)
LEMMA StepStrnlenEnd ==
  ASSUME IInv, StrnlenEnd
  PROVE  IInv'
<1> USE DEF IInv
<1>1. UNCHANGED <<present, memory, before, call, dest, read, write, result>> /\ pc = "strnlen"
      BY DEF StrnlenEnd
<1>2. /\ call.function \in {"strnlen", "strncpy"}
      /\ memory = before /\ dest = call.dest /\ result <= call.count
      /\ src = call.src + result /\ left = call.count - result
      /\ \A k \in 0 .. result - 1 : before[call.src + k] # 0
      BY <1>1 DEF Measuring
<1>3. call \in Calls /\ result \in Nat /\ call.count \in Nat /\ call.src \in Addresses
      BY CallFacts DEF Types, TypeOK
<1>4. IsLength(result)
  <2>1. left = 0 \/ memory[src] = 0
        BY DEF StrnlenEnd
  <2> QED BY <1>2, <1>3, <2>1 DEF IsLength
<1>5. Written(0)'
      BY <1>1, <1>2, WrittenNone DEF Written, Copied
<1>6. CASE call.function = "strncpy"
  <2>1. pc' = "copy" /\ src' = call.src /\ left' = result /\ UNCHANGED answer
        BY <1>6 DEF StrnlenEnd, StrnlenOK
  <2>2. Types'
        BY <1>1, <1>3, <2>1, TypesKept DEF Types, TypeOK
  <2>3. Measured'
        BY <1>1, <1>2, <1>4, <1>6, <2>1 DEF Measured, IsLength
  <2>4. Called' /\ Measuring' /\ Copying' /\ Returned' /\ PagesChecked'
        BY <2>1 DEF Called, Measuring, Copying, Returned, PagesChecked
  <2> QED BY <2>1, <2>2, <2>3, <2>4 DEF ShortCopyNeverFaults
<1>7. CASE call.function # "strncpy"
  <2>1. pc' = "done" /\ answer' = OK /\ UNCHANGED <<src, left>>
        BY <1>7 DEF StrnlenEnd, StrnlenOK, Done
  <2>2. Types'
        BY <1>1, <2>1, TypesKept DEF Types, TypeOK, Answers
  <2>3. Returned'
        BY <1>1, <1>2, <1>4, <1>5, <1>7, <2>1 DEF Returned, IsLength
  <2>4. Called' /\ Measuring' /\ Measured' /\ Copying' /\ PagesChecked'
        BY <2>1 DEF Called, Measuring, Measured, Copying, PagesChecked
  <2> QED BY <2>1, <2>2, <2>3, <2>4 DEF ShortCopyNeverFaults
<1> QED BY <1>6, <1>7

(* strnlen() counts a byte, faults on it or finds its page has changed.    *)
LEMMA StepStrnlenByte ==
  ASSUME IInv, StrnlenByte
  PROVE  IInv'
<1> USE DEF IInv
<1>1. /\ UNCHANGED <<present, memory, before, call, dest, write>>
      /\ pc = "strnlen" /\ left > 0
      BY DEF StrnlenByte
<1>2. /\ call.function \in {"strnlen", "strncpy"}
      /\ memory = before /\ dest = call.dest /\ result <= call.count
      /\ src = call.src + result /\ left = call.count - result
      /\ \A k \in 0 .. result - 1 : before[call.src + k] # 0
      BY <1>1 DEF Measuring
<1>3. /\ call \in Calls /\ result \in Nat /\ call.count \in 0 .. MaxLimit
      /\ call.src \in Nat /\ read \in Checks
  <2>1. call \in Calls /\ result \in Nat /\ read \in Checks
        BY DEF Types, TypeOK, Checks
  <2>2. call.count \in 0 .. MaxLimit /\ call.src \in Nat
        BY <2>1, CallFacts, AddressesNat
  <2> QED BY <2>1, <2>2
<1>4. /\ result + 1 \in 0 .. MaxLimit /\ result + 1 <= call.count
      /\ left - 1 \in 0 .. MaxLimit /\ left - 1 = call.count - (result + 1)
      /\ src + 1 = call.src + (result + 1)
      BY <1>1, <1>2, <1>3
<1>5. src + 1 \in Addresses
      BY <1>3, <1>4, CallFacts
<1>6. Written(0)'
      BY <1>1, <1>2, WrittenNone DEF Written, Copied
<1>7. CASE ~Exists(src)
  <2>1. pc' = "fault" /\ UNCHANGED <<src, left, read, result, answer>>
        BY <1>7 DEF StrnlenByte
  <2>2. Types'
        BY <1>1, <2>1, TypesKept DEF Types, TypeOK
  <2>3. /\ Called' /\ Measuring' /\ Measured' /\ Copying' /\ Returned'
        /\ PagesChecked'
        BY <2>1 DEF Called, Measuring, Measured, Copying, Returned, PagesChecked
  <2> QED BY <1>1, <1>2, <2>2, <2>3 DEF ShortCopyNeverFaults, ShortCopy
<1>8. CASE Exists(src)
  <2>1. src' = src + 1 /\ left' = left - 1 /\ memory[src] # 0
        BY <1>8 DEF StrnlenByte
  <2>2. ASSUME result' = result + 1, UNCHANGED <<pc, answer>>, read' \in Checks
        PROVE  IInv'
    <3>1. Types'
          BY <1>1, <1>4, <1>5, <2>1, <2>2, TypesKept DEF Types, TypeOK, Checks
    <3>2. \A k \in 0 .. result : before[call.src + k] # 0
          BY <1>2, <1>3, <2>1
    <3>3. Measuring'
      <4>1. \A k \in 0 .. (result + 1) - 1 : before[call.src + k] # 0
            BY <1>3, <3>2
      <4> QED BY <1>1, <1>2, <1>4, <2>1, <2>2, <4>1 DEF Measuring
    <3>4. Called' /\ Measured' /\ Copying' /\ Returned' /\ PagesChecked'
          BY <1>1, <2>2 DEF Called, Measured, Copying, Returned, PagesChecked
    <3> QED BY <1>1, <2>2, <3>1, <3>3, <3>4 DEF ShortCopyNeverFaults
  <2>3. ASSUME pc' = "done", answer' \in Answers, answer' # OK, UNCHANGED <<read, result>>
        PROVE  IInv'
    <3>1. Types'
          BY <1>1, <1>4, <1>5, <2>1, <2>3, TypesKept DEF Types, TypeOK
    <3>2. Returned'
          BY <1>6, <2>3 DEF Returned
    <3>3. Called' /\ Measuring' /\ Measured' /\ Copying' /\ PagesChecked'
          BY <2>3 DEF Called, Measuring, Measured, Copying, PagesChecked
    <3> QED BY <2>3, <3>1, <3>2, <3>3 DEF ShortCopyNeverFaults
  <2>4. CASE read.recheck > 0
    <3>1. /\ read' = [read EXCEPT !.recheck = @ - 1]
          /\ result' = result + 1 /\ UNCHANGED <<pc, answer>>
          BY <1>8, <2>4 DEF StrnlenByte, Counted
    <3>2. read' \in Checks
          BY <1>3, <2>4, <3>1 DEF Checks
    <3> QED BY <2>2, <3>1, <3>2
  <2>5. CASE ~(read.recheck > 0) /\ ~Exists(src')
        BY <1>8, <2>3, <2>5 DEF StrnlenByte, Done, Answers, OK, PAGE_NOT_PRESENT
  <2>6. CASE ~(read.recheck > 0) /\ Exists(src') /\ ProtectionLevel(src') # read.level
        BY <1>8, <2>3, <2>6
        DEF StrnlenByte, Done, Answers, OK, PROTECTION_BOUNDS_CROSSED
  <2>7. CASE ~(read.recheck > 0) /\ Exists(src') /\ ProtectionLevel(src') = read.level
    <3>1. /\ read' = [read EXCEPT !.recheck = PageSize]
          /\ result' = result + 1 /\ UNCHANGED <<pc, answer>>
          BY <1>8, <2>7 DEF StrnlenByte, Counted
    <3>2. read' \in Checks
          BY <1>3, <3>1 DEF Checks
    <3> QED BY <2>2, <3>1, <3>2
  <2> QED BY <2>4, <2>5, <2>6, <2>7
<1> QED BY <1>7, <1>8

(* memcpy() begins, for itself or for strncpy().                           *)
LEMMA StepBeginMemcpy ==
  ASSUME IInv, BeginMemcpy
  PROVE  IInv'
<1> USE DEF IInv
<1>1. UNCHANGED <<present, memory, before, call, src, dest, left, result>>
      BY DEF BeginMemcpy
<1>2. /\ call.function \in {"memcpy", "strncpy"}
      /\ src = call.src /\ dest = call.dest /\ left = Goal
      /\ memory = before
      /\ call.function = "strncpy" => IsLength(result)
      BY DEF BeginMemcpy, Called, Measured, Goal
<1>3. /\ call \in Calls /\ src \in Nat /\ dest \in Nat
      /\ left \in Nat
      BY AddressesNat DEF Types, TypeOK
<1>4. Written(0)'
      BY <1>1, <1>2, WrittenNone DEF Written, Copied
<1>5. CASE Exists(dest) /\ Exists(src)
  <2>1. /\ pc' = "memcpy" /\ UNCHANGED answer
        /\ read' = Check(ProtectionLevel(dest), BytesInPage(src))
        /\ write' = Check(ProtectionLevel(src), BytesInPage(dest))
        BY <1>5 DEF BeginMemcpy
  <2>2. BytesInPage(src) \in 0 .. PageSize /\ BytesInPage(dest) \in 0 .. PageSize
        BY <1>3, PageBounds
  <2>3. read' \in Checks /\ write' \in Checks
        BY <2>1, <2>2 DEF Check, Checks, ProtectionLevel
  <2>4. Types'
        BY <1>1, <2>1, <2>3, TypesKept DEF Types, TypeOK, Checks
  <2>5. Copying'
    <3>1. Goal' = Goal /\ (Goal - left)' = 0
          BY <1>1, <1>2, <1>3 DEF Goal
    <3> QED BY <1>1, <1>2, <1>3, <1>4, <2>1, <3>1 DEF Copying, IsLength
  <2>6. PagesChecked'
    <3>1. PageChecked(src, src, read)'
      <4>1. src <= Boundary(src) /\ read'.recheck = Boundary(src) - src
            BY <1>3, <2>1, PageBounds DEF Boundary, Check
      <4> QED BY <1>1, <1>5, <4>1 DEF PageChecked, Exists, Boundary, PageOf
    <3>2. PageChecked(dest, dest, write)'
      <4>1. dest <= Boundary(dest) /\ write'.recheck = Boundary(dest) - dest
            BY <1>3, <2>1, PageBounds DEF Boundary, Check
      <4> QED BY <1>1, <1>5, <4>1 DEF PageChecked, Exists, Boundary, PageOf
    <3>3. src' = call.src' /\ dest' = call.dest'
          BY <1>1, <1>2
    <3> QED BY <3>1, <3>2, <3>3 DEF PagesChecked
  <2>7. Called' /\ Measuring' /\ Measured' /\ Returned'
        BY <2>1 DEF Called, Measuring, Measured, Returned
  <2> QED BY <2>1, <2>4, <2>5, <2>6, <2>7 DEF ShortCopyNeverFaults
<1>6. CASE ~(Exists(dest) /\ Exists(src))
  <2>1. pc' = "done" /\ answer' = PAGE_NOT_PRESENT /\ UNCHANGED <<read, write>>
        BY <1>6 DEF BeginMemcpy, Done
  <2>2. Types'
        BY <1>1, <2>1, TypesKept DEF Types, TypeOK, Answers
  <2>3. Returned'
        BY <1>4, <2>1 DEF Returned, OK, PAGE_NOT_PRESENT
  <2>4. Called' /\ Measuring' /\ Measured' /\ Copying' /\ PagesChecked'
        BY <2>1 DEF Called, Measuring, Measured, Copying, PagesChecked
  <2> QED BY <2>1, <2>2, <2>3, <2>4 DEF ShortCopyNeverFaults
<1> QED BY <1>5, <1>6

(* What memcpy()'s loop knows between two bytes.                           *)
LEMMA CopyFacts ==
  ASSUME IInv, pc = "memcpy"
  PROVE  /\ call \in Calls /\ call.function \in {"memcpy", "strncpy"}
         /\ call.count \in 0 .. MaxLimit
         /\ Goal \in 0 .. call.count /\ left \in 0 .. Goal
         /\ call.function = "strncpy" => IsLength(result)
         /\ call.src \in Nat /\ call.dest \in Nat
         /\ src = call.src + (Goal - left) /\ dest = call.dest + (Goal - left)
         /\ Written(Goal - left)
         /\ read \in Checks /\ write \in Checks
<1>1. /\ call \in Calls /\ left \in Nat
      /\ read \in Checks /\ write \in Checks
      BY DEF IInv, Types, TypeOK, Checks
<1>2. call.count \in 0 .. MaxLimit /\ call.src \in Nat /\ call.dest \in Nat
      BY <1>1, CallFacts, AddressesNat
<1>3. /\ call.function \in {"memcpy", "strncpy"}
      /\ call.function = "strncpy" => IsLength(result)
      /\ left <= Goal
      /\ src = call.src + (Goal - left) /\ dest = call.dest + (Goal - left)
      /\ Written(Goal - left)
      BY DEF IInv, Copying
<1>4. Goal \in 0 .. call.count
      BY <1>2, <1>3 DEF Goal, IsLength
<1> QED BY <1>1, <1>2, <1>3, <1>4

(* memcpy() has copied all.                                                *)
LEMMA StepMemcpyEnd ==
  ASSUME IInv, MemcpyEnd
  PROVE  IInv'
<1> USE DEF IInv
<1>1. /\ UNCHANGED <<present, memory, before, call, src, dest, left, read, write, result>>
      /\ pc = "memcpy" /\ left = 0 /\ pc' = "done" /\ answer' = OK
      BY DEF MemcpyEnd, Done
<1>2. Types'
      BY <1>1, TypesKept DEF Types, TypeOK, Answers
<1>3. Goal' = Goal /\ Goal \in 0 .. Goal /\ Written(Goal)'
  <2>1. Goal \in Nat /\ Written(Goal - 0)
        BY <1>1, CopyFacts
  <2>2. Goal - 0 = Goal
        BY <2>1
  <2>3. Written(Goal)
        BY <2>1, <2>2
  <2> QED BY <1>1, <2>1, <2>3 DEF Written, Copied, Goal
<1>4. call.function = "strncpy" => IsLength(result)'
      BY <1>1, CopyFacts DEF IsLength
<1>5. call.function \in {"memcpy", "strncpy"}
      BY <1>1, CopyFacts
<1>6. Returned'
      BY <1>1, <1>3, <1>4, <1>5 DEF Returned
<1>7. Called' /\ Measuring' /\ Measured' /\ Copying' /\ PagesChecked'
      BY <1>1 DEF Called, Measuring, Measured, Copying, PagesChecked
<1> QED BY <1>1, <1>2, <1>6, <1>7 DEF ShortCopyNeverFaults

(* memcpy() stops at a recheck, faults, or copies a byte.                  *)
LEMMA StepMemcpyByte ==
  ASSUME IInv, MemcpyByte
  PROVE  IInv'
<1> USE DEF IInv
<1>1. /\ UNCHANGED <<present, before, call, result>>
      /\ pc = "memcpy" /\ left > 0 /\ left' = left - 1
      BY DEF MemcpyByte
<1>0. PICK n : n = Goal - left
      OBVIOUS
<1>2. /\ call \in Calls /\ call.function \in {"memcpy", "strncpy"}
      /\ call.count \in 0 .. MaxLimit
      /\ Goal \in 0 .. call.count /\ left \in 0 .. Goal
      /\ call.function = "strncpy" => IsLength(result)
      /\ call.src \in Nat /\ call.dest \in Nat
      /\ src = call.src + n /\ dest = call.dest + n
      /\ Written(n)
      /\ read \in Checks /\ write \in Checks
      BY <1>0, <1>1, CopyFacts
<1>3. n \in Nat /\ n < Goal /\ n < call.count /\ left' \in 0 .. MaxLimit
      BY <1>0, <1>1, <1>2
<1>4. Goal' = Goal /\ (call.function = "strncpy" => IsLength(result)')
      BY <1>1, <1>2 DEF Goal, IsLength
<1>5. ASSUME pc' = "done", answer' \in Answers, answer' # OK,
             UNCHANGED <<memory, src, dest, read, write>>
      PROVE  IInv'
  <2>1. Types'
        BY <1>1, <1>3, <1>5, TypesKept DEF Types, TypeOK
  <2>2. Written(n)' /\ n \in 0 .. Goal'
        BY <1>1, <1>2, <1>3, <1>4, <1>5 DEF Written, Copied
  <2>3. Returned'
        BY <1>1, <1>2, <1>4, <1>5, <2>2 DEF Returned
  <2>4. Called' /\ Measuring' /\ Measured' /\ Copying' /\ PagesChecked'
        BY <1>5 DEF Called, Measuring, Measured, Copying, PagesChecked
  <2> QED BY <1>5, <2>1, <2>3, <2>4 DEF ShortCopyNeverFaults
<1>6. Recheck(src, read) \in Answers /\ Recheck(dest, write) \in Answers
      BY DEF Recheck, Answers
<1>7. CASE Recheck(src, read) # OK
      BY <1>5, <1>6, <1>7 DEF MemcpyByte, Done
<1>8. CASE Recheck(src, read) = OK /\ Recheck(dest, write) # OK
      BY <1>5, <1>6, <1>8 DEF MemcpyByte, Done
<1>9. CASE Recheck(src, read) = OK /\ Recheck(dest, write) = OK
  <2>1. read' = AfterRecheck(read) /\ write' = AfterRecheck(write)
        BY <1>9 DEF MemcpyByte
  <2>2. read' \in Checks /\ write' \in Checks
        BY <1>2, <2>1 DEF AfterRecheck, Checks
  <2>3. call.function = "memcpy" /\ CrossesOnce(call.src, call.count) =>
          Exists(src) /\ PageChecked(call.src, src + 1, AfterRecheck(read))
    <3>1. SUFFICES ASSUME call.function = "memcpy", CrossesOnce(call.src, call.count)
                   PROVE  Exists(src) /\ PageChecked(call.src, src + 1, AfterRecheck(read))
          OBVIOUS
    <3>2. PageChecked(call.src, src, read)
          BY <1>1, <3>1 DEF PagesChecked
    <3>3. src \in Nat /\ call.count \in Nat /\ call.src <= src /\ src < call.src + call.count
          BY <1>2, <1>3
    <3> QED BY <1>2, <1>9, <3>1, <3>2, <3>3, PageStaysChecked
  <2>4. call.function = "memcpy" /\ CrossesOnce(call.dest, call.count) =>
          Exists(dest) /\ PageChecked(call.dest, dest + 1, AfterRecheck(write))
    <3>1. SUFFICES ASSUME call.function = "memcpy", CrossesOnce(call.dest, call.count)
                   PROVE  Exists(dest) /\ PageChecked(call.dest, dest + 1, AfterRecheck(write))
          OBVIOUS
    <3>2. PageChecked(call.dest, dest, write)
          BY <1>1, <3>1 DEF PagesChecked
    <3>3. /\ dest \in Nat /\ call.count \in Nat
          /\ call.dest <= dest /\ dest < call.dest + call.count
          BY <1>2, <1>3
    <3> QED BY <1>2, <1>9, <3>1, <3>2, <3>3, PageStaysChecked
  <2>5. CASE ~(Exists(src) /\ Exists(dest))
    <3>1. pc' = "fault" /\ UNCHANGED <<memory, src, dest, answer>>
          BY <1>9, <2>5 DEF MemcpyByte
    <3>2. Types'
          BY <1>1, <1>3, <2>2, <3>1, TypesKept DEF Types, TypeOK, Checks
    <3>3. /\ Called' /\ Measuring' /\ Measured' /\ Copying' /\ Returned'
          /\ PagesChecked'
          BY <3>1 DEF Called, Measuring, Measured, Copying, Returned, PagesChecked
    <3>4. ShortCopyNeverFaults'
          BY <1>1, <2>3, <2>4, <2>5 DEF ShortCopyNeverFaults, ShortCopy, CrossesOnce,
             PageOf
    <3> QED BY <3>2, <3>3, <3>4
  <2>6. CASE Exists(src) /\ Exists(dest)
    <3>1. /\ memory' = [memory EXCEPT ![dest] = memory[src]]
          /\ src' = src + 1 /\ dest' = dest + 1
          /\ UNCHANGED <<pc, answer>>
          BY <1>9, <2>6 DEF MemcpyByte, NextDest
    <3>2. src + 1 \in Addresses /\ dest + 1 \in Addresses
      <4>1. /\ \A k \in 0 .. call.count : call.src + k \in Addresses
            /\ \A k \in 0 .. call.count : call.dest + k \in Addresses
            BY <1>2, CallFacts
      <4>2. n + 1 \in 0 .. call.count
            BY <1>2, <1>3
      <4>3. src + 1 = call.src + (n + 1) /\ dest + 1 = call.dest + (n + 1)
            BY <1>2, <1>3
      <4> QED BY <4>1, <4>2, <4>3
    <3>3. Types'
          BY <1>1, <1>3, <2>2, <3>1, <3>2, TypesKept DEF Types, TypeOK, Checks
    <3>4. Written(n + 1)'
      <4>1. memory' = [memory EXCEPT ![call.dest + n] = memory[call.src + n]]
            BY <1>2, <3>1
      <4> QED BY <1>1, <1>2, <1>3, <4>1, WrittenOneMore
    <3>5. (Goal - left)' = n + 1
          BY <1>0, <1>1, <1>2, <1>4
    <3>6. Copying'
      <4>1. left' <= Goal'
            BY <1>1, <1>2, <1>4
      <4>2. src' = call.src' + (Goal - left)' /\ dest' = call.dest' + (Goal - left)'
            BY <1>1, <1>2, <1>3, <3>1, <3>5
      <4>3. Written(Goal - left)'
            BY <3>4, <3>5 DEF Written, Copied
      <4> QED BY <1>1, <1>2, <1>4, <4>1, <4>2, <4>3 DEF Copying
    <3>7. PagesChecked'
          BY <1>1, <2>1, <2>3, <2>4, <3>1
          DEF PagesChecked, PageChecked, CrossesOnce, PageOf, Boundary
    <3>8. Called' /\ Measuring' /\ Measured' /\ Returned'
          BY <1>1, <3>1 DEF Called, Measuring, Measured, Returned
    <3> QED BY <1>1, <3>1, <3>3, <3>6, <3>7, <3>8 DEF ShortCopyNeverFaults
  <2> QED BY <2>5, <2>6
<1> QED BY <1>7, <1>8, <1>9

LEMMA NextIInv == IInv /\ [Next]_vars => IInv'
<1> SUFFICES ASSUME IInv, [Next]_vars PROVE IInv'
    OBVIOUS
<1>1. ASSUME UNCHANGED vars PROVE IInv'
  <2>1. Types' /\ Called' /\ Measuring' /\ Measured'
        BY <1>1 DEF vars, IInv, Types, TypeOK, Called, Measuring, Measured, IsLength
  <2>2. Copying' /\ Returned'
        BY <1>1 DEF vars, IInv, Copying, Returned, Written, Copied, IsLength, Goal
  <2>3. PagesChecked' /\ ShortCopyNeverFaults'
        BY <1>1 DEF vars, IInv, PagesChecked, PageChecked, ShortCopyNeverFaults,
           ShortCopy
  <2> QED BY <2>1, <2>2, <2>3 DEF IInv
<1>2. CASE BeginStrnlen
      BY <1>2, StepBeginStrnlen
<1>3. CASE StrnlenEnd
      BY <1>3, StepStrnlenEnd
<1>4. CASE StrnlenByte
      BY <1>4, StepStrnlenByte
<1>5. CASE BeginMemcpy
      BY <1>5, StepBeginMemcpy
<1>6. CASE MemcpyEnd
      BY <1>6, StepMemcpyEnd
<1>7. CASE MemcpyByte
      BY <1>7, StepMemcpyByte
<1>8. CASE Over
      BY <1>1, <1>8 DEF Over
<1> QED BY <1>1, <1>2, <1>3, <1>4, <1>5, <1>6, <1>7, <1>8 DEF Next, Loop

-----------------------------------------------------------------------------
(* User and kernel memory: while the copy runs, the level remembered for a *)
(* pointer is that of the page it started in, if both started on one side. *)
LevelsRemembered ==
  pc = "memcpy" /\ SameSide =>
    /\ read.level = ProtectionLevel(call.src)
    /\ write.level = ProtectionLevel(call.dest)

SideInv == LevelsRemembered /\ ShortCopyStaysOnSide

(* A pointer that passes its recheck is on the side it started on.         *)
LEMMA SideOfPointer ==
  ASSUME NEW start \in Nat, NEW pointer \in Nat, NEW count \in Nat,
         NEW check \in Checks,
         start <= pointer, pointer < start + count,
         CrossesOnce(start, count),
         PageChecked(start, pointer, check),
         Recheck(pointer, check) = OK,
         check.level = ProtectionLevel(start),
         OnSide(start, pointer)
  PROVE  OnSide(start, pointer + 1)
<1> DEFINE p == PageOf(start)
           b == Boundary(start)
<1>1. /\ p \in Nat /\ p * PageSize <= start /\ start < b
      /\ b = (p + 1) * PageSize /\ b \in Nat
      BY PageBounds DEF Boundary
<1>2. ProtectionLevel(pointer) = ProtectionLevel(start)
  <2>1. CASE pointer < b
    <3>1. PageOf(pointer) = p
          BY <1>1, <2>1, PageIs
    <3> QED BY <3>1 DEF ProtectionLevel
  <2>2. CASE pointer = b
    <3>1. check.recheck = 0
          BY <2>2 DEF PageChecked
    <3> QED BY <3>1 DEF Recheck, OK, PAGE_NOT_PRESENT, PROTECTION_BOUNDS_CROSSED
  <2>3. CASE pointer > b
    <3>1. PageOf(pointer) = p + 1
      <4>1. PageOf(pointer) \in Nat /\ PageOf(start + count) \in Nat
              /\ PageOf(start + count) <= p + 1
            BY PageBounds DEF CrossesOnce
      <4>2. start + count < (PageOf(start + count) + 1) * PageSize
            BY PageBounds
      <4>3. (PageOf(start + count) + 1) * PageSize <= (p + 2) * PageSize
            BY <1>1, <4>1
      <4>4. pointer < ((p + 1) + 1) * PageSize
            BY <1>1, <4>1, <4>2, <4>3
      <4> HIDE DEF p, b
      <4> QED BY <1>1, <2>3, <4>4, PageIs
    <3>2. PageOf(b) = p + 1
      <4>1. (p + 1) * PageSize < ((p + 1) + 1) * PageSize
            BY <1>1
      <4> HIDE DEF p, b
      <4> QED BY <1>1, <4>1, PageIs
    <3>3. b - start \in 0 .. pointer - start - 1 /\ start + (b - start) = b
      <4> HIDE DEF p, b
      <4> QED BY <1>1, <2>3
    <3>4. ProtectionLevel(b) = ProtectionLevel(start)
      <4> HIDE DEF p, b
      <4> QED BY <3>3 DEF OnSide
    <3> QED BY <3>1, <3>2, <3>4 DEF ProtectionLevel
  <2> HIDE DEF p, b
  <2> QED BY <1>1, <2>1, <2>2, <2>3
<1>3. ASSUME NEW k \in 0 .. (pointer + 1) - start - 1
      PROVE  ProtectionLevel(start + k) = ProtectionLevel(start)
  <2>1. CASE k = pointer - start
    <3>1. start + k = pointer
          BY <2>1
    <3> QED BY <1>2, <3>1
  <2>2. CASE k # pointer - start
    <3>1. k \in 0 .. pointer - start - 1
          BY <2>2
    <3> QED BY <3>1 DEF OnSide
  <2> QED BY <2>1, <2>2
<1> QED BY <1>3 DEF OnSide

LEMMA InitSides == Init => SideInv
<1> SUFFICES ASSUME Init PROVE SideInv
    OBVIOUS
<1>1. pc = "called" /\ src = call.src /\ dest = call.dest /\ call \in Calls
      BY DEF Init
<1>2. src \in Nat /\ dest \in Nat
      BY <1>1, CallFacts, AddressesNat
<1>3. OnSide(call.src, src) /\ OnSide(call.dest, dest)
      BY <1>1, <1>2 DEF OnSide
<1> QED BY <1>1, <1>3 DEF SideInv, LevelsRemembered, ShortCopyStaysOnSide

LEMMA NextSides == IInv /\ SideInv /\ [Next]_vars => SideInv'
<1> SUFFICES ASSUME IInv, SideInv, [Next]_vars PROVE SideInv'
    OBVIOUS
<1> USE DEF SideInv
<1>1. ASSUME UNCHANGED <<call, src, dest>>
      PROVE  ShortCopyStaysOnSide'
      BY <1>1 DEF ShortCopyStaysOnSide, ShortCopy, SameSide, OnSide, CrossesOnce,
         ProtectionLevel, PageOf
<1>2. ASSUME call' = call, call.function # "memcpy"
      PROVE  ShortCopyStaysOnSide'
      BY <1>2 DEF ShortCopyStaysOnSide, ShortCopy
<1>3. CASE BeginStrnlen
  <2>1. call' = call /\ call.function # "memcpy" /\ pc' # "memcpy"
        BY <1>3 DEF BeginStrnlen, Done
  <2> QED BY <1>2, <2>1 DEF LevelsRemembered
<1>4. CASE StrnlenEnd
  <2>1. call' = call /\ call.function # "memcpy" /\ pc' # "memcpy"
        BY <1>4 DEF StrnlenEnd, StrnlenOK, Done, IInv, Measuring
  <2> QED BY <1>2, <2>1 DEF LevelsRemembered
<1>5. CASE StrnlenByte
  <2>1. call' = call /\ call.function # "memcpy" /\ pc' # "memcpy"
        BY <1>5 DEF StrnlenByte, Done, IInv, Measuring
  <2> QED BY <1>2, <2>1 DEF LevelsRemembered
<1>6. CASE BeginMemcpy
  <2>1. UNCHANGED <<call, src, dest>> /\ pc' \in {"memcpy", "done"}
        BY <1>6 DEF BeginMemcpy, Done
  <2>2. src = call.src /\ dest = call.dest
        BY <1>6 DEF BeginMemcpy, IInv, Called, Measured
  <2>3. pc' = "memcpy" => /\ read'.level = ProtectionLevel(dest)
                          /\ write'.level = ProtectionLevel(src)
        BY <1>6 DEF BeginMemcpy, Done, Check
  <2>4. LevelsRemembered'
        BY <2>1, <2>2, <2>3 DEF LevelsRemembered, SameSide, ProtectionLevel, PageOf
  <2> QED BY <1>1, <2>1, <2>4
<1>7. CASE MemcpyEnd
  <2>1. UNCHANGED <<call, src, dest>> /\ pc' = "done"
        BY <1>7 DEF MemcpyEnd, Done
  <2> QED BY <1>1, <2>1 DEF LevelsRemembered
<1>8. CASE MemcpyByte
  <2>1. call' = call /\ pc = "memcpy" /\ pc' # "called"
        BY <1>8 DEF MemcpyByte, Done
  <2>2. LevelsRemembered'
    <3>1. pc' = "memcpy" => read' = AfterRecheck(read) /\ write' = AfterRecheck(write)
          BY <1>8 DEF MemcpyByte, Done
    <3>2. read \in Checks /\ write \in Checks
          BY <2>1, CopyFacts
    <3>3. /\ AfterRecheck(read).level = read.level
          /\ AfterRecheck(write).level = write.level
          BY <3>2 DEF AfterRecheck, Checks
    <3> QED BY <2>1, <3>1, <3>3 DEF LevelsRemembered, SameSide, ProtectionLevel, PageOf
  <2>3. CASE UNCHANGED <<src, dest>>
        BY <1>1, <2>1, <2>2, <2>3
  <2>4. CASE ~UNCHANGED <<src, dest>>
    <3>1. /\ Recheck(src, read) = OK /\ Recheck(dest, write) = OK
          /\ src' = src + 1 /\ dest' = dest + 1
          BY <1>8, <2>4 DEF MemcpyByte, NextDest
    <3>2. ASSUME ShortCopy, SameSide
          PROVE  OnSide(call.src, src + 1) /\ OnSide(call.dest, dest + 1)
      <4>1. Goal = call.count /\ call.function = "memcpy"
            BY <3>2 DEF Goal, ShortCopy
      <4>2. /\ call.src \in Nat /\ call.dest \in Nat /\ call.count \in Nat
            /\ left \in 0 .. call.count /\ left > 0
            /\ src = call.src + (call.count - left)
            /\ dest = call.dest + (call.count - left)
            /\ read \in Checks /\ write \in Checks
            BY <1>8, <2>1, <4>1, CopyFacts DEF MemcpyByte
      <4>3. /\ src \in Nat /\ call.src <= src /\ src < call.src + call.count
            /\ dest \in Nat /\ call.dest <= dest /\ dest < call.dest + call.count
            BY <4>2
      <4>4. PageChecked(call.src, src, read) /\ PageChecked(call.dest, dest, write)
            BY <2>1, <3>2 DEF IInv, PagesChecked, ShortCopy
      <4>5. OnSide(call.src, src) /\ OnSide(call.dest, dest)
            BY <3>2 DEF ShortCopyStaysOnSide
      <4>6. /\ read.level = ProtectionLevel(call.src)
            /\ write.level = ProtectionLevel(call.dest)
            BY <2>1, <3>2 DEF LevelsRemembered
      <4>7. CrossesOnce(call.src, call.count) /\ CrossesOnce(call.dest, call.count)
            BY <3>2 DEF ShortCopy
      <4> QED BY <3>1, <4>2, <4>3, <4>4, <4>5, <4>6, <4>7, SideOfPointer
    <3>3. ShortCopyStaysOnSide'
          BY <2>1, <3>1, <3>2 DEF ShortCopyStaysOnSide, ShortCopy, SameSide, OnSide,
             CrossesOnce, ProtectionLevel, PageOf
    <3> QED BY <2>1, <2>2, <3>3
  <2> QED BY <2>3, <2>4
<1>9. CASE UNCHANGED vars
  <2>1. UNCHANGED <<pc, call, src, dest, read, write>>
        BY <1>9 DEF vars
  <2> QED BY <1>1, <2>1 DEF LevelsRemembered, SameSide, ProtectionLevel, PageOf
<1> QED BY <1>3, <1>4, <1>5, <1>6, <1>7, <1>8, <1>9 DEF Next, Loop, Over

-----------------------------------------------------------------------------
(* The invariant holds in every state of every call.                       *)
THEOREM SpecIInv == Spec => []IInv
<1> QED BY InitIInv, NextIInv, PTL DEF Spec

(* Pointers stay in memory, counters within limits and pages.              *)
THEOREM SpecTypeOK == Spec => []TypeOK
<1>1. IInv => TypeOK
      BY DEF IInv, Types
<1> QED BY <1>1, SpecIInv, PTL

(* A strnlen() or strncpy() that is OK has the string's length, and never  *)
(* more than the limit, wherever the string's pages begin and end.         *)
THEOREM SpecLengthIsRight == Spec => []LengthIsRight
<1>1. IInv => LengthIsRight
      BY LengthUnique DEF IInv, Types, Returned, LengthIsRight
<1> QED BY <1>1, SpecIInv, PTL

(* Whatever the answer, memcpy() has written a prefix of the copy, and all *)
(* of it when it is OK; strncpy() a prefix of it too, which is the string  *)
(* or the limit's bytes of it when it is OK.                               *)
THEOREM SpecCopiesAPrefix == Spec => []CopiesAPrefix
<1>1. IInv => CopiesAPrefix
  <2> SUFFICES ASSUME IInv, pc = "done"
               PROVE  CopiesAPrefix
      BY DEF CopiesAPrefix
  <2>1. call \in Calls /\ call.count \in Nat
        BY CallFacts DEF IInv, Types
  <2>2. CASE Written(0) /\ (answer = OK => call.function = "strnlen")
        BY <2>1, <2>2 DEF CopiesAPrefix, Written
  <2>3. ASSUME NEW n \in 0 .. Goal, Written(n),
               call.function = "strncpy" => IsLength(result),
               answer = OK => n = Goal
        PROVE  CopiesAPrefix
    <3>1. CASE call.function = "memcpy"
          BY <2>3, <3>1 DEF CopiesAPrefix, Goal, Written
    <3>2. CASE call.function = "strncpy"
      <4>1. Goal = result /\ result \in 0 .. call.count
            BY <2>3, <3>2 DEF Goal, IsLength
      <4>2. n \in 0 .. call.count
            BY <2>1, <2>3, <4>1
      <4>3. \A a \in Addresses : memory[a] = Copied(n)[a]
            BY <2>3 DEF Written
      <4>4. answer = OK => n >= call.count - 1 \/ before[call.src + n] = 0
            BY <2>1, <2>3, <3>2, <4>1 DEF IsLength
      <4> QED BY <3>2, <4>2, <4>3, <4>4 DEF CopiesAPrefix
    <3> QED BY <3>1, <3>2 DEF CopiesAPrefix
  <2> QED BY <2>2, <2>3 DEF IInv, Returned
<1> QED BY <1>1, SpecIInv, PTL

(* A memcpy() of which source and destination cross one page boundary at   *)
(* most touches no page that is not there, for every page size and every   *)
(* set of pages.                                                           *)
THEOREM SpecShortCopyNeverFaults == Spec => []ShortCopyNeverFaults
<1>1. IInv => ShortCopyNeverFaults
      BY DEF IInv
<1> QED BY <1>1, SpecIInv, PTL

(* Such a memcpy() within user or within kernel memory does not leave it,  *)
(* for every page size and wherever the two meet.                          *)
THEOREM SpecShortCopyStaysOnSide == Spec => []ShortCopyStaysOnSide
<1>1. Spec => [](IInv /\ SideInv)
  <2>1. Init => IInv /\ SideInv
        BY InitIInv, InitSides
  <2>2. IInv /\ SideInv /\ [Next]_vars => (IInv /\ SideInv)'
        BY NextIInv, NextSides
  <2> QED BY <2>1, <2>2, PTL DEF Spec
<1>2. SideInv => ShortCopyStaysOnSide
      BY DEF SideInv
<1> QED BY <1>1, <1>2, PTL
=============================================================================
