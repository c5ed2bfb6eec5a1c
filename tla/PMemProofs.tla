----------------------------- MODULE PMemProofs -----------------------------
(***************************************************************************)
(* Proofs about PMem, for every map length, block size and set of request  *)
(* sizes.  The inductive invariant is the conjunction of the four          *)
(* invariants the run of PMem.cfg checks: ScanKnows carries the loop, and  *)
(* NeverHangs and the refinement follow from it.                           *)
(***************************************************************************)
EXTENDS PMem, TLAPS

USE MapLengthAssumption, BlockBytesAssumption, TopStateAssumption,
    SizesAssumption

IInv == TypeOK /\ MapCountsReferences /\ ScanKnows /\ NeverHangs

-----------------------------------------------------------------------------
(* ceildiv() returns the least number of blocks that holds the bytes.      *)
LEMMA CeilDiv ==
  ASSUME NEW bytes \in Nat
  PROVE  /\ ceildiv(bytes, BlockBytes) \in Nat
         /\ ceildiv(bytes, BlockBytes) * BlockBytes >= bytes
         /\ (ceildiv(bytes, BlockBytes) - 1) * BlockBytes < bytes
  BY DEF ceildiv

(* IInv holds initially.                                                   *)
LEMMA InitIInv == Init => IInv
  BY DEF Init, IInv, TypeOK, MapCountsReferences, ScanKnows, NeverHangs,
     Blocks, NoBlock, RESERVED, NON_EXISTANT, FREE

(* Every operation of the allocator, and every turn of its loop, preserves *)
(* IInv.                                                                   *)
LEMMA NextIInv == IInv /\ [Next]_vars => IInv'
<1> SUFFICES ASSUME IInv, [Next]_vars
             PROVE  IInv'
    OBVIOUS
<1> USE DEF IInv, Blocks, NoBlock, RESERVED, NON_EXISTANT, FREE, USED
<1>1. ASSUME NEW bytes \in Sizes, AllocEnd(bytes)
      PROVE  IInv'
  <2>1. ceildiv(bytes, BlockBytes) \in Nat
        BY CeilDiv
  <2>2. TypeOK'
        BY <1>1, <2>1 DEF AllocEnd, TypeOK
  <2>3. MapCountsReferences'
        BY <1>1 DEF AllocEnd, MapCountsReferences
  <2>4. ScanKnows'
        BY <1>1, <2>1 DEF AllocEnd, ScanKnows, FreeRun, TypeOK
  <2>5. NeverHangs'
        BY <1>1 DEF AllocEnd, NeverHangs
  <2> QED BY <2>2, <2>3, <2>4, <2>5
<1>2. CASE ScanUsed
  <2>1. TypeOK'
        BY <1>2 DEF ScanUsed, TypeOK
  <2>2. MapCountsReferences'
        BY <1>2 DEF ScanUsed, MapCountsReferences
  <2>3. ScanKnows'
    <3>1. ~FreeRun(i, blocks)
      <4>1. blocks > 0 => i \in i .. i + blocks - 1
            BY DEF TypeOK
      <4> QED BY <1>2, <4>1 DEF ScanUsed, FreeRun
    <3>2. \A first \in i .. MapLength - 1 : ~FreeRun(first, blocks)
          BY <1>2, <3>1 DEF ScanUsed, ScanKnows, TypeOK
    <3>3. \A first : FreeRun(first, blocks)' <=> FreeRun(first, blocks)
          BY <1>2 DEF ScanUsed, FreeRun
    <3> QED BY <1>2, <3>2, <3>3 DEF ScanUsed, ScanKnows, TypeOK
  <2>4. NeverHangs'
        BY <1>2 DEF ScanUsed, NeverHangs
  <2> QED BY <2>1, <2>2, <2>3, <2>4
<1>3. CASE ScanShort
  <2>1. TypeOK'
        BY <1>3 DEF ScanShort, TypeOK
  <2>2. MapCountsReferences'
        BY <1>3 DEF ScanShort, MapCountsReferences
  <2>3. ScanKnows'
    <3>1. ~FreeRun(i, blocks)
          BY <1>3 DEF ScanShort, ScanKnows, FreeRun, TypeOK
    <3>2. \A first \in i .. MapLength - 1 : ~FreeRun(first, blocks)
          BY <1>3, <3>1 DEF ScanShort, ScanKnows, TypeOK
    <3>3. \A first : FreeRun(first, blocks)' <=> FreeRun(first, blocks)
          BY <1>3 DEF ScanShort, FreeRun
    <3> QED BY <1>3, <3>2, <3>3 DEF ScanShort, ScanKnows, TypeOK
  <2>4. NeverHangs'
        BY <1>3 DEF ScanShort, NeverHangs
  <2> QED BY <2>1, <2>2, <2>3, <2>4
<1>4. CASE ScanFit
  <2>1. InBounds(i, blocks)
        BY <1>4 DEF ScanFit, InBounds, ScanKnows, TypeOK
  <2>2. \A b \in i .. i + blocks - 1 : b \in Blocks /\ map[b] = FREE
    <3>1. i + blocks - 1 = block_end - 1
          BY <1>4 DEF ScanFit, TypeOK
    <3>2. \A b \in i .. block_end - 1 : b = i \/ b \in i + 1 .. block_end - 1
          BY DEF TypeOK
    <3>3. \A b \in i .. block_end - 1 : map[b] = FREE
          BY <1>4, <3>2 DEF ScanFit, ScanKnows
    <3> QED BY <1>4, <3>1, <3>3 DEF ScanFit, TypeOK
  <2>3. TypeOK'
    <3>1. map' \in [Blocks -> 0 .. TopState] /\ held' \in [Blocks -> 0 .. TopState]
      <4> DEFINE run == i .. i + blocks - 1
      <4>1. map' = [b \in Blocks |-> IF b \in run THEN USED ELSE map[b]]
            BY <1>4, <2>1 DEF ScanFit
      <4>2. held' = [b \in Blocks |-> IF b \in run THEN 1 ELSE held[b]]
            BY <1>4, <2>1 DEF ScanFit
      <4> HIDE DEF run
      <4> QED BY <4>1, <4>2 DEF TypeOK
    <3>2. result' \in Blocks /\ pc' = "idle"
          BY <1>4, <2>1 DEF ScanFit, TypeOK
    <3> QED BY <1>4, <3>1, <3>2 DEF ScanFit, TypeOK
  <2>4. MapCountsReferences'
        BY <1>4, <2>1, <2>2 DEF ScanFit, MapCountsReferences, TypeOK
  <2>5. ScanKnows' /\ NeverHangs'
        BY <1>4, <2>1 DEF ScanFit, ScanKnows, NeverHangs
  <2> QED BY <2>3, <2>4, <2>5
<1>5. CASE ScanFail
      BY <1>5 DEF ScanFail, TypeOK, MapCountsReferences, ScanKnows, NeverHangs
<1>6. ASSUME NEW b \in Blocks, IncreaseRefCount(b)
      PROVE  IInv'
  <2>1. b \notin reserved /\ map[b] = held[b] /\ map[b] < NON_EXISTANT
        BY <1>6 DEF IncreaseRefCount, CanCount, MapCountsReferences, TypeOK
  <2>2. TypeOK'
        BY <1>6, <2>1 DEF IncreaseRefCount, scanVars, TypeOK
  <2>3. MapCountsReferences'
        BY <1>6, <2>1
        DEF IncreaseRefCount, scanVars, MapCountsReferences, TypeOK
  <2>4. ScanKnows' /\ NeverHangs'
        BY <1>6 DEF IncreaseRefCount, scanVars, ScanKnows, NeverHangs
  <2> QED BY <2>2, <2>3, <2>4
<1>7. ASSUME NEW b \in Blocks, Free(b)
      PROVE  IInv'
  <2>1. b \notin reserved /\ map[b] = held[b] /\ map[b] > FREE
        BY <1>7 DEF Free, MapCountsReferences, TypeOK
  <2>2. TypeOK'
        BY <1>7, <2>1 DEF Free, scanVars, TypeOK
  <2>3. MapCountsReferences'
        BY <1>7, <2>1 DEF Free, scanVars, MapCountsReferences, TypeOK
  <2>4. ScanKnows' /\ NeverHangs'
        BY <1>7 DEF Free, scanVars, ScanKnows, NeverHangs
  <2> QED BY <2>2, <2>3, <2>4
<1>8. CASE UNCHANGED vars
      BY <1>8 DEF vars, TypeOK, MapCountsReferences, ScanKnows, FreeRun,
         NeverHangs
<1> QED
    BY <1>1, <1>2, <1>3, <1>4, <1>5, <1>6, <1>7, <1>8 DEF Next, Scan

THEOREM SpecIInv == Spec => []IInv
BY InitIInv, NextIInv, PTL DEF Spec

(* Every variable keeps its type.                                          *)
THEOREM SpecTypeOK == Spec => []TypeOK
BY SpecIInv, PTL DEF IInv

(* A map byte is a RESERVED mark nobody holds or an exact reference count, *)
(* whatever sequence of calls its owners make.                             *)
THEOREM SpecMapCountsReferences == Spec => []MapCountsReferences
BY SpecIInv, PTL DEF IInv

(* The loop invariant of alloc_end().                                      *)
THEOREM SpecScanKnows == Spec => []ScanKnows
BY SpecIInv, PTL DEF IInv

(* alloc_end() never makes set_state() stop the CPU.                       *)
THEOREM SpecNeverHangs == Spec => []NeverHangs
BY SpecIInv, PTL DEF IInv

-----------------------------------------------------------------------------
(* PMem implements PhysicalMemory.                                         *)

(* The map tells a block nobody references apart from all the others.      *)
LEMMA FreeIsAvailable ==
  ASSUME IInv, NEW first \in Int, NEW n \in Nat
  PROVE  first >= 0 => (FreeRun(first, n) <=> Abs!Available(first, n))
  BY DEF IInv, TypeOK, MapCountsReferences, FreeRun, Abs!Available, Blocks,
     FREE, RESERVED, NON_EXISTANT

LEMMA InitAbs == Init => Abs!Init
  BY DEF Init, Abs!Init, Abs!NoRequest, Abs!NoBlock, NoBlock, Blocks,
     Abs!Blocks

LEMMA NextAbs == IInv /\ [Next]_vars => [Abs!Next]_(Abs!absVars)
<1> SUFFICES ASSUME IInv, [Next]_vars
             PROVE  [Abs!Next]_(Abs!absVars)
    OBVIOUS
<1> USE DEF Abs!NoRequest, Abs!NoBlock, NoBlock, Blocks, Abs!Blocks, Abs!absVars
<1>1. ASSUME NEW bytes \in Sizes, AllocEnd(bytes)
      PROVE  Abs!Request(bytes)
  <2>1. /\ ceildiv(bytes, BlockBytes) \in Nat
        /\ Abs!Covers(ceildiv(bytes, BlockBytes), bytes)
        BY CeilDiv DEF Abs!Covers
  <2>2. (IF pc = "scan" THEN blocks ELSE -1)' = ceildiv(bytes, BlockBytes)
        BY <1>1 DEF AllocEnd
  <2> QED BY <1>1, <2>1, <2>2 DEF AllocEnd, Abs!Request
<1>2. CASE ScanUsed \/ ScanShort
      BY <1>2 DEF ScanUsed, ScanShort
<1>3. CASE ScanFit
  <2>1. i \in Blocks /\ blocks \in Nat /\ blocks > 0
        BY <1>3 DEF ScanFit, IInv, ScanKnows, TypeOK
  <2>2. FreeRun(i, blocks) /\ InBounds(i, blocks)
        BY <1>3, <2>1 DEF ScanFit, IInv, ScanKnows, TypeOK, FreeRun, InBounds
  <2>3. Abs!Available(i, blocks)
        BY <2>1, <2>2, FreeIsAvailable
  <2>4. \A other \in Blocks : Abs!Available(other, blocks) => other <= i
    <3> SUFFICES ASSUME NEW other \in Blocks, other > i
                 PROVE  ~Abs!Available(other, blocks)
        BY <2>1
    <3>1. ~FreeRun(other, blocks)
          BY <1>3, <2>1 DEF ScanFit, IInv, ScanKnows
    <3> QED BY <2>1, <3>1, FreeIsAvailable
  <2>5. Abs!Grant(i)
        BY <1>3, <2>1, <2>2, <2>3, <2>4 DEF ScanFit, Abs!Grant
  <2> QED BY <2>1, <2>5 DEF Abs!Next
<1>4. CASE ScanFail
  <2>1. \A first \in Blocks : ~FreeRun(first, blocks)
        BY <1>4 DEF ScanFail, IInv, ScanKnows
  <2>2. \A first \in Blocks : ~Abs!Available(first, blocks)
        BY <2>1, FreeIsAvailable DEF IInv, TypeOK
  <2>3. Abs!Refuse
        BY <1>4, <2>2 DEF ScanFail, Abs!Refuse, IInv, TypeOK
  <2> QED BY <2>3 DEF Abs!Next
<1>5. ASSUME NEW b \in Blocks, IncreaseRefCount(b)
      PROVE  Abs!Share(b)
      BY <1>5 DEF IncreaseRefCount, CanCount, Abs!Share, IInv, TypeOK,
         MapCountsReferences, RESERVED, NON_EXISTANT, scanVars
<1>6. ASSUME NEW b \in Blocks, Free(b)
      PROVE  Abs!Release(b)
      BY <1>6 DEF Free, Abs!Release, scanVars
<1>7. CASE UNCHANGED vars
      BY <1>7 DEF vars
<1> QED
    BY <1>1, <1>2, <1>3, <1>4, <1>5, <1>6, <1>7 DEF Next, Scan, Abs!Next

(* Every behaviour of the scanning allocator is one of the promised ones:  *)
(* the highest free run of the right length, or a refusal when none is.    *)
THEOREM SpecImplementsPhysicalMemory == Spec => ImplementsPhysicalMemory
<1>1. Init => Abs!Init
      BY InitAbs
<1>2. IInv /\ [Next]_vars => [Abs!Next]_(Abs!absVars)
      BY NextAbs
<1> QED
    BY <1>1, <1>2, SpecIInv, PTL DEF Spec, Abs!Spec, ImplementsPhysicalMemory
=============================================================================
