----------------------------- MODULE SlabProofs -----------------------------
(***************************************************************************)
(* Proofs about Slab, for every table, page, element and word size.  They  *)
(* rest on the account EveryElementOnce keeps of the created elements and  *)
(* on StackBacked, which says that every entry ever created has memory.    *)
(***************************************************************************)
EXTENDS Slab, FiniteSetTheorems, TLAPS

USE SizesAssumption, BoundsAssumption

\* What the stack and the pages have in common at every step.
StackBacked ==
  \A index \in Indexes :
    index > freeCreated => PageOf(EntryOffset(index)) \in present

StartsBacked == \A element \in live : PageOf(element) \in present

IInv == TypeOK /\ EveryElementOnce /\ PushIsBacked /\ StackBacked /\ StartsBacked

-----------------------------------------------------------------------------
(* Arithmetic of the layout.                                               *)

LEMMA CapacityFits ==
  /\ Capacity \in Nat
  /\ Capacity * (ElementSize + WordSize) <= TableSize
  BY DEF Capacity

(* Different elements have different offsets.                              *)
LEMMA OffsetsDiffer ==
  ASSUME NEW j \in Int, NEW k \in Int, j < k
  PROVE  j * ElementSize + ElementSize <= k * ElementSize
<1>1. (k - j) * ElementSize >= ElementSize
      <2>1. k - j >= 1
            OBVIOUS
      <2> QED BY <2>1
<1> QED BY <1>1

(* The first n elements, and one more.                                     *)
LEMMA OneMoreElement ==
  ASSUME NEW n \in Nat
  PROVE  /\ Elements(n + 1) = Elements(n) \cup {n * ElementSize}
         /\ n * ElementSize \notin Elements(n)
<1>1. 0 .. (n + 1) - 1 = (0 .. n - 1) \cup {n}
      OBVIOUS
<1>2. Elements(n + 1) = Elements(n) \cup {n * ElementSize}
      BY <1>1, Zenon DEF Elements
<1>3. ASSUME NEW k \in 0 .. n - 1
      PROVE  k * ElementSize # n * ElementSize
  <2>1. k * ElementSize + ElementSize <= n * ElementSize
        BY OffsetsDiffer
  <2>2. k * ElementSize \in Int /\ n * ElementSize \in Int
        OBVIOUS
  <2> QED BY <2>1, <2>2
<1> QED BY <1>2, <1>3 DEF Elements

LEMMA FewerElements ==
  ASSUME NEW m \in Int, NEW n \in Int, m <= n
  PROVE  Elements(m) \subseteq Elements(n)
  BY DEF Elements

LEMMA ElementsAreInts ==
  ASSUME NEW n \in Int
  PROVE  Elements(n) \subseteq Int
  BY DEF Elements

LEMMA EntryOffsetType ==
  ASSUME NEW index \in Int
  PROVE  EntryOffset(index) \in Int
  BY CapacityFits DEF EntryOffset

LEMMA PageOfType ==
  ASSUME NEW offset \in Int
  PROVE  PageOf(offset) \in Int
  BY DEF PageOf

-----------------------------------------------------------------------------
LEMMA InitIInv == Init => IInv
<1> SUFFICES ASSUME Init PROVE IInv
    OBVIOUS
<1>1. TypeOK /\ PushIsBacked
  <2>1. free \in [Indexes -> Int]
        BY DEF Init, Unwritten
  <2>2. Capacity - 1 \in Indexes \cup {Capacity - ClientLimit - 1}
        BY CapacityFits DEF Indexes
  <2> QED BY <2>1, <2>2 DEF Init, TypeOK, PushIsBacked
<1>2. Elements(0) = {} /\ OnStack = {}
      BY CapacityFits DEF Init, Elements, OnStack
<1>3. EveryElementOnce
      BY <1>2, CapacityFits, FS_EmptySet DEF Init, EveryElementOnce
<1>4. StackBacked /\ StartsBacked
      BY CapacityFits DEF Init, StackBacked, StartsBacked, Indexes
<1> QED BY <1>1, <1>3, <1>4 DEF IInv

(* pop() takes an element that is nowhere else, off the stack or new.      *)
LEMMA PopTakesOne ==
  ASSUME IInv, CanAlloc, Pop
  PROVE  /\ freeIndex \in Indexes
         /\ freeCreated' \in Int /\ freeCreated' <= freeIndex'
         /\ freeCreated' \in Indexes \cup {Capacity - ClientLimit - 1}
         /\ Popped \in Elements(ClientLimit)
         /\ Popped \notin live \cup lost
         /\ Popped \notin OnStack'
         /\ OnStack' \subseteq OnStack
         /\ live \cup lost \cup {Popped} \cup OnStack'
              = Elements(Capacity - 1 - freeCreated')
         /\ \A f, g \in freeCreated' + 1 .. freeIndex' :
               free'[f] = free'[g] => f = g
         /\ Popped \in Int
         /\ free' \in [Indexes -> Int]
<1> USE DEF IInv
<1>1. freeIndex \in Indexes
      BY CapacityFits DEF CanAlloc, TypeOK, Indexes
<1>2. freeCreated \in Int /\ freeCreated <= freeIndex /\ freeIndex \in Int
      BY <1>1, CapacityFits DEF TypeOK, EveryElementOnce, Indexes
<1>3. CASE Fresh
  <2> DEFINE n == Capacity - 1 - freeCreated
  <2>1. n \in Nat /\ n + 1 <= ClientLimit
        BY <1>1, <1>3, CapacityFits DEF Fresh, CanAlloc, Indexes, TypeOK
  <2>2. Popped = n * ElementSize /\ Popped \in Int
    <3>1. Capacity - freeCreated - 1 = n
          BY <1>2, CapacityFits
    <3>2. Popped = n * ElementSize
          BY <1>3, <3>1, Zenon DEF Popped, NextElement
    <3> HIDE DEF n
    <3> QED BY <2>1, <3>2
  <2>3. freeCreated' = freeCreated - 1 /\ freeIndex' = freeCreated - 1
        BY <1>3 DEF Pop, Fresh
  <2>4. OnStack = {} /\ OnStack' = {}
        BY <1>3, <1>2, <2>3 DEF OnStack, Fresh
  <2>5. Elements(Capacity - 1 - freeCreated') = Elements(n) \cup {Popped}
    <3>1. Capacity - 1 - freeCreated' = n + 1
          BY <2>3, <1>2, CapacityFits
    <3> HIDE DEF n
    <3> QED BY <2>1, <2>2, <3>1, OneMoreElement
  <2>6. Popped \notin Elements(n)
    <3> HIDE DEF n
    <3> QED BY <2>1, <2>2, OneMoreElement
  <2>7. live \cup lost = Elements(n)
        BY <2>4 DEF EveryElementOnce
  <2>8. Popped \in Elements(ClientLimit)
    <3> HIDE DEF n
    <3>1. Elements(n + 1) \subseteq Elements(ClientLimit)
          BY <2>1, FewerElements
    <3> QED BY <2>1, <2>2, <3>1, OneMoreElement
  <2>9. free' \in [Indexes -> Int]
        BY <2>2 DEF Pop, TypeOK
  <2>10. freeCreated' \in Indexes \cup {Capacity - ClientLimit - 1}
        BY <1>1, <1>3, <2>3, CapacityFits DEF Fresh, Indexes
  <2> QED
      BY <1>1, <1>2, <2>2, <2>3, <2>4, <2>5, <2>6, <2>7, <2>8, <2>9, <2>10
<1>4. CASE ~Fresh
  <2>1. freeCreated < freeIndex
        BY <1>2, <1>4 DEF Fresh
  <2>2. Popped = free[freeIndex] /\ Popped \in OnStack /\ Popped \in Int
        BY <1>1, <1>2, <1>4, <2>1 DEF Popped, OnStack, TypeOK
  <2>3. free' = free /\ freeCreated' = freeCreated /\ freeIndex' = freeIndex - 1
        BY <1>4, <2>2 DEF Pop, TypeOK
  <2>4. freeCreated + 1 .. freeIndex
          = (freeCreated + 1 .. freeIndex - 1) \cup {freeIndex}
        BY <1>2, <2>1
  <2>5. OnStack' = OnStack \ {Popped}
    <3>1. OnStack' = {free[index] : index \in freeCreated + 1 .. freeIndex - 1}
          BY <2>3 DEF OnStack
    <3>2. OnStack = {free[index] : index \in freeCreated + 1 .. freeIndex - 1}
                      \cup {Popped}
          BY <2>2, <2>4 DEF OnStack
    <3>3. \A index \in freeCreated + 1 .. freeIndex - 1 : free[index] # Popped
          BY <1>2, <2>1, <2>2 DEF EveryElementOnce
    <3> QED BY <3>1, <3>2, <3>3
  <2>6. Popped \in Elements(ClientLimit)
    <3>1. Capacity - 1 - freeCreated <= ClientLimit
          BY <1>2, CapacityFits DEF TypeOK, Indexes
    <3>2. Elements(Capacity - 1 - freeCreated) \subseteq Elements(ClientLimit)
          BY <1>2, <3>1, CapacityFits, FewerElements
    <3> QED BY <2>2, <3>2 DEF EveryElementOnce
  <2>7. \A f, g \in freeCreated' + 1 .. freeIndex' :
          free'[f] = free'[g] => f = g
        BY <1>2, <2>1, <2>3, <2>4 DEF EveryElementOnce
  <2> QED
      BY <1>1, <1>2, <2>1, <2>2, <2>3, <2>5, <2>6, <2>7
      DEF EveryElementOnce, TypeOK
<1> QED BY <1>3, <1>4

(* Every step of a slab's life keeps the account of its elements.          *)
LEMMA NextIInv == IInv /\ [Next]_vars => IInv'
<1> SUFFICES ASSUME IInv, [Next]_vars
             PROVE  IInv'
    OBVIOUS
<1> USE DEF IInv
<1>1. ASSUME CanAlloc, Pop, NEW taken, taken = Popped,
             (live \cup lost)' = live \cup lost \cup {taken},
             (live \cap lost)' = {},
             PopPages \subseteq present'
      PROVE  EveryElementOnce' /\ StackBacked'
  <2>1. EveryElementOnce'
    <3>1. /\ IsFiniteSet((live \cup lost)')
          /\ Cardinality((live \cup lost)') = Capacity - 1 - freeIndex'
      <4>1. freeIndex' = freeIndex - 1 /\ freeIndex \in Int
            BY <1>1, PopTakesOne, CapacityFits DEF Pop, Indexes
      <4> DEFINE S == live \cup lost
      <4>2. IsFiniteSet(S) /\ taken \notin S
            BY <1>1, PopTakesOne DEF EveryElementOnce
      <4>3. IsFiniteSet(S \cup {taken})
            /\ Cardinality(S \cup {taken}) = Cardinality(S) + 1
        <5> HIDE DEF S
        <5> QED BY <4>2, FS_AddElement
      <4>4. (live \cup lost)' = S \cup {taken}
            BY <1>1
      <4>5. Cardinality(S) = Capacity - 1 - freeIndex
            BY DEF EveryElementOnce
      <4>6. Capacity - 1 - freeIndex + 1 = Capacity - 1 - freeIndex'
            BY <4>1, CapacityFits
      <4> QED BY <4>3, <4>4, <4>5, <4>6
    <3>2. ((live \cup lost) \cap OnStack)' = {}
          BY <1>1, PopTakesOne DEF EveryElementOnce
    <3>3. (live \cup lost \cup OnStack)' = Elements(Capacity - 1 - freeCreated')
          BY <1>1, PopTakesOne
    <3> QED
        BY <1>1, <3>1, <3>2, <3>3, PopTakesOne DEF EveryElementOnce, Elements
  <2>2. StackBacked'
    <3> SUFFICES ASSUME NEW index \in Indexes, index > freeCreated'
                 PROVE  PageOf(EntryOffset(index)) \in present'
        BY DEF StackBacked, PageOf, EntryOffset, Indexes, Capacity
    <3>1. CASE index > freeCreated
      <4>1. PageOf(EntryOffset(index)) \in present
            BY <3>1 DEF StackBacked
      <4> QED BY <1>1, <4>1 DEF PopPages
    <3>2. CASE ~(index > freeCreated)
      <4>1. Fresh /\ index = freeIndex
            BY <1>1, <3>2, CapacityFits DEF Pop, Fresh, TypeOK, Indexes
      <4> QED BY <1>1, <4>1 DEF PopPages
    <3> QED BY <3>1, <3>2
  <2> QED BY <2>1, <2>2
<1>2. CASE AllocSucceeds
  <2>1. CanAlloc /\ Pop
        BY <1>2 DEF AllocSucceeds
  <2>2. EveryElementOnce' /\ StackBacked'
    <3>1. (live \cup lost)' = live \cup lost \cup {Popped} /\ (live \cap lost)' = {}
          BY <1>2, <2>1, PopTakesOne DEF AllocSucceeds, EveryElementOnce
    <3>2. PopPages \subseteq present'
          BY <1>2 DEF AllocSucceeds, AllocPages
    <3> QED BY <1>1, <2>1, <3>1, <3>2
  <2>3. StartsBacked'
        BY <1>2 DEF AllocSucceeds, AllocPages, StartsBacked, PopPages
  <2>4. TypeOK'
    <3>1. present' \subseteq Int
      <4>1. PageOf(EntryOffset(freeIndex)) \in Int /\ PageOf(Popped) \in Int
            BY <2>1, PopTakesOne, PageOfType, EntryOffsetType, CapacityFits
            DEF Indexes
      <4> QED BY <1>2, <4>1 DEF AllocSucceeds, AllocPages, PopPages, TypeOK
    <3>2. supply' \in 0 .. MaxSupply
          BY <1>2 DEF AllocSucceeds, AllocCost, PopCost, Cost, TypeOK
    <3>3. freeIndex' \in Indexes \cup {Capacity - ClientLimit - 1}
          BY <2>1, PopTakesOne, CapacityFits DEF Pop, Indexes
    <3> QED
        BY <1>2, <2>1, <3>1, <3>2, <3>3, PopTakesOne DEF AllocSucceeds, TypeOK
  <2> QED BY <1>2, <2>2, <2>3, <2>4 DEF AllocSucceeds, PushIsBacked
<1>3. CASE AllocLoses
  <2>1. CanAlloc /\ Pop
        BY <1>3 DEF AllocLoses
  <2>2. EveryElementOnce' /\ StackBacked'
    <3>1. (live \cup lost)' = live \cup lost \cup {Popped} /\ (live \cap lost)' = {}
          BY <1>3, <2>1, PopTakesOne DEF AllocLoses, EveryElementOnce
    <3>2. PopPages \subseteq present'
          BY <1>3 DEF AllocLoses
    <3> QED BY <1>1, <2>1, <3>1, <3>2
  <2>3. StartsBacked'
        BY <1>3 DEF AllocLoses, StartsBacked, PopPages
  <2>4. TypeOK'
    <3>1. present' \subseteq Int
      <4>1. PageOf(EntryOffset(freeIndex)) \in Int /\ PageOf(Popped) \in Int
            BY <2>1, PopTakesOne, PageOfType, EntryOffsetType, CapacityFits
            DEF Indexes
      <4> QED BY <1>3, <4>1 DEF AllocLoses, PopPages, TypeOK
    <3>2. supply' \in 0 .. MaxSupply
          BY <1>3 DEF AllocLoses, PopCost, Cost, TypeOK
    <3>3. freeIndex' \in Indexes \cup {Capacity - ClientLimit - 1}
          BY <2>1, PopTakesOne, CapacityFits DEF Pop, Indexes
    <3> QED
        BY <1>3, <2>1, <3>1, <3>2, <3>3, PopTakesOne DEF AllocLoses, TypeOK
  <2> QED BY <1>3, <2>2, <2>3, <2>4 DEF AllocLoses, PushIsBacked
<1>4. ASSUME NEW element \in live, Free(element)
      PROVE  IInv'
  <2>1. freeIndex \in Int /\ freeCreated \in Int /\ freeCreated <= freeIndex
        BY CapacityFits DEF TypeOK, EveryElementOnce, Indexes
  <2>2. freeIndex < Capacity - 1
    <3>1. live \cup lost # {}
          BY <1>4
    <3> QED
        BY <2>1, <3>1, FS_EmptySet, FS_CardinalityType, CapacityFits
        DEF EveryElementOnce
  <2>3. PushSlot \in Indexes /\ PushSlot = freeIndex + 1 /\ PushSlot > freeCreated
        BY <2>1, <2>2, CapacityFits DEF PushSlot, TypeOK, Indexes
  <2>4. /\ free' = [free EXCEPT ![freeIndex + 1] = element]
        /\ freeIndex' = freeIndex + 1
        /\ live' = live \ {element}
        /\ UNCHANGED <<faulted, freeCreated, present, supply, lost>>
        BY <1>4, <2>3 DEF Free, StackBacked
  <2>5. element \in Int
        BY ElementsAreInts DEF TypeOK
  <2>6. TypeOK'
    <3>1. free' \in [Indexes -> Int]
          BY <2>3, <2>4, <2>5 DEF TypeOK
    <3> QED BY <2>3, <2>4, <3>1 DEF TypeOK
  <2>7. EveryElementOnce'
    <3>1. freeCreated + 1 .. freeIndex + 1
            = (freeCreated + 1 .. freeIndex) \cup {freeIndex + 1}
          BY <2>1
    <3>2. /\ \A index \in freeCreated + 1 .. freeIndex : free'[index] = free[index]
          /\ free'[freeIndex + 1] = element
          BY <2>1, <2>3, <2>4, CapacityFits DEF TypeOK, Indexes
    <3>3. OnStack' = OnStack \cup {element}
      <4>1. OnStack' = {free'[index] : index \in freeCreated + 1 .. freeIndex + 1}
            BY <2>4 DEF OnStack
      <4> QED BY <3>1, <3>2, <4>1 DEF OnStack
    <3>4. element \notin OnStack /\ element \notin lost
          BY <1>4 DEF EveryElementOnce
    <3>5. (live \cup lost)' = (live \cup lost) \ {element}
          BY <2>4, <3>4
    <3>6. /\ IsFiniteSet((live \cup lost)')
          /\ Cardinality((live \cup lost)') = Capacity - 1 - freeIndex'
          BY <1>4, <2>1, <2>4, <3>5, FS_RemoveElement, CapacityFits
          DEF EveryElementOnce
    <3>7. \A f, g \in freeCreated + 1 .. freeIndex + 1 :
            free'[f] = free'[g] => f = g
      <4>1. \A f \in freeCreated + 1 .. freeIndex : free'[f] # element
            BY <3>2, <3>4 DEF OnStack
      <4> QED BY <2>1, <3>1, <3>2, <4>1 DEF EveryElementOnce
    <3>8. (live \cup lost \cup OnStack)' = Elements(Capacity - 1 - freeCreated')
          BY <1>4, <2>4, <3>3, <3>5 DEF EveryElementOnce
    <3>9. ((live \cup lost) \cap OnStack)' = {} /\ (live \cap lost)' = {}
          BY <2>4, <3>3, <3>4, <3>5 DEF EveryElementOnce
    <3> QED
        BY <2>1, <2>4, <3>6, <3>7, <3>8, <3>9 DEF EveryElementOnce, Elements
  <2>8. StackBacked' /\ StartsBacked' /\ PushIsBacked'
        BY <2>4 DEF StackBacked, StartsBacked, PushIsBacked
  <2> QED BY <2>6, <2>7, <2>8
<1>5. CASE AllocFails \/ OthersUseMemory \/ UNCHANGED vars
  <2>1. /\ UNCHANGED <<free, freeIndex, freeCreated, present, live, lost, faulted>>
        /\ supply' \in 0 .. MaxSupply
        BY <1>5 DEF AllocFails, OthersUseMemory, vars, TypeOK
  <2>2. TypeOK'
        BY <2>1 DEF TypeOK
  <2>3. EveryElementOnce'
        BY <2>1 DEF EveryElementOnce, OnStack
  <2>4. PushIsBacked' /\ StackBacked' /\ StartsBacked'
        BY <2>1 DEF PushIsBacked, StackBacked, StartsBacked
  <2> QED BY <2>2, <2>3, <2>4
<1> QED BY <1>2, <1>3, <1>4, <1>5 DEF Next

THEOREM SpecIInv == Spec => []IInv
BY InitIInv, NextIInv, PTL DEF Spec

(* Every variable keeps its type.                                          *)
THEOREM SpecTypeOK == Spec => []TypeOK
BY SpecIInv, PTL DEF IInv

(* No alloc() and free() ever lose track of an element or hand one out     *)
(* twice, however memory comes and goes under them.                        *)
THEOREM SpecEveryElementOnce == Spec => []EveryElementOnce
BY SpecIInv, PTL DEF IInv

(* free() never writes to a page that has no memory.                       *)
THEOREM SpecPushIsBacked == Spec => []PushIsBacked
BY SpecIInv, PTL DEF IInv

-----------------------------------------------------------------------------
(* The memory under the elements.                                          *)

LEMMA DivIsUnique ==
  ASSUME NEW p \in Nat \ {0}, NEW a \in Int, NEW y \in 0 .. p - 1
  PROVE  (a * p + y) \div p = a
  OBVIOUS

(* When the size divides the page, an element lies in one page.            *)
LEMMA OnePage ==
  ASSUME PageSize % ElementSize = 0, NEW k \in Nat
  PROVE  PageOf(k * ElementSize + ElementSize - 1) = PageOf(k * ElementSize)
<1> DEFINE q == PageSize \div ElementSize
           a == k \div q
           r == k % q
<1>1. q \in Nat /\ q > 0 /\ PageSize = q * ElementSize
      OBVIOUS
<1>2. a \in Nat /\ r \in 0 .. q - 1 /\ k = a * q + r
  <2> HIDE DEF q
  <2> QED BY <1>1
<1> HIDE DEF q, a, r
<1>3. k * ElementSize = a * PageSize + r * ElementSize
  <2>1. (a * q + r) * ElementSize = a * (q * ElementSize) + r * ElementSize
        BY <1>1, <1>2
  <2> QED BY <1>1, <1>2, <2>1
<1>4. r * ElementSize \in Nat /\ r * ElementSize + ElementSize <= PageSize
  <2>1. (r + 1) * ElementSize <= q * ElementSize
        BY <1>1, <1>2
  <2>2. (r + 1) * ElementSize = r * ElementSize + ElementSize
        BY <1>1, <1>2
  <2>3. r * ElementSize \in Nat
        BY <1>1, <1>2
  <2> QED BY <1>1, <2>1, <2>2, <2>3
<1> DEFINE y == r * ElementSize
<1>5. k * ElementSize = a * PageSize + y /\ y \in Nat /\ y + ElementSize <= PageSize
      BY <1>3, <1>4
<1> HIDE DEF y
<1>6. PageOf(k * ElementSize) = a
      BY <1>2, <1>5, DivIsUnique DEF PageOf
<1>7. PageOf(k * ElementSize + ElementSize - 1) = a
  <2> DEFINE z == y + ElementSize - 1
  <2>1. k * ElementSize + ElementSize - 1 = a * PageSize + z
        BY <1>2, <1>5
  <2>2. z \in 0 .. PageSize - 1
        BY <1>5
  <2> HIDE DEF z
  <2>3. (a * PageSize + z) \div PageSize = a
        BY <1>2, <2>2, DivIsUnique
  <2> QED BY <2>1, <2>3, Zenon DEF PageOf
<1> QED BY <1>6, <1>7

(* Every element in use has memory, to its last byte when elements do not  *)
(* straddle pages.                                                         *)
THEOREM SpecElementsBacked == Spec => []ElementsBacked
<1>1. IInv => ElementsBacked
  <2> SUFFICES ASSUME IInv, NEW element \in live
               PROVE  /\ PageOf(element) \in present
                      /\ PageSize % ElementSize = 0 =>
                           PageOf(element + ElementSize - 1) \in present
      BY DEF ElementsBacked
  <2>1. PageOf(element) \in present
        BY DEF IInv, StartsBacked
  <2>2. PICK k \in 0 .. ClientLimit - 1 : element = k * ElementSize
        BY DEF IInv, TypeOK, Elements
  <2> QED BY <2>1, <2>2, OnePage
<1> QED BY <1>1, SpecIInv, PTL

(* As long as users hold no more elements than the slab has room for, the  *)
(* elements stay clear of the array of free offsets ...                    *)
THEOREM SpecElementsBelowFreeArray ==
  ASSUME ClientLimit <= Capacity
  PROVE  Spec => []ElementsBelowFreeArray
<1>1. IInv => ElementsBelowFreeArray
  <2> SUFFICES ASSUME IInv, NEW element \in live
               PROVE  element + ElementSize <= EntryOffset(0)
      BY DEF ElementsBelowFreeArray
  <2>1. PICK k \in 0 .. ClientLimit - 1 : element = k * ElementSize
        BY DEF IInv, TypeOK, Elements
  <2>2. k * ElementSize + ElementSize <= Capacity * ElementSize
        BY CapacityFits, OffsetsDiffer
  <2>3. Capacity * ElementSize + Capacity * WordSize <= TableSize
        BY CapacityFits
  <2>4. EntryOffset(0) = TableSize - Capacity * WordSize
        BY CapacityFits DEF EntryOffset
  <2> DEFINE cs == Capacity * ElementSize
             cw == Capacity * WordSize
  <2>5. cs \in Int /\ cw \in Int /\ element \in Int
        BY <2>1, CapacityFits
  <2>6. element + ElementSize <= cs /\ cs + cw <= TableSize
        /\ EntryOffset(0) = TableSize - cw
        BY <2>1, <2>2, <2>3, <2>4
  <2> HIDE DEF cs, cw
  <2> QED BY <2>5, <2>6
<1> QED BY <1>1, SpecIInv, PTL

(* ... and the slab is the pool of objects its users take it for.          *)
THEOREM SpecImplementsPool ==
  ASSUME ClientLimit <= Capacity
  PROVE  Spec => ImplementsPool
<1> DEFINE All == Elements(Capacity)
<1>1. Elements(ClientLimit) \subseteq All
      BY FewerElements, CapacityFits
<1> HIDE DEF All
<1>2. Init => Pool!Init
      BY DEF Init, Pool!Init, All
<1>3. IInv /\ [Next]_vars => [Pool!Next]_(Pool!poolVars)
  <2> SUFFICES ASSUME IInv, [Next]_vars
               PROVE  [Pool!Next]_(Pool!poolVars)
      OBVIOUS
  <2>1. CASE AllocSucceeds
    <3>1. Popped \in All /\ Popped \notin live \cup lost
          BY <1>1, <2>1, PopTakesOne DEF AllocSucceeds
    <3>2. Pool!Take(Popped)
          BY <2>1, <3>1 DEF AllocSucceeds, Pool!Take, All
    <3> QED BY <3>1, <3>2 DEF Pool!Next, All
  <2>2. CASE AllocLoses
    <3>1. Popped \in All /\ Popped \notin live \cup lost
          BY <1>1, <2>2, PopTakesOne DEF AllocLoses
    <3>2. Pool!Lose(Popped)
          BY <2>2, <3>1 DEF AllocLoses, Pool!Lose, All
    <3> QED BY <3>1, <3>2 DEF Pool!Next, All
  <2>3. ASSUME NEW element \in live, Free(element)
        PROVE  [Pool!Next]_(Pool!poolVars)
    <3>1. element \in All /\ element \notin lost
          BY <1>1 DEF IInv, TypeOK, EveryElementOnce
    <3>2. CASE live' = live \ {element} /\ lost' = lost
      <4>1. Pool!Give(element)
            BY <3>1, <3>2 DEF Pool!Give, All
      <4> QED BY <3>1, <4>1 DEF Pool!Next, All
    <3>3. CASE live' = live /\ lost' = lost
          BY <3>3 DEF Pool!poolVars
    <3> QED BY <2>3, <3>2, <3>3 DEF Free
  <2>4. CASE AllocFails \/ OthersUseMemory \/ UNCHANGED vars
        BY <2>4 DEF AllocFails, OthersUseMemory, vars, Pool!poolVars
  <2> QED BY <2>1, <2>2, <2>3, <2>4 DEF Next
<1> QED
    BY <1>2, <1>3, SpecIInv, PTL DEF Spec, Pool!Spec, ImplementsPool
=============================================================================
