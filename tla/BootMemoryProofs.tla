-------------------------- MODULE BootMemoryProofs --------------------------
(***************************************************************************)
(* Proofs about BootMemory, for every page size, place of the kernel and   *)
(* memory map of the boot loader.                                          *)
(***************************************************************************)
EXTENDS BootMemory, FiniteSetTheorems, SequenceTheorems, TLAPS

USE PageSizeAssumption, MapAssumption, KernelAssumption

Area == [addr : 0 .. MemoryEnd, len : 1 .. MemoryEnd, type : {"available", "reserved"}]

EntriesOK ==
  /\ Ascending(given) /\ KernelFits(given)
  /\ entries \in Seq(Area) /\ Len(entries) = Len(given)
  /\ pc \in {"scan", "add", "clear"} => entries = given
  /\ entries[1] = given[1] \/ (Len(given) > 1 /\ entries[1] = given[2])
  /\ Len(given) > 1 => entries[2] = given[2]

IndexOK ==
  /\ index \in Nat \ {0}
  /\ pc \in {"scan", "add"} => index <= Len(given)
  /\ pc = "ready" => index > Len(pages)

\* The recursion is past an entry on its way down.
Scanned(k) == pc = "scan" => k < index

TotalOK ==
  /\ total_memory \in Nat /\ total_memory <= MemoryEnd
  /\ \A k \in DOMAIN given :
       Scanned(k) /\ given[k].type = "available" => EndOf(given[k]) <= total_memory

\* A page that an entry gave, and one of the entry's that PMem::map is in.
GivenBy(page, e) ==
  /\ e.type = "available" /\ PageIn(page, e.addr, EndOf(e))
  /\ page % PageSize = 0
  /\ page + PageSize <= KernelStart \/ KernelEnd <= page

PagesGiven ==
  /\ pages \in Seq(Nat)
  /\ pc = "scan" => pages = <<>>
  /\ \A i \in DOMAIN pages : \E k \in DOMAIN given :
       (pc = "add" => index < k) /\ GivenBy(pages[i], given[k])

\* A sequence's elements come once.
Apart(s) == \A i, j \in DOMAIN s : s[i] = s[j] => i = j

PagesApart == Apart(pages)

PagesEnough ==
  pc \notin {"scan", "add", "out_of_memory"} => Needed <= Len(pages)

\* An entry that the recursion came back from did not give enough.
Short(k) == Len(PagesFrom(given[k])) < Needed

EntriesShort ==
  /\ pc = "add" => \A k \in DOMAIN given : index < k => Short(k)
  /\ pc = "out_of_memory" => \A k \in DOMAIN given : Short(k)

MapOK ==
  /\ pc \in {"scan", "add", "clear", "out_of_memory"} => map = <<>>
  /\ pc \in {"reserve_entries", "reserve_map", "ready", "hung"} =>
       map \in [0 .. MapLength - 1 -> {FREE, RESERVED}]

KernelReserved ==
  pc \in {"reserve_map", "ready"} =>
    \A b \in KernelStart \div PageSize .. (KernelEnd - 1) \div PageSize :
      map[b] = RESERVED

PagesReserved ==
  pc \in {"reserve_map", "ready"} =>
    \A i \in DOMAIN pages : i < index => map[pages[i] \div PageSize] = RESERVED

IInv ==
  /\ pc \in {"scan", "add", "clear", "reserve_entries", "reserve_map",
             "ready", "out_of_memory", "hung"}
  /\ EntriesOK /\ IndexOK /\ TotalOK
  /\ PagesGiven /\ PagesApart /\ PagesEnough
  /\ EntriesShort /\ MapOK /\ KernelReserved /\ PagesReserved
  /\ HangsForAreaAbove

-----------------------------------------------------------------------------
(* Rounding.                                                               *)
LEMMA Multiples ==
  ASSUME NEW a \in Nat, NEW b \in Nat, a * PageSize < b * PageSize + PageSize
  PROVE  a <= b
<1>1. a >= b + 1 => a * PageSize >= (b + 1) * PageSize
      OBVIOUS
<1>2. (b + 1) * PageSize = b * PageSize + PageSize
      OBVIOUS
<1> QED BY <1>1, <1>2

LEMMA Ceiling ==
  ASSUME NEW n \in Nat, NEW d \in Nat \ {0}
  PROVE  /\ ceildiv(n, d) \in Nat
         /\ n <= ceildiv(n, d) * d /\ (n > 0 => ceildiv(n, d) * d < n + d)
         /\ n = 0 => ceildiv(n, d) = 0
<1>1. CASE n = 0
      BY <1>1 DEF ceildiv
<1>2. CASE n # 0
  <2>1. PICK q \in Nat : q = (n - 1) \div d /\ q * d <= n - 1 /\ n - 1 < (q + 1) * d
        BY <1>2
  <2>2. ceildiv(n, d) = q + 1
        BY <1>2, <2>1 DEF ceildiv
  <2>3. (q + 1) * d = q * d + d
        BY <2>1
  <2> QED BY <1>2, <2>1, <2>2, <2>3
<1> QED BY <1>1, <1>2

LEMMA CeilPage ==
  ASSUME NEW n \in Nat
  PROVE  \E q \in Nat : /\ ceilg(n, PageSize) = q * PageSize
                        /\ n <= q * PageSize /\ q * PageSize < n + PageSize
<1>1. PICK q \in Nat : q = ceildiv(n, PageSize)
      BY Ceiling
<1>2. n <= q * PageSize /\ q * PageSize < n + PageSize
      BY <1>1, Ceiling
<1> QED BY <1>1, <1>2 DEF ceilg

LEMMA FloorPage ==
  ASSUME NEW n \in Nat
  PROVE  \E q \in Nat : /\ floorg(n, PageSize) = q * PageSize
                        /\ q * PageSize <= n /\ n < q * PageSize + PageSize
<1>1. /\ n \div PageSize \in Nat /\ (n \div PageSize) * PageSize <= n
      /\ n < (n \div PageSize) * PageSize + PageSize
      OBVIOUS
<1> QED BY <1>1 DEF floorg

LEMMA LeastOfTwo ==
  ASSUME NEW a \in Int, NEW b \in Int
  PROVE  Min({a, b}) <= a /\ Min({a, b}) <= b /\ Min({a, b}) \in {a, b}
BY DEF Min

LEMMA GreatestOfTwo ==
  ASSUME NEW a \in Int, NEW b \in Int
  PROVE  Max({a, b}) >= a /\ Max({a, b}) >= b /\ Max({a, b}) \in {a, b}
BY DEF Max

-----------------------------------------------------------------------------
(* The pages of a sequence lie in an area and come once.                   *)
InArea(s, first, last) ==
  /\ s \in Seq(Nat)
  /\ \A i \in DOMAIN s : PageIn(s[i], first, last) /\ s[i] % PageSize = 0
  /\ \A i, j \in DOMAIN s : s[i] = s[j] => i = j

LEMMA WholePagesInArea ==
  ASSUME NEW first \in Nat, NEW last \in Nat, NEW n \in Nat
  PROVE  /\ InArea(WholePages(first, last, n), first, last)
         /\ Len(WholePages(first, last, n)) <= n
<1>1. PICK q \in Nat : ceilg(first, PageSize) = q * PageSize /\ first <= q * PageSize
      BY CeilPage
<1>2. PICK r \in Nat : floorg(last, PageSize) = r * PageSize /\ r * PageSize <= last
      BY FloorPage
<1>3. CASE q * PageSize >= r * PageSize
  <2>1. WholePages(first, last, n) = <<>>
        BY <1>1, <1>2, <1>3 DEF WholePages
  <2> QED BY <2>1 DEF InArea
<1>4. CASE q * PageSize < r * PageSize
  <2>1. q < r
        BY <1>4
  <2>2. (r * PageSize - q * PageSize) \div PageSize = r - q
    <3>1. r * PageSize - q * PageSize = (r - q) * PageSize
          OBVIOUS
    <3>2. ((r - q) * PageSize) \div PageSize = r - q
          BY <2>1
    <3> QED BY <3>1, <3>2
  <2>3. PICK m \in Nat : m = Min({n, r - q}) /\ m <= n /\ m <= r - q
    <3>1. PICK k \in Nat : k = r - q
          BY <2>1
    <3>2. Min({n, k}) <= n /\ Min({n, k}) <= k /\ Min({n, k}) \in {n, k}
          BY LeastOfTwo
    <3>3. Min({n, k}) \in Nat
          BY <3>2
    <3> QED BY <3>1, <3>2, <3>3
  <2>4. WholePages(first, last, n)
          = [i \in 1 .. m |-> q * PageSize + (i - 1) * PageSize]
    <3>1. WholePages(first, last, n)
            = [i \in 1 .. Min({n, (r * PageSize - q * PageSize) \div PageSize}) |->
                 q * PageSize + (i - 1) * PageSize]
          BY <1>1, <1>2, <1>4 DEF WholePages
    <3> QED BY <2>2, <2>3, <3>1
  <2> DEFINE s == [i \in 1 .. m |-> q * PageSize + (i - 1) * PageSize]
  <2>5. ASSUME NEW i \in 1 .. m
        PROVE  /\ s[i] \in Nat /\ s[i] = (q + i - 1) * PageSize
               /\ first <= s[i] /\ s[i] + PageSize <= last
               /\ s[i] % PageSize = 0
    <3>1. q + i - 1 \in Nat /\ i - 1 \in Nat /\ q + i <= r
          BY <2>3
    <3>2. /\ s[i] = (q + i - 1) * PageSize
          /\ (q + i - 1) * PageSize + PageSize = (q + i) * PageSize
          /\ (q + i - 1) * PageSize = q * PageSize + (i - 1) * PageSize
          BY <3>1
    <3>3. /\ (q + i) * PageSize <= r * PageSize
          /\ (i - 1) * PageSize >= 0 /\ (q + i - 1) * PageSize \in Nat
          BY <3>1
    <3>4. ((q + i - 1) * PageSize) % PageSize = 0
          BY <3>1
    <3> HIDE DEF s
    <3> QED BY <1>1, <1>2, <3>2, <3>3, <3>4
  <2>6. s \in Seq(Nat) /\ Len(s) = m /\ DOMAIN s = 1 .. m
        BY <2>5
  <2>7. ASSUME NEW i \in 1 .. m, NEW j \in 1 .. m, s[i] = s[j]
        PROVE  i = j
    <3>1. (q + i - 1) * PageSize = (q + j - 1) * PageSize
          BY <2>5, <2>7
    <3>2. q + i - 1 \in Nat /\ q + j - 1 \in Nat
          OBVIOUS
    <3>3. q + i - 1 <= q + j - 1 /\ q + j - 1 <= q + i - 1
          BY <3>1, <3>2, Multiples
    <3> QED BY <3>3
  <2> HIDE DEF s
  <2>8. InArea(s, first, last)
        BY <2>5, <2>6, <2>7 DEF InArea, PageIn
  <2> QED BY <2>3, <2>4, <2>6, <2>8 DEF s
<1> QED BY <1>3, <1>4


\* Two sequences of pages, one after the other.
LEMMA Joined ==
  ASSUME NEW s \in Seq(Nat), NEW t \in Seq(Nat)
  PROVE  /\ s \o t \in Seq(Nat) /\ Len(s \o t) = Len(s) + Len(t)
         /\ \A i \in DOMAIN (s \o t) :
              \/ i \in DOMAIN s /\ (s \o t)[i] = s[i]
              \/ /\ i \notin DOMAIN s /\ i - Len(s) \in DOMAIN t
                 /\ (s \o t)[i] = t[i - Len(s)]
<1>1. /\ s \o t \in Seq(Nat) /\ Len(s \o t) = Len(s) + Len(t)
      /\ \A i \in 1 .. Len(s) + Len(t) :
           (s \o t)[i] = IF i <= Len(s) THEN s[i] ELSE t[i - Len(s)]
      BY ConcatProperties
<1>2. /\ DOMAIN s = 1 .. Len(s) /\ DOMAIN t = 1 .. Len(t)
      /\ Len(s) \in Nat /\ Len(t) \in Nat
      OBVIOUS
<1>3. DOMAIN (s \o t) = 1 .. Len(s) + Len(t)
      BY <1>1
<1>4. ASSUME NEW i \in DOMAIN (s \o t)
      PROVE  \/ i \in DOMAIN s /\ (s \o t)[i] = s[i]
             \/ /\ i \notin DOMAIN s /\ i - Len(s) \in DOMAIN t
                /\ (s \o t)[i] = t[i - Len(s)]
      BY <1>1, <1>2, <1>3
<1> QED BY <1>1, <1>4

LEMMA JoinedApart ==
  ASSUME NEW s \in Seq(Nat), NEW t \in Seq(Nat), Apart(s), Apart(t),
         \A i \in DOMAIN s, j \in DOMAIN t : s[i] # t[j]
  PROVE  Apart(s \o t)
<1> DEFINE u == s \o t
<1>1. \A i \in DOMAIN u :
        \/ i \in DOMAIN s /\ u[i] = s[i]
        \/ /\ i \notin DOMAIN s /\ i - Len(s) \in DOMAIN t
           /\ u[i] = t[i - Len(s)]
      BY Joined
<1>2. \A i \in DOMAIN u : i \in Int
      BY Joined
<1> HIDE DEF u
<1>3. ASSUME NEW i \in DOMAIN u, NEW j \in DOMAIN u, u[i] = u[j]
      PROVE  i = j
  <2>1. CASE i \in DOMAIN s
        BY <1>1, <1>3, <2>1 DEF Apart
  <2>2. CASE i \notin DOMAIN s
    <3>1. i - Len(s) = j - Len(s)
          BY <1>1, <1>3, <2>2 DEF Apart
    <3> QED BY <1>2, <3>1
  <2> QED BY <2>1, <2>2
<1> QED BY <1>3 DEF u, Apart

(* process_area() and offset_for_kernel(): the pages are in the area, come *)
(* once, are no more than asked for and, if the kernel begins in the area, *)
(* are none of the kernel's.                                               *)
LEMMA AreaPagesFacts ==
  ASSUME NEW first \in Nat, NEW last \in Nat, NEW n \in Nat
  PROVE  /\ InArea(AreaPages(first, last, n), first, last)
         /\ Len(AreaPages(first, last, n)) <= n
         /\ KernelStart >= first =>
              \A i \in DOMAIN AreaPages(first, last, n) :
                \/ AreaPages(first, last, n)[i] + PageSize <= KernelStart
                \/ KernelEnd <= AreaPages(first, last, n)[i]
<1> DEFINE w == AreaPages(first, last, n)
<1>1. CASE KernelStart >= first /\ KernelStart < last
  <2> DEFINE s == WholePages(first, KernelStart, n)
             t == WholePages(KernelEnd, last, n - Len(s))
  <2>1. w = s \o t
        BY <1>1 DEF AreaPages
  <2>2. InArea(s, first, KernelStart) /\ Len(s) <= n
        BY WholePagesInArea
  <2>3. s \in Seq(Nat) /\ Apart(s) /\ Len(s) \in Nat
        BY <2>2 DEF InArea, Apart
  <2>4. n - Len(s) \in Nat
        BY <2>2, <2>3
  <2>5. InArea(t, KernelEnd, last) /\ Len(t) <= n - Len(s)
        BY <2>4, WholePagesInArea
  <2>6. t \in Seq(Nat) /\ Apart(t) /\ Len(t) \in Nat
        BY <2>5 DEF InArea, Apart
  <2> HIDE DEF s, t, w
  <2>7. /\ w \in Seq(Nat) /\ Len(w) = Len(s) + Len(t)
        /\ \A i \in DOMAIN w :
             \/ i \in DOMAIN s /\ w[i] = s[i]
             \/ i - Len(s) \in DOMAIN t /\ w[i] = t[i - Len(s)]
        BY <2>1, <2>3, <2>6, Joined
  <2>8. Len(w) <= n
        BY <2>3, <2>5, <2>6, <2>7
  <2>9. \A i \in DOMAIN s : s[i] \in Nat /\ PageIn(s[i], first, KernelStart)
                            /\ s[i] % PageSize = 0
        BY <2>2, <2>3 DEF InArea
  <2>10. \A j \in DOMAIN t : t[j] \in Nat /\ PageIn(t[j], KernelEnd, last)
                             /\ t[j] % PageSize = 0
        BY <2>5, <2>6 DEF InArea
  <2>11. Apart(w)
    <3>1. \A i \in DOMAIN s, j \in DOMAIN t : s[i] # t[j]
          BY <2>9, <2>10 DEF PageIn
    <3> QED BY <2>1, <2>3, <2>6, <3>1, JoinedApart
  <2>12. ASSUME NEW i \in DOMAIN w
         PROVE  /\ PageIn(w[i], first, last) /\ w[i] % PageSize = 0
                /\ w[i] + PageSize <= KernelStart \/ KernelEnd <= w[i]
    <3>1. \/ w[i] \in Nat /\ PageIn(w[i], first, KernelStart) /\ w[i] % PageSize = 0
          \/ w[i] \in Nat /\ PageIn(w[i], KernelEnd, last) /\ w[i] % PageSize = 0
          BY <2>7, <2>9, <2>10
    <3> QED BY <1>1, <3>1 DEF PageIn
  <2> QED BY <2>7, <2>8, <2>11, <2>12 DEF InArea, Apart, w
<1>2. CASE ~ (KernelStart >= first /\ KernelStart < last)
  <2>1. w = WholePages(first, last, n)
        BY <1>2 DEF AreaPages
  <2>2. InArea(w, first, last) /\ Len(w) <= n
        BY <2>1, WholePagesInArea
  <2> HIDE DEF w
  <2>3. ASSUME KernelStart >= first, NEW i \in DOMAIN w
        PROVE  w[i] + PageSize <= KernelStart
    <3>1. w[i] \in Nat /\ w[i] + PageSize <= last
          BY <2>2 DEF InArea, PageIn
    <3> QED BY <1>2, <2>3, <3>1
  <2> QED BY <2>2, <2>3 DEF w
<1> QED BY <1>1, <1>2

-----------------------------------------------------------------------------
(* The areas of the memory map, and what an entry gives.                   *)
LEMMA Areas ==
  ASSUME EntriesOK
  PROVE  /\ Len(given) \in Nat \ {0} /\ DOMAIN given = 1 .. Len(given)
         /\ \A k \in DOMAIN given :
              /\ given[k].addr \in Nat /\ given[k].len \in Nat \ {0}
              /\ EndOf(given[k]) \in Nat
              /\ EndOf(given[k]) = given[k].addr + given[k].len
              /\ EndOf(given[k]) <= MemoryEnd
         /\ \A k, l \in DOMAIN given :
              k < l => EndOf(given[k]) <= given[l].addr
<1>1. given \in Seq(Area)
      BY DEF EntriesOK, Ascending, Area
<1>2. DOMAIN given = 1 .. Len(given) /\ Len(given) \in Nat
      BY <1>1
<1>3. \A k \in DOMAIN given : given[k] \in Area
      BY <1>1
<1>4. ASSUME NEW k \in DOMAIN given
      PROVE  /\ given[k].addr \in Nat /\ given[k].len \in Nat \ {0}
             /\ EndOf(given[k]) \in Nat
             /\ EndOf(given[k]) = given[k].addr + given[k].len
  <2>1. given[k].addr \in Nat /\ given[k].len \in Nat \ {0}
        BY <1>3 DEF Area
  <2> QED BY <2>1 DEF EndOf
<1>5. Len(given) # 0
      BY <1>2 DEF EntriesOK, KernelFits
<1>6. /\ \A k \in DOMAIN given : EndOf(given[k]) <= MemoryEnd
      /\ \A k, l \in DOMAIN given : k < l => EndOf(given[k]) <= given[l].addr
      BY DEF EntriesOK, Ascending
<1> QED BY <1>2, <1>4, <1>5, <1>6

\* An area that begins in the kernel's image has only pages after it.
LEMMA KernelInOneArea ==
  ASSUME EntriesOK, NEW k \in DOMAIN given, given[k].type = "available",
         NEW q \in Nat, given[k].addr <= q * PageSize,
         q * PageSize < given[k].addr + PageSize,
         KernelStart < q * PageSize, q * PageSize < EndOf(given[k])
  PROVE  KernelEnd <= q * PageSize
<1>1. PICK l \in DOMAIN given :
        Holds(given[l], KernelStart, ceilg(KernelEnd, PageSize))
      BY DEF EntriesOK, KernelFits
<1>2. given[l].addr <= KernelStart /\ KernelEnd <= EndOf(given[l])
  <2>1. PICK r \in Nat : ceilg(KernelEnd, PageSize) = r * PageSize
                         /\ KernelEnd <= r * PageSize
        BY CeilPage
  <2>2. EndOf(given[l]) \in Nat
        BY Areas
  <2> QED BY <1>1, <2>1, <2>2 DEF Holds
<1>3. /\ given[k].addr \in Nat /\ given[l].addr \in Nat
      /\ EndOf(given[k]) \in Nat /\ EndOf(given[l]) \in Nat
      /\ k < l => EndOf(given[k]) <= given[l].addr
      /\ l < k => EndOf(given[l]) <= given[k].addr
      /\ k \in Nat /\ l \in Nat
      BY Areas
<1>4. CASE l = k
  <2>1. PICK r \in Nat : KernelStart = r * PageSize
    <3>1. KernelStart \div PageSize \in Nat
          /\ KernelStart = (KernelStart \div PageSize) * PageSize
          OBVIOUS
    <3> QED BY <3>1
  <2>2. q * PageSize < r * PageSize + PageSize
        BY <1>2, <1>3, <1>4, <2>1
  <2>3. q <= r
        BY <2>2, Multiples
  <2>4. q * PageSize <= r * PageSize
        BY <2>3
  <2> QED BY <2>1, <2>4
<1>5. CASE l < k
  <2>1. q * PageSize \in Nat
        OBVIOUS
  <2> QED BY <1>2, <1>3, <1>5, <2>1
<1>6. CASE k < l
  <2>1. q * PageSize \in Nat
        OBVIOUS
  <2> QED BY <1>2, <1>3, <1>6, <2>1
<1> QED BY <1>3, <1>4, <1>5, <1>6

LEMMA NeededNat ==
  ASSUME total_memory \in Nat
  PROVE  /\ Needed \in Nat /\ total_memory <= Needed * (PageSize * PageSize)
         /\ MapLength \in Nat /\ MapLength * PageSize <= total_memory
         /\ total_memory < MapLength * PageSize + PageSize
<1>1. PageSize * PageSize \in Nat \ {0}
      OBVIOUS
<1>2. Needed \in Nat /\ total_memory <= Needed * (PageSize * PageSize)
      BY <1>1, Ceiling DEF Needed
<1>3. PICK m \in Nat : m = MapLength /\ m * PageSize <= total_memory
                       /\ total_memory < (m + 1) * PageSize
      BY DEF MapLength
<1>4. (m + 1) * PageSize = m * PageSize + PageSize
      OBVIOUS
<1> QED BY <1>2, <1>3, <1>4

\* The pages that an entry adds.
LEMMA PagesFromFacts ==
  ASSUME EntriesOK, TotalOK, NEW k \in DOMAIN given
  PROVE  /\ PagesFrom(given[k]) \in Seq(Nat)
         /\ Len(PagesFrom(given[k])) <= Needed
         /\ Apart(PagesFrom(given[k]))
         /\ \A i \in DOMAIN PagesFrom(given[k]) :
              GivenBy(PagesFrom(given[k])[i], given[k])
<1> DEFINE e == given[k]
<1>1. Needed \in Nat
      BY NeededNat DEF TotalOK
<1>2. CASE e.type # "available"
  <2>1. PagesFrom(e) = <<>>
        BY <1>2 DEF PagesFrom
  <2> QED BY <1>1, <2>1 DEF Apart
<1>3. CASE e.type = "available"
  <2>1. /\ e.addr \in Nat /\ e.len \in Nat \ {0} /\ EndOf(e) \in Nat
        /\ EndOf(e) = e.addr + e.len
        BY Areas
  <2>2. PICK q \in Nat : /\ ceilg(e.addr, PageSize) = q * PageSize
                         /\ e.addr <= q * PageSize /\ q * PageSize < e.addr + PageSize
        BY <2>1, CeilPage
  <2>3. PICK r \in Nat : /\ floorg(EndOf(e) - 1, PageSize) = r * PageSize
                         /\ r * PageSize <= EndOf(e) - 1
    <3>1. EndOf(e) - 1 \in Nat
          BY <2>1
    <3> QED BY <3>1, FloorPage
  <2>4. PICK first \in Nat : first = q * PageSize
        OBVIOUS
  <2>5. PICK last \in Nat : last = r * PageSize
        OBVIOUS
  <2> DEFINE w == AreaPages(first, last, Needed)
  <2>6. PagesFrom(e) = w
        BY <1>3, <2>2, <2>3, <2>4, <2>5 DEF PagesFrom
  <2>7. /\ InArea(w, first, last) /\ Len(w) <= Needed
        /\ KernelStart >= first =>
             \A i \in DOMAIN w : w[i] + PageSize <= KernelStart \/ KernelEnd <= w[i]
        BY <1>1, AreaPagesFacts
  <2> HIDE DEF w
  <2>8. ASSUME NEW i \in DOMAIN w
        PROVE  GivenBy(w[i], e)
    <3>1. /\ w[i] \in Nat /\ first <= w[i] /\ w[i] + PageSize <= last
          /\ w[i] % PageSize = 0
          BY <2>7 DEF InArea, PageIn
    <3>2. w[i] + PageSize <= KernelStart \/ KernelEnd <= w[i]
      <4>1. CASE KernelStart >= first
            BY <2>7, <4>1
      <4>2. CASE KernelStart < first
        <5>1. q * PageSize < EndOf(e)
              BY <2>1, <2>3, <2>4, <2>5, <3>1
        <5>2. KernelEnd <= q * PageSize
              BY <1>3, <2>2, <2>4, <4>2, <5>1, KernelInOneArea
        <5> QED BY <2>4, <3>1, <5>2
      <4> QED BY <4>1, <4>2
    <3>3. PageIn(w[i], e.addr, EndOf(e))
          BY <2>1, <2>2, <2>3, <2>4, <2>5, <3>1 DEF PageIn
    <3> QED BY <1>3, <3>1, <3>2, <3>3 DEF GivenBy
  <2> QED BY <2>6, <2>7, <2>8 DEF InArea, Apart
<1> QED BY <1>2, <1>3

-----------------------------------------------------------------------------
(* set_state() and the blocks it is called for.                            *)
MapMade == map \in [0 .. MapLength - 1 -> {FREE, RESERVED}]

LEMMA ReserveFacts ==
  ASSUME MapMade, UNCHANGED total_memory,
         NEW addr \in Nat, NEW bytes \in Nat, NEW next, Reserve(addr, bytes, next)
  PROVE  \/ pc' = "hung" /\ OutOfBounds(addr, bytes) /\ UNCHANGED map
         \/ /\ pc' = next /\ MapMade'
            /\ \A b \in 0 .. MapLength - 1 : map[b] = RESERVED => map'[b] = RESERVED
            /\ \A b \in BlocksOf(addr, bytes) :
                 b \in 0 .. MapLength - 1 => map'[b] = RESERVED
<1>1. CASE OutOfBounds(addr, bytes)
      BY <1>1 DEF Reserve
<1>2. CASE ~ OutOfBounds(addr, bytes)
  <2>1. /\ pc' = next
        /\ map' = [b \in 0 .. MapLength - 1 |->
                     IF b \in BlocksOf(addr, bytes) THEN RESERVED ELSE map[b]]
        BY <1>2 DEF Reserve, MapMade
  <2>2. MapLength' = MapLength
        BY DEF MapLength
  <2> QED BY <2>1, <2>2 DEF MapMade
<1> QED BY <1>1, <1>2

\* Where a range's blocks begin and end.
LEMMA BlocksOfFacts ==
  ASSUME NEW addr \in Nat, NEW bytes \in Nat \ {0}
  PROVE  /\ addr \div PageSize \in BlocksOf(addr, bytes)
         /\ \A b \in BlocksOf(addr, bytes) : b \in Nat /\ b * PageSize < addr + bytes
         /\ \A b \in Nat : /\ addr \div PageSize <= b
                           /\ b * PageSize < (addr \div PageSize) * PageSize + bytes
                           => b \in BlocksOf(addr, bytes)
<1>1. PICK r \in Nat : r = addr \div PageSize /\ r * PageSize <= addr
      OBVIOUS
<1>2. PICK c \in Nat : /\ c = ceildiv(bytes, PageSize) /\ bytes <= c * PageSize
                       /\ c * PageSize < bytes + PageSize
  <2>1. /\ ceildiv(bytes, PageSize) \in Nat
        /\ bytes <= ceildiv(bytes, PageSize) * PageSize
        /\ ceildiv(bytes, PageSize) * PageSize < bytes + PageSize
    <3>1. bytes \in Nat /\ bytes > 0
          OBVIOUS
    <3> QED BY <3>1, Ceiling
  <2> QED BY <2>1
<1>3. BlocksOf(addr, bytes) = r .. r + c - 1
      BY <1>1, <1>2 DEF BlocksOf
<1>4. c # 0
      BY <1>2
<1>5. ASSUME NEW b \in r .. r + c - 1
      PROVE  b \in Nat /\ b * PageSize < addr + bytes
  <2>1. b \in Nat /\ b <= r + c - 1
        OBVIOUS
  <2>2. b * PageSize <= (r + c - 1) * PageSize
        BY <1>4, <2>1
  <2>3. (r + c - 1) * PageSize = r * PageSize + c * PageSize - PageSize
        OBVIOUS
  <2>4. r * PageSize \in Nat /\ c * PageSize \in Nat /\ b * PageSize \in Nat
        BY <2>1
  <2> QED BY <1>1, <1>2, <2>1, <2>2, <2>3, <2>4
<1>6. ASSUME NEW b \in Nat, r <= b, b * PageSize < r * PageSize + bytes
      PROVE  b \in r .. r + c - 1
  <2>1. b * PageSize < (r + c - 1) * PageSize + PageSize
    <3>1. (r + c - 1) * PageSize + PageSize = r * PageSize + c * PageSize
          OBVIOUS
    <3>2. r * PageSize \in Nat /\ c * PageSize \in Nat /\ b * PageSize \in Nat
          OBVIOUS
    <3> QED BY <1>2, <1>6, <3>1, <3>2
  <2>2. r + c - 1 \in Nat
        BY <1>4
  <2> QED BY <1>6, <2>1, <2>2, Multiples
<1> QED BY <1>1, <1>3, <1>4, <1>5, <1>6

\* The map covers the kernel's blocks and those of its own pages.
LEMMA KernelBlocks ==
  ASSUME EntriesOK, TotalOK, pc # "scan"
  PROVE  /\ \A b \in BlocksOf(KernelStart, KernelEnd - KernelStart) :
              b \in 0 .. MapLength - 1
         /\ \A b \in KernelStart \div PageSize .. (KernelEnd - 1) \div PageSize :
              b \in BlocksOf(KernelStart, KernelEnd - KernelStart)
<1>1. PICK l \in DOMAIN given :
        /\ given[l].type = "available"
        /\ Holds(given[l], KernelStart, ceilg(KernelEnd, PageSize))
      BY DEF EntriesOK, KernelFits
<1>2. PICK r \in Nat : ceilg(KernelEnd, PageSize) = r * PageSize
                       /\ KernelEnd <= r * PageSize
      BY CeilPage
<1>3. r * PageSize <= total_memory
  <2>1. EndOf(given[l]) \in Nat /\ EndOf(given[l]) <= total_memory
        BY <1>1, Areas DEF TotalOK, Scanned
  <2>2. total_memory \in Nat /\ r * PageSize \in Nat
        BY DEF TotalOK
  <2> QED BY <1>1, <1>2, <2>1, <2>2 DEF Holds
<1>4. MapLength \in Nat /\ total_memory < MapLength * PageSize + PageSize
      BY NeededNat DEF TotalOK
<1>5. r <= MapLength
  <2>1. r * PageSize < MapLength * PageSize + PageSize
    <3>1. r * PageSize \in Nat /\ MapLength * PageSize \in Nat /\ total_memory \in Nat
          BY <1>4 DEF TotalOK
    <3> QED BY <1>3, <1>4, <3>1
  <2> QED BY <1>4, <2>1, Multiples
<1>6. PICK bytes \in Nat \ {0} : bytes = KernelEnd - KernelStart
      OBVIOUS
<1>7. ASSUME NEW b \in BlocksOf(KernelStart, bytes)
      PROVE  b \in 0 .. MapLength - 1
  <2>1. b \in Nat /\ b * PageSize < KernelStart + bytes
        BY BlocksOfFacts
  <2>2. b * PageSize < r * PageSize
    <3>1. b * PageSize \in Nat /\ r * PageSize \in Nat
          BY <2>1
    <3> QED BY <1>2, <1>6, <2>1, <3>1
  <2>3. ~ (r <= b)
    <3>1. r <= b => r * PageSize <= b * PageSize
          BY <2>1
    <3>2. b * PageSize \in Nat /\ r * PageSize \in Nat
          BY <2>1
    <3> QED BY <2>2, <3>1, <3>2
  <2> QED BY <1>4, <1>5, <2>1, <2>3
<1>8. ASSUME NEW b \in KernelStart \div PageSize .. (KernelEnd - 1) \div PageSize
      PROVE  b \in BlocksOf(KernelStart, bytes)
  <2>1. PICK s \in Nat : s = KernelStart \div PageSize /\ s * PageSize = KernelStart
        OBVIOUS
  <2>2. PICK e \in Nat : e = (KernelEnd - 1) \div PageSize /\ e * PageSize <= KernelEnd - 1
    <3>1. KernelEnd - 1 \in Nat
          OBVIOUS
    <3> QED BY <3>1
  <2>3. b \in Nat /\ s <= b /\ b <= e
        BY <2>1, <2>2
  <2>4. b * PageSize <= e * PageSize
        BY <2>3
  <2>5. b * PageSize < s * PageSize + bytes
    <3>1. b * PageSize \in Nat /\ e * PageSize \in Nat
          BY <2>3
    <3> QED BY <1>6, <2>1, <2>2, <2>4, <3>1
  <2> QED BY <2>1, <2>3, <2>5, BlocksOfFacts
<1> QED BY <1>6, <1>7, <1>8

LEMMA PageBlocks ==
  ASSUME EntriesOK, TotalOK, pc # "scan", NEW page \in Nat,
         NEW k \in DOMAIN given, GivenBy(page, given[k])
  PROVE  /\ page < total_memory
         /\ page \div PageSize \in BlocksOf(page, PageSize)
         /\ \A b \in BlocksOf(page, PageSize) : b \in 0 .. MapLength - 1
<1>1. page + PageSize <= total_memory /\ page % PageSize = 0
  <2>1. EndOf(given[k]) \in Nat /\ EndOf(given[k]) <= total_memory
        BY Areas DEF TotalOK, Scanned, GivenBy
  <2> QED BY <2>1 DEF GivenBy, PageIn, TotalOK
<1>2. MapLength \in Nat /\ total_memory < MapLength * PageSize + PageSize
      BY NeededNat DEF TotalOK
<1>3. PICK q \in Nat : page = q * PageSize
  <2>1. page \div PageSize \in Nat /\ page = (page \div PageSize) * PageSize
        BY <1>1
  <2> QED BY <2>1
<1>4. q < MapLength
  <2>1. page < MapLength * PageSize
    <3>1. MapLength * PageSize \in Nat /\ total_memory \in Nat
          BY <1>2 DEF TotalOK
    <3> QED BY <1>1, <1>2, <3>1
  <2>2. MapLength <= q => MapLength * PageSize <= q * PageSize
        BY <1>2
  <2>3. MapLength * PageSize \in Nat /\ q * PageSize \in Nat
        BY <1>2
  <2> QED BY <1>2, <1>3, <2>1, <2>2, <2>3
<1>5. ASSUME NEW b \in BlocksOf(page, PageSize)
      PROVE  b \in 0 .. MapLength - 1
  <2>1. b \in Nat /\ b * PageSize < page + PageSize
        BY BlocksOfFacts
  <2>2. b <= q
        BY <1>3, <2>1, Multiples
  <2> QED BY <1>2, <1>4, <2>1, <2>2
<1>6. page \div PageSize \in BlocksOf(page, PageSize)
      BY BlocksOfFacts
<1>7. page < total_memory
      BY <1>1 DEF TotalOK
<1> QED BY <1>5, <1>6, <1>7

-----------------------------------------------------------------------------
LEMMA InitIInv == Init => IInv
<1> SUFFICES ASSUME Init PROVE IInv
    OBVIOUS
<1>1. /\ entries = given /\ Ascending(given) /\ KernelFits(given)
      /\ pc = "scan" /\ index = 1 /\ total_memory = 0 /\ pages = <<>> /\ map = <<>>
      BY DEF Init
<1>2. EntriesOK
      BY <1>1 DEF EntriesOK, Ascending, Area
<1>3. Len(given) \in Nat \ {0} /\ DOMAIN given = 1 .. Len(given)
      BY <1>2, Areas
<1>4. IndexOK /\ TotalOK
      BY <1>1, <1>3 DEF IndexOK, TotalOK, Scanned
<1>5. PagesGiven /\ PagesApart /\ PagesEnough
      BY <1>1 DEF PagesGiven, PagesApart, Apart, PagesEnough
<1>6. EntriesShort /\ MapOK /\ KernelReserved /\ PagesReserved /\ HangsForAreaAbove
      BY <1>1 DEF EntriesShort, MapOK, KernelReserved, PagesReserved, HangsForAreaAbove
<1> QED BY <1>1, <1>2, <1>4, <1>5, <1>6 DEF IInv

\* What an entry gives stays while the memory map and the total do.
LEMMA GivenKept ==
  ASSUME UNCHANGED <<given, total_memory>>
  PROVE  /\ Needed' = Needed /\ MapLength' = MapLength
         /\ \A k \in DOMAIN given : PagesFrom(given[k])' = PagesFrom(given[k])
BY DEF Needed, MapLength, PagesFrom, AreaPages, WholePages

(* The recursion's way down.                                               *)
LEMMA StepScanEntry ==
  ASSUME IInv, ScanEntry
  PROVE  IInv'
<1>1. /\ pc = "scan" /\ UNCHANGED <<entries, given, pages, map>>
      /\ total_memory' = TotalWith(entries[index])
      BY DEF ScanEntry
<1>2. \/ index < Len(given) /\ index' = index + 1 /\ pc' = "scan"
      \/ index >= Len(given) /\ index' = index /\ pc' = "add"
  <2>1. Len(entries) = Len(given) /\ Len(given) \in Nat /\ index \in Nat
        BY Areas DEF IInv, EntriesOK, IndexOK
  <2> QED BY <1>1, <2>1 DEF ScanEntry
<1>3. /\ EntriesOK /\ index \in Nat \ {0} /\ index <= Len(given)
      /\ entries = given /\ pages = <<>> /\ map = <<>>
      BY <1>1 DEF IInv, IndexOK, EntriesOK, PagesGiven, MapOK
<1>4. /\ Len(given) \in Nat \ {0} /\ DOMAIN given = 1 .. Len(given)
      /\ \A k \in DOMAIN given : EndOf(given[k]) \in Nat
      BY <1>3, Areas
<1>5. EntriesOK'
      BY <1>1, <1>2 DEF IInv, EntriesOK
<1>6. IndexOK'
      BY <1>1, <1>2, <1>3, <1>4 DEF IndexOK
<1>7. TotalOK'
  <2>1. total_memory \in Nat /\ EndOf(given[index]) \in Nat
    <3>1. total_memory \in Nat
          BY DEF IInv, TotalOK
    <3>2. index \in DOMAIN given
          BY <1>3, <1>4
    <3> QED BY <1>4, <3>1, <3>2
  <2>4. EndOf(given[index]) <= MemoryEnd /\ total_memory <= MemoryEnd
    <3>1. index \in DOMAIN given
          BY <1>3, <1>4
    <3>2. EndOf(given[index]) <= MemoryEnd
          BY <1>3, <3>1, Areas
    <3> QED BY <3>2 DEF IInv, TotalOK
  <2>2. /\ total_memory' \in Nat /\ total_memory <= total_memory'
        /\ total_memory' <= MemoryEnd
        /\ given[index].type = "available" => EndOf(given[index]) <= total_memory'
    <3>1. CASE given[index].type = "available"
      <4>1. total_memory' = Max({EndOf(given[index]), total_memory})
            BY <1>1, <1>3, <3>1 DEF TotalWith
      <4>2. PICK a \in Nat : a = EndOf(given[index])
            BY <2>1
      <4>3. PICK t \in Nat : t = total_memory
            BY <2>1
      <4>4. Max({a, t}) >= a /\ Max({a, t}) >= t /\ Max({a, t}) \in {a, t}
            BY GreatestOfTwo
      <4> QED BY <2>4, <4>1, <4>2, <4>3, <4>4
    <3>2. CASE given[index].type # "available"
          BY <1>1, <1>3, <2>4, <2>1, <3>2 DEF TotalWith
    <3> QED BY <3>1, <3>2
  <2>3. ASSUME NEW k \in DOMAIN given, Scanned(k)', given[k].type = "available"
        PROVE  EndOf(given[k]) <= total_memory'
    <3>1. k = index \/ k < index
          BY <1>2, <1>3, <1>4, <2>3 DEF Scanned
    <3>2. k < index => EndOf(given[k]) <= total_memory
          BY <1>1, <2>3 DEF IInv, TotalOK, Scanned
    <3> QED BY <1>4, <2>1, <2>2, <2>3, <3>1, <3>2
  <2> QED BY <1>1, <2>2, <2>3 DEF TotalOK, EndOf
<1>8. pages' = <<>> /\ pc' \in {"scan", "add"}
      BY <1>1, <1>2, <1>3
<1>9. PagesGiven'
      BY <1>8 DEF PagesGiven
<1>10. PagesApart'
      BY <1>8 DEF PagesApart, Apart
<1>11. PagesEnough'
      BY <1>8 DEF PagesEnough
<1>12. EntriesShort'
  <2>1. \A k \in DOMAIN given : ~ (Len(given) < k)
        BY <1>4
  <2>2. pc' = "add" => \A k \in DOMAIN given' : ~ (index' < k)
    <3>1. index \in Nat /\ Len(given) \in Nat /\ index <= Len(given)
          BY <1>3, <1>4
    <3>2. pc' = "add" => index' = Len(given)
          BY <1>2, <3>1
    <3> QED BY <1>1, <2>1, <3>2
  <2> QED BY <1>8, <2>2 DEF EntriesShort
<1>13. MapOK' /\ KernelReserved' /\ PagesReserved' /\ HangsForAreaAbove'
      BY <1>1, <1>2, <1>3 DEF MapOK, KernelReserved, PagesReserved, HangsForAreaAbove
<1> QED BY <1>5, <1>6, <1>7, <1>8, <1>9, <1>10, <1>11, <1>12, <1>13 DEF IInv

(* The way up: an entry gives its pages, all of them if it has fewer than  *)
(* are needed.                                                             *)
LEMMA StepAddEntry ==
  ASSUME IInv, AddEntry
  PROVE  IInv'
<1> DEFINE new == PagesFrom(given[index])
<1>1. /\ pc = "add" /\ UNCHANGED <<entries, given, total_memory, map>>
      /\ entries = given /\ pages' = pages \o new
      BY DEF AddEntry, IInv, EntriesOK
<1>2. EntriesOK /\ TotalOK
      BY DEF IInv
<1>3. index \in Nat \ {0} /\ index <= Len(given)
      BY <1>1 DEF IInv, IndexOK
<1>4. /\ Len(given) \in Nat \ {0} /\ DOMAIN given = 1 .. Len(given)
      /\ index \in DOMAIN given
      BY <1>3, <1>2, Areas
<1>5. /\ new \in Seq(Nat) /\ Len(new) <= Needed /\ Apart(new)
      /\ \A i \in DOMAIN new : GivenBy(new[i], given[index])
      BY <1>2, <1>4, PagesFromFacts
<1>6. Needed \in Nat /\ Len(new) \in Nat
      BY <1>2, <1>5, NeededNat DEF TotalOK
<1>7. \/ Len(new) = Needed /\ pc' = "clear" /\ index' = index
      \/ Len(new) < Needed /\ index > 1 /\ index' = index - 1 /\ pc' = "add"
      \/ Len(new) < Needed /\ index = 1 /\ index' = index /\ pc' = "out_of_memory"
  <2>1. CASE Len(new) = Needed
        BY <1>1, <1>6, <2>1 DEF AddEntry
  <2>2. CASE Len(new) < Needed /\ index > 1
        BY <1>1, <1>6, <2>2 DEF AddEntry
  <2>3. CASE Len(new) < Needed /\ index = 1
        BY <1>1, <1>6, <2>3 DEF AddEntry
  <2>4. Len(new) <= Needed
        BY <1>5
  <2>5. Len(new) = Needed \/ (Len(new) < Needed /\ index > 1)
          \/ (Len(new) < Needed /\ index = 1)
    <3> HIDE DEF new
    <3> QED BY <1>3, <1>6, <2>4
  <2> QED BY <2>1, <2>2, <2>3, <2>5
<1> HIDE DEF new
<1>8. pages \in Seq(Nat) /\ Len(pages) \in Nat
      BY DEF IInv, PagesGiven
<1>9. Apart(pages)
      BY DEF IInv, PagesApart
<1>10. /\ pages' \in Seq(Nat) /\ Len(pages') = Len(pages) + Len(new)
      /\ \A i \in DOMAIN pages' :
           \/ i \in DOMAIN pages /\ pages'[i] = pages[i]
           \/ i - Len(pages) \in DOMAIN new /\ pages'[i] = new[i - Len(pages)]
      BY <1>1, <1>5, <1>8, Joined
<1>11. \A i \in DOMAIN pages : \E k \in DOMAIN given :
        index < k /\ GivenBy(pages[i], given[k])
      BY <1>1 DEF IInv, PagesGiven
<1>12. EntriesOK'
      BY <1>1, <1>7 DEF IInv, EntriesOK
<1>13. IndexOK'
  <2>1. index' \in Nat \ {0} /\ index' <= Len(given) /\ pc' # "ready"
    <3> HIDE DEF IndexOK
    <3> QED BY <1>3, <1>4, <1>7
  <2> QED BY <1>1, <2>1 DEF IndexOK
<1>14. TotalOK'
      BY <1>1, <1>7 DEF IInv, TotalOK, Scanned, EndOf
<1>15. PagesGiven'
  <2>1. ASSUME NEW i \in DOMAIN pages'
        PROVE  \E k \in DOMAIN given :
                 (pc' = "add" => index' < k) /\ GivenBy(pages'[i], given[k])
    <3>1. CASE i \in DOMAIN pages /\ pages'[i] = pages[i]
      <4>1. PICK k \in DOMAIN given : index < k /\ GivenBy(pages[i], given[k])
            BY <1>11, <3>1
      <4>2. pc' = "add" => index' < k
            BY <1>3, <1>4, <1>7, <4>1
      <4> QED BY <3>1, <4>1, <4>2
    <3>2. CASE i - Len(pages) \in DOMAIN new /\ pages'[i] = new[i - Len(pages)]
      <4>1. GivenBy(pages'[i], given[index])
            BY <1>5, <3>2
      <4>2. pc' = "add" => index' < index
            BY <1>3, <1>7
      <4> QED BY <1>4, <4>1, <4>2
    <3> QED BY <1>10, <3>1, <3>2
  <2> QED BY <1>1, <1>7, <1>10, <2>1 DEF PagesGiven, GivenBy, PageIn, EndOf
<1>16. PagesApart'
  <2>1. ASSUME NEW i \in DOMAIN pages, NEW j \in DOMAIN new
        PROVE  pages[i] # new[j]
    <3>1. PICK k \in DOMAIN given : index < k /\ GivenBy(pages[i], given[k])
          BY <1>11
    <3>2. GivenBy(new[j], given[index])
          BY <1>5
    <3>3. /\ EndOf(given[index]) <= given[k].addr /\ EndOf(given[index]) \in Nat
          /\ given[k].addr \in Nat
          BY <1>2, <1>4, <3>1, Areas
    <3>4. pages[i] \in Nat /\ new[j] \in Nat
          BY <1>5, <1>8
    <3> QED BY <3>1, <3>2, <3>3, <3>4 DEF GivenBy, PageIn
  <2>2. Apart(pages \o new)
        BY <1>5, <1>8, <1>9, <2>1, JoinedApart
  <2> QED BY <1>1, <2>2 DEF PagesApart, Apart
<1>17. PagesEnough'
  <2>1. pc' \notin {"scan", "add", "out_of_memory"} => Needed <= Len(pages')
        BY <1>6, <1>7, <1>8, <1>10
  <2> QED BY <1>1, <2>1, GivenKept DEF PagesEnough
<1>18. EntriesShort'
  <2>1. \A k \in DOMAIN given : index < k => Short(k)
        BY <1>1 DEF IInv, EntriesShort
  <2>2. Len(new) < Needed => Short(index)
        BY DEF Short, new
  <2>3. \A k \in DOMAIN given : Short(k)' = Short(k)
        BY <1>1, GivenKept DEF Short
  <2>4. \A k \in DOMAIN given : k \in Nat \ {0}
        BY <1>4
  <2>5. pc' = "add" => \A k \in DOMAIN given : index' < k => Short(k)
        BY <1>3, <1>7, <2>1, <2>2, <2>4
  <2>6. pc' = "out_of_memory" => \A k \in DOMAIN given : Short(k)
        BY <1>3, <1>7, <2>1, <2>2, <2>4
  <2> QED BY <1>1, <2>3, <2>5, <2>6 DEF EntriesShort
<1>19. MapOK' /\ KernelReserved' /\ PagesReserved' /\ HangsForAreaAbove'
      BY <1>1, <1>7 DEF IInv, MapOK, KernelReserved, PagesReserved, HangsForAreaAbove
<1> QED BY <1>7, <1>12, <1>13, <1>14, <1>15, <1>16, <1>17, <1>18, <1>19 DEF IInv

(* clear_memory_map()                                                      *)
LEMMA StepClearMap ==
  ASSUME IInv, ClearMap
  PROVE  IInv'
<1>1. /\ pc = "clear" /\ pc' = "reserve_entries" /\ index' = 1
      /\ map' = [b \in 0 .. MapLength - 1 |-> FREE]
      /\ UNCHANGED <<entries, given, total_memory, pages>>
      BY DEF ClearMap
<1>2. EntriesOK' /\ IndexOK'
      BY <1>1 DEF IInv, EntriesOK, IndexOK
<1>3. TotalOK'
      BY <1>1 DEF IInv, TotalOK, Scanned, EndOf
<1>4. PagesGiven'
      BY <1>1 DEF IInv, PagesGiven, GivenBy, PageIn, EndOf
<1>5. PagesApart'
      BY <1>1 DEF IInv, PagesApart, Apart
<1>6. PagesEnough'
      BY <1>1, GivenKept DEF IInv, PagesEnough
<1>7. MapOK'
      BY <1>1, GivenKept DEF MapOK
<1>8. EntriesShort' /\ KernelReserved' /\ PagesReserved' /\ HangsForAreaAbove'
      BY <1>1 DEF EntriesShort, KernelReserved, PagesReserved, HangsForAreaAbove
<1> QED BY <1>1, <1>2, <1>3, <1>4, <1>5, <1>6, <1>7, <1>8 DEF IInv

\* A range that set_state() is out of bounds for ends past the map.
LEMMA EndsAbove ==
  ASSUME NEW addr \in Nat, NEW bytes \in Nat \ {0}, total_memory \in Nat,
         OutOfBounds(addr, bytes)
  PROVE  addr + bytes > MapLength * PageSize
<1>1. PICK b \in BlocksOf(addr, bytes) : b >= MapLength
      BY DEF OutOfBounds
<1>2. b \in Nat /\ b * PageSize < addr + bytes
      BY BlocksOfFacts
<1>3. MapLength \in Nat
      BY NeededNat
<1>4. MapLength * PageSize <= b * PageSize
      BY <1>1, <1>2, <1>3
<1>5. MapLength * PageSize \in Nat /\ b * PageSize \in Nat
      BY <1>2, <1>3
<1> QED BY <1>2, <1>4, <1>5

(* A turn of the loop over the memory map, which goes on with the second   *)
(* entry whatever it was at.                                               *)
LEMMA StepReserveEntry ==
  ASSUME IInv, ReserveEntry
  PROVE  IInv'
<1>1. /\ pc = "reserve_entries" /\ index' = index + 1 /\ entries' = Advanced
      /\ UNCHANGED <<given, total_memory, pages>>
      /\ IF entries[1].type # "available"
         THEN Reserve(entries[1].addr, entries[1].len, "reserve_entries")
         ELSE UNCHANGED <<pc, map>>
      BY DEF ReserveEntry
<1>2. EntriesOK /\ TotalOK
      BY DEF IInv
<1>3. Len(given) \in Nat \ {0} /\ DOMAIN given = 1 .. Len(given)
      BY <1>2, Areas
<1>4. entries \in Seq(Area) /\ Len(entries) = Len(given)
      BY <1>2 DEF EntriesOK
<1>5. entries[1] \in Area
      BY <1>3, <1>4
<1>6. PICK k \in {1, 2} \cap DOMAIN given : entries[1] = given[k]
  <2>1. entries[1] = given[1] \/ (Len(given) > 1 /\ entries[1] = given[2])
        BY <1>2 DEF EntriesOK
  <2>2. CASE entries[1] = given[1]
        BY <1>3, <2>2
  <2>3. CASE Len(given) > 1 /\ entries[1] = given[2]
    <3>1. 2 \in DOMAIN given
          BY <1>3, <2>3
    <3> QED BY <2>3, <3>1
  <2> QED BY <2>1, <2>2, <2>3
<1>7. MapMade
      BY <1>1 DEF IInv, MapOK, MapMade
<1>8. \/ pc' = "hung" /\ given[k].type = "reserved" /\ MapMade'
         /\ OutOfBounds(given[k].addr, given[k].len)
      \/ pc' = "reserve_entries" /\ MapMade'
  <2>1. CASE entries[1].type # "available"
    <3>1. /\ given[k].type = "reserved" /\ given[k].addr \in Nat /\ given[k].len \in Nat
          BY <1>5, <1>6, <2>1 DEF Area
    <3>2. Reserve(given[k].addr, given[k].len, "reserve_entries")
          BY <1>1, <1>6, <2>1
    <3>3. UNCHANGED map => MapMade'
          BY <1>1, <1>7, GivenKept DEF MapMade
    <3> QED BY <1>1, <1>7, <3>1, <3>2, <3>3, ReserveFacts
  <2>2. CASE entries[1].type = "available"
        BY <1>1, <1>7, <2>2, GivenKept DEF MapMade
  <2> QED BY <2>1, <2>2
<1>9. pc' \in {"hung", "reserve_entries"}
      BY <1>8
<1>10. EntriesOK'
  <2>1. /\ entries' \in Seq(Area) /\ Len(entries') = Len(given)
        /\ Len(given) > 1 => entries'[1] = entries[2] /\ entries'[2] = entries[2]
        /\ Len(given) = 1 => entries' = entries
    <3>1. CASE Len(given) = 1
          BY <1>1, <1>4, <3>1 DEF Advanced
    <3>2. CASE Len(given) # 1
      <4>1. entries' = [entries EXCEPT ![1] = entries[2]] /\ Len(given) > 1
            BY <1>1, <1>3, <1>4, <3>2 DEF Advanced
      <4>2. entries[2] \in Area
            BY <1>4, <4>1
      <4> QED BY <1>3, <1>4, <4>1, <4>2
    <3> QED BY <3>1, <3>2
  <2>2. /\ Len(given) > 1 => entries[2] = given[2]
        /\ entries[1] = given[1] \/ (Len(given) > 1 /\ entries[1] = given[2])
        BY <1>2 DEF EntriesOK
  <2>3. entries'[1] = given[1] \/ (Len(given) > 1 /\ entries'[1] = given[2])
    <3>1. CASE Len(given) = 1
          BY <2>1, <2>2, <3>1
    <3>2. CASE Len(given) > 1
          BY <2>1, <2>2, <3>2
    <3> QED BY <1>3, <3>1, <3>2
  <2>4. Ascending(given)' /\ KernelFits(given)'
        BY <1>1, <1>2 DEF EntriesOK
  <2>5. Len(given) > 1 => entries'[2] = given[2]
        BY <2>1, <2>2
  <2> QED BY <1>1, <1>9, <2>1, <2>3, <2>4, <2>5 DEF EntriesOK
<1>11. IndexOK'
  <2>1. index \in Nat \ {0}
        BY DEF IInv, IndexOK
  <2>2. index' \in Nat \ {0}
        BY <1>1, <2>1
  <2> QED BY <1>9, <2>2 DEF IndexOK
<1>12. TotalOK'
      BY <1>1, <1>9 DEF IInv, TotalOK, Scanned, EndOf
<1>13. PagesGiven'
      BY <1>1, <1>9 DEF IInv, PagesGiven, GivenBy, PageIn, EndOf
<1>14. PagesApart'
      BY <1>1 DEF IInv, PagesApart, Apart
<1>15. PagesEnough'
      BY <1>1, <1>9, GivenKept DEF IInv, PagesEnough
<1>16. MapOK'
      BY <1>8 DEF MapOK, MapMade
<1>17. EntriesShort' /\ KernelReserved' /\ PagesReserved'
      BY <1>9 DEF EntriesShort, KernelReserved, PagesReserved
<1>18. HangsForAreaAbove'
  <2>1. ASSUME OutOfBounds(given[k].addr, given[k].len)
        PROVE  EndOf(given[k]) > MapLength * PageSize
    <3>1. /\ given[k].addr \in Nat /\ given[k].len \in Nat \ {0}
          /\ EndOf(given[k]) = given[k].addr + given[k].len
          BY <1>2, Areas
    <3>2. total_memory \in Nat
          BY <1>2 DEF TotalOK
    <3> QED BY <2>1, <3>1, <3>2, EndsAbove
  <2>2. MapLength' = MapLength
        BY <1>1, GivenKept
  <2> QED BY <1>1, <1>8, <2>1, <2>2 DEF HangsForAreaAbove, EndOf
<1> QED BY <1>9, <1>10, <1>11, <1>12, <1>13, <1>14, <1>15, <1>16, <1>17, <1>18 DEF IInv

\* What the last loops and the end leave alone.
LEMMA RestKept ==
  ASSUME IInv, UNCHANGED <<entries, given, total_memory, pages>>,
         pc \in {"reserve_entries", "reserve_map", "ready"},
         pc' \in {"reserve_map", "ready"}
  PROVE  EntriesOK' /\ TotalOK' /\ PagesGiven' /\ PagesApart' /\ PagesEnough'
         /\ EntriesShort' /\ HangsForAreaAbove'
<1>1. EntriesOK'
      BY DEF IInv, EntriesOK
<1>2. TotalOK'
      BY DEF IInv, TotalOK, Scanned, EndOf
<1>3. PagesGiven'
      BY DEF IInv, PagesGiven, GivenBy, PageIn, EndOf
<1>4. PagesApart'
      BY DEF IInv, PagesApart, Apart
<1>5. PagesEnough'
      BY GivenKept DEF IInv, PagesEnough
<1>6. EntriesShort' /\ HangsForAreaAbove'
      BY DEF EntriesShort, HangsForAreaAbove
<1> QED BY <1>1, <1>2, <1>3, <1>4, <1>5, <1>6

(* The kernel's blocks are reserved: the map covers them.                  *)
LEMMA StepReserveKernel ==
  ASSUME IInv, ReserveKernel
  PROVE  IInv'
<1>1. /\ pc = "reserve_entries" /\ index' = 1
      /\ UNCHANGED <<entries, given, total_memory, pages>>
      /\ Reserve(KernelStart, KernelEnd - KernelStart, "reserve_map")
      BY DEF ReserveKernel
<1>2. MapMade
      BY <1>1 DEF IInv, MapOK, MapMade
<1>3. PICK bytes \in Nat : bytes = KernelEnd - KernelStart
      OBVIOUS
<1>4. /\ \A b \in BlocksOf(KernelStart, bytes) : b \in 0 .. MapLength - 1
      /\ \A b \in KernelStart \div PageSize .. (KernelEnd - 1) \div PageSize :
           b \in BlocksOf(KernelStart, bytes)
      BY <1>1, <1>3, KernelBlocks DEF IInv
<1>5. MapLength \in Nat
      BY NeededNat DEF IInv, TotalOK
<1>6. ~ OutOfBounds(KernelStart, bytes)
  <2>1. ASSUME NEW b \in BlocksOf(KernelStart, bytes), b >= MapLength
        PROVE  FALSE
    <3>1. b \in 0 .. MapLength - 1
          BY <1>4
    <3> QED BY <1>5, <2>1, <3>1
  <2> QED BY <2>1 DEF OutOfBounds
<1>7. /\ pc' = "reserve_map" /\ MapMade'
      /\ \A b \in BlocksOf(KernelStart, bytes) :
           b \in 0 .. MapLength - 1 => map'[b] = RESERVED
      BY <1>1, <1>2, <1>3, <1>6, ReserveFacts
<1>8. MapOK'
      BY <1>7 DEF MapOK, MapMade
<1>9. KernelReserved'
      BY <1>4, <1>7 DEF KernelReserved
<1>10. PagesReserved'
  <2>1. \A i \in DOMAIN pages : ~ (i < 1)
        BY DEF IInv, PagesGiven
  <2> QED BY <1>1, <2>1 DEF PagesReserved
<1>11. IndexOK'
      BY <1>1, <1>7 DEF IndexOK
<1> QED BY <1>1, <1>7, <1>8, <1>9, <1>10, <1>11, RestKept DEF IInv

(* A page of the map is reserved, and what was reserved stays so.          *)
LEMMA StepReserveMapPage ==
  ASSUME IInv, ReserveMapPage
  PROVE  IInv'
<1>1. /\ pc = "reserve_map" /\ index <= Len(pages) /\ index' = index + 1
      /\ UNCHANGED <<entries, given, total_memory, pages>>
      /\ IF pages[index] < total_memory
         THEN Reserve(pages[index], PageSize, "reserve_map")
         ELSE UNCHANGED <<pc, map>>
      BY DEF ReserveMapPage
<1>2. EntriesOK /\ TotalOK
      BY DEF IInv
<1>3. MapMade
      BY <1>1 DEF IInv, MapOK, MapMade
<1>4. /\ pages \in Seq(Nat)
      /\ \A i \in DOMAIN pages : \E k \in DOMAIN given : GivenBy(pages[i], given[k])
      BY DEF IInv, PagesGiven
<1>5. index \in Nat \ {0}
      BY DEF IInv, IndexOK
<1>6. index \in DOMAIN pages
      BY <1>1, <1>4, <1>5
<1>7. ASSUME NEW i \in DOMAIN pages
      PROVE  /\ pages[i] \in Nat /\ pages[i] < total_memory
             /\ pages[i] \div PageSize \in BlocksOf(pages[i], PageSize)
             /\ \A b \in BlocksOf(pages[i], PageSize) : b \in 0 .. MapLength - 1
  <2>1. PICK k \in DOMAIN given : GivenBy(pages[i], given[k])
        BY <1>4
  <2>2. PICK page \in Nat : page = pages[i]
        BY <1>4
  <2> QED BY <1>1, <1>2, <2>1, <2>2, PageBlocks
<1>8. PICK page \in Nat : page = pages[index]
      BY <1>6, <1>7
<1>9. /\ Reserve(page, PageSize, "reserve_map")
      /\ page \div PageSize \in BlocksOf(page, PageSize)
      /\ \A b \in BlocksOf(page, PageSize) : b \in 0 .. MapLength - 1
      BY <1>1, <1>6, <1>7, <1>8
<1>10. MapLength \in Nat
      BY NeededNat DEF IInv, TotalOK
<1>11. ~ OutOfBounds(page, PageSize)
  <2>1. ASSUME NEW b \in BlocksOf(page, PageSize), b >= MapLength
        PROVE  FALSE
    <3>1. b \in 0 .. MapLength - 1
          BY <1>9
    <3> QED BY <1>10, <2>1, <3>1
  <2> QED BY <2>1 DEF OutOfBounds
<1>12. /\ pc' = "reserve_map" /\ MapMade'
       /\ \A b \in 0 .. MapLength - 1 : map[b] = RESERVED => map'[b] = RESERVED
       /\ \A b \in BlocksOf(page, PageSize) :
            b \in 0 .. MapLength - 1 => map'[b] = RESERVED
       BY <1>1, <1>3, <1>9, <1>11, ReserveFacts
<1>13. MapOK'
       BY <1>12 DEF MapOK, MapMade
<1>14. KernelReserved'
  <2>1. ASSUME NEW b \in KernelStart \div PageSize .. (KernelEnd - 1) \div PageSize
        PROVE  map'[b] = RESERVED
    <3>1. b \in 0 .. MapLength - 1
          BY <1>1, <1>2, KernelBlocks
    <3>2. map[b] = RESERVED
          BY <1>1 DEF IInv, KernelReserved
    <3> QED BY <1>12, <3>1, <3>2
  <2> QED BY <2>1 DEF KernelReserved
<1>15. PagesReserved'
  <2>1. ASSUME NEW i \in DOMAIN pages, i < index + 1
        PROVE  map'[pages[i] \div PageSize] = RESERVED
    <3>1. pages[i] \div PageSize \in 0 .. MapLength - 1
          BY <1>7
    <3>2. CASE i < index
      <4>1. map[pages[i] \div PageSize] = RESERVED
            BY <1>1, <3>2 DEF IInv, PagesReserved
      <4> QED BY <1>12, <3>1, <4>1
    <3>3. CASE i = index
          BY <1>8, <1>9, <1>12, <3>3
    <3>4. i \in Int
          BY <1>4
    <3> QED BY <1>5, <2>1, <3>2, <3>3, <3>4
  <2> QED BY <1>1, <2>1 DEF PagesReserved
<1>16. IndexOK'
  <2>1. index' \in Nat \ {0}
        BY <1>1, <1>5
  <2> QED BY <1>12, <2>1 DEF IndexOK
<1> QED BY <1>1, <1>12, <1>13, <1>14, <1>15, <1>16, RestKept DEF IInv

(* init() returns.                                                         *)
LEMMA StepFinish ==
  ASSUME IInv, Finish
  PROVE  IInv'
<1>1. /\ pc = "reserve_map" /\ pc' = "ready" /\ index > Len(pages)
      /\ UNCHANGED <<entries, given, index, total_memory, pages, map>>
      BY DEF Finish
<1>2. IndexOK'
      BY <1>1 DEF IInv, IndexOK
<1>3. MapOK'
      BY <1>1, GivenKept DEF IInv, MapOK
<1>4. KernelReserved' /\ PagesReserved'
      BY <1>1 DEF IInv, KernelReserved, PagesReserved
<1> QED BY <1>1, <1>2, <1>3, <1>4, RestKept DEF IInv

LEMMA StepStutter ==
  ASSUME IInv, UNCHANGED vars
  PROVE  IInv'
<1>1. UNCHANGED <<entries, given, pc, index, total_memory, pages, map>>
      BY DEF vars
<1>2. EntriesOK' /\ IndexOK'
      BY <1>1 DEF IInv, EntriesOK, IndexOK
<1>3. TotalOK'
      BY <1>1 DEF IInv, TotalOK, Scanned, EndOf
<1>4. PagesGiven'
      BY <1>1 DEF IInv, PagesGiven, GivenBy, PageIn, EndOf
<1>5. PagesApart'
      BY <1>1 DEF IInv, PagesApart, Apart
<1>6. PagesEnough' /\ MapOK'
      BY <1>1, GivenKept DEF IInv, PagesEnough, MapOK
<1>7. EntriesShort'
  <2>1. \A k \in DOMAIN given : Short(k)' = Short(k)
        BY <1>1, GivenKept DEF Short
  <2> QED BY <1>1, <2>1 DEF IInv, EntriesShort
<1>8. KernelReserved' /\ PagesReserved'
      BY <1>1 DEF IInv, KernelReserved, PagesReserved
<1>9. HangsForAreaAbove'
      BY <1>1, GivenKept DEF IInv, HangsForAreaAbove, EndOf
<1> QED BY <1>1, <1>2, <1>3, <1>4, <1>5, <1>6, <1>7, <1>8, <1>9 DEF IInv

LEMMA NextIInv == IInv /\ [Next]_vars => IInv'
<1> SUFFICES ASSUME IInv, [Next]_vars PROVE IInv'
    OBVIOUS
<1>1. CASE ScanEntry
      BY <1>1, StepScanEntry
<1>2. CASE AddEntry
      BY <1>2, StepAddEntry
<1>3. CASE ClearMap
      BY <1>3, StepClearMap
<1>4. CASE ReserveEntry
      BY <1>4, StepReserveEntry
<1>5. CASE ReserveKernel
      BY <1>5, StepReserveKernel
<1>6. CASE ReserveMapPage
      BY <1>6, StepReserveMapPage
<1>7. CASE Finish
      BY <1>7, StepFinish
<1>8. CASE Over \/ UNCHANGED vars
      BY <1>8, StepStutter DEF Over
<1> QED BY <1>1, <1>2, <1>3, <1>4, <1>5, <1>6, <1>7, <1>8 DEF Next

-----------------------------------------------------------------------------
(* Whatever the memory map: the pages found so far are usable and apart,   *)
(* and each loop has reserved what it is past.                             *)
THEOREM SpecIInv == Spec => []IInv
<1> QED BY InitIInv, NextIInv, PTL DEF Spec

(* init()'s variables stay in their sets.                                  *)
THEOREM SpecTypeOK == Spec => []TypeOK
<1>1. ASSUME IInv PROVE TypeOK
  <2>1. pages \in Seq(0 .. MemoryEnd - PageSize)
    <3>1. pages \in Seq(Nat)
          BY <1>1 DEF IInv, PagesGiven
    <3>2. ASSUME NEW i \in DOMAIN pages
          PROVE  pages[i] \in 0 .. MemoryEnd - PageSize
      <4>1. PICK k \in DOMAIN given : GivenBy(pages[i], given[k])
            BY <1>1 DEF IInv, PagesGiven
      <4>2. EndOf(given[k]) \in Nat /\ EndOf(given[k]) <= MemoryEnd
            BY <1>1, Areas DEF IInv
      <4>3. pages[i] \in Nat /\ pages[i] + PageSize <= EndOf(given[k])
            BY <3>1, <4>1 DEF GivenBy, PageIn
      <4> QED BY <4>2, <4>3
    <3> QED BY <3>1, <3>2
  <2>2. Len(entries) = Len(given) /\ index \in Nat \ {0}
        BY <1>1 DEF IInv, EntriesOK, IndexOK
  <2>3. total_memory \in 0 .. MemoryEnd
        BY <1>1 DEF IInv, TotalOK
  <2>4. map # <<>> => map \in [0 .. MapLength - 1 -> {FREE, RESERVED}]
        BY <1>1 DEF IInv, MapOK
  <2> QED BY <1>1, <2>1, <2>2, <2>3, <2>4 DEF IInv, TypeOK
<1> QED BY <1>1, SpecIInv, PTL

(* PMem::map lies in whole available pages outside the kernel, each once.  *)
THEOREM SpecMapPagesUsable == Spec => []MapPagesUsable
<1>1. ASSUME IInv PROVE MapPagesUsable
  <2>1. \A i \in DOMAIN pages : \E k \in DOMAIN given : GivenBy(pages[i], given[k])
        BY <1>1 DEF IInv, PagesGiven
  <2>2. \A i, j \in DOMAIN pages : pages[i] = pages[j] => i = j
        BY <1>1 DEF IInv, PagesApart, Apart
  <2> QED BY <2>1, <2>2 DEF MapPagesUsable, GivenBy
<1> QED BY <1>1, SpecIInv, PTL

(* The pages found hold all of the map.                                    *)
THEOREM SpecMapFitsItsPages == Spec => []MapFitsItsPages
<1>1. ASSUME IInv, map # <<>> PROVE MapLength <= Len(pages) * PageSize
  <2>1. Needed <= Len(pages)
        BY <1>1 DEF IInv, MapOK, PagesEnough
  <2>2. /\ Needed \in Nat /\ total_memory <= Needed * (PageSize * PageSize)
        /\ MapLength \in Nat /\ MapLength * PageSize <= total_memory
        /\ total_memory \in Nat
        BY <1>1, NeededNat DEF IInv, TotalOK
  <2>3. Len(pages) \in Nat
        BY <1>1 DEF IInv, PagesGiven
  <2>4. PICK n \in Nat : n = Needed
        BY <2>2
  <2>5. PICK m \in Nat : m = MapLength
        BY <2>2
  <2>6. PICK l \in Nat : l = Len(pages)
        BY <2>3
  <2>7. m * PageSize <= (n * PageSize) * PageSize
    <3>1. n * (PageSize * PageSize) = (n * PageSize) * PageSize
          OBVIOUS
    <3>2. m * PageSize \in Nat /\ (n * PageSize) * PageSize \in Nat
          OBVIOUS
    <3> QED BY <2>2, <2>4, <2>5, <3>1, <3>2
  <2>8. m <= n * PageSize
    <3>1. PICK k \in Nat : k = n * PageSize
          OBVIOUS
    <3>2. m * PageSize < k * PageSize + PageSize
      <4>1. m * PageSize \in Nat /\ k * PageSize \in Nat
            OBVIOUS
      <4> QED BY <2>7, <3>1, <4>1
    <3> QED BY <3>1, <3>2, Multiples
  <2>9. n * PageSize <= l * PageSize
        BY <2>1, <2>4, <2>6
  <2>10. n * PageSize \in Nat /\ l * PageSize \in Nat
        OBVIOUS
  <2> QED BY <2>5, <2>6, <2>8, <2>9, <2>10
<1>2. IInv => MapFitsItsPages
      BY <1>1 DEF MapFitsItsPages
<1> QED BY <1>2, SpecIInv, PTL

(* Once init() returns, no block of the kernel or of the map is free.      *)
THEOREM SpecOwnMemoryReserved == Spec => []OwnMemoryReserved
<1>1. ASSUME IInv, pc = "ready"
      PROVE  /\ \A b \in KernelStart \div PageSize .. (KernelEnd - 1) \div PageSize :
                  map[b] = RESERVED
             /\ \A i \in DOMAIN pages : map[pages[i] \div PageSize] = RESERVED
  <2>1. \A i \in DOMAIN pages : i < index
    <3>1. index \in Nat \ {0} /\ index > Len(pages) /\ pages \in Seq(Nat)
          BY <1>1 DEF IInv, IndexOK, PagesGiven
    <3> QED BY <3>1
  <2>2. \A i \in DOMAIN pages : map[pages[i] \div PageSize] = RESERVED
        BY <1>1, <2>1 DEF IInv, PagesReserved
  <2> QED BY <1>1, <2>2 DEF IInv, KernelReserved
<1>2. IInv => OwnMemoryReserved
      BY <1>1 DEF OwnMemoryReserved
<1> QED BY <1>2, SpecIInv, PTL

(* set_state() stops the boot only for a reserved area that ends past the  *)
(* map, the first or the second of the memory map.                         *)
THEOREM SpecHangsForAreaAbove == Spec => []HangsForAreaAbove
<1>1. IInv => HangsForAreaAbove
      BY DEF IInv
<1> QED BY <1>1, SpecIInv, PTL

-----------------------------------------------------------------------------
(* Fewer pages than were asked for are all that there are in the area.     *)
Has(s, x) == \E i \in DOMAIN s : s[i] = x

HasAll(s, first, last) ==
  \A x \in Nat : x % PageSize = 0 /\ PageIn(x, first, last) => Has(s, x)

LEMMA WholePagesAll ==
  ASSUME NEW first \in Nat, NEW last \in Nat, NEW n \in Nat,
         Len(WholePages(first, last, n)) < n
  PROVE  HasAll(WholePages(first, last, n), first, last)
<1> SUFFICES ASSUME NEW x \in Nat, x % PageSize = 0, PageIn(x, first, last)
             PROVE  Has(WholePages(first, last, n), x)
    BY DEF HasAll
<1>13. PICK z \in Nat : x = z * PageSize
  <2>1. x \div PageSize \in Nat /\ x = (x \div PageSize) * PageSize
        OBVIOUS
  <2> QED BY <2>1
<1>14. first <= z * PageSize /\ z * PageSize + PageSize <= last
      BY <1>13 DEF PageIn
<1>1. PICK q \in Nat : /\ ceilg(first, PageSize) = q * PageSize
                       /\ q * PageSize < first + PageSize
      BY CeilPage
<1>2. PICK r \in Nat : /\ floorg(last, PageSize) = r * PageSize
                       /\ last < r * PageSize + PageSize
      BY FloorPage
<1>3. q <= z
  <2>1. q * PageSize < z * PageSize + PageSize
    <3>1. q * PageSize \in Nat /\ z * PageSize \in Nat
          OBVIOUS
    <3> QED BY <1>1, <1>14, <3>1
  <2> QED BY <2>1, Multiples
<1>4. z + 1 <= r
  <2>1. (z + 1) * PageSize = z * PageSize + PageSize
        OBVIOUS
  <2>2. (z + 1) * PageSize < r * PageSize + PageSize
    <3>1. r * PageSize \in Nat /\ z * PageSize \in Nat
          OBVIOUS
    <3> QED BY <1>2, <1>14, <2>1, <3>1
  <2> QED BY <2>2, Multiples
<1>5. q * PageSize < r * PageSize
  <2>1. (q + 1) * PageSize <= r * PageSize
        BY <1>3, <1>4
  <2>2. (q + 1) * PageSize = q * PageSize + PageSize
        OBVIOUS
  <2>3. q * PageSize \in Nat /\ r * PageSize \in Nat
        OBVIOUS
  <2> QED BY <2>1, <2>2, <2>3
<1>6. PICK k \in Nat : k = r - q /\ (r * PageSize - q * PageSize) \div PageSize = k
  <2>1. r * PageSize - q * PageSize = (r - q) * PageSize
        OBVIOUS
  <2>2. r - q \in Nat /\ ((r - q) * PageSize) \div PageSize = r - q
        BY <1>3, <1>4
  <2> QED BY <2>1, <2>2
<1>7. Min({n, k}) <= n /\ Min({n, k}) <= k /\ Min({n, k}) \in {n, k}
  <2>1. n \in Int /\ k \in Int
        OBVIOUS
  <2> QED BY ONLY <2>1, LeastOfTwo
<1>8. PICK m \in Nat : m = Min({n, k})
      BY <1>7
<1>9. WholePages(first, last, n) = [i \in 1 .. m |-> q * PageSize + (i - 1) * PageSize]
  <2>1. WholePages(first, last, n)
          = [i \in 1 .. Min({n, (r * PageSize - q * PageSize) \div PageSize}) |->
               q * PageSize + (i - 1) * PageSize]
        BY <1>1, <1>2, <1>5 DEF WholePages
  <2> QED BY <1>6, <1>8, <2>1
<1>10. m = r - q
  <2>1. WholePages(first, last, n) \in Seq(Nat)
        BY WholePagesInArea DEF InArea
  <2>2. Len(WholePages(first, last, n)) = m
        BY <1>9, <2>1
  <2> QED BY <1>6, <1>7, <1>8, <2>2
<1>11. z - q + 1 \in 1 .. m
      BY <1>3, <1>4, <1>10
<1>12. q * PageSize + ((z - q + 1) - 1) * PageSize = z * PageSize
      OBVIOUS
<1> QED BY <1>9, <1>11, <1>12, <1>13 DEF Has

LEMMA AreaPagesAll ==
  ASSUME NEW first \in Nat, NEW last \in Nat, NEW n \in Nat,
         Len(AreaPages(first, last, n)) < n,
         NEW x \in Nat, x % PageSize = 0, PageIn(x, first, last),
         x + PageSize <= KernelStart \/ KernelEnd <= x
  PROVE  Has(AreaPages(first, last, n), x)
<1>1. CASE KernelStart >= first /\ KernelStart < last
  <2> DEFINE s == WholePages(first, KernelStart, n)
  <2>1. s \in Seq(Nat) /\ Len(s) \in Nat /\ Len(s) <= n
    <3>1. InArea(s, first, KernelStart) /\ Len(s) <= n
          BY WholePagesInArea
    <3> QED BY <3>1 DEF InArea
  <2>2. PICK m \in Nat : m = n - Len(s)
    <3>1. PICK l \in Nat : l = Len(s)
          BY <2>1
    <3>2. n - l \in Nat
          BY <2>1, <3>1
    <3> QED BY <3>1, <3>2
  <2> DEFINE t == WholePages(KernelEnd, last, m)
  <2>3. AreaPages(first, last, n) = s \o t
        BY <1>1, <2>2 DEF AreaPages
  <2>4. t \in Seq(Nat) /\ Len(t) \in Nat
    <3>1. InArea(t, KernelEnd, last)
          BY WholePagesInArea
    <3> QED BY <3>1 DEF InArea
  <2>5. Len(s) < n /\ Len(t) < m
    <3> HIDE DEF s, t
    <3>1. Len(s \o t) = Len(s) + Len(t)
          BY <2>1, <2>4, ConcatProperties
    <3>2. Len(s) + Len(t) < n
          BY <2>3, <3>1
    <3> QED BY <2>1, <2>2, <2>4, <3>2
  <2>6. HasAll(s, first, KernelStart)
        BY <2>5, WholePagesAll
  <2>7. HasAll(t, KernelEnd, last)
        BY <2>5, WholePagesAll
  <2> HIDE DEF s, t
  <2>8. Has(s, x) \/ Has(t, x)
        BY <2>6, <2>7 DEF HasAll, PageIn
  <2>9. /\ \A i \in DOMAIN s : i \in DOMAIN (s \o t) /\ (s \o t)[i] = s[i]
        /\ \A i \in DOMAIN t : /\ i + Len(s) \in DOMAIN (s \o t)
                               /\ (s \o t)[i + Len(s)] = t[i]
    <3>1. /\ s \o t \in Seq(Nat) /\ Len(s \o t) = Len(s) + Len(t)
          /\ \A i \in 1 .. Len(s) + Len(t) :
               (s \o t)[i] = IF i <= Len(s) THEN s[i] ELSE t[i - Len(s)]
          BY <2>1, <2>4, ConcatProperties
    <3>2. DOMAIN (s \o t) = 1 .. Len(s) + Len(t)
          BY <3>1
    <3>3. DOMAIN s = 1 .. Len(s) /\ DOMAIN t = 1 .. Len(t)
          BY <2>1, <2>4
    <3>4. ASSUME NEW i \in 1 .. Len(s)
          PROVE  i \in DOMAIN (s \o t) /\ (s \o t)[i] = s[i]
          BY <2>1, <2>4, <3>1, <3>2
    <3>5. ASSUME NEW i \in 1 .. Len(t)
          PROVE  i + Len(s) \in DOMAIN (s \o t) /\ (s \o t)[i + Len(s)] = t[i]
      <4>1. /\ i + Len(s) \in 1 .. Len(s) + Len(t) /\ ~ (i + Len(s) <= Len(s))
            /\ (i + Len(s)) - Len(s) = i
            BY <2>1, <2>4
      <4> QED BY <3>1, <3>2, <4>1
    <3> QED BY <3>3, <3>4, <3>5
  <2> QED BY <2>3, <2>8, <2>9 DEF Has
<1>2. CASE ~ (KernelStart >= first /\ KernelStart < last)
  <2>1. AreaPages(first, last, n) = WholePages(first, last, n)
        BY <1>2 DEF AreaPages
  <2>2. Len(WholePages(first, last, n)) < n
        BY <2>1
  <2>3. HasAll(WholePages(first, last, n), first, last)
        BY <2>2, WholePagesAll
  <2> QED BY <2>1, <2>3 DEF HasAll
<1> QED BY <1>1, <1>2

\* An entry that is short of the pages needed has given every usable page
\* but, perhaps, that of its last byte.
LEMMA ShortHasAll ==
  ASSUME IInv, NEW k \in DOMAIN given, Short(k), given[k].type = "available"
  PROVE  \E r \in Nat : \A z \in UsablePages(given[k]) :
           z = r \/ Has(PagesFrom(given[k]), z * PageSize)
<1> DEFINE e == given[k]
<1>1. /\ e.addr \in Nat /\ e.len \in Nat \ {0} /\ EndOf(e) \in Nat
      /\ EndOf(e) = e.addr + e.len /\ EndOf(e) - 1 \in Nat
  <2>1. /\ e.addr \in Nat /\ e.len \in Nat \ {0} /\ EndOf(e) \in Nat
        /\ EndOf(e) = e.addr + e.len
        BY Areas DEF IInv
  <2> QED BY <2>1
<1>2. Needed \in Nat /\ MapLength \in Nat
      BY NeededNat DEF IInv, TotalOK
<1>3. PICK q \in Nat : /\ ceilg(e.addr, PageSize) = q * PageSize
                       /\ q * PageSize < e.addr + PageSize
      BY <1>1, CeilPage
<1>4. PICK r \in Nat : /\ floorg(EndOf(e) - 1, PageSize) = r * PageSize
                       /\ EndOf(e) - 1 < r * PageSize + PageSize
      BY <1>1, FloorPage
<1>5. PICK first \in Nat : first = q * PageSize
      OBVIOUS
<1>6. PICK last \in Nat : last = r * PageSize
      OBVIOUS
<1>7. PagesFrom(e) = AreaPages(first, last, Needed)
      BY <1>3, <1>4, <1>5, <1>6 DEF PagesFrom
<1>8. Len(AreaPages(first, last, Needed)) < Needed
      BY <1>7 DEF Short
<1>9. ASSUME NEW z \in UsablePages(e), z # r
      PROVE  Has(PagesFrom(e), z * PageSize)
  <2>1. z \in 0 .. MapLength - 1 /\ PageIn(z * PageSize, e.addr, EndOf(e))
        BY DEF UsablePages
  <2>2. (z + 1) * PageSize <= KernelStart \/ KernelEnd <= z * PageSize
        BY DEF UsablePages
  <2>3. /\ z \in Nat /\ z * PageSize \in Nat
        /\ (z + 1) * PageSize = z * PageSize + PageSize
        BY <1>2, <2>1
  <2>4. e.addr <= z * PageSize /\ z * PageSize + PageSize <= EndOf(e)
        BY <2>1 DEF PageIn
  <2>5. first <= z * PageSize
    <3>1. q * PageSize < z * PageSize + PageSize
      <4>1. q * PageSize \in Nat
            OBVIOUS
      <4> QED BY <1>1, <1>3, <2>3, <2>4, <4>1
    <3>2. q <= z
          BY <2>3, <3>1, Multiples
    <3>3. q * PageSize <= z * PageSize
          BY <2>3, <3>2
    <3> QED BY <1>5, <3>3
  <2>6. z * PageSize + PageSize <= last
    <3>1. z * PageSize < r * PageSize + PageSize
      <4>1. r * PageSize \in Nat
            OBVIOUS
      <4> QED BY <1>1, <1>4, <2>3, <2>4, <4>1
    <3>2. z <= r
          BY <2>3, <3>1, Multiples
    <3>3. z + 1 <= r
          BY <1>9, <2>3, <3>2
    <3>4. (z + 1) * PageSize <= r * PageSize
          BY <2>3, <3>3
    <3> QED BY <1>6, <2>3, <3>4
  <2>7. PICK x \in Nat : x = z * PageSize /\ x % PageSize = 0
    <3>1. (z * PageSize) % PageSize = 0
          BY <2>3
    <3> QED BY <2>3, <3>1
  <2>8. x + PageSize <= KernelStart \/ KernelEnd <= x
        BY <2>2, <2>3, <2>7
  <2>9. PageIn(x, first, last)
        BY <2>5, <2>6, <2>7 DEF PageIn
  <2>10. PICK n \in Nat : n = Needed
        BY <1>2
  <2>11. Has(AreaPages(first, last, n), x)
        BY <1>8, <2>7, <2>8, <2>9, <2>10, AreaPagesAll
  <2> QED BY <1>7, <2>7, <2>10, <2>11
<1> QED BY <1>9

LEMMA ShortIsReal ==
  ASSUME IInv, NEW k \in DOMAIN given, Short(k)
  PROVE  Cardinality(UsablePages(given[k])) <= Needed
<1> DEFINE w == PagesFrom(given[k])
           U == UsablePages(given[k])
<1>1. Needed \in Nat
      BY NeededNat DEF IInv, TotalOK
<1>2. CASE given[k].type # "available"
  <2>1. U = {}
        BY <1>2 DEF UsablePages
  <2>2. Cardinality(U) = 0
        BY <2>1, FS_EmptySet
  <2> QED BY <1>1, <2>2
<1>3. CASE given[k].type = "available"
  <2>1. PICK r \in Nat : \A z \in U :
          z = r \/ Has(w, z * PageSize)
        BY <1>3, ShortHasAll
  <2>2. w \in Seq(Nat) /\ Len(w) \in Nat /\ Len(w) < Needed
        BY PagesFromFacts DEF IInv, Short
  <2>3. \A z \in U : z \in Nat /\ (z * PageSize) \div PageSize = z
    <3>1. MapLength \in Nat
          BY NeededNat DEF IInv, TotalOK
    <3>2. ASSUME NEW z \in U
          PROVE  z \in Nat /\ (z * PageSize) \div PageSize = z
      <4>1. z \in Nat
            BY <3>1 DEF UsablePages
      <4> QED BY <4>1
    <3> QED BY <3>2
  <2> HIDE DEF w, U
  <2> DEFINE f == [i \in 1 .. Len(w) |-> w[i] \div PageSize]
             T == {f[i] : i \in 1 .. Len(w)}
  <2>4. IsFiniteSet(1 .. Len(w)) /\ Cardinality(1 .. Len(w)) = Len(w)
    <3>1. PICK l \in Nat : l = Len(w)
          BY <2>2
    <3>2. IsFiniteSet(1 .. l) /\ Cardinality(1 .. l) = l
          BY FS_Interval
    <3> QED BY <3>1, <3>2
  <2>5. f \in Surjection(1 .. Len(w), T)
        BY DEF Surjection
  <2>6. IsFiniteSet(T) /\ Cardinality(T) <= Len(w)
    <3> HIDE DEF f, T
    <3> QED BY <2>4, <2>5, FS_Surjection
  <2>7. U \subseteq T \cup {r}
    <3>1. ASSUME NEW z \in U, z # r
          PROVE  z \in T
      <4>1. PICK i \in DOMAIN w : w[i] = z * PageSize
            BY <2>1, <3>1 DEF Has
      <4>2. i \in 1 .. Len(w)
            BY <2>2
      <4>3. f[i] = z
            BY <2>3, <4>1, <4>2
      <4> QED BY <4>2, <4>3
    <3> HIDE DEF T
    <3> QED BY <3>1
  <2> HIDE DEF T
  <2>8. IsFiniteSet(T \cup {r}) /\ Cardinality(T \cup {r}) <= Cardinality(T) + 1
    <3>1. Cardinality(T) \in Nat
          BY <2>6, FS_CardinalityType
    <3>2. CASE r \in T
      <4>1. T \cup {r} = T
            BY <3>2
      <4>2. /\ IsFiniteSet(T \cup {r})
            /\ Cardinality(T \cup {r}) = Cardinality(T)
            BY <2>6, <4>1
      <4> QED BY <3>1, <4>2
    <3>3. CASE r \notin T
      <4>1. IsFiniteSet(T \cup {r}) /\ Cardinality(T \cup {r}) = Cardinality(T) + 1
            BY <2>6, <3>3, FS_AddElement
      <4> QED BY <3>1, <4>1
    <3> QED BY <3>2, <3>3
  <2>9. Cardinality(U) <= Cardinality(T \cup {r})
        BY <2>7, <2>8, FS_Subset
  <2>10. /\ Cardinality(U) \in Nat /\ Cardinality(T) \in Nat
         /\ Cardinality(T \cup {r}) \in Nat
    <3>1. IsFiniteSet(U)
          BY <2>7, <2>8, FS_Subset
    <3> QED BY <2>6, <2>8, <3>1, FS_CardinalityType
  <2>11. Cardinality(U) <= Needed
        BY <1>1, <2>2, <2>6, <2>8, <2>9, <2>10
  <2> QED BY <2>11 DEF U
<1> QED BY <1>2, <1>3

(* init() gives up only if each area by itself has no more usable pages    *)
(* than the map needs.                                                     *)
THEOREM SpecOutOfMemoryIsReal == Spec => []OutOfMemoryIsReal
<1>1. ASSUME IInv, pc = "out_of_memory", NEW k \in DOMAIN given
      PROVE  Cardinality(UsablePages(given[k])) <= Needed
  <2>1. Short(k)
        BY <1>1 DEF IInv, EntriesShort
  <2> QED BY <1>1, <2>1, ShortIsReal
<1>2. IInv => OutOfMemoryIsReal
      BY <1>1 DEF OutOfMemoryIsReal
<1> QED BY <1>2, SpecIInv, PTL
=============================================================================
