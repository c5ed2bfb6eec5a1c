----------------------------- MODULE BootProofs -----------------------------
(***************************************************************************)
(* Proofs about Boot and what it is made of, for every supply of blocks,   *)
(* archive, size of pages, tables and descriptors, and every request to    *)
(* Kernel::alloc(): the ramdisk finds the files that were archived, the    *)
(* CPU gets from a gate to handle_interrupt(), and one inductive invariant *)
(* of kernel_main() gives its properties.                                  *)
(***************************************************************************)
EXTENDS Boot, WellFoundedInduction, SequenceTheorems, TLAPS

-----------------------------------------------------------------------------
(* Recursive functions: what is defined by recursion exists and is found.  *)

(* A set of natural numbers has a least one.                               *)
LEMMA LeastNumber ==
  ASSUME NEW S, S \subseteq Nat, S # {}
  PROVE  \E n \in S : \A m \in S : n <= m
<1> DEFINE R == OpToRel(<, Nat)
<1>1. IsWellFoundedOn(R, Nat)
      BY NatLessThanWellFounded
<1>2. \A x, y \in Nat : <<x, y>> \in R <=> x < y
      BY DEF OpToRel
<1> HIDE DEF R
<1>3. PICK n \in S : \A m \in S : ~ (<<m, n>> \in R)
      BY <1>1, WFMin
<1>4. \A m \in S : ~ (m < n)
      BY <1>2, <1>3
<1>5. \A m \in S : n <= m
      BY <1>4
<1> QED BY <1>5

(* Induction from 0 to N, for what is a set of numbers.                    *)
LEMMA UpTo ==
  ASSUME NEW N \in Nat, NEW S, 0 \in S,
         \A n \in 0 .. N - 1 : n \in S => n + 1 \in S
  PROVE  0 .. N \subseteq S
<1> DEFINE T == {n \in 0 .. N : n \notin S}
<1>1. SUFFICES ASSUME T # {} PROVE FALSE
      OBVIOUS
<1> HIDE DEF T
<1>2. PICK n \in T : \A m \in T : n <= m
  <2>1. T \subseteq Nat
        BY DEF T
  <2> QED BY <1>1, <2>1, LeastNumber
<1> USE DEF T
<1>3. n \in 1 .. N
      BY <1>2
<1>4. n - 1 \in 0 .. N - 1 /\ n - 1 \in S
      BY <1>2, <1>3
<1>5. (n - 1) + 1 \in S
      BY <1>4
<1> QED BY <1>2, <1>3, <1>5

(* f begins with first and goes on with next, in V.                        *)
IsRecursion(N, V, first, next) ==
  N \in Nat /\ first \in V /\ next \in [1 .. N -> [V -> V]]

Follows(f, N, V, first, next) ==
  /\ f \in [0 .. N -> V] /\ f[0] = first
  /\ \A n \in 1 .. N : f[n] = next[n][f[n - 1]]

(* A recursion from 0 to N that stays in a set defines a function.         *)
LEMMA Recursion ==
  ASSUME NEW N, NEW V, NEW first, NEW next, IsRecursion(N, V, first, next)
  PROVE  \E f : Follows(f, N, V, first, next)
<1> USE DEF IsRecursion
<1> DEFINE Good(k, f) ==
             /\ f \in [0 .. k -> V] /\ f[0] = first
             /\ \A n \in 1 .. k : f[n] = next[n][f[n - 1]]
           S == {k \in 0 .. N : \E f : Good(k, f)}
<1>1. 0 \in S
  <2>1. Good(0, [n \in 0 .. 0 |-> first])
        OBVIOUS
  <2> HIDE DEF Good
  <2> QED BY <2>1
<1>2. ASSUME NEW k \in 0 .. N - 1, k \in S
      PROVE  k + 1 \in S
  <2>1. PICK f : Good(k, f)
        BY <1>2
  <2> DEFINE v == next[k + 1][f[k]]
             g == [n \in 0 .. k + 1 |-> IF n = k + 1 THEN v ELSE f[n]]
  <2>2. v \in V
        BY <2>1
  <2>3. g \in [0 .. k + 1 -> V]
        BY <2>1, <2>2
  <2>4. g[0] = first
        BY <2>1
  <2>5. ASSUME NEW n \in 1 .. k + 1
        PROVE  g[n] = next[n][g[n - 1]]
    <3>1. CASE n = k + 1
      <4>1. g[n - 1] = f[k] /\ g[n] = v
            BY <3>1
      <4> QED BY <3>1, <4>1
    <3>2. CASE n # k + 1
      <4>1. n \in 1 .. k /\ n - 1 \in 0 .. k
            BY <3>2
      <4>2. g[n] = f[n] /\ g[n - 1] = f[n - 1]
            BY <3>2, <4>1
      <4> QED BY <2>1, <4>1, <4>2
    <3> QED BY <3>1, <3>2
  <2>6. Good(k + 1, g)
        BY <2>3, <2>4, <2>5
  <2> HIDE DEF Good, g
  <2> QED BY <2>6
<1>3. N \in S
  <2> HIDE DEF S
  <2>1. 0 .. N \subseteq S
        BY <1>1, <1>2, UpTo
  <2> QED BY <2>1
<1>4. PICK f : Good(N, f)
      BY <1>3
<1> QED BY <1>4 DEF Follows

-----------------------------------------------------------------------------
(* The octal digits of a size, and what get_size() makes of them.          *)

(* Each step away from n drops its last octal digit.                       *)
LEMMA ShiftedDef ==
  ASSUME NEW n \in Nat
  PROVE  /\ Shifted(n) \in [0 .. SizeDigits -> 0 .. n]
         /\ Shifted(n)[0] = n
         /\ \A i \in 1 .. SizeDigits : Shifted(n)[i] = Shifted(n)[i - 1] \div 8
<1> USE ArchiveAssumption
<1> DEFINE Eq(f) == f = [i \in 0 .. SizeDigits |-> IF i = 0 THEN n ELSE f[i - 1] \div 8]
<1>1. PICK f : Eq(f) /\ f \in [0 .. SizeDigits -> 0 .. n]
  <2> DEFINE next == [i \in 1 .. SizeDigits |-> [m \in 0 .. n |-> m \div 8]]
  <2>1. IsRecursion(SizeDigits, 0 .. n, n, next)
        BY DEF IsRecursion
  <2>2. \A i \in 1 .. SizeDigits, m \in 0 .. n : next[i][m] = m \div 8
        OBVIOUS
  <2> HIDE DEF next
  <2>3. PICK f : Follows(f, SizeDigits, 0 .. n, n, next)
        BY <2>1, Recursion
  <2>4. ASSUME NEW i \in 1 .. SizeDigits PROVE f[i] = f[i - 1] \div 8
    <3>1. i - 1 \in 0 .. SizeDigits /\ f[i - 1] \in 0 .. n
          BY <2>3 DEF Follows
    <3> QED BY <2>2, <2>3, <3>1 DEF Follows
  <2>5. Eq(f) /\ f \in [0 .. SizeDigits -> 0 .. n]
        BY <2>3, <2>4 DEF Follows
  <2> HIDE DEF Eq
  <2> QED BY <2>5
<1>2. Shifted(n) = CHOOSE g : Eq(g)
      BY DEF Shifted
<1>3. Eq(Shifted(n))
  <2> HIDE DEF Eq
  <2> QED BY <1>1, <1>2
<1> DEFINE s == Shifted(n)
           S == {i \in 0 .. SizeDigits : s[i] = f[i]}
<1> HIDE DEF s
<1>4. /\ s[0] = n
      /\ \A i \in 1 .. SizeDigits : s[i] = s[i - 1] \div 8
      BY <1>3 DEF s
<1>5. 0 \in S
      BY <1>1, <1>4
<1>6. ASSUME NEW i \in 0 .. SizeDigits - 1, i \in S PROVE i + 1 \in S
      BY <1>1, <1>4, <1>6
<1>7. 0 .. SizeDigits \subseteq S
  <2> HIDE DEF S
  <2> QED BY <1>5, <1>6, UpTo
<1>8. s \in [0 .. SizeDigits -> 0 .. n]
      BY <1>1, <1>3, <1>7 DEF s
<1> QED BY <1>4, <1>8 DEF s

(* A turn of get_size()'s loop before the end.                             *)
LEMMA ReadDigitIs ==
  ASSUME NEW m, NEW x
  PROVE  LET s == [size |-> m, ended |-> FALSE] IN
         /\ ReadDigit(s, 0) = [size |-> m, ended |-> TRUE]
         /\ x # 0 => ReadDigit(s, x)
                       = [size |-> (m * 8 + (x - Zero)) % SizeValues, ended |-> FALSE]
BY DEF ReadDigit

(* The size that get_size() reads is the one that was written.             *)
LEMMA SizeRead ==
  ASSUME NEW n \in Nat, n < SizeValues, Shifted(n)[SizeDigits] = 0, NEW name
  PROVE  GetSize(Header(name, n)) = n
<1> USE ArchiveAssumption
<1> DEFINE d == Octal(n)
           s == Shifted(n)
           Eq(f) == f = [i \in 0 .. SizeDigits + 1 |->
                           IF i = 0 THEN [size |-> 0, ended |-> FALSE]
                           ELSE ReadDigit(f[i - 1], d[i])]
           f == [i \in 0 .. SizeDigits + 1 |->
                   IF i <= SizeDigits THEN [size |-> s[SizeDigits - i], ended |-> FALSE]
                   ELSE [size |-> n, ended |-> TRUE]]
<1>1. /\ s \in [0 .. SizeDigits -> 0 .. n] /\ s[0] = n /\ s[SizeDigits] = 0
      /\ \A i \in 1 .. SizeDigits : s[i] = s[i - 1] \div 8
      BY ShiftedDef
<1>2. /\ \A i \in 1 .. SizeDigits : d[i] = Zero + (s[SizeDigits - i] % 8)
      /\ d[SizeDigits + 1] = 0
      BY DEF Octal
<1> HIDE DEF s, d
<1>3. f[0] = [size |-> 0, ended |-> FALSE]
      BY <1>1
<1>4. ASSUME NEW i \in 1 .. SizeDigits + 1
      PROVE  f[i] = ReadDigit(f[i - 1], d[i])
  <2>1. CASE i = SizeDigits + 1
    <3>1. /\ f[i] = [size |-> n, ended |-> TRUE]
          /\ f[i - 1] = [size |-> s[0], ended |-> FALSE]
      <4>1. i - 1 = SizeDigits /\ SizeDigits - (i - 1) = 0 /\ ~ (i <= SizeDigits)
            BY <2>1
      <4>2. i \in 0 .. SizeDigits + 1 /\ i - 1 \in 0 .. SizeDigits + 1 /\ i - 1 <= SizeDigits
            BY <4>1
      <4>3. f[i] = [size |-> n, ended |-> TRUE]
            BY <4>1, <4>2, Zenon
      <4>4. f[i - 1] = [size |-> s[SizeDigits - (i - 1)], ended |-> FALSE]
        <5> DEFINE j == i - 1
        <5>1. j \in 0 .. SizeDigits + 1 /\ j <= SizeDigits
              BY <4>2
        <5> HIDE DEF j
        <5>2. f[j] = [size |-> s[SizeDigits - j], ended |-> FALSE]
              BY <5>1, Zenon
        <5> QED BY <5>2 DEF j
      <4> QED BY <4>1, <4>3, <4>4
    <3> HIDE DEF f
    <3> QED BY <1>1, <1>2, <2>1, <3>1, ReadDigitIs
  <2>2. CASE i # SizeDigits + 1
    <3> DEFINE k == SizeDigits - i
    <3>1. i \in 1 .. SizeDigits /\ k \in 0 .. SizeDigits - 1 /\ k + 1 = SizeDigits - (i - 1)
          BY <2>2
    <3>2. /\ f[i] = [size |-> s[k], ended |-> FALSE]
          /\ f[i - 1] = [size |-> s[k + 1], ended |-> FALSE]
      <4>1. i \in 0 .. SizeDigits + 1 /\ i <= SizeDigits
            BY <3>1
      <4>2. i - 1 \in 0 .. SizeDigits + 1 /\ i - 1 <= SizeDigits
            BY <3>1
      <4> QED BY <3>1, <4>1, <4>2
    <3>3. s[k] \in 0 .. n /\ s[k + 1] = s[k] \div 8
          BY <1>1, <3>1
    <3>4. s[k + 1] * 8 + (s[k] % 8) = s[k]
          BY <3>3
    <3>5. d[i] # 0 /\ d[i] - Zero = s[k] % 8
          BY <1>2, <3>1, <3>3 DEF Zero
    <3>6. s[k] % SizeValues = s[k]
          BY <3>3
    <3> HIDE DEF k, f
    <3>7. (s[k + 1] * 8 + (d[i] - Zero)) % SizeValues = s[k]
          BY <3>4, <3>5, <3>6
    <3> QED BY <3>2, <3>5, <3>7, ReadDigitIs
  <2> QED BY <2>1, <2>2
<1>5. Eq(f)
  <2>1. ASSUME NEW i \in 0 .. SizeDigits + 1
        PROVE  f[i] = IF i = 0 THEN [size |-> 0, ended |-> FALSE]
                      ELSE ReadDigit(f[i - 1], d[i])
    <3> HIDE DEF f
    <3> QED BY <1>3, <1>4
  <2>2. f = [i \in 0 .. SizeDigits + 1 |-> f[i]]
        OBVIOUS
  <2> HIDE DEF f
  <2> QED BY <2>1, <2>2
<1>6. ReadDigits(d) = CHOOSE g : Eq(g)
      BY DEF ReadDigits
<1>7. Eq(ReadDigits(d))
  <2> HIDE DEF Eq, f
  <2> QED BY <1>5, <1>6
<1> DEFINE r == ReadDigits(d)
           S == {i \in 0 .. SizeDigits + 1 : r[i] = f[i]}
<1> HIDE DEF r
<1>8. /\ r[0] = [size |-> 0, ended |-> FALSE]
      /\ \A i \in 1 .. SizeDigits + 1 : r[i] = ReadDigit(r[i - 1], d[i])
  <2>1. r = [i \in 0 .. SizeDigits + 1 |-> IF i = 0 THEN [size |-> 0, ended |-> FALSE]
                                          ELSE ReadDigit(r[i - 1], d[i])]
        BY <1>7 DEF r
  <2>2. \A i \in 0 .. SizeDigits + 1 :
          r[i] = IF i = 0 THEN [size |-> 0, ended |-> FALSE] ELSE ReadDigit(r[i - 1], d[i])
        BY <2>1
  <2> QED BY <2>2
<1> HIDE DEF f
<1>9. 0 .. SizeDigits + 1 \subseteq S
  <2>1. 0 \in S
        BY <1>3, <1>8
  <2>2. ASSUME NEW i \in 0 .. SizeDigits, i \in S PROVE i + 1 \in S
        BY <1>4, <1>8, <2>2
  <2>3. SizeDigits + 1 \in Nat /\ (SizeDigits + 1) - 1 = SizeDigits
        OBVIOUS
  <2> HIDE DEF S
  <2> QED BY <2>1, <2>2, <2>3, UpTo
<1>10. r[SizeDigits + 1].size = n
  <2>1. SizeDigits + 1 \in S
        BY <1>9
  <2>2. f[SizeDigits + 1] = [size |-> n, ended |-> TRUE]
    <3>1. ~ (SizeDigits + 1 <= SizeDigits) /\ SizeDigits + 1 \in 0 .. SizeDigits + 1
          OBVIOUS
    <3> QED BY <3>1 DEF f
  <2> QED BY <2>1, <2>2
<1> QED BY <1>10 DEF GetSize, Header, r, d

(* Rounded to blocks, up to a file that fills all but a block of memory.   *)
LEMMA Ceilg ==
  ASSUME NEW n \in Nat, n + BlockSize <= SizeValues
  PROVE  ceilg(n) = BlockSize * ((n + BlockSize - 1) \div BlockSize)
<1> USE ArchiveAssumption
<1> DEFINE q == (n + BlockSize - 1) \div BlockSize
<1>1. PICK v \in Nat : v >= 1 /\ SizeValues = v * BlockSize
  <2>1. SizeValues = BlockSize * (SizeValues \div BlockSize)
        OBVIOUS
  <2>2. SizeValues \div BlockSize \in Nat
        OBVIOUS
  <2>3. SizeValues \div BlockSize # 0
        BY <2>1
  <2> QED BY <2>1, <2>2, <2>3
<1>2. CASE n = 0
  <2>1. q = 0
        BY <1>2
  <2>2. (n - 1) % SizeValues = SizeValues - 1
        BY <1>2
  <2>3. (SizeValues - 1) \div BlockSize = v - 1
        BY <1>1
  <2>4. (((n - 1) % SizeValues) \div BlockSize) + 1 = v
        BY <2>2, <2>3, <1>1
  <2>5. ceilg(n) = (v * BlockSize) % SizeValues
        BY <1>2, <2>4 DEF ceilg
  <2>6. ceilg(n) = 0
        BY <2>5, <1>1
  <2> QED BY <2>1, <2>6
<1>3. CASE n # 0
  <2>1. (n - 1) % SizeValues = n - 1
        BY <1>3
  <2>2. (n - 1) \div BlockSize + 1 = q /\ q \in Nat
        BY <1>3
  <2>3. ceilg(n) = (q * BlockSize) % SizeValues
        BY <2>1, <2>2 DEF ceilg
  <2>4. q * BlockSize <= n + BlockSize - 1
        OBVIOUS
  <2>5. q * BlockSize \in 0 .. SizeValues - 1
        BY <2>2, <2>4
  <2> QED BY <2>3, <2>5
<1> QED BY <1>2, <1>3

-----------------------------------------------------------------------------
(* The archive.                                                            *)

BlocksOf(f) == (f.content.size + BlockSize - 1) \div BlockSize

(* A file in the archive is its header and the blocks of its content.      *)
LEMMA ArchivedIs ==
  ASSUME NEW f \in Files
  PROVE  /\ BlocksOf(f) \in Nat
         /\ f.content.size > 0 => BlocksOf(f) > 0
         /\ Archived(f) \in Seq({Archived(f)[i] : i \in Nat})
         /\ Len(Archived(f)) = BlocksOf(f) + 1
         /\ Archived(f)[1] = Header(f.name, f.content.size)
         /\ BlocksOf(f) > 0 => Archived(f)[2] = Block(f.content)
<1> USE ArchiveAssumption, ContentAssumption
<1> DEFINE h == Header(f.name, f.content.size)
           c == Block(f.content)
           n == BlocksOf(f)
           V == {h, c}
           body == [i \in 1 .. n |-> c]
<1>1. f.content.size \in Nat
      BY DEF Files
<1>2. n \in Nat /\ (f.content.size > 0 => n > 0)
      BY <1>1 DEF BlocksOf
<1> HIDE DEF h, c, n
<1>3. <<h>> \in Seq(V) /\ body \in Seq(V) /\ Len(body) = n
      BY <1>2
<1>4. Archived(f) = <<h>> \o body
      BY DEF Archived, h, c, n, BlocksOf
<1> DEFINE a == Archived(f)
<1> HIDE DEF V, body
<1>5. a \in Seq(V) /\ Len(a) = n + 1 /\ a[1] = h
      BY <1>2, <1>3, <1>4
<1>6. n > 0 => a[2] = c
      BY <1>2, <1>3, <1>4 DEF body
<1>7. a \in Seq({a[i] : i \in Nat})
  <2>1. \A i \in 1 .. Len(a) : a[i] \in {a[j] : j \in Nat}
        BY <1>5, <1>2
  <2>2. a = [i \in 1 .. Len(a) |-> a[i]] /\ Len(a) \in Nat
        BY <1>5, <1>2
  <2> QED BY <2>1, <2>2, IsASeq
<1> QED BY <1>2, <1>5, <1>6, <1>7 DEF h, c, n

MemberBlocks == UNION {{Archived(f)[i] : i \in Nat} : f \in Files}

(* The first n + 1 files are the first n and one more.                     *)
LEMMA MembersDef ==
  ASSUME NEW fs \in Seq(Files)
  PROVE  /\ Members(fs) \in [0 .. Len(fs) -> Seq(MemberBlocks)]
         /\ Members(fs)[0] = <<>>
         /\ \A n \in 1 .. Len(fs) : Members(fs)[n] = Members(fs)[n - 1] \o Archived(fs[n])
<1> DEFINE N == Len(fs)
           V == Seq(MemberBlocks)
           Eq(f) == f = [n \in 0 .. N |-> IF n = 0 THEN <<>> ELSE f[n - 1] \o Archived(fs[n])]
<1>1. N \in Nat /\ \A n \in 1 .. N : Archived(fs[n]) \in V
  <2>1. ASSUME NEW n \in 1 .. N PROVE Archived(fs[n]) \in V
    <3>1. fs[n] \in Files
          OBVIOUS
    <3>2. Archived(fs[n]) \in Seq({Archived(fs[n])[i] : i \in Nat})
          BY <3>1, ArchivedIs
    <3>3. {Archived(fs[n])[i] : i \in Nat} \subseteq MemberBlocks
          BY <3>1 DEF MemberBlocks
    <3> QED BY <3>2, <3>3
  <2> QED BY <2>1
<1> HIDE DEF N, V
<1>2. PICK f : Eq(f) /\ f \in [0 .. N -> V]
  <2> DEFINE next == [n \in 1 .. N |-> [s \in V |-> s \o Archived(fs[n])]]
  <2>1. IsRecursion(N, V, <<>>, next)
    <3>1. \A n \in 1 .. N, s \in V : s \o Archived(fs[n]) \in V
          BY <1>1 DEF V
    <3>2. <<>> \in V
          BY DEF V
    <3> QED BY <1>1, <3>1, <3>2 DEF IsRecursion
  <2>2. \A n \in 1 .. N, s \in V : next[n][s] = s \o Archived(fs[n])
        OBVIOUS
  <2> HIDE DEF next
  <2>3. PICK f : Follows(f, N, V, <<>>, next)
        BY <2>1, Recursion
  <2>4. ASSUME NEW n \in 1 .. N PROVE f[n] = f[n - 1] \o Archived(fs[n])
    <3>1. n - 1 \in 0 .. N /\ f[n - 1] \in V
          BY <1>1, <2>3 DEF Follows
    <3> QED BY <2>2, <2>3, <3>1 DEF Follows
  <2>5. Eq(f) /\ f \in [0 .. N -> V]
    <3>1. \A n \in 0 .. N : f[n] = IF n = 0 THEN <<>> ELSE f[n - 1] \o Archived(fs[n])
      <4>1. f[0] = <<>>
            BY <2>3 DEF Follows
      <4>2. \A n \in 0 .. N : n = 0 \/ n \in 1 .. N
            BY <1>1
      <4> QED BY <2>4, <4>1, <4>2
    <3> QED BY <2>3, <3>1 DEF Follows
  <2> HIDE DEF Eq
  <2> QED BY <2>5
<1>3. Members(fs) = CHOOSE g : Eq(g)
      BY DEF Members, N
<1>4. Eq(Members(fs))
  <2> HIDE DEF Eq
  <2> QED BY <1>2, <1>3
<1> DEFINE m == Members(fs)
           S == {n \in 0 .. N : m[n] = f[n]}
<1> HIDE DEF m
<1>5. /\ m[0] = <<>>
      /\ \A n \in 1 .. N : m[n] = m[n - 1] \o Archived(fs[n])
      BY <1>1, <1>4 DEF m
<1>6. f[0] = <<>> /\ \A n \in 1 .. N : f[n] = f[n - 1] \o Archived(fs[n])
  <2>1. \A n \in 0 .. N : f[n] = IF n = 0 THEN <<>> ELSE f[n - 1] \o Archived(fs[n])
        BY <1>2
  <2>2. 0 \in 0 .. N /\ \A n \in 1 .. N : n \in 0 .. N /\ n # 0
        BY <1>1
  <2> QED BY <2>1, <2>2
<1>7. 0 .. N \subseteq S
  <2>1. 0 \in S
        BY <1>1, <1>5, <1>6
  <2>2. ASSUME NEW n \in 0 .. N - 1, n \in S PROVE n + 1 \in S
    <3>1. n + 1 \in 1 .. N /\ (n + 1) - 1 = n
          BY <1>1
    <3>2. m[n + 1] = m[n] \o Archived(fs[n + 1])
          BY <1>5, <3>1
    <3>3. f[n + 1] = f[n] \o Archived(fs[n + 1])
          BY <1>6, <3>1
    <3>4. m[n] = f[n] /\ n + 1 \in 0 .. N
          BY <1>1, <2>2
    <3> QED BY <3>2, <3>3, <3>4
  <2> HIDE DEF S
  <2> QED BY <1>1, <2>1, <2>2, UpTo
<1>8. m \in [0 .. N -> V]
      BY <1>2, <1>4, <1>7 DEF m
<1> QED BY <1>5, <1>8 DEF m, N, V

(* What is where when a sequence is behind another.                        *)
LEMMA Concatenation ==
  ASSUME NEW V, NEW s \in Seq(V), NEW t \in Seq(V)
  PROVE  /\ Len(s) \in Nat /\ Len(t) \in Nat
         /\ s \o t \in Seq(V)
         /\ Len(s \o t) = Len(s) + Len(t)
         /\ \A k \in 1 .. Len(s) : (s \o t)[k] = s[k]
         /\ \A k \in 1 .. Len(t) : (s \o t)[Len(s) + k] = t[k]
<1>1. /\ Len(s) \in Nat /\ Len(t) \in Nat
      /\ s \o t \in Seq(V)
      /\ Len(s \o t) = Len(s) + Len(t)
      /\ \A k \in 1 .. Len(s) + Len(t) :
           (s \o t)[k] = IF k <= Len(s) THEN s[k] ELSE t[k - Len(s)]
      OBVIOUS
<1>2. ASSUME NEW k \in 1 .. Len(t)
      PROVE  (s \o t)[Len(s) + k] = t[k]
  <2>1. Len(s) + k \in 1 .. Len(s) + Len(t) /\ ~ (Len(s) + k <= Len(s))
        /\ (Len(s) + k) - Len(s) = k
        BY <1>1
  <2> QED BY <1>1, <2>1
<1>3. \A k \in 1 .. Len(s) : (s \o t)[k] = s[k]
      BY <1>1
<1> QED BY <1>1, <1>2, <1>3

(* Each file follows the ones before it, which stay where they are.        *)
LEMMA MembersGrow ==
  ASSUME NEW fs \in Seq(Files), NEW i \in 1 .. Len(fs)
  PROVE  LET M == Members(fs) IN
         /\ M[i - 1] \in Seq(MemberBlocks) /\ M[i] \in Seq(MemberBlocks)
         /\ Len(M[i]) = Len(M[i - 1]) + 1 + BlocksOf(fs[i])
         /\ \A k \in 1 .. Len(M[i - 1]) : M[i][k] = M[i - 1][k]
         /\ M[i][Len(M[i - 1]) + 1] = Header(fs[i].name, fs[i].content.size)
         /\ BlocksOf(fs[i]) > 0 => M[i][Len(M[i - 1]) + 2] = Block(fs[i].content)
<1> DEFINE M == Members(fs)
           a == Archived(fs[i])
           s == M[i - 1]
<1>1. M[i] = s \o a /\ s \in Seq(MemberBlocks) /\ M[i] \in Seq(MemberBlocks)
  <2>1. i - 1 \in 0 .. Len(fs) /\ i \in 0 .. Len(fs)
        OBVIOUS
  <2> QED BY <2>1, MembersDef
<1>2. fs[i] \in Files
      OBVIOUS
<1>3. /\ BlocksOf(fs[i]) \in Nat
      /\ Len(a) = BlocksOf(fs[i]) + 1
      /\ a[1] = Header(fs[i].name, fs[i].content.size)
      /\ BlocksOf(fs[i]) > 0 => a[2] = Block(fs[i].content)
      BY <1>2, ArchivedIs
<1>4. PICK V : a \in Seq(V)
      BY <1>2, ArchivedIs
<1> HIDE DEF M, a
<1> DEFINE W == V \cup MemberBlocks
<1>5. s \in Seq(W) /\ a \in Seq(W)
      BY <1>1, <1>4
<1> HIDE DEF s, W
<1>6. /\ Len(s) \in Nat /\ Len(a) \in Nat
      /\ Len(s \o a) = Len(s) + Len(a)
      /\ \A k \in 1 .. Len(s) : (s \o a)[k] = s[k]
      /\ \A k \in 1 .. Len(a) : (s \o a)[Len(s) + k] = a[k]
      BY <1>5, Concatenation
<1>8. /\ (s \o a)[Len(s) + 1] = a[1]
      /\ Len(a) > 1 => (s \o a)[Len(s) + 2] = a[2]
      /\ \A k \in 1 .. Len(s) : (s \o a)[k] = s[k]
  <2>1. 1 \in 1 .. Len(a) /\ (Len(a) > 1 => 2 \in 1 .. Len(a))
        BY <1>3, <1>6
  <2> QED BY <1>6, <2>1
<1>9. Len(s \o a) = Len(s) + 1 + BlocksOf(fs[i])
      BY <1>3, <1>6
<1>10. /\ (s \o a)[Len(s) + 1] = Header(fs[i].name, fs[i].content.size)
       /\ BlocksOf(fs[i]) > 0 => (s \o a)[Len(s) + 2] = Block(fs[i].content)
  <2>1. BlocksOf(fs[i]) > 0 => Len(a) > 1
        BY <1>3
  <2> QED BY <1>3, <1>8, <2>1
<1>11. M[i] = s \o a /\ M[i - 1] = s
       BY <1>1 DEF s
<1> HIDE DEF s
<1> QED BY <1>1, <1>8, <1>9, <1>10, <1>11 DEF M

(* What is behind some files is also behind them in the whole archive.     *)
LEMMA MembersPrefix ==
  ASSUME NEW fs \in Seq(Files), NEW i \in 0 .. Len(fs)
  PROVE  LET M == Members(fs) IN
         /\ Len(M[i]) \in Nat /\ Len(M[i]) <= Len(M[Len(fs)])
         /\ \A k \in 1 .. Len(M[i]) : M[Len(fs)][k] = M[i][k]
<1> DEFINE M == Members(fs)
           N == Len(fs)
           S == {n \in 0 .. N : n >= i => /\ Len(M[i]) <= Len(M[n])
                                          /\ \A k \in 1 .. Len(M[i]) : M[n][k] = M[i][k]}
<1>1. N \in Nat /\ \A n \in 0 .. N : M[n] \in Seq(MemberBlocks) /\ Len(M[n]) \in Nat
  <2>1. M \in [0 .. N -> Seq(MemberBlocks)]
        BY MembersDef
  <2> HIDE DEF M
  <2> QED BY <2>1
<1>2. 0 \in S
      BY <1>1
<1>3. ASSUME NEW n \in 0 .. N - 1, n \in S
      PROVE  n + 1 \in S
  <2>1. n + 1 \in 1 .. N /\ (n + 1) - 1 = n
        BY <1>1
  <2>2. BlocksOf(fs[n + 1]) \in Nat
    <3>1. fs[n + 1] \in Files
          BY <2>1
    <3> QED BY <3>1, ArchivedIs
  <2>3. /\ Len(M[n + 1]) = Len(M[n]) + 1 + BlocksOf(fs[n + 1])
        /\ \A k \in 1 .. Len(M[n]) : M[n + 1][k] = M[n][k]
        BY <2>1, MembersGrow
  <2> HIDE DEF M
  <2>4. CASE n >= i
    <3>1. Len(M[i]) <= Len(M[n]) /\ \A k \in 1 .. Len(M[i]) : M[n][k] = M[i][k]
          BY <1>3, <2>4
    <3>2. Len(M[i]) <= Len(M[n + 1])
          BY <1>1, <2>1, <2>2, <2>3, <3>1
    <3>3. ASSUME NEW k \in 1 .. Len(M[i]) PROVE M[n + 1][k] = M[i][k]
      <4>1. k \in 1 .. Len(M[n])
            BY <1>1, <3>1
      <4> QED BY <2>3, <3>1, <4>1
    <3> QED BY <1>1, <2>1, <3>2, <3>3
  <2>5. CASE n < i
    <3>1. n + 1 = i \/ ~ (n + 1 >= i)
          BY <2>5
    <3> QED BY <1>1, <2>1, <3>1
  <2> QED BY <2>4, <2>5
<1>4. 0 .. N \subseteq S
  <2> HIDE DEF S
  <2> QED BY <1>1, <1>2, <1>3, UpTo
<1>5. N \in S /\ N >= i
      BY <1>1, <1>4
<1> HIDE DEF M
<1> QED BY <1>1, <1>5 DEF M

(* Where the archive has a file's header and content, and where it ends.   *)
LEMMA ArchiveAt ==
  ASSUME NEW fs \in Seq(Files)
  PROVE  LET At(i) == Archive(fs)[Len(Members(fs)[i - 1]) + 1] IN
         /\ \A i \in 1 .. Len(fs) :
              /\ At(i) = Header(fs[i].name, fs[i].content.size)
              /\ BlocksOf(fs[i]) > 0
                   => Archive(fs)[Len(Members(fs)[i - 1]) + 2] = Block(fs[i].content)
         /\ At(Len(fs) + 1) = ZeroBlock
<1> DEFINE M == Members(fs)
           N == Len(fs)
           A == Archive(fs)
           m == M[N]
           z == <<ZeroBlock, ZeroBlock>>
<1>1. N \in Nat /\ M \in [0 .. N -> Seq(MemberBlocks)]
  <2>1. N \in Nat
        OBVIOUS
  <2>2. M \in [0 .. N -> Seq(MemberBlocks)]
        BY MembersDef
  <2> QED BY <2>1, <2>2
<1>2. m \in Seq(MemberBlocks) /\ Len(m) \in Nat
      BY <1>1
<1>3. A = m \o z
      BY DEF Archive
<1>4. A[Len(m) + 1] = ZeroBlock /\ \A k \in 1 .. Len(m) : A[k] = m[k]
  <2> DEFINE W == MemberBlocks \cup {ZeroBlock}
  <2>1. m \in Seq(W) /\ z \in Seq(W) /\ Len(z) = 2 /\ z[1] = ZeroBlock
        BY <1>2
  <2> HIDE DEF m, z, W, A
  <2>4. A[Len(m) + 1] = ZeroBlock /\ \A k \in 1 .. Len(m) : A[k] = m[k]
    <3>1. /\ \A k \in 1 .. Len(m) : (m \o z)[k] = m[k]
          /\ \A k \in 1 .. Len(z) : (m \o z)[Len(m) + k] = z[k]
          BY <2>1, Concatenation
    <3>2. 1 \in 1 .. Len(z)
          BY <2>1
    <3> QED BY <1>3, <2>1, <3>1, <3>2
  <2> QED BY <2>4
<1>5. ASSUME NEW i \in 1 .. N
      PROVE  /\ A[Len(M[i - 1]) + 1] = Header(fs[i].name, fs[i].content.size)
             /\ BlocksOf(fs[i]) > 0
                  => A[Len(M[i - 1]) + 2] = Block(fs[i].content)
  <2>1. /\ Len(M[i]) = Len(M[i - 1]) + 1 + BlocksOf(fs[i])
        /\ M[i][Len(M[i - 1]) + 1] = Header(fs[i].name, fs[i].content.size)
        /\ BlocksOf(fs[i]) > 0 => M[i][Len(M[i - 1]) + 2] = Block(fs[i].content)
        BY MembersGrow
  <2>2. BlocksOf(fs[i]) \in Nat
    <3>1. fs[i] \in Files
          OBVIOUS
    <3> QED BY <3>1, ArchivedIs
  <2>3. i \in 0 .. N /\ i - 1 \in 0 .. N
        BY <1>1
  <2>4. Len(M[i - 1]) \in Nat
        BY <2>3, MembersPrefix
  <2>5. Len(M[i]) \in Nat /\ Len(M[i]) <= Len(m) /\ \A k \in 1 .. Len(M[i]) : m[k] = M[i][k]
        BY <2>3, MembersPrefix
  <2> HIDE DEF M, A, m
  <2>6. Len(M[i - 1]) + 1 \in 1 .. Len(M[i])
    <3>1. Len(M[i]) = Len(M[i - 1]) + 1 + BlocksOf(fs[i])
          BY <2>1
    <3> QED BY <2>2, <2>4, <3>1
  <2>7. BlocksOf(fs[i]) > 0 => Len(M[i - 1]) + 2 \in 1 .. Len(M[i])
    <3>1. Len(M[i]) = Len(M[i - 1]) + 1 + BlocksOf(fs[i])
          BY <2>1
    <3> QED BY <2>2, <2>4, <3>1
  <2>8. \A k \in 1 .. Len(M[i]) : A[k] = M[i][k]
        BY <1>2, <1>4, <2>5
  <2> QED BY <2>1, <2>6, <2>7, <2>8
<1>6. (N + 1) - 1 = N
      BY <1>1
<1> HIDE DEF M, A, N
<1> QED BY <1>4, <1>5, <1>6 DEF M, A, N

(* The block at a multiple of their size.                                  *)
LEMMA WholeBlocks ==
  ASSUME NEW n \in Nat
  PROVE  /\ BlockAt(BlockSize * n) = archive[n + 1]
         /\ BlockAt(BlockSize * n + BlockSize) = archive[n + 2]
<1> USE ArchiveAssumption
<1>1. (BlockSize * n) \div BlockSize = n
      OBVIOUS
<1>2. (BlockSize * (n + 1)) \div BlockSize = n + 1
      OBVIOUS
<1>3. BlockSize * (n + 1) = BlockSize * n + BlockSize
      OBVIOUS
<1>4. (n + 1) + 1 = n + 2
      OBVIOUS
<1> QED BY <1>1, <1>2, <1>3, <1>4 DEF BlockAt

(* The archive was written from its files.                                 *)
Written == files \in Seq(Files) /\ archive = Archive(files)

(* Where listing and searching come by, as long as they go by the files:   *)
(* every header is taken for one, whatever content is before it.           *)
LEMMA Placed ==
  ASSUME Written
  PROVE  /\ PlaceOf(1) = 0
         /\ \A i \in 1 .. Len(files) :
              /\ BlockAt(PlaceOf(i)) = Header(files[i].name, files[i].content.size)
              /\ NextFile(PlaceOf(i)) = PlaceOf(i + 1)
              /\ BlocksOf(files[i]) > 0
                   => BlockAt(PlaceOf(i) + BlockSize) = Block(files[i].content)
         /\ BlockAt(PlaceOf(Len(files) + 1)) = ZeroBlock
<1> USE ArchiveAssumption, ContentAssumption
<1> DEFINE N == Len(files)
           L(i) == Len(Members(files)[i - 1])
<1>1. files \in Seq(Files) /\ archive = Archive(files) /\ N \in Nat
      BY DEF Written
<1>2. ASSUME NEW i \in 1 .. N + 1
      PROVE  /\ L(i) \in Nat
             /\ PlaceOf(i) = BlockSize * L(i)
             /\ BlockAt(PlaceOf(i)) = archive[L(i) + 1]
             /\ BlockAt(PlaceOf(i) + BlockSize) = archive[L(i) + 2]
  <2>1. i - 1 \in 0 .. N
        BY <1>1
  <2>2. L(i) \in Nat
        BY <1>1, <2>1, MembersPrefix
  <2>3. PlaceOf(i) = BlockSize * L(i)
        BY DEF PlaceOf
  <2> HIDE DEF L
  <2> QED BY <2>2, <2>3, WholeBlocks
<1>3. PlaceOf(1) = 0
  <2>1. L(1) = 0
    <3>1. Members(files)[0] = <<>>
          BY <1>1, MembersDef
    <3> QED BY <3>1
  <2>2. 1 \in 1 .. N + 1
        BY <1>1
  <2> HIDE DEF L
  <2> QED BY <1>2, <2>1, <2>2
<1>4. ASSUME NEW i \in 1 .. N
      PROVE  /\ BlockAt(PlaceOf(i)) = Header(files[i].name, files[i].content.size)
             /\ NextFile(PlaceOf(i)) = PlaceOf(i + 1)
             /\ BlocksOf(files[i]) > 0
                  => BlockAt(PlaceOf(i) + BlockSize) = Block(files[i].content)
  <2> DEFINE f == files[i]
             c == f.content
  <2>1. i \in 1 .. N + 1 /\ i + 1 \in 1 .. N + 1 /\ (i + 1) - 1 = i
        BY <1>1
  <2>2. f \in Files
        BY <1>1
  <2>3. /\ c \in Contents /\ c.size \in Nat /\ c.size + BlockSize <= SizeValues
        /\ Shifted(c.size)[SizeDigits] = 0
    <3>1. c \in Contents
          BY <2>2 DEF Files
    <3> QED BY <3>1
  <2>4. /\ archive[L(i) + 1] = Header(f.name, c.size)
        /\ BlocksOf(f) > 0 => archive[L(i) + 2] = Block(c)
        BY <1>1, ArchiveAt
  <2>5. L(i + 1) = L(i) + 1 + BlocksOf(f)
        BY <1>1, <2>1, MembersGrow
  <2> HIDE DEF L, f, c
  <2>6. BlockAt(PlaceOf(i)) = Header(f.name, c.size)
        BY <1>2, <2>1, <2>4
  <2>7. BlocksOf(f) > 0 => BlockAt(PlaceOf(i) + BlockSize) = Block(c)
        BY <1>2, <2>1, <2>4
  <2>8. NextFile(PlaceOf(i)) = PlaceOf(i + 1)
    <3>1. c.size \in Nat /\ c.size < SizeValues
          BY <2>3
    <3>2. GetSize(Header(f.name, c.size)) = c.size
          BY <2>3, <3>1, SizeRead
    <3>3. BlocksOf(f) = (c.size + BlockSize - 1) \div BlockSize
          BY DEF BlocksOf, c
    <3>4. ceilg(c.size) = BlockSize * BlocksOf(f)
          BY <2>3, <3>3, Ceilg
    <3>5. NextFile(PlaceOf(i)) = PlaceOf(i) + BlockSize + BlockSize * BlocksOf(f)
          BY <2>6, <3>2, <3>4 DEF NextFile
    <3>6. /\ L(i) \in Nat /\ PlaceOf(i) = BlockSize * L(i)
          /\ PlaceOf(i + 1) = BlockSize * L(i + 1)
          BY <1>2, <2>1
    <3>7. BlocksOf(f) \in Nat
          BY <2>2, ArchivedIs
    <3>8. BlockSize * (L(i) + 1 + BlocksOf(f))
            = BlockSize * L(i) + BlockSize + BlockSize * BlocksOf(f)
          BY <3>6, <3>7
    <3> QED BY <2>5, <3>5, <3>6, <3>8
  <2> QED BY <2>6, <2>7, <2>8 DEF f, c
<1>5. BlockAt(PlaceOf(N + 1)) = ZeroBlock
  <2>1. archive[L(N + 1) + 1] = ZeroBlock
        BY <1>1, ArchiveAt
  <2>2. N + 1 \in 1 .. N + 1
        BY <1>1
  <2> HIDE DEF L
  <2> QED BY <1>2, <2>1, <2>2
<1> QED BY <1>3, <1>4, <1>5

(* Only what is behind all files is taken for the end.                     *)
LEMMA EndIsFound ==
  ASSUME Written, NEW i \in 1 .. Len(files) + 1
  PROVE  IsZeroBlock(PlaceOf(i)) <=> i = Len(files) + 1
<1>1. Len(files) \in Nat
      BY DEF Written
<1>2. \A name, size : Header(name, size).holds = "header"
      BY DEF Header
<1>3. ZeroBlock.holds = "zero"
      BY DEF ZeroBlock
<1>4. CASE i = Len(files) + 1
      BY <1>4, Placed DEF IsZeroBlock
<1>5. CASE i # Len(files) + 1
  <2>1. i \in 1 .. Len(files)
        BY <1>1, <1>5
  <2>2. BlockAt(PlaceOf(i)) = Header(files[i].name, files[i].content.size)
        BY <2>1, Placed
  <2>3. BlockAt(PlaceOf(i)).holds = "header"
        BY <1>2, <2>2
  <2> QED BY <1>3, <1>5, <2>3 DEF IsZeroBlock
<1> QED BY <1>4, <1>5

(* The search goes by the files in their order.                            *)
LEMMA FileAtIs ==
  ASSUME Written, num_files \in 0 .. Len(files)
  PROVE  \A i \in 0 .. num_files : FileAt[i] = PlaceOf(i + 1)
<1> DEFINE N == num_files
           Eq(f) == f = [i \in 0 .. N |-> IF i = 0 THEN 0 ELSE NextFile(f[i - 1])]
           f == [i \in 0 .. N |-> PlaceOf(i + 1)]
<1>1. N \in Nat /\ Len(files) \in Nat /\ N <= Len(files)
      BY DEF Written
<1>2. /\ PlaceOf(1) = 0
      /\ \A i \in 1 .. N : NextFile(PlaceOf(i)) = PlaceOf(i + 1)
  <2>1. \A i \in 1 .. N : i \in 1 .. Len(files)
        BY <1>1
  <2> QED BY <2>1, Placed
<1>3. Eq(f)
  <2>1. ASSUME NEW i \in 0 .. N
        PROVE  f[i] = IF i = 0 THEN 0 ELSE NextFile(f[i - 1])
    <3>1. CASE i = 0
          BY <1>1, <1>2, <3>1
    <3>2. CASE i # 0
      <4>1. i \in 1 .. N /\ i - 1 \in 0 .. N /\ (i - 1) + 1 = i
            BY <1>1, <3>2
      <4>2. f[i] = PlaceOf(i + 1) /\ f[i - 1] = PlaceOf(i)
            BY <4>1
      <4> QED BY <1>2, <3>2, <4>1, <4>2
    <3> QED BY <3>1, <3>2
  <2>2. f = [i \in 0 .. N |-> f[i]]
        OBVIOUS
  <2> HIDE DEF f
  <2> QED BY <2>1, <2>2
<1>4. FileAt = CHOOSE g : Eq(g)
      BY DEF FileAt
<1>5. Eq(FileAt)
  <2> HIDE DEF Eq, f
  <2> QED BY <1>3, <1>4
<1> DEFINE g == FileAt
           S == {i \in 0 .. N : g[i] = f[i]}
<1> HIDE DEF g
<1>6. \A i \in 0 .. N : g[i] = IF i = 0 THEN 0 ELSE NextFile(g[i - 1])
      BY <1>5 DEF g
<1>7. \A i \in 0 .. N : f[i] = IF i = 0 THEN 0 ELSE NextFile(f[i - 1])
  <2> HIDE DEF f
  <2> QED BY <1>3
<1>8. 0 .. N \subseteq S
  <2> HIDE DEF f
  <2>1. 0 \in S
        BY <1>1, <1>6, <1>7
  <2>2. ASSUME NEW i \in 0 .. N - 1, i \in S PROVE i + 1 \in S
    <3>1. i + 1 \in 0 .. N /\ i + 1 # 0 /\ (i + 1) - 1 = i
          BY <1>1
    <3> QED BY <1>6, <1>7, <2>2, <3>1
  <2> HIDE DEF S, N
  <2> QED BY <1>1, <2>1, <2>2, UpTo
<1>9. ASSUME NEW i \in 0 .. N PROVE g[i] = PlaceOf(i + 1)
  <2>1. i \in S
        BY <1>8
  <2> QED BY <2>1
<1> QED BY <1>9 DEF g

(* Names that compare equal are equal: behind a NUL there are only NULs.   *)
LEMMA SameNameIs ==
  ASSUME NEW a \in Names, NEW b \in Names
  PROVE  SameName(a, b) <=> a = b
<1> USE ArchiveAssumption
<1>1. a \in [1 .. NameSize -> Letters \cup {0}] /\ b \in [1 .. NameSize -> Letters \cup {0}]
      BY DEF Names
<1>2. a = b => SameName(a, b)
      BY DEF SameName
<1>3. ASSUME SameName(a, b) PROVE a = b
  <2>1. ASSUME NEW i \in 1 .. NameSize PROVE a[i] = b[i]
    <3>1. CASE \E j \in 1 .. i - 1 : a[j] = 0 /\ b[j] = 0
      <4>1. PICK j \in 1 .. i - 1 : a[j] = 0 /\ b[j] = 0
            BY <3>1
      <4>2. j \in 1 .. NameSize /\ j < i
            BY <4>1
      <4>3. a[i] = 0 /\ b[i] = 0
            BY <4>1, <4>2 DEF Names
      <4> QED BY <4>3
    <3> QED BY <1>3, <3>1 DEF SameName
  <2> QED BY <1>1, <2>1
<1> QED BY <1>2, <1>3

(* Of some numbers, one is the first.                                      *)
LEMMA TheFirst ==
  ASSUME NEW S, S \subseteq Nat, NEW n \in S, \A m \in S : n <= m
  PROVE  (CHOOSE k \in S : \A m \in S : k <= m) = n
<1> DEFINE k == CHOOSE k \in S : \A m \in S : k <= m
<1>1. k \in S /\ \A m \in S : k <= m
      OBVIOUS
<1> HIDE DEF k
<1>2. k <= n /\ n <= k /\ k \in Nat /\ n \in Nat
      BY <1>1
<1>3. k = n
      BY <1>2
<1> QED BY <1>3 DEF k

(* The archive is listed to its end.                                       *)
AllListed == Written /\ num_files = Len(files)

(* Of the files of a name, one is the first in the archive.                *)
LEMMA FirstNamedIs ==
  ASSUME Written, NEW name, Named(name) # {}
  PROVE  /\ FirstNamed(name) \in Named(name) /\ FirstNamed(name) \in 1 .. Len(files)
         /\ \A j \in Named(name) : FirstNamed(name) <= j
<1>1. DOMAIN files = 1 .. Len(files)
      BY DEF Written
<1>2. Named(name) \subseteq Nat /\ Named(name) \subseteq 1 .. Len(files)
      BY <1>1 DEF Named
<1>3. \E n \in Named(name) : \A m \in Named(name) : n <= m
      BY <1>2, LeastNumber
<1> QED BY <1>2, <1>3 DEF FirstNamed

(* A name is looked up as if the list of the files were searched for it.   *)
LEMMA Lookup ==
  ASSUME AllListed, NEW name \in Names
  PROVE  /\ HasFile(name) <=> Named(name) # {}
         /\ HasFile(name) => GetFile(name) = PlaceOf(FirstNamed(name))
<1> DEFINE N == Len(files)
<1>1. /\ Written /\ num_files = N /\ N \in Nat /\ DOMAIN files = 1 .. N
      /\ \A i \in 1 .. N : files[i].name \in Names
  <2>1. Written /\ num_files = N /\ files \in Seq(Files)
        BY DEF AllListed, Written
  <2>2. \A i \in 1 .. N : files[i] \in Files
        BY <2>1
  <2> QED BY <2>1, <2>2 DEF Files
<1>2. ASSUME NEW i \in 1 .. N
      PROVE  i - 1 \in Matches(name) <=> i \in Named(name)
  <2>1. FileAt[i - 1] = PlaceOf(i)
    <3>1. i - 1 \in 0 .. num_files /\ num_files \in 0 .. N /\ (i - 1) + 1 = i
          BY <1>1
    <3>2. FileAt[i - 1] = PlaceOf((i - 1) + 1)
          BY <1>1, <3>1, FileAtIs
    <3> QED BY <3>1, <3>2
  <2>2. BlockAt(PlaceOf(i)) = Header(files[i].name, files[i].content.size)
        BY <1>1, Placed
  <2>3. BlockAt(FileAt[i - 1]).filename = files[i].name
        BY <2>1, <2>2 DEF Header
  <2>4. SameName(name, files[i].name) <=> name = files[i].name
        BY <1>1, SameNameIs
  <2>5. i - 1 \in 0 .. num_files - 1
        BY <1>1
  <2> QED BY <1>1, <2>3, <2>4, <2>5 DEF Matches, Named
<1>3. ASSUME NEW k \in Matches(name)
      PROVE  k \in Nat /\ k + 1 \in 1 .. N /\ k + 1 \in Named(name)
  <2>1. k \in Nat /\ k + 1 \in 1 .. N /\ (k + 1) - 1 = k
        BY <1>1 DEF Matches
  <2> QED BY <1>2, <2>1
<1>4. \A i \in Named(name) : i \in 1 .. N /\ i - 1 \in Matches(name)
      BY <1>1, <1>2 DEF Named
<1>5. HasFile(name) <=> Named(name) # {}
      BY <1>3, <1>4 DEF HasFile
<1>6. ASSUME HasFile(name)
      PROVE  GetFile(name) = PlaceOf(FirstNamed(name))
  <2> DEFINE n == FirstNamed(name)
  <2>1. n \in Named(name) /\ n \in 1 .. N /\ \A j \in Named(name) : n <= j
        BY <1>1, <1>5, <1>6, FirstNamedIs
  <2> HIDE DEF n
  <2>2. n - 1 \in Matches(name)
        BY <1>4, <2>1
  <2>3. \A k \in Matches(name) : n - 1 <= k
        BY <1>3, <2>1
  <2>4. Matches(name) \subseteq Nat
        BY <1>3
  <2>5. (CHOOSE i \in Matches(name) : \A j \in Matches(name) : i <= j) = n - 1
        BY <2>2, <2>3, <2>4, TheFirst
  <2>6. GetFile(name) = FileAt[n - 1]
        BY <2>5 DEF GetFile
  <2>7. n - 1 \in 0 .. num_files /\ num_files \in 0 .. N /\ (n - 1) + 1 = n
        BY <1>1, <2>1
  <2>8. FileAt[n - 1] = PlaceOf((n - 1) + 1)
        BY <1>1, <2>7, FileAtIs
  <2> QED BY <2>6, <2>7, <2>8 DEF n
<1> QED BY <1>5, <1>6

(* A program is taken for one, and nothing else is.                        *)
LEMMA ProgramFound ==
  ASSUME AllListed, \A i \in 1 .. Len(files) : files[i].name = Mcp => files[i].content.size > 0
  PROVE  /\ Loadable <=> Runnable
         /\ Runnable => /\ ElfHeader.blocks = files[FirstNamed(Mcp)].content.blocks
                        /\ ElfHeader.blocks \in Nat
<1> USE BootAssumption
<1> DEFINE i == FirstNamed(Mcp)
           c == files[i].content
<1>1. (HasFile(Mcp) <=> Named(Mcp) # {}) /\ (HasFile(Mcp) => GetFile(Mcp) = PlaceOf(i))
      BY Lookup
<1>2. ASSUME Named(Mcp) # {}
      PROVE  /\ ElfHeader = Block(c) /\ c \in Contents
  <2>1. i \in Named(Mcp) /\ i \in 1 .. Len(files)
        BY <1>2, FirstNamedIs DEF AllListed
  <2>2. files[i] \in Files /\ files[i].name = Mcp
        BY <2>1 DEF AllListed, Written, Named
  <2>3. c.size > 0
        BY <2>1, <2>2
  <2>4. BlocksOf(files[i]) > 0
        BY <2>2, <2>3, ArchivedIs
  <2>5. BlockAt(PlaceOf(i) + BlockSize) = Block(c)
        BY <2>1, <2>4, Placed DEF AllListed
  <2>6. ElfHeader = Block(c)
        BY <1>1, <1>2, <2>5 DEF ElfHeader
  <2> QED BY <2>2, <2>6 DEF Files
<1>3. ZeroBlock.holds = "zero" /\ \A name, size : Header(name, size).holds = "header"
      BY DEF ZeroBlock, Header
<1> DEFINE b == Block(c)
<1> HIDE DEF c, i
<1>4. IsMagicValid(b) /\ AreFlagsValid(b) <=> c.like = "executable"
  <2>1. CASE c.like = "zeros"
    <3>1. b = ZeroBlock
          BY <2>1 DEF Block
    <3> HIDE DEF b
    <3> QED BY <1>3, <2>1, <3>1 DEF IsMagicValid
  <2>2. CASE c.like = "header"
    <3>1. b = Header([k \in 1 .. NameSize |-> 1], 0)
          BY <2>2 DEF Block
    <3>2. b.holds = "header"
          BY <1>3, <3>1
    <3> HIDE DEF b
    <3> QED BY <2>2, <3>2 DEF IsMagicValid
  <2>3. CASE c.like # "zeros" /\ c.like # "header"
    <3>1. b.holds = c.like
          BY <2>3 DEF Block
    <3> HIDE DEF b
    <3> QED BY <3>1 DEF IsMagicValid, AreFlagsValid
  <2> QED BY <2>1, <2>2, <2>3
<1>5. c.like = "executable" => b.blocks = c.blocks
      BY DEF Block
<1> HIDE DEF b
<1>6. Named(Mcp) # {} => ElfHeader = b /\ c.blocks \in Nat
      BY <1>2, ContentAssumption DEF b
<1>7. Runnable <=> Named(Mcp) # {} /\ c.like = "executable"
      BY DEF Runnable, c, i
<1>8. Loadable <=> Named(Mcp) # {} /\ c.like = "executable"
      BY <1>1, <1>4, <1>6 DEF Loadable
<1> QED BY <1>5, <1>6, <1>7, <1>8 DEF c, i

-----------------------------------------------------------------------------
(* Kernel::alloc().                                                        *)

(* What the kernel does to Kernel::alloc()'s state and to PMem, whoever    *)
(* asks for how much.                                                      *)
AllocStep ==
  \/ \E bytes \in Nat : Alloc(bytes)
  \/ AllocTooMuch \/ Grow \/ GrowFails \/ AllocReturns
  \/ OthersUsePMem

(* The types, and whole pages.                                             *)
AllocInv == AllocTypeOK /\ \E n \in Nat : alloced = n * PageSize

(* Exactly the entries below alloced have a block, whether the last call   *)
(* failed or not: the loop relies on it when it goes on.                   *)
BackedBelow == \A i \in Entries : pagetable[i] = IF i * PageSize < alloced THEN 1 ELSE 0

(* What was granted lies below alloced.                                    *)
GrantsBelow == \A g \in granted : g.to <= alloced

Backed == AllocInv /\ BackedBelow /\ GrantsBelow

(* Every address has an entry, and the start of a page has that page's.    *)
LEMMA TblIndex ==
  /\ \A virt \in Nat : tbl_index(virt) \in Entries
  /\ \A n \in Entries : tbl_index(n * PageSize) = n
<1> USE TableAssumption
<1>1. TableBytes \in Nat \ {0}
      BY DEF TableBytes
<1>2. ASSUME NEW virt \in Nat PROVE tbl_index(virt) \in Entries
  <2> DEFINE r == virt % TableBytes
  <2>1. r \in Nat /\ r < PageSize * TablePages
        BY <1>1 DEF TableBytes
  <2> HIDE DEF r
  <2>2. r \div PageSize \in Nat /\ r \div PageSize < TablePages
        BY <2>1
  <2> QED BY <2>2 DEF tbl_index, Entries, r
<1>3. ASSUME NEW n \in Entries PROVE tbl_index(n * PageSize) = n
  <2>1. n \in Nat /\ n < TablePages
        BY DEF Entries
  <2>2. n * PageSize \in Nat /\ n * PageSize < TableBytes
        BY <2>1 DEF TableBytes
  <2>3. (n * PageSize) % TableBytes = n * PageSize
        BY <1>1, <2>2
  <2>4. (n * PageSize) \div PageSize = n
        BY <2>1
  <2> QED BY <2>3, <2>4 DEF tbl_index
<1> QED BY <1>2, <1>3

(* No call, turn of the loop or return takes it out of its types.          *)
LEMMA StepAllocInv ==
  ASSUME AllocInv, AllocStep
  PROVE  AllocInv'
<1> USE TableAssumption, RequestsAssumption DEF AllocInv
<1>1. ASSUME NEW bytes \in Nat, Alloc(bytes)
      PROVE  AllocInv'
  <2>1. /\ alloc_index' = alloc_index + bytes /\ region' = alloc_index
        /\ alloc_index + bytes <= ClientLimit
        BY <1>1 DEF Alloc, NextAddress
  <2>2. alloc_index \in 0 .. ClientLimit
        BY DEF AllocTypeOK
  <2>3. alloc_index' \in 0 .. ClientLimit /\ region' \in 0 .. alloc_index'
        BY <2>1, <2>2
  <2> QED BY <1>1, <2>3 DEF Alloc, AllocTypeOK
<1>2. CASE AllocTooMuch
      BY <1>2 DEF AllocTooMuch, AllocTypeOK
<1>3. CASE Grow
  <2>1. PICK n \in Nat : alloced = n * PageSize
        OBVIOUS
  <2>2. alloced' = (n + 1) * PageSize
        BY <1>3, <2>1 DEF Grow
  <2>3. tbl_index(alloced) \in Entries
        BY TblIndex DEF AllocTypeOK
  <2>4. pagetable' \in [Entries -> Nat]
        BY <1>3, <2>3 DEF Grow, AllocTypeOK
  <2>5. AllocTypeOK'
        BY <1>3, <2>4 DEF Grow, AllocTypeOK
  <2> QED BY <2>2, <2>5
<1>4. CASE GrowFails
      BY <1>4 DEF GrowFails, AllocTypeOK
<1>5. CASE AllocReturns
  <2>1. [from |-> region, to |-> alloc_index]
           \in [from : 0 .. ClientLimit, to : 0 .. ClientLimit]
    <3>1. alloc_index \in 0 .. ClientLimit /\ region \in 0 .. alloc_index
          BY DEF AllocTypeOK
    <3>2. region \in 0 .. ClientLimit
          BY <3>1
    <3> QED BY <3>1, <3>2
  <2> QED BY <1>5, <2>1 DEF AllocReturns, AllocTypeOK
<1>6. CASE OthersUsePMem
      BY <1>6 DEF OthersUsePMem, allocVars, AllocTypeOK
<1> QED BY <1>1, <1>2, <1>3, <1>4, <1>5, <1>6 DEF AllocStep

(* What is backed stays so, as long as callers ask for no more than the    *)
(* table spans.                                                            *)
LEMMA StepBacked ==
  ASSUME ClientLimit <= TableBytes, Backed, AllocStep
  PROVE  Backed'
<1> USE TableAssumption, RequestsAssumption
<1>1. AllocInv'
      BY StepAllocInv DEF Backed
<1>2. CASE \/ \E bytes \in Nat : Alloc(bytes)
           \/ AllocTooMuch \/ GrowFails \/ OthersUsePMem
  <2>1. UNCHANGED <<pagetable, alloced, granted>>
        BY <1>2 DEF Alloc, AllocTooMuch, GrowFails, OthersUsePMem, allocVars
  <2> QED BY <1>1, <2>1 DEF Backed, BackedBelow, GrantsBelow
<1>3. CASE AllocReturns
  <2>1. alloc_index <= alloced
        BY <1>3 DEF AllocReturns, WantsPage, Backed, AllocInv, AllocTypeOK
  <2>2. BackedBelow'
        BY <1>3 DEF AllocReturns, Backed, BackedBelow
  <2>3. GrantsBelow'
        BY <1>3, <2>1 DEF AllocReturns, Backed, GrantsBelow
  <2> QED BY <1>1, <2>2, <2>3 DEF Backed
<1>4. CASE Grow
  <2>1. PICK n \in Nat : alloced = n * PageSize
        BY DEF Backed, AllocInv
  <2>2. n \in Entries
    <3>1. alloced < TableBytes
          BY <1>4 DEF Grow, WantsPage, Backed, AllocInv, AllocTypeOK, TableBytes
    <3>2. n * PageSize < PageSize * TablePages
          BY <2>1, <3>1 DEF TableBytes
    <3>3. n >= TablePages => n * PageSize >= TablePages * PageSize
          OBVIOUS
    <3> QED BY <3>2, <3>3 DEF Entries
  <2>3. tbl_index(alloced) = n
        BY <2>1, <2>2, TblIndex
  <2>4. alloced' = (n + 1) * PageSize
        BY <1>4, <2>1 DEF Grow
  <2>5. pagetable' = [pagetable EXCEPT ![n] = pagetable[n] + 1]
        BY <1>4, <2>3 DEF Grow
  <2>6. pagetable \in [Entries -> Nat]
        BY DEF Backed, AllocInv, AllocTypeOK
  <2>7. \A i \in Entries : pagetable[i] = IF i * PageSize < n * PageSize THEN 1 ELSE 0
        BY <2>1 DEF Backed, BackedBelow
  <2>8. ASSUME NEW i \in Entries
        PROVE  pagetable'[i] = IF i * PageSize < (n + 1) * PageSize THEN 1 ELSE 0
    <3>1. i \in Nat
          BY DEF Entries
    <3>2. CASE i < n
      <4>1. i * PageSize < n * PageSize /\ n * PageSize < (n + 1) * PageSize
            BY <3>1, <3>2
      <4>2. pagetable[i] = 1 /\ pagetable'[i] = pagetable[i]
            BY <2>5, <2>6, <2>7, <3>1, <3>2, <4>1
      <4> QED BY <3>1, <4>1, <4>2
    <3>3. CASE i = n
      <4>1. pagetable[i] = 0
            BY <2>7, <3>3
      <4>2. pagetable'[i] = 1
            BY <2>5, <2>6, <3>3, <4>1
      <4> QED BY <3>3, <4>2
    <3>4. CASE i > n
      <4>1. i * PageSize >= (n + 1) * PageSize
            BY <3>1, <3>4
      <4>2. (n + 1) * PageSize >= n * PageSize
            OBVIOUS
      <4>3. pagetable[i] = 0 /\ pagetable'[i] = pagetable[i]
            BY <2>5, <2>6, <2>7, <3>1, <3>4, <4>1, <4>2
      <4> QED BY <3>1, <4>1, <4>3
    <3> QED BY <3>1, <3>2, <3>3, <3>4
  <2>9. BackedBelow'
        BY <2>4, <2>8 DEF BackedBelow
  <2>10. GrantsBelow'
         BY <1>4, <2>1 DEF Grow, GrantsBelow, Backed, AllocInv, AllocTypeOK
  <2> QED BY <1>1, <2>9, <2>10 DEF Backed
<1> QED BY <1>1, <1>2, <1>3, <1>4 DEF AllocStep, Backed

(* Before the first call nothing is backed and nothing granted.            *)
LEMMA InitBacked == AllocInit => Backed
<1> USE TableAssumption, RequestsAssumption
<1> SUFFICES ASSUME AllocInit PROVE Backed
    OBVIOUS
<1>1. AllocTypeOK
      BY DEF AllocInit, AllocTypeOK
<1>2. alloced = 0 * PageSize
      BY DEF AllocInit
<1>3. ASSUME NEW i \in Entries PROVE ~(i * PageSize < alloced)
      BY DEF AllocInit, Entries
<1>4. BackedBelow /\ GrantsBelow
      BY <1>3 DEF BackedBelow, GrantsBelow, AllocInit
<1> QED BY <1>1, <1>2, <1>4 DEF Backed, AllocInv

(* The invariant says of each page of a region what GrantsBacked says.     *)
LEMMA BackedGrants == Backed => GrantsBacked
<1> USE TableAssumption
<1> SUFFICES ASSUME Backed, NEW g \in granted, NEW i \in PagesOf(g)
             PROVE  pagetable[i] = 1
    BY DEF GrantsBacked
<1>1. i \in Entries /\ i * PageSize < g.to /\ g.to <= alloced
      BY DEF PagesOf, Backed, GrantsBelow
<1>2. i * PageSize \in Int /\ g.to \in Int /\ alloced \in Int
  <2>1. g \in [from : 0 .. ClientLimit, to : 0 .. ClientLimit]
        BY DEF Backed, AllocInv, AllocTypeOK
  <2>2. i \in Int
        BY <1>1 DEF Entries
  <2>3. alloced \in Nat
        BY DEF Backed, AllocInv, AllocTypeOK
  <2> QED BY <2>1, <2>2, <2>3
<1>3. i * PageSize < alloced
      BY <1>1, <1>2
<1> QED BY <1>1, <1>3 DEF Backed, BackedBelow

(* The steps of Kernel::alloc() alone are among them.                      *)
LEMMA AllocNextIsStep ==
  ASSUME AllocInv, [AllocNext]_<<allocVars, supply>>
  PROVE  AllocStep
<1> USE RequestsAssumption
<1>1. CASE UNCHANGED <<allocVars, supply>>
      BY <1>1 DEF AllocStep, OthersUsePMem, AllocInv, AllocTypeOK
<1> QED BY <1>1 DEF AllocNext, AllocStep

(* Type correctness of Kernel::alloc().                                    *)
THEOREM SpecAllocTypeOK == AllocSpec => []AllocTypeOK
<1>1. AllocInit => AllocInv
      BY InitBacked DEF Backed
<1>2. AllocInv /\ [AllocNext]_<<allocVars, supply>> => AllocInv'
      BY StepAllocInv, AllocNextIsStep
<1>3. AllocInv => AllocTypeOK
      BY DEF AllocInv
<1> QED BY <1>1, <1>2, <1>3, PTL DEF AllocSpec

(* Memory that Kernel::alloc() granted is backed, once, whatever calls     *)
(* failed before or after.                                                 *)
THEOREM SpecGrantsBacked == ClientLimit <= TableBytes => (AllocSpec => []GrantsBacked)
<1> SUFFICES ASSUME ClientLimit <= TableBytes PROVE AllocSpec => []GrantsBacked
    OBVIOUS
<1>1. Backed /\ [AllocNext]_<<allocVars, supply>> => Backed'
  <2> SUFFICES ASSUME Backed, [AllocNext]_<<allocVars, supply>> PROVE Backed'
      OBVIOUS
  <2>1. AllocStep
        BY AllocNextIsStep DEF Backed
  <2> QED BY <2>1, StepBacked
<1> QED BY InitBacked, BackedGrants, <1>1, PTL DEF AllocSpec

-----------------------------------------------------------------------------
(* The descriptors and the gates' offsets.                                 *)

(* The 20 bits of a limit reach all of memory.                             *)
LEMMA Widths ==
  /\ Memory \in Nat \ {0} /\ Memory = Word * Word
  /\ Granule \in Nat \ {0} /\ Word \in Nat \ {0}
  /\ Word * Nibble \in Nat \ {0} /\ Memory = (Word * Nibble) * Granule
<1> USE WidthAssumption
<1>1. Word \in Nat \ {0} /\ Memory = Word * Word /\ Memory \in Nat \ {0}
      BY DEF Memory
<1>2. PICK q \in Nat \ {0} : Word = q * Nibble
  <2>1. Word = Nibble * (Word \div Nibble) /\ Word \div Nibble \in Nat
        BY <1>1
  <2>2. Word \div Nibble # 0
        BY <1>1, <2>1
  <2> DEFINE q == Word \div Nibble
  <2>3. q \in Nat \ {0} /\ Word = Nibble * q
        BY <2>1, <2>2
  <2> HIDE DEF q
  <2> QED BY <2>3
<1>3. Word * Nibble \in Nat \ {0}
      BY <1>1
<1>4. Memory = (Word * Nibble) * q
      BY <1>1, <1>2
<1>5. Granule = q
      BY <1>2, <1>3, <1>4 DEF Granule
<1> QED BY <1>1, <1>2, <1>3, <1>4, <1>5

(* A number cut into two digits is put together again.                     *)
LEMMA TwoDigits ==
  ASSUME NEW a \in Nat \ {0}, NEW b \in Nat \ {0}, NEW n \in Nat, n < a * b
  PROVE  (n % a) + a * ((n \div a) % b) = n
<1> DEFINE q == n \div a
           r == n % a
<1>1. n = a * q + r /\ q \in Nat /\ r \in Nat
      OBVIOUS
<1> HIDE DEF q, r
<1>2. q >= b => a * q >= a * b
      BY <1>1
<1>3. q < b
      BY <1>1, <1>2
<1>4. q % b = q
      BY <1>1, <1>3
<1>5. r + a * (q % b) = n
      BY <1>1, <1>4
<1> QED BY <1>5 DEF q, r

(* A descriptor whose limit is a number of whole pages describes them.     *)
LEMMA SegmentIs ==
  ASSUME NEW executable, NEW dpl, NEW n \in 1 .. Word * Nibble, NEW bytes \in Nat,
         bytes < Memory, bytes \div Granule = n - 1
  PROVE  IsSegment(Segment(executable, dpl, bytes), executable, dpl, 0, n * Granule - 1)
<1> USE WidthAssumption, Widths
<1> DEFINE d == Segment(executable, dpl, bytes)
           limit == n - 1
<1>1. ((0 + bytes) % Memory) \div Granule = limit
      OBVIOUS
<1>2. /\ d.present = TRUE /\ d.system = FALSE /\ d.executable = executable /\ d.rw = TRUE
      /\ d.dpl = dpl /\ d.granularity = "PAGE"
      /\ d.place.base00_15 = 0 % Word /\ d.place.base16_23 = (0 \div Word) % Octet
      /\ d.place.base24_31 = (0 \div (Word * Octet)) % Octet
      /\ d.place.limit00_15 = limit % Word /\ d.place.limit16_19 = (limit \div Word) % Nibble
      BY <1>1 DEF Segment, BaseLimit
<1> HIDE DEF d
<1>3. BaseOf(d) = 0
  <2>1. 0 % Word = 0 /\ 0 \div Word = 0 /\ 0 % Octet = 0
        OBVIOUS
  <2>2. Word * Octet \in Nat \ {0}
        OBVIOUS
  <2>3. 0 \div (Word * Octet) = 0
        BY <2>2
  <2>4. d.place.base00_15 = 0 /\ d.place.base16_23 = 0 /\ d.place.base24_31 = 0
        BY <1>2, <2>1, <2>3
  <2> QED BY <2>2, <2>4 DEF BaseOf
<1>4. limit \in Nat /\ limit < Word * Nibble
      OBVIOUS
<1>5. d.place.limit00_15 + Word * d.place.limit16_19 = limit
  <2> HIDE DEF limit
  <2> QED BY <1>2, <1>4, TwoDigits
<1>6. LastOf(d) = n * Granule - 1
      BY <1>2, <1>3, <1>5 DEF LastOf
<1> QED BY <1>2, <1>3, <1>6 DEF IsSegment, d

(* The selectors the kernel uses, for itself and for user mode.            *)
LEMMA Segments ==
  ASSUME gdt = Gdt
  PROVE  /\ IsSegment(Selected(8), TRUE, 0, 0, Memory - 1)
         /\ IsSegment(Selected(16), FALSE, 0, 0, Memory - 1)
         /\ IsSegment(Selected(27), TRUE, 3, 0, KernelStart - 1)
         /\ IsSegment(Selected(35), FALSE, 3, 0, KernelStart - 1)
<1> USE PlaceAssumption, Widths
<1>1. /\ Selected(8) = Segment(TRUE, 0, KernelBytes)
      /\ Selected(16) = Segment(FALSE, 0, KernelBytes)
      /\ Selected(27) = Segment(TRUE, 3, UserBytes)
      /\ Selected(35) = Segment(FALSE, 3, UserBytes)
  <2>1. 8 \div 8 + 1 = 2 /\ 16 \div 8 + 1 = 3 /\ 27 \div 8 + 1 = 4 /\ 35 \div 8 + 1 = 5
        OBVIOUS
  <2> QED BY <2>1 DEF Selected, Gdt
<1>2. \A executable : IsSegment(Segment(executable, 0, KernelBytes), executable, 0, 0, Memory - 1)
  <2> DEFINE n == Word * Nibble
  <2>1. KernelBytes \in Nat /\ KernelBytes < Memory
        BY DEF KernelBytes
  <2>2. KernelBytes \div Granule = n - 1
        BY DEF KernelBytes
  <2>3. n \in 1 .. Word * Nibble /\ n * Granule = Memory
        OBVIOUS
  <2> HIDE DEF n
  <2> QED BY <2>1, <2>2, <2>3, SegmentIs
<1>3. \A executable : IsSegment(Segment(executable, 3, UserBytes), executable, 3, 0, KernelStart - 1)
  <2>1. PICK n \in Nat : KernelStart = n * Granule
    <3>1. KernelStart = Granule * (KernelStart \div Granule) /\ KernelStart \div Granule \in Nat
          OBVIOUS
    <3> QED BY <3>1
  <2>2. n \in 1 .. Word * Nibble
    <3>1. n # 0
          BY <2>1
    <3>2. n > Word * Nibble => n * Granule > (Word * Nibble) * Granule
          OBVIOUS
    <3> QED BY <2>1, <3>1, <3>2
  <2>3. UserBytes \in Nat /\ UserBytes < Memory
        BY DEF UserBytes
  <2>4. UserBytes \div Granule = n - 1
    <3>1. UserBytes = (n - 1) * Granule
          BY <2>1 DEF UserBytes
    <3> QED BY <2>2, <3>1
  <2> QED BY <2>1, <2>2, <2>3, <2>4, SegmentIs
<1> QED BY <1>1, <1>2, <1>3

(* A gate leads where it was made for.                                     *)
LEMMA GateIs ==
  ASSUME NEW irq, NEW dest \in 0 .. Memory - 1
  PROVE  LET g == Gate(irq, dest) IN
         /\ g.present = 1 /\ g.dpl = GateDpl(irq) /\ g.segment = 8
         /\ g.type = TypeBits("INTERRUPT")
         /\ GetOffset(g) = dest
<1> USE Widths
<1> DEFINE g == Gate(irq, dest)
<1>1. /\ g.present = 1 /\ g.dpl = GateDpl(irq) /\ g.segment = 8
      /\ g.type = TypeBits("INTERRUPT")
      /\ g.offset.offset_1 = dest % Word /\ g.offset.offset_2 = (dest \div Word) % Word
      BY DEF Gate, SetOffset
<1> HIDE DEF g
<1>2. dest \in Nat /\ dest < Word * Word
      OBVIOUS
<1>3. GetOffset(g) = dest
      BY <1>1, <1>2, TwoDigits DEF GetOffset
<1> QED BY <1>1, <1>3 DEF g

-----------------------------------------------------------------------------
(* The stubs.                                                              *)

(* The stubs, instruction by instruction.                                  *)
LEMMA StubsAre ==
  /\ \E V : INTH \in Seq(V) /\ INTH_ERR \in Seq(V)
  /\ Len(INTH) = 8 /\ Len(INTH_ERR) = 9 /\ StubSize = 9
  /\ INTH[1] = <<"pushad">> /\ INTH[2] = <<"push_0">> /\ INTH[3] = <<"push">>
  /\ INTH[4] = Magic /\ INTH[5] = <<"call">> /\ INTH[6] = <<"add_esp">>
  /\ INTH[7] = <<"popad">> /\ INTH[8] = <<"iretd">>
  /\ INTH_ERR[1] = <<"pushad">> /\ INTH_ERR[2] = <<"mov_eax">>
  /\ INTH_ERR[3] = <<"push_eax">> /\ INTH_ERR[4] = <<"push">>
  /\ INTH_ERR[5] = Magic /\ INTH_ERR[6] = <<"call">> /\ INTH_ERR[7] = <<"add_esp">>
  /\ INTH_ERR[8] = <<"popad">> /\ INTH_ERR[9] = <<"iretd">>
<1> DEFINE V == {Magic, <<"pushad">>, <<"push_0">>, <<"push">>, <<"call">>, <<"add_esp">>,
                 <<"popad">>, <<"iretd">>, <<"mov_eax">>, <<"push_eax">>}
           p == << <<"pushad">>, <<"push_0">> >>
           e == << <<"pushad">>, <<"mov_eax">>, <<"push_eax">> >>
           c == CallHandler
<1>1. /\ p \in Seq(V) /\ Len(p) = 2
      /\ e \in Seq(V) /\ Len(e) = 3
      /\ c \in Seq(V) /\ Len(c) = 6
      BY DEF CallHandler
<1>2. /\ p[1] = <<"pushad">> /\ p[2] = <<"push_0">>
      /\ e[1] = <<"pushad">> /\ e[2] = <<"mov_eax">> /\ e[3] = <<"push_eax">>
      /\ c[1] = <<"push">> /\ c[2] = Magic /\ c[3] = <<"call">>
      /\ c[4] = <<"add_esp">> /\ c[5] = <<"popad">> /\ c[6] = <<"iretd">>
      BY DEF CallHandler
<1>3. INTH = p \o c /\ INTH_ERR = e \o c
      BY DEF INTH, INTH_ERR
<1> HIDE DEF V, p, e, c
<1>4. ASSUME NEW s \in Seq(V)
      PROVE  /\ Len(s \o c) = Len(s) + 6 /\ Len(s) \in Nat
             /\ \A k \in 1 .. Len(s) : (s \o c)[k] = s[k]
             /\ \A k \in 1 .. 6 : (s \o c)[Len(s) + k] = c[k]
  <2>1. /\ Len(s \o c) = Len(s) + Len(c) /\ Len(s) \in Nat
        /\ \A k \in 1 .. Len(s) : (s \o c)[k] = s[k]
        /\ \A k \in 1 .. Len(c) : (s \o c)[Len(s) + k] = c[k]
    <3>1. c \in Seq(V)
          BY <1>1
    <3> HIDE <1>1
    <3> QED BY <3>1, Concatenation
  <2>2. Len(c) = 6
        BY <1>1
  <2> QED BY <2>1, <2>2
<1>5. /\ Len(INTH) = 8
      /\ INTH[1] = p[1] /\ INTH[2] = p[2]
      /\ INTH[3] = c[1] /\ INTH[4] = c[2] /\ INTH[5] = c[3]
      /\ INTH[6] = c[4] /\ INTH[7] = c[5] /\ INTH[8] = c[6]
  <2>1. /\ Len(INTH) = 2 + 6
        /\ \A k \in 1 .. 2 : INTH[k] = p[k]
        /\ \A k \in 1 .. 6 : INTH[2 + k] = c[k]
    <3>1. p \in Seq(V) /\ Len(p) = 2
          BY <1>1
    <3> QED BY <1>3, <1>4, <3>1
  <2> QED BY <2>1
<1>6. /\ Len(INTH_ERR) = 9
      /\ INTH_ERR[1] = e[1] /\ INTH_ERR[2] = e[2] /\ INTH_ERR[3] = e[3]
      /\ INTH_ERR[4] = c[1] /\ INTH_ERR[5] = c[2] /\ INTH_ERR[6] = c[3]
      /\ INTH_ERR[7] = c[4] /\ INTH_ERR[8] = c[5] /\ INTH_ERR[9] = c[6]
  <2>1. /\ Len(INTH_ERR) = 3 + 6
        /\ \A k \in 1 .. 3 : INTH_ERR[k] = e[k]
        /\ \A k \in 1 .. 6 : INTH_ERR[3 + k] = c[k]
        BY <1>1, <1>3, <1>4
  <2> QED BY <2>1
<1>7. StubSize = 9
      BY <1>5, <1>6 DEF StubSize
<1>8. INTH \in Seq(V) /\ INTH_ERR \in Seq(V)
  <2>1. p \in Seq(V) /\ e \in Seq(V) /\ c \in Seq(V)
        BY <1>1
  <2>2. p \o c \in Seq(V) /\ e \o c \in Seq(V)
        BY <2>1, Concatenation
  <2> QED BY <1>3, <2>2
<1> QED BY <1>2, <1>5, <1>6, <1>7, <1>8

(* SelectInSeq() finds the one instruction that is the magic number.       *)
LEMMA TheOnlyMagic ==
  ASSUME NEW stub, NEW n \in 1 .. Len(stub), Len(stub) \in Nat,
         \A i \in 1 .. Len(stub) : stub[i] = Magic <=> i = n
  PROVE  IrqOffset(stub) = n
<1>1. {i \in 1 .. Len(stub) : stub[i] = Magic} = {n}
      OBVIOUS
<1>2. Min({n}) = n
      BY DEF Min
<1> QED BY <1>1, <1>2 DEF IrqOffset, SelectInSeq

(* load() finds the vector where build() has to put it.                    *)
LEMMA IrqOffsets == IrqOffset(INTH) = 4 /\ IrqOffset(INTH_ERR) = 5
<1>1. \A i \in 1 .. 8 : INTH[i] = Magic <=> i = 4
      BY StubsAre DEF Magic, Dword
<1>2. \A i \in 1 .. 9 : INTH_ERR[i] = Magic <=> i = 5
      BY StubsAre DEF Magic, Dword
<1>3. IrqOffset(INTH) = 4
  <2>1. 4 \in 1 .. Len(INTH) /\ Len(INTH) \in Nat
        BY StubsAre
  <2>2. \A i \in 1 .. Len(INTH) : INTH[i] = Magic <=> i = 4
        BY <1>1, StubsAre
  <2> QED BY <2>1, <2>2, TheOnlyMagic
<1>4. IrqOffset(INTH_ERR) = 5
  <2>1. 5 \in 1 .. Len(INTH_ERR) /\ Len(INTH_ERR) \in Nat
        BY StubsAre
  <2>2. \A i \in 1 .. Len(INTH_ERR) : INTH_ERR[i] = Magic <=> i = 5
        BY <1>2, StubsAre
  <2> QED BY <2>1, <2>2, TheOnlyMagic
<1> QED BY <1>3, <1>4

(* The vectors in the order their handlers are created.                    *)
VectorOf(i) ==
  CASE i \in 1 .. 8 \cup 22 .. 49 -> i - 1
    [] i = 9 -> 9
    [] i = 10 -> 16
    [] i \in 11 .. 13 -> i + 7
    [] i = 14 -> 8
    [] i \in 15 .. 19 -> i - 5
    [] i = 20 -> 17
    [] i = 21 -> 15
    [] i = 50 -> 128

StubOf(i) == IF i \in 14 .. 32 THEN INTH_ERR ELSE INTH

(* The lists of vectors, number by number.                                 *)
LEMMA VectorsOf ==
  /\ \A i \in 1 .. 13 : WithoutErrors[i] = VectorOf(i)
  /\ \A i \in 1 .. 19 : WithErrors[i] = VectorOf(13 + i)
  /\ \A i \in 1 .. 17 : Devices[i] = VectorOf(32 + i)
  /\ VectorOf(50) = 128
  /\ Len(WithoutErrors) = 13 /\ WithoutErrors \in Seq(Nat)
  /\ Len(WithErrors) = 19 /\ WithErrors \in Seq(Nat)
  /\ Len(Devices) = 17 /\ Devices \in Seq(Nat)
<1>1. /\ Len(WithoutErrors) = 13 /\ WithoutErrors \in Seq(Nat)
      /\ \A i \in 1 .. 13 : WithoutErrors[i] = VectorOf(i)
      BY DEF WithoutErrors, VectorOf
<1>2. /\ Len(Devices) = 17 /\ Devices \in Seq(Nat)
      /\ \A i \in 1 .. 17 : Devices[i] = VectorOf(32 + i)
      BY DEF Devices, VectorOf
<1>3. /\ Len(WithErrors) = 19 /\ WithErrors \in Seq(Nat)
      /\ \A i \in 1 .. 19 : WithErrors[i] = VectorOf(13 + i)
  <2> DEFINE s == <<8, 10, 11, 12, 13, 14, 17, 15>>
             t == [i \in 1 .. 11 |-> 20 + i]
  <2>1. s \in Seq(Nat) /\ t \in Seq(Nat)
        OBVIOUS
  <2>2. Len(s) = 8 /\ Len(t) = 11
        OBVIOUS
  <2>3. \A i \in 1 .. 8 : s[i] = VectorOf(13 + i)
        BY DEF VectorOf
  <2>4. \A i \in 1 .. 11 : t[i] = VectorOf(21 + i)
        BY DEF VectorOf
  <2>5. WithErrors = s \o t
        BY DEF WithErrors
  <2> HIDE DEF s, t
  <2>6. /\ s \o t \in Seq(Nat) /\ Len(s \o t) = Len(s) + Len(t)
        /\ \A k \in 1 .. Len(s) : (s \o t)[k] = s[k]
        /\ \A k \in 1 .. Len(t) : (s \o t)[Len(s) + k] = t[k]
        BY <2>1, Concatenation
  <2>7. ASSUME NEW i \in 1 .. 19 PROVE (s \o t)[i] = VectorOf(13 + i)
    <3>1. CASE i \in 1 .. 8
          BY <2>2, <2>3, <2>6, <3>1
    <3>2. CASE i \notin 1 .. 8
      <4>1. i - 8 \in 1 .. 11 /\ 8 + (i - 8) = i /\ 21 + (i - 8) = 13 + i
            BY <3>2
      <4>2. (s \o t)[8 + (i - 8)] = t[i - 8]
            BY <2>2, <2>6, <4>1
      <4>3. t[i - 8] = VectorOf(21 + (i - 8))
            BY <2>4, <4>1
      <4> QED BY <4>1, <4>2, <4>3
    <3> QED BY <3>1, <3>2
  <2>8. Len(WithErrors) = 19 /\ WithErrors \in Seq(Nat)
        BY <2>2, <2>5, <2>6
  <2>9. \A i \in 1 .. 19 : WithErrors[i] = VectorOf(13 + i)
        BY <2>5, <2>7
  <2> QED BY <2>8, <2>9
<1>4. VectorOf(50) = 128
      BY DEF VectorOf
<1> QED BY <1>1, <1>2, <1>3, <1>4

(* The handlers in their order, with their stubs.                          *)
LEMMA HandlersAre ==
  /\ Len(HandlerOrder) = 50
  /\ \A i \in 1 .. 50 : HandlerOrder[i] = [irq |-> VectorOf(i), stub |-> StubOf(i)]
<1> DEFINE as(stub, vectors) ==
             [i \in DOMAIN vectors |-> [irq |-> vectors[i], stub |-> stub]]
           V == [irq : Nat, stub : {INTH, INTH_ERR}]
           a == as(INTH, WithoutErrors)
           b == as(INTH_ERR, WithErrors)
           c == as(INTH, Devices)
           one == <<128>>
           d == as(INTH, one)
           at(i) == [irq |-> VectorOf(i), stub |-> StubOf(i)]
<1>1. ASSUME NEW stub \in {INTH, INTH_ERR}, NEW vectors \in Seq(Nat)
      PROVE  /\ as(stub, vectors) \in Seq(V)
             /\ Len(as(stub, vectors)) = Len(vectors)
             /\ \A i \in 1 .. Len(vectors) :
                  as(stub, vectors)[i] = [irq |-> vectors[i], stub |-> stub]
  <2>1. DOMAIN vectors = 1 .. Len(vectors) /\ Len(vectors) \in Nat
        OBVIOUS
  <2>2. \A i \in 1 .. Len(vectors) : vectors[i] \in Nat
        OBVIOUS
  <2> DEFINE n == Len(vectors)
             s == [i \in 1 .. n |-> [irq |-> vectors[i], stub |-> stub]]
  <2>3. as(stub, vectors) = s
        BY <2>1
  <2>4. \A i \in 1 .. n : s[i] = [irq |-> vectors[i], stub |-> stub] /\ s[i] \in V
        BY <2>2
  <2> HIDE DEF n, V
  <2>5. s \in Seq(V) /\ Len(s) = n
        BY <2>1, <2>4, IsASeq DEF n
  <2> QED BY <2>3, <2>4, <2>5 DEF n
<1>2. one \in Seq(Nat) /\ Len(one) = 1 /\ one[1] = 128
      OBVIOUS
<1>3. HandlerOrder = ((a \o b) \o c) \o d
      BY DEF HandlerOrder
<1> HIDE DEF as, V, one
<1>4. /\ a \in Seq(V) /\ Len(a) = 13
      /\ \A i \in 1 .. 13 : a[i] = at(i)
  <2>1. /\ WithoutErrors \in Seq(Nat) /\ Len(WithoutErrors) = 13
        /\ \A i \in 1 .. 13 : WithoutErrors[i] = VectorOf(i)
        BY VectorsOf
  <2>2. \A i \in 1 .. 13 : StubOf(i) = INTH
        BY DEF StubOf
  <2>3. /\ a \in Seq(V) /\ Len(a) = Len(WithoutErrors)
        /\ \A i \in 1 .. Len(WithoutErrors) : a[i] = [irq |-> WithoutErrors[i], stub |-> INTH]
    <3>1. WithoutErrors \in Seq(Nat)
          BY <2>1
    <3> QED BY <1>1, <3>1
  <2>4. \A i \in 1 .. 13 : a[i] = at(i)
        BY <2>1, <2>2, <2>3
  <2> QED BY <2>1, <2>3, <2>4
<1>5. /\ b \in Seq(V) /\ Len(b) = 19
      /\ \A i \in 1 .. 19 : b[i] = at(13 + i)
  <2>1. /\ WithErrors \in Seq(Nat) /\ Len(WithErrors) = 19
        /\ \A i \in 1 .. 19 : WithErrors[i] = VectorOf(13 + i)
        BY VectorsOf
  <2>2. \A i \in 1 .. 19 : StubOf(13 + i) = INTH_ERR
        BY DEF StubOf
  <2>3. /\ b \in Seq(V) /\ Len(b) = Len(WithErrors)
        /\ \A i \in 1 .. Len(WithErrors) : b[i] = [irq |-> WithErrors[i], stub |-> INTH_ERR]
    <3>1. WithErrors \in Seq(Nat)
          BY <2>1
    <3> QED BY <1>1, <3>1
  <2>4. \A i \in 1 .. 19 : b[i] = at(13 + i)
        BY <2>1, <2>2, <2>3
  <2> QED BY <2>1, <2>3, <2>4
<1>6. /\ c \in Seq(V) /\ Len(c) = 17
      /\ \A i \in 1 .. 17 : c[i] = at(32 + i)
  <2>1. /\ Devices \in Seq(Nat) /\ Len(Devices) = 17
        /\ \A i \in 1 .. 17 : Devices[i] = VectorOf(32 + i)
        BY VectorsOf
  <2>2. \A i \in 1 .. 17 : StubOf(32 + i) = INTH
        BY DEF StubOf
  <2>3. /\ c \in Seq(V) /\ Len(c) = Len(Devices)
        /\ \A i \in 1 .. Len(Devices) : c[i] = [irq |-> Devices[i], stub |-> INTH]
    <3>1. Devices \in Seq(Nat)
          BY <2>1
    <3> QED BY <1>1, <3>1
  <2>4. \A i \in 1 .. 17 : c[i] = at(32 + i)
        BY <2>1, <2>2, <2>3
  <2> QED BY <2>1, <2>3, <2>4
<1>7. /\ d \in Seq(V) /\ Len(d) = 1
      /\ \A i \in 1 .. 1 : d[i] = at(49 + i)
  <2>1. StubOf(50) = INTH /\ \A i \in 1 .. 1 : i = 1 /\ 49 + i = 50
        BY DEF StubOf
  <2>2. /\ d \in Seq(V) /\ Len(d) = Len(one)
        /\ \A i \in 1 .. Len(one) : d[i] = [irq |-> one[i], stub |-> INTH]
        BY <1>1, <1>2
  <2>3. d[1] = at(50)
    <3>1. VectorOf(50) = 128
          BY VectorsOf
    <3>2. Len(one) = 1 /\ one[1] = 128
          BY <1>2
    <3>3. \A i \in 1 .. Len(one) : d[i] = [irq |-> one[i], stub |-> INTH]
          BY <2>2
    <3>4. 1 \in 1 .. Len(one)
          BY <3>2
    <3>5. d[1] = [irq |-> one[1], stub |-> INTH]
          BY <3>3, <3>4
    <3> QED BY <2>1, <3>1, <3>2, <3>5
  <2> QED BY <1>2, <2>1, <2>2, <2>3
<1> HIDE DEF a, b, c, d, at
<1>8. ASSUME NEW s \in Seq(V), NEW t \in Seq(V),
             \A i \in 1 .. Len(s) : s[i] = at(i),
             \A i \in 1 .. Len(t) : t[i] = at(Len(s) + i)
      PROVE  /\ s \o t \in Seq(V) /\ Len(s \o t) = Len(s) + Len(t)
             /\ \A i \in 1 .. Len(s) + Len(t) : (s \o t)[i] = at(i)
  <2>1. /\ Len(s) \in Nat /\ Len(t) \in Nat
        /\ s \o t \in Seq(V) /\ Len(s \o t) = Len(s) + Len(t)
        /\ \A k \in 1 .. Len(s) : (s \o t)[k] = s[k]
        /\ \A k \in 1 .. Len(t) : (s \o t)[Len(s) + k] = t[k]
        BY Concatenation
  <2>2. ASSUME NEW i \in 1 .. Len(s) + Len(t) PROVE (s \o t)[i] = at(i)
    <3>1. CASE i \in 1 .. Len(s)
          BY <1>8, <2>1, <3>1
    <3>2. CASE i \notin 1 .. Len(s)
      <4>1. i - Len(s) \in 1 .. Len(t) /\ Len(s) + (i - Len(s)) = i
            BY <2>1, <3>2
      <4>2. (s \o t)[Len(s) + (i - Len(s))] = t[i - Len(s)]
            BY <2>1, <4>1
      <4>3. t[i - Len(s)] = at(Len(s) + (i - Len(s)))
            BY <1>8, <4>1
      <4> QED BY <4>1, <4>2, <4>3
    <3> QED BY <3>1, <3>2
  <2> QED BY <2>1, <2>2
<1>9. /\ a \o b \in Seq(V) /\ Len(a \o b) = 32
      /\ \A i \in 1 .. 32 : (a \o b)[i] = at(i)
  <2> DEFINE s == a
  <2> HIDE DEF s
  <2>1. s \in Seq(V) /\ b \in Seq(V)
        BY <1>4, <1>5 DEF s
  <2>2. Len(s) = 13 /\ Len(b) = 19
        BY <1>4, <1>5 DEF s
  <2>3. /\ \A i \in 1 .. 13 : s[i] = at(i)
        /\ \A i \in 1 .. 19 : b[i] = at(13 + i)
        BY <1>4, <1>5 DEF s
  <2>4. /\ s \o b \in Seq(V) /\ Len(s \o b) = Len(s) + Len(b)
        /\ \A i \in 1 .. Len(s) + Len(b) : (s \o b)[i] = at(i)
    <3>1. /\ \A i \in 1 .. Len(s) : s[i] = at(i)
          /\ \A i \in 1 .. Len(b) : b[i] = at(Len(s) + i)
          BY <2>2, <2>3
    <3> QED BY <1>8, <2>1, <3>1
  <2>5. Len(s) + Len(b) = 32
        BY <2>2
  <2>6. s \o b \in Seq(V) /\ Len(s \o b) = 32 /\ \A i \in 1 .. 32 : (s \o b)[i] = at(i)
        BY <2>4, <2>5
  <2> QED BY <2>6 DEF s
<1>10. /\ (a \o b) \o c \in Seq(V) /\ Len((a \o b) \o c) = 49
      /\ \A i \in 1 .. 49 : ((a \o b) \o c)[i] = at(i)
  <2> DEFINE s == (a \o b)
  <2> HIDE DEF s
  <2>1. s \in Seq(V) /\ c \in Seq(V)
        BY <1>9, <1>6 DEF s
  <2>2. Len(s) = 32 /\ Len(c) = 17
        BY <1>9, <1>6 DEF s
  <2>3. /\ \A i \in 1 .. 32 : s[i] = at(i)
        /\ \A i \in 1 .. 17 : c[i] = at(32 + i)
        BY <1>9, <1>6 DEF s
  <2>4. /\ s \o c \in Seq(V) /\ Len(s \o c) = Len(s) + Len(c)
        /\ \A i \in 1 .. Len(s) + Len(c) : (s \o c)[i] = at(i)
    <3>1. /\ \A i \in 1 .. Len(s) : s[i] = at(i)
          /\ \A i \in 1 .. Len(c) : c[i] = at(Len(s) + i)
          BY <2>2, <2>3
    <3> QED BY <1>8, <2>1, <3>1
  <2>5. Len(s) + Len(c) = 49
        BY <2>2
  <2>6. s \o c \in Seq(V) /\ Len(s \o c) = 49 /\ \A i \in 1 .. 49 : (s \o c)[i] = at(i)
        BY <2>4, <2>5
  <2> QED BY <2>6 DEF s
<1>11. /\ ((a \o b) \o c) \o d \in Seq(V) /\ Len(((a \o b) \o c) \o d) = 50
      /\ \A i \in 1 .. 50 : (((a \o b) \o c) \o d)[i] = at(i)
  <2> DEFINE s == ((a \o b) \o c)
  <2> HIDE DEF s
  <2>1. s \in Seq(V) /\ d \in Seq(V)
        BY <1>10, <1>7 DEF s
  <2>2. Len(s) = 49 /\ Len(d) = 1
        BY <1>10, <1>7 DEF s
  <2>3. /\ \A i \in 1 .. 49 : s[i] = at(i)
        /\ \A i \in 1 .. 1 : d[i] = at(49 + i)
        BY <1>10, <1>7 DEF s
  <2>4. /\ s \o d \in Seq(V) /\ Len(s \o d) = Len(s) + Len(d)
        /\ \A i \in 1 .. Len(s) + Len(d) : (s \o d)[i] = at(i)
    <3>1. /\ \A i \in 1 .. Len(s) : s[i] = at(i)
          /\ \A i \in 1 .. Len(d) : d[i] = at(Len(s) + i)
          BY <2>2, <2>3
    <3> QED BY <1>8, <2>1, <3>1
  <2>5. Len(s) + Len(d) = 50
        BY <2>2
  <2>6. s \o d \in Seq(V) /\ Len(s \o d) = 50 /\ \A i \in 1 .. 50 : (s \o d)[i] = at(i)
        BY <2>4, <2>5
  <2> QED BY <2>6 DEF s
<1> QED BY <1>3, <1>11 DEF at

(* No two handlers have the same vector, and every trap of user mode has   *)
(* one: a stub for error codes if that is what the CPU pushes.             *)
LEMMA VectorsDiffer ==
  /\ \A i \in 1 .. 50 : VectorOf(i) \in 0 .. 255
  /\ \A i, j \in 1 .. 50 : VectorOf(i) = VectorOf(j) => i = j
  /\ \A i \in 1 .. 50 : VectorOf(i) = 128 <=> i = 50
BY DEF VectorOf

(* Every trap has its handler, and the stub that fits what the CPU pushes  *)
(* for it.                                                                 *)
LEMMA VectorsCover ==
  /\ \A v \in Exceptions :
       \E i \in 1 .. 50 : VectorOf(i) = v /\ (i \in 14 .. 32 <=> v \in HaveErrorCodes)
  /\ \A line \in 0 .. 15 :
       \E i \in 1 .. 50 : VectorOf(i) = 32 + line /\ i \notin 14 .. 32
  /\ \E i \in 1 .. 50 : VectorOf(i) = 128 /\ i \notin 14 .. 32
<1>1. ASSUME NEW v \in Exceptions
      PROVE  \E i \in 1 .. 50 : VectorOf(i) = v /\ (i \in 14 .. 32 <=> v \in HaveErrorCodes)
  <2> DEFINE i == CASE v \in 0 .. 7 -> v + 1
                    [] v = 8 -> 14
                    [] v = 9 -> 9
                    [] v \in 10 .. 14 -> v + 5
                    [] v = 16 -> 10
                    [] v = 17 -> 20
                    [] v \in 18 .. 20 -> v - 7
  <2>1. v \in 0 .. 20 /\ v # 15
        BY DEF Exceptions
  <2>2. /\ v \in 0 .. 7 => i = v + 1
        /\ v = 8 => i = 14
        /\ v = 9 => i = 9
        /\ v \in 10 .. 14 => i = v + 5
        /\ v = 16 => i = 10
        /\ v = 17 => i = 20
        /\ v \in 18 .. 20 => i = v - 7
        BY <2>1
  <2> HIDE DEF i
  <2>3. i \in 1 .. 50 /\ VectorOf(i) = v
        BY <2>1, <2>2 DEF VectorOf
  <2>4. i \in 14 .. 32 <=> v \in HaveErrorCodes
        BY <2>1, <2>2 DEF HaveErrorCodes
  <2> QED BY <2>3, <2>4
<1>2. ASSUME NEW line \in 0 .. 15
      PROVE  \E i \in 1 .. 50 : VectorOf(i) = 32 + line /\ i \notin 14 .. 32
  <2>1. VectorOf(33 + line) = 32 + line /\ 33 + line \in 1 .. 50
        BY DEF VectorOf
  <2> QED BY <2>1
<1>3. \E i \in 1 .. 50 : VectorOf(i) = 128 /\ i \notin 14 .. 32
  <2>1. VectorOf(50) = 128
        BY DEF VectorOf
  <2> QED BY <2>1
<1> QED BY <1>1, <1>2, <1>3

-----------------------------------------------------------------------------
(* What the CPU makes of a stub.                                           *)

(* What is left of a stack without what was pushed on it.                  *)
LEMMA DropFront ==
  ASSUME NEW V, NEW s \in Seq(V), NEW t \in Seq(V)
  PROVE  Drop(s \o t, Len(s)) = t
<1> DEFINE u == s \o t
           m == Len(s)
           n == Len(t)
<1>1. /\ m \in Nat /\ n \in Nat /\ u \in Seq(V) /\ Len(u) = m + n
      /\ \A k \in 1 .. n : u[m + k] = t[k]
      BY Concatenation
<1> HIDE DEF u, m
<1>2. /\ Len(SubSeq(u, m + 1, m + n)) = n
      /\ \A k \in 1 .. n : SubSeq(u, m + 1, m + n)[k] = u[m + 1 + k - 1]
      /\ SubSeq(u, m + 1, m + n) \in Seq(V)
      BY <1>1, SubSeqProperties
<1>3. \A k \in 1 .. n : SubSeq(u, m + 1, m + n)[k] = t[k]
  <2> SUFFICES ASSUME NEW k \in 1 .. n PROVE SubSeq(u, m + 1, m + n)[k] = t[k]
      OBVIOUS
  <2>1. m + 1 + k - 1 = m + k
        BY <1>1
  <2> QED BY <1>1, <1>2, <2>1
<1>4. SubSeq(u, m + 1, m + n) = t
      BY <1>2, <1>3, SeqEqual
<1> QED BY <1>1, <1>4 DEF Drop, u, m

(* What pushad pushes.                                                     *)
Registers == [r \in 1 .. 8 |-> <<"register">>]

On(x, st) == <<x>> \o st

(* What a stub finds on the stack, and what it leaves.                     *)
Stacked(x, y, st) ==
  LET p == Registers \o st
      q == On(y, On(x, p))
  IN  /\ q[1] = y /\ q[2] = x
      /\ Drop(q, 2) = p /\ Drop(p, 8) = st
      /\ Len(st) > 0 => p[9] = st[1]

(* It takes registers of which nothing is known but that they are there.   *)
LEMMA StackIs ==
  ASSUME NEW V, NEW x \in V, NEW y \in V, NEW st \in Seq(V), <<"register">> \in V
  PROVE  Stacked(x, y, st)
<1> DEFINE p == Registers \o st
           a == <<x>>
           b == <<y>>
<1>1. Registers \in Seq(V) /\ Len(Registers) = 8
      BY DEF Registers
<1>2. a \in Seq(V) /\ Len(a) = 1 /\ a[1] = x /\ b \in Seq(V) /\ Len(b) = 1 /\ b[1] = y
      OBVIOUS
<1>3. Drop(p, 8) = st /\ (Len(st) > 0 => p[9] = st[1]) /\ p \in Seq(V)
  <2>1. Drop(p, Len(Registers)) = st
    <3>1. Registers \in Seq(V)
          BY <1>1
    <3> QED BY <3>1, DropFront
  <2>2. /\ p \in Seq(V)
        /\ \A k \in 1 .. Len(st) : p[Len(Registers) + k] = st[k]
    <3>1. Registers \in Seq(V)
          BY <1>1
    <3> QED BY <3>1, Concatenation
  <2>3. Len(st) \in Nat /\ Len(Registers) = 8
        BY <1>1
  <2> HIDE DEF p
  <2>4. Len(st) > 0 => p[9] = st[1]
    <3>1. Len(st) > 0 => 1 \in 1 .. Len(st) /\ Len(Registers) + 1 = 9
          BY <2>3
    <3> QED BY <2>2, <3>1
  <2>5. Drop(p, 8) = st
        BY <2>1, <2>3
  <2> QED BY <2>2, <2>4, <2>5
<1> HIDE DEF p, a, b
<1> DEFINE u == a \o p
           q == b \o u
<1>4. /\ u \in Seq(V) /\ Len(u) \in Nat /\ Len(u) = 1 + Len(p) /\ Len(p) \in Nat
      /\ u[1] = x
  <2>1. /\ u \in Seq(V) /\ Len(u) = Len(a) + Len(p) /\ Len(p) \in Nat
        /\ \A k \in 1 .. Len(a) : u[k] = a[k]
    <3>1. a \in Seq(V) /\ p \in Seq(V)
          BY <1>2, <1>3
    <3> QED BY <3>1, Concatenation
  <2> QED BY <1>2, <2>1
<1> HIDE DEF u
<1>5. q[1] = y /\ q[2] = x
  <2>1. /\ \A k \in 1 .. Len(b) : q[k] = b[k]
        /\ \A k \in 1 .. Len(u) : q[Len(b) + k] = u[k]
    <3>1. b \in Seq(V) /\ u \in Seq(V)
          BY <1>2, <1>4
    <3> QED BY <3>1, Concatenation
  <2>2. 1 \in 1 .. Len(b) /\ 1 \in 1 .. Len(u) /\ Len(b) + 1 = 2
        BY <1>2, <1>4
  <2>3. q[1] = b[1] /\ q[2] = u[1]
        BY <2>1, <2>2
  <2> QED BY <1>2, <1>4, <2>3
<1>6. Drop(q, 2) = p
  <2> DEFINE ba == b \o a
  <2>1. a \in Seq(V) /\ b \in Seq(V) /\ p \in Seq(V)
        BY <1>2, <1>3
  <2>2. q = ba \o p
    <3>1. (b \o a) \o p = b \o (a \o p)
          BY <2>1, ConcatAssociative
    <3> QED BY <3>1 DEF u
  <2>3. ba \in Seq(V) /\ Len(ba) = 2
    <3>1. ba \in Seq(V) /\ Len(ba) = Len(b) + Len(a)
          BY <2>1, Concatenation
    <3> QED BY <1>2, <3>1
  <2> HIDE DEF ba
  <2>4. Drop(ba \o p, Len(ba)) = p
        BY <2>1, <2>3, DropFront
  <2> QED BY <2>2, <2>3, <2>4
<1> QED BY <1>3, <1>5, <1>6 DEF u, p, a, b, On, Stacked

(* The state of a stub, and before its iretd.                              *)
State(st, e, c, r) == [stack |-> st, eax |-> e, called |-> c, resumes |-> r]
NoRegister == <<"register">>
NoCall == <<>>

EaxAfter(s, i) == IF i[1] = "mov_eax" THEN s.stack[9] ELSE s.eax
CalledAfter(s, i) == IF i[1] = "call" THEN <<s.stack[1], s.stack[2]>> ELSE s.called
ResumesAfter(s, i) == IF i[1] = "iretd" THEN s.stack[1] ELSE <<>>

(* The fields of the state after an instruction, one by one.               *)
LEMMA StepShape ==
  ASSUME NEW s, s.resumes = <<>>, NEW i
  PROVE  Step(s, i) = State(StackAfter(s, i), EaxAfter(s, i), CalledAfter(s, i),
                            ResumesAfter(s, i))
<1>1. Step(s, i)
        = State(StackAfter(s, i),
                IF i[1] = "mov_eax" THEN s.stack[9] ELSE s.eax,
                IF i[1] = "call" THEN <<s.stack[1], s.stack[2]>> ELSE s.called,
                IF i[1] = "iretd" THEN s.stack[1] ELSE <<>>)
      BY Zenon DEF Step, State
<1> QED BY <1>1, Zenon DEF EaxAfter, CalledAfter, ResumesAfter

Running(st, e, c) == State(st, e, c, <<>>)
TopTwo(st) == <<st[1], st[2]>>

(* What an instruction of a kind makes of the state.                       *)
Does(kind, s, t) == \A i : i[1] = kind => Step(s, i) = t
Pushes(st, e, c) == \A i : i[1] = "dword" => Step(Running(st, e, c), i) = Running(On(i, st), e, c)

(* One instruction, before the iretd and after it.                         *)
LEMMA StepIs ==
  ASSUME NEW st, NEW e, NEW c
  PROVE  /\ Does("pushad", Running(st, e, c), Running(Registers \o st, e, c))
         /\ Does("push_0", Running(st, e, c), Running(On(Dword(0), st), e, c))
         /\ Does("push_eax", Running(st, e, c), Running(On(e, st), e, c))
         /\ Pushes(st, e, c)
         /\ Does("add_esp", Running(st, e, c), Running(Drop(st, 2), e, c))
         /\ Does("popad", Running(st, e, c), Running(Drop(st, 8), e, c))
         /\ Does("push", Running(st, e, c), Running(st, e, c))
         /\ Does("mov_eax", Running(st, e, c), Running(st, st[9], c))
         /\ Does("call", Running(st, e, c), Running(st, e, TopTwo(st)))
         /\ Does("iretd", Running(st, e, c), State(st, e, c, st[1]))
<1> DEFINE s == Running(st, e, c)
<1>1. s.stack = st /\ s.eax = e /\ s.called = c /\ s.resumes = <<>>
      BY DEF State, Running
<1> HIDE DEF s
<1>2. ASSUME NEW i, i[1] # "mov_eax", i[1] # "call", i[1] # "iretd"
      PROVE  Step(s, i) = Running(StackAfter(s, i), e, c)
  <2>1. EaxAfter(s, i) = e
        BY <1>1, <1>2 DEF EaxAfter
  <2>2. CalledAfter(s, i) = c
        BY <1>1, <1>2 DEF CalledAfter
  <2>3. ResumesAfter(s, i) = <<>>
        BY <1>2 DEF ResumesAfter
  <2> QED BY <1>1, <2>1, <2>2, <2>3, StepShape DEF Running
<1>3. ASSUME NEW i, i[1] = "pushad"
      PROVE  Step(s, i) = Running(Registers \o st, e, c)
  <2>1. StackAfter(s, i) = Registers \o st
        BY <1>1, <1>3 DEF StackAfter, Registers
  <2> QED BY <1>2, <1>3, <2>1
<1>4. ASSUME NEW i, i[1] = "push_0"
      PROVE  Step(s, i) = Running(On(Dword(0), st), e, c)
  <2>1. StackAfter(s, i) = On(Dword(0), st)
        BY <1>1, <1>4 DEF StackAfter, On
  <2> QED BY <1>2, <1>4, <2>1
<1>5. ASSUME NEW i, i[1] = "push_eax"
      PROVE  Step(s, i) = Running(On(e, st), e, c)
  <2>1. StackAfter(s, i) = On(e, st)
        BY <1>1, <1>5 DEF StackAfter, On
  <2> QED BY <1>2, <1>5, <2>1
<1>6. ASSUME NEW i, i[1] = "dword"
      PROVE  Step(s, i) = Running(On(i, st), e, c)
  <2>1. StackAfter(s, i) = On(i, st)
        BY <1>1, <1>6 DEF StackAfter, On
  <2> QED BY <1>2, <1>6, <2>1
<1>7. ASSUME NEW i, i[1] = "add_esp"
      PROVE  Step(s, i) = Running(Drop(st, 2), e, c)
  <2>1. StackAfter(s, i) = Drop(st, 2)
        BY <1>1, <1>7 DEF StackAfter
  <2> QED BY <1>2, <1>7, <2>1
<1>8. ASSUME NEW i, i[1] = "popad"
      PROVE  Step(s, i) = Running(Drop(st, 8), e, c)
  <2>1. StackAfter(s, i) = Drop(st, 8)
        BY <1>1, <1>8 DEF StackAfter
  <2> QED BY <1>2, <1>8, <2>1
<1>9. ASSUME NEW i, i[1] = "push"
      PROVE  Step(s, i) = Running(st, e, c)
  <2>1. StackAfter(s, i) = st
        BY <1>1, <1>9 DEF StackAfter
  <2> QED BY <1>2, <1>9, <2>1
<1>10. ASSUME NEW i, i[1] = "mov_eax"
      PROVE  Step(s, i) = Running(st, st[9], c)
  <2>1. StackAfter(s, i) = st
        BY <1>1, <1>10 DEF StackAfter
  <2>2. i[1] # "call" /\ i[1] # "iretd"
        BY <1>10
  <2>3. EaxAfter(s, i) = st[9]
        BY <1>1, <1>10, <2>2 DEF EaxAfter
  <2>4. CalledAfter(s, i) = c
        BY <1>1, <1>10, <2>2 DEF CalledAfter
  <2>5. ResumesAfter(s, i) = <<>>
        BY <1>1, <1>10, <2>2 DEF ResumesAfter
  <2> QED BY <1>1, <2>1, <2>3, <2>4, <2>5, StepShape DEF Running
<1>11. ASSUME NEW i, i[1] = "call"
      PROVE  Step(s, i) = Running(st, e, TopTwo(st))
  <2>1. StackAfter(s, i) = st
        BY <1>1, <1>11 DEF StackAfter
  <2>2. i[1] # "mov_eax" /\ i[1] # "iretd"
        BY <1>11
  <2>3. EaxAfter(s, i) = e
        BY <1>1, <1>11, <2>2 DEF EaxAfter
  <2>4. CalledAfter(s, i) = TopTwo(st)
        BY <1>1, <1>11, <2>2 DEF CalledAfter, TopTwo
  <2>5. ResumesAfter(s, i) = <<>>
        BY <1>1, <1>11, <2>2 DEF ResumesAfter
  <2> QED BY <1>1, <2>1, <2>3, <2>4, <2>5, StepShape DEF Running
<1>12. ASSUME NEW i, i[1] = "iretd"
      PROVE  Step(s, i) = State(st, e, c, st[1])
  <2>1. StackAfter(s, i) = st
        BY <1>1, <1>12 DEF StackAfter
  <2>2. i[1] # "mov_eax" /\ i[1] # "call"
        BY <1>12
  <2>3. EaxAfter(s, i) = e
        BY <1>1, <1>12, <2>2 DEF EaxAfter
  <2>4. CalledAfter(s, i) = c
        BY <1>1, <1>12, <2>2 DEF CalledAfter
  <2>5. ResumesAfter(s, i) = st[1]
        BY <1>1, <1>12, <2>2 DEF ResumesAfter
  <2> QED BY <1>1, <2>1, <2>3, <2>4, <2>5, StepShape
<1> QED BY <1>3, <1>4, <1>5, <1>6, <1>7, <1>8, <1>9, <1>10, <1>11, <1>12 DEF s,
           Does, Pushes

(* Behind the iretd of a short stub, nothing more runs.                    *)
LEMMA AfterIretd ==
  ASSUME NEW st, NEW e, NEW c, NEW r, r # <<>>, NEW i
  PROVE  Step(State(st, e, c, r), i) = State(st, e, c, r)
BY DEF Step, State

(* A stub runs instruction by instruction.                                 *)
LEMMA RunIs ==
  ASSUME NEW address \in Nat, NEW st
  PROVE  LET i(n) == Instruction(address + n)
             s0 == Running(st, NoRegister, NoCall)
             s3 == Step(Step(Step(s0, i(0)), i(1)), i(2))
             s6 == Step(Step(Step(s3, i(3)), i(4)), i(5))
             s9 == Step(Step(Step(s6, i(6)), i(7)), i(8))
         IN  RunStub(address, st) = s9
<1> DEFINE I(n) == Instruction(address + n - 1)
           s0 == Running(st, NoRegister, NoCall)
           s1 == Step(s0, I(1))
           s2 == Step(s1, I(2))
           s3 == Step(s2, I(3))
           s4 == Step(s3, I(4))
           s5 == Step(s4, I(5))
           s6 == Step(s5, I(6))
           s7 == Step(s6, I(7))
           s8 == Step(s7, I(8))
           s9 == Step(s8, I(9))
           S(n) == CASE n = 0 -> s0 [] n = 1 -> s1 [] n = 2 -> s2 [] n = 3 -> s3
                     [] n = 4 -> s4 [] n = 5 -> s5 [] n = 6 -> s6 [] n = 7 -> s7
                     [] n = 8 -> s8 [] n = 9 -> s9
           Eq(g) == g = [n \in 0 .. 9 |-> IF n = 0 THEN s0 ELSE Step(g[n - 1], I(n))]
           f == [n \in 0 .. 9 |-> S(n)]
<1>1. /\ S(0) = s0 /\ S(1) = Step(S(0), I(1)) /\ S(2) = Step(S(1), I(2))
      /\ S(3) = Step(S(2), I(3)) /\ S(4) = Step(S(3), I(4)) /\ S(5) = Step(S(4), I(5))
      /\ S(6) = Step(S(5), I(6)) /\ S(7) = Step(S(6), I(7)) /\ S(8) = Step(S(7), I(8))
      /\ S(9) = Step(S(8), I(9))
  <2> HIDE DEF s0, s1, s2, s3, s4, s5, s6, s7, s8, s9, I
  <2>1. /\ S(0) = s0 /\ S(1) = s1 /\ S(2) = s2 /\ S(3) = s3 /\ S(4) = s4
        /\ S(5) = s5 /\ S(6) = s6 /\ S(7) = s7 /\ S(8) = s8 /\ S(9) = s9
        OBVIOUS
  <2> HIDE DEF S
  <2> QED BY <2>1 DEF s1, s2, s3, s4, s5, s6, s7, s8, s9
<1>2. \A g : g[9] = S(9) \/ ~ Eq(g)
  <2> SUFFICES ASSUME NEW g, Eq(g) PROVE g[9] = S(9)
      OBVIOUS
  <2> HIDE DEF S, I, s0
  <2>1. \A n \in 0 .. 9 : g[n] = IF n = 0 THEN s0 ELSE Step(g[n - 1], I(n))
        OBVIOUS
  <2> HIDE DEF Eq
  <2>2. /\ g[0] = s0 /\ g[1] = Step(g[0], I(1)) /\ g[2] = Step(g[1], I(2))
        /\ g[3] = Step(g[2], I(3)) /\ g[4] = Step(g[3], I(4)) /\ g[5] = Step(g[4], I(5))
        /\ g[6] = Step(g[5], I(6)) /\ g[7] = Step(g[6], I(7)) /\ g[8] = Step(g[7], I(8))
        /\ g[9] = Step(g[8], I(9))
        BY <2>1
  <2>3. g[3] = S(3)
        BY <1>1, <2>2
  <2>4. g[6] = S(6)
        BY <1>1, <2>2, <2>3
  <2> QED BY <1>1, <2>2, <2>4
<1>3. Eq(f)
  <2> HIDE DEF S, I, s0
  <2>1. ASSUME NEW n \in 0 .. 9
        PROVE  f[n] = IF n = 0 THEN s0 ELSE Step(f[n - 1], I(n))
    <3>1. n \in {0, 1, 2, 3, 4, 5, 6, 7, 8, 9}
          OBVIOUS
    <3>2. f[n] = S(n) /\ (n # 0 => f[n - 1] = S(n - 1))
          OBVIOUS
    <3> HIDE DEF f
    <3>3. n # 0 => S(n) = Step(S(n - 1), I(n))
          BY <1>1, <3>1
    <3> QED BY <1>1, <3>2, <3>3
  <2>2. f = [n \in 0 .. 9 |-> f[n]]
        OBVIOUS
  <2> HIDE DEF f
  <2> QED BY <2>1, <2>2
<1>4. Run(address, st) = CHOOSE g : Eq(g)
      BY StubsAre DEF Run, State, Running, NoRegister, NoCall
<1>5. Eq(Run(address, st))
  <2> HIDE DEF Eq, f
  <2> QED BY <1>3, <1>4
<1>6. RunStub(address, st) = S(9)
  <2> HIDE DEF Eq, S
  <2> QED BY <1>2, <1>5, StubsAre DEF RunStub
<1> QED BY <1>6

(* The stub of a trap without an error code gives 0, and goes back.        *)
LEMMA RunPlain ==
  ASSUME NEW address \in Nat, NEW st, NEW V, st \in Seq(V), Len(st) > 0, st[1] # <<>>,
         NEW v, NEW copy,
         \A k \in 1 .. 8 : copy[k] = IF k = 4 THEN Dword(v) ELSE INTH[k],
         \A k \in 1 .. 8 : Instruction(address + k - 1) = copy[k]
  PROVE  /\ RunStub(address, st).called = <<Dword(v), Dword(0)>>
         /\ RunStub(address, st).resumes = st[1]
<1> DEFINE e == NoRegister
           p == Registers \o st
           q == On(Dword(0), p)
           r == On(Dword(v), q)
           c == TopTwo(r)
           i(n) == Instruction(address + n)
           s0 == Running(st, e, NoCall)
<1>1. /\ i(0)[1] = "pushad" /\ i(1)[1] = "push_0" /\ i(2)[1] = "push"
      /\ i(3) = Dword(v) /\ i(3)[1] = "dword" /\ i(4)[1] = "call"
      /\ i(5)[1] = "add_esp" /\ i(6)[1] = "popad" /\ i(7)[1] = "iretd"
  <2>1. /\ INTH[1][1] = "pushad" /\ INTH[2][1] = "push_0" /\ INTH[3][1] = "push"
        /\ INTH[5][1] = "call" /\ INTH[6][1] = "add_esp"
        /\ INTH[7][1] = "popad" /\ INTH[8][1] = "iretd"
        BY StubsAre
  <2>2. \A n \in 0 .. 7 : i(n) = copy[n + 1]
    <3> SUFFICES ASSUME NEW n \in 0 .. 7 PROVE i(n) = copy[n + 1]
        OBVIOUS
    <3>1. n + 1 \in 1 .. 8 /\ address + (n + 1) - 1 = address + n
          OBVIOUS
    <3>2. Instruction(address + (n + 1) - 1) = copy[n + 1]
          BY <3>1
    <3> QED BY <3>1, <3>2
  <2>3. /\ copy[1] = INTH[1] /\ copy[2] = INTH[2] /\ copy[3] = INTH[3]
        /\ copy[4] = Dword(v) /\ copy[5] = INTH[5] /\ copy[6] = INTH[6]
        /\ copy[7] = INTH[7] /\ copy[8] = INTH[8]
        OBVIOUS
  <2>4. Dword(v)[1] = "dword"
        BY DEF Dword
  <2> HIDE DEF i
  <2>5. /\ i(0) = copy[1] /\ i(1) = copy[2] /\ i(2) = copy[3] /\ i(3) = copy[4]
        /\ i(4) = copy[5] /\ i(5) = copy[6] /\ i(6) = copy[7] /\ i(7) = copy[8]
        BY <2>2
  <2> QED BY <2>1, <2>3, <2>4, <2>5
<1>2. r[1] = Dword(v) /\ r[2] = Dword(0) /\ Drop(r, 2) = p /\ Drop(p, 8) = st
  <2> DEFINE W == V \cup {Dword(0), Dword(v), <<"register">>}
  <2>1. st \in Seq(W) /\ Dword(0) \in W /\ Dword(v) \in W /\ <<"register">> \in W
        OBVIOUS
  <2> HIDE DEF W, p, q, r
  <2>2. Len(st) > 0
        OBVIOUS
  <2>3. Stacked(Dword(0), Dword(v), st)
        BY <2>1, StackIs
  <2> QED BY <2>2, <2>3 DEF p, q, r, Stacked
<1>3. RunStub(address, st)
        = Step(Step(Step(Step(Step(Step(Step(Step(Step(s0, i(0)), i(1)), i(2)),
                                            i(3)), i(4)), i(5)), i(6)), i(7)), i(8))
      BY RunIs
<1> HIDE DEF e, p, q, r, c, i
<1>4. Step(Step(Step(s0, i(0)), i(1)), i(2)) = Running(q, e, NoCall)
  <2>1. Step(s0, i(0)) = Running(p, e, NoCall)
    <3>1. Does("pushad", s0, Running(p, e, NoCall))
          BY StepIs DEF p
    <3>2. i(0)[1] = "pushad"
          BY <1>1
    <3> QED BY <3>1, <3>2 DEF Does
  <2>2. Step(Running(p, e, NoCall), i(1)) = Running(q, e, NoCall)
    <3>1. Does("push_0", Running(p, e, NoCall), Running(q, e, NoCall))
          BY StepIs DEF q
    <3>2. i(1)[1] = "push_0"
          BY <1>1
    <3> QED BY <3>1, <3>2 DEF Does
  <2>3. Step(Running(q, e, NoCall), i(2)) = Running(q, e, NoCall)
    <3>1. Does("push", Running(q, e, NoCall), Running(q, e, NoCall))
          BY StepIs
    <3>2. i(2)[1] = "push"
          BY <1>1
    <3> QED BY <3>1, <3>2 DEF Does
  <2> QED BY <2>1, <2>2, <2>3
<1>5. Step(Step(Running(q, e, NoCall), i(3)), i(4)) = Running(r, e, c)
  <2>1. Step(Running(q, e, NoCall), i(3)) = Running(r, e, NoCall)
    <3>1. Pushes(q, e, NoCall)
          BY StepIs
    <3>2. i(3)[1] = "dword" /\ i(3) = Dword(v)
          BY <1>1
    <3> QED BY <3>1, <3>2 DEF r, Pushes
  <2>2. Step(Running(r, e, NoCall), i(4)) = Running(r, e, c)
    <3>1. Does("call", Running(r, e, NoCall), Running(r, e, c))
          BY StepIs DEF c
    <3>2. i(4)[1] = "call"
          BY <1>1
    <3> QED BY <3>1, <3>2 DEF Does
  <2> QED BY <2>1, <2>2
<1>6. Step(Step(Step(Running(r, e, c), i(5)), i(6)), i(7)) = State(st, e, c, st[1])
  <2>1. Step(Running(r, e, c), i(5)) = Running(p, e, c)
    <3>1. Does("add_esp", Running(r, e, c), Running(p, e, c))
          BY <1>2, StepIs
    <3>2. i(5)[1] = "add_esp"
          BY <1>1
    <3> QED BY <3>1, <3>2 DEF Does
  <2>2. Step(Running(p, e, c), i(6)) = Running(st, e, c)
    <3>1. Does("popad", Running(p, e, c), Running(st, e, c))
          BY <1>2, StepIs
    <3>2. i(6)[1] = "popad"
          BY <1>1
    <3> QED BY <3>1, <3>2 DEF Does
  <2>3. Step(Running(st, e, c), i(7)) = State(st, e, c, st[1])
    <3>1. Does("iretd", Running(st, e, c), State(st, e, c, st[1]))
          BY StepIs
    <3>2. i(7)[1] = "iretd"
          BY <1>1
    <3> QED BY <3>1, <3>2 DEF Does
  <2> QED BY <2>1, <2>2, <2>3
<1>7. Step(State(st, e, c, st[1]), i(8)) = State(st, e, c, st[1])
      BY AfterIretd
<1>8. RunStub(address, st) = State(st, e, c, st[1])
      BY <1>3, <1>4, <1>5, <1>6, <1>7
<1>9. c = <<Dword(v), Dword(0)>>
      BY <1>2 DEF c, TopTwo
<1> QED BY <1>8, <1>9 DEF State

(* The stub of a trap with an error code gives that.                       *)
LEMMA RunWithError ==
  ASSUME NEW address \in Nat, NEW st, NEW V, st \in Seq(V), Len(st) > 0,
         NEW v, NEW copy,
         \A k \in 1 .. 9 : copy[k] = IF k = 5 THEN Dword(v) ELSE INTH_ERR[k],
         \A k \in 1 .. 9 : Instruction(address + k - 1) = copy[k]
  PROVE  RunStub(address, st).called = <<Dword(v), st[1]>>
<1> DEFINE e == NoRegister
           x == st[1]
           p == Registers \o st
           q == On(x, p)
           r == On(Dword(v), q)
           c == TopTwo(r)
           i(n) == Instruction(address + n)
           s0 == Running(st, e, NoCall)
<1>1. /\ i(0)[1] = "pushad" /\ i(1)[1] = "mov_eax" /\ i(2)[1] = "push_eax"
      /\ i(3)[1] = "push" /\ i(4) = Dword(v) /\ i(4)[1] = "dword"
      /\ i(5)[1] = "call" /\ i(6)[1] = "add_esp" /\ i(7)[1] = "popad"
      /\ i(8)[1] = "iretd"
  <2>1. /\ INTH_ERR[1][1] = "pushad" /\ INTH_ERR[2][1] = "mov_eax"
        /\ INTH_ERR[3][1] = "push_eax" /\ INTH_ERR[4][1] = "push"
        /\ INTH_ERR[6][1] = "call" /\ INTH_ERR[7][1] = "add_esp"
        /\ INTH_ERR[8][1] = "popad" /\ INTH_ERR[9][1] = "iretd"
        BY StubsAre
  <2>2. \A n \in 0 .. 8 : i(n) = copy[n + 1]
    <3> SUFFICES ASSUME NEW n \in 0 .. 8 PROVE i(n) = copy[n + 1]
        OBVIOUS
    <3>1. n + 1 \in 1 .. 9 /\ address + (n + 1) - 1 = address + n
          OBVIOUS
    <3>2. Instruction(address + (n + 1) - 1) = copy[n + 1]
          BY <3>1
    <3> QED BY <3>1, <3>2
  <2>3. /\ copy[1] = INTH_ERR[1] /\ copy[2] = INTH_ERR[2] /\ copy[3] = INTH_ERR[3]
        /\ copy[4] = INTH_ERR[4] /\ copy[5] = Dword(v) /\ copy[6] = INTH_ERR[6]
        /\ copy[7] = INTH_ERR[7] /\ copy[8] = INTH_ERR[8] /\ copy[9] = INTH_ERR[9]
        OBVIOUS
  <2>4. Dword(v)[1] = "dword"
        BY DEF Dword
  <2> HIDE DEF i
  <2>5. /\ i(0) = copy[1] /\ i(1) = copy[2] /\ i(2) = copy[3] /\ i(3) = copy[4]
        /\ i(4) = copy[5] /\ i(5) = copy[6] /\ i(6) = copy[7] /\ i(7) = copy[8]
        /\ i(8) = copy[9]
        BY <2>2
  <2> QED BY <2>1, <2>3, <2>4, <2>5
<1>2. /\ r[1] = Dword(v) /\ r[2] = x /\ Drop(r, 2) = p /\ Drop(p, 8) = st
      /\ p[9] = x
  <2> DEFINE W == V \cup {x, Dword(v), <<"register">>}
  <2>1. st \in Seq(W) /\ x \in W /\ Dword(v) \in W /\ <<"register">> \in W
        OBVIOUS
  <2> HIDE DEF W, p, q, r, x
  <2>2. Len(st) > 0
        OBVIOUS
  <2>3. Stacked(x, Dword(v), st)
        BY <2>1, StackIs
  <2>4. p[9] = x
        BY <2>2, <2>3 DEF p, x, Stacked
  <2> QED BY <2>3, <2>4 DEF p, q, r, Stacked
<1>3. RunStub(address, st)
        = Step(Step(Step(Step(Step(Step(Step(Step(Step(s0, i(0)), i(1)), i(2)),
                                            i(3)), i(4)), i(5)), i(6)), i(7)), i(8))
      BY RunIs
<1> HIDE DEF e, p, q, r, c, i, x
<1>4. Step(Step(Step(s0, i(0)), i(1)), i(2)) = Running(q, x, NoCall)
  <2>1. Step(s0, i(0)) = Running(p, e, NoCall)
    <3>1. Does("pushad", s0, Running(p, e, NoCall))
          BY StepIs DEF p
    <3>2. i(0)[1] = "pushad"
          BY <1>1
    <3> QED BY <3>1, <3>2 DEF Does
  <2>2. Step(Running(p, e, NoCall), i(1)) = Running(p, x, NoCall)
    <3>1. Does("mov_eax", Running(p, e, NoCall), Running(p, x, NoCall))
          BY <1>2, StepIs
    <3>2. i(1)[1] = "mov_eax"
          BY <1>1
    <3> QED BY <3>1, <3>2 DEF Does
  <2>3. Step(Running(p, x, NoCall), i(2)) = Running(q, x, NoCall)
    <3>1. Does("push_eax", Running(p, x, NoCall), Running(q, x, NoCall))
          BY StepIs DEF q
    <3>2. i(2)[1] = "push_eax"
          BY <1>1
    <3> QED BY <3>1, <3>2 DEF Does
  <2> QED BY <2>1, <2>2, <2>3
<1>5. Step(Step(Step(Running(q, x, NoCall), i(3)), i(4)), i(5)) = Running(r, x, c)
  <2>1. Step(Running(q, x, NoCall), i(3)) = Running(q, x, NoCall)
    <3>1. Does("push", Running(q, x, NoCall), Running(q, x, NoCall))
          BY StepIs
    <3>2. i(3)[1] = "push"
          BY <1>1
    <3> QED BY <3>1, <3>2 DEF Does
  <2>2. Step(Running(q, x, NoCall), i(4)) = Running(r, x, NoCall)
    <3>1. Pushes(q, x, NoCall)
          BY StepIs
    <3>2. i(4)[1] = "dword" /\ i(4) = Dword(v)
          BY <1>1
    <3> QED BY <3>1, <3>2 DEF r, Pushes
  <2>3. Step(Running(r, x, NoCall), i(5)) = Running(r, x, c)
    <3>1. Does("call", Running(r, x, NoCall), Running(r, x, c))
          BY StepIs DEF c
    <3>2. i(5)[1] = "call"
          BY <1>1
    <3> QED BY <3>1, <3>2 DEF Does
  <2> QED BY <2>1, <2>2, <2>3
<1>6. Step(Step(Step(Running(r, x, c), i(6)), i(7)), i(8)) = State(st, x, c, x)
  <2>1. Step(Running(r, x, c), i(6)) = Running(p, x, c)
    <3>1. Does("add_esp", Running(r, x, c), Running(p, x, c))
          BY <1>2, StepIs
    <3>2. i(6)[1] = "add_esp"
          BY <1>1
    <3> QED BY <3>1, <3>2 DEF Does
  <2>2. Step(Running(p, x, c), i(7)) = Running(st, x, c)
    <3>1. Does("popad", Running(p, x, c), Running(st, x, c))
          BY <1>2, StepIs
    <3>2. i(7)[1] = "popad"
          BY <1>1
    <3> QED BY <3>1, <3>2 DEF Does
  <2>3. Step(Running(st, x, c), i(8)) = State(st, x, c, x)
    <3>1. Does("iretd", Running(st, x, c), State(st, x, c, x))
          BY StepIs DEF x
    <3>2. i(8)[1] = "iretd"
          BY <1>1
    <3> QED BY <3>1, <3>2 DEF Does
  <2> QED BY <2>1, <2>2, <2>3
<1>7. RunStub(address, st) = State(st, x, c, x)
      BY <1>3, <1>4, <1>5, <1>6
<1>8. c = <<Dword(v), x>>
      BY <1>2 DEF c, TopTwo
<1> QED BY <1>7, <1>8 DEF State, x

-----------------------------------------------------------------------------
(* The handlers.                                                           *)

StubAt(i) == StubsStart + (i - 1) * StubSize
CopyOf(i) == Build(StubOf(i), VectorOf(i))
CopySize(i) == IF i \in 14 .. 32 THEN 9 ELSE 8

(* The copy of a stub is the stub, but for the vector where the magic      *)
(* number was.                                                             *)
LEMMA CopyIs ==
  ASSUME NEW i \in 1 .. 50
  PROVE  /\ Len(CopyOf(i)) = CopySize(i)
         /\ i \in 14 .. 32 => \A k \in 1 .. 9 :
              CopyOf(i)[k] = IF k = 5 THEN Dword(VectorOf(i)) ELSE INTH_ERR[k]
         /\ i \notin 14 .. 32 => \A k \in 1 .. 8 :
              CopyOf(i)[k] = IF k = 4 THEN Dword(VectorOf(i)) ELSE INTH[k]
<1> DEFINE d == Dword(VectorOf(i))
<1>1. ASSUME NEW V, NEW s \in Seq(V), NEW x, NEW n \in 1 .. Len(s)
      PROVE  /\ Len([s EXCEPT ![n] = x]) = Len(s)
             /\ \A k \in 1 .. Len(s) : [s EXCEPT ![n] = x][k] = IF k = n THEN x ELSE s[k]
  <2> DEFINE W == V \cup {x}
             t == [s EXCEPT ![n] = x]
  <2>1. s \in Seq(W) /\ x \in W
        OBVIOUS
  <2> HIDE DEF W
  <2>2. t \in Seq(W) /\ Len(t) = Len(s)
        BY <2>1
  <2> QED BY <2>2
<1>2. PICK V : INTH \in Seq(V) /\ INTH_ERR \in Seq(V)
      BY StubsAre
<1>3. CASE i \in 14 .. 32
  <2>1. CopyOf(i) = [INTH_ERR EXCEPT ![5] = d]
        BY <1>3, IrqOffsets DEF CopyOf, Build, StubOf
  <2>2. Len(INTH_ERR) = 9
        BY StubsAre
  <2> HIDE DEF d
  <2>3. 5 \in 1 .. Len(INTH_ERR)
        BY <2>2
  <2>4. /\ Len([INTH_ERR EXCEPT ![5] = d]) = Len(INTH_ERR)
        /\ \A k \in 1 .. Len(INTH_ERR) :
             [INTH_ERR EXCEPT ![5] = d][k] = IF k = 5 THEN d ELSE INTH_ERR[k]
        BY <1>1, <1>2, <2>3
  <2> QED BY <1>3, <2>1, <2>2, <2>4 DEF CopySize, d
<1>4. CASE i \notin 14 .. 32
  <2>1. CopyOf(i) = [INTH EXCEPT ![4] = d]
        BY <1>4, IrqOffsets DEF CopyOf, Build, StubOf
  <2>2. Len(INTH) = 8
        BY StubsAre
  <2> HIDE DEF d
  <2>3. 4 \in 1 .. Len(INTH)
        BY <2>2
  <2>4. /\ Len([INTH EXCEPT ![4] = d]) = Len(INTH)
        /\ \A k \in 1 .. Len(INTH) :
             [INTH EXCEPT ![4] = d][k] = IF k = 4 THEN d ELSE INTH[k]
        BY <1>1, <1>2, <2>3
  <2> QED BY <1>4, <2>1, <2>2, <2>4 DEF CopySize, d
<1> QED BY <1>3, <1>4

(* The handlers created so far: a gate for each vector, and where it leads *)
(* to, the copy of the vector's stub.                                      *)
Built ==
  /\ created \in 0 .. 50
  /\ DOMAIN idt = {VectorOf(i) : i \in 1 .. created}
  /\ \A i \in 1 .. created : idt[VectorOf(i)] = Gate(VectorOf(i), StubAt(i))
  /\ DOMAIN stubs \subseteq StubsStart .. StubsStart + PageSize - 1
  /\ \A i \in 1 .. created : \A k \in 1 .. CopySize(i) :
       Instruction(StubAt(i) + k - 1) = CopyOf(i)[k]

(* The handlers' slab holds the copies one behind the other, in its page.  *)
LEMMA StubsDisjoint ==
  ASSUME NEW i \in 1 .. 50
  PROVE  /\ StubAt(i) \in Nat /\ StubAt(i) + CopySize(i) <= StubsStart + PageSize
         /\ StubsStart <= StubAt(i) /\ StubAt(i) \in 0 .. Memory - 1
         /\ \A j \in 1 .. 50 : j < i => StubAt(j) + CopySize(j) <= StubAt(i)
         /\ StubAt(i) + CopySize(i) - 1 < StubAt(i + 1)
<1>1. StubSize = 9 /\ StubsStart \in Nat /\ 450 <= PageSize
      /\ StubsStart + PageSize <= Memory /\ PageSize \in Nat
      BY StubsAre, HandlersAre, StubsFitAPage, TableAssumption
<1>2. \A j \in 1 .. 51 : StubAt(j) = StubsStart + (j - 1) * 9
      BY <1>1 DEF StubAt
<1>3. \A j \in 1 .. 50 : CopySize(j) \in 8 .. 9
      BY DEF CopySize
<1>4. Memory \in Nat
      BY Widths
<1>5. StubAt(i) = StubsStart + (i - 1) * 9 /\ StubAt(i + 1) = StubsStart + i * 9
      BY <1>2
<1>6. CopySize(i) \in 8 .. 9
      BY <1>3
<1>7. ASSUME NEW j \in 1 .. 50, j < i
      PROVE  StubAt(j) + CopySize(j) <= StubAt(i)
  <2>1. StubAt(j) = StubsStart + (j - 1) * 9 /\ CopySize(j) \in 8 .. 9
        BY <1>2, <1>3
  <2> QED BY <1>1, <1>5, <1>7, <2>1
<1> QED BY <1>1, <1>4, <1>5, <1>6, <1>7

(* The next handler leaves those before it as they are.                    *)
LEMMA StepBuilt ==
  ASSUME Built, created < 50, CreateHandler
  PROVE  Built'
<1> DEFINE n == created + 1
           v == VectorOf(n)
           dest == StubAt(n)
           copy == CopyOf(n)
           element == dest .. dest + CopySize(n) - 1
<1>1. n \in 1 .. 50 /\ n - 1 = created /\ created' = n /\ n' = n + 1
      BY DEF Built, CreateHandler
<1>2. HandlerOrder[n] = [irq |-> v, stub |-> StubOf(n)]
  <2> HIDE DEF n
  <2> QED BY <1>1, HandlersAre
<1>3. StubsStart + created * StubSize = dest
      BY DEF StubAt, Built
<1>4. Len(copy) = CopySize(n)
  <2> HIDE DEF n
  <2> QED BY <1>1, CopyIs
<1>5. /\ stubs' = [a \in DOMAIN stubs \cup element |->
                     IF a \in element THEN copy[a - dest + 1] ELSE stubs[a]]
      /\ idt' = [irq \in DOMAIN idt \cup {v} |->
                   IF irq = v THEN Gate(v, dest) ELSE idt[irq]]
  <2>1. HandlerOrder[created + 1].irq = v /\ HandlerOrder[created + 1].stub = StubOf(n)
        BY <1>2
  <2>2. Build(HandlerOrder[created + 1].stub, HandlerOrder[created + 1].irq) = copy
        BY <2>1 DEF CopyOf
  <2> HIDE DEF v, dest, copy
  <2> QED BY <1>3, <1>4, <2>1, <2>2 DEF CreateHandler
<1>6. \A i \in 1 .. created : VectorOf(i) # v
  <2> SUFFICES ASSUME NEW i \in 1 .. created, VectorOf(i) = v PROVE FALSE
      OBVIOUS
  <2>1. i \in 1 .. 50 /\ i # n
        BY DEF Built
  <2>2. VectorOf(i) = VectorOf(n)
        OBVIOUS
  <2> HIDE DEF n, v
  <2>3. \A a, b \in 1 .. 50 : VectorOf(a) = VectorOf(b) => a = b
        BY VectorsDiffer
  <2> QED BY <1>1, <2>1, <2>2, <2>3
<1>7. /\ dest \in Nat /\ dest + CopySize(n) <= StubsStart + PageSize
      /\ StubsStart <= dest
      /\ \A j \in 1 .. 50 : j < n => StubAt(j) + CopySize(j) <= dest
  <2> HIDE DEF n
  <2> QED BY <1>1, StubsDisjoint
<1>8. CopySize(n) \in 8 .. 9
      BY DEF CopySize
<1> HIDE DEF n, v, dest, copy
<1>9. n \in 1 .. 50 /\ 1 .. n = 1 .. created \cup {n} /\ created \in 0 .. 50
      BY <1>1 DEF Built
<1>10. DOMAIN idt' = {VectorOf(i) : i \in 1 .. created'}
  <2>1. DOMAIN idt' = {VectorOf(i) : i \in 1 .. created} \cup {v}
        BY <1>5 DEF Built
  <2>2. \A x : x \in {VectorOf(i) : i \in 1 .. created} \cup {v}
                 <=> \E i \in 1 .. created \cup {n} : x = VectorOf(i)
        BY DEF v
  <2>3. DOMAIN idt' = {VectorOf(i) : i \in 1 .. created \cup {n}}
        BY <2>1, <2>2
  <2> QED BY <1>1, <1>9, <2>3
<1>11. \A i \in 1 .. created' : idt'[VectorOf(i)] = Gate(VectorOf(i), StubAt(i))
  <2> SUFFICES ASSUME NEW i \in 1 .. created \cup {n}
               PROVE  idt'[VectorOf(i)] = Gate(VectorOf(i), StubAt(i))
      BY <1>1, <1>9
  <2>1. CASE i = n
        BY <1>5, <2>1 DEF v, dest
  <2>2. CASE i \in 1 .. created
    <3>1. VectorOf(i) # v /\ VectorOf(i) \in DOMAIN idt
          /\ idt[VectorOf(i)] = Gate(VectorOf(i), StubAt(i))
          BY <1>6, <2>2 DEF Built
    <3> QED BY <1>5, <3>1
  <2> QED BY <2>1, <2>2
<1>12. DOMAIN stubs' \subseteq StubsStart .. StubsStart + PageSize - 1
  <2>1. element \subseteq StubsStart .. StubsStart + PageSize - 1
    <3>1. PageSize \in Nat /\ StubsStart \in Nat
          BY TableAssumption, StubsFitAPage
    <3> QED BY <1>7, <1>8, <3>1
  <2>2. DOMAIN stubs' = DOMAIN stubs \cup element
    <3> HIDE DEF element
    <3> QED BY <1>5
  <2> HIDE DEF element
  <2> QED BY <2>1, <2>2 DEF Built
<1>13. ASSUME NEW i \in 1 .. created', NEW k \in 1 .. CopySize(i)
       PROVE  Instruction(StubAt(i) + k - 1)' = CopyOf(i)[k]
  <2> DEFINE a == StubAt(i) + k - 1
  <2>0. a' = a /\ CopySize(i) \in 8 .. 9 /\ i \in 1 .. 50
        BY <1>1, <1>9 DEF StubAt, CopySize
  <2>1. StubAt(i) \in Nat
        BY <2>0, StubsDisjoint
  <2>2. CASE i = n
    <3>1. a \in element /\ a - dest + 1 = k
          BY <1>7, <1>8, <2>1, <2>2 DEF dest
    <3>2. a \in DOMAIN stubs' /\ stubs'[a] = copy[a - dest + 1]
      <4> HIDE DEF element, a
      <4> QED BY <1>5, <3>1
    <3>3. Instruction(a)' = copy[k]
      <4> HIDE DEF a
      <4> QED BY <2>0, <3>1, <3>2 DEF Instruction
    <3> QED BY <2>2, <3>3 DEF copy
  <2>3. CASE i \in 1 .. created
    <3>1. Instruction(a) = CopyOf(i)[k]
          BY <2>3 DEF Built
    <3>2. a \notin element
      <4>1. i < n
            BY <1>1, <2>3, <1>9
      <4> QED BY <1>7, <1>8, <2>0, <2>1, <4>1
    <3>3. (a \in DOMAIN stubs' <=> a \in DOMAIN stubs)
          /\ (a \in DOMAIN stubs => stubs'[a] = stubs[a])
      <4> HIDE DEF element, a
      <4> QED BY <1>5, <3>2
    <3>4. Instruction(a)' = Instruction(a)
      <4> HIDE DEF a
      <4> QED BY <2>0, <3>3 DEF Instruction
    <3> QED BY <3>1, <3>4
  <2> QED BY <1>1, <1>9, <2>2, <2>3
<1> QED BY <1>1, <1>9, <1>10, <1>11, <1>12, <1>13 DEF Built

(* All handlers are there, and what a trap from user mode needs.           *)
Ready ==
  /\ Built /\ created = 50
  /\ gdt = Gdt /\ tss.ss0 = 16 /\ tss.esp0 # 0
  /\ idtr.limit = IdtBytes - 1

(* A trap gets through its gate to its stub.                               *)
LEMMA Deliver ==
  ASSUME Ready, NEW i \in 1 .. 50
  PROVE  /\ Delivered(VectorOf(i))
         /\ VectorOf(i) \in DOMAIN idt /\ idt[VectorOf(i)].dpl = GateDpl(VectorOf(i))
         /\ idt[VectorOf(i)].type = TypeBits("INTERRUPT")
         /\ GetOffset(idt[VectorOf(i)]) = StubAt(i) /\ StubAt(i) \in Nat
<1> DEFINE v == VectorOf(i)
           dest == StubAt(i)
           g == Gate(v, dest)
<1>1. v \in DOMAIN idt /\ idt[v] = g
  <2>1. DOMAIN idt = {VectorOf(j) : j \in 1 .. 50}
        /\ \A j \in 1 .. 50 : idt[VectorOf(j)] = Gate(VectorOf(j), StubAt(j))
        BY DEF Ready, Built
  <2> QED BY <2>1
<1>2. dest \in 0 .. Memory - 1 /\ dest \in Nat
      BY StubsDisjoint
<1>3. /\ g.present = 1 /\ g.dpl = GateDpl(v) /\ g.segment = 8
      /\ g.type = TypeBits("INTERRUPT") /\ GetOffset(g) = dest
  <2> HIDE DEF v, dest
  <2> QED BY <1>2, GateIs
<1>4. v \in 0 .. 255
      BY VectorsDiffer
<1> HIDE DEF v, dest, g
<1>5. (v + 1) * (IdtBytes \div 256) <= idtr.limit + 1
  <2> DEFINE m == IdtBytes \div 256
  <2>1. IdtBytes = 256 * m /\ m \in Nat
        BY IdtAssumption
  <2>2. idtr.limit + 1 = IdtBytes
        BY IdtAssumption DEF Ready
  <2> HIDE DEF m
  <2>3. (v + 1) * m <= 256 * m
        BY <1>4, <2>1
  <2> QED BY <2>1, <2>2, <2>3 DEF m
<1>6. IsSegment(Selected(8), TRUE, 0, 0, Memory - 1)
      /\ IsSegment(Selected(16), FALSE, 0, 0, Memory - 1)
      BY Segments DEF Ready
<1>7. Delivered(v)
      BY <1>1, <1>3, <1>5, <1>6 DEF Delivered, Ready
<1> QED BY <1>1, <1>2, <1>3, <1>7 DEF v, dest

(* What the stub that is reached calls handle_interrupt() with, for a trap *)
(* that pushes an error code where the list says so.                       *)
LEMMA Reports ==
  ASSUME Ready, NEW i \in 1 .. 50, NEW errorCode,
         errorCode = IF i \in 14 .. 32 THEN <<Dword(ErrorCode)>> ELSE <<>>
  PROVE  LET r == RunStub(GetOffset(idt[VectorOf(i)]), Saved(errorCode)) IN
         /\ i \in 14 .. 32 => r.called = <<Dword(VectorOf(i)), Dword(ErrorCode)>>
         /\ i \notin 14 .. 32 => r.called = <<Dword(VectorOf(i)), Dword(0)>>
                               /\ r.resumes = <<"eip">>
<1> DEFINE dest == StubAt(i)
           st == Saved(errorCode)
           copy == CopyOf(i)
           u == << <<"eip">>, <<"cs">>, <<"eflags">>, <<"esp">>, <<"ss">> >>
           V == {<<"eip">>, <<"cs">>, <<"eflags">>, <<"esp">>, <<"ss">>, Dword(ErrorCode)}
<1>1. GetOffset(idt[VectorOf(i)]) = dest /\ dest \in Nat
      BY Deliver
<1>2. \A k \in 1 .. CopySize(i) : Instruction(dest + k - 1) = copy[k]
      BY DEF Ready, Built
<1>3. u \in Seq(V) /\ Len(u) = 5 /\ u[1] = <<"eip">> /\ <<"eip">> # <<>>
      OBVIOUS
<1>4. CASE i \in 14 .. 32
  <2> DEFINE e == <<Dword(ErrorCode)>>
  <2>1. st = e \o u
        BY <1>4 DEF Saved
  <2>2. e \in Seq(V) /\ Len(e) = 1 /\ e[1] = Dword(ErrorCode)
        OBVIOUS
  <2> HIDE DEF e, u, V, dest, copy
  <2>3. /\ e \o u \in Seq(V) /\ Len(e \o u) = Len(e) + Len(u)
        /\ \A k \in 1 .. Len(e) : (e \o u)[k] = e[k]
    <3>1. e \in Seq(V) /\ u \in Seq(V)
          BY <1>3, <2>2
    <3> QED BY <3>1, Concatenation
  <2>4. st \in Seq(V) /\ Len(st) > 0 /\ st[1] = Dword(ErrorCode)
    <3> HIDE DEF st
    <3>1. 1 \in 1 .. Len(e) /\ Len(e \o u) = 6
          BY <1>3, <2>2, <2>3
    <3>2. (e \o u)[1] = e[1]
          BY <2>3, <3>1
    <3> QED BY <2>1, <2>2, <2>3, <3>1, <3>2
  <2>5. \A k \in 1 .. 9 : copy[k] = IF k = 5 THEN Dword(VectorOf(i)) ELSE INTH_ERR[k]
        BY <1>4, CopyIs DEF copy
  <2>6. \A k \in 1 .. 9 : Instruction(dest + k - 1) = copy[k]
        BY <1>2, <1>4 DEF CopySize
  <2> HIDE DEF st
  <2>7. RunStub(dest, st).called = <<Dword(VectorOf(i)), st[1]>>
        BY <1>1, <2>4, <2>5, <2>6, RunWithError
  <2> QED BY <1>1, <1>4, <2>4, <2>7 DEF st
<1>5. CASE i \notin 14 .. 32
  <2>1. st = <<>> \o u
        BY <1>5 DEF Saved
  <2> HIDE DEF u, V, dest, copy
  <2>2. st = u
        BY <1>3, <2>1
  <2> HIDE DEF st
  <2>3. st \in Seq(V) /\ Len(st) > 0 /\ st[1] = <<"eip">> /\ st[1] # <<>>
    <3>1. u \in Seq(V) /\ Len(u) > 0
          BY <1>3
    <3>2. u[1] = <<"eip">> /\ u[1] # <<>>
          BY <1>3, Zenon
    <3> QED BY <2>2, <3>1, <3>2
  <2>5. \A k \in 1 .. 8 : copy[k] = IF k = 4 THEN Dword(VectorOf(i)) ELSE INTH[k]
        BY <1>5, CopyIs DEF copy
  <2>6. \A k \in 1 .. 8 : Instruction(dest + k - 1) = copy[k]
        BY <1>2, <1>5 DEF CopySize
  <2> HIDE DEF st
  <2>7. /\ RunStub(dest, st).called = <<Dword(VectorOf(i)), Dword(0)>>
        /\ RunStub(dest, st).resumes = st[1]
    <3>1. st \in Seq(V) /\ Len(st) > 0 /\ st[1] # <<>>
          BY <2>3
    <3>2. dest \in Nat
          BY <1>1
    <3> DEFINE w == VectorOf(i)
    <3> HIDE DEF w
    <3>3. \A k \in 1 .. 8 : copy[k] = IF k = 4 THEN Dword(w) ELSE INTH[k]
          BY <2>5 DEF w
    <3>4. /\ RunStub(dest, st).called = <<Dword(w), Dword(0)>>
          /\ RunStub(dest, st).resumes = st[1]
          BY <2>6, <3>1, <3>2, <3>3, RunPlain
    <3> QED BY <3>4 DEF w
  <2> QED BY <1>1, <1>5, <2>3, <2>7 DEF st
<1> QED BY <1>4, <1>5

-----------------------------------------------------------------------------
(* The inductive invariant of the boot.                                    *)

(* The stages of the boot.                                                 *)
Early == {"cpu", "init_alloc", "interrupts", "create_idt"}
WithStack == {"extract", "running", "trap"}
WithArchive == {"listing", "load"} \cup WithStack
WithHandlers == {"init_allocator", "local_table", "local_page", "ramdisk"} \cup WithArchive
Booting == Early \cup {"alloc", "handlers", "init_allocator", "local_table", "local_page",
                        "ramdisk", "listing", "load", "extract"}
Phases == Booting \cup {"running", "trap", "hung"}

IdtPages == (IdtBytes + PageSize - 1) \div PageSize

(* The blocks the boot has taken when it is at a stage.                    *)
Taken ==
  CASE pc \in {"cpu", "init_alloc"}        -> 0
    [] pc = "interrupts"                   -> 1
    [] pc = "create_idt"                   -> 2
    [] pc = "alloc"                        -> 2 + alloced \div PageSize
    [] pc = "handlers"                     -> 2 + IdtPages + (IF created > 0 THEN 2 ELSE 0)
    [] pc = "init_allocator"               -> 4 + IdtPages
    [] pc = "local_table"                  -> 5 + IdtPages
    [] pc = "local_page"                   -> 6 + IdtPages
    [] pc \in {"ramdisk", "listing", "load"} -> 7 + IdtPages
    [] pc = "extract"                      -> 9 + IdtPages + extracted

Accounted ==
  /\ pc \in Phases
  /\ given \in 0 .. MaxSupply
  /\ pc \in Booting => given = supply + Taken

(* The IDT is the first to ask Kernel::alloc() for memory.                 *)
IdtAsked ==
  /\ AllocInv
  /\ pc \in Early => alloc_index = 0 /\ alloced = 0
  /\ pc = "alloc" => alloc_index = IdtBytes /\ alloced < IdtBytes + PageSize

(* What the CPU was given, and the handlers.                               *)
CpuReady ==
  /\ pc \notin {"cpu", "hung"} => gdt = Gdt
  /\ pc \in Booting \ {"cpu", "extract"} => tss = Tss
  /\ pc \in WithStack => tss = [Tss EXCEPT !.esp0 = StackWords]

HandlersReady ==
  /\ Built
  /\ pc \in Early \cup {"alloc"} => created = 0
  /\ pc = "handlers" => created < 50
  /\ pc \in WithHandlers => created = 50
  /\ pc \in {"handlers"} \cup WithHandlers => idtr.limit = IdtBytes - 1

(* The archive, and where the listing is in it.                            *)
DiskListed ==
  /\ num_files \in 0 .. MaxFiles
  /\ pc \in Booting \ WithArchive => archive = <<>> /\ num_files = 0
  /\ pc \in WithArchive =>
       /\ Written /\ files \in Archives
       /\ num_files \in 0 .. Len(files) /\ file = PlaceOf(num_files + 1)
  /\ pc \in WithArchive \ {"listing"} => num_files = Len(files)

(* The process that is made of mcp.                                        *)
ProcessReady ==
  /\ pc \in Booting \ {"extract"} => extracted = 0
  /\ pc \in Booting \ {"extract"} => stack = <<>>
  /\ stack \in {<<>>, InitStack(EntryPoint)}
  /\ pc \in WithStack => stack = InitStack(EntryPoint)
  /\ pc = "extract" =>
       Runnable /\ extracted \in Nat /\ process = FirstProcess(EntryPoint)
  /\ FirstEntryFits

BootInv ==
  /\ Accounted /\ IdtAsked /\ CpuReady /\ HandlersReady /\ DiskListed /\ ProcessReady
  /\ TrapsReported /\ HangsForAReason

(* A step that takes one block goes from a stage to the next, or hangs.    *)
Goes(from, to) == pc = from /\ Takes(1, to)

(* The five stages that only take a block, as pairs of pc.                 *)
LEMMA TakeTableIs ==
  ASSUME TakeTable
  PROVE  /\ \/ Goes("init_alloc", "interrupts") \/ Goes("interrupts", "create_idt")
            \/ Goes("init_allocator", "local_table") \/ Goes("local_table", "local_page")
            \/ Goes("local_page", "ramdisk")
         /\ UNCHANGED <<given, process, stack, extracted, context, kernelVars,
                        ramdiskVars>>
<1>1. PICK t \in Tables :
        /\ pc = t[1] /\ Takes(1, t[2])
        /\ UNCHANGED <<given, process, stack, extracted, context, kernelVars, ramdiskVars>>
      BY DEF TakeTable
<1>2. Goes(t[1], t[2])
      BY <1>1 DEF Goes
<1>3. \/ t[1] = "init_alloc" /\ t[2] = "interrupts"
      \/ t[1] = "interrupts" /\ t[2] = "create_idt"
      \/ t[1] = "init_allocator" /\ t[2] = "local_table"
      \/ t[1] = "local_table" /\ t[2] = "local_page"
      \/ t[1] = "local_page" /\ t[2] = "ramdisk"
      BY DEF Tables, InitAlloc, HandlersTable, InitAllocator, LocalTable, LocalPage
<1> QED BY <1>1, <1>2, <1>3

(* Taking blocks takes some or none.                                       *)
LEMMA TakesIs ==
  ASSUME NEW n \in Nat, NEW then, supply \in Nat, Takes(n, then)
  PROVE  /\ supply' \in Nat
         /\ \/ pc' = then /\ supply' = supply - n /\ supply >= n
            \/ pc' = "hung" /\ supply' = 0 /\ supply < n
BY DEF Takes

(* To Kernel::alloc(), every step of the boot is a call, a turn of its     *)
(* loop, or the rest of the kernel at its blocks.                          *)
LEMMA BootStepIs ==
  ASSUME AllocInv, [Next]_vars
  PROVE  AllocStep
<1>0. supply \in Nat
      BY DEF AllocInv, AllocTypeOK
<1>1. CASE \/ CpuInit \/ RamDiskFound \/ NoRamDisk \/ Listing \/ NotLoaded
           \/ EnterProcess \/ LeaveUser \/ UNCHANGED vars
  <2>1. UNCHANGED <<allocVars, supply>>
        BY <1>1 DEF CpuInit, RamDiskFound, NoRamDisk, Listing, NotLoaded,
           EnterProcess,
                    LeaveUser, vars, kernelVars
  <2> QED BY <1>0, <2>1 DEF AllocStep, OthersUsePMem
<1>2. CASE TakeTable
  <2>1. \E to : Takes(1, to)
        BY <1>2, TakeTableIs DEF Goes
  <2>2. UNCHANGED allocVars
        BY <1>2, TakeTableIs DEF kernelVars
  <2> QED BY <1>0, <2>1, <2>2, TakesIs DEF AllocStep, OthersUsePMem
<1>3. CASE CallAlloc
      BY <1>3, IdtAssumption DEF CallAlloc, AllocStep
<1>4. CASE AllocTurn
      BY <1>4 DEF AllocTurn, AllocStep
<1>5. CASE IdtCreated
      BY <1>5 DEF IdtCreated, AllocStep
<1>6. CASE Handlers \/ ProcessCreated \/ Extract
  <2>1. HandlerBlocks \in Nat /\ 1 \in Nat /\ 2 \in Nat
        BY DEF HandlerBlocks
  <2>2. \E n \in Nat : \E to : Takes(n, to)
        BY <1>6, <2>1 DEF Handlers, ProcessCreated, Extract
  <2>3. UNCHANGED allocVars
        BY <1>6 DEF Handlers, ProcessCreated, Extract, kernelVars
  <2> QED BY <1>0, <2>2, <2>3, TakesIs DEF AllocStep, OthersUsePMem
<1>7. CASE LaterAlloc
      BY <1>7, RequestsAssumption DEF LaterAlloc, AllocStep
<1>8. CASE LaterUse
      BY <1>8 DEF LaterUse, AllocStep
<1> QED BY <1>1, <1>2, <1>3, <1>4, <1>5, <1>6, <1>7, <1>8 DEF Next, Boots, Over

-----------------------------------------------------------------------------
(* The parts of the invariant.                                             *)

(* Until create_idt() is through, nobody else calls Kernel::alloc().       *)
LEMMA StepIdtAsked ==
  ASSUME BootInv, [Next]_vars
  PROVE  IdtAsked'
<1> USE TableAssumption, IdtAssumption DEF BootInv
<1>1. AllocInv'
      BY BootStepIs, StepAllocInv DEF IdtAsked
<1>2. CASE CallAlloc
  <2>1. pc' = "alloc" /\ alloc_index' = IdtBytes /\ alloced' = 0
    <3>1. alloc_index = 0 /\ alloced = 0
          BY <1>2 DEF CallAlloc, IdtAsked, Early
    <3> QED BY <1>2, <3>1 DEF CallAlloc, Alloc
  <2> QED BY <1>1, <2>1 DEF IdtAsked, Early
<1>3. CASE AllocTurn
  <2>1. CASE pc = "alloc"
    <3>1. pc' \in {"alloc", "hung"} /\ alloc_index' = alloc_index
          BY <1>3, <2>1 DEF AllocTurn, Grow, GrowFails
    <3>2. alloced' < IdtBytes + PageSize
      <4>1. alloc_index = IdtBytes /\ alloced < IdtBytes + PageSize /\ alloced \in Nat
            BY <2>1 DEF IdtAsked, AllocInv, AllocTypeOK
      <4> QED BY <1>3, <2>1, <4>1 DEF AllocTurn, Grow, GrowFails, WantsPage
    <3> QED BY <1>1, <2>1, <3>1, <3>2 DEF IdtAsked, Early
  <2>2. CASE pc = "running"
    <3>1. pc' = "running"
          BY <1>3, <2>2 DEF AllocTurn
    <3> QED BY <1>1, <3>1 DEF IdtAsked, Early
  <2> QED BY <1>3, <2>1, <2>2 DEF AllocTurn
<1>4. CASE TakeTable
  <2>1. UNCHANGED <<alloc_index, alloced>>
        BY <1>4, TakeTableIs DEF kernelVars, allocVars
  <2>2. pc' # "alloc" /\ (pc' \in Early => pc \in Early)
        BY <1>4, TakeTableIs DEF Goes, Takes, Early
  <2> QED BY <1>1, <2>1, <2>2 DEF IdtAsked
<1>5. CASE CpuInit
      BY <1>1, <1>5 DEF CpuInit, IdtAsked, Early, allocVars
<1>6. CASE Handlers
      BY <1>1, <1>6 DEF Handlers, Takes, IdtAsked, Early
<1>7. CASE \/ IdtCreated \/ RamDiskFound \/ NoRamDisk \/ Listing
           \/ NotLoaded \/ ProcessCreated \/ Extract \/ EnterProcess \/ LeaveUser
           \/ LaterAlloc
  <2>1. pc' \notin Early \cup {"alloc"}
        BY <1>7 DEF IdtCreated, RamDiskFound, NoRamDisk, Listing, NotLoaded,
                    ProcessCreated, Extract, EnterProcess, LeaveUser, LaterAlloc,
                    Takes, Early
  <2> QED BY <1>1, <2>1 DEF IdtAsked, Early
<1>8. CASE LaterUse
  <2>1. pc' = "running"
        BY <1>8 DEF LaterUse, bootVars
  <2> QED BY <1>1, <2>1 DEF IdtAsked, Early
<1>9. CASE UNCHANGED vars
      BY <1>1, <1>9 DEF IdtAsked, vars, bootVars, kernelVars, allocVars
<1> QED BY <1>2, <1>3, <1>4, <1>5, <1>6, <1>7, <1>8, <1>9 DEF Next, Boots, Over

(* Whole pages: n of them cover the IDT but n - 1 do not.                  *)
LEMMA PagesOfTheIdt ==
  /\ IdtPages \in Nat
  /\ \A n \in Nat : /\ (n * PageSize) \div PageSize = n
                    /\ n * PageSize < IdtBytes => n < IdtPages
                    /\ IdtBytes <= n * PageSize /\ n * PageSize < IdtBytes + PageSize
                         => n = IdtPages
<1> USE TableAssumption, IdtAssumption
<1> DEFINE b == IdtBytes + PageSize - 1
<1>1. IdtPages \in Nat /\ IdtPages * PageSize <= b /\ b < IdtPages * PageSize + PageSize
  <2>1. b \in Nat /\ IdtPages = b \div PageSize
        BY DEF IdtPages
  <2> HIDE DEF b
  <2> QED BY <2>1
<1>2. ASSUME NEW n \in Nat
      PROVE  /\ (n * PageSize) \div PageSize = n
             /\ n * PageSize < IdtBytes => n < IdtPages
             /\ IdtBytes <= n * PageSize /\ n * PageSize < IdtBytes + PageSize
                  => n = IdtPages
  <2>1. (n * PageSize) \div PageSize = n
        OBVIOUS
  <2>2. ASSUME n * PageSize < IdtBytes, IdtPages <= n
        PROVE  FALSE
    <3>1. IdtPages * PageSize <= n * PageSize
          BY <1>1, <2>2
    <3> QED BY <1>1, <2>2, <3>1
  <2>3. ASSUME IdtBytes <= n * PageSize, n * PageSize < IdtBytes + PageSize
        PROVE  n = IdtPages
    <3>1. ASSUME n < IdtPages PROVE FALSE
      <4>1. (n + 1) * PageSize <= IdtPages * PageSize
            BY <1>1, <3>1
      <4> QED BY <1>1, <2>3, <4>1
    <3>2. ASSUME IdtPages < n PROVE FALSE
      <4>1. (IdtPages + 1) * PageSize <= n * PageSize
            BY <1>1, <3>2
      <4> QED BY <1>1, <2>3, <4>1
    <3> QED BY <1>1, <3>1, <3>2
  <2> QED BY <1>1, <2>1, <2>2, <2>3
<1> QED BY <1>1, <1>2

(* When Kernel::alloc() runs out of blocks for the IDT, fewer than its     *)
(* pages were left; when it returns, it has taken just them.               *)
LEMMA IdtGrown ==
  ASSUME IdtAsked, pc = "alloc"
  PROVE  /\ alloced \div PageSize \in Nat
         /\ Grow => alloced' \div PageSize = alloced \div PageSize + 1
         /\ WantsPage => alloced \div PageSize < IdtPages
         /\ ~WantsPage => alloced \div PageSize = IdtPages
<1> USE TableAssumption, IdtAssumption
<1>1. PICK n \in Nat : alloced = n * PageSize
      BY DEF IdtAsked, AllocInv
<1>2. alloced \div PageSize = n
      BY <1>1, PagesOfTheIdt
<1>3. alloc_index = IdtBytes /\ alloced < IdtBytes + PageSize
      BY DEF IdtAsked
<1>4. ASSUME Grow PROVE alloced' \div PageSize = n + 1
  <2>1. alloced' = (n + 1) * PageSize /\ n + 1 \in Nat
        BY <1>1, <1>4 DEF Grow
  <2> QED BY <2>1, PagesOfTheIdt
<1>5. WantsPage => n < IdtPages
      BY <1>1, <1>3, PagesOfTheIdt DEF WantsPage
<1>6. ~WantsPage => n = IdtPages
  <2>1. ~WantsPage => IdtBytes <= n * PageSize
        BY <1>1, <1>3 DEF WantsPage
  <2> QED BY <1>1, <1>3, <2>1, PagesOfTheIdt
<1> QED BY <1>2, <1>4, <1>5, <1>6

(* Each stage takes just the blocks that are counted for it.               *)
LEMMA StepAccounted ==
  ASSUME BootInv, [Next]_vars
  PROVE  Accounted'
<1> USE DEF BootInv
<1>0. /\ supply \in Nat /\ IdtPages \in Nat /\ created \in 0 .. 50
      /\ IdtPages' = IdtPages
      BY PagesOfTheIdt DEF IdtAsked, AllocInv, AllocTypeOK, HandlersReady, Built,
         IdtPages
<1> DEFINE Counted == pc' \in Phases /\ (pc' \in Booting => given = supply' + Taken')
<1>1. given' = given
      BY TakeTableIs DEF Next, Boots, CpuInit, CallAlloc, AllocTurn, IdtCreated,
         Handlers,
         RamDiskFound, NoRamDisk, Listing, NotLoaded, ProcessCreated, Extract, EnterProcess,
         LeaveUser, LaterAlloc, LaterUse, Over, vars, bootVars
<1>2. CASE TakeTable
  <2>1. pc \in Booting /\ given = supply + Taken
        BY <1>2, TakeTableIs DEF Goes, Booting, Early, Accounted
  <2>2. ASSUME NEW from, NEW to, Goes(from, to)
        PROVE  \/ pc = from /\ pc' = to /\ supply' = supply - 1
               \/ pc' = "hung"
        BY <1>0, <2>2, TakesIs DEF Goes
  <2>3. \/ pc = "init_alloc" /\ pc' = "interrupts" /\ supply' = supply - 1
        \/ pc = "interrupts" /\ pc' = "create_idt" /\ supply' = supply - 1
        \/ pc = "init_allocator" /\ pc' = "local_table" /\ supply' = supply - 1
        \/ pc = "local_table" /\ pc' = "local_page" /\ supply' = supply - 1
        \/ pc = "local_page" /\ pc' = "ramdisk" /\ supply' = supply - 1
        \/ pc' = "hung"
        BY <1>2, <2>2, TakeTableIs
  <2>4. pc' \in Phases
        BY <2>3 DEF Phases, Booting, Early
  <2>5. pc' \in Booting => supply' = supply - 1 /\ Taken' = Taken + 1
        BY <1>0, <2>3 DEF Taken, Booting, Early
  <2>6. pc' \in Booting => Taken \in Nat
        BY <1>0, <2>3 DEF Taken, Booting, Early
  <2>7. Counted
        BY <1>0, <2>1, <2>4, <2>5, <2>6
  <2> QED BY <1>1, <2>7 DEF Accounted
<1>3. CASE AllocTurn
  <2>1. CASE pc = "running"
    <3>1. pc' = "running"
          BY <1>3, <2>1 DEF AllocTurn
    <3> QED BY <1>1, <3>1 DEF Accounted, Phases, Booting, Early
  <2>2. CASE pc = "alloc" /\ Grow
    <3>1. pc' = "alloc" /\ supply' = supply - 1
          BY <1>3, <2>2 DEF AllocTurn, Grow, GrowFails
    <3>2. Taken' = Taken + 1 /\ Taken \in Nat
          BY <2>2, <3>1, IdtGrown DEF Taken, Early
    <3>3. given = supply + Taken
          BY <2>2 DEF Accounted, Booting
    <3> QED BY <1>0, <1>1, <3>1, <3>2, <3>3 DEF Accounted, Phases, Booting
  <2>3. CASE pc = "alloc" /\ ~Grow
    <3>1. pc' = "hung"
          BY <1>3, <2>3 DEF AllocTurn
    <3> QED BY <1>1, <3>1 DEF Accounted, Phases, Booting, Early
  <2> QED BY <1>3, <2>1, <2>2, <2>3 DEF AllocTurn
<1>4. CASE IdtCreated
  <2>1. pc = "alloc" /\ pc' = "handlers" /\ ~WantsPage /\ supply' = supply /\ created' = 0
        BY <1>4 DEF IdtCreated, AllocReturns, CreateIdt, HandlersReady
  <2>2. Taken = 2 + IdtPages /\ Taken' = 2 + IdtPages
        BY <1>0, <2>1, IdtGrown DEF Taken, Early
  <2>3. given = supply + Taken
        BY <2>1 DEF Accounted, Booting
  <2> QED BY <1>1, <2>1, <2>2, <2>3 DEF Accounted, Phases, Booting
<1>5. CASE Handlers
  <2>1. HandlerBlocks \in {0, 2} /\ (created = 0 <=> HandlerBlocks = 2)
        BY DEF HandlerBlocks
  <2>2. given = supply + Taken /\ created < 50 /\ pc = "handlers"
        BY <1>5 DEF Handlers, Accounted, Booting, HandlersReady
  <2>3. \/ /\ pc' = IF created + 1 < 50 THEN "handlers" ELSE "init_allocator"
           /\ supply' = supply - HandlerBlocks /\ created' = created + 1
        \/ pc' = "hung"
    <3> DEFINE then == IF created + 1 < 50 THEN "handlers" ELSE "init_allocator"
    <3>1. Takes(HandlerBlocks, then) /\ (supply >= HandlerBlocks => created' = created + 1)
      <4>1. Len(HandlerOrder) = 50
            BY HandlersAre
      <4> QED BY <1>5, <4>1 DEF Handlers, CreateHandler
    <3> HIDE DEF then
    <3>2. \/ pc' = then /\ supply' = supply - HandlerBlocks /\ supply >= HandlerBlocks
          \/ pc' = "hung"
      <4>1. HandlerBlocks \in Nat
            BY <2>1
      <4> QED BY <1>0, <3>1, <4>1, TakesIs
    <3> QED BY <3>1, <3>2 DEF then
  <2>4. Taken = 2 + IdtPages + (IF created > 0 THEN 2 ELSE 0)
        BY <2>2 DEF Taken, Early
  <2>5. pc' \in Booting => Taken' = 4 + IdtPages
        BY <1>0, <2>3 DEF Taken, Booting, Early
  <2>6. pc' \in Phases /\ (pc' \in Booting => supply' = supply - HandlerBlocks)
        BY <2>3 DEF Phases, Booting, Early
  <2>7. Counted
        BY <1>0, <2>1, <2>2, <2>4, <2>5, <2>6
  <2> QED BY <1>1, <2>7 DEF Accounted
<1>6. CASE ProcessCreated \/ Extract
  <2>1. pc \in {"load", "extract"} /\ given = supply + Taken
        BY <1>6 DEF ProcessCreated, Extract, Accounted, Booting
  <2>2. Taken = IF pc = "load" THEN 7 + IdtPages ELSE 9 + IdtPages + extracted
        BY <2>1 DEF Taken, Early
  <2>3. \/ pc' = "hung"
        \/ pc = "load" /\ pc' = "extract" /\ supply' = supply - 2 /\ extracted' = 0
        \/ /\ pc = "extract" /\ pc' = "extract" /\ supply' = supply - 1
           /\ extracted' = extracted + 1 /\ extracted \in Nat
    <3>1. CASE ProcessCreated
      <4>1. extracted' = 0 /\ pc = "load"
            BY <3>1 DEF ProcessCreated, ProcessReady, Booting
      <4> QED BY <1>0, <3>1, <4>1, TakesIs DEF ProcessCreated
    <3>2. CASE Extract
      <4>1. extracted \in Nat
            BY <3>2 DEF Extract, ProcessReady
      <4> QED BY <1>0, <3>2, <4>1, TakesIs DEF Extract
    <3> QED BY <1>6, <3>1, <3>2
  <2>4. pc' = "extract" => Taken' = 9 + IdtPages + extracted'
        BY <1>0 DEF Taken, Early
  <2>5. Counted
        BY <1>0, <2>1, <2>2, <2>3, <2>4 DEF Phases, Booting, Early
  <2> QED BY <1>1, <2>5 DEF Accounted
<1>7. CASE CpuInit \/ CallAlloc \/ RamDiskFound \/ Listing
  <2>1. /\ supply' = supply
        /\ \/ pc = "cpu" /\ pc' = "init_alloc"
           \/ pc = "create_idt" /\ pc' = "alloc" /\ alloced' = 0
           \/ pc = "ramdisk" /\ pc' = "listing"
           \/ pc = "listing" /\ pc' \in {"listing", "load"}
    <3>1. pc = "create_idt" => alloced = 0
          BY DEF IdtAsked, Early
    <3> QED BY <1>7, <3>1 DEF CpuInit, CallAlloc, Alloc, RamDiskFound, Listing
  <2>2. given = supply + Taken
        BY <2>1 DEF Accounted, Booting, Early
  <2>3. Taken' = Taken
    <3>1. 0 \div PageSize = 0
          BY TableAssumption
    <3> QED BY <1>0, <2>1, <3>1 DEF Taken, Early
  <2> QED BY <1>1, <2>1, <2>2, <2>3 DEF Accounted, Phases, Booting, Early
<1>8. CASE \/ NoRamDisk \/ NotLoaded \/ EnterProcess \/ LeaveUser \/ LaterAlloc \/ LaterUse
  <2>1. pc' \in {"hung", "running", "trap"}
        BY <1>8 DEF NoRamDisk, NotLoaded, EnterProcess, LeaveUser, LaterAlloc,
           LaterUse,
                    bootVars
  <2> QED BY <1>1, <2>1 DEF Accounted, Phases, Booting, Early
<1>9. CASE UNCHANGED vars
  <2>1. pc' = pc /\ supply' = supply /\ Taken' = Taken
        BY <1>0, <1>9 DEF vars, bootVars, kernelVars, allocVars, gateVars, Taken
  <2> QED BY <1>1, <2>1 DEF Accounted
<1> QED BY <1>2, <1>3, <1>4, <1>5, <1>6, <1>7, <1>8, <1>9 DEF Next, Boots, Over

(* The tables of the CPU are written once, and the stack of the TSS when   *)
(* there is a process.                                                     *)
LEMMA StepCpuReady ==
  ASSUME BootInv, [Next]_vars
  PROVE  CpuReady'
<1> USE DEF BootInv
<1>1. CASE CpuInit
      BY <1>1 DEF CpuInit, InitGdt, CpuReady, WithStack
<1>2. CASE ProcessCreated
  <2>1. pc = "load" /\ gdt = Gdt /\ tss = Tss /\ gdt' = gdt
        BY <1>2 DEF ProcessCreated, CpuReady, Booting
  <2>2. \/ pc' = "hung"
        \/ pc' = "extract" /\ tss' = [Tss EXCEPT !.esp0 = StackWords]
    <3>1. supply \in Nat
          BY DEF IdtAsked, AllocInv, AllocTypeOK
    <3>2. CASE supply < 2
      <4>1. Takes(2, "extract") /\ 2 \in Nat
            BY <1>2 DEF ProcessCreated
      <4>2. pc' = "hung"
            BY <3>1, <3>2, <4>1, TakesIs
      <4> QED BY <4>2, Zenon
    <3>3. CASE ~(supply < 2)
      <4>1. pc' = "extract" /\ SetRing3SyscallStack(StackWords)
            BY <1>2, <3>1, <3>3 DEF ProcessCreated, Takes
      <4> QED BY <2>1, <4>1 DEF SetRing3SyscallStack
    <3> QED BY <3>2, <3>3
  <2> QED BY <2>1, <2>2 DEF CpuReady, Booting, Early, WithStack
<1>3. CASE TakeTable
  <2>1. UNCHANGED <<gdt, tss>> /\ pc \notin WithStack \cup {"cpu", "hung"}
        /\ pc \in Booting /\ pc' \notin WithStack
        BY <1>3, TakeTableIs DEF Goes, Takes, kernelVars, WithStack, Booting, Early
  <2> QED BY <2>1 DEF CpuReady, WithStack
<1>4. CASE Handlers \/ AllocTurn \/ CallAlloc \/ IdtCreated \/ RamDiskFound \/ NoRamDisk
             \/ Listing \/ NotLoaded
  <2>1. UNCHANGED <<gdt, tss>>
        BY <1>4 DEF Handlers, AllocTurn, CallAlloc, IdtCreated, RamDiskFound,
           NoRamDisk,
                    Listing, NotLoaded, kernelVars
  <2>2. \/ pc' = "hung"
        \/ pc \in Booting \ {"cpu", "extract"} /\ pc' \in Booting \ {"cpu", "extract"}
        \/ pc = "running" /\ pc' = "running"
        BY <1>4 DEF Handlers, AllocTurn, CallAlloc, IdtCreated, RamDiskFound,
           NoRamDisk,
                    Listing, NotLoaded, Takes, Booting, Early
  <2> QED BY <2>1, <2>2 DEF CpuReady, WithStack, Booting, Early
<1>5. CASE Extract \/ EnterProcess \/ LeaveUser \/ LaterAlloc \/ LaterUse
  <2>1. UNCHANGED <<gdt, tss>>
        BY <1>5 DEF Extract, EnterProcess, LeaveUser, LaterAlloc, LaterUse,
           kernelVars
  <2>2. pc' = "hung" \/ (pc \in WithStack /\ pc' \in WithStack)
        BY <1>5 DEF Extract, EnterProcess, LeaveUser, LaterAlloc, LaterUse, Takes,
                    WithStack, bootVars
  <2>3. /\ pc \in WithStack => pc \notin {"cpu", "hung"}
        /\ pc' \in WithStack => pc' \notin Booting \ {"cpu", "extract"}
        /\ "hung" \notin WithStack \cup Booting
        BY DEF WithStack, Booting, Early
  <2> QED BY <2>1, <2>2, <2>3 DEF CpuReady
<1>6. CASE UNCHANGED vars
      BY <1>6 DEF vars, bootVars, kernelVars, CpuReady
<1> QED BY <1>1, <1>2, <1>3, <1>4, <1>5, <1>6 DEF Next, Boots, Over

(* The gates follow the IDT, all fifty, and stay.                          *)
LEMMA StepHandlersReady ==
  ASSUME BootInv, [Next]_vars
  PROVE  HandlersReady'
<1> USE DEF BootInv
<1>1. CASE IdtCreated
  <2>1. pc' = "handlers" /\ created' = 0 /\ idt' = <<>> /\ stubs' = stubs
        /\ idtr'.limit = IdtBytes - 1
        BY <1>1 DEF IdtCreated, CreateIdt, HandlersReady
  <2>2. Built'
    <3>1. DOMAIN idt' = {} /\ 1 .. created' = {}
          BY <2>1
    <3>2. DOMAIN stubs' \subseteq StubsStart .. StubsStart + PageSize - 1
          BY <2>1 DEF HandlersReady, Built
    <3> QED BY <2>1, <3>1, <3>2 DEF Built
  <2> QED BY <2>1, <2>2 DEF HandlersReady, Early, WithHandlers, WithArchive,
             WithStack
<1>2. CASE Handlers
  <2>1. pc = "handlers" /\ created < 50 /\ created \in 0 .. 50
        /\ idtr.limit = IdtBytes - 1
        BY <1>2 DEF Handlers, HandlersReady, Built
  <2>2. CASE supply >= HandlerBlocks
    <3>1. CreateHandler
          BY <1>2, <2>2 DEF Handlers
    <3>2. Built'
          BY <2>1, <3>1, StepBuilt DEF HandlersReady
    <3>3. created' = created + 1 /\ idtr' = idtr
          BY <3>1 DEF CreateHandler
    <3>4. pc' = IF created + 1 < 50 THEN "handlers" ELSE "init_allocator"
      <4>1. Len(HandlerOrder) = 50
            BY HandlersAre
      <4> QED BY <1>2, <2>2, <4>1 DEF Handlers, Takes
    <3> QED BY <2>1, <3>2, <3>3, <3>4
            DEF HandlersReady, Early, WithHandlers, WithArchive, WithStack
  <2>3. CASE ~(supply >= HandlerBlocks)
    <3>1. pc' = "hung" /\ UNCHANGED gateVars
          BY <1>2, <2>3 DEF Handlers, Takes
    <3>2. Built'
          BY <3>1 DEF HandlersReady, Built, gateVars, Instruction
    <3> QED BY <3>1, <3>2 DEF HandlersReady, Early, WithHandlers, WithArchive,
               WithStack
  <2> QED BY <2>2, <2>3
<1>3. CASE LeaveUser
  <2>1. UNCHANGED <<idt, idtr, stubs, created>> /\ pc = "running" /\ pc' = "trap"
        BY <1>3 DEF LeaveUser, SoftwareTrap, Trap
  <2>2. Built'
        BY <2>1 DEF HandlersReady, Built, Instruction
  <2> QED BY <2>1, <2>2 DEF HandlersReady, Early, WithHandlers, WithArchive,
             WithStack
<1>4. ASSUME UNCHANGED gateVars,
             \/ pc' = "hung" \/ pc' = pc
             \/ pc \in Early /\ pc' \in Early \cup {"alloc"}
             \/ pc \in WithHandlers /\ pc' \in WithHandlers
      PROVE  HandlersReady'
  <2>1. Built'
        BY <1>4 DEF HandlersReady, Built, gateVars, Instruction
  <2>2. UNCHANGED <<created, idtr>>
        BY <1>4 DEF gateVars
  <2>3. "hung" \notin Early \cup {"alloc", "handlers"} \cup WithHandlers
        BY DEF Early, WithHandlers, WithArchive, WithStack
  <2>4. /\ Early \cap ({"handlers"} \cup WithHandlers) = {}
        /\ WithHandlers \cap (Early \cup {"alloc", "handlers"}) = {}
        /\ "alloc" \notin {"handlers"} \cup WithHandlers
        BY DEF Early, WithHandlers, WithArchive, WithStack
  <2> QED BY <1>4, <2>1, <2>2, <2>3, <2>4 DEF HandlersReady
<1>5. CASE TakeTable
  <2>1. UNCHANGED gateVars
        BY <1>5, TakeTableIs DEF kernelVars
  <2>2. \/ pc' = "hung"
        \/ pc \in Early /\ pc' \in Early
        \/ pc \in WithHandlers /\ pc' \in WithHandlers
        BY <1>5, TakeTableIs DEF Goes, Takes, Early, WithHandlers
  <2> QED BY <1>4, <2>1, <2>2
<1>6. CASE \/ CpuInit \/ CallAlloc \/ AllocTurn \/ RamDiskFound \/ NoRamDisk \/ Listing
           \/ NotLoaded
  <2>1. UNCHANGED gateVars
        BY <1>6 DEF CpuInit, CallAlloc, AllocTurn, RamDiskFound, NoRamDisk, Listing,
                    NotLoaded, kernelVars
  <2>2. \/ pc' = "hung" \/ pc' = pc
        \/ pc \in Early /\ pc' \in Early \cup {"alloc"}
        \/ pc \in WithHandlers /\ pc' \in WithHandlers
        BY <1>6 DEF CpuInit, CallAlloc, AllocTurn, RamDiskFound, NoRamDisk, Listing,
                    NotLoaded, Early, WithHandlers, WithArchive
  <2> QED BY <1>4, <2>1, <2>2
<1>7. CASE ProcessCreated \/ Extract \/ EnterProcess \/ LaterAlloc \/ LaterUse
  <2>1. UNCHANGED gateVars
        BY <1>7 DEF ProcessCreated, Extract, EnterProcess, LaterAlloc, LaterUse,
                    kernelVars
  <2>2. \/ pc' = "hung" \/ pc' = pc
        \/ pc \in WithHandlers /\ pc' \in WithHandlers
        BY <1>7 DEF ProcessCreated, Extract, EnterProcess, LaterAlloc, LaterUse,
                    Takes, bootVars, WithHandlers, WithArchive, WithStack
  <2> QED BY <1>4, <2>1, <2>2
<1>8. CASE UNCHANGED vars
  <2>1. UNCHANGED gateVars /\ pc' = pc
        BY <1>8 DEF vars, bootVars, kernelVars
  <2> QED BY <1>4, <2>1
<1> QED BY <1>1, <1>2, <1>3, <1>5, <1>6, <1>7, <1>8 DEF Next, Boots, Over

(* What is said of the archive depends on nothing else.                    *)
LEMMA SameDisk ==
  ASSUME UNCHANGED ramdiskVars
  PROVE  /\ Written' <=> Written
         /\ \A i : PlaceOf(i)' = PlaceOf(i)
         /\ Runnable' <=> Runnable
         /\ files' = files /\ archive' = archive /\ num_files' = num_files /\ file' = file
         /\ FirstNamed(Mcp)' = FirstNamed(Mcp)
<1>1. files' = files /\ archive' = archive /\ num_files' = num_files /\ file' = file
      BY DEF ramdiskVars
<1>2. Written' <=> Written
      BY <1>1 DEF Written
<1>3. \A i : PlaceOf(i)' = PlaceOf(i)
      BY <1>1 DEF PlaceOf
<1>4. \A name : Named(name)' = Named(name)
      BY <1>1 DEF Named
<1>5. FirstNamed(Mcp)' = FirstNamed(Mcp)
      BY <1>4 DEF FirstNamed
<1>6. Runnable' <=> Runnable
      BY <1>1, <1>4, <1>5 DEF Runnable
<1> QED BY <1>1, <1>2, <1>3, <1>5, <1>6

(* The archives that loaders give are files that were archived.            *)
LEMMA ArchivesAre ==
  ASSUME NEW fs \in Archives
  PROVE  /\ fs \in Seq(Files) /\ Len(fs) \in 0 .. MaxFiles
         /\ \A i \in 1 .. Len(fs) : fs[i].name = Mcp => fs[i].content.size > 0
<1> USE BootAssumption
<1>1. PICK n \in 0 .. MaxFiles : fs \in [1 .. n -> Files]
      BY DEF Archives
<1>2. fs \in Seq(Files) /\ Len(fs) = n /\ DOMAIN fs = 1 .. n
      BY <1>1
<1>3. \A i \in DOMAIN fs : fs[i].name = Mcp => fs[i].content.size > 0
      BY DEF Archives
<1> QED BY <1>2, <1>3

(* The listing goes from file to file, and ends behind the last.           *)
LEMMA StepDiskListed ==
  ASSUME BootInv, [Next]_vars
  PROVE  DiskListed'
<1> USE BootAssumption DEF BootInv
<1>1. CASE RamDiskFound
  <2>1. PICK fs \in Archives : FindRamDisk(fs)
        BY <1>1 DEF RamDiskFound
  <2>2. pc' = "listing" /\ num_files' = 0
        BY <1>1, <2>1 DEF RamDiskFound, FindRamDisk, DiskListed, Booting,
           WithArchive, WithStack
  <2>3. files' = fs /\ archive' = Archive(fs) /\ file' = 0
        BY <2>1 DEF FindRamDisk
  <2>4. fs \in Seq(Files) /\ Len(fs) \in 0 .. MaxFiles
        BY ArchivesAre
  <2>5. Written'
        BY <2>3, <2>4 DEF Written
  <2>6. file' = PlaceOf(num_files + 1)'
    <3>1. PlaceOf(1)' = BlockSize * Len(Members(fs)[0])
          BY <2>3 DEF PlaceOf
    <3>2. Members(fs)[0] = <<>>
          BY <2>4, MembersDef
    <3>3. PlaceOf(num_files + 1)' = PlaceOf(1)'
          BY <2>2 DEF PlaceOf
    <3> QED BY <2>3, <3>1, <3>2, <3>3, ArchiveAssumption
  <2> QED BY <2>2, <2>3, <2>4, <2>5, <2>6 DEF DiskListed, Booting, Early,
             WithArchive
<1>2. CASE Listing
  <2>1. /\ pc = "listing" /\ Written /\ files \in Archives
        /\ num_files \in 0 .. Len(files) /\ file = PlaceOf(num_files + 1)
        BY <1>2 DEF Listing, DiskListed, WithArchive
  <2>2. Len(files) \in 0 .. MaxFiles
        BY <2>1, ArchivesAre
  <2>3. IsZeroBlock(file) <=> num_files = Len(files)
    <3>1. num_files + 1 \in 1 .. Len(files) + 1
          BY <2>1, <2>2
    <3>2. IsZeroBlock(PlaceOf(num_files + 1)) <=> num_files + 1 = Len(files) + 1
          BY <2>1, <3>1, EndIsFound
    <3> QED BY <2>1, <2>2, <3>2
  <2>4. CASE ListFile /\ UNCHANGED pc
    <3>1. files' = files /\ archive' = archive /\ num_files' = num_files + 1
          /\ file' = NextFile(file) /\ num_files < Len(files)
          BY <2>1, <2>2, <2>3, <2>4 DEF ListFile
    <3>2. Written' /\ \A i : PlaceOf(i)' = PlaceOf(i)
          BY <2>1, <3>1 DEF Written, PlaceOf
    <3>3. NextFile(PlaceOf(num_files + 1)) = PlaceOf(num_files + 1 + 1)
      <4>1. num_files + 1 \in 1 .. Len(files)
            BY <2>1, <2>2, <3>1
      <4> QED BY <2>1, <4>1, Placed
    <3>4. file' = PlaceOf(num_files + 1)'
      <4>1. PlaceOf(num_files + 1)' = PlaceOf(num_files + 1 + 1)
            BY <3>1 DEF PlaceOf
      <4> QED BY <2>1, <3>1, <3>3, <4>1
    <3>5. num_files' \in 0 .. Len(files') /\ num_files' \in 0 .. MaxFiles
          BY <2>1, <2>2, <3>1
    <3>6. pc' = "listing"
          BY <2>1, <2>4
    <3> QED BY <2>1, <3>1, <3>2, <3>4, <3>5, <3>6 DEF DiskListed, Booting, Early,
               WithArchive
  <2>5. CASE Listed /\ pc' = "load"
    <3>1. UNCHANGED ramdiskVars /\ num_files = Len(files)
          BY <2>3, <2>5 DEF Listed
    <3>2. Written' /\ file' = PlaceOf(num_files + 1)'
      <4>1. PlaceOf(num_files + 1)' = PlaceOf(num_files + 1)
            BY <3>1 DEF PlaceOf, ramdiskVars
      <4> QED BY <2>1, <3>1, <4>1, SameDisk
    <3> QED BY <2>1, <2>2, <2>5, <3>1, <3>2 DEF DiskListed, Booting, Early,
               WithArchive,
                                                ramdiskVars
  <2> QED BY <1>2, <2>4, <2>5 DEF Listing
<1>3. ASSUME UNCHANGED ramdiskVars,
             \/ pc' = "hung" \/ pc' = pc
             \/ pc \in Booting \ WithArchive /\ pc' \in Booting \ WithArchive
             \/ pc \in WithArchive \ {"listing"} /\ pc' \in WithArchive \ {"listing"}
      PROVE  DiskListed'
  <2>1. /\ Written' <=> Written
        /\ UNCHANGED <<files, archive, num_files, file>>
        BY <1>3, SameDisk
  <2>2. PlaceOf(num_files + 1)' = PlaceOf(num_files + 1)
        BY <2>1 DEF PlaceOf
  <2>3. "hung" \notin Booting \cup WithArchive
        BY DEF Booting, Early, WithArchive, WithStack
  <2> QED BY <1>3, <2>1, <2>2, <2>3 DEF DiskListed
<1>4. CASE TakeTable
  <2>1. UNCHANGED ramdiskVars
        BY <1>4, TakeTableIs
  <2>2. \/ pc' = "hung"
        \/ pc \in Booting \ WithArchive /\ pc' \in Booting \ WithArchive
        BY <1>4, TakeTableIs DEF Goes, Takes, Booting, Early, WithArchive, WithStack
  <2> QED BY <1>3, <2>1, <2>2
<1>5. CASE CpuInit \/ CallAlloc \/ AllocTurn \/ IdtCreated \/ Handlers \/ NoRamDisk
  <2>1. UNCHANGED ramdiskVars
        BY <1>5 DEF CpuInit, CallAlloc, AllocTurn, IdtCreated, Handlers, NoRamDisk
  <2>2. \/ pc' = "hung" \/ pc' = pc
        \/ pc \in Booting \ WithArchive /\ pc' \in Booting \ WithArchive
        BY <1>5 DEF CpuInit, CallAlloc, AllocTurn, IdtCreated, Handlers,
           NoRamDisk, Takes,
                    Booting, Early, WithArchive, WithStack
  <2> QED BY <1>3, <2>1, <2>2
<1>6. CASE \/ NotLoaded \/ ProcessCreated \/ Extract \/ EnterProcess \/ LeaveUser
           \/ LaterAlloc \/ LaterUse
  <2>1. UNCHANGED ramdiskVars
        BY <1>6 DEF NotLoaded, ProcessCreated, Extract, EnterProcess, LeaveUser,
           LaterAlloc,
                    LaterUse
  <2>2. \/ pc' = "hung" \/ pc' = pc
        \/ pc \in WithArchive \ {"listing"} /\ pc' \in WithArchive \ {"listing"}
        BY <1>6 DEF NotLoaded, ProcessCreated, Extract, EnterProcess, LeaveUser,
           LaterAlloc,
                    LaterUse, Takes, bootVars, WithArchive, WithStack
  <2> QED BY <1>3, <2>1, <2>2
<1>7. CASE UNCHANGED vars
  <2>1. UNCHANGED ramdiskVars /\ pc' = pc
        BY <1>7 DEF vars, bootVars
  <2> QED BY <1>3, <2>1
<1> QED BY <1>1, <1>2, <1>4, <1>5, <1>6, <1>7 DEF Next, Boots, Over

(* The words of the stack that iretd takes, and the guard below them.      *)
LEMMA StackIsFrame ==
  LET s == InitStack(EntryPoint)
      m == StackWords - 5
  IN  /\ DOMAIN s \subseteq 0 .. StackWords - 1
      /\ s[0] = "0xDEADBEEF"
      /\ s[m] = EntryPoint /\ s[m + 1] = 27 /\ s[m + 2] = 512 + 3 * 4096
      /\ s[m + 4] = 35
<1> USE BootAssumption
<1> DEFINE s == InitStack(EntryPoint)
           m == StackWords - 5
           D == {0} \cup m .. (StackWords - 1)
           F == Frame(EntryPoint)
<1>1. m \in Nat /\ m > 0 /\ StackWords = m + 5
      OBVIOUS
<1>2. F[1] = EntryPoint /\ F[2] = 27 /\ F[3] = 512 + 3 * 4096 /\ F[5] = 35
      BY DEF Frame
<1>3. s = [i \in D |-> IF i = 0 THEN "0xDEADBEEF" ELSE F[i - StackWords + 6]]
      BY DEF InitStack
<1> HIDE DEF s, F, m
<1>4. /\ 0 \in D /\ m \in D /\ m + 1 \in D /\ m + 2 \in D /\ m + 4 \in D
      /\ D \subseteq 0 .. StackWords - 1
      BY <1>1
<1>5. /\ m - StackWords + 6 = 1 /\ m + 1 - StackWords + 6 = 2
      /\ m + 2 - StackWords + 6 = 3 /\ m + 4 - StackWords + 6 = 5
      /\ m # 0 /\ m + 1 # 0 /\ m + 2 # 0 /\ m + 4 # 0
      BY <1>1
<1> HIDE DEF D
<1>6. DOMAIN s = D /\ \A i \in D : s[i] = IF i = 0 THEN "0xDEADBEEF" ELSE F[i - StackWords + 6]
      BY <1>3
<1>7. /\ s[0] = "0xDEADBEEF" /\ s[m] = F[1] /\ s[m + 1] = F[2] /\ s[m + 2] = F[3]
      /\ s[m + 4] = F[5]
      BY <1>4, <1>5, <1>6
<1> QED BY <1>2, <1>4, <1>6, <1>7 DEF s, m

(* Entering the process, user mode has what the process was made with.     *)
LEMMA EntryFits ==
  ASSUME BootInv, EnterProcess
  PROVE  FirstEntryFits' /\ process'.m_esp = process.m_esp
<1> USE BootAssumption DEF BootInv
<1> DEFINE m == StackWords - 5
<1>1. /\ stack = InitStack(EntryPoint) /\ process = FirstProcess(EntryPoint)
      /\ tss = [Tss EXCEPT !.esp0 = StackWords] /\ gdt = Gdt
      BY DEF EnterProcess, ProcessReady, CpuReady, WithStack
<1>2. process.m_esp = m /\ process.m_entry_point = EntryPoint
      BY <1>1 DEF FirstProcess
<1>3. process'.m_esp = m /\ process'.m_entry_point = EntryPoint
  <2>1. process' = [FirstProcess(EntryPoint) EXCEPT !.m_state = "ALIVE"]
        BY <1>1 DEF EnterProcess
  <2> QED BY <2>1 DEF FirstProcess
<1>4. /\ context'.eip = stack[process.m_esp + 0]
      /\ context'.cs = stack[process.m_esp + 1]
      /\ context'.eflags = stack[process.m_esp + 2]
      /\ context'.ss = stack[process.m_esp + 4]
      BY DEF EnterProcess
<1>5. /\ context'.eip = EntryPoint /\ context'.cs = 27
      /\ context'.eflags = 512 + 3 * 4096 /\ context'.ss = 35
  <2>1. m + 0 = m
        OBVIOUS
  <2>2. /\ stack[m] = EntryPoint /\ stack[m + 1] = 27 /\ stack[m + 2] = 512 + 3 * 4096
        /\ stack[m + 4] = 35
        BY <1>1, StackIsFrame
  <2> HIDE DEF m
  <2> QED BY <1>2, <1>4, <2>1, <2>2
<1>6. stack' = stack /\ tss' = tss /\ gdt' = gdt
      BY DEF EnterProcess, kernelVars
<1>7. tss.esp0 = StackWords /\ StackWords = m + 5 /\ m > 0
      BY <1>1 DEF Tss
<1>8. DOMAIN stack \subseteq 0 .. StackWords - 1 /\ stack[0] = "0xDEADBEEF"
      BY <1>1, StackIsFrame
<1>9. /\ IsSegment(Selected(27), TRUE, 3, 0, KernelStart - 1)
      /\ IsSegment(Selected(35), FALSE, 3, 0, KernelStart - 1)
      BY <1>1, Segments
<1>10. Selected(context.cs)' = Selected(27) /\ Selected(context.ss)' = Selected(35)
       BY <1>5, <1>6 DEF Selected
<1> HIDE DEF m
<1>11. /\ context'.eip = process'.m_entry_point
       /\ (context'.eflags \div 512) % 2 = 1 /\ context'.cs % 4 = 3
       BY <1>3, <1>5
<1>12. /\ tss'.esp0 = process'.m_esp + 5 /\ DOMAIN stack' \subseteq 0 .. tss'.esp0 - 1
       /\ stack'[0] = "0xDEADBEEF" /\ process'.m_esp > 0
       BY <1>3, <1>6, <1>7, <1>8
<1>13. /\ IsSegment(Selected(context.cs), TRUE, 3, 0, KernelStart - 1)'
       /\ IsSegment(Selected(context.ss), FALSE, 3, 0, KernelStart - 1)'
       BY <1>9, <1>10
<1> QED BY <1>2, <1>3, <1>11, <1>12, <1>13 DEF FirstEntryFits

(* The process is made once, extracted, and entered.                       *)
LEMMA StepProcessReady ==
  ASSUME BootInv, [Next]_vars
  PROVE  ProcessReady'
<1> USE DEF BootInv
<1>0. supply \in Nat
      BY DEF IdtAsked, AllocInv, AllocTypeOK
<1>1. CASE ProcessCreated
  <2>1. /\ pc = "load" /\ stack = <<>> /\ extracted = 0 /\ UNCHANGED ramdiskVars
        /\ extracted' = extracted
        BY <1>1 DEF ProcessCreated, ProcessReady, Booting
  <2>2. CASE supply < 2
    <3>1. Takes(2, "extract") /\ stack' = stack
          BY <1>1, <2>2 DEF ProcessCreated
    <3>2. pc' = "hung"
          BY <1>0, <2>2, <3>1, TakesIs
    <3> QED BY <2>1, <3>1, <3>2 DEF ProcessReady, FirstEntryFits, Booting, Early,
               WithStack
  <2>3. CASE ~(supply < 2)
    <3>1. /\ pc' = "extract" /\ process' = FirstProcess(EntryPoint)
          /\ stack' = InitStack(EntryPoint)
          BY <1>0, <1>1, <2>3 DEF ProcessCreated, Takes
    <3>2. Runnable'
      <4>1. AllListed /\ files \in Archives
            BY <2>1 DEF DiskListed, AllListed, WithArchive
      <4>2. Loadable <=> Runnable
            BY <4>1, ArchivesAre, ProgramFound
      <4>3. Loadable
            BY <1>1 DEF ProcessCreated
      <4> QED BY <2>1, <4>2, <4>3, SameDisk
    <3> QED BY <2>1, <3>1, <3>2 DEF ProcessReady, FirstEntryFits, Booting, Early,
               WithStack
  <2> QED BY <2>2, <2>3
<1>2. CASE Extract
  <2>1. /\ pc = "extract" /\ Runnable /\ extracted \in Nat
        /\ process = FirstProcess(EntryPoint) /\ stack = InitStack(EntryPoint)
        BY <1>2 DEF Extract, ProcessReady, WithStack
  <2>2. UNCHANGED <<process, stack, ramdiskVars>> /\ Takes(1, "extract")
        /\ extracted' \in {extracted, extracted + 1}
        BY <1>2 DEF Extract
  <2>3. Runnable'
        BY <2>1, <2>2, SameDisk
  <2>4. pc' \in {"extract", "hung"} /\ extracted' \in Nat
        BY <2>1, <2>2 DEF Takes
  <2> QED BY <2>1, <2>2, <2>3, <2>4 DEF ProcessReady, FirstEntryFits, Booting,
             Early, WithStack
<1>3. CASE EnterProcess
  <2>1. pc' = "running" /\ stack' = stack /\ stack = InitStack(EntryPoint)
        BY <1>3 DEF EnterProcess, ProcessReady, WithStack
  <2>2. FirstEntryFits'
        BY <1>3, EntryFits
  <2> QED BY <2>1, <2>2 DEF ProcessReady, Booting, Early
<1>4. ASSUME UNCHANGED <<process, stack, context>>,
             \/ pc' = "hung"
             \/ /\ pc \in {"running", "trap"} /\ pc' \in {"running", "trap"}
                /\ UNCHANGED <<gdt, tss>>
             \/ /\ pc \in Booting \ {"extract"} /\ pc' \in Booting \ {"extract"}
                /\ UNCHANGED extracted
      PROVE  ProcessReady'
  <2>1. CASE pc' = "hung"
        BY <1>4, <2>1 DEF ProcessReady, FirstEntryFits, Booting, Early, WithStack
  <2>2. CASE /\ pc \in {"running", "trap"} /\ pc' \in {"running", "trap"}
             /\ UNCHANGED <<gdt, tss>>
    <3>1. FirstEntryFits'
      <4>1. FirstEntryFits
            BY DEF ProcessReady
      <4>2. /\ Selected(context.cs)' = Selected(context.cs)
            /\ Selected(context.ss)' = Selected(context.ss)
            BY <1>4, <2>2 DEF Selected
      <4>3. UNCHANGED <<process, stack, context, tss>> /\ pc \in {"running", "trap"}
            BY <1>4, <2>2
      <4> HIDE DEF BootInv
      <4> QED BY <4>1, <4>2, <4>3 DEF FirstEntryFits
    <3> QED BY <1>4, <2>2, <3>1 DEF ProcessReady, Booting, Early, WithStack
  <2>3. CASE pc \in Booting \ {"extract"} /\ pc' \in Booting \ {"extract"}
             /\ UNCHANGED extracted
    <3>1. pc' \notin WithStack
          BY <2>3 DEF Booting, Early, WithStack
    <3> QED BY <1>4, <2>3, <3>1 DEF ProcessReady, FirstEntryFits, WithStack
  <2> QED BY <1>4, <2>1, <2>2, <2>3
<1>5. CASE TakeTable
  <2>1. UNCHANGED <<process, stack, context, extracted>>
        BY <1>5, TakeTableIs
  <2>2. \/ pc' = "hung"
        \/ pc \in Booting \ {"extract"} /\ pc' \in Booting \ {"extract"}
        BY <1>5, TakeTableIs DEF Goes, Takes, Booting, Early
  <2> QED BY <1>4, <2>1, <2>2
<1>6. CASE \/ CpuInit \/ CallAlloc \/ IdtCreated \/ Handlers \/ RamDiskFound \/ NoRamDisk
           \/ Listing \/ NotLoaded
  <2>1. UNCHANGED <<process, stack, context, extracted>>
        BY <1>6 DEF CpuInit, CallAlloc, IdtCreated, Handlers, RamDiskFound,
           NoRamDisk,
                    Listing, NotLoaded
  <2>2. \/ pc' = "hung"
        \/ pc \in Booting \ {"extract"} /\ pc' \in Booting \ {"extract"}
        BY <1>6 DEF CpuInit, CallAlloc, IdtCreated, Handlers, RamDiskFound,
           NoRamDisk,
                    Listing, NotLoaded, Takes, Booting, Early
  <2> QED BY <1>4, <2>1, <2>2
<1>7. CASE AllocTurn
  <2>1. UNCHANGED <<process, stack, context, extracted, gdt, tss>>
        BY <1>7 DEF AllocTurn
  <2>2. pc' = "hung" \/ (pc \in {"alloc", "running"} /\ pc' = pc)
        BY <1>7 DEF AllocTurn
  <2> QED BY <1>4, <2>1, <2>2 DEF Booting
<1>8. CASE LeaveUser \/ LaterAlloc \/ LaterUse
  <2>1. UNCHANGED <<process, stack, context, gdt, tss>>
        BY <1>8 DEF LeaveUser, LaterAlloc, LaterUse, bootVars
  <2>2. pc' = "hung" \/ (pc = "running" /\ pc' \in {"running", "trap"})
        BY <1>8 DEF LeaveUser, LaterAlloc, LaterUse, bootVars
  <2> QED BY <1>4, <2>1, <2>2
<1>9. CASE UNCHANGED vars
  <2>1. /\ UNCHANGED <<process, stack, context, extracted, gdt, tss, ramdiskVars>>
        /\ pc' = pc
        BY <1>9 DEF vars, bootVars, kernelVars
  <2>2. (Runnable' <=> Runnable) /\ FirstEntryFits'
    <3>1. FirstEntryFits
          BY DEF ProcessReady
    <3> QED BY <2>1, <3>1, SameDisk DEF FirstEntryFits, Selected
  <2> QED BY <2>1, <2>2 DEF ProcessReady
<1> QED BY <1>1, <1>2, <1>3, <1>5, <1>6, <1>7, <1>8, <1>9 DEF Next, Boots, Over

(* What the CPU pushes for the vector of a handler.                        *)
ErrorOf(i) == IF i \in 14 .. 32 THEN <<Dword(ErrorCode)>> ELSE <<>>

(* A trap whose gate and stub are in place is reported.                    *)
LEMMA TrapIs ==
  ASSUME Ready, NEW cause, NEW i \in 1 .. 50, Trap(cause, VectorOf(i), ErrorOf(i))
  PROVE  /\ trap'.state = "handled" /\ trap'.masked /\ trap'.cause = cause
         /\ i \in 14 .. 32 => trap'.called = <<Dword(VectorOf(i)), Dword(ErrorCode)>>
         /\ i \notin 14 .. 32 => trap'.called = <<Dword(VectorOf(i)), Dword(0)>>
                             /\ trap'.resumes = <<"eip">>
<1> DEFINE v == VectorOf(i)
           r == RunStub(GetOffset(idt[v]), Saved(ErrorOf(i)))
<1>1. Delivered(v) /\ idt[v].type = TypeBits("INTERRUPT")
      BY Deliver
<1>2. /\ i \in 14 .. 32 => r.called = <<Dword(v), Dword(ErrorCode)>>
      /\ i \notin 14 .. 32 => r.called = <<Dword(v), Dword(0)>> /\ r.resumes = <<"eip">>
      BY Reports DEF ErrorOf
<1> HIDE DEF v
<1>3. trap' = [state |-> "handled", cause |-> cause, called |-> r.called,
               resumes |-> r.resumes, masked |-> idt[v].type = TypeBits("INTERRUPT")]
      BY <1>1, Zenon DEF Trap, v
<1> HIDE DEF r
<1>4. /\ trap'.state = "handled" /\ trap'.masked = (idt[v].type = TypeBits("INTERRUPT"))
      /\ trap'.cause = cause /\ trap'.called = r.called /\ trap'.resumes = r.resumes
      BY <1>3
<1> QED BY <1>1, <1>2, <1>4 DEF v

(* The causes there are: an exception with or without an error code, a     *)
(* device, and int n, which is only let through for the syscalls.          *)
LEMMA LeaveUserReported ==
  ASSUME BootInv, LeaveUser
  PROVE  TrapsReported'
<1> USE DEF BootInv
<1>1. Ready
  <2>1. /\ Built /\ created = 50 /\ gdt = Gdt /\ idtr.limit = IdtBytes - 1
        /\ tss = [Tss EXCEPT !.esp0 = StackWords]
        BY DEF LeaveUser, HandlersReady, CpuReady, WithHandlers, WithArchive,
           WithStack
  <2>2. tss.ss0 = 16 /\ tss.esp0 # 0
        BY <2>1, BootAssumption DEF Tss
  <2> QED BY <2>1, <2>2 DEF Ready
<1>2. ASSUME NEW v \in Exceptions, NEW cause, cause = [kind |-> "exception", n |-> v],
             Trap(cause, v, Pushed(v))
      PROVE  TrapsReported'
  <2>1. PICK i \in 1 .. 50 : VectorOf(i) = v /\ (i \in 14 .. 32 <=> v \in HaveErrorCodes)
        BY VectorsCover
  <2>2. Pushed(v) = ErrorOf(i)
        BY <2>1 DEF Pushed, ErrorOf
  <2>3. Trap(cause, VectorOf(i), ErrorOf(i))
        BY <1>2, <2>1, <2>2
  <2>4. /\ trap'.state = "handled" /\ trap'.masked /\ trap'.cause = cause
        /\ i \in 14 .. 32 => trap'.called = <<Dword(v), Dword(ErrorCode)>>
        /\ i \notin 14 .. 32 => trap'.called = <<Dword(v), Dword(0)>>
        BY <1>1, <2>1, <2>3, TrapIs
  <2>5. cause.kind = "exception" /\ cause.n = v
        BY <1>2
  <2>6. CallFor(cause) = <<Dword(v), Dword(IF v \in HaveErrorCodes THEN ErrorCode ELSE 0)>>
        BY <2>5 DEF CallFor
  <2>7. trap'.called = CallFor(cause)
    <3>1. CASE v \in HaveErrorCodes
          BY <2>1, <2>4, <2>6, <3>1
    <3>2. CASE v \notin HaveErrorCodes
          BY <2>1, <2>4, <2>6, <3>2
    <3> QED BY <3>1, <3>2
  <2> QED BY <2>4, <2>5, <2>7 DEF TrapsReported
<1>3. ASSUME NEW line \in 0 .. 15, NEW cause, cause = [kind |-> "device", n |-> line],
             Trap(cause, 32 + line, <<>>)
      PROVE  TrapsReported'
  <2>1. PICK i \in 1 .. 50 : VectorOf(i) = 32 + line /\ i \notin 14 .. 32
        BY VectorsCover
  <2>2. <<>> = ErrorOf(i)
        BY <2>1 DEF ErrorOf
  <2>3. Trap(cause, VectorOf(i), ErrorOf(i))
        BY <1>3, <2>1, <2>2
  <2>4. /\ trap'.state = "handled" /\ trap'.masked /\ trap'.cause = cause
        /\ trap'.called = <<Dword(32 + line), Dword(0)>> /\ trap'.resumes = <<"eip">>
        BY <1>1, <2>1, <2>3, TrapIs
  <2>5. cause.kind = "device" /\ cause.n = line
        BY <1>3
  <2>6. CallFor(cause) = <<Dword(32 + line), Dword(0)>>
        BY <2>5 DEF CallFor
  <2> QED BY <2>4, <2>6 DEF TrapsReported
<1>4. ASSUME NEW n, NEW cause, cause = [kind |-> "int", n |-> n],
             n \in DOMAIN idt, idt[n].dpl = 3, Trap(cause, n, <<>>)
      PROVE  TrapsReported'
  <2>1. PICK i \in 1 .. 50 : n = VectorOf(i)
        BY <1>1, <1>4 DEF Ready, Built
  <2>2. n = 128
    <3>1. idt[n].dpl = GateDpl(n)
          BY <1>1, <2>1, Deliver
    <3> QED BY <1>4, <3>1 DEF GateDpl
  <2>3. PICK j \in 1 .. 50 : VectorOf(j) = 128 /\ j \notin 14 .. 32
        BY VectorsCover
  <2>4. <<>> = ErrorOf(j)
        BY <2>3 DEF ErrorOf
  <2>5. Trap(cause, VectorOf(j), ErrorOf(j))
        BY <1>4, <2>2, <2>3, <2>4
  <2>6. /\ trap'.state = "handled" /\ trap'.masked /\ trap'.cause = cause
        /\ trap'.called = <<Dword(128), Dword(0)>> /\ trap'.resumes = <<"eip">>
        BY <1>1, <2>3, <2>5, TrapIs
  <2>7. cause.kind = "int"
        BY <1>4
  <2>8. CallFor(cause) = <<Dword(128), Dword(0)>>
        BY <2>7 DEF CallFor
  <2> QED BY <2>6, <2>8 DEF TrapsReported
<1>5. CASE \E v \in Exceptions : Trap([kind |-> "exception", n |-> v], v, Pushed(v))
      BY <1>2, <1>5
<1>6. CASE \E line \in 0 .. 15 : Trap([kind |-> "device", n |-> line], 32 + line, <<>>)
      BY <1>3, <1>6
<1>7. CASE \E n \in SoftwareVectors : SoftwareTrap(n)
  <2>1. PICK n \in SoftwareVectors : SoftwareTrap(n)
        BY <1>7
  <2>2. CASE n \in DOMAIN idt /\ idt[n].dpl = 3
    <3>1. Trap([kind |-> "int", n |-> n], n, <<>>)
          BY <2>1, <2>2, Zenon DEF SoftwareTrap
    <3> QED BY <1>4, <2>2, <3>1
  <2>3. CASE ~(n \in DOMAIN idt /\ idt[n].dpl = 3)
    <3>1. Trap([kind |-> "exception", n |-> 13], 13, Pushed(13))
          BY <2>1, <2>3, Zenon DEF SoftwareTrap
    <3>2. 13 \in Exceptions
          BY DEF Exceptions
    <3> QED BY <1>2, <3>1, <3>2
  <2> QED BY <2>2, <2>3
<1> QED BY <1>5, <1>6, <1>7 DEF LeaveUser

(* Only leaving user mode makes a trap, which is reported.                 *)
LEMMA StepTrapsReported ==
  ASSUME BootInv, [Next]_vars
  PROVE  TrapsReported'
<1> USE DEF BootInv
<1>1. CASE LeaveUser
      BY <1>1, LeaveUserReported
<1>2. CASE TakeTable
  <2>1. pc' # "trap"
        BY <1>2, TakeTableIs DEF Goes, Takes
  <2> QED BY <2>1 DEF TrapsReported
<1>3. CASE \/ CpuInit \/ CallAlloc \/ AllocTurn \/ IdtCreated \/ Handlers \/ RamDiskFound
           \/ NoRamDisk \/ Listing \/ NotLoaded \/ ProcessCreated \/ Extract \/ EnterProcess
           \/ LaterAlloc \/ LaterUse
  <2>1. pc' # "trap"
        BY <1>3 DEF CpuInit, CallAlloc, AllocTurn, IdtCreated, Handlers,
           RamDiskFound,
                    NoRamDisk, Listing, NotLoaded, ProcessCreated, Extract, EnterProcess,
                    LaterAlloc, LaterUse, Takes, bootVars
  <2> QED BY <2>1 DEF TrapsReported
<1>4. CASE UNCHANGED vars
      BY <1>4 DEF vars, bootVars, kernelVars, gateVars, TrapsReported
<1> QED BY <1>1, <1>2, <1>3, <1>4 DEF Next, Boots, Over

(* Why the boot may have hung.                                             *)
Reason ==
  \/ given < BlocksBefore
  \/ archive = <<>>
  \/ ~Runnable
  \/ given < BlocksBefore + 2 + files[FirstNamed(Mcp)].content.blocks
  \/ status = "out_of_memory"

(* A stage that takes n blocks hangs only if the boot was given fewer than *)
(* it has taken by then and n more.                                        *)
LEMMA TooFew ==
  ASSUME BootInv, pc \in Booting, NEW n \in Nat, NEW then, then # "hung",
         Takes(n, then), pc' = "hung"
  PROVE  given < Taken + n
<1>1. supply \in Nat /\ given = supply + Taken /\ given \in Nat
      BY BootAssumption DEF BootInv, IdtAsked, AllocInv, AllocTypeOK, Accounted
<1>2. supply < n
      BY <1>1, TakesIs
<1>3. Taken = given - supply
  <2>1. Taken \in Nat
        BY PagesOfTheIdt, IdtGrown
           DEF BootInv, Taken, Booting, Early, ProcessReady
  <2> QED BY <1>1, <2>1
<1> QED BY <1>1, <1>2, <1>3

(* Every step that hangs has its reason, and the reason stays.             *)
LEMMA StepHangs ==
  ASSUME BootInv, [Next]_vars
  PROVE  HangsForAReason'
<1> USE BootAssumption DEF BootInv
<1>0. /\ supply \in Nat /\ IdtPages \in Nat /\ BlocksBefore = 7 + IdtPages
      /\ created \in 0 .. 50
      BY PagesOfTheIdt DEF IdtAsked, AllocInv, AllocTypeOK, IdtPages, BlocksBefore,
                           HandlersReady, Built
<1>1. pc' = "extract" => (given' - supply' = BlocksBefore + 2 + extracted')
  <2>1. Accounted'
        BY StepAccounted
  <2>2. supply' \in Nat
        BY BootStepIs, StepAllocInv DEF IdtAsked, AllocInv, AllocTypeOK
  <2>3. pc' = "extract" => given' = supply' + Taken'
        BY <2>1 DEF Accounted, Booting
  <2>4. IdtPages' = IdtPages
        BY DEF IdtPages
  <2>5. pc' = "extract" => Taken' = 9 + IdtPages + extracted'
        BY <2>4 DEF Taken, Early
  <2>6. pc' = "extract" => extracted' \in Nat
        BY StepProcessReady DEF ProcessReady
  <2> QED BY <1>0, <2>2, <2>3, <2>5, <2>6
<1>2. ASSUME Reason, UNCHANGED <<given, status, ramdiskVars>>
      PROVE  Reason'
  <2>1. /\ Runnable' <=> Runnable
        /\ files' = files /\ archive' = archive /\ FirstNamed(Mcp)' = FirstNamed(Mcp)
        BY <1>2, SameDisk
  <2>2. BlocksBefore' = BlocksBefore
        BY DEF BlocksBefore
  <2> QED BY <1>2, <2>1, <2>2 DEF Reason
<1>3. ASSUME pc' = "hung" => Reason'
      PROVE  HangsForAReason'
      BY <1>1, <1>3 DEF HangsForAReason, Reason
<1>4. CASE pc = "hung"
  <2>1. UNCHANGED vars
    <3>1. CASE TakeTable
          BY <1>4, <3>1, TakeTableIs DEF Goes
    <3>2. CASE ~TakeTable
          BY <1>4, <3>2 DEF Next, Boots, CpuInit, CallAlloc, AllocTurn, IdtCreated,
             Handlers, RamDiskFound, NoRamDisk, Listing, NotLoaded, ProcessCreated,
             Extract, EnterProcess, LeaveUser, LaterAlloc, LaterUse, Over
    <3> QED BY <3>1, <3>2
  <2>2. UNCHANGED <<given, status, ramdiskVars>> /\ Reason
    <3>1. Reason
          BY <1>4 DEF HangsForAReason, Reason
    <3> QED BY <2>1, <3>1 DEF vars, bootVars, kernelVars, allocVars
  <2> QED BY <1>2, <1>3, <2>2
<1>5. CASE pc # "hung" /\ pc' = "hung"
  <2>1. CASE TakeTable
    <3>1. UNCHANGED <<given, status, ramdiskVars>>
          BY <2>1, TakeTableIs DEF kernelVars, allocVars
    <3>2. \E then : then # "hung" /\ Takes(1, then)
          BY <2>1, TakeTableIs DEF Goes
    <3>3. pc \in Booting /\ Taken + 1 <= BlocksBefore /\ Taken \in Nat
          BY <1>0, <2>1, TakeTableIs DEF Goes, Booting, Early, Taken
    <3>4. given < Taken + 1
          BY <1>5, <3>2, <3>3, TooFew
    <3>5. given < BlocksBefore /\ given \in Nat
          BY <1>0, <3>3, <3>4 DEF Accounted
    <3> QED BY <1>2, <1>3, <3>1, <3>5 DEF Reason
  <2>2. CASE AllocTurn
    <3>1. pc = "alloc" /\ GrowFails
          BY <1>5, <2>2 DEF AllocTurn
    <3>2. given' = given /\ supply = 0 /\ WantsPage
          BY <2>2, <3>1 DEF AllocTurn, GrowFails
    <3>3. given = supply + Taken /\ Taken = 2 + alloced \div PageSize
          BY <3>1 DEF Accounted, Booting, Taken, Early
    <3>4. alloced \div PageSize < IdtPages /\ alloced \div PageSize \in Nat
          BY <3>1, <3>2, IdtGrown
    <3>5. given' < BlocksBefore'
          BY <1>0, <3>2, <3>3, <3>4 DEF BlocksBefore, IdtPages
    <3> QED BY <1>3, <3>5 DEF Reason
  <2>3. CASE Handlers
    <3>1. UNCHANGED <<given, status, ramdiskVars>>
          BY <2>3 DEF Handlers, allocVars
    <3>2. HandlerBlocks \in Nat /\ (HandlerBlocks = IF created = 0 THEN 2 ELSE 0)
          /\ \E then : then # "hung" /\ Takes(HandlerBlocks, then)
          BY <2>3 DEF Handlers, HandlerBlocks
    <3>3. pc \in Booting /\ Taken + HandlerBlocks <= BlocksBefore /\ Taken \in Nat
          BY <1>0, <2>3, <3>2 DEF Handlers, Booting, Early, Taken
    <3>4. given < Taken + HandlerBlocks
          BY <1>5, <3>2, <3>3, TooFew
    <3>5. given < BlocksBefore /\ given \in Nat
          BY <1>0, <3>2, <3>3, <3>4 DEF Accounted
    <3> QED BY <1>2, <1>3, <3>1, <3>5 DEF Reason
  <2>4. CASE NoRamDisk
    <3>1. archive = <<>> /\ UNCHANGED <<given, status, ramdiskVars>>
          BY <2>4 DEF NoRamDisk, DiskListed, Booting, WithArchive, WithStack,
             kernelVars,
                      allocVars
    <3> QED BY <1>2, <1>3, <3>1 DEF Reason
  <2>5. CASE NotLoaded
    <3>1. UNCHANGED <<given, status, ramdiskVars>> /\ ~Loadable
          BY <2>5 DEF NotLoaded, kernelVars, allocVars
    <3>2. AllListed /\ files \in Archives
          BY <2>5 DEF NotLoaded, DiskListed, AllListed, WithArchive
    <3>3. ~Runnable
          BY <3>1, <3>2, ArchivesAre, ProgramFound
    <3> QED BY <1>2, <1>3, <3>1, <3>3 DEF Reason
  <2>6. CASE ProcessCreated \/ Extract
    <3> DEFINE blocks == files[FirstNamed(Mcp)].content.blocks
    <3>1. UNCHANGED <<given, status, ramdiskVars>> /\ pc \in {"load", "extract"}
          BY <2>6 DEF ProcessCreated, Extract, kernelVars, allocVars
    <3>2. AllListed /\ files \in Archives
          BY <3>1 DEF DiskListed, AllListed, WithArchive, WithStack
    <3>3. /\ Loadable <=> Runnable
          /\ Runnable => ElfHeader.blocks = blocks /\ ElfHeader.blocks \in Nat
          BY <3>2, ArchivesAre, ProgramFound
    <3>4. Runnable
          BY <2>6, <3>3 DEF ProcessCreated, Extract, ProcessReady
    <3>5. blocks \in Nat /\ ElfHeader.blocks = blocks
          BY <3>3, <3>4
    <3> HIDE DEF blocks
    <3>6. CASE ProcessCreated
      <4>1. pc \in Booting /\ Takes(2, "extract") /\ Taken = BlocksBefore
            BY <1>0, <3>6 DEF ProcessCreated, Booting, Taken, Early
      <4>2. given < BlocksBefore + 2
            BY <1>5, <4>1, TooFew
      <4>3. given < BlocksBefore + 2 + blocks
            BY <1>0, <3>5, <4>2 DEF Accounted
      <4> QED BY <1>2, <1>3, <3>1, <4>3 DEF Reason, blocks
    <3>7. CASE Extract
      <4>1. pc \in Booting /\ Takes(1, "extract") /\ Taken = BlocksBefore + 2 + extracted
            /\ extracted < blocks /\ extracted \in Nat
            BY <1>0, <3>5, <3>7 DEF Extract, Booting, Taken, Early, ProcessReady
      <4>2. given < BlocksBefore + 2 + extracted + 1
            BY <1>5, <4>1, TooFew
      <4>3. given < BlocksBefore + 2 + blocks
            BY <1>0, <3>5, <4>1, <4>2 DEF Accounted
      <4> QED BY <1>2, <1>3, <3>1, <4>3 DEF Reason, blocks
    <3> QED BY <2>6, <3>6, <3>7
  <2>7. CASE LaterAlloc
    <3>1. status' = "out_of_memory"
          BY <1>5, <2>7 DEF LaterAlloc, AllocTooMuch
    <3> QED BY <1>3, <3>1 DEF Reason
  <2>8. CASE \/ CpuInit \/ CallAlloc \/ IdtCreated \/ RamDiskFound \/ Listing \/ EnterProcess
             \/ LeaveUser \/ LaterUse \/ UNCHANGED vars
        BY <1>5, <2>8 DEF CpuInit, CallAlloc, IdtCreated, RamDiskFound, Listing,
           EnterProcess, LeaveUser, LaterUse, vars, bootVars
  <2> QED BY <2>1, <2>2, <2>3, <2>4, <2>5, <2>6, <2>7, <2>8 DEF Next, Boots, Over
<1>6. CASE pc' # "hung"
      BY <1>3, <1>6
<1> QED BY <1>4, <1>5, <1>6

(* It holds when kernel_main() begins, whatever the supply.                *)
LEMMA InitBootInv == Init => BootInv
<1> SUFFICES ASSUME Init PROVE BootInv
    OBVIOUS
<1> USE BootAssumption DEF Init
<1>1. supply \in Nat /\ given = supply /\ given \in 0 .. MaxSupply /\ pc = "cpu"
      BY DEF AllocInit
<1>2. Accounted
      BY <1>1 DEF Accounted, Phases, Booting, Early, Taken
<1>3. IdtAsked
  <2>1. AllocTypeOK /\ alloced = 0 /\ alloc_index = 0
        BY <1>1, RequestsAssumption DEF AllocInit, AllocTypeOK
  <2>2. AllocInv
    <3>1. alloced = 0 * PageSize
          BY <2>1, TableAssumption
    <3> QED BY <2>1, <3>1 DEF AllocInv
  <2> QED BY <1>1, <2>1, <2>2 DEF IdtAsked
<1>4. CpuReady
      BY <1>1 DEF CpuReady, WithStack
<1>5. HandlersReady
  <2>1. created = 0 /\ DOMAIN idt = {} /\ DOMAIN stubs = {} /\ 1 .. created = {}
        BY DEF GatesInit
  <2>2. Built
        BY <2>1 DEF Built
  <2> QED BY <1>1, <2>1, <2>2 DEF HandlersReady, WithHandlers, WithArchive,
             WithStack
<1>6. DiskListed
      BY <1>1 DEF DiskListed, RamDiskInit, WithArchive, WithStack
<1>7. ProcessReady
      BY <1>1 DEF ProcessReady, FirstEntryFits, WithStack
<1>8. TrapsReported /\ HangsForAReason
      BY <1>1 DEF TrapsReported, HangsForAReason
<1> QED BY <1>2, <1>3, <1>4, <1>5, <1>6, <1>7, <1>8 DEF BootInv

(* The whole of the boot keeps it.                                         *)
LEMMA StepBootInv == BootInv /\ [Next]_vars => BootInv'
<1> SUFFICES ASSUME BootInv, [Next]_vars PROVE BootInv'
    OBVIOUS
<1> QED BY StepAccounted, StepIdtAsked, StepCpuReady, StepHandlersReady,
           StepDiskListed,
           StepProcessReady, StepTrapsReported, StepHangs DEF BootInv

(* So it holds of every behaviour of the boot.                             *)
LEMMA SpecBootInv == Spec => []BootInv
<1> QED BY InitBootInv, StepBootInv, PTL DEF Spec

(* The types follow from it.                                               *)
LEMMA TypesOfBoot == BootInv => BootTypeOK
<1> SUFFICES ASSUME BootInv PROVE BootTypeOK
    OBVIOUS
<1> USE BootAssumption DEF BootInv
<1> DEFINE P == {t[1] : t \in Tables} \cup {t[2] : t \in Tables} \cup
                  {"cpu", "alloc", "handlers", "listing", "load", "extract", "running",
                   "trap", "hung"}
<1>1. AllocTypeOK
      BY DEF IdtAsked, AllocInv
<1>2. pc \in P
  <2>1. /\ InitAlloc \in Tables /\ InitAlloc[1] = "init_alloc"
        /\ HandlersTable \in Tables /\ HandlersTable[1] = "interrupts"
        /\ HandlersTable[2] = "create_idt"
        /\ InitAllocator \in Tables /\ InitAllocator[1] = "init_allocator"
        /\ LocalTable \in Tables /\ LocalTable[1] = "local_table"
        /\ LocalPage \in Tables /\ LocalPage[1] = "local_page" /\ LocalPage[2] = "ramdisk"
        BY DEF Tables, InitAlloc, HandlersTable, InitAllocator, LocalTable,
           LocalPage
  <2>2. /\ "init_alloc" \in P /\ "interrupts" \in P /\ "create_idt" \in P
        /\ "init_allocator" \in P /\ "local_table" \in P /\ "local_page" \in P
        /\ "ramdisk" \in P
        BY <2>1
  <2>3. {"cpu", "alloc", "handlers", "listing", "load", "extract", "running",
         "trap", "hung"} \subseteq P
        OBVIOUS
  <2> HIDE DEF P
  <2>4. pc \in Phases
        BY DEF Accounted
  <2> QED BY <2>2, <2>3, <2>4 DEF Phases, Booting, Early
<1>3. given <= MaxSupply /\ (pc \notin {"running", "trap", "hung"} => supply <= given)
  <2>1. supply \in Nat /\ given \in 0 .. MaxSupply /\ pc \in Phases
        BY <1>1 DEF AllocTypeOK, Accounted
  <2>2. pc \in Booting => Taken \in Nat
        BY PagesOfTheIdt, IdtGrown DEF Taken, Booting, Early, ProcessReady
  <2>3. pc \in Booting => supply <= given
        BY <2>1, <2>2 DEF Accounted
  <2> QED BY <2>1, <2>3 DEF Phases
<1>4. created \in 0 .. Len(HandlerOrder)
      BY HandlersAre DEF HandlersReady, Built
<1>5. DOMAIN idt \subseteq 0 .. 255
  <2>1. DOMAIN idt = {VectorOf(i) : i \in 1 .. created} /\ 1 .. created \subseteq 1 .. 50
        BY DEF HandlersReady, Built
  <2>2. \A i \in 1 .. 50 : VectorOf(i) \in 0 .. 255
        BY VectorsDiffer
  <2> HIDE DEF BootInv
  <2> QED BY <2>1, <2>2
<1>6. DOMAIN stubs \subseteq StubsStart .. StubsStart + PageSize - 1
      BY DEF HandlersReady, Built
<1>7. num_files \in 0 .. MaxFiles
      BY DEF DiskListed
<1>8. DOMAIN stack \subseteq 0 .. StackWords - 1
  <2>1. CASE stack = <<>>
        BY <2>1
  <2>2. CASE stack = InitStack(EntryPoint)
        BY <2>2, StackIsFrame
  <2> QED BY <2>1, <2>2 DEF ProcessReady
<1> QED BY <1>1, <1>2, <1>3, <1>4, <1>5, <1>6, <1>7, <1>8 DEF BootTypeOK

(* So does what the ramdisk promises: searching is what Lookup says.       *)
LEMMA FilesAreListed == BootInv => ListsEveryFile
<1> SUFFICES ASSUME BootInv, pc \in {"load", "extract", "running", "trap"}
             PROVE  /\ num_files = Len(files)
                    /\ \A name \in Names :
                         /\ HasFile(name) <=> Named(name) # {}
                         /\ HasFile(name) => GetFile(name) = PlaceOf(FirstNamed(name))
    BY DEF ListsEveryFile
<1>1. AllListed
      BY DEF BootInv, DiskListed, AllListed, WithArchive, WithStack
<1> QED BY <1>1, Lookup DEF AllListed

(* What is backed stays so through the boot and after it.                  *)
LEMMA StepBootBacked ==
  ASSUME ClientLimit <= TableBytes
  PROVE  Backed /\ [Next]_vars => Backed'
<1> SUFFICES ASSUME Backed, [Next]_vars PROVE Backed'
    OBVIOUS
<1> QED BY BootStepIs, StepBacked DEF Backed

(* Type correctness of the whole boot, with every bound its variables have:*)
(* a supply that only shrinks, handlers in their slab's page, gates for    *)
(* vectors below 256, files within the archive, and words within the       *)
(* process's stack.                                                        *)
THEOREM SpecBootTypeOK == Spec => []BootTypeOK
<1> QED BY SpecBootInv, TypesOfBoot, PTL

(* From user mode, every exception, device and int n reaches               *)
(* handle_interrupt() with its own vector and error code (or 0), interrupts*)
(* off.                                                                    *)
THEOREM SpecTrapsReported == Spec => []TrapsReported
<1>1. BootInv => TrapsReported
      BY DEF BootInv
<1> QED BY <1>1, SpecBootInv, PTL

(* Scheduler::run() enters mcp at its entry point, in segments of level 3, *)
(* with a TSS that pushes traps where the first frame was.                 *)
THEOREM SpecFirstEntryFits == Spec => []FirstEntryFits
<1>1. BootInv => FirstEntryFits
      BY DEF BootInv, ProcessReady
<1> QED BY <1>1, SpecBootInv, PTL

(* init_ramdisk() lists exactly the archived files, and searching by name  *)
(* gives the first of it, for all names, contents and numbers of files.    *)
THEOREM SpecListsEveryFile == Spec => []ListsEveryFile
<1> QED BY SpecBootInv, FilesAreListed, PTL

(* kernel_main() hangs only for one of its reasons, and the boot's blocks  *)
(* are those counted for its stages.                                       *)
THEOREM SpecHangsForAReason == Spec => []HangsForAReason
<1>1. BootInv => HangsForAReason
      BY DEF BootInv
<1> QED BY <1>1, SpecBootInv, PTL

(* Whatever Kernel::alloc() returned during the boot and after it is       *)
(* backed, also with calls that failed half way, while callers ask for a   *)
(* table's bytes in all.                                                   *)
THEOREM BootGrantsBacked == ClientLimit <= TableBytes => (Spec => []GrantsBacked)
<1> SUFFICES ASSUME ClientLimit <= TableBytes PROVE Spec => []GrantsBacked
    OBVIOUS
<1>1. Init => Backed
      BY InitBacked DEF Init
<1>2. Backed /\ [Next]_vars => Backed'
      BY StepBootBacked
<1> QED BY <1>1, <1>2, BackedGrants, PTL DEF Spec
=============================================================================
