---------------------------- MODULE PagingProofs ----------------------------
(***************************************************************************)
(* Proofs about Paging, for every directory layout, table size and number  *)
(* of frames.  What the steps do to the tables is proved of the values of  *)
(* the variables, so that map_page(), which makes a table and then sets a  *)
(* page in it, is two lemmas one after the other.                          *)
(***************************************************************************)
EXTENDS Paging, FiniteSetTheorems, TLAPS

USE LayoutAssumption, SizesAssumption

Names == Frames \cup {None, DefaultTable, PMemTable, Metatable}

(* What the CPU finds behind a page with directory p and tables c.         *)
Behind(p, c, d, e) == IF p[d] \in Frames THEN c[p[d]][e] ELSE None

TypesOf(p, m, c, r) ==
  /\ p \in [Dirs -> Names] /\ m \in [Dirs -> Names]
  /\ c \in [Frames -> [Entries -> Frames \cup {None, Junk}]]
  /\ r \in [Frames -> {0, 1}]
  /\ \A d \in TableDirs : p[d] \in Frames \cup {None}

MetaAgrees(p, m) == \A d \in Dirs : p[d] # None => m[d] = p[d]

Cleared(p, c) == \A d \in TableDirs, e \in Entries : Behind(p, c, d, e) # Junk

(* No frame has two uses.                                                  *)
TablesApart(p) ==
  \A d1, d2 \in TableDirs : p[d1] = p[d2] /\ p[d1] # None => d1 = d2

PagesApart(p, c) ==
  \A d1, d2 \in TableDirs, e1, e2 \in Entries :
    Behind(p, c, d1, e1) = Behind(p, c, d2, e2) /\ Behind(p, c, d1, e1) # None
      => d1 = d2 /\ e1 = e2

NoTableIsAPage(p, c) ==
  \A d1, d2 \in TableDirs, e \in Entries :
    Behind(p, c, d1, e) # None => Behind(p, c, d1, e) # p[d2]

(* From directory p1 and tables c1 to p2 and c2 no page changed, or just   *)
(* one, to frame f, or those of user space went away.                      *)
Keeps(p1, c1, p2, c2) ==
  \A x \in TableDirs, y \in Entries : Behind(p2, c2, x, y) = Behind(p1, c1, x, y)

Sets(p1, c1, p2, c2, d, e, f) ==
  \A x \in TableDirs, y \in Entries :
    Behind(p2, c2, x, y) = IF x = d /\ y = e THEN f ELSE Behind(p1, c1, x, y)

Unmaps(p1, c1, p2, c2) ==
  \A x \in TableDirs, y \in Entries :
    Behind(p2, c2, x, y) = IF x \in UserDirs THEN None ELSE Behind(p1, c1, x, y)

(* A frame has a use exactly if PMem counts one.                           *)
IsTable(p, f) == \E d \in TableDirs : p[d] = f
IsPage(p, c, f) == \E d \in TableDirs, e \in Entries : Behind(p, c, d, e) = f

Counted(p, c, r) == \A f \in Frames : r[f] = 1 <=> IsTable(p, f) \/ IsPage(p, c, f)

Good(p, m, c, r) ==
  /\ TypesOf(p, m, c, r) /\ MetaAgrees(p, m) /\ Cleared(p, c)
  /\ TablesApart(p) /\ PagesApart(p, c) /\ NoTableIsAPage(p, c)
  /\ Counted(p, c, r)

IInv ==
  /\ Good(pde, meta, content, refs)
  /\ start_entry \in FirstAlloc + 1 .. MetaDir
  /\ hung \in BOOLEAN
  /\ ~hung => \A d \in FirstAlloc + 1 .. start_entry - 1 : pde[d] \in Frames

-----------------------------------------------------------------------------
(* What is none of PMem's frames.                                          *)
LEMMA NoFrames ==
  /\ None \notin Frames /\ Junk \notin Frames /\ DefaultTable \notin Frames
  /\ PMemTable \notin Frames /\ Metatable \notin Frames
BY DEF Frames, None, Junk, DefaultTable, PMemTable, Metatable

(* The directory entries of tables are entries, and not the fixed ones.    *)
LEMMA Layout ==
  /\ TableDirs \subseteq Dirs /\ UserDirs \subseteq TableDirs
  /\ \A d \in TableDirs : d # KernelDir /\ d # FirstAlloc /\ d # MetaDir
BY DEF TableDirs, UserDirs, Dirs, MetaDir

(* A frame that PMem counts no use of has none.                            *)
LEMMA FreeIsUnused ==
  ASSUME NEW p, NEW m, NEW c, NEW r, Good(p, m, c, r),
         NEW f \in Frames, r[f] = 0
  PROVE  /\ \A d \in TableDirs : p[d] # f
         /\ \A d \in TableDirs, e \in Entries : Behind(p, c, d, e) # f
BY DEF Good, Counted, IsTable, IsPage

(* make_table() with a free frame for an entry that has no table.          *)
LEMMA TableMade ==
  ASSUME NEW p, NEW m, NEW c, NEW r, Good(p, m, c, r),
         NEW d \in TableDirs, p[d] = None,
         NEW f \in Frames, r[f] = 0
  PROVE  /\ Good([p EXCEPT ![d] = f], [m EXCEPT ![d] = f], MadeTable(d, f, c),
                 [r EXCEPT ![f] = 1])
         /\ Keeps(p, c, [p EXCEPT ![d] = f], MadeTable(d, f, c))
<1> DEFINE p2 == [p EXCEPT ![d] = f]
           m2 == [m EXCEPT ![d] = f]
           c2 == MadeTable(d, f, c)
           r2 == [r EXCEPT ![f] = 1]
<1> USE NoFrames, Layout
<1>1. /\ \A x \in TableDirs : p[x] # f
      /\ \A x \in TableDirs, e \in Entries : Behind(p, c, x, e) # f
      BY FreeIsUnused
<1>2. TypesOf(p2, m2, c2, r2)
  <2>1. TypesOf(p, m, c, r)
        BY DEF Good
  <2>2. c2 \in [Frames -> [Entries -> Frames \cup {None, Junk}]]
        BY <2>1 DEF TypesOf, MadeTable
  <2>3. p2 \in [Dirs -> Names] /\ m2 \in [Dirs -> Names] /\ r2 \in [Frames -> {0, 1}]
        BY <2>1 DEF TypesOf, Names
  <2>4. \A x \in TableDirs : p2[x] \in Frames \cup {None}
        BY <2>1 DEF TypesOf
  <2> QED BY <2>2, <2>3, <2>4 DEF TypesOf
<1>3. \A x \in TableDirs, e \in Entries : Behind(p2, c2, x, e) = Behind(p, c, x, e)
  <2>1. ASSUME NEW x \in TableDirs, NEW e \in Entries
        PROVE  Behind(p2, c2, x, e) = Behind(p, c, x, e)
    <3>1. CASE x = d
      <4>1. p2[x] = f /\ c2[f][e] = None
            BY <3>1 DEF MadeTable, Good, TypesOf
      <4> QED BY <4>1, <3>1 DEF Behind
    <3>2. CASE x # d
      <4>1. p2[x] = p[x] /\ p[x] # f
            BY <3>2, <1>1 DEF Good, TypesOf
      <4>2. p[x] \in Frames => c2[p[x]] = c[p[x]]
            BY <4>1 DEF MadeTable, Good, TypesOf
      <4> QED BY <4>1, <4>2 DEF Behind
    <3> QED BY <3>1, <3>2
  <2> QED BY <2>1
<1>4. \A x \in Dirs : p2[x] = IF x = d THEN f ELSE p[x]
      BY DEF Good, TypesOf
<1>5. MetaAgrees(p2, m2)
      BY <1>4 DEF MetaAgrees, Good, TypesOf
<1>6. TablesApart(p2)
      BY <1>1, <1>4 DEF TablesApart, Good
<1>7. Cleared(p2, c2) /\ PagesApart(p2, c2)
  <2>1. Cleared(p2, c2)
        BY <1>3 DEF Cleared, Good
  <2>2. ASSUME NEW d1 \in TableDirs, NEW d2 \in TableDirs,
               NEW e1 \in Entries, NEW e2 \in Entries,
               Behind(p2, c2, d1, e1) = Behind(p2, c2, d2, e2),
               Behind(p2, c2, d1, e1) # None
        PROVE  d1 = d2 /\ e1 = e2
    <3>1. Behind(p, c, d1, e1) = Behind(p, c, d2, e2) /\ Behind(p, c, d1, e1) # None
          BY <1>3, <2>2
    <3>2. PagesApart(p, c)
          BY DEF Good
    <3> QED BY <3>1, <3>2 DEF PagesApart
  <2>3. PagesApart(p2, c2)
        BY ONLY <2>2 DEF PagesApart
  <2> QED BY <2>1, <2>3
<1>8. NoTableIsAPage(p2, c2)
  <2>1. ASSUME NEW d1 \in TableDirs, NEW d2 \in TableDirs, NEW e \in Entries,
               Behind(p2, c2, d1, e) # None
        PROVE  Behind(p2, c2, d1, e) # p2[d2]
    <3>1. /\ Behind(p2, c2, d1, e) = Behind(p, c, d1, e)
          /\ Behind(p, c, d1, e) # f
          BY <1>1, <1>3
    <3>2. p2[d2] = IF d2 = d THEN f ELSE p[d2]
          BY <1>4
    <3>3. Behind(p, c, d1, e) # p[d2]
          BY <3>1, <2>1 DEF Good, NoTableIsAPage
    <3> QED BY <3>1, <3>2, <3>3
  <2> QED BY <2>1 DEF NoTableIsAPage
<1>9. Counted(p2, c2, r2)
  <2>1. ASSUME NEW g \in Frames
        PROVE  r2[g] = 1 <=> IsTable(p2, g) \/ IsPage(p2, c2, g)
    <3>1. IsPage(p2, c2, g) <=> IsPage(p, c, g)
          BY <1>3 DEF IsPage
    <3>2. CASE g = f
          BY <3>2, <1>4 DEF IsTable, Good, TypesOf
    <3>3. CASE g # f
      <4>1. IsTable(p2, g) <=> IsTable(p, g)
            BY <1>4, <3>3 DEF IsTable
      <4>2. r2[g] = r[g]
            BY <3>3 DEF Good, TypesOf
      <4> QED BY <3>1, <4>1, <4>2 DEF Good, Counted
    <3> QED BY <3>2, <3>3
  <2> QED BY <2>1 DEF Counted
<1>10. Keeps(p, c, p2, c2)
      BY <1>3 DEF Keeps
<1> QED BY <1>2, <1>5, <1>6, <1>7, <1>8, <1>9, <1>10 DEF Good

(* A page set in a table, with a free frame that then holds anything.      *)
LEMMA PageSet ==
  ASSUME NEW p, NEW m, NEW c, NEW r, Good(p, m, c, r),
         NEW d \in TableDirs, p[d] \in Frames,
         NEW e \in Entries, c[p[d]][e] = None,
         NEW f \in Frames, r[f] = 0
  PROVE  /\ Good(p, m, Scribbled(f, [c EXCEPT ![m[d]][e] = f]), [r EXCEPT ![f] = 1])
         /\ Sets(p, c, p, Scribbled(f, [c EXCEPT ![m[d]][e] = f]), d, e, f)
<1> DEFINE c2 == Scribbled(f, [c EXCEPT ![m[d]][e] = f])
           r2 == [r EXCEPT ![f] = 1]
<1> USE NoFrames, Layout
<1>1. /\ \A x \in TableDirs : p[x] # f
      /\ \A x \in TableDirs, y \in Entries : Behind(p, c, x, y) # f
      BY FreeIsUnused
<1>2. m[d] = p[d]
      BY DEF Good, MetaAgrees
<1>3. TypesOf(p, m, c2, r2)
  <2>1. TypesOf(p, m, c, r)
        BY DEF Good
  <2>2. [c EXCEPT ![m[d]][e] = f] \in [Frames -> [Entries -> Frames \cup {None, Junk}]]
        BY <1>2, <2>1 DEF TypesOf
  <2>3. c2 \in [Frames -> [Entries -> Frames \cup {None, Junk}]]
        BY <2>2 DEF Scribbled
  <2> QED BY <2>1, <2>3 DEF TypesOf
<1>4. \A x \in TableDirs, y \in Entries :
        Behind(p, c2, x, y) = IF x = d /\ y = e THEN f ELSE Behind(p, c, x, y)
  <2>1. ASSUME NEW x \in TableDirs, NEW y \in Entries
        PROVE  Behind(p, c2, x, y) = IF x = d /\ y = e THEN f ELSE Behind(p, c, x, y)
    <3>1. p[x] # f /\ p[d] # f
          BY <1>1
    <3>2. c \in [Frames -> [Entries -> Frames \cup {None, Junk}]]
          BY DEF Good, TypesOf
    <3>3. \A g \in Frames \ {f} :
            c2[g] = IF g = p[d] THEN [c[g] EXCEPT ![e] = f] ELSE c[g]
          BY <1>2, <3>2 DEF Scribbled
    <3>4. CASE x = d
      <4>1. c2[p[x]][y] = IF y = e THEN f ELSE c[p[x]][y]
            BY <3>1, <3>2, <3>3, <3>4
      <4> QED BY <3>4, <4>1 DEF Behind
    <3>5. CASE x # d
      <4>1. p[x] # p[d] \/ p[x] \notin Frames
            BY <3>5 DEF Good, TablesApart
      <4>2. p[x] \in Frames => c2[p[x]] = c[p[x]]
            BY <3>1, <3>3, <4>1
      <4> QED BY <3>5, <4>2 DEF Behind
    <3> QED BY <3>4, <3>5
  <2> QED BY <2>1
<1>5. Behind(p, c, d, e) = None
      BY DEF Behind
<1>6. Cleared(p, c2)
  <2>1. Cleared(p, c)
        BY DEF Good
  <2> QED BY <1>4, <2>1 DEF Cleared
<1>7. PagesApart(p, c2)
  <2>1. ASSUME NEW d1 \in TableDirs, NEW d2 \in TableDirs,
               NEW e1 \in Entries, NEW e2 \in Entries,
               Behind(p, c2, d1, e1) = Behind(p, c2, d2, e2),
               Behind(p, c2, d1, e1) # None
        PROVE  d1 = d2 /\ e1 = e2
    <3>1. /\ Behind(p, c2, d1, e1) =
               IF d1 = d /\ e1 = e THEN f ELSE Behind(p, c, d1, e1)
          /\ Behind(p, c2, d2, e2) =
               IF d2 = d /\ e2 = e THEN f ELSE Behind(p, c, d2, e2)
          BY <1>4
    <3>2. Behind(p, c, d1, e1) # f /\ Behind(p, c, d2, e2) # f
          BY <1>1
    <3>3. Behind(p, c, d1, e1) = Behind(p, c, d2, e2) /\ Behind(p, c, d1, e1) # None
            => d1 = d2 /\ e1 = e2
          BY DEF Good, PagesApart
    <3> QED BY <2>1, <3>1, <3>2, <3>3
  <2> QED BY ONLY <2>1 DEF PagesApart
<1>8. NoTableIsAPage(p, c2)
  <2>1. ASSUME NEW d1 \in TableDirs, NEW d2 \in TableDirs, NEW y \in Entries,
               Behind(p, c2, d1, y) # None
        PROVE  Behind(p, c2, d1, y) # p[d2]
    <3>1. Behind(p, c2, d1, y) =
            IF d1 = d /\ y = e THEN f ELSE Behind(p, c, d1, y)
          BY <1>4
    <3>2. p[d2] # f
          BY <1>1
    <3>3. Behind(p, c, d1, y) # None => Behind(p, c, d1, y) # p[d2]
          BY DEF Good, NoTableIsAPage
    <3> QED BY <2>1, <3>1, <3>2, <3>3
  <2> QED BY <2>1 DEF NoTableIsAPage
<1>9. Counted(p, c2, r2)
  <2>1. ASSUME NEW g \in Frames
        PROVE  r2[g] = 1 <=> IsTable(p, g) \/ IsPage(p, c2, g)
    <3>1. CASE g = f
          BY <3>1, <1>4 DEF IsPage, Good, TypesOf
    <3>2. CASE g # f
      <4>1. IsPage(p, c2, g) <=> IsPage(p, c, g)
            BY <1>4, <1>5, <3>2 DEF IsPage
      <4>2. r2[g] = r[g]
            BY <3>2 DEF Good, TypesOf
      <4> QED BY <4>1, <4>2 DEF Good, Counted
    <3> QED BY <3>1, <3>2
  <2> QED BY <2>1 DEF Counted
<1>10. Sets(p, c, p, c2, d, e, f)
      BY <1>4 DEF Sets
<1> QED BY <1>3, <1>6, <1>7, <1>8, <1>9, <1>10 DEF Good

-----------------------------------------------------------------------------
(* Initially nothing of PMem's is in use.                                  *)
LEMMA InitIInv == Init => IInv
<1> SUFFICES ASSUME Init PROVE IInv
    OBVIOUS
<1> USE NoFrames, Layout
<1>1. \A d \in TableDirs : pde[d] = None
      BY DEF Init, BootEntries
<1>2. \A d \in TableDirs, e \in Entries : Behind(pde, content, d, e) = None
      BY <1>1 DEF Behind
<1>3. TypesOf(pde, meta, content, refs)
  <2>1. pde \in [Dirs -> Names] /\ meta \in [Dirs -> Names]
        BY DEF Init, BootEntries, Names
  <2> QED BY <1>1, <2>1 DEF Init, TypesOf
<1>4. MetaAgrees(pde, meta)
      BY DEF Init, MetaAgrees
<1>5. TablesApart(pde)
      BY <1>1 DEF TablesApart
<1>6. Cleared(pde, content)
      BY <1>2 DEF Cleared, None, Junk
<1>7. PagesApart(pde, content) /\ NoTableIsAPage(pde, content)
      BY <1>2 DEF PagesApart, NoTableIsAPage
<1>8. Counted(pde, content, refs)
      BY <1>1, <1>2 DEF Counted, IsTable, IsPage, Init
<1>9. start_entry \in FirstAlloc + 1 .. MetaDir /\ hung \in BOOLEAN
  <2>1. start_entry = FirstAlloc + 1 /\ hung = FALSE
        BY DEF Init
  <2>2. FirstAlloc + 1 \in FirstAlloc + 1 .. MetaDir
        BY DEF MetaDir
  <2>3. hung \in BOOLEAN
        BY <2>1
  <2> QED BY ONLY <2>1, <2>2, <2>3
<1>10. \A d \in FirstAlloc + 1 .. start_entry - 1 : pde[d] \in Frames
      BY DEF Init
<1> QED BY <1>3, <1>4, <1>5, <1>6, <1>7, <1>8, <1>9, <1>10 DEF IInv, Good

(* What free_memory() frees is what user space used.                       *)
LEMMA FreedIsUsed ==
  ASSUME IInv, NEW f \in Frames
  PROVE  f \in Freed <=>
           \/ \E d \in UserDirs : pde[d] = f
           \/ \E d \in UserDirs, e \in Entries : Behind(pde, content, d, e) = f
<1> USE NoFrames, Layout
<1>1. \A d \in UserDirs : pde[d] # None => pde[d] \in Frames /\ meta[d] = pde[d]
      BY DEF IInv, Good, TypesOf, MetaAgrees
<1>2. \A d \in UserDirs, e \in Entries :
        pde[d] # None => content[meta[d]][e] = Behind(pde, content, d, e)
      BY <1>1 DEF Behind
<1>3. \A d \in UserDirs, e \in Entries :
        pde[d] = None => Behind(pde, content, d, e) = None
      BY DEF Behind
<1>4. f # None
      OBVIOUS
<1>5. f \in FreedPages <=>
        \E d \in UserDirs, e \in Entries : pde[d] # None /\ content[meta[d]][e] = f
      BY <1>4 DEF FreedPages
<1> QED BY <1>2, <1>3, <1>4, <1>5 DEF Freed

(* free_memory() leaves the kernel's tables and pages as they were, and no *)
(* others.                                                                 *)
LEMMA MemoryFreed ==
  ASSUME IInv, FreeMemory
  PROVE  /\ Good(pde', meta', content', refs')
         /\ Unmaps(pde, content, pde', content')
<1> USE NoFrames, Layout
<1>1. Good(pde, meta, content, refs)
      BY DEF IInv
<1>2. \A d \in Dirs : pde'[d] = IF d \in UserDirs THEN None ELSE pde[d]
      BY DEF FreeMemory
<1>3. /\ pde' \in [Dirs -> Names] /\ meta' = meta
      BY <1>1 DEF FreeMemory, Good, TypesOf, Names
<1>4. \A d \in TableDirs \ UserDirs :
        pde[d] \in Frames => content'[pde[d]] = content[pde[d]]
  <2>1. ASSUME NEW d \in TableDirs \ UserDirs, pde[d] \in Frames,
               NEW u \in UserDirs, pde[u] # None, meta[u] = pde[d]
        PROVE  FALSE
    <3>1. pde[u] = pde[d]
          BY <1>1, <2>1 DEF Good, MetaAgrees
    <3> QED BY <1>1, <2>1, <3>1 DEF Good, TablesApart
  <2> QED BY <2>1 DEF FreeMemory
<1>5. \A d \in TableDirs, e \in Entries :
        Behind(pde', content', d, e) =
          IF d \in UserDirs THEN None ELSE Behind(pde, content, d, e)
  <2>1. ASSUME NEW d \in TableDirs, NEW e \in Entries
        PROVE  Behind(pde', content', d, e) =
                 IF d \in UserDirs THEN None ELSE Behind(pde, content, d, e)
    <3>1. CASE d \in UserDirs
          BY <1>2, <3>1 DEF Behind
    <3>2. CASE d \notin UserDirs
          BY <1>2, <1>4, <3>2 DEF Behind
    <3> QED BY <3>1, <3>2
  <2> QED BY <2>1
<1>6. TypesOf(pde', meta', content', refs')
  <2>1. content' \in [Frames -> [Entries -> Frames \cup {None, Junk}]]
        BY <1>1 DEF FreeMemory, Good, TypesOf
  <2>2. refs' \in [Frames -> {0, 1}]
        BY <1>1 DEF FreeMemory, Good, TypesOf
  <2>3. meta' \in [Dirs -> Names]
        BY <1>1, <1>3 DEF Good, TypesOf
  <2>4. \A d \in TableDirs : pde'[d] \in Frames \cup {None}
        BY <1>1, <1>2 DEF Good, TypesOf
  <2> QED BY <1>3, <2>1, <2>2, <2>3, <2>4 DEF TypesOf
<1>7. MetaAgrees(pde', meta')
      BY <1>1, <1>2, <1>3 DEF MetaAgrees, Good
<1>8. Cleared(pde', content')
      BY <1>1, <1>5 DEF Cleared, Good, None, Junk
<1>9. TablesApart(pde')
      BY <1>1, <1>2 DEF TablesApart, Good
<1>10. PagesApart(pde', content')
  <2>1. ASSUME NEW d1 \in TableDirs, NEW d2 \in TableDirs,
               NEW e1 \in Entries, NEW e2 \in Entries,
               Behind(pde', content', d1, e1) = Behind(pde', content', d2, e2),
               Behind(pde', content', d1, e1) # None
        PROVE  d1 = d2 /\ e1 = e2
    <3>1. /\ Behind(pde, content, d1, e1) = Behind(pde, content, d2, e2)
          /\ Behind(pde, content, d1, e1) # None
          BY <1>5, <2>1
    <3> QED BY <1>1, <3>1 DEF Good, PagesApart
  <2> QED BY <2>1 DEF PagesApart
<1>11. NoTableIsAPage(pde', content')
  <2>1. ASSUME NEW d1 \in TableDirs, NEW d2 \in TableDirs, NEW e \in Entries,
               Behind(pde', content', d1, e) # None
        PROVE  Behind(pde', content', d1, e) # pde'[d2]
    <3>1. /\ Behind(pde', content', d1, e) = Behind(pde, content, d1, e)
          /\ Behind(pde, content, d1, e) # None
          BY <1>5, <2>1
    <3>2. pde'[d2] = None \/ pde'[d2] = pde[d2]
          BY <1>2
    <3>3. Behind(pde, content, d1, e) # pde[d2]
          BY <1>1, <3>1 DEF Good, NoTableIsAPage
    <3> QED BY <3>1, <3>2, <3>3
  <2> QED BY <2>1 DEF NoTableIsAPage
<1>12. Counted(pde', content', refs')
  <2>1. ASSUME NEW f \in Frames
        PROVE  refs'[f] = 1 <=> IsTable(pde', f) \/ IsPage(pde', content', f)
    <3>1. refs'[f] = IF f \in Freed THEN 0 ELSE refs[f]
          BY <1>1 DEF FreeMemory, Good, TypesOf
    <3>2. refs[f] = 1 <=> IsTable(pde, f) \/ IsPage(pde, content, f)
          BY <1>1 DEF Good, Counted
    <3>3. IsTable(pde', f) <=> \E d \in TableDirs \ UserDirs : pde[d] = f
          BY <1>2 DEF IsTable
    <3>4. IsPage(pde', content', f) <=>
            \E d \in TableDirs \ UserDirs, e \in Entries : Behind(pde, content, d, e) = f
          BY <1>5 DEF IsPage
    <3>5. CASE f \in Freed
      <4>1. PICK u \in UserDirs :
              pde[u] = f \/ \E e \in Entries : Behind(pde, content, u, e) = f
            BY <3>5, FreedIsUsed
      <4>2. \A d \in TableDirs \ UserDirs : pde[d] # f
        <5>1. CASE pde[u] = f
              BY <1>1, <5>1 DEF Good, TablesApart
        <5>2. CASE pde[u] # f
              BY <1>1, <4>1, <5>2 DEF Good, NoTableIsAPage
        <5> QED BY <5>1, <5>2
      <4>3. \A d \in TableDirs \ UserDirs, e \in Entries : Behind(pde, content, d, e) # f
        <5>1. CASE pde[u] = f
              BY <1>1, <5>1 DEF Good, NoTableIsAPage
        <5>2. CASE pde[u] # f
              BY <1>1, <4>1, <5>2 DEF Good, PagesApart
        <5> QED BY <5>1, <5>2
      <4> QED BY <3>1, <3>3, <3>4, <3>5, <4>2, <4>3
    <3>6. CASE f \notin Freed
      <4>1. \A d \in UserDirs : pde[d] # f
            BY <3>6, FreedIsUsed
      <4>2. \A d \in UserDirs, e \in Entries : Behind(pde, content, d, e) # f
            BY <3>6, FreedIsUsed
      <4>3. IsTable(pde, f) <=> IsTable(pde', f)
            BY <3>3, <4>1 DEF IsTable
      <4>4. IsPage(pde, content, f) <=> IsPage(pde', content', f)
            BY <3>4, <4>2 DEF IsPage
      <4> QED BY <3>1, <3>2, <3>6, <4>3, <4>4
    <3> QED BY <3>5, <3>6
  <2> QED BY <2>1 DEF Counted
<1>13. Unmaps(pde, content, pde', content')
      BY <1>5 DEF Unmaps
<1> QED
    BY <1>6, <1>7, <1>8, <1>9, <1>10, <1>11, <1>12, <1>13 DEF Good

-----------------------------------------------------------------------------
(* The frames PMem gives are free.                                         *)
LEMMA FreeFrames ==
  ASSUME NEW f \in Free
  PROVE  f \in Frames /\ refs[f] = 0
BY DEF Free

(* Every table alloc_table() made is still there.                          *)
LEMMA KernelTable ==
  ASSUME IInv, ~hung, NEW d \in FirstAlloc + 1 .. start_entry - 1
  PROVE  d \in TableDirs /\ pde[d] \in Frames /\ meta[d] = pde[d]
<1>1. d \in TableDirs /\ d \in Dirs
      BY DEF IInv, TableDirs, MetaDir, Dirs
<1> QED BY <1>1, NoFrames DEF IInv, Good, MetaAgrees

(* A step keeps the pages, sets one without a frame to a frame that backs  *)
(* none, or unmaps those of user space.                                    *)
Fresh(d, e, f) ==
  /\ Behind(pde, content, d, e) = None
  /\ \A x \in TableDirs, y \in Entries : Behind(pde, content, x, y) # f

PagesStep ==
  \/ Keeps(pde, content, pde', content')
  \/ \E d \in TableDirs, e \in Entries, f \in Frames :
       Fresh(d, e, f) /\ Sets(pde, content, pde', content', d, e, f)
  \/ Unmaps(pde, content, pde', content')

(* A page of a table that is there: of the kernel's or of user space.      *)
LEMMA PageInTable ==
  ASSUME IInv, NEW d \in TableDirs, pde[d] \in Frames, NEW e \in Entries,
         content[meta[d]][e] = None, NEW f \in Free,
         refs' = [refs EXCEPT ![f] = 1], meta' = meta,
         content' = SetPage(d, e, f, content),
         UNCHANGED <<pde, start_entry, hung>>
  PROVE  IInv' /\ PagesStep
<1>1. f \in Frames /\ refs[f] = 0
      BY FreeFrames
<1>2. meta[d] = pde[d]
      BY Layout, NoFrames DEF IInv, Good, MetaAgrees
<1>3. content' = Scribbled(f, [content EXCEPT ![meta[d]][e] = f])
      BY DEF SetPage
<1>4. Good(pde, meta, content', refs') /\ Sets(pde, content, pde, content', d, e, f)
  <2>1. Good(pde, meta, content, refs) /\ content[pde[d]][e] = None
        BY <1>2 DEF IInv
  <2>2. /\ Good(pde, meta, Scribbled(f, [content EXCEPT ![meta[d]][e] = f]),
                [refs EXCEPT ![f] = 1])
        /\ Sets(pde, content, pde, Scribbled(f, [content EXCEPT ![meta[d]][e] = f]),
                d, e, f)
        BY <1>1, <2>1, PageSet
  <2> QED BY ONLY <1>3, <2>2, refs' = [refs EXCEPT ![f] = 1]
<1>5. Fresh(d, e, f)
  <2>1. Behind(pde, content, d, e) = None
        BY <1>2 DEF Behind
  <2>2. \A x \in TableDirs, y \in Entries : Behind(pde, content, x, y) # f
        BY <1>1, FreeIsUnused DEF IInv
  <2> QED BY <2>1, <2>2 DEF Fresh
<1>6. IInv'
      BY <1>4 DEF IInv
<1> QED BY <1>1, <1>4, <1>5, <1>6 DEF PagesStep

(* Every step preserves the invariant and does one of the three things.    *)
LEMMA NextIInv ==
  ASSUME IInv, [Next]_vars
  PROVE  IInv' /\ PagesStep
<1> USE NoFrames, Layout
<1>1. CASE UNCHANGED vars
  <2>1. IInv'
        BY <1>1 DEF vars, IInv
  <2>2. Keeps(pde, content, pde', content')
        BY <1>1 DEF vars, Keeps
  <2> QED BY <2>1, <2>2 DEF PagesStep
<1>2. CASE AllocTable
  <2>1. start_entry \in TableDirs /\ pde[start_entry] = None
        BY <1>2 DEF AllocTable, IInv, TableDirs, MetaDir
  <2>2. start_entry' \in FirstAlloc + 1 .. MetaDir
        BY <1>2 DEF AllocTable, NextEntry, IInv, MetaDir
  <2>3. CASE Free = {}
    <3>1. hung' = TRUE /\ UNCHANGED <<pde, meta, content, refs>>
          BY <1>2, <2>3 DEF AllocTable
    <3>2. IInv'
          BY <2>2, <3>1 DEF IInv
    <3>3. Keeps(pde, content, pde', content')
          BY <3>1 DEF Keeps
    <3> QED BY <3>2, <3>3 DEF PagesStep
  <2>4. CASE Free # {}
    <3>1. PICK f \in Free :
            /\ refs' = [refs EXCEPT ![f] = 1]
            /\ NewTable(start_entry, f)
            /\ content' = MadeTable(start_entry, f, content)
            /\ UNCHANGED hung
          BY <1>2, <2>4 DEF AllocTable
    <3>2. /\ Good(pde', meta', content', refs')
          /\ Keeps(pde, content, pde', content')
      <4>1. Good(pde, meta, content, refs) /\ f \in Frames /\ refs[f] = 0
            BY FreeFrames DEF IInv
      <4>2. /\ pde' = [pde EXCEPT ![start_entry] = f]
            /\ meta' = [meta EXCEPT ![start_entry] = f]
            BY <3>1 DEF NewTable
      <4> QED BY <2>1, <3>1, <4>1, <4>2, TableMade
    <3>3. \A d \in FirstAlloc + 1 .. start_entry' - 1 : pde'[d] \in Frames
      <4>1. start_entry' = start_entry + 1 /\ start_entry \in Int
            BY <1>2 DEF AllocTable, NextEntry, IInv, MetaDir
      <4>2. pde' = [pde EXCEPT ![start_entry] = f] /\ f \in Frames
            BY <3>1, FreeFrames DEF NewTable
      <4>3. \A d \in FirstAlloc + 1 .. start_entry - 1 : pde[d] \in Frames
            BY <1>2 DEF AllocTable, IInv
      <4>4. pde \in [Dirs -> Names] /\ start_entry \in Dirs
            BY <2>1 DEF IInv, Good, TypesOf
      <4>5. ASSUME NEW d \in FirstAlloc + 1 .. start_entry' - 1
            PROVE  pde'[d] \in Frames
        <5>1. CASE d = start_entry
              BY <4>2, <4>4, <5>1
        <5>2. CASE d # start_entry
          <6>1. d \in FirstAlloc + 1 .. start_entry - 1
                BY <4>1, <5>2
          <6>2. pde'[d] = pde[d]
                BY <4>2, <4>4, <5>2
          <6> QED BY <4>3, <6>1, <6>2
        <5> QED BY <5>1, <5>2
      <4> QED BY <4>5
    <3>4. IInv'
          BY <2>2, <3>1, <3>2, <3>3 DEF IInv
    <3> QED BY <3>2, <3>4 DEF PagesStep
  <2> QED BY <2>3, <2>4
<1>3. ASSUME NEW d \in FirstAlloc + 1 .. MetaDir - 1, NEW e \in Entries,
             AllocAnyMemory(d, e)
      PROVE  IInv' /\ PagesStep
  <2>1. d \in TableDirs /\ pde[d] \in Frames
        BY <1>3, KernelTable DEF AllocAnyMemory
  <2>2. PICK f \in Free :
          /\ refs' = [refs EXCEPT ![f] = 1] /\ meta' = meta
          /\ content' = SetPage(d, e, f, content)
        BY <1>3 DEF AllocAnyMemory
  <2> QED BY <1>3, <2>1, <2>2, PageInTable DEF AllocAnyMemory
<1>4. ASSUME NEW d \in UserDirs, NEW e \in Entries, MapInTable(d, e)
      PROVE  IInv' /\ PagesStep
  <2>1. d \in TableDirs /\ pde[d] \in Frames
        BY <1>4 DEF MapInTable, IInv, Good, TypesOf
  <2>2. PICK f \in Free :
          /\ refs' = [refs EXCEPT ![f] = 1] /\ meta' = meta
          /\ content' = SetPage(d, e, f, content)
        BY <1>4 DEF MapInTable
  <2> QED BY <1>4, <2>1, <2>2, PageInTable DEF MapInTable
<1>5. ASSUME NEW d \in UserDirs, NEW e \in Entries, MapInNewTable(d, e)
      PROVE  IInv' /\ PagesStep
  <2>1. d \in TableDirs /\ pde[d] = None
        BY <1>5 DEF MapInNewTable
  <2>2. PICK t \in Free, f \in Free :
          /\ t # f
          /\ refs' = [refs EXCEPT ![t] = 1, ![f] = 1]
          /\ NewTable(d, t)
          /\ content' = SetPage(d, e, f, MadeTable(d, t, content))
        BY <1>5 DEF MapInNewTable
  <2> DEFINE made == MadeTable(d, t, content)
             once == [refs EXCEPT ![t] = 1]
  <2> HIDE DEF made, once
  <2>3. t \in Frames /\ refs[t] = 0 /\ f \in Frames /\ refs[f] = 0
        BY FreeFrames
  <2>4. Good(pde', meta', made, once) /\ Keeps(pde, content, pde', made)
    <3>1. Good(pde, meta, content, refs)
          BY DEF IInv
    <3>2. pde' = [pde EXCEPT ![d] = t] /\ meta' = [meta EXCEPT ![d] = t]
          BY <2>2 DEF NewTable
    <3>3. made = MadeTable(d, t, content) /\ once = [refs EXCEPT ![t] = 1]
          BY DEF made, once
    <3> QED BY <2>1, <2>3, <3>1, <3>2, <3>3, TableMade
  <2>5. pde'[d] = t /\ made[t][e] = None
        BY <2>1, <2>2, <2>3 DEF NewTable, MadeTable, IInv, Good, TypesOf, made
  <2>6. once[f] = 0 /\ refs' = [once EXCEPT ![f] = 1]
        BY <2>2, <2>3 DEF IInv, Good, TypesOf, once
  <2>7. content' = Scribbled(f, [made EXCEPT ![meta'[d]][e] = f])
        BY <2>2 DEF SetPage, made
  <2>8. /\ Good(pde', meta', content', refs')
        /\ Sets(pde', made, pde', content', d, e, f)
    <3>1. pde'[d] \in Frames /\ made[pde'[d]][e] = None
          BY <2>3, <2>5
    <3> QED BY <2>1, <2>3, <2>4, <2>6, <2>7, <3>1, PageSet
  <2>9. Fresh(d, e, f) /\ Sets(pde, content, pde', content', d, e, f)
    <3>1. Behind(pde, content, d, e) = None
          BY <2>1 DEF Behind
    <3>2. \A x \in TableDirs, y \in Entries : Behind(pde, content, x, y) # f
          BY <2>3, FreeIsUnused DEF IInv
    <3> QED BY <2>4, <2>8, <3>1, <3>2 DEF Fresh, Sets, Keeps
  <2>10. \A k \in FirstAlloc + 1 .. start_entry - 1 : pde'[k] = pde[k]
        BY <2>2 DEF NewTable, IInv, Good, TypesOf, UserDirs, Dirs, MetaDir
  <2>11. IInv'
        BY <1>5, <2>8, <2>10 DEF MapInNewTable, IInv
  <2> QED BY <2>1, <2>3, <2>9, <2>11 DEF PagesStep
<1>6. ASSUME NEW d \in UserDirs, NEW e \in Entries, MapOnlyTable(d, e)
      PROVE  IInv' /\ PagesStep
  <2>1. d \in TableDirs /\ pde[d] = None
        BY <1>6 DEF MapOnlyTable
  <2>2. PICK t \in Free :
          /\ refs' = [refs EXCEPT ![t] = 1]
          /\ NewTable(d, t)
          /\ content' = MadeTable(d, t, content)
        BY <1>6 DEF MapOnlyTable
  <2>3. /\ Good(pde', meta', content', refs')
        /\ Keeps(pde, content, pde', content')
    <3>1. Good(pde, meta, content, refs) /\ t \in Frames /\ refs[t] = 0
          BY FreeFrames DEF IInv
    <3>2. pde' = [pde EXCEPT ![d] = t] /\ meta' = [meta EXCEPT ![d] = t]
          BY <2>2 DEF NewTable
    <3> QED BY <2>1, <2>2, <3>1, <3>2, TableMade
  <2>4. \A k \in FirstAlloc + 1 .. start_entry - 1 : pde'[k] = pde[k]
        BY <2>2 DEF NewTable, IInv, Good, TypesOf, UserDirs, Dirs, MetaDir
  <2>5. IInv'
        BY <1>6, <2>3, <2>4 DEF MapOnlyTable, IInv
  <2> QED BY <2>3, <2>5 DEF PagesStep
<1>7. ASSUME NEW d \in UserDirs, NEW e \in Entries, MapNothing(d, e)
      PROVE  UNCHANGED vars
      BY <1>7 DEF MapNothing
<1>8. CASE FreeMemory
  <2>1. /\ Good(pde', meta', content', refs')
        /\ Unmaps(pde, content, pde', content')
        BY <1>8, MemoryFreed
  <2>2. \A k \in FirstAlloc + 1 .. start_entry - 1 : pde'[k] = pde[k]
        BY <1>8 DEF FreeMemory, IInv, UserDirs, Dirs, MetaDir
  <2>3. IInv'
        BY <1>8, <2>1, <2>2 DEF FreeMemory, IInv
  <2> QED BY <2>1, <2>3 DEF PagesStep
<1>9. CASE Halted
      BY <1>9, <1>1 DEF Halted
<1> QED BY <1>1, <1>2, <1>3, <1>4, <1>5, <1>6, <1>7, <1>8, <1>9 DEF Next

-----------------------------------------------------------------------------
(* The invariant holds in every state of every behaviour.                  *)
THEOREM SpecIInv == Spec => []IInv
<1>1. Init => IInv
      BY InitIInv
<1>2. IInv /\ [Next]_vars => IInv'
      BY NextIInv
<1> QED BY <1>1, <1>2, PTL DEF Spec

(* The directory, the metatable and the tables keep their types: their     *)
(* entries name frames of PMem's or the three fixed ones.                  *)
THEOREM SpecTypeOK == Spec => []TypeOK
<1>1. IInv => TypeOK
      BY DEF IInv, Good, TypesOf, TypeOK, Names
<1> QED BY <1>1, SpecIInv, PTL

(* tables[d] is the table the CPU uses for directory entry d: an edit      *)
(* through the metatable, map_page()'s or the kernel's, never lands in     *)
(* another table or in memory free_memory() gave back.                     *)
THEOREM SpecTablesAreTheDirectorys == Spec => []TablesAreTheDirectorys
<1>1. IInv => TablesAreTheDirectorys
      BY DEF IInv, Good, MetaAgrees, TablesAreTheDirectorys
<1> QED BY <1>1, SpecIInv, PTL

(* The CPU translates no page through an entry that make_table() did not   *)
(* clear.                                                                  *)
THEOREM SpecNoJunkMapped == Spec => []NoJunkMapped
<1>1. IInv => NoJunkMapped
  <2> SUFFICES ASSUME IInv, NEW d \in TableDirs, NEW e \in Entries
               PROVE  Translation(d, e) # Junk
      BY DEF NoJunkMapped
  <2>1. Translation(d, e) = Behind(pde, content, d, e)
        BY DEF Translation, Behind
  <2> QED BY <2>1 DEF IInv, Good, Cleared
<1> QED BY <1>1, SpecIInv, PTL

(* A set of at most one element.                                           *)
LEMMA AtMostOne ==
  ASSUME NEW S, \A x, y \in S : x = y
  PROVE  Cardinality(S) = IF S = {} THEN 0 ELSE 1
<1>1. CASE S = {}
      BY <1>1, FS_EmptySet
<1>2. CASE S # {}
  <2>1. PICK x \in S : TRUE
        BY <1>2
  <2>2. S = {x}
        BY <2>1
  <2> QED BY <2>2, <1>2, FS_Singleton
<1> QED BY <1>1, <1>2

(* What PMem counts for a frame, 0 or 1, is its uses: over alloc_table(),  *)
(* map_page() with all its failures and free_memory() no frame is shared,  *)
(* lost or used when free.                                                 *)
THEOREM SpecFramesAccounted == Spec => []FramesAccounted
<1>1. IInv => FramesAccounted
  <2> SUFFICES ASSUME IInv, NEW f \in Frames
               PROVE  refs[f] = Uses(f) /\ refs[f] <= 1
      BY DEF FramesAccounted
  <2> DEFINE AsTable == {d \in TableDirs : pde[d] = f}
             AsPage == {p \in TableDirs \X Entries : Translation(p[1], p[2]) = f}
  <2>1. f # None
        BY NoFrames
  <2>2. \A d \in TableDirs, e \in Entries :
          Translation(d, e) = Behind(pde, content, d, e)
        BY DEF Translation, Behind
  <2>3. Cardinality(AsTable) = IF AsTable = {} THEN 0 ELSE 1
    <3>1. \A x, y \in AsTable : x = y
          BY <2>1 DEF IInv, Good, TablesApart
    <3> QED BY <3>1, AtMostOne
  <2>4. Cardinality(AsPage) = IF AsPage = {} THEN 0 ELSE 1
    <3>1. ASSUME NEW x \in AsPage, NEW y \in AsPage
          PROVE  x = y
      <4>1. /\ x[1] \in TableDirs /\ x[2] \in Entries
            /\ y[1] \in TableDirs /\ y[2] \in Entries
            /\ Behind(pde, content, x[1], x[2]) = f
            /\ Behind(pde, content, y[1], y[2]) = f
            BY <2>2
      <4>2. x[1] = y[1] /\ x[2] = y[2]
            BY <2>1, <4>1 DEF IInv, Good, PagesApart
      <4>3. x = <<x[1], x[2]>> /\ y = <<y[1], y[2]>>
            OBVIOUS
      <4> QED BY <4>2, <4>3
    <3> QED BY <3>1, AtMostOne
  <2>5. AsTable # {} <=> IsTable(pde, f)
        BY DEF IsTable
  <2>6. AsPage # {} <=> IsPage(pde, content, f)
    <3>1. ASSUME AsPage # {} PROVE IsPage(pde, content, f)
      <4>1. PICK x \in AsPage : TRUE
            BY <3>1
      <4>2. x[1] \in TableDirs /\ x[2] \in Entries /\ Translation(x[1], x[2]) = f
            BY <4>1
      <4> QED BY <2>2, <4>2 DEF IsPage
    <3>2. ASSUME IsPage(pde, content, f) PROVE AsPage # {}
      <4>1. PICK d \in TableDirs, e \in Entries : Behind(pde, content, d, e) = f
            BY <3>2 DEF IsPage
      <4>2. <<d, e>> \in AsPage
            BY <2>2, <4>1
      <4> QED BY <4>2
    <3> QED BY <3>1, <3>2
  <2>7. ~(AsTable # {} /\ AsPage # {})
        BY <2>1, <2>5, <2>6 DEF IsTable, IsPage, IInv, Good, NoTableIsAPage
  <2>8. refs[f] \in {0, 1} /\ (refs[f] = 1 <=> AsTable # {} \/ AsPage # {})
        BY <2>5, <2>6 DEF IInv, Good, TypesOf, Counted
  <2>9. Uses(f) = Cardinality(AsTable) + Cardinality(AsPage)
        BY DEF Uses
  <2> HIDE DEF AsTable, AsPage
  <2> QED BY <2>3, <2>4, <2>7, <2>8, <2>9
<1> QED BY <1>1, SpecIInv, PTL

-----------------------------------------------------------------------------
(* The mapping of an AddressSpace that the tables are.                     *)
Mapping == [p \in TableDirs \X Entries |-> Translation(p[1], p[2])]

(* At the start no page of PMem's has a frame.                             *)
LEMMA InitSpace == Init => Space!Init
<1> SUFFICES ASSUME Init PROVE Mapping = [p \in TableDirs \X Entries |-> None]
    BY DEF Space!Init, Mapping
<1>1. \A d \in TableDirs : pde[d] = None
      BY Layout DEF Init, BootEntries
<1>2. \A d \in TableDirs, e \in Entries : Translation(d, e) = None
      BY <1>1, NoFrames DEF Translation
<1> QED BY <1>2 DEF Mapping

(* Every step maps a page, unmaps user space or changes no page.           *)
LEMMA NextSpace == IInv /\ [Next]_vars => [Space!Next]_Mapping
<1> SUFFICES ASSUME IInv, [Next]_vars PROVE [Space!Next]_Mapping
    OBVIOUS
<1>1. PagesStep
      BY NextIInv
<1>2. /\ \A p \in TableDirs \X Entries :
           Mapping[p] = Behind(pde, content, p[1], p[2])
      /\ \A p \in TableDirs \X Entries :
           Mapping'[p] = Behind(pde', content', p[1], p[2])
      BY DEF Mapping, Translation, Behind
<1>3. CASE Keeps(pde, content, pde', content')
  <2>1. \A p \in TableDirs \X Entries : Mapping'[p] = Mapping[p]
        BY <1>2, <1>3 DEF Keeps
  <2>2. Mapping' = Mapping
        BY <2>1 DEF Mapping
  <2> QED BY <2>2
<1>4. ASSUME NEW d \in TableDirs, NEW e \in Entries, NEW f \in Frames,
             Fresh(d, e, f), Sets(pde, content, pde', content', d, e, f)
      PROVE  Space!Map(<<d, e>>, f)
  <2>1. \A p \in TableDirs \X Entries :
          Mapping'[p] = IF p = <<d, e>> THEN f ELSE Mapping[p]
        BY <1>2, <1>4 DEF Sets
  <2>2. Mapping' = [Mapping EXCEPT ![<<d, e>>] = f]
        BY <2>1 DEF Mapping
  <2>3. Mapping[<<d, e>>] = None /\ \A q \in TableDirs \X Entries : Mapping[q] # f
        BY <1>2, <1>4 DEF Fresh
  <2> QED BY <2>2, <2>3 DEF Space!Map, Mapping
<1>5. CASE Unmaps(pde, content, pde', content')
  <2>1. \A p \in TableDirs \X Entries :
          Mapping'[p] = IF p \in UserDirs \X Entries THEN None ELSE Mapping[p]
        BY <1>2, <1>5 DEF Unmaps
  <2>2. Mapping' = [p \in TableDirs \X Entries |->
                      IF p \in UserDirs \X Entries THEN None ELSE Mapping[p]]
        BY <2>1 DEF Mapping
  <2> QED BY <2>2 DEF Space!Next, Space!UnmapUser, Mapping
<1>6. ASSUME NEW d \in TableDirs, NEW e \in Entries, NEW f \in Frames,
             Fresh(d, e, f), Sets(pde, content, pde', content', d, e, f)
      PROVE  Space!Next
  <2>1. Space!Map(<<d, e>>, f) /\ <<d, e>> \in TableDirs \X Entries
        BY <1>4, <1>6
  <2> QED BY <2>1 DEF Space!Next
<1> QED BY <1>1, <1>3, <1>5, <1>6 DEF PagesStep

(* The directory, the tables and the metatable implement an address space: *)
(* pages get frames one at a time, each a frame of its own, and only       *)
(* free_memory() takes them, all of user space's at once.                  *)
THEOREM SpecImplementsAddressSpace == Spec => ImplementsAddressSpace
<1>1. Init => Space!Init
      BY InitSpace
<1>2. IInv /\ [Next]_vars => [Space!Next]_Mapping
      BY NextSpace
<1> QED BY <1>1, <1>2, SpecIInv, PTL DEF Spec, Space!Spec, ImplementsAddressSpace, Mapping
=============================================================================
