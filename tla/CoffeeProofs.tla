----------------------------- MODULE CoffeeProofs ------------------------------
(* Proofs about Coffee, for flashes, extents, logs and caches of any size.    *)
(*                                                                            *)
(* The flash is laid out in extents that do not overlap, and the walk of      *)
(* find_file and of the collector stops at each of them (Layout, WalkIsStops);*)
(* every modified file has a log of its own, written from the first record on *)
(* (Logs); the file objects, next_free and gc_wait are true of the flash      *)
(* (CacheOK, FreeOK, GcOK).  An operation is a value that the functions of    *)
(* cfs-coffee.c pass on, so the proof follows the calls: there is a predicate *)
(* for what each function does to that value (Found, Made, Collected, Gone,   *)
(* Moved, Stored, Outcome), a lemma that it does, and the steps of Next are   *)
(* put together from these.  What a file holds is followed through them as    *)
(* its end (IsEnd) and its regions (Region).                                  *)
EXTENDS Coffee, FiniteSetTheorems, WellFoundedInduction, SequenceTheorems, TLAPS

\* What the theorems suppose of the configuration: extents and logs are made of
\* whole sectors.
WholeSectors == DynPages % PagesPerSector = 0 /\ LogRecords % PagesPerSector = 0

\* The first page of a sector, or the end of one.
Aligned(p) == \E k \in Nat : p = k * PagesPerSector

-------------------------------------------------------------------------------
(* Arithmetic of pages and sectors.                                           *)

LEMMA DivBounds ==
  ASSUME NEW d \in Nat \ {0}, NEW x \in Nat
  PROVE  /\ x \div d \in Nat
         /\ (x \div d) * d <= x
         /\ x < (x \div d) * d + d
OBVIOUS

LEMMA ModZero ==
  ASSUME NEW d \in Nat \ {0}, NEW x \in Nat, x % d = 0
  PROVE  x = (x \div d) * d
OBVIOUS

LEMMA MulMono ==
  ASSUME NEW d \in Nat \ {0}, NEW k \in Int, NEW m \in Int, k < m
  PROVE  k * d + d <= m * d
OBVIOUS

LEMMA DivUnique ==
  ASSUME NEW d \in Nat \ {0}, NEW x \in Nat, NEW k \in Nat,
         k * d <= x, x < k * d + d
  PROVE  x \div d = k
OBVIOUS

LEMMA Sizes ==
  /\ PagesPerSector \in Nat \ {0} /\ Sectors \in Nat \ {0}
  /\ DynPages \in Nat \ {0} /\ LogRecords \in Nat \ {0}
  /\ Slots \in Nat /\ Slots >= 2
  /\ PageCount \in Nat \ {0} /\ Aligned(PageCount) /\ Pages = 0..(PageCount - 1)
<1>1. /\ PagesPerSector \in Nat \ {0} /\ Sectors \in Nat \ {0}
      /\ DynPages \in Nat \ {0} /\ LogRecords \in Nat \ {0}
      /\ Slots \in Nat /\ Slots >= 2
  BY CoffeeAssumption
<1>2. PageCount \in Nat \ {0}
  BY <1>1 DEF PageCount
<1>3. Aligned(PageCount)
  BY <1>1 DEF PageCount, Aligned
<1> QED
  BY <1>1, <1>2, <1>3 DEF Pages

LEMMA AlignedFacts ==
  /\ Aligned(0) /\ Aligned(PagesPerSector)
  /\ \A x : Aligned(x) => x \in Nat
  /\ \A x, y : Aligned(x) /\ Aligned(y) => Aligned(x + y)
  /\ \A x, y : Aligned(x) /\ Aligned(y) /\ x < y => x + PagesPerSector <= y
  /\ \A x, y : Aligned(x) /\ Aligned(y) /\ x <= y => Aligned(y - x)
<1> USE Sizes
<1>1. Aligned(0)
  <2>1. 0 = 0 * PagesPerSector
    OBVIOUS
  <2> QED
    BY <2>1 DEF Aligned
<1>2. Aligned(PagesPerSector)
  <2>1. PagesPerSector = 1 * PagesPerSector
    OBVIOUS
  <2> QED
    BY <2>1 DEF Aligned
<1>3. \A x : Aligned(x) => x \in Nat
  BY DEF Aligned
<1> SUFFICES ASSUME NEW x, NEW y, Aligned(x), Aligned(y)
             PROVE  /\ Aligned(x + y)
                    /\ x < y => x + PagesPerSector <= y
                    /\ x <= y => Aligned(y - x)
  BY <1>1, <1>2, <1>3
<1>4. PICK k \in Nat, m \in Nat : x = k * PagesPerSector /\ y = m * PagesPerSector
  BY DEF Aligned
<1>5. Aligned(x + y)
  <2>1. x + y = (k + m) * PagesPerSector /\ k + m \in Nat
    BY <1>4
  <2> QED
    BY <2>1 DEF Aligned
<1>6. ASSUME x < y PROVE x + PagesPerSector <= y
  <2>1. k < m
    <3>1. ASSUME m <= k PROVE FALSE
      <4>1. m = k \/ m < k
        BY <3>1, <1>4
      <4>2. ASSUME m < k PROVE FALSE
        <5>1. m * PagesPerSector + PagesPerSector <= k * PagesPerSector
          BY <4>2, MulMono
        <5> QED
          BY <5>1, <1>4, <1>6
      <4> QED
        BY <4>1, <4>2, <1>4, <1>6
    <3> QED
      BY <3>1, <1>4
  <2> QED
    BY <2>1, <1>4, MulMono
<1>7. ASSUME x <= y PROVE Aligned(y - x)
  <2>1. k <= m
    <3>1. ASSUME m < k PROVE FALSE
      <4>1. m * PagesPerSector + PagesPerSector <= k * PagesPerSector
        BY <3>1, MulMono
      <4> QED
        BY <4>1, <1>4, <1>7
    <3> QED
      BY <3>1, <1>4
  <2>2. m - k \in Nat /\ y - x = (m - k) * PagesPerSector
    BY <2>1, <1>4
  <2> QED
    BY <2>2 DEF Aligned
<1> QED
  BY <1>5, <1>6, <1>7

LEMMA WholeAligned ==
  ASSUME WholeSectors
  PROVE  Aligned(DynPages) /\ Aligned(LogRecords)
<1>1. DynPages = (DynPages \div PagesPerSector) * PagesPerSector
  BY Sizes, ModZero DEF WholeSectors
<1>2. LogRecords = (LogRecords \div PagesPerSector) * PagesPerSector
  BY Sizes, ModZero DEF WholeSectors
<1>3. DynPages \div PagesPerSector \in Nat /\ LogRecords \div PagesPerSector \in Nat
  BY Sizes, DivBounds
<1> QED
  BY <1>1, <1>2, <1>3 DEF Aligned

\* The end of the sector of page p, as next_file computes it.
SectorEnd(p) == ((p + PagesPerSector) \div PagesPerSector) * PagesPerSector

LEMMA SectorEndFacts ==
  ASSUME NEW p \in Pages
  PROVE  /\ SectorEnd(p) \in Nat /\ Aligned(SectorEnd(p))
         /\ p < SectorEnd(p) /\ SectorEnd(p) <= PageCount
         /\ Aligned(p) => SectorEnd(p) = p + PagesPerSector
<1> USE Sizes
<1> DEFINE k == (p + PagesPerSector) \div PagesPerSector
<1>1. p \in Nat /\ p < PageCount /\ p + PagesPerSector \in Nat
  OBVIOUS
<1>2. k \in Nat /\ k * PagesPerSector <= p + PagesPerSector
      /\ p + PagesPerSector < k * PagesPerSector + PagesPerSector
  BY <1>1, DivBounds
<1>3. SectorEnd(p) = k * PagesPerSector
  BY DEF SectorEnd
<1> HIDE DEF k
<1>4. SectorEnd(p) \in Nat /\ Aligned(SectorEnd(p)) /\ p < SectorEnd(p)
      /\ SectorEnd(p) <= p + PagesPerSector
  BY <1>1, <1>2, <1>3 DEF Aligned
<1>5. SectorEnd(p) <= PageCount
  <2>1. ASSUME PageCount < SectorEnd(p) PROVE FALSE
    <3>1. PageCount + PagesPerSector <= SectorEnd(p)
      BY <2>1, <1>4, AlignedFacts
    <3> QED
      BY <3>1, <1>1, <1>4
  <2> QED
    BY <2>1, <1>4
<1>6. Aligned(p) => p + PagesPerSector <= SectorEnd(p)
  BY <1>4, AlignedFacts
<1> QED
  BY <1>1, <1>4, <1>5, <1>6

LEMMA OfSector ==
  ASSUME NEW p \in Nat, NEW s \in Nat
  PROVE  p \div PagesPerSector = s <=>
           s * PagesPerSector <= p /\ p < s * PagesPerSector + PagesPerSector
BY Sizes, DivBounds, DivUnique

-------------------------------------------------------------------------------
(* Induction: a set of natural numbers has a least element, and a bounded one  *)
(* a greatest.                                                                *)

LEMMA LeastNat ==
  ASSUME NEW T, T \subseteq Nat, T # {}
  PROVE  \E x \in T : \A y \in T : x <= y
<1> DEFINE R == OpToRel(<, Nat)
<1>1. IsWellFoundedOn(R, Nat)
  BY NatLessThanWellFounded
<1>2. \A a, b \in Nat : a < b => <<a, b>> \in R
  BY DEF OpToRel
<1> HIDE DEF R
<1>3. PICK x \in T : \A y \in T : ~ (<<y, x>> \in R)
  BY <1>1, WFMin
<1>4. \A y \in T : ~ (y < x)
  BY <1>2, <1>3
<1>5. \A y \in T : x <= y
  BY <1>3, <1>4
<1> QED
  BY <1>3, <1>5

LEMMA GreatestNat ==
  ASSUME NEW T, T \subseteq Nat, T # {}, NEW m \in Nat, \A x \in T : x <= m
  PROVE  \E x \in T : \A y \in T : y <= x
<1> DEFINE U == {m - x : x \in T}
<1>0. PICK x0 : x0 \in T
  OBVIOUS
<1>1. U \subseteq Nat /\ U # {}
  <2>1. m - x0 \in U
    BY <1>0
  <2>2. \A x \in T : m - x \in Nat
    OBVIOUS
  <2> QED
    BY <2>1, <2>2
<1>2. PICK u \in U : \A w \in U : u <= w
  BY <1>1, LeastNat
<1>3. PICK x \in T : u = m - x
  OBVIOUS
<1>4. \A y \in T : u <= m - y
  BY <1>2
<1> QED
  BY <1>3, <1>4

LEMMA Induct ==
  ASSUME NEW S, 0 \in S, \A n \in Nat : n \in S => n + 1 \in S
  PROVE  Nat \subseteq S
<1> SUFFICES ASSUME Nat \ S # {} PROVE FALSE
  OBVIOUS
<1>1. PICK x \in Nat \ S : \A y \in Nat \ S : x <= y
  BY LeastNat
<1>2. x # 0 /\ x - 1 \in Nat /\ x - 1 < x
  BY <1>1
<1>3. x - 1 \in S
  BY <1>1, <1>2
<1> QED
  BY <1>1, <1>2, <1>3

LEMMA LeastOfFacts ==
  ASSUME NEW T, T \subseteq Nat, T # {}
  PROVE  LeastOf(T) \in T /\ \A y \in T : LeastOf(T) <= y
BY LeastNat DEF LeastOf

\* The greatest element, as the model takes it: LeastOf of the negated set.
LEMMA GreatestOfFacts ==
  ASSUME NEW T, T \subseteq Nat, T # {}, NEW m \in Nat, \A x \in T : x <= m
  PROVE  LET g == - LeastOf({-x : x \in T})
         IN  g \in T /\ \A y \in T : y <= g
<1> DEFINE N == {-x : x \in T}
<1>1. PICK x \in T : \A y \in T : y <= x
  BY GreatestNat
<1>2. -x \in N /\ \A z \in N : -x <= z
  BY <1>1
<1>3. LeastOf(N) \in N /\ \A z \in N : LeastOf(N) <= z
  BY <1>2 DEF LeastOf
<1> DEFINE c == LeastOf(N)
<1>4. c <= -x /\ -x <= c /\ c \in Int /\ x \in Int
  BY <1>2, <1>3
<1> HIDE DEF c
<1>5. -c = x
  BY <1>4
<1>6. - LeastOf(N) = x
  BY <1>5 DEF c
<1> QED
  BY <1>1, <1>6

-------------------------------------------------------------------------------
(* The walk.                                                                  *)

\* Every step of the walk leads on, and not past the end of the flash.
Progress(fl) ==
  \A p \in Pages : /\ next_file(fl, p) \in Nat
                   /\ p < next_file(fl, p) /\ next_file(fl, p) <= PageCount

\* The recursion of WalkFrom has a solution: it is built from the end of the
\* flash backwards.
LEMMA WalkExists ==
  ASSUME NEW nx \in [Pages -> Nat],
         \A p \in Pages : p < nx[p] /\ nx[p] <= PageCount
  PROVE  \E f : f = [p \in 0..(2 * PageCount) |->
                       IF p \in Pages THEN {p} \cup f[nx[p]] ELSE {}]
<1> USE Sizes
<1> DEFINE D(k) == (PageCount - k)..(2 * PageCount)
           Solves(f, k) == f = [p \in D(k) |->
                                  IF p \in Pages THEN {p} \cup f[nx[p]] ELSE {}]
           S == {k \in Nat : k <= PageCount => \E f : Solves(f, k)}
<1>1. 0 \in S
  <2> DEFINE f == [p \in D(0) |-> {}]
  <2>1. Solves(f, 0)
    OBVIOUS
  <2> QED
    BY <2>1
<1>2. ASSUME NEW k \in Nat, k \in S
      PROVE  k + 1 \in S
  <2> SUFFICES ASSUME k + 1 <= PageCount
               PROVE  \E f : Solves(f, k + 1)
    OBVIOUS
  <2>1. PICK f : Solves(f, k)
    BY <1>2
  <2> DEFINE a == PageCount - (k + 1)
             g == [p \in D(k + 1) |-> IF p = a THEN {a} \cup f[nx[a]] ELSE f[p]]
  <2>2. a \in Pages /\ D(k + 1) = {a} \cup D(k) /\ a \notin D(k)
    OBVIOUS
  <2>3. \A p \in D(k + 1) : p \in Pages => nx[p] \in D(k)
    OBVIOUS
  <2>4. \A p \in D(k) : g[p] = f[p]
    BY <2>2
  <2>5. \A p \in D(k) : f[p] = IF p \in Pages THEN {p} \cup f[nx[p]] ELSE {}
    BY <2>1
  <2> HIDE DEF a, D
  <2>6. \A p \in D(k + 1) : g[p] = IF p \in Pages THEN {p} \cup g[nx[p]] ELSE {}
    <3> TAKE p \in D(k + 1)
    <3>1. CASE p = a
      BY <3>1, <2>2, <2>3, <2>4
    <3>2. CASE p # a
      BY <3>2, <2>2, <2>3, <2>4, <2>5
    <3> QED
      BY <3>1, <3>2
  <2>7. Solves(g, k + 1)
    BY <2>6
  <2> QED
    BY <2>7
<1> HIDE DEF S
<1>3. PageCount \in S
  BY <1>1, <1>2, Induct
<1>4. D(PageCount) = 0..(2 * PageCount)
  OBVIOUS
<1>5. PICK f : Solves(f, PageCount)
  BY <1>3 DEF S
<1> QED
  BY <1>4, <1>5

LEMMA WalkEquation ==
  ASSUME NEW fl, Progress(fl)
  PROVE  /\ \A p \in Pages :
              WalkFrom(fl, p) = {p} \cup WalkFrom(fl, next_file(fl, p))
         /\ WalkFrom(fl, PageCount) = {}
<1> USE Sizes
<1> DEFINE D == 0..(2 * PageCount)
           nx == [p \in Pages |-> next_file(fl, p)]
           Solves(f) == f = [p \in D |-> IF p \in Pages
                               THEN {p} \cup f[next_file(fl, p)] ELSE {}]
           g == CHOOSE f : Solves(f)
<1>1. \E f : Solves(f)
  <2>1. nx \in [Pages -> Nat] /\ \A p \in Pages : p < nx[p] /\ nx[p] <= PageCount
    BY DEF Progress
  <2>2. PICK f : f = [p \in D |-> IF p \in Pages THEN {p} \cup f[nx[p]] ELSE {}]
    BY <2>1, WalkExists
  <2>3. \A p \in Pages : nx[p] = next_file(fl, p)
    OBVIOUS
  <2> HIDE DEF nx, D
  <2>4. Solves(f)
    BY <2>2, <2>3, Zenon
  <2> QED
    BY <2>4
<1>2. Solves(g)
  <2> HIDE DEF Solves
  <2> QED
    BY <1>1
<1>3. \A a : WalkFrom(fl, a) = g[a]
  BY Zenon DEF WalkFrom
<1> HIDE DEF g
<1>4. \A p \in D : g[p] = IF p \in Pages THEN {p} \cup g[next_file(fl, p)] ELSE {}
  BY <1>2
<1>5. \A p \in Pages : p \in D
  OBVIOUS
<1>6. PageCount \in D /\ PageCount \notin Pages
  OBVIOUS
<1> QED
  BY <1>3, <1>4, <1>5, <1>6

LEMMA WalkAhead ==
  ASSUME NEW fl, Progress(fl), NEW a \in 0..PageCount, NEW q \in WalkFrom(fl, a)
  PROVE  q \in Pages /\ a <= q
<1> USE Sizes
<1> DEFINE T == {p \in 0..PageCount :
                   \E x \in WalkFrom(fl, p) : ~(x \in Pages /\ p <= x)}
<1>1. ASSUME T # {} PROVE FALSE
  <2>1. T \subseteq Nat /\ \A x \in T : x <= PageCount
    OBVIOUS
  <2>2. PICK p \in T : \A y \in T : y <= p
    BY <1>1, <2>1, GreatestNat
  <2>3. PICK x \in WalkFrom(fl, p) : ~(x \in Pages /\ p <= x)
    OBVIOUS
  <2>4. p # PageCount
    BY <2>3, WalkEquation
  <2>5. p \in Pages
    BY <2>4
  <2> DEFINE n == next_file(fl, p)
  <2>6. n \in 0..PageCount /\ p < n
    BY <2>5 DEF Progress
  <2>7. x = p \/ x \in WalkFrom(fl, n)
    BY <2>3, <2>5, WalkEquation
  <2>8. n \notin T
    BY <2>2, <2>6
  <2> HIDE DEF n
  <2>9. \A y \in WalkFrom(fl, n) : y \in Pages /\ n <= y
    BY <2>6, <2>8
  <2> QED
    BY <2>3, <2>5, <2>6, <2>7, <2>9
<1>2. a \notin T
  BY <1>1
<1> QED
  BY <1>2

-------------------------------------------------------------------------------
(* The layout of the flash.                                                   *)

Headers == [name : Names \cup {Nobody}, max : Nat, log : BOOLEAN, obs : BOOLEAN,
            iso : BOOLEAN, mod : BOOLEAN, lp : Pages]
Regs == [i : 0..PageCount, v : {0, Dummy} \cup Values]
Flashes == [Pages -> [h : Headers, d : Regs]]

\* The pages with a header, and the end of the extent that begins at p.
Extents(fl) == {p \in Pages : fl[p].h # Zero}
EndOf(fl, p) == p + fl[p].h.max

\* Extents are made of whole sectors and lie apart, no page is isolated, and
\* what belongs to no extent is erased.
Layout(fl) ==
  /\ fl \in Flashes
  /\ \A p \in Extents(fl) :
       /\ Aligned(p) /\ Aligned(fl[p].h.max) /\ fl[p].h.max > 0 /\ ~fl[p].h.iso
       /\ EndOf(fl, p) <= PageCount
  /\ \A p, q \in Extents(fl) : p < q => EndOf(fl, p) <= q
  /\ \A q \in Pages :
       fl[q].d # Nil => \E p \in Extents(fl) : p <= q /\ q < EndOf(fl, p)

\* The sector starts that are not within an extent.
Stops(fl) ==
  {q \in Pages : Aligned(q) /\ \A p \in Extents(fl) : ~(p < q /\ q < EndOf(fl, p))}

LEMMA FlashFacts ==
  /\ Zero \in Headers /\ Nil \in Regs
  /\ \A h \in Headers : h.max \in Nat /\ h.lp \in Pages
                        /\ {h.log, h.obs, h.iso, h.mod} \subseteq BOOLEAN
  /\ \A fl \in Flashes, p \in Pages : fl[p].h \in Headers /\ fl[p].d \in Regs
  /\ Zero.max = 0 /\ Zero.lp = 0 /\ ~Zero.obs /\ ~Zero.log /\ ~Zero.iso /\ ~Zero.mod
  /\ Nil.i = 0 /\ Nil.v = 0
<1>1. 0 \in Pages /\ PageCount \in Nat
  BY Sizes
<1>2. Zero \in Headers
  BY <1>1 DEF Zero, Headers
<1>3. Nil \in Regs
  BY <1>1 DEF Nil, Regs
<1>4. \A h \in Headers : h.max \in Nat /\ h.lp \in Pages
                        /\ {h.log, h.obs, h.iso, h.mod} \subseteq BOOLEAN
  BY DEF Headers
<1>5. \A fl \in Flashes, p \in Pages : fl[p].h \in Headers /\ fl[p].d \in Regs
  BY DEF Flashes
<1> QED
  BY <1>2, <1>3, <1>4, <1>5 DEF Zero, Nil

\* The step of the walk from a page: from an extent to its end, from a free page
\* or a page within an extent somewhere ahead.
LEMMA NextFile ==
  ASSUME NEW fl, NEW p \in Pages,
         fl[p].h.max \in Nat, fl[p].h # Zero => ~fl[p].h.iso
  PROVE  /\ fl[p].h # Zero => next_file(fl, p) = EndOf(fl, p)
         /\ fl[p].h = Zero /\ fl[p].d = Nil => next_file(fl, p) = SectorEnd(p)
         /\ fl[p].h = Zero /\ fl[p].d # Nil => next_file(fl, p) = p + 1
<1>1. CASE fl[p].h # Zero
  BY <1>1 DEF next_file, read_header, HDR_FREE, EndOf
<1>2. CASE fl[p].h = Zero /\ fl[p].d = Nil
  BY <1>2 DEF next_file, read_header, HDR_FREE, SectorEnd
<1>3. CASE fl[p].h = Zero /\ fl[p].d # Nil
  <2>1. Garbage.max = 1 /\ ~Garbage.iso /\ Garbage # Zero
    BY DEF Garbage, Header, Zero
  <2>2. read_header(fl, p) = Garbage
    BY <1>3 DEF read_header
  <2> QED
    BY <1>3, <2>1, <2>2 DEF next_file, HDR_FREE
<1> QED
  BY <1>1, <1>2, <1>3

\* Headers that say no more than the flash holds are enough for the walk to end.
LEMMA ProgressIf ==
  ASSUME NEW fl,
         \A p \in Pages : /\ fl[p].h.max \in Nat
                          /\ fl[p].h # Zero => /\ ~fl[p].h.iso /\ fl[p].h.max > 0
                                               /\ EndOf(fl, p) <= PageCount
  PROVE  Progress(fl)
<1> USE Sizes
<1> SUFFICES ASSUME NEW p \in Pages
             PROVE  next_file(fl, p) \in Nat /\ p < next_file(fl, p)
                    /\ next_file(fl, p) <= PageCount
  BY DEF Progress
<1>0. fl[p].h.max \in Nat /\ (fl[p].h # Zero => ~fl[p].h.iso)
  OBVIOUS
<1>1. CASE fl[p].h # Zero
  <2>1. next_file(fl, p) = p + fl[p].h.max
    BY <1>0, <1>1, NextFile DEF EndOf
  <2>2. fl[p].h.max > 0 /\ p + fl[p].h.max <= PageCount
    BY <1>1 DEF EndOf
  <2> QED
    BY <1>0, <2>1, <2>2
<1>2. CASE fl[p].h = Zero /\ fl[p].d = Nil
  BY <1>0, <1>2, NextFile, SectorEndFacts
<1>3. CASE fl[p].h = Zero /\ fl[p].d # Nil
  <2>1. next_file(fl, p) = p + 1
    BY <1>0, <1>3, NextFile
  <2> QED
    BY <2>1
<1> QED
  BY <1>1, <1>2, <1>3

LEMMA LayoutProgress ==
  ASSUME NEW fl, Layout(fl)
  PROVE  Progress(fl)
<1>1. \A p \in Pages : fl[p].h.max \in Nat
  BY FlashFacts DEF Layout
<1>2. \A p \in Pages : fl[p].h # Zero => /\ ~fl[p].h.iso /\ fl[p].h.max > 0
                                         /\ EndOf(fl, p) <= PageCount
  BY DEF Layout, Extents
<1> QED
  BY <1>1, <1>2, ProgressIf

\* A stop without a header is a free sector.
LEMMA FreeStop ==
  ASSUME NEW fl, Layout(fl), NEW q \in Stops(fl), fl[q].h = Zero
  PROVE  /\ \A x \in Pages : q <= x /\ x < q + PagesPerSector => fl[x] = Blank
         /\ read_header(fl, q) = Zero
         /\ next_file(fl, q) = q + PagesPerSector
<1> USE Sizes
<1>1. q \in Pages /\ Aligned(q)
      /\ \A p \in Extents(fl) : ~(p < q /\ q < EndOf(fl, p))
  BY DEF Stops
<1>2. \A p \in Extents(fl) : /\ p \in Nat /\ Aligned(p) /\ Aligned(EndOf(fl, p))
                             /\ EndOf(fl, p) \in Nat /\ p # q
                             /\ p < EndOf(fl, p)
  <2> TAKE p \in Extents(fl)
  <2>1. p \in Pages /\ Aligned(p) /\ Aligned(fl[p].h.max) /\ fl[p].h.max > 0
    BY DEF Layout, Extents
  <2>2. Aligned(EndOf(fl, p)) /\ fl[p].h.max \in Nat
    BY <2>1, AlignedFacts DEF EndOf
  <2> QED
    BY <2>1, <2>2 DEF EndOf, Extents
<1>3. ASSUME NEW x \in Pages, q <= x, x < q + PagesPerSector
      PROVE  fl[x] = Blank
  <2>1. \A p \in Extents(fl) : p < q \/ q + PagesPerSector <= p
    <3> TAKE p \in Extents(fl)
    <3>1. p < q \/ q < p
      BY <1>1, <1>2
    <3>2. q < p => q + PagesPerSector <= p
      BY <1>1, <1>2, AlignedFacts
    <3> QED
      BY <3>1, <3>2
  <2>2. \A p \in Extents(fl) : ~(p <= x /\ x < EndOf(fl, p))
    <3> TAKE p \in Extents(fl)
    <3>1. CASE p < q
      <4>1. EndOf(fl, p) <= q
        BY <3>1, <1>1, <1>2
      <4> QED
        BY <4>1, <1>1, <1>2, <1>3
    <3>2. CASE q + PagesPerSector <= p
      BY <3>2, <1>1, <1>2, <1>3
    <3> QED
      BY <2>1, <3>1, <3>2
  <2>3. fl[x].d = Nil
    BY <2>2 DEF Layout
  <2>4. fl[x].h = Zero
    <3>1. x \notin Extents(fl)
      BY <2>2, <1>2
    <3> QED
      BY <3>1 DEF Extents
  <2>5. fl[x] \in [h : Headers, d : Regs]
    BY DEF Layout, Flashes
  <2> QED
    BY <2>3, <2>4, <2>5 DEF Blank
<1>4. fl[q] = Blank
  BY <1>1, <1>3
<1>5. fl[q].h = Zero /\ fl[q].d = Nil /\ fl[q].h.max \in Nat
  BY <1>4, FlashFacts DEF Blank
<1>6. next_file(fl, q) = SectorEnd(q)
  BY <1>1, <1>5, NextFile
<1>7. read_header(fl, q) = Zero
  BY <1>5 DEF read_header
<1> QED
  BY <1>1, <1>3, <1>6, <1>7, SectorEndFacts

\* From a stop the walk goes to the next one.
LEMMA NextStop ==
  ASSUME NEW fl, Layout(fl), NEW p \in Stops(fl)
  PROVE  /\ next_file(fl, p) \in Stops(fl) \cup {PageCount}
         /\ \A q \in Stops(fl) : p < q => next_file(fl, p) <= q
<1> USE Sizes
<1>1. p \in Pages /\ Aligned(p)
  BY DEF Stops
<1> DEFINE n == next_file(fl, p)
<1>2. n \in Nat /\ p < n /\ n <= PageCount
  BY <1>1, LayoutProgress DEF Progress
<1>3. \A q \in Stops(fl) : q \in Pages /\ Aligned(q)
  BY DEF Stops
<1>4. \A q \in Extents(fl) : /\ q \in Pages /\ Aligned(q) /\ Aligned(EndOf(fl, q))
                             /\ q < EndOf(fl, q) /\ EndOf(fl, q) \in Nat
  <2> TAKE q \in Extents(fl)
  <2>1. q \in Pages /\ Aligned(q) /\ Aligned(fl[q].h.max) /\ fl[q].h.max > 0
    BY DEF Layout, Extents
  <2>2. Aligned(EndOf(fl, q)) /\ fl[q].h.max \in Nat
    BY <2>1, AlignedFacts DEF EndOf
  <2> QED
    BY <2>1, <2>2 DEF EndOf, Extents
<1>5. CASE fl[p].h = Zero
  <2>1. n = p + PagesPerSector
    BY <1>5, FreeStop
  <2>2. Aligned(n)
    BY <2>1, <1>1, AlignedFacts
  <2>3. \A q \in Extents(fl) : ~(q < n /\ n < EndOf(fl, q))
    <3> TAKE q \in Extents(fl)
    <3>1. q # p /\ ~(q < p /\ p < EndOf(fl, q))
      BY <1>5 DEF Extents, Stops
    <3>2. CASE p < q
      BY <3>2, <2>1, <1>1, <1>4, AlignedFacts, SMTT(60)
    <3>3. CASE q < p
      BY <3>1, <3>3, <2>1, <1>1, <1>4
    <3> QED
      BY <3>1, <3>2, <3>3, <1>1, <1>4
  <2>4. n \in Stops(fl) \cup {PageCount}
    BY <2>2, <2>3, <1>2 DEF Stops
  <2>5. \A q \in Stops(fl) : p < q => n <= q
    BY <2>1, <1>1, <1>3, AlignedFacts
  <2> QED
    BY <2>4, <2>5
<1>6. CASE fl[p].h # Zero
  <2>1. p \in Extents(fl)
    BY <1>1, <1>6 DEF Extents
  <2>2. n = EndOf(fl, p)
    <3>1. fl[p].h.max \in Nat /\ ~fl[p].h.iso
      BY <2>1, FlashFacts, <1>1 DEF Layout
    <3> QED
      BY <3>1, <1>1, <1>6, NextFile
  <2>3. \A q \in Extents(fl) : ~(q < n /\ n < EndOf(fl, q))
    <3> TAKE q \in Extents(fl)
    <3>1. p < q => n <= q
      BY <2>1, <2>2 DEF Layout
    <3>2. q < p => EndOf(fl, q) <= p
      BY <2>1 DEF Layout
    <3> QED
      BY <3>1, <3>2, <2>2, <1>1, <1>2, <1>4
  <2>4. n \in Stops(fl) \cup {PageCount}
    BY <2>1, <2>2, <2>3, <1>2, <1>4 DEF Stops
  <2>5. \A q \in Stops(fl) : p < q => n <= q
    <3> TAKE q \in Stops(fl)
    <3>1. ~(p < q /\ q < n)
      BY <2>1, <2>2 DEF Stops
    <3> QED
      BY <3>1, <1>1, <1>2, <1>3
  <2> QED
    BY <2>4, <2>5
<1> QED
  BY <1>5, <1>6

\* The walk stops at all stops and nowhere else.
LEMMA WalkStops ==
  ASSUME NEW fl, Layout(fl), NEW a \in Stops(fl) \cup {PageCount}
  PROVE  WalkFrom(fl, a) = {q \in Stops(fl) : a <= q}
<1> USE Sizes
<1> DEFINE From(p) == {q \in Stops(fl) : p <= q}
           T == {p \in Stops(fl) \cup {PageCount} : WalkFrom(fl, p) # From(p)}
<1>1. Progress(fl)
  BY LayoutProgress
<1>2. \A p \in Stops(fl) : p \in Nat /\ p < PageCount /\ p \in Pages
  BY DEF Stops
<1>3. ASSUME T # {} PROVE FALSE
  <2>1. T \subseteq Nat /\ \A x \in T : x <= PageCount
    BY <1>2
  <2>2. PICK p \in T : \A y \in T : y <= p
    BY <1>3, <2>1, GreatestNat
  <2>3. p # PageCount
    <3>1. From(PageCount) = {}
      BY <1>2
    <3> QED
      BY <3>1, <1>1, WalkEquation
  <2>4. p \in Stops(fl)
    BY <2>3
  <2> DEFINE n == next_file(fl, p)
  <2>5. n \in Nat /\ p < n /\ n \in Stops(fl) \cup {PageCount}
        /\ \A q \in Stops(fl) : p < q => n <= q
    BY <2>4, <1>1, <1>2, NextStop DEF Progress
  <2>6. WalkFrom(fl, n) = From(n)
    BY <2>2, <2>4, <2>5, <1>2
  <2>7. WalkFrom(fl, p) = {p} \cup WalkFrom(fl, n)
    BY <2>4, <1>1, <1>2, WalkEquation
  <2> HIDE DEF n
  <2>8. From(p) = {p} \cup From(n)
    <3>1. \A q \in Stops(fl) : p <= q <=> q = p \/ n <= q
      <4> TAKE q \in Stops(fl)
      <4>1. q \in Nat /\ p \in Nat /\ (p < q => n <= q)
        BY <2>4, <2>5, <1>2
      <4> QED
        BY <2>5, <4>1
    <3> QED
      BY <2>4, <3>1
  <2> QED
    BY <2>6, <2>7, <2>8
<1> QED
  BY <1>3

LEMMA WalkIsStops ==
  ASSUME NEW fl, Layout(fl)
  PROVE  0 \in Stops(fl) /\ Walk(fl) = Stops(fl)
<1> USE Sizes
<1>1. 0 \in Stops(fl)
  <2>1. \A p \in Extents(fl) : ~(p < 0)
    BY DEF Extents
  <2> QED
    BY <2>1, AlignedFacts DEF Stops
<1>2. \A q \in Stops(fl) : 0 <= q
  BY DEF Stops
<1> QED
  BY <1>1, <1>2, WalkStops DEF Walk

\* Every extent begins at a stop.
LEMMA ExtentStops ==
  ASSUME NEW fl, Layout(fl)
  PROVE  Extents(fl) \subseteq Stops(fl)
<1> SUFFICES ASSUME NEW q \in Extents(fl)
             PROVE  q \in Stops(fl)
  OBVIOUS
<1>1. q \in Pages /\ Aligned(q)
  BY DEF Layout, Extents
<1>2. \A p \in Extents(fl) : ~(p < q /\ q < EndOf(fl, p))
  <2> TAKE p \in Extents(fl)
  <2>1. p < q => EndOf(fl, p) <= q
    BY DEF Layout
  <2>2. EndOf(fl, p) \in Nat /\ q \in Nat /\ p \in Nat
    BY Sizes, AlignedFacts, <1>1 DEF Layout, EndOf, Extents
  <2> QED
    BY <2>1, <2>2
<1> QED
  BY <1>1, <1>2 DEF Stops

-------------------------------------------------------------------------------
(* An operation under way, and the steps it is made of.                       *)

Entries == [page : Pages, end : Int, max : Nat, mod : BOOLEAN, records : Int]
Objects == [1..Slots -> Entries \cup {NoEntry}]
Rams == [next_free : Nat, gc_wait : BOOLEAN, files : Objects]
Ops == [fl : Flashes, ram : Rams, past : SUBSET Flashes, file : 0..Slots,
        used : SUBSET (1..Slots)]

LEMMA EntryFacts ==
  /\ NoEntry \notin Entries
  /\ NoEntry.page \notin Pages
  /\ \A o \in Ops, i \in 1..Slots :
       o.ram.files[i] # NoEntry <=> o.ram.files[i] \in Entries
  /\ \A e \in Entries : /\ e.page \in Pages /\ e.end \in Int /\ e.max \in Nat
                        /\ e.mod \in BOOLEAN /\ e.records \in Int
<1>1. NoEntry.page \notin Pages
  BY Sizes DEF NoEntry, INVALID
<1>2. \A e \in Entries : /\ e.page \in Pages /\ e.end \in Int /\ e.max \in Nat
                         /\ e.mod \in BOOLEAN /\ e.records \in Int
  BY DEF Entries
<1>3. NoEntry \notin Entries
  BY <1>1, <1>2
<1>4. \A o \in Ops, i \in 1..Slots : o.ram.files[i] \in Entries \cup {NoEntry}
  BY DEF Ops, Rams, Objects
<1> QED
  BY <1>1, <1>2, <1>3, <1>4

LEMMA OpFields ==
  ASSUME NEW o \in Ops
  PROVE  /\ o.fl \in Flashes /\ o.ram \in Rams /\ o.past \in SUBSET Flashes
         /\ o.file \in 0..Slots /\ o.used \in SUBSET (1..Slots)
         /\ o.ram.next_free \in Nat /\ o.ram.gc_wait \in BOOLEAN
         /\ o.ram.files \in Objects
BY DEF Ops, Rams

\* The flash after a write is among those the power may fail in, if the write is
\* of that kind.
Past(past, fl, kind) == IF kind \in CrashIn THEN past \cup {fl} ELSE past

\* Nothing but the flash has changed from o to z.
OnlyFlash(o, z, fl, kind) ==
  /\ z \in Ops /\ z.fl = fl /\ z.past = Past(o.past, fl, kind)
  /\ z.ram = o.ram /\ z.file = o.file /\ z.used = o.used

LEMMA WrittenOp ==
  ASSUME NEW o \in Ops, NEW fl \in Flashes, NEW kind
  PROVE  OnlyFlash(o, Written(o, fl, kind), fl, kind)
<1> DEFINE pst == IF kind \in CrashIn THEN o.past \cup {fl} ELSE o.past
<1>1. pst \in SUBSET Flashes /\ pst = Past(o.past, fl, kind)
  BY OpFields DEF Past
<1>2. Written(o, fl, kind) = [o EXCEPT !.fl = fl, !.past = pst]
  BY DEF Written
<1> HIDE DEF pst
<1>3. [o EXCEPT !.fl = fl, !.past = pst] \in Ops
  BY <1>1 DEF Ops
<1>4. /\ [o EXCEPT !.fl = fl, !.past = pst].fl = fl
      /\ [o EXCEPT !.fl = fl, !.past = pst].past = pst
      /\ [o EXCEPT !.fl = fl, !.past = pst].ram = o.ram
      /\ [o EXCEPT !.fl = fl, !.past = pst].file = o.file
      /\ [o EXCEPT !.fl = fl, !.past = pst].used = o.used
  BY DEF Ops
<1> QED
  BY <1>1, <1>2, <1>3, <1>4 DEF OnlyFlash

\* fl2 is fl with header h at page p, or with data d at page p.
HeaderPut(fl, fl2, p, h) ==
  /\ fl2 \in Flashes
  /\ fl2[p].h = h /\ fl2[p].d = fl[p].d
  /\ \A q \in Pages : q # p => fl2[q] = fl[q]
DataPut(fl, fl2, p, d) ==
  /\ fl2 \in Flashes
  /\ fl2[p].d = d /\ fl2[p].h = fl[p].h
  /\ \A q \in Pages : q # p => fl2[q] = fl[q]

LEMMA PutFacts ==
  ASSUME NEW fl \in Flashes, NEW p \in Pages
  PROVE  /\ \A h \in Headers : HeaderPut(fl, [fl EXCEPT ![p].h = h], p, h)
         /\ \A d \in Regs : DataPut(fl, [fl EXCEPT ![p].d = d], p, d)
<1> DEFINE PageSet == [h : Headers, d : Regs]
<1>1. fl \in [Pages -> PageSet]
  BY DEF Flashes
<1>2. ASSUME NEW h \in Headers
      PROVE  HeaderPut(fl, [fl EXCEPT ![p].h = h], p, h)
  <2> DEFINE c == [fl[p] EXCEPT !.h = h]
             g == [fl EXCEPT ![p] = c]
  <2>1. c \in PageSet /\ c.h = h /\ c.d = fl[p].d
    BY <1>1
  <2>2. g \in [Pages -> PageSet] /\ g[p] = c /\ \A q \in Pages : q # p => g[q] = fl[q]
    <3> HIDE DEF c, PageSet
    <3> QED
      BY <1>1, <2>1
  <2>3. [fl EXCEPT ![p].h = h] = g
    OBVIOUS
  <2> HIDE DEF c, g
  <2> QED
    BY <2>1, <2>2, <2>3 DEF HeaderPut, Flashes
<1>3. ASSUME NEW d \in Regs
      PROVE  DataPut(fl, [fl EXCEPT ![p].d = d], p, d)
  <2> DEFINE c == [fl[p] EXCEPT !.d = d]
             g == [fl EXCEPT ![p] = c]
  <2>1. c \in PageSet /\ c.d = d /\ c.h = fl[p].h
    BY <1>1
  <2>2. g \in [Pages -> PageSet] /\ g[p] = c /\ \A q \in Pages : q # p => g[q] = fl[q]
    <3> HIDE DEF c, PageSet
    <3> QED
      BY <1>1, <2>1
  <2>3. [fl EXCEPT ![p].d = d] = g
    OBVIOUS
  <2> HIDE DEF c, g
  <2> QED
    BY <2>1, <2>2, <2>3 DEF DataPut, Flashes
<1> QED
  BY <1>2, <1>3

LEMMA WriteHeaderOp ==
  ASSUME NEW o \in Ops, NEW p \in Pages, NEW h \in Headers, NEW kind
  PROVE  \E fl2 : /\ HeaderPut(o.fl, fl2, p, h)
                  /\ OnlyFlash(o, write_header(o, p, h, kind), fl2, kind)
<1> DEFINE fl2 == [o.fl EXCEPT ![p].h = h]
<1>1. HeaderPut(o.fl, fl2, p, h)
  BY OpFields, PutFacts
<1>2. fl2 \in Flashes
  BY <1>1 DEF HeaderPut
<1>3. write_header(o, p, h, kind) = Written(o, fl2, kind)
  BY DEF write_header
<1> HIDE DEF fl2
<1> QED
  BY <1>1, <1>2, <1>3, WrittenOp

LEMMA WriteDataOp ==
  ASSUME NEW o \in Ops, NEW p \in Pages, NEW kind,
         NEW i \in 0..PageCount, NEW v \in {0, Dummy} \cup Values
  PROVE  \E fl2 : /\ DataPut(o.fl, fl2, p, [i |-> i, v |-> v])
                  /\ OnlyFlash(o, WriteData(o, p, i, v, kind), fl2, kind)
<1> DEFINE d == [i |-> i, v |-> v]
           fl2 == [o.fl EXCEPT ![p].d = d]
<1>0. d \in Regs
  BY DEF Regs
<1>1. DataPut(o.fl, fl2, p, d)
  BY <1>0, OpFields, PutFacts
<1>2. fl2 \in Flashes
  BY <1>1 DEF DataPut
<1>3. WriteData(o, p, i, v, kind) = Written(o, fl2, kind)
  BY DEF WriteData
<1> HIDE DEF fl2
<1> QED
  BY <1>1, <1>2, <1>3, WrittenOp

-------------------------------------------------------------------------------
(* What the flash and the RAM say of files and logs.                          *)

FilesOf(fl) == {p \in Pages : HDR_ACTIVE(fl[p].h) /\ ~fl[p].h.log}
Modified(fl) == {p \in Pages : HDR_ACTIVE(fl[p].h) /\ fl[p].h.mod}
IsLog(fl, l) ==
  l \in Pages /\ HDR_ACTIVE(fl[l].h) /\ fl[l].h.log /\ fl[l].h.max = LogRecords

\* The log at page l holds n records, the first ones, and all have their data.
LogHas(fl, l, n) ==
  /\ n \in 0..LogRecords
  /\ \A k \in 0..(LogRecords - 1) : /\ fl[l + k].d.i # 0 <=> k < n
                                    /\ k < n => fl[l + k].d.v # 0

\* A modified file has a log of its own.
Logs(fl) ==
  /\ \A p \in Modified(fl) : /\ ~fl[p].h.log /\ IsLog(fl, fl[p].h.lp)
                             /\ \E n : LogHas(fl, fl[p].h.lp, n)
  /\ \A p, q \in Modified(fl) : fl[p].h.lp = fl[q].h.lp => p = q

\* The extent at page p is written up to region e and no further.
IsEnd(fl, p, e) ==
  /\ e \in 0..fl[p].h.max
  /\ \A r \in 0..(fl[p].h.max - 1) : e <= r => fl[p + r].d.v = 0
  /\ e > 0 => fl[p + e - 1].d.v # 0

\* A file object e is true of the flash, and so is its end.
EntryOK(fl, e) ==
  /\ HDR_ACTIVE(fl[e.page].h) /\ e.max = fl[e.page].h.max
  /\ e.mod = fl[e.page].h.mod
  /\ e.end \in -1..e.max /\ e.records \in -1..LogRecords
  /\ e.records >= 0 => e.mod /\ LogHas(fl, fl[e.page].h.lp, e.records)
EndOK(fl, e) == e.end >= 0 /\ ~fl[e.page].h.log => IsEnd(fl, e.page, e.end)

\* The file objects are true of the flash, except for the ends of those in X,
\* and no extent has two.
CacheOK(fl, fs, X) ==
  /\ \A i \in 1..Slots :
       fs[i] # NoEntry => EntryOK(fl, fs[i]) /\ (i \notin X => EndOK(fl, fs[i]))
  /\ \A i, j \in 1..Slots :
       fs[i] # NoEntry /\ fs[j] # NoEntry /\ fs[i].page = fs[j].page => i = j

FreeOK(fl, next) ==
  /\ next \in Stops(fl) \cup {PageCount}
  /\ \A q \in Stops(fl) : fl[q].h = Zero => next <= q

GcOK(fl, wait) == wait => \A p \in Extents(fl) : ~fl[p].h.obs

FlashOK(fl) == Layout(fl) /\ Logs(fl)

\* An operation under way: what holds of it between its steps, except for the
\* ends of the file objects in X.
OpOK(o, X) ==
  /\ o \in Ops /\ FlashOK(o.fl) /\ CacheOK(o.fl, o.ram.files, X)
  /\ FreeOK(o.fl, o.ram.next_free) /\ GcOK(o.fl, o.ram.gc_wait)
  /\ \A f \in o.past : FlashOK(f)

\* Every active extent of fl but those in R is as it was in fl2.
Kept(fl, fl2, p) ==
  /\ fl2[p].h = fl[p].h
  /\ \A x \in Pages : p <= x /\ x < EndOf(fl, p) => fl2[x].d = fl[x].d
KeptBut(fl, fl2, R) ==
  \A p \in Pages : HDR_ACTIVE(fl[p].h) /\ p \notin R => Kept(fl, fl2, p)

LEMMA ReadActive ==
  ASSUME NEW fl, NEW p
  PROVE  /\ HDR_ACTIVE(read_header(fl, p)) <=> HDR_ACTIVE(fl[p].h)
         /\ HDR_ACTIVE(fl[p].h) => read_header(fl, p) = fl[p].h
         /\ \A n : IsFile(fl, p, n) <=>
              HDR_ACTIVE(fl[p].h) /\ ~fl[p].h.log /\ fl[p].h.name = n
<1>1. Garbage.obs
  BY DEF Garbage, Header, Zero
<1>2. ~HDR_ACTIVE(Garbage) /\ ~HDR_ACTIVE(Zero)
  BY <1>1 DEF HDR_ACTIVE
<1>3. HDR_ACTIVE(fl[p].h) => read_header(fl, p) = fl[p].h
  BY <1>2 DEF read_header
<1>4. HDR_ACTIVE(read_header(fl, p)) <=> HDR_ACTIVE(fl[p].h)
  BY <1>2, <1>3 DEF read_header
<1> QED
  BY <1>3, <1>4 DEF IsFile

LEMMA ActiveExtent ==
  ASSUME NEW fl, Layout(fl), NEW p \in Pages, HDR_ACTIVE(fl[p].h)
  PROVE  /\ p \in Extents(fl) /\ p \in Stops(fl) /\ Aligned(p)
         /\ fl[p].h \in Headers /\ fl[p].h.max \in Nat /\ fl[p].h.max > 0
         /\ Aligned(fl[p].h.max)
         /\ EndOf(fl, p) \in Nat /\ EndOf(fl, p) <= PageCount
         /\ ~fl[p].h.obs /\ ~fl[p].h.iso
         /\ \A r \in 0..(fl[p].h.max - 1) : p + r \in Pages
<1> USE Sizes
<1>1. p \in Extents(fl) /\ ~fl[p].h.obs /\ ~fl[p].h.iso
  BY DEF HDR_ACTIVE, Extents
<1>2. fl[p].h \in Headers /\ fl[p].h.max \in Nat /\ fl[p].h.max > 0
      /\ EndOf(fl, p) <= PageCount /\ Aligned(fl[p].h.max) /\ Aligned(p)
  BY <1>1, FlashFacts DEF Layout
<1>3. EndOf(fl, p) \in Nat /\ \A r \in 0..(fl[p].h.max - 1) : p + r \in Pages
  BY <1>2, SMTT(60) DEF EndOf
<1> QED
  BY <1>1, <1>2, <1>3, ExtentStops

\* Extents have no page in common.
LEMMA Apart ==
  ASSUME NEW fl, Layout(fl), NEW p \in Extents(fl), NEW q \in Extents(fl),
         NEW x \in Pages, p <= x, x < EndOf(fl, p), q <= x, x < EndOf(fl, q)
  PROVE  p = q
<1>1. p \in Nat /\ q \in Nat /\ x \in Nat
  BY Sizes DEF Extents
<1>2. EndOf(fl, p) \in Nat /\ EndOf(fl, q) \in Nat
  BY <1>1, AlignedFacts DEF Layout, EndOf
<1>3. (p < q => EndOf(fl, p) <= q) /\ (q < p => EndOf(fl, q) <= p)
  BY DEF Layout
<1> QED
  BY <1>1, <1>2, <1>3

LEMMA FileEnd ==
  ASSUME NEW fl, Layout(fl), NEW p \in Pages, HDR_ACTIVE(fl[p].h)
  PROVE  /\ IsEnd(fl, p, file_end(fl, p))
         /\ \A e : IsEnd(fl, p, e) => e = file_end(fl, p)
<1> USE Sizes
<1> DEFINE max == fl[p].h.max
           S == {r \in 0..(max - 1) : p + r \in Pages /\ fl[p + r].d.v # 0}
<1>1. max \in Nat /\ max > 0 /\ \A r \in 0..(max - 1) : p + r \in Pages
  BY ActiveExtent
<1>2. \A r \in 0..(max - 1) : r \in S <=> fl[p + r].d.v # 0
  BY <1>1
<1>3. file_end(fl, p) = IF S = {} THEN 0 ELSE 1 - LeastOf({-r : r \in S})
  BY DEF file_end
<1>4. S \subseteq 0..(max - 1)
  OBVIOUS
<1> DEFINE e0 == file_end(fl, p)
<1> HIDE DEF S, max
<1>5. /\ e0 \in 0..max
      /\ \A r \in 0..(max - 1) : e0 <= r => r \notin S
      /\ e0 > 0 => e0 - 1 \in S
  <2>1. CASE S = {}
    BY <2>1, <1>1, <1>3
  <2>2. CASE S # {}
    <3> DEFINE g == - LeastOf({-r : r \in S})
    <3>1. S \subseteq Nat /\ \A x \in S : x <= max
      BY <1>1, <1>4
    <3>2. g \in S /\ \A y \in S : y <= g
      BY <2>2, <3>1, <1>1, GreatestOfFacts
    <3>3. LeastOf({-r : r \in S}) \in Int
      <4> DEFINE c == LeastOf({-r : r \in S})
      <4>1. c \in {-r : r \in S}
        <5>1. PICK x \in S : \A y \in S : y <= x
          BY <2>2, <3>1, <1>1, GreatestNat
        <5>2. -x \in {-r : r \in S} /\ \A z \in {-r : r \in S} : -x <= z
          BY <5>1, <3>1
        <5> QED
          BY <5>2 DEF LeastOf
      <4> QED
        BY <4>1, <3>1
    <3>4. e0 = g + 1
      BY <2>2, <3>3, <1>3
    <3> HIDE DEF g
    <3> QED
      BY <3>1, <3>2, <3>4, <1>1, <1>4
  <2> QED
    BY <2>1, <2>2
<1> HIDE DEF e0
<1>6. IsEnd(fl, p, e0)
  BY <1>1, <1>2, <1>5 DEF IsEnd, max
<1>7. ASSUME NEW e, IsEnd(fl, p, e)
      PROVE  e = e0
  <2>1. /\ e \in 0..max
        /\ \A r \in 0..(max - 1) : e <= r => r \notin S
        /\ e > 0 => e - 1 \in S
    BY <1>1, <1>2, <1>7, SMTT(60) DEF IsEnd, max
  <2>2. ~(e < e0)
    BY <2>1, <1>1, <1>5
  <2>3. ~(e0 < e)
    BY <2>1, <1>1, <1>5
  <2> QED
    BY <2>1, <2>2, <2>3, <1>1, <1>5
<1> QED
  BY <1>6, <1>7 DEF e0

-------------------------------------------------------------------------------
(* What a change of the flash elsewhere leaves true.                          *)

LEMMA KeptLog ==
  ASSUME NEW fl, Layout(fl), NEW fl2, NEW l, IsLog(fl, l), Kept(fl, fl2, l)
  PROVE  /\ IsLog(fl2, l)
         /\ \A k \in 0..(LogRecords - 1) : fl2[l + k].d = fl[l + k].d
         /\ \A n : LogHas(fl2, l, n) <=> LogHas(fl, l, n)
<1> USE Sizes
<1>1. l \in Pages /\ HDR_ACTIVE(fl[l].h) /\ fl[l].h.max = LogRecords
  BY DEF IsLog
<1>2. \A r \in 0..(LogRecords - 1) : l + r \in Pages
  BY <1>1, ActiveExtent
<1>3. \A k \in 0..(LogRecords - 1) : fl2[l + k].d = fl[l + k].d
  BY <1>1, <1>2 DEF Kept, EndOf
<1>4. IsLog(fl2, l)
  BY DEF IsLog, Kept
<1>5. \A n : LogHas(fl2, l, n) <=> LogHas(fl, l, n)
  BY <1>3 DEF LogHas
<1> QED
  BY <1>3, <1>4, <1>5

LEMMA KeptEnd ==
  ASSUME NEW fl, Layout(fl), NEW fl2, NEW p \in Pages, HDR_ACTIVE(fl[p].h),
         Kept(fl, fl2, p), NEW e, IsEnd(fl, p, e)
  PROVE  IsEnd(fl2, p, e)
<1> USE Sizes
<1> DEFINE max == fl[p].h.max
<1>1. max \in Nat /\ fl2[p].h = fl[p].h
      /\ \A r \in 0..(max - 1) : p + r \in Pages
  BY ActiveExtent DEF Kept
<1>2. \A r \in 0..(max - 1) : fl2[p + r].d = fl[p + r].d
  <2> TAKE r \in 0..(max - 1)
  <2>1. EndOf(fl, p) = p + max /\ p \in Nat
    BY DEF EndOf
  <2> HIDE DEF max
  <2>2. p + r \in Pages /\ p <= p + r /\ p + r < EndOf(fl, p)
    BY <1>1, <2>1
  <2> QED
    BY <2>2 DEF Kept
<1>3. e \in 0..max /\ (e > 0 => e - 1 \in 0..(max - 1) /\ p + e - 1 = p + (e - 1))
  BY <1>1 DEF IsEnd
<1>4. e > 0 => fl2[p + e - 1].d = fl[p + e - 1].d
  BY <1>2, <1>3
<1> QED
  BY <1>1, <1>2, <1>3, <1>4 DEF IsEnd

LEMMA LogsFrame ==
  ASSUME NEW fl, FlashOK(fl), NEW fl2,
         \A p \in Modified(fl2) : /\ p \in Modified(fl) /\ fl2[p].h = fl[p].h
                                  /\ Kept(fl, fl2, fl[p].h.lp)
  PROVE  Logs(fl2)
<1>1. ASSUME NEW p \in Modified(fl2)
      PROVE  /\ ~fl2[p].h.log /\ IsLog(fl2, fl2[p].h.lp)
             /\ \E n : LogHas(fl2, fl2[p].h.lp, n)
  <2>1. ~fl[p].h.log /\ IsLog(fl, fl[p].h.lp)
        /\ \E n : LogHas(fl, fl[p].h.lp, n)
    BY DEF FlashOK, Logs
  <2> QED
    BY <2>1, KeptLog DEF FlashOK
<1>2. \A p, q \in Modified(fl2) : fl2[p].h.lp = fl2[q].h.lp => p = q
  BY DEF FlashOK, Logs
<1> QED
  BY <1>1, <1>2 DEF Logs

LEMMA EntryFrame ==
  ASSUME NEW fl, FlashOK(fl), NEW fl2, NEW e \in Entries,
         EntryOK(fl, e), Kept(fl, fl2, e.page),
         fl[e.page].h.mod => Kept(fl, fl2, fl[e.page].h.lp)
  PROVE  EntryOK(fl2, e) /\ (EndOK(fl, e) => EndOK(fl2, e))
<1>1. e.page \in Pages /\ HDR_ACTIVE(fl[e.page].h) /\ fl2[e.page].h = fl[e.page].h
  BY EntryFacts DEF EntryOK, Kept
<1>2. EndOK(fl, e) => EndOK(fl2, e)
  BY <1>1, KeptEnd DEF FlashOK, EndOK
<1>3. ASSUME e.records >= 0
      PROVE  e.mod /\ LogHas(fl2, fl2[e.page].h.lp, e.records)
  <2>1. e.mod /\ LogHas(fl, fl[e.page].h.lp, e.records)
    BY <1>3 DEF EntryOK
  <2>2. e.page \in Modified(fl)
    BY <1>1, <2>1 DEF EntryOK, Modified
  <2>3. IsLog(fl, fl[e.page].h.lp) /\ Kept(fl, fl2, fl[e.page].h.lp)
    BY <2>2 DEF FlashOK, Logs, Modified
  <2> QED
    BY <1>1, <2>1, <2>3, KeptLog DEF FlashOK
<1> QED
  BY <1>1, <1>2, <1>3 DEF EntryOK

LEMMA CacheFrame ==
  ASSUME NEW fl, FlashOK(fl), NEW fl2, NEW fs \in Objects, NEW fs2 \in Objects,
         NEW X, CacheOK(fl, fs, X),
         \A i \in 1..Slots : fs2[i] # NoEntry =>
            /\ fs2[i] = fs[i] /\ Kept(fl, fl2, fs[i].page)
            /\ fl[fs[i].page].h.mod => Kept(fl, fl2, fl[fs[i].page].h.lp)
  PROVE  CacheOK(fl2, fs2, X)
<1>1. ASSUME NEW i \in 1..Slots, fs2[i] # NoEntry
      PROVE  EntryOK(fl2, fs2[i]) /\ (i \notin X => EndOK(fl2, fs2[i]))
  <2>1. fs2[i] = fs[i] /\ fs[i] \in Entries
    BY <1>1 DEF Objects
  <2>2. EntryOK(fl, fs[i]) /\ (i \notin X => EndOK(fl, fs[i]))
    BY <1>1, <2>1 DEF CacheOK
  <2>3. Kept(fl, fl2, fs[i].page) /\ (fl[fs[i].page].h.mod => Kept(fl, fl2, fl[fs[i].page].h.lp))
    BY <1>1
  <2> QED
    BY <2>1, <2>2, <2>3, EntryFrame
<1>2. \A i, j \in 1..Slots :
       fs2[i] # NoEntry /\ fs2[j] # NoEntry /\ fs2[i].page = fs2[j].page => i = j
  BY DEF CacheOK
<1> QED
  BY <1>1, <1>2 DEF CacheOK

\* When every active extent is kept, so are the logs and the file objects.
LEMMA CacheKept ==
  ASSUME NEW fl, FlashOK(fl), NEW fl2, KeptBut(fl, fl2, {}),
         NEW fs \in Objects, NEW X, CacheOK(fl, fs, X)
  PROVE  CacheOK(fl2, fs, X)
<1>1. ASSUME NEW i \in 1..Slots, fs[i] # NoEntry
      PROVE  /\ Kept(fl, fl2, fs[i].page)
             /\ fl[fs[i].page].h.mod => Kept(fl, fl2, fl[fs[i].page].h.lp)
  <2> DEFINE p == fs[i].page
  <2>1. fs[i] \in Entries /\ EntryOK(fl, fs[i])
    BY <1>1 DEF Objects, CacheOK
  <2>2. p \in Pages /\ HDR_ACTIVE(fl[p].h)
    BY <2>1, EntryFacts DEF EntryOK
  <2>3. Kept(fl, fl2, p)
    BY <2>2 DEF KeptBut
  <2>4. fl[p].h.mod => IsLog(fl, fl[p].h.lp)
    BY <2>2, SMTT(60) DEF FlashOK, Logs, Modified
  <2>5. fl[p].h.mod => Kept(fl, fl2, fl[p].h.lp)
    BY <2>4, ZenonT(60) DEF KeptBut, IsLog
  <2> QED
    BY <2>3, <2>5
<1> QED
  BY <1>1, CacheFrame

-------------------------------------------------------------------------------
(* A new extent.                                                              *)

\* There is room for n pages at page p: they are erased.
Room(fl, p, n) ==
  /\ p \in Stops(fl) /\ p + n <= PageCount
  /\ \A x \in Pages : p <= x /\ x < p + n => fl[x] = Blank

\* The header of a new extent.
NewHeader(h) ==
  /\ h \in Headers /\ h # Zero /\ ~h.obs /\ ~h.iso /\ ~h.mod
  /\ Aligned(h.max) /\ h.max > 0

LEMMA AddExtent ==
  ASSUME NEW fl, FlashOK(fl), NEW fl2, NEW p, NEW h,
         NewHeader(h), Room(fl, p, h.max), HeaderPut(fl, fl2, p, h)
  PROVE  /\ Layout(fl2) /\ KeptBut(fl, fl2, {})
         /\ Extents(fl2) = Extents(fl) \cup {p} /\ p \notin Extents(fl)
         /\ \A q \in Pages : fl2[q].d = fl[q].d
         /\ Modified(fl2) = Modified(fl)
<1> USE Sizes
<1>1. p \in Pages /\ p + h.max <= PageCount /\ Aligned(p) /\ h.max \in Nat /\ h.max > 0
  BY AlignedFacts DEF Room, NewHeader, Stops
<1>2. fl[p] = Blank /\ p \notin Extents(fl)
  <2>1. fl[p] = Blank
    BY <1>1 DEF Room
  <2> QED
    BY <2>1 DEF Extents, Blank
<1>3. /\ fl2 \in Flashes /\ fl2[p].h = h
      /\ \A q \in Pages : fl2[q].d = fl[q].d
      /\ \A q \in Pages : q # p => fl2[q].h = fl[q].h
  BY DEF HeaderPut
<1>4. Extents(fl2) = Extents(fl) \cup {p}
  BY <1>1, <1>2, <1>3 DEF Extents, NewHeader
<1>5. EndOf(fl2, p) = p + h.max
  BY <1>3 DEF EndOf
<1>6. \A q \in Extents(fl) : q # p /\ q \in Pages /\ EndOf(fl2, q) = EndOf(fl, q)
                             /\ fl2[q].h = fl[q].h
  BY <1>2, <1>3 DEF EndOf, Extents
<1>7. \A q \in Extents(fl) : EndOf(fl, q) \in Nat /\ q \in Nat /\ q < EndOf(fl, q)
  <2> TAKE q \in Extents(fl)
  <2>1. q \in Nat /\ fl[q].h.max \in Nat /\ fl[q].h.max > 0
    BY <1>6, FlashFacts DEF Layout, FlashOK
  <2> QED
    BY <2>1 DEF EndOf
<1>8. \A q \in Extents(fl) : (p < q => p + h.max <= q) /\ (q < p => EndOf(fl, q) <= p)
  <2> TAKE q \in Extents(fl)
  <2>1. ~(q < p /\ p < EndOf(fl, q))
    BY DEF Room, Stops
  <2>2. p < q => p + h.max <= q
    <3> SUFFICES ASSUME p < q, q < p + h.max PROVE FALSE
      BY <1>1, <1>7
    <3>1. fl[q] = Blank
      BY <1>1, <1>6, <1>7 DEF Room
    <3> QED
      BY <3>1 DEF Extents, Blank
  <2> QED
    BY <2>1, <2>2, <1>1, <1>7
<1>9. Layout(fl2)
  <2>1. ASSUME NEW q \in Extents(fl2)
        PROVE  /\ Aligned(q) /\ Aligned(fl2[q].h.max) /\ fl2[q].h.max > 0 /\ ~fl2[q].h.iso
               /\ EndOf(fl2, q) <= PageCount
    <3>1. CASE q = p
      BY <3>1, <1>1, <1>3, <1>5 DEF NewHeader
    <3>2. CASE q \in Extents(fl)
      BY <3>2, <1>6 DEF FlashOK, Layout
    <3> QED
      BY <3>1, <3>2, <1>4
  <2>2. \A q, r \in Extents(fl2) : q < r => EndOf(fl2, q) <= r
    <3> TAKE q \in Extents(fl2), r \in Extents(fl2)
    <3>1. CASE q = p /\ r = p
      BY <3>1, <1>1
    <3>2. CASE q = p /\ r \in Extents(fl)
      BY <3>2, <1>5, <1>8
    <3>3. CASE q \in Extents(fl) /\ r = p
      BY <3>3, <1>6, <1>8
    <3>4. CASE q \in Extents(fl) /\ r \in Extents(fl)
      BY <3>4, <1>6 DEF FlashOK, Layout
    <3> QED
      BY <3>1, <3>2, <3>3, <3>4, <1>4
  <2>3. ASSUME NEW q \in Pages, fl2[q].d # Nil
        PROVE  \E r \in Extents(fl2) : r <= q /\ q < EndOf(fl2, r)
    <3>1. PICK r \in Extents(fl) : r <= q /\ q < EndOf(fl, r)
      BY <2>3, <1>3 DEF FlashOK, Layout
    <3> QED
      BY <3>1, <1>4, <1>6
  <2> QED
    BY <2>1, <2>2, <2>3, <1>3 DEF Layout
<1>10. KeptBut(fl, fl2, {})
  <2> SUFFICES ASSUME NEW q \in Pages, HDR_ACTIVE(fl[q].h)
               PROVE  Kept(fl, fl2, q)
    BY DEF KeptBut
  <2>1. q \in Extents(fl)
    BY DEF Extents, HDR_ACTIVE
  <2> QED
    BY <2>1, <1>3, <1>6 DEF Kept
<1>11. Modified(fl2) = Modified(fl)
  <2>1. p \notin Modified(fl2)
    BY <1>3 DEF Modified, NewHeader
  <2>2. p \notin Modified(fl)
    BY <1>2 DEF Modified, HDR_ACTIVE, Blank
  <2>3. \A q \in Pages : q # p => (q \in Modified(fl2) <=> q \in Modified(fl))
    BY <1>3 DEF Modified
  <2> QED
    BY <2>1, <2>2, <2>3 DEF Modified
<1> QED
  BY <1>2, <1>3, <1>4, <1>9, <1>10, <1>11

LEMMA AddedOK ==
  ASSUME NEW fl, FlashOK(fl), NEW fl2, NEW p, NEW h,
         NewHeader(h), Room(fl, p, h.max), HeaderPut(fl, fl2, p, h)
  PROVE  /\ FlashOK(fl2) /\ IsEnd(fl2, p, 0) /\ HDR_ACTIVE(fl2[p].h)
         /\ h.max = LogRecords => LogHas(fl2, p, 0)
         /\ FilesOf(fl2) = FilesOf(fl) \cup (IF h.log THEN {} ELSE {p})
         /\ p \notin FilesOf(fl)
<1> USE Sizes
<1>1. /\ Layout(fl2) /\ KeptBut(fl, fl2, {})
      /\ p \notin Extents(fl)
      /\ \A q \in Pages : fl2[q].d = fl[q].d
      /\ Modified(fl2) = Modified(fl)
  BY AddExtent
<1>2. Logs(fl2)
  <2> SUFFICES ASSUME NEW q \in Modified(fl)
               PROVE  fl2[q].h = fl[q].h /\ Kept(fl, fl2, fl[q].h.lp)
    BY <1>1, LogsFrame
  <2>1. Kept(fl, fl2, q)
    BY <1>1 DEF KeptBut, Modified
  <2>2. IsLog(fl, fl[q].h.lp)
    BY DEF FlashOK, Logs
  <2> QED
    BY <2>1, <2>2, <1>1 DEF KeptBut, Kept, IsLog
<1>3. HDR_ACTIVE(fl2[p].h) /\ fl2[p].h = h /\ p \in Pages
  BY DEF HeaderPut, NewHeader, HDR_ACTIVE, Room, Stops
<1>4. \A r \in 0..(h.max - 1) : p + r \in Pages /\ fl2[p + r].d = Nil
  <2> TAKE r \in 0..(h.max - 1)
  <2>1. p + r \in Pages
    BY <1>1, <1>3, ActiveExtent
  <2>2. h.max \in Nat /\ p \in Nat
    BY <1>3, AlignedFacts, SMTT(60) DEF NewHeader
  <2>3. fl[p + r] = Blank
    BY <2>1, <2>2 DEF Room
  <2> QED
    BY <2>1, <2>3, <1>1 DEF Blank
<1>5. h.max \in Nat
  BY AlignedFacts DEF NewHeader
<1>6. IsEnd(fl2, p, 0)
  BY <1>3, <1>4, <1>5, FlashFacts DEF IsEnd
<1>7. h.max = LogRecords => LogHas(fl2, p, 0)
  BY <1>4, FlashFacts DEF LogHas
<1>8. FilesOf(fl2) = FilesOf(fl) \cup (IF h.log THEN {} ELSE {p})
  <2>1. \A q \in Pages : q # p => (q \in FilesOf(fl2) <=> q \in FilesOf(fl))
    BY DEF HeaderPut, FilesOf
  <2>2. p \in FilesOf(fl2) <=> ~h.log
    BY <1>3 DEF FilesOf
  <2>3. p \notin FilesOf(fl)
    BY <1>1 DEF FilesOf, Extents, HDR_ACTIVE
  <2> QED
    BY <2>1, <2>2, <2>3 DEF FilesOf
<1>9. p \notin FilesOf(fl)
  BY <1>1 DEF FilesOf, Extents, HDR_ACTIVE
<1> QED
  BY <1>1, <1>2, <1>3, <1>6, <1>7, <1>8, <1>9 DEF FlashOK

\* The stops after a new extent: those of before that are not within it.
LEMMA AddedStops ==
  ASSUME NEW fl, FlashOK(fl), NEW fl2, NEW p, NEW h,
         NewHeader(h), Room(fl, p, h.max), HeaderPut(fl, fl2, p, h),
         NEW next, FreeOK(fl, next)
  PROVE  FreeOK(fl2, IF p = next THEN p + h.max ELSE next)
<1> USE Sizes
<1>1. /\ Layout(fl2) /\ Extents(fl2) = Extents(fl) \cup {p} /\ p \notin Extents(fl)
  BY AddExtent
<1>2. fl2[p].h = h /\ (\A q \in Pages : q # p => fl2[q] = fl[q])
      /\ HDR_ACTIVE(fl2[p].h)
  BY DEF HeaderPut, NewHeader, HDR_ACTIVE
<1>3. p \in Pages /\ p \in Stops(fl) /\ EndOf(fl2, p) = p + h.max /\ h.max \in Nat /\ h.max > 0
  BY <1>2, AlignedFacts DEF Room, Stops, EndOf, NewHeader
<1>4. \A q \in Extents(fl) : EndOf(fl2, q) = EndOf(fl, q)
  BY <1>1, <1>2 DEF EndOf, Extents
<1>5. \A q : q \in Stops(fl2) <=> q \in Stops(fl) /\ ~(p < q /\ q < p + h.max)
  BY <1>1, <1>3, <1>4 DEF Stops
<1>6. next_file(fl2, p) = p + h.max
  BY <1>2, <1>3, NextFile DEF NewHeader
<1>7. p \in Stops(fl2)
  BY <1>1, <1>2, <1>3, ActiveExtent
<1>8. p + h.max \in Stops(fl2) \cup {PageCount}
  BY <1>1, <1>6, <1>7, NextStop
<1>9. \A q \in Stops(fl) : q \in Nat /\ q \in Pages
  BY DEF Stops
<1>10. fl[p].h = Zero
  BY <1>1, <1>3 DEF Extents
<1>11. next \in Nat /\ next <= p
  BY <1>3, <1>9, <1>10 DEF FreeOK
<1>12. ASSUME NEW q \in Stops(fl2), fl2[q].h = Zero
       PROVE  q \in Stops(fl) /\ fl[q].h = Zero /\ q # p /\ next <= q
              /\ ~(p < q /\ q < p + h.max)
  <2>1. q # p
    BY <1>2, <1>12 DEF NewHeader
  <2>2. q \in Stops(fl) /\ ~(p < q /\ q < p + h.max)
    BY <1>5
  <2>3. fl[q].h = Zero
    BY <1>2, <1>9, <1>12, <2>1, <2>2
  <2> QED
    BY <2>1, <2>2, <2>3 DEF FreeOK
<1>13. CASE p = next
  <2>1. ASSUME NEW q \in Stops(fl2), fl2[q].h = Zero PROVE p + h.max <= q
    BY <2>1, <1>12, <1>13, <1>3, <1>9
  <2> QED
    BY <1>8, <1>13, <2>1 DEF FreeOK
<1>14. CASE p # next
  <2>1. next < p
    BY <1>3, <1>9, <1>11, <1>14
  <2>2. next \in Stops(fl2)
    BY <1>3, <1>5, <1>9, <2>1 DEF FreeOK
  <2> QED
    BY <1>12, <1>14, <2>2 DEF FreeOK
<1> QED
  BY <1>13, <1>14

-------------------------------------------------------------------------------
(* File objects, and the reservation of an extent.                            *)

\* A file object as load_file makes it.
NewEntry(fl, p) == [page |-> p, end |-> -1, max |-> fl[p].h.max,
                    mod |-> fl[p].h.mod, records |-> -1]

\* z is o with the file object e in slot s; for load_file, a slot that has no
\* references.
EntryPut(o, z, s, e) ==
  /\ z \in Ops /\ z.fl = o.fl /\ z.past = o.past /\ z.used = o.used
  /\ z.ram.next_free = o.ram.next_free /\ z.ram.gc_wait = o.ram.gc_wait
  /\ z.ram.files = [o.ram.files EXCEPT ![s] = e]
Loaded(o, z, e) ==
  EntryPut(o, z, z.file, e) /\ z.file \in 1..Slots /\ z.file \notin o.used

\* At most one slot has references, and it holds a file object.
UsedOK(o) ==
  /\ \A i, j \in o.used : i = j
  /\ \A i \in o.used : o.ram.files[i] # NoEntry

\* A file object changes, or the slot of the operation, or its references.
WithEntry(o, s, e) == [o EXCEPT !.ram.files[s] = e]
WithFile(o, s) == [o EXCEPT !.file = s]
WithUsed(o, S) == [o EXCEPT !.used = S]

LEMMA WithEntryOp ==
  ASSUME NEW o \in Ops, NEW s \in 1..Slots, NEW e \in Entries \cup {NoEntry}
  PROVE  /\ EntryPut(o, WithEntry(o, s, e), s, e)
         /\ WithEntry(o, s, e).file = o.file
<1> DEFINE fs == [o.ram.files EXCEPT ![s] = e]
           rm == [o.ram EXCEPT !.files = fs]
           y == [o EXCEPT !.ram = rm]
<1>1. fs \in Objects
  BY OpFields DEF Objects
<1>2. WithEntry(o, s, e) = y
  BY DEF WithEntry
<1> HIDE DEF fs
<1>3. rm \in Rams /\ rm.next_free = o.ram.next_free /\ rm.gc_wait = o.ram.gc_wait
      /\ rm.files = fs
  BY <1>1, OpFields DEF Rams
<1> HIDE DEF rm
<1>4. y \in Ops
  BY <1>3 DEF Ops
<1>5. y.fl = o.fl /\ y.past = o.past /\ y.used = o.used /\ y.file = o.file /\ y.ram = rm
  BY DEF Ops
<1> HIDE DEF y
<1> QED
  BY <1>2, <1>3, <1>4, <1>5 DEF fs, EntryPut

LEMMA WithFileOp ==
  ASSUME NEW o \in Ops, NEW s \in 0..Slots
  PROVE  LET z == WithFile(o, s)
         IN  /\ z \in Ops /\ z.fl = o.fl /\ z.past = o.past /\ z.used = o.used
             /\ z.ram = o.ram /\ z.file = s
BY DEF WithFile, Ops

LEMMA WithUsedOp ==
  ASSUME NEW o \in Ops, NEW S \in SUBSET (1..Slots)
  PROVE  LET z == WithUsed(o, S)
         IN  /\ z \in Ops /\ z.fl = o.fl /\ z.past = o.past /\ z.used = S
             /\ z.ram = o.ram /\ z.file = o.file
BY DEF WithUsed, Ops

LEMMA LoadFile ==
  ASSUME NEW o \in Ops, UsedOK(o), NEW p \in Pages, HDR_ACTIVE(o.fl[p].h)
  PROVE  Loaded(o, load_file(o, p), NewEntry(o.fl, p))
<1> USE Sizes
<1> DEFINE free == {i \in 1..Slots : o.ram.files[i] = NoEntry}
           unref == (1..Slots) \ o.used
           slot == IF free # {} THEN LeastOf(free)
                   ELSE IF unref # {} THEN - LeastOf({-i : i \in unref})
                   ELSE 0
<1>1. read_header(o.fl, p) = o.fl[p].h
  BY ReadActive
<1>2. unref # {}
  <2>1. 1 \in 1..Slots /\ 2 \in 1..Slots
    OBVIOUS
  <2> QED
    BY <2>1 DEF UsedOK
<1>3. slot \in 1..Slots /\ slot \notin o.used
  <2>1. CASE free # {}
    <3>1. free \subseteq Nat
      OBVIOUS
    <3>2. LeastOf(free) \in free
      BY <2>1, <3>1, LeastOfFacts
    <3> QED
      BY <2>1, <3>2 DEF UsedOK
  <2>2. CASE free = {}
    <3>1. unref \subseteq Nat /\ \A x \in unref : x <= Slots
      OBVIOUS
    <3>2. - LeastOf({-i : i \in unref}) \in unref
      BY <1>2, <3>1, GreatestOfFacts
    <3> QED
      BY <2>2, <1>2, <3>2
  <2> QED
    BY <2>1, <2>2
<1>4. slot # 0
  BY <1>3, SMTT(60)
<1>5. load_file(o, p) = [o EXCEPT !.file = slot, !.ram.files[slot] = NewEntry(o.fl, p)]
  BY <1>1, <1>4, Zenon DEF load_file, NewEntry
<1>6. NewEntry(o.fl, p) \in Entries
  BY OpFields, FlashFacts DEF NewEntry, Entries
<1> DEFINE e == NewEntry(o.fl, p)
           y == WithEntry(o, slot, e)
           z == WithFile(y, slot)
<1>7. e \in Entries \cup {NoEntry} /\ slot \in 1..Slots /\ slot \in 0..Slots
  BY <1>3, <1>6
<1>8. load_file(o, p) = z
  BY <1>5 DEF WithFile, WithEntry, Ops
<1> HIDE DEF slot, e
<1>9. EntryPut(o, y, slot, e)
  BY <1>7, WithEntryOp
<1> HIDE DEF y
<1>10. EntryPut(o, z, slot, e) /\ z.file = slot
  BY <1>7, <1>9, WithFileOp DEF EntryPut
<1> HIDE DEF z
<1>11. Loaded(o, z, e)
  BY <1>3, <1>10 DEF Loaded
<1> QED
  BY <1>8, <1>11 DEF e

\* No file object is of the extent at page p.
Uncached(o, p) ==
  \A i \in 1..Slots : o.ram.files[i] # NoEntry => o.ram.files[i].page # p

\* A file object that is not in the cache yet comes into it.
LEMMA LoadedCache ==
  ASSUME NEW o, NEW X, OpOK(o, X), NEW e \in Entries, EntryOK(o.fl, e),
         EndOK(o.fl, e), Uncached(o, e.page), NEW z, Loaded(o, z, e)
  PROVE  /\ OpOK(z, X) /\ z.ram.files[z.file] = e
         /\ \A i \in 1..Slots : i # z.file => z.ram.files[i] = o.ram.files[i]
<1> DEFINE s == z.file
           fs == o.ram.files
           fs2 == z.ram.files
<1>1. fs2[s] = e /\ \A i \in 1..Slots : i # s => fs2[i] = fs[i]
  BY OpFields DEF Loaded, EntryPut, OpOK, Objects
<1>2. CacheOK(o.fl, fs2, X)
  <2>1. ASSUME NEW i \in 1..Slots, fs2[i] # NoEntry
        PROVE  EntryOK(o.fl, fs2[i]) /\ (i \notin X => EndOK(o.fl, fs2[i]))
    <3>1. CASE i = s
      BY <3>1, <1>1
    <3>2. CASE i # s
      BY <3>2, <2>1, <1>1 DEF OpOK, CacheOK
    <3> QED
      BY <3>1, <3>2
  <2>2. ASSUME NEW i \in 1..Slots, NEW j \in 1..Slots,
               fs2[i] # NoEntry, fs2[j] # NoEntry, fs2[i].page = fs2[j].page
        PROVE  i = j
    <3>1. CASE i # s /\ j # s
      BY <3>1, <2>2, <1>1 DEF OpOK, CacheOK
    <3>2. CASE i = s \/ j = s
      BY <3>2, <2>2, <1>1 DEF Uncached
    <3> QED
      BY <3>1, <3>2
  <2> QED
    BY <2>1, <2>2 DEF CacheOK
<1> QED
  BY <1>1, <1>2 DEF Loaded, EntryPut, OpOK

\* What find_contiguous_pages finds is erased.
LEMMA FindRoom ==
  ASSUME NEW o \in Ops, Layout(o.fl), FreeOK(o.fl, o.ram.next_free),
         NEW amount \in Nat, find_contiguous_pages(o, amount) # INVALID
  PROVE  Room(o.fl, find_contiguous_pages(o, amount), amount)
<1> USE Sizes
<1> DEFINE fl == o.fl
           stops == WalkFrom(o.fl, o.ram.next_free)
           free == {p \in stops : HDR_FREE(read_header(o.fl, p))}
           runs == {p \in free : \A q \in free : next_file(o.fl, q) # p}
           fits == {s \in runs : stops \cap s..(s + amount - 1) \subseteq free}
           late == {s \in runs : s + amount >= PageCount}
           first == LeastOf(fits \cup late)
<1>1. find_contiguous_pages(o, amount) =
        IF fits \cup late = {} \/ first \in late THEN INVALID ELSE first
  BY SMTT(60) DEF find_contiguous_pages
<1>2. fits \cup late # {} /\ first \notin late /\ find_contiguous_pages(o, amount) = first
  BY <1>1
<1>3. stops = {q \in Stops(fl) : o.ram.next_free <= q}
  BY WalkStops DEF FreeOK
<1>4. \A q \in Stops(fl) : q \in Nat /\ q \in Pages
  BY SMTT(60) DEF Stops
<1>5. first \in fits
  <2>1. fits \cup late \subseteq Nat
    BY <1>3, <1>4, SMTT(60)
  <2>2. first \in fits \cup late
    BY <1>2, <2>1, LeastOfFacts
  <2> QED
    BY <1>2, <2>2, ZenonT(60)
<1>6. first \in Stops(fl) /\ o.ram.next_free <= first
      /\ first + amount < PageCount
      /\ \A q \in stops : q \in first..(first + amount - 1) => q \in free
  <2>1. first \in runs /\ first \in stops /\ first \in Stops(fl) /\ o.ram.next_free <= first
    BY <1>3, <1>5
  <2>2. ~(first + amount >= PageCount)
    BY <1>2, <2>1
  <2>3. first \in Nat
    BY <1>4, <2>1
  <2> HIDE DEF first
  <2>4. first + amount < PageCount
    BY <2>2, <2>3
  <2> QED
    BY <1>5, <2>1, <2>4
<1> HIDE DEF first
<1>7. \A e \in Extents(fl) : e < first => EndOf(fl, e) <= first
  <2> TAKE e \in Extents(fl)
  <2>1. ~(e < first /\ first < EndOf(fl, e))
    BY <1>6 DEF Stops
  <2>2. e \in Nat /\ EndOf(fl, e) \in Nat /\ first \in Nat
    BY <1>4, <1>6, AlignedFacts DEF Extents, EndOf, Layout
  <2> QED
    BY <2>1, <2>2
<1>8. \A e \in Extents(fl) : first <= e => first + amount <= e
  <2> SUFFICES ASSUME NEW e \in Extents(fl), first <= e, e < first + amount
               PROVE  FALSE
    BY <1>4, <1>6 DEF Extents
  <2>1. e \in Stops(fl) /\ e \in Nat /\ first \in Nat /\ o.ram.next_free \in Nat
    BY <1>4, <1>6, ExtentStops, OpFields
  <2>2. e \in stops /\ e \in first..(first + amount - 1)
    BY <1>3, <1>6, <2>1
  <2>3. read_header(fl, e) = Zero
    BY <1>6, <2>2 DEF HDR_FREE
  <2>4. fl[e].h # Zero
    BY DEF Extents
  <2> QED
    BY <2>3, <2>4 DEF read_header
<1>9. ASSUME NEW x \in Pages, first <= x, x < first + amount
      PROVE  fl[x] = Blank
  <2>1. \A e \in Extents(fl) : ~(e <= x /\ x < EndOf(fl, e))
    <3> TAKE e \in Extents(fl)
    <3>1. e \in Nat /\ EndOf(fl, e) \in Nat /\ first \in Nat
      BY <1>4, <1>6, AlignedFacts DEF Extents, EndOf, Layout
    <3>2. CASE e < first
      BY <3>1, <3>2, <1>7, <1>9
    <3>3. CASE first <= e
      BY <3>1, <3>3, <1>8, <1>9
    <3> QED
      BY <3>1, <3>2, <3>3
  <2>2. fl[x].d = Nil
    BY <2>1 DEF Layout
  <2>3. fl[x].h = Zero
    <3>1. ASSUME x \in Extents(fl) PROVE FALSE
      <4>1. fl[x].h.max \in Nat /\ fl[x].h.max > 0
        BY <3>1, AlignedFacts DEF Layout
      <4>2. x < EndOf(fl, x)
        BY <4>1 DEF EndOf
      <4> QED
        BY <2>1, <3>1, <4>2
    <3> QED
      BY <3>1 DEF Extents
  <2>4. fl[x] \in [h : Headers, d : Regs]
    BY DEF Layout, Flashes
  <2> QED
    BY <2>2, <2>3, <2>4 DEF Blank
<1>10. first + amount <= PageCount
  BY <1>4, <1>6
<1> QED
  BY <1>2, <1>6, <1>9, <1>10 DEF Room

WithNext(o, n) == [o EXCEPT !.ram.next_free = n]

LEMMA WithNextOp ==
  ASSUME NEW o \in Ops, NEW n \in Nat
  PROVE  LET z == WithNext(o, n)
         IN  /\ z \in Ops /\ z.fl = o.fl /\ z.past = o.past /\ z.used = o.used
             /\ z.file = o.file /\ z.ram.next_free = n
             /\ z.ram.gc_wait = o.ram.gc_wait /\ z.ram.files = o.ram.files
<1> DEFINE rm == [o.ram EXCEPT !.next_free = n]
<1>1. rm \in Rams /\ rm.next_free = n /\ rm.gc_wait = o.ram.gc_wait /\ rm.files = o.ram.files
  BY OpFields DEF Rams
<1>2. WithNext(o, n) = [o EXCEPT !.ram = rm]
  BY DEF WithNext
<1> HIDE DEF rm
<1> QED
  BY <1>1, <1>2 DEF Ops

WithWait(o, w) == [o EXCEPT !.ram.gc_wait = w]

LEMMA WithWaitOp ==
  ASSUME NEW o \in Ops, NEW w \in BOOLEAN
  PROVE  LET z == WithWait(o, w)
         IN  /\ z \in Ops /\ z.fl = o.fl /\ z.past = o.past /\ z.used = o.used
             /\ z.file = o.file /\ z.ram.next_free = o.ram.next_free
             /\ z.ram.gc_wait = w /\ z.ram.files = o.ram.files
<1> DEFINE rm == [o.ram EXCEPT !.gc_wait = w]
<1>1. rm \in Rams /\ rm.next_free = o.ram.next_free /\ rm.gc_wait = w /\ rm.files = o.ram.files
  BY OpFields DEF Rams
<1>2. WithWait(o, w) = [o EXCEPT !.ram = rm]
  BY DEF WithWait
<1> HIDE DEF rm
<1> QED
  BY <1>1, <1>2 DEF Ops

\* z is o after the reservation of an extent with header h: nothing else has
\* changed, and the file object is as it should be.
Made(o, z, h, kind) ==
  LET e == z.ram.files[z.file]
  IN  /\ OpOK(z, {}) /\ z.used = o.used /\ z.file \in 1..Slots /\ z.file \notin o.used
      /\ \A s \in o.used : z.ram.files[s] = o.ram.files[s]
      /\ z.past = Past(o.past, z.fl, kind)
      /\ e \in Entries /\ e.end = 0 /\ e.records = -1 /\ ~e.mod
      /\ z.fl[e.page].h = h /\ IsEnd(z.fl, e.page, 0)
      /\ h.max = LogRecords => LogHas(z.fl, e.page, 0)
      /\ KeptBut(o.fl, z.fl, {}) /\ ~HDR_ACTIVE(o.fl[e.page].h)
      /\ Modified(z.fl) = Modified(o.fl)
      /\ FilesOf(z.fl) = FilesOf(o.fl) \cup (IF h.log THEN {} ELSE {e.page})

LEMMA ReservedMade ==
  ASSUME NEW o, OpOK(o, {}), UsedOK(o), NEW h, NewHeader(h),
         NEW p, Room(o.fl, p, h.max), NEW kind
  PROVE  Made(o, Reserved(o, p, h, kind), h, kind)
<1> USE Sizes
<1>1. o \in Ops /\ FlashOK(o.fl) /\ CacheOK(o.fl, o.ram.files, {})
      /\ FreeOK(o.fl, o.ram.next_free) /\ GcOK(o.fl, o.ram.gc_wait)
      /\ \A f \in o.past : FlashOK(f)
  BY DEF OpOK
<1>2. p \in Pages /\ h \in Headers /\ h.max \in Nat /\ ~h.mod /\ p + h.max \in Nat
  BY AlignedFacts DEF Room, Stops, NewHeader
<1> DEFINE next == IF p = o.ram.next_free THEN p + h.max ELSE o.ram.next_free
           o1 == IF p = o.ram.next_free THEN WithNext(o, p + h.max) ELSE o
           w == write_header(o1, p, h, kind)
           o2 == load_file(w, p)
           e == NewEntry(w.fl, p)
           e2 == [e EXCEPT !.end = 0]
           z == WithEntry(o2, o2.file, e2)
<1>3. /\ o1 \in Ops /\ o1.fl = o.fl /\ o1.past = o.past /\ o1.used = o.used
      /\ o1.ram.next_free = next /\ o1.ram.gc_wait = o.ram.gc_wait
      /\ o1.ram.files = o.ram.files
  BY <1>1, <1>2, WithNextOp, ZenonT(60)
<1>4. Reserved(o, p, h, kind) =
        IF o2.file = 0 THEN o2 ELSE [o2 EXCEPT !.ram.files[o2.file].end = 0]
  BY DEF Reserved, WithNext
<1> HIDE DEF o1
<1>5. PICK fl2 : HeaderPut(o.fl, fl2, p, h) /\ OnlyFlash(o1, w, fl2, kind)
  BY <1>2, <1>3, WriteHeaderOp
<1>6. /\ w \in Ops /\ w.fl = fl2 /\ w.past = Past(o.past, fl2, kind) /\ w.used = o.used
      /\ w.ram.next_free = next /\ w.ram.gc_wait = o.ram.gc_wait
      /\ w.ram.files = o.ram.files
  BY <1>3, <1>5 DEF OnlyFlash
<1>7. /\ FlashOK(fl2) /\ IsEnd(fl2, p, 0) /\ HDR_ACTIVE(fl2[p].h)
      /\ h.max = LogRecords => LogHas(fl2, p, 0)
      /\ FilesOf(fl2) = FilesOf(o.fl) \cup (IF h.log THEN {} ELSE {p})
  BY <1>1, <1>5, AddedOK
<1>8. KeptBut(o.fl, fl2, {}) /\ p \notin Extents(o.fl) /\ Modified(fl2) = Modified(o.fl)
      /\ Extents(fl2) = Extents(o.fl) \cup {p}
  BY <1>1, <1>5, AddExtent
<1>9. FreeOK(fl2, next)
  BY <1>1, <1>5, AddedStops
<1>10. fl2[p].h = h /\ \A q \in Pages : q # p => fl2[q] = o.fl[q]
  BY <1>5 DEF HeaderPut
<1>11. GcOK(fl2, o.ram.gc_wait)
  <2> SUFFICES ASSUME o.ram.gc_wait, NEW q \in Extents(fl2)
               PROVE  ~fl2[q].h.obs
    BY DEF GcOK
  <2>1. CASE q = p
    BY <2>1, <1>10 DEF NewHeader
  <2>2. CASE q # p
    BY <2>2, <1>1, <1>8, <1>10 DEF GcOK, Extents
  <2> QED
    BY <2>1, <2>2
<1>12. CacheOK(fl2, o.ram.files, {})
  BY <1>1, <1>8, CacheKept, OpFields
<1>13. \A f \in w.past : FlashOK(f)
  BY <1>1, <1>6, <1>7 DEF Past
<1>14. OpOK(w, {})
  BY <1>6, <1>7, <1>9, <1>11, <1>12, <1>13 DEF OpOK
<1>15. UsedOK(w)
  BY <1>6 DEF UsedOK
<1> HIDE DEF w
<1>16. Loaded(w, o2, e)
  BY <1>2, <1>6, <1>7, <1>15, LoadFile, SMTT(60)
<1> HIDE DEF o2
<1>17. Uncached(w, p)
  <2> SUFFICES ASSUME NEW i \in 1..Slots, o.ram.files[i] # NoEntry
               PROVE  o.ram.files[i].page # p
    BY <1>6 DEF Uncached
  <2>1. HDR_ACTIVE(o.fl[o.ram.files[i].page].h)
    BY <1>1 DEF CacheOK, EntryOK
  <2> QED
    BY <2>1, <1>2, <1>8, ZenonT(60) DEF Extents, HDR_ACTIVE
<1>18. e = [page |-> p, end |-> -1, max |-> h.max, mod |-> h.mod, records |-> -1]
  BY <1>6, <1>10 DEF NewEntry
<1>19. e2 = [page |-> p, end |-> 0, max |-> h.max, mod |-> h.mod, records |-> -1]
  BY <1>18
<1> HIDE DEF e, e2
<1>20. e2 \in Entries /\ e2.page = p /\ e2.end = 0 /\ e2.max = h.max /\ e2.mod = h.mod
       /\ e2.records = -1
  <2>1. h.mod \in BOOLEAN
    BY <1>2, FlashFacts
  <2> QED
    BY <2>1, <1>2, <1>19 DEF Entries
<1>21. EntryOK(w.fl, e2) /\ EndOK(w.fl, e2)
  <2>1. e2.end \in -1..e2.max /\ e2.records \in -1..LogRecords /\ ~(e2.records >= 0)
    BY <1>2, <1>20
  <2> QED
    BY <2>1, <1>6, <1>7, <1>10, <1>20 DEF EntryOK, EndOK
<1>22. o2 \in Ops /\ o2.file \in 1..Slots /\ o2.file # 0 /\ o2.file \notin o.used
       /\ o2.ram.files = [w.ram.files EXCEPT ![o2.file] = e]
  BY <1>6, <1>16 DEF Loaded, EntryPut
<1>23. o2.ram.files[o2.file] = e
  BY <1>6, <1>22, OpFields DEF Objects
<1>24. Reserved(o, p, h, kind) = z
  BY <1>4, <1>22, <1>23 DEF WithEntry, e2
<1>25. EntryPut(o2, z, o2.file, e2) /\ z.file = o2.file
  BY <1>20, <1>22, WithEntryOp
<1> HIDE DEF z
<1>26. z.ram.files = [w.ram.files EXCEPT ![z.file] = e2]
  BY <1>6, <1>22, <1>25, OpFields DEF EntryPut, Objects
<1>27. Loaded(w, z, e2)
  BY <1>6, <1>16, <1>22, <1>25, <1>26 DEF Loaded, EntryPut
<1>28. /\ OpOK(z, {}) /\ z.ram.files[z.file] = e2
       /\ \A i \in 1..Slots : i # z.file => z.ram.files[i] = w.ram.files[i]
  <2>1. Uncached(w, e2.page) /\ e2 \in Entries
    BY <1>17, <1>20
  <2> QED
    BY <2>1, <1>14, <1>21, <1>27, LoadedCache
<1>29. /\ z.used = o.used /\ z.file \in 1..Slots /\ z.file \notin o.used
       /\ z.fl = fl2 /\ z.past = Past(o.past, fl2, kind)
  BY <1>6, <1>22, <1>27 DEF Loaded, EntryPut
<1>30. \A s \in o.used : z.ram.files[s] = o.ram.files[s]
  BY <1>1, <1>6, <1>28, <1>29, OpFields
<1>31. ~HDR_ACTIVE(o.fl[p].h)
  BY <1>2, <1>8 DEF Extents, HDR_ACTIVE
<1>32. Made(o, z, h, kind)
  BY <1>2, <1>7, <1>8, <1>10, <1>20, <1>28, <1>29, <1>30, <1>31 DEF Made
<1> QED
  BY <1>24, <1>32

-------------------------------------------------------------------------------
(* The collector.                                                             *)

LEMMA PagesOfFacts ==
  ASSUME NEW fl, NEW p \in Nat, next_file(fl, p) \in Nat, p < next_file(fl, p)
  PROVE  PagesOf(fl, {}) = 0 /\ PagesOf(fl, {p}) = next_file(fl, p) - p
<1> DEFINE n == next_file(fl, p)
           U(S) == UNION {q..(next_file(fl, q) - 1) : q \in S}
<1>1. U({}) = {}
  OBVIOUS
<1>2. U({p}) = p..(n - 1)
  OBVIOUS
<1>3. Cardinality({}) = 0
  BY FS_EmptySet
<1> HIDE DEF n
<1>4. Cardinality(p..(n - 1)) = n - p
  <2>1. p \in Int /\ n - 1 \in Int /\ p <= n - 1
    BY DEF n
  <2>2. Cardinality(p..(n - 1)) = IF p > n - 1 THEN 0 ELSE (n - 1) - p + 1
    BY <2>1, FS_Interval
  <2> QED
    BY <2>1, <2>2 DEF n
<1> QED
  BY <1>1, <1>2, <1>3, <1>4 DEF PagesOf, n

\* The status s of a sector: whether it is to be erased, without isolation, and
\* what the next sector begins with.
Erase(s) == s.active = 0 /\ s.obsolete > 0
Status(s, erase, skip, live) ==
  /\ s.isolate = 0 /\ (Erase(s) <=> erase)
  /\ s.skip = skip /\ s.last \in BOOLEAN /\ (s.last <=> live)

\* A sector that lies within an extent.
LEMMA StatusWithin ==
  ASSUME NEW fl, NEW sector, NEW skip \in Nat, NEW last \in BOOLEAN,
         Aligned(skip), skip > 0
  PROVE  Status(get_sector_status(fl, sector, skip, last),
                ~last, skip - PagesPerSector, last)
<1> USE Sizes
<1>1. skip >= PagesPerSector /\ Aligned(skip - PagesPerSector)
  <2>1. 0 + PagesPerSector <= skip
    BY AlignedFacts
  <2>2. PagesPerSector <= skip
    BY <2>1
  <2>3. Aligned(skip - PagesPerSector)
    BY <2>2, AlignedFacts
  <2> QED
    BY <2>2, <2>3
<1>2. skip - PagesPerSector = 0 \/ skip - PagesPerSector >= PagesPerSector
  <2> DEFINE k == skip - PagesPerSector
  <2>1. k \in Nat /\ Aligned(k)
    BY <1>1
  <2> HIDE DEF k
  <2>2. 0 < k => 0 + PagesPerSector <= k
    BY <2>1, AlignedFacts
  <2> QED
    BY <2>1, <2>2 DEF k
<1>3. get_sector_status(fl, sector, skip, last) =
        [active |-> IF last THEN PagesPerSector ELSE 0,
         obsolete |-> IF last THEN 0 ELSE PagesPerSector,
         skip |-> skip - PagesPerSector, last |-> last,
         isolate |-> IF last \/ skip - PagesPerSector >= PagesPerSector
                     THEN 0 ELSE skip - PagesPerSector]
  BY <1>1 DEF get_sector_status
<1> QED
  BY <1>2, <1>3 DEF Status, Erase

\* A sector that begins with a free area or an extent.
LEMMA StatusAt ==
  ASSUME NEW fl, Progress(fl), NEW sector \in Nat, NEW last \in BOOLEAN,
         NEW b \in Pages, b = sector * PagesPerSector,
         NEW n, n = next_file(fl, b), Aligned(n - b), n - b > 0,
         HDR_FREE(read_header(fl, b)) => n - b = PagesPerSector
  PROVE  LET h == read_header(fl, b)
         IN  Status(get_sector_status(fl, sector, 0, last),
                    ~HDR_FREE(h) /\ ~HDR_ACTIVE(h), n - b - PagesPerSector,
                    HDR_ACTIVE(h))
<1> USE Sizes
<1> DEFINE h == read_header(fl, b)
           start == sector * PagesPerSector
           end == start + PagesPerSector
           stops == WalkFrom(fl, start + 0) \cap start..(end - 1)
           live == {p \in stops : HDR_ACTIVE(read_header(fl, p))}
           free == {p \in stops : HDR_FREE(read_header(fl, p))}
           last_active == \E p \in live : next_file(fl, p) >= end
           active == PagesOf(fl, live) + (IF last THEN 0 ELSE 0)
           rest == stops \ (live \cup free)
           obsolete == PagesOf(fl, rest) + (IF last THEN 0 ELSE 0)
           over == active + obsolete + PagesOf(fl, free) - PagesPerSector
<1>1. get_sector_status(fl, sector, 0, last) =
        [active |-> IF over > 0 /\ last_active THEN PagesPerSector - obsolete
                    ELSE active,
         obsolete |-> IF over > 0 /\ ~last_active THEN PagesPerSector - active
                      ELSE obsolete,
         skip |-> over, last |-> last_active,
         isolate |-> IF last_active \/ over >= PagesPerSector THEN 0 ELSE over]
  <2>1. ~(0 >= PagesPerSector)
    OBVIOUS
  <2> QED
    BY <2>1, Zenon DEF get_sector_status
<1>2. b \in Nat /\ n \in Nat /\ b < n /\ n <= PageCount /\ n - b \in Nat
      /\ PagesPerSector <= n - b
  <2>1. b \in Nat /\ n \in Nat /\ b < n /\ n <= PageCount
    BY DEF Progress
  <2>2. 0 + PagesPerSector <= n - b
    BY <2>1, AlignedFacts
  <2> QED
    BY <2>1, <2>2
<1>3. start = b /\ start + 0 = b
  BY <1>2
<1>4. stops = {b}
  <2>1. WalkFrom(fl, b) = {b} \cup WalkFrom(fl, n)
    BY WalkEquation
  <2>2. \A q \in WalkFrom(fl, n) : q \in Nat /\ n <= q
    BY <1>2, WalkAhead
  <2>3. end = b + PagesPerSector
    BY <1>3
  <2> HIDE DEF start, end
  <2>4. \A q \in WalkFrom(fl, n) : ~(q \in start..(end - 1))
    BY <1>2, <1>3, <2>2, <2>3
  <2>5. b \in start..(end - 1)
    BY <1>2, <1>3, <2>3
  <2> QED
    BY <1>3, <2>1, <2>4, <2>5
<1>5. end = b + PagesPerSector /\ n >= end
  BY <1>2, <1>3
<1>6. PagesOf(fl, {}) = 0 /\ PagesOf(fl, {b}) = n - b
      /\ \A x \in Nat : x + (IF last THEN 0 ELSE 0) = x
  BY <1>2, PagesOfFacts
<1>7. ~(HDR_FREE(h) /\ HDR_ACTIVE(h))
  BY DEF HDR_FREE, HDR_ACTIVE
<1> DEFINE k == n - b
           st == get_sector_status(fl, sector, 0, last)
<1>8. k \in Nat /\ PagesPerSector <= k /\ (k = PagesPerSector \/ k >= 2 * PagesPerSector)
  <2>1. Aligned(PagesPerSector) /\ Aligned(k) /\ k \in Nat /\ PagesPerSector <= k
    BY <1>2, AlignedFacts
  <2> HIDE DEF k
  <2>2. PagesPerSector < k => PagesPerSector + PagesPerSector <= k
    BY <2>1, AlignedFacts
  <2> QED
    BY <2>1, <2>2
<1>9. PagesOf(fl, {b}) = k
  BY <1>6
<1> HIDE DEF k, h, start, end, stops, st
<1>10. CASE HDR_FREE(h)
  <2>1. live = {} /\ free = {b} /\ rest = {}
    BY <1>4, <1>7, <1>10 DEF h
  <2>2. ~last_active
    BY <2>1
  <2> HIDE DEF live, free, rest, last_active
  <2>3. active = 0 /\ obsolete = 0 /\ k = PagesPerSector
    BY <2>1, <1>6, <1>10 DEF h, k
  <2> HIDE DEF active, obsolete
  <2>4. over = 0
    BY <2>1, <2>3, <1>8, <1>9
  <2> HIDE DEF over
  <2>5. st = [active |-> 0, obsolete |-> 0, skip |-> 0, last |-> FALSE, isolate |-> 0]
    BY <2>2, <2>3, <2>4, <1>1 DEF st
  <2>6. k - PagesPerSector = 0
    BY <2>3
  <2>7. st.isolate = 0 /\ st.obsolete = 0 /\ st.skip = 0 /\ st.last \in BOOLEAN /\ ~st.last
    BY <2>5
  <2> QED
    BY <2>6, <2>7, <1>7, <1>10 DEF Status, Erase, h, st, k
<1>11. CASE HDR_ACTIVE(h)
  <2>1. live = {b} /\ free = {} /\ rest = {}
    BY <1>4, <1>7, <1>11 DEF h
  <2>2. last_active
    BY <2>1, <1>5
  <2> HIDE DEF live, free, rest, last_active
  <2>3. active = k /\ obsolete = 0
    BY <2>1, <1>6, <1>8, <1>9
  <2> HIDE DEF active, obsolete
  <2>4. over = k - PagesPerSector
    BY <2>1, <2>3, <1>6, <1>8
  <2> HIDE DEF over
  <2>5. st = [active |-> IF over > 0 THEN PagesPerSector ELSE k, obsolete |-> 0,
              skip |-> over, last |-> TRUE, isolate |-> 0]
    <3>1. PagesPerSector - 0 = PagesPerSector
      OBVIOUS
    <3> QED
      BY <3>1, <2>2, <2>3, <1>1 DEF st
  <2>6. st.isolate = 0 /\ st.active > 0 /\ st.skip = k - PagesPerSector
        /\ st.last \in BOOLEAN /\ st.last
    BY <2>4, <2>5, <1>8
  <2>7. st.active # 0
    <3>1. st.active = PagesPerSector \/ st.active = k
      BY <2>5
    <3> QED
      BY <3>1, <1>8
  <2> QED
    BY <2>6, <2>7, <1>7, <1>11 DEF Status, Erase, h, st, k
<1>12. CASE ~HDR_FREE(h) /\ ~HDR_ACTIVE(h)
  <2>1. live = {} /\ free = {} /\ rest = {b}
    BY <1>4, <1>12 DEF h
  <2>2. ~last_active
    BY <2>1
  <2> HIDE DEF live, free, rest, last_active
  <2>3. active = 0 /\ obsolete = k
    BY <2>1, <1>6, <1>8, <1>9
  <2> HIDE DEF active, obsolete
  <2>4. over = k - PagesPerSector
    BY <2>1, <2>3, <1>6, <1>8
  <2> HIDE DEF over
  <2>5. over \in Nat /\ (over = 0 \/ over >= PagesPerSector)
    BY <2>4, <1>8
  <2>6. st = [active |-> 0, obsolete |-> IF over > 0 THEN PagesPerSector ELSE k,
              skip |-> over, last |-> FALSE, isolate |-> 0]
    <3>1. PagesPerSector - 0 = PagesPerSector
      OBVIOUS
    <3> QED
      BY <3>1, <2>2, <2>3, <2>5, <1>1 DEF st
  <2>7. st.isolate = 0 /\ st.active = 0 /\ st.obsolete > 0 /\ st.skip = k - PagesPerSector
        /\ st.last \in BOOLEAN /\ ~st.last
    BY <2>4, <2>6, <1>8
  <2> QED
    BY <2>7, <1>12 DEF Status, Erase, h, st, k
<1> QED
  BY <1>10, <1>11, <1>12

\* A page of an obsolete extent; the flash when all of them below page b have
\* been erased.
Doomed(fl, x) ==
  \E p \in Extents(fl) : fl[p].h.obs /\ p <= x /\ x < EndOf(fl, p)
Swept(fl, b) ==
  [x \in Pages |-> IF x < b /\ Doomed(fl, x) THEN Blank ELSE fl[x]]
Within(fl, b, p) == p \in Extents(fl) /\ p < b /\ b < EndOf(fl, p)

\* The collection g that began with o has come to page b.
Sweeping(o, g, b) ==
  /\ g.o \in Ops /\ g.o.fl = Swept(o.fl, b) /\ g.o.past = o.past
  /\ g.o.used = o.used /\ g.o.file = o.file
  /\ g.o.ram.gc_wait = o.ram.gc_wait /\ g.o.ram.files = o.ram.files
  /\ g.o.ram.next_free <= o.ram.next_free
  /\ g.o.ram.next_free \in {o.ram.next_free} \cup Extents(o.fl)
  /\ \A p \in Extents(o.fl) : o.fl[p].h.obs /\ p < b => g.o.ram.next_free <= p
  /\ g.skip \in Nat /\ g.last \in BOOLEAN
  /\ \A p \in Extents(o.fl) : Within(o.fl, b, p) =>
       g.skip = EndOf(o.fl, p) - b /\ (g.last <=> ~o.fl[p].h.obs)
  /\ (\A p \in Extents(o.fl) : ~Within(o.fl, b, p)) => g.skip = 0

\* What CollectIf does to a sector with such a status.
LEMMA Collects ==
  ASSUME NEW g, g.o \in Ops, NEW sector \in Nat, "gc" \notin CrashIn,
         NEW s, s.isolate = 0
  PROVE  LET z == CollectIf(g, sector, s)
             first == sector * PagesPerSector
             next == g.o.ram.next_free
         IN  /\ z.skip = s.skip /\ z.last = s.last
             /\ ~Erase(s) => z.o = g.o
             /\ Erase(s) => /\ z.o \in Ops /\ z.o.fl = Erased(g.o.fl, sector)
                            /\ z.o.past = g.o.past /\ z.o.used = g.o.used
                            /\ z.o.file = g.o.file
                            /\ z.o.ram.gc_wait = g.o.ram.gc_wait
                            /\ z.o.ram.files = g.o.ram.files
                            /\ z.o.ram.next_free = IF first < next THEN first ELSE next
<1> DEFINE first == sector * PagesPerSector
           next == g.o.ram.next_free
           o1 == IF first < next THEN WithNext(g.o, first) ELSE g.o
           fl2 == Erased(o1.fl, sector)
           w == Written(o1, fl2, "gc")
           z == CollectIf(g, sector, s)
<1>1. first \in Nat
  BY Sizes
<1>3. z = [o |-> IF Erase(s) THEN w ELSE g.o, skip |-> s.skip, last |-> s.last]
  BY DEF CollectIf, WithNext, Erase
<1> HIDE DEF z
<1>4. z.o = (IF Erase(s) THEN w ELSE g.o) /\ z.skip = s.skip /\ z.last = s.last
  BY <1>3
<1>5. /\ o1 \in Ops /\ o1.fl = g.o.fl /\ o1.past = g.o.past /\ o1.used = g.o.used
      /\ o1.file = g.o.file /\ o1.ram.gc_wait = g.o.ram.gc_wait
      /\ o1.ram.files = g.o.ram.files
      /\ o1.ram.next_free = IF first < next THEN first ELSE next
  BY <1>1, WithNextOp, SMTT(60)
<1> HIDE DEF o1
<1>6. fl2 \in Flashes
  <2>1. Blank \in [h : Headers, d : Regs]
    BY FlashFacts DEF Blank
  <2>2. o1.fl \in [Pages -> [h : Headers, d : Regs]]
    BY <1>5, OpFields DEF Flashes
  <2> QED
    BY <2>1, <2>2 DEF Erased, Flashes
<1> HIDE DEF fl2
<1>7. OnlyFlash(o1, w, fl2, "gc") /\ Past(o1.past, fl2, "gc") = o1.past
  BY <1>5, <1>6, WrittenOp DEF Past
<1> HIDE DEF w
<1>8. w \in Ops /\ w.fl = Erased(g.o.fl, sector) /\ w.past = g.o.past /\ w.used = g.o.used
      /\ w.file = g.o.file /\ w.ram = o1.ram
  BY <1>5, <1>7 DEF OnlyFlash, fl2
<1> QED
  BY <1>4, <1>5, <1>8 DEF z

LEMMA SweptFacts ==
  ASSUME NEW fl, Layout(fl), NEW sector \in Nat, NEW b,
         b = sector * PagesPerSector
  PROVE  /\ (\A x \in Pages : b <= x /\ x < b + PagesPerSector => Doomed(fl, x)) =>
              Erased(Swept(fl, b), sector) = Swept(fl, b + PagesPerSector)
         /\ (\A x \in Pages : b <= x /\ x < b + PagesPerSector => ~Doomed(fl, x)) =>
              Swept(fl, b) = Swept(fl, b + PagesPerSector)
<1> USE Sizes
<1>1. b \in Nat
  OBVIOUS
<1>2. \A x \in Pages : x \div PagesPerSector = sector
                         <=> b <= x /\ x < b + PagesPerSector
  BY OfSector
<1>3. \A x \in Pages : x < b + PagesPerSector <=>
                         x < b \/ (b <= x /\ x < b + PagesPerSector)
  BY <1>1
<1>4. ASSUME \A x \in Pages : b <= x /\ x < b + PagesPerSector => Doomed(fl, x)
      PROVE  Erased(Swept(fl, b), sector) = Swept(fl, b + PagesPerSector)
  <2>1. \A x \in Pages : x < b => ~(b <= x /\ x < b + PagesPerSector)
    BY <1>1
  <2>2. Erased(Swept(fl, b), sector) =
          [x \in Pages |-> IF b <= x /\ x < b + PagesPerSector THEN Blank
                           ELSE IF x < b /\ Doomed(fl, x) THEN Blank ELSE fl[x]]
    BY <1>2 DEF Erased, Swept
  <2>3. \A x \in Pages : (IF b <= x /\ x < b + PagesPerSector THEN Blank
                           ELSE IF x < b /\ Doomed(fl, x) THEN Blank ELSE fl[x])
                  = IF x < b + PagesPerSector /\ Doomed(fl, x) THEN Blank ELSE fl[x]
    BY <1>3, <1>4, <2>1
  <2> QED
    BY <2>2, <2>3 DEF Swept
<1>5. ASSUME \A x \in Pages : b <= x /\ x < b + PagesPerSector => ~Doomed(fl, x)
      PROVE  Swept(fl, b) = Swept(fl, b + PagesPerSector)
  <2>1. \A x \in Pages : (x < b /\ Doomed(fl, x)) <=> (x < b + PagesPerSector /\ Doomed(fl, x))
    BY <1>3, <1>5
  <2> QED
    BY <2>1 DEF Swept
<1> QED
  BY <1>4, <1>5

LEMMA SweptFlash ==
  ASSUME NEW fl, Layout(fl), NEW b \in Nat
  PROVE  /\ Swept(fl, b) \in Flashes /\ Progress(Swept(fl, b))
         /\ \A x \in Pages : ~(x < b) => Swept(fl, b)[x] = fl[x]
<1> USE Sizes
<1>1. Blank \in [h : Headers, d : Regs] /\ Blank.h = Zero
  BY FlashFacts DEF Blank
<1>2. fl \in [Pages -> [h : Headers, d : Regs]]
  BY DEF Layout, Flashes
<1> DEFINE g == Swept(fl, b)
<1>3. g \in Flashes /\ \A x \in Pages : (g[x] = Blank \/ g[x] = fl[x]) /\ (~(x < b) => g[x] = fl[x])
  BY <1>1, <1>2 DEF Swept, Flashes
<1> HIDE DEF g
<1>4. \A p \in Pages : /\ g[p].h.max \in Nat
                       /\ g[p].h # Zero => /\ ~g[p].h.iso /\ g[p].h.max > 0
                                           /\ EndOf(g, p) <= PageCount
  <2> TAKE p \in Pages
  <2>1. g[p].h.max \in Nat
    BY <1>3, FlashFacts
  <2>2. ASSUME g[p].h # Zero
        PROVE  ~g[p].h.iso /\ g[p].h.max > 0 /\ EndOf(g, p) <= PageCount
    <3>1. g[p] = fl[p] /\ p \in Extents(fl)
      BY <1>1, <1>3, <2>2 DEF Extents
    <3> QED
      BY <3>1 DEF Layout, EndOf
  <2> QED
    BY <2>1, <2>2
<1>5. Progress(g)
  BY <1>4, ProgressIf
<1> QED
  BY <1>3, <1>5 DEF g

\* The status of a sector in the extent at page p, and of a free one.
LEMMA SectorStatus ==
  ASSUME NEW o \in Ops, Layout(o.fl), NEW g, NEW sector \in 0..(Sectors - 1), NEW b,
         b = sector * PagesPerSector, Sweeping(o, g, b)
  PROVE  LET s == get_sector_status(g.o.fl, sector, g.skip, g.last)
             c == b + PagesPerSector
         IN  /\ b \in Pages /\ Aligned(b) /\ Aligned(c) /\ c \in Nat /\ c <= PageCount
             /\ \A p \in Extents(o.fl) : p <= b /\ b < EndOf(o.fl, p) =>
                  /\ c <= EndOf(o.fl, p)
                  /\ Status(s, o.fl[p].h.obs, EndOf(o.fl, p) - c, ~o.fl[p].h.obs)
             /\ (\A p \in Extents(o.fl) : ~(p <= b /\ b < EndOf(o.fl, p))) =>
                  Status(s, FALSE, 0, FALSE)
<1> USE Sizes
<1> DEFINE s == get_sector_status(g.o.fl, sector, g.skip, g.last)
           c == b + PagesPerSector
           fl == o.fl
           fl1 == g.o.fl
<1>1. b \in Pages /\ Aligned(b) /\ Aligned(c) /\ c \in Nat /\ c <= PageCount
  <2>1. sector \in Nat /\ sector < Sectors
    OBVIOUS
  <2>2. sector * PagesPerSector + PagesPerSector <= Sectors * PagesPerSector
    BY <2>1, MulMono
  <2>3. b \in Nat /\ Aligned(b)
    BY <2>1 DEF Aligned
  <2>4. c <= PageCount
    BY <2>2 DEF PageCount
  <2>5. b \in Pages
    BY <2>3, <2>4
  <2> QED
    BY <2>3, <2>4, <2>5, AlignedFacts
<1>2. \A p \in Extents(fl) : /\ p \in Pages /\ Aligned(p) /\ Aligned(EndOf(fl, p))
                             /\ EndOf(fl, p) \in Nat /\ p < EndOf(fl, p)
                             /\ ~fl[p].h.iso /\ fl[p].h.obs \in BOOLEAN
  <2> TAKE p \in Extents(fl)
  <2>1. p \in Pages /\ Aligned(p) /\ Aligned(fl[p].h.max) /\ fl[p].h.max > 0 /\ ~fl[p].h.iso
    BY DEF Layout, Extents
  <2>2. Aligned(EndOf(fl, p)) /\ fl[p].h.max \in Nat
    BY <2>1, AlignedFacts DEF EndOf
  <2>3. fl[p].h.obs \in BOOLEAN
    BY <2>1, FlashFacts DEF Layout
  <2> QED
    BY <2>1, <2>2, <2>3 DEF EndOf
<1>3. /\ g.skip \in Nat /\ g.last \in BOOLEAN
      /\ \A p \in Extents(fl) : Within(fl, b, p) =>
           g.skip = EndOf(fl, p) - b /\ (g.last <=> ~fl[p].h.obs)
      /\ (\A p \in Extents(fl) : ~Within(fl, b, p)) => g.skip = 0
      /\ fl1 = Swept(fl, b)
  BY DEF Sweeping
<1>4. fl1[b] = fl[b] /\ Progress(fl1)
  BY <1>1, <1>3, SweptFlash
<1>5. next_file(fl1, b) = next_file(fl, b) /\ read_header(fl1, b) = read_header(fl, b)
  BY <1>4 DEF next_file, read_header
<1> HIDE DEF c, s, fl1
<1>6. ASSUME NEW p \in Extents(fl), p <= b, b < EndOf(fl, p)
      PROVE  c <= EndOf(fl, p) /\ Status(s, fl[p].h.obs, EndOf(fl, p) - c, ~fl[p].h.obs)
  <2>1. c <= EndOf(fl, p)
    BY <1>1, <1>2, <1>6, AlignedFacts DEF c
  <2>2. CASE p < b
    <3>1. Within(fl, b, p)
      BY <1>6, <2>2 DEF Within
    <3>2. g.skip = EndOf(fl, p) - b /\ (g.last <=> ~fl[p].h.obs)
      BY <3>1, <1>3
    <3>3. Aligned(g.skip) /\ g.skip > 0
      <4>1. Aligned(b) /\ Aligned(EndOf(fl, p)) /\ b <= EndOf(fl, p)
        BY <1>1, <1>2, <1>6
      <4>2. Aligned(EndOf(fl, p) - b)
        BY <4>1, AlignedFacts
      <4> QED
        BY <3>2, <4>2, <1>1, <1>2, <1>6
    <3>4. Status(s, ~g.last, g.skip - PagesPerSector, g.last)
      BY <3>3, <1>3, StatusWithin DEF s, fl1
    <3>5. g.skip - PagesPerSector = EndOf(fl, p) - c
      BY <3>2, <1>1, <1>2 DEF c
    <3> QED
      BY <2>1, <3>2, <3>4, <3>5, <1>2, <1>3 DEF Status, Erase
  <2>3. CASE p = b
    <3>1. \A q \in Extents(fl) : ~Within(fl, b, q)
      <4> SUFFICES ASSUME NEW q \in Extents(fl), Within(fl, b, q) PROVE FALSE
        OBVIOUS
      <4>1. q < p => EndOf(fl, q) <= p
        BY DEF Layout
      <4> QED
        BY <4>1, <2>3, <1>1, <1>2 DEF Within
    <3>2. g.skip = 0
      BY <3>1, <1>3
    <3> DEFINE n == EndOf(fl, b)
    <3>3. fl[b].h # Zero /\ fl[b].h.max \in Nat /\ ~fl[b].h.iso
      BY <2>3, <1>1, <1>2, FlashFacts DEF Extents, Layout
    <3>4. n = next_file(fl1, b)
      BY <3>3, <1>1, <1>5, NextFile
    <3>5. read_header(fl1, b) = fl[b].h
      BY <3>3, <1>5 DEF read_header
    <3>6. Aligned(n - b) /\ n - b > 0
      <4>1. Aligned(b) /\ Aligned(n) /\ b <= n /\ b < n /\ b \in Nat /\ n \in Nat
        BY <2>3, <1>1, <1>2
      <4> HIDE DEF n
      <4>2. Aligned(n - b)
        BY <4>1, AlignedFacts
      <4> QED
        BY <4>1, <4>2
    <3>7. ~HDR_FREE(fl[b].h) /\ (HDR_ACTIVE(fl[b].h) <=> ~fl[b].h.obs)
      BY <3>3 DEF HDR_FREE, HDR_ACTIVE
    <3> HIDE DEF n
    <3>8. sector \in Nat
      OBVIOUS
    <3>9. Status(get_sector_status(fl1, sector, 0, g.last),
                 ~HDR_FREE(fl[b].h) /\ ~HDR_ACTIVE(fl[b].h), n - b - PagesPerSector,
                 HDR_ACTIVE(fl[b].h))
      BY <3>4, <3>5, <3>6, <3>7, <3>8, <1>1, <1>3, <1>4, StatusAt
    <3>10. n - b - PagesPerSector = EndOf(fl, p) - c
      BY <2>3, <1>1, <1>2 DEF n, c
    <3> QED
      BY <2>1, <2>3, <3>2, <3>7, <3>9, <3>10, <1>2 DEF Status, Erase, s, fl1
  <2> QED
    BY <2>2, <2>3, <1>1, <1>2, <1>6
<1>7. ASSUME \A p \in Extents(fl) : ~(p <= b /\ b < EndOf(fl, p))
      PROVE  Status(s, FALSE, 0, FALSE)
  <2>1. \A p \in Extents(fl) : ~Within(fl, b, p)
    BY <1>1, <1>2, <1>7 DEF Within
  <2>2. g.skip = 0
    BY <2>1, <1>3
  <2>3. b \in Stops(fl)
    BY <2>1, <1>1 DEF Stops, Within
  <2>4. fl[b].h = Zero
    BY <1>1, <1>2, <1>7 DEF Extents
  <2>5. read_header(fl1, b) = Zero /\ next_file(fl1, b) = b + PagesPerSector
    BY <2>3, <2>4, <1>5, FreeStop
  <2> DEFINE n == next_file(fl1, b)
  <2>6. n - b = PagesPerSector /\ Aligned(n - b) /\ n - b > 0 /\ sector \in Nat
    <3>1. n - b = PagesPerSector
      BY <2>5, <1>1
    <3> QED
      BY <3>1, AlignedFacts
  <2>7. HDR_FREE(Zero) /\ ~HDR_ACTIVE(Zero)
    BY DEF HDR_FREE, HDR_ACTIVE
  <2>8. n = next_file(fl1, b) /\ read_header(fl1, b) = Zero
    BY <2>5
  <2> HIDE DEF n
  <2>9. Status(get_sector_status(fl1, sector, 0, g.last),
               ~HDR_FREE(Zero) /\ ~HDR_ACTIVE(Zero), n - b - PagesPerSector,
               HDR_ACTIVE(Zero))
    BY <2>6, <2>7, <2>8, <1>1, <1>3, <1>4, StatusAt
  <2>10. n - b - PagesPerSector = 0
    BY <2>6
  <2> QED
    BY <2>2, <2>7, <2>9, <2>10 DEF Status, Erase, s, fl1
<1> QED
  BY <1>1, <1>6, <1>7 DEF c, s, fl1

LEMMA SweepStep ==
  ASSUME NEW o \in Ops, Layout(o.fl), "gc" \notin CrashIn,
         NEW g, NEW sector \in 0..(Sectors - 1), NEW b,
         b = sector * PagesPerSector, Sweeping(o, g, b)
  PROVE  Sweeping(o, CollectSector(g, sector), b + PagesPerSector)
<1> USE Sizes
<1> DEFINE s == get_sector_status(g.o.fl, sector, g.skip, g.last)
           c == b + PagesPerSector
           fl == o.fl
           z == CollectSector(g, sector)
           next == g.o.ram.next_free
<1>1. /\ b \in Pages /\ Aligned(b) /\ Aligned(c) /\ c \in Nat /\ c <= PageCount
      /\ \A p \in Extents(fl) : p <= b /\ b < EndOf(fl, p) =>
           /\ c <= EndOf(fl, p)
           /\ Status(s, fl[p].h.obs, EndOf(fl, p) - c, ~fl[p].h.obs)
      /\ (\A p \in Extents(fl) : ~(p <= b /\ b < EndOf(fl, p))) =>
           Status(s, FALSE, 0, FALSE)
  BY SectorStatus
<1>2. z = CollectIf(g, sector, s)
  BY DEF CollectSector
<1>3. \A p \in Extents(fl) : /\ p \in Pages /\ Aligned(p) /\ p \in Nat
                             /\ EndOf(fl, p) \in Nat /\ p < EndOf(fl, p)
                             /\ EndOf(fl, p) <= PageCount /\ fl[p].h.obs \in BOOLEAN
  <2> TAKE p \in Extents(fl)
  <2>1. p \in Pages /\ p \in Nat /\ Aligned(p) /\ fl[p].h.max > 0
        /\ EndOf(fl, p) <= PageCount
    BY DEF Layout, Extents
  <2>2. fl[p].h.max \in Nat
    BY <2>1, FlashFacts DEF Layout
  <2>3. fl[p].h.obs \in BOOLEAN
    BY <2>1, FlashFacts DEF Layout
  <2>4. EndOf(fl, p) \in Nat /\ p < EndOf(fl, p)
    BY <2>1, <2>2, SMTT(60) DEF EndOf
  <2> QED
    BY <2>1, <2>3, <2>4
<1>4. /\ g.o \in Ops /\ g.o.fl = Swept(fl, b) /\ g.o.past = o.past
      /\ g.o.used = o.used /\ g.o.file = o.file
      /\ g.o.ram.gc_wait = o.ram.gc_wait /\ g.o.ram.files = o.ram.files
      /\ g.o.ram.next_free <= o.ram.next_free
      /\ g.o.ram.next_free \in {o.ram.next_free} \cup Extents(fl)
      /\ \A p \in Extents(fl) : fl[p].h.obs /\ p < b => g.o.ram.next_free <= p
      /\ g.o.ram.next_free \in Nat /\ o.ram.next_free \in Nat
  BY OpFields DEF Sweeping
<1>5. sector \in Nat /\ b \in Nat /\ b < c
  BY <1>1
<1> HIDE DEF s, c
<1>0. ASSUME s.isolate = 0
      PROVE  /\ z.skip = s.skip /\ z.last = s.last
             /\ ~Erase(s) => z.o = g.o
             /\ Erase(s) => /\ z.o \in Ops /\ z.o.fl = Erased(g.o.fl, sector)
                            /\ z.o.past = g.o.past /\ z.o.used = g.o.used
                            /\ z.o.file = g.o.file
                            /\ z.o.ram.gc_wait = g.o.ram.gc_wait
                            /\ z.o.ram.files = g.o.ram.files
                            /\ z.o.ram.next_free = IF b < next THEN b ELSE next
  <2>1. z.skip = s.skip /\ z.last = s.last /\ (~Erase(s) => z.o = g.o)
    BY <1>2 DEF CollectIf, Erase
  <2>2. ASSUME Erase(s)
        PROVE  /\ z.o \in Ops /\ z.o.fl = Erased(g.o.fl, sector)
               /\ z.o.past = g.o.past /\ z.o.used = g.o.used
               /\ z.o.file = g.o.file
               /\ z.o.ram.gc_wait = g.o.ram.gc_wait
               /\ z.o.ram.files = g.o.ram.files
               /\ z.o.ram.next_free = IF sector * PagesPerSector < next
                                      THEN sector * PagesPerSector ELSE next
    BY <1>0, <1>2, <1>4, <1>5, <2>2, Collects
  <2> QED
    BY <2>1, <2>2
<1>6. CASE \E p \in Extents(fl) : p <= b /\ b < EndOf(fl, p)
  <2>1. PICK p \in Extents(fl) : p <= b /\ b < EndOf(fl, p)
    BY <1>6
  <2> DEFINE obs == fl[p].h.obs
             end == EndOf(fl, p)
  <2>2. /\ c <= end /\ obs \in BOOLEAN /\ s.isolate = 0 /\ s.skip = end - c
        /\ (Erase(s) <=> obs) /\ s.last \in BOOLEAN /\ (s.last <=> ~obs)
    BY <2>1, <1>1, <1>3 DEF Status
  <2>3. \A x \in Pages : b <= x /\ x < c => (Doomed(fl, x) <=> obs)
    <3> TAKE x \in Pages
    <3> SUFFICES ASSUME b <= x, x < c PROVE Doomed(fl, x) <=> obs
      OBVIOUS
    <3>1. p <= x /\ x < end
      BY <2>1, <2>2, <1>3, <1>5, <1>1
    <3>2. \A q \in Extents(fl) : q <= x /\ x < EndOf(fl, q) => q = p
      BY <3>1, Apart
    <3> QED
      BY <3>1, <3>2 DEF Doomed
  <2>4. \A q \in Extents(fl) : q < c => q < b \/ q = p
    <3> SUFFICES ASSUME NEW q \in Extents(fl), q < c, ~(q < b) PROVE q = p
      OBVIOUS
    <3>1. p <= q /\ q < end /\ q <= q /\ q < EndOf(fl, q)
      BY <2>1, <2>2, <1>1, <1>3, <1>5
    <3> QED
      BY <3>1, <1>3, Apart
  <2>5. \A q \in Extents(fl) : Within(fl, c, q) => q = p
    <3> SUFFICES ASSUME NEW q \in Extents(fl), Within(fl, c, q), q # p PROVE FALSE
      OBVIOUS
    <3>1. q < c /\ c < EndOf(fl, q)
      BY DEF Within
    <3>2. CASE c < end
      <4>1. c \in Pages /\ p <= c /\ q <= c
        BY <2>1, <3>1, <3>2, <1>1, <1>3, <1>5
      <4> QED
        BY <4>1, <3>1, <3>2, Apart
    <3>3. CASE c = end
      <4>1. (p < q => end <= q) /\ (q < p => EndOf(fl, q) <= p)
        BY DEF Layout
      <4> QED
        BY <4>1, <2>1, <3>1, <3>3, <1>1, <1>3, <1>5
    <3> QED
      BY <2>2, <3>2, <3>3, <1>1, <1>3
  <2>6. (\A q \in Extents(fl) : ~Within(fl, c, q)) => end - c = 0
    <3> SUFFICES ASSUME \A q \in Extents(fl) : ~Within(fl, c, q) PROVE end = c
      BY <2>2, <1>1, <1>3
    <3>1. ~(p < c /\ c < end)
      BY DEF Within
    <3> QED
      BY <2>1, <2>2, <3>1, <1>1, <1>3, <1>5
  <2>7. end - c \in Nat
    BY <2>2, <1>1, <1>3
  <2>8. /\ z.skip = end - c /\ z.last \in BOOLEAN /\ (z.last <=> ~obs)
        /\ ~obs => z.o = g.o
        /\ obs => /\ z.o \in Ops /\ z.o.fl = Erased(g.o.fl, sector)
                  /\ z.o.past = g.o.past /\ z.o.used = g.o.used
                  /\ z.o.file = g.o.file
                  /\ z.o.ram.gc_wait = g.o.ram.gc_wait
                  /\ z.o.ram.files = g.o.ram.files
                  /\ z.o.ram.next_free = IF b < next THEN b ELSE next
    <3> HIDE DEF obs, end
    <3> HIDE DEF z, next
    <3> QED
      BY <1>0, <2>2
  <2>9. z.o.fl = Swept(fl, c)
    BY <2>3, <2>8, <1>4, <1>5, SweptFacts DEF c
  <2>10. z.o \in Ops /\ z.o.past = o.past /\ z.o.used = o.used /\ z.o.file = o.file
         /\ z.o.ram.gc_wait = o.ram.gc_wait /\ z.o.ram.files = o.ram.files
    BY <2>2, <2>8, <1>4
  <2> DEFINE nx == z.o.ram.next_free
  <2>11. nx \in {next} \cup {p} /\ nx <= next /\ nx \in Nat /\ (obs => nx <= p)
    <3>1. CASE ~obs
      BY <3>1, <2>8, <1>4
    <3>2. CASE obs /\ p = b
      BY <3>2, <2>8, <1>4, <1>5
    <3>3. CASE obs /\ p < b
      <4>1. next <= p
        BY <3>3, <1>4
      <4>2. ~(b < next)
        BY <4>1, <3>3, <1>3, <1>4, <1>5, SMTT(60)
      <4> QED
        BY <3>3, <4>1, <4>2, <2>8, <1>4
    <3> QED
      BY <3>1, <3>2, <3>3, <2>1, <2>2, <1>3, <1>5
  <2> HIDE DEF nx
  <2>12. nx <= o.ram.next_free /\ nx \in {o.ram.next_free} \cup Extents(fl)
    BY <2>1, <2>11, <1>4
  <2>13. \A q \in Extents(fl) : fl[q].h.obs /\ q < c => nx <= q
    <3> TAKE q \in Extents(fl)
    <3> SUFFICES ASSUME fl[q].h.obs, q < c PROVE nx <= q
      OBVIOUS
    <3>1. CASE q < b
      <4>1. next <= q
        BY <3>1, <1>4
      <4> QED
        BY <4>1, <2>11, <1>3, <1>4
    <3>2. CASE q = p
      BY <3>2, <2>11
    <3> QED
      BY <2>4, <3>1, <3>2
  <2>14. \A q \in Extents(fl) : Within(fl, c, q) =>
           z.skip = EndOf(fl, q) - c /\ (z.last <=> ~fl[q].h.obs)
    BY <2>5, <2>8
  <2>15. (\A q \in Extents(fl) : ~Within(fl, c, q)) => z.skip = 0
    BY <2>6, <2>8
  <2>16. z.skip \in Nat /\ z.last \in BOOLEAN
    BY <2>2, <2>7, <2>8
  <2> QED
    BY <2>9, <2>10, <2>12, <2>13, <2>14, <2>15, <2>16 DEF Sweeping, c, nx
<1>7. CASE \A p \in Extents(fl) : ~(p <= b /\ b < EndOf(fl, p))
  <2>1. Status(s, FALSE, 0, FALSE)
    BY <1>1, <1>7
  <2>2. z.skip = 0 /\ z.last \in BOOLEAN /\ z.o = g.o
    <3>1. s.isolate = 0 /\ s.skip = 0 /\ s.last \in BOOLEAN /\ ~Erase(s)
      BY <2>1 DEF Status
    <3> QED
      BY <3>1, <1>0
  <2>3. \A q \in Extents(fl) : q < b \/ c <= q
    <3> TAKE q \in Extents(fl)
    <3>1. CASE b < q
      BY <3>1, <1>1, <1>3, AlignedFacts DEF c
    <3>2. CASE q = b
      BY <3>2, <1>3, <1>5, <1>7
    <3> QED
      BY <3>1, <3>2, <1>3, <1>5
  <2>4. \A q \in Extents(fl) : q < b => EndOf(fl, q) <= b
    BY <1>3, <1>5, <1>7
  <2>5. \A x \in Pages : b <= x /\ x < c => ~Doomed(fl, x)
    <3> SUFFICES ASSUME NEW x \in Pages, b <= x, x < c,
                        NEW q \in Extents(fl), q <= x, x < EndOf(fl, q)
                 PROVE  FALSE
      BY DEF Doomed
    <3>1. CASE q < b
      BY <3>1, <2>4, <1>3, <1>5
    <3>2. CASE c <= q
      BY <3>2, <1>1, <1>3
    <3> QED
      BY <2>3, <3>1, <3>2
  <2>6. z.o.fl = Swept(fl, c)
    BY <2>2, <2>5, <1>4, <1>5, SweptFacts DEF c
  <2>7. \A q \in Extents(fl) : ~Within(fl, c, q)
    <3> SUFFICES ASSUME NEW q \in Extents(fl), q < c, c < EndOf(fl, q) PROVE FALSE
      BY DEF Within
    <3> QED
      BY <2>3, <2>4, <1>1, <1>3, <1>5
  <2>8. \A q \in Extents(fl) : fl[q].h.obs /\ q < c => z.o.ram.next_free <= q
    <3> TAKE q \in Extents(fl)
    <3>1. q < c => q < b
      BY <2>3, <1>1, <1>3
    <3> QED
      BY <3>1, <2>2, <1>4
  <2>9. z.skip \in Nat /\ z.last \in BOOLEAN
    BY <2>2
  <2> HIDE DEF z
  <2> QED
    BY <2>2, <2>6, <2>7, <2>8, <2>9, <1>4 DEF Sweeping, c, z
<1> QED
  BY <1>6, <1>7

\* The recursion of collect_garbage has a solution, from the first sector on.
LEMMA SweepExists ==
  ASSUME NEW g0
  PROVE  \E f : f = [s \in 0..Sectors |->
                       IF s = 0 THEN g0 ELSE CollectSector(f[s - 1], s - 1)]
<1> USE Sizes
<1> DEFINE Solves(f, k) == f = [s \in 0..k |->
                             IF s = 0 THEN g0 ELSE CollectSector(f[s - 1], s - 1)]
           S == {k \in Nat : \E f : Solves(f, k)}
<1>1. 0 \in S
  <2> DEFINE f == [s \in 0..0 |-> g0]
  <2>1. Solves(f, 0)
    OBVIOUS
  <2> QED
    BY <2>1
<1>2. ASSUME NEW k \in Nat, k \in S
      PROVE  k + 1 \in S
  <2>1. PICK f : Solves(f, k)
    BY <1>2
  <2> DEFINE g == [s \in 0..(k + 1) |-> IF s = k + 1 THEN CollectSector(f[k], k) ELSE f[s]]
  <2>2. \A s \in 0..k : s \in 0..(k + 1) /\ s # k + 1 /\ g[s] = f[s]
    OBVIOUS
  <2>3. \A s \in 0..(k + 1) : (s = k + 1 \/ s \in 0..k) /\ (s # 0 => s - 1 \in 0..k)
    OBVIOUS
  <2>4. g[k + 1] = CollectSector(f[k], k) /\ (k + 1) - 1 = k /\ k + 1 # 0 /\ k \in 0..k
    OBVIOUS
  <2>5. \A s \in 0..k : f[s] = IF s = 0 THEN g0 ELSE CollectSector(f[s - 1], s - 1)
    BY <2>1
  <2>6. \A s \in 0..(k + 1) : g[s] = IF s = 0 THEN g0 ELSE CollectSector(g[s - 1], s - 1)
    <3> TAKE s \in 0..(k + 1)
    <3> HIDE DEF g
    <3>1. CASE s = k + 1
      BY <3>1, <2>2, <2>4
    <3>2. CASE s \in 0..k
      BY <3>2, <2>2, <2>3, <2>5
    <3> QED
      BY <2>3, <3>1, <3>2
  <2>7. Solves(g, k + 1)
    BY <2>6
  <2> HIDE DEF g, Solves
  <2> QED
    BY <2>7
<1> HIDE DEF S
<1>3. Sectors \in S
  BY <1>1, <1>2, Induct
<1> QED
  BY <1>3 DEF S

\* collect_garbage erases the obsolete extents, in the end all of them, and takes
\* next_free back to the first of them.
Collected(o, z) ==
  /\ z \in Ops /\ z.fl = Swept(o.fl, PageCount) /\ z.past = o.past
  /\ z.used = o.used /\ z.file = o.file
  /\ z.ram.gc_wait = o.ram.gc_wait /\ z.ram.files = o.ram.files
  /\ z.ram.next_free <= o.ram.next_free
  /\ z.ram.next_free \in {o.ram.next_free} \cup Extents(o.fl)
  /\ \A p \in Extents(o.fl) : o.fl[p].h.obs => z.ram.next_free <= p

LEMMA CollectGarbage ==
  ASSUME NEW o \in Ops, Layout(o.fl), "gc" \notin CrashIn
  PROVE  Collected(o, collect_garbage(o))
<1> USE Sizes
<1> DEFINE g0 == [o |-> o, skip |-> 0, last |-> FALSE]
           Solves(f) == f = [s \in 0..Sectors |->
                          IF s = 0 THEN g0 ELSE CollectSector(f[s - 1], s - 1)]
           after == CHOOSE f : Solves(f)
<1>1. Solves(after)
  <2>1. \E f : Solves(f)
    <3> HIDE DEF g0
    <3> QED
      BY SweepExists
  <2> HIDE DEF Solves
  <2> QED
    BY <2>1
<1>2. collect_garbage(o) = after[Sectors].o
  BY Zenon DEF collect_garbage
<1> HIDE DEF after
<1>3. after[0] = g0
      /\ \A s \in 0..(Sectors - 1) : after[s + 1] = CollectSector(after[s], s)
  <2>1. \A s \in 0..Sectors : after[s] =
               IF s = 0 THEN g0 ELSE CollectSector(after[s - 1], s - 1)
    BY <1>1
  <2>2. \A s \in 0..(Sectors - 1) : s + 1 \in 0..Sectors /\ s + 1 # 0 /\ (s + 1) - 1 = s
    OBVIOUS
  <2>3. 0 \in 0..Sectors
    OBVIOUS
  <2> HIDE DEF g0
  <2> QED
    BY <2>1, <2>2, <2>3
<1>4. Sweeping(o, g0, 0)
  <2>1. Swept(o.fl, 0) = o.fl
    <3>1. \A x \in Pages : ~(x < 0)
      OBVIOUS
    <3> QED
      BY <3>1, OpFields DEF Swept, Flashes
  <2>2. g0.o = o /\ g0.skip = 0 /\ g0.last \in BOOLEAN /\ o.ram.next_free \in Nat
    BY OpFields
  <2>3. \A p \in Extents(o.fl) : ~(p < 0) /\ ~Within(o.fl, 0, p)
    BY DEF Extents, Within
  <2> HIDE DEF g0
  <2> QED
    BY <2>1, <2>2, <2>3 DEF Sweeping
<1> DEFINE S == {k \in Nat : k <= Sectors => Sweeping(o, after[k], k * PagesPerSector)}
<1>5. 0 \in S
  <2>1. 0 * PagesPerSector = 0
    OBVIOUS
  <2> QED
    BY <2>1, <1>3, <1>4
<1>6. ASSUME NEW k \in Nat, k \in S
      PROVE  k + 1 \in S
  <2> SUFFICES ASSUME k + 1 <= Sectors
               PROVE  Sweeping(o, after[k + 1], (k + 1) * PagesPerSector)
    OBVIOUS
  <2>1. k \in 0..(Sectors - 1) /\ Sweeping(o, after[k], k * PagesPerSector)
    BY <1>6
  <2>2. Sweeping(o, CollectSector(after[k], k), k * PagesPerSector + PagesPerSector)
    BY <2>1, SweepStep
  <2>3. k * PagesPerSector + PagesPerSector = (k + 1) * PagesPerSector
    OBVIOUS
  <2> QED
    BY <2>1, <2>2, <2>3, <1>3
<1> HIDE DEF S
<1>7. Sectors \in S
  BY <1>5, <1>6, Induct
<1>8. Sweeping(o, after[Sectors], PageCount)
  BY <1>7 DEF S, PageCount
<1>9. \A p \in Extents(o.fl) : p < PageCount
  BY DEF Extents
<1> QED
  BY <1>2, <1>8, <1>9 DEF Sweeping, Collected

LEMMA SweptExtents ==
  ASSUME NEW fl, Layout(fl), NEW fl2, fl2 = Swept(fl, PageCount)
  PROVE  /\ fl2 \in Flashes
         /\ \A x \in Pages : fl2[x] = IF Doomed(fl, x) THEN Blank ELSE fl[x]
         /\ \A p \in Extents(fl), x \in Pages :
              p <= x /\ x < EndOf(fl, p) => (Doomed(fl, x) <=> fl[p].h.obs)
         /\ \A p \in Extents(fl) : Doomed(fl, p) <=> fl[p].h.obs
         /\ \A p : p \in Extents(fl2) <=> p \in Extents(fl) /\ ~fl[p].h.obs
         /\ \A p \in Extents(fl2) : fl2[p] = fl[p] /\ EndOf(fl2, p) = EndOf(fl, p)
<1> USE Sizes
<1>1. \A x \in Pages : x < PageCount
  OBVIOUS
<1>2. fl2 \in Flashes
  BY SweptFlash
<1>3. \A x \in Pages : fl2[x] = IF Doomed(fl, x) THEN Blank ELSE fl[x]
  BY <1>1 DEF Swept
<1>4. \A p \in Extents(fl), x \in Pages :
              p <= x /\ x < EndOf(fl, p) => (Doomed(fl, x) <=> fl[p].h.obs)
  BY Apart DEF Doomed
<1>5. \A p \in Extents(fl) : p \in Pages /\ p <= p /\ p < EndOf(fl, p)
  <2> TAKE p \in Extents(fl)
  <2>1. p \in Pages /\ fl[p].h.max > 0 /\ fl[p].h.max \in Nat
    BY AlignedFacts DEF Extents, Layout
  <2> QED
    BY <2>1 DEF EndOf
<1>6. \A p \in Extents(fl) : Doomed(fl, p) <=> fl[p].h.obs
  BY <1>4, <1>5
<1>7. Blank.h = Zero
  BY DEF Blank
<1>8. \A p : p \in Extents(fl2) <=> p \in Extents(fl) /\ ~fl[p].h.obs
  BY <1>3, <1>6, <1>7 DEF Extents
<1>9. \A p \in Extents(fl2) : fl2[p] = fl[p] /\ EndOf(fl2, p) = EndOf(fl, p)
  BY <1>3, <1>5, <1>6, <1>8 DEF EndOf
<1> QED
  BY <1>2, <1>3, <1>4, <1>6, <1>8, <1>9

LEMMA SweptOK ==
  ASSUME NEW fl, FlashOK(fl), NEW fl2, fl2 = Swept(fl, PageCount)
  PROVE  /\ FlashOK(fl2) /\ KeptBut(fl, fl2, {})
         /\ Modified(fl2) = Modified(fl) /\ FilesOf(fl2) = FilesOf(fl)
<1>1. /\ fl2 \in Flashes
      /\ \A x \in Pages : fl2[x] = IF Doomed(fl, x) THEN Blank ELSE fl[x]
      /\ \A p \in Extents(fl), x \in Pages :
           p <= x /\ x < EndOf(fl, p) => (Doomed(fl, x) <=> fl[p].h.obs)
      /\ \A p \in Extents(fl) : Doomed(fl, p) <=> fl[p].h.obs
      /\ \A p : p \in Extents(fl2) <=> p \in Extents(fl) /\ ~fl[p].h.obs
      /\ \A p \in Extents(fl2) : fl2[p] = fl[p] /\ EndOf(fl2, p) = EndOf(fl, p)
  BY SweptExtents DEF FlashOK
<1>2. Layout(fl2)
  <2>1. ASSUME NEW q \in Pages, fl2[q].d # Nil
        PROVE  \E p \in Extents(fl2) : p <= q /\ q < EndOf(fl2, p)
    <3>1. ~Doomed(fl, q) /\ fl[q].d # Nil
      BY <2>1, <1>1 DEF Blank
    <3>2. PICK p \in Extents(fl) : p <= q /\ q < EndOf(fl, p)
      BY <3>1 DEF FlashOK, Layout
    <3>3. p \in Extents(fl2)
      BY <3>1, <3>2, <1>1
    <3> QED
      BY <3>2, <3>3, <1>1
  <2>2. ASSUME NEW p \in Extents(fl2)
        PROVE  /\ Aligned(p) /\ Aligned(fl2[p].h.max) /\ fl2[p].h.max > 0 /\ ~fl2[p].h.iso
               /\ EndOf(fl2, p) <= PageCount
    BY <1>1 DEF FlashOK, Layout
  <2>3. \A p, q \in Extents(fl2) : p < q => EndOf(fl2, p) <= q
    BY <1>1 DEF FlashOK, Layout
  <2> QED
    BY <2>1, <2>2, <2>3, <1>1 DEF Layout
<1>3. \A p \in Pages : HDR_ACTIVE(fl[p].h) => p \in Extents(fl2) /\ p \in Extents(fl)
                                              /\ ~fl[p].h.obs
  BY <1>1 DEF HDR_ACTIVE, Extents
<1>4. \A p \in Pages : HDR_ACTIVE(fl2[p].h) => p \in Extents(fl2)
  BY DEF HDR_ACTIVE, Extents
<1>5. KeptBut(fl, fl2, {})
  <2> SUFFICES ASSUME NEW p \in Pages, HDR_ACTIVE(fl[p].h)
               PROVE  Kept(fl, fl2, p)
    BY DEF KeptBut
  <2>1. \A x \in Pages : p <= x /\ x < EndOf(fl, p) => fl2[x] = fl[x]
    BY <1>1, <1>3
  <2> QED
    BY <2>1, <1>1, <1>3 DEF Kept
<1>6. \A p \in Pages : /\ HDR_ACTIVE(fl2[p].h) <=> HDR_ACTIVE(fl[p].h)
                       /\ HDR_ACTIVE(fl[p].h) => fl2[p] = fl[p]
  BY <1>1, <1>3, <1>4
<1>7. Modified(fl2) = Modified(fl)
  BY <1>6 DEF Modified
<1>8. FilesOf(fl2) = FilesOf(fl)
  BY <1>6 DEF FilesOf
<1>9. Logs(fl2)
  <2> SUFFICES ASSUME NEW p \in Modified(fl)
               PROVE  fl2[p].h = fl[p].h /\ Kept(fl, fl2, fl[p].h.lp)
    BY <1>7, LogsFrame
  <2>1. IsLog(fl, fl[p].h.lp)
    BY DEF FlashOK, Logs
  <2> QED
    BY <2>1, <1>5, <1>6 DEF KeptBut, IsLog, Modified
<1> QED
  BY <1>2, <1>5, <1>7, <1>8, <1>9 DEF FlashOK

LEMMA SweptFree ==
  ASSUME NEW fl, FlashOK(fl), NEW fl2, fl2 = Swept(fl, PageCount),
         NEW next \in Nat, FreeOK(fl, next),
         NEW next2, next2 <= next, next2 \in {next} \cup Extents(fl),
         \A p \in Extents(fl) : fl[p].h.obs => next2 <= p
  PROVE  FreeOK(fl2, next2)
<1> USE Sizes
<1>1. /\ \A x \in Pages : fl2[x] = IF Doomed(fl, x) THEN Blank ELSE fl[x]
      /\ \A p \in Extents(fl) : Doomed(fl, p) <=> fl[p].h.obs
      /\ \A p : p \in Extents(fl2) <=> p \in Extents(fl) /\ ~fl[p].h.obs
      /\ \A p \in Extents(fl2) : fl2[p] = fl[p] /\ EndOf(fl2, p) = EndOf(fl, p)
  BY SweptExtents DEF FlashOK
<1>2. Stops(fl) \subseteq Stops(fl2)
  BY <1>1 DEF Stops
<1>3. Extents(fl) \subseteq Stops(fl2)
  BY <1>2, ExtentStops DEF FlashOK
<1>4. next2 \in Stops(fl2) \cup {PageCount}
  BY <1>2, <1>3 DEF FreeOK
<1>5. next2 \in Nat /\ \A q \in Stops(fl2) : q \in Nat /\ q \in Pages
  BY DEF Extents, Stops
<1>6. ASSUME NEW q \in Stops(fl2), fl2[q].h = Zero
      PROVE  next2 <= q
  <2>1. CASE q \in Stops(fl) /\ fl[q].h = Zero
    <3>1. next <= q
      BY <2>1 DEF FreeOK
    <3> QED
      BY <3>1, <1>5
  <2>2. CASE fl[q].h # Zero
    <3>1. q \in Extents(fl) /\ q \notin Extents(fl2)
      BY <2>2, <1>5, <1>6 DEF Extents
    <3> QED
      BY <3>1, <1>1
  <2>3. CASE q \notin Stops(fl)
    <3>1. PICK p \in Extents(fl) : p < q /\ q < EndOf(fl, p)
      BY <2>3, <1>5 DEF Stops
    <3>2. p \notin Extents(fl2)
      BY <3>1, <1>1 DEF Stops
    <3>3. next2 <= p /\ p \in Nat
      BY <3>2, <1>1 DEF Extents
    <3> QED
      BY <3>1, <3>3, <1>5
  <2> QED
    BY <2>1, <2>2, <2>3
<1> QED
  BY <1>4, <1>6 DEF FreeOK

\* After a collection the operation is as before, and no extent is obsolete.
LEMMA CollectedOK ==
  ASSUME NEW o, OpOK(o, {}), NEW z, Collected(o, z)
  PROVE  /\ OpOK(z, {}) /\ \A p \in Extents(z.fl) : ~z.fl[p].h.obs
         /\ KeptBut(o.fl, z.fl, {})
         /\ Modified(z.fl) = Modified(o.fl) /\ FilesOf(z.fl) = FilesOf(o.fl)
<1>1. o \in Ops /\ FlashOK(o.fl) /\ CacheOK(o.fl, o.ram.files, {})
      /\ FreeOK(o.fl, o.ram.next_free) /\ GcOK(o.fl, o.ram.gc_wait)
      /\ \A f \in o.past : FlashOK(f)
  BY DEF OpOK
<1>2. /\ z \in Ops /\ z.fl = Swept(o.fl, PageCount) /\ z.past = o.past
      /\ z.ram.files = o.ram.files
  BY DEF Collected
<1>3. /\ FlashOK(z.fl) /\ KeptBut(o.fl, z.fl, {})
      /\ Modified(z.fl) = Modified(o.fl) /\ FilesOf(z.fl) = FilesOf(o.fl)
  BY <1>1, <1>2, SweptOK
<1>4. FreeOK(z.fl, z.ram.next_free)
  <2>1. o.ram.next_free \in Nat
    BY <1>1, OpFields
  <2> QED
    BY <2>1, <1>1, <1>2, SweptFree DEF Collected
<1>5. \A p \in Extents(z.fl) : ~z.fl[p].h.obs
  BY <1>1, <1>2, SweptExtents DEF FlashOK
<1>6. GcOK(z.fl, z.ram.gc_wait)
  BY <1>5 DEF GcOK
<1>7. CacheOK(z.fl, z.ram.files, {})
  BY <1>1, <1>2, <1>3, CacheKept, OpFields
<1> QED
  BY <1>1, <1>2, <1>3, <1>4, <1>5, <1>6, <1>7 DEF OpOK

\* A collection without obsolete extents changes nothing.
LEMMA NothingDoomed ==
  ASSUME NEW fl \in Flashes, \A p \in Extents(fl) : ~fl[p].h.obs
  PROVE  Swept(fl, PageCount) = fl
<1>1. \A x \in Pages : ~Doomed(fl, x)
  BY DEF Doomed
<1> QED
  BY <1>1 DEF Swept, Flashes

LEMMA KeptTwice ==
  ASSUME NEW fl, NEW fl2, NEW fl3, NEW R, KeptBut(fl, fl2, R), KeptBut(fl2, fl3, R)
  PROVE  KeptBut(fl, fl3, R)
<1> SUFFICES ASSUME NEW p \in Pages, HDR_ACTIVE(fl[p].h), p \notin R
             PROVE  Kept(fl, fl3, p)
  BY DEF KeptBut
<1>1. Kept(fl, fl2, p)
  BY DEF KeptBut
<1>2. fl2[p].h = fl[p].h /\ HDR_ACTIVE(fl2[p].h) /\ EndOf(fl2, p) = EndOf(fl, p)
  BY <1>1 DEF Kept, EndOf
<1>3. Kept(fl2, fl3, p)
  BY <1>2 DEF KeptBut
<1> QED
  BY <1>1, <1>2, <1>3 DEF Kept

\* z is o after a reservation that has failed: nothing has changed but what is
\* not active.
Unmade(o, z) ==
  /\ OpOK(z, {}) /\ z.file = 0 /\ z.used = o.used /\ z.past = o.past
  /\ z.ram.files = o.ram.files /\ KeptBut(o.fl, z.fl, {})
  /\ Modified(z.fl) = Modified(o.fl) /\ FilesOf(z.fl) = FilesOf(o.fl)

LEMMA SelfKept ==
  ASSUME NEW fl, NEW R
  PROVE  KeptBut(fl, fl, R)
BY DEF KeptBut, Kept

LEMMA ReserveAgainMade ==
  ASSUME NEW o, OpOK(o, {}), UsedOK(o), NEW h, NewHeader(h), NEW kind,
         \A p \in Extents(o.fl) : ~o.fl[p].h.obs
  PROVE  LET z == ReserveAgain(o, h, kind)
         IN  (z.file # 0 => Made(o, z, h, kind)) /\ (z.file = 0 => Unmade(o, z))
<1> DEFINE p == find_contiguous_pages(o, h.max)
           z == ReserveAgain(o, h, kind)
<1>0. h.max \in Nat /\ o \in Ops /\ Layout(o.fl) /\ FreeOK(o.fl, o.ram.next_free)
  BY AlignedFacts DEF NewHeader, OpOK, FlashOK
<1>1. CASE p # INVALID
  <2>1. Room(o.fl, p, h.max)
    BY <1>0, <1>1, FindRoom
  <2>2. z = Reserved(o, p, h, kind)
    BY <1>1 DEF ReserveAgain
  <2> HIDE DEF p, z
  <2>3. Made(o, z, h, kind)
    BY <2>1, <2>2, ReservedMade, SMTT(60)
  <2>4. z.file # 0
    <3>1. z.file \in 1..Slots
      BY <2>3, ZenonT(60) DEF Made
    <3> QED
      BY ONLY <3>1
  <2> QED
    BY <2>3, <2>4 DEF z
<1>2. CASE p = INVALID
  <2> DEFINE w == TRUE
             y == WithWait(o, w)
  <2>1. z = WithFile(y, 0)
    BY <1>2 DEF ReserveAgain, WithFile, WithWait
  <2>2. w \in BOOLEAN
    OBVIOUS
  <2> HIDE DEF w, z
  <2>3. /\ y \in Ops /\ y.fl = o.fl /\ y.past = o.past /\ y.used = o.used
        /\ y.ram.next_free = o.ram.next_free /\ y.ram.files = o.ram.files
    BY <2>2, <1>0, WithWaitOp
  <2> HIDE DEF y
  <2>4. /\ z \in Ops /\ z.fl = o.fl /\ z.past = o.past /\ z.used = o.used
        /\ z.ram.next_free = o.ram.next_free /\ z.ram.files = o.ram.files
        /\ z.file = 0
    BY <2>1, <2>3, Sizes, WithFileOp
  <2>5. GcOK(z.fl, z.ram.gc_wait)
    BY <2>4 DEF GcOK
  <2>6. OpOK(z, {})
    BY <2>4, <2>5 DEF OpOK
  <2> QED
    BY <2>4, <2>6, SelfKept DEF Unmade, z
<1> QED
  BY <1>1, <1>2

\* reserve: an extent, or nothing.
LEMMA ReserveMade ==
  ASSUME NEW o, OpOK(o, {}), UsedOK(o), NEW h, NewHeader(h), NEW kind,
         "gc" \notin CrashIn
  PROVE  LET z == reserve(o, h, kind)
         IN  (z.file # 0 => Made(o, z, h, kind)) /\ (z.file = 0 => Unmade(o, z))
<1> DEFINE p == find_contiguous_pages(o, h.max)
           z == reserve(o, h, kind)
<1>0. h.max \in Nat /\ o \in Ops /\ Layout(o.fl) /\ FreeOK(o.fl, o.ram.next_free)
  BY AlignedFacts DEF NewHeader, OpOK, FlashOK
<1>1. CASE p # INVALID
  <2>1. Room(o.fl, p, h.max)
    BY <1>0, <1>1, FindRoom
  <2>2. z = Reserved(o, p, h, kind)
    BY <1>1 DEF reserve
  <2> HIDE DEF p, z
  <2>3. Made(o, z, h, kind)
    BY <2>1, <2>2, ReservedMade, SMTT(60)
  <2>4. z.file # 0
    <3>1. z.file \in 1..Slots
      BY <2>3, ZenonT(60) DEF Made
    <3> QED
      BY ONLY <3>1
  <2> QED
    BY <2>3, <2>4 DEF z
<1>2. CASE p = INVALID /\ o.ram.gc_wait
  <2>1. z = WithFile(o, 0)
    BY <1>2 DEF reserve, WithFile
  <2> HIDE DEF z
  <2>2. /\ z \in Ops /\ z.fl = o.fl /\ z.past = o.past /\ z.used = o.used
        /\ z.ram = o.ram /\ z.file = 0
    BY <2>1, <1>0, Sizes, WithFileOp
  <2>3. OpOK(z, {})
    BY <2>2 DEF OpOK
  <2> QED
    BY <2>2, <2>3, SelfKept DEF Unmade, z
<1>3. CASE p = INVALID /\ ~o.ram.gc_wait
  <2> DEFINE c == collect_garbage(o)
  <2>1. z = ReserveAgain(c, h, kind)
    BY <1>3 DEF reserve
  <2>2. Collected(o, c)
    BY <1>0, CollectGarbage
  <2> HIDE DEF c, z
  <2>3. /\ OpOK(c, {}) /\ \A q \in Extents(c.fl) : ~c.fl[q].h.obs
        /\ KeptBut(o.fl, c.fl, {})
        /\ Modified(c.fl) = Modified(o.fl) /\ FilesOf(c.fl) = FilesOf(o.fl)
    BY <2>2, CollectedOK
  <2>4. c.past = o.past /\ c.used = o.used /\ c.ram.files = o.ram.files
    BY <2>2 DEF Collected
  <2>5. UsedOK(c)
    BY <2>4 DEF UsedOK
  <2>6. (z.file # 0 => Made(c, z, h, kind)) /\ (z.file = 0 => Unmade(c, z))
    BY <2>1, <2>3, <2>5, ReserveAgainMade
  <2>7. z.file = 0 => Unmade(o, z)
    BY <2>3, <2>4, <2>6, KeptTwice, SMTT(60) DEF Unmade
  <2>8. ASSUME z.file # 0 PROVE Made(o, z, h, kind)
    <3> DEFINE e == z.ram.files[z.file]
    <3>1. Made(c, z, h, kind)
      BY <2>6, <2>8, SMTT(60)
    <3>2. KeptBut(o.fl, z.fl, {})
      BY <2>3, <3>1, KeptTwice DEF Made
    <3>3. ~HDR_ACTIVE(o.fl[e.page].h)
      <4>1. e.page \in Pages /\ ~HDR_ACTIVE(c.fl[e.page].h)
        BY <3>1, EntryFacts, ZenonT(60) DEF Made
      <4> HIDE DEF e
      <4> QED
        BY <4>1, <2>3, SMTT(60) DEF KeptBut, Kept
    <3> QED
      BY <3>1, <3>2, <3>3, <2>3, <2>4, ZenonT(60) DEF Made
  <2> QED
    BY <2>7, <2>8 DEF z
<1> QED
  BY <1>1, <1>2, <1>3

-------------------------------------------------------------------------------
(* Finding a file.                                                            *)

\* z is o with file n in its slot, or without one because there is none.
Found(o, z, n) ==
  /\ OpOK(z, {}) /\ z.fl = o.fl /\ z.past = o.past /\ z.used = o.used
  /\ z.file # 0 => /\ z.file \in 1..Slots /\ Entry(z) \in Entries
                   /\ IsFile(z.fl, Entry(z).page, n)
  /\ z.file = 0 => \A p \in Pages : ~IsFile(o.fl, p, n)

LEMMA ScanFacts ==
  ASSUME NEW fl, Layout(fl), NEW n
  PROVE  /\ ScanFor(fl, n) = INVALID => \A p \in Pages : ~IsFile(fl, p, n)
         /\ ScanFor(fl, n) # INVALID =>
              ScanFor(fl, n) \in Pages /\ IsFile(fl, ScanFor(fl, n), n)
<1> DEFINE found == {p \in Walk(fl) : IsFile(fl, p, n)}
<1>1. Walk(fl) = Stops(fl) /\ Stops(fl) \subseteq Pages
  BY WalkIsStops DEF Stops
<1>2. \A p \in Pages : IsFile(fl, p, n) => p \in found
  BY <1>1, ReadActive, ActiveExtent
<1>3. ScanFor(fl, n) = IF found = {} THEN INVALID ELSE LeastOf(found)
  BY DEF ScanFor
<1>4. found \subseteq Pages /\ \A p \in found : IsFile(fl, p, n)
  BY <1>1
<1> HIDE DEF found
<1>5. found # {} => LeastOf(found) \in found
  <2>1. found \subseteq Nat
    BY <1>4, Sizes
  <2> QED
    BY <2>1, LeastOfFacts
<1>6. INVALID \notin Pages
  BY Sizes DEF INVALID
<1> QED
  BY <1>2, <1>3, <1>4, <1>5, <1>6

LEMMA FindFile ==
  ASSUME NEW o, OpOK(o, {}), UsedOK(o), NEW n
  PROVE  Found(o, find_file(o, n), n)
<1> USE Sizes
<1> DEFINE cached == {i \in 1..Slots : /\ o.ram.files[i] # NoEntry
                                       /\ IsFile(o.fl, o.ram.files[i].page, n)}
           p == ScanFor(o.fl, n)
           z == find_file(o, n)
<1>0. o \in Ops /\ FlashOK(o.fl) /\ Layout(o.fl)
  BY DEF OpOK, FlashOK
<1>1. z = IF cached # {} THEN WithFile(o, LeastOf(cached))
          ELSE IF p = INVALID THEN WithFile(o, 0) ELSE load_file(o, p)
  BY DEF find_file, WithFile
<1>2. \A s \in 0..Slots : LET y == WithFile(o, s)
                          IN  /\ OpOK(y, {}) /\ y.fl = o.fl /\ y.past = o.past
                              /\ y.used = o.used /\ y.file = s /\ y.ram = o.ram
  BY <1>0, WithFileOp DEF OpOK
<1> HIDE DEF z, p
<1>3. CASE cached # {}
  <2> DEFINE s == LeastOf(cached)
  <2>1. s \in cached
    <3>1. cached \subseteq Nat
      OBVIOUS
    <3> QED
      BY <1>3, <3>1, LeastOfFacts
  <2>3. z = WithFile(o, s)
    BY <1>1, <1>3
  <2> HIDE DEF s
  <2>2. s \in 0..Slots /\ s \in 1..Slots /\ s # 0 /\ o.ram.files[s] # NoEntry
        /\ IsFile(o.fl, o.ram.files[s].page, n)
    BY <2>1
  <2> HIDE DEF cached
  <2>4. o.ram.files[s] \in Entries
    BY <2>2, <1>0, EntryFacts
  <2> QED
    BY <2>2, <2>3, <2>4, <1>2 DEF Found, Entry, z
<1>4. CASE cached = {} /\ p = INVALID
  <2>1. \A q \in Pages : ~IsFile(o.fl, q, n)
    BY <1>0, <1>4, ScanFacts DEF p
  <2>2. z = WithFile(o, 0) /\ 0 \in 0..Slots
    BY <1>1, <1>4
  <2> HIDE DEF cached
  <2> QED
    BY <2>1, <2>2, <1>2 DEF Found, z
<1>5. CASE cached = {} /\ p # INVALID
  <2>1. p \in Pages /\ IsFile(o.fl, p, n)
    BY <1>0, <1>5, ScanFacts DEF p
  <2>2. HDR_ACTIVE(o.fl[p].h) /\ ~o.fl[p].h.log
    BY <2>1, ReadActive
  <2> DEFINE e == NewEntry(o.fl, p)
  <2>3. e \in Entries /\ e.page = p /\ e.end = -1 /\ e.max = o.fl[p].h.max
        /\ e.mod = o.fl[p].h.mod /\ e.records = -1
    BY <2>1, <1>0, OpFields, FlashFacts DEF NewEntry, Entries
  <2>4. z = load_file(o, p)
    BY <1>1, <1>5
  <2>5. Loaded(o, z, e)
    BY <2>1, <2>2, <2>4, <1>0, LoadFile
  <2>6. Uncached(o, e.page)
    <3>1. \A i \in 1..Slots : o.ram.files[i] # NoEntry =>
             ~IsFile(o.fl, o.ram.files[i].page, n)
      BY <1>5
    <3> HIDE DEF cached, e
    <3> QED
      BY <2>1, <2>3, <3>1 DEF Uncached
  <2> HIDE DEF e, cached
  <2>7. EntryOK(o.fl, e) /\ EndOK(o.fl, e)
    <3>1. e.end \in -1..e.max /\ e.records \in -1..LogRecords /\ ~(e.records >= 0)
          /\ ~(e.end >= 0)
      <4>1. e.max \in Nat
        BY <2>3, EntryFacts
      <4> QED
        BY <2>3, <4>1
    <3> QED
      BY <2>2, <2>3, <3>1 DEF EntryOK, EndOK
  <2>8. OpOK(z, {}) /\ z.ram.files[z.file] = e
    BY <2>3, <2>5, <2>6, <2>7, LoadedCache
  <2>9. z.file \in 1..Slots /\ z.file # 0 /\ z.fl = o.fl /\ z.past = o.past /\ z.used = o.used
    BY <2>5 DEF Loaded, EntryPut
  <2> QED
    BY <2>1, <2>3, <2>8, <2>9 DEF Found, Entry, z
<1> QED
  BY <1>3, <1>4, <1>5

-------------------------------------------------------------------------------
(* Writes to a file and to its log.                                           *)

\* The extents of fl2 are those of fl, and as obsolete as they were.
SameShape(fl, fl2) ==
  \A q \in Pages : /\ (fl2[q].h = Zero) <=> (fl[q].h = Zero)
                   /\ fl2[q].h.max = fl[q].h.max
                   /\ fl2[q].h.obs <=> fl[q].h.obs

LEMMA ShapeFacts ==
  ASSUME NEW fl, NEW fl2, SameShape(fl, fl2)
  PROVE  /\ Extents(fl2) = Extents(fl) /\ Stops(fl2) = Stops(fl)
         /\ \A p \in Pages : EndOf(fl2, p) = EndOf(fl, p)
         /\ \A next : FreeOK(fl, next) => FreeOK(fl2, next)
         /\ \A wait : GcOK(fl, wait) => GcOK(fl2, wait)
<1>1. Extents(fl2) = Extents(fl)
  BY DEF SameShape, Extents
<1>2. \A p \in Pages : EndOf(fl2, p) = EndOf(fl, p)
  BY DEF SameShape, EndOf
<1>3. Extents(fl) \subseteq Pages /\ Stops(fl) \subseteq Pages
  BY DEF Extents, Stops
<1>4. Stops(fl2) = Stops(fl)
  BY <1>1, <1>2, <1>3 DEF Stops
<1>5. \A next : FreeOK(fl, next) => FreeOK(fl2, next)
  BY <1>3, <1>4 DEF FreeOK, SameShape
<1>6. \A wait : GcOK(fl, wait) => GcOK(fl2, wait)
  BY <1>1, <1>3 DEF GcOK, SameShape
<1> QED
  BY <1>1, <1>2, <1>4, <1>5, <1>6

\* Data is written to page x of the extent at page p.
LEMMA DataOK ==
  ASSUME NEW fl, Layout(fl), NEW p \in Pages, HDR_ACTIVE(fl[p].h),
         NEW x \in Pages, p <= x, x < EndOf(fl, p),
         NEW fl2, NEW d, DataPut(fl, fl2, x, d)
  PROVE  /\ Layout(fl2) /\ SameShape(fl, fl2) /\ KeptBut(fl, fl2, {p})
         /\ \A q \in Pages : fl2[q].h = fl[q].h
         /\ Modified(fl2) = Modified(fl) /\ FilesOf(fl2) = FilesOf(fl)
<1>1. fl2 \in Flashes /\ \A q \in Pages : fl2[q].h = fl[q].h
  BY DEF DataPut
<1>2. SameShape(fl, fl2)
  BY <1>1 DEF SameShape
<1>3. Extents(fl2) = Extents(fl) /\ (\A q \in Pages : EndOf(fl2, q) = EndOf(fl, q))
      /\ Extents(fl) \subseteq Pages /\ p \in Extents(fl)
  BY <1>2, ShapeFacts, ActiveExtent DEF Extents
<1>4. \A q \in Pages :
       fl2[q].d # Nil => \E r \in Extents(fl2) : r <= q /\ q < EndOf(fl2, r)
  <2> TAKE q \in Pages
  <2>1. CASE q = x
    BY <2>1, <1>3
  <2>2. CASE q # x
    <3>1. fl2[q] = fl[q]
      BY <2>2 DEF DataPut
    <3> QED
      BY <3>1, <1>3 DEF Layout
  <2> QED
    BY <2>1, <2>2
<1>5. \A r \in Extents(fl2) :
       /\ Aligned(r) /\ Aligned(fl2[r].h.max) /\ fl2[r].h.max > 0 /\ ~fl2[r].h.iso
       /\ EndOf(fl2, r) <= PageCount
  BY <1>1, <1>3 DEF Layout
<1>6. \A r, q \in Extents(fl2) : r < q => EndOf(fl2, r) <= q
  BY <1>3 DEF Layout
<1>7. Layout(fl2)
  BY <1>1, <1>4, <1>5, <1>6 DEF Layout
<1>8. KeptBut(fl, fl2, {p})
  <2> SUFFICES ASSUME NEW q \in Pages, HDR_ACTIVE(fl[q].h), q # p,
                      NEW y \in Pages, q <= y, y < EndOf(fl, q)
               PROVE  fl2[y].d = fl[y].d
    BY <1>1 DEF KeptBut, Kept
  <2>1. q \in Extents(fl)
    BY ActiveExtent
  <2>2. y # x
    BY <2>1, <1>3, Apart
  <2> QED
    BY <2>2 DEF DataPut
<1>9. Modified(fl2) = Modified(fl) /\ FilesOf(fl2) = FilesOf(fl)
  BY <1>1 DEF Modified, FilesOf
<1> QED
  BY <1>1, <1>2, <1>7, <1>8, <1>9

\* Another file is as it was, and so is its log.
SameFile(fl, fl2, q) ==
  Kept(fl, fl2, q) /\ (fl[q].h.mod => Kept(fl, fl2, fl[q].h.lp))

\* Nothing has changed but the file at page p and its log.
OnlyFile(fl, fl2, p) ==
  /\ \A q \in Pages : HDR_ACTIVE(fl[q].h) /\ q # p => fl2[q].h = fl[q].h
  /\ \A q \in FilesOf(fl) : q # p => SameFile(fl, fl2, q)

\* A write to the file at page p or to its log changes nothing else.
LEMMA OwnWrite ==
  ASSUME NEW fl, FlashOK(fl), NEW p \in FilesOf(fl), NEW r,
         r = p \/ (p \in Modified(fl) /\ r = fl[p].h.lp),
         NEW fl2, KeptBut(fl, fl2, {r}), \A q \in Pages : q # p => fl2[q].h = fl[q].h
  PROVE  OnlyFile(fl, fl2, p)
<1> SUFFICES ASSUME NEW q \in FilesOf(fl), q # p
             PROVE  SameFile(fl, fl2, q)
  BY DEF OnlyFile
<1>1. q \in Pages /\ HDR_ACTIVE(fl[q].h) /\ ~fl[q].h.log /\ ~fl[p].h.log
  BY DEF FilesOf
<1>2. p \in Modified(fl) => IsLog(fl, fl[p].h.lp)
  BY DEF FlashOK, Logs
<1>3. Kept(fl, fl2, q)
  BY <1>1, <1>2 DEF KeptBut, IsLog
<1>4. ASSUME fl[q].h.mod PROVE Kept(fl, fl2, fl[q].h.lp)
  <2>1. q \in Modified(fl)
    BY <1>1, <1>4 DEF Modified
  <2>2. IsLog(fl, fl[q].h.lp) /\ (p \in Modified(fl) => fl[q].h.lp # fl[p].h.lp)
    BY <2>1 DEF FlashOK, Logs
  <2>3. fl[q].h.lp # r
    BY <1>1, <2>2 DEF IsLog
  <2> QED
    BY <2>2, <2>3 DEF KeptBut, IsLog
<1> QED
  BY <1>3, <1>4 DEF SameFile

\* fs2 is fs with file object e in slot s.
SlotPut(fs, fs2, s, e) ==
  fs2[s] = e /\ \A i \in 1..Slots : i # s => fs2[i] = fs[i]

\* The file objects after such a write, when the one of the file is e.
LEMMA CacheWritten ==
  ASSUME NEW fl, FlashOK(fl), NEW fl2, NEW fs \in Objects, NEW s \in 1..Slots,
         NEW e \in Entries, NEW X, NEW Y, CacheOK(fl, fs, X),
         fs[s] \in Entries, e.page = fs[s].page, OnlyFile(fl, fl2, e.page),
         EntryOK(fl2, e), s \notin Y => EndOK(fl2, e), X \subseteq Y \cup {s},
         NEW fs2, SlotPut(fs, fs2, s, e)
  PROVE  CacheOK(fl2, fs2, Y)
<1>1. fs2[s] = e /\ \A i \in 1..Slots : i # s => fs2[i] = fs[i]
  BY DEF SlotPut
<1>2. fs[s] # NoEntry
  BY EntryFacts
<1>3. ASSUME NEW i \in 1..Slots, fs2[i] # NoEntry
      PROVE  EntryOK(fl2, fs2[i]) /\ (i \notin Y => EndOK(fl2, fs2[i]))
  <2>1. CASE i = s
    BY <2>1, <1>1
  <2>2. CASE i # s
    <3> DEFINE c == fs[i]
    <3>1. fs2[i] = c /\ c \in Entries
      BY <2>2, <1>1, <1>3 DEF Objects
    <3>2. EntryOK(fl, c) /\ (i \notin X => EndOK(fl, c)) /\ c.page # e.page
      BY <2>2, <3>1, <1>2, <1>3 DEF CacheOK
    <3> HIDE DEF c
    <3>3. c.page \in Pages /\ HDR_ACTIVE(fl[c.page].h) /\ fl2[c.page].h = fl[c.page].h
      BY <3>1, <3>2, EntryFacts DEF EntryOK, OnlyFile
    <3>4. CASE ~fl[c.page].h.log
      <4>1. SameFile(fl, fl2, c.page)
        BY <3>2, <3>3, <3>4 DEF OnlyFile, FilesOf
      <4>2. EntryOK(fl2, c) /\ (EndOK(fl, c) => EndOK(fl2, c))
        BY <4>1, <3>1, <3>2, EntryFrame DEF SameFile
      <4> QED
        BY <4>2, <2>2, <3>1, <3>2
    <3>5. CASE fl[c.page].h.log
      <4>1. ~fl[c.page].h.mod
        BY <3>3, <3>5 DEF FlashOK, Logs, Modified
      <4>2. ~(c.records >= 0)
        BY <3>2, <4>1 DEF EntryOK
      <4> QED
        BY <3>1, <3>2, <3>3, <3>5, <4>2 DEF EntryOK, EndOK
    <3> QED
      BY <3>4, <3>5
  <2> QED
    BY <2>1, <2>2
<1>4. \A i, j \in 1..Slots :
       fs2[i] # NoEntry /\ fs2[j] # NoEntry /\ fs2[i].page = fs2[j].page => i = j
  BY <1>1, <1>2 DEF CacheOK
<1> QED
  BY <1>3, <1>4 DEF CacheOK

\* The operation after such a write, when the file object is e.
LEMMA Rewritten ==
  ASSUME NEW o, NEW X, NEW Y, OpOK(o, X), NEW z, z \in Ops,
         FlashOK(z.fl), SameShape(o.fl, z.fl), \A f \in z.past : FlashOK(f),
         NEW s \in 1..Slots, o.ram.files[s] \in Entries, NEW e \in Entries,
         e.page = o.ram.files[s].page, OnlyFile(o.fl, z.fl, e.page), EntryOK(z.fl, e),
         s \notin Y => EndOK(z.fl, e), X \subseteq Y \cup {s},
         z.ram.next_free = o.ram.next_free, z.ram.gc_wait = o.ram.gc_wait,
         SlotPut(o.ram.files, z.ram.files, s, e)
  PROVE  OpOK(z, Y)
<1>1. o \in Ops /\ FlashOK(o.fl) /\ CacheOK(o.fl, o.ram.files, X)
      /\ FreeOK(o.fl, o.ram.next_free) /\ GcOK(o.fl, o.ram.gc_wait)
      /\ o.ram.files \in Objects
  BY OpFields DEF OpOK
<1>2. CacheOK(z.fl, z.ram.files, Y)
  BY <1>1, CacheWritten
<1>3. FreeOK(z.fl, z.ram.next_free)
  BY <1>1, ShapeFacts
<1>4. GcOK(z.fl, z.ram.gc_wait)
  BY <1>1, ShapeFacts, SMTT(60)
<1> QED
  BY <1>2, <1>3, <1>4 DEF OpOK

\* The file at page p is open, and its end is known.
Holds(o, X, p) ==
  /\ OpOK(o, X) /\ o.file \in 1..Slots /\ o.used = {o.file}
  /\ Entry(o) \in Entries /\ Entry(o).page = p /\ p \in FilesOf(o.fl)
  /\ Entry(o).end >= 0

LEMMA HoldsFacts ==
  ASSUME NEW o, NEW X, NEW p, Holds(o, X, p)
  PROVE  /\ o \in Ops /\ FlashOK(o.fl) /\ Layout(o.fl) /\ UsedOK(o)
         /\ p \in Pages /\ HDR_ACTIVE(o.fl[p].h) /\ ~o.fl[p].h.log
         /\ EntryOK(o.fl, Entry(o)) /\ (o.file \notin X => EndOK(o.fl, Entry(o)))
         /\ Entry(o) = o.ram.files[o.file] /\ Entry(o) # NoEntry
         /\ Entry(o).max = o.fl[p].h.max /\ (Entry(o).mod <=> o.fl[p].h.mod)
         /\ Entry(o).end \in 0..Entry(o).max /\ Entry(o).records \in -1..LogRecords
         /\ Entry(o).max \in Nat
<1>1. /\ o \in Ops /\ FlashOK(o.fl) /\ Layout(o.fl) /\ p \in Pages
      /\ HDR_ACTIVE(o.fl[p].h) /\ ~o.fl[p].h.log
      /\ Entry(o) = o.ram.files[o.file] /\ Entry(o) # NoEntry
  BY EntryFacts DEF Holds, OpOK, FlashOK, FilesOf, Entry
<1>2. UsedOK(o)
  BY <1>1 DEF Holds, UsedOK
<1>3. EntryOK(o.fl, Entry(o)) /\ (o.file \notin X => EndOK(o.fl, Entry(o)))
  BY <1>1 DEF Holds, OpOK, CacheOK
<1> DEFINE e == Entry(o)
<1>4. e.end \in -1..e.max /\ e.end >= 0 /\ e.max \in Nat /\ e.end \in Int
      /\ e.records \in -1..LogRecords /\ e.page = p
      /\ e.max = o.fl[e.page].h.max /\ e.mod = o.fl[e.page].h.mod
  BY <1>3, EntryFacts DEF Holds, EntryOK
<1> HIDE DEF e
<1>5. e.end \in 0..e.max
  BY <1>4
<1> QED
  BY <1>1, <1>2, <1>3, <1>4, <1>5 DEF e

LEMMA OpenedHolds ==
  ASSUME NEW o, OpOK(o, {}), o.file \in 1..Slots, Entry(o) \in Entries,
         NEW p, Entry(o).page = p, p \in FilesOf(o.fl)
  PROVE  LET z == Opened(o)
         IN  /\ Holds(z, {}, p) /\ z.fl = o.fl /\ z.past = o.past /\ z.file = o.file
             /\ Entry(o).end >= 0 => Entry(z) = Entry(o)
<1> DEFINE z == Opened(o)
           s == o.file
           e == Entry(o)
           e2 == [e EXCEPT !.end = file_end(o.fl, e.page)]
<1>0. /\ o \in Ops /\ Layout(o.fl) /\ FlashOK(o.fl) /\ s # 0 /\ {s} \in SUBSET (1..Slots)
      /\ p \in Pages /\ HDR_ACTIVE(o.fl[p].h) /\ ~o.fl[p].h.log /\ e = o.ram.files[s]
      /\ s \in 1..Slots
  BY Sizes DEF OpOK, FlashOK, FilesOf, Entry
<1>1. CASE e.end >= 0
  <2>1. z = WithUsed(o, {s})
    BY <1>0, <1>1 DEF Opened, WithUsed
  <2> HIDE DEF z
  <2>2. /\ z \in Ops /\ z.fl = o.fl /\ z.past = o.past /\ z.used = {s}
        /\ z.ram = o.ram /\ z.file = s
    BY <2>1, <1>0, WithUsedOp
  <2>3. OpOK(z, {}) /\ Entry(z) = e
    BY <2>2 DEF OpOK, Entry
  <2> QED
    BY <2>2, <2>3, <1>0, <1>1 DEF Holds, z
<1>2. CASE ~(e.end >= 0)
  <2> DEFINE y == WithEntry(o, s, e2)
  <2>1. z = WithUsed(y, {s})
    BY <1>0, <1>2 DEF Opened, WithUsed, WithEntry
  <2>2. IsEnd(o.fl, p, file_end(o.fl, p)) /\ file_end(o.fl, p) \in 0..o.fl[p].h.max
    BY <1>0, FileEnd DEF IsEnd
  <2>3. EntryOK(o.fl, e)
    BY <1>0, EntryFacts DEF OpOK, CacheOK
  <2>4. e2 \in Entries /\ e2.page = p /\ e2.end = file_end(o.fl, p) /\ e2.max = e.max
        /\ e2.mod = e.mod /\ e2.records = e.records
    <3>1. file_end(o.fl, p) \in Int
      BY <2>2, <1>0, ActiveExtent
    <3> HIDE DEF e
    <3> QED
      BY <3>1 DEF Entries, e
  <2> HIDE DEF e2, z, e
  <2>5. EntryOK(o.fl, e2) /\ EndOK(o.fl, e2) /\ e2.end >= 0
    <3>2. e.page = p
      BY DEF e
    <3>1. e2.end \in -1..e2.max /\ e2.end >= 0
      <4> DEFINE m == o.fl[p].h.max
                 end == file_end(o.fl, p)
      <4>1. e2.max = m /\ e2.end = end
        BY <2>3, <2>4, <3>2, ZenonT(60) DEF EntryOK
      <4>2. end \in 0..m
        BY <2>2
      <4>3. m \in Nat
        BY <1>0, ActiveExtent, ZenonT(60)
      <4> HIDE DEF m, end
      <4>4. end \in -1..m /\ end >= 0
        BY ONLY <4>2, <4>3
      <4> QED
        BY ONLY <4>1, <4>4, ZenonT(60)
    <3> QED
      BY <2>2, <2>3, <2>4, <3>1, <3>2, SMTT(60) DEF EntryOK, EndOK
  <2>6. EntryPut(o, y, s, e2) /\ y.file = s
    BY <2>4, <1>0, WithEntryOp
  <2> HIDE DEF y
  <2>7. /\ y \in Ops /\ y.fl = o.fl /\ y.past = o.past
        /\ y.ram.next_free = o.ram.next_free /\ y.ram.gc_wait = o.ram.gc_wait
        /\ SlotPut(o.ram.files, y.ram.files, s, e2)
    BY <2>6, <1>0, OpFields, ZenonT(60) DEF EntryPut, SlotPut, Objects
  <2>8. OpOK(y, {})
    <3>1. OnlyFile(o.fl, o.fl, e2.page) /\ SameShape(o.fl, o.fl)
      BY DEF OnlyFile, SameFile, Kept, SameShape
    <3>2. e2.page = o.ram.files[s].page /\ o.ram.files[s] \in Entries
      BY <2>4, <1>0 DEF e
    <3>3. \A f \in y.past : FlashOK(f)
      BY <2>7 DEF OpOK
    <3> HIDE DEF s
    <3> QED
      BY ONLY OpOK(o, {}), <2>4, <2>5, <2>7, <3>1, <3>2, <3>3, <1>0, Rewritten, ZenonT(60)
  <2>9. y.ram.files[s] = e2
    BY <2>7 DEF SlotPut
  <2>10. /\ z \in Ops /\ z.fl = y.fl /\ z.past = y.past /\ z.used = {s}
         /\ z.ram = y.ram /\ z.file = s
    BY <2>1, <2>6, <2>7, <1>0, WithUsedOp
  <2>11. OpOK(z, {}) /\ Entry(z) = e2
    BY <2>8, <2>9, <2>10 DEF OpOK, Entry
  <2>12. Holds(z, {}, p)
    BY <2>4, <2>5, <2>7, <2>10, <2>11, <1>0 DEF Holds
  <2> QED
    BY <2>7, <2>10, <2>12, <1>2 DEF z, e
<1> QED
  BY <1>1, <1>2

-------------------------------------------------------------------------------
(* Opening a file.                                                            *)

LEMMA FileHeader ==
  ASSUME NEW n \in Names \cup {Nobody}, NEW k \in Nat, k > 0, Aligned(k)
  PROVE  LET h == Header(n, k, FALSE)
         IN  NewHeader(h) /\ h.name = n /\ h.max = k /\ ~h.log
<1> DEFINE h == Header(n, k, FALSE)
<1>1. h.name = n /\ h.max = k /\ ~h.log /\ ~h.obs /\ ~h.iso /\ ~h.mod
  BY DEF Header, Zero
<1>2. h \in Headers
  BY FlashFacts DEF Header, Headers
<1> HIDE DEF h
<1>3. h \in Headers /\ h.name = n /\ h.max = k /\ ~h.log /\ ~h.obs /\ ~h.iso /\ ~h.mod
  BY <1>1, <1>2
<1>4. h # Zero
  BY <1>3, FlashFacts
<1> QED
  BY <1>3, <1>4 DEF NewHeader, h

LEMMA LogHeader ==
  ASSUME NEW n \in Names \cup {Nobody}, NEW k \in Nat, k > 0, Aligned(k)
  PROVE  LET h == Header(n, k, TRUE)
         IN  NewHeader(h) /\ h.max = k /\ h.log
<1> DEFINE h == Header(n, k, TRUE)
<1>1. h.name = n /\ h.max = k /\ h.log /\ ~h.obs /\ ~h.iso /\ ~h.mod
  BY DEF Header, Zero
<1>2. h \in Headers
  BY FlashFacts DEF Header, Headers
<1> HIDE DEF h
<1>3. h \in Headers /\ h.name = n /\ h.max = k /\ h.log /\ ~h.obs /\ ~h.iso /\ ~h.mod
  BY <1>1, <1>2
<1>4. h # Zero
  BY <1>3, FlashFacts
<1> QED
  BY <1>3, <1>4 DEF NewHeader, h

\* Between o and z an empty file n has come into being, and nothing else.
Fresh(o, z, n) ==
  LET p == Entry(z).page
  IN  /\ \A q \in Pages : ~IsFile(o.fl, q, n)
      /\ z.past = Past(o.past, z.fl, "reserve") /\ KeptBut(o.fl, z.fl, {})
      /\ FilesOf(z.fl) = FilesOf(o.fl) \cup {p} /\ p \notin FilesOf(o.fl)
      /\ Entry(z).end = 0 /\ ~z.fl[p].h.mod

\* z is o with file n open, or without it, because there was no room.
Opens(o, z, n) ==
  /\ z.file # 0 => /\ Holds(z, {}, Entry(z).page) /\ IsFile(z.fl, Entry(z).page, n)
                   /\ (z.fl = o.fl /\ z.past = o.past) \/ Fresh(o, z, n)
  /\ z.file = 0 => /\ OpOK(z, {}) /\ z.past = o.past /\ KeptBut(o.fl, z.fl, {})
                   /\ FilesOf(z.fl) = FilesOf(o.fl)
                   /\ \A q \in Pages : ~IsFile(o.fl, q, n)

LEMMA OpenWriteOpens ==
  ASSUME WholeSectors, "gc" \notin CrashIn, OpOK(Begin, {}), NEW n \in Names
  PROVE  Opens(Begin, OpenWrite(n), n)
<1> DEFINE o == find_file(Begin, n)
           h == Header(n, DynPages, FALSE)
           y == reserve(o, h, "reserve")
           z == OpenWrite(n)
<1>1. z = Opened(IF o.file # 0 THEN o ELSE y)
  BY DEF OpenWrite
<1>2. UsedOK(Begin) /\ Begin.used = {}
  BY DEF UsedOK, Begin
<1>3. Found(Begin, o, n)
  BY <1>2, FindFile
<1>4. NewHeader(h) /\ h.name = n /\ ~h.log
  <2>1. DynPages \in Nat /\ DynPages > 0 /\ Aligned(DynPages) /\ n \in Names \cup {Nobody}
    BY Sizes, WholeAligned
  <2> QED
    BY <2>1, FileHeader
<1> HIDE DEF o, h
<1>5. OpOK(o, {}) /\ o.fl = Begin.fl /\ o.past = Begin.past /\ UsedOK(o)
  BY <1>2, <1>3 DEF Found, UsedOK
<1>6. (y.file # 0 => Made(o, y, h, "reserve")) /\ (y.file = 0 => Unmade(o, y))
  BY <1>4, <1>5, ReserveMade
<1> HIDE DEF y, z
<1>7. CASE o.file # 0
  <2> DEFINE p == Entry(o).page
  <2>1. o.file \in 1..Slots /\ Entry(o) \in Entries /\ IsFile(o.fl, p, n)
    BY <1>3, <1>7 DEF Found
  <2>2. p \in FilesOf(o.fl)
    BY <2>1, ReadActive, EntryFacts DEF FilesOf
  <2>3. z = Opened(o)
    BY <1>1, <1>7
  <2> HIDE DEF p
  <2>4. Holds(z, {}, p) /\ z.fl = o.fl /\ z.past = o.past
    BY <2>1, <2>2, <2>3, <1>5, OpenedHolds DEF p
  <2>5. Entry(z).page = p /\ z.file # 0
    BY <2>4 DEF Holds
  <2> QED
    BY <2>1, <2>4, <2>5, <1>5 DEF Opens, z, p
<1>8. CASE o.file = 0 /\ y.file # 0
  <2> DEFINE p == Entry(y).page
  <2>1. Made(o, y, h, "reserve")
    BY <1>6, <1>8, SMTT(60)
  <2>2. /\ OpOK(y, {}) /\ y.file \in 1..Slots /\ Entry(y) \in Entries
        /\ Entry(y).end = 0 /\ y.fl[p].h = h
        /\ y.past = Past(o.past, y.fl, "reserve") /\ KeptBut(o.fl, y.fl, {})
        /\ FilesOf(y.fl) = FilesOf(o.fl) \cup {p} /\ ~HDR_ACTIVE(o.fl[p].h)
    BY <2>1, <1>4 DEF Made, Entry
  <2>3. p \in FilesOf(y.fl) /\ p \notin FilesOf(o.fl) /\ IsFile(y.fl, p, n) /\ ~y.fl[p].h.mod
    BY <2>2, <1>4, ReadActive, EntryFacts DEF FilesOf, NewHeader
  <2>4. z = Opened(y)
    BY <1>1, <1>8
  <2> HIDE DEF p
  <2>5. Holds(z, {}, p) /\ z.fl = y.fl /\ z.past = y.past /\ Entry(z) = Entry(y)
    BY <2>2, <2>3, <2>4, OpenedHolds DEF p
  <2>6. Entry(z).page = p /\ z.file # 0
    BY <2>5 DEF Holds
  <2>7. \A q \in Pages : ~IsFile(Begin.fl, q, n)
    BY <1>3, <1>8 DEF Found
  <2>8. Fresh(Begin, z, n)
    BY <2>2, <2>3, <2>5, <2>6, <2>7, <1>5 DEF Fresh
  <2> QED
    BY <2>3, <2>5, <2>6, <2>8 DEF Opens, z
<1>9. CASE o.file = 0 /\ y.file = 0
  <2>1. z = y
    BY <1>1, <1>9 DEF Opened
  <2>2. Unmade(o, y)
    BY <1>6, <1>9
  <2>3. \A q \in Pages : ~IsFile(Begin.fl, q, n)
    BY <1>3, <1>9 DEF Found
  <2> QED
    BY <2>1, <2>2, <2>3, <1>5, <1>9 DEF Unmade, Opens, z
<1> QED
  BY <1>7, <1>8, <1>9

-------------------------------------------------------------------------------
(* Removing extents.                                                          *)

\* From o to z the extents at the pages in R have been made obsolete and dropped
\* from the cache.
Gone(o, z, R) ==
  /\ z \in Ops /\ z.past = o.past /\ z.file = o.file /\ z.used = o.used
  /\ z.ram.next_free = o.ram.next_free /\ ~z.ram.gc_wait
  /\ \A i \in 1..Slots : z.ram.files[i] =
       IF o.ram.files[i].page \in R THEN NoEntry ELSE o.ram.files[i]
  /\ \A q \in Pages :
       /\ z.fl[q].d = o.fl[q].d
       /\ q \notin R => z.fl[q].h = o.fl[q].h
       /\ q \in R => /\ z.fl[q].h # Zero /\ z.fl[q].h.obs /\ ~z.fl[q].h.iso
                     /\ z.fl[q].h.max = o.fl[q].h.max

LEMMA ObsoleteHeader ==
  ASSUME NEW h \in Headers
  PROVE  LET h2 == [h EXCEPT !.obs = TRUE]
         IN  /\ h2 \in Headers /\ h2.obs /\ h2.max = h.max /\ (h2.iso <=> h.iso)
             /\ h2 # Zero
<1> DEFINE h2 == [h EXCEPT !.obs = TRUE]
<1>1. h2 \in Headers
  BY DEF Headers
<1>2. h2.obs /\ h2.max = h.max /\ (h2.iso <=> h.iso)
  BY DEF Headers
<1> HIDE DEF h2
<1>3. h2 # Zero
  BY <1>2, FlashFacts
<1> QED
  BY <1>1, <1>2, <1>3 DEF h2

WithFiles(o, fs) == [o EXCEPT !.ram.files = fs]

LEMMA WithFilesOp ==
  ASSUME NEW o \in Ops, NEW fs \in Objects
  PROVE  LET z == WithFiles(o, fs)
         IN  /\ z \in Ops /\ z.fl = o.fl /\ z.past = o.past /\ z.used = o.used
             /\ z.file = o.file /\ z.ram.next_free = o.ram.next_free
             /\ z.ram.gc_wait = o.ram.gc_wait /\ z.ram.files = fs
<1> DEFINE rm == [o.ram EXCEPT !.files = fs]
<1>1. rm \in Rams /\ rm.next_free = o.ram.next_free /\ rm.gc_wait = o.ram.gc_wait /\ rm.files = fs
  BY OpFields DEF Rams
<1>2. WithFiles(o, fs) = [o EXCEPT !.ram = rm]
  BY DEF WithFiles
<1> HIDE DEF rm
<1> QED
  BY <1>1, <1>2 DEF Ops

LEMMA ObsoleteGone ==
  ASSUME NEW o \in Ops, NEW p \in Pages, HDR_ACTIVE(o.fl[p].h), "remove" \notin CrashIn
  PROVE  Gone(o, Obsolete(o, p), {p})
<1> DEFINE h == o.fl[p].h
           h2 == [h EXCEPT !.obs = TRUE]
           o1 == write_header(o, p, h2, "remove")
           w == FALSE
           fs == [i \in 1..Slots |-> IF o.ram.files[i].page = p THEN NoEntry
                                     ELSE o.ram.files[i]]
           y == WithWait(o1, w)
           z == WithFiles(y, fs)
<1>1. read_header(o.fl, p) = h
  BY ReadActive
<1>2. Obsolete(o, p) = z
  BY <1>1 DEF Obsolete, WithWait, WithFiles
<1>3. h \in Headers /\ ~h.iso
  BY OpFields, FlashFacts DEF HDR_ACTIVE
<1> HIDE DEF h
<1>4. h2 \in Headers /\ h2.obs /\ h2.max = h.max /\ ~h2.iso /\ h2 # Zero
  BY <1>3, ObsoleteHeader
<1> HIDE DEF h2
<1>5. PICK fl2 : HeaderPut(o.fl, fl2, p, h2) /\ OnlyFlash(o, o1, fl2, "remove")
  BY <1>4, WriteHeaderOp
<1>6. o1 \in Ops /\ o1.fl = fl2 /\ o1.past = o.past /\ o1.ram = o.ram
      /\ o1.file = o.file /\ o1.used = o.used
  BY <1>5 DEF OnlyFlash, Past
<1> HIDE DEF o1
<1>7. fs \in Objects /\ \A i \in 1..Slots :
        fs[i] = IF o.ram.files[i].page \in {p} THEN NoEntry ELSE o.ram.files[i]
  <2>1. \A i \in 1..Slots : o.ram.files[i] \in Entries \cup {NoEntry}
    BY OpFields DEF Objects
  <2>2. \A i \in 1..Slots : fs[i] \in Entries \cup {NoEntry}
    BY <2>1
  <2>3. fs \in Objects
    BY <2>2 DEF Objects
  <2> QED
    BY <2>3
<1>8. w \in BOOLEAN /\ ~w
  OBVIOUS
<1> HIDE DEF fs, w
<1>9. /\ y \in Ops /\ y.fl = fl2 /\ y.past = o.past /\ y.used = o.used
      /\ y.file = o.file /\ y.ram.next_free = o.ram.next_free /\ y.ram.gc_wait = w
  BY <1>6, <1>8, WithWaitOp
<1> HIDE DEF y
<1>10. /\ z \in Ops /\ z.fl = fl2 /\ z.past = o.past /\ z.used = o.used
       /\ z.file = o.file /\ z.ram.next_free = o.ram.next_free
       /\ ~z.ram.gc_wait /\ z.ram.files = fs
  BY <1>7, <1>8, <1>9, WithFilesOp
<1> HIDE DEF z
<1>11. \A q \in Pages :
       /\ fl2[q].d = o.fl[q].d
       /\ q \notin {p} => fl2[q].h = o.fl[q].h
       /\ q \in {p} => /\ fl2[q].h # Zero /\ fl2[q].h.obs /\ ~fl2[q].h.iso
                       /\ fl2[q].h.max = o.fl[q].h.max
  BY <1>4, <1>5 DEF HeaderPut, h
<1>12. Gone(o, z, {p})
  BY <1>7, <1>10, <1>11 DEF Gone
<1> QED
  BY <1>2, <1>12

LEMMA GoneTwice ==
  ASSUME NEW o, NEW y, NEW z, NEW p \in Pages, NEW l \in Pages,
         Gone(o, y, {l}), Gone(y, z, {p}), p # l
  PROVE  Gone(o, z, {p, l})
<1>1. \A i \in 1..Slots : z.ram.files[i] =
       IF o.ram.files[i].page \in {p, l} THEN NoEntry ELSE o.ram.files[i]
  BY EntryFacts DEF Gone
<1>2. \A q \in Pages :
       /\ z.fl[q].d = o.fl[q].d
       /\ q \notin {p, l} => z.fl[q].h = o.fl[q].h
       /\ q \in {p, l} => /\ z.fl[q].h # Zero /\ z.fl[q].h.obs /\ ~z.fl[q].h.iso
                          /\ z.fl[q].h.max = o.fl[q].h.max
  BY DEF Gone
<1> QED
  BY <1>1, <1>2 DEF Gone

\* After that the operation is as before, if no file loses its log.
LEMMA GoneOK ==
  ASSUME NEW o, NEW X, OpOK(o, X), NEW R, \A q \in R : q \in Pages /\ HDR_ACTIVE(o.fl[q].h),
         \A q \in Modified(o.fl) : q \notin R => o.fl[q].h.lp \notin R,
         NEW z, Gone(o, z, R)
  PROVE  /\ OpOK(z, X) /\ FilesOf(z.fl) = FilesOf(o.fl) \ R
         /\ \A q \in FilesOf(o.fl) : q \notin R => SameFile(o.fl, z.fl, q)
<1> DEFINE fl == o.fl
           fl2 == z.fl
<1>1. o \in Ops /\ FlashOK(fl) /\ CacheOK(fl, o.ram.files, X)
      /\ FreeOK(fl, o.ram.next_free) /\ o.ram.files \in Objects
      /\ \A f \in o.past : FlashOK(f)
  BY OpFields DEF OpOK
<1>2. /\ z \in Ops /\ z.past = o.past /\ z.ram.next_free = o.ram.next_free
      /\ ~z.ram.gc_wait /\ fl2 \in Flashes /\ z.ram.files \in Objects
  BY OpFields DEF Gone
<1>3. \A q \in Pages :
       /\ fl2[q].d = fl[q].d
       /\ q \notin R => fl2[q].h = fl[q].h
       /\ q \in R => /\ fl2[q].h # Zero /\ fl2[q].h.obs /\ ~fl2[q].h.iso
                     /\ fl2[q].h.max = fl[q].h.max
  BY DEF Gone
<1>4. \A i \in 1..Slots : z.ram.files[i] =
       IF o.ram.files[i].page \in R THEN NoEntry ELSE o.ram.files[i]
  BY DEF Gone
<1> HIDE DEF fl, fl2
<1>5. Extents(fl2) = Extents(fl)
  <2>1. \A q \in R : fl[q].h # Zero
    BY DEF HDR_ACTIVE, fl
  <2>2. \A q \in Pages : fl2[q].h # Zero <=> fl[q].h # Zero
    BY <2>1, <1>3
  <2> QED
    BY <2>2 DEF Extents
<1>6. \A q \in Pages : EndOf(fl2, q) = EndOf(fl, q) /\ fl2[q].h.max = fl[q].h.max
  BY <1>3 DEF EndOf
<1>7. Extents(fl) \subseteq Pages
  BY DEF Extents
<1>8. Stops(fl2) = Stops(fl)
  BY <1>5, <1>6, <1>7 DEF Stops
<1>9. Layout(fl2)
  <2>1. \A q \in Extents(fl2) : ~fl2[q].h.iso
    BY <1>1, <1>3, <1>5, <1>7 DEF Layout, FlashOK
  <2>2. \A p \in Extents(fl2) :
       /\ Aligned(p) /\ Aligned(fl2[p].h.max) /\ fl2[p].h.max > 0 /\ ~fl2[p].h.iso
       /\ EndOf(fl2, p) <= PageCount
    BY <2>1, <1>1, <1>5, <1>6, <1>7 DEF Layout, FlashOK
  <2>3. \A p, q \in Extents(fl2) : p < q => EndOf(fl2, p) <= q
    BY <1>1, <1>5, <1>6, <1>7 DEF Layout, FlashOK
  <2>4. \A q \in Pages :
       fl2[q].d # Nil => \E p \in Extents(fl2) : p <= q /\ q < EndOf(fl2, p)
    BY <1>1, <1>3, <1>5, <1>6, <1>7 DEF Layout, FlashOK
  <2> QED
    BY <2>2, <2>3, <2>4, <1>2 DEF Layout
<1>10. \A q \in Pages : /\ q \in R => ~HDR_ACTIVE(fl2[q].h)
                        /\ q \notin R => Kept(fl, fl2, q)
  BY <1>3, SMTT(60) DEF HDR_ACTIVE, Kept
<1>11. \A q \in Modified(fl) : q \notin R => Kept(fl, fl2, fl[q].h.lp)
  BY <1>1, <1>10 DEF FlashOK, Logs, IsLog, fl
<1>12. Logs(fl2)
  <2> SUFFICES ASSUME NEW q \in Modified(fl2)
               PROVE  /\ q \in Modified(fl) /\ fl2[q].h = fl[q].h
                      /\ Kept(fl, fl2, fl[q].h.lp)
    BY <1>1, LogsFrame
  <2>1. q \notin R /\ q \in Pages
    BY <1>10 DEF Modified
  <2>2. q \in Modified(fl) /\ fl2[q].h = fl[q].h
    BY <2>1, <1>3 DEF Modified
  <2> QED
    BY <2>1, <2>2, <1>11
<1>13. FilesOf(fl2) = FilesOf(fl) \ R
  BY <1>3, <1>10 DEF FilesOf
<1>14. \A q \in FilesOf(fl) : q \notin R => SameFile(fl, fl2, q)
  BY <1>10, <1>11, SMTT(60) DEF SameFile, FilesOf, Modified
<1>15. CacheOK(fl2, z.ram.files, X)
  <2> DEFINE fs == o.ram.files
             fs2 == z.ram.files
  <2>0. ASSUME \A i \in 1..Slots : fs2[i] # NoEntry =>
                 /\ fs2[i] = fs[i] /\ Kept(fl, fl2, fs[i].page)
                 /\ fl[fs[i].page].h.mod => Kept(fl, fl2, fl[fs[i].page].h.lp)
        PROVE  CacheOK(fl2, fs2, X)
    <3>1. FlashOK(fl) /\ fs \in Objects /\ fs2 \in Objects /\ CacheOK(fl, fs, X)
      BY <1>1, <1>2
    <3> HIDE DEF fs, fs2
    <3> QED
      BY ONLY <2>0, <3>1, CacheFrame
  <2> SUFFICES ASSUME NEW i \in 1..Slots, z.ram.files[i] # NoEntry
               PROVE  LET e == o.ram.files[i]
                      IN  /\ z.ram.files[i] = e /\ Kept(fl, fl2, e.page)
                          /\ fl[e.page].h.mod => Kept(fl, fl2, fl[e.page].h.lp)
    BY <2>0, ZenonT(60)
  <2> DEFINE e == o.ram.files[i]
  <2>1. z.ram.files[i] = e /\ e.page \notin R /\ e # NoEntry
    BY <1>4
  <2>2. e \in Entries /\ EntryOK(fl, e)
    BY <2>1, <1>1 DEF Objects, CacheOK
  <2> HIDE DEF e
  <2>3. e.page \in Pages /\ HDR_ACTIVE(fl[e.page].h)
    BY <2>2, EntryFacts DEF EntryOK
  <2>4. Kept(fl, fl2, e.page) /\ (fl[e.page].h.mod => Kept(fl, fl2, fl[e.page].h.lp))
    BY <2>1, <2>3, <1>10, <1>11 DEF Modified
  <2> QED
    BY <2>1, <2>4, ZenonT(60) DEF e
<1>16. FreeOK(fl2, z.ram.next_free)
  BY <1>1, <1>2, <1>5, <1>8 DEF FreeOK, Extents, Stops
<1>17. GcOK(fl2, z.ram.gc_wait)
  BY <1>2 DEF GcOK
<1>18. FlashOK(fl2)
  BY <1>9, <1>12 DEF FlashOK
<1>19. OpOK(z, X)
  BY <1>1, <1>2, <1>15, <1>16, <1>17, <1>18 DEF OpOK, fl2
<1> QED
  BY <1>13, <1>14, <1>19 DEF fl, fl2

\* z is o without the file at page p and its log.
Without(o, z, p) ==
  /\ z.past = o.past /\ z.file = o.file /\ z.used = o.used
  /\ FilesOf(z.fl) = FilesOf(o.fl) \ {p} /\ ~HDR_ACTIVE(z.fl[p].h)
  /\ \A q \in FilesOf(o.fl) : q # p => SameFile(o.fl, z.fl, q)
  /\ \A i \in 1..Slots :
       o.ram.files[i] # NoEntry /\ o.ram.files[i].page \in FilesOf(z.fl) =>
         z.ram.files[i] = o.ram.files[i]

\* ... because the extents in R are gone.
LEMMA GoneWithout ==
  ASSUME NEW o, NEW X, OpOK(o, X), NEW p \in FilesOf(o.fl), NEW R, p \in R,
         \A q \in R : q = p \/ (p \in Modified(o.fl) /\ q = o.fl[p].h.lp),
         NEW z, Gone(o, z, R)
  PROVE  OpOK(z, X) /\ Without(o, z, p)
<1> DEFINE fl == o.fl
<1>1. FlashOK(fl) /\ p \in Pages /\ HDR_ACTIVE(fl[p].h) /\ ~fl[p].h.log
  BY SMTT(60) DEF OpOK, FilesOf
<1>2. \A q \in R : q \in Pages /\ HDR_ACTIVE(fl[q].h) /\ (q # p => fl[q].h.log)
  BY <1>1 DEF FlashOK, Logs, IsLog
<1>3. ASSUME NEW q \in Modified(fl), q \notin R
      PROVE  fl[q].h.lp \notin R
  <2>1. fl[fl[q].h.lp].h.log /\ (p \in Modified(fl) => fl[q].h.lp # fl[p].h.lp)
    BY <1>1, <1>3 DEF FlashOK, Logs, IsLog
  <2> QED
    BY <2>1, <1>1, SMTT(60)
<1> HIDE DEF fl
<1>4. /\ OpOK(z, X) /\ FilesOf(z.fl) = FilesOf(fl) \ R
      /\ \A q \in FilesOf(fl) : q \notin R => SameFile(fl, z.fl, q)
  BY <1>2, <1>3, GoneOK DEF fl
<1>5. \A q \in FilesOf(fl) : q \in R => q = p
  BY <1>2 DEF FilesOf
<1>6. FilesOf(z.fl) = FilesOf(fl) \ {p}
  BY <1>4, <1>5
<1>7. \A q \in FilesOf(fl) : q # p => SameFile(fl, z.fl, q)
  BY <1>4, <1>5
<1>8. z.past = o.past /\ z.file = o.file /\ z.used = o.used /\ ~HDR_ACTIVE(z.fl[p].h)
  BY <1>1 DEF Gone, HDR_ACTIVE
<1>9. \A i \in 1..Slots :
       o.ram.files[i] # NoEntry /\ o.ram.files[i].page \in FilesOf(z.fl) =>
         z.ram.files[i] = o.ram.files[i]
  BY <1>4 DEF Gone
<1> QED
  BY <1>4, <1>6, <1>7, <1>8, <1>9 DEF Without, fl

LEMMA RemoveByPage ==
  ASSUME NEW o, NEW X, OpOK(o, X), NEW p \in FilesOf(o.fl), "remove" \notin CrashIn
  PROVE  OpOK(remove_by_page(o, p), X) /\ Without(o, remove_by_page(o, p), p)
<1> DEFINE z == remove_by_page(o, p)
           h == o.fl[p].h
<1>1. o \in Ops /\ FlashOK(o.fl) /\ p \in Pages /\ HDR_ACTIVE(h) /\ ~h.log
      /\ read_header(o.fl, p) = h
  BY ReadActive DEF OpOK, FilesOf
<1>2. CASE ~h.mod
  <2>1. z = Obsolete(o, p)
    BY <1>1, <1>2 DEF remove_by_page
  <2> HIDE DEF z
  <2>2. Gone(o, z, {p})
    BY <2>1, <1>1, ObsoleteGone
  <2>3. OpOK(z, X) /\ Without(o, z, p)
    BY <2>2, GoneWithout
  <2> QED
    BY <2>3 DEF z
<1>3. CASE h.mod
  <2> DEFINE l == h.lp
             y == Obsolete(o, l)
  <2>1. p \in Modified(o.fl) /\ IsLog(o.fl, l)
    BY <1>1, <1>3, SMTT(60) DEF Modified, FlashOK, Logs
  <2>2. l \in Pages /\ HDR_ACTIVE(o.fl[l].h) /\ l # p
    BY <2>1, <1>1 DEF IsLog
  <2>3. z = Obsolete(y, p)
    BY <2>2, <1>1, <1>3, ReadActive DEF remove_by_page
  <2>4. Gone(o, y, {l})
    BY <2>2, <1>1, ObsoleteGone, SMTT(60)
  <2> HIDE DEF y, z
  <2>5. y \in Ops /\ y.fl[p].h = h
    BY <2>2, <2>4, <1>1, ZenonT(60) DEF Gone
  <2>6. Gone(y, z, {p})
    BY <2>3, <2>5, <1>1, ObsoleteGone
  <2>7. Gone(o, z, {p, l})
    BY <2>2, <2>4, <2>6, <1>1, GoneTwice
  <2>8. OpOK(z, X) /\ Without(o, z, p)
    BY <2>1, <2>7, GoneWithout
  <2> QED
    BY <2>8 DEF z
<1> QED
  BY <1>2, <1>3

-------------------------------------------------------------------------------
(* What a file holds.                                                         *)

\* The records of region r in the log at page l, the last of a set of records,
\* and region r of the file at page p.
RecordsOf(fl, l, r) == {k \in 0..(LogRecords - 1) : fl[l + k].d.i = r + 1}
Last(S) == - LeastOf({-k : k \in S})
Region(fl, p, r) ==
  LET S == RecordsOf(fl, fl[p].h.lp, r)
  IN  IF fl[p].h.mod /\ S # {} THEN fl[fl[p].h.lp + Last(S)].d.v ELSE fl[p + r].d.v

LEMMA LastFacts ==
  ASSUME NEW S, S \subseteq 0..(LogRecords - 1), S # {}
  PROVE  Last(S) \in S /\ \A k \in S : k <= Last(S)
<1>1. S \subseteq Nat /\ LogRecords \in Nat /\ \A x \in S : x <= LogRecords
  BY Sizes
<1> QED
  BY <1>1, GreatestOfFacts DEF Last

LEMMA LogPages ==
  ASSUME NEW fl, FlashOK(fl), NEW p \in FilesOf(fl), fl[p].h.mod
  PROVE  /\ p \in Modified(fl) /\ IsLog(fl, fl[p].h.lp) /\ fl[p].h.lp \in Pages
         /\ \A k \in 0..(LogRecords - 1) : fl[p].h.lp + k \in Pages
<1>1. p \in Modified(fl)
  BY DEF FilesOf, Modified
<1>2. IsLog(fl, fl[p].h.lp)
  BY <1>1 DEF FlashOK, Logs
<1>3. fl[p].h.lp \in Pages /\ HDR_ACTIVE(fl[fl[p].h.lp].h)
      /\ fl[fl[p].h.lp].h.max = LogRecords
  BY <1>2 DEF IsLog
<1>4. \A k \in 0..(LogRecords - 1) : fl[p].h.lp + k \in Pages
  BY <1>3, ActiveExtent DEF FlashOK
<1> QED
  BY <1>1, <1>2, <1>3, <1>4

\* cfs_read reads it, however much it knows of the log.
LEMMA ReadIsRegion ==
  ASSUME NEW fl, FlashOK(fl), NEW p \in FilesOf(fl), NEW r \in Nat, NEW mod \in BOOLEAN,
         mod <=> fl[p].h.mod, NEW records \in -1..LogRecords,
         records >= 0 => LogHas(fl, fl[p].h.lp, records)
  PROVE  ReadRegion(fl, p, mod, records, r) = Region(fl, p, r)
<1> USE Sizes
<1> DEFINE l == fl[p].h.lp
           n == IF records < 0 THEN LogRecords ELSE records
           S == RecordsOf(fl, l, r)
           T == {k \in 0..(n - 1) : l + k \in Pages /\ fl[l + k].d.i = r + 1}
           g == get_record_index(fl, l, n, r)
<1>1. ReadRegion(fl, p, mod, records, r) =
        IF mod /\ g # INVALID THEN fl[l + g].d.v ELSE fl[p + r].d.v
  BY DEF ReadRegion
<1>2. CASE ~fl[p].h.mod
  BY <1>1, <1>2 DEF Region
<1>3. CASE fl[p].h.mod
  <2>1. \A k \in 0..(LogRecords - 1) : l + k \in Pages
    BY <1>3, LogPages
  <2>2. n \in 0..LogRecords /\ \A k \in 0..(LogRecords - 1) : fl[l + k].d.i # 0 /\ records >= 0 => k < n
    BY DEF LogHas
  <2> HIDE DEF l, n
  <2>3. \A k \in 0..(LogRecords - 1) : fl[l + k].d.i = r + 1 => k \in 0..(n - 1)
    <3> TAKE k \in 0..(LogRecords - 1)
    <3>1. r + 1 # 0
      OBVIOUS
    <3>2. records < 0 => n = LogRecords
      BY DEF n
    <3> QED
      BY <2>2, <3>1, <3>2
  <2>4. \A k \in 0..(n - 1) : k \in 0..(LogRecords - 1)
    BY <2>2
  <2>5. T = S
    BY <2>1, <2>3, <2>4 DEF RecordsOf
  <2>6. g = IF T = {} THEN INVALID ELSE Last(T)
    BY DEF get_record_index, Last
  <2>7. S # {} => Last(S) # INVALID
    <3>1. S \subseteq 0..(LogRecords - 1)
      BY DEF RecordsOf
    <3>2. S # {} => Last(S) \in 0..(LogRecords - 1)
      BY <3>1, LastFacts
    <3> QED
      BY <3>2 DEF INVALID
  <2> HIDE DEF S, T, g
  <2>8. (mod /\ g # INVALID <=> fl[p].h.mod /\ S # {}) /\ (S # {} => g = Last(S))
    BY <2>5, <2>6, <2>7, <1>3
  <2> QED
    BY <1>1, <2>8 DEF Region, l, S
<1> QED
  BY <1>2, <1>3

\* Another file holds what it held.
LEMMA RegionKept ==
  ASSUME NEW fl, FlashOK(fl), NEW p \in FilesOf(fl), NEW fl2, SameFile(fl, fl2, p),
         NEW r \in 0..(fl[p].h.max - 1)
  PROVE  Region(fl2, p, r) = Region(fl, p, r)
<1> USE Sizes
<1> DEFINE l == fl[p].h.lp
<1>1. p \in Pages /\ HDR_ACTIVE(fl[p].h) /\ Layout(fl) /\ fl2[p].h = fl[p].h
  BY DEF FilesOf, FlashOK, SameFile, Kept
<1>2. fl2[p + r].d = fl[p + r].d
  <2>1. fl[p].h.max \in Nat /\ p + r \in Pages
    BY <1>1, ActiveExtent
  <2>2. p <= p + r /\ p + r < EndOf(fl, p)
    BY <1>1, <2>1, SMTT(60) DEF EndOf
  <2> QED
    BY <2>1, <2>2 DEF SameFile, Kept
<1>3. CASE ~fl[p].h.mod
  BY <1>1, <1>2, <1>3 DEF Region
<1>4. CASE fl[p].h.mod
  <2>1. IsLog(fl, l) /\ Kept(fl, fl2, l)
    BY <1>4, LogPages DEF SameFile
  <2>2. \A k \in 0..(LogRecords - 1) : fl2[l + k].d = fl[l + k].d
    BY <2>1, <1>1, KeptLog
  <2> DEFINE S == RecordsOf(fl, l, r)
  <2> HIDE DEF l
  <2>3. RecordsOf(fl2, l, r) = S
    BY <2>2 DEF RecordsOf
  <2>4. S \subseteq 0..(LogRecords - 1)
    BY DEF RecordsOf
  <2> HIDE DEF S
  <2>5. S # {} => fl2[l + Last(S)].d = fl[l + Last(S)].d
    BY <2>2, <2>4, LastFacts
  <2> QED
    BY <2>3, <2>5, <1>1, <1>2 DEF Region, l, S
<1> QED
  BY <1>3, <1>4

\* A region is a value, and not zero if it is before the end or in the log.
LEMMA RegionValue ==
  ASSUME NEW fl, FlashOK(fl), NEW p \in FilesOf(fl), NEW r \in 0..(fl[p].h.max - 1)
  PROVE  /\ Region(fl, p, r) \in {0, Dummy} \cup Values
         /\ fl[p + r].d.v # 0 => Region(fl, p, r) # 0
<1> USE Sizes
<1> DEFINE l == fl[p].h.lp
<1>1. p \in Pages /\ HDR_ACTIVE(fl[p].h) /\ Layout(fl) /\ fl \in Flashes
  BY DEF FilesOf, FlashOK, Layout
<1>2. \A x \in Pages : fl[x].d.v \in {0, Dummy} \cup Values
  BY <1>1, FlashFacts DEF Regs
<1>3. p + r \in Pages
  BY <1>1, ActiveExtent
<1>4. CASE ~fl[p].h.mod
  BY <1>2, <1>3, <1>4, SMTT(60) DEF Region
<1>5. CASE fl[p].h.mod
  <2> DEFINE S == RecordsOf(fl, l, r)
  <2>1. p \in Modified(fl) /\ \A k \in 0..(LogRecords - 1) : l + k \in Pages
    BY <1>5, LogPages
  <2>2. PICK n : LogHas(fl, l, n)
    BY <2>1 DEF FlashOK, Logs
  <2>3. \A k \in 0..(LogRecords - 1) : fl[l + k].d.i # 0 => fl[l + k].d.v # 0
    BY <2>2 DEF LogHas
  <2> HIDE DEF l
  <2>4. S \subseteq 0..(LogRecords - 1) /\ \A k \in S : fl[l + k].d.i # 0
    BY DEF RecordsOf
  <2> HIDE DEF S
  <2>5. S # {} => /\ fl[l + Last(S)].d.v # 0
                  /\ fl[l + Last(S)].d.v \in {0, Dummy} \cup Values
    BY <2>1, <2>3, <2>4, <1>2, LastFacts
  <2> QED
    BY <2>5, <1>2, <1>3, <1>5 DEF Region, l, S
<1> QED
  BY <1>4, <1>5

-------------------------------------------------------------------------------
(* Merging a file and its log into a new extent.                              *)

\* Data is written to page x of the file at page p.
LEMMA DataFileOK ==
  ASSUME NEW fl, FlashOK(fl), NEW p \in FilesOf(fl),
         NEW x \in Pages, p <= x, x < EndOf(fl, p),
         NEW fl2, NEW d, DataPut(fl, fl2, x, d)
  PROVE  /\ FlashOK(fl2) /\ SameShape(fl, fl2) /\ KeptBut(fl, fl2, {p})
         /\ \A q \in Pages : fl2[q].h = fl[q].h
         /\ Modified(fl2) = Modified(fl) /\ FilesOf(fl2) = FilesOf(fl)
         /\ OnlyFile(fl, fl2, p)
         /\ fl[p].h.mod => Kept(fl, fl2, fl[p].h.lp)
<1>1. p \in Pages /\ HDR_ACTIVE(fl[p].h) /\ ~fl[p].h.log /\ Layout(fl)
  BY DEF FilesOf, FlashOK
<1>2. /\ Layout(fl2) /\ SameShape(fl, fl2) /\ KeptBut(fl, fl2, {p})
      /\ \A q \in Pages : fl2[q].h = fl[q].h
      /\ Modified(fl2) = Modified(fl) /\ FilesOf(fl2) = FilesOf(fl)
  BY <1>1, DataOK
<1>3. \A q \in Modified(fl) : Kept(fl, fl2, fl[q].h.lp)
  <2> TAKE q \in Modified(fl)
  <2>1. IsLog(fl, fl[q].h.lp)
    BY DEF FlashOK, Logs
  <2>2. fl[q].h.lp # p
    BY <2>1, <1>1 DEF IsLog
  <2> QED
    BY <2>1, <2>2, <1>2 DEF KeptBut, IsLog
<1>4. Logs(fl2)
  <2>1. \A q \in Modified(fl2) : q \in Modified(fl) /\ fl2[q].h = fl[q].h
    BY <1>2 DEF Modified
  <2> QED
    BY <2>1, <1>3, LogsFrame
<1>5. OnlyFile(fl, fl2, p)
  BY <1>2, OwnWrite
<1>6. fl[p].h.mod => p \in Modified(fl)
  BY <1>1 DEF Modified
<1> QED
  BY <1>2, <1>3, <1>4, <1>5, <1>6 DEF FlashOK

\* One step of Copied, from x.
CopyOne(o, old, x, r) ==
  WriteData(x, Entry(o).page + r - 1, 0,
            ReadRegion(x.fl, old.page, old.mod, old.records, r - 1), "merge")

CopyUpTo(o, old, n, f) ==
  f = [r \in 0..n |-> IF r = 0 THEN o ELSE CopyOne(o, old, f[r - 1], r)]

LEMMA CopyExists ==
  ASSUME NEW o, NEW old, NEW n \in Nat
  PROVE  \E f : CopyUpTo(o, old, n, f)
<1> USE DEF CopyUpTo
<1> DEFINE Solves(f, k) == CopyUpTo(o, old, k, f)
           S == {k \in Nat : \E f : Solves(f, k)}
<1>1. 0 \in S
  <2> DEFINE f == [r \in 0..0 |-> o]
  <2>1. Solves(f, 0)
    OBVIOUS
  <2> QED
    BY <2>1
<1>2. ASSUME NEW k \in Nat, k \in S
      PROVE  k + 1 \in S
  <2>1. PICK f : Solves(f, k)
    BY <1>2
  <2> DEFINE g == [r \in 0..(k + 1) |->
                     IF r = k + 1 THEN CopyOne(o, old, f[k], k + 1) ELSE f[r]]
  <2>2. \A r \in 0..k : r \in 0..(k + 1) /\ r # k + 1 /\ g[r] = f[r]
    OBVIOUS
  <2>3. \A r \in 0..(k + 1) : (r = k + 1 \/ r \in 0..k) /\ (r # 0 => r - 1 \in 0..k)
    OBVIOUS
  <2>4. g[k + 1] = CopyOne(o, old, f[k], k + 1) /\ (k + 1) - 1 = k /\ k + 1 # 0
        /\ k \in 0..k
    OBVIOUS
  <2>5. \A r \in 0..k : f[r] = IF r = 0 THEN o ELSE CopyOne(o, old, f[r - 1], r)
    BY <2>1
  <2>6. \A r \in 0..(k + 1) : g[r] = IF r = 0 THEN o ELSE CopyOne(o, old, g[r - 1], r)
    <3> TAKE r \in 0..(k + 1)
    <3> HIDE DEF g
    <3>1. CASE r = k + 1
      BY <3>1, <2>2, <2>4
    <3>2. CASE r \in 0..k
      BY <3>2, <2>2, <2>3, <2>5
    <3> QED
      BY <2>3, <3>1, <3>2
  <2>7. Solves(g, k + 1)
    BY <2>6
  <2> HIDE DEF g, Solves, CopyUpTo
  <2> QED
    BY <2>7
<1> HIDE DEF S, CopyUpTo
<1>3. n \in S
  BY <1>1, <1>2, Induct
<1> QED
  BY <1>3 DEF S

LEMMA CopyEquation ==
  ASSUME NEW o, NEW old, old.end \in Nat
  PROVE  \E f : /\ Copied(o, old) = f[old.end] /\ f[0] = o
                /\ \A k \in 0..(old.end - 1) : f[k + 1] = CopyOne(o, old, f[k], k + 1)
<1> DEFINE n == old.end
           Solves(f) == CopyUpTo(o, old, n, f)
           copy == CHOOSE f : Solves(f)
<1>1. Solves(copy)
  <2>1. \E f : Solves(f)
    <3> HIDE DEF n
    <3>1. n \in Nat
      BY DEF n
    <3> QED
      BY <3>1, CopyExists
  <2> HIDE DEF Solves
  <2> QED
    BY <2>1
<1>2. Copied(o, old) = copy[n]
  BY Zenon DEF Copied, CopyOne, CopyUpTo
<1> HIDE DEF copy, n
<1>3. n \in Nat
  BY DEF n
<1>4. \A r \in 0..n : copy[r] = IF r = 0 THEN o ELSE CopyOne(o, old, copy[r - 1], r)
  BY <1>1 DEF CopyUpTo
<1>5. 0 \in 0..n /\ \A k \in 0..(n - 1) : k + 1 \in 0..n /\ k + 1 # 0 /\ (k + 1) - 1 = k
  BY <1>3
<1>6. copy[0] = o /\ \A k \in 0..(n - 1) : copy[k + 1] = CopyOne(o, old, copy[k], k + 1)
  BY <1>4, <1>5
<1> QED
  BY <1>2, <1>6 DEF n

\* In y a new extent has been reserved to take what the file at page p holds,
\* with file object old.
Merging(y, p, old) ==
  LET new == Entry(y).page
  IN  /\ OpOK(y, {}) /\ y.file \in 1..Slots /\ Entry(y) \in Entries
      /\ new \in FilesOf(y.fl) /\ ~y.fl[new].h.mod /\ IsEnd(y.fl, new, 0)
      /\ p \in FilesOf(y.fl) /\ p # new /\ y.fl[p].h.max <= y.fl[new].h.max
      /\ old \in Entries /\ old.page = p /\ (old.mod <=> y.fl[p].h.mod)
      /\ old.records \in -1..LogRecords
      /\ old.records >= 0 => old.mod /\ LogHas(y.fl, y.fl[p].h.lp, old.records)
      /\ old.end \in Nat /\ IsEnd(y.fl, p, old.end)

\* k regions have been copied from y to z.
Copying(y, z, p, k) ==
  LET new == Entry(y).page
  IN  /\ z \in Ops /\ z.ram = y.ram /\ z.file = y.file /\ z.used = y.used
      /\ FlashOK(z.fl) /\ \A f \in z.past : FlashOK(f)
      /\ "merge" \notin CrashIn => z.past = y.past
      /\ \A q \in Pages : z.fl[q].h = y.fl[q].h
      /\ KeptBut(y.fl, z.fl, {new})
      /\ \A j \in 0..(y.fl[new].h.max - 1) :
           z.fl[new + j].d.v = IF j < k THEN Region(y.fl, p, j) ELSE 0

LEMMA MergingFacts ==
  ASSUME NEW y, NEW p, NEW old, Merging(y, p, old), NEW new, new = Entry(y).page
  PROVE  /\ new \in Pages /\ HDR_ACTIVE(y.fl[new].h) /\ ~y.fl[new].h.log
         /\ p \in Pages /\ HDR_ACTIVE(y.fl[p].h) /\ ~y.fl[p].h.log
         /\ FlashOK(y.fl) /\ Layout(y.fl) /\ y \in Ops
         /\ y.fl[new].h.max \in Nat /\ y.fl[p].h.max \in Nat
         /\ old.end <= y.fl[p].h.max /\ old.end <= y.fl[new].h.max
         /\ \A j \in 0..(y.fl[new].h.max - 1) :
              /\ new + j \in Pages /\ new <= new + j /\ new + j < EndOf(y.fl, new)
<1> USE Sizes
<1>1. /\ new \in Pages /\ HDR_ACTIVE(y.fl[new].h) /\ ~y.fl[new].h.log
      /\ p \in Pages /\ HDR_ACTIVE(y.fl[p].h) /\ ~y.fl[p].h.log
      /\ FlashOK(y.fl) /\ Layout(y.fl) /\ y \in Ops
  BY DEF Merging, FilesOf, OpOK, FlashOK
<1>2. y.fl[new].h.max \in Nat /\ y.fl[p].h.max \in Nat
      /\ \A j \in 0..(y.fl[new].h.max - 1) : new + j \in Pages
  BY <1>1, ActiveExtent
<1>3. old.end \in Nat /\ old.end <= y.fl[p].h.max /\ y.fl[p].h.max <= y.fl[new].h.max
  BY <1>2 DEF Merging, IsEnd
<1> DEFINE m == y.fl[new].h.max
           m2 == y.fl[p].h.max
<1>4. m \in Nat /\ m2 \in Nat /\ old.end \in Nat /\ old.end <= m2 /\ m2 <= m
      /\ EndOf(y.fl, new) = new + m
  BY <1>2, <1>3 DEF EndOf
<1> HIDE DEF m, m2
<1>5. old.end <= m /\ \A j \in 0..(m - 1) : new <= new + j /\ new + j < EndOf(y.fl, new)
  BY <1>1, <1>4, SMTT(60)
<1> QED
  BY <1>1, <1>2, <1>3, <1>5 DEF m

LEMMA CopyStep ==
  ASSUME NEW y, NEW p, NEW old, Merging(y, p, old),
         NEW k \in 0..(old.end - 1), NEW x, Copying(y, x, p, k)
  PROVE  Copying(y, CopyOne(y, old, x, k + 1), p, k + 1)
<1> USE Sizes
<1> DEFINE new == Entry(y).page
           max == y.fl[new].h.max
           v == ReadRegion(x.fl, p, old.mod, old.records, k)
           z == CopyOne(y, old, x, k + 1)
<1>1. /\ new \in Pages /\ HDR_ACTIVE(y.fl[new].h) /\ ~y.fl[new].h.log
      /\ p \in Pages /\ HDR_ACTIVE(y.fl[p].h) /\ ~y.fl[p].h.log
      /\ FlashOK(y.fl) /\ Layout(y.fl)
      /\ max \in Nat /\ y.fl[p].h.max \in Nat
      /\ old.end <= y.fl[p].h.max /\ old.end <= max
      /\ \A j \in 0..(max - 1) :
           /\ new + j \in Pages /\ new <= new + j /\ new + j < EndOf(y.fl, new)
  BY MergingFacts
<1>2. /\ x \in Ops /\ x.ram = y.ram /\ x.file = y.file /\ x.used = y.used
      /\ FlashOK(x.fl) /\ (\A f \in x.past : FlashOK(f))
      /\ ("merge" \notin CrashIn => x.past = y.past)
      /\ (\A q \in Pages : x.fl[q].h = y.fl[q].h)
      /\ KeptBut(y.fl, x.fl, {new})
      /\ \A j \in 0..(max - 1) :
           x.fl[new + j].d.v = IF j < k THEN Region(y.fl, p, j) ELSE 0
  BY DEF Copying
<1>3. /\ p \in FilesOf(y.fl) /\ p # new /\ old.page = p /\ old.mod \in BOOLEAN
      /\ (old.mod <=> y.fl[p].h.mod) /\ old.records \in -1..LogRecords
      /\ (old.records >= 0 => old.mod /\ LogHas(y.fl, y.fl[p].h.lp, old.records))
      /\ old.end \in Nat
  BY EntryFacts DEF Merging
<1>4. k \in Nat /\ k \in 0..(max - 1) /\ k \in 0..(y.fl[p].h.max - 1)
  <2> DEFINE m2 == y.fl[p].h.max
  <2>1. m2 \in Nat /\ old.end <= m2
    BY <1>1
  <2> HIDE DEF max, m2
  <2>2. k \in Nat /\ k \in 0..(max - 1) /\ k \in 0..(m2 - 1)
    BY <2>1, <1>1, <1>3
  <2> QED
    BY <2>2 DEF m2
<1> HIDE DEF max, new
<1>5. SameFile(y.fl, x.fl, p)
  <2>1. Kept(y.fl, x.fl, p)
    BY <1>1, <1>2, <1>3, SMTT(60) DEF KeptBut
  <2>2. ASSUME y.fl[p].h.mod PROVE Kept(y.fl, x.fl, y.fl[p].h.lp)
    <3>1. IsLog(y.fl, y.fl[p].h.lp)
      BY <2>2, <1>1, <1>3, LogPages, SMTT(60)
    <3>2. y.fl[p].h.lp # new
      BY <3>1, <1>1 DEF IsLog
    <3> QED
      BY <3>1, <3>2, <1>2 DEF KeptBut, IsLog
  <2> QED
    BY <2>1, <2>2 DEF SameFile
<1>6. p \in FilesOf(x.fl) /\ new \in FilesOf(x.fl) /\ FilesOf(x.fl) = FilesOf(y.fl)
  BY <1>1, <1>2 DEF FilesOf
<1>7. v = Region(y.fl, p, k)
  <2>1. old.mod <=> x.fl[p].h.mod
    BY <1>1, <1>2, <1>3
  <2>2. ASSUME old.records >= 0
        PROVE  LogHas(x.fl, x.fl[p].h.lp, old.records)
    <3>1. LogHas(y.fl, y.fl[p].h.lp, old.records) /\ x.fl[p].h.lp = y.fl[p].h.lp
      BY <2>2, <1>1, <1>2, <1>3
    <3>2. y.fl[p].h.mod
      BY <2>2, <1>3
    <3>3. IsLog(y.fl, y.fl[p].h.lp) /\ Kept(y.fl, x.fl, y.fl[p].h.lp)
      BY <3>2, <1>1, <1>3, <1>5, LogPages DEF SameFile
    <3> QED
      BY <3>1, <3>3, <1>1, KeptLog
  <2>3. v = Region(x.fl, p, k)
    <3> DEFINE mod == old.mod
               records == old.records
    <3>1. mod \in BOOLEAN /\ (mod <=> x.fl[p].h.mod) /\ records \in -1..LogRecords
          /\ (records >= 0 => LogHas(x.fl, x.fl[p].h.lp, records))
      BY <2>1, <2>2, <1>3
    <3>2. v = ReadRegion(x.fl, p, mod, records, k)
      OBVIOUS
    <3> HIDE DEF mod, records, v
    <3> QED
      BY <3>1, <3>2, <1>2, <1>4, <1>6, ReadIsRegion
  <2>4. Region(x.fl, p, k) = Region(y.fl, p, k)
    BY <1>1, <1>3, <1>4, <1>5, RegionKept
  <2> QED
    BY <2>3, <2>4
<1>8. v \in {0, Dummy} \cup Values
  BY <1>1, <1>3, <1>4, <1>7, RegionValue
<1>9. z = WriteData(x, new + k, 0, v, "merge")
  <2>1. new + (k + 1) - 1 = new + k /\ (k + 1) - 1 = k
    BY <1>1, <1>4
  <2> QED
    BY <2>1, <1>3 DEF CopyOne, new
<1> HIDE DEF v, z
<1>10. new + k \in Pages /\ new <= new + k /\ new + k < EndOf(x.fl, new) /\ 0 \in 0..PageCount
  <2>1. EndOf(x.fl, new) = EndOf(y.fl, new)
    BY <1>1, <1>2 DEF EndOf
  <2>2. new + k \in Pages /\ new <= new + k /\ new + k < EndOf(y.fl, new)
    BY <1>1, <1>4
  <2> QED
    BY <2>1, <2>2
<1> DEFINE d == [i |-> 0, v |-> v]
           at == new + k
<1>18. at \in Pages /\ new <= at /\ at < EndOf(x.fl, new)
  BY <1>10
<1>11. PICK fl2 : DataPut(x.fl, fl2, at, d) /\ OnlyFlash(x, z, fl2, "merge")
  BY <1>2, <1>8, <1>9, <1>10, WriteDataOp
<1>12. d.v = v
  OBVIOUS
<1> HIDE DEF d, at
<1>13. /\ FlashOK(fl2) /\ KeptBut(x.fl, fl2, {new})
       /\ \A q \in Pages : fl2[q].h = x.fl[q].h
  <2>1. FlashOK(x.fl) /\ new \in FilesOf(x.fl) /\ DataPut(x.fl, fl2, at, d)
    BY <1>2, <1>6, <1>11
  <2>2. FlashOK(fl2)
    BY <2>1, <1>18, DataFileOK
  <2>3. KeptBut(x.fl, fl2, {new})
    BY <2>1, <1>18, DataFileOK
  <2>4. \A q \in Pages : fl2[q].h = x.fl[q].h
    BY <2>1, <1>18 DEF DataPut
  <2> QED
    BY <2>2, <2>3, <2>4
<1>14. z \in Ops /\ z.fl = fl2 /\ z.ram = y.ram /\ z.file = y.file /\ z.used = y.used
       /\ (\A f \in z.past : FlashOK(f)) /\ ("merge" \notin CrashIn => z.past = y.past)
  BY <1>2, <1>11, <1>13 DEF OnlyFlash, Past
<1>15. KeptBut(y.fl, fl2, {new})
  BY <1>2, <1>13, KeptTwice
<1>16. \A j \in 0..(max - 1) :
         fl2[new + j].d.v = IF j < k + 1 THEN Region(y.fl, p, j) ELSE 0
  <2> TAKE j \in 0..(max - 1)
  <2>1. CASE j = k
    <3>1. j < k + 1 /\ fl2[new + j].d = d
      BY <2>1, <1>4, <1>11 DEF DataPut, at
    <3> QED
      BY <3>1, <2>1, <1>7, <1>12
  <2>2. CASE j # k
    <3>1. new + j # new + k /\ (j < k + 1 <=> j < k)
      <4>1. j \in Int /\ k \in Int /\ new \in Int
        BY <1>1, <1>4
      <4> QED
        BY <2>2, <4>1
    <3>2. new + j \in Pages
      BY <1>1
    <3>3. fl2[new + j] = x.fl[new + j]
      BY <3>1, <3>2, <1>11 DEF DataPut, at
    <3> QED
      BY <3>1, <3>3, <1>2
  <2> QED
    BY <2>1, <2>2
<1>17. \A q \in Pages : fl2[q].h = y.fl[q].h
  BY <1>2, <1>13
<1> QED
  BY <1>13, <1>14, <1>15, <1>16, <1>17 DEF Copying, z, max, new

\* All regions of the old extent have been copied.
LEMMA CopiedOK ==
  ASSUME NEW y, NEW p, NEW old, Merging(y, p, old)
  PROVE  Copying(y, Copied(y, old), p, old.end)
<1> USE Sizes
<1> DEFINE new == Entry(y).page
           n == old.end
<1>1. n \in Nat
  BY DEF Merging
<1>2. PICK f : /\ Copied(y, old) = f[n] /\ f[0] = y
               /\ \A k \in 0..(n - 1) : f[k + 1] = CopyOne(y, old, f[k], k + 1)
  BY <1>1, CopyEquation
<1>3. Copying(y, y, p, 0)
  <2>1. /\ y \in Ops /\ FlashOK(y.fl) /\ (\A g \in y.past : FlashOK(g))
        /\ IsEnd(y.fl, new, 0)
    BY DEF Merging, OpOK
  <2>2. KeptBut(y.fl, y.fl, {new})
    BY SelfKept
  <2>3. y.fl[new].h.max \in Nat
    BY MergingFacts
  <2>4. \A j \in 0..(y.fl[new].h.max - 1) :
          y.fl[new + j].d.v = IF j < 0 THEN Region(y.fl, p, j) ELSE 0
    BY <2>1, <2>3 DEF IsEnd
  <2> QED
    BY <2>1, <2>2, <2>4 DEF Copying
<1> DEFINE S == {k \in Nat : k <= n => Copying(y, f[k], p, k)}
<1>4. 0 \in S
  BY <1>2, <1>3
<1>5. ASSUME NEW k \in Nat, k \in S PROVE k + 1 \in S
  <2>1. CASE k + 1 <= n
    <3>1. k \in 0..(n - 1) /\ k <= n
      BY <2>1, <1>1
    <3>2. Copying(y, f[k], p, k)
      BY <3>1, <1>5
    <3>3. Copying(y, CopyOne(y, old, f[k], k + 1), p, k + 1)
      BY <3>1, <3>2, CopyStep
    <3> QED
      BY <3>1, <3>3, <1>2
  <2>2. CASE ~(k + 1 <= n)
    BY <2>2
  <2> QED
    BY <2>1, <2>2
<1> HIDE DEF S
<1>6. n \in S
  BY <1>1, <1>4, <1>5, Induct
<1> QED
  BY <1>1, <1>2, <1>6 DEF S

\* File p of fl is file P of fl2, all others are the same.
Change(fl, fl2, p, P) ==
  /\ P = p \/ P \notin FilesOf(fl)
  /\ FilesOf(fl2) = (FilesOf(fl) \ {p}) \cup {P}
  /\ fl2[P].h.name = fl[p].h.name
  /\ \A q \in FilesOf(fl) : q # p => SameFile(fl, fl2, q)

\* ... and holds the same.
Same(fl, fl2, p, P) ==
  /\ Change(fl, fl2, p, P)
  /\ \A e : IsEnd(fl, p, e) =>
       /\ IsEnd(fl2, P, e)
       /\ \A j \in 0..(e - 1) : Region(fl2, P, j) = Region(fl, p, j)

\* ... or holds v as region r besides.
Done(fl, fl2, p, P, r, v) ==
  /\ Change(fl, fl2, p, P)
  /\ \A e : IsEnd(fl, p, e) /\ r <= e =>
       LET e2 == IF r < e THEN e ELSE r + 1
       IN  /\ IsEnd(fl2, P, e2)
           /\ \A j \in 0..(e2 - 1) :
                Region(fl2, P, j) = IF j = r THEN v ELSE Region(fl, p, j)

LEMMA SameFileTwice ==
  ASSUME NEW fl, NEW fl2, NEW fl3, NEW q, SameFile(fl, fl2, q), SameFile(fl2, fl3, q)
  PROVE  SameFile(fl, fl3, q)
<1>1. Kept(fl, fl3, q)
  BY SMTT(60) DEF SameFile, Kept, EndOf
<1>2. ASSUME fl[q].h.mod PROVE Kept(fl, fl3, fl[q].h.lp)
  BY <1>2 DEF SameFile, Kept, EndOf
<1> QED
  BY <1>1, <1>2 DEF SameFile

LEMMA ChangeTwice ==
  ASSUME NEW fl, NEW fl2, NEW fl3, NEW p, NEW q, NEW P, p \in FilesOf(fl),
         Change(fl, fl2, p, q), Change(fl2, fl3, q, P)
  PROVE  Change(fl, fl3, p, P)
<1>1. P = p \/ P \notin FilesOf(fl)
  BY DEF Change
<1>2. FilesOf(fl3) = (FilesOf(fl) \ {p}) \cup {P}
  BY DEF Change
<1>3. fl3[P].h.name = fl[p].h.name
  BY DEF Change
<1>4. ASSUME NEW x \in FilesOf(fl), x # p PROVE SameFile(fl, fl3, x)
  <2>1. x # q /\ x \in FilesOf(fl2) /\ SameFile(fl, fl2, x)
    BY <1>4 DEF Change
  <2>2. SameFile(fl2, fl3, x)
    BY <2>1 DEF Change
  <2> QED
    BY <2>1, <2>2, SameFileTwice
<1> QED
  BY <1>1, <1>2, <1>3, <1>4 DEF Change

LEMMA SameThen ==
  ASSUME NEW fl, NEW fl2, NEW fl3, NEW p, NEW q, NEW P, p \in FilesOf(fl),
         Same(fl, fl2, p, q)
  PROVE  /\ Same(fl2, fl3, q, P) => Same(fl, fl3, p, P)
         /\ \A r \in Nat : \A v : Done(fl2, fl3, q, P, r, v) => Done(fl, fl3, p, P, r, v)
<1>1. ASSUME Same(fl2, fl3, q, P) PROVE Same(fl, fl3, p, P)
  <2>1. Change(fl, fl3, p, P)
    BY <1>1, ChangeTwice DEF Same
  <2>2. ASSUME NEW e, IsEnd(fl, p, e)
        PROVE  /\ IsEnd(fl3, P, e)
               /\ \A j \in 0..(e - 1) : Region(fl3, P, j) = Region(fl, p, j)
    <3>1. /\ IsEnd(fl2, q, e)
          /\ \A j \in 0..(e - 1) : Region(fl2, q, j) = Region(fl, p, j)
      BY <2>2 DEF Same
    <3>2. /\ IsEnd(fl3, P, e)
          /\ \A j \in 0..(e - 1) : Region(fl3, P, j) = Region(fl2, q, j)
      BY <1>1, <3>1 DEF Same
    <3> QED
      BY <3>1, <3>2
  <2> QED
    BY <2>1, <2>2 DEF Same
<1>2. ASSUME NEW r \in Nat, NEW v, Done(fl2, fl3, q, P, r, v) PROVE Done(fl, fl3, p, P, r, v)
  <2>1. Change(fl, fl3, p, P)
    BY <1>2, ChangeTwice DEF Same, Done
  <2>2. ASSUME NEW e, IsEnd(fl, p, e), r <= e, NEW e2, e2 = IF r < e THEN e ELSE r + 1
        PROVE  /\ IsEnd(fl3, P, e2)
               /\ \A j \in 0..(e2 - 1) :
                    Region(fl3, P, j) = IF j = r THEN v ELSE Region(fl, p, j)
    <3>1. /\ IsEnd(fl2, q, e)
          /\ \A j \in 0..(e - 1) : Region(fl2, q, j) = Region(fl, p, j)
      BY <2>2 DEF Same
    <3>2. /\ IsEnd(fl3, P, e2)
          /\ \A j \in 0..(e2 - 1) :
               Region(fl3, P, j) = IF j = r THEN v ELSE Region(fl2, q, j)
      BY <1>2, <2>2, <3>1 DEF Done
    <3>4. e \in Nat
      <4>1. IsEnd(fl, p, e)
        BY <2>2
      <4> QED
        BY <4>1 DEF IsEnd
    <3>3. ASSUME NEW j \in 0..(e2 - 1), j # r
          PROVE  j \in 0..(e - 1)
      BY <3>3, <3>4, <2>2
    <3> QED
      BY <3>1, <3>2, <3>3
  <2> QED
    BY <2>1, <2>2 DEF Done
<1> QED
  BY <1>1, <1>2

\* The reservation of a new extent for file p is followed by the copying.
LEMMA MadeMerging ==
  ASSUME NEW o, NEW p, Holds(o, {}, p), NEW h, ~h.log, ~h.mod,
         o.fl[p].h.max <= h.max, NEW kind, NEW y, Made(o, y, h, kind)
  PROVE  /\ Merging(y, p, Entry(o)) /\ SameFile(o.fl, y.fl, p)
         /\ y.ram.files[o.file] = Entry(o) /\ Entry(y).page \notin FilesOf(o.fl)
<1> USE Sizes
<1> DEFINE new == Entry(y).page
           old == Entry(o)
<1>1. /\ OpOK(y, {}) /\ y.used = o.used /\ y.file \in 1..Slots /\ y.file \notin o.used
      /\ (\A s \in o.used : y.ram.files[s] = o.ram.files[s])
      /\ Entry(y) \in Entries /\ y.fl[new].h = h /\ IsEnd(y.fl, new, 0)
      /\ KeptBut(o.fl, y.fl, {}) /\ ~HDR_ACTIVE(o.fl[new].h)
      /\ FilesOf(y.fl) = FilesOf(o.fl) \cup {new}
  BY ZenonT(60) DEF Made, Entry
<1>2. /\ p \in FilesOf(o.fl) /\ old \in Entries /\ old.page = p /\ old.end >= 0
      /\ o.used = {o.file} /\ o.file \in 1..Slots
  BY DEF Holds
<1>3. /\ FlashOK(o.fl) /\ Layout(o.fl) /\ p \in Pages /\ HDR_ACTIVE(o.fl[p].h)
      /\ EntryOK(o.fl, old) /\ EndOK(o.fl, old) /\ old = o.ram.files[o.file]
      /\ (old.mod <=> o.fl[p].h.mod) /\ old.records \in -1..LogRecords
      /\ old.end \in Nat /\ ~o.fl[p].h.log
  BY HoldsFacts, EntryFacts, <1>2
<1>4. Kept(o.fl, y.fl, p) /\ y.fl[p].h = o.fl[p].h
  BY <1>1, <1>3, SMTT(60) DEF KeptBut, Kept
<1>5. ASSUME o.fl[p].h.mod PROVE IsLog(o.fl, o.fl[p].h.lp) /\ Kept(o.fl, y.fl, o.fl[p].h.lp)
  <2>1. IsLog(o.fl, o.fl[p].h.lp)
    BY <1>2, <1>3, <1>5, LogPages, SMTT(60)
  <2> QED
    BY <2>1, <1>1 DEF KeptBut, IsLog
<1>6. SameFile(o.fl, y.fl, p)
  BY <1>4, <1>5 DEF SameFile
<1>7. y.ram.files[o.file] = old
  BY <1>1, <1>2, <1>3, SMTT(60)
<1>8. p # new /\ new \notin FilesOf(o.fl)
  BY <1>1, <1>3, SMTT(60) DEF FilesOf
<1>9. ASSUME old.records >= 0 PROVE old.mod /\ LogHas(y.fl, y.fl[p].h.lp, old.records)
  <2>1. old.mod /\ LogHas(o.fl, o.fl[p].h.lp, old.records)
    BY <1>2, <1>3, <1>9, SMTT(60) DEF EntryOK
  <2> QED
    BY <2>1, <1>3, <1>4, <1>5, KeptLog, SMTT(60)
<1>10. IsEnd(y.fl, p, old.end)
  <2>1. IsEnd(o.fl, p, old.end)
    BY <1>2, <1>3, SMTT(60) DEF EndOK
  <2> QED
    BY <2>1, <1>3, <1>4, KeptEnd
<1> HIDE DEF old, new
<1>11. Merging(y, p, old)
  BY <1>1, <1>2, <1>3, <1>4, <1>8, <1>9, <1>10 DEF Merging, new
<1> QED
  BY <1>6, <1>7, <1>8, <1>11, SMTT(60) DEF old, new

\* The copy is in order, but for the end that the file object does not know yet.
LEMMA CopyHolds ==
  ASSUME NEW y, NEW p, NEW old, Merging(y, p, old), NEW c, Copying(y, c, p, old.end)
  PROVE  LET new == Entry(y).page
         IN  /\ OpOK(c, {y.file}) /\ IsEnd(c.fl, new, old.end)
             /\ FilesOf(c.fl) = FilesOf(y.fl)
             /\ \A q \in FilesOf(y.fl) : q # new => SameFile(y.fl, c.fl, q)
             /\ \A j \in 0..(old.end - 1) : c.fl[new + j].d.v = Region(y.fl, p, j)
<1> USE Sizes
<1> DEFINE new == Entry(y).page
           max == y.fl[new].h.max
           e == Entry(y)
           end == old.end
<1>1. /\ new \in Pages /\ HDR_ACTIVE(y.fl[new].h) /\ ~y.fl[new].h.log
      /\ p \in Pages /\ HDR_ACTIVE(y.fl[p].h) /\ ~y.fl[p].h.log
      /\ FlashOK(y.fl) /\ Layout(y.fl) /\ y \in Ops
      /\ max \in Nat /\ end <= max /\ end <= y.fl[p].h.max /\ y.fl[p].h.max \in Nat
  BY MergingFacts
<1>2. /\ c \in Ops /\ c.ram = y.ram /\ c.file = y.file /\ c.used = y.used
      /\ FlashOK(c.fl) /\ (\A f \in c.past : FlashOK(f))
      /\ (\A q \in Pages : c.fl[q].h = y.fl[q].h)
      /\ KeptBut(y.fl, c.fl, {new})
      /\ \A j \in 0..(max - 1) :
           c.fl[new + j].d.v = IF j < end THEN Region(y.fl, p, j) ELSE 0
  BY DEF Copying
<1>3. /\ OpOK(y, {}) /\ y.file \in 1..Slots /\ e \in Entries
      /\ new \in FilesOf(y.fl) /\ ~y.fl[new].h.mod /\ p \in FilesOf(y.fl)
      /\ end \in Nat /\ IsEnd(y.fl, p, end)
  BY SMTT(60) DEF Merging
<1>4. OnlyFile(y.fl, c.fl, new)
  <2> DEFINE r == new
  <2>1. KeptBut(y.fl, c.fl, {r}) /\ r = new
    BY <1>2
  <2> HIDE DEF r
  <2> QED
    BY <2>1, <1>1, <1>2, <1>3, OwnWrite
<1>5. SameShape(y.fl, c.fl)
  BY <1>2, SMTT(60) DEF SameShape
<1>6. e = y.ram.files[y.file] /\ e # NoEntry
  BY <1>3, EntryFacts DEF Entry
<1>7. EntryOK(c.fl, e)
  <2>1. EntryOK(y.fl, e) /\ CacheOK(y.fl, y.ram.files, {})
    BY <1>3, <1>6 DEF OpOK, CacheOK
  <2>2. c.fl[e.page].h = y.fl[e.page].h
    BY <1>1, <1>2
  <2>3. ~(e.records >= 0)
    BY <2>1, <1>3, SMTT(60) DEF EntryOK
  <2> HIDE DEF e
  <2> QED
    BY <2>1, <2>2, <2>3, SMTT(60) DEF EntryOK
<1>8. SlotPut(y.ram.files, c.ram.files, y.file, e)
  BY <1>2, <1>6, ZenonT(60) DEF SlotPut
<1>9. OpOK(c, {y.file})
  <2> DEFINE s == y.file
             Y == {s}
             X == {}
  <2>1. s \in 1..Slots /\ X \subseteq Y \cup {s} /\ (s \notin Y => EndOK(c.fl, e))
        /\ OpOK(y, X) /\ y.ram.files[s] \in Entries /\ e.page = y.ram.files[s].page
        /\ OnlyFile(y.fl, c.fl, e.page) /\ c.ram.next_free = y.ram.next_free
        /\ c.ram.gc_wait = y.ram.gc_wait /\ SlotPut(y.ram.files, c.ram.files, s, e)
    BY <1>2, <1>3, <1>4, <1>6, <1>8, ZenonT(60)
  <2> HIDE DEF s, Y, X, e
  <2>2. OpOK(c, Y)
    BY <2>1, <1>2, <1>3, <1>5, <1>7, Rewritten, ZenonT(60) DEF e
  <2> QED
    BY <2>2, SMTT(60) DEF s, Y
<1> HIDE DEF max, new, end
<1>10. \A j \in 0..(end - 1) : c.fl[new + j].d.v = Region(y.fl, p, j)
  <2> TAKE j \in 0..(end - 1)
  <2>1. j \in 0..(max - 1) /\ j < end
    BY <1>1, <1>3
  <2> QED
    BY <2>1, <1>2
<1>11. IsEnd(c.fl, new, end)
  <2>1. c.fl[new].h.max = max
    BY <1>1, <1>2 DEF max
  <2>2. \A j \in 0..(max - 1) : end <= j => c.fl[new + j].d.v = 0
    <3> TAKE j \in 0..(max - 1)
    <3>1. end <= j => ~(j < end)
      BY <1>1, <1>3
    <3> QED
      BY <3>1, <1>2
  <2>3. ASSUME end > 0 PROVE c.fl[new + end - 1].d.v # 0
    <3>1. end - 1 \in 0..(end - 1) /\ end - 1 \in 0..(y.fl[p].h.max - 1)
          /\ new + (end - 1) = new + end - 1 /\ p + (end - 1) = p + end - 1
      <4> DEFINE m2 == y.fl[p].h.max
      <4>1. m2 \in Nat /\ end <= m2 /\ p \in Nat /\ new \in Nat
        BY <1>1
      <4> HIDE DEF m2
      <4>2. end - 1 \in 0..(end - 1) /\ end - 1 \in 0..(m2 - 1)
        BY <4>1, <2>3, <1>3
      <4>3. new + (end - 1) = new + end - 1 /\ p + (end - 1) = p + end - 1
        BY <4>1, <1>3
      <4> QED
        BY <4>2, <4>3 DEF m2
    <3>2. y.fl[p + (end - 1)].d.v # 0
      BY <2>3, <3>1, <1>3 DEF IsEnd
    <3>3. Region(y.fl, p, end - 1) # 0
      BY <3>1, <3>2, <1>1, <1>3, RegionValue
    <3>4. c.fl[new + (end - 1)].d.v = Region(y.fl, p, end - 1)
      BY <3>1, <1>10
    <3> QED
      BY <3>1, <3>3, <3>4
  <2>4. end \in 0..c.fl[new].h.max
    BY <2>1, <1>1, <1>3
  <2> QED
    BY <2>1, <2>2, <2>3, <2>4 DEF IsEnd
<1>12. FilesOf(c.fl) = FilesOf(y.fl)
  BY <1>2 DEF FilesOf
<1>13. \A q \in FilesOf(y.fl) : q # new => SameFile(y.fl, c.fl, q)
  BY <1>4 DEF OnlyFile
<1> QED
  BY <1>9, <1>10, <1>11, <1>12, <1>13 DEF new, end

\* z is o with file p moved to a new extent of m pages, and its log merged in.
Moved(o, z, p, m) ==
  LET P == Entry(z).page
  IN  /\ Holds(z, {}, P) /\ Same(o.fl, z.fl, p, P)
      /\ ~z.fl[P].h.mod /\ z.fl[P].h.max = m /\ Entry(z).end = Entry(o).end
      /\ "merge" \notin CrashIn => z.past = o.past

\* The file object of the new extent learns its end.
WithEnd(e, end) == [e EXCEPT !.end = end]

LEMMA WithEndFacts ==
  ASSUME NEW e \in Entries, NEW end \in Int
  PROVE  /\ WithEnd(e, end) \in Entries /\ WithEnd(e, end).end = end
         /\ WithEnd(e, end).page = e.page /\ WithEnd(e, end).max = e.max
         /\ WithEnd(e, end).mod = e.mod /\ WithEnd(e, end).records = e.records
BY DEF WithEnd, Entries

LEMMA ReplacedIs ==
  ASSUME NEW d \in Ops, NEW s \in 1..Slots, d.ram.files[s] \in Entries,
         NEW old, old.end \in Int, ~HDR_ACTIVE(read_header(d.fl, old.page))
  PROVE  LET e == WithEnd(d.ram.files[s], old.end)
             z == Replaced(d, s, old)
         IN  /\ EntryPut(d, WithEntry(d, s, e), s, e)
             /\ z \in Ops /\ z.fl = d.fl /\ z.past = d.past /\ z.used = {s} /\ z.file = s
             /\ z.ram = WithEntry(d, s, e).ram
<1> DEFINE e == WithEnd(d.ram.files[s], old.end)
           x == WithEntry(d, s, e)
           z == Replaced(d, s, old)
<1>1. e \in Entries
  BY WithEndFacts
<1>2. EntryPut(d, x, s, e) /\ x.file = d.file
  BY <1>1, WithEntryOp
<1>3. x \in Ops /\ x.fl = d.fl /\ x.past = d.past
  BY <1>2 DEF EntryPut
<1>4. z = WithFile(WithUsed(x, {s}), s)
  BY DEF Replaced, WithEntry, WithFile, WithUsed, WithEnd, Ops, Rams
<1> HIDE DEF x, e
<1>5. {s} \in SUBSET (1..Slots) /\ s \in 0..Slots
  BY Sizes
<1> DEFINE u == WithUsed(x, {s})
<1>6. u \in Ops /\ u.fl = d.fl /\ u.past = d.past /\ u.used = {s} /\ u.ram = x.ram
  BY <1>3, <1>5, WithUsedOp
<1>8. z = WithFile(u, s)
  BY <1>4
<1> HIDE DEF u, z
<1>7. z \in Ops /\ z.fl = d.fl /\ z.past = d.past /\ z.used = {s} /\ z.ram = x.ram /\ z.file = s
  BY <1>5, <1>6, <1>8, WithFileOp
<1> QED
  BY <1>2, <1>7 DEF x, e, z

LEMMA KeptSame ==
  ASSUME NEW fl, FlashOK(fl), NEW fl2, KeptBut(fl, fl2, {}), NEW q \in FilesOf(fl)
  PROVE  SameFile(fl, fl2, q)
<1>1. Kept(fl, fl2, q)
  BY DEF KeptBut, FilesOf
<1>2. ASSUME fl[q].h.mod PROVE Kept(fl, fl2, fl[q].h.lp)
  BY <1>2, LogPages DEF KeptBut, IsLog
<1> QED
  BY <1>1, <1>2 DEF SameFile

LEMMA MergeMoves ==
  ASSUME NEW o, NEW p, Holds(o, {}, p), NEW h, ~h.log, ~h.mod,
         h.name = o.fl[p].h.name, o.fl[p].h.max <= h.max,
         NEW y, Made(o, y, h, "merge"), "remove" \notin CrashIn
  PROVE  Moved(o, MergeInto(y, Entry(o)), p, h.max)
<1> USE Sizes
<1> DEFINE new == Entry(y).page
           old == Entry(o)
           end == old.end
           s == y.file
           c == Copied(y, old)
           d == remove_by_page(c, p)
           z == Replaced(d, s, old)
<1>1. /\ Merging(y, p, old) /\ SameFile(o.fl, y.fl, p) /\ new \notin FilesOf(o.fl)
  BY MadeMerging
<1>2. Copying(y, c, p, end)
  BY <1>1, CopiedOK
<1> HIDE DEF c
<1>3. /\ OpOK(c, {s}) /\ IsEnd(c.fl, new, end) /\ FilesOf(c.fl) = FilesOf(y.fl)
      /\ (\A q \in FilesOf(y.fl) : q # new => SameFile(y.fl, c.fl, q))
      /\ \A j \in 0..(end - 1) : c.fl[new + j].d.v = Region(y.fl, p, j)
  BY <1>1, <1>2, CopyHolds, ZenonT(60)
<1>4. /\ c \in Ops /\ c.ram = y.ram /\ c.file = s /\ c.used = y.used
      /\ ("merge" \notin CrashIn => c.past = y.past)
      /\ (\A q \in Pages : c.fl[q].h = y.fl[q].h)
  BY <1>2 DEF Copying
<1>5. /\ OpOK(y, {}) /\ y.used = o.used /\ s \in 1..Slots
      /\ Entry(y) \in Entries /\ y.fl[new].h = h
      /\ KeptBut(o.fl, y.fl, {}) /\ ~HDR_ACTIVE(o.fl[new].h)
      /\ FilesOf(y.fl) = FilesOf(o.fl) \cup {new}
      /\ y.past = Past(o.past, y.fl, "merge") /\ y.ram.files[s] = Entry(y)
      /\ FlashOK(y.fl)
  BY DEF Made, Entry, OpOK
<1>6. /\ p \in FilesOf(o.fl) /\ old \in Entries /\ old.page = p /\ end \in Nat
      /\ p \in FilesOf(y.fl) /\ p # new /\ new \in FilesOf(y.fl) /\ end \in Int
      /\ FlashOK(o.fl) /\ Layout(o.fl) /\ p \in Pages /\ HDR_ACTIVE(o.fl[p].h)
      /\ IsEnd(o.fl, p, end)
  <2>1. /\ old \in Entries /\ old.page = p /\ end \in Nat /\ end >= 0
        /\ p \in FilesOf(y.fl) /\ p # new /\ new \in FilesOf(y.fl)
    BY <1>1 DEF Merging
  <2>2. FlashOK(o.fl) /\ Layout(o.fl) /\ p \in Pages /\ HDR_ACTIVE(o.fl[p].h)
        /\ EndOK(o.fl, old) /\ ~o.fl[p].h.log /\ p \in FilesOf(o.fl)
    BY HoldsFacts DEF Holds
  <2>3. IsEnd(o.fl, p, end)
    BY <2>1, <2>2 DEF EndOK
  <2> QED
    BY <2>1, <2>2, <2>3
<1>7. OpOK(d, {s}) /\ Without(c, d, p)
  <2> DEFINE X == {s}
  <2>1. OpOK(c, X) /\ p \in FilesOf(c.fl)
    BY <1>3, <1>6
  <2> HIDE DEF X, d, s
  <2>2. OpOK(d, X) /\ Without(c, d, p)
    BY <2>1, RemoveByPage DEF d
  <2> QED
    BY <2>2 DEF X
<1> HIDE DEF d
<1>8. /\ d \in Ops /\ FlashOK(d.fl) /\ Layout(d.fl) /\ d.past = c.past
      /\ FilesOf(d.fl) = FilesOf(c.fl) \ {p} /\ ~HDR_ACTIVE(d.fl[p].h)
      /\ (\A q \in FilesOf(c.fl) : q # p => SameFile(c.fl, d.fl, q))
      /\ CacheOK(d.fl, d.ram.files, {s}) /\ \A f \in d.past : FlashOK(f)
  BY <1>7 DEF Without, OpOK, FlashOK
<1>9. d.ram.files[s] = Entry(y) /\ new \in FilesOf(d.fl)
  <2>1. new \in FilesOf(d.fl)
    BY <1>3, <1>6, <1>8
  <2>2. c.ram.files[s] = Entry(y) /\ Entry(y) # NoEntry
    BY <1>4, <1>5, EntryFacts
  <2> QED
    BY <2>1, <2>2, <1>5, <1>7 DEF Without
<1>10. MergeInto(y, old) = z
  BY <1>5, <1>6, Sizes DEF MergeInto, d, c
<1> DEFINE e == WithEnd(Entry(y), end)
<1>11. /\ e \in Entries /\ e.end = end /\ e.page = new /\ e.max = Entry(y).max
       /\ e.mod = Entry(y).mod /\ e.records = Entry(y).records
  BY <1>5, <1>6, WithEndFacts, ZenonT(60)
<1>12. /\ EntryPut(d, WithEntry(d, s, e), s, e)
       /\ z \in Ops /\ z.fl = d.fl /\ z.past = d.past /\ z.used = {s} /\ z.file = s
       /\ z.ram = WithEntry(d, s, e).ram
  <2>1. ~HDR_ACTIVE(read_header(d.fl, old.page))
    BY <1>6, <1>8, ReadActive
  <2>2. d \in Ops /\ s \in 1..Slots /\ d.ram.files[s] \in Entries /\ old.end \in Int
    BY <1>5, <1>6, <1>8, <1>9
  <2> HIDE DEF s
  <2> QED
    BY <2>1, <2>2, <1>9, ReplacedIs
<1> HIDE DEF z, e, end, s
<1>13. /\ z.ram.next_free = d.ram.next_free /\ z.ram.gc_wait = d.ram.gc_wait
       /\ SlotPut(d.ram.files, z.ram.files, s, e)
  <2>1. z.ram.next_free = d.ram.next_free /\ z.ram.gc_wait = d.ram.gc_wait
        /\ z.ram.files = [d.ram.files EXCEPT ![s] = e]
    BY <1>12 DEF EntryPut
  <2>2. d.ram.files \in [1..Slots -> Entries \cup {NoEntry}]
    BY <1>8, OpFields DEF Objects
  <2> QED
    BY <2>1, <2>2, <1>5 DEF SlotPut
<1>14. SameFile(c.fl, d.fl, new) /\ Kept(c.fl, d.fl, new)
  BY <1>3, <1>6, <1>8 DEF SameFile
<1>15. new \in Pages /\ HDR_ACTIVE(c.fl[new].h) /\ Layout(c.fl) /\ FlashOK(c.fl)
       /\ d.fl[new].h = h /\ c.fl[new].h = h
  BY <1>3, <1>4, <1>5, <1>6, <1>14 DEF OpOK, FlashOK, FilesOf, Kept
<1>16. IsEnd(d.fl, new, end)
  BY <1>3, <1>14, <1>15, KeptEnd
<1>17. EntryOK(d.fl, e) /\ EndOK(d.fl, e)
  <2>1. EntryOK(d.fl, Entry(y))
    BY <1>5, <1>8, <1>9, EntryFacts DEF CacheOK
  <2>2. end \in -1..e.max
    <3>1. end \in 0..d.fl[new].h.max
      BY <1>16 DEF IsEnd
    <3>2. e.max = d.fl[new].h.max
      BY <2>1, <1>11 DEF EntryOK
    <3>3. d.fl[new].h.max \in Int
      BY <1>8, <1>15, FlashFacts DEF Layout
    <3> QED
      BY <3>1, <3>2, <3>3
  <2>3. EndOK(d.fl, e)
    BY <1>11, <1>16 DEF EndOK
  <2>4. EntryOK(d.fl, e)
    BY <2>1, <2>2, <1>11 DEF EntryOK
  <2> QED
    BY <2>3, <2>4
<1>18. OpOK(z, {})
  <2> DEFINE X == {s}
             Y == {}
  <2>1. X \subseteq Y \cup {s} /\ OpOK(d, X) /\ (s \notin Y => EndOK(z.fl, e))
    BY <1>7, <1>12, <1>17
  <2>2. OnlyFile(d.fl, z.fl, e.page) /\ SameShape(d.fl, z.fl)
    BY <1>12 DEF OnlyFile, SameFile, Kept, SameShape
  <2>3. FlashOK(z.fl) /\ (\A f \in z.past : FlashOK(f)) /\ EntryOK(z.fl, e)
    BY <1>8, <1>12, <1>17
  <2>4. d.ram.files[s] \in Entries /\ e.page = d.ram.files[s].page
    BY <1>5, <1>9, <1>11
  <2> HIDE DEF X, Y
  <2>6. z \in Ops /\ s \in 1..Slots /\ e \in Entries
        /\ z.ram.next_free = d.ram.next_free /\ z.ram.gc_wait = d.ram.gc_wait
        /\ SlotPut(d.ram.files, z.ram.files, s, e)
    BY <1>5, <1>11, <1>12, <1>13
  <2>5. OpOK(z, Y)
    BY ONLY <2>1, <2>2, <2>3, <2>4, <2>6, Rewritten
  <2> QED
    BY <2>5 DEF Y
<1>19. Entry(z) = e /\ Holds(z, {}, new)
  <2>1. Entry(z) = e
    BY <1>12, <1>13 DEF Entry, SlotPut
  <2> QED
    BY <2>1, <1>5, <1>6, <1>9, <1>11, <1>12, <1>18 DEF Holds
<1>20. Change(o.fl, z.fl, p, new)
  <2>1. FilesOf(z.fl) = (FilesOf(o.fl) \ {p}) \cup {new}
    BY <1>3, <1>5, <1>6, <1>8, <1>12
  <2>2. ASSUME NEW q \in FilesOf(o.fl), q # p PROVE SameFile(o.fl, z.fl, q)
    <3>1. SameFile(o.fl, y.fl, q)
      BY <1>5, <1>6, KeptSame
    <3>2. q \in FilesOf(y.fl) /\ q # new /\ q \in FilesOf(c.fl)
      BY <1>1, <1>3, <1>5
    <3>3. SameFile(y.fl, c.fl, q) /\ SameFile(c.fl, d.fl, q)
      BY <3>2, <2>2, <1>3, <1>8
    <3> QED
      BY <3>1, <3>3, <1>12, SameFileTwice
  <2>3. z.fl[new].h.name = o.fl[p].h.name
    BY <1>12, <1>15
  <2> QED
    BY <2>1, <2>2, <2>3, <1>1 DEF Change
<1>21. \A j \in 0..(end - 1) : Region(z.fl, new, j) = Region(o.fl, p, j)
  <2> TAKE j \in 0..(end - 1)
  <2>1. j \in 0..(o.fl[p].h.max - 1)
    <3> DEFINE m2 == o.fl[p].h.max
    <3>1. end \in 0..m2 /\ m2 \in Int
      BY <1>6, FlashFacts DEF IsEnd, Layout
    <3> HIDE DEF m2
    <3>2. j \in 0..(m2 - 1)
      BY <3>1
    <3> QED
      BY <3>2 DEF m2
  <2>2. Region(y.fl, p, j) = Region(o.fl, p, j)
    BY <2>1, <1>1, <1>6, RegionKept
  <2>3. j \in 0..(c.fl[new].h.max - 1) /\ new \in FilesOf(c.fl)
    <3> DEFINE m2 == c.fl[new].h.max
    <3>1. end \in 0..m2 /\ m2 \in Int
      BY <1>3, <1>15, FlashFacts DEF IsEnd, Layout
    <3> HIDE DEF m2
    <3>2. j \in 0..(m2 - 1)
      BY <3>1
    <3> QED
      BY <3>2, <1>3, <1>6 DEF m2
  <2>4. Region(d.fl, new, j) = Region(c.fl, new, j)
    BY <2>3, <1>14, <1>15, RegionKept
  <2>5. Region(c.fl, new, j) = c.fl[new + j].d.v
    BY <1>15 DEF Region
  <2> QED
    BY <2>2, <2>4, <2>5, <1>3, <1>12
<1>22. Same(o.fl, z.fl, p, new)
  <2>1. ASSUME NEW x, IsEnd(o.fl, p, x) PROVE x = end
    BY <2>1, <1>6, FileEnd
  <2> QED
    BY <2>1, <1>12, <1>16, <1>20, <1>21 DEF Same
<1>23. "merge" \notin CrashIn => z.past = o.past
  BY <1>4, <1>5, <1>8, <1>12 DEF Past
<1>24. ~z.fl[new].h.mod /\ z.fl[new].h.max = h.max
  BY <1>12, <1>15
<1> QED
  BY <1>10, <1>11, <1>19, <1>22, <1>23, <1>24 DEF Moved, end

\* merge_log: the file has moved, or there was no room.
LEMMA MergeLog ==
  ASSUME NEW o, NEW p, Holds(o, {}, p), NEW extend \in BOOLEAN,
         "gc" \notin CrashIn, "remove" \notin CrashIn
  PROVE  LET max == o.fl[p].h.max
             z == merge_log(o, extend)
         IN  /\ z.file # 0 => Moved(o, z, p, IF extend THEN 2 * max ELSE max)
             /\ z.file = 0 => Unmade(o, z)
<1> USE Sizes
<1> DEFINE max == o.fl[p].h.max
           m == IF extend THEN 2 * max ELSE max
           h == Header(o.fl[p].h.name, m, FALSE)
           y == reserve(o, h, "merge")
           z == merge_log(o, extend)
<1>1. /\ o \in Ops /\ FlashOK(o.fl) /\ Layout(o.fl) /\ UsedOK(o)
      /\ p \in Pages /\ HDR_ACTIVE(o.fl[p].h) /\ Entry(o).page = p /\ OpOK(o, {})
  BY HoldsFacts DEF Holds
<1>2. /\ max \in Nat /\ max > 0 /\ Aligned(max)
      /\ o.fl[p].h.name \in Names \cup {Nobody}
  BY <1>1, ActiveExtent DEF Headers
<1> HIDE DEF max
<1>3. m \in Nat /\ m > 0 /\ Aligned(m) /\ max <= m
  <2>1. max + max = 2 * max
    BY <1>2
  <2>2. Aligned(max + max)
    BY <1>2, AlignedFacts
  <2>3. Aligned(2 * max)
    BY <2>1, <2>2
  <2> QED
    BY <2>3, <1>2
<1> HIDE DEF m
<1>4. NewHeader(h) /\ h.name = o.fl[p].h.name /\ h.max = m /\ ~h.log /\ ~h.mod
  <2>1. NewHeader(h) /\ h.name = o.fl[p].h.name /\ h.max = m /\ ~h.log
    BY <1>2, <1>3, FileHeader, ZenonT(60)
  <2> QED
    BY <2>1 DEF NewHeader
<1>5. z = MergeInto(y, Entry(o))
  <2>1. read_header(o.fl, Entry(o).page) = o.fl[p].h
    BY <1>1, ReadActive
  <2> QED
    BY <2>1 DEF merge_log, m, max
<1> HIDE DEF h
<1>6. (y.file # 0 => Made(o, y, h, "merge")) /\ (y.file = 0 => Unmade(o, y))
  BY <1>1, <1>4, ReserveMade
<1> HIDE DEF y, z
<1>7. CASE y.file = 0
  <2>1. z = y
    BY <1>5, <1>7 DEF MergeInto
  <2> QED
    BY <2>1, <1>6, <1>7 DEF z
<1>8. CASE y.file # 0
  <2>1. Made(o, y, h, "merge") /\ o.fl[p].h.max <= h.max
    BY <1>3, <1>4, <1>6, <1>8 DEF max
  <2>2. Moved(o, MergeInto(y, Entry(o)), p, h.max)
    BY <2>1, <1>4, MergeMoves
  <2>3. z.file # 0
    BY <2>2, <1>5, Sizes DEF Moved, Holds
  <2> QED
    BY <2>2, <2>3, <1>4, <1>5 DEF z, m, max
<1> QED
  BY <1>7, <1>8 DEF z, m, max

\* find_next_record counts the records of the log.
LEMMA FindNext ==
  ASSUME NEW o, NEW p, Holds(o, {}, p), o.fl[p].h.mod
  PROVE  LogHas(o.fl, o.fl[p].h.lp, find_next_record(o))
<1> USE Sizes
<1> DEFINE e == Entry(o)
           l == o.fl[p].h.lp
           S == {k \in 0..(LogRecords - 1) : o.fl[l + k].d.i = 0}
           n == find_next_record(o)
<1>1. /\ FlashOK(o.fl) /\ p \in Pages /\ HDR_ACTIVE(o.fl[p].h) /\ EntryOK(o.fl, e)
      /\ e.page = p /\ p \in FilesOf(o.fl) /\ e.records \in Int
  BY HoldsFacts, EntryFacts DEF Holds
<1>2. n = IF e.records >= 0 THEN e.records ELSE IF S = {} THEN LogRecords ELSE LeastOf(S)
  <2>1. read_header(o.fl, e.page) = o.fl[p].h
    BY <1>1, ReadActive
  <2> QED
    BY <2>1 DEF find_next_record
<1>3. CASE e.records >= 0
  BY <1>1, <1>2, <1>3, ZenonT(60) DEF EntryOK
<1>4. CASE ~(e.records >= 0)
  <2>1. PICK m : LogHas(o.fl, l, m)
    BY <1>1, LogPages DEF FlashOK, Logs
  <2>2. m \in 0..LogRecords /\ \A k \in 0..(LogRecords - 1) : o.fl[l + k].d.i # 0 <=> k < m
    BY <2>1 DEF LogHas
  <2>3. CASE m = LogRecords
    <3>1. S = {}
      BY <2>2, <2>3
    <3> QED
      BY <3>1, <2>1, <2>3, <1>2, <1>4, SMTT(60)
  <2>4. CASE m # LogRecords
    <3>1. m \in S /\ \A k \in S : m <= k
      BY <2>2, <2>4, SMTT(60)
    <3>2. S \subseteq Nat /\ S # {} /\ S \subseteq Int
      <4>1. \A k \in S : k \in 0..(LogRecords - 1)
        BY ZenonT(60)
      <4> HIDE DEF S
      <4>2. \A k \in S : k \in Nat /\ k \in Int
        BY ONLY <4>1
      <4> QED
        BY ONLY <3>1, <4>2, ZenonT(60)
    <3> HIDE DEF S
    <3>3. LeastOf(S) \in S /\ \A k \in S : LeastOf(S) <= k
      BY <3>2, LeastOfFacts
    <3> DEFINE x == LeastOf(S)
    <3>5. x \in Int /\ m \in Int /\ x <= m /\ m <= x
      BY <3>1, <3>2, <3>3
    <3> HIDE DEF x
    <3>6. x = m
      BY <3>5
    <3>4. LeastOf(S) = m
      BY <3>6 DEF x
    <3> QED
      BY <3>2, <3>4, <2>1, <1>2, <1>4
  <2> QED
    BY <2>3, <2>4
<1> QED
  BY <1>3, <1>4

-------------------------------------------------------------------------------
(* Micro logs.                                                                *)

\* Region r of file p goes into record k of its log.
LEMMA RecordOK ==
  ASSUME NEW fl, FlashOK(fl), NEW p \in FilesOf(fl), fl[p].h.mod,
         NEW l, l = fl[p].h.lp, NEW k \in Nat, k < LogRecords, LogHas(fl, l, k),
         NEW r \in Nat, NEW v, v # 0, NEW fl2, NEW d, d.i = r + 1, d.v = v,
         DataPut(fl, fl2, l + k, d)
  PROVE  /\ FlashOK(fl2) /\ SameShape(fl, fl2) /\ OnlyFile(fl, fl2, p)
         /\ FilesOf(fl2) = FilesOf(fl) /\ LogHas(fl2, l, k + 1) /\ Kept(fl, fl2, p)
<1> USE Sizes
<1>1. /\ p \in Modified(fl) /\ IsLog(fl, l) /\ l \in Pages /\ Layout(fl) /\ Logs(fl)
      /\ \A j \in 0..(LogRecords - 1) : l + j \in Pages
  BY LogPages DEF FlashOK
<1>2. l + k \in Pages /\ l <= l + k /\ l + k < EndOf(fl, l) /\ HDR_ACTIVE(fl[l].h)
  <2>1. k \in 0..(LogRecords - 1) /\ fl[l].h.max = LogRecords /\ HDR_ACTIVE(fl[l].h)
    BY <1>1 DEF IsLog
  <2>2. l + k \in Pages /\ l \in Nat
    BY <2>1, <1>1
  <2>3. l <= l + k /\ l + k < l + LogRecords
    BY <2>2, SMTT(60)
  <2> QED
    BY <2>1, <2>2, <2>3 DEF EndOf
<1> DEFINE x == l + k
<1>3. x \in Pages /\ l <= x /\ x < EndOf(fl, l) /\ DataPut(fl, fl2, x, d)
  BY <1>2
<1> HIDE DEF x
<1>4. /\ Layout(fl2) /\ SameShape(fl, fl2) /\ KeptBut(fl, fl2, {l})
      /\ Modified(fl2) = Modified(fl) /\ FilesOf(fl2) = FilesOf(fl)
  <2>1. Layout(fl) /\ l \in Pages /\ HDR_ACTIVE(fl[l].h)
    BY <1>1, <1>2
  <2>2. Layout(fl2) /\ SameShape(fl, fl2)
    BY ONLY <2>1, <1>3, DataOK
  <2>3. KeptBut(fl, fl2, {l})
    BY ONLY <2>1, <1>3, DataOK
  <2>4. Modified(fl2) = Modified(fl) /\ FilesOf(fl2) = FilesOf(fl)
    BY ONLY <2>1, <1>3, DataOK
  <2> QED
    BY <2>2, <2>3, <2>4
<1>5. \A q \in Pages : fl2[q].h = fl[q].h
  BY <1>3 DEF DataPut
<1>6. p # l /\ p \in Pages /\ HDR_ACTIVE(fl[p].h)
  BY <1>1 DEF IsLog, FilesOf
<1>7. Kept(fl, fl2, p)
  BY <1>4, <1>6 DEF KeptBut
<1>8. OnlyFile(fl, fl2, p)
  BY <1>1, <1>4, <1>5, OwnWrite
<1>9. LogHas(fl2, l, k + 1)
  <2>1. ASSUME NEW j \in 0..(LogRecords - 1)
        PROVE  /\ fl2[l + j].d.i # 0 <=> j < k + 1
               /\ j < k + 1 => fl2[l + j].d.v # 0
    <3>1. CASE j = k
      <4>1. fl2[l + j].d = d
        BY <3>1, <1>3 DEF DataPut, x
      <4> QED
        BY <3>1, <4>1
    <3>2. CASE j # k
      <4>1. l + j # x /\ l + j \in Pages
        BY <3>2, <1>1, SMTT(60) DEF x
      <4>2. fl2[l + j] = fl[l + j]
        BY <4>1, <1>3 DEF DataPut
      <4>3. (fl[l + j].d.i # 0 <=> j < k) /\ (j < k => fl[l + j].d.v # 0)
        BY DEF LogHas
      <4>4. j < k + 1 <=> j < k
        BY <3>2
      <4> QED
        BY <4>2, <4>3, <4>4
    <3> QED
      BY <3>1, <3>2
  <2>2. k + 1 \in 0..LogRecords
    OBVIOUS
  <2> QED
    BY <2>1, <2>2, ZenonT(60) DEF LogHas
<1>10. Logs(fl2)
  <2>1. ASSUME NEW q \in Modified(fl2)
        PROVE  /\ ~fl2[q].h.log /\ IsLog(fl2, fl2[q].h.lp)
               /\ \E n : LogHas(fl2, fl2[q].h.lp, n)
    <3>1. q \in Modified(fl) /\ q \in Pages /\ fl2[q].h = fl[q].h
      BY <1>4, <1>5 DEF Modified
    <3>2. ~fl[q].h.log /\ IsLog(fl, fl[q].h.lp) /\ \E n : LogHas(fl, fl[q].h.lp, n)
      BY <3>1, <1>1 DEF Logs
    <3>3. IsLog(fl2, fl[q].h.lp)
      BY <3>2, <1>5 DEF IsLog
    <3>4. CASE q = p
      BY <3>1, <3>2, <3>3, <3>4, <1>9
    <3>5. CASE q # p
      <4>1. fl[q].h.lp # l
        BY <3>1, <3>5, <1>1 DEF Logs
      <4>2. Kept(fl, fl2, fl[q].h.lp)
        BY <4>1, <3>2, <1>4 DEF KeptBut, IsLog
      <4> QED
        BY <4>2, <3>1, <3>2, <3>3, <1>1, KeptLog
    <3> QED
      BY <3>4, <3>5
  <2>2. \A q1, q2 \in Modified(fl2) : fl2[q1].h.lp = fl2[q2].h.lp => q1 = q2
    <3>1. \A q \in Modified(fl2) : q \in Modified(fl) /\ fl2[q].h = fl[q].h
      BY <1>4, <1>5 DEF Modified
    <3>2. \A q1, q2 \in Modified(fl) : fl[q1].h.lp = fl[q2].h.lp => q1 = q2
      BY <1>1 DEF Logs
    <3> QED
      BY <3>1, <3>2
  <2> QED
    BY <2>1, <2>2 DEF Logs
<1> QED
  BY <1>4, <1>7, <1>8, <1>9, <1>10 DEF FlashOK

\* ... and is what is read of it from then on.
LEMMA RecordRead ==
  ASSUME NEW fl, FlashOK(fl), NEW p \in FilesOf(fl), fl[p].h.mod,
         NEW l, l = fl[p].h.lp, NEW k \in Nat, k < LogRecords, LogHas(fl, l, k),
         NEW r \in Nat, NEW v, NEW fl2, NEW d, d.i = r + 1, d.v = v,
         DataPut(fl, fl2, l + k, d), Kept(fl, fl2, p)
  PROVE  /\ RecordsOf(fl2, l, r) # {} /\ Region(fl2, p, r) = v
         /\ \A j \in 0..(fl[p].h.max - 1) : j # r => Region(fl2, p, j) = Region(fl, p, j)
<1> USE Sizes
<1>1. /\ l \in Pages /\ \A j \in 0..(LogRecords - 1) : l + j \in Pages
  BY LogPages
<1>2. fl2[p].h = fl[p].h /\ fl2[p].h.lp = l /\ fl2[p].h.mod
  BY DEF Kept
<1>3. k \in 0..(LogRecords - 1) /\ fl2[l + k].d = d
  BY DEF DataPut
<1>4. \A j \in 0..(LogRecords - 1) : j # k => fl2[l + j] = fl[l + j]
  <2> TAKE j \in 0..(LogRecords - 1)
  <2>1. j # k => l + j # l + k
    BY <1>1
  <2> QED
    BY <2>1, <1>1 DEF DataPut
<1>5. \A j \in 0..(LogRecords - 1) : k <= j => fl[l + j].d.i = 0
  BY DEF LogHas
<1>6. k \in RecordsOf(fl2, l, r)
  BY <1>3 DEF RecordsOf
<1>7. Last(RecordsOf(fl2, l, r)) = k
  <2> DEFINE S == RecordsOf(fl2, l, r)
  <2>1. S \subseteq 0..(LogRecords - 1) /\ k \in S
    BY <1>6 DEF RecordsOf
  <2>2. \A j \in S : ~(k < j)
    <3> SUFFICES ASSUME NEW j \in S, k < j PROVE FALSE
      OBVIOUS
    <3>1. j \in 0..(LogRecords - 1) /\ fl2[l + j].d.i = r + 1 /\ j # k /\ k <= j
      BY SMTT(60) DEF RecordsOf
    <3>2. fl[l + j].d.i = 0 /\ fl2[l + j] = fl[l + j]
      BY <3>1, <1>4, <1>5
    <3> QED
      BY <3>1, <3>2
  <2> HIDE DEF S
  <2>3. Last(S) \in S /\ \A j \in S : j <= Last(S)
    BY <2>1, LastFacts
  <2> DEFINE x == Last(S)
  <2>6. x \in S
    BY <2>3
  <2>7. k <= x /\ ~(k < x)
    BY <2>1, <2>2, <2>3
  <2> HIDE DEF x
  <2>4. x \in Int /\ k <= x /\ ~(k < x)
    <3>1. x \in 0..(LogRecords - 1)
      BY <2>1, <2>6
    <3> QED
      BY <3>1, <2>7
  <2>5. x = k
    BY <2>4
  <2> QED
    BY <2>5 DEF x, S
<1>8. Region(fl2, p, r) = v
  BY <1>2, <1>3, <1>6, <1>7 DEF Region
<1>9. ASSUME NEW j \in 0..(fl[p].h.max - 1), j # r PROVE Region(fl2, p, j) = Region(fl, p, j)
  <2>1. RecordsOf(fl2, l, j) = RecordsOf(fl, l, j)
    <3>1. ASSUME NEW i \in 0..(LogRecords - 1)
          PROVE  fl2[l + i].d.i = j + 1 <=> fl[l + i].d.i = j + 1
      <4>1. CASE i = k
        <5>1. fl2[l + i].d.i = r + 1 /\ fl[l + i].d.i = 0
          BY <4>1, <1>3, <1>5
        <5>2. r + 1 # j + 1 /\ 0 # j + 1
          BY <1>9
        <5> QED
          BY <5>1, <5>2
      <4>2. CASE i # k
        BY <4>2, <1>4
      <4> QED
        BY <4>1, <4>2
    <3> QED
      BY <3>1 DEF RecordsOf
  <2> DEFINE S == RecordsOf(fl, l, j)
  <2>2. S \subseteq 0..(LogRecords - 1) /\ k \notin S
    <3>1. fl[l + k].d.i = 0 /\ 0 # j + 1
      BY <1>3, <1>5
    <3> QED
      BY <3>1 DEF RecordsOf
  <2> HIDE DEF S
  <2>3. S # {} => fl2[l + Last(S)] = fl[l + Last(S)]
    <3>1. S # {} => Last(S) \in S
      BY <2>2, LastFacts
    <3> QED
      BY <3>1, <2>2, <1>4
  <2>4. fl2[p + j].d = fl[p + j].d
    <3> DEFINE m == fl[p].h.max
    <3>1. HDR_ACTIVE(fl[p].h) /\ p \in Pages /\ m \in Nat /\ p + j \in Pages
      BY ActiveExtent DEF FilesOf, FlashOK
    <3>2. p <= p + j /\ p + j < p + m
      <4>1. p \in Int /\ m \in Int /\ j \in 0..(m - 1)
        BY <3>1
      <4> HIDE DEF m
      <4> QED
        BY <4>1
    <3> QED
      BY <3>1, <3>2 DEF Kept, EndOf
  <2> QED
    BY <2>1, <2>3, <2>4, <1>2 DEF Region, S
<1> QED
  BY <1>6, <1>8, <1>9

LEMMA PutSlot ==
  ASSUME NEW y \in Ops, NEW s \in 1..Slots, NEW e, NEW z, EntryPut(y, z, s, e)
  PROVE  SlotPut(y.ram.files, z.ram.files, s, e)
<1>1. y.ram.files \in [1..Slots -> Entries \cup {NoEntry}]
  BY OpFields DEF Objects
<1> QED
  BY <1>1 DEF EntryPut, SlotPut

\* z is o after a write to the file at page p or to its log, with file object e.
LEMMA FileWritten ==
  ASSUME NEW o, NEW p, Holds(o, {}, p), NEW z, z \in Ops, FlashOK(z.fl),
         \A f \in z.past : FlashOK(f), SameShape(o.fl, z.fl), OnlyFile(o.fl, z.fl, p),
         p \in FilesOf(z.fl), NEW e \in Entries, e.page = p, EntryOK(z.fl, e),
         EndOK(z.fl, e), e.end >= 0,
         z.ram.next_free = o.ram.next_free, z.ram.gc_wait = o.ram.gc_wait,
         SlotPut(o.ram.files, z.ram.files, o.file, e),
         z.file = o.file, z.used = o.used
  PROVE  Holds(z, {}, p) /\ Entry(z) = e
<1> DEFINE s == o.file
           X == {}
<1>1. OpOK(o, X) /\ s \in 1..Slots /\ o.ram.files[s] \in Entries
      /\ e.page = o.ram.files[s].page /\ X \subseteq X \cup {s}
      /\ (s \notin X => EndOK(z.fl, e)) /\ o.used = {s}
  BY DEF Holds, Entry
<1>2. SlotPut(o.ram.files, z.ram.files, s, e) /\ OnlyFile(o.fl, z.fl, e.page)
  OBVIOUS
<1> HIDE DEF s, X
<1>3. OpOK(z, X)
  BY <1>1, <1>2, Rewritten
<1>4. z.ram.files[s] = e /\ z.file = s
  BY <1>2 DEF SlotPut, s
<1> QED
  BY <1>1, <1>3, <1>4 DEF Holds, Entry, X, s

LEMMA OnlyChange ==
  ASSUME NEW fl, NEW fl2, NEW p \in FilesOf(fl), OnlyFile(fl, fl2, p),
         FilesOf(fl2) = FilesOf(fl), fl2[p].h.name = fl[p].h.name
  PROVE  Change(fl, fl2, p, p)
BY DEF OnlyFile, Change

\* The record of region r is in the log of file P, which is file p of fl, but
\* its end is as it was.
Logged(fl, fl2, p, P, r, v) ==
  /\ Change(fl, fl2, p, P)
  /\ fl2[P].h.mod /\ RecordsOf(fl2, fl2[P].h.lp, r) # {} /\ Region(fl2, P, r) = v
  /\ \A e : IsEnd(fl, p, e) =>
       /\ IsEnd(fl2, P, e)
       /\ \A j \in 0..(e - 1) : j # r => Region(fl2, P, j) = Region(fl, p, j)

WithRecords(e, n) == [e EXCEPT !.records = n]

LEMMA WithRecordsFacts ==
  ASSUME NEW e \in Entries, NEW n \in Int
  PROVE  /\ WithRecords(e, n) \in Entries /\ WithRecords(e, n).records = n
         /\ WithRecords(e, n).page = e.page /\ WithRecords(e, n).max = e.max
         /\ WithRecords(e, n).mod = e.mod /\ WithRecords(e, n).end = e.end
BY DEF WithRecords, Entries

LEMMA WriteRecordOK ==
  ASSUME NEW o, NEW p, Holds(o, {}, p), o.fl[p].h.mod, NEW k \in Nat, k < LogRecords,
         LogHas(o.fl, o.fl[p].h.lp, k), NEW r \in 0..(o.fl[p].h.max - 1),
         NEW v \in Values, "index" \notin CrashIn
  PROVE  LET z == WriteRecord(o, k, r, v)
         IN  /\ Holds(z, {}, p) /\ Entry(z).end = Entry(o).end
             /\ z.fl[p].h = o.fl[p].h /\ Logged(o.fl, z.fl, p, p, r, v)
             /\ z.past = Past(o.past, z.fl, "log")
<1> USE Sizes
<1> DEFINE fl == o.fl
           l == fl[p].h.lp
           at == l + k
           y == WriteData(o, at, r + 1, 0, "index")
           x == WriteData(y, at, r + 1, v, "log")
           s == o.file
           e == WithRecords(Entry(o), k + 1)
           z == WriteRecord(o, k, r, v)
           d == [i |-> r + 1, v |-> v]
<1>1. /\ o \in Ops /\ FlashOK(fl) /\ Layout(fl) /\ p \in FilesOf(fl) /\ p \in Pages
      /\ HDR_ACTIVE(fl[p].h) /\ s \in 1..Slots /\ Entry(o) \in Entries
      /\ Entry(o).page = p /\ EntryOK(fl, Entry(o)) /\ EndOK(fl, Entry(o))
      /\ Entry(o).end >= 0 /\ Entry(o) = o.ram.files[s] /\ ~fl[p].h.log
      /\ (\A f \in o.past : FlashOK(f)) /\ s # 0
  <2>1. /\ p \in FilesOf(fl) /\ s \in 1..Slots /\ Entry(o) \in Entries
        /\ Entry(o).page = p /\ Entry(o).end >= 0 /\ OpOK(o, {})
    BY DEF Holds
  <2>2. /\ o \in Ops /\ FlashOK(fl) /\ Layout(fl) /\ p \in Pages
        /\ HDR_ACTIVE(fl[p].h) /\ EntryOK(fl, Entry(o)) /\ EndOK(fl, Entry(o))
        /\ Entry(o) = o.ram.files[s] /\ ~fl[p].h.log
    BY HoldsFacts
  <2>3. (\A f \in o.past : FlashOK(f)) /\ s # 0
    BY <2>1 DEF OpOK
  <2> QED
    BY <2>1, <2>2, <2>3
<1>2. r \in Nat /\ r + 1 \in 0..PageCount /\ 0 \in {0, Dummy} \cup Values
      /\ v \in {0, Dummy} \cup Values /\ v # 0 /\ k + 1 \in Int
  <2> DEFINE m == fl[p].h.max
  <2>1. m \in Nat /\ p + m \in Nat /\ p + m <= PageCount /\ p \in Nat
    BY <1>1, ActiveExtent DEF EndOf
  <2>2. r \in 0..(m - 1)
    OBVIOUS
  <2> HIDE DEF m
  <2>3. r \in Nat /\ r + 1 \in 0..PageCount
    BY <2>1, <2>2
  <2> QED
    BY <2>3, CoffeeAssumption
<1>3. at \in Pages
  BY <1>1, LogPages
<1>4. z = WithEntry(x, s, e)
  <2>1. read_header(o.fl, Entry(o).page) = fl[p].h
    BY <1>1, ReadActive
  <2> QED
    BY <2>1, <1>1 DEF WriteRecord, WithEntry, WithRecords, Entry, WriteData, Written
<1> HIDE DEF at, z
<1>5. PICK fl1 : DataPut(fl, fl1, at, [i |-> r + 1, v |-> 0]) /\ OnlyFlash(o, y, fl1, "index")
  BY <1>1, <1>2, <1>3, WriteDataOp
<1> HIDE DEF y
<1>6. y \in Ops /\ y.fl = fl1 /\ y.ram = o.ram /\ y.file = s /\ y.used = o.used /\ y.past = o.past
  BY <1>5 DEF OnlyFlash, Past
<1>7. PICK fl2 : DataPut(fl1, fl2, at, d) /\ OnlyFlash(y, x, fl2, "log")
  BY <1>2, <1>3, <1>6, WriteDataOp
<1> HIDE DEF x
<1>8. x \in Ops /\ x.fl = fl2 /\ x.ram = o.ram /\ x.file = s /\ x.used = o.used
      /\ x.past = Past(o.past, fl2, "log")
  BY <1>6, <1>7 DEF OnlyFlash
<1>9. DataPut(fl, fl2, at, d) /\ d.i = r + 1 /\ d.v = v
  BY <1>5, <1>7 DEF DataPut
<1> HIDE DEF d
<1>10. DataPut(fl, fl2, l + k, d)
  BY <1>9 DEF at
<1>11. /\ FlashOK(fl2) /\ SameShape(fl, fl2) /\ OnlyFile(fl, fl2, p)
       /\ FilesOf(fl2) = FilesOf(fl) /\ LogHas(fl2, l, k + 1) /\ Kept(fl, fl2, p)
  <2>1. fl[p].h.mod /\ l = fl[p].h.lp /\ LogHas(fl, l, k) /\ FlashOK(fl) /\ p \in FilesOf(fl)
    BY <1>1
  <2>2. r \in Nat /\ v # 0 /\ d.i = r + 1 /\ d.v = v
    BY <1>2, <1>9
  <2> HIDE DEF fl, l
  <2>3. FlashOK(fl2) /\ SameShape(fl, fl2)
    BY <2>1, <2>2, <1>10, RecordOK
  <2>4. OnlyFile(fl, fl2, p)
    BY <2>1, <2>2, <1>10, RecordOK
  <2>6. FilesOf(fl2) = FilesOf(fl)
    <3>1. \A q \in Pages : fl2[q].h = fl[q].h
      BY <1>10 DEF DataPut
    <3> QED
      BY <3>1 DEF FilesOf
  <2>5. LogHas(fl2, l, k + 1) /\ Kept(fl, fl2, p)
    BY <2>1, <2>2, <1>10, RecordOK
  <2> QED
    BY <2>3, <2>4, <2>5, <2>6
<1>12. /\ RecordsOf(fl2, l, r) # {} /\ Region(fl2, p, r) = v
       /\ \A j \in 0..(fl[p].h.max - 1) : j # r => Region(fl2, p, j) = Region(fl, p, j)
  BY <1>1, <1>2, <1>9, <1>10, <1>11, RecordRead, SMTT(60)
<1>13. fl2[p].h = fl[p].h
  BY <1>11 DEF Kept
<1>14. /\ e \in Entries /\ e.records = k + 1 /\ e.page = p /\ e.max = Entry(o).max
       /\ e.mod = Entry(o).mod /\ e.end = Entry(o).end
  BY <1>1, <1>2, WithRecordsFacts, ZenonT(60)
<1> HIDE DEF e
<1>15. EntryPut(x, z, s, e) /\ z.file = x.file
  BY <1>1, <1>4, <1>8, <1>14, WithEntryOp
<1>16. /\ z \in Ops /\ z.fl = fl2 /\ z.past = Past(o.past, fl2, "log") /\ z.file = s
       /\ z.used = o.used /\ z.ram.next_free = o.ram.next_free
       /\ z.ram.gc_wait = o.ram.gc_wait /\ SlotPut(o.ram.files, z.ram.files, s, e)
  <2>1. SlotPut(x.ram.files, z.ram.files, s, e)
    BY <1>1, <1>8, <1>15, PutSlot
  <2> QED
    BY <2>1, <1>8, <1>15 DEF EntryPut
<1>17. EntryOK(fl2, e)
  <2>1. e.mod
    BY <1>1, <1>14 DEF EntryOK
  <2>2. k + 1 \in -1..LogRecords
    OBVIOUS
  <2>3. LogHas(fl2, fl2[p].h.lp, e.records)
    BY <1>11, <1>13, <1>14
  <2> QED
    BY <2>1, <2>2, <2>3, <1>1, <1>13, <1>14 DEF EntryOK
<1>18. EndOK(fl2, e)
  <2>1. IsEnd(fl, p, Entry(o).end)
    BY <1>1 DEF EndOK
  <2> QED
    BY ONLY <2>1, <1>1, <1>11, <1>14, KeptEnd, ZenonT(60) DEF EndOK
<1>19. \A f \in z.past : FlashOK(f)
  BY <1>1, <1>11, <1>16 DEF Past
<1>20. Holds(z, {}, p) /\ Entry(z) = e
  <2>1. FlashOK(z.fl) /\ SameShape(o.fl, z.fl) /\ OnlyFile(o.fl, z.fl, p) /\ p \in FilesOf(z.fl)
        /\ EntryOK(z.fl, e) /\ EndOK(z.fl, e) /\ e.end >= 0
    BY <1>1, <1>11, <1>14, <1>16, <1>17, <1>18
  <2> QED
    BY <2>1, <1>14, <1>16, <1>19, FileWritten, SMTT(60) DEF s
<1>21. Logged(fl, fl2, p, p, r, v)
  <2>1. Change(fl, fl2, p, p)
    BY <1>1, <1>11, <1>13, OnlyChange
  <2>2. ASSUME NEW b, IsEnd(fl, p, b)
        PROVE  /\ IsEnd(fl2, p, b)
               /\ \A j \in 0..(b - 1) : j # r => Region(fl2, p, j) = Region(fl, p, j)
    <3>1. IsEnd(fl2, p, b)
      BY <2>2, <1>1, <1>11, KeptEnd
    <3>2. \A j \in 0..(b - 1) : j \in 0..(fl[p].h.max - 1)
      <4> DEFINE m == fl[p].h.max
      <4>1. m \in Nat /\ b \in 0..m
        BY <2>2, <1>1, ActiveExtent DEF IsEnd
      <4> HIDE DEF m
      <4>2. \A j \in 0..(b - 1) : j \in 0..(m - 1)
        BY <4>1
      <4> QED
        BY <4>2 DEF m
    <3> QED
      BY <3>1, <3>2, <1>12
  <2>3. fl2[p].h.mod /\ fl2[p].h.lp = l
    BY <1>13
  <2> QED
    BY <2>1, <2>2, <2>3, <1>12 DEF Logged
<1> QED
  BY <1>13, <1>14, <1>16, <1>20, <1>21 DEF z

\* The header h2 is h with the log at page l.
LogOf(h, h2, l) ==
  /\ h2 \in Headers /\ h2.mod /\ h2.lp = l /\ h2.name = h.name /\ h2.max = h.max
  /\ (h2.log <=> h.log) /\ (h2.obs <=> h.obs) /\ (h2.iso <=> h.iso) /\ h2 # Zero

LEMMA LogOfFacts ==
  ASSUME NEW h \in Headers, NEW l \in Pages
  PROVE  LogOf(h, [h EXCEPT !.mod = TRUE, !.lp = l], l)
<1> DEFINE h2 == [h EXCEPT !.mod = TRUE, !.lp = l]
<1>1. h2 \in Headers /\ h2.mod /\ h2.lp = l /\ h2.name = h.name /\ h2.max = h.max
  BY DEF Headers
<1>2. (h2.log <=> h.log) /\ (h2.obs <=> h.obs) /\ (h2.iso <=> h.iso)
  BY DEF Headers
<1>3. h2 # Zero
  BY <1>1, FlashFacts
<1> QED
  BY <1>1, <1>2, <1>3 DEF LogOf

\* An empty log is entered in the header of file p.
LEMMA EnterOK ==
  ASSUME NEW fl, FlashOK(fl), NEW p \in FilesOf(fl), ~fl[p].h.mod,
         NEW l, IsLog(fl, l), LogHas(fl, l, 0), \A q \in Modified(fl) : fl[q].h.lp # l,
         NEW h, LogOf(fl[p].h, h, l), NEW fl2, HeaderPut(fl, fl2, p, h)
  PROVE  /\ FlashOK(fl2) /\ SameShape(fl, fl2) /\ OnlyFile(fl, fl2, p)
         /\ FilesOf(fl2) = FilesOf(fl) /\ LogHas(fl2, l, 0) /\ Same(fl, fl2, p, p)
<1> USE Sizes
<1>1. Layout(fl) /\ Logs(fl) /\ fl \in Flashes /\ fl2 \in Flashes /\ p \in Pages
      /\ HDR_ACTIVE(fl[p].h) /\ ~fl[p].h.log
  BY DEF FlashOK, Layout, HeaderPut, FilesOf
<1>2. /\ fl2[p].h = h /\ (\A q \in Pages : fl2[q].d = fl[q].d)
      /\ \A q \in Pages : q # p => fl2[q].h = fl[q].h
  BY DEF HeaderPut
<1>3. /\ h # Zero /\ h.mod /\ h.lp = l /\ h.name = fl[p].h.name /\ h.max = fl[p].h.max
      /\ (h.log <=> fl[p].h.log) /\ (h.obs <=> fl[p].h.obs) /\ (h.iso <=> fl[p].h.iso)
  BY DEF LogOf
<1>4. SameShape(fl, fl2)
  <2> SUFFICES ASSUME NEW q \in Pages
               PROVE  /\ (fl2[q].h = Zero) <=> (fl[q].h = Zero)
                      /\ fl2[q].h.max = fl[q].h.max
                      /\ fl2[q].h.obs <=> fl[q].h.obs
    BY DEF SameShape
  <2>1. CASE q = p
    BY <2>1, <1>1, <1>2, <1>3 DEF HDR_ACTIVE
  <2>2. CASE q # p
    BY <2>2, <1>2
  <2> QED
    BY <2>1, <2>2
<1>5. Extents(fl2) = Extents(fl) /\ \A q \in Pages : EndOf(fl2, q) = EndOf(fl, q)
  BY <1>4, ShapeFacts
<1>6. \A q \in Pages : fl2[q].h.max = fl[q].h.max /\ (fl2[q].h.iso <=> fl[q].h.iso)
      /\ (fl2[q].h.log <=> fl[q].h.log) /\ (HDR_ACTIVE(fl2[q].h) <=> HDR_ACTIVE(fl[q].h))
  <2> TAKE q \in Pages
  <2>1. CASE q = p
    BY <2>1, <1>1, <1>2, <1>3 DEF HDR_ACTIVE
  <2>2. CASE q # p
    BY <2>2, <1>2
  <2> QED
    BY <2>1, <2>2
<1>7. Layout(fl2)
  <2>1. \A q \in Extents(fl2) : /\ Aligned(q) /\ Aligned(fl2[q].h.max) /\ fl2[q].h.max > 0
                                /\ ~fl2[q].h.iso /\ EndOf(fl2, q) <= PageCount
    <3> TAKE q \in Extents(fl2)
    <3>1. q \in Pages /\ q \in Extents(fl)
      BY <1>5 DEF Extents
    <3> QED
      BY <3>1, <1>1, <1>5, <1>6 DEF Layout
  <2>2. \A q1, q2 \in Extents(fl2) : q1 < q2 => EndOf(fl2, q1) <= q2
    <3>1. \A q \in Extents(fl2) : q \in Pages
      BY DEF Extents
    <3> QED
      BY <3>1, <1>1, <1>5 DEF Layout
  <2>3. \A q \in Pages :
          fl2[q].d # Nil => \E x \in Extents(fl2) : x <= q /\ q < EndOf(fl2, x)
    <3> SUFFICES ASSUME NEW q \in Pages, fl2[q].d # Nil
                 PROVE  \E x \in Extents(fl2) : x <= q /\ q < EndOf(fl2, x)
      OBVIOUS
    <3>1. PICK x \in Extents(fl) : x <= q /\ q < EndOf(fl, x)
      BY <1>1, <1>2 DEF Layout
    <3>2. x \in Pages
      BY DEF Extents
    <3> QED
      BY <3>1, <3>2, <1>5
  <2> QED
    BY <2>1, <2>2, <2>3, <1>1 DEF Layout
<1>8. KeptBut(fl, fl2, {p})
  BY <1>2 DEF KeptBut, Kept
<1>9. OnlyFile(fl, fl2, p)
  <2> DEFINE r == p
  <2>1. r = p /\ KeptBut(fl, fl2, {r})
    BY <1>8
  <2> HIDE DEF r
  <2> QED
    BY <2>1, <1>2, OwnWrite
<1>10. FilesOf(fl2) = FilesOf(fl)
  BY <1>6 DEF FilesOf
<1>11. l # p /\ l \in Pages /\ HDR_ACTIVE(fl[l].h)
  BY <1>1 DEF IsLog
<1>12. \A x : IsLog(fl, x) => /\ IsLog(fl2, x)
                              /\ \A n : LogHas(fl, x, n) => LogHas(fl2, x, n)
  <2> SUFFICES ASSUME NEW x, IsLog(fl, x)
               PROVE  IsLog(fl2, x) /\ \A n : LogHas(fl, x, n) => LogHas(fl2, x, n)
    OBVIOUS
  <2>1. x # p /\ x \in Pages /\ HDR_ACTIVE(fl[x].h)
    BY <1>1 DEF IsLog
  <2>2. Kept(fl, fl2, x)
    BY <2>1, <1>8 DEF KeptBut
  <2> QED
    BY <2>2, <1>1, KeptLog
<1>13. LogHas(fl2, l, 0) /\ IsLog(fl2, l)
  BY <1>12
<1>14. \A q : q \in Modified(fl2) <=> q \in Modified(fl) \/ q = p
  <2>1. p \in Modified(fl2)
    BY <1>1, <1>2, <1>3, <1>6 DEF Modified
  <2>2. ASSUME NEW q, q # p PROVE q \in Modified(fl2) <=> q \in Modified(fl)
    BY <2>2, <1>2 DEF Modified
  <2> QED
    BY <2>1, <2>2
<1>15. p \notin Modified(fl) /\ \A q \in Modified(fl) : q \in Pages /\ q # p /\ fl2[q].h = fl[q].h
  BY <1>2 DEF Modified
<1>16. Logs(fl2)
  <2>1. ASSUME NEW q \in Modified(fl2)
        PROVE  /\ ~fl2[q].h.log /\ IsLog(fl2, fl2[q].h.lp)
               /\ \E n : LogHas(fl2, fl2[q].h.lp, n)
    <3>1. CASE q = p
      BY <3>1, <1>1, <1>2, <1>3, <1>13
    <3>2. CASE q # p
      <4>1. q \in Modified(fl) /\ fl2[q].h = fl[q].h
        BY <3>2, <1>14, <1>15
      <4>2. ~fl[q].h.log /\ IsLog(fl, fl[q].h.lp) /\ \E n : LogHas(fl, fl[q].h.lp, n)
        BY <4>1, <1>1 DEF Logs
      <4> QED
        BY <4>1, <4>2, <1>12
    <3> QED
      BY <3>1, <3>2
  <2>2. ASSUME NEW q1 \in Modified(fl2), NEW q2 \in Modified(fl2),
               fl2[q1].h.lp = fl2[q2].h.lp
        PROVE  q1 = q2
    <3>1. CASE q1 # p /\ q2 # p
      <4>1. /\ q1 \in Modified(fl) /\ fl2[q1].h = fl[q1].h
            /\ q2 \in Modified(fl) /\ fl2[q2].h = fl[q2].h
        BY <3>1, <1>14, <1>15
      <4> QED
        BY <4>1, <2>2, <1>1 DEF Logs
    <3>2. CASE q1 = p /\ q2 # p
      BY <3>2, <2>2, <1>2, <1>3, <1>14, <1>15
    <3>3. CASE q1 # p /\ q2 = p
      BY <3>3, <2>2, <1>2, <1>3, <1>14, <1>15
    <3> QED
      BY <3>1, <3>2, <3>3
  <2> QED
    BY <2>1, <2>2 DEF Logs
<1>17. Change(fl, fl2, p, p)
  BY <1>2, <1>3, <1>9, <1>10, OnlyChange
<1>18. \A j \in 0..(fl[p].h.max - 1) : fl2[p + j].d = fl[p + j].d
  BY <1>1, <1>2, ActiveExtent
<1>19. \A j \in 0..(fl[p].h.max - 1) : Region(fl2, p, j) = Region(fl, p, j)
  <2> TAKE j \in 0..(fl[p].h.max - 1)
  <2>1. RecordsOf(fl2, l, j) = {}
    <3>1. \A k \in 0..(LogRecords - 1) : ~(k < 0) /\ (fl2[l + k].d.i # 0 <=> k < 0)
      BY <1>13 DEF LogHas
    <3>2. j + 1 # 0
      OBVIOUS
    <3> QED
      BY <3>1, <3>2 DEF RecordsOf
  <2> QED
    BY <2>1, <1>2, <1>3, <1>18 DEF Region
<1>20. Same(fl, fl2, p, p)
  <2> SUFFICES ASSUME NEW e, IsEnd(fl, p, e)
               PROVE  /\ IsEnd(fl2, p, e)
                      /\ \A j \in 0..(e - 1) : Region(fl2, p, j) = Region(fl, p, j)
    BY <1>17 DEF Same
  <2> DEFINE m == fl[p].h.max
  <2>1. m \in Nat /\ e \in 0..m /\ fl2[p].h.max = m
    BY <1>1, <1>6, ActiveExtent DEF IsEnd
  <2>2. /\ \A r \in 0..(m - 1) : e <= r => fl[p + r].d.v = 0
        /\ e > 0 => fl[p + e - 1].d.v # 0
    BY DEF IsEnd
  <2>3. \A j \in 0..(m - 1) : fl2[p + j].d = fl[p + j].d /\ Region(fl2, p, j) = Region(fl, p, j)
    BY <1>18, <1>19
  <2> HIDE DEF m
  <2>4. \A j \in 0..(e - 1) : j \in 0..(m - 1)
    BY <2>1
  <2>5. ASSUME e > 0 PROVE fl2[p + e - 1].d.v # 0
    <3>1. e - 1 \in 0..(m - 1) /\ p + (e - 1) = p + e - 1
      BY <2>1, <2>5, <1>1
    <3> QED
      BY <3>1, <2>2, <2>3, <2>5
  <2>6. IsEnd(fl2, p, e)
    BY <2>1, <2>2, <2>3, <2>5 DEF IsEnd
  <2> QED
    BY <2>3, <2>4, <2>6
<1> QED
  BY <1>4, <1>7, <1>9, <1>10, <1>13, <1>16, <1>20 DEF FlashOK

LEMMA KeptIsSame ==
  ASSUME NEW fl, FlashOK(fl), NEW fl2, KeptBut(fl, fl2, {}), FilesOf(fl2) = FilesOf(fl),
         NEW p \in FilesOf(fl)
  PROVE  Same(fl, fl2, p, p)
<1>1. /\ p \in Pages /\ HDR_ACTIVE(fl[p].h) /\ Layout(fl) /\ SameFile(fl, fl2, p)
      /\ Kept(fl, fl2, p)
  BY KeptSame DEF FlashOK, FilesOf, SameFile
<1>2. Change(fl, fl2, p, p)
  BY <1>1, KeptSame DEF Change, Kept
<1>3. ASSUME NEW e, IsEnd(fl, p, e)
      PROVE  /\ IsEnd(fl2, p, e)
             /\ \A j \in 0..(e - 1) : Region(fl2, p, j) = Region(fl, p, j)
  <2> DEFINE m == fl[p].h.max
  <2>1. m \in Nat /\ e \in 0..m
    BY <1>1, <1>3, ActiveExtent DEF IsEnd
  <2> HIDE DEF m
  <2>2. \A j \in 0..(e - 1) : j \in 0..(m - 1)
    BY <2>1
  <2>3. \A j \in 0..(m - 1) : Region(fl2, p, j) = Region(fl, p, j)
    BY <1>1, RegionKept DEF m
  <2>4. IsEnd(fl2, p, e)
    BY <1>1, <1>3, KeptEnd
  <2> QED
    BY <2>2, <2>3, <2>4
<1> QED
  BY <1>2, <1>3 DEF Same

WithMod(e) == [e EXCEPT !.mod = TRUE]

LEMMA WithModFacts ==
  ASSUME NEW e \in Entries
  PROVE  /\ WithMod(e) \in Entries /\ WithMod(e).mod = TRUE
         /\ WithMod(e).page = e.page /\ WithMod(e).max = e.max
         /\ WithMod(e).records = e.records /\ WithMod(e).end = e.end
BY DEF WithMod, Entries

\* z is o with an empty log for file p.
HasLog(o, z, p) ==
  /\ Holds(z, {}, p) /\ Entry(z).end = Entry(o).end
  /\ z.fl[p].h.mod /\ z.fl[p].h.max = o.fl[p].h.max
  /\ LogHas(z.fl, z.fl[p].h.lp, 0) /\ Same(o.fl, z.fl, p, p)
  /\ \A f \in z.past : f \in o.past \/ Same(o.fl, f, p, p)

\* The log that was made is entered in the header of the file.
LEMMA LogEnteredHas ==
  ASSUME NEW o, NEW p, Holds(o, {}, p), ~o.fl[p].h.mod,
         NEW hn, hn.log, hn.max = LogRecords, HDR_ACTIVE(hn),
         NEW y, Made(o, y, hn, "reserve")
  PROVE  HasLog(o, LogEntered(y, o.file, o.fl[p].h), p)
<1> USE Sizes
<1> DEFINE s == o.file
           new == Entry(y).page
           h == [o.fl[p].h EXCEPT !.mod = TRUE, !.lp = new]
           x == write_header(y, p, h, "log")
           w == WithFile(y, s)
           e == WithMod(Entry(o))
           u == WithFile(x, s)
           z == LogEntered(y, s, o.fl[p].h)
<1>1. /\ p \in FilesOf(o.fl) /\ s \in 1..Slots /\ Entry(o) \in Entries
      /\ Entry(o).page = p /\ Entry(o).end >= 0 /\ OpOK(o, {}) /\ o.used = {s}
  BY DEF Holds
<1>2. /\ o \in Ops /\ FlashOK(o.fl) /\ Layout(o.fl) /\ p \in Pages
      /\ HDR_ACTIVE(o.fl[p].h) /\ EntryOK(o.fl, Entry(o)) /\ EndOK(o.fl, Entry(o))
      /\ Entry(o) = o.ram.files[s] /\ ~o.fl[p].h.log
  BY HoldsFacts, SMTT(60)
<1>3. /\ OpOK(y, {}) /\ y.used = {s} /\ y.file \in 1..Slots
      /\ y.ram.files[s] = Entry(o) /\ y.past = Past(o.past, y.fl, "reserve")
      /\ Entry(y) \in Entries /\ y.fl[new].h = hn
      /\ KeptBut(o.fl, y.fl, {}) /\ ~HDR_ACTIVE(o.fl[new].h)
  BY <1>1, <1>2, ZenonT(60) DEF Made, Entry
<1>4. Modified(y.fl) = Modified(o.fl)
  BY ZenonT(60) DEF Made
<1>5. FilesOf(y.fl) = FilesOf(o.fl) /\ LogHas(y.fl, new, 0)
  BY DEF Made, Entry
<1>6. y \in Ops /\ FlashOK(y.fl) /\ (\A f \in y.past : FlashOK(f)) /\ new \in Pages
  BY <1>3, EntryFacts DEF OpOK
<1>7. Same(o.fl, y.fl, p, p) /\ y.fl[p].h = o.fl[p].h
  <2>1. y.fl[p].h = o.fl[p].h
    BY <1>2, <1>3 DEF KeptBut, Kept
  <2> QED
    BY <2>1, <1>1, <1>2, <1>3, <1>5, KeptIsSame
<1>8. LogOf(y.fl[p].h, h, new) /\ h \in Headers
  <2>1. o.fl[p].h \in Headers
    BY <1>2, FlashFacts DEF Layout
  <2>2. LogOf(o.fl[p].h, h, new)
    BY <2>1, <1>6, LogOfFacts
  <2> QED
    BY <2>2, <1>7 DEF LogOf
<1> HIDE DEF h
<1>9. PICK fl2 : HeaderPut(y.fl, fl2, p, h) /\ OnlyFlash(y, x, fl2, "log")
  BY <1>2, <1>6, <1>8, WriteHeaderOp
<1>10. x \in Ops /\ x.fl = fl2 /\ x.past = Past(y.past, fl2, "log")
       /\ x.ram = y.ram /\ x.used = {s}
  BY <1>3, <1>9 DEF OnlyFlash
<1>11. IsLog(y.fl, new) /\ \A q \in Modified(y.fl) : y.fl[q].h.lp # new
  <2>1. IsLog(y.fl, new)
    BY <1>3, <1>6, SMTT(60) DEF IsLog
  <2>2. ASSUME NEW q \in Modified(y.fl) PROVE y.fl[q].h.lp # new
    <3>1. q \in Modified(o.fl) /\ q \in Pages /\ HDR_ACTIVE(o.fl[q].h)
      BY <1>4 DEF Modified
    <3>2. y.fl[q].h = o.fl[q].h
      BY <3>1, <1>3 DEF KeptBut, Kept
    <3>3. IsLog(o.fl, o.fl[q].h.lp)
      BY <3>1, <1>2 DEF FlashOK, Logs
    <3> QED
      BY <3>2, <3>3, <1>3 DEF IsLog
  <2> QED
    BY <2>1, <2>2
<1>12. /\ FlashOK(fl2) /\ SameShape(y.fl, fl2) /\ OnlyFile(y.fl, fl2, p)
       /\ FilesOf(fl2) = FilesOf(y.fl) /\ LogHas(fl2, new, 0) /\ Same(y.fl, fl2, p, p)
  <2>1. p \in FilesOf(y.fl) /\ ~y.fl[p].h.mod
    BY <1>1, <1>5, <1>7
  <2>2. FlashOK(fl2) /\ SameShape(y.fl, fl2) /\ OnlyFile(y.fl, fl2, p)
    BY <2>1, <1>5, <1>6, <1>8, <1>9, <1>11, EnterOK
  <2>3. LogHas(fl2, new, 0) /\ Same(y.fl, fl2, p, p)
    BY <2>1, <1>5, <1>6, <1>8, <1>9, <1>11, EnterOK
  <2>4. FilesOf(fl2) = FilesOf(y.fl)
    BY <2>1, <1>5, <1>6, <1>8, <1>9, <1>11, EnterOK
  <2> QED
    BY <2>2, <2>3, <2>4
<1>13. z = WithEntry(u, s, e)
  <2>1. z = [x EXCEPT !.file = s, !.ram.files[s].mod = TRUE]
    <3>1. y.file # 0 /\ y.ram.files[s].page = p
      BY <1>1, <1>3
    <3> QED
      BY <3>1 DEF LogEntered, h
  <2>2. x.ram.files[s] = Entry(o)
    BY <1>3, <1>10
  <2> HIDE DEF x, z
  <2> QED
    BY <2>1, <2>2, <1>10 DEF WithEntry, WithFile, WithMod, Ops, Rams
<1> HIDE DEF x, z, w, e, u
<1>14. /\ u \in Ops /\ u.fl = fl2 /\ u.past = x.past /\ u.used = {s}
       /\ u.ram = y.ram /\ u.file = s
  <2>1. s \in 0..Slots
    BY <1>1
  <2> HIDE DEF s
  <2> QED
    BY <2>1, <1>10, WithFileOp, ZenonT(60) DEF u
<1>15. /\ w \in Ops /\ w.fl = y.fl /\ w.past = y.past /\ w.used = {s}
       /\ w.ram = y.ram /\ w.file = s
  <2>1. s \in 0..Slots
    BY <1>1
  <2> HIDE DEF s
  <2> QED
    BY <2>1, <1>3, <1>6, WithFileOp, ZenonT(60) DEF w
<1>16. Holds(w, {}, p)
  <2>1. OpOK(w, {})
    BY <1>3, <1>15 DEF OpOK
  <2>2. Entry(w) = Entry(o)
    BY <1>3, <1>15 DEF Entry
  <2> QED
    BY <2>1, <2>2, <1>1, <1>5, <1>15 DEF Holds
<1>17. /\ e \in Entries /\ e.mod = TRUE /\ e.page = p /\ e.max = Entry(o).max
       /\ e.records = Entry(o).records /\ e.end = Entry(o).end
  BY <1>1, WithModFacts DEF e
<1>18. EntryPut(u, z, s, e) /\ z.file = s
  BY <1>1, <1>13, <1>14, <1>17, WithEntryOp
<1>19. /\ z \in Ops /\ z.fl = fl2 /\ z.past = x.past /\ z.file = s
       /\ z.used = {s} /\ z.ram.next_free = w.ram.next_free
       /\ z.ram.gc_wait = w.ram.gc_wait /\ SlotPut(w.ram.files, z.ram.files, s, e)
  <2>1. SlotPut(u.ram.files, z.ram.files, s, e)
    BY <1>1, <1>14, <1>18, PutSlot
  <2> QED
    BY <2>1, <1>14, <1>15, <1>18 DEF EntryPut
<1>20. fl2[p].h = h /\ fl2[p].h.mod /\ fl2[p].h.lp = new /\ fl2[p].h.max = o.fl[p].h.max
       /\ HDR_ACTIVE(fl2[p].h) /\ fl2[p].h.mod = TRUE /\ ~fl2[p].h.log
  <2>1. fl2[p].h = h
    BY <1>9 DEF HeaderPut
  <2>2. /\ h.mod /\ h.lp = new /\ h.max = o.fl[p].h.max /\ (h.log <=> o.fl[p].h.log)
    BY <1>7, <1>8 DEF LogOf
  <2>3. HDR_ACTIVE(h)
    BY <1>2, <1>7, <1>8 DEF LogOf, HDR_ACTIVE
  <2>4. h.mod \in BOOLEAN
    BY <1>8, FlashFacts
  <2> QED
    BY <2>1, <2>2, <2>3, <2>4, <1>2
<1>21. EntryOK(fl2, e)
  <2>1. Entry(o).records = -1
    BY <1>1, <1>2, SMTT(60) DEF EntryOK
  <2>2. e.records = -1 /\ e.records \in -1..LogRecords /\ ~(e.records >= 0)
    BY <2>1, <1>17
  <2>3. e.max = fl2[p].h.max /\ e.end \in -1..e.max
    BY <1>1, <1>2, <1>17, <1>20 DEF EntryOK
  <2> QED
    BY <2>2, <2>3, <1>17, <1>20 DEF EntryOK
<1>22. EndOK(fl2, e)
  <2>1. IsEnd(o.fl, p, Entry(o).end)
    BY <1>1, <1>2 DEF EndOK
  <2>2. IsEnd(fl2, p, Entry(o).end)
    BY <2>1, <1>7, <1>12 DEF Same
  <2> QED
    BY <2>2, <1>17 DEF EndOK
<1>23. \A f \in z.past : FlashOK(f)
  BY <1>6, <1>10, <1>12, <1>19 DEF Past
<1>24. Holds(z, {}, p) /\ Entry(z) = e
  <2>1. FlashOK(z.fl) /\ SameShape(w.fl, z.fl) /\ OnlyFile(w.fl, z.fl, p) /\ p \in FilesOf(z.fl)
    BY <1>1, <1>5, <1>12, <1>15, <1>19
  <2>2. EntryOK(z.fl, e) /\ EndOK(z.fl, e) /\ e.end >= 0
    BY <1>1, <1>17, <1>19, <1>21, <1>22
  <2>4. /\ e \in Entries /\ e.page = p /\ z \in Ops /\ (\A f \in z.past : FlashOK(f))
        /\ z.ram.next_free = w.ram.next_free /\ z.ram.gc_wait = w.ram.gc_wait
    BY <1>17, <1>19, <1>23
  <2>3. z.file = w.file /\ z.used = w.used /\ SlotPut(w.ram.files, z.ram.files, w.file, e)
    BY <1>15, <1>19
  <2> QED
    BY ONLY <2>1, <2>2, <2>3, <2>4, <1>16, FileWritten
<1>25. Same(o.fl, fl2, p, p)
  BY <1>1, <1>7, <1>12, SameThen
<1>26. \A f \in z.past : f \in o.past \/ Same(o.fl, f, p, p)
  BY <1>3, <1>7, <1>10, <1>19, <1>25 DEF Past
<1> QED
  BY <1>12, <1>17, <1>19, <1>20, <1>24, <1>25, <1>26 DEF HasLog, z

\* create_log: the file has a log, or there was no room.
LEMMA CreateLog ==
  ASSUME WholeSectors, NEW o, NEW p, Holds(o, {}, p), ~o.fl[p].h.mod, "gc" \notin CrashIn
  PROVE  LET z == create_log(o)
         IN  (z.file # 0 => HasLog(o, z, p)) /\ (z.file = 0 => Unmade(o, z))
<1> USE Sizes
<1> DEFINE h == Header(o.fl[p].h.name, LogRecords, TRUE)
           y == reserve(o, h, "reserve")
           z == create_log(o)
<1>1. /\ o \in Ops /\ FlashOK(o.fl) /\ Layout(o.fl) /\ UsedOK(o) /\ o.file \in 1..Slots
      /\ p \in Pages /\ HDR_ACTIVE(o.fl[p].h) /\ Entry(o).page = p /\ OpOK(o, {})
  BY HoldsFacts DEF Holds
<1>2. o.fl[p].h.name \in Names \cup {Nobody}
  BY <1>1, ActiveExtent, SMTT(60) DEF Headers
<1>3. NewHeader(h) /\ h.max = LogRecords /\ h.log /\ HDR_ACTIVE(h)
  <2>1. NewHeader(h) /\ h.max = LogRecords /\ h.log
    <3>1. Aligned(LogRecords) /\ LogRecords \in Nat /\ LogRecords > 0
      BY WholeAligned
    <3> QED
      BY ONLY <3>1, <1>2, LogHeader
  <2> QED
    BY <2>1 DEF NewHeader, HDR_ACTIVE
<1>4. z = LogEntered(y, o.file, o.fl[p].h)
  <2>1. read_header(o.fl, Entry(o).page) = o.fl[p].h
    BY <1>1, ReadActive
  <2> QED
    BY <2>1 DEF create_log
<1> HIDE DEF h
<1>5. (y.file # 0 => Made(o, y, h, "reserve")) /\ (y.file = 0 => Unmade(o, y))
  BY <1>1, <1>3, ReserveMade
<1> HIDE DEF y, z
<1>6. CASE y.file = 0
  <2>1. z = y
    BY <1>4, <1>6 DEF LogEntered
  <2> QED
    BY <2>1, <1>5, <1>6 DEF z
<1>7. CASE y.file # 0
  <2>1. HasLog(o, z, p)
    BY <1>3, <1>4, <1>5, <1>7, LogEnteredHas
  <2>2. z.file # 0
    BY <2>1, Sizes DEF HasLog, Holds
  <2> QED
    BY <2>1, <2>2 DEF z
<1> QED
  BY <1>6, <1>7 DEF z

\* Logged, then: the region is written if it was there, nothing is seen of it if
\* it is beyond the end.
LEMMA LoggedIs ==
  ASSUME NEW fl, FlashOK(fl), NEW p \in FilesOf(fl), NEW e, IsEnd(fl, p, e),
         NEW r \in Nat, NEW v, NEW fl2, NEW P, Logged(fl, fl2, p, P, r, v)
  PROVE  /\ r < e => Done(fl, fl2, p, P, r, v)
         /\ ~(r < e) => Same(fl, fl2, p, P)
<1>1. \A x : IsEnd(fl, p, x) => x = e
  BY FileEnd DEF FlashOK, FilesOf
<1>2. e \in Nat
  BY DEF IsEnd
<1>3. /\ Change(fl, fl2, p, P) /\ Region(fl2, P, r) = v /\ IsEnd(fl2, P, e)
      /\ \A j \in 0..(e - 1) : j # r => Region(fl2, P, j) = Region(fl, p, j)
  BY DEF Logged
<1>4. ASSUME r < e PROVE Done(fl, fl2, p, P, r, v)
  <2>1. \A j \in 0..(e - 1) : Region(fl2, P, j) = IF j = r THEN v ELSE Region(fl, p, j)
    BY <1>3
  <2> QED
    BY <2>1, <1>1, <1>3, <1>4 DEF Done
<1>5. ASSUME ~(r < e) PROVE Same(fl, fl2, p, P)
  <2>1. \A j \in 0..(e - 1) : j # r
    BY <1>2, <1>5
  <2> QED
    BY <2>1, <1>1, <1>3 DEF Same
<1> QED
  BY <1>4, <1>5

LEMMA SameLogged ==
  ASSUME NEW fl, NEW fl2, NEW fl3, NEW p, NEW q, NEW P, p \in FilesOf(fl),
         Same(fl, fl2, p, q), NEW r, NEW v, Logged(fl2, fl3, q, P, r, v)
  PROVE  Logged(fl, fl3, p, P, r, v)
<1>1. Change(fl, fl3, p, P)
  BY ChangeTwice DEF Same, Logged
<1>2. ASSUME NEW e, IsEnd(fl, p, e)
      PROVE  /\ IsEnd(fl3, P, e)
             /\ \A j \in 0..(e - 1) : j # r => Region(fl3, P, j) = Region(fl, p, j)
  <2>1. /\ IsEnd(fl2, q, e)
        /\ \A j \in 0..(e - 1) : Region(fl2, q, j) = Region(fl, p, j)
    BY <1>2 DEF Same
  <2>2. /\ IsEnd(fl3, P, e)
        /\ \A j \in 0..(e - 1) : j # r => Region(fl3, P, j) = Region(fl2, q, j)
    BY <2>1 DEF Logged
  <2> QED
    BY <2>1, <2>2
<1> QED
  BY <1>1, <1>2 DEF Logged

\* z is o after the record of region r of file p has been written to its log.
StoredIn(o, z, p, P, r, v) ==
  /\ Holds(z, {}, P) /\ Logged(o.fl, z.fl, p, P, r, v)
  /\ Entry(z).end = Entry(o).end /\ z.fl[P].h.max = o.fl[p].h.max
Stored(o, z, p, r, v) ==
  /\ z.file # 0 => \E P : StoredIn(o, z, p, P, r, v)
  /\ z.file = 0 => OpOK(z, {}) /\ \E P : Same(o.fl, z.fl, p, P)
  /\ "merge" \notin CrashIn =>
       \A f \in z.past : \/ f \in o.past
                         \/ \E P : Same(o.fl, f, p, P) \/ Logged(o.fl, f, p, P, r, v)

\* ... and after an operation that leaves the file as it was.
LEMMA StoredAfter ==
  ASSUME NEW o, NEW p, p \in FilesOf(o.fl), NEW y, NEW q, Same(o.fl, y.fl, p, q),
         Entry(y).end = Entry(o).end, y.fl[q].h.max = o.fl[p].h.max,
         "merge" \notin CrashIn => \A f \in y.past : f \in o.past \/ Same(o.fl, f, p, p),
         NEW z, NEW r \in Nat, NEW v, Stored(y, z, q, r, v)
  PROVE  Stored(o, z, p, r, v)
<1>1. ASSUME z.file # 0 PROVE \E P : StoredIn(o, z, p, P, r, v)
  <2>1. PICK P : StoredIn(y, z, q, P, r, v)
    BY <1>1 DEF Stored
  <2>2. Logged(o.fl, z.fl, p, P, r, v)
    BY <2>1, SameLogged DEF StoredIn
  <2> QED
    BY <2>1, <2>2 DEF StoredIn
<1>2. ASSUME z.file = 0 PROVE OpOK(z, {}) /\ \E P : Same(o.fl, z.fl, p, P)
  <2>1. OpOK(z, {})
    BY <1>2 DEF Stored
  <2>2. PICK P : Same(y.fl, z.fl, q, P)
    BY <1>2 DEF Stored
  <2> QED
    BY <2>1, <2>2, SameThen
<1>3. ASSUME "merge" \notin CrashIn, NEW f \in z.past
      PROVE  \/ f \in o.past
             \/ \E P : Same(o.fl, f, p, P) \/ Logged(o.fl, f, p, P, r, v)
  <2>1. CASE f \in y.past
    BY <2>1, <1>3
  <2>2. CASE f \notin y.past
    <3>1. PICK P : Same(y.fl, f, q, P) \/ Logged(y.fl, f, q, P, r, v)
      BY <2>2, <1>3 DEF Stored
    <3>2. CASE Same(y.fl, f, q, P)
      BY <3>2, SameThen
    <3>3. CASE Logged(y.fl, f, q, P, r, v)
      BY <3>3, SameLogged, ZenonT(60)
    <3> QED
      BY <3>1, <3>2, <3>3
  <2> QED
    BY <2>1, <2>2
<1> QED
  BY <1>1, <1>2, <1>3 DEF Stored

\* Nothing was made: the file is as it was.
LEMMA UnmadeSame ==
  ASSUME NEW o, NEW p, Holds(o, {}, p), NEW z, Unmade(o, z)
  PROVE  /\ OpOK(z, {}) /\ z.file = 0 /\ z.past = o.past /\ Same(o.fl, z.fl, p, p)
<1>1. FlashOK(o.fl) /\ p \in FilesOf(o.fl)
  BY DEF Holds, OpOK
<1>2. OpOK(z, {}) /\ z.file = 0 /\ z.past = o.past
      /\ KeptBut(o.fl, z.fl, {}) /\ FilesOf(z.fl) = FilesOf(o.fl)
  BY DEF Unmade
<1> QED
  BY <1>1, <1>2, KeptIsSame

LEMMA RecordStored ==
  ASSUME NEW o, NEW p, Holds(o, {}, p), o.fl[p].h.mod, NEW k \in Nat, k < LogRecords,
         LogHas(o.fl, o.fl[p].h.lp, k), NEW r \in 0..(o.fl[p].h.max - 1),
         NEW v \in Values, "index" \notin CrashIn
  PROVE  Stored(o, WriteRecord(o, k, r, v), p, r, v)
<1> DEFINE z == WriteRecord(o, k, r, v)
<1>1. /\ Holds(z, {}, p) /\ Entry(z).end = Entry(o).end
      /\ z.fl[p].h = o.fl[p].h /\ Logged(o.fl, z.fl, p, p, r, v)
      /\ z.past = Past(o.past, z.fl, "log")
  BY WriteRecordOK
<1> HIDE DEF z
<1>2. z.file # 0
  BY <1>1, Sizes DEF Holds
<1>3. StoredIn(o, z, p, p, r, v)
  BY <1>1 DEF StoredIn
<1>4. \A f \in z.past : f \in o.past \/ Logged(o.fl, f, p, p, r, v)
  BY <1>1 DEF Past
<1>5. Stored(o, z, p, r, v)
  BY <1>2, <1>3, <1>4 DEF Stored
<1> QED
  BY <1>5 DEF z

LEMMA WriteLogStored ==
  ASSUME WholeSectors, NEW o, NEW p, Holds(o, {}, p),
         o.fl[p].h.mod => find_next_record(o) < LogRecords,
         NEW r \in 0..(o.fl[p].h.max - 1), NEW v \in Values,
         "index" \notin CrashIn, "gc" \notin CrashIn
  PROVE  Stored(o, WriteLog(o, r, v), p, r, v)
<1> USE Sizes
<1>1. (Entry(o).mod <=> o.fl[p].h.mod) /\ o.file # 0 /\ p \in FilesOf(o.fl)
  BY HoldsFacts DEF Holds
<1>2. CASE o.fl[p].h.mod
  <2> DEFINE k == find_next_record(o)
  <2>1. LogHas(o.fl, o.fl[p].h.lp, k)
    BY <1>2, FindNext
  <2>2. k \in Nat /\ k < LogRecords
    BY <2>1, <1>2 DEF LogHas
  <2>3. WriteLog(o, r, v) = WriteRecord(o, k, r, v)
    BY <1>1, <1>2 DEF WriteLog
  <2> HIDE DEF k
  <2>4. Stored(o, WriteRecord(o, k, r, v), p, r, v)
    BY <2>1, <2>2, <1>2, RecordStored
  <2> QED
    BY <2>3, <2>4
<1>3. CASE ~o.fl[p].h.mod
  <2> DEFINE y == create_log(o)
             z == WriteRecord(y, 0, r, v)
  <2>1. WriteLog(o, r, v) = z
    BY <1>1, <1>3 DEF WriteLog
  <2>2. (y.file # 0 => HasLog(o, y, p)) /\ (y.file = 0 => Unmade(o, y))
    BY <1>3, CreateLog
  <2> HIDE DEF y
  <2>3. CASE y.file = 0
    <3>1. z = y
      BY <2>3 DEF WriteRecord
    <3>2. OpOK(y, {}) /\ y.past = o.past /\ Same(o.fl, y.fl, p, p)
      BY <2>2, <2>3, UnmadeSame
    <3>3. Stored(o, y, p, r, v)
      BY <3>2, <2>3 DEF Stored
    <3> QED
      BY <3>1, <3>3, <2>1
  <2>4. CASE y.file # 0
    <3>1. /\ Holds(y, {}, p) /\ Entry(y).end = Entry(o).end
          /\ y.fl[p].h.mod /\ y.fl[p].h.max = o.fl[p].h.max
          /\ LogHas(y.fl, y.fl[p].h.lp, 0) /\ Same(o.fl, y.fl, p, p)
          /\ \A f \in y.past : f \in o.past \/ Same(o.fl, f, p, p)
      BY <2>2, <2>4 DEF HasLog
    <3>2. 0 \in Nat /\ 0 < LogRecords /\ r \in 0..(y.fl[p].h.max - 1)
      BY <3>1
    <3>3. Stored(y, z, p, r, v)
      BY <3>1, <3>2, RecordStored
    <3>4. r \in Nat
      OBVIOUS
    <3> HIDE DEF z
    <3>5. Stored(o, z, p, r, v)
      BY <3>1, <3>3, <3>4, <1>1, StoredAfter
    <3> QED
      BY <3>5, <2>1
  <2> QED
    BY <2>3, <2>4
<1> QED
  BY <1>2, <1>3

LEMMA WriteLogPageStored ==
  ASSUME WholeSectors, NEW o, NEW p, Holds(o, {}, p),
         NEW r \in 0..(o.fl[p].h.max - 1), NEW v \in Values,
         "index" \notin CrashIn, "gc" \notin CrashIn, "remove" \notin CrashIn
  PROVE  Stored(o, write_log_page(o, r, v), p, r, v)
<1> USE Sizes
<1>1. /\ (Entry(o).mod <=> o.fl[p].h.mod) /\ o.file # 0 /\ p \in FilesOf(o.fl)
      /\ o.fl[p].h.max \in Nat
  BY HoldsFacts, SMTT(60) DEF Holds
<1> DEFINE k == find_next_record(o)
<1>2. CASE ~(Entry(o).mod /\ k >= LogRecords)
  <2>1. write_log_page(o, r, v) = WriteLog(o, r, v)
    BY <1>2 DEF write_log_page
  <2>2. o.fl[p].h.mod => k < LogRecords
    <3> SUFFICES ASSUME o.fl[p].h.mod PROVE k < LogRecords
      OBVIOUS
    <3>1. LogHas(o.fl, o.fl[p].h.lp, k)
      BY FindNext, SMTT(60)
    <3>2. k \in 0..LogRecords
      BY <3>1, ZenonT(60) DEF LogHas
    <3>3. ~(k >= LogRecords)
      BY <1>1, <1>2, ZenonT(60)
    <3> HIDE DEF k
    <3> QED
      BY ONLY <3>2, <3>3, Sizes
  <2> QED
    BY <2>1, <2>2, WriteLogStored
<1>3. CASE Entry(o).mod /\ k >= LogRecords
  <2> DEFINE y == merge_log(o, FALSE)
             P == Entry(y).page
             z == WriteLog(y, r, v)
  <2>1. write_log_page(o, r, v) = z
    BY <1>3 DEF write_log_page
  <2>2. (y.file # 0 => Moved(o, y, p, o.fl[p].h.max)) /\ (y.file = 0 => Unmade(o, y))
    <3> DEFINE extend == FALSE
               w == merge_log(o, extend)
    <3>1. extend \in BOOLEAN /\ ~extend /\ w = y
      OBVIOUS
    <3> HIDE DEF extend
    <3>2. /\ w.file # 0 => Moved(o, w, p, IF extend THEN 2 * o.fl[p].h.max ELSE o.fl[p].h.max)
          /\ w.file = 0 => Unmade(o, w)
      BY <3>1, MergeLog
    <3> QED
      BY <3>1, <3>2
  <2> HIDE DEF y
  <2>3. CASE y.file = 0
    <3>1. z = y
      BY <2>3 DEF WriteLog
    <3>2. OpOK(y, {}) /\ y.past = o.past /\ Same(o.fl, y.fl, p, p)
      BY <2>2, <2>3, UnmadeSame
    <3>3. Stored(o, y, p, r, v)
      BY <3>2, <2>3 DEF Stored
    <3> QED
      BY <3>1, <3>3, <2>1
  <2>4. CASE y.file # 0
    <3>1. /\ Holds(y, {}, P) /\ Same(o.fl, y.fl, p, P)
          /\ ~y.fl[P].h.mod /\ y.fl[P].h.max = o.fl[p].h.max /\ Entry(y).end = Entry(o).end
          /\ ("merge" \notin CrashIn => y.past = o.past)
      BY <2>2, <2>4 DEF Moved
    <3> HIDE DEF P
    <3>2. r \in 0..(y.fl[P].h.max - 1) /\ (y.fl[P].h.mod => find_next_record(y) < LogRecords)
      BY <3>1
    <3>3. Stored(y, z, P, r, v)
      BY <3>1, <3>2, WriteLogStored
    <3>4. r \in Nat
      OBVIOUS
    <3> HIDE DEF z
    <3>5. Stored(o, z, p, r, v)
      BY <3>1, <3>3, <3>4, <1>1, StoredAfter
    <3> QED
      BY <3>5, <2>1
  <2> QED
    BY <2>3, <2>4
<1> QED
  BY <1>2, <1>3

\* Something is written to region r of file p, the first one after its end.
LEMMA ExtentWritten ==
  ASSUME NEW fl, FlashOK(fl), NEW p \in FilesOf(fl), NEW r \in Nat, IsEnd(fl, p, r),
         r < fl[p].h.max, NEW fl2, NEW d, d.v # 0, DataPut(fl, fl2, p + r, d)
  PROVE  /\ FlashOK(fl2) /\ SameShape(fl, fl2) /\ OnlyFile(fl, fl2, p)
         /\ FilesOf(fl2) = FilesOf(fl) /\ fl2[p].h = fl[p].h /\ IsEnd(fl2, p, r + 1)
         /\ fl[p].h.mod => Kept(fl, fl2, fl[p].h.lp)
         /\ \A j \in 0..(r - 1) : Region(fl2, p, j) = Region(fl, p, j)
         /\ Region(fl2, p, r) =
              IF fl[p].h.mod /\ RecordsOf(fl, fl[p].h.lp, r) # {}
              THEN Region(fl, p, r) ELSE d.v
<1> USE Sizes
<1> DEFINE m == fl[p].h.max
           x == p + r
           l == fl[p].h.lp
<1>1. /\ Layout(fl) /\ p \in Pages /\ HDR_ACTIVE(fl[p].h) /\ m \in Nat /\ p \in Nat
      /\ \A j \in 0..(m - 1) : p + j \in Pages
  BY ActiveExtent DEF FlashOK, FilesOf
<1>2. r \in 0..(m - 1) /\ r < m
  BY <1>1
<1>3. x \in Pages /\ p <= x /\ x < EndOf(fl, p) /\ DataPut(fl, fl2, x, d)
  <2>1. x \in Pages
    BY <1>1, <1>2
  <2>2. p <= x /\ x < p + m
    <3> HIDE DEF m
    <3> QED
      BY <1>1, <1>2
  <2> QED
    BY <2>1, <2>2 DEF EndOf
<1> HIDE DEF x
<1>4. FlashOK(fl2) /\ SameShape(fl, fl2)
  BY <1>3, DataFileOK
<1>5. OnlyFile(fl, fl2, p) /\ (fl[p].h.mod => Kept(fl, fl2, fl[p].h.lp))
  BY <1>3, DataFileOK
<1>6. \A q \in Pages : fl2[q].h = fl[q].h
  BY <1>3 DEF DataPut
<1>7. FilesOf(fl2) = FilesOf(fl)
  BY <1>6 DEF FilesOf
<1>8. fl2[p].h = fl[p].h
  BY <1>1, <1>6
<1>9. \A j \in 0..(m - 1) : j # r => fl2[p + j] = fl[p + j]
  <2> TAKE j \in 0..(m - 1)
  <2>1. p + j \in Pages
    BY <1>1
  <2>2. j # r => p + j # x
    <3>1. j \in Int
      OBVIOUS
    <3> HIDE DEF m
    <3> QED
      BY <3>1, <1>1 DEF x
  <2> QED
    BY <2>1, <2>2, <1>3 DEF DataPut
<1>10. fl2[p + r].d = d
  BY <1>3 DEF DataPut, x
<1>11. \A j \in 0..(m - 1) : r <= j => fl[p + j].d.v = 0
  BY DEF IsEnd
<1> HIDE DEF m
<1>12. IsEnd(fl2, p, r + 1)
  <2>1. fl2[p].h.max = m /\ r + 1 \in 0..m /\ p + (r + 1) - 1 = p + r
    BY <1>1, <1>2, <1>8, SMTT(60) DEF m
  <2>2. \A j \in 0..(m - 1) : r + 1 <= j => fl2[p + j].d.v = 0
    <3> SUFFICES ASSUME NEW j \in 0..(m - 1), r + 1 <= j PROVE fl2[p + j].d.v = 0
      OBVIOUS
    <3>1. j # r /\ r <= j
      BY <1>1
    <3> QED
      BY <3>1, <1>9, <1>11
  <2>3. fl2[p + (r + 1) - 1].d.v # 0
    BY <2>1, <1>10
  <2> QED
    BY <2>1, <2>2, <2>3 DEF IsEnd
<1>13. ASSUME fl[p].h.mod
       PROVE  /\ \A j : RecordsOf(fl2, l, j) = RecordsOf(fl, l, j)
              /\ \A k \in 0..(LogRecords - 1) : fl2[l + k].d = fl[l + k].d
  <2>1. IsLog(fl, l) /\ Kept(fl, fl2, l)
    BY <1>5, <1>13, LogPages
  <2>2. \A k \in 0..(LogRecords - 1) : fl2[l + k].d = fl[l + k].d
    BY <2>1, <1>1, KeptLog
  <2> QED
    BY <2>2 DEF RecordsOf
<1>14. ASSUME NEW j \in 0..(m - 1)
       PROVE  Region(fl2, p, j) = IF j = r /\ ~(fl[p].h.mod /\ RecordsOf(fl, l, r) # {})
                                  THEN d.v ELSE Region(fl, p, j)
  <2> DEFINE S == RecordsOf(fl, l, j)
  <2>1. CASE fl[p].h.mod /\ S # {}
    <3>1. S \subseteq 0..(LogRecords - 1)
      BY DEF RecordsOf
    <3>2. Last(S) \in 0..(LogRecords - 1)
      <4> HIDE DEF S
      <4> QED
        BY <2>1, <3>1, LastFacts
    <3>3. fl2[l + Last(S)].d = fl[l + Last(S)].d /\ RecordsOf(fl2, l, j) = S
      BY <3>2, <2>1, <1>13
    <3>4. Region(fl2, p, j) = fl2[l + Last(S)].d.v /\ Region(fl, p, j) = fl[l + Last(S)].d.v
      BY <3>3, <2>1, <1>8 DEF Region
    <3> QED
      BY <3>3, <3>4, <2>1
  <2>2. CASE ~(fl[p].h.mod /\ S # {})
    <3>1. Region(fl, p, j) = fl[p + j].d.v
      BY <2>2 DEF Region
    <3>2. Region(fl2, p, j) = fl2[p + j].d.v
      BY <2>2, <1>8, <1>13 DEF Region
    <3>3. CASE j = r
      BY <3>2, <3>3, <2>2, <1>10
    <3>4. CASE j # r
      BY <3>1, <3>2, <3>4, <1>9
    <3> QED
      BY <3>3, <3>4
  <2> QED
    BY <2>1, <2>2, SMTT(60)
<1>15. \A j \in 0..(r - 1) : j \in 0..(m - 1) /\ j # r
  BY <1>1, <1>2
<1> QED
  BY <1>2, <1>4, <1>5, <1>7, <1>8, <1>12, <1>14, <1>15 DEF l

\* ... and the file object knows: z is o after that.
LEMMA ExtendedHolds ==
  ASSUME NEW o, NEW p, Holds(o, {}, p), NEW r \in Nat, Entry(o).end = r,
         r < o.fl[p].h.max, NEW d, d.v # 0, NEW z, z \in Ops,
         DataPut(o.fl, z.fl, p + r, d), \A f \in z.past : f \in o.past \/ f = z.fl,
         z.file = o.file, z.used = o.used, z.ram.next_free = o.ram.next_free,
         z.ram.gc_wait = o.ram.gc_wait,
         SlotPut(o.ram.files, z.ram.files, o.file, WithEnd(Entry(o), r + 1))
  PROVE  Holds(z, {}, p)
<1> USE Sizes
<1> DEFINE e == WithEnd(Entry(o), r + 1)
           fl == o.fl
           fl2 == z.fl
<1>1. /\ p \in FilesOf(fl) /\ Entry(o) \in Entries
      /\ Entry(o).page = p /\ Entry(o).end >= 0 /\ OpOK(o, {})
  BY DEF Holds
<1>2. /\ o \in Ops /\ FlashOK(fl) /\ Layout(fl) /\ p \in Pages
      /\ HDR_ACTIVE(fl[p].h) /\ EntryOK(fl, Entry(o)) /\ EndOK(fl, Entry(o)) /\ ~fl[p].h.log
  BY HoldsFacts
<1>3. (\A f \in o.past : FlashOK(f))
  BY <1>1 DEF OpOK
<1>4. IsEnd(fl, p, r)
  BY <1>1, <1>2 DEF EndOK
<1>5. /\ FlashOK(fl2) /\ SameShape(fl, fl2) /\ OnlyFile(fl, fl2, p)
      /\ fl2[p].h = fl[p].h /\ IsEnd(fl2, p, r + 1)
      /\ fl[p].h.mod => Kept(fl, fl2, fl[p].h.lp)
  <2>1. FlashOK(fl) /\ p \in FilesOf(fl) /\ IsEnd(fl, p, r) /\ r < fl[p].h.max
        /\ DataPut(fl, fl2, p + r, d) /\ r \in Nat /\ d.v # 0
    BY <1>1, <1>2, <1>4
  <2> HIDE DEF fl, fl2
  <2>2. FlashOK(fl2) /\ SameShape(fl, fl2) /\ OnlyFile(fl, fl2, p)
    BY ONLY <2>1, ExtentWritten
  <2>3. fl2[p].h = fl[p].h /\ IsEnd(fl2, p, r + 1)
    BY ONLY <2>1, ExtentWritten
  <2>4. fl[p].h.mod => Kept(fl, fl2, fl[p].h.lp)
    BY ONLY <2>1, ExtentWritten
  <2> QED
    BY <2>2, <2>3, <2>4
<1>6. p \in FilesOf(fl2)
  BY <1>1, <1>5 DEF FilesOf
<1>7. /\ e \in Entries /\ e.end = r + 1 /\ e.page = p /\ e.max = Entry(o).max
      /\ e.mod = Entry(o).mod /\ e.records = Entry(o).records
  <2>1. r + 1 \in Int
    OBVIOUS
  <2> QED
    BY ONLY <2>1, <1>1, WithEndFacts
<1> HIDE DEF e
<1>8. EntryOK(fl2, e)
  <2>1. ASSUME e.records >= 0 PROVE e.mod /\ LogHas(fl2, fl2[p].h.lp, e.records)
    <3>1. e.mod /\ LogHas(fl, fl[p].h.lp, e.records) /\ fl[p].h.mod
      BY <2>1, <1>1, <1>2, <1>7 DEF EntryOK
    <3>2. IsLog(fl, fl[p].h.lp)
      BY <3>1, <1>1, <1>2, LogPages
    <3> QED
      BY <3>1, <3>2, <1>2, <1>5, KeptLog
  <2>2. e.end \in -1..e.max /\ e.max = fl2[p].h.max
    <3> DEFINE m == fl[p].h.max
    <3>1. m \in Nat /\ r < m /\ e.max = m /\ fl2[p].h.max = m
      BY <1>1, <1>2, <1>5, <1>7, ActiveExtent DEF EntryOK
    <3> HIDE DEF m
    <3>2. r + 1 \in -1..m
      BY <3>1
    <3> QED
      BY <3>1, <3>2, <1>7
  <2>3. e.mod = fl2[p].h.mod /\ e.records \in -1..LogRecords /\ HDR_ACTIVE(fl2[p].h)
    BY <1>1, <1>2, <1>5, <1>7 DEF EntryOK
  <2> QED
    BY <2>1, <2>2, <2>3, <1>7 DEF EntryOK
<1>9. EndOK(fl2, e) /\ e.end >= 0
  BY <1>5, <1>7 DEF EndOK
<1>10. \A f \in z.past : FlashOK(f)
  BY <1>3, <1>5
<1>11. SlotPut(o.ram.files, z.ram.files, o.file, e)
  BY DEF e
<1> QED
  BY <1>5, <1>6, <1>7, <1>8, <1>9, <1>10, <1>11, FileWritten

LEMMA AppendDone ==
  ASSUME NEW fl, FlashOK(fl), NEW p \in FilesOf(fl), NEW r \in Nat, IsEnd(fl, p, r),
         r < fl[p].h.max, NEW fl2, NEW d, d.v # 0, DataPut(fl, fl2, p + r, d), NEW v,
         IF fl[p].h.mod /\ RecordsOf(fl, fl[p].h.lp, r) # {}
         THEN Region(fl, p, r) = v ELSE d.v = v
  PROVE  Done(fl, fl2, p, p, r, v)
<1>1. OnlyFile(fl, fl2, p) /\ fl2[p].h = fl[p].h
  BY ExtentWritten
<1>2. FilesOf(fl2) = FilesOf(fl) /\ IsEnd(fl2, p, r + 1)
  BY ExtentWritten
<1>3. /\ \A j \in 0..(r - 1) : Region(fl2, p, j) = Region(fl, p, j)
      /\ Region(fl2, p, r) = v
  BY ExtentWritten
<1>4. Change(fl, fl2, p, p)
  BY <1>1, <1>2, OnlyChange
<1>5. ASSUME NEW e, IsEnd(fl, p, e) PROVE e = r
  BY <1>5, FileEnd DEF FlashOK, FilesOf
<1>6. \A j \in 0..((r + 1) - 1) : Region(fl2, p, j) = IF j = r THEN v ELSE Region(fl, p, j)
  <2> TAKE j \in 0..((r + 1) - 1)
  <2>1. j # r => j \in 0..(r - 1)
    OBVIOUS
  <2> QED
    BY <2>1, <1>3
<1>7. ~(r < r)
  OBVIOUS
<1> QED
  BY <1>2, <1>4, <1>5, <1>6, <1>7 DEF Done

-------------------------------------------------------------------------------
(* What cfs_write does.                                                       *)

\* z is o after the write of v to region r of file p, which has succeeded or not.
Outcome(o, z, p, r, v) ==
  /\ OpOK(z, {})
  /\ z.file # 0 => \E P : Done(o.fl, z.fl, p, P, r, v)
  /\ z.file = 0 => \E P : Same(o.fl, z.fl, p, P)
  /\ "merge" \notin CrashIn =>
       \A f \in z.past : \/ f \in o.past
                         \/ \E P : Same(o.fl, f, p, P) \/ Done(o.fl, f, p, P, r, v)

LEMMA OutcomeAfter ==
  ASSUME NEW o, NEW p, p \in FilesOf(o.fl), NEW y, NEW q, Same(o.fl, y.fl, p, q),
         "merge" \notin CrashIn => y.past = o.past,
         NEW z, NEW r \in Nat, NEW v, Outcome(y, z, q, r, v)
  PROVE  Outcome(o, z, p, r, v)
<1>1. OpOK(z, {})
  BY DEF Outcome
<1>2. ASSUME z.file # 0 PROVE \E P : Done(o.fl, z.fl, p, P, r, v)
  <2>1. PICK P : Done(y.fl, z.fl, q, P, r, v)
    BY <1>2 DEF Outcome
  <2> QED
    BY <2>1, SameThen
<1>3. ASSUME z.file = 0 PROVE \E P : Same(o.fl, z.fl, p, P)
  <2>1. PICK P : Same(y.fl, z.fl, q, P)
    BY <1>3 DEF Outcome
  <2> QED
    BY <2>1, SameThen
<1>4. ASSUME "merge" \notin CrashIn, NEW f \in z.past
      PROVE  \/ f \in o.past
             \/ \E P : Same(o.fl, f, p, P) \/ Done(o.fl, f, p, P, r, v)
  <2>1. CASE f \in y.past
    BY <2>1, <1>4
  <2>2. CASE f \notin y.past
    <3>1. PICK P : Same(y.fl, f, q, P) \/ Done(y.fl, f, q, P, r, v)
      BY <2>2, <1>4 DEF Outcome
    <3> QED
      BY <3>1, SameThen
  <2> QED
    BY <2>1, <2>2
<1> QED
  BY <1>1, <1>2, <1>3, <1>4 DEF Outcome

LEMMA LogAppendedOutcome ==
  ASSUME NEW o, NEW p, Holds(o, {}, p), NEW r \in 0..Entry(o).end, r < o.fl[p].h.max,
         NEW v \in Values, NEW y, Stored(o, y, p, r, v)
  PROVE  Outcome(o, LogAppended(y, r), p, r, v)
<1> USE Sizes
<1> DEFINE end == Entry(o).end
           z == LogAppended(y, r)
<1>1. /\ p \in FilesOf(o.fl) /\ FlashOK(o.fl) /\ IsEnd(o.fl, p, end) /\ end \in Nat
      /\ r \in Nat /\ r <= end
  <2>1. /\ FlashOK(o.fl) /\ ~o.fl[p].h.log /\ EndOK(o.fl, Entry(o)) /\ end \in 0..Entry(o).max
        /\ Entry(o).max \in Nat
    BY HoldsFacts
  <2>2. p \in FilesOf(o.fl) /\ Entry(o).page = p /\ end >= 0
    BY DEF Holds
  <2> QED
    BY <2>1, <2>2 DEF EndOK
<1>2. ASSUME "merge" \notin CrashIn, NEW f \in y.past
      PROVE  \/ f \in o.past
             \/ \E P : Same(o.fl, f, p, P) \/ Done(o.fl, f, p, P, r, v)
  <2>1. CASE f \in o.past
    BY <2>1
  <2>2. CASE f \notin o.past
    <3>1. PICK P : Same(o.fl, f, p, P) \/ Logged(o.fl, f, p, P, r, v)
      BY <2>2, <1>2 DEF Stored
    <3>2. CASE Same(o.fl, f, p, P)
      BY <3>2
    <3>3. CASE Logged(o.fl, f, p, P, r, v)
      <4>1. Done(o.fl, f, p, P, r, v) \/ Same(o.fl, f, p, P)
        BY <3>3, <1>1, LoggedIs
      <4> QED
        BY <4>1
    <3> QED
      BY <3>1, <3>2, <3>3
  <2> QED
    BY <2>1, <2>2
<1>3. CASE y.file = 0
  <2>1. z = y
    BY <1>3 DEF LogAppended
  <2>2. OpOK(y, {}) /\ \E P : Same(o.fl, y.fl, p, P)
    BY <1>3 DEF Stored
  <2>3. Outcome(o, y, p, r, v)
    BY <2>2, <1>2, <1>3 DEF Outcome
  <2> QED
    BY <2>1, <2>3
<1>4. CASE y.file # 0
  <2>1. PICK P : StoredIn(o, y, p, P, r, v)
    BY <1>4 DEF Stored
  <2>2. /\ Holds(y, {}, P) /\ Logged(o.fl, y.fl, p, P, r, v)
        /\ Entry(y).end = end /\ y.fl[P].h.max = o.fl[p].h.max
    BY <2>1 DEF StoredIn
  <2>3. OpOK(y, {}) /\ y.file \in 1..Slots /\ Entry(y) \in Entries /\ Entry(y).page = P
        /\ P \in FilesOf(y.fl)
    BY <2>2 DEF Holds
  <2>4. /\ y \in Ops /\ FlashOK(y.fl) /\ P \in Pages /\ EndOK(y.fl, Entry(y)) /\ ~y.fl[P].h.log
        /\ y.ram.files[y.file] = Entry(y) /\ Layout(y.fl) /\ HDR_ACTIVE(y.fl[P].h)
    BY <2>2, HoldsFacts
  <2>5. CASE r < end
    <3>1. z = y
      BY <2>2, <2>5 DEF LogAppended
    <3>2. Done(o.fl, y.fl, p, P, r, v)
      BY <2>2, <2>5, <1>1, LoggedIs
    <3>3. Outcome(o, y, p, r, v)
      BY <3>2, <2>3, <1>2, <1>4 DEF Outcome
    <3> QED
      BY <3>1, <3>3
  <2>6. CASE ~(r < end)
    <3> DEFINE s == y.file
               e == WithEnd(Entry(y), r + 1)
               w == WithEntry(y, s, e)
    <3>1. r = end /\ Entry(y).end = r /\ r < y.fl[P].h.max
      <4>1. r = end
        BY <2>6, <1>1
      <4> QED
        BY <4>1, <2>2
    <3>2. Same(o.fl, y.fl, p, P)
      BY <2>2, <2>6, <1>1, LoggedIs
    <3>3. e \in Entries
      <4>1. r + 1 \in Int
        BY <1>1
      <4> QED
        BY ONLY <4>1, <2>3, WithEndFacts
    <3>4. z = WriteData(w, P + r, 0, Dummy, "log")
      <4>1. ~(y.file = 0 \/ r < Entry(y).end)
        BY <2>2, <2>6, <1>4
      <4>2. w = [y EXCEPT !.ram.files[y.file].end = r + 1]
        BY <2>4 DEF WithEntry, WithEnd, Entry, Ops, Rams
      <4>3. z = WriteData([y EXCEPT !.ram.files[y.file].end = r + 1], Entry(y).page + r, 0, Dummy, "log")
        BY <4>1 DEF LogAppended
      <4> HIDE DEF w, z
      <4> QED
        BY <4>2, <4>3, <2>3
    <3> HIDE DEF z, e, w
    <3>5. EntryPut(y, w, s, e) /\ w.file = s
      BY <3>3, <2>3, <2>4, WithEntryOp DEF w
    <3>6. w \in Ops /\ w.fl = y.fl /\ w.past = y.past /\ w.used = y.used
          /\ w.ram.next_free = y.ram.next_free /\ w.ram.gc_wait = y.ram.gc_wait
          /\ SlotPut(y.ram.files, w.ram.files, s, e)
      <4>1. SlotPut(y.ram.files, w.ram.files, s, e)
        BY <3>5, <2>3, <2>4, PutSlot
      <4> QED
        BY <4>1, <3>5 DEF EntryPut
    <3> DEFINE d == [i |-> 0, v |-> Dummy]
    <3>7. d.v = Dummy /\ d.v # 0 /\ 0 \in 0..PageCount /\ Dummy \in {0, Dummy} \cup Values
      BY DEF Dummy
    <3>8. P + r \in Pages
      <4> DEFINE m == y.fl[P].h.max
      <4>1. m \in Nat /\ \A j \in 0..(m - 1) : P + j \in Pages
        BY <2>4, ActiveExtent
      <4>2. r \in 0..(m - 1)
        BY <4>1, <3>1, <1>1
      <4> QED
        BY <4>1, <4>2
    <3>9. PICK fl2 : DataPut(w.fl, fl2, P + r, d) /\ OnlyFlash(w, z, fl2, "log")
      BY <3>4, <3>6, <3>7, <3>8, WriteDataOp
    <3> HIDE DEF d
    <3>10. /\ z \in Ops /\ z.fl = fl2 /\ z.past = Past(y.past, fl2, "log")
           /\ z.ram = w.ram /\ z.file = s /\ z.used = y.used
      BY <3>5, <3>6, <3>9 DEF OnlyFlash
    <3>11. Holds(z, {}, P)
      <4>1. DataPut(y.fl, z.fl, P + r, d) /\ d.v # 0 /\ z.file = y.file /\ z.used = y.used
            /\ z.ram.next_free = y.ram.next_free /\ z.ram.gc_wait = y.ram.gc_wait
        BY <3>6, <3>7, <3>9, <3>10
      <4>2. SlotPut(y.ram.files, z.ram.files, y.file, WithEnd(Entry(y), r + 1))
        BY <3>6, <3>10 DEF e
      <4>3. \A f \in z.past : f \in y.past \/ f = z.fl
        BY <3>10 DEF Past
      <4> QED
        BY <4>1, <4>2, <4>3, <3>1, <3>10, <2>2, <1>1, ExtendedHolds
    <3>12. Done(y.fl, fl2, P, P, r, v)
      <4>1. IsEnd(y.fl, P, r)
        BY <3>1, <2>3, <2>4, <1>1 DEF EndOK
      <4>2. IF y.fl[P].h.mod /\ RecordsOf(y.fl, y.fl[P].h.lp, r) # {}
            THEN Region(y.fl, P, r) = v ELSE d.v = v
        BY <2>2 DEF Logged
      <4>3. DataPut(y.fl, fl2, P + r, d) /\ d.v # 0 /\ r < y.fl[P].h.max
        BY <3>1, <3>6, <3>7, <3>9
      <4> QED
        BY <4>1, <4>2, <4>3, <2>3, <2>4, <1>1, AppendDone
    <3>13. Done(o.fl, fl2, p, P, r, v)
      BY <3>2, <3>12, <1>1, SameThen
    <3>14. ASSUME "merge" \notin CrashIn, NEW f \in z.past
           PROVE  \/ f \in o.past
                  \/ \E Q : Same(o.fl, f, p, Q) \/ Done(o.fl, f, p, Q, r, v)
      <4>1. f \in y.past \/ f = fl2
        BY <3>10, <3>14 DEF Past
      <4> QED
        BY <4>1, <3>13, <3>14, <1>2
    <3>15. OpOK(z, {}) /\ z.file # 0
      BY <3>10, <3>11, <1>4 DEF Holds
    <3>16. Outcome(o, z, p, r, v)
      BY <3>10, <3>13, <3>14, <3>15 DEF Outcome
    <3> QED
      BY <3>16 DEF z
  <2> QED
    BY <2>5, <2>6
<1> QED
  BY <1>3, <1>4

\* A region is appended in place.
Appended(o, p, r, v) ==
  [WriteData(o, p + r, 0, v, "append") EXCEPT !.ram.files[o.file].end = r + 1]

LEMMA AppendOutcome ==
  ASSUME NEW o, NEW p, Holds(o, {}, p), ~o.fl[p].h.mod, NEW r \in Nat, Entry(o).end = r,
         r < o.fl[p].h.max, NEW v \in Values
  PROVE  Outcome(o, Appended(o, p, r, v), p, r, v)
<1> USE Sizes
<1> DEFINE s == o.file
           e == WithEnd(Entry(o), r + 1)
           x == WriteData(o, p + r, 0, v, "append")
           z == [x EXCEPT !.ram.files[o.file].end = r + 1]
           d == [i |-> 0, v |-> v]
<1>1. /\ p \in FilesOf(o.fl) /\ s \in 1..Slots /\ Entry(o) \in Entries
      /\ Entry(o).page = p /\ OpOK(o, {})
  BY DEF Holds
<1>2. /\ o \in Ops /\ FlashOK(o.fl) /\ Layout(o.fl) /\ p \in Pages
      /\ HDR_ACTIVE(o.fl[p].h) /\ EndOK(o.fl, Entry(o)) /\ ~o.fl[p].h.log
      /\ o.ram.files[s] = Entry(o)
  BY HoldsFacts
<1>3. p + r \in Pages
  <2> DEFINE m == o.fl[p].h.max
  <2>1. m \in Nat /\ \A j \in 0..(m - 1) : p + j \in Pages
    BY <1>2, ActiveExtent
  <2>2. r \in 0..(m - 1)
    BY <2>1
  <2> QED
    BY <2>1, <2>2
<1>4. d.v = v /\ v # 0 /\ v \in {0, Dummy} \cup Values /\ 0 \in 0..PageCount
  BY CoffeeAssumption
<1>5. PICK fl2 : DataPut(o.fl, fl2, p + r, d) /\ OnlyFlash(o, x, fl2, "append")
  BY <1>2, <1>3, <1>4, WriteDataOp
<1> HIDE DEF x, d
<1>6. x \in Ops /\ x.fl = fl2 /\ x.past = Past(o.past, fl2, "append")
      /\ x.ram = o.ram /\ x.file = s /\ x.used = o.used
  BY <1>5 DEF OnlyFlash
<1>7. z = WithEntry(x, s, e)
  <2>1. x.ram.files[s] = Entry(o)
    BY <1>2, <1>6
  <2> QED
    BY <2>1, <1>6 DEF WithEntry, WithEnd, Ops, Rams
<1>8. e \in Entries
  <2>1. r + 1 \in Int
    OBVIOUS
  <2> QED
    BY ONLY <2>1, <1>1, WithEndFacts
<1> HIDE DEF z, e
<1>9. EntryPut(x, z, s, e) /\ z.file = s
  BY <1>1, <1>6, <1>7, <1>8, WithEntryOp
<1>10. z \in Ops /\ z.fl = fl2 /\ z.past = Past(o.past, fl2, "append") /\ z.file = s
       /\ z.used = o.used /\ z.ram.next_free = o.ram.next_free
       /\ z.ram.gc_wait = o.ram.gc_wait /\ SlotPut(o.ram.files, z.ram.files, s, e)
  <2>1. SlotPut(x.ram.files, z.ram.files, s, e)
    BY <1>1, <1>6, <1>9, PutSlot
  <2> QED
    BY <2>1, <1>6, <1>9 DEF EntryPut
<1>11. Holds(z, {}, p)
  <2>1. DataPut(o.fl, z.fl, p + r, d) /\ d.v # 0 /\ z.file = o.file /\ z.used = o.used
        /\ z.ram.next_free = o.ram.next_free /\ z.ram.gc_wait = o.ram.gc_wait
        /\ z \in Ops
    BY <1>4, <1>5, <1>10
  <2>2. SlotPut(o.ram.files, z.ram.files, o.file, WithEnd(Entry(o), r + 1))
    BY <1>10 DEF e
  <2>3. \A f \in z.past : f \in o.past \/ f = z.fl
    BY <1>10 DEF Past
  <2> QED
    BY <2>1, <2>2, <2>3, ExtendedHolds
<1>12. Done(o.fl, fl2, p, p, r, v)
  <2>1. IsEnd(o.fl, p, r)
    BY <1>1, <1>2 DEF EndOK
  <2>2. DataPut(o.fl, fl2, p + r, d) /\ d.v # 0 /\ d.v = v
    BY <1>4, <1>5
  <2> QED
    BY <2>1, <2>2, <1>1, <1>2, AppendDone
<1>13. OpOK(z, {}) /\ z.file # 0
  BY <1>1, <1>10, <1>11 DEF Holds
<1>14. \A f \in z.past : f \in o.past \/ Done(o.fl, f, p, p, r, v)
  BY <1>10, <1>12 DEF Past
<1>15. Outcome(o, z, p, r, v)
  BY <1>10, <1>12, <1>13, <1>14 DEF Outcome
<1> QED
  BY <1>15 DEF z, x, Appended

LEMMA WriteRegionOutcome ==
  ASSUME WholeSectors, NEW o, NEW p, Holds(o, {}, p), NEW r \in 0..Entry(o).end,
         r < o.fl[p].h.max, NEW v \in Values,
         "index" \notin CrashIn, "gc" \notin CrashIn, "remove" \notin CrashIn
  PROVE  Outcome(o, WriteRegion(o, r, v), p, r, v)
<1> USE Sizes
<1>1. /\ (Entry(o).mod <=> o.fl[p].h.mod) /\ o.file # 0 /\ Entry(o).page = p
      /\ o.fl[p].h.max \in Nat /\ Entry(o).end \in Nat
  <2>1. o.file # 0 /\ Entry(o).page = p
    BY DEF Holds
  <2>2. (Entry(o).mod <=> o.fl[p].h.mod) /\ Entry(o).max = o.fl[p].h.max
        /\ Entry(o).max \in Nat /\ Entry(o).end \in 0..Entry(o).max
    BY HoldsFacts
  <2> QED
    BY <2>1, <2>2
<1>2. CASE Entry(o).mod \/ r < Entry(o).end
  <2>1. WriteRegion(o, r, v) = LogAppended(write_log_page(o, r, v), r)
    BY <1>1, <1>2 DEF WriteRegion
  <2>2. r \in 0..(o.fl[p].h.max - 1)
    BY <1>1
  <2> DEFINE y == write_log_page(o, r, v)
  <2>3. Stored(o, y, p, r, v)
    BY <2>2, WriteLogPageStored
  <2> HIDE DEF y
  <2>4. Outcome(o, LogAppended(y, r), p, r, v)
    BY <2>3, LogAppendedOutcome
  <2> QED
    BY <2>1, <2>4 DEF y
<1>3. CASE ~(Entry(o).mod \/ r < Entry(o).end)
  <2>1. ~o.fl[p].h.mod /\ r \in Nat /\ Entry(o).end = r
    BY <1>1, <1>3
  <2>2. WriteRegion(o, r, v) = Appended(o, p, r, v)
    BY <1>1, <1>3 DEF WriteRegion, Appended
  <2> QED
    BY <2>1, <2>2, AppendOutcome
<1> QED
  BY <1>2, <1>3

LEMMA WriteOutcome ==
  ASSUME WholeSectors, NEW o, NEW p, Holds(o, {}, p), NEW r \in 0..Entry(o).end,
         NEW v \in Values,
         "index" \notin CrashIn, "gc" \notin CrashIn, "remove" \notin CrashIn
  PROVE  Outcome(o, cfs_write(o, r, v), p, r, v)
<1> USE Sizes
<1> DEFINE m == o.fl[p].h.max
<1>1. /\ m \in Nat /\ m > 0 /\ Entry(o).max = m /\ Entry(o).end \in 0..m
      /\ p \in FilesOf(o.fl) /\ r \in Nat
  <2>1. Entry(o).max = m /\ Entry(o).end \in 0..Entry(o).max
        /\ Layout(o.fl) /\ p \in Pages /\ HDR_ACTIVE(o.fl[p].h)
    BY HoldsFacts
  <2>2. m \in Nat /\ m > 0
    BY <2>1, ActiveExtent
  <2>3. p \in FilesOf(o.fl)
    BY DEF Holds
  <2> QED
    BY <2>1, <2>2, <2>3
<1>2. CASE r < Entry(o).max
  BY <1>1, <1>2, WriteRegionOutcome DEF cfs_write
<1>3. CASE ~(r < Entry(o).max)
  <2> DEFINE y == merge_log(o, TRUE)
             P == Entry(y).page
             z == WriteRegion(y, r, v)
  <2>1. cfs_write(o, r, v) = z
    BY <1>3 DEF cfs_write
  <2>2. (y.file # 0 => Moved(o, y, p, 2 * m)) /\ (y.file = 0 => Unmade(o, y))
    <3> DEFINE extend == TRUE
               w == merge_log(o, extend)
    <3>1. extend \in BOOLEAN /\ extend /\ w = y
      OBVIOUS
    <3> HIDE DEF extend
    <3>2. /\ w.file # 0 => Moved(o, w, p, IF extend THEN 2 * o.fl[p].h.max ELSE o.fl[p].h.max)
          /\ w.file = 0 => Unmade(o, w)
      BY <3>1, MergeLog
    <3> QED
      BY <3>1, <3>2
  <2> HIDE DEF y
  <2>3. CASE y.file = 0
    <3>1. z = y
      BY <2>3 DEF WriteRegion
    <3>2. OpOK(y, {}) /\ y.past = o.past /\ Same(o.fl, y.fl, p, p)
      BY <2>2, <2>3, UnmadeSame
    <3>3. Outcome(o, y, p, r, v)
      BY <3>2, <2>3 DEF Outcome
    <3> QED
      BY <3>1, <3>3, <2>1
  <2>4. CASE y.file # 0
    <3>1. /\ Holds(y, {}, P) /\ Same(o.fl, y.fl, p, P)
          /\ y.fl[P].h.max = 2 * m /\ Entry(y).end = Entry(o).end
          /\ ("merge" \notin CrashIn => y.past = o.past)
      BY <2>2, <2>4 DEF Moved
    <3> HIDE DEF P, m
    <3>2. r < 2 * m /\ r \in 0..Entry(y).end
      BY <3>1, <1>1
    <3>3. r < y.fl[P].h.max
      BY <3>1, <3>2
    <3>4. Outcome(y, z, P, r, v)
      BY <3>1, <3>2, <3>3, WriteRegionOutcome
    <3> HIDE DEF z
    <3>5. Outcome(o, z, p, r, v)
      BY <3>1, <3>4, <1>1, OutcomeAfter
    <3> QED
      BY <3>5, <2>1
  <2> QED
    BY <2>3, <2>4
<1> QED
  BY <1>2, <1>3

-------------------------------------------------------------------------------
(* The invariant.                                                             *)

\* What the theorems suppose of power failures: none between the index and the
\* data of a record, in a removal, or in a collection.
SafeCrashes == CrashIn \cap {"index", "remove", "gc"} = {}

\* The flash and the RAM between two operations.
StateOK(fl, rm) ==
  /\ FlashOK(fl) /\ rm \in Rams /\ CacheOK(fl, rm.files, {})
  /\ FreeOK(fl, rm.next_free) /\ GcOK(fl, rm.gc_wait)

CoffeeInv == StateOK(flash, ram)

LEMMA BeginOK ==
  ASSUME CoffeeInv
  PROVE  /\ OpOK(Begin, {}) /\ UsedOK(Begin) /\ Begin.fl = flash /\ Begin.ram = ram
         /\ Begin.past = {} /\ Begin \in Ops
<1>1. /\ Begin.fl = flash /\ Begin.ram = ram /\ Begin.past = {} /\ Begin.file = 0
      /\ Begin.used = {}
  BY DEF Begin
<1>2. flash \in Flashes /\ ram \in Rams
  BY DEF CoffeeInv, StateOK, FlashOK, Layout
<1>3. Begin \in Ops
  BY <1>2, Sizes DEF Begin, Ops
<1>4. OpOK(Begin, {})
  BY <1>1, <1>3 DEF CoffeeInv, StateOK, OpOK
<1> QED
  BY <1>1, <1>3, <1>4 DEF UsedOK

LEMMA OpState ==
  ASSUME NEW o, OpOK(o, {})
  PROVE  StateOK(o.fl, o.ram) /\ \A f \in o.past : FlashOK(f)
BY OpFields DEF OpOK, StateOK

\* After a restart the RAM knows nothing, which is true of any flash.
LEMMA FreshRam ==
  ASSUME NEW fl, FlashOK(fl)
  PROVE  StateOK(fl, Ram0)
<1> USE Sizes
<1>1. Ram0.next_free = 0 /\ Ram0.gc_wait = FALSE /\ Ram0.files = [i \in 1..Slots |-> NoEntry]
  BY DEF Ram0
<1>2. Ram0 \in Rams
  BY DEF Ram0, Rams, Objects
<1>3. CacheOK(fl, Ram0.files, {})
  BY <1>1 DEF CacheOK
<1>4. FreeOK(fl, 0)
  <2>1. 0 \in Stops(fl)
    BY WalkIsStops DEF FlashOK
  <2> QED
    BY <2>1 DEF FreeOK, Stops
<1>5. GcOK(fl, Ram0.gc_wait)
  BY <1>1 DEF GcOK
<1> QED
  BY <1>1, <1>2, <1>3, <1>4, <1>5 DEF StateOK

LEMMA BlankOK ==
  FlashOK([p \in Pages |-> Blank])
<1> DEFINE fl == [p \in Pages |-> Blank]
<1>1. \A p \in Pages : fl[p] = Blank /\ fl[p].h = Zero /\ fl[p].d = Nil
  BY DEF Blank
<1>2. fl \in Flashes
  BY FlashFacts DEF Flashes, Blank
<1> HIDE DEF fl
<1>3. Extents(fl) = {} /\ Modified(fl) = {}
  BY <1>1 DEF Extents, Modified, HDR_ACTIVE
<1>4. Layout(fl)
  BY <1>1, <1>2, <1>3 DEF Layout
<1>5. Logs(fl)
  BY <1>3 DEF Logs
<1> QED
  BY <1>4, <1>5 DEF FlashOK, fl

LEMMA OperationInv ==
  ASSUME NEW n, NEW o, OpOK(o, {}), NEW done, NEW failed, Operation(n, o, done, failed)
  PROVE  CoffeeInv'
<1>1. CASE flash' = o.fl /\ ram' = o.ram
  <2>1. StateOK(o.fl, o.ram)
    BY OpState
  <2> QED
    BY <2>1, <1>1 DEF CoffeeInv
<1>2. CASE flash' \in o.past /\ ram' = Ram0
  <2>1. StateOK(flash', Ram0)
    BY <1>2, OpState, FreshRam
  <2> QED
    BY <2>1, <1>2 DEF CoffeeInv
<1> QED
  BY <1>1, <1>2 DEF Operation

LEMMA CoffeeStep ==
  ASSUME WholeSectors, SafeCrashes, CoffeeInv, [Next]_vars
  PROVE  CoffeeInv'
<1> USE DEF SafeCrashes
<1>0. OpOK(Begin, {}) /\ UsedOK(Begin) /\ Begin.fl = flash
  BY BeginOK
<1>1. ASSUME NEW n \in Names, Open(n) PROVE CoffeeInv'
  <2>1. Opens(Begin, OpenWrite(n), n)
    BY <1>0, OpenWriteOpens
  <2>2. OpOK(OpenWrite(n), {})
    BY <2>1 DEF Opens, Holds
  <2> DEFINE o == OpenWrite(n)
             done == Regions(files[n])
             failed == files[n]
  <2>3. OpOK(o, {}) /\ Operation(n, o, done, failed)
    BY <2>2, <1>1 DEF Open
  <2> HIDE DEF o, done, failed
  <2> QED
    BY <2>3, OperationInv
<1>2. ASSUME NEW n \in Names, Write(n) PROVE CoffeeInv'
  <2> DEFINE o == OpenWrite(n)
             f == Regions(files[n])
             With(r, v) == [i \in 1..(IF r < Len(f) THEN Len(f) ELSE r + 1) |->
                              IF i = r + 1 THEN v ELSE f[i]]
  <2>1. o.file # 0 /\ \E r \in 0..Entry(o).end, v \in Values :
                        Operation(n, cfs_write(o, r, v), With(r, v), f)
    BY <1>2 DEF Write
  <2>2. PICK r \in 0..Entry(o).end, v \in Values :
          Operation(n, cfs_write(o, r, v), With(r, v), f)
    BY <2>1
  <2>3. Opens(Begin, o, n)
    BY <1>0, OpenWriteOpens
  <2>4. Holds(o, {}, Entry(o).page)
    BY <2>1, <2>3 DEF Opens
  <2> DEFINE z == cfs_write(o, r, v)
             done == With(r, v)
  <2> HIDE DEF o
  <2>5. Outcome(o, z, Entry(o).page, r, v)
    BY <2>4, WriteOutcome
  <2>6. OpOK(z, {})
    BY <2>5 DEF Outcome
  <2>7. Operation(n, z, done, f)
    BY <2>2
  <2> HIDE DEF z, done, f
  <2> QED
    BY <2>6, <2>7, OperationInv
<1>3. ASSUME NEW n \in Names, cfs_remove(n) PROVE CoffeeInv'
  <2> DEFINE o == find_file(Begin, n)
             p == Entry(o).page
             z == remove_by_page(o, p)
  <2>1. o.file # 0 /\ Operation(n, z, NoFile, NoFile)
    BY <1>3 DEF cfs_remove
  <2>2. Found(Begin, o, n)
    BY <1>0, FindFile
  <2> HIDE DEF o
  <2>3. OpOK(o, {}) /\ IsFile(o.fl, p, n) /\ p \in Pages
    BY <2>1, <2>2, EntryFacts DEF Found
  <2>4. p \in FilesOf(o.fl)
    BY <2>3, ReadActive DEF FilesOf
  <2>5. OpOK(z, {})
    BY <2>3, <2>4, RemoveByPage
  <2> HIDE DEF z
  <2> QED
    BY <2>1, <2>5, OperationInv
<1>4. CASE cfs_coffee_format
  <2>1. StateOK([p \in Pages |-> Blank], Ram0)
    BY BlankOK, FreshRam
  <2> QED
    BY <2>1, <1>4 DEF cfs_coffee_format, CoffeeInv
<1>5. CASE Restart
  <2>1. FlashOK(flash)
    BY DEF CoffeeInv, StateOK
  <2> QED
    BY <2>1, <1>5, FreshRam DEF Restart, CoffeeInv
<1>6. CASE UNCHANGED vars
  BY <1>6 DEF vars, CoffeeInv
<1> QED
  BY <1>1, <1>2, <1>3, <1>4, <1>5, <1>6 DEF Next

\* The flash is laid out in whole extents and the RAM is true of it, always.
THEOREM CoffeeInvariant ==
  ASSUME WholeSectors, SafeCrashes
  PROVE  Spec => []CoffeeInv
<1>1. Init => CoffeeInv
  <2>1. StateOK([p \in Pages |-> Blank], Ram0)
    BY BlankOK, FreshRam
  <2> QED
    BY <2>1 DEF Init, CoffeeInv
<1>2. CoffeeInv /\ [Next]_vars => CoffeeInv'
  BY CoffeeStep
<1> QED
  BY <1>1, <1>2, PTL DEF Spec

LEMMA TypeFollows ==
  ASSUME CoffeeInv
  PROVE  TypeOK
<1> USE Sizes
<1>1. /\ Layout(flash) /\ flash \in Flashes /\ ram \in Rams /\ CacheOK(flash, ram.files, {})
      /\ FreeOK(flash, ram.next_free)
  BY DEF CoffeeInv, StateOK, FlashOK, Layout
<1>2. ASSUME NEW p \in Pages
      PROVE  /\ flash[p].d.i \in 0..PageCount
             /\ flash[p].d.v \in {0, Dummy} \cup Values
             /\ flash[p].h # Zero =>
                  flash[p].h.max \in 0..PageCount /\ flash[p].h.lp \in Pages
  <2>1. flash[p].h \in Headers /\ flash[p].d \in Regs
    BY <1>1, FlashFacts
  <2>2. flash[p].d.i \in 0..PageCount /\ flash[p].d.v \in {0, Dummy} \cup Values
    BY <2>1 DEF Regs
  <2>3. flash[p].h.max \in Nat /\ flash[p].h.lp \in Pages
    BY <2>1, FlashFacts
  <2>4. ASSUME flash[p].h # Zero PROVE flash[p].h.max \in 0..PageCount
    <3> DEFINE m == flash[p].h.max
    <3>1. p + m <= PageCount /\ m \in Nat /\ p \in Nat
      BY <2>3, <2>4, <1>1 DEF Layout, Extents, EndOf
    <3> HIDE DEF m
    <3>2. m \in 0..PageCount
      BY <3>1
    <3> QED
      BY <3>2 DEF m
  <2> QED
    BY <2>2, <2>3, <2>4
<1>3. ram.next_free \in 0..PageCount /\ ram.gc_wait \in BOOLEAN
  BY <1>1 DEF Rams, FreeOK, Stops
<1>4. ASSUME NEW i \in 1..Slots, NEW e, e = ram.files[i], e # NoEntry
      PROVE  /\ e.page \in Pages /\ e.max \in 1..PageCount
             /\ e.end \in -1..e.max /\ e.records \in -1..LogRecords
  <2>1. e \in Entries /\ EntryOK(flash, e)
    BY <1>1, <1>4 DEF Rams, Objects, CacheOK
  <2>2. e.page \in Pages
    BY <2>1, EntryFacts
  <2>3. HDR_ACTIVE(flash[e.page].h) /\ e.max = flash[e.page].h.max
        /\ e.end \in -1..e.max /\ e.records \in -1..LogRecords
    BY <2>1 DEF EntryOK
  <2>4. e.max \in Nat /\ e.max > 0 /\ e.page + e.max <= PageCount
    BY <2>2, <2>3, <1>1, ActiveExtent DEF EndOf
  <2>5. e.max \in 1..PageCount
    BY <2>2, <2>4
  <2> QED
    BY <2>2, <2>3, <2>5
<1> QED
  BY <1>2, <1>3, <1>4 DEF TypeOK

LEMMA SkipFollows ==
  ASSUME CoffeeInv
  PROVE  QuickSkipFindsAll
<1> USE Sizes
<1> SUFFICES ASSUME NEW p \in Pages, HDR_ACTIVE(flash[p].h)
             PROVE  Walk(flash) \cap p..(p + flash[p].h.max - 1) = {p}
  BY DEF QuickSkipFindsAll, ActiveStarts
<1> DEFINE m == flash[p].h.max
<1>1. Layout(flash)
  BY DEF CoffeeInv, StateOK, FlashOK
<1>2. Walk(flash) = Stops(flash)
  BY <1>1, WalkIsStops
<1>3. p \in Stops(flash) /\ p \in Extents(flash) /\ m \in Nat /\ m > 0 /\ p \in Nat
  BY <1>1, ActiveExtent
<1>4. ASSUME NEW q \in Stops(flash) PROVE q \in Int /\ ~(p < q /\ q < p + m)
  BY <1>3 DEF Stops, EndOf
<1> HIDE DEF m
<1>5. p \in p..(p + m - 1)
  BY <1>3
<1>6. ASSUME NEW q \in Stops(flash), q \in p..(p + m - 1) PROVE q = p
  <2>1. q \in Int /\ ~(p < q /\ q < p + m) /\ p <= q /\ q <= p + m - 1
    BY <1>3, <1>4, <1>6
  <2> QED
    BY <2>1, <1>3
<1>7. Stops(flash) \cap p..(p + m - 1) = {p}
  BY <1>3, <1>5, <1>6, SMTT(60)
<1> QED
  BY <1>2, <1>7 DEF m

LEMMA CacheFollows ==
  ASSUME CoffeeInv
  PROVE  CacheTrue
<1> USE Sizes
<1>1. /\ Layout(flash) /\ ram \in Rams /\ CacheOK(flash, ram.files, {})
  BY SMTT(60) DEF CoffeeInv, StateOK, FlashOK
<1> SUFFICES ASSUME NEW i \in 1..Slots, NEW e, e = ram.files[i], e # NoEntry,
                    NEW h, h = flash[e.page].h
             PROVE  /\ HDR_ACTIVE(h) /\ e.max = h.max /\ e.mod = h.mod
                    /\ e.end >= 0 /\ ~h.log => e.end = file_end(flash, e.page)
                    /\ e.records >= 0 =>
                         \A k \in 0..(LogRecords - 1) :
                           flash[h.lp + k].d.i # 0 <=> k < e.records
  BY DEF CacheTrue
<1>2. e \in Entries /\ EntryOK(flash, e) /\ EndOK(flash, e)
  BY <1>1 DEF Rams, Objects, CacheOK
<1>3. e.page \in Pages
  BY <1>2, EntryFacts, SMTT(60)
<1>4. HDR_ACTIVE(h) /\ e.max = h.max /\ e.mod = h.mod
  BY <1>2 DEF EntryOK
<1>5. ASSUME e.end >= 0, ~h.log PROVE e.end = file_end(flash, e.page)
  <2>1. IsEnd(flash, e.page, e.end)
    BY <1>2, <1>5, SMTT(60) DEF EndOK
  <2> QED
    BY <2>1, <1>1, <1>3, <1>4, FileEnd
<1>6. ASSUME e.records >= 0, NEW k \in 0..(LogRecords - 1)
      PROVE  flash[h.lp + k].d.i # 0 <=> k < e.records
  <2>1. LogHas(flash, h.lp, e.records)
    BY <1>2, <1>6 DEF EntryOK
  <2> QED
    BY <2>1, ZenonT(60) DEF LogHas
<1> QED
  BY <1>4, <1>5, <1>6, ZenonT(60)

LEMMA NextFreeFollows ==
  ASSUME CoffeeInv
  PROVE  NextFreeFirst
<1> SUFFICES ASSUME NEW p \in Walk(flash), HDR_FREE(read_header(flash, p))
             PROVE  p >= ram.next_free
  BY DEF NextFreeFirst
<1>1. Layout(flash) /\ FreeOK(flash, ram.next_free)
  BY DEF CoffeeInv, StateOK, FlashOK
<1>2. p \in Stops(flash)
  BY <1>1, WalkIsStops
<1>3. flash[p].h = Zero
  <2>1. Garbage # Zero
    <3>1. Garbage.obs /\ ~Zero.obs
      BY DEF Garbage, Header, Zero
    <3> QED
      BY <3>1
  <2> QED
    BY <2>1 DEF HDR_FREE, read_header
<1>4. ram.next_free <= p
  BY <1>1, <1>2, <1>3 DEF FreeOK
<1> QED
  BY <1>4

LEMMA GcWaitFollows ==
  ASSUME CoffeeInv, "gc" \notin CrashIn
  PROVE  GcWaitTrue
<1> SUFFICES ASSUME ram.gc_wait PROVE collect_garbage(Begin).fl = flash
  BY DEF GcWaitTrue
<1>1. Begin \in Ops /\ Begin.fl = flash
  BY BeginOK
<1>2. Layout(flash) /\ flash \in Flashes /\ \A p \in Extents(flash) : ~flash[p].h.obs
  BY DEF CoffeeInv, StateOK, FlashOK, Layout, GcOK
<1>3. Collected(Begin, collect_garbage(Begin))
  BY <1>1, <1>2, CollectGarbage
<1>4. collect_garbage(Begin).fl = Swept(flash, PageCount)
  BY <1>1, <1>3 DEF Collected
<1> QED
  BY <1>2, <1>4, NothingDoomed

\* What is kept in the flash and in the RAM has its type, whatever the sizes of
\* the flash, of extents and of logs.
THEOREM CoffeeTypeOK ==
  ASSUME WholeSectors, SafeCrashes
  PROVE  Spec => []TypeOK
<1>1. CoffeeInv => TypeOK
  BY TypeFollows
<1> QED
  BY <1>1, CoffeeInvariant, PTL

\* The scan of find_file and of the collector, which skips from header to header
\* (next_file), comes to every active extent and never stops within one.
THEOREM CoffeeQuickSkip ==
  ASSUME WholeSectors, SafeCrashes
  PROVE  Spec => []QuickSkipFindsAll
<1>1. CoffeeInv => QuickSkipFindsAll
  BY SkipFollows
<1> QED
  BY <1>1, CoffeeInvariant, PTL

\* The file objects (load_file, remove_by_page, merge_log), next_free and gc_wait
\* (reserve, collect_garbage) are true of the flash.
THEOREM CoffeeRamTrue ==
  ASSUME WholeSectors, SafeCrashes
  PROVE  Spec => []RamTrue
<1>1. CoffeeInv => RamTrue
  BY CacheFollows, NextFreeFollows, GcWaitFollows DEF RamTrue, SafeCrashes
<1> QED
  BY <1>1, CoffeeInvariant, PTL

-------------------------------------------------------------------------------
(* What the files hold.                                                       *)

\* No two files have the same name.
One(fl) == \A p, q \in FilesOf(fl) : fl[p].h.name = fl[q].h.name => p = q

\* The regions of file p up to its end e.
View(fl, p, e) == [i \in 1..e |-> Region(fl, p, i - 1)]

LEMMA NoContents ==
  ASSUME NEW fl, Layout(fl), NEW n, \A p \in FilesOf(fl) : fl[p].h.name # n
  PROVE  Contents(fl, n) = NoFile
<1>1. \A p \in Pages : ~IsFile(fl, p, n)
  BY ReadActive DEF FilesOf
<1>2. ScanFor(fl, n) = INVALID
  BY <1>1, ScanFacts
<1> QED
  BY <1>2 DEF Contents

LEMMA FileContents ==
  ASSUME NEW fl, FlashOK(fl), One(fl), NEW p \in FilesOf(fl), NEW n, fl[p].h.name = n,
         NEW e, IsEnd(fl, p, e)
  PROVE  Contents(fl, n) = View(fl, p, e) /\ e \in Nat
<1> USE Sizes
<1>1. Layout(fl) /\ p \in Pages /\ HDR_ACTIVE(fl[p].h) /\ fl[p].h.mod \in BOOLEAN
      /\ fl[p].h.max \in Nat
  BY ActiveExtent, FlashFacts DEF FlashOK, FilesOf
<1>2. IsFile(fl, p, n)
  BY <1>1, ReadActive DEF FilesOf
<1>3. ScanFor(fl, n) = p
  <2> DEFINE q == ScanFor(fl, n)
  <2>1. q \in Pages /\ IsFile(fl, q, n)
    BY <1>1, <1>2, ScanFacts
  <2>2. q \in FilesOf(fl) /\ fl[q].h.name = n
    BY <2>1, ReadActive DEF FilesOf
  <2> HIDE DEF q
  <2>3. q = p
    BY <2>2 DEF One
  <2> QED
    BY <2>3 DEF q
<1>4. p # INVALID
  BY <1>1 DEF INVALID
<1>5. file_end(fl, p) = e
  BY <1>1, FileEnd
<1>6. e \in Nat
  BY <1>1 DEF IsEnd
<1>7. \A i \in 1..e : ReadRegion(fl, p, fl[p].h.mod, -1, i - 1) = Region(fl, p, i - 1)
  <2> TAKE i \in 1..e
  <2> DEFINE r == i - 1
             mod == fl[p].h.mod
             records == -1
  <2>1. r \in Nat /\ mod \in BOOLEAN /\ (mod <=> fl[p].h.mod) /\ records \in -1..LogRecords
        /\ (records >= 0 => LogHas(fl, fl[p].h.lp, records))
    BY <1>1, <1>6
  <2> HIDE DEF r, mod, records
  <2>2. ReadRegion(fl, p, mod, records, r) = Region(fl, p, r)
    BY <2>1, ReadIsRegion
  <2> QED
    BY <2>2 DEF r, mod, records
<1>8. Contents(fl, n) = [i \in 1..e |-> ReadRegion(fl, p, fl[p].h.mod, -1, i - 1)]
  BY <1>3, <1>4, <1>5 DEF Contents
<1> QED
  BY <1>6, <1>7, <1>8 DEF View

LEMMA EndExists ==
  ASSUME NEW fl, FlashOK(fl), NEW p \in FilesOf(fl)
  PROVE  \E e : IsEnd(fl, p, e)
BY FileEnd DEF FlashOK, FilesOf

\* A file that is the same holds the same.
LEMMA ViewKept ==
  ASSUME NEW fl, FlashOK(fl), NEW p \in FilesOf(fl), NEW fl2, SameFile(fl, fl2, p),
         NEW e, IsEnd(fl, p, e)
  PROVE  IsEnd(fl2, p, e) /\ View(fl2, p, e) = View(fl, p, e)
<1>1. Layout(fl) /\ p \in Pages /\ HDR_ACTIVE(fl[p].h) /\ Kept(fl, fl2, p)
  BY DEF FlashOK, FilesOf, SameFile
<1>2. IsEnd(fl2, p, e)
  BY <1>1, KeptEnd
<1> DEFINE m == fl[p].h.max
<1>3. m \in Nat /\ e \in 0..m
  BY <1>1, ActiveExtent DEF IsEnd
<1>4. \A j \in 0..(m - 1) : Region(fl2, p, j) = Region(fl, p, j)
  BY RegionKept
<1> HIDE DEF m
<1>5. \A i \in 1..e : i - 1 \in 0..(m - 1)
  BY <1>3
<1>6. \A i \in 1..e : Region(fl2, p, i - 1) = Region(fl, p, i - 1)
  BY <1>4, <1>5
<1> QED
  BY <1>2, <1>6 DEF View

\* From fl to fl2 the files but n are the same, and n holds x.
Leads(fl, fl2, n, x) ==
  /\ FlashOK(fl2) /\ One(fl2) /\ Contents(fl2, n) = x
  /\ \A m : m # n => Contents(fl2, m) = Contents(fl, m)

\* The same files with a file added, removed or changed.
Others(fl, fl2, n) ==
  /\ \A q \in FilesOf(fl) : fl[q].h.name # n =>
       q \in FilesOf(fl2) /\ SameFile(fl, fl2, q)
  /\ \A q \in FilesOf(fl2) : fl2[q].h.name # n => q \in FilesOf(fl) /\ fl[q].h.name # n

LEMMA OthersHold ==
  ASSUME NEW fl, FlashOK(fl), One(fl), NEW fl2, FlashOK(fl2), One(fl2),
         NEW n, Others(fl, fl2, n), NEW m, m # n
  PROVE  Contents(fl2, m) = Contents(fl, m)
<1>1. Layout(fl) /\ Layout(fl2)
  BY DEF FlashOK
<1>2. CASE \E p \in FilesOf(fl) : fl[p].h.name = m
  <2>1. PICK p \in FilesOf(fl) : fl[p].h.name = m
    BY <1>2
  <2>2. p \in FilesOf(fl2) /\ SameFile(fl, fl2, p)
    BY <2>1 DEF Others
  <2>3. fl2[p].h.name = m
    BY <2>1, <2>2 DEF SameFile, Kept
  <2>4. PICK e : IsEnd(fl, p, e)
    BY EndExists
  <2>5. IsEnd(fl2, p, e) /\ View(fl2, p, e) = View(fl, p, e)
    BY <2>2, <2>4, ViewKept
  <2>6. Contents(fl, m) = View(fl, p, e)
    BY <2>1, <2>4, FileContents
  <2>7. Contents(fl2, m) = View(fl2, p, e)
    BY <2>2, <2>3, <2>5, FileContents
  <2> QED
    BY <2>5, <2>6, <2>7
<1>3. CASE \A p \in FilesOf(fl) : fl[p].h.name # m
  <2>1. ASSUME NEW p \in FilesOf(fl2), fl2[p].h.name = m PROVE FALSE
    <3>1. p \in FilesOf(fl) /\ fl[p].h.name # n
      BY <2>1 DEF Others
    <3>2. fl2[p].h.name = fl[p].h.name
      BY <3>1 DEF Others, SameFile, Kept
    <3> QED
      BY <3>1, <3>2, <2>1, <1>3
  <2> QED
    BY <2>1, <1>1, <1>3, NoContents
<1> QED
  BY <1>2, <1>3

LEMMA ChangeOthers ==
  ASSUME NEW fl, FlashOK(fl), One(fl), NEW fl2, NEW p \in FilesOf(fl), NEW P,
         Change(fl, fl2, p, P)
  PROVE  One(fl2) /\ Others(fl, fl2, fl[p].h.name)
<1>1. /\ (P = p \/ P \notin FilesOf(fl)) /\ fl2[P].h.name = fl[p].h.name
      /\ FilesOf(fl2) = (FilesOf(fl) \ {p}) \cup {P}
  BY DEF Change
<1>2. ASSUME NEW q \in FilesOf(fl2), q # P
      PROVE  q \in FilesOf(fl) /\ q # p /\ fl2[q].h.name = fl[q].h.name
  <2>1. q \in FilesOf(fl) /\ q # p
    BY <1>1, <1>2
  <2> QED
    BY <2>1 DEF Change, SameFile, Kept
<1>3. One(fl2)
  <2> SUFFICES ASSUME NEW q1 \in FilesOf(fl2), NEW q2 \in FilesOf(fl2),
                      fl2[q1].h.name = fl2[q2].h.name
               PROVE  q1 = q2
    BY DEF One
  <2>1. CASE q1 # P /\ q2 # P
    BY <2>1, <1>2 DEF One
  <2>2. CASE q1 = P /\ q2 # P
    BY <2>2, <1>1, <1>2 DEF One
  <2>3. CASE q1 # P /\ q2 = P
    BY <2>3, <1>1, <1>2 DEF One
  <2> QED
    BY <2>1, <2>2, <2>3
<1>4. Others(fl, fl2, fl[p].h.name)
  <2>1. ASSUME NEW q \in FilesOf(fl), fl[q].h.name # fl[p].h.name
        PROVE  q \in FilesOf(fl2) /\ SameFile(fl, fl2, q)
    BY <2>1 DEF Change
  <2>2. ASSUME NEW q \in FilesOf(fl2), fl2[q].h.name # fl[p].h.name
        PROVE  q \in FilesOf(fl) /\ fl[q].h.name # fl[p].h.name
    BY <2>2, <1>1, <1>2
  <2> QED
    BY <2>1, <2>2 DEF Others
<1> QED
  BY <1>3, <1>4

LEMMA SameLeads ==
  ASSUME NEW fl, FlashOK(fl), One(fl), NEW fl2, FlashOK(fl2), NEW p \in FilesOf(fl), NEW P,
         Same(fl, fl2, p, P), NEW n, n = fl[p].h.name
  PROVE  Leads(fl, fl2, n, Contents(fl, n))
<1>1. Change(fl, fl2, p, P)
  BY DEF Same
<1>2. One(fl2) /\ Others(fl, fl2, n)
  BY <1>1, ChangeOthers
<1>3. \A m : m # n => Contents(fl2, m) = Contents(fl, m)
  BY <1>2, OthersHold
<1>4. PICK e : IsEnd(fl, p, e)
  BY EndExists
<1>5. IsEnd(fl2, P, e) /\ \A j \in 0..(e - 1) : Region(fl2, P, j) = Region(fl, p, j)
  BY <1>4 DEF Same
<1>6. Contents(fl, n) = View(fl, p, e) /\ e \in Nat
  BY <1>4, FileContents
<1>7. P \in FilesOf(fl2) /\ fl2[P].h.name = n
  BY <1>1 DEF Change
<1>8. Contents(fl2, n) = View(fl2, P, e)
  BY <1>2, <1>5, <1>7, FileContents
<1>9. \A i \in 1..e : i - 1 \in 0..(e - 1)
  BY <1>6
<1>10. View(fl2, P, e) = View(fl, p, e)
  BY <1>5, <1>9 DEF View
<1> QED
  BY <1>2, <1>3, <1>6, <1>8, <1>10 DEF Leads

\* f with v as region r.
Put(f, r, v) ==
  [i \in 1..(IF r < Len(f) THEN Len(f) ELSE r + 1) |-> IF i = r + 1 THEN v ELSE f[i]]

Datum == {0, Dummy} \cup Values

LEMMA ViewSeq ==
  ASSUME NEW fl, FlashOK(fl), NEW p \in FilesOf(fl), NEW e, IsEnd(fl, p, e)
  PROVE  View(fl, p, e) \in Seq(Datum) /\ Len(View(fl, p, e)) = e
<1> DEFINE m == fl[p].h.max
           f == View(fl, p, e)
<1>1. m \in Nat /\ e \in 0..m
  BY ActiveExtent DEF IsEnd, FlashOK, FilesOf
<1>2. \A j \in 0..(m - 1) : Region(fl, p, j) \in Datum
  BY RegionValue DEF Datum
<1> HIDE DEF m
<1>3. \A i \in 1..e : i - 1 \in 0..(m - 1)
  BY <1>1
<1>4. f \in [1..e -> Datum]
  BY <1>2, <1>3 DEF View
<1> HIDE DEF f
<1>5. e \in Nat
  BY <1>1
<1>6. f \in Seq(Datum)
  BY <1>4, <1>5
<1>7. Len(f) = e
  BY <1>4, <1>5, <1>6, LenProperties
<1> QED
  BY <1>6, <1>7 DEF f

LEMMA DoneLeads ==
  ASSUME NEW fl, FlashOK(fl), One(fl), NEW fl2, FlashOK(fl2), NEW p \in FilesOf(fl), NEW P,
         NEW e, IsEnd(fl, p, e), NEW r \in 0..e, NEW v,
         Done(fl, fl2, p, P, r, v), NEW n, n = fl[p].h.name
  PROVE  Leads(fl, fl2, n, Put(Contents(fl, n), r, v))
<1>1. Change(fl, fl2, p, P)
  BY DEF Done
<1>2. One(fl2) /\ Others(fl, fl2, n)
  BY <1>1, ChangeOthers
<1>3. \A m : m # n => Contents(fl2, m) = Contents(fl, m)
  BY <1>2, OthersHold
<1> DEFINE e2 == IF r < e THEN e ELSE r + 1
           f == View(fl, p, e)
<1>4. Contents(fl, n) = f /\ e \in Nat /\ Len(f) = e
  BY FileContents, ViewSeq
<1>5. /\ IsEnd(fl2, P, e2)
      /\ \A j \in 0..(e2 - 1) :
           Region(fl2, P, j) = IF j = r THEN v ELSE Region(fl, p, j)
  <2>1. r <= e
    BY <1>4
  <2> QED
    BY <2>1 DEF Done
<1>6. P \in FilesOf(fl2) /\ fl2[P].h.name = n
  BY <1>1 DEF Change
<1>7. Contents(fl2, n) = View(fl2, P, e2)
  BY <1>2, <1>5, <1>6, FileContents
<1>8. e2 \in Nat /\ r \in Nat /\ r <= e
  BY <1>4
<1>9. ASSUME NEW i \in 1..e2
      PROVE  Region(fl2, P, i - 1) = IF i = r + 1 THEN v ELSE f[i]
  <2>1. i - 1 \in 0..(e2 - 1) /\ (i - 1 = r <=> i = r + 1)
    BY <1>8
  <2>2. Region(fl2, P, i - 1) = IF i = r + 1 THEN v ELSE Region(fl, p, i - 1)
    BY <2>1, <1>5
  <2>3. i # r + 1 => i \in 1..e
    BY <1>4, <1>8
  <2>4. i # r + 1 => f[i] = Region(fl, p, i - 1)
    BY <2>3 DEF View
  <2> QED
    BY <2>2, <2>4
<1> HIDE DEF f
<1>10. View(fl2, P, e2) = Put(f, r, v)
  <2>1. View(fl2, P, e2) = [i \in 1..e2 |-> IF i = r + 1 THEN v ELSE f[i]]
    BY <1>9 DEF View
  <2> QED
    BY <2>1, <1>4 DEF Put
<1> QED
  BY <1>2, <1>3, <1>4, <1>7, <1>10 DEF Leads

\* What the last theorem supposes besides: no power failure in the copying of a
\* merge, and a mark for the absence of a file that is not a sequence of regions.
SafeMerge == "merge" \notin CrashIn
NoFileDistinct == NoFile \notin Seq(Datum)

FullInv == CoffeeInv /\ One(flash) /\ files = [n \in Names |-> Contents(flash, n)]

\* Every file as it was.
LEMMA StayLeads ==
  ASSUME NEW fl, FlashOK(fl), One(fl), NEW n
  PROVE  Leads(fl, fl, n, Contents(fl, n))
BY DEF Leads

LEMMA LeadsOn ==
  ASSUME NEW fl, NEW fl2, NEW fl3, NEW n, NEW x, NEW y,
         Leads(fl, fl2, n, x), Leads(fl2, fl3, n, y)
  PROVE  Leads(fl, fl3, n, y)
BY DEF Leads

\* No extent of a file is lost or made: the collection in a reserve that fails.
LEMMA KeptLeads ==
  ASSUME NEW fl, FlashOK(fl), One(fl), NEW fl2, FlashOK(fl2), KeptBut(fl, fl2, {}),
         FilesOf(fl2) = FilesOf(fl), NEW n, \A q \in Pages : ~IsFile(fl, q, n)
  PROVE  Leads(fl, fl2, n, Contents(fl, n))
<1>1. \A q \in FilesOf(fl) : SameFile(fl, fl2, q) /\ fl2[q].h.name = fl[q].h.name
  BY KeptSame DEF SameFile, Kept
<1>2. \A q \in FilesOf(fl) : fl[q].h.name # n
  BY ReadActive DEF FilesOf
<1>3. One(fl2) /\ Others(fl, fl2, n)
  BY <1>1, <1>2 DEF One, Others
<1>4. \A m : m # n => Contents(fl2, m) = Contents(fl, m)
  BY <1>3, OthersHold
<1>5. Contents(fl, n) = NoFile /\ Contents(fl2, n) = NoFile
  BY <1>1, <1>2, NoContents DEF FlashOK
<1> QED
  BY <1>3, <1>4, <1>5 DEF Leads

\* A new extent is an empty file.
LEMMA NewLeads ==
  ASSUME NEW fl, FlashOK(fl), One(fl), NEW fl2, FlashOK(fl2), KeptBut(fl, fl2, {}),
         NEW p, FilesOf(fl2) = FilesOf(fl) \cup {p}, p \notin FilesOf(fl),
         IsEnd(fl2, p, 0), NEW n, fl2[p].h.name = n, \A q \in Pages : ~IsFile(fl, q, n)
  PROVE  Leads(fl, fl2, n, <<>>) /\ Contents(fl, n) = NoFile
<1>1. \A q \in FilesOf(fl) : SameFile(fl, fl2, q) /\ fl2[q].h.name = fl[q].h.name
  BY KeptSame DEF SameFile, Kept
<1>2. \A q \in FilesOf(fl) : fl[q].h.name # n
  BY ReadActive DEF FilesOf
<1>3. One(fl2)
  BY <1>1, <1>2 DEF One
<1>4. Others(fl, fl2, n)
  BY <1>1, <1>2 DEF Others
<1>5. \A m : m # n => Contents(fl2, m) = Contents(fl, m)
  BY <1>3, <1>4, OthersHold
<1>6. p \in FilesOf(fl2)
  OBVIOUS
<1>7. Contents(fl2, n) = View(fl2, p, 0)
  BY <1>3, <1>6, FileContents
<1>8. View(fl2, p, 0) = <<>>
  <2>1. View(fl2, p, 0) \in Seq(Datum) /\ Len(View(fl2, p, 0)) = 0
    BY <1>6, ViewSeq
  <2> QED
    BY <2>1, EmptySeq
<1>9. Contents(fl, n) = NoFile
  BY <1>2, NoContents DEF FlashOK
<1> QED
  BY <1>3, <1>5, <1>7, <1>8, <1>9 DEF Leads

\* A file that is removed is gone, and no other is.
LEMMA RemoveLeads ==
  ASSUME NEW o, NEW z, FlashOK(o.fl), One(o.fl), FlashOK(z.fl), NEW p \in FilesOf(o.fl),
         Without(o, z, p), NEW n, o.fl[p].h.name = n
  PROVE  Leads(o.fl, z.fl, n, NoFile)
<1>1. FilesOf(z.fl) = FilesOf(o.fl) \ {p}
  BY SMTT(60) DEF Without
<1>2. \A q \in FilesOf(o.fl) : q # p =>
        /\ SameFile(o.fl, z.fl, q) /\ z.fl[q].h.name = o.fl[q].h.name /\ o.fl[q].h.name # n
  BY DEF Without, SameFile, Kept, One
<1>3. \A q \in FilesOf(z.fl) : q \in FilesOf(o.fl) /\ q # p
  BY <1>1
<1>4. One(z.fl)
  BY <1>2, <1>3 DEF One
<1>5. Others(o.fl, z.fl, n)
  BY <1>1, <1>2 DEF Others
<1>6. \A m : m # n => Contents(z.fl, m) = Contents(o.fl, m)
  BY <1>4, <1>5, OthersHold
<1>7. Contents(z.fl, n) = NoFile
  BY <1>2, <1>3, NoContents DEF FlashOK
<1> QED
  BY <1>4, <1>6, <1>7 DEF Leads

LEMMA EmptyFlash ==
  /\ One([p \in Pages |-> Blank])
  /\ \A n : Contents([p \in Pages |-> Blank], n) = NoFile
<1> DEFINE fl == [p \in Pages |-> Blank]
<1>1. \A p \in Pages : fl[p].h = Zero
  BY DEF Blank
<1>2. Layout(fl)
  BY BlankOK DEF FlashOK
<1> HIDE DEF fl
<1>3. FilesOf(fl) = {}
  BY <1>1 DEF FilesOf, HDR_ACTIVE, Zero
<1>4. One(fl) /\ \A n : Contents(fl, n) = NoFile
  BY <1>2, <1>3, NoContents DEF One
<1> QED
  BY <1>4 DEF fl

\* An operation whose every outcome leads to what the calls say.
LEMMA OperationHolds ==
  ASSUME FullInv, NEW n \in Names, NEW o, OpOK(o, {}), NEW done, NEW failed,
         Leads(flash, o.fl, n, IF o.file # 0 THEN done ELSE failed),
         \A f \in o.past : \E x \in {files[n], failed, done} : Leads(flash, f, n, x),
         Operation(n, o, done, failed)
  PROVE  FullInv'
<1>1. CoffeeInv'
  BY OperationInv
<1>2. files \in [Names -> {Contents(flash, m) : m \in Names}]
      /\ \A m \in Names : files[m] = Contents(flash, m)
  BY DEF FullInv
<1>3. ASSUME NEW x, Leads(flash, flash', n, x), files' = [files EXCEPT ![n] = x]
      PROVE  One(flash') /\ files' = [m \in Names |-> Contents(flash', m)]
  <2>1. \A m \in Names : Contents(flash', m) = IF m = n THEN x ELSE files[m]
    BY <1>2, <1>3 DEF Leads
  <2>2. files' = [m \in Names |-> IF m = n THEN x ELSE files[m]]
    BY <1>2, <1>3
  <2>3. One(flash')
    BY <1>3 DEF Leads
  <2> QED
    BY <2>1, <2>2, <2>3
<1>4. \E x : Leads(flash, flash', n, x) /\ files' = [files EXCEPT ![n] = x]
  <2>1. CASE flash' = o.fl /\ files' = [files EXCEPT ![n] = IF o.file # 0 THEN done ELSE failed]
    BY <2>1
  <2>2. CASE /\ flash' \in o.past
             /\ \E c \in {Contents(flash', n)} :
                  files' = [files EXCEPT ![n] = IF c \in {@, failed, done} THEN c ELSE @]
    <3> DEFINE c == Contents(flash', n)
    <3>1. files' = [files EXCEPT ![n] = IF c \in {files[n], failed, done} THEN c ELSE files[n]]
      BY <2>2, <1>2
    <3>2. PICK x \in {files[n], failed, done} : Leads(flash, flash', n, x)
      BY <2>2
    <3>3. c = x
      BY <3>2 DEF Leads
    <3> HIDE DEF c
    <3>4. files' = [files EXCEPT ![n] = x]
      BY <3>1, <3>2, <3>3
    <3> QED
      BY <3>2, <3>4
  <2> QED
    BY <2>1, <2>2 DEF Operation
<1> QED
  BY <1>1, <1>3, <1>4 DEF FullInv

\* cfs_open for writing: the file is there, or it is made and empty, or it could
\* not be made.
LEMMA OpenLeads ==
  ASSUME NoFileDistinct, FullInv, NEW n \in Names, NEW o, Opens(Begin, o, n)
  PROVE  /\ OpOK(o, {})
         /\ o.file # 0 => /\ Leads(flash, o.fl, n, Regions(files[n]))
                          /\ \A f \in o.past : Leads(flash, f, n, Regions(files[n]))
         /\ o.file = 0 => Leads(flash, o.fl, n, files[n]) /\ o.past = {}
<1>1. /\ FlashOK(flash) /\ One(flash) /\ files[n] = Contents(flash, n)
      /\ Begin.fl = flash /\ Begin.past = {}
  BY BeginOK DEF FullInv, CoffeeInv, StateOK
<1>2. CASE o.file = 0
  <2>1. /\ OpOK(o, {}) /\ o.past = {} /\ KeptBut(flash, o.fl, {})
        /\ FilesOf(o.fl) = FilesOf(flash) /\ \A q \in Pages : ~IsFile(flash, q, n)
    BY <1>1, <1>2 DEF Opens
  <2>2. FlashOK(o.fl)
    BY <2>1 DEF OpOK
  <2>3. Leads(flash, o.fl, n, Contents(flash, n))
    BY <1>1, <2>1, <2>2, KeptLeads
  <2> QED
    BY <1>1, <1>2, <2>1, <2>3
<1>3. CASE o.file # 0
  <2> DEFINE p == Entry(o).page
  <2>1. Holds(o, {}, p) /\ IsFile(o.fl, p, n)
    BY <1>3 DEF Opens
  <2>2. OpOK(o, {}) /\ FlashOK(o.fl) /\ p \in FilesOf(o.fl) /\ p \in Pages
    BY <2>1, HoldsFacts DEF Holds
  <2>3. o.fl[p].h.name = n
    BY <2>1, ReadActive
  <2>4. CASE o.fl = flash /\ o.past = {}
    <3>1. PICK e : IsEnd(flash, p, e)
      BY <2>2, <2>4, EndExists
    <3>2. files[n] = View(flash, p, e)
      BY <1>1, <2>2, <2>3, <2>4, <3>1, FileContents
    <3>3. files[n] # NoFile
      BY <1>1, <2>2, <2>4, <3>1, <3>2, ViewSeq DEF NoFileDistinct
    <3>4. Leads(flash, flash, n, Contents(flash, n))
      BY <1>1, StayLeads
    <3> QED
      BY <1>1, <1>3, <2>2, <2>4, <3>3, <3>4 DEF Regions
  <2>5. CASE Fresh(Begin, o, n)
    <3>1. /\ \A q \in Pages : ~IsFile(flash, q, n)
          /\ o.past = Past({}, o.fl, "reserve") /\ KeptBut(flash, o.fl, {})
          /\ FilesOf(o.fl) = FilesOf(flash) \cup {p} /\ p \notin FilesOf(flash)
          /\ Entry(o).end = 0
      BY <1>1, <2>5 DEF Fresh
    <3>2. EndOK(o.fl, Entry(o)) /\ ~o.fl[p].h.log
      BY <2>1, HoldsFacts
    <3>3. IsEnd(o.fl, p, 0)
      BY <3>1, <3>2 DEF EndOK
    <3> HIDE DEF p
    <3>4. Leads(flash, o.fl, n, <<>>) /\ Contents(flash, n) = NoFile
      BY <1>1, <2>2, <2>3, <3>1, <3>3, NewLeads
    <3>5. Regions(files[n]) = <<>>
      BY <1>1, <3>4 DEF Regions
    <3>6. \A f \in o.past : f = o.fl
      BY <3>1 DEF Past
    <3> QED
      BY <1>3, <2>2, <3>4, <3>5, <3>6
  <2> QED
    BY <1>1, <1>3, <2>4, <2>5 DEF Opens
<1> QED
  BY <1>2, <1>3

\* cfs_write puts v at region r of what the file held, or leaves it; and so it is
\* at every point at which the power may fail.
LEMMA WriteLeads ==
  ASSUME SafeMerge, NEW o, NEW p, Holds(o, {}, p), One(o.fl), NEW n, o.fl[p].h.name = n,
         NEW r \in 0..Entry(o).end, NEW v, NEW z, Outcome(o, z, p, r, v)
  PROVE  /\ OpOK(z, {})
         /\ z.file # 0 => Leads(o.fl, z.fl, n, Put(Contents(o.fl, n), r, v))
         /\ z.file = 0 => Leads(o.fl, z.fl, n, Contents(o.fl, n))
         /\ \A f \in z.past :
              \/ f \in o.past
              \/ Leads(o.fl, f, n, Contents(o.fl, n))
              \/ Leads(o.fl, f, n, Put(Contents(o.fl, n), r, v))
<1> DEFINE e == Entry(o).end
<1>1. FlashOK(o.fl) /\ p \in FilesOf(o.fl)
  BY HoldsFacts DEF Holds
<1>2. IsEnd(o.fl, p, e)
  BY HoldsFacts DEF Holds, EndOK
<1>3. OpOK(z, {}) /\ FlashOK(z.fl) /\ \A f \in z.past : FlashOK(f)
  BY DEF Outcome, OpOK
<1>4. r \in 0..e
  OBVIOUS
<1> HIDE DEF e
<1>5. ASSUME z.file # 0 PROVE Leads(o.fl, z.fl, n, Put(Contents(o.fl, n), r, v))
  <2>1. PICK P : Done(o.fl, z.fl, p, P, r, v)
    BY <1>5 DEF Outcome
  <2> QED
    BY <1>1, <1>2, <1>3, <1>4, <2>1, DoneLeads
<1>6. ASSUME z.file = 0 PROVE Leads(o.fl, z.fl, n, Contents(o.fl, n))
  <2>1. PICK P : Same(o.fl, z.fl, p, P)
    BY <1>6 DEF Outcome
  <2> QED
    BY <1>1, <1>3, <2>1, SameLeads
<1>7. ASSUME NEW f \in z.past, f \notin o.past
      PROVE  \/ Leads(o.fl, f, n, Contents(o.fl, n))
             \/ Leads(o.fl, f, n, Put(Contents(o.fl, n), r, v))
  <2>1. PICK P : Same(o.fl, f, p, P) \/ Done(o.fl, f, p, P, r, v)
    BY <1>7 DEF Outcome, SafeMerge
  <2>2. FlashOK(f)
    BY <1>3
  <2>3. CASE Same(o.fl, f, p, P)
    BY <1>1, <2>2, <2>3, SameLeads
  <2>4. CASE Done(o.fl, f, p, P, r, v)
    BY <1>1, <1>2, <1>4, <2>2, <2>4, DoneLeads
  <2> QED
    BY <2>1, <2>3, <2>4
<1> QED
  BY <1>3, <1>5, <1>6, <1>7

LEMMA FilesStep ==
  ASSUME WholeSectors, SafeCrashes, SafeMerge, NoFileDistinct, FullInv, [Next]_vars
  PROVE  FullInv'
<1> USE DEF SafeCrashes
<1>0. /\ OpOK(Begin, {}) /\ UsedOK(Begin) /\ Begin.fl = flash /\ Begin.past = {}
      /\ FlashOK(flash) /\ One(flash) /\ \A n \in Names : files[n] = Contents(flash, n)
  BY BeginOK DEF FullInv, CoffeeInv, StateOK
<1>1. ASSUME NEW n \in Names, Open(n) PROVE FullInv'
  <2> DEFINE o == OpenWrite(n)
             done == Regions(files[n])
             failed == files[n]
  <2>1. Opens(Begin, o, n) /\ Operation(n, o, done, failed)
    BY <1>0, <1>1, OpenWriteOpens DEF Open
  <2> HIDE DEF o
  <2>2. /\ OpOK(o, {})
        /\ o.file # 0 => /\ Leads(flash, o.fl, n, done)
                         /\ \A f \in o.past : Leads(flash, f, n, done)
        /\ o.file = 0 => Leads(flash, o.fl, n, failed) /\ o.past = {}
    BY <2>1, OpenLeads
  <2> HIDE DEF done
  <2>3. Leads(flash, o.fl, n, IF o.file # 0 THEN done ELSE failed)
    BY <2>2
  <2>4. \A f \in o.past : \E x \in {files[n], failed, done} : Leads(flash, f, n, x)
    BY <2>2
  <2> HIDE DEF failed
  <2> QED
    BY <2>1, <2>2, <2>3, <2>4, OperationHolds
<1>2. ASSUME NEW n \in Names, Write(n) PROVE FullInv'
  <2> DEFINE o == OpenWrite(n)
             g == Regions(files[n])
             With(r, v) == [i \in 1..(IF r < Len(g) THEN Len(g) ELSE r + 1) |->
                              IF i = r + 1 THEN v ELSE g[i]]
  <2>1. o.file # 0 /\ \E r \in 0..Entry(o).end, v \in Values :
                        Operation(n, cfs_write(o, r, v), With(r, v), g)
    BY <1>2 DEF Write
  <2>2. PICK r \in 0..Entry(o).end, v \in Values :
          Operation(n, cfs_write(o, r, v), With(r, v), g)
    BY <2>1
  <2>3. Opens(Begin, o, n)
    BY <1>0, OpenWriteOpens
  <2> DEFINE z == cfs_write(o, r, v)
             done == Put(g, r, v)
             p == Entry(o).page
  <2> HIDE DEF o
  <2>4. Holds(o, {}, p) /\ IsFile(o.fl, p, n)
    BY <2>1, <2>3 DEF Opens
  <2>5. o.fl[p].h.name = n
    BY <2>4, ReadActive
  <2>6. Outcome(o, z, p, r, v)
    BY <2>4, WriteOutcome
  <2>7. /\ Leads(flash, o.fl, n, g) /\ \A f \in o.past : Leads(flash, f, n, g)
    BY <2>1, <2>3, OpenLeads
  <2>8. Operation(n, z, done, g)
    BY <2>2 DEF Put
  <2> HIDE DEF z, p, g
  <2>9. One(o.fl) /\ Contents(o.fl, n) = g
    BY <2>7 DEF Leads
  <2>10. /\ OpOK(z, {})
         /\ z.file # 0 => Leads(o.fl, z.fl, n, done)
         /\ z.file = 0 => Leads(o.fl, z.fl, n, g)
         /\ \A f \in z.past : \/ f \in o.past
                              \/ Leads(o.fl, f, n, g)
                              \/ Leads(o.fl, f, n, done)
    BY <2>4, <2>5, <2>6, <2>9, WriteLeads
  <2> HIDE DEF done
  <2>11. Leads(flash, z.fl, n, IF z.file # 0 THEN done ELSE g)
    BY <2>7, <2>10, LeadsOn
  <2>12. \A f \in z.past : \E x \in {files[n], g, done} : Leads(flash, f, n, x)
    BY <2>7, <2>10, LeadsOn
  <2> QED
    BY <2>8, <2>10, <2>11, <2>12, OperationHolds
<1>3. ASSUME NEW n \in Names, cfs_remove(n) PROVE FullInv'
  <2> DEFINE o == find_file(Begin, n)
             p == Entry(o).page
             z == remove_by_page(o, p)
             done == NoFile
  <2>1. o.file # 0 /\ Operation(n, z, done, done)
    BY <1>3 DEF cfs_remove
  <2>2. Found(Begin, o, n)
    BY <1>0, FindFile
  <2> HIDE DEF o
  <2>3. OpOK(o, {}) /\ IsFile(o.fl, p, n) /\ p \in Pages /\ o.fl = flash /\ o.past = {}
    BY <1>0, <2>1, <2>2, EntryFacts DEF Found
  <2>4. p \in FilesOf(o.fl) /\ o.fl[p].h.name = n
    BY <2>3, ReadActive DEF FilesOf
  <2>5. OpOK(z, {}) /\ Without(o, z, p)
    BY <2>3, <2>4, RemoveByPage
  <2> HIDE DEF z, p, done
  <2>6. FlashOK(z.fl) /\ z.past = {}
    BY <2>3, <2>5 DEF OpOK, Without
  <2>7. Leads(o.fl, z.fl, n, done)
    BY <1>0, <2>3, <2>4, <2>5, <2>6, RemoveLeads DEF done
  <2>8. Leads(flash, z.fl, n, IF z.file # 0 THEN done ELSE done)
    BY <2>3, <2>7
  <2> QED
    BY <2>1, <2>5, <2>6, <2>8, OperationHolds
<1>4. CASE cfs_coffee_format
  <2>1. CoffeeInv'
    BY <1>4, CoffeeStep DEF FullInv, Next
  <2> QED
    BY <2>1, <1>4, EmptyFlash DEF cfs_coffee_format, FullInv
<1>5. CASE Restart
  <2>1. CoffeeInv'
    BY <1>5, CoffeeStep DEF FullInv, Next
  <2> QED
    BY <2>1, <1>5 DEF Restart, FullInv
<1>6. CASE UNCHANGED vars
  BY <1>6 DEF vars, FullInv, CoffeeInv
<1> QED
  BY <1>1, <1>2, <1>3, <1>4, <1>5, <1>6 DEF Next

\* What a scan of the flash finds under each name is what the calls that reported
\* success wrote there: through cfs_open, cfs_write in place, into a log, through
\* a merge or an extension, cfs_remove, collections and restarts, for flashes,
\* files and logs of any size; and after a power failure in a reserve, an append
\* or a write to a log, the file holds what it held or was to hold.
THEOREM CoffeeFilesHold ==
  ASSUME WholeSectors, SafeCrashes, SafeMerge, NoFileDistinct
  PROVE  Spec => []FilesHold
<1>1. Init => FullInv
  <2>1. StateOK([p \in Pages |-> Blank], Ram0)
    BY BlankOK, FreshRam
  <2> QED
    BY <2>1, EmptyFlash DEF Init, CoffeeInv, FullInv
<1>2. FullInv /\ [Next]_vars => FullInv'
  BY FilesStep
<1>3. FullInv => FilesHold
  BY DEF FullInv, FilesHold
<1> QED
  BY <1>1, <1>2, <1>3, PTL DEF Spec
===============================================================================
