----------------------------- MODULE PmmProofs -----------------------------
(***************************************************************************)
(* Proofs about Pmm, for every page size, every memory map the boot        *)
(* protocol allows and (unless a theorem says otherwise) every request.    *)
(***************************************************************************)
EXTENDS Pmm, WellFoundedInduction, TLAPS

(* Every non-empty set of naturals has a least element.                    *)
LEMMA LeastExists ==
  ASSUME NEW S, S \subseteq Nat, S # {}
  PROVE  \E x \in S : \A y \in S : x <= y
<1>1. PICK x \in S : \A y \in S : <<y, x>> \notin OpToRel(<, Nat)
  BY NatLessThanWellFounded, WFMin, Zenon
<1>2. \A y \in S : ~(y < x)
  BY <1>1, Zenon DEF OpToRel
<1>3. QED
  BY <1>2

(* Every non-empty set of indices of a sequence has a greatest element.    *)
LEMMA GreatestIndexExists ==
  ASSUME NEW n \in Nat, NEW S, S \subseteq 1 .. n, S # {}
  PROVE  \E x \in S : \A y \in S : y <= x
<1> DEFINE T == {n - i : i \in S}
<1>1. T \subseteq Nat /\ T # {}
  <2>1. \A i \in S : n - i \in Nat
    OBVIOUS
  <2>2. QED
    BY <2>1
<1>2. PICK t \in T : \A u \in T : t <= u
  BY <1>1, LeastExists
<1>3. PICK x \in S : t = n - x
  OBVIOUS
<1>4. ASSUME NEW y \in S
      PROVE  y <= x
  <2>1. n - x <= n - y
    BY <1>2, <1>3
  <2>2. QED
    BY <2>1
<1>5. QED
  BY <1>4

(* The entry get_bitmap_size measures exists, and its size is a number.    *)
LEMMA HighestChunkFacts ==
  ASSUME NEW m, m \in Seq(Entry), Usable(m) # {},
         \A i, j \in Usable(m) : i < j => m[i].base < m[j].base
  PROVE  /\ HighestChunk(m) \in Usable(m)
         /\ \A j \in Usable(m) : m[j].base <= m[HighestChunk(m)].base
         /\ TopFrame(m) \in Nat
         /\ BitmapPages(m) \in Nat
         /\ ScanBits(m) \in Nat
<1>1. Usable(m) \subseteq 1 .. Len(m)
  BY DEF Usable
<1>2. PICK h \in Usable(m) : \A j \in Usable(m) : j <= h
  BY <1>1, GreatestIndexExists, SMTT(30)
<1>3. \A j \in Usable(m) : m[j] \in Entry
  BY <1>1
<1>4. \A j \in Usable(m) : m[j].base <= m[h].base
  <2> TAKE j \in Usable(m)
  <2>1. j = h \/ j < h
    BY <1>1, <1>2
  <2>2. QED
    BY <2>1, <1>3, SMTT(30) DEF Entry
<1>5. /\ HighestChunk(m) \in Usable(m)
      /\ \A j \in Usable(m) : m[j].base <= m[HighestChunk(m)].base
  BY <1>4 DEF HighestChunk
<1>6. TopFrame(m) \in Nat
  BY <1>3, <1>5 DEF TopFrame, Entry
<1>7. BitmapPages(m) \in Nat
  <2>1. TopFrame(m) \div 8 \in Nat
    BY <1>6
  <2>2. (TopFrame(m) \div 8) + PageSize - 1 \in Nat
    BY <2>1, PageSizeAssumption
  <2>3. QED
    BY <2>2, PageSizeAssumption DEF BitmapPages
<1>8. ScanBits(m) \in Nat
  BY <1>7, PageSizeAssumption DEF ScanBits
<1>9. QED
  BY <1>5, <1>6, <1>7, <1>8

(* The entry init_bitmap carves the bitmap from exists: the first one big  *)
(* enough.                                                                 *)
LEMMA HostFacts ==
  ASSUME NEW m, MapOK(m)
  PROVE  /\ HighestChunk(m) \in Usable(m)
         /\ BitmapPages(m) \in Nat
         /\ BitmapHost(m, BitmapPages(m)) \in BigEnough(m, BitmapPages(m))
         /\ \A j \in BigEnough(m, BitmapPages(m)) :
              BitmapHost(m, BitmapPages(m)) <= j
<1> DEFINE B == BigEnough(m, BitmapPages(m))
<1>1. m \in Seq(Entry) /\ B # {} /\ B \subseteq Usable(m)
  BY DEF MapOK, BigEnough
<1>2. \A i \in Usable(m) : i \in 1 .. Len(m) /\ m[i] \in Entry
  BY <1>1 DEF Usable
<1>3. \A i, j \in Usable(m) : i < j => m[i].base < m[j].base
  BY <1>2, SMTT(30) DEF MapOK, Entry
<1>4. HighestChunk(m) \in Usable(m) /\ BitmapPages(m) \in Nat
  BY <1>1, <1>3, HighestChunkFacts
<1>5. \E i \in B : \A j \in B : i <= j
  <2>1. B \subseteq Nat
    BY <1>1, <1>2
  <2>2. QED
    BY <1>1, <2>1, LeastExists
<1>6. /\ BitmapHost(m, BitmapPages(m)) \in B
      /\ \A j \in B : BitmapHost(m, BitmapPages(m)) <= j
  BY <1>5 DEF BitmapHost
<1>7. QED
  BY <1>4, <1>6

(* No usable entry reaches beyond the frame the bitmap is sized for.       *)
LEMMA EndsBelowTop ==
  ASSUME NEW m, MapOK(m), NEW i \in Usable(m)
  PROVE  m[i].base + m[i].length <= TopFrame(m) /\ TopFrame(m) \in Nat
<1> DEFINE t == HighestChunk(m)
<1>1. m \in Seq(Entry) /\ t \in Usable(m)
  BY HostFacts DEF MapOK
<1>2. \A j \in Usable(m) : j \in 1 .. Len(m) /\ m[j] \in Entry
  BY <1>1 DEF Usable
<1>3. ASSUME NEW j \in Usable(m), NEW k \in Usable(m), j < k
      PROVE  m[j].base < m[k].base
  <2>1. m[j].base + m[j].length < m[k].base
    BY <1>3 DEF MapOK
  <2>2. m[j].base \in Nat /\ m[j].length \in Nat /\ m[k].base \in Nat
    BY <1>2 DEF Entry
  <2>3. QED
    BY <2>1, <2>2
<1>4. \A j \in Usable(m) : m[j].base <= m[t].base
  BY <1>1, <1>3, HighestChunkFacts
<1>5. i <= t
  <2>1. m[i].base \in Nat /\ m[t].base \in Nat /\ i \in Nat /\ t \in Nat
    BY <1>1, <1>2 DEF Entry
  <2>2. QED
    BY <1>1, <1>3, <1>4, <2>1
<1>6. i < t => m[i].base + m[i].length < m[t].base
  BY <1>1 DEF MapOK
<1>7. QED
  <2>1. /\ m[t].base \in Nat /\ m[t].length \in Nat
        /\ m[i].base \in Nat /\ m[i].length \in Nat
        /\ i \in Nat /\ t \in Nat
    BY <1>1, <1>2, SMTT(30) DEF Entry
  <2>2. TopFrame(m) = m[t].base + m[t].length
    BY DEF TopFrame
  <2>3. QED
    BY <1>5, <1>6, <2>1, <2>2

(* Cutting the bitmap out of its host moves the host's base up and leaves  *)
(* its end, every other entry and the bitmap size as they were.            *)
LEMMA CarveFacts ==
  ASSUME NEW m, MapOK(m),
         NEW p, p = BitmapPages(m),
         NEW h, h = BitmapHost(m, p),
         NEW c, c = Carve(m, p)
  PROVE  /\ c \in Seq(Entry)
         /\ BitmapPages(c) = p
         /\ h \in Usable(m) /\ p \in Nat /\ m[h].base \in Nat
         /\ \A i \in BigEnough(c, p) :
              \A f \in FramesOf(c[i]) :
                f \in Nat /\ f > 0 /\ f >= m[h].base + p /\ f < TopFrame(m)
<1>1. m \in Seq(Entry) /\ DOMAIN m = 1 .. Len(m)
  BY DEF MapOK
<1>2. /\ p \in Nat
      /\ h \in Usable(m) /\ m[h].length >= p
      /\ \A j \in BigEnough(m, p) : h <= j
  BY HostFacts DEF BigEnough
<1>3. \A i \in DOMAIN m : m[i] \in Entry
  BY <1>1
<1>4. h \in DOMAIN m
  BY <1>2 DEF Usable
<1>5. /\ DOMAIN c = DOMAIN m
      /\ \A i \in DOMAIN m : i # h => c[i] = m[i]
      /\ c[h] = [base |-> m[h].base + p, length |-> m[h].length - p, usable |-> TRUE]
  BY <1>1, <1>4 DEF Carve
<1>6. /\ c[h].base = m[h].base + p
      /\ c[h].length = m[h].length - p
      /\ c[h].usable = TRUE
  BY <1>5
<1>7. \A i \in DOMAIN m : c[i] \in Entry
  <2>1. m[h].base + p \in Nat /\ m[h].length - p \in Nat
    BY <1>2, <1>3, <1>4 DEF Entry
  <2>2. c[h] \in Entry
    BY <1>5, <2>1 DEF Entry
  <2>3. QED
    BY <1>3, <1>5, <2>2
<1>8. c \in Seq(Entry)
  <2>1. c = [i \in 1 .. Len(m) |-> c[i]]
    BY <1>1, <1>5 DEF Carve
  <2>2. QED
    BY <1>1, <1>7, <2>1
<1>9. Usable(c) = Usable(m)
  BY <1>2, <1>4, <1>5, <1>6 DEF Usable
<1>10. \A i, j \in Usable(c) : i < j => c[i].base < c[j].base
  <2> SUFFICES ASSUME NEW i \in Usable(m), NEW j \in Usable(m), i < j
               PROVE  c[i].base < c[j].base
    BY <1>9
  <2>1. m[i].base + m[i].length < m[j].base
    BY DEF MapOK
  <2>2. /\ i \in DOMAIN m /\ j \in DOMAIN m
        /\ m[i].base \in Nat /\ m[i].length \in Nat /\ m[j].base \in Nat
    BY <1>3 DEF Usable, Entry
  <2>3. c[i].base <= m[i].base + m[i].length
    BY <1>2, <1>5, <1>6, <2>2
  <2>4. c[j].base >= m[j].base /\ c[j].base \in Nat /\ c[i].base \in Nat
    BY <1>2, <1>5, <1>6, <2>2
  <2>5. QED
    BY <2>1, <2>2, <2>3, <2>4
<1>11. \A i, j \in Usable(m) : i < j => m[i].base < m[j].base
  BY <1>3 DEF MapOK, Usable, Entry
<1>12. HighestChunk(c) = HighestChunk(m)
  <2>1. /\ HighestChunk(m) \in Usable(m)
        /\ \A j \in Usable(m) : m[j].base <= m[HighestChunk(m)].base
    BY <1>1, <1>2, <1>11, HighestChunkFacts
  <2>2. /\ HighestChunk(c) \in Usable(m)
        /\ \A j \in Usable(m) : c[j].base <= c[HighestChunk(c)].base
    BY <1>2, <1>8, <1>9, <1>10, HighestChunkFacts
  <2>3. \A i \in Usable(m) : i \in Nat /\ m[i].base \in Nat /\ c[i].base \in Nat
    BY <1>1, <1>3, <1>5, <1>7 DEF Usable, Entry
  <2>4. ~(HighestChunk(c) < HighestChunk(m))
    BY <1>9, <1>10, <2>1, <2>2, <2>3
  <2>5. ~(HighestChunk(m) < HighestChunk(c))
    BY <1>11, <2>1, <2>2, <2>3
  <2>6. QED
    BY <2>1, <2>2, <2>3, <2>4, <2>5
<1>13. BitmapPages(c) = p
  <2>1. HighestChunk(m) \in DOMAIN m
    BY HostFacts DEF Usable
  <2>2. TopFrame(c) = TopFrame(m)
    BY <1>2, <1>3, <1>4, <1>5, <1>6, <1>12, <2>1 DEF TopFrame, Entry
  <2>3. QED
    BY <2>2 DEF BitmapPages
<1>14. ASSUME NEW i \in BigEnough(c, p), NEW f \in FramesOf(c[i])
       PROVE  f \in Nat /\ f > 0 /\ f >= m[h].base + p /\ f < TopFrame(m)
  <2>1. i \in Usable(m) /\ i \in DOMAIN m /\ c[i].length >= p
    BY <1>9 DEF BigEnough, Usable
  <2>2. /\ m[i].base \in Nat /\ m[i].length \in Nat
        /\ m[h].base \in Nat /\ m[h].length \in Nat
        /\ m[h].base > 0 /\ m[i].base > 0
    BY <1>2, <1>3, <1>4, <2>1 DEF Entry, MapOK
  <2>a. m[i].base + m[i].length <= TopFrame(m) /\ TopFrame(m) \in Nat
    BY <2>1, EndsBelowTop
  <2>3. CASE i = h
    BY <1>2, <1>6, <2>2, <2>3, <2>a DEF FramesOf
  <2>4. CASE i # h
    <3>1. c[i] = m[i] /\ i \in BigEnough(m, p)
      BY <1>5, <2>1, <2>4 DEF BigEnough
    <3>2. h < i
      BY <1>1, <1>2, <1>4, <2>1, <2>4, <3>1
    <3>3. m[h].base + m[h].length < m[i].base
      BY <1>2, <2>1, <3>2 DEF MapOK
    <3>4. QED
      BY <1>2, <2>2, <2>a, <3>1, <3>3 DEF FramesOf
  <2>5. QED
    BY <2>3, <2>4
<1>15. m[h].base \in Nat
  BY <1>3, <1>4 DEF Entry
<1>16. QED
  BY <1>2, <1>8, <1>13, <1>14, <1>15

-----------------------------------------------------------------------------
(* The inductive invariant, for requests of any size: before pmm_init      *)
(* nothing has happened; after it the scan size is the bitmap's, and every *)
(* clear bit and every granted run lies above the bitmap.  The last fact   *)
(* holds because the bitmap sits in the FIRST entry that is big enough and *)
(* the entries are sorted, so nothing below it is ever released.           *)
BootInv ==
  ~up => /\ memmap \in MemMaps
         /\ unset = {}
         /\ grants = {}
         /\ ret = 0

AboveBitmap ==
  up => /\ BitmapPages(memmap) = bitmap.pages
        /\ \A bit \in unset : bit > 0 /\ bit >= bitmap.base + bitmap.pages
        /\ \A g \in grants : g.frame > 0 /\ g.frame >= bitmap.base + bitmap.pages

IInv == TypeOK /\ BootInv /\ AboveBitmap

LEMMA InitIInv == Init => IInv
<1> SUFFICES ASSUME Init
             PROVE  IInv
  OBVIOUS
<1>1. memmap \in Seq(Entry)
  BY MemMapsAssumption DEF Init, MapOK
<1>2. TypeOK
  BY <1>1 DEF Init, TypeOK
<1>3. BootInv /\ AboveBitmap
  BY DEF Init, BootInv, AboveBitmap
<1>4. QED
  BY <1>2, <1>3 DEF IInv

(* What pmm_init establishes.                                              *)
LEMMA PmmInitFacts ==
  ASSUME IInv, PmmInit
  PROVE  /\ MapOK(memmap)
         /\ memmap' = Carve(memmap, BitmapPages(memmap))
         /\ memmap' \in Seq(Entry)
         /\ bitmap'.pages = BitmapPages(memmap)
         /\ bitmap' \in [base : Nat, pages : Nat]
         /\ BitmapPages(memmap') = bitmap'.pages
         /\ unset' = Released(memmap', bitmap'.pages)
         /\ \A bit \in unset' :
              /\ bit \in Nat /\ bit > 0 /\ bit >= bitmap'.base + bitmap'.pages
              /\ bit < TopFrame(memmap)
<1> DEFINE p == BitmapPages(memmap)
           h == BitmapHost(memmap, p)
<1>1. MapOK(memmap)
  BY MemMapsAssumption DEF IInv, BootInv, PmmInit
<1>2. /\ memmap' = Carve(memmap, p)
      /\ bitmap' = [base |-> memmap[h].base, pages |-> p]
      /\ unset' = Released(memmap', p)
  BY DEF PmmInit
<1>3. /\ memmap' \in Seq(Entry)
      /\ BitmapPages(memmap') = p
      /\ p \in Nat /\ memmap[h].base \in Nat
      /\ \A i \in BigEnough(memmap', p) :
           \A f \in FramesOf(memmap'[i]) :
             /\ f \in Nat /\ f > 0 /\ f >= memmap[h].base + p
             /\ f < TopFrame(memmap)
  BY <1>1, <1>2, CarveFacts
<1>4. \A bit \in unset' :
        /\ bit \in Nat /\ bit > 0 /\ bit >= memmap[h].base + p
        /\ bit < TopFrame(memmap)
  BY <1>2, <1>3 DEF Released
<1>5. QED
  BY <1>1, <1>2, <1>3, <1>4

LEMMA NextIInv == IInv /\ [Next]_vars => IInv'
<1> SUFFICES ASSUME IInv, [Next]_vars
             PROVE  IInv'
  OBVIOUS
<1>1. CASE PmmInit
  <2>1. TypeOK'
    BY <1>1, PmmInitFacts DEF PmmInit, IInv, TypeOK
  <2>2. BootInv' /\ AboveBitmap'
    BY <1>1, PmmInitFacts DEF PmmInit, IInv, BootInv, AboveBitmap
  <2>3. QED
    BY <2>1, <2>2 DEF IInv
<1>2. ASSUME NEW c \in Callers, NEW n \in Requests, PmmAlloc(c, n)
      PROVE  IInv'
  <2>1. PICK bit \in unset :
          /\ unset' = unset \ {bit}
          /\ grants' = grants \cup {[by |-> c, frame |-> bit, frames |-> n]}
          /\ ret' = bit
    BY <1>2 DEF PmmAlloc, Candidates
  <2>2. up /\ UNCHANGED <<up, memmap, bitmap>>
    BY <1>2 DEF PmmAlloc
  <2>3. TypeOK'
    BY <2>1, <2>2 DEF IInv, TypeOK
  <2>4. BootInv' /\ AboveBitmap'
    BY <2>1, <2>2 DEF IInv, BootInv, AboveBitmap
  <2>5. QED
    BY <2>3, <2>4 DEF IInv
<1>3. CASE PmmAllocFails
  BY <1>3 DEF PmmAllocFails, IInv, TypeOK, BootInv, AboveBitmap
<1>4. ASSUME NEW g \in grants, PmmFree(g)
      PROVE  IInv'
  <2>1. /\ up /\ UNCHANGED <<up, memmap, bitmap, ret>>
        /\ unset' = unset \cup GrantFrames(g)
        /\ grants' = grants \ {g}
    BY <1>4 DEF PmmFree
  <2>2. \A bit \in GrantFrames(g) : bit \in Nat /\ bit >= g.frame
    BY RequestsAssumption DEF IInv, TypeOK, GrantFrames
  <2>3. TypeOK'
    BY <2>1, <2>2 DEF IInv, TypeOK
  <2>4. g.frame > 0 /\ g.frame >= bitmap.base + bitmap.pages /\ g.frame \in Nat
    BY <2>1 DEF IInv, AboveBitmap, TypeOK
  <2>5. \A bit \in GrantFrames(g) : bit > 0 /\ bit >= bitmap.base + bitmap.pages
    BY <2>2, <2>4 DEF IInv, TypeOK
  <2>6. BootInv' /\ AboveBitmap'
    BY <2>1, <2>5 DEF IInv, BootInv, AboveBitmap
  <2>7. QED
    BY <2>3, <2>6 DEF IInv
<1>5. CASE UNCHANGED vars
  BY <1>5 DEF vars, IInv, TypeOK, BootInv, AboveBitmap, BitmapPages, TopFrame,
              HighestChunk, Usable
<1>6. QED
  BY <1>1, <1>2, <1>3, <1>4, <1>5 DEF Next

LEMMA IInvariant == Spec => []IInv
  BY InitIInv, NextIInv, PTL DEF Spec

(* Type correctness of the bitmap allocator.                               *)
THEOREM TypeCorrect == Spec => []TypeOK
<1>1. IInv => TypeOK
  BY DEF IInv
<1>2. QED
  BY <1>1, IInvariant, PTL

(* However many frames callers ask for and however they free them, the     *)
(* memory of the bitmap is never free and never handed out (pmm_alloc,     *)
(* pmm_free), so no caller can write over the bitmap.                      *)
THEOREM BitmapIsReserved == Spec => []BitmapReserved
<1>1. IInv => BitmapReserved
  <2> SUFFICES ASSUME IInv, up,
                      NEW f \in bitmap.base .. bitmap.base + bitmap.pages - 1,
                      f \in unset \cup Held
               PROVE  FALSE
    BY DEF BitmapReserved
  <2>1. bitmap.base \in Nat /\ bitmap.pages \in Nat
    BY DEF IInv, TypeOK
  <2>2. f \notin unset
    BY <2>1 DEF IInv, AboveBitmap, TypeOK
  <2>3. PICK g \in grants : f \in GrantFrames(g)
    BY <2>2 DEF Held
  <2>4. g.frame \in Nat /\ g.frame >= bitmap.base + bitmap.pages
    BY DEF IInv, AboveBitmap, TypeOK
  <2>5. f >= g.frame
    BY <2>3, <2>4, RequestsAssumption DEF GrantFrames, IInv, TypeOK
  <2>6. QED
    BY <2>1, <2>4, <2>5
<1>2. QED
  BY <1>1, IInvariant, PTL

(* get_bitmap_size, recomputed on every round of the scan from entries     *)
(* init_bitmap has changed, stays the size the bitmap was given.           *)
THEOREM ScanIsStable == Spec => []ScanStable
<1>1. IInv => ScanStable
  BY DEF IInv, AboveBitmap, ScanStable
<1>2. QED
  BY <1>1, IInvariant, PTL

-----------------------------------------------------------------------------
(* With every caller asking for one frame at a time the pool is conserved  *)
(* and grants never overlap.  (With larger requests neither holds.)        *)
SInv == IInv /\ PoolConserved /\ GrantsDisjoint

LEMMA OneFrame ==
  ASSUME Requests = {1}, TypeOK, NEW g \in grants
  PROVE  GrantFrames(g) = {g.frame}
<1>1. g \in [by : Callers, frame : Nat, frames : {1}]
  BY DEF TypeOK
<1>2. GrantFrames(g) = {g.frame}
  BY <1>1 DEF GrantFrames
<1>3. QED
  BY <1>1, <1>2

LEMMA NextSInv == Requests = {1} /\ SInv /\ IInv' /\ [Next]_vars => SInv'
<1> SUFFICES ASSUME Requests = {1}, SInv, IInv', [Next]_vars
             PROVE  PoolConserved' /\ GrantsDisjoint'
  BY DEF SInv
<1> USE DEF SInv
<1>0. TypeOK /\ TypeOK'
  BY DEF IInv
<1>a. \A g \in grants : GrantFrames(g) = {g.frame}
  BY <1>0, OneFrame
<1>1. CASE PmmInit
  <2>1. grants = {} /\ grants' = {} /\ up'
    BY <1>1 DEF PmmInit, IInv, BootInv
  <2>2. unset' = Pool' /\ Held' = {}
    BY <1>1, <2>1, PmmInitFacts DEF Pool, Held
  <2>3. QED
    BY <2>1, <2>2 DEF PoolConserved, GrantsDisjoint
<1>2. ASSUME NEW c \in Callers, NEW n \in Requests, PmmAlloc(c, n)
      PROVE  PoolConserved' /\ GrantsDisjoint'
  <2>1. PICK bit \in unset :
          /\ unset' = unset \ {bit}
          /\ grants' = grants \cup {[by |-> c, frame |-> bit, frames |-> 1]}
    BY <1>2 DEF PmmAlloc, Candidates
  <2>2. up /\ up' /\ Pool' = Pool
    BY <1>2 DEF PmmAlloc, Pool
  <2>3. bit \in Nat
    BY <1>0 DEF TypeOK
  <2>4. GrantFrames([by |-> c, frame |-> bit, frames |-> 1]) = {bit}
    BY <2>3 DEF GrantFrames
  <2>5. Held' = Held \cup {bit}
    BY <2>1, <2>4 DEF Held
  <2>6. bit \notin Held
    BY <2>2 DEF PoolConserved
  <2>7. PoolConserved'
    BY <2>1, <2>2, <2>5, <2>6 DEF PoolConserved
  <2>8. \A g \in grants : GrantFrames(g) \cap {bit} = {}
    BY <2>6 DEF Held
  <2>9. GrantsDisjoint'
    BY <2>1, <2>4, <2>8 DEF GrantsDisjoint
  <2>10. QED
    BY <2>7, <2>9
<1>3. CASE PmmAllocFails
  <2>1. UNCHANGED <<up, memmap, bitmap, unset, grants>>
    BY <1>3 DEF PmmAllocFails
  <2>2. QED
    BY <1>3, <2>1 DEF PmmAllocFails, PoolConserved, GrantsDisjoint, Pool, Held
<1>4. ASSUME NEW g \in grants, PmmFree(g)
      PROVE  PoolConserved' /\ GrantsDisjoint'
  <2>1. /\ up /\ UNCHANGED <<up, memmap, bitmap>>
        /\ unset' = unset \cup {g.frame}
        /\ grants' = grants \ {g}
    BY <1>4, <1>a DEF PmmFree
  <2>2. Pool' = Pool
    BY <2>1 DEF Pool
  <2>3. Held = Held' \cup {g.frame}
    BY <2>1, <1>a DEF Held
  <2>4. g.frame \notin Held'
    BY <2>1, <1>a DEF Held, GrantsDisjoint
  <2>5. PoolConserved'
    BY <2>1, <2>2, <2>3, <2>4 DEF PoolConserved
  <2>6. GrantsDisjoint'
    BY <2>1 DEF GrantsDisjoint
  <2>7. QED
    BY <2>5, <2>6
<1>5. CASE UNCHANGED vars
  BY <1>5 DEF vars, PoolConserved, GrantsDisjoint, Pool, Held
<1>6. QED
  BY <1>1, <1>2, <1>3, <1>4, <1>5 DEF Next

LEMMA SInvariant == ASSUME Requests = {1} PROVE Spec => []SInv
<1>1. Init => SInv
  BY InitIInv DEF Init, SInv, PoolConserved, GrantsDisjoint
<1>2. SInv /\ [Next]_vars => SInv'
  BY NextIInv, NextSInv DEF SInv
<1>3. QED
  BY <1>1, <1>2, PTL DEF Spec

(* No frame is lost or invented by any sequence of single-frame requests   *)
(* and frees, on any memory map.                                           *)
THEOREM PoolIsConserved == ASSUME Requests = {1} PROVE Spec => []PoolConserved
<1>1. SInv => PoolConserved
  BY DEF SInv
<1>2. QED
  BY <1>1, SInvariant, PTL

(* No two holders of single frames ever share one.                         *)
THEOREM GrantsAreDisjoint == ASSUME Requests = {1} PROVE Spec => []GrantsDisjoint
<1>1. SInv => GrantsDisjoint
  BY DEF SInv
<1>2. QED
  BY <1>1, SInvariant, PTL

-----------------------------------------------------------------------------
(* The bitmap size is rounded DOWN to bytes, then UP to pages: whatever    *)
(* the map, at most the last seven frames are left without a bit.  Up to   *)
(* arithmetic: f frames, k bitmap pages of w bytes.                        *)
LEMMA RoundingLosesSeven ==
  ASSUME NEW f \in Nat, NEW w \in Nat \ {0}
  PROVE  f <= (((f \div 8) + w - 1) \div w) * w * 8 + 7
<1> DEFINE q == f \div 8
           k == (q + w - 1) \div w
           r == (q + w - 1) % w
<1>1. q \in Nat /\ f = 8 * q + (f % 8) /\ f % 8 \in 0 .. 7
  OBVIOUS
<1>2. k \in Nat /\ r \in 0 .. w - 1 /\ q + w - 1 = w * k + r
  BY <1>1
<1>3. w * k >= q
  BY <1>1, <1>2
<1>4. QED
  BY <1>1, <1>2, <1>3

LEMMA TopNearlyCovered ==
  ASSUME NEW m, MapOK(m)
  PROVE  TopFrame(m) <= ScanBits(m) + 7
<1>1. TopFrame(m) \in Nat
  BY HostFacts, EndsBelowTop
<1>2. QED
  BY <1>1, RoundingLosesSeven, PageSizeAssumption DEF ScanBits, BitmapPages

(* What pmm_alloc hands out it found in the bitmap, and every bit cleared  *)
(* is that of a frame of the pool.                                         *)
RInv ==
  /\ SInv
  /\ OnlyTopLost

LEMMA RInvariant == ASSUME Requests = {1} PROVE Spec => []RInv
<1>1. Init => RInv
  BY InitIInv DEF Init, SInv, RInv, PoolConserved, GrantsDisjoint, OnlyTopLost
<1>2. RInv /\ SInv' /\ [Next]_vars => RInv'
  <2> SUFFICES ASSUME RInv, SInv', [Next]_vars
               PROVE  OnlyTopLost'
    BY DEF RInv
  <2>0. TypeOK /\ IInv /\ SInv /\ OnlyTopLost
    BY DEF RInv, SInv, IInv
  <2>1. CASE PmmInit
    <3>1. memmap \in MemMaps /\ Held' = {}
      BY <2>0, <2>1 DEF PmmInit, IInv, BootInv, Held
    <3>2. /\ bitmap'.pages = BitmapPages(memmap)
          /\ \A bit \in unset' : bit < TopFrame(memmap) /\ bit \in Nat
      BY <2>0, <2>1, PmmInitFacts
    <3>3. TopFrame(memmap) <= BitmapPages(memmap) * PageSize * 8 + 7
      BY <3>1, TopNearlyCovered, MemMapsAssumption DEF ScanBits
    <3>4. TopFrame(memmap) \in Nat /\ BitmapPages(memmap) * PageSize * 8 \in Nat
      BY <2>0, <2>1, PmmInitFacts, HostFacts, EndsBelowTop, PageSizeAssumption
    <3>5. \A bit \in unset' : bit < BitmapPages(memmap) * PageSize * 8 + 7
      BY <3>2, <3>3, <3>4
    <3>6. QED
      BY <3>1, <3>2, <3>5 DEF OnlyTopLost
  <2>2. ASSUME NEW c \in Callers, NEW n \in Requests, PmmAlloc(c, n)
        PROVE  OnlyTopLost'
    <3>1. PICK bit \in Candidates :
            /\ unset' = unset \ {bit}
            /\ grants' = grants \cup {[by |-> c, frame |-> bit, frames |-> 1]}
      BY <2>2 DEF PmmAlloc
    <3>2. up /\ up' /\ bitmap' = bitmap /\ bit \in Nat /\ bit < bitmap.pages * PageSize * 8
      BY <2>0, <2>2 DEF PmmAlloc, Candidates, ScanBits, IInv, AboveBitmap, TypeOK
    <3>3. Held' \subseteq Held \cup {bit}
      <4>1. bit .. bit + 1 - 1 = {bit}
        BY <3>2
      <4>2. QED
        BY <3>1, <4>1 DEF Held, GrantFrames
    <3>4. \A b \in unset' : b < bitmap'.pages * PageSize * 8 + 7
      BY <2>0, <3>1, <3>2 DEF OnlyTopLost
    <3>5. \A b \in Held' : b < bitmap'.pages * PageSize * 8
      BY <2>0, <3>2, <3>3 DEF OnlyTopLost
    <3>6. QED
      BY <3>4, <3>5 DEF OnlyTopLost
  <2>3. ASSUME NEW g \in grants, PmmFree(g)
        PROVE  OnlyTopLost'
    <3>1. /\ up /\ up' /\ bitmap' = bitmap
          /\ unset' = unset \cup GrantFrames(g)
          /\ grants' = grants \ {g}
      BY <2>3 DEF PmmFree
    <3>2. GrantFrames(g) \subseteq Held /\ Held' \subseteq Held
      BY <3>1 DEF Held
    <3>3. Held \subseteq Nat /\ bitmap.pages * PageSize * 8 \in Nat
      BY <2>0, PageSizeAssumption DEF Held, GrantFrames, TypeOK
    <3>4. \A bit \in GrantFrames(g) : bit < bitmap.pages * PageSize * 8 + 7
      <4> DEFINE bits == bitmap.pages * PageSize * 8
      <4>1. bits \in Nat /\ \A bit \in Held : bit \in Nat /\ bit < bits
        BY <2>0, <3>1, <3>3 DEF OnlyTopLost
      <4> HIDE DEF bits
      <4>2. \A bit \in Held : bit < bits + 7
        BY <4>1
      <4>3. QED
        BY <3>2, <4>2 DEF bits
    <3>5. \A bit \in unset' : bit < bitmap'.pages * PageSize * 8 + 7
      BY <2>0, <3>1, <3>4 DEF OnlyTopLost
    <3>6. \A bit \in Held' : bit < bitmap'.pages * PageSize * 8
      BY <2>0, <3>1, <3>2 DEF OnlyTopLost
    <3>7. QED
      BY <3>5, <3>6 DEF OnlyTopLost
  <2>4. CASE PmmAllocFails \/ UNCHANGED vars
    BY <2>0, <2>4 DEF PmmAllocFails, vars, OnlyTopLost, Held
  <2>5. QED
    BY <2>1, <2>2, <2>3, <2>4 DEF Next
<1>3. QED
  BY <1>1, <1>2, SInvariant, PTL DEF Spec

(* On every memory map the bits cleared without a place in the bitmap are  *)
(* those of the last seven frames at most, and no order of single-frame    *)
(* requests and frees hands one of those frames out.                       *)
THEOREM OnlyTopFramesLost == ASSUME Requests = {1} PROVE Spec => []OnlyTopLost
<1>1. RInv => OnlyTopLost
  BY DEF RInv
<1>2. QED
  BY <1>1, RInvariant, PTL

(* pmm.c is an allocator of single frames: every step of pmm_init,         *)
(* pmm_alloc and pmm_free is a step of FrameAllocator (or changes nothing  *)
(* it can see); in particular pmm_alloc fails only when no frame that has  *)
(* a bit is free.                                                          *)
THEOREM ImplementsFrameAllocator ==
  ASSUME Requests = {1}
  PROVE  Spec => Allocates
<1> USE DEF FA!Init, FA!Next, FA!vars, FA!Grant, FA!Refuse, FA!Release, FA!Run
<1>1. Init => FA!Init
  <2> SUFFICES ASSUME Init
               PROVE  FA!Init
    OBVIOUS
  <2>1. MapOK(memmap) /\ ~up
    BY MemMapsAssumption DEF Init
  <2>2. Pool \subseteq Nat \ {0}
    BY <2>1, CarveFacts DEF Pool, Released
  <2>3. QED
    BY <2>1, <2>2 DEF Init
<1>2. RInv /\ RInv' /\ [Next]_vars => [FA!Next]_(FA!vars)
  <2> SUFFICES ASSUME RInv, RInv', [Next]_vars
               PROVE  [FA!Next]_(FA!vars)
    OBVIOUS
  <2>0. TypeOK /\ IInv /\ SInv /\ OnlyTopLost /\ 1 \in Requests
    BY DEF RInv, SInv, IInv
  <2>a. memmap' = memmap => Candidates' = {bit \in unset' : bit < ScanBits(memmap)}
    BY DEF Candidates
  <2>1. CASE PmmInit
    <3>1. ~up /\ up' /\ UNCHANGED <<grants, ret>>
      BY <2>1 DEF PmmInit
    <3>2. unset' = Pool
      BY <2>1, <3>1 DEF PmmInit, Pool
    <3>3. ScanBits(memmap') = ScanBits(memmap)
      <4>1. bitmap'.pages = BitmapPages(memmap)
        BY <2>1 DEF PmmInit
      <4>2. BitmapPages(memmap') = bitmap'.pages
        BY <3>1 DEF RInv, SInv, IInv, AboveBitmap, ScanStable
      <4>3. QED
        BY <4>1, <4>2 DEF ScanBits
    <3>4. Candidates' = {f \in Pool : f < ScanBits(memmap)}
      BY <3>2, <3>3 DEF Candidates
    <3>5. QED
      BY <3>1, <3>4
  <2>2. ASSUME NEW c \in Callers, NEW n \in Requests, PmmAlloc(c, n)
        PROVE  FA!Next
    <3>1. PICK bit \in Candidates :
            /\ \A g \in grants : g.by # c
            /\ unset' = unset \ {bit}
            /\ grants' = grants \cup {[by |-> c, frame |-> bit, frames |-> 1]}
            /\ ret' = bit
      BY <2>2 DEF PmmAlloc, Candidates
    <3>2. up /\ up' /\ memmap' = memmap /\ bit \in Nat
      BY <2>0, <2>2 DEF PmmAlloc, TypeOK, Candidates
    <3>3. bit .. bit + 1 - 1 = {bit}
      BY <3>2
    <3>a. Candidates' = Candidates \ {bit}
      BY <2>a, <3>1, <3>2 DEF Candidates
    <3>4. FA!Grant(c, 1)
      BY <3>1, <3>2, <3>3, <3>a
    <3>5. QED
      BY <2>0, <3>4
  <2>3. CASE PmmAllocFails
    <3>1. /\ up /\ up' /\ Candidates = {} /\ ret' = 0
          /\ UNCHANGED <<memmap, unset, grants>>
      BY <2>3 DEF PmmAllocFails
    <3>2. Candidates' = {}
      BY <2>a, <3>1 DEF Candidates
    <3>3. FA!Refuse(1)
      BY <3>1, <3>2
    <3>4. QED
      BY <2>0, <3>3
  <2>4. ASSUME NEW g \in grants, PmmFree(g)
        PROVE  FA!Next
    <3>1. /\ up /\ up' /\ ret' = ret /\ memmap' = memmap
          /\ unset' = unset \cup GrantFrames(g)
          /\ grants' = grants \ {g}
      BY <2>4 DEF PmmFree
    <3>2. \A f \in GrantFrames(g) : f < ScanBits(memmap)
      BY <2>0, <3>1 DEF OnlyTopLost, Held, IInv, AboveBitmap, ScanBits
    <3>3. Candidates' = Candidates \cup GrantFrames(g)
      BY <2>a, <3>1, <3>2 DEF Candidates
    <3>4. FA!Release(g)
      BY <3>1, <3>3 DEF GrantFrames
    <3>5. QED
      BY <3>4
  <2>5. CASE UNCHANGED vars
    BY <2>5 DEF vars, Pool, Candidates
  <2>6. QED
    BY <2>1, <2>2, <2>3, <2>4, <2>5 DEF Next
<1>3. QED
  BY <1>1, <1>2, RInvariant, PTL DEF Spec, Allocates, FA!Spec
=============================================================================
