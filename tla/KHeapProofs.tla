---------------------------- MODULE KHeapProofs ----------------------------
(***************************************************************************)
(* Proofs about KHeap, for every arena, header size and set of requests.   *)
(***************************************************************************)
EXTENDS KHeap, FiniteSetTheorems, WellFoundedInduction, TLAPS

(***************************************************************************)
(* The inductive invariant.  What callers see (BlocksDisjoint,             *)
(* ListThreadsLive) holds only because the first block is never freed, so  *)
(* that every other block has a live predecessor to unlink it from, and    *)
(* because the prev of the header at free_ptr, which nobody owns yet, is   *)
(* kept up to date by kmalloc and kfree.                                   *)
(***************************************************************************)
Started ==
  IF heap_start = NULL
    THEN free_ptr = NULL /\ live = {}
    ELSE /\ free_ptr \in Arena /\ HeaderFits(free_ptr)
         /\ HeapBase \in live \/ (live = {} /\ free_ptr = HeapBase)

Ends == live \cup {free_ptr}

PrevThreads ==
  \A h \in Ends \ {HeapBase, NULL} : prev[h] \in live /\ next[prev[h]] = h

IInv == TypeOK /\ Started /\ BlocksDisjoint /\ ListThreadsLive /\ PrevThreads

LEMMA ArenaFacts ==
  /\ HeapBase \in Arena
  /\ \A a \in Arena : a \in Nat /\ a >= HeapBase /\ a # NULL /\ a # Garbage
  /\ Arena \subseteq Nat
  BY HeapAssumption DEF Arena, NULL, Garbage

LEMMA InitIInv == Init => IInv
<1> SUFFICES ASSUME Init
             PROVE  IInv
  OBVIOUS
<1>1. TypeOK
  <2>1. /\ msize \in [Arena -> Nat]
        /\ next \in [Arena -> Arena \cup {Garbage}]
        /\ prev \in [Arena -> Arena \cup {Garbage}]
    BY DEF Init
  <2>2. /\ heap_start \in {NULL, HeapBase}
        /\ free_ptr \in Arena \cup {NULL}
        /\ live \in SUBSET Arena
        /\ ret \in Arena \cup {NULL}
        /\ wild \in BOOLEAN
    BY Zenon DEF Init
  <2>3. bytes_allocated \in Int
    BY DEF Init
  <2>4. QED
    BY <2>1, <2>2, <2>3 DEF TypeOK
<1>2. Started /\ BlocksDisjoint /\ ListThreadsLive
  BY DEF Init, Started, BlocksDisjoint, ListThreadsLive
<1>3. PrevThreads
  BY DEF Init, PrevThreads, Ends
<1>4. QED
  BY <1>1, <1>2, <1>3 DEF IInv

(* Where kmalloc puts the new block: above every live one.                 *)
LEMMA TopFacts ==
  ASSUME IInv, NEW n \in Sizes, HeaderFits(Beyond(n))
  PROVE  /\ Top \in Arena /\ Beyond(n) \in Arena /\ Beyond(n) \in Nat
         /\ Top < Beyond(n) /\ Beyond(n) = Top + HeaderSize + n /\ n \in Nat
         /\ Beyond(n) - n \in Arena
         /\ Top \notin live /\ Beyond(n) \notin live
         /\ \A h \in live : h \in Nat /\ h < Top /\ End(h) <= Top /\ msize[h] \in Nat
         /\ Top = HeapBase <=> live = {}
         /\ live # {} => HeapBase \in live /\ prev[Top] \in live /\ next[prev[Top]] = Top
                         /\ free_ptr = Top
<1>1. n \in Nat /\ n > 0
  BY SizesAssumption
<1>2. Top \in Arena
  BY ArenaFacts DEF IInv, Started, Top
<1>3. /\ Beyond(n) \in Nat /\ Top < Beyond(n)
      /\ Beyond(n) = Top + HeaderSize + n
  BY <1>1, <1>2, ArenaFacts, HeapAssumption DEF Beyond
<1>4. Beyond(n) \in Arena
  BY <1>2, <1>3, ArenaFacts, HeapAssumption DEF HeaderFits, Arena
<1>a. Beyond(n) - n \in Arena
  BY <1>1, <1>2, <1>3, <1>4, HeapAssumption DEF Arena
<1>5. \A h \in live : h \in Nat /\ msize[h] \in Nat /\ free_ptr = Top
  BY ArenaFacts DEF IInv, TypeOK, Started, Top
<1>6. \A h \in live : End(h) <= Top
  BY <1>5 DEF IInv, BlocksDisjoint
<1>7. \A h \in live : h < End(h) /\ End(h) \in Nat
  BY <1>5, HeapAssumption DEF End
<1>8. \A h \in live : h < Top
  BY <1>2, <1>5, <1>6, <1>7, ArenaFacts
<1>9. Top \notin live /\ Beyond(n) \notin live
  BY <1>2, <1>3, <1>8, ArenaFacts
<1>10. Top = HeapBase <=> live = {}
  BY <1>9 DEF IInv, Started, Top
<1>11. live # {} => HeapBase \in live /\ prev[Top] \in live /\ next[prev[Top]] = Top
                    /\ free_ptr = Top
  <2> SUFFICES ASSUME live # {}
               PROVE  HeapBase \in live /\ prev[Top] \in live /\ next[prev[Top]] = Top
                      /\ free_ptr = Top
    OBVIOUS
  <2>1. HeapBase \in live /\ free_ptr = Top
    BY <1>5 DEF IInv, Started
  <2>2. Top \in Ends \ {HeapBase, NULL}
    BY <1>2, <1>10, <2>1, ArenaFacts DEF Ends
  <2>3. QED
    BY <2>1, <2>2 DEF IInv, PrevThreads
<1>12. QED
  BY <1>1, <1>2, <1>3, <1>4, <1>a, <1>5, <1>6, <1>8, <1>9, <1>10, <1>11

LEMMA KMallocIInv ==
  ASSUME IInv, NEW n \in Sizes, KMalloc(n)
  PROVE  IInv'
<1>0. PICK t, b : t = Top /\ b = Beyond(n)
  OBVIOUS
<1>1. HeaderFits(b)
  BY <1>0 DEF KMalloc
<1>2. /\ t \in Arena /\ b \in Arena /\ b \in Nat
      /\ t < b /\ b = t + HeaderSize + n /\ n \in Nat
      /\ t \notin live /\ b \notin live
      /\ \A h \in live : h \in Nat /\ h < t /\ End(h) <= t /\ msize[h] \in Nat
      /\ t = HeapBase <=> live = {}
      /\ live # {} => HeapBase \in live /\ prev[t] \in live /\ next[prev[t]] = t
                      /\ free_ptr = t
  BY <1>0, <1>1, TopFacts
<1>3. /\ heap_start' = HeapBase /\ free_ptr' = b
      /\ msize' = [msize EXCEPT ![t] = n]
      /\ next' = [next EXCEPT ![t] = b]
      /\ prev' = [prev EXCEPT ![b] = t]
      /\ bytes_allocated' = bytes_allocated + n
      /\ live' = live \cup {t}
      /\ wild' = wild
  BY <1>0 DEF KMalloc
<1>4. TypeOK
  BY DEF IInv
<1>5. TypeOK'
  <2>1. wild' \in BOOLEAN
    BY <1>3, <1>4, Zenon DEF TypeOK
  <2>2. ret' \in Arena
    BY <1>1, <1>0, TopFacts DEF KMalloc
  <2>3. QED
    BY <1>2, <1>3, <1>4, <2>1, <2>2, ArenaFacts DEF TypeOK
<1>6. Started'
  BY <1>1, <1>2, <1>3, ArenaFacts DEF Started, HeaderFits
<1>7. /\ next'[t] = b /\ prev'[b] = t /\ msize'[t] = n
      /\ \A h \in live : next'[h] = next[h] /\ prev'[h] = prev[h] /\ msize'[h] = msize[h]
      /\ prev'[t] = prev[t]
  BY <1>2, <1>3, <1>4, ArenaFacts DEF TypeOK
<1>8. BlocksDisjoint'
  <2>1. End(t)' = b /\ \A h \in live : End(h)' = End(h)
    BY <1>2, <1>7 DEF End
  <2>2. \A h \in live : End(h) <= b
    BY <1>2, HeapAssumption, ArenaFacts DEF End
  <2>3. \A g, h \in live : g < h => End(g) <= h
    BY DEF IInv, BlocksDisjoint
  <2>4. QED
    BY <1>2, <1>3, <2>1, <2>2, <2>3, ArenaFacts DEF BlocksDisjoint
<1>9. ListThreadsLive'
  <2>1. ASSUME NEW h \in live
        PROVE  /\ next'[h] \in live' \cup {free_ptr'}
               /\ next'[h] > h
               /\ \A g \in live' : ~(h < g /\ g < next'[h])
               /\ prev'[next'[h]] = h
    <3>1. /\ next[h] \in live \cup {t} /\ next[h] > h
          /\ \A g \in live : ~(h < g /\ g < next[h])
          /\ prev[next[h]] = h
      BY <1>2, <2>1 DEF IInv, ListThreadsLive
    <3>2. ~(t < next[h])
      BY <1>2, <3>1, ArenaFacts
    <3>3. prev'[next[h]] = prev[next[h]]
      BY <1>7, <3>1
    <3>4. QED
      BY <1>3, <1>7, <3>1, <3>2, <3>3
  <2>2. /\ next'[t] \in live' \cup {free_ptr'}
        /\ next'[t] > t
        /\ \A g \in live' : ~(t < g /\ g < next'[t])
        /\ prev'[next'[t]] = t
    BY <1>2, <1>3, <1>7, ArenaFacts
  <2>3. QED
    BY <1>3, <2>1, <2>2 DEF ListThreadsLive
<1>10. PrevThreads'
  <2> SUFFICES ASSUME NEW h \in live' \cup {b}, h # HeapBase
               PROVE  prev'[h] \in live' /\ next'[prev'[h]] = h
    BY <1>3 DEF PrevThreads, Ends
  <2>1. CASE h = b
    BY <1>3, <1>7, <2>1
  <2>2. CASE h = t
    BY <1>2, <1>3, <1>7, <2>2
  <2>3. CASE h \in live
    <3>1. prev[h] \in live /\ next[prev[h]] = h
      BY <1>2, <2>3, ArenaFacts DEF IInv, PrevThreads, Ends, TypeOK
    <3>2. QED
      BY <1>3, <1>7, <2>3, <3>1
  <2>4. QED
    BY <1>3, <2>1, <2>2, <2>3
<1>11. QED
  BY <1>5, <1>6, <1>8, <1>9, <1>10 DEF IInv

-----------------------------------------------------------------------------
(* A block that may be freed has live neighbours (or free_ptr above it),   *)
(* and it is their only link to it.                                        *)
LEMMA NeighbourFacts ==
  ASSUME IInv, NEW h \in Freeable
  PROVE  /\ h \in live /\ h # HeapBase /\ h \in Nat /\ live \subseteq Nat
         /\ heap_start = HeapBase /\ free_ptr \in Arena /\ free_ptr \in Nat
         /\ free_ptr \notin live
         /\ \A g \in live : g < free_ptr
         /\ prev[h] \in live /\ prev[h] # h /\ prev[h] < h
         /\ next[prev[h]] = h
         /\ next[h] \in live \cup {free_ptr} /\ next[h] # h /\ next[h] > h
         /\ prev[next[h]] = h
         /\ HeapBase \in live
<1>1. h \in live /\ h # HeapBase /\ live \subseteq Nat /\ live \subseteq Arena
  BY ArenaFacts DEF Freeable, IInv, TypeOK
<1>2. /\ heap_start = HeapBase /\ free_ptr \in Arena /\ free_ptr \in Nat
      /\ HeapBase \in live
  BY <1>1, ArenaFacts DEF IInv, TypeOK, Started
<1>3. \A g \in live : g < free_ptr
  <2> TAKE g \in live
  <2>1. End(g) <= free_ptr /\ msize[g] \in Nat /\ g \in Nat
    BY <1>1 DEF IInv, BlocksDisjoint, TypeOK
  <2>2. QED
    BY <1>2, <2>1, HeapAssumption DEF End
<1>4. prev[h] \in live /\ next[prev[h]] = h
  BY <1>1, ArenaFacts DEF IInv, PrevThreads, Ends
<1>5. /\ next[h] \in live \cup {free_ptr} /\ next[h] > h
      /\ prev[next[h]] = h
      /\ next[prev[h]] > prev[h]
  BY <1>1, <1>4 DEF IInv, ListThreadsLive
<1>6. QED
  BY <1>1, <1>2, <1>3, <1>4, <1>5

LEMMA UnlinkIInv ==
  ASSUME IInv, NEW h \in Freeable, Unlink(h), ret' \in Arena \cup {NULL}
  PROVE  IInv'
<1>0. PICK p, n : p = prev[h] /\ n = next[h]
  OBVIOUS
<1>1. /\ h \in live /\ h # HeapBase /\ h \in Nat /\ live \subseteq Nat
      /\ heap_start = HeapBase /\ free_ptr \in Arena /\ free_ptr \in Nat
      /\ free_ptr \notin live
      /\ \A g \in live : g < free_ptr
      /\ p \in live /\ p # h /\ p < h /\ next[p] = h /\ prev[h] = p
      /\ n \in live \cup {free_ptr} /\ n # h /\ n > h /\ prev[n] = h /\ next[h] = n
      /\ HeapBase \in live
  BY <1>0, NeighbourFacts
<1>2. /\ next' = [next EXCEPT ![p] = n]
      /\ prev' = [prev EXCEPT ![n] = p]
      /\ bytes_allocated' = bytes_allocated - msize[h]
      /\ live' = live \ {h}
      /\ UNCHANGED <<heap_start, free_ptr, msize, wild>>
  BY <1>0 DEF Unlink
<1>3. TypeOK
  BY DEF IInv
<1>4. live \subseteq Arena /\ n \in Arena /\ p \in Arena
  BY <1>1, <1>3 DEF TypeOK
<1>5. TypeOK'
  BY <1>1, <1>2, <1>3, <1>4 DEF TypeOK
<1>6. Started' /\ BlocksDisjoint'
  BY <1>1, <1>2 DEF IInv, Started, BlocksDisjoint, End
<1>7. /\ next'[p] = n /\ prev'[n] = p
      /\ \A g \in live : g # p => next'[g] = next[g]
      /\ \A g \in live \cup {free_ptr} : g # n => prev'[g] = prev[g]
  BY <1>1, <1>2, <1>3, <1>4 DEF TypeOK
<1>8. \A g \in live : /\ next[g] \in live \cup {free_ptr} /\ next[g] > g
                      /\ \A k \in live : ~(g < k /\ k < next[g])
                      /\ prev[next[g]] = g
  BY DEF IInv, ListThreadsLive
<1>9. ListThreadsLive'
  <2> SUFFICES ASSUME NEW g \in live, g # h
               PROVE  /\ next'[g] \in (live \ {h}) \cup {free_ptr}
                      /\ next'[g] > g
                      /\ \A k \in live \ {h} : ~(g < k /\ k < next'[g])
                      /\ prev'[next'[g]] = g
    BY <1>2 DEF ListThreadsLive
  <2>1. CASE g = p
    <3>1. \A k \in live \ {h} : ~(p < k /\ k < n)
      <4> TAKE k \in live \ {h}
      <4>1. ~(p < k /\ k < h) /\ ~(h < k /\ k < n)
        BY <1>1, <1>8
      <4>2. QED
        BY <1>1, <4>1
    <3>2. QED
      BY <1>1, <1>7, <2>1, <3>1
  <2>2. CASE g # p
    <3>1. next'[g] = next[g] /\ prev[next[g]] = g
      BY <1>7, <1>8, <2>2
    <3>2. next[g] # h /\ next[g] # n
      BY <1>1, <2>2, <3>1
    <3>3. prev'[next[g]] = g
      BY <1>7, <1>8, <3>1, <3>2
    <3>4. QED
      BY <1>8, <3>1, <3>2, <3>3
  <2>3. QED
    BY <2>1, <2>2
<1>10. PrevThreads'
  <2> SUFFICES ASSUME NEW g \in (live \cup {free_ptr}) \ {HeapBase, NULL}, g # h
               PROVE  prev'[g] \in live \ {h} /\ next'[prev'[g]] = g
    BY <1>1, <1>2 DEF PrevThreads, Ends
  <2>1. prev[g] \in live /\ next[prev[g]] = g
    BY DEF IInv, PrevThreads, Ends
  <2>2. CASE g = n
    BY <1>1, <1>7, <2>2
  <2>3. CASE g # n
    <3>1. prev'[g] = prev[g]
      BY <1>7, <2>3
    <3>2. prev[g] # h /\ prev[g] # p
      BY <1>1, <2>1, <2>3
    <3>3. QED
      BY <1>7, <2>1, <3>1, <3>2
  <2>4. QED
    BY <2>2, <2>3
<1>11. QED
  BY <1>5, <1>6, <1>9, <1>10 DEF IInv

LEMMA KReallocIInv ==
  ASSUME IInv, NEW h \in Freeable, NEW z \in Sizes, KRealloc(h, z)
  PROVE  IInv'
<1>0. PICK t, b, p, n : t = Top /\ b = Beyond(z) /\ p = prev[h] /\ n = next[h]
  OBVIOUS
<1>a. HeaderFits(b)
  BY <1>0 DEF KRealloc
<1>1. /\ h \in live /\ h # HeapBase /\ h \in Nat /\ live \subseteq Nat
      /\ p \in live /\ p # h /\ p < h /\ next[p] = h /\ prev[h] = p
      /\ n \in live \cup {free_ptr} /\ n # h /\ n > h /\ prev[n] = h /\ next[h] = n
      /\ HeapBase \in live
  BY <1>0, NeighbourFacts
<1>b. /\ t \in Arena /\ b \in Arena /\ b \in Nat /\ t \in Nat
      /\ t < b /\ b = t + HeaderSize + z /\ z \in Nat
      /\ t \notin live /\ b \notin live /\ t = free_ptr /\ t # HeapBase
      /\ \A g \in live : g < t /\ End(g) <= t /\ msize[g] \in Nat
      /\ prev[t] \in live /\ next[prev[t]] = t
  BY <1>0, <1>1, <1>a, TopFacts, ArenaFacts
<1>2. /\ next' = [next EXCEPT ![t] = b, ![p] = n]
      /\ prev' = [prev EXCEPT ![b] = t, ![n] = p]
      /\ msize' = [msize EXCEPT ![t] = z]
      /\ free_ptr' = b
      /\ bytes_allocated' = bytes_allocated + z - msize[h]
      /\ live' = (live \cup {t}) \ {h}
      /\ UNCHANGED <<heap_start, wild>>
  BY <1>0 DEF KRealloc
<1>c. live' = (live \cup {t}) \ {h} /\ free_ptr' = b
  BY <1>2
<1>3. TypeOK
  BY DEF IInv
<1>4. live \subseteq Arena /\ n \in Arena /\ p \in Arena /\ t # p /\ b # n
  BY <1>1, <1>3, <1>b DEF TypeOK
<1>5. TypeOK'
  <2>1. /\ next' \in [Arena -> Arena \cup {Garbage}]
        /\ prev' \in [Arena -> Arena \cup {Garbage}]
        /\ msize' \in [Arena -> Nat]
    BY <1>2, <1>3, <1>4, <1>b DEF TypeOK
  <2>2. bytes_allocated' \in Int
    <3>1. msize[h] \in Nat /\ z \in Nat
      BY <1>1, <1>b
    <3>2. bytes_allocated \in Int
      BY <1>3 DEF TypeOK
    <3>3. bytes_allocated' = bytes_allocated + z - msize[h]
      BY <1>2
    <3>4. QED
      BY <3>1, <3>2, <3>3
  <2>3. heap_start' \in {NULL, HeapBase} /\ wild' \in BOOLEAN
    BY <1>2, <1>3, Zenon DEF TypeOK
  <2>4. free_ptr' \in Arena \cup {NULL} /\ live' \in SUBSET Arena
    BY <1>4, <1>b, <1>c
  <2>5. ret' \in Arena
    BY <1>0, <1>a, TopFacts DEF KRealloc
  <2>6. QED
    BY <2>1, <2>2, <2>3, <2>4, <2>5 DEF TypeOK
<1>6. Started'
  BY <1>1, <1>2, <1>a, <1>b, NeighbourFacts, ArenaFacts DEF Started, HeaderFits
<1>7. /\ next'[p] = n /\ prev'[n] = p /\ next'[t] = b /\ prev'[b] = t
      /\ \A g \in live : g # p => next'[g] = next[g]
      /\ \A g \in live \cup {t} : g # n => prev'[g] = prev[g]
      /\ msize'[t] = z /\ \A g \in live : msize'[g] = msize[g]
  BY <1>1, <1>2, <1>3, <1>4, <1>b DEF TypeOK
<1>8. BlocksDisjoint'
  <2>1. End(t)' = b /\ \A g \in live : End(g)' = End(g)
    BY <1>b, <1>7 DEF End
  <2>2. \A g \in live : End(g) <= b
    <3>1. \A g \in live : End(g) \in Nat /\ End(g) <= t
      BY <1>1, <1>b, HeapAssumption DEF End
    <3>2. QED
      BY <1>b, <3>1
  <2>3. \A g, k \in live : g < k => End(g) <= k
    BY DEF IInv, BlocksDisjoint
  <2>4. QED
    BY <1>1, <1>c, <1>b, <2>1, <2>2, <2>3 DEF BlocksDisjoint
<1>9. \A g \in live : /\ next[g] \in live \cup {t} /\ next[g] > g
                      /\ \A k \in live : ~(g < k /\ k < next[g])
                      /\ prev[next[g]] = g
  BY <1>b DEF IInv, ListThreadsLive
<1>10. ListThreadsLive'
  <2> SUFFICES ASSUME NEW g \in live', g # h
               PROVE  /\ next'[g] \in live' \cup {b}
                      /\ next'[g] > g
                      /\ \A k \in live' : ~(g < k /\ k < next'[g])
                      /\ prev'[next'[g]] = g
    BY <1>c DEF ListThreadsLive
  <2>1. CASE g = t
    BY <1>1, <1>c, <1>7, <1>b, <2>1
  <2>2. CASE g = p
    <3>1. \A k \in live' : ~(p < k /\ k < n)
      <4> TAKE k \in live'
      <4>1. CASE k = t
        BY <1>1, <1>b, <4>1
      <4>2. CASE k # t
        <5>1. k \in live /\ k # h
          BY <1>c, <4>2
        <5>2. ~(p < k /\ k < h) /\ ~(h < k /\ k < n)
          BY <1>1, <1>9, <5>1
        <5>3. QED
          BY <1>1, <5>1, <5>2
      <4>3. QED
        BY <4>1, <4>2
    <3>2. QED
      BY <1>1, <1>c, <1>7, <1>b, <2>2, <3>1
  <2>3. CASE g # p /\ g # t
    <3>1. g \in live /\ next'[g] = next[g] /\ prev[next[g]] = g
      BY <1>c, <1>7, <1>9, <2>3
    <3>2. next[g] # h /\ next[g] # n
      BY <1>1, <2>3, <3>1
    <3>3. prev'[next[g]] = g
      BY <1>7, <1>9, <3>1, <3>2
    <3>4. ~(t < next[g])
      <4>1. next[g] \in live \cup {t}
        BY <1>9, <3>1
      <4>2. t \in Nat /\ \A x \in live : x \in Nat /\ x < t
        BY <1>1, <1>b
      <4>3. QED
        BY <4>1, <4>2
    <3>5. \A k \in live' : ~(g < k /\ k < next[g])
      BY <1>c, <1>9, <3>1, <3>4
    <3>6. QED
      BY <1>c, <1>9, <3>1, <3>2, <3>3, <3>5
  <2>4. QED
    BY <2>1, <2>2, <2>3
<1>11. PrevThreads'
  <2> SUFFICES ASSUME NEW g \in live' \cup {b}, g # HeapBase, g # NULL
               PROVE  prev'[g] \in live' /\ next'[prev'[g]] = g
    BY <1>c DEF PrevThreads, Ends
  <2>1. CASE g = b
    BY <1>1, <1>c, <1>7, <1>b, <2>1
  <2>2. CASE g = n
    BY <1>1, <1>c, <1>7, <1>b, <2>2
  <2>3. CASE g # b /\ g # n
    <3>1. g \in live \cup {t} /\ g # h
      BY <1>1, <1>c, <1>b, <2>3
    <3>2. prev[g] \in live /\ next[prev[g]] = g
      BY <1>b, <2>3, <3>1 DEF IInv, PrevThreads, Ends
    <3>3. prev'[g] = prev[g] /\ prev[g] # h /\ prev[g] # p
      BY <1>1, <1>7, <2>3, <3>1, <3>2
    <3>4. QED
      BY <1>c, <1>7, <3>2, <3>3
  <2>4. QED
    BY <2>1, <2>2, <2>3
<1>12. QED
  BY <1>5, <1>6, <1>8, <1>10, <1>11 DEF IInv

LEMMA NextIInv == IInv /\ [Next]_vars => IInv'
<1> SUFFICES ASSUME IInv, [Next]_vars
             PROVE  IInv'
  OBVIOUS
<1>1. ASSUME NEW n \in Sizes, KMalloc(n)
      PROVE  IInv'
  BY <1>1, KMallocIInv
<1>2. ASSUME NEW n \in Sizes, KMallocWild(n)
      PROVE  IInv'
  <2>1. wild' \in BOOLEAN
    BY <1>2, Zenon DEF KMallocWild
  <2>2. UNCHANGED <<heap_start, free_ptr, bytes_allocated, msize, next, prev, live>>
    BY <1>2, Zenon DEF KMallocWild
  <2>3. TypeOK'
    <3>1. TypeOK
      BY DEF IInv
    <3>2. /\ heap_start' = heap_start /\ free_ptr' = free_ptr /\ ret' = ret
          /\ bytes_allocated' = bytes_allocated /\ msize' = msize
          /\ next' = next /\ prev' = prev /\ live' = live
      BY <1>2 DEF KMallocWild
    <3>3. QED
      BY <2>1, <3>1, <3>2, Zenon DEF TypeOK
  <2>4. Started' /\ BlocksDisjoint' /\ ListThreadsLive' /\ PrevThreads'
    BY <2>2 DEF IInv, Started, BlocksDisjoint, ListThreadsLive, PrevThreads,
                Ends, End
  <2>5. QED
    BY <2>3, <2>4 DEF IInv
<1>3. ASSUME NEW n \in Sizes, KMallocFails(n)
      PROVE  IInv'
  <2>1. /\ heap_start' = HeapBase /\ free_ptr' = Top
        /\ UNCHANGED <<bytes_allocated, msize, next, prev, live, wild>>
    BY <1>3 DEF KMallocFails
  <2>a. wild' \in BOOLEAN /\ ret' \in Arena \cup {NULL}
    BY <1>3, Zenon DEF KMallocFails, IInv, TypeOK
  <2>2. CASE heap_start = NULL
    <3>1. live = {} /\ free_ptr' = HeapBase
      BY <2>1, <2>2 DEF IInv, Started, Top
    <3>2. TypeOK'
      BY <2>1, <2>a, <3>1, ArenaFacts DEF IInv, TypeOK
    <3>3. Started'
      BY <2>1, <3>1, ArenaFacts, HeapAssumption DEF Started, HeaderFits
    <3>4. BlocksDisjoint' /\ ListThreadsLive' /\ PrevThreads'
      BY <2>1, <3>1 DEF BlocksDisjoint, ListThreadsLive, PrevThreads, Ends
    <3>5. QED
      BY <3>2, <3>3, <3>4 DEF IInv
  <2>3. CASE heap_start # NULL
    <3>1. heap_start' = heap_start /\ free_ptr' = free_ptr
      BY <2>1, <2>3 DEF IInv, TypeOK, Top
    <3>2. TypeOK'
      BY <2>1, <2>a, <3>1 DEF IInv, TypeOK
    <3>3. Started' /\ BlocksDisjoint' /\ ListThreadsLive' /\ PrevThreads'
      BY <2>1, <3>1 DEF IInv, Started, BlocksDisjoint, ListThreadsLive,
                        PrevThreads, Ends, End
    <3>4. QED
      BY <3>2, <3>3 DEF IInv
  <2>4. QED
    BY <2>2, <2>3
<1>4. ASSUME NEW h \in Freeable, KFree(h)
      PROVE  IInv'
  BY <1>4, UnlinkIInv DEF KFree, IInv, TypeOK
<1>5. ASSUME NEW h \in Freeable, NEW n \in Sizes, KRealloc(h, n)
      PROVE  IInv'
  BY <1>5, KReallocIInv
<1>6. ASSUME NEW h \in Freeable, NEW n \in Sizes, KReallocFails(h, n)
      PROVE  IInv'
  BY <1>6, UnlinkIInv DEF KReallocFails
<1>7. CASE UNCHANGED vars
  BY <1>7 DEF vars, IInv, TypeOK, Started, BlocksDisjoint, ListThreadsLive,
              PrevThreads, Ends, End
<1>8. QED
  BY <1>1, <1>2, <1>3, <1>4, <1>5, <1>6, <1>7 DEF Next

LEMMA IInvariant == Spec => []IInv
  BY InitIInv, NextIInv, PTL DEF Spec

(* Type correctness of the heap: next and prev never leave the arena.      *)
THEOREM TypeCorrect == Spec => []TypeOK
<1>1. IInv => TypeOK
  BY DEF IInv
<1>2. QED
  BY <1>1, IInvariant, PTL

(* No block handed out by kmalloc or krealloc overlaps another, or the     *)
(* place of the next header, as long as the heap stays inside its arena.   *)
THEOREM BlocksAreDisjoint == Spec => []BlocksDisjoint
<1>1. IInv => BlocksDisjoint
  BY DEF IInv
<1>2. QED
  BY <1>1, IInvariant, PTL

(* Frees and resizes in any order leave a doubly linked list of exactly    *)
(* the live blocks, in address order.                                      *)
THEOREM ListIsIntact == Spec => []ListThreadsLive
<1>1. IInv => ListThreadsLive
  BY DEF IInv
<1>2. QED
  BY <1>1, IInvariant, PTL

-----------------------------------------------------------------------------
(* Sums over a finite set.  MapThenSumSet is a function defined by         *)
(* recursion on the subsets, which takes any element first; that there is  *)
(* one and that the order does not matter are shown from a smallest set    *)
(* that has none, or for which it does.                                    *)
Pick(s) == CHOOSE x \in s : TRUE

Totals(g, m, D) == g = [s \in D |-> IF s = {} THEN 0 ELSE m[Pick(s)] + g[s \ {Pick(s)}]]

Sum(m, S) == (CHOOSE g : Totals(g, m, SUBSET S))[S]

Small(S, k) == {s \in SUBSET S : Cardinality(s) <= k}

LEMMA AccountingIsSum == Accounting <=> bytes_allocated = Sum(msize, live)
<1>1. MapThenSumSet(LAMBDA h : msize[h], live) = Sum(msize, live)
  BY DEF Sum, Totals, Pick, MapThenSumSet, MapThenFoldSet
<1>2. QED
  BY <1>1 DEF Accounting

(* A non-empty set of naturals has a least element.                        *)
LEMMA LeastOf ==
  ASSUME NEW S \in SUBSET Nat, S # {}
  PROVE  \E x \in S : \A y \in S : x <= y
<1>1. PICK x \in S : \A y \in S : ~(<<y, x>> \in OpToRel(<, Nat))
  BY NatLessThanWellFounded, WFMin
<1>2. \A y \in S : ~(y < x)
  BY <1>1, Zenon DEF OpToRel
<1>3. QED
  BY <1>2

LEMMA SmallestOf ==
  ASSUME NEW S, IsFiniteSet(S), NEW B \in SUBSET SUBSET S, B # {}
  PROVE  \E s \in B : /\ IsFiniteSet(s) /\ Cardinality(s) \in Nat
                      /\ \A r \in SUBSET S : Cardinality(r) < Cardinality(s) => r \notin B
<1> DEFINE K == {Cardinality(s) : s \in B}
<1>1. \A s \in SUBSET S : IsFiniteSet(s) /\ Cardinality(s) \in Nat
  BY FS_Subset, FS_CardinalityType
<1>2. K \in SUBSET Nat /\ K # {}
  BY <1>1
<1>3. PICK k \in K : \A j \in K : k <= j
  <2> HIDE DEF K
  <2>1. QED
    BY <1>2, LeastOf
<1>4. PICK s \in B : Cardinality(s) = k
  OBVIOUS
<1>5. ASSUME NEW r \in B PROVE ~(Cardinality(r) < Cardinality(s))
  <2>1. Cardinality(s) <= Cardinality(r)
    BY <1>3, <1>4
  <2>2. QED
    BY <1>1, <2>1
<1>6. QED
  BY <1>1, <1>4, <1>5

LEMMA PickFacts ==
  ASSUME NEW s, s # {}, IsFiniteSet(s)
  PROVE  /\ Pick(s) \in s /\ Cardinality(s) \in Nat /\ Cardinality(s) > 0
         /\ Cardinality(s \ {Pick(s)}) = Cardinality(s) - 1
<1>1. Pick(s) \in s
  BY DEF Pick
<1>2. QED
  BY <1>1, FS_RemoveElement, FS_CardinalityType, FS_EmptySet

LEMMA TotalAt ==
  ASSUME NEW g, NEW m, NEW D, Totals(g, m, D), NEW s \in D
  PROVE  g[s] = IF s = {} THEN 0 ELSE m[Pick(s)] + g[s \ {Pick(s)}]
BY Zenon DEF Totals

LEMMA TotalsExist ==
  ASSUME NEW S, IsFiniteSet(S), NEW m
  PROVE  \E g : Totals(g, m, SUBSET S)
<1> DEFINE T == {k \in Nat : ~\E g : Totals(g, m, Small(S, k))}
<1>0. \A s \in SUBSET S : /\ IsFiniteSet(s) /\ Cardinality(s) \in Nat
                           /\ Cardinality(s) <= Cardinality(S)
  BY FS_Subset, FS_CardinalityType
<1>1. CASE T = {}
  <2>1. Cardinality(S) \in Nat /\ Small(S, Cardinality(S)) = SUBSET S
    BY <1>0 DEF Small
  <2>2. PICK g : Totals(g, m, Small(S, Cardinality(S)))
    BY <1>1, <2>1
  <2>3. QED
    BY <2>1, <2>2
<1>2. CASE T # {}
  <2>1. PICK k \in T : \A j \in T : k <= j
    BY <1>2, LeastOf
  <2>3. k \in Nat /\ ~\E g : Totals(g, m, Small(S, k))
    OBVIOUS
  <2>4. CASE k = 0
    <3>1. \A s \in Small(S, k) : s = {}
      BY <1>0, <2>4, FS_EmptySet DEF Small
    <3>2. Totals([s \in Small(S, k) |-> 0], m, Small(S, k))
      BY <3>1 DEF Totals
    <3>3. QED
      BY <2>3, <3>2
  <2>5. CASE k # 0
    <3>1. k - 1 \in Nat /\ k - 1 \notin T
      BY <2>1, <2>3, <2>5
    <3>2. PICK f : Totals(f, m, Small(S, k - 1))
      BY <3>1
    <3> DEFINE g == [s \in Small(S, k) |->
                       IF s = {} THEN 0 ELSE m[Pick(s)] + f[s \ {Pick(s)}]]
    <3>3. ASSUME NEW s \in Small(S, k), s # {}
          PROVE  g[s \ {Pick(s)}] = f[s \ {Pick(s)}]
      <4> DEFINE r == s \ {Pick(s)}
      <4>1. r \in Small(S, k - 1) /\ r \in Small(S, k)
        BY <1>0, <2>3, <3>3, PickFacts DEF Small
      <4> HIDE DEF r
      <4>2. f[r] = IF r = {} THEN 0 ELSE m[Pick(r)] + f[r \ {Pick(r)}]
        BY <3>2, <4>1, TotalAt
      <4>3. g[r] = IF r = {} THEN 0 ELSE m[Pick(r)] + f[r \ {Pick(r)}]
        BY <4>1
      <4>4. QED
        BY <4>2, <4>3 DEF r
    <3>4. g = [s \in Small(S, k) |-> IF s = {} THEN 0 ELSE m[Pick(s)] + g[s \ {Pick(s)}]]
      BY <3>3
    <3>5. Totals(g, m, Small(S, k))
      BY <3>4 DEF Totals
    <3>6. QED
      BY <2>3, <3>5
  <2>6. QED
    BY <2>4, <2>5
<1>3. QED
  BY <1>1, <1>2

LEMMA TotalsAgree ==
  ASSUME NEW S, NEW T, IsFiniteSet(S), S \subseteq T, NEW m, NEW n, NEW g, NEW h,
         Totals(g, m, SUBSET S), Totals(h, n, SUBSET T), \A x \in S : m[x] = n[x]
  PROVE  g[S] = h[S]
<1> DEFINE B == {s \in SUBSET S : g[s] # h[s]}
<1>0. B \in SUBSET SUBSET S /\ \A r \in SUBSET S : r \in B <=> g[r] # h[r]
  OBVIOUS
<1> HIDE DEF B
<1> SUFFICES ASSUME B # {} PROVE FALSE
  BY <1>0
<1>1. PICK s \in B : /\ IsFiniteSet(s) /\ Cardinality(s) \in Nat
                     /\ \A r \in SUBSET S : Cardinality(r) < Cardinality(s) => r \notin B
  BY <1>0, SmallestOf
<1>2. s \in SUBSET S /\ s \in SUBSET T /\ g[s] # h[s]
  BY <1>0
<1>3. g[s] = IF s = {} THEN 0 ELSE m[Pick(s)] + g[s \ {Pick(s)}]
  BY <1>2, TotalAt, SMTT(30)
<1>4. h[s] = IF s = {} THEN 0 ELSE n[Pick(s)] + h[s \ {Pick(s)}]
  BY <1>2, TotalAt
<1>5. s # {}
  BY <1>2, <1>3, <1>4
<1>6. Pick(s) \in s /\ Cardinality(s \ {Pick(s)}) < Cardinality(s)
  BY <1>1, <1>5, PickFacts
<1>7. g[s \ {Pick(s)}] = h[s \ {Pick(s)}]
  <2>1. s \ {Pick(s)} \in SUBSET S
    BY <1>2
  <2>2. QED
    BY <1>0, <1>1, <1>6, <2>1
<1>8. m[Pick(s)] = n[Pick(s)]
  BY <1>2, <1>6
<1>9. QED
  BY <1>2, <1>3, <1>4, <1>5, <1>7, <1>8

LEMMA TotalAdds ==
  ASSUME NEW S, IsFiniteSet(S), NEW m, \A x \in S : m[x] \in Nat,
         NEW g, Totals(g, m, SUBSET S)
  PROVE  \A s \in SUBSET S : g[s] \in Nat /\ \A x \in S \ s : g[s \cup {x}] = m[x] + g[s]
<1> DEFINE Adds(s) == g[s] \in Nat /\ \A x \in S \ s : g[s \cup {x}] = m[x] + g[s]
           B == {s \in SUBSET S : ~Adds(s)}
<1>0. B \in SUBSET SUBSET S /\ \A r \in SUBSET S : r \in B <=> ~Adds(r)
  OBVIOUS
<1> HIDE DEF B
<1> SUFFICES ASSUME B # {} PROVE FALSE
  BY <1>0
<1>1. PICK s \in B : /\ IsFiniteSet(s) /\ Cardinality(s) \in Nat
                     /\ \A r \in SUBSET S : Cardinality(r) < Cardinality(s) => r \notin B
  BY <1>0, SmallestOf
<1>1a. s \in SUBSET S /\ ~Adds(s)
  BY <1>0
<1>2. ASSUME NEW y \in s PROVE Adds(s \ {y})
  <2>1. s \ {y} \in SUBSET S
    BY <1>1a
  <2>2. Cardinality(s \ {y}) = Cardinality(s) - 1
    BY <1>1, FS_RemoveElement
  <2>3. Cardinality(s \ {y}) < Cardinality(s)
    BY <1>1, <2>2
  <2>4. s \ {y} \notin B
    BY <1>1, <2>1, <2>3
  <2>5. QED
    BY <1>0, <2>1, <2>4
<1>3. g[s] = IF s = {} THEN 0 ELSE m[Pick(s)] + g[s \ {Pick(s)}]
  BY <1>1a, TotalAt, ZenonT(30)
<1>4. g[s] \in Nat
  <2>1. CASE s # {}
    <3>1. Pick(s) \in s
      BY <2>1 DEF Pick
    <3>2. g[s \ {Pick(s)}] \in Nat /\ m[Pick(s)] \in Nat
      BY <1>1a, <1>2, <3>1
    <3>3. QED
      BY <1>3, <2>1, <3>2
  <2>2. QED
    BY <1>3, <2>1
<1>5. ASSUME NEW x \in S \ s PROVE g[s \cup {x}] = m[x] + g[s]
  <2> DEFINE u == s \cup {x}
             y == Pick(u)
  <2>1. u # {} /\ u \in SUBSET S /\ y \in u
    BY <1>1a DEF Pick
  <2>2. g[u] = m[y] + g[u \ {y}]
    BY <2>1, TotalAt, ZenonT(30)
  <2> HIDE DEF y
  <2>3. CASE y = x
    <3>1. u \ {y} = s
      BY <2>3
    <3>2. QED
      BY <2>2, <2>3, <3>1
  <2>4. CASE y # x
    <3>1. y \in s /\ u \ {y} = (s \ {y}) \cup {x} /\ s = (s \ {y}) \cup {y}
      BY <2>1, <2>4
    <3>2. /\ g[s \ {y}] \in Nat /\ g[u \ {y}] = m[x] + g[s \ {y}]
          /\ g[s] = m[y] + g[s \ {y}]
      <4>1. Adds(s \ {y})
        BY <1>2, <3>1
      <4>2. x \in S \ (s \ {y}) /\ y \in S \ (s \ {y})
        BY <1>1a, <3>1
      <4>3. /\ g[(s \ {y}) \cup {x}] = m[x] + g[s \ {y}]
            /\ g[(s \ {y}) \cup {y}] = m[y] + g[s \ {y}]
        BY <4>1, <4>2
      <4>4. QED
        BY <3>1, <4>1, <4>3
    <3>3. m[x] \in Nat /\ m[y] \in Nat
      BY <1>1a, <3>1
    <3>4. QED
      BY <2>2, <3>2, <3>3
  <2>5. QED
    BY <2>3, <2>4
<1>6. QED
  BY <1>1a, <1>4, <1>5

(* What the sum of a set is.                                               *)
LEMMA SumTotals ==
  ASSUME NEW S, IsFiniteSet(S), NEW m
  PROVE  \E g : Totals(g, m, SUBSET S) /\ Sum(m, S) = g[S]
BY TotalsExist DEF Sum

LEMMA SumEmpty == ASSUME NEW m PROVE Sum(m, {}) = 0
<1>1. PICK g : Totals(g, m, SUBSET {}) /\ Sum(m, {}) = g[{}]
  BY SumTotals, FS_EmptySet
<1>2. QED
  BY <1>1, TotalAt

LEMMA SumSame ==
  ASSUME NEW S, IsFiniteSet(S), NEW m, NEW n, \A x \in S : m[x] = n[x]
  PROVE  Sum(m, S) = Sum(n, S)
<1>1. PICK g : Totals(g, m, SUBSET S) /\ Sum(m, S) = g[S]
  BY SumTotals
<1>2. PICK h : Totals(h, n, SUBSET S) /\ Sum(n, S) = h[S]
  BY SumTotals
<1>3. QED
  BY <1>1, <1>2, TotalsAgree

LEMMA SumAdds ==
  ASSUME NEW S, IsFiniteSet(S), NEW m, NEW x, x \notin S, \A y \in S \cup {x} : m[y] \in Nat
  PROVE  Sum(m, S) \in Nat /\ Sum(m, S \cup {x}) = m[x] + Sum(m, S)
<1>1. PICK g : Totals(g, m, SUBSET S) /\ Sum(m, S) = g[S]
  BY SumTotals
<1>2. PICK T : T = S \cup {x}
  OBVIOUS
<1>3. IsFiniteSet(T) /\ S \subseteq T /\ x \in T \ S /\ S \in SUBSET T
  BY <1>2, FS_AddElement
<1>4. PICK h : Totals(h, m, SUBSET T) /\ Sum(m, T) = h[T]
  BY <1>3, SumTotals
<1>5. g[S] = h[S]
  BY <1>1, <1>3, <1>4, TotalsAgree
<1>6. h[S] \in Nat /\ h[S \cup {x}] = m[x] + h[S]
  <2>1. \A y \in T : m[y] \in Nat
    BY <1>2
  <2>2. QED
    BY <1>3, <1>4, <2>1, TotalAdds
<1>7. QED
  BY <1>1, <1>2, <1>4, <1>5, <1>6

-----------------------------------------------------------------------------
(* Accounting is no part of what keeps the list and the blocks in order:   *)
(* it is an invariant beside IInv, from the facts about Top and about a    *)
(* block's neighbours.                                                     *)
Counted == bytes_allocated = Sum(msize, live)

LEMMA LiveFacts ==
  ASSUME IInv
  PROVE  /\ IsFiniteSet(live) /\ live \subseteq Arena
         /\ \A h \in live : msize[h] \in Nat
         /\ bytes_allocated \in Int /\ DOMAIN msize = Arena
<1>1. HeapBase \in Int /\ HeapBase + HeapBytes - 1 \in Int
  BY HeapAssumption
<1>2. IsFiniteSet(Arena)
  BY <1>1, FS_Interval DEF Arena
<1>3. TypeOK
  BY DEF IInv
<1>4. live \subseteq Arena
  BY <1>3 DEF TypeOK
<1>5. IsFiniteSet(live)
  BY <1>2, <1>4, FS_Subset
<1>6. QED
  BY <1>3, <1>4, <1>5 DEF TypeOK

(* Taking a live block's header out of the list takes its bytes out of the *)
(* sum.                                                                    *)
LEMMA SumWithout ==
  ASSUME IInv, NEW h \in live
  PROVE  /\ Sum(msize, live \ {h}) \in Nat
         /\ Sum(msize, live) = msize[h] + Sum(msize, live \ {h})
<1>1. PICK S : S = live \ {h}
  OBVIOUS
<1>2. S \cup {h} = live /\ h \notin S /\ S \subseteq live
  BY <1>1
<1>3. IsFiniteSet(S) /\ \A y \in S \cup {h} : msize[y] \in Nat
  BY <1>2, LiveFacts, FS_Subset
<1>4. Sum(msize, S) \in Nat /\ Sum(msize, S \cup {h}) = msize[h] + Sum(msize, S)
  BY <1>2, <1>3, SumAdds
<1>5. QED
  BY <1>1, <1>2, <1>4

(* Writing a new header at Top adds its bytes to the sum of any live       *)
(* blocks.                                                                 *)
LEMMA SumWith ==
  ASSUME IInv, NEW n \in Sizes, HeaderFits(Beyond(n)), NEW S \in SUBSET live,
         msize' = [msize EXCEPT ![Top] = n]
  PROVE  /\ Sum(msize, S) \in Nat
         /\ Sum(msize', S \cup {Top}) = n + Sum(msize, S)
<1>1. PICK t : t = Top
  OBVIOUS
<1>2. PICK m : m = msize'
  OBVIOUS
<1>3. /\ t \in Arena /\ t \notin S /\ n \in Nat /\ m = [msize EXCEPT ![t] = n]
  BY <1>1, <1>2, TopFacts
<1>4. m[t] = n /\ \A y \in S : msize[y] = m[y] /\ m[y] \in Nat
  BY <1>3, LiveFacts
<1>5. IsFiniteSet(S)
  BY LiveFacts, FS_Subset
<1>6. Sum(msize, S) = Sum(m, S)
  BY <1>4, <1>5, SumSame
<1>7. Sum(m, S) \in Nat /\ Sum(m, S \cup {t}) = m[t] + Sum(m, S)
  <2>1. \A y \in S \cup {t} : m[y] \in Nat
    BY <1>3, <1>4
  <2>2. QED
    BY <1>3, <1>5, <2>1, SumAdds
<1>8. QED
  BY <1>1, <1>2, <1>4, <1>6, <1>7

LEMMA NextCounted == IInv /\ Counted /\ [Next]_vars => Counted'
<1> SUFFICES ASSUME IInv, Counted, [Next]_vars
             PROVE  bytes_allocated' = Sum(msize', live')
  BY DEF Counted
<1>0. bytes_allocated = Sum(msize, live)
  BY DEF Counted
<1>1. ASSUME NEW n \in Sizes, KMalloc(n)
      PROVE  bytes_allocated' = Sum(msize', live')
  <2>1. /\ HeaderFits(Beyond(n)) /\ msize' = [msize EXCEPT ![Top] = n]
        /\ live' = live \cup {Top} /\ bytes_allocated' = bytes_allocated + n
    BY <1>1 DEF KMalloc
  <2>2. Sum(msize, live) \in Nat /\ Sum(msize', live \cup {Top}) = n + Sum(msize, live)
    BY <2>1, SumWith
  <2>3. n \in Nat
    BY SizesAssumption
  <2>4. QED
    BY <1>0, <2>1, <2>2, <2>3
<1>2. ASSUME NEW h \in Freeable, Unlink(h)
      PROVE  bytes_allocated' = Sum(msize', live')
  <2>1. /\ msize' = msize /\ live' = live \ {h} /\ h \in live
        /\ bytes_allocated' = bytes_allocated - msize[h]
    BY <1>2 DEF Unlink, Freeable
  <2>2. Sum(msize, live \ {h}) \in Nat /\ Sum(msize, live) = msize[h] + Sum(msize, live \ {h})
    BY <2>1, SumWithout
  <2>3. msize[h] \in Nat
    BY <2>1, LiveFacts
  <2>4. QED
    BY <1>0, <2>1, <2>2, <2>3
<1>3. ASSUME NEW h \in Freeable, NEW n \in Sizes, KRealloc(h, n)
      PROVE  bytes_allocated' = Sum(msize', live')
  <2>1. /\ HeaderFits(Beyond(n)) /\ msize' = [msize EXCEPT ![Top] = n]
        /\ live' = (live \cup {Top}) \ {h} /\ h \in live
        /\ bytes_allocated' = bytes_allocated + n - msize[h]
    BY <1>3 DEF KRealloc, Freeable
  <2>2. live' = (live \ {h}) \cup {Top}
    BY <2>1, TopFacts
  <2>3. Sum(msize, live \ {h}) \in Nat /\ Sum(msize, live) = msize[h] + Sum(msize, live \ {h})
    BY <2>1, SumWithout
  <2>4. Sum(msize', (live \ {h}) \cup {Top}) = n + Sum(msize, live \ {h})
    <3>1. live \ {h} \in SUBSET live
      OBVIOUS
    <3>2. QED
      BY <2>1, <3>1, SumWith
  <2>5. n \in Nat /\ msize[h] \in Nat
    BY <2>1, LiveFacts, SizesAssumption
  <2>6. Sum(msize', live') = n + Sum(msize, live \ {h})
    BY <2>2, <2>4
  <2>7. bytes_allocated' = msize[h] + Sum(msize, live \ {h}) + n - msize[h]
    BY <1>0, <2>1, <2>3
  <2>8. QED
    BY <2>3, <2>5, <2>6, <2>7
<1>4. CASE UNCHANGED <<bytes_allocated, msize, live>>
  BY <1>0, <1>4
<1>5. QED
  <2>1. ASSUME NEW n \in Sizes, KMallocWild(n) \/ KMallocFails(n)
        PROVE  UNCHANGED <<bytes_allocated, msize, live>>
    BY <2>1 DEF KMallocWild, KMallocFails
  <2>2. UNCHANGED vars => UNCHANGED <<bytes_allocated, msize, live>>
    BY DEF vars
  <2>3. QED
    BY <1>1, <1>2, <1>3, <1>4, <2>1, <2>2 DEF Next, KFree, KReallocFails

(* bytes_allocated is at every moment the number of bytes of the live      *)
(* blocks, whatever was freed and resized: the limit kmalloc checks is a   *)
(* limit on what callers hold.                                             *)
THEOREM AccountingIsExact == Spec => []Accounting
<1>1. Init => Counted
  BY SumEmpty DEF Init, Counted
<1>2. Counted <=> Accounting
  BY AccountingIsSum DEF Counted
<1>3. QED
  BY <1>1, <1>2, IInvariant, NextCounted, PTL DEF Spec

-----------------------------------------------------------------------------
(* The refinement: a live header h stands for the block of msize[h] bytes  *)
(* that follows it.                                                        *)
Block(h) == [addr |-> h + HeaderSize, size |-> msize[h]]

Blocks == {Block(h) : h \in live}

(* Different headers stand for different blocks.                           *)
LEMMA BlockFacts ==
  ASSUME TypeOK, NEW g \in Arena, NEW h \in Arena, Block(g) = Block(h)
  PROVE  g = h
  BY ArenaFacts, HeapAssumption DEF Block

(* The block at Top is clear of the live ones.                             *)
LEMMA TopIsFresh ==
  ASSUME IInv, NEW n \in Sizes, HeaderFits(Beyond(n)), NEW h \in live
  PROVE  BA!Extent(Block(h)) \cap
           BA!Extent([addr |-> Top + HeaderSize, size |-> n]) = {}
<1>1. /\ h \in Nat /\ msize[h] \in Nat /\ End(h) <= Top /\ Top \in Nat
  BY TopFacts, ArenaFacts
<1>2. QED
  BY <1>1, HeapAssumption DEF BA!Extent, Block, End

LEMMA AllocRefines ==
  ASSUME IInv, NEW n \in Sizes, HeaderFits(Beyond(n)),
         msize' = [msize EXCEPT ![Top] = n]
  PROVE  /\ Top + HeaderSize > 0
         /\ Top + HeaderSize = Beyond(n) - n
         /\ {Block(h)' : h \in live \cup {Top}} =
              Blocks \cup {[addr |-> Top + HeaderSize, size |-> n]}
<1>0. PICK t : t = Top
  OBVIOUS
<1>1. /\ t \in Arena /\ t \in Nat /\ n \in Nat /\ Beyond(n) = t + HeaderSize + n
      /\ t \notin live /\ live \subseteq Arena /\ TypeOK
  BY <1>0, TopFacts, ArenaFacts DEF IInv, TypeOK
<1>2. msize' = [msize EXCEPT ![t] = n]
  BY <1>0
<1>3. msize'[t] = n /\ \A h \in live : msize'[h] = msize[h]
  BY <1>1, <1>2 DEF TypeOK
<1>4. /\ Block(t)' = [addr |-> t + HeaderSize, size |-> n]
      /\ \A h \in live : Block(h)' = Block(h)
  BY <1>3 DEF Block
<1>5. {Block(h)' : h \in live \cup {t}} =
        Blocks \cup {[addr |-> t + HeaderSize, size |-> n]}
  BY <1>4 DEF Blocks
<1>6. t + HeaderSize > 0 /\ t + HeaderSize = Beyond(n) - n
  BY <1>1, HeapAssumption
<1>7. QED
  BY <1>0, <1>5, <1>6

(* heap.c implements the abstract allocator: disjoint blocks, and a        *)
(* request is refused only when it would take the live bytes past          *)
(* HEAP_SIZE_PAGES*PAGE_SIZE.                                              *)
THEOREM ImplementsBlockAllocator == Spec => Allocates
<1>1. Init => BA!Init
  BY DEF Init, NULL, BA!Init
<1>2. IInv /\ IInv' /\ [Next]_vars => [BA!Next]_(BA!vars)
  <2> SUFFICES ASSUME IInv, IInv', [Next]_vars
               PROVE  [BA!Next]_(BA!vars)
    OBVIOUS
  <2>0. /\ Blocks = {[addr |-> h + HeaderSize, size |-> msize[h]] : h \in live}
        /\ Blocks' = {[addr |-> h + HeaderSize, size |-> msize'[h]] : h \in live'}
        /\ TypeOK /\ live \subseteq Arena
    BY DEF Blocks, Block, IInv, TypeOK
  <2>1. ASSUME NEW n \in Sizes, KMalloc(n)
        PROVE  BA!Next
    <3> DEFINE new == [addr |-> Top + HeaderSize, size |-> n]
    <3>1. /\ HeaderFits(Beyond(n)) /\ bytes_allocated + n <= HeapBytes
          /\ msize' = [msize EXCEPT ![Top] = n]
          /\ live' = live \cup {Top}
          /\ bytes_allocated' = bytes_allocated + n
          /\ ret' = Beyond(n) - n
      BY <2>1 DEF KMalloc
    <3>2. /\ Blocks' = Blocks \cup {new} /\ ret' = new.addr /\ new.addr > 0
      <4>1. Blocks' = {Block(h)' : h \in live \cup {Top}}
        BY <3>1 DEF Blocks
      <4>2. QED
        BY <3>1, <4>1, AllocRefines
    <3>3. \A b \in Blocks : BA!Extent(b) \cap BA!Extent(new) = {}
      BY <3>1, TopIsFresh DEF Blocks
    <3>4. BA!Alloc(n)
      BY <2>0, <3>1, <3>2, <3>3 DEF BA!Alloc, BA!Fresh
    <3>5. QED
      BY <3>4 DEF BA!Next
  <2>2. ASSUME NEW n \in Sizes, KMallocWild(n)
        PROVE  UNCHANGED BA!vars
    BY <2>2 DEF KMallocWild, BA!vars
  <2>3. ASSUME NEW n \in Sizes, KMallocFails(n)
        PROVE  BA!Next
    <3>1. BA!Fail(n)
      BY <2>3 DEF KMallocFails, NULL, BA!Fail
    <3>2. QED
      BY <3>1 DEF BA!Next
  <2>4. ASSUME NEW h \in Freeable, Unlink(h)
        PROVE  /\ Block(h) \in Blocks
               /\ Blocks' = Blocks \ {Block(h)}
               /\ bytes_allocated' = bytes_allocated - Block(h).size
    <3>1. h \in live /\ live' = live \ {h} /\ msize' = msize
          /\ bytes_allocated' = bytes_allocated - msize[h]
      BY <2>4 DEF Unlink, Freeable
    <3>2. \A g \in live : Block(g)' = Block(g) /\ (g # h => Block(g) # Block(h))
      BY <2>0, <3>1, BlockFacts DEF Block
    <3>3. QED
      BY <3>1, <3>2 DEF Blocks, Block
  <2>5. ASSUME NEW h \in Freeable, KFree(h)
        PROVE  BA!Next
    <3>1. Unlink(h) /\ ret' = ret
      BY <2>5 DEF KFree
    <3>2. PICK b \in Blocks : b = Block(h)
      BY <2>4, <3>1
    <3>3. BA!Free(b)
      BY <2>0, <2>4, <3>1, <3>2 DEF BA!Free
    <3>4. QED
      BY <2>0, <3>3 DEF BA!Next
  <2>6. ASSUME NEW h \in Freeable, NEW n \in Sizes, KRealloc(h, n)
        PROVE  BA!Next
    <3>0. PICK t, new : t = Top /\ new = [addr |-> Top + HeaderSize, size |-> n]
      OBVIOUS
    <3>1. /\ HeaderFits(Beyond(n)) /\ bytes_allocated + n <= HeapBytes
          /\ msize' = [msize EXCEPT ![t] = n]
          /\ live' = (live \cup {t}) \ {h}
          /\ bytes_allocated' = bytes_allocated + n - msize[h]
          /\ ret' = Beyond(n) - n
          /\ h \in live
      BY <2>6, <3>0 DEF KRealloc, Freeable
    <3>2. /\ {Block(g)' : g \in live \cup {t}} = Blocks \cup {new}
          /\ ret' = new.addr /\ new.addr > 0
      BY <3>0, <3>1, AllocRefines
    <3>3. t # h /\ t \in Arena /\ h \in Arena /\ t \in Nat
      BY <2>0, <3>0, <3>1, TopFacts, ArenaFacts
    <3>4. msize'[h] = msize[h] /\ msize'[t] = n
      BY <2>0, <3>1, <3>3 DEF TypeOK
    <3>5. Block(h)' = Block(h) /\ new = Block(t)'
      BY <3>0, <3>4 DEF Block
    <3>6. \A g \in live \cup {t} : g # h => Block(g)' # Block(h)'
      BY <2>0, <3>3, ArenaFacts, HeapAssumption DEF Block
    <3>7. Blocks' = {Block(g)' : g \in live \cup {t}} \ {Block(h)'}
      BY <3>1, <3>6 DEF Blocks
    <3>8. Blocks' = (Blocks \cup {new}) \ {Block(h)} /\ new \in Blocks'
      BY <3>2, <3>3, <3>5, <3>6, <3>7
    <3>9. \A b \in Blocks : BA!Extent(b) \cap BA!Extent(new) = {}
      BY <3>0, <3>1, TopIsFresh DEF Blocks
    <3>10. Block(h) \in Blocks /\ Block(h).size = msize[h] /\ new.size = n
      BY <3>0, <3>1 DEF Blocks, Block
    <3>11. BA!Resize(Block(h), n)
      BY <2>0, <3>1, <3>2, <3>8, <3>9, <3>10 DEF BA!Resize, BA!Fresh
    <3>12. QED
      BY <2>0, <3>10, <3>11 DEF BA!Next
  <2>7. ASSUME NEW h \in Freeable, NEW n \in Sizes, KReallocFails(h, n)
        PROVE  BA!Next
    <3>1. Unlink(h) /\ ret' = 0 /\ bytes_allocated + n > HeapBytes
      BY <2>7 DEF KReallocFails, NULL
    <3>2. PICK b \in Blocks : b = Block(h)
      BY <2>4, <3>1
    <3>3. BA!ResizeFails(b, n)
      BY <2>0, <2>4, <3>1, <3>2 DEF BA!ResizeFails
    <3>4. QED
      BY <2>0, <3>3 DEF BA!Next
  <2>8. CASE UNCHANGED vars
    BY <2>8 DEF vars, BA!vars
  <2>9. QED
    BY <2>1, <2>2, <2>3, <2>5, <2>6, <2>7, <2>8 DEF Next
<1>3. QED
  BY <1>1, <1>2, IInvariant, PTL DEF Spec, Allocates, BA!Spec
=============================================================================
