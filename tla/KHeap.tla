------------------------------- MODULE KHeap -------------------------------
(***************************************************************************)
(* The kernel heap, mm/heap.c: a bump allocator whose blocks carry a       *)
(* header {magic, msize_bytes, next, prev}.  kmalloc writes a header at    *)
(* free_ptr and moves free_ptr past the block; kfree unlinks a block's     *)
(* header from its neighbours and lowers bytes_allocated.  free_ptr never  *)
(* moves back.  Addresses count bytes from the start of memory; 0 is NULL. *)
(***************************************************************************)
EXTENDS Integers, FiniteSetsExt

CONSTANTS
  HeapBase,     \* what k_mmap returns to heap_init
  HeapBytes,    \* HEAP_SIZE_PAGES*PAGE_SIZE
  HeaderSize,   \* sizeof(heap_header_t)
  Sizes         \* the block sizes callers ask for

ASSUME HeapAssumption ==
  /\ HeapBase \in Nat \ {0}
  /\ HeaderSize \in Nat \ {0}
  /\ HeapBytes \in Nat /\ HeapBytes >= HeaderSize
ASSUME SizesAssumption == Sizes \subseteq Nat \ {0}

NULL == 0
Garbage == -1                   \* a word of the arena nobody has written yet

Arena == HeapBase .. HeapBase + HeapBytes - 1
HeaderFits(a) == a + HeaderSize <= HeapBase + HeapBytes

VARIABLES
  heap_start,        \* NULL until the first kmalloc
  free_ptr,          \* where the next header goes
  bytes_allocated,   \* payload bytes in live blocks
  msize, next, prev, \* the header fields, by header address
  live,              \* headers of the blocks callers hold
  ret,               \* what the last kmalloc or krealloc returned
  wild               \* a header has been written outside the arena

vars == <<heap_start, free_ptr, bytes_allocated, msize, next, prev, live, ret, wild>>

Init ==
  /\ heap_start = NULL
  /\ free_ptr = NULL
  /\ bytes_allocated = 0
  /\ msize = [a \in Arena |-> 0]
  /\ next = [a \in Arena |-> Garbage]
  /\ prev = [a \in Arena |-> Garbage]
  /\ live = {}
  /\ ret = NULL
  /\ wild = FALSE

(* heap_init runs inside the first kmalloc.                                *)
Top == IF heap_start = NULL THEN HeapBase ELSE free_ptr

(* Mutant of Beyond: kmalloc forgets the header.                           *)
BeyondNoHeader(n) == Top + n

Beyond(n) == Top + HeaderSize + n

KMalloc(n) ==
  /\ ~wild
  /\ bytes_allocated + n <= HeapBytes
  /\ HeaderFits(Beyond(n))
  /\ heap_start' = HeapBase
  /\ msize' = [msize EXCEPT ![Top] = n]
  /\ next' = [next EXCEPT ![Top] = Beyond(n)]
  /\ prev' = [prev EXCEPT ![Beyond(n)] = Top]
  /\ free_ptr' = Beyond(n)
  /\ bytes_allocated' = bytes_allocated + n
  /\ live' = live \cup {Top}
  /\ ret' = Beyond(n) - n
  /\ UNCHANGED wild

(* The limit counts payload bytes still live, not the space free_ptr has   *)
(* consumed: kmalloc can pass the check and write its block's header, or   *)
(* the next one, past the arena.  What memory holds after that is not      *)
(* modelled, so wild is a state without successors.                        *)
KMallocWild(n) ==
  /\ ~wild
  /\ bytes_allocated + n <= HeapBytes
  /\ ~HeaderFits(Beyond(n))
  /\ wild' = TRUE
  /\ UNCHANGED <<heap_start, free_ptr, bytes_allocated, msize, next, prev, live, ret>>

(* Mutants of KMallocFails: free_ptr is moved before the check; the check  *)
(* refuses a request that exactly reaches the limit.                       *)
KMallocFailsMoved(n) ==
  /\ ~wild
  /\ bytes_allocated + n > HeapBytes
  /\ heap_start' = HeapBase
  /\ free_ptr' = Beyond(n)
  /\ ret' = NULL
  /\ UNCHANGED <<bytes_allocated, msize, next, prev, live, wild>>

KMallocFailsEarly(n) ==
  /\ ~wild
  /\ bytes_allocated + n >= HeapBytes
  /\ heap_start' = HeapBase
  /\ free_ptr' = Top
  /\ ret' = NULL
  /\ UNCHANGED <<bytes_allocated, msize, next, prev, live, wild>>

KMallocFails(n) ==
  /\ ~wild
  /\ bytes_allocated + n > HeapBytes
  /\ heap_start' = HeapBase
  /\ free_ptr' = Top
  /\ ret' = NULL
  /\ UNCHANGED <<bytes_allocated, msize, next, prev, live, wild>>

(* The blocks the kernel ever frees: any but the first, the node vfs_init  *)
(* makes for "/" before anything else allocates.  Nothing writes that      *)
(* block's prev.                                                           *)
Freeable == live \ {HeapBase}

(* Mutants of Unlink: hdr->next->prev is not updated; the bytes are not    *)
(* given back.                                                             *)
UnlinkForward(h) ==
  /\ ~wild
  /\ next' = [next EXCEPT ![prev[h]] = next[h]]
  /\ bytes_allocated' = bytes_allocated - msize[h]
  /\ live' = live \ {h}
  /\ UNCHANGED <<heap_start, free_ptr, msize, prev, wild>>

UnlinkKeepsBytes(h) ==
  /\ ~wild
  /\ next' = [next EXCEPT ![prev[h]] = next[h]]
  /\ prev' = [prev EXCEPT ![next[h]] = prev[h]]
  /\ live' = live \ {h}
  /\ UNCHANGED <<heap_start, free_ptr, bytes_allocated, msize, wild>>

(* kfree(ptr) takes the block's header out of the list.                    *)
Unlink(h) ==
  /\ ~wild
  /\ next' = [next EXCEPT ![prev[h]] = next[h]]
  /\ prev' = [prev EXCEPT ![next[h]] = prev[h]]
  /\ bytes_allocated' = bytes_allocated - msize[h]
  /\ live' = live \ {h}
  /\ UNCHANGED <<heap_start, free_ptr, msize, wild>>

KFree(h) == Unlink(h) /\ UNCHANGED ret

(* krealloc: kmalloc the new block, copy, kfree the old one.               *)
KRealloc(h, n) ==
  /\ ~wild
  /\ bytes_allocated + n <= HeapBytes
  /\ HeaderFits(Beyond(n))
  /\ msize' = [msize EXCEPT ![Top] = n]
  /\ next' = [next EXCEPT ![Top] = Beyond(n), ![prev[h]] = next[h]]
  /\ prev' = [prev EXCEPT ![Beyond(n)] = Top, ![next[h]] = prev[h]]
  /\ free_ptr' = Beyond(n)
  /\ bytes_allocated' = bytes_allocated + n - msize[h]
  /\ live' = (live \cup {Top}) \ {h}
  /\ ret' = Beyond(n) - n
  /\ UNCHANGED <<heap_start, wild>>

(* When kmalloc returns NULL krealloc does not look: the old block is      *)
(* freed all the same.                                                     *)
KReallocFails(h, n) ==
  /\ bytes_allocated + n > HeapBytes
  /\ Unlink(h)
  /\ ret' = NULL

Next ==
  \/ \E n \in Sizes : KMalloc(n) \/ KMallocWild(n) \/ KMallocFails(n)
  \/ \E h \in Freeable : KFree(h)
  \/ \E h \in Freeable, n \in Sizes : KRealloc(h, n) \/ KReallocFails(h, n)

Spec == Init /\ [][Next]_vars
-----------------------------------------------------------------------------
TypeOK ==
  /\ heap_start \in {NULL, HeapBase}
  /\ free_ptr \in Arena \cup {NULL}
  /\ bytes_allocated \in Int
  /\ msize \in [Arena -> Nat]
  /\ next \in [Arena -> Arena \cup {Garbage}]
  /\ prev \in [Arena -> Arena \cup {Garbage}]
  /\ live \in SUBSET Arena
  /\ ret \in Arena \cup {NULL}
  /\ wild \in BOOLEAN

(* The whole of a block, header and payload.                               *)
End(h) == h + HeaderSize + msize[h]

(* No block a caller holds overlaps another one, or the place the next     *)
(* header will be written, whatever was freed and resized in between.      *)
BlocksDisjoint ==
  \A g \in live :
    /\ End(g) <= free_ptr
    /\ \A h \in live : g < h => End(g) <= h

(* The headers form one doubly linked list of exactly the live blocks, in  *)
(* address order, ending at free_ptr: a kfree in any order unlinks the     *)
(* block it was given and touches no other, although kmalloc never writes  *)
(* the prev of the block it returns.                                       *)
ListThreadsLive ==
  \A h \in live :
    /\ next[h] \in live \cup {free_ptr}
    /\ next[h] > h
    /\ \A g \in live : ~(h < g /\ g < next[h])
    /\ prev[next[h]] = h

(* bytes_allocated is the total of the live blocks, so the limit kmalloc   *)
(* checks is a limit on what callers hold.                                 *)
Accounting ==
  bytes_allocated = MapThenSumSet(LAMBDA h : msize[h], live)

(* The heap is HEAP_SIZE_PAGES pages: no header is written outside them.   *)
InArena == ~wild

BA == INSTANCE BlockAllocator
        WITH Limit <- HeapBytes,
             blocks <- {[addr |-> h + HeaderSize, size |-> msize[h]] : h \in live},
             used <- bytes_allocated, answer <- ret

(* heap.c implements the abstract allocator.                               *)
Allocates == BA!Spec
=============================================================================
