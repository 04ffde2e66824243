-------------------------------- MODULE Pmm --------------------------------
(***************************************************************************)
(* The physical memory manager, mm/pmm.c: a bitmap with one bit per page   *)
(* frame, kept in the first usable memory-map entry that has room for it.  *)
(* A set bit is a frame in use.  Addresses are counted in page frames: the *)
(* boot protocol aligns every usable entry to pages and pmm.c only ever    *)
(* divides addresses by 0x1000.                                            *)
(***************************************************************************)
EXTENDS Integers, Sequences

CONSTANTS
  PageSize,   \* bytes in a page (0x1000 in the code)
  MemMaps,    \* the memory maps the boot loader may report
  Requests,   \* the frame counts callers pass to pmm_alloc
  Callers     \* the pointers callers keep what pmm_alloc returns in

Entry == [base : Nat, length : Nat, usable : BOOLEAN]

Usable(m) == {i \in DOMAIN m : m[i].usable}

FramesOf(e) == e.base .. e.base + e.length - 1

(* get_bitmap_size, in pages: one bit per frame below the end of the       *)
(* highest usable entry, whole bytes rounded DOWN and then pages up.       *)
HighestChunk(m) ==
  CHOOSE i \in Usable(m) : \A j \in Usable(m) : m[j].base <= m[i].base

TopFrame(m) == m[HighestChunk(m)].base + m[HighestChunk(m)].length

(* Mutant of BitmapPages: the last, partial page of the bitmap is dropped. *)
BitmapPagesDown(m) == (TopFrame(m) \div 8) \div PageSize

BitmapPages(m) == ((TopFrame(m) \div 8) + PageSize - 1) \div PageSize

ScanBits(m) == BitmapPages(m) * PageSize * 8

(* Entries both loops of init_bitmap accept: usable, and no smaller than   *)
(* the bitmap.                                                             *)
BigEnough(m, pages) == {i \in Usable(m) : m[i].length >= pages}

BitmapHost(m, pages) ==
  CHOOSE i \in BigEnough(m, pages) : \A j \in BigEnough(m, pages) : i <= j

(* Mutant of Carve: the entry's length shrinks but its base stays.         *)
CarveLength(m, pages) ==
  [m EXCEPT ![BitmapHost(m, pages)] =
     [base |-> @.base, length |-> @.length - pages, usable |-> TRUE]]

Carve(m, pages) ==
  [m EXCEPT ![BitmapHost(m, pages)] =
     [base |-> @.base + pages, length |-> @.length - pages, usable |-> TRUE]]

Released(m, pages) == UNION {FramesOf(m[i]) : i \in BigEnough(m, pages)}

(***************************************************************************)
(* What the boot protocol promises of a map: sorted entries that do not    *)
(* overlap, adjacent usable ranges merged, the first page never usable.    *)
(* That some usable entry has room for the bitmap (1/32768 of memory) is   *)
(* the one thing the code does not check.                                  *)
(***************************************************************************)
MapOK(m) ==
  /\ m \in Seq(Entry)
  /\ \A i, j \in DOMAIN m : i < j => m[i].base + m[i].length <= m[j].base
  /\ \A i, j \in Usable(m) : i < j => m[i].base + m[i].length < m[j].base
  /\ \A i \in Usable(m) : m[i].base > 0 /\ m[i].length > 0
  /\ BigEnough(m, BitmapPages(m)) # {}

ASSUME PageSizeAssumption == PageSize \in Nat \ {0}
ASSUME MemMapsAssumption == \A m \in MemMaps : MapOK(m)
ASSUME RequestsAssumption == Requests \subseteq Nat \ {0}

-----------------------------------------------------------------------------
VARIABLES
  up,       \* pmm_init has run
  memmap,   \* mmap_resp->entries
  bitmap,   \* [base, pages] of the memory the bitmap occupies
  unset,    \* the bits that are 0; those at or above ScanBits lie outside it
  grants,   \* runs [by, frame, frames] callers believe they own
  ret       \* the last value pmm_alloc returned, as a frame number

vars == <<up, memmap, bitmap, unset, grants, ret>>

Init ==
  /\ up = FALSE
  /\ memmap \in MemMaps
  /\ bitmap = [base |-> 0, pages |-> 0]
  /\ unset = {}
  /\ grants = {}
  /\ ret = 0

(* pmm_init: place the bitmap, mark everything used (memset 0xFF), cut its *)
(* memory out of the entry, then clear the bits of the usable entries.     *)
PmmInit ==
  /\ ~up
  /\ LET pages == BitmapPages(memmap)
     IN  /\ bitmap' = [base |-> memmap[BitmapHost(memmap, pages)].base,
                       pages |-> pages]
         /\ memmap' = Carve(memmap, pages)
         /\ unset' = Released(memmap', pages)
  /\ up' = TRUE
  /\ UNCHANGED <<grants, ret>>

(* Mutant of Candidates: the scan stops one byte early.                    *)
CandidatesByteShort == {bit \in unset : bit < ScanBits(memmap) - 8}

Candidates == {bit \in unset : bit < ScanBits(memmap)}

(* Mutant of PmmAlloc: bitmap_set_bit is forgotten.                        *)
PmmAllocNoSet(c, n) ==
  /\ up
  /\ \A g \in grants : g.by # c
  /\ \E bit \in Candidates :
       /\ \A b \in Candidates : bit <= b
       /\ grants' = grants \cup {[by |-> c, frame |-> bit, frames |-> n]}
       /\ ret' = bit
  /\ UNCHANGED <<up, memmap, bitmap, unset>>

(* c = pmm_alloc(n): the first clear bit is set and its frame returned.    *)
(* Later rounds of the loop find mem # 0 and allocate nothing more, so one *)
(* frame is taken whatever n is.                                           *)
PmmAlloc(c, n) ==
  /\ up
  /\ \A g \in grants : g.by # c
  /\ \E bit \in Candidates :
       /\ \A b \in Candidates : bit <= b
       /\ unset' = unset \ {bit}
       /\ grants' = grants \cup {[by |-> c, frame |-> bit, frames |-> n]}
       /\ ret' = bit
  /\ UNCHANGED <<up, memmap, bitmap>>

(* Mutant of PmmAllocFails: failure is reported as an errno.               *)
PmmAllocFailsErrno ==
  /\ up
  /\ Candidates = {}
  /\ ret' = -1
  /\ UNCHANGED <<up, memmap, bitmap, unset, grants>>

PmmAllocFails ==
  /\ up
  /\ Candidates = {}
  /\ ret' = 0
  /\ UNCHANGED <<up, memmap, bitmap, unset, grants>>

GrantFrames(g) == g.frame .. g.frame + g.frames - 1

(* Mutant of PmmFree: the loop runs once too often.                        *)
PmmFreeOneMore(g) ==
  /\ up
  /\ unset' = unset \cup (g.frame .. g.frame + g.frames)
  /\ grants' = grants \ {g}
  /\ UNCHANGED <<up, memmap, bitmap, ret>>

(* pmm_free(ptr, frames): a caller gives back a run it was granted.        *)
PmmFree(g) ==
  /\ up
  /\ unset' = unset \cup GrantFrames(g)
  /\ grants' = grants \ {g}
  /\ UNCHANGED <<up, memmap, bitmap, ret>>

Next ==
  \/ PmmInit
  \/ \E c \in Callers, n \in Requests : PmmAlloc(c, n)
  \/ PmmAllocFails
  \/ \E g \in grants : PmmFree(g)

Spec == Init /\ [][Next]_vars
-----------------------------------------------------------------------------
Held == UNION {GrantFrames(g) : g \in grants}

Pool == IF up THEN Released(memmap, bitmap.pages)
              ELSE Released(Carve(memmap, BitmapPages(memmap)), BitmapPages(memmap))

TypeOK ==
  /\ up \in BOOLEAN
  /\ memmap \in Seq(Entry)
  /\ bitmap \in [base : Nat, pages : Nat]
  /\ unset \subseteq Nat
  /\ grants \subseteq [by : Callers, frame : Nat, frames : Requests]
  /\ ret \in Nat

(* The bitmap itself is never free and never handed out: init_bitmap cuts  *)
(* its memory out of the entry before clearing bits, and frees cannot      *)
(* bring it back.                                                          *)
BitmapReserved ==
  up => (bitmap.base .. bitmap.base + bitmap.pages - 1) \cap (unset \cup Held) = {}

(* None of the bits pmm_init clears is lost and none is invented: the      *)
(* frames of the usable entries are exactly those marked free and those    *)
(* held, and none is both.                                                 *)
PoolConserved ==
  up => /\ unset \cup Held = Pool
        /\ unset \cap Held = {}

(* Two callers of pmm_alloc never own the same frame.                      *)
GrantsDisjoint ==
  \A g, h \in grants : g # h => GrantFrames(g) \cap GrantFrames(h) = {}

(* get_bitmap_size is recomputed from the entries on every round of the    *)
(* scan, after init_bitmap has changed one of them: it must still be the   *)
(* size the bitmap was given.                                              *)
ScanStable == up => BitmapPages(memmap) = bitmap.pages

(* get_bitmap_size divides by eight before it aligns, so the bits of the   *)
(* topmost frames may lie past the bitmap (pmm.c:72).  At most seven do,   *)
(* all in the byte behind its end; every frame below them has its bit, and *)
(* no sequence of allocations and frees ever hands one of the lost frames  *)
(* out.                                                                    *)
OnlyTopLost ==
  up => LET bits == bitmap.pages * PageSize * 8
        IN  /\ \A bit \in unset : bit < bits + 7
            /\ \A bit \in Held : bit < bits

(* pmm.c implements the abstract allocator over the frames that have a bit *)
(* in the bitmap: a frame is granted only when free, and a request is      *)
(* refused only when nothing is free.                                      *)
FA == INSTANCE FrameAllocator
        WITH free <- IF up THEN Candidates
                           ELSE {f \in Pool : f < ScanBits(memmap)},
             held <- grants, answer <- ret

Allocates == FA!Spec
=============================================================================
