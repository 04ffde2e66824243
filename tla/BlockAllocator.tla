--------------------------- MODULE BlockAllocator ---------------------------
(***************************************************************************)
(* What callers of kmalloc, kfree and krealloc rely on: blocks that do not *)
(* overlap, and a limit on the bytes in live blocks.  A request fails only *)
(* when it would pass the limit; a failed resize still gives up the old    *)
(* block.                                                                  *)
(***************************************************************************)
EXTENDS Integers

CONSTANTS
  Sizes,      \* the block sizes callers ask for
  Limit       \* the most payload bytes that may be live at a time

VARIABLES
  blocks,     \* the live blocks [addr, size]
  used,       \* their total size
  answer      \* what the last request returned: an address, or 0

vars == <<blocks, used, answer>>

Extent(b) == b.addr .. b.addr + b.size - 1

(* new is a block of n bytes, clear of every live one.                     *)
Fresh(new, n) ==
  /\ new.addr > 0 /\ new.size = n
  /\ \A b \in blocks : Extent(b) \cap Extent(new) = {}

Init == blocks = {} /\ used = 0 /\ answer = 0

Alloc(n) ==
  /\ used + n <= Limit
  /\ \E new \in blocks' :
       /\ Fresh(new, n)
       /\ blocks' = blocks \cup {new}
       /\ answer' = new.addr
  /\ used' = used + n

Fail(n) ==
  /\ used + n > Limit
  /\ answer' = 0
  /\ UNCHANGED <<blocks, used>>

Free(b) ==
  /\ blocks' = blocks \ {b}
  /\ used' = used - b.size
  /\ UNCHANGED answer

Resize(b, n) ==
  /\ used + n <= Limit
  /\ \E new \in blocks' :
       /\ Fresh(new, n)
       /\ blocks' = (blocks \cup {new}) \ {b}
       /\ answer' = new.addr
  /\ used' = used + n - b.size

ResizeFails(b, n) ==
  /\ used + n > Limit
  /\ blocks' = blocks \ {b}
  /\ used' = used - b.size
  /\ answer' = 0

Next ==
  \/ \E n \in Sizes : Alloc(n) \/ Fail(n)
  \/ \E b \in blocks : Free(b)
  \/ \E b \in blocks, n \in Sizes : Resize(b, n) \/ ResizeFails(b, n)

Spec == Init /\ [][Next]_vars
=============================================================================
