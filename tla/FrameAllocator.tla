--------------------------- MODULE FrameAllocator ---------------------------
(***************************************************************************)
(* What the callers of pmm_alloc and pmm_free rely on: a pool of physical  *)
(* page frames, handed out in runs of consecutive free frames and taken    *)
(* back whole.  A request fails (answer 0) only when no run is long        *)
(* enough.                                                                 *)
(***************************************************************************)
EXTENDS Integers

CONSTANTS
  Requests,   \* the run lengths callers ask for
  Callers     \* who asks; each holds at most one run

VARIABLES free,     \* frames nobody holds
          held,     \* runs [by, frame, frames] callers hold
          answer    \* what the last request returned: a frame, or 0

vars == <<free, held, answer>>

Run(f, n) == f .. f + n - 1

Init ==
  /\ free \subseteq Nat \ {0}
  /\ held = {}
  /\ answer = 0

Grant(c, n) ==
  /\ \A g \in held : g.by # c
  /\ \E f \in free :
       /\ Run(f, n) \subseteq free
       /\ free' = free \ Run(f, n)
       /\ held' = held \cup {[by |-> c, frame |-> f, frames |-> n]}
       /\ answer' = f

Refuse(n) ==
  /\ \A f \in free : ~(Run(f, n) \subseteq free)
  /\ answer' = 0
  /\ UNCHANGED <<free, held>>

Release(g) ==
  /\ held' = held \ {g}
  /\ free' = free \cup Run(g.frame, g.frames)
  /\ UNCHANGED answer

Next ==
  \/ \E c \in Callers, n \in Requests : Grant(c, n)
  \/ \E n \in Requests : Refuse(n)
  \/ \E g \in held : Release(g)

Spec == Init /\ [][Next]_vars
=============================================================================
