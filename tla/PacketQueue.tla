----------------------------- MODULE PacketQueue -----------------------------
(***************************************************************************)
(* What the readers of the network card's packet buffer rely on: packets   *)
(* the card accepted reach the buffer one at a time, in the order they     *)
(* came in, none twice and none skipped.  Packets are numbered in the      *)
(* order of their arrival.                                                 *)
(***************************************************************************)
EXTENDS Naturals, Sequences

VARIABLES
  queue,     \* packets accepted and not yet taken
  buffer     \* the last packet taken, 0 at first

vars == <<queue, buffer>>

Newest == IF queue = <<>> THEN buffer ELSE queue[Len(queue)]

Init == queue = <<>> /\ buffer = 0

Accept == queue' = Append(queue, Newest + 1) /\ UNCHANGED buffer

Take ==
  /\ queue # <<>>
  /\ buffer' = Head(queue)
  /\ queue' = Tail(queue)

Next == Accept \/ Take

Spec == Init /\ [][Next]_vars
=============================================================================
