------------------------------ MODULE MCKHeap ------------------------------
(***************************************************************************)
(* A small heap for KHeap: two-word headers, room for five or six small    *)
(* blocks, and one block size that fits only while little else is live, so *)
(* that both a refusal and an overrun of the arena are within reach.       *)
(***************************************************************************)
EXTENDS KHeap

SmallSizes == {1, 2, 19}
=============================================================================
