------------------------------- MODULE MCPmm -------------------------------
(***************************************************************************)
(* Small memory maps for Pmm, with two-byte pages: one bitmap page then    *)
(* covers 16 frames, and a top 1 to 7 frames past a multiple of 16 loses   *)
(* those frames' bits.                                                     *)
(***************************************************************************)
EXTENDS Pmm

Ram(b, n) == [base |-> b, length |-> n, usable |-> TRUE]
Rsv(b, n) == [base |-> b, length |-> n, usable |-> FALSE]

(* A usable entry too small for the two-page bitmap, the host, a hole,     *)
(* another small entry and a top entry that ends on the last bit.          *)
Scattered == <<Rsv(0, 1), Ram(1, 1), Ram(3, 6), Rsv(9, 2), Ram(20, 1), Ram(29, 3)>>

(* What is left of the host is smaller than the bitmap.                    *)
LeftoverSmall == <<Ram(1, 3), Rsv(4, 20), Ram(28, 4)>>

(* One usable entry, host and highest at once; its end is a bitmap-page    *)
(* boundary plus one byte.                                                 *)
Single == <<Rsv(0, 18), Ram(18, 6)>>

(* The entry that hosts the bitmap is used up by it.                       *)
UsedUp == <<Ram(2, 1), Rsv(3, 4), Ram(9, 4)>>

(* The top frame, 16, has no bit.                                          *)
LosesOne == <<Ram(1, 3), Rsv(4, 5), Ram(12, 5)>>

(* The seven top frames have none, and the bitmap uses up its host: the    *)
(* byte those bits fall in is not even the pool's.                         *)
LosesSeven == <<Ram(2, 1), Rsv(3, 9), Ram(12, 11)>>

(* Host and highest entry at once, and half of what is left of it has no   *)
(* bit.                                                                    *)
LosesHalf == <<Rsv(0, 12), Ram(12, 7)>>

SomeMaps ==
  {Scattered, LeftoverSmall, Single, UsedUp, LosesOne, LosesSeven, LosesHalf}
=============================================================================
