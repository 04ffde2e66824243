------------------------------- MODULE MCAhci -------------------------------
(***************************************************************************)
(* Small instances of Ahci: two ports, a disk of three sectors and a       *)
(* memory of four.                                                         *)
(***************************************************************************)
EXTENDS Ahci

(* A read and writes that overlap it on the disk and in memory.            *)
Overlapping ==
  {[op |-> "read", lba |-> 0, buf |-> 1, n |-> 2],
   [op |-> "write", lba |-> 1, buf |-> 0, n |-> 2],
   [op |-> "write", lba |-> 0, buf |-> 2, n |-> 1]}

=============================================================================
