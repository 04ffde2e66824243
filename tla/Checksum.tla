------------------------------ MODULE Checksum ------------------------------
(***************************************************************************)
(* internet_checksum of net/checksum.c, one round of a loop at a time.  A  *)
(* message is its 16-bit words in network order, which is what convert     *)
(* makes of them; an odd last byte is never added.                         *)
(***************************************************************************)
EXTENDS Integers, Sequences, FiniteSetsExt

VARIABLES
  words,      \* the words still to add
  checksum,   \* the accumulator, 32 bits wide
  total       \* history: the sum of the words added

sumVars == <<words, checksum, total>>

Bit(n, i) == (n \div 2^i) % 2
BitOr(m, n) ==
  MapThenSumSet(LAMBDA i : IF Bit(m, i) + Bit(n, i) > 0 THEN 2^i ELSE 0, 0 .. 15)

Low(n) == n % 65536
High(n) == n \div 65536

(* Mutant of Folded: the carry is dropped.                                 *)
FoldedDrop(n) == Low(n)

(* With bit 31 set the halves are or-ed, not added.  What is left is below *)
(* 2^31, so the next word cannot overflow the accumulator.                 *)
Keep(n) == IF High(n) >= 32768 THEN BitOr(Low(n), High(n)) ELSE n

Folded(n) == Low(n) + High(n)

AddWord ==
  /\ words # <<>>
  /\ checksum' = Keep(checksum + Head(words))
  /\ total' = total + Head(words)
  /\ words' = Tail(words)

Fold ==
  /\ words = <<>> /\ High(checksum) # 0
  /\ checksum' = Folded(checksum)
  /\ UNCHANGED <<words, total>>

Summed == words = <<>> /\ High(checksum) = 0

(* The value returned, once Summed.                                        *)
Result == 65535 - checksum
=============================================================================
