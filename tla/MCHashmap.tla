----------------------------- MODULE MCHashmap -----------------------------
(***************************************************************************)
(* Hash functions for Hashmap over four keys, with chains of two slots:    *)
(* three keys on one chain for ever, and                                   *)
(* chains that overlap and wrap around the end of the table, such that a   *)
(* rehash meets a full chain in the new table and rehashes that one too.   *)
(***************************************************************************)
EXTENDS Hashmap

CONSTANTS a, b, c, d

Hashed(w, x, y, z) ==
  [k \in {a, b, c, d} |-> CASE k = a -> w [] k = b -> x [] k = c -> y [] k = d -> z]

SomeHashes == {Hashed(3, 3, 3, 0), Hashed(6, 7, 6, 2)}
(* Callbacks that keep everything, empty the map, remove behind and before *)
(* a stop, and stop at once.                                               *)
SomeCallbacks ==
  {[drop |-> {}, stop |-> {}], [drop |-> {a, b, c, d}, stop |-> {}],
   [drop |-> {a, c}, stop |-> {b}], [drop |-> {}, stop |-> {a, b, c, d}]}
=============================================================================
