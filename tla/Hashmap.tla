------------------------------ MODULE Hashmap ------------------------------
(***************************************************************************)
(* The open-addressing hash map of include/lib/hashmap.h that keeps the    *)
(* children of every VFS node.  A key lives within Chain slots of the one  *)
(* its hash names; a put that finds no slot there doubles the table and    *)
(* moves every entry, and the put into the new table may double that one.  *)
(*                                                                         *)
(* m is the stack of tables of those nested calls: m[1] is the caller's    *)
(* map, m[n + 1] the new_hash that hashmap_rehash_helper fills from m[n].  *)
(* rehash_iterator clears what it has moved, so the entry it is moving is  *)
(* always the first one left in m[n].                                      *)
(***************************************************************************)
EXTENDS Integers, Sequences, FiniteSets

CONSTANTS
  Keys, Values,
  Hashes,       \* what hashmap_crc32_helper and the mixing after it may give
  Chain,        \* HASHMAP_MAX_CHAIN_LENGTH
  InitialSizes, \* the sizes callers ask hashmap_create for
  Callbacks,    \* what the callbacks of the iterators do, [drop, stop]
  MaxTable,     \* the largest table kcalloc has memory for
  Hole,         \* an element whose in_use is 0
  NoCall, Null, Done, Failed

Entry == [key : Keys, data : Values]

ASSUME HashesAssumption == Hashes \subseteq [Keys -> Nat]
ASSUME SizesAssumption ==
  /\ Chain \in Nat \ {0}
  /\ InitialSizes \subseteq Nat
  /\ MaxTable \in Nat
ASSUME CallbacksAssumption ==
  Callbacks \subseteq [drop : SUBSET Keys, stop : SUBSET Keys]
ASSUME HoleAssumption == Hole \notin Entry /\ NoCall \notin Entry

VARIABLES
  hash,  \* the key's hash before it is reduced modulo the table size
  m,     \* the stack of tables, each [table_size, size, data]
  call,  \* the entry hashmap_put was called with, until it returns
  ret    \* the key the last call was about, or Null, and what it returned

vars == <<hash, m, call, ret>>

Zeroed == [table_size |-> 0, size |-> 0, data |-> [i \in {} |-> Hole]]

Fresh(n) == [table_size |-> n, size |-> 0, data |-> [i \in 0 .. n - 1 |-> Hole]]

Init == hash \in Hashes /\ m = <<Zeroed>> /\ call = NoCall /\ ret = <<Null, Done>>

-----------------------------------------------------------------------------
(* The slot that step i of linear probing looks at.                        *)
Probe(t, k, i) == (hash[k] + i) % t.table_size

(* The steps that meet the key, and those that meet a free slot.           *)
Matches(t, k) ==
  {i \in 0 .. Chain - 1 : /\ t.data[Probe(t, k, i)] # Hole
                          /\ t.data[Probe(t, k, i)].key = k}

Holes(t, k) == {i \in 0 .. Chain - 1 : t.data[Probe(t, k, i)] = Hole}

First(S) == CHOOSE i \in S : \A j \in S : i <= j

At(t, k) == Probe(t, k, First(Matches(t, k)))

InUse(t) == {i \in DOMAIN t.data : t.data[i] # Hole}

(* Mutant of Accepted: one probe, which stops at the first free slot.      *)
AcceptedOneProbe(t, k) == Matches(t, k) \cup Holes(t, k)

(* The steps hashmap_hash_helper may stop at: the key's own slot if it has *)
(* one, else the free slots of its chain.  It answers 0 when there is none *)
(* and, for a full table, even when there is.                              *)
Accepted(t, k) ==
  {i \in Matches(t, k) \cup Holes(t, k) :
     Matches(t, k) # {} => i \in Matches(t, k)}

Accepts(t, k) == t.size < t.table_size /\ Accepted(t, k) # {}

(* The end of hashmap_put, once an index is found.                         *)
Filled(t, e) ==
  LET i == Probe(t, e.key, First(Accepted(t, e.key)))
  IN  [t EXCEPT !.data[i] = e, !.size = IF t.data[i] = Hole THEN @ + 1 ELSE @]

(* An element blanked with memset, and the size that goes with it.         *)
Blanked(t, i) == [t EXCEPT !.data[i] = Hole, !.size = @ - 1]

-----------------------------------------------------------------------------
PowerOfTwo(n) == \E e \in 0 .. n : n = 2 ^ e

(* The caller's map has no table: never created, refused or destroyed.     *)
Dead == m[1].data = Zeroed.data

Idle == call = NoCall

HashmapCreate(n) ==
  /\ Dead /\ Idle
  /\ PowerOfTwo(n) /\ n <= MaxTable
  /\ m' = <<Fresh(n)>>
  /\ ret' = <<Null, Done>>
  /\ UNCHANGED <<hash, call>>

(* Refused for its size or by kcalloc: the fields are set all the same.    *)
HashmapCreateFails(n) ==
  /\ Dead /\ Idle
  /\ m' = <<[Zeroed EXCEPT !.table_size = n]>>
  /\ ret' = <<Null, Failed>>
  /\ UNCHANGED <<hash, call>>

(* Without a table hashmap_put is safe only on a map that was zeroed.      *)
HashmapPut(k, v) ==
  /\ Idle
  /\ Dead => m[1] = Zeroed
  /\ call' = [key |-> k, data |-> v]
  /\ UNCHANGED <<hash, m, ret>>

Top == m[Len(m)]
Below == m[Len(m) - 1]

(* hashmap_put is at work on the top table, with the caller's entry or     *)
(* with the one that is being moved.                                       *)
Placing == IF Len(m) = 1 THEN call # NoCall ELSE InUse(Below) # {}

Pending == IF Len(m) = 1 THEN call ELSE Below.data[First(InUse(Below))]

(* hashmap_put returns 0 to its caller.                                    *)
PutReturns ==
  /\ Len(m) = 1 /\ Placing
  /\ Accepts(Top, Pending.key)
  /\ m' = <<Filled(Top, Pending)>>
  /\ call' = NoCall
  /\ ret' = <<call.key, Done>>
  /\ UNCHANGED hash

(* hashmap_rehash_iterator: put into the new table, then iterate_pairs     *)
(* blanks the element in the old one.                                      *)
Move ==
  /\ Len(m) > 1 /\ Placing
  /\ Accepts(Top, Pending.key)
  /\ m' = [m EXCEPT ![Len(m)] = Filled(Top, Pending),
                    ![Len(m) - 1] = Blanked(Below, First(InUse(Below)))]
  /\ UNCHANGED <<hash, call, ret>>

(* Mutant of Grow: the new table is as small as the old one.               *)
GrowSameSize ==
  /\ Placing
  /\ ~Accepts(Top, Pending.key)
  /\ Top.table_size > 0
  /\ m' = Append(m, Fresh(Top.table_size))
  /\ UNCHANGED <<hash, call, ret>>

(* hashmap_rehash_helper gets its new table.                               *)
Grow ==
  /\ Placing
  /\ ~Accepts(Top, Pending.key)
  /\ Top.table_size > 0 /\ 2 * Top.table_size <= MaxTable
  /\ m' = Append(m, Fresh(2 * Top.table_size))
  /\ UNCHANGED <<hash, call, ret>>

(* Mutant of GrowFails: the map keeps the tables of the nested puts.       *)
GrowFailsKeepsTables ==
  /\ Placing
  /\ ~Accepts(Top, Pending.key)
  /\ call' = NoCall
  /\ ret' = <<call.key, Failed>>
  /\ UNCHANGED <<hash, m>>

(* It does not: every put on the stack returns 1, the new tables are left  *)
(* allocated with whatever had moved into them, and the map keeps the rest.*)
GrowFails ==
  /\ Placing
  /\ ~Accepts(Top, Pending.key)
  /\ m' = <<m[1]>>
  /\ call' = NoCall
  /\ ret' = <<call.key, Failed>>
  /\ UNCHANGED hash

(* Everything has moved: destroy the old table, memcpy the new one over it.*)
Adopt ==
  /\ Len(m) > 1 /\ ~Placing
  /\ m' = Append(SubSeq(m, 1, Len(m) - 2), Top)
  /\ UNCHANGED <<hash, call, ret>>

(* Mutant of HashmapGet: probing ends at the first free slot.              *)
HashmapGetStops(k) ==
  /\ Idle /\ ~Dead
  /\ ret' = LET reach == {i \in Matches(m[1], k) : \A j \in Holes(m[1], k) : i < j}
            IN  <<k, IF reach = {} THEN Null ELSE m[1].data[At(m[1], k)].data>>
  /\ UNCHANGED <<hash, m, call>>

HashmapGet(k) ==
  /\ Idle /\ ~Dead
  /\ ret' = <<k, IF Matches(m[1], k) = {} THEN Null ELSE m[1].data[At(m[1], k)].data>>
  /\ UNCHANGED <<hash, m, call>>

(* hashmap_remove answers 0, hashmap_remove_and_return_key the stored key. *)
HashmapRemove(k) ==
  /\ Idle /\ ~Dead
  /\ Matches(m[1], k) # {}
  /\ m' = <<Blanked(m[1], At(m[1], k))>>
  /\ ret' \in {k} \X {Done, k}
  /\ UNCHANGED <<hash, call>>

HashmapRemoveFails(k) ==
  /\ Idle /\ ~Dead
  /\ Matches(m[1], k) = {}
  /\ ret' \in {k} \X {Failed, Null}
  /\ UNCHANGED <<hash, m, call>>

(* hashmap_iterate_pairs with a callback that has the keys of drop removed *)
(* and stops the walk at those of stop; hashmap_iterate drops nothing.     *)
HashmapIterate(drop, stop) ==
  /\ Idle /\ ~Dead
  /\ LET t == m[1]
         halts == {i \in InUse(t) : t.data[i].key \in stop}
         gone == {i \in InUse(t) : /\ t.data[i].key \in drop
                                   /\ \A h \in halts : i < h}
     IN  /\ m' = <<[t EXCEPT !.data = [i \in DOMAIN @ |-> IF i \in gone THEN Hole ELSE @[i]],
                             !.size = @ - Cardinality(gone)]>>
         /\ ret' = <<Null, IF halts = {} THEN Done ELSE Failed>>
  /\ UNCHANGED <<hash, call>>

HashmapDestroy ==
  /\ Idle /\ ~Dead
  /\ m' = <<Zeroed>>
  /\ ret' = <<Null, Done>>
  /\ UNCHANGED <<hash, call>>

PutStep == PutReturns \/ Move \/ Grow \/ GrowFails \/ Adopt

Next ==
  \/ \E n \in InitialSizes : HashmapCreate(n) \/ HashmapCreateFails(n)
  \/ \E k \in Keys, v \in Values : HashmapPut(k, v)
  \/ PutStep
  \/ \E k \in Keys : HashmapGet(k) \/ HashmapRemove(k) \/ HashmapRemoveFails(k)
  \/ \E f \in Callbacks : HashmapIterate(f.drop, f.stop)
  \/ HashmapDestroy

Spec == Init /\ [][Next]_vars

(* One thread of control: a put that is under way is all that runs.        *)
FairSpec == Spec /\ WF_vars(PutStep)

-----------------------------------------------------------------------------
Table(t) ==
  /\ t.table_size \in Nat /\ t.size \in Int
  /\ t.data \in [0 .. t.table_size - 1 -> Entry \cup {Hole}]

TypeOK ==
  /\ hash \in Hashes
  /\ m # <<>>
  /\ Len(m) = 1 => Dead \/ Table(m[1])
  /\ Len(m) > 1 => \A n \in DOMAIN m : Table(m[n])
  /\ call \in Entry \cup {NoCall}
  /\ ret \in (Keys \cup {Null}) \X (Values \cup Keys \cup {Null, Done, Failed})
  /\ Len(m) > 1 => call # NoCall

Places == UNION {{n} \X InUse(m[n]) : n \in DOMAIN m}

(* Through every removal, move and failed rehash: no key is stored twice,  *)
(* in one table or in an old and a new one at once; every entry lies on the*)
(* chain of its key in the table that holds it, so a lookup finds it behind*)
(* the holes removals leave; and size, which hash_helper takes for the test*)
(* that a table is full, counts the elements in use.                       *)
TablesSound ==
  /\ \A p, q \in Places :
       m[p[1]].data[p[2]].key = m[q[1]].data[q[2]].key => p = q
  /\ \A p \in Places : \E i \in 0 .. Chain - 1 :
       Probe(m[p[1]], m[p[1]].data[p[2]].key, i) = p[2]
  /\ \A n \in DOMAIN m : m[n].size = Cardinality(InUse(m[n]))

Stored == {m[p[1]].data[p[2]] : p \in Places}

(* The map promises its callers a PartialMap, through every rehash.        *)
Map == INSTANCE PartialMap WITH
  Key <- Keys, Value <- Values, Absent <- Null,
  kv <- [k \in {e.key : e \in Stored} |-> (CHOOSE e \in Stored : e.key = k).data]

Promises == Map!Spec

(* A put returns however often it has to rehash: each round doubles the    *)
(* table, until the allocator refuses.                                     *)
PutEnds == (call # NoCall) ~> (call = NoCall)
=============================================================================
