--------------------------- MODULE HashmapProofs ---------------------------
(***************************************************************************)
(* Proofs about Hashmap: the tables stay well-formed and sound through     *)
(* every call and every rehash, for any keys, hashes and chain length.     *)
(***************************************************************************)
EXTENDS Hashmap, FiniteSetTheorems, WellFoundedInduction, TLAPS

(* A table kcalloc gave, and what the fields hold when there is none.      *)
LiveTables ==
  UNION {[table_size : {n}, size : Int, data : [0 .. n - 1 -> Entry \cup {Hole}]] :
           n \in 1 .. MaxTable}

DeadTables == {[table_size |-> n, size |-> 0, data |-> [i \in {} |-> Hole]] : n \in Nat}

(* The three parts of TablesSound for one table, given the hashes.         *)
Distinct(t) == \A i, j \in InUse(t) : t.data[i].key = t.data[j].key => i = j

OnChain(h, t) ==
  \A i \in InUse(t) : \E s \in 0 .. Chain - 1 : (h[t.data[i].key] + s) % t.table_size = i

Sound(h, t) == Distinct(t) /\ OnChain(h, t) /\ t.size = Cardinality(InUse(t))

-----------------------------------------------------------------------------
(* A non-empty set of steps has the first one that First names.            *)
LEMMA FirstIsLeast ==
  ASSUME NEW S \in SUBSET Nat, S # {}
  PROVE  First(S) \in S /\ \A j \in S : First(S) <= j
<1>1. PICK x \in S : \A y \in S : ~(<<y, x>> \in OpToRel(<, Nat))
  BY NatLessThanWellFounded, WFMin
<1>2. \A y \in S : ~(y < x)
  BY <1>1, Zenon DEF OpToRel
<1>3. \A y \in S : x <= y
  BY <1>2
<1>4. QED
  BY <1>3 DEF First

LEMMA ModInRange == ASSUME NEW a \in Nat, NEW n \in Nat \ {0} PROVE a % n \in 0 .. n - 1
OBVIOUS

LEMMA LiveTable ==
  ASSUME NEW t \in LiveTables
  PROVE  /\ t.table_size \in 1 .. MaxTable /\ t.table_size \in Nat \ {0}
         /\ t.size \in Int
         /\ t.data \in [0 .. t.table_size - 1 -> Entry \cup {Hole}]
         /\ t = [table_size |-> t.table_size, size |-> t.size, data |-> t.data]
  BY SizesAssumption DEF LiveTables

LEMMA LiveRecord ==
  ASSUME NEW n \in 1 .. MaxTable, NEW s \in Int,
         NEW d \in [0 .. n - 1 -> Entry \cup {Hole}]
  PROVE  [table_size |-> n, size |-> s, data |-> d] \in LiveTables
  BY DEF LiveTables

LEMMA EntryFields ==
  ASSUME NEW e \in Entry PROVE e.key \in Keys /\ e.data \in Values /\ e # Hole
  BY HoleAssumption DEF Entry

LEMMA InUseFinite ==
  ASSUME NEW t \in LiveTables
  PROVE  /\ IsFiniteSet(InUse(t)) /\ InUse(t) \subseteq 0 .. t.table_size - 1
         /\ \A i \in InUse(t) : t.data[i] \in Entry
<1>1. InUse(t) \subseteq 0 .. t.table_size - 1 /\ \A i \in InUse(t) : t.data[i] \in Entry
  BY LiveTable DEF InUse
<1>2. t.table_size - 1 \in Int
  BY LiveTable
<1>3. IsFiniteSet(0 .. t.table_size - 1)
  BY <1>2, FS_Interval
<1>4. QED
  BY <1>1, <1>3, FS_Subset

(* A probe looks at a slot of the table.                                   *)
LEMMA ProbeInTable ==
  ASSUME NEW t \in LiveTables, NEW k \in Keys, NEW i \in 0 .. Chain - 1, hash \in Hashes
  PROVE  Probe(t, k, i) \in 0 .. t.table_size - 1
<1>1. hash[k] \in Nat
  BY HashesAssumption
<1>2. hash[k] + i \in Nat
  BY <1>1, SizesAssumption
<1>3. QED
  BY <1>2, LiveTable, ModInRange DEF Probe

(* A lookup that meets the key finds its slot, and one that does not meet  *)
(* it knows that the key is nowhere in the table.                          *)
LEMMA AtHoldsKey ==
  ASSUME NEW t \in LiveTables, NEW k \in Keys, hash \in Hashes, Matches(t, k) # {}
  PROVE  At(t, k) \in InUse(t) /\ t.data[At(t, k)].key = k
<1>1. Matches(t, k) \in SUBSET Nat
  BY SizesAssumption DEF Matches
<1>2. First(Matches(t, k)) \in Matches(t, k)
  BY <1>1, FirstIsLeast
<1> DEFINE i == First(Matches(t, k))
<1>3. i \in 0 .. Chain - 1 /\ t.data[Probe(t, k, i)] # Hole /\ t.data[Probe(t, k, i)].key = k
  BY <1>2 DEF Matches
<1>4. Probe(t, k, i) \in 0 .. t.table_size - 1
  BY <1>3, ProbeInTable
<1>5. QED
  BY <1>3, <1>4, LiveTable DEF At, InUse

LEMMA NoMatchNoKey ==
  ASSUME NEW t \in LiveTables, NEW k \in Keys, Sound(hash, t), Matches(t, k) = {}
  PROVE  \A i \in InUse(t) : t.data[i].key # k
<1> SUFFICES ASSUME NEW i \in InUse(t), t.data[i].key = k PROVE FALSE
  OBVIOUS
<1>1. PICK s \in 0 .. Chain - 1 : Probe(t, k, s) = i
  BY DEF Sound, OnChain, Probe
<1>2. s \in Matches(t, k)
  BY <1>1 DEF Matches, InUse
<1>3. QED
  BY <1>2

LEMMA MatchIfKey ==
  ASSUME NEW t \in LiveTables, NEW k \in Keys, Sound(hash, t), hash \in Hashes,
         NEW i \in InUse(t), t.data[i].key = k
  PROVE  Matches(t, k) # {} /\ At(t, k) = i
<1>1. Matches(t, k) # {}
  BY NoMatchNoKey
<1>2. QED
  BY <1>1, AtHoldsKey DEF Sound, Distinct

-----------------------------------------------------------------------------
(* The slot hashmap_put writes: the key's own, or a free one while the key *)
(* is nowhere in the table; either way on the key's chain.                 *)
FillAt(t, k) == Probe(t, k, First(Accepted(t, k)))

LEMMA FillSlot ==
  ASSUME NEW t \in LiveTables, NEW k \in Keys, hash \in Hashes, Sound(hash, t),
         Accepted(t, k) # {}
  PROVE  /\ FillAt(t, k) \in 0 .. t.table_size - 1
         /\ \E s \in 0 .. Chain - 1 : (hash[k] + s) % t.table_size = FillAt(t, k)
         /\ \/ t.data[FillAt(t, k)] = Hole /\ \A j \in InUse(t) : t.data[j].key # k
            \/ FillAt(t, k) \in InUse(t) /\ t.data[FillAt(t, k)].key = k
<1>1. Accepted(t, k) \in SUBSET Nat
  BY SizesAssumption DEF Accepted, Matches, Holes
<1> DEFINE s == First(Accepted(t, k))
<1>2. s \in Accepted(t, k)
  BY <1>1, FirstIsLeast
<1> HIDE DEF s
<1>3. s \in 0 .. Chain - 1
  BY <1>2 DEF Accepted, Matches, Holes
<1>4. FillAt(t, k) = Probe(t, k, s)
  BY DEF FillAt, s
<1>5. FillAt(t, k) \in 0 .. t.table_size - 1
  BY <1>3, <1>4, ProbeInTable
<1>6. (hash[k] + s) % t.table_size = FillAt(t, k)
  BY <1>4 DEF Probe
<1>7. CASE Matches(t, k) = {}
  <2>1. s \in Holes(t, k)
    BY <1>2, <1>7 DEF Accepted
  <2>2. t.data[FillAt(t, k)] = Hole
    BY <1>4, <2>1 DEF Holes
  <2>3. QED
    BY <1>3, <1>5, <1>6, <1>7, <2>2, NoMatchNoKey
<1>8. CASE Matches(t, k) # {}
  <2>1. s \in Matches(t, k)
    BY <1>2, <1>8 DEF Accepted
  <2>2. t.data[FillAt(t, k)] # Hole /\ t.data[FillAt(t, k)].key = k
    BY <1>4, <2>1 DEF Matches
  <2>3. FillAt(t, k) \in InUse(t)
    BY <2>2, <1>5, LiveTable DEF InUse
  <2>4. QED
    BY <1>3, <1>5, <1>6, <2>2, <2>3
<1>9. QED
  BY <1>7, <1>8

LEMMA TableFields ==
  ASSUME NEW n, NEW s, NEW d, NEW u, u = [table_size |-> n, size |-> s, data |-> d]
  PROVE  /\ u.table_size = n /\ u.size = s /\ u.data = d
         /\ u = [table_size |-> u.table_size, size |-> u.size, data |-> u.data]
OBVIOUS

LEMMA FilledIs ==
  ASSUME NEW t \in LiveTables, NEW e
  PROVE  Filled(t, e) =
           [table_size |-> t.table_size,
            size |-> IF t.data[FillAt(t, e.key)] = Hole THEN t.size + 1 ELSE t.size,
            data |-> [t.data EXCEPT ![FillAt(t, e.key)] = e]]
<1> DEFINE i == FillAt(t, e.key)
<1> HIDE DEF i
<1>1. Filled(t, e) =
        [t EXCEPT !.data[i] = e, !.size = IF t.data[i] = Hole THEN @ + 1 ELSE @]
  BY DEF Filled, FillAt, i
<1>2. t = [table_size |-> t.table_size, size |-> t.size, data |-> t.data]
  BY LiveTable
<1>3. Filled(t, e) =
        [table_size |-> t.table_size,
         size |-> IF t.data[i] = Hole THEN t.size + 1 ELSE t.size,
         data |-> [t.data EXCEPT ![i] = e]]
  BY <1>1, <1>2
<1>4. QED
  BY <1>3 DEF i

(* hashmap_put on a table that takes the entry leaves it sound, and with   *)
(* the entry among what it holds in place of another of the same key.      *)
LEMMA FilledSound ==
  ASSUME NEW t \in LiveTables, NEW e \in Entry, hash \in Hashes, Sound(hash, t),
         Accepted(t, e.key) # {}
  PROVE  /\ Filled(t, e) \in LiveTables /\ Sound(hash, Filled(t, e))
         /\ InUse(Filled(t, e)) = InUse(t) \cup {FillAt(t, e.key)}
         /\ Filled(t, e).data = [t.data EXCEPT ![FillAt(t, e.key)] = e]
<1> DEFINE i == FillAt(t, e.key)
           u == Filled(t, e)
<1>1. /\ i \in 0 .. t.table_size - 1
      /\ \E s \in 0 .. Chain - 1 : (hash[e.key] + s) % t.table_size = i
      /\ \/ t.data[i] = Hole /\ \A j \in InUse(t) : t.data[j].key # e.key
         \/ i \in InUse(t) /\ t.data[i].key = e.key
  BY FillSlot, EntryFields
<1>2. /\ t.table_size \in 1 .. MaxTable /\ t.size \in Int
      /\ t.data \in [0 .. t.table_size - 1 -> Entry \cup {Hole}]
  BY LiveTable
<1>3. /\ u.table_size = t.table_size /\ u.data = [t.data EXCEPT ![i] = e]
      /\ u.size = IF t.data[i] = Hole THEN t.size + 1 ELSE t.size
      /\ u = [table_size |-> u.table_size, size |-> u.size, data |-> u.data]
  <2> DEFINE n == IF t.data[i] = Hole THEN t.size + 1 ELSE t.size
             d == [t.data EXCEPT ![i] = e]
  <2>1. u = [table_size |-> t.table_size, size |-> n, data |-> d]
    BY FilledIs
  <2> HIDE DEF n, d, u, i
  <2>2. /\ u.table_size = t.table_size /\ u.data = d /\ u.size = n
        /\ u = [table_size |-> u.table_size, size |-> u.size, data |-> u.data]
    BY <2>1, TableFields
  <2>3. QED
    BY <2>2 DEF n, d
<1> HIDE DEF i, u
<1>4. /\ u.data \in [0 .. t.table_size - 1 -> Entry \cup {Hole}]
      /\ u.data[i] = e /\ \A j \in 0 .. t.table_size - 1 \ {i} : u.data[j] = t.data[j]
  BY <1>1, <1>2, <1>3
<1>5. u \in LiveTables
  <2>1. u.size \in Int
    BY <1>2, <1>3
  <2>2. QED
    BY <1>2, <1>3, <1>4, <2>1, LiveRecord, SMTT(30)
<1>6. InUse(u) = InUse(t) \cup {i}
  BY <1>1, <1>2, <1>4, EntryFields DEF InUse
<1>7. i \in InUse(t) <=> t.data[i] # Hole
  BY <1>1, <1>2 DEF InUse
<1>8. Distinct(u)
  <2>1. \A j \in InUse(t) \ {i} : u.data[j] = t.data[j] /\ t.data[j].key # e.key
    BY <1>1, <1>2, <1>4 DEF Sound, Distinct, InUse
  <2>2. QED
    BY <1>4, <1>6, <2>1 DEF Distinct, Sound
<1>9. OnChain(hash, u)
  <2> SUFFICES ASSUME NEW j \in InUse(u)
               PROVE  \E s \in 0 .. Chain - 1 : (hash[u.data[j].key] + s) % t.table_size = j
    BY <1>3 DEF OnChain
  <2>1. CASE j = i
    BY <1>1, <1>4, <2>1
  <2>2. CASE j # i
    <3>1. j \in InUse(t) /\ u.data[j] = t.data[j]
      BY <1>2, <1>4, <1>6, <2>2 DEF InUse
    <3>2. QED
      BY <3>1 DEF Sound, OnChain
  <2>3. QED
    BY <2>1, <2>2
<1>10. u.size = Cardinality(InUse(u))
  <2>1. Cardinality(InUse(u)) = IF i \in InUse(t) THEN Cardinality(InUse(t)) ELSE Cardinality(InUse(t)) + 1
    BY <1>6, InUseFinite, FS_AddElement
  <2>2. t.size = Cardinality(InUse(t))
    BY DEF Sound
  <2>3. QED
    BY <1>3, <1>7, <2>1, <2>2
<1>11. QED
  BY <1>3, <1>5, <1>6, <1>8, <1>9, <1>10 DEF i, u, Sound

LEMMA BlankedIs ==
  ASSUME NEW t \in LiveTables, NEW i
  PROVE  Blanked(t, i) =
           [table_size |-> t.table_size, size |-> t.size - 1,
            data |-> [t.data EXCEPT ![i] = Hole]]
<1>1. Blanked(t, i) = [t EXCEPT !.data[i] = Hole, !.size = @ - 1]
  BY DEF Blanked
<1>2. t = [table_size |-> t.table_size, size |-> t.size, data |-> t.data]
  BY LiveTable
<1>3. QED
  BY <1>1, <1>2

(* An element blanked: the others stay where they were, and size follows.  *)
LEMMA BlankedSound ==
  ASSUME NEW t \in LiveTables, NEW i \in InUse(t), Sound(hash, t)
  PROVE  /\ Blanked(t, i) \in LiveTables /\ Sound(hash, Blanked(t, i))
         /\ InUse(Blanked(t, i)) = InUse(t) \ {i}
         /\ \A j \in InUse(t) \ {i} : Blanked(t, i).data[j] = t.data[j]
<1> DEFINE u == Blanked(t, i)
<1>1. /\ t.table_size \in 1 .. MaxTable /\ t.size \in Int
      /\ t.data \in [0 .. t.table_size - 1 -> Entry \cup {Hole}]
      /\ t = [table_size |-> t.table_size, size |-> t.size, data |-> t.data]
  BY LiveTable
<1>2. u = [table_size |-> t.table_size, size |-> t.size - 1, data |-> [t.data EXCEPT ![i] = Hole]]
  BY BlankedIs
<1>3. /\ u.table_size = t.table_size /\ u.data = [t.data EXCEPT ![i] = Hole]
      /\ u.size = t.size - 1
      /\ u = [table_size |-> u.table_size, size |-> u.size, data |-> u.data]
  <2> DEFINE n == t.size - 1
             d == [t.data EXCEPT ![i] = Hole]
  <2>1. u = [table_size |-> t.table_size, size |-> n, data |-> d]
    BY <1>2
  <2> HIDE DEF n, d, u
  <2>2. /\ u.table_size = t.table_size /\ u.data = d /\ u.size = n
        /\ u = [table_size |-> u.table_size, size |-> u.size, data |-> u.data]
    BY <2>1, TableFields
  <2>3. QED
    BY <2>2 DEF n, d
<1> HIDE DEF u
<1>4. i \in 0 .. t.table_size - 1
  BY InUseFinite
<1>5. /\ u.data \in [0 .. t.table_size - 1 -> Entry \cup {Hole}]
      /\ u.data[i] = Hole /\ \A j \in 0 .. t.table_size - 1 \ {i} : u.data[j] = t.data[j]
  BY <1>1, <1>3, <1>4
<1>6. u \in LiveTables
  <2>1. u.size \in Int
    BY <1>1, <1>3
  <2>2. QED
    BY <1>1, <1>3, <1>5, <2>1, LiveRecord
<1>7. InUse(u) = InUse(t) \ {i}
  BY <1>1, <1>5 DEF InUse
<1>8. \A j \in InUse(u) : j \in InUse(t) /\ u.data[j] = t.data[j]
  BY <1>1, <1>5, <1>7 DEF InUse
<1>9. Distinct(u) /\ OnChain(hash, u)
  BY <1>3, <1>8 DEF Distinct, OnChain, Sound
<1>10. u.size = Cardinality(InUse(u))
  <2>1. Cardinality(InUse(u)) = Cardinality(InUse(t)) - 1
    BY <1>7, InUseFinite, FS_RemoveElement
  <2>2. QED
    BY <1>3, <2>1 DEF Sound
<1>11. QED
  BY <1>6, <1>7, <1>8, <1>9, <1>10 DEF u, Sound

(* A walk that drops the elements gone.                                    *)
Swept(t, gone) ==
  [t EXCEPT !.data = [i \in DOMAIN @ |-> IF i \in gone THEN Hole ELSE @[i]],
            !.size = @ - Cardinality(gone)]

LEMMA SweptIs ==
  ASSUME NEW t \in LiveTables, NEW gone
  PROVE  Swept(t, gone) =
           [table_size |-> t.table_size, size |-> t.size - Cardinality(gone),
            data |-> [i \in DOMAIN t.data |-> IF i \in gone THEN Hole ELSE t.data[i]]]
<1> DEFINE n == Cardinality(gone)
<1> HIDE DEF n
<1>1. Swept(t, gone) =
        [t EXCEPT !.data = [i \in DOMAIN @ |-> IF i \in gone THEN Hole ELSE @[i]],
                  !.size = @ - n]
  BY DEF Swept, n
<1>2. t = [table_size |-> t.table_size, size |-> t.size, data |-> t.data]
  BY LiveTable
<1>3. QED
  BY <1>1, <1>2 DEF n

LEMMA SweptSound ==
  ASSUME NEW t \in LiveTables, NEW gone \in SUBSET InUse(t), Sound(hash, t)
  PROVE  /\ Swept(t, gone) \in LiveTables /\ Sound(hash, Swept(t, gone))
         /\ InUse(Swept(t, gone)) = InUse(t) \ gone
         /\ \A j \in InUse(t) \ gone : Swept(t, gone).data[j] = t.data[j]
<1> DEFINE u == Swept(t, gone)
<1>1. /\ t.table_size \in 1 .. MaxTable /\ t.size \in Int
      /\ t.data \in [0 .. t.table_size - 1 -> Entry \cup {Hole}]
  BY LiveTable
<1>2. IsFiniteSet(gone) /\ Cardinality(gone) \in Nat
  BY InUseFinite, FS_Subset, FS_CardinalityType
<1>3. /\ u.table_size = t.table_size /\ u.size = t.size - Cardinality(gone)
      /\ u.data = [i \in DOMAIN t.data |-> IF i \in gone THEN Hole ELSE t.data[i]]
      /\ u = [table_size |-> u.table_size, size |-> u.size, data |-> u.data]
  <2> DEFINE n == t.size - Cardinality(gone)
             d == [i \in DOMAIN t.data |-> IF i \in gone THEN Hole ELSE t.data[i]]
  <2>1. u = [table_size |-> t.table_size, size |-> n, data |-> d]
    BY SweptIs
  <2> HIDE DEF n, d, u
  <2>2. /\ u.table_size = t.table_size /\ u.data = d /\ u.size = n
        /\ u = [table_size |-> u.table_size, size |-> u.size, data |-> u.data]
    BY <2>1, TableFields
  <2>3. QED
    BY <2>2 DEF n, d
<1> HIDE DEF u
<1>4. /\ u.data \in [0 .. t.table_size - 1 -> Entry \cup {Hole}]
      /\ \A j \in 0 .. t.table_size - 1 : u.data[j] = IF j \in gone THEN Hole ELSE t.data[j]
  BY <1>1, <1>3
<1>5. u \in LiveTables
  <2>1. u.size \in Int
    BY <1>1, <1>2, <1>3
  <2>2. QED
    BY <1>1, <1>3, <1>4, <2>1, LiveRecord, SMTT(30)
<1>6. InUse(u) = InUse(t) \ gone
  BY <1>1, <1>4 DEF InUse
<1>7. \A j \in InUse(u) : j \in InUse(t) /\ u.data[j] = t.data[j]
  BY <1>1, <1>4, <1>6 DEF InUse
<1>8. Distinct(u) /\ OnChain(hash, u)
  BY <1>3, <1>7 DEF Distinct, OnChain, Sound
<1>9. u.size = Cardinality(InUse(u))
  <2>1. Cardinality(InUse(u)) = Cardinality(InUse(t)) - Cardinality(InUse(t) \cap gone)
    BY <1>6, InUseFinite, FS_Difference
  <2>2. InUse(t) \cap gone = gone
    OBVIOUS
  <2>3. QED
    BY <1>3, <2>1, <2>2 DEF Sound
<1>10. QED
  BY <1>5, <1>6, <1>7, <1>8, <1>9 DEF u, Sound

LEMMA FreshSound ==
  ASSUME NEW n \in 1 .. MaxTable
  PROVE  Fresh(n) \in LiveTables /\ Sound(hash, Fresh(n)) /\ InUse(Fresh(n)) = {}
<1>1. Fresh(n) \in LiveTables
  BY LiveRecord DEF Fresh
<1>2. InUse(Fresh(n)) = {}
  BY DEF Fresh, InUse
<1>3. Fresh(n).size = 0
  BY DEF Fresh
<1>4. QED
  BY <1>1, <1>2, <1>3, FS_EmptySet DEF Sound, Distinct, OnChain

LEMMA DeadSound ==
  ASSUME NEW t \in DeadTables
  PROVE  /\ t.data = Zeroed.data /\ t.size = 0
         /\ InUse(t) = {} /\ Sound(hash, t)
<1>1. t.data = [i \in {} |-> Hole] /\ t.size = 0
  BY DEF DeadTables
<1>2. InUse(t) = {}
  BY <1>1 DEF InUse
<1>3. QED
  BY <1>1, <1>2, FS_EmptySet DEF Sound, Distinct, OnChain, Zeroed

-----------------------------------------------------------------------------
(* The entries a table holds, and what the lemmas above say of them.       *)
Held(t) == {t.data[i] : i \in InUse(t)}

LEMMA HeldEntries ==
  ASSUME NEW t \in LiveTables, Sound(hash, t)
  PROVE  /\ Held(t) \subseteq Entry
         /\ \A x, y \in Held(t) : x.key = y.key => x = y
  BY InUseFinite DEF Held, Sound, Distinct

LEMMA HeldFilled ==
  ASSUME NEW t \in LiveTables, NEW e \in Entry, hash \in Hashes, Sound(hash, t),
         Accepted(t, e.key) # {}
  PROVE  Held(Filled(t, e)) = {x \in Held(t) : x.key # e.key} \cup {e}
<1> DEFINE i == FillAt(t, e.key)
           d == Filled(t, e).data
<1>1. /\ i \in 0 .. t.table_size - 1
      /\ \/ t.data[i] = Hole /\ \A j \in InUse(t) : t.data[j].key # e.key
         \/ i \in InUse(t) /\ t.data[i].key = e.key
  BY FillSlot, EntryFields
<1>2. t.data \in [0 .. t.table_size - 1 -> Entry \cup {Hole}]
  BY LiveTable
<1>3. InUse(Filled(t, e)) = InUse(t) \cup {i} /\ d = [t.data EXCEPT ![i] = e]
  BY FilledSound
<1> HIDE DEF i, d
<1>4. d[i] = e /\ \A j \in InUse(t) \ {i} : d[j] = t.data[j] /\ t.data[j].key # e.key
  BY <1>1, <1>2, <1>3 DEF Sound, Distinct, InUse
<1>5. \A j \in InUse(t) : j = i => t.data[j].key = e.key
  BY <1>1 DEF InUse
<1>6. Held(Filled(t, e)) = {d[j] : j \in InUse(t) \cup {i}}
  BY <1>3 DEF Held, d
<1>7. QED
  BY <1>4, <1>5, <1>6, SMTT(30) DEF Held

LEMMA HeldBlanked ==
  ASSUME NEW t \in LiveTables, NEW i \in InUse(t), Sound(hash, t)
  PROVE  Held(Blanked(t, i)) = {x \in Held(t) : x.key # t.data[i].key}
<1>1. /\ InUse(Blanked(t, i)) = InUse(t) \ {i}
      /\ \A j \in InUse(t) \ {i} : Blanked(t, i).data[j] = t.data[j]
  BY BlankedSound
<1>2. \A j \in InUse(t) : t.data[j].key = t.data[i].key <=> j = i
  BY DEF Sound, Distinct
<1>3. Held(Blanked(t, i)) = {t.data[j] : j \in InUse(t) \ {i}}
  BY <1>1 DEF Held
<1>4. QED
  BY <1>2, <1>3 DEF Held

LEMMA HeldSwept ==
  ASSUME NEW t \in LiveTables, NEW gone \in SUBSET InUse(t), Sound(hash, t)
  PROVE  Held(Swept(t, gone)) = {t.data[j] : j \in InUse(t) \ gone}
  BY SweptSound DEF Held

-----------------------------------------------------------------------------
(* The inductive invariant.  Only the caller's map may be without a table, *)
(* and a put never finds one that a failed hashmap_create left half set.   *)
Shape ==
  /\ hash \in Hashes
  /\ m \in Seq(LiveTables \cup DeadTables) /\ m # <<>>
  /\ call \in Entry \cup {NoCall}
  /\ call # NoCall => \A n \in DOMAIN m : m[n] \in LiveTables \cup {Zeroed}
  /\ Len(m) > 1 => call # NoCall /\ \A n \in DOMAIN m : m[n] \in LiveTables

AllSound == \A n \in DOMAIN m : Sound(hash, m[n])

(* No key is in two tables of the stack: what has been moved has left the  *)
(* old one, and what is being put is in none but the one it comes from.    *)
Apart ==
  \A a, b \in DOMAIN m : a # b =>
    \A x \in Held(m[a]), y \in Held(m[b]) : x.key # y.key

IInv == Shape /\ AllSound /\ Apart

RetOK == ret \in (Keys \cup {Null}) \X (Values \cup Keys \cup {Null, Done, Failed})

LEMMA ZeroedDead == Zeroed \in DeadTables
  BY DEF Zeroed, DeadTables

(* A live table has a slot, so the map is dead exactly when m[1] is not.   *)
LEMMA DeadOrLive ==
  ASSUME IInv
  PROVE  /\ Len(m) \in Nat \ {0} /\ DOMAIN m = 1 .. Len(m)
         /\ \A n \in DOMAIN m : m[n] \in LiveTables \cup DeadTables
         /\ Dead <=> m[1] \in DeadTables
         /\ ~Dead <=> m[1] \in LiveTables
<1>1. /\ Len(m) \in Nat \ {0} /\ DOMAIN m = 1 .. Len(m)
      /\ \A n \in DOMAIN m : m[n] \in LiveTables \cup DeadTables
  BY DEF IInv, Shape
<1>2. m[1] \in LiveTables => m[1].data # Zeroed.data
  <2>1. SUFFICES ASSUME m[1] \in LiveTables, m[1].data = Zeroed.data PROVE FALSE
    OBVIOUS
  <2>2. 0 \in DOMAIN m[1].data
    BY <2>1, LiveTable
  <2>3. DOMAIN m[1].data = {}
    BY <2>1 DEF Zeroed
  <2>4. QED
    BY <2>2, <2>3
<1>3. QED
  BY <1>1, <1>2, DeadSound DEF Dead

(* The new caller's map, with no call under way.                           *)
LEMMA OneTable ==
  ASSUME hash' = hash, hash \in Hashes, NEW t \in LiveTables \cup DeadTables, Sound(hash, t),
         m' = <<t>>, call' = NoCall
  PROVE  IInv'
<1>1. <<t>> \in Seq(LiveTables \cup DeadTables) /\ Len(<<t>>) = 1 /\ DOMAIN <<t>> = {1}
      /\ <<t>>[1] = t
  OBVIOUS
<1>2. Shape'
  BY <1>1 DEF Shape
<1>3. AllSound'
  BY <1>1 DEF AllSound
<1>4. Apart'
  BY <1>1 DEF Apart
<1>5. QED
  BY <1>2, <1>3, <1>4 DEF IInv

(* What a nested put works with.                                           *)
LEMMA PlacingFacts ==
  ASSUME IInv, Placing
  PROVE  /\ Pending \in Entry /\ call \in Entry /\ call # NoCall
         /\ Top \in LiveTables \cup {Zeroed} /\ Sound(hash, Top)
         /\ Accepts(Top, Pending.key) \/ Top.table_size > 0 => Top \in LiveTables
         /\ Len(m) > 1 => /\ Top \in LiveTables /\ Below \in LiveTables
                          /\ Sound(hash, Below)
                          /\ First(InUse(Below)) \in InUse(Below)
                          /\ Pending = Below.data[First(InUse(Below))]
<1>1. /\ Len(m) \in Nat \ {0} /\ DOMAIN m = 1 .. Len(m)
  BY DeadOrLive
<1>2. call \in Entry /\ call # NoCall
  BY <1>1 DEF Placing, IInv, Shape
<1>3. Top \in LiveTables \cup {Zeroed} /\ Sound(hash, Top)
  BY <1>1, <1>2 DEF IInv, Shape, AllSound, Top
<1>4. Accepts(Top, Pending.key) \/ Top.table_size > 0 => Top \in LiveTables
  <2>1. Zeroed.size = 0 /\ Zeroed.table_size = 0
    BY DEF Zeroed
  <2>2. QED
    BY <1>3, <2>1 DEF Accepts
<1>5. ASSUME Len(m) > 1
      PROVE  /\ Top \in LiveTables /\ Below \in LiveTables /\ Sound(hash, Below)
             /\ First(InUse(Below)) \in InUse(Below)
             /\ Pending = Below.data[First(InUse(Below))] /\ Pending \in Entry
  <2>1. Top \in LiveTables /\ Below \in LiveTables /\ Sound(hash, Below)
    BY <1>1, <1>5 DEF IInv, Shape, AllSound, Top, Below
  <2>2. InUse(Below) # {}
    BY <1>1, <1>5 DEF Placing
  <2>3. InUse(Below) \in SUBSET Nat /\ \A i \in InUse(Below) : Below.data[i] \in Entry
    BY <2>1, InUseFinite
  <2>4. First(InUse(Below)) \in InUse(Below)
    BY <2>2, <2>3, FirstIsLeast
  <2>5. Pending = Below.data[First(InUse(Below))]
    BY <1>1, <1>5 DEF Pending
  <2>6. QED
    BY <2>1, <2>3, <2>4, <2>5
<1>6. Len(m) = 1 => Pending \in Entry
  BY <1>2 DEF Pending
<1>7. QED
  BY <1>1, <1>2, <1>3, <1>4, <1>5, <1>6

-----------------------------------------------------------------------------
(* One step for each operation.                                            *)
LEMMA CreateStep ==
  ASSUME IInv, NEW n \in InitialSizes, HashmapCreate(n) \/ HashmapCreateFails(n)
  PROVE  IInv'
<1>1. n \in Nat /\ hash \in Hashes /\ hash' = hash /\ call' = NoCall
  BY SizesAssumption DEF HashmapCreate, HashmapCreateFails, Idle, IInv, Shape
<1>2. CASE HashmapCreate(n)
  <2>1. Fresh(n) \in LiveTables \cup DeadTables /\ Sound(hash, Fresh(n))
    <3>1. CASE n = 0
      <4>1. Fresh(n) \in DeadTables
        BY <3>1 DEF Fresh, DeadTables
      <4>2. QED
        BY <4>1, DeadSound
    <3>2. CASE n # 0
      <4>1. n \in 1 .. MaxTable
        BY <1>1, <1>2, <3>2 DEF HashmapCreate
      <4>2. QED
        BY <4>1, FreshSound
    <3>3. QED
      BY <3>1, <3>2
  <2>2. QED
    BY <1>1, <1>2, <2>1, OneTable DEF HashmapCreate
<1>3. CASE HashmapCreateFails(n)
  <2> DEFINE t == [Zeroed EXCEPT !.table_size = n]
  <2>1. t \in DeadTables
    BY <1>1 DEF Zeroed, DeadTables
  <2>2. m' = <<t>>
    BY <1>3 DEF HashmapCreateFails
  <2>3. QED
    BY <1>1, <2>1, <2>2, DeadSound, OneTable
<1>4. QED
  BY <1>2, <1>3

LEMMA PutStarts ==
  ASSUME IInv, NEW k \in Keys, NEW v \in Values, HashmapPut(k, v)
  PROVE  IInv'
<1>1. /\ call = NoCall /\ call' \in Entry /\ UNCHANGED <<hash, m>>
      /\ Dead => m[1] = Zeroed
  BY DEF HashmapPut, Idle, Entry
<1>2. Len(m) = 1 /\ DOMAIN m = {1}
  <2>1. Len(m) \in Nat \ {0} /\ DOMAIN m = 1 .. Len(m)
    BY DeadOrLive
  <2>2. ~(Len(m) > 1)
    BY <1>1 DEF IInv, Shape
  <2>3. QED
    BY <2>1, <2>2
<1>3. m[1] \in LiveTables \cup {Zeroed}
  BY <1>1, DeadOrLive
<1>4. Shape'
  BY <1>1, <1>2, <1>3 DEF IInv, Shape
<1>5. AllSound' /\ Apart'
  BY <1>1 DEF IInv, AllSound, Apart
<1>6. QED
  BY <1>4, <1>5 DEF IInv

LEMMA PutReturnsStep == ASSUME IInv, PutReturns PROVE IInv'
<1>1. /\ hash' = hash /\ hash \in Hashes /\ call' = NoCall /\ m' = <<Filled(Top, Pending)>>
      /\ Placing /\ Accepts(Top, Pending.key)
  BY DEF PutReturns, IInv, Shape
<1>2. Pending \in Entry /\ Top \in LiveTables /\ Sound(hash, Top)
  BY <1>1, PlacingFacts
<1>3. Accepted(Top, Pending.key) # {}
  BY <1>1 DEF Accepts
<1>4. Filled(Top, Pending) \in LiveTables /\ Sound(hash, Filled(Top, Pending))
  BY <1>1, <1>2, <1>3, FilledSound
<1>5. QED
  BY <1>1, <1>4, OneTable

(* The entry leaves the old table as it enters the new one.                *)
LEMMA MoveStep == ASSUME IInv, Move PROVE IInv'
<1> DEFINE n == Len(m)
           e == Pending
           u == Filled(Top, e)
           w == Blanked(Below, First(InUse(Below)))
<1>1. /\ hash' = hash /\ call' = call /\ hash \in Hashes
      /\ m' = [m EXCEPT ![n] = u, ![n - 1] = w]
      /\ n > 1 /\ Placing /\ Accepts(Top, e.key)
  BY DEF Move, IInv, Shape
<1>2. /\ n \in Nat \ {0} /\ DOMAIN m = 1 .. n
      /\ m \in Seq(LiveTables \cup DeadTables)
      /\ \A a \in DOMAIN m : m[a] \in LiveTables /\ Sound(hash, m[a])
      /\ Apart
  BY <1>1, DeadOrLive DEF IInv, Shape, AllSound
<1>3. /\ e \in Entry /\ Top \in LiveTables /\ Sound(hash, Top)
      /\ Below \in LiveTables /\ Sound(hash, Below)
      /\ First(InUse(Below)) \in InUse(Below) /\ e = Below.data[First(InUse(Below))]
      /\ Top = m[n] /\ Below = m[n - 1]
  BY <1>1, PlacingFacts DEF Top, Below
<1>4. Accepted(Top, e.key) # {}
  BY <1>1 DEF Accepts
<1>5. /\ u \in LiveTables /\ Sound(hash, u)
      /\ Held(u) = {x \in Held(Top) : x.key # e.key} \cup {e}
  <2>1. u \in LiveTables /\ Sound(hash, u)
    BY <1>1, <1>3, <1>4, FilledSound
  <2>2. Held(u) = {x \in Held(Top) : x.key # e.key} \cup {e}
    <3>1. e \in Entry /\ Top \in LiveTables /\ hash \in Hashes /\ Sound(hash, Top)
      BY <1>1, <1>3
    <3> HIDE DEF e
    <3>2. QED
      BY <1>4, <3>1, HeldFilled
  <2>3. QED
    BY <2>1, <2>2
<1>6. /\ w \in LiveTables /\ Sound(hash, w)
      /\ Held(w) = {x \in Held(Below) : x.key # e.key}
  BY <1>3, BlankedSound, HeldBlanked
<1>7. e \in Held(Below)
  BY <1>3 DEF Held
<1> HIDE DEF n, e, u, w
<1>8. /\ m' \in Seq(LiveTables \cup DeadTables) /\ Len(m') = n /\ DOMAIN m' = 1 .. n
      /\ m'[n] = u /\ m'[n - 1] = w
      /\ \A a \in 1 .. n \ {n, n - 1} : m'[a] = m[a]
  BY <1>1, <1>2, <1>5, <1>6
<1>9. \A a \in DOMAIN m' : m'[a] \in LiveTables /\ Sound(hash, m'[a])
  BY <1>1, <1>2, <1>5, <1>6, <1>8
<1>10. Shape'
  <2>1. call \in Entry /\ call # NoCall
    BY <1>1, PlacingFacts
  <2>2. m' # <<>>
    BY <1>2, <1>8
  <2>3. QED
    BY <1>1, <1>8, <1>9, <2>1, <2>2 DEF Shape
<1>11. AllSound'
  BY <1>1, <1>9 DEF AllSound
<1>12. Apart'
  <2> SUFFICES ASSUME NEW a \in DOMAIN m', NEW b \in DOMAIN m', a # b,
                      NEW x \in Held(m'[a]), NEW y \in Held(m'[b]), x.key = y.key
               PROVE  FALSE
    BY DEF Apart
  <2>1. \A c \in DOMAIN m \ {n, n - 1} : \A z \in Held(m[c]) : z.key # e.key
    <3>1. n - 1 \in DOMAIN m
      BY <1>1, <1>2
    <3>2. \A c \in DOMAIN m : c # n - 1 =>
            \A z \in Held(m[c]), z2 \in Held(m[n - 1]) : z.key # z2.key
      BY <1>2, <3>1 DEF Apart
    <3>3. e \in Held(m[n - 1])
      BY <1>3, <1>7
    <3>4. QED
      BY <3>2, <3>3
  <2>2. \A c, d \in 1 .. n : c # d => \A z \in Held(m[c]), z2 \in Held(m[d]) : z.key # z2.key
    BY <1>2 DEF Apart
  <2>3. \A c \in 1 .. n : \A z \in Held(m'[c]) :
           \/ z = e /\ c = n
           \/ z \in Held(m[c]) /\ z.key # e.key
    <3>1. \A z \in Held(m'[n]) : z = e \/ (z \in Held(m[n]) /\ z.key # e.key)
      BY <1>3, <1>5, <1>8
    <3>2. \A z \in Held(m'[n - 1]) : z \in Held(m[n - 1]) /\ z.key # e.key
      BY <1>3, <1>6, <1>8
    <3>3. \A c \in 1 .. n \ {n, n - 1} :
            m'[c] = m[c] /\ \A z \in Held(m[c]) : z.key # e.key
      BY <1>2, <1>8, <2>1
    <3>4. QED
      BY <3>1, <3>2, <3>3
  <2>4. QED
    BY <1>2, <1>8, <2>2, <2>3
<1>13. QED
  BY <1>10, <1>11, <1>12 DEF IInv

LEMMA GrowStep == ASSUME IInv, Grow PROVE IInv'
<1> DEFINE n == Len(m)
           t == Fresh(2 * Top.table_size)
<1>1. /\ hash' = hash /\ call' = call /\ m' = Append(m, t) /\ Placing
      /\ Top.table_size > 0 /\ 2 * Top.table_size <= MaxTable
  BY DEF Grow
<1>2. /\ n \in Nat \ {0} /\ DOMAIN m = 1 .. n
      /\ m \in Seq(LiveTables \cup DeadTables) /\ hash \in Hashes
      /\ \A a \in DOMAIN m : Sound(hash, m[a])
      /\ Apart
  BY DeadOrLive DEF IInv, Shape, AllSound
<1>3. call \in Entry /\ call # NoCall /\ Top \in LiveTables
  BY <1>1, PlacingFacts
<1>4. \A a \in DOMAIN m : m[a] \in LiveTables
  <2>1. \A a \in DOMAIN m : m[a] \in LiveTables \cup {Zeroed}
    BY <1>3 DEF IInv, Shape
  <2>2. n = 1 => m[1] \in LiveTables
    BY <1>3 DEF Top
  <2>3. QED
    BY <1>2, <2>2 DEF IInv, Shape
<1>5. 2 * Top.table_size \in 1 .. MaxTable
  BY <1>1, <1>3, LiveTable, SizesAssumption
<1>6. t \in LiveTables /\ Sound(hash, t) /\ InUse(t) = {}
  BY <1>5, FreshSound
<1>7. Held(t) = {}
  BY <1>6 DEF Held
<1> HIDE DEF n, t
<1>8. /\ m' \in Seq(LiveTables \cup DeadTables) /\ Len(m') = n + 1 /\ DOMAIN m' = 1 .. n + 1
      /\ m'[n + 1] = t /\ \A a \in 1 .. n : m'[a] = m[a]
  BY <1>1, <1>2, <1>6 DEF n
<1>9. \A a \in DOMAIN m' : m'[a] \in LiveTables /\ Sound(hash, m'[a])
  BY <1>2, <1>4, <1>6, <1>8
<1>10. Shape'
  <2>1. m' # <<>>
    BY <1>2, <1>8
  <2>2. QED
    BY <1>1, <1>2, <1>3, <1>8, <1>9, <2>1 DEF Shape
<1>11. AllSound'
  BY <1>1, <1>9 DEF AllSound
<1>12. Apart'
  BY <1>2, <1>7, <1>8 DEF Apart
<1>13. QED
  BY <1>10, <1>11, <1>12 DEF IInv

LEMMA GrowFailsStep == ASSUME IInv, GrowFails PROVE IInv'
<1>1. hash' = hash /\ m' = <<m[1]>> /\ call' = NoCall
  BY DEF GrowFails
<1>2. m[1] \in LiveTables \cup DeadTables /\ Sound(hash, m[1]) /\ hash \in Hashes
  BY DeadOrLive DEF IInv, Shape, AllSound
<1>3. QED
  BY <1>1, <1>2, OneTable

(* The old table is empty by now: the new one takes its place.             *)
LEMMA AdoptStep == ASSUME IInv, Adopt PROVE IInv'
<1> DEFINE n == Len(m)
<1>1. /\ hash' = hash /\ call' = call /\ n > 1
      /\ m' = Append(SubSeq(m, 1, n - 2), m[n])
  BY DEF Adopt, Top
<1>2. /\ n \in Nat \ {0} /\ DOMAIN m = 1 .. n
      /\ m \in Seq(LiveTables \cup DeadTables) /\ hash \in Hashes
      /\ \A a \in DOMAIN m : m[a] \in LiveTables /\ Sound(hash, m[a])
      /\ Apart /\ call \in Entry \cup {NoCall} /\ call # NoCall
  BY <1>1, DeadOrLive DEF IInv, Shape, AllSound
<1> HIDE DEF n
<1>3. /\ SubSeq(m, 1, n - 2) \in Seq(LiveTables \cup DeadTables)
      /\ Len(SubSeq(m, 1, n - 2)) = n - 2
      /\ \A a \in 1 .. n - 2 : SubSeq(m, 1, n - 2)[a] = m[a]
  BY <1>1, <1>2 DEF n
<1>4. /\ m' \in Seq(LiveTables \cup DeadTables) /\ Len(m') = n - 1 /\ DOMAIN m' = 1 .. n - 1
      /\ m'[n - 1] = m[n] /\ \A a \in 1 .. n - 2 : m'[a] = m[a]
  BY <1>1, <1>2, <1>3
<1>5. \A a \in DOMAIN m' : m'[a] \in LiveTables /\ Sound(hash, m'[a])
  BY <1>1, <1>2, <1>4
<1>6. Shape'
  <2>1. m' # <<>>
    BY <1>1, <1>2, <1>4
  <2>2. QED
    BY <1>1, <1>2, <1>4, <1>5, <2>1 DEF Shape
<1>7. AllSound'
  BY <1>1, <1>5 DEF AllSound
<1>8. Apart'
  <2>1. \A a \in 1 .. n - 1 : m'[a] = m[IF a = n - 1 THEN n ELSE a]
    BY <1>2, <1>4
  <2>2. QED
    BY <1>1, <1>2, <1>4, <2>1 DEF Apart
<1>9. QED
  BY <1>6, <1>7, <1>8 DEF IInv

(* The calls made of an idle map find it with one table.                   *)
LEMMA IdleMap ==
  ASSUME IInv, Idle, ~Dead
  PROVE  m[1] \in LiveTables /\ Sound(hash, m[1]) /\ hash \in Hashes /\ Len(m) = 1
         /\ DOMAIN m = {1}
<1>1. Len(m) \in Nat \ {0} /\ DOMAIN m = 1 .. Len(m) /\ m[1] \in LiveTables
  BY DeadOrLive
<1>2. ~(Len(m) > 1)
  BY DEF IInv, Shape, Idle
<1>3. QED
  BY <1>1, <1>2 DEF IInv, Shape, AllSound

LEMMA RemoveStep ==
  ASSUME IInv, NEW k \in Keys, HashmapRemove(k)
  PROVE  IInv'
<1>1. /\ hash' = hash /\ call' = NoCall /\ m' = <<Blanked(m[1], At(m[1], k))>>
      /\ Idle /\ ~Dead /\ Matches(m[1], k) # {}
  BY DEF HashmapRemove, Idle
<1>2. At(m[1], k) \in InUse(m[1])
  BY <1>1, IdleMap, AtHoldsKey
<1>3. Blanked(m[1], At(m[1], k)) \in LiveTables /\ Sound(hash, Blanked(m[1], At(m[1], k)))
  BY <1>1, <1>2, IdleMap, BlankedSound
<1>4. QED
  BY <1>1, <1>3, IdleMap, OneTable

(* What HashmapIterate(drop, stop) drops.                                  *)
Gone(t, drop, stop) ==
  {i \in InUse(t) : /\ t.data[i].key \in drop
                    /\ \A h \in {j \in InUse(t) : t.data[j].key \in stop} : i < h}

LEMMA IterateStep ==
  ASSUME IInv, NEW drop, NEW stop, HashmapIterate(drop, stop)
  PROVE  IInv'
<1> DEFINE gone == Gone(m[1], drop, stop)
<1>1. /\ hash' = hash /\ call' = NoCall /\ m' = <<Swept(m[1], gone)>> /\ Idle /\ ~Dead
  BY DEF HashmapIterate, Idle, Gone, Swept
<1>2. gone \in SUBSET InUse(m[1])
  BY DEF Gone
<1>3. Swept(m[1], gone) \in LiveTables /\ Sound(hash, Swept(m[1], gone))
  BY <1>1, <1>2, IdleMap, SweptSound
<1>4. QED
  BY <1>1, <1>3, IdleMap, OneTable

LEMMA DestroyStep == ASSUME IInv, HashmapDestroy PROVE IInv'
<1>1. hash' = hash /\ call' = NoCall /\ m' = <<Zeroed>> /\ Idle /\ ~Dead
  BY DEF HashmapDestroy, Idle
<1>2. QED
  BY <1>1, IdleMap, ZeroedDead, DeadSound, OneTable

LEMMA InitIInv == ASSUME Init PROVE IInv
<1>1. m = <<Zeroed>> /\ hash \in Hashes /\ call = NoCall
  BY DEF Init
<1>2. <<Zeroed>> \in Seq(LiveTables \cup DeadTables) /\ Len(<<Zeroed>>) = 1
      /\ DOMAIN <<Zeroed>> = {1} /\ <<Zeroed>>[1] = Zeroed /\ <<Zeroed>> # <<>>
  BY ZeroedDead
<1>3. Shape
  BY <1>1, <1>2 DEF Shape
<1>4. AllSound /\ Apart
  BY <1>1, <1>2, ZeroedDead, DeadSound DEF AllSound, Apart
<1>5. QED
  BY <1>3, <1>4 DEF IInv

LEMMA NextIInv == ASSUME IInv, [Next]_vars PROVE IInv'
<1>1. ASSUME NEW n \in InitialSizes, HashmapCreate(n) \/ HashmapCreateFails(n) PROVE IInv'
  BY <1>1, CreateStep
<1>2. ASSUME NEW k \in Keys, NEW v \in Values, HashmapPut(k, v) PROVE IInv'
  BY <1>2, PutStarts
<1>3. CASE PutStep
  BY <1>3, PutReturnsStep, MoveStep, GrowStep, GrowFailsStep, AdoptStep DEF PutStep
<1>4. ASSUME NEW k \in Keys, HashmapRemove(k) PROVE IInv'
  BY <1>4, RemoveStep
<1>5. ASSUME UNCHANGED <<hash, m, call>> PROVE IInv'
  BY <1>5 DEF IInv, Shape, AllSound, Apart
<1>6. ASSUME NEW k \in Keys, HashmapGet(k) \/ HashmapRemoveFails(k) PROVE IInv'
  BY <1>5, <1>6 DEF HashmapGet, HashmapRemoveFails
<1>7. ASSUME NEW f \in Callbacks, HashmapIterate(f.drop, f.stop) PROVE IInv'
  BY <1>7, IterateStep
<1>8. CASE HashmapDestroy
  BY <1>8, DestroyStep
<1>9. CASE UNCHANGED vars
  BY <1>5, <1>9 DEF vars
<1>10. QED
  BY <1>1, <1>2, <1>3, <1>4, <1>6, <1>7, <1>8, <1>9 DEF Next

(* Whatever the keys, the hashes and the chain length: at every step of    *)
(* every call and rehash all tables are sound and share no key.            *)
THEOREM TablesInvariant == Spec => []IInv
<1>1. Init => IInv
  BY InitIInv
<1>2. IInv /\ [Next]_vars => IInv'
  BY NextIInv
<1>3. QED
  BY <1>1, <1>2, PTL DEF Spec

(* hashmap_put, _get, _remove and the walks, interleaved with any failing  *)
(* rehash, store no key twice, keep every entry where a lookup finds it    *)
(* and count the elements in use (TablesSound).                            *)
THEOREM TablesAreSound == Spec => []TablesSound
<1>1. ASSUME IInv PROVE TablesSound
  <2>1. \A n \in DOMAIN m : /\ Sound(hash, m[n])
                            /\ InUse(m[n]) \subseteq Int
                            /\ \A i \in InUse(m[n]) : m[n].data[i] \in Held(m[n])
    <3>1. \A n \in DOMAIN m : m[n] \in LiveTables \cup DeadTables /\ Sound(hash, m[n])
      BY <1>1, DeadOrLive DEF IInv, AllSound
    <3>2. \A n \in DOMAIN m : InUse(m[n]) \subseteq Int
      BY <3>1, InUseFinite, DeadSound
    <3>3. QED
      BY <3>1, <3>2 DEF Held
  <2>2. \A p \in Places : p = <<p[1], p[2]>> /\ p[1] \in DOMAIN m /\ p[2] \in InUse(m[p[1]])
    BY DEF Places
  <2>3. ASSUME NEW p \in Places, NEW q \in Places,
               m[p[1]].data[p[2]].key = m[q[1]].data[q[2]].key
        PROVE  p = q
    <3>1. p[1] = q[1]
      BY <1>1, <2>1, <2>2, <2>3 DEF IInv, Apart
    <3>2. p[2] = q[2]
      BY <2>1, <2>2, <2>3, <3>1 DEF Sound, Distinct
    <3>3. QED
      BY <2>2, <3>1, <3>2
  <2>4. \A p \in Places : \E i \in 0 .. Chain - 1 :
           Probe(m[p[1]], m[p[1]].data[p[2]].key, i) = p[2]
    BY <2>1, <2>2 DEF Sound, OnChain, Probe
  <2>5. \A n \in DOMAIN m : m[n].size = Cardinality(InUse(m[n]))
    BY <2>1 DEF Sound
  <2>6. QED
    BY <2>3, <2>4, <2>5 DEF TablesSound
<1>2. QED
  BY <1>1, TablesInvariant, PTL

-----------------------------------------------------------------------------
LEMMA NextRet == ASSUME IInv, RetOK, [Next]_vars PROVE RetOK'
<1> DEFINE Rets == (Keys \cup {Null}) \X (Values \cup Keys \cup {Null, Done, Failed})
<1>0. /\ \A x \in Keys \cup {Null}, y \in Values \cup Keys \cup {Null, Done, Failed} :
           <<x, y>> \in Rets
      /\ ret \in Rets
  BY DEF RetOK
<1> HIDE DEF Rets
<1>1. ASSUME NEW n \in InitialSizes, HashmapCreate(n) \/ HashmapCreateFails(n) PROVE ret' \in Rets
  BY <1>0, <1>1 DEF HashmapCreate, HashmapCreateFails
<1>2. ASSUME NEW k \in Keys, HashmapGet(k) PROVE ret' \in Rets
  <2> DEFINE got == IF Matches(m[1], k) = {} THEN Null ELSE m[1].data[At(m[1], k)].data
  <2>1. ret' = <<k, got>> /\ Idle /\ ~Dead
    BY <1>2 DEF HashmapGet
  <2>2. m[1] \in LiveTables /\ hash \in Hashes
    BY <2>1, IdleMap
  <2>3. CASE Matches(m[1], k) = {}
    BY <1>0, <2>1, <2>3
  <2>4. CASE Matches(m[1], k) # {}
    <3>1. m[1].data[At(m[1], k)] \in Entry
      BY <2>2, <2>4, AtHoldsKey, InUseFinite
    <3>2. m[1].data[At(m[1], k)].data \in Values
      BY <3>1, EntryFields
    <3>3. got \in Values
      BY <2>4, <3>2
    <3>4. QED
      BY <1>0, <2>1, <3>3
  <2>5. QED
    BY <2>3, <2>4
<1>3. ASSUME NEW k \in Keys, HashmapRemove(k) \/ HashmapRemoveFails(k) PROVE ret' \in Rets
  <2>1. \E r \in {Done, k, Failed, Null} : ret' = <<k, r>>
    BY <1>3 DEF HashmapRemove, HashmapRemoveFails
  <2>2. QED
    BY <1>0, <2>1
<1>4. ASSUME PutReturns \/ GrowFails PROVE ret' \in Rets
  <2>1. call.key \in Keys /\ (ret' = <<call.key, Done>> \/ ret' = <<call.key, Failed>>)
    BY <1>4, PlacingFacts, EntryFields DEF PutReturns, GrowFails
  <2>2. QED
    BY <1>0, <2>1
<1>5. ASSUME ret' = ret PROVE ret' \in Rets
  BY <1>0, <1>5
<1>6. ASSUME NEW f \in Callbacks, HashmapIterate(f.drop, f.stop) PROVE ret' \in Rets
  <2>1. ret' = <<Null, Done>> \/ ret' = <<Null, Failed>>
    BY <1>6 DEF HashmapIterate
  <2>2. QED
    BY <1>0, <2>1
<1>7. ASSUME HashmapDestroy PROVE ret' \in Rets
  BY <1>0, <1>7 DEF HashmapDestroy
<1>8. ret' \in Rets
  <2>1. ASSUME NEW k \in Keys, NEW v \in Values, HashmapPut(k, v) PROVE ret' = ret
    BY <2>1 DEF HashmapPut
  <2>2. Move \/ Grow \/ Adopt \/ UNCHANGED vars => ret' = ret
    BY DEF Move, Grow, Adopt, vars
  <2>3. QED
    BY <1>1, <1>2, <1>3, <1>4, <1>5, <1>6, <1>7, <2>1, <2>2 DEF Next, PutStep
<1>9. QED
  BY <1>8 DEF RetOK, Rets

(* Every table of the stack has as many slots as its table_size says, each *)
(* an entry or a hole, and every call answers with what it may (TypeOK).   *)
THEOREM TypeCorrect == Spec => []TypeOK
<1>1. Init => RetOK
  BY DEF Init, RetOK
<1>2. IInv /\ RetOK /\ [Next]_vars => RetOK'
  BY NextRet
<1>3. ASSUME IInv, RetOK PROVE TypeOK
  <2>1. \A t \in LiveTables : Table(t)
    BY LiveTable DEF Table
  <2>2. Len(m) = 1 => Dead \/ Table(m[1])
    BY <1>3, <2>1, DeadOrLive
  <2>3. Len(m) > 1 => \A n \in DOMAIN m : Table(m[n])
    BY <1>3, <2>1 DEF IInv, Shape
  <2>4. QED
    BY <1>3, <2>2, <2>3 DEF TypeOK, IInv, Shape, RetOK
<1>4. QED
  BY <1>1, <1>2, <1>3, TablesInvariant, PTL DEF Spec

-----------------------------------------------------------------------------
(* The refinement of PartialMap: kv is what all tables of the stack hold.  *)
MapOf(S) == [k \in {e.key : e \in S} |-> (CHOOSE e \in S : e.key = k).data]

Keyed(S) == S \subseteq Entry /\ \A x, y \in S : x.key = y.key => x = y

LEMMA MapOfIs ==
  ASSUME NEW S, Keyed(S)
  PROVE  /\ DOMAIN MapOf(S) = {e.key : e \in S}
         /\ \A e \in S : MapOf(S)[e.key] = e.data
<1>1. DOMAIN MapOf(S) = {e.key : e \in S}
  BY DEF MapOf
<1>2. ASSUME NEW e \in S PROVE MapOf(S)[e.key] = e.data
  <2>1. MapOf(S)[e.key] = (CHOOSE x \in S : x.key = e.key).data
    BY DEF MapOf
  <2>2. (CHOOSE x \in S : x.key = e.key) = e
    BY DEF Keyed
  <2>3. QED
    BY <2>1, <2>2
<1>3. QED
  BY <1>1, <1>2

(* Two functions with one domain and the same values are one.              *)
LEMMA SameFunction ==
  ASSUME NEW f, NEW g, f = [x \in DOMAIN f |-> f[x]], g = [x \in DOMAIN g |-> g[x]],
         DOMAIN f = DOMAIN g, \A x \in DOMAIN f : f[x] = g[x]
  PROVE  f = g
OBVIOUS

LEMMA MapOfFunction == ASSUME NEW S PROVE MapOf(S) = [k \in DOMAIN MapOf(S) |-> MapOf(S)[k]]
BY DEF MapOf

LEMMA MapPlus ==
  ASSUME NEW S, Keyed(S), NEW e \in Entry
  PROVE  LET T == {x \in S : x.key # e.key} \cup {e}
         IN  Keyed(T) /\ MapOf(T) = Map!With(MapOf(S), e.key, e.data)
<1> DEFINE T == {x \in S : x.key # e.key} \cup {e}
           f == MapOf(T)
           g == Map!With(MapOf(S), e.key, e.data)
<1>1. Keyed(T)
  BY DEF Keyed
<1>2. /\ DOMAIN f = {x.key : x \in T} /\ \A x \in T : f[x.key] = x.data
      /\ f = [x \in DOMAIN f |-> f[x]]
  BY <1>1, MapOfIs, MapOfFunction
<1>3. /\ DOMAIN g = {x.key : x \in S} \cup {e.key}
      /\ g[e.key] = e.data /\ \A x \in S : x.key # e.key => g[x.key] = x.data
      /\ g = [x \in DOMAIN g |-> g[x]]
  BY MapOfIs DEF Map!With
<1> HIDE DEF f, g
<1>4. DOMAIN f = DOMAIN g
  BY <1>2, <1>3
<1>5. \A k \in DOMAIN f : f[k] = g[k]
  BY <1>2, <1>3
<1>6. f = g
  BY <1>2, <1>3, <1>4, <1>5, SameFunction
<1>7. QED
  BY <1>1, <1>6 DEF f, g

LEMMA MapMinus ==
  ASSUME NEW S, Keyed(S), NEW ks
  PROVE  LET T == {x \in S : x.key \notin ks}
         IN  Keyed(T) /\ MapOf(T) = Map!Without(MapOf(S), ks)
<1> DEFINE T == {x \in S : x.key \notin ks}
           f == MapOf(T)
           g == Map!Without(MapOf(S), ks)
<1>1. Keyed(T)
  BY DEF Keyed
<1>2. /\ DOMAIN f = {x.key : x \in T} /\ \A x \in T : f[x.key] = x.data
      /\ f = [x \in DOMAIN f |-> f[x]]
  BY <1>1, MapOfIs, MapOfFunction
<1>3. /\ DOMAIN g = {x.key : x \in S} \ ks
      /\ \A x \in S : x.key \notin ks => g[x.key] = x.data
      /\ g = [x \in DOMAIN g |-> g[x]]
  BY MapOfIs DEF Map!Without
<1> HIDE DEF f, g
<1>4. DOMAIN f = DOMAIN g
  BY <1>2, <1>3
<1>5. \A k \in DOMAIN f : f[k] = g[k]
  BY <1>2, <1>3
<1>6. f = g
  BY <1>2, <1>3, <1>4, <1>5, SameFunction
<1>7. QED
  BY <1>1, <1>6 DEF f, g

LEMMA StoredIsHeld ==
  ASSUME IInv
  PROVE  Stored = UNION {Held(m[n]) : n \in DOMAIN m} /\ Keyed(Stored)
<1>1. \A n \in DOMAIN m : /\ m[n] \in LiveTables \cup DeadTables /\ Sound(hash, m[n])
                          /\ InUse(m[n]) \subseteq 0 .. MaxTable
                          /\ Held(m[n]) \subseteq Entry
                          /\ \A x, y \in Held(m[n]) : x.key = y.key => x = y
  <2>1. \A n \in DOMAIN m : m[n] \in LiveTables \cup DeadTables /\ Sound(hash, m[n])
    BY DeadOrLive DEF IInv, AllSound
  <2>2. \A t \in LiveTables : InUse(t) \subseteq 0 .. MaxTable
    BY InUseFinite, LiveTable, SizesAssumption
  <2>3. \A t \in DeadTables : InUse(t) = {} /\ Held(t) = {}
    BY DeadSound DEF Held
  <2>4. QED
    BY <2>1, <2>2, <2>3, HeldEntries
<1>2. \A x : x \in Stored <=> \E n \in DOMAIN m : x \in Held(m[n])
  <2>1. ASSUME NEW x \in Stored PROVE \E n \in DOMAIN m : x \in Held(m[n])
    BY <2>1 DEF Stored, Places, Held
  <2>2. ASSUME NEW n \in DOMAIN m, NEW x \in Held(m[n]) PROVE x \in Stored
    <3>1. PICK i \in InUse(m[n]) : x = m[n].data[i]
      BY DEF Held
    <3>2. <<n, i>> \in Places
      BY <1>1, <3>1 DEF Places
    <3>3. QED
      BY <3>1, <3>2 DEF Stored
  <2>3. QED
    BY <2>1, <2>2
<1>3. Stored = UNION {Held(m[n]) : n \in DOMAIN m}
  BY <1>2
<1>4. Keyed(Stored)
  BY <1>1, <1>2 DEF Keyed, IInv, Apart
<1>5. QED
  BY <1>3, <1>4

LEMMA StoredOne ==
  ASSUME IInv, NEW t, m = <<t>>
  PROVE  Stored = Held(t)
<1>1. DOMAIN m = {1} /\ m[1] = t
  OBVIOUS
<1>2. \A x : x \in Stored <=> \E n \in DOMAIN m : x \in Held(m[n])
  BY StoredIsHeld
<1>3. \A x : x \in Stored <=> x \in Held(t)
  BY <1>1, <1>2
<1>4. QED
  BY <1>3

kvNow == MapOf(Stored)

LEMMA StoredIsHeldNext ==
  ASSUME IInv'
  PROVE  Stored' = UNION {Held(m'[n]) : n \in DOMAIN m'} /\ Keyed(Stored')
<1>1. (Stored = UNION {Held(m[n]) : n \in DOMAIN m} /\ Keyed(Stored))'
  BY StoredIsHeld, PTL
<1>2. QED
  BY <1>1

LEMMA StoredFromOne ==
  ASSUME IInv, Len(m) = 1
  PROVE  Stored = Held(m[1])
<1>1. m = <<m[1]>>
  BY DEF IInv, Shape
<1>2. QED
  BY <1>1, StoredOne

LEMMA StoredToOne ==
  ASSUME IInv', NEW t, m' = <<t>>
  PROVE  Stored' = Held(t)
<1>1. DOMAIN m' = {1} /\ m'[1] = t
  OBVIOUS
<1>2. \A x : x \in Stored' <=> \E n \in DOMAIN m' : x \in Held(m'[n])
  BY StoredIsHeldNext
<1>3. \A x : x \in Stored' <=> x \in Held(t)
  BY <1>1, <1>2
<1>4. QED
  BY <1>3

(* A finished put is the abstract one.                                     *)
LEMMA PutReturnsRefines ==
  ASSUME IInv, IInv', PutReturns
  PROVE  \E k \in Keys, v \in Values :
           kvNow' = Map!With(kvNow, k, v) /\ ret' = <<k, Done>>
<1>1. /\ m' = <<Filled(Top, Pending)>> /\ Placing /\ Accepts(Top, Pending.key)
      /\ Len(m) = 1 /\ ret' = <<call.key, Done>> /\ hash \in Hashes
  BY DEF PutReturns, IInv, Shape
<1>2. Pending = call /\ Top = m[1]
  BY <1>1 DEF Pending, Top
<1>3. call \in Entry /\ m[1] \in LiveTables /\ Sound(hash, m[1])
  BY <1>1, <1>2, PlacingFacts
<1>4. Accepted(m[1], call.key) # {}
  BY <1>1, <1>2 DEF Accepts
<1>5. Held(Filled(m[1], call)) = {x \in Held(m[1]) : x.key # call.key} \cup {call}
  BY <1>1, <1>3, <1>4, HeldFilled
<1>6. Stored = Held(m[1]) /\ Keyed(Stored)
  BY <1>1, StoredFromOne, StoredIsHeld
<1>7. Stored' = {x \in Stored : x.key # call.key} \cup {call}
  BY <1>1, <1>2, <1>5, <1>6, StoredToOne
<1>8. kvNow' = Map!With(kvNow, call.key, call.data)
  BY <1>3, <1>6, <1>7, MapPlus DEF kvNow
<1>9. QED
  BY <1>1, <1>3, <1>8, EntryFields

(* The steps of a rehash are invisible: what leaves one table is in the    *)
(* other.                                                                  *)
LEMMA MoveRefines == ASSUME IInv, IInv', Move PROVE Stored' = Stored
<1> DEFINE n == Len(m)
           e == Pending
<1>1. /\ hash \in Hashes
      /\ m' = [m EXCEPT ![n] = Filled(Top, e), ![n - 1] = Blanked(Below, First(InUse(Below)))]
      /\ n > 1 /\ Placing /\ Accepts(Top, e.key)
  BY DEF Move, IInv, Shape
<1>2. n \in Nat \ {0} /\ DOMAIN m = 1 .. n
  BY DeadOrLive
<1>3. /\ e \in Entry /\ Top \in LiveTables /\ Sound(hash, Top)
      /\ Below \in LiveTables /\ Sound(hash, Below)
      /\ First(InUse(Below)) \in InUse(Below) /\ e = Below.data[First(InUse(Below))]
      /\ Top = m[n] /\ Below = m[n - 1]
  BY <1>1, PlacingFacts DEF Top, Below
<1>4. Accepted(Top, e.key) # {}
  BY <1>1 DEF Accepts
<1>5. Held(Filled(Top, e)) = {x \in Held(Top) : x.key # e.key} \cup {e}
  BY <1>1, <1>3, <1>4, HeldFilled, ZenonT(60)
<1>6. Held(Blanked(Below, First(InUse(Below)))) = {x \in Held(Below) : x.key # e.key}
  BY <1>3, HeldBlanked
<1>7. e \in Held(Below)
  BY <1>3 DEF Held
<1> HIDE DEF n, e
<1>8. (\A x \in Held(Top) : x.key # e.key) /\ \A x \in Held(Below) : x.key = e.key => x = e
  <2>1. \A x \in Held(Top) : x.key # e.key
    <3>1. n \in DOMAIN m /\ n - 1 \in DOMAIN m /\ n # n - 1
      BY <1>1, <1>2
    <3>2. \A x \in Held(m[n]), y \in Held(m[n - 1]) : x.key # y.key
      BY <3>1 DEF IInv, Apart
    <3>3. QED
      BY <1>3, <1>7, <3>2
  <2>2. QED
    BY <1>3, <1>7, <2>1, HeldEntries
<1>9. /\ DOMAIN m' = 1 .. n
      /\ Held(m'[n]) = Held(m[n]) \cup {e}
      /\ Held(m'[n - 1]) = Held(m[n - 1]) \ {e}
      /\ \A a \in 1 .. n \ {n, n - 1} : m'[a] = m[a]
  <2>1. /\ DOMAIN m' = 1 .. n
        /\ m'[n] = Filled(Top, e) /\ m'[n - 1] = Blanked(Below, First(InUse(Below)))
        /\ \A a \in 1 .. n \ {n, n - 1} : m'[a] = m[a]
    BY <1>1, <1>2
  <2>2. {x \in Held(Top) : x.key # e.key} = Held(Top)
    BY <1>8
  <2>3. {x \in Held(Below) : x.key # e.key} = Held(Below) \ {e}
    BY <1>7, <1>8
  <2>4. QED
    BY <1>3, <1>5, <1>6, <2>1, <2>2, <2>3
<1>10. (\A x : x \in Stored <=> \E a \in DOMAIN m : x \in Held(m[a]))
       /\ (\A x : x \in Stored <=> \E a \in DOMAIN m : x \in Held(m[a]))'
  <2>1. \A x : x \in Stored <=> \E a \in DOMAIN m : x \in Held(m[a])
    BY StoredIsHeld
  <2>2. (Stored = UNION {Held(m[a]) : a \in DOMAIN m})'
    BY StoredIsHeldNext
  <2>3. QED
    BY <2>1, <2>2
<1>11. \A x : x \in Stored' <=> x \in Stored
  <2>1. ASSUME NEW x \in Stored' PROVE x \in Stored
    <3>1. PICK a \in 1 .. n : x \in Held(m'[a])
      BY <1>9, <1>10
    <3>2. x \in Held(m[a]) \/ x \in Held(m[n - 1])
      BY <1>3, <1>7, <1>9, <3>1
    <3>3. QED
      BY <1>1, <1>2, <1>10, <3>2
  <2>2. ASSUME NEW x \in Stored PROVE x \in Stored'
    <3>1. PICK a \in 1 .. n : x \in Held(m[a])
      BY <1>2, <1>10
    <3>2. x \in Held(m'[a]) \/ x \in Held(m'[n])
      BY <1>3, <1>7, <1>9, <3>1
    <3>3. QED
      BY <1>1, <1>2, <1>9, <1>10, <3>2
  <2>3. QED
    BY <2>1, <2>2
<1>12. QED
  BY <1>11

LEMMA GrowRefines == ASSUME IInv, IInv', Grow PROVE Stored' = Stored
<1> DEFINE n == Len(m)
           t == Fresh(2 * Top.table_size)
<1>1. m' = Append(m, t)
  BY DEF Grow
<1>2. n \in Nat \ {0} /\ DOMAIN m = 1 .. n /\ m \in Seq(LiveTables \cup DeadTables)
  BY DeadOrLive DEF IInv, Shape
<1>3. Held(t) = {}
  BY DEF Held, InUse, Fresh
<1> HIDE DEF n, t
<1>4. DOMAIN m' = 1 .. n + 1 /\ m'[n + 1] = t /\ \A a \in 1 .. n : m'[a] = m[a]
  BY <1>1, <1>2 DEF n
<1>5. Stored = UNION {Held(m[a]) : a \in DOMAIN m}
  BY StoredIsHeld
<1>6. (Stored = UNION {Held(m[a]) : a \in DOMAIN m})'
  BY StoredIsHeldNext
<1>7. \A x : x \in Stored' <=> x \in Stored
  BY <1>2, <1>3, <1>4, <1>5, <1>6
<1>8. QED
  BY <1>7

LEMMA AdoptRefines == ASSUME IInv, IInv', Adopt PROVE Stored' = Stored
<1> DEFINE n == Len(m)
<1>1. n > 1 /\ m' = Append(SubSeq(m, 1, n - 2), m[n]) /\ InUse(m[n - 1]) = {}
  BY DEF Adopt, Top, Below, Placing
<1>2. n \in Nat \ {0} /\ DOMAIN m = 1 .. n /\ m \in Seq(LiveTables \cup DeadTables)
  BY DeadOrLive DEF IInv, Shape
<1>3. Held(m[n - 1]) = {}
  BY <1>1 DEF Held
<1> HIDE DEF n
<1>4. /\ SubSeq(m, 1, n - 2) \in Seq(LiveTables \cup DeadTables)
      /\ Len(SubSeq(m, 1, n - 2)) = n - 2
      /\ \A a \in 1 .. n - 2 : SubSeq(m, 1, n - 2)[a] = m[a]
  BY <1>1, <1>2 DEF n
<1>5. DOMAIN m' = 1 .. n - 1 /\ m'[n - 1] = m[n] /\ \A a \in 1 .. n - 2 : m'[a] = m[a]
  BY <1>1, <1>2, <1>4
<1>6. Stored = UNION {Held(m[a]) : a \in DOMAIN m}
  BY StoredIsHeld
<1>7. (Stored = UNION {Held(m[a]) : a \in DOMAIN m})'
  BY StoredIsHeldNext
<1>8. \A x : x \in Stored' <=> x \in Stored
  <2>1. ASSUME NEW x \in Stored' PROVE x \in Stored
    <3>1. PICK a \in 1 .. n - 1 : x \in Held(m'[a])
      BY <1>5, <1>7
    <3>2. QED
      BY <1>1, <1>2, <1>5, <1>6, <3>1
  <2>2. ASSUME NEW x \in Stored PROVE x \in Stored'
    <3>1. PICK a \in 1 .. n : x \in Held(m[a])
      BY <1>2, <1>6
    <3>2. a # n - 1
      BY <1>3, <3>1
    <3>3. CASE a = n
      BY <1>1, <1>2, <1>5, <1>7, <3>1, <3>3
    <3>4. CASE a \in 1 .. n - 2
      BY <1>1, <1>2, <1>5, <1>7, <3>1, <3>4, SMTT(30)
    <3>5. QED
      BY <1>1, <1>2, <3>2, <3>3, <3>4
  <2>3. QED
    BY <2>1, <2>2
<1>9. QED
  BY <1>8

(* A rehash that fails may lose what had moved, and nothing else.          *)
LEMMA GrowFailsRefines ==
  ASSUME IInv, IInv', GrowFails
  PROVE  \E k \in Keys : ret' = <<k, Failed>> /\
           \E lost \in SUBSET DOMAIN kvNow : kvNow' = Map!Without(kvNow, lost)
<1>1. m' = <<m[1]>> /\ ret' = <<call.key, Failed>> /\ Placing
  BY DEF GrowFails
<1>2. call.key \in Keys
  BY <1>1, PlacingFacts, EntryFields
<1>3. Stored = UNION {Held(m[n]) : n \in DOMAIN m} /\ Keyed(Stored)
  BY StoredIsHeld
<1>4. 1 \in DOMAIN m
  BY DeadOrLive
<1>5. Held(m[1]) \subseteq Stored
  BY <1>3, <1>4
<1> DEFINE lost == {x.key : x \in Stored \ Held(m[1])}
<1>6. Held(m[1]) = {x \in Stored : x.key \notin lost}
  BY <1>3, <1>5 DEF Keyed
<1>7. Stored' = Held(m[1])
  BY <1>1, StoredToOne
<1>8. lost \in SUBSET DOMAIN kvNow
  <2>1. DOMAIN kvNow = {x.key : x \in Stored}
    BY <1>3, MapOfIs DEF kvNow
  <2>2. QED
    BY <2>1
<1> HIDE DEF lost
<1>9. kvNow' = Map!Without(kvNow, lost)
  BY <1>3, <1>6, <1>7, MapMinus DEF kvNow
<1>10. QED
  BY <1>1, <1>2, <1>8, <1>9

(* A lookup answers with what the abstract map holds.                      *)
LEMMA LookupRefines ==
  ASSUME IInv, Idle, ~Dead, NEW k \in Keys
  PROVE  /\ Matches(m[1], k) = {} <=> k \notin DOMAIN kvNow
         /\ Matches(m[1], k) # {} => m[1].data[At(m[1], k)].data = kvNow[k]
<1>1. m[1] \in LiveTables /\ Sound(hash, m[1]) /\ hash \in Hashes /\ Len(m) = 1
  BY IdleMap
<1>2. Stored = Held(m[1]) /\ Keyed(Stored)
  BY <1>1, StoredFromOne, StoredIsHeld
<1>3. DOMAIN kvNow = {e.key : e \in Stored} /\ \A e \in Stored : kvNow[e.key] = e.data
  BY <1>2, MapOfIs DEF kvNow
<1>4. CASE Matches(m[1], k) = {}
  <2>1. \A e \in Stored : e.key # k
    BY <1>1, <1>2, <1>4, NoMatchNoKey DEF Held
  <2>2. QED
    BY <1>3, <1>4, <2>1
<1>5. CASE Matches(m[1], k) # {}
  <2>1. At(m[1], k) \in InUse(m[1]) /\ m[1].data[At(m[1], k)].key = k
    BY <1>1, <1>5, AtHoldsKey
  <2>2. m[1].data[At(m[1], k)] \in Stored
    BY <1>2, <2>1 DEF Held
  <2>3. QED
    BY <1>3, <1>5, <2>1, <2>2
<1>6. QED
  BY <1>4, <1>5

LEMMA RemoveRefines ==
  ASSUME IInv, IInv', NEW k \in Keys, HashmapRemove(k)
  PROVE  kvNow' = Map!Without(kvNow, {k}) /\ k \in DOMAIN kvNow
<1>1. /\ m' = <<Blanked(m[1], At(m[1], k))>>
      /\ Idle /\ ~Dead /\ Matches(m[1], k) # {}
  BY DEF HashmapRemove
<1>2. m[1] \in LiveTables /\ Sound(hash, m[1]) /\ hash \in Hashes /\ Len(m) = 1
  BY <1>1, IdleMap
<1>3. Stored = Held(m[1]) /\ Keyed(Stored)
  BY <1>2, StoredFromOne, StoredIsHeld
<1>4. At(m[1], k) \in InUse(m[1]) /\ m[1].data[At(m[1], k)].key = k
  BY <1>1, <1>2, AtHoldsKey
<1>5. Held(Blanked(m[1], At(m[1], k))) = {x \in Held(m[1]) : x.key # k}
  BY <1>2, <1>4, HeldBlanked
<1>6. Stored' = {x \in Stored : x.key \notin {k}}
  BY <1>1, <1>3, <1>5, StoredToOne
<1>7. QED
  BY <1>1, <1>3, <1>6, MapMinus, LookupRefines DEF kvNow

(* A walk that is not stopped drops all it was told to, one that is a part.*)
LEMMA IterateRefines ==
  ASSUME IInv, IInv', NEW f \in Callbacks, HashmapIterate(f.drop, f.stop)
  PROVE  \/ kvNow' = Map!Without(kvNow, f.drop) /\ ret' = <<Null, Done>>
         \/ \E ks \in SUBSET f.drop : kvNow' = Map!Without(kvNow, ks) /\ ret' = <<Null, Failed>>
<1> DEFINE t == m[1]
           halts == {i \in InUse(t) : t.data[i].key \in f.stop}
           gone == Gone(t, f.drop, f.stop)
<1>1. /\ m' = <<Swept(t, gone)>> /\ Idle /\ ~Dead
      /\ ret' = <<Null, IF halts = {} THEN Done ELSE Failed>>
  BY DEF HashmapIterate, Gone, Swept
<1>2. t \in LiveTables /\ Sound(hash, t) /\ Len(m) = 1
  BY <1>1, IdleMap
<1>3. gone \in SUBSET InUse(t)
  BY DEF Gone
<1>4. Stored = Held(t) /\ Keyed(Stored)
  BY <1>2, StoredFromOne, StoredIsHeld
<1>5. Stored' = {t.data[j] : j \in InUse(t) \ gone}
  BY <1>1, <1>2, <1>3, HeldSwept, StoredToOne
<1> DEFINE ks == {t.data[j].key : j \in gone}
<1>6. ks \in SUBSET f.drop
  BY DEF Gone
<1>7. Stored' = {x \in Stored : x.key \notin ks}
  BY <1>2, <1>3, <1>4, <1>5 DEF Held, Sound, Distinct
<1>8. CASE halts = {}
  <2>1. gone = {i \in InUse(t) : t.data[i].key \in f.drop}
    BY <1>8 DEF Gone
  <2>2. Stored' = {x \in Stored : x.key \notin f.drop}
    BY <1>4, <1>5, <2>1 DEF Held
  <2>3. QED
    BY <1>1, <1>4, <1>8, <2>2, MapMinus DEF kvNow
<1>9. CASE halts # {}
  <2> HIDE DEF ks, gone, halts
  <2>1. kvNow' = Map!Without(kvNow, ks)
    BY <1>4, <1>7, MapMinus DEF kvNow
  <2>2. QED
    BY <1>1, <1>6, <1>9, <2>1
<1>10. QED
  BY <1>8, <1>9

(* A map that is created, refused or destroyed is empty.                   *)
LEMMA EmptyMap == MapOf({}) = [k \in {} |-> Null]
BY DEF MapOf

LEMMA CreateRefines ==
  ASSUME IInv, IInv', NEW n,
         HashmapCreate(n) \/ HashmapCreateFails(n) \/ HashmapDestroy
  PROVE  kvNow' = [k \in {} |-> Null] /\ ret' \in {Null} \X {Done, Failed}
<1>1. PICK t : m' = <<t>> /\ Held(t) = {}
  <2>1. Held(Fresh(n)) = {} /\ Held(Zeroed) = {} /\ Held([Zeroed EXCEPT !.table_size = n]) = {}
    BY DEF Held, InUse, Fresh, Zeroed
  <2>2. QED
    BY <2>1 DEF HashmapCreate, HashmapCreateFails, HashmapDestroy
<1>2. Stored' = {}
  BY <1>1, StoredToOne
<1>3. kvNow' = [k \in {} |-> Null]
  BY <1>2, EmptyMap DEF kvNow
<1>4. QED
  BY <1>3 DEF HashmapCreate, HashmapCreateFails, HashmapDestroy

(* The hash map keeps its promise: through any rehash, and any that fails, *)
(* it answers its callers as the partial map of PartialMap does, and its   *)
(* steps between a call and its answer change nothing they can see.        *)
THEOREM MapIsPromised == Spec => Promises
<1>1. Init => Map!Init
  <2>1. SUFFICES ASSUME Init PROVE kvNow = [k \in {} |-> Null] /\ ret = <<Null, Done>>
    BY DEF Map!Init, kvNow, MapOf
  <2>2. m = <<Zeroed>> /\ ret = <<Null, Done>> /\ Held(Zeroed) = {}
    BY <2>1 DEF Init, Held, InUse, Zeroed
  <2>3. Stored = {}
    BY <2>1, <2>2, InitIInv, StoredOne
  <2>4. QED
    BY <2>2, <2>3, EmptyMap DEF kvNow
<1>2. IInv /\ IInv' /\ [Next]_vars => Map!Next \/ UNCHANGED <<kvNow, ret>>
  <2> SUFFICES ASSUME IInv, IInv', [Next]_vars
               PROVE  Map!Next \/ UNCHANGED <<kvNow, ret>>
    OBVIOUS
  <2>1. ASSUME NEW n, HashmapCreate(n) \/ HashmapCreateFails(n) \/ HashmapDestroy
        PROVE  Map!Next
    <3>1. kvNow' = [k \in {} |-> Null] /\ ret' \in {Null} \X {Done, Failed}
      BY <2>1, CreateRefines
    <3>2. Map!Reset
      BY <3>1 DEF Map!Reset, kvNow, MapOf
    <3>3. QED
      BY <3>2 DEF Map!Next
  <2>2. CASE PutReturns
    <3>1. PICK k \in Keys, v \in Values : kvNow' = Map!With(kvNow, k, v) /\ ret' = <<k, Done>>
      BY <2>2, PutReturnsRefines
    <3>2. Map!Put(k, v)
      BY <3>1 DEF Map!Put, kvNow, MapOf
    <3>3. QED
      BY <3>2 DEF Map!Next
  <2>3. CASE GrowFails
    <3>1. PICK k \in Keys : ret' = <<k, Failed>> /\
             \E lost \in SUBSET DOMAIN kvNow : kvNow' = Map!Without(kvNow, lost)
      BY <2>3, GrowFailsRefines
    <3>2. Map!PutFails(k)
      BY <3>1 DEF Map!PutFails, kvNow, MapOf
    <3>3. QED
      BY <3>2 DEF Map!Next
  <2>4. ASSUME NEW k \in Keys, HashmapGet(k) PROVE Map!Next
    <3>1. /\ ret' = <<k, IF k \in DOMAIN kvNow THEN kvNow[k] ELSE Null>>
      BY <2>4, LookupRefines DEF HashmapGet
    <3>2. kvNow' = kvNow
      BY <2>4 DEF HashmapGet, kvNow, MapOf, Stored, Places, InUse
    <3>3. Map!Get(k)
      BY <3>1, <3>2 DEF Map!Get, kvNow, MapOf
    <3>4. QED
      BY <3>3 DEF Map!Next
  <2>5. ASSUME NEW k \in Keys, HashmapRemove(k) PROVE Map!Next
    <3>1. kvNow' = Map!Without(kvNow, {k}) /\ k \in DOMAIN kvNow /\ ret' \in {k} \X {Done, k}
      BY <2>5, RemoveRefines DEF HashmapRemove
    <3>2. Map!Remove(k)
      BY <3>1 DEF Map!Remove, kvNow, MapOf
    <3>3. QED
      BY <3>2 DEF Map!Next
  <2>6. ASSUME NEW k \in Keys, HashmapRemoveFails(k) PROVE Map!Next
    <3>1. k \notin DOMAIN kvNow /\ ret' \in {k} \X {Failed, Null}
      BY <2>6, LookupRefines DEF HashmapRemoveFails
    <3>2. kvNow' = kvNow
      BY <2>6 DEF HashmapRemoveFails, kvNow, MapOf, Stored, Places, InUse
    <3>3. Map!Without(kvNow, {k}) = kvNow
      <4>1. kvNow = [x \in DOMAIN kvNow |-> kvNow[x]]
        BY MapOfFunction DEF kvNow
      <4>2. QED
        BY <3>1, <4>1 DEF Map!Without
    <3>4. Map!Remove(k)
      BY <3>1, <3>2, <3>3 DEF Map!Remove, kvNow, MapOf
    <3>5. QED
      BY <3>4 DEF Map!Next
  <2>7. ASSUME NEW f \in Callbacks, HashmapIterate(f.drop, f.stop) PROVE Map!Next
    <3>1. f.drop \in SUBSET Keys
      BY CallbacksAssumption
    <3>2. Map!Walk(f.drop)
      BY <2>7, IterateRefines DEF Map!Walk, kvNow, MapOf
    <3>3. QED
      BY <3>1, <3>2 DEF Map!Next
  <2>8. ASSUME Move \/ Grow \/ Adopt PROVE UNCHANGED <<kvNow, ret>>
    <3>1. Stored' = Stored /\ ret' = ret
      BY <2>8, MoveRefines, GrowRefines, AdoptRefines DEF Move, Grow, Adopt
    <3>2. QED
      BY <3>1 DEF kvNow
  <2>9. ASSUME UNCHANGED <<m, ret>> PROVE UNCHANGED <<kvNow, ret>>
    BY <2>9 DEF kvNow, Stored, Places, InUse
  <2>10. ASSUME NEW k \in Keys, NEW v \in Values, HashmapPut(k, v) PROVE UNCHANGED <<m, ret>>
    BY <2>10 DEF HashmapPut
  <2>11. UNCHANGED vars => UNCHANGED <<m, ret>>
    BY DEF vars
  <2>12. QED
    BY <2>1, <2>2, <2>3, <2>4, <2>5, <2>6, <2>7, <2>8, <2>9, <2>10, <2>11 DEF Next, PutStep
<1>3. IInv /\ IInv' /\ [Next]_vars =>
        [Map!Next]_<<[k \in {e.key : e \in Stored} |-> (CHOOSE e \in Stored : e.key = k).data], ret>>
  BY <1>2 DEF kvNow, MapOf
<1>4. QED
  BY <1>1, <1>3, TablesInvariant, PTL DEF Spec, Promises, Map!Spec

-----------------------------------------------------------------------------
(* Why a put ends.  The entries that the innermost rehash has still to     *)
(* move out of the old table.                                              *)
Left == IF Len(m) = 1 THEN 0 ELSE Cardinality(InUse(Below))

(* Every step of a put that does not end it lets the newest table grow or, *)
(* leaving its size alone, ends a rehash or moves one entry on.            *)
Advances ==
  [][call # NoCall /\ call' # NoCall =>
       \/ Top.table_size < (Top.table_size)'
       \/ /\ (Top.table_size)' = Top.table_size
          /\ Len(m') < Len(m) \/ (Len(m') = Len(m) /\ Left' < Left)]_vars

(* Each table of a nested rehash is at least twice the one it is filled    *)
(* from, and none outgrows the allocator: the nesting of the calls is at   *)
(* most the logarithm of the largest table.                                *)
Doubling ==
  /\ \A n \in 1 .. Len(m) - 1 :
       0 < m[n].table_size /\ 2 * m[n].table_size <= m[n + 1].table_size
  /\ call # NoCall => Top.table_size \in 0 .. MaxTable

LEMMA MoveTables ==
  ASSUME IInv, Move
  PROVE  /\ Len(m') = Len(m) /\ Len(m) > 1
         /\ InUse(m'[Len(m) - 1]) = InUse(Below) \ {First(InUse(Below))}
         /\ First(InUse(Below)) \in InUse(Below) /\ IsFiniteSet(InUse(Below))
         /\ \A a \in 1 .. Len(m) : m'[a].table_size = m[a].table_size
<1> DEFINE n == Len(m)
           u == Filled(Top, Pending)
           i == First(InUse(Below))
           w == Blanked(Below, i)
<1>1. m' = [m EXCEPT ![n] = u, ![n - 1] = w] /\ n > 1 /\ Placing
  BY DEF Move
<1>2. n \in Nat \ {0} /\ DOMAIN m = 1 .. n /\ m \in Seq(LiveTables \cup DeadTables)
  BY DeadOrLive DEF IInv, Shape
<1>3. /\ Top \in LiveTables /\ Below \in LiveTables /\ Sound(hash, Below)
      /\ i \in InUse(Below) /\ Top = m[n] /\ Below = m[n - 1]
  BY <1>1, PlacingFacts DEF Top, Below
<1>4. u.table_size = Top.table_size
  <2> DEFINE s == IF Top.data[FillAt(Top, Pending.key)] = Hole THEN Top.size + 1 ELSE Top.size
             d == [Top.data EXCEPT ![FillAt(Top, Pending.key)] = Pending]
  <2>1. u = [table_size |-> Top.table_size, size |-> s, data |-> d]
    BY <1>3, FilledIs
  <2> HIDE DEF u, s, d
  <2>2. QED
    BY <2>1, TableFields
<1>5. w.table_size = Below.table_size
  <2> DEFINE s == Below.size - 1
             d == [Below.data EXCEPT ![i] = Hole]
  <2>1. w = [table_size |-> Below.table_size, size |-> s, data |-> d]
    BY <1>3, BlankedIs
  <2> HIDE DEF w, s, d
  <2>2. QED
    BY <2>1, TableFields
<1>6. InUse(w) = InUse(Below) \ {i} /\ IsFiniteSet(InUse(Below))
  BY <1>3, BlankedSound, InUseFinite
<1> HIDE DEF n, u, w, i
<1>7. /\ Len(m') = n /\ m'[n] = u /\ m'[n - 1] = w
      /\ \A a \in 1 .. n \ {n, n - 1} : m'[a] = m[a]
  BY <1>1, <1>2
<1>8. \A a \in 1 .. n : m'[a].table_size = m[a].table_size
  BY <1>3, <1>4, <1>5, <1>7
<1>9. QED
  BY <1>1, <1>3, <1>6, <1>7, <1>8 DEF n, i

LEMMA GrowTables ==
  ASSUME IInv, Grow
  PROVE  /\ Len(m') = Len(m) + 1 /\ Top.table_size \in 1 .. MaxTable
         /\ m'[Len(m) + 1].table_size = 2 * Top.table_size
         /\ 2 * Top.table_size <= MaxTable
         /\ \A a \in 1 .. Len(m) : m'[a] = m[a]
<1> DEFINE n == Len(m)
           t == Fresh(2 * Top.table_size)
<1>1. /\ m' = Append(m, t) /\ Placing
      /\ Top.table_size > 0 /\ 2 * Top.table_size <= MaxTable
  BY DEF Grow
<1>2. n \in Nat \ {0} /\ m \in Seq(LiveTables \cup DeadTables)
  BY DeadOrLive DEF IInv, Shape
<1>3. Top \in LiveTables
  BY <1>1, PlacingFacts
<1>4. Top.table_size \in 1 .. MaxTable
  BY <1>3, LiveTable
<1>5. t.table_size = 2 * Top.table_size
  BY DEF Fresh
<1> HIDE DEF n, t
<1>6. Len(m') = n + 1 /\ m'[n + 1] = t /\ \A a \in 1 .. n : m'[a] = m[a]
  BY <1>1, <1>2 DEF n
<1>7. QED
  BY <1>1, <1>4, <1>5, <1>6 DEF n

LEMMA AdoptTables ==
  ASSUME IInv, Adopt
  PROVE  /\ Len(m) > 1 /\ Len(m') = Len(m) - 1
         /\ m'[Len(m) - 1] = m[Len(m)]
         /\ \A a \in 1 .. Len(m) - 2 : m'[a] = m[a]
<1> DEFINE n == Len(m)
<1>1. n > 1 /\ m' = Append(SubSeq(m, 1, n - 2), m[n])
  BY DEF Adopt, Top
<1>2. n \in Nat \ {0} /\ DOMAIN m = 1 .. n /\ m \in Seq(LiveTables \cup DeadTables)
  BY DeadOrLive DEF IInv, Shape
<1> HIDE DEF n
<1>3. /\ SubSeq(m, 1, n - 2) \in Seq(LiveTables \cup DeadTables)
      /\ Len(SubSeq(m, 1, n - 2)) = n - 2
      /\ \A a \in 1 .. n - 2 : SubSeq(m, 1, n - 2)[a] = m[a]
  BY <1>1, <1>2 DEF n
<1>4. Len(m') = n - 1 /\ m'[n - 1] = m[n] /\ \A a \in 1 .. n - 2 : m'[a] = m[a]
  BY <1>1, <1>2, <1>3, SMTT(30)
<1>5. QED
  BY <1>1, <1>4 DEF n

(* A call that is under way is all that runs.                              *)
LEMMA UnderWay ==
  ASSUME [Next]_vars, call # NoCall, call' # NoCall
  PROVE  Move \/ Grow \/ Adopt \/ UNCHANGED vars
  BY DEF Next, PutStep, PutReturns, GrowFails, HashmapCreate, HashmapCreateFails, HashmapPut,
         HashmapGet, HashmapRemove, HashmapRemoveFails, HashmapIterate, HashmapDestroy, Idle

(* A put cannot go on for ever: each of its steps lowers a measure that is *)
(* well founded, the size of the newest table being bounded (Advances).    *)
THEOREM PutAdvances == Spec => Advances
<1>1. ASSUME IInv, [Next]_vars
      PROVE  [call # NoCall /\ call' # NoCall =>
                \/ Top.table_size < (Top.table_size)'
                \/ /\ (Top.table_size)' = Top.table_size
                   /\ Len(m') < Len(m) \/ (Len(m') = Len(m) /\ Left' < Left)]_vars
  <2> SUFFICES ASSUME call # NoCall, call' # NoCall, ~UNCHANGED vars
               PROVE  \/ Top.table_size < (Top.table_size)'
                      \/ /\ (Top.table_size)' = Top.table_size
                         /\ Len(m') < Len(m) \/ (Len(m') = Len(m) /\ Left' < Left)
    OBVIOUS
  <2>1. Len(m) \in Nat \ {0}
    BY <1>1, DeadOrLive
  <2>2. CASE Move
    <3>1. /\ Len(m') = Len(m) /\ Len(m) > 1
          /\ InUse(m'[Len(m) - 1]) = InUse(Below) \ {First(InUse(Below))}
          /\ First(InUse(Below)) \in InUse(Below) /\ IsFiniteSet(InUse(Below))
          /\ m'[Len(m)].table_size = m[Len(m)].table_size
      BY <1>1, <2>1, <2>2, MoveTables
    <3>2. (Top.table_size)' = Top.table_size
      BY <3>1 DEF Top
    <3>3. /\ Cardinality(InUse(Below)) \in Nat
          /\ Cardinality(InUse(m'[Len(m) - 1])) = Cardinality(InUse(Below)) - 1
      BY <3>1, FS_RemoveElement, FS_CardinalityType
    <3>4. Left = Cardinality(InUse(Below)) /\ Left' = Cardinality(InUse(m'[Len(m) - 1]))
      BY <3>1 DEF Left, Below, InUse
    <3>5. Left' < Left
      BY <3>3, <3>4
    <3>6. QED
      BY <3>1, <3>2, <3>5
  <2>3. CASE Grow
    <3>1. /\ Len(m') = Len(m) + 1 /\ Top.table_size \in 1 .. MaxTable
          /\ m'[Len(m) + 1].table_size = 2 * Top.table_size
      BY <1>1, <2>3, GrowTables
    <3>2. (Top.table_size)' = 2 * Top.table_size
      BY <3>1 DEF Top
    <3>3. QED
      BY <3>1, <3>2
  <2>4. CASE Adopt
    <3>1. Len(m') = Len(m) - 1 /\ m'[Len(m) - 1] = m[Len(m)]
      BY <1>1, <2>4, AdoptTables
    <3>2. (Top.table_size)' = Top.table_size /\ Len(m') < Len(m)
      BY <2>1, <3>1 DEF Top
    <3>3. QED
      BY <3>2
  <2>5. QED
    BY <1>1, <2>2, <2>3, <2>4, UnderWay
<1>2. QED
  BY <1>1, TablesInvariant, PTL DEF Spec, Advances

(* The recursion of hashmap_put through hashmap_rehash_helper is bounded,  *)
(* whatever the hashes: Doubling.                                          *)
THEOREM NestingIsBounded == Spec => []Doubling
<1> DEFINE Steps == \A n \in 1 .. Len(m) - 1 :
                      0 < m[n].table_size /\ 2 * m[n].table_size <= m[n + 1].table_size
<1>1. Init => Steps
  BY DEF Init
<1>2. ASSUME IInv, Steps, [Next]_vars PROVE Steps'
  <2>1. Len(m) \in Nat \ {0}
    BY <1>2, DeadOrLive
  <2>2. ASSUME Len(m') = 1 PROVE Steps'
    BY <2>2
  <2>3. CASE Move
    <3>1. Len(m') = Len(m) /\ \A a \in 1 .. Len(m) : m'[a].table_size = m[a].table_size
      BY <1>2, <2>3, MoveTables
    <3>2. QED
      BY <1>2, <2>1, <3>1
  <2>4. CASE Grow
    <3>1. /\ Len(m') = Len(m) + 1 /\ Top.table_size \in 1 .. MaxTable
          /\ m'[Len(m) + 1].table_size = 2 * Top.table_size
          /\ \A a \in 1 .. Len(m) : m'[a] = m[a]
      BY <1>2, <2>4, GrowTables
    <3>2. Top = m[Len(m)]
      BY DEF Top
    <3>3. QED
      BY <1>2, <2>1, <3>1, <3>2, SMTT(30)
  <2>5. CASE Adopt
    <3>1. /\ Len(m) > 1 /\ Len(m') = Len(m) - 1
          /\ m'[Len(m) - 1] = m[Len(m)]
          /\ \A a \in 1 .. Len(m) - 2 : m'[a] = m[a]
      BY <1>2, <2>5, AdoptTables
    <3>2. \A n \in DOMAIN m : m[n] \in LiveTables
      BY <1>2, <3>1 DEF IInv, Shape
    <3>3. DOMAIN m = 1 .. Len(m)
      BY <1>2, DeadOrLive
    <3>4. \A n \in 1 .. Len(m) : m[n].table_size \in Nat \ {0}
      BY <3>2, <3>3, LiveTable
    <3>5. ASSUME NEW n \in 1 .. Len(m') - 1
          PROVE  0 < m'[n].table_size /\ 2 * m'[n].table_size <= m'[n + 1].table_size
      <4>1. n \in 1 .. Len(m) - 2 /\ m'[n] = m[n]
        BY <2>1, <3>1
      <4>2. 0 < m[n].table_size /\ 2 * m[n].table_size <= m[n + 1].table_size
        BY <1>2, <2>1, <4>1
      <4>3. CASE n + 1 = Len(m) - 1
        <5>1. m'[n + 1] = m[Len(m)]
          BY <3>1, <4>3
        <5>2. 2 * m[Len(m) - 1].table_size <= m[(Len(m) - 1) + 1].table_size
          BY <1>2, <2>1, <3>1, SMTT(30)
        <5>3. (Len(m) - 1) + 1 = Len(m)
          BY <2>1
        <5>4. /\ m[n].table_size \in Nat /\ m[n + 1].table_size \in Nat
              /\ m[Len(m)].table_size \in Nat
          BY <2>1, <3>4, <4>1
        <5>5. QED
          BY <4>1, <4>2, <4>3, <5>1, <5>2, <5>3, <5>4, SMTT(30)
      <4>4. CASE n + 1 \in 1 .. Len(m) - 2
        BY <3>1, <4>1, <4>2, <4>4
      <4>5. QED
        BY <2>1, <4>1, <4>3, <4>4
    <3>6. QED
      BY <3>5
  <2>6. ASSUME call # NoCall, call' # NoCall PROVE Steps'
    <3>1. CASE UNCHANGED vars
      BY <1>2, <3>1 DEF vars
    <3>2. QED
      BY <1>2, <2>3, <2>4, <2>5, <2>6, <3>1, UnderWay
  <2>7. ASSUME call = NoCall \/ call' = NoCall PROVE Len(m') = 1
    <3>1. IInv'
      BY <1>2, NextIInv
    <3>2. call' = NoCall => Len(m') = 1
      <4>1. Len(m') \in Nat \ {0}
        BY <3>1 DEF IInv, Shape
      <4>2. Len(m') > 1 => call' # NoCall
        BY <3>1 DEF IInv, Shape
      <4>3. QED
        BY <4>1, <4>2, SMTT(30)
    <3>3. call = NoCall => Len(m) = 1
      <4>1. call = NoCall => ~(Len(m) > 1)
        BY <1>2 DEF IInv, Shape
      <4>2. Len(m) = 1 \/ Len(m) > 1
        <5>1. \A k \in Nat \ {0} : k = 1 \/ k > 1
          OBVIOUS
        <5>2. QED
          BY <2>1, <5>1, Zenon
      <4>3. QED
        BY <4>1, <4>2, SMTT(30)
    <3>4. ASSUME call = NoCall, call' # NoCall PROVE m' = m
      BY <1>2, <3>4, HoleAssumption DEF Next, PutStep, PutReturns, GrowFails, Move, Grow, Adopt, vars,
         HashmapCreate, HashmapCreateFails, HashmapPut, Placing, HashmapGet, HashmapRemove,
         HashmapRemoveFails, HashmapIterate, HashmapDestroy, Idle
    <3>5. QED
      BY <2>7, <3>2, <3>3, <3>4
  <2>8. QED
    BY <2>2, <2>6, <2>7
<1>3. ASSUME IInv, Steps PROVE Doubling
  <2>1. Len(m) \in 1 .. Len(m) /\ DOMAIN m = 1 .. Len(m)
    BY <1>3, DeadOrLive
  <2>2. call # NoCall => Top \in LiveTables \cup {Zeroed}
    BY <1>3, <2>1 DEF Top, IInv, Shape
  <2>3. Zeroed.table_size = 0
    BY DEF Zeroed
  <2>4. call # NoCall => Top.table_size \in 0 .. MaxTable
    BY <2>2, <2>3, LiveTable, SizesAssumption
  <2>5. QED
    BY <1>3, <2>4 DEF Doubling
<1> HIDE DEF Steps
<1>4. QED
  BY <1>1, <1>2, <1>3, TablesInvariant, PTL DEF Spec
=============================================================================
