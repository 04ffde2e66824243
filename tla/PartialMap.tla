----------------------------- MODULE PartialMap -----------------------------
(***************************************************************************)
(* What a hash map promises its callers: a partial function from keys to   *)
(* values that answers every call with what was last put there.  A put     *)
(* that fails for want of memory may forget entries, but invents none.     *)
(***************************************************************************)
CONSTANTS Key, Value, Absent, Done, Failed

VARIABLES
  kv,    \* the entries, a function on a subset of Key
  ret    \* the key the last call was about, or Absent, and what it returned

Without(f, ks) == [k \in DOMAIN f \ ks |-> f[k]]

With(f, key, value) ==
  [k \in DOMAIN f \cup {key} |-> IF k = key THEN value ELSE f[k]]

Init == kv = [k \in {} |-> Absent] /\ ret = <<Absent, Done>>

Put(k, v) == kv' = With(kv, k, v) /\ ret' = <<k, Done>>

PutFails(k) ==
  \E lost \in SUBSET DOMAIN kv : kv' = Without(kv, lost) /\ ret' = <<k, Failed>>

Get(k) ==
  /\ ret' = <<k, IF k \in DOMAIN kv THEN kv[k] ELSE Absent>>
  /\ UNCHANGED kv

Remove(k) ==
  /\ ret' \in {k} \X (IF k \in DOMAIN kv THEN {Done, k} ELSE {Failed, Absent})
  /\ kv' = Without(kv, {k})

(* A walk the callback lets finish drops all it was told to drop, one the  *)
(* callback stops a part of it.                                            *)
Walk(drop) ==
  \/ kv' = Without(kv, drop) /\ ret' = <<Absent, Done>>
  \/ \E ks \in SUBSET drop : kv' = Without(kv, ks) /\ ret' = <<Absent, Failed>>

Reset == kv' = [k \in {} |-> Absent] /\ ret' \in {Absent} \X {Done, Failed}

Next ==
  \/ \E k \in Key : Get(k) \/ Remove(k) \/ PutFails(k) \/ (\E v \in Value : Put(k, v))
  \/ \E drop \in SUBSET Key : Walk(drop)
  \/ Reset

Spec == Init /\ [][Next]_<<kv, ret>>
=============================================================================
