------------------------------- MODULE MCNet -------------------------------
(***************************************************************************)
(* Small instances of Net: two hosts, an odd message whose words carry     *)
(* twice when summed, and an empty one.                                    *)
(***************************************************************************)
EXTENDS Net

SomeMessages ==
  {[head |-> 2048, stale |-> 65535, payload |-> <<65535, 65535, 63490>>, odd |-> <<255>>],
   [head |-> 0, stale |-> 0, payload |-> <<>>, odd |-> <<>>]}
=============================================================================
