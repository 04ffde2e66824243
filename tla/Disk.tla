-------------------------------- MODULE Disk --------------------------------
(***************************************************************************)
(* What the block layer relies on: a request for sectors of a drive moves  *)
(* those sectors between the drive and the buffer it names, touches        *)
(* nothing else, and ends only when all of them have been moved.  A drive  *)
(* that is not usable may refuse it.                                       *)
(***************************************************************************)
EXTENDS Naturals

CONSTANTS Requests, NoRequest

VARIABLES
  disk,      \* the sectors of the drive
  mem,       \* memory, by the sector
  req,       \* the request in progress
  usable     \* whether the drive can take requests

vars == <<disk, mem, req>>

Sectors == 0 .. req.n - 1

Init == req = NoRequest

Call ==
  /\ req = NoRequest
  /\ req' \in Requests
  /\ UNCHANGED <<disk, mem>>

Read ==
  /\ req # NoRequest /\ req.op = "read"
  /\ \E i \in Sectors : mem' = [mem EXCEPT ![req.buf + i] = disk[req.lba + i]]
  /\ UNCHANGED <<disk, req>>

Write ==
  /\ req # NoRequest /\ req.op = "write"
  /\ \E i \in Sectors : disk' = [disk EXCEPT ![req.lba + i] = mem[req.buf + i]]
  /\ UNCHANGED <<mem, req>>

Done ==
  /\ req # NoRequest
  /\ \A i \in Sectors : mem[req.buf + i] = disk[req.lba + i]
  /\ req' = NoRequest
  /\ UNCHANGED <<disk, mem>>

Refuse ==
  /\ req # NoRequest /\ ~usable
  /\ req' = NoRequest
  /\ UNCHANGED <<disk, mem>>

Next == Call \/ Read \/ Write \/ Done \/ Refuse

Spec == Init /\ [][Next]_vars
=============================================================================
