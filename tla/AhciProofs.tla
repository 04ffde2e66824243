----------------------------- MODULE AhciProofs -----------------------------
(***************************************************************************)
(* Proofs about Ahci, for any number of ports, slots and requests.         *)
(***************************************************************************)
EXTENDS Ahci, TLAPS

Quiet(p) == ci[p] = {} /\ cur[p] = None

(* Why a slot found free is free: a port the driver has set up is quiet    *)
(* except while send_cmd waits for its command, so find_cmdslot always     *)
(* finds slot 0, the one slot send_cmd's wait is right for.  A command     *)
(* being executed holds the port's CR, and is still issued as long as ST   *)
(* is set.                                                                 *)
HeldByCr ==
  \A p \in Ports : cur[p] # None => p \in cr /\ (p \in st => cur[p] \in ci[p])

QuietPorts == \A p \in base : (pc = "ci" /\ p = port) \/ Quiet(p)

SlotInv ==
  /\ HeldByCr
  /\ QuietPorts
  /\ pc \in {"st_on", "fre_on"} \cup OnSlot => port \in base
  /\ main_drive # None => main_drive \in base
  /\ pc = "fre_off" => port \notin fre
  /\ pc = "st_off" => port \notin fre \cup fr \cup st /\ ci[port] = {}
  /\ pc \in OnSlot => slot = 0
  /\ pc \in {"issue", "ci"} => port \in st
  /\ pc = "ci" => ci[port] \subseteq {0} /\ cur[port] \in {None, 0}

(* Why the data is there when a call returns: what slot 0 holds is the     *)
(* request, the sectors moved so far are a prefix of it, and slot 0 leaves *)
(* PxCI only when the prefix is everything.  No other command that a port  *)
(* may still execute touches the disk or the memory of a caller.           *)
Match(i) == mem[req.buf + i] = disk[req.lba + i]

DataInv ==
  /\ disk \in [0 .. DiskSize - 1 -> Nat] /\ mem \in [0 .. MemSize - 1 -> Nat]
  /\ \A p \in Ports \ base : \A s \in Slots : tbl[p][s] = Leftover
  /\ pc \in OnSlot => tbl[port][0] = IF req = NoRequest THEN Identify ELSE req
  /\ req # NoRequest => pc \in OnSlot \cup {"find_slot"}
  /\ pc = "ci" /\ req # NoRequest =>
       /\ cur[port] = 0 =>
            moved[port] \in 0 .. req.n /\ \A i \in 0 .. moved[port] - 1 : Match(i)
       /\ ci[port] = {} => \A i \in 0 .. req.n - 1 : Match(i)
  /\ pc = "st_clear" /\ req # NoRequest => \A i \in 0 .. req.n - 1 : Match(i)

Covered ==
  /\ DiskSize \in Nat /\ MemSize \in Nat
  /\ \A r \in Requests : r.n >= 1 /\ r.lba + r.n <= DiskSize /\ r.buf + r.n <= MemSize

-----------------------------------------------------------------------------
LEMMA InitType == Init => TypeOK
<1> SUFFICES ASSUME Init
             PROVE  TypeOK
  OBVIOUS
<1> USE PortsAssumption DEF None, Slots
<1>1. /\ ci \in [Ports -> SUBSET Slots]
      /\ cur \in [Ports -> Slots \cup {None}] /\ moved \in [Ports -> Nat]
  BY DEF Init
<1>2. tbl \in [Ports -> [Slots -> Commands]]
  BY DEF Init, Commands
<1>3. /\ cap \subseteq {"bit0", "s64a"} /\ boh \in BOOLEAN /\ bos \in BOOLEAN
      /\ sata \subseteq Ports /\ st \subseteq Ports /\ fre \subseteq Ports
      /\ cr \subseteq Ports /\ fr \subseteq Ports /\ bsy \subseteq Ports
      /\ tfes \subseteq Ports /\ todo \subseteq Ports /\ base \subseteq Ports
  BY DEF Init
<1>4. /\ pc = "handoff" /\ port = None /\ slot = None /\ n_cmdslots = 0
      /\ main_drive = None /\ drive_count = 0 /\ req = NoRequest /\ calls = 0
  BY DEF Init
<1>5. QED
  BY <1>1, <1>2, <1>3, <1>4 DEF TypeOK, Pcs, OnPort, OnSlot

LEMMA NextType == TypeOK /\ [Next]_vars => TypeOK'
<1> SUFFICES ASSUME TypeOK, [Next]_vars
             PROVE  TypeOK'
  OBVIOUS
<1> USE PortsAssumption DEF TypeOK, hba, fixed, setup, caller, data, Slots
<1>1. ASSUME NEW p \in Ports, Engine(p)
      PROVE  TypeOK'
  BY <1>1, ZenonT(30) DEF Engine, CommandListOn, CommandListOff
<1>2. ASSUME NEW p \in Ports, Fis(p)
      PROVE  TypeOK'
  BY <1>2, ZenonT(30) DEF Fis, FisReceive
<1>3. ASSUME NEW p \in Ports, Execute(p)
      PROVE  TypeOK'
  <2>1. CASE DriveReady(p)
    BY <1>3, <2>1 DEF Execute, DriveReady
  <2>2. CASE Fetch(p)
    BY <1>3, <2>2, SMTT(30) DEF Execute, Fetch
  <2>3. CASE Transfer(p)
    <3>1. /\ moved' \in [Ports -> Nat]
          /\ UNCHANGED <<st, fre, cr, fr, bsy, ci, cur, tfes>>
      BY <2>3 DEF Transfer
    <3>2. UNCHANGED <<fixed, bos, pc, port, slot, setup, tbl, caller>>
      BY <1>3 DEF Execute
    <3>3. QED
      BY <3>1, <3>2
  <2>4. CASE Complete(p)
    BY <1>3, <2>4 DEF Execute, Complete
  <2>5. QED
    BY <1>3, <2>1, <2>2, <2>3, <2>4 DEF Execute
<1>4. ASSUME NEW p \in Ports, Fail(p)
      PROVE  TypeOK'
  BY <1>4 DEF Fail, TaskFileError
<1>5. CASE TakeOwnership \/ VerifyOwnership
  BY <1>5 DEF TakeOwnership, VerifyOwnership, Pcs, OnPort, OnSlot
<1>6. CASE ReadHbaCap
  <2>1. /\ pc' = "ports" \/ pc' = "aborted"
        /\ n_cmdslots' \in 0 .. HwSlots - 1 \/ n_cmdslots' = n_cmdslots
        /\ todo' = Ports \/ todo' = todo
    BY <1>6, Zenon DEF ReadHbaCap
  <2>2. UNCHANGED <<hba, st, fre, cr, fr, ci, port, slot, base, main_drive, drive_count, tbl, caller>>
    BY <1>6 DEF ReadHbaCap
  <2>3. n_cmdslots' \in 0 .. HwSlots - 1
    <3>1. HwSlots \in 1 .. 32 /\ n_cmdslots \in 0 .. HwSlots - 1
      BY PortsAssumption DEF TypeOK
    <3>2. QED
      BY <2>1, <3>1
  <2>4. todo' \subseteq Ports
    BY <2>1 DEF TypeOK
  <2>5. pc' \in Pcs /\ pc' \notin OnPort /\ pc' \notin OnSlot /\ pc' # "find_slot"
    BY <2>1 DEF Pcs, OnPort, OnSlot
  <2>6. QED
    BY <2>2, <2>3, <2>4, <2>5
<1>7. CASE SkipPort
  BY <1>7 DEF SkipPort, Pcs, OnPort, OnSlot
<1>8. CASE InitPort
  BY <1>8 DEF InitPort, Pcs, OnPort, OnSlot
<1>9. CASE StopEngine
  BY <1>9 DEF StopEngine, ClearSt, Pcs, OnPort, OnSlot
<1>10. CASE SetUpPort
  BY <1>10 DEF SetUpPort, Pcs, OnPort, OnSlot
<1>11. CASE StartFis
  BY <1>11 DEF StartFis, Pcs, OnPort, OnSlot
<1>12. CASE GetPortInfo
  <2>1. PICK s \in Slots : tbl' = [tbl EXCEPT ![port][s] = Identify] /\ slot' = s
    BY <1>12 DEF GetPortInfo, Prepare
  <2>2. /\ UNCHANGED <<hba, st, fre, cr, fr, ci, port, setup, caller>>
        /\ pc = "fre_on" /\ pc' = "busy"
    BY <1>12 DEF GetPortInfo
  <2>3. port \in Ports
    BY <2>2 DEF TypeOK, OnPort
  <2>4. tbl' \in [Ports -> [Slots -> Commands]]
    BY <2>1, <2>3 DEF TypeOK, Commands
  <2>5. pc' \in Pcs /\ pc' # "find_slot"
    BY <2>2 DEF Pcs
  <2>6. QED
    BY <2>1, <2>2, <2>3, <2>4, <2>5
<1>13. CASE GetPortInfoNoSlot
  BY <1>13, SMTT(30) DEF GetPortInfoNoSlot, PortDone, Pcs, OnPort, OnSlot
<1>14. CASE InitDone
  BY <1>14 DEF InitDone, Pcs, OnPort, OnSlot
<1>15. CASE Call
  BY <1>15, SMTT(30) DEF Call, Pcs, OnPort, OnSlot
<1>16. CASE PrepRwOp
  BY <1>16, SMTT(30) DEF PrepRwOp, Prepare, Commands, Pcs, OnPort, OnSlot
<1>17. CASE NoSlot
  BY <1>17 DEF NoSlot, Pcs, OnPort, OnSlot
<1>18. CASE WaitReady
  BY <1>18 DEF WaitReady, ClearSt, Pcs, OnPort, OnSlot
<1>19. CASE Restart
  BY <1>19 DEF Restart, Pcs, OnPort, OnSlot
<1>20. CASE Issue
  BY <1>20 DEF Issue, Pcs, OnPort, OnSlot
<1>21. CASE WaitDone
  BY <1>21 DEF WaitDone, ClearSt, Pcs, OnPort, OnSlot
<1>22. CASE IdentifyDone
  <2>1. /\ UNCHANGED <<hba, st, cr, fr, ci, port, slot, tbl, caller>>
        /\ fre' = fre \ {port} /\ todo' = todo \ {port} /\ base' = base
        /\ n_cmdslots' = n_cmdslots /\ drive_count' = drive_count + 1
        /\ pc = "st_clear" /\ pc' = "ports"
    BY <1>22 DEF IdentifyDone, FisOff, PortDone
  <2>2. main_drive' = IF main_drive = None THEN port ELSE main_drive
    BY <1>22 DEF IdentifyDone, PortDone
  <2>3. port \in Ports
    BY <2>1 DEF TypeOK, OnPort
  <2>4. main_drive' \in Ports
    BY <2>2, <2>3 DEF TypeOK
  <2>5. drive_count' \in Nat
    BY <2>1 DEF TypeOK
  <2>6. pc' \in Pcs /\ pc' \notin OnPort /\ pc' \notin OnSlot /\ pc' # "find_slot"
    BY <2>1 DEF Pcs, OnPort, OnSlot
  <2>7. QED
    BY <2>1, <2>4, <2>5, <2>6
<1>23. CASE Return
  <2>1. /\ UNCHANGED <<hba, st, cr, fr, ci, port, slot, setup, tbl, calls>>
        /\ fre' = fre \ {port} /\ req' = NoRequest /\ pc' = "idle"
    BY <1>23 DEF Return, FisOff
  <2>2. pc' \in Pcs /\ pc' \notin OnPort /\ pc' \notin OnSlot /\ pc' # "find_slot"
    BY <2>1 DEF Pcs, OnPort, OnSlot
  <2>3. QED
    BY <2>1, <2>2
<1>24. CASE BiosReleases
  BY <1>24 DEF BiosReleases, port_regs
<1>25. CASE UNCHANGED vars
  BY <1>25 DEF vars, bios, port_regs
<1>26. QED
  BY <1>1, <1>2, <1>3, <1>4, <1>5, <1>6, <1>7, <1>8, <1>9, <1>10, <1>11, <1>12,
     <1>13, <1>14, <1>15, <1>16, <1>17, <1>18, <1>19, <1>20, <1>21, <1>22, <1>23,
     <1>24, <1>25 DEF Next, Driver

(* Every variable of the driver keeps its type, for any number of ports    *)
(* and slots.                                                              *)
THEOREM TypeCorrect == Spec => []TypeOK
  BY InitType, NextType, PTL DEF Spec

-----------------------------------------------------------------------------
(* Only VerifyOwnership leads on to the ports, when it has read the BOS    *)
(* bit as 0, and the firmware never takes the HBA back.                    *)
LEMMA NextOwns == OwnsHba /\ [Next]_vars => OwnsHba'
<1> SUFFICES ASSUME OwnsHba, [Next]_vars
             PROVE  OwnsHba'
  OBVIOUS
<1> USE DEF OwnsHba, hba
<1>1. CASE Call \/ BiosReleases
  BY <1>1 DEF Call, BiosReleases
<1>2. ASSUME NEW p \in Ports, Engine(p) \/ Fis(p) \/ Execute(p) \/ Fail(p)
      PROVE  OwnsHba'
  BY <1>2 DEF Engine, Fis, Execute, Fail
<1>3. CASE TakeOwnership
  BY <1>3 DEF TakeOwnership
<1>4. CASE VerifyOwnership
  BY <1>4 DEF VerifyOwnership
<1>5. CASE ReadHbaCap \/ SkipPort \/ InitPort \/ StopEngine \/ SetUpPort \/ StartFis
  BY <1>5 DEF ReadHbaCap, SkipPort, InitPort, StopEngine, SetUpPort, StartFis
<1>6. CASE GetPortInfo \/ GetPortInfoNoSlot \/ InitDone \/ PrepRwOp \/ NoSlot
  BY <1>6 DEF GetPortInfo, GetPortInfoNoSlot, InitDone, PrepRwOp, NoSlot
<1>7. CASE WaitReady \/ Restart \/ Issue \/ WaitDone \/ IdentifyDone \/ Return
  BY <1>7 DEF WaitReady, Restart, Issue, WaitDone, IdentifyDone, Return
<1>8. CASE UNCHANGED vars
  BY <1>8 DEF vars, bios
<1>9. QED
  BY <1>1, <1>2, <1>3, <1>4, <1>5, <1>6, <1>7, <1>8 DEF Next, Driver

(* The driver comes to the ports only when the BIOS has let go of the HBA, *)
(* for any number of ports and slots.                                      *)
THEOREM HbaIsOurs == Spec => []OwnsHba
<1>1. Init => OwnsHba
  BY DEF Init, OwnsHba
<1>2. QED
  BY <1>1, NextOwns, PTL DEF Spec

-----------------------------------------------------------------------------
LEMMA InitSlotInv == Init => SlotInv
  BY DEF Init, SlotInv, HeldByCr, QuietPorts, OnSlot, None

(* With nothing issued on the port, the slot found is slot 0.              *)
LEMMA FirstSlot ==
  ASSUME NEW p \in Ports, NEW s \in Slots, ci[p] = {}, FindCmdslot(p, s),
         n_cmdslots \in Int
  PROVE  s = 0
<1>1. s \in 0 .. n_cmdslots - 1 /\ \A t \in FreeSlots(p) : s <= t
  BY DEF FindCmdslot, FreeSlots
<1>2. 0 \in FreeSlots(p)
  BY <1>1 DEF FreeSlots
<1>3. QED
  BY <1>1, <1>2

LEMMA NextSlotInv == TypeOK /\ SlotInv /\ [Next]_vars => SlotInv'
<1> SUFFICES ASSUME TypeOK, SlotInv, [Next]_vars
             PROVE  SlotInv'
  OBVIOUS
<1> USE DEF SlotInv, HeldByCr, QuietPorts, Quiet, hba, fixed, setup, caller, data, OnSlot
<1>0. /\ port \in Ports \cup {None} /\ sata \subseteq Ports /\ base \subseteq Ports
      /\ pc \in OnPort => port \in Ports
      /\ ci \in [Ports -> SUBSET Slots] /\ cur \in [Ports -> Slots \cup {None}]
      /\ fre \subseteq Ports /\ cr \subseteq Ports /\ st \subseteq Ports
      /\ n_cmdslots \in Int /\ None \notin Slots
  BY PortsAssumption DEF TypeOK, Slots, None
<1>1. ASSUME NEW p \in Ports, Engine(p)
      PROVE  SlotInv'
  BY <1>0, <1>1 DEF Engine, CommandListOn, CommandListOff
<1>2. ASSUME NEW p \in Ports, Fis(p)
      PROVE  SlotInv'
  BY <1>0, <1>2 DEF Fis, FisReceive
<1>3. ASSUME NEW p \in Ports, Execute(p)
      PROVE  SlotInv'
  <2>1. CASE DriveReady(p)
    BY <1>0, <1>3, <2>1 DEF Execute, DriveReady
  <2>2. CASE Fetch(p)
    BY <1>0, <1>3, <2>2 DEF Execute, Fetch, Running
  <2>3. CASE Transfer(p)
    <3>1. UNCHANGED <<st, fre, cr, fr, ci, cur>>
      BY <2>3 DEF Transfer
    <3>2. UNCHANGED <<pc, port, slot, base, main_drive>>
      BY <1>3 DEF Execute
    <3>3. QED
      BY <3>1, <3>2
  <2>4. CASE Complete(p)
    BY <1>0, <1>3, <2>4 DEF Execute, Complete
  <2>5. QED
    BY <1>3, <2>1, <2>2, <2>3, <2>4 DEF Execute
<1>4. ASSUME NEW p \in Ports, Fail(p)
      PROVE  SlotInv'
  BY <1>0, <1>4 DEF Fail, TaskFileError
<1>5. CASE TakeOwnership \/ VerifyOwnership
  BY <1>5 DEF TakeOwnership, VerifyOwnership
<1>6. CASE ReadHbaCap
  <2>1. pc = "capabilities" /\ (pc' = "ports" \/ pc' = "aborted")
    BY <1>6, Zenon DEF ReadHbaCap
  <2>2. UNCHANGED <<st, fre, cr, fr, ci, cur, port, slot, base, main_drive>>
    BY <1>6 DEF ReadHbaCap
  <2>3. QED
    BY <2>1, <2>2
<1>7. CASE SkipPort
  BY <1>7 DEF SkipPort
<1>8. CASE InitPort
  BY <1>0, <1>8 DEF InitPort
<1>9. CASE StopEngine
  BY <1>0, <1>9 DEF StopEngine, ClearSt, OnPort
<1>10. CASE SetUpPort
  BY <1>0, <1>10 DEF SetUpPort, OnPort
<1>11. CASE StartFis
  BY <1>0, <1>11 DEF StartFis
<1>12. CASE GetPortInfo
  <2>1. PICK s \in Slots : FindCmdslot(port, s) /\ slot' = s
    BY <1>12 DEF GetPortInfo
  <2>2. pc = "fre_on" /\ pc' = "busy" /\ port \in Ports /\ ci[port] = {}
    BY <1>0, <1>12 DEF GetPortInfo, OnPort
  <2>3. slot' = 0
    BY <1>0, <2>1, <2>2, FirstSlot
  <2>4. UNCHANGED <<st, fre, cr, fr, ci, cur, port, base, main_drive>>
    BY <1>12 DEF GetPortInfo
  <2>5. QED
    BY <2>2, <2>3, <2>4
<1>13. CASE GetPortInfoNoSlot
  BY <1>0, <1>13 DEF GetPortInfoNoSlot, PortDone
<1>14. CASE InitDone \/ Call \/ NoSlot
  BY <1>14 DEF InitDone, Call, NoSlot
<1>15. CASE PrepRwOp
  <2>1. PICK s \in Slots : FindCmdslot(main_drive, s) /\ slot' = s
    BY <1>15 DEF PrepRwOp
  <2>2. pc = "find_slot" /\ pc' = "busy" /\ port' = main_drive
    BY <1>15 DEF PrepRwOp
  <2>3. main_drive \in Ports /\ main_drive \in base /\ ci[main_drive] = {}
    <3>1. main_drive \in Ports
      BY <2>2 DEF TypeOK
    <3>2. main_drive # None
      BY <3>1, PortsAssumption DEF None
    <3>3. QED
      BY <2>2, <3>1, <3>2
  <2>4. slot' = 0
    BY <1>0, <2>1, <2>3, FirstSlot
  <2>5. UNCHANGED <<st, fre, cr, fr, ci, cur, base, main_drive>>
    BY <1>15 DEF PrepRwOp
  <2>6. QED
    BY <2>2, <2>3, <2>4, <2>5
<1>16. CASE WaitReady
  BY <1>0, <1>16 DEF WaitReady, ClearSt, OnPort
<1>17. CASE Restart
  BY <1>0, <1>17 DEF Restart, OnPort
<1>18. CASE Issue
  BY <1>0, <1>18 DEF Issue, OnPort
<1>19. CASE WaitDone
  BY <1>0, <1>19 DEF WaitDone, Awaited, ClearSt, OnPort
<1>20. CASE IdentifyDone
  BY <1>0, <1>20 DEF IdentifyDone, FisOff, PortDone
<1>21. CASE Return
  BY <1>0, <1>21 DEF Return, FisOff
<1>22. CASE BiosReleases
  BY <1>22 DEF BiosReleases, port_regs
<1>23. CASE UNCHANGED vars
  BY <1>23 DEF vars, bios, port_regs
<1>24. QED
  BY <1>1, <1>2, <1>3, <1>4, <1>5, <1>6, <1>7, <1>8, <1>9, <1>10, <1>11, <1>12,
     <1>13, <1>14, <1>15, <1>16, <1>17, <1>18, <1>19, <1>20, <1>21, <1>22, <1>23
     DEF Next, Driver

LEMMA Inductive == Spec => [](TypeOK /\ SlotInv)
<1>1. Init => TypeOK /\ SlotInv
  BY InitType, InitSlotInv
<1>2. TypeOK /\ SlotInv /\ [Next]_vars => (TypeOK /\ SlotInv)'
  BY NextType, NextSlotInv
<1>3. QED
  BY <1>1, <1>2, PTL DEF Spec

(* init_port_single gives a port its command list and FIS area only after  *)
(* both engines of the port are off, whatever the firmware left running.   *)
THEOREM StoppedWhenSetUp == Spec => EngineStopped
<1>1. TypeOK /\ SlotInv /\ [Next]_vars =>
        [\A p \in Ports : p \in base' \ base => p \notin cr \cup fr]_vars
  <2> SUFFICES ASSUME TypeOK, SlotInv, Next
               PROVE  \A p \in Ports : p \in base' \ base => p \notin cr \cup fr
    OBVIOUS
  <2>1. CASE SetUpPort
    BY <2>1 DEF SetUpPort, SlotInv
  <2>2. CASE ~SetUpPort
    <3>1. base' = base
      BY <2>2 DEF Next, Driver, Engine, Fis, Execute, Fail, BiosReleases,
         TakeOwnership, VerifyOwnership, ReadHbaCap, SkipPort, InitPort, StopEngine,
         StartFis, GetPortInfo, GetPortInfoNoSlot, PortDone, InitDone, Call, PrepRwOp,
         NoSlot, WaitReady, Restart, Issue, WaitDone, IdentifyDone, Return, setup
    <3>2. QED
      BY <3>1
  <2>3. QED
    BY <2>1, <2>2
<1>2. QED
  BY <1>1, Inductive, PTL DEF Spec, EngineStopped

(* A command header and its table are never rewritten under the HBA, also  *)
(* on an HBA that goes on executing until CR is off.                       *)
THEOREM SlotsIdle == Spec => SlotIdle
<1> DEFINE Rewrites ==
      \A p \in Ports : \A s \in Slots :
        tbl'[p][s] # tbl[p][s] => s \notin ci[p] /\ cur[p] # s
<1>1. TypeOK /\ SlotInv /\ [Next]_vars => [Rewrites]_vars
  <2> SUFFICES ASSUME TypeOK, SlotInv, Next
               PROVE  Rewrites
    OBVIOUS
  <2>0. tbl \in [Ports -> [Slots -> Commands]] /\ None \notin Slots
    BY PortsAssumption DEF TypeOK, Slots, None
  <2>1. ASSUME NEW q \in Ports, NEW s \in Slots, NEW c, q \in base, pc # "ci",
               FindCmdslot(q, s), Prepare(q, s, c)
        PROVE  Rewrites
    <3>1. s \notin ci[q] /\ cur[q] = None
      BY <2>1 DEF FindCmdslot, FreeSlots, SlotInv, QuietPorts, Quiet
    <3>2. \A p \in Ports : \A t \in Slots : tbl'[p][t] # tbl[p][t] => p = q /\ t = s
      BY <2>0, <2>1 DEF Prepare
    <3>3. QED
      BY <2>0, <3>1, <3>2
  <2>2. CASE GetPortInfo
    <3>1. port \in Ports /\ port \in base /\ pc = "fre_on"
      BY <2>2 DEF GetPortInfo, TypeOK, SlotInv, OnPort
    <3>2. PICK s \in Slots : FindCmdslot(port, s) /\ Prepare(port, s, Identify)
      BY <2>2 DEF GetPortInfo
    <3>3. QED
      BY <2>1, <3>1, <3>2
  <2>3. CASE PrepRwOp
    <3>1. main_drive \in Ports /\ main_drive # None /\ pc = "find_slot"
      BY <2>3, PortsAssumption DEF PrepRwOp, TypeOK, None
    <3>2. main_drive \in base
      BY <3>1 DEF SlotInv
    <3>3. PICK s \in Slots : FindCmdslot(main_drive, s) /\ Prepare(main_drive, s, req)
      BY <2>3 DEF PrepRwOp
    <3>4. QED
      BY <2>1, <3>1, <3>2, <3>3
  <2>4. CASE ~GetPortInfo /\ ~PrepRwOp
    <3>1. tbl' = tbl
      BY <2>4 DEF Next, Driver, Engine, Fis, Execute, Fail, BiosReleases,
         TakeOwnership, VerifyOwnership, ReadHbaCap, SkipPort, InitPort, StopEngine,
         SetUpPort, StartFis, GetPortInfoNoSlot, InitDone, Call,
         NoSlot, WaitReady, Restart, Issue, WaitDone, IdentifyDone, Return
    <3>2. QED
      BY <3>1
  <2>5. QED
    BY <2>2, <2>3, <2>4
<1>2. QED
  BY <1>1, Inductive, PTL DEF Spec, SlotIdle

-----------------------------------------------------------------------------
LEMMA InitDataInv == Covered /\ Init => DataInv
<1> SUFFICES ASSUME Covered, Init
             PROVE  DataInv
  OBVIOUS
<1>1. disk \in [0 .. DiskSize - 1 -> Nat] /\ mem \in [0 .. MemSize - 1 -> Nat]
  BY DEF Init, Covered
<1>2. \A p \in Ports \ base : \A s \in Slots : tbl[p][s] = Leftover
  BY DEF Init
<1>3. pc = "handoff" /\ req = NoRequest
  BY DEF Init
<1>4. QED
  BY <1>1, <1>2, <1>3 DEF DataInv, OnSlot

(* Of the commands ports execute, only the request in slot 0 of the port   *)
(* send_cmd waits on moves data of the callers.                            *)
Serving(p) == pc = "ci" /\ p = port /\ req # NoRequest

LEMMA WhatRuns ==
  ASSUME Covered, TypeOK, SlotInv, DataInv, NEW p \in Ports, cur[p] # None
  PROVE  IF Serving(p)
           THEN /\ cur[p] = 0 /\ tbl[p][cur[p]] = req
                /\ req \in Requests /\ req.op \in {"read", "write"}
                /\ req.n \in Nat /\ Count(req) = req.n
           ELSE tbl[p][cur[p]] \in {Identify, Leftover}
<1>1. cur[p] \in Slots
  BY DEF TypeOK
<1>2. CASE pc = "ci" /\ p = port
  <2>1. cur[p] = 0
    BY <1>2 DEF SlotInv
  <2>2. tbl[p][cur[p]] = IF req = NoRequest THEN Identify ELSE req
    BY <1>2, <2>1 DEF DataInv, OnSlot
  <2>3. req # NoRequest => req \in Requests /\ req.n >= 1
    BY DEF TypeOK, Covered
  <2>4. req # NoRequest => Count(req) = req.n /\ req.n \in Nat /\ req.op \in {"read", "write"}
    BY <2>3, RequestsAssumption DEF Count
  <2>5. QED
    BY <1>2, <2>1, <2>2, <2>3, <2>4 DEF Serving
<1>3. CASE ~(pc = "ci" /\ p = port)
  <2>1. p \notin base
    BY <1>3 DEF SlotInv, QuietPorts, Quiet
  <2>2. QED
    BY <1>1, <1>3, <2>1 DEF DataInv, Serving
<1>4. QED
  BY <1>2, <1>3

(* One sector of DMA moves the next sector of the request, or nothing that *)
(* a caller can see.                                                       *)
LEMMA WhatMoves ==
  ASSUME Covered, TypeOK, SlotInv, DataInv, NEW p \in Ports, Transfer(p)
  PROVE  IF Serving(p)
           THEN /\ cur[p] = 0 /\ req \in Requests /\ req.n \in Nat
                /\ moved[p] \in 0 .. req.n - 1
                /\ \/ /\ req.op = "read" /\ disk' = disk
                      /\ mem' = [mem EXCEPT ![req.buf + moved[p]] = disk[req.lba + moved[p]]]
                   \/ /\ req.op = "write" /\ mem' = mem
                      /\ disk' = [disk EXCEPT ![req.lba + moved[p]] = mem[req.buf + moved[p]]]
           ELSE UNCHANGED <<disk, mem>>
<1>1. cur[p] # None /\ moved[p] \in Nat
  BY DEF Transfer, TypeOK
<1> DEFINE c == tbl[p][cur[p]]
<1>2. /\ moved[p] < Count(c)
      /\ mem' = IF c.op = "read"
                  THEN [mem EXCEPT ![c.buf + moved[p]] = disk[c.lba + moved[p]]] ELSE mem
      /\ disk' = IF c.op = "write"
                   THEN [disk EXCEPT ![c.lba + moved[p]] = mem[c.buf + moved[p]]] ELSE disk
  BY DEF Transfer
<1>3. CASE ~Serving(p)
  <2>1. c \in {Identify, Leftover}
    BY <1>1, <1>3, WhatRuns
  <2>2. c.op # "read" /\ c.op # "write"
    BY <2>1 DEF Identify, Leftover
  <2>3. QED
    BY <1>2, <1>3, <2>2
<1>4. CASE Serving(p)
  <2>1. /\ cur[p] = 0 /\ c = req /\ req \in Requests /\ req.op \in {"read", "write"}
        /\ req.n \in Nat /\ Count(req) = req.n
    BY <1>1, <1>4, WhatRuns
  <2>2. moved[p] \in 0 .. req.n - 1
    BY <1>1, <1>2, <2>1
  <2>3. QED
    BY <1>2, <1>4, <2>1, <2>2
<1>5. QED
  BY <1>3, <1>4

(* After that sector, one more of the request matches.                     *)
LEMMA OneMore ==
  ASSUME Covered, DataInv, NEW i, req \in Requests, i \in 0 .. req.n - 1,
         \A j \in 0 .. i - 1 : Match(j), req' = req,
         \/ /\ disk' = disk
            /\ mem' = [mem EXCEPT ![req.buf + i] = disk[req.lba + i]]
         \/ /\ mem' = mem
            /\ disk' = [disk EXCEPT ![req.lba + i] = mem[req.buf + i]]
  PROVE  /\ \A j \in 0 .. i : Match(j)'
         /\ disk' \in [0 .. DiskSize - 1 -> Nat] /\ mem' \in [0 .. MemSize - 1 -> Nat]
<1>1. /\ req.lba \in Nat /\ req.buf \in Nat /\ req.n \in Nat
      /\ req.lba + req.n <= DiskSize /\ req.buf + req.n <= MemSize
      /\ DiskSize \in Nat /\ MemSize \in Nat
  BY RequestsAssumption DEF Covered
<1>2. disk \in [0 .. DiskSize - 1 -> Nat] /\ mem \in [0 .. MemSize - 1 -> Nat]
  BY DEF DataInv
<1>3. /\ \A j \in 0 .. i : req.lba + j \in 0 .. DiskSize - 1 /\ req.buf + j \in 0 .. MemSize - 1
      /\ req.lba + i \in 0 .. DiskSize - 1 /\ req.buf + i \in 0 .. MemSize - 1
  BY <1>1
<1>4. \A j \in 0 .. i : j \in 0 .. i - 1 \/ j = i
  BY <1>1
<1>5. CASE /\ disk' = disk
           /\ mem' = [mem EXCEPT ![req.buf + i] = disk[req.lba + i]]
  <2>1. mem' \in [0 .. MemSize - 1 -> Nat]
    BY <1>2, <1>3, <1>5
  <2>2. mem'[req.buf + i] = disk[req.lba + i]
    BY <1>1, <1>2, <1>3, <1>5
  <2>3. \A j \in 0 .. i - 1 : mem'[req.buf + j] = mem[req.buf + j]
    BY <1>1, <1>2, <1>3, <1>5
  <2>4. \A j \in 0 .. i : mem'[req'.buf + j] = disk'[req'.lba + j]
    BY <1>4, <1>5, <2>2, <2>3 DEF Match
  <2>5. QED
    BY <1>2, <1>5, <2>1, <2>4 DEF Match
<1>6. CASE /\ mem' = mem
           /\ disk' = [disk EXCEPT ![req.lba + i] = mem[req.buf + i]]
  <2>1. disk' \in [0 .. DiskSize - 1 -> Nat]
    BY <1>2, <1>3, <1>6
  <2>2. disk'[req.lba + i] = mem[req.buf + i]
    BY <1>1, <1>2, <1>3, <1>6
  <2>3. \A j \in 0 .. i - 1 : disk'[req.lba + j] = disk[req.lba + j]
    BY <1>1, <1>2, <1>3, <1>6, SMTT(30)
  <2>4. \A j \in 0 .. i : mem'[req'.buf + j] = disk'[req'.lba + j]
    BY <1>4, <1>6, <2>2, <2>3 DEF Match
  <2>5. QED
    BY <1>2, <1>6, <2>1, <2>4 DEF Match
<1>7. QED
  BY <1>5, <1>6

LEMMA NextDataInv ==
  Covered /\ TypeOK /\ SlotInv /\ DataInv /\ [Next]_vars => DataInv'
<1> SUFFICES ASSUME Covered, TypeOK, SlotInv, DataInv, [Next]_vars
             PROVE  DataInv'
  OBVIOUS
<1>0. /\ port \in Ports \cup {None} /\ sata \subseteq Ports /\ base \subseteq Ports
      /\ pc \in OnPort => port \in Ports
      /\ ci \in [Ports -> SUBSET Slots] /\ cur \in [Ports -> Slots \cup {None}]
      /\ moved \in [Ports -> Nat]
      /\ tbl \in [Ports -> [Slots -> Commands]]
      /\ None \notin Slots /\ 0 \in Slots
      /\ req # NoRequest => req \in Requests /\ req.n \in Nat /\ req.n >= 1
  <2>1. None \notin Slots /\ 0 \in Slots
    BY PortsAssumption DEF Slots, None
  <2>2. req # NoRequest => req \in Requests
    BY DEF TypeOK
  <2>3. \A r \in Requests : r.n \in Nat /\ r.n >= 1
    BY RequestsAssumption DEF Covered
  <2>4. QED
    BY <2>1, <2>2, <2>3 DEF TypeOK
<1> USE DEF DataInv, Match, hba, fixed, setup, caller, data, OnSlot
<1>1. ASSUME NEW p \in Ports, Engine(p)
      PROVE  DataInv'
  <2>1. \A q \in Ports : cur'[q] = 0 => cur[q] = 0
    BY <1>0, <1>1 DEF Engine, CommandListOn, CommandListOff, None
  <2>2. UNCHANGED <<ci, moved, disk, mem, pc, port, slot, base, tbl, n_cmdslots, req>>
    BY <1>1 DEF Engine, CommandListOn, CommandListOff
  <2>3. pc = "ci" => port \in Ports
    BY <1>0 DEF OnPort
  <2>4. QED
    BY <2>1, <2>2, <2>3
<1>2. ASSUME NEW p \in Ports, Fis(p)
      PROVE  DataInv'
  BY <1>2 DEF Fis, FisReceive
<1>3. ASSUME NEW p \in Ports, Execute(p)
      PROVE  DataInv'
  <2>0. UNCHANGED <<pc, port, slot, base, tbl, n_cmdslots, req>>
    BY <1>3 DEF Execute
  <2>1. CASE DriveReady(p)
    BY <2>0, <2>1 DEF DriveReady
  <2>2. CASE Fetch(p)
    <3>1. /\ cur' = [cur EXCEPT ![p] = cur'[p]] /\ moved' = [moved EXCEPT ![p] = 0]
          /\ UNCHANGED <<ci, disk, mem>>
      BY <1>0, <2>2 DEF Fetch
    <3>2. pc = "ci" /\ p = port => ci[p] # {}
      BY <2>2 DEF Fetch
    <3>3. QED
      BY <1>0, <2>0, <3>1, <3>2 DEF OnPort
  <2>3. CASE Transfer(p)
    <3>1. UNCHANGED <<ci, cur>> /\ moved' = [moved EXCEPT ![p] = moved[p] + 1]
      BY <2>3 DEF Transfer
    <3>2. CASE ~Serving(p)
      <4>1. UNCHANGED <<disk, mem>>
        BY <2>3, <3>2, WhatMoves
      <4>2. QED
        BY <1>0, <2>0, <3>1, <3>2, <4>1 DEF OnPort, Serving
    <3>3. CASE Serving(p)
      <4>1. /\ cur[p] = 0 /\ req \in Requests /\ req.n \in Nat
            /\ moved[p] \in 0 .. req.n - 1
            /\ \/ /\ disk' = disk
                  /\ mem' = [mem EXCEPT ![req.buf + moved[p]] = disk[req.lba + moved[p]]]
               \/ /\ mem' = mem
                  /\ disk' = [disk EXCEPT ![req.lba + moved[p]] = mem[req.buf + moved[p]]]
        BY <2>3, <3>3, WhatMoves
      <4>2. \A j \in 0 .. moved[p] - 1 : Match(j)
        BY <3>3, <4>1 DEF Serving
      <4>3. /\ \A j \in 0 .. moved[p] : Match(j)'
            /\ disk' \in [0 .. DiskSize - 1 -> Nat] /\ mem' \in [0 .. MemSize - 1 -> Nat]
        BY <2>0, <4>1, <4>2, OneMore
      <4>4. ci[p] # {} /\ cur[p] # None
        BY <1>0, <3>3, <4>1 DEF SlotInv, HeldByCr, Serving
      <4>5. moved'[port'] = moved[p] + 1 /\ moved[p] \in Nat /\ port' = p
        BY <1>0, <2>0, <3>1, <3>3 DEF Serving
      <4>6. moved'[port'] \in 0 .. req'.n /\ \A j \in 0 .. moved'[port'] - 1 : Match(j)'
        BY <2>0, <4>1, <4>3, <4>5
      <4>7. QED
        BY <1>0, <2>0, <3>1, <3>3, <4>3, <4>4, <4>5, <4>6 DEF Serving
    <3>4. QED
      BY <3>2, <3>3
  <2>4. CASE Complete(p)
    <3>1. /\ cur[p] # None /\ moved[p] = Count(tbl[p][cur[p]])
          /\ ci' = [ci EXCEPT ![p] = ci[p] \ {cur[p]}]
          /\ cur' = [cur EXCEPT ![p] = None]
          /\ UNCHANGED <<disk, mem, moved>>
      BY <2>4 DEF Complete
    <3>2. CASE Serving(p)
      <4>1. cur[p] = 0 /\ tbl[p][cur[p]] = req /\ Count(req) = req.n
        BY <3>1, <3>2, WhatRuns
      <4>2. moved[p] = req.n
        BY <3>1, <4>1
      <4>3. \A i \in 0 .. req.n - 1 : Match(i)
        BY <3>2, <4>1, <4>2 DEF Serving
      <4>4. cur'[p] = None /\ None # 0
        BY <1>0, <3>1 DEF None
      <4>5. QED
        BY <2>0, <3>1, <3>2, <4>3, <4>4 DEF Serving
    <3>3. CASE ~Serving(p)
      BY <1>0, <2>0, <3>1, <3>3 DEF OnPort, Serving
    <3>4. QED
      BY <3>2, <3>3
  <2>5. QED
    BY <1>3, <2>1, <2>2, <2>3, <2>4 DEF Execute
<1>4. ASSUME NEW p \in Ports, Fail(p)
      PROVE  DataInv'
  BY <1>0, <1>4 DEF Fail, TaskFileError, None
<1>5. CASE TakeOwnership \/ VerifyOwnership
  BY <1>5 DEF TakeOwnership, VerifyOwnership
<1>6. CASE ReadHbaCap
  <2>1. pc' = "ports" \/ pc' = "aborted"
    BY <1>6, Zenon DEF ReadHbaCap
  <2>2. pc = "capabilities" /\ UNCHANGED <<ci, cur, moved, disk, mem, port, slot, base, tbl, req>>
    BY <1>6 DEF ReadHbaCap
  <2>3. QED
    BY <2>1, <2>2
<1>7. CASE SkipPort \/ InitPort \/ StartFis \/ InitDone
  BY <1>7 DEF SkipPort, InitPort, StartFis, InitDone
<1>8. CASE StopEngine
  BY <1>8 DEF StopEngine, ClearSt
<1>9. CASE SetUpPort
  BY <1>9 DEF SetUpPort
<1>10. CASE GetPortInfo
  <2>1. PICK s \in Slots : FindCmdslot(port, s) /\ Prepare(port, s, Identify) /\ slot' = s
    BY <1>10 DEF GetPortInfo
  <2>2. /\ pc = "fre_on" /\ pc' = "busy" /\ port \in Ports /\ port \in base
        /\ ci[port] = {} /\ req = NoRequest
    BY <1>0, <1>10 DEF GetPortInfo, OnPort, SlotInv, QuietPorts, Quiet
  <2>3. s = 0
    BY <2>1, <2>2, FirstSlot, PortsAssumption DEF TypeOK
  <2>4. tbl' = [tbl EXCEPT ![port][0] = Identify]
    BY <2>1, <2>3 DEF Prepare
  <2>5. UNCHANGED <<ci, cur, moved, disk, mem, port, base, n_cmdslots, req>>
    BY <1>10 DEF GetPortInfo
  <2>6. tbl'[port][0] = Identify /\ \A p \in Ports \ base : tbl'[p] = tbl[p]
    BY <1>0, <2>2, <2>4
  <2>7. QED
    BY <2>2, <2>5, <2>6
<1>11. CASE GetPortInfoNoSlot
  BY <1>11 DEF GetPortInfoNoSlot, PortDone
<1>12. CASE Call
  BY <1>12 DEF Call
<1>13. CASE PrepRwOp
  <2>1. PICK s \in Slots :
          FindCmdslot(main_drive, s) /\ Prepare(main_drive, s, req) /\ slot' = s
    BY <1>13 DEF PrepRwOp
  <2>2. /\ pc = "find_slot" /\ pc' = "busy" /\ port' = main_drive
        /\ main_drive \in Ports /\ main_drive # None
        /\ req \in Requests /\ req # NoRequest
    BY <1>0, <1>13, RequestsAssumption, PortsAssumption DEF PrepRwOp, TypeOK, None
  <2>3. main_drive \in base /\ ci[main_drive] = {}
    BY <2>2 DEF SlotInv, QuietPorts, Quiet
  <2>4. s = 0
    BY <2>1, <2>2, <2>3, FirstSlot, PortsAssumption DEF TypeOK
  <2>5. tbl' = [tbl EXCEPT ![main_drive][0] = req]
    BY <2>1, <2>4 DEF Prepare
  <2>6. UNCHANGED <<ci, cur, moved, disk, mem, base, n_cmdslots, req>>
    BY <1>13 DEF PrepRwOp
  <2>7. tbl'[port'][0] = req /\ \A p \in Ports \ base : tbl'[p] = tbl[p]
    BY <1>0, <2>2, <2>3, <2>5
  <2>8. QED
    BY <2>2, <2>6, <2>7
<1>14. CASE NoSlot
  BY <1>14 DEF NoSlot
<1>15. CASE WaitReady
  BY <1>15 DEF WaitReady, ClearSt
<1>16. CASE Restart
  BY <1>16 DEF Restart
<1>17. CASE Issue
  <2>1. cur[port] = None /\ ci'[port] # {} /\ port \in base
    BY <1>0, <1>17 DEF Issue, OnPort, SlotInv, QuietPorts, Quiet
  <2>2. QED
    BY <1>0, <1>17, <2>1 DEF Issue, None
<1>18. CASE WaitDone
  <2>1. ci[port] = {}
    BY <1>18 DEF WaitDone, Awaited, SlotInv
  <2>2. QED
    BY <1>18, <2>1 DEF WaitDone, ClearSt
<1>19. CASE IdentifyDone
  BY <1>19 DEF IdentifyDone, FisOff, PortDone
<1>20. CASE Return
  BY <1>20 DEF Return, FisOff
<1>21. CASE BiosReleases
  BY <1>21 DEF BiosReleases, port_regs
<1>22. CASE UNCHANGED vars
  BY <1>22 DEF vars, bios, port_regs
<1>23. QED
  BY <1>1, <1>2, <1>3, <1>4, <1>5, <1>6, <1>7, <1>8, <1>9, <1>10, <1>11, <1>12,
     <1>13, <1>14, <1>15, <1>16, <1>17, <1>18, <1>19, <1>20, <1>21, <1>22
     DEF Next, Driver

(* Every step of the driver and the HBA is a step of Disk, or one that the *)
(* block layer does not see.                                               *)
LEMMA StepIsDiskStep ==
  ASSUME Covered, TypeOK, SlotInv, DataInv, [Next]_vars
  PROVE  [D!Next]_<<disk, mem, req>>
<1> USE DEF hba, fixed, setup, caller, data
<1>1. ASSUME NEW p \in Ports, Execute(p)
      PROVE  [D!Next]_<<disk, mem, req>>
  <2>0. UNCHANGED <<pc, req>>
    BY <1>1 DEF Execute
  <2>1. CASE Transfer(p) /\ Serving(p)
    <3>1. /\ req # NoRequest /\ moved[p] \in 0 .. req.n - 1
          /\ \/ /\ req.op = "read" /\ disk' = disk
                /\ mem' = [mem EXCEPT ![req.buf + moved[p]] = disk[req.lba + moved[p]]]
             \/ /\ req.op = "write" /\ mem' = mem
                /\ disk' = [disk EXCEPT ![req.lba + moved[p]] = mem[req.buf + moved[p]]]
      BY <2>1, WhatMoves DEF Serving
    <3>2. D!Read \/ D!Write
      BY <2>0, <3>1 DEF D!Read, D!Write, D!Sectors
    <3>3. QED
      BY <3>2 DEF D!Next
  <2>2. CASE Transfer(p) /\ ~Serving(p)
    BY <2>0, <2>2, WhatMoves
  <2>3. CASE ~Transfer(p)
    BY <1>1, <2>0, <2>3 DEF Execute, DriveReady, Fetch, Complete
  <2>4. QED
    BY <2>1, <2>2, <2>3
<1>2. CASE Call
  <2>1. req = NoRequest /\ req' \in Requests /\ UNCHANGED <<disk, mem>>
    BY <1>2 DEF Call, DataInv, OnSlot
  <2>2. QED
    BY <2>1 DEF D!Next, D!Call
<1>3. CASE Return
  <2>1. /\ req # NoRequest /\ req' = NoRequest /\ UNCHANGED <<disk, mem>>
        /\ \A i \in 0 .. req.n - 1 : Match(i)
    BY <1>3 DEF Return, DataInv
  <2>2. QED
    BY <2>1 DEF D!Next, D!Done, D!Sectors, Match
<1>4. CASE NoSlot
  <2>1. pc = "find_slot" /\ main_drive \in Ports /\ FreeSlots(main_drive) = {}
    BY <1>4 DEF NoSlot, TypeOK
  <2>2. main_drive \in base
    BY <2>1, PortsAssumption DEF SlotInv, None
  <2>3. ci[main_drive] = {}
    BY <2>1, <2>2 DEF SlotInv, QuietPorts, Quiet
  <2>4. ~(n_cmdslots > 0)
    <3> SUFFICES ASSUME n_cmdslots > 0
                 PROVE  0 \in FreeSlots(main_drive)
      BY <2>1
    <3> QED
      BY <2>3, PortsAssumption DEF FreeSlots, TypeOK
  <2>5. req # NoRequest /\ req' = NoRequest /\ UNCHANGED <<disk, mem>>
    BY <1>4, <2>1, RequestsAssumption DEF NoSlot, TypeOK
  <2>6. QED
    BY <2>4, <2>5 DEF D!Next, D!Refuse
<1>5. CASE UNCHANGED <<disk, mem, req>>
  BY <1>5
<1>6. ASSUME NEW p \in Ports, Engine(p) \/ Fis(p) \/ Fail(p)
      PROVE  UNCHANGED <<disk, mem, req>>
  BY <1>6 DEF Engine, CommandListOn, CommandListOff, Fis, FisReceive, Fail, TaskFileError
<1>7. CASE BiosReleases \/ UNCHANGED vars
  BY <1>7 DEF BiosReleases, vars
<1>8. CASE Driver /\ ~NoSlot /\ ~Return
  BY <1>8 DEF Driver,
     TakeOwnership, VerifyOwnership, ReadHbaCap, SkipPort, InitPort, StopEngine,
     SetUpPort, StartFis, GetPortInfo, GetPortInfoNoSlot, InitDone, PrepRwOp,
     WaitReady, Restart, Issue, WaitDone, IdentifyDone
<1>9. QED
  BY <1>1, <1>2, <1>3, <1>4, <1>5, <1>6, <1>7, <1>8 DEF Next

(* For requests of at least one sector that stay on the disk and in memory,*)
(* a call moves its sectors, all of them and nothing else, before it       *)
(* returns, or is refused by an HBA with a single slot and moves nothing.  *)
THEOREM CarriedOut ==
  ASSUME Covered
  PROVE  Spec => Carried
<1>1. Init => TypeOK /\ SlotInv /\ DataInv
  BY InitType, InitSlotInv, InitDataInv
<1>2. TypeOK /\ SlotInv /\ DataInv /\ [Next]_vars => (TypeOK /\ SlotInv /\ DataInv)'
  BY NextType, NextSlotInv, NextDataInv
<1>3. Init => D!Init
  BY DEF Init, D!Init
<1>4. TypeOK /\ SlotInv /\ DataInv /\ [Next]_vars => [D!Next]_<<disk, mem, req>>
  BY StepIsDiskStep
<1>5. QED
  BY <1>1, <1>2, <1>3, <1>4, PTL DEF Spec, Carried

-----------------------------------------------------------------------------
(***************************************************************************)
(* Why the driver comes to an end of its polling.  At every wait, what it  *)
(* waits for is what the HBA was told to bring about; a command goes on no *)
(* further than its count.                                                 *)
(***************************************************************************)
WaitsRightly ==
  /\ pc = "fre_off" => port \notin fre
  /\ pc \in {"st_off", "cr_off"} => port \notin st
  /\ pc = "st_on" => port \in st
  /\ pc = "fre_on" => port \in fre
  /\ pc = "busy" => cur[port] = None
  /\ pc \in {"issue", "ci"} => port \in st /\ port \in fre

WithinCount == \A p \in Ports : cur[p] # None => moved[p] <= Count(tbl[p][cur[p]])

LEMMA CountIsNat ==
  ASSUME TypeOK, NEW p \in Ports, NEW s \in Slots
  PROVE  Count(tbl[p][s]) \in Nat
<1>1. tbl[p][s] \in Commands
  BY DEF TypeOK
<1>2. CASE tbl[p][s] \in Requests
  <2>1. tbl[p][s].n \in Nat
    BY <1>2, RequestsAssumption
  <2>2. QED
    BY <2>1, WholeCountAssumption DEF Count
<1>3. CASE tbl[p][s] \in {Identify, Leftover}
  BY <1>3 DEF Count, Identify, Leftover
<1>4. QED
  BY <1>1, <1>2, <1>3 DEF Commands

LEMMA NextWaits == TypeOK /\ SlotInv /\ WaitsRightly /\ [Next]_vars => WaitsRightly'
<1> SUFFICES ASSUME TypeOK, SlotInv, WaitsRightly, [Next]_vars
             PROVE  WaitsRightly'
  OBVIOUS
<1> USE DEF WaitsRightly, hba, fixed, setup, caller, data
<1>0. /\ pc \in OnPort => port \in Ports
      /\ cur \in [Ports -> Slots \cup {None}]
      /\ fre \subseteq Ports /\ st \subseteq Ports
      /\ base \subseteq Ports
  BY DEF TypeOK
<1>1. ASSUME NEW p \in Ports, Engine(p) \/ Fis(p) \/ Fail(p)
      PROVE  WaitsRightly'
  <2>1. UNCHANGED <<pc, port, st, fre>> /\ cur' \in {cur, [cur EXCEPT ![p] = None]}
    BY <1>1 DEF Engine, CommandListOn, CommandListOff, Fis, FisReceive, Fail, TaskFileError
  <2>2. QED
    BY <1>0, <2>1 DEF OnPort
<1>2. ASSUME NEW p \in Ports, Execute(p)
      PROVE  WaitsRightly'
  <2>1. CASE Fetch(p)
    <3>1. pc = "busy" => ci[port] = {}
      BY DEF SlotInv, QuietPorts, Quiet, OnSlot
    <3>2. PICK s \in ci[p] : cur' = [cur EXCEPT ![p] = s]
      BY <2>1 DEF Fetch
    <3>3. pc = "busy" => p # port
      BY <3>1, <3>2
    <3>4. UNCHANGED <<pc, port, st, fre>>
      BY <1>2, <2>1 DEF Execute, Fetch
    <3>5. QED
      BY <1>0, <3>2, <3>3, <3>4 DEF OnPort
  <2>2. CASE DriveReady(p) \/ Transfer(p) \/ Complete(p)
    <3>1. UNCHANGED <<pc, port, st, fre>> /\ cur' \in {cur, [cur EXCEPT ![p] = None]}
      BY <1>2, <2>2 DEF Execute, DriveReady, Transfer, Complete
    <3>2. QED
      BY <1>0, <3>1 DEF OnPort
  <2>3. QED
    BY <1>2, <2>1, <2>2 DEF Execute
<1>3. CASE TakeOwnership \/ VerifyOwnership \/ SkipPort \/ InitPort \/ StopEngine
  BY <1>3, <1>0 DEF TakeOwnership, VerifyOwnership, SkipPort, InitPort, StopEngine, ClearSt
<1>4. CASE ReadHbaCap
  <2>1. pc' = "ports" \/ pc' = "aborted"
    BY <1>4, Zenon DEF ReadHbaCap
  <2>2. QED
    BY <2>1
<1>5. CASE SetUpPort \/ StartFis
  BY <1>0, <1>5 DEF SetUpPort, StartFis, OnPort
<1>6. CASE GetPortInfo
  <2>1. /\ pc = "fre_on" /\ pc' = "busy"
        /\ UNCHANGED <<cur, port>>
    BY <1>6 DEF GetPortInfo
  <2>2. cur[port] = None
    BY <2>1 DEF SlotInv, QuietPorts, Quiet
  <2>3. QED
    BY <2>1, <2>2
<1>7. CASE PrepRwOp
  <2>1. /\ pc = "find_slot" /\ pc' = "busy"
        /\ cur' = cur /\ port' = main_drive
    BY <1>7 DEF PrepRwOp
  <2>2. main_drive \in Ports /\ main_drive # None
    BY <2>1, PortsAssumption DEF TypeOK, None
  <2>3. cur[main_drive] = None
    BY <2>1, <2>2 DEF SlotInv, QuietPorts, Quiet
  <2>4. QED
    BY <2>1, <2>3
<1>8. CASE GetPortInfoNoSlot \/ InitDone \/ Call \/ NoSlot \/ IdentifyDone \/ Return
  BY <1>8 DEF GetPortInfoNoSlot, InitDone, Call, NoSlot, IdentifyDone, Return
<1>9. CASE WaitReady
  BY <1>0, <1>9 DEF WaitReady, ClearSt
<1>10. CASE Restart
  BY <1>0, <1>10 DEF Restart, OnPort
<1>11. CASE WaitDone
  BY <1>11 DEF WaitDone
<1>12. CASE Issue
  <2>1. /\ pc = "issue" /\ pc' = "ci"
        /\ UNCHANGED <<st, fre, port>>
    BY <1>12 DEF Issue
  <2>2. QED
    BY <2>1
<1>13. CASE BiosReleases
  BY <1>13 DEF BiosReleases, port_regs
<1>14. CASE UNCHANGED vars
  BY <1>14 DEF vars, port_regs
<1>15. QED
  BY <1>1, <1>2, <1>3, <1>4, <1>5, <1>6, <1>7, <1>8, <1>9, <1>10, <1>11, <1>12, <1>13,
     <1>14 DEF Next, Driver

(* A command begins with no sector moved, and what it asks for is not      *)
(* changed under it (SlotsIdle).                                           *)
LEMMA NextWithin ==
  TypeOK /\ SlotInv /\ WithinCount /\ [Next]_vars => WithinCount'
<1> SUFFICES ASSUME TypeOK, SlotInv, WithinCount, [Next]_vars,
                    NEW q \in Ports, cur'[q] # None
             PROVE  moved'[q] <= Count(tbl'[q][cur'[q]])
  BY DEF WithinCount, Count
<1>0. /\ cur \in [Ports -> Slots \cup {None}] /\ moved \in [Ports -> Nat]
      /\ tbl \in [Ports -> [Slots -> Commands]] /\ None \notin Slots
  BY PortsAssumption DEF TypeOK, Slots, None
<1> HIDE DEF None
<1>1. cur[q] # None => cur[q] \in Slots /\ moved[q] <= Count(tbl[q][cur[q]])
  BY <1>0 DEF WithinCount
<1>2. ASSUME cur'[q] = cur[q], moved'[q] = moved[q], tbl' = tbl
      PROVE  moved'[q] <= Count(tbl'[q][cur'[q]])
  BY <1>1, <1>2
<1>3. ASSUME NEW p \in Ports, Engine(p) \/ Fis(p) \/ Fail(p)
      PROVE  moved'[q] <= Count(tbl'[q][cur'[q]])
  <2>1. /\ tbl' = tbl /\ moved' = moved
        /\ cur' \in {cur, [cur EXCEPT ![p] = None]}
    BY <1>3 DEF Engine, CommandListOn, CommandListOff, Fis, FisReceive, Fail, TaskFileError
  <2>2. cur'[q] = cur[q]
    BY <1>0, <2>1
  <2>3. QED
    BY <1>2, <2>1, <2>2
<1>4. ASSUME NEW p \in Ports, Execute(p)
      PROVE  moved'[q] <= Count(tbl'[q][cur'[q]])
  <2>0. tbl' = tbl
    BY <1>4 DEF Execute
  <2>1. CASE DriveReady(p)
    BY <1>2, <2>0, <2>1 DEF DriveReady
  <2>2. CASE Fetch(p)
    <3>1. PICK s \in ci[p] : cur' = [cur EXCEPT ![p] = s]
      BY <2>2 DEF Fetch
    <3>2. s \in Slots /\ moved' = [moved EXCEPT ![p] = 0]
      BY <2>2, <3>1 DEF Fetch, TypeOK
    <3>3. CASE q = p
      <4>1. cur'[q] = s /\ moved'[q] = 0
        BY <1>0, <3>1, <3>2, <3>3
      <4>2. Count(tbl[q][s]) \in Nat
        BY <3>2, CountIsNat
      <4>3. QED
        BY <2>0, <4>1, <4>2
    <3>4. CASE q # p
      BY <1>0, <1>2, <2>0, <3>1, <3>2, <3>4
    <3>5. QED
      BY <3>3, <3>4
  <2>3. CASE Transfer(p)
    <3>1. /\ cur' = cur /\ moved' = [moved EXCEPT ![p] = @ + 1]
          /\ moved[p] < Count(tbl[p][cur[p]])
      BY <2>3 DEF Transfer
    <3>2. CASE q = p
      <4>1. moved'[q] = moved[q] + 1 /\ moved[q] \in Nat
        BY <1>0, <3>1, <3>2
      <4>2. cur[q] \in Slots
        BY <1>0, <3>1
      <4>3. Count(tbl[q][cur[q]]) \in Nat
        BY <4>2, CountIsNat
      <4>4. QED
        BY <2>0, <3>1, <3>2, <4>1, <4>3
    <3>3. CASE q # p
      BY <1>0, <1>2, <2>0, <3>1, <3>3
    <3>4. QED
      BY <3>2, <3>3
  <2>4. CASE Complete(p)
    <3>1. moved' = moved /\ cur' = [cur EXCEPT ![p] = None]
      BY <2>4 DEF Complete
    <3>2. cur'[q] = cur[q]
      BY <1>0, <3>1
    <3>3. QED
      BY <1>2, <2>0, <3>1, <3>2
  <2>5. QED
    BY <1>4, <2>1, <2>2, <2>3, <2>4 DEF Execute
<1>5. ASSUME NEW r \in base, NEW s \in Slots, NEW c, pc # "ci", Prepare(r, s, c),
             cur' = cur, moved' = moved
      PROVE  moved'[q] <= Count(tbl'[q][cur'[q]])
  <2>1. r \in Ports /\ cur[r] = None
    BY <1>5 DEF SlotInv, QuietPorts, Quiet, TypeOK
  <2>2. q # r
    BY <1>5, <2>1
  <2>3. tbl'[q] = tbl[q]
    BY <1>0, <1>5, <2>1, <2>2 DEF Prepare
  <2>4. QED
    BY <1>1, <1>5, <2>3
<1>6. CASE GetPortInfo
  <2>1. PICK s \in Slots : Prepare(port, s, Identify)
    BY <1>6 DEF GetPortInfo
  <2>2. pc = "fre_on" /\ cur' = cur /\ moved' = moved
    BY <1>6 DEF GetPortInfo, hba
  <2>3. port \in base
    BY <2>2 DEF SlotInv
  <2>4. QED
    BY <1>5, <2>1, <2>2, <2>3
<1>7. CASE PrepRwOp
  <2>1. PICK s \in Slots : Prepare(main_drive, s, req)
    BY <1>7 DEF PrepRwOp
  <2>2. pc = "find_slot" /\ cur' = cur /\ moved' = moved
    BY <1>7 DEF PrepRwOp, hba
  <2>3. main_drive \in Ports /\ main_drive # None
    BY <2>2, PortsAssumption DEF TypeOK, None
  <2>4. main_drive \in base
    BY <2>3 DEF SlotInv
  <2>5. QED
    BY <1>5, <2>1, <2>2, <2>4
<1>8. CASE Driver /\ ~GetPortInfo /\ ~PrepRwOp
  <2>1. UNCHANGED <<cur, moved, tbl>>
    BY <1>8 DEF Driver, TakeOwnership, VerifyOwnership, ReadHbaCap, SkipPort, InitPort,
       StopEngine, SetUpPort, StartFis, GetPortInfoNoSlot, InitDone, NoSlot, WaitReady,
       Restart, Issue, WaitDone, IdentifyDone, Return, hba
  <2>2. QED
    BY <1>2, <2>1
<1>9. CASE Call \/ BiosReleases \/ UNCHANGED vars
  <2>1. UNCHANGED <<cur, moved, tbl>>
    BY <1>9 DEF Call, BiosReleases, vars, port_regs, hba
  <2>2. QED
    BY <1>2, <2>1
<1>10. QED
  BY <1>3, <1>4, <1>6, <1>7, <1>8, <1>9 DEF Next

(* What the HBA or the drive still has to do of itself on a port.          *)
Lagging(p) == {r \in {"CR", "FR"} :
  IF r = "CR" THEN ~(p \in st <=> p \in cr) ELSE ~(p \in fre <=> p \in fr)}

Due(p) ==
  \/ Lagging(p) # {}
  \/ p \in bsy /\ cur[p] = None
  \/ Running(p) /\ p \notin bsy /\ ci[p] # {}
  \/ cur[p] # None /\ moved[p] <= Count(tbl[p][cur[p]])

Waiting ==
  \/ pc = "fre_off" /\ port \in fr
  \/ pc \in {"st_off", "cr_off"} /\ port \in cr
  \/ pc = "st_on" /\ port \notin cr
  \/ pc = "fre_on" /\ port \notin fr
  \/ pc = "busy" /\ port \in bsy
  \/ pc = "ci" /\ Awaited \in ci[port] /\ port \notin tfes

(* Wherever the driver polls, the register it reads is one the HBA is      *)
(* about to change, or there is a command it is about to carry out; only   *)
(* an error of the drive, which send_cmd does not look for, ends that.     *)
NeverInVain == Waiting => Due(port)

THEOREM WaitsAreServed == Spec => [](WaitsRightly /\ NeverInVain)
<1>1. Init => WaitsRightly /\ WithinCount
  BY DEF Init, WaitsRightly, WithinCount
<1>2. ASSUME TypeOK, WaitsRightly, WithinCount, Waiting
      PROVE  Due(port)
  <2>1. port \in Ports
    BY <1>2 DEF Waiting, TypeOK, OnPort
  <2>2. cur[port] = None \/ moved[port] <= Count(tbl[port][cur[port]])
    BY <1>2, <2>1 DEF WithinCount
  <2>3. pc = "fre_on" /\ port \notin fr => "FR" \in Lagging(port)
    BY <1>2 DEF WaitsRightly, Lagging
  <2>4. pc = "fre_off" /\ port \in fr => "FR" \in Lagging(port)
    BY <1>2 DEF WaitsRightly, Lagging
  <2>5. pc = "st_on" /\ port \notin cr => "CR" \in Lagging(port)
    BY <1>2 DEF WaitsRightly, Lagging
  <2>6. pc \in {"st_off", "cr_off"} /\ port \in cr => "CR" \in Lagging(port)
    BY <1>2 DEF WaitsRightly, Lagging
  <2>7. CASE pc = "ci" /\ Awaited \in ci[port] /\ port \notin tfes
    <3>1. port \in st /\ port \in fre
      BY <1>2, <2>7 DEF WaitsRightly
    <3>2. port \notin cr => "CR" \in Lagging(port)
      BY <3>1 DEF Lagging
    <3>3. port \notin fr => "FR" \in Lagging(port)
      BY <3>1 DEF Lagging
    <3>4. QED
      BY <2>2, <2>7, <3>1, <3>2, <3>3 DEF Due, Running
  <2>8. CASE pc = "busy" /\ port \in bsy
    BY <1>2, <2>8 DEF WaitsRightly, Due
  <2>9. QED
    BY <1>2, <2>3, <2>4, <2>5, <2>6, <2>7, <2>8 DEF Waiting, Due
<1>3. TypeOK /\ SlotInv /\ WaitsRightly /\ WithinCount /\ [Next]_vars =>
        (WaitsRightly /\ WithinCount)'
  BY NextWaits, NextWithin
<1>4. TypeOK /\ WaitsRightly /\ WithinCount => NeverInVain
  BY <1>2 DEF NeverInVain
<1>5. QED
  BY <1>1, <1>3, <1>4, Inductive, PTL DEF Spec

-----------------------------------------------------------------------------
(* How far the driver has come: the set-up, the ports still to visit, and  *)
(* the stage of the one it is working on, or of the request.               *)
Fewer(S, T) == S \subseteq T /\ S # T

Early == pc \in {"handoff", "verify", "capabilities"}

Stage == [handoff |-> 14, verify |-> 13, capabilities |-> 12, ports |-> 11,
          find_slot |-> 11, fre_off |-> 10, st_off |-> 9, st_on |-> 8, fre_on |-> 7,
          busy |-> 6, cr_off |-> 5, issue |-> 4, ci |-> 3, st_clear |-> 2,
          idle |-> 0, refused |-> 0, aborted |-> 0]

Nearer ==
  \/ Early /\ ~Early'
  \/ (Early <=> Early') /\ Fewer(todo', todo)
  \/ (Early <=> Early') /\ todo' = todo /\ Stage[pc'] < Stage[pc]

(* ahci_init and the requests never go back: each step of the driver       *)
(* brings its return nearer.                                               *)
DriverAdvances == [][Driver => Nearer]_vars

(* The port in hand is one that init_ports has still to count off.         *)
InHand ==
  /\ pc \in {"fre_off", "st_off", "st_on", "fre_on"} => port \in todo
  /\ pc \in OnSlot /\ req = NoRequest => port \in todo

LEMMA NextInHand == TypeOK /\ InHand /\ [Next]_vars => InHand'
<1> SUFFICES ASSUME TypeOK, InHand, [Next]_vars
             PROVE  InHand'
  OBVIOUS
<1> USE DEF InHand, hba, fixed, setup, caller, OnSlot
<1>1. ASSUME NEW p \in Ports, Engine(p) \/ Fis(p) \/ Execute(p) \/ Fail(p)
      PROVE  InHand'
  BY <1>1 DEF Engine, Fis, Execute, Fail
<1>2. CASE TakeOwnership \/ VerifyOwnership \/ SkipPort \/ InitPort
  BY <1>2 DEF TakeOwnership, VerifyOwnership, SkipPort, InitPort
<1>3. CASE ReadHbaCap
  <2>1. pc' = "ports" \/ pc' = "aborted"
    BY <1>3, Zenon DEF ReadHbaCap
  <2>2. QED
    BY <2>1
<1>4. CASE StopEngine \/ SetUpPort \/ StartFis \/ GetPortInfo
  BY <1>4 DEF StopEngine, SetUpPort, StartFis, GetPortInfo
<1>5. CASE GetPortInfoNoSlot \/ InitDone \/ Call \/ NoSlot \/ IdentifyDone \/ Return
  BY <1>5 DEF GetPortInfoNoSlot, InitDone, Call, NoSlot, IdentifyDone, Return
<1>6. CASE PrepRwOp
  <2>1. pc = "find_slot" /\ pc' = "busy" /\ req' = req
    BY <1>6 DEF PrepRwOp
  <2>2. req # NoRequest
    BY <2>1, RequestsAssumption DEF TypeOK
  <2>3. QED
    BY <2>1, <2>2
<1>7. CASE WaitReady \/ Restart \/ Issue \/ WaitDone
  BY <1>7 DEF WaitReady, Restart, Issue, WaitDone
<1>8. CASE BiosReleases \/ UNCHANGED vars
  BY <1>8 DEF BiosReleases, vars
<1>9. QED
  BY <1>1, <1>2, <1>3, <1>4, <1>5, <1>6, <1>7, <1>8 DEF Next, Driver

THEOREM DriverMovesOn == Spec => DriverAdvances
<1>1. ASSUME TypeOK, InHand, Driver
      PROVE  Nearer
  <2> USE DEF Nearer, Early, setup
  <2>1. CASE TakeOwnership \/ VerifyOwnership
    BY <2>1 DEF TakeOwnership, VerifyOwnership, Stage
  <2>2. CASE ReadHbaCap
    <3>1. pc = "capabilities" /\ (pc' = "ports" \/ pc' = "aborted")
      BY <2>2, Zenon DEF ReadHbaCap
    <3>2. QED
      BY <3>1
  <2>3. CASE SkipPort
    BY <2>3 DEF SkipPort, Fewer
  <2>4. CASE InitPort \/ StopEngine \/ SetUpPort \/ StartFis \/ GetPortInfo \/ InitDone
    BY <2>4 DEF InitPort, StopEngine, SetUpPort, StartFis, GetPortInfo, InitDone, Stage
  <2>5. CASE GetPortInfoNoSlot
    BY <1>1, <2>5 DEF GetPortInfoNoSlot, PortDone, InHand, Fewer
  <2>6. CASE PrepRwOp \/ NoSlot \/ WaitReady \/ Restart \/ Issue \/ WaitDone \/ Return
    BY <2>6 DEF PrepRwOp, NoSlot, WaitReady, Restart, Issue, WaitDone, Return, Stage
  <2>7. CASE IdentifyDone
    BY <1>1, <2>7 DEF IdentifyDone, PortDone, InHand, OnSlot, Fewer
  <2>8. QED
    BY <1>1, <2>1, <2>2, <2>3, <2>4, <2>5, <2>6, <2>7 DEF Driver
<1>2. Init => InHand
  BY DEF Init, InHand, OnSlot
<1>3. TypeOK /\ InHand => [Driver => Nearer]_vars
  BY <1>1
<1>4. QED
  BY <1>2, <1>3, NextInHand, Inductive, PTL DEF Spec, DriverAdvances

-----------------------------------------------------------------------------
(* What is left for the HBA to do on a port while the driver polls: the    *)
(* engines to follow ST and FRE, commands to complete or one to fail, the  *)
(* steps of one command, and its sectors.                                  *)
Busyness(p) ==
  IF cur[p] # None THEN IF p \in st THEN 0 ELSE 2
  ELSE IF p \in bsy THEN IF p \in st THEN 2 ELSE 1
  ELSE IF p \in st THEN 1 ELSE 0

MovesOn(p) ==
  /\ cur'[p] = cur[p] /\ moved[p] < moved'[p]
  /\ moved'[p] <= Count(tbl[p][cur[p]])

Settles(p) ==
  \/ Fewer(Lagging(p)', Lagging(p))
  \/ /\ Lagging(p)' = Lagging(p)
     /\ \/ Fewer(ci'[p], ci[p])
        \/ ci'[p] = ci[p] /\ p \in tfes' \ tfes
        \/ ci'[p] = ci[p] /\ tfes' = tfes /\ Busyness(p)' < Busyness(p)
        \/ ci'[p] = ci[p] /\ tfes' = tfes /\ Busyness(p)' = Busyness(p) /\ MovesOn(p)

(* A port halted by an error executes nothing.                             *)
Halted == \A p \in tfes : cur[p] = None

Untouched(q) ==
  UNCHANGED <<Lagging(q), ci[q], q \in tfes, Busyness(q), cur[q], moved[q]>>

(* Whatever the HBA or a drive does on a port leaves less to do there, and *)
(* as much as before on every other: they cannot keep each other busy, and *)
(* come to rest unless the driver writes a register.                       *)
HbaSettles ==
  [][\A p \in Ports : Engine(p) \/ Fis(p) \/ Execute(p) \/ Fail(p) =>
       Settles(p) /\ \A q \in Ports \ {p} : Untouched(q)]_vars

LEMMA NextHalted == TypeOK /\ Halted /\ [Next]_vars => Halted'
<1> SUFFICES ASSUME TypeOK, Halted, [Next]_vars
             PROVE  Halted'
  OBVIOUS
<1> USE DEF Halted
<1>0. cur \in [Ports -> Slots \cup {None}] /\ tfes \subseteq Ports
  BY DEF TypeOK
<1> HIDE DEF None
<1>1. ASSUME NEW p \in Ports, Engine(p) \/ Fis(p) \/ Execute(p) \/ Fail(p)
      PROVE  Halted'
  <2>1. CASE Fetch(p)
    <3>1. PICK s \in ci[p] : cur' = [cur EXCEPT ![p] = s]
      BY <2>1 DEF Fetch
    <3>2. tfes' = tfes /\ p \notin tfes
      BY <2>1 DEF Fetch, Running
    <3>3. QED
      BY <1>0, <3>1, <3>2
  <2>2. CASE ~Fetch(p)
    <3>1. /\ tfes' \subseteq tfes \/ (tfes' = tfes \cup {p} /\ cur' = [cur EXCEPT ![p] = None])
          /\ cur' \in {cur, [cur EXCEPT ![p] = None]}
      BY <1>1, <2>2 DEF Engine, CommandListOn, CommandListOff, Fis, FisReceive, Execute,
         DriveReady, Transfer, Complete, Fail, TaskFileError
    <3>2. QED
      BY <1>0, <1>1, <3>1
  <2>3. QED
    BY <2>1, <2>2
<1>2. CASE Driver \/ Call
  <2>1. UNCHANGED <<cur, tfes>>
    BY <1>2 DEF Call, Driver, TakeOwnership, VerifyOwnership, ReadHbaCap, SkipPort, InitPort,
       StopEngine, SetUpPort, StartFis, GetPortInfo, GetPortInfoNoSlot, InitDone, PrepRwOp,
       NoSlot, WaitReady, Restart, Issue, WaitDone, IdentifyDone, Return, hba
  <2>2. QED
    BY <2>1
<1>3. CASE BiosReleases \/ UNCHANGED vars
  BY <1>3 DEF BiosReleases, vars, port_regs
<1>4. QED
  BY <1>1, <1>2, <1>3 DEF Next

THEOREM HbaMovesOn == Spec => HbaSettles
<1>1. ASSUME TypeOK, SlotInv, Halted, NEW p \in Ports,
             Engine(p) \/ Fis(p) \/ Execute(p) \/ Fail(p)
      PROVE  Settles(p)
  <2>0. /\ cur \in [Ports -> Slots \cup {None}] /\ moved \in [Ports -> Nat]
        /\ ci \in [Ports -> SUBSET Slots] /\ None \notin Slots
    BY <1>1, PortsAssumption DEF TypeOK, Slots, None
  <2> HIDE DEF None
  <2>1. CASE CommandListOn(p) \/ CommandListOff(p)
    <3>1. /\ UNCHANGED <<st, fre, fr>>
          /\ ~(p \in st <=> p \in cr) /\ (p \in st <=> p \in cr')
      BY <2>1 DEF CommandListOn, CommandListOff
    <3>2. "CR" \in Lagging(p) /\ "CR" \notin Lagging(p)'
      BY <3>1 DEF Lagging
    <3>3. Lagging(p)' \subseteq Lagging(p)
      BY <3>1 DEF Lagging
    <3>4. QED
      BY <3>2, <3>3 DEF Settles, Fewer
  <2>2. CASE FisReceive(p)
    <3>1. /\ UNCHANGED <<st, fre, cr>>
          /\ ~(p \in fre <=> p \in fr) /\ (p \in fre <=> p \in fr')
      BY <2>2 DEF FisReceive
    <3>2. "FR" \in Lagging(p) /\ "FR" \notin Lagging(p)'
      BY <3>1 DEF Lagging
    <3>3. Lagging(p)' \subseteq Lagging(p)
      BY <3>1 DEF Lagging
    <3>4. QED
      BY <3>2, <3>3 DEF Settles, Fewer
  <2>3. CASE DriveReady(p) \/ Fetch(p) \/ Transfer(p) \/ Complete(p) \/ TaskFileError(p)
    <3>1. UNCHANGED <<st, fre, cr, fr>>
      BY <2>3 DEF DriveReady, Fetch, Transfer, Complete, TaskFileError
    <3>2. Lagging(p)' = Lagging(p)
      BY <3>1 DEF Lagging
    <3>3. CASE DriveReady(p)
      <4>1. ci' = ci /\ tfes' = tfes
        BY <3>3 DEF DriveReady
      <4>2. Busyness(p)' < Busyness(p)
        BY <3>1, <3>3 DEF DriveReady, Busyness
      <4>3. QED
        BY <3>2, <4>1, <4>2 DEF Settles
    <3>4. CASE Fetch(p)
      <4>1. ci' = ci /\ tfes' = tfes
        BY <3>4 DEF Fetch
      <4>2. PICK s \in ci[p] : cur' = [cur EXCEPT ![p] = s]
        BY <3>4 DEF Fetch
      <4>3. cur'[p] # None
        BY <2>0, <4>2
      <4>4. p \in st /\ cur[p] = None /\ p \notin bsy
        BY <3>4 DEF Fetch, Running
      <4>5. Busyness(p)' < Busyness(p)
        BY <3>1, <4>3, <4>4 DEF Busyness
      <4>6. QED
        BY <3>2, <4>1, <4>5 DEF Settles
    <3>5. CASE Transfer(p)
      <4>1. /\ UNCHANGED <<ci, tfes, cur, bsy>>
            /\ moved' = [moved EXCEPT ![p] = @ + 1]
            /\ moved[p] < Count(tbl[p][cur[p]]) /\ cur[p] # None
        BY <3>5 DEF Transfer
      <4>2. moved'[p] = moved[p] + 1 /\ moved[p] \in Nat
        BY <2>0, <4>1
      <4>3. Count(tbl[p][cur[p]]) \in Nat
        BY <1>1, <2>0, <4>1, CountIsNat
      <4>4. MovesOn(p)
        BY <4>1, <4>2, <4>3 DEF MovesOn
      <4>5. Busyness(p)' = Busyness(p)
        BY <3>1, <4>1 DEF Busyness
      <4>6. QED
        BY <3>2, <4>1, <4>4, <4>5 DEF Settles
    <3>6. CASE Complete(p)
      <4>1. /\ tfes' = tfes /\ cur[p] # None
            /\ cur' = [cur EXCEPT ![p] = None] /\ bsy' = bsy \ {p}
            /\ ci' = [ci EXCEPT ![p] = @ \ {cur[p]}]
        BY <3>6 DEF Complete
      <4>2. cur'[p] = None /\ p \notin bsy' /\ ci'[p] = ci[p] \ {cur[p]}
        BY <2>0, <4>1
      <4>3. CASE p \in st
        <5>1. cur[p] \in ci[p]
          BY <1>1, <4>1, <4>3 DEF SlotInv, HeldByCr
        <5>2. Fewer(ci'[p], ci[p])
          BY <4>2, <5>1 DEF Fewer
        <5>3. QED
          BY <3>2, <5>2 DEF Settles
      <4>4. CASE p \notin st
        <5>1. Busyness(p)' < Busyness(p)
          BY <3>1, <4>1, <4>2, <4>4 DEF Busyness
        <5>2. ci'[p] = ci[p] \/ Fewer(ci'[p], ci[p])
          BY <4>2 DEF Fewer
        <5>3. QED
          BY <3>2, <4>1, <5>1, <5>2 DEF Settles
      <4>5. QED
        BY <4>3, <4>4
    <3>7. CASE TaskFileError(p)
      <4>1. ci' = ci /\ tfes' = tfes \cup {p}
        BY <3>7 DEF TaskFileError
      <4>2. cur[p] # None
        BY <3>7 DEF TaskFileError
      <4>3. p \notin tfes
        BY <1>1, <4>2 DEF Halted
      <4>4. QED
        BY <3>2, <4>1, <4>3 DEF Settles
    <3>8. QED
      BY <2>3, <3>3, <3>4, <3>5, <3>6, <3>7
  <2>4. QED
    BY <1>1, <2>1, <2>2, <2>3 DEF Engine, Fis, Execute, Fail
<1>2. ASSUME TypeOK, NEW p \in Ports, Engine(p) \/ Fis(p) \/ Execute(p) \/ Fail(p),
             NEW q \in Ports \ {p}
      PROVE  Untouched(q)
  <2>0. /\ cur \in [Ports -> Slots \cup {None}] /\ moved \in [Ports -> Nat]
        /\ ci \in [Ports -> SUBSET Slots]
    BY <1>2 DEF TypeOK
  <2> HIDE DEF None
  <2>1. /\ (q \in st' <=> q \in st) /\ (q \in cr' <=> q \in cr)
        /\ (q \in fre' <=> q \in fre) /\ (q \in fr' <=> q \in fr)
        /\ (q \in tfes' <=> q \in tfes) /\ (q \in bsy' <=> q \in bsy)
    <3>1. st' = st /\ fre' = fre
      BY <1>2 DEF Engine, CommandListOn, CommandListOff, Fis, FisReceive, Execute, DriveReady,
         Fetch, Transfer, Complete, Fail, TaskFileError
    <3>2. cr' \in {cr, cr \cup {p}, cr \ {p}} /\ fr' \in {fr, fr \cup {p}, fr \ {p}}
      BY <1>2 DEF Engine, CommandListOn, CommandListOff, Fis, FisReceive, Execute, DriveReady,
         Fetch, Transfer, Complete, Fail, TaskFileError
    <3>3. /\ tfes' \in {tfes, tfes \cup {p}, tfes \ {p}}
          /\ bsy' \in {bsy, bsy \cup {p}, bsy \ {p}}
      BY <1>2 DEF Engine, CommandListOn, CommandListOff, Fis, FisReceive, Execute, DriveReady,
         Fetch, Transfer, Complete, Fail, TaskFileError
    <3>4. QED
      BY <3>1, <3>2, <3>3
  <2>2. ci'[q] = ci[q]
    <3>1. ci' \in {ci, [ci EXCEPT ![p] = @ \ {cur[p]}]}
      BY <1>2 DEF Engine, CommandListOn, CommandListOff, Fis, FisReceive, Execute, DriveReady,
         Fetch, Transfer, Complete, Fail, TaskFileError
    <3>2. QED
      BY <2>0, <3>1
  <2>3. cur'[q] = cur[q]
    <3>1. CASE Fetch(p)
      BY <2>0, <3>1 DEF Fetch
    <3>2. CASE ~Fetch(p)
      <4>1. cur' \in {cur, [cur EXCEPT ![p] = None]}
        BY <1>2, <3>2 DEF Engine, CommandListOn, CommandListOff, Fis, FisReceive, Execute,
           DriveReady, Transfer, Complete, Fail, TaskFileError
      <4>2. QED
        BY <2>0, <4>1
    <3>3. QED
      BY <3>1, <3>2
  <2>4. moved'[q] = moved[q]
    <3>1. moved' \in {moved, [moved EXCEPT ![p] = 0], [moved EXCEPT ![p] = @ + 1]}
      BY <1>2 DEF Engine, CommandListOn, CommandListOff, Fis, FisReceive, Execute, DriveReady,
         Fetch, Transfer, Complete, Fail, TaskFileError
    <3>2. QED
      BY <2>0, <3>1
  <2>5. Lagging(q)' = Lagging(q)
    BY <2>1 DEF Lagging
  <2>6. Busyness(q)' = Busyness(q)
    BY <2>1, <2>3 DEF Busyness
  <2>7. QED
    BY <2>1, <2>2, <2>3, <2>4, <2>5, <2>6 DEF Untouched
<1>3. Init => Halted
  BY DEF Init, Halted
<1>4. TypeOK /\ SlotInv /\ Halted =>
        [\A p \in Ports : Engine(p) \/ Fis(p) \/ Execute(p) \/ Fail(p) =>
           Settles(p) /\ \A q \in Ports \ {p} : Untouched(q)]_vars
  BY <1>1, <1>2
<1>5. QED
  BY <1>3, <1>4, NextHalted, Inductive, PTL DEF Spec, HbaSettles
=============================================================================
