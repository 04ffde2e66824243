-------------------------------- MODULE Ahci --------------------------------
(***************************************************************************)
(* The AHCI driver, drivers/hdd/ahci.c, against the controller (HBA), the  *)
(* drives and the firmware: ahci_init with the BIOS handoff and the set-up *)
(* of every port, then ahci_read_drive and ahci_write_drive on the main    *)
(* drive.  The driver is one thread that polls, with interrupts off; it    *)
(* steps one register access at a time, where the last read of a polling   *)
(* loop and the write after it are one step.  The HBA runs at any time.    *)
(*                                                                         *)
(* Per-port register bits are the sets of ports that have them set.  Frames*)
(* taken from the PMM are distinct (Pmm) and are not modelled: a command   *)
(* header with its table is one record.                                    *)
(***************************************************************************)
EXTENDS Integers

CONSTANTS
  Ports,         \* ports the HBA implements (pi)
  HwSlots,       \* the most command slots the HBA may have
  Requests,      \* read and write requests the block layer makes
  NoRequest,
  WholeCount,    \* sectors a count of 0 asks of a drive
  DiskSize,      \* bound: sectors of the drive
  MemSize,       \* bound: sectors of memory
  MaxCalls       \* bound: requests made

Slots == 0 .. HwSlots - 1
None == -1

ASSUME PortsAssumption == Ports \subseteq Nat /\ HwSlots \in 1 .. 32
ASSUME RequestsAssumption ==
  /\ NoRequest \notin Requests
  /\ Requests \subseteq [op : {"read", "write"}, lba : Nat, buf : Nat, n : 0 .. 255]
ASSUME WholeCountAssumption == WholeCount \in Nat

Identify == [op |-> "identify", lba |-> 0, buf |-> 0, n |-> 1]
Leftover == [op |-> "firmware", lba |-> 0, buf |-> 0, n |-> 1]
Commands == Requests \cup {Identify, Leftover}

VARIABLES
  \* the HBA
  cap,                \* the bits of CAP the driver tests: 0 and 31 (S64A)
  boh, bos,           \* handoff is supported; the BIOS owns the HBA
  sata,               \* ports with an active SATA drive
  st, fre, cr, fr,    \* PxCMD.ST, FRE, CR, FR
  bsy,                \* PxTFD.BSY or DRQ
  ci,                 \* PxCI
  cur, moved,         \* the slot being executed, sectors moved for it
  tfes,               \* ports halted by a task file error
  disk, mem,
  \* the driver
  pc, port, slot,
  todo,               \* ports the loop of init_ports has still to visit
  base,               \* ports whose PxCLB and PxFB the driver has set
  tbl,                \* the command in each slot
  n_cmdslots, main_drive, drive_count,
  \* the caller
  req, calls

bios == <<boh, bos>>
port_regs == <<st, fre, cr, fr, bsy, ci, cur, moved, tfes>>
data == <<disk, mem>>
setup == <<todo, base, n_cmdslots, main_drive, drive_count>>
caller == <<req, calls>>
fixed == <<cap, boh, sata>>
vars == <<cap, bios, sata, port_regs, data, pc, port, slot, setup, tbl, caller>>

(* The firmware may leave a port running, with commands issued.            *)
Init ==
  /\ cap \in SUBSET {"bit0", "s64a"}
  /\ boh \in BOOLEAN /\ bos \in BOOLEAN /\ (bos => boh)
  /\ sata \in SUBSET Ports
  /\ st \in SUBSET sata /\ cr = st
  /\ fre \in {{}, st} /\ fr = fre
  /\ bsy \in SUBSET sata
  /\ ci \in [Ports -> {{}, {0}}] /\ \A p \in Ports : ci[p] # {} => p \in st
  /\ cur = [p \in Ports |-> None] /\ moved = [p \in Ports |-> 0]
  /\ tfes = {}
  /\ disk = [l \in 0 .. DiskSize - 1 |-> l + 1]
  /\ mem = [a \in 0 .. MemSize - 1 |-> DiskSize + a + 1]
  /\ pc = "handoff" /\ port = None /\ slot = None
  /\ todo = {} /\ base = {}
  /\ tbl = [p \in Ports |-> [s \in Slots |-> Leftover]]
  /\ n_cmdslots = 0 /\ main_drive = None /\ drive_count = 0
  /\ req = NoRequest /\ calls = 0

-----------------------------------------------------------------------------
(* The firmware gives up the HBA once the OS has asked for it.             *)
BiosReleases ==
  /\ pc # "handoff" /\ bos
  /\ bos' = FALSE
  /\ UNCHANGED <<cap, boh, sata, port_regs, data, pc, port, slot, setup, tbl, caller>>

(* PxCMD.CR follows ST; when it goes off, whatever was executing stops.    *)
CommandListOn(p) ==
  /\ p \in st /\ p \notin cr
  /\ cr' = cr \cup {p}
  /\ UNCHANGED <<st, fre, fr, bsy, ci, cur, moved, tfes, data>>

CommandListOff(p) ==
  /\ p \in cr /\ p \notin st
  /\ cr' = cr \ {p}
  /\ cur' = [cur EXCEPT ![p] = None]
  /\ tfes' = tfes \ {p}
  /\ UNCHANGED <<st, fre, fr, bsy, ci, moved, data>>

(* PxCMD.FR follows FRE.                                                   *)
FisReceive(p) ==
  /\ p \in fre <=> p \notin fr
  /\ fr' = IF p \in fre THEN fr \cup {p} ELSE fr \ {p}
  /\ UNCHANGED <<st, fre, cr, bsy, ci, cur, moved, tfes, data>>

(* A drive that is busy for its own reasons (spin-up, an abandoned         *)
(* command) becomes ready.                                                 *)
DriveReady(p) ==
  /\ p \in bsy /\ cur[p] = None
  /\ bsy' = bsy \ {p}
  /\ UNCHANGED <<st, fre, cr, fr, ci, cur, moved, tfes, data>>

Running(p) == p \in st /\ p \in cr /\ p \in fr /\ p \notin tfes

Fetch(p) ==
  /\ Running(p) /\ cur[p] = None /\ p \notin bsy
  /\ \E s \in ci[p] : cur' = [cur EXCEPT ![p] = s]
  /\ moved' = [moved EXCEPT ![p] = 0]
  /\ bsy' = bsy \cup {p}
  /\ UNCHANGED <<st, fre, cr, fr, ci, tfes, data>>

(* A sector count of 0 asks for the largest transfer there is.             *)
Count(c) == IF c.n = 0 THEN WholeCount ELSE c.n

(* One sector of DMA.  It may go on until CR is off.                       *)
Transfer(p) ==
  /\ cur[p] # None
  /\ LET c == tbl[p][cur[p]]
         i == moved[p]
     IN /\ i < Count(c)
        /\ mem' = IF c.op = "read"
                    THEN [mem EXCEPT ![c.buf + i] = disk[c.lba + i]] ELSE mem
        /\ disk' = IF c.op = "write"
                     THEN [disk EXCEPT ![c.lba + i] = mem[c.buf + i]] ELSE disk
  /\ moved' = [moved EXCEPT ![p] = @ + 1]
  /\ UNCHANGED <<st, fre, cr, fr, bsy, ci, cur, tfes>>

Complete(p) ==
  /\ cur[p] # None /\ moved[p] = Count(tbl[p][cur[p]])
  /\ ci' = [ci EXCEPT ![p] = @ \ {cur[p]}]
  /\ cur' = [cur EXCEPT ![p] = None]
  /\ bsy' = bsy \ {p}
  /\ UNCHANGED <<st, fre, cr, fr, moved, tfes, data>>

(* The drive reports an error: PxCI keeps the command, and the port does   *)
(* nothing more until ST is cleared.                                       *)
TaskFileError(p) ==
  /\ cur[p] # None
  /\ tfes' = tfes \cup {p}
  /\ cur' = [cur EXCEPT ![p] = None]
  /\ bsy' = bsy \ {p}
  /\ UNCHANGED <<st, fre, cr, fr, ci, moved, data>>

(* The two engines, the execution of commands, and failures.               *)
Engine(p) ==
  /\ CommandListOn(p) \/ CommandListOff(p)
  /\ UNCHANGED <<fixed, bos, pc, port, slot, setup, tbl, caller>>

Fis(p) == FisReceive(p) /\ UNCHANGED <<fixed, bos, pc, port, slot, setup, tbl, caller>>

Execute(p) ==
  /\ DriveReady(p) \/ Fetch(p) \/ Transfer(p) \/ Complete(p)
  /\ UNCHANGED <<fixed, bos, pc, port, slot, setup, tbl, caller>>

Fail(p) == TaskFileError(p) /\ UNCHANGED <<fixed, bos, pc, port, slot, setup, tbl, caller>>

-----------------------------------------------------------------------------
(* The driver.  hba stands for what its register writes leave alone.       *)
hba == <<fixed, bos, bsy, cur, moved, tfes, data>>

(* take_ownership.  The test is of bit 0 of CAP, the port count, and not   *)
(* of CAP2.BOH.  The waits that follow have no effect but time; the test   *)
(* after them comes down to bit 0 of BOHC, the BIOS-owned semaphore.       *)
TakeOwnership ==
  /\ pc = "handoff"
  /\ pc' = IF "bit0" \notin cap THEN "refused" ELSE "verify"
  /\ UNCHANGED <<hba, st, fre, cr, fr, ci, port, slot, setup, tbl, caller>>

(* Mutant of VerifyOwnership: the semaphore is not tested.                 *)
VerifyNothing ==
  /\ pc = "verify"
  /\ pc' = "capabilities"
  /\ UNCHANGED <<hba, st, fre, cr, fr, ci, port, slot, setup, tbl, caller>>

VerifyOwnership ==
  /\ pc = "verify"
  /\ pc' = IF bos THEN "aborted" ELSE "capabilities"
  /\ UNCHANGED <<hba, st, fre, cr, fr, ci, port, slot, setup, tbl, caller>>

(* Mutant of ReadHbaCap: the field is not masked, and a bit above it shows.*)
ReadHbaCapUnmasked ==
  /\ pc = "capabilities" /\ "s64a" \in cap
  /\ n_cmdslots' = HwSlots - 1 + 32
  /\ todo' = Ports
  /\ pc' = "ports"
  /\ UNCHANGED <<hba, st, fre, cr, fr, ci, port, slot, base, main_drive, drive_count, tbl, caller>>

(* read_hba_cap.  CAP 12:8, read here only, holds one less than the number *)
(* of slots, and 0 on an HBA with a single one.                            *)
ReadHbaCap ==
  /\ pc = "capabilities"
  /\ IF "s64a" \in cap
       THEN /\ n_cmdslots' \in 0 .. HwSlots - 1
            /\ todo' = Ports
            /\ pc' = "ports"
       ELSE /\ pc' = "aborted"
            /\ UNCHANGED <<n_cmdslots, todo>>
  /\ UNCHANGED <<hba, st, fre, cr, fr, ci, port, slot, base, main_drive, drive_count, tbl, caller>>

(* init_ports, one port at a time in ascending order.                      *)
Following(p) == p \in todo /\ \A q \in todo : p <= q

SkipPort ==
  /\ pc = "ports"
  /\ \E p \in todo \ sata : Following(p) /\ todo' = todo \ {p}
  /\ UNCHANGED <<hba, st, fre, cr, fr, ci, pc, port, slot, base, n_cmdslots, main_drive, drive_count, tbl, caller>>

(* init_port_single begins with stop_cmd_engine: FRE first, then ST.       *)
InitPort ==
  /\ pc = "ports"
  /\ \E p \in todo \cap sata : Following(p) /\ port' = p /\ fre' = fre \ {p}
  /\ pc' = "fre_off"
  /\ UNCHANGED <<hba, st, cr, fr, ci, slot, setup, tbl, caller>>

(* Clearing ST clears PxCI.                                                *)
ClearSt ==
  /\ st' = st \ {port}
  /\ ci' = [ci EXCEPT ![port] = {}]

StopEngine ==
  /\ pc = "fre_off" /\ port \notin fr
  /\ ClearSt
  /\ pc' = "st_off"
  /\ UNCHANGED <<hba, fre, cr, fr, port, slot, setup, tbl, caller>>

(* Mutant of SetUpPort: PxCMD.CR is not waited for.                        *)
SetUpPortAtOnce ==
  /\ pc = "st_off"
  /\ base' = base \cup {port}
  /\ st' = st \cup {port}
  /\ pc' = "st_on"
  /\ UNCHANGED <<hba, fre, cr, fr, ci, port, slot, todo, n_cmdslots, main_drive, drive_count, tbl, caller>>

(* The command list, the FIS area and the tables; then start_cmd_engine.   *)
SetUpPort ==
  /\ pc = "st_off" /\ port \notin cr
  /\ base' = base \cup {port}
  /\ st' = st \cup {port}
  /\ pc' = "st_on"
  /\ UNCHANGED <<hba, fre, cr, fr, ci, port, slot, todo, n_cmdslots, main_drive, drive_count, tbl, caller>>

StartFis ==
  /\ pc = "st_on" /\ port \in cr
  /\ fre' = fre \cup {port}
  /\ pc' = "fre_on"
  /\ UNCHANGED <<hba, st, cr, fr, ci, port, slot, setup, tbl, caller>>

(* find_cmdslot(port): PxSACT stays 0, nothing is queued.                  *)
FreeSlots(p) == {s \in 0 .. n_cmdslots - 1 : s \notin ci[p]}
FindCmdslot(p, s) == s \in FreeSlots(p) /\ \A t \in FreeSlots(p) : s <= t

(* Filling the command header and its table.                               *)
Prepare(p, s, c) == tbl' = [tbl EXCEPT ![p][s] = c]

(* The end of init_port_single and of its round in init_ports.             *)
PortDone ==
  /\ main_drive' = IF main_drive = None THEN port ELSE main_drive
  /\ drive_count' = drive_count + 1
  /\ todo' = todo \ {port}
  /\ UNCHANGED <<base, n_cmdslots>>

(* get_port_info sends IDENTIFY.                                           *)
GetPortInfo ==
  /\ pc = "fre_on" /\ port \in fr
  /\ \E s \in Slots : FindCmdslot(port, s) /\ Prepare(port, s, Identify) /\ slot' = s
  /\ pc' = "busy"
  /\ UNCHANGED <<hba, st, fre, cr, fr, ci, port, setup, caller>>

GetPortInfoNoSlot ==
  /\ pc = "fre_on" /\ port \in fr
  /\ FreeSlots(port) = {}
  /\ PortDone
  /\ pc' = "ports"
  /\ UNCHANGED <<hba, st, fre, cr, fr, ci, port, slot, tbl, caller>>

InitDone ==
  /\ pc = "ports" /\ todo = {}
  /\ pc' = "idle"
  /\ UNCHANGED <<hba, st, fre, cr, fr, ci, port, slot, setup, tbl, caller>>

(* The block layer has found /dev/sda, so a drive was registered.          *)
Call ==
  /\ pc = "idle" /\ drive_count > 0 /\ calls < MaxCalls
  /\ req' \in Requests
  /\ calls' = calls + 1
  /\ pc' = "find_slot"
  /\ UNCHANGED <<hba, st, fre, cr, fr, ci, port, slot, setup, tbl>>

(* ahci_read_drive, ahci_write_drive: the slot, then prep_rw_op.           *)
PrepRwOp ==
  /\ pc = "find_slot"
  /\ \E s \in Slots :
       FindCmdslot(main_drive, s) /\ Prepare(main_drive, s, req) /\ slot' = s
  /\ port' = main_drive
  /\ pc' = "busy"
  /\ UNCHANGED <<hba, st, fre, cr, fr, ci, setup, caller>>

(* No slot: the value 1 is returned, and block_read_drive does not look.   *)
NoSlot ==
  /\ pc = "find_slot"
  /\ FreeSlots(main_drive) = {}
  /\ req' = NoRequest
  /\ pc' = "idle"
  /\ UNCHANGED <<hba, st, fre, cr, fr, ci, port, slot, setup, tbl, calls>>

(* send_cmd.                                                               *)
WaitReady ==
  /\ pc = "busy" /\ port \notin bsy
  /\ ClearSt
  /\ pc' = "cr_off"
  /\ UNCHANGED <<hba, fre, cr, fr, port, slot, setup, tbl, caller>>

(* Mutant of Restart: FRE stays off.                                       *)
RestartWithoutFis ==
  /\ pc = "cr_off" /\ port \notin cr
  /\ st' = st \cup {port}
  /\ pc' = "issue"
  /\ UNCHANGED <<hba, fre, cr, fr, ci, port, slot, setup, tbl, caller>>

Restart ==
  /\ pc = "cr_off" /\ port \notin cr
  /\ st' = st \cup {port} /\ fre' = fre \cup {port}
  /\ pc' = "issue"
  /\ UNCHANGED <<hba, cr, fr, ci, port, slot, setup, tbl, caller>>

Issue ==
  /\ pc = "issue"
  /\ ci' = [ci EXCEPT ![port] = @ \cup {slot}]
  /\ pc' = "ci"
  /\ UNCHANGED <<hba, st, fre, cr, fr, port, slot, setup, tbl, caller>>

(* Mutants: the wait is for another slot; there is no wait.                *)
AwaitedNext == 1

WaitNothing ==
  /\ pc = "ci"
  /\ ClearSt
  /\ pc' = "st_clear"
  /\ UNCHANGED <<hba, fre, cr, fr, port, slot, setup, tbl, caller>>

(* `ci & (1 << slot) != 0` is `ci & 1`: the wait is for slot 0.            *)
Awaited == 0

WaitDone ==
  /\ pc = "ci" /\ Awaited \notin ci[port]
  /\ ClearSt
  /\ pc' = "st_clear"
  /\ UNCHANGED <<hba, fre, cr, fr, port, slot, setup, tbl, caller>>

(* The wait is for ST, which the driver has just cleared, not for CR.      *)
FisOff == fre' = fre \ {port}

IdentifyDone ==
  /\ pc = "st_clear" /\ req = NoRequest
  /\ FisOff
  /\ PortDone
  /\ pc' = "ports"
  /\ UNCHANGED <<hba, st, cr, fr, ci, port, slot, tbl, caller>>

Return ==
  /\ pc = "st_clear" /\ req # NoRequest
  /\ FisOff
  /\ req' = NoRequest
  /\ pc' = "idle"
  /\ UNCHANGED <<hba, st, cr, fr, ci, port, slot, setup, tbl, calls>>

Driver ==
  \/ TakeOwnership \/ VerifyOwnership \/ ReadHbaCap
  \/ SkipPort \/ InitPort \/ StopEngine \/ SetUpPort \/ StartFis
  \/ GetPortInfo \/ GetPortInfoNoSlot \/ InitDone
  \/ PrepRwOp \/ NoSlot
  \/ WaitReady \/ Restart \/ Issue \/ WaitDone \/ IdentifyDone \/ Return

Next ==
  \/ Driver \/ Call \/ BiosReleases
  \/ \E p \in Ports : Engine(p) \/ Fis(p) \/ Execute(p) \/ Fail(p)

Spec == Init /\ [][Next]_vars

(* The driver runs whenever it can, and the HBA and the drives get on with *)
(* what they were asked; a drive never has to fail, nor the BIOS to let go,*)
(* nor the block layer to call.                                            *)
FairSpec ==
  /\ Spec
  /\ WF_vars(Driver)
  /\ \A p \in Ports : WF_vars(Engine(p)) /\ WF_vars(Fis(p)) /\ WF_vars(Execute(p))

-----------------------------------------------------------------------------
Pcs == {"handoff", "refused", "verify", "aborted", "capabilities", "ports",
        "fre_off", "st_off", "st_on", "fre_on", "idle", "find_slot",
        "busy", "cr_off", "issue", "ci", "st_clear"}
OnPort == {"fre_off", "st_off", "st_on", "fre_on", "busy", "cr_off", "issue", "ci", "st_clear"}
OnSlot == {"busy", "cr_off", "issue", "ci", "st_clear"}

(* The types of the variables; the driver works on a port with a drive and *)
(* a slot the HBA has, and a request needs a main drive.                   *)
TypeOK ==
  /\ cap \subseteq {"bit0", "s64a"} /\ boh \in BOOLEAN /\ bos \in BOOLEAN
  /\ sata \subseteq Ports
  /\ st \subseteq Ports /\ fre \subseteq Ports /\ cr \subseteq Ports /\ fr \subseteq Ports
  /\ bsy \subseteq Ports /\ tfes \subseteq Ports
  /\ ci \in [Ports -> SUBSET Slots]
  /\ cur \in [Ports -> Slots \cup {None}] /\ moved \in [Ports -> Nat]
  /\ pc \in Pcs
  /\ port \in Ports \cup {None} /\ (pc \in OnPort => port \in Ports)
  /\ slot \in Slots \cup {None} /\ (pc \in OnSlot => slot \in Slots)
  /\ todo \subseteq Ports /\ base \subseteq Ports
  /\ tbl \in [Ports -> [Slots -> Commands]]
  /\ n_cmdslots \in 0 .. HwSlots - 1
  /\ main_drive \in Ports \cup {None} /\ drive_count \in Nat
  /\ drive_count > 0 => main_drive \in Ports
  /\ req \in Requests \cup {NoRequest} /\ calls \in Nat
  /\ pc = "find_slot" => req \in Requests /\ main_drive \in Ports

(* The driver touches the ports only when the BIOS has given up the HBA    *)
(* (the comment of take_ownership: "to give control of the HBA from the    *)
(* BIOS to us").                                                           *)
OwnsHba == pc \notin {"handoff", "refused", "verify", "aborted"} => ~bos

(* PxCLB and PxFB change only while the port neither runs commands nor     *)
(* posts FISes: the HBA never works half on the firmware's structures and  *)
(* half on the driver's (init_port_single).                                *)
EngineStopped == [][\A p \in Ports : p \in base' \ base => p \notin cr \cup fr]_vars

(* A command header and its table are rewritten only while the HBA has no  *)
(* use for them: the slot is neither issued nor being executed (prep_rw_op,*)
(* get_port_info after find_cmdslot).                                      *)
SlotIdle ==
  [][\A p \in Ports : \A s \in Slots :
       tbl'[p][s] # tbl[p][s] => s \notin ci[p] /\ cur[p] # s]_vars

(* ahci_read_drive and ahci_write_drive move the sectors asked for and     *)
(* nothing else, and return when all are moved: never early, in spite of   *)
(* send_cmd's wait for slot 0 whatever slot it used.  Only on an HBA whose *)
(* single slot find_cmdslot never finds is a request refused, and then     *)
(* neither it nor the port that was set up touches anything.               *)
D == INSTANCE Disk WITH usable <- n_cmdslots > 0
Carried == D!Init /\ [][D!Next]_<<disk, mem, req>>

(* ahci_init, ahci_read_drive and ahci_write_drive return, or wait for     *)
(* ever for a command the drive failed (send_cmd never looks at PxIS).     *)
Resting == pc \in {"idle", "refused", "aborted"}
Progress == ~Resting ~> (Resting \/ (pc = "ci" /\ port \in tfes))
=============================================================================
