-------------------------------- MODULE Boot --------------------------------
(***************************************************************************)
(* _start of init.c: the boot sequence over Platform, Pci and Files, with  *)
(* ext2_init and the part of the two drivers' set-up that ties them to the *)
(* rest (what they do to their devices is in Ahci and Rtl8139), and then   *)
(* the calls the finished system offers.  One thread; pc is the next call. *)
(***************************************************************************)
EXTENDS Platform, Pci, Files

CONSTANTS
  HeapBytes,   \* what kmalloc'd memory may hold where nothing was written
  Configs,     \* the PCI configurations the machine may have
  AhciClass,   \* CLASS_ID and SUBCLASS_ID of ahci.c
  NicIds,      \* VENDOR_ID and DEVICE_ID of rtl8139.c
  Modes        \* the modes callers give fopen

ASSUME HeapAssumption == HeapBytes \subseteq 0 .. 255

ASSUME ConfigsAssumption ==
  \A c \in Configs : DOMAIN c \subseteq Places /\ c \in [DOMAIN c -> [0 .. 15 -> Words \X Words]]

VARIABLES
  pc,
  refuses,     \* the HBA reports one command slot: find_cmdslot answers -1
  ahci,        \* ahci.c's dev
  nic,         \* rtl8139.c's dev
  irq_line,    \* its irq_line, which pci_init_dev leaves as the heap had it
  superblock,  \* ext2.c's: "none", "read" from the drive, "stale" memory
  io           \* the last block call, [op, type, ret, asked]

bootVars == <<refuses, ahci, nic, irq_line, superblock, io>>
vars == <<platformVars, cfg, fileVars, pc, bootVars>>

NoIo == [op |-> "none", type |-> "none", ret |-> "error", asked |-> None]

Init ==
  /\ PlatformInit /\ FilesInit
  /\ cfg \in Configs
  /\ pc = "init_exceptions"
  /\ refuses \in BOOLEAN
  /\ ahci = NoDev /\ nic = NoDev /\ irq_line = 0
  /\ superblock = "none" /\ io = NoIo

Call(from, to) == pc = from /\ pc' = to

-----------------------------------------------------------------------------
Exceptions ==
  /\ Call("init_exceptions", "acpi_init") /\ InitExceptions
  /\ UNCHANGED <<cfg, fileVars, bootVars>>

Acpi ==
  /\ Call("acpi_init", "vfs_init") /\ AcpiInit
  /\ UNCHANGED <<cfg, fileVars, bootVars>>

AcpiStops ==
  /\ Call("acpi_init", "halted") /\ AcpiInitStops
  /\ UNCHANGED <<platformVars, cfg, fileVars, bootVars>>

Vfs ==
  /\ Call("vfs_init", "devfs_init") /\ VfsInit
  /\ UNCHANGED <<platformVars, cfg, bootVars>>

Devfs ==
  /\ Call("devfs_init", "ahci_init") /\ DevfsInit
  /\ UNCHANGED <<platformVars, cfg, bootVars>>

(* ahci_init looks for the HBA by class and lets it master the bus.        *)
AhciFound ==
  /\ Call("ahci_init", "take_ownership")
  /\ ahci' = PciFindAny(AhciClass[1], AhciClass[2], -1) /\ ahci'.found
  /\ EnableBusMastering(ahci'.at)
  /\ UNCHANGED <<platformVars, fileVars, refuses, nic, irq_line, superblock, io>>

AhciAbsent ==
  /\ Call("ahci_init", "ext2_init")
  /\ ~PciFindAny(AhciClass[1], AhciClass[2], -1).found
  /\ UNCHANGED <<platformVars, cfg, fileVars, bootVars>>

(* take_ownership and read_hba_cap, either of which may give up.           *)
HbaReady ==
  /\ pc = "take_ownership"
  /\ pc' \in {"init_ports", "ext2_init"}
  /\ UNCHANGED <<platformVars, cfg, fileVars, bootVars>>

InitPort ==
  /\ Call("init_ports", "init_ports")
  /\ DriveFound \/ NoDrive
  /\ UNCHANGED <<platformVars, cfg, bootVars>>

InitPortsReturns ==
  /\ Call("init_ports", "ext2_init") /\ PortsDone
  /\ UNCHANGED <<platformVars, cfg, bootVars>>

(* What block_read_drive and block_write_drive return once fopen has given *)
(* found: an error for a missing node, which block_write_drive closes all  *)
(* the same, and success otherwise, whatever the driver has to say.  Only  *)
(* a request for the hard disk reaches the driver.                         *)
Answer(op, type, found) ==
  IF found = Missing
    THEN [op |-> op, type |-> type, asked |-> None,
          ret |-> IF op = "write" THEN "fault" ELSE "error"]
    ELSE [op |-> op, type |-> type, asked |-> main_drive,
          ret |-> IF type = "HDD" /\ main_drive = None THEN "fault" ELSE "ok"]

(* ext2_init reads the superblock, and looks at the memory it asked for    *)
(* even if the driver refused.                                             *)
Ext2 ==
  /\ pc = "ext2_init"
  /\ \E found \in Finds("HDD") : io' = Answer("read", "HDD", found)
  /\ superblock' = IF io'.ret = "error" THEN "none"
                   ELSE IF refuses THEN "stale" ELSE "read"
  /\ pc' = IF io'.ret = "fault" THEN "halted" ELSE "lapic_init"
  /\ UNCHANGED <<platformVars, cfg, fileVars, refuses, ahci, nic, irq_line>>

Lapic ==
  /\ Call("lapic_init", "ioapic_init") /\ LapicInit
  /\ UNCHANGED <<cfg, fileVars, bootVars>>

IoApic ==
  /\ Call("ioapic_init", "rtl8139_init") /\ IoApicInit
  /\ UNCHANGED <<cfg, fileVars, bootVars>>

NicFound ==
  /\ Call("rtl8139_init", "register_irq")
  /\ nic' = PciFind(NicIds[1], NicIds[2]) /\ nic'.found
  /\ EnableBusMastering(nic'.at)
  /\ irq_line' \in HeapBytes
  /\ UNCHANGED <<platformVars, fileVars, refuses, ahci, superblock, io>>

NicAbsent ==
  /\ Call("rtl8139_init", "idle")
  /\ ~PciFind(NicIds[1], NicIds[2]).found
  /\ UNCHANGED <<platformVars, cfg, fileVars, bootVars>>

NicIrq ==
  /\ Call("register_irq", "sti") /\ RegisterIrq(irq_line, "rtl8139")
  /\ UNCHANGED <<cfg, fileVars, bootVars>>

Sti ==
  /\ Call("sti", "idle")
  /\ sti' = TRUE
  /\ UNCHANGED <<fw, acpi, idt, redir, next_vec, timer_vector, lines, pm1>>
  /\ UNCHANGED <<cfg, fileVars, bootVars>>

BootStep ==
  \/ Exceptions \/ Acpi \/ AcpiStops \/ Vfs \/ Devfs
  \/ AhciFound \/ AhciAbsent \/ HbaReady \/ InitPort \/ InitPortsReturns \/ Ext2
  \/ Lapic \/ IoApic \/ NicFound \/ NicAbsent \/ NicIrq \/ Sti

-----------------------------------------------------------------------------
(* What the finished system offers.                                        *)
Block(op, type) ==
  /\ pc = "idle"
  /\ \E found \in Finds(type) : io' = Answer(op, type, found)
  /\ pc' = IF io'.ret = "fault" THEN "halted" ELSE "idle"
  /\ UNCHANGED <<platformVars, cfg, fileVars, refuses, ahci, nic, irq_line, superblock>>

FileCall ==
  /\ \/ \E path \in Paths, mode \in Modes :
          \/ Call("idle", "idle") /\ Fopen(path, mode)
          \/ Call("idle", "halted") /\ FopenFaults(path, mode)
     \/ Call("idle", "idle") /\ \E i \in DOMAIN files : Fclose(i)
  /\ UNCHANGED <<platformVars, cfg, bootVars>>

(* init_pit, commented out in init.c, takes line 0.                        *)
IrqCall ==
  /\ Call("idle", "idle")
  /\ \/ RegisterIrq(0, "pit")
     \/ \E irq \in lines : MaskIrq(irq)
     \/ \E irq \in {0, irq_line} : UnmaskIrq(irq)
  /\ UNCHANGED <<cfg, fileVars, bootVars>>

PowerOff ==
  /\ Call("idle", "halted") /\ AcpiPowerOff
  /\ UNCHANGED <<cfg, fileVars, bootVars>>

Next ==
  \/ BootStep
  \/ \E op \in {"read", "write"}, type \in {"HDD", "SSD"} : Block(op, type)
  \/ FileCall \/ IrqCall \/ PowerOff

Spec == Init /\ [][Next]_vars

-----------------------------------------------------------------------------
TypeOK ==
  /\ pc \in {"init_exceptions", "acpi_init", "vfs_init", "devfs_init", "ahci_init",
            "take_ownership", "init_ports", "ext2_init", "lapic_init", "ioapic_init",
            "rtl8139_init", "register_irq", "sti", "idle", "halted"}
  /\ DOMAIN idt \subseteq 0 .. 255
  /\ \A g \in DOMAIN redir : redir[g] \in 0 .. 255 \cup {Nothing}
  /\ lines \subseteq 0 .. 255 /\ sti \in BOOLEAN
  /\ timer_vector \in {-1, 0} \cup 129 .. 254 /\ next_vec \in 129 .. 255
  /\ slp \in [en : {0, 1}, a : 0 .. 255, b : 0 .. 255]
  /\ \A n \in DOMAIN children : \A e \in children[n] : e.node \in nodes
  /\ port \in 0 .. NPorts /\ drive_count \in 0 .. port
  /\ main_drive \in sata \cup {None}
  /\ Len(files) <= MaxOpen
  /\ superblock \in {"none", "read", "stale"}
  /\ io.ret \in {"ok", "error", "fault"}

(* An interrupt the I/O APIC lets through finds the handler of a driver in *)
(* the gate of its vector, whatever number the uninitialised irq_line of   *)
(* the NIC held, with the vector and the register number both cut to eight *)
(* bits; and the gates of the exceptions stay what they were, unless that  *)
(* number wraps past the end of the table.                                 *)
GatesRight ==
  /\ \A g \in Unmasked : redir[g] \in DOMAIN idt /\ idt[redir[g]] \in {"pit", "rtl8139"}
  /\ pc # "init_exceptions" /\ irq_line < 224 =>
       \A v \in ExceptionVectors : v \in DOMAIN idt /\ idt[v] = "exception"

(* register_irq, mask_irq and unmask_irq agree on the entry of a line in   *)
(* spite of overrides and whatever byte irq_line holds: an open entry is   *)
(* that of an unmasked line and has its vector, and an unmasked line that  *)
(* shares its entry with no other the kernel uses has it open.             *)
LinesOpen ==
  sti =>
    /\ \A g \in Unmasked : \E l \in lines : g = EntryOf(l) /\ redir[g] = (32 + l) % 256
    /\ \A l \in lines :
         HasEntry(l) /\ (\A k \in {0, irq_line} \ {l} : EntryOf(k) # EntryOf(l))
           => redir[EntryOf(l)] = (32 + l) % 256

(* Powering off writes the sleep type the firmware declared in \_S5, when  *)
(* that object is the first "_S5_" and its package length has one byte.    *)
PowersOff ==
  pm1 # <<>> /\ fw.plain =>
    /\ pm1[1] = [en |-> 1, typ |-> fw.s5[1]]
    /\ fw.pm1b => pm1[2] = [en |-> 1, typ |-> fw.s5[2]]

(* The functions each driver looks for, as their registers read now.       *)
Hbas ==
  {f \in DOMAIN cfg : f[1] < Buses /\ cfg[f][2][2] \div 256 = AhciClass[1]
                                   /\ cfg[f][2][2] % 256 = AhciClass[2]}
Nics ==
  {f \in DOMAIN cfg : f[1] < Buses /\ cfg[f][0][1] = NicIds[1]
                                   /\ cfg[f][0][2] = NicIds[2]}

(* The address as one number, its bits the order of the scan.              *)
Address(f) == (f[1] * 32 + f[2]) * 8 + f[3]

(* dev is the first of the functions fs, with its base addresses, and may  *)
(* master the bus (BAR 3, which no driver uses, is not read right).        *)
HoldsFirst(dev, fs) ==
  /\ dev.at \in fs /\ \A f \in fs : Address(dev.at) <= Address(f)
  /\ \A i \in 0 .. 5 \ {3} : dev.bars[i] = cfg[dev.at][4 + i]
  /\ Bit(cfg[dev.at][1][1], 2) = 1

(* Each driver holds the first function of the kind it was written for on  *)
(* the buses scanned, whatever stands before it, and has made that one a   *)
(* bus master; and a machine that comes up without a driver has no such    *)
(* function there.                                                         *)
DevicesRight ==
  /\ ahci.found => HoldsFirst(ahci, Hbas)
  /\ nic.found => HoldsFirst(nic, Nics)
  /\ pc = "idle" => (~ahci.found => Hbas = {}) /\ (~nic.found => Nics = {})

(* Enabling bus mastering changes the command word of one function only:   *)
(* the word write is a dword write, and status must not be lost with it.   *)
EnableKeepsRest ==
  [][cfg' # cfg => \A f \in DOMAIN cfg : \A i \in DOMAIN cfg[f] :
       /\ i # 1 => cfg'[f][i] = cfg[f][i]
       /\ cfg'[f][1][2] = cfg[f][1][2]
       /\ \A b \in 0 .. 15 \ {0, 2} : Bit(cfg'[f][1][1], b) = Bit(cfg[f][1][1], b)]_cfg

(* The block layer looks for the node "sda", the driver uses main_drive:   *)
(* one is there exactly when the other is, it is the first drive, and a    *)
(* request that succeeds has gone to it, however many drives came after.   *)
DrivesRegistered ==
  LET First(p) == p \in sata /\ \A q \in sata : p <= q
  IN  /\ Child(Dev, DriveName(0)) # Missing <=> main_drive # None
      /\ main_drive # None => First(main_drive)
      /\ io.ret = "ok" /\ io.type = "HDD" => First(io.asked)

(* A path leads to no node but one with the name its last component reads  *)
(* as, although the buffer that is the key of several drives changes under *)
(* the map (an unterminated component may read as more than was written).  *)
NamesRight ==
  \A path \in Paths : \A comps \in Readings(path) :
    PathToNode(path, comps) \in {Missing, Fault} \cup {comps[i] : i \in {Len(comps)} \ {0}}

(* hashmap_put does not copy the key, which therefore has to remain a      *)
(* valid pointer until the entry is removed (hashmap.h:87-89).  The        *)
(* entries of the drives after the first keep a buffer init_ports frees.   *)
KeysValid == \A n \in DOMAIN children : \A e \in children[n] : e.key = Buffer => ~freed
=============================================================================
