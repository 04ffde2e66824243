# mksd in TLA+

TLA+ models, TLC runs and TLAPS proofs for the mksd kernel: a small x86-64
kernel in C, booted by Limine, single processor, no user space.  Everything
below refers to files under `src/sys/`.

## The system

`_start` (init.c) runs once: IDT and exceptions, physical memory, ACPI, VFS and
devfs, AHCI, ext2 probe, local APIC, I/O APIC, and last the network card, whose
initialisation ends with `sti`.  After that the boot thread only halts, so the
only code that runs is the interrupt handler of the network card.  That order
decides which interleavings exist: nothing before `sti` is ever interrupted.

| Part | State it keeps | Operations | What makes it correct |
|---|---|---|---|
| PMM `mm/pmm.c` | the bitmap, the memory map (one entry shrinks) | `pmm_init`, `pmm_alloc`, `pmm_free` | no frame has two owners, none is lost, the bitmap's own memory is never given out, no frame without a bit is handed out |
| VMM `mm/vmm.c`, mmap `mm/mmap.c` | page tables | `vmm_map_page`, `vmm_umap_page`, `vmm_get_phys`, `k_mmap` | a mapping reads back as written; a region's addresses are the frames it owns |
| Heap `mm/heap.c` | `heap_start`, `free_ptr`, `bytes_allocated`, a header per block | `kmalloc`, `kcalloc`, `kfree`, `krealloc` | blocks disjoint, list intact, count right, arena not left |
| Hashmap `include/lib/hashmap.h` | table of (key, length, used, data) | create, put, get, remove, iterate, destroy | a partial map from keys to data |
| VFS `fs/vfs.c`, devfs `fs/devfs.c` | tree of nodes, each with a hash map of its children | `vfs_make_node`, `vfs_path_to_node`, `fopen`, `fclose`, `devfs_register_device` | a path never leads to a node of another name; the drive the block layer finds is the one the driver uses |
| AHCI `drivers/hdd/ahci.c` | ports, command slots, command tables, main drive | `ahci_init`, `ahci_read_drive`, `ahci_write_drive`, IDENTIFY | the controller is ours before it is touched; the engines are off when their memory moves; a table in use is not rewritten; a request moves its sectors and nothing else before it returns |
| Block devices `block/dev.c`, ext2 `fs/ext2.c` | the superblock | `block_read_drive`, `block_write_drive`, `ext2_init` | a call is refused when there is no drive |
| NIC `drivers/net/rtl8139.c` | receive ring offset, packet buffer, next descriptor | interrupt handler, `rtl8139_send_packet`, `rtl8139_read_packet` | packets are taken once and in order, interrupts are not lost, a descriptor is owned when used |
| ARP, IP, UDP, ICMP, Ethernet `net/` | none of their own (heap blocks, the NIC's buffer) | `arp_resolve`, `*_send*`, `internet_checksum` | the answer belongs to the question; every byte of the heap is accounted for; the checksum is right; a call returns |
| PCI `arch/bus/pci.c`, ACPI `acpi/acpi.c` | found devices; tables | config access, search; table walk, `_S5_`, power off | the device found is the one looked for; a word write leaves its neighbour alone; the sleep type is the firmware's |
| Interrupts `arch/x64/*`, `intr/irq.c`, timers | IDT, next vector, redirection entries, ticks | register, mask, unmask, EOI | what the I/O APIC lets through has its driver's handler; registering and masking agree on the entry of a line |
| Library `lib/` | none | strings, conversions, log | pure functions |

Parts call each other directly; the only asynchrony is hardware: the network
card writes memory, raises its line and owns transmit descriptors, and the disk
controller completes commands.  `PROJECT.json` lists every part with its status
and every hazard at its line.

## Modules

A detailed module models one source file, or a few that make one component.
Where the component makes a promise to its callers, a short abstract module
states it and the detailed one refines it (`INSTANCE ... WITH`, the abstract
`Spec` as a PROPERTY).  `MC*` modules hold the constants of the TLC instances,
`*Proofs` modules the theorems.  An operator whose comment calls it a mutant is
a faulty variant of the definition that follows it, used to see that a property
can fail; no specification uses it.

| Code | Abstract | Detailed | Instances | Proofs |
|---|---|---|---|---|
| `mm/pmm.c` | FrameAllocator | Pmm | MCPmm | PmmProofs |
| `mm/heap.c` | BlockAllocator | KHeap | MCKHeap | KHeapProofs |
| `drivers/net/rtl8139.c` | PacketQueue | Rtl8139 | MCRtl8139 | Rtl8139Proofs |
| `drivers/hdd/ahci.c` | Disk | Ahci | MCAhci | AhciProofs |
| `include/lib/hashmap.h` | PartialMap | Hashmap | MCHashmap | HashmapProofs |
| `acpi/acpi.c`, `arch/x64/*`, `intr/irq.c` | | Platform | MCBoot | BootProofs |
| `arch/bus/pci.c` | | Pci | MCBoot | BootProofs |
| `fs/vfs.c`, `fs/devfs.c`, `init_ports`, strings | | Files | MCBoot | FilesProofs |
| `init.c`, `fs/ext2.c`, `block/dev.c`, the drivers' set-up | | Boot, over Platform, Pci and Files | MCBoot | FilesProofs, BootProofs |
| `net/checksum.c` | | Checksum | MCNet | NetProofs |
| `net/*.c` over `rtl8139.c` | | Net, over Checksum | MCNet | NetProofs |

**Pmm.**  `memmap` is the Limine map, `bitmap` where the bitmap lies, `unset` the
bits that are 0, `grants` what callers believe they own.  `PmmInit` is pmm_init
with both loops of init_bitmap, `PmmAlloc`/`PmmAllocFails` pmm_alloc with its
scan, `PmmFree` pmm_free.  Addresses are counted in page frames, since the code
only divides them by 0x1000 and usable entries are page-aligned; the roundings
of get_bitmap_size (bits to bytes down, bytes to pages up) are kept.  Bits past
the bitmap stay visible in `unset`, so that touching one can be seen.  `MapOK`
is what the boot protocol promises plus the one thing the code takes for
granted, that some entry has room for the bitmap.

**KHeap.**  The arena is addressed by the byte; `msize`, `next`, `prev` are the
header fields by header address, `Garbage` a word nobody has written.  One
action per entry point and outcome: `KMalloc`, `KMallocFails`, `KMallocWild`
(the checks pass and a header lands outside the arena; memory is undefined from
there on, so the state has no successor), `KFree`, `KRealloc`, `KReallocFails`.
heap_init is part of the first kmalloc (`Top`).  kcalloc is kmalloc and a clear
of the payload, which the model does not hold.  The first block is never freed
(`Freeable`): it is the node of "/" that vfs_init makes before anything else
allocates, and nothing ever writes its `prev`.

**Rtl8139.**  The handler takes one step per access to a register: read REG_ISR,
write it back, recieve_packet, look at descriptors, send, clear again, EOI.  The
card stores frames, drops them, transmits and raises its line at any time in
between.  `ring` says which packet starts at each offset of the receive buffer,
with alignment, wrap and the 16-byte bias of CAPR as in the code; a packet is
its arrival number and a kind, whose length field is a constant.  `irq` is the
latched edge (the I/O APIC entry has no level bit).  Status bits the handler only
logs are represented by RX_BUFFER_OVERFLOW.  Where the handler would read memory
in which no packet starts, any header is possible (`Headers`).  The descriptors
share `txmem`, because `txbufs` is an array of bytes and every address is
truncated to 0.  Not modelled: the register writes of rtl8139_init before the
card accepts frames (the model starts there), the heap calls of arp_respond
(they are in Net), senders other than the handler (Net has them, this kernel
calls none), and what a packet stored across the end of the ring overwrites.

**Ahci.**  The driver polls with interrupts off, one register access per step;
the last read of a polling loop and the write after it are one step, and the BB
bit and CLI_SLEEP are only time.  Register bits are sets of ports.  A command
header and its table are one record, `tbl[p][s]`; the frames they live in come
from pmm_alloc one at a time and are distinct (Pmm).  The HBA is external,
modelled as the driver uses it: CR follows ST, FR follows FRE, clearing ST
clears PxCI, an executing command goes on until CR is off, a transfer moves one
sector per step, a drive may fail any command, which leaves its PxCI bit set.
The firmware may leave ports running with a command issued, own the HBA, and let
go of it at any time once asked.  PxSACT is 0.  `FindCmdslot`, the wait for slot
0 (`ci & (1 << slot) != 0` parses as `ci & 1`) and the slot count are as in the
code.

**Hashmap.**  A table is its `table_size`, its `size` and its elements; `hash` is
any function of a given set in place of the CRC and the mixing after it.
hashmap_put calls itself: when no slot of the key's chain is free it doubles the
table and moves every entry by putting it into the new one, which may be full
for that key too.  `m` is the stack of tables of these nested calls, `call` the
entry the caller wanted stored.  One step places one entry (`PutReturns`,
`Move`), opens a larger table (`Grow`), is refused one (`GrowFails`, which
unwinds every put on the stack and leaves the map with what had not yet moved)
or adopts a filled one (`Adopt`).  The other operations are one step each.
Calls on a map without a table are made only where the code survives them.

**Platform, Pci, Files and Boot.**  `Boot` is `_start`, one action per call, with
`pc` the next one; the other three modules say what the call does to the state
it touches.  `Platform`: the firmware's tables (`AcpiInit`, the scan for `_S5_`
with the package as bytes), the descriptor table `idt`, the redirection entries
`redir`, and the casts to eight bits on the way there.  `Pci`: configuration space
as dwords that are read by halves and written whole.  `Files`: names as values, the
children of a node as entries of its hash map, with the key pointer that
init_ports reuses as a key of its own (`Buffer`, read through `drive_id`); at most
eight children, so that a lookup sees all of them as in Hashmap.  After boot the
machine accepts what the finished kernel offers: block calls, fopen and fclose,
masking and unmasking, init_pit's registration, power off.  `FopenFaults`,
`AcpiStops` and a "fault" of a block call are the ends where the code
dereferences NULL or an assertion stops it.

**Net and Checksum.**  One thread that calls udp_send_ipv4 or
icmp_send_msg_ipv4, with a step per kmalloc, kfree, send, and look at the flag
of the receive buffer, down through ipv4_send, arp_resolve and ethernet_send; and
the interrupt handler, which stores a packet and answers ARP between any two of
those steps.  The address is copied out of `packet_buf` in two halves, since the
handler may overwrite that buffer in the middle.  `internet_checksum` goes round by
round over the words of the message (`AddWord`, `Fold`).  A refused kmalloc ends in
"fault", because nobody looks at its NULL.  Of the heap only `bytes_allocated` is
kept; `leaked` is a history variable that adds up what no code will ever free.

How they fit together: `Boot` composes Platform, Pci and Files, `Net` composes
Checksum with the stack and the handler.  What the other modules take from each
other is stated where it is taken: Ahci relies on distinct frames
(`GrantsDisjoint` for single-frame requests), KHeap on one run of HEAP_SIZE_PAGES
pages, Files on a map that answers as `PartialMap` does, the block calls of Boot
on an AHCI driver that does what Ahci shows, or refuses (`refuses`, the HBA with a
single slot), Net on a handler that takes packets in order (PacketQueue).

## Runs

Every passing run is exhaustive.

| Run | Distinct states | Shows |
|---|---|---|
| `pmm_single` | 6,153 | single-frame callers: none lost or invented, the bitmap never given out, the scan's size stable, of the frames whose bits the rounding cuts off at most seven and none handed out, refines FrameAllocator |
| `pmm_multi` (violation) | | a caller that asks for two frames does not own the second |
| `kheap_ok` | 5,676 | live blocks disjoint, list threads exactly the live blocks, byte count exact, refines BlockAllocator |
| `kheap_arena` (violation) | | legal kmalloc/kfree sequences write past the arena |
| `rtl8139_rx` | 125,190 | no phantom packet, no lost edge once the handler is registered, packets in order (refines PacketQueue), the handler returns, what is sent leaves as long as no descriptor was found busy |
| `rtl8139_burst` (violation) | | of two packets that arrive together one is never identified |
| `rtl8139_txmem` (violation) | | a second reply overwrites the first while it is being sent |
| `ahci_rw` | 24,666 | ports untouched while the BIOS owns the HBA, engines off at set-up, no table rewritten in use, reads and writes refine Disk, every call returns or waits on a failed drive |
| `hashmap_calls` | 162,362 | keys stored once and within reach, size exact, in old and new tables of nested rehashes; refines PartialMap; every put returns |
| `boot_up` | 139,528 | on each machine: unmasked interrupts have their driver's gate, an open entry is that of an unmasked line, each driver holds the first function of its kind, paths and drives are right, powering off writes the firmware's sleep type |
| `boot_keys` (violation) | | with two drives the map of /dev keeps a key whose buffer init_ports has freed |
| `net_calls` | 433,213 | the IP packet goes to the host that was asked unless another packet got in between, the heap balances but for the known leaks, the checksum is right, calls return |

Bounds, and why they are enough:

- *Pmm*: pages of two bytes, so that one bitmap page covers 16 frames and the
  maps need one or two; seven maps chosen for the corner cases of init_bitmap (an
  entry too small for the bitmap, a host used up by it, a remainder smaller than
  it, the host also the highest entry, a top on a page boundary plus a byte; and
  tops 1, 3 and 7 frames past a boundary, whose bits the rounding cuts off, in the
  pool, in the host, and next to a host that is used up); four callers hold one run each, enough to exhaust the smaller pools and to free in
  any order.
- *KHeap*: 20 bytes, headers of 2, sizes 1, 2 and 19: five or six small blocks, so
  a free may hit the first, a middle and the last freeable block next to freed and
  live neighbours; 19 is refused while two bytes are live and otherwise runs out of
  the arena.  free_ptr only grows, so the runs are finite without a bound.
- *Rtl8139*: a ring of 32 bytes, packets that take 8, 12 and 16 (the last is
  longer than PACKET_SIZE_MAX): three or four fill it; `MaxFrames` 5 frames reach the
  second lap at an offset the first lap did not have, overflow, and both
  descriptors busy.  Two frames are enough for the violations.
- *Ahci*: two ports (the order of init_ports, the second drive, `main_drive`), one
  to three slots (`HwSlots`), of which the driver counts none to two, a disk of three and a memory of four sectors, `MaxCalls` 2 requests from a read and two
  writes that overlap on the disk and in memory, so that a sector moved late, early or
  to the wrong place shows in a later request.
- *Hashmap*: four keys and chains of `Chain` 2 slots; one hash function puts three
  keys on one chain for ever, so that doubling never helps and memory ends
  (`MaxTable` 16 elements); the other has chains that overlap and wrap around the
  end of the table, so that a rehash meets a full chain in the new table.  Sizes
  1 and 4 are created, 3 is refused as no power of two.  Four callbacks keep,
  empty, and stop a walk half way.
- *Boot*: seven firmwares (overrides, several I/O APICs, the tables in
  another order, the name `_S5_` under the root, inside another object, with a two-byte length, absent; a
  missing and a broken table), three PCI configurations (decoys before the
  device, two of a kind, a function on a bus that is not scanned), six values of the
  irq_line nobody sets (a usable one, one whose entry aliases another, one past the
  entries, one whose vector wraps, and two that share the entry of line 0, by the
  override and by the cut of the register number), four populations of four ports, and paths of every
  shape the splitter tells apart; the bytes behind an unterminated last component
  may complete the name of a node it begins (`SomeStems`).  Drives are numbered in base `Radix` 2, so that the third drive's
  name is longer than the second's.  `MaxOpen` 1 file at a time.
- *Net*: two hosts, an odd message whose words carry twice and an empty one, a
  `Patience` of 1 round, `MaxCalls` 3 and `MaxPackets` 3: an answer left over from
  one call meets the next two.  `HeapBytes` 230 is reached by some of the runs.

`CHECK_DEADLOCK FALSE` is set where the system rests: the heap after it has left
its arena, the card when the wire is silent, the disk when no request comes, or
for ever when it polls for a failed command, the booted machine when it halts,
the network thread when its calls are made or the heap is full.

Fairness.  Rtl8139: the processor runs (it is alone, and interrupts are taken
when latched) and the card transmits what it owns; frames need never come.  Ahci:
the driver polls; the HBA's engines follow their bits and it executes commands;
drives need not fail, the BIOS need not let go, the block layer need not call.
Hashmap: a put that has been called goes on; nobody need call.  Net: the thread
runs; no packet need come and nobody need call.  The other modules claim no
liveness.

### Where the code differs from what it says

Five differences have a run (`findings` in PROJECT.json).  Others met on the way,
kept in the models as the code has them:

Memory and library
- pmm.c:72 rounds the bitmap down to bytes first: with a frame count 1..7 past a
  multiple of 32768 init_bitmap clears bits past the end of the bitmap.
  pmm_alloc never looks at those frames, so up to seven are lost: `OnlyTopLost` says
  no more than that, and `Allocates` that the others are all served.
- mmap.c:70 cannot fail: a failed vmm_alloc is the higher-half offset, not NULL.
- heap.c: krealloc copies to the NULL of a failed kmalloc, kcalloc clears it.
- hashmap.h:126-127 says that hashmap_iterate stops when the callback returns
  non-zero; the code (line 320) stops when it returns 0.  A rehash that fails forgets what it had moved and leaks the tables.

Network
- rtl8139.c:451 accepts frames before 484 wipes REG_ISR and 505 unmasks the
  entry: the edge of such a frame is lost, and the card stays silent.
  `Early = TRUE` lets this happen (`lost`); with `Early = FALSE` it cannot.
- rtl8139.c:362: with every descriptor busy nothing is sent and the rotation
  restarts at 0, out of step with the card (`crowded`).
- rtl8139.c:193: id_packet answers ARP replies like requests, and arp.c:77 takes
  the sender of any packet for the answer; op is read for the log only.
- arp.c: an answer that comes in the last round of the wait is given up and stays
  pending; the next call takes it for its own (`misled`).  rtl8139_read_packet returns
  the buffer the handler writes to.
- Leaks: the address arp_resolve returns, the packet ipv4_send builds, the
  packet of every arp_respond (`leaked`).  The NULL of kmalloc is never checked.
- The ICMP checksum covers its own uninitialised field and not an odd last
  byte; ipv4_send computes its checksum before it sets the addresses; the UDP
  header has no checksum field; ethernet_send pads by reading past the block.
- rtl8139.c:262: a bad packet is never passed over, and everything behind it waits.

Disk and files
- ahci.c:196 takes the slot count from a field that counts from 0; ahci.c:218 tests
  bit 0 of CAP, which is part of the port count, for handoff: with an odd
  number of ports a controller that supports it is refused.
- ahci.c:525: a count of 0 asks the drive for its largest transfer.
- dev.c:38 and 65 drop the result of the driver; dev.c:22 lets the type past the
  last one through; dev.c:56 closes a NULL file.  ext2_init then trusts its page.
- init_ports passes one buffer as the key of every drive after the first, clears
  it and frees it: those drives are in the map and no path finds them (`boot_keys`).
  DrivesRegistered and NamesRight say that nothing is mistaken for another drive.
- strsplit leaves the last component without a NUL when the path ends there.

Platform
- acpi.c:103: the length of the DSDT is never counted down, so the scan ends at
  the first `_S5_` or not at all; a package length of two bytes is misread; with several
  I/O APICs the last one wins.
- pci.c:117 never sets irq_line; get_bar3 reads its high half from 0xE.
- ioapic.c:33 cuts the register number to eight bits, idt.c the vector; the sum
  0x20 + irq goes to ioapic_set_entry whole, so that from line 224 up it sets a
  bit of the delivery mode, which Platform leaves out with the rest of the entry.
- Two lines may share an entry (irq_line is what the heap held): the later call
  wins, and masking one line silences the other.

## Proofs

Every safety property of the passing runs is also a theorem, for every value of
the constants that the assumptions in the third column allow.

| Module | Theorems | Assumptions |
|---|---|---|
| PmmProofs | TypeCorrect, BitmapIsReserved, ScanIsStable | PageSize > 0, MapOK |
| | PoolIsConserved, GrantsAreDisjoint, OnlyTopFramesLost, ImplementsFrameAllocator | `Requests = {1}` |
| KHeapProofs | TypeCorrect, BlocksAreDisjoint, ListIsIntact, AccountingIsExact, ImplementsBlockAllocator | HeapBase > 0, HeaderSize > 0, the arena holds a header |
| Rtl8139Proofs | TypeCorrect, PacketInHand, DeliversInOrder | ring and wire assumptions of the module: the ring is a multiple of 4, below 64 KiB, and longer than any packet |
| | InterruptsAreKept, HandlerMovesOn, CardServesInTurn | the module's assumptions; `lost` says when an edge went by masked |
| AhciProofs | TypeCorrect, HbaIsOurs, StoppedWhenSetUp, SlotsIdle, WaitsAreServed, DriverMovesOn, HbaMovesOn | Ports are naturals, 1..32 slots |
| | CarriedOut | `Covered`: requests of at least one sector that fit |
| HashmapProofs | TypeCorrect, TablesAreSound, MapIsPromised, PutAdvances, NestingIsBounded | `Hashes` maps keys to naturals; chains of at least one slot |
| FilesProofs | DrivesAreRegistered, NamesAreRight | at most 32 ports, Radix at least 2; a component of a path is not blank, nor what it may read as (`PathsAssumption`, `StemsAssumption`) |
| BootProofs | TypeCorrect, GatesAreRight, LinesAreOpen, DevicesAreRight, EnablingKeepsRest, PowersOffAsDeclared | what firmware and functions look like (`PlatformAssumption`, `ConfigsAssumption`), irq_line a byte |
| NetProofs | ChecksumIsRight, TypeCorrect, CallsMoveOn | `Short`: messages that fit an IP packet |
| | LedgerBalances, PacketsAddressedRight | the module's assumptions on its constants |

*Pmm.*  The invariant `IInv` says that the map is the carved one and the bitmap its
cut (`BootInv`) and that everything free or held lies above the bitmap's memory
(`AboveBitmap`); the lemmas on `Carve` show that shrinking the host changes neither the
highest chunk's end nor the set of entries both loops accept, which is what makes
the size recomputed during a scan stable.  `SInv` adds conservation and
disjointness, which need each other: a freed run returns to the pool without
touching another only because runs are disjoint and together with the free frames
make up the pool.  `RInv` adds that held frames have their bit inside the bitmap.
Nothing is assumed of the map's top: `RoundingLosesSeven` shows that the division by
eight before the alignment costs at most seven frames, and the refinement maps the
abstract pool to the frames below `ScanBits`, so that a refusal means no free frame
among those that have a bit.

*KHeap.*  `ListThreadsLive` is not inductive: unlinking h writes through
`prev[h]`, a word written by the kmalloc before h or by an earlier kfree.
`IInv` adds `PrevThreads`, that the `prev` of every header but the first is the
live block just before it, also at free_ptr where no header has been written yet.
For `Accounting` the sum over the live blocks is opened: it is a function defined
by recursion on the subsets of `live`, and the lemmas show from a smallest
counterexample that there is such a function, that it does not depend on which
element it takes first (`TotalAdds`), and that it changes by one block's size when
one comes or goes (`SumAdds`).

*Rtl8139.*  `Tokens`: whenever a receive status bit is up or in the handler's hands,
a packet stands behind it that nobody has taken, because the bit is raised after
the packet is stored and one packet is taken for a bit.  `Quiet`: a status bit
that is up while the handler is on its way out has an edge latched, since the
handler leaves only after it has read REG_ISR empty, and the line rises anew from
there.  `Types` splits the type invariant by who writes what; it needs that both
offsets are aligned, which wrapping keeps as the ring's length is a multiple of 4
(`Wraps`), and that the card stores no more frames than the wire delivered.
`InOrder` carries the refinement: the unread packets have places, counted on past
the end of the ring, that follow one another from rxbuf_off to the card's pointer
and span less than a turn (`Threads`).  What the card computes from CAPR
is then the room left (`RoomLeft`, which undoes the bias of 16), a new packet falls on
no unread one (`OthersStay`), and by `Tokens` recieve_packet looks at the oldest
unread packet, so `Advance` moves on to the next.

*Ahci.*  `SlotInv`: the ports that are not the one in hand have no command issued
or executing, and a command executes only with CR on, so waiting for CR off
(`SetUpPort`, `Restart`) is what makes tables and lists safe; hence find_cmdslot
always finds slot 0, and the wait for slot 0 is the right one in spite of the
precedence of `&`.  `DataInv` adds that what executes during a request is that
request and that the sectors already moved are equal on both sides;
`StepIsDiskStep` then maps each step to a Disk step or a stutter.  `OwnsHba` is
inductive as it stands.

*Hashmap.*  `IInv` is `Shape` (which tables on the stack of nested puts may be without
memory), `AllSound` (each table of the stack is sound by itself) and `Apart` (no key is in two
of them).  `TablesSound` says the same of the stack as a whole; the split lets each step be
argued about the one or two tables it writes.  A put into a table keeps it sound because an entry always
lies on its key's chain: a chain without a match then means a table without the
key (`NoMatchNoKey`), whatever holes removals have left, and filling a free slot of it
stores no key twice (`FilledSound`).  A move takes an entry out of one table and
puts it into the next, which by `Apart` has not got the key.  The refinement
follows from what each table operation does to the entries a table holds
(`Held`): moves, growth and adoption leave their union (`Stored`) as it is, and a
refused growth leaves what the caller's own table still holds.

*Files.*  `Links`: the entries of /dev are the first drive's, with a literal key, and
those of later drives, whose keys all point to the buffer init_ports reuses; this
buffer is blank whenever somebody else runs, which is why no path reaches those
nodes, and entries of one length replace each other (`EntriesApart`).  `Looked` ties `main_drive` and
`drive_count` to the ports below `port`.  `Walked` is again a function by recursion,
here on the components of a path: `WalkedLast` shows that a walk that does not get
lost ends at a node with the last component's name.

*Boot.*  `RoutingInv` says where vectors come from: exceptions below 32, the timer and
what alloc_idt_vector gives from 129 up, drivers at 32 plus their line; an open entry
is that of an unmasked line, and its vector's gate is a driver's.  That the entry of
every unmasked line is open fails when two lines share one, since the later call wins;
irq_line is never set by the code, so nothing excludes that, and `LinesOpen` asks it of
a line that shares its entry with no other the kernel uses, with no assumption on the
byte.  `SoughtInv` follows a search to its end: the order of the three loops is that of
`Address` (`AddressOrder`), pci_find and pci_find_any stop at the first function that
matches (`SearchIs`), and what it matches by (ids and class) no later step writes
(`SoughtSame`).  `SlpRight`
keeps what acpi_init read until power off.  `CfgRight` and `DeviceIn` keep the
configuration space a table of words, of which only command words
change, and in those only bits 0 and 2 (`EnableIs`).

*Net.*  `Sums`: the words added so far sum to `checksum + 65535 * k` for some k,
and to 0 only if all were 0; and what is still to add keeps the sum at or below 65535
times 32767, so bit 31 is never set and the branch that ors the halves instead of
adding them is never taken.  `Types /\ LeaksOnly` is the ledger: `LeaksOnly` alone
does not bound `bytes_allocated` from below, and that kfree never makes it
negative follows only from what the call holds at each step (`Held`).  `Answered`:
as long as no other packet was pending when the request went out, or came since, the
receive buffer holds the answer whenever the flag is up, so each half of the
address is that of the host asked.

*Why things end.*  The liveness properties `IsrReturns`, `SentLeaves`, `Progress`,
`PutEnds` and `CallsReturn` are only model-checked: fairness and ENABLED are outside what the
prover handles.  What they rest on besides fairness is a safety property, that no
step undoes what another has done, and this is proved for all constants:

- `PutAdvances`: a step of a put enlarges the newest table, ends a nested rehash or
  moves one entry on.  `NestingIsBounded` is the invariant beside it: along the stack
  table sizes at least double (`Doubling`), up to the bound MaxTable, which bounds both
  the growth and the depth of the recursion.
- `HandlerMovesOn`: unless a frame arrives, a step of the handler, or of the card
  while it runs, leaves fewer packets to identify, fewer in flight, fewer bits in
  REG_ISR, or the handler further on, in this lexicographic order (`LessToDo`).  The
  replies it sends are what could make it go round for ever: each is paid for by a
  packet identified, which is why one that waits counts half a packet in `Owed`.  A
  flood of frames can keep the handler busy as long as it lasts; the model bounds
  it (MaxFrames).
- `CardServesInTurn`: the descriptors in flight are those from the card's next one
  up to the driver's (`InTurn`), so the card is never stuck at a free descriptor
  with a packet behind it.  Once a packet has found its descriptor in use (`crowded`)
  the two may part, and neither this nor `SentLeaves` is claimed any more.
- `WaitsAreServed`, `DriverMovesOn`, `HbaMovesOn`: at each poll of the
  AHCI driver the HBA or the drive has a step of its own to take on that port
  (`NeverInVain`; `WaitsRightly` and `WithinCount` are what makes it inductive), a
  drive that failed the command excepted; such steps use up what there is to do on the
  port and leave the other ports alone (`HbaSettles`); and no step of the driver goes back.
- `CallsMoveOn`: a step of a network call reaches a later stage or uses up a round
  of the loop it is in, and an interrupt leaves what the loops count by as it is.

These measures are shown to fall, not that a falling measure must end: that is
induction.  The induction theorems of the library take an operator as a parameter, which the
backends cannot instantiate; where a definition is recursive (sums over sets, walks
along a path) the proofs therefore start from a least counterexample
(`LeastOf`, from the well-foundedness of the naturals).  No module declares a
RECURSIVE operator.

## Plan

Done: memory (Pmm, KHeap), network card (Rtl8139), disk controller (Ahci), hash
map (Hashmap), boot sequence with platform, PCI and files (Boot), network stack
(Net), each with the proofs of its safety properties and refinements and of what
its liveness rests on.  Left for a next round:

1. *Net*: the ledger and the addressing as a refinement of an abstract sender, so that
   what a caller may rely on is one formula.
2. *Paging*, if the boot loader's tables can be fixed by an assumption: see below.

### Not modelled

- *Paging* (`mm/vmm.c`) and `k_mmap` (`mm/mmap.c`).  get_next_level follows a present
  entry with its flag bits still in it and without the higher-half offset, and
  takes a new table as the memory was.  What a walk reads and writes is therefore
  decided by where the boot loader put its tables and what old frames
  hold, not by anything in this source; a model would have to choose, and every
  property would be about the choice.  k_mmap has one caller, heap_init, and KHeap
  starts from the region it returns.
- *Timers* (`drivers/timer/pit.c`, the one-shot timer and calibration of `lapic.c`).
  init_pit and the calibration are commented out of init.c and nothing calls
  pit_sleep, so no tick ever comes and there is no behaviour to check.  Read on the
  page: pit_get_count shifts an 8-bit value and loses the high byte, pit_sleep
  waits on a counter that is not volatile, and the calibration divides by a
  difference that may be 0.
- Interrupts in the middle of kmalloc, kfree or rtl8139_send_packet.  In this
  kernel the boot thread only halts once interrupts are enabled, so none comes;
  Net, whose thread goes on, takes these calls for one step each.
- The register set-up of rtl8139_init, the fields of the superblock, vectors
  (`lib/vector.h`, used by nothing), hex2str and strappend (printk only), logging, the
  assembly stubs and the boot loader's header: no state that a property could be
  about.  PROJECT.json has the status of every part.
