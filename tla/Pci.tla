--------------------------------- MODULE Pci ---------------------------------
(***************************************************************************)
(* PCI configuration space as arch/bus/pci.c sees it: a function answers   *)
(* with dwords, of which a read returns one half and a write sets all.     *)
(* A dword is a pair <<low word, high word>>.  pci_find and pci_find_any   *)
(* scan five buses and fill in a pci_device_t on the heap.                 *)
(***************************************************************************)
EXTENDS Integers, Sequences, FiniteSets

CONSTANTS
  Buses         \* buses the scan visits, 5 in the code

NoDev == [found |-> FALSE]

(* Functions that do not exist read as all ones.                           *)
Ones == <<65535, 65535>>

Words == 0 .. 65535

(* Where a function may be: bus, slot, function.                           *)
Places == (0 .. 255) \X (0 .. 31) \X (0 .. 7)

VARIABLE cfg    \* the functions there are: their places -> dwords 0 .. 15

(* pci_config_readw: offset & 2 picks the half.                            *)
ReadW(f, offset) ==
  LET dword == IF f \in DOMAIN cfg THEN cfg[f][offset \div 4] ELSE Ones
  IN  dword[1 + (offset % 4) \div 2]

Vendor(f) == ReadW(f, 0)
DeviceId(f) == ReadW(f, 2)
Class(f) == ReadW(f, 10) \div 256
Subclass(f) == ReadW(f, 10) % 256
ProgIf(f) == ReadW(f, 8) \div 256

(* get_bar0 .. get_bar5 take both halves of the register, but get_bar3 its *)
(* high half from 0xE.                                                     *)
BarOffset(i) == 16 + 4 * i

Bar(f, i) == <<ReadW(f, BarOffset(i)), ReadW(f, IF i = 3 THEN 14 ELSE BarOffset(i) + 2)>>

(* pci_init_dev fills in everything but irq_line.                          *)
Device(f) == [found |-> TRUE, at |-> f, bars |-> [i \in 0 .. 5 |-> Bar(f, i)]]

(* The scan order: bus, then slot, then function.                          *)
Before(f, g) ==
  \/ f[1] < g[1]
  \/ f[1] = g[1] /\ f[2] < g[2]
  \/ f[1] = g[1] /\ f[2] = g[2] /\ f[3] < g[3]

FirstOf(fs) ==
  IF fs = {} THEN NoDev
  ELSE Device(CHOOSE f \in fs : \A g \in fs \ {f} : Before(f, g))

Scanned == {f \in DOMAIN cfg : f[1] < Buses}

(* Mutant of PciFind: any device of the vendor will do.                    *)
PciFindVendor(vendor, device) == FirstOf({f \in Scanned : Vendor(f) = vendor})

PciFind(vendor, device) ==
  FirstOf({f \in Scanned : Vendor(f) = vendor /\ DeviceId(f) = device})

(* interface is an int8_t: -1 is for any, and no value of it equals a      *)
(* programming interface of 0x80 or more.                                  *)
PciFindAny(class, subclass, interface) ==
  FirstOf({f \in Scanned : /\ Class(f) = class /\ Subclass(f) = subclass
                           /\ interface = -1 \/ interface = ProgIf(f)})

(* Mutant of WriteW: the word goes to the other half as well.              *)
WriteWBoth(f, offset, word) == [cfg EXCEPT ![f][offset \div 4] = <<word, word>>]

(* pci_config_writew writes a dword, whose high half is 0.  Status, above  *)
(* the command word, is cleared by ones only: zeros leave it alone.        *)
WriteW(f, offset, word) ==
  [cfg EXCEPT ![f][offset \div 4] = <<word, IF offset = 4 THEN @[2] ELSE 0>>]

Bit(word, b) == (word \div 2 ^ b) % 2

OrBit(word, b) == word + (1 - Bit(word, b)) * 2 ^ b

(* pci_enable_bus_mastering sets the bits 0 and 2 of the command word.     *)
EnableBusMastering(f) == cfg' = WriteW(f, 4, OrBit(OrBit(ReadW(f, 4), 0), 2))
=============================================================================
