------------------------------ MODULE Platform ------------------------------
(***************************************************************************)
(* The platform code: what acpi/acpi.c reads out of the firmware's tables, *)
(* and the routing of interrupts through arch/x64/ioapic.c, lapic.c, idt.c *)
(* and intr/irq.c.  A device line becomes a global interrupt (GSI) by the  *)
(* MADT's overrides, a GSI a vector by the I/O APIC's redirection entry,   *)
(* and a vector a handler by the interrupt descriptor table.               *)
(***************************************************************************)
EXTENDS Integers, Sequences, FiniteSets

CONSTANTS
  Firmwares,  \* what the firmware may report, see Firmware below
  Entries,    \* redirection entries of the I/O APIC
  Nothing

(* A firmware: the tables of the RSDT [sig, ok], ok when their bytes sum   *)
(* to 0; the MADT's entries; the bytes from the DSDT's body on, the name   *)
(* _S5_ counted as one item, 256; and if it has a second PM1 control block.*)
NameS5 == 256
NameOp == 8
RootChar == 92
PackageOp == 18
BytePrefix == 10

MadtEntries ==
  [type : {"lapic"}] \cup [type : {"ioapic"}, addr : Nat]
    \cup [type : {"override"}, source : 0 .. 255, interrupt : Nat]

(* An integer constant of AML: ZeroOp, OneOp or a prefixed byte.           *)
Encodes(dsdt, p, v) ==
  \/ dsdt[p] = v /\ v \in {0, 1}
  \/ dsdt[p] = BytePrefix /\ dsdt[p + 1] = v

Width(dsdt, p) == IF dsdt[p] = BytePrefix THEN 2 ELSE 1

(* f.s5 is in the package named by the first "_S5_" of the table.          *)
DeclaresS5(f) ==
  \E p \in DOMAIN f.dsdt :
    /\ f.dsdt[p] = NameS5 /\ \A q \in 1 .. p - 1 : f.dsdt[q] # NameS5
    /\ \/ f.dsdt[p - 1] = NameOp
       \/ f.dsdt[p - 2] = NameOp /\ f.dsdt[p - 1] = RootChar
    /\ f.dsdt[p + 1] = PackageOp
    /\ Encodes(f.dsdt, p + 4, f.s5[1])
    /\ Encodes(f.dsdt, p + 4 + Width(f.dsdt, p + 4), f.s5[2])

(* A package named _S5_ has its elements in the table, and the firmware is *)
(* plain when they are where the parser looks for them.                    *)
ASSUME PlatformAssumption ==
  /\ Entries \in 1 .. 120
  /\ \A f \in Firmwares :
       /\ f.tables \in Seq([sig : STRING, ok : BOOLEAN]) /\ f.ok \in BOOLEAN
       /\ f.madt \in Seq(MadtEntries)
       /\ f.dsdt \in Seq(0 .. NameS5) /\ f.pm1b \in BOOLEAN
       /\ \A p \in DOMAIN f.dsdt : f.dsdt[p] = NameS5 =>
            /\ p < Len(f.dsdt)
            /\ f.dsdt[p + 1] = PackageOp =>
                 /\ p + 7 <= Len(f.dsdt)
                 /\ \A q \in p + 4 .. p + 7 : f.dsdt[q] # NameS5
       /\ f.plain \in BOOLEAN
       /\ f.plain => DeclaresS5(f)

VARIABLES
  fw,
  fadt, madt,      \* found: an index of fw.tables, or 0
  slp,             \* [en, a, b]: SLP_EN, SLP_TYPa, SLP_TYPb before their shifts
  ioapic_base,
  idt,             \* the vectors with a gate, and their handlers
  redir,           \* GSI -> the vector of its entry, or Nothing when masked
  next_vec,        \* alloc_idt_vector's static
  timer_vector,
  lines,           \* device lines that have been unmasked, by whatever call
  sti,             \* interrupts are enabled
  pm1              \* what acpi_power_off wrote to the PM1 control blocks

acpi == <<fadt, madt, slp, ioapic_base>>
routing == <<idt, redir, next_vec, timer_vector, lines, sti>>
platformVars == <<fw, acpi, routing, pm1>>

PlatformInit ==
  /\ fw \in Firmwares
  /\ fadt = 0 /\ madt = 0
  /\ slp = [en |-> 0, a |-> 0, b |-> 0]
  /\ ioapic_base = Nothing
  /\ idt = [v \in {} |-> Nothing]
  /\ redir = [g \in 0 .. Entries - 1 |-> Nothing]
  /\ next_vec = 129 /\ timer_vector = 0
  /\ lines = {} /\ sti = FALSE
  /\ pm1 = <<>>

-----------------------------------------------------------------------------
(* locate_fadt and locate_madt: the first table with the signature.        *)
Locate(sig) ==
  LET at == {i \in DOMAIN fw.tables : fw.tables[i].sig = sig}
  IN  IF at = {} THEN 0 ELSE CHOOSE i \in at : \A j \in at : i <= j

(* Mutant of Element: a byte prefix is taken for the value.                *)
ElementRaw(p) == [value |-> fw.dsdt[p], next |-> p + 1]

(* An element of the package, its byte prefix skipped.                     *)
Element(p) ==
  LET q == IF fw.dsdt[p] = BytePrefix THEN p + 1 ELSE p
  IN  [value |-> fw.dsdt[q], next |-> q + 1]

(* The scan of parse_dsdt_s5 stops at the first "_S5_" only: dsdt_length   *)
(* is not decremented, so it does not stop at the end of the DSDT.         *)
S5At ==
  LET at == {p \in DOMAIN fw.dsdt : fw.dsdt[p] = NameS5}
  IN  IF at = {} THEN 0 ELSE CHOOSE p \in at : \A q \in at : p <= q

IsPackage(p) ==
  /\ \/ fw.dsdt[p - 1] = NameOp
     \/ fw.dsdt[p - 2] = NameOp /\ fw.dsdt[p - 1] = RootChar
  /\ fw.dsdt[p + 1] = PackageOp

(* The package length counts as one byte: (length & 0xC0) >> 16 is 0.      *)
ParseDsdtS5 ==
  IF IsPackage(S5At)
    THEN LET a == Element(S5At + 4)
             b == Element(a.next)
         IN  slp' = [en |-> 1, a |-> a.value, b |-> b.value]
    ELSE UNCHANGED slp

LastIoApic ==
  LET at == {i \in DOMAIN fw.madt : fw.madt[i].type = "ioapic"}
  IN  IF at = {} THEN Nothing
      ELSE fw.madt[CHOOSE i \in at : \A j \in at : j <= i].addr

(* acpi_init's assertions: the tables are there and sum to 0.              *)
AcpiAsserts ==
  /\ fw.ok
  /\ Locate("FACP") # 0 /\ fw.tables[Locate("FACP")].ok
  /\ Locate("APIC") # 0 /\ fw.tables[Locate("APIC")].ok

AcpiInit ==
  /\ AcpiAsserts /\ S5At # 0
  /\ fadt' = Locate("FACP") /\ madt' = Locate("APIC")
  /\ ParseDsdtS5
  /\ ioapic_base' = LastIoApic
  /\ UNCHANGED <<fw, routing, pm1>>

(* An assertion halts the machine; a DSDT without _S5_ is scanned until    *)
(* memory ends.                                                            *)
AcpiInitStops == ~AcpiAsserts \/ S5At = 0

(* acpi_power_off: SLP_EN and the type of each block.                      *)
AcpiPowerOff ==
  /\ pm1' = <<[en |-> slp.en, typ |-> slp.a]>>
            \o (IF fw.pm1b THEN <<[en |-> slp.en, typ |-> slp.b]>> ELSE <<>>)
  /\ UNCHANGED <<fw, acpi, routing>>

-----------------------------------------------------------------------------
(* The first override of the line, or the line itself.                     *)
Gsi(madt_entries, irq) ==
  LET at == {i \in DOMAIN madt_entries : /\ madt_entries[i].type = "override"
                                         /\ madt_entries[i].source = irq}
  IN  IF at = {} THEN irq
      ELSE madt_entries[CHOOSE i \in at : \A j \in at : i <= j].interrupt

AcpiRemapIrq(irq) == Gsi(fw.madt, irq)

(* Mutant of SetDesc: the vector keeps more than eight bits.               *)
SetDescWide(vector, handler) ==
  idt' = [v \in DOMAIN idt \cup {vector} |-> IF v = vector THEN handler ELSE idt[v]]

(* set_desc: the vector is a uint8_t.                                      *)
SetDesc(vector, handler) ==
  idt' = [v \in DOMAIN idt \cup {vector % 256} |->
            IF v = vector % 256 THEN handler ELSE idt[v]]

(* ioapic_set_entry: the register number is a uint8_t, and those before    *)
(* 0x10 or past the last entry are not redirection entries.                *)
Register(index) == (16 + (index % 256) * 2) % 256

EntryAt(index) == (Register(index) - 16) \div 2

SetEntry(index, vector) ==
  redir' = IF Register(index) >= 16 /\ EntryAt(index) < Entries
             THEN [redir EXCEPT ![EntryAt(index)] = vector] ELSE redir

ExceptionVectors == {0, 1, 3, 4, 5, 6, 8, 10, 11, 12, 13, 14}

InitExceptions ==
  /\ idt' = [v \in ExceptionVectors |-> "exception"]
  /\ UNCHANGED <<fw, acpi, redir, next_vec, timer_vector, lines, sti, pm1>>

(* lapic_init: the timer's vector comes from alloc_idt_vector.             *)
LapicInit ==
  /\ timer_vector' = IF next_vec < 255 THEN next_vec ELSE -1
  /\ next_vec' = IF next_vec < 255 THEN next_vec + 1 ELSE next_vec
  /\ SetDesc(timer_vector' + 256, "timer")
  /\ UNCHANGED <<fw, acpi, redir, lines, sti, pm1>>

(* ioapic_init masks every entry.                                          *)
IoApicInit ==
  /\ redir' = [g \in DOMAIN redir |-> Nothing]
  /\ UNCHANGED <<fw, acpi, idt, next_vec, timer_vector, lines, sti, pm1>>

(* Mutant of RegisterIrq: the gate is that of the line, not of its vector. *)
RegisterIrqLow(irq, handler) ==
  /\ SetDesc(irq, handler)
  /\ SetEntry(AcpiRemapIrq(irq), (32 + irq) % 256)
  /\ lines' = lines \cup {irq}
  /\ UNCHANGED <<fw, acpi, next_vec, timer_vector, sti, pm1>>

(* Past line 223 the vector has a ninth bit, which lands in the delivery   *)
(* mode of the entry: with one processor the interrupt goes where it would *)
(* have gone, and the entry keeps the low eight bits here.                 *)
RegisterIrq(irq, handler) ==
  /\ SetDesc(32 + irq, handler)
  /\ SetEntry(AcpiRemapIrq(irq), (32 + irq) % 256)
  /\ lines' = lines \cup {irq}
  /\ UNCHANGED <<fw, acpi, next_vec, timer_vector, sti, pm1>>

(* Mutant of MaskIrq: the entry of the line's own number is masked.        *)
MaskIrqUnmapped(irq) ==
  /\ irq \in lines
  /\ SetEntry(irq, Nothing)
  /\ lines' = lines \ {irq}
  /\ UNCHANGED <<fw, acpi, idt, next_vec, timer_vector, sti, pm1>>

MaskIrq(irq) ==
  /\ irq \in lines
  /\ SetEntry(AcpiRemapIrq(irq), Nothing)
  /\ lines' = lines \ {irq}
  /\ UNCHANGED <<fw, acpi, idt, next_vec, timer_vector, sti, pm1>>

(* Callers unmask lines they have registered a handler for.                *)
UnmaskIrq(irq) ==
  /\ irq \notin lines /\ (32 + irq) % 256 \in DOMAIN idt
  /\ SetEntry(AcpiRemapIrq(irq), (32 + irq) % 256)
  /\ lines' = lines \cup {irq}
  /\ UNCHANGED <<fw, acpi, idt, next_vec, timer_vector, sti, pm1>>

-----------------------------------------------------------------------------
Unmasked == {g \in DOMAIN redir : redir[g] # Nothing}

(* A line's redirection entry, if its register is one.                     *)
EntryOf(l) == EntryAt(AcpiRemapIrq(l))

HasEntry(l) == Register(AcpiRemapIrq(l)) >= 16 /\ EntryOf(l) < Entries
=============================================================================
