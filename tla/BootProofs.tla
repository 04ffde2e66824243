----------------------------- MODULE BootProofs -----------------------------
(***************************************************************************)
(* Proofs about Boot: the interrupt routing, the ACPI sleep type, the PCI  *)
(* functions the drivers use and the type invariant, for any firmware,     *)
(* configuration and heap contents.                                        *)
(***************************************************************************)
EXTENDS FilesProofs

BeforeNic ==
  {"init_exceptions", "acpi_init", "vfs_init", "devfs_init", "ahci_init", "take_ownership",
   "init_ports", "ext2_init", "lapic_init", "ioapic_init", "rtl8139_init"}

-----------------------------------------------------------------------------
(* Routing.  A gate is served when a driver has registered for its vector. *)
Served == {v \in DOMAIN idt : idt[v] \in {"pit", "rtl8139"}}

VectorsRight ==
  /\ next_vec \in 129 .. 255 /\ timer_vector \in {-1, 0} \cup 129 .. 254

IdtRight ==
  /\ DOMAIN idt \subseteq 0 .. 255
  /\ \A v \in DOMAIN idt :
       /\ idt[v] \in {"exception", "timer", "pit", "rtl8139"}
       /\ idt[v] = "exception" => v \in ExceptionVectors
       /\ idt[v] = "timer" => v >= 129

(* irq_line is the byte the heap left, once the driver has its device.     *)
LineRight ==
  /\ irq_line \in HeapBytes \cup {0}
  /\ pc \in BeforeNic => irq_line = 0
  /\ pc \in {"sti", "idle"} => irq_line = 0 \/ (32 + irq_line) % 256 \in Served
  /\ lines \subseteq {0, irq_line}

(* An open entry is that of a line which is unmasked, and its gate serves. *)
RedirRight ==
  /\ redir = [g \in 0 .. Entries - 1 |-> redir[g]]
  /\ \A g \in 0 .. Entries - 1 : redir[g] \in 0 .. 255 \cup {Nothing}
  /\ pc \in BeforeNic \cup {"register_irq"} => lines = {} /\ Unmasked = {}
  /\ \A g \in Unmasked :
       /\ redir[g] \in Served
       /\ \E l \in lines : redir[g] = (32 + l) % 256 /\ EntryAt(AcpiRemapIrq(l)) = g

ExceptionsRight ==
  pc # "init_exceptions" /\ irq_line < 224 =>
    \A v \in ExceptionVectors : v \in DOMAIN idt /\ idt[v] = "exception"

RoutingInv ==
  fw \in Firmwares /\ VectorsRight /\ IdtRight /\ LineRight /\ RedirRight /\ ExceptionsRight

-----------------------------------------------------------------------------
LEMMA Constants ==
  /\ HeapBytes \subseteq 0 .. 255 /\ Entries \in 1 .. 120
  /\ \A f \in Firmwares : f.madt \in Seq(MadtEntries)
<1>1. HeapBytes \subseteq 0 .. 255
  BY HeapAssumption
<1>2. Entries \in 1 .. 120
  BY PlatformAssumption
<1>3. \A f \in Firmwares : f.madt \in Seq(MadtEntries)
  BY PlatformAssumption
<1>4. QED
  BY <1>1, <1>2, <1>3

LEMMA LineByte ==
  ASSUME NEW l \in HeapBytes \cup {0}
  PROVE  l \in 0 .. 255 /\ (32 + l) % 256 \in 0 .. 255
<1>1. l \in 0 .. 255
  BY Constants, SMTT(30)
<1>2. QED
  BY <1>1

LEMMA GsiType ==
  ASSUME NEW f \in Firmwares, NEW l \in Nat
  PROVE  Gsi(f.madt, l) \in Nat
<1> DEFINE at == {i \in DOMAIN f.madt : f.madt[i].type = "override" /\ f.madt[i].source = l}
           first == CHOOSE i \in at : \A j \in at : i <= j
<1>1. f.madt \in Seq(MadtEntries)
  BY Constants
<1>2. Gsi(f.madt, l) = IF at = {} THEN l ELSE f.madt[first].interrupt
  BY DEF Gsi
<1>3. CASE at # {}
  <2>1. at \in SUBSET Nat
    BY <1>1
  <2>2. first \in at
    BY <1>3, <2>1, LeastOf
  <2>3. first \in DOMAIN f.madt /\ f.madt[first].type = "override"
    BY <2>2
  <2> HIDE DEF first
  <2>4a. f.madt[first] \in MadtEntries
    BY <1>1, <2>3
  <2>4. f.madt[first].interrupt \in Nat
    BY <2>3, <2>4a DEF MadtEntries
  <2>5. QED
    BY <1>2, <1>3, <2>4
<1>4. QED
  BY <1>2, <1>3

(* The register number is even, and a redirection entry from 16 on.        *)
LEMMA EntryFacts ==
  ASSUME NEW i \in Nat
  PROVE  /\ EntryAt(i) \in Int
         /\ Register(i) >= 16 <=> EntryAt(i) >= 0
         /\ i < 120 => EntryAt(i) = i
<1>1. Register(i) = (16 + (i % 256) * 2) % 256 /\ i % 256 \in 0 .. 255
  BY DEF Register
<1>2. /\ i % 256 < 120 => Register(i) = 16 + (i % 256) * 2
      /\ i % 256 >= 120 /\ i % 256 < 248 => Register(i) = (i % 256) * 2 - 240
      /\ i % 256 >= 248 => Register(i) = (i % 256) * 2 - 496
  BY <1>1
<1>3. QED
  BY <1>1, <1>2 DEF EntryAt

LEMMA SetEntryIs ==
  ASSUME RedirRight, NEW index \in Nat, NEW vector, SetEntry(index, vector)
  PROVE  /\ redir' = [g \in 0 .. Entries - 1 |-> redir'[g]]
         /\ \A g \in 0 .. Entries - 1 :
              redir'[g] = IF g = EntryAt(index) THEN vector ELSE redir[g]
<1>1. EntryAt(index) \in Int /\ (Register(index) >= 16 <=> EntryAt(index) >= 0)
  BY EntryFacts
<1>2. redir = [g \in 0 .. Entries - 1 |-> redir[g]] /\ Entries \in Nat
  <2>1. redir = [g \in 0 .. Entries - 1 |-> redir[g]]
    BY Zenon DEF RedirRight
  <2>2. Entries \in Nat
    BY Constants
  <2>3. QED
    BY <2>1, <2>2
<1>3. redir' = IF EntryAt(index) \in 0 .. Entries - 1
                 THEN [redir EXCEPT ![EntryAt(index)] = vector] ELSE redir
  BY <1>1, <1>2 DEF SetEntry
<1>4. QED
  BY <1>2, <1>3

LEMMA SetDescIs ==
  ASSUME NEW vector \in Nat, NEW handler, SetDesc(vector, handler)
  PROVE  /\ DOMAIN idt' = DOMAIN idt \cup {vector % 256} /\ vector % 256 \in 0 .. 255
         /\ idt'[vector % 256] = handler
         /\ \A v \in DOMAIN idt \ {vector % 256} : idt'[v] = idt[v]
BY DEF SetDesc

-----------------------------------------------------------------------------
LEMMA RoutingInit == Init => RoutingInv
<1> SUFFICES ASSUME Init PROVE RoutingInv
  OBVIOUS
<1>1. /\ fw \in Firmwares /\ idt = [v \in {} |-> Nothing] /\ next_vec = 129 /\ timer_vector = 0
      /\ redir = [g \in 0 .. Entries - 1 |-> Nothing] /\ lines = {}
      /\ pc = "init_exceptions" /\ irq_line = 0
  BY DEF Init, PlatformInit
<1>2. DOMAIN idt = {} /\ Unmasked = {} /\ \A g \in 0 .. Entries - 1 : redir[g] = Nothing
  BY <1>1 DEF Unmasked
<1>3. VectorsRight /\ IdtRight /\ LineRight /\ ExceptionsRight
  BY <1>1, <1>2 DEF VectorsRight, IdtRight, LineRight, ExceptionsRight
<1>4. RedirRight
  BY <1>1, <1>2 DEF RedirRight
<1>5. QED
  BY <1>1, <1>3, <1>4 DEF RoutingInv

(* A call that leaves the routing alone and goes on as the boot sequence   *)
(* does.                                                                   *)
LEMMA RoutingQuiet ==
  ASSUME RoutingInv, UNCHANGED <<fw, idt, redir, next_vec, timer_vector, lines, irq_line>>,
         \/ pc' = pc
         \/ pc' = "halted" /\ pc # "init_exceptions"
         \/ pc' \in BeforeNic \ {"init_exceptions"} /\ pc \in BeforeNic \ {"init_exceptions"}
         \/ pc' = "idle" /\ pc \in {"rtl8139_init", "sti"}
  PROVE  RoutingInv'
<1>1. fw' = fw /\ idt' = idt /\ redir' = redir /\ lines' = lines /\ irq_line' = irq_line
  OBVIOUS
<1>2. fw' \in Firmwares /\ VectorsRight' /\ IdtRight' /\ ExceptionsRight'
  BY DEF RoutingInv, VectorsRight, IdtRight, ExceptionsRight, BeforeNic
<1>3. Served' = Served /\ Unmasked' = Unmasked /\ \A l : AcpiRemapIrq(l)' = AcpiRemapIrq(l)
  BY <1>1 DEF Served, Unmasked, AcpiRemapIrq
<1>4. LineRight'
  BY <1>1, <1>3 DEF RoutingInv, LineRight, BeforeNic
<1>5. RedirRight'
  <2>1. RedirRight
    BY DEF RoutingInv
  <2>2. /\ redir' = [g \in 0 .. Entries - 1 |-> redir'[g]]
        /\ \A g \in 0 .. Entries - 1 : redir'[g] \in 0 .. 255 \cup {Nothing}
    BY <1>1, <2>1 DEF RedirRight
  <2>3. pc' \in BeforeNic \cup {"register_irq"} => pc \in BeforeNic \cup {"register_irq"}
    BY DEF BeforeNic
  <2>4. pc' \in BeforeNic \cup {"register_irq"} => lines' = {} /\ Unmasked' = {}
    BY <1>1, <1>3, <2>1, <2>3 DEF RedirRight
  <2>5. ASSUME NEW g \in Unmasked'
        PROVE  /\ redir'[g] \in Served'
               /\ \E l \in lines' : /\ redir'[g] = (32 + l) % 256
                                   /\ EntryAt(AcpiRemapIrq(l)') = g
    BY <1>1, <1>3, <2>1, <2>5, ZenonT(30) DEF RedirRight
  <2>6. QED
    BY <2>2, <2>4, <2>5 DEF RedirRight, EntryAt
<1>6. QED
  BY <1>2, <1>4, <1>5 DEF RoutingInv

LEMMA ExceptionsStep == ASSUME RoutingInv, Exceptions PROVE RoutingInv'
<1>1. /\ UNCHANGED <<fw, redir, next_vec, timer_vector, lines, irq_line>>
      /\ idt' = [v \in ExceptionVectors |-> "exception"]
      /\ pc = "init_exceptions" /\ pc' = "acpi_init"
  BY DEF Exceptions, Call, InitExceptions, bootVars
<1>2. VectorsRight' /\ fw' \in Firmwares
  BY <1>1 DEF RoutingInv, VectorsRight
<1>3. IdtRight' /\ ExceptionsRight'
  BY <1>1 DEF RoutingInv, IdtRight, ExceptionsRight, ExceptionVectors
<1>4. LineRight'
  BY <1>1 DEF RoutingInv, LineRight, BeforeNic
<1>5. Unmasked = {} /\ Unmasked' = Unmasked /\ lines = {}
  BY <1>1 DEF RoutingInv, RedirRight, BeforeNic, Unmasked
<1>6. RedirRight'
  BY <1>1, <1>5 DEF RoutingInv, RedirRight
<1>7. QED
  BY <1>2, <1>3, <1>4, <1>6 DEF RoutingInv

LEMMA LapicStep == ASSUME RoutingInv, Lapic PROVE RoutingInv'
<1> DEFINE v == (timer_vector' + 256) % 256
<1>1. /\ UNCHANGED <<fw, redir, lines, irq_line>>
      /\ timer_vector' = IF next_vec < 255 THEN next_vec ELSE -1
      /\ next_vec' = IF next_vec < 255 THEN next_vec + 1 ELSE next_vec
      /\ SetDesc(timer_vector' + 256, "timer")
      /\ pc = "lapic_init" /\ pc' = "ioapic_init"
  BY DEF Lapic, Call, LapicInit, bootVars, acpi
<1>2. next_vec \in 129 .. 255
  BY DEF RoutingInv, VectorsRight
<1>3. VectorsRight'
  BY <1>1, <1>2 DEF VectorsRight
<1>4. timer_vector' + 256 \in Nat /\ v \in 129 .. 255
  <2>1. CASE next_vec < 255
    BY <1>1, <1>2, <2>1
  <2>2. CASE ~(next_vec < 255)
    <3>1. timer_vector' + 256 = 255
      BY <1>1, <2>2
    <3>2. QED
      BY <3>1
  <2>3. QED
    BY <2>1, <2>2
<1>5. /\ DOMAIN idt' = DOMAIN idt \cup {v} /\ idt'[v] = "timer"
      /\ \A u \in DOMAIN idt \ {v} : idt'[u] = idt[u]
  BY <1>1, <1>4 DEF SetDesc
<1> HIDE DEF v
<1>6. IdtRight'
  BY <1>4, <1>5 DEF RoutingInv, IdtRight
<1>7. ExceptionsRight'
  BY <1>1, <1>4, <1>5 DEF RoutingInv, ExceptionsRight, ExceptionVectors
<1>8. LineRight'
  BY <1>1 DEF RoutingInv, LineRight, BeforeNic
<1>9. Unmasked = {} /\ Unmasked' = Unmasked /\ lines = {}
  BY <1>1 DEF RoutingInv, RedirRight, BeforeNic, Unmasked
<1>10. RedirRight'
  BY <1>1, <1>9 DEF RoutingInv, RedirRight
<1>11. QED
  BY <1>1, <1>3, <1>6, <1>7, <1>8, <1>10 DEF RoutingInv

LEMMA IoApicStep == ASSUME RoutingInv, IoApic PROVE RoutingInv'
<1>1. /\ UNCHANGED <<fw, idt, next_vec, timer_vector, lines, irq_line>>
      /\ redir' = [g \in DOMAIN redir |-> Nothing]
      /\ pc = "ioapic_init" /\ pc' = "rtl8139_init"
  BY DEF IoApic, Call, IoApicInit, bootVars
<1>2. fw' \in Firmwares /\ VectorsRight' /\ IdtRight' /\ ExceptionsRight'
  BY <1>1 DEF RoutingInv, VectorsRight, IdtRight, ExceptionsRight
<1>3. LineRight'
  BY <1>1 DEF RoutingInv, LineRight, BeforeNic
<1>4. redir = [g \in 0 .. Entries - 1 |-> redir[g]]
  BY Zenon DEF RoutingInv, RedirRight
<1>5. redir' = [g \in 0 .. Entries - 1 |-> Nothing]
  BY <1>1, <1>4
<1>6. Unmasked' = {} /\ lines' = {}
  BY <1>1, <1>5 DEF Unmasked, RoutingInv, RedirRight, BeforeNic
<1>7. RedirRight'
  BY <1>5, <1>6 DEF RedirRight
<1>8. QED
  BY <1>2, <1>3, <1>7 DEF RoutingInv

LEMMA NicFoundStep == ASSUME RoutingInv, NicFound PROVE RoutingInv'
<1>1. /\ UNCHANGED <<fw, idt, redir, next_vec, timer_vector, lines>>
      /\ irq_line' \in HeapBytes
      /\ pc = "rtl8139_init" /\ pc' = "register_irq"
  BY DEF NicFound, Call, platformVars, routing
<1>2. fw' \in Firmwares /\ VectorsRight' /\ IdtRight'
  BY <1>1 DEF RoutingInv, VectorsRight, IdtRight
<1>3. Unmasked = {} /\ Unmasked' = Unmasked /\ lines = {} /\ irq_line = 0
  BY <1>1 DEF RoutingInv, RedirRight, LineRight, BeforeNic, Unmasked
<1>4. LineRight'
  BY <1>1, <1>3 DEF LineRight, BeforeNic
<1>5. ExceptionsRight'
  BY <1>1, <1>3 DEF RoutingInv, ExceptionsRight
<1>6. RedirRight'
  BY <1>1, <1>3 DEF RoutingInv, RedirRight
<1>7. QED
  BY <1>2, <1>4, <1>5, <1>6 DEF RoutingInv

(* Unmasking a served line, and registering for it, open its entry.        *)
LEMMA EntryOpened ==
  ASSUME RoutingInv, NEW irq \in {0, irq_line}, UNCHANGED <<fw, irq_line>>,
         SetEntry(AcpiRemapIrq(irq), (32 + irq) % 256), lines' = lines \cup {irq},
         Served \subseteq Served', (32 + irq) % 256 \in Served', pc' \in {"sti", "idle"}
  PROVE  RedirRight'
<1>1. /\ irq \in 0 .. 255 /\ (32 + irq) % 256 \in 0 .. 255 /\ RedirRight
      /\ AcpiRemapIrq(irq) \in Nat /\ \A l : AcpiRemapIrq(l)' = AcpiRemapIrq(l)
  <2>1. irq \in HeapBytes \cup {0} /\ fw \in Firmwares /\ RedirRight
    BY DEF RoutingInv, LineRight
  <2>2. irq \in 0 .. 255 /\ (32 + irq) % 256 \in 0 .. 255
    BY <2>1, LineByte
  <2>3. QED
    BY <2>1, <2>2, GsiType DEF AcpiRemapIrq
<1> DEFINE at == EntryAt(AcpiRemapIrq(irq))
<1>2. /\ redir' = [g \in 0 .. Entries - 1 |-> redir'[g]]
      /\ \A g \in 0 .. Entries - 1 : redir'[g] = IF g = at THEN (32 + irq) % 256 ELSE redir[g]
  BY <1>1, SetEntryIs
<1> HIDE DEF at
<1>3. \A g \in 0 .. Entries - 1 : redir'[g] \in 0 .. 255 \cup {Nothing}
  BY <1>1, <1>2, ZenonT(30) DEF RedirRight
<1>4. ASSUME NEW g \in Unmasked'
      PROVE  /\ redir'[g] \in Served'
             /\ \E l \in lines' : redir'[g] = (32 + l) % 256 /\ EntryAt(AcpiRemapIrq(l)') = g
  <2>1. g \in 0 .. Entries - 1 /\ redir'[g] # Nothing
    BY <1>2 DEF Unmasked
  <2>2. CASE g = at
    BY <1>1, <1>2, <2>1, <2>2 DEF at
  <2>3. CASE g # at
    <3>1. redir'[g] = redir[g] /\ DOMAIN redir = 0 .. Entries - 1
      BY <1>1, <1>2, <2>1, <2>3 DEF RedirRight
    <3>2. g \in Unmasked
      BY <2>1, <3>1 DEF Unmasked
    <3>3. /\ redir[g] \in Served
          /\ \E l \in lines : redir[g] = (32 + l) % 256 /\ EntryAt(AcpiRemapIrq(l)) = g
      BY <1>1, <3>2 DEF RedirRight
    <3>4. QED
      BY <1>1, <3>1, <3>3
  <2>4. QED
    BY <2>2, <2>3
<1>5. QED
  BY <1>2, <1>3, <1>4 DEF RedirRight, BeforeNic

LEMMA RegisterStep ==
  ASSUME RoutingInv, NEW irq \in {0, irq_line}, NEW handler \in {"pit", "rtl8139"},
         RegisterIrq(irq, handler), irq_line' = irq_line, pc' \in {"sti", "idle"},
         irq = irq_line \/ pc = "idle", pc # "init_exceptions"
  PROVE  RoutingInv'
<1> DEFINE v == (32 + irq) % 256
<1>1. irq \in HeapBytes \cup {0} /\ irq \in 0 .. 255 /\ v \in 0 .. 255
  BY LineByte DEF RoutingInv, LineRight
<1>2. /\ UNCHANGED <<fw, next_vec, timer_vector>>
      /\ SetDesc(32 + irq, handler) /\ SetEntry(AcpiRemapIrq(irq), v)
      /\ lines' = lines \cup {irq}
  BY DEF RegisterIrq
<1>3. /\ DOMAIN idt' = DOMAIN idt \cup {v} /\ idt'[v] = handler
      /\ \A u \in DOMAIN idt \ {v} : idt'[u] = idt[u]
  BY <1>1, <1>2 DEF SetDesc
<1>4. Served \subseteq Served' /\ v \in Served'
  BY <1>3 DEF Served
<1>5. RedirRight'
  BY <1>2, <1>4, EntryOpened
<1>6. /\ irq_line < 224 => v \notin ExceptionVectors
      /\ irq = irq_line => v = (32 + irq_line) % 256
  BY <1>1 DEF ExceptionVectors
<1> HIDE DEF v
<1>7. fw' \in Firmwares /\ VectorsRight'
  BY <1>2 DEF RoutingInv, VectorsRight
<1>8. IdtRight'
  BY <1>1, <1>3 DEF RoutingInv, IdtRight
<1>9. ExceptionsRight'
  BY <1>3, <1>6 DEF RoutingInv, ExceptionsRight
<1>10. LineRight'
  <2>1. irq_line' = 0 \/ (32 + irq_line') % 256 \in Served'
    BY <1>4, <1>6 DEF RoutingInv, LineRight
  <2>2. QED
    BY <1>2, <2>1 DEF RoutingInv, LineRight, BeforeNic
<1>11. QED
  BY <1>5, <1>7, <1>8, <1>9, <1>10 DEF RoutingInv

LEMMA MaskStep ==
  ASSUME RoutingInv, NEW irq \in lines, MaskIrq(irq), irq_line' = irq_line,
         pc = "idle", pc' = "idle"
  PROVE  RoutingInv'
<1> DEFINE at == EntryAt(AcpiRemapIrq(irq))
<1>1. /\ UNCHANGED <<fw, idt, next_vec, timer_vector>>
      /\ SetEntry(AcpiRemapIrq(irq), Nothing) /\ lines' = lines \ {irq}
  BY DEF MaskIrq
<1>2. /\ AcpiRemapIrq(irq) \in Nat /\ RedirRight
      /\ \A l : AcpiRemapIrq(l)' = AcpiRemapIrq(l)
  <2>1. irq \in 0 .. 255
    BY LineByte DEF RoutingInv, LineRight
  <2>2. QED
    BY <1>1, <2>1, GsiType DEF AcpiRemapIrq, RoutingInv
<1>3. /\ redir' = [g \in 0 .. Entries - 1 |-> redir'[g]]
      /\ \A g \in 0 .. Entries - 1 : redir'[g] = IF g = at THEN Nothing ELSE redir[g]
  BY <1>1, <1>2, SetEntryIs
<1>4. Served' = Served
  BY <1>1 DEF Served
<1>5. fw' \in Firmwares /\ VectorsRight' /\ IdtRight' /\ ExceptionsRight' /\ LineRight'
  BY <1>1, <1>4 DEF RoutingInv, VectorsRight, IdtRight, ExceptionsRight, LineRight, BeforeNic
<1>6. \A g \in 0 .. Entries - 1 : redir'[g] \in 0 .. 255 \cup {Nothing}
  BY <1>2, <1>3 DEF RedirRight
<1>7. ASSUME NEW g \in Unmasked'
      PROVE  /\ redir'[g] \in Served'
             /\ \E l \in lines' : redir'[g] = (32 + l) % 256 /\ EntryAt(AcpiRemapIrq(l)') = g
  <2>1. g \in 0 .. Entries - 1 /\ redir'[g] # Nothing
    BY <1>3 DEF Unmasked
  <2>2. g # at /\ redir'[g] = redir[g] /\ DOMAIN redir = 0 .. Entries - 1
    BY <1>2, <1>3, <2>1 DEF RedirRight
  <2>3. g \in Unmasked
    BY <2>1, <2>2 DEF Unmasked
  <2>4. redir[g] \in Served
    BY <1>2, <2>3 DEF RedirRight
  <2>5. PICK l \in lines : redir[g] = (32 + l) % 256 /\ EntryAt(AcpiRemapIrq(l)) = g
    BY <1>2, <2>3 DEF RedirRight
  <2>6. l \in lines'
    BY <1>1, <2>2, <2>5
  <2>7. QED
    BY <1>2, <1>4, <2>2, <2>4, <2>5, <2>6
<1>8. RedirRight'
  BY <1>3, <1>6, <1>7 DEF RedirRight, BeforeNic
<1>9. QED
  BY <1>5, <1>8 DEF RoutingInv

LEMMA UnmaskStep ==
  ASSUME RoutingInv, NEW irq \in {0, irq_line}, UnmaskIrq(irq), irq_line' = irq_line,
         pc = "idle", pc' = "idle"
  PROVE  RoutingInv'
<1>1. /\ UNCHANGED <<fw, idt, next_vec, timer_vector>>
      /\ SetEntry(AcpiRemapIrq(irq), (32 + irq) % 256) /\ lines' = lines \cup {irq}
      /\ (32 + irq) % 256 \in DOMAIN idt
  BY DEF UnmaskIrq
<1>2. Served' = Served
  BY <1>1 DEF Served
<1>3. (32 + irq) % 256 \in Served
  <2>1. CASE irq = 0
    BY <1>1, <2>1 DEF RoutingInv, IdtRight, Served, ExceptionVectors
  <2>2. CASE irq # 0
    BY <2>2 DEF RoutingInv, LineRight
  <2>3. QED
    BY <2>1, <2>2
<1>4. fw' \in Firmwares /\ VectorsRight' /\ IdtRight' /\ ExceptionsRight' /\ LineRight'
  BY <1>1, <1>2 DEF RoutingInv, VectorsRight, IdtRight, ExceptionsRight, LineRight, BeforeNic
<1>5. RedirRight'
  BY <1>1, <1>2, <1>3, EntryOpened
<1>6. QED
  BY <1>4, <1>5 DEF RoutingInv

(* What an action that leaves the routing alone does to the counter pc.    *)
Calm ==
  /\ UNCHANGED <<fw, idt, redir, next_vec, timer_vector, lines, irq_line>>
  /\ \/ pc' = pc
     \/ pc' = "halted" /\ pc # "init_exceptions"
     \/ pc' \in BeforeNic \ {"init_exceptions"} /\ pc \in BeforeNic \ {"init_exceptions"}
     \/ pc' = "idle" /\ pc \in {"rtl8139_init", "sti"}

LEMMA RoutingMoves ==
  ASSUME [Next]_vars
  PROVE  Calm \/ Exceptions \/ Lapic \/ IoApic \/ NicFound \/ NicIrq \/ IrqCall
<1>1. UNCHANGED vars => Calm
  BY DEF vars, Calm, platformVars, routing, bootVars
<1>2. Acpi => Calm
  BY DEF Acpi, Calm, Call, AcpiInit, routing, bootVars, BeforeNic
<1>3. AcpiStops => Calm
  BY DEF AcpiStops, Calm, Call, platformVars, routing, bootVars
<1>4. Vfs \/ Devfs \/ AhciAbsent => Calm
  BY DEF Vfs, Devfs, AhciAbsent, Calm, Call, platformVars, routing, bootVars, BeforeNic
<1>5. AhciFound => Calm
  BY DEF AhciFound, Calm, Call, platformVars, routing, BeforeNic
<1>6. HbaReady => Calm
  BY DEF HbaReady, Calm, platformVars, routing, bootVars, BeforeNic
<1>7. InitPort => Calm
  BY DEF InitPort, Calm, Call, platformVars, routing, bootVars
<1>8. InitPortsReturns => Calm
  BY DEF InitPortsReturns, Calm, Call, platformVars, routing, bootVars, BeforeNic
<1>9. Ext2 => Calm
  BY DEF Ext2, Calm, platformVars, routing, BeforeNic
<1>10. NicAbsent => Calm
  BY DEF NicAbsent, Calm, Call, platformVars, routing, bootVars
<1>11. Sti => Calm
  BY DEF Sti, Calm, Call, bootVars
<1>12. \A op, type : Block(op, type) => Calm
  BY DEF Block, Calm, platformVars, routing
<1>13. FileCall => Calm
  BY DEF FileCall, Calm, Call, platformVars, routing, bootVars
<1>14. PowerOff => Calm
  BY DEF PowerOff, Calm, Call, AcpiPowerOff, routing, bootVars
<1>15. QED
  BY <1>1, <1>2, <1>3, <1>4, <1>5, <1>6, <1>7, <1>8, <1>9, <1>10, <1>11, <1>12, <1>13, <1>14
  DEF Next, BootStep

(* What register_irq, mask_irq and unmask_irq are called with.             *)
LEMMA LineCalls ==
  ASSUME NicIrq \/ IrqCall
  PROVE  /\ irq_line' = irq_line
         /\ \/ /\ pc = "register_irq" /\ pc' = "sti" /\ RegisterIrq(irq_line, "rtl8139")
            \/ /\ pc = "idle" /\ pc' = "idle"
               /\ \/ RegisterIrq(0, "pit")
                  \/ \E irq \in lines : MaskIrq(irq)
                  \/ \E irq \in {0, irq_line} : UnmaskIrq(irq)
BY DEF NicIrq, IrqCall, Call, bootVars

LEMMA NextKeepsRouting == ASSUME RoutingInv, [Next]_vars PROVE RoutingInv'
<1>1. CASE Calm
  BY <1>1, RoutingQuiet DEF Calm
<1>2. CASE Exceptions
  BY <1>2, ExceptionsStep
<1>3. CASE Lapic \/ IoApic \/ NicFound
  BY <1>3, LapicStep, IoApicStep, NicFoundStep
<1>4. CASE NicIrq \/ IrqCall
  <2>1. CASE pc = "register_irq" /\ pc' = "sti" /\ RegisterIrq(irq_line, "rtl8139")
    BY <1>4, <2>1, LineCalls, RegisterStep
  <2>2. CASE pc = "idle" /\ pc' = "idle" /\ RegisterIrq(0, "pit")
    BY <1>4, <2>2, LineCalls, RegisterStep
  <2>3. CASE pc = "idle" /\ pc' = "idle" /\ \E irq \in lines : MaskIrq(irq)
    BY <1>4, <2>3, LineCalls, MaskStep
  <2>4. CASE pc = "idle" /\ pc' = "idle" /\ \E irq \in {0, irq_line} : UnmaskIrq(irq)
    BY <1>4, <2>4, LineCalls, UnmaskStep
  <2>5. QED
    BY <1>4, <2>1, <2>2, <2>3, <2>4, LineCalls
<1>5. QED
  BY <1>1, <1>2, <1>3, <1>4, RoutingMoves

LEMMA RoutingInvariant == Spec => []RoutingInv
BY RoutingInit, NextKeepsRouting, PTL DEF Spec

(* An interrupt that the I/O APIC lets through finds a driver's handler in *)
(* its gate, whatever byte irq_line held and however the overrides run;    *)
(* and below 224 that byte costs no exception its gate.                    *)
THEOREM GatesAreRight == Spec => []GatesRight
<1>1. ASSUME RoutingInv PROVE GatesRight
  <2>1. \A g \in Unmasked : redir[g] \in DOMAIN idt /\ idt[redir[g]] \in {"pit", "rtl8139"}
    BY <1>1 DEF RoutingInv, RedirRight, Served
  <2>2. QED
    BY <1>1, <2>1 DEF GatesRight, RoutingInv, ExceptionsRight
<1>2. QED
  BY <1>1, RoutingInvariant, PTL

-----------------------------------------------------------------------------
(* An unmasked line that shares its entry with no other has it open.       *)
Alone(l) == HasEntry(l) /\ \A k \in {0, irq_line} \ {l} : EntryOf(k) # EntryOf(l)

EntriesOpen == \A l \in lines : Alone(l) => redir[EntryOf(l)] = (32 + l) % 256

LEMMA NextKeepsOpen ==
  ASSUME RoutingInv, EntriesOpen, [Next]_vars PROVE EntriesOpen'
<1>1. CASE UNCHANGED <<fw, redir, lines, irq_line>>
  <2>1. \A l : EntryOf(l)' = EntryOf(l) /\ HasEntry(l)' = HasEntry(l)
    BY <1>1 DEF AcpiRemapIrq, EntryOf, HasEntry
  <2>2. QED
    BY <1>1, <2>1 DEF EntriesOpen, Alone
<1>2. CASE Calm \/ Exceptions \/ Lapic
  <2>1. UNCHANGED <<fw, redir, lines, irq_line>>
    BY <1>2 DEF Calm, Exceptions, InitExceptions, Lapic, LapicInit, bootVars
  <2>2. QED
    BY <1>1, <2>1
<1>3. CASE IoApic \/ NicFound
  <2>1. lines' = {}
    BY <1>3 DEF IoApic, IoApicInit, NicFound, platformVars, routing, Call, RoutingInv, RedirRight,
                BeforeNic
  <2>2. QED
    BY <2>1 DEF EntriesOpen
<1>4. CASE NicIrq \/ IrqCall
  <2>1. /\ RedirRight /\ fw \in Firmwares /\ lines \subseteq {0, irq_line}
        /\ irq_line \in HeapBytes \cup {0} /\ Entries \in 1 .. 120
    BY Constants, SMTT(30) DEF RoutingInv, LineRight
  <2>2. PICK irq \in {0, irq_line}, vector \in 0 .. 255 \cup {Nothing} :
          /\ fw' = fw /\ SetEntry(AcpiRemapIrq(irq), vector)
          /\ \/ lines' = lines \cup {irq} /\ vector = (32 + irq) % 256
             \/ lines' = lines \ {irq}
    <3> DEFINE call(irq) ==
                 \/ /\ SetEntry(AcpiRemapIrq(irq), (32 + irq) % 256)
                    /\ lines' = lines \cup {irq}
                 \/ /\ SetEntry(AcpiRemapIrq(irq), Nothing)
                    /\ lines' = lines \ {irq}
    <3>1. \/ RegisterIrq(irq_line, "rtl8139") \/ RegisterIrq(0, "pit")
          \/ \E irq \in lines : MaskIrq(irq)
          \/ \E irq \in {0, irq_line} : UnmaskIrq(irq)
      BY <1>4, LineCalls
    <3>2. PICK irq \in {0, irq_line} : fw' = fw /\ call(irq)
      BY <2>1, <3>1 DEF RegisterIrq, MaskIrq, UnmaskIrq
    <3>3. (32 + irq) % 256 \in 0 .. 255
      BY <2>1, LineByte
    <3>4. CASE lines' = lines \cup {irq} /\ SetEntry(AcpiRemapIrq(irq), (32 + irq) % 256)
      <4>1. PICK v \in 0 .. 255 : v = (32 + irq) % 256
        BY <3>3
      <4>2. fw' = fw /\ SetEntry(AcpiRemapIrq(irq), v) /\ lines' = lines \cup {irq}
        BY <3>2, <3>4, <4>1
      <4>3. QED
        BY <4>1, <4>2, ZenonT(30)
    <3>5. CASE lines' = lines \ {irq} /\ SetEntry(AcpiRemapIrq(irq), Nothing)
      BY <3>2, <3>5
    <3>6. QED
      BY <3>2, <3>4, <3>5
  <2>3. \A l \in {0, irq_line} : l \in 0 .. 255 /\ AcpiRemapIrq(l) \in Nat
    BY <2>1, LineByte, GsiType, SMTT(30) DEF AcpiRemapIrq
  <2>4. /\ redir' = [g \in 0 .. Entries - 1 |-> redir'[g]]
        /\ \A g \in 0 .. Entries - 1 :
             redir'[g] = IF g = EntryOf(irq) THEN vector ELSE redir[g]
    BY <2>1, <2>2, <2>3, SetEntryIs DEF EntryOf
  <2>a. /\ irq_line' = irq_line
        /\ \A l : EntryOf(l)' = EntryOf(l) /\ HasEntry(l)' = HasEntry(l)
    BY <1>4, <2>2, LineCalls DEF AcpiRemapIrq, EntryOf, HasEntry
  <2>5. SUFFICES ASSUME NEW l \in lines', Alone(l)
                 PROVE  redir'[EntryOf(l)] = (32 + l) % 256
    BY <2>a, Zenon DEF EntriesOpen, Alone
  <2>6. l \in {0, irq_line} /\ EntryOf(l) \in 0 .. Entries - 1
    <3>1. l \in {0, irq_line} /\ AcpiRemapIrq(l) \in Nat
      BY <2>1, <2>2, <2>3, <2>5, ZenonT(30)
    <3>2. /\ EntryOf(l) \in Int /\ EntryOf(l) < Entries
          /\ Register(AcpiRemapIrq(l)) >= 16 <=> EntryOf(l) >= 0
      BY <2>5, <3>1, EntryFacts DEF Alone, HasEntry, EntryOf
    <3>3. QED
      BY <2>1, <2>5, <3>1, <3>2 DEF Alone, HasEntry
  <2>7. CASE l = irq
    BY <2>2, <2>4, <2>5, <2>6, <2>7
  <2>8. CASE l # irq
    <3>1. EntryOf(l) # EntryOf(irq)
      BY <2>2, <2>5, <2>8 DEF Alone
    <3>2. l \in lines
      BY <2>2, <2>5, <2>8
    <3>3. redir[EntryOf(l)] = (32 + l) % 256
      BY <2>5, <3>2, Zenon DEF EntriesOpen
    <3>4. redir'[EntryOf(l)] = redir[EntryOf(l)]
      BY <2>4, <2>6, <3>1
    <3>5. QED
      BY <3>3, <3>4
  <2>9. QED
    BY <2>7, <2>8
<1>5. QED
  BY <1>2, <1>3, <1>4, RoutingMoves

(* register_irq, mask_irq and unmask_irq agree on the entry of a line, for *)
(* any overrides and any byte in irq_line: an open entry is always that of *)
(* an unmasked line, even when two share it, and an unmasked line that has *)
(* an entry to itself has it open.                                         *)
THEOREM LinesAreOpen == Spec => []LinesOpen
<1>1. ASSUME RoutingInv, EntriesOpen PROVE LinesOpen
  <2>1. \A g \in Unmasked : \E l \in lines : g = EntryOf(l) /\ redir[g] = (32 + l) % 256
    <3>1. SUFFICES ASSUME NEW g \in Unmasked
                   PROVE  \E l \in lines : g = EntryOf(l) /\ redir[g] = (32 + l) % 256
      OBVIOUS
    <3>2. PICK l \in lines : redir[g] = (32 + l) % 256 /\ EntryAt(AcpiRemapIrq(l)) = g
      BY <1>1 DEF RoutingInv, RedirRight
    <3>3. QED
      BY <3>2, Zenon DEF EntryOf
  <2>2. QED
    BY <1>1, <2>1, Zenon DEF LinesOpen, EntriesOpen, Alone
<1>2. Init => EntriesOpen
  BY DEF Init, PlatformInit, EntriesOpen
<1>3. Spec => []EntriesOpen
  BY <1>2, NextKeepsOpen, RoutingInvariant, PTL DEF Spec
<1>4. QED
  BY <1>1, <1>3, RoutingInvariant, PTL

-----------------------------------------------------------------------------
(* ACPI.  The sleep types are read once, by acpi_init.                     *)
SlpRight ==
  /\ slp \in [en : {0, 1}, a : 0 .. 255, b : 0 .. 255]
  /\ pc \notin {"init_exceptions", "acpi_init", "halted"} /\ fw.plain =>
       slp = [en |-> 1, a |-> fw.s5[1], b |-> fw.s5[2]]

SleepInv == fw \in Firmwares /\ SlpRight /\ PowersOff

LEMMA FirmwareFacts ==
  ASSUME fw \in Firmwares
  PROVE  /\ fw.dsdt \in Seq(0 .. 256) /\ (fw.plain => DeclaresS5(fw))
         /\ \A p \in DOMAIN fw.dsdt : fw.dsdt[p] = NameS5 /\ fw.dsdt[p + 1] = PackageOp =>
              /\ p + 7 <= Len(fw.dsdt)
              /\ \A q \in p + 4 .. p + 7 : fw.dsdt[q] # NameS5
BY PlatformAssumption DEF NameS5

LEMMA ItemType ==
  ASSUME NEW S, NEW s \in Seq(S), NEW i \in 1 .. Len(s)
  PROVE  s[i] \in S
OBVIOUS

LEMMA S5First ==
  ASSUME NEW p \in DOMAIN fw.dsdt, fw \in Firmwares, fw.dsdt[p] = NameS5,
         \A q \in 1 .. p - 1 : fw.dsdt[q] # NameS5
  PROVE  S5At = p
<1> DEFINE at == {q \in DOMAIN fw.dsdt : fw.dsdt[q] = NameS5}
<1>1. at \in SUBSET Nat /\ p \in at /\ \A q \in at : q \in Nat /\ q >= 1
  BY FirmwareFacts
<1>2. \A q \in at : p <= q
  BY <1>1
<1>3. S5At = CHOOSE q \in at : \A r \in at : q <= r
  BY <1>1 DEF S5At
<1> HIDE DEF at
<1>4. S5At \in at /\ S5At <= p
  BY <1>1, <1>2, <1>3
<1>5. S5At \in Nat /\ p \in Nat /\ p <= S5At
  BY <1>1, <1>2, <1>4
<1>6. QED
  BY <1>4, <1>5

(* What parse_dsdt_s5 reads of a package is a byte each, and is what a     *)
(* plain firmware declares.                                                *)
LEMMA ParsedTypes ==
  ASSUME fw \in Firmwares, S5At # 0, ParseDsdtS5,
         slp \in [en : {0, 1}, a : 0 .. 255, b : 0 .. 255]
  PROVE  slp' \in [en : {0, 1}, a : 0 .. 255, b : 0 .. 255]
<1>1. CASE ~IsPackage(S5At)
  BY <1>1, SMTT(30) DEF ParseDsdtS5
<1>2. CASE IsPackage(S5At)
  <2> DEFINE p == S5At
  <2>1. p \in DOMAIN fw.dsdt /\ fw.dsdt[p] = NameS5
    <3> DEFINE at == {q \in DOMAIN fw.dsdt : fw.dsdt[q] = NameS5}
    <3>1. at \in SUBSET Nat
      BY FirmwareFacts
    <3>2. S5At = IF at = {} THEN 0 ELSE CHOOSE q \in at : \A r \in at : q <= r
      BY DEF S5At
    <3>3. at # {}
      BY <3>2
    <3>4. PICK q \in at : \A r \in at : q <= r
      BY <3>1, <3>3, LeastOf
    <3>5. QED
      BY <3>2, <3>3, <3>4
  <2>2. slp' = [en |-> 1, a |-> Element(p + 4).value, b |-> Element(Element(p + 4).next).value]
    BY <1>2 DEF ParseDsdtS5
  <2> HIDE DEF p
  <2>3. fw.dsdt[p + 1] = PackageOp
    BY <1>2 DEF IsPackage, p
  <2>4. p \in Nat /\ \A q \in p + 4 .. p + 7 : fw.dsdt[q] \in 0 .. 255
    <3>1. /\ p \in 1 .. Len(fw.dsdt) /\ Len(fw.dsdt) \in Nat /\ p + 7 <= Len(fw.dsdt)
          /\ fw.dsdt \in Seq(0 .. 256) /\ \A q \in p + 4 .. p + 7 : fw.dsdt[q] # NameS5
      BY <2>1, <2>3, FirmwareFacts
    <3>2. ASSUME NEW q \in p + 4 .. p + 7 PROVE fw.dsdt[q] \in 0 .. 255
      <4>1. q \in 1 .. Len(fw.dsdt) /\ fw.dsdt[q] # 256
        BY <3>1, <3>2 DEF NameS5
      <4>2. fw.dsdt[q] \in 0 .. 256
        BY <3>1, <4>1, ItemType, SMTT(30)
      <4>3. PICK v : v = fw.dsdt[q]
        OBVIOUS
      <4>4. v \in 0 .. 256 /\ v # 256
        BY <4>1, <4>2, <4>3
      <4>5. v \in 0 .. 255
        BY <4>4
      <4>6. QED
        BY <4>3, <4>5
    <3>3. p \in Nat
      BY <3>1
    <3>4. QED
      BY <3>2, <3>3
  <2>5. /\ Element(p + 4).value \in 0 .. 255
        /\ Element(p + 4).next \in {p + 5, p + 6}
        /\ \A q \in {p + 5, p + 6} : Element(q).value \in 0 .. 255
    <3>1. ASSUME NEW q \in {p + 4, p + 5, p + 6}
          PROVE  Element(q).value \in 0 .. 255 /\ Element(q).next \in {q + 1, q + 2}
      <4>1. q \in p + 4 .. p + 7 /\ q + 1 \in p + 4 .. p + 7 /\ q \in Int
        BY <2>4, SMTT(30)
      <4>2. PICK r \in {q, q + 1} : Element(q) = [value |-> fw.dsdt[r], next |-> r + 1]
        BY DEF Element
      <4>3. Element(q).value = fw.dsdt[r] /\ Element(q).next = r + 1
        BY <4>2
      <4>4. fw.dsdt[r] \in 0 .. 255
        BY <2>4, <4>1, <4>2, ZenonT(30)
      <4>5. r + 1 \in {q + 1, q + 2}
        BY <4>1, <4>2
      <4>6. QED
        BY <4>3, <4>4, <4>5
    <3>2. Element(p + 4).value \in 0 .. 255 /\ Element(p + 4).next \in {p + 4 + 1, p + 4 + 2}
      BY <3>1
    <3>3. {p + 4 + 1, p + 4 + 2} = {p + 5, p + 6} /\ {p + 5, p + 6} \subseteq {p + 4, p + 5, p + 6}
      BY <2>4
    <3>4. QED
      BY <3>1, <3>2, <3>3
  <2>6. QED
    BY <2>2, <2>5
<1>3. QED
  BY <1>1, <1>2

LEMMA ParsedPlain ==
  ASSUME fw \in Firmwares, fw.plain, ParseDsdtS5
  PROVE  slp' = [en |-> 1, a |-> fw.s5[1], b |-> fw.s5[2]]
<1>1. PICK p \in DOMAIN fw.dsdt :
         /\ fw.dsdt[p] = NameS5 /\ \A q \in 1 .. p - 1 : fw.dsdt[q] # NameS5
         /\ \/ fw.dsdt[p - 1] = NameOp
            \/ fw.dsdt[p - 2] = NameOp /\ fw.dsdt[p - 1] = RootChar
         /\ fw.dsdt[p + 1] = PackageOp
         /\ Encodes(fw.dsdt, p + 4, fw.s5[1])
         /\ Encodes(fw.dsdt, p + 4 + Width(fw.dsdt, p + 4), fw.s5[2])
  BY FirmwareFacts, Zenon DEF DeclaresS5
<1>2. S5At = p
  BY <1>1, S5First
<1>3. slp' = [en |-> 1, a |-> Element(p + 4).value, b |-> Element(Element(p + 4).next).value]
  BY <1>1, <1>2 DEF ParseDsdtS5, IsPackage
<1>4. p \in Int
  BY FirmwareFacts
<1>5. ASSUME NEW q \in Int, NEW v, Encodes(fw.dsdt, q, v)
      PROVE  Element(q).value = v /\ Element(q).next = q + Width(fw.dsdt, q)
  BY <1>5 DEF Encodes, Element, Width, BytePrefix
<1>6. Element(p + 4).value = fw.s5[1] /\ Element(p + 4).next = p + 4 + Width(fw.dsdt, p + 4)
  BY <1>1, <1>4, <1>5
<1>7. p + 4 + Width(fw.dsdt, p + 4) \in Int
  BY <1>4 DEF Width
<1>8. Element(Element(p + 4).next).value = fw.s5[2]
  BY <1>1, <1>5, <1>6, <1>7
<1>9. QED
  BY <1>3, <1>6, <1>8

(* Only acpi_init reads the sleep types, and only powering off writes them.*)
SleepCalm ==
  /\ UNCHANGED <<fw, slp, pm1>>
  /\ \/ pc' \in {pc, "halted", "acpi_init"}
     \/ pc \notin {"init_exceptions", "acpi_init", "halted"}

LEMMA SleepMoves == ASSUME [Next]_vars PROVE SleepCalm \/ Acpi \/ PowerOff
<1>1. UNCHANGED vars => SleepCalm
  BY DEF vars, SleepCalm, platformVars, acpi
<1>2. Exceptions => SleepCalm
  BY DEF Exceptions, SleepCalm, Call, InitExceptions, acpi
<1>3. AcpiStops => SleepCalm
  BY DEF AcpiStops, SleepCalm, Call, platformVars, acpi
<1>4. Vfs \/ Devfs \/ AhciAbsent => SleepCalm
  BY DEF Vfs, Devfs, AhciAbsent, SleepCalm, Call, platformVars, acpi
<1>5. AhciFound \/ HbaReady \/ InitPort \/ InitPortsReturns => SleepCalm
  BY DEF AhciFound, HbaReady, InitPort, InitPortsReturns, SleepCalm, Call, platformVars, acpi
<1>6. Ext2 \/ NicFound \/ NicAbsent => SleepCalm
  BY DEF Ext2, NicFound, NicAbsent, SleepCalm, Call, platformVars, acpi
<1>7. Lapic \/ IoApic => SleepCalm
  BY DEF Lapic, LapicInit, IoApic, IoApicInit, SleepCalm, Call, acpi
<1>8. NicIrq \/ IrqCall => SleepCalm
  BY DEF NicIrq, IrqCall, RegisterIrq, MaskIrq, UnmaskIrq, SleepCalm, Call, acpi
<1>9. Sti => SleepCalm
  BY DEF Sti, SleepCalm, Call, acpi
<1>10. \A op, type : Block(op, type) => SleepCalm
  BY DEF Block, SleepCalm, platformVars, acpi
<1>11. FileCall => SleepCalm
  BY DEF FileCall, SleepCalm, Call, platformVars, acpi
<1>12. QED
  BY <1>1, <1>2, <1>3, <1>4, <1>5, <1>6, <1>7, <1>8, <1>9, <1>10, <1>11 DEF Next, BootStep

LEMMA NextKeepsSleep == ASSUME SleepInv, [Next]_vars PROVE SleepInv'
<1>1. CASE SleepCalm
  <2>1. fw' = fw /\ slp' = slp /\ pm1' = pm1
    BY <1>1 DEF SleepCalm
  <2>2. SlpRight'
    BY <1>1, <2>1 DEF SleepInv, SlpRight, SleepCalm
  <2>3. QED
    BY <2>1, <2>2 DEF SleepInv, PowersOff
<1>2. CASE Acpi
  <2>1. fw' = fw /\ pm1' = pm1 /\ ParseDsdtS5 /\ S5At # 0
    BY <1>2 DEF Acpi, AcpiInit
  <2>2. SlpRight'
    BY <2>1, ParsedTypes, ParsedPlain DEF SleepInv, SlpRight
  <2>3. QED
    BY <2>1, <2>2 DEF SleepInv, PowersOff
<1>3. CASE PowerOff
  <2>1. /\ fw' = fw /\ slp' = slp /\ pc = "idle" /\ pc' = "halted"
        /\ pm1' = <<[en |-> slp.en, typ |-> slp.a]>>
                  \o (IF fw.pm1b THEN <<[en |-> slp.en, typ |-> slp.b]>> ELSE <<>>)
    BY <1>3 DEF PowerOff, Call, AcpiPowerOff, acpi
  <2>2. SlpRight'
    BY <2>1 DEF SleepInv, SlpRight
  <2>3. ASSUME fw.plain
        PROVE  /\ pm1'[1] = [en |-> 1, typ |-> fw.s5[1]]
               /\ fw.pm1b => pm1'[2] = [en |-> 1, typ |-> fw.s5[2]]
    <3>1. slp = [en |-> 1, a |-> fw.s5[1], b |-> fw.s5[2]]
      BY <2>1, <2>3 DEF SleepInv, SlpRight
    <3> DEFINE first == [en |-> 1, typ |-> fw.s5[1]]
               second == [en |-> 1, typ |-> fw.s5[2]]
    <3>2. pm1' = <<first>> \o (IF fw.pm1b THEN <<second>> ELSE <<>>)
      BY <2>1, <3>1
    <3> HIDE DEF first, second
    <3>3. CASE fw.pm1b
      <4>1. pm1' = <<first>> \o <<second>>
        BY <3>2, <3>3
      <4>2. pm1'[1] = first /\ pm1'[2] = second
        BY <4>1
      <4>3. QED
        BY <4>2 DEF first, second
    <3>4. CASE ~fw.pm1b
      <4>1. pm1' = <<first>> \o <<>>
        BY <3>2, <3>4
      <4>2. pm1'[1] = first
        BY <4>1
      <4>3. QED
        BY <3>4, <4>2 DEF first
    <3>5. QED
      BY <3>3, <3>4
  <2>4. QED
    BY <2>1, <2>2, <2>3 DEF SleepInv, PowersOff
<1>4. QED
  BY <1>1, <1>2, <1>3, SleepMoves

LEMMA SleepInvariant == Spec => []SleepInv
<1>1. Init => SleepInv
  BY DEF Init, PlatformInit, SleepInv, SlpRight, PowersOff
<1>2. QED
  BY <1>1, NextKeepsSleep, PTL DEF Spec

(* The sleep types written when powering off are those the firmware        *)
(* declared, for any table in which _S5_ is where the parser looks for it. *)
THEOREM PowersOffAsDeclared == Spec => []PowersOff
<1>1. SleepInv => PowersOff
  BY DEF SleepInv
<1>2. QED
  BY <1>1, SleepInvariant, PTL

-----------------------------------------------------------------------------
(* PCI.  The bits of a word that setting the bits 0 and 2 changes.         *)
Enabled(w) == OrBit(OrBit(w, 0), 2)

LEMMA EnabledIs ==
  ASSUME NEW w \in Nat
  PROVE  /\ Enabled(w) \in Nat
         /\ Enabled(w) = w + (1 - (w % 2)) + (1 - ((w \div 4) % 2)) * 4
<1>1. OrBit(w, 0) = w + (1 - (w % 2))
  BY DEF OrBit, Bit
<1> DEFINE v == w + (1 - (w % 2))
<1>2. v \in Nat /\ v \div 4 = w \div 4
  OBVIOUS
<1> HIDE DEF v
<1>3. OrBit(v, 2) = v + (1 - ((v \div 4) % 2)) * 4
  BY <1>2 DEF OrBit, Bit
<1>4. Enabled(w) = v + (1 - ((w \div 4) % 2)) * 4
  BY <1>1, <1>2, <1>3 DEF Enabled, v
<1>5. QED
  BY <1>2, <1>4 DEF v

LEMMA HighBits ==
  ASSUME NEW v \in Nat, NEW w \in Nat, v \div 8 = w \div 8
  PROVE  \A b \in 3 .. 15 : Bit(v, b) = Bit(w, b)
<1>1. Bit(v, 3) = Bit(w, 3) /\ Bit(v, 4) = Bit(w, 4)
  BY SMTT(30) DEF Bit
<1>2. Bit(v, 5) = Bit(w, 5) /\ Bit(v, 6) = Bit(w, 6)
  BY SMTT(30) DEF Bit
<1>3. Bit(v, 7) = Bit(w, 7) /\ Bit(v, 8) = Bit(w, 8)
  BY SMTT(30) DEF Bit
<1>4. Bit(v, 9) = Bit(w, 9) /\ Bit(v, 10) = Bit(w, 10)
  <2>1. Bit(v, 9) = Bit(w, 9)
    BY SMTT(30) DEF Bit
  <2>2. Bit(v, 10) = Bit(w, 10)
    BY SMTT(30) DEF Bit
  <2>3. QED
    BY <2>1, <2>2
<1>5. Bit(v, 11) = Bit(w, 11) /\ Bit(v, 12) = Bit(w, 12)
  BY SMTT(30) DEF Bit
<1>6. Bit(v, 13) = Bit(w, 13) /\ Bit(v, 14) = Bit(w, 14)
  BY SMTT(30) DEF Bit
<1>7. Bit(v, 15) = Bit(w, 15)
  BY SMTT(30) DEF Bit
<1>8. \A b \in 3 .. 15 : b \in {3, 4, 5, 6, 7, 8, 9, 10, 11, 12, 13, 14, 15}
  OBVIOUS
<1>9. QED
  BY <1>1, <1>2, <1>3, <1>4, <1>5, <1>6, <1>7, <1>8

LEMMA EnabledBits ==
  ASSUME NEW w \in Nat
  PROVE  /\ Bit(Enabled(w), 2) = 1
         /\ \A b \in 0 .. 15 \ {0, 2} : Bit(Enabled(w), b) = Bit(w, b)
<1> DEFINE n == Enabled(w)
<1>1. n \in Nat /\ n = w + (1 - (w % 2)) + (1 - ((w \div 4) % 2)) * 4
  BY EnabledIs
<1> HIDE DEF n
<1>2. /\ n \div 8 = w \div 8 /\ (n \div 4) % 2 = 1 /\ (n \div 2) % 2 = (w \div 2) % 2
  BY <1>1
<1>3. Bit(n, 2) = 1 /\ Bit(n, 1) = Bit(w, 1)
  BY <1>1, <1>2 DEF Bit
<1>4. \A b \in 3 .. 15 : Bit(n, b) = Bit(w, b)
  BY <1>1, <1>2, HighBits
<1>5. \A b \in 0 .. 15 \ {0, 2} : Bit(n, b) = Bit(w, b)
  BY <1>3, <1>4
<1>6. QED
  BY <1>3, <1>5 DEF n

(* The first function in the order of the scan: there is one.              *)
LEMMA FirstOfIs ==
  ASSUME NEW fs \in SUBSET Places, FirstOf(fs).found
  PROVE  \E f \in fs : FirstOf(fs) = Device(f) /\ \A g \in fs \ {f} : Before(f, g)
<1>1. fs # {} /\ FirstOf(fs) = Device(CHOOSE f \in fs : \A g \in fs \ {f} : Before(f, g))
  BY DEF FirstOf, NoDev
<1>2. \A f \in fs : /\ f[1] \in Nat /\ f[2] \in Nat /\ f[3] \in Nat
                    /\ f = <<f[1], f[2], f[3]>>
  BY DEF Places
<1>3. PICK bus \in {f[1] : f \in fs} : \A i \in {f[1] : f \in fs} : bus <= i
  <2>1. {f[1] : f \in fs} \in SUBSET Nat /\ {f[1] : f \in fs} # {}
    BY <1>1, <1>2
  <2>2. QED
    BY <2>1, LeastOf
<1> DEFINE onBus == {f \in fs : f[1] = bus}
<1>4. PICK slot \in {f[2] : f \in onBus} : \A i \in {f[2] : f \in onBus} : slot <= i
  <2>1. {f[2] : f \in onBus} \in SUBSET Nat /\ {f[2] : f \in onBus} # {}
    BY <1>2, <1>3
  <2>2. QED
    BY <2>1, LeastOf
<1> DEFINE inSlot == {f \in onBus : f[2] = slot}
<1>5. PICK func \in {f[3] : f \in inSlot} : \A i \in {f[3] : f \in inSlot} : func <= i
  <2>1. {f[3] : f \in inSlot} \in SUBSET Nat /\ {f[3] : f \in inSlot} # {}
    BY <1>2, <1>4
  <2>2. QED
    BY <2>1, LeastOf
<1>6. PICK f \in inSlot : f[3] = func
  BY <1>5
<1>7. ASSUME NEW g \in fs \ {f} PROVE Before(f, g)
  <2>1. bus <= g[1] /\ (g[1] = bus => slot <= g[2])
          /\ (g[1] = bus /\ g[2] = slot => func <= g[3])
    BY <1>3, <1>4, <1>5
  <2>2. f[1] = bus /\ f[2] = slot /\ f[3] = func
    BY <1>6
  <2>3. g[1] # bus \/ g[2] # slot \/ g[3] # func
    BY <1>2, <2>2
  <2>4. bus \in Nat /\ slot \in Nat /\ func \in Nat
          /\ g[1] \in Nat /\ g[2] \in Nat /\ g[3] \in Nat
    BY <1>2, <1>3, <1>4, <1>5
  <2>5. QED
    BY <2>1, <2>2, <2>3, <2>4 DEF Before
<1> DEFINE first == CHOOSE g \in fs : \A h \in fs \ {g} : Before(g, h)
<1>8. first \in fs /\ \A g \in fs \ {first} : Before(first, g)
  <2>1. f \in fs /\ \A g \in fs \ {f} : Before(f, g)
    BY <1>6, <1>7
  <2>2. \E g \in fs : \A h \in fs \ {g} : Before(g, h)
    BY <2>1, Zenon
  <2>3. QED
    BY <2>2, Zenon
<1>9. FirstOf(fs) = Device(first)
  BY <1>1
<1>10. QED
  BY <1>8, <1>9, Zenon

LEMMA AddressOrder ==
  ASSUME NEW f \in Places, NEW g \in Places, f = g \/ Before(f, g)
  PROVE  Address(f) <= Address(g)
<1>1. /\ f[1] \in Nat /\ f[2] \in 0 .. 31 /\ f[3] \in 0 .. 7
      /\ g[1] \in Nat /\ g[2] \in 0 .. 31 /\ g[3] \in 0 .. 7
  BY DEF Places
<1>2. CASE f = g
  BY <1>1, <1>2 DEF Address
<1>3. CASE Before(f, g)
  <2>1. \/ f[1] < g[1]
        \/ f[1] = g[1] /\ f[2] < g[2]
        \/ f[1] = g[1] /\ f[2] = g[2] /\ f[3] < g[3]
    BY <1>3, Zenon DEF Before
  <2>2. PICK a \in Nat, b \in 0 .. 31, c \in 0 .. 7 : f[1] = a /\ f[2] = b /\ f[3] = c
    BY <1>1
  <2>3. PICK d \in Nat, e \in 0 .. 31, h \in 0 .. 7 : g[1] = d /\ g[2] = e /\ g[3] = h
    BY <1>1
  <2>4. a < d \/ (a = d /\ b < e) \/ (a = d /\ b = e /\ c < h)
    BY <2>1, <2>2, <2>3, Zenon
  <2>5. (a * 32 + b) * 8 + c <= (d * 32 + e) * 8 + h
    BY <2>4
  <2>6. QED
    BY <2>2, <2>3, <2>5, Zenon DEF Address
<1>4. QED
  BY <1>2, <1>3

-----------------------------------------------------------------------------
(* The configuration keeps its shape, and the devices found are in it.     *)
CfgRight ==
  /\ DOMAIN cfg \subseteq Places
  /\ cfg = [f \in DOMAIN cfg |-> cfg[f]]
  /\ \A f \in DOMAIN cfg :
       /\ cfg[f] = [i \in 0 .. 15 |-> cfg[f][i]]
       /\ \A i \in 0 .. 15 : /\ cfg[f][i] = <<cfg[f][i][1], cfg[f][i][2]>>
                             /\ cfg[f][i][1] \in Nat /\ cfg[f][i][2] \in Nat

(* What is true of a device that is the first of fs, in configuration c.   *)
DeviceIn(dev, fs, c) ==
  dev.found =>
    /\ dev.at \in DOMAIN c
    /\ dev.at \in fs /\ \A f \in fs : Address(dev.at) <= Address(f)
    /\ \A i \in 0 .. 5 \ {3} : dev.bars[i] = c[dev.at][4 + i]
    /\ Bit(c[dev.at][1][1], 2) = 1

PciInv == CfgRight /\ DeviceIn(ahci, Hbas, cfg) /\ DeviceIn(nic, Nics, cfg)

(* Nothing but the command word of the function changes.                   *)
LEMMA EnableIs ==
  ASSUME CfgRight, NEW f \in DOMAIN cfg, EnableBusMastering(f)
  PROVE  /\ DOMAIN cfg' = DOMAIN cfg /\ cfg' = [g \in DOMAIN cfg |-> cfg'[g]]
         /\ \A g \in DOMAIN cfg \ {f} : cfg'[g] = cfg[g]
         /\ cfg'[f] = [i \in 0 .. 15 |-> cfg'[f][i]]
         /\ \A i \in 0 .. 15 \ {1} : cfg'[f][i] = cfg[f][i]
         /\ cfg'[f][1] = <<Enabled(cfg[f][1][1]), cfg[f][1][2]>>
<1>1. ReadW(f, 4) = cfg[f][1][1]
  <2>1. 4 \div 4 = 1 /\ 1 + (4 % 4) \div 2 = 1
    OBVIOUS
  <2>2. QED
    BY <2>1 DEF ReadW
<1> DEFINE new == <<Enabled(cfg[f][1][1]), cfg[f][1][2]>>
<1>2. cfg' = [cfg EXCEPT ![f][1] = new]
  <2>1. 4 \div 4 = 1
    OBVIOUS
  <2>2. QED
    BY <1>1, <2>1 DEF EnableBusMastering, WriteW, Enabled
<1> HIDE DEF new
<1>3. cfg = [g \in DOMAIN cfg |-> cfg[g]] /\ cfg[f] = [i \in 0 .. 15 |-> cfg[f][i]]
  BY DEF CfgRight
<1>4. /\ DOMAIN cfg' = DOMAIN cfg /\ cfg' = [g \in DOMAIN cfg |-> cfg'[g]]
      /\ \A g \in DOMAIN cfg \ {f} : cfg'[g] = cfg[g]
      /\ cfg'[f] = [cfg[f] EXCEPT ![1] = new]
  BY <1>2, <1>3
<1>5. /\ cfg'[f] = [i \in 0 .. 15 |-> cfg'[f][i]] /\ cfg'[f][1] = new
      /\ \A i \in 0 .. 15 \ {1} : cfg'[f][i] = cfg[f][i]
  <2>1. DOMAIN cfg[f] = 0 .. 15 /\ 1 \in 0 .. 15
    BY <1>3
  <2>2. cfg'[f] = [i \in 0 .. 15 |-> IF i = 1 THEN new ELSE cfg[f][i]]
    BY <1>4, <2>1
  <2>3. cfg'[f][1] = new /\ \A i \in 0 .. 15 \ {1} : cfg'[f][i] = cfg[f][i]
    BY <2>1, <2>2
  <2>4. \A i \in 0 .. 15 : cfg'[f][i] = IF i = 1 THEN new ELSE cfg[f][i]
    BY <2>2
  <2>5. cfg'[f] = [i \in 0 .. 15 |-> cfg'[f][i]]
    BY <2>2, <2>4, Zenon
  <2>6. QED
    BY <2>3, <2>5
<1>6. QED
  BY <1>4, <1>5 DEF new

(* A device that was looked for: the function it is and what its registers *)
(* say.                                                                    *)
LEMMA FoundDevice ==
  ASSUME CfgRight, NEW fs \in SUBSET DOMAIN cfg, FirstOf(fs).found
  PROVE  /\ FirstOf(fs).at \in DOMAIN cfg
         /\ FirstOf(fs).at \in fs
         /\ \A f \in fs : Address(FirstOf(fs).at) <= Address(f)
         /\ \A i \in 0 .. 5 \ {3} : FirstOf(fs).bars[i] = cfg[FirstOf(fs).at][4 + i]
<1>1. DOMAIN cfg \subseteq Places
  BY DEF CfgRight
<1>2. PICK f \in fs : FirstOf(fs) = Device(f) /\ \A g \in fs \ {f} : Before(f, g)
  BY <1>1, FirstOfIs
<1>a. \A g \in fs : Address(f) <= Address(g)
  BY <1>1, <1>2, AddressOrder
<1>3. /\ f \in DOMAIN cfg /\ FirstOf(fs).at = f
      /\ \A i \in 0 .. 5 \ {3} : FirstOf(fs).bars[i] = Bar(f, i)
  BY <1>2 DEF Device
<1>4. ASSUME NEW i \in 0 .. 5 \ {3} PROVE Bar(f, i) = cfg[f][4 + i]
  <2>1. /\ i # 3 /\ BarOffset(i) \div 4 = 4 + i /\ (BarOffset(i) + 2) \div 4 = 4 + i
        /\ 1 + (BarOffset(i) % 4) \div 2 = 1 /\ 1 + ((BarOffset(i) + 2) % 4) \div 2 = 2
        /\ 4 + i \in 0 .. 15
    BY DEF BarOffset
  <2>2. ReadW(f, BarOffset(i)) = cfg[f][4 + i][1]
    BY <1>3, <2>1 DEF ReadW
  <2>3. ReadW(f, BarOffset(i) + 2) = cfg[f][4 + i][2]
    BY <1>3, <2>1 DEF ReadW
  <2>4. cfg[f][4 + i] = <<cfg[f][4 + i][1], cfg[f][4 + i][2]>>
    <3>1. \A a \in 0 .. 15 : cfg[f][a] = <<cfg[f][a][1], cfg[f][a][2]>>
      BY <1>3 DEF CfgRight
    <3>2. 4 + i \in 0 .. 15
      BY <2>1
    <3>3. QED
      BY <3>1, <3>2, Zenon
  <2>5. QED
    BY <2>1, <2>2, <2>3, <2>4 DEF Bar
<1>5. QED
  BY <1>2, <1>3, <1>4, <1>a

(* Enabling a function keeps the configuration's shape, and what held of   *)
(* any device found before.                                                *)
LEMMA EnableKeeps ==
  ASSUME CfgRight, NEW f \in DOMAIN cfg, EnableBusMastering(f)
  PROVE  /\ CfgRight'
         /\ Bit(cfg'[f][1][1], 2) = 1
         /\ \A g \in DOMAIN cfg : \A i \in 0 .. 15 \ {1} : cfg'[g][i] = cfg[g][i]
         /\ \A g \in DOMAIN cfg \ {f} : cfg'[g] = cfg[g]
<1>1. /\ DOMAIN cfg' = DOMAIN cfg /\ cfg' = [g \in DOMAIN cfg |-> cfg'[g]]
      /\ \A g \in DOMAIN cfg \ {f} : cfg'[g] = cfg[g]
      /\ cfg'[f] = [i \in 0 .. 15 |-> cfg'[f][i]]
      /\ \A i \in 0 .. 15 \ {1} : cfg'[f][i] = cfg[f][i]
      /\ cfg'[f][1] = <<Enabled(cfg[f][1][1]), cfg[f][1][2]>>
  BY EnableIs
<1>2. cfg[f][1][1] \in Nat /\ cfg[f][1][2] \in Nat
  BY DEF CfgRight
<1>3. /\ cfg'[f][1] = <<cfg'[f][1][1], cfg'[f][1][2]>> /\ cfg'[f][1][1] = Enabled(cfg[f][1][1])
      /\ cfg'[f][1][1] \in Nat /\ cfg'[f][1][2] \in Nat
  BY <1>1, <1>2, EnabledIs
<1>4. Bit(cfg'[f][1][1], 2) = 1
  BY <1>2, <1>3, EnabledBits, SMTT(30)
<1>5. ASSUME NEW g \in DOMAIN cfg
      PROVE  /\ cfg'[g] = [i \in 0 .. 15 |-> cfg'[g][i]]
             /\ \A i \in 0 .. 15 : /\ cfg'[g][i] = <<cfg'[g][i][1], cfg'[g][i][2]>>
                                   /\ cfg'[g][i][1] \in Nat /\ cfg'[g][i][2] \in Nat
  <2>1. /\ cfg[g] = [i \in 0 .. 15 |-> cfg[g][i]]
        /\ \A i \in 0 .. 15 : /\ cfg[g][i] = <<cfg[g][i][1], cfg[g][i][2]>>
                              /\ cfg[g][i][1] \in Nat /\ cfg[g][i][2] \in Nat
    BY SMTT(30) DEF CfgRight
  <2>2. CASE g # f
    <3>1. cfg'[g] = cfg[g]
      BY <1>1, <2>2
    <3>2. QED
      BY <2>1, <3>1, Zenon
  <2>3. CASE g = f
    <3>1. \A i \in 0 .. 15 : i = 1 \/ cfg'[g][i] = cfg[g][i]
      BY <1>1, <2>3, SMTT(30)
    <3>2. QED
      BY <1>1, <1>3, <2>1, <2>3, <3>1
  <2>4. QED
    BY <2>2, <2>3
<1>6. CfgRight'
  BY <1>1, <1>5 DEF CfgRight
<1>7. QED
  BY <1>1, <1>4, <1>6

LEMMA DeviceEnabled ==
  ASSUME CfgRight, NEW fs \in SUBSET DOMAIN cfg, FirstOf(fs).found,
         EnableBusMastering(FirstOf(fs).at), NEW other, NEW gs, DeviceIn(other, gs, cfg)
  PROVE  CfgRight' /\ DeviceIn(FirstOf(fs), fs, cfg') /\ DeviceIn(other, gs, cfg')
<1> DEFINE dev == FirstOf(fs)
<1>1. /\ dev.at \in DOMAIN cfg
      /\ dev.at \in fs /\ \A f \in fs : Address(dev.at) <= Address(f)
      /\ \A i \in 0 .. 5 \ {3} : dev.bars[i] = cfg[dev.at][4 + i]
  BY FoundDevice
<1> HIDE DEF dev
<1>2. /\ CfgRight' /\ DOMAIN cfg' = DOMAIN cfg
      /\ Bit(cfg'[dev.at][1][1], 2) = 1
      /\ \A g \in DOMAIN cfg : \A i \in 0 .. 15 \ {1} : cfg'[g][i] = cfg[g][i]
      /\ \A g \in DOMAIN cfg \ {dev.at} : cfg'[g] = cfg[g]
  BY <1>1, EnableKeeps, EnableIs DEF dev
<1>3. \A i \in 0 .. 5 \ {3} : 4 + i \in 0 .. 15 \ {1}
  OBVIOUS
<1>4. DeviceIn(dev, fs, cfg')
  BY <1>1, <1>2, <1>3 DEF DeviceIn
<1>5. DeviceIn(other, gs, cfg')
  BY <1>2, <1>3 DEF DeviceIn
<1>6. QED
  BY <1>2, <1>4, <1>5 DEF dev

(* What a driver looks for does not depend on the command words.           *)
LEMMA SoughtSame ==
  ASSUME CfgRight, NEW f \in DOMAIN cfg, EnableBusMastering(f)
  PROVE  Hbas' = Hbas /\ Nics' = Nics
<1>1. /\ DOMAIN cfg' = DOMAIN cfg
      /\ \A g \in DOMAIN cfg : cfg'[g][0] = cfg[g][0] /\ cfg'[g][2] = cfg[g][2]
  <2>1. DOMAIN cfg' = DOMAIN cfg
    BY EnableIs
  <2>2. \A g \in DOMAIN cfg : \A i \in 0 .. 15 \ {1} : cfg'[g][i] = cfg[g][i]
    BY EnableKeeps
  <2>3. 0 \in 0 .. 15 \ {1} /\ 2 \in 0 .. 15 \ {1}
    OBVIOUS
  <2>4. QED
    BY <2>1, <2>2, <2>3, Zenon
<1>2. QED
  BY <1>1 DEF Hbas, Nics

LEMMA PciMoves ==
  ASSUME [Next]_vars
  PROVE  UNCHANGED <<cfg, ahci, nic>> \/ AhciFound \/ NicFound
<1> DEFINE Same == UNCHANGED <<cfg, ahci, nic>>
<1>1. UNCHANGED vars => Same
  BY DEF vars, bootVars
<1>2. Exceptions \/ Acpi \/ AcpiStops \/ Vfs \/ Devfs \/ AhciAbsent \/ HbaReady => Same
  BY DEF Exceptions, Acpi, AcpiStops, Vfs, Devfs, AhciAbsent, HbaReady, bootVars
<1>3. InitPort \/ InitPortsReturns \/ Ext2 \/ Lapic \/ IoApic => Same
  BY DEF InitPort, InitPortsReturns, Ext2, Lapic, IoApic, bootVars
<1>4. NicAbsent \/ NicIrq \/ Sti \/ FileCall \/ IrqCall \/ PowerOff => Same
  BY DEF NicAbsent, NicIrq, Sti, FileCall, IrqCall, PowerOff, bootVars
<1>5. \A op, type : Block(op, type) => Same
  BY DEF Block
<1>6. QED
  BY <1>1, <1>2, <1>3, <1>4, <1>5 DEF Next, BootStep

(* What the two searches look through.                                     *)
LEMMA SearchIs ==
  /\ Hbas \in SUBSET DOMAIN cfg /\ PciFindAny(AhciClass[1], AhciClass[2], -1) = FirstOf(Hbas)
  /\ Nics \in SUBSET DOMAIN cfg /\ PciFind(NicIds[1], NicIds[2]) = FirstOf(Nics)
<1>1. \A f \in DOMAIN cfg : /\ ReadW(f, 10) = cfg[f][2][2]
                            /\ ReadW(f, 0) = cfg[f][0][1] /\ ReadW(f, 2) = cfg[f][0][2]
  <2>1. /\ 10 \div 4 = 2 /\ 1 + (10 % 4) \div 2 = 2 /\ 0 \div 4 = 0 /\ 1 + (0 % 4) \div 2 = 1
        /\ 2 \div 4 = 0 /\ 1 + (2 % 4) \div 2 = 2
    OBVIOUS
  <2>2. QED
    BY <2>1 DEF ReadW
<1>2. Hbas = {f \in Scanned : /\ Class(f) = AhciClass[1] /\ Subclass(f) = AhciClass[2]
                              /\ -1 = -1 \/ -1 = ProgIf(f)}
  BY <1>1 DEF Hbas, Scanned, Class, Subclass
<1>3. Nics = {f \in Scanned : Vendor(f) = NicIds[1] /\ DeviceId(f) = NicIds[2]}
  BY <1>1 DEF Nics, Scanned, Vendor, DeviceId
<1>4. Hbas \in SUBSET DOMAIN cfg /\ Nics \in SUBSET DOMAIN cfg
  BY DEF Hbas, Nics
<1>5. QED
  BY <1>2, <1>3, <1>4 DEF PciFindAny, PciFind

LEMMA Searches ==
  /\ AhciFound => /\ nic' = nic /\ ahci'.found /\ EnableBusMastering(ahci'.at)
                  /\ ahci' = FirstOf(Hbas) /\ Hbas \in SUBSET DOMAIN cfg
  /\ NicFound => /\ ahci' = ahci /\ nic'.found /\ EnableBusMastering(nic'.at)
                 /\ nic' = FirstOf(Nics) /\ Nics \in SUBSET DOMAIN cfg
BY SearchIs DEF AhciFound, NicFound

LEMMA NextKeepsPci == ASSUME PciInv, [Next]_vars PROVE PciInv' /\ Hbas' = Hbas /\ Nics' = Nics
<1>1. CASE UNCHANGED <<cfg, ahci, nic>>
  BY <1>1 DEF PciInv, CfgRight, Hbas, Nics
<1>2. CASE AhciFound
  <2>1. /\ ahci' = FirstOf(Hbas) /\ Hbas \in SUBSET DOMAIN cfg
        /\ FirstOf(Hbas).found /\ EnableBusMastering(FirstOf(Hbas).at) /\ nic' = nic
    BY <1>2, Searches
  <2>2. CfgRight' /\ DeviceIn(ahci', Hbas, cfg') /\ DeviceIn(nic, Nics, cfg')
    BY <2>1, DeviceEnabled DEF PciInv
  <2>3. Hbas' = Hbas /\ Nics' = Nics
    BY <2>1, FoundDevice, SoughtSame DEF PciInv
  <2>4. QED
    BY <2>1, <2>2, <2>3 DEF PciInv
<1>3. CASE NicFound
  <2>1. /\ nic' = FirstOf(Nics) /\ Nics \in SUBSET DOMAIN cfg
        /\ FirstOf(Nics).found /\ EnableBusMastering(FirstOf(Nics).at) /\ ahci' = ahci
    BY <1>3, Searches
  <2>2. CfgRight' /\ DeviceIn(nic', Nics, cfg') /\ DeviceIn(ahci, Hbas, cfg')
    BY <2>1, DeviceEnabled DEF PciInv
  <2>3. Hbas' = Hbas /\ Nics' = Nics
    BY <2>1, FoundDevice, SoughtSame DEF PciInv
  <2>4. QED
    BY <2>1, <2>2, <2>3 DEF PciInv
<1>4. QED
  BY <1>1, <1>2, <1>3, PciMoves

LEMMA PciInvariant == Spec => []PciInv
<1>1. ASSUME Init PROVE PciInv
  <2>1. cfg \in Configs
    BY <1>1 DEF Init
  <2>2. DOMAIN cfg \subseteq Places /\ cfg \in [DOMAIN cfg -> [0 .. 15 -> Words \X Words]]
    BY <2>1, ConfigsAssumption, Zenon
  <2>3. Words \subseteq Nat
    BY DEF Words
  <2>4. cfg = [f \in DOMAIN cfg |-> cfg[f]] /\ \A f \in DOMAIN cfg : cfg[f] \in [0 .. 15 -> Words \X Words]
    BY <2>2
  <2>5. ASSUME NEW f \in DOMAIN cfg
        PROVE  /\ cfg[f] = [i \in 0 .. 15 |-> cfg[f][i]]
               /\ \A i \in 0 .. 15 : /\ cfg[f][i] = <<cfg[f][i][1], cfg[f][i][2]>>
                                     /\ cfg[f][i][1] \in Nat /\ cfg[f][i][2] \in Nat
    BY <2>3, <2>4
  <2>6. CfgRight
    BY <2>2, <2>4, <2>5 DEF CfgRight
  <2>7. QED
    BY <1>1, <2>6 DEF Init, PciInv, DeviceIn, NoDev
<1>2. PciInv /\ [Next]_vars => PciInv'
  BY NextKeepsPci
<1>3. QED
  BY <1>1, <1>2, PTL DEF Spec

(* A driver that has been started and has no device had none to find.      *)
AhciSought == {"take_ownership", "init_ports", "ext2_init", "lapic_init", "ioapic_init",
               "rtl8139_init", "register_irq", "sti", "idle"}
NicSought == {"register_irq", "sti", "idle"}

SoughtInv ==
  /\ pc \in AhciSought => (~ahci.found => Hbas = {})
  /\ pc \in NicSought => (~nic.found => Nics = {})

LEMMA SoughtMoves ==
  ASSUME [Next]_vars
  PROVE  \/ /\ pc' \in AhciSought => pc \in AhciSought
            /\ pc' \in NicSought => pc \in NicSought
            /\ UNCHANGED <<ahci, nic>>
         \/ AhciFound \/ AhciAbsent \/ NicFound \/ NicAbsent
<1> DEFINE Same == /\ pc' \in AhciSought => pc \in AhciSought
                   /\ pc' \in NicSought => pc \in NicSought
                   /\ UNCHANGED <<ahci, nic>>
<1>1. UNCHANGED vars => Same
  BY DEF vars, bootVars
<1>2. Exceptions \/ Acpi \/ AcpiStops \/ Vfs \/ Devfs => Same
  BY DEF Exceptions, Acpi, AcpiStops, Vfs, Devfs, Call, bootVars, AhciSought, NicSought
<1>3. HbaReady \/ InitPort \/ InitPortsReturns \/ Ext2 => Same
  BY DEF HbaReady, InitPort, InitPortsReturns, Ext2, Call, bootVars, AhciSought, NicSought
<1>4. Lapic \/ IoApic \/ NicIrq \/ Sti => Same
  BY DEF Lapic, IoApic, NicIrq, Sti, Call, bootVars, AhciSought, NicSought
<1>5. FileCall \/ IrqCall \/ PowerOff => Same
  BY DEF FileCall, IrqCall, PowerOff, Call, bootVars, AhciSought, NicSought
<1>6. \A op, type : Block(op, type) => Same
  BY DEF Block, AhciSought, NicSought
<1>7. QED
  BY <1>1, <1>2, <1>3, <1>4, <1>5, <1>6 DEF Next, BootStep

LEMMA NoneToFind == ASSUME NEW fs, ~FirstOf(fs).found PROVE fs = {}
BY DEF FirstOf, Device

LEMMA NextKeepsSought ==
  ASSUME PciInv, SoughtInv, [Next]_vars PROVE SoughtInv'
<1>1. Hbas' = Hbas /\ Nics' = Nics
  BY NextKeepsPci
<1>2. CASE AhciFound
  <2>1. ahci'.found /\ pc' = "take_ownership"
    BY <1>2, Searches DEF AhciFound, Call
  <2>2. QED
    BY <2>1 DEF SoughtInv, NicSought
<1>3. CASE AhciAbsent
  <2>1. Hbas = {} /\ pc' = "ext2_init"
    BY <1>3, SearchIs, NoneToFind DEF AhciAbsent, Call
  <2>2. QED
    BY <1>1, <2>1 DEF SoughtInv, NicSought
<1>4. CASE NicFound
  <2>1. nic'.found /\ ahci' = ahci /\ pc = "rtl8139_init"
    BY <1>4, Searches DEF NicFound, Call
  <2>2. QED
    BY <1>1, <2>1 DEF SoughtInv, AhciSought
<1>5. CASE NicAbsent
  <2>1. Nics = {} /\ ahci' = ahci /\ pc = "rtl8139_init"
    BY <1>5, SearchIs, NoneToFind DEF NicAbsent, Call, bootVars
  <2>2. QED
    BY <1>1, <2>1 DEF SoughtInv, AhciSought
<1>6. CASE /\ pc' \in AhciSought => pc \in AhciSought
           /\ pc' \in NicSought => pc \in NicSought
           /\ UNCHANGED <<ahci, nic>>
  BY <1>1, <1>6 DEF SoughtInv
<1>7. QED
  BY <1>2, <1>3, <1>4, <1>5, <1>6, SoughtMoves

(* Whatever functions the machine has, and in whatever order, each driver  *)
(* holds the first of its own kind with that function's base addresses,    *)
(* and has made it a bus master; one that holds none had none to find.     *)
THEOREM DevicesAreRight == Spec => []DevicesRight
<1>1. ASSUME PciInv, SoughtInv PROVE DevicesRight
  <2>1. ahci.found => HoldsFirst(ahci, Hbas)
    BY <1>1 DEF PciInv, DeviceIn, HoldsFirst
  <2>2. nic.found => HoldsFirst(nic, Nics)
    BY <1>1 DEF PciInv, DeviceIn, HoldsFirst
  <2>3. pc = "idle" => (~ahci.found => Hbas = {}) /\ (~nic.found => Nics = {})
    BY <1>1 DEF SoughtInv, AhciSought, NicSought
  <2>4. QED
    BY <2>1, <2>2, <2>3 DEF DevicesRight
<1>2. Init => SoughtInv
  BY DEF Init, SoughtInv, AhciSought, NicSought
<1>3. Spec => []SoughtInv
  BY <1>2, NextKeepsSought, PciInvariant, PTL DEF Spec
<1>4. QED
  BY <1>1, <1>3, PciInvariant, PTL

(* Letting a function master the bus changes two bits of its command word, *)
(* and neither its status nor another register nor another function.       *)
THEOREM EnablingKeepsRest == Spec => EnableKeepsRest
<1> DEFINE Kept == \A f \in DOMAIN cfg : \A i \in DOMAIN cfg[f] :
                     /\ i # 1 => cfg'[f][i] = cfg[f][i]
                     /\ cfg'[f][1][2] = cfg[f][1][2]
                     /\ \A b \in 0 .. 15 \ {0, 2} : Bit(cfg'[f][1][1], b) = Bit(cfg[f][1][1], b)
<1>1. ASSUME PciInv, [Next]_vars, cfg' # cfg PROVE Kept
  <2>1. PICK at \in DOMAIN cfg : EnableBusMastering(at)
    <3>1. CASE AhciFound
      BY <1>1, <3>1, Searches, FoundDevice DEF PciInv
    <3>2. CASE NicFound
      BY <1>1, <3>2, Searches, FoundDevice DEF PciInv
    <3>3. QED
      BY <1>1, <3>1, <3>2, PciMoves
  <2>2. ASSUME NEW f \in DOMAIN cfg, NEW i \in DOMAIN cfg[f]
        PROVE  /\ i # 1 => cfg'[f][i] = cfg[f][i]
               /\ cfg'[f][1][2] = cfg[f][1][2]
               /\ \A b \in 0 .. 15 \ {0, 2} : Bit(cfg'[f][1][1], b) = Bit(cfg[f][1][1], b)
    <3>1. CfgRight
      BY <1>1 DEF PciInv
    <3>2. CASE f # at
      BY <2>1, <3>1, <3>2, EnableIs
    <3>3. CASE f = at
      <4>1. i \in 0 .. 15 /\ cfg[f][1][1] \in Nat
        BY <3>1 DEF CfgRight
      <4>2. /\ \A j \in 0 .. 15 \ {1} : cfg'[f][j] = cfg[f][j]
            /\ cfg'[f][1] = <<Enabled(cfg[f][1][1]), cfg[f][1][2]>>
        BY <2>1, <3>1, <3>3, EnableIs
      <4>3. QED
        BY <4>1, <4>2, EnabledBits
    <3>4. QED
      BY <3>2, <3>3
  <2>3. QED
    BY <2>2
<1> HIDE DEF Kept
<1>2. ASSUME PciInv, [Next]_vars PROVE [cfg' # cfg => Kept]_cfg
  BY <1>1, <1>2
<1>3. QED
  BY <1>2, PciInvariant, PTL DEF Spec, EnableKeepsRest, Kept

-----------------------------------------------------------------------------
(* What is left of the types: the counter, the FILEs held, the last call.  *)
Pcs == BeforeNic \cup {"register_irq", "sti", "idle", "halted"}

FilesHeld == (\E S : files \in Seq(S)) /\ Len(files) <= MaxOpen

CallsInv ==
  /\ pc \in Pcs /\ sti \in BOOLEAN
  /\ superblock \in {"none", "read", "stale"} /\ io.ret \in {"ok", "error", "fault"}
  /\ FilesHeld

LEMMA PcStep == ASSUME [Next]_vars, pc \in Pcs PROVE pc' \in Pcs
<1>1. UNCHANGED vars => pc' = pc
  BY DEF vars
<1>2. Exceptions \/ Acpi \/ AcpiStops \/ Vfs \/ Devfs \/ AhciFound \/ AhciAbsent => pc' \in Pcs
  BY DEF Exceptions, Acpi, AcpiStops, Vfs, Devfs, AhciFound, AhciAbsent, Call, Pcs, BeforeNic
<1>3. HbaReady \/ InitPort \/ InitPortsReturns \/ Ext2 \/ Lapic \/ IoApic => pc' \in Pcs
  BY DEF HbaReady, InitPort, InitPortsReturns, Ext2, Lapic, IoApic, Call, Pcs, BeforeNic
<1>4. NicFound \/ NicAbsent \/ NicIrq \/ Sti \/ IrqCall \/ PowerOff => pc' \in Pcs
  BY DEF NicFound, NicAbsent, NicIrq, Sti, IrqCall, PowerOff, Call, Pcs
<1>5. FileCall => pc' \in Pcs
  BY DEF FileCall, Call, Pcs
<1>6. \A op, type : Block(op, type) => pc' \in Pcs
  BY DEF Block, Pcs
<1>7. QED
  BY <1>1, <1>2, <1>3, <1>4, <1>5, <1>6 DEF Next, BootStep

(* Interrupts are enabled by one call, and the block layer makes two.      *)
LEMMA CallMoves ==
  ASSUME [Next]_vars
  PROVE  /\ sti' = sti \/ Sti
         /\ UNCHANGED <<superblock, io>> \/ Ext2 \/ \E op, type : Block(op, type)
         /\ UNCHANGED files \/ FileCall
<1> DEFINE Same == sti' = sti /\ UNCHANGED <<superblock, io>>
<1>1. UNCHANGED vars => Same /\ UNCHANGED files
  BY DEF vars, platformVars, routing, bootVars, fileVars
<1>2. Exceptions \/ Acpi \/ AcpiStops => Same /\ UNCHANGED files
  BY DEF Exceptions, InitExceptions, Acpi, AcpiInit, AcpiStops, platformVars, routing, bootVars,
         fileVars
<1>3. Vfs \/ Devfs => Same /\ UNCHANGED files
  BY DEF Vfs, VfsInit, Devfs, DevfsInit, platformVars, routing, bootVars
<1>4. AhciFound \/ AhciAbsent \/ HbaReady => Same /\ UNCHANGED files
  BY DEF AhciFound, AhciAbsent, HbaReady, platformVars, routing, bootVars, fileVars
<1>5. InitPort => Same /\ UNCHANGED files
  BY DEF InitPort, DriveFound, NoDrive, platformVars, routing, bootVars
<1>6. InitPortsReturns => Same /\ UNCHANGED files
  BY DEF InitPortsReturns, PortsDone, platformVars, routing, bootVars
<1>7. Ext2 => sti' = sti /\ UNCHANGED files
  BY DEF Ext2, platformVars, routing, fileVars
<1>8. Lapic \/ IoApic => Same /\ UNCHANGED files
  BY DEF Lapic, LapicInit, IoApic, IoApicInit, bootVars, fileVars
<1>9. NicFound \/ NicAbsent => Same /\ UNCHANGED files
  BY DEF NicFound, NicAbsent, platformVars, routing, bootVars, fileVars
<1>10. NicIrq \/ IrqCall => Same /\ UNCHANGED files
  BY DEF NicIrq, IrqCall, RegisterIrq, MaskIrq, UnmaskIrq, bootVars, fileVars
<1>11. Sti => UNCHANGED <<superblock, io, files>>
  BY DEF Sti, bootVars, fileVars
<1>12. ASSUME NEW op, NEW type, Block(op, type) PROVE sti' = sti /\ UNCHANGED files
  BY <1>12 DEF Block, platformVars, routing, fileVars
<1>13. FileCall => Same
  BY DEF FileCall, platformVars, routing, bootVars
<1>14. PowerOff => Same /\ UNCHANGED files
  BY DEF PowerOff, AcpiPowerOff, routing, bootVars, fileVars
<1>15. QED
  BY <1>1, <1>2, <1>3, <1>4, <1>5, <1>6, <1>7, <1>8, <1>9, <1>10, <1>11, <1>12, <1>13, <1>14
  DEF Next, BootStep

LEMMA AppendType ==
  ASSUME NEW S, NEW s \in Seq(S), NEW x
  PROVE  Append(s, x) \in Seq(S \cup {x}) /\ Len(Append(s, x)) = Len(s) + 1
<1>1. s \in Seq(S \cup {x})
  OBVIOUS
<1>2. QED
  BY <1>1

LEMMA JoinType ==
  ASSUME NEW S, NEW s \in Seq(S), NEW t \in Seq(S)
  PROVE  s \o t \in Seq(S) /\ Len(s \o t) = Len(s) + Len(t)
OBVIOUS

LEMMA RemoveType ==
  ASSUME NEW S, NEW s \in Seq(S), NEW i \in 1 .. Len(s)
  PROVE  /\ SubSeq(s, 1, i - 1) \o SubSeq(s, i + 1, Len(s)) \in Seq(S)
         /\ Len(SubSeq(s, 1, i - 1) \o SubSeq(s, i + 1, Len(s))) = Len(s) - 1
<1> DEFINE before == SubSeq(s, 1, i - 1)
           after == SubSeq(s, i + 1, Len(s))
<1>1. before \in Seq(S) /\ Len(before) = i - 1
  OBVIOUS
<1>2. after \in Seq(S) /\ Len(after) = Len(s) - i
  OBVIOUS
<1> HIDE DEF before, after
<1>3. before \o after \in Seq(S) /\ Len(before \o after) = Len(before) + Len(after)
  BY <1>1, <1>2, JoinType
<1>4. Len(before \o after) = Len(s) - 1
  BY <1>1, <1>2, <1>3
<1>5. QED
  BY <1>3, <1>4 DEF before, after

LEMMA FileCallStep == ASSUME FilesHeld, FileCall PROVE FilesHeld'
<1>1. PICK S : files \in Seq(S)
  BY DEF FilesHeld
<1>2. Len(files) <= MaxOpen /\ Len(files) \in Nat /\ MaxOpen \in Nat
  BY <1>1, FilesAssumption DEF FilesHeld
<1>3. CASE UNCHANGED files
  BY <1>1, <1>2, <1>3 DEF FilesHeld
<1>4. CASE Len(files) < MaxOpen /\ \E n : files' = Append(files, n)
  <2>1. PICK n : files' = Append(files, n)
    BY <1>4
  <2>2. files' \in Seq(S \cup {n}) /\ Len(files') = Len(files) + 1
    BY <1>1, <2>1, AppendType
  <2>3. QED
    BY <1>2, <1>4, <2>2 DEF FilesHeld
<1>5. CASE \E i \in DOMAIN files : Fclose(i)
  <2>1. PICK i \in 1 .. Len(files) :
           files' = SubSeq(files, 1, i - 1) \o SubSeq(files, i + 1, Len(files))
    <3>1. DOMAIN files = 1 .. Len(files)
      BY <1>1
    <3>2. QED
      BY <1>5, <3>1, Zenon DEF Fclose
  <2>2. files' \in Seq(S) /\ Len(files') = Len(files) - 1
    BY <1>1, <2>1, RemoveType
  <2>3. QED
    BY <1>2, <2>2 DEF FilesHeld
<1>6. \A path, mode : Fopen(path, mode) =>
        UNCHANGED files \/ (Len(files) < MaxOpen /\ \E n : files' = Append(files, n))
  BY DEF Fopen
<1>7. \A path, mode : FopenFaults(path, mode) => UNCHANGED files
  BY DEF FopenFaults, fileVars
<1>8. QED
  BY <1>3, <1>4, <1>5, <1>6, <1>7 DEF FileCall

LEMMA NextKeepsCalls == ASSUME CallsInv, [Next]_vars PROVE CallsInv'
<1>1. pc' \in Pcs
  BY PcStep DEF CallsInv
<1>2. sti' \in BOOLEAN
  <2>1. Sti => sti' = TRUE
    BY DEF Sti
  <2>2. QED
    BY <2>1, CallMoves, Zenon DEF CallsInv
<1>3. superblock' \in {"none", "read", "stale"} /\ io'.ret \in {"ok", "error", "fault"}
  <2>1. \A op, type, found : Answer(op, type, found).ret \in {"ok", "error", "fault"}
    BY DEF Answer
  <2>2. CASE UNCHANGED <<superblock, io>>
    BY <2>2 DEF CallsInv
  <2>3. CASE Ext2
    BY <2>1, <2>3 DEF Ext2
  <2>4. CASE \E op, type : Block(op, type)
    BY <2>1, <2>4 DEF Block, CallsInv
  <2>5. QED
    BY <2>2, <2>3, <2>4, CallMoves
<1>4. FilesHeld'
  <2>1. UNCHANGED files => FilesHeld'
    BY DEF CallsInv, FilesHeld
  <2>2. QED
    BY <2>1, CallMoves, FileCallStep DEF CallsInv
<1>5. QED
  BY <1>1, <1>2, <1>3, <1>4 DEF CallsInv

LEMMA CallsInvariant == Spec => []CallsInv
<1>1. ASSUME Init PROVE CallsInv
  <2>1. FilesHeld
    <3>1. files = <<>> /\ MaxOpen \in Nat
      BY <1>1, FilesAssumption DEF Init, FilesInit
    <3>2. files \in Seq({}) /\ Len(files) = 0
      BY <3>1
    <3>3. QED
      BY <3>1, <3>2 DEF FilesHeld
  <2>2. QED
    BY <1>1, <2>1 DEF Init, PlatformInit, NoIo, CallsInv, Pcs, BeforeNic
<1>2. QED
  BY <1>1, NextKeepsCalls, PTL DEF Spec

(* Type correctness.                                                       *)
THEOREM TypeCorrect == Spec => []TypeOK
<1>1. ASSUME RoutingInv, SleepInv, FilesInv, CallsInv PROVE TypeOK
  <2>1. /\ DOMAIN idt \subseteq 0 .. 255 /\ lines \subseteq 0 .. 255
        /\ timer_vector \in {-1, 0} \cup 129 .. 254 /\ next_vec \in 129 .. 255
    <3>1. irq_line \in 0 .. 255
      BY <1>1, LineByte DEF RoutingInv, LineRight
    <3>2. QED
      BY <1>1, <3>1, SMTT(30) DEF RoutingInv, VectorsRight, IdtRight, LineRight
  <2>2. \A g \in DOMAIN redir : redir[g] \in 0 .. 255 \cup {Nothing}
    BY <1>1, Zenon DEF RoutingInv, RedirRight
  <2>3. slp \in [en : {0, 1}, a : 0 .. 255, b : 0 .. 255]
    BY <1>1 DEF SleepInv, SlpRight
  <2>4. \A n \in DOMAIN children : \A e \in children[n] : e.node \in nodes
    BY <1>1 DEF FilesInv, Links, Made
  <2>5. port \in 0 .. NPorts /\ drive_count \in 0 .. port /\ main_drive \in sata \cup {None}
    BY <1>1 DEF FilesInv, Looked
  <2>6. /\ pc \in Pcs /\ sti \in BOOLEAN /\ Len(files) <= MaxOpen
        /\ superblock \in {"none", "read", "stale"} /\ io.ret \in {"ok", "error", "fault"}
    BY <1>1 DEF CallsInv, FilesHeld
  <2>7. /\ sti \in BOOLEAN /\ Len(files) <= MaxOpen
        /\ superblock \in {"none", "read", "stale"} /\ io.ret \in {"ok", "error", "fault"}
    BY <2>6
  <2>8. pc \in {"init_exceptions", "acpi_init", "vfs_init", "devfs_init", "ahci_init",
               "take_ownership", "init_ports", "ext2_init", "lapic_init", "ioapic_init",
               "rtl8139_init", "register_irq", "sti", "idle", "halted"}
    BY <2>6 DEF Pcs, BeforeNic
  <2>9. QED
    BY <2>1, <2>2, <2>3, <2>4, <2>5, <2>7, <2>8 DEF TypeOK
<1>2. QED
  BY <1>1, RoutingInvariant, SleepInvariant, FilesInvariant, CallsInvariant, PTL
=============================================================================
