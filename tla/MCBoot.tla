------------------------------- MODULE MCBoot -------------------------------
(***************************************************************************)
(* Machines for Boot: a PC like QEMU's with its line overrides, firmware   *)
(* with two I/O APICs, with a sleep object the parser cannot read, without *)
(* one and with a bad checksum; PCI configurations with both devices, with *)
(* decoys before them, and with neither.                                   *)
(***************************************************************************)
EXTENDS Boot, TLC

Table(sig) == [sig |-> sig, ok |-> TRUE]

Override(source, interrupt) ==
  [type |-> "override", source |-> source, interrupt |-> interrupt]
IoApicAt(addr) == [type |-> "ioapic", addr |-> addr]
Cpu == [type |-> "lapic"]

(* The bytes of an integer element of a package.                           *)
Integer(n) == IF n < 2 THEN <<n>> ELSE <<BytePrefix, n>>

Package(a, b) == Integer(a) \o Integer(b) \o <<0, 0, 0, 0>>

Pc == [tables |-> <<Table("FACP"), Table("APIC"), Table("HPET"), Table("APIC")>>, ok |-> TRUE,
       madt |-> <<Cpu, IoApicAt(1), Override(0, 2), Override(9, 9), Override(0, 3)>>,
       dsdt |-> <<0, NameOp, NameS5, PackageOp, 6, 4>> \o Package(0, 5),
       s5 |-> <<0, 5>>, plain |-> TRUE, pm1b |-> TRUE]

(* A name with the root prefix, the tables in another order.               *)
Rooted == [Pc EXCEPT !.tables = <<Table("APIC"), Table("SSDT"), Table("FACP")>>,
                     !.madt = <<IoApicAt(1), IoApicAt(2), Override(11, 16)>>,
                     !.dsdt = <<NameOp, RootChar, NameS5, PackageOp, 10, 4>> \o Package(7, 1),
                     !.s5 = <<7, 1>>, !.pm1b = FALSE]

(* "_S5_" as part of another object, and a package length of two bytes.    *)
Mentioned == [Pc EXCEPT !.dsdt = <<0, 0, NameS5, 0, 0, 0, NameOp, NameS5, PackageOp, 6, 4>>
                                   \o Package(5, 5), !.plain = FALSE]
LongPackage == [Pc EXCEPT !.dsdt = <<0, NameOp, NameS5, PackageOp, 70, 1, 4>> \o Package(5, 5),
                          !.plain = FALSE]

NoSleep == [Pc EXCEPT !.dsdt = <<0, 0, 0>>, !.plain = FALSE]
NoMadt == [Pc EXCEPT !.tables = <<Table("FACP")>>]
BadFadt == [Pc EXCEPT !.tables = <<[sig |-> "FACP", ok |-> FALSE], Table("APIC")>>]

SomeFirmwares == {Pc, Rooted, Mentioned, LongPackage, NoSleep, NoMadt, BadFadt}

(* A function: its ids, class code, command and status words; the base     *)
(* registers hold numbers of their own.                                    *)
Function(vendor, device, class, command) ==
  [i \in 0 .. 15 |->
     CASE i = 0 -> <<vendor, device>>
       [] i = 1 -> <<command, 656>>
       [] i = 2 -> <<256, class>>
       [] OTHER -> <<64 * i + 1, 64 * i + 2>>]

Nic == Function(4332, 33081, 512, 256)
Hba == Function(32902, 10530, 262, 7)
OtherNic == Function(4332, 33129, 512, 0)
Ide == Function(32902, 10530, 257, 5)

SomeConfigs ==
  {(<<0, 2, 0>> :> Nic) @@ (<<0, 31, 2>> :> Hba),
   (<<0, 1, 1>> :> Ide) @@ (<<0, 3, 0>> :> OtherNic) @@ (<<1, 0, 0>> :> Nic)
     @@ (<<1, 0, 1>> :> Hba) @@ (<<1, 2, 0>> :> Hba),
   (<<0, 1, 1>> :> Ide) @@ (<<5, 0, 0>> :> Nic)}

(* A real line, one that aliases GSI 5, one without an entry, one whose    *)
(* vector wraps to that of the page fault; and one that has line 0's entry *)
(* by the override 0 -> 2, and one by the cut of the register number.      *)
SomeHeapBytes == {11, 133, 200, 238, 2, 130}

Path(comps, dir) == [abs |-> TRUE, comps |-> comps, dir |-> dir]
SomePaths ==
  {Path(<<Dev, <<"sda">>>>, FALSE), Path(<<Dev, <<"sda", 1>>>>, FALSE),
   Path(<<Dev, <<"sda", 1>>>>, TRUE), Path(<<Dev, <<"usb">>>>, TRUE),
   Path(<<Dev>>, FALSE), Path(<<<<"d">>>>, FALSE), Path(<<>>, TRUE),
   Path(<<Dev, <<"sd">>>>, FALSE), Path(<<<<"usb">>, <<"sda">>>>, FALSE),
   Path(<<Dev, <<"sda">>, <<"usb">>>>, FALSE),
   [abs |-> FALSE, comps |-> <<Dev>>, dir |-> FALSE]}
SomeStems ==
  {<<<<"sd">>, <<"sda">>>>, <<<<"sd">>, <<"sda", 1>>>>, <<<<"d">>, Dev>>}
    \cup {<<<<"sda">>, <<"sda", n>>>> : n \in 1 .. 3}
    \cup {<<<<"sda", 1>>, <<"sda", n>>>> : n \in 2 .. 3}
SomePopulations == {{}, {1}, {0, 2}, 0 .. 3}

Class16 == <<1, 6>>
Ids == <<4332, 33081>>
=============================================================================
