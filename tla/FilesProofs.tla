----------------------------- MODULE FilesProofs -----------------------------
(***************************************************************************)
(* Proofs about the file name space of Boot: the tree under /dev stays in  *)
(* step with the drives the AHCI driver found, and a path leads to no node *)
(* of another name, for any number of ports, radix and paths.              *)
(***************************************************************************)
EXTENDS Boot, FiniteSetTheorems, WellFoundedInduction, TLAPS

(* A non-empty set of naturals has a least element.                        *)
LEMMA LeastOf ==
  ASSUME NEW S \in SUBSET Nat, S # {}
  PROVE  \E x \in S : \A y \in S : x <= y
<1>1. PICK x \in S : \A y \in S : ~(<<y, x>> \in OpToRel(<, Nat))
  BY NatLessThanWellFounded, WFMin
<1>2. \A y \in S : ~(y < x)
  BY <1>1, Zenon DEF OpToRel
<1>3. QED
  BY <1>2

-----------------------------------------------------------------------------
(* Walked is a function defined by recursion on the components; that there *)
(* is one is shown from a least prefix that has none.                      *)
Steps(f, comps, n) ==
  f = [i \in 0 .. n |-> IF i = 0 THEN Root ELSE Below(f[i - 1], comps[i])]

LEMMA StepsExist ==
  ASSUME NEW comps, NEW n \in Nat
  PROVE  \E f : Steps(f, comps, n)
<1> DEFINE T == {k \in Nat : ~\E f : Steps(f, comps, k)}
<1> SUFFICES ASSUME T # {} PROVE FALSE
  OBVIOUS
<1>1. PICK k \in T : \A j \in T : k <= j
  BY LeastOf
<1>2. CASE k = 0
  <2>1. Steps([i \in 0 .. k |-> Root], comps, k)
    BY <1>2 DEF Steps
  <2>2. QED
    BY <1>1, <2>1
<1>3. CASE k # 0
  <2>1. k - 1 \in Nat /\ k - 1 \notin T /\ k \in Nat
    BY <1>1, <1>3
  <2>2. PICK f : Steps(f, comps, k - 1)
    BY <2>1
  <2> DEFINE g == [i \in 0 .. k |-> IF i = k THEN Below(f[k - 1], comps[k]) ELSE f[i]]
  <2>3. \A i \in 0 .. k - 1 : g[i] = f[i]
    BY <2>1
  <2>4. \A i \in 0 .. k : g[i] = IF i = 0 THEN Root ELSE Below(g[i - 1], comps[i])
    <3> TAKE i \in 0 .. k
    <3>1. CASE i = k
      BY <1>3, <2>1, <2>3, <3>1
    <3>2. CASE i # k
      <4>1. i \in 0 .. k - 1 /\ (i # 0 => i - 1 \in 0 .. k - 1)
        BY <2>1, <3>2
      <4>2. f[i] = IF i = 0 THEN Root ELSE Below(f[i - 1], comps[i])
        BY <2>2, <4>1 DEF Steps
      <4>3. QED
        BY <2>3, <4>1, <4>2
    <3>3. QED
      BY <3>1, <3>2
  <2>5. Steps(g, comps, k)
    BY <2>4 DEF Steps
  <2>6. QED
    BY <1>1, <2>5
<1>4. QED
  BY <1>2, <1>3

LEMMA StepsLast ==
  ASSUME NEW f, NEW comps, NEW n \in Nat, Steps(f, comps, n)
  PROVE  f[n] = IF n = 0 THEN Root ELSE Below(f[n - 1], comps[n])
<1>1. n \in 0 .. n
  OBVIOUS
<1>2. QED
  BY <1>1, Zenon DEF Steps

LEMMA WalkedLast ==
  ASSUME NEW comps, Len(comps) \in Nat
  PROVE  /\ Len(comps) = 0 => Walked(comps) = Root
         /\ Len(comps) # 0 => \E n : Walked(comps) = Below(n, comps[Len(comps)])
<1> DEFINE at == CHOOSE f : f = [i \in 0 .. Len(comps) |->
                                   IF i = 0 THEN Root ELSE Below(f[i - 1], comps[i])]
<1>1. Walked(comps) = at[Len(comps)]
  BY DEF Walked
<1>2. Steps(at, comps, Len(comps))
  BY StepsExist DEF Steps
<1> HIDE DEF at
<1>3. Walked(comps) =
        IF Len(comps) = 0 THEN Root ELSE Below(at[Len(comps) - 1], comps[Len(comps)])
  BY <1>1, <1>2, StepsLast
<1>4. QED
  BY <1>3

-----------------------------------------------------------------------------
(* The inductive invariant: what the entries of the two maps are.  Only    *)
(* the first drive has a literal key; the keys of the others all point to  *)
(* the one buffer, which is blank between two drives.                      *)
DevEntry == [key |-> Dev, len |-> 3, node |-> Dev]

FirstEntry == [key |-> DriveName(0), len |-> 3, node |-> DriveName(0)]

BufferEntries ==
  {[key |-> Buffer, len |-> NameLen(DriveName(n)), node |-> DriveName(n)] : n \in 1 .. NPorts}

Links ==
  /\ children = [n \in {Root, Dev} |-> children[n]]
  /\ children[Root] \subseteq {DevEntry}
  /\ children[Dev] \subseteq {FirstEntry} \cup BufferEntries
  /\ \A e, f \in children[Dev] : e.len = f.len => e = f
  /\ drive_id = Blank

(* Every port below port has been looked at.                               *)
Looked ==
  /\ sata \subseteq 0 .. NPorts - 1
  /\ port \in 0 .. NPorts /\ drive_count \in 0 .. port
  /\ main_drive \in sata \cup {None}
  /\ main_drive = None <=> drive_count = 0
  /\ main_drive = None => \A p \in sata : port <= p
  /\ main_drive # None => \A p \in sata : main_drive <= p

FirstThere == FirstEntry \in children[Dev] <=> drive_count # 0

Made == \A n \in {Root, Dev} : \A e \in children[n] : e.node \in nodes

FilesInv == Links /\ Looked /\ FirstThere /\ Made

-----------------------------------------------------------------------------
LEMMA NameLens ==
  /\ NameLen(Dev) = 3 /\ NameLen(DriveName(0)) = 3
  /\ \A n \in 1 .. NPorts : NameLen(DriveName(n)) \in Nat /\ NameLen(DriveName(n)) > 3
<1>1. NameLen(Dev) = 3 /\ NameLen(DriveName(0)) = 3
  BY DEF NameLen, Dev, DriveName
<1>2. ASSUME NEW n \in 1 .. NPorts
      PROVE  NameLen(DriveName(n)) \in Nat /\ NameLen(DriveName(n)) > 3
  <2> DEFINE ds == {d \in 1 .. 5 : n >= Radix ^ d}
  <2>1. NameLen(DriveName(n)) = 4 + Cardinality(ds)
    <3>1. DriveName(n) = <<"sda", n>>
      BY FilesAssumption DEF DriveName
    <3>2. QED
      BY <3>1 DEF NameLen
  <2>2. IsFiniteSet(1 .. 5)
    <3>1. 1 \in Int /\ 5 \in Int
      OBVIOUS
    <3>2. QED
      BY <3>1, FS_Interval, Zenon
  <2>3. Cardinality(ds) \in Nat
    BY <2>2, FS_Subset, FS_CardinalityType
  <2>4. QED
    BY <2>1, <2>3
<1>3. QED
  BY <1>1, <1>2

LEMMA NamesDiffer ==
  /\ Root # Dev /\ Buffer # Dev /\ Buffer # DriveName(0) /\ Buffer # Blank
  /\ DriveName(0) # Missing /\ Dev # Blank /\ DriveName(0) # Blank
  /\ \A n \in 1 .. NPorts : DriveName(n) # DriveName(0)
  BY FilesAssumption DEF Root, Dev, Buffer, Blank, Missing, DriveName

(* No two entries below are one: neither by key nor by length.             *)
LEMMA EntryKinds ==
  ASSUME NEW e \in {FirstEntry} \cup BufferEntries
  PROVE  /\ e = FirstEntry <=> e.len = 3
         /\ e # FirstEntry => e.key = Buffer /\ e.len > 3
         /\ e.len \in Nat
         /\ e = FirstEntry => e.key = DriveName(0) /\ e.node = DriveName(0)
<1>1. FirstEntry.len = 3 /\ FirstEntry.key = DriveName(0) /\ FirstEntry.node = DriveName(0)
  BY DEF FirstEntry
<1>2. CASE e \in BufferEntries
  <2>1. PICK n \in 1 .. NPorts :
           e = [key |-> Buffer, len |-> NameLen(DriveName(n)), node |-> DriveName(n)]
    BY <1>2 DEF BufferEntries
  <2>2. e.len = NameLen(DriveName(n)) /\ e.key = Buffer
    BY <2>1
  <2>3. QED
    BY <1>1, <2>2, NameLens
<1>3. QED
  BY <1>1, <1>2

-----------------------------------------------------------------------------
(* One step for each action on the tree or the drives.                     *)
LEMMA FilesInitInv == ASSUME FilesInit PROVE FilesInv
<1>1. /\ children = [n \in {Root, Dev} |-> {}] /\ drive_id = Blank
      /\ children[Root] = {} /\ children[Dev] = {}
  BY DEF FilesInit
<1>2. Links /\ FirstThere /\ Made
  BY <1>1 DEF FilesInit, Links, FirstThere, Made
<1>3. Looked
  BY FilesAssumption DEF FilesInit, Looked
<1>4. QED
  BY <1>2, <1>3 DEF FilesInv

LEMMA FilesUnchanged ==
  ASSUME FilesInv, UNCHANGED <<children, nodes, drive_id, sata, port, main_drive, drive_count>>
  PROVE  FilesInv'
BY DEF FilesInv, Links, FirstThere, Made, Looked

LEMMA VfsInitStep == ASSUME FilesInv, VfsInit PROVE FilesInv'
<1>1. /\ UNCHANGED <<children, drive_id, sata, port, main_drive, drive_count>>
      /\ nodes \subseteq nodes'
  BY DEF VfsInit, drives
<1>2. Links' /\ FirstThere' /\ Made' /\ Looked'
  BY <1>1 DEF FilesInv, Links, FirstThere, Made, Looked
<1>3. QED
  BY <1>2 DEF FilesInv

LEMMA DevfsInitStep == ASSUME FilesInv, DevfsInit PROVE FilesInv'
<1>1. /\ UNCHANGED <<drive_id, sata, port, main_drive, drive_count>>
      /\ nodes' = nodes \cup {Dev}
      /\ children' = [children EXCEPT ![Root] =
           {e \in @ : ~Matches(e, Dev, drive_id)} \cup {DevEntry}]
  BY NameLens DEF DevfsInit, MakeNode, drives, DevEntry
<1>2. children = [n \in {Root, Dev} |-> children[n]] /\ children[Root] \subseteq {DevEntry}
  BY DEF FilesInv, Links
<1>3. /\ children' = [n \in {Root, Dev} |-> children'[n]]
      /\ children'[Dev] = children[Dev] /\ children'[Root] \subseteq {DevEntry}
  BY <1>1, <1>2, NamesDiffer
<1>4. Made'
  BY <1>1, <1>3 DEF FilesInv, Made, DevEntry
<1>5. Links' /\ FirstThere' /\ Looked'
  BY <1>1, <1>3 DEF FilesInv, Links, FirstThere, Looked
<1>6. QED
  BY <1>4, <1>5 DEF FilesInv

LEMMA NoDriveStep == ASSUME FilesInv, NoDrive PROVE FilesInv'
<1>1. /\ UNCHANGED <<children, nodes, drive_id, sata, main_drive, drive_count>>
      /\ port \in 0 .. NPorts - 1 /\ port \notin sata /\ port' = port + 1
  BY DEF NoDrive, tree
<1>2. Looked'
  BY <1>1, FilesAssumption DEF FilesInv, Looked
<1>3. Links' /\ FirstThere' /\ Made'
  BY <1>1 DEF FilesInv, Links, FirstThere, Made
<1>4. QED
  BY <1>2, <1>3 DEF FilesInv

LEMMA PortsDoneStep == ASSUME FilesInv, PortsDone PROVE FilesInv'
<1>1. UNCHANGED <<children, nodes, drive_id, sata, port, main_drive, drive_count>>
  BY DEF PortsDone, tree
<1>2. QED
  BY <1>1, FilesUnchanged

(* A drive: the first gets a literal key, any other takes over the entry   *)
(* of the one whose name is as long, as the buffer now reads as its own.   *)
LEMMA DriveFoundStep == ASSUME FilesInv, DriveFound PROVE FilesInv'
<1> DEFINE name == DriveName(drive_count)
           key == IF drive_count = 0 THEN DriveName(0) ELSE Buffer
           buffer == IF drive_count = 0 THEN drive_id ELSE name
           new == [key |-> key, len |-> NameLen(name), node |-> name]
           rest == {e \in children[Dev] : ~Matches(e, name, buffer)}
<1>1. /\ port \in sata /\ drive_id' = Blank /\ UNCHANGED sata
      /\ main_drive' = IF main_drive = None THEN port ELSE main_drive
      /\ drive_count' = drive_count + 1 /\ port' = port + 1
  BY DEF DriveFound
<1>2. Looked'
  BY <1>1, FilesAssumption DEF FilesInv, Looked
<1>3. /\ nodes' = nodes \cup {name}
      /\ children' = [children EXCEPT ![Dev] = {e \in @ : ~Matches(e, name, buffer)} \cup {new}]
  BY DEF DriveFound, MakeNode
<1>4. drive_count \in 0 .. NPorts - 1
  BY <1>1, FilesAssumption DEF FilesInv, Looked
<1>5. /\ new \in {FirstEntry} \cup BufferEntries
      /\ new = FirstEntry <=> drive_count = 0
      /\ new.len = NameLen(name) /\ new.node = name
  <2>1. CASE drive_count = 0
    BY <2>1, NameLens DEF FirstEntry
  <2>2. CASE drive_count # 0
    <3>1. drive_count \in 1 .. NPorts
      BY <1>4, <2>2, FilesAssumption
    <3>2. new \in BufferEntries /\ new.len > 3 /\ new.len = NameLen(name) /\ new.node = name
      BY <2>2, <3>1, NameLens DEF BufferEntries
    <3>3. new # FirstEntry
      BY <3>2, EntryKinds
    <3>4. QED
      BY <2>2, <3>2, <3>3
  <2>3. QED
    BY <2>1, <2>2
<1>6. /\ children = [n \in {Root, Dev} |-> children[n]]
      /\ children[Dev] \subseteq {FirstEntry} \cup BufferEntries
      /\ \A e, f \in children[Dev] : e.len = f.len => e = f
      /\ FirstEntry \in children[Dev] <=> drive_count # 0
  BY DEF FilesInv, Links, FirstThere
<1>7. \A e \in rest : e.len # new.len
  <2> SUFFICES ASSUME NEW e \in children[Dev], e.len = new.len
               PROVE  Matches(e, name, buffer)
    OBVIOUS
  <2> HIDE DEF new
  <2>1. drive_count # 0
    BY <1>5, <1>6, EntryKinds
  <2>2. e.key = Buffer /\ e.len = NameLen(name)
    BY <1>5, <1>6, <2>1, EntryKinds
  <2>3. QED
    BY <2>1, <2>2 DEF Matches, Content
<1> HIDE DEF new, name, key, buffer
<1>8. /\ children' = [n \in {Root, Dev} |-> children'[n]]
      /\ children'[Root] = children[Root] /\ children'[Dev] = rest \cup {new}
  BY <1>3, <1>6, NamesDiffer
<1>9. FirstThere'
  <2>1. drive_count' # 0
    BY <1>1, <1>4
  <2>2. CASE drive_count = 0
    BY <1>5, <1>8, <2>1, <2>2 DEF FirstThere
  <2>3. CASE drive_count # 0
    <3>1. drive_count \in 1 .. NPorts
      BY <1>4, <2>3, FilesAssumption
    <3>2. FirstEntry \in children[Dev] /\ FirstEntry.len = 3 /\ NameLen(name) > 3
      BY <1>6, <2>3, <3>1, NameLens DEF FirstEntry, name
    <3>3. ~Matches(FirstEntry, name, buffer)
      BY <3>2 DEF Matches
    <3>4. QED
      BY <1>8, <2>1, <3>2, <3>3 DEF FirstThere
  <2>4. QED
    BY <2>2, <2>3
<1>10. Made'
  <2>1. \A n \in {Root, Dev} : \A e \in children'[n] : e.node \in nodes'
    BY <1>3, <1>5, <1>8, NamesDiffer DEF FilesInv, Made
  <2>2. QED
    BY <2>1 DEF Made
<1>11. Links'
  <2>1. /\ children'[Root] \subseteq {DevEntry}
        /\ children'[Dev] \subseteq {FirstEntry} \cup BufferEntries
    BY <1>5, <1>6, <1>8 DEF FilesInv, Links
  <2>2. \A e, f \in children'[Dev] : e.len = f.len => e = f
    BY <1>6, <1>7, <1>8
  <2>3. QED
    BY <1>1, <1>8, <2>1, <2>2 DEF Links
<1>12. QED
  BY <1>2, <1>9, <1>10, <1>11 DEF FilesInv

-----------------------------------------------------------------------------
LEMMA NextKeepsFiles == ASSUME FilesInv, [Next]_vars PROVE FilesInv'
<1>1. CASE UNCHANGED fileVars
  <2>1. UNCHANGED <<children, nodes, drive_id, sata, port, main_drive, drive_count>>
    BY <1>1 DEF fileVars, tree, drives
  <2>2. QED
    BY <2>1, FilesUnchanged
<1>2. CASE UNCHANGED vars
  <2>1. UNCHANGED fileVars
    BY <1>2 DEF vars
  <2>2. QED
    BY <1>1, <2>1
<1>3. CASE BootStep
  <2>1. CASE Vfs
    BY <2>1, VfsInitStep DEF Vfs
  <2>2. CASE Devfs
    BY <2>2, DevfsInitStep DEF Devfs
  <2>3. CASE InitPort
    BY <2>3, DriveFoundStep, NoDriveStep DEF InitPort
  <2>4. CASE InitPortsReturns
    BY <2>4, PortsDoneStep DEF InitPortsReturns
  <2>5. ASSUME \/ Exceptions \/ Acpi \/ AcpiStops \/ AhciFound \/ AhciAbsent \/ HbaReady
               \/ Ext2 \/ Lapic \/ IoApic \/ NicFound \/ NicAbsent \/ NicIrq \/ Sti
        PROVE  UNCHANGED fileVars
    BY <2>5 DEF Exceptions, Acpi, AcpiStops, AhciFound, AhciAbsent, HbaReady, Ext2, Lapic,
                IoApic, NicFound, NicAbsent, NicIrq, Sti
  <2>6. QED
    BY <1>1, <1>3, <2>1, <2>2, <2>3, <2>4, <2>5 DEF BootStep
<1>4. ASSUME NEW op, NEW type, Block(op, type) PROVE UNCHANGED fileVars
  BY <1>4 DEF Block
<1>5. CASE FileCall
  <2>1. UNCHANGED <<tree, drives, sata>>
    BY <1>5 DEF FileCall, Fopen, FopenFaults, Fclose, fileVars
  <2>2. UNCHANGED <<children, nodes, drive_id, sata, port, main_drive, drive_count>>
    BY <2>1 DEF tree, drives
  <2>3. QED
    BY <2>2, FilesUnchanged
<1>6. ASSUME IrqCall \/ PowerOff PROVE UNCHANGED fileVars
  BY <1>6 DEF IrqCall, PowerOff
<1>7. QED
  BY <1>1, <1>2, <1>3, <1>4, <1>5, <1>6 DEF Next

(* The invariant, from which the properties below follow.                  *)
THEOREM FilesInvariant == Spec => []FilesInv
<1>1. Init => FilesInv
  BY FilesInitInv DEF Init
<1>2. QED
  BY <1>1, NextKeepsFiles, PTL DEF Spec

-----------------------------------------------------------------------------
(* No two entries of /dev have names of one length, however many ports the *)
(* controller has and in whatever base they are counted: a lookup in a map *)
(* of at most eight entries sees them all.                                 *)
LEMMA EntriesApart ==
  Spec => [](\A e, f \in children[Dev] : e.len = f.len => e = f)
<1>1. FilesInv => \A e, f \in children[Dev] : e.len = f.len => e = f
  BY DEF FilesInv, Links
<1>2. QED
  BY <1>1, FilesInvariant, PTL

-----------------------------------------------------------------------------
(* What a block call that succeeds went to.                                *)
FirstDrive(p) == p \in sata /\ \A q \in sata : p <= q

IoRight == io.ret = "ok" /\ io.type = "HDD" => FirstDrive(io.asked)

LEMMA IoMoves ==
  ASSUME [Next]_vars
  PROVE  /\ sata' = sata
         /\ io' = io \/ \E op, type, found : io' = Answer(op, type, found)
<1> DEFINE Same == sata' = sata /\ io' = io
<1>1. UNCHANGED vars => Same
  BY DEF vars, fileVars, bootVars
<1>2. Exceptions \/ Acpi \/ AcpiStops \/ AhciAbsent \/ HbaReady => Same
  BY DEF Exceptions, Acpi, AcpiStops, AhciAbsent, HbaReady, fileVars, bootVars
<1>3. Vfs \/ Devfs => Same
  BY DEF Vfs, Devfs, VfsInit, DevfsInit, bootVars
<1>4. AhciFound \/ NicFound => Same
  BY DEF AhciFound, NicFound, fileVars
<1>5. InitPort \/ InitPortsReturns => Same
  BY DEF InitPort, InitPortsReturns, DriveFound, NoDrive, PortsDone, bootVars
<1>6. Lapic \/ IoApic \/ NicAbsent \/ NicIrq \/ Sti \/ IrqCall \/ PowerOff => Same
  BY DEF Lapic, IoApic, NicAbsent, NicIrq, Sti, IrqCall, PowerOff, fileVars, bootVars
<1>7. FileCall => Same
  BY DEF FileCall, Fopen, FopenFaults, Fclose, fileVars, bootVars
<1>8. Ext2 => sata' = sata /\ \E found : io' = Answer("read", "HDD", found)
  BY DEF Ext2, fileVars
<1>9. \A op, type : Block(op, type) => sata' = sata /\ \E found : io' = Answer(op, type, found)
  BY DEF Block, fileVars
<1>10. QED
  BY <1>1, <1>2, <1>3, <1>4, <1>5, <1>6, <1>7, <1>8, <1>9 DEF Next, BootStep

LEMMA AnswerIs ==
  ASSUME FilesInv, NEW op, NEW type, NEW found,
         Answer(op, type, found).ret = "ok", Answer(op, type, found).type = "HDD"
  PROVE  FirstDrive(Answer(op, type, found).asked)
<1>1. found # Missing
  BY DEF Answer
<1>2. type = "HDD" /\ main_drive # None /\ Answer(op, type, found).asked = main_drive
  BY <1>1 DEF Answer
<1>3. QED
  BY <1>2 DEF FirstDrive, FilesInv, Looked

LEMMA NextKeepsIo == ASSUME FilesInv, IoRight, [Next]_vars PROVE IoRight'
<1>1. sata' = sata
  BY IoMoves
<1>2. CASE io' = io
  BY <1>1, <1>2 DEF IoRight, FirstDrive
<1>3. CASE \E op, type, found : io' = Answer(op, type, found)
  <2>1. PICK op, type, found : io' = Answer(op, type, found)
    BY <1>3
  <2>2. io'.ret = "ok" /\ io'.type = "HDD" => FirstDrive(io'.asked)
    BY <2>1, AnswerIs
  <2>3. QED
    BY <1>1, <2>2 DEF IoRight, FirstDrive
<1>4. QED
  BY <1>2, <1>3, IoMoves

(* The block layer finds "sda" exactly when the driver has a main drive,   *)
(* which is the first, and what it reads and writes with success it does   *)
(* there, however many ports the controller has.                           *)
THEOREM DrivesAreRegistered == Spec => []DrivesRegistered
<1>1. ASSUME FilesInv, IoRight PROVE DrivesRegistered
  <2> DEFINE found == {e \in children[Dev] : Matches(e, DriveName(0), drive_id)}
  <2>1. ASSUME NEW e \in found PROVE e = FirstEntry
    <3>1. e.len = 3
      BY NameLens DEF Matches
    <3>2. QED
      BY <1>1, <3>1, EntryKinds DEF FilesInv, Links
  <2>2. Matches(FirstEntry, DriveName(0), drive_id)
    BY NameLens, NamesDiffer DEF Matches, Content, FirstEntry
  <2>3. FirstEntry.node # Missing
    BY NamesDiffer DEF FirstEntry
  <2>4. Child(Dev, DriveName(0)) = IF found = {} THEN Missing ELSE (CHOOSE e \in found : TRUE).node
    BY DEF Child
  <2>5. (FirstEntry \in children[Dev]) <=> found # {}
    BY <2>1, <2>2
  <2>6. (Child(Dev, DriveName(0)) # Missing) <=> FirstEntry \in children[Dev]
    BY <2>1, <2>3, <2>4, <2>5
  <2>7. (Child(Dev, DriveName(0)) # Missing) <=> main_drive # None
    BY <1>1, <2>6 DEF FilesInv, Looked, FirstThere
  <2>8. main_drive # None => FirstDrive(main_drive)
    BY <1>1 DEF FilesInv, Looked, FirstDrive
  <2>9. QED
    BY <1>1, <2>7, <2>8 DEF DrivesRegistered, IoRight, FirstDrive
<1>2. Init => IoRight
  BY DEF Init, NoIo, IoRight
<1>3. Spec => []IoRight
  BY <1>2, NextKeepsIo, FilesInvariant, PTL DEF Spec
<1>4. QED
  BY <1>1, <1>3, FilesInvariant, PTL

LEMMA ChildName ==
  ASSUME FilesInv, NEW n \in {Root, Dev}, NEW name, name # Blank
  PROVE  Child(n, name) \in {Missing, name}
<1> DEFINE found == {e \in children[n] : Matches(e, name, drive_id)}
<1>1. ASSUME NEW e \in found PROVE e.node = name
  <2>1. (IF e.key = Buffer THEN Blank ELSE e.key) = name
    BY DEF Matches, Content, FilesInv, Links
  <2>2. e \in {DevEntry, FirstEntry} \cup BufferEntries
    BY DEF FilesInv, Links
  <2>3. e.key # Buffer
    BY <2>1
  <2>4. e \in {DevEntry, FirstEntry}
    BY <2>2, <2>3 DEF BufferEntries
  <2>5. QED
    BY <2>1, <2>3, <2>4 DEF DevEntry, FirstEntry
<1>2. Child(n, name) = IF found = {} THEN Missing ELSE (CHOOSE e \in found : TRUE).node
  BY DEF Child
<1>3. QED
  BY <1>1, <1>2

LEMMA ReadingsEnd ==
  ASSUME NEW path \in Paths, NEW comps \in Readings(path)
  PROVE  Len(comps) \in Nat /\ (Len(comps) # 0 => comps[Len(comps)] # Blank)
<1> DEFINE C == {path.comps[i] : i \in DOMAIN path.comps}
<1>1. path.comps \in Seq(C) /\ \A i \in DOMAIN path.comps : path.comps[i] # Blank
  BY PathsAssumption
<1> HIDE DEF C
<1>2. CASE comps = path.comps
  BY <1>1, <1>2
<1>3. ASSUME NEW name \in {Stray} \cup {s[2] : s \in Stems}, path.comps # <<>>,
             comps = [path.comps EXCEPT ![Len(path.comps)] = name]
      PROVE  Len(comps) \in Nat /\ (Len(comps) # 0 => comps[Len(comps)] # Blank)
  <2>1. Len(path.comps) \in DOMAIN path.comps
    BY <1>1, <1>3
  <2>2. Len(comps) = Len(path.comps) /\ comps[Len(path.comps)] = name
    BY <1>1, <1>3, <2>1
  <2>3. name # Blank
    BY StemsAssumption DEF Stray, Blank
  <2>4. QED
    BY <1>1, <2>2, <2>3
<1>4. QED
  BY <1>2, <1>3 DEF Readings

(* A path leads to the node with the name its last component reads as, to  *)
(* none or to a fault, whatever paths are tried and however their ends     *)
(* read.                                                                   *)
THEOREM NamesAreRight == Spec => []NamesRight
<1>1. ASSUME FilesInv PROVE NamesRight
  <2> SUFFICES ASSUME NEW path \in Paths, NEW comps \in Readings(path)
               PROVE  PathToNode(path, comps) \in
                        {Missing, Fault} \cup {comps[i] : i \in {Len(comps)} \ {0}}
    BY DEF NamesRight
  <2>1. Len(comps) \in Nat /\ (Len(comps) # 0 => comps[Len(comps)] # Blank)
    BY ReadingsEnd
  <2>2. Walked(comps) \in {Missing, Fault, Root} \cup {comps[i] : i \in {Len(comps)} \ {0}}
    <3>1. CASE Len(comps) = 0
      BY <2>1, <3>1, WalkedLast
    <3>2. CASE Len(comps) # 0
      <4>1. PICK n : Walked(comps) = Below(n, comps[Len(comps)])
        BY <2>1, <3>2, WalkedLast
      <4>2. Below(n, comps[Len(comps)]) \in {Missing, Fault, comps[Len(comps)]}
        BY <1>1, <2>1, <3>2, ChildName DEF Below
      <4>3. QED
        BY <3>2, <4>1, <4>2
    <3>3. QED
      BY <3>1, <3>2
  <2>3. PathToNode(path, comps) \in {Missing, Fault, Walked(comps)} \ ({Root} \ {Missing, Fault})
    <3> DEFINE n == Walked(comps)
    <3> HIDE DEF n
    <3>1. PathToNode(path, comps) =
            CASE ~path.abs \/ n = Root -> Missing
              [] path.abs /\ n = Fault -> Fault
              [] path.abs /\ n = Missing -> IF path.dir THEN Fault ELSE Missing
              [] OTHER -> IF path.dir THEN Missing ELSE n
      BY DEF PathToNode, n
    <3>2. Root # Missing /\ Root # Fault /\ Missing # Fault
      BY DEF Root, Missing, Fault
    <3>3. path.abs \in BOOLEAN /\ path.dir \in BOOLEAN
      BY PathsAssumption
    <3>4. PathToNode(path, comps) \in {Missing, Fault, n} \ ({Root} \ {Missing, Fault})
      BY <3>1, <3>2, <3>3
    <3>5. QED
      BY <3>4 DEF n
  <2>4. QED
    BY <2>2, <2>3
<1>2. QED
  BY <1>1, FilesInvariant, PTL
=============================================================================
