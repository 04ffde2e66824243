-------------------------------- MODULE Files --------------------------------
(***************************************************************************)
(* The file name space: the node tree of fs/vfs.c, the device nodes that   *)
(* fs/devfs.c hangs under /dev for the drives drivers/hdd/ahci.c finds,    *)
(* and the block layer of block/dev.c, which opens a device node to learn  *)
(* whether there is a drive and then calls the driver.                     *)
(*                                                                         *)
(* A name is one value, a tuple.  The children of a node are the entries   *)
(* [key, len, node] of its hash map; while there are at most eight of them *)
(* a lookup sees them all (Hashmap).  A key is kept as a pointer: to a     *)
(* literal, or to the buffer drive_id that init_ports writes the name of   *)
(* every drive after the first to.                                         *)
(***************************************************************************)
EXTENDS Integers, Sequences, FiniteSets

CONSTANTS
  NPorts,       \* the ports of the HBA are 0 .. NPorts - 1
  Populations,  \* the sets of ports that may have a SATA drive
  Radix,        \* the base in which dec2str numbers drives, 10 in the code
  Paths,        \* the paths callers open: [abs, comps, dir]
  Stems,        \* the pairs of names of which the first begins the second
  MaxOpen,      \* bound: FILEs held at once
  None

Blank == <<>>            \* a buffer that has been zeroed
Buffer == <<"drive_id">>  \* the key pointer that is not a literal

ASSUME FilesAssumption ==
  /\ NPorts \in 0 .. 32 /\ Radix \in Nat \ {0, 1} /\ MaxOpen \in Nat
  /\ Populations \subseteq SUBSET (0 .. NPorts - 1)
  /\ None \notin 0 .. NPorts - 1

(* A path is the sequence of its components; dir if it ends in '/'.        *)
ASSUME PathsAssumption ==
  \A path \in Paths :
    /\ path.abs \in BOOLEAN /\ path.dir \in BOOLEAN
    /\ path.comps \in Seq({path.comps[i] : i \in DOMAIN path.comps})
    /\ \A i \in DOMAIN path.comps : path.comps[i] # Blank

ASSUME StemsAssumption == \A s \in Stems : s[2] # Blank

Root == <<"">>
Dev == <<"dev">>

(* The node names of the drives: "sda", then snprintf's "sda%d".           *)
DriveName(n) == IF n = 0 THEN <<"sda">> ELSE <<"sda", n>>

(* strlen of a name.  The literals that name nodes are three characters    *)
(* long; any other is told from them by its content.                       *)
NameLen(name) ==
  IF Len(name) = 1 THEN 3 ELSE 4 + Cardinality({d \in 1 .. 5 : name[2] >= Radix ^ d})

VARIABLES
  nodes,       \* the nodes made so far, named as vfs_make_node copied it
  children,    \* the children maps of the root and of /dev
  drive_id,    \* what the buffer holds
  freed,       \* init_ports has freed it
  sata,        \* the ports that have a SATA drive
  port,        \* the next port init_ports looks at
  main_drive,  \* the port the driver reads and writes
  drive_count,
  files        \* the nodes of the FILEs callers hold, a sequence

tree == <<nodes, children>>
drives == <<drive_id, freed, port, main_drive, drive_count>>
fileVars == <<tree, drives, sata, files>>

FilesInit ==
  /\ nodes = {}
  /\ children = [n \in {Root, Dev} |-> {}]
  /\ drive_id = Blank /\ freed = FALSE
  /\ sata \in Populations
  /\ port = 0 /\ main_drive = None /\ drive_count = 0
  /\ files = <<>>

-----------------------------------------------------------------------------
Content(e, buffer) == IF e.key = Buffer THEN buffer ELSE e.key

(* Mutant of Matches: only the length is compared.                         *)
MatchesLength(e, name, buffer) == e.len = NameLen(name)

(* hashmap_match_helper: the lengths are equal, and what the key pointer   *)
(* points to now.                                                          *)
Matches(e, name, buffer) == e.len = NameLen(name) /\ Content(e, buffer) = name

(* vfs_make_node: a node named name, under parent, by the key pointer key. *)
(* The put replaces an entry that matches.                                 *)
MakeNode(name, parent, key, buffer) ==
  /\ nodes' = nodes \cup {name}
  /\ children' = [children EXCEPT ![parent] =
       {e \in @ : ~Matches(e, name, buffer)}
         \cup {[key |-> key, len |-> NameLen(name), node |-> name]}]

VfsInit ==
  /\ nodes' = nodes \cup {Root}
  /\ UNCHANGED <<children, drives, sata, files>>

DevfsInit ==
  /\ MakeNode(Dev, Root, Dev, drive_id)
  /\ UNCHANGED <<drives, sata, files>>

(* Mutant of DriveFound: every drive becomes the main one.                 *)
DriveFoundLast ==
  /\ port \in sata
  /\ IF drive_count = 0
       THEN MakeNode(DriveName(0), Dev, DriveName(0), drive_id)
       ELSE MakeNode(DriveName(drive_count), Dev, Buffer, DriveName(drive_count))
  /\ drive_id' = Blank
  /\ main_drive' = port
  /\ drive_count' = drive_count + 1
  /\ port' = port + 1
  /\ UNCHANGED <<freed, sata, files>>

(* The body of init_ports for a SATA drive: init_port_single (Ahci), then  *)
(* register it under a literal or under the buffer, and zero the buffer.   *)
DriveFound ==
  /\ port \in sata
  /\ IF drive_count = 0
       THEN MakeNode(DriveName(0), Dev, DriveName(0), drive_id)
       ELSE MakeNode(DriveName(drive_count), Dev, Buffer, DriveName(drive_count))
  /\ drive_id' = Blank
  /\ main_drive' = IF main_drive = None THEN port ELSE main_drive
  /\ drive_count' = drive_count + 1
  /\ port' = port + 1
  /\ UNCHANGED <<freed, sata, files>>

NoDrive ==
  /\ port \in 0 .. NPorts - 1 /\ port \notin sata
  /\ port' = port + 1
  /\ UNCHANGED <<tree, drive_id, freed, sata, main_drive, drive_count, files>>

PortsDone ==
  /\ port = NPorts
  /\ freed' = TRUE
  /\ UNCHANGED <<tree, drive_id, sata, port, main_drive, drive_count, files>>

-----------------------------------------------------------------------------
(* vfs_path_to_node.  strsplit ends a component at the next '/' but leaves *)
(* the last one without a NUL when the path ends there: it may read as     *)
(* written, or as any name it begins, by the bytes behind it in the heap   *)
(* (Stray is one that no node has).  Looking below a node that was not     *)
(* found dereferences NULL.                                                *)
Missing == <<"NULL">>
Fault == <<"fault">>
Stray == <<"stray">>

Child(n, name) ==
  LET found == {e \in children[n] : Matches(e, name, drive_id)}
  IN  IF found = {} THEN Missing ELSE (CHOOSE e \in found : TRUE).node

Below(n, name) ==
  CASE n \in {Missing, Fault} -> Fault
    [] n \in {Root, Dev} -> Child(n, name)
    [] OTHER -> Missing

(* What the components may read as.                                        *)
Readings(path) ==
  {path.comps} \cup
  IF path.dir \/ path.comps = <<>> THEN {}
  ELSE {[path.comps EXCEPT ![Len(path.comps)] = name] :
          name \in {Stray} \cup {s[2] : s \in {t \in Stems : t[1] = path.comps[Len(path.comps)]}}}

Walked(comps) ==
  LET at[i \in 0 .. Len(comps)] == IF i = 0 THEN Root ELSE Below(at[i - 1], comps[i])
  IN  at[Len(comps)]

PathToNode(path, comps) ==
  LET n == Walked(comps)
  IN  CASE ~path.abs \/ n = Root -> Missing
        [] path.abs /\ n = Fault -> Fault
        [] path.abs /\ n = Missing -> IF path.dir THEN Fault ELSE Missing
        [] OTHER -> IF path.dir THEN Missing ELSE n   \* no node below / is a directory

(* fopen(path, mode): NULL, a fault, or the node of the FILE.  /dev itself *)
(* has no fops to call open through.                                       *)
Opened(path, comps, mode) ==
  IF mode = "r"
    THEN IF PathToNode(path, comps) = Dev THEN Fault ELSE PathToNode(path, comps)
    ELSE Missing

Fopen(path, mode) ==
  /\ Len(files) < MaxOpen
  /\ \E comps \in Readings(path) :
       LET n == Opened(path, comps, mode)
       IN  /\ n # Fault
           /\ files' = IF n = Missing THEN files ELSE Append(files, n)
  /\ UNCHANGED <<tree, drives, sata>>

FopenFaults(path, mode) ==
  /\ \E comps \in Readings(path) : Opened(path, comps, mode) = Fault
  /\ UNCHANGED fileVars

Fclose(i) ==
  /\ i \in DOMAIN files
  /\ files' = SubSeq(files, 1, i - 1) \o SubSeq(files, i + 1, Len(files))
  /\ UNCHANGED <<tree, drives, sata>>

-----------------------------------------------------------------------------
(* block_read_drive and block_write_drive: devstr[type] is opened to find  *)
(* the drive, and closed again; the driver's own result is dropped.        *)
DevPath(type) ==
  [abs |-> TRUE, comps |-> <<Dev, IF type = "HDD" THEN DriveName(0) ELSE <<"nvme">>>>,
   dir |-> FALSE]

Finds(type) == {Opened(DevPath(type), comps, "r") : comps \in Readings(DevPath(type))}
=============================================================================
