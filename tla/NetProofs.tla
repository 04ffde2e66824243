----------------------------- MODULE NetProofs -----------------------------
(***************************************************************************)
(* Proofs about Net, for any messages, hosts, heap and patience.           *)
(***************************************************************************)
EXTENDS Net, SequenceTheorems, TLAPS

(* An IP packet has at most 65535 bytes.                                   *)
Short == \A msg \in Messages : Len(msg.payload) <= 32765

(***************************************************************************)
(* Why the checksum is right: each round takes a multiple of 65535 off the *)
(* sum of the words, and a sum of at most 32767 words stays below 2^31, so *)
(* internet_checksum never ors the halves.                                 *)
(***************************************************************************)
Congruent == \E k \in Nat : total = checksum + 65535 * k

Sums ==
  /\ words \in Seq(Word) /\ checksum \in Nat /\ total \in Nat
  /\ Congruent
  /\ checksum = 0 => total = 0
  /\ total + 65535 * Len(words) <= 65535 * 32767
  /\ pc = "resolve" => checksum <= 65535

LEMMA InitSums == Init => Sums
<1> SUFFICES ASSUME Init
             PROVE  Sums
  OBVIOUS
<1>1. words = <<>> /\ checksum = 0 /\ total = 0 /\ pc = "idle"
  BY DEF Init
<1>2. Congruent
  <2>1. total = checksum + 65535 * 0
    BY <1>1
  <2>2. QED
    BY <2>1 DEF Congruent
<1>3. words \in Seq(Word) /\ Len(words) = 0
  BY <1>1
<1>4. words \in Seq(Word) /\ checksum \in Nat /\ total \in Nat
  BY <1>1, <1>3
<1>5. total + 65535 * Len(words) <= 65535 * 32767
  BY <1>1, <1>3
<1>6. QED
  BY <1>1, <1>2, <1>4, <1>5 DEF Sums

(* A word added, with the bit test of Keep never true.                     *)
LEMMA AddKeeps ==
  ASSUME Sums, AddWord
  PROVE  /\ words' \in Seq(Word) /\ checksum' \in Nat /\ total' \in Nat
         /\ Congruent'
         /\ checksum' = 0 => total' = 0
         /\ total' + 65535 * Len(words') <= 65535 * 32767
<1> DEFINE w == Head(words)
<1>1. /\ words \in Seq(Word) /\ words # <<>>
      /\ checksum' = Keep(checksum + w) /\ total' = total + w /\ words' = Tail(words)
  BY DEF AddWord, Sums
<1>2. words' \in Seq(Word) /\ Len(words) = Len(words') + 1 /\ Len(words') \in Nat
  BY <1>1, HeadTailProperties
<1>3. w \in Nat /\ w <= 65535
  <2>1. w \in Word
    BY <1>1, HeadTailProperties
  <2> HIDE DEF w
  <2>2. QED
    BY <2>1 DEF Word
<1> HIDE DEF w
<1>4. PICK k \in Nat : total = checksum + 65535 * k
  BY DEF Sums, Congruent
<1>5. checksum \in Nat /\ total \in Nat /\ total + 65535 * Len(words) <= 65535 * 32767
  BY DEF Sums
<1>6. checksum + w <= 65535 * 32767 /\ total' + 65535 * Len(words') <= 65535 * 32767
  <2> DEFINE left == Len(words')
  <2>1. left \in Nat /\ total + 65535 * (left + 1) <= 65535 * 32767
    BY <1>2, <1>5
  <2> HIDE DEF left
  <2>2. QED
    BY <1>1, <1>3, <1>4, <1>5, <2>1 DEF left
<1>7. checksum' = checksum + w
  <2> DEFINE n == checksum + w
  <2>1. n \in Nat /\ n <= 65535 * 32767
    BY <1>3, <1>5, <1>6
  <2> HIDE DEF n
  <2>2. n \div 65536 < 32768
    BY <2>1
  <2>3. Keep(n) = n
    BY <2>2, <2>1 DEF Keep, High
  <2>4. QED
    BY <1>1, <2>3 DEF n
<1>8. total' = checksum' + 65535 * k
  BY <1>1, <1>3, <1>4, <1>5, <1>7
<1>9. checksum' = 0 => total' = 0
  BY <1>1, <1>3, <1>5, <1>7 DEF Sums
<1>10. checksum' \in Nat /\ total' \in Nat
  BY <1>1, <1>3, <1>5, <1>7
<1>11. Congruent'
  BY <1>8 DEF Congruent
<1>12. QED
  BY <1>2, <1>6, <1>9, <1>10, <1>11

(* A fold of the carry.                                                    *)
LEMMA FoldKeeps ==
  ASSUME Sums, Fold
  PROVE  /\ words' = words /\ checksum' \in Nat /\ total' = total
         /\ Congruent'
         /\ checksum' = 0 => total' = 0
<1>1. checksum' = Low(checksum) + High(checksum) /\ UNCHANGED <<words, total>>
  BY DEF Fold, Folded
<1>2. checksum \in Nat
  BY DEF Sums
<1>3. PICK k \in Nat : total = checksum + 65535 * k
  BY DEF Sums, Congruent
<1> DEFINE h == checksum \div 65536
<1> DEFINE l == checksum % 65536
<1>4. h \in Nat /\ l \in Nat /\ checksum = 65536 * h + l
  BY <1>2
<1>5. checksum' = l + h
  BY <1>1 DEF Low, High
<1> HIDE DEF h, l
<1>6. total' = checksum' + 65535 * (k + h) /\ k + h \in Nat
  BY <1>1, <1>3, <1>4, <1>5
<1>7. checksum' = 0 => total' = 0
  <2>1. checksum' = 0 => checksum = 0
    BY <1>4, <1>5
  <2>2. QED
    BY <1>1, <2>1 DEF Sums
<1>8. Congruent'
  BY <1>6 DEF Congruent
<1>9. checksum' \in Nat
  BY <1>4, <1>5
<1>10. QED
  BY <1>1, <1>7, <1>8, <1>9

LEMMA NextSums == Short /\ Sums /\ [Next]_vars => Sums'
<1> SUFFICES ASSUME Short, Sums, [Next]_vars
             PROVE  Sums'
  OBVIOUS
<1>1. ASSUME NEW c \in Calls, Start(c)
      PROVE  Sums'
  <2>1. /\ checksum' = 0 /\ total' = 0
        /\ words' = IF c.protocol = "icmp"
                      THEN <<c.msg.head, c.msg.stale>> \o c.msg.payload ELSE <<>>
    BY <1>1 DEF Start
  <2>2. /\ c.msg.head \in Word /\ c.msg.stale \in Word /\ c.msg.payload \in Seq(Word)
        /\ Len(c.msg.payload) <= 32765
    BY MessagesAssumption DEF Calls, Short
  <2>3. words' \in Seq(Word) /\ Len(words') <= 32767 /\ Len(words') \in Nat
    <3>1. /\ <<c.msg.head, c.msg.stale>> \in Seq(Word)
          /\ Len(<<c.msg.head, c.msg.stale>>) = 2
      BY <2>2
    <3>2. /\ <<c.msg.head, c.msg.stale>> \o c.msg.payload \in Seq(Word)
          /\ Len(<<c.msg.head, c.msg.stale>> \o c.msg.payload) = 2 + Len(c.msg.payload)
      BY <2>2, <3>1, ConcatProperties
    <3>3. <<>> \in Seq(Word) /\ Len(<<>>) = 0 /\ Len(c.msg.payload) \in Nat
      BY <2>2, LenProperties
    <3>4. QED
      BY <2>1, <2>2, <3>2, <3>3
  <2>4. Congruent'
    <3>1. total' = checksum' + 65535 * 0
      BY <2>1
    <3>2. QED
      BY <3>1 DEF Congruent
  <2>5. checksum' \in Nat /\ total' \in Nat /\ checksum' <= 65535
    BY <2>1
  <2>6. total' + 65535 * Len(words') <= 65535 * 32767
    BY <2>1, <2>3
  <2>7. QED
    BY <2>1, <2>3, <2>4, <2>5, <2>6 DEF Sums
<1>2. CASE SumMessage
  <2>1. pc = "checksum" /\ pc' = pc
    BY <1>2 DEF SumMessage, thread
  <2>2. CASE AddWord
    BY <2>1, <2>2, AddKeeps DEF Sums
  <2>3. CASE Fold
    BY <2>1, <2>3, FoldKeeps DEF Sums
  <2>4. QED
    BY <1>2, <2>2, <2>3 DEF SumMessage
<1>3. CASE StoreChecksum
  <2>1. High(checksum) = 0 /\ checksum \in Nat /\ UNCHANGED sumVars
    BY <1>3 DEF StoreChecksum, Summed, Sums
  <2>2. checksum <= 65535
    BY <2>1 DEF High
  <2>3. QED
    BY <2>1, <2>2 DEF Sums, Congruent, sumVars
<1>4. ASSUME UNCHANGED sumVars, pc' # "resolve" \/ pc' = pc
      PROVE  Sums'
  BY <1>4 DEF Sums, Congruent, sumVars
<1>5. ASSUME NEW p \in Packets, Receive(p)
      PROVE  Sums'
  BY <1>4, <1>5 DEF Receive, TakeFrame
<1>6. CASE ArpResolve \/ SendRequest \/ AllocMac \/ BuildPacket \/ SendPacket
  BY <1>4, <1>6 DEF ArpResolve, SendRequest, AllocMac, BuildPacket, SendPacket, KMalloc
<1>7. CASE FreeRequest \/ Wait \/ GiveUp \/ TakeFlag \/ CopyMac \/ FreeFrame \/ Return
  BY <1>4, <1>7 DEF FreeRequest, Wait, GiveUp, TakeFlag, CopyMac, FreeFrame, Return
<1>8. CASE UNCHANGED vars
  BY <1>4, <1>8 DEF vars, thread
<1>9. QED
  BY <1>1, <1>2, <1>3, <1>5, <1>6, <1>7, <1>8 DEF Next, Thread

LEMMA SameRest ==
  ASSUME NEW c \in Nat, NEW k \in Nat
  PROVE  (c + 65535 * k) % 65535 = c % 65535
OBVIOUS

(* For every message that fits an IP packet, internet_checksum returns the *)
(* complement of the ones' complement sum of its words.                    *)
THEOREM ChecksumIsRight == ASSUME Short PROVE Spec => []SumRight
<1>1. Sums => SumRight
  <2> SUFFICES ASSUME Sums
               PROVE  SumRight
    OBVIOUS
  <2>1. PICK k \in Nat : total = checksum + 65535 * k
    BY DEF Sums, Congruent
  <2>2. checksum \in Nat /\ total \in Nat
    BY DEF Sums
  <2>3. checksum % 65535 = total % 65535
    BY <2>1, <2>2, SameRest
  <2>4. pc = "resolve" => Result \in Word
    <3> SUFFICES ASSUME pc = "resolve"
                 PROVE  Result \in Word
      OBVIOUS
    <3>1. checksum <= 65535
      BY DEF Sums
    <3>2. 65535 - checksum \in Nat /\ 65535 - checksum < 65536
      BY <2>2, <3>1
    <3>3. QED
      BY <3>2 DEF Result, Word
  <2>5. QED
    BY <2>3, <2>4 DEF Sums, SumRight
<1>2. Sums /\ [Next]_vars => Sums'
  BY NextSums
<1>3. QED
  BY <1>1, <1>2, InitSums, PTL DEF Spec

(***************************************************************************)
(* The ledger of the heap: with the types of the variables, what the thread*)
(* holds is an inductive account of every byte.                            *)
(***************************************************************************)
Types ==
  /\ bytes_allocated \in 0 .. HeapBytes /\ leaked \in Nat
  /\ got_packet \in BOOLEAN /\ misled \in BOOLEAN
  /\ packet_buf \in Packets \cup {NoPacket}
  /\ pc \in {"idle", "checksum", "resolve", "request", "asked", "wait", "read", "copy",
            "build", "deliver", "sent", "return", "fault"}
  /\ call \in Calls \cup {NoCall} /\ (pc \notin {"idle", "fault"} => call \in Calls)
  /\ spin \in -1 .. Patience
  /\ mac \in Seq(Hosts \cup {Noise}) /\ Len(mac) <= 2 /\ (pc = "copy" => Len(mac) < 2)
  /\ asked \subseteq Hosts
  /\ calls \in Nat /\ packets \in Nat

LEMMA LengthNat == ASSUME NEW c \in Calls PROVE Length(c) \in Nat
<1>1. /\ c.msg.payload \in Seq(Word) /\ c.msg.odd \in Seq(Byte)
      /\ c.protocol \in {"icmp", "udp"}
  BY MessagesAssumption DEF Calls
<1>2. Len(c.msg.payload) \in Nat /\ Len(c.msg.odd) \in Nat
  BY <1>1, LenProperties
<1>3. Header[c.protocol] \in Nat
  BY <1>1 DEF Header
<1>4. QED
  BY <1>2, <1>3, SMTT(30) DEF Length

LEMMA HeldAt ==
  ASSUME NEW at, NEW c
  PROVE  /\ at = "idle" => Held(at, c) = 0
         /\ at \in {"checksum", "resolve", "wait", "read", "copy", "build", "deliver", "return"} =>
              Held(at, c) = Length(c)
         /\ at = "request" => Held(at, c) = Length(c) + Arp
         /\ at = "asked" => Held(at, c) = Length(c) + Arp + (Ethernet + Arp)
         /\ at = "sent" => Held(at, c) = Length(c) + (Ethernet + Ipv4 + Length(c))
<1>1. at = "idle" => Held(at, c) = 0
  BY DEF Held
<1>2. at \in {"checksum", "resolve", "wait", "read", "copy", "build", "deliver", "return"} =>
        Held(at, c) = Length(c)
  BY DEF Held
<1>3. at = "request" => Held(at, c) = Length(c) + Arp
  BY DEF Held
<1>4. at = "asked" => Held(at, c) = Length(c) + Arp + (Ethernet + Arp)
  BY DEF Held
<1>5. at = "sent" => Held(at, c) = Length(c) + (Ethernet + Ipv4 + Length(c))
  BY DEF Held
<1>6. QED
  BY <1>1, <1>2, <1>3, <1>4, <1>5

LEMMA InitTypes == Init => Types /\ LeaksOnly
<1> SUFFICES ASSUME Init
             PROVE  Types /\ LeaksOnly
  OBVIOUS
<1>1. /\ bytes_allocated = 0 /\ leaked = 0 /\ pc = "idle" /\ call = NoCall
      /\ spin = 0 /\ mac = <<>> /\ asked = {} /\ calls = 0 /\ packets = 0
      /\ packet_buf = NoPacket
  BY DEF Init
<1>2. got_packet \in BOOLEAN /\ misled \in BOOLEAN
  BY Zenon DEF Init
<1>3. Types
  BY <1>1, <1>2, BoundsAssumption DEF Types
<1>4. LeaksOnly
  BY <1>1, HeldAt DEF LeaksOnly
<1>5. QED
  BY <1>3, <1>4

LEMMA HeldNat ==
  ASSUME NEW at \in {"checksum", "resolve", "request", "asked", "wait", "read", "copy",
                     "build", "deliver", "sent", "return"},
         NEW c \in Calls
  PROVE  Held(at, c) \in Nat
<1> DEFINE l == Length(c)
<1>1. l \in Nat
  BY LengthNat
<1>2. /\ l + Arp \in Nat /\ l + Arp + (Ethernet + Arp) \in Nat
      /\ l + (Ethernet + Ipv4 + l) \in Nat
  BY <1>1 DEF Arp, Ethernet, Ipv4
<1>3. QED
  BY <1>1, <1>2, HeldAt

(* An allocation that succeeds adds to what is held or lost; one that fails*)
(* ends it all.                                                            *)
LEMMA KMallocKeeps ==
  ASSUME Types, LeaksOnly, pc # "fault", NEW n \in Nat, NEW next, KMalloc(n, next),
         NEW held \in Nat, held = Held(pc, call),
         NEW more \in Nat, more = Held(next, call'), leaked' + more = leaked + held + n
  PROVE  bytes_allocated' \in 0 .. HeapBytes /\ pc' \in {next, "fault"} /\ LeaksOnly'
<1>1. /\ bytes_allocated = leaked + held /\ leaked \in Nat
      /\ bytes_allocated \in 0 .. HeapBytes /\ HeapBytes \in Nat
  BY BoundsAssumption DEF Types, LeaksOnly
<1>2. CASE bytes_allocated + n <= HeapBytes
  <2>1. bytes_allocated' = bytes_allocated + n /\ pc' = next
    BY <1>2 DEF KMalloc
  <2>2. bytes_allocated' = leaked' + more /\ bytes_allocated' \in 0 .. HeapBytes
    BY <1>1, <1>2, <2>1
  <2>3. LeaksOnly'
    BY <2>1, <2>2 DEF LeaksOnly
  <2>4. QED
    BY <2>1, <2>2, <2>3
<1>3. CASE ~(bytes_allocated + n <= HeapBytes)
  <2>1. bytes_allocated' = bytes_allocated /\ pc' = "fault"
    BY <1>3 DEF KMalloc
  <2>2. QED
    BY <1>1, <2>1 DEF LeaksOnly
<1>4. QED
  BY <1>2, <1>3

(* What is freed was held.                                                 *)
LEMMA KFreeKeeps ==
  ASSUME Types, LeaksOnly, pc # "fault", NEW n \in Nat, KFree(n), leaked' = leaked,
         NEW held \in Nat, held = Held(pc, call),
         NEW left \in Nat, left = Held(pc', call'), left + n = held
  PROVE  bytes_allocated' \in 0 .. HeapBytes /\ LeaksOnly'
<1>1. /\ bytes_allocated = leaked + held /\ leaked \in Nat
      /\ bytes_allocated \in 0 .. HeapBytes /\ HeapBytes \in Nat
      /\ bytes_allocated' = bytes_allocated - n
  BY BoundsAssumption DEF Types, LeaksOnly, KFree
<1>2. bytes_allocated' = leaked' + left /\ bytes_allocated' \in 0 .. HeapBytes
  BY <1>1
<1>3. QED
  BY <1>2 DEF LeaksOnly

(* Half an address more.                                                   *)
LEMMA CopyAppends ==
  ASSUME Types, CopyMac
  PROVE  /\ mac' \in Seq(Hosts \cup {Noise}) /\ Len(mac') <= 2
         /\ pc' = "copy" => Len(mac') < 2
<1>1. /\ mac' = Append(mac, packet_buf.from) /\ mac \in Seq(Hosts \cup {Noise})
      /\ Len(mac) < 2 /\ pc' = IF Len(mac') = 2 THEN "build" ELSE "copy"
  BY DEF CopyMac, Types
<1>2. packet_buf.from \in Hosts \cup {Noise}
  BY DEF Types, Packets, NoPacket
<1>3. mac' \in Seq(Hosts \cup {Noise}) /\ Len(mac') = Len(mac) + 1
  BY <1>1, <1>2, AppendProperties
<1>4. Len(mac) \in Nat
  BY <1>1, LenProperties
<1>5. QED
  BY <1>1, <1>3, <1>4

LEMMA NextTypes == Types /\ LeaksOnly /\ [Next]_vars => Types' /\ LeaksOnly'
<1> SUFFICES ASSUME Types, LeaksOnly, [Next]_vars
             PROVE  Types' /\ LeaksOnly'
  OBVIOUS
<1> DEFINE l == Length(call)
<1>0. pc \notin {"idle", "fault"} => call \in Calls /\ l \in Nat
  BY LengthNat DEF Types
<1>1. ASSUME NEW c \in Calls, Start(c)
      PROVE  Types' /\ LeaksOnly'
  <2> DEFINE next == IF c.protocol = "icmp" THEN "checksum" ELSE "resolve"
  <2>1. /\ pc = "idle" /\ call' = c /\ KMalloc(Length(c), next) /\ calls' = calls + 1
        /\ UNCHANGED <<leaked, got_packet, packet_buf, spin, mac, asked, packets, misled>>
    BY <1>1 DEF Start, inbox
  <2>2. next \in {"checksum", "resolve"} /\ Length(c) \in Nat
    BY LengthNat
  <2>3. Held(pc, call) = 0 /\ Held(next, call') = Length(c)
    BY <2>1, <2>2, HeldAt
  <2>4. leaked \in Nat /\ leaked' + Length(c) = leaked + 0 + Length(c)
    BY <2>1, <2>2 DEF Types
  <2> HIDE DEF next
  <2>5. bytes_allocated' \in 0 .. HeapBytes /\ pc' \in {next, "fault"} /\ LeaksOnly'
    BY <2>1, <2>2, <2>3, <2>4, KMallocKeeps
  <2>6. Types'
    BY <2>1, <2>2, <2>5 DEF Types
  <2>7. QED
    BY <2>5, <2>6
<1>2. CASE ArpResolve
  <2>1. /\ pc = "resolve" /\ KMalloc(Arp, "request") /\ UNCHANGED <<call, calls, packets>>
        /\ UNCHANGED <<got_packet, packet_buf, spin, mac, asked, misled>>
    BY <1>2 DEF ArpResolve, inbox
  <2>2. call \in Calls /\ l \in Nat /\ leaked \in Nat /\ leaked' = leaked
    BY <1>2, <1>0, <2>1 DEF ArpResolve, Types
  <2>3. Held(pc, call) = l /\ Held("request", call') = l + Arp
    BY <2>1, HeldAt
  <2> HIDE DEF l
  <2>4. /\ Arp \in Nat /\ l \in Nat /\ l + Arp \in Nat
        /\ leaked' + (l + Arp) = leaked + l + Arp
    BY <2>2 DEF Arp, Ethernet, Ipv4, Mac
  <2>5. bytes_allocated' \in 0 .. HeapBytes /\ pc' \in {"request", "fault"} /\ LeaksOnly'
    BY <2>1, <2>3, <2>4, KMallocKeeps
  <2>7. Types'
    BY <2>1, <2>2, <2>5 DEF Types
  <2>8. QED
    BY <2>5, <2>7
<1>3. CASE SendRequest
  <2>1. /\ pc = "request" /\ KMalloc(Ethernet + Arp, "asked") /\ UNCHANGED <<call, calls, packets>>
        /\ UNCHANGED <<got_packet, packet_buf, spin, mac>>
    BY <1>3 DEF SendRequest, inbox
  <2>2. call \in Calls /\ l \in Nat /\ leaked \in Nat /\ leaked' = leaked
    BY <1>3, <1>0, <2>1 DEF SendRequest, Types
  <2>3. Held(pc, call) = l + Arp /\ Held("asked", call') = l + Arp + (Ethernet + Arp)
    BY <2>1, HeldAt
  <2> HIDE DEF l
  <2>4. /\ Ethernet + Arp \in Nat /\ l + Arp \in Nat /\ l + Arp + (Ethernet + Arp) \in Nat
        /\ leaked' + (l + Arp + (Ethernet + Arp)) = leaked + (l + Arp) + (Ethernet + Arp)
    BY <2>2 DEF Arp, Ethernet, Ipv4, Mac
  <2>5. bytes_allocated' \in 0 .. HeapBytes /\ pc' \in {"asked", "fault"} /\ LeaksOnly'
    BY <2>1, <2>3, <2>4, KMallocKeeps
  <2>6. asked' \subseteq Hosts /\ misled' \in BOOLEAN
    <3>1. asked' \subseteq Hosts
      BY <1>3, <2>2 DEF SendRequest, Types, Calls
    <3>2. misled' \in BOOLEAN
      BY <1>3, Zenon DEF SendRequest, Types
    <3>3. QED
      BY <3>1, <3>2
  <2>7. Types'
    BY <2>1, <2>2, <2>5, <2>6 DEF Types
  <2>8. QED
    BY <2>5, <2>7
<1>4. CASE AllocMac
  <2>1. /\ pc = "read" /\ KMalloc(Mac, "copy") /\ UNCHANGED <<call, calls, packets>>
        /\ UNCHANGED <<got_packet, packet_buf, spin, asked, misled>>
    BY <1>4 DEF AllocMac, inbox
  <2>2. call \in Calls /\ l \in Nat /\ leaked \in Nat /\ leaked' = leaked + Mac
    BY <1>4, <1>0, <2>1 DEF AllocMac, Types
  <2>3. Held(pc, call) = l /\ Held("copy", call') = l
    BY <2>1, HeldAt
  <2> HIDE DEF l
  <2>4. /\ Mac \in Nat /\ l \in Nat
        /\ leaked' \in Nat /\ leaked' + l = leaked + l + Mac
    BY <2>2 DEF Arp, Ethernet, Ipv4, Mac
  <2>5. bytes_allocated' \in 0 .. HeapBytes /\ pc' \in {"copy", "fault"} /\ LeaksOnly'
    BY <2>1, <2>3, <2>4, KMallocKeeps
  <2>6. mac' \in Seq(Hosts \cup {Noise}) /\ Len(mac') < 2
    BY <1>4 DEF AllocMac
  <2>7. Types'
    BY <2>1, <2>2, <2>4, <2>5, <2>6 DEF Types
  <2>8. QED
    BY <2>5, <2>7
<1>5. CASE BuildPacket
  <2>1. /\ pc = "build" /\ KMalloc(Ipv4 + l, "deliver") /\ UNCHANGED <<call, calls, packets>>
        /\ UNCHANGED <<got_packet, packet_buf, spin, mac, asked, misled>>
    BY <1>5 DEF BuildPacket, inbox
  <2>2. call \in Calls /\ l \in Nat /\ leaked \in Nat /\ leaked' = leaked + Ipv4 + l
    BY <1>5, <1>0, <2>1 DEF BuildPacket, Types
  <2>3. Held(pc, call) = l /\ Held("deliver", call') = l
    BY <2>1, HeldAt
  <2> HIDE DEF l
  <2>4. /\ Ipv4 + l \in Nat /\ l \in Nat
        /\ leaked' \in Nat /\ leaked' + l = leaked + l + (Ipv4 + l)
    BY <2>2 DEF Arp, Ethernet, Ipv4, Mac
  <2>5. bytes_allocated' \in 0 .. HeapBytes /\ pc' \in {"deliver", "fault"} /\ LeaksOnly'
    BY <2>1, <2>3, <2>4, KMallocKeeps
  <2>7. Types'
    BY <2>1, <2>2, <2>4, <2>5 DEF Types
  <2>8. QED
    BY <2>5, <2>7
<1>6. CASE SendPacket
  <2>1. /\ pc = "deliver" /\ KMalloc(Ethernet + Ipv4 + l, "sent") /\ UNCHANGED <<call, calls, packets>>
        /\ UNCHANGED <<got_packet, packet_buf, spin, mac, asked, misled>>
    BY <1>6 DEF SendPacket, inbox
  <2>2. call \in Calls /\ l \in Nat /\ leaked \in Nat /\ leaked' = leaked
    BY <1>6, <1>0, <2>1 DEF SendPacket, Types
  <2>3. Held(pc, call) = l /\ Held("sent", call') = l + (Ethernet + Ipv4 + l)
    BY <2>1, HeldAt
  <2> HIDE DEF l
  <2>4. /\ Ethernet + Ipv4 + l \in Nat /\ l \in Nat /\ l + (Ethernet + Ipv4 + l) \in Nat
        /\ leaked' + (l + (Ethernet + Ipv4 + l)) = leaked + l + (Ethernet + Ipv4 + l)
    BY <2>2 DEF Arp, Ethernet, Ipv4, Mac
  <2>5. bytes_allocated' \in 0 .. HeapBytes /\ pc' \in {"sent", "fault"} /\ LeaksOnly'
    BY <2>1, <2>3, <2>4, KMallocKeeps
  <2>7. Types'
    BY <2>1, <2>2, <2>5 DEF Types
  <2>8. QED
    BY <2>5, <2>7
<1>7. CASE FreeRequest
  <2>1. /\ pc = "asked" /\ pc' = "wait" /\ KFree(Ethernet + Arp + Arp)
        /\ UNCHANGED <<leaked, call, calls, packets>>
        /\ UNCHANGED <<got_packet, packet_buf, mac, asked, misled>>
    BY <1>7 DEF FreeRequest, inbox
  <2>2. call \in Calls /\ l \in Nat
    BY <1>0, <2>1
  <2>3. Held(pc, call) = l + Arp + (Ethernet + Arp) /\ Held(pc', call') = l
    BY <2>1, HeldAt
  <2> HIDE DEF l
  <2>4. /\ Ethernet + Arp + Arp \in Nat /\ l + Arp + (Ethernet + Arp) \in Nat
        /\ l \in Nat /\ l + (Ethernet + Arp + Arp) = l + Arp + (Ethernet + Arp)
    BY <2>2 DEF Arp, Ethernet, Ipv4
  <2>5. bytes_allocated' \in 0 .. HeapBytes /\ LeaksOnly'
    BY <2>1, <2>3, <2>4, KFreeKeeps
  <2>6. spin' \in -1 .. Patience
    BY <1>7, BoundsAssumption DEF FreeRequest
  <2>7. Types'
    BY <2>1, <2>2, <2>5, <2>6 DEF Types
  <2>8. QED
    BY <2>5, <2>7
<1>8. CASE FreeFrame
  <2>1. /\ pc = "sent" /\ pc' = "return" /\ KFree(Ethernet + Ipv4 + l)
        /\ UNCHANGED <<leaked, call, calls, packets>>
        /\ UNCHANGED <<got_packet, packet_buf, spin, mac, asked, misled>>
    BY <1>8 DEF FreeFrame, inbox
  <2>2. call \in Calls /\ l \in Nat
    BY <1>0, <2>1
  <2>3. Held(pc, call) = l + (Ethernet + Ipv4 + l) /\ Held(pc', call') = l
    BY <2>1, HeldAt
  <2> HIDE DEF l
  <2>4. Ethernet + Ipv4 + l \in Nat /\ l + (Ethernet + Ipv4 + l) \in Nat /\ l \in Nat
    BY <2>2 DEF Arp, Ethernet, Ipv4
  <2>5. bytes_allocated' \in 0 .. HeapBytes /\ LeaksOnly'
    BY <2>1, <2>3, <2>4, KFreeKeeps
  <2>7. Types'
    BY <2>1, <2>2, <2>5 DEF Types
  <2>8. QED
    BY <2>5, <2>7
<1>9. CASE Return
  <2>1. /\ pc = "return" /\ pc' = "idle" /\ KFree(l)
        /\ UNCHANGED <<leaked, call, calls, packets>>
        /\ UNCHANGED <<got_packet, packet_buf, spin, mac, asked, misled>>
    BY <1>9 DEF Return, inbox
  <2>2. call \in Calls /\ l \in Nat
    BY <1>0, <2>1
  <2>3. Held(pc, call) = l /\ Held(pc', call') = 0
    BY <2>1, HeldAt
  <2> HIDE DEF l
  <2>4. l \in Nat /\ 0 \in Nat /\ 0 + l = l
    BY <2>2 DEF Arp, Ethernet, Ipv4
  <2>5. bytes_allocated' \in 0 .. HeapBytes /\ LeaksOnly'
    BY <2>1, <2>3, <2>4, KFreeKeeps
  <2>7. Types'
    BY <2>1, <2>2, <2>5 DEF Types
  <2>8. QED
    BY <2>5, <2>7
<1>10. CASE SumMessage \/ StoreChecksum \/ Wait \/ GiveUp \/ TakeFlag \/ CopyMac
  <2>1. /\ pc \in {"checksum", "wait", "copy"}
        /\ pc' \in {"checksum", "resolve", "wait", "return", "read", "copy", "build"}
        /\ UNCHANGED <<bytes_allocated, leaked, call, calls, packets, asked, packet_buf, misled>>
    BY <1>10 DEF SumMessage, StoreChecksum, Wait, GiveUp, TakeFlag, CopyMac, heap, inbox, thread
  <2>2. Held(pc, call) = l /\ Held(pc', call') = l
    BY <2>1, HeldAt
  <2>3. LeaksOnly'
    BY <2>1, <2>2 DEF LeaksOnly
  <2>4. /\ mac' \in Seq(Hosts \cup {Noise}) /\ Len(mac') <= 2
        /\ pc' = "copy" => Len(mac') < 2
    <3>1. CASE CopyMac
      BY <3>1, CopyAppends
    <3>2. CASE ~CopyMac
      BY <1>10, <3>2 DEF SumMessage, StoreChecksum, Wait, GiveUp, TakeFlag, thread, Types
    <3>3. QED
      BY <3>1, <3>2
  <2>5. got_packet' \in BOOLEAN /\ misled' \in BOOLEAN
    <3>1. got_packet' = got_packet \/ got_packet' = FALSE
      BY <1>10 DEF SumMessage, StoreChecksum, Wait, GiveUp, TakeFlag, CopyMac, inbox
    <3>2. QED
      BY <2>1, <3>1, Zenon DEF Types
  <2>6. spin' \in -1 .. Patience
    <3>1. CASE Wait
      BY <3>1, BoundsAssumption DEF Wait, Waits, Types
    <3>2. CASE ~Wait
      BY <1>10, <3>2 DEF SumMessage, StoreChecksum, GiveUp, TakeFlag, CopyMac, thread, Types
    <3>3. QED
      BY <3>1, <3>2
  <2>7. Types'
    BY <1>0, <2>1, <2>4, <2>5, <2>6 DEF Types
  <2>8. QED
    BY <2>3, <2>7
<1>11. ASSUME NEW p \in Packets, Receive(p)
       PROVE  Types' /\ LeaksOnly'
  <2>1. /\ pc # "fault" /\ packets' = packets + 1 /\ packet_buf' = p
        /\ UNCHANGED <<call, spin, mac, asked, calls>>
    BY <1>11 DEF Receive, TakeFrame
  <2>2. asked' \subseteq Hosts
    BY <2>1 DEF Types
  <2>3. got_packet' \in BOOLEAN /\ misled' \in BOOLEAN
    <3>1. got_packet' = TRUE /\ misled' = (misled \/ (Listening /\ p # Answer))
      BY <1>11 DEF Receive, TakeFrame
    <3>2. QED
      BY <3>1, Zenon
  <2>4. bytes_allocated' \in 0 .. HeapBytes /\ leaked' \in Nat /\ pc' \in {pc, "fault"} /\ LeaksOnly'
    <3>1. CASE UNCHANGED <<heap, pc>>
      BY <2>1, <3>1 DEF heap, Types, LeaksOnly
    <3>2. CASE /\ bytes_allocated + Arp + Ethernet + Arp <= HeapBytes
               /\ bytes_allocated' = bytes_allocated + Arp /\ leaked' = leaked + Arp /\ UNCHANGED pc
      <4>1. PICK held \in Nat : held = Held(pc, call)
        <5>1. CASE pc = "idle"
          BY <5>1, HeldAt
        <5>2. CASE pc # "idle"
          <6>1. call \in Calls
            BY <2>1, <5>2, <1>0
          <6>2. Held(pc, call) \in Nat
            BY <2>1, <5>2, <6>1, HeldNat DEF Types
          <6>3. QED
            BY <6>2
        <5>3. QED
          BY <5>1, <5>2
      <4>2. bytes_allocated = leaked + held /\ leaked \in Nat /\ HeapBytes \in Nat
        BY <2>1, <4>1, BoundsAssumption DEF LeaksOnly, Types
      <4>3. /\ bytes_allocated' \in 0 .. HeapBytes /\ leaked' \in Nat
            /\ bytes_allocated' = leaked' + held
        BY <3>2, <4>2 DEF Arp, Ethernet
      <4>4. QED
        BY <2>1, <3>2, <4>1, <4>3 DEF LeaksOnly
    <3>3. CASE pc' = "fault" /\ UNCHANGED heap
      BY <3>3 DEF heap, Types, LeaksOnly
    <3>4. QED
      BY <1>11, <3>1, <3>2, <3>3 DEF Receive, TakeFrame
  <2>5. Types'
    BY <2>1, <2>2, <2>3, <2>4 DEF Types
  <2>6. QED
    BY <2>4, <2>5
<1>12. CASE UNCHANGED vars
  BY <1>12 DEF vars, heap, inbox, thread, Types, LeaksOnly
<1>13. QED
  BY <1>1, <1>2, <1>3, <1>4, <1>5, <1>6, <1>7, <1>8, <1>9, <1>10, <1>11, <1>12 DEF Next, Thread

(* Every byte taken from the heap is held by the call under way or lost for*)
(* good, for every heap, message and packet.                               *)
THEOREM LedgerBalances == Spec => []LeaksOnly
<1>1. QED
  BY InitTypes, NextTypes, PTL DEF Spec

(* With messages that fit, every variable keeps its type: what is freed was*)
(* held.                                                                   *)
THEOREM TypeCorrect == ASSUME Short PROVE Spec => []TypeOK
<1>1. Sums /\ Types => TypeOK
  BY DEF Sums, Types, TypeOK
<1>2. Sums /\ [Next]_vars => Sums'
  BY NextSums
<1>3. QED
  BY <1>1, <1>2, InitSums, InitTypes, NextTypes, PTL DEF Spec

(***************************************************************************)
(* Who an answer comes from: from the request on, a packet that is pending *)
(* is the answer unless the call has been misled, and so is what is read.  *)
(***************************************************************************)
Answered ==
  ~misled =>
    /\ pc \in {"asked", "wait"} /\ got_packet => packet_buf = Answer
    /\ pc \in {"read", "copy"} => packet_buf = Answer
    /\ pc = "copy" => mac = <<>> \/ mac = <<call.dest>>
    /\ pc \in {"build", "deliver", "sent"} => mac = <<call.dest, call.dest>>

LEMMA BothHalves == ASSUME NEW S, NEW d \in S PROVE Append(<<d>>, d) = <<d, d>>
<1>1. /\ <<d>> \in Seq(S) /\ Len(<<d>>) = 1
      /\ <<d, d>> \in Seq(S) /\ Len(<<d, d>>) = 2
  OBVIOUS
<1>2. Append(<<d>>, d) \in Seq(S) /\ Len(Append(<<d>>, d)) = 2
  BY <1>1, AppendProperties
<1>3. \A i \in 1 .. 2 : Append(<<d>>, d)[i] = <<d, d>>[i]
  BY <1>1, AppendProperties
<1>4. QED
  BY <1>1, <1>2, <1>3, SeqEqual

LEMMA NextAnswered == Types /\ Answered /\ [Next]_vars => Answered'
<1> SUFFICES ASSUME Types, Answered, [Next]_vars
             PROVE  Answered'
  OBVIOUS
<1>1. ASSUME NEW c \in Calls, Start(c)
      PROVE  Answered'
  BY <1>1 DEF Start, KMalloc, Answered
<1>2. ASSUME NEW p \in Packets, Receive(p)
      PROVE  Answered'
  <2>1. /\ pc' = pc \/ pc' = "fault"
        /\ packet_buf' = p /\ misled' = (misled \/ (Listening /\ p # Answer))
        /\ UNCHANGED <<call, mac>>
    BY <1>2 DEF Receive, TakeFrame
  <2>2. Answer' = Answer
    BY <2>1 DEF Answer
  <2>3. QED
    BY <2>1, <2>2 DEF Answered, Listening
<1>3. CASE SumMessage \/ StoreChecksum \/ ArpResolve
  BY <1>3 DEF SumMessage, StoreChecksum, ArpResolve, KMalloc, thread, Answered
<1>4. CASE SendRequest
  BY <1>4 DEF SendRequest, KMalloc, inbox, Answered
<1>5. CASE FreeRequest \/ Wait \/ GiveUp
  BY <1>5 DEF FreeRequest, Wait, GiveUp, inbox, Answered, Answer
<1>6. CASE TakeFlag
  <2>1. got_packet
    BY <1>6 DEF TakeFlag, Waits, TimedOut, Types
  <2>2. QED
    BY <1>6, <2>1 DEF TakeFlag, Answered, Answer
<1>7. CASE AllocMac
  BY <1>7 DEF AllocMac, KMalloc, inbox, Answered, Answer
<1>8. CASE CopyMac
  <2>1. /\ pc = "copy" /\ mac' = Append(mac, packet_buf.from)
        /\ pc' = IF Len(mac') = 2 THEN "build" ELSE "copy"
        /\ UNCHANGED <<packet_buf, call, misled>>
    BY <1>8 DEF CopyMac, inbox
  <2>2. CASE ~misled
    <3>1. packet_buf.from = call.dest /\ (mac = <<>> \/ mac = <<call.dest>>)
      BY <2>1, <2>2 DEF Answered, Answer
    <3>2. CASE mac = <<>>
      <4>1. mac' = <<call.dest>> /\ Len(mac') = 1
        BY <2>1, <3>1, <3>2
      <4>2. pc' = "copy" /\ packet_buf' = Answer'
        BY <2>1, <2>2, <4>1 DEF Answered, Answer
      <4>3. QED
        BY <2>1, <4>1, <4>2 DEF Answered
    <3>3. CASE mac = <<call.dest>>
      <4>1. mac' = <<call.dest, call.dest>> /\ Len(mac') = 2
        <5>1. Append(<<call.dest>>, call.dest) = <<call.dest, call.dest>>
          BY BothHalves
        <5>2. QED
          BY <2>1, <3>1, <3>3, <5>1
      <4>2. pc' = "build"
        BY <2>1, <4>1
      <4>3. QED
        BY <2>1, <4>1, <4>2 DEF Answered
    <3>4. QED
      BY <3>1, <3>2, <3>3
  <2>3. CASE misled
    BY <2>1, <2>3 DEF Answered
  <2>4. QED
    BY <2>2, <2>3
<1>9. CASE BuildPacket \/ SendPacket \/ FreeFrame \/ Return
  BY <1>9 DEF BuildPacket, SendPacket, FreeFrame, Return, KMalloc, inbox, Answered, Answer
<1>10. CASE UNCHANGED vars
  BY <1>10 DEF vars, inbox, thread, Answered, Answer
<1>11. QED
  BY <1>1, <1>2, <1>3, <1>4, <1>5, <1>6, <1>7, <1>8, <1>9, <1>10 DEF Next, Thread

(* An IP packet goes to the host it is for, whenever no packet misled the  *)
(* call: for any hosts, any patience, any packets and answers.             *)
THEOREM PacketsAddressedRight == Spec => []AddressedRight
<1>1. Init => Answered
  BY DEF Init, Answered
<1>2. Types /\ Answered => AddressedRight
  BY DEF Answered, AddressedRight
<1>3. QED
  BY <1>1, <1>2, InitTypes, NextTypes, NextAnswered, PTL DEF Spec

(***************************************************************************)
(* Why a call returns: the steps it has still to reach, and within the     *)
(* three loops (internet_checksum, the wait of arp_resolve, the memcpy of  *)
(* the address) what each round uses up.                                   *)
(***************************************************************************)
Stage == [checksum |-> 11, resolve |-> 10, request |-> 9, asked |-> 8, wait |-> 7, read |-> 6,
          copy |-> 5, build |-> 4, deliver |-> 3, sent |-> 2, return |-> 1,
          idle |-> 0, fault |-> 0]

Rounds ==
  \/ pc = "checksum" /\ Len(words') < Len(words)
  \/ pc = "checksum" /\ words' = words /\ checksum' < checksum
  \/ pc = "wait" /\ spin' < spin
  \/ pc = "copy" /\ Len(mac) < Len(mac')

Interrupted == packets' = packets + 1 /\ UNCHANGED <<words, checksum, spin, mac>>

(* The thread never goes back to an earlier step of its call or repeats a  *)
(* round, and a packet that comes never sends it back: the interrupt       *)
(* handler changes nothing that a loop of the thread counts by.            *)
CallsAdvance ==
  [][pc # "idle" =>
       \/ Stage[pc'] < Stage[pc]
       \/ pc' = pc /\ (Rounds \/ Interrupted)]_vars

LEMMA AddAdvances ==
  ASSUME Sums, AddWord
  PROVE  Len(words') < Len(words)
<1>1. words \in Seq(Word) /\ words # <<>> /\ words' = Tail(words)
  BY DEF AddWord, Sums
<1>2. Len(words) = Len(words') + 1 /\ Len(words') \in Nat
  BY <1>1, HeadTailProperties
<1>3. QED
  BY <1>2

(* A fold takes 65535 times the carry off the sum.                         *)
LEMMA FoldAdvances ==
  ASSUME Sums, Fold
  PROVE  words' = words /\ checksum' < checksum
<1>1. checksum' = Low(checksum) + High(checksum) /\ words' = words /\ High(checksum) # 0
  BY DEF Fold, Folded
<1>2. checksum \in Nat
  BY DEF Sums
<1> DEFINE h == checksum \div 65536
<1> DEFINE l == checksum % 65536
<1>3. h \in Nat /\ l \in Nat /\ checksum = 65536 * h + l
  BY <1>2
<1>4. checksum' = l + h /\ h # 0
  BY <1>1 DEF Low, High
<1> HIDE DEF h, l
<1>5. QED
  BY <1>1, <1>3, <1>4

(* No call to the network stack goes on for ever: every step of the thread *)
(* lowers a measure that no packet raises (CallsAdvance), for any messages *)
(* that fit, any patience and any packets.                                 *)
THEOREM CallsMoveOn == ASSUME Short PROVE Spec => CallsAdvance
<1>1. ASSUME Sums, Types, [Next]_vars
      PROVE  [pc # "idle" => \/ Stage[pc'] < Stage[pc]
                             \/ pc' = pc /\ (Rounds \/ Interrupted)]_vars
  <2> SUFFICES ASSUME pc # "idle", ~UNCHANGED vars
               PROVE  Stage[pc'] < Stage[pc] \/ (pc' = pc /\ (Rounds \/ Interrupted))
    OBVIOUS
  <2> DEFINE Moves == Stage[pc'] < Stage[pc] \/ (pc' = pc /\ (Rounds \/ Interrupted))
  <2>1. CASE SumMessage
    <3>1. pc = "checksum" /\ pc' = pc
      BY <2>1 DEF SumMessage, thread
    <3>2. QED
      BY <1>1, <2>1, <3>1, AddAdvances, FoldAdvances DEF SumMessage, Rounds
  <2>2. CASE StoreChecksum
    BY <2>2 DEF StoreChecksum, Stage
  <2>3. CASE ArpResolve
    BY <2>3 DEF ArpResolve, KMalloc, Stage
  <2>4. CASE SendRequest
    BY <2>4 DEF SendRequest, KMalloc, Stage
  <2>5. CASE FreeRequest
    BY <2>5 DEF FreeRequest, Stage
  <2>6. CASE Wait
    BY <1>1, <2>6 DEF Wait, Waits, Rounds, Types
  <2>7. CASE GiveUp \/ TakeFlag
    BY <2>7 DEF GiveUp, TakeFlag, Stage
  <2>8. CASE AllocMac
    BY <2>8 DEF AllocMac, KMalloc, Stage
  <2>9. CASE CopyMac
    <3>1. /\ pc = "copy" /\ pc' \in {"build", "copy"}
          /\ mac' = Append(mac, packet_buf.from)
      BY <2>9 DEF CopyMac
    <3>2. mac \in Seq(Hosts \cup {Noise})
      BY <1>1 DEF Types
    <3>3. Len(mac) < Len(mac')
      <4>1. Len(mac') = Len(mac) + 1 /\ Len(mac) \in Nat
        BY <3>1, <3>2
      <4>2. QED
        BY <4>1
    <3>4. CASE pc' = "copy"
      BY <3>1, <3>3, <3>4 DEF Rounds
    <3>5. CASE pc' = "build"
      BY <3>1, <3>5 DEF Stage
    <3>6. QED
      BY <3>1, <3>4, <3>5
  <2>10. CASE BuildPacket
    BY <2>10 DEF BuildPacket, KMalloc, Stage
  <2>11. CASE SendPacket
    BY <2>11 DEF SendPacket, KMalloc, Stage
  <2>12. CASE FreeFrame \/ Return
    BY <2>12 DEF FreeFrame, Return, Stage
  <2>13. ASSUME NEW p \in Packets, Receive(p) PROVE Moves
    <3>1. /\ pc' = pc \/ pc' = "fault"
          /\ pc # "fault" /\ pc \in DOMAIN Stage
          /\ packets' = packets + 1 /\ UNCHANGED <<words, checksum, spin, mac>>
      BY <1>1, <2>13 DEF Receive, TakeFrame, sumVars, Types, Stage
    <3>2. CASE pc' = pc
      BY <3>1, <3>2 DEF Interrupted
    <3>3. CASE pc' = "fault"
      BY <1>1, <3>1, <3>3, SMTT(30) DEF Stage, Types
    <3>4. QED
      BY <3>1, <3>2, <3>3
  <2>14. ASSUME NEW c \in Calls, Start(c) PROVE FALSE
    BY <2>14 DEF Start
  <2>15. QED
    BY <1>1, <2>1, <2>2, <2>3, <2>4, <2>5, <2>6, <2>7, <2>8, <2>9, <2>10, <2>11, <2>12, <2>13,
       <2>14 DEF Next, Thread
<1>2. Sums /\ [Next]_vars => Sums'
  BY NextSums
<1>3. QED
  BY <1>1, <1>2, InitSums, InitTypes, NextTypes, PTL DEF Spec, CallsAdvance
=============================================================================
