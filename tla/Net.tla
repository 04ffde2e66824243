-------------------------------- MODULE Net --------------------------------
(***************************************************************************)
(* The network stack, net/*.c over drivers/net/rtl8139.c: one thread that  *)
(* calls udp_send_ipv4 or icmp_send_msg_ipv4, down through ipv4_send,      *)
(* arp_resolve and ethernet_send, and the interrupt handler, which takes a *)
(* packet and answers ARP between any two steps of the thread.  Nothing in *)
(* the kernel makes these calls yet; the model is of the calls it offers.  *)
(*                                                                         *)
(* kmalloc, kfree and rtl8139_send_packet are one step each and what the   *)
(* handler runs is one step too, so the handler never finds the heap or    *)
(* the transmit buffer half changed.  Of the heap only bytes_allocated     *)
(* counts here (KHeap has the rest), and of an address its host: a host's  *)
(* hardware address is the host itself.                                    *)
(***************************************************************************)
EXTENDS Checksum

CONSTANTS
  Hosts, Noise,   \* hosts that answer ARP; what any other packet holds
  Messages,       \* what callers send, [head, stale, payload, odd]
  HeapBytes,      \* the limit of kmalloc
  Patience,       \* the rounds of arp_resolve's wait, ten billion
  MaxCalls,       \* bound: calls made
  MaxPackets      \* bound: packets received

NoPacket == [kind |-> "none", from |-> Noise]
NoMessage == [head |-> 0, stale |-> 0, payload |-> <<>>, odd |-> <<>>]
NoCall == [protocol |-> "none", dest |-> Noise, msg |-> NoMessage]
Packets == [kind : {"reply"}, from : Hosts] \cup [kind : {"arp", "other"}, from : {Noise}]
Byte == 0 .. 255
Word == {n \in Nat : n < 65536}

ASSUME HostsAssumption == Noise \notin Hosts
ASSUME MessagesAssumption ==
  Messages \subseteq [head : Word, stale : Word, payload : Seq(Word), odd : Seq(Byte)]
ASSUME BoundsAssumption ==
  HeapBytes \in Nat /\ Patience \in Nat /\ MaxCalls \in Nat /\ MaxPackets \in Nat

VARIABLES
  bytes_allocated,
  got_packet, packet_buf,
  pc, call,       \* the thread's next step; the arguments of its call
  spin, mac,      \* arp_resolve's spin, the address it found, in halves
  asked,          \* hosts that have been sent a request
  calls, packets, \* calls made, packets received
  leaked,         \* history: bytes allocated that nothing will ever free
  misled          \* history: a packet was pending when the call sent its
                  \* request, or came while it listened, that is no answer

thread == <<pc, call, spin, mac, calls>>
inbox == <<got_packet, packet_buf>>
heap == <<bytes_allocated, leaked>>
vars == <<sumVars, heap, inbox, thread, asked, packets, misled>>

Init ==
  /\ words = <<>> /\ checksum = 0 /\ total = 0
  /\ bytes_allocated = 0 /\ leaked = 0
  /\ got_packet = FALSE /\ packet_buf = NoPacket
  /\ pc = "idle" /\ call = NoCall
  /\ spin = 0 /\ mac = <<>>
  /\ asked = {} /\ calls = 0 /\ packets = 0 /\ misled = FALSE

-----------------------------------------------------------------------------
(* Sizes: the headers, the message behind that of ICMP or UDP, a MAC.      *)
Arp == 28
Ethernet == 14
Ipv4 == 20
Mac == 6
Header == [icmp |-> 4, udp |-> 6]
Length(c) == Header[c.protocol] + 2 * Len(c.msg.payload) + Len(c.msg.odd)

(* Mutant of KMalloc: nothing is refused.                                  *)
KMallocAlways(n, next) ==
  bytes_allocated' = bytes_allocated + n /\ pc' = next

(* kmalloc, and what its callers do with the block: none of them looks for *)
(* NULL, so a refusal is a write to address 0.                             *)
KMalloc(n, next) ==
  IF bytes_allocated + n <= HeapBytes
    THEN bytes_allocated' = bytes_allocated + n /\ pc' = next
    ELSE bytes_allocated' = bytes_allocated /\ pc' = "fault"

KFree(n) == bytes_allocated' = bytes_allocated - n

Answer == [kind |-> "reply", from |-> call.dest]
Listening == pc \in {"asked", "wait", "read", "copy"}

(* recieve_packet: the packet in packet_buf, and the flag raised.          *)
TakeFrame(p) == got_packet' = TRUE /\ packet_buf' = p

(* The handler: recieve_packet with id_packet, which has arp_respond answer*)
(* every ARP packet.  The packet it allocates is never freed.  A host that *)
(* has been asked answers when it likes, and as often as it likes.         *)
Receive(p) ==
  /\ pc # "fault" /\ packets < MaxPackets
  /\ p.kind = "reply" => p.from \in asked
  /\ packets' = packets + 1
  /\ TakeFrame(p)
  /\ misled' = (misled \/ (Listening /\ p # Answer))
  /\ \/ /\ p.kind = "other"
        /\ UNCHANGED <<heap, pc>>
     \/ /\ p.kind # "other" /\ bytes_allocated + Arp + Ethernet + Arp <= HeapBytes
        /\ bytes_allocated' = bytes_allocated + Arp
        /\ leaked' = leaked + Arp
        /\ UNCHANGED pc
     \/ /\ p.kind # "other" /\ bytes_allocated + Arp + Ethernet + Arp > HeapBytes
        /\ pc' = "fault"
        /\ UNCHANGED heap
  /\ UNCHANGED <<sumVars, call, spin, mac, asked, calls>>

-----------------------------------------------------------------------------
(* icmp_send_msg_ipv4: the checksum covers its own field, which holds what *)
(* the memory held.                                                        *)
Start(c) ==
  /\ pc = "idle" /\ calls < MaxCalls
  /\ call' = c
  /\ calls' = calls + 1
  /\ KMalloc(Length(c), IF c.protocol = "icmp" THEN "checksum" ELSE "resolve")
  /\ words' = IF c.protocol = "icmp" THEN <<c.msg.head, c.msg.stale>> \o c.msg.payload ELSE <<>>
  /\ checksum' = 0 /\ total' = 0
  /\ UNCHANGED <<leaked, inbox, spin, mac, asked, packets, misled>>

SumMessage ==
  /\ pc = "checksum"
  /\ AddWord \/ Fold
  /\ UNCHANGED <<heap, inbox, thread, asked, packets, misled>>

StoreChecksum ==
  /\ pc = "checksum" /\ Summed
  /\ pc' = "resolve"
  /\ UNCHANGED <<sumVars, heap, inbox, call, spin, mac, calls, asked, packets, misled>>

(* arp_resolve fills in its request.                                       *)
ArpResolve ==
  /\ pc = "resolve"
  /\ KMalloc(Arp, "request")
  /\ UNCHANGED <<sumVars, leaked, inbox, call, spin, mac, calls, asked, packets, misled>>

(* ethernet_send: allocate, send, then free.  The answer may come any time *)
(* from now on; a packet that is still pending may be taken for it.        *)
SendRequest ==
  /\ pc = "request"
  /\ KMalloc(Ethernet + Arp, "asked")
  /\ asked' = IF pc' = "asked" THEN asked \cup {call.dest} ELSE asked
  /\ misled' = got_packet
  /\ UNCHANGED <<sumVars, leaked, inbox, call, spin, mac, calls, packets>>

(* Mutant of FreeRequest: arp_resolve keeps its packet.                    *)
FreeRequestKeeps ==
  /\ pc = "asked"
  /\ KFree(Ethernet + Arp)
  /\ spin' = Patience
  /\ pc' = "wait"
  /\ UNCHANGED <<sumVars, leaked, inbox, call, mac, calls, asked, packets, misled>>

FreeRequest ==
  /\ pc = "asked"
  /\ KFree(Ethernet + Arp + Arp)
  /\ spin' = Patience
  /\ pc' = "wait"
  /\ UNCHANGED <<sumVars, leaked, inbox, call, mac, calls, asked, packets, misled>>

(* while (!got_packet() && spin--): the round that finds spin at 0 leaves  *)
(* it at -1.                                                               *)
Waits == ~got_packet /\ spin >= 0

(* Mutant of Wait: the decrement is lost.                                  *)
WaitForEver ==
  /\ pc = "wait" /\ Waits
  /\ UNCHANGED vars

Wait ==
  /\ pc = "wait" /\ Waits
  /\ spin' = spin - 1
  /\ UNCHANGED <<sumVars, heap, inbox, pc, call, mac, calls, asked, packets, misled>>

(* Mutant of TimedOut: the count is expected to end at 0.                  *)
TimedOutAtZero == spin = 0

(* Also the answer that came in the last round is given up, and stays      *)
(* pending for the next call.                                              *)
TimedOut == spin <= 0

GiveUp ==
  /\ pc = "wait" /\ ~Waits /\ TimedOut
  /\ pc' = "return"
  /\ UNCHANGED <<sumVars, heap, inbox, call, spin, mac, calls, asked, packets, misled>>

(* rtl8139_read_packet clears the flag and returns packet_buf itself, which*)
(* the handler goes on writing to: a packet that comes now is both read by *)
(* this call and pending for the next.                                     *)
TakeFlag ==
  /\ pc = "wait" /\ ~Waits /\ ~TimedOut
  /\ got_packet' = FALSE
  /\ pc' = "read"
  /\ UNCHANGED <<sumVars, heap, packet_buf, call, spin, mac, calls, asked, packets, misled>>

(* The block that carries the address is never freed.                      *)
AllocMac ==
  /\ pc = "read"
  /\ KMalloc(Mac, "copy")
  /\ mac' = <<>>
  /\ leaked' = leaked + Mac
  /\ UNCHANGED <<sumVars, inbox, call, spin, calls, asked, packets, misled>>

(* The sender of the packet, whatever it is: op is looked at for the log.  *)
(* The handler may replace the packet in the middle of the memcpy.         *)
CopyMac ==
  /\ pc = "copy"
  /\ mac' = Append(mac, packet_buf.from)
  /\ pc' = IF Len(mac') = 2 THEN "build" ELSE "copy"
  /\ UNCHANGED <<sumVars, heap, inbox, call, spin, calls, asked, packets, misled>>

(* ipv4_send fills in its packet, which it never frees.                    *)
BuildPacket ==
  /\ pc = "build"
  /\ KMalloc(Ipv4 + Length(call), "deliver")
  /\ leaked' = leaked + Ipv4 + Length(call)
  /\ UNCHANGED <<sumVars, inbox, call, spin, mac, calls, asked, packets, misled>>

SendPacket ==
  /\ pc = "deliver"
  /\ KMalloc(Ethernet + Ipv4 + Length(call), "sent")
  /\ UNCHANGED <<sumVars, leaked, inbox, call, spin, mac, calls, asked, packets, misled>>

FreeFrame ==
  /\ pc = "sent"
  /\ KFree(Ethernet + Ipv4 + Length(call))
  /\ pc' = "return"
  /\ UNCHANGED <<sumVars, leaked, inbox, call, spin, mac, calls, asked, packets, misled>>

Return ==
  /\ pc = "return"
  /\ KFree(Length(call))
  /\ pc' = "idle"
  /\ UNCHANGED <<sumVars, leaked, inbox, call, spin, mac, calls, asked, packets, misled>>

Thread ==
  \/ SumMessage \/ StoreChecksum
  \/ ArpResolve \/ SendRequest \/ FreeRequest \/ Wait \/ GiveUp
  \/ TakeFlag \/ AllocMac \/ CopyMac
  \/ BuildPacket \/ SendPacket \/ FreeFrame \/ Return

Calls == [protocol : {"icmp", "udp"}, dest : Hosts, msg : Messages]

Next ==
  \/ \E c \in Calls : Start(c)
  \/ Thread
  \/ \E p \in Packets : Receive(p)

Spec == Init /\ [][Next]_vars

(* The thread runs; nobody has to call, and no packet has to come.         *)
FairSpec == Spec /\ WF_vars(Thread)

-----------------------------------------------------------------------------
TypeOK ==
  /\ words \in Seq(Word) /\ checksum \in Nat /\ total \in Nat
  /\ bytes_allocated \in 0 .. HeapBytes /\ leaked \in Nat
  /\ got_packet \in BOOLEAN /\ misled \in BOOLEAN
  /\ packet_buf \in Packets \cup {NoPacket}
  /\ pc \in {"idle", "checksum", "resolve", "request", "asked", "wait", "read", "copy",
            "build", "deliver", "sent", "return", "fault"}
  /\ call \in Calls \cup {NoCall} /\ (pc \notin {"idle", "fault"} => call \in Calls)
  /\ spin \in -1 .. Patience
  /\ mac \in Seq(Hosts \cup {Noise}) /\ Len(mac) <= 2
  /\ asked \subseteq Hosts
  /\ calls \in Nat /\ packets \in Nat

(* An IP packet goes to the host it is for, unless a packet was pending    *)
(* when arp_resolve sent its request, or one that is not the answer came   *)
(* before the address was copied: what is left in packet_buf by an earlier *)
(* call, or by a wait that ran out, is never taken for an address.         *)
AddressedRight == pc \in {"build", "deliver", "sent"} => mac = <<call.dest, call.dest>> \/ misled

(* What the thread holds at a step of the call c.                          *)
Held(at, c) ==
  CASE at = "idle" -> 0
    [] at \in {"checksum", "resolve", "wait", "read", "copy", "build", "deliver", "return"} ->
         Length(c)
    [] at = "request" -> Length(c) + Arp
    [] at = "asked" -> Length(c) + Arp + (Ethernet + Arp)
    [] at = "sent" -> Length(c) + (Ethernet + Ipv4 + Length(c))

(* Every byte taken from the heap is held by the call under way or lost for*)
(* good: 28 with every ARP packet answered, 26 and the message with every  *)
(* IP packet sent, and nothing else.                                       *)
LeaksOnly == pc # "fault" => bytes_allocated = leaked + Held(pc, call)

(* internet_checksum returns the complement of the ones' complement sum of *)
(* its words: what it drops is a multiple of 65535, and a sum of 0 means   *)
(* that all the words were 0.                                              *)
SumRight ==
  /\ checksum % 65535 = total % 65535
  /\ checksum = 0 => total = 0
  /\ pc = "resolve" => Result \in Word

(* Every call returns, whatever packets come or do not come, unless the    *)
(* heap is full.                                                           *)
CallsReturn == pc # "idle" ~> pc \in {"idle", "fault"}
=============================================================================
