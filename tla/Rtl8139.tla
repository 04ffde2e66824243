------------------------------ MODULE Rtl8139 ------------------------------
(***************************************************************************)
(* The network card driver, drivers/net/rtl8139.c, against the card: the   *)
(* interrupt handler one register access at a time, the receive ring the   *)
(* card writes behind its back, the edge-triggered interrupt line          *)
(* (intr/irq.c programs no level bit), and the transmit descriptors.       *)
(* There is one processor and the boot thread only halts, so the handler   *)
(* runs alone; the card runs at any time.  The model starts where          *)
(* rtl8139_init has told the card to accept frames.                        *)
(*                                                                         *)
(* A packet is its arrival number and its kind; the kind decides the       *)
(* length field of its ring header.  Status bits the handler only logs     *)
(* are represented by one of them, RX_BUFFER_OVERFLOW.                     *)
(***************************************************************************)
EXTENDS Integers

CONSTANTS
  RxBufferSize,   \* RX_BUFFER_SIZE
  PacketMin,      \* PACKET_SIZE_MIN
  PacketMax,      \* PACKET_SIZE_MAX
  Length,         \* kind |-> header length field, for the kinds on the wire
  TxCount,        \* TX_BUFFER_COUNT
  Early,          \* whether frames may arrive before rtl8139_init is done
  MaxFrames       \* bound: frames the wire delivers

Kinds == DOMAIN Length
Arp == {"request", "reply"} \cap Kinds
Align(n) == ((n + 3) \div 4) * 4
Space(k) == Align(Length[k] + 4)       \* ring bytes: header, packet, padding

ASSUME RingAssumption == RxBufferSize \in Nat \ {0} /\ RxBufferSize % 4 = 0
ASSUME PacketAssumption ==
  /\ RxBufferSize < 65536
  /\ \A k \in Kinds : Length[k] \in Nat /\ Space(k) < RxBufferSize
ASSUME TxAssumption == TxCount \in Nat \ {0}
ASSUME WireAssumption == MaxFrames \in Nat /\ Early \in BOOLEAN

Packet == [id : 1 .. MaxFrames, kind : Kinds]
NoPacket == [id |-> 0, kind |-> "none"]      \* memory no packet starts in
Offsets == {o \in 0 .. RxBufferSize - 1 : o % 4 = 0}
Descriptors == 0 .. TxCount - 1
Garbled == -1

VARIABLES
  \* the card
  frames,        \* frames the wire has delivered
  accepted,      \* frames stored in the ring
  isr,           \* REG_ISR
  capr,          \* REG_CAPR
  cbr,           \* where the card stores the next packet
  ring,          \* what starts at each offset of the receive buffer
  own,           \* TX_STATUS_OWN of each descriptor
  curtx,         \* the descriptor the card looks at next
  irq,           \* an edge of the line latched by the local APIC
  \* the driver
  pc, status,    \* the processor's next step; the handler's copy of REG_ISR
  rxbuf_off, got_packet, packet_buf,
  next_txbuf,
  scan,          \* descriptors rtl8139_send_packet has looked at
  txmem,         \* the packet in the transmit memory: txbufs[] truncates
                 \* every address to 0, so all descriptors share it
  \* history
  taken,         \* packets recieve_packet has consumed
  queued,        \* what each descriptor was last asked to send
  lost,          \* an edge went by while its I/O APIC entry was masked
  crowded        \* rtl8139_send_packet has found a descriptor in use

card == <<frames, accepted, isr, capr, cbr, ring, own, curtx, irq, lost>>
rx == <<rxbuf_off, got_packet, packet_buf, taken>>
tx == <<next_txbuf, scan, txmem, queued, crowded>>
vars == <<card, pc, status, rx, tx>>

Init ==
  /\ frames = 0 /\ accepted = 0
  /\ isr = {}
  /\ capr = 65536 - 16 /\ cbr = 0
  /\ ring = [o \in Offsets |-> NoPacket]
  /\ own = [d \in Descriptors |-> TRUE] /\ curtx = 0
  /\ irq = FALSE
  /\ pc = "init" /\ status = {}
  /\ rxbuf_off = 0 /\ got_packet = FALSE /\ packet_buf = NoPacket
  /\ next_txbuf = 0 /\ scan = 0 /\ txmem = 0
  /\ taken = 0 /\ queued = [d \in Descriptors |-> 0]
  /\ lost = FALSE /\ crowded = FALSE

-----------------------------------------------------------------------------
(* Until register_irq the I/O APIC entry is masked.                        *)
Masked == pc \in {"init", "register"}

(* The card.  A rising edge of its line is latched, also while the handler *)
(* runs; an edge of a masked line is lost, and a line that stays high      *)
(* gives no second interrupt.                                              *)
Raise(bit) ==
  /\ isr' = isr \cup {bit}
  /\ irq' = (irq \/ (isr = {} /\ ~Masked))
  /\ lost' = (lost \/ (isr = {} /\ Masked))

ReadPointer == ((capr + 16) % 65536) % RxBufferSize
Avail == (RxBufferSize + ReadPointer - cbr) % RxBufferSize
Fits(k) == Avail = 0 \/ Space(k) < Avail

(* WRAP_INHIBIT: a packet that starts near the end runs on past it.        *)
Stored(p) ==
  [o \in Offsets |->
     IF o = cbr THEN p
     ELSE IF o \in cbr .. cbr + Space(p.kind) - 1 THEN NoPacket ELSE ring[o]]

Arrives == frames < MaxFrames /\ (Masked => Early)

Receive(k) ==
  /\ Arrives /\ Fits(k)
  /\ frames' = frames + 1
  /\ accepted' = accepted + 1
  /\ ring' = Stored([id |-> accepted', kind |-> k])
  /\ cbr' = (cbr + Space(k)) % RxBufferSize
  /\ Raise("RXOK")
  /\ UNCHANGED <<capr, own, curtx, pc, status, rx, tx>>

Overflow(k) ==
  /\ Arrives /\ ~Fits(k)
  /\ frames' = frames + 1
  /\ Raise("RX_BUFFER_OVERFLOW")
  /\ UNCHANGED <<accepted, capr, cbr, ring, own, curtx, pc, status, rx, tx>>

(* Descriptors are served in rotation.                                     *)
Transmit ==
  /\ ~own[curtx]
  /\ own' = [own EXCEPT ![curtx] = TRUE]
  /\ curtx' = (curtx + 1) % TxCount
  /\ Raise("TXOK")
  /\ UNCHANGED <<frames, accepted, capr, cbr, ring, pc, status, rx, tx>>

-----------------------------------------------------------------------------
(* The end of rtl8139_init: REG_ISR is cleared, then the handler is        *)
(* registered (and its I/O APIC entry unmasked) and interrupts enabled.    *)
ClearStatus ==
  /\ pc = "init"
  /\ isr' = {}
  /\ lost' = FALSE
  /\ pc' = "register"
  /\ UNCHANGED <<frames, accepted, capr, cbr, ring, own, curtx, irq, status, rx, tx>>

RegisterIrq ==
  /\ pc = "register"
  /\ pc' = "idle"
  /\ UNCHANGED <<card, status, rx, tx>>

(* rtl8139_isr.                                                            *)
TakeInterrupt ==
  /\ pc = "idle" /\ irq
  /\ irq' = FALSE
  /\ pc' = "read"
  /\ UNCHANGED <<frames, accepted, isr, capr, cbr, ring, own, curtx, lost, status, rx, tx>>

ReadStatus ==
  /\ pc = "read"
  /\ status' = isr
  /\ pc' = "ack"
  /\ UNCHANGED <<card, rx, tx>>

(* Mutants of AckStatus: the handler leaves after one round; it clears     *)
(* nothing.                                                                *)
AckOnce ==
  /\ pc = "ack"
  /\ isr' = isr \ status
  /\ pc' = IF status = {} \/ "RXOK" \notin status THEN "exit" ELSE "receive"
  /\ UNCHANGED <<frames, accepted, capr, cbr, ring, own, curtx, irq, lost, status, rx, tx>>

AckNothing ==
  /\ pc = "ack"
  /\ pc' = IF status = {} THEN "exit"
           ELSE IF "RXOK" \in status THEN "receive" ELSE "read"
  /\ UNCHANGED <<card, status, rx, tx>>

(* REG_ISR clears the bits written to it; bits the handler only logs send  *)
(* it round the loop again.                                                *)
AckStatus ==
  /\ pc = "ack"
  /\ isr' = isr \ status
  /\ pc' = IF status = {} THEN "exit"
           ELSE IF "RXOK" \in status THEN "receive" ELSE "read"
  /\ UNCHANGED <<frames, accepted, capr, cbr, ring, own, curtx, irq, lost, status, rx, tx>>

IsBad(p) == Length[p.kind] >= PacketMax \/ Length[p.kind] < PacketMin

(* What recieve_packet can find at rxbuf_off: anything at all where no     *)
(* packet starts.                                                          *)
Headers ==
  IF ring[rxbuf_off] # NoPacket THEN {ring[rxbuf_off]} ELSE [id : {0}, kind : Kinds]

(* recieve_packet returns on a bad packet without moving rxbuf_off.        *)
ReceiveBad ==
  /\ pc = "receive"
  /\ \E p \in Headers : IsBad(p)
  /\ pc' = "read"
  /\ UNCHANGED <<card, status, rx, tx>>

(* Mutant of Advance: the ring does not wrap.                              *)
AdvanceNoWrap(p) == Align(rxbuf_off + Length[p.kind] + 4) % (2 * RxBufferSize)

Advance(p) == Align(rxbuf_off + Length[p.kind] + 4) % RxBufferSize

(* Mutant of CaprFor: the card's bias is forgotten.                        *)
CaprForUnbiased(off) == off

CaprFor(off) == (off - 16) % 65536

(* id_packet answers every ARP packet.                                     *)
ReceiveGood ==
  /\ pc = "receive"
  /\ \E p \in Headers :
       /\ ~IsBad(p)
       /\ packet_buf' = p
       /\ rxbuf_off' = Advance(p)
       /\ pc' = IF p.kind \in Arp THEN "send" ELSE "read"
  /\ capr' = CaprFor(rxbuf_off')
  /\ got_packet' = TRUE
  /\ taken' = taken + 1
  /\ UNCHANGED <<frames, accepted, isr, cbr, ring, own, curtx, irq, lost, status, tx>>

(* arp_respond, ethernet_send and rtl8139_send_packet: the first           *)
(* descriptor from next_txbuf on that the driver owns.                     *)
Candidate == (next_txbuf + scan) % TxCount

LookFurther ==
  /\ pc = "send" /\ scan < TxCount /\ ~own[Candidate]
  /\ scan' = scan + 1
  /\ crowded' = TRUE
  /\ UNCHANGED <<card, pc, status, rx, next_txbuf, txmem, queued>>

(* Mutant of Send: next_txbuf stays on the descriptor just used.           *)
SendSame ==
  /\ pc = "send" /\ scan < TxCount /\ own[Candidate]
  /\ txmem' = packet_buf.id
  /\ own' = [own EXCEPT ![Candidate] = FALSE]
  /\ queued' = [queued EXCEPT ![Candidate] = packet_buf.id]
  /\ next_txbuf' = Candidate
  /\ scan' = 0
  /\ pc' = "read"
  /\ UNCHANGED <<frames, accepted, isr, capr, cbr, ring, curtx, irq, lost, status, rx, crowded>>

Send ==
  /\ pc = "send" /\ scan < TxCount /\ own[Candidate]
  /\ txmem' = packet_buf.id
  /\ own' = [own EXCEPT ![Candidate] = FALSE]
  /\ queued' = [queued EXCEPT ![Candidate] = packet_buf.id]
  /\ next_txbuf' = (Candidate + 1) % TxCount
  /\ scan' = 0
  /\ pc' = "read"
  /\ UNCHANGED <<frames, accepted, isr, capr, cbr, ring, curtx, irq, lost, status, rx, crowded>>

(* No descriptor: hwbuf is -1.  next_txbuf becomes 0, the packet is copied *)
(* to whatever txbufs[-1] reads as, below 256: onto the transmit memory or *)
(* across it; and its size is written to a register that is not a          *)
(* descriptor, so nothing is sent.                                         *)
SendNowhere ==
  /\ pc = "send" /\ scan = TxCount
  /\ txmem' \in {packet_buf.id, Garbled}
  /\ next_txbuf' = 0
  /\ scan' = 0
  /\ pc' = "read"
  /\ UNCHANGED <<card, status, rx, queued, crowded>>

(* Once more outw(REG_ISR, 0x5): INT_RXOK and INT_TXOK.                    *)
ClearAgain ==
  /\ pc = "exit"
  /\ isr' = isr \ {"RXOK", "TXOK"}
  /\ pc' = "eoi"
  /\ UNCHANGED <<frames, accepted, capr, cbr, ring, own, curtx, irq, lost, status, rx, tx>>

Eoi ==
  /\ pc = "eoi"
  /\ pc' = "idle"
  /\ status' = {}
  /\ UNCHANGED <<card, rx, tx>>

(* rtl8139_read_packet, after rtl8139_got_packet.                          *)
ReadPacket ==
  /\ pc = "idle" /\ got_packet
  /\ got_packet' = FALSE
  /\ UNCHANGED <<card, pc, status, rxbuf_off, packet_buf, taken, tx>>

Processor ==
  \/ ClearStatus \/ RegisterIrq
  \/ TakeInterrupt \/ ReadStatus \/ AckStatus
  \/ ReceiveBad \/ ReceiveGood
  \/ LookFurther \/ Send \/ SendNowhere
  \/ ClearAgain \/ Eoi

Next ==
  \/ \E k \in Kinds : Receive(k) \/ Overflow(k)
  \/ Transmit
  \/ Processor
  \/ ReadPacket

Spec == Init /\ [][Next]_vars

(* The processor runs and the card transmits; frames need never come.      *)
FairSpec == Spec /\ WF_vars(Processor) /\ WF_vars(Transmit)
-----------------------------------------------------------------------------
TypeOK ==
  /\ frames \in 0 .. MaxFrames /\ accepted \in 0 .. MaxFrames
  /\ isr \subseteq {"RXOK", "TXOK", "RX_BUFFER_OVERFLOW"}
  /\ capr \in Nat /\ capr < 65536
  /\ cbr \in Offsets
  /\ ring \in [Offsets -> Packet \cup {NoPacket}]
  /\ own \in [Descriptors -> BOOLEAN] /\ curtx \in Descriptors
  /\ irq \in BOOLEAN
  /\ pc \in {"init", "register", "idle", "read", "ack", "receive", "send", "exit", "eoi"}
  /\ status \subseteq {"RXOK", "TXOK", "RX_BUFFER_OVERFLOW"}
  /\ rxbuf_off \in Offsets
  /\ got_packet \in BOOLEAN
  /\ packet_buf \in [id : 0 .. MaxFrames, kind : Kinds \cup {"none"}]
  /\ next_txbuf \in Descriptors /\ scan \in 0 .. TxCount
  /\ txmem \in -1 .. MaxFrames
  /\ taken \in 0 .. MaxFrames
  /\ queued \in [Descriptors -> 0 .. MaxFrames]
  /\ lost \in BOOLEAN /\ crowded \in BOOLEAN

(* recieve_packet never looks at memory the card has not filled: the       *)
(* handler comes to it only with an unread packet in the ring, however     *)
(* packets arrive between the two accesses to REG_ISR.                     *)
NoPhantomRead == pc = "receive" => taken < accepted

(* No interrupt is lost: when the handler is not running and the card's    *)
(* line is up, its edge is waiting, unless the edge came after rtl8139_init*)
(* had cleared REG_ISR and before register_irq had unmasked the line: the  *)
(* card is then silent for good.  With an edge-triggered line the handler  *)
(* must have seen REG_ISR empty once before it leaves.                     *)
EdgeLatched == pc = "idle" /\ isr # {} => irq \/ lost

(* Packets reach packet_buf in order, none twice, none skipped: rxbuf_off  *)
(* and the card agree on where the oldest unread packet starts, however    *)
(* often the ring has wrapped, and the card has not overwritten it.        *)
PQ == INSTANCE PacketQueue
        WITH queue <- [i \in 1 .. accepted - taken |-> taken + i],
             buffer <- packet_buf.id

Delivers == PQ!Spec

(* The handler always comes to an end, whatever arrives meanwhile.         *)
IsrReturns == pc # "idle" ~> pc = "idle"

(* Every packet handed to the card leaves: the driver and the card go round*)
(* the descriptors together, until a packet finds its descriptor in use.   *)
SentLeaves == \A d \in Descriptors : ~own[d] ~> (own[d] \/ crowded)

(* Every packet stored in the ring is identified.                          *)
PacketsIdentified == accepted > taken ~> accepted = taken

(* What a descriptor is transmitting is what it was given.                 *)
SentIntact == \A d \in Descriptors : ~own[d] => txmem = queued[d]
=============================================================================
