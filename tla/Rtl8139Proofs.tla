--------------------------- MODULE Rtl8139Proofs ---------------------------
(***************************************************************************)
(* Proofs about Rtl8139, for every ring and packet size, any number of     *)
(* descriptors and any number of frames.                                   *)
(***************************************************************************)
EXTENDS Rtl8139, SequenceTheorems, TLAPS

(***************************************************************************)
(* Why recieve_packet always finds a packet: an INT_RXOK bit is worth one  *)
(* unread packet.  The bit in REG_ISR and the one in the handler's copy    *)
(* are the same token until AckStatus clears the first; after that the     *)
(* card may raise it anew, but only by storing another packet.             *)
(***************************************************************************)
InHand == pc = "receive"

Tokens ==
  /\ accepted \in Nat /\ taken \in Nat
  /\ taken <= accepted
  /\ "RXOK" \in isr => taken + 1 <= accepted
  /\ InHand => taken + 1 <= accepted
  /\ InHand /\ "RXOK" \in isr => taken + 2 <= accepted
  /\ pc = "ack" /\ "RXOK" \in status => "RXOK" \in isr

LEMMA InitTokens == Init => Tokens
  BY DEF Init, Tokens, InHand

LEMMA NextTokens == Tokens /\ [Next]_vars => Tokens'
<1> SUFFICES ASSUME Tokens, [Next]_vars
             PROVE  Tokens'
  OBVIOUS
<1> USE DEF Tokens, InHand
<1>1. ASSUME NEW k \in Kinds, Receive(k)
      PROVE  Tokens'
  BY <1>1 DEF Receive, Raise, rx
<1>2. ASSUME NEW k \in Kinds, Overflow(k)
      PROVE  Tokens'
  BY <1>2 DEF Overflow, Raise, rx
<1>3. CASE Transmit
  BY <1>3 DEF Transmit, Raise, rx
<1>4. CASE ClearStatus \/ RegisterIrq \/ TakeInterrupt
  BY <1>4 DEF ClearStatus, RegisterIrq, TakeInterrupt, card, rx
<1>5. CASE ReadStatus
  BY <1>5 DEF ReadStatus, card, rx
<1>6. CASE AckStatus
  <2>1. /\ pc = "ack" /\ UNCHANGED <<accepted, taken, status>>
        /\ isr' = isr \ status
        /\ pc' \in {"exit", "receive", "read"}
        /\ pc' = "receive" => "RXOK" \in status
    BY <1>6 DEF AckStatus, rx
  <2>2. CASE "RXOK" \in status
    BY <2>1, <2>2
  <2>3. CASE "RXOK" \notin status
    BY <2>1, <2>3
  <2>4. QED
    BY <2>2, <2>3
<1>7. CASE ReceiveBad
  BY <1>7 DEF ReceiveBad, card, rx
<1>8. CASE ReceiveGood
  <2>1. /\ pc = "receive" /\ pc' \in {"send", "read"}
        /\ taken' = taken + 1 /\ UNCHANGED <<accepted, isr>>
    BY <1>8 DEF ReceiveGood
  <2>2. QED
    BY <2>1
<1>9. CASE LookFurther \/ SendNowhere
  BY <1>9 DEF LookFurther, SendNowhere, card, rx
<1>10. CASE Send
  BY <1>10 DEF Send, rx
<1>11. CASE ClearAgain \/ Eoi
  BY <1>11 DEF ClearAgain, Eoi, card, rx
<1>12. CASE ReadPacket
  BY <1>12 DEF ReadPacket, card
<1>13. CASE UNCHANGED vars
  BY <1>13 DEF vars, card, rx
<1>14. QED
  BY <1>1, <1>2, <1>3, <1>4, <1>5, <1>6, <1>7, <1>8, <1>9, <1>10, <1>11, <1>12,
     <1>13 DEF Next, Processor

(* rtl8139_isr enters recieve_packet only with an unread packet in the     *)
(* ring, whatever arrives between reading REG_ISR and clearing it.         *)
THEOREM PacketInHand == Spec => []NoPhantomRead
<1>1. Tokens => NoPhantomRead
  BY DEF Tokens, InHand, NoPhantomRead
<1>2. QED
  BY <1>1, InitTokens, NextTokens, PTL DEF Spec

-----------------------------------------------------------------------------
(***************************************************************************)
(* Why no interrupt is lost: once the handler has read an empty REG_ISR    *)
(* the line is down, so whatever raises it again leaves an edge latched;   *)
(* from there to the end of the handler bits are only taken away.  Before  *)
(* the handler is registered a line that goes up is what `lost' records.   *)
(***************************************************************************)
Leaving == pc \in {"idle", "exit", "eoi"} \/ (pc = "ack" /\ status = {})

Quiet ==
  /\ pc = "register" /\ isr # {} => lost
  /\ Leaving /\ isr # {} => irq \/ lost
  /\ irq \in BOOLEAN /\ lost \in BOOLEAN

LEMMA InitQuiet == Init => Quiet
<1> SUFFICES ASSUME Init
             PROVE  Quiet
  OBVIOUS
<1>1. isr = {} /\ irq = FALSE /\ lost = FALSE
  BY DEF Init
<1>2. irq \in BOOLEAN /\ lost \in BOOLEAN
  BY <1>1, Zenon
<1>3. QED
  BY <1>1, <1>2, Zenon DEF Quiet

LEMMA NextQuiet == Quiet /\ [Next]_vars => Quiet'
<1> SUFFICES ASSUME Quiet, [Next]_vars
             PROVE  Quiet'
  OBVIOUS
<1> USE DEF Quiet, Leaving
<1>1. ASSUME UNCHANGED <<pc, status>>, \E bit : Raise(bit)
      PROVE  Quiet'
  <2>1. /\ irq' = (irq \/ (isr = {} /\ ~Masked))
        /\ lost' = (lost \/ (isr = {} /\ Masked))
    BY <1>1 DEF Raise
  <2>2. irq' \in BOOLEAN /\ lost' \in BOOLEAN
    BY <2>1, Zenon
  <2>3. isr = {} => irq' \/ (lost' /\ Masked)
    BY <2>1, Zenon
  <2>4. (irq => irq') /\ (lost => lost')
    BY <2>1, Zenon
  <2>5. pc = "register" /\ isr' # {} => lost'
    BY <2>1, <2>4, Zenon DEF Masked
  <2>6. Leaving /\ isr' # {} => irq' \/ lost'
    BY <2>3, <2>4, Zenon
  <2>7. pc' = pc /\ (Leaving' <=> Leaving)
    BY <1>1
  <2>8. QED
    BY <2>2, <2>5, <2>6, <2>7, Zenon
<1>2. ASSUME NEW k \in Kinds, Receive(k) \/ Overflow(k)
      PROVE  Quiet'
  BY <1>2, <1>1 DEF Receive, Overflow
<1>3. CASE Transmit
  BY <1>3, <1>1 DEF Transmit
<1>4. CASE ClearStatus
  BY <1>4 DEF ClearStatus
<1>5. CASE RegisterIrq
  BY <1>5 DEF RegisterIrq, card
<1>6. CASE TakeInterrupt
  BY <1>6 DEF TakeInterrupt
<1>7. CASE ReadStatus
  BY <1>7 DEF ReadStatus, card
<1>8. CASE AckStatus
  <2>1. /\ pc = "ack" /\ UNCHANGED <<irq, lost, status>>
        /\ isr' = isr \ status
        /\ pc' \in {"exit", "receive", "read"}
        /\ pc' = "exit" => status = {}
    BY <1>8 DEF AckStatus
  <2>2. QED
    BY <2>1
<1>9. CASE ReceiveBad
  BY <1>9 DEF ReceiveBad, card
<1>10. CASE ReceiveGood
  <2>1. pc' \in {"send", "read"} /\ UNCHANGED <<irq, lost>>
    BY <1>10 DEF ReceiveGood
  <2>2. QED
    BY <2>1
<1>11. CASE LookFurther \/ SendNowhere
  BY <1>11 DEF LookFurther, SendNowhere, card
<1>12. CASE Send
  BY <1>12 DEF Send
<1>13. CASE ClearAgain
  BY <1>13 DEF ClearAgain
<1>14. CASE Eoi
  BY <1>14 DEF Eoi, card
<1>15. CASE ReadPacket
  BY <1>15 DEF ReadPacket, card
<1>16. CASE UNCHANGED vars
  BY <1>16 DEF vars, card
<1>17. QED
  BY <1>2, <1>3, <1>4, <1>5, <1>6, <1>7, <1>8, <1>9, <1>10, <1>11, <1>12,
     <1>13, <1>14, <1>15, <1>16 DEF Next, Processor

(* The handler never leaves the card's line up without an edge waiting,    *)
(* unless the edge came before the handler was registered: otherwise it    *)
(* will run again.                                                         *)
THEOREM InterruptsAreKept == Spec => []EdgeLatched
<1>1. Quiet => EdgeLatched
  BY DEF Quiet, Leaving, EdgeLatched
<1>2. QED
  BY <1>1, InitQuiet, NextQuiet, PTL DEF Spec
-----------------------------------------------------------------------------
(***************************************************************************)
(* Why the variables keep their types: the ring is a multiple of 4 long, so*)
(* an aligned offset stays one when it wraps, and the card stores no more  *)
(* frames than the wire delivers.                                          *)
(***************************************************************************)
LEMMA Wraps ==
  ASSUME NEW a \in Nat, NEW n \in Nat \ {0}, a % 4 = 0, n % 4 = 0
  PROVE  a % n \in 0 .. n - 1 /\ (a % n) % 4 = 0
<1> DEFINE q == a \div n
           r == a % n
           k == a \div 4
           m == n \div 4
<1>1. q \in Nat /\ r \in 0 .. n - 1 /\ a = n * q + r
  OBVIOUS
<1>2. k \in Nat /\ a = 4 * k /\ m \in Nat /\ n = 4 * m
  OBVIOUS
<1> HIDE DEF q, r, k, m
<1>3. n * q = 4 * (m * q)
  <2>1. (4 * m) * q = 4 * (m * q)
    BY <1>1, <1>2
  <2>2. QED
    BY <1>2, <2>1
<1>4. m * q \in Nat
  BY <1>1, <1>2
<1>5. r = 4 * (k - m * q)
  BY <1>1, <1>2, <1>3, <1>4
<1>6. r % 4 = 0
  <2> DEFINE d == m * q
  <2> HIDE DEF d
  <2>1. d \in Nat /\ r = 4 * (k - d)
    BY <1>4, <1>5 DEF d
  <2>2. QED
    BY <2>1, <1>2
<1>7. QED
  BY <1>1, <1>6 DEF r

LEMMA AlignAligned ==
  ASSUME NEW n \in Nat
  PROVE  Align(n) \in Nat /\ Align(n) % 4 = 0
BY DEF Align

Flags == irq \in BOOLEAN /\ got_packet \in BOOLEAN /\ lost \in BOOLEAN /\ crowded \in BOOLEAN

LEMMA NextFlags == Flags /\ [Next]_vars => Flags'
<1> SUFFICES ASSUME Flags, [Next]_vars
             PROVE  Flags'
  OBVIOUS
<1> USE DEF Flags, card, rx, tx
<1>1. ASSUME NEW bit, Raise(bit), UNCHANGED <<rx, tx>>
      PROVE  Flags'
  <2>1. irq' = (irq \/ (isr = {} /\ ~Masked)) /\ lost' = (lost \/ (isr = {} /\ Masked))
    BY <1>1 DEF Raise
  <2>2. irq' \in BOOLEAN /\ lost' \in BOOLEAN
    BY <2>1, Zenon
  <2>3. QED
    BY <1>1, <2>2, Zenon
<1>2. ASSUME NEW k \in Kinds, Receive(k) \/ Overflow(k)
      PROVE  Flags'
  BY <1>1, <1>2, Zenon DEF Receive, Overflow
<1>3. CASE Transmit
  BY <1>1, <1>3, Zenon DEF Transmit
<1>4. CASE ClearStatus \/ RegisterIrq \/ TakeInterrupt
  BY <1>4, Zenon DEF ClearStatus, RegisterIrq, TakeInterrupt
<1>5. CASE ReadStatus \/ AckStatus \/ ReceiveBad \/ ReceiveGood
  BY <1>5, Zenon DEF ReadStatus, AckStatus, ReceiveBad, ReceiveGood
<1>6. CASE LookFurther \/ Send \/ SendNowhere
  BY <1>6, Zenon DEF LookFurther, Send, SendNowhere
<1>7. CASE ClearAgain \/ Eoi \/ ReadPacket
  BY <1>7, Zenon DEF ClearAgain, Eoi, ReadPacket
<1>8. CASE UNCHANGED vars
  BY <1>8, Zenon DEF vars
<1>9. QED
  BY <1>2, <1>3, <1>4, <1>5, <1>6, <1>7, <1>8 DEF Next, Processor

(* A header recieve_packet may find, and where the next one is.            *)
LEMMA HeaderTypes ==
  ASSUME NEW p \in Headers, ring \in [Offsets -> Packet \cup {NoPacket}],
         rxbuf_off \in Offsets
  PROVE  p \in [id : 0 .. MaxFrames, kind : Kinds]
<1>1. CASE ring[rxbuf_off] # NoPacket
  BY <1>1, WireAssumption DEF Headers, Packet
<1>2. CASE ring[rxbuf_off] = NoPacket
  BY <1>2, WireAssumption DEF Headers
<1>3. QED
  BY <1>1, <1>2

LEMMA AdvanceInRing ==
  ASSUME NEW p \in [id : 0 .. MaxFrames, kind : Kinds], rxbuf_off \in Offsets
  PROVE  Advance(p) \in Offsets
<1>1. Length[p.kind] \in Nat /\ rxbuf_off \in Nat
  BY PacketAssumption DEF Offsets
<1> DEFINE n == rxbuf_off + Length[p.kind] + 4
<1>2. n \in Nat
  BY <1>1
<1> HIDE DEF n
<1>3. Align(n) \in Nat /\ Align(n) % 4 = 0
  BY <1>2, AlignAligned
<1>4. Align(n) % RxBufferSize \in Offsets
  BY <1>3, Wraps, RingAssumption DEF Offsets
<1>5. QED
  BY <1>4 DEF Advance, n

Store ==
  /\ frames \in 0 .. MaxFrames /\ accepted \in 0 .. MaxFrames /\ accepted <= frames
  /\ isr \subseteq {"RXOK", "TXOK", "RX_BUFFER_OVERFLOW"}
  /\ capr \in Nat /\ capr < 65536
  /\ cbr \in Offsets
  /\ ring \in [Offsets -> Packet \cup {NoPacket}]

Handling ==
  /\ pc \in {"init", "register", "idle", "read", "ack", "receive", "send", "exit", "eoi"}
  /\ status \subseteq {"RXOK", "TXOK", "RX_BUFFER_OVERFLOW"}
  /\ rxbuf_off \in Offsets
  /\ packet_buf \in [id : 0 .. MaxFrames, kind : Kinds \cup {"none"}]
  /\ taken \in 0 .. MaxFrames

Sending ==
  /\ own \in [Descriptors -> BOOLEAN] /\ curtx \in Descriptors
  /\ next_txbuf \in Descriptors /\ scan \in 0 .. TxCount
  /\ txmem \in -1 .. MaxFrames
  /\ queued \in [Descriptors -> 0 .. MaxFrames]

Types == Flags /\ Store /\ Handling /\ Sending /\ Tokens

LEMMA TypesImplyTypeOK == Types => TypeOK
  BY DEF Types, TypeOK, Flags, Store, Handling, Sending

LEMMA InitTypes == Init => Types
<1> SUFFICES ASSUME Init
             PROVE  Flags /\ Store /\ Handling /\ Sending
  BY InitTokens DEF Types
<1>1. 0 \in Offsets /\ 0 \in Descriptors
  BY RingAssumption, TxAssumption DEF Offsets, Descriptors
<1>2. Flags
  <2>1. irq = FALSE /\ got_packet = FALSE /\ lost = FALSE /\ crowded = FALSE
    BY DEF Init
  <2>2. QED
    BY <2>1, Zenon DEF Flags
<1>3. Store
  BY <1>1, WireAssumption DEF Init, Store
<1>4. Handling
  BY <1>1, WireAssumption DEF Init, Handling, NoPacket
<1>5. Sending
  BY <1>1, WireAssumption, TxAssumption DEF Init, Sending
<1>6. QED
  BY <1>2, <1>3, <1>4, <1>5

LEMMA NextStore == Store /\ Handling /\ [Next]_vars => Store'
<1> SUFFICES ASSUME Store, Handling, [Next]_vars
             PROVE  Store'
  OBVIOUS
<1> USE DEF Store
<1>1. ASSUME NEW k \in Kinds, Receive(k)
      PROVE  Store'
  <2>1. /\ frames < MaxFrames /\ frames' = frames + 1 /\ accepted' = accepted + 1
        /\ ring' = Stored([id |-> accepted', kind |-> k])
        /\ cbr' = (cbr + Space(k)) % RxBufferSize
        /\ isr' = isr \cup {"RXOK"} /\ capr' = capr
    BY <1>1 DEF Receive, Raise, Arrives
  <2>2. accepted' \in 1 .. MaxFrames /\ accepted' <= frames'
    BY <2>1, WireAssumption
  <2>3. [id |-> accepted', kind |-> k] \in Packet
    BY <2>2 DEF Packet
  <2>4. ring' \in [Offsets -> Packet \cup {NoPacket}]
    BY <2>1, <2>3 DEF Stored
  <2>5. cbr' \in Offsets
    <3>1. Space(k) \in Nat /\ Space(k) % 4 = 0
      <4>1. Length[k] + 4 \in Nat
        BY PacketAssumption
      <4>2. QED
        BY <4>1, AlignAligned DEF Space
    <3>2. cbr \in Nat /\ cbr % 4 = 0
      BY DEF Offsets
    <3>3. cbr + Space(k) \in Nat /\ (cbr + Space(k)) % 4 = 0
      BY <3>1, <3>2
    <3>4. QED
      BY <2>1, <3>3, Wraps, RingAssumption, SMTT(30) DEF Offsets
  <2>6. QED
    BY <2>1, <2>2, <2>4, <2>5, WireAssumption
<1>2. ASSUME NEW k \in Kinds, Overflow(k)
      PROVE  Store'
  BY <1>2, WireAssumption DEF Overflow, Raise, Arrives
<1>3. CASE Transmit
  BY <1>3 DEF Transmit, Raise
<1>4. CASE ClearStatus \/ RegisterIrq \/ TakeInterrupt \/ ReadStatus \/ AckStatus
  <2>1. UNCHANGED <<frames, accepted, capr, cbr, ring>> /\ isr' \subseteq isr
    BY <1>4 DEF ClearStatus, RegisterIrq, TakeInterrupt, ReadStatus, AckStatus, card
  <2>2. QED
    BY <2>1
<1>5. CASE ReceiveGood
  <2>1. /\ capr' = CaprFor(rxbuf_off')
        /\ UNCHANGED <<frames, accepted, isr, cbr, ring>>
    BY <1>5 DEF ReceiveGood
  <2>2. PICK p \in Headers : rxbuf_off' = Advance(p)
    BY <1>5 DEF ReceiveGood
  <2>3. rxbuf_off' \in Offsets
    BY <2>2, HeaderTypes, AdvanceInRing DEF Handling
  <2>4. \A o \in Nat : CaprFor(o) \in Nat /\ CaprFor(o) < 65536
    BY DEF CaprFor
  <2>5. capr' \in Nat /\ capr' < 65536
    <3>1. rxbuf_off' \in Nat
      BY <2>3 DEF Offsets
    <3>2. QED
      BY <2>1, <2>4, <3>1
  <2>6. QED
    BY <2>1, <2>5
<1>6. CASE ReceiveBad \/ LookFurther \/ SendNowhere \/ Eoi \/ ReadPacket
  <2>1. UNCHANGED <<frames, accepted, capr, cbr, ring>> /\ isr' \subseteq isr
    BY <1>6 DEF ReceiveBad, LookFurther, SendNowhere, Eoi, ReadPacket, card
  <2>2. QED
    BY <2>1
<1>7. CASE Send \/ ClearAgain
  <2>1. UNCHANGED <<frames, accepted, capr, cbr, ring>> /\ isr' \subseteq isr
    BY <1>7 DEF Send, ClearAgain
  <2>2. QED
    BY <2>1
<1>8. CASE UNCHANGED vars
  BY <1>8 DEF vars, card
<1>9. QED
  BY <1>1, <1>2, <1>3, <1>4, <1>5, <1>6, <1>7, <1>8 DEF Next, Processor

LEMMA NextHandling == Store /\ Handling /\ Tokens /\ Tokens' /\ Store' /\ [Next]_vars => Handling'
<1> SUFFICES ASSUME Store, Handling, Tokens, Tokens', Store', [Next]_vars
             PROVE  Handling'
  OBVIOUS
<1>0. taken' \in 0 .. MaxFrames
  BY WireAssumption DEF Tokens, Store
<1> USE DEF Handling, rx
<1>1. ASSUME NEW k \in Kinds, Receive(k) \/ Overflow(k)
      PROVE  Handling'
  BY <1>1 DEF Receive, Overflow
<1>2. CASE Transmit \/ ClearStatus \/ RegisterIrq \/ TakeInterrupt
  BY <1>2 DEF Transmit, ClearStatus, RegisterIrq, TakeInterrupt
<1>3. CASE ReadStatus
  BY <1>3 DEF ReadStatus, Store
<1>4. CASE AckStatus \/ ReceiveBad \/ ClearAgain \/ Eoi \/ ReadPacket
  BY <1>4 DEF AckStatus, ReceiveBad, ClearAgain, Eoi, ReadPacket
<1>5. CASE ReceiveGood
  <2>1. PICK p \in Headers : packet_buf' = p /\ rxbuf_off' = Advance(p)
                             /\ pc' \in {"send", "read"} /\ status' = status
    BY <1>5 DEF ReceiveGood
  <2>2. p \in [id : 0 .. MaxFrames, kind : Kinds \cup {"none"}]
    BY <2>1, HeaderTypes DEF Store
  <2>3. rxbuf_off' \in Offsets
    BY <2>1, HeaderTypes, AdvanceInRing DEF Store
  <2>4. QED
    BY <1>0, <2>1, <2>2, <2>3
<1>6. CASE LookFurther \/ Send \/ SendNowhere
  BY <1>6 DEF LookFurther, Send, SendNowhere
<1>7. CASE UNCHANGED vars
  BY <1>7 DEF vars
<1>8. QED
  BY <1>1, <1>2, <1>3, <1>4, <1>5, <1>6, <1>7 DEF Next, Processor

LEMMA NextSending == Sending /\ Handling /\ [Next]_vars => Sending'
<1> SUFFICES ASSUME Sending, Handling, [Next]_vars
             PROVE  Sending'
  OBVIOUS
<1>0. TxCount \in Nat \ {0}
  BY TxAssumption
<1> USE DEF Sending, tx
<1>1. ASSUME NEW k \in Kinds, Receive(k) \/ Overflow(k)
      PROVE  Sending'
  BY <1>1 DEF Receive, Overflow
<1>2. CASE Transmit
  <2>1. curtx' \in Descriptors
    BY <1>0, <1>2 DEF Transmit, Descriptors
  <2>2. QED
    BY <1>2, <2>1 DEF Transmit
<1>3. CASE ClearStatus \/ RegisterIrq \/ TakeInterrupt \/ ReadStatus \/ AckStatus
  BY <1>3 DEF ClearStatus, RegisterIrq, TakeInterrupt, ReadStatus, AckStatus, card
<1>4. CASE ReceiveBad \/ ReceiveGood \/ ClearAgain \/ Eoi \/ ReadPacket
  BY <1>4 DEF ReceiveBad, ReceiveGood, ClearAgain, Eoi, ReadPacket, card
<1>5. CASE LookFurther
  BY <1>0, <1>5 DEF LookFurther, card
<1>6. CASE Send
  <2>1. Candidate \in Descriptors
    BY <1>0 DEF Candidate, Descriptors
  <2>2. next_txbuf' \in Descriptors
    BY <1>0, <1>6, <2>1 DEF Send, Descriptors
  <2>3. packet_buf.id \in 0 .. MaxFrames
    BY DEF Handling
  <2>4. scan' = 0 /\ curtx' = curtx /\ txmem' = packet_buf.id
        /\ own' = [own EXCEPT ![Candidate] = FALSE]
        /\ queued' = [queued EXCEPT ![Candidate] = packet_buf.id]
    BY <1>6 DEF Send
  <2> HIDE DEF Candidate
  <2>5. QED
    BY <1>0, <2>1, <2>2, <2>3, <2>4, WireAssumption
<1>7. CASE SendNowhere
  BY <1>0, <1>7, WireAssumption DEF SendNowhere, card, Garbled, Handling, Descriptors
<1>8. CASE UNCHANGED vars
  BY <1>8 DEF vars, card
<1>9. QED
  BY <1>1, <1>2, <1>3, <1>4, <1>5, <1>6, <1>7, <1>8 DEF Next, Processor

LEMMA NextTypes == Types /\ [Next]_vars => Types'
<1> SUFFICES ASSUME Types, [Next]_vars
             PROVE  Types'
  OBVIOUS
<1>1. Tokens' /\ Flags' /\ Store' /\ Sending'
  BY NextTokens, NextFlags, NextStore, NextSending DEF Types
<1>2. Handling'
  BY <1>1, NextHandling DEF Types
<1>3. QED
  BY <1>1, <1>2 DEF Types

(* The registers, the ring and the driver's offsets keep their types, for  *)
(* every ring size, traffic and number of descriptors: rxbuf_off and the   *)
(* card's pointer are always aligned places inside the ring.               *)
THEOREM TypeCorrect == Spec => []TypeOK
  BY NextTypes, InitTypes, TypesImplyTypeOK, PTL DEF Spec

-----------------------------------------------------------------------------
(***************************************************************************)
(* The refinement of PacketQueue needs remainders: what a place in the     *)
(* ring becomes when the card or the driver goes on by less than a turn.   *)
(***************************************************************************)
LEMMA Division ==
  ASSUME NEW a \in Nat, NEW n \in Nat \ {0}
  PROVE  \E p \in Int, s \in 0 .. n - 1 : a = n * p + s /\ s = a % n
<1> DEFINE q == a \div n
           r == a % n
<1>1. q \in Nat /\ r \in 0 .. n - 1 /\ a = n * q + r
  OBVIOUS
<1> HIDE DEF q
<1>2. QED
  BY <1>1

LEMMA NoMultipleBetween ==
  ASSUME NEW n \in Nat \ {0}, NEW d \in Int, -n < n * d, n * d < n
  PROVE  d = 0
<1>1. CASE d >= 1
  <2>1. n * d >= n
    BY <1>1
  <2>2. QED
    BY <2>1
<1>2. CASE d <= -1
  <2>1. n * d <= -n
    BY <1>2
  <2>2. QED
    BY <2>1
<1>3. QED
  BY <1>1, <1>2

(* The remainder is the only one there is.                                 *)
LEMMA ModIs ==
  ASSUME NEW a \in Nat, NEW n \in Nat \ {0}, NEW q \in Int, NEW r \in 0 .. n - 1,
         a = n * q + r
  PROVE  a % n = r
<1>1. PICK p \in Int, s \in 0 .. n - 1 : a = n * p + s /\ s = a % n
  BY Division
<1>2. PICK d \in Int : d = q - p
  OBVIOUS
<1>3. n * d = n * q - n * p
  BY <1>2
<1>4. n * d = s - r
  <2>1. PICK u \in Int : u = n * q
    OBVIOUS
  <2>2. PICK v \in Int : v = n * p
    OBVIOUS
  <2>3. n * d = u - v
    BY <1>3, <2>1, <2>2
  <2>4. a = u + r /\ a = v + s
    BY <1>1, <2>1, <2>2
  <2>5. u - v = s - r
    BY <2>4
  <2>6. QED
    BY <2>3, <2>5
<1>5. -n < n * d /\ n * d < n
  BY <1>1, <1>4
<1>6. d = 0
  BY <1>5, NoMultipleBetween
<1>7. n * d = 0
  BY <1>6
<1>8. s - r = 0
  BY <1>4, <1>7
<1>9. s \in Int /\ r \in Int
  OBVIOUS
<1>10. s = r
  BY <1>8, <1>9
<1>11. QED
  BY <1>1, <1>10, Zenon

(* Going on by less than a turn wraps at most once.                        *)
LEMMA ModAdd ==
  ASSUME NEW a \in Nat, NEW n \in Nat \ {0}, NEW m \in 0 .. n - 1
  PROVE  /\ a % n \in 0 .. n - 1
         /\ (a + m) % n = IF (a % n) + m < n THEN (a % n) + m ELSE (a % n) + m - n
<1>1. PICK p \in Int, s \in 0 .. n - 1 : a = n * p + s /\ s = a % n
  BY Division
<1>2. n * p \in Int /\ n * (p + 1) = n * p + n /\ p + 1 \in Int
  <2>1. n * p \in Int /\ p + 1 \in Int
    OBVIOUS
  <2>2. n * (p + 1) = n * p + n
    OBVIOUS
  <2>3. QED
    BY <2>1, <2>2
<1>3. CASE s + m < n
  <2>1. a + m = n * p + (s + m) /\ s + m \in 0 .. n - 1 /\ a + m \in Nat
    BY <1>1, <1>2, <1>3
  <2>2. (a + m) % n = s + m
    BY <2>1, ModIs
  <2>3. QED
    BY <1>1, <1>3, <2>2
<1>4. CASE ~(s + m < n)
  <2>1. a + m = n * (p + 1) + (s + m - n) /\ s + m - n \in 0 .. n - 1 /\ a + m \in Nat
    BY <1>1, <1>2, <1>4
  <2>2. (a + m) % n = s + m - n
    BY <1>2, <2>1, ModIs
  <2>3. QED
    BY <1>1, <1>4, <2>2
<1>5. QED
  BY <1>3, <1>4

-----------------------------------------------------------------------------
(***************************************************************************)
(* How the packets lie in the ring.  f gives each packet's place counted   *)
(* on past the end of the ring: packet i + 1 starts at f[i], and the card  *)
(* stores the next one at f[accepted].  The unread ones follow one another *)
(* from rxbuf_off to cbr and take up less than the ring, which is what     *)
(* keeps the card from the oldest one; CAPR tells the card where that is.  *)
(***************************************************************************)
Threads(f) ==
  /\ f \in [taken .. accepted -> Nat]
  /\ f[taken] % RxBufferSize = rxbuf_off
  /\ f[accepted] % RxBufferSize = cbr
  /\ f[accepted] - f[taken] < RxBufferSize
  /\ \A i \in taken .. accepted : f[i] % RxBufferSize \in Offsets
  /\ \A i, j \in taken .. accepted : i < j => f[i] < f[j]
  /\ \A i \in taken .. accepted - 1 : \E k \in Kinds :
       /\ ring[f[i] % RxBufferSize] = [id |-> i + 1, kind |-> k]
       /\ f[i + 1] = f[i] + Space(k)

InOrder ==
  /\ \E f : Threads(f)
  /\ capr = CaprFor(rxbuf_off)
  /\ packet_buf.id = taken

LEMMA SpaceFacts ==
  ASSUME NEW k \in Kinds
  PROVE  Space(k) \in 0 .. RxBufferSize - 1 /\ Space(k) >= 4
<1>1. Length[k] \in Nat /\ Space(k) < RxBufferSize
  BY PacketAssumption
<1>2. QED
  BY <1>1, RingAssumption DEF Space, Align

LEMMA ThreadFacts ==
  ASSUME Types, NEW f, Threads(f)
  PROVE  /\ taken \in Nat /\ accepted \in Nat /\ taken <= accepted
         /\ f[taken] \in Nat /\ f[accepted] \in Nat
         /\ f[accepted] - f[taken] \in 0 .. RxBufferSize - 1
         /\ \A i \in taken .. accepted : f[i] \in Nat /\ f[taken] <= f[i]
         /\ \A i \in taken .. accepted - 1 : f[i] < f[accepted]
         /\ taken < accepted => f[taken] < f[accepted]
<1>1. taken \in Nat /\ accepted \in Nat /\ taken <= accepted
  BY DEF Types, Tokens
<1>2. \A i \in taken .. accepted : f[i] \in Nat
  BY DEF Threads
<1>3. \A i, j \in taken .. accepted : i < j => f[i] < f[j]
  BY DEF Threads
<1>4. taken \in taken .. accepted /\ accepted \in taken .. accepted
  BY <1>1
<1>5. ASSUME NEW i \in taken .. accepted
      PROVE  f[taken] <= f[i] /\ (i # accepted => f[i] < f[accepted])
  BY <1>1, <1>2, <1>3, <1>4
<1>6. f[accepted] - f[taken] < RxBufferSize
  BY DEF Threads
<1>7. f[accepted] - f[taken] \in 0 .. RxBufferSize - 1
  BY <1>2, <1>4, <1>5, <1>6, RingAssumption
<1>8. QED
  BY <1>1, <1>2, <1>4, <1>5, <1>7

LEMMA ReadPointerIs ==
  ASSUME capr = CaprFor(rxbuf_off), rxbuf_off \in Offsets
  PROVE  ReadPointer = rxbuf_off
<1>1. rxbuf_off \in 0 .. RxBufferSize - 1 /\ rxbuf_off < 65536
  BY PacketAssumption, RingAssumption DEF Offsets
<1>2. (capr + 16) % 65536 = rxbuf_off
  BY <1>1, RingAssumption DEF CaprFor
<1>3. rxbuf_off = RxBufferSize * 0 + rxbuf_off
  BY <1>1, RingAssumption
<1>4. rxbuf_off % RxBufferSize = rxbuf_off
  BY <1>1, <1>3, ModIs, RingAssumption
<1>5. QED
  BY <1>2, <1>4 DEF ReadPointer

(* What the card takes for a free ring is one.                             *)
LEMMA RoomLeft ==
  ASSUME Types, capr = CaprFor(rxbuf_off), NEW f, Threads(f), NEW k \in Kinds, Fits(k)
  PROVE  f[accepted] - f[taken] + Space(k) < RxBufferSize
<1>1. PICK n \in Nat \ {0} : n = RxBufferSize
  BY RingAssumption
<1>2. PICK L \in 0 .. n - 1 : L = f[accepted] - f[taken]
  BY <1>1, ThreadFacts
<1>3. Space(k) \in 0 .. n - 1
  BY <1>1, SpaceFacts
<1>4. f[accepted] = f[taken] + L /\ f[taken] \in Nat
  BY <1>2, ThreadFacts
<1>5. /\ rxbuf_off \in 0 .. n - 1
      /\ cbr = IF rxbuf_off + L < n THEN rxbuf_off + L ELSE rxbuf_off + L - n
  <2>1. f[taken] % n = rxbuf_off
    BY <1>1 DEF Threads
  <2>2. cbr = (f[taken] + L) % n
    BY <1>1, <1>4 DEF Threads
  <2>3. /\ f[taken] % n \in 0 .. n - 1
        /\ (f[taken] + L) % n = IF (f[taken] % n) + L < n
                               THEN (f[taken] % n) + L ELSE (f[taken] % n) + L - n
    BY <1>4, ModAdd
  <2>4. QED
    BY <2>1, <2>2, <2>3
<1>6. CASE L = 0
  BY <1>1, <1>2, <1>3, <1>6
<1>7. CASE L # 0
  <2>1. Avail = (n + rxbuf_off - cbr) % n
    <3>1. rxbuf_off \in Offsets
      BY DEF Types, Handling
    <3>2. QED
      BY <1>1, <3>1, ReadPointerIs DEF Avail
  <2>2. n - L \in 0 .. n - 1 /\ n - L # 0
    BY <1>2, <1>7
  <2>3. PICK a \in Nat : a = n + rxbuf_off - cbr
    <3>1. cbr \in 0 .. n - 1
      BY <1>5
    <3>2. n + rxbuf_off - cbr \in Nat
      BY <1>5, <3>1
    <3>3. QED
      BY <3>2
  <2>4. a = n * 0 + (n - L) \/ a = n * 1 + (n - L)
    BY <1>5, <2>3
  <2>5. a % n = n - L
    BY <2>2, <2>3, <2>4, ModIs
  <2>6. Avail = n - L
    BY <2>1, <2>3, <2>5
  <2>7. Space(k) < n - L
    BY <2>2, <2>6 DEF Fits
  <2>8. QED
    BY <1>1, <1>2, <1>3, <2>7
<1>8. QED
  BY <1>6, <1>7

(* Storing a packet leaves the unread ones alone.                          *)
LEMMA OthersStay ==
  ASSUME Types, NEW f, Threads(f), NEW k \in Kinds, NEW i \in taken .. accepted - 1,
         f[accepted] - f[taken] + Space(k) < RxBufferSize
  PROVE  f[i] % RxBufferSize \notin cbr .. cbr + Space(k) - 1
<1>1. PICK n \in Nat \ {0} : n = RxBufferSize
  BY RingAssumption
<1>2. /\ taken \in Nat /\ accepted \in Nat /\ f[i] \in Nat /\ f[taken] \in Nat
      /\ f[accepted] \in Nat /\ f[taken] <= f[i] /\ f[i] < f[accepted]
  BY ThreadFacts
<1>3. Space(k) \in 0 .. n - 1
  BY <1>1, SpaceFacts
<1>4. PICK m \in 1 .. n - 1 : m = f[accepted] - f[i] /\ m + Space(k) < n
  BY <1>1, <1>2, <1>3
<1>5. f[accepted] = f[i] + m
  BY <1>2, <1>4
<1>6. /\ f[i] % n \in 0 .. n - 1
      /\ cbr = IF (f[i] % n) + m < n THEN (f[i] % n) + m ELSE (f[i] % n) + m - n
  <2>1. cbr = (f[i] + m) % n
    BY <1>1, <1>5 DEF Threads
  <2>2. m \in 0 .. n - 1 /\ f[i] \in Nat
    BY <1>2, <1>4
  <2>3. QED
    BY <2>1, <2>2, ModAdd
<1>7. f[i] % n \notin cbr .. cbr + Space(k) - 1
  BY <1>3, <1>4, <1>6
<1>8. QED
  BY <1>1, <1>7

(* Where the card and the driver go on to, in the ring and counted past it.*)
LEMMA NextPlace ==
  ASSUME NEW a \in Nat, NEW b, a % RxBufferSize = b, NEW k \in Kinds
  PROVE  (a + Space(k)) % RxBufferSize = (b + Space(k)) % RxBufferSize
<1>1. PICK n \in Nat \ {0} : n = RxBufferSize
  BY RingAssumption
<1>2. PICK m \in 0 .. n - 1 : m = Space(k)
  BY <1>1, SpaceFacts
<1>3. /\ b \in 0 .. n - 1
      /\ (a + m) % n = IF b + m < n THEN b + m ELSE b + m - n
  BY <1>1, <1>2, ModAdd
<1>4. b % n = b
  <2>1. b = n * 0 + b /\ b \in Nat
    BY <1>3
  <2>2. QED
    BY <1>3, <2>1, ModIs
<1>5. (b + m) % n = IF b + m < n THEN b + m ELSE b + m - n
  <2>1. b \in Nat
    BY <1>3
  <2>2. (b + m) % n = IF (b % n) + m < n THEN (b % n) + m ELSE (b % n) + m - n
    BY <2>1, ModAdd
  <2>3. QED
    BY <1>4, <2>2
<1>6. QED
  BY <1>1, <1>2, <1>3, <1>5

LEMMA AlignAdds ==
  ASSUME NEW a \in Nat, NEW n \in Nat, a % 4 = 0
  PROVE  Align(a + n) = a + Align(n)
BY DEF Align

LEMMA InitInOrder == Init => InOrder
<1> SUFFICES ASSUME Init
             PROVE  InOrder
  OBVIOUS
<1> DEFINE f == [i \in 0 .. 0 |-> 0]
<1>1. taken = 0 /\ accepted = 0 /\ rxbuf_off = 0 /\ cbr = 0 /\ packet_buf.id = 0
  BY DEF Init, NoPacket
<1>2. 0 % RxBufferSize = 0
  <2>1. 0 = RxBufferSize * 0 + 0 /\ 0 \in 0 .. RxBufferSize - 1
    BY RingAssumption
  <2>2. QED
    BY <2>1, ModIs, RingAssumption
<1>3. Threads(f)
  BY <1>1, <1>2, RingAssumption DEF Threads, Offsets
<1>4. capr = CaprFor(rxbuf_off)
  <2>1. PICK o \in Int : o = 0 - 16
    OBVIOUS
  <2>2. \A m \in 0 .. 15 : (m - 16) % 65536 = m + 65536 - 16
    OBVIOUS
  <2>3. o % 65536 = 65536 - 16
    BY <2>1, <2>2
  <2>4. CaprFor(0) = 65536 - 16
    BY <2>1, <2>3 DEF CaprFor
  <2>5. capr = 65536 - 16
    BY DEF Init
  <2>6. QED
    BY <1>1, <2>4, <2>5
<1>5. QED
  BY <1>1, <1>3, <1>4 DEF InOrder

LEMMA ReceiveInOrder ==
  ASSUME Types, Types', InOrder, NEW k \in Kinds, Receive(k)
  PROVE  InOrder'
<1>1. PICK f : Threads(f)
  BY DEF InOrder
<1>2. capr = CaprFor(rxbuf_off) /\ packet_buf.id = taken
  BY DEF InOrder
<1>3. /\ Fits(k) /\ accepted' = accepted + 1
      /\ ring' = Stored([id |-> accepted + 1, kind |-> k])
      /\ cbr' = (cbr + Space(k)) % RxBufferSize
      /\ UNCHANGED <<capr, taken, rxbuf_off, packet_buf>>
  BY DEF Receive, rx
<1>4. f[accepted] - f[taken] + Space(k) < RxBufferSize
  BY <1>1, <1>2, <1>3, RoomLeft
<1>5. /\ taken \in Nat /\ accepted \in Nat /\ taken <= accepted
      /\ f[taken] \in Nat /\ f[accepted] \in Nat
      /\ Space(k) \in Nat /\ Space(k) >= 4
  BY <1>1, ThreadFacts, SpaceFacts
<1>6. PICK top \in Nat : top = f[accepted] + Space(k)
  BY <1>5
<1>a. PICK g : g = [i \in taken .. accepted + 1 |-> IF i = accepted + 1 THEN top ELSE f[i]]
  OBVIOUS
<1>7. /\ \A i \in taken .. accepted : f[i] \in Nat /\ g[i] = f[i]
      /\ g[accepted + 1] = top
  BY <1>a, <1>1, <1>5, ThreadFacts
<1>8. g \in [taken .. accepted + 1 -> Nat]
  BY <1>a, <1>1, <1>5, <1>6, ThreadFacts
<1>9. g[taken] = f[taken]
  BY <1>5, <1>7
<1>10. g[accepted + 1] % RxBufferSize = cbr'
  BY <1>1, <1>3, <1>5, <1>6, <1>7, NextPlace DEF Threads
<1>11. g[accepted + 1] - g[taken] < RxBufferSize
  BY <1>4, <1>5, <1>6, <1>7, <1>9
<1>12. \A i \in taken .. accepted + 1 : g[i] % RxBufferSize \in Offsets
  <2>1. cbr' \in Offsets
    BY DEF Types, Store
  <2>2. \A i \in taken .. accepted : g[i] % RxBufferSize \in Offsets
    BY <1>1, <1>7 DEF Threads
  <2>3. QED
    BY <1>5, <1>10, <2>1, <2>2
<1>13. ASSUME NEW i \in taken .. accepted + 1, NEW j \in taken .. accepted + 1, i < j
       PROVE  g[i] < g[j]
  <2>1. CASE j = accepted + 1
    <3>1. i \in taken .. accepted /\ f[i] \in Nat /\ f[i] <= f[accepted]
      <4>1. i \in taken .. accepted
        BY <1>5, <1>13, <2>1
      <4>2. i = accepted \/ i \in taken .. accepted - 1
        BY <1>5, <4>1
      <4>3. f[i] = f[accepted] \/ f[i] < f[accepted]
        BY <1>1, <4>2, ThreadFacts
      <4>4. QED
        BY <1>5, <1>7, <4>1, <4>3
    <3>2. QED
      BY <1>5, <1>6, <1>7, <2>1, <3>1
  <2>2. CASE j # accepted + 1
    <3>1. i \in taken .. accepted /\ j \in taken .. accepted
      BY <1>5, <1>13, <2>2
    <3>2. f[i] < f[j]
      BY <1>1, <1>13, <3>1 DEF Threads
    <3>3. QED
      BY <1>7, <3>1, <3>2
  <2>3. QED
    BY <2>1, <2>2
<1>14. ASSUME NEW i \in taken .. accepted
       PROVE  \E c \in Kinds :
                /\ ring'[g[i] % RxBufferSize] = [id |-> i + 1, kind |-> c]
                /\ g[i + 1] = g[i] + Space(c)
  <2>1. g[i] % RxBufferSize \in Offsets /\ g[i] = f[i]
    BY <1>5, <1>7, <1>12
  <2>2. CASE i = accepted
    <3>1. g[i] % RxBufferSize = cbr
      BY <1>1, <2>1, <2>2 DEF Threads
    <3>2. ring'[cbr] = [id |-> accepted + 1, kind |-> k]
      BY <1>3, <2>1, <3>1 DEF Stored
    <3>3. g[i + 1] = g[i] + Space(k)
      BY <1>6, <1>7, <2>1, <2>2
    <3>4. QED
      BY <2>2, <3>1, <3>2, <3>3
  <2>3. CASE i # accepted
    <3>1. i \in taken .. accepted - 1 /\ i + 1 \in taken .. accepted
      BY <1>5, <2>3
    <3>2. PICK c \in Kinds :
            /\ ring[f[i] % RxBufferSize] = [id |-> i + 1, kind |-> c]
            /\ f[i + 1] = f[i] + Space(c)
      BY <1>1, <3>1 DEF Threads
    <3>3. f[i] % RxBufferSize \notin cbr .. cbr + Space(k) - 1
      BY <1>1, <1>4, <3>1, OthersStay
    <3>4. f[i] % RxBufferSize # cbr
      <4>1. cbr \in Nat
        BY DEF Types, Store, Offsets
      <4>2. cbr \in cbr .. cbr + Space(k) - 1
        BY <1>5, <4>1
      <4>3. QED
        BY <3>3, <4>2
    <3>5. PICK o \in Offsets : o = f[i] % RxBufferSize
      BY <2>1
    <3>6. ring'[o] = ring[o]
      BY <1>3, <3>3, <3>4, <3>5 DEF Stored
    <3>7. g[i + 1] = g[i] + Space(c)
      BY <1>7, <2>1, <3>1, <3>2
    <3>8. QED
      BY <2>1, <3>2, <3>5, <3>6, <3>7
  <2>4. QED
    BY <2>2, <2>3
<1>15. Threads(g)'
  <2>1. accepted' = accepted + 1 /\ taken' = taken /\ rxbuf_off' = rxbuf_off
    BY <1>3
  <2>2. g[taken] % RxBufferSize = rxbuf_off
    BY <1>1, <1>9 DEF Threads
  <2>3. accepted + 1 - 1 = accepted
    BY <1>5
  <2>4. g \in [taken' .. accepted' -> Nat]
    BY <1>8, <2>1
  <2>5. /\ g[taken'] % RxBufferSize = rxbuf_off'
        /\ g[accepted'] % RxBufferSize = cbr'
        /\ g[accepted'] - g[taken'] < RxBufferSize
    BY <1>10, <1>11, <2>1, <2>2
  <2>6. /\ \A i \in taken' .. accepted' : g[i] % RxBufferSize \in Offsets
        /\ \A i, j \in taken' .. accepted' : i < j => g[i] < g[j]
    BY <1>12, <1>13, <2>1
  <2>7. \A i \in taken' .. accepted' - 1 : \E c \in Kinds :
          /\ ring'[g[i] % RxBufferSize] = [id |-> i + 1, kind |-> c]
          /\ g[i + 1] = g[i] + Space(c)
    <3>1. taken' .. accepted' - 1 = taken .. accepted
      <4>1. accepted' - 1 = accepted
        BY <1>5, <2>1
      <4>2. QED
        BY <2>1, <4>1
    <3>2. QED
      BY <1>14, <3>1, Zenon
  <2>8. QED
    BY <2>4, <2>5, <2>6, <2>7, Zenon DEF Threads
<1>16. QED
  BY <1>2, <1>3, <1>15 DEF InOrder, CaprFor

LEMMA TakeInOrder ==
  ASSUME Types, Types', InOrder, ReceiveGood
  PROVE  InOrder' /\ taken < accepted /\ taken' = taken + 1 /\ accepted' = accepted
<1>1. PICK f : Threads(f)
  BY DEF InOrder
<1>2. /\ taken \in Nat /\ accepted \in Nat /\ taken < accepted
      /\ rxbuf_off \in Offsets
  BY DEF ReceiveGood, Types, Tokens, InHand, Handling
<1>3. PICK k \in Kinds :
        /\ ring[rxbuf_off] = [id |-> taken + 1, kind |-> k]
        /\ f[taken + 1] = f[taken] + Space(k)
  <2>1. taken \in taken .. accepted - 1 /\ f[taken] % RxBufferSize = rxbuf_off
    BY <1>1, <1>2 DEF Threads
  <2>2. QED
    BY <1>1, <2>1 DEF Threads
<1>4. Headers = {[id |-> taken + 1, kind |-> k]}
  BY <1>2, <1>3 DEF Headers, NoPacket
<1>5. PICK p : /\ p = [id |-> taken + 1, kind |-> k]
               /\ packet_buf' = p /\ rxbuf_off' = Advance(p)
  BY <1>4 DEF ReceiveGood
<1>6. /\ capr' = CaprFor(rxbuf_off') /\ taken' = taken + 1
      /\ UNCHANGED <<accepted, cbr, ring>>
  BY DEF ReceiveGood
<1>7. rxbuf_off' = (rxbuf_off + Space(k)) % RxBufferSize
  <2>1. rxbuf_off \in Nat /\ rxbuf_off % 4 = 0 /\ Length[k] + 4 \in Nat
    BY <1>2, PacketAssumption DEF Offsets
  <2>2. Align(rxbuf_off + (Length[k] + 4)) = rxbuf_off + Space(k)
    BY <2>1, AlignAdds DEF Space
  <2>3. rxbuf_off + (Length[k] + 4) = rxbuf_off + Length[k] + 4
    BY <2>1, PacketAssumption
  <2>4. QED
    BY <1>5, <2>2, <2>3 DEF Advance
<1>8. /\ \A i \in taken .. accepted : f[i] \in Nat /\ f[taken] <= f[i]
      /\ f[accepted] - f[taken] < RxBufferSize /\ Space(k) \in Nat
  BY <1>1, ThreadFacts, SpaceFacts, RingAssumption
<1>a. PICK g : g = [i \in taken + 1 .. accepted |-> f[i]]
  OBVIOUS
<1>9. g \in [taken + 1 .. accepted -> Nat] /\ \A i \in taken + 1 .. accepted : g[i] = f[i]
  BY <1>a, <1>2, <1>8
<1>10. g[taken + 1] = f[taken + 1] /\ g[accepted] = f[accepted]
  BY <1>2, <1>9
<1>11. g[taken + 1] % RxBufferSize = rxbuf_off'
  <2>1. f[taken] \in Nat /\ f[taken] % RxBufferSize = rxbuf_off
    BY <1>1, <1>2, <1>8 DEF Threads
  <2>2. QED
    BY <1>3, <1>7, <1>10, <2>1, NextPlace
<1>12. g[accepted] % RxBufferSize = cbr /\ g[accepted] - g[taken + 1] < RxBufferSize
  <2>1. f[accepted] % RxBufferSize = cbr
    BY <1>1 DEF Threads
  <2>2. f[taken] \in Nat /\ f[accepted] \in Nat /\ f[taken + 1] = f[taken] + Space(k)
    BY <1>2, <1>3, <1>8
  <2>3. QED
    BY <1>8, <1>10, <2>1, <2>2, RingAssumption
<1>13. /\ \A i \in taken + 1 .. accepted : g[i] % RxBufferSize \in Offsets
       /\ \A i, j \in taken + 1 .. accepted : i < j => g[i] < g[j]
  <2>1. taken + 1 .. accepted \subseteq taken .. accepted
    BY <1>2
  <2>2. QED
    BY <1>1, <1>9, <2>1 DEF Threads
<1>14. ASSUME NEW i \in taken + 1 .. accepted - 1
       PROVE  \E c \in Kinds :
                /\ ring[g[i] % RxBufferSize] = [id |-> i + 1, kind |-> c]
                /\ g[i + 1] = g[i] + Space(c)
  <2>1. i \in taken .. accepted - 1 /\ g[i] = f[i] /\ g[i + 1] = f[i + 1]
    BY <1>2, <1>9
  <2>2. QED
    BY <1>1, <2>1 DEF Threads
<1>15. Threads(g)'
  <2>1. taken' = taken + 1 /\ accepted' = accepted /\ cbr' = cbr /\ ring' = ring
    BY <1>6
  <2>2. g \in [taken' .. accepted' -> Nat]
    BY <1>9, <2>1
  <2>3. /\ g[taken'] % RxBufferSize = rxbuf_off'
        /\ g[accepted'] % RxBufferSize = cbr'
        /\ g[accepted'] - g[taken'] < RxBufferSize
    BY <1>11, <1>12, <2>1
  <2>4. /\ \A i \in taken' .. accepted' : g[i] % RxBufferSize \in Offsets
        /\ \A i, j \in taken' .. accepted' : i < j => g[i] < g[j]
    BY <1>13, <2>1
  <2>5. \A i \in taken' .. accepted' - 1 : \E c \in Kinds :
          /\ ring'[g[i] % RxBufferSize] = [id |-> i + 1, kind |-> c]
          /\ g[i + 1] = g[i] + Space(c)
    BY <1>14, <2>1
  <2>6. QED
    BY <2>2, <2>3, <2>4, <2>5, Zenon DEF Threads
<1>16. capr' = CaprFor(rxbuf_off') /\ packet_buf'.id = taken'
  BY <1>5, <1>6
<1>17. InOrder'
  BY <1>15, <1>16 DEF InOrder, CaprFor
<1>18. QED
  BY <1>2, <1>6, <1>17

-----------------------------------------------------------------------------
(* The steps that neither store a packet nor take one.                     *)
LEMMA Elsewhere ==
  ASSUME [Next]_vars, \A k \in Kinds : ~Receive(k), ~ReceiveGood
  PROVE  UNCHANGED <<accepted, taken, capr, rxbuf_off, cbr, ring, packet_buf>>
<1> USE DEF card, rx, tx
<1>1. ASSUME NEW k \in Kinds, Overflow(k)
      PROVE  UNCHANGED <<accepted, taken, capr, rxbuf_off, cbr, ring, packet_buf>>
  BY <1>1 DEF Overflow
<1>2. CASE Transmit \/ ClearStatus \/ RegisterIrq \/ TakeInterrupt
  BY <1>2 DEF Transmit, ClearStatus, RegisterIrq, TakeInterrupt
<1>3. CASE ReadStatus \/ AckStatus \/ ReceiveBad \/ LookFurther
  BY <1>3 DEF ReadStatus, AckStatus, ReceiveBad, LookFurther
<1>4. CASE Send \/ SendNowhere \/ ClearAgain \/ Eoi \/ ReadPacket
  BY <1>4 DEF Send, SendNowhere, ClearAgain, Eoi, ReadPacket
<1>5. CASE UNCHANGED vars
  BY <1>5 DEF vars
<1>6. QED
  BY <1>1, <1>2, <1>3, <1>4, <1>5 DEF Next, Processor

LEMMA NextInOrder == Types /\ Types' /\ InOrder /\ [Next]_vars => InOrder'
<1> SUFFICES ASSUME Types, Types', InOrder, [Next]_vars
             PROVE  InOrder'
  OBVIOUS
<1>1. CASE (\A k \in Kinds : ~Receive(k)) /\ ~ReceiveGood
  <2>1. UNCHANGED <<accepted, taken, capr, rxbuf_off, cbr, ring, packet_buf>>
    BY <1>1, Elsewhere
  <2>2. PICK f : Threads(f)
    BY DEF InOrder
  <2>3. Threads(f)'
    BY <2>1, <2>2 DEF Threads
  <2>4. QED
    BY <2>1, <2>3 DEF InOrder, CaprFor
<1>2. QED
  BY <1>1, ReceiveInOrder, TakeInOrder

(* The unread packets as a queue of their numbers.                         *)
Unread == [i \in 1 .. accepted - taken |-> taken + i]

LEMMA UnreadFacts ==
  ASSUME taken \in Nat, accepted \in Nat, taken <= accepted
  PROVE  /\ Unread \in Seq(Nat) /\ Len(Unread) = accepted - taken
         /\ Unread = <<>> <=> taken = accepted
         /\ taken < accepted => Unread[Len(Unread)] = accepted /\ Head(Unread) = taken + 1
<1>1. accepted - taken \in Nat
  OBVIOUS
<1>2. Unread \in Seq(Nat) /\ Len(Unread) = accepted - taken
  BY <1>1 DEF Unread
<1>3. QED
  BY <1>1, <1>2 DEF Unread

LEMMA UnreadGrows ==
  ASSUME taken \in Nat, accepted \in Nat, taken <= accepted,
         accepted' = accepted + 1, taken' = taken
  PROVE  Unread' = Append(Unread, accepted + 1)
<1>1. PICK n \in Nat : n = accepted - taken
  OBVIOUS
<1>2. Unread \in Seq(Nat) /\ Len(Unread) = n
  BY <1>1, UnreadFacts
<1>3. Append(Unread, accepted + 1) =
        [i \in 1 .. n + 1 |-> IF i = n + 1 THEN accepted + 1 ELSE Unread[i]]
  BY <1>2
<1>4. \A i \in 1 .. n : Unread[i] = taken + i
  BY <1>1 DEF Unread
<1>5. taken + (n + 1) = accepted + 1
  BY <1>1
<1>6. [i \in 1 .. n + 1 |-> IF i = n + 1 THEN accepted + 1 ELSE Unread[i]] =
        [i \in 1 .. n + 1 |-> taken + i]
  BY <1>4, <1>5
<1>7. Unread' = [i \in 1 .. n + 1 |-> taken + i]
  <2>1. accepted' - taken' = n + 1
    BY <1>1
  <2>2. Unread' = [i \in 1 .. accepted' - taken' |-> taken' + i]
    BY DEF Unread
  <2>3. QED
    BY <2>1, <2>2
<1>8. QED
  BY <1>3, <1>6, <1>7

LEMMA UnreadShrinks ==
  ASSUME taken \in Nat, accepted \in Nat, taken < accepted,
         accepted' = accepted, taken' = taken + 1
  PROVE  Unread' = Tail(Unread)
<1>1. PICK n \in Nat : n = accepted - taken /\ n > 0
  OBVIOUS
<1>2. Unread \in Seq(Nat) /\ Len(Unread) = n /\ Unread # <<>>
  BY <1>1, UnreadFacts
<1>3. Tail(Unread) = [i \in 1 .. n - 1 |-> Unread[i + 1]]
  <2>1. PICK s \in Seq(Nat) : s = Unread
    BY <1>2
  <2>2. /\ Tail(s) \in Seq(Nat) /\ Len(Tail(s)) = n - 1
        /\ \A i \in 1 .. n - 1 : Tail(s)[i] = s[i + 1]
    BY <1>1, <1>2, <2>1, HeadTailProperties
  <2>3. Tail(s) = [i \in 1 .. n - 1 |-> s[i + 1]]
    <3>1. PICK t \in Seq(Nat) : t = Tail(s)
      BY <2>2
    <3>2. t \in [1 .. Len(t) -> Nat] /\ Len(t) = n - 1
      BY <2>2, <3>1, LenProperties
    <3>3. t = [i \in 1 .. n - 1 |-> t[i]]
      BY <3>2
    <3>4. QED
      BY <2>2, <3>1, <3>3
  <2>4. QED
    BY <2>1, <2>3
<1>4. \A i \in 1 .. n - 1 : Unread[i + 1] = taken + 1 + i
  BY <1>1 DEF Unread
<1>5. Unread' = [i \in 1 .. n - 1 |-> taken + 1 + i]
  <2>1. accepted' - taken' = n - 1
    BY <1>1
  <2>2. Unread' = [i \in 1 .. accepted' - taken' |-> taken' + i]
    BY DEF Unread
  <2>3. QED
    BY <2>1, <2>2
<1>6. QED
  BY <1>3, <1>4, <1>5

(* Packets reach packet_buf one at a time, in the order the card accepted  *)
(* them, none twice and none skipped, for every ring size, every mix of    *)
(* lengths and however often the ring wraps: the driver implements the     *)
(* packet queue.                                                           *)
THEOREM DeliversInOrder == Spec => Delivers
<1>1. Init => PQ!Init
  <2> SUFFICES ASSUME Init
               PROVE  PQ!Init
    OBVIOUS
  <2>1. taken = 0 /\ accepted = 0 /\ packet_buf.id = 0
    BY DEF Init, NoPacket
  <2>2. Unread = <<>>
    BY <2>1, UnreadFacts
  <2>3. QED
    BY <2>1, <2>2 DEF PQ!Init, Unread
<1>2. Types /\ Types' /\ InOrder /\ [Next]_vars => [PQ!Next]_(PQ!vars)
  <2> SUFFICES ASSUME Types, Types', InOrder, [Next]_vars
               PROVE  [PQ!Next]_(PQ!vars)
    OBVIOUS
  <2>0. /\ taken \in Nat /\ accepted \in Nat /\ taken <= accepted
        /\ packet_buf.id = taken
    BY DEF Types, Tokens, InOrder
  <2>1. ASSUME NEW k \in Kinds, Receive(k)
        PROVE  PQ!Accept
    <3>1. accepted' = accepted + 1 /\ taken' = taken /\ packet_buf' = packet_buf
      BY <2>1 DEF Receive, rx
    <3>2. Unread' = Append(Unread, accepted + 1)
      BY <2>0, <3>1, UnreadGrows
    <3>3. (IF Unread = <<>> THEN packet_buf.id ELSE Unread[Len(Unread)]) = accepted
      BY <2>0, UnreadFacts
    <3>4. packet_buf'.id = packet_buf.id
      BY <3>1
    <3>5. QED
      BY <3>2, <3>3, <3>4 DEF PQ!Accept, PQ!Newest, Unread
  <2>2. CASE ReceiveGood
    <3>1. InOrder' /\ taken < accepted /\ taken' = taken + 1 /\ accepted' = accepted
      BY <2>2, TakeInOrder
    <3>2. Unread' = Tail(Unread)
      BY <2>0, <3>1, UnreadShrinks
    <3>3. packet_buf'.id = taken + 1
      BY <3>1 DEF InOrder
    <3>4. Unread # <<>> /\ Head(Unread) = taken + 1
      BY <2>0, <3>1, UnreadFacts
    <3>5. PQ!Take
      BY <3>2, <3>3, <3>4 DEF PQ!Take, Unread
    <3>6. QED
      BY <3>5 DEF PQ!Next
  <2>3. CASE (\A k \in Kinds : ~Receive(k)) /\ ~ReceiveGood
    <3>1. UNCHANGED <<accepted, taken, packet_buf>>
      BY <2>3, Elsewhere
    <3>2. QED
      BY <3>1 DEF PQ!vars
  <2>4. QED
    BY <2>1, <2>2, <2>3 DEF PQ!Next
<1>3. Spec => [](Types /\ InOrder)
  <2>1. Types /\ InOrder /\ [Next]_vars => (Types /\ InOrder)'
    BY NextTypes, NextInOrder
  <2>2. QED
    BY <2>1, InitTypes, InitInOrder, PTL DEF Spec
<1>4. QED
  BY <1>1, <1>2, <1>3, PTL DEF Spec, Delivers, PQ!Spec

-----------------------------------------------------------------------------
(***************************************************************************)
(* Why rtl8139_isr comes to an end: what the frames leave it to do, what   *)
(* the card may still put into REG_ISR, and the steps to the way out.      *)
(***************************************************************************)
Fewer(S, T) == S \subseteq T /\ S # T

InFlight == {d \in Descriptors : ~own[d]}

(* The packets still to identify, and half of one that waits to be sent.   *)
Owed == 2 * (accepted - taken) + IF pc = "send" THEN 1 ELSE 0

Stage == [init |-> 8, register |-> 7, send |-> 6, receive |-> 5, read |-> 4, ack |-> 3,
          exit |-> 2, eoi |-> 1, idle |-> 0]

Nearer == Stage[pc'] < Stage[pc] \/ (pc' = pc /\ scan < scan')

(* What a step brings down: there is less to identify, or fewer packets are *)
(* in flight that can raise INT_TXOK, or fewer bits are set in REG_ISR, or  *)
(* the handler has got further in its loop.                                 *)
LessToDo ==
  \/ Owed' < Owed
  \/ Owed' = Owed /\ Fewer(InFlight', InFlight)
  \/ Owed' = Owed /\ InFlight' = InFlight /\ Fewer(isr', isr)
  \/ Owed' = Owed /\ InFlight' = InFlight /\ isr' = isr /\ Nearer

(* Unless a frame arrives, every step of the handler, and every one of the  *)
(* card while it runs, brings its end nearer.                               *)
IsrAdvances ==
  [][pc # "idle" /\ pc' # "idle" => frames < frames' \/ (frames' = frames /\ LessToDo)]_vars

(* What the handler is about to clear is still set.                        *)
Acking == pc = "ack" => status \subseteq isr

LEMMA NextAcking == Acking /\ [Next]_vars => Acking'
<1> SUFFICES ASSUME Acking, [Next]_vars
             PROVE  Acking'
  OBVIOUS
<1>1. ASSUME UNCHANGED <<pc, status>>, isr \subseteq isr'
      PROVE  Acking'
  BY <1>1 DEF Acking
<1>2. ASSUME NEW k \in Kinds, Receive(k) \/ Overflow(k)
      PROVE  Acking'
  BY <1>1, <1>2 DEF Receive, Overflow, Raise
<1>3. CASE Transmit
  BY <1>1, <1>3 DEF Transmit, Raise
<1>4. CASE ReadStatus
  BY <1>4 DEF ReadStatus, card, Acking
<1>5. CASE ReadPacket \/ LookFurther \/ UNCHANGED vars
  BY <1>1, <1>5 DEF ReadPacket, LookFurther, vars, card
<1>6. ASSUME pc' # "ack"
      PROVE  Acking'
  BY <1>6 DEF Acking
<1>7. CASE ClearStatus \/ RegisterIrq \/ TakeInterrupt \/ AckStatus \/ ReceiveBad \/ ReceiveGood
  BY <1>6, <1>7 DEF ClearStatus, RegisterIrq, TakeInterrupt, AckStatus, ReceiveBad, ReceiveGood
<1>8. CASE Send \/ SendNowhere \/ ClearAgain \/ Eoi
  BY <1>6, <1>8 DEF Send, SendNowhere, ClearAgain, Eoi
<1>9. QED
  BY <1>2, <1>3, <1>4, <1>5, <1>7, <1>8 DEF Next, Processor

(* The handler ends unless frames never cease: with no more of them, a     *)
(* measure that is well founded decreases at every step (IsrAdvances).     *)
THEOREM HandlerMovesOn == Spec => IsrAdvances
<1> DEFINE Moves == frames < frames' \/ LessToDo
<1>1. ASSUME Types, Acking, [Next]_vars, pc # "idle", pc' # "idle", ~UNCHANGED vars
      PROVE  Moves
  <2> USE DEF LessToDo
  <2>1. /\ accepted \in Nat /\ taken \in Nat /\ frames \in Nat /\ scan \in Nat
        /\ own \in [Descriptors -> BOOLEAN]
    BY <1>1, WireAssumption, TxAssumption DEF Types, Store, Sending, Tokens
  <2>2. ASSUME NEW k \in Kinds, Receive(k) \/ Overflow(k) PROVE Moves
    BY <2>1, <2>2 DEF Receive, Overflow
  <2>3. CASE Transmit
    <3>1. /\ curtx \in Descriptors /\ ~own[curtx]
          /\ own' = [own EXCEPT ![curtx] = TRUE]
          /\ UNCHANGED <<accepted, taken, pc>>
      BY <1>1, <2>3 DEF Transmit, rx, Types, Sending
    <3>2. Fewer(InFlight', InFlight)
      <4>1. InFlight' = InFlight \ {curtx} /\ curtx \in InFlight
        BY <2>1, <3>1 DEF InFlight
      <4>2. QED
        BY <4>1 DEF Fewer
    <3>3. Owed' = Owed
      BY <3>1 DEF Owed
    <3>4. QED
      BY <3>2, <3>3
  <2>4. ASSUME UNCHANGED <<accepted, taken, own>>, isr' \subseteq isr,
               pc # "send", pc' # "send", Nearer
        PROVE  Moves
    <3>1. Owed' = Owed /\ InFlight' = InFlight
      BY <2>4 DEF Owed, InFlight
    <3>2. Fewer(isr', isr) \/ isr' = isr
      BY <2>4 DEF Fewer
    <3>3. QED
      BY <2>4, <3>1, <3>2
  <2>5. CASE ClearStatus
    BY <2>4, <2>5 DEF ClearStatus, Nearer, Stage, rx
  <2>6. CASE ReadStatus
    BY <2>4, <2>6 DEF ReadStatus, Nearer, Stage, card, rx
  <2>7. CASE AckStatus
    <3>1. /\ pc = "ack" /\ isr' = isr \ status /\ UNCHANGED <<accepted, taken, own>>
          /\ pc' = IF status = {} THEN "exit"
                   ELSE IF "RXOK" \in status THEN "receive" ELSE "read"
      BY <2>7 DEF AckStatus, rx
    <3>2. CASE status = {}
      BY <2>4, <3>1, <3>2 DEF Nearer, Stage
    <3>3. CASE status # {}
      <4>1. Fewer(isr', isr)
        BY <1>1, <3>1, <3>3 DEF Acking, Fewer
      <4>2. Owed' = Owed /\ InFlight' = InFlight
        BY <3>1, <3>3 DEF Owed, InFlight
      <4>3. QED
        BY <4>1, <4>2
    <3>4. QED
      BY <3>2, <3>3
  <2>8. CASE ReceiveBad
    BY <2>4, <2>8 DEF ReceiveBad, Nearer, Stage, card, rx
  <2>9. CASE ReceiveGood
    <3>1. pc = "receive" /\ taken' = taken + 1 /\ accepted' = accepted
      BY <2>9 DEF ReceiveGood
    <3>2. Owed' < Owed
      BY <2>1, <3>1 DEF Owed
    <3>3. QED
      BY <3>2
  <2>10. CASE LookFurther
    <3>1. pc' = pc /\ scan' = scan + 1 /\ UNCHANGED <<accepted, taken, own, isr>>
      BY <2>10 DEF LookFurther, card, rx
    <3>2. Owed' = Owed /\ InFlight' = InFlight /\ Nearer
      BY <2>1, <3>1 DEF Owed, InFlight, Nearer
    <3>3. QED
      BY <3>1, <3>2
  <2>11. CASE Send \/ SendNowhere
    <3>1. pc = "send" /\ pc' = "read" /\ UNCHANGED <<accepted, taken>>
      BY <2>11 DEF Send, SendNowhere, card, rx
    <3>2. Owed' < Owed
      BY <2>1, <3>1 DEF Owed
    <3>3. QED
      BY <3>2
  <2>12. CASE ClearAgain
    BY <2>4, <2>12 DEF ClearAgain, Nearer, Stage, rx
  <2>13. ~(RegisterIrq \/ TakeInterrupt \/ Eoi \/ ReadPacket)
    BY <1>1 DEF RegisterIrq, TakeInterrupt, Eoi, ReadPacket
  <2>14. QED
    BY <1>1, <2>2, <2>3, <2>5, <2>6, <2>7, <2>8, <2>9, <2>10, <2>11, <2>12, <2>13
    DEF Next, Processor
<1>2. Init => Acking
  BY DEF Init, Acking
<1>3. ASSUME Types, [Next]_vars
      PROVE  frames < frames' \/ frames' = frames
  <2>1. frames \in Nat
    BY <1>3, WireAssumption DEF Types, Store
  <2>2. ASSUME NEW k \in Kinds, Receive(k) \/ Overflow(k) PROVE frames < frames'
    BY <2>1, <2>2 DEF Receive, Overflow
  <2>3. Transmit \/ ReadPacket \/ UNCHANGED vars => frames' = frames
    BY DEF Transmit, ReadPacket, vars, card
  <2>4. Processor => frames' = frames
    BY DEF Processor, ClearStatus, RegisterIrq, TakeInterrupt, ReadStatus, AckStatus, ReceiveBad,
           ReceiveGood, LookFurther, Send, SendNowhere, ClearAgain, Eoi, card
  <2>5. QED
    BY <1>3, <2>2, <2>3, <2>4 DEF Next
<1>4. Types /\ Acking /\ [Next]_vars =>
        [pc # "idle" /\ pc' # "idle" => frames < frames' \/ (frames' = frames /\ LessToDo)]_vars
  BY <1>1, <1>3
<1>5. QED
  BY <1>2, <1>4, NextAcking, InitTypes, NextTypes, PTL DEF Spec, IsrAdvances

-----------------------------------------------------------------------------
(***************************************************************************)
(* Why what is sent leaves: until a packet finds its descriptor in use,    *)
(* those in flight are the ones the card comes to next, up to the one the  *)
(* driver fills next.                                                      *)
(***************************************************************************)
Turn(d, i) == (d + i) % TxCount

InTurn ==
  /\ scan # 0 => crowded
  /\ ~crowded => \E n \in 0 .. TxCount :
       /\ next_txbuf = Turn(curtx, n)
       /\ \A i \in 0 .. TxCount - 1 : ~own[Turn(curtx, i)] <=> i < n

(* Whenever a descriptor is in flight, the one the card reads next is:     *)
(* Transmit never waits for the driver.                                    *)
CardIsNext == ~crowded /\ InFlight # {} => ~own[curtx]

LEMMA ModTurn ==
  ASSUME NEW n \in Nat \ {0}, NEW c \in 0 .. n - 1, NEW i \in 0 .. n
  PROVE  (c + i) % n = IF c + i < n THEN c + i ELSE c + i - n
<1>1. CASE c + i < n
  <2>1. c + i \in Nat /\ c + i \in 0 .. n - 1 /\ c + i = n * 0 + (c + i) /\ 0 \in Int
    BY <1>1
  <2>2. (c + i) % n = c + i
    BY <2>1, ModIs
  <2>3. QED
    BY <1>1, <2>2
<1>2. CASE ~(c + i < n)
  <2>1. c + i \in Nat /\ c + i - n \in 0 .. n - 1 /\ c + i = n * 1 + (c + i - n) /\ 1 \in Int
    BY <1>2
  <2>2. (c + i) % n = c + i - n
    BY <2>1, ModIs
  <2>3. QED
    BY <1>2, <2>2
<1>3. QED
  BY <1>1, <1>2

LEMMA TurnIs ==
  \A d \in 0 .. TxCount - 1, i \in 0 .. TxCount :
    Turn(d, i) = IF d + i < TxCount THEN d + i ELSE d + i - TxCount
BY ModTurn, TxAssumption DEF Turn

(* A step that moves no descriptor leaves the rotation as it is.           *)
LEMMA SameTurn ==
  ASSUME InTurn, UNCHANGED <<own, curtx, next_txbuf, scan, crowded>>
  PROVE  InTurn'
BY DEF InTurn

LEMMA TransmitInTurn == ASSUME Sending, InTurn, Transmit PROVE InTurn'
<1>1. /\ TxCount \in Nat \ {0} /\ curtx \in 0 .. TxCount - 1
      /\ own \in [0 .. TxCount - 1 -> BOOLEAN]
  BY TxAssumption DEF Sending, Descriptors
<1>2. /\ ~own[curtx] /\ own' = [own EXCEPT ![curtx] = TRUE]
      /\ curtx' = Turn(curtx, 1)
      /\ UNCHANGED <<next_txbuf, scan, crowded>>
  BY DEF Transmit, tx, Turn
<1> SUFFICES ASSUME ~crowded
             PROVE  \E n \in 0 .. TxCount :
                      /\ next_txbuf = Turn(curtx', n)
                      /\ \A i \in 0 .. TxCount - 1 : ~own'[Turn(curtx', i)] <=> i < n
  BY <1>2 DEF InTurn
<1>3. PICK n \in 0 .. TxCount :
        /\ next_txbuf = Turn(curtx, n)
        /\ \A i \in 0 .. TxCount - 1 : ~own[Turn(curtx, i)] <=> i < n
  BY DEF InTurn
<1>4. \A c \in 0 .. TxCount - 1, i \in 0 .. TxCount :
        Turn(c, i) = IF c + i < TxCount THEN c + i ELSE c + i - TxCount
  BY TurnIs
<1>5. curtx' = IF curtx + 1 < TxCount THEN curtx + 1 ELSE 0
  BY <1>1, <1>2, <1>4
<1>6. n > 0
  <2>1. Turn(curtx, 0) = curtx /\ 0 \in 0 .. TxCount - 1
    BY <1>1, <1>4
  <2>2. 0 < n
    BY <1>2, <1>3, <2>1
  <2>3. QED
    BY <2>2
<1>7. n - 1 \in 0 .. TxCount /\ next_txbuf = Turn(curtx', n - 1)
  <2>1. n - 1 \in 0 .. TxCount /\ curtx' \in 0 .. TxCount - 1
    BY <1>1, <1>5, <1>6
  <2>2. Turn(curtx, n) = IF curtx + n < TxCount THEN curtx + n ELSE curtx + n - TxCount
    BY <1>1, <1>4
  <2>3. Turn(curtx', n - 1) =
          IF curtx' + (n - 1) < TxCount THEN curtx' + (n - 1) ELSE curtx' + (n - 1) - TxCount
    BY <1>4, <2>1
  <2>4. QED
    BY <1>1, <1>3, <1>5, <1>6, <2>1, <2>2, <2>3
<1>8. ASSUME NEW i \in 0 .. TxCount - 1
      PROVE  ~own'[Turn(curtx', i)] <=> i < n - 1
  <2>1. Turn(curtx', i) = IF curtx' + i < TxCount THEN curtx' + i ELSE curtx' + i - TxCount
    BY <1>1, <1>4, <1>5
  <2>2. CASE i + 1 < TxCount
    <3>1. Turn(curtx, i + 1) =
            IF curtx + (i + 1) < TxCount THEN curtx + (i + 1) ELSE curtx + (i + 1) - TxCount
      BY <1>1, <1>4, <2>2
    <3>2. PICK d : d = Turn(curtx, i + 1)
      OBVIOUS
    <3>3. d = Turn(curtx', i) /\ d # curtx /\ d \in 0 .. TxCount - 1
      BY <1>1, <1>5, <2>1, <2>2, <3>1, <3>2
    <3>4. ~own[d] <=> i + 1 < n
      <4>1. i + 1 \in 0 .. TxCount - 1
        BY <1>1, <2>2
      <4>2. QED
        BY <1>3, <3>2, <4>1
    <3>5. own'[d] = own[d]
      BY <1>1, <1>2, <3>3
    <3>6. QED
      BY <3>3, <3>4, <3>5
  <2>3. CASE i = TxCount - 1
    <3>1. Turn(curtx', i) = curtx
      BY <1>1, <1>5, <2>1, <2>3
    <3>2. own'[curtx]
      BY <1>1, <1>2
    <3>3. ~(i < n - 1)
      BY <1>1, <2>3
    <3>4. QED
      BY <3>1, <3>2, <3>3
  <2>4. QED
    BY <1>1, <2>2, <2>3
<1>9. QED
  BY <1>7, <1>8

LEMMA SendInTurn == ASSUME Sending, InTurn, Send PROVE InTurn'
<1>1. /\ TxCount \in Nat \ {0} /\ curtx \in 0 .. TxCount - 1 /\ next_txbuf \in 0 .. TxCount - 1
      /\ own \in [0 .. TxCount - 1 -> BOOLEAN]
  BY TxAssumption DEF Sending, Descriptors
<1>2. /\ own[Candidate] /\ own' = [own EXCEPT ![Candidate] = FALSE]
      /\ next_txbuf' = Turn(Candidate, 1)
      /\ scan' = 0 /\ UNCHANGED <<curtx, crowded>>
  BY DEF Send, Turn
<1> SUFFICES ASSUME ~crowded
             PROVE  \E n \in 0 .. TxCount :
                      /\ next_txbuf' = Turn(curtx, n)
                      /\ \A i \in 0 .. TxCount - 1 : ~own'[Turn(curtx, i)] <=> i < n
  BY <1>2 DEF InTurn
<1>3. PICK n \in 0 .. TxCount :
        /\ next_txbuf = Turn(curtx, n)
        /\ \A i \in 0 .. TxCount - 1 : ~own[Turn(curtx, i)] <=> i < n
  BY DEF InTurn
<1>4. \A c \in 0 .. TxCount - 1, i \in 0 .. TxCount :
        Turn(c, i) = IF c + i < TxCount THEN c + i ELSE c + i - TxCount
  BY TurnIs
<1>5. Candidate = next_txbuf
  <2>1. scan = 0
    BY DEF InTurn
  <2>2. Turn(next_txbuf, 0) = next_txbuf
    BY <1>1, <1>4
  <2>3. QED
    BY <2>1, <2>2 DEF Candidate, Turn
<1>6. n < TxCount
  <2>1. CASE n = TxCount
    <3>1. next_txbuf = curtx
      BY <1>1, <1>3, <1>4, <2>1
    <3>2. Turn(curtx, 0) = curtx /\ 0 \in 0 .. TxCount - 1
      BY <1>1, <1>4
    <3>3. ~own[curtx]
      BY <1>1, <1>3, <2>1, <3>2
    <3>4. QED
      BY <1>2, <1>5, <3>1, <3>3
  <2>2. QED
    BY <1>1, <2>1
<1>7. next_txbuf' = Turn(curtx, n + 1)
  <2>1. next_txbuf = IF curtx + n < TxCount THEN curtx + n ELSE curtx + n - TxCount
    BY <1>1, <1>3, <1>4
  <2>2. next_txbuf' = IF next_txbuf + 1 < TxCount THEN next_txbuf + 1 ELSE next_txbuf + 1 - TxCount
    BY <1>1, <1>2, <1>4, <1>5
  <2>3. Turn(curtx, n + 1) =
          IF curtx + (n + 1) < TxCount THEN curtx + (n + 1) ELSE curtx + (n + 1) - TxCount
    BY <1>1, <1>4, <1>6
  <2>4. QED
    BY <1>1, <1>6, <2>1, <2>2, <2>3
<1>8. ASSUME NEW i \in 0 .. TxCount - 1
      PROVE  ~own'[Turn(curtx, i)] <=> i < n + 1
  <2>1. PICK d : d = Turn(curtx, i)
    OBVIOUS
  <2>2. d = IF curtx + i < TxCount THEN curtx + i ELSE curtx + i - TxCount
    BY <1>1, <1>4, <2>1
  <2>3. next_txbuf = IF curtx + n < TxCount THEN curtx + n ELSE curtx + n - TxCount
    BY <1>1, <1>3, <1>4
  <2>4. d \in 0 .. TxCount - 1 /\ (d = next_txbuf <=> i = n)
    BY <1>1, <1>6, <2>2, <2>3
  <2>5. ~own[d] <=> i < n
    BY <1>3, <2>1
  <2>6. own'[d] = IF d = next_txbuf THEN FALSE ELSE own[d]
    BY <1>1, <1>2, <1>5, <2>4
  <2>7. QED
    BY <2>1, <2>4, <2>5, <2>6
<1>9. n + 1 \in 0 .. TxCount
  BY <1>1, <1>6
<1>10. QED
  BY <1>7, <1>8, <1>9

LEMMA NextInTurn == ASSUME Sending, InTurn, [Next]_vars PROVE InTurn'
<1>1. ASSUME NEW k \in Kinds, Receive(k) \/ Overflow(k) PROVE InTurn'
  BY <1>1, SameTurn DEF Receive, Overflow, tx
<1>2. CASE ClearStatus \/ RegisterIrq \/ TakeInterrupt \/ ReadStatus \/ AckStatus
  BY <1>2, SameTurn DEF ClearStatus, RegisterIrq, TakeInterrupt, ReadStatus, AckStatus, card, tx
<1>3. CASE ReceiveBad \/ ReceiveGood \/ ClearAgain \/ Eoi \/ ReadPacket \/ UNCHANGED vars
  BY <1>3, SameTurn DEF ReceiveBad, ReceiveGood, ClearAgain, Eoi, ReadPacket, vars, card, tx
<1>4. CASE LookFurther
  BY <1>4 DEF LookFurther, InTurn
<1>5. CASE SendNowhere
  <2>1. scan # 0 /\ crowded' = crowded /\ scan' = 0
    BY <1>5, TxAssumption DEF SendNowhere
  <2>2. QED
    BY <2>1 DEF InTurn
<1>6. QED
  BY <1>1, <1>2, <1>3, <1>4, <1>5, TransmitInTurn, SendInTurn DEF Next, Processor

(* However packets are sent and leave, the card and the driver go round    *)
(* the descriptors together: the card never waits at a free one while      *)
(* another is in flight.                                                   *)
THEOREM CardServesInTurn == Spec => [](InTurn /\ CardIsNext)
<1>1. Init => InTurn
  <2> SUFFICES ASSUME Init PROVE InTurn
    OBVIOUS
  <2>1. /\ TxCount \in Nat \ {0} /\ next_txbuf = 0 /\ curtx = 0 /\ scan = 0
        /\ own = [d \in 0 .. TxCount - 1 |-> TRUE]
    BY TxAssumption DEF Init, Descriptors
  <2>2. \A i \in 0 .. TxCount - 1 : Turn(0, i) = i
    BY <2>1, TurnIs
  <2>3. /\ next_txbuf = Turn(curtx, 0)
        /\ \A i \in 0 .. TxCount - 1 : ~own[Turn(curtx, i)] <=> i < 0
    BY <2>1, <2>2
  <2>4. 0 \in 0 .. TxCount
    BY <2>1
  <2>5. QED
    BY <2>1, <2>3, <2>4 DEF InTurn
<1>2. ASSUME Sending, InTurn PROVE CardIsNext
  <2> SUFFICES ASSUME ~crowded, NEW d \in Descriptors, ~own[d]
               PROVE  ~own[curtx]
    BY DEF CardIsNext, InFlight
  <2>1. TxCount \in Nat \ {0} /\ curtx \in 0 .. TxCount - 1 /\ d \in 0 .. TxCount - 1
    BY <1>2, TxAssumption DEF Sending, Descriptors
  <2>2. PICK n \in 0 .. TxCount :
          \A i \in 0 .. TxCount - 1 : ~own[Turn(curtx, i)] <=> i < n
    BY <1>2 DEF InTurn
  <2>3. \A i \in 0 .. TxCount - 1 :
          Turn(curtx, i) = IF curtx + i < TxCount THEN curtx + i ELSE curtx + i - TxCount
    BY <2>1, TurnIs
  <2>4. PICK i \in 0 .. TxCount - 1 : Turn(curtx, i) = d
    <3>1. CASE d >= curtx
      <4>1. d - curtx \in 0 .. TxCount - 1 /\ curtx + (d - curtx) = d
        BY <2>1, <3>1
      <4>2. Turn(curtx, d - curtx) = d
        BY <2>1, <2>3, <4>1
      <4>3. QED
        BY <4>1, <4>2
    <3>2. CASE d < curtx
      <4>1. /\ d - curtx + TxCount \in 0 .. TxCount - 1
            /\ curtx + (d - curtx + TxCount) = d + TxCount
        BY <2>1, <3>2
      <4>2. Turn(curtx, d - curtx + TxCount) = d
        BY <2>1, <2>3, <4>1
      <4>3. QED
        BY <4>1, <4>2
    <3>3. QED
      BY <2>1, <3>1, <3>2
  <2>5. i < n
    BY <2>2, <2>4
  <2>6. Turn(curtx, 0) = curtx /\ 0 \in 0 .. TxCount - 1
    BY <2>1, <2>3
  <2>7. 0 < n
    BY <2>5
  <2>8. QED
    BY <2>2, <2>6, <2>7
<1>3. Types => Sending
  BY DEF Types
<1>4. Sending /\ InTurn /\ [Next]_vars => InTurn'
  BY NextInTurn
<1>5. QED
  BY <1>1, <1>2, <1>3, <1>4, InitTypes, NextTypes, PTL DEF Spec
=============================================================================
