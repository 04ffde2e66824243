----------------------------- MODULE MCRtl8139 -----------------------------
(***************************************************************************)
(* Small instances of Rtl8139: packet lengths that take 8, 12 or 16 bytes  *)
(* of a 32-byte ring, so that three or four frames fill it and the sixth   *)
(* wraps at an offset the first did not have.                              *)
(***************************************************************************)
EXTENDS Rtl8139, TLC

(* An ARP request, another packet, and one longer than PACKET_SIZE_MAX.    *)
MixedTraffic == "request" :> 4 @@ "ip" :> 7 @@ "long" :> 9

Requests == "request" :> 4

=============================================================================
