------------------------------- MODULE FlowHash --------------------------------
(***************************************************************************)
(* Five-tuples, the hash that names a flow and the two comparisons of a    *)
(* packet with a flow.  MurmurHash3 itself is not modelled: HashInput is   *)
(* the sixteen bytes it is given, as four words, and the modules that use  *)
(* it say what they assume of Murmur.                                      *)
(***************************************************************************)
EXTENDS Integers

Word == 0 .. 2^32 - 1
Port == 0 .. 2^16 - 1
TCP == 6
UDP == 17

IPv4Tuple == [srcIp : Word, srcPort : Port, dstIp : Word, dstPort : Port,
              protocol : {TCP, UDP}]

Opposite(t) == [srcIp |-> t.dstIp, srcPort |-> t.dstPort,
                dstIp |-> t.srcIp, dstPort |-> t.srcPort, protocol |-> t.protocol]

(* `first << 16 | (second & 0xFFFF)' *)
Ports(first, second) == first * 65536 + second

AsIs(t) == <<t.srcIp, t.dstIp, Ports(t.srcPort, t.dstPort), t.protocol>>

BadHashInput(t) ==                      \* no fall back to the ports
  IF t.srcIp <= t.dstIp THEN AsIs(t) ELSE AsIs(Opposite(t))

(* Ipv4FlowHasher: the end with the smaller address goes first, or, when   *)
(* the addresses are the same, the one with the smaller port.              *)
HashInput(t) ==
  IF t.srcIp < t.dstIp \/ (t.srcIp = t.dstIp /\ t.srcPort <= t.dstPort)
  THEN AsIs(t) ELSE AsIs(Opposite(t))

(* Flow::sameFlow and IPv4Packet::sameFlow *)
SameFlow(t, u) == u = t \/ u = Opposite(t)

(* Flow::packetDirection, of a packet with tuple u in a flow with tuple t. *)
PacketDirection(t, u) ==
  CASE u = t -> "ORIG_TO_DEST"
    [] u # t /\ u = Opposite(t) -> "DEST_TO_ORIG"
    [] OTHER -> "UNKNOWN"
================================================================================
