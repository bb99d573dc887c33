--------------------------------- MODULE Meters ---------------------------------
(***************************************************************************)
(* The attribute meters: what each of the fifteen measures of the packets  *)
(* of a flow, and how a fingerprint of the database is merged with one.    *)
(*                                                                         *)
(* A meter is [size, fp, total, done, last].  fp is a function from the    *)
(* positions that were ever touched to integers, and the probability at a  *)
(* position is fp[i] / total (see At), an exact fraction where the code    *)
(* has a double.  Only where the code truncates a double to an integer     *)
(* does the difference matter, see Lossy.  done and last are the members   *)
(* _done and _lastPacket of two of the classes.                            *)
(*                                                                         *)
(* A flow is a record of which the meters read pktCount, isFirstPacket,    *)
(* lastDirection and direction; a packet has a tuple and a payload, a      *)
(* sequence of bytes.                                                      *)
(***************************************************************************)
EXTENDS Integers, Sequences, FiniteSets, Bags, TLC

LOCAL INSTANCE SequencesExt
LOCAL INSTANCE Functions

(* The pairs <<k, n>> for which (k / n) * n is a little less than k when   *)
(* it is computed with doubles.                                            *)
CONSTANT Lossy
ASSUME LossyAssumption == \A pair \in Lossy : pair[1] \in 1 .. pair[2]

Byte == 0 .. 255
Size(p) == Len(p.payload)               \* IPv4Packet::dataSize()

(* AttributeMeter::AttributeMeter(fingerprint_size) *)
AttributeMeter(size) ==
  [size |-> size, fp |-> EmptyBag, total |-> 0, done |-> FALSE, last |-> << >>]

Bin(fp, i) == IF i \in DOMAIN fp THEN fp[i] ELSE 0
Pair(x, y) == [i \in {0, 1} |-> IF i = 0 THEN x ELSE y]

(* f, and g where f is not defined: f @@ g, whose definition no prover has.*)
Over(f, g) == [x \in DOMAIN f \cup DOMAIN g |-> IF x \in DOMAIN f THEN f[x] ELSE g[x]]

(* The sequences in parts, one after the other; and what is in s at the    *)
(* places in keep, in its order.                                           *)
Joined(parts) ==
  LET upTo[i \in 0 .. Len(parts)] == IF i = 0 THEN << >> ELSE upTo[i - 1] \o parts[i]
  IN  upTo[Len(parts)]
Subsequence(s, keep) ==
  LET upTo[i \in 0 .. Len(s)] ==
        IF i = 0 THEN << >>
        ELSE IF i \in keep THEN Append(upTo[i - 1], s[i]) ELSE upTo[i - 1]
  IN  upTo[Len(s)]

(* at(pos), as a fraction; -1 stands for a position that is not there.     *)
At(m, pos) ==
  IF pos >= m.size THEN <<-1, 1>>
  ELSE IF m.total = 0 THEN <<0, 1>> ELSE <<Bin(m.fp, pos), m.total>>

(* The sum of a fingerprint times its total, which is that total when the  *)
(* probabilities add up to one: what is at the last position that was      *)
(* touched, and the sum of those before it.                                *)
Touched(fp, i) == {k \in DOMAIN fp : k < i}
LastOf(ks) == CHOOSE k \in ks : \A j \in ks : j <= k
Mass(m) ==
  LET upTo[i \in 0 .. m.size] ==
        IF Touched(m.fp, i) = {} THEN 0
        ELSE upTo[LastOf(Touched(m.fp, i))] + m.fp[LastOf(Touched(m.fp, i))]
  IN  upTo[m.size]

(* `uint64_t count = (k / n) * n' *)
Truncated(k, n) == IF <<k, n>> \in Lossy THEN k - 1 ELSE k

(* Count some bytes: `_fingerprint[*data]++', and the new total.           *)
CountBytes(m, bytes, total) == [m EXCEPT !.fp = @ (+) ToBag(bytes), !.total = total]
FirstBytes(p, n) == IF Size(p) < n THEN p.payload ELSE SubSeq(p.payload, 1, n)

--------------------------------------------------------------------------------
ByteFrequencyMeter == AttributeMeter(256)
ByteFrequency(m, flow, p) ==
  IF Size(p) = 0 THEN m ELSE CountBytes(m, p.payload, m.total + Size(p))

ByteFrequencyFirst8PacketsMeter == AttributeMeter(256)
(* The total is overwritten with the size of the last packet.              *)
ByteFrequencyFirst8Packets(m, flow, p) ==
  IF flow.pktCount > 8 \/ Size(p) = 0 THEN m
  ELSE CountBytes(m, p.payload, Size(p))

ByteFrequencyFirstOrigToDestMeter == AttributeMeter(256)
BadByteFrequencyFirstOrigToDest(m, flow, p) ==       \* counts twice
  IF ~flow.isFirstPacket \/ Size(p) = 0 THEN m
  ELSE CountBytes(m, p.payload \o p.payload, m.total + Size(p))
ByteFrequencyFirstOrigToDest(m, flow, p) ==
  IF ~flow.isFirstPacket \/ Size(p) = 0 THEN m
  ELSE CountBytes(m, p.payload, m.total + Size(p))

ByteFrequencyFirstDestToOrigMeter == AttributeMeter(256)
(* The first packet with data, whichever its direction.                    *)
ByteFrequencyFirstDestToOrig(m, flow, p) ==
  IF m.done \/ Size(p) = 0 THEN m
  ELSE [CountBytes(m, p.payload, m.total + Size(p)) EXCEPT !.done = TRUE]

First4ByteFrequencyMeter == AttributeMeter(256)
First4ByteFrequency(m, flow, p) ==
  IF Size(p) = 0 THEN m
  ELSE LET bytes == FirstBytes(p, 4) IN CountBytes(m, bytes, m.total + Len(bytes))

First16ByteFrequencyMeter == AttributeMeter(256)
First16ByteFrequency(m, flow, p) ==
  IF Size(p) = 0 THEN m
  ELSE LET bytes == FirstBytes(p, 16) IN CountBytes(m, bytes, m.total + Len(bytes))

FirstBitPositionsMeter == AttributeMeter(64)
(* Position 16i+j counts ones, 16i+8+j zeros, at bit j of byte i.  The     *)
(* total grows by the bits of four bytes even when there are fewer.        *)
Bits(bytes) ==
  {IF (bytes[i+1] \div 2^(7-j)) % 2 = 1 THEN 16*i + j ELSE 16*i + 8 + j :
     i \in 0 .. Len(bytes)-1, j \in 0 .. 7}
FirstBitPositions(m, flow, p) ==
  IF Size(p) = 0 THEN m
  ELSE [m EXCEPT !.fp = @ (+) SetToBag(Bits(FirstBytes(p, 4))), !.total = @ + 32]

--------------------------------------------------------------------------------
DirectionChangesMeter == AttributeMeter(2)
(* The first packet is a change too: there was no direction before.        *)
DirectionChanges(m, flow, p) ==
  LET before == Truncated(Bin(m.fp, 0), flow.pktCount - 1)
      change == IF flow.lastDirection # flow.direction THEN 1 ELSE 0
  IN  [m EXCEPT !.fp = Pair(before + change, flow.pktCount - before - change),
                !.total = flow.pktCount]

DirectionChangesFirst8PacketsMeter == AttributeMeter(2)
DirectionChangesFirst8Packets(m, flow, p) ==
  IF flow.pktCount > 8 THEN m ELSE DirectionChanges(m, flow, p)

DirectionBytesCountMeter == AttributeMeter(2)
DirectionBytesCount(m, flow, p) ==
  LET bytes(dir, i) == Truncated(Bin(m.fp, i), m.total)
                       + IF flow.direction = dir THEN Size(p) ELSE 0
  IN  IF Size(p) = 0 \/ flow.direction = "UNKNOWN" THEN m
      ELSE [m EXCEPT !.fp = Pair(bytes("ORIG_TO_DEST", 0), bytes("DEST_TO_ORIG", 1)),
                     !.total = @ + Size(p)]

DirectionBytesCountFirst10PacketMeter == AttributeMeter(2)
DirectionBytesCountFirst10Packet(m, flow, p) ==
  IF flow.pktCount > 10 THEN m ELSE DirectionBytesCount(m, flow, p)

PayloadSizeFirstPacketMeter == [AttributeMeter(2) EXCEPT !.fp = Pair(0, 1), !.total = 1]
(* The second probability is negative for more than an Ethernet frame.     *)
PayloadSizeFirstPacket(m, flow, p) ==
  LET max == IF p.tuple.protocol = 6 THEN 1460 ELSE 1476
  IN  IF ~flow.isFirstPacket THEN m
      ELSE [m EXCEPT !.fp = Pair(Size(p), max - Size(p)), !.total = max]

(* Entropy of the first packet, in place of which stands the number of     *)
(* distinct bytes: zero for the same payloads, and growing with them.      *)
EntropyFirstOrigToDestMeter == AttributeMeter(2)
EntropyFirstOrigToDest(m, flow, p) ==
  LET entropy == Cardinality(ToSet(p.payload)) - 1
  IN  IF ~flow.isFirstPacket \/ Size(p) = 0 THEN m
      ELSE [m EXCEPT !.fp = Pair(entropy, 255 - entropy), !.total = 255]

(* "\x03.+\x14.+\x02.+\x07.*(connect){0,1}.+(app){0,1}.+", where a dot is  *)
(* no end of line.                                                         *)
IsRtmp(payload) ==
  LET n == Len(payload)
      byte(i, b) == i \in 1 .. n /\ payload[i] = b
  IN  /\ \A i \in 1 .. n : payload[i] \notin {10, 13}
      /\ byte(1, 3)
      /\ \E i, j, k \in 1 .. n : /\ i >= 3 /\ j >= i + 2 /\ k >= j + 2 /\ n >= k + 2
                                 /\ byte(i, 20) /\ byte(j, 2) /\ byte(k, 7)

RtmpRegexMatchMeter == [AttributeMeter(2) EXCEPT !.fp = Pair(0, 1), !.total = 1]
RtmpRegexMatch(m, flow, p) ==
  IF Bin(m.fp, 0) = 0 /\ IsRtmp(p.payload) THEN [m EXCEPT !.fp = Pair(1, 0)] ELSE m

--------------------------------------------------------------------------------
(* A digit sum is at most 19 (of 199), so that of two times three bytes is *)
(* at most 114.                                                            *)
CrossSum(b) == (b % 10) + ((b \div 10) % 10) + (b \div 100)
BadMixed(x, y) ==                       \* sums of the bytes, not of their digits
  x[1] + x[2] + x[3] + y[1] + y[2] + y[3]
Mixed(x, y) == CrossSum(x[1]) + CrossSum(x[2]) + CrossSum(x[3])
               + CrossSum(y[1]) + CrossSum(y[2]) + CrossSum(y[3])

ActionReactionMeter == AttributeMeter(115)
(* When no packet with data came before, _lastPacket was never written:    *)
(* the three bytes are whatever `junk' the memory held.                    *)
ActionReactionFirst3ByteHash(m, flow, p, junk) ==
  LET current == [i \in 1 .. 3 |-> IF i <= Size(p) THEN p.payload[i] ELSE 0]
      before == IF m.last = << >> THEN junk ELSE m.last
  IN  IF Size(p) = 0 THEN m
      ELSE IF ~flow.isFirstPacket /\ flow.lastDirection # flow.direction
           THEN [m EXCEPT !.fp = @ (+) SetToBag({Mixed(before, current)}),
                          !.total = @ + 1, !.last = current]
           ELSE [m EXCEPT !.last = current]

--------------------------------------------------------------------------------
(* init_attribute_meters: the names, as registered with the factory.       *)
Registered ==
  {"ByteFrequencyMeter", "ByteFrequencyFirst8PacketsMeter",
   "ByteFrequencyFirstOrigToDestPacket", "ByteFrequencyFirstDestToOrigPacket",
   "First4ByteFrequencyMeter", "First16ByteFrequencyMeter", "FirstBitPositionsMeter",
   "DirectionChangesMeter", "DirectionChangesFirst8PacketsMeter",
   "DirectionBytesCountMeter", "DirectionBytesCountFirst10PacketMeter",
   "PayloadSizeFirstPacketMeter", "EntropyFirstOrigToDestPacket",
   "RtmpRegexMatchMeter", "ActionReactionFirst3ByteHashMeter"}

(* AttributeMeterFactory::create *)
Create(name) ==
  CASE name = "ByteFrequencyMeter" -> ByteFrequencyMeter
    [] name = "ByteFrequencyFirst8PacketsMeter" -> ByteFrequencyFirst8PacketsMeter
    [] name = "ByteFrequencyFirstOrigToDestPacket" -> ByteFrequencyFirstOrigToDestMeter
    [] name = "ByteFrequencyFirstDestToOrigPacket" -> ByteFrequencyFirstDestToOrigMeter
    [] name = "First4ByteFrequencyMeter" -> First4ByteFrequencyMeter
    [] name = "First16ByteFrequencyMeter" -> First16ByteFrequencyMeter
    [] name = "FirstBitPositionsMeter" -> FirstBitPositionsMeter
    [] name = "DirectionChangesMeter" -> DirectionChangesMeter
    [] name = "DirectionChangesFirst8PacketsMeter" -> DirectionChangesFirst8PacketsMeter
    [] name = "DirectionBytesCountMeter" -> DirectionBytesCountMeter
    [] name = "DirectionBytesCountFirst10PacketMeter" -> DirectionBytesCountFirst10PacketMeter
    [] name = "PayloadSizeFirstPacketMeter" -> PayloadSizeFirstPacketMeter
    [] name = "EntropyFirstOrigToDestPacket" -> EntropyFirstOrigToDestMeter
    [] name = "RtmpRegexMatchMeter" -> RtmpRegexMatchMeter
    [] name = "ActionReactionFirst3ByteHashMeter" -> ActionReactionMeter

(* AttributeMeter::calculateMeasurement *)
CalculateMeasurement(name, m, flow, p, junk) ==
  CASE name = "ByteFrequencyMeter" -> ByteFrequency(m, flow, p)
    [] name = "ByteFrequencyFirst8PacketsMeter" -> ByteFrequencyFirst8Packets(m, flow, p)
    [] name = "ByteFrequencyFirstOrigToDestPacket" -> ByteFrequencyFirstOrigToDest(m, flow, p)
    [] name = "ByteFrequencyFirstDestToOrigPacket" -> ByteFrequencyFirstDestToOrig(m, flow, p)
    [] name = "First4ByteFrequencyMeter" -> First4ByteFrequency(m, flow, p)
    [] name = "First16ByteFrequencyMeter" -> First16ByteFrequency(m, flow, p)
    [] name = "FirstBitPositionsMeter" -> FirstBitPositions(m, flow, p)
    [] name = "DirectionChangesMeter" -> DirectionChanges(m, flow, p)
    [] name = "DirectionChangesFirst8PacketsMeter" -> DirectionChangesFirst8Packets(m, flow, p)
    [] name = "DirectionBytesCountMeter" -> DirectionBytesCount(m, flow, p)
    [] name = "DirectionBytesCountFirst10PacketMeter" ->
         DirectionBytesCountFirst10Packet(m, flow, p)
    [] name = "PayloadSizeFirstPacketMeter" -> PayloadSizeFirstPacket(m, flow, p)
    [] name = "EntropyFirstOrigToDestPacket" -> EntropyFirstOrigToDest(m, flow, p)
    [] name = "RtmpRegexMatchMeter" -> RtmpRegexMatch(m, flow, p)
    [] name = "ActionReactionFirst3ByteHashMeter" ->
         ActionReactionFirst3ByteHash(m, flow, p, junk)

(* AttributeMeterFactory::getAllMeters, given the names that are enabled.  *)
GetAllMeters(enabled) == [name \in enabled |-> Create(name)]

IsFingerPrint(f) == f = [size |-> f.size, fp |-> f.fp, total |-> f.total]

(* The flowCount of an observation never matters; that of the database is  *)
(* the weight of its fingerprint:  (fp * flowCount + other) / (flowCount+1)*)
Merge(fingerprint, flowCount, other) ==
  LET n == IF fingerprint.total = 0 THEN 1 ELSE fingerprint.total
      k == IF other.total = 0 THEN 1 ELSE other.total
      mine(i) == IF fingerprint.total = 0 THEN 0 ELSE Bin(fingerprint.fp, i)
      its(i) == IF other.total = 0 THEN 0 ELSE Bin(other.fp, i)
  IN  [fingerprint EXCEPT
         !.fp = [i \in DOMAIN fingerprint.fp \cup DOMAIN other.fp |->
                   mine(i) * flowCount * k + its(i) * n],
         !.total = n * k * (flowCount + 1)]
================================================================================
