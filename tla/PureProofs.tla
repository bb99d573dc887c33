-------------------------------- MODULE PureProofs --------------------------------
(***************************************************************************)
(* What FlowHash, Meters and ProtocolModelDb compute, for every input: the *)
(* hash input names a connection and nothing else; no meter counts outside *)
(* of its fingerprint, and its probabilities add up to one; the database   *)
(* that is written is the one that is read back.                           *)
(***************************************************************************)
EXTENDS FlowHash, ProtocolModelDb, ProofLemmas

LOCAL INSTANCE SequencesExt
LOCAL INSTANCE Functions

Triple == [1 .. 3 -> Byte]

(* Words are numbers, for the arithmetic.                                  *)
LEMMA WordIsInt == \A w \in Word : w \in Int
BY SMT DEF Word

(* So are ports.                                                           *)
LEMMA PortIsInt == \A p \in Port : p \in Int
BY SMT DEF Port

(* `first << 16 | (second & 0xFFFF)' loses neither port.                   *)
LEMMA PortsInjective ==
  ASSUME NEW p \in Port, NEW q \in Port, NEW r \in Port, NEW s \in Port,
         Ports(p, q) = Ports(r, s)
  PROVE  p = r /\ q = s
<1>1. p \in Int /\ q \in Int /\ r \in Int /\ s \in Int
      /\ 0 <= q /\ q < 65536 /\ 0 <= s /\ s < 65536
  BY SMT DEF Port
<1>2. p * 65536 + q = r * 65536 + s
  BY DEF Ports
<1>. QED BY <1>1, <1>2, SMT

(* The four words of Ipv4FlowHasher hold the whole tuple.                  *)
LEMMA AsIsInjective ==
  ASSUME NEW t \in IPv4Tuple, NEW u \in IPv4Tuple, AsIs(t) = AsIs(u)
  PROVE  t = u
<1>1. t.srcPort \in Port /\ t.dstPort \in Port /\ u.srcPort \in Port /\ u.dstPort \in Port
  BY DEF IPv4Tuple
<1>2. /\ t.srcIp = u.srcIp /\ t.dstIp = u.dstIp /\ t.protocol = u.protocol
      /\ Ports(t.srcPort, t.dstPort) = Ports(u.srcPort, u.dstPort)
  BY DEF AsIs
<1>3. t.srcPort = u.srcPort /\ t.dstPort = u.dstPort
  BY <1>1, <1>2, PortsInjective
<1>. QED BY <1>2, <1>3 DEF IPv4Tuple

(* Turning a tuple round twice gives it back.                              *)
LEMMA OppositeTuple ==
  ASSUME NEW t \in IPv4Tuple
  PROVE  Opposite(t) \in IPv4Tuple /\ Opposite(Opposite(t)) = t
BY DEF Opposite, IPv4Tuple

(* Hasher.h: the direction of a packet does not change what is hashed.     *)
LEMMA HashInputSymmetric ==
  ASSUME NEW t \in IPv4Tuple
  PROVE  HashInput(Opposite(t)) = HashInput(t)
<1>1. t.srcIp \in Int /\ t.dstIp \in Int /\ t.srcPort \in Int /\ t.dstPort \in Int
  BY WordIsInt, PortIsInt DEF IPv4Tuple
<1>2. Opposite(Opposite(t)) = t
  BY OppositeTuple
<1>3. CASE t.srcIp = t.dstIp /\ t.srcPort = t.dstPort
  <2>1. Opposite(t) = t
    BY <1>3 DEF Opposite, IPv4Tuple
  <2>. QED BY <2>1
<1>4. CASE ~(t.srcIp = t.dstIp /\ t.srcPort = t.dstPort)
  <2>1. /\ Opposite(t).srcIp = t.dstIp /\ Opposite(t).dstIp = t.srcIp
        /\ Opposite(t).srcPort = t.dstPort /\ Opposite(t).dstPort = t.srcPort
    BY DEF Opposite
  <2>. QED BY <1>1, <1>2, <1>4, <2>1 DEF HashInput
<1>. QED BY <1>3, <1>4

(* Ipv4FlowHasher and Flow::sameFlow agree on what a connection is: two    *)
(* packets have the same input of the hash exactly if one could be in the  *)
(* flow of the other.  What flows share a hash for is Murmur's alone.      *)
THEOREM HashInputNamesConnection ==
  \A t, u \in IPv4Tuple : HashInput(t) = HashInput(u) <=> SameFlow(t, u)
<1>1. SUFFICES ASSUME NEW t \in IPv4Tuple, NEW u \in IPv4Tuple
               PROVE  HashInput(t) = HashInput(u) <=> SameFlow(t, u)
  OBVIOUS
<1>2. /\ Opposite(t) \in IPv4Tuple /\ Opposite(Opposite(t)) = t
      /\ Opposite(u) \in IPv4Tuple /\ Opposite(Opposite(u)) = u
  BY OppositeTuple
<1>3. ASSUME SameFlow(t, u) PROVE HashInput(t) = HashInput(u)
  BY <1>3, HashInputSymmetric DEF SameFlow
<1>4. ASSUME HashInput(t) = HashInput(u) PROVE SameFlow(t, u)
  <2>1. PICK x \in {t, Opposite(t)} : HashInput(t) = AsIs(x)
    BY DEF HashInput
  <2>2. PICK y \in {u, Opposite(u)} : HashInput(u) = AsIs(y)
    BY DEF HashInput
  <2>3. x = y
    BY <1>2, <1>4, <2>1, <2>2, AsIsInjective
  <2>. QED BY <1>2, <2>1, <2>2, <2>3 DEF SameFlow
<1>. QED BY <1>3, <1>4

--------------------------------------------------------------------------------
(* The digit sum of a byte is at most that of 199.                         *)
LEMMA CrossSumRange ==
  ASSUME NEW b \in Byte
  PROVE  CrossSum(b) \in 0 .. 19
<1>1. b \in Int /\ 0 <= b /\ b <= 255
  BY DEF Byte
<1>. DEFINE h == b \div 100
            d == b \div 10
<1>2. /\ h \in 0 .. 2 /\ d \in 0 .. 25
      /\ b % 10 = b - 10 * d /\ 0 <= b - 10 * d /\ b - 10 * d <= 9
      /\ 100 * h <= b /\ b < 100 * h + 100
  BY <1>1, SMTT(60)
<1>. HIDE DEF h, d
<1>3. d \in Int /\ h \in Int /\ d % 10 \in 0 .. 9
      /\ (20 <= d => d % 10 = d - 20)
  BY <1>2, SMTT(60)
<1>4. CrossSum(b) = (b - 10 * d) + (d % 10) + h
  BY <1>2 DEF CrossSum, h, d
<1>5. h = 2 => 20 <= d
  BY <1>1, <1>2, SMT
<1>6. (b - 10 * d) + (d % 10) + h \in 0 .. 19
  BY <1>1, <1>2, <1>3, <1>5, SMTT(60)
<1>. QED BY <1>4, <1>6

(* ActionReactionFirst3ByteHashMeter.cpp indexes its fingerprint with the  *)
(* digit sums of the first three bytes of two packets.  They are inside of *)
(* it whatever the bytes are, also those _lastPacket was never given.      *)
THEOREM MixedInRange ==
  \A x, y \in Triple : Mixed(x, y) \in 0 .. ActionReactionMeter.size - 1
<1>1. SUFFICES ASSUME NEW x \in Triple, NEW y \in Triple
               PROVE  Mixed(x, y) \in 0 .. 114
  BY DEF ActionReactionMeter, AttributeMeter
<1>2. \A i \in 1 .. 3 : CrossSum(x[i]) \in 0 .. 19 /\ CrossSum(y[i]) \in 0 .. 19
  BY CrossSumRange DEF Triple
<1>3. /\ CrossSum(x[1]) \in 0 .. 19 /\ CrossSum(x[2]) \in 0 .. 19
      /\ CrossSum(x[3]) \in 0 .. 19 /\ CrossSum(y[1]) \in 0 .. 19
      /\ CrossSum(y[2]) \in 0 .. 19 /\ CrossSum(y[3]) \in 0 .. 19
  BY <1>2
<1>. QED BY <1>3 DEF Mixed

--------------------------------------------------------------------------------
(* A meter with a fingerprint of some size, all of it inside.              *)
MeterFields == {"size", "fp", "total", "done", "last"}
InArray(m, size) ==
  /\ m = [x \in MeterFields |-> m[x]]
  /\ m.size = size /\ DOMAIN m.fp \subseteq 0 .. size - 1
  /\ m.last = << >> \/ m.last \in Triple

(* What measuring writes. *)
Write(m, fp, total) == [m EXCEPT !.fp = fp, !.total = total]
Done(m) == [m EXCEPT !.done = TRUE]
Remember(m, last) == [m EXCEPT !.last = last]

(* A meter stays inside when what is written has places in the array.      *)
LEMMA WriteIn ==
  ASSUME NEW m, NEW size, InArray(m, size), NEW fp, DOMAIN fp \subseteq 0 .. size - 1, NEW total
  PROVE  InArray(Write(m, fp, total), size)
BY DEF InArray, MeterFields, Write

(* Counting bytes writes at their values.                                  *)
LEMMA CountBytesIn ==
  ASSUME NEW m, InArray(m, 256), NEW bytes \in Seq(Byte), NEW total
  PROVE  InArray(CountBytes(m, bytes, total), 256)
<1>. PICK b : b = ToBag(bytes)
  OBVIOUS
<1>1. DOMAIN b \subseteq Byte
  <2>1. DOMAIN b = {bytes[i] : i \in DOMAIN bytes}
    BY DEF ToBag, Range
  <2>2. \A i \in DOMAIN bytes : bytes[i] \in Byte
    OBVIOUS
  <2>. QED
    BY <2>1, <2>2
<1>. PICK fp : fp = m.fp
  OBVIOUS
<1>. PICK sum : sum = fp (+) b
  OBVIOUS
<1>2. DOMAIN fp \subseteq 0 .. 256 - 1
  BY DEF InArray
<1>3. DOMAIN sum = DOMAIN fp \cup DOMAIN b
  BY DEF (+)
<1>4. DOMAIN sum \subseteq 0 .. 256 - 1
  <2>1. \A x \in Byte : x \in 0 .. 256 - 1
    BY DEF Byte
  <2>. QED
    BY <1>1, <1>2, <1>3, <2>1
<1>5. CountBytes(m, bytes, total) = Write(m, sum, total)
  BY DEF CountBytes, Write
<1>. QED
  BY <1>4, <1>5, WriteIn

(* The first n bytes of a payload.                                         *)
LEMMA FirstBytesAre ==
  ASSUME NEW p, p.payload \in Seq(Byte), NEW n \in Nat
  PROVE  FirstBytes(p, n) \in Seq(Byte) /\ Len(FirstBytes(p, n)) <= n
<1>. PICK s \in Seq(Byte) : s = p.payload
  OBVIOUS
<1>1. CASE Len(s) < n
  BY <1>1 DEF FirstBytes, Size
<1>2. CASE n <= Len(s)
  <2>1. \A i \in 1 .. n : s[i] \in Byte
    BY <1>2
  <2>2. SubSeq(s, 1, n) \in Seq(Byte) /\ Len(SubSeq(s, 1, n)) = n
    BY <1>2, <2>1, SubSeqProperties
  <2>. QED
    BY <1>2, <2>2 DEF FirstBytes, Size
<1>. QED
  BY <1>1, <1>2

(* Nothing else that is written moves it.                                  *)
LEMMA RestIn ==
  ASSUME NEW m, NEW size, InArray(m, size)
  PROVE  /\ InArray(Done(m), size)
         /\ \A last \in Triple : InArray(Remember(m, last), size)
BY DEF InArray, MeterFields, Done, Remember

(* Meters of bytes count the bytes of a payload, or its first ones.        *)
LEMMA BytesIn ==
  ASSUME NEW m, InArray(m, 256), NEW flow, NEW p, p.payload \in Seq(Byte)
  PROVE  /\ InArray(ByteFrequency(m, flow, p), 256)
         /\ InArray(ByteFrequencyFirst8Packets(m, flow, p), 256)
         /\ InArray(ByteFrequencyFirstOrigToDest(m, flow, p), 256)
         /\ InArray(ByteFrequencyFirstDestToOrig(m, flow, p), 256)
         /\ InArray(First4ByteFrequency(m, flow, p), 256)
         /\ InArray(First16ByteFrequency(m, flow, p), 256)
<1>. PICK bytes \in Seq(Byte) : bytes = p.payload
  OBVIOUS
<1>. PICK four \in Seq(Byte) : four = FirstBytes(p, 4)
  BY FirstBytesAre
<1>. PICK sixteen \in Seq(Byte) : sixteen = FirstBytes(p, 16)
  BY FirstBytesAre
<1>1. \A total : /\ InArray(CountBytes(m, bytes, total), 256)
                 /\ InArray(CountBytes(m, four, total), 256)
                 /\ InArray(CountBytes(m, sixteen, total), 256)
  BY CountBytesIn
<1>2. InArray(ByteFrequency(m, flow, p), 256)
  BY <1>1 DEF ByteFrequency
<1>3. InArray(ByteFrequencyFirst8Packets(m, flow, p), 256)
  BY <1>1 DEF ByteFrequencyFirst8Packets
<1>4. InArray(ByteFrequencyFirstOrigToDest(m, flow, p), 256)
  BY <1>1 DEF ByteFrequencyFirstOrigToDest
<1>5. InArray(ByteFrequencyFirstDestToOrig(m, flow, p), 256)
  <2>. PICK counted : counted = CountBytes(m, bytes, m.total + Size(p))
    OBVIOUS
  <2>1. ByteFrequencyFirstDestToOrig(m, flow, p)
          = IF m.done \/ Size(p) = 0 THEN m ELSE Done(counted)
    BY DEF ByteFrequencyFirstDestToOrig, Done
  <2>2. InArray(Done(counted), 256)
    BY <1>1, RestIn
  <2>. QED
    BY <2>1, <2>2
<1>6. InArray(First4ByteFrequency(m, flow, p), 256)
  BY <1>1 DEF First4ByteFrequency
<1>7. InArray(First16ByteFrequency(m, flow, p), 256)
  BY <1>1 DEF First16ByteFrequency
<1>. QED
  BY <1>2, <1>3, <1>4, <1>5, <1>6, <1>7

(* Sixteen places for each of four bytes.                                  *)
LEMMA BitsIn ==
  ASSUME NEW m, InArray(m, 64), NEW flow, NEW p, p.payload \in Seq(Byte)
  PROVE  InArray(FirstBitPositions(m, flow, p), 64)
<1>. PICK four \in Seq(Byte) : four = FirstBytes(p, 4) /\ Len(four) <= 4
  BY FirstBytesAre
<1>1. \A i \in 0 .. Len(four) - 1, j \in 0 .. 7 :
        16 * i + j \in 0 .. 64 - 1 /\ 16 * i + 8 + j \in 0 .. 64 - 1
  BY LenProperties
<1>. PICK places : places = Bits(four)
  OBVIOUS
<1>2. places \subseteq 0 .. 64 - 1
  <2>1. ASSUME NEW x \in Bits(four) PROVE x \in 0 .. 64 - 1
    <3>1. \E i \in 0 .. Len(four) - 1, j \in 0 .. 7 : x = 16 * i + j \/ x = 16 * i + 8 + j
      BY DEF Bits
    <3>. QED
      BY <1>1, <3>1
  <2>. QED
    BY <2>1
<1>. PICK bag : bag = SetToBag(places)
  OBVIOUS
<1>. PICK fp : fp = m.fp
  OBVIOUS
<1>. PICK sum : sum = fp (+) bag
  OBVIOUS
<1>3. DOMAIN fp \subseteq 0 .. 64 - 1
  BY DEF InArray
<1>4. DOMAIN bag = places
  BY DEF SetToBag
<1>5. DOMAIN sum = DOMAIN fp \cup DOMAIN bag
  BY DEF (+)
<1>6. InArray(Write(m, sum, m.total + 32), 64)
  BY <1>2, <1>3, <1>4, <1>5, WriteIn
<1>7. FirstBitPositions(m, flow, p) = IF Size(p) = 0 THEN m ELSE Write(m, sum, m.total + 32)
  BY DEF FirstBitPositions, Write
<1>. QED
  BY <1>6, <1>7

(* The others have two places, whatever the numbers in them.               *)
LEMMA PairIn ==
  ASSUME NEW m, InArray(m, 2), NEW flow, NEW p
  PROVE  /\ InArray(DirectionChanges(m, flow, p), 2)
         /\ InArray(DirectionChangesFirst8Packets(m, flow, p), 2)
         /\ InArray(DirectionBytesCount(m, flow, p), 2)
         /\ InArray(DirectionBytesCountFirst10Packet(m, flow, p), 2)
         /\ InArray(PayloadSizeFirstPacket(m, flow, p), 2)
         /\ InArray(EntropyFirstOrigToDest(m, flow, p), 2)
         /\ InArray(RtmpRegexMatch(m, flow, p), 2)
<1>1. \A x, y, total : InArray(Write(m, Pair(x, y), total), 2)
  <2>1. \A x, y : DOMAIN Pair(x, y) \subseteq 0 .. 2 - 1
    BY DEF Pair
  <2>. QED
    BY <2>1, WriteIn
<1>2. \E x, y : DirectionChanges(m, flow, p) = Write(m, Pair(x, y), flow.pktCount)
  BY DEF DirectionChanges, Write
<1>3. InArray(DirectionChanges(m, flow, p), 2)
  BY <1>1, <1>2
<1>4. InArray(DirectionChangesFirst8Packets(m, flow, p), 2)
  BY <1>3 DEF DirectionChangesFirst8Packets
<1>5. \/ DirectionBytesCount(m, flow, p) = m
      \/ \E x, y : DirectionBytesCount(m, flow, p) = Write(m, Pair(x, y), m.total + Size(p))
  BY DEF DirectionBytesCount, Write
<1>6. InArray(DirectionBytesCount(m, flow, p), 2)
  BY <1>1, <1>5
<1>7. InArray(DirectionBytesCountFirst10Packet(m, flow, p), 2)
  BY <1>6 DEF DirectionBytesCountFirst10Packet
<1>8. InArray(PayloadSizeFirstPacket(m, flow, p), 2)
  <2>. PICK max : max = IF p.tuple.protocol = 6 THEN 1460 ELSE 1476
    OBVIOUS
  <2>1. PayloadSizeFirstPacket(m, flow, p)
          = IF ~flow.isFirstPacket THEN m ELSE Write(m, Pair(Size(p), max - Size(p)), max)
    BY DEF PayloadSizeFirstPacket, Write
  <2>. QED
    BY <1>1, <2>1
<1>9. InArray(EntropyFirstOrigToDest(m, flow, p), 2)
  <2>. PICK entropy : entropy = Cardinality(ToSet(p.payload)) - 1
    OBVIOUS
  <2>1. EntropyFirstOrigToDest(m, flow, p)
          = IF ~flow.isFirstPacket \/ Size(p) = 0 THEN m
            ELSE Write(m, Pair(entropy, 255 - entropy), 255)
    BY DEF EntropyFirstOrigToDest, Write
  <2>. QED
    BY <1>1, <2>1
<1>10. InArray(RtmpRegexMatch(m, flow, p), 2)
  <2>1. DOMAIN Pair(1, 0) \subseteq 0 .. 2 - 1
    BY DEF Pair
  <2>2. InArray([m EXCEPT !.fp = Pair(1, 0)], 2)
    BY <2>1 DEF InArray, MeterFields
  <2>. QED
    BY <2>2 DEF RtmpRegexMatch
<1>. QED
  BY <1>3, <1>4, <1>6, <1>7, <1>8, <1>9, <1>10

(* Three bytes of a packet, or zeros where it has none.                    *)
LEMMA FirstThree ==
  ASSUME NEW p, p.payload \in Seq(Byte),
         NEW bytes, bytes = [i \in 1 .. 3 |-> IF i <= Size(p) THEN p.payload[i] ELSE 0]
  PROVE  bytes \in Triple
<1>. PICK s \in Seq(Byte) : s = p.payload
  OBVIOUS
<1>1. \A i \in 1 .. 3 : i <= Len(s) => s[i] \in Byte
  BY LenProperties
<1>2. bytes = [i \in 1 .. 3 |-> IF i <= Len(s) THEN s[i] ELSE 0]
  BY DEF Size
<1>3. 0 \in Byte
  BY DEF Byte
<1>. QED
  BY <1>1, <1>2, <1>3 DEF Triple

(* The hash of two packets has a place.                                    *)
LEMMA HashedIn ==
  ASSUME NEW m, InArray(m, 115), NEW flow, NEW p, p.payload \in Seq(Byte), NEW junk \in Triple
  PROVE  InArray(ActionReactionFirst3ByteHash(m, flow, p, junk), 115)
<1>. PICK current : current = [i \in 1 .. 3 |-> IF i <= Size(p) THEN p.payload[i] ELSE 0]
  OBVIOUS
<1>1. current \in Triple
  BY FirstThree
<1>. PICK before : before = IF m.last = << >> THEN junk ELSE m.last
  OBVIOUS
<1>2. before \in Triple
  BY DEF InArray
<1>. PICK place : place = Mixed(before, current)
  OBVIOUS
<1>3. place \in 0 .. 115 - 1
  BY <1>1, <1>2, MixedInRange DEF ActionReactionMeter, AttributeMeter
<1>. PICK bag : bag = SetToBag({place})
  OBVIOUS
<1>. PICK fp : fp = m.fp
  OBVIOUS
<1>. PICK sum : sum = fp (+) bag
  OBVIOUS
<1>4. DOMAIN sum \subseteq 0 .. 115 - 1
  <2>1. DOMAIN fp \subseteq 0 .. 115 - 1
    BY DEF InArray
  <2>2. DOMAIN bag = {place}
    BY DEF SetToBag
  <2>3. DOMAIN sum = DOMAIN fp \cup DOMAIN bag
    BY DEF (+)
  <2>. QED
    BY <1>3, <2>1, <2>2, <2>3
<1>. PICK w : w = Write(m, sum, m.total + 1)
  OBVIOUS
<1>5. InArray(w, 115) /\ InArray(Remember(w, current), 115) /\ InArray(Remember(m, current), 115)
  BY <1>1, <1>4, WriteIn, RestIn
<1>6. [m EXCEPT !.fp = sum, !.total = m.total + 1, !.last = current] = Remember(w, current)
  BY DEF Write, Remember
<1>7. ActionReactionFirst3ByteHash(m, flow, p, junk)
        = IF Size(p) = 0 THEN m
          ELSE IF ~flow.isFirstPacket /\ flow.lastDirection # flow.direction
               THEN Remember(w, current) ELSE Remember(m, current)
  BY <1>6 DEF ActionReactionFirst3ByteHash, Remember
<1>. QED
  BY <1>5, <1>7

(* What the factory makes starts empty or with places of its own.          *)
LEMMA CreatedIn ==
  ASSUME NEW size \in Nat
  PROVE  InArray(AttributeMeter(size), size)
BY DEF InArray, MeterFields, AttributeMeter, EmptyBag, SetToBag

(* Two of the meters of two places start with a probability of one.        *)
LEMMA CreatedPairIn ==
  InArray(PayloadSizeFirstPacketMeter, 2) /\ InArray(RtmpRegexMatchMeter, 2)
<1>1. PayloadSizeFirstPacketMeter = Write(AttributeMeter(2), Pair(0, 1), 1)
  BY DEF PayloadSizeFirstPacketMeter, Write
<1>2. DOMAIN Pair(0, 1) \subseteq 0 .. 2 - 1
  BY DEF Pair
<1>3. InArray(PayloadSizeFirstPacketMeter, 2)
  BY <1>1, <1>2, CreatedIn, WriteIn
<1>. QED
  BY <1>3 DEF RtmpRegexMatchMeter, PayloadSizeFirstPacketMeter

(* The meter made by that name has this size, and stays within it.         *)
StaysIn(name, flow, p, junk, size) ==
  /\ InArray(Create(name), size)
  /\ \A m : InArray(m, size) => InArray(CalculateMeasurement(name, m, flow, p, junk), size)

(* No meter writes outside of its fingerprint: for all packets, and        *)
(* whatever the memory holds that is not written before it is read.        *)
THEOREM MetersStayInRange ==
  ASSUME NEW name \in Registered, NEW flow, NEW p, p.payload \in Seq(Byte), NEW junk \in Triple
  PROVE  LET size == Create(name).size
         IN  /\ InArray(Create(name), size)
             /\ \A m : InArray(m, size) =>
                  InArray(CalculateMeasurement(name, m, flow, p, junk), size)
<1>. SUFFICES StaysIn(name, flow, p, junk, Create(name).size)
  BY DEF StaysIn
<1>0. ASSUME NEW size, StaysIn(name, flow, p, junk, size)
      PROVE  StaysIn(name, flow, p, junk, Create(name).size)
  BY <1>0 DEF StaysIn, InArray
<1>1. CASE name = "ByteFrequencyMeter"
  <2>1. Create(name) = ByteFrequencyMeter
    BY <1>1 DEF Create
  <2>2. InArray(Create(name), 256)
    BY <2>1, CreatedIn DEF ByteFrequencyMeter
  <2>3. \A m : CalculateMeasurement(name, m, flow, p, junk) = ByteFrequency(m, flow, p)
    BY <1>1 DEF CalculateMeasurement
  <2>4. \A m : InArray(m, 256) => InArray(CalculateMeasurement(name, m, flow, p, junk), 256)
    BY <2>3, BytesIn
  <2>5. StaysIn(name, flow, p, junk, 256)
    BY <2>2, <2>4 DEF StaysIn
  <2>. QED
    BY <1>0, <2>5
<1>2. CASE name = "ByteFrequencyFirst8PacketsMeter"
  <2>1. Create(name) = ByteFrequencyFirst8PacketsMeter
    BY <1>2 DEF Create
  <2>2. InArray(Create(name), 256)
    BY <2>1, CreatedIn DEF ByteFrequencyFirst8PacketsMeter
  <2>3. \A m : CalculateMeasurement(name, m, flow, p, junk) = ByteFrequencyFirst8Packets(m, flow, p)
    BY <1>2 DEF CalculateMeasurement
  <2>4. \A m : InArray(m, 256) => InArray(CalculateMeasurement(name, m, flow, p, junk), 256)
    BY <2>3, BytesIn
  <2>5. StaysIn(name, flow, p, junk, 256)
    BY <2>2, <2>4 DEF StaysIn
  <2>. QED
    BY <1>0, <2>5
<1>3. CASE name = "ByteFrequencyFirstOrigToDestPacket"
  <2>1. Create(name) = ByteFrequencyFirstOrigToDestMeter
    BY <1>3 DEF Create
  <2>2. InArray(Create(name), 256)
    BY <2>1, CreatedIn DEF ByteFrequencyFirstOrigToDestMeter
  <2>3. \A m : CalculateMeasurement(name, m, flow, p, junk) = ByteFrequencyFirstOrigToDest(m, flow, p)
    BY <1>3 DEF CalculateMeasurement
  <2>4. \A m : InArray(m, 256) => InArray(CalculateMeasurement(name, m, flow, p, junk), 256)
    BY <2>3, BytesIn
  <2>5. StaysIn(name, flow, p, junk, 256)
    BY <2>2, <2>4 DEF StaysIn
  <2>. QED
    BY <1>0, <2>5
<1>4. CASE name = "ByteFrequencyFirstDestToOrigPacket"
  <2>1. Create(name) = ByteFrequencyFirstDestToOrigMeter
    BY <1>4 DEF Create
  <2>2. InArray(Create(name), 256)
    BY <2>1, CreatedIn DEF ByteFrequencyFirstDestToOrigMeter
  <2>3. \A m : CalculateMeasurement(name, m, flow, p, junk) = ByteFrequencyFirstDestToOrig(m, flow, p)
    BY <1>4 DEF CalculateMeasurement
  <2>4. \A m : InArray(m, 256) => InArray(CalculateMeasurement(name, m, flow, p, junk), 256)
    BY <2>3, BytesIn
  <2>5. StaysIn(name, flow, p, junk, 256)
    BY <2>2, <2>4 DEF StaysIn
  <2>. QED
    BY <1>0, <2>5
<1>5. CASE name = "First4ByteFrequencyMeter"
  <2>1. Create(name) = First4ByteFrequencyMeter
    BY <1>5 DEF Create
  <2>2. InArray(Create(name), 256)
    BY <2>1, CreatedIn DEF First4ByteFrequencyMeter
  <2>3. \A m : CalculateMeasurement(name, m, flow, p, junk) = First4ByteFrequency(m, flow, p)
    BY <1>5 DEF CalculateMeasurement
  <2>4. \A m : InArray(m, 256) => InArray(CalculateMeasurement(name, m, flow, p, junk), 256)
    BY <2>3, BytesIn
  <2>5. StaysIn(name, flow, p, junk, 256)
    BY <2>2, <2>4 DEF StaysIn
  <2>. QED
    BY <1>0, <2>5
<1>6. CASE name = "First16ByteFrequencyMeter"
  <2>1. Create(name) = First16ByteFrequencyMeter
    BY <1>6 DEF Create
  <2>2. InArray(Create(name), 256)
    BY <2>1, CreatedIn DEF First16ByteFrequencyMeter
  <2>3. \A m : CalculateMeasurement(name, m, flow, p, junk) = First16ByteFrequency(m, flow, p)
    BY <1>6 DEF CalculateMeasurement
  <2>4. \A m : InArray(m, 256) => InArray(CalculateMeasurement(name, m, flow, p, junk), 256)
    BY <2>3, BytesIn
  <2>5. StaysIn(name, flow, p, junk, 256)
    BY <2>2, <2>4 DEF StaysIn
  <2>. QED
    BY <1>0, <2>5
<1>7. CASE name = "FirstBitPositionsMeter"
  <2>1. Create(name) = FirstBitPositionsMeter
    BY <1>7 DEF Create
  <2>2. InArray(Create(name), 64)
    BY <2>1, CreatedIn DEF FirstBitPositionsMeter
  <2>3. \A m : CalculateMeasurement(name, m, flow, p, junk) = FirstBitPositions(m, flow, p)
    BY <1>7 DEF CalculateMeasurement
  <2>4. \A m : InArray(m, 64) => InArray(CalculateMeasurement(name, m, flow, p, junk), 64)
    BY <2>3, BitsIn
  <2>5. StaysIn(name, flow, p, junk, 64)
    BY <2>2, <2>4 DEF StaysIn
  <2>. QED
    BY <1>0, <2>5
<1>8. CASE name = "DirectionChangesMeter"
  <2>1. Create(name) = DirectionChangesMeter
    BY <1>8 DEF Create
  <2>2. InArray(Create(name), 2)
    BY <2>1, CreatedIn DEF DirectionChangesMeter
  <2>3. \A m : CalculateMeasurement(name, m, flow, p, junk) = DirectionChanges(m, flow, p)
    BY <1>8 DEF CalculateMeasurement
  <2>4. \A m : InArray(m, 2) => InArray(CalculateMeasurement(name, m, flow, p, junk), 2)
    BY <2>3, PairIn
  <2>5. StaysIn(name, flow, p, junk, 2)
    BY <2>2, <2>4 DEF StaysIn
  <2>. QED
    BY <1>0, <2>5
<1>9. CASE name = "DirectionChangesFirst8PacketsMeter"
  <2>1. Create(name) = DirectionChangesFirst8PacketsMeter
    BY <1>9 DEF Create
  <2>2. InArray(Create(name), 2)
    BY <2>1, CreatedIn DEF DirectionChangesFirst8PacketsMeter
  <2>3. \A m : CalculateMeasurement(name, m, flow, p, junk) = DirectionChangesFirst8Packets(m, flow, p)
    BY <1>9 DEF CalculateMeasurement
  <2>4. \A m : InArray(m, 2) => InArray(CalculateMeasurement(name, m, flow, p, junk), 2)
    BY <2>3, PairIn
  <2>5. StaysIn(name, flow, p, junk, 2)
    BY <2>2, <2>4 DEF StaysIn
  <2>. QED
    BY <1>0, <2>5
<1>10. CASE name = "DirectionBytesCountMeter"
  <2>1. Create(name) = DirectionBytesCountMeter
    BY <1>10 DEF Create
  <2>2. InArray(Create(name), 2)
    BY <2>1, CreatedIn DEF DirectionBytesCountMeter
  <2>3. \A m : CalculateMeasurement(name, m, flow, p, junk) = DirectionBytesCount(m, flow, p)
    BY <1>10 DEF CalculateMeasurement
  <2>4. \A m : InArray(m, 2) => InArray(CalculateMeasurement(name, m, flow, p, junk), 2)
    BY <2>3, PairIn
  <2>5. StaysIn(name, flow, p, junk, 2)
    BY <2>2, <2>4 DEF StaysIn
  <2>. QED
    BY <1>0, <2>5
<1>11. CASE name = "DirectionBytesCountFirst10PacketMeter"
  <2>1. Create(name) = DirectionBytesCountFirst10PacketMeter
    BY <1>11 DEF Create
  <2>2. InArray(Create(name), 2)
    BY <2>1, CreatedIn DEF DirectionBytesCountFirst10PacketMeter
  <2>3. \A m : CalculateMeasurement(name, m, flow, p, junk) = DirectionBytesCountFirst10Packet(m, flow, p)
    BY <1>11 DEF CalculateMeasurement
  <2>4. \A m : InArray(m, 2) => InArray(CalculateMeasurement(name, m, flow, p, junk), 2)
    BY <2>3, PairIn
  <2>5. StaysIn(name, flow, p, junk, 2)
    BY <2>2, <2>4 DEF StaysIn
  <2>. QED
    BY <1>0, <2>5
<1>12. CASE name = "PayloadSizeFirstPacketMeter"
  <2>1. Create(name) = PayloadSizeFirstPacketMeter
    BY <1>12 DEF Create
  <2>2. InArray(Create(name), 2)
    BY <2>1, CreatedPairIn
  <2>3. \A m : CalculateMeasurement(name, m, flow, p, junk) = PayloadSizeFirstPacket(m, flow, p)
    BY <1>12 DEF CalculateMeasurement
  <2>4. \A m : InArray(m, 2) => InArray(CalculateMeasurement(name, m, flow, p, junk), 2)
    BY <2>3, PairIn
  <2>5. StaysIn(name, flow, p, junk, 2)
    BY <2>2, <2>4 DEF StaysIn
  <2>. QED
    BY <1>0, <2>5
<1>13. CASE name = "EntropyFirstOrigToDestPacket"
  <2>1. Create(name) = EntropyFirstOrigToDestMeter
    BY <1>13 DEF Create
  <2>2. InArray(Create(name), 2)
    BY <2>1, CreatedIn DEF EntropyFirstOrigToDestMeter
  <2>3. \A m : CalculateMeasurement(name, m, flow, p, junk) = EntropyFirstOrigToDest(m, flow, p)
    BY <1>13 DEF CalculateMeasurement
  <2>4. \A m : InArray(m, 2) => InArray(CalculateMeasurement(name, m, flow, p, junk), 2)
    BY <2>3, PairIn
  <2>5. StaysIn(name, flow, p, junk, 2)
    BY <2>2, <2>4 DEF StaysIn
  <2>. QED
    BY <1>0, <2>5
<1>14. CASE name = "RtmpRegexMatchMeter"
  <2>1. Create(name) = RtmpRegexMatchMeter
    BY <1>14 DEF Create
  <2>2. InArray(Create(name), 2)
    BY <2>1, CreatedPairIn
  <2>3. \A m : CalculateMeasurement(name, m, flow, p, junk) = RtmpRegexMatch(m, flow, p)
    BY <1>14 DEF CalculateMeasurement
  <2>4. \A m : InArray(m, 2) => InArray(CalculateMeasurement(name, m, flow, p, junk), 2)
    BY <2>3, PairIn
  <2>5. StaysIn(name, flow, p, junk, 2)
    BY <2>2, <2>4 DEF StaysIn
  <2>. QED
    BY <1>0, <2>5
<1>15. CASE name = "ActionReactionFirst3ByteHashMeter"
  <2>1. Create(name) = ActionReactionMeter
    BY <1>15 DEF Create
  <2>2. InArray(Create(name), 115)
    BY <2>1, CreatedIn DEF ActionReactionMeter
  <2>3. \A m : CalculateMeasurement(name, m, flow, p, junk) = ActionReactionFirst3ByteHash(m, flow, p, junk)
    BY <1>15 DEF CalculateMeasurement
  <2>4. \A m : InArray(m, 115) => InArray(CalculateMeasurement(name, m, flow, p, junk), 115)
    BY <2>3, HashedIn
  <2>5. StaysIn(name, flow, p, junk, 115)
    BY <2>2, <2>4 DEF StaysIn
  <2>. QED
    BY <1>0, <2>5
<1>. QED
  BY <1>1, <1>2, <1>3, <1>4, <1>5, <1>6, <1>7, <1>8, <1>9, <1>10, <1>11, <1>12, <1>13, <1>14, <1>15 DEF Registered

-------------------------------------------------------------------------------
(* What is in a fingerprint, all together *)

Row(fp, n) == [k \in 1 .. n |-> Bin(fp, k - 1)]
IsMass(x, fp, n) == \E g \in Sums(Row(fp, n), n) : x = g[n]
Numbers(fp) == \A i \in DOMAIN fp : fp[i] \in Int

(* g is the running sums of a fingerprint; and nothing is at j, .., i - 1. *)
AddsTo(g, fp, n) ==
  /\ g = [k \in 0 .. n |-> g[k]]
  /\ g[0] = 0
  /\ \A k \in 1 .. n : g[k] = g[k - 1] + Bin(fp, k - 1)
Untouched(fp, j, i) == \A l \in DOMAIN fp : ~(j <= l /\ l < i)

LEMMA BinsAreNumbers ==
  ASSUME NEW fp, Numbers(fp)
  PROVE  /\ \A i : Bin(fp, i) \in Int
         /\ \A n, k : k \in 1 .. n => Row(fp, n)[k] = Bin(fp, k - 1) /\ Row(fp, n)[k] \in Int
<1>1. \A i : Bin(fp, i) \in Int
  BY DEF Numbers, Bin
<1>. QED
  BY <1>1 DEF Row

(* Numbers that add up, from nothing, to x.                                *)
LEMMA AddUpTo ==
  ASSUME NEW fp, Numbers(fp), NEW n \in Nat, NEW g, AddsTo(g, fp, n)
  PROVE  IsMass(g[n], fp, n)
<1>. PICK c : c = Row(fp, n)
  OBVIOUS
<1>0. /\ g = [k \in 0 .. n |-> g[k]] /\ g[0] = 0
      /\ \A k \in 1 .. n : g[k] = g[k - 1] + Bin(fp, k - 1)
  BY DEF AddsTo
<1>1. \A k \in 1 .. n : c[k] = Bin(fp, k - 1) /\ c[k] \in Int
  BY BinsAreNumbers
<1>2. \A k \in 1 .. n : g[k] = g[k - 1] + c[k]
  BY <1>0, <1>1
<1>3. g \in Sums(c, n)
  BY <1>0, <1>1, <1>2, SumsAre
<1>. QED
  BY <1>3 DEF IsMass

(* The sums do not change where nothing was touched.                       *)
LEMMA SumsSkip ==
  ASSUME NEW fp, NEW n \in Nat, NEW g, AddsTo(g, fp, n), g \in [0 .. n -> Int],
         NEW j \in 0 .. n, NEW i \in j .. n, Untouched(fp, j, i)
  PROVE  g[i] = g[j]
<1>. DEFINE Same == {d \in 0 .. i - j : g[j + d] = g[j]}
<1>1. 0 \in Same /\ i - j \in Nat
  OBVIOUS
<1>2. ASSUME NEW d \in 1 .. i - j, d - 1 \in Same PROVE d \in Same
  <2>1. j + d \in 1 .. n /\ (j + d) - 1 = j + (d - 1) /\ j <= (j + d) - 1 /\ (j + d) - 1 < i
    OBVIOUS
  <2>2. g[j + d] = g[(j + d) - 1] + Bin(fp, (j + d) - 1)
    BY <2>1 DEF AddsTo
  <2>3. Bin(fp, (j + d) - 1) = 0
    BY <2>1 DEF Bin, Untouched
  <2>4. g[j + (d - 1)] = g[j] /\ g[j] \in Int
    BY <1>2
  <2>5. d \in 0 .. i - j
    OBVIOUS
  <2>. QED
    BY <2>1, <2>2, <2>3, <2>4, <2>5
<1>. HIDE DEF Same
<1>3. i - j \in Same
  <2>. PICK N : N = i - j
    OBVIOUS
  <2>1. N \in Nat /\ N \in 0 .. N /\ \A d \in 1 .. N : d - 1 \in Same => d \in Same
    BY <1>1, <1>2
  <2>2. \A d \in 0 .. N : d \in Same
    BY <1>1, <2>1, UpTo
  <2>. QED
    BY <2>1, <2>2
<1>4. j + (i - j) = i
  OBVIOUS
<1>. QED
  BY <1>3, <1>4 DEF Same

(* So a sum is that up to the last position that was touched.              *)
Skips(fp, s, i) ==
  IF Touched(fp, i) = {} THEN 0 ELSE s[LastOf(Touched(fp, i))] + fp[LastOf(Touched(fp, i))]

LEMMA LastTouched ==
  ASSUME NEW fp, NEW n \in Nat, DOMAIN fp \subseteq 0 .. n - 1,
         NEW i \in 0 .. n, Touched(fp, i) # {}
  PROVE  /\ LastOf(Touched(fp, i)) \in 0 .. i - 1
         /\ LastOf(Touched(fp, i)) \in DOMAIN fp
         /\ \A k \in Touched(fp, i) : k <= LastOf(Touched(fp, i))
<1>. PICK S : S = Touched(fp, i)
  OBVIOUS
<1>1. S # {} /\ S \subseteq 0 .. n /\ \A k \in S : k \in 0 .. i - 1 /\ k \in DOMAIN fp
  BY DEF Touched
<1>2. \E k \in S : \A j \in S : j <= k
  BY <1>1, Greatest
<1>3. LastOf(S) \in S /\ \A j \in S : j <= LastOf(S)
  BY <1>2 DEF LastOf
<1>. QED
  BY <1>1, <1>3

LEMMA SumsSkipTo ==
  ASSUME NEW fp, NEW n \in Nat, NEW g, AddsTo(g, fp, n), g \in [0 .. n -> Int], DOMAIN fp \subseteq 0 .. n - 1, NEW i \in 0 .. n
  PROVE  g[i] = Skips(fp, g, i)
<1>1. CASE Touched(fp, i) = {}
  <2>1. Untouched(fp, 0, i)
    BY <1>1 DEF Touched, Untouched
  <2>2. 0 \in 0 .. n /\ i \in 0 .. n
    OBVIOUS
  <2>3. g[i] = g[0]
    BY <2>1, <2>2, SumsSkip
  <2>. QED
    BY <1>1, <2>3 DEF Skips, AddsTo
<1>2. CASE Touched(fp, i) # {}
  <2>. PICK k : k = LastOf(Touched(fp, i))
    OBVIOUS
  <2>1. k \in 0 .. i - 1 /\ k \in DOMAIN fp /\ \A l \in Touched(fp, i) : l <= k
    BY <1>2, LastTouched
  <2>2. k + 1 \in 0 .. n /\ k + 1 \in 1 .. n /\ i \in k + 1 .. n /\ (k + 1) - 1 = k
    BY <2>1
  <2>3. ASSUME NEW l \in DOMAIN fp, k + 1 <= l, l < i PROVE FALSE
    <3>1. l <= k
      BY <2>1, <2>3 DEF Touched
    <3>. QED
      BY <2>1, <2>3, <3>1
  <2>4. g[i] = g[k + 1]
    <3>. PICK j : j = k + 1
      OBVIOUS
    <3>1. j \in 0 .. n /\ i \in j .. n /\ Untouched(fp, j, i)
      BY <2>2, <2>3 DEF Untouched
    <3>. QED
      BY <3>1, SumsSkip
  <2>5. g[k + 1] = g[k] + Bin(fp, k)
    BY <2>2 DEF AddsTo
  <2>6. Bin(fp, k) = fp[k]
    BY <2>1 DEF Bin
  <2>. QED
    BY <1>2, <2>4, <2>5, <2>6 DEF Skips
<1>. QED
  BY <1>1, <1>2

(* Mass does add up.                                                       *)
LEMMA MassIs ==
  ASSUME NEW m, Numbers(m.fp), m.size \in Nat, DOMAIN m.fp \subseteq 0 .. m.size - 1
  PROVE  IsMass(Mass(m), m.fp, m.size)
<1>. PICK fp, n : fp = m.fp /\ n = m.size
  OBVIOUS
<1>. PICK h : h = CHOOSE s : s = [i \in 0 .. n |-> Skips(fp, s, i)]
  OBVIOUS
<1>1. Mass(m) = h[n]
  BY DEF Mass, Skips
<1>2. PICK g : g \in Sums(Row(fp, n), n)
  <2>. PICK c : c = Row(fp, n)
    OBVIOUS
  <2>1. \A k \in 1 .. n : c[k] \in Int
    BY BinsAreNumbers
  <2>. QED
    BY <2>1, SumsExist
<1>3. /\ g \in [0 .. n -> Int] /\ g[0] = 0
      /\ \A k \in 1 .. n : g[k] = g[k - 1] + Bin(fp, k - 1)
  <2>1. \A k \in 1 .. n : Row(fp, n)[k] = Bin(fp, k - 1)
    BY BinsAreNumbers
  <2>. QED
    BY <1>2, <2>1 DEF Sums
<1>4. \A i \in 0 .. n : g[i] = Skips(fp, g, i)
  <2>1. AddsTo(g, fp, n)
    BY <1>3 DEF AddsTo
  <2>. QED
    BY <1>3, <2>1, SumsSkipTo
<1>5. g = [i \in 0 .. n |-> Skips(fp, g, i)]
  BY <1>3, <1>4
<1>6. h = [i \in 0 .. n |-> Skips(fp, h, i)]
  BY <1>5
<1>7. \A i \in 0 .. n : h[i] = Skips(fp, h, i)
  BY <1>6
<1>. DEFINE Bad == {i \in 0 .. n : h[i] # g[i]}
<1>8. ASSUME NEW i \in Bad, \A j \in Bad : i <= j PROVE FALSE
  <2>1. h[i] = Skips(fp, h, i) /\ g[i] = Skips(fp, g, i) /\ h[i] # g[i] /\ i \in 0 .. n
    BY <1>4, <1>7
  <2>2. Touched(fp, i) # {}
    BY <2>1 DEF Skips
  <2>. PICK k : k = LastOf(Touched(fp, i))
    OBVIOUS
  <2>3. k \in 0 .. i - 1
    BY <2>1, <2>2, LastTouched
  <2>4. k \in 0 .. n /\ ~(i <= k)
    BY <2>1, <2>3
  <2>5. h[k] = g[k]
    BY <1>8, <2>4
  <2>. QED
    BY <2>1, <2>2, <2>5 DEF Skips
<1>9. \A i \in 0 .. n : h[i] = g[i]
  <2>1. Bad \subseteq Nat
    OBVIOUS
  <2>. HIDE DEF Bad
  <2>2. Bad = {}
    BY <1>8, <2>1, Least
  <2>. QED
    BY <2>2 DEF Bad
<1>10. n \in 0 .. n
  OBVIOUS
<1>11. h[n] = g[n]
  BY <1>9, <1>10
<1>. QED
  BY <1>1, <1>2, <1>11 DEF IsMass

(* There is one sum.                                                       *)
LEMMA OneMass ==
  ASSUME NEW fp, Numbers(fp), NEW n \in Nat, NEW x, NEW y, IsMass(x, fp, n), IsMass(y, fp, n)
  PROVE  x = y /\ x \in Int
<1>. PICK c : c = Row(fp, n)
  OBVIOUS
<1>1. PICK g, h : g \in Sums(c, n) /\ h \in Sums(c, n) /\ x = g[n] /\ y = h[n]
  BY DEF IsMass
<1>2. \A k \in 1 .. n : c[k] \in Int
  BY BinsAreNumbers
<1>3. h[n] = g[n] /\ g[n] \in Int
  BY <1>1, <1>2, SumStays
<1>. QED
  BY <1>1, <1>3

(* What is counted twice adds up to both counts.                           *)
LEMMA MassOfBoth ==
  ASSUME NEW fp, Numbers(fp), NEW b, Numbers(b), NEW n \in Nat,
         NEW x, IsMass(x, fp, n), NEW y, IsMass(y, b, n), NEW both, both = fp (+) b
  PROVE  Numbers(both) /\ IsMass(x + y, both, n)
<1>1. \A i : Bin(both, i) = Bin(fp, i) + Bin(b, i)
  <2>1. DOMAIN both = DOMAIN fp \cup DOMAIN b
        /\ \A i \in DOMAIN both : both[i] = (IF i \in DOMAIN fp THEN fp[i] ELSE 0)
                                         + (IF i \in DOMAIN b THEN b[i] ELSE 0)
    BY DEF (+)
  <2>. QED
    BY <2>1 DEF Bin
<1>2. \A i : Bin(fp, i) \in Int /\ Bin(b, i) \in Int
  BY BinsAreNumbers
<1>3. Numbers(both)
  <2>1. \A i \in DOMAIN both : both[i] = Bin(both, i)
    BY DEF Bin
  <2>. QED
    BY <1>1, <1>2, <2>1 DEF Numbers
<1>4. PICK g : g \in Sums(Row(fp, n), n) /\ x = g[n]
  BY DEF IsMass
<1>5. PICK h : h \in Sums(Row(b, n), n) /\ y = h[n]
  BY DEF IsMass
<1>6. /\ g \in [0 .. n -> Int] /\ g[0] = 0 /\ \A k \in 1 .. n : g[k] = g[k - 1] + Bin(fp, k - 1)
      /\ h \in [0 .. n -> Int] /\ h[0] = 0 /\ \A k \in 1 .. n : h[k] = h[k - 1] + Bin(b, k - 1)
  <2>1. \A k \in 1 .. n : Row(fp, n)[k] = Bin(fp, k - 1) /\ Row(b, n)[k] = Bin(b, k - 1)
    BY BinsAreNumbers
  <2>. QED
    BY <1>4, <1>5, <2>1 DEF Sums
<1>. DEFINE s == [k \in 0 .. n |-> g[k] + h[k]]
<1>7. s[0] = 0 /\ s[n] = x + y
  BY <1>4, <1>5, <1>6
<1>8. ASSUME NEW k \in 1 .. n PROVE s[k] = s[k - 1] + Bin(both, k - 1)
  <2>0. k \in 0 .. n /\ k - 1 \in 0 .. n
    OBVIOUS
  <2>1. /\ s[k] = g[k] + h[k] /\ s[k - 1] = g[k - 1] + h[k - 1]
        /\ g[k - 1] \in Int /\ h[k - 1] \in Int
    BY <1>6, <2>0
  <2>2. /\ g[k] = g[k - 1] + Bin(fp, k - 1) /\ h[k] = h[k - 1] + Bin(b, k - 1)
        /\ Bin(both, k - 1) = Bin(fp, k - 1) + Bin(b, k - 1)
        /\ Bin(fp, k - 1) \in Int /\ Bin(b, k - 1) \in Int
    BY <1>1, <1>2, <1>6
  <2>. HIDE DEF s
  <2>. QED
    BY <2>1, <2>2
<1>9. s = [k \in 0 .. n |-> s[k]]
  OBVIOUS
<1>. HIDE DEF s
<1>10. AddsTo(s, both, n)
  BY <1>7, <1>8, <1>9 DEF AddsTo
<1>11. IsMass(s[n], both, n)
  BY <1>3, <1>10, AddUpTo
<1>. QED
  BY <1>3, <1>7, <1>11

(* Nothing adds up to nothing.                                             *)
LEMMA MassOfNone ==
  ASSUME NEW n \in Nat
  PROVE  Numbers(EmptyBag) /\ IsMass(0, EmptyBag, n)
<1>1. DOMAIN EmptyBag = {}
  BY DEF EmptyBag, SetToBag
<1>2. Numbers(EmptyBag) /\ \A i : Bin(EmptyBag, i) = 0
  BY <1>1 DEF Numbers, Bin
<1>. PICK g : g = [k \in 0 .. n |-> 0]
  OBVIOUS
<1>3. AddsTo(g, EmptyBag, n) /\ g[n] = 0
  BY <1>2 DEF AddsTo
<1>. QED
  BY <1>2, <1>3, AddUpTo

(* One place adds up to one.                                               *)
LEMMA MassOfOne ==
  ASSUME NEW n \in Nat, NEW place \in 0 .. n - 1, NEW b, b = SetToBag({place})
  PROVE  Numbers(b) /\ IsMass(1, b, n)
<1>1. DOMAIN b = {place} /\ b[place] = 1
  BY DEF SetToBag
<1>2. Numbers(b) /\ \A i : Bin(b, i) = IF i = place THEN 1 ELSE 0
  BY <1>1 DEF Numbers, Bin
<1>. PICK g : g = [k \in 0 .. n |-> IF k <= place THEN 0 ELSE 1]
  OBVIOUS
<1>3. g = [k \in 0 .. n |-> g[k]] /\ g[0] = 0 /\ g[n] = 1
  OBVIOUS
<1>4. ASSUME NEW k \in 1 .. n PROVE g[k] = g[k - 1] + Bin(b, k - 1)
  <2>1. k \in 0 .. n /\ k - 1 \in 0 .. n
    OBVIOUS
  <2>2. /\ g[k] = (IF k <= place THEN 0 ELSE 1) /\ g[k - 1] = (IF k - 1 <= place THEN 0 ELSE 1)
        /\ Bin(b, k - 1) = IF k - 1 = place THEN 1 ELSE 0
    BY <1>2, <2>1
  <2>. QED
    BY <2>2
<1>5. AddsTo(g, b, n)
  BY <1>3, <1>4 DEF AddsTo
<1>. QED
  BY <1>2, <1>3, <1>5, AddUpTo

(* Two places add up to both.                                              *)
LEMMA MassOfPair ==
  ASSUME NEW x \in Int, NEW y \in Int
  PROVE  Numbers(Pair(x, y)) /\ IsMass(x + y, Pair(x, y), 2)
<1>. PICK b : b = Pair(x, y)
  OBVIOUS
<1>1. DOMAIN b = {0, 1} /\ b[0] = x /\ b[1] = y
  BY DEF Pair
<1>2. Numbers(b) /\ Bin(b, 0) = x /\ Bin(b, 1) = y
  BY <1>1 DEF Numbers, Bin
<1>. PICK g : g = [k \in 0 .. 2 |-> IF k = 0 THEN 0 ELSE IF k = 1 THEN x ELSE x + y]
  OBVIOUS
<1>3. /\ g = [k \in 0 .. 2 |-> g[k]] /\ g[0] = 0 /\ g[1] = x /\ g[2] = x + y
  OBVIOUS
<1>4. ASSUME NEW k \in 1 .. 2 PROVE g[k] = g[k - 1] + Bin(b, k - 1)
  <2>1. k = 1 \/ k = 2
    OBVIOUS
  <2>2. g[1] = g[0] + Bin(b, 0) /\ g[2] = g[1] + Bin(b, 1)
    BY <1>2, <1>3
  <2>3. 1 - 1 = 0 /\ 2 - 1 = 1
    OBVIOUS
  <2>. QED
    BY <2>1, <2>2, <2>3
<1>5. AddsTo(g, b, 2)
  BY <1>3, <1>4 DEF AddsTo
<1>6. 2 \in Nat
  OBVIOUS
<1>7. IsMass(g[2], b, 2)
  BY <1>2, <1>5, <1>6, AddUpTo
<1>. QED
  BY <1>2, <1>3, <1>7

(* And of two places, all there is is in the two.                          *)
LEMMA MassIsBoth ==
  ASSUME NEW fp, Numbers(fp), NEW x, IsMass(x, fp, 2)
  PROVE  x = Bin(fp, 0) + Bin(fp, 1)
<1>1. PICK g : g \in Sums(Row(fp, 2), 2) /\ x = g[2]
  BY DEF IsMass
<1>2. /\ Row(fp, 2)[1] = Bin(fp, 0) /\ Row(fp, 2)[2] = Bin(fp, 1)
      /\ Bin(fp, 0) \in Int /\ Bin(fp, 1) \in Int
  BY BinsAreNumbers DEF Row
<1>3. g[0] = 0 /\ g[1] = g[0] + Row(fp, 2)[1] /\ g[2] = g[1] + Row(fp, 2)[2]
  BY <1>1 DEF Sums
<1>. QED
  BY <1>1, <1>2, <1>3

(* The bytes of a payload are as many as its counts add up to.             *)
LEMMA MassOfBytes ==
  ASSUME NEW bytes \in Seq(Byte), NEW b, b = ToBag(bytes)
  PROVE  Numbers(b) /\ IsMass(Len(bytes), b, 256)
<1>. PICK D, N : D = DOMAIN bytes /\ N = Len(bytes)
  OBVIOUS
<1>1. D = 1 .. N /\ N \in Nat /\ \A i \in D : bytes[i] \in Byte
  BY LenProperties
<1>. DEFINE Places(x) == {i \in D : bytes[i] = x}
            Below(k) == {i \in D : bytes[i] < k}
<1>2. \A S : S \subseteq D => IsFiniteSet(S) /\ Cardinality(S) \in Nat
  BY <1>1, PlacesFinite
<1>3. \A x : Bin(b, x) = Cardinality(Places(x))
  <2>. HIDE DEF Places
  <2>1. DOMAIN b = {bytes[i] : i \in D} /\ \A x \in DOMAIN b : b[x] = Cardinality(Places(x))
    BY DEF ToBag, Range, Places
  <2>2. \A x : x \notin DOMAIN b => Places(x) = {}
    BY <2>1 DEF Places
  <2>3. \A x : x \notin DOMAIN b => Cardinality(Places(x)) = 0
    BY <2>2, NoneAreZero
  <2>. QED
    BY <2>1, <2>3 DEF Bin
<1>4. Numbers(b)
  <2>1. \A x : Places(x) \subseteq D
    OBVIOUS
  <2>. HIDE DEF Places
  <2>2. \A x : Cardinality(Places(x)) \in Int
    BY <1>2, <2>1
  <2>3. \A x \in DOMAIN b : b[x] = Bin(b, x)
    BY DEF Bin
  <2>. QED
    BY <1>3, <2>2, <2>3 DEF Numbers
<1>5. /\ \A i \in D : ~(bytes[i] < 0) /\ bytes[i] < 256
      /\ \A i \in D, k \in Int : /\ bytes[i] < k <=> bytes[i] < k - 1 \/ bytes[i] = k - 1
                                /\ ~(bytes[i] < k - 1 /\ bytes[i] = k - 1)
  <2>1. \A x \in Byte : ~(x < 0) /\ x < 256 /\ x \in Int
    BY DEF Byte
  <2>2. \A x, k \in Int : (x < k <=> x < k - 1 \/ x = k - 1) /\ ~(x < k - 1 /\ x = k - 1)
    OBVIOUS
  <2>. HIDE DEF Below, Places
  <2>. QED
    BY <1>1, <2>1, <2>2
<1>6. Cardinality(Below(0)) = 0
  <2>1. Below(0) = {}
    BY <1>5
  <2>. QED
    BY <2>1, NoneAreZero
<1>7. Cardinality(Below(256)) = N
  <2>1. Below(256) = D
    BY <1>5
  <2>. QED
    BY <1>1, <2>1, HowMany
<1>8. ASSUME NEW k \in Int
      PROVE  Cardinality(Below(k)) = Cardinality(Below(k - 1)) + Bin(b, k - 1)
  <2>. PICK S, T, U : S = Below(k) /\ T = Below(k - 1) /\ U = Places(k - 1)
    OBVIOUS
  <2>1. S = T \cup U /\ T \cap U = {} /\ T \subseteq D /\ U \subseteq D
    BY <1>5
  <2>. HIDE DEF Below, Places
  <2>2. Cardinality(S) = Cardinality(T) + Cardinality(U)
    BY <1>2, <2>1, DisjointSizes
  <2>. QED
    BY <1>3, <2>2
<1>. HIDE DEF Below, Places
<1>9. PICK g : g = [k \in 0 .. 256 |-> Cardinality(Below(k))]
  OBVIOUS
<1>10. /\ g = [k \in 0 .. 256 |-> g[k]]
       /\ \A k \in 0 .. 256 : g[k] = Cardinality(Below(k))
  BY <1>9
<1>11. \A k \in 1 .. 256 : k \in 0 .. 256 /\ k - 1 \in 0 .. 256 /\ k \in Int
  OBVIOUS
<1>12. \A k \in 1 .. 256 : g[k] = g[k - 1] + Bin(b, k - 1)
  BY <1>8, <1>10, <1>11
<1>13. g[0] = 0 /\ g[256] = N /\ 256 \in Nat
  BY <1>6, <1>7, <1>10
<1>14. AddsTo(g, b, 256)
  BY <1>10, <1>12, <1>13 DEF AddsTo
<1>15. IsMass(g[256], b, 256)
  BY <1>4, <1>13, <1>14, AddUpTo
<1>. QED
  BY <1>4, <1>13, <1>15

(* A meter whose fingerprint adds up to its total, and one that lost two   *)
(* at the most at each of n packets.                                       *)
Summable(m, size) == InArray(m, size) /\ Numbers(m.fp) /\ m.total \in Int
AddsUp(m, size) == Summable(m, size) /\ IsMass(m.total, m.fp, size)
Lags(m, n) ==
  Summable(m, 2) /\ \E x \in Int : IsMass(x, m.fp, 2) /\ 0 <= m.total - x /\ m.total - x <= 2 * n

LEMMA WriteIs ==
  ASSUME NEW m, NEW size, InArray(m, size), NEW fp, NEW total
  PROVE  /\ Write(m, fp, total).fp = fp /\ Write(m, fp, total).total = total
         /\ Write(m, fp, total).size = size
BY DEF InArray, MeterFields, Write

LEMMA WriteAdds ==
  ASSUME NEW m, NEW size, InArray(m, size), NEW fp, DOMAIN fp \subseteq 0 .. size - 1,
         NEW total \in Int, Numbers(fp), IsMass(total, fp, size)
  PROVE  AddsUp(Write(m, fp, total), size)
<1>. PICK w : w = Write(m, fp, total)
  OBVIOUS
<1>1. InArray(w, size)
  BY WriteIn
<1>2. w.fp = fp /\ w.total = total
  BY WriteIs
<1>. QED
  BY <1>1, <1>2 DEF AddsUp, Summable

(* What does not touch the sums.                                           *)
LEMMA RestAdds ==
  ASSUME NEW m, NEW size, AddsUp(m, size)
  PROVE  AddsUp(Done(m), size) /\ \A last \in Triple : AddsUp(Remember(m, last), size)
<1>1. InArray(Done(m), size) /\ Done(m).fp = m.fp /\ Done(m).total = m.total
  BY RestIn DEF AddsUp, Summable, InArray, MeterFields, Done
<1>2. ASSUME NEW last \in Triple
      PROVE  /\ InArray(Remember(m, last), size)
             /\ Remember(m, last).fp = m.fp /\ Remember(m, last).total = m.total
  BY RestIn DEF AddsUp, Summable, InArray, MeterFields, Remember
<1>. QED
  BY <1>1, <1>2 DEF AddsUp, Summable

(* Counting some bytes adds their number.                                  *)
LEMMA CountBytesAdds ==
  ASSUME NEW m, AddsUp(m, 256), NEW bytes \in Seq(Byte)
  PROVE  AddsUp(CountBytes(m, bytes, m.total + Len(bytes)), 256)
<1>. PICK b : b = ToBag(bytes)
  OBVIOUS
<1>. PICK fp, total, n : fp = m.fp /\ total = m.total /\ n = Len(bytes)
  OBVIOUS
<1>. PICK both : both = fp (+) b
  OBVIOUS
<1>. PICK w : w = CountBytes(m, bytes, total + n)
  OBVIOUS
<1>1. /\ InArray(m, 256) /\ Numbers(fp) /\ total \in Int /\ n \in Int /\ 256 \in Nat
      /\ IsMass(total, fp, 256)
  BY LenProperties DEF AddsUp, Summable
<1>2. InArray(w, 256)
  BY <1>1, CountBytesIn
<1>3. Numbers(b) /\ IsMass(n, b, 256)
  BY MassOfBytes
<1>4. Numbers(both) /\ IsMass(total + n, both, 256)
  BY <1>1, <1>3, MassOfBoth
<1>5. w = Write(m, both, total + n)
  BY DEF CountBytes, Write
<1>6. w.fp = both /\ w.total = total + n
  BY <1>1, <1>5, WriteIs
<1>. QED
  BY <1>1, <1>2, <1>4, <1>6 DEF AddsUp, Summable

(* So do the meters of bytes, but for First8 that forgets its total.       *)
LEMMA BytesAdd ==
  ASSUME NEW m, AddsUp(m, 256), NEW flow, NEW p, p.payload \in Seq(Byte)
  PROVE  /\ AddsUp(ByteFrequency(m, flow, p), 256)
         /\ AddsUp(ByteFrequencyFirstOrigToDest(m, flow, p), 256)
         /\ AddsUp(ByteFrequencyFirstDestToOrig(m, flow, p), 256)
         /\ AddsUp(First4ByteFrequency(m, flow, p), 256)
         /\ AddsUp(First16ByteFrequency(m, flow, p), 256)
<1>. PICK bytes \in Seq(Byte) : bytes = p.payload
  OBVIOUS
<1>. PICK four \in Seq(Byte) : four = FirstBytes(p, 4)
  BY FirstBytesAre
<1>. PICK sixteen \in Seq(Byte) : sixteen = FirstBytes(p, 16)
  BY FirstBytesAre
<1>. PICK x, y, z : /\ x = CountBytes(m, bytes, m.total + Len(bytes))
                    /\ y = CountBytes(m, four, m.total + Len(four))
                    /\ z = CountBytes(m, sixteen, m.total + Len(sixteen))
  OBVIOUS
<1>1. AddsUp(x, 256) /\ AddsUp(y, 256) /\ AddsUp(z, 256)
  BY CountBytesAdds
<1>2. AddsUp(Done(x), 256)
  BY <1>1, RestAdds
<1>3. AddsUp(ByteFrequency(m, flow, p), 256)
  BY <1>1 DEF ByteFrequency, Size
<1>4. AddsUp(ByteFrequencyFirstOrigToDest(m, flow, p), 256)
  BY <1>1 DEF ByteFrequencyFirstOrigToDest, Size
<1>5. AddsUp(ByteFrequencyFirstDestToOrig(m, flow, p), 256)
  <2>1. ByteFrequencyFirstDestToOrig(m, flow, p) = IF m.done \/ Size(p) = 0 THEN m ELSE Done(x)
    BY DEF ByteFrequencyFirstDestToOrig, Done, Size
  <2>. QED
    BY <1>2, <2>1
<1>6. AddsUp(First4ByteFrequency(m, flow, p), 256)
  BY <1>1 DEF First4ByteFrequency
<1>7. AddsUp(First16ByteFrequency(m, flow, p), 256)
  BY <1>1 DEF First16ByteFrequency
<1>. QED
  BY <1>3, <1>4, <1>5, <1>6, <1>7

(* Two numbers add up to their sum.                                        *)
LEMMA PairAdds ==
  ASSUME NEW m, InArray(m, 2), NEW x \in Int, NEW y \in Int
  PROVE  AddsUp(Write(m, Pair(x, y), x + y), 2)
<1>. PICK total, fp : total = x + y /\ fp = Pair(x, y)
  OBVIOUS
<1>1. DOMAIN fp \subseteq 0 .. 2 - 1
  BY DEF Pair
<1>2. Numbers(fp) /\ IsMass(total, fp, 2) /\ total \in Int
  BY MassOfPair
<1>. QED
  BY <1>1, <1>2, WriteAdds

(* The number of packets is that of changes and the others.                *)
LEMMA ChangesAdd ==
  ASSUME NEW m, AddsUp(m, 2), NEW flow, flow.pktCount \in Int, NEW p
  PROVE  /\ AddsUp(DirectionChanges(m, flow, p), 2)
         /\ AddsUp(DirectionChangesFirst8Packets(m, flow, p), 2)
<1>. PICK n, fp : n = flow.pktCount /\ fp = m.fp
  OBVIOUS
<1>. PICK before : before = Truncated(Bin(fp, 0), n - 1)
  OBVIOUS
<1>. PICK change : change = IF flow.lastDirection # flow.direction THEN 1 ELSE 0
  OBVIOUS
<1>1. InArray(m, 2) /\ Numbers(fp)
  BY DEF AddsUp, Summable
<1>2. before \in Int
  <2>1. Bin(fp, 0) \in Int
    BY <1>1, BinsAreNumbers
  <2>. QED
    BY <2>1 DEF Truncated
<1>3. before + change \in Int /\ n - before - change \in Int
      /\ n = (before + change) + (n - before - change)
  BY <1>2
<1>4. DirectionChanges(m, flow, p) = Write(m, Pair(before + change, n - before - change), n)
  BY DEF DirectionChanges, Write
<1>5. AddsUp(Write(m, Pair(before + change, n - before - change), n), 2)
  <2>1. PICK x, y : x = before + change /\ y = n - before - change
    OBVIOUS
  <2>2. x \in Int /\ y \in Int /\ x + y = n
    BY <1>3, <2>1
  <2>3. AddsUp(Write(m, Pair(x, y), x + y), 2)
    BY <1>1, <2>2, PairAdds
  <2>. QED
    BY <2>1, <2>2, <2>3
<1>6. AddsUp(DirectionChanges(m, flow, p), 2)
  BY <1>4, <1>5
<1>. QED
  BY <1>6 DEF DirectionChangesFirst8Packets

(* There are so many different bytes in a payload.                         *)
LEMMA ManyAre ==
  ASSUME NEW bytes \in Seq(Byte)
  PROVE  Cardinality(ToSet(bytes)) \in Int
<1>1. \A i \in DOMAIN bytes : bytes[i] \in Byte
  OBVIOUS
<1>2. ToSet(bytes) \subseteq Byte
  BY <1>1 DEF ToSet
<1>3. PICK n \in Nat : n = 255
  OBVIOUS
<1>4. Byte = 0 .. n
  BY <1>3 DEF Byte
<1>. QED
  BY <1>2, <1>4, NumbersFinite

(* The other measures of the first packet.                                 *)
LEMMA FirstAdd ==
  ASSUME NEW m, AddsUp(m, 2), NEW flow, NEW p, p.payload \in Seq(Byte)
  PROVE  /\ AddsUp(PayloadSizeFirstPacket(m, flow, p), 2)
         /\ AddsUp(EntropyFirstOrigToDest(m, flow, p), 2)
<1>1. InArray(m, 2)
  BY DEF AddsUp, Summable
<1>2. AddsUp(PayloadSizeFirstPacket(m, flow, p), 2)
  <2>. PICK max : max = IF p.tuple.protocol = 6 THEN 1460 ELSE 1476
    OBVIOUS
  <2>. PICK x : x = Size(p)
    OBVIOUS
  <2>1. x \in Int
    BY LenProperties DEF Size
  <2>2. PICK y \in Int : y = max - x
    BY <2>1
  <2>3. x + y = max
    BY <2>1, <2>2
  <2>4. AddsUp(Write(m, Pair(x, y), x + y), 2)
    BY <1>1, <2>1, PairAdds
  <2>5. PayloadSizeFirstPacket(m, flow, p)
          = IF ~flow.isFirstPacket THEN m ELSE Write(m, Pair(x, y), max)
    BY <2>2 DEF PayloadSizeFirstPacket, Write
  <2>. QED
    BY <2>3, <2>4, <2>5
<1>3. AddsUp(EntropyFirstOrigToDest(m, flow, p), 2)
  <2>. PICK bytes \in Seq(Byte) : bytes = p.payload
    OBVIOUS
  <2>1. PICK entropy \in Int : entropy = Cardinality(ToSet(bytes)) - 1
    BY ManyAre
  <2>2. PICK rest \in Int : rest = 255 - entropy
    OBVIOUS
  <2>3. entropy + rest = 255
    BY <2>2
  <2>4. AddsUp(Write(m, Pair(entropy, rest), entropy + rest), 2)
    BY <1>1, PairAdds
  <2>5. EntropyFirstOrigToDest(m, flow, p)
          = IF ~flow.isFirstPacket \/ Size(p) = 0 THEN m
            ELSE Write(m, Pair(entropy, rest), 255)
    BY <2>1, <2>2 DEF EntropyFirstOrigToDest, Write
  <2>. QED
    BY <2>3, <2>4, <2>5
<1>. QED
  BY <1>2, <1>3

(* A match is one, and so is none.                                         *)
LEMMA MatchAdds ==
  ASSUME NEW m, AddsUp(m, 2), m.total = 1, NEW flow, NEW p
  PROVE  AddsUp(RtmpRegexMatch(m, flow, p), 2) /\ RtmpRegexMatch(m, flow, p).total = 1
<1>. PICK w : w = Write(m, Pair(1, 0), 1 + 0)
  OBVIOUS
<1>1. InArray(m, 2)
  BY DEF AddsUp, Summable
<1>2. AddsUp(w, 2)
  BY <1>1, PairAdds
<1>3. w.total = 1
  BY <1>1, WriteIs
<1>4. [m EXCEPT !.fp = Pair(1, 0)] = w
  <2>1. m = [x \in MeterFields |-> m[x]] /\ m.total = 1 + 0
    BY <1>1 DEF InArray
  <2>2. [m EXCEPT !.total = 1 + 0] = m
    BY <2>1 DEF MeterFields
  <2>3. \A fp : [m EXCEPT !.fp = fp] = [m EXCEPT !.fp = fp, !.total = 1 + 0]
    BY <2>2
  <2>. QED
    BY <2>3 DEF Write
<1>5. RtmpRegexMatch(m, flow, p) \in {m, w}
  BY <1>4 DEF RtmpRegexMatch
<1>. QED
  BY <1>2, <1>3, <1>5

(* One more hash is one more in its place.                                 *)
LEMMA HashAdds ==
  ASSUME NEW m, AddsUp(m, 115), NEW place \in 0 .. 115 - 1
  PROVE  AddsUp(Write(m, m.fp (+) SetToBag({place}), m.total + 1), 115)
<1>. PICK b, fp, total : b = SetToBag({place}) /\ fp = m.fp /\ total = m.total
  OBVIOUS
<1>. PICK both : both = fp (+) b
  OBVIOUS
<1>1. /\ InArray(m, 115) /\ Numbers(fp) /\ total \in Int
      /\ IsMass(total, fp, 115) /\ DOMAIN fp \subseteq 0 .. 115 - 1
  BY DEF AddsUp, Summable, InArray
<1>2. 115 \in Nat
  OBVIOUS
<1>3. Numbers(b) /\ IsMass(1, b, 115)
  BY <1>2, MassOfOne
<1>4. Numbers(both) /\ IsMass(total + 1, both, 115)
  BY <1>1, <1>2, <1>3, MassOfBoth
<1>5. DOMAIN both \subseteq 0 .. 115 - 1
  <2>1. DOMAIN b = {place}
    BY DEF SetToBag
  <2>2. DOMAIN both = DOMAIN fp \cup DOMAIN b
    BY DEF (+)
  <2>. QED
    BY <1>1, <2>1, <2>2
<1>6. total + 1 \in Int
  BY <1>1
<1>. QED
  BY <1>1, <1>4, <1>5, <1>6, WriteAdds

(* The three bytes that are remembered, and those from before.             *)
LEMMA HashedAdds ==
  ASSUME NEW m, AddsUp(m, 115), NEW flow, NEW p, p.payload \in Seq(Byte), NEW junk \in Triple
  PROVE  AddsUp(ActionReactionFirst3ByteHash(m, flow, p, junk), 115)
<1>. PICK current : current = [i \in 1 .. 3 |-> IF i <= Size(p) THEN p.payload[i] ELSE 0]
  OBVIOUS
<1>1. current \in Triple
  BY FirstThree
<1>. PICK before : before = IF m.last = << >> THEN junk ELSE m.last
  OBVIOUS
<1>2. before \in Triple
  BY DEF AddsUp, Summable, InArray
<1>. PICK place : place = Mixed(before, current)
  OBVIOUS
<1>3. place \in 0 .. 115 - 1
  BY <1>1, <1>2, MixedInRange DEF ActionReactionMeter, AttributeMeter
<1>. PICK w : w = Write(m, m.fp (+) SetToBag({place}), m.total + 1)
  OBVIOUS
<1>4. AddsUp(w, 115)
  BY <1>3, HashAdds
<1>5. AddsUp(Remember(w, current), 115) /\ AddsUp(Remember(m, current), 115)
  BY <1>1, <1>4, RestAdds
<1>6. [m EXCEPT !.fp = m.fp (+) SetToBag({place}), !.total = m.total + 1, !.last = current]
        = Remember(w, current)
  BY DEF Write, Remember
<1>7. ActionReactionFirst3ByteHash(m, flow, p, junk)
        = IF Size(p) = 0 THEN m
          ELSE IF ~flow.isFirstPacket /\ flow.lastDirection # flow.direction
               THEN Remember(w, current) ELSE Remember(m, current)
  BY <1>6 DEF ActionReactionFirst3ByteHash, Remember
<1>. QED
  BY <1>5, <1>7

LEMMA WriteLags ==
  ASSUME NEW m, InArray(m, 2), NEW n \in Nat, NEW y \in Int, NEW z \in Int, NEW total \in Int,
         0 <= total - (y + z), total - (y + z) <= 2 * n
  PROVE  Lags(Write(m, Pair(y, z), total), n)
<1>. PICK w, fp, x : w = Write(m, Pair(y, z), total) /\ fp = Pair(y, z) /\ x = y + z
  OBVIOUS
<1>1. Numbers(fp) /\ IsMass(x, fp, 2) /\ x \in Int
  BY MassOfPair
<1>2. w.fp = fp /\ w.total = total
  BY WriteIs
<1>3. InArray(w, 2)
  <2>1. DOMAIN fp \subseteq 0 .. 2 - 1
    BY DEF Pair
  <2>. QED
    BY <2>1, WriteIn
<1>4. 0 <= total - x /\ total - x <= 2 * n
  OBVIOUS
<1>. QED
  BY <1>1, <1>2, <1>3, <1>4 DEF Lags, Summable

(* A packet that is in a direction: the bytes of both are counted anew,    *)
(* and either may lose one.                                                *)
LEMMA DirectionsLag ==
  ASSUME NEW m, NEW n \in Nat, Lags(m, n), NEW flow, NEW p, p.payload \in Seq(Byte),
         flow.direction \in {"ORIG_TO_DEST", "DEST_TO_ORIG", "UNKNOWN"}
  PROVE  /\ Lags(DirectionBytesCount(m, flow, p), n + 1)
         /\ Lags(DirectionBytesCountFirst10Packet(m, flow, p), n + 1)
<1>0. PICK fp, total, size : fp = m.fp /\ total = m.total /\ size = Size(p)
  OBVIOUS
<1>1. InArray(m, 2) /\ Numbers(fp) /\ total \in Int /\ size \in Int
  BY <1>0, LenProperties DEF Lags, Summable, Size
<1>2. PICK x \in Int : IsMass(x, fp, 2) /\ 0 <= total - x /\ total - x <= 2 * n
  BY <1>0 DEF Lags
<1>3. x = Bin(fp, 0) + Bin(fp, 1) /\ Bin(fp, 0) \in Int /\ Bin(fp, 1) \in Int
  BY <1>1, <1>2, MassIsBoth, BinsAreNumbers
<1>4. Lags(m, n + 1)
  <2>1. total - x <= 2 * (n + 1)
    BY <1>1, <1>2
  <2>. QED
    BY <1>0, <1>1, <1>2, <2>1 DEF Lags, Summable
<1>5. PICK a, b : /\ a = Truncated(Bin(fp, 0), total) /\ a \in {Bin(fp, 0), Bin(fp, 0) - 1}
                  /\ b = Truncated(Bin(fp, 1), total) /\ b \in {Bin(fp, 1), Bin(fp, 1) - 1}
  BY DEF Truncated
<1>6. a \in Int /\ b \in Int
  BY <1>3, <1>5
<1>7. ASSUME NEW y \in Int, NEW z \in Int, y + z = a + b + size
      PROVE  Lags(Write(m, Pair(y, z), total + size), n + 1)
  <2>1. PICK t \in Int, k \in Nat, e \in Int : t = total + size /\ k = n + 1 /\ e = total - x
    BY <1>1
  <2>2. a + b <= x /\ x <= a + b + 2
    BY <1>3, <1>5
  <2>3. PICK d \in Int : d = x - (a + b)
    BY <1>6
  <2>4. 0 <= d /\ d <= 2 /\ 0 <= e /\ e <= 2 * n
    BY <1>2, <1>6, <2>1, <2>2, <2>3
  <2>5. 0 <= e + d /\ e + d <= 2 * n + 2 /\ 2 * k = 2 * n + 2
    BY <2>1, <2>4
  <2>6. t - (y + z) = e + d
    BY <1>1, <1>6, <1>7, <2>1, <2>3
  <2>7. Lags(Write(m, Pair(y, z), t), k)
    BY <1>1, <2>5, <2>6, WriteLags
  <2>. QED
    BY <2>1, <2>7
<1>8. Lags(DirectionBytesCount(m, flow, p), n + 1)
  <2>1. CASE size = 0 \/ flow.direction = "UNKNOWN"
    BY <1>0, <1>4, <2>1 DEF DirectionBytesCount
  <2>2. CASE size # 0 /\ flow.direction = "ORIG_TO_DEST"
    <3>. PICK y, z : y = a + size /\ z = b
      OBVIOUS
    <3>1. DirectionBytesCount(m, flow, p) = Write(m, Pair(a + size, b + 0), total + size)
      BY <1>0, <1>5, <2>2 DEF DirectionBytesCount, Write
    <3>2. y \in Int /\ z \in Int /\ b + 0 = b /\ y + z = a + b + size
      BY <1>1, <1>6
    <3>3. Lags(Write(m, Pair(y, z), total + size), n + 1)
      BY <1>7, <3>2
    <3>. QED
      BY <3>1, <3>2, <3>3
  <2>3. CASE size # 0 /\ flow.direction = "DEST_TO_ORIG"
    <3>. PICK y, z : y = a /\ z = b + size
      OBVIOUS
    <3>1. DirectionBytesCount(m, flow, p) = Write(m, Pair(a + 0, b + size), total + size)
      BY <1>0, <1>5, <2>3 DEF DirectionBytesCount, Write
    <3>2. y \in Int /\ z \in Int /\ a + 0 = a /\ y + z = a + b + size
      BY <1>1, <1>6
    <3>3. Lags(Write(m, Pair(y, z), total + size), n + 1)
      BY <1>7, <3>2
    <3>. QED
      BY <3>1, <3>2, <3>3
  <2>. QED
    BY <2>1, <2>2, <2>3
<1>. QED
  BY <1>4, <1>8 DEF DirectionBytesCountFirst10Packet

(* New meters add up: to nothing, or to the one that two start with.       *)
LEMMA CreatedAdds ==
  ASSUME NEW size \in Nat
  PROVE  AddsUp(AttributeMeter(size), size)
<1>. PICK m : m = AttributeMeter(size)
  OBVIOUS
<1>1. InArray(m, size)
  BY CreatedIn
<1>2. m.fp = EmptyBag /\ m.total = 0
  BY DEF AttributeMeter
<1>. QED
  BY <1>1, <1>2, MassOfNone DEF AddsUp, Summable

LEMMA CreatedPairAdds ==
  /\ AddsUp(PayloadSizeFirstPacketMeter, 2)
  /\ AddsUp(RtmpRegexMatchMeter, 2) /\ RtmpRegexMatchMeter.total = 1
<1>. PICK m : m = AttributeMeter(2)
  OBVIOUS
<1>. PICK w : w = Write(m, Pair(0, 1), 0 + 1)
  OBVIOUS
<1>1. InArray(m, 2)
  BY CreatedIn
<1>2. AddsUp(w, 2)
  BY <1>1, PairAdds
<1>3. w.total = 1
  BY <1>1, WriteIs
<1>4. PayloadSizeFirstPacketMeter = w /\ RtmpRegexMatchMeter = w
  BY DEF PayloadSizeFirstPacketMeter, RtmpRegexMatchMeter, Write
<1>. QED
  BY <1>2, <1>3, <1>4

LEMMA CreatedLags ==
  ASSUME NEW n \in Nat
  PROVE  Lags(AttributeMeter(2), n)
<1>. PICK m : m = AttributeMeter(2)
  OBVIOUS
<1>1. AddsUp(m, 2) /\ m.total = 0
  BY CreatedAdds DEF AttributeMeter
<1>. QED
  BY <1>1 DEF AddsUp, Lags

(* What becomes of the sum of the meter of that name, after n packets.     *)
ByteSums ==
  {"ByteFrequencyMeter", "ByteFrequencyFirstOrigToDestPacket",
   "ByteFrequencyFirstDestToOrigPacket", "First4ByteFrequencyMeter",
   "First16ByteFrequencyMeter"}
PairSums ==
  {"DirectionChangesMeter", "DirectionChangesFirst8PacketsMeter",
   "PayloadSizeFirstPacketMeter", "EntropyFirstOrigToDestPacket", "RtmpRegexMatchMeter"}
DirectionSums == {"DirectionBytesCountMeter", "DirectionBytesCountFirst10PacketMeter"}

Adds(name, m, n) ==
  /\ name \in ByteSums => AddsUp(m, 256)
  /\ name \in PairSums => AddsUp(m, 2)
  /\ name = "RtmpRegexMatchMeter" => m.total = 1
  /\ name = "ActionReactionFirst3ByteHashMeter" => AddsUp(m, 115)
  /\ name \in DirectionSums => Lags(m, n)

AddsAlways(name, flow, p, junk, n) ==
  /\ Adds(name, Create(name), n)
  /\ \A m : Adds(name, m, n) => Adds(name, CalculateMeasurement(name, m, flow, p, junk), n + 1)

(* The probabilities of a meter add up to one after every packet if they   *)
(* did before; where bytes of a direction are lost, two are at the most.   *)
THEOREM MetersAddUp ==
  ASSUME NEW name \in Registered, NEW n \in Nat, NEW flow, flow.pktCount \in Int,
         flow.direction \in {"ORIG_TO_DEST", "DEST_TO_ORIG", "UNKNOWN"},
         NEW p, p.payload \in Seq(Byte), NEW junk \in Triple
  PROVE  AddsAlways(name, flow, p, junk, n)
<1>1. CASE name = "ByteFrequencyMeter"
  <2>1. Create(name) = ByteFrequencyMeter
    BY <1>1 DEF Create
  <2>2. \A m : CalculateMeasurement(name, m, flow, p, junk) = ByteFrequency(m, flow, p)
    BY <1>1 DEF CalculateMeasurement
  <2>3. \A m, k : Adds(name, m, k) <=> AddsUp(m, 256)
    BY <1>1 DEF Adds, ByteSums, PairSums, DirectionSums
  <2>4. AddsUp(ByteFrequencyMeter, 256)
    BY CreatedAdds DEF ByteFrequencyMeter
  <2>5. \A m : AddsUp(m, 256) => AddsUp(ByteFrequency(m, flow, p), 256)
    BY BytesAdd
  <2>. QED
    BY <2>1, <2>2, <2>3, <2>4, <2>5 DEF AddsAlways
<1>2. CASE name = "ByteFrequencyFirstOrigToDestPacket"
  <2>1. Create(name) = ByteFrequencyFirstOrigToDestMeter
    BY <1>2 DEF Create
  <2>2. \A m : CalculateMeasurement(name, m, flow, p, junk) = ByteFrequencyFirstOrigToDest(m, flow, p)
    BY <1>2 DEF CalculateMeasurement
  <2>3. \A m, k : Adds(name, m, k) <=> AddsUp(m, 256)
    BY <1>2 DEF Adds, ByteSums, PairSums, DirectionSums
  <2>4. AddsUp(ByteFrequencyFirstOrigToDestMeter, 256)
    BY CreatedAdds DEF ByteFrequencyFirstOrigToDestMeter
  <2>5. \A m : AddsUp(m, 256) => AddsUp(ByteFrequencyFirstOrigToDest(m, flow, p), 256)
    BY BytesAdd
  <2>. QED
    BY <2>1, <2>2, <2>3, <2>4, <2>5 DEF AddsAlways
<1>3. CASE name = "ByteFrequencyFirstDestToOrigPacket"
  <2>1. Create(name) = ByteFrequencyFirstDestToOrigMeter
    BY <1>3 DEF Create
  <2>2. \A m : CalculateMeasurement(name, m, flow, p, junk) = ByteFrequencyFirstDestToOrig(m, flow, p)
    BY <1>3 DEF CalculateMeasurement
  <2>3. \A m, k : Adds(name, m, k) <=> AddsUp(m, 256)
    BY <1>3 DEF Adds, ByteSums, PairSums, DirectionSums
  <2>4. AddsUp(ByteFrequencyFirstDestToOrigMeter, 256)
    BY CreatedAdds DEF ByteFrequencyFirstDestToOrigMeter
  <2>5. \A m : AddsUp(m, 256) => AddsUp(ByteFrequencyFirstDestToOrig(m, flow, p), 256)
    BY BytesAdd
  <2>. QED
    BY <2>1, <2>2, <2>3, <2>4, <2>5 DEF AddsAlways
<1>4. CASE name = "First4ByteFrequencyMeter"
  <2>1. Create(name) = First4ByteFrequencyMeter
    BY <1>4 DEF Create
  <2>2. \A m : CalculateMeasurement(name, m, flow, p, junk) = First4ByteFrequency(m, flow, p)
    BY <1>4 DEF CalculateMeasurement
  <2>3. \A m, k : Adds(name, m, k) <=> AddsUp(m, 256)
    BY <1>4 DEF Adds, ByteSums, PairSums, DirectionSums
  <2>4. AddsUp(First4ByteFrequencyMeter, 256)
    BY CreatedAdds DEF First4ByteFrequencyMeter
  <2>5. \A m : AddsUp(m, 256) => AddsUp(First4ByteFrequency(m, flow, p), 256)
    BY BytesAdd
  <2>. QED
    BY <2>1, <2>2, <2>3, <2>4, <2>5 DEF AddsAlways
<1>5. CASE name = "First16ByteFrequencyMeter"
  <2>1. Create(name) = First16ByteFrequencyMeter
    BY <1>5 DEF Create
  <2>2. \A m : CalculateMeasurement(name, m, flow, p, junk) = First16ByteFrequency(m, flow, p)
    BY <1>5 DEF CalculateMeasurement
  <2>3. \A m, k : Adds(name, m, k) <=> AddsUp(m, 256)
    BY <1>5 DEF Adds, ByteSums, PairSums, DirectionSums
  <2>4. AddsUp(First16ByteFrequencyMeter, 256)
    BY CreatedAdds DEF First16ByteFrequencyMeter
  <2>5. \A m : AddsUp(m, 256) => AddsUp(First16ByteFrequency(m, flow, p), 256)
    BY BytesAdd
  <2>. QED
    BY <2>1, <2>2, <2>3, <2>4, <2>5 DEF AddsAlways
<1>6. CASE name = "DirectionChangesMeter"
  <2>1. Create(name) = DirectionChangesMeter
    BY <1>6 DEF Create
  <2>2. \A m : CalculateMeasurement(name, m, flow, p, junk) = DirectionChanges(m, flow, p)
    BY <1>6 DEF CalculateMeasurement
  <2>3. \A m, k : Adds(name, m, k) <=> AddsUp(m, 2)
    BY <1>6 DEF Adds, ByteSums, PairSums, DirectionSums
  <2>4. AddsUp(DirectionChangesMeter, 2)
    BY CreatedAdds DEF DirectionChangesMeter
  <2>5. \A m : AddsUp(m, 2) => AddsUp(DirectionChanges(m, flow, p), 2)
    BY ChangesAdd
  <2>. QED
    BY <2>1, <2>2, <2>3, <2>4, <2>5 DEF AddsAlways
<1>7. CASE name = "DirectionChangesFirst8PacketsMeter"
  <2>1. Create(name) = DirectionChangesFirst8PacketsMeter
    BY <1>7 DEF Create
  <2>2. \A m : CalculateMeasurement(name, m, flow, p, junk) = DirectionChangesFirst8Packets(m, flow, p)
    BY <1>7 DEF CalculateMeasurement
  <2>3. \A m, k : Adds(name, m, k) <=> AddsUp(m, 2)
    BY <1>7 DEF Adds, ByteSums, PairSums, DirectionSums
  <2>4. AddsUp(DirectionChangesFirst8PacketsMeter, 2)
    BY CreatedAdds DEF DirectionChangesFirst8PacketsMeter
  <2>5. \A m : AddsUp(m, 2) => AddsUp(DirectionChangesFirst8Packets(m, flow, p), 2)
    BY ChangesAdd
  <2>. QED
    BY <2>1, <2>2, <2>3, <2>4, <2>5 DEF AddsAlways
<1>8. CASE name = "PayloadSizeFirstPacketMeter"
  <2>1. Create(name) = PayloadSizeFirstPacketMeter
    BY <1>8 DEF Create
  <2>2. \A m : CalculateMeasurement(name, m, flow, p, junk) = PayloadSizeFirstPacket(m, flow, p)
    BY <1>8 DEF CalculateMeasurement
  <2>3. \A m, k : Adds(name, m, k) <=> AddsUp(m, 2)
    BY <1>8 DEF Adds, ByteSums, PairSums, DirectionSums
  <2>4. AddsUp(PayloadSizeFirstPacketMeter, 2)
    BY CreatedPairAdds
  <2>5. \A m : AddsUp(m, 2) => AddsUp(PayloadSizeFirstPacket(m, flow, p), 2)
    BY FirstAdd
  <2>. QED
    BY <2>1, <2>2, <2>3, <2>4, <2>5 DEF AddsAlways
<1>9. CASE name = "EntropyFirstOrigToDestPacket"
  <2>1. Create(name) = EntropyFirstOrigToDestMeter
    BY <1>9 DEF Create
  <2>2. \A m : CalculateMeasurement(name, m, flow, p, junk) = EntropyFirstOrigToDest(m, flow, p)
    BY <1>9 DEF CalculateMeasurement
  <2>3. \A m, k : Adds(name, m, k) <=> AddsUp(m, 2)
    BY <1>9 DEF Adds, ByteSums, PairSums, DirectionSums
  <2>4. AddsUp(EntropyFirstOrigToDestMeter, 2)
    BY CreatedAdds DEF EntropyFirstOrigToDestMeter
  <2>5. \A m : AddsUp(m, 2) => AddsUp(EntropyFirstOrigToDest(m, flow, p), 2)
    BY FirstAdd
  <2>. QED
    BY <2>1, <2>2, <2>3, <2>4, <2>5 DEF AddsAlways
<1>10. CASE name = "RtmpRegexMatchMeter"
  <2>1. Create(name) = RtmpRegexMatchMeter
    BY <1>10 DEF Create
  <2>2. \A m : CalculateMeasurement(name, m, flow, p, junk) = RtmpRegexMatch(m, flow, p)
    BY <1>10 DEF CalculateMeasurement
  <2>3. \A m, k : Adds(name, m, k) <=> AddsUp(m, 2) /\ m.total = 1
    BY <1>10 DEF Adds, ByteSums, PairSums, DirectionSums
  <2>4. AddsUp(RtmpRegexMatchMeter, 2) /\ RtmpRegexMatchMeter.total = 1
    BY CreatedPairAdds
  <2>5. \A m : AddsUp(m, 2) /\ m.total = 1 =>
               AddsUp(RtmpRegexMatch(m, flow, p), 2) /\ RtmpRegexMatch(m, flow, p).total = 1
    BY MatchAdds
  <2>. QED
    BY <2>1, <2>2, <2>3, <2>4, <2>5 DEF AddsAlways
<1>11. CASE name = "ActionReactionFirst3ByteHashMeter"
  <2>1. Create(name) = ActionReactionMeter
    BY <1>11 DEF Create
  <2>2. \A m : CalculateMeasurement(name, m, flow, p, junk) = ActionReactionFirst3ByteHash(m, flow, p, junk)
    BY <1>11 DEF CalculateMeasurement
  <2>3. \A m, k : Adds(name, m, k) <=> AddsUp(m, 115)
    BY <1>11 DEF Adds, ByteSums, PairSums, DirectionSums
  <2>4. AddsUp(ActionReactionMeter, 115)
    BY CreatedAdds DEF ActionReactionMeter
  <2>5. \A m : AddsUp(m, 115) => AddsUp(ActionReactionFirst3ByteHash(m, flow, p, junk), 115)
    BY HashedAdds
  <2>. QED
    BY <2>1, <2>2, <2>3, <2>4, <2>5 DEF AddsAlways
<1>12. CASE name = "DirectionBytesCountMeter"
  <2>1. Create(name) = DirectionBytesCountMeter
    BY <1>12 DEF Create
  <2>2. \A m : CalculateMeasurement(name, m, flow, p, junk) = DirectionBytesCount(m, flow, p)
    BY <1>12 DEF CalculateMeasurement
  <2>3. \A m, k : Adds(name, m, k) <=> Lags(m, k)
    BY <1>12 DEF Adds, ByteSums, PairSums, DirectionSums
  <2>4. Lags(DirectionBytesCountMeter, n)
    BY CreatedLags DEF DirectionBytesCountMeter
  <2>5. \A m : Lags(m, n) => Lags(DirectionBytesCount(m, flow, p), n + 1)
    BY DirectionsLag
  <2>. QED
    BY <2>1, <2>2, <2>3, <2>4, <2>5 DEF AddsAlways
<1>13. CASE name = "DirectionBytesCountFirst10PacketMeter"
  <2>1. Create(name) = DirectionBytesCountFirst10PacketMeter
    BY <1>13 DEF Create
  <2>2. \A m : CalculateMeasurement(name, m, flow, p, junk) = DirectionBytesCountFirst10Packet(m, flow, p)
    BY <1>13 DEF CalculateMeasurement
  <2>3. \A m, k : Adds(name, m, k) <=> Lags(m, k)
    BY <1>13 DEF Adds, ByteSums, PairSums, DirectionSums
  <2>4. Lags(DirectionBytesCountFirst10PacketMeter, n)
    BY CreatedLags DEF DirectionBytesCountFirst10PacketMeter
  <2>5. \A m : Lags(m, n) => Lags(DirectionBytesCountFirst10Packet(m, flow, p), n + 1)
    BY DirectionsLag
  <2>. QED
    BY <2>1, <2>2, <2>3, <2>4, <2>5 DEF AddsAlways
<1>14. CASE name \in {"ByteFrequencyFirst8PacketsMeter", "FirstBitPositionsMeter"}
  <2>1. \A m, k : Adds(name, m, k)
    BY <1>14 DEF Adds, ByteSums, PairSums, DirectionSums
  <2>. QED
    BY <2>1 DEF AddsAlways
<1>. QED
  BY <1>1, <1>2, <1>3, <1>4, <1>5, <1>6, <1>7, <1>8, <1>9, <1>10, <1>11, <1>12, <1>13, <1>14 DEF Registered

-------------------------------------------------------------------------------
(* Subsequences *)

(* The recursion of Subsequence, up to n.                                  *)
Filtered(g, s, keep, n) ==
  g[0] = << >> /\ \A k \in 1 .. n : g[k] = IF k \in keep THEN Append(g[k - 1], s[k]) ELSE g[k - 1]

(* By induction on n.                                                      *)
LEMMA FilterExists ==
  ASSUME NEW s, NEW keep, NEW n \in Nat
  PROVE  \E g : Filtered(g, s, keep, n)
<1>. DEFINE Ok == {k \in 0 .. n : \E g : Filtered(g, s, keep, k)}
<1>1. 0 \in Ok
  <2>1. Filtered([k \in {0} |-> << >>], s, keep, 0)
    BY DEF Filtered
  <2>. QED
    BY <2>1
<1>2. ASSUME NEW k \in 1 .. n, k - 1 \in Ok
      PROVE  k \in Ok
  <2>1. PICK g : Filtered(g, s, keep, k - 1)
    BY <1>2
  <2>. PICK last : last = IF k \in keep THEN Append(g[k - 1], s[k]) ELSE g[k - 1]
    OBVIOUS
  <2>. DEFINE h == [i \in 0 .. k |-> IF i = k THEN last ELSE g[i]]
  <2>2. h[k] = last /\ \A i \in 0 .. k - 1 : h[i] = g[i]
    OBVIOUS
  <2>3. 0 \in 0 .. k - 1 /\ k - 1 \in 0 .. k - 1
        /\ \A i \in 1 .. k : i = k \/ (i \in 1 .. k - 1 /\ i \in 0 .. k - 1 /\ i - 1 \in 0 .. k - 1)
    OBVIOUS
  <2>. HIDE DEF h
  <2>4. Filtered(h, s, keep, k)
    BY <2>1, <2>2, <2>3 DEF Filtered
  <2>. QED
    BY <2>4
<1>. HIDE DEF Ok
<1>3. \A k \in 0 .. n : k \in Ok
  BY <1>1, <1>2, UpTo
<1>4. n \in Ok
  BY <1>3
<1>. QED
  BY <1>4 DEF Ok

(* So the recursive function is what it says.                              *)
LEMMA SubsequenceFiltered ==
  ASSUME NEW s, Len(s) \in Nat, NEW keep
  PROVE  \E g : Filtered(g, s, keep, Len(s)) /\ Subsequence(s, keep) = g[Len(s)]
<1>. DEFINE N == Len(s)
            Step(h, k) == IF k = 0 THEN << >>
                          ELSE IF k \in keep THEN Append(h[k - 1], s[k]) ELSE h[k - 1]
            upTo == CHOOSE h : h = [k \in 0 .. N |-> Step(h, k)]
<1>1. Subsequence(s, keep) = upTo[N]
  BY DEF Subsequence
<1>2. PICK g : Filtered(g, s, keep, N)
  BY FilterExists
<1>. HIDE DEF N
<1>0. N \in Nat
  BY DEF N
<1>3. \E h : h = [k \in 0 .. N |-> Step(h, k)]
  <2>. DEFINE h == [k \in 0 .. N |-> g[k]]
  <2>1. \A k \in 0 .. N : h[k] = g[k]
    OBVIOUS
  <2>2. ASSUME NEW k \in 0 .. N PROVE h[k] = Step(h, k)
    <3>1. CASE k = 0
      BY <1>2, <2>1, <3>1 DEF Filtered
    <3>2. CASE k # 0
      <4>1. k \in 1 .. N /\ k - 1 \in 0 .. N
        BY <3>2, <1>0
      <4>2. h[k - 1] = g[k - 1] /\ h[k] = g[k]
        BY <2>1, <4>1
      <4>3. g[k] = IF k \in keep THEN Append(g[k - 1], s[k]) ELSE g[k - 1]
        BY <1>2, <4>1 DEF Filtered
      <4>. HIDE DEF h
      <4>. QED
        BY <3>2, <4>2, <4>3
    <3>. QED
      BY <3>1, <3>2
  <2>3. h = [k \in 0 .. N |-> Step(h, k)]
    <3>1. h = [k \in 0 .. N |-> h[k]]
      OBVIOUS
    <3>. HIDE DEF h, Step
    <3>. QED
      BY <2>2, <3>1
  <2>. QED
    BY <2>3
<1>4. upTo = [k \in 0 .. N |-> Step(upTo, k)]
  <2>. HIDE DEF Step
  <2>. QED
    BY <1>3
<1>. HIDE DEF upTo
<1>5. upTo[0] = << >> /\ \A k \in 1 .. N : upTo[k] = Step(upTo, k)
  <2>1. 0 \in 0 .. N /\ \A k \in 1 .. N : k \in 0 .. N
    BY <1>0
  <2>2. \A k \in 0 .. N : upTo[k] = Step(upTo, k)
    <3>. HIDE DEF Step
    <3>. QED
      BY <1>4
  <2>3. Step(upTo, 0) = << >>
    OBVIOUS
  <2>. HIDE DEF Step
  <2>. QED
    BY <2>1, <2>2, <2>3
<1>6. Filtered(upTo, s, keep, N)
  <2>1. ASSUME NEW k \in 1 .. N
        PROVE  Step(upTo, k) = IF k \in keep THEN Append(upTo[k - 1], s[k]) ELSE upTo[k - 1]
    OBVIOUS
  <2>. HIDE DEF Step
  <2>. QED
    BY <1>5, <2>1 DEF Filtered
<1>. QED
  BY <1>1, <1>6 DEF N

FromPlaces(r, s, keep) ==
  AnySeq(r) /\ \A i \in DOMAIN r : \E j \in DOMAIN s \cap keep : r[i] = s[j]

(* It is a sequence of what is in s at the places in keep.                 *)
LEMMA SubsequenceIs ==
  ASSUME NEW s, AnySeq(s), NEW keep
  PROVE  FromPlaces(Subsequence(s, keep), s, keep)
<1>1. Len(s) \in Nat /\ DOMAIN s = 1 .. Len(s)
  BY SeqIsAny DEF AnySeq
<1>. PICK N : N = Len(s)
  OBVIOUS
<1>2. PICK g : Filtered(g, s, keep, N) /\ Subsequence(s, keep) = g[N]
  BY <1>1, SubsequenceFiltered
<1>. DEFINE Ok == {k \in 0 .. N : FromPlaces(g[k], s, keep)}
<1>3. 0 \in Ok
  BY <1>1, <1>2, EmptyIsAny DEF Filtered, FromPlaces
<1>4. ASSUME NEW k \in 1 .. N, k - 1 \in Ok
      PROVE  k \in Ok
  <2>. PICK r : r = g[k - 1]
    OBVIOUS
  <2>1. FromPlaces(r, s, keep) /\ k \in DOMAIN s
    BY <1>1, <1>4
  <2>2. g[k] = IF k \in keep THEN Append(r, s[k]) ELSE r
    BY <1>2, <1>4 DEF Filtered
  <2>3. k \in keep => FromPlaces(Append(r, s[k]), s, keep)
    <3>. PICK e : e = s[k]
      OBVIOUS
    <3>1. AnySeq(r)
      BY <2>1 DEF FromPlaces
    <3>. PICK t : t = Append(r, e)
      OBVIOUS
    <3>2. /\ AnySeq(t) /\ DOMAIN r = 1 .. Len(r) /\ Len(r) \in Nat /\ DOMAIN t = 1 .. Len(r) + 1
          /\ \A i \in DOMAIN r : t[i] = r[i]
          /\ t[Len(r) + 1] = e
      BY <3>1, AppendAny
    <3>3. \A i \in DOMAIN t : i \in DOMAIN r \/ i = Len(r) + 1
      BY <3>2
    <3>. QED
      BY <2>1, <3>2, <3>3 DEF FromPlaces
  <2>4. FromPlaces(g[k], s, keep)
    BY <2>1, <2>2, <2>3
  <2>. QED
    BY <2>4
<1>. HIDE DEF Ok
<1>5. \A k \in 0 .. N : k \in Ok
  BY <1>1, <1>3, <1>4, UpTo
<1>6. N \in Ok
  BY <1>1, <1>5
<1>. QED
  BY <1>2, <1>6 DEF Ok

(* What is at two places of a subsequence is at two places of the sequence *)
(* in the same order.                                                      *)
InOrder(r, s, keep, n) ==
  \A i, j \in DOMAIN r : i < j =>
    \E p, q \in keep : /\ p \in 1 .. n /\ q \in 1 .. n /\ p < q
                       /\ r[i] = s[p] /\ r[j] = s[q]
ComesFrom(r, s, keep, n) == AnySeq(r) /\ \A i \in DOMAIN r : \E p \in keep : p \in 1 .. n /\ r[i] = s[p]

LEMMA SubsequenceInOrder ==
  ASSUME NEW s, AnySeq(s), NEW keep
  PROVE  InOrder(Subsequence(s, keep), s, keep, Len(s))
<1>1. Len(s) \in Nat /\ DOMAIN s = 1 .. Len(s)
  BY SeqIsAny DEF AnySeq
<1>. PICK N : N = Len(s)
  OBVIOUS
<1>2. PICK g : Filtered(g, s, keep, N) /\ Subsequence(s, keep) = g[N]
  BY <1>1, SubsequenceFiltered
<1>. DEFINE Ok == {k \in 0 .. N : InOrder(g[k], s, keep, k) /\ ComesFrom(g[k], s, keep, k)}
<1>3. 0 \in Ok
  BY <1>1, <1>2, EmptyIsAny DEF Filtered, InOrder, ComesFrom
<1>4. ASSUME NEW k \in 1 .. N, k - 1 \in Ok
      PROVE  k \in Ok
  <2>. PICK r, m : r = g[k - 1] /\ m = k - 1
    OBVIOUS
  <2>1. InOrder(r, s, keep, m) /\ ComesFrom(r, s, keep, m)
    BY <1>4
  <2>2. g[k] = IF k \in keep THEN Append(r, s[k]) ELSE r
    BY <1>2, <1>4 DEF Filtered
  <2>3. \A p : p \in 1 .. m => p \in 1 .. k /\ p < k
    BY <1>1
  <2>4. k \in 1 .. k
    BY <1>1
  <2>5. InOrder(r, s, keep, k) /\ ComesFrom(r, s, keep, k)
    BY <2>1, <2>3 DEF InOrder, ComesFrom
  <2>6. ASSUME k \in keep
        PROVE  InOrder(Append(r, s[k]), s, keep, k) /\ ComesFrom(Append(r, s[k]), s, keep, k)
    <3>. PICK e : e = s[k]
      OBVIOUS
    <3>. PICK t : t = Append(r, e)
      OBVIOUS
    <3>1. AnySeq(r)
      BY <2>1 DEF ComesFrom
    <3>2. /\ AnySeq(t) /\ DOMAIN r = 1 .. Len(r) /\ Len(r) \in Nat /\ DOMAIN t = 1 .. Len(r) + 1
          /\ \A i \in DOMAIN r : t[i] = r[i]
          /\ t[Len(r) + 1] = e
      BY <3>1, AppendAny
    <3>3. /\ \A i \in DOMAIN t : i \in DOMAIN r \/ i = Len(r) + 1
          /\ \A i, j \in DOMAIN t : i < j => i \in DOMAIN r
      BY <3>2
    <3>4. ASSUME NEW i \in DOMAIN t, NEW j \in DOMAIN t, i < j
          PROVE  \E p, q \in keep : /\ p \in 1 .. k /\ q \in 1 .. k /\ p < q
                                    /\ t[i] = s[p] /\ t[j] = s[q]
      <4>1. i \in DOMAIN r /\ t[i] = r[i]
        BY <3>2, <3>3, <3>4
      <4>2. CASE j \in DOMAIN r
        BY <2>5, <3>2, <3>4, <4>1, <4>2 DEF InOrder
      <4>3. CASE j = Len(r) + 1
        <5>1. PICK p \in keep : p \in 1 .. m /\ r[i] = s[p]
          BY <2>1, <4>1 DEF ComesFrom
        <5>. QED
          BY <2>3, <2>4, <2>6, <3>2, <4>1, <4>3, <5>1
      <4>. QED
        BY <3>3, <4>2, <4>3
    <3>5. ASSUME NEW i \in DOMAIN t PROVE \E p \in keep : p \in 1 .. k /\ t[i] = s[p]
      BY <2>4, <2>5, <2>6, <3>2, <3>3 DEF ComesFrom
    <3>6. InOrder(t, s, keep, k)
      BY <3>4 DEF InOrder
    <3>7. ComesFrom(t, s, keep, k)
      BY <3>2, <3>5 DEF ComesFrom
    <3>. QED
      BY <3>6, <3>7
  <2>7. InOrder(g[k], s, keep, k) /\ ComesFrom(g[k], s, keep, k)
    BY <2>2, <2>5, <2>6
  <2>. QED
    BY <2>7
<1>. HIDE DEF Ok
<1>5. \A k \in 0 .. N : k \in Ok
  BY <1>1, <1>3, <1>4, UpTo
<1>6. N \in Ok
  BY <1>1, <1>5
<1>. QED
  BY <1>2, <1>6 DEF Ok

-------------------------------------------------------------------------------
(* Sequences one after the other *)

(* r is s with t behind it.                                                *)
Follows(r, s, t) ==
  /\ AnySeq(r) /\ Len(r) = Len(s) + Len(t) /\ DOMAIN r = 1 .. Len(s) + Len(t)
  /\ DOMAIN s = 1 .. Len(s) /\ DOMAIN t = 1 .. Len(t) /\ Len(s) \in Nat /\ Len(t) \in Nat
  /\ \A i \in DOMAIN s : r[i] = s[i]
  /\ \A i \in DOMAIN t : r[Len(s) + i] = t[i]

LEMMA ConcatAny ==
  ASSUME NEW s, AnySeq(s), NEW t, AnySeq(t)
  PROVE  Follows(s \o t, s, t)
<1>. DEFINE S == {s[i] : i \in DOMAIN s} \cup {t[i] : i \in DOMAIN t}
<1>1. s \in Seq(S) /\ t \in Seq(S)
  BY SeqMonotonic DEF AnySeq
<1>. HIDE DEF S
<1>2. DOMAIN s = 1 .. Len(s) /\ DOMAIN t = 1 .. Len(t) /\ Len(s) \in Nat /\ Len(t) \in Nat
  BY <1>1, LenProperties
<1>3. /\ s \o t \in Seq(S)
      /\ Len(s \o t) = Len(s) + Len(t)
      /\ \A i \in 1 .. Len(s) + Len(t) :
           (s \o t)[i] = IF i <= Len(s) THEN s[i] ELSE t[i - Len(s)]
  BY <1>1, ConcatProperties
<1>4. AnySeq(s \o t) /\ DOMAIN (s \o t) = 1 .. Len(s) + Len(t)
  BY <1>3, SeqIsAny
<1>5. ASSUME NEW i \in DOMAIN s PROVE (s \o t)[i] = s[i]
  BY <1>2, <1>3
<1>6. ASSUME NEW i \in DOMAIN t PROVE (s \o t)[Len(s) + i] = t[i]
  <2>1. /\ Len(s) + i \in 1 .. Len(s) + Len(t) /\ ~(Len(s) + i <= Len(s))
        /\ Len(s) + i - Len(s) = i
    BY <1>2
  <2>. QED
    BY <1>3, <2>1
<1>. QED
  BY <1>2, <1>3, <1>4, <1>5, <1>6 DEF Follows

(* The recursion of Joined, up to n.                                       *)
Chained(g, parts, n) ==
  g[0] = << >> /\ \A k \in 1 .. n : g[k] = g[k - 1] \o parts[k]

(* By induction on n.                                                      *)
LEMMA ChainedExists ==
  ASSUME NEW parts, NEW n \in Nat
  PROVE  \E g : Chained(g, parts, n)
<1>. DEFINE Ok == {k \in 0 .. n : \E g : Chained(g, parts, k)}
<1>1. 0 \in Ok
  <2>1. Chained([k \in {0} |-> << >>], parts, 0)
    BY DEF Chained
  <2>. QED
    BY <2>1
<1>2. ASSUME NEW k \in 1 .. n, k - 1 \in Ok
      PROVE  k \in Ok
  <2>1. PICK g : Chained(g, parts, k - 1)
    BY <1>2
  <2>. PICK last : last = g[k - 1] \o parts[k]
    OBVIOUS
  <2>. DEFINE h == [i \in 0 .. k |-> IF i = k THEN last ELSE g[i]]
  <2>2. h[k] = last /\ \A i \in 0 .. k - 1 : h[i] = g[i]
    OBVIOUS
  <2>3. 0 \in 0 .. k - 1 /\ k - 1 \in 0 .. k - 1
        /\ \A i \in 1 .. k : i = k \/ (i \in 1 .. k - 1 /\ i \in 0 .. k - 1 /\ i - 1 \in 0 .. k - 1)
    OBVIOUS
  <2>. HIDE DEF h
  <2>4. Chained(h, parts, k)
    BY <2>1, <2>2, <2>3 DEF Chained
  <2>. QED
    BY <2>4
<1>. HIDE DEF Ok
<1>3. \A k \in 0 .. n : k \in Ok
  BY <1>1, <1>2, UpTo
<1>4. n \in Ok
  BY <1>3
<1>. QED
  BY <1>4 DEF Ok

(* So the recursive function is what it says.                              *)
LEMMA JoinedChained ==
  ASSUME NEW parts, Len(parts) \in Nat
  PROVE  \E g : Chained(g, parts, Len(parts)) /\ Joined(parts) = g[Len(parts)]
<1>. DEFINE N == Len(parts)
            Step(h, k) == IF k = 0 THEN << >> ELSE h[k - 1] \o parts[k]
            upTo == CHOOSE h : h = [k \in 0 .. N |-> Step(h, k)]
<1>1. Joined(parts) = upTo[N]
  BY DEF Joined
<1>2. PICK g : Chained(g, parts, N)
  BY ChainedExists
<1>. HIDE DEF N
<1>0. N \in Nat
  BY DEF N
<1>3. \E h : h = [k \in 0 .. N |-> Step(h, k)]
  <2>. DEFINE h == [k \in 0 .. N |-> g[k]]
  <2>1. \A k \in 0 .. N : h[k] = g[k]
    OBVIOUS
  <2>2. ASSUME NEW k \in 0 .. N PROVE h[k] = Step(h, k)
    <3>1. CASE k = 0
      BY <1>2, <2>1, <3>1 DEF Chained
    <3>2. CASE k # 0
      <4>1. k \in 1 .. N /\ k - 1 \in 0 .. N
        BY <3>2, <1>0
      <4>2. h[k - 1] = g[k - 1] /\ h[k] = g[k]
        BY <2>1, <4>1
      <4>3. g[k] = g[k - 1] \o parts[k]
        BY <1>2, <4>1 DEF Chained
      <4>. HIDE DEF h
      <4>. QED
        BY <3>2, <4>2, <4>3
    <3>. QED
      BY <3>1, <3>2
  <2>3. h = [k \in 0 .. N |-> Step(h, k)]
    <3>1. h = [k \in 0 .. N |-> h[k]]
      OBVIOUS
    <3>. HIDE DEF h, Step
    <3>. QED
      BY <2>2, <3>1
  <2>. QED
    BY <2>3
<1>4. upTo = [k \in 0 .. N |-> Step(upTo, k)]
  <2>. HIDE DEF Step
  <2>. QED
    BY <1>3
<1>. HIDE DEF upTo
<1>5. upTo[0] = << >> /\ \A k \in 1 .. N : upTo[k] = Step(upTo, k)
  <2>1. 0 \in 0 .. N /\ \A k \in 1 .. N : k \in 0 .. N
    BY <1>0
  <2>2. \A k \in 0 .. N : upTo[k] = Step(upTo, k)
    <3>. HIDE DEF Step
    <3>. QED
      BY <1>4
  <2>3. Step(upTo, 0) = << >>
    OBVIOUS
  <2>. HIDE DEF Step
  <2>. QED
    BY <2>1, <2>2, <2>3
<1>6. Chained(upTo, parts, N)
  <2>1. ASSUME NEW k \in 1 .. N
        PROVE  Step(upTo, k) = upTo[k - 1] \o parts[k]
    <3>1. k # 0
      BY <1>0
    <3>. QED
      BY <3>1, Zenon
  <2>. HIDE DEF Step
  <2>. QED
    BY <1>5, <2>1 DEF Chained
<1>. QED
  BY <1>1, <1>6 DEF N

-------------------------------------------------------------------------------
(* Models and files of the types they are read with *)

IsMeter(m) ==
  /\ m = [name |-> m.name, flowCount |-> m.flowCount, enabled |-> m.enabled,
          fingerprint |-> m.fingerprint]
  /\ m.flowCount \in Int /\ m.enabled \in BOOLEAN /\ m.name \in Registered
  /\ IsFingerPrint(m.fingerprint) /\ m.fingerprint.size = Create(m.name).size
IsModel(m) ==
  /\ m = [name |-> m.name, flowCount |-> m.flowCount, enabled |-> m.enabled,
          portHints |-> m.portHints, meters |-> m.meters]
  /\ m.flowCount \in Int /\ AnySeq(m.portHints)
  /\ AnySeq(m.meters) /\ \A i \in DOMAIN m.meters : IsMeter(m.meters[i])
IsModels(s) == AnySeq(s) /\ \A i \in DOMAIN s : IsModel(s[i])

(* A sequence stays one when each of its elements changes.                 *)
LEMMA MapAny ==
  ASSUME NEW s, AnySeq(s), NEW t, t = [i \in DOMAIN s |-> t[i]]
  PROVE  AnySeq(t) /\ Len(t) = Len(s)
<1>. DEFINE S == {t[i] : i \in DOMAIN s}
<1>1. DOMAIN s = 1 .. Len(s) /\ Len(s) \in Nat
  BY SeqIsAny DEF AnySeq
<1>2. t \in [1 .. Len(s) -> S]
  BY <1>1
<1>. HIDE DEF S
<1>3. t \in Seq(S)
  BY <1>1, <1>2, SeqDef
<1>4. DOMAIN t = 1 .. Len(t) /\ Len(t) \in Nat /\ AnySeq(t)
  BY <1>3, SeqIsAny
<1>5. DOMAIN t = 1 .. Len(s)
  BY <1>2
<1>6. Len(t) = Len(s)
  BY <1>1, <1>4, <1>5
<1>. QED
  BY <1>4, <1>6

(* _readAttributeMeter makes meters of what is typed as it asks for.       *)
LEMMA MeterRead ==
  ASSUME NEW node, TypedMeter(node), MeterIsValid(node)
  PROVE  IsMeter(ReadAttributeMeter(node))
<1>. PICK m : m = ReadAttributeMeter(node)
  OBVIOUS
<1>1. /\ m = [name |-> m.name, flowCount |-> m.flowCount, enabled |-> m.enabled,
              fingerprint |-> m.fingerprint]
      /\ m.name = node["AttributeName"] /\ m.fingerprint = node["FingerPrint"]
      /\ m.flowCount = Optional(node, "FlowCount", 0) /\ m.enabled \in BOOLEAN
  BY DEF ReadAttributeMeter
<1>2. /\ node["AttributeName"] \in Registered
      /\ node["FingerPrint"].size = Create(node["AttributeName"]).size
      /\ IsFingerPrint(node["FingerPrint"]) /\ Optional(node, "FlowCount", 0) \in Int
  BY DEF TypedMeter, TypedCount, MeterIsValid
<1>. QED
  BY <1>1, <1>2 DEF IsMeter

(* Merging changes the probabilities and not their number.                 *)
LEMMA MergedIs ==
  ASSUME NEW f, IsFingerPrint(f), NEW n, NEW other
  PROVE  LET g == Merge(f, n, other) IN IsFingerPrint(g) /\ g.size = f.size
<1>. PICK g : g = Merge(f, n, other)
  OBVIOUS
<1>1. PICK x, y : g = [f EXCEPT !.fp = x, !.total = y]
  BY DEF Merge
<1>2. f = [size |-> f.size, fp |-> f.fp, total |-> f.total]
  BY DEF IsFingerPrint
<1>3. g = [size |-> f.size, fp |-> x, total |-> y]
  BY <1>1, <1>2
<1>. QED
  BY <1>3 DEF IsFingerPrint

(* _readProtocolModel makes models of such nodes.                          *)
LEMMA ModelRead ==
  ASSUME NEW node, TypedModel(node), ModelIsValid(node)
  PROVE  IsModel(ReadProtocolModel(node))
<1>. DEFINE nodes == node["AttributeMeters"]
            meters == [i \in DOMAIN nodes |-> ReadAttributeMeter(nodes[i])]
<1>1. nodes = Optional(node, "AttributeMeters", << >>)
  BY DEF ModelIsValid, Optional
<1>2. AnySeq(nodes) /\ \A i \in DOMAIN nodes : TypedMeter(nodes[i]) /\ MeterIsValid(nodes[i])
  BY <1>1 DEF TypedModel, IsList, AnySeq, ModelIsValid
<1>3. Optional(node, "FlowCount", 0) \in Int /\ AnySeq(Optional(node, "PortHints", << >>))
  BY DEF TypedModel, TypedCount, IsList, AnySeq
<1>. HIDE DEF nodes
<1>4. AnySeq(meters)
  <2>. PICK t : t = meters
    OBVIOUS
  <2>1. t = [i \in DOMAIN nodes |-> t[i]]
    OBVIOUS
  <2>2. AnySeq(t)
    BY <1>2, <2>1, MapAny
  <2>. QED
    BY <2>2
<1>5. \A i \in DOMAIN meters : IsMeter(meters[i])
  BY <1>2, MeterRead
<1>6. /\ ReadProtocolModel(node).meters = meters
      /\ ReadProtocolModel(node).flowCount = Optional(node, "FlowCount", 0)
      /\ ReadProtocolModel(node).portHints = Optional(node, "PortHints", << >>)
      /\ LET m == ReadProtocolModel(node)
         IN  m = [name |-> m.name, flowCount |-> m.flowCount, enabled |-> m.enabled,
                  portHints |-> m.portHints, meters |-> m.meters]
  BY DEF ReadProtocolModel, nodes
<1>. HIDE DEF meters
<1>. QED
  BY <1>3, <1>4, <1>5, <1>6 DEF IsModel

(* The models of a typed list are models.                                  *)
LEMMA ModelsRead ==
  ASSUME NEW nodes, AnySeq(nodes), \A i \in DOMAIN nodes : TypedModel(nodes[i])
  PROVE  IsModels(ReadModels(nodes))
<1>1. PICK keep : /\ keep \subseteq {i \in DOMAIN nodes : ModelIsValid(nodes[i])}
                  /\ ReadModels(nodes) = [i \in DOMAIN Subsequence(nodes, keep) |->
                                            ReadProtocolModel(Subsequence(nodes, keep)[i])]
  <2>. DEFINE known(i) == \E j \in 1 .. i - 1 :
                ModelIsValid(nodes[j]) /\ nodes[j]["ProtocolName"] = nodes[i]["ProtocolName"]
  <2>. PICK keep : keep = {i \in DOMAIN nodes : ModelIsValid(nodes[i]) /\ ~known(i)}
    OBVIOUS
  <2>1. ReadModels(nodes) = [i \in DOMAIN Subsequence(nodes, keep) |->
                               ReadProtocolModel(Subsequence(nodes, keep)[i])]
    BY DEF ReadModels
  <2>2. keep \subseteq {i \in DOMAIN nodes : ModelIsValid(nodes[i])}
    OBVIOUS
  <2>. QED
    BY <2>1, <2>2
<1>. PICK kept : kept = Subsequence(nodes, keep)
  OBVIOUS
<1>. PICK models : models = [i \in DOMAIN kept |-> ReadProtocolModel(kept[i])]
  OBVIOUS
<1>2. FromPlaces(kept, nodes, keep)
  BY SubsequenceIs
<1>3. AnySeq(kept)
  BY <1>2 DEF FromPlaces
<1>4. AnySeq(models)
  <2>1. models = [i \in DOMAIN kept |-> models[i]]
    OBVIOUS
  <2>. QED
    BY <1>3, <2>1, MapAny
<1>5. ASSUME NEW i \in DOMAIN models PROVE IsModel(models[i])
  <2>1. PICK j \in DOMAIN nodes \cap keep : kept[i] = nodes[j]
    BY <1>2 DEF FromPlaces
  <2>2. IsModel(ReadProtocolModel(nodes[j]))
    BY <1>1, ModelRead
  <2>. QED
    BY <2>1, <2>2
<1>. QED
  BY <1>1, <1>4, <1>5 DEF IsModels

IsDb(d) ==
  d = [initialised |-> d.initialised, definingLimit |-> d.definingLimit,
       cutoffLimit |-> d.cutoffLimit, modifiedTimes |-> d.modifiedTimes, models |-> d.models,
       portHintOrder |-> d.portHintOrder, enabledAttributes |-> d.enabledAttributes]

(* What else read() assigns.                                               *)
IsTypedDb(d) ==
  /\ IsDb(d) /\ IsModels(d.models) /\ d.definingLimit \in Int /\ d.cutoffLimit \in Int
  /\ ~(d.cutoffLimit > 0 /\ d.cutoffLimit <= d.definingLimit)

(* So a typed file makes a typed database.                                 *)
LEMMA DbRead ==
  ASSUME NEW content, WellTyped(content), Has(content, "DefiningLimit"),
         Has(content, "CutoffLimit"), NEW now
  PROVE  IsTypedDb(ReadDb(content, now))
<1>. PICK nodes : nodes = Optional(content, "ProtocolModels", << >>)
  OBVIOUS
<1>1. AnySeq(nodes) /\ \A i \in DOMAIN nodes : TypedModel(nodes[i])
  BY DEF WellTyped, IsList, AnySeq
<1>2. IsModels(ReadModels(nodes))
  BY <1>1, ModelsRead
<1>3. content["DefiningLimit"] \in Int /\ content["CutoffLimit"] \in Int
  BY DEF WellTyped, Optional
<1>4. /\ Cutoff(content) \in Int
      /\ ~(Cutoff(content) > 0 /\ Cutoff(content) <= content["DefiningLimit"])
  BY <1>3 DEF Cutoff
<1>. PICK models : models = ReadModels(nodes)
  OBVIOUS
<1>5. /\ IsDb(ReadDb(content, now)) /\ ReadDb(content, now).models = models
      /\ ReadDb(content, now).definingLimit = content["DefiningLimit"]
      /\ ReadDb(content, now).cutoffLimit = Cutoff(content)
  BY DEF ReadDb, IsDb
<1>. QED
  BY <1>2, <1>3, <1>4, <1>5 DEF IsTypedDb

(* The models up to n are in a, by name, or in b.                          *)
Shared(a, b, models, n) ==
  /\ AnySeq(a) /\ AnySeq(b) /\ Len(a) + Len(b) = n
  /\ \A i \in 1 .. n : (\E j \in DOMAIN a : a[j] = models[i].name) \/ \E j \in DOMAIN b : b[j] = models[i]
  /\ \A j \in DOMAIN a : \E i \in DOMAIN models : a[j] = models[i].name
  /\ \A j \in DOMAIN b : \E i \in DOMAIN models : b[j] = models[i]

(* So the order of a port at which no model hints twice has the name of    *)
(* every model, and is as long as the list of models.                      *)
IsOrder(order, models) ==
  /\ AnySeq(order) /\ Len(order) = Len(models)
  /\ \A i \in DOMAIN models : \E j \in DOMAIN order : order[j] = models[i].name
  /\ \A j \in DOMAIN order : \E i \in DOMAIN models : order[j] = models[i].name

(* All that hint, then the names of all that do not.                        *)
LEMMA SharedIsOrder ==
  ASSUME NEW models, NEW N, N = Len(models), DOMAIN models = 1 .. N,
         NEW a, NEW b, NEW c, NEW order,
         Shared(a, b, models, N), Follows(order, a, c), Len(c) = Len(b),
         DOMAIN c = DOMAIN b, \A j \in DOMAIN c : c[j] = b[j].name
  PROVE  IsOrder(order, models)
<1>1. ASSUME NEW i \in DOMAIN models PROVE \E j \in DOMAIN order : order[j] = models[i].name
  <2>1. CASE \E j \in DOMAIN a : a[j] = models[i].name
    <3>1. PICK j \in DOMAIN a : a[j] = models[i].name
      BY <2>1
    <3>2. order[j] = a[j]
      BY <3>1 DEF Follows
    <3>3. j \in DOMAIN order
      BY <3>1 DEF Follows
    <3>. QED
      BY <3>1, <3>2, <3>3
  <2>2. CASE \E j \in DOMAIN b : b[j] = models[i]
    <3>1. PICK j \in DOMAIN b : b[j] = models[i]
      BY <2>2
    <3>2. c[j] = models[i].name /\ order[Len(a) + j] = c[j]
      BY <3>1 DEF Follows
    <3>3. Len(a) + j \in DOMAIN order
      BY <3>1 DEF Follows
    <3>. QED
      BY <3>2, <3>3
  <2>3. i \in 1 .. N
    OBVIOUS
  <2>. QED
    BY <2>1, <2>2, <2>3 DEF Shared
<1>2. ASSUME NEW j \in DOMAIN order PROVE \E i \in DOMAIN models : order[j] = models[i].name
  <2>1. CASE j \in DOMAIN a
    <3>1. order[j] = a[j]
      BY <2>1 DEF Follows
    <3>. QED
      BY <2>1, <3>1 DEF Shared
  <2>2. CASE j \notin DOMAIN a
    <3>1. j - Len(a) \in DOMAIN c /\ j = Len(a) + (j - Len(a))
      BY <2>2 DEF Follows
    <3>2. PICK i \in DOMAIN c : j = Len(a) + i
      BY <3>1
    <3>3. order[j] = c[i]
      BY <3>2 DEF Follows
    <3>4. order[j] = b[i].name /\ i \in DOMAIN b
      BY <3>2, <3>3
    <3>. QED
      BY <3>4 DEF Shared
  <2>. QED
    BY <2>1, <2>2
<1>3. AnySeq(order) /\ Len(order) = Len(models)
  <2>1. Len(order) = Len(a) + Len(b)
    BY DEF Follows
  <2>2. Len(a) + Len(b) = N
    BY DEF Shared
  <2>. QED
    BY <2>1, <2>2 DEF Follows
<1>. QED
  BY <1>1, <1>2, <1>3 DEF IsOrder

LEMMA HintingFirst ==
  ASSUME NEW models, AnySeq(models), NEW N, N = Len(models), NEW a, NEW b, Shared(a, b, models, N)
  PROVE  IsOrder(a \o [i \in DOMAIN b |-> b[i].name], models)
<1>1. DOMAIN models = 1 .. N
  BY SeqIsAny DEF AnySeq
<1>. DEFINE c == [i \in DOMAIN b |-> b[i].name]
<1>2. AnySeq(a) /\ AnySeq(c) /\ Len(c) = Len(b)
  BY MapAny DEF Shared
<1>3. DOMAIN c = DOMAIN b /\ \A j \in DOMAIN c : c[j] = b[j].name
  OBVIOUS
<1>. HIDE DEF c
<1>4. Follows(a \o c, a, c)
  BY <1>2, ConcatAny
<1>5. IsOrder(a \o c, models)
  BY <1>1, <1>2, <1>3, <1>4, SharedIsOrder
<1>. QED
  BY <1>5 DEF c

(* As often as the code says, the same name.                               *)
Repeated(name, n) == [h \in 1 .. n |-> name]

LEMMA SameName ==
  ASSUME NEW n \in Nat, NEW name
  PROVE  /\ AnySeq(Repeated(name, n)) /\ Len(Repeated(name, n)) = n
         /\ \A h \in 1 .. n : Repeated(name, n)[h] = name
<1>. PICK p : p = Repeated(name, n)
  OBVIOUS
<1>1. p \in [1 .. n -> {name}]
  BY DEF Repeated
<1>2. DOMAIN p = 1 .. n /\ \A h \in 1 .. n : p[h] = name
  BY DEF Repeated
<1>3. p \in Seq({name})
  BY <1>1, SeqDef
<1>4. AnySeq(p) /\ Len(p) \in Nat /\ DOMAIN p = 1 .. Len(p)
  BY <1>3, SeqIsAny
<1>5. Len(p) = n
  BY <1>2, <1>4
<1>. QED
  BY <1>2, <1>4, <1>5

(* One model more is in one of the two.                                    *)
LEMMA OneModelMore ==
  ASSUME NEW models, AnySeq(models), NEW k \in DOMAIN models, NEW a, NEW b,
         Shared(a, b, models, k - 1), NEW c, NEW p, Follows(c, a, p), NEW d, NEW q,
         \/ Len(p) = 1 /\ p[1] = models[k].name /\ d = b
         \/ Len(p) = 0 /\ Follows(d, b, q) /\ Len(q) = 1 /\ q[1] = models[k]
  PROVE  Shared(c, d, models, k)
<1>0. k \in Nat /\ \A i : i \in 1 .. k => i \in 1 .. k - 1 \/ i = k
  BY SeqIsAny DEF AnySeq
<1>1. /\ AnySeq(a) /\ AnySeq(b) /\ Len(a) + Len(b) = k - 1
      /\ DOMAIN b = 1 .. Len(b) /\ Len(b) \in Nat
  BY SeqIsAny DEF Shared, AnySeq
<1>2. /\ AnySeq(c) /\ Len(c) = Len(a) + Len(p) /\ DOMAIN a = 1 .. Len(a) /\ Len(a) \in Nat
      /\ DOMAIN c = 1 .. Len(a) + Len(p) /\ \A i \in DOMAIN a : c[i] = a[i]
      /\ DOMAIN p = 1 .. Len(p) /\ \A i \in DOMAIN p : c[Len(a) + i] = p[i]
  BY DEF Follows
<1>3. CASE Len(p) = 1 /\ p[1] = models[k].name /\ d = b
  <2>1. c[Len(a) + 1] = models[k].name
    BY <1>2, <1>3
  <2>2. Len(c) + Len(d) = k
    BY <1>0, <1>1, <1>2, <1>3
  <2>3. /\ Len(a) + 1 \in DOMAIN c /\ \A i \in DOMAIN a : i \in DOMAIN c
        /\ \A i \in DOMAIN c : i \in DOMAIN a \/ i = Len(a) + 1
    BY <1>2, <1>3
  <2>4. \A i \in 1 .. k : (\E j \in DOMAIN c : c[j] = models[i].name) \/ \E j \in DOMAIN d : d[j] = models[i]
    BY <1>0, <1>2, <1>3, <2>1, <2>3 DEF Shared
  <2>5. \A j \in DOMAIN c : \E i \in DOMAIN models : c[j] = models[i].name
    BY <1>2, <2>1, <2>3 DEF Shared
  <2>6. \A j \in DOMAIN d : \E i \in DOMAIN models : d[j] = models[i]
    BY <1>3 DEF Shared
  <2>. QED
    BY <1>1, <1>2, <1>3, <2>2, <2>4, <2>5, <2>6 DEF Shared
<1>4. CASE Len(p) = 0 /\ Follows(d, b, q) /\ Len(q) = 1 /\ q[1] = models[k]
  <2>1. /\ AnySeq(d) /\ Len(d) = Len(b) + 1
        /\ DOMAIN d = 1 .. Len(b) + 1 /\ (\A i \in DOMAIN b : d[i] = b[i])
        /\ d[Len(b) + 1] = models[k]
    BY <1>1, <1>4 DEF Follows
  <2>2. Len(c) + Len(d) = k /\ DOMAIN c = DOMAIN a
    <3>1. Len(a) + Len(p) = Len(a)
      BY <1>2, <1>4
    <3>2. Len(c) = Len(a) /\ DOMAIN c = DOMAIN a
      BY <1>2, <3>1
    <3>3. /\ Len(c) = Len(a) /\ Len(d) = Len(b) + 1 /\ Len(a) + Len(b) = k - 1
          /\ Len(a) \in Nat /\ Len(b) \in Nat /\ k \in Nat
      BY <1>0, <1>1, <1>2, <2>1, <3>2
    <3>4. Len(c) + Len(d) = k
      BY <3>3
    <3>. QED
      BY <3>2, <3>4
  <2>3. /\ Len(b) + 1 \in DOMAIN d /\ \A i \in DOMAIN b : i \in DOMAIN d
        /\ \A i \in DOMAIN d : i \in DOMAIN b \/ i = Len(b) + 1
    BY <1>1, <2>1
  <2>4. \A i \in 1 .. k : (\E j \in DOMAIN c : c[j] = models[i].name) \/ \E j \in DOMAIN d : d[j] = models[i]
    BY <1>0, <1>2, <2>1, <2>2, <2>3 DEF Shared
  <2>5. \A j \in DOMAIN c : \E i \in DOMAIN models : c[j] = models[i].name
    BY <1>2, <2>2 DEF Shared
  <2>6. \A j \in DOMAIN d : \E i \in DOMAIN models : d[j] = models[i]
    BY <2>1, <2>3 DEF Shared
  <2>. QED
    BY <1>1, <1>2, <2>1, <2>2, <2>4, <2>5, <2>6 DEF Shared
<1>. QED
  BY <1>3, <1>4

(* So the order of a port has everything when no model hints at it twice.  *)
LEMMA OrderIs ==
  ASSUME NEW models, IsModels(models), NEW port, \A i \in DOMAIN models : Hints(models[i], port) <= 1
  PROVE  IsOrder(Hinting(models, port) \o Silent(models, port), models)
<1>. PICK N : N = Len(models)
  OBVIOUS
<1>1. AnySeq(models) /\ N \in Nat /\ DOMAIN models = 1 .. N
  BY SeqIsAny DEF IsModels, AnySeq
<1>2. ASSUME NEW i \in DOMAIN models PROVE Hints(models[i], port) \in {0, 1}
  <2>. PICK hints : hints = models[i].portHints
    OBVIOUS
  <2>1. AnySeq(hints)
    BY DEF IsModels, IsModel
  <2>2. DOMAIN hints = 1 .. Len(hints) /\ Len(hints) \in Nat
    BY <2>1, SeqIsAny DEF AnySeq
  <2>3. {h \in DOMAIN hints : hints[h] = port} \subseteq 1 .. Len(hints)
    BY <2>2
  <2>4. Cardinality({h \in DOMAIN hints : hints[h] = port}) \in Nat
    BY <2>2, <2>3, PlacesFinite
  <2>5. Hints(models[i], port) \in Nat
    BY <2>4 DEF Hints
  <2>. QED
    BY <2>5
<1>. PICK parts : parts = [i \in DOMAIN models |-> [h \in 1 .. Hints(models[i], port) |-> models[i].name]]
  OBVIOUS
<1>. PICK keep : keep = {i \in DOMAIN models : Hints(models[i], port) = 0}
  OBVIOUS
<1>3. Len(parts) = N /\ DOMAIN parts = 1 .. N
  <2>1. parts = [i \in DOMAIN models |-> parts[i]]
    OBVIOUS
  <2>. QED
    BY <1>1, <2>1, MapAny
<1>4. PICK g : Chained(g, parts, N) /\ Joined(parts) = g[N]
  BY <1>1, <1>3, JoinedChained
<1>5. PICK f : Filtered(f, models, keep, N) /\ Subsequence(models, keep) = f[N]
  BY <1>1, SubsequenceFiltered
<1>. DEFINE Ok == {k \in 0 .. N : Shared(g[k], f[k], models, k)}
<1>6. 0 \in Ok
  <2>1. g[0] = << >> /\ f[0] = << >>
    BY <1>4, <1>5 DEF Chained, Filtered
  <2>. PICK e : e = << >>
    OBVIOUS
  <2>2. AnySeq(e) /\ Len(e) = 0 /\ DOMAIN e = {}
    BY EmptyIsAny
  <2>3. Shared(e, e, models, 0)
    BY <2>2 DEF Shared
  <2>. QED
    BY <1>1, <2>1, <2>3
<1>7. ASSUME NEW k \in 1 .. N, k - 1 \in Ok
      PROVE  k \in Ok
  <2>1. Shared(g[k - 1], f[k - 1], models, k - 1) /\ k \in DOMAIN models
    BY <1>1, <1>7
  <2>. PICK a, b, n, p, m : /\ a = g[k - 1] /\ b = f[k - 1] /\ n = Hints(models[k], port)
                            /\ p = parts[k] /\ m = models[k]
    OBVIOUS
  <2>2. n \in {0, 1} /\ (n = 0 <=> k \in keep) /\ p = Repeated(m.name, n)
    BY <1>1, <1>2 DEF Repeated
  <2>3. AnySeq(p) /\ Len(p) = n /\ (n = 1 => p[1] = m.name)
    <3>1. n \in Nat /\ (n = 1 => 1 \in 1 .. n)
      BY <2>2
    <3>2. /\ AnySeq(Repeated(m.name, n)) /\ Len(Repeated(m.name, n)) = n
          /\ \A h \in 1 .. n : Repeated(m.name, n)[h] = m.name
      BY <3>1, SameName
    <3>. QED
      BY <2>2, <3>1, <3>2
  <2>4. AnySeq(a) /\ AnySeq(b)
    BY <2>1 DEF Shared
  <2>5. Follows(g[k], a, p)
    <3>1. g[k] = a \o p
      BY <1>4 DEF Chained
    <3>2. Follows(a \o p, a, p)
      BY <2>3, <2>4, ConcatAny
    <3>. QED
      BY <3>1, <3>2
  <2>. PICK c, d : c = g[k] /\ d = f[k]
    OBVIOUS
  <2>6. Shared(a, b, models, k - 1) /\ Follows(c, a, p)
    BY <2>1, <2>5
  <2>7. CASE n = 1
    <3>1. d = b
      BY <1>5, <2>2, <2>7 DEF Filtered
    <3>2. Len(p) = 1 /\ p[1] = models[k].name
      BY <2>3, <2>7
    <3>3. Shared(c, d, models, k)
      BY <1>1, <2>1, <2>6, <3>1, <3>2, OneModelMore
    <3>. QED
      BY <3>3
  <2>8. CASE n = 0
    <3>. PICK q : q = Repeated(m, 1)
      OBVIOUS
    <3>1. AnySeq(q) /\ Len(q) = 1 /\ DOMAIN q = 1 .. 1 /\ q[1] = m
      <4>. PICK one : one = 1
        OBVIOUS
      <4>1. /\ AnySeq(Repeated(m, one)) /\ Len(Repeated(m, one)) = one
            /\ \A h \in 1 .. one : Repeated(m, one)[h] = m
        BY SameName
      <4>2. DOMAIN Repeated(m, 1) = 1 .. 1
        BY DEF Repeated
      <4>. QED
        BY <4>1, <4>2
    <3>2. d = Append(b, m)
      BY <1>5, <2>2, <2>8 DEF Filtered
    <3>3. /\ AnySeq(d) /\ DOMAIN b = 1 .. Len(b) /\ Len(b) \in Nat /\ Len(d) = Len(b) + 1
          /\ DOMAIN d = 1 .. Len(b) + 1 /\ (\A i \in DOMAIN b : d[i] = b[i])
          /\ d[Len(b) + 1] = m
      BY <2>4, <3>2, AppendAny
    <3>4. Follows(d, b, q)
      <4>1. \A i \in DOMAIN q : i = 1
        BY <3>1
      <4>2. \A i \in DOMAIN q : d[Len(b) + i] = q[i]
        BY <3>1, <3>3, <4>1
      <4>3. Len(q) \in Nat /\ DOMAIN q = 1 .. Len(q)
        BY <3>1
      <4>4. Len(d) = Len(b) + Len(q) /\ DOMAIN d = 1 .. Len(b) + Len(q)
        BY <3>1, <3>3
      <4>. QED
        BY <3>3, <4>2, <4>3, <4>4 DEF Follows
    <3>5. Len(p) = 0 /\ q[1] = models[k]
      BY <2>3, <2>8, <3>1
    <3>6. Shared(c, d, models, k)
      BY <1>1, <2>1, <2>6, <3>1, <3>4, <3>5, OneModelMore
    <3>. QED
      BY <3>6
  <2>. QED
    BY <2>2, <2>7, <2>8
<1>. HIDE DEF Ok
<1>8. \A k \in 0 .. N : k \in Ok
  BY <1>1, <1>6, <1>7, UpTo
<1>9. N \in Ok
  BY <1>1, <1>8
<1>. PICK a, b : a = g[N] /\ b = f[N]
  OBVIOUS
<1>10. Shared(a, b, models, N)
  BY <1>9 DEF Ok
<1>11. Hinting(models, port) = a
  BY <1>4 DEF Hinting
<1>12. Silent(models, port) = [i \in DOMAIN b |-> b[i].name]
  BY <1>5 DEF Silent
<1>. QED
  BY <1>1, <1>10, <1>11, <1>12, HintingFirst

(* No name twice, and whatever port at which no model hints twice: that is *)
(* what read() leaves behind.                                              *)
OrdersOf(d) ==
  /\ IsModels(d.models)
  /\ \A i, j \in DOMAIN d.models : d.models[i].name = d.models[j].name => i = j
  /\ \A port \in DOMAIN d.portHintOrder :
       (\A m \in DOMAIN d.models : Hints(d.models[m], port) <= 1)
         => IsOrder(d.portHintOrder[port], d.models)

(* Of nodes with different names, in their order, none has a name twice.   *)
LEMMA NoNameTwice ==
  ASSUME NEW nodes, NEW keep, NEW n, NEW kept, AnySeq(kept), InOrder(kept, nodes, keep, n),
         \A p, q \in keep : p < q => nodes[p]["ProtocolName"] # nodes[q]["ProtocolName"]
  PROVE  \A i, j \in DOMAIN kept : kept[i]["ProtocolName"] = kept[j]["ProtocolName"] => i = j
<1>1. ASSUME NEW i \in DOMAIN kept, NEW j \in DOMAIN kept, i < j
      PROVE  kept[i]["ProtocolName"] # kept[j]["ProtocolName"]
  <2>1. PICK p, q \in keep : p < q /\ kept[i] = nodes[p] /\ kept[j] = nodes[q]
    BY <1>1 DEF InOrder
  <2>. QED
    BY <2>1
<1>2. \A i, j \in DOMAIN kept : i = j \/ i < j \/ j < i
  <2>1. DOMAIN kept = 1 .. Len(kept)
    BY SeqIsAny DEF AnySeq
  <2>. QED
    BY <2>1
<1>. QED
  BY <1>1, <1>2

LEMMA NamesKept ==
  ASSUME NEW kept, NEW models, models = [i \in DOMAIN kept |-> ReadProtocolModel(kept[i])]
  PROVE  DOMAIN models = DOMAIN kept /\ \A i \in DOMAIN kept : models[i].name = kept[i]["ProtocolName"]
BY DEF ReadProtocolModel

(* A model whose name occurred before is left out.                         *)
LEMMA NamesRead ==
  ASSUME NEW nodes, AnySeq(nodes), NEW models, models = ReadModels(nodes)
  PROVE  \A i, j \in DOMAIN models : models[i].name = models[j].name => i = j
<1>. DEFINE known(i) == \E j \in 1 .. i - 1 :
              ModelIsValid(nodes[j]) /\ nodes[j]["ProtocolName"] = nodes[i]["ProtocolName"]
            keep == {i \in DOMAIN nodes : ModelIsValid(nodes[i]) /\ ~known(i)}
            kept == Subsequence(nodes, keep)
<1>1. \A p, q \in keep : p < q => nodes[p]["ProtocolName"] # nodes[q]["ProtocolName"]
  <2>1. DOMAIN nodes = 1 .. Len(nodes) /\ Len(nodes) \in Nat
    BY SeqIsAny DEF AnySeq
  <2>. SUFFICES ASSUME NEW p \in keep, NEW q \in keep, p < q
                PROVE  nodes[p]["ProtocolName"] # nodes[q]["ProtocolName"]
    OBVIOUS
  <2>2. p \in 1 .. q - 1
    BY <2>1
  <2>. QED
    BY <2>2
<1>2. models = [i \in DOMAIN kept |-> ReadProtocolModel(kept[i])]
  BY DEF ReadModels
<1>. HIDE DEF keep
<1>3. InOrder(kept, nodes, keep, Len(nodes)) /\ AnySeq(kept)
  BY SubsequenceInOrder, SubsequenceIs DEF FromPlaces
<1>. HIDE DEF kept
<1>4. \A i, j \in DOMAIN kept : kept[i]["ProtocolName"] = kept[j]["ProtocolName"] => i = j
  BY <1>1, <1>3, NoNameTwice
<1>5. DOMAIN models = DOMAIN kept /\ \A i \in DOMAIN kept : models[i].name = kept[i]["ProtocolName"]
  BY <1>2, NamesKept
<1>. QED
  BY <1>4, <1>5

(* So what read() makes of a file is in order.                             *)
LEMMA OrdersRead ==
  ASSUME NEW content, WellTyped(content), NEW now
  PROVE  OrdersOf(ReadDb(content, now))
<1>. PICK nodes : nodes = Optional(content, "ProtocolModels", << >>)
  OBVIOUS
<1>. PICK models : models = ReadModels(nodes)
  OBVIOUS
<1>1. AnySeq(nodes) /\ \A i \in DOMAIN nodes : TypedModel(nodes[i])
  BY DEF WellTyped, IsList, AnySeq
<1>2. IsModels(models)
  BY <1>1, ModelsRead
<1>. PICK d : d = ReadDb(content, now)
  OBVIOUS
<1>3. d.models = models /\ d.portHintOrder = PortHintOrder(models)
  BY DEF ReadDb
<1>4. \A i, j \in DOMAIN models : models[i].name = models[j].name => i = j
  BY <1>1, NamesRead
<1>5. ASSUME NEW port \in DOMAIN d.portHintOrder, \A m \in DOMAIN models : Hints(models[m], port) <= 1
      PROVE  IsOrder(d.portHintOrder[port], models)
  <2>1. d.portHintOrder[port] = Hinting(models, port) \o Silent(models, port)
    BY <1>3, <1>5 DEF PortHintOrder
  <2>. QED
    BY <1>2, <1>5, <2>1, OrderIs
<1>. QED
  BY <1>2, <1>3, <1>4, <1>5 DEF OrdersOf

(* _writeAttributeMeter writes what _readAttributeMeter reads as the same. *)
LEMMA MeterWritten ==
  ASSUME NEW m, IsMeter(m)
  PROVE  LET node == WriteAttributeMeter(m)
         IN  /\ TypedMeter(node) /\ MeterIsValid(node) /\ ~Throws(node)
             /\ ReadAttributeMeter(node) = m
<1>. PICK node : node = WriteAttributeMeter(m)
  OBVIOUS
<1>1. node = [AttributeName |-> m.name, FlowCount |-> m.flowCount, Enabled |-> m.enabled,
              FingerPrint |-> m.fingerprint]
  BY DEF WriteAttributeMeter
<1>2. /\ DOMAIN node = {"AttributeName", "FlowCount", "Enabled", "FingerPrint"}
      /\ node["AttributeName"] = m.name /\ node["FlowCount"] = m.flowCount
      /\ node["Enabled"] = m.enabled /\ node["FingerPrint"] = m.fingerprint
  BY <1>1
<1>3. /\ m = [name |-> m.name, flowCount |-> m.flowCount, enabled |-> m.enabled,
              fingerprint |-> m.fingerprint]
      /\ m.flowCount \in Int /\ m.enabled \in BOOLEAN /\ m.name \in Registered
      /\ IsFingerPrint(m.fingerprint) /\ m.fingerprint.size = Create(m.name).size
  BY DEF IsMeter
<1>4. ReadAttributeMeter(node) = m
  BY <1>2, <1>3 DEF ReadAttributeMeter, Optional, Has
<1>5. TypedMeter(node) /\ MeterIsValid(node)
  BY <1>2, <1>3 DEF TypedMeter, TypedCount, MeterIsValid, Optional, Has
<1>6. ~Throws(node)
  BY <1>2 DEF Throws, Has
<1>. QED
  BY <1>4, <1>5, <1>6

(* _writeProtocolModel writes nodes that are typed.                        *)
LEMMA ModelWritten ==
  ASSUME NEW m, IsModel(m)
  PROVE  TypedModel(WriteProtocolModel(m))
<1>. DEFINE node == [ProtocolName |-> m.name, FlowCount |-> m.flowCount,
                     Enabled |-> m.enabled, PortHints |-> m.portHints]
            meters == [i \in DOMAIN m.meters |-> WriteAttributeMeter(m.meters[i])]
            list == [AttributeMeters |-> meters]
            w == WriteProtocolModel(m)
<1>1. w = node \/ w = Over(node, list)
  BY DEF WriteProtocolModel
<1>2. AnySeq(meters)
  <2>. PICK t, s : t = meters /\ s = m.meters
    OBVIOUS
  <2>1. AnySeq(s) /\ t = [i \in DOMAIN s |-> t[i]]
    BY DEF IsModel
  <2>2. AnySeq(t)
    BY <2>1, MapAny
  <2>. QED
    BY <2>2
<1>3. \A i \in DOMAIN meters : TypedMeter(meters[i])
  BY MeterWritten DEF IsModel
<1>4. /\ DOMAIN node = {"ProtocolName", "FlowCount", "Enabled", "PortHints"}
      /\ node["FlowCount"] \in Int /\ AnySeq(node["PortHints"])
      /\ DOMAIN list = {"AttributeMeters"} /\ list["AttributeMeters"] = meters
  BY DEF IsModel
<1>. HIDE DEF node, meters, list, w
<1>5. TypedCount(w) /\ AnySeq(Optional(w, "PortHints", << >>))
  BY <1>1, <1>4 DEF Over, TypedCount, Optional, Has
<1>6. Optional(w, "AttributeMeters", << >>) \in {<< >>, meters}
  BY <1>1, <1>4 DEF Over, Optional, Has
<1>7. LET k == Optional(w, "AttributeMeters", << >>)
      IN  AnySeq(k) /\ \A i \in DOMAIN k : TypedMeter(k[i])
  BY <1>2, <1>3, <1>6, EmptyIsAny
<1>. QED
  BY <1>5, <1>7 DEF TypedModel, IsList, AnySeq, w

-------------------------------------------------------------------------------
(* What read() makes of what write() wrote *)

(* A model with meters is read as it was written, and one without is not   *)
(* read.                                                                   *)
LEMMA ModelReadBack ==
  ASSUME NEW m, IsModel(m)
  PROVE  LET node == WriteProtocolModel(m)
         IN  /\ ModelIsValid(node) <=> m.meters # << >>
             /\ node["ProtocolName"] = m.name /\ ~NodeThrows(node)
             /\ m.meters # << >> => ReadProtocolModel(node) = m
<1>. PICK short, node, old :
       /\ short = [ProtocolName |-> m.name, FlowCount |-> m.flowCount,
                   Enabled |-> m.enabled, PortHints |-> m.portHints]
       /\ node = WriteProtocolModel(m) /\ old = m.meters
  OBVIOUS
<1>. PICK meters : meters = [i \in DOMAIN old |-> WriteAttributeMeter(old[i])]
  OBVIOUS
<1>. PICK list : list = [AttributeMeters |-> meters]
  OBVIOUS
<1>1. node = IF old = << >> THEN short ELSE Over(short, list)
  BY DEF WriteProtocolModel
<1>2. /\ DOMAIN short = {"ProtocolName", "FlowCount", "Enabled", "PortHints"}
      /\ short["ProtocolName"] = m.name /\ short["FlowCount"] = m.flowCount
      /\ short["Enabled"] = m.enabled /\ short["PortHints"] = m.portHints
      /\ DOMAIN list = {"AttributeMeters"} /\ list["AttributeMeters"] = meters
  OBVIOUS
<1>3. DOMAIN meters = DOMAIN old
      /\ \A i \in DOMAIN old : /\ MeterIsValid(meters[i]) /\ ~Throws(meters[i])
                               /\ ReadAttributeMeter(meters[i]) = old[i]
  BY MeterWritten DEF IsModel
<1>4. CASE old = << >>
  <2>1. node = short
    BY <1>1, <1>4
  <2>2. ~Has(node, "AttributeMeters") /\ ~Throws(node) /\ node["ProtocolName"] = m.name
    BY <1>2, <2>1 DEF Has, Throws
  <2>3. ~ModelIsValid(node) /\ ~NodeThrows(node)
    BY <2>2 DEF ModelIsValid, NodeThrows, MetersRead
  <2>. QED
    BY <1>4, <2>2, <2>3
<1>5. CASE old # << >>
  <2>1. node = Over(short, list)
    BY <1>1, <1>5
  <2>2. DOMAIN node = {"ProtocolName", "FlowCount", "Enabled", "PortHints", "AttributeMeters"}
    BY <1>2, <2>1 DEF Over
  <2>3. /\ node["ProtocolName"] = m.name /\ node["FlowCount"] = m.flowCount
        /\ node["Enabled"] = m.enabled /\ node["PortHints"] = m.portHints
        /\ node["AttributeMeters"] = meters
    BY <1>2, <2>1 DEF Over
  <2>4. Has(node, "ProtocolName") /\ Has(node, "AttributeMeters") /\ ~Throws(node)
    BY <2>2 DEF Has, Throws
  <2>5. ModelIsValid(node)
    BY <1>3, <2>3, <2>4 DEF ModelIsValid
  <2>6. ~NodeThrows(node)
    BY <1>3, <2>3, <2>4 DEF NodeThrows, MetersRead
  <2>7. ReadProtocolModel(node) = m
    <3>1. old = [i \in DOMAIN meters |-> ReadAttributeMeter(meters[i])]
      <4>1. old = [i \in DOMAIN old |-> old[i]]
        BY SeqIsAny DEF IsModel, AnySeq
      <4>. QED
        BY <1>3, <4>1
    <3>2. /\ Optional(node, "FlowCount", 0) = m.flowCount
          /\ Optional(node, "Enabled", FALSE) = m.enabled
          /\ Optional(node, "PortHints", << >>) = m.portHints
      BY <2>2, <2>3 DEF Optional, Has
    <3>. PICK r : r = ReadProtocolModel(node)
      OBVIOUS
    <3>3. r = [name |-> m.name, flowCount |-> m.flowCount, enabled |-> m.enabled,
               portHints |-> m.portHints, meters |-> old]
      BY <2>3, <3>1, <3>2 DEF ReadProtocolModel
    <3>. QED
      BY <3>3 DEF IsModel
  <2>. QED
    BY <1>5, <2>3, <2>5, <2>6, <2>7
<1>. QED
  BY <1>4, <1>5

(* The models are what is read of the nodes.                               *)
ReadAs(nodes, models) ==
  /\ AnySeq(nodes) /\ AnySeq(models) /\ Len(nodes) = Len(models)
  /\ \A i \in DOMAIN models : models[i] = ReadProtocolModel(nodes[i])

LEMMA ReadAsIs ==
  ASSUME NEW nodes, NEW models, ReadAs(nodes, models)
  PROVE  models = [i \in DOMAIN nodes |-> ReadProtocolModel(nodes[i])]
<1>1. /\ DOMAIN nodes = DOMAIN models /\ models = [i \in DOMAIN models |-> models[i]]
  BY SeqIsAny DEF ReadAs, AnySeq
<1>. QED
  BY <1>1 DEF ReadAs

LEMMA ReadAsAppend ==
  ASSUME NEW nodes, NEW models, ReadAs(nodes, models), NEW node, NEW m, ReadProtocolModel(node) = m
  PROVE  ReadAs(Append(nodes, node), Append(models, m))
<1>. PICK a, b : a = Append(nodes, node) /\ b = Append(models, m)
  OBVIOUS
<1>1. /\ AnySeq(a) /\ DOMAIN nodes = 1 .. Len(nodes) /\ Len(nodes) \in Nat
      /\ DOMAIN a = 1 .. Len(nodes) + 1 /\ Len(a) = Len(nodes) + 1
      /\ (\A i \in DOMAIN nodes : a[i] = nodes[i]) /\ a[Len(nodes) + 1] = node
  BY AppendAny DEF ReadAs
<1>2. /\ AnySeq(b) /\ DOMAIN models = 1 .. Len(models) /\ Len(models) \in Nat
      /\ DOMAIN b = 1 .. Len(models) + 1 /\ Len(b) = Len(models) + 1
      /\ (\A i \in DOMAIN models : b[i] = models[i]) /\ b[Len(models) + 1] = m
  BY AppendAny DEF ReadAs
<1>3. Len(nodes) = Len(models) /\ \A i \in DOMAIN models : models[i] = ReadProtocolModel(nodes[i])
  BY DEF ReadAs
<1>4. ASSUME NEW i \in DOMAIN b PROVE b[i] = ReadProtocolModel(a[i])
  <2>1. CASE i \in DOMAIN models
    BY <1>1, <1>2, <1>3, <2>1
  <2>2. CASE i = Len(models) + 1
    BY <1>1, <1>2, <1>3, <2>2
  <2>3. i \in DOMAIN models \/ i = Len(models) + 1
    BY <1>2
  <2>. QED
    BY <2>1, <2>2, <2>3
<1>. QED
  BY <1>1, <1>2, <1>3, <1>4 DEF ReadAs

(* read() and write() go through the models one by one.                    *)
LEMMA SubsequenceReadBack ==
  ASSUME NEW s, AnySeq(s), NEW nodes, AnySeq(nodes), Len(nodes) = Len(s), NEW keep,
         \A i \in DOMAIN s \cap keep : ReadProtocolModel(nodes[i]) = s[i]
  PROVE  LET kept == Subsequence(nodes, keep)
         IN  Subsequence(s, keep) = [i \in DOMAIN kept |-> ReadProtocolModel(kept[i])]
<1>. PICK N : N = Len(s)
  OBVIOUS
<1>1. N \in Nat /\ DOMAIN s = 1 .. N
  BY SeqIsAny DEF AnySeq
<1>2. PICK f : Filtered(f, s, keep, N) /\ Subsequence(s, keep) = f[N]
  BY <1>1, SubsequenceFiltered
<1>3. PICK g : Filtered(g, nodes, keep, N) /\ Subsequence(nodes, keep) = g[N]
  BY <1>1, SubsequenceFiltered
<1>. DEFINE Ok == {k \in 0 .. N : ReadAs(g[k], f[k])}
<1>4. 0 \in Ok
  BY <1>1, <1>2, <1>3, EmptyIsAny DEF Filtered, ReadAs
<1>5. ASSUME NEW k \in 1 .. N, k - 1 \in Ok
      PROVE  k \in Ok
  <2>. PICK a, b : a = g[k - 1] /\ b = f[k - 1]
    OBVIOUS
  <2>1. ReadAs(a, b)
    BY <1>5
  <2>2. g[k] = (IF k \in keep THEN Append(a, nodes[k]) ELSE a)
        /\ f[k] = (IF k \in keep THEN Append(b, s[k]) ELSE b)
    BY <1>2, <1>3, <1>5 DEF Filtered
  <2>3. ASSUME k \in keep PROVE ReadAs(Append(a, nodes[k]), Append(b, s[k]))
    <3>1. ReadProtocolModel(nodes[k]) = s[k]
      BY <1>1, <2>3
    <3>. QED
      BY <2>1, <3>1, ReadAsAppend
  <2>4. ReadAs(g[k], f[k])
    BY <2>1, <2>2, <2>3
  <2>. QED
    BY <2>4
<1>. HIDE DEF Ok
<1>6. \A k \in 0 .. N : k \in Ok
  BY <1>1, <1>4, <1>5, UpTo
<1>7. N \in Ok
  BY <1>1, <1>6
<1>8. ReadAs(g[N], f[N])
  BY <1>7 DEF Ok
<1>. QED
  BY <1>2, <1>3, <1>8, ReadAsIs

(* What read() makes of a list of nodes; and that it makes the models at   *)
(* the places in keep of the nodes there.                                  *)
AllRead(nodes) == [i \in DOMAIN nodes |-> ReadProtocolModel(nodes[i])]
ReadWhereKept(nodes, s, keep) ==
  \A i \in DOMAIN s \cap keep : ReadProtocolModel(nodes[i]) = s[i]

LEMMA KeptReadBack ==
  ASSUME NEW s, AnySeq(s), NEW nodes, AnySeq(nodes), Len(nodes) = Len(s), NEW keep,
         ReadWhereKept(nodes, s, keep)
  PROVE  AllRead(Subsequence(nodes, keep)) = Subsequence(s, keep)
BY SubsequenceReadBack DEF AllRead, ReadWhereKept

(* Every model that was read, or learned since, and can be read again, is  *)
(* read as it is.                                                          *)
(* read as it is.                                                          *)
LEMMA ModelsReadBack ==
  ASSUME NEW models, IsModels(models), NEW nodes,
         nodes = [i \in DOMAIN models |-> WriteProtocolModel(models[i])],
         \A i, j \in DOMAIN models : models[i].name = models[j].name => i = j
  PROVE  /\ ReadModels(nodes) = Subsequence(models, {m \in DOMAIN models : models[m].meters # << >>})
         /\ \A i \in DOMAIN nodes : ~NodeThrows(nodes[i])
<1>. DEFINE known(i) == \E j \in 1 .. i - 1 :
              ModelIsValid(nodes[j]) /\ nodes[j]["ProtocolName"] = nodes[i]["ProtocolName"]
<1>. PICK keep : keep = {m \in DOMAIN models : models[m].meters # << >>}
  OBVIOUS
<1>1. AnySeq(models) /\ AnySeq(nodes) /\ Len(nodes) = Len(models) /\ DOMAIN nodes = DOMAIN models
  <2>1. nodes = [i \in DOMAIN models |-> nodes[i]]
    OBVIOUS
  <2>. QED
    BY <2>1, MapAny DEF IsModels
<1>2. DOMAIN models = 1 .. Len(models) /\ Len(models) \in Nat
  BY <1>1, SeqIsAny DEF AnySeq
<1>3. ASSUME NEW i \in DOMAIN models
      PROVE  /\ ModelIsValid(nodes[i]) <=> i \in keep
             /\ nodes[i]["ProtocolName"] = models[i].name /\ ~NodeThrows(nodes[i])
             /\ i \in keep => ReadProtocolModel(nodes[i]) = models[i]
  <2>. PICK m : m = models[i]
    OBVIOUS
  <2>1. IsModel(m)
    BY DEF IsModels
  <2>2. nodes[i] = WriteProtocolModel(m)
    OBVIOUS
  <2>3. i \in keep <=> m.meters # << >>
    OBVIOUS
  <2>. QED
    BY <2>1, <2>2, <2>3, ModelReadBack
<1>4. ASSUME NEW i \in DOMAIN nodes PROVE ~known(i)
  <2>. SUFFICES ASSUME NEW j \in 1 .. i - 1, nodes[j]["ProtocolName"] = nodes[i]["ProtocolName"]
                PROVE  FALSE
    OBVIOUS
  <2>1. i \in DOMAIN models /\ j \in DOMAIN models /\ j # i
    BY <1>1, <1>2
  <2>2. models[j].name = models[i].name
    BY <1>3, <2>1
  <2>. QED
    BY <2>1, <2>2
<1>5. {i \in DOMAIN nodes : ModelIsValid(nodes[i]) /\ ~known(i)} = keep
  <2>. HIDE DEF known
  <2>1. keep \subseteq DOMAIN models
    OBVIOUS
  <2>. QED
    BY <1>1, <1>3, <1>4, <2>1
<1>6. ReadModels(nodes) = AllRead(Subsequence(nodes, keep))
  BY <1>5 DEF ReadModels, AllRead
<1>7. Subsequence(models, keep) = AllRead(Subsequence(nodes, keep))
  <2>. HIDE DEF known
  <2>1. AnySeq(models) /\ AnySeq(nodes) /\ Len(nodes) = Len(models)
    BY <1>1
  <2>2. ReadWhereKept(nodes, models, keep)
    BY <1>3 DEF ReadWhereKept
  <2>. QED
    BY <2>1, <2>2, KeptReadBack
<1>. QED
  BY <1>1, <1>3, <1>6, <1>7

(* A list of nothing is the empty one.                                     *)
LEMMA EmptyIs ==
  ASSUME NEW s, s = [i \in {} |-> s[i]]
  PROVE  s = << >>
BY EmptyIsAny

(* What is read of a file that was written: d, with the time of writing in *)
(* front, without the models without a meter.                              *)
IsReadAs(d, now, then, file) ==
  LET back == ReadDb(file.content, then)
  IN  /\ ReadOk(file)
      /\ back.models = Subsequence(d.models, {m \in DOMAIN d.models : d.models[m].meters # << >>})
      /\ back.definingLimit = d.definingLimit /\ back.cutoffLimit = d.cutoffLimit
      /\ back.modifiedTimes = <<now>> \o d.modifiedTimes
      /\ LastModifiedTime(back, then) = now

(* The database that write() writes, with the time of writing in front, is *)
(* the database that read() reads, without the models without a meter.     *)
LEMMA DbReadBack ==
  ASSUME NEW d, IsTypedDb(d), d.modifiedTimes \in Seq(Nat),
         \A i, j \in DOMAIN d.models : d.models[i].name = d.models[j].name => i = j,
         NEW now \in Nat, NEW then, NEW file, file = Complete(WriteDb(d, now))
  PROVE  IsReadAs(d, now, then, file)
<1>. PICK short, content, models, times :
       /\ times = <<now>> \o d.modifiedTimes
       /\ short = [DefiningLimit |-> d.definingLimit, CutoffLimit |-> d.cutoffLimit,
                   ModifiedTime |-> times]
       /\ content = WriteDb(d, now) /\ models = d.models
  OBVIOUS
<1>. PICK nodes : nodes = [i \in DOMAIN models |-> WriteProtocolModel(models[i])]
  OBVIOUS
<1>. PICK list : list = [ProtocolModels |-> nodes]
  OBVIOUS
<1>. PICK read : read = Subsequence(models, {m \in DOMAIN models : models[m].meters # << >>})
  OBVIOUS
<1>1. content = IF models = << >> THEN short ELSE Over(short, list)
  BY DEF WriteDb, NoModels
<1>2. /\ DOMAIN short = {"DefiningLimit", "CutoffLimit", "ModifiedTime"}
      /\ short["DefiningLimit"] = d.definingLimit /\ short["CutoffLimit"] = d.cutoffLimit
      /\ short["ModifiedTime"] = times
      /\ DOMAIN list = {"ProtocolModels"} /\ list["ProtocolModels"] = nodes
  OBVIOUS
<1>3. /\ {"DefiningLimit", "CutoffLimit", "ModifiedTime"} \subseteq DOMAIN content
      /\ "Mistyped" \notin DOMAIN content
      /\ content["DefiningLimit"] = d.definingLimit /\ content["CutoffLimit"] = d.cutoffLimit
      /\ content["ModifiedTime"] = times
  <2>1. CASE models = << >>
    BY <1>1, <1>2, <2>1
  <2>2. CASE models # << >>
    <3>1. content = Over(short, list)
      BY <1>1, <2>2
    <3>2. DOMAIN content = DOMAIN short \cup DOMAIN list
          /\ \A k \in DOMAIN short : k \notin DOMAIN list => content[k] = short[k]
      BY <3>1 DEF Over
    <3>. QED
      BY <1>2, <3>2
  <2>. QED
    BY <2>1, <2>2
<1>4. IsModels(models)
  BY DEF IsTypedDb
<1>5. ReadModels(nodes) = read /\ \A i \in DOMAIN nodes : ~NodeThrows(nodes[i])
  BY <1>4, ModelsReadBack
<1>6. Optional(content, "ProtocolModels", << >>) = nodes
      /\ \A i \in DOMAIN nodes : content["ProtocolModels"] = nodes
  <2>1. CASE models = << >>
    <3>1. nodes = << >> /\ DOMAIN nodes = {}
      BY <2>1, EmptyIsAny, EmptyIs
    <3>2. ~Has(content, "ProtocolModels")
      BY <1>1, <1>2, <2>1 DEF Has
    <3>. QED
      BY <3>1, <3>2 DEF Optional
  <2>2. CASE models # << >>
    <3>1. content = Over(short, list)
      BY <1>1, <2>2
    <3>2. Has(content, "ProtocolModels") /\ content["ProtocolModels"] = nodes
      BY <1>2, <3>1 DEF Over, Has
    <3>. QED
      BY <3>2 DEF Optional
  <2>. QED
    BY <2>1, <2>2
<1>7. file.state = "complete" /\ file.content = content
  BY DEF Complete
<1>8. ReadOk(file)
  BY <1>3, <1>5, <1>6, <1>7 DEF ReadOk, Throws, Has
<1>. PICK back : back = ReadDb(content, then)
  OBVIOUS
<1>9. /\ back.models = ReadModels(Optional(content, "ProtocolModels", << >>))
      /\ back.definingLimit = content["DefiningLimit"] /\ back.cutoffLimit = Cutoff(content)
      /\ back.modifiedTimes = Optional(content, "ModifiedTime", <<then>>)
  BY DEF ReadDb
<1>10. Cutoff(content) = d.cutoffLimit
  BY <1>3 DEF Cutoff, IsTypedDb
<1>11. back.modifiedTimes = times
  BY <1>3, <1>9 DEF Optional, Has
<1>12. times # << >> /\ Head(times) = now
  <2>1. /\ <<now>> \in Seq(Nat) /\ Len(<<now>>) = 1 /\ <<now>>[1] = now
    OBVIOUS
  <2>2. /\ times \in Seq(Nat) /\ Len(times) = 1 + Len(d.modifiedTimes) /\ Len(d.modifiedTimes) \in Nat
        /\ times[1] = now
    BY <2>1, ConcatProperties, LenProperties
  <2>3. times # << >>
    BY <2>2, EmptyIsAny
  <2>. QED
    BY <2>2, <2>3, HeadTailProperties
<1>13. LastModifiedTime(back, then) = now
  BY <1>11, <1>12 DEF LastModifiedTime
<1>. QED
  BY <1>3, <1>5, <1>6, <1>7, <1>8, <1>9, <1>10, <1>11, <1>13 DEF IsReadAs
================================================================================
