------------------------------ MODULE MCPcapPrograms ------------------------------
(* Databases, captures and ways to start the programs of PcapPrograms.     *)
EXTENDS PcapPrograms

LOCAL INSTANCE FiniteSetsExt

(* A hash that gives two of the connections below, b and c, the same value.*)
Endpoint(ip, port) == [ip |-> ip, port |-> port]
Tuple(x, y, protocol) == [srcIp |-> x.ip, srcPort |-> x.port,
                          dstIp |-> y.ip, dstPort |-> y.port, protocol |-> protocol]
E1 == Endpoint(1, 4000)
E2 == Endpoint(2, 80)
E3 == Endpoint(2, 4000)
E4 == Endpoint(2, 53)

ConnA == Tuple(E1, E2, TCP)
ConnB == Tuple(E3, E4, UDP)
ConnC == Tuple(E1, E4, UDP)
ConnD == Tuple(E3, E2, UDP)             \* within one address
SomeMurmur(input) == IF input = HashInput(ConnC) THEN HashInput(ConnB) ELSE input

Shape(tuple, kind, payload, gap) ==
  [tuple |-> tuple, kind |-> kind, payload |-> payload, gap |-> gap]
NoFlow == [name \in {} |-> 0]

(* All of them up to a total of 46; the captures below have no more than   *)
(* 45 bytes before a packet that is truncated, but in one direction, where *)
(* k = n and nothing is lost.                                              *)
LossyUpTo46 ==
  {<<15,22>>, <<13,23>>, <<15,26>>, <<31,39>>, <<23,43>>, <<31,43>>,
   <<15,44>>, <<30,44>>, <<13,45>>, <<26,45>>, <<13,46>>, <<26,46>>}

(* Nodes of databases *)
FingerPrintOf(size, fp, total) == [size |-> size, fp |-> fp, total |-> total]
MeterNode(name, enabled, fingerprint) ==
  [AttributeName |-> name, FlowCount |-> 2, Enabled |-> enabled, FingerPrint |-> fingerprint]
Changes(enabled) == MeterNode("DirectionChangesMeter", enabled, FingerPrintOf(2, Pair(1, 1), 2))
Bytes(enabled) == MeterNode("ByteFrequencyMeter", enabled, FingerPrintOf(256, EmptyBag, 0))
ModelNode(name, enabled, hints, meters) ==
  [ProtocolName |-> name, FlowCount |-> 2, Enabled |-> enabled, PortHints |-> hints,
   AttributeMeters |-> meters]
DatabaseFile(limits, models) ==
  Complete([DefiningLimit |-> limits[1], CutoffLimit |-> limits[2],
            ModifiedTime |-> <<0>>, ProtocolModels |-> models])

(* With a hint given twice, a name given twice, an invalid meter, and a    *)
(* model and a meter without a flow count.                                 *)
TrainingDb ==
  DatabaseFile(<<2, 2>>,
    <<ModelNode("A", TRUE, <<80>>, <<Changes(TRUE), Bytes(FALSE)>>),
      ModelNode("B", FALSE, <<53, 53>>, << >>),
      ModelNode("A", TRUE, <<80>>, <<Changes(TRUE)>>),
      ModelNode("broken", TRUE, << >>,
                <<Changes(TRUE), MeterNode("none", TRUE, FingerPrintOf(2, EmptyBag, 0))>>),
      [ProtocolName |-> "C", PortHints |-> <<80>>,
       AttributeMeters |-> <<[AttributeName |-> "DirectionChangesMeter", Enabled |-> TRUE,
                              FingerPrint |-> FingerPrintOf(2, EmptyBag, 0)]>>]>>)

BrokenDb == Complete([DefiningLimit |-> 1, CutoffLimit |-> 1, Mistyped |-> TRUE])

(* Two models to choose from, one that is not compared, one that cannot be.*)
ClassifyingDb ==
  DatabaseFile(<<2, 3>>, <<ModelNode("A", TRUE, << >>, <<Changes(TRUE)>>),
                           ModelNode("B", TRUE, <<53>>, <<Changes(TRUE)>>),
                           ModelNode("C", FALSE, <<53>>, <<Changes(TRUE)>>),
                           ModelNode("D", TRUE, << >>, <<Bytes(FALSE)>>)>>)
SmallDb == DatabaseFile(<<1, 2>>, <<ModelNode("A", TRUE, <<80>>, <<Changes(TRUE)>>)>>)

(* Every meter measures, and nothing is compared. *)
AllMeters == FoldSet(LAMBDA name, names : Append(names, name), << >>, Registered)
MeasuringDb ==
  DatabaseFile(<<1, 12>>,
    <<ModelNode("A", FALSE, << >>,
        [i \in 1 .. 15 |-> MeterNode(AllMeters[i], TRUE,
                              FingerPrintOf(Create(AllMeters[i]).size, EmptyBag, 0))])>>)

(* What training is started with *)
TrainingFlow(tuple, transport, protocol) ==
  [addresses |-> "good", tuple |-> [tuple EXCEPT !.protocol = 0], transport |-> transport,
   protocol |-> protocol]
Input(entries) == [kind |-> "good", files |-> entries]

TrainingCaptures ==
  "one" :> [exists |-> TRUE, opens |-> TRUE, packets |-> 3,
            traffic |-> {Shape(ConnA, "syn", << >>, 0), Shape(ConnA, "data", <<7>>, 0),
                         Shape(ConnA, "fin", << >>, 0), Shape(ConnB, "udp", <<7, 7>>, 0),
                         Shape(Opposite(ConnB), "udp", << >>, 3)}]
  @@ "two" :> [exists |-> TRUE, opens |-> TRUE, packets |-> 2,
               traffic |-> {Shape(ConnB, "udp", <<9>>, 0), Shape(ConnC, "udp", << >>, 0)}]
  @@ "gone" :> [exists |-> FALSE, opens |-> FALSE, packets |-> 0, traffic |-> {}]
  @@ "text" :> [exists |-> TRUE, opens |-> FALSE, packets |-> 0, traffic |-> {}]

Training(input, set) ==
  [program |-> "training", options |-> "run", database |-> "", pcap |-> "",
   databases |-> {TrainingDb}, later |-> FALSE,
   config |-> [program |-> "training", kind |-> "good", set |-> set],
   input |-> input, captures |-> TrainingCaptures]

TrainingRuns ==
  {[Training(Input(<<[file |-> "one", flows |-> <<TrainingFlow(ConnA, "TCP", "A"),
                                                  TrainingFlow(ConnA, "TCP", "C"),
                                                  TrainingFlow(ConnB, "UDP", "C"),
                                                  TrainingFlow(ConnC, "SCTP", "A")>>],
                     [file |-> "gone", flows |-> << >>],
                     [file |-> "text", flows |-> <<TrainingFlow(ConnB, "UDP", "A")>>],
                     [file |-> "two", flows |-> <<TrainingFlow(ConnB, "UDP", "B")>>]>>),
             [UdpFlowTimeout |-> 2]) EXCEPT
      !.databases = {TrainingDb, NoFile, Partial, BrokenDb}, !.later = TRUE]}

OtherTraining ==
  LET t == Training(Input(<< >>), [ProtocolDatabaseBackup |-> "old.yaml"])
  IN  {t, [t EXCEPT !.input = [kind |-> "missing", files |-> << >>]],
       [t EXCEPT !.input = [kind |-> "mistyped", files |-> << >>]],
       [t EXCEPT !.config.kind = "missing"], [t EXCEPT !.config.kind = "mistyped"],
       [t EXCEPT !.config.set = [ProtocolDatabase |-> ""]],
       [t EXCEPT !.options = "help"], [t EXCEPT !.options = "unknown"],
       [Training(Input(<<[file |-> "two", flows |-> <<TrainingFlow(ConnB, "UDP", "A")>>]>>),
                 NoFlow) EXCEPT !.databases = {MeasuringDb}]}

(* What pcap_classifier is started with *)
Classifying(shapes, n, file, set) ==
  [program |-> "pcap_classifier", options |-> "run", database |-> "", pcap |-> "one",
   databases |-> {file}, later |-> FALSE,
   config |-> [program |-> "pcap_classifier", kind |-> "good", set |-> set],
   input |-> [kind |-> "missing", files |-> << >>],
   captures |-> "one" :> [exists |-> TRUE, opens |-> TRUE, packets |-> n, traffic |-> shapes]
                @@ "gone" :> [exists |-> FALSE, opens |-> FALSE, packets |-> 0,
                              traffic |-> {}]]

UdpShapes == {Shape(ConnB, "udp", <<7>>, 0), Shape(Opposite(ConnB), "udp", << >>, 1),
              Shape(ConnC, "udp", <<7>>, 0)}
TcpShapes == {Shape(ConnA, "syn", << >>, 0), Shape(ConnA, "data", <<7>>, 1),
              Shape(Opposite(ConnA), "data", <<7>>, 1), Shape(ConnA, "fin", << >>, 0)}

ClassifyingRuns ==
  LET c == Classifying(UdpShapes, 4, ClassifyingDb, NoFlow)
  IN  {c, [c EXCEPT !.config.set = "UseBestMatchDivergence" :> FALSE
                                   @@ "UsePortHints" :> FALSE],
       Classifying(TcpShapes, 5, SmallDb, "TcpFlowTimeout" :> 1),
       [Classifying({Shape(ConnB, "udp", <<7>>, 0), Shape(ConnA, "syn", << >>, 0)}, 3,
                    SmallDb, NoFlow) EXCEPT !.later = TRUE],
       Classifying({Shape(ConnD, "udp", <<7>>, 0), Shape(Opposite(ConnD), "udp", <<7>>, 0)},
                   3, SmallDb, NoFlow),
       [c EXCEPT !.options = "log"], [c EXCEPT !.pcap = "gone"]}

(* The first few packets of flows, and more of the same. *)
Fifteen == [i \in 1 .. 15 |-> i]
Seven == [i \in 1 .. 7 |-> 199]
Rtmp == <<3, 1, 20, 1, 2, 1, 7, 1, 1>>
MeasuringRuns ==
  {Classifying({Shape(ConnB, "udp", Fifteen, 0), Shape(Opposite(ConnB), "udp", Seven, 0),
                Shape(ConnB, "udp", << >>, 0), Shape(ConnB, "udp", Rtmp, 0)},
               4, MeasuringDb, NoFlow),
   Classifying({Shape(ConnA, "syn", << >>, 0), Shape(ConnA, "ack", << >>, 0),
                Shape(ConnA, "data", Seven, 0), Shape(Opposite(ConnA), "data", Seven, 0)},
               5, MeasuringDb, NoFlow),
   Classifying({Shape(ConnB, "udp", Fifteen, 0)}, 12, MeasuringDb, NoFlow)}

AllScenarios == TrainingRuns \cup OtherTraining \cup ClassifyingRuns \cup MeasuringRuns
SomeJunk == {<<0, 0, 0>>, <<199, 199, 199>>}
================================================================================
