----------------------------- MODULE ProtocolModelDb -----------------------------
(***************************************************************************)
(* The protocol model database: what read() makes of the content of a      *)
(* file, what write() makes of the models, and the order in which at()     *)
(* hands them out.  (The renaming and writing of files is in PcapPrograms.)*)
(*                                                                         *)
(* A YAML map is a function from the keys that occur in it to their values *)
(* and a YAML list a sequence.  A map with the key "Mistyped" holds, where *)
(* it is read first, a value that as<T>() throws at.  A fingerprint is     *)
(* [size, fp, total] as in Meters.                                         *)
(***************************************************************************)
EXTENDS Meters

LOCAL INSTANCE SequencesExt

Has(node, key) == key \in DOMAIN node
Optional(node, key, default) == IF Has(node, key) THEN node[key] ELSE default
Throws(node) == Has(node, "Mistyped")

(* A file on disk: not there, a part of a YAML file, or one with `content'. *)
NoFile == [state |-> "missing", content |-> << >>]
Partial == [state |-> "partial", content |-> << >>]
Complete(content) == [state |-> "complete", content |-> content]

(* The types that as<T>() asks for; a file where it throws is `Mistyped',  *)
(* whatever else it says.                                                  *)
IsList(x) == x \in Seq({x[i] : i \in DOMAIN x})
TypedCount(node) == Optional(node, "FlowCount", 0) \in Int
TypedMeter(node) ==
  TypedCount(node) /\ (Has(node, "FingerPrint") => IsFingerPrint(node["FingerPrint"]))
TypedModel(node) ==
  LET meters == Optional(node, "AttributeMeters", << >>)
  IN  /\ TypedCount(node) /\ IsList(Optional(node, "PortHints", << >>))
      /\ IsList(meters) /\ \A i \in DOMAIN meters : TypedMeter(meters[i])
WellTyped(content) ==
  LET nodes == Optional(content, "ProtocolModels", << >>)
  IN  /\ Optional(content, "ModifiedTime", << >>) \in Seq(Nat)
      /\ {Optional(content, "DefiningLimit", 0), Optional(content, "CutoffLimit", 0)} \subseteq Int
      /\ IsList(nodes) /\ \A i \in DOMAIN nodes : TypedModel(nodes[i])

--------------------------------------------------------------------------------
(* read() *)

(* _readAttributeMeter finds fault with a meter that has no name, no       *)
(* factory, no fingerprint or one of another size than the code's.         *)
MeterIsValid(node) ==
  /\ Has(node, "AttributeName") /\ node["AttributeName"] \in Registered
  /\ Has(node, "FingerPrint")
  /\ node["FingerPrint"].size = Create(node["AttributeName"]).size

(* Without a flow count it is disabled; the attribute stays enabled.       *)
ReadAttributeMeter(node) ==
  [name |-> node["AttributeName"],
   flowCount |-> Optional(node, "FlowCount", 0),
   enabled |-> Has(node, "FlowCount") /\ Optional(node, "Enabled", FALSE),
   fingerprint |-> node["FingerPrint"]]

(* The attributes that reading a meter enables in the factory, for good:   *)
(* also when the meter turns out to be invalid further down.               *)
Enables(node) ==
  IF /\ Has(node, "AttributeName") /\ node["AttributeName"] \in Registered
     /\ Optional(node, "Enabled", FALSE)
  THEN {node["AttributeName"]} ELSE {}

(* _readProtocolModel *)
ModelIsValid(node) ==
  /\ Has(node, "ProtocolName") /\ Has(node, "AttributeMeters")
  /\ \A i \in DOMAIN node["AttributeMeters"] : MeterIsValid(node["AttributeMeters"][i])

ReadProtocolModel(node) ==
  [name |-> node["ProtocolName"],
   flowCount |-> Optional(node, "FlowCount", 0),
   enabled |-> Optional(node, "Enabled", FALSE),
   portHints |-> Optional(node, "PortHints", << >>),
   meters |-> [i \in DOMAIN node["AttributeMeters"] |->
                 ReadAttributeMeter(node["AttributeMeters"][i])]]

(* Its meters are looked at up to the first invalid one. *)
MetersRead(node) ==
  IF ~Has(node, "ProtocolName") \/ ~Has(node, "AttributeMeters") THEN {}
  ELSE LET m == node["AttributeMeters"]
       IN  {m[i] : i \in {i \in DOMAIN m : \A j \in 1 .. i-1 : MeterIsValid(m[j])}}

NodeThrows(node) == Throws(node) \/ \E m \in MetersRead(node) : Throws(m)

(* The valid models, without those whose name occurred before.             *)
ReadModels(nodes) ==
  LET known(i) == \E j \in 1 .. i - 1 :
        ModelIsValid(nodes[j]) /\ nodes[j]["ProtocolName"] = nodes[i]["ProtocolName"]
      kept == Subsequence(nodes, {i \in DOMAIN nodes : ModelIsValid(nodes[i]) /\ ~known(i)})
  IN  [i \in DOMAIN kept |-> ReadProtocolModel(kept[i])]

HintedPorts(models) == UNION {ToSet(models[i].portHints) : i \in DOMAIN models}

(* _portHintOrder: for every port in a hint, first the models that hint at *)
(* it, in their order and each as often as it does so, then the others.    *)
Hints(model, port) == Cardinality({h \in DOMAIN model.portHints : model.portHints[h] = port})

Hinting(models, port) ==
  Joined([i \in DOMAIN models |-> [h \in 1 .. Hints(models[i], port) |-> models[i].name]])

Silent(models, port) ==
  LET rest == Subsequence(models, {i \in DOMAIN models : Hints(models[i], port) = 0})
  IN  [i \in DOMAIN rest |-> rest[i].name]

BadPortHintOrder(models) ==             \* only the models that hint
  [port \in HintedPorts(models) |-> Hinting(models, port)]

PortHintOrder(models) ==
  [port \in HintedPorts(models) |-> Hinting(models, port) \o Silent(models, port)]

(* "CutoffLimit less than DefiningLimit" *)
Cutoff(content) ==
  IF content["CutoffLimit"] > 0 /\ content["CutoffLimit"] <= content["DefiningLimit"]
  THEN content["DefiningLimit"] + 1 ELSE content["CutoffLimit"]

(* Whether read() returns true.  Both limits are mandatory, and a throw    *)
(* anywhere in the file is caught and ends the reading.                    *)
ReadOk(file) ==
  /\ file.state = "complete" /\ ~Throws(file.content)
  /\ Has(file.content, "DefiningLimit") /\ Has(file.content, "CutoffLimit")
  /\ \A i \in DOMAIN Optional(file.content, "ProtocolModels", << >>) :
       ~NodeThrows(file.content["ProtocolModels"][i])

(* The database after a successful read(), and what it leaves in the       *)
(* AttributeMeterFactory.  Where the file has no times, `now' is one.      *)
NoModels == << >>
ReadDb(content, now) ==
  LET nodes == Optional(content, "ProtocolModels", << >>)
      models == ReadModels(nodes)
  IN  [initialised |-> TRUE,
       definingLimit |-> content["DefiningLimit"], cutoffLimit |-> Cutoff(content),
       modifiedTimes |-> Optional(content, "ModifiedTime", <<now>>),
       models |-> models,
       portHintOrder |-> PortHintOrder(models),
       enabledAttributes |-> UNION {UNION {Enables(m) : m \in MetersRead(nodes[i])} :
                                      i \in DOMAIN nodes}]

(* The constructor. *)
UnreadDb ==
  [initialised |-> FALSE, definingLimit |-> 10, cutoffLimit |-> 100,
   modifiedTimes |-> << >>, models |-> NoModels,
   portHintOrder |-> [port \in {} |-> << >>], enabledAttributes |-> {}]

--------------------------------------------------------------------------------
(* find(name), at(pos, port) and size(); 0 is the null pointer *)

Find(db, name) ==
  LET hits == {i \in DOMAIN db.models : db.models[i].name = name}
  IN  IF hits = {} THEN 0 ELSE CHOOSE i \in hits : TRUE

FindMeter(model, name) ==
  SelectInSeq(model.meters, LAMBDA m : m.name = name)

SizeOf(db) == Len(db.models)

ModelAt(db, pos, port) ==
  IF port # 0 /\ port \in DOMAIN db.portHintOrder
  THEN LET order == db.portHintOrder[port]
       IN  IF pos < Len(order) THEN Find(db, order[pos + 1]) ELSE 0
  ELSE IF pos < SizeOf(db) THEN pos + 1 ELSE 0

--------------------------------------------------------------------------------
(* write() *)

BadWriteAttributeMeter(m) ==            \* no flow count
  [AttributeName |-> m.name, Enabled |-> m.enabled, FingerPrint |-> m.fingerprint]
WriteAttributeMeter(m) ==
  [AttributeName |-> m.name, FlowCount |-> m.flowCount, Enabled |-> m.enabled,
   FingerPrint |-> m.fingerprint]

(* A model without meters is written without the key AttributeMeters, so   *)
(* that it will not be read again.                                         *)
WriteProtocolModel(model) ==
  LET node == [ProtocolName |-> model.name, FlowCount |-> model.flowCount,
               Enabled |-> model.enabled, PortHints |-> model.portHints]
  IN  IF model.meters = << >> THEN node
      ELSE Over(node, [AttributeMeters |-> [i \in DOMAIN model.meters |->
                                               WriteAttributeMeter(model.meters[i])]])

(* The time of writing goes in front.  Without models there is no list.    *)
WriteDb(db, now) ==
  LET content == [DefiningLimit |-> db.definingLimit, CutoffLimit |-> db.cutoffLimit,
                  ModifiedTime |-> <<now>> \o db.modifiedTimes]
  IN  IF db.models = NoModels THEN content
      ELSE Over(content, [ProtocolModels |-> [i \in DOMAIN db.models |->
                                                 WriteProtocolModel(db.models[i])]])

(* lastModifiedTime() *)
LastModifiedTime(db, now) ==
  IF db.modifiedTimes = << >> THEN now ELSE Head(db.modifiedTimes)
================================================================================
