------------------------------- MODULE PcapPrograms -------------------------------
(***************************************************************************)
(* The two programs that read captures, training and pcap_classifier, from *)
(* their options to their exits, run one after the other on the same disk. *)
(* Each reads its settings and the protocol model database, feeds captures *)
(* to a FlowManager that has no worker threads, and makes something of the *)
(* flows that are reported to its observer: training merges their meters   *)
(* into the models and at the end writes the database, pcap_classifier     *)
(* writes a line of results.                                               *)
(*                                                                         *)
(* The environment decides which program runs with which files, how the    *)
(* captures go on, which calls on the file system fail, and when a program *)
(* is killed.                                                              *)
(***************************************************************************)
EXTENDS InlineManager, Settings

LOCAL INSTANCE SequencesExt

CONSTANTS
  Scenarios,    \* how the programs may be started, see MCPcapPrograms
  Divergence,   \* K-L divergences of a flow from a model
  Junk,         \* what _lastPacket may hold before it is written
  MaxRuns       \* bound: programs started

(* Files and captures hold values of the types that they are read with,    *)
(* and a scenario says of each capture that it names what that is.  No     *)
(* scenario sets NumWorkerThreadsPerQueue for pcap_classifier, which reads *)
(* it: with any worker it would use the manager of module FlowManager.     *)
ASSUME PcapAssumption ==
  /\ MaxRuns \in Nat
  /\ \A s \in Scenarios :
       /\ s.program \in {"training", "pcap_classifier"}
       /\ Setting(s.config, "KLDivergenceThreshold", 0) \in Int
       /\ s.program = "pcap_classifier" =>
            /\ s.pcap \in DOMAIN s.captures
            /\ Setting(s.config, "NumWorkerThreadsPerQueue", 0) = 0
       /\ IsList(s.input.files)
       /\ \A i \in DOMAIN s.input.files :
            s.input.files[i].file \in DOMAIN s.captures /\ IsList(s.input.files[i].flows)
       /\ \A file \in s.databases :
            /\ file.state \in {"missing", "partial", "complete"}
            /\ file.state = "complete" => WellTyped(file.content)
       /\ \A name \in DOMAIN s.captures : \A shape \in s.captures[name].traffic :
            /\ shape.tuple \in [srcIp : Nat, srcPort : Nat, dstIp : Nat, dstPort : Nat,
                                protocol : {TCP, UDP}]
            /\ shape.gap \in Nat /\ shape.payload \in Seq(Byte)
  /\ Junk # {} /\ \A junk \in Junk : junk \in [1 .. 3 -> Byte]
  /\ Divergence \subseteq 0 .. NoMatch /\ 0 \in Divergence

VARIABLES
  disk,      \* the database, its backup, and what is written when neither can be
  pc,        \* where the program is; "down" when none runs
  run,       \* the scenario it was started in
  runs,      \* how many were started
  exit,      \* how the last one ended
  config,    \* Config and CommonConfig
  db,        \* the ProtocolModelDb
  files,     \* the captures to read, for training with the flows to train
  current,   \* position in `files'
  count,     \* packets read from the current file
  clock,     \* their time
  manager,   \* the FlowManager
  updated,   \* ProtocolModelUpdater::_updated
  history    \* for the properties: asRead, trained, results, saved

vars == <<disk, pc, run, runs, exit, config, db, files, current, count, clock,
          manager, updated, history>>
settings == <<run, runs, config>>
memory == <<config, db, files, current, count, clock, manager, updated, history>>

DiskFile == {"database", "backup", "new"}
Pc == {"down", "config", "database", "input", "next", "packets", "finishing",
       "save", "renamed", "writing", "rename_failed", "writing_new"}

NoHistory == [asRead |-> UnreadDb, trained |-> << >>, results |-> << >>, saved |-> "no"]

Init ==
  /\ \E f \in UNION {s.databases : s \in Scenarios} :
       disk = [n \in DiskFile |-> IF n = "database" THEN f ELSE NoFile]
  /\ pc = "down" /\ runs = 0 /\ exit = "none"
  /\ run \in Scenarios
  /\ config = TrainingConfig(run.config)
  /\ db = UnreadDb /\ files = << >> /\ current = 0 /\ count = 0 /\ clock = 0
  /\ manager = NewManager /\ updated = FALSE /\ history = NoHistory

--------------------------------------------------------------------------------
(* The environment *)

Goto(from, to) == pc = from /\ pc' = to

(* exit(code), a return from main or an uncaught exception *)
Exits(from, code) == Goto(from, "down") /\ exit' = code

(* The program is killed, or the machine goes down. *)
Crash ==
  /\ pc # "down" /\ Exits(pc, "killed")
  /\ UNCHANGED <<disk, run, runs, memory>>

(* "See backup for DB": someone copies it back. *)
Restore ==
  /\ pc = "down" /\ runs > 0 /\ runs < MaxRuns
  /\ disk["database"].state # "complete" /\ disk["backup"].state = "complete"
  /\ disk' = [disk EXCEPT !["database"] = disk["backup"]]
  /\ UNCHANGED <<pc, run, runs, exit, memory>>

--------------------------------------------------------------------------------
(* main, up to the first packet *)

(* How the options are parsed.  pcap_classifier's option string has no     *)
(* colon after the l, so that optarg is null where -l is handled; it also  *)
(* looks for its capture before anything else.                             *)
AfterOptions(s) ==
  CASE s.options = "help" -> "0"
    [] s.options \in {"unknown", "no argument"} -> "1"
    [] s.options = "log" /\ s.program = "pcap_classifier" -> "aborted"
    [] s.program = "pcap_classifier" /\ ~s.captures[s.pcap].exists -> "1"
    [] OTHER -> "goes on"

(* A scenario names the databases it begins with, and whether it can also  *)
(* come after a run of training: pcap_classifier changes nothing on disk.  *)
Start(s) ==
  /\ pc = "down" /\ runs < MaxRuns
  /\ IF runs = 0 THEN disk["database"] \in s.databases
     ELSE s.later /\ run.program = "training"
  /\ runs' = runs + 1 /\ run' = s
  /\ config' = IF s.program = "training" THEN TrainingConfig(s.config)
               ELSE PcapClassifierConfig(s.config)
  /\ IF AfterOptions(s) = "goes on" THEN pc' = "config" /\ exit' = "none"
     ELSE pc' = "down" /\ exit' = AfterOptions(s)
  /\ db' = UnreadDb /\ files' = << >> /\ current' = 0 /\ count' = 0 /\ clock' = 0
  /\ manager' = NewManager /\ updated' = FALSE /\ history' = NoHistory
  /\ UNCHANGED disk

(* Config::init; -d replaces the name of the database. *)
DatabaseName == IF run.database # "" THEN run.database ELSE config.protocolDatabase
LoadConfig ==
  /\ pc = "config"
  /\ CASE InitResult(run.config) = "throws" -> Exits("config", "aborted")
       [] InitResult(run.config) = "false" -> Exits("config", "1")
       [] InitResult(run.config) = "true" /\ DatabaseName = "" -> Exits("config", "1")
       [] OTHER -> Goto("config", "database") /\ UNCHANGED exit
  /\ config' = [config EXCEPT !.protocolDatabase = DatabaseName]
  /\ UNCHANGED <<disk, run, runs, db, files, current, count, clock, manager, updated,
                 history>>

(* ProtocolModelDb::read *)
ReadDatabase ==
  /\ pc = "database"
  /\ IF db.initialised \/ ~ReadOk(disk["database"])
     THEN Exits("database", "1") /\ UNCHANGED <<db, history>>
     ELSE /\ pc' = IF run.program = "training" THEN "input" ELSE "next"
          /\ db' = ReadDb(disk["database"].content, runs)
          /\ history' = [history EXCEPT !.asRead = db']
          /\ UNCHANGED exit
  /\ files' = IF run.program = "training" THEN << >>
              ELSE <<[name |-> run.pcap, exists |-> TRUE, flows |-> << >>]>>
  /\ UNCHANGED <<disk, settings, current, count, clock, manager, updated>>

(* TrainingInput::read leaves out the flows with an address that is none,  *)
(* with neither TCP nor UDP, or with a protocol not in the database.       *)
StrToTransport(str) == CASE str = "TCP" -> TCP [] str = "UDP" -> UDP [] OTHER -> 0
FlowsToTrain(nodes) ==
  LET usable(f) == /\ f.addresses = "good" /\ StrToTransport(f.transport) # 0
                   /\ Find(db, f.protocol) # 0
      chosen == Subsequence(nodes, {i \in DOMAIN nodes : usable(nodes[i])})
  IN  [i \in DOMAIN chosen |->
         [tuple |-> [chosen[i].tuple EXCEPT !.protocol = StrToTransport(chosen[i].transport)],
          protocol |-> chosen[i].protocol]]

FilesToTrain(nodes) ==
  [i \in DOMAIN nodes |-> [name |-> nodes[i].file,
                           exists |-> run.captures[nodes[i].file].exists,
                           flows |-> FlowsToTrain(nodes[i].flows)]]

ReadTrainingInput ==
  /\ pc = "input"
  /\ CASE run.input.kind = "mistyped" -> Exits("input", "aborted")
       [] run.input.kind = "missing" -> Exits("input", "1")
       [] run.input.kind = "good" /\ run.input.files = << >> -> Exits("input", "1")
       [] OTHER -> Goto("input", "next") /\ UNCHANGED exit
  /\ files' = IF run.input.kind # "good" THEN << >> ELSE FilesToTrain(run.input.files)
  /\ UNCHANGED <<disk, settings, db, current, count, clock, manager, updated, history>>

--------------------------------------------------------------------------------
(* PcapReader::read, and the loop over the files around it *)

Capture == run.captures[files[current].name]

(* setCurrentFile; a file that is not there is passed over, and so is one  *)
(* that cannot be opened or filtered: neither has any packet read.         *)
BadNextFile ==                          \* waits for a file that is not there
  /\ pc = "next" /\ current < Len(files)
  /\ files[current + 1].exists
  /\ current' = current + 1 /\ count' = 0
  /\ pc' = IF run.captures[files[current + 1].name].opens THEN "packets" ELSE "next"
  /\ UNCHANGED <<disk, settings, exit, db, files, clock, manager, updated, history>>

NextFile ==
  /\ pc = "next" /\ current < Len(files)
  /\ current' = current + 1 /\ count' = 0
  /\ LET file == files[current + 1]
     IN  pc' = IF file.exists /\ run.captures[file.name].opens THEN "packets" ELSE "next"
  /\ UNCHANGED <<disk, settings, exit, db, files, clock, manager, updated, history>>

EndOfFiles ==
  /\ pc = "next" /\ current = Len(files)
  /\ IF updated THEN Goto("next", "save") /\ UNCHANGED exit ELSE Exits("next", "0")
  /\ UNCHANGED <<disk, settings, db, files, current, count, clock, manager, updated,
                 history>>

(* ProtocolModelUpdater::flowFinished, with a database, for one flow.      *)
(* It looks for the first flow of the file with the hash of the finished   *)
(* one; the model of that flow's protocol has one flow more, and so has    *)
(* each of its meters that the flow has too.                               *)
Listed(flow) ==
  SelectInSeq(files[current].flows,
              LAMBDA f : Murmur(HashInput(f.tuple)) = Murmur(HashInput(flow.tuple)))
TrainedModel(d, flow) == Find(d, files[current].flows[Listed(flow)].protocol)

BadMergeMeter(meter, other) ==          \* does not count a flow that was not measured
  [meter EXCEPT !.fingerprint = Merge(@, meter.flowCount, other),
                !.flowCount = IF other.total = 0 THEN @ ELSE @ + 1]
MergeMeter(meter, other) ==
  [meter EXCEPT !.fingerprint = Merge(@, meter.flowCount, other), !.flowCount = @ + 1]

TrainModel(model, flow) ==
  [model EXCEPT
     !.flowCount = @ + 1,
     !.meters = [i \in DOMAIN @ |->
                   IF @[i].name \in DOMAIN flow.meters /\ FindMeter(model, @[i].name) = i
                   THEN MergeMeter(@[i], flow.meters[@[i].name]) ELSE @[i]]]

BadHasMeterOf(model, flow) ==           \* as if only enabled models were trained
  model.enabled /\ \E i \in DOMAIN model.meters : model.meters[i].name \in DOMAIN flow.meters
HasMeterOf(model, flow) ==
  \E i \in DOMAIN model.meters : model.meters[i].name \in DOMAIN flow.meters

Train(state, flow) ==
  IF Listed(flow) = 0 THEN state
  ELSE LET m == TrainedModel(state.db, flow)
       IN  [db |-> [state.db EXCEPT !.models[m] = TrainModel(@, flow)],
            updated |-> state.updated \/ HasMeterOf(state.db.models[m], flow),
            history |-> [state.history EXCEPT !.trained = Append(@,
                           [id |-> flow.id, tag |-> flow.tag, file |-> current, model |-> m])]]

(* FlowClassificationLogger: a line for a flow when it is classified, or   *)
(* when it is finished and was not.                                        *)
BadLogResult(state, event) ==           \* no line for a flow that was not classified
  IF event.kind = "finished" THEN state
  ELSE [state EXCEPT !.history.results = Append(@, event.flow.id)]
LogResult(state, event) ==
  IF event.kind = "finished" /\ event.flow.classified THEN state
  ELSE [state EXCEPT !.history.results = Append(@, event.flow.id)]

(* What the observers make of the calls of one operation of the manager.   *)
Observe(state, event) ==
  IF run.program = "pcap_classifier" THEN LogResult(state, event)
  ELSE IF event.kind = "finished" THEN Train(state, event.flow) ELSE state

Observed(m) ==
  LET after[k \in 0 .. Len(m.events)] ==
        IF k = 0 THEN [db |-> db, updated |-> updated, history |-> history]
        ELSE Observe(after[k - 1], m.events[k])
  IN  \E last \in {after[Len(m.events)]} :
        /\ db' = last.db /\ updated' = last.updated /\ history' = last.history
        /\ manager' = [m EXCEPT !.events = << >>]

(* The divergence of a model that is not compared, or has nothing to be    *)
(* compared by, is nothing to choose.                                      *)
Compared == {m \in DOMAIN db.models : db.models[m].enabled
               /\ \E i \in DOMAIN db.models[m].meters : db.models[m].meters[i].enabled}
Divergences ==
  IF config.common.learningMode THEN {[m \in DOMAIN db.models |-> 0]}
  ELSE {[m \in DOMAIN db.models |-> IF m \in Compared THEN d[m] ELSE 0] :
          d \in [Compared -> Divergence]}

(* What is in _lastPacket of a new meter, if there are such meters. *)
UnwrittenBytes ==
  IF "ActionReactionFirst3ByteHashMeter" \in db.enabledAttributes THEN Junk
  ELSE {CHOOSE junk \in Junk : TRUE}

(* What the headers of a packet say.  Only TCP and UDP over IPv4 get this  *)
(* far: the rest is filtered out.                                          *)
PacketFrom(shape, ts) ==
  [tuple |-> shape.tuple, kind |-> shape.kind, payload |-> shape.payload, ts |-> ts]

(* PcapReader::handlePacket, and all that follows from the packet.         *)
HandlePacket(shape) ==
  /\ pc = "packets" /\ count < Capture.packets
  /\ count' = count + 1 /\ clock' = clock + shape.gap
  /\ \E packet \in {PacketFrom(shape, clock + shape.gap)}, div \in Divergences,
        junk \in UnwrittenBytes :
       \E m \in {AddToManager(manager, packet, db, config.common, div, junk, current)} :
         Observed(m)
  /\ UNCHANGED <<disk, pc, exit, settings, files, current>>

(* The end of the file, or a packet that cannot be read: pcap_loop returns *)
(* either way, and its result is not looked at.                            *)
EndOfCapture ==
  /\ Goto("packets", "finishing")
  /\ UNCHANGED <<disk, exit, settings, db, files, current, count, clock, manager,
                 updated, history>>

BadFinish(h) ==                         \* reports the flows and keeps them
  /\ pc = "finishing" /\ h \in DOMAIN manager.table
  /\ Observed(NotifyFinished(manager, manager.table[h]))
  /\ pc' = "next"
  /\ UNCHANGED <<disk, exit, settings, files, current, count, clock>>

(* FlowManager::finished, flow by flow in the order of the hash table.     *)
Finish(h) ==
  /\ pc = "finishing" /\ h \in DOMAIN manager.table
  /\ \E m \in {FinishFlow(manager, h)} : Observed(m)
  /\ UNCHANGED <<disk, pc, exit, settings, files, current, count, clock>>

Finished ==
  /\ Goto("finishing", "next") /\ DOMAIN manager.table = {}
  /\ UNCHANGED <<disk, exit, settings, db, files, current, count, clock, manager,
                 updated, history>>

--------------------------------------------------------------------------------
(* ProtocolModelDb::write, whose result training does not look at.  The    *)
(* file is one YAML map in braces (SetMapFormat(YAML::Flow)), so that no   *)
(* part of it can be read.                                                 *)

Content == Complete(WriteDb(db, runs))
Saved(how) == history' = [history EXCEPT !.saved = how]

BadRename ==                            \* opens the database without moving it away
  /\ Goto("save", "writing")
  /\ disk' = [disk EXCEPT !["database"] = Partial]
  /\ UNCHANGED <<exit, run, runs, memory>>

Rename ==
  /\ Goto("save", "renamed")
  /\ disk' = [disk EXCEPT !["backup"] = disk["database"], !["database"] = NoFile]
  /\ UNCHANGED <<exit, run, runs, memory>>

RenameFails ==
  /\ Goto("save", "rename_failed")
  /\ UNCHANGED <<disk, exit, run, runs, memory>>

OpenDatabase ==
  /\ Goto("renamed", "writing")
  /\ disk' = [disk EXCEPT !["database"] = Partial]
  /\ UNCHANGED <<exit, run, runs, memory>>

OpenFails ==
  /\ pc \in {"renamed", "rename_failed"} /\ Exits(pc, "0")
  /\ Saved("failed")
  /\ UNCHANGED <<disk, settings, db, files, current, count, clock, manager, updated>>

WriteDatabase ==
  /\ pc = "writing" /\ Exits("writing", "0")
  /\ disk' = [disk EXCEPT !["database"] = Content]
  /\ Saved("database")
  /\ UNCHANGED <<settings, db, files, current, count, clock, manager, updated>>

(* `file << out.c_str()' is not checked: when it fails, what there is of   *)
(* the database counts as written.                                         *)
WriteFails ==
  /\ pc \in {"writing", "writing_new"} /\ Exits(pc, "0")
  /\ Saved("failed")
  /\ UNCHANGED <<disk, settings, db, files, current, count, clock, manager, updated>>

OpenNew ==
  /\ Goto("rename_failed", "writing_new")
  /\ disk' = [disk EXCEPT !["new"] = Partial]
  /\ UNCHANGED <<exit, run, runs, memory>>

WriteNew ==
  /\ pc = "writing_new" /\ Exits("writing_new", "0")
  /\ disk' = [disk EXCEPT !["new"] = Content]
  /\ Saved("new")
  /\ UNCHANGED <<settings, db, files, current, count, clock, manager, updated>>

Save ==
  \/ Rename \/ RenameFails \/ OpenDatabase \/ OpenFails \/ WriteDatabase \/ WriteFails
  \/ OpenNew \/ WriteNew

--------------------------------------------------------------------------------
Program ==
  \/ LoadConfig \/ ReadDatabase \/ ReadTrainingInput
  \/ NextFile \/ EndOfFiles
  \/ EndOfCapture
  \/ pc = "packets" /\ \E shape \in Capture.traffic : HandlePacket(shape)
  \/ \E h \in DOMAIN manager.table : Finish(h)
  \/ Finished
  \/ Save

Next == (\E s \in Scenarios : Start(s)) \/ Program \/ Crash \/ Restore

Spec == Init /\ [][Next]_vars

(* A program that can take a step is not left alone for ever. *)
FairSpec == Spec /\ WF_vars(Program)
--------------------------------------------------------------------------------
(* Properties *)

Running == pc # "down"
Reading == pc \in {"packets", "finishing"}
FlowsInTable == {manager.table[h] : h \in DOMAIN manager.table}

(* The disk holds files, the models trained are in the database, and every *)
(* flow of the table is in its place and open: addPacket of Flow and of    *)
(* FlowManager leave no closed one behind when nobody else has packets.    *)
TypeOK ==
  /\ pc \in Pc /\ runs \in 0 .. MaxRuns /\ run \in Scenarios
  /\ exit \in {"none", "0", "1", "aborted", "killed"}
  /\ \A n \in DiskFile : disk[n].state \in {"missing", "partial", "complete"}
  /\ current \in 0 .. Len(files) /\ count \in Nat /\ clock \in Nat /\ updated \in BOOLEAN
  /\ \A h \in DOMAIN manager.table :
       LET f == manager.table[h]
       IN  /\ Murmur(HashInput(f.tuple)) = h /\ f.state \notin Closed
           /\ f.id \in 1 .. manager.made /\ f.pktsInQueue = 0
           /\ f.pktCount <= f.overallPktCount
  /\ \A i \in DOMAIN history.trained : history.trained[i].model \in DOMAIN db.models

(* ProtocolModelDb::write moves the database to its backup before it       *)
(* writes the new one, and read() takes no file that was not finished:     *)
(* whenever the program is killed and however often it is started again,   *)
(* the latest database written is still on disk, whole, under its own name *)
(* or its backup's.                                                        *)
Generation ==
  LET g(n) == IF disk[n].state = "complete"
              THEN Len(Optional(disk[n].content, "ModifiedTime", << >>)) ELSE 0
  IN  IF g("database") >= g("backup") THEN g("database") ELSE g("backup")

Store == INSTANCE DatabaseStore WITH generation <- Generation
LatestDatabaseKept == Store!Spec

(* main of training calls finished() after each file: no flow is left over *)
(* to be trained as a flow of a later file, in which the same addresses    *)
(* and ports may belong to another protocol, and none is trained twice.    *)
TrainedUnderOwnFile ==
  /\ \A i \in DOMAIN history.trained : history.trained[i].tag = history.trained[i].file
  /\ \A i, j \in DOMAIN history.trained :
       i # j => history.trained[i].id # history.trained[j].id

(* ProtocolModelUpdater::flowFinished: the models and those of their meters*)
(* that any model enables are trained with the same flows, so that their   *)
(* flow counts, the weights of the fingerprints, grow together.            *)
CountsGrowTogether ==
  \A m \in DOMAIN db.models :
    LET now == db.models[m]
        then == history.asRead.models[m]
    IN  /\ now.flowCount - then.flowCount
             = Cardinality({i \in DOMAIN history.trained : history.trained[i].model = m})
        /\ \A i \in DOMAIN now.meters :
             now.meters[i].name \in db.enabledAttributes /\ FindMeter(now, now.meters[i].name) = i =>
               now.meters[i].flowCount - then.meters[i].flowCount
                 = now.flowCount - then.flowCount

(* What write() wrote is what read() makes of it the next time: limits,    *)
(* models, hints, counts and fingerprints, except for the models without a *)
(* meter, which are written so that they cannot be read.                   *)
WrittenIsReadBack ==
  history.saved = "database" =>
    LET back == ReadDb(disk["database"].content, 0)
        readable == {m \in DOMAIN db.models : db.models[m].meters # << >>}
    IN  /\ ReadOk(disk["database"])
        /\ back.models = Subsequence(db.models, readable)
        /\ back.definingLimit = db.definingLimit /\ back.cutoffLimit = db.cutoffLimit
        /\ back.modifiedTimes = <<runs>> \o history.asRead.modifiedTimes
        /\ LastModifiedTime(back, 0) = runs

(* A run of training that ends without an error of the file system has     *)
(* saved what it trained, but for flows whose model has none of the meters *)
(* that were measured: their count is raised and then forgotten.           *)
TrainingIsSaved ==
  /\ exit = "0" /\ history.trained # << >> /\ history.saved # "failed" =>
       \/ history.saved \in {"database", "new"}
       \/ \A i \in DOMAIN history.trained :
            \A j \in DOMAIN db.models[history.trained[i].model].meters :
              db.models[history.trained[i].model].meters[j].name \notin db.enabledAttributes

(* Every flow that pcap_classifier got to know well enough has one line of *)
(* results once it is gone, Classified or NotClassified, and no flow has   *)
(* two: the calls of FlowClassificationLogger come from different places,  *)
(* at different times, on one flow object.  A flow that is still there has *)
(* its line if it is classified.                                           *)
OneResultPerFlow ==
  run.program = "pcap_classifier" =>
    /\ \A i, j \in DOMAIN history.results : i # j => history.results[i] # history.results[j]
    /\ manager.gone \subseteq ToSet(history.results)
    /\ \A f \in FlowsInTable : f.classified <=> f.id \in ToSet(history.results)

(* Flow::addPacket: meters see no packet beyond the cutoff limit and none  *)
(* after the classification; a flow is classified at a packet between the  *)
(* limits, and what it was classified as stays.                            *)
LimitsRespected ==
  [][\A h \in DOMAIN manager.table \cap DOMAIN manager'.table :
       LET f == manager.table[h]
           g == manager'.table[h]
       IN  f.id = g.id =>
             /\ f.classified => /\ g.classified /\ g.protocol = f.protocol
                                /\ g.meters = f.meters
             /\ g.meters # f.meters => g.pktCount = f.pktCount + 1
                                       /\ g.pktCount <= db.cutoffLimit
             /\ g.classified /\ ~f.classified =>
                  /\ g.pktCount \in db.definingLimit .. db.cutoffLimit
                  /\ g.divergence \in 1 .. config.common.divergenceThreshold - 1]_vars

(* A flow that is compared with the models is compared with each of them:  *)
(* read() completes the order of every port with the models that do not    *)
(* hint at it.  Only a model that repeats a hint pushes the last one out.  *)
EveryModelHasItsTurn ==
  \A port \in DOMAIN db.portHintOrder \cup {0} :
    (\A m \in DOMAIN db.models : Hints(db.models[m], port) <= 1)
    => {ModelAt(db, i, port) : i \in 0 .. SizeOf(db) - 1} = DOMAIN db.models

(* Ipv4FlowHasher gives both directions of a connection one hash, so that  *)
(* no connection has two flows, not even between two ports of one address; *)
(* and a flow meets a packet that is in neither of its directions only     *)
(* when Murmur gives another connection the same hash.                     *)
OneFlowPerConnection ==
  /\ \A f, g \in FlowsInTable : SameFlow(f.tuple, g.tuple) => f = g
  /\ \A f \in FlowsInTable :
       f.pktCount > 0 /\ f.direction = "UNKNOWN" =>
         \E file \in DOMAIN run.captures : \E s \in run.captures[file].traffic :
           /\ ~SameFlow(s.tuple, f.tuple)
           /\ Murmur(HashInput(s.tuple)) = Murmur(HashInput(f.tuple))

(* The fingerprints of a flow are in their arrays, also when the third     *)
(* byte of a packet that was never there goes into the hash.               *)
BinsInRange ==
  \A f \in FlowsInTable : \A name \in DOMAIN f.meters :
    DOMAIN f.meters[name].fp \subseteq 0 .. f.meters[name].size - 1

(* "Sum of all P(i) = 1" (Flow.cpp:348), of every meter that has measured  *)
(* something, but for those in SumDiffers: First8 forgets the earlier      *)
(* packets, the bit positions count four bytes where there were fewer, and *)
(* the byte counts of the directions lose a byte to a truncated double.    *)
SumDiffers == {"ByteFrequencyFirst8PacketsMeter", "FirstBitPositionsMeter",
               "DirectionBytesCountMeter", "DirectionBytesCountFirst10PacketMeter"}

ProbabilitiesAddUp ==
  \A f \in FlowsInTable : \A name \in DOMAIN f.meters :
    LET m == f.meters[name]
    IN  /\ name \notin SumDiffers => Mass(m) = m.total
        /\ name \in {"DirectionBytesCountMeter", "DirectionBytesCountFirst10PacketMeter"} =>
             m.total - Mass(m) \in 0 .. 2 * f.pktCount

(* "Sum of all P(i) = 1" of the byte frequencies of the first eight        *)
(* packets, once they have measured something.                             *)
First8AddsUp ==
  \A f \in FlowsInTable :
    "ByteFrequencyFirst8PacketsMeter" \in DOMAIN f.meters =>
      LET m == f.meters["ByteFrequencyFirst8PacketsMeter"] IN Mass(m) = m.total

(* Neither program waits for anything but its files: every run ends.       *)
EveryRunEnds == (pc # "down") ~> (pc = "down")
================================================================================
