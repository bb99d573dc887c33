---------------------------- MODULE TrainingProofs ----------------------------
(***************************************************************************)
(* Theorems about what training does to the models and whether it is       *)
(* saved, for any databases, any list of flows to train with and any       *)
(* captures; and those of PcapPrograms' invariants that need to know what  *)
(* a database holds.                                                       *)
(***************************************************************************)
EXTENDS PcapProofs

-------------------------------------------------------------------------------
(* What a finished flow teaches a model *)

(* TrainModel counts the flow, for the model and for each of its meters    *)
(* that the flow has, once for each name.                                  *)
Taught(x, y, names) ==
  /\ IsModel(y) /\ y.name = x.name /\ y.portHints = x.portHints /\ y.flowCount = x.flowCount + 1
  /\ DOMAIN y.meters = DOMAIN x.meters
  /\ \A i \in DOMAIN x.meters :
       /\ y.meters[i].name = x.meters[i].name
       /\ x.meters[i].name \in names /\ FindMeter(x, x.meters[i].name) = i =>
            y.meters[i].flowCount = x.meters[i].flowCount + 1
  /\ \A name : FindMeter(y, name) = FindMeter(x, name)

(* It is so for every model and every flow, with names that repeat too.    *)
LEMMA TrainModelIs ==
  ASSUME NEW x, IsModel(x), NEW flow
  PROVE  Taught(x, TrainModel(x, flow), DOMAIN flow.meters)
<1>. PICK names : names = DOMAIN flow.meters
  OBVIOUS
<1>. PICK old : old = x.meters
  OBVIOUS
<1>. DEFINE Counts(i) == old[i].name \in names /\ FindMeter(x, old[i].name) = i
            new == [i \in DOMAIN old |-> IF Counts(i) THEN MergeMeter(old[i], flow.meters[old[i].name])
                                         ELSE old[i]]
            y == TrainModel(x, flow)
<1>1. /\ y = [name |-> y.name, flowCount |-> y.flowCount, enabled |-> y.enabled,
              portHints |-> y.portHints, meters |-> y.meters]
      /\ y.name = x.name /\ y.flowCount = x.flowCount + 1 /\ y.meters = new
      /\ y.portHints = x.portHints /\ AnySeq(x.portHints)
  <2>. PICK t : t = new
    OBVIOUS
  <2>1. y = [x EXCEPT !.flowCount = @ + 1, !.meters = t]
    BY DEF TrainModel
  <2>. HIDE DEF y, new
  <2>. QED
    BY <2>1 DEF IsModel
<1>. HIDE DEF y
<1>2. AnySeq(old) /\ \A i \in DOMAIN old : IsMeter(old[i])
  BY DEF IsModel
<1>3. ASSUME NEW m, IsMeter(m), NEW o
      PROVE  /\ IsMeter(MergeMeter(m, o)) /\ MergeMeter(m, o).name = m.name
             /\ MergeMeter(m, o).flowCount = m.flowCount + 1
  <2>. PICK f : f = Merge(m.fingerprint, m.flowCount, o)
    OBVIOUS
  <2>. PICK r : r = MergeMeter(m, o)
    OBVIOUS
  <2>1. r = [m EXCEPT !.fingerprint = f, !.flowCount = m.flowCount + 1]
    BY DEF MergeMeter
  <2>2. /\ m = [name |-> m.name, flowCount |-> m.flowCount, enabled |-> m.enabled,
                fingerprint |-> m.fingerprint]
        /\ m.flowCount \in Int /\ m.enabled \in BOOLEAN /\ m.name \in Registered
        /\ m.fingerprint.size = Create(m.name).size
    BY <1>3 DEF IsMeter
  <2>3. IsFingerPrint(f) /\ f.size = m.fingerprint.size
    BY <1>3, MergedIs DEF IsMeter
  <2>4. r = [name |-> m.name, flowCount |-> m.flowCount + 1, enabled |-> m.enabled,
             fingerprint |-> f]
    BY <2>1, <2>2
  <2>5. IsMeter(r)
    <3>1. /\ r.name = m.name /\ r.flowCount = m.flowCount + 1 /\ r.enabled = m.enabled
          /\ r.fingerprint = f
      BY <2>4
    <3>. QED
      BY <2>2, <2>3, <2>4, <3>1 DEF IsMeter
  <2>6. r.name = m.name /\ r.flowCount = m.flowCount + 1
    BY <2>4
  <2>. QED
    BY <2>5, <2>6
<1>4. ASSUME NEW i \in DOMAIN old
      PROVE  /\ IsMeter(new[i]) /\ new[i].name = old[i].name
             /\ Counts(i) => new[i].flowCount = old[i].flowCount + 1
  <2>1. new[i] = IF Counts(i) THEN MergeMeter(old[i], flow.meters[old[i].name]) ELSE old[i]
    OBVIOUS
  <2>. HIDE DEF new, Counts
  <2>. QED
    BY <1>2, <1>3, <2>1
<1>5. AnySeq(new) /\ Len(new) = Len(old) /\ DOMAIN new = DOMAIN old
  <2>. PICK t : t = new
    OBVIOUS
  <2>1. t = [i \in DOMAIN old |-> t[i]]
    OBVIOUS
  <2>2. AnySeq(t) /\ Len(t) = Len(old)
    BY <1>2, <2>1, MapAny
  <2>. QED
    BY <2>1, <2>2
<1>. HIDE DEF new
<1>6. IsModel(y)
  BY <1>1, <1>4, <1>5 DEF IsModel
<1>7. \A name : FindMeter(y, name) = FindMeter(x, name)
  BY <1>1, <1>2, <1>4, <1>5, SameNames
<1>. QED
  BY <1>1, <1>4, <1>5, <1>6, <1>7 DEF Taught, y

(* What a model has learned since it was read: n flows, and each of its    *)
(* enabled meters as many.                                                 *)
Grew(now, then, n, enabled) ==
  /\ IsModel(now) /\ IsModel(then) /\ DOMAIN now.meters = DOMAIN then.meters
  /\ now.name = then.name /\ now.portHints = then.portHints
  /\ now.flowCount - then.flowCount = n
  /\ \A i \in DOMAIN now.meters :
       now.meters[i].name \in enabled /\ FindMeter(now, now.meters[i].name) = i =>
         now.meters[i].flowCount - then.meters[i].flowCount = n

(* Flows have all of the enabled meters, so that one flow is one more.     *)
LEMMA GrowsByOne ==
  ASSUME NEW now, NEW then, NEW n \in Nat, NEW enabled, Grew(now, then, n, enabled),
         NEW flow, enabled \subseteq DOMAIN flow.meters
  PROVE  Grew(TrainModel(now, flow), then, n + 1, enabled)
<1>. PICK y : y = TrainModel(now, flow)
  OBVIOUS
<1>. PICK names : names = DOMAIN flow.meters
  OBVIOUS
<1>1. Taught(now, y, names)
  BY TrainModelIs DEF Grew
<1>2. y.flowCount - then.flowCount = n + 1
  BY <1>1 DEF Grew, Taught, IsModel
<1>3. ASSUME NEW i \in DOMAIN y.meters, y.meters[i].name \in enabled,
             FindMeter(y, y.meters[i].name) = i
      PROVE  y.meters[i].flowCount - then.meters[i].flowCount = n + 1
  <2>1. /\ i \in DOMAIN now.meters /\ now.meters[i].name = y.meters[i].name
        /\ FindMeter(now, now.meters[i].name) = i /\ now.meters[i].name \in enabled
    BY <1>1, <1>3 DEF Taught
  <2>2. now.meters[i].flowCount - then.meters[i].flowCount = n
    BY <2>1 DEF Grew
  <2>3. y.meters[i].flowCount = now.meters[i].flowCount + 1
    BY <1>1, <2>1 DEF Taught
  <2>4. now.meters[i].flowCount \in Int /\ then.meters[i].flowCount \in Int
    BY <2>1 DEF Grew, IsModel, IsMeter
  <2>. QED
    BY <2>2, <2>3, <2>4
<1>4. /\ DOMAIN y.meters = DOMAIN then.meters /\ IsModel(y) /\ IsModel(then)
      /\ y.name = then.name /\ y.portHints = then.portHints
  BY <1>1 DEF Taught, Grew
<1>. QED
  BY <1>2, <1>3, <1>4 DEF Grew

-------------------------------------------------------------------------------
(* What the calls of observers make of the models *)

(* Every flow to train with has its protocol in the database, since        *)
(* TrainingInput::read leaves out the others.                              *)
Named(d) ==
  \A i \in DOMAIN files :
    /\ AnySeq(files[i].flows)
    /\ \A k \in DOMAIN files[i].flows :
         \E m \in DOMAIN d.models : d.models[m].name = files[i].flows[k].protocol

(* So find() has a model for a flow that is in the list.                   *)
LEMMA ModelFound ==
  ASSUME NEW d, Named(d), current \in DOMAIN files, NEW flow, Listed(flow) # 0
  PROVE  TrainedModel(d, flow) \in DOMAIN d.models
<1>. PICK flows : flows = files[current].flows
  OBVIOUS
<1>5. Listed(flow) \in DOMAIN flows
  BY ListedIs DEF Named
<1>6. \E m \in DOMAIN d.models : d.models[m].name = flows[Listed(flow)].protocol
  BY <1>5 DEF Named
<1>. PICK name : name = flows[Listed(flow)].protocol
  OBVIOUS
<1>7. Find(d, name) \in DOMAIN d.models
  BY <1>6 DEF Find
<1>. QED
  BY <1>7 DEF TrainedModel

(* The flows of the notes s that went to model m.                          *)
Lessons(s, m) == {i \in DOMAIN s : s[i].model = m}

(* One more note is one more flow for its model.                           *)
LEMMA LessonsAppend ==
  ASSUME NEW s, AnySeq(s), NEW e, NEW m
  PROVE  LET n == Cardinality(Lessons(Append(s, e), m))
             k == Cardinality(Lessons(s, m))
         IN  k \in Nat /\ n = IF e.model = m THEN k + 1 ELSE k
<1>. PICK t : t = Append(s, e)
  OBVIOUS
<1>1. /\ DOMAIN s = 1 .. Len(s) /\ Len(s) \in Nat /\ DOMAIN t = 1 .. Len(s) + 1
      /\ \A i \in DOMAIN s : t[i] = s[i]
      /\ t[Len(s) + 1] = e
  BY AppendAny
<1>2. DOMAIN t = DOMAIN s \cup {Len(s) + 1} /\ Len(s) + 1 \notin DOMAIN s
  BY <1>1
<1>. PICK l : l = Len(s) + 1
  OBVIOUS
<1>3. Lessons(t, m) = IF e.model = m THEN Lessons(s, m) \cup {l} ELSE Lessons(s, m)
  BY <1>1, <1>2 DEF Lessons
<1>4. Lessons(s, m) \subseteq 1 .. Len(s) /\ l \notin Lessons(s, m)
  BY <1>1, <1>2 DEF Lessons
<1>5. IsFiniteSet(Lessons(s, m)) /\ Cardinality(Lessons(s, m)) \in Nat
  BY <1>1, <1>4, PlacesFinite
<1>6. Cardinality(Lessons(s, m) \cup {l}) = Cardinality(Lessons(s, m)) + 1
  BY <1>4, <1>5, OneMore
<1>. QED
  BY <1>3, <1>5, <1>6

NoneEnabled(model, enabled) == \A j \in DOMAIN model.meters : model.meters[j].name \notin enabled

LEMMA NoneEnabledTaught ==
  ASSUME NEW x, NEW y, NEW names, Taught(x, y, names), NEW enabled, NoneEnabled(x, enabled)
  PROVE  NoneEnabled(y, enabled)
BY DEF Taught, NoneEnabled

(* The notes tell what the models have learned since they were read; and   *)
(* while there is nothing to save, all of them had nothing to learn.       *)
NotesRight(s) ==
  /\ AnySeq(s.history.trained)
  /\ \A i \in DOMAIN s.history.trained : s.history.trained[i].model \in DOMAIN s.db.models
  /\ DOMAIN s.history.asRead.models = DOMAIN s.db.models
  /\ s.history.asRead.portHintOrder = s.db.portHintOrder /\ OrdersOf(s.history.asRead)
  /\ s.history.asRead.modifiedTimes = s.db.modifiedTimes
  /\ \A m \in DOMAIN s.db.models :
       Grew(s.db.models[m], s.history.asRead.models[m],
            Cardinality(Lessons(s.history.trained, m)), s.db.enabledAttributes)
  /\ ~s.updated => \A i \in DOMAIN s.history.trained :
       NoneEnabled(s.db.models[s.history.trained[i].model], s.db.enabledAttributes)
RightMemory(s) == IsMemory(s) /\ IsTypedDb(s.db) /\ s.updated \in BOOLEAN /\ NotesRight(s)
Learning(s) == RightMemory(s) /\ Named(s.db)

(* What observers hear about has all of the enabled meters.                *)
Complies(s, made, call) ==
  made /\ call.kind = "finished" => s.db.enabledAttributes \subseteq DOMAIN call.flow.meters

(* What Train does for one call keeps the notes right: a note more is a    *)
(* flow more, for the model and for all of its enabled meters.             *)
LEMMA LearningOn ==
  ASSUME NEW s, Learning(s), NEW made, NEW call, Complies(s, made, call),
         current \in DOMAIN files
  PROVE  LET t == Told(s, made, call)
         IN  Learning(t) /\ t.db.enabledAttributes = s.db.enabledAttributes
<1>. PICK t : t = Told(s, made, call)
  OBVIOUS
<1>1. /\ IsMemory(t) /\ t.history.asRead = s.history.asRead
      /\ t.db.definingLimit = s.db.definingLimit /\ t.db.cutoffLimit = s.db.cutoffLimit
      /\ t.db.enabledAttributes = s.db.enabledAttributes
      /\ t.db.portHintOrder = s.db.portHintOrder /\ t.db.modifiedTimes = s.db.modifiedTimes
  BY ToldIs DEF Learning, RightMemory
<1>2. CASE ~Trains(made, call)
  <2>1. t.db = s.db /\ t.updated = s.updated /\ t.history.trained = s.history.trained
    BY <1>2, TrainIs DEF Learning, RightMemory
  <2>. QED
    BY <1>1, <2>1 DEF Learning, RightMemory, NotesRight
<1>3. CASE Trains(made, call)
  <2>. PICK flow, m, enabled : flow = call.flow /\ m = TrainedModel(s.db, flow)
                               /\ enabled = s.db.enabledAttributes
    OBVIOUS
  <2>. PICK old, models, notes : old = s.db.models /\ models = t.db.models
                                 /\ notes = s.history.trained
    OBVIOUS
  <2>. PICK x, y : x = old[m] /\ y = TrainModel(x, flow)
    OBVIOUS
  <2>1. m \in DOMAIN old /\ enabled \subseteq DOMAIN flow.meters
    BY <1>3, ModelFound DEF Trains, Learning, RightMemory, Complies
  <2>2. Trained(s, made, call)
    BY <1>3, TrainsIs DEF Learning, RightMemory
  <2>3. /\ models = [old EXCEPT ![m] = y]
        /\ t.updated \in BOOLEAN
        /\ t.updated <=> s.updated \/ HasMeterOf(x, flow)
        /\ t.history.trained = Append(notes, Note(flow, m))
    BY <2>2, Zenon DEF Trained
  <2>4. AnySeq(old) /\ \A i \in DOMAIN old : IsModel(old[i])
    BY DEF Learning, RightMemory, IsTypedDb, IsModels
  <2>5. Taught(x, y, DOMAIN flow.meters)
    BY <2>1, <2>4, TrainModelIs
  <2>6. /\ DOMAIN models = DOMAIN old
        /\ \A i \in DOMAIN old : models[i] = IF i = m THEN y ELSE old[i]
    BY <2>1, <2>3
  <2>7. IsModels(models)
    <3>1. models = [i \in DOMAIN old |-> models[i]]
      BY <2>3
    <3>2. AnySeq(models)
      BY <2>4, <3>1, MapAny
    <3>3. IsModel(y)
      BY <2>5 DEF Taught
    <3>4. \A i \in DOMAIN models : IsModel(models[i])
      BY <2>4, <2>6, <3>3
    <3>. QED
      BY <3>2, <3>4 DEF IsModels
  <2>8. Named(t.db)
    <3>1. \A i \in DOMAIN old : models[i].name = old[i].name
      BY <2>5, <2>6 DEF Taught
    <3>. QED
      BY <2>6, <3>1 DEF Learning, RightMemory, Named
  <2>. PICK e : e = Note(flow, m)
    OBVIOUS
  <2>9. e.model = m
    BY DEF Note
  <2>10. /\ AnySeq(notes) /\ DOMAIN s.history.asRead.models = DOMAIN old
         /\ s.history.asRead.portHintOrder = s.db.portHintOrder /\ OrdersOf(s.history.asRead)
         /\ s.history.asRead.modifiedTimes = s.db.modifiedTimes
         /\ \A i \in DOMAIN notes : notes[i].model \in DOMAIN old
    BY DEF Learning, RightMemory, NotesRight
  <2>. PICK new : new = Append(notes, e)
    OBVIOUS
  <2>11. AnySeq(new) /\ \A i \in DOMAIN new : new[i] = e \/ (i \in DOMAIN notes /\ new[i] = notes[i])
    <3>1. /\ AnySeq(new) /\ DOMAIN notes = 1 .. Len(notes) /\ Len(notes) \in Nat
          /\ DOMAIN new = 1 .. Len(notes) + 1
          /\ \A i \in DOMAIN notes : new[i] = notes[i]
          /\ new[Len(notes) + 1] = e
      BY <2>10, AppendAny
    <3>2. \A i \in DOMAIN new : i \in DOMAIN notes \/ i = Len(notes) + 1
      BY <3>1
    <3>. QED
      BY <3>1, <3>2
  <2>12. \A i \in DOMAIN new : new[i].model \in DOMAIN models
    BY <2>1, <2>6, <2>9, <2>10, <2>11
  <2>13. ASSUME NEW k \in DOMAIN models
         PROVE  Grew(models[k], s.history.asRead.models[k], Cardinality(Lessons(new, k)), enabled)
    <3>. PICK then, n, j : /\ then = s.history.asRead.models[k]
                           /\ n = Cardinality(Lessons(notes, k))
                           /\ j = Cardinality(Lessons(new, k))
      OBVIOUS
    <3>1. Grew(old[k], then, n, enabled)
      BY <2>6 DEF Learning, RightMemory, NotesRight
    <3>2. n \in Nat /\ j = IF k = m THEN n + 1 ELSE n
      <4>1. n \in Nat /\ j = IF e.model = k THEN n + 1 ELSE n
        BY <2>10, LessonsAppend
      <4>. QED
        BY <2>9, <4>1
    <3>3. CASE k = m
      <4>1. Grew(TrainModel(old[k], flow), then, n + 1, enabled)
        BY <2>1, <3>1, <3>2, GrowsByOne
      <4>. QED
        BY <2>6, <3>2, <3>3, <4>1
    <3>4. CASE k # m
      BY <2>6, <3>1, <3>2, <3>4
    <3>. QED
      BY <3>3, <3>4
  <2>14. ASSUME ~t.updated, NEW i \in DOMAIN new
         PROVE  NoneEnabled(models[new[i].model], enabled)
    <3>1. ~s.updated /\ ~HasMeterOf(x, flow)
      BY <2>3, <2>14, Zenon
    <3>2. NoneEnabled(x, enabled)
      BY <2>1, <3>1 DEF HasMeterOf, NoneEnabled
    <3>3. NoneEnabled(y, enabled)
      BY <2>5, <3>2, NoneEnabledTaught
    <3>4. CASE new[i] = e
      BY <2>1, <2>6, <2>9, <3>3, <3>4
    <3>5. CASE i \in DOMAIN notes /\ new[i] = notes[i]
      <4>1. NoneEnabled(old[notes[i].model], enabled) /\ notes[i].model \in DOMAIN old
        BY <2>10, <3>1, <3>5 DEF Learning, RightMemory, NotesRight
      <4>2. NoneEnabled(models[notes[i].model], enabled)
        BY <2>6, <3>3, <4>1
      <4>. QED
        BY <3>5, <4>2, Zenon
    <3>. QED
      BY <2>11, <3>4, <3>5
  <2>15. NotesRight(t)
    BY <1>1, <2>3, <2>6, <2>10, <2>11, <2>12, <2>13, <2>14 DEF NotesRight
  <2>16. IsTypedDb(t.db)
    BY <1>1, <2>7 DEF Learning, RightMemory, IsTypedDb, IsMemory
  <2>. QED
    BY <1>1, <2>3, <2>8, <2>15, <2>16 DEF Learning, RightMemory
<1>. QED
  BY <1>2, <1>3

-------------------------------------------------------------------------------
(* The course of the programs *)

(* A program reads its files in their order, and all of its captures are   *)
(* known; while it runs it has not ended.                                  *)
ProgramInv ==
  /\ pc \in Pc /\ runs \in 0 .. MaxRuns /\ run \in Scenarios
  /\ exit \in {"none", "0", "1", "aborted", "killed"} /\ (pc # "down" => exit = "none")
  /\ count \in Nat /\ clock \in Nat
  /\ AnySeq(files) /\ current \in 0 .. Len(files)
  /\ \A i \in DOMAIN files : files[i].name \in DOMAIN run.captures
  /\ pc \in {"config", "database", "input"} => current = 0
  /\ pc \in {"packets", "finishing"} => current \in DOMAIN files

(* Places in the list of files are positions from one on.                  *)
LEMMA FilePlaces ==
  ASSUME AnySeq(files)
  PROVE  Len(files) \in Nat /\ DOMAIN files = 1 .. Len(files)
BY SeqIsAny DEF AnySeq

(* It holds before the first program starts.                               *)
LEMMA ProgramInit == Init => ProgramInv
BY EmptyIsAny, PcapAssumption DEF Init, ProgramInv, Pc

(* A step that goes on with the same files, to another place or none.      *)
LEMMA SameList ==
  ASSUME ProgramInv, pc' \in Pc, runs' \in 0 .. MaxRuns,
         exit' \in {"none", "0", "1", "aborted", "killed"}, pc' # "down" => exit' = "none",
         UNCHANGED <<run, files, current, count, clock>>,
         pc' \in {"config", "database", "input"} => current = 0,
         pc' \in {"packets", "finishing"} => pc \in {"packets", "finishing"}
  PROVE  ProgramInv'
BY DEF ProgramInv

(* The files of an input are captures, and files[i] is of the i-th.        *)
LEMMA FilesGiven ==
  ASSUME NEW s \in Scenarios
  PROVE  /\ AnySeq(s.input.files)
         /\ \A i \in DOMAIN s.input.files : s.input.files[i].file \in DOMAIN s.captures
<1>1. IsList(s.input.files)
  BY PcapAssumption
<1>2. \A i \in DOMAIN s.input.files : s.input.files[i].file \in DOMAIN s.captures
  BY PcapAssumption
<1>. QED
  BY <1>1, <1>2 DEF IsList, AnySeq

FilesOf(list, captures) ==
  [i \in DOMAIN list |-> [name |-> list[i].file, exists |-> captures[list[i].file].exists,
                          flows |-> FlowsToTrain(list[i].flows)]]

LEMMA FilesNamed ==
  ASSUME NEW list, NEW captures, NEW t, t = FilesOf(list, captures)
  PROVE  /\ t = [i \in DOMAIN list |-> t[i]]
         /\ \A i \in DOMAIN list : t[i].name = list[i].file
BY DEF FilesOf

(* Every step keeps it.                                                    *)
LEMMA ProgramKept == ProgramInv /\ [Next]_vars => ProgramInv'
<1>. SUFFICES ASSUME ProgramInv, [Next]_vars PROVE ProgramInv'
  OBVIOUS
<1>1. ASSUME NEW s \in Scenarios, Start(s) PROVE ProgramInv'
  <2>1. runs' \in 0 .. MaxRuns /\ run' = s
    <3>1. runs < MaxRuns /\ runs' = runs + 1 /\ run' = s
      BY <1>1, Zenon DEF Start
    <3>2. runs \in 0 .. MaxRuns /\ MaxRuns \in Nat
      BY PcapAssumption DEF ProgramInv
    <3>. QED
      BY <3>1, <3>2
  <2>2. /\ pc' \in {"config", "down"} /\ (pc' # "down" => exit' = "none")
        /\ exit' \in {"none", "0", "1", "aborted", "killed"}
    <3>1. AfterOptions(s) \in {"0", "1", "aborted", "goes on"}
      BY DEF AfterOptions
    <3>2. IF AfterOptions(s) = "goes on" THEN pc' = "config" /\ exit' = "none"
          ELSE pc' = "down" /\ exit' = AfterOptions(s)
      BY <1>1 DEF Start
    <3>. QED
      BY <3>1, <3>2
  <2>3. files' = << >> /\ current' = 0 /\ count' = 0 /\ clock' = 0
    BY <1>1 DEF Start
  <2>. QED
    BY <2>1, <2>2, <2>3, EmptyIsAny DEF ProgramInv, Pc
<1>2. CASE LoadConfig
  <2>1. UNCHANGED <<run, runs, files, current, count, clock>> /\ pc = "config"
        /\ \/ pc' = "down" /\ exit' \in {"aborted", "1"}
           \/ pc' = "database" /\ exit' = exit
    BY <1>2 DEF LoadConfig, Exits, Goto
  <2>. QED
    BY <2>1, SameList DEF ProgramInv, Pc
<1>3. CASE ReadDatabase
  <2>1. /\ UNCHANGED <<run, runs, current, count, clock>> /\ pc = "database"
        /\ \/ pc' = "down" /\ exit' = "1"
           \/ pc' \in {"input", "next"} /\ exit' = exit
    BY <1>3 DEF ReadDatabase, Exits, Goto, settings
  <2>2. AnySeq(files') /\ \A i \in DOMAIN files' : files'[i].name \in DOMAIN run.captures
    <3>1. CASE run.program = "training"
      BY <1>3, <3>1, EmptyIsAny DEF ReadDatabase
    <3>2. CASE run.program # "training"
      <4>. PICK e : e = [name |-> run.pcap, exists |-> TRUE, flows |-> << >>]
        OBVIOUS
      <4>1. files' = <<e>>
        BY <1>3, <3>2 DEF ReadDatabase
      <4>2. AnySeq(<<e>>) /\ DOMAIN <<e>> = {1} /\ <<e>>[1] = e
        <5>1. <<e>> \in Seq({e}) /\ Len(<<e>>) = 1 /\ <<e>>[1] = e
          OBVIOUS
        <5>2. AnySeq(<<e>>) /\ DOMAIN <<e>> = 1 .. 1
          BY <5>1, SeqIsAny
        <5>. QED
          BY <5>1, <5>2
      <4>3. run.pcap \in DOMAIN run.captures
        <5>1. run \in Scenarios
          BY DEF ProgramInv
        <5>2. /\ run.program \in {"training", "pcap_classifier"}
              /\ run.program = "pcap_classifier" => run.pcap \in DOMAIN run.captures
          BY <5>1, PcapAssumption
        <5>. QED
          BY <3>2, <5>2
      <4>. QED
        BY <4>1, <4>2, <4>3
    <3>. QED
      BY <3>1, <3>2
  <2>3. current' = 0 /\ current' \in 0 .. Len(files')
    <3>1. Len(files') \in Nat
      BY <2>2, SeqIsAny DEF AnySeq
    <3>. QED
      BY <2>1, <3>1 DEF ProgramInv
  <2>. QED
    BY <2>1, <2>2, <2>3 DEF ProgramInv, Pc
<1>4. CASE ReadTrainingInput
  <2>1. /\ UNCHANGED <<run, runs, current, count, clock>> /\ pc = "input"
        /\ \/ pc' = "down" /\ exit' \in {"aborted", "1"}
           \/ pc' = "next" /\ exit' = exit
    BY <1>4 DEF ReadTrainingInput, Exits, Goto, settings
  <2>2. AnySeq(files') /\ \A i \in DOMAIN files' : files'[i].name \in DOMAIN run.captures
    <3>1. CASE run.input.kind # "good"
      BY <1>4, <3>1, EmptyIsAny DEF ReadTrainingInput
    <3>2. CASE run.input.kind = "good"
      <4>. PICK list, t : list = run.input.files /\ t = files'
        OBVIOUS
      <4>1. t = FilesOf(list, run.captures)
        BY <1>4, <3>2 DEF ReadTrainingInput, FilesToTrain, FilesOf
      <4>2. AnySeq(list) /\ \A i \in DOMAIN list : list[i].file \in DOMAIN run.captures
        <5>1. run \in Scenarios
          BY DEF ProgramInv
        <5>. QED
          BY <5>1, FilesGiven
      <4>3. t = [i \in DOMAIN list |-> t[i]] /\ \A i \in DOMAIN list : t[i].name = list[i].file
        BY <4>1, FilesNamed
      <4>. QED
        BY <4>2, <4>3, MapAny
    <3>. QED
      BY <3>1, <3>2
  <2>3. current' = 0 /\ current' \in 0 .. Len(files')
    <3>1. Len(files') \in Nat
      BY <2>2, SeqIsAny DEF AnySeq
    <3>. QED
      BY <2>1, <3>1 DEF ProgramInv
  <2>. QED
    BY <2>1, <2>2, <2>3 DEF ProgramInv, Pc
<1>5. CASE NextFile
  <2>1. /\ pc' \in {"packets", "next"} /\ current < Len(files) /\ current' = current + 1 /\ count' = 0
        /\ UNCHANGED <<run, runs, exit, files, clock>> /\ pc = "next"
    BY <1>5 DEF NextFile, settings
  <2>2. current' \in 0 .. Len(files) /\ current' \in DOMAIN files
    BY <2>1, FilePlaces DEF ProgramInv
  <2>. QED
    BY <2>1, <2>2 DEF ProgramInv, Pc
<1>6. CASE EndOfFiles \/ EndOfCapture \/ Finished
  <2>1. /\ UNCHANGED <<run, runs, files, current, count, clock>>
        /\ \/ pc' = "down" /\ exit' = "0"
           \/ pc' \in {"save", "next"} /\ exit' = exit /\ pc # "down"
           \/ pc = "packets" /\ pc' = "finishing" /\ exit' = exit
    BY <1>6 DEF EndOfFiles, EndOfCapture, Finished, Exits, Goto, settings
  <2>. QED
    BY <2>1, SameList DEF ProgramInv, Pc
<1>7. CASE Save
  <2>1. UNCHANGED <<run, runs, files, current, count, clock>>
    BY <1>7 DEF Save, Rename, RenameFails, OpenDatabase, OpenFails, WriteDatabase, WriteFails,
                OpenNew, WriteNew, memory, settings
  <2>2. \/ pc' = "down" /\ exit' = "0"
        \/ pc' \in {"renamed", "rename_failed", "writing", "writing_new"} /\ exit' = exit
           /\ pc # "down"
    BY <1>7 DEF Save, Rename, RenameFails, OpenDatabase, OpenFails, WriteDatabase, WriteFails,
                OpenNew, WriteNew, Exits, Goto
  <2>. QED
    BY <2>1, <2>2, SameList DEF ProgramInv, Pc
<1>8. CASE Crash \/ Restore
  <2>1. /\ UNCHANGED <<run, runs, files, current, count, clock>>
        /\ pc' = "down" /\ exit' \in {"killed", exit}
    BY <1>8 DEF Crash, Restore, Exits, Goto, memory
  <2>. QED
    BY <2>1, SameList DEF ProgramInv, Pc
<1>9. ASSUME pc = "packets", NEW shape \in Capture.traffic, HandlePacket(shape)
      PROVE  ProgramInv'
  <2>1. shape.gap \in Nat
    <3>1. files[current].name \in DOMAIN run.captures
      BY <1>9 DEF ProgramInv
    <3>. QED
      BY <3>1, PcapAssumption DEF ProgramInv, Capture
  <2>2. /\ count' = count + 1 /\ clock' = clock + shape.gap
        /\ UNCHANGED <<pc, exit, run, runs, files, current>>
    BY <1>9 DEF HandlePacket, settings
  <2>3. count' \in Nat /\ clock' \in Nat
    BY <2>1, <2>2 DEF ProgramInv
  <2>. QED
    BY <2>2, <2>3 DEF ProgramInv
<1>10. ASSUME NEW h, Finish(h) PROVE ProgramInv'
  BY <1>10 DEF Finish, settings, ProgramInv
<1>11. CASE UNCHANGED vars
  BY <1>11 DEF vars, ProgramInv
<1>. QED
  BY <1>1, <1>2, <1>3, <1>4, <1>5, <1>6, <1>7, <1>8, <1>9, <1>10, <1>11, Steps
  DEF Quiet, Preparation

-------------------------------------------------------------------------------
(* The files on disk *)

(* write() writes a typed file.                                            *)
LEMMA DbWritten ==
  ASSUME IsTypedDb(db), runs \in Nat, db.modifiedTimes \in Seq(Nat)
  PROVE  Content.state = "complete" /\ WellTyped(Content.content)
<1>. DEFINE c == [DefiningLimit |-> db.definingLimit, CutoffLimit |-> db.cutoffLimit,
                  ModifiedTime |-> <<runs>> \o db.modifiedTimes]
            models == [i \in DOMAIN db.models |-> WriteProtocolModel(db.models[i])]
            list == [ProtocolModels |-> models]
            w == WriteDb(db, runs)
<1>1. w = c \/ w = Over(c, list)
  BY DEF WriteDb
<1>2. AnySeq(models)
  <2>. PICK t, s : t = models /\ s = db.models
    OBVIOUS
  <2>1. AnySeq(s) /\ t = [i \in DOMAIN s |-> t[i]]
    BY DEF IsTypedDb, IsModels
  <2>2. AnySeq(t)
    BY <2>1, MapAny
  <2>. QED
    BY <2>2
<1>3. \A i \in DOMAIN models : TypedModel(models[i])
  BY ModelWritten DEF IsTypedDb, IsModels
<1>4. /\ DOMAIN c = {"DefiningLimit", "CutoffLimit", "ModifiedTime"}
      /\ c["DefiningLimit"] \in Int /\ c["CutoffLimit"] \in Int
      /\ DOMAIN list = {"ProtocolModels"} /\ list["ProtocolModels"] = models
  BY DEF IsTypedDb
<1>5. Content.state = "complete" /\ Content.content = w
  BY DEF Content, Complete
<1>6. Optional(w, "ModifiedTime", << >>) \in Seq(Nat)
  BY <1>5, ContentIs
<1>. HIDE DEF c, models, list, w
<1>7. Optional(w, "DefiningLimit", 0) \in Int /\ Optional(w, "CutoffLimit", 0) \in Int
  BY <1>1, <1>4 DEF Over, Optional, Has
<1>8. Optional(w, "ProtocolModels", << >>) \in {<< >>, models}
  BY <1>1, <1>4 DEF Over, Optional, Has
<1>9. LET k == Optional(w, "ProtocolModels", << >>)
      IN  AnySeq(k) /\ \A i \in DOMAIN k : TypedModel(k[i])
  BY <1>2, <1>3, <1>8, EmptyIsAny
<1>. QED
  BY <1>5, <1>6, <1>7, <1>9 DEF WellTyped, IsList, AnySeq

(* A file that can be read has what read() asks for in it.                 *)
FileOk(file) ==
  file.state \in {"missing", "partial", "complete"} /\ (file.state = "complete" => WellTyped(file.content))
DiskInv == \A n \in DiskFile : FileOk(disk[n])

(* So it is with the databases that there are to begin with.               *)
LEMMA DiskInit == Init => DiskInv
<1>. SUFFICES ASSUME Init PROVE DiskInv
  OBVIOUS
<1>1. PICK s \in Scenarios : \E file \in s.databases :
        disk = [n \in DiskFile |-> IF n = "database" THEN file ELSE NoFile]
  BY DEF Init
<1>2. PICK file \in s.databases :
        disk = [n \in DiskFile |-> IF n = "database" THEN file ELSE NoFile]
  BY <1>1
<1>3. FileOk(file)
  BY PcapAssumption DEF FileOk
<1>4. FileOk(NoFile)
  BY DEF FileOk, NoFile
<1>. QED
  BY <1>2, <1>3, <1>4 DEF DiskInv

(* Saving writes nothing else.                                             *)
LEMMA DiskKept ==
  Shape /\ StoreInv /\ DiskInv /\ IsTypedDb(db) /\ [Next]_vars => DiskInv'
<1>. SUFFICES ASSUME Shape, StoreInv, DiskInv, IsTypedDb(db), [Next]_vars PROVE DiskInv'
  OBVIOUS
<1>1. CASE UNCHANGED disk
  BY <1>1 DEF DiskInv
<1>2. disk = [n \in DiskFile |-> disk[n]]
  BY DEF Shape
<1>3. FileOk(Partial) /\ FileOk(NoFile)
  BY DEF FileOk, Partial, NoFile
<1>4. ASSUME pc \in {"writing", "writing_new"} PROVE FileOk(Content)
  <2>1. db.modifiedTimes \in Seq(Nat) /\ runs \in Nat
    BY <1>4 DEF StoreInv, HasRead
  <2>2. Content.state = "complete" /\ WellTyped(Content.content)
    BY <2>1, DbWritten
  <2>. QED
    BY <2>2 DEF FileOk
<1>5. ASSUME NEW n \in DiskFile, NEW file, FileOk(file), disk' = [disk EXCEPT ![n] = file]
      PROVE  DiskInv'
  <2>. QED
    BY <1>2, <1>5 DEF DiskInv
<1>6. CASE Save
  <2>. USE DEF DiskFile
  <2>1. CASE Rename
    <3>1. disk' = [disk EXCEPT !["backup"] = disk["database"], !["database"] = NoFile]
      BY <2>1 DEF Rename
    <3>2. FileOk(disk["database"])
      BY DEF DiskInv
    <3>. QED
      BY <1>2, <1>3, <3>1, <3>2 DEF DiskInv
  <2>2. CASE OpenDatabase
    BY <1>3, <1>5, <2>2 DEF OpenDatabase
  <2>3. CASE OpenNew
    BY <1>3, <1>5, <2>3 DEF OpenNew
  <2>4. CASE WriteDatabase
    BY <1>4, <1>5, <2>4 DEF WriteDatabase
  <2>5. CASE WriteNew
    BY <1>4, <1>5, <2>5 DEF WriteNew
  <2>6. CASE RenameFails \/ OpenFails \/ WriteFails
    BY <1>1, <2>6 DEF RenameFails, OpenFails, WriteFails
  <2>. QED
    BY <1>6, <2>1, <2>2, <2>3, <2>4, <2>5, <2>6 DEF Save
<1>7. CASE Restore
  <2>1. disk' = [disk EXCEPT !["database"] = disk["backup"]]
    BY <1>7 DEF Restore
  <2>2. FileOk(disk["backup"])
    BY DEF DiskInv, DiskFile
  <2>. QED
    BY <1>5, <2>1, <2>2 DEF DiskFile
<1>8. CASE LoadConfig \/ ReadDatabase \/ ReadTrainingInput \/ Crash \/ NextFile \/ EndOfFiles
           \/ EndOfCapture \/ Finished \/ UNCHANGED vars
  BY <1>1, <1>8 DEF LoadConfig, ReadDatabase, ReadTrainingInput, Crash, NextFile, EndOfFiles,
                    EndOfCapture, Finished, vars
<1>9. ASSUME NEW s, Start(s) PROVE DiskInv'
  BY <1>1, <1>9 DEF Start
<1>10. ASSUME NEW shape, HandlePacket(shape) PROVE DiskInv'
  BY <1>1, <1>10 DEF HandlePacket
<1>11. ASSUME NEW h, Finish(h) PROVE DiskInv'
  BY <1>1, <1>11 DEF Finish
<1>. QED
  BY <1>6, <1>7, <1>8, <1>9, <1>10, <1>11, Steps DEF Quiet, Preparation

-------------------------------------------------------------------------------
(* What was learned, from the first flow to the last file written *)

ChosenFrom(flows, chosen, nodes, keep) ==
  /\ \A i \in DOMAIN nodes \cap keep : Find(db, nodes[i].protocol) # 0
  /\ flows = [i \in DOMAIN chosen |-> flows[i]]
  /\ \A i \in DOMAIN chosen : flows[i].protocol = chosen[i].protocol

(* TrainingInput::read keeps only flows whose protocol find() finds.       *)
LEMMA FlowsNamed ==
  ASSUME NEW nodes, AnySeq(nodes)
  PROVE  LET flows == FlowsToTrain(nodes)
         IN  /\ AnySeq(flows)
             /\ \A k \in DOMAIN flows :
                  \E m \in DOMAIN db.models : db.models[m].name = flows[k].protocol
<1>1. PICK keep : ChosenFrom(FlowsToTrain(nodes), Subsequence(nodes, keep), nodes, keep)
  <2>. DEFINE usable(f) == /\ f.addresses = "good" /\ StrToTransport(f.transport) # 0
                           /\ Find(db, f.protocol) # 0
              Tuple(f) == [f.tuple EXCEPT !.protocol = StrToTransport(f.transport)]
  <2>. PICK keep : keep = {i \in DOMAIN nodes : usable(nodes[i])}
    OBVIOUS
  <2>. PICK chosen, flows : chosen = Subsequence(nodes, keep) /\ flows = FlowsToTrain(nodes)
    OBVIOUS
  <2>1. flows = [i \in DOMAIN chosen |-> [tuple |-> Tuple(chosen[i]),
                                          protocol |-> chosen[i].protocol]]
    BY DEF FlowsToTrain
  <2>2. \A i \in DOMAIN nodes \cap keep : Find(db, nodes[i].protocol) # 0
    OBVIOUS
  <2>. HIDE DEF Tuple, usable
  <2>3. ChosenFrom(flows, chosen, nodes, keep)
    <3>1. flows = [i \in DOMAIN chosen |-> flows[i]]
      BY <2>1
    <3>2. \A i \in DOMAIN chosen : flows[i].protocol = chosen[i].protocol
      BY <2>1
    <3>. QED
      BY <2>2, <3>1, <3>2 DEF ChosenFrom
  <2>4. ChosenFrom(FlowsToTrain(nodes), Subsequence(nodes, keep), nodes, keep)
    BY <2>3
  <2>. QED
    BY <2>4, Zenon
<1>. PICK chosen, flows : chosen = Subsequence(nodes, keep) /\ flows = FlowsToTrain(nodes)
  OBVIOUS
<1>2. FromPlaces(chosen, nodes, keep)
  BY SubsequenceIs
<1>3. AnySeq(chosen)
  BY <1>2 DEF FromPlaces
<1>4. ChosenFrom(flows, chosen, nodes, keep) /\ flows = [i \in DOMAIN chosen |-> flows[i]]
  BY <1>1 DEF ChosenFrom
<1>5. AnySeq(flows)
  BY <1>3, <1>4, MapAny
<1>6. ASSUME NEW k \in DOMAIN flows
      PROVE  \E m \in DOMAIN db.models : db.models[m].name = flows[k].protocol
  <2>1. k \in DOMAIN chosen
    BY <1>4
  <2>2. PICK j \in DOMAIN nodes \cap keep : chosen[k] = nodes[j]
    BY <1>2, <2>1 DEF FromPlaces
  <2>3. Find(db, flows[k].protocol) # 0
    BY <1>4, <2>1, <2>2 DEF ChosenFrom
  <2>. QED
    BY <2>3 DEF Find
<1>. QED
  BY <1>5, <1>6

(* The notes are right, every flow has the meters that are enabled, and    *)
(* what was learned is saved, but for an error or where it is nothing.     *)
LessonsInv ==
  /\ Learning(Memory)
  /\ \A h \in DOMAIN manager.table : db.enabledAttributes \subseteq DOMAIN manager.table[h].meters
  /\ pc \in {"config", "database", "input"} => history.trained = << >>
  /\ exit = "0" /\ history.trained # << >> =>
       history.saved \in {"database", "new", "failed"} \/ ~updated

(* Just after read() nothing was learned.                                  *)
LEMMA NothingLearned ==
  ASSUME NEW d, IsTypedDb(d), OrdersOf(d), NEW h, IsHistory(h), h.asRead = d, h.trained = << >>,
         NEW u \in BOOLEAN
  PROVE  RightMemory([db |-> d, updated |-> u, history |-> h])
<1>. PICK s : s = [db |-> d, updated |-> u, history |-> h]
  OBVIOUS
<1>1. s.db = d /\ s.updated = u /\ s.history = h
  OBVIOUS
<1>2. IsMemory(s)
  BY <1>1 DEF IsMemory, IsTypedDb
<1>3. ASSUME NEW m \in DOMAIN d.models
      PROVE  Grew(d.models[m], d.models[m], Cardinality(Lessons(<< >>, m)), d.enabledAttributes)
  <2>. PICK x : x = d.models[m]
    OBVIOUS
  <2>1. IsModel(x)
    BY DEF IsTypedDb, IsModels
  <2>2. Lessons(<< >>, m) = {}
    BY EmptyIsAny DEF Lessons
  <2>3. Grew(x, x, 0, d.enabledAttributes)
    <3>1. x.flowCount \in Int /\ \A i \in DOMAIN x.meters : x.meters[i].flowCount \in Int
      BY <2>1 DEF IsModel, IsMeter
    <3>2. x.flowCount - x.flowCount = 0
          /\ \A i \in DOMAIN x.meters : x.meters[i].flowCount - x.meters[i].flowCount = 0
      BY <3>1
    <3>. QED
      BY <2>1, <3>2 DEF Grew
  <2>. QED
    BY <2>2, <2>3, NoneAreZero
<1>4. NotesRight(s)
  BY <1>1, <1>3, EmptyIsAny DEF NotesRight
<1>. QED
  BY <1>1, <1>2, <1>4 DEF RightMemory

(* The database is typed before it is read.                                *)
LEMMA UnreadTyped == IsTypedDb(UnreadDb) /\ OrdersOf(UnreadDb)
<1>1. IsDb(UnreadDb) /\ UnreadDb.models = << >>
      /\ UnreadDb.definingLimit = 10 /\ UnreadDb.cutoffLimit = 100
      /\ DOMAIN UnreadDb.portHintOrder = {}
  BY DEF UnreadDb, IsDb, NoModels
<1>. QED
  BY <1>1, EmptyIsAny DEF IsTypedDb, IsModels, OrdersOf

(* It holds before the first program starts.                               *)
LEMMA LessonsInit == Init => LessonsInv
<1>. SUFFICES ASSUME Init PROVE LessonsInv
  OBVIOUS
<1>1. /\ db = UnreadDb /\ history = NoHistory /\ updated = FALSE /\ files = << >>
      /\ exit = "none" /\ DOMAIN manager.table = {}
  BY DEF Init, NewManager
<1>2. IsHistory(NoHistory) /\ NoHistory.asRead = UnreadDb /\ NoHistory.trained = << >>
  BY DEF NoHistory, IsHistory
<1>3. Named(UnreadDb)
  BY <1>1, EmptyIsAny DEF Named
<1>4. RightMemory([db |-> UnreadDb, updated |-> FALSE, history |-> NoHistory])
  BY <1>2, NothingLearned, UnreadTyped
<1>. QED
  BY <1>1, <1>2, <1>3, <1>4 DEF LessonsInv, Learning, Memory

(* What the variables become is what was heard.                            *)
LEMMA MemoryNow ==
  ASSUME NEW t, RightMemory(t), Becomes(t), Named(t.db)'
  PROVE  Learning(Memory)'
<1>1. t = [db |-> t.db, updated |-> t.updated, history |-> t.history]
  BY DEF RightMemory, IsMemory
<1>2. Memory' = t
  BY <1>1 DEF Memory, Becomes
<1>3. RightMemory(Memory)' /\ Memory'.db = t.db
  BY <1>2 DEF RightMemory, IsMemory, NotesRight
<1>. QED
  BY <1>3 DEF Learning, Named

(* The same notes about the same models.                                   *)
LEMMA SameNotes ==
  ASSUME NEW s, RightMemory(s), NEW t, IsMemory(t), t.db = s.db, t.updated = s.updated,
         t.history.trained = s.history.trained, t.history.asRead = s.history.asRead
  PROVE  RightMemory(t)
BY DEF RightMemory, NotesRight

(* A step that changes neither models nor notes nor the table.             *)
LEMMA SameLessons ==
  ASSUME LessonsInv, Shape', UNCHANGED <<db, updated, manager>>, Named(db)',
         history'.trained = history.trained, history'.asRead = history.asRead,
         pc' \in {"config", "database", "input"} => pc \in {"config", "database", "input"},
         \/ exit' # "0"
         \/ exit' = exit /\ history'.saved = history.saved
         \/ history'.saved \in {"database", "new", "failed"}
         \/ updated \in BOOLEAN /\ ~updated
  PROVE  LessonsInv'
<1>. PICK s, t : s = Memory /\ t = [db |-> db, updated |-> updated, history |-> history']
  OBVIOUS
<1>1. /\ s.db = db /\ s.updated = updated /\ s.history = history
      /\ t.db = db /\ t.updated = updated /\ t.history = history'
  BY DEF Memory
<1>2. IsMemory(t)
  BY <1>1 DEF Shape, IsMemory
<1>3. RightMemory(t)
  BY <1>1, <1>2, SameNotes DEF LessonsInv, Learning
<1>4. Becomes(t) /\ Named(t.db)'
  BY <1>1 DEF Becomes
<1>5. Learning(Memory)'
  BY <1>3, <1>4, MemoryNow
<1>. QED
  BY <1>5 DEF LessonsInv

(* While the list of files is the same, the protocols have their models.   *)
LEMMA StillNamed ==
  ASSUME LessonsInv, UNCHANGED <<db, files>>
  PROVE  Named(db)'
BY DEF LessonsInv, Learning, Memory, Named

(* What a packet teaches.                                                  *)
LEMMA PacketLearned ==
  ASSUME Shape, LessonsInv, ProgramInv, NEW p, NEW f, NEW g, PacketStep(p, f, g),
         FlowStep(p, f, g), current \in DOMAIN files, UNCHANGED <<pc, exit, files>>, pc # "down"
  PROVE  LessonsInv'
<1>. DEFINE old == FlowOf(manager, p)
            s0 == Memory
            s1 == HeardOld(p)
            s2 == HeardNew(p, f, g)
            s3 == HeardLast(p, f, g)
<1>1. Learning(s0) /\ s0.db = db
  BY DEF LessonsInv, Memory
<1>2. Replaced(p) => Hash(p) \in DOMAIN manager.table /\ old = manager.table[Hash(p)]
  BY DEF Replaced, FlowOf
<1>3. DOMAIN g.meters = DOMAIN f.meters /\ db.enabledAttributes \subseteq DOMAIN f.meters
  <2>1. CASE Fresh(manager, p, config.common)
    BY <2>1 DEF FlowStep
  <2>2. CASE ~Fresh(manager, p, config.common)
    BY <2>2 DEF FlowStep, LessonsInv
  <2>. QED
    BY <2>1, <2>2 DEF FlowStep
<1>4. Learning(s1) /\ s1.db.enabledAttributes = db.enabledAttributes
  <2>. PICK call, made, s : call = FinishedCall(old) /\ made = (Replaced(p) /\ Reported(old)) /\ s = s0
    OBVIOUS
  <2>1. call.flow = old /\ s1 = Told(s, made, call) /\ (made => Replaced(p))
    BY DEF FinishedCall, HeardOld
  <2>2. Complies(s, made, call)
    <3>. HIDE DEF old, s1, s0
    <3>. QED
      BY <1>1, <1>2, <2>1 DEF Complies, LessonsInv
  <2>. HIDE DEF s1, s0
  <2>. QED
    BY <1>1, <2>1, <2>2, LearningOn
<1>5. Learning(s2) /\ s2.db.enabledAttributes = db.enabledAttributes
  <2>. PICK call, made, s : call = ClassifiedCall(g) /\ made = (g.classified /\ ~f.classified) /\ s = s1
    OBVIOUS
  <2>1. call.kind = "classified" /\ s2 = Told(s, made, call)
    BY DEF ClassifiedCall, HeardNew
  <2>2. Complies(s, made, call)
    BY <2>1 DEF Complies
  <2>. HIDE DEF s2, s1
  <2>. QED
    BY <1>4, <2>1, <2>2, LearningOn
<1>6. Learning(s3) /\ s3.db.enabledAttributes = db.enabledAttributes
  <2>. PICK call, made, s : /\ call = FinishedCall(g)
                            /\ made = (g.state = "FINISHED" /\ Reported(g)) /\ s = s2
    OBVIOUS
  <2>1. call.flow = g /\ s3 = Told(s, made, call)
    BY DEF FinishedCall, HeardLast
  <2>. HIDE DEF s3, s2
  <2>2. Complies(s, made, call)
    BY <1>3, <1>5, <2>1 DEF Complies
  <2>. QED
    BY <1>5, <2>1, <2>2, LearningOn
<1>7. Becomes(s3)
  BY DEF PacketStep
<1>. HIDE DEF s0, s1, s2, s3
<1>8. Learning(Memory)'
  <2>. PICK t : t = s3
    OBVIOUS
  <2>1. Learning(t) /\ Becomes(t)
    BY <1>6, <1>7
  <2>2. Named(t.db)'
    BY <2>1 DEF Learning, Named
  <2>. QED
    BY <2>1, <2>2, MemoryNow DEF Learning
<1>9. db'.enabledAttributes = db.enabledAttributes
  BY <1>6, <1>7 DEF Becomes
<1>10. ASSUME NEW k \in DOMAIN manager'.table
       PROVE  db.enabledAttributes \subseteq DOMAIN manager'.table[k].meters
  <2>1. \/ k \in DOMAIN manager.table /\ manager'.table[k] = manager.table[k]
        \/ manager'.table[k] = g
    BY DEF PacketStep, With, Without
  <2>. QED
    BY <1>3, <2>1 DEF LessonsInv
<1>11. exit' # "0" /\ pc' \notin {"config", "database", "input"}
  BY DEF ProgramInv
<1>. QED
  BY <1>8, <1>9, <1>10, <1>11 DEF LessonsInv

(* What a flow teaches that finished() takes from the table.               *)
LEMMA FinishLearned ==
  ASSUME Shape, LessonsInv, ProgramInv, NEW h, Finish(h)
  PROVE  LessonsInv'
<1>. PICK f : f = manager.table[h]
  OBVIOUS
<1>. PICK call, made, s : call = FinishedCall(f) /\ made = Reported(f) /\ s = Memory
  OBVIOUS
<1>1. /\ h \in DOMAIN manager.table /\ manager'.table = Without(manager.table, h)
      /\ Becomes(Told(s, made, call))
  BY FinishIs
<1>2. pc = "finishing" /\ UNCHANGED <<pc, exit, files, current>>
  BY DEF Finish
<1>3. Learning(s) /\ s.db = db
  BY DEF LessonsInv, Memory
<1>4. Complies(s, made, call)
  BY <1>1, <1>3 DEF Complies, FinishedCall, LessonsInv
<1>5. current \in DOMAIN files
  BY <1>2 DEF ProgramInv
<1>. PICK t : t = Told(s, made, call)
  OBVIOUS
<1>6. Learning(t) /\ t.db.enabledAttributes = db.enabledAttributes
  BY <1>3, <1>4, <1>5, LearningOn
<1>7. Learning(Memory)'
  <2>1. Named(t.db) /\ files' = files
    BY <1>2, <1>6 DEF Learning
  <2>2. Named(t.db)'
    BY <2>1 DEF Named
  <2>. QED
    BY <1>1, <1>6, <2>2, MemoryNow DEF Learning
<1>8. db'.enabledAttributes = db.enabledAttributes
  BY <1>1, <1>6 DEF Becomes
<1>9. \A k \in DOMAIN manager'.table : k \in DOMAIN manager.table
                                       /\ manager'.table[k] = manager.table[k]
  BY <1>1 DEF Without
<1>10. exit' # "0" /\ pc' \notin {"config", "database", "input"}
  BY <1>2 DEF ProgramInv
<1>. QED
  BY <1>7, <1>8, <1>9, <1>10 DEF LessonsInv

(* Every step keeps it.                                                    *)
LEMMA LessonsKept ==
  Shape /\ StoreInv /\ TableInv /\ ProgramInv /\ DiskInv /\ LessonsInv /\ [Next]_vars => LessonsInv'
<1>. SUFFICES ASSUME Shape, StoreInv, TableInv, ProgramInv, DiskInv, LessonsInv, [Next]_vars
              PROVE  LessonsInv'
  OBVIOUS
<1>0. Shape'
  BY ShapeKept
<1>1. ASSUME NEW s \in Scenarios, Start(s) PROVE LessonsInv'
  <2>1. /\ db' = UnreadDb /\ history' = NoHistory /\ updated' = FALSE /\ files' = << >>
        /\ DOMAIN manager'.table = {}
    BY <1>1 DEF Start, NewManager
  <2>2. IsHistory(NoHistory) /\ NoHistory.asRead = UnreadDb /\ NoHistory.trained = << >>
    BY DEF NoHistory, IsHistory
  <2>. PICK t : t = [db |-> UnreadDb, updated |-> FALSE, history |-> NoHistory]
    OBVIOUS
  <2>3. RightMemory(t) /\ t.db = UnreadDb
    BY <2>2, NothingLearned, UnreadTyped
  <2>4. Becomes(t) /\ Named(t.db)'
    BY <2>1, <2>3, EmptyIsAny DEF Becomes, Named
  <2>5. Learning(Memory)'
    BY <2>3, <2>4, MemoryNow
  <2>. QED
    BY <2>1, <2>2, <2>5 DEF LessonsInv
<1>2. CASE LoadConfig
  <2>1. /\ UNCHANGED <<db, updated, manager, history, files>> /\ pc = "config"
        /\ \/ exit' \in {"aborted", "1"}
           \/ exit' = exit
    BY <1>2 DEF LoadConfig, Exits, Goto
  <2>. QED
    BY <1>0, <2>1, SameLessons, StillNamed
<1>3. CASE ReadDatabase
  <2>1. /\ pc = "database" /\ UNCHANGED <<updated, manager>>
        /\ \/ pc' = "down" /\ exit' = "1" /\ UNCHANGED <<db, history>>
           \/ /\ exit' = exit /\ ReadOk(disk["database"])
              /\ db' = ReadDb(disk["database"].content, runs)
              /\ history' = [history EXCEPT !.asRead = db'] /\ pc' \in {"input", "next"}
    <3>1. pc = "database" /\ UNCHANGED <<updated, manager>>
      BY <1>3 DEF ReadDatabase, Exits, Goto
    <3>2. CASE db.initialised \/ ~ReadOk(disk["database"])
      BY <1>3, <3>1, <3>2 DEF ReadDatabase, Exits, Goto
    <3>3. CASE ~(db.initialised \/ ~ReadOk(disk["database"]))
      BY <1>3, <3>1, <3>3 DEF ReadDatabase
    <3>. QED
      BY <3>2, <3>3
  <2>2. \A d : Named(d)'
    <3>1. \A i \in DOMAIN files' : files'[i].flows = << >>
      BY <1>3 DEF ReadDatabase
    <3>. QED
      BY <3>1, EmptyIsAny DEF Named
  <2>3. CASE UNCHANGED <<db, history>> /\ exit' = "1" /\ pc' = "down"
    BY <1>0, <2>1, <2>2, <2>3, SameLessons
  <2>4. ASSUME exit' = exit, ReadOk(disk["database"]), db' = ReadDb(disk["database"].content, runs),
               history' = [history EXCEPT !.asRead = db']
        PROVE  LessonsInv'
    <3>. PICK d, h : d = db' /\ h = history'
      OBVIOUS
    <3>1. IsTypedDb(d) /\ OrdersOf(d)
      <4>1. WellTyped(disk["database"].content)
        BY <2>4 DEF DiskInv, DiskFile, FileOk, ReadOk
      <4>. QED
        BY <2>4, <4>1, DbRead, OrdersRead DEF ReadOk
    <3>2. IsHistory(h) /\ h.asRead = d /\ h.trained = << >>
      <4>1. history.trained = << >> /\ IsHistory(history)
        BY <2>1 DEF LessonsInv, Shape
      <4>. QED
        BY <2>4, <4>1 DEF IsHistory
    <3>. PICK t, u : u = updated /\ t = [db |-> d, updated |-> u, history |-> h]
      OBVIOUS
    <3>3. u \in BOOLEAN
      BY DEF LessonsInv, Learning, RightMemory, Memory
    <3>4. RightMemory(t) /\ t.db = d
      BY <3>1, <3>2, <3>3, NothingLearned
    <3>5. Becomes(t) /\ Named(t.db)'
      BY <2>1, <2>2, <3>4 DEF Becomes
    <3>6. Learning(Memory)'
      BY <3>4, <3>5, MemoryNow
    <3>7. DOMAIN manager'.table = {}
      BY <2>1 DEF TableInv
    <3>. QED
      BY <3>2, <3>6, <3>7 DEF LessonsInv
  <2>. QED
    BY <2>1, <2>3, <2>4
<1>4. CASE ReadTrainingInput
  <2>1. /\ UNCHANGED <<db, updated, manager, history>> /\ pc = "input"
        /\ \/ exit' \in {"aborted", "1"}
           \/ exit' = exit
    BY <1>4 DEF ReadTrainingInput, Exits, Goto
  <2>2. Named(db)'
    <3>1. CASE run.input.kind # "good"
      BY <1>4, <3>1, EmptyIsAny DEF ReadTrainingInput, Named
    <3>2. CASE run.input.kind = "good"
      <4>. PICK list : list = run.input.files
        OBVIOUS
      <4>1. /\ DOMAIN files' = DOMAIN list
            /\ \A i \in DOMAIN list : files'[i].flows = FlowsToTrain(list[i].flows)
        BY <1>4, <3>2 DEF ReadTrainingInput, FilesToTrain
      <4>2. \A i \in DOMAIN list : AnySeq(list[i].flows)
        <5>1. run \in Scenarios
          BY DEF ProgramInv
        <5>2. \A i \in DOMAIN run.input.files : IsList(run.input.files[i].flows)
          BY <5>1, PcapAssumption
        <5>. QED
          BY <5>2 DEF IsList, AnySeq
      <4>3. ASSUME NEW i \in DOMAIN list
            PROVE  /\ AnySeq(files'[i].flows)
                   /\ \A k \in DOMAIN files'[i].flows :
                        \E m \in DOMAIN db.models : db.models[m].name = files'[i].flows[k].protocol
        BY <4>1, <4>2, FlowsNamed
      <4>. QED
        BY <2>1, <4>1, <4>3 DEF Named
    <3>. QED
      BY <3>1, <3>2
  <2>. QED
    BY <1>0, <2>1, <2>2, SameLessons
<1>5. CASE NextFile \/ EndOfCapture \/ Finished
  <2>1. /\ UNCHANGED <<db, updated, manager, history, files, exit>>
        /\ pc' \in {"packets", "next", "finishing"}
    BY <1>5 DEF NextFile, EndOfCapture, Finished, Goto
  <2>. QED
    BY <1>0, <2>1, SameLessons, StillNamed
<1>6. CASE EndOfFiles
  <2>1. /\ UNCHANGED <<db, updated, manager, history, files>> /\ pc' \in {"save", "down"}
        /\ \/ exit' = exit
           \/ ~updated
    BY <1>6 DEF EndOfFiles, Exits, Goto
  <2>2. updated \in BOOLEAN
    BY DEF LessonsInv, Learning, RightMemory, Memory
  <2>. QED
    BY <1>0, <2>1, <2>2, SameLessons, StillNamed
<1>7. CASE Save
  <2>1. UNCHANGED <<db, updated, manager, files>>
    BY <1>7 DEF Save, Rename, RenameFails, OpenDatabase, OpenFails, WriteDatabase, WriteFails,
                OpenNew, WriteNew, memory
  <2>2. /\ history'.trained = history.trained /\ history'.asRead = history.asRead
        /\ \/ exit' = exit /\ history'.saved = history.saved
           \/ history'.saved \in {"database", "new", "failed"}
    BY <1>7 DEF Save, Rename, RenameFails, OpenDatabase, OpenFails, WriteDatabase, WriteFails,
                OpenNew, WriteNew, memory, Saved, Shape, IsHistory
  <2>3. pc' \notin {"config", "database", "input"}
    BY <1>7 DEF Save, Rename, RenameFails, OpenDatabase, OpenFails, WriteDatabase, WriteFails,
                OpenNew, WriteNew, Exits, Goto
  <2>. QED
    BY <1>0, <2>1, <2>2, <2>3, SameLessons, StillNamed
<1>8. CASE Crash \/ Restore
  <2>1. /\ UNCHANGED <<db, updated, manager, history, files>> /\ exit' \in {"killed", exit}
        /\ pc' = "down"
    BY <1>8 DEF Crash, Restore, Exits, Goto, memory
  <2>. QED
    BY <1>0, <2>1, SameLessons, StillNamed
<1>9. ASSUME NEW shape, HandlePacket(shape) PROVE LessonsInv'
  <2>1. PICK p, f, g : PacketStep(p, f, g) /\ FlowStep(p, f, g)
    BY <1>9, FlowStepIs
  <2>2. pc = "packets" /\ UNCHANGED <<pc, exit, files>>
    BY <1>9 DEF HandlePacket
  <2>3. current \in DOMAIN files
    BY <2>2 DEF ProgramInv
  <2>. QED
    BY <2>1, <2>2, <2>3, PacketLearned
<1>10. ASSUME NEW h, Finish(h) PROVE LessonsInv'
  BY <1>10, FinishLearned
<1>11. CASE UNCHANGED vars
  <2>1. UNCHANGED <<db, updated, manager, history, files, exit, pc>>
    BY <1>11 DEF vars
  <2>. QED
    BY <1>0, <2>1, SameLessons, StillNamed
<1>. QED
  BY <1>1, <1>2, <1>3, <1>4, <1>5, <1>6, <1>7, <1>8, <1>9, <1>10, <1>11, Steps
  DEF Quiet, Preparation

-------------------------------------------------------------------------------
(* What was saved *)

(* A program saves at its very end, and until the next one starts the      *)
(* database on disk is what it has written: only one that cannot be read   *)
(* is ever replaced by its backup.                                         *)
SavedInv ==
  /\ pc # "down" => history.saved = "no"
  /\ history.saved = "database" => disk["database"] = Content /\ db.modifiedTimes \in Seq(Nat)

(* Nothing is saved before the first program starts.                       *)
LEMMA SavedInit == Init => SavedInv
BY DEF Init, SavedInv, NoHistory

(* Observers save nothing.                                                 *)
LEMMA HeardSavesNothing ==
  ASSUME Shape, NEW p, NEW f, NEW g
  PROVE  HeardLast(p, f, g).history.saved = history.saved
<1>. PICK s0, s1, s2, s3 :
       s0 = Memory /\ s1 = HeardOld(p) /\ s2 = HeardNew(p, f, g) /\ s3 = HeardLast(p, f, g)
  OBVIOUS
<1>1. IsMemory(s0) /\ s0.history = history
  BY DEF Memory, Shape, IsMemory
<1>2. IsMemory(s1) /\ s1.history.saved = s0.history.saved
  <2>1. \E made, call : s1 = Told(s0, made, call)
    BY DEF HeardOld
  <2>. QED
    BY <1>1, <2>1, ToldIs
<1>3. IsMemory(s2) /\ s2.history.saved = s1.history.saved
  <2>1. \E made, call : s2 = Told(s1, made, call)
    BY DEF HeardNew
  <2>. QED
    BY <1>2, <2>1, ToldIs
<1>4. s3.history.saved = s2.history.saved
  <2>1. \E made, call : s3 = Told(s2, made, call)
    BY DEF HeardLast
  <2>. QED
    BY <1>3, <2>1, ToldIs
<1>. QED
  BY <1>1, <1>2, <1>3, <1>4

(* A step of a program that goes on, or ends, without saving.              *)
LEMMA SavedNothing ==
  ASSUME SavedInv, pc # "down", history'.saved = history.saved
  PROVE  SavedInv'
BY DEF SavedInv

(* Every step keeps it.                                                    *)
LEMMA SavedKept == Shape /\ StoreInv /\ DiskInv /\ IsTypedDb(db) /\ SavedInv /\ [Next]_vars => SavedInv'
<1>. SUFFICES ASSUME Shape, StoreInv, DiskInv, IsTypedDb(db), SavedInv, [Next]_vars PROVE SavedInv'
  OBVIOUS
<1>1. ASSUME NEW s, Start(s) PROVE SavedInv'
  <2>1. history' = NoHistory
    BY <1>1 DEF Start
  <2>. QED
    BY <2>1 DEF SavedInv, NoHistory
<1>2. CASE LoadConfig \/ ReadDatabase \/ ReadTrainingInput \/ NextFile \/ EndOfFiles \/ EndOfCapture
           \/ Finished \/ Crash
  <2>1. pc # "down"
    BY <1>2 DEF LoadConfig, ReadDatabase, ReadTrainingInput, NextFile, EndOfFiles, EndOfCapture,
                Finished, Crash, Goto
  <2>2. history' = history \/ \E d : history' = [history EXCEPT !.asRead = d]
    BY <1>2 DEF LoadConfig, ReadDatabase, ReadTrainingInput, NextFile, EndOfFiles, EndOfCapture,
                Finished, Crash, memory
  <2>3. history'.saved = history.saved
    BY <2>2 DEF Shape, IsHistory
  <2>. QED
    BY <2>1, <2>3, SavedNothing
<1>3. CASE Save
  <2>1. CASE Rename \/ RenameFails \/ OpenDatabase \/ OpenNew
    <3>1. pc # "down" /\ history' = history
      BY <2>1 DEF Rename, RenameFails, OpenDatabase, OpenNew, Goto, memory
    <3>. QED
      BY <3>1, SavedNothing
  <2>2. CASE OpenFails \/ WriteFails \/ WriteNew
    <3>1. pc' = "down" /\ \E how \in {"failed", "new"} : history' = [history EXCEPT !.saved = how]
      BY <2>2 DEF OpenFails, WriteFails, WriteNew, Exits, Goto, Saved
    <3>2. history'.saved \in {"failed", "new"}
      BY <3>1 DEF Shape, IsHistory
    <3>. QED
      BY <3>1, <3>2 DEF SavedInv
  <2>3. CASE WriteDatabase
    <3>1. /\ pc = "writing" /\ pc' = "down" /\ disk' = [disk EXCEPT !["database"] = Content]
          /\ UNCHANGED <<db, runs>>
      BY <2>3 DEF WriteDatabase, Exits, Goto, settings
    <3>2. Content' = Content
      BY <3>1 DEF Content
    <3>3. disk'["database"] = Content
      BY <3>1 DEF Shape, DiskFile
    <3>4. db.modifiedTimes \in Seq(Nat)
      BY <3>1 DEF StoreInv, HasRead
    <3>. QED
      BY <3>1, <3>2, <3>3, <3>4 DEF SavedInv
  <2>. QED
    BY <1>3, <2>1, <2>2, <2>3 DEF Save
<1>4. CASE Restore
  <2>1. disk["database"].state # "complete" /\ UNCHANGED <<history, pc>>
    BY <1>4 DEF Restore, memory
  <2>2. history.saved # "database"
    BY <2>1 DEF SavedInv, Content, Complete
  <2>. QED
    BY <2>1, <2>2 DEF SavedInv
<1>5. ASSUME NEW shape, HandlePacket(shape) PROVE SavedInv'
  <2>1. PICK p, f, g : PacketStep(p, f, g)
    BY <1>5, FlowStepIs
  <2>2. history' = HeardLast(p, f, g).history
    BY <2>1 DEF PacketStep, Becomes
  <2>3. history'.saved = history.saved
    BY <2>2, HeardSavesNothing
  <2>4. pc = "packets"
    BY <1>5 DEF HandlePacket
  <2>. QED
    BY <2>3, <2>4, SavedNothing
<1>6. ASSUME NEW h, Finish(h) PROVE SavedInv'
  <2>. PICK s, made, call : s = Memory /\ made = Reported(manager.table[h])
                            /\ call = FinishedCall(manager.table[h])
    OBVIOUS
  <2>1. history' = Told(s, made, call).history
    BY <1>6, FinishIs DEF Becomes
  <2>2. IsMemory(s) /\ s.history = history
    BY DEF Memory, Shape, IsMemory
  <2>3. history'.saved = history.saved
    BY <2>1, <2>2, ToldIs
  <2>4. pc = "finishing"
    BY <1>6 DEF Finish
  <2>. QED
    BY <2>3, <2>4, SavedNothing
<1>7. CASE UNCHANGED vars
  <2>1. UNCHANGED <<pc, history, disk, db, runs>>
    BY <1>7 DEF vars
  <2>. QED
    BY <2>1 DEF SavedInv, Content
<1>. QED
  BY <1>1, <1>2, <1>3, <1>4, <1>5, <1>6, <1>7, Steps DEF Quiet, Preparation

-------------------------------------------------------------------------------
(* The theorems *)

ProgramsInv ==
  Shape /\ StoreInv /\ TableInv /\ ProgramInv /\ DiskInv /\ LessonsInv /\ SavedInv

(* All of it together is inductive.                                        *)
LEMMA ProgramsInductive ==
  /\ Init => ProgramsInv
  /\ ProgramsInv /\ [Next]_vars => ProgramsInv'
<1>1. Init => ProgramsInv
  BY ShapeInit, StoreInit, TableInit, ProgramInit, DiskInit, LessonsInit, SavedInit
  DEF ProgramsInv
<1>2. ProgramsInv => IsTypedDb(db)
  BY DEF ProgramsInv, LessonsInv, Learning, RightMemory, Memory
<1>3. ProgramsInv /\ [Next]_vars => ProgramsInv'
  BY <1>2, ShapeKept, StoreKept, TableKept, ProgramKept, DiskKept, LessonsKept, SavedKept
  DEF ProgramsInv
<1>. QED
  BY <1>1, <1>3

(* Training keeps the names that read() has told apart.                    *)
LEMMA NamesDiffer ==
  ASSUME ProgramsInv
  PROVE  \A i, j \in DOMAIN db.models : db.models[i].name = db.models[j].name => i = j
<1>. PICK models, then : models = db.models /\ then = history.asRead.models
  OBVIOUS
<1>1. /\ DOMAIN then = DOMAIN models /\ OrdersOf(history.asRead)
      /\ \A m \in DOMAIN models : models[m].name = then[m].name
  BY DEF ProgramsInv, LessonsInv, Learning, RightMemory, NotesRight, Memory, Grew
<1>2. \A i, j \in DOMAIN then : then[i].name = then[j].name => i = j
  BY <1>1 DEF OrdersOf
<1>. QED
  BY <1>1, <1>2

(* The variables have their types, the models that were trained are in the *)
(* database, and every flow of the table is open and in its place.         *)
THEOREM ProgramsTypeOK == Spec => []TypeOK
<1>1. ProgramsInv => TypeOK
  <2>. SUFFICES ASSUME ProgramsInv PROVE TypeOK
    OBVIOUS
  <2>1. \A n \in DiskFile : disk[n].state \in {"missing", "partial", "complete"}
    BY DEF ProgramsInv, DiskInv, FileOk
  <2>2. updated \in BOOLEAN /\ \A i \in DOMAIN history.trained : history.trained[i].model \in DOMAIN db.models
    BY DEF ProgramsInv, LessonsInv, Learning, RightMemory, NotesRight, Memory
  <2>3. ASSUME NEW h \in DOMAIN manager.table
        PROVE  LET f == manager.table[h]
               IN  /\ Murmur(HashInput(f.tuple)) = h /\ f.state \notin Closed
                   /\ f.id \in 1 .. manager.made /\ f.pktsInQueue = 0
                   /\ f.pktCount <= f.overallPktCount
    <3>1. Open(h, manager.table[h], manager.made) /\ IdleFlow(manager.table[h])
      BY DEF ProgramsInv, TableInv, Shape
    <3>. QED
      BY <3>1 DEF Open, IdleFlow
  <2>4. /\ pc \in Pc /\ runs \in 0 .. MaxRuns /\ run \in Scenarios
        /\ exit \in {"none", "0", "1", "aborted", "killed"}
        /\ current \in 0 .. Len(files) /\ count \in Nat /\ clock \in Nat
    BY DEF ProgramsInv, ProgramInv
  <2>. QED
    BY <2>1, <2>2, <2>3, <2>4 DEF TypeOK
<1>. QED
  BY <1>1, ProgramsInductive, PTL DEF Spec

(* Every model has counted the flows that were taken down for it, and each *)
(* of its enabled meters the same ones, however the flows of the captures  *)
(* are mixed and whatever the meters of the flows have measured.           *)
THEOREM MetersGrowTogether == Spec => []CountsGrowTogether
<1>1. ProgramsInv => CountsGrowTogether
  <2>. SUFFICES ASSUME ProgramsInv, NEW m \in DOMAIN db.models
                PROVE  LET now == db.models[m]
                           then == history.asRead.models[m]
                       IN  /\ now.flowCount - then.flowCount
                                = Cardinality({i \in DOMAIN history.trained : history.trained[i].model = m})
                           /\ \A i \in DOMAIN now.meters :
                                now.meters[i].name \in db.enabledAttributes /\ FindMeter(now, now.meters[i].name) = i =>
                                  now.meters[i].flowCount - then.meters[i].flowCount
                                    = now.flowCount - then.flowCount
    BY DEF CountsGrowTogether
  <2>1. Grew(db.models[m], history.asRead.models[m], Cardinality(Lessons(history.trained, m)),
             db.enabledAttributes)
    BY DEF ProgramsInv, LessonsInv, Learning, RightMemory, NotesRight, Memory
  <2>2. Lessons(history.trained, m) = {i \in DOMAIN history.trained : history.trained[i].model = m}
    BY DEF Lessons
  <2>. QED
    BY <2>1, <2>2 DEF Grew
<1>. QED
  BY <1>1, ProgramsInductive, PTL DEF Spec

(* Training that comes to its end without an error has saved what it has   *)
(* learned, if that is more than the counts of models without a meter that *)
(* is enabled.                                                             *)
THEOREM LearnedIsSaved == Spec => []TrainingIsSaved
<1>1. ProgramsInv => TrainingIsSaved
  <2>. SUFFICES ASSUME ProgramsInv, exit = "0", history.trained # << >>, history.saved # "failed",
                       history.saved \notin {"database", "new"},
                       NEW i \in DOMAIN history.trained,
                       NEW j \in DOMAIN db.models[history.trained[i].model].meters
                PROVE  db.models[history.trained[i].model].meters[j].name \notin db.enabledAttributes
    BY DEF TrainingIsSaved
  <2>1. ~updated
    BY DEF ProgramsInv, LessonsInv
  <2>2. NoneEnabled(db.models[history.trained[i].model], db.enabledAttributes)
    BY <2>1 DEF ProgramsInv, LessonsInv, Learning, RightMemory, NotesRight, Memory
  <2>. QED
    BY <2>2 DEF NoneEnabled
<1>. QED
  BY <1>1, ProgramsInductive, PTL DEF Spec

(* What write() wrote is what read() makes of it the next time, whatever   *)
(* was in the database and whatever it has learned: limits, times and all  *)
(* models with their hints, counts and fingerprints, but for the models    *)
(* without a meter.                                                        *)
THEOREM WrittenIsRead == Spec => []WrittenIsReadBack
<1>1. ProgramsInv => WrittenIsReadBack
  <2>. SUFFICES ASSUME ProgramsInv, history.saved = "database"
                PROVE  LET back == ReadDb(disk["database"].content, 0)
                           readable == {m \in DOMAIN db.models : db.models[m].meters # << >>}
                       IN  /\ ReadOk(disk["database"])
                           /\ back.models = Subsequence(db.models, readable)
                           /\ back.definingLimit = db.definingLimit /\ back.cutoffLimit = db.cutoffLimit
                           /\ back.modifiedTimes = <<runs>> \o history.asRead.modifiedTimes
                           /\ LastModifiedTime(back, 0) = runs
    BY DEF WrittenIsReadBack
  <2>. PICK file : file = disk["database"]
    OBVIOUS
  <2>1. file = Complete(WriteDb(db, runs)) /\ db.modifiedTimes \in Seq(Nat)
    BY DEF ProgramsInv, SavedInv, Content
  <2>2. runs \in Nat
    BY DEF ProgramsInv, StoreInv
  <2>3. IsTypedDb(db) /\ history.asRead.modifiedTimes = db.modifiedTimes
    BY DEF ProgramsInv, LessonsInv, Learning, RightMemory, NotesRight, Memory
  <2>4. \A i, j \in DOMAIN db.models : db.models[i].name = db.models[j].name => i = j
    BY NamesDiffer
  <2>. PICK d, now : d = db /\ now = runs
    OBVIOUS
  <2>5. IsReadAs(d, now, 0, file)
    BY <2>1, <2>2, <2>3, <2>4, DbReadBack
  <2>. QED
    BY <2>3, <2>5 DEF IsReadAs
<1>. QED
  BY <1>1, ProgramsInductive, PTL DEF Spec

(* For a port, at() hands out every model once if none hints at that port  *)
(* more than once, and so it does without the hints: whatever read() was   *)
(* given, and whatever training has made of it.                            *)
THEOREM EveryModelCompared == Spec => []EveryModelHasItsTurn
<1>1. ProgramsInv => EveryModelHasItsTurn
  <2>. SUFFICES ASSUME ProgramsInv, NEW port \in DOMAIN db.portHintOrder \cup {0},
                       \A m \in DOMAIN db.models : Hints(db.models[m], port) <= 1
                PROVE  {ModelAt(db, i, port) : i \in 0 .. SizeOf(db) - 1} = DOMAIN db.models
    BY DEF EveryModelHasItsTurn
  <2>. PICK models, then, N : models = db.models /\ then = history.asRead.models /\ N = SizeOf(db)
    OBVIOUS
  <2>1. /\ IsModels(models) /\ DOMAIN then = DOMAIN models /\ OrdersOf(history.asRead)
        /\ history.asRead.portHintOrder = db.portHintOrder
        /\ \A m \in DOMAIN models : models[m].name = then[m].name /\ models[m].portHints = then[m].portHints
    BY DEF ProgramsInv, LessonsInv, Learning, RightMemory, NotesRight, Memory, Grew, IsTypedDb
  <2>2. IsModels(then)
    BY <2>1 DEF OrdersOf
  <2>3. DOMAIN models = 1 .. N /\ N \in Nat /\ Len(then) = N
    <3>1. DOMAIN models = 1 .. N /\ N \in Nat /\ DOMAIN then = 1 .. Len(then) /\ Len(then) \in Nat
      BY <2>1, <2>2, SeqIsAny DEF IsModels, AnySeq, SizeOf
    <3>. QED
      BY <2>1, <3>1
  <2>4. \A i, j \in DOMAIN models : models[i].name = models[j].name => i = j
    BY NamesDiffer
  <2>5. CASE port = 0 \/ port \notin DOMAIN db.portHintOrder
    <3>1. \A i \in 0 .. N - 1 : ModelAt(db, i, port) = i + 1
      BY <2>3, <2>5 DEF ModelAt
    <3>2. {i + 1 : i \in 0 .. N - 1} = 1 .. N
      <4>1. \A k \in 1 .. N : k - 1 \in 0 .. N - 1 /\ k = (k - 1) + 1
        BY <2>3
      <4>2. \A i \in 0 .. N - 1 : i + 1 \in 1 .. N
        BY <2>3
      <4>. QED
        BY <4>1, <4>2
    <3>. QED
      BY <2>3, <3>1, <3>2
  <2>6. CASE ~(port = 0 \/ port \notin DOMAIN db.portHintOrder)
    <3>. PICK order : order = db.portHintOrder[port]
      OBVIOUS
    <3>1. \A m \in DOMAIN then : Hints(then[m], port) <= 1
      <4>1. \A x, y : x.portHints = y.portHints => Hints(x, port) = Hints(y, port)
        BY DEF Hints
      <4>. QED
        BY <2>1, <4>1
    <3>2. IsOrder(order, then)
      BY <2>1, <2>6, <3>1 DEF OrdersOf
    <3>3. AnySeq(order) /\ Len(order) = N /\ DOMAIN order = 1 .. N
      BY <2>3, <3>2, SeqIsAny DEF IsOrder, AnySeq
    <3>4. /\ \A m \in DOMAIN models : \E k \in DOMAIN order : order[k] = models[m].name
          /\ \A k \in DOMAIN order : \E m \in DOMAIN models : order[k] = models[m].name
      BY <2>1, <3>2 DEF IsOrder
    <3>5. \A m \in DOMAIN models : Find(db, models[m].name) = m
      <4>1. ASSUME NEW m \in DOMAIN models PROVE Find(db, models[m].name) = m
        <5>1. {i \in DOMAIN db.models : db.models[i].name = models[m].name} = {m}
          BY <2>4
        <5>. QED
          BY <5>1 DEF Find
      <4>. QED
        BY <4>1
    <3>6. \A i \in 0 .. N - 1 : ModelAt(db, i, port) = Find(db, order[i + 1])
      BY <2>3, <2>6, <3>3 DEF ModelAt
    <3>7. ASSUME NEW i \in 0 .. N - 1 PROVE ModelAt(db, i, port) \in DOMAIN models
      <4>1. i + 1 \in DOMAIN order
        BY <2>3, <3>3
      <4>. QED
        BY <3>4, <3>5, <3>6, <4>1
    <3>8. ASSUME NEW m \in DOMAIN models PROVE \E i \in 0 .. N - 1 : ModelAt(db, i, port) = m
      <4>1. PICK k \in DOMAIN order : order[k] = models[m].name
        BY <3>4
      <4>2. k - 1 \in 0 .. N - 1 /\ (k - 1) + 1 = k
        BY <2>3, <3>3
      <4>. QED
        BY <3>5, <3>6, <4>1, <4>2
    <3>. QED
      BY <3>7, <3>8
  <2>. QED
    BY <2>5, <2>6
<1>. QED
  BY <1>1, ProgramsInductive, PTL DEF Spec
===============================================================================
