------------------------------- MODULE Settings -------------------------------
(***************************************************************************)
(* The settings of the four programs: what the Config class of each makes  *)
(* of its configuration file, on top of the defaults of the constructors.  *)
(* Names of settings and defaults are those of the source.                 *)
(*                                                                         *)
(* A file is [kind, set].  Its kind is "missing" (no name given, not there *)
(* or not YAML: init returns false), "mistyped" (a value of the wrong type:*)
(* as<T>() throws outside of init's try) or "good"; `set' is the function  *)
(* from the settings that occur in the file to their values.               *)
(***************************************************************************)
EXTENDS Naturals

FileKind == {"missing", "mistyped", "good"}

(* `if(config[name]) x = config[name].as<T>()' *)
Setting(file, name, default) ==
  IF name \in DOMAIN file.set THEN file.set[name] ELSE default

(* What Config::init does as a whole: it goes on, returns false or throws. *)
InitResult(file) ==
  CASE file.kind = "good" -> "true"
    [] file.kind = "missing" -> "false"
    [] OTHER -> "throws"

(* CommonConfig::CommonConfig() *)
CommonConfig ==
  [learningMode |-> FALSE,
   udpFlowTimeout |-> 120, tcpFlowTimeout |-> 86400, tcpFlowCloseWaitTimeout |-> 2,
   divergenceThreshold |-> 2, useBestMatch |-> TRUE, usePortHints |-> TRUE,
   workerThreadsPerQueue |-> 0, workerThreadQueueSize |-> 2048]

(* The settings that the two classifying programs read alike. *)
ClassifierConfig(file, defaultWorkers) ==
  [CommonConfig EXCEPT
     !.udpFlowTimeout        = Setting(file, "UdpFlowTimeout", @),
     !.divergenceThreshold   = Setting(file, "KLDivergenceThreshold", @),
     !.useBestMatch          = Setting(file, "UseBestMatchDivergence", @),
     !.usePortHints          = Setting(file, "UsePortHints", @),
     !.workerThreadsPerQueue = Setting(file, "NumWorkerThreadsPerQueue", defaultWorkers),
     !.workerThreadQueueSize = Setting(file, "WorkerThreadQueueSize", @)]

ProtocolDatabase(file) == Setting(file, "ProtocolDatabase", "protocol_model_db.yaml")

(* How the two netfilter programs set up their queues. *)
QueueConfig(file) ==
  [numQueues   |-> Setting(file, "NumQueues", 1),
   queueOffset |-> Setting(file, "QueueOffset", 0),
   nfQueueSize |-> Setting(file, "NfQueueSize", 2048),
   nfBufSize   |-> Setting(file, "NfBufSize", 2048)]

NetfilterConfig(file) ==
  [program |-> "netfilter", protocolDatabase |-> ProtocolDatabase(file),
   common |-> ClassifierConfig(file, 2),
   queues |-> QueueConfig(file),
   verdictAfterClassification |-> Setting(file, "VerdictAfterClassification", FALSE)]

(* It has neither a database nor a FlowManager. *)
NfqueueTestConfig(file) ==
  [program |-> "nfqueue_test", protocolDatabase |-> "", common |-> CommonConfig,
   queues |-> QueueConfig(file), verdictAfterClassification |-> FALSE]

PcapClassifierConfig(file) ==
  [program |-> "pcap_classifier", protocolDatabase |-> ProtocolDatabase(file),
   common |-> ClassifierConfig(file, 0),
   protocolDatabaseBackup |-> ""]

TrainingConfig(file) ==
  [program |-> "training", protocolDatabase |-> ProtocolDatabase(file),
   common |-> [CommonConfig EXCEPT !.learningMode = TRUE,
                                   !.udpFlowTimeout = Setting(file, "UdpFlowTimeout", @)],
   protocolDatabaseBackup |-> Setting(file, "ProtocolDatabaseBackup", "")]
===============================================================================
