------------------------------ MODULE MCNetfilter -----------------------------
(* Configuration files to start the programs of Netfilter with.            *)
EXTENDS Netfilter

File(p, kind, settings) == [program |-> p, kind |-> kind, set |-> settings]
NoSettings == [n \in {} |-> 0]

(* One worker and verdicts from it; no worker; nfqueue_test; bad files.    *)
SomeFiles ==
  {File("netfilter", "good", [NumQueues |-> 1, NumWorkerThreadsPerQueue |-> 1,
                              VerdictAfterClassification |-> TRUE]),
   File("netfilter", "good", [NumWorkerThreadsPerQueue |-> 1]),
   File("netfilter", "good", [NumWorkerThreadsPerQueue |-> -1]),
   File("netfilter", "good", [ProtocolDatabase |-> "", NumWorkerThreadsPerQueue |-> 1]),
   File("netfilter", "missing", NoSettings),
   File("nfqueue_test", "good", [NumQueues |-> 2]),
   File("nfqueue_test", "mistyped", NoSettings)}

TwoQueues ==
  {File("netfilter", "good", [NumQueues |-> 2, NumWorkerThreadsPerQueue |-> 1])}
===============================================================================
