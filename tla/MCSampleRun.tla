----------------------------- MODULE MCSampleRun -----------------------------
(***************************************************************************)
(* Small instances of SampleRun.                                           *)
(***************************************************************************)
EXTENDS SampleRun

CONSTANTS e1, e2

OnlyFaults(f) == [k \in FaultKinds |-> IF k \in DOMAIN f THEN f[k] ELSE 0]

SampleFaults ==
    OnlyFaults([host |-> 1, workerCrash |-> 1, shutdown |-> 1, lockLoss |-> 1,
                apiCrash |-> 1, queue |-> 1, unreadInput |-> 1])
NoFaults == OnlyFaults(<<>>)

=============================================================================
