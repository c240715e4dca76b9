----------------------------- MODULE MCWorkerIo -----------------------------
(***************************************************************************)
(* Instances of WorkerIo for TLC, with queues and pipes of one or two      *)
(* frames.  A run starts with a client that sends requests only, to a      *)
(* worker that may fail and be retired at any point, or with one that      *)
(* also sends enough of the other frames to fill mailbox and pipe.         *)
(***************************************************************************)
EXTENDS WorkerIo

MCRequestsOnly == [Bounds EXCEPT !.others = 0]

MCCrowd == [Bounds EXCEPT !.requests = 2, !.others = 3, !.faults = 0]

MCSpec == (InitWith(MCRequestsOnly) \/ InitWith(MCCrowd)) /\ [][Next]_vars /\ Fairness
=============================================================================
