---------------------------- MODULE MCWorkerPool ----------------------------
(***************************************************************************)
(* Two processes that share a file, the first with two workers.            *)
(***************************************************************************)
EXTENDS WorkerPool

SharedJobs == [p \in Processes |-> IF p = "p" THEN <<"A", "B">> ELSE <<"B">>]
=============================================================================
