---------------------------- MODULE MCWorkerPool ----------------------------
(* Instances of WorkerPool for TLC. *)
EXTENDS WorkerPool, TLC

\* Enrich: four groups of FQDNs over six positions of the domain list.
GroupSlots == (1 :> {2}) @@ (2 :> {1, 4}) @@ (3 :> {5}) @@ (4 :> {3, 6})
=============================================================================
