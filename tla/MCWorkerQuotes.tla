--------------------------- MODULE MCWorkerQuotes ---------------------------
(* Small instances of WorkerQuotes. *)
EXTENDS WorkerQuotes, TLC

\* Order ids only name orders.
AnyOrder == Permutations(OrderIds)
=============================================================================
