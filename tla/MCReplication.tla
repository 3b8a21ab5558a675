---------------------------- MODULE MCReplication ---------------------------
(* Instances of Replication for TLC: slaves that start with no log.         *)
EXTENDS Replication, TLC

Fresh == [s \in Slaves |-> <<>>]

Interchangeable == Permutations(Slaves)

\* Bound: a process is started again, or a save fails, not both.
OneFailure == restarts + save_errors <= 1
=============================================================================
