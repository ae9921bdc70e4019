-------------------------- MODULE MCTwinSyncDaemon --------------------------
(* TwinSyncDaemon with the producers as interchangeable model values.       *)
EXTENDS TwinSyncDaemon, TLC

ProducerSymmetry == Permutations(Producers)
=============================================================================
