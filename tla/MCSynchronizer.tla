--------------------------- MODULE MCSynchronizer ---------------------------
(* Synchronizer for the model checker *)
EXTENDS Synchronizer
==============================================================================
