-------------------------------- MODULE MCTLS --------------------------------
(* TLS for the model checker: the instances are chosen in the MCTLS*.cfg.  *)
EXTENDS TLS
==============================================================================
