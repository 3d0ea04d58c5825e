---------------------------- MODULE MCEventBroker ----------------------------
(* EventBroker for the model checker: see the MCEventBroker*.cfg.          *)
EXTENDS EventBroker
==============================================================================
