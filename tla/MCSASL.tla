------------------------------- MODULE MCSASL -------------------------------
(* SASL for the model checker: see the MCSASL*.cfg.                        *)
EXTENDS SASL
==============================================================================
