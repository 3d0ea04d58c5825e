-------------------------- MODULE MCSecureMessage --------------------------
(* Small instances of SecureMessage *)
EXTENDS SecureMessage
==============================================================================
