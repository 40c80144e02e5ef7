------------------------- MODULE MCEnclaveLifecycle -------------------------
(* The host sets of the runtime configuration for TLC. *)
EXTENDS EnclaveLifecycle

AllSets == SUBSET Hosts
=============================================================================
