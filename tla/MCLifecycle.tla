---------------------------- MODULE MCLifecycle ----------------------------
(* Instantiates Lifecycle for TLC; the connections are model values in the *)
(* .cfg files.                                                             *)
EXTENDS Lifecycle
=============================================================================
