---------------------------- MODULE MCLifecycle ----------------------------
(* One process with a page request and up to two dashboard streams.        *)
EXTENDS Lifecycle
=============================================================================
