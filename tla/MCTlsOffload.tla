---------------------------- MODULE MCTlsOffload ----------------------------
(* A small instance of TlsOffload for TLC. *)
EXTENDS TlsOffload
=============================================================================
