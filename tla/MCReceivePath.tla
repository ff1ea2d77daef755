---------------------------- MODULE MCReceivePath ----------------------------
(* A small instance of ReceivePath for TLC. *)
EXTENDS ReceivePath
=============================================================================
