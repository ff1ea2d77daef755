------------------------------ MODULE MCContext ------------------------------
(* A small instance of Context for TLC. *)
EXTENDS Context

CONSTANTS default, mine

(* Any two contexts besides a default bearer that is there or not; one id  *)
(* is left for the driver to take.                                         *)
SomeTables ==
    LET entries == [type : {"IP", "NONIP"}, apn : {mine, default, NoApn}] \cup {NoContext}
    IN  {t \in [Cids -> entries] : t[MaxCid] = NoContext}
=============================================================================
