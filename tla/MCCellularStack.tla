--------------------------- MODULE MCCellularStack ---------------------------
(* Small instances of CellularStack for TLC. *)
EXTENDS CellularStackRefinement

CONSTANTS s1, s2

(* Which sockets each slot may hold. *)
AllUDP == [s \in Slots |-> {"UDP"}]
AllTCP == [s \in Slots |-> {"TCP"}]
AnyProtocol == [s \in Slots |-> {"UDP", "TCP"}]
OneOfEach == [s \in Slots |-> IF s = s1 THEN {"TCP"} ELSE {"UDP"}]
=============================================================================
