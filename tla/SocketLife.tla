----------------------------- MODULE SocketLife -----------------------------
(***************************************************************************)
(* What the control plane and the receive path agree on: the life of a     *)
(* socket.  It gets its connect id from the modem and may lose it again;   *)
(* only one that has an id can be closed by the peer, and then it stays    *)
(* closed until the application closes it.                                 *)
(***************************************************************************)
CONSTANT Slots

VARIABLE socket     \* per slot: free, new (without an id), open or closed

Init == socket = [s \in Slots |-> "free"]

Open(s) ==
    /\ socket[s] = "free"
    /\ socket' = [socket EXCEPT ![s] = "new"]

Bind(s) ==
    /\ socket[s] = "new"
    /\ socket' = [socket EXCEPT ![s] = "open"]

Unbind(s) ==
    /\ socket[s] = "open"
    /\ socket' = [socket EXCEPT ![s] = "new"]

Lose(s) ==
    /\ socket[s] = "open"
    /\ socket' = [socket EXCEPT ![s] = "closed"]

(* The application closes one socket, the device many. *)
Close(S) == socket' = [s \in Slots |-> IF s \in S THEN "free" ELSE socket[s]]

Next ==
    \/ \E s \in Slots : Open(s) \/ Bind(s) \/ Unbind(s) \/ Lose(s)
    \/ \E S \in SUBSET Slots : Close(S)

Spec == Init /\ [][Next]_socket
=============================================================================
