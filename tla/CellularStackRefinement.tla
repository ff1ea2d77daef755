----------------------- MODULE CellularStackRefinement -----------------------
(***************************************************************************)
(* What CellularStack implements.                                          *)
(*                                                                         *)
(* TcpLink: a link is connecting while its thread is in socket_connect(),  *)
(* and otherwise what its socket says it is.                               *)
(*                                                                         *)
(* SocketLife, which ReceivePath implements too: what it sees of a socket. *)
(***************************************************************************)
EXTENDS CellularStack

LinkState(s) ==
    CASE Connecting(s)                                                -> "connecting"
      [] ~Connecting(s) /\ ~socket[s].connected                       -> "down"
      [] ~Connecting(s) /\ socket[s].connected /\ ~socket[s].closed   -> "up"
      [] ~Connecting(s) /\ socket[s].connected /\ socket[s].closed    -> "lost"

Links == [s \in Slots |-> LinkState(s)]

Link == INSTANCE TcpLink WITH link <- Links, conn <- modem

(* What a TCP socket says of its connection is what the modem made of it,  *)
(* with the one lag that a closed connection is noticed when its URC is    *)
(* handled: no time-out, retry, failure, late answer or shutdown makes a   *)
(* link come up without a connection or leaves a connection without link.  *)
ImplementsLink == Link!Spec

LifeState(s) ==
    CASE socket[s].proto = "none"                                             -> "free"
      [] socket[s].proto # "none" /\ ~socket[s].closed /\ socket[s].id = NoId -> "new"
      [] socket[s].proto # "none" /\ ~socket[s].closed /\ socket[s].id # NoId -> "open"
      [] socket[s].proto # "none" /\ socket[s].closed                         -> "closed"

Lives == [s \in Slots |-> LifeState(s)]

Life == INSTANCE SocketLife WITH socket <- Lives

(* Whatever concurrent calls, answers and drops do to it, a socket lives   *)
(* as the receive path takes for granted: no failed or late opening brings *)
(* a closed socket back, and no URC ends one that has no connection.       *)
ImplementsLife == Life!Spec
=============================================================================
