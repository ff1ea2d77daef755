------------------------------- MODULE TcpLink -------------------------------
(***************************************************************************)
(* What the stack promises of TCP connections, without threads, AT channel *)
(* or URCs: each socket is linked to one connection of the modem.  A link  *)
(* comes up only on a connection that was opened for it, it is up until    *)
(* the peer closes that connection and the driver has noticed, and a link  *)
(* that is down holds no connection.                                       *)
(***************************************************************************)
CONSTANT Slots

VARIABLES
    link,   \* per socket: down, connecting, up, or lost to the peer
    conn    \* its connection in the modem: free, opening, open or dead

vars == <<link, conn>>

Init ==
    /\ link = [s \in Slots |-> "down"]
    /\ conn = [s \in Slots |-> "free"]

Connect(s) ==
    /\ link[s] = "down"
    /\ link' = [link EXCEPT ![s] = "connecting"]
    /\ UNCHANGED conn

(* An attempt; another one may follow when the modem has refused it. *)
Request(s) ==
    /\ link[s] = "connecting" /\ conn[s] \in {"free", "dead"}
    /\ conn' = [conn EXCEPT ![s] = "opening"]
    /\ UNCHANGED link

Answer(s) ==
    /\ link[s] = "connecting" /\ conn[s] = "opening"
    /\ \E c \in {"open", "dead", "free"} : conn' = [conn EXCEPT ![s] = c]
    /\ UNCHANGED link

Establish(s) ==
    /\ link[s] = "connecting" /\ conn[s] = "open"
    /\ link' = [link EXCEPT ![s] = "up"]
    /\ UNCHANGED conn

(* Whatever has become of the connection, it is given back. *)
GiveUp(s) ==
    /\ link[s] = "connecting"
    /\ link' = [link EXCEPT ![s] = "down"]
    /\ conn' = [conn EXCEPT ![s] = "free"]

Drop(s) ==
    /\ link[s] = "up" /\ conn[s] = "open"
    /\ conn' = [conn EXCEPT ![s] = "dead"]
    /\ UNCHANGED link

Notice(s) ==
    /\ link[s] = "up" /\ conn[s] = "dead"
    /\ link' = [link EXCEPT ![s] = "lost"]
    /\ UNCHANGED conn

Close(s) ==
    /\ link[s] \in {"up", "lost"}
    /\ link' = [link EXCEPT ![s] = "down"]
    /\ conn' = [conn EXCEPT ![s] = "free"]

(* All links go down.  A lost one stays so until its application closes    *)
(* it, and its connection may or may not be collected.                     *)
Shutdown ==
    /\ \A s \in Slots : link[s] # "connecting"
    /\ link' = [s \in Slots |-> IF link[s] = "lost" THEN "lost" ELSE "down"]
    /\ \E kept \in SUBSET {s \in Slots : link[s] = "lost"} :
         conn' = [s \in Slots |-> IF s \in kept THEN conn[s] ELSE "free"]

Next ==
    \/ \E s \in Slots : \/ Connect(s) \/ Request(s) \/ Answer(s) \/ Establish(s) \/ GiveUp(s)
                        \/ Drop(s) \/ Notice(s) \/ Close(s)
    \/ Shutdown

Spec == Init /\ [][Next]_vars
=============================================================================
