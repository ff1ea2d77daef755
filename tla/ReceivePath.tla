----------------------------- MODULE ReceivePath -----------------------------
(***************************************************************************)
(* From the "recv" URC to the application: the buffers of all slots, the   *)
(* one DATA_FLAG their readers share, and the callbacks that the URC       *)
(* handler makes after it has released the AT lock                         *)
(* (socket_recvfrom() and urc_qiurc() of QUECTEL_BC660KGL_CellularStack).  *)
(*                                                                         *)
(* A slot's buffer is a queue of pieces, as SocketBuffer is shown to be.   *)
(* The handler runs in the event-queue thread or inside a command of any   *)
(* thread.  Readers take no AT lock; the lock of Mbed's InternetSocket     *)
(* keeps a sender and a close of the same socket out of socket_recvfrom(), *)
(* but not out of the blocking wait between two calls of it.               *)
(***************************************************************************)
EXTENDS Naturals, Sequences

CONSTANTS
    Slots,          \* indices of _socket[] and _socket_buffers[]
    Udp,            \* the slots used by UDP sockets; the others are TCP
    NoMsg,          \* no handler is running
    Stale,          \* ... or one is about to call back a socket that is gone
    BufferSize      \* pieces a buffer holds before it drops

ASSUME ParametersAssumption ==
    /\ Udp \subseteq Slots
    /\ BufferSize \in Nat \ {0}
    /\ {NoMsg, Stale} \cap [slot : Slots, locked : BOOLEAN] = {} /\ NoMsg # Stale

(* Who runs a handler: the event queue, or a thread inside a command. *)
Runners == {"queue", "inline"}

VARIABLES
    socket,         \* _socket[]: "free", "new" (without an id), "open" or "closed"
    buffer,         \* _socket_buffers[]: of each piece: did it arrive after a send?
    sent,           \* history: has the slot's socket sent?
    dataFlag,       \* DATA_FLAG of _event_flag
    handler,        \* the slot of the URC each runner handles, and has it the lock?
    readFlag,       \* READ_FLAG of each InternetSocket
    reader,         \* where each socket's reader is
    result          \* ret_val of its socket_recvfrom(), and is the piece fresh? A 0 stays

bufferVars == <<buffer, sent>>
readerVars == <<readFlag, reader, result>>
vars == <<socket, bufferVars, dataFlag, handler, readerVars>>

NoResult == [kind |-> "none", fresh |-> FALSE]

Init ==
    /\ socket = [s \in Slots |-> "free"]
    /\ buffer = [s \in Slots |-> <<>>]
    /\ sent = [s \in Slots |-> FALSE]
    /\ dataFlag = FALSE
    /\ handler = [h \in Runners |-> NoMsg]
    /\ readFlag = [s \in Slots |-> FALSE]
    /\ reader = [s \in Slots |-> "idle"]
    /\ result = [s \in Slots |-> NoResult]

-----------------------------------------------------------------------------
(* urc_qiurc()                                                             *)

(* The AT lock is held to the end of a handler run inside a command, and   *)
(* until the unlock by the event queue.                                    *)
Msg == [slot : Slots, locked : BOOLEAN]

LockFree ==
    /\ handler["inline"] = NoMsg
    /\ handler["queue"] \in Msg => ~handler["queue"].locked

(* The handler of a connection whose socket has stored its id takes the    *)
(* lock and stores the data, unless the payload is empty or the buffer     *)
(* full.  Data of a connection whose socket has not is discarded.          *)
UrcRecv(h, s) ==
    /\ LockFree /\ handler[h] = NoMsg
    /\ socket[s] = "open"
    /\ handler' = [handler EXCEPT ![h] = [slot |-> s, locked |-> TRUE]]
    /\ \/ Len(buffer[s]) < BufferSize /\ buffer' = [buffer EXCEPT ![s] = Append(@, sent[s])]
       \/ UNCHANGED buffer
    /\ UNCHANGED <<socket, sent, dataFlag, readerVars>>

(* Mutant: data alone makes no callback. *)
SetDataFlagOnly(h) ==
    /\ handler[h] \in Msg /\ handler[h].locked
    /\ handler' = [handler EXCEPT ![h] = NoMsg]
    /\ LET waiting == {s \in Slots : reader[s] = "wait"} IN
         \/ waiting = {} /\ dataFlag' = TRUE /\ UNCHANGED reader
         \/ \E s \in waiting : reader' = [reader EXCEPT ![s] = "get"] /\ UNCHANGED dataFlag
    /\ UNCHANGED <<socket, bufferVars, readFlag, result>>

(* _event_flag.set(DATA_FLAG) wakes one of the threads that wait for it,   *)
(* and that one clears it; then the handler unlocks.                       *)
SetDataFlag(h) ==
    /\ handler[h] \in Msg /\ handler[h].locked
    /\ handler' = [handler EXCEPT ![h].locked = FALSE]
    /\ LET waiting == {s \in Slots : reader[s] = "wait"} IN
         \/ waiting = {} /\ dataFlag' = TRUE /\ UNCHANGED reader
         \/ \E s \in waiting : reader' = [reader EXCEPT ![s] = "get"] /\ UNCHANGED dataFlag
    /\ UNCHANGED <<socket, bufferVars, readFlag, result>>

UrcClosed(h, s) ==
    /\ LockFree /\ handler[h] = NoMsg
    /\ socket[s] = "open"
    /\ socket' = [socket EXCEPT ![s] = "closed"]
    /\ handler' = [handler EXCEPT ![h] = [slot |-> s, locked |-> FALSE]]
    /\ UNCHANGED <<bufferVars, dataFlag, readerVars>>

(* socket->_cb after the unlock: InternetSocket::event().  The memory of a *)
(* socket closed meanwhile may hold no callback or another socket's.       *)
Callback(h) ==
    /\ \/ /\ handler[h] \in Msg /\ ~handler[h].locked
          /\ readFlag' = [readFlag EXCEPT ![handler[h].slot] = TRUE]
       \/ /\ handler[h] = Stale
          /\ \/ UNCHANGED readFlag
             \/ \E s \in Slots : socket[s] # "free" /\ readFlag' = [readFlag EXCEPT ![s] = TRUE]
    /\ handler' = [handler EXCEPT ![h] = NoMsg]
    /\ UNCHANGED <<socket, bufferVars, dataFlag, reader, result>>

-----------------------------------------------------------------------------
(* Opening, sending and closing.                                           *)

SocketOpen(s) ==
    /\ socket[s] = "free"
    /\ socket' = [socket EXCEPT ![s] = "new"]
    /\ UNCHANGED <<bufferVars, dataFlag, handler, readerVars>>

(* AT+QIOPEN succeeds and the id is stored.  URCs that come before that    *)
(* find no socket: a connection closed by then is "open" and silent.       *)
Opened(s) == socket' = [socket EXCEPT ![s] = "open"]

(* The application may call: its reader is not inside socket_recvfrom().   *)
Unlocked(s) == reader[s] \in {"idle", "blocked"}

Connect(s) ==
    /\ s \notin Udp /\ socket[s] = "new" /\ Unlocked(s) /\ LockFree
    /\ Opened(s)
    /\ UNCHANGED <<bufferVars, dataFlag, handler, readerVars>>

(* socket_sendto() opens an unopened UDP socket, which may fail. *)
CreateSocket(s) ==
    /\ s \in Udp /\ socket[s] = "new" /\ Unlocked(s) /\ LockFree
    /\ Opened(s)
    /\ UNCHANGED <<bufferVars, dataFlag, handler, readerVars>>

(* What has been buffered so far is not fresh any more. *)
Aged(pieces) == [i \in DOMAIN pieces |-> FALSE]

(* Mutant: what is buffered stays, and is read as the reply. *)
SendtoNoFlush(s) ==
    /\ s \in Udp /\ socket[s] = "open" /\ Unlocked(s) /\ LockFree
    /\ sent' = [sent EXCEPT ![s] = TRUE]
    /\ buffer' = [buffer EXCEPT ![s] = Aged(@)]
    /\ UNCHANGED <<socket, dataFlag, handler, readerVars>>

(* ... and flushes under the lock: "discard any stale recv data before     *)
(* sending".  A send over TCP changes nothing here.                        *)
Sendto(s) ==
    /\ s \in Udp /\ socket[s] = "open" /\ Unlocked(s) /\ LockFree
    /\ sent' = [sent EXCEPT ![s] = TRUE]
    /\ buffer' = [buffer EXCEPT ![s] = <<>>]
    /\ dataFlag' = (dataFlag /\ buffer[s] = <<>>)
    /\ UNCHANGED <<socket, handler, readerVars>>

(* A sendto that changes the IP version reopens the socket.  When the new  *)
(* port cannot be bound, the socket has no id any more.                    *)
LoseId(s) ==
    /\ s \in Udp /\ socket[s] = "open" /\ sent[s] /\ Unlocked(s) /\ LockFree
    /\ socket' = [socket EXCEPT ![s] = "new"]
    /\ UNCHANGED <<bufferVars, dataFlag, handler, readerVars>>

(* InternetSocket::close() ends the reader's wait.  What is in the buffer  *)
(* stays for the slot's next socket.                                       *)
SocketClose(s) ==
    /\ socket[s] # "free" /\ Unlocked(s) /\ LockFree
    /\ socket' = [socket EXCEPT ![s] = "free"]
    /\ buffer' = [buffer EXCEPT ![s] = Aged(@)]
    /\ sent' = [sent EXCEPT ![s] = FALSE]
    /\ handler' = [h \in Runners |->
                     IF handler[h] \in Msg /\ handler[h].slot = s THEN Stale ELSE handler[h]]
    /\ reader' = [reader EXCEPT ![s] = "idle"]
    /\ result' = [result EXCEPT ![s] = NoResult]
    /\ readFlag' = [readFlag EXCEPT ![s] = FALSE]
    /\ UNCHANGED dataFlag

-----------------------------------------------------------------------------
(* InternetSocket's recvfrom() and socket_recvfrom().                      *)

Goto(s, label) == reader' = [reader EXCEPT ![s] = label]

(* A TCP socket is read when it is connected. *)
Recv(s) ==
    /\ reader[s] = "idle"
    /\ socket[s] \in {"open", "closed"} \/ (s \in Udp /\ socket[s] = "new")
    /\ Goto(s, "enter")
    /\ result' = [result EXCEPT ![s] = NoResult]
    /\ UNCHANGED <<socket, bufferVars, dataFlag, handler, readFlag>>

Return(s, kind) ==
    /\ Goto(s, "idle")
    /\ result' = [result EXCEPT ![s] = [NoResult EXCEPT !.kind = kind]]

(* A closed socket returns 0, an unopened one is opened, or fails. *)
Enter(s) ==
    /\ reader[s] = "enter"
    /\ \/ /\ socket[s] = "closed"
          /\ Return(s, "eof")
          /\ UNCHANGED socket
       \/ /\ socket[s] = "open"
          /\ Goto(s, "look")
          /\ UNCHANGED <<socket, result>>
       \/ /\ socket[s] = "new"
          /\ \/ Opened(s) /\ Goto(s, "look") /\ UNCHANGED result
             \/ Return(s, "none") /\ UNCHANGED socket
    /\ UNCHANGED <<bufferVars, dataFlag, handler, readFlag>>

(* empty(): wait for the flag, which is consumed if it is set already, or  *)
(* clear it.                                                               *)
Look(s) ==
    /\ reader[s] = "look"
    /\ IF buffer[s] = <<>> THEN Goto(s, "await") ELSE Goto(s, "clear")
    /\ UNCHANGED <<socket, bufferVars, dataFlag, handler, readFlag, result>>

Await(s) ==
    /\ reader[s] = "await"
    /\ Goto(s, IF dataFlag THEN "get" ELSE "wait")
    /\ dataFlag' = FALSE
    /\ UNCHANGED <<socket, bufferVars, handler, readFlag, result>>

ClearDataFlag(s) ==
    /\ reader[s] = "clear"
    /\ dataFlag' = FALSE
    /\ Goto(s, "get")
    /\ UNCHANGED <<socket, bufferVars, handler, readFlag, result>>

(* Mutant: the wait has no time-out. *)
WaitForever(s) == FALSE /\ UNCHANGED vars

(* 5 s for UDP, 1 s for TCP *)
WaitTimeout(s) ==
    /\ reader[s] = "wait"
    /\ Goto(s, "leave")
    /\ result' = [result EXCEPT ![s] = [NoResult EXCEPT !.kind = "would block"]]
    /\ UNCHANGED <<socket, bufferVars, dataFlag, handler, readFlag>>

(* Mutant: zero bytes are returned as zero. *)
GetZero(s) ==
    /\ reader[s] = "get"
    /\ Goto(s, "leave")
    /\ IF buffer[s] = <<>>
       THEN result' = [result EXCEPT ![s] = [NoResult EXCEPT !.kind = "eof"]] /\ UNCHANGED buffer
       ELSE \E n \in IF s \in Udp THEN {1} ELSE 1..Len(buffer[s]) :
              /\ result' = [result EXCEPT ![s] = [kind |-> "data", fresh |-> Head(buffer[s])]]
              /\ buffer' = [buffer EXCEPT ![s] = SubSeq(@, n + 1, Len(@))]
    /\ UNCHANGED <<socket, sent, dataFlag, handler, readFlag>>

(* get_datagram(), or get_data() of as much as fits the caller's buffer;   *)
(* a stale flag leads to an empty buffer and to WOULD_BLOCK, never to 0.   *)
Get(s) ==
    /\ reader[s] = "get"
    /\ Goto(s, "leave")
    /\ IF buffer[s] = <<>>
       THEN result' = [result EXCEPT ![s] = [NoResult EXCEPT !.kind = "would block"]] /\ UNCHANGED buffer
       ELSE \E n \in IF s \in Udp THEN {1} ELSE 1..Len(buffer[s]) :
              /\ result' = [result EXCEPT ![s] = [kind |-> "data", fresh |-> Head(buffer[s])]]
              /\ buffer' = [buffer EXCEPT ![s] = SubSeq(@, n + 1, Len(@))]
    /\ UNCHANGED <<socket, sent, dataFlag, handler, readFlag>>

(* A socket that was closed meanwhile returns 0, whatever was read; a      *)
(* blocking socket waits for its callback before it tries again.           *)
Leave(s) ==
    /\ reader[s] = "leave"
    /\ \/ socket[s] = "closed" /\ Return(s, "eof")
       \/ /\ socket[s] # "closed" /\ result[s].kind = "would block"
          /\ Goto(s, "blocked")
          /\ result' = [result EXCEPT ![s] = NoResult]
       \/ /\ socket[s] # "closed" /\ result[s].kind # "would block"
          /\ Return(s, IF result[s].kind = "eof" THEN "eof" ELSE "none")
    /\ UNCHANGED <<socket, bufferVars, dataFlag, handler, readFlag>>

WakeUp(s) ==
    /\ reader[s] = "blocked" /\ readFlag[s]
    /\ readFlag' = [readFlag EXCEPT ![s] = FALSE]
    /\ Goto(s, "enter")
    /\ UNCHANGED <<socket, bufferVars, dataFlag, handler, result>>

(* set_timeout(): the wait for the callback may be limited. *)
GiveUp(s) ==
    /\ reader[s] = "blocked" /\ ~readFlag[s]
    /\ Return(s, "none")
    /\ UNCHANGED <<socket, bufferVars, dataFlag, handler, readFlag>>

-----------------------------------------------------------------------------
Reading(s) ==
    \/ Enter(s) \/ Look(s) \/ Await(s) \/ ClearDataFlag(s) \/ WaitTimeout(s)
    \/ Get(s) \/ Leave(s) \/ WakeUp(s)

Call(s) ==
    \/ SocketOpen(s) \/ Connect(s) \/ CreateSocket(s) \/ Sendto(s) \/ LoseId(s)
    \/ SocketClose(s) \/ Recv(s) \/ GiveUp(s)

Handling(h) == SetDataFlag(h) \/ Callback(h)

Next ==
    \/ \E s \in Slots : Reading(s) \/ Call(s)
    \/ \E h \in Runners : Handling(h) \/ \E s \in Slots : UrcRecv(h, s) \/ UrcClosed(h, s)

Spec == Init /\ [][Next]_vars

(* Readers and handlers run and time-outs expire.  Nothing is assumed of   *)
(* the modem, of senders, or of an application's own time-out.             *)
FairSpec ==
    /\ Spec
    /\ \A s \in Slots : WF_vars(Reading(s))
    /\ \A h \in Runners : WF_vars(Handling(h))

-----------------------------------------------------------------------------
(* Properties.                                                             *)

TypeOK ==
    /\ socket \in [Slots -> {"free", "new", "open", "closed"}]
    /\ buffer \in [Slots -> Seq(BOOLEAN)] /\ \A s \in Slots : Len(buffer[s]) <= BufferSize
    /\ sent \in [Slots -> BOOLEAN]
    /\ dataFlag \in BOOLEAN
    /\ handler \in [Runners -> Msg \cup {NoMsg, Stale}]
    /\ readFlag \in [Slots -> BOOLEAN]
    /\ reader \in [Slots -> {"idle", "enter", "look", "await", "wait", "clear", "get", "leave",
                             "blocked"}]
    /\ result \in [Slots -> [kind : {"none", "eof", "data", "would block"},
                             fresh : BOOLEAN]]

(* "A zero-byte result from a signaled DATA_FLAG would be interpreted by   *)
(* mbedtls as EOF": however the flag is left set by handlers, flushes and  *)
(* the readers of other sockets, 0 is returned only when the connection    *)
(* is closed.                                                              *)
EofMeansClosed ==
    \A s \in Slots : (reader[s] \in {"idle", "leave"} /\ result[s].kind = "eof") =>
        socket[s] = "closed"

(* "Discard any stale recv data before sending": once a UDP socket has     *)
(* sent, what a read takes arrived after its last send: no earlier reply,  *)
(* and nothing that a previous socket of the slot has left.                *)
ReplyNotStale ==
    \A s \in Udp : (reader[s] = "leave" /\ result[s].kind = "data" /\ sent[s]) =>
        result[s].fresh

(* The sockets that readers and handlers see live as the control plane     *)
(* lets them (CellularStack implements the same specification).            *)
Life == INSTANCE SocketLife

SocketsLive == Life!Spec

(* No wake-up is lost: a reader that sleeps with no callback to come has   *)
(* nothing to read and is not closed, whoever took the shared flag.        *)
AwaitsCallback(s) ==
    readFlag[s] \/ \E h \in Runners : handler[h] \in Msg /\ handler[h].slot = s

SleeperHasNothing ==
    \A s \in Slots : (reader[s] = "blocked" /\ ~AwaitsCallback(s)) =>
        buffer[s] = <<>> /\ socket[s] # "closed"

(* A read of a socket that has data, or is closed, returns, unless a send  *)
(* discards the data first.                                                *)
ReadReturns ==
    \A s \in Slots :
        (reader[s] # "idle" /\ (buffer[s] # <<>> \/ socket[s] = "closed")) ~>
            (reader[s] = "idle" \/ (buffer[s] = <<>> /\ socket[s] # "closed"))
=============================================================================
