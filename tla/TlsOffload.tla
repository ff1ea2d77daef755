----------------------------- MODULE TlsOffload -----------------------------
(***************************************************************************)
(* TLS sockets on the one TLS connection of the modem (the AT+QSSL part of *)
(* QUECTEL_BC660KGL_CellularStack).                                        *)
(*                                                                         *)
(* The driver keeps one security level, one owner and one answer for all   *)
(* TLS sockets, and waits for the answer on the event flag that plain      *)
(* sockets use for theirs.  A socket uploads credentials, is enabled when  *)
(* it connects, sends, and is closed.                                      *)
(*                                                                         *)
(* As in CellularStack, a command is one step, taken when the URCs sent    *)
(* before its response have been handled.  The event-queue thread runs the *)
(* end of two handlers after it has released the AT lock: meanwhile a      *)
(* thread inside a command may handle the next URC itself.                 *)
(***************************************************************************)
EXTENDS Naturals, Sequences, FiniteSets

CONSTANTS
    Slots,          \* indices of _socket[]
    NoId,           \* -1
    NoMsg,          \* the event-queue thread is in no handler
    MaxTls,         \* TLS sockets that exist at a time
    MaxChunks,      \* longest payload, in blocks of OP_SSL_PACKET_SIZE_MAX
    MayFail,        \* commands that may fail
    EarlyClose      \* may the peer close before connect() has returned?

Commands == {"upload", "seclevel", "sslversion", "dataformat", "open", "close", "send"}

(* +QSSLOPEN: or +QSSLURC: "closed" *)
Msg == [type : {"open", "closed"}, result : {"ok", "fail", "none"}]

ASSUME NamesAssumption == NoId \notin Slots /\ NoMsg \notin Msg

ASSUME ParametersAssumption ==
    /\ IsFiniteSet(Slots)
    /\ MaxTls \in Nat /\ MaxChunks \in Nat
    /\ MayFail \subseteq Commands
    /\ EarlyClose \in BOOLEAN

VARIABLES
    socket,         \* _socket[]: allocated, tls_socket, id, connected, closed
    tlsSecLevel,    \* _tls_sec_level: 0 none, 1 server, 2 mutual authentication
    sslSocketId,    \* _ssl_socket_id
    lastErr,        \* _last_ssl_connect_err: "none" (-1), "ok" or "fail"
    connFlag,       \* CONNECTED_FLAG of _event_flag, shared with +QIOPEN
    call,           \* each slot's thread: where it is, and the blocks left to send
    handler,        \* URC whose handler the event-queue thread has not finished
    modem,          \* the modem's TLS context and connection
    urcs,           \* URCs on the serial line, oldest first
    asked           \* ghost: the level each socket's credentials ask for

driverVars == <<tlsSecLevel, sslSocketId, lastErr, connFlag>>
vars == <<socket, driverVars, call, handler, modem, urcs, asked>>

Free == [used |-> FALSE, tls |-> FALSE, id |-> NoId, connected |-> FALSE, closed |-> FALSE]

NoCall == [pc |-> "idle", left |-> 0]

Init ==
    /\ socket = [s \in Slots |-> Free]
    /\ tlsSecLevel = 0 /\ sslSocketId = NoId /\ lastErr = "none" /\ connFlag = FALSE
    /\ call = [s \in Slots |-> NoCall]
    /\ handler = NoMsg
    /\ modem = [conn |-> "closed", owner |-> NoId, connLevel |-> 0, level |-> 0,
                applied |-> {}, closeFailed |-> FALSE]
    /\ urcs = <<>>
    /\ asked = [s \in Slots |-> 0]

-----------------------------------------------------------------------------
(* The modem.                                                              *)

(* A command succeeds, is refused, or takes effect with its response lost. *)
Outcomes(c) ==
    {o \in [done : BOOLEAN, err : BOOLEAN] :
        (o.done \/ o.err) /\ (o.err => c \in MayFail)}

(* Every URC sent before the response has been handled. *)
Command == urcs = <<>>

(* AT+QSSLCLOSE, which is never sent for one of several connections. *)
Qsslclose(o) ==
    modem' = IF o.done
             THEN [modem EXCEPT !.conn = "closed", !.owner = NoId, !.closeFailed = FALSE]
             ELSE [modem EXCEPT !.closeFailed = TRUE]

ModemAnswer ==
    /\ modem.conn = "opening"
    /\ \E r \in {"ok", "fail"} :
         /\ modem' = [modem EXCEPT !.conn = IF r = "ok" THEN "open" ELSE "closed"]
         /\ urcs' = Append(urcs, [type |-> "open", result |-> r])
    /\ UNCHANGED <<socket, driverVars, call, handler, asked>>

ModemDrop ==
    /\ modem.conn = "open"
    /\ EarlyClose \/ (modem.owner # NoId /\ socket[modem.owner].connected)
    /\ modem' = [modem EXCEPT !.conn = "closed"]
    /\ urcs' = Append(urcs, [type |-> "closed", result |-> "none"])
    /\ UNCHANGED <<socket, driverVars, call, handler, asked>>

(* A plain socket's +QIOPEN sets the flag, its thread clears or consumes it. *)
ForeignFlag ==
    /\ connFlag' = ~connFlag
    /\ UNCHANGED <<socket, tlsSecLevel, sslSocketId, lastErr, call, handler, modem, urcs, asked>>

-----------------------------------------------------------------------------
(* URC handlers.                                                           *)

(* Where a thread is inside a command. *)
Commanding == {"seclevel", "sslversion", "dataformat", "open", "fail", "send"}

(* find_socket(_ssl_socket_id) *)
Owned(s) == sslSocketId # NoId /\ socket[s].used /\ socket[s].id = sslSocketId

MarkClosed ==
    socket' = [s \in Slots |-> IF Owned(s) THEN [socket[s] EXCEPT !.closed = TRUE] ELSE socket[s]]

(* urc_qsslopen() stores the result and urc_qsslurc_closed() reads its     *)
(* arguments under the AT lock, which the event-queue thread then releases *)
HandlerStart ==
    /\ handler = NoMsg /\ urcs # <<>>
    /\ handler' = Head(urcs)
    /\ urcs' = Tail(urcs)
    /\ lastErr' = IF Head(urcs).type = "open" THEN Head(urcs).result ELSE lastErr
    /\ UNCHANGED <<socket, tlsSecLevel, sslSocketId, connFlag, call, modem, asked>>

(* ... before it sets the flag, or looks for the socket to mark.           *)
HandlerEnd ==
    /\ handler # NoMsg
    /\ handler' = NoMsg
    /\ IF handler.type = "open"
       THEN connFlag' = TRUE /\ UNCHANGED socket
       ELSE MarkClosed /\ UNCHANGED connFlag
    /\ UNCHANGED <<tlsSecLevel, sslSocketId, lastErr, call, modem, urcs, asked>>

(* A thread waiting for a response runs the whole handler itself.          *)
HandleInline(s) ==
    /\ call[s].pc \in Commanding /\ urcs # <<>>
    /\ urcs' = Tail(urcs)
    /\ IF Head(urcs).type = "open"
       THEN lastErr' = Head(urcs).result /\ connFlag' = TRUE /\ UNCHANGED socket
       ELSE MarkClosed /\ UNCHANGED <<lastErr, connFlag>>
    /\ UNCHANGED <<tlsSecLevel, sslSocketId, call, handler, modem, asked>>

-----------------------------------------------------------------------------
(* Calls.                                                                  *)

Idle(s) == call[s] = NoCall

Goto(s, label) == call' = [call EXCEPT ![s].pc = label]

Return(s) == call' = [call EXCEPT ![s] = NoCall]

(* AT_CellularStack::socket_open() *)
SocketOpen(s) ==
    /\ Idle(s) /\ ~socket[s].used
    /\ Cardinality({t \in Slots : socket[t].used}) < MaxTls
    /\ socket' = [socket EXCEPT ![s].used = TRUE]
    /\ UNCHANGED <<driverVars, call, handler, modem, urcs, asked>>

(* AT_CellularStack::socket_close() calls socket_close_impl() for a socket *)
(* that has an id, and that ssl_socket_close_impl().                       *)
SocketClose(s) ==
    /\ Idle(s) /\ socket[s].used
    /\ socket' = [socket EXCEPT ![s] = Free]
    /\ asked' = [asked EXCEPT ![s] = 0]
    /\ IF socket[s].id # NoId
       THEN /\ Command
            /\ \E o \in Outcomes("close") : Qsslclose(o)
            /\ tlsSecLevel' = 0 /\ sslSocketId' = NoId
       ELSE UNCHANGED <<modem, tlsSecLevel, sslSocketId>>
    /\ UNCHANGED <<lastErr, connFlag, call, handler, urcs>>

Raised(level, credential) ==
    IF credential = "cacert" THEN IF level < 1 THEN 1 ELSE level ELSE 2

(* setsockopt() with a credential: ssl_upload_credential(). *)
SetCredential(s, credential) ==
    /\ Idle(s) /\ socket[s].used /\ ~socket[s].connected
    /\ Command
    /\ \E o \in Outcomes("upload") :
         IF o.err
         THEN UNCHANGED <<tlsSecLevel, asked>>
         ELSE /\ tlsSecLevel' = Raised(tlsSecLevel, credential)
              /\ asked' = [asked EXCEPT ![s] =
                             IF credential = "cacert" /\ @ = 2 THEN 2
                             ELSE IF credential = "cacert" THEN 1 ELSE 2]
    /\ UNCHANGED <<socket, sslSocketId, lastErr, connFlag, call, handler, modem, urcs>>

(* TLSSocket::connect() sets NSAPI_TLSSOCKET_ENABLE and then connects.     *)
Connect(s) ==
    /\ Idle(s) /\ socket[s].used /\ ~socket[s].connected
    /\ socket' = [socket EXCEPT ![s].tls = TRUE]
    /\ modem' = [modem EXCEPT !.applied = {}]
    /\ Goto(s, "seclevel")
    /\ UNCHANGED <<driverVars, handler, urcs, asked>>

(* The three AT+QSSLCFG commands; only the last one's error is looked at.  *)
Configure(s, parameter) ==
    /\ call[s].pc = parameter /\ Command
    /\ \E o \in Outcomes(parameter) :
         /\ modem' = IF ~o.done THEN modem
                     ELSE [modem EXCEPT !.applied = @ \cup {parameter},
                                        !.level = IF parameter = "seclevel" THEN tlsSecLevel ELSE @]
         /\ CASE parameter = "seclevel"   -> Goto(s, "sslversion")
              [] parameter = "sslversion" -> Goto(s, "dataformat")
              [] parameter = "dataformat" -> IF o.err THEN Return(s) ELSE Goto(s, "begin")
    /\ UNCHANGED <<socket, driverVars, handler, urcs, asked>>

(* Mutant: the last answer is not forgotten. *)
BeginKeepsAnswer(s) ==
    /\ call[s].pc = "begin"
    /\ sslSocketId' = s
    /\ Goto(s, "clear")
    /\ UNCHANGED <<socket, tlsSecLevel, lastErr, connFlag, handler, modem, urcs, asked>>

(* ssl_socket_connect() *)
Begin(s) ==
    /\ call[s].pc = "begin"
    /\ sslSocketId' = s
    /\ lastErr' = "none"
    /\ Goto(s, "clear")
    /\ UNCHANGED <<socket, tlsSecLevel, connFlag, handler, modem, urcs, asked>>

ClearFlag(s) ==
    /\ call[s].pc = "clear"
    /\ connFlag' = FALSE
    /\ Goto(s, "open")
    /\ UNCHANGED <<socket, tlsSecLevel, sslSocketId, lastErr, handler, modem, urcs, asked>>

(* The modem refuses a second connection. *)
Qsslopen(s) ==
    /\ call[s].pc = "open" /\ Command
    /\ \E o \in [done : BOOLEAN, err : BOOLEAN] :
         /\ IF modem.conn = "closed" THEN o \in Outcomes("open") ELSE o.err /\ ~o.done
         /\ modem' = IF o.done
                     THEN [modem EXCEPT !.conn = "opening", !.owner = s, !.connLevel = modem.level]
                     ELSE modem
         /\ Goto(s, IF o.err THEN "fail" ELSE "wait")
    /\ UNCHANGED <<socket, driverVars, handler, urcs, asked>>

WaitAnswer(s) ==
    /\ call[s].pc = "wait" /\ connFlag
    /\ connFlag' = FALSE
    /\ Goto(s, "judge")
    /\ UNCHANGED <<socket, tlsSecLevel, sslSocketId, lastErr, handler, modem, urcs, asked>>

(* Mutant: the wait has no time-out. *)
WaitForever(s) == FALSE /\ UNCHANGED vars

(* OP_QSSLOPEN_TIMEOUT *)
WaitTimeout(s) ==
    /\ call[s].pc = "wait" /\ ~connFlag
    /\ Goto(s, "fail")
    /\ UNCHANGED <<socket, driverVars, handler, modem, urcs, asked>>

Judge(s) ==
    /\ call[s].pc = "judge"
    /\ IF lastErr = "ok"
       THEN /\ socket' = [socket EXCEPT ![s].id = s, ![s].connected = TRUE]
            /\ Return(s)
       ELSE Goto(s, "fail") /\ UNCHANGED socket
    /\ UNCHANGED <<driverVars, handler, modem, urcs, asked>>

(* Mutant: a failed attempt forgets the level that the credentials set. *)
CloseExitResets(s) ==
    /\ call[s].pc = "fail" /\ Command
    /\ \E o \in Outcomes("close") : Qsslclose(o)
    /\ sslSocketId' = NoId /\ tlsSecLevel' = 0
    /\ Return(s)
    /\ UNCHANGED <<socket, lastErr, connFlag, handler, urcs, asked>>

(* Mutant: a failed attempt sends no AT+QSSLCLOSE. *)
CloseExitSilent(s) ==
    /\ call[s].pc = "fail" /\ Command
    /\ sslSocketId' = NoId
    /\ Return(s)
    /\ UNCHANGED <<socket, tlsSecLevel, lastErr, connFlag, handler, modem, urcs, asked>>

(* close_exit: *)
CloseExit(s) ==
    /\ call[s].pc = "fail" /\ Command
    /\ \E o \in Outcomes("close") : Qsslclose(o)
    /\ sslSocketId' = NoId
    /\ Return(s)
    /\ UNCHANGED <<socket, tlsSecLevel, lastErr, connFlag, handler, urcs, asked>>

(* socket_sendto() of n blocks; a socket without an id sends nothing here. *)
Sendto(s, n) ==
    /\ Idle(s) /\ socket[s].id # NoId /\ ~socket[s].closed
    /\ call' = [call EXCEPT ![s] = [pc |-> "send", left |-> n]]
    /\ UNCHANGED <<socket, driverVars, handler, modem, urcs, asked>>

(* One turn of ssl_socket_sendto_impl()'s loop: an error ends the call,    *)
(* however many blocks the modem has taken.                                *)
Qsslsend(s) ==
    /\ call[s].pc = "send" /\ Command
    /\ \E err \in BOOLEAN :
         /\ IF modem.conn = "open" THEN err => "send" \in MayFail ELSE err
         /\ IF err \/ call[s].left = 1
            THEN Return(s)
            ELSE call' = [call EXCEPT ![s].left = @ - 1]
    /\ UNCHANGED <<socket, driverVars, handler, modem, urcs, asked>>

-----------------------------------------------------------------------------
Call(s) ==
    \/ SocketOpen(s) \/ SocketClose(s) \/ Connect(s)
    \/ \E c \in {"cacert", "clientcert", "clientkey"} : SetCredential(s, c)
    \/ \E n \in 1..MaxChunks : Sendto(s, n)

Step(s) ==
    \/ \E p \in {"seclevel", "sslversion", "dataformat"} : Configure(s, p)
    \/ Begin(s) \/ ClearFlag(s) \/ Qsslopen(s)
    \/ WaitAnswer(s) \/ WaitTimeout(s) \/ Judge(s) \/ CloseExit(s)
    \/ Qsslsend(s)

Modem == ModemAnswer \/ ModemDrop

Handlers == HandlerStart \/ HandlerEnd

Next ==
    \/ \E s \in Slots : Call(s) \/ Step(s) \/ HandleInline(s)
    \/ Modem \/ Handlers \/ ForeignFlag

Spec == Init /\ [][Next]_vars

(* Threads run, time-outs expire, and the event queue is served. *)
FairSpec == Spec /\ (\A s \in Slots : SF_vars(Step(s))) /\ WF_vars(Handlers)

-----------------------------------------------------------------------------
(* Properties.                                                             *)

TypeOK ==
    /\ socket \in [Slots -> [used : BOOLEAN, tls : BOOLEAN, id : Slots \cup {NoId},
                             connected : BOOLEAN, closed : BOOLEAN]]
    /\ tlsSecLevel \in 0..2 /\ sslSocketId \in Slots \cup {NoId}
    /\ lastErr \in {"none", "ok", "fail"} /\ connFlag \in BOOLEAN
    /\ call \in [Slots -> [pc : {"idle", "begin", "clear", "wait", "judge"} \cup Commanding,
                           left : 0..MaxChunks]]
    /\ handler \in Msg \cup {NoMsg}
    /\ modem \in [conn : {"closed", "opening", "open"}, owner : Slots \cup {NoId},
                  connLevel : 0..2, level : 0..2, applied : SUBSET Commands,
                  closeFailed : BOOLEAN]
    /\ urcs \in Seq(Msg)
    /\ asked \in [Slots -> 0..2]

Quiet(s) == call[s].pc = "idle" /\ urcs = <<>> /\ handler = NoMsg

(* connect() never succeeds on somebody else's answer, late or meant for a *)
(* plain socket, and a drop is never missed: a socket that reports a       *)
(* connection has the modem's, opened by its own AT+QSSLOPEN.              *)
ConnectedIsOpen ==
    \A s \in Slots : (Quiet(s) /\ socket[s].connected /\ ~socket[s].closed) =>
        modem.conn = "open" /\ modem.owner = s

(* close_exit: and ssl_socket_close_impl() leave no connection behind that *)
(* no socket answers for, on any path through connect(), unless the modem  *)
(* did not execute the last AT+QSSLCLOSE.                                  *)
NoOrphan ==
    (\A s \in Slots : call[s].pc = "idle") =>
        \/ modem.conn = "closed" \/ modem.closeFailed
        \/ \E s \in Slots : socket[s].id = s /\ modem.owner = s

(* A connection is opened at no lower level than the credentials of its    *)
(* socket ask for, whatever attempts failed and whichever sockets used the *)
(* level before, if AT+QSSLCFG "seclevel", whose error setsockopt() does   *)
(* not see, took effect.                                                   *)
LevelAsAsked ==
    \A s \in Slots : (socket[s].connected /\ "seclevel" \in modem.applied) =>
        modem.connLevel >= asked[s]

(* Every call returns, also when a plain socket's thread takes the flag.   *)
CallsReturn == \A s \in Slots : call[s].pc # "idle" ~> call[s].pc = "idle"
=============================================================================
