---------------------------- MODULE CellularStack ----------------------------
(***************************************************************************)
(* Opening, using and closing sockets through the one AT channel           *)
(* (QUECTEL_BC660KGL_CellularStack).                                       *)
(*                                                                         *)
(* Each socket slot has one application thread that calls connect, sendto, *)
(* recvfrom and close on it.  The calls share the AT lock, the last error  *)
(* of the AT handler, the CONNECTED event flag and the answer to the last  *)
(* AT+QIOPEN, which the modem sends later, as a +QIOPEN URC.               *)
(*                                                                         *)
(* URCs and responses come over one serial line, so a command is complete  *)
(* only when every URC sent before its response has been handled: by the   *)
(* event-queue thread while the lock is free, or by the thread that holds  *)
(* the lock while it waits for a response.  That makes a command one step, *)
(* taken when no URC is pending.                                           *)
(*                                                                         *)
(* Payload is not modelled here: SocketBuffer does that.                   *)
(***************************************************************************)
EXTENDS Naturals, Sequences, FiniteSets

CONSTANTS
    Slots,          \* indices of _socket[], connect ids of the modem
    NoId,           \* -1
    NoOne,          \* nobody holds the AT lock
    NoMsg,          \* no URC is being handled
    Protocols,      \* protocols of the sockets that are opened, by slot
    Families,       \* IP versions of the addresses that are used
    MaxCalls,       \* how many calls may be in progress at a time
    EarlyClose      \* may the peer close before connect() has returned?

ASSUME NamesAssumption ==
    /\ NoId \notin Slots /\ NoOne \notin Slots \cup {"urc"}
    /\ "urc" \notin Slots

ASSUME ParametersAssumption ==
    /\ Protocols \in [Slots -> SUBSET {"UDP", "TCP"}]
    /\ Families \subseteq {"IPv4", "IPv6"}
    /\ MaxCalls \in Nat
    /\ EarlyClose \in BOOLEAN

VARIABLES
    socket,     \* _socket[]: protocol ("none": free slot), id, connected, closed
    ipVersion,  \* _ip_ver_sendto, shared by all sockets
    connFlag,   \* CONNECTED_FLAG of _event_flag
    lastId,     \* _last_modem_connect_id
    lastErr,    \* _last_connect_error
    atOwner,    \* who holds the AT lock: a slot's thread, "urc" or NoOne
    atErr,      \* the AT handler's last error: is there one?
    urc,        \* the URC being handled
    call,       \* each slot's thread: where it is in which call, and the
                \* locals attempt, modem_connect_id, err and address family
    modem,      \* state of each connect id in the modem
    urcs        \* URCs on the serial line, oldest first

answerVars == <<connFlag, lastId, lastErr>>
atVars == <<atOwner, atErr>>
modemVars == <<modem, urcs>>
vars == <<socket, ipVersion, answerVars, atVars, urc, call, modemVars>>

Free == [proto |-> "none", id |-> NoId, connected |-> FALSE, closed |-> FALSE]

NoCall == [pc |-> "idle", op |-> "none", attempt |-> 0, modemId |-> NoId,
           err |-> "none", family |-> "IPv4"]

Init ==
    /\ socket = [s \in Slots |-> Free]
    /\ ipVersion = "unspec"
    /\ connFlag = FALSE /\ lastId = NoId /\ lastErr = "none"
    /\ atOwner = NoOne /\ atErr = FALSE
    /\ urc = NoMsg
    /\ call = [s \in Slots |-> NoCall]
    /\ modem = [m \in Slots |-> "free"]
    /\ urcs = <<>>

-----------------------------------------------------------------------------
(* The AT channel.                                                         *)

(* Thread s gets the response to a command.  It already holds the lock, or *)
(* at_cmd_discard() takes and releases it.                                 *)
Command(s) == atOwner \in {NoOne, s} /\ urc = NoMsg /\ urcs = <<>>

(* Where a thread is inside a command: it reads the serial line and        *)
(* handles what URCs it finds there.                                       *)
Commanding == {"open", "closeOwn", "closeOther", "closeImpl", "reclose", "send"}

CanHandle ==
    /\ urc = NoMsg /\ urcs # <<>>
    /\ atOwner # NoOne => atOwner \in Slots /\ call[atOwner].pc \in Commanding

(* urc_qiopen() stores the connect id first and the error after it.        *)
UrcOpenId ==
    /\ CanHandle /\ Head(urcs).type = "open"
    /\ urc' = Head(urcs)
    /\ urcs' = Tail(urcs)
    /\ lastId' = Head(urcs).id
    /\ atOwner' = IF atOwner = NoOne THEN "urc" ELSE atOwner
    /\ atErr' = FALSE
    /\ UNCHANGED <<socket, ipVersion, connFlag, lastErr, call, modem>>

UrcOpenErr ==
    /\ urc # NoMsg
    /\ lastErr' = urc.result
    /\ connFlag' = TRUE
    /\ urc' = NoMsg
    /\ atOwner' = IF atOwner = "urc" THEN NoOne ELSE atOwner
    /\ UNCHANGED <<socket, ipVersion, lastId, atErr, call, modemVars>>

(* find_socket(m): is there a socket with this id? *)
Found(m) == \E s \in Slots : socket[s].proto # "none" /\ socket[s].id = m

(* Mutant: the handler finds the socket and does not mark it closed. *)
UrcClosedIgnored ==
    /\ CanHandle /\ Head(urcs).type = "closed"
    /\ urcs' = Tail(urcs)
    /\ atErr' = FALSE
    /\ UNCHANGED <<socket, ipVersion, answerVars, atOwner, urc, call, modem>>

(* Mutant: the connect id is taken for the socket's index. *)
UrcClosedIndexed ==
    /\ CanHandle /\ Head(urcs).type = "closed"
    /\ urcs' = Tail(urcs)
    /\ atErr' = FALSE
    /\ socket' = [socket EXCEPT ![Head(urcs).id].closed = TRUE]
    /\ UNCHANGED <<ipVersion, answerVars, atOwner, urc, call, modem>>

(* urc_qiurc(URC_CLOSED): the URC of an id no socket has yet is discarded. *)
UrcClosed ==
    /\ CanHandle /\ Head(urcs).type = "closed"
    /\ urcs' = Tail(urcs)
    /\ atErr' = FALSE
    /\ socket' = [s \in Slots |-> IF socket[s].proto # "none" /\ socket[s].id = Head(urcs).id
                                  THEN [socket[s] EXCEPT !.closed = TRUE]
                                  ELSE socket[s]]
    /\ UNCHANGED <<ipVersion, answerVars, atOwner, urc, call, modem>>

HandleUrc == UrcOpenId \/ UrcOpenErr \/ UrcClosed

-----------------------------------------------------------------------------
(* The modem.  An id whose connection failed or was dropped is "dead": it  *)
(* needs an AT+QICLOSE.  A bind failure leaves the id free.                *)

ModemAnswer(m) ==
    /\ modem[m] = "opening"
    /\ \E r \in {"ok", "fail", "bind"} :
         /\ modem' = [modem EXCEPT ![m] =
                        CASE r = "ok" -> "open" [] r = "fail" -> "dead" [] r = "bind" -> "free"]
         /\ urcs' = Append(urcs, [type |-> "open", id |-> m, result |-> r])
    /\ UNCHANGED <<socket, ipVersion, answerVars, atVars, urc, call>>

ModemDrop(m) ==
    /\ modem[m] = "open" /\ socket[m].proto = "TCP"
    /\ EarlyClose \/ socket[m].id = m
    /\ modem' = [modem EXCEPT ![m] = "dead"]
    /\ urcs' = Append(urcs, [type |-> "closed", id |-> m, result |-> "none"])
    /\ UNCHANGED <<socket, ipVersion, answerVars, atVars, urc, call>>

Modem == \E m \in Slots : ModemAnswer(m) \/ ModemDrop(m)

(* AT+QICLOSE=m takes effect; AT+QICLOSE=-1 is an error. *)
Qiclose(m) ==
    /\ modem' = [k \in Slots |-> IF k = m THEN "free" ELSE modem[k]]
    /\ atErr' = (m = NoId)

-----------------------------------------------------------------------------
(* Calls.                                                                  *)

Idle(s) == call[s] = NoCall /\ Cardinality({t \in Slots : call[t] # NoCall}) < MaxCalls

Goto(s, label) == call' = [call EXCEPT ![s].pc = label]

Return(s) == call' = [call EXCEPT ![s] = NoCall]

(* AT_CellularStack::socket_open() hands out a free slot. *)
SocketOpen(s, proto) ==
    /\ Idle(s) /\ socket[s].proto = "none"
    /\ socket' = [socket EXCEPT ![s] = [Free EXCEPT !.proto = proto]]
    /\ UNCHANGED <<ipVersion, answerVars, atVars, urc, call, modemVars>>

(* AT_CellularStack::socket_close() with this stack's socket_close_impl(). *)
SocketClose(s) ==
    /\ Idle(s) /\ socket[s].proto # "none"
    /\ Command(s)
    /\ IF socket[s].id = NoId THEN modem' = modem /\ atErr' = FALSE ELSE Qiclose(socket[s].id)
    /\ socket' = [socket EXCEPT ![s] = Free]
    /\ UNCHANGED <<ipVersion, answerVars, atOwner, urc, call, urcs>>

(* A call that has to open the socket first starts at "clear". *)
Start(s, operation, label) ==
    call' = [call EXCEPT ![s] = [NoCall EXCEPT !.pc = label, !.op = operation]]

SocketConnect(s) ==
    /\ Idle(s) /\ socket[s].proto = "TCP" /\ ~socket[s].connected
    /\ Start(s, "connect", "clear")
    /\ UNCHANGED <<socket, ipVersion, answerVars, atVars, urc, modemVars>>

SocketSendto(s, family) ==
    /\ Idle(s)
    /\ socket[s].proto = "UDP" \/ (socket[s].proto = "TCP" /\ socket[s].connected /\ ~socket[s].closed)
    /\ LET create == socket[s].id = NoId IN
         /\ ipVersion' = IF create THEN family ELSE ipVersion
         /\ call' = [call EXCEPT ![s] = [NoCall EXCEPT
                       !.pc = IF create THEN "clear" ELSE "lock", !.op = "send", !.family = family]]
    /\ UNCHANGED <<socket, answerVars, atVars, urc, modemVars>>

(* Only a UDP socket without an id needs opening; anything else a recvfrom *)
(* does leaves this module's state alone.                                  *)
SocketRecvfrom(s) ==
    /\ Idle(s) /\ socket[s].proto = "UDP" /\ socket[s].id = NoId
    /\ Start(s, "recv", "clear")
    /\ UNCHANGED <<socket, ipVersion, answerVars, atVars, urc, modemVars>>

-----------------------------------------------------------------------------
(* close_all_sockets(), when the device goes to sleep or powers off.       *)

Tracked(s) == socket[s].proto # "none" /\ ~socket[s].closed

(* reap_orphaned_modem_sockets() sends AT+QICLOSE for every id AT+QISTATE  *)
(* lists: each open connection, perhaps others in use; none if it fails.   *)
Orphans == {listed \in SUBSET {m \in Slots : modem[m] # "free"} :
              listed = {} \/ {m \in Slots : modem[m] = "open"} \subseteq listed}

(* The device closes the sockets of idle applications: one that frees a    *)
(* socket under a running call is a use after free and is left out.        *)
CloseAllSockets ==
    /\ \A s \in Slots : call[s] = NoCall /\ Command(s)
    /\ \E listed \in Orphans :
         modem' = [m \in Slots |->
                     IF m \in listed \/ \E s \in Slots : Tracked(s) /\ socket[s].id = m
                     THEN "free" ELSE modem[m]]
    /\ socket' = [s \in Slots |-> IF Tracked(s) THEN Free ELSE socket[s]]
    /\ atErr' = FALSE
    /\ UNCHANGED <<ipVersion, answerVars, atOwner, urc, call, urcs>>

-----------------------------------------------------------------------------
(* AT+QIOPEN and its answer: socket_connect() and open_udp_socket().       *)

Connecting(s) == call[s].op = "connect"

(* Mutant: the flag of an earlier answer is left set. *)
ClearFlagNot(s) ==
    /\ call[s].pc = "clear"
    /\ IF Connecting(s)
       THEN lastId' = NoId /\ lastErr' = "none"
       ELSE UNCHANGED <<lastId, lastErr>>
    /\ Goto(s, "open")
    /\ UNCHANGED <<socket, ipVersion, connFlag, atVars, urc, modemVars>>

(* Mutant: the AT lock is taken around the whole opening, as in the base   *)
(* class.                                                                  *)
ClearFlagLocked(s) ==
    /\ call[s].pc = "clear" /\ atOwner \in {NoOne, s}
    /\ atOwner' = s
    /\ connFlag' = FALSE
    /\ IF Connecting(s)
       THEN lastId' = NoId /\ lastErr' = "none"
       ELSE UNCHANGED <<lastId, lastErr>>
    /\ Goto(s, "open")
    /\ UNCHANGED <<socket, ipVersion, atErr, urc, modemVars>>

(* Only connect also forgets the previous answer. *)
ClearFlag(s) ==
    /\ call[s].pc = "clear"
    /\ connFlag' = FALSE
    /\ IF Connecting(s)
       THEN lastId' = NoId /\ lastErr' = "none"
       ELSE UNCHANGED <<lastId, lastErr>>
    /\ Goto(s, "open")
    /\ UNCHANGED <<socket, ipVersion, atVars, urc, modemVars>>

(* The modem refuses an id in use and may refuse any other.  connect gives *)
(* up at once; open_udp_socket() waits for an answer all the same.         *)
Qiopen(s) ==
    /\ call[s].pc = "open" /\ Command(s)
    /\ \/ /\ modem[s] \in {"free", "dead"}
          /\ modem' = [modem EXCEPT ![s] = "opening"]
          /\ atErr' = FALSE
          /\ Goto(s, "wait")
       \/ /\ atErr' = TRUE
          /\ Goto(s, IF Connecting(s) THEN "closeOwn" ELSE "wait")
          /\ UNCHANGED modem
    /\ UNCHANGED <<socket, ipVersion, answerVars, atOwner, urc, urcs>>

(* wait_any_for(CONNECTED_FLAG) consumes the flag ... *)
WaitAnswer(s) ==
    /\ call[s].pc = "wait" /\ connFlag
    /\ connFlag' = FALSE
    /\ Goto(s, "readId")
    /\ UNCHANGED <<socket, ipVersion, lastId, lastErr, atVars, urc, modemVars>>

(* Mutant: the wait has no time-out. *)
WaitForever(s) == FALSE /\ UNCHANGED vars

(* ... or gives up after 60 s. *)
WaitTimeout(s) ==
    /\ call[s].pc = "wait" /\ ~connFlag
    /\ call' = [call EXCEPT ![s].modemId = NoId, ![s].err = "timeout",
                            ![s].pc = IF Connecting(s) THEN "closeOwn" ELSE "decide"]
    /\ UNCHANGED <<socket, ipVersion, answerVars, atVars, urc, modemVars>>

(* The answer is read without the lock, one field after the other. *)
ReadId(s) ==
    /\ call[s].pc = "readId"
    /\ call' = [call EXCEPT ![s].modemId = lastId, ![s].pc = "readErr"]
    /\ UNCHANGED <<socket, ipVersion, answerVars, atVars, urc, modemVars>>

ReadErr(s) ==
    /\ call[s].pc = "readErr"
    /\ call' = [call EXCEPT ![s].err = lastErr, ![s].pc = "decide"]
    /\ UNCHANGED <<socket, ipVersion, answerVars, atVars, urc, modemVars>>

(* Mutant: off by one in the number of attempts. *)
RetryTwice(s, label) ==
    IF call[s].attempt < 2
    THEN call' = [call EXCEPT ![s].attempt = @ + 1, ![s].pc = "clear",
                              ![s].modemId = NoId, ![s].err = "none"]
    ELSE Goto(s, label)

(* Mutant: the attempt is not counted. *)
RetryForever(s, label) ==
    call' = [call EXCEPT ![s].pc = "clear", ![s].modemId = NoId, ![s].err = "none"]

(* One more attempt, or else go to label.  The second attempt starts with  *)
(* the first one's answer forgotten or overwritten before it is used.      *)
Retry(s, label) ==
    IF call[s].attempt = 0
    THEN call' = [call EXCEPT ![s].attempt = 1, ![s].pc = "clear",
                              ![s].modemId = NoId, ![s].err = "none"]
    ELSE Goto(s, label)

(* socket_connect() judges the answer. *)
BindFailed(s) == call[s].err = "bind" \/ call[s].modemId = NoId

ConnectDecide(s) ==
    /\ call[s].pc = "decide" /\ Connecting(s)
    /\ \/ /\ BindFailed(s)
          /\ socket' = [socket EXCEPT ![s].id = NoId]
          /\ Return(s)
          /\ UNCHANGED ipVersion
       \/ /\ ~BindFailed(s) /\ call[s].modemId # s
          /\ Goto(s, "closeOther")
          /\ UNCHANGED <<socket, ipVersion>>
       \/ /\ call[s].modemId = s /\ call[s].err = "ok"
          /\ ipVersion' = "IPv4"
          /\ socket' = [socket EXCEPT ![s].id = s, ![s].connected = TRUE]
          /\ Return(s)
       \/ /\ call[s].modemId = s /\ call[s].err \notin {"ok", "bind"}
          /\ Retry(s, "closeOwn")
          /\ UNCHANGED <<socket, ipVersion>>
    /\ UNCHANGED <<answerVars, atVars, urc, modemVars>>

(* Mutant: the failing connect sends no AT+QICLOSE. *)
CloseOwnSilent(s) ==
    /\ call[s].pc = "closeOwn"
    /\ Return(s)
    /\ UNCHANGED <<socket, ipVersion, answerVars, atVars, urc, modemVars>>

(* AT+QICLOSE of the id connect asked for, and the call fails. *)
CloseOwn(s) ==
    /\ call[s].pc = "closeOwn" /\ Command(s)
    /\ Qiclose(s)
    /\ Return(s)
    /\ UNCHANGED <<socket, ipVersion, answerVars, atOwner, urc, urcs>>

(* AT+QICLOSE of the id the modem answered with, and the call fails. *)
CloseOther(s) ==
    /\ call[s].pc = "closeOther" /\ Command(s)
    /\ Qiclose(call[s].modemId)
    /\ Return(s)
    /\ UNCHANGED <<socket, ipVersion, answerVars, atOwner, urc, urcs>>

-----------------------------------------------------------------------------
(* open_udp_socket() judges the answer.                                    *)

(* Mutant: a failed reopening returns from sendto without unlocking. *)
CreateReturnsEarly(s, ok) ==
    CASE call[s].op = "reopen" /\ ok -> Goto(s, "send")
      [] call[s].op = "send" /\ ok   -> Goto(s, "lock")
      [] OTHER                       -> Return(s)

(* What the caller of create_socket_impl() does next: a recvfrom is done   *)
(* with this module, a sendto goes on, and the reopening inside sendto     *)
(* ignores the result.                                                     *)
CreateReturns(s, ok) ==
    CASE call[s].op = "reopen"       -> Goto(s, "send")
      [] call[s].op = "send" /\ ok   -> Goto(s, "lock")
      [] OTHER                       -> Return(s)

UdpDecide(s) ==
    /\ call[s].pc = "decide" /\ ~Connecting(s)
    /\ \/ /\ atErr \/ call[s].err = "ok"
          /\ Goto(s, IF call[s].err = "ok" /\ call[s].modemId # s THEN "closeImpl" ELSE "created")
          /\ UNCHANGED socket
       \/ /\ ~atErr /\ call[s].err = "bind"
          /\ socket' = [socket EXCEPT ![s].id = NoId]
          /\ CreateReturns(s, FALSE)
       \/ /\ ~atErr /\ call[s].err \notin {"ok", "bind"}
          /\ Goto(s, "closeImpl")
          /\ UNCHANGED socket
    /\ UNCHANGED <<ipVersion, answerVars, atVars, urc, modemVars>>

(* socket_close_impl(modem_connect_id) sends nothing for an id no socket   *)
(* has.  After a failed attempt the next one follows.                      *)
CloseImpl(s) ==
    /\ call[s].pc = "closeImpl"
    /\ IF Found(call[s].modemId)
       THEN Command(s) /\ Qiclose(call[s].modemId)
       ELSE UNCHANGED <<modem, atErr>>
    /\ IF call[s].err = "ok" THEN Goto(s, "created") ELSE Retry(s, "created")
    /\ UNCHANGED <<socket, ipVersion, answerVars, atOwner, urc, urcs>>

(* The result is whatever error the AT handler remembers now. *)
Created(s) ==
    /\ call[s].pc = "created"
    /\ socket' = IF ~atErr /\ call[s].modemId = s THEN [socket EXCEPT ![s].id = s] ELSE socket
    /\ CreateReturns(s, ~atErr)
    /\ UNCHANGED <<ipVersion, answerVars, atVars, urc, modemVars>>

-----------------------------------------------------------------------------
(* The rest of socket_sendto(), under the AT lock.                         *)

(* Another IP version than the last sendto's (of any socket) means closing *)
(* the socket and, for UDP, opening it again.                              *)
SendLock(s) ==
    /\ call[s].pc = "lock" /\ atOwner = NoOne
    /\ atOwner' = s /\ atErr' = FALSE
    /\ ipVersion' = call[s].family
    /\ Goto(s, IF ipVersion # call[s].family THEN "reclose" ELSE "send")
    /\ UNCHANGED <<socket, answerVars, urc, modemVars>>

SendReclose(s) ==
    /\ call[s].pc = "reclose"
    /\ IF Found(socket[s].id)
       THEN Command(s) /\ Qiclose(socket[s].id)
       ELSE UNCHANGED <<modem, atErr>>
    /\ IF socket[s].proto = "UDP" THEN Start(s, "reopen", "clear") ELSE Goto(s, "send")
    /\ UNCHANGED <<socket, ipVersion, answerVars, atOwner, urc, urcs>>

(* AT+QISEND, whatever its outcome, and unlock. *)
Qisend(s) ==
    /\ call[s].pc = "send" /\ Command(s)
    /\ atOwner' = NoOne
    /\ atErr' = FALSE
    /\ Return(s)
    /\ UNCHANGED <<socket, ipVersion, answerVars, urc, modemVars>>

-----------------------------------------------------------------------------
Call(s) ==
    \/ \E proto \in Protocols[s] : SocketOpen(s, proto)
    \/ SocketClose(s) \/ SocketConnect(s) \/ SocketRecvfrom(s)
    \/ \E fam \in Families : SocketSendto(s, fam)

Step(s) ==
    \/ ClearFlag(s) \/ Qiopen(s) \/ WaitAnswer(s) \/ WaitTimeout(s)
    \/ ReadId(s) \/ ReadErr(s)
    \/ ConnectDecide(s) \/ CloseOwn(s) \/ CloseOther(s)
    \/ UdpDecide(s) \/ CloseImpl(s) \/ Created(s)
    \/ SendLock(s) \/ SendReclose(s) \/ Qisend(s)

Next == (\E s \in Slots : Call(s) \/ Step(s)) \/ CloseAllSockets \/ HandleUrc \/ Modem

Spec == Init /\ [][Next]_vars

(* Threads run and time-outs expire; the AT lock is granted to a thread    *)
(* that keeps asking for it; the event queue is served.  Nothing is        *)
(* assumed of the modem.                                                   *)
FairSpec == Spec /\ (\A s \in Slots : SF_vars(Step(s))) /\ WF_vars(HandleUrc)

-----------------------------------------------------------------------------
(* Properties.                                                             *)

Ids == Slots \cup {NoId}

Results == {"ok", "fail", "bind", "none"}

Msg == [type : {"open", "closed"}, id : Slots, result : Results]

ASSUME NoMsgAssumption == NoMsg \notin Msg

TypeOK ==
    /\ socket \in [Slots -> [proto : {"none", "UDP", "TCP"}, id : Ids,
                             connected : BOOLEAN, closed : BOOLEAN]]
    /\ ipVersion \in {"unspec", "IPv4", "IPv6"}
    /\ connFlag \in BOOLEAN /\ lastId \in Ids /\ lastErr \in Results
    /\ atOwner \in Slots \cup {"urc", NoOne} /\ atErr \in BOOLEAN
    /\ urc \in Msg \cup {NoMsg}
    /\ call \in [Slots -> [pc : {"idle", "clear", "wait", "readId", "readErr", "decide",
                                  "created", "lock"} \cup Commanding,
                           op : {"none", "connect", "send", "recv", "reopen"},
                           attempt : {0, 1}, modemId : Ids, err : Results \cup {"timeout"},
                           family : {"IPv4", "IPv6"}]]
    /\ modem \in [Slots -> {"free", "opening", "open", "dead"}]
    /\ urcs \in Seq(Msg)

Quiet(s) == call[s].pc = "idle" /\ urcs = <<>>

(* A socket that reports a connection has one: when its call is over and   *)
(* no URC is pending, the modem has that connect id open, or the socket    *)
(* knows that it was closed.                                               *)
ConnectedIsOpen ==
    \A s \in Slots : (Quiet(s) /\ socket[s].connected /\ ~socket[s].closed) => modem[s] = "open"

(* A call that leaves its socket without an id leaves no connection behind *)
(* in the modem under that id, neither open nor still to be opened: it     *)
(* would swallow the next AT+QIOPEN of the slot.  socket_connect() quotes  *)
(* the rule: "If the connection fails, AT+QICLOSE=<connectID> should be    *)
(* executed."                                                              *)
FailedOpenIsClosed ==
    \A s \in Slots : (call[s].pc = "idle" /\ socket[s].id = NoId) => modem[s] = "free"

(* A thread whose AT+QIOPEN the modem has not answered yet never finds the *)
(* flag set: the answer to an earlier, timed-out request cannot be taken   *)
(* for the answer to this one.                                             *)
NoStaleAnswer ==
    \A s \in Slots : (call[s].pc = "wait" /\ modem[s] = "opening") => ~connFlag

(* No path through a call, whatever fails on it, returns to the            *)
(* application with the AT lock held: the stack would go silent for good.  *)
LockReleased == \A s \in Slots : call[s] = NoCall => atOwner # s

(* socket_sendto(): "DO NOT hold the AT lock around create_socket_impl":   *)
(* nobody waits for a +QIOPEN URC while holding the lock its handler needs.*)
LockNotHeldWhileWaiting == \A s \in Slots : call[s].pc = "wait" => atOwner # s

(* How many steps a thread's call may still take.  An opening makes two    *)
(* attempts of the same steps; a sendto may have one opening before it     *)
(* takes the lock and another one under it.                                *)
Position == [clear |-> 9, open |-> 8, wait |-> 7, readId |-> 6, readErr |-> 5, decide |-> 4,
             closeImpl |-> 3, created |-> 2, closeOwn |-> 1, closeOther |-> 1]

Opening(c) == 10 * (1 - c.attempt) + Position[c.pc]

StepsLeft(c) ==
    CASE c.pc = "idle"    -> 0
      [] c.pc = "send"    -> 1
      [] c.pc = "reclose" -> 22
      [] c.pc = "lock"    -> 23
      [] c.pc \in DOMAIN Position /\ c.op = "send" -> 24 + Opening(c)
      [] c.pc \in DOMAIN Position /\ c.op # "send" -> 1 + Opening(c)

(* A call ends after a bounded number of its own steps: whatever the modem *)
(* answers and the other threads do to the shared answer, flag, error and  *)
(* IP version, no step of it goes back to where it has been, through the   *)
(* retries and the reopening inside sendto included.                       *)
CallsDescend ==
    [][\A s \in Slots : (call[s] # NoCall /\ call'[s] # call[s])
                         => StepsLeft(call'[s]) \in 0..(StepsLeft(call[s]) - 1)]_vars

(* What thread s waits for at each point of its call: the serial line, the *)
(* AT lock, or nothing.                                                    *)
CanStep(s) ==
    \/ call[s].pc \in {"clear", "wait", "readId", "readErr", "decide", "created"}
    \/ call[s].pc \in {"open", "closeOwn", "closeOther", "send"} /\ Command(s)
    \/ call[s].pc = "closeImpl" /\ (Found(call[s].modemId) => Command(s))
    \/ call[s].pc = "reclose" /\ (Found(socket[s].id) => Command(s))
    \/ call[s].pc = "lock" /\ atOwner = NoOne

(* As long as a call is in progress, one of the driver's own threads can   *)
(* move: the application threads, which wait for the AT lock, for the      *)
(* serial line and for each other's URCs, never all wait for one another.  *)
NeverStuck ==
    (\E s \in Slots : call[s] # NoCall)
    => urc # NoMsg \/ CanHandle \/ \E s \in Slots : CanStep(s)

(* Every call returns, whether or not the modem answers, and whatever the  *)
(* other threads do with the shared flag, answer and lock.                 *)
CallsReturn == \A s \in Slots : call[s].pc # "idle" ~> call[s].pc = "idle"
=============================================================================
