-------------------------- MODULE TlsOffloadProof ---------------------------
(***************************************************************************)
(* Proofs about TlsOffload, for any number of slots, payloads of any       *)
(* length, and any commands that may fail.                                 *)
(*                                                                         *)
(* NoOrphan holds however many TLS sockets there are.  That a connection   *)
(* has the level its credentials ask for, and that a socket that reports a *)
(* connection has one, is proved for one TLS socket at a time, which is    *)
(* what the modem supports: LevelInv and AnswerInv say what connect()      *)
(* knows on its way.                                                       *)
(***************************************************************************)
EXTENDS TlsOffload, SequenceTheorems, FiniteSetTheorems, TLAPS

Pcs == {"idle", "begin", "clear", "wait", "judge"} \cup Commanding

Sockets == [used : BOOLEAN, tls : BOOLEAN, id : Slots \cup {NoId},
            connected : BOOLEAN, closed : BOOLEAN]

Modems == [conn : {"closed", "opening", "open"}, owner : Slots \cup {NoId},
           connLevel : 0..2, level : 0..2, applied : SUBSET Commands, closeFailed : BOOLEAN]

(* A call that sends has blocks left. *)
SendInv == \A s \in Slots : call[s].pc = "send" => call[s].left > 0

(* The modem's connection is somebody's, or about to be closed. *)
OwnerInv ==
    modem.conn # "closed" =>
        \/ modem.closeFailed
        \/ \E s \in Slots :
             modem.owner = s /\ (socket[s].id = s \/ call[s].pc \in {"wait", "judge", "fail"})

(* Where connect() is before and after AT+QSSLOPEN. *)
Preparing == {"sslversion", "dataformat", "begin", "clear", "open"}

Opening == {"wait", "judge"}

Connecting == {"seclevel", "fail"} \cup Preparing \cup Opening

(* One socket is used at a time, and the others are at rest. *)
OneUsed ==
    /\ \A s, t \in Slots : (socket[s].used /\ socket[t].used) => s = t
    /\ \A s \in Slots : ~socket[s].used =>
         socket[s].id = NoId /\ ~socket[s].connected /\ asked[s] = 0 /\ call[s].pc = "idle"
    /\ \A s \in Slots : call[s].pc \in Connecting => ~socket[s].connected

(* The level that the socket's credentials ask for is kept. *)
Level(s) ==
    /\ socket[s].used => tlsSecLevel >= asked[s]
    /\ call[s].pc = "seclevel" => "seclevel" \notin modem.applied
    /\ "seclevel" \in modem.applied =>
         /\ call[s].pc \in Preparing => modem.level >= asked[s]
         /\ (call[s].pc \in Opening \/ socket[s].connected) => modem.connLevel >= asked[s]

LevelInv == \A s \in Slots : Level(s)

PendingOk == \E i \in 1..Len(urcs) : urcs[i].type = "open" /\ urcs[i].result = "ok"

PendingClosed == \E i \in 1..Len(urcs) : urcs[i].type = "closed"

HandlingClosed == handler # NoMsg /\ handler.type = "closed"

(* A good answer is the socket's own, and a drop is on its way to it. *)
Answer(s) ==
    /\ call[s].pc \in Opening => modem.owner = s
    /\ call[s].pc \in {"clear", "open"} \cup Opening =>
         sslSocketId = s /\ (lastErr = "ok" => modem.conn = "open")
    /\ socket[s].connected => socket[s].id = s /\ sslSocketId = s
    /\ (socket[s].connected /\ ~socket[s].closed) =>
         \/ modem.conn = "open" /\ modem.owner = s
         \/ HandlingClosed \/ PendingClosed

AnswerInv ==
    /\ \A s \in Slots : Answer(s)
    /\ (PendingOk /\ \A s \in Slots : ~socket[s].connected) => modem.conn = "open"

-----------------------------------------------------------------------------
(* Type correctness.                                                       *)

(* The modem's reaction to AT+QSSLCLOSE is typed.                          *)
LEMMA QsslcloseType ==
    ASSUME modem \in Modems, NEW o, Qsslclose(o) PROVE modem' \in Modems
BY DEF Qsslclose, Modems

(* Marking a socket as closed keeps the types.                             *)
LEMMA MarkClosedType ==
    ASSUME socket \in [Slots -> Sockets], MarkClosed PROVE socket' \in [Slots -> Sockets]
BY DEF MarkClosed, Sockets

(* The threads go from one known place to another.                         *)
LEMMA GotoType ==
    ASSUME TypeOK, SendInv, NEW s \in Slots, NEW label \in Pcs \ {"send"}, Goto(s, label)
    PROVE  /\ call' \in [Slots -> [pc : Pcs, left : 0..MaxChunks]] /\ SendInv'
           /\ call'[s].pc = label /\ \A t \in Slots \ {s} : call'[t] = call[t]
BY DEF TypeOK, Goto, Pcs, SendInv

(* A call that returns leaves the thread idle.                             *)
LEMMA ReturnType ==
    ASSUME TypeOK, SendInv, NEW s \in Slots, Return(s)
    PROVE  /\ call' \in [Slots -> [pc : Pcs, left : 0..MaxChunks]] /\ SendInv'
           /\ call'[s].pc = "idle" /\ \A t \in Slots \ {s} : call'[t] = call[t]
BY ParametersAssumption DEF TypeOK, Return, NoCall, Pcs, SendInv

(* The oldest URC, and those that are left.                                *)
LEMMA HeadTailType ==
    ASSUME urcs \in Seq(Msg), urcs # <<>>
    PROVE  /\ Head(urcs) \in Msg /\ Tail(urcs) \in Seq(Msg)
           /\ Len(Tail(urcs)) = Len(urcs) - 1 /\ Len(urcs) \in Nat /\ Len(urcs) > 0
           /\ Head(urcs) = urcs[1]
           /\ \A i \in 1..Len(Tail(urcs)) : Tail(urcs)[i] = urcs[i + 1]
BY HeadTailProperties, EmptySeq, LenProperties

(* Every kind of URC.                                                      *)
LEMMA MsgFields ==
    ASSUME NEW m \in Msg
    PROVE  m.type \in {"open", "closed"} /\ m.result \in {"ok", "fail", "none"}
BY DEF Msg

(* The initial state is typed.                                             *)
LEMMA TypeInit == Init => TypeOK /\ SendInv
<1> SUFFICES ASSUME Init PROVE TypeOK /\ SendInv
  OBVIOUS
<1>1. socket \in [Slots -> Sockets]
  BY DEF Init, Free, Sockets
<1>2. call \in [Slots -> [pc : Pcs, left : 0..MaxChunks]] /\ SendInv
  BY ParametersAssumption DEF Init, NoCall, Pcs, SendInv
<1>3. modem \in Modems
  BY DEF Init, Modems
<1>4. urcs \in Seq(Msg) /\ asked \in [Slots -> 0..2]
  BY EmptySeq DEF Init
<1> QED
  BY <1>1, <1>2, <1>3, <1>4 DEF Init, TypeOK, Sockets, Pcs, Modems

(* The steps of connect() keep the types.                                  *)
LEMMA ConnectType ==
    ASSUME TypeOK, SendInv, NEW s \in Slots,
           \/ \E p \in {"seclevel", "sslversion", "dataformat"} : Configure(s, p)
           \/ Connect(s) \/ Begin(s) \/ ClearFlag(s) \/ Qsslopen(s)
           \/ WaitAnswer(s) \/ WaitTimeout(s) \/ Judge(s) \/ CloseExit(s)
    PROVE  TypeOK' /\ SendInv'
<1> USE DEF driverVars
<1>1. ASSUME NEW p \in {"seclevel", "sslversion", "dataformat"}, Configure(s, p)
      PROVE  TypeOK' /\ SendInv'
  <2>1. PICK o \in Outcomes(p) :
          modem' = IF ~o.done THEN modem
                   ELSE [modem EXCEPT !.applied = @ \cup {p},
                                      !.level = IF p = "seclevel" THEN tlsSecLevel ELSE @]
    BY <1>1 DEF Configure
  <2>2. modem' \in Modems
    BY <2>1 DEF TypeOK, Modems, Commands
  <2>3. \/ Return(s)
        \/ \E label \in {"sslversion", "dataformat", "begin"} : Goto(s, label)
    BY <1>1 DEF Configure
  <2>4. call' \in [Slots -> [pc : Pcs, left : 0..MaxChunks]] /\ SendInv'
    BY <2>3, GotoType, ReturnType DEF Pcs, Commanding
  <2> QED
    BY <1>1, <2>2, <2>4 DEF Configure, TypeOK, Modems, Pcs
<1>2. CASE Connect(s)
  <2>1. call' \in [Slots -> [pc : Pcs, left : 0..MaxChunks]] /\ SendInv'
    BY <1>2, GotoType DEF Connect, Pcs, Commanding
  <2>2. modem' \in Modems /\ socket' \in [Slots -> Sockets]
    BY <1>2 DEF Connect, TypeOK, Modems, Sockets
  <2> QED
    BY <1>2, <2>1, <2>2 DEF Connect, TypeOK, Modems, Sockets, Pcs
<1>3. CASE Begin(s) \/ ClearFlag(s) \/ WaitAnswer(s) \/ WaitTimeout(s)
  <2>1. \E label \in {"clear", "open", "judge", "fail"} : Goto(s, label)
    BY <1>3 DEF Begin, ClearFlag, WaitAnswer, WaitTimeout
  <2>2. call' \in [Slots -> [pc : Pcs, left : 0..MaxChunks]] /\ SendInv'
    BY <2>1, GotoType DEF Pcs, Commanding
  <2> QED
    BY <1>3, <2>2 DEF Begin, ClearFlag, WaitAnswer, WaitTimeout, TypeOK, Pcs
<1>4. CASE Qsslopen(s)
  <2>1. \E label \in {"fail", "wait"} : Goto(s, label)
    BY <1>4 DEF Qsslopen
  <2>2. call' \in [Slots -> [pc : Pcs, left : 0..MaxChunks]] /\ SendInv'
    BY <2>1, GotoType DEF Pcs, Commanding
  <2>3. modem' \in Modems
    BY <1>4 DEF Qsslopen, TypeOK, Modems
  <2> QED
    BY <1>4, <2>2, <2>3 DEF Qsslopen, TypeOK, Modems, Pcs
<1>5. CASE Judge(s)
  <2>1. \/ Return(s) \/ Goto(s, "fail")
    BY <1>5 DEF Judge
  <2>2. call' \in [Slots -> [pc : Pcs, left : 0..MaxChunks]] /\ SendInv'
    BY <2>1, GotoType, ReturnType DEF Pcs, Commanding
  <2>3. socket' \in [Slots -> Sockets]
    <3>1. socket \in [Slots -> Sockets]
      BY DEF TypeOK, Sockets
    <3>2. [[socket[s] EXCEPT !.id = s] EXCEPT !.connected = TRUE] \in Sockets
      BY <3>1 DEF Sockets
    <3>3. \/ UNCHANGED socket
          \/ socket' = [socket EXCEPT ![s] = [[socket[s] EXCEPT !.id = s] EXCEPT !.connected = TRUE]]
      BY <1>5, <3>1 DEF Judge, Sockets
    <3> QED
      BY <3>1, <3>2, <3>3
  <2> QED
    BY <1>5, <2>2, <2>3 DEF Judge, TypeOK, Sockets, Pcs
<1>6. CASE CloseExit(s)
  <2>1. call' \in [Slots -> [pc : Pcs, left : 0..MaxChunks]] /\ SendInv'
    BY <1>6, ReturnType DEF CloseExit
  <2>2. modem' \in Modems
    BY <1>6, QsslcloseType DEF CloseExit, TypeOK, Modems
  <2> QED
    BY <1>6, <2>1, <2>2 DEF CloseExit, TypeOK, Modems, Pcs
<1> QED
  BY <1>1, <1>2, <1>3, <1>4, <1>5, <1>6

(* Every step keeps the types.                                             *)
LEMMA TypeStep == TypeOK /\ SendInv /\ [Next]_vars => TypeOK' /\ SendInv'
<1> SUFFICES ASSUME TypeOK, SendInv, [Next]_vars PROVE TypeOK' /\ SendInv'
  OBVIOUS
<1> USE DEF driverVars
<1>1. CASE UNCHANGED vars
  BY <1>1 DEF vars, TypeOK, SendInv
<1>2. ASSUME NEW s \in Slots, SocketOpen(s) PROVE TypeOK' /\ SendInv'
  <2>1. socket' \in [Slots -> Sockets]
    BY <1>2 DEF SocketOpen, TypeOK, Sockets
  <2> QED
    BY <1>2, <2>1 DEF SocketOpen, TypeOK, SendInv, Sockets
<1>3. ASSUME NEW s \in Slots, SocketClose(s) PROVE TypeOK' /\ SendInv'
  <2>1. socket' \in [Slots -> Sockets]
    BY <1>3 DEF SocketClose, Free, TypeOK, Sockets
  <2>2. modem' \in Modems
    BY <1>3, QsslcloseType DEF SocketClose, TypeOK, Modems
  <2>3. tlsSecLevel' \in 0..2 /\ sslSocketId' \in Slots \cup {NoId}
        /\ asked' \in [Slots -> 0..2]
    BY <1>3 DEF SocketClose, TypeOK
  <2> QED
    BY <1>3, <2>1, <2>2, <2>3 DEF SocketClose, TypeOK, SendInv, Sockets, Modems
<1>4. ASSUME NEW s \in Slots, NEW c \in {"cacert", "clientcert", "clientkey"}, SetCredential(s, c)
      PROVE  TypeOK' /\ SendInv'
  <2>1. tlsSecLevel' \in 0..2 /\ asked' \in [Slots -> 0..2]
    BY <1>4 DEF SetCredential, Raised, TypeOK
  <2> QED
    BY <1>4, <2>1 DEF SetCredential, TypeOK, SendInv
<1>5. ASSUME NEW s \in Slots, NEW n \in 1..MaxChunks, Sendto(s, n) PROVE TypeOK' /\ SendInv'
  <2>1. call' \in [Slots -> [pc : Pcs, left : 0..MaxChunks]] /\ SendInv'
    BY <1>5, ParametersAssumption DEF Sendto, TypeOK, Pcs, Commanding, SendInv
  <2> QED
    BY <1>5, <2>1 DEF Sendto, TypeOK, Pcs
<1>6. ASSUME NEW s \in Slots, Qsslsend(s) PROVE TypeOK' /\ SendInv'
  <2>1. Return(s) \/ (call[s].left # 1 /\ call' = [call EXCEPT ![s].left = @ - 1])
    BY <1>6 DEF Qsslsend
  <2>2. call' \in [Slots -> [pc : Pcs, left : 0..MaxChunks]] /\ SendInv'
    <3>1. CASE Return(s)
      BY <3>1, ReturnType
    <3>2. CASE call[s].left # 1 /\ call' = [call EXCEPT ![s].left = @ - 1]
      <4>1. call[s].pc = "send" /\ call[s].left > 1 /\ call[s].left \in 0..MaxChunks
        BY <1>6, <3>2, ParametersAssumption DEF Qsslsend, TypeOK, SendInv
      <4>2. call[s].left - 1 \in 0..MaxChunks /\ call[s].left - 1 > 0
        BY <4>1, ParametersAssumption
      <4> QED
        BY <3>2, <4>1, <4>2 DEF TypeOK, Pcs, SendInv
    <3> QED
      BY <2>1, <3>1, <3>2
  <2> QED
    BY <1>6, <2>2 DEF Qsslsend, TypeOK, Pcs
<1>7. ASSUME NEW s \in Slots, HandleInline(s) PROVE TypeOK' /\ SendInv'
  <2>1. socket' \in [Slots -> Sockets] /\ connFlag' \in BOOLEAN
    BY <1>7, MarkClosedType DEF HandleInline, TypeOK, Sockets
  <2>2. Tail(urcs) \in Seq(Msg) /\ Head(urcs).result \in {"ok", "fail", "none"}
    BY <1>7, HeadTailType, MsgFields DEF HandleInline, TypeOK
  <2> QED
    BY <1>7, <2>1, <2>2 DEF HandleInline, TypeOK, SendInv, Sockets
<1>8. CASE Modem
  <2>1. modem' \in Modems
    BY <1>8 DEF Modem, ModemAnswer, ModemDrop, TypeOK, Modems
  <2>2. urcs' \in Seq(Msg)
    <3>1. \E m \in Msg : urcs' = Append(urcs, m)
      BY <1>8 DEF Modem, ModemAnswer, ModemDrop, Msg
    <3> QED
      BY <3>1, AppendProperties DEF TypeOK
  <2> QED
    BY <1>8, <2>1, <2>2 DEF Modem, ModemAnswer, ModemDrop, TypeOK, Modems, SendInv
<1>9. CASE HandlerStart
  <2>1. Tail(urcs) \in Seq(Msg) /\ Head(urcs) \in Msg /\ Head(urcs).result \in {"ok", "fail", "none"}
    BY <1>9, HeadTailType, MsgFields DEF HandlerStart, TypeOK
  <2> QED
    BY <1>9, <2>1 DEF HandlerStart, TypeOK, SendInv
<1>10. CASE HandlerEnd \/ ForeignFlag
  <2>1. socket' \in [Slots -> Sockets]
    BY <1>10, MarkClosedType DEF HandlerEnd, ForeignFlag, TypeOK, Sockets
  <2> QED
    BY <1>10, <2>1 DEF HandlerEnd, ForeignFlag, TypeOK, SendInv, Sockets
<1> QED
  BY <1>1, <1>2, <1>3, <1>4, <1>5, <1>6, <1>7, <1>8, <1>9, <1>10, ConnectType
     DEF Next, Call, Step, Handlers

-----------------------------------------------------------------------------
(* What the steps change.                                                  *)

(* Marking a socket as closed changes nothing else of it.                  *)
LEMMA MarkClosedFields ==
    ASSUME TypeOK, MarkClosed
    PROVE  \A s \in Slots :
             /\ socket'[s].used = socket[s].used /\ socket'[s].id = socket[s].id
             /\ socket'[s].connected = socket[s].connected
             /\ socket'[s].closed = (socket[s].closed \/ Owned(s))
BY DEF MarkClosed, TypeOK, Owned

(* AT+QSSLCLOSE closes the connection, or is noted not to have.            *)
LEMMA QsslcloseEffect ==
    ASSUME TypeOK, NEW o, Qsslclose(o)
    PROVE  /\ modem'.conn = "closed" \/ modem'.closeFailed
           /\ modem'.conn \in {"closed", modem.conn}
           /\ modem'.level = modem.level /\ modem'.connLevel = modem.connLevel
           /\ modem'.applied = modem.applied
BY DEF Qsslclose, TypeOK

(* Going to a label moves the thread there and no other.                   *)
LEMMA GotoEffect ==
    ASSUME TypeOK, NEW s \in Slots, NEW label, Goto(s, label)
    PROVE  call'[s].pc = label /\ \A t \in Slots \ {s} : call'[t] = call[t]
BY DEF TypeOK, Goto

(* Returning makes the thread idle and moves no other.                     *)
LEMMA ReturnEffect ==
    ASSUME TypeOK, NEW s \in Slots, Return(s)
    PROVE  call'[s].pc = "idle" /\ \A t \in Slots \ {s} : call'[t] = call[t]
BY DEF TypeOK, Return, NoCall

(* AT+QSSLCFG changes the modem's configuration, and no connection.        *)
LEMMA ConfigureEffect ==
    ASSUME TypeOK, NEW s \in Slots, NEW p \in {"seclevel", "sslversion", "dataformat"},
           Configure(s, p)
    PROVE  /\ call[s].pc = p /\ call'[s].pc \in {"idle", "sslversion", "dataformat", "begin"}
           /\ \A t \in Slots \ {s} : call'[t] = call[t]
           /\ modem'.conn = modem.conn /\ modem'.owner = modem.owner
           /\ modem'.closeFailed = modem.closeFailed /\ modem'.connLevel = modem.connLevel
           /\ \/ modem'.applied = modem.applied /\ modem'.level = modem.level
              \/ p # "seclevel" /\ modem'.level = modem.level
                 /\ modem'.applied = modem.applied \cup {p}
              \/ p = "seclevel" /\ modem'.level = tlsSecLevel
<1>1. PICK o \in Outcomes(p) :
        modem' = IF ~o.done THEN modem
                 ELSE [modem EXCEPT !.applied = @ \cup {p},
                                    !.level = IF p = "seclevel" THEN tlsSecLevel ELSE @]
  BY DEF Configure
<1>2. /\ modem'.conn = modem.conn /\ modem'.owner = modem.owner
      /\ modem'.closeFailed = modem.closeFailed /\ modem'.connLevel = modem.connLevel
      /\ \/ modem'.applied = modem.applied /\ modem'.level = modem.level
         \/ p # "seclevel" /\ modem'.level = modem.level
            /\ modem'.applied = modem.applied \cup {p}
         \/ p = "seclevel" /\ modem'.level = tlsSecLevel
  BY <1>1 DEF TypeOK
<1>3. Return(s) \/ \E label \in {"sslversion", "dataformat", "begin"} : Goto(s, label)
  BY DEF Configure
<1>4. call'[s].pc \in {"idle", "sslversion", "dataformat", "begin"}
      /\ \A t \in Slots \ {s} : call'[t] = call[t]
  BY <1>3, GotoEffect, ReturnEffect
<1> QED
  BY <1>2, <1>4 DEF Configure

(* AT+QSSLOPEN opens a connection of the socket's own, if there was none.  *)
LEMMA QsslopenEffect ==
    ASSUME TypeOK, NEW s \in Slots, Qsslopen(s)
    PROVE  /\ call[s].pc = "open" /\ \A t \in Slots \ {s} : call'[t] = call[t]
           /\ modem'.applied = modem.applied /\ modem'.level = modem.level
           /\ modem'.closeFailed = modem.closeFailed
           /\ \/ modem' = modem /\ call'[s].pc = "fail"
              \/ /\ modem.conn = "closed" /\ modem'.conn = "opening" /\ modem'.owner = s
                 /\ modem'.connLevel = modem.level /\ call'[s].pc \in {"fail", "wait"}
<1>1. PICK o \in [done : BOOLEAN, err : BOOLEAN] :
         /\ IF modem.conn = "closed" THEN o \in Outcomes("open") ELSE o.err /\ ~o.done
         /\ modem' = IF o.done
                     THEN [modem EXCEPT !.conn = "opening", !.owner = s, !.connLevel = modem.level]
                     ELSE modem
         /\ Goto(s, IF o.err THEN "fail" ELSE "wait")
  BY DEF Qsslopen
<1>2. o.done \/ o.err
  BY <1>1 DEF Outcomes
<1>3. call'[s].pc = (IF o.err THEN "fail" ELSE "wait") /\ \A t \in Slots \ {s} : call'[t] = call[t]
  BY <1>1, GotoEffect
<1>4. o.done => /\ modem.conn = "closed" /\ modem'.conn = "opening" /\ modem'.owner = s
                /\ modem'.connLevel = modem.level /\ modem'.applied = modem.applied
                /\ modem'.level = modem.level /\ modem'.closeFailed = modem.closeFailed
  BY <1>1 DEF TypeOK
<1> QED
  BY <1>1, <1>2, <1>3, <1>4 DEF Qsslopen

(* A thread that sends goes on or returns.                                 *)
LEMMA SendEffect ==
    ASSUME TypeOK, NEW s \in Slots, Qsslsend(s) \/ \E n \in 1..MaxChunks : Sendto(s, n)
    PROVE  /\ call[s].pc \in {"idle", "send"} /\ call'[s].pc \in {"idle", "send"}
           /\ \A t \in Slots \ {s} : call'[t] = call[t]
BY ReturnEffect DEF Qsslsend, Sendto, Idle, NoCall, TypeOK

-----------------------------------------------------------------------------
(* No connection without a socket that answers for it.                     *)

(* Initially there is no connection.                                       *)
LEMMA OwnerInit == Init => OwnerInv
BY DEF Init, OwnerInv

(* The owner of a connection changes only with the connection.             *)
LEMMA OwnerStep == TypeOK /\ OwnerInv /\ [Next]_vars => OwnerInv'
<1> SUFFICES ASSUME TypeOK, OwnerInv, [Next]_vars PROVE OwnerInv'
  OBVIOUS
<1> USE DEF driverVars
<1>1. CASE UNCHANGED vars
  BY <1>1 DEF vars, OwnerInv
<1>2. ASSUME NEW s \in Slots, SocketOpen(s) PROVE OwnerInv'
  BY <1>2 DEF SocketOpen, OwnerInv, TypeOK
<1>3. ASSUME NEW s \in Slots, SocketClose(s) PROVE OwnerInv'
  <2>1. CASE socket[s].id # NoId
    BY <1>3, <2>1, QsslcloseEffect DEF SocketClose, OwnerInv
  <2>2. CASE socket[s].id = NoId
    <3>1. UNCHANGED <<modem, call>> /\ \A t \in Slots \ {s} : socket'[t] = socket[t]
      BY <1>3, <2>2 DEF SocketClose, TypeOK
    <3>2. call[s].pc = "idle" /\ s # NoId
      BY <1>3, NamesAssumption DEF SocketClose, Idle, NoCall
    <3> QED
      BY <2>2, <3>1, <3>2 DEF OwnerInv
  <2> QED
    BY <2>1, <2>2
<1>4. ASSUME NEW s \in Slots, NEW c \in {"cacert", "clientcert", "clientkey"}, SetCredential(s, c)
      PROVE  OwnerInv'
  BY <1>4 DEF SetCredential, OwnerInv
<1>5. ASSUME NEW s \in Slots, Qsslsend(s) \/ \E n \in 1..MaxChunks : Sendto(s, n) PROVE OwnerInv'
  <2>1. UNCHANGED <<modem, socket>>
    BY <1>5 DEF Qsslsend, Sendto
  <2> QED
    BY <1>5, <2>1, SendEffect DEF OwnerInv
<1>6. ASSUME NEW s \in Slots, NEW p \in {"seclevel", "sslversion", "dataformat"}, Configure(s, p)
      PROVE  OwnerInv'
  <2>1. UNCHANGED socket
    BY <1>6 DEF Configure
  <2> QED
    BY <1>6, <2>1, ConfigureEffect DEF OwnerInv
<1>7. ASSUME NEW s \in Slots, Connect(s) PROVE OwnerInv'
  <2>1. /\ modem'.conn = modem.conn /\ modem'.owner = modem.owner
        /\ modem'.closeFailed = modem.closeFailed
        /\ \A t \in Slots : socket'[t].id = socket[t].id
        /\ call[s].pc = "idle"
    BY <1>7 DEF Connect, TypeOK, Idle, NoCall
  <2>2. \A t \in Slots \ {s} : call'[t] = call[t]
    BY <1>7, GotoEffect DEF Connect
  <2> QED
    BY <2>1, <2>2 DEF OwnerInv
<1>8. ASSUME NEW s \in Slots, Begin(s) \/ ClearFlag(s) \/ WaitAnswer(s) \/ WaitTimeout(s)
      PROVE  OwnerInv'
  <2>1. /\ UNCHANGED <<modem, socket>>
        /\ \A t \in Slots \ {s} : call'[t] = call[t]
        /\ call[s].pc \in {"wait", "judge", "fail"} => call'[s].pc \in {"wait", "judge", "fail"}
    BY <1>8, GotoEffect DEF Begin, ClearFlag, WaitAnswer, WaitTimeout
  <2> QED
    BY <2>1 DEF OwnerInv
<1>9. ASSUME NEW s \in Slots, Qsslopen(s) PROVE OwnerInv'
  <2>1. UNCHANGED socket
    BY <1>9 DEF Qsslopen
  <2> QED
    BY <1>9, <2>1, QsslopenEffect DEF OwnerInv
<1>10. ASSUME NEW s \in Slots, Judge(s) PROVE OwnerInv'
  <2>1. CASE lastErr = "ok"
    <3>1. /\ UNCHANGED modem /\ socket'[s].id = s
          /\ \A t \in Slots \ {s} : socket'[t] = socket[t]
      BY <1>10, <2>1 DEF Judge, TypeOK
    <3>2. \A t \in Slots \ {s} : call'[t] = call[t]
      BY <1>10, <2>1, ReturnEffect DEF Judge
    <3> QED
      BY <3>1, <3>2 DEF OwnerInv
  <2>2. CASE lastErr # "ok"
    <3>1. UNCHANGED <<modem, socket>> /\ call'[s].pc = "fail"
          /\ \A t \in Slots \ {s} : call'[t] = call[t]
      BY <1>10, <2>2, GotoEffect DEF Judge
    <3> QED
      BY <3>1 DEF OwnerInv
  <2> QED
    BY <2>1, <2>2
<1>11. ASSUME NEW s \in Slots, CloseExit(s) PROVE OwnerInv'
  BY <1>11, QsslcloseEffect DEF CloseExit, OwnerInv
<1>12. CASE Modem
  <2>1. /\ modem'.conn # "closed" => modem.conn # "closed"
        /\ modem'.owner = modem.owner /\ modem'.closeFailed = modem.closeFailed
        /\ UNCHANGED <<socket, call>>
    BY <1>12 DEF Modem, ModemAnswer, ModemDrop, TypeOK
  <2> QED
    BY <2>1 DEF OwnerInv
<1>13. CASE HandlerStart \/ ForeignFlag
  BY <1>13 DEF HandlerStart, ForeignFlag, OwnerInv
<1>14. CASE HandlerEnd \/ \E s \in Slots : HandleInline(s)
  <2>1. UNCHANGED <<modem, call>> /\ (UNCHANGED socket \/ MarkClosed)
    BY <1>14 DEF HandlerEnd, HandleInline
  <2>2. \A t \in Slots : socket'[t].id = socket[t].id
    BY <2>1, MarkClosedFields
  <2> QED
    BY <2>1, <2>2 DEF OwnerInv
<1> QED
  BY <1>1, <1>2, <1>3, <1>4, <1>5, <1>6, <1>7, <1>8, <1>9, <1>10, <1>11, <1>12, <1>13, <1>14
     DEF Next, Call, Step, Handlers

-----------------------------------------------------------------------------
(* Theorems for any number of TLS sockets.                                 *)

(* The inductive invariant.                                                *)
LEMMA Invariance == Spec => [](TypeOK /\ SendInv /\ OwnerInv)
<1>1. Init => TypeOK /\ SendInv /\ OwnerInv
  BY TypeInit, OwnerInit
<1>2. TypeOK /\ SendInv /\ OwnerInv /\ [Next]_vars => (TypeOK /\ SendInv /\ OwnerInv)'
  BY TypeStep, OwnerStep
<1> QED
  BY <1>1, <1>2, PTL DEF Spec

(* Every variable keeps its type: the security level stays between 0 and   *)
(* 2 however often credentials are set, and no call has blocks left below  *)
(* zero.                                                                   *)
THEOREM TypeCorrect == Spec => []TypeOK
BY Invariance, PTL

(* When no call is under way, the modem has a connection only for a socket *)
(* that answers for it, or because its last AT+QSSLCLOSE failed.           *)
THEOREM NoOrphanLeft == Spec => []NoOrphan
<1>1. TypeOK /\ OwnerInv => NoOrphan
  BY DEF OwnerInv, NoOrphan
<1> QED
  BY <1>1, Invariance, PTL

-----------------------------------------------------------------------------
(* One TLS socket at a time.                                               *)

(* A socket can be opened when none is used.                               *)
LEMMA NoneUsed ==
    ASSUME MaxTls <= 1, Cardinality({t \in Slots : socket[t].used}) < MaxTls
    PROVE  \A t \in Slots : ~socket[t].used
<1> DEFINE used == {t \in Slots : socket[t].used}
<1>1. IsFiniteSet(used)
  BY ParametersAssumption, FS_Subset
<1>2. Cardinality(used) \in Nat
  BY <1>1, FS_CardinalityType
<1>3. Cardinality(used) = 0
  BY <1>2, ParametersAssumption
<1>4. used = {}
  BY <1>1, <1>3, FS_EmptySet
<1> QED
  BY <1>4

(* Initially no socket is used.                                            *)
LEMMA OneUsedInit == Init => OneUsed
BY DEF Init, OneUsed, Free, NoCall, Connecting, Preparing, Opening

(* A step of a used socket's thread, that leaves its connection alone,     *)
(* keeps the others at rest.                                               *)
LEMMA StepKeepsOneUsed ==
    ASSUME OneUsed, NEW s \in Slots,
           UNCHANGED <<socket, asked>>, socket[s].used, ~socket[s].connected \/ call'[s].pc \in {"idle", "send"},
           \A t \in Slots \ {s} : call'[t] = call[t]
    PROVE  OneUsed'
BY DEF OneUsed, Connecting, Preparing, Opening

(* Every step keeps the sockets but one at rest.                           *)
LEMMA OneUsedStep ==
    ASSUME MaxTls <= 1, TypeOK, OneUsed, [Next]_vars
    PROVE  OneUsed'
<1> USE DEF driverVars
<1>0. \A s \in Slots : call[s].pc # "idle" => socket[s].used
  BY DEF OneUsed
<1>1. CASE UNCHANGED vars
  BY <1>1 DEF vars, OneUsed
<1>2. ASSUME NEW s \in Slots, SocketOpen(s) PROVE OneUsed'
  <2>1. \A t \in Slots : ~socket[t].used
    BY <1>2, NoneUsed DEF SocketOpen
  <2>2. /\ UNCHANGED <<call, asked>> /\ \A t \in Slots \ {s} : socket'[t] = socket[t]
        /\ socket'[s].connected = socket[s].connected /\ socket'[s].id = socket[s].id
    BY <1>2 DEF SocketOpen, TypeOK
  <2> QED
    BY <2>1, <2>2 DEF OneUsed
<1>3. ASSUME NEW s \in Slots, SocketClose(s) PROVE OneUsed'
  <2>1. /\ UNCHANGED call /\ call[s].pc = "idle"
        /\ socket'[s] = Free /\ asked'[s] = 0
        /\ \A t \in Slots \ {s} : socket'[t] = socket[t] /\ asked'[t] = asked[t]
    BY <1>3 DEF SocketClose, TypeOK, Idle, NoCall
  <2> QED
    BY <2>1 DEF OneUsed, Free, Connecting, Preparing, Opening
<1>4. ASSUME NEW s \in Slots, NEW c \in {"cacert", "clientcert", "clientkey"}, SetCredential(s, c)
      PROVE  OneUsed'
  <2>1. UNCHANGED <<socket, call>> /\ socket[s].used /\ \A t \in Slots \ {s} : asked'[t] = asked[t]
    BY <1>4 DEF SetCredential, TypeOK
  <2> QED
    BY <2>1 DEF OneUsed
<1>5. ASSUME NEW s \in Slots, Qsslsend(s) \/ \E n \in 1..MaxChunks : Sendto(s, n) PROVE OneUsed'
  <2>1. socket[s].used /\ UNCHANGED <<socket, asked>>
    BY <1>5 DEF Qsslsend, Sendto, OneUsed
  <2> QED
    BY <1>5, <2>1, SendEffect, StepKeepsOneUsed
<1>6. ASSUME NEW s \in Slots, NEW p \in {"seclevel", "sslversion", "dataformat"}, Configure(s, p)
      PROVE  OneUsed'
  <2>1. socket[s].used /\ ~socket[s].connected /\ UNCHANGED <<socket, asked>>
    BY <1>0, <1>6, ConfigureEffect DEF Configure, OneUsed, Connecting, Preparing
  <2> QED
    BY <1>6, <2>1, ConfigureEffect, StepKeepsOneUsed
<1>7. ASSUME NEW s \in Slots, Connect(s) PROVE OneUsed'
  <2>1. /\ socket[s].used /\ ~socket[s].connected /\ UNCHANGED asked
        /\ \A t \in Slots : /\ socket'[t].used = socket[t].used /\ socket'[t].id = socket[t].id
                            /\ socket'[t].connected = socket[t].connected
    BY <1>7 DEF Connect, TypeOK
  <2>2. \A t \in Slots \ {s} : call'[t] = call[t]
    BY <1>7, GotoEffect DEF Connect
  <2> QED
    BY <2>1, <2>2 DEF OneUsed
<1>8. ASSUME NEW s \in Slots, Begin(s) \/ ClearFlag(s) \/ WaitAnswer(s) \/ WaitTimeout(s)
      PROVE  OneUsed'
  <2>1. /\ UNCHANGED <<asked, socket>> /\ call[s].pc \in Connecting
        /\ \A t \in Slots \ {s} : call'[t] = call[t]
    BY <1>8, GotoEffect DEF Begin, ClearFlag, WaitAnswer, WaitTimeout, Connecting, Preparing, Opening
  <2>2. socket[s].used /\ ~socket[s].connected
    BY <1>0, <2>1 DEF OneUsed, Connecting, Preparing, Opening
  <2> QED
    BY <2>1, <2>2, StepKeepsOneUsed
<1>9. ASSUME NEW s \in Slots, Qsslopen(s) PROVE OneUsed'
  <2>1. socket[s].used /\ ~socket[s].connected /\ UNCHANGED <<socket, asked>>
    BY <1>0, <1>9 DEF Qsslopen, OneUsed, Connecting, Preparing
  <2> QED
    BY <1>9, <2>1, QsslopenEffect, StepKeepsOneUsed
<1>10. ASSUME NEW s \in Slots, Judge(s) PROVE OneUsed'
  <2>1. socket[s].used /\ ~socket[s].connected /\ UNCHANGED asked
    BY <1>0, <1>10 DEF Judge, OneUsed, Connecting, Opening
  <2>2. CASE lastErr = "ok"
    <3>1. \A t \in Slots \ {s} : socket'[t] = socket[t]
      BY <1>10, <2>2 DEF Judge, TypeOK
    <3>2. socket'[s].used
      BY <1>10, <2>1, <2>2 DEF Judge, TypeOK
    <3>3. call'[s].pc = "idle" /\ \A t \in Slots \ {s} : call'[t] = call[t]
      BY <1>10, <2>2, ReturnEffect DEF Judge
    <3> QED
      BY <2>1, <3>1, <3>2, <3>3 DEF OneUsed, Connecting, Preparing, Opening
  <2>3. CASE lastErr # "ok"
    BY <1>10, <2>1, <2>3, GotoEffect, StepKeepsOneUsed DEF Judge
  <2> QED
    BY <2>2, <2>3
<1>11. ASSUME NEW s \in Slots, CloseExit(s) PROVE OneUsed'
  <2>1. socket[s].used /\ UNCHANGED <<socket, asked>>
    BY <1>0, <1>11 DEF CloseExit
  <2> QED
    BY <1>11, <2>1, ReturnEffect, StepKeepsOneUsed DEF CloseExit
<1>12. CASE Modem \/ HandlerStart \/ ForeignFlag
  <2>1. UNCHANGED <<socket, call, asked>>
    BY <1>12 DEF Modem, ModemAnswer, ModemDrop, HandlerStart, ForeignFlag
  <2> QED
    BY <2>1 DEF OneUsed
<1>13. CASE HandlerEnd \/ \E s \in Slots : HandleInline(s)
  <2>1. UNCHANGED <<call, asked>> /\ (UNCHANGED socket \/ MarkClosed)
    BY <1>13 DEF HandlerEnd, HandleInline
  <2> QED
    BY <2>1, MarkClosedFields DEF OneUsed
<1> QED
  BY <1>1, <1>2, <1>3, <1>4, <1>5, <1>6, <1>7, <1>8, <1>9, <1>10, <1>11, <1>12, <1>13
     DEF Next, Call, Step, Handlers

(* With one socket used, the invariants are about that one.                *)
LEMMA Alone ==
    ASSUME OneUsed', NEW s \in Slots, socket'[s].used
    PROVE  Level(s)' => LevelInv'
BY DEF OneUsed, Level, LevelInv, Preparing, Opening

(* Initially the level is what nobody asks for.                            *)
LEMMA LevelInit == Init => LevelInv
BY DEF Init, LevelInv, Level, Free, NoCall, Preparing, Opening

(* A step that moves no thread into another phase keeps the level.         *)
LEMMA LevelKept ==
    ASSUME LevelInv,
           UNCHANGED <<tlsSecLevel, asked>>,
           modem'.applied = modem.applied, modem'.level = modem.level,
           modem'.connLevel = modem.connLevel,
           \A s \in Slots :
             /\ socket'[s].used = socket[s].used /\ socket'[s].connected = socket[s].connected
             /\ call'[s].pc = call[s].pc \/ call'[s].pc \in {"idle", "send", "fail"}
                \/ (call[s].pc \in Preparing /\ call'[s].pc \in Preparing)
                \/ (call[s].pc \in Opening /\ call'[s].pc \in Opening)
    PROVE  LevelInv'
BY DEF LevelInv, Level, Preparing, Opening

(* Every step keeps the level that is asked for.                           *)
LEMMA LevelStep ==
    ASSUME TypeOK, TypeOK', OneUsed, OneUsed', LevelInv, [Next]_vars
    PROVE  LevelInv'
<1> USE DEF driverVars
<1>0. \A s \in Slots : call[s].pc # "idle" => socket[s].used
  BY DEF OneUsed
<1>1. CASE UNCHANGED vars
  BY <1>1 DEF vars, LevelInv, Level
<1>2. ASSUME NEW s \in Slots, SocketOpen(s) PROVE LevelInv'
  <2>1. /\ UNCHANGED <<call, asked, tlsSecLevel, modem>> /\ asked[s] = 0
        /\ socket'[s].connected = socket[s].connected /\ socket'[s].used
    BY <1>2 DEF SocketOpen, TypeOK, OneUsed
  <2>2. Level(s)'
    BY <2>1 DEF LevelInv, Level, TypeOK
  <2> QED
    BY <2>1, <2>2, Alone
<1>3. ASSUME NEW s \in Slots, SocketClose(s) PROVE LevelInv'
  <2>1. \A t \in Slots : ~socket'[t].used
    BY <1>3 DEF SocketClose, TypeOK, OneUsed, Free
  <2> QED
    BY <2>1 DEF OneUsed, LevelInv, Level, Preparing, Opening
<1>4. ASSUME NEW s \in Slots, NEW c \in {"cacert", "clientcert", "clientkey"}, SetCredential(s, c)
      PROVE  LevelInv'
  <2>1. /\ UNCHANGED <<socket, call, modem>> /\ socket[s].used /\ ~socket[s].connected
        /\ call[s].pc = "idle"
    BY <1>4 DEF SetCredential, Idle, NoCall
  <2>2. tlsSecLevel \in 0..2 /\ asked[s] \in 0..2 /\ tlsSecLevel >= asked[s]
    BY <2>1 DEF TypeOK, LevelInv, Level
  <2>3. CASE UNCHANGED <<tlsSecLevel, asked>>
    BY <2>1, <2>3 DEF LevelInv, Level
  <2>4. CASE /\ tlsSecLevel' = Raised(tlsSecLevel, c)
             /\ asked' = [asked EXCEPT ![s] =
                             IF c = "cacert" /\ @ = 2 THEN 2 ELSE IF c = "cacert" THEN 1 ELSE 2]
    <3>1. asked'[s] = (IF c = "cacert" /\ asked[s] = 2 THEN 2 ELSE IF c = "cacert" THEN 1 ELSE 2)
      BY <2>4 DEF TypeOK
    <3>2. tlsSecLevel' >= asked'[s]
      BY <2>2, <2>4, <3>1 DEF Raised
    <3>3. Level(s)'
      BY <2>1, <3>2 DEF Level, Preparing, Opening
    <3> QED
      BY <2>1, <3>3, Alone
  <2> QED
    BY <1>4, <2>3, <2>4 DEF SetCredential
<1>5. ASSUME NEW s \in Slots, Qsslsend(s) \/ \E n \in 1..MaxChunks : Sendto(s, n) PROVE LevelInv'
  <2>1. UNCHANGED <<modem, socket, tlsSecLevel, asked>>
    BY <1>5 DEF Qsslsend, Sendto
  <2>2. \A t \in Slots : call'[t].pc = call[t].pc \/ call'[t].pc \in {"idle", "send", "fail"}
    BY <1>5, SendEffect
  <2> QED
    BY <2>1, <2>2, LevelKept
<1>6. ASSUME NEW s \in Slots, NEW p \in {"seclevel", "sslversion", "dataformat"}, Configure(s, p)
      PROVE  LevelInv'
  <2>1. socket[s].used /\ ~socket[s].connected /\ UNCHANGED <<socket, asked, tlsSecLevel>>
    BY <1>0, <1>6, ConfigureEffect DEF Configure, OneUsed, Connecting, Preparing
  <2>2. call'[s].pc \notin Opening /\ call'[s].pc # "seclevel"
    BY <1>6, ConfigureEffect DEF Opening
  <2>3. tlsSecLevel >= asked[s]
    BY <2>1 DEF LevelInv, Level
  <2>4. CASE modem'.level = tlsSecLevel
    BY <2>1, <2>2, <2>3, <2>4, Alone DEF Level
  <2>5. CASE modem'.level = modem.level /\ ("seclevel" \in modem'.applied => "seclevel" \in modem.applied)
    <3>1. "seclevel" \in modem.applied => modem.level >= asked[s]
      BY <1>6, ConfigureEffect DEF LevelInv, Level, Preparing
    <3>2. Level(s)'
      BY <2>1, <2>2, <2>3, <2>5, <3>1 DEF Level
    <3> QED
      BY <2>1, <3>2, Alone
  <2> QED
    BY <1>6, <2>4, <2>5, ConfigureEffect
<1>7. ASSUME NEW s \in Slots, Connect(s) PROVE LevelInv'
  <2>1. /\ socket[s].used /\ socket'[s].used /\ UNCHANGED <<asked, tlsSecLevel>> /\ modem'.applied = {}
    BY <1>7 DEF Connect, TypeOK
  <2>2. Level(s)'
    BY <2>1 DEF LevelInv, Level
  <2> QED
    BY <2>1, <2>2, Alone
<1>8. ASSUME NEW s \in Slots, Begin(s) \/ ClearFlag(s) \/ WaitAnswer(s) \/ WaitTimeout(s)
      PROVE  LevelInv'
  <2>1. /\ UNCHANGED <<asked, socket, modem, tlsSecLevel>>
        /\ \A t \in Slots \ {s} : call'[t] = call[t]
        /\ \/ call[s].pc \in Preparing /\ call'[s].pc \in Preparing
           \/ call[s].pc \in Opening /\ call'[s].pc \in Opening
           \/ call'[s].pc = "fail"
    BY <1>8, GotoEffect DEF Begin, ClearFlag, WaitAnswer, WaitTimeout, Preparing, Opening
  <2> QED
    BY <2>1, LevelKept
<1>9. ASSUME NEW s \in Slots, Qsslopen(s) PROVE LevelInv'
  <2>1. socket[s].used /\ ~socket[s].connected /\ UNCHANGED <<socket, asked, tlsSecLevel>>
    BY <1>0, <1>9 DEF Qsslopen, OneUsed, Connecting, Preparing
  <2>2. "seclevel" \in modem.applied => modem.level >= asked[s]
    BY <1>9 DEF Qsslopen, LevelInv, Level, Preparing
  <2>3. tlsSecLevel >= asked[s]
    BY <2>1 DEF LevelInv, Level
  <2>4. /\ modem'.applied = modem.applied /\ call'[s].pc \in {"fail", "wait"}
        /\ call'[s].pc = "wait" => modem'.connLevel = modem.level
    BY <1>9, QsslopenEffect
  <2>5. Level(s)'
    BY <2>1, <2>2, <2>3, <2>4 DEF Level, Preparing, Opening
  <2> QED
    BY <2>1, <2>5, Alone
<1>10. ASSUME NEW s \in Slots, Judge(s) PROVE LevelInv'
  <2>1. socket[s].used /\ UNCHANGED <<asked, tlsSecLevel, modem>> /\ call[s].pc \in Opening
    BY <1>0, <1>10 DEF Judge, Opening
  <2>2. socket'[s].used
    BY <1>10, <2>1 DEF Judge, TypeOK
  <2>3. call'[s].pc \in {"idle", "fail"}
    BY <1>10, ReturnEffect, GotoEffect DEF Judge
  <2>4. Level(s)'
    BY <2>1, <2>2, <2>3 DEF LevelInv, Level, Preparing, Opening
  <2> QED
    BY <2>2, <2>4, Alone
<1>11. ASSUME NEW s \in Slots, CloseExit(s) PROVE LevelInv'
  <2>1. UNCHANGED <<socket, asked, tlsSecLevel>>
    BY <1>11 DEF CloseExit
  <2>2. call'[s].pc = "idle" /\ \A t \in Slots \ {s} : call'[t] = call[t]
    BY <1>11, ReturnEffect DEF CloseExit
  <2>3. modem'.applied = modem.applied /\ modem'.level = modem.level /\ modem'.connLevel = modem.connLevel
    BY <1>11, QsslcloseEffect DEF CloseExit
  <2> QED
    BY <2>1, <2>2, <2>3, LevelKept
<1>12. CASE Modem \/ HandlerStart \/ ForeignFlag
  <2>1. /\ UNCHANGED <<socket, call, asked, tlsSecLevel>> /\ modem'.applied = modem.applied
        /\ modem'.level = modem.level /\ modem'.connLevel = modem.connLevel
    BY <1>12 DEF Modem, ModemAnswer, ModemDrop, HandlerStart, ForeignFlag, TypeOK
  <2> QED
    BY <2>1, LevelKept
<1>13. CASE HandlerEnd \/ \E s \in Slots : HandleInline(s)
  <2>1. UNCHANGED <<call, asked, modem, tlsSecLevel>> /\ (UNCHANGED socket \/ MarkClosed)
    BY <1>13 DEF HandlerEnd, HandleInline
  <2> QED
    BY <2>1, MarkClosedFields, LevelKept
<1> QED
  BY <1>1, <1>2, <1>3, <1>4, <1>5, <1>6, <1>7, <1>8, <1>9, <1>10, <1>11, <1>12, <1>13
     DEF Next, Call, Step, Handlers

-----------------------------------------------------------------------------
(* Whose answer it is.                                                     *)

(* With one socket used, its answer is the only one to look at.            *)
LEMMA AloneAnswer ==
    ASSUME OneUsed', NEW s \in Slots, socket'[s].used
    PROVE  Answer(s)' => \A t \in Slots : Answer(t)'
BY DEF OneUsed, Answer, Opening

(* Initially nothing is answered.                                          *)
LEMMA AnswerInit == Init => AnswerInv
BY DEF Init, AnswerInv, Answer, Free, NoCall, Opening, PendingOk

(* A step that leaves answers, connections and URCs alone, and whose       *)
(* thread was and is not waiting for one.                                  *)
LEMMA AnswerKept ==
    ASSUME AnswerInv, UNCHANGED <<sslSocketId, lastErr, urcs, handler>>,
           modem'.conn = modem.conn, modem'.owner = modem.owner,
           \A s \in Slots :
             /\ socket'[s].connected = socket[s].connected /\ socket'[s].id = socket[s].id
             /\ socket'[s].closed = socket[s].closed
             /\ \/ call'[s].pc = call[s].pc
                \/ call'[s].pc \notin {"clear", "open"} \cup Opening
                \/ call[s].pc = "clear" /\ call'[s].pc = "open"
                \/ call[s].pc \in Opening /\ call'[s].pc \in Opening
    PROVE  AnswerInv'
BY DEF AnswerInv, Answer, Opening, PendingOk, PendingClosed, HandlingClosed

(* What is pending after the oldest URC was pending before.                *)
LEMMA PendingTail ==
    ASSUME urcs \in Seq(Msg), urcs # <<>>, urcs' = Tail(urcs)
    PROVE  /\ PendingOk' => PendingOk
           /\ (Head(urcs).type = "open" /\ Head(urcs).result = "ok") => PendingOk
           /\ PendingClosed => PendingClosed' \/ Head(urcs).type = "closed"
<1>1. /\ Len(urcs') = Len(urcs) - 1 /\ Len(urcs) \in Nat /\ Len(urcs) > 0
      /\ Head(urcs) = urcs[1] /\ \A i \in 1..Len(urcs') : urcs'[i] = urcs[i + 1]
  BY HeadTailType
<1>2. PendingOk' => PendingOk
  <2> SUFFICES ASSUME NEW i \in 1..Len(urcs'), urcs'[i].type = "open", urcs'[i].result = "ok"
               PROVE  PendingOk
    BY DEF PendingOk
  <2>1. i + 1 \in 1..Len(urcs) /\ urcs[i + 1] = urcs'[i]
    BY <1>1
  <2> QED
    BY <2>1 DEF PendingOk
<1>3. (Head(urcs).type = "open" /\ Head(urcs).result = "ok") => PendingOk
  <2>1. 1 \in 1..Len(urcs)
    BY <1>1
  <2> QED
    BY <1>1, <2>1 DEF PendingOk
<1>4. PendingClosed => PendingClosed' \/ Head(urcs).type = "closed"
  <2> SUFFICES ASSUME NEW i \in 1..Len(urcs), urcs[i].type = "closed", Head(urcs).type # "closed"
               PROVE  PendingClosed'
    BY DEF PendingClosed
  <2>1. i - 1 \in 1..Len(urcs') /\ urcs'[i - 1] = urcs[i]
    <3>1. i # 1
      BY <1>1
    <3>2. i - 1 \in 1..Len(urcs')
      BY <1>1, <3>1
    <3>3. urcs'[i - 1] = urcs[(i - 1) + 1] /\ (i - 1) + 1 = i
      BY <1>1, <3>2
    <3> QED
      BY <3>2, <3>3
  <2> QED
    BY <2>1 DEF PendingClosed
<1> QED
  BY <1>2, <1>3, <1>4

(* A URC sent is pending, and so is what was.                              *)
LEMMA PendingAppend ==
    ASSUME urcs \in Seq(Msg), NEW m \in Msg, urcs' = Append(urcs, m)
    PROVE  /\ PendingOk' => PendingOk \/ (m.type = "open" /\ m.result = "ok")
           /\ PendingClosed => PendingClosed'
           /\ m.type = "closed" => PendingClosed'
<1>1. /\ Len(urcs) \in Nat /\ Len(urcs') = Len(urcs) + 1 /\ urcs'[Len(urcs) + 1] = m
      /\ \A i \in 1..Len(urcs) : urcs'[i] = urcs[i]
  BY AppendProperties, LenProperties
<1>2. PendingOk' => PendingOk \/ (m.type = "open" /\ m.result = "ok")
  <2> SUFFICES ASSUME NEW i \in 1..Len(urcs'), urcs'[i].type = "open", urcs'[i].result = "ok"
               PROVE  PendingOk \/ (m.type = "open" /\ m.result = "ok")
    BY DEF PendingOk
  <2>1. i \in 1..Len(urcs) \/ i = Len(urcs) + 1
    BY <1>1
  <2> QED
    BY <1>1, <2>1 DEF PendingOk
<1>3. PendingClosed => PendingClosed'
  <2> SUFFICES ASSUME NEW i \in 1..Len(urcs), urcs[i].type = "closed" PROVE PendingClosed'
    BY DEF PendingClosed
  <2>1. i \in 1..Len(urcs') /\ urcs'[i] = urcs[i]
    BY <1>1
  <2> QED
    BY <2>1 DEF PendingClosed
<1>4. m.type = "closed" => PendingClosed'
  <2>1. Len(urcs) + 1 \in 1..Len(urcs')
    BY <1>1
  <2> QED
    BY <1>1, <2>1 DEF PendingClosed
<1> QED
  BY <1>2, <1>3, <1>4

(* Nothing is pending when the line is quiet.                              *)
LEMMA NothingPending == urcs = <<>> => ~PendingOk /\ ~PendingClosed
BY DEF PendingOk, PendingClosed

(* While one socket connects, none is connected.                           *)
LEMMA NoneConnected ==
    ASSUME OneUsed, NEW s \in Slots, call[s].pc \in Connecting
    PROVE  socket[s].used /\ \A t \in Slots : ~socket[t].connected
BY DEF OneUsed, Connecting, Preparing, Opening

(* Once every connected socket that has the connection's id is marked, no  *)
(* news of a drop is owed to anybody.                                      *)
LEMMA MarkedAnswers ==
    ASSUME TypeOK, AnswerInv, MarkClosed, PendingOk' => PendingOk,
           UNCHANGED <<sslSocketId, lastErr, call, modem>>, OneUsed
    PROVE  AnswerInv'
<1>1. ASSUME NEW s \in Slots PROVE Answer(s)'
  <2>1. socket[s].connected => socket'[s].closed
    <3>1. socket[s].connected => Owned(s)
      BY NamesAssumption DEF AnswerInv, Answer, Owned, OneUsed
    <3> QED
      BY <3>1 DEF MarkClosed, TypeOK
  <2> QED
    BY <2>1, MarkClosedFields DEF AnswerInv, Answer
<1>2. (PendingOk' /\ \A s \in Slots : ~socket'[s].connected) => modem'.conn = "open"
  BY MarkClosedFields DEF AnswerInv
<1> QED
  BY <1>1, <1>2 DEF AnswerInv

(* Every step keeps a good answer the socket's own.                        *)
LEMMA AnswerStep ==
    ASSUME EarlyClose = FALSE, TypeOK, TypeOK', OneUsed, OneUsed', AnswerInv, [Next]_vars
    PROVE  AnswerInv'
<1> USE DEF driverVars
<1>u. urcs \in Seq(Msg)
  BY DEF TypeOK
<1>1. CASE UNCHANGED vars
  BY <1>1 DEF vars, AnswerInv, Answer, PendingOk, PendingClosed, HandlingClosed
<1>2. ASSUME NEW s \in Slots, SocketOpen(s) PROVE AnswerInv'
  <2>1. /\ UNCHANGED <<driverVars, call, handler, modem, urcs>>
        /\ \A t \in Slots : /\ socket'[t].connected = socket[t].connected
                            /\ socket'[t].id = socket[t].id /\ socket'[t].closed = socket[t].closed
    BY <1>2 DEF SocketOpen, TypeOK
  <2> QED
    BY <2>1, AnswerKept
<1>3. ASSUME NEW s \in Slots, SocketClose(s) PROVE AnswerInv'
  <2>1. \A t \in Slots : ~socket'[t].used
    BY <1>3 DEF SocketClose, TypeOK, OneUsed, Free
  <2>2. \A t \in Slots : Answer(t)'
    BY <2>1 DEF OneUsed, Answer, Opening
  <2>3. PendingOk' => modem'.conn = "open"
    <3>1. CASE socket[s].id # NoId
      <4>1. urcs' = <<>>
        BY <1>3, <3>1 DEF SocketClose, Command
      <4> QED
        BY <4>1 DEF PendingOk
    <3>2. CASE socket[s].id = NoId
      <4>1. UNCHANGED <<modem, urcs>>
        BY <1>3, <3>2 DEF SocketClose
      <4>2. \A t \in Slots : ~socket[t].connected
        BY <1>3, <3>2, NamesAssumption DEF SocketClose, OneUsed, AnswerInv, Answer
      <4> QED
        BY <4>1, <4>2 DEF AnswerInv, PendingOk
    <3> QED
      BY <3>1, <3>2
  <2> QED
    BY <2>2, <2>3 DEF AnswerInv
<1>4. ASSUME NEW s \in Slots, NEW c \in {"cacert", "clientcert", "clientkey"}, SetCredential(s, c)
      PROVE  AnswerInv'
  BY <1>4, AnswerKept DEF SetCredential
<1>5. ASSUME NEW s \in Slots, Qsslsend(s) \/ \E n \in 1..MaxChunks : Sendto(s, n) PROVE AnswerInv'
  <2>1. UNCHANGED <<modem, socket, driverVars, handler, urcs>>
    BY <1>5 DEF Qsslsend, Sendto
  <2>2. \A t \in Slots : call'[t].pc = call[t].pc \/ call'[t].pc \in {"idle", "send"}
    BY <1>5, SendEffect
  <2> QED
    BY <2>1, <2>2, AnswerKept DEF Opening
<1>6. ASSUME NEW s \in Slots, NEW p \in {"seclevel", "sslversion", "dataformat"}, Configure(s, p)
      PROVE  AnswerInv'
  <2>1. UNCHANGED <<socket, driverVars, handler, urcs>>
    BY <1>6 DEF Configure
  <2>2. \A t \in Slots : call'[t].pc = call[t].pc
                        \/ call'[t].pc \in {"idle", "sslversion", "dataformat", "begin"}
    BY <1>6, ConfigureEffect
  <2> QED
    BY <1>6, <2>1, <2>2, ConfigureEffect, AnswerKept DEF Opening
<1>7. ASSUME NEW s \in Slots, Connect(s) PROVE AnswerInv'
  <2>1. /\ UNCHANGED <<driverVars, handler, urcs>>
        /\ modem'.conn = modem.conn /\ modem'.owner = modem.owner
        /\ \A t \in Slots : /\ socket'[t].connected = socket[t].connected
                            /\ socket'[t].id = socket[t].id /\ socket'[t].closed = socket[t].closed
    BY <1>7 DEF Connect, TypeOK
  <2>2. \A t \in Slots : call'[t].pc = call[t].pc \/ call'[t].pc = "seclevel"
    BY <1>7, GotoEffect DEF Connect
  <2> QED
    BY <2>1, <2>2, AnswerKept DEF Opening
<1>8. ASSUME NEW s \in Slots, Begin(s) PROVE AnswerInv'
  <2>1. /\ UNCHANGED <<socket, modem, handler, urcs>> /\ sslSocketId' = s /\ lastErr' = "none"
        /\ call[s].pc = "begin" /\ call'[s].pc = "clear"
    BY <1>8, GotoEffect DEF Begin
  <2>2. socket[s].used /\ \A t \in Slots : ~socket[t].connected
    BY <2>1, NoneConnected DEF Connecting, Preparing
  <2>3. Answer(s)'
    BY <2>1, <2>2 DEF Answer, Opening
  <2> QED
    BY <2>1, <2>2, <2>3, AloneAnswer DEF AnswerInv, PendingOk
<1>9. ASSUME NEW s \in Slots, ClearFlag(s) \/ WaitAnswer(s) \/ WaitTimeout(s) PROVE AnswerInv'
  <2>1. /\ UNCHANGED <<sslSocketId, lastErr, socket, modem, handler, urcs>>
        /\ \A t \in Slots \ {s} : call'[t] = call[t]
        /\ \/ call[s].pc = "clear" /\ call'[s].pc = "open"
           \/ call[s].pc \in Opening /\ call'[s].pc \in Opening
           \/ call'[s].pc = "fail"
    BY <1>9, GotoEffect DEF ClearFlag, WaitAnswer, WaitTimeout, Opening
  <2> QED
    BY <2>1, AnswerKept DEF Opening
<1>10. ASSUME NEW s \in Slots, Qsslopen(s) PROVE AnswerInv'
  <2>1. /\ UNCHANGED <<sslSocketId, lastErr, socket, handler, urcs>> /\ urcs = <<>>
        /\ call[s].pc = "open"
    BY <1>10 DEF Qsslopen, Command
  <2>2. socket[s].used /\ \A t \in Slots : ~socket[t].connected
    BY <2>1, NoneConnected DEF Connecting, Preparing
  <2>3. sslSocketId = s /\ (lastErr = "ok" => modem.conn = "open")
    BY <2>1 DEF AnswerInv, Answer
  <2>4. Answer(s)'
    BY <1>10, <2>1, <2>2, <2>3, QsslopenEffect DEF Answer, Opening
  <2>5. ~PendingOk'
    BY <2>1 DEF PendingOk
  <2> QED
    BY <2>1, <2>2, <2>4, <2>5, AloneAnswer DEF AnswerInv
<1>11. ASSUME NEW s \in Slots, Judge(s) PROVE AnswerInv'
  <2>1. UNCHANGED <<sslSocketId, lastErr, modem, handler, urcs>> /\ call[s].pc = "judge"
    BY <1>11 DEF Judge
  <2>2. socket[s].used /\ \A t \in Slots : ~socket[t].connected
    BY <2>1, NoneConnected DEF Connecting, Opening
  <2>3. modem.owner = s /\ sslSocketId = s /\ (lastErr = "ok" => modem.conn = "open")
    BY <2>1 DEF AnswerInv, Answer, Opening
  <2>4. CASE lastErr = "ok"
    <3>1. socket'[s].used /\ socket'[s].connected /\ socket'[s].id = s
      BY <1>11, <2>2, <2>4 DEF Judge, TypeOK
    <3>2. call'[s].pc = "idle"
      BY <1>11, <2>4, ReturnEffect DEF Judge
    <3>3. Answer(s)'
      BY <2>1, <2>3, <2>4, <3>1, <3>2 DEF Answer, Opening
    <3> QED
      BY <2>1, <2>3, <2>4, <3>1, <3>3, AloneAnswer DEF AnswerInv
  <2>5. CASE lastErr # "ok"
    <3>1. UNCHANGED socket /\ call'[s].pc = "fail" /\ \A t \in Slots \ {s} : call'[t] = call[t]
      BY <1>11, <2>5, GotoEffect DEF Judge
    <3> QED
      BY <2>1, <3>1, AnswerKept DEF Opening
  <2> QED
    BY <2>4, <2>5
<1>12. ASSUME NEW s \in Slots, CloseExit(s) PROVE AnswerInv'
  <2>1. /\ UNCHANGED <<socket, urcs>> /\ urcs = <<>> /\ call[s].pc = "fail" /\ call'[s].pc = "idle"
    BY <1>12, ReturnEffect DEF CloseExit, Command
  <2>2. socket[s].used /\ \A t \in Slots : ~socket[t].connected
    BY <2>1, NoneConnected DEF Connecting
  <2>3. Answer(s)'
    BY <2>1, <2>2 DEF Answer, Opening
  <2>4. ~PendingOk'
    BY <2>1 DEF PendingOk
  <2> QED
    BY <2>1, <2>2, <2>3, <2>4, AloneAnswer DEF AnswerInv
<1>13. CASE ModemAnswer
  <2>1. PICK r \in {"ok", "fail"} :
          /\ modem' = [modem EXCEPT !.conn = IF r = "ok" THEN "open" ELSE "closed"]
          /\ urcs' = Append(urcs, [type |-> "open", result |-> r])
    BY <1>13 DEF ModemAnswer
  <2>2. /\ UNCHANGED <<socket, sslSocketId, lastErr, call, handler>> /\ modem.conn = "opening"
        /\ modem'.owner = modem.owner /\ modem'.conn = (IF r = "ok" THEN "open" ELSE "closed")
    BY <1>13, <2>1 DEF ModemAnswer, TypeOK
  <2>3. [type |-> "open", result |-> r] \in Msg
    BY DEF Msg
  <2>4. /\ PendingOk' => PendingOk \/ r = "ok"
        /\ PendingClosed => PendingClosed'
    BY <1>u, <2>1, <2>3, PendingAppend
  <2>5. ASSUME NEW s \in Slots PROVE Answer(s)'
    BY <2>2, <2>4 DEF AnswerInv, Answer, HandlingClosed
  <2> QED
    BY <2>2, <2>4, <2>5 DEF AnswerInv
<1>14. CASE ModemDrop
  <2>1. /\ UNCHANGED <<socket, sslSocketId, lastErr, call, handler>>
        /\ modem.owner \in Slots /\ socket[modem.owner].connected
        /\ modem'.owner = modem.owner
        /\ urcs' = Append(urcs, [type |-> "closed", result |-> "none"])
    BY <1>14 DEF ModemDrop, TypeOK
  <2>2. [type |-> "closed", result |-> "none"] \in Msg
    BY DEF Msg
  <2>3. PendingClosed'
    BY <1>u, <2>1, <2>2, PendingAppend
  <2>4. ASSUME NEW s \in Slots PROVE Answer(s)'
    <3>1. call[s].pc \notin Connecting
      BY <2>1, NoneConnected
    <3> QED
      BY <2>1, <2>3, <3>1 DEF AnswerInv, Answer, Connecting, Preparing, Opening
  <2> QED
    BY <2>1, <2>4 DEF AnswerInv
<1>15. CASE HandlerStart
  <2>1. /\ UNCHANGED <<socket, sslSocketId, call, modem>> /\ handler = NoMsg /\ urcs # <<>>
        /\ urcs' = Tail(urcs) /\ handler' = Head(urcs)
        /\ lastErr' = IF Head(urcs).type = "open" THEN Head(urcs).result ELSE lastErr
    BY <1>15 DEF HandlerStart
  <2>2. Head(urcs) \in Msg
    BY <1>u, <2>1, HeadTailType
  <2>3. /\ PendingOk' => PendingOk
        /\ (Head(urcs).type = "open" /\ Head(urcs).result = "ok") => PendingOk
        /\ PendingClosed => PendingClosed' \/ Head(urcs).type = "closed"
    BY <1>u, <2>1, PendingTail
  <2>4. PendingClosed \/ HandlingClosed => PendingClosed' \/ HandlingClosed'
    BY <2>1, <2>2, <2>3, NamesAssumption DEF HandlingClosed
  <2>5. ASSUME NEW s \in Slots PROVE Answer(s)'
    <3>1. CASE call[s].pc \in {"clear", "open"} \cup Opening
      <4>1. \A t \in Slots : ~socket[t].connected
        BY <3>1, NoneConnected DEF Connecting, Preparing, Opening
      <4>2. lastErr' = "ok" => modem.conn = "open"
        BY <2>1, <2>3, <3>1, <4>1 DEF AnswerInv, Answer
      <4> QED
        BY <2>1, <4>1, <4>2 DEF AnswerInv, Answer
    <3>2. CASE call[s].pc \notin {"clear", "open"} \cup Opening
      BY <2>1, <2>4, <3>2 DEF AnswerInv, Answer
    <3> QED
      BY <3>1, <3>2
  <2> QED
    BY <2>1, <2>3, <2>5 DEF AnswerInv
<1>16. CASE HandlerEnd
  <2>1. UNCHANGED <<sslSocketId, lastErr, call, modem, urcs>> /\ handler # NoMsg /\ handler \in Msg
    BY <1>16 DEF HandlerEnd, TypeOK
  <2>2. CASE handler.type = "open" /\ UNCHANGED socket
    BY <2>1, <2>2 DEF AnswerInv, Answer, PendingOk, PendingClosed, HandlingClosed
  <2>3. CASE MarkClosed
    BY <2>1, <2>3, MarkedAnswers DEF PendingOk
  <2> QED
    BY <1>16, <2>2, <2>3 DEF HandlerEnd
<1>17. ASSUME NEW s \in Slots, HandleInline(s) PROVE AnswerInv'
  <2>1. /\ UNCHANGED <<sslSocketId, call, modem, handler>> /\ urcs # <<>> /\ urcs' = Tail(urcs)
        /\ call[s].pc \in Commanding
    BY <1>17 DEF HandleInline
  <2>2. Head(urcs) \in Msg
    BY <1>u, <2>1, HeadTailType
  <2>3. /\ PendingOk' => PendingOk
        /\ (Head(urcs).type = "open" /\ Head(urcs).result = "ok") => PendingOk
        /\ PendingClosed => PendingClosed' \/ Head(urcs).type = "closed"
    BY <1>u, <2>1, PendingTail
  <2>4. CASE Head(urcs).type = "open" /\ lastErr' = Head(urcs).result /\ UNCHANGED socket
    <3>1. ASSUME NEW t \in Slots PROVE Answer(t)'
      <4>1. CASE call[t].pc \in {"clear", "open"} \cup Opening
        <5>1. \A u \in Slots : ~socket[u].connected
          BY <4>1, NoneConnected DEF Connecting, Preparing, Opening
        <5>2. lastErr' = "ok" => modem.conn = "open"
          BY <2>3, <2>4, <5>1 DEF AnswerInv
        <5> QED
          BY <2>1, <2>4, <4>1, <5>1, <5>2 DEF AnswerInv, Answer
      <4>2. CASE call[t].pc \notin {"clear", "open"} \cup Opening
        BY <2>1, <2>3, <2>4, <4>2 DEF AnswerInv, Answer, HandlingClosed
      <4> QED
        BY <4>1, <4>2
    <3> QED
      BY <2>1, <2>3, <2>4, <3>1 DEF AnswerInv
  <2>5. CASE MarkClosed /\ UNCHANGED lastErr
    BY <2>1, <2>3, <2>5, MarkedAnswers
  <2> QED
    BY <1>17, <2>4, <2>5 DEF HandleInline
<1>18. CASE ForeignFlag
  BY <1>18, AnswerKept DEF ForeignFlag
<1> QED
  BY <1>1, <1>2, <1>3, <1>4, <1>5, <1>6, <1>7, <1>8, <1>9, <1>10, <1>11, <1>12, <1>13, <1>14,
     <1>15, <1>16, <1>17, <1>18
     DEF Next, Call, Step, Modem, Handlers

-----------------------------------------------------------------------------
(* Theorems for one TLS socket at a time.                                  *)

(* The inductive invariant, drops during connect() apart.                  *)
LEMMA LevelInvariance ==
    ASSUME MaxTls <= 1 PROVE Spec => [](TypeOK /\ OneUsed /\ LevelInv)
<1> DEFINE I == TypeOK /\ SendInv /\ OneUsed /\ LevelInv
<1>1. Init => I
  BY TypeInit, OneUsedInit, LevelInit
<1>2. I /\ [Next]_vars => I'
  <2> SUFFICES ASSUME I, [Next]_vars PROVE I'
    OBVIOUS
  <2>1. TypeOK' /\ SendInv'
    BY TypeStep
  <2>2. OneUsed'
    BY OneUsedStep
  <2> QED
    BY <2>1, <2>2, LevelStep
<1> QED
  BY <1>1, <1>2, PTL DEF Spec

(* A connection has the level that its socket's credentials ask for, if    *)
(* the modem took the level at all, whatever attempts and commands failed. *)
THEOREM LevelHeld == ASSUME MaxTls <= 1 PROVE Spec => []LevelAsAsked
<1>1. LevelInv => LevelAsAsked
  BY DEF LevelInv, Level, LevelAsAsked
<1> QED
  BY <1>1, LevelInvariance, PTL

(* connect() succeeds on the socket's own answer only, and no drop is      *)
(* missed, if the peer does not close before connect() has returned.       *)
THEOREM ConnectionsAreOpen ==
    ASSUME MaxTls <= 1, EarlyClose = FALSE PROVE Spec => []ConnectedIsOpen
<1> DEFINE I == TypeOK /\ OneUsed /\ LevelInv
<1>1. Init => AnswerInv
  BY AnswerInit
<1>2. I /\ I' /\ AnswerInv /\ [Next]_vars => AnswerInv'
  BY AnswerStep
<1>3. AnswerInv => ConnectedIsOpen
  BY NothingPending DEF AnswerInv, Answer, ConnectedIsOpen, Quiet, HandlingClosed
<1> QED
  BY <1>1, <1>2, <1>3, LevelInvariance, PTL DEF Spec
=============================================================================
