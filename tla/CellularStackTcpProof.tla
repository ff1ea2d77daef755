----------------------- MODULE CellularStackTcpProof -------------------------
(***************************************************************************)
(* Proofs about CellularStack used for TCP over IPv4, one call at a time,  *)
(* for any number of sockets.  With peers that close a connection only     *)
(* after connect() has returned, driver and modem agree on every           *)
(* connection.                                                             *)
(*                                                                         *)
(* The invariant follows the answer to an AT+QIOPEN from the modem through *)
(* the serial line, the handler and the event flag to the thread that      *)
(* waits for it: it is in one place at a time, and what it says is still   *)
(* true of the modem when the thread acts upon it.                         *)
(***************************************************************************)
EXTENDS CellularStackProof, FiniteSetTheorems

(* The use of the stack that the proofs assume, of a device with finitely  *)
(* many slots.                                                             *)
SerialTcp ==
    /\ \A s \in Slots : Protocols[s] \subseteq {"TCP"}
    /\ Families \subseteq {"IPv4"}
    /\ MaxCalls <= 1
    /\ IsFiniteSet(Slots)

(* r is how the modem answered for id m, and m is still as it left it,     *)
(* unless the peer has closed the connection since.                        *)
Answered(m, r) ==
    \/ r = "ok" /\ modem[m] = "open"
    \/ r = "ok" /\ modem[m] = "dead" /\ EarlyClose
    \/ r = "fail" /\ modem[m] = "dead"
    \/ r = "bind" /\ modem[m] = "free"

(* Where an AT+QIOPEN may be without its answer: waiting, or having waited *)
(* long enough.                                                            *)
Asking == {"wait", "closeOwn"}

(* Answers on the serial line. *)
Answers == {i \in 1..Len(urcs) : urcs[i].type = "open"}

(* No answer is on its way from the modem to the driver. *)
Silent == urc = NoMsg /\ Answers = {}

OneCall == \A s, t \in Slots : call[s] # NoCall /\ call[t] # NoCall => s = t

(* An answer for m that is still to be stored. *)
Underway(m, r) ==
    /\ m \in Slots
    /\ call[m].pc \in Asking
    /\ call[m].pc = "wait" => ~connFlag
    /\ Answered(m, r)

(* There is one answer at most, on the line or half stored. *)
LineInv ==
    /\ \A i \in Answers : /\ Underway(urcs[i].id, urcs[i].result)
                          /\ urc = NoMsg
                          /\ \A j \in Answers : i = j
    /\ urc # NoMsg => /\ Underway(urc.id, urc.result)
                      /\ lastId = urc.id
                      /\ Answers = {}

(* Which calls a thread makes, at which of their points. *)
ThreadInv(s) ==
    /\ call[s].pc = "idle" => call[s] = NoCall
    /\ call[s] # NoCall => call[s].op \in {"connect", "send"}
    /\ call[s].op = "connect" =>
         /\ call[s].pc \in {"clear", "open", "wait", "readId", "readErr", "decide", "closeOwn"}
         /\ ~socket[s].connected /\ socket[s].proto = "TCP"
    /\ call[s].op = "send" =>
         /\ call[s].pc \in {"lock", "send"}
         /\ socket[s].connected /\ call[s].family = "IPv4"

(* A TCP socket has an id when it is connected, and only then. *)
SocketInv(s) ==
    /\ socket[s].proto \in {"none", "TCP"}
    /\ socket[s].connected => socket[s].proto = "TCP" /\ socket[s].id = s /\ ipVersion = "IPv4"
    /\ ~socket[s].connected => socket[s].id = NoId

(* What a thread knows of its answer at each point of connect(). *)
AnswerInv(s) ==
    /\ modem[s] = "opening" => /\ call[s].pc \in Asking /\ Silent
                               /\ call[s].pc = "wait" => ~connFlag
    /\ call[s].pc = "open" => ~connFlag
    /\ call[s].pc = "wait" /\ connFlag => Silent /\ lastId = s /\ Answered(s, lastErr)
    /\ call[s].pc = "readId" => lastId = s /\ Answered(s, lastErr)
    /\ call[s].pc = "readErr" => call[s].modemId = s /\ Answered(s, lastErr)
    /\ call[s].pc = "decide" => call[s].modemId = s /\ Answered(s, call[s].err)

(* What driver and modem know of a connection. *)
ConnectionInv(s) ==
    /\ call[s].pc = "idle" /\ ~socket[s].connected => modem[s] = "free"
    /\ socket[s].connected /\ ~socket[s].closed => modem[s] = "open" \/ Dropped(s) \/ EarlyClose

SlotInv(s) == ThreadInv(s) /\ SocketInv(s) /\ AnswerInv(s) /\ ConnectionInv(s)

SerialInv == OneCall /\ LineInv /\ \A s \in Slots : SlotInv(s)

-----------------------------------------------------------------------------
(* What follows from the invariant.                                        *)

(* While the calling thread is not waiting, no answer is underway.         *)
LEMMA SilentElsewhere ==
    ASSUME SerialInv, NEW s \in Slots, call[s] # NoCall, call[s].pc \notin Asking
    PROVE  Silent
<1>1. ASSUME NEW m, NEW r, Underway(m, r) PROVE FALSE
  BY <1>1 DEF Underway, SerialInv, OneCall, Asking, NoCall
<1> QED
  BY <1>1 DEF SerialInv, LineInv, Silent

(* A command completes only when no URC is left, so no answer either.      *)
LEMMA SilentAtCommand ==
    ASSUME NEW s \in Slots, Command(s)
    PROVE  Silent
<1>1. Len(urcs) = 0
  BY DEF Command
<1> QED
  BY <1>1 DEF Command, Silent, Answers

(* Without a call nothing is underway and no id is being opened.           *)
LEMMA SilentWithoutCall ==
    ASSUME SerialInv, \A s \in Slots : call[s] = NoCall
    PROVE  Silent
<1>1. ASSUME NEW m, NEW r, Underway(m, r) PROVE FALSE
  BY <1>1 DEF Underway, Asking, NoCall
<1> QED
  BY <1>1 DEF SerialInv, LineInv, Silent

(* With at most one call, a call starts only when there is none.           *)
LEMMA AloneWhenIdle ==
    ASSUME SerialTcp, NEW s \in Slots, Idle(s)
    PROVE  \A t \in Slots : call[t] = NoCall
<1> DEFINE Busy == {t \in Slots : call[t] # NoCall}
<1>1. IsFiniteSet(Busy) /\ Cardinality(Busy) \in Nat
  BY FS_Subset, FS_CardinalityType DEF SerialTcp
<1>2. Cardinality(Busy) = 0
  BY <1>1, ParametersAssumption DEF SerialTcp, Idle
<1> QED
  BY <1>1, <1>2, FS_EmptySet

-----------------------------------------------------------------------------
(* Preservation.                                                           *)

(* A step of the calling thread that touches only its own slot.            *)
LEMMA OthersKeepSerial ==
    ASSUME SerialInv, NEW s \in Slots, call[s] # NoCall,
           \A t \in Slots \ {s} : /\ call'[t] = call[t] /\ socket'[t] = socket[t]
                                  /\ modem'[t] = modem[t],
           ipVersion' \in {ipVersion, "IPv4"}, urcs' = urcs,
           SlotInv(s)', LineInv'
    PROVE  SerialInv'
<1>1. ASSUME NEW t \in Slots \ {s} PROVE SlotInv(t)'
  <2>1. call[t] = NoCall /\ SlotInv(t)
    BY DEF SerialInv, OneCall
  <2>2. modem[t] # "opening"
    BY <2>1 DEF SlotInv, AnswerInv, Asking, NoCall
  <2>3. AnswerInv(t)'
    BY <2>1, <2>2 DEF AnswerInv, NoCall
  <2>4. ThreadInv(t)' /\ SocketInv(t)' /\ ConnectionInv(t)'
    BY <2>1 DEF SlotInv, ThreadInv, SocketInv, ConnectionInv, Dropped, NoCall
  <2> QED
    BY <2>3, <2>4 DEF SlotInv
<1>2. OneCall'
  BY DEF SerialInv, OneCall
<1> QED
  BY <1>1, <1>2 DEF SerialInv

(* A silent line that nobody touches stays silent.                         *)
LEMMA SilentKept ==
    ASSUME Silent, urc' = urc, urcs' = urcs
    PROVE  Silent' /\ LineInv'
BY DEF Silent, Answers, LineInv

(* The steps of a connect up to the answer.                                *)
LEMMA SerialAsk ==
    ASSUME TypeOK, SerialInv, NEW s \in Slots, ClearFlag(s) \/ Qiopen(s) \/ WaitTimeout(s)
    PROVE  SerialInv'
<1>0. /\ call[s] # NoCall /\ call[s].op = "connect" /\ SlotInv(s)
      /\ call[s] \in Calls /\ CallType /\ modem[s] \in {"free", "opening", "open", "dead"}
  BY TypeParts DEF SerialInv, SlotInv, ThreadInv, ClearFlag, Qiopen, WaitTimeout, NoCall,
     CallType, StateType
<1> {"open", "wait", "closeOwn"} \subseteq Pcs
  BY DEF Pcs, Commanding
<1>1. CASE ClearFlag(s)
  <2>1. Silent
    BY <1>0, <1>1, SilentElsewhere DEF ClearFlag, Asking
  <2>2. LineInv'
    BY <1>1, <2>1, SilentKept DEF ClearFlag, modemVars
  <2>3. /\ call'[s].pc = "open" /\ call'[s].op = "connect"
        /\ \A t \in Slots \ {s} : call'[t] = call[t]
    BY <1>0, <1>1, GotoType DEF ClearFlag
  <2>4. SlotInv(s)'
    BY <1>0, <1>1, <2>3 DEF ClearFlag, SlotInv, ThreadInv, SocketInv, AnswerInv, ConnectionInv,
       modemVars, Asking, NoCall
  <2> QED
    BY <1>0, <1>1, <2>2, <2>3, <2>4, OthersKeepSerial DEF ClearFlag, modemVars
<1>2. CASE Qiopen(s)
  <2>1. Silent
    BY <1>2, SilentAtCommand DEF Qiopen
  <2>2. Silent' /\ LineInv'
    BY <1>2, <2>1, SilentKept DEF Qiopen
  <2>3. /\ (call'[s].pc = "wait" /\ modem'[s] = "opening") \/ call'[s].pc = "closeOwn"
        /\ call'[s].op = "connect"
        /\ \A t \in Slots \ {s} : call'[t] = call[t] /\ modem'[t] = modem[t]
    BY <1>0, <1>2, GotoType DEF Qiopen, Connecting, TypeOK
  <2>4. SlotInv(s)'
    BY <1>0, <1>2, <2>2, <2>3 DEF Qiopen, SlotInv, ThreadInv, SocketInv, AnswerInv, ConnectionInv,
       answerVars, Asking, NoCall
  <2> QED
    BY <1>0, <1>2, <2>2, <2>3, <2>4, OthersKeepSerial DEF Qiopen
<1>3. CASE WaitTimeout(s)
  <2>1. /\ call'[s].pc = "closeOwn" /\ call'[s].op = "connect"
        /\ \A t \in Slots \ {s} : call'[t] = call[t]
    BY <1>0, <1>3 DEF WaitTimeout, Connecting, CallType, Calls
  <2>2. LineInv'
    <3>1. ASSUME NEW m, NEW r, Underway(m, r) PROVE Underway(m, r)'
      BY <1>3, <2>1, <3>1 DEF Underway, WaitTimeout, Asking, Answered, modemVars, answerVars
    <3> QED
      BY <1>3, <3>1 DEF SerialInv, LineInv, WaitTimeout, Answers, modemVars, answerVars
  <2>3. SlotInv(s)'
    <3>1. Silent => Silent'
      BY <1>3, SilentKept DEF WaitTimeout, modemVars
    <3> QED
      BY <1>0, <1>3, <2>1, <3>1 DEF WaitTimeout, SlotInv, ThreadInv, SocketInv, AnswerInv,
         ConnectionInv, modemVars, Asking, NoCall
  <2> QED
    BY <1>0, <1>3, <2>1, <2>2, <2>3, OthersKeepSerial DEF WaitTimeout, modemVars
<1> QED
  BY <1>1, <1>2, <1>3

(* The steps that take the answer.                                         *)
LEMMA SerialTake ==
    ASSUME TypeOK, SerialInv, NEW s \in Slots, WaitAnswer(s) \/ ReadId(s) \/ ReadErr(s)
    PROVE  SerialInv'
<1>0. /\ call[s] # NoCall /\ call[s].op = "connect" /\ SlotInv(s)
      /\ call[s] \in Calls /\ CallType
  BY TypeParts DEF SerialInv, SlotInv, ThreadInv, WaitAnswer, ReadId, ReadErr, NoCall, CallType
<1> "readId" \in Pcs
  BY DEF Pcs
<1>1. Silent
  <2>1. CASE WaitAnswer(s)
    BY <1>0, <2>1 DEF WaitAnswer, SlotInv, AnswerInv
  <2>2. CASE ReadId(s) \/ ReadErr(s)
    BY <1>0, <2>2, SilentElsewhere DEF ReadId, ReadErr, Asking
  <2> QED
    BY <2>1, <2>2
<1>2. urc' = urc /\ urcs' = urcs /\ modem' = modem /\ socket' = socket /\ ipVersion' = ipVersion
  BY DEF WaitAnswer, ReadId, ReadErr, modemVars
<1>3. LineInv'
  BY <1>1, <1>2, SilentKept
<1>4. /\ call'[s].op = "connect" /\ \A t \in Slots \ {s} : call'[t] = call[t]
      /\ \/ call'[s].pc = "readId" /\ WaitAnswer(s)
         \/ call'[s].pc = "readErr" /\ call'[s].modemId = lastId /\ ReadId(s)
         \/ /\ call'[s].pc = "decide" /\ call'[s].err = lastErr
            /\ call'[s].modemId = call[s].modemId /\ ReadErr(s)
  <2>1. CASE WaitAnswer(s)
    BY <1>0, <2>1, GotoType DEF WaitAnswer
  <2>2. CASE ReadId(s)
    BY <1>0, <2>2 DEF ReadId, CallType, Calls
  <2>3. CASE ReadErr(s)
    BY <1>0, <2>3 DEF ReadErr, CallType, Calls
  <2> QED
    BY <2>1, <2>2, <2>3
<1>5. AnswerInv(s)'
  BY <1>0, <1>2, <1>4 DEF WaitAnswer, ReadId, ReadErr, SlotInv, AnswerInv, Answered, Asking, answerVars
<1>6. SlotInv(s)'
  BY <1>0, <1>2, <1>4, <1>5 DEF SlotInv, ThreadInv, SocketInv, ConnectionInv, Dropped, NoCall
<1> QED
  BY <1>0, <1>2, <1>3, <1>4, <1>6, OthersKeepSerial

(* The steps that judge the answer and return.  The modem has answered for *)
(* the id it was asked for, so connect never closes another's.             *)
LEMMA SerialJudge ==
    ASSUME TypeOK, SerialInv, NEW s \in Slots, ConnectDecide(s) \/ CloseOwn(s) \/ CloseOther(s)
    PROVE  SerialInv'
<1>0. /\ call[s] # NoCall /\ call[s].op = "connect" /\ SlotInv(s) /\ CallType
      /\ socket \in [Slots -> [proto : {"none", "UDP", "TCP"}, id : Ids,
                               connected : BOOLEAN, closed : BOOLEAN]]
      /\ modem \in [Slots -> {"free", "opening", "open", "dead"}]
      /\ ~CloseOther(s)
  BY TypeParts DEF SerialInv, SlotInv, ThreadInv, ConnectDecide, CloseOwn, CloseOther, NoCall,
     CallType, StateType
<1> "closeOwn" \in Pcs
  BY DEF Pcs, Commanding
<1>1. CASE ConnectDecide(s)
  <2>1. Silent
    BY <1>0, <1>1, SilentElsewhere DEF ConnectDecide, Asking
  <2>2. LineInv' /\ urcs' = urcs /\ modem' = modem
    BY <1>1, <2>1, SilentKept DEF ConnectDecide, modemVars
  <2>3. call[s].modemId = s /\ Answered(s, call[s].err) /\ s # NoId /\ call[s].pc = "decide"
    BY <1>0, <1>1, NamesAssumption DEF ConnectDecide, SlotInv, AnswerInv
  <2>4. CASE call[s].err = "bind"
    <3>1. /\ call'[s] = NoCall /\ \A t \in Slots \ {s} : call'[t] = call[t]
          /\ socket' = [socket EXCEPT ![s].id = NoId] /\ ipVersion' = ipVersion
      BY <1>0, <1>1, <2>3, <2>4, ReturnType DEF ConnectDecide, BindFailed
    <3>2. modem[s] = "free"
      BY <2>3, <2>4 DEF Answered
    <3>3. SlotInv(s)'
      BY <1>0, <2>2, <3>1, <3>2 DEF SlotInv, ThreadInv, SocketInv, AnswerInv, ConnectionInv, NoCall
    <3> QED
      BY <1>0, <2>2, <3>1, <3>3, OthersKeepSerial
  <2>5. CASE call[s].err = "ok"
    <3>1. /\ call'[s] = NoCall /\ \A t \in Slots \ {s} : call'[t] = call[t]
          /\ socket' = [socket EXCEPT ![s].id = s, ![s].connected = TRUE] /\ ipVersion' = "IPv4"
      BY <1>0, <1>1, <2>3, <2>5, ReturnType DEF ConnectDecide, BindFailed
    <3>2. modem[s] = "open" \/ EarlyClose
      BY <2>3, <2>5 DEF Answered
    <3>3. SlotInv(s)'
      BY <1>0, <2>2, <3>1, <3>2 DEF SlotInv, ThreadInv, SocketInv, AnswerInv, ConnectionInv, NoCall
    <3> QED
      BY <1>0, <2>2, <3>1, <3>3, OthersKeepSerial
  <2>6. CASE call[s].err \notin {"bind", "ok"}
    <3>1. Retry(s, "closeOwn") /\ socket' = socket /\ ipVersion' = ipVersion
      BY <1>1, <2>3, <2>6 DEF ConnectDecide, BindFailed
    <3>2. /\ call'[s].pc \in {"clear", "closeOwn"} /\ call'[s].op = "connect"
          /\ \A t \in Slots \ {s} : call'[t] = call[t]
      BY <1>0, <3>1, RetryType
    <3>3. modem[s] = "dead"
      BY <2>3, <2>6 DEF Answered
    <3>4. SlotInv(s)'
      BY <1>0, <2>2, <3>1, <3>2, <3>3
      DEF SlotInv, ThreadInv, SocketInv, AnswerInv, ConnectionInv, NoCall
    <3> QED
      BY <1>0, <2>2, <3>1, <3>2, <3>4, OthersKeepSerial
  <2> QED
    BY <2>4, <2>5, <2>6
<1>2. CASE CloseOwn(s)
  <2>1. LineInv' /\ urcs' = urcs
    BY <1>2, SilentAtCommand, SilentKept DEF CloseOwn
  <2>2. /\ call'[s] = NoCall /\ \A t \in Slots \ {s} : call'[t] = call[t]
        /\ modem'[s] = "free" /\ \A t \in Slots \ {s} : modem'[t] = modem[t]
        /\ socket' = socket /\ ipVersion' = ipVersion
    BY <1>0, <1>2, ReturnType DEF CloseOwn, Qiclose
  <2>3. SlotInv(s)'
    BY <1>0, <2>1, <2>2 DEF SlotInv, ThreadInv, SocketInv, AnswerInv, ConnectionInv, NoCall
  <2> QED
    BY <1>0, <2>1, <2>2, <2>3, OthersKeepSerial
<1> QED
  BY <1>0, <1>1, <1>2

(* The steps of a sendto, which goes straight to AT+QISEND; the steps of   *)
(* UDP sockets are not taken.                                              *)
LEMMA SerialSend ==
    ASSUME TypeOK, SerialInv, NEW s \in Slots,
           \/ UdpDecide(s) \/ CloseImpl(s) \/ Created(s)
           \/ SendLock(s) \/ SendReclose(s) \/ Qisend(s)
    PROVE  SerialInv'
<1>0. /\ call[s] # NoCall /\ call[s].op = "send" /\ SlotInv(s) /\ CallType
      /\ SendLock(s) \/ Qisend(s)
  <2>0. call[s].pc # "idle"
    BY DEF UdpDecide, CloseImpl, Created, SendLock, SendReclose, Qisend
  <2>1. call[s] # NoCall /\ SlotInv(s) /\ CallType
    BY <2>0, TypeParts DEF SerialInv, NoCall
  <2>2. call[s].pc \notin {"closeImpl", "created", "reclose"}
    BY <2>1 DEF SlotInv, ThreadInv
  <2>3. call[s].pc = "decide" => Connecting(s)
    BY <2>1 DEF SlotInv, ThreadInv, Connecting
  <2>4. SendLock(s) \/ Qisend(s)
    BY <2>2, <2>3 DEF UdpDecide, CloseImpl, Created, SendReclose
  <2>5. call[s].op = "send"
    BY <2>1, <2>4 DEF SendLock, Qisend, SlotInv, ThreadInv
  <2> QED
    BY <2>1, <2>4, <2>5
<1> "send" \in Pcs
  BY DEF Pcs, Commanding
<1>1. Silent
  BY <1>0, SilentElsewhere DEF SendLock, Qisend, Asking
<1>2. LineInv' /\ urcs' = urcs /\ modem' = modem /\ socket' = socket
  BY <1>0, <1>1, SilentKept DEF SendLock, Qisend, modemVars
<1>3. /\ \/ call'[s].pc = "send" /\ call'[s].op = "send" /\ call'[s].family = call[s].family
         \/ call'[s] = NoCall
      /\ \A t \in Slots \ {s} : call'[t] = call[t]
      /\ ipVersion' \in {ipVersion, "IPv4"}
  <2>1. CASE SendLock(s)
    <3>1. ipVersion = "IPv4" /\ call[s].family = "IPv4"
      BY <1>0 DEF SlotInv, ThreadInv, SocketInv
    <3>2. Goto(s, "send") /\ ipVersion' = "IPv4"
      BY <2>1, <3>1 DEF SendLock
    <3> QED
      BY <1>0, <3>2, GotoType DEF Goto, CallType, Calls
  <2>2. CASE Qisend(s)
    BY <1>0, <2>2, ReturnType DEF Qisend
  <2> QED
    BY <1>0, <2>1, <2>2
<1>4. modem[s] # "opening"
  BY <1>0 DEF SlotInv, ThreadInv, AnswerInv, Asking
<1>5. SlotInv(s)'
  BY <1>0, <1>2, <1>3, <1>4
  DEF SlotInv, ThreadInv, SocketInv, AnswerInv, ConnectionInv, Dropped, NoCall
<1> QED
  BY <1>0, <1>2, <1>3, <1>5, OthersKeepSerial

(* A call starts alone.                                                    *)
LEMMA SerialCalls ==
    ASSUME SerialTcp, TypeOK, SerialInv, NEW s \in Slots, Call(s)
    PROVE  SerialInv'
<1>0. /\ Idle(s)
      /\ socket \in [Slots -> [proto : {"none", "UDP", "TCP"}, id : Ids,
                               connected : BOOLEAN, closed : BOOLEAN]]
      /\ modem \in [Slots -> {"free", "opening", "open", "dead"}] /\ CallType
  BY TypeParts DEF Call, SocketOpen, SocketClose, SocketConnect, SocketRecvfrom, SocketSendto, StateType
<1>1. /\ \A t \in Slots : call[t] = NoCall
      /\ \A t \in Slots : SlotInv(t)
      /\ Silent
  BY <1>0, AloneWhenIdle, SilentWithoutCall DEF SerialInv
<1>2. \A t \in Slots : modem[t] # "opening"
  BY <1>1 DEF SlotInv, AnswerInv, Asking, NoCall
<1>3. /\ urcs' = urcs /\ urc' = urc /\ ipVersion' = ipVersion
      /\ \A t \in Slots \ {s} : /\ call'[t] = call[t] /\ socket'[t] = socket[t]
                               /\ modem'[t] = modem[t]
  <2>1. ASSUME NEW fam \in Families, SocketSendto(s, fam)
        PROVE  ipVersion' = ipVersion
    BY <1>1, <2>1, NamesAssumption DEF SocketSendto, SlotInv, SocketInv
  <2>2. ASSUME NEW t \in Slots \ {s} PROVE modem'[t] = modem[t]
    <3>1. CASE SocketClose(s)
      BY <1>0, <1>1, <3>1 DEF SocketClose, Qiclose, SlotInv, SocketInv
    <3> QED
      BY <3>1 DEF Call, SocketOpen, SocketConnect, SocketSendto, SocketRecvfrom, modemVars
  <2>3. ASSUME NEW t \in Slots \ {s} PROVE socket'[t] = socket[t] /\ call'[t] = call[t]
    BY <1>0 DEF Call, SocketOpen, SocketClose, SocketConnect, SocketSendto, SocketRecvfrom,
       Start, CallType
  <2>4. urcs' = urcs /\ urc' = urc
    BY DEF Call, SocketOpen, SocketClose, SocketConnect, SocketSendto, SocketRecvfrom, modemVars
  <2>5. ipVersion' = ipVersion
    BY <2>1 DEF Call, SocketOpen, SocketClose, SocketConnect, SocketRecvfrom
  <2> QED
    BY <2>2, <2>3, <2>4, <2>5
<1>4. LineInv'
  BY <1>1, <1>3, SilentKept
<1>5. SlotInv(s)'
  <2> USE DEF SlotInv, ThreadInv, SocketInv, AnswerInv, ConnectionInv
  <2>1. ASSUME NEW proto \in Protocols[s], SocketOpen(s, proto)
        PROVE  SlotInv(s)'
    <3>1. proto = "TCP"
      BY DEF SerialTcp
    <3> QED
      BY <1>0, <1>1, <1>2, <2>1, <3>1 DEF SocketOpen, Free, NoCall, modemVars
  <2>2. CASE SocketClose(s)
    <3>1. socket'[s] = Free /\ call'[s] = NoCall
      BY <1>0, <1>1, <2>2 DEF SocketClose
    <3>2. modem'[s] = "free"
      BY <1>0, <1>1, <2>2, NamesAssumption DEF SocketClose, Qiclose, NoCall
    <3> QED
      BY <3>1, <3>2 DEF Free, NoCall
  <2>3. CASE SocketConnect(s)
    <3>1. call'[s].pc = "clear" /\ call'[s].op = "connect"
      BY <1>0, <2>3, StartType DEF SocketConnect, Pcs
    <3> QED
      BY <1>1, <1>2, <2>3, <3>1 DEF SocketConnect, NoCall, modemVars
  <2>4. ~SocketRecvfrom(s)
    BY <1>1 DEF SocketRecvfrom
  <2>5. ASSUME NEW fam \in Families, SocketSendto(s, fam)
        PROVE  SlotInv(s)'
    <3>1. fam = "IPv4" /\ socket[s].connected /\ socket[s].id # NoId
      BY <1>1, <2>5, NamesAssumption DEF SerialTcp, SocketSendto
    <3>2. call'[s].pc = "lock" /\ call'[s].op = "send" /\ call'[s].family = "IPv4"
      BY <1>0, <2>5, <3>1 DEF SocketSendto, NoCall, CallType
    <3> QED
      BY <1>1, <1>2, <1>3, <2>5, <3>1, <3>2 DEF SocketSendto, NoCall, Dropped, modemVars
  <2> QED
    BY <2>1, <2>2, <2>3, <2>4, <2>5 DEF Call
<1>6. \A t \in Slots \ {s} : SlotInv(t)'
  BY <1>1, <1>2, <1>3 DEF SlotInv, ThreadInv, SocketInv, AnswerInv, ConnectionInv, Dropped, NoCall
<1>7. OneCall'
  BY <1>1, <1>3 DEF OneCall
<1> QED
  BY <1>4, <1>5, <1>6, <1>7 DEF SerialInv

(* close_all_sockets() closes every connection of a socket that has one.   *)
LEMMA SerialCloseAll ==
    ASSUME TypeOK, SerialInv, CloseAllSockets
    PROVE  SerialInv'
<1>1. /\ \A t \in Slots : call[t] = NoCall /\ call'[t] = NoCall
      /\ \A t \in Slots : SlotInv(t)
  BY DEF CloseAllSockets, SerialInv
<1>2. Silent
  BY <1>1, SilentWithoutCall
<1>3. LineInv' /\ urcs' = urcs /\ ipVersion' = ipVersion
  BY <1>2, SilentKept DEF CloseAllSockets
<1>4. ASSUME NEW t \in Slots PROVE SlotInv(t)'
  <2>1. modem'[t] \in {"free", modem[t]} /\ modem[t] # "opening"
    BY <1>1 DEF CloseAllSockets, SlotInv, AnswerInv, Asking, NoCall
  <2>2. Tracked(t) /\ socket[t].connected => modem'[t] = "free"
    BY <1>1 DEF CloseAllSockets, SlotInv, SocketInv
  <2>3. socket'[t] = IF Tracked(t) THEN Free ELSE socket[t]
    BY DEF CloseAllSockets
  <2>4. ConnectionInv(t)'
    <3>1. CASE Tracked(t)
      BY <1>1, <2>1, <2>2, <2>3, <3>1 DEF SlotInv, ConnectionInv, Free, NoCall, TypeOK
    <3>2. CASE ~Tracked(t)
      BY <1>1, <2>1, <2>3, <3>2 DEF SlotInv, SocketInv, ConnectionInv, Tracked, NoCall, TypeOK
    <3> QED
      BY <3>1, <3>2
  <2>5. ThreadInv(t)' /\ SocketInv(t)' /\ AnswerInv(t)'
    BY <1>1, <1>3, <2>1, <2>3 DEF SlotInv, ThreadInv, SocketInv, AnswerInv, Free, NoCall
  <2> QED
    BY <2>4, <2>5 DEF SlotInv
<1> QED
  BY <1>1, <1>3, <1>4 DEF SerialInv, OneCall

(* The modem answers what it was asked, and drops what is connected.       *)
LEMMA SerialModem ==
    ASSUME SerialTcp, TypeOK, SerialInv, Modem
    PROVE  SerialInv'
<1>0. /\ urcs \in Seq(Msg) /\ modem \in [Slots -> {"free", "opening", "open", "dead"}]
      /\ \A t \in Slots : SlotInv(t)
  BY DEF TypeOK, SerialInv
<1>1. ASSUME NEW m \in Slots, ModemAnswer(m)
      PROVE  SerialInv'
  <2>1. PICK r \in {"ok", "fail", "bind"} :
          /\ modem' = [modem EXCEPT ![m] =
               CASE r = "ok" -> "open" [] r = "fail" -> "dead" [] r = "bind" -> "free"]
          /\ urcs' = Append(urcs, [type |-> "open", id |-> m, result |-> r])
    BY <1>1 DEF ModemAnswer
  <2>2. UNCHANGED <<socket, ipVersion, connFlag, lastId, lastErr, urc, call>>
    BY <1>1 DEF ModemAnswer, answerVars
  <2>3. /\ call[m].pc \in Asking /\ Silent
        /\ call[m].pc = "wait" => ~connFlag
    BY <1>0, <1>1 DEF ModemAnswer, SlotInv, AnswerInv
  <2>4. /\ Len(urcs') = Len(urcs) + 1 /\ urcs'[Len(urcs) + 1] = [type |-> "open", id |-> m, result |-> r]
        /\ \A i \in 1..Len(urcs) : urcs'[i] = urcs[i]
    BY <1>0, <2>1, AppendProperties, LenProperties DEF Msg, Results
  <2>5. Answers' = {Len(urcs) + 1} /\ urc' = NoMsg
    BY <1>0, <2>2, <2>3, <2>4, LenProperties DEF Answers, Silent
  <2>6. Underway(m, r)'
    BY <1>0, <2>1, <2>2, <2>3 DEF Underway, Answered
  <2>7. LineInv'
    BY <2>4, <2>5, <2>6 DEF LineInv
  <2>8. ASSUME NEW t \in Slots PROVE SlotInv(t)'
    <3>1. Dropped(t) => Dropped(t)'
      BY <1>0, <2>4, LenProperties DEF Dropped
    <3>2. CASE t = m
      BY <1>0, <1>1, <2>1, <2>2, <2>3, <3>1, <3>2
      DEF ModemAnswer, SlotInv, ThreadInv, SocketInv, AnswerInv, ConnectionInv, Asking
    <3>3. CASE t # m
      <4>1. call[t] = NoCall /\ modem'[t] = modem[t]
        BY <1>0, <2>1, <2>3, <3>3 DEF SerialInv, OneCall, Asking, NoCall
      <4> QED
        BY <1>0, <2>2, <3>1, <4>1
        DEF SlotInv, ThreadInv, SocketInv, AnswerInv, ConnectionInv, Asking, NoCall
    <3> QED
      BY <3>2, <3>3
  <2> QED
    BY <2>2, <2>7, <2>8 DEF SerialInv, OneCall
<1>2. ASSUME NEW m \in Slots, ModemDrop(m)
      PROVE  SerialInv'
  <2>1. UNCHANGED <<socket, ipVersion, connFlag, lastId, lastErr, urc, call>>
    BY <1>2 DEF ModemDrop, answerVars
  <2>2. modem[m] = "open" /\ (EarlyClose \/ call[m].pc \in {"idle", "lock", "send"})
    BY <1>0, <1>2, NamesAssumption DEF ModemDrop, SlotInv, ThreadInv, SocketInv, NoCall
  <2>3. /\ Len(urcs') = Len(urcs) + 1
        /\ urcs'[Len(urcs) + 1] = [type |-> "closed", id |-> m, result |-> "none"]
        /\ \A i \in 1..Len(urcs) : urcs'[i] = urcs[i]
    BY <1>0, <1>2, AppendProperties, LenProperties DEF ModemDrop, Msg, Results
  <2>4. Answers' = Answers
    BY <1>0, <2>3, LenProperties DEF Answers
  <2>5. modem'[m] = "dead" /\ \A t \in Slots \ {m} : modem'[t] = modem[t]
    BY <1>0, <1>2 DEF ModemDrop
  <2>11. ASSUME NEW t \in Slots, NEW r, Answered(t, r), t = m => EarlyClose
         PROVE  Answered(t, r)'
    BY <2>2, <2>5, <2>11 DEF Answered
  <2>6. ASSUME NEW t, NEW r, Underway(t, r) PROVE Underway(t, r)'
    BY <2>1, <2>2, <2>6, <2>11 DEF Underway, Asking
  <2>7. LineInv'
    BY <2>1, <2>3, <2>4, <2>6 DEF SerialInv, LineInv, Answers
  <2>8. Dropped(m)' /\ \A t \in Slots : Dropped(t) => Dropped(t)'
    BY <1>0, <2>3, LenProperties DEF Dropped
  <2>9. Silent => Silent'
    BY <2>1, <2>4 DEF Silent
  <2>10. ASSUME NEW t \in Slots PROVE SlotInv(t)'
    <3>1. AnswerInv(t)'
      <4>1. modem'[t] = "opening" => modem[t] = "opening"
        BY <2>5
      <4> QED
        BY <1>0, <2>1, <2>2, <2>9, <2>11, <4>1 DEF SlotInv, AnswerInv
    <3>2. ConnectionInv(t)'
      BY <1>0, <2>1, <2>2, <2>5, <2>8 DEF SlotInv, ConnectionInv
    <3> QED
      BY <1>0, <2>1, <3>1, <3>2 DEF SlotInv, ThreadInv, SocketInv
  <2> QED
    BY <2>1, <2>7, <2>10 DEF SerialInv, OneCall
<1> QED
  BY <1>1, <1>2 DEF Modem

(* The handlers store an answer in two steps, and take a drop off the line *)
(* by marking its socket.                                                  *)
LEMMA SerialHandleUrc ==
    ASSUME TypeOK, SerialInv, HandleUrc
    PROVE  SerialInv'
<1>0. /\ urcs \in Seq(Msg) /\ \A t \in Slots : SlotInv(t)
      /\ socket \in [Slots -> [proto : {"none", "UDP", "TCP"}, id : Ids,
                               connected : BOOLEAN, closed : BOOLEAN]]
      /\ NoId \notin Slots
  BY NamesAssumption DEF TypeOK, SerialInv
<1>1. CASE UrcOpenErr
  <2>1. /\ Underway(urc.id, urc.result) /\ lastId = urc.id /\ Answers = {} /\ urc # NoMsg
    BY <1>1 DEF UrcOpenErr, SerialInv, LineInv
  <2>2. /\ lastErr' = urc.result /\ connFlag' = TRUE /\ urc' = NoMsg
        /\ UNCHANGED <<socket, ipVersion, lastId, call, modem, urcs>>
    BY <1>1 DEF UrcOpenErr, modemVars
  <2>3. Silent' /\ LineInv'
    BY <2>1, <2>2 DEF Silent, LineInv, Answers
  <2>4. ASSUME NEW t \in Slots PROVE SlotInv(t)'
    <3>1. CASE t = urc.id
      BY <1>0, <2>1, <2>2, <2>3, <3>1
      DEF Underway, SlotInv, ThreadInv, SocketInv, AnswerInv, ConnectionInv, Dropped, Answered, Asking
    <3>2. CASE t # urc.id
      <4>1. call[t] = NoCall
        BY <2>1, <3>2 DEF Underway, SerialInv, OneCall, Asking, NoCall
      <4> QED
        BY <1>0, <2>2, <4>1
        DEF SlotInv, ThreadInv, SocketInv, AnswerInv, ConnectionInv, Dropped, Asking, NoCall
    <3> QED
      BY <3>1, <3>2
  <2> QED
    BY <2>2, <2>3, <2>4 DEF SerialInv, OneCall
<1>2. CASE UrcOpenId \/ UrcClosed
  <2>1. urcs # <<>> /\ urc = NoMsg /\ Len(urcs) \in Nat /\ Len(urcs) > 0
    BY <1>0, <1>2, LenProperties, EmptySeq DEF UrcOpenId, UrcClosed, CanHandle
  <2>2. /\ Head(urcs) = urcs[1] /\ urcs' = Tail(urcs) /\ Len(urcs') = Len(urcs) - 1
        /\ \A i \in 1..Len(urcs') : urcs'[i] = urcs[i + 1]
    BY <1>0, <1>2, <2>1, HeadTailProperties DEF UrcOpenId, UrcClosed
  <2>3. \A i \in Answers' : i + 1 \in Answers /\ urcs'[i] = urcs[i + 1]
    BY <2>1, <2>2 DEF Answers
  <2>4. ASSUME NEW t, Dropped(t), ~(urcs[1].type = "closed" /\ urcs[1].id = t) PROVE Dropped(t)'
    <3>1. PICK i \in 1..Len(urcs) : urcs[i].type = "closed" /\ urcs[i].id = t
      BY <2>4 DEF Dropped
    <3>2. i - 1 \in 1..Len(urcs') /\ urcs'[i - 1] = urcs[i]
      BY <2>1, <2>2, <2>4, <3>1
    <3> QED
      BY <3>1, <3>2 DEF Dropped
  <2>5. UNCHANGED <<ipVersion, connFlag, lastErr, call, modem>>
    BY <1>2 DEF UrcOpenId, UrcClosed, answerVars
  <2>6. CASE UrcOpenId
    <3>1. /\ 1 \in Answers /\ urc' = urcs[1] /\ lastId' = urcs[1].id /\ socket' = socket
      BY <2>1, <2>2, <2>6 DEF UrcOpenId, Answers
    <3>2. Underway(urcs[1].id, urcs[1].result) /\ \A j \in Answers : j = 1
      BY <3>1 DEF SerialInv, LineInv
    <3>3. Answers' = {}
      BY <2>1, <2>3, <3>2 DEF Answers
    <3>4. Underway(urc.id, urc.result)'
      BY <2>5, <3>1, <3>2 DEF Underway, Answered
    <3>5. LineInv'
      BY <3>1, <3>3, <3>4 DEF LineInv
    <3>6. ASSUME NEW t \in Slots PROVE SlotInv(t)'
      <4>1. Dropped(t) => Dropped(t)'
        BY <2>4, <3>1 DEF Answers
      <4>2. modem[t] # "opening"
        BY <1>0, <3>1 DEF SlotInv, AnswerInv, Silent
      <4>3. CASE t = urcs[1].id
        BY <1>0, <2>5, <3>1, <3>2, <4>1, <4>2, <4>3
        DEF Underway, SlotInv, ThreadInv, SocketInv, AnswerInv, ConnectionInv, Asking
      <4>4. CASE t # urcs[1].id
        <5>1. call[t] = NoCall
          BY <3>2, <4>4 DEF Underway, SerialInv, OneCall, Asking, NoCall
        <5> QED
          BY <1>0, <2>5, <3>1, <4>1, <4>2, <5>1
          DEF SlotInv, ThreadInv, SocketInv, AnswerInv, ConnectionInv, NoCall
      <4> QED
        BY <4>3, <4>4
    <3> QED
      BY <2>5, <3>5, <3>6 DEF SerialInv, OneCall
  <2>7. CASE UrcClosed
    <3>1. urc' = NoMsg /\ urc' = urc /\ lastId' = lastId
      BY <2>1, <2>7 DEF UrcClosed, answerVars
    <3>2. ASSUME NEW t, NEW r, Underway(t, r) PROVE Underway(t, r)'
      BY <2>5, <3>2 DEF Underway, Answered
    <3>3. LineInv'
      <4>1. ASSUME NEW i \in Answers'
            PROVE  Underway(urcs[i].id, urcs[i].result)' /\ \A j \in Answers' : i = j
        <5>1. i + 1 \in Answers /\ urcs'[i] = urcs[i + 1] /\ i \in Nat
          BY <2>3 DEF Answers
        <5>2. Underway(urcs[i + 1].id, urcs[i + 1].result) /\ \A j \in Answers : i + 1 = j
          BY <5>1 DEF SerialInv, LineInv
        <5>3. Underway(urcs[i].id, urcs[i].result)'
          BY <2>5, <5>1, <5>2 DEF Underway, Answered
        <5>4. ASSUME NEW j \in Answers' PROVE i = j
          <6>1. j + 1 \in Answers /\ j \in Nat
            BY <2>3 DEF Answers
          <6> QED
            BY <5>1, <5>2, <6>1
        <5> QED
          BY <5>3, <5>4
      <4> QED
        BY <3>1, <4>1 DEF LineInv
    <3>4. Silent => Silent'
      BY <2>3, <3>1 DEF Silent
    <3>5. ASSUME NEW t \in Slots PROVE SlotInv(t)'
      <4>1. /\ socket'[t].proto = socket[t].proto /\ socket'[t].id = socket[t].id
            /\ socket'[t].connected = socket[t].connected
            /\ socket[t].closed => socket'[t].closed
        BY <1>0, <2>7 DEF UrcClosed
      <4>2. socket[t].connected /\ urcs[1].id = t => socket'[t].closed
        BY <1>0, <2>2, <2>7 DEF UrcClosed, SlotInv, SocketInv
      <4>3. ConnectionInv(t)'
        BY <1>0, <2>4, <2>5, <4>1, <4>2 DEF SlotInv, ConnectionInv
      <4>4. ThreadInv(t)' /\ SocketInv(t)'
        BY <1>0, <2>5, <4>1 DEF SlotInv, ThreadInv, SocketInv
      <4>5. AnswerInv(t)'
        BY <1>0, <2>5, <3>1, <3>4 DEF SlotInv, AnswerInv, Answered
      <4> QED
        BY <4>3, <4>4, <4>5 DEF SlotInv
    <3> QED
      BY <2>5, <3>3, <3>5 DEF SerialInv, OneCall
  <2> QED
    BY <1>2, <2>6, <2>7
<1> QED
  BY <1>1, <1>2 DEF HandleUrc

-----------------------------------------------------------------------------
(* Theorems.                                                               *)

(* The initial state meets the invariant.                                  *)
LEMMA SerialInit == Init => SerialInv
<1> SUFFICES ASSUME Init PROVE SerialInv
  OBVIOUS
<1>1. Answers = {}
  BY EmptySeq DEF Init, Answers
<1> QED
  BY <1>1 DEF Init, SerialInv, OneCall, LineInv, SlotInv, ThreadInv, SocketInv, AnswerInv,
     ConnectionInv, Free, NoCall

(* Every step keeps it.                                                    *)
LEMMA SerialStep == SerialTcp /\ TypeOK /\ SerialInv /\ [Next]_vars => SerialInv'
<1> SUFFICES ASSUME SerialTcp, TypeOK, SerialInv, [Next]_vars PROVE SerialInv'
  OBVIOUS
<1>1. CASE UNCHANGED vars
  BY <1>1 DEF vars, answerVars, atVars, modemVars, SerialInv, OneCall, LineInv, Underway, SlotInv,
     ThreadInv, SocketInv, AnswerInv, ConnectionInv, Dropped, Answers, Silent, Answered
<1>2. ASSUME NEW s \in Slots, Step(s) PROVE SerialInv'
  BY <1>2, SerialAsk, SerialTake, SerialJudge, SerialSend DEF Step
<1> QED
  BY <1>1, <1>2, SerialCalls, SerialCloseAll, SerialModem, SerialHandleUrc DEF Next

(* The invariant holds throughout.                                         *)
LEMMA SerialInvariance == ASSUME SerialTcp PROVE Spec => []SerialInv
<1>1. Init => SerialInv
  BY SerialInit
<1>2. TypeOK /\ SerialInv /\ [Next]_vars => SerialInv'
  BY SerialStep
<1> QED
  BY <1>1, <1>2, TypeCorrect, PTL DEF Spec

(* A socket that reports a connection has one, once all URCs are handled.  *)
THEOREM ConnectionsAreOpen == ASSUME SerialTcp, ~EarlyClose PROVE Spec => []ConnectedIsOpen
<1>1. SerialInv => ConnectedIsOpen
  BY DEF SerialInv, SlotInv, ConnectionInv, ConnectedIsOpen, Quiet, Dropped
<1> QED
  BY <1>1, SerialInvariance, PTL

(* A connect() that fails, at whatever point and attempt, leaves nothing   *)
(* under its id in the modem.                                              *)
THEOREM FailedOpensAreClosed == ASSUME SerialTcp PROVE Spec => []FailedOpenIsClosed
<1>1. SerialInv => FailedOpenIsClosed
  BY NamesAssumption DEF SerialInv, SlotInv, SocketInv, ConnectionInv, FailedOpenIsClosed
<1> QED
  BY <1>1, SerialInvariance, PTL

(* No connect() takes the answer to an earlier, timed-out request for its  *)
(* own.                                                                    *)
THEOREM AnswersAreFresh == ASSUME SerialTcp PROVE Spec => []NoStaleAnswer
<1>1. SerialInv => NoStaleAnswer
  BY DEF SerialInv, SlotInv, AnswerInv, NoStaleAnswer
<1> QED
  BY <1>1, SerialInvariance, PTL

-----------------------------------------------------------------------------
(* With peers that close late, the stack implements TcpLink.               *)

(* A socket marked closed has had a connection and lost it, and a "closed" *)
(* URC on its way is for a connection that the driver reports as up.       *)
LostInv(s) ==
    /\ socket[s].closed => socket[s].connected /\ modem[s] # "open"
    /\ Dropped(s) => socket[s].connected /\ modem[s] = "dead"

LinkInv == SerialInv /\ \A s \in Slots : LostInv(s)

(* What a link shows of its thread and socket.                             *)
Shows(s) == <<Connecting(s), socket[s].connected, socket[s].closed>>

(* A step for slot s leaves the other links and connections alone.         *)
OnlyOf(s) == \A t \in Slots \ {s} : Shows(t)' = Shows(t) /\ modem'[t] = modem[t]

Unseen(s) == OnlyOf(s) /\ Shows(s)' = Shows(s) /\ modem'[s] = modem[s] /\ urcs' = urcs

Requested(s) ==
    /\ OnlyOf(s) /\ Shows(s)' = Shows(s) /\ Connecting(s)
    /\ modem[s] \in {"free", "dead"} /\ modem'[s] = "opening"
    /\ urcs = <<>> /\ urcs' = urcs

Connected(s) ==
    /\ OnlyOf(s) /\ Connecting(s) /\ ~socket[s].connected
    /\ Shows(s)' = <<FALSE, TRUE, socket[s].closed>>
    /\ modem[s] = "open" /\ modem'[s] = "open" /\ urcs' = urcs

GivenUp(s) ==
    /\ OnlyOf(s) /\ Connecting(s) /\ ~socket[s].connected
    /\ Shows(s)' = <<FALSE, FALSE, socket[s].closed>>
    /\ modem'[s] = "free" /\ (urcs = <<>> \/ modem[s] = "free") /\ urcs' = urcs

(* The steps of a call are each invisible or a step of connecting.         *)
LEMMA StepShows ==
    ASSUME ~EarlyClose, TypeOK, SerialInv, NEW s \in Slots, Step(s)
    PROVE  Unseen(s) \/ Requested(s) \/ Connected(s) \/ GivenUp(s)
<1> USE DEF Shows, Connecting, OnlyOf
<1>0. /\ call[s] # NoCall /\ SlotInv(s) /\ CallType
      /\ socket \in [Slots -> [proto : {"none", "UDP", "TCP"}, id : Ids,
                               connected : BOOLEAN, closed : BOOLEAN]]
      /\ modem \in [Slots -> {"free", "opening", "open", "dead"}]
      /\ NoCall.op = "none"
  <2>1. call[s].pc # "idle"
    BY DEF Step, ClearFlag, Qiopen, WaitAnswer, WaitTimeout, ReadId, ReadErr, ConnectDecide,
       CloseOwn, CloseOther, UdpDecide, CloseImpl, Created, SendLock, SendReclose, Qisend
  <2> QED
    BY <2>1, TypeParts DEF SerialInv, NoCall, StateType
<1> {"open", "wait", "readId", "closeOwn", "send"} \subseteq Pcs
  BY DEF Pcs, Commanding
<1>1. CASE ClearFlag(s) \/ WaitAnswer(s)
  BY <1>0, <1>1, GotoType DEF ClearFlag, WaitAnswer, Unseen, modemVars
<1>2. CASE WaitTimeout(s) \/ ReadId(s) \/ ReadErr(s)
  BY <1>0, <1>2 DEF WaitTimeout, ReadId, ReadErr, Unseen, CallType, Calls, modemVars
<1>3. CASE Qiopen(s)
  <2>1. call'[s].op = call[s].op /\ \A t \in Slots \ {s} : call'[t] = call[t]
    BY <1>0, <1>3, GotoType DEF Qiopen
  <2>2. call[s].op = "connect"
    BY <1>0, <1>3 DEF Qiopen, SlotInv, ThreadInv
  <2> QED
    BY <1>0, <1>3, <2>1, <2>2 DEF Qiopen, Command, Unseen, Requested
<1>4. CASE ConnectDecide(s)
  <2>1. call[s].modemId = s /\ Answered(s, call[s].err) /\ s # NoId /\ ~socket[s].connected
    BY <1>0, <1>4, NamesAssumption DEF ConnectDecide, SlotInv, ThreadInv, AnswerInv
  <2>2. modem' = modem /\ urcs' = urcs
    BY <1>4 DEF ConnectDecide, modemVars
  <2>3. CASE call[s].err = "bind"
    <3>1. Return(s) /\ socket' = [socket EXCEPT ![s].id = NoId]
      BY <1>4, <2>1, <2>3 DEF ConnectDecide, BindFailed
    <3>2. modem[s] = "free"
      BY <2>1, <2>3 DEF Answered
    <3>3. /\ socket'[s].connected = socket[s].connected /\ socket'[s].closed = socket[s].closed
          /\ \A t \in Slots \ {s} : socket'[t] = socket[t]
      BY <1>0, <3>1
    <3>4. call'[s] = NoCall /\ \A t \in Slots \ {s} : call'[t] = call[t]
      BY <1>0, <3>1, ReturnType
    <3>5. Connecting(s)
      BY <1>4 DEF ConnectDecide
    <3> QED
      BY <1>0, <2>1, <2>2, <3>2, <3>3, <3>4, <3>5 DEF GivenUp
  <2>4. CASE call[s].err = "ok"
    <3>1. Return(s) /\ socket' = [socket EXCEPT ![s].id = s, ![s].connected = TRUE]
      BY <1>4, <2>1, <2>4 DEF ConnectDecide, BindFailed
    <3>2. modem[s] = "open"
      BY <2>1, <2>4 DEF Answered
    <3> QED
      BY <1>0, <1>4, <2>1, <2>2, <3>1, <3>2, ReturnType DEF ConnectDecide, Connected
  <2>5. CASE call[s].err \notin {"bind", "ok"}
    <3>1. Retry(s, "closeOwn") /\ socket' = socket
      BY <1>4, <2>1, <2>5 DEF ConnectDecide, BindFailed
    <3> QED
      BY <1>0, <2>2, <3>1, RetryType DEF Unseen
  <2> QED
    BY <2>3, <2>4, <2>5
<1>5. CASE CloseOwn(s)
  <2>1. call[s].op = "connect" /\ ~socket[s].connected
    BY <1>0, <1>5 DEF CloseOwn, SlotInv, ThreadInv, NoCall
  <2> QED
    BY <1>0, <1>5, <2>1, ReturnType DEF CloseOwn, Qiclose, Command, GivenUp
<1>6. ~CloseOther(s)
  BY <1>0 DEF CloseOther, SlotInv, ThreadInv, NoCall
<1>7. CASE SendLock(s) \/ Qisend(s)
  <2>1. call[s].op = "send" /\ (SendLock(s) => ipVersion = "IPv4" /\ call[s].family = "IPv4")
    BY <1>0, <1>7 DEF SendLock, Qisend, SlotInv, ThreadInv, SocketInv
  <2>2. SendLock(s) => Goto(s, "send")
    BY <2>1 DEF SendLock
  <2> QED
    BY <1>0, <1>7, <2>1, <2>2, GotoType, ReturnType DEF SendLock, Qisend, Unseen, modemVars
<1>8. ~(UdpDecide(s) \/ CloseImpl(s) \/ Created(s) \/ SendReclose(s))
  <2>1. call[s].pc \notin {"closeImpl", "created", "reclose"}
    BY <1>0 DEF SlotInv, ThreadInv
  <2>2. call[s].pc = "decide" => Connecting(s)
    BY <1>0 DEF SlotInv, ThreadInv
  <2> QED
    BY <2>1, <2>2 DEF UdpDecide, CloseImpl, Created, SendReclose
<1> QED
  BY <1>1, <1>2, <1>3, <1>4, <1>5, <1>6, <1>7, <1>8 DEF Step

Started(s) ==
    /\ OnlyOf(s) /\ Shows(s) = <<FALSE, FALSE, socket[s].closed>>
    /\ Shows(s)' = <<TRUE, FALSE, socket[s].closed>>
    /\ modem'[s] = modem[s] /\ urcs' = urcs

Closed(s) ==
    /\ OnlyOf(s) /\ ~Connecting(s) /\ Shows(s)' = <<FALSE, FALSE, FALSE>>
    /\ socket[s].connected \/ modem[s] = "free"
    /\ modem'[s] = "free" /\ urcs = <<>> /\ urcs' = urcs

(* A call that starts begins to connect, closes, or is invisible.          *)
LEMMA CallShows ==
    ASSUME TypeOK, LinkInv, NEW s \in Slots, Call(s)
    PROVE  Unseen(s) \/ Started(s) \/ Closed(s)
<1> USE DEF Shows, Connecting, OnlyOf
<1>0. /\ call[s] = NoCall /\ SlotInv(s) /\ LostInv(s) /\ CallType
      /\ socket \in [Slots -> [proto : {"none", "UDP", "TCP"}, id : Ids,
                               connected : BOOLEAN, closed : BOOLEAN]]
      /\ modem \in [Slots -> {"free", "opening", "open", "dead"}]
      /\ NoCall.op = "none" /\ NoCall.pc = "idle"
  BY TypeParts DEF Call, SocketOpen, SocketClose, SocketConnect, SocketRecvfrom, SocketSendto,
     StateType, LinkInv, SerialInv, Idle, NoCall
<1>1. ASSUME NEW proto \in Protocols[s], SocketOpen(s, proto) PROVE Unseen(s)
  BY <1>0, <1>1 DEF SocketOpen, Free, Unseen, SlotInv, SocketInv, LostInv, modemVars
<1>2. CASE SocketClose(s)
  <2>1. socket[s].id = NoId \/ (socket[s].id = s /\ socket[s].connected)
    BY <1>0 DEF SlotInv, SocketInv
  <2>2. socket[s].id = NoId => ~socket[s].connected /\ modem[s] = "free"
    BY <1>0, NamesAssumption DEF SlotInv, SocketInv, ConnectionInv
  <2> QED
    BY <1>0, <1>2, <2>1, <2>2 DEF SocketClose, Qiclose, Command, Free, Closed
<1>3. CASE SocketConnect(s)
  <2>1. call'[s].op = "connect" /\ \A t \in Slots \ {s} : call'[t] = call[t]
    BY <1>0, <1>3, StartType DEF SocketConnect, Pcs
  <2> QED
    BY <1>0, <1>3, <2>1 DEF SocketConnect, Started, modemVars
<1>4. CASE SocketRecvfrom(s)
  BY <1>0, <1>4 DEF SocketRecvfrom, SlotInv, SocketInv
<1>5. ASSUME NEW fam \in Families, SocketSendto(s, fam) PROVE Unseen(s)
  <2>1. call'[s].op = "send" /\ \A t \in Slots \ {s} : call'[t] = call[t]
    BY <1>0, <1>5 DEF SocketSendto, CallType, NoCall
  <2> QED
    BY <1>0, <1>5, <2>1 DEF SocketSendto, Unseen, modemVars
<1> QED
  BY <1>1, <1>2, <1>3, <1>4, <1>5 DEF Call

(* A modem or URC handler that touches one connection.                     *)
Answering(s) ==
    /\ OnlyOf(s) /\ Shows(s)' = Shows(s) /\ Connecting(s) /\ ~socket[s].connected
    /\ modem[s] = "opening" /\ modem'[s] \in {"open", "dead", "free"}
    /\ \A t \in Slots : Dropped(t)' => Dropped(t)

Dropping(s) ==
    /\ OnlyOf(s) /\ Shows(s)' = Shows(s) /\ ~Connecting(s)
    /\ socket[s].connected /\ ~socket[s].closed
    /\ modem[s] = "open" /\ modem'[s] = "dead"
    /\ \A t \in Slots \ {s} : Dropped(t)' => Dropped(t)

Noticing(s) ==
    /\ OnlyOf(s) /\ ~Connecting(s) /\ socket[s].connected
    /\ Shows(s)' = <<FALSE, TRUE, TRUE>>
    /\ modem[s] = "dead" /\ modem'[s] = modem[s]
    /\ \A t \in Slots : Dropped(t)' => Dropped(t)

(* The modem answers a link that is connecting, and drops one that is up.  *)
LEMMA ModemShows ==
    ASSUME ~EarlyClose, TypeOK, LinkInv, NEW m \in Slots, ModemAnswer(m) \/ ModemDrop(m)
    PROVE  Answering(m) \/ Dropping(m)
<1>0. /\ urcs \in Seq(Msg) /\ modem \in [Slots -> {"free", "opening", "open", "dead"}]
      /\ SlotInv(m) /\ LostInv(m) /\ socket' = socket /\ call' = call
  BY DEF TypeOK, LinkInv, SerialInv, ModemAnswer, ModemDrop
<1>1. OnlyOf(m) /\ Shows(m)' = Shows(m)
  BY <1>0 DEF OnlyOf, Shows, Connecting, ModemAnswer, ModemDrop
<1>2. CASE ModemAnswer(m)
  <2>1. PICK r \in {"ok", "fail", "bind"} :
          /\ modem' = [modem EXCEPT ![m] =
               CASE r = "ok" -> "open" [] r = "fail" -> "dead" [] r = "bind" -> "free"]
          /\ urcs' = Append(urcs, [type |-> "open", id |-> m, result |-> r])
    BY <1>2 DEF ModemAnswer
  <2>2. modem'[m] \in {"open", "dead", "free"} /\ modem[m] = "opening"
    BY <1>0, <1>2, <2>1 DEF ModemAnswer
  <2>3. Connecting(m) /\ ~socket[m].connected
    BY <1>0, <2>2 DEF SlotInv, AnswerInv, ThreadInv, Connecting, Asking, NoCall
  <2>4. /\ Len(urcs') = Len(urcs) + 1 /\ urcs'[Len(urcs) + 1].type = "open"
        /\ \A i \in 1..Len(urcs) : urcs'[i] = urcs[i]
    BY <1>0, <2>1, AppendProperties, LenProperties DEF Msg, Results
  <2>5. \A t \in Slots : Dropped(t)' => Dropped(t)
    BY <1>0, <2>4, LenProperties DEF Dropped
  <2> QED
    BY <1>1, <2>2, <2>3, <2>5 DEF Answering
<1>3. CASE ModemDrop(m)
  <2>1. modem[m] = "open" /\ modem'[m] = "dead" /\ socket[m].connected /\ ~socket[m].closed
    BY <1>0, <1>3, NamesAssumption DEF ModemDrop, SlotInv, SocketInv, LostInv
  <2>2. ~Connecting(m)
    BY <1>0, <2>1 DEF SlotInv, ThreadInv, Connecting
  <2>4. /\ Len(urcs') = Len(urcs) + 1 /\ urcs'[Len(urcs) + 1].id = m
        /\ \A i \in 1..Len(urcs) : urcs'[i] = urcs[i]
    BY <1>0, <1>3, AppendProperties, LenProperties DEF ModemDrop, Msg, Results
  <2>5. \A t \in Slots \ {m} : Dropped(t)' => Dropped(t)
    BY <1>0, <2>4, LenProperties DEF Dropped
  <2> QED
    BY <1>1, <2>1, <2>2, <2>5 DEF Dropping
<1> QED
  BY <1>2, <1>3

(* The handlers are invisible but for the first "closed" URC of a link.    *)
LEMMA HandleUrcShows ==
    ASSUME TypeOK, LinkInv, HandleUrc
    PROVE  \/ UNCHANGED modem /\ \A t \in Slots : Shows(t)' = Shows(t) /\ (Dropped(t)' => Dropped(t))
           \/ \E m \in Slots : Noticing(m)
<1>0. /\ urcs \in Seq(Msg) /\ modem' = modem /\ call' = call
      /\ socket \in [Slots -> [proto : {"none", "UDP", "TCP"}, id : Ids,
                               connected : BOOLEAN, closed : BOOLEAN]]
  BY DEF TypeOK, HandleUrc, UrcOpenId, UrcOpenErr, UrcClosed, modemVars
<1>1. \A t \in Slots : Dropped(t)' => Dropped(t)
  <2>1. CASE UrcOpenErr
    BY <2>1 DEF UrcOpenErr, modemVars, Dropped
  <2>2. CASE UrcOpenId \/ UrcClosed
    <3>1. urcs # <<>> /\ Len(urcs) \in Nat /\ Len(urcs) > 0
      BY <1>0, <2>2, LenProperties, EmptySeq DEF UrcOpenId, UrcClosed, CanHandle
    <3>2. /\ Len(urcs') = Len(urcs) - 1
          /\ \A i \in 1..Len(urcs') : urcs'[i] = urcs[i + 1]
      BY <1>0, <2>2, <3>1, HeadTailProperties DEF UrcOpenId, UrcClosed
    <3> QED
      BY <3>1, <3>2 DEF Dropped
  <2> QED
    BY <2>1, <2>2 DEF HandleUrc
<1>2. CASE UrcOpenId \/ UrcOpenErr
  BY <1>0, <1>1, <1>2 DEF UrcOpenId, UrcOpenErr, Shows, Connecting
<1>3. CASE UrcClosed
  <2>1. PICK m \in Slots : m = Head(urcs).id /\ Dropped(m)
    <3>1. urcs # <<>> /\ Len(urcs) \in Nat /\ Len(urcs) > 0 /\ Head(urcs) = urcs[1]
      BY <1>0, <1>3, LenProperties, EmptySeq, HeadTailProperties DEF UrcClosed, CanHandle
    <3>2. urcs[1] \in Msg /\ urcs[1].type = "closed"
      BY <1>0, <1>3, <3>1, ElementOfSeq DEF UrcClosed
    <3> QED
      BY <3>1, <3>2 DEF Dropped, Msg
  <2>2. /\ socket[m].connected /\ modem[m] = "dead" /\ socket[m].proto = "TCP"
        /\ socket[m].id = m /\ call[m].op # "connect"
    BY <2>1 DEF LinkInv, LostInv, SerialInv, SlotInv, SocketInv, ThreadInv
  <2>3. /\ socket'[m].connected = socket[m].connected /\ socket'[m].closed
        /\ \A t \in Slots \ {m} : socket'[t] = socket[t]
    <3>1. \A t \in Slots \ {m} : socket[t].id # m
      BY NamesAssumption DEF LinkInv, SerialInv, SlotInv, SocketInv
    <3> QED
      BY <1>0, <1>3, <2>1, <2>2, <3>1 DEF UrcClosed
  <2>4. socket'[m].connected /\ socket'[m].closed = TRUE /\ socket[m].connected = TRUE
    <3>1. socket'[m] = [socket[m] EXCEPT !.closed = TRUE]
      BY <1>0, <1>3, <2>1, <2>2 DEF UrcClosed
    <3> QED
      BY <1>0, <2>2, <3>1
  <2> QED
    BY <1>0, <1>1, <2>2, <2>3, <2>4 DEF Noticing, OnlyOf, Shows, Connecting
<1> QED
  BY <1>2, <1>3 DEF HandleUrc

(* A shutdown takes down every link that is up and leaves the lost ones.   *)
LEMMA CloseAllShows ==
    ASSUME TypeOK, LinkInv, CloseAllSockets, NEW t \in Slots
    PROVE  /\ ~Connecting(t) /\ urcs' = <<>>
           /\ \/ Shows(t) = <<FALSE, TRUE, TRUE>> /\ Shows(t)' = Shows(t)
                 /\ modem'[t] \in {"free", modem[t]}
              \/ Shows(t) # <<FALSE, TRUE, TRUE>> /\ Shows(t)' = <<FALSE, FALSE, FALSE>>
                 /\ modem'[t] = "free"
<1>0. /\ call[t] = NoCall /\ call'[t] = NoCall /\ NoCall.op = "none" /\ NoCall.pc = "idle"
      /\ urcs' = <<>> /\ SlotInv(t) /\ LostInv(t)
      /\ socket[t].connected \in BOOLEAN /\ socket[t].closed \in BOOLEAN
      /\ socket'[t] = IF Tracked(t) THEN Free ELSE socket[t]
      /\ modem'[t] \in {"free", modem[t]}
      /\ Tracked(t) /\ socket[t].id = t => modem'[t] = "free"
  BY DEF CloseAllSockets, Command, LinkInv, SerialInv, TypeOK, NoCall
<1>1. CASE Tracked(t)
  <2>1. modem'[t] = "free"
    BY <1>0, <1>1 DEF SlotInv, SocketInv, ConnectionInv
  <2>2. ~socket[t].closed /\ socket'[t].connected = FALSE /\ socket'[t].closed = FALSE
    BY <1>0, <1>1 DEF Tracked, Free
  <2> QED
    BY <1>0, <2>1, <2>2 DEF Shows, Connecting
<1>2. CASE ~Tracked(t) /\ socket[t].closed
  BY <1>0, <1>2 DEF LostInv, Shows, Connecting
<1>3. CASE ~Tracked(t) /\ ~socket[t].closed
  BY <1>0, <1>3 DEF Tracked, SlotInv, SocketInv, ConnectionInv, Shows, Connecting
<1> QED
  BY <1>1, <1>2, <1>3

(* A step for one slot keeps what the invariant says of the others.        *)
LEMMA OthersKeepLost ==
    ASSUME LinkInv, NEW s \in Slots, OnlyOf(s), LostInv(s)',
           \A t \in Slots \ {s} : Dropped(t)' => Dropped(t)
    PROVE  \A t \in Slots : LostInv(t)'
BY DEF LinkInv, LostInv, OnlyOf, Shows

(* Every step keeps the invariant.                                         *)
LEMMA LinkStep == SerialTcp /\ ~EarlyClose /\ TypeOK /\ LinkInv /\ [Next]_vars => LinkInv'
<1> SUFFICES ASSUME SerialTcp, ~EarlyClose, TypeOK, LinkInv, [Next]_vars PROVE LinkInv'
  OBVIOUS
<1>0. SerialInv'
  BY SerialStep DEF LinkInv
<1> SUFFICES ASSUME NEW r \in Slots PROVE LostInv(r)'
  BY <1>0 DEF LinkInv
<1> USE DEF LostInv, Shows
<1>1. CASE UNCHANGED vars
  BY <1>1 DEF vars, modemVars, LinkInv, Dropped
<1>2. ASSUME NEW s \in Slots, Step(s) \/ Call(s) PROVE LostInv(r)'
  <2>1. \/ Unseen(s) \/ Requested(s) \/ Connected(s) \/ GivenUp(s)
        \/ Started(s) \/ Closed(s)
    BY <1>2, StepShows, CallShows DEF LinkInv
  <2>2. OnlyOf(s) /\ urcs' = urcs
    BY <2>1 DEF Unseen, Requested, Connected, GivenUp, Started, Closed
  <2>3. \A t \in Slots : (Dropped(t)' => Dropped(t)) /\ (urcs = <<>> => ~Dropped(t))
    BY <2>2, EmptySeq DEF Dropped
  <2>4. LostInv(s)'
    BY <2>1, <2>3 DEF Unseen, Requested, Connected, GivenUp, Started, Closed, LinkInv
  <2> QED
    BY <2>2, <2>3, <2>4, OthersKeepLost
<1>3. CASE CloseAllSockets
  <2>1. ~Dropped(r)'
    <3>1. urcs' = <<>>
      BY <1>3, CloseAllShows
    <3> QED
      BY <3>1, EmptySeq DEF Dropped
  <2> QED
    BY <1>3, <2>1, CloseAllShows DEF LinkInv
<1>4. CASE HandleUrc
  <2>1. ASSUME NEW m \in Slots, Noticing(m) PROVE LostInv(r)'
    <3>1. LostInv(m)'
      BY <2>1 DEF Noticing, LinkInv
    <3> QED
      BY <2>1, <3>1, OthersKeepLost DEF Noticing
  <2> QED
    BY <1>4, <2>1, HandleUrcShows DEF LinkInv
<1>5. CASE Modem
  <2>1. PICK m \in Slots : Answering(m) \/ Dropping(m)
    BY <1>5, ModemShows DEF Modem
  <2>2. LostInv(m)'
    BY <2>1 DEF Answering, Dropping, LinkInv
  <2> QED
    BY <2>1, <2>2, OthersKeepLost DEF Answering, Dropping
<1> QED
  BY <1>1, <1>2, <1>3, <1>4, <1>5 DEF Next

(* A step for one slot changes at most that link and its connection.       *)
LEMMA OneLink ==
    ASSUME TypeOK, TypeOK', NEW s \in Slots, OnlyOf(s)
    PROVE  /\ Links' = [Links EXCEPT ![s] = LinkState(s)']
           /\ modem' = [modem EXCEPT ![s] = modem'[s]]
<1>1. \A t \in Slots \ {s} : LinkState(t)' = LinkState(t)
  BY DEF OnlyOf, Shows, LinkState
<1>2. Links' = [Links EXCEPT ![s] = LinkState(s)']
  BY <1>1 DEF Links
<1> QED
  BY <1>2 DEF OnlyOf, TypeOK

(* The steps for one slot are steps of its link.                           *)
LEMMA SlotStepImplements ==
    ASSUME TypeOK, TypeOK', LinkInv, NEW s \in Slots,
           \/ Unseen(s) \/ Requested(s) \/ Connected(s) \/ GivenUp(s) \/ Started(s) \/ Closed(s)
           \/ Answering(s) \/ Dropping(s) \/ Noticing(s)
    PROVE  [Link!Next]_Link!vars
<1>0. /\ OnlyOf(s) /\ Links[s] = LinkState(s) /\ LostInv(s) /\ SlotInv(s)
      /\ Links = [Links EXCEPT ![s] = Links[s]] /\ modem = [modem EXCEPT ![s] = modem[s]]
      /\ Links' = [Links EXCEPT ![s] = LinkState(s)']
      /\ modem' = [modem EXCEPT ![s] = modem'[s]]
      /\ socket[s].connected \in BOOLEAN /\ socket[s].closed \in BOOLEAN
  <2>1. OnlyOf(s)
    BY DEF Unseen, Requested, Connected, GivenUp, Started, Closed, Answering, Dropping, Noticing
  <2> QED
    BY <2>1, OneLink DEF Links, LinkInv, SerialInv, TypeOK
<1> USE DEF Shows, LinkState
<1>1. CASE Unseen(s)
  <2>1. LinkState(s)' = LinkState(s)
    BY <1>1 DEF Unseen
  <2> QED
    BY <1>0, <1>1, <2>1 DEF Unseen, Link!vars
<1>2. CASE Requested(s)
  <2>1. LinkState(s) = "connecting" /\ LinkState(s)' = "connecting"
    BY <1>2 DEF Requested
  <2> QED
    BY <1>0, <1>2, <2>1 DEF Requested, Link!Request, Link!Next
<1>3. CASE Connected(s)
  <2>1. LinkState(s) = "connecting" /\ LinkState(s)' = "up"
    BY <1>0, <1>3 DEF Connected, LostInv
  <2> QED
    <3>1. modem' = modem /\ modem[s] = "open"
      BY <1>0, <1>3 DEF Connected
    <3> QED
      BY <1>0, <2>1, <3>1 DEF Link!Establish, Link!Next
<1>4. CASE GivenUp(s)
  <2>1. LinkState(s) = "connecting" /\ LinkState(s)' = "down"
    BY <1>0, <1>4 DEF GivenUp
  <2> QED
    BY <1>0, <1>4, <2>1 DEF GivenUp, Link!GiveUp, Link!Next
<1>5. CASE Started(s)
  <2>1. LinkState(s) = "down" /\ LinkState(s)' = "connecting"
    BY <1>0, <1>5 DEF Started
  <2> QED
    BY <1>0, <1>5, <2>1 DEF Started, Link!Connect, Link!Next
<1>6. CASE Closed(s)
  <2>1. LinkState(s)' = "down"
    BY <1>6 DEF Closed
  <2>2. CASE socket[s].connected
    <3>1. LinkState(s) \in {"up", "lost"}
      BY <1>0, <1>6, <2>2 DEF Closed
    <3> QED
      BY <1>0, <1>6, <2>1, <3>1 DEF Closed, Link!Close, Link!Next
  <2>3. CASE ~socket[s].connected
    <3>1. LinkState(s) = "down" /\ modem[s] = "free"
      BY <1>0, <1>6, <2>3 DEF Closed
    <3> QED
      BY <1>0, <1>6, <2>1, <3>1 DEF Closed, Link!vars
  <2> QED
    BY <2>2, <2>3
<1>7. CASE Answering(s)
  <2>1. LinkState(s) = "connecting" /\ LinkState(s)' = "connecting"
    BY <1>7 DEF Answering
  <2> QED
    BY <1>0, <1>7, <2>1 DEF Answering, Link!Answer, Link!Next
<1>8. CASE Dropping(s)
  <2>1. LinkState(s) = "up" /\ LinkState(s)' = "up"
    BY <1>8 DEF Dropping
  <2> QED
    BY <1>0, <1>8, <2>1 DEF Dropping, Link!Drop, Link!Next
<1>9. CASE Noticing(s)
  <2>1. LinkState(s)' = "lost"
    BY <1>9 DEF Noticing
  <2>2. CASE socket[s].closed
    <3>1. LinkState(s) = "lost"
      BY <1>9, <2>2 DEF Noticing
    <3> QED
      BY <1>0, <1>9, <2>1, <3>1 DEF Noticing, Link!vars
  <2>3. CASE ~socket[s].closed
    <3>1. LinkState(s) = "up"
      BY <1>9, <2>3 DEF Noticing
    <3> QED
      BY <1>0, <1>9, <2>1, <3>1 DEF Noticing, Link!Notice, Link!Next
  <2> QED
    BY <2>2, <2>3
<1> QED
  BY <1>1, <1>2, <1>3, <1>4, <1>5, <1>6, <1>7, <1>8, <1>9

(* A shutdown of the stack is one of all links.                            *)
LEMMA ShutdownImplements ==
    ASSUME TypeOK, TypeOK', LinkInv, CloseAllSockets
    PROVE  Link!Shutdown
<1> DEFINE kept == {s \in Slots : Links[s] = "lost" /\ modem'[s] = modem[s]}
<1>1. ASSUME NEW t \in Slots
      PROVE  /\ LinkState(t) # "connecting"
             /\ LinkState(t)' = IF LinkState(t) = "lost" THEN "lost" ELSE "down"
             /\ modem'[t] \in {"free", modem[t]} /\ (LinkState(t) # "lost" => modem'[t] = "free")
  <2>1. /\ socket[t].connected \in BOOLEAN /\ socket[t].closed \in BOOLEAN
        /\ ~Connecting(t)
    BY CloseAllShows DEF TypeOK
  <2>2. CASE Shows(t) = <<FALSE, TRUE, TRUE>>
    <3>1. LinkState(t) = "lost" /\ LinkState(t)' = "lost"
      BY <2>2, CloseAllShows DEF Shows, LinkState
    <3> QED
      BY <2>2, <3>1, CloseAllShows
  <2>3. CASE Shows(t) # <<FALSE, TRUE, TRUE>>
    <3>1. LinkState(t) \in {"down", "up"}
      <4>1. ~socket[t].connected \/ ~socket[t].closed
        <5>1. ASSUME socket[t].connected, socket[t].closed
              PROVE  Shows(t) = <<FALSE, TRUE, TRUE>>
          <6>1. Connecting(t) = FALSE /\ socket[t].connected = TRUE /\ socket[t].closed = TRUE
            BY <2>1, <5>1
          <6> QED
            BY <6>1 DEF Shows
        <5> QED
          BY <2>3, <5>1
      <4>2. ~socket[t].connected => LinkState(t) = "down"
        BY <2>1 DEF LinkState
      <4>3. socket[t].connected /\ ~socket[t].closed => LinkState(t) = "up"
        BY <2>1 DEF LinkState
      <4> QED
        BY <4>1, <4>2, <4>3
    <3>2. LinkState(t)' = "down" /\ modem'[t] = "free"
      BY <2>3, CloseAllShows DEF Shows, LinkState
    <3> QED
      BY <3>1, <3>2
  <2> QED
    BY <2>2, <2>3
<1>2. Links' = [s \in Slots |-> IF Links[s] = "lost" THEN "lost" ELSE "down"]
  BY <1>1 DEF Links
<1>3. modem' = [s \in Slots |-> IF s \in kept THEN modem[s] ELSE "free"]
  BY <1>1 DEF Links, TypeOK
<1>4. kept \in SUBSET {s \in Slots : Links[s] = "lost"}
  OBVIOUS
<1>5. \A s \in Slots : Links[s] # "connecting"
  BY <1>1 DEF Links
<1> QED
  BY <1>2, <1>3, <1>4, <1>5 DEF Link!Shutdown

(* Every step of the stack is one of the links, or none.                   *)
LEMMA StepImplements ==
    ~EarlyClose /\ TypeOK /\ TypeOK' /\ LinkInv /\ [Next]_vars => [Link!Next]_Link!vars
<1> SUFFICES ASSUME ~EarlyClose, TypeOK, TypeOK', LinkInv, [Next]_vars
             PROVE  [Link!Next]_Link!vars
  OBVIOUS
<1>1. ASSUME UNCHANGED modem, \A t \in Slots : Shows(t)' = Shows(t)
      PROVE  UNCHANGED Link!vars
  <2>1. \A t \in Slots : LinkState(t)' = LinkState(t)
    BY <1>1 DEF Shows, LinkState
  <2> QED
    BY <1>1, <2>1 DEF Links, Link!vars
<1>2. CASE UNCHANGED vars
  BY <1>1, <1>2 DEF vars, modemVars, Shows, Connecting
<1>3. ASSUME NEW s \in Slots, Step(s) \/ Call(s) PROVE [Link!Next]_Link!vars
  BY <1>3, StepShows, CallShows, SlotStepImplements DEF LinkInv
<1>4. CASE CloseAllSockets
  BY <1>4, ShutdownImplements DEF Link!Next
<1>5. CASE HandleUrc
  BY <1>1, <1>5, HandleUrcShows, SlotStepImplements
<1>6. CASE Modem
  BY <1>6, ModemShows, SlotStepImplements DEF Modem
<1> QED
  BY <1>2, <1>3, <1>4, <1>5, <1>6 DEF Next

(* Initially all links are down.                                           *)
LEMMA InitImplements == Init => LinkInv /\ Link!Init
<1> SUFFICES ASSUME Init PROVE LinkInv /\ Link!Init
  OBVIOUS
<1>1. \A s \in Slots : ~Dropped(s)
  BY EmptySeq DEF Init, Dropped
<1>2. LinkInv
  BY <1>1, SerialInit DEF LinkInv, LostInv, Init, Free
<1>3. \A s \in Slots : LinkState(s) = "down"
  BY DEF Init, Free, NoCall, LinkState, Connecting
<1> QED
  BY <1>2, <1>3 DEF Init, Links, Link!Init

(* The stack implements the abstract specification of its links.           *)
THEOREM LinksImplemented == ASSUME SerialTcp, ~EarlyClose PROVE Spec => ImplementsLink
<1>1. TypeOK /\ LinkInv /\ [Next]_vars => LinkInv'
  BY LinkStep
<1>2. TypeOK /\ TypeOK' /\ LinkInv /\ [Next]_vars => [Link!Next]_Link!vars
  BY StepImplements
<1> QED
  BY <1>1, <1>2, InitImplements, TypeCorrect, PTL DEF Spec, ImplementsLink, Link!Spec

-----------------------------------------------------------------------------
(* The AT lock while waiting, for any number of concurrent calls on TCP    *)
(* sockets: what a sendto does under the lock includes no opening.         *)

OnlyTcp == \A s \in Slots : Protocols[s] \subseteq {"TCP"}

TcpInv == \A s \in Slots : socket[s].proto # "UDP" /\ call[s].op # "reopen"

(* No call opens a UDP socket.                                             *)
LEMMA TcpCalls ==
    ASSUME OnlyTcp, TypeOK, TcpInv, NEW s \in Slots, Call(s)
    PROVE  TcpInv'
<1>0. /\ socket \in [Slots -> [proto : {"none", "UDP", "TCP"}, id : Ids,
                               connected : BOOLEAN, closed : BOOLEAN]]
      /\ CallType
  BY TypeParts DEF StateType
<1>1. ASSUME NEW proto \in Protocols[s], SocketOpen(s, proto) PROVE TcpInv'
  BY <1>0, <1>1 DEF OnlyTcp, SocketOpen, TcpInv, Free
<1>2. CASE SocketClose(s)
  BY <1>0, <1>2 DEF SocketClose, TcpInv, Free
<1>3. CASE SocketConnect(s) \/ SocketRecvfrom(s)
  <2>1. call'[s].op # "reopen" /\ \A t \in Slots \ {s} : call'[t] = call[t]
    BY <1>0, <1>3, StartType DEF SocketConnect, SocketRecvfrom, Pcs
  <2> QED
    BY <1>3, <2>1 DEF SocketConnect, SocketRecvfrom, TcpInv
<1>4. ASSUME NEW fam \in Families, SocketSendto(s, fam) PROVE TcpInv'
  BY <1>0, <1>4 DEF SocketSendto, TcpInv, NoCall, CallType
<1> QED
  BY <1>1, <1>2, <1>3, <1>4 DEF Call

(* No step of a call changes what kind of socket it is for, and none opens *)
(* a socket again.                                                         *)
LEMMA TcpSteps ==
    ASSUME TypeOK, TcpInv, NEW s \in Slots, Step(s)
    PROVE  TcpInv'
<1>0. /\ socket \in [Slots -> [proto : {"none", "UDP", "TCP"}, id : Ids,
                               connected : BOOLEAN, closed : BOOLEAN]]
      /\ CallType /\ call[s].op # "reopen" /\ NoCall.op # "reopen"
  BY TypeParts DEF StateType, TcpInv, NoCall
<1> {"open", "wait", "readId", "closeOwn", "closeOther", "closeImpl", "created", "reclose", "send",
     "clear", "lock"} \subseteq Pcs
  BY DEF Pcs, Commanding
<1>1. \A t \in Slots : socket'[t].proto = socket[t].proto
  <2>1. CASE ConnectDecide(s)
    BY <1>0, <2>1 DEF ConnectDecide
  <2>2. CASE UdpDecide(s)
    <3>1. socket' = socket \/ socket' = [socket EXCEPT ![s].id = NoId]
      BY <2>2 DEF UdpDecide
    <3> QED
      BY <1>0, <3>1
  <2>3. CASE Created(s)
    BY <1>0, <2>3 DEF Created
  <2>4. CASE ~(ConnectDecide(s) \/ UdpDecide(s) \/ Created(s))
    BY <2>4 DEF Step, ClearFlag, Qiopen, WaitAnswer, WaitTimeout, ReadId, ReadErr,
       CloseOwn, CloseOther, CloseImpl, SendLock, SendReclose, Qisend
  <2> QED
    BY <2>1, <2>2, <2>3, <2>4
<1>2. call'[s].op # "reopen" /\ \A t \in Slots \ {s} : call'[t] = call[t]
  <2>1. CASE ClearFlag(s) \/ Qiopen(s) \/ WaitAnswer(s) \/ SendLock(s)
    BY <1>0, <2>1, GotoType DEF ClearFlag, Qiopen, WaitAnswer, SendLock
  <2>2. CASE WaitTimeout(s) \/ ReadId(s) \/ ReadErr(s)
    BY <1>0, <2>2 DEF WaitTimeout, ReadId, ReadErr, CallType, Calls
  <2>3. CASE ConnectDecide(s) \/ CloseOwn(s) \/ CloseOther(s) \/ Qisend(s)
    BY <1>0, <2>3, GotoType, ReturnType, RetryType DEF ConnectDecide, CloseOwn, CloseOther, Qisend
  <2>4. CASE UdpDecide(s)
    BY <1>0, <2>4, GotoType, CreateReturnsType DEF UdpDecide
  <2>5. CASE CloseImpl(s)
    BY <1>0, <2>5, GotoType, RetryType DEF CloseImpl
  <2>6. CASE Created(s)
    <3>1. CreateReturns(s, ~atErr) /\ (~atErr) \in BOOLEAN
      BY <2>6 DEF Created
    <3> QED
      BY <1>0, <3>1, CreateReturnsType
  <2>7. CASE SendReclose(s)
    <3>1. Goto(s, "send")
      BY <2>7 DEF SendReclose, TcpInv
    <3> QED
      BY <1>0, <3>1, GotoType
  <2> QED
    BY <2>1, <2>2, <2>3, <2>4, <2>5, <2>6, <2>7 DEF Step
<1> QED
  BY <1>1, <1>2 DEF TcpInv

(* Every step keeps that.                                                  *)
LEMMA TcpStep ==
    ASSUME OnlyTcp, TypeOK, TcpInv, [Next]_vars
    PROVE  TcpInv'
<1>0. socket \in [Slots -> [proto : {"none", "UDP", "TCP"}, id : Ids,
                           connected : BOOLEAN, closed : BOOLEAN]]
  BY DEF TypeOK
<1>1. CASE UNCHANGED vars
  BY <1>1 DEF vars, TcpInv
<1>2. CASE CloseAllSockets
  BY <1>0, <1>2 DEF CloseAllSockets, TcpInv, Free
<1>3. CASE HandleUrc
  BY <1>0, <1>3 DEF HandleUrc, UrcOpenId, UrcOpenErr, UrcClosed, TcpInv
<1>4. CASE Modem
  BY <1>4 DEF Modem, ModemAnswer, ModemDrop, TcpInv
<1> QED
  BY <1>1, <1>2, <1>3, <1>4, TcpCalls, TcpSteps DEF Next

(* Nobody waits for the answer to an AT+QIOPEN with the AT lock held, that *)
(* the handler of the answer needs.  For UDP sockets the code breaks this. *)
THEOREM WaitsUnlocked == ASSUME OnlyTcp PROVE Spec => []LockNotHeldWhileWaiting
<1>1. Init => TcpInv
  BY DEF Init, TcpInv, Free, NoCall
<1>2. TypeOK /\ TcpInv /\ [Next]_vars => TcpInv'
  BY TcpStep
<1>3. LockInv /\ TcpInv => LockNotHeldWhileWaiting
  BY DEF LockInv, ThreadLock, TcpInv, LockNotHeldWhileWaiting
<1> QED
  BY <1>1, <1>2, <1>3, TypeCorrect, LockDiscipline, PTL DEF Spec
=============================================================================
