------------------------- MODULE CellularStackProof -------------------------
(***************************************************************************)
(* Proofs about CellularStack, for any number of slots, protocols, address *)
(* families and concurrent calls.                                          *)
(*                                                                         *)
(* LockReleased is not inductive: what makes it so is LockInv, which says  *)
(* at which points of a call its thread may hold the AT lock.              *)
(***************************************************************************)
EXTENDS CellularStackRefinement, SequenceTheorems, TLAPS

Pcs == {"idle", "clear", "wait", "readId", "readErr", "decide", "created", "lock"} \cup Commanding

Calls == [pc : Pcs, op : {"none", "connect", "send", "recv", "reopen"},
          attempt : {0, 1}, modemId : Ids, err : Results \cup {"timeout"},
          family : {"IPv4", "IPv6"}]

CallType == call \in [Slots -> Calls]

(* Only a sendto holds the lock, and only after taking it; the steps that  *)
(* take it, and the two ways out of a failed connect, belong to one kind   *)
(* of call each.                                                           *)
ThreadLock(s) ==
    /\ atOwner = s => \/ call[s].op = "reopen"
                      \/ call[s].op = "send" /\ call[s].pc \in {"reclose", "send"}
    /\ call[s].pc = "lock" => call[s].op = "send"
    /\ call[s].pc = "reclose" => call[s].op = "send"
    /\ call[s].pc \in {"closeOwn", "closeOther"} => call[s].op = "connect"

LockInv == \A s \in Slots : ThreadLock(s)

-----------------------------------------------------------------------------
(* What the helpers do to a call.                                          *)

(* A thread outside every call has a well-typed call record.               *)
LEMMA NoCallType == NoCall \in Calls
BY DEF NoCall, Calls, Pcs, Ids, Results

(* Going to another step of a call changes nothing else of it.             *)
LEMMA GotoType ==
    ASSUME CallType, NEW s \in Slots, NEW l \in Pcs, Goto(s, l)
    PROVE  /\ CallType'
           /\ call'[s].pc = l /\ call'[s].op = call[s].op
           /\ \A t \in Slots \ {s} : call'[t] = call[t]
BY DEF CallType, Calls, Goto

(* A return leaves the thread outside every call.                          *)
LEMMA ReturnType ==
    ASSUME CallType, NEW s \in Slots, Return(s)
    PROVE  /\ CallType'
           /\ call'[s] = NoCall
           /\ \A t \in Slots \ {s} : call'[t] = call[t]
BY NoCallType DEF CallType, Return

(* A retry starts the same call over, or goes to the given step.           *)
LEMMA RetryType ==
    ASSUME CallType, NEW s \in Slots, NEW l \in Pcs, Retry(s, l)
    PROVE  /\ CallType'
           /\ call'[s].pc \in {"clear", l} /\ call'[s].op = call[s].op
           /\ \A t \in Slots \ {s} : call'[t] = call[t]
<1>1. CASE call[s].attempt = 0
  BY <1>1 DEF CallType, Calls, Retry, Pcs, Ids, Results
<1>2. CASE call[s].attempt # 0
  BY <1>2, GotoType DEF Retry
<1> QED
  BY <1>1, <1>2

(* A call starts at the given step, in the given operation.                *)
LEMMA StartType ==
    ASSUME CallType, NEW s \in Slots, NEW l \in Pcs,
           NEW o \in {"connect", "send", "recv", "reopen"}, Start(s, o, l)
    PROVE  /\ CallType'
           /\ call'[s].pc = l /\ call'[s].op = o
           /\ \A t \in Slots \ {s} : call'[t] = call[t]
BY NoCallType DEF CallType, Calls, Start, NoCall

(* After create_socket_impl() a reopening goes on to send, a sendto to its *)
(* lock or out, and anything else out.                                     *)
LEMMA CreateReturnsType ==
    ASSUME CallType, NEW s \in Slots, NEW ok \in BOOLEAN, CreateReturns(s, ok)
    PROVE  /\ CallType'
           /\ \/ call[s].op = "reopen" /\ call'[s].op = "reopen" /\ call'[s].pc = "send"
              \/ call[s].op = "send" /\ call'[s].op = "send" /\ call'[s].pc = "lock"
              \/ call[s].op # "reopen" /\ call'[s] = NoCall
           /\ \A t \in Slots \ {s} : call'[t] = call[t]
<1> "send" \in Pcs /\ "lock" \in Pcs
  BY DEF Pcs, Commanding
<1>1. CASE call[s].op = "reopen"
  BY <1>1, GotoType DEF CreateReturns
<1>2. CASE call[s].op # "reopen" /\ call[s].op = "send" /\ ok
  BY <1>2, GotoType DEF CreateReturns
<1>3. CASE call[s].op # "reopen" /\ ~(call[s].op = "send" /\ ok)
  BY <1>3, ReturnType DEF CreateReturns
<1> QED
  BY <1>1, <1>2, <1>3

-----------------------------------------------------------------------------
(* Type correctness.                                                       *)

(* Everything but the threads' calls. *)
StateType ==
    /\ socket \in [Slots -> [proto : {"none", "UDP", "TCP"}, id : Ids,
                             connected : BOOLEAN, closed : BOOLEAN]]
    /\ ipVersion \in {"unspec", "IPv4", "IPv6"}
    /\ connFlag \in BOOLEAN /\ lastId \in Ids /\ lastErr \in Results
    /\ atOwner \in Slots \cup {"urc", NoOne} /\ atErr \in BOOLEAN
    /\ urc \in Msg \cup {NoMsg}
    /\ modem \in [Slots -> {"free", "opening", "open", "dead"}]
    /\ urcs \in Seq(Msg)

(* The type invariant, split into the calls and the rest.                  *)
LEMMA TypeParts == TypeOK <=> StateType /\ CallType
BY DEF TypeOK, StateType, CallType, Calls, Pcs

(* The initial state is typed.                                             *)
LEMMA TypeInit == Init => TypeOK
<1> SUFFICES ASSUME Init PROVE StateType /\ CallType
  BY TypeParts
<1>1. CallType
  BY NoCallType DEF Init, CallType
<1>2. urcs \in Seq(Msg)
  BY EmptySeq DEF Init
<1>3. StateType
  BY <1>2 DEF Init, StateType, Free, Ids, Results
<1> QED
  BY <1>1, <1>3

(* AT+QICLOSE keeps the types of what it changes.                          *)
LEMMA QicloseType ==
    ASSUME StateType, NEW m \in Ids, Qiclose(m)
    PROVE  /\ modem' \in [Slots -> {"free", "opening", "open", "dead"}]
           /\ atErr' \in BOOLEAN
BY DEF StateType, Qiclose

(* Handling a URC keeps the types and touches no call.                     *)
LEMMA HandleUrcType ==
    ASSUME StateType, HandleUrc
    PROVE  StateType' /\ UNCHANGED call
<1>1. CASE UrcOpenErr
  BY <1>1 DEF UrcOpenErr, StateType, Msg, modemVars
<1>2. CASE UrcOpenId \/ UrcClosed
  <2>1. urcs # <<>> /\ urcs \in Seq(Msg)
    BY <1>2 DEF UrcOpenId, UrcClosed, CanHandle, StateType
  <2>2. Head(urcs) \in Msg /\ Tail(urcs) \in Seq(Msg)
    BY <2>1, HeadTailProperties
  <2>3. CASE UrcOpenId
    BY <2>2, <2>3 DEF UrcOpenId, StateType, Msg, Ids
  <2>4. CASE UrcClosed
    <3>1. socket' \in [Slots -> [proto : {"none", "UDP", "TCP"}, id : Ids,
                                 connected : BOOLEAN, closed : BOOLEAN]]
      BY <2>4 DEF UrcClosed, StateType
    <3> QED
      BY <2>2, <2>4, <3>1 DEF UrcClosed, StateType, answerVars
  <2> QED
    BY <1>2, <2>3, <2>4
<1> QED
  BY <1>1, <1>2 DEF HandleUrc

(* The modem keeps the types and touches no call.                          *)
LEMMA ModemType ==
    ASSUME StateType, Modem
    PROVE  StateType' /\ UNCHANGED call
<1>1. ASSUME NEW m \in Slots, ModemAnswer(m)
      PROVE  StateType' /\ UNCHANGED call
  <2>1. PICK r \in {"ok", "fail", "bind"} :
          /\ modem' = [modem EXCEPT ![m] =
               CASE r = "ok" -> "open" [] r = "fail" -> "dead" [] r = "bind" -> "free"]
          /\ urcs' = Append(urcs, [type |-> "open", id |-> m, result |-> r])
    BY <1>1 DEF ModemAnswer
  <2>2. [type |-> "open", id |-> m, result |-> r] \in Msg
    BY DEF Msg, Results
  <2>3. urcs' \in Seq(Msg)
    BY <2>1, <2>2, AppendProperties DEF StateType
  <2>4. modem' \in [Slots -> {"free", "opening", "open", "dead"}]
    BY <2>1 DEF StateType
  <2> QED
    BY <1>1, <2>3, <2>4 DEF ModemAnswer, StateType, answerVars, atVars
<1>2. ASSUME NEW m \in Slots, ModemDrop(m)
      PROVE  StateType' /\ UNCHANGED call
  <2>1. [type |-> "closed", id |-> m, result |-> "none"] \in Msg
    BY DEF Msg, Results
  <2>2. urcs' \in Seq(Msg)
    BY <1>2, <2>1, AppendProperties DEF ModemDrop, StateType
  <2> QED
    BY <1>2, <2>2 DEF ModemDrop, StateType, answerVars, atVars
<1> QED
  BY <1>1, <1>2 DEF Modem

(* Starting, opening and closing keep the types.                           *)
LEMMA CallsType ==
    ASSUME StateType, CallType, NEW s \in Slots, Call(s)
    PROVE  StateType' /\ CallType'
<1> "clear" \in Pcs /\ "lock" \in Pcs
  BY DEF Pcs
<1>1. ASSUME NEW proto \in Protocols[s], SocketOpen(s, proto)
      PROVE  StateType' /\ CallType'
  <2>1. [Free EXCEPT !.proto = proto] \in [proto : {"none", "UDP", "TCP"}, id : Ids,
                                           connected : BOOLEAN, closed : BOOLEAN]
    BY ParametersAssumption DEF Free, Ids
  <2> QED
    BY <1>1, <2>1 DEF SocketOpen, StateType, CallType, answerVars, atVars, modemVars
<1>2. CASE SocketClose(s)
  <2>1. socket[s].id \in Ids
    BY DEF StateType
  <2>2. modem' \in [Slots -> {"free", "opening", "open", "dead"}] /\ atErr' \in BOOLEAN
    BY <1>2, <2>1, QicloseType DEF SocketClose, StateType
  <2>3. Free \in [proto : {"none", "UDP", "TCP"}, id : Ids, connected : BOOLEAN, closed : BOOLEAN]
    BY DEF Free, Ids
  <2> QED
    BY <1>2, <2>2, <2>3 DEF SocketClose, StateType, CallType, answerVars
<1>3. CASE SocketConnect(s) \/ SocketRecvfrom(s)
  <2>1. CallType'
    BY <1>3, StartType DEF SocketConnect, SocketRecvfrom
  <2> QED
    BY <1>3, <2>1 DEF SocketConnect, SocketRecvfrom, StateType, answerVars, atVars, modemVars
<1>4. ASSUME NEW fam \in Families, SocketSendto(s, fam)
      PROVE  StateType' /\ CallType'
  <2>1. fam \in {"IPv4", "IPv6"}
    BY ParametersAssumption
  <2>2. CallType'
    BY <1>4, <2>1, NoCallType DEF SocketSendto, CallType, Calls, NoCall
  <2>3. ipVersion' \in {"unspec", "IPv4", "IPv6"}
    BY <1>4, <2>1 DEF SocketSendto, StateType
  <2> QED
    BY <1>4, <2>2, <2>3 DEF SocketSendto, StateType, answerVars, atVars, modemVars
<1> QED
  BY <1>1, <1>2, <1>3, <1>4 DEF Call

(* Closing every socket keeps the types and touches no call.               *)
LEMMA CloseAllType ==
    ASSUME StateType, CloseAllSockets
    PROVE  StateType' /\ UNCHANGED call
<1>1. Free \in [proto : {"none", "UDP", "TCP"}, id : Ids, connected : BOOLEAN, closed : BOOLEAN]
  BY DEF Free, Ids
<1>2. modem' \in [Slots -> {"free", "opening", "open", "dead"}]
  BY DEF CloseAllSockets, StateType
<1> QED
  BY <1>1, <1>2 DEF CloseAllSockets, StateType, answerVars

(* Every step inside a call keeps the types.                               *)
LEMMA StepType ==
    ASSUME StateType, CallType, NEW s \in Slots, Step(s)
    PROVE  StateType' /\ CallType'
<1> {"open", "wait", "readId", "readErr", "decide", "closeOwn", "closeOther", "closeImpl",
     "created", "reclose", "send", "clear"} \subseteq Pcs
  BY DEF Pcs, Commanding
<1>0. /\ call[s] \in Calls /\ call[s].modemId \in Ids /\ call[s].family \in {"IPv4", "IPv6"}
      /\ socket[s].id \in Ids
      /\ s \in Ids /\ NoId \in Ids
  BY DEF CallType, Calls, StateType, Ids
<1> USE DEF answerVars, atVars, modemVars
<1>1. CASE ClearFlag(s)
  BY <1>1, GotoType DEF ClearFlag, StateType, Ids, Results
<1>2. CASE Qiopen(s)
  <2>1. CallType'
    BY <1>2, GotoType DEF Qiopen
  <2> QED
    BY <1>2, <2>1 DEF Qiopen, StateType
<1>3. CASE WaitAnswer(s)
  BY <1>3, GotoType DEF WaitAnswer, StateType
<1>4. CASE WaitTimeout(s)
  <2>1. CallType'
    BY <1>4 DEF WaitTimeout, CallType, Calls, Ids
  <2> QED
    BY <1>4, <2>1 DEF WaitTimeout, StateType
<1>5. CASE ReadId(s) \/ ReadErr(s)
  <2>1. CallType'
    BY <1>5 DEF ReadId, ReadErr, CallType, Calls, StateType
  <2> QED
    BY <1>5, <2>1 DEF ReadId, ReadErr, StateType
<1>6. CASE ConnectDecide(s)
  <2>1. CallType'
    BY <1>6, ReturnType, GotoType, RetryType DEF ConnectDecide
  <2>2. StateType'
    BY <1>0, <1>6 DEF ConnectDecide, StateType
  <2> QED
    BY <2>1, <2>2
<1>7. CASE CloseOwn(s) \/ CloseOther(s)
  <2>1. CallType'
    BY <1>7, ReturnType DEF CloseOwn, CloseOther
  <2>2. modem' \in [Slots -> {"free", "opening", "open", "dead"}] /\ atErr' \in BOOLEAN
    BY <1>0, <1>7, QicloseType DEF CloseOwn, CloseOther
  <2> QED
    BY <1>7, <2>1, <2>2 DEF CloseOwn, CloseOther, StateType
<1>8. CASE UdpDecide(s)
  <2>1. CallType'
    BY <1>8, GotoType, CreateReturnsType DEF UdpDecide
  <2>2. StateType'
    BY <1>0, <1>8 DEF UdpDecide, StateType
  <2> QED
    BY <2>1, <2>2
<1>9. CASE CloseImpl(s)
  <2>1. CallType'
    BY <1>9, GotoType, RetryType DEF CloseImpl
  <2>2. modem' \in [Slots -> {"free", "opening", "open", "dead"}] /\ atErr' \in BOOLEAN
    BY <1>0, <1>9, QicloseType DEF CloseImpl, StateType
  <2> QED
    BY <1>9, <2>1, <2>2 DEF CloseImpl, StateType
<1>10. CASE Created(s)
  <2>1. CallType'
    BY <1>10, CreateReturnsType DEF Created, StateType
  <2>2. StateType'
    BY <1>0, <1>10 DEF Created, StateType
  <2> QED
    BY <2>1, <2>2
<1>11. CASE SendLock(s) \/ Qisend(s)
  <2>1. CallType'
    BY <1>11, GotoType, ReturnType DEF SendLock, Qisend
  <2> QED
    BY <1>0, <1>11, <2>1 DEF SendLock, Qisend, StateType
<1>12. CASE SendReclose(s)
  <2>1. CallType'
    BY <1>12, GotoType, StartType DEF SendReclose
  <2>2. modem' \in [Slots -> {"free", "opening", "open", "dead"}] /\ atErr' \in BOOLEAN
    BY <1>0, <1>12, QicloseType DEF SendReclose, StateType
  <2> QED
    BY <1>12, <2>1, <2>2 DEF SendReclose, StateType
<1> QED
  BY <1>1, <1>2, <1>3, <1>4, <1>5, <1>6, <1>7, <1>8, <1>9, <1>10, <1>11, <1>12 DEF Step

(* So every step does.                                                     *)
LEMMA TypeStep == TypeOK /\ [Next]_vars => TypeOK'
<1> SUFFICES ASSUME StateType, CallType, [Next]_vars PROVE StateType' /\ CallType'
  BY TypeParts, TypeParts' DEF TypeOK, StateType, CallType, Calls, Pcs
<1>1. CASE UNCHANGED vars
  BY <1>1 DEF vars, StateType, CallType, answerVars, atVars, modemVars
<1> QED
  BY <1>1, HandleUrcType, ModemType, CallsType, CloseAllType, StepType DEF Next, CallType

(* The variables keep their types in every instance.                       *)
THEOREM TypeCorrect == Spec => []TypeOK
BY TypeInit, TypeStep, PTL DEF Spec

-----------------------------------------------------------------------------
(* The AT lock.                                                            *)

(* A step of one thread leaves the others' part of the invariant alone.    *)
LEMMA OthersKeepLock ==
    ASSUME LockInv, NEW s \in Slots, ThreadLock(s)',
           atOwner' \in {atOwner, s, NoOne, "urc"},
           \A t \in Slots \ {s} : call'[t] = call[t]
    PROVE  LockInv'
BY NamesAssumption DEF LockInv, ThreadLock

(* Nobody holds the lock at the start.                                     *)
LEMMA LockInit == Init => LockInv
BY NamesAssumption DEF Init, LockInv, ThreadLock, NoCall

(* URCs are handled by a thread that has the lock, or under it by the      *)
(* event queue, which gives it back.                                       *)
LEMMA LockHandleUrc == LockInv /\ HandleUrc => LockInv'
BY NamesAssumption
   DEF HandleUrc, UrcOpenId, UrcOpenErr, UrcClosed, LockInv, ThreadLock

(* The modem knows nothing of the lock.                                    *)
LEMMA LockModem == LockInv /\ Modem => LockInv'
BY DEF Modem, ModemAnswer, ModemDrop, LockInv, ThreadLock, atVars

(* An idle thread has no lock to start a call with.                        *)
LEMMA LockCalls ==
    ASSUME CallType, LockInv, NEW s \in Slots, Call(s)
    PROVE  LockInv'
<1> "clear" \in Pcs /\ "lock" \in Pcs
  BY DEF Pcs
<1>1. ASSUME NEW proto \in Protocols[s], SocketOpen(s, proto)
      PROVE  LockInv'
  BY <1>1 DEF SocketOpen, LockInv, ThreadLock, atVars
<1>2. CASE SocketClose(s)
  BY <1>2 DEF SocketClose, LockInv, ThreadLock
<1>3. ASSUME Idle(s)
      PROVE  atOwner # s
  BY <1>3 DEF Idle, NoCall, LockInv, ThreadLock
<1>4. CASE SocketConnect(s) \/ SocketRecvfrom(s)
  <2>1. /\ call'[s].pc = "clear" /\ \A t \in Slots \ {s} : call'[t] = call[t]
        /\ atOwner' = atOwner /\ atOwner # s
    BY <1>3, <1>4, StartType DEF SocketConnect, SocketRecvfrom, atVars
  <2>2. ThreadLock(s)'
    BY <2>1 DEF ThreadLock
  <2> QED
    BY <2>1, <2>2, OthersKeepLock
<1>5. ASSUME NEW fam \in Families, SocketSendto(s, fam)
      PROVE  LockInv'
  <2>1. /\ call'[s].pc \in {"clear", "lock"} /\ call'[s].op = "send"
        /\ \A t \in Slots \ {s} : call'[t] = call[t]
    BY <1>5 DEF SocketSendto, NoCall, CallType
  <2>2. atOwner' = atOwner /\ atOwner # s
    BY <1>3, <1>5 DEF SocketSendto, atVars
  <2>3. ThreadLock(s)'
    BY <2>1, <2>2 DEF ThreadLock
  <2> QED
    BY <2>1, <2>2, <2>3, OthersKeepLock
<1> QED
  BY <1>1, <1>2, <1>4, <1>5 DEF Call

(* Closing every socket leaves the lock with nobody.                       *)
LEMMA LockCloseAll == LockInv /\ CloseAllSockets => LockInv'
BY DEF CloseAllSockets, LockInv, ThreadLock

(* One step of a thread inside a call.                                     *)
LEMMA LockSteps ==
    ASSUME CallType, LockInv, NEW s \in Slots, Step(s)
    PROVE  LockInv'
<1> {"open", "wait", "readId", "readErr", "decide", "closeOwn", "closeOther", "closeImpl",
     "created", "reclose", "send", "clear", "lock"} \subseteq Pcs
  BY DEF Pcs, Commanding
<1>0. ThreadLock(s) /\ call[s] \in Calls
  BY DEF LockInv, CallType
<1>1. ASSUME ThreadLock(s)', atOwner' \in {atOwner, s, NoOne},
             \A t \in Slots \ {s} : call'[t] = call[t]
      PROVE  LockInv'
  BY <1>1, OthersKeepLock
<1> USE DEF atVars
(* The steps that stay inside the opening of the socket. *)
<1>2. CASE ClearFlag(s) \/ Qiopen(s) \/ WaitAnswer(s)
  <2>1. /\ call'[s].op = call[s].op /\ \A t \in Slots \ {s} : call'[t] = call[t]
        /\ call'[s].pc \in {"open", "wait", "readId"} \/ (call'[s].pc = "closeOwn" /\ Connecting(s))
        /\ call[s].pc \in {"clear", "open", "wait"}
    BY <1>2, GotoType DEF ClearFlag, Qiopen, WaitAnswer
  <2>2. atOwner' = atOwner
    BY <1>2 DEF ClearFlag, Qiopen, WaitAnswer
  <2>3. ThreadLock(s)'
    BY <1>0, <2>1, <2>2 DEF ThreadLock, Connecting
  <2> QED
    BY <1>1, <2>1, <2>2, <2>3
<1>3. CASE WaitTimeout(s) \/ ReadId(s) \/ ReadErr(s)
  <2>1. /\ call'[s].op = call[s].op /\ \A t \in Slots \ {s} : call'[t] = call[t]
        /\ call'[s].pc \in {"readErr", "decide"} \/ (call'[s].pc = "closeOwn" /\ Connecting(s))
        /\ call[s].pc \in {"wait", "readId", "readErr"}
    BY <1>3 DEF WaitTimeout, ReadId, ReadErr, CallType, Calls
  <2>2. atOwner' = atOwner
    BY <1>3 DEF WaitTimeout, ReadId, ReadErr
  <2>3. ThreadLock(s)'
    BY <1>0, <2>1, <2>2 DEF ThreadLock, Connecting
  <2> QED
    BY <1>1, <2>1, <2>2, <2>3
(* A connect never has the lock, so it may return from anywhere. *)
<1>4. CASE ConnectDecide(s) \/ CloseOwn(s) \/ CloseOther(s)
  <2>1. call[s].op = "connect" /\ atOwner # s /\ atOwner' = atOwner
    BY <1>0, <1>4 DEF ConnectDecide, CloseOwn, CloseOther, Connecting, ThreadLock
  <2>2. /\ call'[s] = NoCall \/ ( /\ call'[s].pc \in {"closeOther", "closeOwn", "clear"}
                                 /\ call'[s].op = "connect")
        /\ \A t \in Slots \ {s} : call'[t] = call[t]
    BY <1>4, <2>1, GotoType, ReturnType, RetryType DEF ConnectDecide, CloseOwn, CloseOther
  <2>3. ThreadLock(s)'
    BY <2>1, <2>2 DEF ThreadLock, NoCall
  <2> QED
    BY <1>1, <2>1, <2>2, <2>3
(* A reopening inside sendto goes back to sendto, whatever came of it. *)
<1>5. CASE UdpDecide(s) \/ CloseImpl(s) \/ Created(s)
  <2>1. call[s].pc \in {"decide", "closeImpl", "created"} /\ atOwner' = atOwner
    BY <1>5 DEF UdpDecide, CloseImpl, Created
  <2>2. \/ call'[s].pc \in {"closeImpl", "created", "clear"} /\ call'[s].op = call[s].op
        \/ call[s].op = "reopen" /\ call'[s].op = "reopen" /\ call'[s].pc = "send"
        \/ call[s].op = "send" /\ call'[s].op = "send" /\ call'[s].pc = "lock"
        \/ call[s].op # "reopen" /\ call'[s] = NoCall
    <3>1. CASE UdpDecide(s)
      BY <3>1, GotoType, CreateReturnsType DEF UdpDecide
    <3>2. CASE CloseImpl(s)
      BY <3>2, GotoType, RetryType DEF CloseImpl
    <3>3. CASE Created(s)
      <4>1. CreateReturns(s, ~atErr) /\ (~atErr) \in BOOLEAN
        BY <3>3 DEF Created
      <4> QED
        BY <4>1, CreateReturnsType
    <3> QED
      BY <1>5, <3>1, <3>2, <3>3
  <2>3. \A t \in Slots \ {s} : call'[t] = call[t]
    BY <1>5, GotoType, RetryType, CreateReturnsType DEF UdpDecide, CloseImpl, Created
  <2>4. ThreadLock(s)'
    BY <1>0, <2>1, <2>2 DEF ThreadLock, NoCall
  <2> QED
    BY <1>1, <2>1, <2>3, <2>4
(* The part of sendto that takes the lock and gives it back. *)
<1>6. CASE SendLock(s)
  <2>1. /\ call'[s].op = "send" /\ call'[s].pc \in {"reclose", "send"} /\ atOwner' = s
        /\ \A t \in Slots \ {s} : call'[t] = call[t]
    BY <1>0, <1>6, GotoType DEF SendLock, ThreadLock
  <2>2. ThreadLock(s)'
    BY <2>1 DEF ThreadLock
  <2> QED
    BY <1>1, <2>1, <2>2
<1>7. CASE SendReclose(s)
  <2>1. /\ \/ call'[s].op = "reopen" /\ call'[s].pc = "clear"
           \/ call'[s].op = "send" /\ call'[s].pc = "send"
        /\ \A t \in Slots \ {s} : call'[t] = call[t]
        /\ atOwner' = atOwner
    BY <1>0, <1>7, GotoType, StartType DEF SendReclose, ThreadLock
  <2>2. ThreadLock(s)'
    BY <2>1 DEF ThreadLock
  <2> QED
    BY <1>1, <2>1, <2>2
<1>8. CASE Qisend(s)
  <2>1. atOwner' = NoOne /\ call'[s] = NoCall /\ \A t \in Slots \ {s} : call'[t] = call[t]
    BY <1>8, ReturnType DEF Qisend
  <2>2. ThreadLock(s)'
    BY <2>1, NamesAssumption DEF ThreadLock, NoCall
  <2> QED
    BY <1>1, <2>1, <2>2
<1> QED
  BY <1>2, <1>3, <1>4, <1>5, <1>6, <1>7, <1>8 DEF Step

(* So every step keeps the lock invariant.                                 *)
LEMMA LockStep == TypeOK /\ LockInv /\ [Next]_vars => LockInv'
<1> SUFFICES ASSUME CallType, LockInv, [Next]_vars PROVE LockInv'
  BY TypeParts
<1>1. CASE UNCHANGED vars
  BY <1>1 DEF vars, LockInv, ThreadLock, atVars
<1> QED
  BY <1>1, LockHandleUrc, LockModem, LockCalls, LockCloseAll, LockSteps DEF Next

(* The AT lock is held only inside a sendto, between its lock and unlock.  *)
THEOREM LockDiscipline == Spec => []LockInv
BY TypeCorrect, LockInit, LockStep, PTL DEF Spec

(* No call returns with the AT lock held, on any path and however many     *)
(* threads use the stack.                                                  *)
THEOREM LockAlwaysReleased == Spec => []LockReleased
<1>1. LockInv => LockReleased
  BY DEF LockInv, ThreadLock, LockReleased, NoCall
<1> QED
  BY <1>1, LockDiscipline, PTL

-----------------------------------------------------------------------------
(* How many steps a call has left.                                         *)

OpeningPcs == {"clear", "open", "wait", "readId", "readErr", "decide", "closeImpl", "created",
               "closeOwn", "closeOther"}

(* The measure, case by case: it is a number, the steps of an attempt are  *)
(* numbered downwards, and a second attempt is below the first.            *)
LEMMA OpeningValue ==
    ASSUME NEW c \in Calls, c.pc \in OpeningPcs
    PROVE  /\ Opening(c) = (IF c.attempt = 0 THEN 10 ELSE 0) + Position[c.pc]
           /\ Position[c.pc] \in 1..9
           /\ Opening(c) \in 1..19
<1>1. Position[c.pc] \in 1..9
  BY DEF Position, OpeningPcs
<1>2. c.attempt \in {0, 1}
  BY DEF Calls
<1>3. CASE c.attempt = 0
  BY <1>1, <1>3 DEF Opening
<1>4. CASE c.attempt = 1
  BY <1>1, <1>4 DEF Opening
<1> QED
  BY <1>1, <1>2, <1>3, <1>4

(* The measure of a call at each of its points.                            *)
LEMMA StepsLeftValue ==
    ASSUME NEW c \in Calls
    PROVE  /\ c.pc = "idle" => StepsLeft(c) = 0
           /\ c.pc = "send" => StepsLeft(c) = 1
           /\ c.pc = "reclose" => StepsLeft(c) = 22
           /\ c.pc = "lock" => StepsLeft(c) = 23
           /\ c.pc \in OpeningPcs /\ c.op = "send" => StepsLeft(c) = 24 + Opening(c)
           /\ c.pc \in OpeningPcs /\ c.op # "send" => StepsLeft(c) = 1 + Opening(c)
           /\ c.pc # "idle" => c.pc \in OpeningPcs \cup {"send", "reclose", "lock"}
<1>1. DOMAIN Position = OpeningPcs
  BY DEF Position, OpeningPcs
<1>2. c.pc \in Pcs
  BY DEF Calls
<1>3. CASE c.pc \in {"idle", "send", "reclose", "lock"}
  BY <1>1, <1>3 DEF StepsLeft, OpeningPcs
<1>4. CASE c.pc \in OpeningPcs
  BY <1>1, <1>4 DEF StepsLeft, OpeningPcs
<1> QED
  BY <1>2, <1>3, <1>4 DEF Pcs, OpeningPcs, Commanding

(* The measure is a natural number, and 0 only outside every call.         *)
LEMMA StepsLeftNat ==
    ASSUME NEW c \in Calls
    PROVE  StepsLeft(c) \in 0..43 /\ (c.pc # "idle" => StepsLeft(c) > 0)
BY StepsLeftValue, OpeningValue

(* Going on to a later point of the same attempt.                          *)
LEMMA LaterInAttempt ==
    ASSUME NEW c \in Calls, NEW d \in Calls, c.pc \in OpeningPcs, d.pc \in OpeningPcs,
           d.op = c.op, d.attempt = c.attempt, Position[d.pc] < Position[c.pc]
    PROVE  StepsLeft(d) < StepsLeft(c)
BY StepsLeftValue, OpeningValue

(* Every step inside a call lowers the measure of that call.               *)
LEMMA StepDescends ==
    ASSUME CallType, CallType', NEW s \in Slots, Step(s)
    PROVE  StepsLeft(call'[s]) < StepsLeft(call[s])
<1> DEFINE c == call[s]
           d == call'[s]
<1>0. c \in Calls /\ d \in Calls /\ c.attempt \in {0, 1} /\ d.attempt \in {0, 1}
  BY DEF CallType, Calls
<1>1. ASSUME NEW l \in OpeningPcs, d = [c EXCEPT !.pc = l], c.pc \in OpeningPcs,
             Position[l] < Position[c.pc]
      PROVE  StepsLeft(d) < StepsLeft(c)
  <2>1. d.pc = l /\ d.op = c.op /\ d.attempt = c.attempt
    BY <1>0, <1>1 DEF Calls
  <2> QED
    BY <1>0, <1>1, <2>1, LaterInAttempt
<1>2. ASSUME d = NoCall, c.pc # "idle"
      PROVE  StepsLeft(d) < StepsLeft(c)
  <2>1. StepsLeft(d) = 0
    BY <1>0, <1>2, StepsLeftValue DEF NoCall
  <2> QED
    BY <1>0, <1>2, <2>1, StepsLeftNat
<1>3. ASSUME NEW l \in OpeningPcs, Retry(s, l), c.pc \in OpeningPcs,
             Position[l] < Position[c.pc]
      PROVE  StepsLeft(d) < StepsLeft(c)
  <2>1. CASE c.attempt = 0
    <3>1. d.pc = "clear" /\ d.op = c.op /\ d.attempt = 1
      BY <1>0, <1>3, <2>1 DEF Retry, CallType, Calls
    <3>2. Opening(d) < Opening(c)
      BY <1>0, <1>3, <2>1, <3>1, OpeningValue DEF OpeningPcs
    <3>3. d.pc \in OpeningPcs
      BY <3>1 DEF OpeningPcs
    <3>4. CASE c.op = "send"
      <4>1. StepsLeft(d) = 24 + Opening(d) /\ StepsLeft(c) = 24 + Opening(c)
        BY <1>0, <1>3, <3>1, <3>3, <3>4, StepsLeftValue
      <4> QED
        BY <1>0, <1>3, <3>2, <3>3, <4>1, OpeningValue
    <3>5. CASE c.op # "send"
      <4>1. StepsLeft(d) = 1 + Opening(d) /\ StepsLeft(c) = 1 + Opening(c)
        BY <1>0, <1>3, <3>1, <3>3, <3>5, StepsLeftValue
      <4> QED
        BY <1>0, <1>3, <3>2, <3>3, <4>1, OpeningValue
    <3> QED
      BY <3>4, <3>5
  <2>2. CASE c.attempt # 0
    <3>1. d = [c EXCEPT !.pc = l]
      BY <1>3, <2>2 DEF Retry, Goto, CallType
    <3> QED
      BY <1>1, <1>3, <3>1
  <2> QED
    BY <2>1, <2>2
<1>4. ASSUME NEW ok \in BOOLEAN, CreateReturns(s, ok), c.pc \in OpeningPcs
      PROVE  StepsLeft(d) < StepsLeft(c)
  <2>1. \/ d.pc = "send"
        \/ d.pc = "lock" /\ c.op = "send"
        \/ d = NoCall
    BY <1>4, CreateReturnsType
  <2>2. Opening(c) \in 1..19
    BY <1>0, <1>4, OpeningValue
  <2>3. CASE d.pc = "send"
    <3>1. StepsLeft(d) = 1 /\ StepsLeft(c) \in {1 + Opening(c), 24 + Opening(c)}
      BY <1>0, <1>4, <2>3, StepsLeftValue
    <3> QED
      BY <2>2, <3>1
  <2>4. CASE d.pc = "lock" /\ c.op = "send"
    <3>1. StepsLeft(d) = 23 /\ StepsLeft(c) = 24 + Opening(c)
      BY <1>0, <1>4, <2>4, StepsLeftValue
    <3> QED
      BY <2>2, <3>1
  <2>5. CASE d = NoCall
    BY <1>2, <1>4, <2>5 DEF OpeningPcs
  <2> QED
    BY <2>1, <2>3, <2>4, <2>5
<1>5. \A l \in Pcs : Goto(s, l) => d = [c EXCEPT !.pc = l]
  BY DEF Goto, CallType
<1>6. Return(s) => d = NoCall
  BY DEF Return, CallType
<1>7. {"open", "wait", "readId", "readErr", "decide", "closeOwn", "closeOther", "closeImpl",
       "created", "reclose", "send", "clear", "lock"} \subseteq Pcs
  BY DEF Pcs, Commanding
<1> SUFFICES StepsLeft(d) < StepsLeft(c)
  OBVIOUS
<1> HIDE DEF c, d
<1>8. CASE ClearFlag(s)
  BY <1>1, <1>5, <1>7, <1>8 DEF ClearFlag, OpeningPcs, Position, c
<1>9. CASE Qiopen(s)
  BY <1>1, <1>5, <1>7, <1>9 DEF Qiopen, OpeningPcs, Position, c
<1>10. CASE WaitAnswer(s)
  BY <1>1, <1>5, <1>7, <1>10 DEF WaitAnswer, OpeningPcs, Position, c
<1>11. CASE WaitTimeout(s)
  <2>1. /\ c.pc = "wait" /\ d.pc \in {"closeOwn", "decide"}
        /\ d.op = c.op /\ d.attempt = c.attempt
    BY <1>11 DEF WaitTimeout, CallType, Calls, c, d
  <2> QED
    BY <1>0, <2>1, LaterInAttempt DEF OpeningPcs, Position
<1>12. CASE ReadId(s) \/ ReadErr(s)
  <2>1. /\ \/ c.pc = "readId" /\ d.pc = "readErr"
           \/ c.pc = "readErr" /\ d.pc = "decide"
        /\ d.op = c.op /\ d.attempt = c.attempt
    BY <1>12 DEF ReadId, ReadErr, CallType, Calls, c, d
  <2> QED
    BY <1>0, <2>1, LaterInAttempt DEF OpeningPcs, Position
<1>13. CASE ConnectDecide(s)
  <2>1. c.pc = "decide" /\ (Return(s) \/ Goto(s, "closeOther") \/ Retry(s, "closeOwn"))
    BY <1>13 DEF ConnectDecide, c
  <2> QED
    BY <1>1, <1>2, <1>3, <1>5, <1>6, <1>7, <2>1 DEF OpeningPcs, Position
<1>14. CASE CloseOwn(s) \/ CloseOther(s)
  BY <1>2, <1>6, <1>14 DEF CloseOwn, CloseOther, c
<1>15. CASE UdpDecide(s)
  <2>1. c.pc = "decide" /\ (Goto(s, "closeImpl") \/ Goto(s, "created") \/ CreateReturns(s, FALSE))
    BY <1>15 DEF UdpDecide, c
  <2>2. CASE CreateReturns(s, FALSE)
    BY <1>4, <2>1, <2>2 DEF OpeningPcs
  <2>3. CASE Goto(s, "closeImpl") \/ Goto(s, "created")
    BY <1>1, <1>5, <1>7, <2>1, <2>3 DEF OpeningPcs, Position
  <2> QED
    BY <2>1, <2>2, <2>3
<1>16. CASE CloseImpl(s)
  <2>1. c.pc = "closeImpl" /\ (Goto(s, "created") \/ Retry(s, "created"))
    BY <1>16 DEF CloseImpl, c
  <2> QED
    BY <1>1, <1>3, <1>5, <1>7, <2>1 DEF OpeningPcs, Position
<1>17. CASE Created(s)
  <2>1. c.pc = "created" /\ CreateReturns(s, ~atErr) /\ (~atErr) \in BOOLEAN
    BY <1>17 DEF Created, c
  <2> QED
    BY <1>4, <2>1 DEF OpeningPcs
<1>18. CASE SendLock(s)
  <2>1. c.pc = "lock" /\ (d = [c EXCEPT !.pc = "reclose"] \/ d = [c EXCEPT !.pc = "send"])
    BY <1>5, <1>7, <1>18 DEF SendLock, c
  <2>2. c.pc = "lock" /\ d.pc \in {"reclose", "send"}
    BY <1>0, <2>1 DEF Calls
  <2> QED
    BY <1>0, <2>2, StepsLeftValue
<1>19. CASE SendReclose(s)
  <2>1. CASE Start(s, "reopen", "clear")
    <3>1. d.pc = "clear" /\ d.op = "reopen"
      BY <2>1, <1>7, StartType DEF d
    <3>2. StepsLeft(d) = 1 + Opening(d) /\ Opening(d) \in 1..19
      BY <1>0, <3>1, StepsLeftValue, OpeningValue DEF OpeningPcs
    <3>3. StepsLeft(c) = 22
      BY <1>0, <1>19, StepsLeftValue DEF SendReclose, c
    <3> QED
      BY <3>2, <3>3
  <2>2. CASE Goto(s, "send")
    <3>1. d.pc = "send"
      BY <1>0, <1>5, <1>7, <2>2 DEF Calls
    <3>2. StepsLeft(d) = 1 /\ StepsLeft(c) = 22
      BY <1>0, <1>19, <3>1, StepsLeftValue DEF SendReclose, c
    <3> QED
      BY <3>2
  <2> QED
    BY <1>19, <2>1, <2>2 DEF SendReclose
<1>20. CASE Qisend(s)
  BY <1>2, <1>6, <1>20 DEF Qisend, c
<1> QED
  BY <1>8, <1>9, <1>10, <1>11, <1>12, <1>13, <1>14, <1>15, <1>16, <1>17, <1>18, <1>19, <1>20
     DEF Step, c, d

(* A step of one thread changes no other thread's call, and only an idle   *)
(* thread starts one.                                                      *)
LEMMA CallsOfOthers ==
    ASSUME CallType, NEW s \in Slots, Call(s) \/ Step(s)
    PROVE  /\ \A t \in Slots \ {s} : call'[t] = call[t]
           /\ Call(s) => call[s] = NoCall
<1>1. CASE Call(s)
  BY <1>1 DEF Call, SocketOpen, SocketClose, SocketConnect, SocketSendto, SocketRecvfrom, Idle,
              Start, CallType
<1>2. CASE Step(s)
  <2>0. ~Call(s) \/ call[s] = NoCall
    BY DEF Call, SocketOpen, SocketClose, SocketConnect, SocketSendto, SocketRecvfrom, Idle
  <2>1. \A l \in Pcs : Goto(s, l) => \A t \in Slots \ {s} : call'[t] = call[t]
    BY DEF Goto, CallType
  <2>2. {"open", "wait", "readId", "readErr", "decide", "closeOwn", "closeOther", "closeImpl",
         "created", "reclose", "send", "clear", "lock"} \subseteq Pcs
    BY DEF Pcs, Commanding
  <2>3. \A l \in Pcs : Retry(s, l) => \A t \in Slots \ {s} : call'[t] = call[t]
    BY RetryType
  <2>4. \A ok \in BOOLEAN : CreateReturns(s, ok) => \A t \in Slots \ {s} : call'[t] = call[t]
    BY CreateReturnsType
  <2>5. Return(s) => \A t \in Slots \ {s} : call'[t] = call[t]
    BY DEF Return, CallType
  <2>6. CASE ClearFlag(s) \/ Qiopen(s) \/ WaitAnswer(s)
    BY <2>1, <2>2, <2>6, <2>0 DEF ClearFlag, Qiopen, WaitAnswer
  <2>7. CASE WaitTimeout(s) \/ ReadId(s) \/ ReadErr(s)
    BY <2>7, <2>0 DEF WaitTimeout, ReadId, ReadErr, CallType
  <2>8. CASE ConnectDecide(s) \/ CloseOwn(s) \/ CloseOther(s)
    BY <2>1, <2>2, <2>3, <2>5, <2>8, <2>0 DEF ConnectDecide, CloseOwn, CloseOther
  <2>9. CASE UdpDecide(s) \/ CloseImpl(s) \/ Created(s)
    BY <2>1, <2>2, <2>3, <2>4, <2>9, <2>0 DEF UdpDecide, CloseImpl, Created
  <2>10. CASE SendLock(s) \/ SendReclose(s) \/ Qisend(s)
    BY <2>1, <2>2, <2>5, <2>10, <2>0 DEF SendLock, SendReclose, Qisend, Start, CallType
  <2> QED
    BY <1>2, <2>6, <2>7, <2>8, <2>9, <2>10, <2>0 DEF Step
<1> QED
  BY <1>1, <1>2

(* Any step either leaves a call in progress alone or brings it nearer to  *)
(* its end.                                                                *)
LEMMA NextDescends ==
    ASSUME CallType, CallType', StateType, [Next]_vars,
           NEW s \in Slots, call[s] # NoCall, call'[s] # call[s]
    PROVE  StepsLeft(call'[s]) < StepsLeft(call[s])
<1>1. ASSUME NEW t \in Slots, Call(t) \/ Step(t)
      PROVE  s = t /\ Step(s)
  BY <1>1, CallsOfOthers
<1>2. CASE CloseAllSockets \/ HandleUrc \/ Modem \/ UNCHANGED vars
  BY <1>2, CloseAllType, HandleUrcType, ModemType DEF vars
<1> QED
  BY <1>1, <1>2, StepDescends DEF Next

(* A call takes at most 43 steps, whatever the modem and the other threads *)
(* do meanwhile.                                                           *)
THEOREM CallsEnd == Spec => CallsDescend
<1>1. TypeOK /\ TypeOK' /\ [Next]_vars
      => [\A s \in Slots : (call[s] # NoCall /\ call'[s] # call[s])
                           => StepsLeft(call'[s]) \in 0..(StepsLeft(call[s]) - 1)]_vars
  <2> SUFFICES ASSUME TypeOK, TypeOK', [Next]_vars,
                      NEW s \in Slots, call[s] # NoCall, call'[s] # call[s]
               PROVE  StepsLeft(call'[s]) \in 0..(StepsLeft(call[s]) - 1)
    OBVIOUS
  <2>1. CallType /\ StateType
    BY TypeParts
  <2>2. CallType'
    BY DEF TypeOK, CallType, Calls, Pcs
  <2>3. StepsLeft(call'[s]) < StepsLeft(call[s])
    BY <2>1, <2>2, NextDescends
  <2>4. StepsLeft(call'[s]) \in 0..43 /\ StepsLeft(call[s]) \in 0..43
    BY <2>1, <2>2, StepsLeftNat DEF CallType
  <2> QED
    BY <2>3, <2>4
<1> QED
  BY <1>1, TypeCorrect, PTL DEF Spec, CallsDescend

-----------------------------------------------------------------------------
(* Nobody waits for ever.                                                  *)

(* A thread at "idle" is outside every call; and the event queue has the   *)
(* AT lock only while it handles a URC.                                    *)
QueueInv ==
    /\ \A s \in Slots : call[s].pc = "idle" => call[s] = NoCall
    /\ atOwner = "urc" => urc # NoMsg

(* The queue's part of the invariant holds at the start.                   *)
LEMMA QueueInit == Init => QueueInv
BY NamesAssumption DEF Init, QueueInv

(* Every step keeps it.                                                    *)
LEMMA QueueStep ==
    ASSUME StateType, CallType, CallType', QueueInv, [Next]_vars
    PROVE  QueueInv'
<1>1. ASSUME NEW s \in Slots, Call(s)
      PROVE  QueueInv'
  <2>1. atOwner' = atOwner /\ urc' = urc
    BY <1>1 DEF Call, SocketOpen, SocketClose, SocketConnect, SocketSendto, SocketRecvfrom, atVars
  <2>2. call'[s] = call[s] \/ call'[s].pc \in {"clear", "lock"}
    BY <1>1 DEF Call, SocketOpen, SocketClose, SocketConnect, SocketSendto, SocketRecvfrom,
                Start, NoCall, CallType
  <2> QED
    BY <1>1, <2>1, <2>2, CallsOfOthers DEF QueueInv
<1>2. ASSUME NEW s \in Slots, Step(s)
      PROVE  QueueInv'
  <2>1. atOwner' = "urc" => atOwner = "urc"
    BY <1>2, NamesAssumption
       DEF Step, ClearFlag, Qiopen, WaitAnswer, WaitTimeout, ReadId, ReadErr, ConnectDecide, CloseOwn,
           CloseOther, UdpDecide, CloseImpl, Created, SendLock, SendReclose, Qisend, atVars
  <2>2. urc' = urc
    BY <1>2
       DEF Step, ClearFlag, Qiopen, WaitAnswer, WaitTimeout, ReadId, ReadErr, ConnectDecide, CloseOwn,
           CloseOther, UdpDecide, CloseImpl, Created, SendLock, SendReclose, Qisend
  <2>3. call'[s].pc = "idle" => call'[s] = NoCall
    <3>1. \A l \in Pcs \ {"idle"} : (Goto(s, l) \/ Retry(s, l)) => call'[s].pc # "idle"
      BY GotoType, RetryType
    <3>2. {"open", "wait", "readId", "readErr", "decide", "closeOwn", "closeOther", "closeImpl",
           "created", "reclose", "send", "clear", "lock"} \subseteq Pcs \ {"idle"}
      BY DEF Pcs, Commanding
    <3>3. \A ok \in BOOLEAN : CreateReturns(s, ok) => (call'[s].pc # "idle" \/ call'[s] = NoCall)
      BY CreateReturnsType
    <3>4. Return(s) => call'[s] = NoCall
      BY DEF Return, CallType
    <3>5. CASE ClearFlag(s) \/ Qiopen(s) \/ WaitAnswer(s) \/ SendLock(s) \/ Qisend(s)
      BY <3>1, <3>2, <3>4, <3>5 DEF ClearFlag, Qiopen, WaitAnswer, SendLock, Qisend
    <3>6. CASE WaitTimeout(s) \/ ReadId(s) \/ ReadErr(s)
      BY <3>6 DEF WaitTimeout, ReadId, ReadErr, CallType, Calls
    <3>7. CASE ConnectDecide(s) \/ CloseOwn(s) \/ CloseOther(s)
      BY <3>1, <3>2, <3>4, <3>7 DEF ConnectDecide, CloseOwn, CloseOther
    <3>8. CASE UdpDecide(s) \/ CloseImpl(s) \/ Created(s)
      BY <3>1, <3>2, <3>3, <3>8 DEF UdpDecide, CloseImpl, Created
    <3>9. CASE SendReclose(s)
      BY <3>1, <3>2, <3>9, StartType DEF SendReclose
    <3> QED
      BY <1>2, <3>5, <3>6, <3>7, <3>8, <3>9 DEF Step
  <2> QED
    BY <1>2, <2>1, <2>2, <2>3, CallsOfOthers DEF QueueInv
<1>3. CASE CloseAllSockets \/ Modem
  <2>1. atOwner' = atOwner /\ urc' = urc /\ call' = call
    BY <1>3, CloseAllType, ModemType DEF CloseAllSockets, Modem, ModemAnswer, ModemDrop, atVars
  <2> QED
    BY <2>1 DEF QueueInv
<1>4. CASE HandleUrc
  <2>1. urcs # <<>> => Head(urcs) # NoMsg
    <3> SUFFICES ASSUME urcs # <<>> PROVE Head(urcs) # NoMsg
      OBVIOUS
    <3>1. Head(urcs) \in Msg
      BY HeadTailProperties DEF StateType
    <3> QED
      BY <3>1, NoMsgAssumption
  <2>2. atOwner' = "urc" => urc' # NoMsg
    <3>1. CASE UrcOpenId
      BY <2>1, <3>1 DEF UrcOpenId, CanHandle
    <3>2. CASE UrcOpenErr
      BY <3>2, NamesAssumption DEF UrcOpenErr
    <3>3. CASE UrcClosed
      BY <3>3 DEF UrcClosed, QueueInv
    <3> QED
      BY <1>4, <3>1, <3>2, <3>3 DEF HandleUrc
  <2>3. call' = call
    BY <1>4, HandleUrcType
  <2> QED
    BY <2>2, <2>3 DEF QueueInv
<1>5. CASE UNCHANGED vars
  BY <1>5 DEF vars, QueueInv, atVars
<1> QED
  BY <1>1, <1>2, <1>3, <1>4, <1>5 DEF Next

(* If the lock is free, an URC can be handled or else any thread that is   *)
(* in a call can step; if a thread holds it, that thread can, or it is     *)
(* reading the line and handles the URC.                                   *)
LEMMA SomeoneCanStep ==
    ASSUME StateType, CallType, LockInv, QueueInv
    PROVE  NeverStuck
<1> SUFFICES ASSUME urc = NoMsg, ~CanHandle, NEW s \in Slots, call[s] # NoCall
             PROVE  \E t \in Slots : CanStep(t)
  BY DEF NeverStuck
<1>1. atOwner \in Slots \cup {NoOne}
  BY DEF StateType, QueueInv
<1>2. \A t \in Slots : call[t].pc \in Pcs /\ (call[t].pc = "idle" => call[t] = NoCall)
  BY DEF CallType, Calls, QueueInv
<1>3. CASE atOwner = NoOne
  <2>1. urcs = <<>>
    BY <1>3 DEF CanHandle
  <2>2. Command(s)
    BY <1>3, <2>1 DEF Command
  <2>3. CanStep(s)
    BY <1>2, <1>3, <2>2 DEF CanStep, Pcs, Commanding
  <2> QED
    BY <2>3
<1>4. CASE atOwner \in Slots
  <2> DEFINE t == atOwner
  <2>1. /\ call[t].op = "reopen" \/ (call[t].op = "send" /\ call[t].pc \in {"reclose", "send"})
        /\ call[t].pc = "lock" => call[t].op = "send"
    BY <1>4 DEF LockInv, ThreadLock
  <2>2. call[t].pc \notin {"idle", "lock"}
    BY <1>2, <1>4, <2>1 DEF NoCall
  <2>3. CASE call[t].pc \in Commanding
    <3>1. urcs = <<>>
      BY <1>4, <2>3, NamesAssumption DEF CanHandle
    <3>2. Command(t)
      BY <1>4, <3>1 DEF Command
    <3>3. CanStep(t)
      BY <2>3, <3>2 DEF CanStep, Commanding
    <3> QED
      BY <1>4, <3>3
  <2>4. CASE call[t].pc \notin Commanding
    <3>1. CanStep(t)
      BY <1>2, <1>4, <2>2, <2>4 DEF CanStep, Pcs
    <3> QED
      BY <1>4, <3>1
  <2> QED
    BY <2>3, <2>4
<1> QED
  BY <1>1, <1>3, <1>4

(* As long as a call is in progress, one of the driver's threads can move. *)
THEOREM NoDeadlock == Spec => []NeverStuck
<1>1. TypeOK /\ TypeOK' /\ QueueInv /\ [Next]_vars => QueueInv'
  <2> SUFFICES ASSUME TypeOK, TypeOK', QueueInv, [Next]_vars PROVE QueueInv'
    OBVIOUS
  <2>1. CallType'
    BY DEF TypeOK, CallType, Calls, Pcs
  <2> QED
    BY <2>1, TypeParts, QueueStep
<1>2. TypeOK /\ LockInv /\ QueueInv => NeverStuck
  BY TypeParts, SomeoneCanStep
<1> QED
  BY <1>1, <1>2, TypeCorrect, LockDiscipline, QueueInit, PTL DEF Spec

-----------------------------------------------------------------------------
(* The life of a socket.                                                   *)

(* A "closed" URC for m is on its way. *)
Dropped(m) == \E i \in 1..Len(urcs) : urcs[i].type = "closed" /\ urcs[i].id = m

(* The calls that open a UDP socket. *)
OpensUdp(c) == c.op \in {"recv", "reopen"} \/ (c.op # "connect" /\ c.pc \in OpeningPcs)

(* What a socket's fields say of each other and of its thread's call: an   *)
(* opening works on a socket that has no id, or on a UDP socket, and a UDP *)
(* socket is never closed.                                                 *)
Living(k, s, c) ==
    /\ k.id \in {NoId, s}
    /\ k.proto = "none" => k.id = NoId
    /\ k.proto # "TCP" => k.closed = FALSE
    /\ k.proto = "TCP" => (k.connected = TRUE <=> k.id = s)
    /\ k.closed = TRUE => k.id = s
    /\ c.op = "connect" => /\ k.proto = "TCP" /\ k.connected = FALSE
                            /\ c.pc \notin {"closeImpl", "created"}
    /\ OpensUdp(c) => k.proto = "UDP"

LifeInv ==
    /\ \A s \in Slots : Living(socket[s], s, call[s])
    /\ \A s \in Slots : Dropped(s) => socket[s].proto = "TCP"

(* The initial state is the initial state of SocketLife.                   *)
LEMMA LifeInit == Init => LifeInv /\ Life!Init
<1> SUFFICES ASSUME Init PROVE LifeInv /\ Life!Init
  OBVIOUS
<1>1. \A s \in Slots : ~Dropped(s)
  BY EmptySeq DEF Init, Dropped
<1> QED
  BY <1>1 DEF Init, LifeInv, Living, OpensUdp, OpeningPcs, Free, NoCall, Life!Init, Lives, LifeState

(* Steps that change no socket and put no URC on the line.                 *)
LEMMA LifeKept ==
    ASSUME LifeInv, UNCHANGED <<socket, urcs>>,
           UNCHANGED call
    PROVE  LifeInv' /\ UNCHANGED Lives
<1>1. LifeInv'
  BY DEF LifeInv, Living, Dropped
<1> QED
  BY <1>1 DEF Lives, LifeState

(* A call starts on a socket it may open, and one that closes the socket   *)
(* does so when no URC is on its way.                                      *)
LEMMA LifeCalls ==
    ASSUME StateType, CallType, LifeInv, NEW s \in Slots, Call(s)
    PROVE  LifeInv' /\ [Life!Next]_Lives
<1>1. ASSUME NEW proto \in Protocols[s], SocketOpen(s, proto)
      PROVE  LifeInv' /\ [Life!Next]_Lives
  <2>1. /\ socket'[s] = [Free EXCEPT !.proto = proto]
        /\ \A t \in Slots \ {s} : socket'[t] = socket[t]
        /\ call' = call /\ urcs' = urcs
        /\ call[s] = NoCall /\ socket[s].proto = "none"
    BY <1>1 DEF SocketOpen, Idle, StateType, modemVars
  <2>2. proto \in {"UDP", "TCP"}
    BY ParametersAssumption
  <2>3. LifeInv'
    <3>1. Living(socket'[s], s, call'[s])
      <4>1. /\ socket'[s].id = NoId /\ socket'[s].proto \in {"UDP", "TCP"} /\ s # NoId
            /\ socket'[s].connected = FALSE /\ socket'[s].closed = FALSE
        BY <2>1, <2>2, NamesAssumption DEF Free
      <4>2. call'[s].op = "none" /\ call'[s].pc = "idle"
        BY <2>1 DEF NoCall
      <4> QED
        BY <4>1, <4>2 DEF Living, OpensUdp, OpeningPcs
    <3>2. \A t \in Slots : Dropped(t)' => Dropped(t)
      BY <2>1 DEF Dropped
    <3> QED
      BY <2>1, <3>1, <3>2 DEF LifeInv
  <2>4. Life!Open(s)
    BY <2>1, <2>2 DEF Life!Open, Lives, LifeState, Free
  <2> QED
    BY <2>3, <2>4 DEF Life!Next
<1>2. CASE SocketClose(s)
  <2>1. /\ socket'[s] = Free
        /\ \A t \in Slots \ {s} : socket'[t] = socket[t]
        /\ call' = call /\ urcs' = urcs /\ urcs = <<>>
        /\ call[s] = NoCall
    BY <1>2 DEF SocketClose, Idle, Command, StateType
  <2>2. LifeInv'
    <3>1. Living(socket'[s], s, call'[s])
      BY <2>1 DEF Living, OpensUdp, Free, NoCall, OpeningPcs
    <3>2. \A t \in Slots : ~Dropped(t)'
      BY <2>1, EmptySeq DEF Dropped
    <3> QED
      BY <2>1, <3>1, <3>2 DEF LifeInv
  <2>3. Life!Close({s}) /\ {s} \in SUBSET Slots
    BY <2>1 DEF Life!Close, Lives, LifeState, Free
  <2> QED
    BY <2>2, <2>3 DEF Life!Next
<1>3. CASE SocketConnect(s)
  <2>1. /\ call'[s].op = "connect" /\ \A t \in Slots \ {s} : call'[t] = call[t]
        /\ socket[s].proto = "TCP" /\ socket[s].connected = FALSE
        /\ socket' = socket /\ urcs' = urcs /\ call'[s].pc = "clear"
    BY <1>3, StartType DEF SocketConnect, StateType, Pcs, modemVars
  <2>2. LifeInv'
    BY <2>1 DEF LifeInv, Living, OpensUdp, Dropped
  <2> QED
    BY <2>1, <2>2 DEF Lives, LifeState
<1>4. ASSUME SocketRecvfrom(s) \/ \E fam \in Families : SocketSendto(s, fam)
      PROVE  LifeInv' /\ [Life!Next]_Lives
  <2>1. /\ call'[s].op \in {"recv", "send"} /\ \A t \in Slots \ {s} : call'[t] = call[t]
        /\ socket' = socket /\ urcs' = urcs
    <3>1. CASE SocketRecvfrom(s)
      BY <3>1, StartType DEF SocketRecvfrom, Pcs, modemVars
    <3>2. CASE \E fam \in Families : SocketSendto(s, fam)
      BY <3>2 DEF SocketSendto, NoCall, CallType, modemVars
    <3> QED
      BY <1>4, <3>1, <3>2
  <2>2. OpensUdp(call'[s]) => socket[s].proto = "UDP"
    <3>1. CASE SocketRecvfrom(s)
      BY <3>1 DEF SocketRecvfrom
    <3>2. ASSUME NEW fam \in Families, SocketSendto(s, fam), OpensUdp(call'[s])
          PROVE  socket[s].proto = "UDP"
      <4>1. socket[s].id = NoId
        BY <2>1, <3>2 DEF SocketSendto, OpensUdp, NoCall, CallType, OpeningPcs
      <4> QED
        BY <3>2, <4>1, NamesAssumption DEF SocketSendto, LifeInv, Living
    <3> QED
      BY <1>4, <3>1, <3>2
  <2>3. LifeInv'
    BY <2>1, <2>2 DEF LifeInv, Living, Dropped
  <2> QED
    BY <2>1, <2>3 DEF Lives, LifeState
<1> QED
  BY <1>1, <1>2, <1>3, <1>4 DEF Call

(* Inside a call, a socket gets its id when the opening succeeds, and only *)
(* a failed reopening takes it away.                                       *)
LEMMA LifeSteps ==
    ASSUME StateType, CallType, LockInv, LifeInv, NEW s \in Slots, Step(s)
    PROVE  LifeInv' /\ [Life!Next]_Lives
<1>0. /\ Living(socket[s], s, call[s]) /\ ThreadLock(s)
      /\ \A t \in Slots \ {s} : call'[t] = call[t]
  BY CallsOfOthers DEF LifeInv, LockInv
<1>1. {"open", "wait", "readId", "readErr", "decide", "closeOwn", "closeOther", "closeImpl",
       "created", "reclose", "send", "clear", "lock"} \subseteq Pcs
  BY DEF Pcs, Commanding
<1>2. ASSUME UNCHANGED <<socket, urcs>>,
             call'[s].op = "connect" => /\ call[s].op = "connect"
                                        /\ call'[s].pc \notin {"closeImpl", "created"},
             OpensUdp(call'[s]) => OpensUdp(call[s]) \/ socket[s].proto = "UDP"
      PROVE  LifeInv' /\ [Life!Next]_Lives
  <2>1. LifeInv'
    BY <1>0, <1>2 DEF LifeInv, Living, Dropped
  <2> QED
    BY <1>2, <2>1 DEF Lives, LifeState
(* Steps that change the socket: a new one, or the id of a UDP socket. *)
<1>3. ASSUME NEW k, socket' = [socket EXCEPT ![s] = k], urcs' = urcs,
             k.proto = socket[s].proto, socket[s].proto # "none",
             k.closed = FALSE, socket[s].closed = FALSE, k.id \in {NoId, s},
             Living(k, s, call'[s]), k.id = NoId => socket[s].proto = "UDP"
      PROVE  LifeInv' /\ [Life!Next]_Lives
  <2>1. socket'[s] = k /\ \A t \in Slots \ {s} : socket'[t] = socket[t]
    BY <1>3 DEF StateType
  <2>2. LifeInv'
    BY <1>0, <1>3, <2>1 DEF LifeInv, Dropped
  <2>3. \A t \in Slots \ {s} : LifeState(t)' = LifeState(t)
    BY <2>1 DEF LifeState
  <2>4. s # NoId
    BY NamesAssumption
  <2>5. CASE LifeState(s)' = LifeState(s)
    BY <2>2, <2>3, <2>5 DEF Lives
  <2>6. CASE k.id = s /\ socket[s].id = NoId
    <3>0. LifeState(s) = "new" /\ LifeState(s)' = "open"
      BY <1>3, <2>1, <2>4, <2>6 DEF LifeState
    <3>1. Life!Bind(s)
      BY <2>3, <3>0 DEF Life!Bind, Lives
    <3> QED
      BY <2>2, <3>1 DEF Life!Next
  <2>7. CASE k.id = NoId /\ socket[s].id = s
    <3>0. LifeState(s) = "open" /\ LifeState(s)' = "new"
      BY <1>3, <2>1, <2>4, <2>7 DEF LifeState
    <3>1. Life!Unbind(s)
      BY <2>3, <3>0 DEF Life!Unbind, Lives
    <3> QED
      BY <2>2, <3>1 DEF Life!Next
  <2>8. k.id = socket[s].id => LifeState(s)' = LifeState(s)
    BY <1>3, <2>1 DEF LifeState
  <2> QED
    BY <1>0, <1>3, <2>5, <2>6, <2>7, <2>8 DEF Living
<1>4. CASE \/ ClearFlag(s) \/ Qiopen(s) \/ WaitAnswer(s)
           \/ CloseOwn(s) \/ CloseOther(s) \/ CloseImpl(s)
  <2>1. UNCHANGED <<socket, urcs>>
    BY <1>4 DEF ClearFlag, Qiopen, WaitAnswer, CloseOwn, CloseOther, CloseImpl, modemVars
  <2>2. /\ \/ call'[s].op = call[s].op /\ call'[s].pc \notin {"closeImpl", "created"}
           \/ call'[s].op = call[s].op /\ call[s].pc = "closeImpl"
           \/ call'[s] = NoCall
        /\ call[s].pc \in OpeningPcs
    BY <1>1, <1>4, GotoType, ReturnType, RetryType
       DEF ClearFlag, Qiopen, WaitAnswer, CloseOwn, CloseOther, CloseImpl, OpeningPcs
  <2> QED
    BY <1>0, <1>2, <2>1, <2>2 DEF OpensUdp, NoCall, OpeningPcs, Living
<1>5. CASE WaitTimeout(s) \/ ReadId(s) \/ ReadErr(s)
  <2>1. UNCHANGED <<socket, urcs>>
    BY <1>5 DEF WaitTimeout, ReadId, ReadErr, modemVars
  <2>2. /\ call'[s].op = call[s].op /\ call[s].pc \in OpeningPcs
        /\ call'[s].pc \notin {"closeImpl", "created"}
    BY <1>5 DEF WaitTimeout, ReadId, ReadErr, CallType, Calls, OpeningPcs
  <2> QED
    BY <1>2, <2>1, <2>2 DEF OpensUdp
<1>6. CASE ConnectDecide(s)
  <2>1. /\ call[s].op = "connect" /\ socket[s].proto = "TCP"
        /\ socket[s].connected = FALSE /\ socket[s].id = NoId /\ socket[s].closed = FALSE
        /\ s # NoId /\ urcs' = urcs
    BY <1>0, <1>6, NamesAssumption DEF ConnectDecide, Connecting, Living, StateType, modemVars
  <2>2. CASE socket' = [socket EXCEPT ![s].id = NoId] /\ Return(s)
    <3>1. socket' = socket
      BY <2>1, <2>2 DEF StateType
    <3> QED
      BY <1>2, <2>1, <2>2, <3>1, ReturnType DEF NoCall, OpensUdp, OpeningPcs
  <2>3. CASE socket' = [socket EXCEPT ![s].id = s, ![s].connected = TRUE] /\ Return(s)
    <3> DEFINE k == [socket[s] EXCEPT !.id = s, !.connected = TRUE]
    <3>1. socket' = [socket EXCEPT ![s] = k]
      BY <2>3 DEF StateType
    <3>2. k.proto = "TCP" /\ k.closed = FALSE /\ k.id = s /\ k.connected = TRUE
      BY <2>1 DEF StateType
    <3>3. call'[s] = NoCall
      BY <2>3, ReturnType
    <3> HIDE DEF k
    <3>4. Living(k, s, call'[s])
      BY <2>1, <3>2, <3>3 DEF Living, NoCall, OpensUdp, OpeningPcs
    <3> QED
      BY <1>3, <2>1, <3>1, <3>2, <3>4
  <2>4. CASE socket' = socket /\ (Goto(s, "closeOther") \/ Retry(s, "closeOwn"))
    <3>1. /\ call'[s].op = call[s].op
          /\ call'[s].pc \in {"closeOther", "clear", "closeOwn"}
      BY <1>1, <2>4, GotoType, RetryType
    <3> QED
      BY <1>2, <2>1, <2>4, <3>1 DEF OpensUdp
  <2> QED
    BY <1>6, <2>2, <2>3, <2>4 DEF ConnectDecide
<1>7. CASE UdpDecide(s) \/ Created(s)
  <2>1. /\ call[s].op # "connect" /\ call[s].pc \in {"decide", "created"}
        /\ urcs' = urcs /\ s # NoId
    BY <1>0, <1>7, NamesAssumption DEF UdpDecide, Created, Connecting, Living, modemVars
  <2>2. socket[s].proto = "UDP" /\ socket[s].closed = FALSE
    BY <1>0, <2>1 DEF Living, OpensUdp, OpeningPcs
  <2>3. call'[s].op # "connect"
    <3>0. NoCall.op = "none"
      BY DEF NoCall
    <3>1. CASE UdpDecide(s)
      <4>1. Goto(s, "closeImpl") \/ Goto(s, "created") \/ CreateReturns(s, FALSE)
        BY <3>1 DEF UdpDecide
      <4>2. CASE CreateReturns(s, FALSE)
        BY <2>1, <3>0, <4>2, CreateReturnsType
      <4>3. CASE Goto(s, "closeImpl") \/ Goto(s, "created")
        BY <1>1, <2>1, <4>3, GotoType
      <4> QED
        BY <4>1, <4>2, <4>3
    <3>2. CASE Created(s)
      <4>1. CreateReturns(s, ~atErr) /\ (~atErr) \in BOOLEAN
        BY <3>2 DEF Created
      <4> QED
        BY <2>1, <3>0, <4>1, CreateReturnsType
    <3> QED
      BY <1>7, <3>1, <3>2
  <2>4. CASE socket' = socket
    BY <1>2, <2>1, <2>2, <2>3, <2>4
  <2>5. ASSUME NEW id \in {NoId, s}, socket' = [socket EXCEPT ![s].id = id]
        PROVE  LifeInv' /\ [Life!Next]_Lives
    <3> DEFINE k == [socket[s] EXCEPT !.id = id]
    <3>1. socket' = [socket EXCEPT ![s] = k]
      BY <2>5 DEF StateType
    <3>2. k.proto = "UDP" /\ k.closed = FALSE /\ k.id = id
      BY <2>2 DEF StateType
    <3> HIDE DEF k
    <3>3. Living(k, s, call'[s])
      BY <2>3, <2>5, <3>2 DEF Living
    <3> QED
      BY <1>3, <2>1, <2>2, <2>5, <3>1, <3>2, <3>3
  <2> QED
    BY <1>7, <2>4, <2>5 DEF UdpDecide, Created
<1>8. CASE SendLock(s) \/ Qisend(s)
  <2>1. UNCHANGED <<socket, urcs>>
    BY <1>8 DEF SendLock, Qisend, Command, modemVars
  <2>2. /\ call'[s].op \in {call[s].op, "none"}
        /\ call'[s].pc \in {"reclose", "send", "idle"}
    BY <1>1, <1>8, GotoType, ReturnType DEF SendLock, Qisend, NoCall
  <2> QED
    BY <1>2, <2>1, <2>2 DEF OpensUdp, OpeningPcs
<1>9. CASE SendReclose(s)
  <2>1. UNCHANGED <<socket, urcs>>
    BY <1>9 DEF SendReclose
  <2>2. CASE socket[s].proto = "UDP" /\ Start(s, "reopen", "clear")
    BY <1>1, <1>2, <2>1, <2>2, StartType
  <2>3. CASE Goto(s, "send")
    <3>1. call'[s].pc = "send" /\ call'[s].op = call[s].op
      BY <1>1, <2>3, GotoType
    <3> QED
      BY <1>2, <2>1, <3>1 DEF OpensUdp, OpeningPcs
  <2> QED
    BY <1>9, <2>2, <2>3 DEF SendReclose
<1> QED
  BY <1>4, <1>5, <1>6, <1>7, <1>8, <1>9 DEF Step
(* The modem drops only connections of TCP sockets.                        *)
LEMMA LifeModem ==
    ASSUME StateType, LifeInv, Modem
    PROVE  LifeInv' /\ UNCHANGED Lives
<1>0. urcs \in Seq(Msg) /\ Len(urcs) \in Nat
  BY LenProperties DEF StateType
<1>1. UNCHANGED <<socket, call>>
  BY DEF Modem, ModemAnswer, ModemDrop
<1>2. ASSUME NEW m \in Slots, NEW u \in Msg, urcs' = Append(urcs, u),
             u.type = "closed" => socket[u.id].proto = "TCP"
      PROVE  LifeInv'
  <2>1. ASSUME NEW t \in Slots, Dropped(t)' PROVE socket[t].proto = "TCP"
    <3>1. PICK i \in 1..Len(urcs') : urcs'[i].type = "closed" /\ urcs'[i].id = t
      BY <2>1 DEF Dropped
    <3>2. CASE i \in 1..Len(urcs)
      BY <1>0, <1>2, <3>1, <3>2, AppendProperties DEF LifeInv, Dropped
    <3>3. CASE i = Len(urcs) + 1
      BY <1>0, <1>2, <3>1, <3>3, AppendProperties
    <3> QED
      BY <1>0, <1>2, <3>1, <3>2, <3>3, AppendProperties
  <2> QED
    BY <1>1, <2>1 DEF LifeInv
<1>3. ASSUME NEW m \in Slots, ModemAnswer(m)
      PROVE  LifeInv'
  <2>1. PICK r \in {"ok", "fail", "bind"} :
          urcs' = Append(urcs, [type |-> "open", id |-> m, result |-> r])
    BY <1>3 DEF ModemAnswer
  <2>2. [type |-> "open", id |-> m, result |-> r] \in Msg
    BY DEF Msg, Results
  <2> QED
    BY <1>2, <2>1, <2>2
<1>4. ASSUME NEW m \in Slots, ModemDrop(m)
      PROVE  LifeInv'
  <2>1. [type |-> "closed", id |-> m, result |-> "none"] \in Msg
    BY DEF Msg, Results
  <2> QED
    BY <1>2, <1>4, <2>1 DEF ModemDrop
<1> QED
  BY <1>1, <1>3, <1>4 DEF Modem, Lives, LifeState

(* A "closed" URC ends the socket that has its id, if there is one.        *)
LEMMA LifeHandleUrc ==
    ASSUME StateType, LifeInv, HandleUrc
    PROVE  LifeInv' /\ [Life!Next]_Lives
<1>0. UNCHANGED call
  BY HandleUrcType
<1>1. CASE UrcOpenErr
  BY <1>0, <1>1, LifeKept DEF UrcOpenErr, modemVars
<1>2. CASE UrcOpenId \/ UrcClosed
  <2>1. urcs # <<>> /\ urcs \in Seq(Msg) /\ urcs' = Tail(urcs) /\ Len(urcs) \in Nat
    BY <1>2, LenProperties DEF UrcOpenId, UrcClosed, CanHandle, StateType
  <2>2. /\ Head(urcs) = urcs[1] /\ Head(urcs) \in Msg /\ 1 \in 1..Len(urcs)
        /\ Len(urcs') = Len(urcs) - 1
        /\ \A i \in 1..Len(urcs') : urcs'[i] = urcs[i + 1] /\ i + 1 \in 1..Len(urcs)
    BY <2>1, HeadTailProperties, EmptySeq
  <2>3. \A t \in Slots : Dropped(t)' => Dropped(t)
    <3> SUFFICES ASSUME NEW t \in Slots, Dropped(t)' PROVE Dropped(t)
      OBVIOUS
    <3>1. PICK i \in 1..Len(urcs') : urcs'[i].type = "closed" /\ urcs'[i].id = t
      BY DEF Dropped
    <3> QED
      BY <2>2, <3>1 DEF Dropped
  <2>4. CASE UrcOpenId
    <3>1. socket' = socket
      BY <2>4 DEF UrcOpenId
    <3>2. LifeInv'
      BY <1>0, <2>3, <3>1 DEF LifeInv
    <3> QED
      BY <3>1, <3>2 DEF Lives, LifeState
  <2>5. CASE UrcClosed
    <3>1. PICK m \in Slots : m = Head(urcs).id /\ Dropped(m) /\ m # NoId
      BY <2>2, <2>5, NamesAssumption DEF UrcClosed, Msg, Dropped
    <3>2. socket[m].proto = "TCP" /\ Living(socket[m], m, call[m])
      BY <3>1 DEF LifeInv
    <3>3. /\ \A t \in Slots \ {m} : socket'[t] = socket[t]
          /\ socket[m].id # m => socket'[m] = socket[m]
          /\ socket[m].id = m => socket'[m] = [socket[m] EXCEPT !.closed = TRUE]
      <4>1. \A t \in Slots \ {m} : socket[t].id # m
        BY <3>1 DEF LifeInv, Living
      <4> QED
        BY <2>5, <3>1, <3>2, <4>1 DEF UrcClosed
    <3>4. CASE socket[m].id # m
      <4>1. \A t \in Slots : socket'[t] = socket[t]
        BY <3>1, <3>3, <3>4
      <4>2. LifeInv'
        BY <1>0, <2>3, <4>1 DEF LifeInv
      <4>3. \A t \in Slots : LifeState(t)' = LifeState(t)
        BY <4>1 DEF LifeState
      <4> QED
        BY <4>2, <4>3 DEF Lives
    <3>5. CASE socket[m].id = m
      <4>1. /\ socket'[m].proto = "TCP" /\ socket'[m].id = m /\ socket'[m].closed = TRUE
            /\ socket'[m].connected = socket[m].connected
        BY <3>1, <3>2, <3>3, <3>5 DEF StateType
      <4>2. Living(socket'[m], m, call'[m])
        BY <1>0, <3>2, <3>5, <4>1 DEF Living
      <4>3. LifeInv'
        BY <1>0, <2>3, <3>3, <4>1, <4>2 DEF LifeInv
      <4>4. \A t \in Slots \ {m} : LifeState(t)' = LifeState(t)
        BY <3>3 DEF LifeState
      <4>5. LifeState(m)' = "closed" /\ LifeState(m) \in {"open", "closed"}
        BY <3>1, <3>2, <3>5, <4>1 DEF LifeState
      <4>6. CASE LifeState(m) = "open"
        <5>1. Life!Lose(m)
          BY <3>1, <4>4, <4>5, <4>6 DEF Life!Lose, Lives
        <5> QED
          BY <3>1, <4>3, <5>1 DEF Life!Next
      <4>7. CASE LifeState(m) = "closed"
        BY <3>1, <4>3, <4>4, <4>5, <4>7 DEF Lives
      <4> QED
        BY <4>5, <4>6, <4>7
    <3> QED
      BY <3>4, <3>5
  <2> QED
    BY <1>2, <2>4, <2>5
<1> QED
  BY <1>1, <1>2 DEF HandleUrc

(* The device closes sockets when no URC is on its way and no call runs.   *)
LEMMA LifeCloseAll ==
    ASSUME StateType, LifeInv, CloseAllSockets
    PROVE  LifeInv' /\ [Life!Next]_Lives
<1>1. /\ \A s \in Slots : socket'[s] = IF Tracked(s) THEN Free ELSE socket[s]
      /\ \A s \in Slots : call'[s] = NoCall /\ call[s] = NoCall
      /\ Slots # {} => urcs' = <<>>
  BY DEF CloseAllSockets, Command
<1>2. LifeInv'
  <2>1. ASSUME NEW s \in Slots PROVE Living(socket'[s], s, call'[s])
    <3>1. CASE Tracked(s)
      <4>1. /\ socket'[s].id = NoId /\ socket'[s].proto = "none" /\ s # NoId
            /\ socket'[s].connected = FALSE /\ socket'[s].closed = FALSE
        BY <1>1, <3>1, NamesAssumption DEF Free
      <4>2. call'[s].op = "none" /\ call'[s].pc = "idle"
        BY <1>1 DEF NoCall
      <4> QED
        BY <4>1, <4>2 DEF Living, OpensUdp, OpeningPcs
    <3>2. CASE ~Tracked(s)
      BY <1>1, <3>2 DEF LifeInv
    <3> QED
      BY <3>1, <3>2
  <2>2. \A s \in Slots : ~Dropped(s)'
    BY <1>1, EmptySeq DEF Dropped
  <2> QED
    BY <2>1, <2>2 DEF LifeInv
<1>3. \A s \in Slots : LifeState(s)' = IF Tracked(s) THEN "free" ELSE LifeState(s)
  BY <1>1 DEF LifeState, Free
<1>4. Life!Close({s \in Slots : Tracked(s)}) /\ {s \in Slots : Tracked(s)} \in SUBSET Slots
  BY <1>3 DEF Life!Close, Lives
<1> QED
  BY <1>2, <1>4 DEF Life!Next

(* So every step keeps the invariant and is a step of SocketLife.          *)
LEMMA LifeStep == TypeOK /\ LockInv /\ LifeInv /\ [Next]_vars => LifeInv' /\ [Life!Next]_Lives
<1> SUFFICES ASSUME StateType, CallType, LockInv, LifeInv, [Next]_vars
             PROVE  LifeInv' /\ [Life!Next]_Lives
  BY TypeParts
<1>1. CASE UNCHANGED vars
  BY <1>1, LifeKept DEF vars, modemVars
<1> QED
  BY <1>1, LifeCalls, LifeSteps, LifeModem, LifeHandleUrc, LifeCloseAll DEF Next

(* Sockets live as SocketLife says, with any number of slots, protocols    *)
(* and concurrent calls: the same specification that the receive path is   *)
(* shown to implement (ReceivePathProof).                                  *)
THEOREM LifeImplemented == Spec => ImplementsLife
<1>1. TypeOK /\ LockInv /\ LifeInv /\ [Next]_vars => LifeInv'
  BY LifeStep
<1>2. TypeOK /\ LockInv /\ LifeInv /\ [Next]_vars => [Life!Next]_Lives
  BY LifeStep
<1> QED
  BY <1>1, <1>2, LifeInit, TypeCorrect, LockDiscipline, PTL DEF Spec, ImplementsLife, Life!Spec
=============================================================================
