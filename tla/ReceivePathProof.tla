-------------------------- MODULE ReceivePathProof --------------------------
(***************************************************************************)
(* Proofs about ReceivePath, for any number of slots and any buffer size.  *)
(*                                                                         *)
(* Each safety property needs what its readers know on the way to it: that *)
(* a piece in the buffer of a sender is fresh (FreshInv), and that between *)
(* finding the buffer empty and going to sleep a callback is on its way    *)
(* whenever data has come (SleepInv).                                      *)
(***************************************************************************)
EXTENDS ReceivePath, SequenceTheorems, TLAPS

Readers == {"idle", "enter", "look", "await", "wait", "clear", "get", "leave", "blocked"}

Results == [kind : {"none", "eof", "data", "would block"}, fresh : BOOLEAN]

BufferType == buffer \in [Slots -> Seq(BOOLEAN)] /\ \A s \in Slots : Len(buffer[s]) <= BufferSize

(* Everything but the buffers. *)
StateType ==
    /\ socket \in [Slots -> {"free", "new", "open", "closed"}]
    /\ sent \in [Slots -> BOOLEAN]
    /\ dataFlag \in BOOLEAN
    /\ handler \in [Runners -> Msg \cup {NoMsg, Stale}]
    /\ readFlag \in [Slots -> BOOLEAN]
    /\ reader \in [Slots -> Readers]
    /\ result \in [Slots -> Results]

(* A 0 is on its way, or was the last result. *)
EofInv == \A s \in Slots : result[s].kind = "eof" => socket[s] = "closed"

(* What a UDP socket that has sent reads, or will read, is fresh. *)
FreshInv ==
    \A s \in Udp : sent[s] =>
        /\ \A i \in 1..Len(buffer[s]) : buffer[s][i] = TRUE
        /\ (reader[s] = "leave" /\ result[s].kind = "data") => result[s].fresh = TRUE

(* The reader has found nothing, and is asleep or about to be. *)
FoundNothing(s) ==
    \/ reader[s] \in {"await", "wait", "blocked"}
    \/ reader[s] = "leave" /\ result[s].kind = "would block"

SlotSleep(s) ==
    /\ (FoundNothing(s) /\ ~AwaitsCallback(s)) => buffer[s] = <<>>
    /\ (reader[s] = "blocked" /\ ~AwaitsCallback(s)) => socket[s] # "closed"

SleepInv == \A s \in Slots : SlotSleep(s)

-----------------------------------------------------------------------------
(* Pieces.                                                                 *)

(* Aging changes no piece's place.                                         *)
LEMMA AgedType ==
    ASSUME NEW pieces \in Seq(BOOLEAN)
    PROVE  Aged(pieces) \in Seq(BOOLEAN) /\ Len(Aged(pieces)) = Len(pieces)
<1>1. pieces \in [1..Len(pieces) -> BOOLEAN] /\ DOMAIN pieces = 1..Len(pieces) /\ Len(pieces) \in Nat
  BY LenProperties
<1>2. Aged(pieces) \in [1..Len(pieces) -> BOOLEAN]
  BY <1>1 DEF Aged
<1>3. Aged(pieces) \in Seq(BOOLEAN)
  BY <1>1, <1>2, SeqDef
<1> QED
  BY <1>1, <1>2, <1>3, LenProperties

(* What a read leaves is a later part of what was there.                   *)
LEMMA RestType ==
    ASSUME NEW pieces \in Seq(BOOLEAN), pieces # <<>>, NEW n \in 1..Len(pieces)
    PROVE  /\ SubSeq(pieces, n + 1, Len(pieces)) \in Seq(BOOLEAN)
           /\ Len(SubSeq(pieces, n + 1, Len(pieces))) <= Len(pieces)
           /\ \A i \in 1..Len(SubSeq(pieces, n + 1, Len(pieces))) :
                SubSeq(pieces, n + 1, Len(pieces))[i] = pieces[n + i]
                /\ n + i \in 1..Len(pieces)
<1>1. Len(pieces) \in Nat /\ \A i \in 1..Len(pieces) : pieces[i] \in BOOLEAN
  BY LenProperties, ElementOfSeq
<1>2. n + 1 \in Int /\ \A i \in (n + 1)..Len(pieces) : pieces[i] \in BOOLEAN
  BY <1>1
<1> QED
  BY <1>1, <1>2, SubSeqProperties

(* The type invariant, split into the buffers and the rest.                *)
LEMMA TypeParts == TypeOK <=> StateType /\ BufferType
BY DEF TypeOK, StateType, BufferType, Readers, Results

-----------------------------------------------------------------------------
(* Type correctness.                                                       *)

(* The initial state is typed.                                             *)
LEMMA TypeInit == Init => TypeOK
<1> SUFFICES ASSUME Init PROVE StateType /\ BufferType
  BY TypeParts
<1>1. BufferType
  BY EmptySeq, ParametersAssumption DEF Init, BufferType
<1>2. StateType
  BY DEF Init, StateType, NoResult, Readers, Results
<1> QED
  BY <1>1, <1>2

(* URC handlers keep the types.                                            *)
LEMMA HandlerType ==
    ASSUME StateType, BufferType, NEW h \in Runners,
           \/ Handling(h)
           \/ \E s \in Slots : UrcRecv(h, s) \/ UrcClosed(h, s)
    PROVE  StateType' /\ BufferType'
<1>1. ASSUME NEW s \in Slots, UrcRecv(h, s)
      PROVE  StateType' /\ BufferType'
  <2>1. [slot |-> s, locked |-> TRUE] \in Msg
    BY DEF Msg
  <2>2. CASE UNCHANGED buffer
    BY <1>1, <2>1, <2>2 DEF UrcRecv, StateType, BufferType, readerVars
  <2>3. CASE Len(buffer[s]) < BufferSize /\ buffer' = [buffer EXCEPT ![s] = Append(@, sent[s])]
    <3>1. /\ buffer[s] \in Seq(BOOLEAN) /\ sent[s] \in BOOLEAN
          /\ Append(buffer[s], sent[s]) \in Seq(BOOLEAN)
          /\ Len(Append(buffer[s], sent[s])) = Len(buffer[s]) + 1
          /\ Len(buffer[s]) \in Nat
      BY AppendProperties, LenProperties DEF StateType, BufferType
    <3>2. BufferType'
      BY <2>3, <3>1, ParametersAssumption DEF BufferType
    <3> QED
      BY <1>1, <2>1, <3>2 DEF UrcRecv, StateType, readerVars
  <2> QED
    BY <1>1, <2>2, <2>3 DEF UrcRecv
<1>2. ASSUME NEW s \in Slots, UrcClosed(h, s)
      PROVE  StateType' /\ BufferType'
  BY <1>2 DEF UrcClosed, StateType, BufferType, Msg, bufferVars, readerVars
<1>3. CASE SetDataFlag(h)
  <2>1. [handler[h] EXCEPT !.locked = FALSE] \in Msg
    BY <1>3 DEF SetDataFlag, Msg
  <2>2. reader' \in [Slots -> Readers]
    BY <1>3 DEF SetDataFlag, StateType, Readers
  <2> QED
    BY <1>3, <2>1, <2>2 DEF SetDataFlag, StateType, BufferType, bufferVars
<1>4. CASE Callback(h)
  BY <1>4 DEF Callback, StateType, BufferType, bufferVars, Msg
<1> QED
  BY <1>1, <1>2, <1>3, <1>4 DEF Handling

(* Calls keep the types.                                                   *)
LEMMA CallType ==
    ASSUME StateType, BufferType, NEW s \in Slots, Call(s)
    PROVE  StateType' /\ BufferType'
<1> NoResult \in Results
  BY DEF NoResult, Results
<1>1. CASE SocketOpen(s) \/ Connect(s) \/ CreateSocket(s) \/ LoseId(s)
  BY <1>1 DEF SocketOpen, Connect, CreateSocket, LoseId, Opened, StateType, BufferType, bufferVars,
     readerVars
<1>2. CASE Sendto(s)
  BY <1>2, EmptySeq, ParametersAssumption DEF Sendto, StateType, BufferType, readerVars
<1>3. CASE SocketClose(s)
  <2>1. Aged(buffer[s]) \in Seq(BOOLEAN) /\ Len(Aged(buffer[s])) <= BufferSize
    BY AgedType DEF BufferType
  <2>2. BufferType'
    BY <1>3, <2>1 DEF SocketClose, BufferType
  <2>3. handler' \in [Runners -> Msg \cup {NoMsg, Stale}]
    BY <1>3 DEF SocketClose, StateType
  <2> QED
    BY <1>3, <2>2, <2>3 DEF SocketClose, StateType, Readers
<1>4. CASE Recv(s)
  BY <1>4 DEF Recv, Goto, StateType, BufferType, bufferVars, Readers
<1>5. CASE GiveUp(s)
  BY <1>5 DEF GiveUp, Return, Goto, StateType, BufferType, bufferVars, Readers, Results, NoResult
<1> QED
  BY <1>1, <1>2, <1>3, <1>4, <1>5 DEF Call

(* A read of the buffer takes pieces from its front.                       *)
LEMMA GetEffect ==
    ASSUME StateType, BufferType, NEW s \in Slots, Get(s)
    PROVE  \/ /\ buffer[s] = <<>> /\ UNCHANGED buffer
              /\ result' = [result EXCEPT ![s] = [NoResult EXCEPT !.kind = "would block"]]
           \/ \E n \in 1..Len(buffer[s]) :
                /\ buffer[s] # <<>>
                /\ result' = [result EXCEPT ![s] = [kind |-> "data", fresh |-> Head(buffer[s])]]
                /\ buffer' = [buffer EXCEPT ![s] = SubSeq(@, n + 1, Len(@))]
<1>1. buffer[s] \in Seq(BOOLEAN)
  BY DEF BufferType
<1>2. buffer[s] # <<>> => Len(buffer[s]) \in Nat \ {0}
  BY <1>1, EmptySeq
<1>3. CASE buffer[s] = <<>>
  BY <1>3 DEF Get
<1>4. CASE buffer[s] # <<>>
  <2>1. PICK n \in IF s \in Udp THEN {1} ELSE 1..Len(buffer[s]) :
          /\ result' = [result EXCEPT ![s] = [kind |-> "data", fresh |-> Head(buffer[s])]]
          /\ buffer' = [buffer EXCEPT ![s] = SubSeq(@, n + 1, Len(@))]
    BY <1>4 DEF Get
  <2>2. n \in 1..Len(buffer[s])
    BY <1>2, <1>4, <2>1
  <2> QED
    BY <1>4, <2>1, <2>2
<1> QED
  BY <1>3, <1>4

(* What a read of the buffer does to the results.                          *)
LEMMA GetResult ==
    ASSUME StateType, BufferType, NEW s \in Slots, Get(s)
    PROVE  /\ result'[s].kind \in {"would block", "data"}
           /\ result'[s].kind = "would block" => buffer'[s] = <<>>
           /\ \A t \in Slots \ {s} : result'[t] = result[t]
<1>1. CASE /\ buffer[s] = <<>> /\ UNCHANGED buffer
           /\ result' = [result EXCEPT ![s] = [NoResult EXCEPT !.kind = "would block"]]
  BY <1>1 DEF StateType, NoResult
<1>2. CASE result' = [result EXCEPT ![s] = [kind |-> "data", fresh |-> Head(buffer[s])]]
  <2>1. result'[s] = [kind |-> "data", fresh |-> Head(buffer[s])]
    BY <1>2 DEF StateType
  <2> QED
    BY <1>2, <2>1 DEF StateType
<1> QED
  BY <1>1, <1>2, GetEffect

(* What leaving socket_recvfrom() does to the results and the readers.     *)
LEMMA LeaveResult ==
    ASSUME StateType, NEW s \in Slots, Leave(s)
    PROVE  /\ result'[s].kind \in {"none", "eof"}
           /\ result'[s].kind = "eof" => socket[s] = "closed" \/ result[s].kind = "eof"
           /\ reader'[s] # "leave"
           /\ \A t \in Slots \ {s} : result'[t] = result[t] /\ reader'[t] = reader[t]
<1>1. CASE socket[s] = "closed" /\ Return(s, "eof")
  BY <1>1 DEF Return, Goto, StateType, NoResult
<1>2. CASE Goto(s, "blocked") /\ result' = [result EXCEPT ![s] = NoResult]
  BY <1>2 DEF Goto, StateType, NoResult
<1>3. CASE result[s].kind = "eof" /\ Return(s, "eof")
  BY <1>3 DEF Return, Goto, StateType, NoResult
<1>4. CASE Return(s, "none")
  BY <1>4 DEF Return, Goto, StateType, NoResult
<1> QED
  BY <1>1, <1>2, <1>3, <1>4 DEF Leave

(* The steps inside socket_recvfrom() keep the types.                      *)
LEMMA ReadingType ==
    ASSUME StateType, BufferType, NEW s \in Slots, Reading(s)
    PROVE  StateType' /\ BufferType'
<1> USE DEF Goto, Return, bufferVars
<1>0. ASSUME NEW kind \in {"none", "eof"}
      PROVE  [NoResult EXCEPT !.kind = kind] \in Results
  BY DEF NoResult, Results
<1>1. CASE Enter(s)
  <2>1. reader' \in [Slots -> Readers]
    BY <1>1 DEF Enter, StateType, Readers
  <2>2. result' \in [Slots -> Results]
    BY <1>0, <1>1 DEF Enter, StateType
  <2>3. socket' \in [Slots -> {"free", "new", "open", "closed"}]
    BY <1>1 DEF Enter, Opened, StateType
  <2> QED
    BY <1>1, <2>1, <2>2, <2>3 DEF Enter, StateType, BufferType
<1>2. CASE Look(s) \/ Await(s) \/ ClearDataFlag(s)
  BY <1>2 DEF Look, Await, ClearDataFlag, StateType, BufferType, Readers
<1>3. CASE WaitTimeout(s)
  BY <1>3 DEF WaitTimeout, StateType, BufferType, Readers, Results, NoResult
<1>4. CASE Get(s)
  <2>1. buffer[s] \in Seq(BOOLEAN) /\ Len(buffer[s]) <= BufferSize /\ Len(buffer[s]) \in Nat
    BY LenProperties DEF BufferType
  <2>2. CASE buffer[s] = <<>> /\ UNCHANGED buffer
             /\ result' = [result EXCEPT ![s] = [NoResult EXCEPT !.kind = "would block"]]
    BY <1>4, <2>2 DEF Get, StateType, BufferType, Readers, Results, NoResult
  <2>3. ASSUME NEW n \in 1..Len(buffer[s]), buffer[s] # <<>>,
               result' = [result EXCEPT ![s] = [kind |-> "data", fresh |-> Head(buffer[s])]],
               buffer' = [buffer EXCEPT ![s] = SubSeq(@, n + 1, Len(@))]
        PROVE  StateType' /\ BufferType'
    <3>1. Head(buffer[s]) \in BOOLEAN
      BY <2>1, <2>3, HeadTailProperties
    <3>2. /\ SubSeq(buffer[s], n + 1, Len(buffer[s])) \in Seq(BOOLEAN)
          /\ Len(SubSeq(buffer[s], n + 1, Len(buffer[s]))) <= Len(buffer[s])
          /\ Len(SubSeq(buffer[s], n + 1, Len(buffer[s]))) \in Nat
      BY <2>1, <2>3, RestType, LenProperties
    <3>3. BufferType'
      BY <2>1, <2>3, <3>2, ParametersAssumption DEF BufferType
    <3> QED
      BY <1>4, <2>3, <3>1, <3>3 DEF Get, StateType, Readers, Results
  <2> QED
    BY <1>4, <2>2, <2>3, GetEffect
<1>5. CASE Leave(s)
  <2>1. NoResult \in Results
    BY DEF NoResult, Results
  <2>2. reader' \in [Slots -> Readers]
    BY <1>5 DEF Leave, StateType, Readers
  <2>3. result' \in [Slots -> Results]
    BY <1>0, <1>5, <2>1 DEF Leave, StateType
  <2> QED
    BY <1>5, <2>2, <2>3 DEF Leave, StateType, BufferType
<1>6. CASE WakeUp(s)
  BY <1>6 DEF WakeUp, StateType, BufferType, Readers
<1> QED
  BY <1>1, <1>2, <1>3, <1>4, <1>5, <1>6 DEF Reading

(* So every step does.                                                     *)
LEMMA TypeStep == TypeOK /\ [Next]_vars => TypeOK'
<1> SUFFICES ASSUME StateType, BufferType, [Next]_vars PROVE StateType' /\ BufferType'
  BY TypeParts, TypeParts' DEF TypeOK, StateType, BufferType, Readers, Results
<1>1. CASE UNCHANGED vars
  BY <1>1 DEF vars, StateType, BufferType, bufferVars, readerVars
<1> QED
  BY <1>1, HandlerType, CallType, ReadingType DEF Next

(* The variables keep their types, and no buffer outgrows its pool.        *)
THEOREM TypeCorrect == Spec => []TypeOK
<1> QED
  BY TypeInit, TypeStep, PTL DEF Spec

-----------------------------------------------------------------------------
(* A 0 and the end of the connection.                                      *)

(* A 0 is returned on closed sockets only, by every step.                  *)
LEMMA EofStep == TypeOK /\ EofInv /\ [Next]_vars => EofInv'
<1> SUFFICES ASSUME StateType, BufferType, EofInv, [Next]_vars PROVE EofInv'
  BY TypeParts
<1>1. CASE UNCHANGED vars
  BY <1>1 DEF vars, EofInv, readerVars
<1>2. ASSUME NEW h \in Runners, Handling(h) \/ \E s \in Slots : UrcRecv(h, s)
      PROVE  EofInv'
  BY <1>2 DEF Handling, SetDataFlag, Callback, UrcRecv, EofInv, readerVars
<1>3. ASSUME NEW h \in Runners, NEW s \in Slots, UrcClosed(h, s)
      PROVE  EofInv'
  BY <1>3 DEF UrcClosed, EofInv, StateType, readerVars
<1>4. ASSUME NEW s \in Slots, Call(s)
      PROVE  EofInv'
  <2>1. CASE SocketOpen(s) \/ Connect(s) \/ CreateSocket(s) \/ Sendto(s) \/ LoseId(s)
    BY <2>1 DEF SocketOpen, Connect, CreateSocket, Opened, Sendto, LoseId, EofInv, StateType,
       readerVars
  <2>2. CASE SocketClose(s) \/ Recv(s) \/ GiveUp(s)
    BY <2>2 DEF SocketClose, Recv, GiveUp, Return, EofInv, StateType, NoResult
  <2> QED
    BY <1>4, <2>1, <2>2 DEF Call
<1>5. ASSUME NEW s \in Slots, Reading(s)
      PROVE  EofInv'
  <2>1. CASE Enter(s)
    BY <2>1 DEF Enter, Opened, Return, EofInv, StateType, NoResult
  <2>2. CASE Look(s) \/ Await(s) \/ ClearDataFlag(s) \/ WakeUp(s)
    BY <2>2 DEF Look, Await, ClearDataFlag, WakeUp, EofInv
  <2>3. CASE WaitTimeout(s)
    BY <2>3 DEF WaitTimeout, EofInv, StateType, NoResult
  <2>4. CASE Get(s)
    BY <2>4, GetResult DEF Get, EofInv
  <2>5. CASE Leave(s)
    BY <2>5, LeaveResult DEF Leave, EofInv
  <2> QED
    BY <1>5, <2>1, <2>2, <2>3, <2>4, <2>5 DEF Reading
<1> QED
  BY <1>1, <1>2, <1>3, <1>4, <1>5 DEF Next

(* 0 means closed: no stale flag, flush or other reader can make            *)
(* socket_recvfrom() return it for an open connection.                      *)
THEOREM ZeroMeansClosed == Spec => []EofMeansClosed
<1>1. Init => EofInv
  BY DEF Init, EofInv, NoResult
<1>2. EofInv => EofMeansClosed
  BY DEF EofInv, EofMeansClosed
<1> QED
  BY <1>1, <1>2, TypeCorrect, EofStep, PTL DEF Spec

-----------------------------------------------------------------------------
(* Replies.                                                                *)

(* Steps that touch neither buffers nor results of senders.                *)
LEMMA FreshKept ==
    ASSUME FreshInv, UNCHANGED <<buffer, sent, result>>,
           \A s \in Slots : reader'[s] = "leave" => reader[s] = "leave"
    PROVE  FreshInv'
BY ParametersAssumption DEF FreshInv

(* Every step keeps what senders read fresh.                               *)
LEMMA FreshStep == TypeOK /\ FreshInv /\ [Next]_vars => FreshInv'
<1> SUFFICES ASSUME StateType, BufferType, FreshInv, [Next]_vars PROVE FreshInv'
  BY TypeParts
<1>0. /\ Udp \subseteq Slots
      /\ \A s \in Slots : buffer[s] \in Seq(BOOLEAN) /\ Len(buffer[s]) \in Nat
  BY ParametersAssumption, LenProperties DEF BufferType
<1>1. CASE UNCHANGED vars
  BY <1>1, FreshKept DEF vars, bufferVars, readerVars
<1>2. ASSUME NEW h \in Runners, NEW s \in Slots, UrcRecv(h, s)
      PROVE  FreshInv'
  <2>1. CASE UNCHANGED buffer
    BY <1>2, <2>1, FreshKept DEF UrcRecv, readerVars
  <2>2. CASE buffer' = [buffer EXCEPT ![s] = Append(@, sent[s])]
    <3>1. sent[s] \in BOOLEAN /\ buffer[s] \in Seq(BOOLEAN)
      BY <1>0 DEF StateType
    <3>2. /\ Len(Append(buffer[s], sent[s])) = Len(buffer[s]) + 1
          /\ Append(buffer[s], sent[s])[Len(buffer[s]) + 1] = sent[s]
          /\ \A i \in 1..Len(buffer[s]) : Append(buffer[s], sent[s])[i] = buffer[s][i]
      BY <3>1, AppendProperties
    <3>3. buffer'[s] = Append(buffer[s], sent[s]) /\ \A t \in Slots \ {s} : buffer'[t] = buffer[t]
      BY <2>2 DEF BufferType
    <3>4. sent' = sent /\ reader' = reader /\ result' = result
      BY <1>2 DEF UrcRecv, readerVars
    <3> SUFFICES ASSUME NEW t \in Udp, sent[t]
                 PROVE  /\ \A i \in 1..Len(buffer'[t]) : buffer'[t][i] = TRUE
                        /\ (reader[t] = "leave" /\ result[t].kind = "data") => result[t].fresh = TRUE
      BY <3>4 DEF FreshInv
    <3>5. (reader[t] = "leave" /\ result[t].kind = "data") => result[t].fresh = TRUE
      BY DEF FreshInv
    <3>6. CASE t # s
      BY <1>0, <3>3, <3>5, <3>6 DEF FreshInv
    <3>7. CASE t = s
      <4>1. ASSUME NEW i \in 1..Len(buffer'[s]) PROVE buffer'[s][i] = TRUE
        <5>1. i \in 1..Len(buffer[s]) \/ i = Len(buffer[s]) + 1
          BY <1>0, <3>2, <3>3, <4>1
        <5>2. i \in 1..Len(buffer[s]) => buffer[s][i] = TRUE
          BY <3>7 DEF FreshInv
        <5>3. sent[s] = TRUE
          BY <3>1, <3>7
        <5> QED
          BY <3>2, <3>3, <5>1, <5>2, <5>3
      <4> QED
        BY <3>5, <3>7, <4>1
    <3> QED
      BY <3>6, <3>7
  <2> QED
    BY <1>2, <2>1, <2>2 DEF UrcRecv
<1>3. ASSUME NEW h \in Runners, Handling(h) \/ \E s \in Slots : UrcClosed(h, s)
      PROVE  FreshInv'
  <2>1. UNCHANGED <<buffer, sent, result>>
    BY <1>3 DEF Handling, SetDataFlag, Callback, UrcClosed, bufferVars, readerVars
  <2>2. \A t \in Slots : reader'[t] = "leave" => reader[t] = "leave"
    BY <1>3 DEF Handling, SetDataFlag, Callback, UrcClosed, readerVars, StateType
  <2> QED
    BY <2>1, <2>2, FreshKept
<1>4. ASSUME NEW s \in Slots, Call(s)
      PROVE  FreshInv'
  <2>1. CASE SocketOpen(s) \/ Connect(s) \/ CreateSocket(s) \/ LoseId(s)
    BY <2>1, FreshKept DEF SocketOpen, Connect, CreateSocket, LoseId, bufferVars, readerVars
  <2>2. CASE Sendto(s)
    <3>1. \A i \in 1..Len(<<>>) : FALSE
      BY EmptySeq
    <3> QED
      BY <1>0, <2>2, <3>1 DEF Sendto, Unlocked, FreshInv, BufferType, StateType, readerVars
  <2>3. CASE SocketClose(s)
    BY <1>0, <2>3 DEF SocketClose, FreshInv, BufferType, StateType
  <2>4. CASE Recv(s) \/ GiveUp(s)
    BY <1>0, <2>4 DEF Recv, GiveUp, Return, Goto, FreshInv, StateType, NoResult, bufferVars
  <2> QED
    BY <1>4, <2>1, <2>2, <2>3, <2>4 DEF Call
<1>5. ASSUME NEW s \in Slots, Reading(s)
      PROVE  FreshInv'
  <2> USE DEF Goto, Return, bufferVars
  <2>1. CASE Enter(s)
    BY <1>0, <2>1 DEF Enter, FreshInv, StateType, NoResult
  <2>2. CASE Look(s) \/ Await(s) \/ ClearDataFlag(s) \/ WakeUp(s)
    BY <1>0, <2>2 DEF Look, Await, ClearDataFlag, WakeUp, FreshInv, StateType
  <2>3. CASE WaitTimeout(s)
    BY <1>0, <2>3 DEF WaitTimeout, FreshInv, StateType, NoResult
  <2>6. CASE Leave(s)
    BY <1>0, <2>6, LeaveResult DEF Leave, FreshInv
  <2>4. CASE Get(s) /\ buffer[s] = <<>>
    BY <1>0, <2>4 DEF Get, FreshInv, StateType, NoResult
  <2>5. ASSUME NEW n \in 1..Len(buffer[s]), Get(s), buffer[s] # <<>>,
               result' = [result EXCEPT ![s] = [kind |-> "data", fresh |-> Head(buffer[s])]],
               buffer' = [buffer EXCEPT ![s] = SubSeq(@, n + 1, Len(@))]
        PROVE  FreshInv'
    <3>1. Head(buffer[s]) = buffer[s][1] /\ 1 \in 1..Len(buffer[s])
      BY <1>0, <2>5
    <3>2. /\ buffer'[s] = SubSeq(buffer[s], n + 1, Len(buffer[s]))
          /\ \A t \in Slots \ {s} : buffer'[t] = buffer[t]
      BY <2>5 DEF BufferType
    <3>3. \A i \in 1..Len(buffer'[s]) : buffer'[s][i] = buffer[s][n + i] /\ n + i \in 1..Len(buffer[s])
      BY <1>0, <2>5, <3>2, RestType
    <3>4. /\ sent' = sent
          /\ \A t \in Slots \ {s} : reader'[t] = reader[t] /\ result'[t] = result[t]
          /\ result'[s].fresh = buffer[s][1]
      BY <2>5, <3>1 DEF Get, StateType
    <3> QED
      BY <1>0, <3>1, <3>2, <3>3, <3>4 DEF FreshInv
  <2> QED
    BY <1>5, <2>1, <2>2, <2>3, <2>4, <2>5, <2>6, GetEffect DEF Reading
<1> QED
  BY <1>1, <1>2, <1>3, <1>4, <1>5 DEF Next

(* Once a UDP socket has sent, nothing older than its last send is read.   *)
THEOREM RepliesAreFresh == Spec => []ReplyNotStale
<1>1. Init => FreshInv
  BY ParametersAssumption DEF Init, FreshInv
<1>2. FreshInv => ReplyNotStale
  BY DEF FreshInv, ReplyNotStale
<1> QED
  BY <1>1, <1>2, TypeCorrect, FreshStep, PTL DEF Spec
-----------------------------------------------------------------------------
(* Sleep.                                                                  *)

(* A callback that is due stays due until the reader has woken up.         *)
LEMMA StaysDue ==
    ASSUME NEW s \in Slots, AwaitsCallback(s),
           readFlag[s] => readFlag'[s],
           \A h \in Runners : (handler[h] \in Msg /\ handler[h].slot = s) =>
               readFlag'[s] \/ (handler'[h] \in Msg /\ handler'[h].slot = s)
    PROVE  AwaitsCallback(s)'
<1>1. CASE readFlag[s]
  BY <1>1 DEF AwaitsCallback
<1>2. CASE \E h \in Runners : handler[h] \in Msg /\ handler[h].slot = s
  BY <1>2 DEF AwaitsCallback
<1> QED
  BY <1>1, <1>2 DEF AwaitsCallback

(* A slot that nothing happens to but that a callback may fall due.        *)
LEMMA SlotKept ==
    ASSUME NEW s \in Slots, SlotSleep(s),
           AwaitsCallback(s) => AwaitsCallback(s)',
           FoundNothing(s)' => FoundNothing(s),
           reader'[s] = "blocked" => reader[s] = "blocked",
           buffer[s] = <<>> => buffer'[s] = <<>>,
           socket'[s] = "closed" => socket[s] = "closed"
    PROVE  SlotSleep(s)'
BY DEF SlotSleep

(* Steps of the handlers.                                                  *)
LEMMA SleepHandler ==
    ASSUME StateType, BufferType, NEW t \in Slots, SlotSleep(t), NEW h \in Runners,
           \/ Handling(h)
           \/ \E s \in Slots : UrcRecv(h, s) \/ UrcClosed(h, s)
    PROVE  SlotSleep(t)'
<1>0. NoMsg \notin Msg /\ Stale \notin Msg /\ h \in DOMAIN handler
  BY ParametersAssumption DEF Msg, StateType
<1>1. ASSUME NEW s \in Slots, UrcRecv(h, s) \/ UrcClosed(h, s)
      PROVE  SlotSleep(t)'
  <2>0. PICK locked \in BOOLEAN :
          handler' = [handler EXCEPT ![h] = [slot |-> s, locked |-> locked]]
    BY <1>1 DEF UrcRecv, UrcClosed
  <2>1. /\ handler[h] = NoMsg /\ handler'[h] \in Msg /\ handler'[h].slot = s
        /\ \A g \in Runners \ {h} : handler'[g] = handler[g]
        /\ UNCHANGED <<readFlag, reader, result>>
    <3>1. handler'[h] = [slot |-> s, locked |-> locked]
      BY <1>0, <2>0
    <3>2. [slot |-> s, locked |-> locked] \in Msg
      BY DEF Msg
    <3>3. \A g \in Runners \ {h} : handler'[g] = handler[g]
      BY <2>0 DEF StateType
    <3> QED
      BY <1>1, <3>1, <3>2, <3>3 DEF UrcRecv, UrcClosed, readerVars
  <2>2. AwaitsCallback(s)'
    BY <2>1 DEF AwaitsCallback
  <2>3. CASE t = s
    BY <2>2, <2>3 DEF SlotSleep
  <2>4. CASE t # s
    <3>1. AwaitsCallback(t) => AwaitsCallback(t)'
      BY <1>0, <2>1, StaysDue
    <3>2. FoundNothing(t)' <=> FoundNothing(t)
      BY <2>1 DEF FoundNothing
    <3>3. buffer'[t] = buffer[t] /\ socket'[t] = socket[t]
      BY <1>1, <2>4 DEF UrcRecv, UrcClosed, StateType, BufferType, bufferVars
    <3> QED
      BY <2>1, <3>1, <3>2, <3>3, SlotKept
  <2> QED
    BY <2>3, <2>4
<1>2. CASE SetDataFlag(h)
  <2>1. /\ handler'[h] \in Msg /\ handler'[h].slot = handler[h].slot
        /\ \A g \in Runners \ {h} : handler'[g] = handler[g]
    BY <1>0, <1>2 DEF SetDataFlag, StateType, Msg
  <2>2. AwaitsCallback(t) => AwaitsCallback(t)'
    BY <1>2, <2>1, StaysDue DEF SetDataFlag
  <2>3. /\ FoundNothing(t)' => FoundNothing(t)
        /\ reader'[t] = "blocked" => reader[t] = "blocked"
    BY <1>2 DEF SetDataFlag, FoundNothing, StateType
  <2> QED
    BY <1>2, <2>2, <2>3, SlotKept DEF SetDataFlag, bufferVars
<1>3. CASE Callback(h)
  <2>1. /\ handler[h] \in Msg => readFlag'[handler[h].slot] = TRUE
        /\ readFlag[t] => readFlag'[t]
        /\ \A g \in Runners \ {h} : handler'[g] = handler[g]
    BY <1>0, <1>3 DEF Callback, StateType, Msg
  <2>2. AwaitsCallback(t) => AwaitsCallback(t)'
    BY <2>1, StaysDue
  <2> QED
    BY <1>3, <2>2, SlotKept DEF Callback, FoundNothing, bufferVars
<1> QED
  BY <1>1, <1>2, <1>3 DEF Handling

(* Steps of a slot's own threads, for the other slots.                     *)
LEMMA SleepOthers ==
    ASSUME StateType, BufferType, NEW s \in Slots, NEW t \in Slots \ {s}, SlotSleep(t),
           Call(s) \/ Reading(s)
    PROVE  SlotSleep(t)'
<1>1. /\ reader'[t] = reader[t] /\ result'[t] = result[t] /\ readFlag'[t] = readFlag[t]
      /\ socket'[t] = socket[t] /\ buffer'[t] = buffer[t]
  <2>1. CASE Call(s)
    BY <2>1 DEF Call, SocketOpen, Connect, CreateSocket, Opened, Sendto, LoseId, SocketClose, Recv,
       GiveUp, Return, Goto, StateType, BufferType, bufferVars, readerVars
  <2>2. CASE Enter(s) \/ Look(s) \/ Await(s) \/ ClearDataFlag(s) \/ WaitTimeout(s) \/ WakeUp(s)
    BY <2>2 DEF Enter, Opened, Look, Await, ClearDataFlag, WaitTimeout, WakeUp, Return, Goto,
       StateType, BufferType, bufferVars
  <2>3. CASE Get(s)
    BY <2>3, GetEffect, GetResult DEF Get, Goto, StateType, BufferType
  <2>4. CASE Leave(s)
    BY <2>4, LeaveResult DEF Leave, bufferVars
  <2> QED
    BY <2>1, <2>2, <2>3, <2>4 DEF Reading
<1>2. \A h \in Runners : (handler[h] \in Msg /\ handler[h].slot = t) => handler'[h] = handler[h]
  <2>1. CASE SocketClose(s)
    BY <2>1 DEF SocketClose
  <2>2. CASE ~SocketClose(s)
    BY <2>2 DEF Call, SocketOpen, Connect, CreateSocket, Sendto, LoseId, Recv, GiveUp,
       Reading, Enter, Look, Await, ClearDataFlag, WaitTimeout, Get, Leave, WakeUp
  <2> QED
    BY <2>1, <2>2
<1>3. AwaitsCallback(t) => AwaitsCallback(t)'
  BY <1>1, <1>2, StaysDue
<1> QED
  BY <1>1, <1>3, SlotKept DEF FoundNothing

(* Steps of a slot's own threads, for the slot.                            *)
LEMMA SleepOwn ==
    ASSUME StateType, BufferType, NEW s \in Slots, SlotSleep(s), Call(s) \/ Reading(s)
    PROVE  SlotSleep(s)'
<1>1. CASE SocketOpen(s) \/ Connect(s) \/ CreateSocket(s) \/ LoseId(s)
  <2>1. UNCHANGED <<buffer, handler, readFlag, reader, result>> /\ socket'[s] # "closed"
    BY <1>1 DEF SocketOpen, Connect, CreateSocket, LoseId, Opened, StateType, bufferVars, readerVars
  <2> QED
    BY <2>1 DEF SlotSleep, FoundNothing, AwaitsCallback
<1>2. CASE Sendto(s)
  <2>1. UNCHANGED <<socket, handler, readFlag, reader, result>> /\ buffer'[s] = <<>>
    BY <1>2 DEF Sendto, BufferType, readerVars
  <2> QED
    BY <2>1 DEF SlotSleep, FoundNothing, AwaitsCallback
<1>3. CASE SocketClose(s) \/ Recv(s) \/ GiveUp(s) \/ Enter(s) \/ ClearDataFlag(s) \/ WakeUp(s)
  <2>1. reader'[s] \in {"idle", "enter", "look", "get"}
    BY <1>3 DEF SocketClose, Recv, GiveUp, Enter, ClearDataFlag, WakeUp, Return, Goto, StateType
  <2> QED
    BY <2>1 DEF SlotSleep, FoundNothing
<1>4. CASE Look(s) \/ Await(s)
  <2>1. /\ UNCHANGED <<socket, buffer, handler, readFlag, result>>
        /\ reader'[s] \in {"await", "clear", "get", "wait"}
        /\ reader'[s] = "await" => buffer[s] = <<>>
        /\ reader'[s] = "wait" => reader[s] = "await"
    BY <1>4 DEF Look, Await, Goto, StateType, bufferVars
  <2> QED
    BY <2>1 DEF SlotSleep, FoundNothing, AwaitsCallback
<1>5. CASE WaitTimeout(s)
  <2>1. /\ UNCHANGED <<socket, buffer, handler, readFlag>>
        /\ reader[s] = "wait" /\ reader'[s] = "leave"
    BY <1>5 DEF WaitTimeout, Goto, StateType, bufferVars
  <2> QED
    BY <2>1 DEF SlotSleep, FoundNothing, AwaitsCallback
<1>6. CASE Get(s)
  <2>1. reader'[s] = "leave"
    BY <1>6 DEF Get, Goto, StateType
  <2>2. result'[s].kind = "would block" => buffer'[s] = <<>>
    BY <1>6, GetResult
  <2> QED
    BY <2>1, <2>2 DEF SlotSleep, FoundNothing
<1>7. CASE Leave(s)
  <2>1. /\ UNCHANGED <<socket, buffer, handler, readFlag>>
        /\ reader[s] = "leave" /\ reader'[s] \in {"idle", "blocked"}
        /\ reader'[s] = "blocked" => result[s].kind = "would block" /\ socket[s] # "closed"
    BY <1>7 DEF Leave, Return, Goto, StateType, bufferVars
  <2> QED
    BY <2>1 DEF SlotSleep, FoundNothing, AwaitsCallback
<1> QED
  BY <1>1, <1>2, <1>3, <1>4, <1>5, <1>6, <1>7 DEF Call, Reading

(* Every step keeps the invariant.                                         *)
LEMMA SleepStep == TypeOK /\ SleepInv /\ [Next]_vars => SleepInv'
<1> SUFFICES ASSUME StateType, BufferType, SleepInv, [Next]_vars, NEW t \in Slots
             PROVE  SlotSleep(t)'
  BY TypeParts DEF SleepInv
<1>0. SlotSleep(t)
  BY DEF SleepInv
<1>1. CASE UNCHANGED vars
  BY <1>0, <1>1 DEF vars, SlotSleep, FoundNothing, AwaitsCallback, bufferVars, readerVars
<1>2. ASSUME NEW s \in Slots, Call(s) \/ Reading(s)
      PROVE  SlotSleep(t)'
  BY <1>0, <1>2, SleepOthers, SleepOwn
<1> QED
  BY <1>0, <1>1, <1>2, SleepHandler DEF Next

(* No wake-up is lost, whoever takes the flag that all readers share.      *)
THEOREM NoLostWakeUp == Spec => []SleeperHasNothing
<1>1. Init => SleepInv
  BY DEF Init, SleepInv, SlotSleep, FoundNothing
<1>2. SleepInv => SleeperHasNothing
  BY DEF SleepInv, SlotSleep, SleeperHasNothing, FoundNothing
<1> QED
  BY <1>1, <1>2, TypeCorrect, SleepStep, PTL DEF Spec

-----------------------------------------------------------------------------
(* The life of a socket.                                                   *)

(* What the steps of a slot's own threads do to its socket.                *)
LEMMA LifeOwn ==
    ASSUME StateType, NEW s \in Slots, Call(s) \/ Reading(s)
    PROVE  [Life!Next]_socket
<1>1. CASE SocketOpen(s)
  <2>1. Life!Open(s)
    BY <1>1 DEF SocketOpen, Life!Open
  <2> QED
    BY <2>1 DEF Life!Next
<1>2. CASE Connect(s) \/ CreateSocket(s) \/ (Enter(s) /\ socket[s] = "new" /\ Opened(s))
  <2>1. Life!Bind(s)
    BY <1>2 DEF Connect, CreateSocket, Opened, Life!Bind
  <2> QED
    BY <2>1 DEF Life!Next
<1>3. CASE LoseId(s)
  <2>1. Life!Unbind(s)
    BY <1>3 DEF LoseId, Life!Unbind
  <2> QED
    BY <2>1 DEF Life!Next
<1>4. CASE SocketClose(s)
  <2>1. Life!Close({s})
    BY <1>4 DEF SocketClose, StateType, Life!Close
  <2>2. {s} \in SUBSET Slots
    OBVIOUS
  <2> QED
    BY <2>1, <2>2 DEF Life!Next
<1>5. CASE Enter(s) /\ ~(socket[s] = "new" /\ Opened(s))
  BY <1>5 DEF Enter
<1>6. CASE \/ Sendto(s) \/ Recv(s) \/ GiveUp(s) \/ Look(s) \/ Await(s) \/ ClearDataFlag(s)
           \/ WaitTimeout(s) \/ Get(s) \/ Leave(s) \/ WakeUp(s)
  BY <1>6 DEF Sendto, Recv, GiveUp, Look, Await, ClearDataFlag, WaitTimeout, Get, Leave, WakeUp
<1> QED
  BY <1>1, <1>2, <1>3, <1>4, <1>5, <1>6 DEF Call, Reading

(* Only the "closed" URC of a socket with an id ends it.                   *)
LEMMA LifeHandler ==
    ASSUME NEW h \in Runners,
           \/ Handling(h)
           \/ \E s \in Slots : UrcRecv(h, s) \/ UrcClosed(h, s)
    PROVE  [Life!Next]_socket
<1>1. ASSUME NEW s \in Slots, UrcClosed(h, s)
      PROVE  Life!Next
  <2>1. Life!Lose(s)
    BY <1>1 DEF UrcClosed, Life!Lose
  <2> QED
    BY <2>1 DEF Life!Next
<1> QED
  BY <1>1 DEF Handling, SetDataFlag, Callback, UrcRecv

(* The sockets the receive path works on are those of SocketLife, which    *)
(* CellularStackProof shows the control plane to keep.                     *)
THEOREM LifeImplemented == Spec => SocketsLive
<1>1. Init => Life!Init
  BY DEF Init, Life!Init
<1>2. TypeOK /\ [Next]_vars => [Life!Next]_socket
  <2> SUFFICES ASSUME StateType, BufferType, [Next]_vars PROVE [Life!Next]_socket
    BY TypeParts
  <2>1. CASE UNCHANGED vars
    BY <2>1 DEF vars
  <2> QED
    BY <2>1, LifeOwn, LifeHandler DEF Next
<1> QED
  BY <1>1, <1>2, TypeCorrect, PTL DEF Spec, SocketsLive, Life!Spec
=============================================================================
