------------------------- MODULE RegistrationProof --------------------------
(***************************************************************************)
(* Proofs about Registration, for any cells and any number of URCs on the  *)
(* line, and, for set_registration(), one caller at a time.                *)
(*                                                                         *)
(* The handler compares with _reg_params, the state machine has its own    *)
(* view: FollowInv says how far polls let the two drift apart, and that    *)
(* the newest URC on the line is what is true in the modem.                *)
(***************************************************************************)
EXTENDS Registration, SequenceTheorems, TLAPS

RegParams == [type : {"none", "EREG"}, status : Statuses \cup {"NotAvailable"},
              rat : {"NB1", "unknown"}, cell : Cells \cup {NoCell}]

Views == [status : Statuses \cup {"NotAvailable"}, cell : Cells \cup {NoCell}]

Settings == [pc : {"idle", "automatic", "manual", "write"}, error : BOOLEAN]

(* A report names a cell exactly when it says registered. *)
Consistent(report) == report.status \in Registered <=> report.cell # NoCell

(* What the handler remembers, against what it has told. *)
Drift ==
    /\ regParams.status \in Registered => view.status \in Registered
    /\ (view.status \in Registered /\ regParams.status \notin Registered) =>
         pollFailed /\ regParams.status = "NotRegistered" /\ regParams.type = "EREG"
    /\ regParams.cell \in {NoCell, view.cell}

(* What has been told, when everything has been handled. *)
Told ==
    /\ network.status \in Registered => view.status \in Registered /\ view.cell = network.cell
    /\ (view.status \in Registered /\ network.status \notin Registered) =>
         pollFailed /\ network.status = "NotRegistered"

FollowInv ==
    /\ Consistent(network)
    /\ urcs # <<>> => urcs[Len(urcs)] = network
    /\ \A i \in 1..Len(urcs) : Consistent(urcs[i])
    /\ ~garbled => Drift /\ (urcs = <<>> => Told)

-----------------------------------------------------------------------------
(* Type correctness.                                                       *)

(* The oldest URC, and those that are left.                                *)
LEMMA Handled ==
    ASSUME urcs \in Seq(Report), urcs # <<>>
    PROVE  /\ Head(urcs) \in Report /\ Tail(urcs) \in Seq(Report)
           /\ Len(Tail(urcs)) = Len(urcs) - 1 /\ Len(urcs) \in Nat /\ Len(urcs) > 0
           /\ Head(urcs) = urcs[1]
           /\ \A i \in 1..Len(Tail(urcs)) : Tail(urcs)[i] = urcs[i + 1]
BY HeadTailProperties, EmptySeq, LenProperties

(* What a poll stores is typed.                                            *)
LEMMA PolledType ==
    ASSUME NEW report \in Report
    PROVE  /\ Polled(report) \in RegParams
           /\ Polled(report).status = report.status /\ Polled(report).cell = report.cell
           /\ Polled(report).type = "EREG"
BY DEF Polled, Rat, RegParams, Report

(* What a poll without a response reads is a report.                       *)
LEMMA NothingRead == [status |-> "NotRegistered", cell |-> NoCell] \in Report
BY DEF Report, Statuses

(* A change of the network is on the line.                                 *)
LEMMA NetworkChangeEffect ==
    ASSUME TypeOK, NetworkChange
    PROVE  /\ network' \in Report /\ Consistent(network')
           /\ urcs' \in Seq(Report) /\ Len(urcs) \in Nat /\ Len(urcs') = Len(urcs) + 1
           /\ urcs'[Len(urcs')] = network' /\ \A i \in 1..Len(urcs) : urcs'[i] = urcs[i]
<1>1. PICK status \in Statuses, cell \in Cells \cup {NoCell} :
        /\ network' = [status |-> status, cell |-> cell]
        /\ cell \in IF status \in Registered THEN Cells ELSE {NoCell}
  BY DEF NetworkChange
<1>2. network' \in Report /\ Consistent(network')
  BY <1>1, ParametersAssumption DEF Report, Consistent
<1>3. urcs' = Append(urcs, network')
  BY DEF NetworkChange
<1> QED
  BY <1>2, <1>3, AppendProperties, LenProperties DEF TypeOK

(* A caller's progress is typed wherever it goes.                          *)
LEMMA SettingType ==
    ASSUME TypeOK, NEW c \in Callers, NEW p \in {"automatic", "manual", "write"}, NEW e \in BOOLEAN,
           setting' = [setting EXCEPT ![c] = [pc |-> p, error |-> e]]
    PROVE  setting' \in [Callers -> Settings]
<1>1. [pc |-> p, error |-> e] \in Settings
  BY DEF Settings
<1>2. setting \in [Callers -> Settings]
  BY DEF TypeOK, Settings
<1> QED
  BY <1>1, <1>2

(* The initial state is typed.                                             *)
LEMMA TypeInit == Init => TypeOK
<1> SUFFICES ASSUME Init PROVE TypeOK
  OBVIOUS
<1>1. network \in Report /\ regParams \in RegParams /\ view \in Views
  BY DEF Init, Report, RegParams, Views, Statuses
<1>2. urcs \in Seq(Report) /\ setting \in [Callers -> Settings]
  BY EmptySeq DEF Init, NoSetting, Settings
<1> QED
  BY <1>1, <1>2 DEF Init, TypeOK, RegParams, Views, Settings

(* Every step keeps the types.                                             *)
LEMMA TypeStep == TypeOK /\ [Next]_vars => TypeOK'
<1> SUFFICES ASSUME TypeOK, [Next]_vars PROVE TypeOK'
  OBVIOUS
<1> USE DEF regVars, modeVars
<1>1. CASE UNCHANGED vars
  BY <1>1 DEF vars, TypeOK
<1>2. CASE NetworkChange
  BY <1>2, NetworkChangeEffect DEF NetworkChange, TypeOK
<1>3. CASE HandleUrc
  <2>1. Head(urcs) \in Report /\ urcs' \in Seq(Report)
    BY <1>3, Handled DEF HandleUrc, TypeOK
  <2>2. regParams' \in RegParams
    BY <1>3, <2>1 DEF HandleUrc, Rat, TypeOK, Report, RegParams
  <2>3. view' \in Views
    BY <1>3, <2>1 DEF HandleUrc, TypeOK, Report, Views
  <2>4. disconnects' \in {0, 1} /\ pollFailed' \in BOOLEAN
    BY <1>3 DEF HandleUrc, TypeOK
  <2> QED
    BY <1>3, <2>1, <2>2, <2>3, <2>4 DEF HandleUrc, TypeOK, RegParams, Views
<1>4. CASE UnreadableUrc
  BY <1>4, Handled DEF UnreadableUrc, TypeOK
<1>5. CASE PollByStateMachine
  <2>1. regParams' \in RegParams
    BY <1>5, PolledType DEF PollByStateMachine, TypeOK
  <2>2. view' \in Views
    BY <1>5 DEF PollByStateMachine, TypeOK, Report, Views
  <2> QED
    BY <1>5, <2>1, <2>2 DEF PollByStateMachine, TypeOK, RegParams, Views
<1>6. CASE PollByApplication \/ PollFails
  <2>1. regParams' \in RegParams
    BY <1>6, PolledType, NothingRead DEF PollByApplication, PollFails, TypeOK
  <2> QED
    BY <1>6, <2>1 DEF PollByApplication, PollFails, TypeOK, RegParams
<1>7. ASSUME NEW c \in Callers, SetAutomatic(c) PROVE TypeOK'
  <2>1. setting' \in [Callers -> Settings]
    <3>1. \E p \in {"automatic", "manual", "write"}, e \in BOOLEAN :
            setting' = [setting EXCEPT ![c] = [pc |-> p, error |-> e]]
      BY <1>7 DEF SetAutomatic
    <3> QED
      BY <3>1, SettingType
  <2> QED
    BY <1>7, <2>1 DEF SetAutomatic, TypeOK, Settings
<1>8. ASSUME NEW c \in Callers, WriteAutomatic(c) \/ SetManual(c) PROVE TypeOK'
  <2>1. \E mode \in {"automatic", "manual"} : WriteMode(c, mode)
    BY <1>8 DEF WriteAutomatic, SetManual
  <2>2. setting' \in [Callers -> Settings] /\ copsMode' \in {"automatic", "manual"}
    <3>1. \E p \in {"automatic", "manual"}, e \in BOOLEAN :
            setting' = [setting EXCEPT ![c] = [pc |-> p, error |-> e]]
      BY <2>1 DEF WriteMode
    <3>2. copsMode' \in {"automatic", "manual"}
      BY <2>1 DEF WriteMode, TypeOK
    <3> QED
      BY <3>1, <3>2, SettingType
  <2> QED
    BY <2>1, <2>2 DEF WriteMode, TypeOK, Settings
<1> QED
  BY <1>1, <1>2, <1>3, <1>4, <1>5, <1>6, <1>7, <1>8 DEF Next

-----------------------------------------------------------------------------
(* The handler and the state machine.                                      *)

(* Initially nobody is registered and nobody believes it.                  *)
LEMMA FollowInit == Init => FollowInv
BY DEF Init, FollowInv, Consistent, Drift, Told, Registered

(* After every step the newest URC is what is true, and the handler and    *)
(* the state machine have drifted apart no further.                        *)
LEMMA FollowStep == TypeOK /\ FollowInv /\ [Next]_vars => FollowInv'
<1> SUFFICES ASSUME TypeOK, FollowInv, [Next]_vars PROVE FollowInv'
  OBVIOUS
<1> USE DEF regVars, modeVars
<1>1. CASE UNCHANGED regVars
  BY <1>1 DEF FollowInv, Drift, Told, Consistent
<1>2. CASE NetworkChange
  <2>1. urcs' # <<>> /\ urcs'[Len(urcs')] = network' /\ Consistent(network')
    BY <1>2, NetworkChangeEffect, EmptySeq
  <2>2. \A i \in 1..Len(urcs') : Consistent(urcs'[i])
    BY <1>2, NetworkChangeEffect DEF FollowInv
  <2>3. UNCHANGED <<regParams, view, pollFailed, garbled>>
    BY <1>2 DEF NetworkChange
  <2> QED
    BY <2>1, <2>2, <2>3 DEF FollowInv, Drift, Consistent
<1>3. CASE HandleUrc \/ UnreadableUrc
  <2>1. urcs # <<>> /\ urcs' = Tail(urcs) /\ network' = network /\ urcs \in Seq(Report)
    BY <1>3 DEF HandleUrc, UnreadableUrc, TypeOK
  <2>2. /\ urcs' # <<>> => urcs'[Len(urcs')] = network'
        /\ \A i \in 1..Len(urcs') : Consistent(urcs'[i])
        /\ Consistent(Head(urcs)) /\ (urcs' = <<>> => Head(urcs) = network)
    <3>1. Len(urcs') = Len(urcs) - 1 /\ Len(urcs) \in Nat /\ Len(urcs) > 0
          /\ Head(urcs) = urcs[1] /\ \A i \in 1..Len(urcs') : urcs'[i] = urcs[i + 1]
      BY <2>1, Handled
    <3>2. urcs' \in Seq(Report)
      BY <2>1, Handled
    <3>3. urcs' = <<>> <=> Len(urcs') = 0
      BY <3>2, EmptySeq
    <3>4. urcs' # <<>> => urcs'[Len(urcs')] = network'
      <4> SUFFICES ASSUME urcs' # <<>> PROVE urcs'[Len(urcs')] = network'
        OBVIOUS
      <4>1. Len(urcs') \in 1..Len(urcs') /\ Len(urcs') + 1 = Len(urcs)
        BY <3>1, <3>3
      <4> QED
        BY <2>1, <3>1, <4>1 DEF FollowInv
    <3>5. \A i \in 1..Len(urcs') : Consistent(urcs'[i])
      <4> SUFFICES ASSUME NEW i \in 1..Len(urcs') PROVE Consistent(urcs'[i])
        OBVIOUS
      <4>1. i + 1 \in 1..Len(urcs) /\ urcs'[i] = urcs[i + 1]
        BY <3>1
      <4> QED
        BY <4>1 DEF FollowInv
    <3>6. Consistent(Head(urcs))
      <4>1. 1 \in 1..Len(urcs)
        BY <3>1
      <4> QED
        BY <3>1, <4>1 DEF FollowInv
    <3>7. urcs' = <<>> => Head(urcs) = network
      <4>1. urcs' = <<>> => Len(urcs) = 1
        BY <3>1, <3>3
      <4> QED
        BY <2>1, <3>1, <4>1 DEF FollowInv
    <3> QED
      BY <3>4, <3>5, <3>6, <3>7
  <2>3. ASSUME ~garbled' PROVE Drift' /\ (urcs' = <<>> => Told')
    <3> DEFINE report == Head(urcs)
    <3>0. HandleUrc /\ ~garbled /\ Drift /\ Consistent(report) /\ report \in Report
      BY <1>3, <2>1, <2>2, <2>3, Handled DEF HandleUrc, UnreadableUrc, FollowInv
    <3>1. /\ regParams'.type = "EREG" /\ regParams'.status = report.status
          /\ regParams'.cell = IF CellNews(report) THEN report.cell ELSE regParams.cell
          /\ view'.status = IF StatusNews(report) THEN report.status ELSE view.status
          /\ view'.cell = IF CellNews(report) THEN report.cell ELSE view.cell
          /\ pollFailed' = (pollFailed /\ ~StatusNews(report))
      BY <3>0 DEF HandleUrc
    <3>2. (report.status \in Registered) => view'.status \in Registered
      BY <3>0, <3>1 DEF Drift, StatusNews
    <3>3. (view'.status \in Registered /\ report.status \notin Registered) =>
             pollFailed' /\ report.status = "NotRegistered"
      <4>1. CASE StatusNews(report)
        BY <3>1, <4>1
      <4>2. CASE ~StatusNews(report)
        BY <3>0, <3>1, <4>2 DEF Drift, StatusNews
      <4> QED
        BY <4>1, <4>2
    <3>4. regParams'.cell \in {NoCell, view'.cell}
      BY <3>0, <3>1 DEF Drift
    <3>5. report.status \in Registered => view'.cell = report.cell
      BY <3>0, <3>1 DEF Drift, CellNews, Consistent
    <3>6. Drift'
      BY <3>1, <3>2, <3>3, <3>4 DEF Drift
    <3> QED
      BY <2>1, <2>2, <3>2, <3>3, <3>5, <3>6 DEF Told
  <2> QED
    BY <2>1, <2>2, <2>3 DEF FollowInv, Consistent
<1>4. CASE PollByStateMachine \/ PollByApplication \/ PollFails
  <2>1. UNCHANGED <<network, urcs, garbled>> /\ urcs = <<>> /\ view'.cell = view.cell
    BY <1>4 DEF PollByStateMachine, PollByApplication, PollFails, TypeOK
  <2>2. ASSUME ~garbled PROVE Drift' /\ Told'
    <3>0. Drift /\ Told /\ Consistent(network) /\ network \in Report
      BY <2>1, <2>2 DEF FollowInv, TypeOK
    <3>1. CASE PollFails
      <4>1. /\ regParams'.status = "NotRegistered" /\ regParams'.cell = NoCell
            /\ regParams'.type = "EREG" /\ pollFailed' /\ view' = view
        BY <3>1, PolledType, NothingRead DEF PollFails
      <4> QED
        BY <2>1, <3>0, <4>1 DEF Drift, Told, Registered
    <3>2. CASE PollByStateMachine
      <4>1. regParams'.status = network.status /\ regParams'.cell = network.cell
            /\ view'.status = network.status
        BY <3>0, <3>2, PolledType DEF PollByStateMachine, TypeOK
      <4> QED
        BY <2>1, <3>0, <4>1 DEF Drift, Told, Consistent
    <3>3. CASE PollByApplication
      <4>1. regParams'.status = network.status /\ regParams'.cell = network.cell
            /\ regParams'.type = "EREG" /\ UNCHANGED <<view, pollFailed>>
        BY <3>0, <3>3, PolledType DEF PollByApplication
      <4> QED
        BY <2>1, <3>0, <4>1 DEF Drift, Told, Consistent
    <3> QED
      BY <1>4, <3>1, <3>2, <3>3
  <2> QED
    BY <2>1, <2>2 DEF FollowInv, Consistent
<1>5. ASSUME NEW c \in Callers, SetAutomatic(c) \/ WriteAutomatic(c) \/ SetManual(c)
      PROVE  UNCHANGED regVars
  BY <1>5 DEF SetAutomatic, WriteAutomatic, SetManual, WriteMode
<1> QED
  BY <1>1, <1>2, <1>3, <1>4, <1>5 DEF Next, vars

(* The inductive invariant.                                                *)
LEMMA Invariance == Spec => [](TypeOK /\ FollowInv)
<1>1. Init => TypeOK /\ FollowInv
  BY TypeInit, FollowInit
<1>2. TypeOK /\ FollowInv /\ [Next]_vars => (TypeOK /\ FollowInv)'
  BY TypeStep, FollowStep
<1> QED
  BY <1>1, <1>2, PTL DEF Spec

-----------------------------------------------------------------------------
(* The theorems.                                                           *)

(* Every variable keeps its type: the access technology and the status     *)
(* never take each other's values.                                         *)
THEOREM TypeCorrect == Spec => []TypeOK
BY Invariance, PTL

(* With every URC handled, the state machine's view is right about whether *)
(* and in which cell the modem is registered, except after a failed poll.  *)
THEOREM ViewsFollow == Spec => []ViewIsCurrent
<1>1. FollowInv => ViewIsCurrent
  BY DEF FollowInv, Told, ViewIsCurrent
<1> QED
  BY <1>1, Invariance, PTL

(* A loss of registration is reported once, polls between URCs or not.     *)
THEOREM LossReported == Spec => LossReportedOnce
<1> DEFINE Reported ==
      ~garbled' =>
        (disconnects' # disconnects <=>
            /\ Len(urcs') < Len(urcs)
            /\ view.status \in Registered /\ view'.status = "NotRegistered")
<1>1. TypeOK /\ FollowInv /\ [Next]_vars => [Reported]_vars
  <2> SUFFICES ASSUME TypeOK, FollowInv, Next, ~garbled'
               PROVE  disconnects' # disconnects <=>
                        /\ Len(urcs') < Len(urcs)
                        /\ view.status \in Registered /\ view'.status = "NotRegistered"
    OBVIOUS
  <2>0. Len(urcs) \in Nat
    BY LenProperties DEF TypeOK
  <2> USE DEF regVars, modeVars
  <2>1. CASE HandleUrc
    <3> DEFINE report == Head(urcs)
    <3>1. ~garbled /\ Drift
      BY <2>1 DEF HandleUrc, FollowInv
    <3>2. Len(urcs') < Len(urcs)
      BY <2>1, Handled DEF HandleUrc, TypeOK
    <3>3. view'.status = IF StatusNews(report) THEN report.status ELSE view.status
      BY <2>1 DEF HandleUrc
    <3>4. disconnects' # disconnects <=> Disconnects(report)
      BY <2>1 DEF HandleUrc, TypeOK
    <3>5. Disconnects(report) <=> view.status \in Registered /\ view'.status = "NotRegistered"
      <4>1. "NotRegistered" \notin Registered
        BY DEF Registered
      <4>2. CASE StatusNews(report) /\ report.status = "NotRegistered"
        <5>1. (regParams.status \in Registered) <=> (view.status \in Registered)
          BY <3>1, <4>2 DEF Drift, StatusNews
        <5> QED
          BY <3>3, <4>2, <5>1 DEF Disconnects
      <4>3. CASE ~(StatusNews(report) /\ report.status = "NotRegistered")
        BY <3>3, <4>1, <4>3 DEF Disconnects
      <4> QED
        BY <4>2, <4>3
    <3> QED
      BY <3>2, <3>4, <3>5
  <2>2. CASE UnreadableUrc
    BY <2>2 DEF UnreadableUrc
  <2>3. CASE NetworkChange
    <3>1. disconnects' = disconnects /\ ~(Len(urcs') < Len(urcs))
      BY <2>0, <2>3, NetworkChangeEffect DEF NetworkChange
    <3> QED
      BY <3>1
  <2>4. CASE /\ ~HandleUrc /\ ~UnreadableUrc /\ ~NetworkChange
    <3>1. UNCHANGED <<disconnects, urcs>>
      BY <2>4 DEF Next, PollByStateMachine, PollByApplication, PollFails, SetAutomatic,
                  WriteAutomatic, SetManual, WriteMode
    <3> QED
      BY <2>0, <3>1
  <2> QED
    BY <2>1, <2>2, <2>3, <2>4
<1> QED
  BY <1>1, Invariance, PTL DEF Spec, LossReportedOnce

(* For one caller, set_registration() reports success only when the modem  *)
(* is in the mode that was asked for.                                      *)
THEOREM ModeSet ==
    ASSUME \A c, d \in Callers : c = d PROVE Spec => []ModeAsSet
<1>1. Init => ModeAsSet
  BY DEF Init, ModeAsSet, NoSetting
<1>2. TypeOK /\ ModeAsSet /\ [Next]_vars => ModeAsSet'
  <2> SUFFICES ASSUME TypeOK, ModeAsSet, [Next]_vars PROVE ModeAsSet'
    OBVIOUS
  <2> USE DEF regVars, modeVars
  <2>1. ASSUME NEW c \in Callers, SetAutomatic(c) PROVE ModeAsSet'
    <3>1. UNCHANGED copsMode
      BY <2>1 DEF SetAutomatic
    <3>2. setting'[c].error \/ setting'[c].pc = "write" \/ setting'[c].pc = copsMode
      BY <2>1 DEF SetAutomatic, TypeOK
    <3> QED
      BY <3>1, <3>2 DEF ModeAsSet
  <2>2. ASSUME NEW c \in Callers, NEW mode \in {"automatic", "manual"}, WriteMode(c, mode)
        PROVE  ModeAsSet'
    <3>1. setting'[c].error \/ (setting'[c].pc = mode /\ copsMode' = mode)
      BY <2>2 DEF WriteMode, TypeOK
    <3> QED
      BY <3>1 DEF ModeAsSet
  <2>3. CASE UNCHANGED modeVars
    BY <2>3 DEF ModeAsSet
  <2>4. Next => UNCHANGED modeVars \/ \E c \in Callers : SetAutomatic(c) \/ WriteAutomatic(c) \/ SetManual(c)
    BY DEF Next, NetworkChange, HandleUrc, UnreadableUrc, PollByStateMachine, PollByApplication,
           PollFails
  <2> QED
    BY <2>1, <2>2, <2>3, <2>4 DEF WriteAutomatic, SetManual, vars
<1> QED
  BY <1>1, <1>2, Invariance, PTL DEF Spec
=============================================================================
