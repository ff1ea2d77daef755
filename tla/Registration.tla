---------------------------- MODULE Registration ----------------------------
(***************************************************************************)
(* Network registration (QUECTEL_BC660KGL_CellularNetwork): the +CEREG URC *)
(* against the polls that write the same _reg_params, and the registration *)
(* mode.                                                                   *)
(*                                                                         *)
(* The handler compares a URC with _reg_params and tells the cellular      *)
(* state machine what is new.  get_registration_params() overwrites        *)
(* _reg_params and tells nobody but its caller, who may be the state       *)
(* machine or the application.                                             *)
(*                                                                         *)
(* A poll is one step, taken when no +CEREG URC is on the line.            *)
(***************************************************************************)
EXTENDS Naturals, Sequences

CONSTANTS
    Cells,          \* cell ids
    NoCell,         \* -1: the URC or response has no cell id
    Callers,        \* threads that call set_registration()
    MaxUrcs         \* +CEREG URCs on the line at a time

ASSUME ParametersAssumption == NoCell \notin Cells /\ MaxUrcs \in Nat

Registered == {"Home", "Roaming"}

Statuses == Registered \cup {"NotRegistered", "Searching", "Denied"}

VARIABLES
    network,        \* what is true in the modem: status and cell
    urcs,           \* +CEREG URCs on the line, oldest first
    regParams,      \* _reg_params
    view,           \* what the state machine has been told: status and cell
    disconnects,    \* parity of the NSAPI_STATUS_DISCONNECTED events
    garbled,        \* ghost: was a URC ever unreadable?
    pollFailed,     \* ghost: did a poll fail since the last status callback?
    copsMode,       \* registration mode in the modem
    setting         \* what each caller of set_registration() is doing

regVars == <<network, urcs, regParams, view, disconnects, garbled, pollFailed>>
modeVars == <<copsMode, setting>>
vars == <<regVars, modeVars>>

NoSetting == [pc |-> "idle", error |-> FALSE]

Init ==
    /\ network = [status |-> "NotRegistered", cell |-> NoCell]
    /\ urcs = <<>>
    /\ regParams = [type |-> "none", status |-> "NotAvailable", rat |-> "unknown", cell |-> NoCell]
    /\ view = [status |-> "NotAvailable", cell |-> NoCell]
    /\ disconnects = 0
    /\ garbled = FALSE /\ pollFailed = FALSE
    /\ copsMode \in {"automatic", "manual"}
    /\ setting = [c \in Callers |-> NoSetting]

-----------------------------------------------------------------------------
(* A report has a cell and an access technology when registered. *)
Rat(report) == IF report.status \in Registered THEN "NB1" ELSE "unknown"

NetworkChange ==
    /\ Len(urcs) < MaxUrcs
    /\ \E status \in Statuses :
       \E cell \in IF status \in Registered THEN Cells ELSE {NoCell} :
         /\ network # [status |-> status, cell |-> cell]
         /\ network' = [status |-> status, cell |-> cell]
    /\ urcs' = Append(urcs, network')
    /\ UNCHANGED <<regParams, view, disconnects, garbled, pollFailed, modeVars>>

-----------------------------------------------------------------------------
(* urc_cereg_with_cause()                                                  *)

(* The status is new, or is the first of this registration type. *)
StatusNews(report) == report.status # regParams.status \/ regParams.type # "EREG"

(* Mutant: the cell is compared with "none" only. *)
CellNewsFirst(report) == report.cell # NoCell /\ regParams.cell = NoCell

CellNews(report) == report.cell # NoCell /\ report.cell # regParams.cell

(* Mutant: the previous status is not looked at. *)
DisconnectsAlways(report) == StatusNews(report) /\ report.status = "NotRegistered"

(* NSAPI_EVENT_CONNECTION_STATUS_CHANGE with NSAPI_STATUS_DISCONNECTED *)
Disconnects(report) ==
    StatusNews(report) /\ report.status = "NotRegistered" /\ regParams.status \in Registered

HandleUrc ==
    /\ urcs # <<>>
    /\ urcs' = Tail(urcs)
    /\ LET report == Head(urcs) IN
         /\ regParams' = [type |-> "EREG", status |-> report.status, rat |-> Rat(report),
                          cell |-> IF CellNews(report) THEN report.cell ELSE regParams.cell]
         /\ view' = [status |-> IF StatusNews(report) THEN report.status ELSE view.status,
                     cell   |-> IF CellNews(report) THEN report.cell ELSE view.cell]
         /\ disconnects' = IF Disconnects(report) THEN 1 - disconnects ELSE disconnects
         /\ pollFailed' = (pollFailed /\ ~StatusNews(report))
    /\ UNCHANGED <<network, garbled, modeVars>>

(* A URC that ends in an error of the AT handler changes nothing. *)
UnreadableUrc ==
    /\ urcs # <<>>
    /\ urcs' = Tail(urcs)
    /\ garbled' = TRUE
    /\ UNCHANGED <<network, regParams, view, disconnects, pollFailed, modeVars>>

-----------------------------------------------------------------------------
(* get_registration_params(C_EREG)                                         *)

Polled(report) ==
    [type |-> "EREG", status |-> report.status, rat |-> Rat(report), cell |-> report.cell]

(* The response answers the caller; only the state machine acts on it. *)
PollByStateMachine ==
    /\ urcs = <<>>
    /\ regParams' = Polled(network)
    /\ view' = [view EXCEPT !.status = network.status]
    /\ pollFailed' = FALSE
    /\ UNCHANGED <<network, urcs, disconnects, garbled, modeVars>>

PollByApplication ==
    /\ urcs = <<>>
    /\ regParams' = Polled(network)
    /\ UNCHANGED <<network, urcs, view, disconnects, garbled, pollFailed, modeVars>>

(* Without a response every field reads as -1, and is stored like that. *)
PollFails ==
    /\ urcs = <<>>
    /\ regParams' = Polled([status |-> "NotRegistered", cell |-> NoCell])
    /\ pollFailed' = TRUE
    /\ UNCHANGED <<network, urcs, view, disconnects, garbled, modeVars>>

-----------------------------------------------------------------------------
(* set_registration()                                                      *)

(* Without a PLMN it first asks for the mode; read_cops() may fail. *)
SetAutomatic(c) ==
    /\ setting[c].pc \in {"idle", "automatic", "manual"}
    /\ \/ setting' = [setting EXCEPT ![c] = [pc |-> "automatic", error |-> TRUE]]
       \/ setting' = [setting EXCEPT ![c] =
                        [pc |-> IF copsMode = "automatic" THEN "automatic" ELSE "write",
                         error |-> FALSE]]
    /\ UNCHANGED <<regVars, copsMode>>

(* AT+COPS=<mode>: it works, is refused, or loses its response. *)
WriteMode(c, mode) ==
    /\ \/ copsMode' = mode /\ setting' = [setting EXCEPT ![c] = [pc |-> mode, error |-> FALSE]]
       \/ copsMode' \in {copsMode, mode} /\ setting' = [setting EXCEPT ![c] = [pc |-> mode, error |-> TRUE]]
    /\ UNCHANGED regVars

(* Mutant: a mode other than manual needs no command, and none is sent. *)
WriteAutomaticSkipped(c) ==
    /\ setting[c].pc = "write"
    /\ setting' = [setting EXCEPT ![c].pc = "automatic"]
    /\ UNCHANGED <<regVars, copsMode>>

WriteAutomatic(c) == setting[c].pc = "write" /\ WriteMode(c, "automatic")

SetManual(c) == setting[c].pc \in {"idle", "automatic", "manual"} /\ WriteMode(c, "manual")

-----------------------------------------------------------------------------
Next ==
    \/ NetworkChange \/ HandleUrc \/ UnreadableUrc
    \/ PollByStateMachine \/ PollByApplication \/ PollFails
    \/ \E c \in Callers : SetAutomatic(c) \/ WriteAutomatic(c) \/ SetManual(c)

Spec == Init /\ [][Next]_vars

-----------------------------------------------------------------------------
(* Properties.                                                             *)

Report == [status : Statuses, cell : Cells \cup {NoCell}]

TypeOK ==
    /\ network \in Report
    /\ urcs \in Seq(Report)
    /\ regParams \in [type : {"none", "EREG"}, status : Statuses \cup {"NotAvailable"},
                      rat : {"NB1", "unknown"}, cell : Cells \cup {NoCell}]
    /\ view \in [status : Statuses \cup {"NotAvailable"}, cell : Cells \cup {NoCell}]
    /\ disconnects \in {0, 1}
    /\ garbled \in BOOLEAN /\ pollFailed \in BOOLEAN
    /\ copsMode \in {"automatic", "manual"}
    /\ setting \in [Callers -> [pc : {"idle", "automatic", "manual", "write"}, error : BOOLEAN]]

(* With every URC handled, the state machine believes that the modem is    *)
(* registered exactly when it is, and knows its cell, although polls by    *)
(* anybody overwrite what the handler compares with.  A poll that fails    *)
(* makes the handler blind for one status: it may swallow the next one.    *)
ViewIsCurrent ==
    (urcs = <<>> /\ ~garbled) =>
        /\ ~pollFailed => (view.status \in Registered <=> network.status \in Registered)
        /\ network.status \in Registered => view.cell = network.cell

(* DISCONNECTED is sent when, and only when, a URC takes the state machine *)
(* from registered to not registered: a loss of registration is reported   *)
(* once, also when a failed poll has blurred what the handler remembers.   *)
LossReportedOnce ==
    [][~garbled' =>
        (disconnects' # disconnects <=>
            /\ Len(urcs') < Len(urcs)
            /\ view.status \in Registered /\ view'.status = "NotRegistered")]_vars

(* set_registration() reports success only when the modem is in the mode   *)
(* that was asked for, whatever its queries and commands met before.       *)
ModeAsSet ==
    \A c \in Callers :
        (setting[c].pc \in {"automatic", "manual"} /\ ~setting[c].error) =>
            copsMode = setting[c].pc
=============================================================================
