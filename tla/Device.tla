------------------------------- MODULE Device --------------------------------
(***************************************************************************)
(* Bringing the modem up and down (QUECTEL_BC660KGL): init() with its      *)
(* one-shot configure(), the power-on and power-off calls, and the wake-up *)
(* and reboot they share.  The calls come from the cellular state machine  *)
(* and the application, one at a time, in any order.                       *)
(*                                                                         *)
(* Every AT command may succeed, be refused, or take effect while its      *)
(* answer is lost.  The modem keeps some settings only until it restarts,  *)
(* and applies others only when it restarts.                               *)
(***************************************************************************)
EXTENDS Naturals, Sequences

CONSTANTS
    Configure,      \* the configure option of mbed_lib.json
    ResetWired,     \* is the reset pin connected?
    MaxFaults,      \* bound on the commands that fail on a modem that listens
    MaxOffs         \* bound on the power-off calls

ASSUME OptionsAssumption ==
    Configure \in BOOLEAN /\ ResetWired \in BOOLEAN /\ MaxFaults \in Nat /\ MaxOffs \in Nat

VARIABLES
    modem,      \* awake; radio (CFUN=1); what is set until the next restart;
                \* what is stored in NVRAM, and what of it is in effect
    configured, \* _configured
    sendDelay,  \* pacing of AT commands: "normal" or, in configure(), "slow"
    io,         \* is input and output on the serial line enabled?
    locked,     \* does init() hold the AT lock?
    op,         \* the call in progress
    pc,         \* where it is
    step,       \* position in configure()'s script, attempts at CFUN=1
    result,     \* the last call and whether it succeeded
    faults,     \* commands that have failed so far
    offs        \* power-off calls so far

driverVars == <<configured, sendDelay, io, locked>>
callVars == <<op, pc, step, result>>
boundVars == <<faults, offs>>
vars == <<modem, driverVars, callVars, boundVars>>

(* Settings configure() writes, in this order.  QCGDEFCONT comes last and  *)
(* only when its value differs.                                            *)
Script == <<"relversion", "NBcategory", "EPCO", "MacRAI",
            "slplocktimes", "OOSScheme", "DataInactTimer", "CIPCA", "QBAND">>

(* qcfg_settings() ignores the errors of these. *)
Optional == {"slplocktimes", "OOSScheme", "DataInactTimer"}

Nvram == {Script[i] : i \in DOMAIN Script} \cup {"QCGDEFCONT"}

Mandatory == Nvram \ Optional

Init ==
    /\ \E on, radio \in BOOLEAN, nv \in {{}, {"QCGDEFCONT"}, Nvram} :
         modem = [awake |-> on, radio |-> radio, volatile |-> {}, stored |-> nv, active |-> nv]
    /\ configured = FALSE /\ sendDelay = "normal" /\ io = TRUE /\ locked = FALSE
    /\ op = "none" /\ pc = "idle" /\ step = 1 /\ result = [op |-> "none", ok |-> TRUE]
    /\ faults = 0 /\ offs = 0

-----------------------------------------------------------------------------
(* The modem.                                                              *)

Fault == faults < MaxFaults /\ faults' = faults + 1 /\ UNCHANGED offs

NoFault == UNCHANGED boundVars

Reachable == io /\ modem.awake

(* at_cmd_discard() returns ok; the command turns the modem into m. *)
Command(m, ok) ==
    \/ Reachable /\ ok /\ modem' = m /\ NoFault
    \/ Reachable /\ ~ok /\ modem' \in {m, modem} /\ Fault
    \/ ~Reachable /\ ~ok /\ modem' = modem /\ NoFault

Rebooted(on) ==
    [modem EXCEPT !.awake = TRUE, !.radio = on, !.volatile = {}, !.active = modem.stored]

(* With sleep mode on, an idle modem falls asleep. *)
Sleep ==
    /\ pc = "idle" /\ modem.awake /\ "QSCLK" \notin modem.volatile
    /\ modem' = [modem EXCEPT !.awake = FALSE]
    /\ UNCHANGED <<driverVars, callVars, boundVars>>

Hang ==
    /\ modem.awake /\ Fault
    /\ modem' = [modem EXCEPT !.awake = FALSE]
    /\ UNCHANGED <<driverVars, callVars>>

-----------------------------------------------------------------------------
(* Calls.                                                                  *)

Goto(label) == pc' = label /\ UNCHANGED <<op, result>>

Return(ok) ==
    /\ pc' = "idle" /\ op' = "none"
    /\ result' = [op |-> op, ok |-> ok]

(* init() takes the AT lock for its whole duration. *)
CallInit ==
    /\ pc = "idle"
    /\ op' = "init" /\ pc' = "AT" /\ locked' = TRUE
    /\ UNCHANGED <<modem, configured, sendDelay, io, step, result, boundVars>>

HardPowerOn ==
    /\ pc = "idle"
    /\ op' = "hard_power_on" /\ pc' = "wake"
    /\ UNCHANGED <<modem, driverVars, step, result, boundVars>>

SoftPowerOn ==
    /\ pc = "idle"
    /\ op' = "soft_power_on" /\ pc' = "wake"
    /\ UNCHANGED <<modem, driverVars, step, result, boundVars>>

PowerOff(call) ==
    /\ pc = "idle" /\ offs < MaxOffs
    /\ offs' = offs + 1
    /\ op' = call /\ pc' = "off"
    /\ UNCHANGED <<modem, driverVars, step, result, faults>>

(* soft_power_off() leaves the line open if the modem did not listen,      *)
(* hard_power_off() closes it whatever the result.                         *)
SleepModeOn ==
    /\ pc = "off"
    /\ \E ok \in BOOLEAN :
         /\ Command([modem EXCEPT !.volatile = @ \ {"QSCLK"}], ok)
         /\ io' = (io /\ ~ok /\ op = "soft_power_off")
         /\ Return(ok)
    /\ UNCHANGED <<configured, sendDelay, locked, step>>

-----------------------------------------------------------------------------
(* init().                                                                 *)

InitReturns(ok) == Return(ok) /\ locked' = FALSE

Configuring == sendDelay = "slow"

(* Mutant: a failing configure() returns past its exit label. *)
ConfigureExitEarly(ok) ==
    /\ sendDelay' = IF ok THEN "normal" ELSE sendDelay
    /\ configured' = (configured \/ ok)
    /\ step' = 1
    /\ IF ok THEN Goto("CFUN=1") /\ UNCHANGED locked ELSE InitReturns(FALSE)

(* Every path out of configure() passes its exit label. *)
ConfigureExit(ok) ==
    /\ sendDelay' = "normal"
    /\ configured' = (configured \/ ok)
    /\ step' = 1
    /\ IF ok THEN Goto("CFUN=1") /\ UNCHANGED locked ELSE InitReturns(FALSE)

Stay == UNCHANGED <<configured, sendDelay, locked, step>>

InitSync ==
    /\ pc = "AT"
    /\ \E ok \in BOOLEAN :
         /\ Command(modem, ok)
         /\ IF ok THEN Goto("ATE0") /\ UNCHANGED locked ELSE InitReturns(FALSE)
    /\ UNCHANGED <<configured, sendDelay, io, step>>

(* Echo, error format and connection URCs.  Errors are ignored, except     *)
(* that reboot_and_resync() returns the one of the last of the three.      *)
SetDefault ==
    /\ pc \in {"ATE0", "CMEE", "CSCON"}
    /\ \E ok \in BOOLEAN :
         /\ Command([modem EXCEPT !.volatile = @ \cup {pc}], ok)
         /\ CASE pc = "ATE0" -> Goto("CMEE") /\ Stay
              [] pc = "CMEE" -> Goto("CSCON") /\ Stay
              [] pc = "CSCON" /\ ~Configuring -> Goto("QSCLK") /\ Stay
              [] pc = "CSCON" /\ Configuring -> ConfigureExit(ok)
    /\ UNCHANGED io

(* set_sleep_mode(0): its error ends init() and the power-on calls, but    *)
(* not reboot_and_resync().                                                *)
SleepModeOff ==
    /\ pc = "QSCLK"
    /\ \E ok \in BOOLEAN :
         /\ Command([modem EXCEPT !.volatile = @ \cup {"QSCLK"}], ok)
         /\ IF Configuring
            THEN Goto("ATE0") /\ Stay
            ELSE IF op = "init"
            THEN /\ IF ~ok THEN InitReturns(FALSE)
                    ELSE /\ Goto(IF Configure /\ ~configured THEN "CFUN=0" ELSE "CFUN=1")
                         /\ UNCHANGED locked
                 /\ step' = 1
                 /\ UNCHANGED <<configured, sendDelay>>
            ELSE Return(ok) /\ Stay
    /\ UNCHANGED io

(* Mutant: the third failure is taken for a success. *)
RadioOnUnchecked ==
    /\ pc = "CFUN=1"
    /\ \E ok \in BOOLEAN :
         /\ Command([modem EXCEPT !.radio = TRUE], ok)
         /\ IF ok \/ step = 3 THEN Goto("CPSMS") /\ UNCHANGED <<step, locked>>
            ELSE Goto("CFUN=1") /\ step' = step + 1 /\ UNCHANGED locked
    /\ UNCHANGED <<configured, sendDelay, io>>

(* Mutant: the attempts are not counted. *)
RadioOnForever ==
    /\ pc = "CFUN=1"
    /\ \E ok \in BOOLEAN :
         /\ Command([modem EXCEPT !.radio = TRUE], ok)
         /\ Goto(IF ok THEN "CPSMS" ELSE "CFUN=1") /\ UNCHANGED <<step, locked>>
    /\ UNCHANGED <<configured, sendDelay, io>>

(* CFUN=1, up to three attempts. *)
RadioOn ==
    /\ pc = "CFUN=1"
    /\ \E ok \in BOOLEAN :
         /\ Command([modem EXCEPT !.radio = TRUE], ok)
         /\ IF ok THEN Goto("CPSMS") /\ UNCHANGED <<step, locked>>
            ELSE IF step < 3 THEN Goto("CFUN=1") /\ step' = step + 1 /\ UNCHANGED locked
            ELSE InitReturns(FALSE) /\ UNCHANGED step
    /\ UNCHANGED <<configured, sendDelay, io>>

(* The power-saving timers; errors are ignored. *)
InitDone ==
    /\ pc = "CPSMS"
    /\ \E ok \in BOOLEAN : Command(modem, ok)
    /\ InitReturns(TRUE)
    /\ UNCHANGED <<configured, sendDelay, io, step>>

-----------------------------------------------------------------------------
(* configure().                                                            *)

(* Mutant: the error of CFUN=0 is ignored. *)
MinimumFunctionalityUnchecked ==
    /\ pc = "CFUN=0"
    /\ \E ok \in BOOLEAN : Command([modem EXCEPT !.radio = FALSE], ok)
    /\ Goto("write") /\ sendDelay' = "slow" /\ UNCHANGED <<configured, locked, step>>
    /\ UNCHANGED io

(* Every command that alters NVRAM requires minimum functionality. *)
MinimumFunctionality ==
    /\ pc = "CFUN=0"
    /\ \E ok \in BOOLEAN :
         /\ Command([modem EXCEPT !.radio = FALSE], ok)
         /\ IF ok THEN Goto("write") /\ sendDelay' = "slow" /\ UNCHANGED <<configured, locked, step>>
            ELSE ConfigureExit(FALSE)
    /\ UNCHANGED io

Write(setting) == [modem EXCEPT !.stored = @ \cup {setting}]

(* Mutant: no error of the script ends it. *)
WriteSettingUnchecked ==
    /\ pc = "write"
    /\ \E ok \in BOOLEAN :
         /\ Command(Write(Script[step]), ok)
         /\ IF step < Len(Script)
            THEN step' = step + 1 /\ Goto("write") /\ UNCHANGED <<configured, sendDelay, locked>>
            ELSE Goto("QCGDEFCONT?") /\ Stay
    /\ UNCHANGED io

WriteSetting ==
    /\ pc = "write"
    /\ \E ok \in BOOLEAN :
         /\ Command(Write(Script[step]), ok)
         /\ IF ~ok /\ Script[step] \notin Optional
            THEN ConfigureExit(FALSE)
            ELSE IF step < Len(Script)
            THEN step' = step + 1 /\ Goto("write") /\ UNCHANGED <<configured, sendDelay, locked>>
            ELSE Goto("QCGDEFCONT?") /\ Stay
    /\ UNCHANGED io

(* default_pdp_context_matches(): an unreadable value does not match. *)
ReadPdpContext ==
    /\ pc = "QCGDEFCONT?"
    /\ \E ok \in BOOLEAN :
         /\ Command(modem, ok)
         /\ Goto(IF ok /\ "QCGDEFCONT" \in modem.stored THEN "QRST" ELSE "QCGDEFCONT")
    /\ Stay /\ UNCHANGED io

WritePdpContext ==
    /\ pc = "QCGDEFCONT"
    /\ \E ok \in BOOLEAN :
         /\ Command(Write("QCGDEFCONT"), ok)
         /\ IF ok THEN Goto("QRST") /\ Stay ELSE ConfigureExit(FALSE)
    /\ UNCHANGED io

(* AT+QRST=1; its error is cleared. *)
Reboot ==
    /\ pc = "QRST"
    /\ \E ok, on \in BOOLEAN : Command(Rebooted(on), ok)
    /\ Goto("wake")
    /\ Stay /\ UNCHANGED io

-----------------------------------------------------------------------------
(* wake_up().                                                              *)

WokenUp(ok) ==
    CASE ok                 -> Goto("QSCLK") /\ Stay
      [] ~ok /\ Configuring  -> ConfigureExit(FALSE)
      [] ~ok /\ ~Configuring -> Return(FALSE) /\ Stay

(* Mutant: the serial line stays as it is. *)
WakeUpMute ==
    /\ pc = "wake"
    /\ UNCHANGED io
    /\ \/ io /\ modem' = [modem EXCEPT !.awake = TRUE] /\ NoFault /\ WokenUp(TRUE)
       \/ /\ IF Reachable THEN Fault ELSE NoFault
          /\ Goto("reset") /\ Stay /\ UNCHANGED modem

(* The PSM_EXIT pulse or the characters of AT wake a sleeping modem, or    *)
(* else sync() finds that nobody answers.                                  *)
WakeUp ==
    /\ pc = "wake"
    /\ io' = TRUE
    /\ \/ modem' = [modem EXCEPT !.awake = TRUE] /\ NoFault /\ WokenUp(TRUE)
       \/ /\ IF modem.awake THEN Fault ELSE NoFault
          /\ Goto("reset") /\ Stay /\ UNCHANGED modem

(* reset() pulses the pin and waits for RDY; sync() has the last word. *)
Reset ==
    /\ pc = "reset"
    /\ \/ ~ResetWired /\ WokenUp(FALSE) /\ NoFault /\ UNCHANGED modem
       \/ ResetWired /\ \E on \in BOOLEAN :
            /\ modem' = Rebooted(on)
            /\ (io /\ WokenUp(TRUE) /\ NoFault) \/ (WokenUp(FALSE) /\ Fault)
    /\ UNCHANGED io

-----------------------------------------------------------------------------
Step ==
    \/ SleepModeOn \/ InitSync \/ SetDefault \/ SleepModeOff \/ RadioOn \/ InitDone
    \/ MinimumFunctionality \/ WriteSetting \/ ReadPdpContext \/ WritePdpContext \/ Reboot
    \/ WakeUp \/ Reset

Next ==
    \/ CallInit \/ HardPowerOn \/ SoftPowerOn
    \/ \E call \in {"hard_power_off", "soft_power_off"} : PowerOff(call)
    \/ Step \/ Sleep \/ Hang

Spec == Init /\ [][Next]_vars

(* A call goes on until it returns; the cellular state machine retries.    *)
FairSpec == Spec /\ WF_vars(Step) /\ SF_vars(SoftPowerOn) /\ SF_vars(CallInit)

-----------------------------------------------------------------------------
(* Properties.                                                             *)

Modems == [awake : BOOLEAN, radio : BOOLEAN,
           volatile : SUBSET {"ATE0", "CMEE", "CSCON", "QSCLK"},
           stored : SUBSET Nvram, active : SUBSET Nvram]

Calls == {"init", "hard_power_on", "soft_power_on", "hard_power_off", "soft_power_off"}

Results == [op : Calls \cup {"none"}, ok : BOOLEAN]

TypeOK ==
    /\ modem \in Modems
    /\ configured \in BOOLEAN /\ sendDelay \in {"normal", "slow"}
    /\ io \in BOOLEAN /\ locked \in BOOLEAN
    /\ op \in Calls \cup {"none"}
    /\ pc \in {"idle", "off", "wake", "reset", "AT", "ATE0", "CMEE", "CSCON", "QSCLK",
               "CFUN=0", "CFUN=1", "CPSMS", "write", "QCGDEFCONT?", "QCGDEFCONT", "QRST"}
    /\ step \in 1..Len(Script)
    /\ result \in Results
    /\ faults \in 0..MaxFaults /\ offs \in 0..MaxOffs

(* configure() is not repeated once it has succeeded, so success must mean *)
(* that the modem has stored every setting data depends on, whatever was   *)
(* refused or lost on the way and however often it had to start over.      *)
ConfiguredIsStored == configured => Mandatory \subseteq modem.stored

(* A successful init() returns with the radio on: no path, however many of *)
(* the three attempts failed, leaves configure()'s CFUN=0 in force.        *)
InitTurnsRadioOn == [][(pc # "idle" /\ pc' = "idle" /\ result'.op = "init" /\ result'.ok)
                            => modem'.radio]_vars

(* A call that is over has left nothing behind: neither the AT lock nor    *)
(* the slow pacing of configure(), on any of init()'s ways out.            *)
ReturnsClean == pc = "idle" => ~locked /\ sendDelay = "normal"

(* configure(): "every NVRAM-altering command below requires minimum       *)
(* functionality".                                                         *)
NvramWrittenRadioOff == [][modem'.stored # modem.stored => ~modem.radio]_vars

(* How many steps the call in progress may still take.  init() gets the    *)
(* modem's attention and its defaults set, and configure() reboots the     *)
(* modem and does the same over again before init() goes on.               *)
Settling == [QSCLK |-> 15, CSCON |-> 16, CMEE |-> 17, ATE0 |-> 18, AT |-> 19,
             reset |-> 16, wake |-> 17]

Rebooting == [CSCON |-> 5, CMEE |-> 6, ATE0 |-> 7, QSCLK |-> 8, reset |-> 9, wake |-> 10,
              QRST |-> 11, QCGDEFCONT |-> 12]

StepsLeft ==
    CASE pc = "idle"            -> 0
      [] pc \in {"off", "CPSMS"} -> 1
      [] pc = "CFUN=1"          -> 5 - step
      [] pc = "write"           -> 14 + Len(Script) - step
      [] pc = "CFUN=0"          -> 14 + Len(Script)
      [] pc = "QCGDEFCONT?"     -> 13
      [] Configuring /\ pc \in DOMAIN Rebooting -> Rebooting[pc]
      [] ~Configuring /\ pc \in DOMAIN Settling -> Settling[pc] + Len(Script)

(* A call ends after a bounded number of commands, whatever they return:   *)
(* wake_up(), the defaults and set_sleep_mode() run before configure() and *)
(* again inside it, the radio is tried three times, and no path through    *)
(* them leads back to where the call has been.                             *)
CallsDescend == [][Step => StepsLeft' \in 0..(StepsLeft - 1)]_vars

(* Whatever failed and however the modem was left, powering on and         *)
(* initialising it again, as the cellular state machine does, succeeds     *)
(* once the commands do.                                                   *)
Recovers == []<>(pc = "idle" /\ result.op = "init" /\ result.ok)
=============================================================================
