---------------------------- MODULE DeviceProof ------------------------------
(***************************************************************************)
(* Proofs about Device, for any options and any number of faults.          *)
(*                                                                         *)
(* ConfiguredIsStored and ReturnsClean are not inductive.  Progress says   *)
(* how much of the script is stored at each point of configure(), Bracket  *)
(* which points lie inside configure() and inside init().  RadioInv says   *)
(* at which points the radio is known to be off, and on.                   *)
(***************************************************************************)
EXTENDS Device, TLAPS

Stored(n) == \A i \in 1..n : Script[i] \in modem.stored \cup Optional

AfterScript == {"QRST", "wake", "reset", "QSCLK", "ATE0", "CMEE", "CSCON"}

InInit == {"AT", "ATE0", "CMEE", "CSCON", "CFUN=0", "CFUN=1", "CPSMS",
           "write", "QCGDEFCONT?", "QCGDEFCONT", "QRST"}

Progress ==
    /\ pc = "CFUN=0" => step = 1
    /\ pc = "write" => step \in 1..Len(Script) /\ Stored(step - 1)
    /\ pc \in {"QCGDEFCONT?", "QCGDEFCONT"} => Stored(Len(Script))
    /\ Configuring /\ pc \in AfterScript => Mandatory \subseteq modem.stored
    /\ configured => Mandatory \subseteq modem.stored

Bracket ==
    /\ sendDelay \in {"normal", "slow"}
    /\ locked <=> op = "init"
    /\ op = "none" <=> pc = "idle"
    /\ pc \in InInit => op = "init"
    /\ pc = "off" => op \in {"hard_power_off", "soft_power_off"}
    /\ Configuring => pc \in AfterScript \cup {"write", "QCGDEFCONT?", "QCGDEFCONT"}
    /\ pc \in {"write", "QCGDEFCONT?", "QCGDEFCONT", "QRST"} => Configuring
    /\ Configuring => op = "init"
    /\ pc \in {"wake", "reset"} /\ op = "init" => Configuring

Inv == TypeOK /\ Progress /\ Bracket

(* The script has nine commands; every one writes an NVRAM setting.        *)
LEMMA ScriptLength ==
    /\ Len(Script) = 9
    /\ \A i \in 1..Len(Script) : Script[i] \in Nvram
<1>1. Len(Script) = 9 /\ DOMAIN Script = 1..Len(Script)  BY DEF Script
<1> QED  BY <1>1 DEF Nvram

(* The whole script and QCGDEFCONT are all that configure() must store.    *)
LEMMA ScriptStored ==
    ASSUME Stored(Len(Script)), "QCGDEFCONT" \in modem.stored
    PROVE  Mandatory \subseteq modem.stored
<1>1. DOMAIN Script = 1..Len(Script)  BY DEF Script
<1> QED  BY <1>1 DEF Stored, Mandatory, Nvram

(* What at_cmd_discard() can do to a modem that the command turns into m:  *)
(* nothing stored is lost, and success means that m is what is left.       *)
LEMMA CommandEffect ==
    ASSUME TypeOK, NEW m \in Modems, NEW ok \in BOOLEAN, Command(m, ok),
           modem.stored \subseteq m.stored
    PROVE  /\ modem' \in Modems /\ modem.stored \subseteq modem'.stored
           /\ ok => modem' = m
           /\ faults' \in 0..MaxFaults /\ offs' \in 0..MaxOffs
<1>1. modem \in Modems /\ faults \in 0..MaxFaults /\ MaxFaults \in Nat
  BY OptionsAssumption DEF TypeOK
<1> QED  BY <1>1 DEF TypeOK, Command, Fault, NoFault, boundVars

(* Stored() survives a step that loses nothing.                            *)
LEMMA StoredKept ==
    ASSUME NEW n, Stored(n), modem.stored \subseteq modem'.stored
    PROVE  Stored(n)'
BY DEF Stored

(* Return() leaves a result of its type.                                   *)
LEMMA ReturnType ==
    ASSUME TypeOK, NEW ok \in BOOLEAN, Return(ok)
    PROVE  result' \in Results /\ op' = "none" /\ pc' = "idle"
<1>1. op \in Calls \cup {"none"}  BY DEF TypeOK
<1> QED  BY <1>1 DEF Results, Return

(* The calls start from a driver at rest.                                  *)
LEMMA StartKeepsInv ==
    ASSUME Inv, CallInit \/ HardPowerOn \/ SoftPowerOn
                \/ \E call \in {"hard_power_off", "soft_power_off"} : PowerOff(call)
    PROVE  Inv'
<1>1. TypeOK'
  <2>1. offs' \in 0..MaxOffs /\ faults' \in 0..MaxFaults
    BY OptionsAssumption
    DEF Inv, TypeOK, CallInit, HardPowerOn, SoftPowerOn, PowerOff, boundVars
  <2>2. locked' \in BOOLEAN /\ op' \in Calls \cup {"none"}
    BY DEF Inv, TypeOK, Calls, CallInit, HardPowerOn, SoftPowerOn, PowerOff, driverVars
  <2> QED
    BY <2>1, <2>2 DEF Inv, TypeOK, CallInit, HardPowerOn, SoftPowerOn, PowerOff, driverVars
<1>2. Progress'
  BY DEF Inv, Progress, Bracket, Stored, Configuring, AfterScript,
         CallInit, HardPowerOn, SoftPowerOn, PowerOff, driverVars
<1>3. Bracket'
  BY DEF Inv, Bracket, Configuring, AfterScript, InInit,
         CallInit, HardPowerOn, SoftPowerOn, PowerOff, driverVars
<1> QED  BY <1>1, <1>2, <1>3 DEF Inv

(* The modem may fall asleep or hang at any time.                          *)
LEMMA ModemKeepsInv ==
    ASSUME Inv, Sleep \/ Hang
    PROVE  Inv'
<1>1. modem' = [modem EXCEPT !.awake = FALSE] /\ UNCHANGED <<driverVars, callVars>>
  BY DEF Sleep, Hang
<1>2. modem' \in Modems /\ modem'.stored = modem.stored
  BY <1>1 DEF Inv, TypeOK, Modems
<1>3. faults' \in 0..MaxFaults /\ offs' \in 0..MaxOffs
  BY OptionsAssumption DEF Inv, TypeOK, Sleep, Hang, Fault, boundVars
<1>4. TypeOK'  BY <1>1, <1>2, <1>3 DEF Inv, TypeOK, driverVars, callVars
<1>5. Progress'
  BY <1>1, <1>2 DEF Inv, Progress, Stored, Configuring, driverVars, callVars
<1>6. Bracket'  BY <1>1 DEF Inv, Bracket, Configuring, driverVars, callVars
<1> QED  BY <1>4, <1>5, <1>6 DEF Inv

(* Whatever path leads to configure()'s exit label, the label may be       *)
(* passed with success only with everything stored.                        *)
LEMMA ExitKeepsInv ==
    ASSUME Inv, NEW ok \in BOOLEAN, ConfigureExit(ok), op = "init",
           modem' \in Modems, modem.stored \subseteq modem'.stored,
           ok => Mandatory \subseteq modem'.stored,
           faults' \in 0..MaxFaults, offs' \in 0..MaxOffs, io' \in BOOLEAN
    PROVE  Inv'
<1>1. TypeOK'
  <2>1. result' \in Results /\ op' \in Calls \cup {"none"} /\ pc' \in {"idle", "CFUN=1"}
    BY ReturnType DEF Inv, TypeOK, ConfigureExit, Goto, InitReturns
  <2>2. locked' \in BOOLEAN
    BY DEF Inv, TypeOK, ConfigureExit, InitReturns
  <2>3. configured' \in BOOLEAN /\ sendDelay' = "normal" /\ step' \in 1..Len(Script)
    BY ScriptLength DEF ConfigureExit
  <2> QED  BY <2>1, <2>2, <2>3 DEF TypeOK
<1>2. Progress'
  <2>1. pc' \in {"idle", "CFUN=1"} /\ sendDelay' = "normal"
    BY DEF ConfigureExit, Goto, InitReturns, Return
  <2>2. configured' => configured \/ ok
    BY DEF ConfigureExit
  <2> QED  BY <2>1, <2>2 DEF Inv, Progress, Configuring
<1>3. Bracket'
  BY DEF Inv, Bracket, InInit, Configuring, ConfigureExit, Goto, InitReturns, Return
<1> QED  BY <1>1, <1>2, <1>3 DEF Inv

(* Likewise for a call that returns from outside configure().              *)
LEMMA ReturnKeepsInv ==
    ASSUME Inv, NEW ok \in BOOLEAN, Return(ok), ~locked', ~Configuring,
           UNCHANGED <<configured, sendDelay>>, locked' \in BOOLEAN,
           modem' \in Modems, modem.stored \subseteq modem'.stored,
           step' \in 1..Len(Script),
           faults' \in 0..MaxFaults, offs' \in 0..MaxOffs, io' \in BOOLEAN
    PROVE  Inv'
<1>1. result' \in Results /\ op' = "none" /\ pc' = "idle"
  BY ReturnType DEF Inv
<1>2. TypeOK'  BY <1>1 DEF Inv, TypeOK
<1>3. Progress'  BY <1>1 DEF Inv, Progress, Configuring
<1>4. Bracket'  BY <1>1 DEF Inv, Bracket, InInit, Configuring
<1> QED  BY <1>2, <1>3, <1>4 DEF Inv

(* A call that goes on: what must hold of the label it goes to.            *)
LEMMA GotoKeepsInv ==
    ASSUME Inv, NEW label, Goto(label),
           label \in InInit \cup {"wake", "reset", "QSCLK"},
           UNCHANGED <<configured, locked>>, sendDelay' \in {"normal", "slow"},
           modem' \in Modems, modem.stored \subseteq modem'.stored,
           step' \in 1..Len(Script),
           faults' \in 0..MaxFaults, offs' \in 0..MaxOffs, io' \in BOOLEAN,
           label = "CFUN=0" => step' = 1,
           label = "write" => Stored(step - 1)' /\ Configuring',
           label \in {"QCGDEFCONT?", "QCGDEFCONT"} => Stored(Len(Script))' /\ Configuring',
           label = "QRST" => Configuring',
           Configuring' /\ label \in AfterScript => Mandatory \subseteq modem'.stored,
           label \in InInit => op = "init", op # "none",
           Configuring' => /\ label \in AfterScript \cup {"write", "QCGDEFCONT?", "QCGDEFCONT"}
                           /\ op = "init",
           label \in {"wake", "reset"} /\ op = "init" => Configuring'
    PROVE  Inv'
<1>1. pc' = label /\ op' = op /\ result' = result
  BY DEF Goto
<1>2. TypeOK'  BY <1>1 DEF Inv, TypeOK, InInit
<1>3. Progress'  BY <1>1 DEF Inv, Progress
<1>4. Bracket'  BY <1>1 DEF Inv, Bracket, InInit
<1> QED  BY <1>2, <1>3, <1>4 DEF Inv

(* AT changes nothing; its error ends init().                              *)
LEMMA InitSyncKeepsInv ==
    ASSUME Inv, InitSync
    PROVE  Inv'
<1>1. PICK ok \in BOOLEAN :
        /\ Command(modem, ok)
        /\ IF ok THEN Goto("ATE0") /\ UNCHANGED locked ELSE InitReturns(FALSE)
  BY DEF InitSync
<1>2. pc = "AT" /\ UNCHANGED <<configured, sendDelay, io, step>>
  BY DEF InitSync
<1>3. /\ modem \in Modems /\ io' \in BOOLEAN /\ step' \in 1..Len(Script)
      /\ op = "init" /\ ~Configuring /\ ~Configuring' /\ sendDelay' \in {"normal", "slow"}
  BY <1>2 DEF Inv, TypeOK, Bracket, InInit, Configuring, AfterScript
<1>4. /\ modem' \in Modems /\ modem.stored \subseteq modem'.stored
      /\ faults' \in 0..MaxFaults /\ offs' \in 0..MaxOffs
  BY <1>1, <1>3, CommandEffect DEF Inv
<1>5. CASE ok
  BY <1>1, <1>2, <1>3, <1>4, <1>5, GotoKeepsInv DEF InInit
<1>6. CASE ~ok
  BY <1>1, <1>2, <1>3, <1>4, <1>6, ReturnKeepsInv DEF InitReturns
<1> QED  BY <1>5, <1>6

(* Echo, error format and URCs: only in configure() does the last of them  *)
(* lead to the exit label.                                                 *)
LEMMA SetDefaultKeepsInv ==
    ASSUME Inv, SetDefault
    PROVE  Inv'
<1> DEFINE M == [modem EXCEPT !.volatile = @ \cup {pc}]
<1>1. PICK ok \in BOOLEAN :
        /\ Command(M, ok)
        /\ CASE pc = "ATE0" -> Goto("CMEE") /\ Stay
             [] pc = "CMEE" -> Goto("CSCON") /\ Stay
             [] pc = "CSCON" /\ ~Configuring -> Goto("QSCLK") /\ Stay
             [] pc = "CSCON" /\ Configuring -> ConfigureExit(ok)
  BY DEF SetDefault
<1>2. pc \in {"ATE0", "CMEE", "CSCON"} /\ UNCHANGED io
  BY DEF SetDefault
<1>3. /\ modem \in Modems /\ io' \in BOOLEAN /\ step \in 1..Len(Script)
      /\ op = "init" /\ sendDelay \in {"normal", "slow"}
  BY <1>2 DEF Inv, TypeOK, Bracket, InInit
<1>4. M \in Modems /\ M.stored = modem.stored
  BY <1>2, <1>3 DEF Modems
<1>5. /\ modem' \in Modems /\ modem.stored \subseteq modem'.stored
      /\ faults' \in 0..MaxFaults /\ offs' \in 0..MaxOffs
  <2> HIDE DEF M
  <2> QED  BY <1>1, <1>4, CommandEffect DEF Inv
<1>6. Configuring => Mandatory \subseteq modem'.stored
  BY <1>2, <1>5 DEF Inv, Progress, AfterScript
<1>7. CASE pc = "CSCON" /\ Configuring
  BY <1>1, <1>2, <1>3, <1>5, <1>6, <1>7, ExitKeepsInv
<1>8. CASE ~(pc = "CSCON" /\ Configuring)
  <2>1. PICK label \in {"CMEE", "CSCON", "QSCLK"} : Goto(label) /\ Stay
    BY <1>1, <1>2, <1>8
  <2>2. Configuring' <=> Configuring
    BY <2>1 DEF Stay, Configuring
  <2> QED
    BY <1>2, <1>3, <1>5, <1>6, <2>1, <2>2, GotoKeepsInv DEF Stay, InInit, AfterScript
<1> QED  BY <1>7, <1>8

(* Sleep mode off: back to the defaults in configure(), on to it or to     *)
(* CFUN=1 in init(), the end of a power-on call.                           *)
LEMMA SleepModeOffKeepsInv ==
    ASSUME Inv, SleepModeOff
    PROVE  Inv'
<1> DEFINE M == [modem EXCEPT !.volatile = @ \cup {"QSCLK"}]
<1>1. PICK ok \in BOOLEAN :
        /\ Command(M, ok)
        /\ IF Configuring
           THEN Goto("ATE0") /\ Stay
           ELSE IF op = "init"
           THEN /\ IF ~ok THEN InitReturns(FALSE)
                   ELSE /\ Goto(IF Configure /\ ~configured THEN "CFUN=0" ELSE "CFUN=1")
                        /\ UNCHANGED locked
                /\ step' = 1
                /\ UNCHANGED <<configured, sendDelay>>
           ELSE Return(ok) /\ Stay
  BY DEF SleepModeOff
<1>2. pc = "QSCLK" /\ UNCHANGED io
  BY DEF SleepModeOff
<1>3. /\ modem \in Modems /\ io' \in BOOLEAN /\ step \in 1..Len(Script)
      /\ 1 \in 1..Len(Script) /\ sendDelay \in {"normal", "slow"} /\ op # "none"
      /\ locked \in BOOLEAN
  BY <1>2, ScriptLength DEF Inv, TypeOK, Bracket
<1>4. M \in Modems /\ M.stored = modem.stored
  BY <1>3 DEF Modems
<1>5. /\ modem' \in Modems /\ modem.stored \subseteq modem'.stored
      /\ faults' \in 0..MaxFaults /\ offs' \in 0..MaxOffs
  <2> HIDE DEF M
  <2> QED  BY <1>1, <1>4, CommandEffect DEF Inv
<1>6. CASE Configuring
  <2>1. Goto("ATE0") /\ Stay /\ Configuring'
    BY <1>1, <1>6 DEF Stay, Configuring
  <2>2. Mandatory \subseteq modem'.stored /\ op = "init"
    BY <1>2, <1>5, <1>6 DEF Inv, Progress, Bracket, AfterScript
  <2> QED
    BY <1>3, <1>5, <2>1, <2>2, GotoKeepsInv DEF Stay, InInit, AfterScript
<1>7. CASE ~Configuring /\ op = "init" /\ ok
  <2>1. PICK label \in {"CFUN=0", "CFUN=1"} : Goto(label)
    BY <1>1, <1>7
  <2>2. ~Configuring' /\ step' = 1 /\ UNCHANGED <<configured, sendDelay, locked>>
    BY <1>1, <1>7 DEF Configuring
  <2> QED
    BY <1>3, <1>5, <1>7, <2>1, <2>2, GotoKeepsInv DEF InInit
<1>8. CASE ~Configuring /\ op = "init" /\ ~ok
  BY <1>1, <1>3, <1>5, <1>8, ReturnKeepsInv DEF InitReturns
<1>9. CASE ~Configuring /\ op # "init"
  <2>1. Return(ok) /\ Stay
    BY <1>1, <1>9
  <2>2. ~locked' /\ locked' \in BOOLEAN
    BY <1>9, <1>3, <2>1 DEF Inv, Bracket, Stay
  <2> QED  BY <1>3, <1>5, <1>9, <2>1, <2>2, ReturnKeepsInv DEF Stay
<1> QED  BY <1>6, <1>7, <1>8, <1>9

(* CFUN=1 and the power-saving timers lie outside configure().             *)
LEMMA RadioOnKeepsInv ==
    ASSUME Inv, RadioOn \/ InitDone
    PROVE  Inv'
<1> DEFINE M == [modem EXCEPT !.radio = TRUE]
<1>1. /\ pc \in {"CFUN=1", "CPSMS"} /\ UNCHANGED <<configured, sendDelay, io>>
      /\ \E ok \in BOOLEAN : Command(M, ok) \/ Command(modem, ok)
  BY DEF RadioOn, InitDone
<1>2. /\ modem \in Modems /\ io' \in BOOLEAN /\ step \in 1..Len(Script)
      /\ op = "init" /\ ~Configuring /\ ~Configuring' /\ sendDelay' \in {"normal", "slow"}
  BY <1>1 DEF Inv, TypeOK, Bracket, InInit, Configuring, AfterScript
<1>3. M \in Modems /\ M.stored = modem.stored
  BY <1>2 DEF Modems
<1>4. /\ modem' \in Modems /\ modem.stored \subseteq modem'.stored
      /\ faults' \in 0..MaxFaults /\ offs' \in 0..MaxOffs
  <2> HIDE DEF M
  <2> QED  BY <1>1, <1>2, <1>3, CommandEffect DEF Inv
<1>5. CASE RadioOn
  <2>1. \/ \E label \in {"CPSMS", "CFUN=1"} : Goto(label) /\ UNCHANGED locked
        \/ InitReturns(FALSE)
    BY <1>5 DEF RadioOn
  <2>2. step' = step \/ (step < 3 /\ step' = step + 1)
    BY <1>5 DEF RadioOn
  <2>3. step' \in 1..Len(Script)
    BY <1>2, <2>2, ScriptLength
  <2>4. CASE \E label \in {"CPSMS", "CFUN=1"} : Goto(label) /\ UNCHANGED locked
    BY <1>1, <1>2, <1>4, <2>3, <2>4, GotoKeepsInv DEF InInit
  <2>5. CASE InitReturns(FALSE)
    BY <1>1, <1>2, <1>4, <2>3, <2>5, ReturnKeepsInv DEF InitReturns
  <2> QED  BY <2>1, <2>4, <2>5
<1>6. CASE InitDone
  BY <1>1, <1>2, <1>4, <1>6, ReturnKeepsInv DEF InitDone, InitReturns
<1> QED  BY <1>5, <1>6

(* CFUN=0 opens configure(), with nothing of the script written.           *)
LEMMA MinimumFunctionalityKeepsInv ==
    ASSUME Inv, MinimumFunctionality
    PROVE  Inv'
<1> DEFINE M == [modem EXCEPT !.radio = FALSE]
<1>1. PICK ok \in BOOLEAN :
        /\ Command(M, ok)
        /\ IF ok THEN Goto("write") /\ sendDelay' = "slow" /\ UNCHANGED <<configured, locked, step>>
           ELSE ConfigureExit(FALSE)
  BY DEF MinimumFunctionality
<1>2. pc = "CFUN=0" /\ UNCHANGED io
  BY DEF MinimumFunctionality
<1>3. /\ modem \in Modems /\ io' \in BOOLEAN /\ step = 1 /\ 1 \in 1..Len(Script) /\ op = "init"
  BY <1>2, ScriptLength DEF Inv, TypeOK, Bracket, Progress, InInit
<1>4. M \in Modems /\ M.stored = modem.stored
  BY <1>3 DEF Modems
<1>5. /\ modem' \in Modems /\ modem.stored \subseteq modem'.stored
      /\ faults' \in 0..MaxFaults /\ offs' \in 0..MaxOffs
  <2> HIDE DEF M
  <2> QED  BY <1>1, <1>4, CommandEffect DEF Inv
<1>6. CASE ok
  <2>1. Stored(step - 1)' /\ step' = 1
    BY <1>1, <1>3, <1>6 DEF Stored
  <2> QED
    BY <1>1, <1>3, <1>5, <1>6, <2>1, GotoKeepsInv DEF InInit, Configuring, AfterScript
<1>7. CASE ~ok
  BY <1>1, <1>3, <1>5, <1>7, ExitKeepsInv
<1> QED  BY <1>6, <1>7

(* Each command of the script adds its setting, or ends the script unless  *)
(* its setting is optional.                                                *)
LEMMA WriteSettingKeepsInv ==
    ASSUME Inv, WriteSetting
    PROVE  Inv'
<1> DEFINE M == Write(Script[step])
<1>1. PICK ok \in BOOLEAN :
        /\ Command(M, ok)
        /\ IF ~ok /\ Script[step] \notin Optional
           THEN ConfigureExit(FALSE)
           ELSE IF step < Len(Script)
           THEN step' = step + 1 /\ Goto("write") /\ UNCHANGED <<configured, sendDelay, locked>>
           ELSE Goto("QCGDEFCONT?") /\ Stay
  BY DEF WriteSetting
<1>2. pc = "write" /\ UNCHANGED io
  BY DEF WriteSetting
<1>3. /\ modem \in Modems /\ io' \in BOOLEAN /\ step \in 1..Len(Script)
      /\ op = "init" /\ Configuring /\ Stored(step - 1) /\ Script[step] \in Nvram
  BY <1>2, ScriptLength DEF Inv, TypeOK, Bracket, Progress, InInit
<1>4. M \in Modems /\ M.stored = modem.stored \cup {Script[step]}
  BY <1>3 DEF Modems, Write
<1>5. /\ modem' \in Modems /\ modem.stored \subseteq modem'.stored
      /\ faults' \in 0..MaxFaults /\ offs' \in 0..MaxOffs
      /\ ok => modem'.stored = modem.stored \cup {Script[step]}
  <2> HIDE DEF M
  <2> QED  BY <1>1, <1>4, CommandEffect DEF Inv
<1>6. CASE ~ok /\ Script[step] \notin Optional
  BY <1>1, <1>3, <1>5, <1>6, ExitKeepsInv
<1>7. CASE ok \/ Script[step] \in Optional
  <2>1. \A i \in 1..step : Script[i] \in modem'.stored \cup Optional
    <3> SUFFICES ASSUME NEW i \in 1..step
                 PROVE  Script[i] \in modem'.stored \cup Optional
      OBVIOUS
    <3>1. CASE i = step  BY <1>5, <1>7, <3>1
    <3>2. CASE i # step
      <4>1. i \in 1..(step - 1)  BY <3>2, <1>3, ScriptLength
      <4> QED  BY <4>1, <1>3, <1>5 DEF Stored
    <3> QED  BY <3>1, <3>2
  <2>2. CASE step < Len(Script)
    <3>1. /\ step' = step + 1 /\ Goto("write") /\ UNCHANGED <<configured, sendDelay, locked>>
      BY <1>1, <1>7, <2>2
    <3>2. step' \in 1..Len(Script) /\ step' - 1 = step /\ Configuring'
      BY <3>1, <2>2, <1>3, ScriptLength DEF Configuring
    <3>3. Stored(step - 1)'
      BY <2>1, <3>2 DEF Stored
    <3> QED
      BY <1>3, <1>5, <3>1, <3>2, <3>3, GotoKeepsInv DEF InInit, Configuring, AfterScript
  <2>3. CASE ~(step < Len(Script))
    <3>1. Goto("QCGDEFCONT?") /\ Stay /\ Configuring'
      BY <1>1, <1>3, <1>7, <2>3 DEF Stay, Configuring
    <3>2. step = Len(Script)  BY <1>3, <2>3, ScriptLength
    <3>3. Stored(Len(Script))'
      BY <2>1, <3>2 DEF Stored
    <3> QED
      BY <1>3, <1>5, <3>1, <3>3, GotoKeepsInv DEF InInit, Configuring, AfterScript, Stay
  <2> QED  BY <2>2, <2>3
<1> QED  BY <1>6, <1>7

(* The write of QCGDEFCONT is skipped only if its value is there.          *)
LEMMA ReadPdpContextKeepsInv ==
    ASSUME Inv, ReadPdpContext
    PROVE  Inv'
<1>1. PICK ok \in BOOLEAN :
        /\ Command(modem, ok)
        /\ Goto(IF ok /\ "QCGDEFCONT" \in modem.stored THEN "QRST" ELSE "QCGDEFCONT")
  BY DEF ReadPdpContext
<1>2. pc = "QCGDEFCONT?" /\ Stay /\ UNCHANGED io
  BY DEF ReadPdpContext
<1>3. /\ modem \in Modems /\ io' \in BOOLEAN /\ step' \in 1..Len(Script)
      /\ op = "init" /\ Configuring /\ Configuring' /\ Stored(Len(Script))
  BY <1>2 DEF Inv, TypeOK, Bracket, Progress, InInit, Stay, Configuring
<1>4. /\ modem' \in Modems /\ modem.stored \subseteq modem'.stored
      /\ faults' \in 0..MaxFaults /\ offs' \in 0..MaxOffs
  BY <1>1, <1>3, CommandEffect DEF Inv
<1>5. Stored(Len(Script))'
  BY <1>3, <1>4, StoredKept
<1>6. CASE ok /\ "QCGDEFCONT" \in modem.stored
  <2>1. Mandatory \subseteq modem'.stored
    BY <1>3, <1>4, <1>6, ScriptStored
  <2>2. Goto("QRST")
    BY <1>1, <1>6
  <2> QED
    BY <1>2, <1>3, <1>4, <2>1, <2>2, GotoKeepsInv DEF InInit, AfterScript, Configuring, Stay
<1>7. CASE ~(ok /\ "QCGDEFCONT" \in modem.stored)
  <2>1. Goto("QCGDEFCONT")
    BY <1>1, <1>7
  <2> QED
    BY <1>2, <1>3, <1>4, <1>5, <2>1, GotoKeepsInv DEF InInit, AfterScript, Configuring, Stay
<1> QED  BY <1>6, <1>7

(* The write completes what configure() has to store.                      *)
LEMMA WritePdpContextKeepsInv ==
    ASSUME Inv, WritePdpContext
    PROVE  Inv'
<1> DEFINE M == Write("QCGDEFCONT")
<1>1. PICK ok \in BOOLEAN :
        Command(M, ok) /\ IF ok THEN Goto("QRST") /\ Stay ELSE ConfigureExit(FALSE)
  BY DEF WritePdpContext
<1>2. pc = "QCGDEFCONT" /\ UNCHANGED io
  BY DEF WritePdpContext
<1>3. /\ modem \in Modems /\ io' \in BOOLEAN /\ step \in 1..Len(Script)
      /\ op = "init" /\ Configuring /\ Stored(Len(Script)) /\ sendDelay \in {"normal", "slow"}
  BY <1>2 DEF Inv, TypeOK, Bracket, Progress, InInit
<1>4. M \in Modems /\ M.stored = modem.stored \cup {"QCGDEFCONT"}
  BY <1>3 DEF Modems, Write, Nvram
<1>5. /\ modem' \in Modems /\ modem.stored \subseteq modem'.stored
      /\ faults' \in 0..MaxFaults /\ offs' \in 0..MaxOffs
      /\ ok => modem'.stored = modem.stored \cup {"QCGDEFCONT"}
  <2> HIDE DEF M
  <2> QED  BY <1>1, <1>4, CommandEffect DEF Inv
<1>6. CASE ok
  <2>1. Mandatory \subseteq modem'.stored
    <3>1. DOMAIN Script = 1..Len(Script)  BY DEF Script
    <3> QED  BY <1>3, <1>5, <1>6, <3>1 DEF Stored, Mandatory, Nvram
  <2>2. Goto("QRST") /\ Stay /\ Configuring'
    BY <1>1, <1>3, <1>6 DEF Stay, Configuring
  <2> QED
    BY <1>3, <1>5, <2>1, <2>2, GotoKeepsInv DEF InInit, AfterScript, Configuring, Stay
<1>7. CASE ~ok
  BY <1>1, <1>3, <1>5, <1>7, ExitKeepsInv
<1> QED  BY <1>6, <1>7

(* The reboot may lose the radio and the volatile settings, but nothing    *)
(* stored.                                                                 *)
LEMMA RebootedEffect ==
    ASSUME modem \in Modems, NEW on \in BOOLEAN
    PROVE  Rebooted(on) \in Modems /\ Rebooted(on).stored = modem.stored
BY DEF Modems, Rebooted

(* AT+QRST comes when everything is stored, and goes on whatever it said.  *)
LEMMA RebootKeepsInv ==
    ASSUME Inv, Reboot
    PROVE  Inv'
<1>1. PICK ok \in BOOLEAN, on \in BOOLEAN : Command(Rebooted(on), ok)
  BY DEF Reboot
<1>2. pc = "QRST" /\ Goto("wake") /\ Stay /\ UNCHANGED io
  BY DEF Reboot
<1>3. /\ modem \in Modems /\ io' \in BOOLEAN /\ step' \in 1..Len(Script)
      /\ op = "init" /\ Configuring' /\ Mandatory \subseteq modem.stored
  BY <1>2 DEF Inv, TypeOK, Bracket, Progress, InInit, Stay, Configuring, AfterScript
<1>4. /\ modem' \in Modems /\ modem.stored \subseteq modem'.stored
      /\ faults' \in 0..MaxFaults /\ offs' \in 0..MaxOffs
  BY <1>1, <1>3, RebootedEffect, CommandEffect DEF Inv
<1> QED
  BY <1>2, <1>3, <1>4, GotoKeepsInv DEF AfterScript, Configuring, Stay

(* wake_up() fails into the exit label from configure(), and out of the    *)
(* call from the power-on calls.                                           *)
LEMMA WokenUpKeepsInv ==
    ASSUME Inv, pc \in {"wake", "reset"}, NEW ok \in BOOLEAN, WokenUp(ok),
           modem' \in Modems, modem'.stored = modem.stored,
           faults' \in 0..MaxFaults, offs' \in 0..MaxOffs, io' \in BOOLEAN
    PROVE  Inv'
<1>1. /\ step \in 1..Len(Script) /\ op # "none" /\ locked \in BOOLEAN
      /\ Configuring <=> op = "init"
      /\ Configuring => Mandatory \subseteq modem'.stored
      /\ sendDelay \in {"normal", "slow"}
  BY DEF Inv, TypeOK, Bracket, Progress, AfterScript
<1>2. CASE ok
  <2>1. Goto("QSCLK") /\ Stay /\ (Configuring' <=> Configuring)
    BY <1>2 DEF WokenUp, Stay, Configuring
  <2> QED
    BY <1>1, <2>1, GotoKeepsInv DEF InInit, AfterScript, Configuring, Stay
<1>3. CASE ~ok /\ Configuring
  BY <1>1, <1>3, ExitKeepsInv DEF WokenUp
<1>4. CASE ~ok /\ ~Configuring
  <2>1. Return(FALSE) /\ Stay
    BY <1>4 DEF WokenUp
  <2>2. ~locked' /\ locked' \in BOOLEAN
    BY <1>1, <1>4, <2>1 DEF Inv, Bracket, Stay
  <2> QED  BY <1>1, <1>4, <2>1, <2>2, ReturnKeepsInv DEF Stay
<1> QED  BY <1>2, <1>3, <1>4

(* wake_up() and the reset it falls back on change nothing stored.         *)
LEMMA WakeUpKeepsInv ==
    ASSUME Inv, WakeUp
    PROVE  Inv'
<1>1. /\ modem \in Modems /\ faults \in 0..MaxFaults /\ MaxFaults \in Nat /\ offs \in 0..MaxOffs
      /\ pc = "wake" /\ io' = TRUE
  BY OptionsAssumption DEF Inv, TypeOK, WakeUp
<1>2. faults' \in 0..MaxFaults /\ offs' \in 0..MaxOffs
  <2>1. Fault \/ NoFault  BY DEF WakeUp
  <2> QED  BY <1>1, <2>1 DEF Fault, NoFault, boundVars
<1>3. CASE modem' = [modem EXCEPT !.awake = TRUE] /\ WokenUp(TRUE)
  <2>1. modem' \in Modems /\ modem'.stored = modem.stored
    BY <1>1, <1>3 DEF Modems
  <2> QED  BY <1>1, <1>2, <1>3, <2>1, WokenUpKeepsInv
<1>4. CASE Goto("reset") /\ Stay /\ UNCHANGED modem
  <2>1. /\ step' \in 1..Len(Script) /\ op # "none" /\ sendDelay' \in {"normal", "slow"}
        /\ Configuring' <=> op = "init"
        /\ Configuring' => Mandatory \subseteq modem'.stored
    BY <1>1, <1>4 DEF Inv, TypeOK, Bracket, Progress, AfterScript, Configuring, Stay
  <2> QED
    BY <1>1, <1>2, <1>4, <2>1, GotoKeepsInv DEF InInit, AfterScript, Stay
<1> QED  BY <1>3, <1>4 DEF WakeUp

(* reset() may fail, or restart the modem.                                *)
LEMMA ResetKeepsInv ==
    ASSUME Inv, Reset
    PROVE  Inv'
<1>1. /\ modem \in Modems /\ faults \in 0..MaxFaults /\ MaxFaults \in Nat /\ offs \in 0..MaxOffs
      /\ pc = "reset" /\ io' \in BOOLEAN
  BY OptionsAssumption DEF Inv, TypeOK, Reset
<1>2. faults' \in 0..MaxFaults /\ offs' \in 0..MaxOffs
  <2>1. Fault \/ NoFault  BY DEF Reset
  <2> QED  BY <1>1, <2>1 DEF Fault, NoFault, boundVars
<1>3. PICK ok \in BOOLEAN : WokenUp(ok)
  BY DEF Reset
<1>4. modem' \in Modems /\ modem'.stored = modem.stored
  BY <1>1, RebootedEffect DEF Reset
<1> QED  BY <1>1, <1>2, <1>3, <1>4, WokenUpKeepsInv

(* Sleep mode on ends the power-off calls, which init() does not make.     *)
LEMMA SleepModeOnKeepsInv ==
    ASSUME Inv, SleepModeOn
    PROVE  Inv'
<1> DEFINE M == [modem EXCEPT !.volatile = @ \ {"QSCLK"}]
<1>1. PICK ok \in BOOLEAN :
        /\ Command(M, ok)
        /\ io' = (io /\ ~ok /\ op = "soft_power_off")
        /\ Return(ok)
  BY DEF SleepModeOn
<1>2. pc = "off" /\ UNCHANGED <<configured, sendDelay, locked, step>>
  BY DEF SleepModeOn
<1>3. /\ modem \in Modems /\ step' \in 1..Len(Script) /\ io' \in BOOLEAN
      /\ ~Configuring /\ ~locked' /\ locked' \in BOOLEAN
  BY <1>1, <1>2 DEF Inv, TypeOK, Bracket, Configuring, AfterScript
<1>4. M \in Modems /\ M.stored = modem.stored
  BY <1>3 DEF Modems
<1>5. /\ modem' \in Modems /\ modem.stored \subseteq modem'.stored
      /\ faults' \in 0..MaxFaults /\ offs' \in 0..MaxOffs
  <2> HIDE DEF M
  <2> QED  BY <1>1, <1>4, CommandEffect DEF Inv
<1> QED  BY <1>1, <1>2, <1>3, <1>5, ReturnKeepsInv

(* Inv holds initially.                                                    *)
LEMMA InitInv == Init => Inv
<1> SUFFICES ASSUME Init PROVE Inv
  OBVIOUS
<1>1. modem \in Modems
  <2>1. PICK on \in BOOLEAN, radio \in BOOLEAN, nv \in {{}, {"QCGDEFCONT"}, Nvram} :
          modem = [awake |-> on, radio |-> radio, volatile |-> {}, stored |-> nv, active |-> nv]
    BY DEF Init
  <2>2. nv \in SUBSET Nvram
    BY DEF Nvram
  <2> QED  BY <2>1, <2>2 DEF Modems
<1>2. TypeOK
  <2>1. result \in Results
    BY DEF Init, Results
  <2>2. faults \in 0..MaxFaults /\ offs \in 0..MaxOffs /\ step \in 1..Len(Script)
    BY OptionsAssumption, ScriptLength DEF Init
  <2> QED  BY <1>1, <2>1, <2>2 DEF Init, TypeOK
<1>3. Progress  BY DEF Init, Progress, Configuring
<1>4. Bracket  BY DEF Init, Bracket, InInit, Configuring
<1> QED  BY <1>2, <1>3, <1>4 DEF Inv

(* Every step keeps it.                                                    *)
LEMMA NextInv == Inv /\ [Next]_vars => Inv'
<1> SUFFICES ASSUME Inv, [Next]_vars PROVE Inv'
  OBVIOUS
<1>1. CASE CallInit \/ HardPowerOn \/ SoftPowerOn
           \/ \E call \in {"hard_power_off", "soft_power_off"} : PowerOff(call)
  BY <1>1, StartKeepsInv
<1>2. CASE Step
  BY <1>2, SleepModeOnKeepsInv, InitSyncKeepsInv, SetDefaultKeepsInv, SleepModeOffKeepsInv,
     RadioOnKeepsInv, MinimumFunctionalityKeepsInv, WriteSettingKeepsInv,
     ReadPdpContextKeepsInv, WritePdpContextKeepsInv, RebootKeepsInv,
     WakeUpKeepsInv, ResetKeepsInv
  DEF Step
<1>3. CASE Sleep \/ Hang
  BY <1>3, ModemKeepsInv
<1>4. CASE UNCHANGED vars
  BY <1>4 DEF vars, driverVars, callVars, boundVars, Inv, TypeOK, Progress, Bracket,
              Stored, Configuring
<1> QED  BY <1>1, <1>2, <1>3, <1>4 DEF Next

(* Inv is an invariant of the bring-up, for any options and bounds.        *)
THEOREM Invariant == Spec => []Inv
BY InitInv, NextInv, PTL DEF Spec

(* The variables keep their types.                                         *)
THEOREM TypeCorrect == Spec => []TypeOK
<1>1. Inv => TypeOK  BY DEF Inv
<1> QED  BY <1>1, Invariant, PTL

(* _configured is set only when the modem has stored all that data needs,  *)
(* whichever commands were refused, lost or repeated before.               *)
THEOREM ConfiguredStored == Spec => []ConfiguredIsStored
<1>1. Inv => ConfiguredIsStored  BY DEF Inv, Progress, ConfiguredIsStored
<1> QED  BY <1>1, Invariant, PTL

(* Every way out of init() and configure() gives back the AT lock and the  *)
(* normal pacing.                                                          *)
THEOREM CallsReturnClean == Spec => []ReturnsClean
<1>1. Inv => ReturnsClean
  BY DEF Inv, Bracket, ReturnsClean, Configuring, AfterScript
<1> QED  BY <1>1, Invariant, PTL

-----------------------------------------------------------------------------
(* The radio.                                                              *)

(* Off from CFUN=0 to the last write, on once CFUN=1 has succeeded. *)
RadioInv ==
    /\ pc \in {"write", "QCGDEFCONT?", "QCGDEFCONT"} => ~modem.radio
    /\ pc = "CPSMS" => modem.radio

(* A command that leaves the radio as it is does so whether it works or not. *)
LEMMA CommandKeepsRadio ==
    ASSUME NEW m, NEW ok, Command(m, ok), m.radio = modem.radio
    PROVE  modem'.radio = modem.radio
BY DEF Command

(* ... and what it does not store is not stored.                           *)
LEMMA CommandKeepsStored ==
    ASSUME NEW m, NEW ok, Command(m, ok), m.stored = modem.stored
    PROVE  modem'.stored = modem.stored
BY DEF Command

(* CFUN=0 and CFUN=1 are believed only when they have succeeded.           *)
LEMMA RadioStep == Inv /\ RadioInv /\ [Next]_vars => RadioInv'
<1> SUFFICES ASSUME Inv, RadioInv, [Next]_vars PROVE RadioInv'
  OBVIOUS
<1>0. modem \in Modems
  BY DEF Inv, TypeOK
<1>1. CASE CallInit \/ HardPowerOn \/ SoftPowerOn
           \/ \E call \in {"hard_power_off", "soft_power_off"} : PowerOff(call)
  BY <1>1 DEF CallInit, HardPowerOn, SoftPowerOn, PowerOff, RadioInv
<1>2. CASE SleepModeOn \/ InitSync \/ SetDefault \/ SleepModeOff \/ Reboot \/ WakeUp \/ Reset
  <2>1. pc' \notin {"write", "QCGDEFCONT?", "QCGDEFCONT", "CPSMS"}
    BY <1>2 DEF SleepModeOn, InitSync, SetDefault, SleepModeOff, Reboot, WakeUp, Reset, WokenUp,
                ConfigureExit, InitReturns, Return, Goto
  <2> QED  BY <2>1 DEF RadioInv
<1>3. CASE RadioOn
  <2>1. PICK ok \in BOOLEAN :
          /\ Command([modem EXCEPT !.radio = TRUE], ok)
          /\ pc' = "CPSMS" => ok
          /\ pc' \in {"CPSMS", "CFUN=1", "idle"}
    BY <1>3 DEF RadioOn, Goto, InitReturns, Return
  <2> QED  BY <1>0, <2>1 DEF RadioInv, Command, Modems
<1>4. CASE InitDone
  BY <1>4 DEF InitDone, InitReturns, Return, RadioInv
<1>5. CASE MinimumFunctionality
  <2>1. PICK ok \in BOOLEAN :
          /\ Command([modem EXCEPT !.radio = FALSE], ok)
          /\ pc' = "write" => ok
          /\ pc' \in {"write", "CFUN=1", "idle"}
    BY <1>5 DEF MinimumFunctionality, ConfigureExit, Goto, InitReturns, Return
  <2> QED  BY <1>0, <2>1 DEF RadioInv, Command, Modems
<1>6. CASE WriteSetting \/ ReadPdpContext \/ WritePdpContext
  <2>1. \E setting, ok : Command(Write(setting), ok) \/ Command(modem, ok)
    BY <1>6 DEF WriteSetting, ReadPdpContext, WritePdpContext
  <2>2. \A setting : Write(setting).radio = modem.radio
    BY <1>0 DEF Write, Modems
  <2>3. modem'.radio = modem.radio
    BY <2>1, <2>2, CommandKeepsRadio
  <2>4. pc \in {"write", "QCGDEFCONT?", "QCGDEFCONT"} /\ pc' # "CPSMS"
    BY <1>6 DEF WriteSetting, ReadPdpContext, WritePdpContext, ConfigureExit, Goto, InitReturns,
                Return
  <2> QED  BY <2>3, <2>4 DEF RadioInv
<1>7. CASE Sleep \/ Hang
  BY <1>0, <1>7 DEF Sleep, Hang, RadioInv, Modems, driverVars, callVars
<1>8. CASE UNCHANGED vars
  BY <1>8 DEF vars, callVars, RadioInv
<1> QED  BY <1>1, <1>2, <1>3, <1>4, <1>5, <1>6, <1>7, <1>8 DEF Next, Step

(* RadioInv holds throughout. *)
LEMMA RadioInvariance == Spec => []RadioInv
<1>1. Init => RadioInv
  BY DEF Init, RadioInv
<1> QED  BY <1>1, RadioStep, Invariant, PTL DEF Spec

(* Only the script and AT+QCGDEFCONT store anything.                       *)
LEMMA StoredBy ==
    ASSUME Inv, Next, modem'.stored # modem.stored
    PROVE  pc \in {"write", "QCGDEFCONT"}
<1>0. modem \in Modems
  BY DEF Inv, TypeOK
<1>1. CASE CallInit \/ HardPowerOn \/ SoftPowerOn
           \/ \E call \in {"hard_power_off", "soft_power_off"} : PowerOff(call)
  BY <1>1 DEF CallInit, HardPowerOn, SoftPowerOn, PowerOff
<1>2. CASE \E m, ok : Command(m, ok) /\ m.stored = modem.stored
  BY <1>2, CommandKeepsStored
<1>3. CASE SleepModeOn \/ InitSync \/ SetDefault \/ SleepModeOff \/ RadioOn \/ InitDone
           \/ MinimumFunctionality \/ ReadPdpContext
  <2>1. \A x : /\ [modem EXCEPT !.volatile = x].stored = modem.stored
               /\ [modem EXCEPT !.radio = x].stored = modem.stored
    BY <1>0 DEF Modems
  <2> QED
    BY <1>2, <1>3, <2>1 DEF SleepModeOn, InitSync, SetDefault, SleepModeOff, RadioOn, InitDone,
                             MinimumFunctionality, ReadPdpContext
<1>4. CASE Reboot
  BY <1>0, <1>2, <1>4, RebootedEffect DEF Reboot
<1>5. CASE WakeUp \/ Reset
  BY <1>0, <1>5, RebootedEffect DEF WakeUp, Reset, Modems
<1>6. CASE WriteSetting \/ WritePdpContext
  BY <1>6 DEF WriteSetting, WritePdpContext
<1>7. CASE Sleep \/ Hang
  BY <1>0, <1>7 DEF Sleep, Hang, Modems
<1> QED  BY <1>1, <1>3, <1>4, <1>5, <1>6, <1>7 DEF Next, Step

(* "Every NVRAM-altering command requires minimum functionality": on no    *)
(* path is anything stored with the radio on.                              *)
THEOREM StoredRadioOff == Spec => NvramWrittenRadioOff
<1>1. Inv /\ RadioInv /\ [Next]_vars => [modem'.stored # modem.stored => ~modem.radio]_vars
  BY StoredBy DEF RadioInv
<1> QED  BY <1>1, RadioInvariance, Invariant, PTL DEF Spec, NvramWrittenRadioOff

(* init() returns success only with the radio on, on every path.           *)
THEOREM InitLeavesRadioOn == Spec => InitTurnsRadioOn
<1> DEFINE Good == (pc # "idle" /\ pc' = "idle" /\ result'.op = "init" /\ result'.ok)
                   => modem'.radio
<1>1. Inv /\ RadioInv /\ [Next]_vars => [Good]_vars
  <2> SUFFICES ASSUME Inv, RadioInv, Next, pc # "idle", pc' = "idle",
                      result'.op = "init", result'.ok
               PROVE  modem'.radio
    OBVIOUS
  <2>0. op \in Calls \cup {"none"} /\ modem \in Modems
    BY DEF Inv, TypeOK
  <2>1. ASSUME NEW ok, Return(ok) PROVE ok /\ op = "init"
    BY <2>1 DEF Return
  <2>2. ~Return(FALSE) /\ ~InitReturns(FALSE)
    BY <2>1 DEF InitReturns
  <2>3. CASE CallInit \/ HardPowerOn \/ SoftPowerOn
             \/ \E call \in {"hard_power_off", "soft_power_off"} : PowerOff(call)
    BY <2>3 DEF CallInit, HardPowerOn, SoftPowerOn, PowerOff
  <2>4. CASE SleepModeOn \/ SleepModeOff
    BY <2>1, <2>2, <2>4 DEF SleepModeOn, SleepModeOff, Goto, Inv, Bracket
  <2>5. CASE InitSync \/ SetDefault \/ RadioOn \/ MinimumFunctionality \/ WriteSetting
             \/ ReadPdpContext \/ WritePdpContext \/ Reboot \/ WakeUp \/ Reset
    BY <2>2, <2>5 DEF InitSync, SetDefault, RadioOn, MinimumFunctionality, WriteSetting,
                      ReadPdpContext, WritePdpContext, Reboot, WakeUp, Reset, WokenUp,
                      ConfigureExit, Goto
  <2>6. CASE InitDone
    <3>1. pc = "CPSMS" /\ modem' = modem
      BY <2>6 DEF InitDone, Command
    <3> QED  BY <3>1 DEF RadioInv
  <2>7. CASE Sleep \/ Hang
    BY <2>7 DEF Sleep, Hang, callVars
  <2> QED  BY <2>3, <2>4, <2>5, <2>6, <2>7 DEF Next, Step
<1> QED  BY <1>1, RadioInvariance, Invariant, PTL DEF Spec, InitTurnsRadioOn

-----------------------------------------------------------------------------
(* How many commands a call has left.                                      *)

(* CFUN=1 is tried three times. *)
AttemptInv == pc = "CFUN=1" => step \in 1..3

(* Where the measure stands at each point of a call. *)
StepsLeftIs ==
    /\ pc = "idle" => StepsLeft = 0
    /\ pc \in {"off", "CPSMS"} => StepsLeft = 1
    /\ pc = "CFUN=1" => StepsLeft = 5 - step /\ StepsLeft \in 2..4
    /\ pc = "write" => StepsLeft = 23 - step /\ StepsLeft \in 14..22
    /\ pc = "CFUN=0" => StepsLeft = 23
    /\ pc = "QCGDEFCONT?" => StepsLeft = 13
    /\ pc \in {"QCGDEFCONT", "QRST"} => Configuring
    /\ Configuring /\ pc \in DOMAIN Rebooting => StepsLeft = Rebooting[pc]
    /\ ~Configuring /\ pc \in DOMAIN Settling => StepsLeft = Settling[pc] + 9

(* The definition, case by case. *)
LEMMA StepsLeftValue == Inv /\ AttemptInv => StepsLeftIs
<1> SUFFICES ASSUME Inv, AttemptInv PROVE StepsLeftIs
  OBVIOUS
<1> USE DEF StepsLeftIs
<1>0. /\ Len(Script) = 9 /\ step \in 1..9
      /\ pc \in {"idle", "off", "wake", "reset", "AT", "ATE0", "CMEE", "CSCON", "QSCLK", "CFUN=0",
                 "CFUN=1", "CPSMS", "write", "QCGDEFCONT?", "QCGDEFCONT", "QRST"}
      /\ pc \in {"QCGDEFCONT", "QRST"} => Configuring
  BY ScriptLength DEF Inv, TypeOK, Bracket
<1>1. /\ DOMAIN Rebooting = {"CSCON", "CMEE", "ATE0", "QSCLK", "reset", "wake", "QRST", "QCGDEFCONT"}
      /\ DOMAIN Settling = {"QSCLK", "CSCON", "CMEE", "ATE0", "AT", "reset", "wake"}
  BY DEF Rebooting, Settling
<1>2. CASE pc \in {"idle", "off", "CPSMS", "CFUN=0", "QCGDEFCONT?"}
  BY <1>0, <1>1, <1>2 DEF StepsLeft
<1>3. CASE pc = "CFUN=1"
  BY <1>0, <1>1, <1>3 DEF StepsLeft, AttemptInv
<1>4. CASE pc = "write"
  BY <1>0, <1>1, <1>4 DEF StepsLeft
<1>5. CASE pc \in DOMAIN Rebooting \cup DOMAIN Settling
  BY <1>0, <1>1, <1>5 DEF StepsLeft
<1> QED  BY <1>0, <1>1, <1>2, <1>3, <1>4, <1>5

(* The measure is a natural number, and 0 only outside every call.         *)
LEMMA StepsLeftNat ==
    Inv /\ AttemptInv => StepsLeft \in 0..28 /\ (pc # "idle" => StepsLeft > 0)
<1> SUFFICES ASSUME Inv, AttemptInv
             PROVE  StepsLeft \in 0..28 /\ (pc # "idle" => StepsLeft > 0)
  OBVIOUS
<1>1. pc \in {"idle", "off", "wake", "reset", "AT", "ATE0", "CMEE", "CSCON", "QSCLK", "CFUN=0",
              "CFUN=1", "CPSMS", "write", "QCGDEFCONT?", "QCGDEFCONT", "QRST"}
  BY DEF Inv, TypeOK
<1>2. CASE Configuring /\ pc \in DOMAIN Rebooting
  BY <1>2, StepsLeftValue DEF StepsLeftIs, Rebooting
<1>3. CASE ~Configuring /\ pc \in DOMAIN Settling
  BY <1>3, StepsLeftValue DEF StepsLeftIs, Settling
<1>4. CASE pc \notin DOMAIN Rebooting /\ pc \notin DOMAIN Settling
  BY <1>1, <1>4, StepsLeftValue DEF StepsLeftIs, Rebooting, Settling
<1>5. pc = "AT" => ~Configuring
  BY DEF Inv, Bracket, AfterScript
<1> QED  BY <1>1, <1>2, <1>3, <1>4, <1>5, StepsLeftValue DEF StepsLeftIs, Rebooting, Settling

(* Where a step leads: the call is over, the attempts at CFUN=1 begin or   *)
(* go on, or the call goes on to the next command of its script.           *)
Advance ==
    \/ pc' = "idle"
    \/ pc' = "CFUN=1" /\ pc \notin {"off", "CFUN=1", "CPSMS"} /\ step' = 1
    \/ pc' = "CFUN=1" /\ pc = "CFUN=1" /\ step < 3 /\ step' = step + 1
    \/ pc = "CFUN=1" /\ pc' = "CPSMS"
    \/ pc = "AT" /\ pc' = "ATE0"
    \/ pc = "ATE0" /\ pc' = "CMEE" /\ sendDelay' = sendDelay
    \/ pc = "CMEE" /\ pc' = "CSCON" /\ sendDelay' = sendDelay
    \/ pc = "CSCON" /\ pc' = "QSCLK" /\ ~Configuring /\ sendDelay' = sendDelay
    \/ pc = "QSCLK" /\ pc' = "ATE0" /\ Configuring /\ sendDelay' = sendDelay
    \/ pc = "QSCLK" /\ pc' = "CFUN=0" /\ ~Configuring /\ sendDelay' = sendDelay
    \/ pc = "CFUN=0" /\ pc' = "write"
    \/ pc = "write" /\ pc' = "write" /\ step < Len(Script) /\ step' = step + 1
    \/ pc = "write" /\ pc' = "QCGDEFCONT?"
    \/ pc = "QCGDEFCONT?" /\ pc' \in {"QRST", "QCGDEFCONT"} /\ sendDelay' = sendDelay
    \/ pc = "QCGDEFCONT" /\ pc' = "QRST" /\ sendDelay' = sendDelay
    \/ pc = "QRST" /\ pc' = "wake" /\ sendDelay' = sendDelay
    \/ pc = "wake" /\ pc' = "reset" /\ sendDelay' = sendDelay
    \/ pc \in {"wake", "reset"} /\ pc' = "QSCLK" /\ sendDelay' = sendDelay

(* configure() ends in init()'s end or at the first attempt at CFUN=1.     *)
LEMMA ExitAdvances ==
    ASSUME NEW ok \in BOOLEAN, ConfigureExit(ok), pc \notin {"off", "CFUN=1", "CPSMS"}
    PROVE  Advance
BY DEF ConfigureExit, InitReturns, Return, Goto, Advance

(* Every step of a call is one of those.                                   *)
LEMMA StepAdvances ==
    ASSUME Step
    PROVE  pc # "idle" /\ Advance
<1>1. CASE SleepModeOn
  BY <1>1 DEF SleepModeOn, Return, Advance
<1>2. CASE InitSync
  BY <1>2 DEF InitSync, InitReturns, Return, Goto, Advance
<1>3. CASE SetDefault
  <2>1. PICK ok \in BOOLEAN :
          CASE pc = "ATE0" -> Goto("CMEE") /\ Stay
            [] pc = "CMEE" -> Goto("CSCON") /\ Stay
            [] pc = "CSCON" /\ ~Configuring -> Goto("QSCLK") /\ Stay
            [] pc = "CSCON" /\ Configuring -> ConfigureExit(ok)
    BY <1>3 DEF SetDefault
  <2>2. CASE pc = "CSCON" /\ Configuring
    BY <2>1, <2>2, ExitAdvances
  <2>3. CASE ~(pc = "CSCON" /\ Configuring)
    BY <1>3, <2>1, <2>3 DEF SetDefault, Goto, Stay, Advance
  <2> QED  BY <1>3, <2>2, <2>3 DEF SetDefault
<1>4. CASE SleepModeOff
  BY <1>4 DEF SleepModeOff, InitReturns, Return, Goto, Stay, Advance
<1>5. CASE RadioOn
  BY <1>5 DEF RadioOn, InitReturns, Return, Goto, Advance
<1>6. CASE InitDone
  BY <1>6 DEF InitDone, InitReturns, Return, Advance
<1>7. CASE MinimumFunctionality
  <2>1. pc = "CFUN=0" /\ (Goto("write") \/ ConfigureExit(FALSE))
    BY <1>7 DEF MinimumFunctionality
  <2> QED  BY <2>1, ExitAdvances DEF Goto, Advance
<1>8. CASE WriteSetting
  <2>1. /\ pc = "write"
        /\ \/ ConfigureExit(FALSE)
           \/ step < Len(Script) /\ step' = step + 1 /\ Goto("write")
           \/ Goto("QCGDEFCONT?")
    BY <1>8 DEF WriteSetting
  <2> QED  BY <2>1, ExitAdvances DEF Goto, Advance
<1>9. CASE ReadPdpContext
  BY <1>9 DEF ReadPdpContext, Goto, Stay, Advance
<1>10. CASE WritePdpContext
  <2>1. pc = "QCGDEFCONT" /\ ((Goto("QRST") /\ Stay) \/ ConfigureExit(FALSE))
    BY <1>10 DEF WritePdpContext
  <2> QED  BY <2>1, ExitAdvances DEF Goto, Stay, Advance
<1>11. CASE Reboot
  BY <1>11 DEF Reboot, Goto, Stay, Advance
<1>12. CASE WakeUp \/ Reset
  <2>1. /\ pc \in {"wake", "reset"}
        /\ \/ \E ok \in BOOLEAN : WokenUp(ok)
           \/ pc = "wake" /\ Goto("reset") /\ Stay
    BY <1>12 DEF WakeUp, Reset
  <2>2. ASSUME NEW ok \in BOOLEAN, WokenUp(ok)
        PROVE  Advance
    <3>1. (Goto("QSCLK") /\ Stay) \/ ConfigureExit(FALSE) \/ (Return(FALSE) /\ Stay)
      BY <2>2 DEF WokenUp
    <3> QED  BY <2>1, <3>1, ExitAdvances DEF Goto, Stay, Return, Advance
  <2> QED  BY <2>1, <2>2 DEF Goto, Stay, Advance
<1> QED
  BY <1>1, <1>2, <1>3, <1>4, <1>5, <1>6, <1>7, <1>8, <1>9, <1>10, <1>11, <1>12 DEF Step

(* The attempts are counted from one and no further than three.            *)
LEMMA AttemptStep == Inv /\ AttemptInv /\ [Next]_vars => AttemptInv'
<1> SUFFICES ASSUME Inv, AttemptInv, [Next]_vars PROVE AttemptInv'
  OBVIOUS
<1>1. CASE Step
  BY <1>1, StepAdvances DEF Advance, AttemptInv
<1>2. CASE CallInit \/ HardPowerOn \/ SoftPowerOn
           \/ \E call \in {"hard_power_off", "soft_power_off"} : PowerOff(call)
  BY <1>2 DEF CallInit, HardPowerOn, SoftPowerOn, PowerOff, AttemptInv
<1>3. CASE Sleep \/ Hang \/ UNCHANGED vars
  BY <1>3 DEF Sleep, Hang, vars, callVars, AttemptInv
<1> QED  BY <1>1, <1>2, <1>3 DEF Next

(* A step lowers the measure of the call.                                  *)
LEMMA AdvanceDescends ==
    ASSUME Inv, AttemptInv, Inv', AttemptInv', StepsLeftIs, StepsLeftIs', pc # "idle", Advance
    PROVE  StepsLeft' < StepsLeft
<1> DEFINE m == StepsLeft
           n == StepsLeft'
<1>0. /\ step \in 1..9 /\ Len(Script) = 9
      /\ pc \in {"idle", "off", "wake", "reset", "AT", "ATE0", "CMEE", "CSCON", "QSCLK", "CFUN=0",
                 "CFUN=1", "CPSMS", "write", "QCGDEFCONT?", "QCGDEFCONT", "QRST"}
  BY ScriptLength DEF Inv, TypeOK
<1>1. /\ pc = "AT" => ~Configuring
      /\ pc \in {"QCGDEFCONT", "QRST"} => Configuring
      /\ pc = "CFUN=0" => step = 1
      /\ pc = "CFUN=1" => step \in 1..3
      /\ pc' = "write" => step' \in 1..9
  BY ScriptLength DEF Inv, TypeOK, Bracket, Progress, AfterScript, AttemptInv
<1>2. Configuring' = Configuring \/ sendDelay' # sendDelay
  BY DEF Configuring
(* The measure before the step. *)
<1>3. /\ pc \in {"off", "CPSMS"} => m = 1
      /\ pc = "CFUN=1" => m = 5 - step /\ m \in 2..4
      /\ pc \in {"CSCON", "CMEE", "ATE0", "QSCLK", "reset", "wake", "QRST", "QCGDEFCONT"}
         /\ Configuring => m = Rebooting[pc] /\ m \in 5..12
      /\ pc \in {"QSCLK", "CSCON", "CMEE", "ATE0", "AT", "reset", "wake"}
         /\ ~Configuring => m = Settling[pc] + 9 /\ m \in 24..28
      /\ pc = "QCGDEFCONT?" => m = 13
      /\ pc = "write" => m = 23 - step /\ m \in 14..22
      /\ pc = "CFUN=0" => m = 23
  BY <1>0 DEF StepsLeftIs, Rebooting, Settling
(* The measure after it. *)
<1>4. /\ pc' = "idle" => n = 0
      /\ pc' = "CPSMS" => n = 1
      /\ pc' = "CFUN=1" => n = 5 - step'
      /\ pc' \in {"CSCON", "CMEE", "ATE0", "QSCLK", "reset", "wake", "QRST", "QCGDEFCONT"}
         /\ Configuring' => n = Rebooting[pc']
      /\ pc' \in {"QSCLK", "CSCON", "CMEE", "ATE0", "AT", "reset", "wake"}
         /\ ~Configuring' => n = Settling[pc'] + 9
      /\ pc' \in {"QRST", "QCGDEFCONT"} => n \in 11..12 /\ n = Rebooting[pc']
      /\ pc' = "QCGDEFCONT?" => n = 13
      /\ pc' = "write" => n = 23 - step'
      /\ pc' = "CFUN=0" => n = 23
  BY DEF StepsLeftIs, Rebooting, Settling
<1> SUFFICES n < m
  OBVIOUS
<1> HIDE DEF m, n
<1>5. CASE pc' = "idle"
  <2>1. m \in 1..28
    BY <1>0, <1>1, <1>3
  <2> QED  BY <1>4, <1>5, <2>1
<1>6. CASE pc' = "CFUN=1" /\ pc \notin {"off", "CFUN=1", "CPSMS"} /\ step' = 1
  <2>1. m \in 5..28
    BY <1>0, <1>1, <1>3, <1>6
  <2> QED  BY <1>4, <1>6, <2>1
<1>7. CASE pc = "CFUN=1" /\ \/ pc' = "CFUN=1" /\ step < 3 /\ step' = step + 1
                            \/ pc' = "CPSMS"
  BY <1>1, <1>3, <1>4, <1>7
<1>8. CASE pc = "AT" /\ pc' = "ATE0"
  <2>1. ~Configuring /\ m = 28
    BY <1>1, <1>3, <1>8 DEF Settling
  <2> QED  BY <1>2, <1>4, <1>8, <2>1 DEF Settling, Rebooting
<1>9. CASE /\ \/ pc = "ATE0" /\ pc' = "CMEE"
              \/ pc = "CMEE" /\ pc' = "CSCON"
              \/ pc = "CSCON" /\ pc' = "QSCLK" /\ ~Configuring
              \/ pc = "QSCLK" /\ pc' = "ATE0" /\ Configuring
              \/ pc = "wake" /\ pc' = "reset"
              \/ pc \in {"wake", "reset"} /\ pc' = "QSCLK"
           /\ sendDelay' = sendDelay
  <2>1. Configuring' = Configuring
    BY <1>2, <1>9
  <2>2. CASE Configuring
    BY <1>3, <1>4, <1>9, <2>1, <2>2 DEF Rebooting
  <2>3. CASE ~Configuring
    BY <1>3, <1>4, <1>9, <2>1, <2>3 DEF Settling
  <2> QED  BY <2>2, <2>3
<1>10. CASE pc = "QSCLK" /\ pc' = "CFUN=0" /\ ~Configuring
  BY <1>3, <1>4, <1>10
<1>11. CASE \/ pc = "CFUN=0" /\ pc' = "write"
            \/ pc = "write" /\ pc' = "write" /\ step' = step + 1
            \/ pc = "write" /\ pc' = "QCGDEFCONT?"
  BY <1>0, <1>1, <1>3, <1>4, <1>11
<1>12. CASE pc = "QCGDEFCONT?" /\ pc' \in {"QRST", "QCGDEFCONT"}
  BY <1>3, <1>4, <1>12
<1>13. CASE /\ \/ pc = "QCGDEFCONT" /\ pc' = "QRST"
               \/ pc = "QRST" /\ pc' = "wake"
            /\ sendDelay' = sendDelay
  BY <1>1, <1>2, <1>3, <1>4, <1>13 DEF Rebooting
<1> QED
  BY <1>5, <1>6, <1>7, <1>8, <1>9, <1>10, <1>11, <1>12, <1>13 DEF Advance

(* Every call ends after at most 28 steps, however the commands fail.      *)
THEOREM CallsEnd == Spec => CallsDescend
<1> DEFINE Bounded == StepsLeft \in 0..28 /\ (pc # "idle" => StepsLeft > 0)
<1>1. Init => AttemptInv
  BY DEF Init, AttemptInv
<1>2. /\ Inv /\ AttemptInv /\ StepsLeftIs /\ Bounded
      /\ Inv' /\ AttemptInv' /\ StepsLeftIs' /\ Bounded'
      => [Step => StepsLeft' \in 0..(StepsLeft - 1)]_vars
  <2> SUFFICES ASSUME Inv, AttemptInv, StepsLeftIs, Bounded,
                      Inv', AttemptInv', StepsLeftIs', Bounded', Step
               PROVE  StepsLeft' \in 0..(StepsLeft - 1)
    OBVIOUS
  <2>1. StepsLeft' < StepsLeft
    BY StepAdvances, AdvanceDescends
  <2> QED  BY <2>1
<1>3. Inv /\ AttemptInv => Bounded
  BY StepsLeftNat
<1> QED
  BY <1>1, <1>2, <1>3, AttemptStep, StepsLeftValue, Invariant, PTL DEF Spec, CallsDescend
=============================================================================
