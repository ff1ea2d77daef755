------------------------------ MODULE Context -------------------------------
(***************************************************************************)
(* Choosing or creating the PDP context of a connection                    *)
(* (QUECTEL_BC660KGL_CellularContext), and telling the stack its id.       *)
(*                                                                         *)
(* find_and_activate_context() of the framework calls get_context() and    *)
(* do_user_authentication() with the AT lock held, then activate_context() *)
(* and starts again whenever one fails.  The modem keeps a table of        *)
(* contexts; context 0 is the default bearer, which follows QCGDEFCONT at  *)
(* the next restart only.                                                  *)
(***************************************************************************)
EXTENDS Integers

CONSTANTS
    Apns,           \* access point names
    NoApn,          \* no _apn, an empty APN of a context
    DefaultApn,     \* MBED_CONF_NSAPI_DEFAULT_CELLULAR_APN
    WithApn,        \* MBED_CONF_QUECTEL_BC660KGL_DEFAULT_PDP_CONTEXT_WITH_APN
    DefaultType,    \* MBED_CONF_QUECTEL_BC660KGL_DEFAULT_PDP_TYPE
    MaxCid,         \* largest context id of the modem
    NoStack,        \* there is no stack yet
    NoContext,      \* the modem has no context with this id
    Tables          \* contents of the context table at the start

Supported == {"IP", "IPV6", "IPV4V6"}

Types == Supported \cup {"NONIP"}

PdpContext == [type : Types, apn : Apns \cup {NoApn}]

Cids == 0..MaxCid

ASSUME ParametersAssumption ==
    /\ NoApn \notin Apns /\ DefaultApn \in Apns
    /\ WithApn \in BOOLEAN /\ DefaultType \in Supported
    /\ MaxCid \in Nat
    /\ NoContext \notin PdpContext /\ NoStack \notin Int
    /\ Tables \subseteq [Cids -> PdpContext \cup {NoContext}]

VARIABLES
    apn,            \* _apn, which never changes
    credentials,    \* are _uname and _pwd set?  They never change either
    cid,            \* _cid
    pdpType,        \* _pdp_type
    foundApn,       \* _found_apn
    stackCid,       \* cid of the stack, or NoStack
    newContextSet,  \* _new_context_set
    activated,      \* _is_context_activated
    pc,             \* where find_and_activate_context() is
    newCid,         \* local of get_context()
    table,          \* the modem's contexts
    defBearer,      \* what QCGDEFCONT holds for the next restart
    authenticated   \* ids the modem has credentials for

settingVars == <<apn, credentials>>
choiceVars == <<cid, pdpType, foundApn, stackCid, newContextSet>>
modemVars == <<table, defBearer, authenticated>>
vars == <<settingVars, choiceVars, activated, pc, newCid, modemVars>>

Defined(c) == table[c] # NoContext

Init ==
    /\ apn \in Apns \cup {NoApn} /\ credentials \in BOOLEAN
    /\ cid = -1 /\ pdpType = "none" /\ foundApn = NoApn /\ stackCid = NoStack
    /\ newContextSet = FALSE /\ activated = FALSE
    /\ pc = "idle" /\ newCid = 0
    /\ table \in Tables
    /\ defBearer = [type |-> DefaultType, apn |-> IF WithApn THEN DefaultApn ELSE NoApn]
    /\ authenticated = {}

-----------------------------------------------------------------------------
(* get_context()                                                           *)

(* Mutant: dual stack contexts are not recognised. *)
MatchesSingleStack(c) ==
    /\ Defined(c)
    /\ apn # NoApn => table[c].apn = apn
    /\ table[c].type \in {"IP", "IPV6"}

Matches(c) ==
    /\ Defined(c)
    /\ apn # NoApn => table[c].apn = apn
    /\ table[c].type \in Supported

Matching == {c \in Cids : Matches(c)}

(* The modem lists its contexts in the order of their ids. *)
Last(c, ids) == c \in ids /\ \A d \in ids : d <= c

(* cid_max counts from 0, whether or not context 0 is listed. *)
CidMax(c) == Last(c, {0} \cup {d \in Cids : Defined(d)})

(* Of the APNs read, the last is remembered, whichever context was chosen. *)
Remember ==
    foundApn' \in
        LET read == {table[c].apn : c \in {d \in Cids : Last(d, {e \in Cids : Defined(e)})}}
        IN  IF apn = NoApn /\ read \notin {{}, {NoApn}} THEN read ELSE {foundApn}

(* Mutant: a stack that exists is not told. *)
UpdateCidOnce(c) == cid' = c /\ stackCid' = IF stackCid = NoStack THEN c ELSE stackCid

(* update_cid() and get_stack(): the stack is created or told. *)
UpdateCid(c) == cid' = c /\ stackCid' = c

Connect ==
    /\ pc = "idle" /\ ~activated
    /\ pc' = "read"
    /\ UNCHANGED <<settingVars, choiceVars, activated, newCid, modemVars>>

(* AT+CGDCONT? ends in an error. *)
ReadFails ==
    /\ pc = "read"
    /\ cid' = -1
    /\ pc' = "idle"
    /\ UNCHANGED <<settingVars, pdpType, foundApn, stackCid, newContextSet, activated, newCid,
                   modemVars>>

(* With the default APN it is context 0, always. *)
UseDefaultBearer ==
    /\ pc = "read" /\ apn = DefaultApn
    /\ UpdateCid(0)
    /\ pdpType' = DefaultType
    /\ newContextSet' = TRUE
    /\ pc' = "authenticate"
    /\ UNCHANGED <<settingVars, foundApn, activated, newCid, modemVars>>

(* Otherwise the last context that matches. *)
UseExisting ==
    /\ pc = "read" /\ apn # DefaultApn
    /\ \E c \in Matching :
         /\ Last(c, Matching)
         /\ UpdateCid(c)
         /\ pdpType' = table[c].type
    /\ Remember
    /\ pc' = "authenticate"
    /\ UNCHANGED <<settingVars, newContextSet, activated, newCid, modemVars>>

(* Mutant: the largest id in use is used again. *)
NextCidReused(max) == max

NextCid(max) == IF max = 0 THEN 0 ELSE max + 1

NoMatch ==
    /\ pc = "read" /\ apn # DefaultApn /\ Matching = {}
    /\ cid' = -1
    /\ \E max \in Cids : CidMax(max) /\ newCid' = NextCid(max)
    /\ pc' = "create"
    /\ UNCHANGED <<settingVars, pdpType, foundApn, stackCid, newContextSet, activated, modemVars>>

-----------------------------------------------------------------------------
(* set_new_context(): the default bearer, or a context of its own.         *)

NewType(c) == IF c = 0 THEN DefaultType ELSE "IPV4V6"

Write(c) ==
    IF c = 0
    THEN /\ defBearer' = [type |-> DefaultType,
                          apn |-> IF WithApn THEN apn ELSE NoApn]
         /\ UNCHANGED table
    ELSE /\ table' = [table EXCEPT ![c] = [type |-> NewType(c), apn |-> apn]]
         /\ UNCHANGED defBearer

Create ==
    /\ pc = "create" /\ newCid \in Cids
    /\ Write(newCid)
    /\ UpdateCid(newCid)
    /\ pdpType' = NewType(newCid)
    /\ newContextSet' = TRUE
    /\ Remember
    /\ pc' = "authenticate"
    /\ UNCHANGED <<settingVars, activated, newCid, authenticated>>

(* Refused, or carried out with the response lost. *)
CreateFails ==
    /\ pc = "create"
    /\ \/ UNCHANGED <<table, defBearer>>
       \/ newCid \in Cids /\ Write(newCid)
    /\ pc' = "idle"
    /\ UNCHANGED <<settingVars, choiceVars, activated, newCid, authenticated>>

-----------------------------------------------------------------------------
(* do_user_authentication() and activate_context()                         *)

Authenticate ==
    /\ pc = "authenticate"
    /\ authenticated' = IF credentials THEN authenticated \cup {cid} ELSE authenticated
    /\ activated' = TRUE
    /\ pc' = "idle"
    /\ UNCHANGED <<settingVars, choiceVars, newCid, table, defBearer>>

AuthenticateFails ==
    /\ pc = "authenticate" /\ credentials
    /\ authenticated' \in {authenticated, authenticated \cup {cid}}
    /\ pc' = "idle"
    /\ UNCHANGED <<settingVars, choiceVars, activated, newCid, table, defBearer>>

-----------------------------------------------------------------------------
(* get_ip_address() may be called before there is a context. *)
GetIpAddress ==
    /\ pc = "idle"
    /\ stackCid' = cid
    /\ UNCHANGED <<settingVars, cid, pdpType, foundApn, newContextSet, activated, pc, newCid,
                   modemVars>>

(* The framework's disconnect(); deactivate_context() does nothing. *)
Disconnect ==
    /\ pc = "idle" /\ activated
    /\ activated' = FALSE
    /\ UNCHANGED <<settingVars, choiceVars, pc, newCid, modemVars>>

(* A restart of the modem disconnects, and the new default bearer becomes  *)
(* context 0.                                                              *)
Restart ==
    /\ pc = "idle"
    /\ activated' = FALSE
    /\ table' = [table EXCEPT ![0] = defBearer]
    /\ authenticated' = {}
    /\ UNCHANGED <<settingVars, choiceVars, pc, newCid, defBearer>>

GetContext == ReadFails \/ UseDefaultBearer \/ UseExisting \/ NoMatch \/ Create \/ CreateFails

Next ==
    \/ Connect \/ GetContext \/ Authenticate \/ AuthenticateFails
    \/ GetIpAddress \/ Disconnect \/ Restart

Spec == Init /\ [][Next]_vars

-----------------------------------------------------------------------------
(* Properties.                                                             *)

TypeOK ==
    /\ apn \in Apns \cup {NoApn} /\ credentials \in BOOLEAN
    /\ cid \in Cids \cup {-1}
    /\ pdpType \in Types \cup {"none"}
    /\ foundApn \in Apns \cup {NoApn}
    /\ stackCid \in Cids \cup {-1, NoStack}
    /\ newContextSet \in BOOLEAN /\ activated \in BOOLEAN
    /\ pc \in {"idle", "read", "create", "authenticate"}
    /\ newCid \in 0..(MaxCid + 1)
    /\ table \in [Cids -> PdpContext \cup {NoContext}]
    /\ defBearer \in PdpContext
    /\ authenticated \in SUBSET Cids

Created(c) == table[c] = [type |-> "IPV4V6", apn |-> apn]

(* A connection that is up stands on one context: the stack opens sockets  *)
(* on it, the modem has it with the APN and type the driver believes it    *)
(* has, and has the credentials for it.  Attempts that failed half-way, or *)
(* whose responses were lost, and get_ip_address() in between leave no     *)
(* trace.                                                                  *)
ActiveIsConsistent ==
    activated =>
        /\ stackCid = cid /\ cid \in Cids
        /\ cid # 0 => Defined(cid) /\ table[cid].type = pdpType
        /\ (cid # 0 /\ apn # NoApn) => table[cid].apn = apn
        /\ credentials => cid \in authenticated

(* Nobody's context is overwritten: of the contexts of their own that the  *)
(* modem has, none is ever changed.                                        *)
NoContextOverwritten ==
    [][\A c \in Cids \ {0} : Defined(c) => table'[c] = table[c]]_vars

(* Retrying creates no second context: after a lost response the next     *)
(* attempt finds what the last one created.                                *)
OneContextCreated ==
    \A c, d \in Cids \ {0} :
        (Created(c) /\ Created(d)) => c = d
=============================================================================
