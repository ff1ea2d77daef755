---------------------------- MODULE ContextProof ----------------------------
(***************************************************************************)
(* Proofs about Context, for any access point names and any size and       *)
(* contents of the modem's table.                                          *)
(*                                                                         *)
(* What is promised of an active context is decided before: ChoiceInv says *)
(* what get_context() has established when it hands over, CreateInv what   *)
(* it knows of the table when it decides to create.                        *)
(***************************************************************************)
EXTENDS Context, TLAPS

Pcs == {"idle", "read", "create", "authenticate"}

(* The context the driver has chosen is the one it says. *)
Chosen ==
    /\ stackCid = cid /\ cid \in Cids
    /\ cid # 0 => Defined(cid) /\ table[cid].type = pdpType
    /\ (cid # 0 /\ apn # NoApn) => table[cid].apn = apn

ChoiceInv ==
    /\ pc = "authenticate" => Chosen
    /\ activated => pc = "idle" /\ Chosen /\ (credentials => cid \in authenticated)

(* Nothing fits, and the id to be taken is beyond those in use. *)
CreateInv ==
    pc = "create" =>
        /\ Matching = {}
        /\ newCid # 0 => \A c \in Cids : Defined(c) => c < newCid

-----------------------------------------------------------------------------
(* Helpers.                                                                *)

(* The ids are the integers from 0, and NoContext is no context.           *)
LEMMA Constants ==
    /\ Cids \subseteq Int /\ 0 \in Cids /\ -1 \notin Cids
    /\ \A c \in Cids : c >= 0 /\ c <= MaxCid
    /\ NoContext \notin PdpContext
    /\ MaxCid \in Nat
BY ParametersAssumption DEF Cids

(* The context written for an id of its own is a well-typed one, and has   *)
(* the APN of the driver.                                                  *)
LEMMA WriteEffect ==
    ASSUME TypeOK, NEW c \in Cids, Write(c)
    PROVE  /\ table' \in [Cids -> PdpContext \cup {NoContext}] /\ defBearer' \in PdpContext
           /\ \A d \in Cids \ {c} : table'[d] = table[d]
           /\ c = 0 => table' = table
           /\ c # 0 => table'[c] = [type |-> "IPV4V6", apn |-> apn] /\ table'[c] # NoContext
<1>1. [type |-> "IPV4V6", apn |-> apn] \in PdpContext
  BY DEF TypeOK, PdpContext, Types, Supported
<1>2. CASE c = 0
  <2>1. defBearer' \in PdpContext
    BY <1>2, ParametersAssumption DEF Write, TypeOK, PdpContext, Types
  <2> QED
    BY <1>2, <2>1 DEF Write, TypeOK
<1>3. CASE c # 0
  <2>1. table' = [table EXCEPT ![c] = [type |-> "IPV4V6", apn |-> apn]] /\ UNCHANGED defBearer
    BY <1>3 DEF Write, NewType
  <2> QED
    BY <1>1, <1>3, <2>1, Constants DEF TypeOK
<1> QED
  BY <1>2, <1>3

(* What the driver remembers of the APNs it read is one of them.           *)
LEMMA RememberType ==
    ASSUME TypeOK, Remember
    PROVE  foundApn' \in Apns \cup {NoApn}
<1> DEFINE last == {d \in Cids : Last(d, {e \in Cids : Defined(e)})}
           read == {table[c].apn : c \in last}
<1>1. read \subseteq Apns \cup {NoApn}
  BY DEF Last, Defined, TypeOK, PdpContext
<1>2. foundApn' \in IF apn = NoApn /\ read \notin {{}, {NoApn}} THEN read ELSE {foundApn}
  BY DEF Remember
<1> QED
  BY <1>1, <1>2 DEF TypeOK

-----------------------------------------------------------------------------
(* Type correctness.                                                       *)

(* The initial state is typed.                                             *)
LEMMA TypeInit == Init => TypeOK
<1> SUFFICES ASSUME Init PROVE TypeOK
  OBVIOUS
<1>1. defBearer \in PdpContext
  BY ParametersAssumption DEF Init, PdpContext, Types
<1>2. table \in [Cids -> PdpContext \cup {NoContext}]
  BY ParametersAssumption DEF Init
<1>3. 0 \in 0..(MaxCid + 1)
  BY Constants
<1> QED
  BY <1>1, <1>2, <1>3 DEF Init, TypeOK

(* Every step keeps the types.                                             *)
LEMMA TypeStep == TypeOK /\ ChoiceInv /\ [Next]_vars => TypeOK'
<1> SUFFICES ASSUME TypeOK, ChoiceInv, [Next]_vars PROVE TypeOK'
  OBVIOUS
<1> USE Constants DEF settingVars, choiceVars, modemVars
<1>1. CASE UNCHANGED vars
  BY <1>1 DEF vars, TypeOK
<1>2. CASE Connect \/ ReadFails \/ GetIpAddress \/ Disconnect
  BY <1>2 DEF Connect, ReadFails, GetIpAddress, Disconnect, TypeOK
<1>3. CASE UseDefaultBearer
  BY <1>3, ParametersAssumption DEF UseDefaultBearer, UpdateCid, TypeOK, Types
<1>4. CASE UseExisting
  <2>1. PICK c \in Matching : UpdateCid(c) /\ pdpType' = table[c].type
    BY <1>4 DEF UseExisting
  <2>2. c \in Cids /\ table[c].type \in Types
    BY <2>1 DEF Matching, Matches, Types
  <2>3. foundApn' \in Apns \cup {NoApn}
    BY <1>4, RememberType DEF UseExisting
  <2> QED
    BY <1>4, <2>1, <2>2, <2>3 DEF UseExisting, UpdateCid, TypeOK
<1>5. CASE NoMatch
  <2>1. PICK max \in Cids : newCid' = NextCid(max)
    BY <1>5 DEF NoMatch
  <2>2. newCid' \in 0..(MaxCid + 1)
    BY <2>1 DEF NextCid
  <2> QED
    BY <1>5, <2>2 DEF NoMatch, TypeOK
<1>6. CASE Create
  <2>1. newCid \in Cids /\ Write(newCid)
    BY <1>6 DEF Create
  <2>2. table' \in [Cids -> PdpContext \cup {NoContext}] /\ defBearer' \in PdpContext
    BY <2>1, WriteEffect
  <2>3. foundApn' \in Apns \cup {NoApn}
    BY <1>6, RememberType DEF Create
  <2>4. pdpType' \in Types
    BY <1>6, ParametersAssumption DEF Create, NewType, Types, Supported
  <2>5. cid' \in Cids /\ stackCid' \in Cids
    BY <1>6 DEF Create, UpdateCid
  <2>6. UNCHANGED <<apn, credentials, activated, newCid, authenticated>>
        /\ newContextSet' = TRUE /\ pc' = "authenticate"
    BY <1>6 DEF Create
  <2> QED
    BY <2>2, <2>3, <2>4, <2>5, <2>6 DEF TypeOK
<1>7. CASE CreateFails
  <2>1. table' \in [Cids -> PdpContext \cup {NoContext}] /\ defBearer' \in PdpContext
    <3>1. CASE UNCHANGED <<table, defBearer>>
      BY <3>1 DEF TypeOK
    <3>2. CASE newCid \in Cids /\ Write(newCid)
      BY <3>2, WriteEffect
    <3> QED
      BY <1>7, <3>1, <3>2 DEF CreateFails
  <2> QED
    BY <1>7, <2>1 DEF CreateFails, TypeOK
<1>8. CASE Authenticate \/ AuthenticateFails
  <2>1. authenticated \cup {cid} \in SUBSET Cids
    BY <1>8 DEF Authenticate, AuthenticateFails, ChoiceInv, Chosen, TypeOK
  <2> QED
    BY <1>8, <2>1 DEF Authenticate, AuthenticateFails, TypeOK
<1>9. CASE Restart
  BY <1>9 DEF Restart, TypeOK
<1> QED
  BY <1>1, <1>2, <1>3, <1>4, <1>5, <1>6, <1>7, <1>8, <1>9 DEF Next, GetContext

-----------------------------------------------------------------------------
(* What get_context() hands over.                                          *)

(* Initially nothing is chosen.                                            *)
LEMMA ChoiceInit == Init => ChoiceInv /\ CreateInv
BY DEF Init, ChoiceInv, CreateInv

(* Whether a context matches depends on the table alone.                   *)
LEMMA SameMatching == UNCHANGED <<table, apn>> => Matching' = Matching
BY DEF Matching, Matches, Defined

(* Every step keeps it true that the chosen context is the one it says.    *)
LEMMA ChoiceStep == TypeOK /\ ChoiceInv /\ [Next]_vars => ChoiceInv'
<1> SUFFICES ASSUME TypeOK, ChoiceInv, [Next]_vars PROVE ChoiceInv'
  OBVIOUS
<1> USE Constants DEF settingVars, choiceVars, modemVars
<1>1. CASE UNCHANGED vars
  BY <1>1 DEF vars, ChoiceInv, Chosen, Defined
<1>2. CASE Connect \/ ReadFails \/ NoMatch \/ CreateFails \/ Restart
  BY <1>2 DEF Connect, ReadFails, NoMatch, CreateFails, Restart, ChoiceInv
<1>3. CASE UseDefaultBearer
  BY <1>3 DEF UseDefaultBearer, UpdateCid, ChoiceInv, Chosen
<1>4. CASE UseExisting
  <2>1. PICK c \in Matching : UpdateCid(c) /\ pdpType' = table[c].type
    BY <1>4 DEF UseExisting
  <2>2. c \in Cids /\ Defined(c) /\ (apn # NoApn => table[c].apn = apn)
    BY <2>1 DEF Matching, Matches
  <2>3. ~activated' /\ UNCHANGED <<table, apn>> /\ cid' = c /\ stackCid' = c
    BY <1>4, <2>1 DEF UseExisting, UpdateCid, ChoiceInv
  <2>4. Chosen'
    BY <2>1, <2>2, <2>3 DEF Chosen, Defined
  <2> QED
    BY <2>3, <2>4 DEF ChoiceInv
<1>5. CASE Create
  <2>1. newCid \in Cids /\ Write(newCid) /\ cid' = newCid /\ stackCid' = newCid
        /\ pdpType' = NewType(newCid) /\ ~activated' /\ apn' = apn
    BY <1>5 DEF Create, UpdateCid, ChoiceInv
  <2>2. newCid # 0 => table'[newCid] = [type |-> "IPV4V6", apn |-> apn] /\ table'[newCid] # NoContext
    BY <2>1, WriteEffect
  <2>3. Chosen'
    BY <2>1, <2>2 DEF Chosen, Defined, NewType
  <2> QED
    BY <2>1, <2>3 DEF ChoiceInv
<1>6. CASE Authenticate \/ AuthenticateFails
  BY <1>6 DEF Authenticate, AuthenticateFails, ChoiceInv, Chosen, Defined, TypeOK
<1>7. CASE GetIpAddress \/ Disconnect
  BY <1>7 DEF GetIpAddress, Disconnect, ChoiceInv, Chosen, Defined
<1> QED
  BY <1>1, <1>2, <1>3, <1>4, <1>5, <1>6, <1>7 DEF Next, GetContext

(* Every step keeps it true that a new id is beyond those in use.          *)
LEMMA CreateStep == TypeOK /\ CreateInv /\ [Next]_vars => CreateInv'
<1> SUFFICES ASSUME TypeOK, CreateInv, [Next]_vars PROVE CreateInv'
  OBVIOUS
<1> USE Constants DEF settingVars, choiceVars, modemVars
<1>1. CASE UNCHANGED vars
  BY <1>1, SameMatching DEF vars, CreateInv, Defined
<1>2. CASE NoMatch
  <2>1. PICK max \in Cids : CidMax(max) /\ newCid' = NextCid(max)
    BY <1>2 DEF NoMatch
  <2>2. Matching' = {} /\ table' = table
    BY <1>2, SameMatching DEF NoMatch
  <2>3. \A c \in Cids : Defined(c) => c <= max
    BY <2>1 DEF CidMax, Last
  <2>4. newCid' # 0 => newCid' = max + 1
    BY <2>1 DEF NextCid
  <2>5. newCid' # 0 => \A c \in Cids : Defined(c)' => c < newCid'
    BY <2>2, <2>3, <2>4 DEF Defined, Cids
  <2> QED
    BY <2>2, <2>5 DEF CreateInv
<1>3. CASE ~NoMatch /\ Next
  <2>1. pc' # "create"
    BY <1>3 DEF Next, GetContext, Connect, ReadFails, UseDefaultBearer, UseExisting, Create,
                CreateFails, Authenticate, AuthenticateFails, GetIpAddress, Disconnect, Restart
  <2> QED
    BY <2>1 DEF CreateInv
<1> QED
  BY <1>1, <1>2, <1>3

(* What only the creation of a context and a restart do to the table.      *)
LEMMA TableChange ==
    ASSUME TypeOK, CreateInv, [Next]_vars
    PROVE  \/ \A c \in Cids \ {0} : table'[c] = table[c]
           \/ /\ newCid \in Cids \ {0} /\ Matching = {} /\ ~Defined(newCid)
              /\ \A c \in Cids \ {newCid} : table'[c] = table[c]
<1> USE Constants DEF settingVars, choiceVars, modemVars
<1>1. CASE UNCHANGED table
  BY <1>1
<1>2. CASE Restart
  BY <1>2 DEF Restart, TypeOK
<1>3. CASE pc = "create" /\ newCid \in Cids /\ Write(newCid)
  <2>1. CASE newCid = 0
    BY <1>3, <2>1, WriteEffect
  <2>2. CASE newCid # 0
    <3>1. ~Defined(newCid)
      BY <1>3, <2>2 DEF CreateInv, Cids
    <3> QED
      BY <1>3, <2>2, <3>1, WriteEffect DEF CreateInv
  <2> QED
    BY <2>1, <2>2
<1> QED
  BY <1>1, <1>2, <1>3 DEF Next, GetContext, vars, Connect, ReadFails, UseDefaultBearer,
     UseExisting, NoMatch, Create, CreateFails, Authenticate, AuthenticateFails, GetIpAddress,
     Disconnect

-----------------------------------------------------------------------------
(* The theorems.                                                           *)

IInv == TypeOK /\ ChoiceInv /\ CreateInv

(* The inductive invariant.                                                *)
LEMMA Invariance == Spec => []IInv
<1>1. Init => IInv
  BY TypeInit, ChoiceInit DEF IInv
<1>2. IInv /\ [Next]_vars => IInv'
  BY TypeStep, ChoiceStep, CreateStep DEF IInv
<1> QED
  BY <1>1, <1>2, PTL DEF Spec

(* Every variable keeps its type: in particular nobody authenticates for   *)
(* an id that does not exist.                                              *)
THEOREM TypeCorrect == Spec => []TypeOK
<1>1. IInv => TypeOK
  BY DEF IInv
<1> QED
  BY <1>1, Invariance, PTL

(* While the context is active, the stack, the driver and the modem agree  *)
(* on its id, its APN and type, and its credentials.                       *)
THEOREM ActiveConsistent == Spec => []ActiveIsConsistent
<1>1. IInv => ActiveIsConsistent
  BY DEF IInv, ChoiceInv, Chosen, ActiveIsConsistent
<1> QED
  BY <1>1, Invariance, PTL

(* No step changes a context that exists, context 0 apart.                 *)
THEOREM NoOverwrite == Spec => NoContextOverwritten
<1>1. IInv /\ [Next]_vars => [\A c \in Cids \ {0} : Defined(c) => table'[c] = table[c]]_vars
  BY TableChange DEF IInv
<1> QED
  BY <1>1, Invariance, PTL DEF Spec, NoContextOverwritten

(* Retrying creates no second context, provided that the table the modem   *)
(* starts with has no two dual stack contexts for one APN.                 *)
THEOREM OneCreated ==
    ASSUME \A t \in Tables : \A c, d \in Cids \ {0} :
               (t[c] # NoContext /\ t[c] = t[d] /\ t[c].type = "IPV4V6") => c = d
    PROVE  Spec => []OneContextCreated
<1>1. Init => OneContextCreated
  <2> SUFFICES ASSUME Init, NEW c \in Cids \ {0}, NEW d \in Cids \ {0}, Created(c), Created(d)
               PROVE  c = d
    BY DEF OneContextCreated
  <2>1. [type |-> "IPV4V6", apn |-> apn] \in PdpContext
    BY DEF Init, PdpContext, Types, Supported
  <2>2. table \in Tables /\ table[c] = table[d] /\ table[c] # NoContext /\ table[c].type = "IPV4V6"
    BY <2>1, Constants DEF Init, Created
  <2> QED
    BY <2>2
<1>2. IInv /\ OneContextCreated /\ [Next]_vars => OneContextCreated'
  <2> SUFFICES ASSUME IInv, OneContextCreated, [Next]_vars,
                      NEW c \in Cids \ {0}, NEW d \in Cids \ {0}, Created(c)', Created(d)'
               PROVE  c = d
    BY DEF OneContextCreated
  <2>1. apn' = apn
    BY DEF Next, GetContext, vars, settingVars, Connect, ReadFails, UseDefaultBearer, UseExisting,
           NoMatch, Create, CreateFails, Authenticate, AuthenticateFails, GetIpAddress, Disconnect,
           Restart
  <2>2. CASE \A e \in Cids \ {0} : table'[e] = table[e]
    BY <2>1, <2>2 DEF OneContextCreated, Created
  <2>3. CASE /\ newCid \in Cids \ {0} /\ Matching = {} /\ ~Defined(newCid)
             /\ \A e \in Cids \ {newCid} : table'[e] = table[e]
    <3>1. \A e \in Cids : ~Created(e)
      <4> SUFFICES ASSUME NEW e \in Cids, Created(e) PROVE FALSE
        OBVIOUS
      <4>1. [type |-> "IPV4V6", apn |-> apn] \in PdpContext
        BY DEF IInv, TypeOK, PdpContext, Types, Supported
      <4>2. Defined(e) /\ table[e].apn = apn /\ table[e].type = "IPV4V6"
        BY <4>1, Constants DEF Created, Defined
      <4>3. e \in Matching
        BY <4>2 DEF Matching, Matches, Supported
      <4> QED
        BY <2>3, <4>3
    <3>2. \A e \in Cids \ {newCid} : ~Created(e)'
      BY <2>1, <2>3, <3>1 DEF Created
    <3> QED
      BY <3>2
  <2> QED
    BY <2>2, <2>3, TableChange DEF IInv
<1> QED
  BY <1>1, <1>2, Invariance, PTL DEF Spec
=============================================================================
