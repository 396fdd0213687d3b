------------------------ MODULE PluginSessionProofs ------------------------
(***************************************************************************)
(* Theorems about PluginSession, for all values of its constants: any      *)
(* number of codes, devices, tokens, calls, loads and disturbances.  First *)
(* what the tables keep, then what a session of the plugin may do: nothing *)
(* runs unconfirmed, no sync state is of two pairings, and the stored      *)
(* credential is one the server takes.                                     *)
(***************************************************************************)
EXTENDS PluginSession, TLAPS

-----------------------------------------------------------------------------
(* Calls after a step.                                                     *)

\* A call that was made is a record with all its fields.
LEMMA CallFields ==
    ASSUME TypeOK, NEW k \in Calls, calls[k] # None
    PROVE  /\ calls[k] \in CallOf("pair", Codes) \cup CallOf("rotate", Tokens)
           /\ calls[k].kind \in {"pair", "rotate"}
           /\ calls[k].inst \in Instances
           /\ calls[k].try \in 1 .. Attempts
           /\ calls[k].state \in {"waiting", "done"}
           /\ calls[k].answer \in Tokens \cup {None, Denied}
           /\ calls[k].kind = "pair" => calls[k].key \in Codes
           /\ calls[k].kind = "rotate" => calls[k].key \in Tokens
BY DEF TypeOK, Call, CallOf

\* What a call becomes while it is the same call.
Same(k) ==
    /\ calls'[k].kind = calls[k].kind
    /\ calls'[k].inst = calls[k].inst
    /\ calls'[k].key = calls[k].key

\* A call that replaces a call is what the calls then hold.
LEMMA CallReplaced ==
    ASSUME TypeOK, NEW k \in Calls,
           NEW c \in CallOf("pair", Codes) \cup CallOf("rotate", Tokens),
           calls' = [calls EXCEPT ![k] = c]
    PROVE  /\ calls' \in [Calls -> Call]
           /\ calls'[k] = c
           /\ calls'[k] # None
           /\ \A j \in Calls \ {k} : calls'[j] = calls[j]
BY NullAssumption DEF TypeOK, Call

\* The server's answer goes to a call that awaits it, or to nobody.
LEMMA AnswerGiven ==
    ASSUME TypeOK, NEW r \in Request, calls[r.call] # None,
           NEW a \in Tokens \cup {None, Denied}, calls' = Answered(r, a)
    PROVE  /\ calls' \in [Calls -> Call]
           /\ \A k \in Calls :
                /\ (calls'[k] # None) = (calls[k] # None)
                /\ calls[k] # None => /\ Same(k)
                                      /\ calls'[k].state = calls[k].state
                                      /\ calls'[k].try = calls[k].try
                                      /\ calls'[k].answer \in {calls[k].answer, a}
           /\ \A k \in Calls \ {r.call} : calls'[k] = calls[k]
           /\ Unawaited(r) => calls' = calls
           /\ ~Unawaited(r) => calls'[r.call].answer = a
<1>1. r.call \in Calls
  BY DEF Request
<1>2. CASE Unawaited(r)
  <2>1. calls' = calls
    BY <1>2 DEF Unawaited, Answered
  <2> QED BY <1>2, <2>1 DEF TypeOK, Same
<1>3. CASE ~Unawaited(r)
  <2>1. calls' = [calls EXCEPT ![r.call].answer = a]
    BY <1>3 DEF Unawaited, Answered
  <2>2. calls[r.call] \in CallOf("pair", Codes) \cup CallOf("rotate", Tokens)
    BY <1>1, CallFields
  <2>3. calls'[r.call] \in CallOf("pair", Codes) \cup CallOf("rotate", Tokens)
    BY <1>1, <2>1, <2>2 DEF TypeOK, CallOf
  <2>4. calls'[r.call] # None
    BY <2>3, NullAssumption
  <2>5. calls' \in [Calls -> Call]
    BY <1>1, <2>1, <2>3 DEF TypeOK, Call
  <2>6. \A k \in Calls \ {r.call} : calls'[k] = calls[k]
    BY <1>1, <2>1 DEF TypeOK
  <2>7. /\ Same(r.call)
        /\ calls'[r.call].state = calls[r.call].state
        /\ calls'[r.call].try = calls[r.call].try
        /\ calls'[r.call].answer = a
    BY <1>1, <2>1, <2>2 DEF TypeOK, CallOf, Same
  <2> QED BY <1>1, <1>3, <2>4, <2>5, <2>6, <2>7 DEF Same
<1> QED BY <1>2, <1>3

\* A call that begins is a new one.
LEMMA CallBegun ==
    ASSUME TypeOK, NEW kind, NEW key, Begin(kind, key),
           \/ kind = "pair" /\ key \in Codes
           \/ kind = "rotate" /\ key \in Tokens
    PROVE  \E k \in Calls :
              /\ calls[k] = None
              /\ calls'[k] = [kind |-> kind, inst |-> cur, key |-> key, try |-> 1,
                              state |-> "waiting", answer |-> None]
              /\ calls'[k] # None
              /\ \A j \in Calls \ {k} : calls'[j] = calls[j]
              /\ calls' \in [Calls -> Call]
              /\ net' = net \cup {[call |-> k, try |-> 1, stage |-> "sent"]}
              /\ net' \subseteq Request
<1>1. PICK k \in NextOf(Calls, {j \in Calls : calls[j] # None}) :
        /\ calls' = [calls EXCEPT ![k] =
              [kind |-> kind, inst |-> cur, key |-> key, try |-> 1,
               state |-> "waiting", answer |-> None]]
        /\ net' = net \cup {[call |-> k, try |-> 1, stage |-> "sent"]}
  BY DEF Begin
<1>2. k \in Calls /\ calls[k] = None
  BY <1>1 DEF NextOf
<1>3. 1 \in 1 .. Attempts /\ cur \in Instances
  BY SessionAssumption DEF TypeOK
<1>4. calls'[k] \in CallOf("pair", Codes) \cup CallOf("rotate", Tokens)
  BY <1>1, <1>2, <1>3 DEF TypeOK, CallOf
<1>5. calls'[k] # None
  BY <1>4, NullAssumption
<1>6. calls' \in [Calls -> Call]
  BY <1>1, <1>2, <1>4 DEF TypeOK, Call
<1>7. net' \subseteq Request
  BY <1>1, <1>2, <1>3 DEF TypeOK, Request
<1>8. \A j \in Calls \ {k} : calls'[j] = calls[j]
  BY <1>1, <1>2 DEF TypeOK
<1>9. calls'[k] = [kind |-> kind, inst |-> cur, key |-> key, try |-> 1,
                   state |-> "waiting", answer |-> None]
  BY <1>1, <1>2 DEF TypeOK
<1> QED BY <1>1, <1>2, <1>5, <1>6, <1>7, <1>8, <1>9

-----------------------------------------------------------------------------
(* Type correctness.                                                       *)

\* Every token that anything holds was issued to a device.
Owned ==
    /\ \A t \in live : owner[t] # None
    /\ \A d \in Devices : secrets[d] # None => owner[secrets[d]] # None
    /\ \A i \in Instances : run[i] # None => owner[run[i].token] # None
    /\ \A k \in Calls : calls[k] # None =>
          /\ calls[k].kind = "rotate" => owner[calls[k].key] # None
          /\ calls[k].answer \in Tokens => owner[calls[k].answer] # None

\* Every request is one of a call, and only rotations are admitted.
Sent ==
    \A r \in net : /\ calls[r.call] # None
                   /\ r.stage = "admitted" => calls[r.call].kind = "rotate"

Typed == TypeOK /\ Owned /\ Sent

\* A first identity is one of its set and not taken.
LEMMA NextIsFree ==
    ASSUME NEW S, NEW taken, NEW x \in NextOf(S, taken)
    PROVE  x \in S /\ x \notin taken
BY DEF NextOf

\* The initial states are typed.
LEMMA TypedInit ==
    Init => Typed
<1> SUFFICES ASSUME Init PROVE Typed
  OBVIOUS
<1>1. 1 \in Devices /\ 1 \in Tokens /\ 1 \in Instances /\ 1 \in 1 .. Attempts
  BY SessionAssumption DEF Devices, Tokens, Instances
<1>2. Blank \in Data
  BY DEF Blank, Data
<1>3. saved \in Data
  <2>1. [Blank EXCEPT !.schema = "older", !.device = 1, !.completed = TRUE,
                      !.source = {1}] \in Data
    BY <1>1 DEF Data, Blank
  <2> QED BY <1>2, <2>1 DEF Init
<1>4. Migrated(saved) \in Data
  BY <1>2, <1>3 DEF Migrated
<1>5. mem \in [Instances -> Data]
  BY <1>2, <1>4 DEF Init
<1>6. /\ status \in [Devices -> {"none", "active", "retired", "revoked"}]
      /\ owner \in [Tokens -> Devices \cup {None}]
      /\ live \subseteq Tokens
      /\ secrets \in [Devices -> Tokens \cup {None}]
  BY <1>1 DEF Init
<1>7. /\ codes \in [Codes -> {"open", "used", "expired"}]
      /\ pairedBy \in [Devices -> Codes \cup {None}]
      /\ net \subseteq Request
      /\ calls \in [Calls -> Call]
      /\ run \in [Instances -> Run]
      /\ cancel \in [Instances -> BOOLEAN]
      /\ preview \in [Instances -> Devices \cup {None}]
      /\ alive \subseteq Instances
      /\ cur \in alive
      /\ events \in 0 .. MaxEvents
      /\ {confirmed, crossed, unheard} \subseteq SUBSET Devices
  BY <1>1, SessionAssumption DEF Init, Call, Run
<1>8. Owned
  BY <1>1, SessionAssumption DEF Init, Owned, Devices
<1> QED BY <1>3, <1>5, <1>6, <1>7, <1>8 DEF Init, Typed, TypeOK, Sent

\* A token that is issued keeps the others' devices.
LEMMA OwnerGrows ==
    ASSUME TypeOK, NEW t \in Tokens, owner[t] = None, NEW d \in Devices,
           owner' = [owner EXCEPT ![t] = d]
    PROVE  /\ owner' \in [Tokens -> Devices \cup {None}]
           /\ owner'[t] = d
           /\ d # None
           /\ \A u \in Tokens : owner[u] # None => u # t /\ owner'[u] = owner[u]
           /\ \A u \in Tokens \ {t} : owner'[u] = owner[u]
BY SessionAssumption DEF TypeOK, Devices

\* The server gives tokens to devices and to calls, and takes none back.
LEMMA OwnedGrows ==
    ASSUME TypeOK, Owned, NEW a \in Tokens \cup {None, Denied},
           owner' \in [Tokens -> Devices \cup {None}],
           \A u \in Tokens : owner[u] # None => owner'[u] # None,
           a \in Tokens => owner'[a] # None,
           live' \subseteq live \cup {a},
           live' \subseteq Tokens,
           UNCHANGED <<secrets, run>>,
           \A k \in Calls :
              /\ (calls'[k] # None) = (calls[k] # None)
              /\ calls[k] # None => /\ Same(k)
                                    /\ calls'[k].answer \in {calls[k].answer, a}
    PROVE  Owned'
<1>1. \A t \in live' : owner'[t] # None
  BY DEF TypeOK, Owned
<1>2. ASSUME NEW d \in Devices, secrets'[d] # None
      PROVE  owner'[secrets'[d]] # None
  BY <1>2 DEF TypeOK, Owned
<1>3. ASSUME NEW i \in Instances, run'[i] # None
      PROVE  owner'[run'[i].token] # None
  <2>1. run[i].token \in Tokens
    BY <1>3 DEF TypeOK, Run
  <2> QED BY <1>3, <2>1 DEF Owned
<1>4. ASSUME NEW k \in Calls, calls'[k] # None
      PROVE  /\ calls'[k].kind = "rotate" => owner'[calls'[k].key] # None
             /\ calls'[k].answer \in Tokens => owner'[calls'[k].answer] # None
  <2>1. calls[k] # None /\ Same(k) /\ calls'[k].answer \in {calls[k].answer, a}
    BY <1>4
  <2>2. calls[k].kind = "rotate" => calls[k].key \in Tokens
    BY <2>1, CallFields
  <2> QED BY <2>1, <2>2 DEF Owned, Same
<1> QED BY <1>1, <1>2, <1>3, <1>4 DEF Owned

\* What the server does for the requests keeps the types.
LEMMA TypedServer ==
    ASSUME Typed, ServerStep
    PROVE  Typed'
<1> USE DEF server, plugin, history
<1>1. ASSUME NEW r \in net, PairDevice(r)
      PROVE  Typed'
  <2>1. r \in Request /\ r.call \in Calls /\ calls[r.call] # None
    BY <1>1 DEF Typed, TypeOK, Sent, Request
  <2>2. calls[r.call].key \in Codes
    BY <1>1, <2>1, CallFields DEF Typed, PairDevice
  <2>3. CASE calls' = Answered(r, Denied) /\ UNCHANGED server
    <3>1. /\ calls' \in [Calls -> Call]
          /\ \A k \in Calls :
               /\ (calls'[k] # None) = (calls[k] # None)
               /\ calls[k] # None => /\ Same(k)
                                     /\ calls'[k].answer \in {calls[k].answer, Denied}
      BY <2>1, <2>3, AnswerGiven DEF Typed
    <3>2. TypeOK'
      BY <1>1, <2>3, <3>1 DEF Typed, TypeOK, PairDevice
    <3>3. Owned'
      <4>1. UNCHANGED <<secrets, run, owner, live>>
        BY <1>1, <2>3 DEF PairDevice
      <4>2. Denied \notin Tokens
        BY SessionAssumption DEF Tokens
      <4>3. owner' \in [Tokens -> Devices \cup {None}] /\ live' \subseteq Tokens
        BY <4>1 DEF Typed, TypeOK
      <4> QED BY <3>1, <4>1, <4>2, <4>3, OwnedGrows DEF Typed
    <3>4. Sent'
      BY <1>1, <2>1, <3>1 DEF Typed, TypeOK, PairDevice, Sent, Same, Request
    <3> QED BY <3>2, <3>3, <3>4 DEF Typed
  <2>4. ASSUME NEW d \in NextOf(Devices, {e \in Devices : status[e] # "none"}),
               NEW t \in NextOf(Tokens, {u \in Tokens : owner[u] # None}),
               /\ Redeemable(calls[r.call].key)
               /\ status' = [status EXCEPT ![d] = "active"]
               /\ pairedBy' = [pairedBy EXCEPT ![d] = calls[r.call].key]
               /\ owner' = [owner EXCEPT ![t] = d]
               /\ live' = live \cup {t}
               /\ codes' = [codes EXCEPT ![calls[r.call].key] = "used"]
               /\ calls' = Answered(r, t)
        PROVE  Typed'
    <3>1. d \in Devices /\ t \in Tokens /\ owner[t] = None
      BY NextIsFree
    <3>2. /\ calls' \in [Calls -> Call]
          /\ \A k \in Calls :
               /\ (calls'[k] # None) = (calls[k] # None)
               /\ calls[k] # None => /\ Same(k)
                                     /\ calls'[k].answer \in {calls[k].answer, t}
      BY <2>1, <2>4, <3>1, AnswerGiven DEF Typed
    <3>3. /\ owner' \in [Tokens -> Devices \cup {None}]
          /\ owner'[t] = d
          /\ d # None
          /\ \A u \in Tokens : owner[u] # None => owner'[u] = owner[u]
      BY <2>4, <3>1, OwnerGrows DEF Typed
    <3>4. TypeOK'
      BY <1>1, <2>2, <2>4, <3>1, <3>2, <3>3 DEF Typed, TypeOK, PairDevice
    <3>5. Owned'
      <4>1. UNCHANGED <<secrets, run>>
        BY <1>1 DEF PairDevice
      <4>2. live' \subseteq live \cup {t} /\ live' \subseteq Tokens
        BY <2>4, <3>1 DEF Typed, TypeOK
      <4> QED BY <3>1, <3>2, <3>3, <4>1, <4>2, OwnedGrows DEF Typed
    <3>6. Sent'
      BY <1>1, <2>1, <3>2 DEF Typed, TypeOK, PairDevice, Sent, Same, Request
    <3> QED BY <3>4, <3>5, <3>6 DEF Typed
  <2> QED BY <1>1, <2>3, <2>4 DEF PairDevice
<1>2. ASSUME NEW r \in net, AuthenticateToken(r)
      PROVE  Typed'
  <2>1. r \in Request /\ r.call \in Calls /\ calls[r.call] # None
    BY <1>2 DEF Typed, TypeOK, Sent, Request
  <2>2. CASE calls' = calls /\ net' = (net \ {r}) \cup {[r EXCEPT !.stage = "admitted"]}
    <3>1. [r EXCEPT !.stage = "admitted"] \in Request
          /\ [r EXCEPT !.stage = "admitted"].call = r.call
      BY <2>1 DEF Request
    <3>2. TypeOK' /\ Owned'
      BY <1>2, <2>2, <3>1 DEF Typed, TypeOK, Owned, AuthenticateToken
    <3>3. Sent'
      BY <1>2, <2>1, <2>2, <3>1 DEF Typed, Sent, AuthenticateToken
    <3> QED BY <3>2, <3>3 DEF Typed
  <2>3. CASE calls' = Answered(r, Denied) /\ net' = net \ {r}
    <3>1. /\ calls' \in [Calls -> Call]
          /\ \A k \in Calls :
               /\ (calls'[k] # None) = (calls[k] # None)
               /\ calls[k] # None => /\ Same(k)
                                     /\ calls'[k].answer \in {calls[k].answer, Denied}
      BY <2>1, <2>3, AnswerGiven DEF Typed
    <3>2. TypeOK'
      BY <1>2, <2>3, <3>1 DEF Typed, TypeOK, AuthenticateToken
    <3>3. Owned'
      <4>1. UNCHANGED <<secrets, run, owner, live>>
        BY <1>2, <2>3 DEF AuthenticateToken
      <4>2. Denied \notin Tokens
        BY SessionAssumption DEF Tokens
      <4>3. owner' \in [Tokens -> Devices \cup {None}] /\ live' \subseteq Tokens
        BY <4>1 DEF Typed, TypeOK
      <4> QED BY <3>1, <4>1, <4>2, <4>3, OwnedGrows DEF Typed
    <3>4. Sent'
      BY <1>2, <2>1, <2>3, <3>1 DEF Typed, TypeOK, Sent, Same, Request
    <3> QED BY <3>2, <3>3, <3>4 DEF Typed
  <2> QED BY <1>2, <2>2, <2>3 DEF AuthenticateToken
<1>3. ASSUME NEW r \in net, RotateToken(r)
      PROVE  Typed'
  <2>1. r \in Request /\ r.call \in Calls /\ calls[r.call] # None
    BY <1>3 DEF Typed, TypeOK, Sent, Request
  <2>2. calls[r.call].key \in Tokens /\ owner[calls[r.call].key] \in Devices
    <3>1. calls[r.call].kind = "rotate"
      BY <1>3 DEF Typed, Sent, RotateToken
    <3>2. calls[r.call].key \in Tokens
      BY <2>1, <3>1, CallFields DEF Typed
    <3> QED BY <2>1, <3>1, <3>2 DEF Typed, TypeOK, Owned
  <2>3. CASE calls' = Answered(r, Denied) /\ UNCHANGED <<owner, live, unheard>>
    <3>1. /\ calls' \in [Calls -> Call]
          /\ \A k \in Calls :
               /\ (calls'[k] # None) = (calls[k] # None)
               /\ calls[k] # None => /\ Same(k)
                                     /\ calls'[k].answer \in {calls[k].answer, Denied}
      BY <2>1, <2>3, AnswerGiven DEF Typed
    <3>2. TypeOK'
      BY <1>3, <2>3, <3>1 DEF Typed, TypeOK, RotateToken
    <3>3. Owned'
      <4>1. UNCHANGED <<secrets, run, owner, live>>
        BY <1>3, <2>3 DEF RotateToken
      <4>2. Denied \notin Tokens
        BY SessionAssumption DEF Tokens
      <4>3. owner' \in [Tokens -> Devices \cup {None}] /\ live' \subseteq Tokens
        BY <4>1 DEF Typed, TypeOK
      <4> QED BY <3>1, <4>1, <4>2, <4>3, OwnedGrows DEF Typed
    <3>4. Sent'
      BY <1>3, <2>1, <3>1 DEF Typed, TypeOK, RotateToken, Sent, Same, Request
    <3> QED BY <3>2, <3>3, <3>4 DEF Typed
  <2>4. ASSUME NEW t \in NextOf(Tokens, {u \in Tokens : owner[u] # None}),
               /\ owner' = [owner EXCEPT ![t] = owner[calls[r.call].key]]
               /\ live' = (live \ {calls[r.call].key}) \cup {t}
               /\ calls' = Answered(r, t)
               /\ unheard' = IF Unawaited(r)
                     THEN unheard \cup {owner[calls[r.call].key]} ELSE unheard
        PROVE  Typed'
    <3>1. t \in Tokens /\ owner[t] = None
      BY NextIsFree
    <3>2. /\ calls' \in [Calls -> Call]
          /\ \A k \in Calls :
               /\ (calls'[k] # None) = (calls[k] # None)
               /\ calls[k] # None => /\ Same(k)
                                     /\ calls'[k].answer \in {calls[k].answer, t}
      BY <2>1, <2>4, <3>1, AnswerGiven DEF Typed
    <3>3. /\ owner' \in [Tokens -> Devices \cup {None}]
          /\ owner'[t] # None
          /\ \A u \in Tokens : owner[u] # None => owner'[u] = owner[u]
      BY <2>2, <2>4, <3>1, OwnerGrows DEF Typed
    <3>4. TypeOK'
      BY <1>3, <2>2, <2>4, <3>1, <3>2, <3>3 DEF Typed, TypeOK, RotateToken
    <3>5. Owned'
      <4>1. UNCHANGED <<secrets, run>>
        BY <1>3 DEF RotateToken
      <4>2. live' \subseteq live \cup {t} /\ live' \subseteq Tokens
        BY <2>4, <3>1 DEF Typed, TypeOK
      <4> QED BY <3>1, <3>2, <3>3, <4>1, <4>2, OwnedGrows DEF Typed
    <3>6. Sent'
      BY <1>3, <2>1, <3>2 DEF Typed, TypeOK, RotateToken, Sent, Same, Request
    <3> QED BY <3>4, <3>5, <3>6 DEF Typed
  <2> QED BY <1>3, <2>3, <2>4 DEF RotateToken
<1>4. ASSUME NEW d \in Devices, SetDeviceStatus(d)
      PROVE  Typed'
  <2>1. TypeOK'
    BY <1>4, SessionAssumption DEF Typed, TypeOK, SetDeviceStatus, Spend
  <2> QED BY <1>4, <2>1 DEF Typed, Owned, Sent, SetDeviceStatus
<1>5. ASSUME NEW c \in Codes, CodeExpires(c)
      PROVE  Typed'
  <2>1. TypeOK'
    BY <1>5, SessionAssumption DEF Typed, TypeOK, CodeExpires, Spend
  <2> QED BY <1>5, <2>1 DEF Typed, Owned, Sent, CodeExpires
<1> QED BY <1>1, <1>2, <1>3, <1>4, <1>5 DEF ServerStep

\* A call that goes on or ends makes a call of a call and gives out nothing.
LEMMA CallEnds ==
    ASSUME Typed, NEW k \in Calls, calls[k] # None, calls' = Done(k)
    PROVE  /\ calls' \in [Calls -> Call]
           /\ calls'[k] # None /\ Same(k)
           /\ calls'[k].state = "done"
           /\ calls'[k].answer = None
           /\ calls'[k].try = calls[k].try
           /\ \A j \in Calls \ {k} : calls'[j] = calls[j]
<1> DEFINE c == [calls[k] EXCEPT !.state = "done", !.answer = None]
<1>1. calls[k] \in CallOf("pair", Codes) \cup CallOf("rotate", Tokens)
  BY CallFields DEF Typed
<1>2. /\ c \in CallOf("pair", Codes) \cup CallOf("rotate", Tokens)
      /\ c.kind = calls[k].kind /\ c.inst = calls[k].inst /\ c.key = calls[k].key
      /\ c.try = calls[k].try /\ c.state = "done" /\ c.answer = None
  BY <1>1 DEF CallOf
<1>3. calls' = [calls EXCEPT ![k] = c]
  BY <1>1 DEF Done, Typed, TypeOK
<1> HIDE DEF c
<1> QED BY <1>2, <1>3, CallReplaced DEF Typed, Same

\* What the plugin does about its calls keeps the types.
LEMMA TypedCalls ==
    ASSUME Typed, CallStep
    PROVE  Typed'
<1> USE DEF server, plugin, history
<1>n. None \notin Tokens /\ Denied \notin Tokens /\ None \notin Devices
  BY SessionAssumption DEF Tokens, Devices
<1>1. ASSUME NEW kind, NEW key, Begin(kind, key),
             \/ kind = "pair" /\ key \in Codes
             \/ kind = "rotate" /\ key \in Tokens /\ owner[key] # None,
             UNCHANGED <<server, secrets, saved, plugin, history>>
      PROVE  Typed'
  <2>1. PICK k \in Calls :
           /\ calls[k] = None
           /\ calls'[k] = [kind |-> kind, inst |-> cur, key |-> key, try |-> 1,
                           state |-> "waiting", answer |-> None]
           /\ calls'[k] # None
           /\ \A j \in Calls \ {k} : calls'[j] = calls[j]
           /\ calls' \in [Calls -> Call]
           /\ net' = net \cup {[call |-> k, try |-> 1, stage |-> "sent"]}
           /\ net' \subseteq Request
    BY <1>1, CallBegun DEF Typed
  <2>2. events' \in 0 .. MaxEvents
    BY <1>1, SessionAssumption DEF Begin, Spend, Typed, TypeOK
  <2>3. TypeOK'
    BY <1>1, <2>1, <2>2 DEF Typed, TypeOK
  <2>4. /\ calls'[k].kind = kind
        /\ calls'[k].key = key
        /\ calls'[k].answer = None
    BY <2>1
  <2>5. UNCHANGED <<owner, live, run, secrets>>
    BY <1>1
  <2>6. Owned'
    BY <1>1, <1>n, <2>1, <2>4, <2>5 DEF Typed, Owned
  <2>7. Sent'
    BY <2>1, <2>4 DEF Typed, TypeOK, Sent, Request
  <2> QED BY <2>3, <2>6, <2>7 DEF Typed
<1>2. ASSUME NEW c \in Codes, StartPairing(c)
      PROVE  Typed'
  BY <1>1, <1>2 DEF StartPairing
<1>3. ASSUME StartRotation
      PROVE  Typed'
  <2>1. mem[cur].device \in Devices
    BY <1>3 DEF StartRotation, HasClient, Typed, TypeOK, Data
  <2>2. secrets[mem[cur].device] \in Tokens
    BY <1>3, <2>1 DEF StartRotation, HasClient, Typed, TypeOK
  <2>3. owner[secrets[mem[cur].device]] # None
    BY <1>n, <2>1, <2>2 DEF Typed, Owned
  <2> QED BY <1>1, <1>3, <2>2, <2>3 DEF StartRotation
<1>4. ASSUME NEW k \in Calls, AttemptFails(k)
      PROVE  Typed'
  <2>1. calls[k] # None
    BY <1>4 DEF AttemptFails, Waiting
  <2>2. events' \in 0 .. MaxEvents
    BY <1>4, SessionAssumption DEF AttemptFails, Spend, Typed, TypeOK
  <2>3. Lost(k) \subseteq Devices
    BY <2>1, CallFields DEF Lost, Typed, TypeOK, Owned
  <2>4. calls[k].try \in 1 .. Attempts /\ calls[k].state \in {"waiting", "done"}
        /\ calls[k] \in CallOf("pair", Codes) \cup CallOf("rotate", Tokens)
    BY <2>1, CallFields DEF Typed
  <2>5. PICK gone :
          IF MayRetry(k)
          THEN /\ calls' = [calls EXCEPT ![k].try = @ + 1, ![k].answer = None]
               /\ net' = (net \ gone) \cup
                     {[call |-> k, try |-> calls[k].try + 1, stage |-> "sent"]}
          ELSE /\ calls' = [calls EXCEPT ![k].state = "done", ![k].answer = None]
               /\ net' = net \ gone
    BY <1>4 DEF AttemptFails
  <2>6. /\ calls' \in [Calls -> Call]
        /\ calls'[k] # None /\ Same(k) /\ calls'[k].answer = None
        /\ \A j \in Calls \ {k} : calls'[j] = calls[j]
        /\ net' \subseteq Request
        /\ \A r \in net' : r \in net \/ (r.call = k /\ r.stage = "sent")
    <3>1. CASE MayRetry(k)
      <4>1. calls[k].try + 1 \in 1 .. Attempts
        BY <2>4, <3>1, SessionAssumption DEF MayRetry
      <4> DEFINE c == [calls[k] EXCEPT !.try = calls[k].try + 1, !.answer = None]
      <4>2. /\ calls' = [calls EXCEPT ![k] = c]
            /\ c \in CallOf("pair", Codes) \cup CallOf("rotate", Tokens)
            /\ c.kind = calls[k].kind /\ c.inst = calls[k].inst /\ c.key = calls[k].key
            /\ c.answer = None
        BY <2>4, <2>5, <3>1, <4>1 DEF Typed, TypeOK, CallOf
      <4> HIDE DEF c
      <4>3. [call |-> k, try |-> calls[k].try + 1, stage |-> "sent"] \in Request
        BY <4>1 DEF Request
      <4>4. /\ calls' \in [Calls -> Call]
            /\ calls'[k] # None /\ Same(k) /\ calls'[k].answer = None
            /\ \A j \in Calls \ {k} : calls'[j] = calls[j]
        BY <4>2, CallReplaced DEF Typed, Same
      <4> QED BY <2>5, <3>1, <4>3, <4>4 DEF Typed, TypeOK
    <3>2. CASE ~MayRetry(k)
      <4>1. /\ calls' \in [Calls -> Call]
            /\ calls'[k] # None /\ Same(k) /\ calls'[k].answer = None
            /\ \A j \in Calls \ {k} : calls'[j] = calls[j]
        BY <2>1, <2>5, <3>2, CallEnds DEF Done
      <4> QED BY <2>5, <3>2, <4>1 DEF Typed, TypeOK
    <3> QED BY <3>1, <3>2
  <2>7. TypeOK'
    BY <1>4, <2>2, <2>3, <2>6 DEF AttemptFails, Typed, TypeOK
  <2>8. Owned'
    <3>1. UNCHANGED <<owner, live, run, secrets>>
      BY <1>4 DEF AttemptFails
    <3> QED BY <1>n, <2>1, <2>6, <3>1 DEF Typed, Owned, Same
  <2>9. Sent'
    BY <2>1, <2>6 DEF Typed, Sent, Same, TypeOK, Request
  <2> QED BY <2>7, <2>8, <2>9 DEF Typed
<1>5. ASSUME NEW k \in Calls, Waiting(k), calls' = Done(k),
             UNCHANGED <<net, owner, live, run>>,
             \A d \in Devices : secrets'[d] # None => owner[secrets'[d]] # None
      PROVE  Owned' /\ Sent' /\ calls' \in [Calls -> Call]
  <2>1. /\ calls' \in [Calls -> Call]
        /\ calls[k] # None /\ calls'[k] # None /\ Same(k) /\ calls'[k].answer = None
        /\ \A j \in Calls \ {k} : calls'[j] = calls[j]
    BY <1>5, CallEnds DEF Waiting
  <2>2. Owned'
    BY <1>5, <1>n, <2>1 DEF Typed, Owned, Same
  <2>3. Sent'
    BY <1>5, <2>1 DEF Typed, Sent, Same, TypeOK, Request
  <2> QED BY <2>1, <2>2, <2>3
<1>6. ASSUME NEW k \in Calls, Paired(k)
      PROVE  Typed'
  <2> DEFINE i == calls[k].inst
             t == calls[k].answer
  <2>1. calls[k] # None /\ i \in Instances /\ t \in Tokens
    BY <1>6, CallFields DEF Paired, Waiting, Typed
  <2>2. owner[t] \in Devices /\ owner[t] # None
    BY <1>n, <2>1 DEF Typed, TypeOK, Owned
  <2>3. /\ secrets' \in [Devices -> Tokens \cup {None}]
        /\ \A d \in Devices : secrets'[d] # None => owner[secrets'[d]] # None
    BY <1>6, <2>1, <2>2 DEF Paired, Stored, Typed, TypeOK, Owned
  <2>4. Repaired(mem[i], owner[t]) \in Data
    BY <2>1, <2>2 DEF Repaired, Typed, TypeOK, Data
  <2>5. mem' \in [Instances -> Data] /\ saved' \in Data
    BY <1>6, <2>1, <2>4 DEF Paired, Typed, TypeOK
  <2>6. Owned' /\ Sent' /\ calls' \in [Calls -> Call]
    BY <1>5, <1>6, <2>3 DEF Paired
  <2>7. TypeOK'
    BY <1>6, <2>2, <2>3, <2>5, <2>6 DEF Paired, Typed, TypeOK
  <2> QED BY <2>6, <2>7 DEF Typed
<1>7. ASSUME NEW k \in Calls, Rotated(k)
      PROVE  Typed'
  <2> DEFINE i == calls[k].inst
             t == calls[k].answer
  <2>1. calls[k] # None /\ i \in Instances /\ t \in Tokens
    BY <1>7, CallFields DEF Rotated, Waiting, Typed
  <2>2. owner[t] \in Devices /\ owner[t] # None
    BY <1>n, <2>1 DEF Typed, TypeOK, Owned
  <2>3. /\ secrets' \in [Devices -> Tokens \cup {None}]
        /\ \A d \in Devices : secrets'[d] # None => owner[secrets'[d]] # None
    BY <1>7, <2>1, <2>2 DEF Rotated, Stored, Typed, TypeOK, Owned
  <2>4. Owned' /\ Sent' /\ calls' \in [Calls -> Call]
    BY <1>5, <1>7, <2>3 DEF Rotated
  <2>5. TypeOK'
    BY <1>7, <2>2, <2>3, <2>4 DEF Rotated, Typed, TypeOK
  <2> QED BY <2>4, <2>5 DEF Typed
<1>8. ASSUME NEW k \in Calls, Refused(k)
      PROVE  Typed'
  <2>1. Owned' /\ Sent' /\ calls' \in [Calls -> Call]
    BY <1>5, <1>8 DEF Refused, Typed, Owned
  <2>2. TypeOK'
    BY <1>8, <2>1 DEF Refused, Typed, TypeOK
  <2> QED BY <2>1, <2>2 DEF Typed
<1> QED BY <1>2, <1>3, <1>4, <1>6, <1>7, <1>8 DEF CallStep

\* What goes wrong is counted within its bound.
LEMMA Spent ==
    ASSUME TypeOK, Spend \/ UNCHANGED events
    PROVE  events' \in 0 .. MaxEvents
BY SessionAssumption DEF TypeOK, Spend

\* A run of the instance, and of no other, ends.
LEMMA RunEnded ==
    ASSUME TypeOK, NEW i \in Instances, RunEnds(i)
    PROVE  /\ run' \in [Instances -> Run]
           /\ run'[i] = None
           /\ cancel' \in [Instances -> BOOLEAN]
           /\ \A j \in Instances : run'[j] \in {run[j], None}
BY DEF TypeOK, RunEnds, Run

\* What a run writes is data.
LEMMA WroteIsData ==
    ASSUME Typed, NEW i \in Instances, run[i] # None
    PROVE  /\ run[i].token \in Tokens
           /\ owner[run[i].token] \in Devices
           /\ Wrote(i) \in Data
           /\ [Wrote(i) EXCEPT !.completed = TRUE, !.mode = FALSE] \in Data
<1>1. run[i].token \in Tokens
  BY DEF Typed, TypeOK, Run
<1>2. owner[run[i].token] \in Devices
  BY <1>1 DEF Typed, TypeOK, Owned
<1> QED BY <1>1, <1>2 DEF Wrote, Typed, TypeOK, Data

\* Runs keep the types.
LEMMA TypedRuns ==
    ASSUME Typed, StartRun \/ \E i \in alive : RunStep(i)
    PROVE  Typed'
<1> USE DEF server, plugin, history
<1>1. ASSUME StartRun
      PROVE  Typed'
  <2>1. cur \in Instances /\ mem[cur].device \in Devices /\ mem[cur].completed \in BOOLEAN
    BY <1>1 DEF StartRun, HasClient, Typed, TypeOK, Data
  <2>2. /\ secrets[mem[cur].device] \in Tokens
        /\ owner[secrets[mem[cur].device]] # None
    BY <1>1, <2>1 DEF StartRun, HasClient, Typed, TypeOK, Owned
  <2> DEFINE r == [device |-> mem[cur].device, token |-> secrets[mem[cur].device],
                   initial |-> ~mem[cur].completed]
  <2>3. r \in Run /\ r.token = secrets[mem[cur].device]
    BY <2>1, <2>2 DEF Run
  <2>4. run' = [run EXCEPT ![cur] = r]
    BY <1>1 DEF StartRun
  <2> HIDE DEF r
  <2>5. TypeOK'
    BY <1>1, <2>3, <2>4 DEF StartRun, Typed, TypeOK
  <2>6. Owned'
    <3>1. \A i \in Instances : run'[i] # None => owner[run'[i].token] # None
      BY <2>1, <2>2, <2>3, <2>4 DEF Typed, TypeOK, Owned
    <3> QED BY <1>1, <3>1 DEF StartRun, Typed, Owned
  <2> QED BY <1>1, <2>5, <2>6 DEF StartRun, Typed, Sent
<1>2. ASSUME NEW i \in alive, RunStep(i)
      PROVE  Typed'
  <2>1. i \in Instances
    BY DEF Typed, TypeOK
  <2>2. /\ mem' \in [Instances -> Data]
        /\ run' \in [Instances -> Run]
        /\ cancel' \in [Instances -> BOOLEAN]
        /\ saved' = mem'[i]
        /\ \A j \in Instances : run'[j] \in {run[j], None}
    <3>1. CASE RunWorks(i)
      BY <2>1, <3>1, WroteIsData DEF RunWorks, Served, Typed, TypeOK
    <3>2. CASE RunCompletes(i)
      <4>1. mem' \in [Instances -> Data]
        BY <2>1, <3>2, WroteIsData DEF RunCompletes, Served, Typed, TypeOK
      <4>2. RunEnds(i)
        BY <3>2 DEF RunCompletes
      <4> QED BY <2>1, <4>1, <4>2, RunEnded DEF RunEnds, Typed
    <3>3. CASE RunStops(i) \/ RunRefused(i) \/ RunFails(i)
      <4>1. RunEnds(i) /\ mem' = mem
        BY <3>3 DEF RunStops, RunRefused, RunFails
      <4> QED BY <2>1, <4>1, RunEnded DEF RunEnds, Typed, TypeOK
    <3> QED BY <1>2, <3>1, <3>2, <3>3 DEF RunStep
  <2>3. events' \in 0 .. MaxEvents
    <3>1. Spend \/ UNCHANGED events
      BY <1>2 DEF RunStep, RunWorks, RunCompletes, RunStops, RunRefused, RunFails
    <3> QED BY <3>1, Spent DEF Typed
  <2>4. UNCHANGED <<server, net, calls, secrets, preview, alive, cur, history>>
    BY <1>2 DEF RunStep, RunWorks, RunCompletes, RunStops, RunRefused, RunFails
  <2>5. TypeOK'
    BY <2>1, <2>2, <2>3, <2>4 DEF Typed, TypeOK
  <2>6. \A j \in Instances : run'[j] # None => owner[run'[j].token] # None
    BY <2>2 DEF Typed, Owned
  <2> QED BY <2>4, <2>5, <2>6 DEF Typed, Owned, Sent
<1> QED BY <1>1, <1>2

\* What is read from the disk is data of the current schema.
LEMMA MigratedIsData ==
    ASSUME NEW d \in Data
    PROVE  Migrated(d) \in Data /\ Migrated(d).schema = "current"
BY DEF Migrated, Blank, Data

\* A load makes the next instance of what is saved.
LEMMA Loaded ==
    ASSUME TypeOK, Load
    PROVE  /\ cur' \in Instances
           /\ cur' = cur + 1
           /\ mem' \in [Instances -> Data]
           /\ mem'[cur'] = Migrated(saved)
           /\ \A i \in Instances \ {cur'} : mem'[i] = mem[i]
           /\ saved' = Migrated(saved)
           /\ saved' \in Data
           /\ preview' \in [Instances -> Devices \cup {None}]
<1>1. cur' \in Instances /\ cur' = cur + 1
  BY SessionAssumption DEF Load, TypeOK, Instances
<1>2. Migrated(saved) \in Data
  BY MigratedIsData DEF TypeOK
<1> QED BY <1>1, <1>2 DEF Load, TypeOK

\* Users and Obsidian keep the types.
LEMMA TypedUser ==
    ASSUME Typed, UserStep
    PROVE  Typed'
<1> USE DEF server, plugin, history
<1>0. cur \in Instances /\ mem[cur] \in Data
  BY DEF Typed, TypeOK
<1>1. CASE PreviewInitialSync \/ PreviewEnds
  <2>1. TypeOK'
    BY <1>0, <1>1 DEF PreviewInitialSync, PreviewEnds, Typed, TypeOK, Data
  <2> QED BY <1>1, <2>1 DEF PreviewInitialSync, PreviewEnds, Typed, Owned, Sent
<1>2. CASE ApproveInitialSync
  <2>1. [mem[cur] EXCEPT !.mode = TRUE] \in Data
    BY <1>0 DEF Data
  <2>2. TypeOK'
    BY <1>0, <1>2, <2>1 DEF ApproveInitialSync, Typed, TypeOK
  <2> QED BY <1>2, <2>2 DEF ApproveInitialSync, Typed, Owned, Sent
<1>3. CASE Pause \/ Resume
  <2>1. \A b \in BOOLEAN : [mem[cur] EXCEPT !.paused = b] \in Data
    BY <1>0 DEF Data
  <2>2. events' \in 0 .. MaxEvents
    BY <1>3, SessionAssumption DEF Pause, Resume, Spend, Typed, TypeOK
  <2>3. TypeOK'
    BY <1>0, <1>3, <2>1, <2>2 DEF Pause, Resume, Typed, TypeOK
  <2> QED BY <1>3, <2>3 DEF Pause, Resume, Typed, Owned, Sent
<1>4. CASE CancelSync
  <2>1. TypeOK'
    BY <1>0, <1>4, SessionAssumption DEF CancelSync, Spend, Typed, TypeOK
  <2> QED BY <1>4, <2>1 DEF CancelSync, Typed, Owned, Sent
<1>5. CASE SavePluginData
  BY <1>0, <1>5 DEF SavePluginData, Typed, TypeOK, Owned, Sent
<1>6. CASE Reload
  <2>1. events' \in 0 .. MaxEvents
    BY <1>6, SessionAssumption DEF Reload, Spend, Typed, TypeOK
  <2>2. TypeOK'
    BY <1>6, <2>1, Loaded DEF Reload, Typed, TypeOK
  <2> QED BY <1>6, <2>2 DEF Reload, Typed, Owned, Sent
<1>7. CASE Restart
  <2>1. events' \in 0 .. MaxEvents
    BY <1>7, Spent DEF Restart, Typed
  <2>2. ASSUME NEW k \in Calls
        PROVE  /\ calls'[k] \in Call
               /\ (calls'[k] # None) = (calls[k] # None)
               /\ calls[k] # None => Same(k)
               /\ calls[k] # None => calls'[k].answer \in {calls[k].answer, None}
    <3>1. CASE ~Waiting(k)
      BY <1>7, <3>1 DEF Restart, Typed, TypeOK, Same
    <3>2. CASE Waiting(k)
      <4>1. calls[k] \in CallOf("pair", Codes) \cup CallOf("rotate", Tokens)
        BY <3>2, CallFields DEF Typed, Waiting
      <4>2. calls'[k] = [calls[k] EXCEPT !.state = "done", !.answer = None]
        BY <1>7, <3>2 DEF Restart
      <4>3. calls'[k] \in CallOf("pair", Codes) \cup CallOf("rotate", Tokens)
        BY <4>1, <4>2 DEF CallOf
      <4>4. calls'[k] # None /\ calls[k] # None
        BY <3>2, <4>3, NullAssumption DEF Waiting
      <4>5. Same(k) /\ calls'[k].answer = None
        BY <4>1, <4>2 DEF CallOf, Same
      <4> QED BY <4>3, <4>4, <4>5 DEF Call
    <3> QED BY <3>1, <3>2
  <2>3. calls' \in [Calls -> Call]
    BY <1>7, <2>2 DEF Restart
  <2>4. \A k \in Calls : Waiting(k) => Lost(k) \subseteq Devices
    BY CallFields DEF Waiting, Lost, Typed, TypeOK, Owned
  <2>5. unheard' \subseteq Devices
    <3>1. unheard' = unheard \cup UNION {Lost(k) : k \in {j \in Calls : Waiting(j)}}
      BY <1>7 DEF Restart
    <3>2. UNION {Lost(k) : k \in {j \in Calls : Waiting(j)}} \subseteq Devices
      <4> SUFFICES ASSUME NEW k \in Calls, Waiting(k)
                   PROVE  Lost(k) \subseteq Devices
        OBVIOUS
      <4> QED BY <2>4
    <3>3. unheard \subseteq Devices
      BY DEF Typed, TypeOK
    <3> QED BY <3>1, <3>2, <3>3
  <2>6. TypeOK'
    BY <1>7, <2>1, <2>3, <2>5, Loaded DEF Restart, Typed, TypeOK, Run
  <2>7. Owned'
    <3>1. UNCHANGED <<owner, live, secrets>> /\ \A i \in Instances : run'[i] = None
      BY <1>7 DEF Restart
    <3>2. None \notin Tokens
      BY SessionAssumption DEF Tokens
    <3> QED BY <2>2, <3>1, <3>2 DEF Typed, Owned, Same
  <2>8. Sent'
    BY <1>7, <2>2 DEF Restart, Typed, TypeOK, Sent, Same, Request
  <2> QED BY <2>6, <2>7, <2>8 DEF Typed
<1> QED BY <1>1, <1>2, <1>3, <1>4, <1>5, <1>6, <1>7 DEF UserStep

\* No step leaves the typed states.
LEMMA TypedStep ==
    Typed /\ [Next]_vars => Typed'
<1>1. CASE UNCHANGED vars
  BY <1>1 DEF vars, Typed, TypeOK, Owned, Sent
<1> QED BY <1>1, TypedServer, TypedCalls, TypedRuns, TypedUser DEF Next

\* Every reachable state is typed.
LEMMA AlwaysTyped ==
    Spec => []Typed
BY TypedInit, TypedStep, PTL DEF Spec

\* The tables, the network, the calls and the sessions always keep their shapes.
THEOREM TypeCorrect ==
    Spec => []TypeOK
<1>1. Typed => TypeOK
  BY DEF Typed
<1> QED BY <1>1, AlwaysTyped, PTL

-----------------------------------------------------------------------------
(* Who changes what.                                                       *)

\* Only the server changes its tables.
LEMMA ServerAlone ==
    ASSUME CallStep \/ StartRun \/ UserStep \/ \E i \in alive : RunStep(i)
    PROVE  UNCHANGED server
<1>1. CASE CallStep
  BY <1>1 DEF CallStep, StartPairing, StartRotation, AttemptFails, Paired, Rotated, Refused
<1>2. CASE StartRun
  BY <1>2 DEF StartRun
<1>3. CASE UserStep
  BY <1>3 DEF UserStep, PreviewInitialSync, PreviewEnds, ApproveInitialSync, Pause, Resume,
              CancelSync, SavePluginData, Reload, Restart
<1>4. CASE \E i \in alive : RunStep(i)
  BY <1>4 DEF RunStep, RunWorks, RunCompletes, RunStops, RunRefused, RunFails
<1> QED BY <1>1, <1>2, <1>3, <1>4

\* The server changes nothing of the plugin but the answers.
LEMMA PluginAlone ==
    ASSUME ServerStep
    PROVE  UNCHANGED <<secrets, saved, plugin, confirmed, crossed>>
BY DEF ServerStep, PairDevice, AuthenticateToken, RotateToken, SetDeviceStatus, CodeExpires,
       history

\* What the server may change, and how.
LEMMA ServerMoves ==
    ASSUME Typed, ServerStep
    PROVE  \/ /\ UNCHANGED <<codes, status, pairedBy, owner, live>>
           \/ \E d \in Devices, t \in Tokens, c \in Codes :     \* PairDevice
                /\ status[d] = "none" /\ owner[t] = None /\ codes[c] = "open"
                /\ status' = [status EXCEPT ![d] = "active"]
                /\ pairedBy' = [pairedBy EXCEPT ![d] = c]
                /\ owner' = [owner EXCEPT ![t] = d]
                /\ live' = live \cup {t}
                /\ codes' = [codes EXCEPT ![c] = "used"]
           \/ \E old, t \in Tokens :                            \* RotateToken
                /\ old \in live /\ owner[t] = None
                /\ owner' = [owner EXCEPT ![t] = owner[old]]
                /\ live' = (live \ {old}) \cup {t}
                /\ UNCHANGED <<codes, status, pairedBy>>
           \/ \E d \in Devices, s \in {"retired", "revoked"} :  \* SetDeviceStatus
                /\ status' = [status EXCEPT ![d] = s]
                /\ live' = {t \in live : owner[t] # d}
                /\ UNCHANGED <<codes, pairedBy, owner>>
           \/ \E c \in Codes :                                  \* CodeExpires
                /\ codes' = [codes EXCEPT ![c] = "expired"]
                /\ UNCHANGED <<status, pairedBy, owner, live>>
<1>1. ASSUME NEW r \in net, PairDevice(r)
      PROVE  \/ UNCHANGED server
             \/ \E d \in Devices, t \in Tokens, c \in Codes :
                  /\ status[d] = "none" /\ owner[t] = None /\ codes[c] = "open"
                  /\ status' = [status EXCEPT ![d] = "active"]
                  /\ pairedBy' = [pairedBy EXCEPT ![d] = c]
                  /\ owner' = [owner EXCEPT ![t] = d]
                  /\ live' = live \cup {t}
                  /\ codes' = [codes EXCEPT ![c] = "used"]
  <2> DEFINE c == calls[r.call].key
  <2>1. c \in Codes
    BY <1>1, CallFields DEF Typed, TypeOK, Sent, Request, PairDevice
  <2>2. CASE UNCHANGED server
    BY <2>2
  <2>3. CASE ~UNCHANGED server
    <3>1. PICK d \in NextOf(Devices, {e \in Devices : status[e] # "none"}),
               t \in NextOf(Tokens, {u \in Tokens : owner[u] # None}) :
            /\ Redeemable(c)
            /\ status' = [status EXCEPT ![d] = "active"]
            /\ pairedBy' = [pairedBy EXCEPT ![d] = c]
            /\ owner' = [owner EXCEPT ![t] = d]
            /\ live' = live \cup {t}
            /\ codes' = [codes EXCEPT ![c] = "used"]
      BY <1>1, <2>3 DEF PairDevice
    <3>2. d \in Devices /\ status[d] = "none" /\ t \in Tokens /\ owner[t] = None
      BY NextIsFree
    <3>3. codes[c] = "open"
      BY <3>1 DEF Redeemable
    <3> HIDE DEF c
    <3> QED BY <2>1, <3>1, <3>2, <3>3
  <2> QED BY <2>2, <2>3
<1>2. ASSUME NEW r \in net, RotateToken(r)
      PROVE  \/ UNCHANGED server
             \/ \E old, t \in Tokens :
                  /\ old \in live /\ owner[t] = None
                  /\ owner' = [owner EXCEPT ![t] = owner[old]]
                  /\ live' = (live \ {old}) \cup {t}
                  /\ UNCHANGED <<codes, status, pairedBy>>
  <2> DEFINE old == calls[r.call].key
  <2>1. old \in Tokens
    BY <1>2, CallFields DEF Typed, TypeOK, Sent, Request, RotateToken
  <2>2. UNCHANGED <<codes, status, pairedBy>>
    BY <1>2 DEF RotateToken
  <2>3. CASE UNCHANGED <<owner, live>>
    BY <2>2, <2>3 DEF server
  <2>4. CASE ~UNCHANGED <<owner, live>>
    <3>1. PICK t \in NextOf(Tokens, {u \in Tokens : owner[u] # None}) :
            /\ Rotatable(old)
            /\ owner' = [owner EXCEPT ![t] = owner[old]]
            /\ live' = (live \ {old}) \cup {t}
      BY <1>2, <2>4 DEF RotateToken
    <3>2. t \in Tokens /\ owner[t] = None
      BY NextIsFree
    <3>3. old \in live
      BY <3>1 DEF Rotatable
    <3> HIDE DEF old
    <3> QED BY <2>1, <2>2, <3>1, <3>2, <3>3
  <2> QED BY <2>3, <2>4
<1>3. ASSUME NEW r \in net, AuthenticateToken(r)
      PROVE  UNCHANGED server
  BY <1>3 DEF AuthenticateToken
<1>4. ASSUME NEW d \in Devices, SetDeviceStatus(d)
      PROVE  \E s \in {"retired", "revoked"} :
                /\ status' = [status EXCEPT ![d] = s]
                /\ live' = {t \in live : owner[t] # d}
                /\ UNCHANGED <<codes, pairedBy, owner>>
  BY <1>4 DEF SetDeviceStatus
<1>5. ASSUME NEW c \in Codes, CodeExpires(c)
      PROVE  /\ codes' = [codes EXCEPT ![c] = "expired"]
             /\ UNCHANGED <<status, pairedBy, owner, live>>
  BY <1>5 DEF CodeExpires
<1> QED BY <1>1, <1>2, <1>3, <1>4, <1>5 DEF ServerStep, server

-----------------------------------------------------------------------------
(* One live token per device.                                              *)

\* Issuing, rotating and revoking tokens leave one at most to a device.
LEMMA OneLiveTokenStep ==
    ASSUME Typed, OneLiveToken, [Next]_vars
    PROVE  OneLiveToken'
<1>1. CASE UNCHANGED server
  BY <1>1 DEF server, OneLiveToken
<1>2. CASE ServerStep
  <2>1. CASE UNCHANGED <<codes, status, pairedBy, owner, live>>
    BY <2>1 DEF OneLiveToken
  <2>2. ASSUME NEW d \in Devices, NEW t \in Tokens,
               /\ status[d] = "none" /\ owner[t] = None
               /\ status' = [status EXCEPT ![d] = "active"]
               /\ owner' = [owner EXCEPT ![t] = d]
               /\ live' = live \cup {t}
        PROVE  OneLiveToken'
    <3>1. owner'[t] = d /\ \A u \in live : u # t /\ owner'[u] = owner[u]
      BY <2>2, OwnerGrows DEF Typed, TypeOK, Owned
    <3>2. \A u \in live : owner[u] # d
      BY <2>2 DEF OneLiveToken
    <3>3. \A u \in live : owner[u] \in Devices
      BY DEF Typed, TypeOK, Owned
    <3>4. status'[d] = "active" /\ \A u \in live : status'[owner[u]] = status[owner[u]]
      BY <2>2, <3>2, <3>3 DEF Typed, TypeOK
    <3> QED BY <2>2, <3>1, <3>2, <3>4 DEF OneLiveToken
  <2>3. ASSUME NEW old \in Tokens, NEW t \in Tokens,
               /\ old \in live /\ owner[t] = None
               /\ owner' = [owner EXCEPT ![t] = owner[old]]
               /\ live' = (live \ {old}) \cup {t}
               /\ UNCHANGED status
        PROVE  OneLiveToken'
    <3>1. owner[old] \in Devices
      BY <2>3 DEF Typed, TypeOK, Owned
    <3>2. owner'[t] = owner[old] /\ \A u \in live : u # t /\ owner'[u] = owner[u]
      BY <2>3, <3>1, OwnerGrows DEF Typed, TypeOK, Owned
    <3> QED BY <2>3, <3>2 DEF OneLiveToken
  <2>4. ASSUME NEW d \in Devices, NEW s \in {"retired", "revoked"},
               /\ status' = [status EXCEPT ![d] = s]
               /\ live' = {t \in live : owner[t] # d}
               /\ UNCHANGED owner
        PROVE  OneLiveToken'
    <3>1. \A u \in live' : u \in live /\ owner[u] # d
      BY <2>4
    <3>2. \A u \in live' : status'[owner[u]] = status[owner[u]]
      BY <2>4, <3>1 DEF Typed, TypeOK, Owned
    <3> QED BY <2>4, <3>1, <3>2 DEF OneLiveToken
  <2> QED BY <1>2, <2>1, <2>2, <2>3, <2>4, ServerMoves DEF OneLiveToken
<1> QED BY <1>1, <1>2, ServerAlone DEF Next, vars, server

\* A device always has one token at most that the server takes.
THEOREM OneTokenPerDevice ==
    Spec => []OneLiveToken
<1>1. Init => OneLiveToken
  <2> SUFFICES ASSUME Init PROVE OneLiveToken
    OBVIOUS
  <2>1. 1 \in Devices /\ 1 \in Tokens
    BY SessionAssumption DEF Devices, Tokens
  <2>2. CASE live = {}
    BY <2>2 DEF OneLiveToken
  <2>3. CASE live = {1}
    <3>1. owner[1] = 1 /\ status[1] = "active"
      BY <2>1, <2>3 DEF Init
    <3> QED BY <2>3, <3>1 DEF OneLiveToken
  <2> QED BY <2>2, <2>3 DEF Init
<1>2. Typed /\ OneLiveToken /\ [Next]_vars => OneLiveToken'
  BY OneLiveTokenStep
<1> QED BY <1>1, <1>2, AlwaysTyped, PTL DEF Spec

-----------------------------------------------------------------------------
(* One device per code.                                                    *)

\* A code that has made a device is not open again.
CodesUsed ==
    /\ CodePairsOnce
    /\ \A d \in Devices : pairedBy[d] # None => codes[pairedBy[d]] # "open"

\* Pairing uses up the code, and nothing opens one.
LEMMA CodesUsedStep ==
    ASSUME Typed, CodesUsed, [Next]_vars
    PROVE  CodesUsed'
<1>1. CASE UNCHANGED server
  BY <1>1 DEF server, CodesUsed, CodePairsOnce
<1>2. CASE ServerStep
  <2>1. CASE UNCHANGED <<codes, pairedBy>>
    BY <2>1 DEF CodesUsed, CodePairsOnce
  <2>2. ASSUME NEW d \in Devices, NEW c \in Codes, codes[c] = "open",
               pairedBy' = [pairedBy EXCEPT ![d] = c],
               codes' = [codes EXCEPT ![c] = "used"]
        PROVE  CodesUsed'
    <3>1. \A e \in Devices : pairedBy[e] # c \/ c = None
      BY <2>2 DEF CodesUsed
    <3>2. c # None
      BY SessionAssumption DEF Codes
    <3>3. \A e \in Devices : pairedBy'[e] = IF e = d THEN c ELSE pairedBy[e]
      BY <2>2 DEF Typed, TypeOK
    <3>4. \A b \in Codes : codes'[b] = IF b = c THEN "used" ELSE codes[b]
      BY <2>2 DEF Typed, TypeOK
    <3>5. \A e \in Devices : pairedBy[e] \in Codes \cup {None}
      BY DEF Typed, TypeOK
    <3> QED BY <3>1, <3>2, <3>3, <3>4, <3>5 DEF CodesUsed, CodePairsOnce
  <2>3. ASSUME NEW c \in Codes, codes' = [codes EXCEPT ![c] = "expired"],
               UNCHANGED pairedBy
        PROVE  CodesUsed'
    <3>1. \A b \in Codes : codes'[b] \in {codes[b], "expired"}
      BY <2>3 DEF Typed, TypeOK
    <3>2. \A e \in Devices : pairedBy[e] \in Codes \cup {None}
      BY DEF Typed, TypeOK
    <3> QED BY <2>3, <3>1, <3>2 DEF CodesUsed, CodePairsOnce
  <2> QED BY <1>2, <2>1, <2>2, <2>3, ServerMoves
<1> QED BY <1>1, <1>2, ServerAlone DEF Next, vars, server

\* A code never makes two devices, however often its request arrives.
THEOREM CodesPairOnce ==
    Spec => []CodePairsOnce
<1>1. Init => CodesUsed
  BY DEF Init, CodesUsed, CodePairsOnce
<1>2. Typed /\ CodesUsed /\ [Next]_vars => CodesUsed'
  BY CodesUsedStep
<1>3. CodesUsed => CodePairsOnce
  BY DEF CodesUsed
<1> QED BY <1>1, <1>2, <1>3, AlwaysTyped, PTL DEF Spec

-----------------------------------------------------------------------------
(* What a run was confirmed for.                                           *)

\* Data that lets a run begin is of a device that was confirmed.
Cleared(d) == d.mode \/ d.completed => d.device \in confirmed \cup crossed

\* What an instance holds about device d is of its pairing, or that is crossed.
OfPairing(d, i) == d = mem[i].device \/ mem[i].device \in crossed

\* What a living instance remembers, shows and runs was confirmed; what is on
\* the disk was too, but for an older schema.
Confirmation ==
    /\ \A i \in alive :
          /\ i <= cur
          /\ Cleared(mem[i])
          /\ preview[i] # None => OfPairing(preview[i], i)
          /\ run[i] # None => /\ run[i].device \in confirmed \cup crossed
                              /\ OfPairing(run[i].device, i)
    /\ \A i \in Instances : i > cur => run[i] = None /\ preview[i] = None
    /\ saved.schema = "current" => Cleared(saved)

\* Nothing is unconfirmed at the start.
LEMMA ConfirmationInit ==
    Init => Confirmation
<1> SUFFICES ASSUME Init PROVE Confirmation
  OBVIOUS
<1>1. 1 \in Instances
  BY SessionAssumption DEF Instances
<1>2. saved.schema = "current" => saved = Blank
  BY DEF Init, Blank
<1>3. ~Blank.mode /\ ~Blank.completed
  BY DEF Blank
<1>4. Migrated(saved) = Blank
  BY <1>2 DEF Migrated
<1>5. Cleared(mem[1])
  BY <1>1, <1>3, <1>4 DEF Init, Cleared
<1>6. saved.schema = "current" => Cleared(saved)
  BY <1>2, <1>3 DEF Cleared
<1> QED BY <1>1, <1>5, <1>6 DEF Init, Confirmation

\* A step that leaves the plugin and the disk alone confirms no less.
LEMMA ConfirmationFrame ==
    ASSUME Confirmation, UNCHANGED <<saved, plugin, confirmed, crossed>>
    PROVE  Confirmation'
BY DEF Confirmation, Cleared, OfPairing, plugin

\* Calls keep the confirmation: a pairing starts without one.
LEMMA ConfirmationCalls ==
    ASSUME Typed, Confirmation, CallStep
    PROVE  Confirmation'
<1>1. ASSUME NEW k \in Calls, Paired(k)
      PROVE  Confirmation'
  <2> DEFINE i == calls[k].inst
             d == owner[calls[k].answer]
  <2>1. calls[k] # None /\ i \in Instances /\ calls[k].answer \in Tokens
    BY <1>1, CallFields DEF Paired, Waiting, Typed
  <2>2. /\ mem' = [mem EXCEPT ![i] = Repaired(@, d)]
        /\ saved' = mem'[i]
        /\ crossed' = IF Busy(i) THEN crossed \cup {d} ELSE crossed
        /\ UNCHANGED <<run, preview, alive, cur, confirmed>>
    BY <1>1 DEF Paired, plugin, history
  <2>3. mem[i] \in Data
    BY <2>1 DEF Typed, TypeOK
  <2>4. /\ Repaired(mem[i], d).device = d
        /\ ~Repaired(mem[i], d).mode /\ ~Repaired(mem[i], d).completed
    BY <2>3 DEF Repaired, Data
  <2>5. mem'[i] = Repaired(mem[i], d) /\ \A j \in Instances \ {i} : mem'[j] = mem[j]
    BY <2>1, <2>2 DEF Typed, TypeOK
  <2>6. run[i] # None \/ preview[i] # None => d \in crossed'
    BY <2>2 DEF Busy
  <2> HIDE DEF i, d
  <2>7. ASSUME NEW j \in alive
        PROVE  /\ Cleared(mem[j])'
               /\ preview'[j] # None => OfPairing(preview[j], j)'
               /\ run'[j] # None => /\ run'[j].device \in (confirmed \cup crossed)'
                                    /\ OfPairing(run[j].device, j)'
    <3>1. j \in Instances
      BY DEF Typed, TypeOK
    <3>2. CASE j = i
      BY <2>2, <2>4, <2>5, <2>6, <3>2 DEF Confirmation, Cleared, OfPairing
    <3>3. CASE j # i
      BY <2>2, <2>5, <3>1, <3>3 DEF Confirmation, Cleared, OfPairing
    <3> QED BY <3>2, <3>3
  <2>8. Cleared(saved)'
    BY <2>2, <2>4, <2>5 DEF Cleared
  <2> QED BY <2>2, <2>7, <2>8 DEF Confirmation
<1>2. CASE \/ \E c \in Codes : StartPairing(c)
           \/ StartRotation
           \/ \E k \in Calls : AttemptFails(k) \/ Rotated(k) \/ Refused(k)
  <2>1. UNCHANGED <<saved, plugin, confirmed, crossed>>
    BY <1>2 DEF StartPairing, StartRotation, AttemptFails, Rotated, Refused, history
  <2> QED BY <2>1, ConfirmationFrame
<1> QED BY <1>1, <1>2 DEF CallStep

\* What a run leaves in memory is data of the same device.
LEMMA WroteFields ==
    ASSUME Typed, NEW i \in Instances
    PROVE  /\ Wrote(i).device = mem[i].device
           /\ Wrote(i).mode = mem[i].mode
           /\ Wrote(i).completed = mem[i].completed
           /\ [Wrote(i) EXCEPT !.completed = TRUE, !.mode = FALSE].device = mem[i].device
           /\ Wrote(i).source = mem[i].source \cup {owner[run[i].token]}
           /\ [Wrote(i) EXCEPT !.completed = TRUE, !.mode = FALSE].source = Wrote(i).source
<1>1. mem[i] \in Data
  BY DEF Typed, TypeOK
<1> QED BY <1>1 DEF Wrote, Data

\* Runs keep the confirmation: what completes is of the pairing or is crossed.
LEMMA ConfirmationRuns ==
    ASSUME Typed, Confirmation, StartRun \/ \E i \in alive : RunStep(i)
    PROVE  Confirmation'
<1>1. CASE StartRun
  <2>1. cur \in Instances /\ cur \in alive
    BY DEF Typed, TypeOK
  <2>2. mem[cur].device \in confirmed \cup crossed
    BY <1>1, <2>1 DEF StartRun, Confirmation, Cleared
  <2> DEFINE r == [device |-> mem[cur].device, token |-> secrets[mem[cur].device],
                   initial |-> ~mem[cur].completed]
  <2>3. run' = [run EXCEPT ![cur] = r] /\ r.device = mem[cur].device
    BY <1>1 DEF StartRun
  <2> HIDE DEF r
  <2>4. run'[cur] = r /\ \A j \in Instances \ {cur} : run'[j] = run[j]
    BY <2>1, <2>3 DEF Typed, TypeOK
  <2>5. UNCHANGED <<saved, mem, preview, alive, cur, confirmed, crossed>>
    BY <1>1 DEF StartRun, history
  <2>6. ~(cur > cur)
    BY <2>1 DEF Instances
  <2>7. ASSUME NEW j \in alive
        PROVE  run'[j] # None => /\ run'[j].device \in (confirmed \cup crossed)'
                                 /\ OfPairing(run[j].device, j)'
    <3>1. CASE j = cur
      BY <2>2, <2>3, <2>4, <2>5, <3>1 DEF OfPairing
    <3>2. CASE j # cur
      <4>1. run'[j] = run[j]
        BY <2>4, <3>2 DEF Typed, TypeOK
      <4> QED BY <2>5, <4>1 DEF Confirmation, OfPairing
    <3> QED BY <3>1, <3>2
  <2>8. \A j \in Instances : j > cur => run'[j] = None
    BY <2>4, <2>6 DEF Confirmation
  <2> QED BY <2>5, <2>7, <2>8 DEF Confirmation, Cleared, OfPairing
<1>2. ASSUME NEW i \in alive, RunStep(i)
      PROVE  Confirmation'
  <2>1. i \in Instances /\ run[i] # None
    BY <1>2 DEF Typed, TypeOK, RunStep, RunWorks, RunCompletes, RunStops, RunRefused,
                RunFails, Served
  <2>2. UNCHANGED <<preview, alive, cur, confirmed, crossed>> /\ saved' = mem'[i]
    BY <1>2 DEF RunStep, RunWorks, RunCompletes, RunStops, RunRefused, RunFails, RunEnds,
                history
  <2>3. \A j \in Instances : run'[j] \in {run[j], None}
    <3>1. UNCHANGED run \/ RunEnds(i)
      BY <1>2 DEF RunStep, RunWorks, RunCompletes, RunStops, RunRefused, RunFails
    <3> QED BY <2>1, <3>1, RunEnded DEF Typed
  <2>4. /\ \A j \in Instances \ {i} : mem'[j] = mem[j]
        /\ mem'[i].device = mem[i].device
        /\ Cleared(mem[i])'
    <3>1. CASE RunWorks(i)
      <4>1. mem'[i] = Wrote(i) /\ \A j \in Instances \ {i} : mem'[j] = mem[j]
        BY <2>1, <3>1 DEF RunWorks, Typed, TypeOK
      <4> QED BY <2>1, <2>2, <4>1, WroteFields DEF Cleared, Confirmation
    <3>2. CASE RunCompletes(i)
      <4>1. /\ mem'[i] \in {Wrote(i), [Wrote(i) EXCEPT !.completed = TRUE, !.mode = FALSE]}
            /\ \A j \in Instances \ {i} : mem'[j] = mem[j]
        BY <2>1, <3>2 DEF RunCompletes, Typed, TypeOK
      <4>2. mem'[i].device = mem[i].device
        BY <2>1, <4>1, WroteFields
      <4>3. mem[i].device \in confirmed \cup crossed
        BY <2>1 DEF Confirmation, OfPairing
      <4> QED BY <2>2, <4>1, <4>2, <4>3 DEF Cleared
    <3>3. CASE RunStops(i) \/ RunRefused(i) \/ RunFails(i)
      <4>1. UNCHANGED mem
        BY <3>3 DEF RunStops, RunRefused, RunFails
      <4> QED BY <2>2, <4>1 DEF Confirmation, Cleared
    <3> QED BY <1>2, <3>1, <3>2, <3>3 DEF RunStep
  <2>5. ASSUME NEW j \in alive
        PROVE  /\ Cleared(mem[j])'
               /\ preview'[j] # None => OfPairing(preview[j], j)'
               /\ run'[j] # None => /\ run'[j].device \in (confirmed \cup crossed)'
                                    /\ OfPairing(run[j].device, j)'
    <3>1. j \in Instances /\ mem'[j].device = mem[j].device
      BY <2>4 DEF Typed, TypeOK
    <3>2. Cleared(mem[j])'
      BY <2>2, <2>4, <3>1 DEF Confirmation, Cleared
    <3> QED BY <2>2, <2>3, <3>1, <3>2 DEF Confirmation, OfPairing
  <2>6. \A j \in Instances : j > cur => run'[j] = None
    BY <2>3 DEF Confirmation
  <2>7. Cleared(saved)'
    BY <2>2, <2>4 DEF Cleared
  <2> QED BY <2>2, <2>5, <2>6, <2>7 DEF Confirmation
<1> QED BY <1>1, <1>2

\* A load is of an instance that has done nothing, with what the disk clears.
LEMMA ConfirmationLoad ==
    ASSUME Typed, Confirmation, Load, alive' \subseteq alive \cup {cur'},
           \A i \in Instances : run'[i] \in {run[i], None},
           UNCHANGED <<confirmed, crossed>>
    PROVE  Confirmation'
<1>1. /\ cur \in Instances /\ cur' \in Instances /\ cur' = cur + 1
      /\ mem'[cur'] = Migrated(saved) /\ saved' = Migrated(saved)
      /\ \A i \in Instances \ {cur'} : mem'[i] = mem[i]
  BY Loaded DEF Typed, TypeOK
<1>2. preview' = [preview EXCEPT ![cur] = None]
  BY DEF Load
<1>3. \A i \in Instances : preview'[i] \in {preview[i], None}
  BY <1>2 DEF Typed, TypeOK
<1>4. \A i \in Instances : i <= cur => i <= cur' /\ i # cur'
  BY <1>1 DEF Instances
<1>5. \A i \in Instances : i > cur' => i > cur
  BY <1>1 DEF Instances
<1>6. cur' > cur /\ cur' <= cur'
  BY <1>1 DEF Instances
<1>7. Cleared(Migrated(saved))
  BY DEF Migrated, Confirmation, Cleared, Blank
<1>8. run'[cur'] = None /\ preview'[cur'] = None
  BY <1>1, <1>3, <1>6 DEF Confirmation
<1>9. ASSUME NEW j \in alive'
      PROVE  /\ j <= cur'
             /\ Cleared(mem[j])'
             /\ preview'[j] # None => OfPairing(preview[j], j)'
             /\ run'[j] # None => /\ run'[j].device \in (confirmed \cup crossed)'
                                  /\ OfPairing(run[j].device, j)'
  <2>1. CASE j = cur'
    BY <1>1, <1>6, <1>7, <1>8, <2>1 DEF Cleared
  <2>2. CASE j # cur'
    <3>1. j \in alive /\ j \in Instances
      BY <2>2 DEF Typed, TypeOK
    <3>2. j <= cur' /\ mem'[j] = mem[j]
      BY <1>1, <1>4, <2>2, <3>1 DEF Confirmation
    <3>3. Cleared(mem[j])'
      BY <3>1, <3>2 DEF Confirmation, Cleared
    <3> QED BY <1>3, <3>1, <3>2, <3>3 DEF Confirmation, OfPairing
  <2> QED BY <2>1, <2>2
<1>10. \A i \in Instances : i > cur' => run'[i] = None /\ preview'[i] = None
  BY <1>3, <1>5 DEF Confirmation
<1>11. Cleared(saved)'
  BY <1>1, <1>7 DEF Cleared
<1> QED BY <1>9, <1>10, <1>11 DEF Confirmation

\* Users and Obsidian keep the confirmation; only ApproveInitialSync gives one.
LEMMA ConfirmationUser ==
    ASSUME Typed, Confirmation, UserStep
    PROVE  Confirmation'
<1>0. cur \in Instances /\ cur \in alive /\ mem[cur] \in Data /\ ~(cur > cur)
  BY DEF Typed, TypeOK, Instances
<1>1. CASE PreviewInitialSync
  <2>1. /\ preview' = [preview EXCEPT ![cur] = mem[cur].device]
        /\ UNCHANGED <<saved, mem, run, alive, cur, confirmed, crossed>>
    BY <1>1 DEF PreviewInitialSync, history
  <2>2. \A j \in Instances : preview'[j] = IF j = cur THEN mem[cur].device ELSE preview[j]
    BY <2>1 DEF Typed, TypeOK
  <2>3. \A j \in alive : j \in Instances
    BY DEF Typed, TypeOK
  <2> QED BY <1>0, <2>1, <2>2, <2>3 DEF Confirmation, Cleared, OfPairing
<1>2. CASE PreviewEnds
  <2>1. /\ preview' = [preview EXCEPT ![cur] = None]
        /\ UNCHANGED <<saved, mem, run, alive, cur, confirmed, crossed>>
    BY <1>2 DEF PreviewEnds, history
  <2>2. \A j \in Instances : preview'[j] \in {preview[j], None}
    BY <2>1 DEF Typed, TypeOK
  <2>3. \A j \in alive : j \in Instances
    BY DEF Typed, TypeOK
  <2> QED BY <2>1, <2>2, <2>3 DEF Confirmation, Cleared, OfPairing
<1>3. CASE ApproveInitialSync
  <2>1. /\ preview[cur] # None
        /\ preview' = [preview EXCEPT ![cur] = None]
        /\ mem' = [mem EXCEPT ![cur].mode = TRUE]
        /\ saved' = mem'[cur]
        /\ confirmed' = confirmed \cup {preview[cur]}
        /\ UNCHANGED <<run, alive, cur, crossed>>
    BY <1>3 DEF ApproveInitialSync
  <2>2. \A j \in Instances : preview'[j] \in {preview[j], None}
    BY <2>1 DEF Typed, TypeOK
  <2>3. /\ mem'[cur].device = mem[cur].device
        /\ \A j \in Instances : mem'[j].device = mem[j].device
        /\ \A j \in Instances \ {cur} : mem'[j] = mem[j]
    BY <1>0, <2>1 DEF Typed, TypeOK, Data
  <2>4. Cleared(mem[cur])'
    BY <1>0, <2>1, <2>3 DEF Confirmation, Cleared, OfPairing
  <2>5. ASSUME NEW j \in alive
        PROVE  /\ Cleared(mem[j])'
               /\ preview'[j] # None => OfPairing(preview[j], j)'
               /\ run'[j] # None => /\ run'[j].device \in (confirmed \cup crossed)'
                                    /\ OfPairing(run[j].device, j)'
    <3>1. j \in Instances
      BY DEF Typed, TypeOK
    <3>2. Cleared(mem[j])'
      BY <2>1, <2>3, <2>4, <3>1 DEF Confirmation, Cleared
    <3> QED BY <2>1, <2>2, <2>3, <3>1, <3>2 DEF Confirmation, OfPairing
  <2>6. Cleared(saved)'
    BY <2>1, <2>4 DEF Cleared
  <2>7. \A j \in Instances : j > cur => run'[j] = None /\ preview'[j] = None
    BY <2>1, <2>2 DEF Confirmation
  <2> QED BY <2>1, <2>5, <2>6, <2>7 DEF Confirmation
<1>4. CASE Pause \/ Resume
  <2>1. /\ \E b \in BOOLEAN : mem' = [mem EXCEPT ![cur].paused = b]
        /\ saved' = mem'[cur]
        /\ UNCHANGED <<run, preview, alive, cur, confirmed, crossed>>
    BY <1>4 DEF Pause, Resume, history
  <2>2. \A j \in Instances : /\ mem'[j].device = mem[j].device
                             /\ mem'[j].mode = mem[j].mode
                             /\ mem'[j].completed = mem[j].completed
    BY <1>0, <2>1 DEF Typed, TypeOK, Data
  <2>3. \A j \in alive : j \in Instances /\ Cleared(mem[j])'
    BY <2>1, <2>2 DEF Typed, TypeOK, Confirmation, Cleared
  <2>4. Cleared(saved)'
    BY <1>0, <2>1, <2>3 DEF Cleared
  <2> QED BY <2>1, <2>2, <2>3, <2>4 DEF Confirmation, OfPairing
<1>5. CASE CancelSync
  BY <1>5 DEF CancelSync, history, Confirmation, Cleared, OfPairing
<1>6. CASE SavePluginData
  BY <1>0, <1>6 DEF SavePluginData, plugin, history, Confirmation, Cleared, OfPairing
<1>7. CASE Reload \/ Restart
  <2>1. /\ Load
        /\ alive' \subseteq alive \cup {cur'}
        /\ UNCHANGED <<confirmed, crossed>>
    BY <1>7 DEF Reload, Restart, history
  <2>2. \A i \in Instances : run'[i] \in {run[i], None}
    BY <1>7 DEF Reload, Restart
  <2> QED BY <2>1, <2>2, ConfirmationLoad
<1> QED BY <1>1, <1>2, <1>3, <1>4, <1>5, <1>6, <1>7 DEF UserStep

\* No step leaves the confirmed states.
LEMMA ConfirmationStep ==
    Typed /\ Confirmation /\ [Next]_vars => Confirmation'
<1>1. CASE UNCHANGED vars
  BY <1>1, ConfirmationFrame DEF vars, plugin
<1>2. ASSUME Confirmation, ServerStep
      PROVE  Confirmation'
  BY <1>2, PluginAlone, ConfirmationFrame
<1> QED BY <1>1, <1>2, ConfirmationCalls, ConfirmationRuns, ConfirmationUser DEF Next

\* What is kept and run is always confirmed.
LEMMA AlwaysConfirmed ==
    Spec => []Confirmation
BY ConfirmationInit, ConfirmationStep, AlwaysTyped, PTL DEF Spec

\* No run ever writes for a device whose own preview nobody confirmed, unless
\* it was paired amid a run or a preview of another.
THEOREM WorkConfirmed ==
    Spec => []WorkIsConfirmed
<1>1. Confirmation => WorkIsConfirmed
  BY DEF Confirmation, WorkIsConfirmed
<1> QED BY <1>1, AlwaysConfirmed, PTL

-----------------------------------------------------------------------------
(* One pairing per sync state.                                             *)

\* Token t is of device d, or d was paired amid older work.
Own(t, d) == owner[t] = d \/ d \in crossed

\* A rotation under way is of the pairing it will be stored for, and its answer
\* is a token of the same device.
RotationOwned(k) ==
    /\ calls[k].inst \in alive
    /\ Own(calls[k].key, mem[calls[k].inst].device)
    /\ calls[k].answer \in Tokens => owner[calls[k].answer] = owner[calls[k].key]

Rotating(k) == Waiting(k) /\ calls[k].kind = "rotate"

\* What is stored and what works belongs to the device it is stored for.
Pairing ==
    /\ StateIsOfOnePairing
    /\ \A d \in Devices : secrets[d] # None => Own(secrets[d], d)
    /\ \A i \in alive : run[i] # None => Own(run[i].token, run[i].device)
    /\ \A k \in Calls : Rotating(k) => RotationOwned(k)

\* Nothing is mixed at the start.
LEMMA PairingInit ==
    Init => Pairing
<1> SUFFICES ASSUME Init PROVE Pairing
  OBVIOUS
<1>1. 1 \in Instances /\ 1 \in Devices /\ 1 \in Tokens
  BY SessionAssumption DEF Instances, Devices, Tokens
<1>2. saved = Blank \/ (saved.schema = "older" /\ saved.device = 1 /\ saved.source = {1})
  BY DEF Init, Blank
<1>3. Blank.source = {}
  BY DEF Blank
<1>4. mem[1] = Blank
  <2>1. Migrated(saved) = Blank
    BY <1>2 DEF Migrated, Blank
  <2> QED BY <1>1, <2>1 DEF Init
<1>5. StateIsOfOnePairing
  BY <1>1, <1>2, <1>3, <1>4 DEF Init, StateIsOfOnePairing
<1>6. \A d \in Devices : secrets[d] # None => Own(secrets[d], d)
  BY <1>1 DEF Init, Own
<1>7. \A k \in Calls : ~Rotating(k)
  BY DEF Init, Rotating, Waiting
<1> QED BY <1>1, <1>5, <1>6, <1>7 DEF Init, Pairing

\* A step that does no more than end calls and runs mixes nothing.
LEMMA PairingFrame ==
    ASSUME Typed, Pairing, UNCHANGED <<owner, secrets, saved, mem, alive, crossed>>,
           \A i \in Instances : run'[i] \in {run[i], None},
           \A k \in Calls : Rotating(k)' =>
              /\ Rotating(k) /\ Same(k)
              /\ calls'[k].answer \in {calls[k].answer, None, Denied}
    PROVE  Pairing'
<1>1. None \notin Tokens /\ Denied \notin Tokens
  BY SessionAssumption DEF Tokens
<1>2. \A i \in alive : i \in Instances
  BY DEF Typed, TypeOK
<1>3. StateIsOfOnePairing'
  BY DEF Pairing, StateIsOfOnePairing
<1>4. \A k \in Calls : Rotating(k)' => RotationOwned(k)'
  BY <1>1 DEF Pairing, RotationOwned, Own, Same
<1> QED BY <1>2, <1>3, <1>4 DEF Pairing, Own

\* A token that the server issues takes nothing from those that are.
LEMMA PairingIssued ==
    ASSUME Typed, Pairing, NEW t \in Tokens, owner[t] = None, NEW d \in Devices,
           owner' = [owner EXCEPT ![t] = d],
           UNCHANGED <<secrets, saved, mem, alive, crossed, run>>,
           \A k \in Calls : Rotating(k)' =>
              /\ Rotating(k) /\ Same(k)
              /\ \/ calls'[k].answer = calls[k].answer
                 \/ calls'[k].answer = t /\ owner[calls[k].key] = d
    PROVE  Pairing'
<1>1. /\ owner'[t] = d
      /\ \A u \in Tokens : owner[u] # None => owner'[u] = owner[u]
  BY OwnerGrows DEF Typed
<1>2. StateIsOfOnePairing'
  BY DEF Pairing, StateIsOfOnePairing
<1>3. ASSUME NEW e \in Devices, secrets'[e] # None
      PROVE  Own(secrets[e], e)'
  <2>1. secrets[e] \in Tokens /\ owner[secrets[e]] # None
    BY <1>3 DEF Typed, TypeOK, Owned
  <2> QED BY <1>1, <1>3, <2>1 DEF Pairing, Own
<1>4. ASSUME NEW i \in alive', run'[i] # None
      PROVE  Own(run[i].token, run[i].device)'
  <2>1. i \in alive /\ i \in Instances /\ run[i] # None
    BY <1>4 DEF Typed, TypeOK
  <2>2. run[i].token \in Tokens /\ owner[run[i].token] # None
    BY <2>1 DEF Typed, TypeOK, Run, Owned
  <2> QED BY <1>1, <2>1, <2>2 DEF Pairing, Own
<1>5. ASSUME NEW k \in Calls, Rotating(k)'
      PROVE  RotationOwned(k)'
  <2>1. /\ Rotating(k) /\ Same(k)
        /\ \/ calls'[k].answer = calls[k].answer
           \/ calls'[k].answer = t /\ owner[calls[k].key] = d
    BY <1>5
  <2>2. calls[k] # None /\ calls[k].kind = "rotate"
    BY <2>1 DEF Rotating, Waiting
  <2>3. calls[k].key \in Tokens /\ owner[calls[k].key] # None
    BY <2>2, CallFields DEF Typed, Owned
  <2>4. calls[k].answer \in Tokens => owner[calls[k].answer] # None
    BY <2>2 DEF Typed, Owned
  <2>5. RotationOwned(k)
    BY <2>1 DEF Pairing
  <2>6. owner'[calls[k].key] = owner[calls[k].key]
    BY <1>1, <2>3
  <2>7. calls'[k].answer \in Tokens => owner'[calls'[k].answer] = owner[calls[k].key]
    BY <1>1, <2>1, <2>4, <2>5 DEF RotationOwned
  <2>8. Own(calls[k].key, mem[calls[k].inst].device)'
    BY <2>1, <2>5, <2>6 DEF RotationOwned, Own, Same
  <2> QED BY <2>1, <2>5, <2>6, <2>7, <2>8 DEF RotationOwned, Same
<1> QED BY <1>2, <1>3, <1>4, <1>5 DEF Pairing

\* The server gives a rotation a token of its own device.
LEMMA PairingServer ==
    ASSUME Typed, Pairing, ServerStep
    PROVE  Pairing'
<1>1. UNCHANGED <<secrets, saved, mem, alive, crossed, run>>
  BY PluginAlone DEF plugin
<1>2. ASSUME NEW r \in net, NEW a \in Tokens \cup {None, Denied},
             calls' = Answered(r, a)
      PROVE  /\ \A k \in Calls : Rotating(k)' => Rotating(k) /\ Same(k)
             /\ \A k \in Calls : Rotating(k)' => calls'[k].answer \in {calls[k].answer, a}
             /\ \A k \in Calls : Rotating(k)' /\ k # r.call => calls'[k] = calls[k]
  <2>1. r \in Request /\ calls[r.call] # None
    BY DEF Typed, TypeOK, Sent
  <2> QED BY <1>2, <2>1, AnswerGiven DEF Typed, Rotating, Waiting, Same
<1>3. ASSUME NEW r \in net, PairDevice(r)
      PROVE  Pairing'
  <2>1. r.call \in Calls /\ calls[r.call].kind = "pair"
    BY <1>3 DEF PairDevice, Typed, TypeOK, Request
  <2>2. CASE calls' = Answered(r, Denied) /\ UNCHANGED server
    BY <1>1, <1>2, <2>2, PairingFrame DEF server
  <2>3. ASSUME NEW d \in NextOf(Devices, {e \in Devices : status[e] # "none"}),
               NEW t \in NextOf(Tokens, {u \in Tokens : owner[u] # None}),
               owner' = [owner EXCEPT ![t] = d],
               calls' = Answered(r, t)
        PROVE  Pairing'
    <3>1. d \in Devices /\ t \in Tokens /\ owner[t] = None
      BY NextIsFree
    <3>2. \A k \in Calls : Rotating(k)' => Rotating(k) /\ Same(k)
      BY <1>2, <2>3, <3>1
    <3>3. \A k \in Calls : Rotating(k)' => calls'[k].answer = calls[k].answer
      BY <1>2, <2>1, <2>3, <3>1, <3>2 DEF Rotating
    <3> QED BY <1>1, <2>3, <3>1, <3>2, <3>3, PairingIssued
  <2> QED BY <1>3, <2>2, <2>3 DEF PairDevice
<1>4. ASSUME NEW r \in net, AuthenticateToken(r)
      PROVE  Pairing'
  <2>1. UNCHANGED owner
    BY <1>4 DEF AuthenticateToken, server
  <2>2. CASE calls' = calls
    BY <1>1, <2>1, <2>2, PairingFrame DEF Rotating, Waiting, Same
  <2>3. CASE calls' = Answered(r, Denied)
    BY <1>1, <1>2, <2>1, <2>3, PairingFrame
  <2> QED BY <1>4, <2>2, <2>3 DEF AuthenticateToken
<1>5. ASSUME NEW r \in net, RotateToken(r)
      PROVE  Pairing'
  <2> DEFINE old == calls[r.call].key
  <2>1. r.call \in Calls /\ old \in Tokens /\ owner[old] \in Devices
    <3>1. r.call \in Calls /\ calls[r.call] # None /\ calls[r.call].kind = "rotate"
      BY <1>5 DEF RotateToken, Typed, TypeOK, Sent, Request
    <3>2. old \in Tokens /\ owner[old] # None
      BY <3>1, CallFields DEF Typed, Owned
    <3> QED BY <3>1, <3>2 DEF Typed, TypeOK
  <2>2. CASE calls' = Answered(r, Denied) /\ UNCHANGED owner
    BY <1>1, <1>2, <2>2, PairingFrame
  <2>3. ASSUME NEW t \in NextOf(Tokens, {u \in Tokens : owner[u] # None}),
               owner' = [owner EXCEPT ![t] = owner[old]],
               calls' = Answered(r, t)
        PROVE  Pairing'
    <3>1. t \in Tokens /\ owner[t] = None
      BY NextIsFree
    <3>2. \A k \in Calls : Rotating(k)' => Rotating(k) /\ Same(k)
      BY <1>2, <2>3, <3>1
    <3>3. \A k \in Calls : Rotating(k)' => calls'[k].answer \in {calls[k].answer, t}
      BY <1>2, <2>3, <3>1
    <3>4. \A k \in Calls : Rotating(k)' /\ k # r.call => calls'[k] = calls[k]
      BY <1>2, <2>3, <3>1
    <3> QED BY <1>1, <2>1, <2>3, <3>1, <3>2, <3>3, <3>4, PairingIssued
  <2> QED BY <1>5, <2>2, <2>3 DEF RotateToken
<1>6. ASSUME UNCHANGED <<owner, calls>>
      PROVE  Pairing'
  BY <1>1, <1>6, PairingFrame DEF Rotating, Waiting, Same
<1>7. CASE \/ \E d \in Devices : SetDeviceStatus(d)
           \/ \E c \in Codes : CodeExpires(c)
  BY <1>6, <1>7 DEF SetDeviceStatus, CodeExpires
<1> QED BY <1>3, <1>4, <1>5, <1>7 DEF ServerStep

\* A call whose attempt fails is tried again or is over, without an answer.
LEMMA CallFails ==
    ASSUME Typed, NEW k \in Calls, AttemptFails(k)
    PROVE  /\ calls'[k] # None /\ Same(k) /\ calls'[k].answer = None
           /\ calls[k].try \in 1 .. Attempts
           /\ MayRetry(k) => calls'[k].try = calls[k].try + 1
           /\ ~MayRetry(k) => calls'[k].state = "done"
           /\ \A j \in Calls \ {k} : calls'[j] = calls[j]
<1>1. calls[k] # None
  BY DEF AttemptFails, Waiting
<1>2. /\ calls[k] \in CallOf("pair", Codes) \cup CallOf("rotate", Tokens)
      /\ calls[k].try \in 1 .. Attempts
  BY <1>1, CallFields DEF Typed
<1>3. CASE MayRetry(k)
  <2> DEFINE c == [calls[k] EXCEPT !.try = calls[k].try + 1, !.answer = None]
  <2>1. calls[k].try + 1 \in 1 .. Attempts
    BY <1>2, <1>3, SessionAssumption DEF MayRetry
  <2>2. calls' = [calls EXCEPT ![k] = c]
    BY <1>2, <1>3 DEF AttemptFails, Typed, TypeOK
  <2>3. /\ c \in CallOf("pair", Codes) \cup CallOf("rotate", Tokens)
        /\ c.kind = calls[k].kind /\ c.inst = calls[k].inst /\ c.key = calls[k].key
        /\ c.answer = None /\ c.try = calls[k].try + 1
    BY <1>2, <2>1 DEF CallOf
  <2> HIDE DEF c
  <2> QED BY <1>2, <1>3, <2>2, <2>3, CallReplaced DEF Typed, Same
<1>4. CASE ~MayRetry(k)
  <2>1. calls' = Done(k)
    BY <1>4 DEF AttemptFails, Done
  <2> QED BY <1>1, <1>2, <1>4, <2>1, CallEnds
<1> QED BY <1>3, <1>4

\* Calls mix nothing: a rotation is stored for its own pairing, and a pairing
\* resets the sync state.
LEMMA PairingCalls ==
    ASSUME Typed, Pairing, CallStep
    PROVE  Pairing'
<1>n. None \notin Tokens
  BY SessionAssumption DEF Tokens
<1>1. ASSUME NEW c \in Codes, StartPairing(c)
      PROVE  Pairing'
  <2>1. Begin("pair", c) /\ UNCHANGED <<owner, secrets, saved, mem, alive, crossed, run>>
    BY <1>1 DEF StartPairing, server, plugin, history
  <2>2. PICK k \in Calls :
           /\ calls'[k] = [kind |-> "pair", inst |-> cur, key |-> c, try |-> 1,
                           state |-> "waiting", answer |-> None]
           /\ \A j \in Calls \ {k} : calls'[j] = calls[j]
    BY <2>1, CallBegun DEF Typed
  <2>3. calls'[k].kind = "pair"
    BY <2>2
  <2> QED BY <2>1, <2>2, <2>3, PairingFrame DEF Rotating, Waiting, Same
<1>2. ASSUME StartRotation
      PROVE  Pairing'
  <2> DEFINE old == secrets[mem[cur].device]
  <2>1. /\ Begin("rotate", old)
        /\ UNCHANGED <<owner, secrets, saved, mem, alive, crossed, run>>
    BY <1>2 DEF StartRotation, server, plugin, history
  <2>2. cur \in alive /\ mem[cur].device \in Devices /\ old \in Tokens
    BY <1>2 DEF StartRotation, HasClient, Typed, TypeOK, Data
  <2>3. PICK k \in Calls :
           /\ calls'[k] = [kind |-> "rotate", inst |-> cur, key |-> old, try |-> 1,
                           state |-> "waiting", answer |-> None]
           /\ \A j \in Calls \ {k} : calls'[j] = calls[j]
    BY <2>1, <2>2, CallBegun DEF Typed
  <2>4. calls'[k].inst = cur /\ calls'[k].key = old /\ calls'[k].answer = None
    BY <2>3
  <2>5. Own(old, mem[cur].device)
    BY <1>n, <2>2 DEF Pairing
  <2>6. RotationOwned(k)'
    BY <1>n, <2>1, <2>2, <2>4, <2>5 DEF RotationOwned, Own
  <2>7. \A j \in Calls \ {k} : Rotating(j)' => RotationOwned(j)'
    BY <2>1, <2>3 DEF Pairing, Rotating, Waiting, RotationOwned, Own
  <2>8. StateIsOfOnePairing'
    BY <2>1 DEF Pairing, StateIsOfOnePairing
  <2> QED BY <2>1, <2>6, <2>7, <2>8 DEF Pairing, Own
<1>3. ASSUME NEW k \in Calls, AttemptFails(k)
      PROVE  Pairing'
  <2>1. UNCHANGED <<owner, secrets, saved, mem, alive, crossed, run>> /\ Waiting(k)
    BY <1>3 DEF AttemptFails, server, plugin
  <2>2. \A j \in Calls : Rotating(j)' =>
           /\ Rotating(j) /\ Same(j)
           /\ calls'[j].answer \in {calls[j].answer, None, Denied}
    BY <1>3, <2>1, CallFails DEF Rotating, Waiting, Same
  <2> QED BY <2>1, <2>2, PairingFrame
<1>4. ASSUME NEW k \in Calls, Waiting(k), calls' = Done(k)
      PROVE  \A j \in Calls : Rotating(j)' =>
                Rotating(j) /\ j # k /\ calls'[j] = calls[j]
  BY <1>4, CallEnds DEF Rotating, Waiting
<1>5. ASSUME NEW k \in Calls, Refused(k)
      PROVE  Pairing'
  <2>1. UNCHANGED <<owner, secrets, saved, mem, alive, crossed, run>>
    BY <1>5 DEF Refused, server, plugin, history
  <2>2. Waiting(k) /\ calls' = Done(k)
    BY <1>5 DEF Refused
  <2> QED BY <1>4, <2>1, <2>2, PairingFrame DEF Same
<1>6. ASSUME NEW k \in Calls, Rotated(k)
      PROVE  Pairing'
  <2> DEFINE x == mem[calls[k].inst].device
             t == calls[k].answer
  <2>1. /\ Waiting(k) /\ calls' = Done(k) /\ t \in Tokens
        /\ Rotating(k)
        /\ secrets' = [secrets EXCEPT ![x] = t]
        /\ UNCHANGED <<owner, saved, mem, alive, crossed, run>>
    BY <1>6 DEF Rotated, Rotating, Stored, server, plugin
  <2>2. Own(t, x)
    BY <2>1 DEF Pairing, RotationOwned, Own
  <2>3. \A e \in Devices : secrets'[e] = secrets[e] \/ (secrets'[e] = t /\ e = x)
    BY <2>1 DEF Typed, TypeOK
  <2> HIDE DEF x, t
  <2>4. \A e \in Devices : secrets'[e] # None => Own(secrets[e], e)'
    BY <2>1, <2>2, <2>3 DEF Pairing, Own
  <2>5. \A j \in Calls : Rotating(j)' => RotationOwned(j)'
    BY <1>4, <2>1 DEF Pairing, RotationOwned, Own
  <2>6. StateIsOfOnePairing'
    BY <2>1 DEF Pairing, StateIsOfOnePairing
  <2> QED BY <2>1, <2>4, <2>5, <2>6 DEF Pairing, Own
<1>7. ASSUME NEW k \in Calls, Paired(k)
      PROVE  Pairing'
  <2> DEFINE i == calls[k].inst
             t == calls[k].answer
             d == owner[t]
  <2>1. calls[k] # None /\ i \in Instances /\ t \in Tokens
    BY <1>7, CallFields DEF Paired, Waiting, Typed
  <2>2. /\ Waiting(k) /\ calls' = Done(k)
        /\ secrets' = [secrets EXCEPT ![d] = t]
        /\ mem' = [mem EXCEPT ![i] = Repaired(@, d)]
        /\ saved' = mem'[i]
        /\ crossed' = IF Busy(i) THEN crossed \cup {d} ELSE crossed
        /\ UNCHANGED <<owner, alive, run>>
    BY <1>7 DEF Paired, Stored, server, plugin
  <2>3. mem[i] \in Data
    BY <2>1 DEF Typed, TypeOK
  <2>4. Repaired(mem[i], d).device = d /\ Repaired(mem[i], d).source = {}
    BY <2>3 DEF Repaired, Data
  <2>5. mem'[i] = Repaired(mem[i], d) /\ \A j \in Instances \ {i} : mem'[j] = mem[j]
    BY <2>1, <2>2 DEF Typed, TypeOK
  <2>6. crossed \subseteq crossed'
    BY <2>2
  <2>7. \A j \in Calls : Rotating(j) /\ calls[j].inst = i => d \in crossed'
    BY <2>2 DEF Rotating, Busy
  <2>8. \A e \in Devices : secrets'[e] = secrets[e] \/ (secrets'[e] = t /\ owner[t] = e)
    BY <2>2 DEF Typed, TypeOK
  <2> HIDE DEF i, t, d
  <2>9. ASSUME NEW j \in alive
        PROVE  mem'[j].source \subseteq {mem'[j].device} \/ mem'[j].device \in crossed'
    <3>1. j \in Instances
      BY DEF Typed, TypeOK
    <3>2. CASE j = i
      BY <2>4, <2>5, <3>2
    <3>3. CASE j # i
      BY <2>5, <2>6, <3>1, <3>3 DEF Pairing, StateIsOfOnePairing
    <3> QED BY <3>2, <3>3
  <2>10. saved'.source \subseteq {saved'.device} \/ saved'.device \in crossed'
    BY <2>2, <2>4, <2>5
  <2>11. StateIsOfOnePairing'
    BY <2>2, <2>9, <2>10 DEF StateIsOfOnePairing
  <2>12. \A e \in Devices : secrets'[e] # None => Own(secrets[e], e)'
    BY <2>2, <2>6, <2>8 DEF Pairing, Own
  <2>13. ASSUME NEW j \in Calls, Rotating(j)'
         PROVE  RotationOwned(j)'
    <3>1. Rotating(j) /\ calls'[j] = calls[j] /\ RotationOwned(j)
      BY <1>4, <2>2, <2>13 DEF Pairing
    <3>2. Own(calls[j].key, mem[calls[j].inst].device)'
      <4>1. CASE calls[j].inst = i
        BY <2>4, <2>5, <2>7, <3>1, <4>1 DEF Own
      <4>2. CASE calls[j].inst # i
        <5>1. calls[j].inst \in Instances
          BY <3>1 DEF RotationOwned, Typed, TypeOK
        <5> QED BY <2>2, <2>5, <2>6, <3>1, <4>2, <5>1 DEF RotationOwned, Own
      <4> QED BY <4>1, <4>2
    <3> QED BY <2>2, <3>1, <3>2 DEF RotationOwned
  <2>14. \A j \in alive : run'[j] # None => Own(run[j].token, run[j].device)'
    BY <2>2, <2>6 DEF Pairing, Own
  <2> QED BY <2>2, <2>11, <2>12, <2>13, <2>14 DEF Pairing
<1> QED BY <1>1, <1>2, <1>3, <1>5, <1>6, <1>7 DEF CallStep

\* Runs mix nothing: a run writes as the device it was begun for.
LEMMA PairingRuns ==
    ASSUME Typed, Confirmation, Pairing, StartRun \/ \E i \in alive : RunStep(i)
    PROVE  Pairing'
<1>1. CASE StartRun
  <2>1. cur \in alive /\ cur \in Instances /\ mem[cur].device \in Devices
    BY <1>1 DEF StartRun, HasClient, Typed, TypeOK, Data
  <2>2. Own(secrets[mem[cur].device], mem[cur].device)
    BY <1>1, <2>1 DEF StartRun, HasClient, Pairing
  <2> DEFINE r == [device |-> mem[cur].device, token |-> secrets[mem[cur].device],
                   initial |-> ~mem[cur].completed]
  <2>3. run' = [run EXCEPT ![cur] = r]
    BY <1>1 DEF StartRun
  <2>4. r.device = mem[cur].device /\ r.token = secrets[mem[cur].device]
    OBVIOUS
  <2> HIDE DEF r
  <2>5. \A j \in Instances : run'[j] = IF j = cur THEN r ELSE run[j]
    BY <2>3 DEF Typed, TypeOK
  <2>6. UNCHANGED <<owner, calls, secrets, saved, mem, alive, crossed>>
    BY <1>1 DEF StartRun, server, history
  <2>7. ASSUME NEW j \in alive, run'[j] # None
        PROVE  Own(run[j].token, run[j].device)'
    <3>1. j \in Instances
      BY DEF Typed, TypeOK
    <3> QED BY <2>2, <2>4, <2>5, <2>6, <2>7, <3>1 DEF Pairing, Own
  <2>8. StateIsOfOnePairing'
    BY <2>6 DEF Pairing, StateIsOfOnePairing
  <2>9. \A k \in Calls : Rotating(k)' => RotationOwned(k)'
    BY <2>6 DEF Pairing, Rotating, Waiting, RotationOwned, Own
  <2> QED BY <2>6, <2>7, <2>8, <2>9 DEF Pairing, Own
<1>2. ASSUME NEW i \in alive, RunStep(i)
      PROVE  Pairing'
  <2>1. i \in Instances /\ run[i] # None
    BY <1>2 DEF Typed, TypeOK, RunStep, RunWorks, RunCompletes, RunStops, RunRefused,
                RunFails, Served
  <2>2. UNCHANGED <<owner, calls, secrets, alive, crossed>> /\ saved' = mem'[i]
    BY <1>2 DEF RunStep, RunWorks, RunCompletes, RunStops, RunRefused, RunFails, RunEnds,
                server, history
  <2>3. \A j \in Instances : run'[j] \in {run[j], None}
    <3>1. UNCHANGED run \/ RunEnds(i)
      BY <1>2 DEF RunStep, RunWorks, RunCompletes, RunStops, RunRefused, RunFails
    <3> QED BY <2>1, <3>1, RunEnded DEF Typed
  <2>4. /\ \A j \in Instances \ {i} : mem'[j] = mem[j]
        /\ mem'[i].device = mem[i].device
        /\ mem'[i].source \subseteq mem[i].source \cup {owner[run[i].token]}
    <3>1. CASE RunWorks(i)
      <4>1. mem'[i] = Wrote(i) /\ \A j \in Instances \ {i} : mem'[j] = mem[j]
        BY <2>1, <3>1 DEF RunWorks, Typed, TypeOK
      <4> QED BY <2>1, <4>1, WroteFields
    <3>2. CASE RunCompletes(i)
      <4>1. /\ mem'[i] \in {Wrote(i), [Wrote(i) EXCEPT !.completed = TRUE, !.mode = FALSE]}
            /\ \A j \in Instances \ {i} : mem'[j] = mem[j]
        BY <2>1, <3>2 DEF RunCompletes, Typed, TypeOK
      <4> QED BY <2>1, <4>1, WroteFields
    <3>3. CASE RunStops(i) \/ RunRefused(i) \/ RunFails(i)
      BY <3>3 DEF RunStops, RunRefused, RunFails
    <3> QED BY <1>2, <3>1, <3>2, <3>3 DEF RunStep
  <2>5. owner[run[i].token] = mem[i].device \/ mem[i].device \in crossed
    BY <2>1 DEF Confirmation, OfPairing, Pairing, Own
  <2>6. mem[i].source \subseteq {mem[i].device} \/ mem[i].device \in crossed
    BY DEF Pairing, StateIsOfOnePairing
  <2>7. mem'[i].source \subseteq {mem'[i].device} \/ mem'[i].device \in crossed'
    BY <2>2, <2>4, <2>5, <2>6
  <2>8. ASSUME NEW j \in alive
        PROVE  mem'[j].source \subseteq {mem'[j].device} \/ mem'[j].device \in crossed'
    <3>1. j \in Instances
      BY DEF Typed, TypeOK
    <3> QED BY <2>2, <2>4, <2>7, <3>1 DEF Pairing, StateIsOfOnePairing
  <2>9. StateIsOfOnePairing'
    BY <2>2, <2>7, <2>8 DEF StateIsOfOnePairing
  <2>10. \A j \in Instances : mem'[j].device = mem[j].device
    BY <2>4
  <2>11. ASSUME NEW k \in Calls, Rotating(k)'
         PROVE  RotationOwned(k)'
    <3>1. Rotating(k) /\ RotationOwned(k)
      BY <2>2, <2>11 DEF Pairing, Rotating, Waiting
    <3>2. calls[k].inst \in Instances
      BY <3>1 DEF RotationOwned, Typed, TypeOK
    <3> QED BY <2>2, <2>10, <3>1, <3>2 DEF RotationOwned, Own
  <2>12. \A j \in alive : run'[j] # None => Own(run[j].token, run[j].device)'
    <3>1. \A j \in alive : j \in Instances
      BY DEF Typed, TypeOK
    <3> QED BY <2>2, <2>3, <3>1 DEF Pairing, Own
  <2> QED BY <2>2, <2>9, <2>11, <2>12 DEF Pairing, Own
<1> QED BY <1>1, <1>2

\* Restarting Obsidian ends every call.
LEMMA RestartEndsCalls ==
    ASSUME Typed, Restart
    PROVE  \A k \in Calls : /\ ~Waiting(k)'
                            /\ (calls'[k] # None) = (calls[k] # None)
                            /\ calls[k] # None => Same(k) /\ calls'[k].try = calls[k].try
<1> SUFFICES ASSUME NEW k \in Calls
             PROVE  /\ ~Waiting(k)'
                    /\ (calls'[k] # None) = (calls[k] # None)
                    /\ calls[k] # None => Same(k) /\ calls'[k].try = calls[k].try
  OBVIOUS
<1>1. CASE ~Waiting(k)
  <2>1. calls'[k] = calls[k]
    BY <1>1 DEF Restart
  <2> QED BY <1>1, <2>1 DEF Waiting, Same
<1>2. CASE Waiting(k)
  <2>1. calls[k] \in CallOf("pair", Codes) \cup CallOf("rotate", Tokens)
    BY <1>2, CallFields DEF Typed, Waiting
  <2>2. calls'[k] = [calls[k] EXCEPT !.state = "done", !.answer = None]
    BY <1>2 DEF Restart
  <2>3. /\ calls'[k] \in CallOf("pair", Codes) \cup CallOf("rotate", Tokens)
        /\ calls'[k].state = "done" /\ calls'[k].try = calls[k].try
        /\ calls'[k].kind = calls[k].kind /\ calls'[k].inst = calls[k].inst
        /\ calls'[k].key = calls[k].key
    BY <2>1, <2>2 DEF CallOf
  <2>4. calls'[k] # None
    BY <2>3, NullAssumption
  <2> QED BY <1>2, <2>3, <2>4 DEF Waiting, Same
<1> QED BY <1>1, <1>2

\* Users and Obsidian mix nothing: the next instance has the data of the disk.
LEMMA PairingUser ==
    ASSUME Typed, Confirmation, Pairing, UserStep
    PROVE  Pairing'
<1>0. cur \in Instances /\ cur \in alive /\ mem[cur] \in Data
  BY DEF Typed, TypeOK
<1>1. CASE PreviewInitialSync \/ PreviewEnds \/ CancelSync
  <2>1. UNCHANGED <<owner, calls, secrets, saved, mem, alive, crossed, run>>
    BY <1>1 DEF PreviewInitialSync, PreviewEnds, CancelSync, server, history
  <2> QED BY <2>1, PairingFrame DEF Rotating, Waiting, Same
<1>2. CASE ApproveInitialSync \/ Pause \/ Resume
  <2>1. /\ \/ mem' = [mem EXCEPT ![cur].mode = TRUE]
           \/ \E b \in BOOLEAN : mem' = [mem EXCEPT ![cur].paused = b]
        /\ saved' = mem'[cur]
        /\ UNCHANGED <<owner, calls, secrets, alive, crossed, run>>
    BY <1>2 DEF ApproveInitialSync, Pause, Resume, server, history
  <2>2. \A j \in Instances : /\ mem'[j].device = mem[j].device
                             /\ mem'[j].source = mem[j].source
    <3>1. CASE mem' = [mem EXCEPT ![cur].mode = TRUE]
      <4>1. mem'[cur] = [mem[cur] EXCEPT !.mode = TRUE]
        BY <1>0, <3>1 DEF Typed, TypeOK
      <4>2. mem'[cur].device = mem[cur].device /\ mem'[cur].source = mem[cur].source
        BY <1>0, <4>1 DEF Data
      <4> QED BY <3>1, <4>2 DEF Typed, TypeOK
    <3>2. ASSUME NEW b \in BOOLEAN, mem' = [mem EXCEPT ![cur].paused = b]
          PROVE  \A j \in Instances : /\ mem'[j].device = mem[j].device
                                      /\ mem'[j].source = mem[j].source
      <4>1. mem'[cur] = [mem[cur] EXCEPT !.paused = b]
        BY <1>0, <3>2 DEF Typed, TypeOK
      <4>2. mem'[cur].device = mem[cur].device /\ mem'[cur].source = mem[cur].source
        BY <1>0, <4>1 DEF Data
      <4> QED BY <3>2, <4>2 DEF Typed, TypeOK
    <3> QED BY <2>1, <3>1, <3>2
  <2>3. \A j \in alive : j \in Instances
    BY DEF Typed, TypeOK
  <2>4. StateIsOfOnePairing'
    BY <1>0, <2>1, <2>2, <2>3 DEF Pairing, StateIsOfOnePairing
  <2>5. ASSUME NEW k \in Calls, Rotating(k)'
        PROVE  RotationOwned(k)'
    <3>1. RotationOwned(k)
      BY <2>1, <2>5 DEF Pairing, Rotating, Waiting
    <3>2. calls[k].inst \in Instances
      BY <3>1 DEF RotationOwned, Typed, TypeOK
    <3> QED BY <2>1, <2>2, <3>1, <3>2 DEF RotationOwned, Own
  <2> QED BY <2>1, <2>4, <2>5 DEF Pairing, Own
<1>3. CASE SavePluginData
  <2>1. /\ saved' = mem[cur]
        /\ UNCHANGED <<owner, calls, secrets, mem, alive, crossed, run>>
    BY <1>3 DEF SavePluginData, server, plugin, history
  <2>2. StateIsOfOnePairing'
    BY <1>0, <2>1 DEF Pairing, StateIsOfOnePairing
  <2> QED BY <2>1, <2>2 DEF Pairing, Own, Rotating, Waiting, RotationOwned
<1>4. ASSUME Load, alive' \subseteq alive \cup {cur'}, UNCHANGED <<owner, secrets, crossed>>,
             \A i \in Instances : run'[i] \in {run[i], None},
             \A k \in Calls : Rotating(k)' =>
                Rotating(k) /\ calls'[k] = calls[k] /\ alive \subseteq alive'
      PROVE  Pairing'
  <2>1. /\ cur' \in Instances /\ cur' = cur + 1
        /\ mem'[cur'] = Migrated(saved) /\ saved' = Migrated(saved)
        /\ \A i \in Instances \ {cur'} : mem'[i] = mem[i]
    BY <1>4, Loaded DEF Typed
  <2>2. \A i \in alive : i \in Instances /\ i # cur'
    BY <1>0, <2>1 DEF Typed, TypeOK, Confirmation, Instances
  <2>3. run'[cur'] = None
    <3>1. cur' > cur
      BY <1>0, <2>1 DEF Instances
    <3> QED BY <1>4, <2>1, <3>1 DEF Confirmation
  <2>4. saved'.source \subseteq {saved'.device} \/ saved'.device \in crossed
    BY <2>1 DEF Migrated, Blank, Pairing, StateIsOfOnePairing
  <2>5. StateIsOfOnePairing'
    <3> SUFFICES ASSUME NEW i \in alive'
                 PROVE  mem'[i].source \subseteq {mem'[i].device}
                          \/ mem'[i].device \in crossed
      BY <1>4, <2>4 DEF StateIsOfOnePairing
    <3>1. CASE i = cur'
      BY <2>1, <2>4, <3>1
    <3>2. CASE i # cur'
      BY <1>4, <2>1, <2>2, <3>2 DEF Pairing, StateIsOfOnePairing
    <3> QED BY <3>1, <3>2
  <2>6. \A i \in alive' : run'[i] # None => Own(run[i].token, run[i].device)'
    BY <1>4, <2>2, <2>3 DEF Pairing, Own
  <2>7. \A k \in Calls : Rotating(k)' => RotationOwned(k)'
    BY <1>4, <2>1, <2>2 DEF Pairing, RotationOwned, Own
  <2> QED BY <1>4, <2>5, <2>6, <2>7 DEF Pairing, Own
<1>5. CASE Reload
  <2>1. /\ Load /\ alive' = alive \cup {cur'}
        /\ UNCHANGED <<owner, calls, secrets, crossed, run>>
    BY <1>5 DEF Reload, server, history
  <2> QED BY <1>4, <2>1 DEF Rotating, Waiting
<1>6. CASE Restart
  <2>1. /\ Load /\ alive' = {cur'} /\ UNCHANGED <<owner, secrets, crossed>>
        /\ \A i \in Instances : run'[i] = None
    BY <1>6 DEF Restart, server
  <2>2. \A k \in Calls : ~Rotating(k)'
    BY <1>6, RestartEndsCalls DEF Rotating
  <2> QED BY <1>4, <2>1, <2>2
<1> QED BY <1>1, <1>2, <1>3, <1>5, <1>6 DEF UserStep

\* No step mixes the pairings.
LEMMA PairingStep ==
    Typed /\ Confirmation /\ Pairing /\ [Next]_vars => Pairing'
<1>1. ASSUME Typed, Pairing, UNCHANGED vars
      PROVE  Pairing'
  BY <1>1, PairingFrame DEF vars, Rotating, Waiting, Same
<1> QED BY <1>1, PairingServer, PairingCalls, PairingRuns, PairingUser DEF Next

\* What is stored and what works always belongs to the device it is for.
LEMMA AlwaysPaired ==
    Spec => []Pairing
BY PairingInit, PairingStep, AlwaysConfirmed, AlwaysTyped, PTL DEF Spec

\* The sync state of a pairing, in memory and on disk, was written as that
\* device alone, unless it was paired amid a run of another.
THEOREM OnePairingPerState ==
    Spec => []StateIsOfOnePairing
<1>1. Pairing => StateIsOfOnePairing
  BY DEF Pairing
<1> QED BY <1>1, AlwaysPaired, PTL

-----------------------------------------------------------------------------
(* The stored credential.                                                  *)

\* Nothing is known of a device before it is paired.
Unborn ==
    \A d \in Devices : status[d] = "none" =>
        /\ secrets[d] = None
        /\ d \notin crossed
        /\ \A t \in Tokens : owner[t] # d

\* Each attempt has one request, and no answer before that was executed.
Once ==
    \A r \in net :
        /\ r.try <= calls[r.call].try
        /\ \A s \in net : s.call = r.call /\ s.try = r.try => s = r
        /\ Waiting(r.call) /\ calls[r.call].try = r.try => calls[r.call].answer = None

\* The token that answers call k is known to nobody else, and still taken.
Unseen(t, k) ==
    /\ t \in live \/ status[owner[t]] # "active"
    /\ \A d \in Devices : secrets[d] # t
    /\ \A j \in Calls : calls[j] # None /\ calls[j].kind = "rotate" => calls[j].key # t
    /\ \A j \in Calls \ {k} : Waiting(j) => calls[j].answer # t

\* A call that has its token and has not stored it.
Holding(k) == Waiting(k) /\ calls[k].answer \in Tokens

Fresh == \A k \in Calls : Holding(k) => Unseen(calls[k].answer, k)

\* At the start nothing is under way.
LEMMA CredentialInit ==
    Init => Unborn /\ Once /\ Fresh /\ CredentialLives
<1> SUFFICES ASSUME Init PROVE Unborn /\ Once /\ Fresh /\ CredentialLives
  OBVIOUS
<1>1. 1 \in Devices /\ 1 \in Tokens /\ None \notin Devices
  BY SessionAssumption DEF Devices, Tokens
<1>2. Once /\ Fresh
  BY DEF Init, Once, Fresh, Holding, Waiting
<1>3. Unborn
  BY <1>1 DEF Init, Unborn
<1>4. CredentialLives
  BY <1>1 DEF Init, CredentialLives
<1> QED BY <1>2, <1>3, <1>4

\* A new device gets its secret only once it is paired.
LEMMA UnbornStep ==
    Typed /\ Pairing /\ Unborn /\ [Next]_vars => Unborn'
<1> SUFFICES ASSUME Typed, Pairing, Unborn, [Next]_vars PROVE Unborn'
  OBVIOUS
<1>1. ASSUME UNCHANGED <<status, owner, secrets, crossed>>
      PROVE  Unborn'
  BY <1>1 DEF Unborn
<1>2. ASSUME ServerStep
      PROVE  Unborn'
  <2>1. UNCHANGED <<secrets, crossed>>
    BY <1>2, PluginAlone
  <2>2. ASSUME NEW d \in Devices, NEW t \in Tokens, owner[t] = None,
               status' = [status EXCEPT ![d] = "active"],
               owner' = [owner EXCEPT ![t] = d]
        PROVE  Unborn'
    <3>1. \A e \in Devices : status'[e] = IF e = d THEN "active" ELSE status[e]
      BY <2>2 DEF Typed, TypeOK
    <3>2. \A u \in Tokens : owner'[u] = IF u = t THEN d ELSE owner[u]
      BY <2>2 DEF Typed, TypeOK
    <3> QED BY <2>1, <3>1, <3>2 DEF Unborn
  <2>3. ASSUME NEW old \in Tokens, NEW t \in Tokens, old \in live,
               owner' = [owner EXCEPT ![t] = owner[old]], UNCHANGED status
        PROVE  Unborn'
    <3>1. \A u \in Tokens : owner'[u] = IF u = t THEN owner[old] ELSE owner[u]
      BY <2>3 DEF Typed, TypeOK
    <3> QED BY <2>1, <2>3, <3>1 DEF Unborn
  <2>4. ASSUME NEW d \in Devices, NEW s \in {"retired", "revoked"},
               status' = [status EXCEPT ![d] = s], UNCHANGED owner
        PROVE  Unborn'
    <3>1. \A e \in Devices : status'[e] = IF e = d THEN s ELSE status[e]
      BY <2>4 DEF Typed, TypeOK
    <3> QED BY <2>1, <2>4, <3>1 DEF Unborn
  <2> QED BY <1>1, <1>2, <2>1, <2>2, <2>3, <2>4, ServerMoves
<1>3. ASSUME NEW k \in Calls, Paired(k)
      PROVE  Unborn'
  <2> DEFINE t == calls[k].answer
  <2>1. /\ t \in Tokens
        /\ secrets' = [secrets EXCEPT ![owner[t]] = t]
        /\ crossed' \subseteq crossed \cup {owner[t]}
        /\ UNCHANGED <<status, owner>>
    BY <1>3 DEF Paired, Stored, server
  <2>2. \A e \in Devices \ {owner[t]} : secrets'[e] = secrets[e]
    BY <2>1 DEF Typed, TypeOK
  <2> QED BY <2>1, <2>2 DEF Unborn
<1>4. ASSUME NEW k \in Calls, Rotated(k)
      PROVE  Unborn'
  <2> DEFINE t == calls[k].answer
             x == mem[calls[k].inst].device
  <2>1. /\ t \in Tokens
        /\ secrets' = [secrets EXCEPT ![x] = t]
        /\ UNCHANGED <<status, owner, crossed>>
    BY <1>4 DEF Rotated, Stored, server, plugin
  <2>2. owner[t] = x \/ x \in crossed
    BY <1>4 DEF Rotated, Pairing, Rotating, RotationOwned, Own
  <2>3. \A e \in Devices \ {x} : secrets'[e] = secrets[e]
    BY <2>1 DEF Typed, TypeOK
  <2> HIDE DEF t, x
  <2> QED BY <2>1, <2>2, <2>3 DEF Unborn
<1>5. CASE \/ \E c \in Codes : StartPairing(c)
           \/ StartRotation
           \/ \E k \in Calls : AttemptFails(k) \/ Refused(k)
  BY <1>1, <1>5 DEF StartPairing, StartRotation, AttemptFails, Refused, server, history
<1>6. CASE StartRun \/ \E i \in alive : RunStep(i)
  BY <1>1, <1>6 DEF StartRun, RunStep, RunWorks, RunCompletes, RunStops, RunRefused,
                    RunFails, server, history
<1>7. CASE UserStep
  BY <1>1, <1>7 DEF UserStep, PreviewInitialSync, PreviewEnds, ApproveInitialSync, Pause,
                    Resume, CancelSync, SavePluginData, Reload, Restart, server, history
<1>8. CASE UNCHANGED vars
  BY <1>1, <1>8 DEF vars
<1> QED BY <1>2, <1>3, <1>4, <1>5, <1>6, <1>7, <1>8 DEF Next, CallStep

\* An answer changes no call but the one that awaits it, which had none.
LEMMA AnswerIsFirst ==
    ASSUME Typed, Once, NEW r \in net, NEW a \in Tokens \cup {None, Denied},
           calls' = Answered(r, a)
    PROVE  /\ r.call \in Calls /\ calls[r.call] # None
           /\ \A k \in Calls :
                /\ Waiting(k)' = Waiting(k)
                /\ (calls'[k] # None) = (calls[k] # None)
                /\ calls[k] # None => Same(k) /\ calls'[k].try = calls[k].try
                /\ calls'[k] = calls[k] \/ (k = r.call /\ calls[k].answer = None /\ calls'[k].answer = a)
           /\ Unawaited(r) => calls' = calls
           /\ ~Unawaited(r) => Waiting(r.call)' /\ calls'[r.call].answer = a
           /\ ~Unawaited(r) => calls[r.call].answer = None
<1>1. r \in Request /\ r.call \in Calls /\ calls[r.call] # None
  BY DEF Typed, TypeOK, Sent, Request
<1>2. ~Unawaited(r) => calls[r.call].answer = None
  BY DEF Unawaited, Once
<1>3. /\ \A k \in Calls :
           /\ (calls'[k] # None) = (calls[k] # None)
           /\ calls[k] # None => /\ Same(k)
                                 /\ calls'[k].state = calls[k].state
                                 /\ calls'[k].try = calls[k].try
      /\ \A k \in Calls \ {r.call} : calls'[k] = calls[k]
      /\ Unawaited(r) => calls' = calls
      /\ ~Unawaited(r) => calls'[r.call].answer = a
  BY <1>1, AnswerGiven DEF Typed
<1>4. \A k \in Calls : Waiting(k)' = Waiting(k)
  BY <1>3, Zenon DEF Waiting
<1> QED BY <1>1, <1>2, <1>3, <1>4 DEF Unawaited

\* Requests are sent once for each attempt and executed once.
LEMMA OnceStep ==
    Typed /\ Once /\ [Next]_vars => Once'
<1> SUFFICES ASSUME Typed, Once, [Next]_vars PROVE Once'
  OBVIOUS
<1>n. \A r \in net : /\ r \in Request /\ r.call \in Calls /\ calls[r.call] # None
                     /\ r.try \in Nat
  BY SessionAssumption DEF Typed, TypeOK, Sent, Request
<1>1. ASSUME net' \subseteq net,
             \A k \in Calls : calls[k] # None =>
                /\ calls'[k].try = calls[k].try
                /\ Waiting(k)' => Waiting(k) /\ calls'[k].answer = calls[k].answer
      PROVE  Once'
  BY <1>n, <1>1 DEF Once
<1>2. ASSUME NEW r \in net, NEW a \in Tokens \cup {None, Denied},
             calls' = Answered(r, a), net' = net \ {r}
      PROVE  Once'
  <2>1. ASSUME NEW s \in net'
        PROVE  /\ s.try <= calls'[s.call].try
               /\ Waiting(s.call)' /\ calls'[s.call].try = s.try
                    => calls'[s.call].answer = None
    <3>1. /\ s \in net /\ s # r /\ s.call \in Calls /\ calls[s.call] # None
          /\ calls'[s.call].try = calls[s.call].try
          /\ Waiting(s.call)' = Waiting(s.call)
      BY <1>2, <1>n, <2>1, AnswerIsFirst
    <3>2. CASE calls'[s.call] = calls[s.call]
      BY <3>1, <3>2 DEF Once
    <3>3. CASE calls'[s.call] # calls[s.call]
      <4>1. s.call = r.call /\ ~Unawaited(r)
        BY <1>2, <3>1, <3>3, AnswerIsFirst
      <4>2. calls[s.call].try = r.try
        BY <4>1 DEF Unawaited
      <4>3. s.try # r.try
        BY <3>1, <4>1 DEF Once
      <4> QED BY <3>1, <4>2, <4>3 DEF Once
    <3> QED BY <3>2, <3>3
  <2> QED BY <1>2, <2>1 DEF Once
<1>3. ASSUME NEW r \in net, PairDevice(r)
      PROVE  Once'
  <2>1. net' = net \ {r}
    BY <1>3 DEF PairDevice
  <2>2. \E a \in Tokens \cup {None, Denied} : calls' = Answered(r, a)
    BY <1>3, NextIsFree DEF PairDevice
  <2> QED BY <1>2, <2>1, <2>2
<1>4. ASSUME NEW r \in net, AuthenticateToken(r)
      PROVE  Once'
  <2>1. CASE calls' = Answered(r, Denied) /\ net' = net \ {r}
    BY <1>2, <2>1
  <2>2. CASE calls' = calls /\ net' = (net \ {r}) \cup {[r EXCEPT !.stage = "admitted"]}
    <3> DEFINE q == [r EXCEPT !.stage = "admitted"]
    <3>1. q.call = r.call /\ q.try = r.try
      BY <1>n DEF Request
    <3>2. net' = (net \ {r}) \cup {q}
      BY <2>2
    <3> HIDE DEF q
    <3>3. \A s \in net \ {r} : ~(s.call = q.call /\ s.try = q.try)
      BY <3>1 DEF Once
    <3> QED BY <2>2, <3>1, <3>2, <3>3 DEF Once, Waiting
  <2> QED BY <1>4, <2>1, <2>2 DEF AuthenticateToken
<1>5. ASSUME NEW r \in net, RotateToken(r)
      PROVE  Once'
  <2>1. net' = net \ {r}
    BY <1>5 DEF RotateToken
  <2>2. \E a \in Tokens \cup {None, Denied} : calls' = Answered(r, a)
    BY <1>5, NextIsFree DEF RotateToken
  <2> QED BY <1>2, <2>1, <2>2
<1>6. ASSUME UNCHANGED <<net, calls>>
      PROVE  Once'
  BY <1>6 DEF Once, Waiting
<1>7. ASSUME NEW kind, NEW key, Begin(kind, key),
             \/ kind = "pair" /\ key \in Codes
             \/ kind = "rotate" /\ key \in Tokens
      PROVE  Once'
  <2>1. PICK k \in Calls :
           /\ calls[k] = None
           /\ calls'[k] = [kind |-> kind, inst |-> cur, key |-> key, try |-> 1,
                           state |-> "waiting", answer |-> None]
           /\ \A j \in Calls \ {k} : calls'[j] = calls[j]
           /\ net' = net \cup {[call |-> k, try |-> 1, stage |-> "sent"]}
    BY <1>7, CallBegun DEF Typed
  <2> DEFINE q == [call |-> k, try |-> 1, stage |-> "sent"]
  <2>2. q.call = k /\ q.try = 1 /\ net' = net \cup {q}
    BY <2>1
  <2>3. calls'[k].try = 1 /\ calls'[k].answer = None
    BY <2>1
  <2> HIDE DEF q
  <2>4. \A s \in net : s.call \in Calls /\ s.call # k /\ calls'[s.call] = calls[s.call]
    BY <1>n, <2>1
  <2> QED BY <2>2, <2>3, <2>4 DEF Once, Waiting
<1>8. ASSUME NEW k \in Calls, AttemptFails(k)
      PROVE  Once'
  <2>1. /\ calls'[k] # None /\ Same(k) /\ calls'[k].answer = None
        /\ calls[k].try \in 1 .. Attempts
        /\ MayRetry(k) => calls'[k].try = calls[k].try + 1
        /\ ~MayRetry(k) => calls'[k].state = "done"
        /\ \A j \in Calls \ {k} : calls'[j] = calls[j]
    BY <1>8, CallFails
  <2>2. CASE MayRetry(k)
    <3>1. PICK gone :
            net' = (net \ gone) \cup
                   {[call |-> k, try |-> calls[k].try + 1, stage |-> "sent"]}
      BY <1>8, <2>2 DEF AttemptFails
    <3> DEFINE q == [call |-> k, try |-> calls[k].try + 1, stage |-> "sent"]
    <3>2. q.call = k /\ q.try = calls[k].try + 1 /\ net' = (net \ gone) \cup {q}
      BY <3>1
    <3> HIDE DEF q
    <3>3. \A s \in net : s.call = k => s.try <= calls[k].try
      BY DEF Once
    <3>4. calls[k].try \in Nat
      BY <2>1, SessionAssumption
    <3>5. \A s \in net : s.call = k => s.try < calls[k].try + 1 /\ s.try # calls[k].try + 1
      BY <1>n, <3>3, <3>4
    <3>6. calls'[k].try = q.try /\ q.try <= q.try
      BY <2>1, <2>2, <3>2, <3>4
    <3>7. ASSUME NEW s \in net
          PROVE  /\ s.try <= calls'[s.call].try
                 /\ ~(s.call = q.call /\ s.try = q.try)
                 /\ Waiting(s.call)' /\ calls'[s.call].try = s.try
                      => calls'[s.call].answer = None
      <4>1. CASE s.call = k
        BY <1>n, <2>1, <3>2, <3>4, <3>5, <3>6, <4>1
      <4>2. CASE s.call # k
        BY <1>n, <2>1, <3>2, <4>2 DEF Once, Waiting
      <4> QED BY <4>1, <4>2
    <3> QED BY <2>1, <3>2, <3>6, <3>7 DEF Once
  <2>3. CASE ~MayRetry(k)
    <3>1. calls' = Done(k) /\ net' \subseteq net
      BY <1>8, <2>3 DEF AttemptFails, Done
    <3>2. calls[k] # None
      BY <1>8 DEF AttemptFails, Waiting
    <3> QED BY <1>1, <3>1, <3>2, CallEnds DEF Waiting
  <2> QED BY <2>2, <2>3
<1>9. ASSUME NEW k \in Calls, Waiting(k), calls' = Done(k), UNCHANGED net
      PROVE  Once'
  BY <1>1, <1>9, CallEnds DEF Waiting
<1>10. CASE ServerStep
  BY <1>3, <1>4, <1>5, <1>6, <1>10 DEF ServerStep, SetDeviceStatus, CodeExpires
<1>11. CASE CallStep
  <2>1. ASSUME StartRotation
        PROVE  Once'
    <3>1. mem[cur].device \in Devices
      BY <2>1 DEF StartRotation, HasClient, Typed, TypeOK, Data
    <3>2. secrets[mem[cur].device] \in Tokens
      BY <2>1, <3>1 DEF StartRotation, HasClient, Typed, TypeOK
    <3> QED BY <1>7, <2>1, <3>2 DEF StartRotation
  <2>2. ASSUME NEW c \in Codes, StartPairing(c)
        PROVE  Once'
    BY <1>7, <2>2 DEF StartPairing
  <2>3. ASSUME NEW k \in Calls, Paired(k) \/ Rotated(k) \/ Refused(k)
        PROVE  Once'
    BY <1>9, <2>3 DEF Paired, Rotated, Refused
  <2> QED BY <1>8, <1>11, <2>1, <2>2, <2>3 DEF CallStep
<1>12. CASE StartRun \/ \E i \in alive : RunStep(i)
  BY <1>6, <1>12 DEF StartRun, RunStep, RunWorks, RunCompletes, RunStops, RunRefused, RunFails
<1>13. CASE UserStep
  <2>1. CASE Restart
    <3>1. UNCHANGED net
      BY <2>1 DEF Restart
    <3> QED BY <1>1, <2>1, <3>1, RestartEndsCalls
  <2>2. CASE ~Restart
    BY <1>6, <1>13, <2>2 DEF UserStep, PreviewInitialSync, PreviewEnds, ApproveInitialSync,
         Pause, Resume, CancelSync, SavePluginData, Reload
  <2> QED BY <2>1, <2>2
<1>14. CASE UNCHANGED vars
  BY <1>6, <1>14 DEF vars
<1> QED BY <1>10, <1>11, <1>12, <1>13, <1>14 DEF Next

\* Fewer calls that hold, fewer secrets and keys: what is held stays unseen.
LEMMA FreshFrame ==
    ASSUME Typed, Fresh, UNCHANGED <<owner, live, status>>,
           \A d \in Devices :
              \/ secrets'[d] = secrets[d]
              \/ \E k \in Calls : Holding(k) /\ ~Waiting(k)' /\ secrets'[d] = calls[k].answer,
           \A j \in Calls : calls'[j] # None => calls[j] # None /\ Same(j),
           \A j \in Calls : Waiting(j)' => Waiting(j),
           \A j \in Calls : Waiting(j)' =>
              calls'[j].answer \in {calls[j].answer, None, Denied}
    PROVE  Fresh'
<1>1. None \notin Tokens /\ Denied \notin Tokens
  BY SessionAssumption DEF Tokens
<1> SUFFICES ASSUME NEW k \in Calls, Holding(k)'
             PROVE  Unseen(calls[k].answer, k)'
  BY DEF Fresh
<1>2. Holding(k) /\ calls'[k].answer = calls[k].answer
  BY <1>1 DEF Holding
<1> DEFINE t == calls[k].answer
<1>3. t \in Tokens /\ Unseen(t, k)
  BY <1>2 DEF Fresh, Holding
<1> HIDE DEF t
<1>4. \A d \in Devices : secrets'[d] # t
  <2> SUFFICES ASSUME NEW d \in Devices PROVE secrets'[d] # t
    OBVIOUS
  <2>1. CASE secrets'[d] = secrets[d]
    BY <1>3, <2>1 DEF Unseen
  <2>2. ASSUME NEW j \in Calls, Holding(j), ~Waiting(j)', secrets'[d] = calls[j].answer
        PROVE  secrets'[d] # t
    <3>1. j # k
      BY <2>2 DEF Holding
    <3> QED BY <1>3, <2>2, <3>1 DEF Unseen, Holding
  <2> QED BY <2>1, <2>2
<1>5. \A j \in Calls : calls'[j] # None /\ calls'[j].kind = "rotate" => calls'[j].key # t
  BY <1>3 DEF Unseen, Same
<1>6. \A j \in Calls \ {k} : Waiting(j)' => calls'[j].answer # t
  BY <1>1, <1>3 DEF Unseen
<1>7. calls'[k].answer = t
  BY <1>2 DEF t
<1> QED BY <1>3, <1>4, <1>5, <1>6, <1>7 DEF Unseen

\* A token that the server issues is new to everyone.
LEMMA FreshIssued ==
    ASSUME Typed, Once, Unborn, Fresh, UNCHANGED secrets,
           NEW t \in Tokens, owner[t] = None, NEW d \in Devices,
           NEW r \in net, calls' = Answered(r, t),
           owner' = [owner EXCEPT ![t] = d],
           \/ status[d] = "none" /\ status' = [status EXCEPT ![d] = "active"]
                /\ live' = live \cup {t}
           \/ UNCHANGED status /\ calls[r.call].kind = "rotate"
                /\ live' = (live \ {calls[r.call].key}) \cup {t}
    PROVE  Fresh'
<1>1. /\ r.call \in Calls /\ calls[r.call] # None
      /\ \A k \in Calls :
           /\ Waiting(k)' = Waiting(k)
           /\ (calls'[k] # None) = (calls[k] # None)
           /\ calls[k] # None => Same(k)
           /\ calls'[k] = calls[k]
                \/ (k = r.call /\ calls[k].answer = None /\ calls'[k].answer = t)
  BY AnswerIsFirst
<1>2. \A u \in Tokens : owner'[u] = IF u = t THEN d ELSE owner[u]
  BY DEF Typed, TypeOK
<1>3. /\ \A e \in Devices : secrets[e] # t
      /\ \A j \in Calls : calls[j] # None /\ calls[j].kind = "rotate" => calls[j].key # t
      /\ \A j \in Calls : Waiting(j) => calls[j].answer # t
  BY SessionAssumption DEF Typed, Owned, Waiting, Tokens
<1>4. \A j \in Calls : calls'[j] # None /\ calls'[j].kind = "rotate" =>
         calls'[j].key = calls[j].key /\ calls[j] # None /\ calls[j].kind = "rotate"
  BY <1>1 DEF Same
<1> SUFFICES ASSUME NEW k \in Calls, Holding(k)'
             PROVE  Unseen(calls[k].answer, k)'
  BY DEF Fresh
<1>5. CASE calls'[k].answer = t
  <2>1. t \in live'
    OBVIOUS
  <2>2. \A j \in Calls \ {k} : Waiting(j)' => calls'[j].answer # t
    <3> SUFFICES ASSUME NEW j \in Calls, j # k, Waiting(j)' PROVE calls'[j].answer # t
      OBVIOUS
    <3>1. Waiting(k) /\ Waiting(j)
      BY <1>1 DEF Holding
    <3>2. k = r.call
      BY <1>1, <1>3, <1>5, <3>1
    <3> QED BY <1>1, <1>3, <3>1, <3>2
  <2> QED BY <1>3, <1>4, <1>5, <2>1, <2>2 DEF Unseen
<1>6. CASE calls'[k].answer # t
  <2> DEFINE u == calls[k].answer
  <2>1. calls'[k] = calls[k] /\ Holding(k)
    BY <1>1, <1>6 DEF Holding
  <2>2. u \in Tokens /\ u # t /\ Unseen(u, k) /\ calls'[k].answer = u
    BY <1>6, <2>1 DEF Fresh, Holding
  <2>3. owner[u] \in Devices
    BY <2>1, <2>2 DEF Holding, Waiting, Typed, TypeOK, Owned
  <2> HIDE DEF u
  <2>4. owner'[u] = owner[u]
    BY <1>2, <2>2
  <2>5. u \in live' \/ status'[owner[u]] # "active"
    <3>1. CASE status[d] = "none" /\ status' = [status EXCEPT ![d] = "active"]
                /\ live' = live \cup {t}
      <4>1. owner[u] # d
        BY <2>2, <3>1 DEF Unborn
      <4>2. status'[owner[u]] = status[owner[u]]
        BY <2>3, <3>1, <4>1 DEF Typed, TypeOK
      <4> QED BY <2>2, <3>1, <4>2 DEF Unseen
    <3>2. CASE UNCHANGED status /\ calls[r.call].kind = "rotate"
                /\ live' = (live \ {calls[r.call].key}) \cup {t}
      <4>1. calls[r.call].key # u
        BY <1>1, <2>2, <3>2 DEF Unseen
      <4> QED BY <2>2, <3>2, <4>1 DEF Unseen
    <3> QED BY <3>1, <3>2
  <2>6. \A j \in Calls \ {k} : Waiting(j)' => calls'[j].answer # u
    BY <1>1, <2>2 DEF Unseen
  <2> QED BY <1>4, <2>2, <2>4, <2>5, <2>6 DEF Unseen
<1> QED BY <1>5, <1>6

\* What the server does keeps what is held unseen.
LEMMA FreshServer ==
    ASSUME Typed, Once, Unborn, Fresh, ServerStep
    PROVE  Fresh'
<1>1. UNCHANGED secrets
  BY PluginAlone
<1>2. ASSUME NEW r \in net, calls' = Answered(r, Denied), UNCHANGED <<owner, live, status>>
      PROVE  Fresh'
  BY <1>1, <1>2, AnswerIsFirst, FreshFrame
<1>3. ASSUME NEW r \in net, PairDevice(r)
      PROVE  Fresh'
  <2>1. CASE calls' = Answered(r, Denied) /\ UNCHANGED server
    BY <1>2, <2>1 DEF server
  <2>2. ASSUME NEW d \in NextOf(Devices, {e \in Devices : status[e] # "none"}),
               NEW t \in NextOf(Tokens, {u \in Tokens : owner[u] # None}),
               status' = [status EXCEPT ![d] = "active"],
               owner' = [owner EXCEPT ![t] = d],
               live' = live \cup {t},
               calls' = Answered(r, t)
        PROVE  Fresh'
    <3>1. d \in Devices /\ status[d] = "none" /\ t \in Tokens /\ owner[t] = None
      BY NextIsFree
    <3> QED BY <1>1, <2>2, <3>1, FreshIssued
  <2> QED BY <1>3, <2>1, <2>2 DEF PairDevice
<1>4. ASSUME NEW r \in net, AuthenticateToken(r)
      PROVE  Fresh'
  <2>1. UNCHANGED <<owner, live, status>>
    BY <1>4 DEF AuthenticateToken, server
  <2>2. CASE calls' = calls
    BY <1>1, <2>1, <2>2, FreshFrame DEF Same, Waiting
  <2> QED BY <1>2, <1>4, <2>1, <2>2 DEF AuthenticateToken
<1>5. ASSUME NEW r \in net, RotateToken(r)
      PROVE  Fresh'
  <2>1. calls[r.call].kind = "rotate" /\ UNCHANGED status
    BY <1>5 DEF RotateToken, Typed, Sent
  <2>2. CASE calls' = Answered(r, Denied) /\ UNCHANGED <<owner, live>>
    BY <1>2, <2>1, <2>2
  <2>3. ASSUME NEW t \in NextOf(Tokens, {u \in Tokens : owner[u] # None}),
               owner' = [owner EXCEPT ![t] = owner[calls[r.call].key]],
               live' = (live \ {calls[r.call].key}) \cup {t},
               calls' = Answered(r, t)
        PROVE  Fresh'
    <3>1. t \in Tokens /\ owner[t] = None
      BY NextIsFree
    <3>2. r.call \in Calls /\ calls[r.call] # None
      BY DEF Typed, TypeOK, Sent, Request
    <3>3. calls[r.call].key \in Tokens /\ owner[calls[r.call].key] # None
      BY <2>1, <3>2, CallFields DEF Typed, Owned
    <3>4. owner[calls[r.call].key] \in Devices
      BY <3>3 DEF Typed, TypeOK
    <3> QED BY <1>1, <2>1, <2>3, <3>1, <3>4, FreshIssued
  <2> QED BY <1>5, <2>2, <2>3 DEF RotateToken
<1>6. ASSUME NEW d \in Devices, SetDeviceStatus(d)
      PROVE  Fresh'
  <2>1. PICK s \in {"retired", "revoked"} : status' = [status EXCEPT ![d] = s]
    BY <1>6 DEF SetDeviceStatus
  <2>2. live' = {t \in live : owner[t] # d} /\ UNCHANGED <<owner, calls>>
    BY <1>6 DEF SetDeviceStatus
  <2>3. \A e \in Devices : status'[e] = IF e = d THEN s ELSE status[e]
    BY <2>1 DEF Typed, TypeOK
  <2>4. ASSUME NEW k \in Calls, Holding(k)
        PROVE  Unseen(calls[k].answer, k)'
    <3>1. Unseen(calls[k].answer, k) /\ owner[calls[k].answer] \in Devices
      BY <2>4 DEF Fresh, Holding, Waiting, Typed, TypeOK, Owned
    <3>2. calls[k].answer \in live' \/ status'[owner[calls[k].answer]] # "active"
      BY <2>2, <2>3, <3>1 DEF Unseen
    <3> QED BY <1>1, <2>2, <3>1, <3>2 DEF Unseen, Waiting
  <2> QED BY <2>2, <2>4 DEF Fresh, Holding, Waiting
<1>7. ASSUME NEW c \in Codes, CodeExpires(c)
      PROVE  Fresh'
  <2>1. UNCHANGED <<owner, live, status, calls>>
    BY <1>7 DEF CodeExpires
  <2> QED BY <1>1, <2>1, FreshFrame DEF Same, Waiting
<1> QED BY <1>3, <1>4, <1>5, <1>6, <1>7 DEF ServerStep

\* What the plugin does keeps what is held unseen.
LEMMA FreshPlugin ==
    ASSUME Typed, Fresh, CallStep \/ StartRun \/ UserStep \/ \E i \in alive : RunStep(i)
    PROVE  Fresh'
<1>n. None \notin Tokens
  BY SessionAssumption DEF Tokens
<1>1. UNCHANGED <<owner, live, status>>
  BY ServerAlone DEF server
<1>2. ASSUME NEW k \in Calls, Waiting(k), calls' = Done(k),
             \A d \in Devices : \/ secrets'[d] = secrets[d]
                                \/ Holding(k) /\ secrets'[d] = calls[k].answer
      PROVE  Fresh'
  <2>1. /\ calls[k] # None /\ calls'[k] # None /\ Same(k) /\ ~Waiting(k)'
        /\ \A j \in Calls \ {k} : calls'[j] = calls[j]
    BY <1>2, CallEnds DEF Waiting
  <2>2. \A j \in Calls : calls'[j] # None => calls[j] # None /\ Same(j)
    BY <2>1 DEF Same
  <2>3. \A j \in Calls : Waiting(j)' =>
           Waiting(j) /\ calls'[j].answer \in {calls[j].answer, None, Denied}
    BY <2>1 DEF Waiting
  <2> QED BY <1>1, <1>2, <2>1, <2>2, <2>3, FreshFrame
<1>3. ASSUME NEW k \in Calls, Paired(k) \/ Rotated(k) \/ Refused(k)
      PROVE  Fresh'
  <2>1. /\ Waiting(k) /\ calls' = Done(k)
        /\ \/ UNCHANGED secrets
           \/ /\ calls[k].answer \in Tokens
              /\ \E x : secrets' = [secrets EXCEPT ![x] = calls[k].answer]
    BY <1>3 DEF Paired, Rotated, Refused, Stored
  <2>2. \A d \in Devices : \/ secrets'[d] = secrets[d]
                           \/ Holding(k) /\ secrets'[d] = calls[k].answer
    BY <2>1 DEF Typed, TypeOK, Holding
  <2> QED BY <1>2, <2>1, <2>2
<1>4. ASSUME NEW k \in Calls, AttemptFails(k)
      PROVE  Fresh'
  <2>1. UNCHANGED secrets /\ Waiting(k)
    BY <1>4 DEF AttemptFails
  <2>2. /\ calls'[k] # None /\ Same(k) /\ calls'[k].answer = None
        /\ \A j \in Calls \ {k} : calls'[j] = calls[j]
    BY <1>4, CallFails
  <2>3. \A j \in Calls : calls'[j] # None => calls[j] # None /\ Same(j)
    BY <2>1, <2>2 DEF Waiting, Same
  <2>4. \A j \in Calls : Waiting(j)' =>
           Waiting(j) /\ calls'[j].answer \in {calls[j].answer, None, Denied}
    BY <2>1, <2>2 DEF Waiting
  <2> QED BY <1>1, <2>1, <2>3, <2>4, FreshFrame
<1>5. ASSUME NEW kind, NEW key, Begin(kind, key), UNCHANGED secrets,
             \/ kind = "pair" /\ key \in Codes
             \/ kind = "rotate" /\ key \in Tokens /\ \E d \in Devices : key = secrets[d]
      PROVE  Fresh'
  <2>1. PICK k \in Calls :
           /\ calls[k] = None
           /\ calls'[k] = [kind |-> kind, inst |-> cur, key |-> key, try |-> 1,
                           state |-> "waiting", answer |-> None]
           /\ \A j \in Calls \ {k} : calls'[j] = calls[j]
    BY <1>5, CallBegun DEF Typed
  <2>2. calls'[k].kind = kind /\ calls'[k].key = key /\ calls'[k].answer = None
    BY <2>1
  <2>3. ASSUME NEW j \in Calls, Holding(j)'
        PROVE  Unseen(calls[j].answer, j)'
    <3>1. j # k /\ Holding(j) /\ calls'[j] = calls[j]
      BY <1>n, <2>1, <2>2, <2>3 DEF Holding, Waiting
    <3> DEFINE t == calls[j].answer
    <3>2. t \in Tokens /\ Unseen(t, j) /\ calls'[j].answer = t
      BY <3>1 DEF Fresh, Holding
    <3> HIDE DEF t
    <3>3. kind = "rotate" => key # t
      BY <1>5, <3>2 DEF Unseen
    <3>4. \A i \in Calls : calls'[i] # None /\ calls'[i].kind = "rotate" => calls'[i].key # t
      BY <2>1, <2>2, <3>2, <3>3 DEF Unseen
    <3>5. \A i \in Calls \ {j} : Waiting(i)' => calls'[i].answer # t
      BY <1>n, <2>1, <2>2, <3>2 DEF Unseen, Waiting
    <3> QED BY <1>1, <1>5, <3>2, <3>4, <3>5 DEF Unseen
  <2> QED BY <2>3 DEF Fresh
<1>6. ASSUME NEW c \in Codes, StartPairing(c)
      PROVE  Fresh'
  BY <1>5, <1>6 DEF StartPairing
<1>7. ASSUME StartRotation
      PROVE  Fresh'
  <2>1. mem[cur].device \in Devices
    BY <1>7 DEF StartRotation, HasClient, Typed, TypeOK, Data
  <2>2. secrets[mem[cur].device] \in Tokens
    BY <1>7, <2>1 DEF StartRotation, HasClient, Typed, TypeOK
  <2> QED BY <1>5, <1>7, <2>1, <2>2 DEF StartRotation
<1>8. ASSUME UNCHANGED <<calls, secrets>>
      PROVE  Fresh'
  BY <1>1, <1>8, FreshFrame DEF Same, Waiting
<1>9. CASE CallStep
  BY <1>3, <1>4, <1>6, <1>7, <1>9 DEF CallStep
<1>10. CASE StartRun \/ \E i \in alive : RunStep(i)
  BY <1>8, <1>10 DEF StartRun, RunStep, RunWorks, RunCompletes, RunStops, RunRefused,
                     RunFails
<1>11. CASE UserStep
  <2>1. CASE Restart
    BY <2>1, RestartEndsCalls DEF Fresh, Holding
  <2>2. CASE ~Restart
    BY <1>8, <1>11, <2>2 DEF UserStep, PreviewInitialSync, PreviewEnds, ApproveInitialSync,
         Pause, Resume, CancelSync, SavePluginData, Reload
  <2> QED BY <2>1, <2>2
<1> QED BY <1>9, <1>10, <1>11

\* The credential of device d is taken, or a call has the one that will be.
Kept(d) ==
    status[d] = "active" /\ secrets[d] # None =>
        \/ secrets[d] \in live /\ owner[secrets[d]] = d
        \/ Heard(d)

\* A call that waits on with its answer is heard of.
LEMMA HeardStays ==
    ASSUME Typed, NEW d \in Devices, Heard(d),
           \A u \in Tokens : owner[u] # None => owner'[u] = owner[u],
           \A u \in live : owner[u] = d => u \in live',
           \A k \in Calls : Holding(k) /\ calls[k].kind = "rotate" /\ owner[calls[k].answer] = d
              => calls'[k] = calls[k]
    PROVE  Heard(d)'
<1>1. PICK k \in Calls : /\ Waiting(k)
                         /\ calls[k].kind = "rotate"
                         /\ calls[k].answer \in live
                         /\ owner[calls[k].answer] = d
  BY DEF Heard
<1>2. calls[k].answer \in Tokens /\ owner[calls[k].answer] # None
  BY <1>1 DEF Typed, TypeOK, Owned
<1>3. calls'[k] = calls[k] /\ calls[k].answer \in live'
  BY <1>1, <1>2 DEF Holding
<1> QED BY <1>1, <1>2, <1>3 DEF Heard, Waiting

\* The server keeps a device's credential, or a call hears of the new one, or
\* the device is none that is promised anything.
LEMMA KeptServer ==
    ASSUME Typed, Once, Unborn, ServerStep, NEW d \in Devices, Kept(d), d \notin unheard'
    PROVE  Kept(d)'
<1>1. UNCHANGED secrets
  BY PluginAlone
<1>n. None \notin Tokens /\ Denied \notin Tokens
  BY SessionAssumption DEF Tokens
<1>2. secrets[d] # None => secrets[d] \in Tokens /\ owner[secrets[d]] # None
  BY DEF Typed, TypeOK, Owned
<1>3. ASSUME status'[d] = status[d],
             \A u \in Tokens : owner[u] # None => owner'[u] = owner[u],
             \A u \in live : owner[u] = d => u \in live',
             \A k \in Calls : Holding(k) /\ calls[k].kind = "rotate"
                  /\ owner[calls[k].answer] = d => calls'[k] = calls[k]
      PROVE  Kept(d)'
  <2>1. Heard(d) => Heard(d)'
    BY <1>3, HeardStays
  <2>2. secrets[d] # None /\ secrets[d] \in live /\ owner[secrets[d]] = d
          => secrets'[d] \in live' /\ owner'[secrets'[d]] = d
    BY <1>1, <1>2, <1>3
  <2> QED BY <1>1, <1>3, <2>1, <2>2 DEF Kept
<1>4. ASSUME NEW r \in net, NEW a \in Tokens \cup {None, Denied}, calls' = Answered(r, a)
      PROVE  \A k \in Calls : Holding(k) => calls'[k] = calls[k]
  BY <1>n, <1>4, AnswerIsFirst DEF Holding
<1>5. ASSUME NEW r \in net, PairDevice(r)
      PROVE  Kept(d)'
  <2>1. CASE calls' = Answered(r, Denied) /\ UNCHANGED server
    BY <1>3, <1>4, <2>1 DEF server
  <2>2. ASSUME NEW e \in NextOf(Devices, {f \in Devices : status[f] # "none"}),
               NEW t \in NextOf(Tokens, {u \in Tokens : owner[u] # None}),
               status' = [status EXCEPT ![e] = "active"],
               owner' = [owner EXCEPT ![t] = e],
               live' = live \cup {t},
               calls' = Answered(r, t)
        PROVE  Kept(d)'
    <3>1. e \in Devices /\ status[e] = "none" /\ t \in Tokens /\ owner[t] = None
      BY NextIsFree
    <3>2. \A u \in Tokens : owner[u] # None => owner'[u] = owner[u]
      BY <2>2, <3>1, OwnerGrows DEF Typed
    <3>3. CASE d = e
      BY <1>1, <3>1, <3>3 DEF Kept, Unborn
    <3>4. CASE d # e
      <4>1. status'[d] = status[d]
        BY <2>2, <3>4 DEF Typed, TypeOK
      <4>2. \A k \in Calls : Holding(k) => calls'[k] = calls[k]
        BY <1>4, <2>2, <3>1
      <4> QED BY <1>3, <2>2, <3>2, <4>1, <4>2
    <3> QED BY <3>3, <3>4
  <2> QED BY <1>5, <2>1, <2>2 DEF PairDevice
<1>6. ASSUME NEW r \in net, AuthenticateToken(r)
      PROVE  Kept(d)'
  <2>1. UNCHANGED <<owner, live, status>>
    BY <1>6 DEF AuthenticateToken, server
  <2>2. \A k \in Calls : Holding(k) => calls'[k] = calls[k]
    BY <1>4, <1>6 DEF AuthenticateToken
  <2> QED BY <1>3, <2>1, <2>2
<1>7. ASSUME NEW r \in net, RotateToken(r)
      PROVE  Kept(d)'
  <2> DEFINE old == calls[r.call].key
  <2>1. UNCHANGED status /\ calls[r.call].kind = "rotate"
    BY <1>7 DEF RotateToken, Typed, Sent
  <2>2. CASE calls' = Answered(r, Denied) /\ UNCHANGED <<owner, live>>
    BY <1>3, <1>4, <2>1, <2>2
  <2>3. ASSUME NEW t \in NextOf(Tokens, {u \in Tokens : owner[u] # None}),
               owner' = [owner EXCEPT ![t] = owner[old]],
               live' = (live \ {old}) \cup {t},
               calls' = Answered(r, t),
               unheard' = IF Unawaited(r) THEN unheard \cup {owner[old]} ELSE unheard
        PROVE  Kept(d)'
    <3>1. t \in Tokens /\ owner[t] = None
      BY NextIsFree
    <3>2. r.call \in Calls /\ calls[r.call] # None
      BY DEF Typed, TypeOK, Sent, Request
    <3>3. old \in Tokens /\ owner[old] # None
      BY <2>1, <3>2, CallFields DEF Typed, Owned
    <3>4. owner[old] \in Devices
      BY <3>3 DEF Typed, TypeOK
    <3>5. owner'[t] = owner[old] /\ \A u \in Tokens : owner[u] # None => owner'[u] = owner[u]
      BY <2>3, <3>1, <3>4, OwnerGrows DEF Typed
    <3>6. CASE d = owner[old]
      <4>1. ~Unawaited(r)
        BY <2>3, <3>6
      <4>2. Waiting(r.call)' /\ calls'[r.call].answer = t
        BY <2>3, <3>1, <4>1, AnswerIsFirst
      <4>3. calls'[r.call].kind = "rotate"
        BY <2>1, <2>3, <3>1, <3>2, AnswerIsFirst DEF Same
      <4>4. t \in live' /\ owner'[t] = d
        BY <2>3, <3>5, <3>6
      <4> QED BY <3>2, <4>2, <4>3, <4>4 DEF Kept, Heard
    <3>7. CASE d # owner[old]
      <4>1. \A u \in live : owner[u] = d => u \in live'
        BY <2>3, <3>7
      <4>2. \A k \in Calls : Holding(k) => calls'[k] = calls[k]
        BY <1>4, <2>3, <3>1
      <4> QED BY <1>3, <2>1, <3>5, <4>1, <4>2
    <3> QED BY <3>6, <3>7
  <2> QED BY <1>7, <2>2, <2>3 DEF RotateToken
<1>8. ASSUME NEW e \in Devices, SetDeviceStatus(e)
      PROVE  Kept(d)'
  <2>1. PICK s \in {"retired", "revoked"} : status' = [status EXCEPT ![e] = s]
    BY <1>8 DEF SetDeviceStatus
  <2>2. live' = {t \in live : owner[t] # e} /\ UNCHANGED <<owner, calls>>
    BY <1>8 DEF SetDeviceStatus
  <2>3. CASE d = e
    BY <2>1, <2>3 DEF Kept, Typed, TypeOK
  <2>4. CASE d # e
    <3>1. status'[d] = status[d]
      BY <2>1, <2>4 DEF Typed, TypeOK
    <3> QED BY <1>3, <2>2, <2>4, <3>1
  <2> QED BY <2>3, <2>4
<1>9. ASSUME NEW c \in Codes, CodeExpires(c)
      PROVE  Kept(d)'
  BY <1>3, <1>9 DEF CodeExpires
<1> QED BY <1>5, <1>6, <1>7, <1>8, <1>9 DEF ServerStep

\* What the plugin does keeps the credential, but of a device that is crossed
\* or whose new token is lost.
LEMMA KeptPlugin ==
    ASSUME Typed, Pairing, Fresh, NEW d \in Devices, Kept(d),
           CallStep \/ StartRun \/ UserStep \/ \E i \in alive : RunStep(i),
           d \notin unheard', d \notin crossed'
    PROVE  Kept(d)'
<1>n. None \notin Tokens
  BY SessionAssumption DEF Tokens
<1>1. UNCHANGED <<owner, live, status>>
  BY ServerAlone DEF server
<1>2. \A t \in live : owner[t] = d => t \in Tokens
  BY DEF Typed, TypeOK
<1>3. ASSUME UNCHANGED secrets,
             \A k \in Calls : Holding(k) /\ calls[k].kind = "rotate"
                  /\ owner[calls[k].answer] = d => calls'[k] = calls[k]
      PROVE  Kept(d)'
  <2>1. Heard(d) => Heard(d)'
    BY <1>1, <1>3, HeardStays
  <2> QED BY <1>1, <1>3, <2>1 DEF Kept
<1>4. ASSUME NEW k \in Calls, Paired(k)
      PROVE  Kept(d)'
  <2> DEFINE t == calls[k].answer
  <2>1. /\ Holding(k) /\ calls[k].kind = "pair" /\ calls' = Done(k)
        /\ secrets' = [secrets EXCEPT ![owner[t]] = t]
    BY <1>4 DEF Paired, Stored, Holding
  <2>2. \A j \in Calls \ {k} : calls'[j] = calls[j]
    BY <2>1, CallEnds DEF Holding, Waiting
  <2>3. t \in Tokens /\ (t \in live \/ status[owner[t]] # "active")
    BY <2>1 DEF Fresh, Unseen, Holding
  <2> HIDE DEF t
  <2>4. CASE owner[t] = d
    <3>1. secrets'[d] = t
      BY <2>1, <2>4 DEF Typed, TypeOK
    <3> QED BY <1>1, <2>3, <2>4, <3>1 DEF Kept
  <2>5. CASE owner[t] # d
    <3>1. secrets'[d] = secrets[d]
      BY <2>1, <2>5 DEF Typed, TypeOK
    <3>2. Heard(d) => Heard(d)'
      BY <1>1, <2>1, <2>2, HeardStays
    <3> QED BY <1>1, <3>1, <3>2 DEF Kept
  <2> QED BY <2>4, <2>5
<1>5. ASSUME NEW k \in Calls, Rotated(k)
      PROVE  Kept(d)'
  <2> DEFINE t == calls[k].answer
             x == mem[calls[k].inst].device
  <2>1. /\ Holding(k) /\ calls[k].kind = "rotate" /\ calls' = Done(k)
        /\ secrets' = [secrets EXCEPT ![x] = t]
        /\ UNCHANGED crossed
        /\ unheard' = IF owner[t] = x THEN unheard ELSE unheard \cup {owner[t]}
    BY <1>5 DEF Rotated, Stored, Holding, plugin
  <2>2. \A j \in Calls \ {k} : calls'[j] = calls[j]
    BY <2>1, CallEnds DEF Holding, Waiting
  <2>3. t \in Tokens /\ (t \in live \/ status[owner[t]] # "active")
    BY <2>1 DEF Fresh, Unseen, Holding
  <2>4. owner[t] = x \/ x \in crossed
    BY <2>1, <2>3 DEF Pairing, Rotating, Holding, RotationOwned, Own
  <2> HIDE DEF t, x
  <2>5. CASE d = x
    <3>1. owner[t] = d
      BY <2>1, <2>4, <2>5
    <3>2. secrets'[d] = t
      BY <2>1, <2>5 DEF Typed, TypeOK
    <3> QED BY <1>1, <2>3, <3>1, <3>2 DEF Kept
  <2>6. CASE d # x
    <3>1. secrets'[d] = secrets[d]
      BY <2>1, <2>6 DEF Typed, TypeOK
    <3>2. owner[t] # d
      BY <2>1, <2>6
    <3>3. Heard(d) => Heard(d)'
      <4>1. \A j \in Calls : Holding(j) /\ owner[calls[j].answer] = d => calls'[j] = calls[j]
        BY <2>2, <3>2 DEF t
      <4> QED BY <1>1, <4>1, HeardStays
    <3> QED BY <1>1, <3>1, <3>3 DEF Kept
  <2> QED BY <2>5, <2>6
<1>6. ASSUME NEW k \in Calls, Refused(k)
      PROVE  Kept(d)'
  <2>1. Waiting(k) /\ calls[k].answer = Denied /\ calls' = Done(k) /\ UNCHANGED secrets
    BY <1>6 DEF Refused
  <2>2. \A j \in Calls \ {k} : calls'[j] = calls[j]
    BY <2>1, CallEnds DEF Waiting
  <2>3. Denied \notin Tokens
    BY SessionAssumption DEF Tokens
  <2> QED BY <1>3, <2>1, <2>2, <2>3 DEF Holding
<1>7. ASSUME NEW k \in Calls, AttemptFails(k)
      PROVE  Kept(d)'
  <2>1. UNCHANGED secrets /\ unheard' = unheard \cup Lost(k)
    BY <1>7 DEF AttemptFails
  <2>2. \A j \in Calls \ {k} : calls'[j] = calls[j]
    BY <1>7, CallFails
  <2>3. ~(Holding(k) /\ calls[k].kind = "rotate" /\ owner[calls[k].answer] = d)
    BY <2>1 DEF Lost, Holding
  <2> QED BY <1>3, <2>1, <2>2, <2>3
<1>8. ASSUME NEW kind, NEW key, Begin(kind, key), UNCHANGED secrets,
             \/ kind = "pair" /\ key \in Codes
             \/ kind = "rotate" /\ key \in Tokens
      PROVE  Kept(d)'
  <2>1. PICK k \in Calls : calls[k] = None /\ \A j \in Calls \ {k} : calls'[j] = calls[j]
    BY <1>8, CallBegun DEF Typed
  <2> QED BY <1>3, <1>8, <2>1 DEF Holding, Waiting
<1>9. ASSUME NEW c \in Codes, StartPairing(c)
      PROVE  Kept(d)'
  BY <1>8, <1>9 DEF StartPairing
<1>10. ASSUME StartRotation
       PROVE  Kept(d)'
  <2>1. mem[cur].device \in Devices
    BY <1>10 DEF StartRotation, HasClient, Typed, TypeOK, Data
  <2>2. secrets[mem[cur].device] \in Tokens
    BY <1>10, <2>1 DEF StartRotation, HasClient, Typed, TypeOK
  <2> QED BY <1>8, <1>10, <2>2 DEF StartRotation
<1>11. ASSUME UNCHANGED <<calls, secrets>>
       PROVE  Kept(d)'
  BY <1>3, <1>11
<1>12. CASE CallStep
  BY <1>4, <1>5, <1>6, <1>7, <1>9, <1>10, <1>12 DEF CallStep
<1>13. CASE StartRun \/ \E i \in alive : RunStep(i)
  BY <1>11, <1>13 DEF StartRun, RunStep, RunWorks, RunCompletes, RunStops, RunRefused,
                      RunFails
<1>14. CASE UserStep
  <2>1. CASE Restart
    <3>1. /\ UNCHANGED secrets
          /\ unheard' = unheard \cup UNION {Lost(k) : k \in {j \in Calls : Waiting(j)}}
      BY <2>1 DEF Restart
    <3>2. \A k \in Calls : Waiting(k) => d \notin Lost(k)
      BY <3>1
    <3>3. ~Heard(d)
      BY <1>2, <3>2 DEF Heard, Lost
    <3> QED BY <1>1, <3>1, <3>3 DEF Kept
  <2>2. CASE ~Restart
    BY <1>11, <1>14, <2>2 DEF UserStep, PreviewInitialSync, PreviewEnds, ApproveInitialSync,
         Pause, Resume, CancelSync, SavePluginData, Reload
  <2> QED BY <2>1, <2>2
<1> QED BY <1>12, <1>13, <1>14

\* An accident that happened has happened.
LEMMA HistoryGrows ==
    ASSUME [Next]_vars
    PROVE  unheard \subseteq unheard' /\ crossed \subseteq crossed'
<1>1. CASE ServerStep
  BY <1>1 DEF ServerStep, PairDevice, AuthenticateToken, RotateToken, SetDeviceStatus,
              CodeExpires, history
<1>2. CASE CallStep
  BY <1>2 DEF CallStep, StartPairing, StartRotation, AttemptFails, Paired, Rotated, Refused,
              history
<1>3. CASE UserStep
  BY <1>3 DEF UserStep, PreviewInitialSync, PreviewEnds, ApproveInitialSync, Pause, Resume,
              CancelSync, SavePluginData, Reload, Restart, history
<1>4. CASE StartRun \/ \E i \in alive : RunStep(i)
  BY <1>4 DEF StartRun, RunStep, RunWorks, RunCompletes, RunStops, RunRefused, RunFails,
              history
<1>5. CASE UNCHANGED vars
  BY <1>5 DEF vars
<1> QED BY <1>1, <1>2, <1>3, <1>4, <1>5 DEF Next

\* The secret that is stored for an active device always opens the vault, or a
\* rotation that will store the one that does has heard of it, but where the
\* answer of a rotation was lost or a pairing was made amid a rotation.
THEOREM CredentialAlwaysLives ==
    Spec => []CredentialLives
<1> DEFINE Inv == Unborn /\ Once /\ Fresh /\ CredentialLives
<1>1. CredentialLives <=> \A d \in Devices \ (unheard \cup crossed) : Kept(d)
  BY DEF CredentialLives, Kept
<1>2. ASSUME Typed, Confirmation, Pairing, Inv, [Next]_vars
      PROVE  Inv'
  <2>1. Unborn' /\ Once'
    BY <1>2, UnbornStep, OnceStep
  <2>2. Fresh'
    <3>1. CASE UNCHANGED vars
      BY <1>2, <3>1, FreshFrame DEF vars, Same, Waiting
    <3> QED BY <1>2, <3>1, FreshServer, FreshPlugin DEF Next
  <2>3. ASSUME NEW d \in Devices \ (unheard' \cup crossed')
        PROVE  Kept(d)'
    <3>1. d \in Devices /\ d \notin unheard' /\ d \notin crossed' /\ Kept(d)
      BY <1>1, <1>2, HistoryGrows
    <3>2. CASE UNCHANGED vars
      BY <3>1, <3>2 DEF vars, Kept, Heard, Waiting
    <3> QED BY <1>2, <3>1, <3>2, KeptServer, KeptPlugin DEF Next
  <2>4. CredentialLives'
    BY <2>3 DEF CredentialLives, Kept
  <2> QED BY <2>1, <2>2, <2>4
<1>3. Init => Inv
  BY CredentialInit
<1>4. Inv => CredentialLives
  OBVIOUS
<1> HIDE DEF Inv
<1>5. Typed /\ Confirmation /\ Pairing /\ Inv /\ [Next]_vars => Inv'
  BY <1>2
<1> QED BY <1>3, <1>4, <1>5, AlwaysTyped, AlwaysConfirmed, AlwaysPaired, PTL DEF Spec
=============================================================================
