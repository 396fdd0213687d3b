--------------------------- MODULE PluginSession ---------------------------
(***************************************************************************)
(* The plugin's session with its server (plugin/src/main.ts, data.ts and   *)
(* the request loop of api-client.ts) and the identities it lives on       *)
(* (internal/store/identity.go): pairing, the credential and its rotation, *)
(* the preview and the confirmation of a first sync, runs, pause and       *)
(* cancel, reloads and crashes of Obsidian, lost requests and answers.     *)
(*                                                                         *)
(* JavaScript runs one callback at a time, so an action is what happens    *)
(* between two awaits that do I/O.  A call of the API is a request that    *)
(* the server executes at some later moment and an answer that the plugin  *)
(* takes at a still later one; the client gives up on an attempt at any    *)
(* moment and sends the request again, while the first may still arrive.   *)
(*                                                                         *)
(* Unloading the plugin (main.ts, onunload) clears its timers and nothing  *)
(* else: what a run or a call of the old instance awaits comes back to the *)
(* old object and its old copy of data.json.  Hence an instance per load.  *)
(*                                                                         *)
(* A run of the sync engine is one client, with the token it was made      *)
(* with, that writes the sync state at its checkpoints; SyncEngine has the *)
(* rest.  Left out: the settings that change no guard, the vault of a      *)
(* code, scopes, and a modal that outlives its instance.                   *)
(***************************************************************************)
EXTENDS Naturals, FiniteSets

CONSTANTS
    None,           \* the empty string of a setting, an absent secret, null
    Denied,         \* the answer 401 or 404 to a call
    Attempts,       \* attempts of a request (api-client.ts, request)
    MaxCodes,       \* bound: pairing codes the administrator hands out
    MaxDevices,     \* bound: devices registered in a behaviour
    MaxTokens,      \* bound: tokens issued in a behaviour
    MaxCalls,       \* bound: pairings and rotations called in a behaviour
    MaxLoads,       \* bound: times the plugin is loaded
    MaxEvents       \* bound: calls begun, things gone wrong or interfered with

Codes == 1 .. MaxCodes
Devices == 1 .. MaxDevices
Tokens == 1 .. MaxTokens
Calls == 1 .. MaxCalls
Instances == 1 .. MaxLoads

ASSUME SessionAssumption ==
    /\ None \notin Nat
    /\ Denied \notin Nat \cup {None}
    /\ Attempts \in Nat \ {0}
    /\ {MaxCodes, MaxDevices, MaxTokens, MaxCalls, MaxLoads} \subseteq Nat \ {0}
    /\ MaxEvents \in Nat

VARIABLES
    codes,      \* table pairing_codes: may the code still be used
    status,     \* table devices: status of each device
    pairedBy,   \* history: the code a device was paired with
    owner,      \* table auth_tokens: the device of each token
    live,       \* table auth_tokens: the tokens with revoked_at IS NULL
    net,        \* requests the server may still execute
    calls,      \* awaited calls of pairDevice and rotateCredential
    secrets,    \* Obsidian's SecretStorage, by device
    saved,      \* data.json
    mem,        \* per instance, its PersistedData
    run,        \* per instance, syncPromise: the run in progress
    cancel,     \* per instance, cancelRequested
    preview,    \* per instance, the device whose preview is made or shown
    alive,      \* instances whose callbacks still run
    cur,        \* the loaded instance
    events,    \* bound: how much has been spoiled
    confirmed,  \* history: devices whose own preview was confirmed
    crossed,    \* history: devices paired amid older work of the instance
    unheard     \* history: devices whose new token reached no storage

server == <<codes, status, pairedBy, owner, live>>
plugin == <<mem, run, cancel, preview, alive, cur>>
history == <<confirmed, crossed, unheard>>
vars == <<codes, status, pairedBy, owner, live, net, calls, secrets, saved,
          mem, run, cancel, preview, alive, cur, events, confirmed, crossed,
          unheard>>

-----------------------------------------------------------------------------
(* Data.                                                                   *)

\* PersistedData.  source abstracts cursor, files, outbox and the rest of the
\* sync state: the devices as which it was written since it was last reset.
Data == [schema : {"older", "current"}, device : Devices \cup {None},
         mode : BOOLEAN, completed : BOOLEAN, paused : BOOLEAN,
         source : SUBSET Devices]

CallOf(kind, keys) ==
    [kind : {kind}, inst : Instances, key : keys, try : 1 .. Attempts,
     state : {"waiting", "done"}, answer : Tokens \cup {None, Denied}]

\* null is no call.
ASSUME NullAssumption == None \notin CallOf("pair", Codes) \cup CallOf("rotate", Tokens)

Call == CallOf("pair", Codes) \cup CallOf("rotate", Tokens) \cup {None}

Request == [call : Calls, try : 1 .. Attempts, stage : {"sent", "admitted"}]

Run == [device : Devices, token : Tokens, initial : BOOLEAN] \cup {None}

Blank == [schema |-> "current", device |-> None, mode |-> FALSE,
          completed |-> FALSE, paused |-> FALSE, source |-> {}]

\* Mutant: what an older schema wrote is taken as it is.
MigratedAsIs(d) == [d EXCEPT !.schema = "current"]

\* migrateData: another schema version loses its pairing and its sync state.
Migrated(d) == IF d.schema = "current" THEN d ELSE Blank

\* Mutant: the tracked files stay.
ResetKeepingFiles(d, dev) ==
    [d EXCEPT !.device = dev, !.mode = FALSE, !.completed = FALSE]

\* pairDevice: the new identity, and resetSyncState.
Repaired(d, dev) ==
    [d EXCEPT !.device = dev, !.mode = FALSE, !.completed = FALSE, !.source = {}]

\* The first identity of S that is not taken.
NextOf(S, taken) == {x \in S \ taken : \A y \in S \ taken : x <= y}

Waiting(k) == calls[k] # None /\ calls[k].state = "waiting"

\* A vault without data, or one whose plugin was updated from an older schema.
Init ==
    /\ codes = [c \in Codes |-> "open"]
    /\ pairedBy = [d \in Devices |-> None]
    /\ net = {}
    /\ calls = [k \in Calls |-> None]
    /\ \/ /\ saved = Blank
          /\ status = [d \in Devices |-> "none"]
          /\ owner = [t \in Tokens |-> None]
          /\ live = {}
          /\ secrets = [d \in Devices |-> None]
       \/ /\ saved = [Blank EXCEPT !.schema = "older", !.device = 1,
                                   !.completed = TRUE, !.source = {1}]
          /\ status = [d \in Devices |-> IF d = 1 THEN "active" ELSE "none"]
          /\ owner = [t \in Tokens |-> IF t = 1 THEN 1 ELSE None]
          /\ live = {1}
          /\ secrets = [d \in Devices |-> IF d = 1 THEN 1 ELSE None]
    /\ mem = [i \in Instances |-> IF i = 1 THEN Migrated(saved) ELSE Blank]
    /\ run = [i \in Instances |-> None]
    /\ cancel = [i \in Instances |-> FALSE]
    /\ preview = [i \in Instances |-> None]
    /\ alive = {1}
    /\ cur = 1
    /\ events = 0
    /\ confirmed = {}
    /\ crossed = {}
    /\ unheard = {}

\* A call begins, something goes wrong, or somebody interferes.
Spend == events < MaxEvents /\ events' = events + 1

-----------------------------------------------------------------------------
(* The server: identity.go.                                                *)

\* The answer of a request reaches its call if that still awaits this attempt.
Answered(r, a) ==
    IF Waiting(r.call) /\ calls[r.call].try = r.try
    THEN [calls EXCEPT ![r.call].answer = a] ELSE calls

\* Nobody awaits the answer.
Unawaited(r) == ~(Waiting(r.call) /\ calls[r.call].try = r.try)

\* Mutant: only the expiry is looked at.
RedeemableUnexpired(c) == codes[c] # "expired"

\* used_at IS NULL and not expired.
Redeemable(c) == codes[c] = "open"

\* PairDevice, one transaction: a device, its token, and the code is used.
PairDevice(r) ==
    LET c == calls[r.call].key
    IN  /\ r \in net
        /\ calls[r.call].kind = "pair"
        /\ net' = net \ {r}
        /\ \/ /\ ~Redeemable(c)
              /\ calls' = Answered(r, Denied)
              /\ UNCHANGED server
           \/ \E d \in NextOf(Devices, {e \in Devices : status[e] # "none"}),
                 t \in NextOf(Tokens, {u \in Tokens : owner[u] # None}) :
              /\ Redeemable(c)
              /\ status' = [status EXCEPT ![d] = "active"]
              /\ pairedBy' = [pairedBy EXCEPT ![d] = c]
              /\ owner' = [owner EXCEPT ![t] = d]
              /\ live' = live \cup {t}
              /\ codes' = [codes EXCEPT ![c] = "used"]
              /\ calls' = Answered(r, t)
    /\ UNCHANGED <<secrets, saved, plugin, events, history>>

\* The token is not revoked and its device is active.
Authentic(t) == t \in live /\ status[owner[t]] = "active"

\* AuthenticateToken, before and outside the transaction of the handler.
AuthenticateToken(r) ==
    /\ r \in net
    /\ calls[r.call].kind = "rotate"
    /\ r.stage = "sent"
    /\ \/ /\ Authentic(calls[r.call].key)
          /\ net' = (net \ {r}) \cup {[r EXCEPT !.stage = "admitted"]}
          /\ calls' = calls
       \/ /\ ~Authentic(calls[r.call].key)
          /\ net' = net \ {r}
          /\ calls' = Answered(r, Denied)
    /\ UNCHANGED <<server, secrets, saved, plugin, events, history>>

\* Mutant: the transaction relies on the authentication.
RotatableOnceAdmitted(t) == TRUE

\* SELECT scopes FROM auth_tokens WHERE id=? AND revoked_at IS NULL.
Rotatable(t) == t \in live

\* RotateToken, one transaction: the new token, and the old one is revoked.
RotateToken(r) ==
    LET old == calls[r.call].key
    IN  /\ r \in net
        /\ r.stage = "admitted"
        /\ net' = net \ {r}
        /\ \/ /\ ~Rotatable(old)
              /\ calls' = Answered(r, Denied)
              /\ UNCHANGED <<owner, live, unheard>>
           \/ \E t \in NextOf(Tokens, {u \in Tokens : owner[u] # None}) :
              /\ Rotatable(old)
              /\ owner' = [owner EXCEPT ![t] = owner[old]]
              /\ live' = (live \ {old}) \cup {t}
              /\ calls' = Answered(r, t)
              /\ unheard' = IF Unawaited(r) THEN unheard \cup {owner[old]}
                            ELSE unheard
    /\ UNCHANGED <<codes, status, pairedBy, secrets, saved, plugin, events,
                   confirmed, crossed>>

\* SetDeviceStatus: the administrator retires or revokes a device.
SetDeviceStatus(d) ==
    /\ Spend
    /\ status[d] \notin {"none", "revoked"}
    /\ \E s \in {"retired", "revoked"} : status' = [status EXCEPT ![d] = s]
    /\ live' = {t \in live : owner[t] # d}
    /\ UNCHANGED <<codes, pairedBy, owner, net, calls, secrets, saved, plugin,
                   history>>

\* expires_at passes.
CodeExpires(c) ==
    /\ Spend
    /\ codes[c] = "open"
    /\ codes' = [codes EXCEPT ![c] = "expired"]
    /\ UNCHANGED <<status, pairedBy, owner, live, net, calls, secrets, saved,
                   plugin, history>>

-----------------------------------------------------------------------------
(* Calls of the plugin: pairDevice and rotateCredential.                   *)

\* The client and the first attempt of its request.
Begin(kind, key) ==
    \E k \in NextOf(Calls, {j \in Calls : calls[j] # None}) :
        /\ calls' = [calls EXCEPT ![k] =
              [kind |-> kind, inst |-> cur, key |-> key, try |-> 1,
               state |-> "waiting", answer |-> None]]
        /\ net' = net \cup {[call |-> k, try |-> 1, stage |-> "sent"]}
        /\ Spend

\* The user enters a code in the wizard.  Codes are numbered as first entered.
StartPairing(c) ==
    /\ \A b \in 1 .. (c - 1) : \E k \in Calls : /\ calls[k] # None
                                               /\ calls[k].kind = "pair"
                                               /\ calls[k].key = b
    /\ Begin("pair", c)
    /\ UNCHANGED <<server, secrets, saved, plugin, history>>

\* createClient finds a pairing and its secret.
HasClient(i) == mem[i].device # None /\ secrets[mem[i].device] # None

\* The user presses Rotate.
StartRotation ==
    /\ HasClient(cur)
    /\ Begin("rotate", secrets[mem[cur].device])
    /\ UNCHANGED <<server, secrets, saved, plugin, history>>

\* Mutant: one attempt too many.
MayRetryOnceMore(k) == calls[k].try <= Attempts

\* for (let attempt = 0; attempt < 3; attempt += 1).
MayRetry(k) == calls[k].try < Attempts

\* An answer that is lost on its way was a new token.
Lost(k) == IF calls[k].kind = "rotate" /\ calls[k].answer \in Tokens
           THEN {owner[calls[k].answer]} ELSE {}

\* The attempt fails with the network, a 429 or a 5xx, whatever becomes of its
\* request and its answer: the request is sent again, or the call fails.
AttemptFails(k) ==
    LET sent == {r \in net : r.call = k /\ r.try = calls[k].try}
    IN  /\ Waiting(k)
        /\ Spend
        /\ \E gone \in SUBSET sent :
             IF MayRetry(k)
             THEN /\ calls' = [calls EXCEPT ![k].try = @ + 1, ![k].answer = None]
                  /\ net' = (net \ gone) \cup
                        {[call |-> k, try |-> calls[k].try + 1, stage |-> "sent"]}
             ELSE /\ calls' = [calls EXCEPT ![k].state = "done", ![k].answer = None]
                  /\ net' = net \ gone
        /\ unheard' = unheard \cup Lost(k)
    /\ UNCHANGED <<server, secrets, saved, plugin, confirmed, crossed>>

Done(k) == [calls EXCEPT ![k].state = "done", ![k].answer = None]

\* The instance has older work under way: a run, a preview or a rotation.
Busy(i) ==
    \/ run[i] # None
    \/ preview[i] # None
    \/ \E k \in Calls : /\ Waiting(k)
                        /\ calls[k].kind = "rotate"
                        /\ calls[k].inst = i

\* Mutant: a stored secret is kept.
StoredOnce(d, t) == [secrets EXCEPT ![d] = IF @ = None THEN t ELSE @]

\* secretStorage.setSecret.
Stored(d, t) == [secrets EXCEPT ![d] = t]

\* The rest of pairDevice: secret, settings, resetSyncState, save.
Paired(k) ==
    LET i == calls[k].inst
        t == calls[k].answer
        d == owner[t]
    IN  /\ Waiting(k)
        /\ calls[k].kind = "pair"
        /\ t \in Tokens
        /\ secrets' = Stored(d, t)
        /\ mem' = [mem EXCEPT ![i] = Repaired(@, d)]
        /\ saved' = mem'[i]
        /\ calls' = Done(k)
        /\ crossed' = IF Busy(i) THEN crossed \cup {d} ELSE crossed
    /\ UNCHANGED <<server, net, run, cancel, preview, alive, cur, events,
                   confirmed, unheard>>

\* The rest of rotateCredential.  The secret's name is read from the settings
\* only now: after another pairing it is the name of that pairing's secret.
Rotated(k) ==
    LET i == calls[k].inst
        t == calls[k].answer
    IN  /\ Waiting(k)
        /\ calls[k].kind = "rotate"
        /\ t \in Tokens
        /\ secrets' = Stored(mem[i].device, t)
        /\ calls' = Done(k)
        /\ unheard' = IF owner[t] = mem[i].device THEN unheard
                      ELSE unheard \cup {owner[t]}
    /\ UNCHANGED <<server, net, saved, plugin, events, confirmed, crossed>>

\* The error is shown and the call is over.
Refused(k) ==
    /\ Waiting(k)
    /\ calls[k].answer = Denied
    /\ calls' = Done(k)
    /\ UNCHANGED <<server, net, secrets, saved, plugin, events, history>>

-----------------------------------------------------------------------------
(* The first sync: previewInitialSync, InitialSyncModal.                   *)

\* A run or the settings ask for it; the client is the pairing's of this moment.
PreviewInitialSync ==
    /\ HasClient(cur)
    /\ ~mem[cur].completed
    /\ ~mem[cur].mode
    /\ preview[cur] = None
    /\ preview' = [preview EXCEPT ![cur] = mem[cur].device]
    /\ UNCHANGED <<server, net, calls, secrets, saved, mem, run, cancel, alive,
                   cur, events, history>>

\* The preview fails or the modal is closed.
PreviewEnds ==
    /\ preview[cur] # None
    /\ preview' = [preview EXCEPT ![cur] = None]
    /\ UNCHANGED <<server, net, calls, secrets, saved, mem, run, cancel, alive,
                   cur, events, history>>

\* approveInitialSync: whatever device the preview was made for.
ApproveInitialSync ==
    /\ preview[cur] # None
    /\ preview' = [preview EXCEPT ![cur] = None]
    /\ mem' = [mem EXCEPT ![cur].mode = TRUE]
    /\ saved' = mem'[cur]
    /\ confirmed' = confirmed \cup {preview[cur]}
    /\ UNCHANGED <<server, net, calls, secrets, run, cancel, alive, cur, events,
                   crossed, unheard>>

-----------------------------------------------------------------------------
(* Runs: runSync, with the checkpoints of SyncEngine.run.                  *)

\* A timer, a command, an event or a button.
StartRun ==
    /\ ~mem[cur].paused
    /\ run[cur] = None
    /\ mem[cur].completed \/ mem[cur].mode
    /\ HasClient(cur)
    /\ run' = [run EXCEPT ![cur] =
          [device |-> mem[cur].device, token |-> secrets[mem[cur].device],
           initial |-> ~mem[cur].completed]]
    /\ UNCHANGED <<server, net, calls, secrets, saved, mem, cancel, preview, alive,
                   cur, events, history>>

\* The next checkpoint stops the run.
Stopped(i) == mem[i].paused \/ cancel[i]

\* The server answers the run's requests.
Served(i) == run[i] # None /\ Authentic(run[i].token)

\* The run has written something of its vault into the sync state.
Wrote(i) == [mem[i] EXCEPT !.source = @ \cup {owner[run[i].token]}]

\* Mutant: a request to cancel outlives the run.
RunEndsCancelled(i) ==
    /\ run' = [run EXCEPT ![i] = None]
    /\ cancel' = cancel
    /\ saved' = mem'[i]

\* The finally of runSync.
RunEnds(i) ==
    /\ run' = [run EXCEPT ![i] = None]
    /\ cancel' = [cancel EXCEPT ![i] = FALSE]
    /\ saved' = mem'[i]

\* The run gets on by a step: reconcileSnapshot, push or pull, and persist.
RunWorks(i) ==
    /\ Served(i)
    /\ ~Stopped(i)
    /\ mem' = [mem EXCEPT ![i] = Wrote(i)]
    /\ saved' = mem'[i]
    /\ UNCHANGED <<server, net, calls, secrets, run, cancel, preview, alive, cur,
                   events, history>>

\* It is through.  A first run notes that it was, whoever is paired by now.
RunCompletes(i) ==
    /\ Served(i)
    /\ ~Stopped(i)
    /\ mem' = [mem EXCEPT ![i] =
          IF run[i].initial
          THEN [Wrote(i) EXCEPT !.completed = TRUE, !.mode = FALSE]
          ELSE Wrote(i)]
    /\ RunEnds(i)
    /\ UNCHANGED <<server, net, calls, secrets, preview, alive, cur, events, history>>

\* SyncPausedError, at the next checkpoint.
RunStops(i) ==
    /\ run[i] # None
    /\ Stopped(i)
    /\ mem' = mem
    /\ RunEnds(i)
    /\ UNCHANGED <<server, net, calls, secrets, preview, alive, cur, events, history>>

\* The server does not know the token any more.
RunRefused(i) ==
    /\ run[i] # None
    /\ ~Served(i)
    /\ mem' = mem
    /\ RunEnds(i)
    /\ UNCHANGED <<server, net, calls, secrets, preview, alive, cur, events, history>>

\* Network, disk, or an error of the server.
RunFails(i) ==
    /\ Spend
    /\ run[i] # None
    /\ mem' = mem
    /\ RunEnds(i)
    /\ UNCHANGED <<server, net, calls, secrets, preview, alive, cur, history>>

-----------------------------------------------------------------------------
(* The user and Obsidian.                                                  *)

\* setPaused(true).
Pause ==
    /\ Spend
    /\ ~mem[cur].paused
    /\ mem' = [mem EXCEPT ![cur].paused = TRUE]
    /\ saved' = mem'[cur]
    /\ UNCHANGED <<server, net, calls, secrets, run, cancel, preview, alive, cur,
                   history>>

\* setPaused(false); the run it asks for is StartRun.
Resume ==
    /\ mem[cur].paused
    /\ mem' = [mem EXCEPT ![cur].paused = FALSE]
    /\ saved' = mem'[cur]
    /\ UNCHANGED <<server, net, calls, secrets, run, cancel, preview, alive, cur,
                   events, history>>

\* cancelSync: refused without a run.
CancelSync ==
    /\ Spend
    /\ run[cur] # None
    /\ cancel' = [cancel EXCEPT ![cur] = TRUE]
    /\ UNCHANGED <<server, net, calls, secrets, saved, mem, run, preview, alive,
                   cur, history>>

\* Events of the vault and changed settings save the data of the loaded plugin.
SavePluginData ==
    /\ saved # mem[cur]
    /\ saved' = mem[cur]
    /\ UNCHANGED <<server, net, calls, secrets, plugin, events, history>>

\* onload: data.json is migrated and saved again.
Load ==
    /\ cur < MaxLoads
    /\ cur' = cur + 1
    /\ mem' = [mem EXCEPT ![cur'] = Migrated(saved)]
    /\ saved' = mem'[cur']
    /\ preview' = [preview EXCEPT ![cur] = None]

\* The plugin is disabled and enabled, or updated: the old instance goes on
\* with what it awaits.
Reload ==
    /\ Spend
    /\ Load
    /\ alive' = alive \cup {cur'}
    /\ UNCHANGED <<server, net, calls, secrets, run, cancel, history>>

\* Obsidian ends and is started again.  Requests on their way still arrive.
Restart ==
    /\ Spend
    /\ Load
    /\ alive' = {cur'}
    /\ run' = [i \in Instances |-> None]
    /\ cancel' = [i \in Instances |-> FALSE]
    /\ calls' = [k \in Calls |-> IF Waiting(k)
                     THEN [calls[k] EXCEPT !.state = "done", !.answer = None]
                     ELSE calls[k]]
    /\ unheard' = unheard \cup UNION {Lost(k) : k \in {j \in Calls : Waiting(j)}}
    /\ UNCHANGED <<server, net, secrets, confirmed, crossed>>

-----------------------------------------------------------------------------
ServerStep ==
    \/ \E r \in net : PairDevice(r) \/ AuthenticateToken(r) \/ RotateToken(r)
    \/ \E d \in Devices : SetDeviceStatus(d)
    \/ \E c \in Codes : CodeExpires(c)

CallStep ==
    \/ \E c \in Codes : StartPairing(c)
    \/ StartRotation
    \/ \E k \in Calls : AttemptFails(k) \/ Paired(k) \/ Rotated(k) \/ Refused(k)

RunStep(i) ==
    RunWorks(i) \/ RunCompletes(i) \/ RunStops(i) \/ RunRefused(i) \/ RunFails(i)

UserStep ==
    \/ PreviewInitialSync \/ PreviewEnds \/ ApproveInitialSync
    \/ Pause \/ Resume \/ CancelSync \/ SavePluginData
    \/ Reload \/ Restart

Next == ServerStep \/ CallStep \/ UserStep \/ StartRun \/ \E i \in alive : RunStep(i)

Spec == Init /\ [][Next]_vars

\* The interval timer asks for a run again and again, and a run goes on to its
\* end: it fails, or every request of it is answered.
FairSpec ==
    /\ Spec
    /\ WF_vars(StartRun)
    /\ WF_vars(RunCompletes(cur) \/ RunStops(cur) \/ RunRefused(cur))

-----------------------------------------------------------------------------
(* Properties.                                                             *)

\* The tables, the network, the calls and the sessions keep their shapes.
TypeOK ==
    /\ codes \in [Codes -> {"open", "used", "expired"}]
    /\ status \in [Devices -> {"none", "active", "retired", "revoked"}]
    /\ pairedBy \in [Devices -> Codes \cup {None}]
    /\ owner \in [Tokens -> Devices \cup {None}]
    /\ live \subseteq Tokens
    /\ net \subseteq Request
    /\ calls \in [Calls -> Call]
    /\ secrets \in [Devices -> Tokens \cup {None}]
    /\ saved \in Data
    /\ mem \in [Instances -> Data]
    /\ run \in [Instances -> Run]
    /\ cancel \in [Instances -> BOOLEAN]
    /\ preview \in [Instances -> Devices \cup {None}]
    /\ alive \subseteq Instances
    /\ cur \in alive
    /\ events \in 0 .. MaxEvents
    /\ {confirmed, crossed, unheard} \subseteq SUBSET Devices

\* A device has one token at most that the server still takes, and none once it
\* is retired or revoked, whatever rotations and revocations overlap
\* (RotateToken, SetDeviceStatus).
OneLiveToken ==
    \A t \in live : /\ status[owner[t]] = "active"
                   /\ \A u \in live : owner[u] = owner[t] => u = t

\* A pairing code makes one device, however often its request is sent again
\* (PairDevice, api-client.ts request).
CodePairsOnce ==
    \A d, e \in Devices : pairedBy[d] # None /\ pairedBy[d] = pairedBy[e] => d = e

\* The new token of a rotation is in the hands of a call that will store it.
Heard(d) ==
    \E k \in Calls : /\ Waiting(k)
                    /\ calls[k].kind = "rotate"
                    /\ calls[k].answer \in live
                    /\ owner[calls[k].answer] = d

\* The secret of an active device opens the vault, but for two accidents: the
\* answer of a rotation was lost, or a pairing was made amid a rotation
\* (main.ts, pairDevice and rotateCredential).
CredentialLives ==
    \A d \in Devices \ (unheard \cup crossed) :
        status[d] = "active" /\ secrets[d] # None =>
            \/ secrets[d] \in live /\ owner[secrets[d]] = d
            \/ Heard(d)

\* No run writes for a device whose own preview nobody confirmed, also after an
\* update from an older schema, a reload, a crash and a new pairing, unless the
\* pairing was made amid a run or a preview of another (runSync, migrateData).
WorkIsConfirmed ==
    \A i \in alive : run[i] # None => run[i].device \in confirmed \cup crossed

\* The sync state of a pairing was written as that device alone, in memory and
\* on disk, unless the pairing was made amid a run of another (resetSyncState).
StateIsOfOnePairing ==
    \A d \in {mem[i] : i \in alive} \cup {saved} :
        d.source \subseteq {d.device} \/ d.device \in crossed

\* A first sync that was approved does not wait for ever: it completes, or the
\* user pauses it, or the server stops taking the credential (runSync's finally
\* clears the request to cancel and the run).
InitialSyncEnds ==
    []<>(~ /\ mem[cur].mode /\ ~mem[cur].completed
           /\ ~mem[cur].paused
           /\ HasClient(cur) /\ Authentic(secrets[mem[cur].device]))
=============================================================================
