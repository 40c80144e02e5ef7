-------------------------- MODULE EnclaveLifecycle --------------------------
(***************************************************************************)
(* How backends enter, are renewed in, and leave a model's pool: the       *)
(* worker (sync, refreshEnclaves, addEnclave, refreshEnclave in            *)
(* manager/manager.go), the recovery of requests that meet a rotated key   *)
(* (manager/rotation.go) and the attested transports                       *)
(* (manager/verification.go).                                              *)
(*                                                                         *)
(* Worker and requests share one verification per host (singleflight); a   *)
(* verification runs without the model's lock and installs under it.       *)
(* The key of a backend stands for its TLS and HPKE key pair and grows     *)
(* with every restart.  An enclave object is <<host, slot of objs>>; a     *)
(* retired object's transport lives on in the requests that hold it, and   *)
(* its slot is free again when nobody does.                                *)
(***************************************************************************)
EXTENDS Integers, FiniteSets

CONSTANTS
  Hosts, Requests,
  Configs,     \* host sets that the runtime configuration may name
  NoHost, NoObject,
  MaxKey,      \* bound: keys a backend goes through
  Slots        \* names for the enclave objects of one host

ASSUME LifecycleAssumption ==
  /\ NoHost \notin Hosts
  /\ Configs \subseteq SUBSET Hosts
  /\ MaxKey \in Nat \ {0}
  /\ NoObject \notin Slots
  /\ IsFiniteSet(Requests) /\ IsFiniteSet(Slots)
  /\ Cardinality(Slots) > Cardinality(Requests) + 1

VARIABLES
  configured,  \* model.configuredHosts
  enclave,     \* model.Enclaves: the host's object, or NoObject
  objs,        \* per host, its objects: [key, age, vouched]; vouched is the
               \* history of which key the freshness was granted for
  backendKey,  \* the key the backend really has
  flights,     \* verifications in flight
  worker,      \* [pc, todo, host, key]
  rpc, robj, failed, sends  \* per request: point, object, failedKey, writes

model    == <<configured, enclave, objs>>
request  == <<rpc, robj, failed, sends>>
vars     == <<model, backendKey, flights, worker, request>>

Keys == 1 .. MaxKey
Ages == {"fresh", "due", "expired"}
Objects == [key : Keys, age : Ages, vouched : Keys]
Nothing == [key |-> 0, age |-> "expired", vouched |-> 0]   \* a free slot
NoExchange == <<NoHost, NoObject>>

\* A verification: of a recovery (failed is the rejected key) or of the worker
\* (failed = 0), and the key it has seen.
Flights == [host : Hosts, stage : {"check", "verify", "install"},
            failed : 0 .. MaxKey, key : 0 .. MaxKey]

Idle == [pc |-> "idle", todo |-> {}, host |-> NoHost, key |-> 0]

TypeOK ==
  /\ configured \subseteq Hosts
  /\ enclave \in [Hosts -> Slots \cup {NoObject}]
  /\ objs \in [Hosts -> [Slots -> Objects \cup {Nothing}]]
  /\ backendKey \in [Hosts -> Keys]
  /\ flights \subseteq Flights
  /\ worker \in [pc : {"idle", "refresh", "probe", "compare", "waiting"},
                 todo : SUBSET Hosts, host : Hosts \cup {NoHost}, key : 0 .. MaxKey]
  /\ rpc \in [Requests -> {"idle", "sending", "waiting", "woken", "retrying"}]
  /\ robj \in [Requests -> {NoExchange} \cup (Hosts \X Slots)]
  /\ failed \in [Requests -> 0 .. MaxKey]
  /\ sends \in [Requests -> Nat]

Init ==
  /\ configured \in Configs
  /\ enclave = [h \in Hosts |-> NoObject]
  /\ objs = [h \in Hosts |-> [s \in Slots |-> Nothing]]
  /\ backendKey = [h \in Hosts |-> 1]
  /\ flights = {}
  /\ worker = Idle
  /\ rpc = [r \in Requests |-> "idle"]
  /\ robj = [r \in Requests |-> NoExchange]
  /\ failed = [r \in Requests |-> 0]
  /\ sends = [r \in Requests |-> 0]

Installed(h) == enclave[h] # NoObject
CurrentOf(h) == objs[h][enclave[h]]
Object(o) == objs[o[1]][o[2]]
Held(h, s) == enclave[h] = s \/ \E r \in Requests : robj[r] = <<h, s>>

\* Mutation: verifications of one host run side by side.
MutJoin(h, stage, key) ==
  flights' = flights \cup {[host |-> h, stage |-> stage, failed |-> key, key |-> 0]}

\* verifications.Do and DoChan: join the host's verification or start one.
Join(h, stage, key) ==
  flights' = IF \E f \in flights : f.host = h THEN flights
             ELSE flights \cup {[host |-> h, stage |-> stage, failed |-> key, key |-> 0]}

-----------------------------------------------------------------------------
(***************************************************************************)
(* The worker.                                                             *)
(***************************************************************************)
\* sync with a configuration: hosts that it does not name leave the pool.
Sync ==
  /\ worker.pc = "idle"
  /\ \E c \in Configs :
       /\ configured' = c
       /\ enclave' = [h \in Hosts |-> IF h \in c THEN enclave[h] ELSE NoObject]
       /\ worker' = [Idle EXCEPT !.pc = "refresh", !.todo = c]
  /\ UNCHANGED <<objs, backendKey, flights, request>>

\* Mutation: without a configuration there is nothing to renew.
MutSyncFails ==
  /\ worker.pc = "idle"
  /\ worker' = [Idle EXCEPT !.pc = "refresh"]
  /\ UNCHANGED <<model, backendKey, flights, request>>

\* sync without one: the accepted host set is renewed all the same.
SyncFails ==
  /\ worker.pc = "idle"
  /\ worker' = [Idle EXCEPT !.pc = "refresh", !.todo = configured]
  /\ UNCHANGED <<model, backendKey, flights, request>>

Turn(pc, h, key) == worker' = [worker EXCEPT !.pc = pc, !.host = h, !.key = key]

\* The worker is done with its host.
Done == [worker EXCEPT !.pc = "refresh", !.todo = @ \ {worker.host},
                       !.host = NoHost, !.key = 0]

\* addEnclave: an enclave that is not due is only probed for its key.
AddEnclave(h) ==
  /\ worker.pc = "refresh" /\ h \in worker.todo
  /\ IF Installed(h) /\ CurrentOf(h).age = "fresh"
     THEN Turn("probe", h, 0) /\ UNCHANGED flights
     ELSE Turn("waiting", h, 0) /\ Join(h, "verify", 0)
  /\ UNCHANGED <<model, backendKey, request>>

\* A failed probe keeps the enclave.
ProbeFails ==
  /\ worker.pc = "probe"
  /\ worker' = Done
  /\ UNCHANGED <<model, backendKey, flights, request>>

Probe ==
  /\ worker.pc = "probe"
  /\ Turn("compare", worker.host, backendKey[worker.host])
  /\ UNCHANGED <<model, backendKey, flights, request>>

\* The enclave is looked up again: it may have been replaced meanwhile.
Compare ==
  LET h == worker.host IN
  /\ worker.pc = "compare"
  /\ IF Installed(h) /\ CurrentOf(h).key = worker.key /\ CurrentOf(h).age = "fresh"
     THEN worker' = Done /\ UNCHANGED flights
     ELSE Turn("waiting", h, 0) /\ Join(h, "verify", 0)
  /\ UNCHANGED <<model, backendKey, request>>

RefreshDone ==
  /\ worker.pc = "refresh" /\ worker.todo = {}
  /\ worker' = Idle
  /\ UNCHANGED <<model, backendKey, flights, request>>

-----------------------------------------------------------------------------
(***************************************************************************)
(* A verification.  Its end is seen by all who share it: the worker goes   *)
(* on with its next host, requests look at the outcome.                    *)
(***************************************************************************)
Complete(f, ok) ==
  /\ flights' = flights \ {f}
  /\ worker' = IF worker.pc = "waiting" /\ worker.host = f.host THEN Done ELSE worker
  /\ LET shares == {r \in Requests : rpc[r] = "waiting" /\ robj[r][1] = f.host}
     IN  /\ rpc' = [r \in Requests |-> IF r \notin shares THEN rpc[r]
                                       ELSE IF ok THEN "woken" ELSE "idle"]
         /\ robj' = [r \in Requests |-> IF r \in shares /\ ~ok THEN NoExchange ELSE robj[r]]

Advance(f, g) == flights' = (flights \ {f}) \cup {g}

\* recoverEnclave's first look: the host is gone, or the key changed already.
Check(f) ==
  /\ f.stage = "check"
  /\ LET changed == Installed(f.host) /\ CurrentOf(f.host).key # f.failed
     IN  IF f.host \in configured /\ ~changed
         THEN Advance(f, [f EXCEPT !.stage = "verify"]) /\ UNCHANGED <<worker, rpc, robj>>
         ELSE Complete(f, f.host \in configured)
  /\ UNCHANGED <<model, backendKey, failed, sends>>

VerifyFails(f) ==
  /\ f.stage = "verify"
  /\ Complete(f, FALSE)
  /\ UNCHANGED <<model, backendKey, failed, sends>>

\* The verifier reports the key the backend has at that moment.
Verify(f) ==
  /\ f.stage = "verify"
  /\ Advance(f, [f EXCEPT !.stage = "install", !.key = backendKey[f.host]])
  /\ UNCHANGED <<model, backendKey, worker, request>>

\* Mutation: any enclave of the host is renewed in place.
MutSameKey(h, key) == Installed(h)

SameKey(h, key) == Installed(h) /\ CurrentOf(h).key = key

StillConfigured(h) == h \in configured

\* refreshEnclave under the lock: nothing for a host that left, a renewal for
\* the same key, a new object otherwise.
Install(f) ==
  LET h == f.host IN
  /\ f.stage = "install"
  /\ \/ /\ ~StillConfigured(h)
        /\ UNCHANGED model
        /\ Complete(f, FALSE)
     \/ /\ StillConfigured(h) /\ SameKey(h, f.key)
        /\ objs' = [objs EXCEPT ![h][enclave[h]].age = "fresh",
                                ![h][enclave[h]].vouched = f.key]
        /\ UNCHANGED <<configured, enclave>>
        /\ Complete(f, TRUE)
     \/ /\ StillConfigured(h) /\ ~SameKey(h, f.key)
        /\ LET s == CHOOSE s \in Slots : ~Held(h, s)
           IN  /\ objs' = [objs EXCEPT ![h][s] =
                             [key |-> f.key, age |-> "fresh", vouched |-> f.key]]
               /\ enclave' = [enclave EXCEPT ![h] = s]
        /\ UNCHANGED configured
        /\ Complete(f, TRUE)
  /\ UNCHANGED <<backendKey, failed, sends>>

-----------------------------------------------------------------------------
(***************************************************************************)
(* A request and its transport.                                            *)
(***************************************************************************)
At(r, point) == rpc' = [rpc EXCEPT ![r] = point]
Ends(r) == At(r, "idle") /\ robj' = [robj EXCEPT ![r] = NoExchange]
Expired(r) == Object(robj[r]).age = "expired"
KeyFits(r) == Object(robj[r]).key = backendKey[robj[r][1]]

\* Selection admits enclaves whose attestation has not expired.
Send(r, h) ==
  /\ rpc[r] = "idle" /\ Installed(h) /\ CurrentOf(h).age # "expired"
  /\ At(r, "sending")
  /\ robj' = [robj EXCEPT ![r] = <<h, enclave[h]>>]
  /\ failed' = [failed EXCEPT ![r] = 0]
  /\ sends' = [sends EXCEPT ![r] = 0]
  /\ UNCHANGED <<model, backendKey, flights, worker>>

\* The exchange ends without a replay: the attestation expired, the dial
\* failed, the body cannot be replayed, or the replay was rejected too.
Fails(r) ==
  /\ rpc[r] \in {"sending", "retrying"}
  /\ Ends(r)
  /\ UNCHANGED <<model, backendKey, flights, worker, failed, sends>>

\* The headers are written; what follows, an attestation error included, is
\* final.
Delivers(r) ==
  /\ rpc[r] \in {"sending", "retrying"} /\ ~Expired(r) /\ KeyFits(r)
  /\ sends' = [sends EXCEPT ![r] = @ + 1]
  /\ Ends(r)
  /\ UNCHANGED <<model, backendKey, flights, worker, failed>>

\* Mutation: an attestation error is replayed also after the headers.
MutRejected(r) ==
  /\ rpc[r] = "sending" /\ ~Expired(r)
  /\ sends' = [sends EXCEPT ![r] = IF KeyFits(r) THEN @ + 1 ELSE @]
  /\ failed' = [failed EXCEPT ![r] = Object(robj[r]).key]
  /\ At(r, "waiting")
  /\ Join(robj[r][1], "check", Object(robj[r]).key)
  /\ UNCHANGED <<model, backendKey, worker, robj>>

\* The handshake meets another key: recover.
Rejected(r) ==
  /\ rpc[r] = "sending" /\ ~Expired(r) /\ ~KeyFits(r)
  /\ failed' = [failed EXCEPT ![r] = Object(robj[r]).key]
  /\ At(r, "waiting")
  /\ Join(robj[r][1], "check", Object(robj[r]).key)
  /\ UNCHANGED <<model, backendKey, worker, robj, sends>>

\* attestationRecoveryTimeout, or the client is gone.
RecoveryTimeout(r) ==
  /\ rpc[r] \in {"waiting", "woken"}
  /\ Ends(r)
  /\ UNCHANGED <<model, backendKey, flights, worker, failed, sends>>

\* recoverEnclave's second look: only a valid enclave with another key will do.
Recovered(r) ==
  LET h == robj[r][1] IN
  /\ rpc[r] = "woken"
  /\ IF /\ h \in configured /\ Installed(h)
        /\ CurrentOf(h).key # failed[r] /\ CurrentOf(h).age # "expired"
     THEN At(r, "retrying") /\ robj' = [robj EXCEPT ![r] = <<h, enclave[h]>>]
     ELSE Ends(r)
  /\ UNCHANGED <<model, backendKey, flights, worker, failed, sends>>

-----------------------------------------------------------------------------
\* The backend restarts with a new key.
Rotate(h) ==
  /\ backendKey[h] < MaxKey
  /\ backendKey' = [backendKey EXCEPT ![h] = @ + 1]
  /\ UNCHANGED <<model, flights, worker, request>>

\* Time passes for an attestation, also a retired object's.
Age(h, s) ==
  /\ Held(h, s) /\ objs[h][s].age # "expired"
  /\ objs' = [objs EXCEPT ![h][s].age = IF @ = "fresh" THEN "due" ELSE "expired"]
  /\ UNCHANGED <<configured, enclave, backendKey, flights, worker, request>>

WorkerStep == Sync \/ SyncFails \/ RefreshDone \/ ProbeFails \/ Probe \/ Compare
              \/ \E h \in Hosts : AddEnclave(h)

FlightStep(f) == Check(f) \/ VerifyFails(f) \/ Verify(f) \/ Install(f)

Next ==
  \/ WorkerStep
  \/ \E f \in flights : FlightStep(f)
  \/ \E r \in Requests :
       \/ \E h \in Hosts : Send(r, h)
       \/ Fails(r) \/ Delivers(r) \/ Rejected(r) \/ RecoveryTimeout(r) \/ Recovered(r)
  \/ \E h \in Hosts : Rotate(h) \/ \E s \in Slots : Age(h, s)

Spec == Init /\ [][Next]_vars

\* The ticker drives the worker and verifications end.  Loading the
\* configuration may fail for ever; a probe or a verification that is tried
\* again and again succeeds some time.
FairSpec ==
  /\ Spec
  /\ WF_vars(WorkerStep)
  /\ SF_vars(Probe)
  /\ WF_vars(\E f \in flights : FlightStep(f))
  /\ SF_vars(\E f \in flights : Verify(f))

-----------------------------------------------------------------------------
(***************************************************************************)
(* A host that left the configuration is not in the pool, and no           *)
(* verification that was under way when it left brings it back             *)
(* (refreshEnclave: "is no longer configured").                            *)
(***************************************************************************)
PoolIsConfigured == \A h \in Hosts : Installed(h) => h \in configured

(***************************************************************************)
(* Each attestation belongs to one key: freshness is only ever granted to  *)
(* an object by a verification that saw the object's own key               *)
(* (attestationState: "a key change leaves old transports bound to the old *)
(* state").                                                                *)
(***************************************************************************)
VouchedForOwnKey ==
  \A h \in Hosts : \A s \in Slots : objs[h][s].vouched = objs[h][s].key

(***************************************************************************)
(* The pool never goes back to an older key of a host: a slow verification *)
(* that saw the key before a restart cannot replace an enclave that was    *)
(* verified after it, whoever started them (verifications, the             *)
(* singleflight group).                                                    *)
(***************************************************************************)
KeysNeverGoBack ==
  [][\A h \in Hosts : (Installed(h) /\ Installed(h)') =>
       objs'[h][enclave'[h]].key >= CurrentOf(h).key]_vars

(***************************************************************************)
(* A request's headers are written at most once, through however many      *)
(* rotations it is replayed (rotationTransport.RoundTrip).                 *)
(***************************************************************************)
WrittenOnce == \A r \in Requests : sends[r] <= 1

(***************************************************************************)
(* Configuration availability does not prevent renewal (refreshEnclaves):  *)
(* again and again, every configured host is in the pool with the          *)
(* backend's own key and an unexpired attestation, even if no              *)
(* configuration is ever loaded.                                           *)
(***************************************************************************)
Renewed ==
  \A h \in Hosts :
    []<>(h \in configured =>
           /\ Installed(h)
           /\ CurrentOf(h).key = backendKey[h] /\ CurrentOf(h).age # "expired")

(***************************************************************************)
(* The pool holds configured hosts only, each under a key that was         *)
(* verified as its own, whichever verification finished last               *)
(* (refreshEnclave, attestationState).                                     *)
(***************************************************************************)
PoolSound == TypeOK /\ PoolIsConfigured /\ VouchedForOwnKey
=============================================================================
