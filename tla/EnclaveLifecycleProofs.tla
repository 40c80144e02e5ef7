----------------------- MODULE EnclaveLifecycleProofs -----------------------
(***************************************************************************)
(* PoolSound, WrittenOnce and KeysNeverGoBack, proved for any set of       *)
(* hosts, requests and configurations and any number of restarts.          *)
(*                                                                         *)
(* That the pool never goes back to an older key needs most: a             *)
(* verification that has seen a key must still be the only one of its host *)
(* when it installs (OneFlight, what the singleflight group gives), so     *)
(* that nobody installed a newer key since (FlightSound), and no object of *)
(* the pool is ahead of the backend (PoolBehindBackend).                   *)
(***************************************************************************)
EXTENDS EnclaveLifecycle, FiniteSetTheorems, TLAPS

\* A request that is under way has an exchange and has written no headers.
RequestSound(r) ==
  /\ rpc[r] # "idle" => robj[r] \in Hosts \X Slots /\ sends[r] = 0
  /\ sends[r] <= 1

WorkerSound == worker.pc \in {"probe", "compare", "waiting"} => worker.host \in Hosts

PoolBehindBackend ==
  \A h \in Hosts : Installed(h) => /\ CurrentOf(h) \in Objects
                                   /\ CurrentOf(h).key <= backendKey[h]

\* Between Verify and Install, the key that was seen is one the backend has
\* had, and the pool has none that is newer.
FlightSound(f) ==
  f.stage = "install" =>
    /\ f.key \in Keys /\ f.key <= backendKey[f.host]
    /\ Installed(f.host) => CurrentOf(f.host).key <= f.key

OneFlight == \A f, g \in flights : f.host = g.host => f = g

-----------------------------------------------------------------------------
(***************************************************************************)
(* The inductive invariant, by the part of the state that it is about.     *)
(***************************************************************************)
PoolInv ==
  /\ configured \subseteq Hosts
  /\ enclave \in [Hosts -> Slots \cup {NoObject}]
  /\ objs \in [Hosts -> [Slots -> Objects \cup {Nothing}]]
  /\ backendKey \in [Hosts -> Keys]
  /\ PoolIsConfigured
  /\ VouchedForOwnKey
  /\ PoolBehindBackend

FlightInv ==
  /\ flights \subseteq Flights
  /\ OneFlight
  /\ \A f \in flights : FlightSound(f)

Workers == [pc : {"idle", "refresh", "probe", "compare", "waiting"},
            todo : SUBSET Hosts, host : Hosts \cup {NoHost}, key : 0 .. MaxKey]

WorkerInv == worker \in Workers /\ WorkerSound

RequestInv ==
  /\ rpc \in [Requests -> {"idle", "sending", "waiting", "woken", "retrying"}]
  /\ robj \in [Requests -> {NoExchange} \cup (Hosts \X Slots)]
  /\ failed \in [Requests -> 0 .. MaxKey]
  /\ sends \in [Requests -> Nat]
  /\ \A r \in Requests : RequestSound(r)

Inv == PoolInv /\ FlightInv /\ WorkerInv /\ RequestInv

-----------------------------------------------------------------------------
(***************************************************************************)
(* Parts that a step does not touch stay sound: every part of the          *)
(* invariant depends on its own variables, that of the verifications also  *)
(* on the pool.                                                            *)
(***************************************************************************)
LEMMA PoolFrame ==
  ASSUME PoolInv, UNCHANGED <<model, backendKey>>
  PROVE  PoolInv'
BY Zenon DEF PoolInv, model, PoolIsConfigured, VouchedForOwnKey, PoolBehindBackend, Installed, CurrentOf

\* The flights of a step that starts no verification, on the same pool.
LEMMA FlightFrame ==
  ASSUME FlightInv, UNCHANGED <<model, backendKey>>, flights' \subseteq flights
  PROVE  FlightInv'
BY Zenon DEF FlightInv, model, OneFlight, FlightSound, Installed, CurrentOf

\* A step that leaves the refresh worker alone.
LEMMA WorkerFrame ==
  ASSUME WorkerInv, UNCHANGED worker
  PROVE  WorkerInv'
BY Zenon DEF WorkerInv, WorkerSound

\* A step that leaves the request alone.
LEMMA RequestFrame ==
  ASSUME RequestInv, UNCHANGED request
  PROVE  RequestInv'
BY Zenon DEF RequestInv, request, RequestSound

(***************************************************************************)
(* refreshEnclave always finds a place for a new object: the requests and  *)
(* the pool together hold fewer objects of a host than there are slots.    *)
(***************************************************************************)
LEMMA FreeSlot ==
  ASSUME NEW h \in Hosts
  PROVE  \E s \in Slots : ~Held(h, s)
<1> SUFFICES ASSUME \A s \in Slots : Held(h, s) PROVE FALSE
  BY Zenon
<1> DEFINE f == [r \in Requests |-> robj[r][2]]
           T == {f[r] : r \in Requests}
<1>1. f \in Surjection(Requests, T)
  BY Zenon DEF Surjection
<1>2. IsFiniteSet(T) /\ Cardinality(T) <= Cardinality(Requests)
  BY <1>1, FS_Surjection, LifecycleAssumption, Zenon
<1>3. Slots \in SUBSET (T \cup {enclave[h]})
  BY DEF Held
<1>4. IsFiniteSet(T \cup {enclave[h]}) /\ Cardinality(T \cup {enclave[h]}) <= Cardinality(T) + 1
  <2> HIDE DEF T
  <2>1. Cardinality(T) \in Nat
    BY <1>2, FS_CardinalityType, Zenon
  <2> QED
    BY <1>2, <2>1, FS_AddElement
<1>5. Cardinality(Slots) <= Cardinality(T \cup {enclave[h]})
  BY <1>3, <1>4, FS_Subset, Zenon
<1>6. /\ Cardinality(Slots) \in Nat /\ Cardinality(T) \in Nat /\ Cardinality(Requests) \in Nat
      /\ Cardinality(T \cup {enclave[h]}) \in Nat
  BY <1>2, <1>4, FS_CardinalityType, LifecycleAssumption, Zenon
<1> QED
  BY <1>2, <1>4, <1>5, <1>6, LifecycleAssumption

(***************************************************************************)
(* Joining the singleflight group: one verification per host remains, and  *)
(* a new one has seen no key yet (verifications.Do and DoChan).            *)
(***************************************************************************)
LEMMA JoinKeeps ==
  ASSUME FlightInv, UNCHANGED <<model, backendKey>>,
         NEW h \in Hosts, NEW stage \in {"check", "verify"}, NEW key \in 0 .. MaxKey,
         Join(h, stage, key)
  PROVE  FlightInv'
<1> DEFINE g == [host |-> h, stage |-> stage, failed |-> key, key |-> 0]
<1>1. CASE \E f \in flights : f.host = h
  BY <1>1, FlightFrame, Zenon DEF Join
<1>2. CASE ~\E f \in flights : f.host = h
  <2>1. flights' = flights \cup {g}
    BY <1>2, Zenon DEF Join
  <2>2. g \in Flights
    BY LifecycleAssumption DEF Flights
  <2>3. OneFlight'
    BY <1>2, <2>1 DEF FlightInv, OneFlight
  <2>4. \A f \in flights' : FlightSound(f)'
    BY <2>1 DEF FlightInv, FlightSound, model, Installed, CurrentOf
  <2> QED
    BY <2>1, <2>2, <2>3, <2>4, Zenon DEF FlightInv
<1> QED
  BY <1>1, <1>2, Zenon

(***************************************************************************)
(* The worker moves on from a host, or stays.                              *)
(***************************************************************************)
LEMMA DoneIsSound ==
  ASSUME WorkerInv
  PROVE  Done \in Workers /\ Done.pc = "refresh"
<1>1. worker \in Workers
  BY Zenon DEF WorkerInv
<1>2. 0 \in 0 .. MaxKey
  BY LifecycleAssumption
<1>3. Done \in Workers
  BY <1>1, <1>2, Zenon DEF Workers, Done
<1>4. Done.pc = "refresh"
  BY <1>1, Zenon DEF Workers, Done
<1> QED
  BY <1>3, <1>4, Zenon

(***************************************************************************)
(* The end of a verification, seen by the worker and by the requests that  *)
(* share it (singleflight's result): they go on, or give up their          *)
(* exchange.                                                               *)
(***************************************************************************)
LEMMA CompleteKeeps ==
  ASSUME WorkerInv, RequestInv, NEW f, NEW ok \in BOOLEAN, Complete(f, ok),
         UNCHANGED <<failed, sends>>
  PROVE  WorkerInv' /\ RequestInv' /\ flights' = flights \ {f}
<1>1. WorkerInv'
  BY DoneIsSound, Zenon DEF Complete, WorkerInv, WorkerSound
<1>2. ASSUME NEW r \in Requests
      PROVE  \/ rpc'[r] = "idle" /\ robj'[r] = NoExchange
             \/ rpc'[r] = "idle" /\ rpc[r] = "idle" /\ robj'[r] = robj[r]
             \/ /\ rpc'[r] \in {"sending", "waiting", "woken", "retrying"}
                /\ rpc[r] # "idle"
                /\ robj'[r] = robj[r]
  BY Zenon DEF Complete, RequestInv
<1>3. DOMAIN rpc' = Requests /\ DOMAIN robj' = Requests
  BY Zenon DEF Complete
<1>4. rpc' \in [Requests -> {"idle", "sending", "waiting", "woken", "retrying"}]
  <2>1. rpc' = [r \in Requests |-> rpc'[r]]
    BY Zenon DEF Complete
  <2> QED
    BY <1>2, <2>1, Zenon
<1>5. robj' \in [Requests -> {NoExchange} \cup (Hosts \X Slots)]
  <2>1. robj' = [r \in Requests |-> robj'[r]]
    BY Zenon DEF Complete
  <2> QED
    BY <1>2, <2>1, Zenon DEF RequestInv
<1>6. \A r \in Requests : RequestSound(r)'
  BY <1>2, Zenon DEF RequestInv, RequestSound
<1> QED
  BY <1>1, <1>4, <1>5, <1>6, Zenon DEF RequestInv, Complete

(***************************************************************************)
(* One step of a request's exchange: its locals stay sound when the point  *)
(* it reaches has an exchange, or it ends.                                 *)
(***************************************************************************)
LEMMA RequestMoves ==
  ASSUME RequestInv, NEW r \in Requests,
         NEW point \in {"idle", "sending", "waiting", "woken", "retrying"},
         NEW o \in {NoExchange} \cup (Hosts \X Slots),
         NEW key \in 0 .. MaxKey, NEW n \in {0, 1},
         rpc' = [rpc EXCEPT ![r] = point],
         robj' = [robj EXCEPT ![r] = o],
         failed' = [failed EXCEPT ![r] = key],
         sends' = [sends EXCEPT ![r] = n],
         point # "idle" => o \in Hosts \X Slots /\ n = 0
  PROVE  RequestInv'
BY DEF RequestInv, RequestSound

\* An exchange that ends without an answer.
LEMMA RequestEnds ==
  ASSUME RequestInv, NEW r \in Requests, Ends(r), UNCHANGED <<failed, sends>>
  PROVE  RequestInv'
<1>1. rpc' = [rpc EXCEPT ![r] = "idle"] /\ robj' = [robj EXCEPT ![r] = NoExchange]
  BY Zenon DEF Ends, At
<1>2. /\ rpc' \in [Requests -> {"idle", "sending", "waiting", "woken", "retrying"}]
      /\ robj' \in [Requests -> {NoExchange} \cup (Hosts \X Slots)]
  BY <1>1, Zenon DEF RequestInv
<1>3. ASSUME NEW q \in Requests PROVE RequestSound(q)'
  BY <1>1 DEF RequestInv, RequestSound
<1>4. QED
  BY <1>2, <1>3, Zenon DEF RequestInv

-----------------------------------------------------------------------------
(***************************************************************************)
(* sync with a configuration: what leaves the pool leaves it whole, and    *)
(* the verifications under way see no newer key.                           *)
(***************************************************************************)
LEMMA SyncKeeps ==
  ASSUME Inv, Sync PROVE Inv'
<1>1. PICK c \in Configs :
        /\ configured' = c
        /\ enclave' = [h \in Hosts |-> IF h \in c THEN enclave[h] ELSE NoObject]
        /\ worker' = [Idle EXCEPT !.pc = "refresh", !.todo = c]
  BY Zenon DEF Sync
<1>2. UNCHANGED <<objs, backendKey, flights, request>> /\ c \subseteq Hosts
  BY LifecycleAssumption, Zenon DEF Sync
<1>3. \A h \in Hosts : Installed(h)' => /\ Installed(h) /\ h \in c
                                        /\ CurrentOf(h)' = CurrentOf(h)
  BY <1>1, <1>2, Zenon DEF Installed, CurrentOf
<1>4. PoolInv'
  BY <1>1, <1>2, <1>3, Zenon DEF Inv, PoolInv, PoolIsConfigured, VouchedForOwnKey, PoolBehindBackend
<1>5. FlightInv'
  BY <1>2, <1>3, Zenon DEF Inv, FlightInv, OneFlight, FlightSound, Flights
<1>6. WorkerInv'
  <2>1. worker' = [pc |-> "refresh", todo |-> c, host |-> NoHost, key |-> 0]
    BY <1>1, Zenon DEF Idle
  <2> QED
    BY <1>2, <2>1, LifecycleAssumption DEF WorkerInv, Workers, WorkerSound
<1> QED
  BY <1>2, <1>4, <1>5, <1>6, RequestFrame, Zenon DEF Inv

(***************************************************************************)
(* The other steps of the worker touch neither pool nor requests; those    *)
(* that need a verification join the host's one.                           *)
(***************************************************************************)
LEMMA WorkerKeeps ==
  ASSUME Inv, WorkerStep PROVE Inv'
<1>0. ASSUME NEW pc \in {"probe", "compare", "waiting"}, NEW h \in Hosts,
             NEW key \in 0 .. MaxKey, Turn(pc, h, key)
      PROVE  WorkerInv'
  BY <1>0, Zenon DEF Turn, Inv, WorkerInv, Workers, WorkerSound
<1>1. ASSUME UNCHANGED <<model, backendKey, request>>, WorkerInv', FlightInv'
      PROVE  Inv'
  BY <1>1, PoolFrame, RequestFrame, Zenon DEF Inv
<1>2. ASSUME worker' = Done PROVE WorkerInv'
  BY <1>2, DoneIsSound, Zenon DEF Inv, WorkerInv, WorkerSound
<1>3. 0 \in 0 .. MaxKey
  BY LifecycleAssumption
<1>4. CASE SyncFails
  <2>1. worker' = [pc |-> "refresh", todo |-> configured, host |-> NoHost, key |-> 0]
    BY <1>4, Zenon DEF SyncFails, Idle
  <2>2. WorkerInv'
    BY <1>3, <2>1, Zenon DEF Inv, PoolInv, WorkerInv, Workers, WorkerSound
  <2> QED
    BY <1>1, <1>4, <2>2, FlightFrame, Zenon DEF SyncFails, Inv
<1>5. CASE RefreshDone
  <2>1. WorkerInv'
    BY <1>3, <1>5, Zenon DEF RefreshDone, Idle, WorkerInv, Workers, WorkerSound
  <2> QED
    BY <1>1, <1>5, <2>1, FlightFrame, Zenon DEF RefreshDone, Inv
<1>6. CASE ProbeFails
  BY <1>1, <1>2, <1>6, FlightFrame, Zenon DEF ProbeFails, Inv
<1>7. CASE Probe
  <2>1. worker.host \in Hosts /\ backendKey[worker.host] \in 0 .. MaxKey
    BY <1>7 DEF Probe, Inv, WorkerInv, WorkerSound, PoolInv, Keys
  <2> QED
    BY <1>0, <1>1, <1>7, <2>1, FlightFrame, Zenon DEF Probe, Inv
<1>8. CASE Compare
  <2>1. worker.host \in Hosts
    BY <1>8, Zenon DEF Compare, Inv, WorkerInv, WorkerSound
  <2>2. \/ worker' = Done /\ UNCHANGED flights
        \/ Turn("waiting", worker.host, 0) /\ Join(worker.host, "verify", 0)
    BY <1>8, Zenon DEF Compare
  <2>3. UNCHANGED <<model, backendKey, request>>
    BY <1>8, Zenon DEF Compare
  <2> QED
    BY <1>0, <1>1, <1>2, <1>3, <2>1, <2>2, <2>3, FlightFrame, JoinKeeps, Zenon DEF Inv
<1>9. ASSUME NEW h \in Hosts, AddEnclave(h) PROVE Inv'
  <2>1. \/ Turn("probe", h, 0) /\ UNCHANGED flights
        \/ Turn("waiting", h, 0) /\ Join(h, "verify", 0)
    BY <1>9, Zenon DEF AddEnclave
  <2>2. UNCHANGED <<model, backendKey, request>>
    BY <1>9, Zenon DEF AddEnclave
  <2> QED
    BY <1>0, <1>1, <1>3, <2>1, <2>2, FlightFrame, JoinKeeps, Zenon DEF Inv
<1> QED
  BY <1>4, <1>5, <1>6, <1>7, <1>8, <1>9, SyncKeeps, Zenon DEF WorkerStep

(***************************************************************************)
(* The steps of a request: only Delivers writes headers, and it ends the   *)
(* exchange (rotationTransport.RoundTrip).                                 *)
(***************************************************************************)
LEMMA RequestKeeps ==
  ASSUME Inv, NEW r \in Requests,
         \/ \E h \in Hosts : Send(r, h)
         \/ Fails(r) \/ Delivers(r) \/ Rejected(r) \/ RecoveryTimeout(r) \/ Recovered(r)
  PROVE  Inv'
<1>1. /\ failed[r] \in 0 .. MaxKey /\ failed = [failed EXCEPT ![r] = failed[r]]
      /\ sends[r] \in {0, 1} /\ sends = [sends EXCEPT ![r] = sends[r]]
      /\ robj = [robj EXCEPT ![r] = robj[r]]
      /\ rpc[r] # "idle" => robj[r] \in Hosts \X Slots /\ sends[r] = 0
      /\ 0 \in 0 .. MaxKey
  <2>1. /\ failed[r] \in 0 .. MaxKey /\ failed = [failed EXCEPT ![r] = failed[r]]
        /\ sends[r] \in Nat /\ sends = [sends EXCEPT ![r] = sends[r]]
        /\ robj = [robj EXCEPT ![r] = robj[r]]
    BY Zenon DEF Inv, RequestInv
  <2>2. sends[r] <= 1 /\ (rpc[r] # "idle" => robj[r] \in Hosts \X Slots /\ sends[r] = 0)
    BY Zenon DEF Inv, RequestInv, RequestSound
  <2> QED
    BY <2>1, <2>2, LifecycleAssumption
<1>2. ASSUME UNCHANGED <<model, backendKey, flights, worker>>, RequestInv'
      PROVE  Inv'
  BY <1>2, PoolFrame, FlightFrame, WorkerFrame, Zenon DEF Inv
<1>3. ASSUME NEW h \in Hosts, Send(r, h) PROVE Inv'
  <2>1. <<h, enclave[h]>> \in Hosts \X Slots
    BY <1>3, Zenon DEF Send, Installed, Inv, PoolInv
  <2>2. RequestInv'
    BY <1>1, <1>3, <2>1, RequestMoves, Zenon DEF Send, At, Inv
  <2> QED
    BY <1>2, <1>3, <2>2, Zenon DEF Send
<1>4. CASE Fails(r)
  <2>1. RequestInv'
    BY <1>4, RequestEnds, Zenon DEF Fails, Inv
  <2> QED
    BY <1>2, <1>4, <2>1, Zenon DEF Fails
<1>5. CASE Delivers(r)
  <2>1. sends' = [sends EXCEPT ![r] = 1]
    <3>1. sends' = [sends EXCEPT ![r] = sends[r] + 1] /\ rpc[r] # "idle"
      BY <1>5, Zenon DEF Delivers
    <3>2. sends[r] + 1 = 1
      BY <1>1, <3>1
    <3> QED
      BY <3>1, <3>2, Zenon
  <2>2. RequestInv'
    BY <1>1, <1>5, <2>1, RequestMoves, Zenon DEF Delivers, Ends, At, Inv
  <2> QED
    BY <1>2, <1>5, <2>2, Zenon DEF Delivers
<1>6. CASE Rejected(r)
  <2>1. robj[r] \in Hosts \X Slots /\ sends[r] = 0 /\ robj[r][1] \in Hosts
    BY <1>1, <1>6, Zenon DEF Rejected
  <2>2. Object(robj[r]).key \in 0 .. MaxKey
    <3>1. Object(robj[r]) \in Objects \cup {Nothing}
      BY <2>1, Zenon DEF Object, Inv, PoolInv
    <3> QED
      BY <1>1, <3>1 DEF Objects, Nothing, Keys
  <2>3. RequestInv'
    BY <1>1, <1>6, <2>1, <2>2, RequestMoves, Zenon DEF Rejected, At, Inv
  <2>4. FlightInv'
    BY <1>6, <2>1, <2>2, JoinKeeps, Zenon DEF Rejected, Inv
  <2> QED
    BY <1>6, <2>3, <2>4, PoolFrame, WorkerFrame, Zenon DEF Rejected, Inv
<1>7. CASE RecoveryTimeout(r)
  <2>1. RequestInv'
    BY <1>7, RequestEnds, Zenon DEF RecoveryTimeout, Inv
  <2> QED
    BY <1>2, <1>7, <2>1, Zenon DEF RecoveryTimeout
<1>8. CASE Recovered(r)
  <2> DEFINE h == robj[r][1]
  <2>1. rpc[r] = "woken" /\ sends[r] = 0 /\ h \in Hosts
    BY <1>1, <1>8, Zenon DEF Recovered
  <2>2. \/ /\ Installed(h) /\ At(r, "retrying")
           /\ robj' = [robj EXCEPT ![r] = <<h, enclave[h]>>]
        \/ Ends(r)
    BY <1>8, Zenon DEF Recovered
  <2>3. Installed(h) => <<h, enclave[h]>> \in Hosts \X Slots
    BY <2>1, Zenon DEF Installed, Inv, PoolInv
  <2>4. UNCHANGED <<failed, sends>>
    BY <1>8, Zenon DEF Recovered
  <2>5. RequestInv'
    BY <1>1, <2>1, <2>2, <2>3, <2>4, RequestMoves DEF Ends, At, Inv
  <2> QED
    BY <1>2, <1>8, <2>5, Zenon DEF Recovered
<1> QED
  BY <1>3, <1>4, <1>5, <1>6, <1>7, <1>8, Zenon

(***************************************************************************)
(* A backend restarts: its key only grows, so that keys seen or installed  *)
(* before stay behind it.                                                  *)
(***************************************************************************)
LEMMA RotateKeeps ==
  ASSUME Inv, NEW h \in Hosts, Rotate(h) PROVE Inv'
<1>1. /\ backendKey' \in [Hosts -> Keys]
      /\ \A g \in Hosts : backendKey[g] \in Int /\ backendKey'[g] \in Int
                          /\ backendKey[g] <= backendKey'[g]
  BY LifecycleAssumption DEF Rotate, Inv, PoolInv, Keys
<1>2. UNCHANGED <<configured, enclave, objs, flights, worker, request>>
  BY Zenon DEF Rotate, model
<1>3. ASSUME NEW g \in Hosts, Installed(g)
      PROVE  CurrentOf(g).key <= backendKey'[g] /\ CurrentOf(g) \in Objects
  <2>1. CurrentOf(g) \in Objects /\ CurrentOf(g).key <= backendKey[g]
    BY <1>3, Zenon DEF Inv, PoolInv, PoolBehindBackend
  <2>2. CurrentOf(g).key \in Int
    BY <2>1 DEF Objects, Keys
  <2> QED
    BY <1>1, <2>1, <2>2
<1>4. PoolInv'
  BY <1>1, <1>2, <1>3, Zenon DEF Inv, PoolInv, PoolIsConfigured, VouchedForOwnKey, PoolBehindBackend,
                           Installed, CurrentOf
<1>5. \A f \in flights : FlightSound(f)'
  <2> SUFFICES ASSUME NEW f \in flights, f.stage = "install" PROVE f.key <= backendKey'[f.host]
    BY <1>2, Zenon DEF Inv, FlightInv, FlightSound, Installed, CurrentOf
  <2>1. f.host \in Hosts /\ f.key \in Int /\ f.key <= backendKey[f.host]
    BY DEF Inv, FlightInv, FlightSound, Flights, Keys
  <2> QED
    BY <1>1, <2>1
<1>6. FlightInv'
  BY <1>2, <1>5, Zenon DEF Inv, FlightInv, OneFlight
<1> QED
  BY <1>2, <1>4, <1>6, WorkerFrame, RequestFrame, Zenon DEF Inv

(***************************************************************************)
(* Time passes for an attestation: neither its key nor the key it was      *)
(* granted for changes.                                                    *)
(***************************************************************************)
LEMMA AgeKeeps ==
  ASSUME Inv, NEW h \in Hosts, NEW s \in Slots, Age(h, s) PROVE Inv'
<1> DEFINE old == objs[h][s]
           new == [old EXCEPT !.age = IF @ = "fresh" THEN "due" ELSE "expired"]
<1>1. old \in Objects
  <2>1. old \in Objects \cup {Nothing} /\ old.age # "expired"
    BY Zenon DEF Age, Inv, PoolInv
  <2> QED
    BY <2>1 DEF Nothing
<1>2. new \in Objects /\ new.key = old.key /\ new.vouched = old.vouched
  BY <1>1, Zenon DEF Objects, Ages
<1>3. objs' = [objs EXCEPT ![h] = [objs[h] EXCEPT ![s] = new]]
  BY Zenon DEF Age
<1>4. objs' \in [Hosts -> [Slots -> Objects \cup {Nothing}]]
  BY <1>2, <1>3, Zenon DEF Inv, PoolInv
<1>5. \A g \in Hosts : \A t \in Slots :
        /\ objs'[g][t].key = objs[g][t].key
        /\ objs'[g][t].vouched = objs[g][t].vouched
        /\ objs[g][t] \in Objects => objs'[g][t] \in Objects
  BY <1>2, <1>3, Zenon DEF Inv, PoolInv
<1>6. UNCHANGED <<configured, enclave, backendKey, flights, worker, request>>
  BY Zenon DEF Age
<1>7. ASSUME NEW g \in Hosts
      PROVE  /\ Installed(g)' = Installed(g)
             /\ Installed(g) => /\ CurrentOf(g)'.key = CurrentOf(g).key
                                /\ CurrentOf(g) \in Objects => CurrentOf(g)' \in Objects
  BY <1>5, <1>6 DEF Inv, PoolInv, Installed, CurrentOf
<1>8. PoolInv'
  <2>1. PoolIsConfigured' /\ PoolBehindBackend'
    BY <1>6, <1>7, Zenon DEF Inv, PoolInv, PoolIsConfigured, PoolBehindBackend
  <2>2. VouchedForOwnKey'
    BY <1>5 DEF Inv, PoolInv, VouchedForOwnKey
  <2> QED
    BY <1>4, <1>6, <2>1, <2>2, Zenon DEF Inv, PoolInv
<1>9. FlightInv'
  BY <1>6, <1>7, Zenon DEF Inv, FlightInv, OneFlight, FlightSound, Flights
<1> QED
  BY <1>6, <1>8, <1>9, WorkerFrame, RequestFrame, Zenon DEF Inv

-----------------------------------------------------------------------------
(***************************************************************************)
(* A verification goes on to its next stage, still the only one of its     *)
(* host.                                                                   *)
(***************************************************************************)
LEMMA AdvanceKeeps ==
  ASSUME FlightInv, UNCHANGED <<model, backendKey>>, NEW f \in flights,
         NEW g \in Flights, g.host = f.host, FlightSound(g), Advance(f, g)
  PROVE  FlightInv'
<1>1. flights' = (flights \ {f}) \cup {g}
  BY Zenon DEF Advance
<1>2. OneFlight'
  BY <1>1 DEF FlightInv, OneFlight
<1>3. \A k \in flights' : FlightSound(k)'
  BY <1>1, Zenon DEF FlightInv, FlightSound, model, Installed, CurrentOf
<1> QED
  BY <1>1, <1>2, <1>3, Zenon DEF FlightInv

(***************************************************************************)
(* recoverEnclave's first look and the verification itself: the key it     *)
(* reports is the backend's, which no object of the pool is ahead of.      *)
(***************************************************************************)
LEMMA VerificationKeeps ==
  ASSUME Inv, NEW f \in flights, Check(f) \/ VerifyFails(f) \/ Verify(f)
  PROVE  Inv'
<1>1. f \in Flights /\ f.host \in Hosts
  BY Zenon DEF Inv, FlightInv, Flights
<1>2. ASSUME UNCHANGED <<model, backendKey, failed, sends>>, NEW ok \in BOOLEAN, Complete(f, ok)
      PROVE  Inv'
  <2>1. WorkerInv' /\ RequestInv' /\ flights' = flights \ {f}
    BY <1>2, CompleteKeeps, Zenon DEF Inv
  <2> QED
    BY <1>2, <2>1, PoolFrame, FlightFrame, Zenon DEF Inv
<1>3. CASE Check(f)
  <2> DEFINE g == [f EXCEPT !.stage = "verify"]
  <2>1. \/ Advance(f, g) /\ UNCHANGED <<worker, rpc, robj>>
        \/ Complete(f, f.host \in configured)
    BY <1>3, Zenon DEF Check
  <2>2. UNCHANGED <<model, backendKey, failed, sends>>
    BY <1>3, Zenon DEF Check
  <2>3. g \in Flights /\ g.host = f.host /\ FlightSound(g)
    BY <1>1, Zenon DEF Flights, FlightSound
  <2>4. CASE Advance(f, g) /\ UNCHANGED <<worker, rpc, robj>>
    BY <2>2, <2>3, <2>4, AdvanceKeeps, PoolFrame, WorkerFrame, RequestFrame, Zenon DEF Inv, request
  <2>5. CASE Complete(f, f.host \in configured)
    <3>1. Complete(f, TRUE) \/ Complete(f, FALSE)
      BY <2>5, Zenon DEF Complete
    <3> QED
      BY <1>2, <2>2, <3>1, Zenon
  <2> QED
    BY <2>1, <2>4, <2>5, Zenon
<1>4. CASE VerifyFails(f)
  BY <1>2, <1>4, Zenon DEF VerifyFails
<1>5. CASE Verify(f)
  <2> DEFINE g == [f EXCEPT !.stage = "install", !.key = backendKey[f.host]]
  <2>1. Advance(f, g) /\ UNCHANGED <<model, backendKey, worker, request>>
    BY <1>5, Zenon DEF Verify
  <2>2. backendKey[f.host] \in Keys /\ backendKey[f.host] \in 0 .. MaxKey
    BY <1>1 DEF Inv, PoolInv, Keys
  <2>3. g \in Flights /\ g.host = f.host /\ g.key = backendKey[f.host]
    BY <1>1, <2>2, Zenon DEF Flights
  <2>4. FlightSound(g)
    BY <1>1, <2>2, <2>3 DEF FlightSound, Inv, PoolInv, PoolBehindBackend, Keys
  <2> QED
    BY <2>1, <2>3, <2>4, AdvanceKeeps, PoolFrame, WorkerFrame, RequestFrame, Zenon DEF Inv
<1> QED
  BY <1>3, <1>4, <1>5, Zenon

(***************************************************************************)
(* refreshEnclave under the lock, seen from the pool: only the object of   *)
(* the verified host changes, to the key that was seen, and that key is no *)
(* older than the one it replaces.                                         *)
(***************************************************************************)
LEMMA InstallMovesPool ==
  ASSUME Inv, NEW f \in flights, Install(f)
  PROVE  /\ PoolInv'
         /\ \A g \in Hosts \ {f.host} : enclave'[g] = enclave[g] /\ objs'[g] = objs[g]
         /\ Installed(f.host) /\ Installed(f.host)' => CurrentOf(f.host)'.key >= CurrentOf(f.host).key
<1> DEFINE h == f.host
<1>1. /\ h \in Hosts /\ f.key \in Keys /\ f.key <= backendKey[h]
      /\ Installed(h) => CurrentOf(h).key <= f.key /\ CurrentOf(h) \in Objects
  BY Zenon DEF Inv, FlightInv, Flights, FlightSound, Install, PoolInv, PoolBehindBackend
<1>2. UNCHANGED <<configured, backendKey>>
  BY Zenon DEF Install, model
<1>3. CASE UNCHANGED model
  <2>1. Installed(h) => CurrentOf(h).key \in Int
    BY <1>1 DEF Objects, Keys
  <2> QED
    BY <1>2, <1>3, <2>1, PoolFrame DEF Inv, model, Installed, CurrentOf
<1>4. CASE /\ Installed(h) /\ CurrentOf(h).key = f.key
           /\ objs' = [objs EXCEPT ![h][enclave[h]].age = "fresh",
                                   ![h][enclave[h]].vouched = f.key]
           /\ UNCHANGED enclave
  <2> DEFINE s == enclave[h]
             new == [objs[h][s] EXCEPT !.age = "fresh", !.vouched = f.key]
  <2>1. s \in Slots /\ objs[h][s] \in Objects /\ objs[h][s].key = f.key
    BY <1>1, <1>4, Zenon DEF Inv, PoolInv, Installed, CurrentOf
  <2>2. new \in Objects /\ new.key = f.key /\ new.vouched = f.key
    BY <1>1, <2>1, Zenon DEF Objects, Ages
  <2>3. objs' = [objs EXCEPT ![h] = [objs[h] EXCEPT ![s] = new]]
    BY <1>1, <1>4, <2>1, Zenon DEF Inv, PoolInv
  <2>4. enclave[h] = s /\ enclave' = enclave
    BY <1>4, Zenon
  <2> HIDE DEF s, new
  <2>5. /\ objs' \in [Hosts -> [Slots -> Objects \cup {Nothing}]]
        /\ objs'[h][s] = new
        /\ \A g \in Hosts : \A t \in Slots : (g # h \/ t # s) => objs'[g][t] = objs[g][t]
        /\ \A g \in Hosts \ {h} : objs'[g] = objs[g]
    BY <1>1, <2>1, <2>2, <2>3, Zenon DEF Inv, PoolInv
  <2>6. VouchedForOwnKey'
    BY <2>2, <2>5 DEF Inv, PoolInv, VouchedForOwnKey
  <2>7. CurrentOf(h)' = new
    BY <2>4, <2>5, Zenon DEF CurrentOf
  <2>8. PoolIsConfigured'
    BY <1>2, <2>4, Zenon DEF Inv, PoolInv, PoolIsConfigured, Installed
  <2>9. ASSUME NEW g \in Hosts, Installed(g)'
        PROVE  CurrentOf(g)' \in Objects /\ CurrentOf(g)'.key <= backendKey'[g]
    <3>1. CASE g = h
      BY <1>1, <1>2, <2>2, <2>7, <3>1, Zenon
    <3>2. CASE g # h
      BY <1>2, <2>4, <2>5, <2>9, <3>2, Zenon DEF Inv, PoolInv, PoolBehindBackend, Installed, CurrentOf
    <3> QED
      BY <3>1, <3>2, Zenon
  <2>10. CurrentOf(h)'.key >= CurrentOf(h).key
    BY <1>1, <1>4, <2>2, <2>7, Zenon DEF Keys
  <2> QED
    BY <1>2, <2>4, <2>5, <2>6, <2>8, <2>9, <2>10 DEF Inv, PoolInv, PoolBehindBackend
<1>5. CASE /\ StillConfigured(h)
           /\ LET s == CHOOSE s \in Slots : ~Held(h, s)
              IN  /\ objs' = [objs EXCEPT ![h][s] =
                                [key |-> f.key, age |-> "fresh", vouched |-> f.key]]
                  /\ enclave' = [enclave EXCEPT ![h] = s]
  <2> DEFINE s == CHOOSE s \in Slots : ~Held(h, s)
             new == [key |-> f.key, age |-> "fresh", vouched |-> f.key]
  <2>1. s \in Slots /\ s # NoObject
    BY <1>1, FreeSlot, LifecycleAssumption, Zenon
  <2>2. new \in Objects /\ new.key = f.key /\ new.vouched = f.key
    BY <1>1, Zenon DEF Objects, Ages
  <2>3. /\ objs' = [objs EXCEPT ![h] = [objs[h] EXCEPT ![s] = new]]
        /\ enclave' = [enclave EXCEPT ![h] = s]
    BY <1>5, Zenon
  <2> HIDE DEF s, new
  <2>4. /\ objs' \in [Hosts -> [Slots -> Objects \cup {Nothing}]]
        /\ objs'[h][s] = new
        /\ \A g \in Hosts : \A t \in Slots : (g # h \/ t # s) => objs'[g][t] = objs[g][t]
        /\ \A g \in Hosts \ {h} : objs'[g] = objs[g]
    BY <1>1, <2>1, <2>2, <2>3, Zenon DEF Inv, PoolInv
  <2>5. /\ enclave' \in [Hosts -> Slots \cup {NoObject}]
        /\ enclave'[h] = s
        /\ \A g \in Hosts \ {h} : enclave'[g] = enclave[g]
    BY <1>1, <2>1, <2>3, Zenon DEF Inv, PoolInv
  <2>6. VouchedForOwnKey'
    BY <2>2, <2>4 DEF Inv, PoolInv, VouchedForOwnKey
  <2>7. CurrentOf(h)' = new
    BY <2>4, <2>5, Zenon DEF CurrentOf
  <2>8. PoolBehindBackend' /\ PoolIsConfigured'
    <3>1. ASSUME NEW g \in Hosts, Installed(g)'
          PROVE  g \in configured' /\ CurrentOf(g)' \in Objects /\ CurrentOf(g)'.key <= backendKey'[g]
      <4>1. CASE g = h
        BY <1>1, <1>2, <1>5, <2>2, <2>7, <4>1, Zenon DEF StillConfigured
      <4>2. CASE g # h
        BY <1>2, <2>4, <2>5, <3>1, <4>2, Zenon
        DEF Inv, PoolInv, PoolBehindBackend, PoolIsConfigured, Installed, CurrentOf
      <4> QED
        BY <4>1, <4>2, Zenon
    <3> QED
      BY <3>1, Zenon DEF PoolBehindBackend, PoolIsConfigured
  <2>9. Installed(h) => CurrentOf(h)'.key >= CurrentOf(h).key
    <3>1. Installed(h) => CurrentOf(h).key \in Int
      BY <1>1 DEF Objects, Keys
    <3> QED
      BY <1>1, <2>2, <2>7, <3>1, Zenon DEF Keys
  <2> QED
    BY <1>2, <2>4, <2>5, <2>6, <2>8, <2>9, Zenon DEF Inv, PoolInv
<1> QED
  BY <1>3, <1>4, <1>5, Zenon DEF Install, SameKey

(***************************************************************************)
(* refreshEnclave under the lock: the other hosts' verifications see no    *)
(* change, and this one is over.                                           *)
(***************************************************************************)
LEMMA InstallKeeps ==
  ASSUME Inv, NEW f \in flights, Install(f) PROVE Inv'
<1>1. \E ok \in BOOLEAN : Complete(f, ok)
  BY Zenon DEF Install
<1>2. UNCHANGED <<backendKey, failed, sends>>
  BY Zenon DEF Install
<1>3. WorkerInv' /\ RequestInv' /\ flights' = flights \ {f}
  BY <1>1, <1>2, CompleteKeeps, Zenon DEF Inv
<1>4. ASSUME NEW g \in flights' PROVE FlightSound(g)'
  <2>1. g \in flights /\ g \in Flights /\ FlightSound(g) /\ g.host \in Hosts \ {f.host}
    BY <1>3, <1>4, Zenon DEF Inv, FlightInv, OneFlight, Flights
  <2>2. enclave'[g.host] = enclave[g.host] /\ objs'[g.host] = objs[g.host]
    BY <2>1, InstallMovesPool, Zenon
  <2> QED
    BY <1>2, <2>1, <2>2, Zenon DEF FlightSound, Installed, CurrentOf
<1>5. FlightInv'
  BY <1>3, <1>4, Zenon DEF Inv, FlightInv, OneFlight
<1> QED
  BY <1>3, <1>5, InstallMovesPool, Zenon DEF Inv

-----------------------------------------------------------------------------
(***************************************************************************)
(* Every step of the worker, of a verification, of a request and of a      *)
(* backend keeps pool, verifications and requests sound.                   *)
(***************************************************************************)
LEMMA Invariance == Spec => []Inv
<1>1. Init => Inv
  <2> SUFFICES ASSUME Init PROVE Inv
    BY Zenon
  <2>1. PoolInv
    BY LifecycleAssumption
    DEF Init, PoolInv, PoolIsConfigured, VouchedForOwnKey, PoolBehindBackend, Installed,
        Nothing, Keys
  <2>2. FlightInv
    BY Zenon DEF Init, FlightInv, OneFlight
  <2>3. WorkerInv
    BY LifecycleAssumption DEF Init, WorkerInv, Workers, WorkerSound, Idle
  <2>4. RequestInv
    BY LifecycleAssumption DEF Init, RequestInv, RequestSound
  <2> QED
    BY <2>1, <2>2, <2>3, <2>4, Zenon DEF Inv
<1>2. Inv /\ [Next]_vars => Inv'
  <2> SUFFICES ASSUME Inv, [Next]_vars PROVE Inv'
    BY Zenon
  <2>1. CASE UNCHANGED vars
    BY <2>1, PoolFrame, FlightFrame, WorkerFrame, RequestFrame, Zenon DEF Inv, vars
  <2> QED
    BY <2>1, WorkerKeeps, VerificationKeeps, InstallKeeps, RequestKeeps, RotateKeeps, AgeKeeps, Zenon
    DEF Next, FlightStep
<1> QED
  BY <1>1, <1>2, PTL DEF Spec

(***************************************************************************)
(* The pool holds configured hosts only, each under a key that was         *)
(* verified as its own, whichever verification finished last               *)
(* (refreshEnclave, attestationState).                                     *)
(***************************************************************************)
THEOREM PoolIsSound == Spec => []PoolSound
<1>1. Inv => PoolSound
  BY Zenon DEF Inv, PoolInv, FlightInv, WorkerInv, RequestInv, PoolSound, TypeOK, Workers
<1> QED
  BY <1>1, Invariance, PTL

(***************************************************************************)
(* A request's headers are written at most once, through however many      *)
(* rotations it is replayed (rotationTransport.RoundTrip).                 *)
(***************************************************************************)
THEOREM HeadersWrittenOnce == Spec => []WrittenOnce
<1>1. Inv => WrittenOnce
  BY Zenon DEF Inv, RequestInv, RequestSound, WrittenOnce
<1> QED
  BY <1>1, Invariance, PTL

(***************************************************************************)
(* Only an installation changes the key of a host in the pool.             *)
(***************************************************************************)
LEMMA KeysOnlyInstalled ==
  ASSUME Inv, [Next]_vars, ~\E f \in flights : Install(f), NEW h \in Hosts,
         Installed(h), Installed(h)'
  PROVE  CurrentOf(h)'.key = CurrentOf(h).key
<1>1. CASE Sync
  BY <1>1, Zenon DEF Sync, Installed, CurrentOf
<1>2. ASSUME NEW g \in Hosts, NEW s \in Slots, Age(g, s)
      PROVE  CurrentOf(h)'.key = CurrentOf(h).key
  <2> DEFINE new == [objs[g][s] EXCEPT !.age = IF @ = "fresh" THEN "due" ELSE "expired"]
  <2>1. enclave' = enclave /\ enclave[h] \in Slots
    BY <1>2, Zenon DEF Age, Inv, PoolInv, Installed
  <2>2. objs' = [objs EXCEPT ![g] = [objs[g] EXCEPT ![s] = new]]
    BY <1>2, Zenon DEF Age
  <2>3. new.key = objs[g][s].key
    <3>1. objs[g][s] \in Objects \cup {Nothing}
      BY DEF Inv, PoolInv
    <3> QED
      BY <3>1, Zenon DEF Objects, Nothing
  <2> HIDE DEF new
  <2> QED
    BY <2>1, <2>2, <2>3, Zenon DEF CurrentOf, Inv, PoolInv
<1>3. CASE UNCHANGED model
  BY <1>3, Zenon DEF model, CurrentOf
<1> QED
  BY <1>1, <1>2, <1>3, Zenon
  DEF Next, vars, WorkerStep, SyncFails, RefreshDone, ProbeFails, Probe, Compare, AddEnclave,
      FlightStep, Check, VerifyFails, Verify, Send, Fails, Delivers, Rejected, RecoveryTimeout,
      Recovered, Rotate

(***************************************************************************)
(* The pool never goes back to an older key of a host, whoever started     *)
(* the verifications and however late they finish: the singleflight group  *)
(* lets only one of them see a key and install it at a time.               *)
(***************************************************************************)
THEOREM PoolKeysNeverGoBack == Spec => KeysNeverGoBack
<1>1. ASSUME Inv, [Next]_vars, NEW h \in Hosts, Installed(h), Installed(h)'
      PROVE  objs'[h][enclave'[h]].key >= CurrentOf(h).key
  <2>1. CurrentOf(h).key \in Int
    BY <1>1 DEF Inv, PoolInv, PoolBehindBackend, Objects, Keys
  <2>2. CASE ~\E f \in flights : Install(f)
    BY <1>1, <2>1, <2>2, KeysOnlyInstalled DEF CurrentOf
  <2>3. ASSUME NEW f \in flights, Install(f)
        PROVE  objs'[h][enclave'[h]].key >= CurrentOf(h).key
    BY <1>1, <2>1, <2>3, InstallMovesPool DEF CurrentOf
  <2> QED
    BY <2>2, <2>3, Zenon
<1>2. Inv /\ [Next]_vars =>
        [\A h \in Hosts : (Installed(h) /\ Installed(h)') =>
           objs'[h][enclave'[h]].key >= CurrentOf(h).key]_vars
  BY <1>1, Zenon
<1> QED
  BY <1>2, Invariance, PTL DEF Spec, KeysNeverGoBack

-----------------------------------------------------------------------------
(***************************************************************************)
(* A replay goes forward: the enclave that recoverEnclave hands to a       *)
(* rejected request has a newer key than the one that was rejected, even   *)
(* when the host left the pool and came back in between                    *)
(* (rotationTransport.RoundTrip, recoverEnclave).                          *)
(***************************************************************************)
ReplayGoesForward ==
  \A r \in Requests : rpc[r] = "retrying" => Object(robj[r]).key > failed[r]

\* The object in the pool is the newest its host has had, the backend is not
\* behind any of them, and neither is a verification that has seen a key.
NewestInPool ==
  \A h \in Hosts : \A s \in Slots :
    /\ objs[h][s].key <= backendKey[h]
    /\ Installed(h) => objs[h][s].key <= CurrentOf(h).key
    /\ \A f \in flights : f.host = h /\ f.stage = "install" => objs[h][s].key <= f.key

\* A request that waits for a recovery still holds the object that was
\* rejected.
RejectedKeyHeld ==
  \A r \in Requests : rpc[r] \in {"waiting", "woken"} => failed[r] = Object(robj[r]).key

RotationInv == NewestInPool /\ RejectedKeyHeld /\ ReplayGoesForward

(***************************************************************************)
(* An object keeps its key while the pool or a request holds it:           *)
(* refreshEnclave renews only under the same key and puts a new object     *)
(* into a slot that nobody holds.                                          *)
(***************************************************************************)
LEMMA HeldKeysKept ==
  ASSUME Inv, [Next]_vars, NEW h \in Hosts, NEW s \in Slots, Held(h, s)
  PROVE  objs'[h][s].key = objs[h][s].key
<1>1. CASE objs' = objs
  BY <1>1, Zenon
<1>2. ASSUME NEW g \in Hosts, NEW t \in Slots, Age(g, t)
      PROVE  objs'[h][s].key = objs[h][s].key
  <2> DEFINE new == [objs[g][t] EXCEPT !.age = IF @ = "fresh" THEN "due" ELSE "expired"]
  <2>1. objs' = [objs EXCEPT ![g] = [objs[g] EXCEPT ![t] = new]]
    BY <1>2, Zenon DEF Age
  <2>2. new.key = objs[g][t].key
    <3>1. objs[g][t] \in Objects \cup {Nothing}
      BY DEF Inv, PoolInv
    <3> QED
      BY <3>1, Zenon DEF Objects, Nothing
  <2> HIDE DEF new
  <2> QED
    BY <2>1, <2>2, Zenon DEF Inv, PoolInv
<1>3. ASSUME NEW f \in flights, Install(f)
      PROVE  objs'[h][s].key = objs[h][s].key
  <2>1. f.host \in Hosts
    BY Zenon DEF Inv, FlightInv, Flights
  <2>2. CASE /\ Installed(f.host)
             /\ objs' = [objs EXCEPT ![f.host][enclave[f.host]].age = "fresh",
                                     ![f.host][enclave[f.host]].vouched = f.key]
    <3> DEFINE t == enclave[f.host]
               new == [objs[f.host][t] EXCEPT !.age = "fresh", !.vouched = f.key]
    <3>1. t \in Slots /\ objs[f.host][t] \in Objects
      BY <2>1, <2>2, Zenon DEF Inv, PoolInv, PoolBehindBackend, Installed, CurrentOf
    <3>2. objs' = [objs EXCEPT ![f.host] = [objs[f.host] EXCEPT ![t] = new]]
      BY <2>1, <2>2, <3>1, Zenon DEF Inv, PoolInv
    <3>3. new.key = objs[f.host][t].key
      BY <3>1, Zenon DEF Objects
    <3> HIDE DEF new, t
    <3> QED
      BY <2>1, <3>1, <3>2, <3>3, Zenon DEF Inv, PoolInv
  <2>3. CASE LET t == CHOOSE t \in Slots : ~Held(f.host, t)
             IN  objs' = [objs EXCEPT ![f.host][t] =
                            [key |-> f.key, age |-> "fresh", vouched |-> f.key]]
    <3> DEFINE t == CHOOSE t \in Slots : ~Held(f.host, t)
               new == [key |-> f.key, age |-> "fresh", vouched |-> f.key]
    <3>1. t \in Slots /\ ~Held(f.host, t)
      BY <2>1, FreeSlot, Zenon
    <3>2. objs' = [objs EXCEPT ![f.host] = [objs[f.host] EXCEPT ![t] = new]]
      BY <2>3, Zenon
    <3> HIDE DEF new, t
    <3> QED
      BY <2>1, <3>1, <3>2, Zenon DEF Inv, PoolInv
  <2> QED
    BY <1>1, <1>3, <2>2, <2>3, Zenon DEF Install, SameKey, model
<1> QED
  BY <1>1, <1>2, <1>3, Zenon
  DEF Next, vars, model, WorkerStep, Sync, SyncFails, RefreshDone, ProbeFails, Probe, Compare,
      AddEnclave, FlightStep, Check, VerifyFails, Verify, Send, Fails, Delivers, Rejected,
      RecoveryTimeout, Recovered, Rotate

(***************************************************************************)
(* How a request comes to wait and to be replayed: it waits from Rejected  *)
(* on, wakes with the object it held, and is replayed by Recovered alone.  *)
(***************************************************************************)
LEMMA RequestPaths ==
  ASSUME Inv, [Next]_vars, NEW r \in Requests
  PROVE  \/ rpc'[r] \in {"idle", "sending"}
         \/ UNCHANGED <<rpc[r], robj[r], failed[r]>>
         \/ rpc[r] = "waiting" /\ rpc'[r] = "woken" /\ UNCHANGED <<robj[r], failed[r]>>
         \/ Rejected(r)
         \/ Recovered(r)
<1>1. CASE UNCHANGED <<rpc, robj, failed>>
  BY <1>1, Zenon
<1>2. ASSUME NEW f, NEW ok, Complete(f, ok), UNCHANGED failed
      PROVE  \/ rpc'[r] = "idle"
             \/ UNCHANGED <<rpc[r], robj[r], failed[r]>>
             \/ rpc[r] = "waiting" /\ rpc'[r] = "woken" /\ UNCHANGED <<robj[r], failed[r]>>
  BY <1>2, Zenon DEF Complete
<1>3. CASE \E f \in flights : FlightStep(f)
  BY <1>1, <1>2, <1>3, ZenonT(30) DEF FlightStep, Check, VerifyFails, Verify, Install, request
<1>4. ASSUME NEW q \in Requests, q # r,
             \/ \E h \in Hosts : Send(q, h)
             \/ Fails(q) \/ Delivers(q) \/ Rejected(q) \/ RecoveryTimeout(q) \/ Recovered(q)
      PROVE  UNCHANGED <<rpc[r], robj[r], failed[r]>>
  BY <1>4 DEF Send, Fails, Delivers, Rejected, RecoveryTimeout, Recovered, Ends, At, Inv, RequestInv
<1>5. CASE (\E h \in Hosts : Send(r, h)) \/ Fails(r) \/ Delivers(r) \/ RecoveryTimeout(r)
  BY <1>5, Zenon DEF Send, Fails, Delivers, RecoveryTimeout, Ends, At, Inv, RequestInv
<1>6. CASE WorkerStep \/ (\E h \in Hosts : Rotate(h) \/ \E s \in Slots : Age(h, s)) \/ UNCHANGED vars
  <2>1. UNCHANGED request
    BY <1>6, Zenon DEF WorkerStep, Sync, SyncFails, RefreshDone, ProbeFails, Probe, Compare, AddEnclave,
                Rotate, Age, vars
  <2> QED
    BY <1>1, <2>1, Zenon DEF request
<1> QED
  BY <1>3, <1>4, <1>5, <1>6, Zenon DEF Next

(***************************************************************************)
(* Keys are numbers, those of free slots included.                         *)
(***************************************************************************)
LEMMA KeysAreNumbers ==
  ASSUME Inv, NEW h \in Hosts
  PROVE  /\ backendKey[h] \in Int
         /\ \A s \in Slots : objs[h][s].key \in Int
         /\ Installed(h) => enclave[h] \in Slots
<1>1. \A s \in Slots : objs[h][s] \in Objects \cup {Nothing}
  BY Zenon DEF Inv, PoolInv
<1>2. \A x \in Objects \cup {Nothing} : x.key \in Int
  BY DEF Objects, Nothing, Keys
<1> QED
  BY <1>1, <1>2 DEF Inv, PoolInv, Keys, Installed

(***************************************************************************)
(* A rejected request keeps the rejected object until it is replayed, and  *)
(* is replayed on the newest one, which has another key (recoverEnclave's  *)
(* second look).                                                           *)
(***************************************************************************)
LEMMA ReplayKept ==
  ASSUME Inv, RotationInv, [Next]_vars
  PROVE  RejectedKeyHeld' /\ ReplayGoesForward'
<1> SUFFICES ASSUME NEW r \in Requests
             PROVE  /\ rpc'[r] \in {"waiting", "woken"} => failed'[r] = Object(robj[r])'.key
                    /\ rpc'[r] = "retrying" => Object(robj[r])'.key > failed'[r]
  BY Zenon DEF RejectedKeyHeld, ReplayGoesForward, Object
<1>1. rpc[r] # "idle" => robj[r] \in Hosts \X Slots /\ robj[r] = <<robj[r][1], robj[r][2]>>
  BY DEF Inv, RequestInv, RequestSound
<1>2. rpc[r] # "idle" => objs'[robj[r][1]][robj[r][2]].key = Object(robj[r]).key
  BY <1>1, HeldKeysKept, Zenon DEF Held, Object
<1>3. CASE rpc'[r] \in {"idle", "sending"}
  BY <1>3, Zenon
<1>4. CASE UNCHANGED <<rpc[r], robj[r], failed[r]>>
  BY <1>2, <1>4, Zenon DEF RotationInv, RejectedKeyHeld, ReplayGoesForward, Object
<1>5. CASE rpc[r] = "waiting" /\ rpc'[r] = "woken" /\ UNCHANGED <<robj[r], failed[r]>>
  BY <1>2, <1>5, Zenon DEF RotationInv, RejectedKeyHeld, Object
<1>6. CASE Rejected(r)
  BY <1>2, <1>6, Zenon DEF Rejected, At, Inv, RequestInv, Object
<1>7. CASE Recovered(r)
  <2> DEFINE h == robj[r][1]
  <2>1. rpc[r] = "woken" /\ UNCHANGED <<objs, enclave, failed>> /\ h \in Hosts /\ robj[r][2] \in Slots
    BY <1>1, <1>7, Zenon DEF Recovered, model
  <2>2. failed[r] = objs[h][robj[r][2]].key
    BY <2>1, Zenon DEF RotationInv, RejectedKeyHeld, Object
  <2>3. CASE /\ Installed(h) /\ CurrentOf(h).key # failed[r] /\ At(r, "retrying")
             /\ robj' = [robj EXCEPT ![r] = <<h, enclave[h]>>]
    <3>1. rpc'[r] = "retrying" /\ robj'[r] = <<h, enclave[h]>>
      BY <2>3, Zenon DEF At, Inv, RequestInv
    <3>2. Object(robj[r])' = CurrentOf(h)
      BY <2>1, <3>1 DEF Object, CurrentOf
    <3>3. failed[r] <= CurrentOf(h).key
      BY <2>1, <2>2, <2>3, Zenon DEF RotationInv, NewestInPool
    <3>4. failed[r] \in Int /\ CurrentOf(h).key \in Int
      BY <2>1, <2>2, <2>3, KeysAreNumbers, Zenon DEF CurrentOf
    <3> QED
      BY <2>1, <2>3, <3>1, <3>2, <3>3, <3>4
  <2>4. CASE Ends(r)
    BY <2>4, Zenon DEF Ends, At, Inv, RequestInv
  <2> QED
    BY <1>7, <2>3, <2>4, Zenon DEF Recovered
<1> QED
  BY <1>3, <1>4, <1>5, <1>6, <1>7, RequestPaths, Zenon

(***************************************************************************)
(* Only Verify lets a verification see a key, and then it is the           *)
(* backend's.                                                              *)
(***************************************************************************)
LEMMA FlightPaths ==
  ASSUME Inv, [Next]_vars, NEW f \in flights', f.stage = "install"
  PROVE  f \in flights \/ (f.key = backendKey[f.host] /\ UNCHANGED <<model, backendKey>>)
<1>1. CASE flights' \subseteq flights
  BY <1>1, Zenon
<1>2. ASSUME NEW h, NEW stage \in {"check", "verify"}, NEW key, Join(h, stage, key)
      PROVE  f \in flights
  BY <1>2 DEF Join
<1>3. ASSUME NEW g \in flights, FlightStep(g)
      PROVE  f \in flights \/ (f.key = backendKey[f.host] /\ UNCHANGED <<model, backendKey>>)
  <2>1. g \in Flights
    BY Zenon DEF Inv, FlightInv
  <2>2. CASE Verify(g)
    BY <2>1, <2>2, ZenonT(30) DEF Verify, Advance, Flights
  <2>3. CASE Check(g)
    BY <2>1, <2>3 DEF Check, Advance, Complete, Flights
  <2>4. CASE VerifyFails(g) \/ Install(g)
    BY <2>4, Zenon DEF VerifyFails, Install, Complete
  <2> QED
    BY <1>3, <2>2, <2>3, <2>4, Zenon DEF FlightStep
<1> QED
  BY <1>1, <1>2, <1>3, Zenon
  DEF Next, vars, WorkerStep, Sync, SyncFails, RefreshDone, ProbeFails, Probe, Compare,
      AddEnclave, Send, Fails, Delivers, Rejected, RecoveryTimeout, Recovered, Rotate, Age

(***************************************************************************)
(* refreshEnclave under the lock leaves the key it saw as the newest of    *)
(* the host, and every other host as it was.                               *)
(***************************************************************************)
LEMMA InstallPutsNewest ==
  ASSUME Inv, RotationInv, NEW f \in flights, Install(f), ~UNCHANGED model
  PROVE  /\ f.host \in Hosts /\ f.key \in Int /\ f.key <= backendKey[f.host]
         /\ \A s \in Slots : objs'[f.host][s].key <= f.key
         /\ Installed(f.host)' /\ CurrentOf(f.host)'.key = f.key
<1> DEFINE h == f.host
<1>1. h \in Hosts /\ f.key \in Int /\ f.key <= backendKey[h] /\ f.stage = "install"
  <2>1. f \in Flights /\ f.stage = "install" /\ f.key <= backendKey[h]
    BY Zenon DEF Inv, FlightInv, FlightSound, Install
  <2>2. QED
    BY <2>1 DEF Flights, Keys
<1>2. \A s \in Slots : objs[h][s].key <= f.key
  BY <1>1, Zenon DEF RotationInv, NewestInPool
<1>3. CASE /\ Installed(h) /\ CurrentOf(h).key = f.key
           /\ objs' = [objs EXCEPT ![h][enclave[h]].age = "fresh",
                                   ![h][enclave[h]].vouched = f.key]
           /\ UNCHANGED enclave
  <2> DEFINE t == enclave[h]
             new == [objs[h][t] EXCEPT !.age = "fresh", !.vouched = f.key]
  <2>1. t \in Slots /\ objs[h][t] \in Objects
    BY <1>1, <1>3, Zenon DEF Inv, PoolInv, PoolBehindBackend, Installed, CurrentOf
  <2>2. objs' = [objs EXCEPT ![h] = [objs[h] EXCEPT ![t] = new]]
    BY <1>1, <1>3, <2>1, Zenon DEF Inv, PoolInv
  <2>3. new.key = objs[h][t].key /\ objs[h][t].key = f.key
    BY <1>3, <2>1, Zenon DEF Objects, CurrentOf
  <2>4. enclave[h] = t /\ enclave' = enclave
    BY <1>3, Zenon
  <2> HIDE DEF new, t
  <2>5. \A s \in Slots : objs'[h][s].key = objs[h][s].key
    BY <1>1, <2>1, <2>2, <2>3, Zenon DEF Inv, PoolInv
  <2>6. Installed(h)' /\ CurrentOf(h)'.key = f.key
    BY <1>3, <2>1, <2>3, <2>4, <2>5, Zenon DEF CurrentOf, Installed
  <2> QED
    BY <1>1, <1>2, <2>5, <2>6, Zenon
<1>4. CASE LET s == CHOOSE s \in Slots : ~Held(h, s)
           IN  /\ objs' = [objs EXCEPT ![h][s] =
                             [key |-> f.key, age |-> "fresh", vouched |-> f.key]]
               /\ enclave' = [enclave EXCEPT ![h] = s]
  <2> DEFINE t == CHOOSE s \in Slots : ~Held(h, s)
             new == [key |-> f.key, age |-> "fresh", vouched |-> f.key]
  <2>1. t \in Slots /\ t # NoObject
    BY <1>1, FreeSlot, LifecycleAssumption, Zenon
  <2>2. /\ objs' = [objs EXCEPT ![h] = [objs[h] EXCEPT ![t] = new]]
        /\ enclave' = [enclave EXCEPT ![h] = t]
    BY <1>4, Zenon
  <2>3. new.key = f.key
    BY Zenon
  <2> HIDE DEF new, t
  <2>4. /\ \A s \in Slots : s # t => objs'[h][s] = objs[h][s]
        /\ objs'[h][t] = new /\ enclave'[h] = t
    BY <1>1, <2>1, <2>2, Zenon DEF Inv, PoolInv
  <2>5. ASSUME NEW s \in Slots PROVE objs'[h][s].key <= f.key
    BY <1>1, <1>2, <2>3, <2>4
  <2>6. Installed(h)' /\ CurrentOf(h)'.key = f.key
    BY <2>1, <2>3, <2>4, Zenon DEF CurrentOf, Installed
  <2> QED
    BY <1>1, <2>5, <2>6, Zenon
<1> QED
  BY <1>3, <1>4, Zenon DEF Install, SameKey

(***************************************************************************)
(* The pool's object stays the newest of its host, and no verification     *)
(* falls behind it.                                                        *)
(***************************************************************************)
LEMMA NewestKept ==
  ASSUME Inv, Inv', RotationInv, [Next]_vars
  PROVE  NewestInPool'
<1> SUFFICES ASSUME NEW h \in Hosts, NEW s \in Slots
             PROVE  /\ objs'[h][s].key <= backendKey'[h]
                    /\ Installed(h)' => objs'[h][s].key <= CurrentOf(h)'.key
                    /\ \A f \in flights' :
                         f.host = h /\ f.stage = "install" => objs'[h][s].key <= f.key
  BY Zenon DEF NewestInPool
<1>0. /\ objs[h][s].key <= backendKey[h]
      /\ Installed(h) => objs[h][s].key <= CurrentOf(h).key
      /\ \A f \in flights : f.host = h /\ f.stage = "install" => objs[h][s].key <= f.key
  BY Zenon DEF RotationInv, NewestInPool
<1>1. backendKey[h] \in Int /\ objs[h][s].key \in Int
  BY KeysAreNumbers, Zenon
<1>2. ASSUME objs'[h][s].key = objs[h][s].key, backendKey'[h] \in Int,
             backendKey[h] <= backendKey'[h],
             Installed(h)' => Installed(h) /\ CurrentOf(h)'.key = CurrentOf(h).key
      PROVE  /\ objs'[h][s].key <= backendKey'[h]
             /\ Installed(h)' => objs'[h][s].key <= CurrentOf(h)'.key
             /\ \A f \in flights' :
                  f.host = h /\ f.stage = "install" => objs'[h][s].key <= f.key
  <2>1. objs'[h][s].key <= backendKey'[h]
    BY <1>0, <1>1, <1>2
  <2>2. Installed(h)' => objs'[h][s].key <= CurrentOf(h)'.key
    BY <1>0, <1>2, Zenon
  <2>3. ASSUME NEW f \in flights', f.host = h, f.stage = "install"
        PROVE  objs'[h][s].key <= f.key
    BY <1>0, <1>2, <2>3, FlightPaths, Zenon
  <2> QED
    BY <2>1, <2>2, <2>3, Zenon
<1>3. CASE UNCHANGED <<model, backendKey>>
  BY <1>1, <1>2, <1>3 DEF model, Installed, CurrentOf
<1>4. CASE Sync
  BY <1>1, <1>2, <1>4 DEF Sync, Installed, CurrentOf
<1>5. ASSUME NEW g \in Hosts, Rotate(g)
      PROVE  /\ UNCHANGED <<objs, enclave>> /\ backendKey'[h] \in Int
             /\ backendKey[h] <= backendKey'[h]
  BY <1>1, <1>5 DEF Rotate, model, Inv, PoolInv
<1>6. CASE \E g \in Hosts : Rotate(g)
  BY <1>2, <1>5, <1>6, Zenon DEF Installed, CurrentOf
<1>7. ASSUME NEW g \in Hosts, NEW t \in Slots, Age(g, t)
      PROVE  /\ objs'[h][s].key = objs[h][s].key /\ UNCHANGED <<enclave, backendKey>>
             /\ Installed(h) => CurrentOf(h)'.key = CurrentOf(h).key
  <2> DEFINE new == [objs[g][t] EXCEPT !.age = IF @ = "fresh" THEN "due" ELSE "expired"]
  <2>1. objs' = [objs EXCEPT ![g] = [objs[g] EXCEPT ![t] = new]] /\ UNCHANGED <<enclave, backendKey>>
    BY <1>7, Zenon DEF Age
  <2>2. new.key = objs[g][t].key
    <3>1. objs[g][t] \in Objects \cup {Nothing}
      BY DEF Inv, PoolInv
    <3> QED
      BY <3>1, Zenon DEF Objects, Nothing
  <2> HIDE DEF new
  <2>3. \A u \in Slots : objs'[h][u].key = objs[h][u].key
    BY <2>1, <2>2, Zenon DEF Inv, PoolInv
  <2> QED
    BY <2>1, <2>3, KeysAreNumbers, Zenon DEF CurrentOf, Installed
<1>8. CASE \E g \in Hosts : \E t \in Slots : Age(g, t)
  BY <1>1, <1>2, <1>7, <1>8 DEF Installed
<1>9. ASSUME NEW f \in flights, Install(f), ~UNCHANGED model
      PROVE  /\ objs'[h][s].key <= backendKey'[h]
             /\ Installed(h)' => objs'[h][s].key <= CurrentOf(h)'.key
             /\ \A g \in flights' :
                  g.host = h /\ g.stage = "install" => objs'[h][s].key <= g.key
  <2>1. UNCHANGED backendKey /\ flights' = flights \ {f}
    BY <1>9, Zenon DEF Install, Complete
  <2>2. CASE h = f.host
    <3>1. /\ f.key \in Int /\ f.key <= backendKey[h] /\ objs'[h][s].key <= f.key
          /\ CurrentOf(h)'.key = f.key
      BY <1>9, <2>2, InstallPutsNewest, Zenon
    <3>2. objs'[h][s].key \in Int
      <4>1. objs'[h][s] \in Objects \cup {Nothing}
        BY DEF Inv, PoolInv, Objects, Nothing, Keys, Ages
      <4> QED
        BY <4>1 DEF Objects, Nothing, Keys
    <3>3. \A g \in flights' : g.host # h
      BY <2>1, <2>2, Zenon DEF Inv, FlightInv, OneFlight
    <3> QED
      BY <1>1, <2>1, <3>1, <3>2, <3>3
  <2>3. CASE h # f.host
    <3>1. enclave'[h] = enclave[h] /\ objs'[h] = objs[h]
      BY <1>9, <2>3, InstallMovesPool, Zenon
    <3> QED
      BY <1>0, <2>1, <3>1, Zenon DEF Installed, CurrentOf
  <2> QED
    BY <2>2, <2>3, Zenon
<1>10. CASE \E f \in flights : Install(f)
  <2>1. UNCHANGED backendKey
    BY <1>10, Zenon DEF Install
  <2> QED
    BY <1>3, <1>9, <1>10, <2>1, Zenon
<1> QED
  BY <1>3, <1>4, <1>6, <1>8, <1>10, ZenonT(30)
  DEF Next, vars, WorkerStep, SyncFails, RefreshDone, ProbeFails, Probe, Compare,
      AddEnclave, FlightStep, Check, VerifyFails, Verify, Send, Fails, Delivers, Rejected,
      RecoveryTimeout, Recovered

(***************************************************************************)
(* A replay goes forward: whatever rejected a request's key, the enclave   *)
(* it is replayed on has a newer one, so that recovery cannot bounce       *)
(* between two keys of a backend.                                          *)
(***************************************************************************)
THEOREM ReplaysGoForward == Spec => []ReplayGoesForward
<1>1. Init => RotationInv
  BY LifecycleAssumption
  DEF Init, RotationInv, NewestInPool, RejectedKeyHeld, ReplayGoesForward, Installed, Nothing
<1>2. Inv /\ Inv' /\ RotationInv /\ [Next]_vars => RotationInv'
  BY NewestKept, ReplayKept, Zenon DEF RotationInv
<1>3. RotationInv => ReplayGoesForward
  BY Zenon DEF RotationInv
<1> QED
  BY <1>1, <1>2, <1>3, Invariance, PTL DEF Spec
=============================================================================
