------------------------------ MODULE Dispatch ------------------------------
(***************************************************************************)
(* The life of a dispatched request: the tail of the public handler        *)
(* (main.go from ReservationPools to the end), replica failover            *)
(* (manager/retry.go) and the internal dispatches of                       *)
(* manager/http_client.go, with the configuration reloaded and enclaves    *)
(* replaced underneath them (sync and refreshEnclave in manager.go).       *)
(*                                                                         *)
(* What is counted here is the in-flight reservation: SelectServing and    *)
(* SelectRetry take one on an Enclave object and the same host's           *)
(* BackendInflight series, ReleaseDispatch gives both back.  A host that   *)
(* is re-verified with a new key gets a new object, <<host, generation>>,  *)
(* while its series goes on.                                               *)
(*                                                                         *)
(* Which host of the pools is chosen is Selection's business; here it may  *)
(* be any of them, or none.                                                *)
(***************************************************************************)
EXTENDS Reservations, FiniteSets

CONSTANTS
  Requests, Hosts, Orgs,
  Configs,      \* configurations that sync may load
  MaxGen,       \* bound on the enclave objects of one host
  NoEnclave

ASSUME DispatchAssumption ==
  /\ MaxGen \in Nat \ {0}
  /\ IsFiniteSet(Requests)
  /\ NoEnclave \notin Hosts \X (1 .. MaxGen)

VARIABLES
  config,     \* the configuration applied by the last sync
  installed,  \* hosts with an entry in model.Enclaves
  gen,        \* generation of the newest object of each host
  inflight,   \* Enclave.inflight of every object
  series,     \* BackendInflight of every host
  pc, org, pools,
  first,      \* the enclave selected for the request
  once,       \* requests whose releaseDispatch (sync.OnceFunc) has run
  alternate   \* the enclave selected by failover

ledger  == <<inflight, series>>
request == <<pc, org, pools, first, once, alternate>>
model   == <<config, installed, gen>>
vars    == <<model, ledger, request>>

Enclaves == Hosts \X (1 .. MaxGen)
HostOf(e) == e[1]
Current(h) == <<h, gen[h]>>

NoPools == [primary |-> {}, spill |-> {}]

(***************************************************************************)
(* Points of a request.  Public: pools, then rejecting or serving, then    *)
(* switching and retrying when a 502 is retried elsewhere.  Internal:      *)
(* posting, then reading until the response body is closed, and closed     *)
(* when a second Close may still come.                                     *)
(***************************************************************************)
Points == {"idle", "pools", "rejecting", "serving", "switching", "retrying",
           "internal", "posting", "reading", "closed"}

TypeOK ==
  /\ config \in Configs
  /\ installed \subseteq Hosts
  /\ gen \in [Hosts -> 0 .. MaxGen]
  /\ \A h \in installed : gen[h] > 0
  /\ inflight \in [Enclaves -> Nat]
  /\ series \in [Hosts -> Nat]
  /\ pc \in [Requests -> Points]
  /\ org \in [Requests -> Orgs \cup {NoOrg}]
  /\ pools \in [Requests -> [primary : SUBSET Hosts, spill : SUBSET Hosts]]
  /\ first \in [Requests -> Enclaves \cup {NoEnclave}]
  /\ once \subseteq Requests
  /\ alternate \in [Requests -> Enclaves \cup {NoEnclave}]

Init ==
  /\ config \in Configs
  /\ installed = {}
  /\ gen = [h \in Hosts |-> 0]
  /\ inflight = [e \in Enclaves |-> 0]
  /\ series = [h \in Hosts |-> 0]
  /\ pc = [r \in Requests |-> "idle"]
  /\ org = [r \in Requests |-> NoOrg]
  /\ pools = [r \in Requests |-> NoPools]
  /\ first = [r \in Requests |-> NoEnclave]
  /\ once = {}
  /\ alternate = [r \in Requests |-> NoEnclave]

Goto(r, point) == pc' = [pc EXCEPT ![r] = point]

\* enclave.inflight and BackendInflight move together.
Reserve(e) ==
  /\ inflight' = [inflight EXCEPT ![e] = @ + 1]
  /\ series' = [series EXCEPT ![HostOf(e)] = @ + 1]

ReleaseDispatch(e) ==
  /\ inflight' = [inflight EXCEPT ![e] = @ - 1]
  /\ series' = [series EXCEPT ![HostOf(e)] = @ - 1]

\* The handler returned and its locals are gone.
Return(r) ==
  /\ Goto(r, "idle")
  /\ org' = [org EXCEPT ![r] = NoOrg]
  /\ pools' = [pools EXCEPT ![r] = NoPools]
  /\ first' = [first EXCEPT ![r] = NoEnclave]
  /\ once' = once \ {r}
  /\ alternate' = [alternate EXCEPT ![r] = NoEnclave]

-----------------------------------------------------------------------------
\* ReservationPools, under the read lock; the snapshot is used from here on.
SnapshotPools(r, o, point) ==
  /\ pc[r] = "idle"
  /\ org' = [org EXCEPT ![r] = o]
  /\ LET p == ReservationPools(config, o, Hosts)
     IN  pools' = [pools EXCEPT ![r] = [primary |-> p.primary, spill |-> p.spill]]
  /\ Goto(r, point)
  /\ UNCHANGED <<model, ledger, first, once, alternate>>

Arrive(r) == \E o \in Orgs \cup {NoOrg} : SnapshotPools(r, o, "pools")

ArriveInternal(r) == \E o \in Orgs \cup {NoOrg} : SnapshotPools(r, o, "internal")

Pooled(r) == pools[r].primary \cup pools[r].spill

\* Mutation: the reservation is only taken for requests that are not rejected.
MutSelectServing(r) ==
  /\ pc[r] = "pools"
  /\ \E h \in Pooled(r) \cap installed :
       \/ /\ Goto(r, "serving")
          /\ first' = [first EXCEPT ![r] = Current(h)]
          /\ Reserve(Current(h))
       \/ /\ Goto(r, "rejecting")
          /\ first' = [first EXCEPT ![r] = Current(h)]
          /\ UNCHANGED ledger
  /\ UNCHANGED <<model, org, pools, once, alternate>>

\* SelectServing.  An overloaded outcome reserves too, and is then rejected
\* unless the request has a configured priority.
SelectServing(r) ==
  /\ pc[r] = "pools"
  /\ \E h \in Pooled(r) \cap installed :
       /\ Reserve(Current(h))
       /\ first' = [first EXCEPT ![r] = Current(h)]
       /\ Goto(r, "serving") \/ Goto(r, "rejecting")
  /\ UNCHANGED <<model, org, pools, once, alternate>>

\* No usable enclave: 503, or the internal dispatch's error.
Unavailable(r) ==
  /\ pc[r] \in {"pools", "internal"}
  /\ Return(r)
  /\ UNCHANGED <<model, ledger>>

\* The deferred releaseDispatch.
ReleaseOnce(r) ==
  IF r \in once THEN UNCHANGED ledger ELSE ReleaseDispatch(first[r])

\* The 503 for overload, or the end of the proxied exchange: an answer, an
\* error or the unwind of an aborted stream all run the deferred release.
Finish(r) ==
  /\ pc[r] \in {"rejecting", "serving"}
  /\ ReleaseOnce(r)
  /\ Return(r)
  /\ UNCHANGED model

\* A retryable 502: SelectRetry over the same pools.
SelectRetry(r) ==
  /\ pc[r] = "serving"
  /\ \E h \in (Pooled(r) \cap installed) \ {HostOf(first[r])} :
       /\ Reserve(Current(h))
       /\ alternate' = [alternate EXCEPT ![r] = Current(h)]
  /\ Goto(r, "switching")
  /\ UNCHANGED <<model, org, pools, first, once>>

\* Mutation: the failed enclave's reservation is kept until the handler ends.
MutSwitch(r) ==
  /\ pc[r] = "switching"
  /\ once' = once \cup {r}
  /\ Goto(r, "retrying")
  /\ UNCHANGED <<model, ledger, org, pools, first, alternate>>

\* next's releaseDispatch, then the alternate serves the replay.
Switch(r) ==
  /\ pc[r] = "switching"
  /\ ReleaseOnce(r)
  /\ once' = once \cup {r}
  /\ Goto(r, "retrying")
  /\ UNCHANGED <<model, org, pools, first, alternate>>

\* The alternate's deferred release; the handler's own has run already.
FinishRetry(r) ==
  /\ pc[r] = "retrying"
  /\ r \in once
  /\ ReleaseDispatch(alternate[r])
  /\ Return(r)
  /\ UNCHANGED model

-----------------------------------------------------------------------------
\* boundHTTPClientPreferring ignores the overloaded flag.
SelectInternal(r) ==
  /\ pc[r] = "internal"
  /\ \E h \in Pooled(r) \cap installed :
       /\ Reserve(Current(h))
       /\ first' = [first EXCEPT ![r] = Current(h)]
  /\ Goto(r, "posting")
  /\ UNCHANGED <<model, org, pools, once, alternate>>

\* postToEnclave fails, or the caller only wanted the client
\* (boundHTTPClientForModel): released at once.
PostFails(r) ==
  /\ pc[r] = "posting"
  /\ ReleaseDispatch(first[r])
  /\ Return(r)
  /\ UNCHANGED model

\* The response is handed off with an inflightBody.
HandOff(r) ==
  /\ pc[r] = "posting"
  /\ Goto(r, "reading")
  /\ UNCHANGED <<model, ledger, org, pools, first, once, alternate>>

\* inflightBody.Close, the call that wins the CompareAndSwap.
CloseBody(r) ==
  /\ pc[r] = "reading"
  /\ ReleaseDispatch(first[r])
  /\ Goto(r, "closed")
  /\ UNCHANGED <<model, org, pools, first, once, alternate>>

\* A later Close returns nil.
CloseAgain(r) ==
  /\ pc[r] = "closed"
  /\ Return(r)
  /\ UNCHANGED <<model, ledger>>

-----------------------------------------------------------------------------
\* sync: the configuration and its reservations replace the old ones, and
\* enclaves that are no longer configured leave the map.
Reload ==
  /\ \E c \in Configs \ {config} :
       /\ config' = c
       /\ installed' = installed \cap c.hosts
  /\ UNCHANGED <<gen, ledger, request>>

\* refreshEnclave installs a verified enclave, retiring any previous object.
InstallEnclave(h) ==
  /\ h \in config.hosts
  /\ gen[h] < MaxGen
  /\ gen' = [gen EXCEPT ![h] = @ + 1]
  /\ installed' = installed \cup {h}
  /\ UNCHANGED <<config, ledger, request>>

Ends(r) == Finish(r) \/ Switch(r) \/ FinishRetry(r)
           \/ PostFails(r) \/ CloseBody(r) \/ CloseAgain(r)

Next ==
  \/ \E r \in Requests :
       \/ Arrive(r) \/ ArriveInternal(r) \/ SelectServing(r) \/ Unavailable(r)
       \/ SelectRetry(r) \/ SelectInternal(r) \/ HandOff(r) \/ Ends(r)
  \/ Reload
  \/ \E h \in Hosts : InstallEnclave(h)

Spec == Init /\ [][Next]_vars

(***************************************************************************)
(* Every exchange ends: the backend answers, the stream is aborted or the  *)
(* client goes away, and internal callers close the bodies they read.      *)
(***************************************************************************)
Fairness == \A r \in Requests : WF_vars(Ends(r))

FairSpec == Spec /\ Fairness

-----------------------------------------------------------------------------
\* Enclaves on which the request holds a reservation right now.
Held(r) ==
  (IF pc[r] \in {"rejecting", "serving", "switching", "posting", "reading"}
     THEN {first[r]} ELSE {})
  \cup (IF pc[r] \in {"switching", "retrying"} THEN {alternate[r]} ELSE {})

(***************************************************************************)
(* Each selection is released exactly once: at every moment an enclave's   *)
(* in-flight count is the number of requests that hold it, and the host's  *)
(* series the number that hold any of its objects, across rejections,      *)
(* failover, internal dispatches, reloads and replacements                 *)
(* (ReleaseDispatch: "Each selection must release once").                  *)
(***************************************************************************)
InflightExact ==
  /\ \A e \in Enclaves : inflight[e] = Cardinality({r \in Requests : e \in Held(r)})
  /\ \A h \in Hosts :
       series[h] = Cardinality({r \in Requests : \E e \in Held(r) : HostOf(e) = h})

(***************************************************************************)
(* A replaced enclave drains: its in-flight count reaches zero and stays   *)
(* there, since nobody selects it any more (prometheus.go: "a retired      *)
(* enclave's series drains to zero").                                      *)
(***************************************************************************)
RetiredDrains ==
  \A e \in Enclaves :
    (e[2] < gen[HostOf(e)]) ~> [](inflight[e] = 0)

=============================================================================
