--------------------------- MODULE CircuitBreaker ---------------------------
(***************************************************************************)
(* The circuit breaker of one enclave (manager/circuitbreaker.go) at the   *)
(* grain of its atomic operations, driven by the requests the reverse      *)
(* proxy feeds it with (recordFailure, recordSuccess, onHang and the       *)
(* ErrorHandler of manager/proxy.go).                                      *)
(*                                                                         *)
(* Every method of circuitBreaker is a sequence of atomic loads and stores *)
(* with no lock around them, so each load or store that another goroutine  *)
(* can observe is a step of its own.  ClaimProbe is the exception: it runs *)
(* only inside SelectServing, under the model's write lock, so at most one *)
(* request is between its checks and its increment of probeGen.            *)
(*                                                                         *)
(* Time is abstracted to one bit: cooled says that cbCooldown has passed   *)
(* since the stored lastFailureNano.  consecutiveFailures is only reset    *)
(* and compared with cbFailureThreshold, so it saturates there.            *)
(***************************************************************************)
EXTENDS Integers

CONSTANTS
  Requests,   \* requests dispatched to the enclave (goroutines)
  Threshold,  \* cbFailureThreshold
  MaxGen,     \* bound: probe claims explored
  NoRequest   \* "nobody"

ASSUME BreakerAssumption ==
  /\ Threshold \in Nat \ {0}
  /\ MaxGen \in Nat
  /\ NoRequest \notin Requests

VARIABLES
  state,      \* cb.state
  failures,   \* cb.consecutiveFailures, saturating at Threshold
  cooled,     \* time.Since(lastFailureNano) >= cbCooldown
  probeGen,   \* cb.probeGen
  retired,    \* cb.retired
  gauge,      \* the CircuitBreakerState series of this enclave
  pc,         \* where each request is inside the breaker's methods
  token,      \* ProbeClaim.token of the request, 0 for a nil claim
  hung,       \* requests whose failure onHang recorded: a cancel follows
  loaded,     \* the state publishIfActive loaded and is about to publish
  janitor,    \* progress of Enclave.shutdown
  owner,      \* history: the request whose CAS made the breaker half-open
  released    \* history: an abort released the probe, no cooldown since

breaker == <<state, failures, cooled, probeGen>>
locals  == <<pc, token, hung, loaded>>
series  == <<retired, gauge, janitor>>
history == <<owner, released>>
vars    == <<breaker, locals, series, history>>

Closed   == "closed"
Open     == "open"
HalfOpen == "half-open"
Absent   == "absent"
States   == {Closed, Open, HalfOpen}

\* Program points of a request; "idle" is a goroutine not using the breaker.
Points == {"idle", "claimCas", "claimGen", "inflight",
           "successState", "failureAdd", "failureOpen",
           "abortState", "abortStamp", "abortCas",
           "publish", "publishLoad", "publishSet"}

Holding == {"publishLoad", "publishSet"}   \* publishMu.RLock is held

TypeOK ==
  /\ state \in States
  /\ failures \in 0 .. Threshold
  /\ cooled \in BOOLEAN
  /\ probeGen \in Nat
  /\ retired \in BOOLEAN
  /\ gauge \in States \cup {Absent}
  /\ pc \in [Requests -> Points]
  /\ token \in [Requests -> Nat]
  /\ hung \in SUBSET Requests
  /\ loaded \in [Requests -> States]
  /\ janitor \in {"active", "locking", "deleting", "gone"}
  /\ owner \in Requests \cup {NoRequest}
  /\ released \in BOOLEAN

Init ==
  /\ state = Closed
  /\ failures = 0
  /\ cooled = TRUE
  /\ probeGen = 0
  /\ retired = FALSE
  /\ gauge = Closed
  /\ pc = [r \in Requests |-> "idle"]
  /\ token = [r \in Requests |-> 0]
  /\ hung = {}
  /\ loaded = [r \in Requests |-> Closed]
  /\ janitor = "active"
  /\ owner = NoRequest
  /\ released = FALSE

At(r, point) == pc[r] = point
Goto(r, point) == pc' = [pc EXCEPT ![r] = point]

\* The request is over: its goroutine may serve another one.
Done(r) ==
  /\ pc' = [pc EXCEPT ![r] = "idle"]
  /\ token' = [token EXCEPT ![r] = 0]
  /\ hung' = hung \ {r}
  /\ loaded' = [loaded EXCEPT ![r] = Closed]

-----------------------------------------------------------------------------
(***************************************************************************)
(* Dispatch.  A request without a claim is sent to a closed breaker, or to *)
(* any breaker as the last resort when no closed one is left.  A retired   *)
(* enclave has left the model's map and is selected by nobody.             *)
(***************************************************************************)
Dispatch(r) ==
  /\ At(r, "idle")
  /\ janitor = "active"
  /\ Goto(r, "inflight")
  /\ UNCHANGED <<breaker, token, hung, loaded, series, history>>

\* Model.mu is held by the request that is inside ClaimProbe.
SelectionLockFree == \A r \in Requests : pc[r] \notin {"claimCas", "claimGen"}

\* ClaimProbe: the loads of state and lastFailureNano.
ClaimProbe(r) ==
  /\ At(r, "idle")
  /\ janitor = "active"
  /\ SelectionLockFree
  /\ probeGen < MaxGen
  /\ state = Open
  /\ cooled
  /\ Goto(r, "claimCas")
  /\ UNCHANGED <<breaker, token, hung, loaded, series, history>>

ClaimCas(r) ==
  /\ At(r, "claimCas")
  /\ \/ /\ state = Open
        /\ state' = HalfOpen
        /\ owner' = r
        /\ Goto(r, "claimGen")
        /\ UNCHANGED <<failures, cooled, probeGen, token, hung, loaded>>
     \/ /\ state # Open
        /\ Done(r)
        /\ UNCHANGED <<breaker, owner>>
  /\ UNCHANGED <<series, released>>

\* Mutation: the token is the counter before the increment.
MutClaimGen(r) ==
  /\ At(r, "claimGen")
  /\ probeGen' = probeGen + 1
  /\ token' = [token EXCEPT ![r] = probeGen]
  /\ Goto(r, "inflight")
  /\ UNCHANGED <<state, failures, cooled, hung, loaded, series, history>>

ClaimGen(r) ==
  /\ At(r, "claimGen")
  /\ probeGen' = probeGen + 1
  /\ token' = [token EXCEPT ![r] = probeGen + 1]
  /\ Goto(r, "inflight")
  /\ UNCHANGED <<state, failures, cooled, hung, loaded, series, history>>

-----------------------------------------------------------------------------
(***************************************************************************)
(* Outcomes: an answer below 500 (RecordSuccess), an answer of 500 and up  *)
(* or a transport error (RecordFailure), a cancel after slow headers       *)
(* (onHang's RecordFailure, then the ErrorHandler's Abort), and a cancel   *)
(* or an oversized body (Abort alone, a no-op without a claim).            *)
(***************************************************************************)

RecordSuccess(r) ==
  /\ At(r, "inflight")
  /\ failures' = 0
  /\ Goto(r, "successState")
  /\ UNCHANGED <<state, cooled, probeGen, token, hung, loaded, series, history>>

SuccessState(r) ==
  /\ At(r, "successState")
  /\ state' = Closed
  /\ Goto(r, "publish")
  /\ UNCHANGED <<failures, cooled, probeGen, token, hung, loaded, series, history>>

RecordFailure(r) ==
  /\ At(r, "inflight")
  /\ cooled' = FALSE
  /\ hung' \in {hung, hung \cup {r}}
  /\ Goto(r, "failureAdd")
  /\ UNCHANGED <<state, failures, probeGen, token, loaded, series, history>>

FailureAdd(r) ==
  /\ At(r, "failureAdd")
  /\ failures' = IF failures < Threshold THEN failures + 1 ELSE Threshold
  /\ Goto(r, IF failures' = Threshold THEN "failureOpen" ELSE "publish")
  /\ UNCHANGED <<state, cooled, probeGen, token, hung, loaded, series, history>>

FailureOpen(r) ==
  /\ At(r, "failureOpen")
  /\ state' = Open
  /\ Goto(r, "publish")
  /\ UNCHANGED <<failures, cooled, probeGen, token, hung, loaded, series, history>>

\* AbortProbe, reached from a cancelled request: a nil claim or a superseded
\* token returns at once.
AbortGen(r) ==
  IF token[r] # 0 /\ probeGen = token[r]
  THEN Goto(r, "abortState") /\ UNCHANGED <<token, hung, loaded>>
  ELSE Done(r)

Cancel(r) ==
  /\ At(r, "inflight")
  /\ AbortGen(r)
  /\ UNCHANGED <<breaker, series, history>>

AbortState(r) ==
  /\ At(r, "abortState")
  /\ IF state = HalfOpen
     THEN Goto(r, "abortStamp") /\ UNCHANGED <<token, hung, loaded>>
     ELSE Done(r)
  /\ UNCHANGED <<breaker, series, history>>

\* Mutation: the failure time is not renewed before the breaker reopens.
MutAbortStamp(r) ==
  /\ At(r, "abortStamp")
  /\ Goto(r, "abortCas")
  /\ UNCHANGED <<breaker, token, hung, loaded, series, history>>

AbortStamp(r) ==
  /\ At(r, "abortStamp")
  /\ cooled' = FALSE
  /\ Goto(r, "abortCas")
  /\ UNCHANGED <<state, failures, probeGen, token, hung, loaded, series, history>>

AbortCas(r) ==
  /\ At(r, "abortCas")
  /\ \/ /\ state = HalfOpen
        /\ state' = Open
        /\ released' = TRUE
        /\ hung' = hung \ {r}
        /\ Goto(r, "publish")
        /\ UNCHANGED <<failures, cooled, probeGen, token, loaded>>
     \/ /\ state # HalfOpen
        /\ Done(r)
        /\ UNCHANGED <<breaker, released>>
  /\ UNCHANGED <<series, owner>>

-----------------------------------------------------------------------------
(***************************************************************************)
(* publishIfActive and Enclave.shutdown.  A writer waiting for publishMu   *)
(* keeps new readers out.                                                  *)
(***************************************************************************)
PublishLock(r) ==
  /\ At(r, "publish")
  /\ janitor # "locking"
  /\ IF retired
     THEN \* nothing published; the read lock is released again
          IF r \in hung THEN AbortGen(r) ELSE Done(r)
     ELSE Goto(r, "publishLoad") /\ UNCHANGED <<token, hung, loaded>>
  /\ UNCHANGED <<breaker, series, history>>

PublishLoad(r) ==
  /\ At(r, "publishLoad")
  /\ loaded' = [loaded EXCEPT ![r] = state]
  /\ Goto(r, "publishSet")
  /\ UNCHANGED <<breaker, token, hung, series, history>>

\* Mutation: the read lock is not released after the gauge is set.
MutPublishSet(r) ==
  /\ At(r, "publishSet")
  /\ gauge' = loaded[r]
  /\ UNCHANGED <<breaker, locals, retired, janitor, history>>

\* The gauge is set and the read lock released.  A hung request goes on to
\* the ErrorHandler's Abort.
PublishSet(r) ==
  /\ At(r, "publishSet")
  /\ gauge' = loaded[r]
  /\ IF r \in hung THEN AbortGen(r) ELSE Done(r)
  /\ UNCHANGED <<breaker, retired, janitor, history>>

Retire ==
  /\ janitor = "active"
  /\ SelectionLockFree
  /\ retired' = TRUE
  /\ janitor' = "locking"
  /\ UNCHANGED <<breaker, locals, gauge, history>>

\* Mutation: Retire does not wait for the publishers that hold the lock.
MutRetireWait ==
  /\ janitor = "locking"
  /\ janitor' = "deleting"
  /\ UNCHANGED <<breaker, locals, retired, gauge, history>>

RetireWait ==
  /\ janitor = "locking"
  /\ \A r \in Requests : pc[r] \notin Holding
  /\ janitor' = "deleting"
  /\ UNCHANGED <<breaker, locals, retired, gauge, history>>

DeleteSeries ==
  /\ janitor = "deleting"
  /\ gauge' = Absent
  /\ janitor' = "gone"
  /\ UNCHANGED <<breaker, locals, retired, history>>

\* cbCooldown passes without a new failure time.  It is half a minute: no
\* goroutine is descheduled for so long inside one method of the breaker.
Cooldown ==
  /\ ~cooled \/ released
  /\ \A r \in Requests : pc[r] \in {"idle", "inflight"}
  /\ cooled' = TRUE
  /\ released' = FALSE
  /\ UNCHANGED <<state, failures, probeGen, locals, series, owner>>

-----------------------------------------------------------------------------
Answer(r) ==
  \/ RecordSuccess(r) \/ SuccessState(r)
  \/ RecordFailure(r) \/ FailureAdd(r) \/ FailureOpen(r)

Abort(r) == Cancel(r) \/ AbortState(r) \/ AbortStamp(r) \/ AbortCas(r)

Publish(r) == PublishLock(r) \/ PublishLoad(r) \/ PublishSet(r)

Next ==
  \/ \E r \in Requests :
       \/ Dispatch(r) \/ ClaimProbe(r) \/ ClaimCas(r) \/ ClaimGen(r)
       \/ Answer(r) \/ Abort(r) \/ Publish(r)
  \/ Retire \/ RetireWait \/ DeleteSeries
  \/ Cooldown

Spec == Init /\ [][Next]_vars

(***************************************************************************)
(* publishIfActive holds its read lock across code that never blocks, so   *)
(* a publisher that has the lock goes on; the shutdown goroutine runs.     *)
(***************************************************************************)
FairSpec ==
  /\ Spec
  /\ \A r \in Requests : WF_vars(PublishLoad(r)) /\ WF_vars(PublishSet(r))
  /\ WF_vars(RetireWait) /\ WF_vars(DeleteSeries)

-----------------------------------------------------------------------------
(***************************************************************************)
(* Once Enclave.shutdown has deleted the breaker's series no in-flight     *)
(* request brings it back (Retire, publishIfActive).                       *)
(***************************************************************************)
NoSeriesAfterShutdown == janitor = "gone" => gauge = Absent

(***************************************************************************)
(* A request that made the breaker half-open and still holds its claim can *)
(* release it for as long as the breaker is half-open: AbortProbe's token  *)
(* test never refuses the current claim.                                   *)
(***************************************************************************)
OwnerMayRelease ==
  \A r \in Requests :
    (owner = r /\ token[r] # 0 /\ state = HalfOpen) => token[r] = probeGen

(***************************************************************************)
(* After a cancelled probe is released a full cooldown passes before the   *)
(* next claim: AbortProbe stores the failure time before it publishes the  *)
(* open state, so no ClaimProbe sees open with the old time.               *)
(***************************************************************************)
CooldownAfterRelease ==
  [][(state = Open /\ state' = HalfOpen) => ~released]_vars

(***************************************************************************)
(* Retire's wait for publishMu ends, however many requests keep            *)
(* publishing.                                                             *)
(***************************************************************************)
RetireCompletes == (janitor = "locking") ~> (janitor = "gone")

(***************************************************************************)
(* The comment on AbortProbe: a cancelled request can never release a      *)
(* probe it does not own.                                                  *)
(***************************************************************************)
OnlyOwnerReleases ==
  [][\A r \in Requests :
       (At(r, "abortCas") /\ state = HalfOpen /\ state' = Open) => owner = r]_vars

(***************************************************************************)
(* The comments on ClaimProbe and in the ErrorHandler: every claim is      *)
(* resolved, so a half-open breaker always has a request in flight that    *)
(* can still move it.                                                      *)
(***************************************************************************)
HalfOpenHasProbe ==
  state = HalfOpen => \E r \in Requests : ~At(r, "idle")

=============================================================================
