----------------------------- MODULE SelectOnce -----------------------------
(***************************************************************************)
(* One call of SelectServing, or of SelectRetry after a failure, over any  *)
(* view of the enclaves: the setting in which the promises docs/routing.md *)
(* makes about the choice are stated, each in words of its own rather than *)
(* by the scan that the code performs.                                     *)
(***************************************************************************)
EXTENDS Selection

CONSTANTS
  MaxInflight,   \* bound on the in-flight counts of a view
  Caps,          \* values of cap that are explored
  Orders,        \* preference orders that are explored
  PoolPairs      \* pairs of pool filters: [primary, spill]

ASSUME SelectOnceAssumption ==
  /\ MaxInflight \in Nat
  /\ Caps \subseteq Nat \cup {NoCap}
  /\ Orders \subseteq Seq(Hosts)
  /\ PoolPairs \subseteq [primary : SUBSET Hosts, spill : SUBSET Hosts]

VARIABLES view, query, result
vars == <<view, query, result>>

\* A load tier is only computed for a closed breaker, a probe is only due
\* for one that is not, and without a cap nobody reads the in-flight counts.
Views ==
  {v \in [valid : SUBSET Hosts, closed : SUBSET Hosts, due : SUBSET Hosts,
          tier : [Hosts -> Tiers], inflight : [Hosts -> 0 .. MaxInflight],
          cap : Caps] :
     /\ v.due \cap v.closed = {}
     /\ \A h \in Hosts \ v.closed : v.tier[h] = Unknown
     /\ v.cap = NoCap => \A h \in Hosts : v.inflight[h] = 0}

Queries ==
  {q \in [order : Orders, claimProbes : BOOLEAN, primary : SUBSET Hosts,
          spill : SUBSET Hosts, excluded : Hosts \cup {NoHost}] :
     /\ [primary |-> q.primary, spill |-> q.spill] \in PoolPairs
     /\ Retrying(q) => ~q.claimProbes}

Pending == [host |-> NoHost, kind |-> "pending"]

Init == view \in Views /\ query \in Queries /\ result = Pending

Select ==
  /\ result = Pending
  /\ result' \in IF Retrying(query) THEN SelectRetry(view, query)
                 ELSE SelectServing(view, query)
  /\ UNCHANGED <<view, query>>

Spec == Init /\ [][Select]_vars

TypeOK ==
  /\ view \in Views
  /\ query \in Queries
  /\ result \in Outcomes \cup {Nothing, Pending}

-----------------------------------------------------------------------------
Pooled == query.primary \cup query.spill

\* Hosts that can take the request now: attested, breaker closed.
Healthy == ((Pooled \cap view.valid) \cap view.closed) \ {query.excluded}

InPool(h) == IF h \in query.primary THEN 1 ELSE 2

(***************************************************************************)
(* Whatever is chosen belongs to the caller's pools, has an unexpired      *)
(* attestation and is not the replica that just failed                     *)
(* (selectServingLocked's filter).                                         *)
(***************************************************************************)
StaysInPools ==
  result.host # NoHost =>
    result.host \in (Pooled \cap view.valid) \ {query.excluded}

(***************************************************************************)
(* Reserved 0, shared 0, reserved 1, shared 1, then unknown load: no       *)
(* healthy host of the caller's pools beats the one that serves, by tier   *)
(* first and by pool second (docs/routing.md).                             *)
(***************************************************************************)
NothingBetterServes ==
  result.kind \in {"serve", "overloaded"} =>
    \A h \in Healthy :
      ~ \/ view.tier[h] < view.tier[result.host]
           /\ ~(Retrying(query) /\ view.tier[h] = Unknown)
        \/ view.tier[h] = view.tier[result.host] /\ InPool(h) < InPool(result.host)

(***************************************************************************)
(* An ordinary request is rejected for overload, or told that the model is *)
(* unavailable, only when it has to be: overload means that every healthy  *)
(* host of both pools is overloaded, and unavailable that no attested host *)
(* of them exists.                                                         *)
(***************************************************************************)
RejectsOnlyWhenForced ==
  ~Retrying(query) =>
    /\ result.kind = "overloaded" => \A h \in Healthy : view.tier[h] = Overloaded
    /\ result.kind = "degraded" => Healthy = {}
    /\ result.kind = "none" => Pooled \cap view.valid = {}

(***************************************************************************)
(* A backend whose recovery probe is due in the caller's primary pool gets *)
(* it from the next request that may claim one, however healthy the rest   *)
(* of the pool is: otherwise an open breaker would never close.            *)
(***************************************************************************)
DueProbeIsSent ==
  (result # Pending /\ query.claimProbes
     /\ (query.primary \cap view.valid \cap view.due) # {}) =>
    result.kind = "probe"

(***************************************************************************)
(* Cache affinity never overrides the cap: when the preference order names *)
(* a candidate of the chosen tier and pool, the chosen host is at most cap *)
(* deeper than the least loaded one.                                       *)
(***************************************************************************)
AffinityWithinCap ==
  (result.kind = "serve" /\ view.cap # NoCap) =>
    LET peers == {h \in Healthy : /\ view.tier[h] = view.tier[result.host]
                                  /\ InPool(h) = InPool(result.host)}
    IN  Ranked(query.order, peers) # {} =>
          \A h \in peers : view.inflight[result.host] - view.inflight[h] <= view.cap

(***************************************************************************)
(* A retry goes to a replica known to have room: closed breaker, a fresh   *)
(* load sample, no overload, never as a recovery probe (SelectRetry).      *)
(***************************************************************************)
RetryNeedsKnownRoom ==
  (Retrying(query) /\ result.host # NoHost) =>
    /\ result.kind = "serve"
    /\ result.host \in view.closed
    /\ view.tier[result.host] \in {Preferred, Busy}

(***************************************************************************)
(* What docs/routing.md promises of the choice of a replica, all together: *)
(* it is one the caller may use, the best by tier and pool, taken by       *)
(* preference only within the cap, and a rejection is never avoidable      *)
(* (SelectServing).                                                        *)
(***************************************************************************)
ChoiceSound ==
  /\ TypeOK
  /\ StaysInPools
  /\ NothingBetterServes
  /\ RejectsOnlyWhenForced
  /\ AffinityWithinCap
=============================================================================
