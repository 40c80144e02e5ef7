----------------------------- MODULE Selection -----------------------------
(***************************************************************************)
(* Replica selection (manager/routing_tiers.go): which enclave serves a    *)
(* request, given what is known of the enclaves of its model at the moment *)
(* SelectServing or SelectRetry holds the model's lock.                    *)
(*                                                                         *)
(* A view v of the enclaves is a record                                    *)
(*   valid    hosts whose attestation has not expired                      *)
(*   closed   hosts whose breaker is closed                                *)
(*   due      hosts whose breaker would grant ClaimProbe                   *)
(*   tier     host -> load tier under the caller's policy                  *)
(*   inflight host -> local in-flight requests                             *)
(*   cap      CacheRoute.MaxInflightDelta, NoCap when nil or negative      *)
(* and a query q is a record                                               *)
(*   order, claimProbes, primary, spill   SelectServing's arguments        *)
(*   excluded the host that just failed, NoHost in SelectServing           *)
(* A nil pool filter is the set of all hosts; a nil or empty spill is {}.  *)
(* Map iteration and rand.IntN make selection nondeterministic: the        *)
(* operators below return the set of outcomes the code can produce.        *)
(***************************************************************************)
EXTENDS Integers, Sequences

CONSTANTS Hosts, NoHost

ASSUME SelectionAssumption == NoHost \notin Hosts

\* routingTier, in the order the buckets are scanned.
Preferred  == 0
Busy       == 1
Unknown    == 2
Overloaded == 3
Tiers      == Preferred .. Overloaded
Pools      == {1, 2}         \* primary, spill
NoCap      == -1

\* Kinds of outcome of selectServingLocked.
Outcomes == [host : Hosts, kind : {"probe", "serve", "overloaded", "degraded"}]
Nothing  == [host |-> NoHost, kind |-> "none"]

Pool(q, p) == IF p = 1 THEN q.primary ELSE q.spill

Retrying(q) == q.excluded # NoHost

\* Hosts of the pool that may be considered at all.
Candidates(v, q, p) == (Pool(q, p) \cap v.valid) \ {q.excluded}

\* Mutation: a retry takes a replica whose load is unknown.
MutBucket(v, q, t, p) ==
  {h \in Candidates(v, q, p) : h \in v.closed /\ v.tier[h] = t}

\* buckets[t][p]; a retry wants a replica whose load is known.
Bucket(v, q, t, p) ==
  {h \in Candidates(v, q, p) :
     h \in v.closed /\ v.tier[h] = t /\ ~(Retrying(q) /\ t = Unknown)}

\* probes[p], also the members of degraded; a retry skips them.
Probes(v, q, p) ==
  IF Retrying(q) THEN {} ELSE Candidates(v, q, p) \ v.closed

DueProbes(v, q, p) ==
  IF q.claimProbes THEN Probes(v, q, p) \cap v.due ELSE {}

Least(v, C) == {c \in C : \A d \in C : v.inflight[c] <= v.inflight[d]}

\* Positions of the preference order whose host is a candidate.
Ranked(order, C) == {i \in DOMAIN order : order[i] \in C}

(***************************************************************************)
(* pickTierLocked: the first host of the preference order that is a        *)
(* candidate, unless it is deeper than the least loaded candidate by more  *)
(* than the cap; any candidate when the order names none.                  *)
(***************************************************************************)
PickTier(v, q, C) ==
  LET ranked   == Ranked(q.order, C)
      Capped(h) == v.cap # NoCap
                   /\ \E c \in Least(v, C) : v.inflight[h] - v.inflight[c] > v.cap
  IN  IF ranked = {} THEN C
      ELSE UNION {IF Capped(q.order[i]) THEN Least(v, C) ELSE {q.order[i]} :
                  i \in {j \in ranked : \A k \in ranked : j <= k}}

\* The scan over tiers and, within a tier, over pools.
Slots == Tiers \X Pools
Before(s, u) == s[1] < u[1] \/ (s[1] = u[1] /\ s[2] < u[2])

Ready(v, q, s) ==
  \/ s[1] = Preferred /\ DueProbes(v, q, s[2]) # {}
  \/ Bucket(v, q, s[1], s[2]) # {}

\* The slot at which the scan returns.
Stops(v, q, s) == Ready(v, q, s) /\ \A u \in Slots : Before(u, s) => ~Ready(v, q, u)

Of(kind, S) == {[host |-> h, kind |-> kind] : h \in S}

\* Mutation: probes are only looked at when the preferred bucket is empty.
MutAtSlot(v, q, s) ==
  LET C == Bucket(v, q, s[1], s[2])
  IN  IF C # {} THEN Of(IF s[1] = Overloaded THEN "overloaded" ELSE "serve", PickTier(v, q, C))
      ELSE Of("probe", DueProbes(v, q, s[2]))

AtSlot(v, q, s) ==
  IF s[1] = Preferred /\ DueProbes(v, q, s[2]) # {}
  THEN Of("probe", DueProbes(v, q, s[2]))
  ELSE Of(IF s[1] = Overloaded THEN "overloaded" ELSE "serve",
          PickTier(v, q, Bucket(v, q, s[1], s[2])))

\* degraded[0]: the primary pool was scanned first.
Degraded(v, q) ==
  IF Probes(v, q, 1) # {} THEN Probes(v, q, 1) ELSE Probes(v, q, 2)

\* Mutation: overload in the primary pool is reported before the spill pool
\* was looked at.
MutSelectServing(v, q) ==
  LET stops == {s \in Slots : Ready(v, q, s) /\ \A u \in Slots :
                  (u[2] < s[2] \/ (u[2] = s[2] /\ u[1] < s[1])) => ~Ready(v, q, u)}
  IN  IF stops # {} THEN UNION {AtSlot(v, q, s) : s \in stops}
      ELSE IF Degraded(v, q) # {} THEN Of("degraded", Degraded(v, q))
      ELSE {Nothing}

\* selectServingLocked.
SelectServing(v, q) ==
  LET stops == {s \in Slots : Stops(v, q, s)}
  IN  IF stops # {} THEN UNION {AtSlot(v, q, s) : s \in stops}
      ELSE IF Degraded(v, q) # {} THEN Of("degraded", Degraded(v, q))
      ELSE {Nothing}

\* SelectRetry: an overloaded replica is no alternative.
SelectRetry(v, q) ==
  {IF o.kind = "overloaded" THEN Nothing ELSE o : o \in SelectServing(v, q)}

=============================================================================
