-------------------------- MODULE SelectOnceProofs --------------------------
(***************************************************************************)
(* What one call of SelectServing or SelectRetry promises, proved for any  *)
(* set of hosts, any pools, any preference order, any cap and any load:    *)
(* ChoiceSound, DueProbeIsSent and RetryNeedsKnownRoom.                    *)
(*                                                                         *)
(* The scan of selectServingLocked is taken apart once, in ScanOutcome:    *)
(* the outcome is a probe, a member of the first non-empty bucket, a       *)
(* degraded host or nothing, and whatever the scan passed over was empty.  *)
(* Every promise then follows from what an empty bucket says of the hosts  *)
(* that are not in it.                                                     *)
(*                                                                         *)
(* The second half is about the metrics poller that gives a host its tier  *)
(* (OverloadMetrics): its gauges stay deleted, and its overload state is   *)
(* the hysteresis of the callers' policies.                                *)
(***************************************************************************)
EXTENDS SelectOnce, OverloadMetrics, WellFoundedInduction, TLAPS

-----------------------------------------------------------------------------
(***************************************************************************)
(* A non-empty set of naturals has a least element: what pickTierLocked's  *)
(* search for the least loaded candidate relies on.                        *)
(***************************************************************************)
LEMMA LeastNatural ==
  ASSUME NEW S \in SUBSET Nat, S # {}
  PROVE  \E m \in S : \A k \in S : m <= k
<1>1. IsWellFoundedOn(OpToRel(<, Nat), Nat)
  BY NatLessThanWellFounded, Zenon
<1>2. PICK m \in S : \A k \in S : ~(<<k, m>> \in OpToRel(<, Nat))
  BY <1>1, WFMin, Zenon
<1>3. \A k \in S : ~(k < m)
  BY <1>2, Zenon DEF OpToRel
<1> QED
  BY <1>3

(***************************************************************************)
(* A non-empty set of slots has a first one in the order of the scan of    *)
(* selectServingLocked, tier before pool.                                  *)
(***************************************************************************)
LEMMA FirstSlot ==
  ASSUME NEW S \in SUBSET Slots, S # {}
  PROVE  \E s \in S : \A u \in S : ~Before(u, s)
<1> DEFINE ts == {t \in Tiers : \E p \in Pools : <<t, p>> \in S}
<1>1. ts \in SUBSET Nat /\ ts # {}
  BY DEF Slots, Tiers, Pools, Preferred, Overloaded
<1>2. PICK t \in ts : \A k \in ts : t <= k
  BY <1>1, LeastNatural, Zenon
<1>3. \A u \in S : u[1] \in ts /\ u[2] \in Pools
  BY DEF Slots
<1>4. t \in Nat /\ \A u \in S : u[1] \in Nat /\ t <= u[1]
  BY <1>1, <1>2, <1>3, Zenon
<1>5. CASE <<t, 1>> \in S
  <2>1. ASSUME NEW u \in S PROVE ~Before(u, <<t, 1>>)
    <3>1. u[1] \in Nat /\ t <= u[1] /\ u[2] \in {1, 2}
      BY <1>3, <1>4, Zenon DEF Pools
    <3>2. <<t, 1>>[1] = t /\ <<t, 1>>[2] = 1
      BY Zenon
    <3> QED
      BY <1>4, <3>1, <3>2 DEF Before
  <2> QED
    BY <2>1, <1>5, Zenon
<1>6. CASE <<t, 1>> \notin S
  <2>1. <<t, 2>> \in S
    BY <1>2, <1>6, Zenon DEF Pools
  <2>2. ASSUME NEW u \in S PROVE ~Before(u, <<t, 2>>)
    <3>1. u[1] \in Nat /\ t <= u[1] /\ u[2] \in {1, 2}
      BY <1>3, <1>4, Zenon DEF Pools
    <3>2. ~(u[1] = t /\ u[2] = 1)
      BY <1>6 DEF Slots
    <3>3. <<t, 2>>[1] = t /\ <<t, 2>>[2] = 2
      BY Zenon
    <3> QED
      BY <1>4, <3>1, <3>2, <3>3 DEF Before
  <2> QED
    BY <2>1, <2>2, Zenon
<1> QED
  BY <1>5, <1>6, Zenon
-----------------------------------------------------------------------------
\* The three ways the scan of selectServingLocked ends.
ByProbe(v, q, o, s) ==
  /\ s[1] = Preferred
  /\ o.kind = "probe"
  /\ o.host \in DueProbes(v, q, s[2])

ByBucket(v, q, o, s) ==
  /\ s[1] = Preferred => DueProbes(v, q, s[2]) = {}
  /\ o.kind = IF s[1] = Overloaded THEN "overloaded" ELSE "serve"
  /\ o.host \in PickTier(v, q, Bucket(v, q, s[1], s[2]))

NoneReady(v, q) == \A s \in Slots : ~Ready(v, q, s)

(***************************************************************************)
(* selectServingLocked returns a due probe or a member of the first ready  *)
(* bucket, and looks at the degraded hosts only when no slot is ready.     *)
(***************************************************************************)
LEMMA ScanOutcome ==
  ASSUME NEW v, NEW q, NEW o \in SelectServing(v, q)
  PROVE  \/ \E s \in Slots : Stops(v, q, s) /\ ByProbe(v, q, o, s)
         \/ \E s \in Slots : Stops(v, q, s) /\ ByBucket(v, q, o, s)
         \/ NoneReady(v, q) /\ o.kind = "degraded" /\ o.host \in Degraded(v, q)
         \/ NoneReady(v, q) /\ Degraded(v, q) = {} /\ o = Nothing
<1> DEFINE stops == {s \in Slots : Stops(v, q, s)}
           ready == {s \in Slots : Ready(v, q, s)}
<1>1. CASE stops # {}
  <2>1. PICK s \in stops : o \in AtSlot(v, q, s)
    BY <1>1, Zenon DEF SelectServing
  <2>2. CASE s[1] = Preferred /\ DueProbes(v, q, s[2]) # {}
    BY <2>1, <2>2 DEF AtSlot, Of, ByProbe
  <2>3. CASE ~(s[1] = Preferred /\ DueProbes(v, q, s[2]) # {})
    BY <2>1, <2>3 DEF AtSlot, Of, ByBucket
  <2> QED
    BY <2>2, <2>3, Zenon
<1>2. CASE stops = {}
  <2>1. ready = {}
    <3> SUFFICES ASSUME ready # {} PROVE FALSE
      BY Zenon
    <3>1. PICK s \in ready : \A u \in ready : ~Before(u, s)
      BY FirstSlot, Zenon
    <3>2. Stops(v, q, s)
      BY <3>1, Zenon DEF Stops
    <3> QED
      BY <1>2, <3>2, Zenon
  <2>2. NoneReady(v, q)
    BY <2>1, Zenon DEF NoneReady
  <2>3. CASE Degraded(v, q) # {}
    BY <1>2, <2>2, <2>3 DEF SelectServing, Of
  <2>4. CASE Degraded(v, q) = {}
    BY <1>2, <2>2, <2>4, Zenon DEF SelectServing
  <2> QED
    BY <2>3, <2>4, Zenon
<1> QED
  BY <1>1, <1>2, Zenon

(***************************************************************************)
(* pickTierLocked returns one of the candidates it was given.              *)
(***************************************************************************)
LEMMA PickIsCandidate ==
  ASSUME NEW v, NEW q, NEW C, NEW h \in PickTier(v, q, C)
  PROVE  h \in C
<1>1. CASE Ranked(q.order, C) = {}
  BY <1>1, Zenon DEF PickTier
<1>2. CASE Ranked(q.order, C) # {}
  <2>1. \E i \in Ranked(q.order, C) : h \in Least(v, C) \/ h = q.order[i]
    BY <1>2, Zenon DEF PickTier
  <2> QED
    BY <2>1, Zenon DEF Least, Ranked
<1> QED
  BY <1>1, <1>2, Zenon

(***************************************************************************)
(* The candidates of a view have a least loaded one, and what the order    *)
(* makes pickTierLocked take is at most cap deeper than any of them.       *)
(***************************************************************************)
LEMMA PickWithinCap ==
  ASSUME NEW v \in Views, NEW q, NEW C \in SUBSET Hosts,
         v.cap # NoCap, Ranked(q.order, C) # {},
         NEW h \in PickTier(v, q, C), NEW c \in C
  PROVE  v.inflight[h] - v.inflight[c] <= v.cap
<1> DEFINE loads == {v.inflight[d] : d \in C}
<1>1. v.inflight \in [Hosts -> Nat] /\ v.cap \in Nat
  <2>1. v.inflight \in [Hosts -> 0 .. MaxInflight] /\ v.cap \in Caps
    BY Zenon DEF Views
  <2>2. v.cap \in Nat
    BY <2>1, SelectOnceAssumption, Zenon
  <2>3. \A n \in 0 .. MaxInflight : n \in Nat
    OBVIOUS
  <2>4. v.inflight \in [Hosts -> Nat]
    BY <2>1, <2>3, Zenon
  <2> QED
    BY <2>2, <2>4, Zenon
<1>2. PICK m \in loads : \A k \in loads : m <= k
  <2>1. loads \in SUBSET Nat /\ loads # {}
    BY <1>1, Zenon
  <2> QED
    BY <2>1, LeastNatural, Zenon
<1>3. PICK l \in C : v.inflight[l] = m
  BY <1>2, Zenon
<1>4. l \in Least(v, C)
  BY <1>2, <1>3, Zenon DEF Least
<1>5. v.inflight[l] \in Nat /\ v.inflight[c] \in Nat /\ v.inflight[l] <= v.inflight[c]
  BY <1>1, <1>2, <1>3, Zenon
<1>6. h \in C /\ v.inflight[h] \in Nat
  BY <1>1, PickIsCandidate, Zenon
<1>7. \/ h \in Least(v, C)
      \/ \A d \in Least(v, C) : ~(v.inflight[h] - v.inflight[d] > v.cap)
  <2> DEFINE Capped(k) == v.cap # NoCap
                          /\ \E d \in Least(v, C) : v.inflight[k] - v.inflight[d] > v.cap
  <2>1. PICK i \in Ranked(q.order, C) :
          h \in IF Capped(q.order[i]) THEN Least(v, C) ELSE {q.order[i]}
    BY Zenon DEF PickTier
  <2>2. h \in Least(v, C) \/ (h = q.order[i] /\ ~Capped(q.order[i]))
    BY <2>1, Zenon
  <2> QED
    BY <2>2, Zenon
<1>8. CASE h \in Least(v, C)
  BY <1>1, <1>5, <1>6, <1>8 DEF Least
<1>9. CASE \A d \in Least(v, C) : ~(v.inflight[h] - v.inflight[d] > v.cap)
  BY <1>1, <1>4, <1>5, <1>6, <1>9
<1> QED
  BY <1>7, <1>8, <1>9, Zenon

-----------------------------------------------------------------------------
\* The slot whose bucket a healthy host is put into.
SlotOf(h) == <<view.tier[h], InPool(h)>>

\* What a call has decided: nothing yet, an outcome of the scan, or the
\* refusal SelectRetry makes of an overloaded replica.
Decided ==
  \/ result = Pending
  \/ result \in SelectServing(view, query) /\ (Retrying(query) => result.kind # "overloaded")
  \/ Retrying(query) /\ result = Nothing

Inv == view \in Views /\ query \in Queries /\ Decided

(***************************************************************************)
(* selectServingLocked puts every healthy host into the bucket of its tier *)
(* and pool, except, on a retry, one whose load is unknown.                *)
(***************************************************************************)
LEMMA HealthyIsBucketed ==
  ASSUME Inv, NEW h \in Healthy, ~(Retrying(query) /\ view.tier[h] = Unknown)
  PROVE  /\ SlotOf(h) \in Slots
         /\ Ready(view, query, SlotOf(h))
<1>1. h \in Hosts /\ view.tier[h] \in Tiers /\ InPool(h) \in Pools
  BY Zenon DEF Inv, Views, Queries, Healthy, Pooled, InPool, Pools
<1>2. h \in Bucket(view, query, view.tier[h], InPool(h))
  BY DEF Bucket, Candidates, Pool, Healthy, Pooled, InPool
<1>3. SlotOf(h)[1] = view.tier[h] /\ SlotOf(h)[2] = InPool(h)
  BY Zenon DEF SlotOf
<1> QED
  BY <1>1, <1>2, <1>3, Zenon DEF SlotOf, Slots, Ready

(***************************************************************************)
(* A member of a bucket or of the probe list is attested, in the caller's  *)
(* pools and not the replica that just failed.                             *)
(***************************************************************************)
LEMMA CandidatesAreUsable ==
  ASSUME Inv, NEW p \in Pools
  PROVE  /\ Candidates(view, query, p) \subseteq (Pooled \cap view.valid) \ {query.excluded}
         /\ Candidates(view, query, p) \subseteq Hosts
         /\ \A t : Bucket(view, query, t, p) \subseteq Candidates(view, query, p)
         /\ Probes(view, query, p) \subseteq Candidates(view, query, p)
         /\ DueProbes(view, query, p) \subseteq Probes(view, query, p)
<1>1. Candidates(view, query, p) \subseteq (Pooled \cap view.valid) \ {query.excluded}
  BY Zenon DEF Candidates, Pool, Pooled
<1>2. Pooled \subseteq Hosts
  BY Zenon DEF Inv, Queries, Pooled
<1> QED
  BY <1>1, <1>2, Zenon DEF Bucket, Probes, DueProbes

(***************************************************************************)
(* Whatever the scan returns with a host is one of the four outcomes of    *)
(* selectServingLocked and its host is usable.                             *)
(***************************************************************************)
LEMMA OutcomeUsable ==
  ASSUME Inv, result \in SelectServing(view, query)
  PROVE  \/ result = Nothing
         \/ /\ result.host \in (Pooled \cap view.valid) \ {query.excluded}
            /\ result.host \in Hosts
            /\ result \in Outcomes
<1> DEFINE Usable == /\ result.host \in (Pooled \cap view.valid) \ {query.excluded}
                     /\ result.host \in Hosts
<1>1. result = Nothing \/ \E h, k : result = [host |-> h, kind |-> k]
  BY Zenon DEF SelectServing, AtSlot, Of
<1>2. ASSUME NEW s \in Slots, ByProbe(view, query, result, s) PROVE Usable
  BY <1>2, CandidatesAreUsable, Zenon DEF ByProbe, Slots
<1>3. ASSUME NEW s \in Slots, ByBucket(view, query, result, s) PROVE Usable
  <2>1. result.host \in Bucket(view, query, s[1], s[2])
    BY <1>3, PickIsCandidate, Zenon DEF ByBucket
  <2> QED
    BY <2>1, CandidatesAreUsable, Zenon DEF Slots
<1>4. ASSUME result.host \in Degraded(view, query) PROVE Usable
  BY <1>4, CandidatesAreUsable, Zenon DEF Degraded, Pools
<1>5. result = Nothing \/ (Usable /\ result.kind \in {"probe", "serve", "overloaded", "degraded"})
  BY ScanOutcome, <1>2, <1>3, <1>4 DEF ByProbe, ByBucket
<1> QED
  BY <1>1, <1>5 DEF Outcomes

(***************************************************************************)
(* Healthy hosts that the scan passed over: none of them sits in a slot    *)
(* before the one at which selectServingLocked returns.                    *)
(***************************************************************************)
LEMMA NothingPassedOver ==
  ASSUME Inv, NEW s \in Slots, Stops(view, query, s),
         NEW h \in Healthy, ~(Retrying(query) /\ view.tier[h] = Unknown)
  PROVE  ~Before(SlotOf(h), s)
BY HealthyIsBucketed, Zenon DEF Stops

(***************************************************************************)
(* What a host taken from the first ready bucket says: it is healthy, has  *)
(* the tier of the bucket, and sits in the pool of the bucket (a host of   *)
(* both pools is found in the primary one first).                          *)
(***************************************************************************)
LEMMA ServedFromItsSlot ==
  ASSUME Inv, NEW s \in Slots, Stops(view, query, s), ByBucket(view, query, result, s)
  PROVE  /\ result.host \in Healthy
         /\ result.host \in Bucket(view, query, s[1], s[2])
         /\ view.tier[result.host] = s[1]
         /\ InPool(result.host) = s[2]
         /\ ~(Retrying(query) /\ s[1] = Unknown)
<1>1. result.host \in Bucket(view, query, s[1], s[2])
  BY PickIsCandidate, Zenon DEF ByBucket
<1>2. /\ result.host \in Candidates(view, query, s[2])
      /\ result.host \in view.closed
      /\ view.tier[result.host] = s[1]
      /\ ~(Retrying(query) /\ s[1] = Unknown)
  BY <1>1, Zenon DEF Bucket
<1>3. result.host \in Healthy
  BY <1>2, CandidatesAreUsable, Zenon DEF Healthy, Slots
<1>4. InPool(result.host) = s[2]
  <2>1. s[2] \in {1, 2} /\ s[1] \in Int
    BY DEF Slots, Pools, Tiers, Preferred, Overloaded
  <2>2. s[2] = 1 => result.host \in query.primary
    BY <1>2, Zenon DEF Candidates, Pool
  <2>3. ~Before(SlotOf(result.host), s)
    BY <1>2, <1>3, NothingPassedOver, Zenon
  <2>4. SlotOf(result.host)[1] = s[1] /\ SlotOf(result.host)[2] = InPool(result.host)
    BY <1>2, Zenon DEF SlotOf
  <2>5. ~(InPool(result.host) < s[2])
    BY <2>3, <2>4, Zenon DEF Before
  <2> QED
    BY <2>1, <2>2, <2>5 DEF InPool
<1> QED
  BY <1>1, <1>2, <1>3, <1>4, Zenon

(***************************************************************************)
(* NothingBetterServes follows from the slots that the scan passed over.   *)
(***************************************************************************)
LEMMA BestServes ==
  ASSUME Inv PROVE NothingBetterServes
<1> SUFFICES ASSUME result.kind \in {"serve", "overloaded"}, NEW h \in Healthy
             PROVE  ~ \/ view.tier[h] < view.tier[result.host]
                         /\ ~(Retrying(query) /\ view.tier[h] = Unknown)
                      \/ view.tier[h] = view.tier[result.host] /\ InPool(h) < InPool(result.host)
  BY Zenon DEF NothingBetterServes
<1>1. result \in SelectServing(view, query)
  BY DEF Inv, Decided, Pending, Nothing
<1>2. PICK s \in Slots : Stops(view, query, s) /\ ByBucket(view, query, result, s)
  BY <1>1, ScanOutcome DEF ByProbe, Nothing
<1>3. /\ view.tier[result.host] = s[1]
      /\ InPool(result.host) = s[2]
      /\ ~(Retrying(query) /\ s[1] = Unknown)
  BY <1>2, ServedFromItsSlot, Zenon
<1>4. ~(Retrying(query) /\ view.tier[h] = Unknown) => ~Before(SlotOf(h), s)
  BY <1>2, NothingPassedOver, Zenon
<1>5. SlotOf(h)[1] = view.tier[h] /\ SlotOf(h)[2] = InPool(h)
  BY Zenon DEF SlotOf
<1> QED
  BY <1>3, <1>4, <1>5, Zenon DEF Before

(***************************************************************************)
(* RejectsOnlyWhenForced: overload, degradation and unavailability are     *)
(* reported only once every healthier slot was found empty.                *)
(***************************************************************************)
LEMMA RejectionForced ==
  ASSUME Inv PROVE RejectsOnlyWhenForced
<1> SUFFICES ASSUME ~Retrying(query)
             PROVE  /\ result.kind = "overloaded" => \A h \in Healthy : view.tier[h] = Overloaded
                    /\ result.kind = "degraded" => Healthy = {}
                    /\ result.kind = "none" => Pooled \cap view.valid = {}
  BY Zenon DEF RejectsOnlyWhenForced
<1>1. result = Pending \/ result \in SelectServing(view, query)
  BY Zenon DEF Inv, Decided
<1>2. CASE result = Pending
  BY <1>2, Zenon DEF Pending
<1>3. CASE \E s \in Slots : Stops(view, query, s) /\ ByProbe(view, query, result, s)
  BY <1>3, Zenon DEF ByProbe
<1>4. CASE \E s \in Slots : Stops(view, query, s) /\ ByBucket(view, query, result, s)
  <2> PICK s \in Slots : Stops(view, query, s) /\ ByBucket(view, query, result, s)
    BY <1>4, Zenon
  <2>1. SUFFICES ASSUME s[1] = Overloaded, NEW h \in Healthy
                 PROVE  view.tier[h] = Overloaded
    BY Zenon DEF ByBucket
  <2>2. view.tier[h] \in Tiers
    BY Zenon DEF Inv, Views, Queries, Healthy, Pooled
  <2>3. ~Before(SlotOf(h), s)
    BY NothingPassedOver, Zenon
  <2>4. SlotOf(h)[1] = view.tier[h]
    BY Zenon DEF SlotOf
  <2> QED
    BY <2>1, <2>2, <2>3, <2>4 DEF Before, Tiers, Preferred, Overloaded
<1>5. ASSUME NoneReady(view, query) PROVE Healthy = {}
  BY <1>5, HealthyIsBucketed, Zenon DEF NoneReady
<1>6. ASSUME NoneReady(view, query), Degraded(view, query) = {}
      PROVE  Pooled \cap view.valid = {}
  <2> SUFFICES ASSUME NEW h \in Pooled \cap view.valid PROVE FALSE
    BY Zenon
  <2>1. h \in Hosts /\ h # query.excluded
    BY SelectionAssumption, Zenon DEF Inv, Queries, Pooled, Retrying
  <2>2. h \notin view.closed
    BY <1>5, <1>6, <2>1, Zenon DEF Healthy
  <2>3. h \in Probes(view, query, 1) \/ h \in Probes(view, query, 2)
    BY <2>1, <2>2 DEF Probes, Candidates, Pool, Pooled
  <2> QED
    BY <1>6, <2>3, Zenon DEF Degraded
<1>7. CASE NoneReady(view, query) /\ result.kind = "degraded"
  BY <1>5, <1>7, Zenon
<1>8. CASE NoneReady(view, query) /\ Degraded(view, query) = {} /\ result = Nothing
  BY <1>6, <1>8, Zenon DEF Nothing
<1> QED
  BY <1>1, <1>2, <1>3, <1>4, <1>7, <1>8, ScanOutcome

(***************************************************************************)
(* AffinityWithinCap: the candidates pickTierLocked is given are exactly   *)
(* the healthy hosts of the chosen tier and pool, so its cap holds against *)
(* all of those.                                                           *)
(***************************************************************************)
LEMMA AffinityCapped ==
  ASSUME Inv PROVE AffinityWithinCap
<1> DEFINE peers == {h \in Healthy : /\ view.tier[h] = view.tier[result.host]
                                     /\ InPool(h) = InPool(result.host)}
<1> SUFFICES ASSUME result.kind = "serve", view.cap # NoCap,
                    Ranked(query.order, peers) # {}, NEW h \in peers
             PROVE  view.inflight[result.host] - view.inflight[h] <= view.cap
  BY Zenon DEF AffinityWithinCap
<1>1. result \in SelectServing(view, query)
  BY DEF Inv, Decided, Pending, Nothing
<1>2. PICK s \in Slots : Stops(view, query, s) /\ ByBucket(view, query, result, s)
  BY <1>1, ScanOutcome DEF ByProbe, Nothing
<1> DEFINE C == Bucket(view, query, s[1], s[2])
<1>3. /\ view.tier[result.host] = s[1]
      /\ InPool(result.host) = s[2]
      /\ ~(Retrying(query) /\ s[1] = Unknown)
  BY <1>2, ServedFromItsSlot, Zenon
<1>4. s[2] \in {1, 2} /\ s[1] \in Int
  BY DEF Slots, Pools, Tiers, Preferred, Overloaded
<1>5. ASSUME NEW d \in peers PROVE d \in C
  BY <1>3, <1>4 DEF Bucket, Candidates, Pool, Healthy, Pooled, InPool
<1>6. ASSUME NEW d \in C PROVE d \in peers
  <2>1. d \in Healthy /\ view.tier[d] = s[1]
    BY CandidatesAreUsable, Zenon DEF Bucket, Healthy, Slots
  <2>2. ~Before(SlotOf(d), s)
    BY <1>2, <1>3, <2>1, NothingPassedOver, Zenon
  <2>3. SlotOf(d)[1] = s[1] /\ SlotOf(d)[2] = InPool(d)
    BY <2>1, Zenon DEF SlotOf
  <2>4. ~(InPool(d) < s[2])
    BY <2>2, <2>3, Zenon DEF Before
  <2>5. s[2] = 1 => d \in query.primary
    BY Zenon DEF Bucket, Candidates, Pool
  <2> QED
    BY <1>3, <1>4, <2>1, <2>4, <2>5 DEF InPool
<1>7. peers = C
  BY <1>5, <1>6, Zenon
<1>8. result.host \in PickTier(view, query, C) /\ C \in SUBSET Hosts
  BY <1>2, CandidatesAreUsable, Zenon DEF ByBucket, Slots
<1> QED
  BY <1>7, <1>8, PickWithinCap, Zenon DEF Inv

(***************************************************************************)
(* A call of SelectServing or SelectRetry over a view only decides once,   *)
(* and what it decides is an outcome of the scan.                          *)
(***************************************************************************)
LEMMA Invariance == Spec => []Inv
<1>1. Init => Inv
  BY Zenon DEF Init, Inv, Decided
<1>2. Inv /\ [Select]_vars => Inv'
  <2> SUFFICES ASSUME Inv, [Select]_vars PROVE Inv'
    BY Zenon
  <2>1. CASE Select
    <3>1. view' \in Views /\ query' \in Queries /\ view' = view /\ query' = query
      BY <2>1, Zenon DEF Select, Inv
    <3>2. CASE Retrying(query)
      <4>1. PICK o \in SelectServing(view, query) :
              result' = IF o.kind = "overloaded" THEN Nothing ELSE o
        BY <2>1, <3>2, Zenon DEF Select, SelectRetry
      <4> QED
        BY <3>1, <3>2, <4>1, Zenon DEF Inv, Decided
    <3>3. CASE ~Retrying(query)
      BY <2>1, <3>1, <3>3, Zenon DEF Select, Inv, Decided
    <3> QED
      BY <3>2, <3>3, Zenon
  <2>2. CASE UNCHANGED vars
    BY <2>2, Zenon DEF vars, Inv, Decided
  <2> QED
    BY <2>1, <2>2, Zenon
<1> QED
  BY <1>1, <1>2, PTL DEF Spec

(***************************************************************************)
(* Every choice SelectServing and SelectRetry make is sound: whatever is   *)
(* chosen is usable and the best by tier and pool, affinity stays within   *)
(* the cap, and a rejection is never avoidable.                            *)
(***************************************************************************)
THEOREM ChoiceIsSound == Spec => []ChoiceSound
<1>1. Inv => ChoiceSound
  <2> SUFFICES ASSUME Inv PROVE ChoiceSound
    BY Zenon
  <2>1. TypeOK /\ StaysInPools
    <3>1. CASE result = Pending \/ result = Nothing
      BY <3>1 DEF TypeOK, StaysInPools, Inv, Pending, Nothing
    <3>2. CASE result \in SelectServing(view, query)
      BY <3>1, <3>2, OutcomeUsable, Zenon DEF TypeOK, StaysInPools, Inv
    <3> QED
      BY <3>1, <3>2, Zenon DEF Inv, Decided
  <2> QED
    BY <2>1, BestServes, RejectionForced, AffinityCapped, Zenon DEF ChoiceSound
<1> QED
  BY <1>1, Invariance, PTL

(***************************************************************************)
(* A due recovery probe of the primary pool is sent by the next request    *)
(* that may claim one: selectServingLocked meets it in its very first      *)
(* slot.                                                                   *)
(***************************************************************************)
THEOREM DueProbesAreSent == Spec => []DueProbeIsSent
<1>1. Inv => DueProbeIsSent
  <2> SUFFICES ASSUME Inv, result # Pending, query.claimProbes,
                      NEW h \in query.primary \cap view.valid \cap view.due
               PROVE  result.kind = "probe"
    BY Zenon DEF DueProbeIsSent
  <2>1. ~Retrying(query)
    BY Zenon DEF Inv, Queries
  <2>2. result \in SelectServing(view, query)
    BY <2>1, Zenon DEF Inv, Decided
  <2>3. h \in Hosts /\ h \notin view.closed
    BY Zenon DEF Inv, Views, Queries
  <2>4. h \in DueProbes(view, query, 1)
    BY <2>1, <2>3, SelectionAssumption, Zenon
    DEF DueProbes, Probes, Candidates, Pool, Retrying
  <2> DEFINE first == <<Preferred, 1>>
  <2>5. first \in Slots /\ Ready(view, query, first) /\ first[1] = 0 /\ first[2] = 1
    BY <2>4 DEF Slots, Tiers, Pools, Ready, Preferred, Overloaded
  <2>6. ASSUME NEW s \in Slots, Stops(view, query, s) PROVE s[1] = Preferred /\ s[2] = 1
    <3>1. ~Before(first, s)
      BY <2>5, <2>6, Zenon DEF Stops
    <3>2. s[1] \in 0 .. 3 /\ s[2] \in {1, 2}
      BY Zenon DEF Slots, Tiers, Pools, Preferred, Overloaded
    <3> QED
      BY <2>5, <3>1, <3>2 DEF Before, Preferred
  <2>7. ~NoneReady(view, query)
    BY <2>5, Zenon DEF NoneReady
  <2>8. ASSUME NEW s \in Slots, Stops(view, query, s) PROVE ~ByBucket(view, query, result, s)
    BY <2>4, <2>6, <2>8, Zenon DEF ByBucket
  <2> QED
    BY <2>2, <2>7, <2>8, ScanOutcome, Zenon DEF ByProbe
<1> QED
  BY <1>1, Invariance, PTL

(***************************************************************************)
(* SelectRetry only ever returns a replica known to have room.             *)
(***************************************************************************)
THEOREM RetriesNeedKnownRoom == Spec => []RetryNeedsKnownRoom
<1>1. Inv => RetryNeedsKnownRoom
  <2> SUFFICES ASSUME Inv, Retrying(query), result.host # NoHost
               PROVE  /\ result.kind = "serve"
                      /\ result.host \in view.closed
                      /\ view.tier[result.host] \in {Preferred, Busy}
    BY Zenon DEF RetryNeedsKnownRoom
  <2>1. result \in SelectServing(view, query) /\ result.kind # "overloaded"
    BY DEF Inv, Decided, Pending, Nothing
  <2>2. Degraded(view, query) = {} /\ \A p : DueProbes(view, query, p) = {}
    BY Zenon DEF Degraded, Probes, DueProbes
  <2>3. PICK s \in Slots : Stops(view, query, s) /\ ByBucket(view, query, result, s)
    BY <2>1, <2>2, ScanOutcome DEF ByProbe, Nothing
  <2>4. /\ result.host \in Healthy
        /\ view.tier[result.host] = s[1]
        /\ s[1] # Unknown
    BY <2>3, ServedFromItsSlot, Zenon
  <2>5. s[1] # Overloaded /\ result.kind = "serve"
    BY <2>1, <2>3, Zenon DEF ByBucket
  <2>6. s[1] \in {Preferred, Busy}
    BY <2>4, <2>5 DEF Slots, Tiers, Preferred, Busy, Unknown, Overloaded
  <2> QED
    BY <2>4, <2>5, <2>6, Zenon DEF Healthy
<1> QED
  BY <1>1, Invariance, PTL
-----------------------------------------------------------------------------
(***************************************************************************)
(* The metrics poller of one of the hosts (OverloadMetrics), whose counts  *)
(* and overload state decide the tier that the selection reads.            *)
(***************************************************************************)

(***************************************************************************)
(* No gauge of a removed backend appears again (Enclave.shutdown): once    *)
(* shutdown has waited for the poller there is none, and none is started.  *)
(***************************************************************************)
GoneInv == control = "gone" => poller = "off" /\ gauges = {}

\* GoneInv holds always, and with it NoGaugeLeftBehind of the poller.
THEOREM GaugesStayDeleted == MetricsSpec => []NoGaugeLeftBehind
<1>1. MetricsInit => GoneInv
  BY DEF MetricsInit, GoneInv
<1>2. GoneInv /\ [MetricsNext]_metricsVars => GoneInv'
  <2> SUFFICES ASSUME GoneInv, [MetricsNext]_metricsVars PROVE GoneInv'
    BY Zenon
  <2>1. CASE UNCHANGED <<control, poller, gauges>>
    BY <2>1, Zenon DEF GoneInv
  <2>2. CASE Scrape \/ ScrapeFails \/ ScrapeParsed
             \/ UpdateLatest \/ Exit
    <3>1. poller # "off" /\ control' = control
      BY <2>2, Zenon DEF Scrape, ScrapeFails, ScrapeParsed,
                  UpdateLatest, Exit
    <3>2. QED
      BY <3>1, Zenon DEF GoneInv
  <2>3. CASE SetPolicies \/ Configure \/ Shutdown
    <3>1. control' # "gone"
      BY <2>3 DEF SetPolicies, Configure, Shutdown
    <3>2. QED
      BY <3>1, Zenon DEF GoneInv
  <2>4. CASE DeleteGauges
    BY <2>4, Zenon DEF DeleteGauges, GoneInv
  <2>5. Expire \/ UNCHANGED metricsVars => UNCHANGED <<control, poller, gauges>>
    BY Zenon DEF Expire, metricsVars
  <2>6. QED
    BY <2>1, <2>2, <2>3, <2>4, <2>5, Zenon DEF MetricsNext
<1>3. GoneInv => NoGaugeLeftBehind
  BY Zenon DEF GoneInv, NoGaugeLeftBehind
<1>4. QED
  BY <1>1, <1>2, <1>3, PTL DEF MetricsSpec

-----------------------------------------------------------------------------
(***************************************************************************)
(* Hysteresis over a sequence of samples.                                  *)
(***************************************************************************)
\* The queue reached the trip mark at the k-th sample or later, and has stayed
\* above the clear mark since.
Reached(s, k, m) ==
  \E i \in k .. Len(s) :
    /\ i > 0 /\ s[i] >= m.trip
    /\ \A j \in i + 1 .. Len(s) : s[j] > m.clear

Thresholds == [trip : Nat, clear : Nat]

\* A sample more (updateLatest): the state it gives is the one the samples give.
LEMMA OneSampleMore ==
  ASSUME NEW s \in Seq(Nat), NEW k \in Nat, k <= Len(s) + 1, NEW m \in Thresholds, NEW w \in Nat
  PROVE  Reached(Append(s, w), k, m) <=> MarksOverloaded(m, w, Reached(s, k, m))
<1> DEFINE t == Append(s, w)
           n == Len(s)
<1>1. /\ n \in Nat /\ Len(t) = n + 1 /\ t[n + 1] = w /\ \A i \in 1 .. n : t[i] = s[i]
      /\ m.trip \in Nat /\ m.clear \in Nat
  BY DEF Thresholds
<1> HIDE DEF t
<1>2. ASSUME Reached(t, k, m) PROVE MarksOverloaded(m, w, Reached(s, k, m))
  <2>1. PICK i \in k .. (n + 1) :
          i > 0 /\ t[i] >= m.trip /\ \A j \in i + 1 .. (n + 1) : t[j] > m.clear
    BY <1>1, <1>2 DEF Reached
  <2>2. CASE i = n + 1
    BY <1>1, <2>1, <2>2 DEF MarksOverloaded
  <2>3. CASE i # n + 1
    <3>1. i \in k .. n /\ i \in 1 .. n /\ n + 1 \in i + 1 .. (n + 1)
      BY <1>1, <2>1, <2>3
    <3>2. s[i] >= m.trip /\ w > m.clear
      BY <1>1, <2>1, <3>1
    <3>3. \A j \in i + 1 .. n : s[j] > m.clear
      <4>1. \A j \in i + 1 .. n : j \in 1 .. n /\ j \in i + 1 .. (n + 1)
        BY <1>1, <3>1
      <4>2. QED
        BY <1>1, <2>1, <4>1, Zenon
    <3>4. Reached(s, k, m)
      BY <2>1, <3>1, <3>2, <3>3, Zenon DEF Reached, n
    <3>5. QED
      BY <3>2, <3>4, Zenon DEF MarksOverloaded
  <2>4. QED
    BY <2>2, <2>3, Zenon
<1>3. ASSUME MarksOverloaded(m, w, Reached(s, k, m)) PROVE Reached(t, k, m)
  <2>1. CASE w >= m.trip
    <3>1. n + 1 \in k .. Len(t) /\ n + 1 > 0 /\ t[n + 1] >= m.trip
          /\ \A j \in (n + 1) + 1 .. Len(t) : t[j] > m.clear
      BY <1>1, <2>1
    <3>2. QED
      BY <3>1, Zenon DEF Reached
  <2>2. CASE Reached(s, k, m) /\ w > m.clear
    <3>1. PICK i \in k .. n : i > 0 /\ s[i] >= m.trip /\ \A j \in i + 1 .. n : s[j] > m.clear
      BY <2>2, Zenon DEF Reached, n
    <3>2. i \in k .. Len(t) /\ i \in 1 .. n /\ t[i] >= m.trip
      BY <1>1, <3>1
    <3>3. \A j \in i + 1 .. Len(t) : j \in i + 1 .. n \/ j = n + 1
      <4>1. i \in Nat /\ n \in Nat /\ Len(t) = n + 1
        BY <1>1, <3>2
      <4> HIDE DEF n
      <4>2. \A j \in i + 1 .. (n + 1) : j \in i + 1 .. n \/ j = n + 1
        BY <4>1
      <4>3. QED
        BY <4>1, <4>2, Zenon
    <3>4. \A j \in i + 1 .. n : j \in 1 .. n
      BY <1>1, <3>2
    <3>5. \A j \in i + 1 .. Len(t) : t[j] > m.clear
      BY <1>1, <2>2, <3>1, <3>3, <3>4, Zenon
    <3>6. QED
      BY <3>1, <3>2, <3>5, Zenon DEF Reached
  <2>3. QED
    BY <1>3, <2>1, <2>2, Zenon DEF MarksOverloaded
<1>4. QED
  BY <1>2, <1>3, Zenon DEF t, MarksOverloaded

\* The last sample applied again (configurePolicies, tier) changes nothing.
LEMMA LastSampleAgain ==
  ASSUME NEW s \in Seq(Nat), NEW k \in Nat, k <= Len(s), Len(s) > 0, NEW m \in Thresholds
  PROVE  MarksOverloaded(m, s[Len(s)], Reached(s, k, m)) <=> Reached(s, k, m)
<1>1. ASSUME s[Len(s)] >= m.trip PROVE Reached(s, k, m)
  <2>1. Len(s) \in k .. Len(s) /\ \A j \in Len(s) + 1 .. Len(s) : s[j] > m.clear
    OBVIOUS
  <2>2. QED
    BY <1>1, <2>1, Zenon DEF Reached
<1>2. ASSUME Reached(s, k, m) PROVE s[Len(s)] >= m.trip \/ s[Len(s)] > m.clear
  <2>1. PICK i \in k .. Len(s) : i > 0 /\ s[i] >= m.trip /\ \A j \in i + 1 .. Len(s) : s[j] > m.clear
    BY <1>2, Zenon DEF Reached
  <2>2. i = Len(s) \/ Len(s) \in i + 1 .. Len(s)
    BY <2>1
  <2>3. QED
    BY <2>1, <2>2, Zenon
<1>3. QED
  BY <1>1, <1>2, Zenon DEF MarksOverloaded

\* Marks that come into use start with the last sample, or with the next one.
LEMMA FirstSample ==
  ASSUME NEW s \in Seq(Nat), NEW m \in Thresholds
  PROVE  /\ Len(s) > 0 =>
              (MarksOverloaded(m, s[Len(s)], FALSE) <=> Reached(s, Len(s), m))
         /\ ~Reached(s, Len(s) + 1, m)
<1>1. ~Reached(s, Len(s) + 1, m)
  BY DEF Reached
<1>2. ASSUME Len(s) > 0 PROVE s[Len(s)] >= m.trip <=> Reached(s, Len(s), m)
  <2>1. Len(s) .. Len(s) = {Len(s)} /\ Len(s) + 1 .. Len(s) = {}
    OBVIOUS
  <2>2. QED
    BY <1>2, <2>1, Zenon DEF Reached
<1>3. QED
  BY <1>1, <1>2, Zenon DEF MarksOverloaded

-----------------------------------------------------------------------------
(***************************************************************************)
(* Which marks are tracked.                                                *)
(***************************************************************************)
\* The policies that configurePolicies tracks, and the marks of the enabled ones.
TrackedPolicies(c) == {PolicyOfHost(c, Host)} \cup SpillPolicies(c)
MarksOf(P) ==
  {Marks(p) : p \in {q \in {r \in P : Enabled(r)} : q.waiting > 0}}

\* Limits are numbers, and the backend is one of the model's hosts.
LimitsAreNumbers ==
  \A c \in Configs :
    /\ Host \in c.hosts
    /\ TrackedPolicies(c) \subseteq {NilPolicy} \cup [waiting : Int, clear : Int, running : Int]

\* The organizations that share a reserved host share its policy.
HostPolicyAgreed ==
  \A c \in Configs : \A o \in OrgsOf(c) :
    Host \in ReservedFor(c, o) => PolicyFor(c, o) = PolicyOfHost(c, Host)

\* A host that nobody reserves has the model's own policy (overloadForHostLocked).
LEMMA UnreservedHost ==
  ASSUME NEW c, Host \in c.hosts, Host \notin Reserved(c)
  PROVE  PolicyOfHost(c, Host) = c.overload
<1> DEFINE listing == {i \in DOMAIN c.reservations :
                         /\ Host \in c.reservations[i].hosts \cap c.hosts
                         /\ c.reservations[i].orgs \ {NoOrg} # {}}
<1>1. ASSUME NEW i \in listing PROVE FALSE
  <2>1. PICK o \in c.reservations[i].orgs : o # NoOrg
    BY <1>1, Zenon
  <2>2. i \in Naming(c, o)
    BY <1>1, <2>1, Zenon DEF Naming
  <2>3. Host \in ReservedFor(c, o)
    BY <1>1, <2>2, Zenon DEF ReservedFor
  <2>4. o \in OrgsOf(c)
    BY <1>1, <2>1, Zenon DEF OrgsOf
  <2>5. QED
    BY <2>3, <2>4, Zenon DEF Reserved
<1>2. listing = {}
  BY <1>1, Zenon
<1>3. QED
  BY <1>2, Zenon DEF PolicyOfHost

\* A caller's policy, by what it has reserved (ReservationPools).
LEMMA CallersOf ==
  ASSUME NEW c, NEW p
  PROVE  p \in CallerPolicies(c) <=>
           \E o \in OrgsOf(c) \cup {NoOrg} :
             \/ ~HasReservations(c) /\ p = c.overload
             \/ /\ HasReservations(c) /\ ReservedFor(c, o) # {}
                /\ Host \in ReservedFor(c, o) \cup Shared(c)
                /\ p = PolicyFor(c, o)
             \/ /\ HasReservations(c) /\ ReservedFor(c, o) = {}
                /\ Host \in Shared(c) /\ p = c.overload
<1> DEFINE P(o) == ReservationPools(c, o, {Host})
           O == OrgsOf(c) \cup {NoOrg}
<1>1. p \in CallerPolicies(c) <=>
        \E o \in O : Host \in P(o).primary \cup P(o).spill /\ p = P(o).policy
  BY Zenon DEF CallerPolicies
<1>2. ASSUME NEW o \in O, ~HasReservations(c)
      PROVE  Host \in P(o).primary \cup P(o).spill /\ P(o).policy = c.overload
  BY <1>2, Zenon DEF ReservationPools
<1>3. ASSUME NEW o \in O, HasReservations(c), ReservedFor(c, o) # {}
      PROVE  /\ P(o).primary \cup P(o).spill = ReservedFor(c, o) \cup Shared(c)
             /\ P(o).policy = PolicyFor(c, o)
  BY <1>3, Zenon DEF ReservationPools
<1>4. ASSUME NEW o \in O, HasReservations(c), ReservedFor(c, o) = {}
      PROVE  P(o).primary = Shared(c) /\ P(o).spill = {} /\ P(o).policy = c.overload
  BY <1>4, Zenon DEF ReservationPools
<1> HIDE DEF P
<1>5. QED
  BY <1>1, <1>2, <1>3, <1>4, Zenon

\* The policies tracked for a backend are those of the callers it may serve.
LEMMA TrackedAreCallers ==
  ASSUME LimitsAreNumbers, HostPolicyAgreed, NEW c \in Configs
  PROVE  {p \in CallerPolicies(c) : Enabled(p)}
           = {p \in TrackedPolicies(c) : Enabled(p)}
<1> DEFINE native == PolicyOfHost(c, Host)
<1>0. Host \in c.hosts
  BY Zenon DEF LimitsAreNumbers
<1>9. ReservedFor(c, NoOrg) = {}
  BY Zenon DEF ReservedFor, Naming
<1>1. CASE ~HasReservations(c)
  <2>1. native = c.overload
    BY <1>0, <1>1, UnreservedHost, Zenon DEF HasReservations
  <2>2. SpillPolicies(c) = {}
    BY <1>1, Zenon DEF SpillPolicies
  <2>3. \A p : p \in CallerPolicies(c) <=> p = c.overload
    BY <1>1, CallersOf, Zenon
  <2>4. QED
    BY <2>1, <2>2, <2>3, Zenon DEF TrackedPolicies
<1>2. CASE HasReservations(c) /\ Host \in Shared(c)
  <2>1. native = c.overload
    <3>1. Host \notin Reserved(c)
      BY <1>2, Zenon DEF Shared
    <3>2. QED
      BY <1>0, <3>1, UnreservedHost, Zenon
  <2>2. \A p : p \in SpillPolicies(c) <=>
          /\ Enabled(p)
          /\ \E o \in OrgsOf(c) :
               ReservedFor(c, o) # {} /\ p = PolicyFor(c, o)
    BY <1>2, Zenon DEF SpillPolicies
  <2>3. \A p : p \in CallerPolicies(c) <=>
          \/ p = c.overload
          \/ \E o \in OrgsOf(c) :
               ReservedFor(c, o) # {} /\ p = PolicyFor(c, o)
    BY <1>2, <1>9, CallersOf, Zenon
  <2>4. QED
    BY <2>1, <2>2, <2>3, Zenon DEF TrackedPolicies
<1>3. CASE HasReservations(c) /\ Host \notin Shared(c)
  <2>1. SpillPolicies(c) = {}
    BY <1>3, Zenon DEF SpillPolicies
  <2>2. PICK o \in OrgsOf(c) : Host \in ReservedFor(c, o)
    BY <1>0, <1>3, Zenon DEF Shared, Reserved
  <2>3. \A p : p \in CallerPolicies(c) <=>
          \E q \in OrgsOf(c) :
            Host \in ReservedFor(c, q) /\ p = PolicyFor(c, q)
    BY <1>3, <1>9, CallersOf, Zenon
  <2>4. \A p : p \in CallerPolicies(c) <=> p = native
    BY <2>2, <2>3, Zenon DEF HostPolicyAgreed
  <2>5. QED
    BY <2>1, <2>4, Zenon DEF TrackedPolicies
<1>4. QED
  BY <1>1, <1>2, <1>3, Zenon

\* The marks tracked for a backend are those of the callers it may serve, and
\* they are numbers.
LEMMA CallersMarksTracked ==
  ASSUME LimitsAreNumbers, HostPolicyAgreed, NEW c \in Configs
  PROVE  /\ CallerMarks(c) = MarksOf(TrackedPolicies(c))
         /\ MarksOf(TrackedPolicies(c)) \subseteq Thresholds
<1>1. CallerMarks(c) = MarksOf(CallerPolicies(c))
  BY Zenon DEF CallerMarks, MarksOf
<1>2. CallerMarks(c) = MarksOf(TrackedPolicies(c))
  BY <1>1, TrackedAreCallers, Zenon DEF MarksOf
<1>3. ASSUME NEW p \in TrackedPolicies(c), Enabled(p), p.waiting > 0
      PROVE  Marks(p) \in Thresholds
  <2>1. p.waiting \in Int /\ p.clear \in Int
    BY <1>3, Zenon DEF LimitsAreNumbers, Enabled
  <2>2. QED
    BY <1>3, <2>1 DEF Marks, Thresholds
<1>4. QED
  BY <1>2, <1>3, Zenon DEF MarksOf

-----------------------------------------------------------------------------
(***************************************************************************)
(* The inductive invariant of the poller: every tracked mark holds the     *)
(* hysteresis of the samples since it came into use, the marks tracked are *)
(* those of the callers, and a fresh count is the last sample, which all   *)
(* marks have seen.                                                        *)
(***************************************************************************)
MarksSound ==
  /\ samples \in Seq(Nat)
  /\ DOMAIN queueOverloads = DOMAIN since
  /\ control # "setting" => DOMAIN since = CallerMarks(config)
  /\ \A m \in DOMAIN since : since[m] \in Nat /\ since[m] <= Len(samples) + 1
  /\ age = "fresh" => /\ Len(samples) > 0 /\ latest.waiting = samples[Len(samples)]
                      /\ \A m \in DOMAIN since : since[m] <= Len(samples)
  /\ \A m \in DOMAIN since : queueOverloads[m] = Reached(samples, since[m], m)

PollerInv == MetricsTypeOK /\ EventsAlternate /\ MarksSound

\* It holds before the first configuration.
LEMMA PollerInit ==
  ASSUME MetricsInit
  PROVE  PollerInv
<1>1. DOMAIN queueOverloads = {} /\ DOMAIN since = {} /\ samples \in Seq(Nat)
  BY DEF MetricsInit
<1>2. MetricsTypeOK
  <2>1. NoCounts \in Counts
    BY Zenon DEF NoCounts, Counts
  <2>2. /\ config \in Configs /\ requiresRunning \in BOOLEAN
        /\ latest = NoCounts /\ scraped = NoCounts /\ cancelled \in BOOLEAN
        /\ age = "none" /\ poller = "off" /\ control = "setting" /\ gauges = {} /\ balance = 0
    BY Zenon DEF MetricsInit
  <2>3. QED
    BY <1>1, <2>1, <2>2 DEF MetricsTypeOK
<1>3. EventsAlternate
  BY <1>1, Zenon DEF MetricsInit, EventsAlternate, QueueOverloaded, Tripped
<1>4. MarksSound
  <2>1. control = "setting" /\ age # "fresh"
    BY DEF MetricsInit
  <2>2. QED
    BY <1>1, <2>1, Zenon DEF MarksSound
<1>5. QED
  BY <1>2, <1>3, <1>4, Zenon DEF PollerInv

\* publishOverloadLocked keeps the balance of the events.
LEMMA EventCounted ==
  ASSUME EventsAlternate,
         Publish(QueueOverloaded(nativePolicy), QueueOverloaded(nativePolicy)')
  PROVE  EventsAlternate'
<1>1. \A q, r \in BOOLEAN :
        (IF q THEN 1 ELSE 0) + (IF r /\ ~q THEN 1 ELSE IF ~r /\ q THEN -1 ELSE 0)
          = IF r THEN 1 ELSE 0
  OBVIOUS
<1>2. /\ QueueOverloaded(nativePolicy) \in BOOLEAN
      /\ QueueOverloaded(nativePolicy)' \in BOOLEAN
  BY Zenon DEF QueueOverloaded
<1>3. QED
  BY <1>1, <1>2, Zenon DEF EventsAlternate, Publish

\* A step that leaves policies, samples and events alone.
LEMMA PollerIdle ==
  ASSUME PollerInv, UNCHANGED <<state, latest, balance, samples, since>>,
         MetricsTypeOK', age' = "fresh" => age = "fresh",
         control' # "setting" => UNCHANGED config /\ control # "setting"
  PROVE  PollerInv'
<1>1. UNCHANGED <<nativePolicy, queueOverloads>>
  BY Zenon DEF state
<1>2. EventsAlternate'
  BY <1>1, Zenon DEF PollerInv, EventsAlternate, QueueOverloaded, Tripped
<1>3. /\ UNCHANGED <<queueOverloads, latest, samples, since>>
      /\ MarksSound
  BY <1>1, Zenon DEF PollerInv
<1>4. control' # "setting" => DOMAIN since' = CallerMarks(config')
  BY <1>3, Zenon DEF MarksSound
<1>5. MarksSound'
  BY <1>3, <1>4, Zenon DEF MarksSound
<1>6. QED
  BY <1>2, <1>5, Zenon DEF PollerInv

\* A sample is applied, or is not complete enough (updateLatest).
LEMMA PollerSample ==
  ASSUME PollerInv, UpdateLatest
  PROVE  PollerInv'
<1>1. CASE ~SupportsSample
  <2>1. /\ UNCHANGED <<config, nativePolicy, queueOverloads, requiresRunning, latest, age,
                       balance, gauges, samples, since, cancelled, control>>
        /\ poller' = "idle" /\ scraped' = NoCounts
    BY <1>1, Zenon DEF UpdateLatest, sample
  <2>2. NoCounts \in Counts
    BY Zenon DEF NoCounts, Counts
  <2>3. MetricsTypeOK'
    BY <2>1, <2>2 DEF PollerInv, MetricsTypeOK
  <2>4. QED
    BY <2>1, <2>3, PollerIdle, Zenon DEF state
<1>2. CASE SupportsSample
  <2> DEFINE w == scraped.waiting
  <2>1. /\ UNCHANGED <<config, nativePolicy, requiresRunning, cancelled, control, since>>
        /\ poller' = "idle" /\ scraped' = NoCounts /\ latest' = scraped /\ age' = "fresh"
        /\ queueOverloads' = [m \in DOMAIN queueOverloads |->
                                MarksOverloaded(m, w, queueOverloads[m])]
        /\ gauges' = gauges \cup {"overloaded"} /\ samples' = Append(samples, w)
    BY <1>2, Zenon DEF UpdateLatest
  <2>2. MetricsTypeOK /\ EventsAlternate /\ MarksSound
    BY Zenon DEF PollerInv
  <2>3. w \in Nat /\ scraped \in Counts /\ w # Absent
    <3>1. scraped \in Counts /\ w # Absent
      BY <1>2, <2>2, Zenon DEF MetricsTypeOK, SupportsSample
    <3>2. w \in 0 .. MaxWaiting
      BY <3>1, Zenon DEF Counts
    <3>3. QED
      BY <3>1, <3>2, MetricsAssumption
  <2>4. EventsAlternate'
    BY <1>2, <2>2, EventCounted, Zenon DEF UpdateLatest
  <2>5. DOMAIN queueOverloads' = DOMAIN queueOverloads
    BY <2>1, Zenon
  <2>6. MetricsTypeOK'
    <3>1. NoCounts \in Counts
      BY Zenon DEF NoCounts, Counts
    <3>2. \A m \in DOMAIN queueOverloads' : queueOverloads'[m] \in BOOLEAN
      BY <2>1, <2>5, Zenon DEF MarksOverloaded
    <3>3. gauges' \subseteq {"depth", "running", "overloaded"}
      BY <2>1, <2>2, Zenon DEF MetricsTypeOK
    <3>4. balance' \in Int
      BY <2>4 DEF EventsAlternate
    <3>5. /\ config' \in Configs /\ requiresRunning' \in BOOLEAN /\ cancelled' \in BOOLEAN
          /\ control' \in {"idle", "setting", "stopping", "gone"}
          /\ DOMAIN queueOverloads' \subseteq [trip : Nat, clear : Nat]
      BY <2>1, <2>2, <2>5, Zenon DEF MetricsTypeOK
    <3>6. QED
      BY <2>1, <2>3, <3>1, <3>2, <3>3, <3>4, <3>5, Zenon DEF MetricsTypeOK
  <2>7. /\ Len(samples') = Len(samples) + 1 /\ Len(samples') > 0 /\ Len(samples) \in Nat
        /\ samples' \in Seq(Nat) /\ samples'[Len(samples')] = w
    BY <2>1, <2>2, <2>3 DEF MarksSound
  <2>8. ASSUME NEW m \in DOMAIN since
        PROVE  /\ since[m] <= Len(samples') /\ since[m] <= Len(samples') + 1
               /\ queueOverloads'[m] = Reached(samples', since[m], m)
    <3>1. m \in DOMAIN queueOverloads /\ since[m] \in Nat /\ since[m] <= Len(samples) + 1
          /\ queueOverloads[m] = Reached(samples, since[m], m)
      BY <2>2, <2>8, Zenon DEF MarksSound
    <3>2. m \in Thresholds /\ samples \in Seq(Nat)
      BY <2>2, <3>1, Zenon DEF MetricsTypeOK, Thresholds, MarksSound
    <3>3. Reached(samples', since[m], m) <=> MarksOverloaded(m, w, Reached(samples, since[m], m))
      BY <2>1, <2>3, <3>1, <3>2, OneSampleMore, Zenon
    <3>4. Reached(samples', since[m], m) = MarksOverloaded(m, w, Reached(samples, since[m], m))
      BY <3>3, Zenon DEF Reached, MarksOverloaded
    <3>5. queueOverloads'[m] = MarksOverloaded(m, w, Reached(samples, since[m], m))
      BY <2>1, <3>1, Zenon
    <3>6. since[m] <= Len(samples') /\ since[m] <= Len(samples') + 1
      BY <2>7, <3>1
    <3>7. QED
      BY <3>4, <3>5, <3>6, Zenon
  <2>9. MarksSound'
    <3>1. control' # "setting" => DOMAIN since' = CallerMarks(config')
      BY <2>1, <2>2, Zenon DEF MarksSound
    <3>2. \A m \in DOMAIN since : since[m] \in Nat
      BY <2>2, Zenon DEF MarksSound
    <3>3. DOMAIN queueOverloads' = DOMAIN since'
      BY <2>1, <2>2, <2>5, Zenon DEF MarksSound
    <3>4. QED
      BY <2>1, <2>7, <2>8, <3>1, <3>2, <3>3, Zenon DEF MarksSound
  <2>10. QED
    BY <2>4, <2>6, <2>9, Zenon DEF PollerInv
<1>3. QED
  BY <1>1, <1>2, Zenon

\* The marks of a new configuration take over the state of those that stay, and
\* start with the last sample or the next one (configurePolicies).
LEMMA PollerConfigured ==
  ASSUME LimitsAreNumbers, HostPolicyAgreed,
         PollerInv, Configure
  PROVE  PollerInv'
<1> DEFINE marks == MarksOf(TrackedPolicies(config))
           poll  == {r \in TrackedPolicies(config) : Enabled(r)} # {}
           fresh == age = "fresh" /\ latest.waiting # Absent
<1>0. MetricsTypeOK /\ EventsAlternate /\ MarksSound
  BY Zenon DEF PollerInv
<1>1. /\ control' = "idle" /\ cancelled' = FALSE /\ UNCHANGED <<config, scraped, samples>>
      /\ requiresRunning' \in BOOLEAN
      /\ poller' = IF poll THEN "fetching" ELSE "off"
      /\ gauges' = (IF poll THEN gauges ELSE gauges \ {"depth", "running"}) \cup {"overloaded"}
      /\ IF poll THEN UNCHANGED <<latest, age>>
                 ELSE latest' = NoCounts /\ age' = "none"
  BY Zenon DEF Configure, sample, TrackedPolicies
<1>2. queueOverloads' = [m \in marks |->
                           IF fresh THEN MarksOverloaded(m, latest.waiting, Tripped(m))
                           ELSE Tripped(m)]
  BY Zenon DEF Configure, TrackedPolicies, MarksOf
<1>3. since' = [m \in CallerMarks(config) |->
                  IF m \in DOMAIN since THEN since[m]
                  ELSE IF fresh THEN Len(samples) ELSE Len(samples) + 1]
  BY Zenon DEF Configure
<1>4. Publish(QueueOverloaded(nativePolicy), QueueOverloaded(nativePolicy)')
  BY Zenon DEF Configure
<1>5. EventsAlternate'
  BY <1>0, <1>4, EventCounted, Zenon
<1>6. config \in Configs /\ marks = CallerMarks(config) /\ marks \subseteq Thresholds
  BY <1>0, CallersMarksTracked, Zenon DEF MetricsTypeOK
<1>7. fresh <=> age = "fresh"
  BY <1>0 DEF MetricsTypeOK
<1> HIDE DEF marks, poll, fresh
<1>8. DOMAIN queueOverloads' = marks /\ DOMAIN since' = marks
  BY <1>2, <1>3, <1>6, Zenon
<1>9. MetricsTypeOK'
  <2>1. NoCounts \in Counts
    BY Zenon DEF NoCounts, Counts
  <2>2. \A m \in DOMAIN queueOverloads' : queueOverloads'[m] \in BOOLEAN
    BY <1>2, <1>8, Zenon DEF MarksOverloaded, Tripped
  <2>3. gauges' \subseteq {"depth", "running", "overloaded"}
    BY <1>0, <1>1, Zenon DEF MetricsTypeOK
  <2>4. balance' \in Int
    BY <1>5 DEF EventsAlternate
  <2>5. /\ latest' \in Counts /\ scraped' \in Counts
        /\ age' \in {"none", "fresh", "stale"}
        /\ age' # "none" => latest'.waiting # Absent
    BY <1>0, <1>1, <2>1, Zenon DEF MetricsTypeOK
  <2>6. /\ poller' \in {"off", "idle", "fetching", "parsed"} /\ cancelled' \in BOOLEAN
        /\ control' \in {"idle", "setting", "stopping", "gone"}
    BY <1>1, Zenon
  <2>7. config' \in Configs /\ DOMAIN queueOverloads' \subseteq [trip : Nat, clear : Nat]
    BY <1>1, <1>6, <1>8, Zenon DEF Thresholds
  <2>8. QED
    BY <1>1, <2>2, <2>3, <2>4, <2>5, <2>6, <2>7, Zenon DEF MetricsTypeOK
<1>10. ASSUME NEW m \in marks
       PROVE  /\ since'[m] \in Nat /\ since'[m] <= Len(samples) + 1
              /\ age = "fresh" => since'[m] <= Len(samples)
              /\ queueOverloads'[m] = Reached(samples, since'[m], m)
  <2>1. /\ samples \in Seq(Nat) /\ Len(samples) \in Nat /\ m \in Thresholds
        /\ Len(samples) <= Len(samples) + 1
    BY <1>0, <1>6 DEF MarksSound
  <2>2. queueOverloads'[m] = IF fresh THEN MarksOverloaded(m, latest.waiting, Tripped(m))
                             ELSE Tripped(m)
    BY <1>2, Zenon
  <2>3. since'[m] = IF m \in DOMAIN since THEN since[m]
                    ELSE IF fresh THEN Len(samples) ELSE Len(samples) + 1
    BY <1>3, <1>6, Zenon
  <2>4. fresh => Len(samples) > 0 /\ latest.waiting = samples[Len(samples)]
    BY <1>0, <1>7, Zenon DEF MarksSound
  <2>5. CASE m \in DOMAIN since
    <3>1. /\ since'[m] = since[m] /\ since[m] \in Nat /\ since[m] <= Len(samples) + 1
          /\ fresh => since[m] <= Len(samples)
      BY <1>0, <1>7, <2>3, <2>5, Zenon DEF MarksSound
    <3>2. Tripped(m) = Reached(samples, since[m], m)
      BY <1>0, <2>5, Zenon DEF MarksSound, Tripped, Reached
    <3>3. CASE fresh
      <4>1. MarksOverloaded(m, latest.waiting, Reached(samples, since[m], m))
              <=> Reached(samples, since[m], m)
        BY <2>1, <2>4, <3>1, <3>3, LastSampleAgain, Zenon
      <4>2. MarksOverloaded(m, latest.waiting, Reached(samples, since[m], m))
              = Reached(samples, since[m], m)
        BY <4>1, Zenon DEF MarksOverloaded, Reached
      <4>3. queueOverloads'[m] = MarksOverloaded(m, latest.waiting, Tripped(m))
        BY <2>2, <3>3, Zenon
      <4>4. queueOverloads'[m] = Reached(samples, since[m], m)
        BY <3>2, <4>2, <4>3, Zenon
      <4>5. QED
        BY <3>1, <3>3, <4>4, Zenon
    <3>4. CASE ~fresh
      BY <1>7, <2>2, <3>1, <3>2, <3>4, Zenon
    <3>5. QED
      BY <3>3, <3>4, Zenon
  <2>6. CASE m \notin DOMAIN since
    <3>1. Tripped(m) = FALSE
      BY <1>0, <2>6, Zenon DEF MarksSound, Tripped
    <3>2. CASE fresh
      <4>1. since'[m] = Len(samples)
        BY <2>3, <2>6, <3>2, Zenon
      <4>2. MarksOverloaded(m, latest.waiting, FALSE) <=> Reached(samples, Len(samples), m)
        BY <2>1, <2>4, <3>2, FirstSample, Zenon
      <4>3. MarksOverloaded(m, latest.waiting, FALSE) = Reached(samples, Len(samples), m)
        BY <4>2, Zenon DEF MarksOverloaded, Reached
      <4>4. since'[m] <= Len(samples) /\ since'[m] <= Len(samples) + 1 /\ since'[m] \in Nat
        BY <2>1, <4>1
      <4>5. QED
        BY <2>2, <3>1, <3>2, <4>1, <4>3, <4>4, Zenon
    <3>3. CASE ~fresh
      <4>1. since'[m] = Len(samples) + 1
        BY <2>3, <2>6, <3>3, Zenon
      <4>2. ~Reached(samples, Len(samples) + 1, m)
        BY <2>1, FirstSample, Zenon
      <4>3. Reached(samples, Len(samples) + 1, m) = FALSE
        BY <4>2, Zenon DEF Reached
      <4>4. since'[m] \in Nat /\ since'[m] <= Len(samples) + 1
        BY <2>1, <4>1
      <4>5. QED
        BY <1>7, <2>2, <3>1, <3>3, <4>1, <4>3, <4>4, Zenon
    <3>4. QED
      BY <3>2, <3>3, Zenon
  <2>7. QED
    BY <2>5, <2>6, Zenon
<1>11. MarksSound'
  <2>1. age' = "fresh" => age = "fresh" /\ latest' = latest
    BY <1>1
  <2>2. age' = "fresh" => Len(samples') > 0 /\ latest'.waiting = samples'[Len(samples')]
    BY <1>0, <1>1, <2>1, Zenon DEF MarksSound
  <2>3. age' = "fresh" => \A m \in DOMAIN since' : since'[m] <= Len(samples')
    BY <1>1, <1>8, <1>10, <2>1, Zenon
  <2>4. /\ DOMAIN queueOverloads' = DOMAIN since'
        /\ DOMAIN since' = CallerMarks(config') /\ samples' \in Seq(Nat)
    BY <1>0, <1>1, <1>6, <1>8, Zenon DEF MarksSound
  <2>5. \A m \in DOMAIN since' :
          /\ since'[m] \in Nat /\ since'[m] <= Len(samples') + 1
          /\ queueOverloads'[m] = Reached(samples', since'[m], m)
    BY <1>1, <1>8, <1>10, Zenon
  <2>6. QED
    BY <2>2, <2>3, <2>4, <2>5, Zenon DEF MarksSound
<1>12. QED
  BY <1>5, <1>9, <1>11, Zenon DEF PollerInv

\* The steps that neither apply a sample nor a configuration.
LEMMA PollerOther ==
  ASSUME PollerInv, UNCHANGED metricsVars \/ MetricsNext,
         ~UpdateLatest, ~Configure
  PROVE  PollerInv'
<1>0. MetricsTypeOK
  BY Zenon DEF PollerInv
<1>1. CASE ScrapeParsed
  <2>1. /\ UNCHANGED <<config, nativePolicy, queueOverloads, requiresRunning, latest, age,
                       cancelled, control, balance, samples, since>>
        /\ poller' = "parsed" /\ scraped' \in Counts
        /\ gauges' \subseteq gauges \cup {"depth", "running"}
    BY <1>1, Zenon DEF ScrapeParsed, state, sample, history
  <2>2. gauges' \subseteq {"depth", "running", "overloaded"}
    BY <1>0, <2>1, Zenon DEF MetricsTypeOK
  <2>3. MetricsTypeOK'
    BY <1>0, <2>1, <2>2 DEF MetricsTypeOK
  <2>4. QED
    BY <2>1, <2>3, PollerIdle, Zenon DEF state
<1>2. CASE Scrape \/ ScrapeFails \/ Exit \/ UNCHANGED metricsVars
  <2>1. /\ UNCHANGED <<config, nativePolicy, queueOverloads, requiresRunning, latest, age,
                       cancelled, control, balance, samples, since, scraped, gauges>>
        /\ poller' \in {"off", "idle", "fetching", poller}
    BY <1>2, Zenon DEF Scrape, ScrapeFails, Exit, metricsVars,
                       state, sample, history
  <2>2. MetricsTypeOK'
    BY <1>0, <2>1 DEF MetricsTypeOK
  <2>3. QED
    BY <2>1, <2>2, PollerIdle, Zenon DEF state
<1>3. CASE Expire
  <2>1. /\ UNCHANGED <<config, nativePolicy, queueOverloads, requiresRunning, latest,
                       cancelled, control, balance, samples, since, scraped, gauges, poller>>
        /\ age = "fresh" /\ age' = "stale"
    BY <1>3, Zenon DEF Expire, state, history
  <2>2. MetricsTypeOK'
    BY <1>0, <2>1 DEF MetricsTypeOK
  <2>3. QED
    BY <2>1, <2>2, PollerIdle, Zenon DEF state
<1>4. CASE SetPolicies \/ Shutdown \/ DeleteGauges
  <2>1. /\ UNCHANGED <<nativePolicy, queueOverloads, requiresRunning, latest, age,
                       balance, samples, since, scraped, poller>>
        /\ cancelled' \in {TRUE, cancelled} /\ gauges' \in {{}, gauges}
        /\ \/ control' = "setting" /\ config' \in Configs
           \/ control' \in {"stopping", "gone"} /\ control \in {"idle", "stopping"}
              /\ UNCHANGED config
    BY <1>4, Zenon DEF SetPolicies, Shutdown, DeleteGauges,
                       state, sample, history
  <2>2. /\ cancelled' \in BOOLEAN /\ gauges' \subseteq {"depth", "running", "overloaded"}
        /\ control' \in {"idle", "setting", "stopping", "gone"} /\ config' \in Configs
    BY <1>0, <2>1, Zenon DEF MetricsTypeOK
  <2>3. MetricsTypeOK'
    BY <1>0, <2>1, <2>2, Zenon DEF MetricsTypeOK
  <2>4. control' # "setting" => UNCHANGED config /\ control # "setting"
    BY <2>1
  <2>5. QED
    BY <2>1, <2>3, <2>4, PollerIdle, Zenon DEF state
<1>5. QED
  BY <1>1, <1>2, <1>3, <1>4, Zenon DEF MetricsNext

(***************************************************************************)
(* Where the organizations that share a reserved host share its policy,    *)
(* the overload state that callers are routed by is the hysteresis of      *)
(* their own marks over the samples, across any reloads, stale periods and *)
(* incomplete scrapes, and overload and recovery events alternate          *)
(* (configurePolicies, updateLatest, publishOverloadLocked, tier).         *)
(***************************************************************************)
THEOREM HysteresisIsKept ==
  ASSUME LimitsAreNumbers, HostPolicyAgreed
  PROVE  MetricsSpec => []HysteresisKept
<1>1. MetricsInit => PollerInv
  BY PollerInit, Zenon
<1>2. PollerInv /\ [MetricsNext]_metricsVars => PollerInv'
  BY PollerSample, PollerConfigured, PollerOther, Zenon
<1>3. PollerInv => CallersSeeHysteresis
  <2> SUFFICES ASSUME PollerInv, control \in {"idle", "stopping"},
                      NEW p \in CallerPolicies(config),
                      Tier(p) # 2, Enabled(p), p.waiting > 0
               PROVE  (Tier(p) = 3) = NotRecovered(Marks(p))
    BY Zenon DEF CallersSeeHysteresis
  <2> DEFINE m == Marks(p)
  <2>0. MetricsTypeOK /\ MarksSound
    BY Zenon DEF PollerInv
  <2>1. age = "fresh" /\ Supports(latest, p)
    BY Zenon DEF Tier
  <2>2. m \in DOMAIN since /\ m \in DOMAIN queueOverloads /\ m \in Thresholds
    <3>1. m \in CallerMarks(config)
      BY Zenon DEF CallerMarks
    <3>2. control # "setting"
      OBVIOUS
    <3>3. QED
      BY <2>0, <3>1, <3>2, Zenon DEF MarksSound, MetricsTypeOK, Thresholds
  <2> HIDE DEF m
  <2>3. /\ Tripped(m) = Reached(samples, since[m], m)
        /\ since[m] \in Nat /\ since[m] <= Len(samples) /\ Len(samples) > 0
        /\ latest.waiting = samples[Len(samples)] /\ samples \in Seq(Nat)
    BY <2>0, <2>1, <2>2, Zenon DEF MarksSound, Tripped, Reached
  <2>4. MarksOverloaded(m, latest.waiting, Reached(samples, since[m], m))
          <=> Reached(samples, since[m], m)
    BY <2>2, <2>3, LastSampleAgain, Zenon
  <2>5. Tier(p) = 3 <=> MarksOverloaded(m, latest.waiting, Tripped(m))
    BY <2>1 DEF Tier, m
  <2>6. Tier(p) = 3 <=> NotRecovered(m)
    BY <2>3, <2>4, <2>5, Zenon DEF NotRecovered, Reached
  <2>7. QED
    BY <2>6, Zenon DEF m, NotRecovered
<1>4. PollerInv => HysteresisKept
  BY <1>3, Zenon DEF PollerInv, HysteresisKept
<1>5. QED
  BY <1>1, <1>2, <1>4, PTL DEF MetricsSpec
=============================================================================
