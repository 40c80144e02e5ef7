---------------------------- MODULE Rendezvous ----------------------------
(***************************************************************************)
(* The pure part of cache-aware routing (cacheroute/hrw.go, the order      *)
(* built by Shadow.Decide, Model.CacheRoutePoolIn): which replicas a       *)
(* routing key prefers.  A replica is a number, and numbers compare like   *)
(* the host names do.  Score[k][h] stands for xxhash64(key, host), which   *)
(* the code treats as an arbitrary fixed function.                         *)
(*                                                                         *)
(* A pool is a record: size is the configured number of replicas, cands    *)
(* the candidates, and load gives the requests in flight of each.          *)
(***************************************************************************)
EXTENDS Integers, FiniteSets, Sequences, FiniteSetsExt, Functions

CONSTANTS Keys, Hosts, Score

ASSUME RendezvousAssumption ==
  /\ Hosts \subseteq Nat /\ IsFiniteSet(Hosts)
  /\ Score \in [Keys -> [Hosts -> Nat]]

\* The candidates are the attested replicas of the caller's pool with a closed
\* breaker, or all attested ones when every breaker is open.  The size is the
\* configured one, so that a release in progress does not shrink the pool.
CacheRoutePoolIn(allowed, attested, closed, load) ==
  LET usable == allowed \cap attested
  IN  [ size  |-> Cardinality(allowed),
        cands |-> IF usable \cap closed # {} THEN usable \cap closed ELSE usable,
        load  |-> load ]

\* The members of S in the order R, each placed by how many come before it.
Sorted(S, R) ==
  [i \in 1 .. Cardinality(S) |->
     CHOOSE x \in S : Cardinality({y \in S : <<y, x>> \in R}) = i - 1]

\* The elements of a sequence that are in S, in their order.
Keep(seq, S) ==
  LET at    == {i \in DOMAIN seq : seq[i] \in S}
      place == Sorted(at, {p \in at \X at : p[1] < p[2]})
  IN  [k \in 1 .. Cardinality(at) |-> seq[place[k]]]

\* Highest score first, equal scores by host name.
Precedes(key, a, b) ==
  \/ Score[key][a] > Score[key][b]
  \/ Score[key][a] = Score[key][b] /\ a < b

Rank(key, cands) == Sorted(cands, {p \in cands \X cands : Precedes(key, p[1], p[2])})

\* ceil(rate / threshold), at least 1 and at most the pool.
ReplicationFactor(rate, threshold, poolSize) ==
  IF threshold <= 0 \/ poolSize <= 1
  THEN 1
  ELSE Max({1, Min({poolSize, (rate + threshold - 1) \div threshold})})

\* The earliest of the least loaded.
LeastLoaded(ranked, load) ==
  ranked[CHOOSE i \in DOMAIN ranked : \A j \in DOMAIN ranked :
           \/ load[ranked[i]] < load[ranked[j]]
           \/ load[ranked[i]] = load[ranked[j]] /\ i <= j]

MinInFlight(ranked, load) == Min({load[h] : h \in Range(ranked)})

\* The hosts that are not more than delta deeper than the least loaded one.
Within(ranked, delta, load) ==
  {h \in Range(ranked) : load[h] <= MinInFlight(ranked, load) + delta}

\* Mutation: the cap is taken from the warm set instead of the whole ranking.
MutCappedPick(ranked, r, delta, load) ==
  LET warm   == SubSeq(ranked, 1, r)
      within == Keep(warm, Within(warm, delta, load))
  IN  IF delta < 0 THEN [host |-> LeastLoaded(warm, load), demoted |-> FALSE]
      ELSE IF within # <<>> THEN [host |-> LeastLoaded(within, load), demoted |-> FALSE]
      ELSE [host |-> LeastLoaded(ranked, load), demoted |-> TRUE]

\* The least loaded of the first r that is within the cap; without one, the
\* least loaded of all.
CappedPick(ranked, r, delta, load) ==
  LET warm   == SubSeq(ranked, 1, r)
      within == Keep(warm, Within(ranked, delta, load))
  IN  IF delta < 0
      THEN [host |-> LeastLoaded(warm, load), demoted |-> FALSE]
      ELSE IF within # <<>>
           THEN [host |-> LeastLoaded(within, load), demoted |-> FALSE]
           ELSE [host |-> LeastLoaded(ranked, load), demoted |-> TRUE]

\* The pick, then the rest of the ranking; under a cap the hosts over it last.
PreferenceOrder(ranked, pick, delta, load) ==
  LET rest == Keep(ranked, Range(ranked) \ {pick})
      fits == Within(ranked, delta, load)
  IN  <<pick>> \o IF delta < 0
                  THEN rest
                  ELSE Keep(rest, fits) \o Keep(rest, Range(ranked) \ fits)
=============================================================================
