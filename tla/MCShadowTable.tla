--------------------------- MODULE MCShadowTable ---------------------------
EXTENDS ShadowTable, TLC

Symmetry == Permutations(Keys) \cup Permutations(Dispatches)

\* Both keys prefer replica 1; the third host's score ties with the second's.
MCScore == [k \in Keys |-> [h \in Hosts |-> IF h = 1 THEN 2 ELSE 1]]

\* Enforced with and without a cap, and a longer window that only measures;
\* all replicas with an uneven load, one breaker open, one replica configured.
Enforced == [mode |-> "enforced", retention |-> 1, threshold |-> 1, delta |-> 1]
Uncapped == [mode |-> "enforced", retention |-> 1, threshold |-> 2, delta |-> -1]
Measured == [mode |-> "shadow", retention |-> 2, threshold |-> 1, delta |-> 0]

Uneven == CacheRoutePoolIn(Hosts, Hosts, Hosts, <<2, 0, 1>>)
OneOut == CacheRoutePoolIn(Hosts, Hosts, {2, 3}, <<0, 3, 1>>)
Single == CacheRoutePoolIn({1}, Hosts, {}, <<0, 0, 0>>)

MCOffers ==
  { [cfg |-> Enforced, pool |-> Uneven], [cfg |-> Uncapped, pool |-> OneOut],
    [cfg |-> Measured, pool |-> OneOut], [cfg |-> Measured, pool |-> Single] }
=============================================================================
