---------------------------- MODULE ShadowTable ----------------------------
(***************************************************************************)
(* The cache-aware routing table (cacheroute/shadow.go) for one model:     *)
(* requests decide, land and are observed while the sweeper removes what   *)
(* expired.  `table' is everything Shadow.mu guards: the entries, one      *)
(* recency list per retention window (front first; an absent list and an   *)
(* empty one are the same) and the tracked-keys aggregate.                 *)
(*                                                                         *)
(* observeKeyed reads the clock BEFORE it takes the lock, so landings are  *)
(* applied in another order than their times.  Settings may change between *)
(* two requests (a configuration reload) and are fixed within one.         *)
(***************************************************************************)
EXTENDS Rendezvous

CONSTANTS
  Dispatches,     \* concurrent dispatches
  Offers,         \* records [cfg, pool]: the model's settings, [mode, retention,
                  \* threshold, delta], and the pool that a dispatch may see
  MaxKeys,        \* Shadow.maxKeys
  SweepChunk,     \* evictions per lock acquisition of the sweeper
  Minute,         \* clock units per rate window
  Landing,        \* bound: the replicas that requests land on
  LastLanding,    \* bound: no request reads the clock after this time
  Instants,       \* bound: the times at which anything happens
  MaxLandings     \* bound: landings observed in a behaviour

ASSUME ShadowAssumption ==
  /\ IsFiniteSet(Dispatches) /\ MaxKeys \in Nat /\ SweepChunk \in Nat /\ MaxLandings \in Nat
  /\ Minute \in Nat \ {0}
  /\ Instants \subseteq Nat /\ \E last \in Instants : \A t \in Instants : t <= last
  /\ Landing \subseteq Hosts
  /\ \A o \in Offers :
       /\ o.cfg.retention \in Nat /\ o.cfg.threshold \in Int /\ o.cfg.delta \in Int
       /\ o.pool.cands \subseteq Hosts /\ o.pool.load \in [Hosts -> Nat]

VARIABLES
  clock,
  table,          \* [entries, lists, counts]
  req,            \* the locals of each dispatch
  sweeper,        \* waiting in its select, inside sweep(), or stopped
  landings        \* landings so far, for the bound

tableVars == <<clock, table, req, sweeper, landings>>

RetentionFactor == 4

Retentions == {o.cfg.retention : o \in Offers}

NoHost == 0

Groups == Hosts \X (1 .. Cardinality(Hosts))

NoDecision == [order |-> <<>>, home |-> NoHost, r |-> 0, demoted |-> FALSE]

Idle == [pc |-> "idle"]

Entries == table.entries

-----------------------------------------------------------------------------
\* shiftCountLocked: the old group loses one and is deleted at zero.
ShiftCount(counts, old, new) ==
  IF old = new
  THEN counts
  ELSE [g \in Groups |-> CASE g = old -> Max({0, counts[g] - 1})
                           [] g = new -> counts[g] + 1
                           [] OTHER   -> counts[g]]

GroupOf(e) == <<e.home, e.r>>

\* Mutation: the lists lose the keys, the aggregate does not.
MutEvictLocked(t, gone) ==
  [ entries |-> Restrict(t.entries, DOMAIN t.entries \ gone),
    lists   |-> [d \in Retentions |-> Keep(t.lists[d], Keys \ gone)],
    counts  |-> t.counts ]

\* evictLocked for each of the keys; a group is deleted at zero.
EvictLocked(t, gone) ==
  [ entries |-> Restrict(t.entries, DOMAIN t.entries \ gone),
    lists   |-> [d \in Retentions |-> Keep(t.lists[d], Keys \ gone)],
    counts  |-> [g \in Groups |->
                  Max({0, t.counts[g] - Cardinality({k \in gone : GroupOf(t.entries[k]) = g})})] ]

\* The coldest ends of the lists that were seen least recently; the lists are
\* a Go map, so equal times may go either way.
Victims(t) ==
  LET backs == {t.lists[d][Len(t.lists[d])] : d \in {x \in Retentions : t.lists[x] # <<>>}}
  IN  {k \in backs : \A j \in backs : t.entries[k].lastSeen <= t.entries[j].lastSeen}

\* The tables insertLocked may leave before it adds the new entry.
MakeRoom(t) ==
  IF Cardinality(DOMAIN t.entries) >= MaxKeys THEN {EvictLocked(t, {k}) : k \in Victims(t)} ELSE {t}

\* insertLocked's entry: nothing seen, no window, no group yet.
FreshEntry(retention) ==
  [ lastSeen |-> 0, expiry |-> 0, warm |-> <<>>, windowStart |-> - 2 * Minute,
    prev |-> 0, cur |-> 0, home |-> NoHost, r |-> 0, retention |-> retention ]

InsertLocked(t, key, retention) ==
  [ entries |-> [k \in DOMAIN t.entries \cup {key} |->
                   IF k = key THEN FreshEntry(retention) ELSE t.entries[k]],
    lists   |-> [t.lists EXCEPT ![retention] = <<key>> \o @],
    counts  |-> t.counts ]

\* touchLocked: to the front of its list, or over to the other window's list.
TouchLocked(t, key, retention) ==
  LET others == [t.lists EXCEPT ![t.entries[key].retention] = Keep(@, Keys \ {key})]
  IN  [ entries |-> [t.entries EXCEPT ![key].retention = retention],
        lists   |-> [others EXCEPT ![retention] = <<key>> \o @],
        counts  |-> t.counts ]

-----------------------------------------------------------------------------
(* The two-bucket rate, in requests per Minute units of the clock, times   *)
(* Minute so that the interpolation stays an integer.                      *)

WindowAt(now) == now - (now % Minute)

Interpolated(prev, cur, now) == prev * (Minute - (now % Minute)) + cur * Minute

\* bumpRate: a gap, or a clock behind the window, starts over.
BumpRate(e, now) ==
  LET minute == WindowAt(now)
  IN  CASE e.windowStart = minute ->
             [e EXCEPT !.cur = @ + 1]
        [] minute - e.windowStart = Minute ->
             [e EXCEPT !.prev = e.cur, !.cur = 1, !.windowStart = minute]
        [] OTHER ->
             [e EXCEPT !.prev = 0, !.cur = 1, !.windowStart = minute]

PeekRate(key, now) ==
  IF key \notin DOMAIN Entries
  THEN 0
  ELSE LET e == Entries[key]
       IN  CASE e.windowStart = WindowAt(now) -> Interpolated(e.prev, e.cur, now)
             [] WindowAt(now) - e.windowStart = Minute -> Interpolated(e.cur, 0, now)
             [] OTHER -> 0

Factor(rate, cfg, ranked) == ReplicationFactor(rate, cfg.threshold * Minute, Len(ranked))

\* Decide: none when the pool is too small; reads the rate under the lock.
Decide(key, pool, cfg) ==
  IF pool.size < 2 \/ pool.cands = {}
  THEN NoDecision
  ELSE LET ranked == Rank(key, pool.cands)
           r      == Factor(PeekRate(key, clock), cfg, ranked)
           pick   == CappedPick(ranked, r, cfg.delta, pool.load)
       IN  [ order   |-> PreferenceOrder(ranked, pick.host, cfg.delta, pool.load),
             home    |-> ranked[1], r |-> r, demoted |-> pick.demoted ]

\* The tables in which the key has an entry at the front of its window's list.
Present(key, retention) ==
  IF key \in DOMAIN Entries
  THEN {TouchLocked(table, key, retention)}
  ELSE {InsertLocked(t, key, retention) : t \in MakeRoom(table)}

\* The group that the entry belongs to; a decision that routed the request is
\* recorded as it was made.
RecordedGroup(bumped, key, pool, d, cfg, now) ==
  LET ranked == Rank(key, pool.cands)
  IN  IF d # NoDecision
      THEN <<d.home, d.r>>
      ELSE <<ranked[1], Factor(Interpolated(bumped.prev, bumped.cur, now), cfg, ranked)>>

\* Warmth older than the window is pruned.
Landed(e, host, group, cfg, now) ==
  LET kept == {h \in DOMAIN e.warm : now - e.warm[h] <= cfg.retention}
  IN  [ BumpRate(e, now) EXCEPT
          !.warm = [h \in kept \cup {host} |-> IF h = host THEN now ELSE e.warm[h]],
          !.lastSeen = now,
          !.expiry = now + RetentionFactor * cfg.retention,
          !.home = group[1], !.r = group[2] ]

\* observeKeyed after the lock: the tables that a landing on host at time now
\* may leave.
ObserveKeyed(key, pool, host, d, cfg, now) ==
  LET record(t) ==
        LET e     == t.entries[key]
            group == RecordedGroup(BumpRate(e, now), key, pool, d, cfg, now)
        IN  [ entries |-> [t.entries EXCEPT ![key] = Landed(e, host, group, cfg, now)],
              lists   |-> t.lists,
              counts  |-> ShiftCount(t.counts, GroupOf(e), group) ]
  IN  {record(t) : t \in Present(key, cfg.retention)}

-----------------------------------------------------------------------------
TableInit ==
  /\ clock = Min(Instants)
  /\ table = [ entries |-> <<>>,
               lists   |-> [d \in Retentions |-> <<>>],
               counts  |-> [g \in Groups |-> 0] ]
  /\ req = [p \in Dispatches |-> Idle]
  /\ sweeper = "waiting"
  /\ landings = 0

\* Time passes.
Tick ==
  /\ \E t \in Instants : t > clock /\ clock' = t
  /\ UNCHANGED <<table, req, sweeper, landings>>

\* A keyed request; under enforcement its decision is made here.
Arrive(p) ==
  /\ req[p] = Idle
  /\ landings < MaxLandings
  /\ clock <= LastLanding
  /\ \E key \in Keys, o \in Offers :
       req' = [req EXCEPT ![p] =
         [ pc |-> "selecting", key |-> key, cfg |-> o.cfg, pool |-> o.pool,
           d |-> IF o.cfg.mode = "enforced" THEN Decide(key, o.pool, o.cfg) ELSE NoDecision ]]
  /\ UNCHANGED <<clock, table, sweeper, landings>>

\* No replica, or an overloaded one: the request is answered without landing.
Reject(p) ==
  /\ req[p].pc = "selecting"
  /\ req' = [req EXCEPT ![p] = Idle]
  /\ UNCHANGED <<clock, table, sweeper, landings>>

\* The dispatch lands and observe starts; a recovery probe may land outside
\* the candidates.  The clock is read here, without the lock.
Land(p) ==
  /\ req[p].pc \in {"selecting", "serving"}
  /\ clock <= LastLanding
  /\ landings < MaxLandings
  /\ landings' = landings + 1
  /\ \E host \in Landing :
       /\ req[p].pc = "serving" => host # req[p].host
       /\ req' = [req EXCEPT ![p] =
            [ pc |-> IF req[p].pc = "selecting" THEN "observing" ELSE "observing again",
              key |-> @.key, cfg |-> @.cfg, pool |-> @.pool, d |-> @.d,
              host |-> host, now |-> clock ]]
  /\ UNCHANGED <<clock, table, sweeper>>

\* The rest of observe, under the lock.  A pool that is too small is counted
\* and not tracked.
Observe(p) ==
  /\ req[p].pc \in {"observing", "observing again"}
  /\ LET q == req[p] IN
       IF q.pool.size < 2 \/ q.pool.cands = {}
       THEN UNCHANGED table
       ELSE table' \in ObserveKeyed(q.key, q.pool, q.host, q.d, q.cfg, q.now)
  /\ req' = [req EXCEPT ![p] = IF @.pc = "observing" THEN [@ EXCEPT !.pc = "serving"] ELSE Idle]
  /\ UNCHANGED <<clock, sweeper, landings>>

\* The response is through and no failover (a second Land) happened.
Finish(p) ==
  /\ req[p].pc = "serving"
  /\ req' = [req EXCEPT ![p] = Idle]
  /\ UNCHANGED <<clock, table, sweeper, landings>>

\* The sweeper's ticker.
SweepStart ==
  /\ sweeper = "waiting"
  /\ sweeper' = "sweeping"
  /\ UNCHANGED <<clock, table, req, landings>>

\* Mutation: counts the expired and takes their number off the back.
MutExpiredAtBack(d) ==
  Cardinality({i \in DOMAIN table.lists[d] : Entries[table.lists[d][i]].expiry <= clock})

\* How many entries at the back of a list are expired, up to the first that
\* is not.
ExpiredAtBack(d) ==
  LET l == table.lists[d]
  IN  Max({n \in 0 .. Len(l) : \A i \in Len(l) - n + 1 .. Len(l) : Entries[l[i]].expiry <= clock})

\* How many each list may lose to one chunk: the lists are a Go map and come in
\* any order, so at most one of them is cut short by the end of the chunk.
Chunks ==
  {n \in [Retentions -> 0 .. SweepChunk] :
     /\ \A d \in Retentions : n[d] <= ExpiredAtBack(d)
     /\ MapThenSumSet(LAMBDA d : n[d], Retentions)
          = Min({SweepChunk, MapThenSumSet(ExpiredAtBack, Retentions)})
     /\ Cardinality({d \in Retentions : n[d] \in 1 .. ExpiredAtBack(d) - 1}) <= 1}

SweptBy(n) ==
  UNION {{table.lists[d][i] : i \in Len(table.lists[d]) - n[d] + 1 .. Len(table.lists[d])} : d \in Retentions}

\* One lock acquisition of sweep(); a full chunk goes round again.
Sweep ==
  /\ sweeper = "sweeping"
  /\ \E n \in Chunks :
       /\ table' = EvictLocked(table, SweptBy(n))
       /\ sweeper' = IF Cardinality(SweptBy(n)) >= SweepChunk THEN "sweeping" ELSE "waiting"
  /\ UNCHANGED <<clock, req, landings>>

\* Shutdown closes done; the sweeper sees it at its next select.
Close ==
  /\ sweeper = "waiting"
  /\ sweeper' = "stopped"
  /\ UNCHANGED <<clock, table, req, landings>>

TableNext ==
  \/ Tick
  \/ \E p \in Dispatches : Arrive(p) \/ Reject(p) \/ Land(p) \/ Observe(p) \/ Finish(p)
  \/ SweepStart \/ Sweep \/ Close

TableSpec == TableInit /\ [][TableNext]_tableVars
-----------------------------------------------------------------------------
Times == 0 .. Max(Instants)

EntryType ==
  [ lastSeen : Times, expiry : Nat, warm : UNION {[W -> Times] : W \in SUBSET Hosts},
    windowStart : Times, prev : 0 .. MaxLandings, cur : 0 .. MaxLandings,
    home : Hosts, r : 1 .. Cardinality(Hosts), retention : Retentions ]

\* Types, and the bound of the table (maxKeys).
TableTypeOK ==
  /\ clock \in Instants
  /\ DOMAIN Entries \subseteq Keys /\ Cardinality(DOMAIN Entries) <= MaxKeys
  /\ \A k \in DOMAIN Entries : Entries[k] \in EntryType
  /\ table.lists \in [Retentions -> Seq(Keys)]
  /\ \A d \in Retentions : Len(table.lists[d]) <= MaxKeys
  /\ table.counts \in [Groups -> 0 .. MaxKeys]
  /\ sweeper \in {"waiting", "sweeping", "stopped"}
  /\ landings \in 0 .. MaxLandings

\* Collect serves the tracked-keys gauge from an aggregate that inserts,
\* touches, evictions and sweeps maintain by steps: it is at all times what a
\* walk over the table would count.
CountsMatchTable ==
  \A g \in Groups : table.counts[g] = Cardinality({k \in DOMAIN Entries : GroupOf(Entries[k]) = g})

\* Every entry is in exactly one list, once, and it is the list of the window
\* that its expiry was computed from.  touchLocked and evictLocked follow
\* e.retention blindly and would fail on an entry that is elsewhere.
ListedWhereItExpires ==
  \A d \in Retentions :
    /\ IsInjective(table.lists[d])
    /\ Range(table.lists[d]) = {k \in DOMAIN Entries : Entries[k].retention = d}
    /\ \A k \in Range(table.lists[d]) : Entries[k].expiry = Entries[k].lastSeen + RetentionFactor * d

\* What Decide promises its caller: an order over exactly the candidates, in
\* which no host over the cap comes before one within it, whose head is one of
\* the key's first r replicas unless all of those are over the cap.
DecisionSound ==
  \A p \in Dispatches : req[p] # Idle =>
    LET q      == req[p]
        order  == q.d.order
        ranked == Rank(q.key, q.pool.cands)
        over(h) == q.cfg.delta >= 0 /\ \E j \in q.pool.cands : q.pool.load[h] > q.pool.load[j] + q.cfg.delta
    IN  q.d # NoDecision =>
          /\ Range(order) = q.pool.cands /\ Len(order) = Cardinality(q.pool.cands)
          /\ \A i, j \in DOMAIN order : i < j /\ over(order[i]) => over(order[j])
          /\ q.d.demoted <=> \A i \in 1 .. q.d.r : over(ranked[i])
          /\ ~ q.d.demoted => order[1] \in Range(SubSeq(ranked, 1, q.d.r))

\* A key leaves the table only because it expired, or because the table was
\* full and another key came.
LeavesForAReason ==
  \A k \in DOMAIN Entries \ DOMAIN Entries' :
    \/ Entries[k].expiry <= clock
    \/ /\ Cardinality(DOMAIN Entries) = MaxKeys
       /\ DOMAIN Entries' \ DOMAIN Entries # {}

\* Landings are applied in another order than their times, so a list need not
\* be in expiry order.  When a sweep ends, an expired entry is left only
\* where an unexpired one is behind it in its list.
SweepLeavesOnlyShadowed ==
  sweeper = "sweeping" /\ sweeper' # "sweeping" =>
    \A d \in Retentions : \A i \in DOMAIN table'.lists[d] :
      Entries'[table'.lists[d][i]].expiry <= clock =>
        \E j \in i + 1 .. Len(table'.lists[d]) : Entries'[table'.lists[d][j]].expiry > clock

\* The map, the lists by retention window and the counts are three views of
\* the same entries, at most MaxKeys of them, after every insert, touch,
\* eviction and chunk of a sweep.
TableConsistent == TableTypeOK /\ CountsMatchTable /\ ListedWhereItExpires

\* Expiry takes what it should: no entry goes without a reason, and a sweep
\* leaves no expired entry that it could have reached (Sweep, evictLocked).
SweepSound == [][LeavesForAReason /\ SweepLeavesOnlyShadowed]_tableVars
=============================================================================
