---------------------------- MODULE RouteContext ----------------------------
(***************************************************************************)
(* The route-context client and its cache (route_context.go and            *)
(* route_context_cache.go): the control plane's verdict on a credential    *)
(* and a model is served from a bounded LRU cache while at most            *)
(* MaxRefreshes lookups run in the background and finish in any order.     *)
(*                                                                         *)
(* A key is <<credential, model>>; the model NoModel is the metadata entry *)
(* of the credential.  A cached verdict is a record                        *)
(*   org          the organization, NoOrg when the context is empty        *)
(*   decision     RateLimit.Decision, "none" when RateLimit is nil         *)
(*   err          a credential denial                                      *)
(*   refreshedAt  when it was put, Never for the zero time                 *)
(*   observedAt   RateLimit.observedAt, from which a rejection counts down *)
(*   asOf, asked  history: sequence and start of the lookup that answered  *)
(* Every lock section of the code is one step; a background lookup is a    *)
(* task that runs between two of them.                                     *)
(***************************************************************************)
EXTENDS Integers, Sequences, FiniteSets, FiniteSetsExt

CONSTANTS
  Creds, Models, Orgs, NoModel, NoOrg, Missing,
  MaxBytes,      \* routeContextCacheMaxBytes
  MaxRefreshes,  \* routeContextMaxRefreshes
  TTL,           \* routeMetadataRefreshTTL
  RetryAfter,    \* retry_after_seconds of a rejection
  MaxSequence,   \* bound: lookups explored
  MaxTime        \* bound: time explored

ASSUME RouteContextAssumption ==
  /\ MaxBytes \in Nat /\ MaxRefreshes \in Nat \ {0}
  /\ TTL \in Nat \ {0} /\ RetryAfter \in Nat \ {0}
  /\ MaxSequence \in Nat /\ MaxTime \in Nat
  /\ NoModel \notin Models /\ NoOrg \notin Orgs

VARIABLES
  cache,            \* entries: key -> entry, or Missing
  lru,              \* keys, most recently used first
  bytes,            \* c.bytes
  evictedSequence,
  sequence,         \* the client's lookup counter
  tasks,            \* lookups in flight; each holds a refresh slot
  waiting,          \* credentials whose Metadata call waits for its refresh
  now,
  newest            \* history: per key, the newest sequence ever cached

store == <<cache, lru, bytes, evictedSequence, newest>>
vars  == <<store, sequence, tasks, waiting, now>>

Keys == Creds \X (Models \cup {NoModel})
Never == -1

Verdicts ==
  [org : Orgs \cup {NoOrg}, decision : {"none", "allowed", "rejected"},
   err : BOOLEAN, refreshedAt : Nat \cup {Never}, observedAt : Nat \cup {Never},
   asOf : Nat, asked : Nat]

Empty == [org |-> NoOrg, decision |-> "none", err |-> FALSE,
          refreshedAt |-> Never, observedAt |-> Never, asOf |-> 0, asked |-> 0]

Entries == [verdict : Verdicts, sequence : Nat, bytes : Nat]

ASSUME MissingAssumption == Missing \notin Entries

Tasks == [cred : Creds, model : Models \cup {NoModel}, sequence : Nat,
          started : Nat, previous : Verdicts,
          stage : {"fetch", "second"}, answer : Verdicts]

TypeOK ==
  /\ cache \in [Keys -> Entries \cup {Missing}]
  /\ lru \in Seq(Keys)
  /\ bytes \in 0 .. MaxBytes
  /\ evictedSequence \in Nat
  /\ sequence \in Nat
  /\ tasks \subseteq Tasks
  /\ waiting \subseteq Creds
  /\ now \in Nat
  /\ newest \in [Keys -> Nat]

Init ==
  /\ cache = [k \in Keys |-> Missing]
  /\ lru = << >>
  /\ bytes = 0
  /\ evictedSequence = 0
  /\ sequence = 0
  /\ tasks = {}
  /\ waiting = {}
  /\ now = 0
  /\ newest = [k \in Keys |-> 0]

-----------------------------------------------------------------------------
(***************************************************************************)
(* The cache.                                                              *)
(***************************************************************************)
Cached(k) == cache[k] # Missing

\* A denial carries an error body, a decision its reason.
Size(v) == IF v.err \/ v.decision # "none" THEN 2 ELSE 1

\* list.Remove: the list closes over the key's element, if it has one.
Without(k) ==
  IF k \notin Range(lru) THEN lru
  ELSE LET p == CHOOSE i \in DOMAIN lru : lru[i] = k
       IN  [i \in 1 .. Len(lru) - 1 |-> lru[IF i < p THEN i ELSE i + 1]]

\* get moves the entry to the front.
Touch(k) == lru' = IF Cached(k) THEN <<k>> \o Without(k) ELSE lru

\* get's view of the entry: an elapsed rejection is dropped.
Get(k) ==
  IF ~Cached(k) THEN Empty
  ELSE LET v == cache[k].verdict
       IN  IF v.decision = "rejected" /\ RetryAfter - (now - v.observedAt) <= 0
           THEN [v EXCEPT !.decision = "none"] ELSE v

\* The bytes the entries of the keys S hold, one pair <<key, offset>> for each.
\* No entry is larger than the cache, so the offsets are those of the cache.
BytesOf(S) == Cardinality({b \in S \X (1 .. MaxBytes) : b[2] <= cache[b[1]].bytes})

\* What the eviction loop drops from the tail of rest when it keeps n keys.
Beyond(rest, n) == {rest[i] : i \in n + 1 .. Len(rest)}

\* How many it keeps, given the bytes in use before it: as many as leave room.
\* A loop that has nothing left to drop would panic; CacheBalanced and the
\* bound on bytes show that it always finds room before.
Kept(rest, used, size) ==
  Max({0} \cup {n \in 1 .. Len(rest) : used - BytesOf(Beyond(rest, n)) + size <= MaxBytes})

\* Mutation: a missing key takes any result.
MutRefused(k, v, s) ==
  \/ Size(v) > MaxBytes
  \/ Cached(k) /\ s < cache[k].sequence

\* put's early returns.
Refused(k, v, s) ==
  \/ Size(v) > MaxBytes
  \/ Cached(k) /\ s < cache[k].sequence
  \/ ~Cached(k) /\ s <= evictedSequence

\* Mutation: a replaced entry's element stays in the list.
MutPut(k, v, s) ==
  IF Refused(k, v, s) THEN UNCHANGED store
  ELSE LET rest == lru
           used == IF Cached(k) THEN bytes - cache[k].bytes ELSE bytes
           kept == Kept(rest, used, Size(v))
           out  == Beyond(rest, kept)
       IN  /\ cache' = [j \in Keys |->
                          IF j = k THEN [verdict |-> v, sequence |-> s, bytes |-> Size(v)]
                          ELSE IF j \in out THEN Missing ELSE cache[j]]
           /\ lru' = <<k>> \o SubSeq(rest, 1, kept)
           /\ bytes' = used - BytesOf(out) + Size(v)
           /\ evictedSequence' = Max({evictedSequence} \cup {cache[j].sequence : j \in out})
           /\ newest' = [newest EXCEPT ![k] = Max({@, s})]

Put(k, v, s) ==
  IF Refused(k, v, s) THEN UNCHANGED store
  ELSE LET rest == Without(k)
           used == IF Cached(k) THEN bytes - cache[k].bytes ELSE bytes
           kept == Kept(rest, used, Size(v))
           out  == Beyond(rest, kept)
       IN  /\ cache' = [j \in Keys |->
                          IF j = k THEN [verdict |-> v, sequence |-> s, bytes |-> Size(v)]
                          ELSE IF j \in out THEN Missing ELSE cache[j]]
           /\ lru' = <<k>> \o SubSeq(rest, 1, kept)
           /\ bytes' = used - BytesOf(out) + Size(v)
           /\ evictedSequence' = Max({evictedSequence} \cup {cache[j].sequence : j \in out})
           /\ newest' = [newest EXCEPT ![k] = Max({@, s})]

-----------------------------------------------------------------------------
(***************************************************************************)
(* The client.                                                             *)
(***************************************************************************)
SlotFree == Cardinality(tasks) < MaxRefreshes

Start(c, m, previous) ==
  /\ sequence' = sequence + 1
  /\ tasks' = tasks \cup
       {[cred |-> c, model |-> m, sequence |-> sequence + 1, started |-> now,
         previous |-> previous, stage |-> "fetch", answer |-> Empty]}

\* Lookup: answer from the cache and try to start a refresh; when no slot is
\* free the refresh is skipped.
Lookup(c, m) ==
  /\ sequence < MaxSequence
  /\ Touch(<<c, m>>)
  /\ IF SlotFree THEN Start(c, m, Empty) ELSE UNCHANGED <<sequence, tasks>>
  /\ UNCHANGED <<cache, bytes, evictedSequence, newest, waiting, now>>

Fresh(v) == v.refreshedAt # Never /\ now - v.refreshedAt < TTL

\* Metadata: a fresh entry answers; otherwise one refresh per credential runs,
\* unless no slot is free, and a caller without any entry waits for it.
Metadata(c) ==
  LET k == <<c, NoModel>>
      starts == /\ ~Fresh(Get(k))
                /\ ~ \E t \in tasks : t.cred = c /\ t.model = NoModel
                /\ SlotFree
  IN  /\ sequence < MaxSequence
      /\ Touch(k)
      /\ IF starts THEN Start(c, NoModel, Get(k)) ELSE UNCHANGED <<sequence, tasks>>
      /\ waiting' = IF Get(k).refreshedAt = Never THEN waiting \cup {c} ELSE waiting
      /\ UNCHANGED <<cache, bytes, evictedSequence, newest, now>>

\* The waiting call reads the entry when the refresh is over, or gives up
\* when its client does.
MetadataReturns(c) ==
  /\ c \in waiting
  /\ waiting' = waiting \ {c}
  /\ \/ /\ ~ \E t \in tasks : t.cred = c /\ t.model = NoModel
        /\ Touch(<<c, NoModel>>)
     \/ UNCHANGED lru
  /\ UNCHANGED <<cache, bytes, evictedSequence, newest, sequence, tasks, now>>

\* Mutation: the countdown starts when the answer arrives.
MutAnswer(t, o, d) ==
  [Empty EXCEPT !.org = o, !.decision = d, !.observedAt = now,
                !.refreshedAt = now, !.asOf = t.sequence, !.asked = t.started]

\* fetch's answer about an organization.
Answer(t, o, d) ==
  [Empty EXCEPT !.org = o, !.decision = d, !.observedAt = t.started,
                !.refreshedAt = now, !.asOf = t.sequence, !.asked = t.started]

Ended(t) == tasks' = tasks \ {t}

\* A lookup the control plane did not answer leaves the cache alone.
RefreshUnavailable(t) ==
  /\ t.stage = "fetch" /\ t.model # NoModel
  /\ Ended(t)
  /\ UNCHANGED <<store, sequence, waiting, now>>

RefreshDenied(t) ==
  /\ t.stage = "fetch" /\ t.model # NoModel
  /\ Put(<<t.cred, t.model>>,
         [Empty EXCEPT !.err = TRUE, !.refreshedAt = now, !.asOf = t.sequence],
         t.sequence)
  /\ Ended(t)
  /\ UNCHANGED <<sequence, waiting, now>>

\* The first of two puts; the second, of the metadata entry, is a lock section
\* of its own.
RefreshAnswered(t) ==
  /\ t.stage = "fetch" /\ t.model # NoModel
  /\ \E o \in Orgs \cup {NoOrg}, d \in {"allowed", "rejected"} :
       /\ Put(<<t.cred, t.model>>, Answer(t, o, d), t.sequence)
       /\ tasks' = (tasks \ {t}) \cup
                     {[t EXCEPT !.stage = "second", !.answer = Answer(t, o, "none")]}
  /\ UNCHANGED <<sequence, waiting, now>>

RefreshMetadata(t) ==
  /\ t.stage = "second"
  /\ Put(<<t.cred, NoModel>>, t.answer, t.sequence)
  /\ Ended(t)
  /\ UNCHANGED <<sequence, waiting, now>>

\* A denial discards the old identity.
MetadataDenied(t) ==
  /\ t.stage = "fetch" /\ t.model = NoModel
  /\ Put(<<t.cred, NoModel>>, [Empty EXCEPT !.asOf = t.sequence], t.sequence)
  /\ Ended(t)
  /\ UNCHANGED <<sequence, waiting, now>>

MetadataAnswered(t) ==
  /\ t.stage = "fetch" /\ t.model = NoModel
  /\ \E o \in Orgs \cup {NoOrg} :
       Put(<<t.cred, NoModel>>, Answer(t, o, "none"), t.sequence)
  /\ Ended(t)
  /\ UNCHANGED <<sequence, waiting, now>>

\* No answer: the context read before the fetch, if there was one, is put
\* again under the new sequence and time.
MetadataUnavailable(t) ==
  /\ t.stage = "fetch" /\ t.model = NoModel
  /\ IF t.previous.refreshedAt # Never
     THEN Put(<<t.cred, NoModel>>,
              [t.previous EXCEPT !.refreshedAt = now, !.decision = "none"], t.sequence)
     ELSE UNCHANGED store
  /\ Ended(t)
  /\ UNCHANGED <<sequence, waiting, now>>

Tick ==
  /\ now < MaxTime
  /\ now' = now + 1
  /\ UNCHANGED <<store, sequence, waiting, tasks>>

Finish(t) ==
  \/ RefreshUnavailable(t) \/ RefreshDenied(t) \/ RefreshAnswered(t)
  \/ RefreshMetadata(t)
  \/ MetadataDenied(t) \/ MetadataAnswered(t) \/ MetadataUnavailable(t)

Next ==
  \/ \E c \in Creds : Metadata(c) \/ MetadataReturns(c) \/ \E m \in Models : Lookup(c, m)
  \/ \E t \in tasks : Finish(t)
  \/ Tick

Spec == Init /\ [][Next]_vars

-----------------------------------------------------------------------------
\* The recency list holds each cached key once.
RecencyExact ==
  /\ Range(lru) = {k \in Keys : Cached(k)}
  /\ Len(lru) = Cardinality({k \in Keys : Cached(k)})

(***************************************************************************)
(* The cache's books balance: the recency list holds each cached key once, *)
(* bytes is the sum of the cached entries, so the eviction loop never      *)
(* looks for a victim in an empty list (routeContextCache.put).            *)
(***************************************************************************)
CacheBalanced == RecencyExact /\ bytes = BytesOf({k \in Keys : Cached(k)})

(***************************************************************************)
(* A result never comes back from the dead: whatever the order in which    *)
(* lookups finish, and even if the newer result has been evicted since, a  *)
(* key never holds a result older than one it held before                  *)
(* (evictedSequence).                                                      *)
(***************************************************************************)
NewestWins == \A k \in Keys : Cached(k) => cache[k].sequence = newest[k]

(***************************************************************************)
(* Background lookups are bounded whatever the request rate.               *)
(***************************************************************************)
RefreshesBounded == Cardinality(tasks) <= MaxRefreshes

(***************************************************************************)
(* A rejection is served no longer than the control plane asked, counted   *)
(* from the start of the lookup that brought it: the time the answer took  *)
(* cannot extend it (fetch's startedAt, get's countdown).                  *)
(***************************************************************************)
RejectionNotExtended ==
  \A k \in Keys :
    Get(k).decision = "rejected" => now < cache[k].verdict.asked + RetryAfter

(***************************************************************************)
(* The comment on Lookup: "Unavailable lookups leave the cached verdict    *)
(* unchanged."  No entry turns into another answer when a lookup ends      *)
(* without one.                                                            *)
(***************************************************************************)
UnavailableLeavesVerdict ==
  [][\A t \in tasks : (RefreshUnavailable(t) \/ MetadataUnavailable(t)) =>
       \A k \in Keys : (cache[k] # Missing /\ cache'[k] # Missing) =>
         cache'[k].verdict.asOf = cache[k].verdict.asOf]_vars

(***************************************************************************)
(* Neither store of the route context outgrows its bound: the cache's      *)
(* books balance and the background lookups have their slots               *)
(* (routeContextCache.put, Lookup).                                        *)
(***************************************************************************)
BooksBalance == TypeOK /\ CacheBalanced /\ RefreshesBounded
=============================================================================
