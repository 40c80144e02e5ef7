-------------------------- MODULE OverloadMetrics --------------------------
(***************************************************************************)
(* The metrics poller of one backend and the overload state that routing   *)
(* reads (manager/metrics.go, enclaveMetrics.tier in                       *)
(* manager/routing_tiers.go, OverloadConfig in config/config.go).          *)
(*                                                                         *)
(* The poller goroutine scrapes, publishes and applies samples; reloads    *)
(* and the enclave's shutdown cancel it and wait for it, under the model's *)
(* lock, so one of them runs at a time.  A policy is a record              *)
(* [waiting, clear, running] of limits (max_requests_waiting,              *)
(* clear_requests_waiting, soft_max_requests_running); which policies the  *)
(* backend tracks comes from the reservations.                             *)
(***************************************************************************)
EXTENDS Reservations, FiniteSets

CONSTANTS
  Host,        \* the backend
  Configs,     \* configurations a reload may load
  MaxWaiting, MaxRunning,  \* bounds: request counts explored
  MaxSamples   \* bound: samples applied

ASSUME MetricsAssumption == MaxWaiting \in Nat /\ MaxRunning \in Nat /\ MaxSamples \in Nat

VARIABLES
  config,          \* the model's configuration
  nativePolicy,
  queueOverloads,  \* tracked marks -> tripped
  requiresRunning,
  latest,          \* latestCounts
  age,             \* of latestCollected: "none" (zero time), "fresh", "stale"
  poller,          \* the goroutine: "off", "idle", "fetching", "parsed"
  scraped,         \* its sample in hand
  cancelled,       \* its context
  control,         \* "idle", "setting" or "stopping" (waiting), "gone"
  gauges,          \* series published for the host
  balance,         \* OverloadEventsTotal - RecoveryEventsTotal
  samples, since   \* history: samples applied; the first one each marks saw

state    == <<nativePolicy, queueOverloads, requiresRunning>>
sample   == <<latest, age>>
history  == <<samples, since>>
metricsVars == <<config, state, sample, poller, scraped, cancelled, control,
                 gauges, balance, history>>

Absent == -1
Counts == [waiting : {Absent} \cup 0 .. MaxWaiting, running : {Absent} \cup 0 .. MaxRunning]
NoCounts == [waiting |-> Absent, running |-> Absent]

-----------------------------------------------------------------------------
(***************************************************************************)
(* Policies.                                                               *)
(***************************************************************************)
Enabled(p) == p # NilPolicy /\ (p.waiting > 0 \/ p.running > 0)

\* Mutation: an omitted clear mark means the trip mark.
MutMarks(p) ==
  [trip |-> p.waiting, clear |-> IF p.clear <= 0 THEN p.waiting ELSE p.clear]

\* The clear mark defaults to half the trip mark, rounded down, also when it is
\* not below it.
Marks(p) ==
  [trip |-> p.waiting,
   clear |-> IF p.clear <= 0 \/ p.clear >= p.waiting THEN p.waiting \div 2
             ELSE p.clear]

\* Mutation: no recovery state, the trip mark alone decides.
MutMarksOverloaded(m, waiting, previous) == waiting >= m.trip

MarksOverloaded(m, waiting, previous) ==
  waiting >= m.trip \/ (previous /\ waiting > m.clear)

Tripped(m) == m \in DOMAIN queueOverloads /\ queueOverloads[m]

QueueOverloaded(p) == p # NilPolicy /\ p.waiting > 0 /\ Tripped(Marks(p))

Supports(counts, p) ==
  Enabled(p) /\ counts.waiting # Absent /\ (p.running <= 0 \/ counts.running # Absent)

\* enclaveMetrics.tier: 0 preferred, 1 busy, 2 unknown, 3 overloaded.
Tier(p) ==
  IF ~Enabled(p) THEN 0
  ELSE IF age # "fresh" \/ ~Supports(latest, p) THEN 2
  ELSE IF p.waiting > 0 /\ MarksOverloaded(Marks(p), latest.waiting, Tripped(Marks(p))) THEN 3
  ELSE IF latest.waiting = 0 /\ (p.running <= 0 \/ latest.running < p.running) THEN 0
  ELSE 1

\* The policies of the callers that may be sent to the host.
CallerPolicies(c) ==
  {pools.policy : pools \in
     {q \in {ReservationPools(c, org, {Host}) : org \in OrgsOf(c) \cup {NoOrg}} :
        Host \in q.primary \cup q.spill}}

CallerMarks(c) == {Marks(p) : p \in {q \in CallerPolicies(c) : Enabled(q) /\ q.waiting > 0}}

\* spillPoliciesLocked: every enabled reservation policy, on a shared host.
SpillPolicies(c) ==
  IF HasReservations(c) /\ Host \in Shared(c)
  THEN {p \in {PolicyFor(c, org) : org \in {o \in OrgsOf(c) : ReservedFor(c, o) # {}}} :
          Enabled(p)}
  ELSE {}

-----------------------------------------------------------------------------
MetricsInit ==
  /\ config \in Configs
  /\ nativePolicy = NilPolicy
  /\ queueOverloads = << >>
  /\ requiresRunning = FALSE
  /\ latest = NoCounts /\ age = "none"
  /\ poller = "off" /\ scraped = NoCounts /\ cancelled = FALSE
  /\ control = "setting"
  /\ gauges = {}
  /\ balance = 0
  /\ samples = << >> /\ since = << >>

(***************************************************************************)
(* The poller.  A scrape started after the cancellation fails at once and  *)
(* changes nothing, so it is left out.                                     *)
(***************************************************************************)
Scrape ==
  /\ poller = "idle" /\ ~cancelled
  /\ poller' = "fetching"
  /\ UNCHANGED <<config, state, sample, scraped, cancelled, control, gauges, balance, history>>

\* A failed request, a status other than 200, an invalid count.
ScrapeFails ==
  /\ poller = "fetching"
  /\ poller' = "idle"
  /\ UNCHANGED <<config, state, sample, scraped, cancelled, control, gauges, balance, history>>

ScrapeParsed ==
  /\ poller = "fetching" /\ Len(samples) < MaxSamples
  /\ \E counts \in Counts :
       /\ scraped' = counts
       /\ gauges' = (gauges \ {"depth", "running"})
                    \cup {g \in {"depth"} : counts.waiting # Absent}
                    \cup {g \in {"running"} : counts.running # Absent}
  /\ poller' = "parsed"
  /\ UNCHANGED <<config, state, sample, cancelled, control, balance, history>>

\* publishOverloadLocked, given the native state before and after: an event is
\* counted when it changed.
Publish(was, is) ==
  balance' = balance + (IF is /\ ~was THEN 1 ELSE IF ~is /\ was THEN -1 ELSE 0)

SupportsSample ==
  scraped.waiting # Absent /\ (~requiresRunning \/ scraped.running # Absent)

\* supportsSample, then updateLatest.
UpdateLatest ==
  /\ poller = "parsed"
  /\ poller' = "idle"
  /\ UNCHANGED <<config, nativePolicy, requiresRunning, cancelled, control, since>>
  /\ IF SupportsSample
     THEN /\ latest' = scraped /\ age' = "fresh"
          /\ queueOverloads' = [m \in DOMAIN queueOverloads |->
                                  MarksOverloaded(m, scraped.waiting, queueOverloads[m])]
          /\ Publish(QueueOverloaded(nativePolicy), QueueOverloaded(nativePolicy)')
          /\ gauges' = gauges \cup {"overloaded"}
          /\ samples' = Append(samples, scraped.waiting)
     ELSE UNCHANGED <<sample, queueOverloads, balance, gauges, samples>>
  /\ scraped' = NoCounts

\* Mutation: the goroutine does not watch its context.
MutExit == FALSE /\ UNCHANGED metricsVars

Exit ==
  /\ poller = "idle" /\ cancelled
  /\ poller' = "off"
  /\ UNCHANGED <<config, state, sample, scraped, cancelled, control, gauges, balance, history>>

Expire ==
  /\ age = "fresh"
  /\ age' = "stale"
  /\ UNCHANGED <<config, state, latest, poller, scraped, cancelled, control, gauges, balance, history>>

(***************************************************************************)
(* Reload and shutdown.                                                    *)
(***************************************************************************)
\* setPolicies cancels the poller and waits for it.
SetPolicies ==
  /\ control = "idle"
  /\ config' \in Configs
  /\ control' = "setting" /\ cancelled' = TRUE
  /\ UNCHANGED <<state, sample, poller, scraped, gauges, balance, history>>

\* configurePolicies; the initial scrape follows when any policy is enabled.
Configure ==
  LET native   == PolicyOfHost(config, Host)
      policies == {p \in {native} \cup SpillPolicies(config) : Enabled(p)}
      marks    == {Marks(p) : p \in {q \in policies : q.waiting > 0}}
      fresh    == age = "fresh" /\ latest.waiting # Absent
      poll     == policies # {}
  IN
  /\ control = "setting" /\ poller = "off"
  /\ nativePolicy' = native
  /\ requiresRunning' = \E p \in policies : p.running > 0
  /\ queueOverloads' = [m \in marks |-> IF fresh THEN MarksOverloaded(m, latest.waiting, Tripped(m))
                                        ELSE Tripped(m)]
  /\ IF poll THEN UNCHANGED sample ELSE latest' = NoCounts /\ age' = "none"
  /\ gauges' = (IF poll THEN gauges ELSE gauges \ {"depth", "running"}) \cup {"overloaded"}
  /\ Publish(QueueOverloaded(nativePolicy), QueueOverloaded(nativePolicy)')
  /\ since' = [m \in CallerMarks(config) |->
                  IF m \in DOMAIN since THEN since[m]
                  ELSE IF fresh THEN Len(samples) ELSE Len(samples) + 1]
  /\ poller' = IF poll THEN "fetching" ELSE "off"
  /\ cancelled' = FALSE /\ control' = "idle"
  /\ UNCHANGED <<config, scraped, samples>>

\* Enclave.shutdown cancels the poller and waits for it.
Shutdown ==
  /\ control = "idle"
  /\ control' = "stopping" /\ cancelled' = TRUE
  /\ UNCHANGED <<config, state, sample, poller, scraped, gauges, balance, history>>

\* Mutation: the poller is cancelled but not awaited.
MutDeleteGauges ==
  /\ control = "stopping"
  /\ control' = "gone"
  /\ gauges' = {}
  /\ UNCHANGED <<config, state, sample, poller, scraped, cancelled, balance, history>>

DeleteGauges ==
  /\ control = "stopping" /\ poller = "off"
  /\ control' = "gone"
  /\ gauges' = {}
  /\ UNCHANGED <<config, state, sample, poller, scraped, cancelled, balance, history>>

MetricsNext ==
  \/ Scrape \/ ScrapeFails \/ ScrapeParsed \/ UpdateLatest \/ Exit \/ Expire
  \/ SetPolicies \/ Configure \/ Shutdown \/ DeleteGauges

MetricsSpec == MetricsInit /\ [][MetricsNext]_metricsVars

\* A scrape ends within the client's timeout; the goroutines keep running.
MetricsFairSpec ==
  /\ MetricsSpec
  /\ WF_metricsVars(ScrapeFails \/ ScrapeParsed) /\ WF_metricsVars(UpdateLatest) /\ WF_metricsVars(Exit)
  /\ WF_metricsVars(Configure) /\ WF_metricsVars(DeleteGauges)

-----------------------------------------------------------------------------
MetricsTypeOK ==
  /\ config \in Configs
  /\ DOMAIN queueOverloads \subseteq [trip : Nat, clear : Nat]
  /\ \A m \in DOMAIN queueOverloads : queueOverloads[m] \in BOOLEAN
  /\ requiresRunning \in BOOLEAN
  /\ latest \in Counts /\ scraped \in Counts
  /\ age \in {"none", "fresh", "stale"}
  /\ age # "none" => latest.waiting # Absent
  /\ poller \in {"off", "idle", "fetching", "parsed"}
  /\ cancelled \in BOOLEAN
  /\ control \in {"idle", "setting", "stopping", "gone"}
  /\ gauges \subseteq {"depth", "running", "overloaded"}
  /\ balance \in Int

\* Some sample since the marks came into use reached the trip mark, and every
\* later one stayed above the clear mark.
NotRecovered(m) ==
  \E i \in since[m] .. Len(samples) :
    /\ i > 0 /\ samples[i] >= m.trip
    /\ \A j \in i + 1 .. Len(samples) : samples[j] > m.clear

(***************************************************************************)
(* Overload under the caller's own policy is hysteresis over the samples,  *)
(* across reloads, stale periods and incomplete scrapes: a fresh backend   *)
(* is in the overloaded tier exactly when the queue reached the caller's   *)
(* trip mark and has not come down to the caller's clear mark since        *)
(* (docs/routing.md: "Queue overload clears at clear_requests_waiting").   *)
(***************************************************************************)
CallersSeeHysteresis ==
  control \in {"idle", "stopping"} =>
    \A p \in CallerPolicies(config) :
      (Tier(p) # 2 /\ Enabled(p) /\ p.waiting > 0) =>
        (Tier(p) = 3) = NotRecovered(Marks(p))

(***************************************************************************)
(* Overload and recovery events alternate: whatever reloads change the     *)
(* native policy in between, the counters differ by one exactly while the  *)
(* native policy's queue guard is tripped (publishOverloadLocked).         *)
(***************************************************************************)
EventsAlternate == balance = IF QueueOverloaded(nativePolicy) THEN 1 ELSE 0

(***************************************************************************)
(* A removed backend leaves no gauge behind: the poller that was scraping  *)
(* when shutdown began cannot publish one again (Enclave.shutdown).        *)
(***************************************************************************)
NoGaugeLeftBehind == control = "gone" => gauges = {}

(***************************************************************************)
(* A reload or a shutdown, which waits for the poller while it holds the   *)
(* model's lock, gets through.                                             *)
(***************************************************************************)
WaitEnds == (control \in {"setting", "stopping"}) ~> (control \in {"idle", "gone"})

(***************************************************************************)
(* The overload state callers are routed by and the one that is counted    *)
(* are both the hysteresis of their policy's marks (recordSample,          *)
(* configure, publishOverloadLocked).                                      *)
(***************************************************************************)
HysteresisKept == MetricsTypeOK /\ CallersSeeHysteresis /\ EventsAlternate
=============================================================================
