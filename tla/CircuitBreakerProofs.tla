------------------------ MODULE CircuitBreakerProofs ------------------------
(***************************************************************************)
(* Machine-checked proofs about CircuitBreaker, for every set of requests, *)
(* every threshold and every number of claims.                             *)
(*                                                                         *)
(* The second half is about the cache-aware routing table (ShadowTable),   *)
(* which ranks the replicas whose breakers are closed: its three views     *)
(* agree, its decisions are what Decide promises, and a key leaves it for  *)
(* a reason.                                                               *)
(***************************************************************************)
EXTENDS CircuitBreaker, ShadowTable, FiniteSetTheorems, WellFoundedInduction, TLAPS

USE DEF Closed, Open, HalfOpen, Absent

(***************************************************************************)
(* TypeOK is preserved by every step.                                      *)
(***************************************************************************)
LEMMA TypeStep == TypeOK /\ [Next]_vars => TypeOK'
<1> SUFFICES ASSUME TypeOK, [Next]_vars PROVE TypeOK'
  BY Zenon
<1> USE BreakerAssumption DEF TypeOK, States, Points, breaker, locals, series,
        history, At, Goto, Done
<1>1. ASSUME NEW r \in Requests, Dispatch(r) \/ ClaimProbe(r) PROVE TypeOK'
  BY <1>1, Zenon DEF Dispatch, ClaimProbe
<1>2. ASSUME NEW r \in Requests, ClaimCas(r) PROVE TypeOK'
  BY <1>2 DEF ClaimCas
<1>3. ASSUME NEW r \in Requests, ClaimGen(r) PROVE TypeOK'
  BY <1>3 DEF ClaimGen
<1>4. ASSUME NEW r \in Requests, Answer(r) PROVE TypeOK'
  <2>1. CASE RecordSuccess(r)  BY <2>1 DEF RecordSuccess
  <2>2. CASE SuccessState(r)   BY <2>2, Zenon DEF SuccessState
  <2>3. CASE RecordFailure(r)  BY <2>3, ZenonT(30) DEF RecordFailure
  <2>4. CASE FailureAdd(r)     BY <2>4 DEF FailureAdd
  <2>5. CASE FailureOpen(r)    BY <2>5, Zenon DEF FailureOpen
  <2>6. QED  BY <1>4, <2>1, <2>2, <2>3, <2>4, <2>5, Zenon DEF Answer
<1>5. ASSUME NEW r \in Requests, Abort(r) PROVE TypeOK'
  <2>1. CASE Cancel(r)      BY <2>1 DEF Cancel, AbortGen
  <2>2. CASE AbortState(r)  BY <2>2 DEF AbortState
  <2>3. CASE AbortStamp(r)  BY <2>3, ZenonT(30) DEF AbortStamp
  <2>4. CASE AbortCas(r)
    <3>1. CASE state = HalfOpen  BY <2>4, <3>1, Zenon DEF AbortCas
    <3>2. CASE state # HalfOpen  BY <2>4, <3>2 DEF AbortCas
    <3>3. QED  BY <3>1, <3>2, Zenon
  <2>5. QED  BY <1>5, <2>1, <2>2, <2>3, <2>4, Zenon DEF Abort
<1>6. ASSUME NEW r \in Requests, Publish(r) PROVE TypeOK'
  <2>1. CASE PublishLock(r)  BY <2>1 DEF PublishLock, AbortGen
  <2>2. CASE PublishLoad(r)  BY <2>2, Zenon DEF PublishLoad
  <2>3. CASE PublishSet(r)   BY <2>3 DEF PublishSet, AbortGen
  <2>4. QED  BY <1>6, <2>1, <2>2, <2>3, Zenon DEF Publish
<1>7. CASE Retire \/ RetireWait \/ DeleteSeries
  BY <1>7, ZenonT(30) DEF Retire, RetireWait, DeleteSeries
<1>8. CASE Cooldown
  BY <1>8, Zenon DEF Cooldown
<1>9. CASE UNCHANGED vars
  BY <1>9 DEF vars
<1>10. QED
  BY <1>1, <1>2, <1>3, <1>4, <1>5, <1>6, <1>7, <1>8, <1>9, Zenon DEF Next

(***************************************************************************)
(* A new breaker has the types TypeOK asks for (newCircuitBreaker).        *)
(***************************************************************************)
LEMMA TypeInit == Init => TypeOK
<1> SUFFICES ASSUME Init PROVE TypeOK
  BY Zenon
<1>1. cooled \in BOOLEAN /\ retired \in BOOLEAN /\ released \in BOOLEAN
  BY Zenon DEF Init
<1>2. QED
  BY <1>1, BreakerAssumption DEF Init, TypeOK, States, Points

(***************************************************************************)
(* The breaker's variables keep their types: in particular the failure     *)
(* count never leaves 0 .. Threshold.                                      *)
(***************************************************************************)
THEOREM TypeCorrect == Spec => []TypeOK
  BY TypeInit, TypeStep, PTL DEF Spec

-----------------------------------------------------------------------------
(***************************************************************************)
(* Retirement.  The inductive invariant adds to NoSeriesAfterShutdown that *)
(* shutdown starts by setting retired, and that once Retire has had the    *)
(* lock nobody is publishing: a publisher that comes later finds retired.  *)
(***************************************************************************)
SeriesInv ==
  /\ janitor # "active" => retired
  /\ janitor \in {"deleting", "gone"} => \A r \in Requests : pc[r] \notin Holding
  /\ NoSeriesAfterShutdown

(***************************************************************************)
(* A step that leaves the series alone and lets nobody into the publishing *)
(* section keeps SeriesInv.                                                *)
(***************************************************************************)
LEMMA SeriesFrame ==
  ASSUME TypeOK, SeriesInv, NEW r \in Requests, NEW point \in Points,
         point \notin Holding, pc' = [pc EXCEPT ![r] = point],
         UNCHANGED series
  PROVE  SeriesInv'
BY Zenon DEF TypeOK, SeriesInv, NoSeriesAfterShutdown, Holding, Points, series

(***************************************************************************)
(* Every step keeps SeriesInv: whoever holds publishMu keeps Retire from   *)
(* going on to delete the series.                                          *)
(***************************************************************************)
LEMMA SeriesStep == TypeOK /\ SeriesInv /\ [Next]_vars => SeriesInv'
<1> SUFFICES ASSUME TypeOK, SeriesInv, [Next]_vars PROVE SeriesInv'
  BY Zenon
<1>1. ASSUME NEW r \in Requests,
             Dispatch(r) \/ ClaimProbe(r) \/ ClaimCas(r) \/ ClaimGen(r)
      PROVE  SeriesInv'
  BY <1>1, SeriesFrame, Zenon
     DEF Dispatch, ClaimProbe, ClaimCas, ClaimGen, Goto, Done, Points, Holding
<1>2. ASSUME NEW r \in Requests, Answer(r) PROVE SeriesInv'
  BY <1>2, SeriesFrame, Zenon
     DEF Answer, RecordSuccess, SuccessState, RecordFailure, FailureAdd,
         FailureOpen, Goto, Points, Holding
<1>3. ASSUME NEW r \in Requests, Abort(r) PROVE SeriesInv'
  BY <1>3, SeriesFrame, Zenon
     DEF Abort, Cancel, AbortGen, AbortState, AbortStamp, AbortCas, Goto, Done,
         Points, Holding
<1>4. ASSUME NEW r \in Requests, PublishLock(r) PROVE SeriesInv'
  <2>1. CASE retired
    BY <1>4, <2>1, SeriesFrame, Zenon
       DEF PublishLock, AbortGen, Goto, Done, Points, Holding
  <2>2. CASE ~retired
    <3>1. janitor = "active"  BY <2>2, Zenon DEF SeriesInv
    <3>2. UNCHANGED series    BY <1>4, Zenon DEF PublishLock
    <3>3. QED  BY <3>1, <3>2, Zenon DEF SeriesInv, NoSeriesAfterShutdown, series
  <2>3. QED  BY <2>1, <2>2, Zenon
<1>5. ASSUME NEW r \in Requests, PublishLoad(r) \/ PublishSet(r) PROVE SeriesInv'
  <2>1. pc[r] \in Holding
    BY <1>5, Zenon DEF PublishLoad, PublishSet, At, Holding
  <2>2. janitor \notin {"deleting", "gone"}
    BY <2>1, Zenon DEF SeriesInv
  <2>3. janitor' = janitor /\ retired' = retired
    BY <1>5, Zenon DEF PublishLoad, PublishSet, series
  <2>4. QED
    BY <2>2, <2>3, Zenon DEF SeriesInv, NoSeriesAfterShutdown
<1>6. CASE Retire
  BY <1>6, Zenon DEF Retire, SeriesInv, NoSeriesAfterShutdown, TypeOK
<1>7. CASE RetireWait
  BY <1>7, Zenon DEF RetireWait, SeriesInv, NoSeriesAfterShutdown, locals
<1>8. CASE DeleteSeries
  BY <1>8, Zenon DEF DeleteSeries, SeriesInv, NoSeriesAfterShutdown, locals
<1>9. CASE Cooldown
  BY <1>9, Zenon DEF Cooldown, SeriesInv, NoSeriesAfterShutdown, locals, series
<1>10. CASE UNCHANGED vars
  BY <1>10, Zenon DEF vars, SeriesInv, NoSeriesAfterShutdown, locals, series
<1>11. QED
  BY <1>1, <1>2, <1>3, <1>4, <1>5, <1>6, <1>7, <1>8, <1>9, <1>10, Zenon
     DEF Next, Publish

(***************************************************************************)
(* No request brings back the series of an enclave that was shut down:     *)
(* after Enclave.shutdown has deleted it, publishIfActive never sets it.   *)
(***************************************************************************)
THEOREM SeriesStaysDeleted == Spec => []NoSeriesAfterShutdown
<1>1. Init => SeriesInv
  BY Zenon DEF Init, SeriesInv, NoSeriesAfterShutdown, Holding
<1>2. SeriesInv => NoSeriesAfterShutdown
  BY Zenon DEF SeriesInv
<1>3. QED
  BY <1>1, <1>2, TypeInit, TypeStep, SeriesStep, PTL DEF Spec

-----------------------------------------------------------------------------
(***************************************************************************)
(* Claims.  The model's lock lets one request at a time into ClaimProbe,   *)
(* and the one whose CAS won is the owner until its token is drawn.        *)
(***************************************************************************)
InClaim == {"claimCas", "claimGen"}

ClaimInv ==
  /\ \A r \in Requests : pc[r] \in InClaim => token[r] = 0
  /\ \A r \in Requests : pc[r] = "idle" => token[r] = 0
  /\ \A r \in Requests : pc[r] = "claimGen" => owner = r
  /\ \A r, q \in Requests : (pc[r] \in InClaim /\ pc[q] \in InClaim) => r = q
  /\ OwnerMayRelease

(***************************************************************************)
(* A step of r outside ClaimProbe that does not draw a token, and makes    *)
(* nothing half-open, keeps ClaimInv.                                      *)
(***************************************************************************)
LEMMA ClaimFrame ==
  ASSUME TypeOK, ClaimInv, NEW r \in Requests, NEW point \in Points,
         point \notin InClaim, pc' = [pc EXCEPT ![r] = point],
         \/ token' = token /\ point # "idle"
         \/ token' = [token EXCEPT ![r] = 0],
         UNCHANGED <<probeGen, owner>>,
         state' = HalfOpen => state = HalfOpen,
         pc[r] # "claimGen"
  PROVE  ClaimInv'
<1>1. \A q \in Requests : token'[q] \in {token[q], 0}
  BY Zenon DEF TypeOK
<1>2. \A q \in Requests : pc'[q] \in InClaim => pc[q] = pc'[q]
  BY Zenon DEF TypeOK
<1>3. \A q \in Requests : q # r => pc'[q] = pc[q] /\ token'[q] = token[q]
  BY Zenon DEF TypeOK
<1>4. pc'[r] = "idle" => token'[r] = 0
  BY Zenon DEF TypeOK
<1>5. OwnerMayRelease'
  BY <1>1, Zenon DEF ClaimInv, OwnerMayRelease
<1>6. QED
  BY <1>1, <1>2, <1>3, <1>4, <1>5 DEF ClaimInv, InClaim

(***************************************************************************)
(* Every step keeps ClaimInv: the generation grows only under the          *)
(* selection lock, by the request that won the CAS.                        *)
(***************************************************************************)
LEMMA ClaimStep == TypeOK /\ ClaimInv /\ [Next]_vars => ClaimInv'
<1> SUFFICES ASSUME TypeOK, ClaimInv, [Next]_vars PROVE ClaimInv'
  BY Zenon
<1>1. ASSUME NEW r \in Requests, Dispatch(r) PROVE ClaimInv'
  BY <1>1, ClaimFrame, Zenon
     DEF Dispatch, At, Goto, Points, InClaim, breaker, history
<1>2. ASSUME NEW r \in Requests, ClaimProbe(r) PROVE ClaimInv'
  <2>1. \A q \in Requests : pc[q] \notin InClaim
    BY <1>2, Zenon DEF ClaimProbe, SelectionLockFree, InClaim
  <2>2. pc[r] = "idle" /\ pc' = [pc EXCEPT ![r] = "claimCas"]
    BY <1>2, Zenon DEF ClaimProbe, At, Goto
  <2>3. UNCHANGED <<state, probeGen, token, owner>>
    BY <1>2, Zenon DEF ClaimProbe, breaker, history
  <2>4. QED
    BY <2>1, <2>2, <2>3, Zenon DEF ClaimInv, InClaim, OwnerMayRelease, TypeOK
<1>3. ASSUME NEW r \in Requests, ClaimCas(r) PROVE ClaimInv'
  <2>1. CASE state = Open
    <3>1. /\ pc[r] = "claimCas" /\ pc' = [pc EXCEPT ![r] = "claimGen"]
          /\ owner' = r
          /\ UNCHANGED <<probeGen, token>>
      BY <1>3, <2>1, Zenon DEF ClaimCas, At, Goto
    <3>2. \A q \in Requests : pc'[q] \in InClaim => q = r
      BY <3>1, Zenon DEF ClaimInv, InClaim, TypeOK
    <3>3. token[r] = 0
      BY <3>1, Zenon DEF ClaimInv, InClaim
    <3>4. QED
      BY <3>1, <3>2, <3>3, Zenon DEF ClaimInv, InClaim, OwnerMayRelease, TypeOK
  <2>2. CASE state # Open
    BY <1>3, <2>2, ClaimFrame, Zenon
       DEF ClaimCas, At, Done, Points, InClaim, breaker
  <2>3. QED  BY <2>1, <2>2, Zenon
<1>4. ASSUME NEW r \in Requests, ClaimGen(r) PROVE ClaimInv'
  <2>1. /\ pc[r] = "claimGen" /\ pc' = [pc EXCEPT ![r] = "inflight"]
        /\ probeGen' = probeGen + 1
        /\ token' = [token EXCEPT ![r] = probeGen + 1]
        /\ UNCHANGED <<state, owner>>
    BY <1>4, Zenon DEF ClaimGen, At, Goto, history
  <2>2. owner = r
    BY <2>1, Zenon DEF ClaimInv
  <2>3. \A q \in Requests : pc'[q] \notin InClaim
    BY <2>1, Zenon DEF ClaimInv, InClaim, TypeOK
  <2>4. OwnerMayRelease'
    BY <2>1, <2>2, Zenon DEF OwnerMayRelease, TypeOK
  <2>5. \A q \in Requests : pc'[q] = "idle" => token'[q] = 0
    BY <2>1, Zenon DEF ClaimInv, TypeOK
  <2>6. QED
    BY <2>3, <2>4, <2>5, Zenon DEF ClaimInv, InClaim
<1>5. ASSUME NEW r \in Requests, Answer(r) PROVE ClaimInv'
  BY <1>5, ClaimFrame, Zenon
     DEF Answer, RecordSuccess, SuccessState, RecordFailure, FailureAdd,
         FailureOpen, At, Goto, Points, InClaim, history
<1>6. ASSUME NEW r \in Requests, Abort(r) PROVE ClaimInv'
  BY <1>6, ClaimFrame, Zenon
     DEF Abort, Cancel, AbortGen, AbortState, AbortStamp, AbortCas, At, Goto,
         Done, Points, InClaim, breaker, history
<1>7. ASSUME NEW r \in Requests, Publish(r) PROVE ClaimInv'
  BY <1>7, ClaimFrame, Zenon
     DEF Publish, PublishLock, PublishLoad, PublishSet, AbortGen, At, Goto,
         Done, Points, InClaim, breaker, history
<1>8. CASE Retire \/ RetireWait \/ DeleteSeries \/ Cooldown \/ UNCHANGED vars
  <2>1. UNCHANGED <<state, probeGen, pc, token, owner>>
    BY <1>8, Zenon DEF Retire, RetireWait, DeleteSeries, Cooldown, vars, breaker,
                locals, history
  <2>2. QED
    BY <2>1, Zenon DEF ClaimInv, OwnerMayRelease
<1>9. QED
  BY <1>1, <1>2, <1>3, <1>4, <1>5, <1>6, <1>7, <1>8, Zenon DEF Next

(***************************************************************************)
(* The request that made the breaker half-open, and still holds its claim, *)
(* is never refused by AbortProbe's token test.  (The converse, that no    *)
(* other request passes it, does not hold: see OnlyOwnerReleases.)         *)
(***************************************************************************)
THEOREM OwnerNeverRefused == Spec => []OwnerMayRelease
<1>1. Init => ClaimInv
  BY Zenon DEF Init, ClaimInv, InClaim, OwnerMayRelease
<1>2. ClaimInv => OwnerMayRelease
  BY Zenon DEF ClaimInv
<1>3. QED
  BY <1>1, <1>2, TypeInit, TypeStep, ClaimStep, PTL DEF Spec

-----------------------------------------------------------------------------
(***************************************************************************)
(* The cooldown after a released probe.  While the release is recent the   *)
(* stored failure time is recent too, because AbortProbe stores it first;  *)
(* and a claimer past its checks has read a state that nobody but itself   *)
(* can make half-open.                                                     *)
(***************************************************************************)
ReleaseInv ==
  /\ released => ~cooled
  /\ \A r \in Requests : pc[r] = "abortCas" => ~cooled
  /\ \A r \in Requests : pc[r] = "claimCas" => (state # HalfOpen /\ ~released)

(***************************************************************************)
(* A step that changes neither the cooldown nor who is about to swap the   *)
(* state keeps ReleaseInv.                                                 *)
(***************************************************************************)
LEMMA ReleaseFrame ==
  ASSUME TypeOK, ReleaseInv, NEW r \in Requests, NEW point \in Points,
         point \notin {"abortCas", "claimCas"}, pc' = [pc EXCEPT ![r] = point],
         state' = HalfOpen => state = HalfOpen,
         cooled' => cooled, UNCHANGED released
  PROVE  ReleaseInv'
<1>1. \A q \in Requests : pc'[q] \in {"abortCas", "claimCas"} => pc'[q] = pc[q]
  BY Zenon DEF TypeOK
<1>2. QED
  BY <1>1, Zenon DEF ReleaseInv

(***************************************************************************)
(* Every step keeps ReleaseInv: the failure time is renewed before the     *)
(* swap that exposes the open state.                                       *)
(***************************************************************************)
LEMMA ReleaseStep ==
  TypeOK /\ ClaimInv /\ ReleaseInv /\ [Next]_vars => ReleaseInv'
<1> SUFFICES ASSUME TypeOK, ClaimInv, ReleaseInv, [Next]_vars PROVE ReleaseInv'
  BY Zenon
<1>1. ASSUME NEW r \in Requests, Dispatch(r) \/ ClaimGen(r) PROVE ReleaseInv'
  BY <1>1, ReleaseFrame DEF Dispatch, ClaimGen, Goto, Points, breaker, history
<1>2. ASSUME NEW r \in Requests, ClaimProbe(r) PROVE ReleaseInv'
  <2>1. state = Open /\ cooled
    BY <1>2, Zenon DEF ClaimProbe
  <2>2. UNCHANGED <<state, cooled, released>>
    BY <1>2, Zenon DEF ClaimProbe, breaker, history
  <2>3. pc' = [pc EXCEPT ![r] = "claimCas"]
    BY <1>2, Zenon DEF ClaimProbe, Goto
  <2>4. QED
    BY <2>1, <2>2, <2>3, Zenon DEF ReleaseInv, TypeOK
<1>3. ASSUME NEW r \in Requests, ClaimCas(r) PROVE ReleaseInv'
  <2>1. pc[r] = "claimCas" /\ UNCHANGED <<cooled, released>>
    BY <1>3, Zenon DEF ClaimCas, At, breaker
  <2>2. \A q \in Requests : pc'[q] # "claimCas"
    <3>1. \A q \in Requests : pc[q] = "claimCas" => q = r
      BY <2>1, Zenon DEF ClaimInv, InClaim
    <3>2. pc'[r] # "claimCas" /\ \A q \in Requests \ {r} : pc'[q] = pc[q]
      BY <1>3, Zenon DEF ClaimCas, Goto, Done, TypeOK
    <3>3. QED  BY <3>1, <3>2, Zenon
  <2>3. \A q \in Requests : pc'[q] = "abortCas" => pc[q] = "abortCas"
    BY <1>3, Zenon DEF ClaimCas, Goto, Done, TypeOK
  <2>4. QED
    BY <2>1, <2>2, <2>3, Zenon DEF ReleaseInv
<1>4. ASSUME NEW r \in Requests, Answer(r) PROVE ReleaseInv'
  BY <1>4, ReleaseFrame
     DEF Answer, RecordSuccess, SuccessState, RecordFailure, FailureAdd,
         FailureOpen, Goto, Points, history
<1>5. ASSUME NEW r \in Requests, Cancel(r) \/ AbortState(r) PROVE ReleaseInv'
  BY <1>5, ReleaseFrame
     DEF Cancel, AbortGen, AbortState, Goto, Done, Points, breaker, history
<1>6. ASSUME NEW r \in Requests, AbortStamp(r) PROVE ReleaseInv'
  <2>1. ~cooled' /\ UNCHANGED <<state, released>>
    BY <1>6, Zenon DEF AbortStamp, history
  <2>2. \A q \in Requests : pc'[q] = "claimCas" => pc[q] = "claimCas"
    BY <1>6, Zenon DEF AbortStamp, Goto, TypeOK
  <2>3. QED
    BY <2>1, <2>2, Zenon DEF ReleaseInv
<1>7. ASSUME NEW r \in Requests, AbortCas(r) PROVE ReleaseInv'
  <2>1. pc[r] = "abortCas" /\ cooled' = cooled
    BY <1>7, Zenon DEF AbortCas, At, breaker
  <2>2. \A q \in Requests :
          pc'[q] \in {"abortCas", "claimCas"} => pc'[q] = pc[q]
    BY <1>7, Zenon DEF AbortCas, Goto, Done, TypeOK
  <2>3. CASE state = HalfOpen
    <3>1. \A q \in Requests : pc[q] # "claimCas"
      BY <2>3, Zenon DEF ReleaseInv
    <3>2. QED
      BY <2>1, <2>2, <3>1, Zenon DEF ReleaseInv
  <2>4. CASE state # HalfOpen
    <3>1. UNCHANGED <<state, released>>
      BY <1>7, <2>4, Zenon DEF AbortCas, breaker
    <3>2. QED
      BY <2>1, <2>2, <3>1, Zenon DEF ReleaseInv
  <2>5. QED  BY <2>3, <2>4, Zenon
<1>8. ASSUME NEW r \in Requests, Publish(r) PROVE ReleaseInv'
  BY <1>8, ReleaseFrame
     DEF Publish, PublishLock, PublishLoad, PublishSet, AbortGen, Goto, Done,
         Points, breaker, history
<1>9. CASE Retire \/ RetireWait \/ DeleteSeries \/ UNCHANGED vars
  <2>1. UNCHANGED <<state, cooled, pc, released>>
    BY <1>9, Zenon DEF Retire, RetireWait, DeleteSeries, vars, breaker, locals, history
  <2>2. QED
    BY <2>1, Zenon DEF ReleaseInv
<1>10. CASE Cooldown
  <2>1. ~released' /\ UNCHANGED <<state, pc>>
    BY <1>10, Zenon DEF Cooldown, locals
  <2>2. \A q \in Requests : pc[q] # "abortCas"
    BY <1>10, Zenon DEF Cooldown
  <2>3. QED
    BY <2>1, <2>2, Zenon DEF ReleaseInv
<1>11. QED
  BY <1>1, <1>2, <1>3, <1>4, <1>5, <1>6, <1>7, <1>8, <1>9, <1>10, Zenon
     DEF Next, Abort

(***************************************************************************)
(* Only ClaimCas makes an open breaker half-open.                          *)
(***************************************************************************)
LEMMA OnlyClaimHalfOpens ==
  ASSUME TypeOK, [Next]_vars, state = Open, state' = HalfOpen
  PROVE  \E r \in Requests : ClaimCas(r)
<1>1. ASSUME NEW r \in Requests,
             Dispatch(r) \/ ClaimProbe(r) \/ ClaimGen(r) \/ Answer(r)
      PROVE  FALSE
  BY <1>1, Zenon DEF Dispatch, ClaimProbe, ClaimGen, Answer, RecordSuccess,
              SuccessState, RecordFailure, FailureAdd, FailureOpen, breaker
<1>2. ASSUME NEW r \in Requests, Abort(r) \/ Publish(r) PROVE FALSE
  BY <1>2, Zenon DEF Abort, Cancel, AbortState, AbortStamp, AbortCas, Publish,
              PublishLock, PublishLoad, PublishSet, breaker
<1>3. CASE Retire \/ RetireWait \/ DeleteSeries \/ Cooldown \/ UNCHANGED vars
  BY <1>3, Zenon DEF Retire, RetireWait, DeleteSeries, Cooldown, vars, breaker
<1>4. QED
  BY <1>1, <1>2, <1>3, Zenon DEF Next

(***************************************************************************)
(* No probe is claimed within a cooldown of a release: the order of the    *)
(* two stores in AbortProbe is enough for every interleaving.              *)
(***************************************************************************)
THEOREM ReleaseCoolsDown == Spec => CooldownAfterRelease
<1>1. Init => ClaimInv /\ ReleaseInv
  BY Zenon DEF Init, ClaimInv, InClaim, OwnerMayRelease, ReleaseInv
<1>2. TypeOK /\ ReleaseInv /\ [Next]_vars
        => [(state = Open /\ state' = HalfOpen) => ~released]_vars
  <2> SUFFICES ASSUME TypeOK, ReleaseInv, [Next]_vars, state = Open,
                      state' = HalfOpen
               PROVE  ~released
    BY Zenon
  <2>1. PICK r \in Requests : ClaimCas(r)
    BY OnlyClaimHalfOpens, Zenon
  <2>2. QED
    BY <2>1, Zenon DEF ClaimCas, At, ReleaseInv
<1>3. QED
  BY <1>1, <1>2, TypeInit, TypeStep, ClaimStep, ReleaseStep, PTL
     DEF Spec, CooldownAfterRelease

HIDE DEF Closed, Open, HalfOpen, Absent

-----------------------------------------------------------------------------
(***************************************************************************)
(* The cache-aware routing table (ShadowTable), for every set of keys,     *)
(* replicas and scores, any settings and loads, any clock and any bound of *)
(* the table.                                                              *)
(***************************************************************************)

-----------------------------------------------------------------------------
(***************************************************************************)
(* Sorting and filtering.                                                  *)
(***************************************************************************)

\* The interval up to a natural number has that many members.
LEMMA UpTo ==
  ASSUME NEW n \in Nat
  PROVE  IsFiniteSet(1..n) /\ Cardinality(1..n) = n
<1>1. IsFiniteSet(1..n) /\ Cardinality(1..n) = IF 1 > n THEN 0 ELSE n - 1 + 1
  <2>1. n \in Int /\ 1 \in Int
    OBVIOUS
  <2>2. QED
    BY <2>1, FS_Interval, Zenon
<1>2. QED
  BY <1>1

\* Its members are natural numbers.
LEMMA UpToNat == \A n \in Nat : 1..n \subseteq Nat
OBVIOUS

\* A relation that orders the set strictly and totally.
StrictOrder(S, R) ==
  /\ \A x \in S : <<x, x>> \notin R
  /\ \A x, y, z \in S : <<x, y>> \in R /\ <<y, z>> \in R => <<x, z>> \in R
  /\ \A x, y \in S : x # y => <<x, y>> \in R \/ <<y, x>> \in R

\* The sequence visits every member, in the order of R.
Lists(s, S, R) ==
  /\ s \in [1 .. Cardinality(S) -> S]
  /\ \A x \in S : \E i \in 1 .. Cardinality(S) : s[i] = x
  /\ \A i, j \in 1 .. Cardinality(S) : i < j => <<s[i], s[j]>> \in R

\* Placing each member by how many come before it lists the set in order.
LEMMA SortedInOrder ==
  ASSUME NEW S, IsFiniteSet(S), NEW R, StrictOrder(S, R)
  PROVE  Lists(Sorted(S, R), S, R)
<1> DEFINE Ahead(c) == {d \in S : <<d, c>> \in R}
           n == Cardinality(S)
           s == [i \in 1..n |-> CHOOSE c \in S : Cardinality(Ahead(c)) = i - 1]
           Place == [c \in S |-> 1 + Cardinality(Ahead(c))]
<1>0. s = Sorted(S, R)
  BY Zenon DEF Sorted
<1>1. n \in Nat
  BY FS_CardinalityType, Zenon
<1>2. ASSUME NEW c \in S
      PROVE  IsFiniteSet(Ahead(c)) /\ Cardinality(Ahead(c)) \in Nat /\ Cardinality(Ahead(c)) < n
  <2>1. Ahead(c) \in SUBSET S /\ c \notin Ahead(c)
    BY Zenon DEF StrictOrder
  <2>2. /\ IsFiniteSet(Ahead(c)) /\ Cardinality(Ahead(c)) <= n
        /\ n = Cardinality(Ahead(c)) => S = Ahead(c)
    BY <2>1, FS_Subset, Zenon
  <2>3. Cardinality(Ahead(c)) \in Nat
    BY <2>2, FS_CardinalityType, Zenon
  <2>4. S # Ahead(c)
    BY <2>1, Zenon
  <2> HIDE DEF Ahead, n
  <2>5. QED
    BY <1>1, <2>2, <2>3, <2>4
<1>3. ASSUME NEW c \in S, NEW d \in S, <<c, d>> \in R
      PROVE  Cardinality(Ahead(c)) < Cardinality(Ahead(d))
  <2>1. Ahead(c) \subseteq Ahead(d)
    BY <1>3, Zenon DEF StrictOrder
  <2>2. c \in Ahead(d) /\ c \notin Ahead(c)
    BY <1>3, Zenon DEF StrictOrder
  <2>3. /\ Cardinality(Ahead(c)) <= Cardinality(Ahead(d))
        /\ Cardinality(Ahead(d)) = Cardinality(Ahead(c)) => Ahead(d) = Ahead(c)
    BY <1>2, <2>1, FS_Subset, Zenon
  <2>4. Ahead(d) # Ahead(c)
    BY <2>2, Zenon
  <2>5. Cardinality(Ahead(c)) \in Nat /\ Cardinality(Ahead(d)) \in Nat
    BY <1>2, Zenon
  <2> HIDE DEF Ahead
  <2>6. QED
    BY <2>3, <2>4, <2>5
<1>4. ASSUME NEW c \in S, NEW d \in S, c # d
      PROVE  <<c, d>> \in R \/ <<d, c>> \in R
  BY <1>4, Zenon DEF StrictOrder
<1> HIDE DEF Ahead, n
<1>5. ASSUME NEW c \in S, NEW d \in S, Cardinality(Ahead(c)) = Cardinality(Ahead(d))
      PROVE  c = d
  <2>1. Cardinality(Ahead(c)) \in Nat
    BY <1>2, Zenon
  <2>2. ~(Cardinality(Ahead(c)) < Cardinality(Ahead(d)))
        /\ ~(Cardinality(Ahead(d)) < Cardinality(Ahead(c)))
    BY <1>5, <2>1
  <2>3. QED
    BY <1>3, <1>4, <2>2, Zenon
<1>6. \A c \in S : Place[c] \in 1..n /\ Place[c] = 1 + Cardinality(Ahead(c))
                   /\ Cardinality(Ahead(c)) = Place[c] - 1
  BY <1>1, <1>2
<1>7. Place \in [S -> 1..n]
  BY <1>6, Zenon
<1> HIDE DEF Place
<1>8. Place \in Injection(S, 1..n)
  <2>1. ASSUME NEW c \in S, NEW d \in S, Place[c] = Place[d] PROVE c = d
    <3>1. Cardinality(Ahead(c)) = Cardinality(Ahead(d))
      BY <1>6, <2>1, Zenon
    <3>2. QED
      BY <1>5, <3>1, Zenon
  <2>2. QED
    BY <1>7, <2>1, Zenon DEF Injection, IsInjective
<1>9. Place \in Surjection(S, 1..n)
  BY <1>1, <1>8, UpTo, FS_Injection, Zenon DEF n
<1>10. ASSUME NEW i \in 1..n PROVE \E c \in S : Cardinality(Ahead(c)) = i - 1
  <2>1. PICK c \in S : Place[c] = i
    BY <1>9, Zenon DEF Surjection
  <2>2. QED
    BY <1>6, <2>1, Zenon
<1>11. \A i \in 1..n : s[i] \in S /\ Cardinality(Ahead(s[i])) = i - 1
  BY <1>10, Zenon
<1>12. s \in [1..n -> S]
  BY <1>11, Zenon
<1> HIDE DEF s
<1>13. ASSUME NEW x \in S PROVE \E i \in 1..n : s[i] = x
  <2>1. Place[x] \in 1..n /\ Cardinality(Ahead(x)) = Place[x] - 1
    BY <1>6, Zenon
  <2>2. s[Place[x]] \in S /\ Cardinality(Ahead(s[Place[x]])) = Cardinality(Ahead(x))
    BY <1>11, <2>1, Zenon
  <2>3. QED
    BY <1>5, <2>1, <2>2, Zenon
<1>14. ASSUME NEW i \in 1..n, NEW j \in 1..n, i < j PROVE <<s[i], s[j]>> \in R
  <2>1. Cardinality(Ahead(s[i])) = i - 1 /\ Cardinality(Ahead(s[j])) = j - 1
        /\ s[i] \in S /\ s[j] \in S
    BY <1>11, Zenon
  <2>2. Cardinality(Ahead(s[i])) # Cardinality(Ahead(s[j]))
        /\ ~(Cardinality(Ahead(s[j])) < Cardinality(Ahead(s[i])))
    BY <1>1, <1>14, <2>1
  <2>3. s[i] # s[j]
    BY <2>2, Zenon
  <2>4. QED
    BY <1>3, <1>4, <2>1, <2>2, <2>3, Zenon
<1>15. QED
  BY <1>0, <1>12, <1>13, <1>14, Zenon DEF Lists, n

\* A sequence that is a function of 1..n is one of length n.
LEMMA IsSequence ==
  ASSUME NEW n \in Nat, NEW T, NEW s \in [1..n -> T]
  PROVE  s \in Seq(T) /\ Len(s) = n /\ DOMAIN s = 1..n
OBVIOUS

\* What Keep does: the positions of the elements in S, in ascending order.
Filters(k, s, S, place, m) ==
  /\ m \in Nat
  /\ place \in [1..m -> {i \in DOMAIN s : s[i] \in S}]
  /\ \A a \in {i \in DOMAIN s : s[i] \in S} : \E i \in 1..m : place[i] = a
  /\ \A i, j \in 1..m : i < j => place[i] < place[j]
  /\ k = [i \in 1..m |-> s[place[i]]]

\* Keep is such a filter.
LEMMA KeepFilters ==
  ASSUME NEW n \in Nat, NEW s, DOMAIN s = 1..n, NEW S
  PROVE  \E place, m : Filters(Keep(s, S), s, S, place, m)
<1> DEFINE at == {i \in DOMAIN s : s[i] \in S}
           R == {p \in at \X at : p[1] < p[2]}
           m == Cardinality(at)
           place == Sorted(at, R)
<1>1. IsFiniteSet(at) /\ m \in Nat
  <2>1. at \subseteq 1..n
    BY Zenon
  <2>2. IsFiniteSet(at)
    BY <2>1, UpTo, FS_Subset, Zenon
  <2>3. QED
    BY <2>2, FS_CardinalityType, Zenon
<1>2. \A i, j \in at : <<i, j>> \in R <=> i < j
  OBVIOUS
<1>3. at \subseteq Nat
  BY Zenon, UpToNat
<1>4. \A i, j, k \in Nat : ~(i < i) /\ (i < j /\ j < k => i < k) /\ (i # j => i < j \/ j < i)
  OBVIOUS
<1>5. Keep(s, S) = [i \in 1..m |-> s[place[i]]]
  BY Zenon DEF Keep
<1> HIDE DEF at, R
<1>6. StrictOrder(at, R)
  BY <1>2, <1>3, <1>4, Zenon DEF StrictOrder
<1>7. Lists(place, at, R)
  BY <1>1, <1>6, SortedInOrder, Zenon
<1> HIDE DEF place
<1>8. /\ place \in [1..m -> at]
      /\ \A a \in at : \E i \in 1..m : place[i] = a
      /\ \A i, j \in 1..m : i < j => <<place[i], place[j]>> \in R
  BY <1>7, Zenon DEF Lists
<1> HIDE DEF m
<1>9. \A i, j \in 1..m : i < j => place[i] < place[j]
  BY <1>2, <1>8, Zenon
<1>10. Filters(Keep(s, S), s, S, place, m)
  BY <1>1, <1>5, <1>8, <1>9, Zenon DEF Filters, at
<1>11. QED
  BY <1>10, Zenon

\* Keep leaves the elements that are in S, and repeats none.
LEMMA Kept ==
  ASSUME NEW T, NEW s \in Seq(T), NEW S
  PROVE  /\ Keep(s, S) \in Seq(T)
         /\ Range(Keep(s, S)) = Range(s) \cap S
         /\ IsInjective(s) => IsInjective(Keep(s, S))
<1> DEFINE k == Keep(s, S)
<1>1. Len(s) \in Nat /\ DOMAIN s = 1..Len(s) /\ \A i \in DOMAIN s : s[i] \in T
  OBVIOUS
<1>2. PICK place, m : Filters(k, s, S, place, m)
  BY <1>1, KeepFilters, Zenon
<1> HIDE DEF k
<1>3. /\ m \in Nat
      /\ \A i \in 1..m : place[i] \in DOMAIN s /\ s[place[i]] \in S
      /\ \A a \in DOMAIN s : s[a] \in S => \E i \in 1..m : place[i] = a
      /\ \A i, j \in 1..m : i < j => place[i] < place[j]
      /\ k = [i \in 1..m |-> s[place[i]]]
  BY <1>2, Zenon DEF Filters
<1>4. DOMAIN k = 1..m /\ \A i \in 1..m : k[i] = s[place[i]]
  BY <1>3, Zenon
<1>5. k \in Seq(T)
  <2>1. k \in [1..m -> T]
    BY <1>1, <1>3, Zenon
  <2>2. QED
    BY <1>3, <2>1, IsSequence, Zenon
<1>6. Range(k) = Range(s) \cap S
  <2>1. ASSUME NEW x \in Range(k) PROVE x \in Range(s) \cap S
    BY <1>3, <1>4, <2>1, Zenon DEF Range
  <2>2. ASSUME NEW x \in Range(s), x \in S PROVE x \in Range(k)
    <3>1. PICK a \in DOMAIN s : s[a] = x
      BY <2>2, Zenon DEF Range
    <3>2. PICK i \in 1..m : place[i] = a
      BY <1>3, <2>2, <3>1, Zenon
    <3>3. k[i] = x
      BY <1>4, <3>1, <3>2, Zenon
    <3>4. QED
      BY <1>4, <3>3, Zenon DEF Range
  <2>3. QED
    BY <2>1, <2>2, Zenon
<1>7. ASSUME IsInjective(s), NEW i \in DOMAIN k, NEW j \in DOMAIN k, k[i] = k[j]
      PROVE  i = j
  <2>1. i \in 1..m /\ j \in 1..m /\ s[place[i]] = s[place[j]]
    BY <1>4, <1>7, Zenon
  <2>2. place[i] = place[j] /\ place[i] \in Nat
    BY <1>1, <1>3, <1>7, <2>1, UpToNat, Zenon DEF IsInjective
  <2>3. ~(place[i] < place[j]) /\ ~(place[j] < place[i])
    BY <2>2
  <2>4. ~(i < j) /\ ~(j < i)
    BY <1>3, <2>1, <2>3, Zenon
  <2>5. QED
    BY <1>3, <2>1, <2>4
<1>8. QED
  BY <1>5, <1>6, <1>7, Zenon DEF k, IsInjective

-----------------------------------------------------------------------------
(***************************************************************************)
(* The table: what insertions, touches, evictions and records keep.        *)
(***************************************************************************)

\* An entry, whether or not it has a group yet.
Warmth == UNION {[W -> Times] : W \in SUBSET Hosts}

EntryShape ==
  [ lastSeen : Nat, expiry : Nat, warm : Warmth, windowStart : Int, prev : Nat, cur : Nat,
    home : Nat, r : Nat, retention : Retentions ]

Shaped(t) ==
  /\ t = [entries |-> t.entries, lists |-> t.lists, counts |-> t.counts]
  /\ t.entries = [k \in DOMAIN t.entries |-> t.entries[k]]
  /\ DOMAIN t.entries \subseteq Keys /\ IsFiniteSet(DOMAIN t.entries)
  /\ \A k \in DOMAIN t.entries : t.entries[k] \in EntryShape
  /\ t.lists \in [Retentions -> Seq(Keys)]
  /\ t.counts \in [Groups -> Nat]

\* Each list has the keys of its retention, once.
ListedIn(t, d) ==
  /\ IsInjective(t.lists[d])
  /\ Range(t.lists[d]) = {k \in DOMAIN t.entries : t.entries[k].retention = d}

\* The keys of a group.
Members(t, g) == {k \in DOMAIN t.entries : GroupOf(t.entries[k]) = g}

Consistent(t) ==
  /\ Shaped(t)
  /\ \A d \in Retentions : ListedIn(t, d)
  /\ \A g \in Groups : t.counts[g] = Cardinality(Members(t, g))

\* A count that is not negative is not cut off.
LEMMA NotCutOff == \A n \in Nat : Max({0, n}) = n
<1> SUFFICES ASSUME NEW n \in Nat PROVE Max({0, n}) = n
  BY Zenon
<1>1. n \in {0, n} /\ \A y \in {0, n} : n >= y
  OBVIOUS
<1>2. \A x \in {0, n} : (\A y \in {0, n} : x >= y) => x = n
  OBVIOUS
<1>3. QED
  BY <1>1, <1>2, Zenon DEF Max

\* The members of a group are finitely many.
LEMMA MembersFinite ==
  ASSUME NEW t, Shaped(t), NEW g
  PROVE  IsFiniteSet(Members(t, g)) /\ Cardinality(Members(t, g)) \in Nat
<1>1. Members(t, g) \subseteq DOMAIN t.entries /\ IsFiniteSet(DOMAIN t.entries)
  BY Zenon DEF Members, Shaped
<1>2. IsFiniteSet(Members(t, g))
  BY <1>1, FS_Subset, Zenon
<1>3. QED
  BY <1>2, FS_CardinalityType, Zenon

\* evictLocked for some of the keys.
LEMMA EvictConsistent ==
  ASSUME NEW t, Consistent(t), NEW gone \in SUBSET DOMAIN t.entries
  PROVE  /\ Consistent(EvictLocked(t, gone))
         /\ DOMAIN EvictLocked(t, gone).entries = DOMAIN t.entries \ gone
         /\ \A k \in DOMAIN t.entries \ gone : EvictLocked(t, gone).entries[k] = t.entries[k]
<1> DEFINE u == EvictLocked(t, gone)
           Lost(g) == {k \in gone : GroupOf(t.entries[k]) = g}
           D == DOMAIN t.entries \ gone
<1>1. /\ u = [entries |-> u.entries, lists |-> u.lists, counts |-> u.counts]
      /\ u.entries = [k \in D |-> t.entries[k]]
      /\ u.lists = [d \in Retentions |-> Keep(t.lists[d], Keys \ gone)]
      /\ u.counts = [g \in Groups |-> Max({0, t.counts[g] - Cardinality(Lost(g))})]
  BY DEF EvictLocked, Restrict
<1> HIDE DEF u
<1>2. DOMAIN u.entries = D /\ \A k \in D : u.entries[k] = t.entries[k]
  BY <1>1, Zenon
<1>3. Shaped(t)
  BY Zenon DEF Consistent
<1>4. ASSUME NEW g \in Groups
      PROVE  u.counts[g] = Cardinality(Members(u, g)) /\ u.counts[g] \in Nat
  <2>1. IsFiniteSet(Members(t, g)) /\ Cardinality(Members(t, g)) \in Nat
    BY <1>3, MembersFinite, Zenon
  <2>2. Members(u, g) = Members(t, g) \ Lost(g) /\ Members(t, g) \cap Lost(g) = Lost(g)
    <3>1. ASSUME NEW k PROVE k \in Members(u, g) <=> k \in Members(t, g) /\ k \notin Lost(g)
      <4>1. k \in Members(u, g) <=> k \in D /\ GroupOf(u.entries[k]) = g
        BY <1>2, Zenon DEF Members
      <4>2. k \in D => GroupOf(u.entries[k]) = GroupOf(t.entries[k])
        BY <1>2, Zenon
      <4>3. QED
        BY <4>1, <4>2, Zenon DEF Members
    <3>2. Lost(g) \subseteq Members(t, g)
      BY Zenon DEF Members
    <3> HIDE DEF Lost
    <3>3. QED
      BY <3>1, <3>2, Zenon
  <2> HIDE DEF Lost
  <2>3. /\ IsFiniteSet(Members(u, g))
        /\ Cardinality(Members(u, g)) = Cardinality(Members(t, g)) - Cardinality(Lost(g))
    <3>1. /\ IsFiniteSet(Members(t, g) \ Lost(g))
          /\ Cardinality(Members(t, g) \ Lost(g))
               = Cardinality(Members(t, g)) - Cardinality(Members(t, g) \cap Lost(g))
      BY <2>1, FS_Difference, Zenon
    <3>2. QED
      BY <2>2, <3>1, Zenon
  <2>4. Cardinality(Members(u, g)) \in Nat
    BY <2>3, FS_CardinalityType, Zenon
  <2>5. t.counts[g] = Cardinality(Members(t, g))
    BY Zenon DEF Consistent
  <2>6. u.counts[g] = Max({0, Cardinality(Members(u, g))})
    <3>1. u.counts[g] = Max({0, t.counts[g] - Cardinality(Lost(g))})
      BY <1>1, Zenon
    <3>2. t.counts[g] - Cardinality(Lost(g)) = Cardinality(Members(u, g))
      BY <2>3, <2>5, Zenon
    <3>3. QED
      BY <3>1, <3>2, Zenon
  <2>7. QED
    BY <2>4, <2>6, NotCutOff, Zenon
<1>5. ASSUME NEW d \in Retentions
      PROVE  u.lists[d] \in Seq(Keys) /\ ListedIn(u, d)
  <2>1. t.lists[d] \in Seq(Keys) /\ u.lists[d] = Keep(t.lists[d], Keys \ gone)
    BY <1>1, <1>3, Zenon DEF Shaped
  <2>2. IsInjective(t.lists[d])
        /\ Range(t.lists[d]) = {k \in DOMAIN t.entries : t.entries[k].retention = d}
    BY Zenon DEF Consistent, ListedIn
  <2>3. /\ u.lists[d] \in Seq(Keys) /\ IsInjective(u.lists[d])
        /\ Range(u.lists[d]) = Range(t.lists[d]) \cap (Keys \ gone)
    <3> DEFINE l == t.lists[d]
               S == Keys \ gone
    <3>1. l \in Seq(Keys) /\ IsInjective(l)
      BY <2>1, <2>2, Zenon
    <3> HIDE DEF l, S
    <3>2. /\ Keep(l, S) \in Seq(Keys) /\ IsInjective(Keep(l, S))
          /\ Range(Keep(l, S)) = Range(l) \cap S
      BY <3>1, Kept, Zenon
    <3>3. QED
      BY <2>1, <3>2, Zenon DEF l, S
  <2>4. DOMAIN t.entries \subseteq Keys
    BY <1>3, Zenon DEF Shaped
  <2>5. Range(u.lists[d]) = {k \in DOMAIN u.entries : u.entries[k].retention = d}
    BY <1>2, <2>2, <2>3, <2>4, Zenon
  <2>6. QED
    BY <2>3, <2>5, Zenon DEF ListedIn
<1>6. Shaped(u)
  <2>1. D \subseteq Keys /\ IsFiniteSet(D) /\ \A k \in D : t.entries[k] \in EntryShape
    <3>1. IsFiniteSet(DOMAIN t.entries) /\ D \subseteq DOMAIN t.entries
      BY <1>3, Zenon DEF Shaped
    <3>2. IsFiniteSet(D)
      BY <3>1, FS_Subset, Zenon
    <3>3. QED
      BY <1>3, <3>2, Zenon DEF Shaped
  <2>2. u.lists \in [Retentions -> Seq(Keys)]
    BY <1>1, <1>5, Zenon
  <2>3. u.counts \in [Groups -> Nat]
    BY <1>1, <1>4, Zenon
  <2>4. QED
    BY <1>1, <1>2, <2>1, <2>2, <2>3, Zenon DEF Shaped
<1>7. QED
  BY <1>2, <1>4, <1>5, <1>6, Zenon DEF u, Consistent

\* u lists key and the members of s, all different members of T.
ListsAlso(u, s, key, T) ==
    u \in Seq(T) /\ IsInjective(u) /\ Range(u) = Range(s) \cup {key}

\* A key that is not in a list yet is put at its front.
LEMMA PutInFront ==
  ASSUME NEW T, NEW s \in Seq(T), IsInjective(s), NEW key \in T, key \notin Range(s)
  PROVE  ListsAlso(<<key>> \o s, s, key, T)
<1> DEFINE u == <<key>> \o s
           n == Len(s)
<1>1. n \in Nat /\ DOMAIN s = 1..n
  OBVIOUS
<1>2. /\ u \in Seq(T) /\ DOMAIN u = 1..(n + 1) /\ u[1] = key
      /\ \A i \in 1..n : u[i + 1] = s[i]
      /\ \A j \in 1..(n + 1) : j # 1 => j - 1 \in 1..n /\ u[j] = s[j - 1]
  OBVIOUS
<1> HIDE DEF u, n
<1>3. \A i \in 1..n : s[i] # key
  BY <1>1, Zenon DEF Range
<1>4. ASSUME NEW i \in DOMAIN u, NEW j \in DOMAIN u, u[i] = u[j] PROVE i = j
  <2>1. CASE i = 1 /\ j # 1
    BY <1>2, <1>3, <1>4, <2>1, Zenon
  <2>2. CASE i # 1 /\ j = 1
    BY <1>2, <1>3, <1>4, <2>2, Zenon
  <2>3. CASE i # 1 /\ j # 1
    <3>1. i - 1 \in 1..n /\ j - 1 \in 1..n /\ s[i - 1] = s[j - 1]
      BY <1>2, <1>4, <2>3, Zenon
    <3>2. i - 1 = j - 1
      BY <1>1, <3>1, Zenon DEF IsInjective
    <3>3. i \in Int /\ j \in Int
      BY <1>1, <1>2
    <3>4. QED
      BY <3>2, <3>3
  <2>4. QED
    BY <2>1, <2>2, <2>3, Zenon
<1>5. ASSUME NEW x PROVE x \in Range(u) <=> x \in Range(s) \cup {key}
  <2>1. ASSUME NEW j \in DOMAIN u, u[j] = x PROVE x \in Range(s) \cup {key}
    BY <1>1, <1>2, <2>1, Zenon DEF Range
  <2>2. ASSUME NEW i \in DOMAIN s, s[i] = x PROVE x \in Range(u)
    <3>1. i + 1 \in DOMAIN u /\ u[i + 1] = x
      <4>1. i \in 1..n
        BY <1>1, Zenon
      <4>2. i + 1 \in 1..(n + 1)
        BY <1>1, <4>1
      <4>3. QED
        BY <1>2, <2>2, <4>1, <4>2, Zenon
    <3>2. QED
      BY <3>1, Zenon DEF Range
  <2>3. 1 \in DOMAIN u
    BY <1>1, <1>2
  <2>4. key \in Range(u)
    BY <1>2, <2>3, Zenon DEF Range
  <2>5. QED
    BY <2>1, <2>2, <2>4, Zenon DEF Range
<1>6. IsInjective(u)
  BY <1>4, Zenon DEF IsInjective
<1>7. QED
  <2>1. Range(u) = Range(s) \cup {key}
    BY <1>5, Zenon
  <2>2. ListsAlso(u, s, key, T)
    BY <1>2, <1>6, <2>1, Zenon DEF ListsAlso
  <2>3. QED
    BY <2>2, Zenon DEF u

\* An entry without a group is in none of the groups that are counted.
LEMMA NoGroupIsCounted ==
  ASSUME NEW g \in Groups
  PROVE  g # <<NoHost, 0>>
<1>1. g \in Hosts \X (1 .. Cardinality(Hosts))
  BY Zenon DEF Groups
<1>2. g[2] \in 1 .. Cardinality(Hosts)
  BY <1>1
<1>3. g[2] # 0
  BY <1>2
<1>4. QED
  BY <1>3

\* insertLocked's new entry is a proper one without a group.
LEMMA FreshShaped ==
  ASSUME NEW d \in Retentions
  PROVE  /\ FreshEntry(d) \in EntryShape /\ FreshEntry(d).retention = d
         /\ GroupOf(FreshEntry(d)) = <<NoHost, 0>>
<1>1. <<>> \in [{} -> Times] /\ {} \in SUBSET Hosts
  OBVIOUS
<1>2. <<>> \in Warmth
  BY <1>1, Zenon DEF Warmth
<1>3. - 2 * Minute \in Int
  BY ShadowAssumption
<1>4. FreshEntry(d).retention = d /\ GroupOf(FreshEntry(d)) = <<NoHost, 0>>
  BY DEF FreshEntry, GroupOf
<1>5. FreshEntry(d) \in EntryShape
  BY <1>2, <1>3 DEF FreshEntry, EntryShape, NoHost
<1>6. QED
  BY <1>4, <1>5, Zenon

\* insertLocked.
LEMMA InsertConsistent ==
  ASSUME NEW t, Consistent(t), NEW key \in Keys, key \notin DOMAIN t.entries,
         NEW d \in Retentions
  PROVE  /\ Consistent(InsertLocked(t, key, d))
         /\ DOMAIN InsertLocked(t, key, d).entries = DOMAIN t.entries \cup {key}
         /\ InsertLocked(t, key, d).entries[key] = FreshEntry(d)
         /\ \A k \in DOMAIN t.entries : InsertLocked(t, key, d).entries[k] = t.entries[k]
<1> DEFINE u == InsertLocked(t, key, d)
           D == DOMAIN t.entries \cup {key}
<1>1. Shaped(t)
  BY Zenon DEF Consistent
<1>2. /\ u = [entries |-> u.entries, lists |-> u.lists, counts |-> u.counts]
      /\ u.entries = [k \in D |-> IF k = key THEN FreshEntry(d) ELSE t.entries[k]]
      /\ u.lists = [t.lists EXCEPT ![d] = <<key>> \o t.lists[d]]
      /\ u.counts = t.counts
  BY Zenon DEF InsertLocked
<1> HIDE DEF u
<1>4. DOMAIN u.entries = D /\ u.entries[key] = FreshEntry(d)
      /\ \A k \in DOMAIN t.entries : u.entries[k] = t.entries[k]
  BY <1>2, Zenon
<1>5. ASSUME NEW g \in Groups PROVE Members(u, g) = Members(t, g)
  <2>1. GroupOf(u.entries[key]) # g
    BY <1>4, FreshShaped, NoGroupIsCounted, Zenon
  <2>2. ASSUME NEW k PROVE k \in Members(u, g) <=> k \in Members(t, g)
    <3>1. k \in DOMAIN t.entries => GroupOf(u.entries[k]) = GroupOf(t.entries[k])
      BY <1>4, Zenon
    <3>2. k \in Members(u, g) <=> k \in D /\ GroupOf(u.entries[k]) = g
      BY <1>4, Zenon DEF Members
    <3>3. QED
      BY <2>1, <3>1, <3>2, Zenon DEF Members
  <2>3. QED
    BY <2>2, Zenon
<1>6. ASSUME NEW c \in Retentions
      PROVE  u.lists[c] \in Seq(Keys) /\ ListedIn(u, c)
  <2>1. /\ t.lists[c] \in Seq(Keys) /\ IsInjective(t.lists[c])
        /\ Range(t.lists[c]) = {k \in DOMAIN t.entries : t.entries[k].retention = c}
    BY <1>1, Zenon DEF Consistent, Shaped, ListedIn
  <2>2. u.entries[key].retention = d
    BY <1>4, FreshShaped, Zenon
  <2>3. u.lists[c] = IF c = d THEN <<key>> \o t.lists[c] ELSE t.lists[c]
    BY <1>1, <1>2, Zenon DEF Shaped
  <2> DEFINE W == {k \in DOMAIN u.entries : u.entries[k].retention = c}
  <2>4. ASSUME NEW k PROVE k \in W <=> k \in Range(t.lists[c]) \/ (k = key /\ c = d)
    BY <1>4, <2>1, <2>2, Zenon
  <2>8. ListedIn(u, c) <=> IsInjective(u.lists[c]) /\ Range(u.lists[c]) = W
    BY Zenon DEF ListedIn
  <2> HIDE DEF W
  <2>5. CASE c = d
    <3> DEFINE l == t.lists[c]
    <3>1. l \in Seq(Keys) /\ IsInjective(l) /\ key \notin Range(l)
      BY <2>1, Zenon
    <3> HIDE DEF l
    <3>2. ListsAlso(<<key>> \o l, l, key, Keys)
      BY <3>1, PutInFront, Zenon
    <3>3. /\ u.lists[c] \in Seq(Keys) /\ IsInjective(u.lists[c])
          /\ Range(u.lists[c]) = Range(t.lists[c]) \cup {key}
      BY <2>3, <2>5, <3>2, Zenon DEF l, ListsAlso
    <3>4. Range(u.lists[c]) = W
      BY <2>4, <2>5, <3>3, Zenon
    <3>5. QED
      BY <2>8, <3>3, <3>4, Zenon
  <2>6. CASE c # d
    <3>1. u.lists[c] = t.lists[c]
      BY <2>3, <2>6, Zenon
    <3>2. Range(u.lists[c]) = W
      BY <2>4, <2>6, <3>1, Zenon
    <3>3. QED
      BY <2>1, <2>8, <3>1, <3>2, Zenon
  <2>7. QED
    BY <2>5, <2>6, Zenon
<1>7. Shaped(u)
  <2>1. D \subseteq Keys /\ IsFiniteSet(D)
    BY <1>1, FS_AddElement, Zenon DEF Shaped
  <2>2. \A k \in D : u.entries[k] \in EntryShape
    <3>1. u.entries[key] \in EntryShape
      BY <1>4, FreshShaped, Zenon
    <3>2. \A k \in DOMAIN t.entries : u.entries[k] \in EntryShape
      BY <1>1, <1>4, Zenon DEF Shaped
    <3>3. QED
      BY <3>1, <3>2, Zenon
  <2>3. u.lists \in [Retentions -> Seq(Keys)]
    <3>1. u.lists = [c \in Retentions |-> u.lists[c]]
      BY <1>1, <1>2, Zenon DEF Shaped
    <3>2. QED
      BY <1>6, <3>1, Zenon
  <2>4. u.counts \in [Groups -> Nat]
    BY <1>1, <1>2, Zenon DEF Shaped
  <2>5. u.entries = [k \in D |-> u.entries[k]]
    BY <1>2, <1>4, Zenon
  <2>6. QED
    BY <1>2, <1>4, <2>1, <2>2, <2>3, <2>4, <2>5, Zenon DEF Shaped
<1>8. \A g \in Groups : u.counts[g] = Cardinality(Members(u, g))
  BY <1>2, <1>5, Zenon DEF Consistent
<1>9. QED
  BY <1>4, <1>6, <1>7, <1>8, Zenon DEF u, Consistent

\* A list of the keys of a retention, but for one of them.
ListsOthers(l, t, key, c) ==
  /\ l \in Seq(Keys) /\ IsInjective(l) /\ key \notin Range(l)
  /\ \A k : k # key => (k \in Range(l) <=> k \in DOMAIN t.entries /\ t.entries[k].retention = c)

\* No list but that of its window has to lose a key.
LEMMA ListsWithout ==
  ASSUME NEW t, Consistent(t), NEW key \in DOMAIN t.entries, NEW c \in Retentions, NEW l,
         c = t.entries[key].retention => l = Keep(t.lists[c], Keys \ {key}),
         c # t.entries[key].retention => l = t.lists[c]
  PROVE  ListsOthers(l, t, key, c)
<1>1. /\ t.lists[c] \in Seq(Keys) /\ IsInjective(t.lists[c])
      /\ Range(t.lists[c]) = {k \in DOMAIN t.entries : t.entries[k].retention = c}
      /\ DOMAIN t.entries \subseteq Keys
  BY Zenon DEF Consistent, Shaped, ListedIn
<1>2. CASE c = t.entries[key].retention
  <2> DEFINE s == t.lists[c]
             S == Keys \ {key}
  <2>1. s \in Seq(Keys) /\ IsInjective(s)
    BY <1>1, Zenon
  <2> HIDE DEF s, S
  <2>2. /\ Keep(s, S) \in Seq(Keys) /\ IsInjective(Keep(s, S))
        /\ Range(Keep(s, S)) = Range(s) \cap S
    BY <2>1, Kept, Zenon
  <2>3. l = Keep(s, S)
    BY <1>2, Zenon DEF s, S
  <2>4. Range(l) = Range(t.lists[c]) \cap (Keys \ {key})
    BY <2>2, <2>3, Zenon DEF s, S
  <2>5. QED
    BY <1>1, <2>2, <2>3, <2>4, Zenon DEF ListsOthers
<1>3. CASE c # t.entries[key].retention
  <2>1. l = t.lists[c]
    BY <1>3, Zenon
  <2>2. QED
    BY <1>1, <1>3, <2>1, Zenon DEF ListsOthers
<1>4. QED
  BY <1>2, <1>3, Zenon

\* touchLocked.
LEMMA TouchConsistent ==
  ASSUME NEW t, Consistent(t), NEW key \in DOMAIN t.entries, NEW d \in Retentions
  PROVE  /\ Consistent(TouchLocked(t, key, d))
         /\ DOMAIN TouchLocked(t, key, d).entries = DOMAIN t.entries
         /\ TouchLocked(t, key, d).entries[key] = [t.entries[key] EXCEPT !.retention = d]
         /\ \A k \in DOMAIN t.entries \ {key} :
              TouchLocked(t, key, d).entries[k] = t.entries[k]
<1> DEFINE u == TouchLocked(t, key, d)
           old == t.entries[key].retention
           others == [t.lists EXCEPT ![old] = Keep(t.lists[old], Keys \ {key})]
<1>1. Shaped(t)
  BY Zenon DEF Consistent
<1>2. /\ u = [entries |-> u.entries, lists |-> u.lists, counts |-> u.counts]
      /\ u.entries = [t.entries EXCEPT ![key] = [t.entries[key] EXCEPT !.retention = d]]
      /\ u.lists = [others EXCEPT ![d] = <<key>> \o others[d]]
      /\ u.counts = t.counts
  BY Zenon DEF TouchLocked
<1> HIDE DEF u
<1>3. t.entries[key] \in EntryShape
  BY <1>1, Zenon DEF Shaped
<1>4. /\ DOMAIN u.entries = DOMAIN t.entries
      /\ u.entries = [k \in DOMAIN u.entries |-> u.entries[k]]
      /\ u.entries[key] = [t.entries[key] EXCEPT !.retention = d]
      /\ \A k \in DOMAIN t.entries \ {key} : u.entries[k] = t.entries[k]
  BY <1>2, Zenon
<1>5. /\ u.entries[key] \in EntryShape /\ u.entries[key].retention = d
      /\ GroupOf(u.entries[key]) = GroupOf(t.entries[key])
  <2> DEFINE e == t.entries[key]
             f == [e EXCEPT !.retention = d]
  <2>1. e \in EntryShape
    BY <1>3, Zenon
  <2> HIDE DEF e
  <2>2. f \in EntryShape /\ f.retention = d /\ f.home = e.home /\ f.r = e.r
    BY <2>1 DEF EntryShape
  <2>3. u.entries[key] = f
    BY <1>4, Zenon DEF e
  <2> HIDE DEF f
  <2>4. QED
    BY <2>2, <2>3, Zenon DEF GroupOf, e
<1>6. ASSUME NEW g \in Groups PROVE Members(u, g) = Members(t, g)
  <2>1. \A k \in DOMAIN t.entries : GroupOf(u.entries[k]) = GroupOf(t.entries[k])
    <3>1. \A k \in DOMAIN t.entries \ {key} : GroupOf(u.entries[k]) = GroupOf(t.entries[k])
      BY <1>4, Zenon
    <3>2. QED
      BY <1>5, <3>1, Zenon
  <2>2. ASSUME NEW k PROVE k \in Members(u, g) <=> k \in Members(t, g)
    <3>1. k \in Members(u, g) <=> k \in DOMAIN t.entries /\ GroupOf(u.entries[k]) = g
      BY <1>4, Zenon DEF Members
    <3>2. k \in Members(t, g) <=> k \in DOMAIN t.entries /\ GroupOf(t.entries[k]) = g
      BY Zenon DEF Members
    <3>3. QED
      BY <2>1, <3>1, <3>2, Zenon
  <2>3. QED
    BY <2>2, Zenon
<1>7. /\ DOMAIN others = Retentions /\ DOMAIN u.lists = Retentions
      /\ u.lists = [c \in DOMAIN u.lists |-> u.lists[c]]
      /\ \A c \in Retentions :
           others[c] = IF c = old THEN Keep(t.lists[c], Keys \ {key}) ELSE t.lists[c]
  BY <1>1, <1>2, Zenon DEF Shaped
<1>8. ASSUME NEW c \in Retentions
      PROVE  u.lists[c] \in Seq(Keys) /\ ListedIn(u, c)
  <2> DEFINE W == {k \in DOMAIN u.entries : u.entries[k].retention = c}
             l == others[c]
  <2>1. /\ l \in Seq(Keys) /\ IsInjective(l) /\ key \notin Range(l)
        /\ \A k : k # key =>
             (k \in Range(l) <=> k \in DOMAIN t.entries /\ t.entries[k].retention = c)
    <3>1. /\ c = t.entries[key].retention => l = Keep(t.lists[c], Keys \ {key})
          /\ c # t.entries[key].retention => l = t.lists[c]
      BY <1>7, Zenon
    <3> HIDE DEF l
    <3>2. ListsOthers(l, t, key, c)
      BY <3>1, ListsWithout, Zenon
    <3>3. QED
      BY <3>2, Zenon DEF ListsOthers
  <2>2. ListedIn(u, c) <=> IsInjective(u.lists[c]) /\ Range(u.lists[c]) = W
    BY Zenon DEF ListedIn
  <2>3. (c = d => u.lists[c] = <<key>> \o l) /\ (c # d => u.lists[c] = l)
    <3>1. d \in DOMAIN others /\ c \in DOMAIN others
      BY <1>7, Zenon
    <3> HIDE DEF others
    <3>2. QED
      BY <1>2, <3>1, Zenon
  <2>4. \A k : k # key => (k \in W <=> k \in DOMAIN t.entries /\ t.entries[k].retention = c)
    <3>1. ASSUME NEW k, k # key
          PROVE  k \in W <=> k \in DOMAIN t.entries /\ t.entries[k].retention = c
      <4>1. k \in DOMAIN t.entries => u.entries[k] = t.entries[k]
        BY <1>4, <3>1, Zenon
      <4>2. k \in W <=> k \in DOMAIN t.entries /\ u.entries[k].retention = c
        BY <1>4, Zenon
      <4> HIDE DEF W
      <4>3. QED
        BY <4>1, <4>2, Zenon
    <3>2. QED
      BY <3>1, Zenon
  <2>5. key \in W <=> c = d
    BY <1>4, <1>5, Zenon
  <2> HIDE DEF W, l
  <2>6. CASE c = d
    <3>1. key \in Keys
      BY <1>1, Zenon DEF Shaped
    <3>2. ListsAlso(<<key>> \o l, l, key, Keys)
      BY <2>1, <3>1, PutInFront, Zenon
    <3>3. ListsAlso(u.lists[c], l, key, Keys)
      BY <2>3, <2>6, <3>2, Zenon
    <3>4. ASSUME NEW k PROVE k \in Range(l) \cup {key} <=> k \in W
      BY <2>1, <2>4, <2>5, <2>6, Zenon
    <3>5. Range(l) \cup {key} = W
      BY <3>4, Zenon
    <3>6. QED
      BY <2>2, <3>3, <3>5, Zenon DEF ListsAlso
  <2>7. CASE c # d
    <3>1. u.lists[c] = l
      BY <2>3, <2>7, Zenon
    <3>2. ASSUME NEW k PROVE k \in Range(l) <=> k \in W
      BY <2>1, <2>4, <2>5, <2>7, Zenon
    <3>3. Range(l) = W
      BY <3>2, Zenon
    <3>4. QED
      BY <2>1, <2>2, <3>1, <3>3, Zenon
  <2>8. QED
    BY <2>6, <2>7, Zenon
<1>9. Shaped(u)
  <2>1. \A k \in DOMAIN u.entries : u.entries[k] \in EntryShape
    BY <1>1, <1>4, <1>5, Zenon DEF Shaped
  <2>2. u.lists \in [Retentions -> Seq(Keys)]
    BY <1>7, <1>8, Zenon
  <2>3. /\ u.counts \in [Groups -> Nat]
        /\ DOMAIN u.entries \subseteq Keys /\ IsFiniteSet(DOMAIN u.entries)
    BY <1>1, <1>2, <1>4, Zenon DEF Shaped
  <2>4. QED
    BY <1>2, <1>4, <2>1, <2>2, <2>3, Zenon DEF Shaped
<1>10. \A g \in Groups : u.counts[g] = Cardinality(Members(u, g))
  BY <1>2, <1>6, Zenon DEF Consistent
<1>11. QED
  BY <1>4, <1>8, <1>9, <1>10, Zenon DEF u, Consistent

\* shiftCountLocked leaves the other groups alone.
LEMMA OtherGroups ==
  ASSUME NEW counts, NEW old, NEW new, NEW g \in Groups, old # new, g # old, g # new
  PROVE  ShiftCount(counts, old, new)[g] = counts[g]
BY DEF ShiftCount

\* observeKeyed's record: the entry moves from its group, if it has one, to
\* another, and the aggregate with it.
LEMMA RecordConsistent ==
  ASSUME NEW t, Consistent(t), NEW key \in DOMAIN t.entries, NEW e \in EntryShape,
         e.retention = t.entries[key].retention, GroupOf(e) \in Groups, NEW u,
         u = [ entries |-> [t.entries EXCEPT ![key] = e],
               lists   |-> t.lists,
               counts  |-> ShiftCount(t.counts, GroupOf(t.entries[key]), GroupOf(e)) ]
  PROVE  /\ Consistent(u)
         /\ DOMAIN u.entries = DOMAIN t.entries /\ u.entries[key] = e
         /\ \A k \in DOMAIN t.entries \ {key} : u.entries[k] = t.entries[k]
<1> DEFINE old == GroupOf(t.entries[key])
           new == GroupOf(e)
<1>1. Shaped(t)
  BY Zenon DEF Consistent
<1>2. /\ u = [entries |-> u.entries, lists |-> u.lists, counts |-> u.counts]
      /\ u.entries = [t.entries EXCEPT ![key] = e]
      /\ u.lists = t.lists
      /\ u.counts = ShiftCount(t.counts, old, new)
  BY Zenon
<1>3. /\ DOMAIN u.entries = DOMAIN t.entries /\ u.entries[key] = e
      /\ u.entries = [k \in DOMAIN u.entries |-> u.entries[k]]
      /\ \A k \in DOMAIN t.entries \ {key} : u.entries[k] = t.entries[k]
  BY <1>2, Zenon
<1>4. ASSUME NEW g, NEW k
      PROVE  k \in Members(u, g) <=> IF k = key THEN new = g ELSE k \in Members(t, g)
  <2>1. k \in Members(u, g) <=> k \in DOMAIN t.entries /\ GroupOf(u.entries[k]) = g
    BY <1>3, Zenon DEF Members
  <2>2. k \in Members(t, g) <=> k \in DOMAIN t.entries /\ GroupOf(t.entries[k]) = g
    BY Zenon DEF Members
  <2>3. k # key /\ k \in DOMAIN t.entries => u.entries[k] = t.entries[k]
    BY <1>3, Zenon
  <2>4. k = key => u.entries[k] = e /\ k \in DOMAIN t.entries
    BY <1>3, Zenon
  <2>5. QED
    BY <2>1, <2>2, <2>3, <2>4, Zenon
<1>5. \A g : key \in Members(t, g) <=> old = g
  BY Zenon DEF Members
<1> HIDE DEF old, new
<1>6. ASSUME NEW g \in Groups
      PROVE  u.counts[g] = Cardinality(Members(u, g)) /\ u.counts[g] \in Nat
  <2>1. /\ IsFiniteSet(Members(t, g)) /\ Cardinality(Members(t, g)) \in Nat
        /\ t.counts[g] = Cardinality(Members(t, g))
    BY <1>1, MembersFinite, Zenon DEF Consistent
  <2>2. CASE old = new \/ (g # old /\ g # new)
    <3>1. u.counts[g] = t.counts[g]
      <4>1. CASE old = new
        BY <1>2, <4>1, Zenon DEF ShiftCount
      <4>2. CASE old # new /\ g # old /\ g # new
        <5>1. ShiftCount(t.counts, old, new)[g] = t.counts[g]
          BY <4>2, OtherGroups
        <5>2. QED
          BY <1>2, <5>1, Zenon
      <4>3. QED
        BY <2>2, <4>1, <4>2, Zenon
    <3>2. Members(u, g) = Members(t, g)
      <4>1. key \in Members(t, g) <=> new = g
        BY <1>5, <2>2, Zenon
      <4>2. \A k : k \in Members(u, g) <=> k \in Members(t, g)
        BY <1>4, <4>1, Zenon
      <4>3. QED
        BY <4>2, Zenon
    <3>3. QED
      BY <2>1, <3>1, <3>2, Zenon
  <2>3. CASE old # new /\ g = old
    <3>1. u.counts[g] = Max({0, t.counts[g] - 1})
      BY <1>2, <2>3, Zenon DEF ShiftCount
    <3>2. Members(u, g) = Members(t, g) \ {key} /\ key \in Members(t, g)
      BY <1>4, <1>5, <2>3, Zenon
    <3>3. IsFiniteSet(Members(t, g) \ {key})
          /\ Cardinality(Members(t, g) \ {key}) = Cardinality(Members(t, g)) - 1
      BY <2>1, <3>2, FS_RemoveElement, Zenon
    <3>4. Cardinality(Members(t, g)) - 1 \in Nat
      BY <3>3, FS_CardinalityType, Zenon
    <3>5. QED
      BY <2>1, <3>1, <3>2, <3>3, <3>4, NotCutOff, Zenon
  <2>4. CASE old # new /\ g = new
    <3>1. u.counts[g] = t.counts[g] + 1
      BY <1>2, <2>4, Zenon DEF ShiftCount
    <3>2. Members(u, g) = Members(t, g) \cup {key} /\ key \notin Members(t, g)
      BY <1>4, <1>5, <2>4, Zenon
    <3>3. Cardinality(Members(t, g) \cup {key}) = Cardinality(Members(t, g)) + 1
      BY <2>1, <3>2, FS_AddElement, Zenon
    <3>4. Cardinality(Members(t, g)) + 1 \in Nat
      BY <2>1
    <3>5. QED
      BY <2>1, <3>1, <3>2, <3>3, <3>4, Zenon
  <2>5. QED
    BY <2>2, <2>3, <2>4, Zenon
<1>7. DOMAIN u.counts = Groups /\ u.counts = [g \in DOMAIN u.counts |-> u.counts[g]]
  BY <1>1, <1>2, Zenon DEF ShiftCount, Shaped
<1>8. ASSUME NEW c \in Retentions PROVE ListedIn(u, c)
  <2> DEFINE W(x) == {k \in DOMAIN x.entries : x.entries[k].retention = c}
  <2>1. \A k \in DOMAIN t.entries : u.entries[k].retention = t.entries[k].retention
    BY <1>3, Zenon
  <2>2. W(u) = W(t)
    BY <1>3, <2>1, Zenon
  <2>3. IsInjective(t.lists[c]) /\ Range(t.lists[c]) = W(t)
    BY Zenon DEF Consistent, ListedIn
  <2>4. ListedIn(u, c) <=> IsInjective(u.lists[c]) /\ Range(u.lists[c]) = W(u)
    BY Zenon DEF ListedIn
  <2> HIDE DEF W
  <2>5. QED
    BY <1>2, <2>2, <2>3, <2>4, Zenon
<1>9. Shaped(u)
  <2>1. \A k \in DOMAIN u.entries : u.entries[k] \in EntryShape
    BY <1>1, <1>3, Zenon DEF Shaped
  <2>2. u.counts \in [Groups -> Nat]
    BY <1>6, <1>7, Zenon
  <2>3. /\ u.lists \in [Retentions -> Seq(Keys)]
        /\ DOMAIN u.entries \subseteq Keys /\ IsFiniteSet(DOMAIN u.entries)
    BY <1>1, <1>2, <1>3, Zenon DEF Shaped
  <2>4. QED
    BY <1>2, <1>3, <2>1, <2>2, <2>3, Zenon DEF Shaped
<1>10. QED
  BY <1>3, <1>6, <1>8, <1>9, Zenon DEF Consistent

-----------------------------------------------------------------------------
(***************************************************************************)
(* Ranking, replication and what a landing makes of an entry.              *)
(***************************************************************************)

\* A ranking of the candidates has each of them once.
Ranking(s, C) ==
  /\ s \in Seq(C) /\ Len(s) = Cardinality(C) /\ Len(s) \in Nat \ {0}
  /\ IsInjective(s) /\ Range(s) = C

\* rank.
LEMMA RankIsRanking ==
  ASSUME NEW key \in Keys, NEW C \in SUBSET Hosts, C # {}
  PROVE  Ranking(Rank(key, C), C) /\ IsFiniteSet(C)
<1> DEFINE R == {p \in C \X C : Precedes(key, p[1], p[2])}
           s == Rank(key, C)
           n == Cardinality(C)
<1>1. IsFiniteSet(C) /\ n \in Nat /\ n # 0
  <2>1. IsFiniteSet(C)
    BY RendezvousAssumption, FS_Subset, Zenon
  <2>2. QED
    BY <2>1, FS_CardinalityType, FS_EmptySet, Zenon
<1>2. \A a, b \in C : <<a, b>> \in R <=> Precedes(key, a, b)
  OBVIOUS
<1>3. ASSUME NEW a \in C PROVE a \in Nat /\ Score[key][a] \in Nat
  BY RendezvousAssumption, Zenon
<1>4. \A a, b, c \in C :
        /\ ~Precedes(key, a, a)
        /\ Precedes(key, a, b) /\ Precedes(key, b, c) => Precedes(key, a, c)
        /\ a # b => Precedes(key, a, b) \/ Precedes(key, b, a)
  <2>1. SUFFICES ASSUME NEW a \in C, NEW b \in C, NEW c \in C
                 PROVE  /\ ~Precedes(key, a, a)
                        /\ Precedes(key, a, b) /\ Precedes(key, b, c) => Precedes(key, a, c)
                        /\ a # b => Precedes(key, a, b) \/ Precedes(key, b, a)
    BY Zenon
  <2>2. /\ a \in Nat /\ b \in Nat /\ c \in Nat
        /\ Score[key][a] \in Nat /\ Score[key][b] \in Nat /\ Score[key][c] \in Nat
    BY <1>3, Zenon
  <2>3. QED
    BY <2>2 DEF Precedes
<1> HIDE DEF R
<1>5. StrictOrder(C, R)
  BY <1>2, <1>4, Zenon DEF StrictOrder
<1>6. Lists(s, C, R)
  BY <1>1, <1>5, SortedInOrder, Zenon DEF Rank, R
<1> HIDE DEF s
<1>7. /\ s \in [1..n -> C] /\ \A x \in C : \E i \in 1..n : s[i] = x
      /\ \A i, j \in 1..n : i < j => <<s[i], s[j]>> \in R
  BY <1>6, Zenon DEF Lists
<1> HIDE DEF n
<1>8. s \in Seq(C) /\ Len(s) = n /\ DOMAIN s = 1..n
  BY <1>1, <1>7, IsSequence, Zenon
<1>9. Range(s) = C
  BY <1>7, <1>8, Zenon DEF Range
<1>10. ASSUME NEW i \in 1..n, NEW j \in 1..n, s[i] = s[j] PROVE i = j
  <2>1. s[i] \in C /\ s[j] \in C
    BY <1>7, Zenon
  <2>2. <<s[i], s[j]>> \notin R /\ <<s[j], s[i]>> \notin R
    BY <1>2, <1>4, <1>10, <2>1, Zenon
  <2>3. ~(i < j) /\ ~(j < i)
    BY <1>7, <2>2, Zenon
  <2>4. QED
    BY <1>1, <2>3
<1>11. IsInjective(s)
  BY <1>8, <1>10, Zenon DEF IsInjective
<1>12. QED
  BY <1>1, <1>8, <1>9, <1>11, Zenon DEF Ranking, s, n

\* replicationFactor: at least one copy and at most the pool.
LEMMA FactorInRange ==
  ASSUME NEW rate \in Int, NEW threshold \in Int, NEW n \in Nat \ {0}
  PROVE  ReplicationFactor(rate, threshold, n) \in 1..n
<1>1. CASE threshold <= 0 \/ n <= 1
  <2>1. ReplicationFactor(rate, threshold, n) = 1
    BY <1>1, Zenon DEF ReplicationFactor
  <2>2. QED
    BY <2>1
<1>2. CASE ~(threshold <= 0 \/ n <= 1)
  <2> DEFINE q == (rate + threshold - 1) \div threshold
             lower == Min({n, q})
  <2>1. q \in Int
    BY <1>2
  <2> HIDE DEF q
  <2>2. lower \in {n, q} /\ \A y \in {n, q} : lower <= y
    <3>1. \E x \in {n, q} : \A y \in {n, q} : x <= y
      BY <2>1
    <3>2. QED
      BY <3>1, Zenon DEF Min
  <2> HIDE DEF lower
  <2>3. lower \in Int /\ lower <= n
    BY <2>1, <2>2
  <2>4. Max({1, lower}) \in {1, lower} /\ \A y \in {1, lower} : Max({1, lower}) >= y
    <3>1. \E x \in {1, lower} : \A y \in {1, lower} : x >= y
      BY <2>3
    <3>2. QED
      BY <3>1, Zenon DEF Max
  <2>5. ReplicationFactor(rate, threshold, n) = Max({1, lower})
    BY <1>2, Zenon DEF ReplicationFactor, lower, q
  <2>6. Max({1, lower}) \in 1..n
    BY <2>3, <2>4
  <2>7. QED
    BY <2>5, <2>6, Zenon
<1>3. QED
  BY <1>1, <1>2, Zenon

\* The bound of the times is the last instant.
LEMMA LastInstant == Max(Instants) \in Nat /\ \A t \in Instants : t <= Max(Instants)
<1>1. /\ \A s, t \in Instants : s <= t <=> t >= s
      /\ \E last \in Instants : \A t \in Instants : t <= last
  BY ShadowAssumption
<1>2. Max(Instants) \in Instants /\ \A t \in Instants : Max(Instants) >= t
  BY <1>1, Zenon DEF Max
<1>3. QED
  BY <1>1, <1>2, ShadowAssumption, Zenon

\* A remainder is not negative and not more than the number.
LEMMA Remainder == \A a \in Nat, b \in Nat \ {0} : a % b \in 0..a
<1> SUFFICES ASSUME NEW a \in Nat, NEW b \in Nat \ {0} PROVE a % b \in 0..a
  BY Zenon
<1>1. a % b \in 0..(b - 1)
  OBVIOUS
<1>2. CASE a < b
  <2>1. a % b = a
    BY <1>2
  <2>2. QED
    BY <2>1
<1>3. CASE b <= a
  BY <1>1, <1>3
<1>4. QED
  BY <1>2, <1>3

\* The window of an instant starts no later than it, and not before time 0.
LEMMA WindowInTime ==
  ASSUME NEW now \in Instants
  PROVE  /\ now \in Times /\ WindowAt(now) \in Times
         /\ now \in Nat /\ WindowAt(now) \in Nat /\ now % Minute \in Int
<1> DEFINE top == Max(Instants)
<1>1. Minute \in Nat \ {0} /\ now \in Nat /\ top \in Nat /\ now <= top
  BY ShadowAssumption, LastInstant, Zenon
<1> HIDE DEF top
<1>2. now \in 0 .. top
  BY <1>1
<1>3. now \in Nat /\ now % Minute \in 0 .. now /\ now % Minute \in Int
  <2>1. now % Minute \in 0 .. now
    BY <1>1, Remainder, Zenon
  <2>2. QED
    BY <1>1, <2>1
<1>4. now - (now % Minute) \in 0 .. top /\ now - (now % Minute) \in Nat
  BY <1>1, <1>3
<1>5. QED
  BY <1>2, <1>3, <1>4, Zenon DEF Times, WindowAt, top

\* bumpRate changes the two counters and the start of the window.
Rated(e, p, c, w) == [e EXCEPT !.prev = p, !.cur = c, !.windowStart = w]

RateSet(b, e, p, c, w) ==
  /\ b \in EntryShape /\ b.prev = p /\ b.cur = c /\ b.windowStart = w
  /\ b.retention = e.retention /\ b.warm = e.warm

\* An entry with new counters is an entry.
LEMMA RateUpdated ==
  ASSUME NEW e \in EntryShape, NEW p \in Nat, NEW c \in Nat, NEW w \in Nat
  PROVE  RateSet(Rated(e, p, c, w), e, p, c, w)
<1> DEFINE b == Rated(e, p, c, w)
<1>0. b = [e EXCEPT !.prev = p, !.cur = c, !.windowStart = w]
  BY Zenon DEF Rated
<1> HIDE DEF b
<1>1. b = [ lastSeen |-> e.lastSeen, expiry |-> e.expiry, warm |-> e.warm, windowStart |-> w,
            prev |-> p, cur |-> c, home |-> e.home, r |-> e.r, retention |-> e.retention ]
  BY <1>0, Zenon DEF EntryShape
<1>2. b \in EntryShape
  BY <1>1 DEF EntryShape
<1>3. RateSet(b, e, p, c, w)
  BY <1>1, <1>2, Zenon DEF RateSet
<1>4. QED
  BY <1>3, Zenon DEF b

\* It counts the landing and leaves everything else alone.
LEMMA BumpedEntry ==
  ASSUME NEW e \in EntryShape, NEW now \in Instants
  PROVE  LET b == BumpRate(e, now)
         IN  /\ b \in EntryShape /\ b.windowStart = WindowAt(now)
             /\ b.cur \in {1, e.cur + 1} /\ b.prev \in {0, e.cur, e.prev}
             /\ b.retention = e.retention /\ b.warm = e.warm
<1> DEFINE w == WindowAt(now)
           b == BumpRate(e, now)
           Bumped(p, c) == Rated(e, p, c, w)
<1>1. w \in Nat
  BY WindowInTime, Zenon
<1>2. e.prev \in Nat /\ e.cur \in Nat /\ e.cur + 1 \in Nat /\ 0 \in Nat /\ 1 \in Nat
  BY DEF EntryShape
<1> HIDE DEF w
<1>3. \E p \in {0, e.cur, e.prev}, c \in {1, e.cur + 1} : b = Bumped(p, c)
  <2>1. CASE e.windowStart = w
    <3>0. w - e.windowStart # Minute
      BY <1>1, <2>1, ShadowAssumption
    <3>1. b = [e EXCEPT !.cur = e.cur + 1]
      BY <2>1, <3>0, Zenon DEF BumpRate, w
    <3>2. [e EXCEPT !.cur = e.cur + 1] = Bumped(e.prev, e.cur + 1)
      BY <2>1, Zenon DEF EntryShape, Rated
    <3> HIDE DEF b, Bumped
    <3>3. QED
      BY <3>1, <3>2, Zenon
  <2>2. CASE e.windowStart # w /\ w - e.windowStart = Minute
    <3>1. b = Bumped(e.cur, 1)
      BY <2>2 DEF BumpRate, w, EntryShape, Rated
    <3> HIDE DEF b, Bumped
    <3>2. QED
      BY <3>1, Zenon
  <2>3. CASE e.windowStart # w /\ w - e.windowStart # Minute
    <3>1. b = Bumped(0, 1)
      BY <2>3 DEF BumpRate, w, EntryShape, Rated
    <3> HIDE DEF b, Bumped
    <3>2. QED
      BY <3>1, Zenon
  <2>4. QED
    BY <2>1, <2>2, <2>3, Zenon
<1> HIDE DEF b
<1>4. PICK p \in {0, e.cur, e.prev}, c \in {1, e.cur + 1} : b = Bumped(p, c)
  BY <1>3, Zenon
<1>5. p \in Nat /\ c \in Nat
  BY <1>2, Zenon
<1>6. RateSet(b, e, p, c, w)
  BY <1>1, <1>4, <1>5, RateUpdated, Zenon
<1>7. QED
  BY <1>4, <1>6, Zenon DEF b, w, RateSet

\* What a landing makes of an entry.
LandedAs(l, e, g, retention) ==
  /\ l \in EntryShape /\ l.retention = e.retention /\ GroupOf(l) = g
  /\ l.expiry = l.lastSeen + RetentionFactor * retention
  /\ l.cur \in {1, e.cur + 1} /\ l.prev \in {0, e.cur, e.prev}
  /\ l.cur \in 0 .. MaxLandings /\ l.prev \in 0 .. MaxLandings => l \in EntryType

\* A landing that is seen at one of the instants.
LEMMA LandedEntry ==
  ASSUME NEW e \in EntryShape, NEW host \in Hosts, NEW g \in Groups, NEW cfg,
         cfg.retention \in Nat, NEW now \in Instants
  PROVE  LandedAs(Landed(e, host, g, cfg, now), e, g, cfg.retention)
<1> DEFINE b == BumpRate(e, now)
           kept == {h \in DOMAIN e.warm : now - e.warm[h] <= cfg.retention}
           warm == [h \in kept \cup {host} |-> IF h = host THEN now ELSE e.warm[h]]
           expiry == now + RetentionFactor * cfg.retention
           l == Landed(e, host, g, cfg, now)
<1>1. /\ b \in EntryShape /\ b.windowStart = WindowAt(now)
      /\ b.cur \in {1, e.cur + 1} /\ b.prev \in {0, e.cur, e.prev}
      /\ b.retention = e.retention
  BY BumpedEntry, Zenon
<1>2. /\ now \in Times /\ WindowAt(now) \in Times /\ now \in Nat
  BY WindowInTime, Zenon
<1>3. warm \in Warmth
  <2>1. e.warm \in Warmth
    BY DEF EntryShape
  <2>2. PICK W \in SUBSET Hosts : e.warm \in [W -> Times]
    BY <2>1, Zenon DEF Warmth
  <2>3. kept \cup {host} \in SUBSET Hosts /\ warm \in [kept \cup {host} -> Times]
    BY <1>2, <2>2, Zenon
  <2> HIDE DEF warm, kept
  <2>4. QED
    BY <2>3, Zenon DEF Warmth
<1>4. expiry \in Nat
  BY <1>2 DEF RetentionFactor
<1>5. g = <<g[1], g[2]>> /\ g[1] \in Hosts /\ g[2] \in 1 .. Cardinality(Hosts)
  BY DEF Groups
<1>6. l = [b EXCEPT !.warm = warm, !.lastSeen = now, !.expiry = expiry, !.home = g[1], !.r = g[2]]
  BY Zenon DEF Landed
<1> HIDE DEF l, warm, expiry, b
<1>7. l = [ lastSeen |-> now, expiry |-> expiry, warm |-> warm, windowStart |-> b.windowStart,
            prev |-> b.prev, cur |-> b.cur, home |-> g[1], r |-> g[2], retention |-> b.retention ]
  <2>1. b \in EntryShape
    BY <1>1, Zenon
  <2>2. QED
    BY <1>6, <2>1, Zenon DEF EntryShape
<1>8. /\ l.lastSeen = now /\ l.expiry = expiry /\ l.home = g[1] /\ l.r = g[2]
      /\ l.retention = b.retention /\ l.cur = b.cur /\ l.prev = b.prev
  BY <1>7, Zenon
<1>9. /\ b.prev \in Nat /\ b.cur \in Nat /\ b.retention \in Retentions
  BY <1>1 DEF EntryShape
<1>10. g[1] \in Nat /\ g[2] \in Nat /\ b.windowStart \in Int
  <2>1. g[1] \in Nat
    BY <1>5, RendezvousAssumption, Zenon
  <2>2. g[2] \in Nat
    BY <1>5
  <2>3. b.windowStart \in Int
    BY <1>1 DEF EntryShape
  <2>4. QED
    BY <2>1, <2>2, <2>3, Zenon
<1>11. l \in EntryShape
  BY <1>2, <1>3, <1>4, <1>7, <1>9, <1>10 DEF EntryShape
<1>12. ASSUME l.cur \in 0 .. MaxLandings, l.prev \in 0 .. MaxLandings
       PROVE  l \in EntryType
  <2>1. b.windowStart \in Times /\ b.cur \in 0 .. MaxLandings /\ b.prev \in 0 .. MaxLandings
    BY <1>1, <1>2, <1>8, <1>12, Zenon
  <2>2. QED
    BY <1>2, <1>3, <1>4, <1>5, <1>7, <1>9, <2>1, Zenon DEF EntryType, Warmth
<1>13. GroupOf(l) = g
  BY <1>5, <1>8, Zenon DEF GroupOf
<1>14. l.expiry = l.lastSeen + RetentionFactor * cfg.retention
  BY <1>8, Zenon DEF expiry
<1>15. LandedAs(l, e, g, cfg.retention)
  BY <1>1, <1>8, <1>11, <1>12, <1>13, <1>14, Zenon DEF LandedAs
<1>16. QED
  BY <1>15, Zenon DEF l

-----------------------------------------------------------------------------
(***************************************************************************)
(* The decision.                                                           *)
(***************************************************************************)

\* A non-empty set of naturals has a least element.
LEMMA LeastNatural ==
  ASSUME NEW S \in SUBSET Nat, S # {}
  PROVE  \E m \in S : \A k \in S : m <= k
<1>1. IsWellFoundedOn(OpToRel(<, Nat), Nat)
  BY NatLessThanWellFounded, Zenon
<1>2. PICK m \in S : \A k \in S : ~(<<k, m>> \in OpToRel(<, Nat))
  BY <1>1, WFMin, Zenon
<1>3. \A k \in S : ~(k < m)
  BY <1>2, Zenon DEF OpToRel
<1> QED
  BY <1>3

\* leastLoaded finds a replica of the list that none of it is below.
LEMMA LeastLoadedIsLeast ==
  ASSUME NEW s, NEW n \in Nat \ {0}, DOMAIN s = 1..n, NEW load, \A i \in 1..n : load[s[i]] \in Nat
  PROVE  /\ LeastLoaded(s, load) \in Range(s)
         /\ \A i \in 1..n : load[LeastLoaded(s, load)] <= load[s[i]]
<1> DEFINE L == {load[s[i]] : i \in 1..n}
           Best(i) == \A j \in DOMAIN s :
                        \/ load[s[i]] < load[s[j]]
                        \/ load[s[i]] = load[s[j]] /\ i <= j
<1>1. 1 \in 1..n
  OBVIOUS
<1>2. L \in SUBSET Nat /\ L # {}
  BY <1>1, Zenon
<1>3. PICK m \in L : \A x \in L : m <= x
  <2> HIDE DEF L
  <2>1. QED
    BY <1>2, LeastNatural, Zenon
<1> DEFINE I == {i \in 1..n : load[s[i]] = m}
<1>4. I \in SUBSET Nat /\ I # {}
  BY <1>3, UpToNat, Zenon
<1>5. PICK i \in I : \A x \in I : i <= x
  <2> HIDE DEF I
  <2>1. QED
    BY <1>4, LeastNatural, Zenon
<1>6. i \in DOMAIN s /\ Best(i)
  <2>1. ASSUME NEW j \in 1..n
        PROVE  load[s[i]] < load[s[j]] \/ (load[s[i]] = load[s[j]] /\ i <= j)
    <3>1. load[s[i]] = m /\ m <= load[s[j]] /\ load[s[j]] \in Nat /\ m \in Nat
      BY <1>2, <1>3, <1>5, Zenon
    <3>2. load[s[j]] = m => i <= j
      BY <1>5, Zenon
    <3> HIDE DEF I, L
    <3>3. QED
      BY <3>1, <3>2
  <2>2. QED
    BY <1>5, <2>1, Zenon
<1> DEFINE b == CHOOSE k \in DOMAIN s : Best(k)
<1>7. b \in DOMAIN s /\ Best(b) /\ LeastLoaded(s, load) = s[b]
  BY <1>6, Zenon DEF LeastLoaded
<1> HIDE DEF b
<1>8. ASSUME NEW j \in 1..n PROVE load[s[b]] <= load[s[j]]
  <2>1. load[s[b]] < load[s[j]] \/ load[s[b]] = load[s[j]]
    BY <1>7, Zenon
  <2>2. load[s[b]] \in Nat /\ load[s[j]] \in Nat
    BY <1>7, Zenon
  <2> HIDE DEF Best, I, L
  <2>3. QED
    BY <2>1, <2>2
<1>9. QED
  BY <1>7, <1>8, Zenon DEF Range

\* The cap: a replica is within it iff none is more than delta below it.
LEMMA WithinCap ==
  ASSUME NEW s, NEW C, Range(s) = C, C # {}, NEW load, \A h \in C : load[h] \in Nat,
         NEW delta \in Int, NEW h \in C
  PROVE  h \in Within(s, delta, load) <=> ~(\E j \in C : load[h] > load[j] + delta)
<1> DEFINE L == {load[x] : x \in C}
           m == MinInFlight(s, load)
<1>1. L \in SUBSET Nat /\ L # {} /\ m = Min(L)
  BY Zenon DEF MinInFlight
<1>2. m \in L /\ \A x \in L : m <= x
  <2> HIDE DEF L
  <2>1. \E x \in L : \A y \in L : x <= y
    BY <1>1, LeastNatural, Zenon
  <2>2. QED
    BY <1>1, <2>1, Zenon DEF Min
<1>3. PICK j \in C : m = load[j]
  BY <1>2, Zenon
<1>4. m \in Nat /\ load[h] \in Nat /\ \A x \in C : load[x] \in Nat /\ m <= load[x]
  BY <1>1, <1>2, Zenon
<1>5. h \in Within(s, delta, load) <=> load[h] <= m + delta
  BY Zenon DEF Within
<1> HIDE DEF L, m
<1>6. CASE load[h] <= m + delta
  <2>1. ASSUME NEW x \in C PROVE ~(load[h] > load[x] + delta)
    <3>1. load[x] \in Nat /\ m <= load[x]
      BY <1>4, Zenon
    <3>2. QED
      BY <1>4, <1>6, <3>1
  <2>2. QED
    BY <1>5, <1>6, <2>1, Zenon
<1>7. CASE ~(load[h] <= m + delta)
  <2>1. load[h] > m + delta
    BY <1>4, <1>7
  <2>2. QED
    BY <1>3, <1>5, <1>7, <2>1, Zenon
<1>8. QED
  BY <1>6, <1>7, Zenon

\* The first r of a ranking are in it.
Begins(w, s, r, C) ==
  /\ w \in Seq(C) /\ DOMAIN w = 1..r
  /\ \A i \in 1..r : w[i] = s[i] /\ i \in DOMAIN s /\ s[i] \in C

\* cappedPick's ranked[:r] is the beginning of the ranking.
LEMMA FirstOnes ==
  ASSUME NEW C, NEW s \in Seq(C), NEW r \in 1 .. Len(s)
  PROVE  Begins(SubSeq(s, 1, r), s, r, C)
BY DEF Begins

\* What cappedPick promises, with F the replicas within the cap.
Picked(pick, s, r, delta, F) ==
  /\ pick.host \in Range(s)
  /\ delta >= 0 => pick.host \in F
  /\ ~pick.demoted => pick.host \in Range(SubSeq(s, 1, r))
  /\ pick.demoted <=> delta >= 0 /\ \A i \in 1..r : s[i] \notin F

\* A sequence with a member is not empty.
LEMMA NotEmpty ==
  ASSUME NEW T, NEW s \in Seq(T)
  PROVE  /\ Len(s) \in Nat /\ DOMAIN s = 1 .. Len(s)
         /\ s # <<>> <=> Len(s) \in Nat \ {0}
         /\ s # <<>> <=> Range(s) # {}
<1>1. Len(s) \in Nat /\ DOMAIN s = 1 .. Len(s) /\ (s # <<>> <=> Len(s) \in Nat \ {0})
  OBVIOUS
<1>2. CASE s = <<>>
  <2>1. ~(\E i \in DOMAIN s : TRUE)
    BY <1>2
  <2>2. QED
    BY <1>1, <1>2, <2>1, Zenon DEF Range
<1>3. CASE s # <<>>
  <2>1. 1 \in DOMAIN s
    BY <1>1, <1>3
  <2>2. QED
    BY <1>1, <1>3, <2>1, Zenon DEF Range
<1>4. QED
  BY <1>2, <1>3, Zenon

\* cappedPick: under a cap the pick is within it, and it is one of the first r
\* unless none of those is.
LEMMA PickIsCapped ==
  ASSUME NEW C, NEW s, Ranking(s, C), NEW load, \A h \in C : load[h] \in Nat,
         NEW delta \in Int, NEW r \in 1 .. Len(s)
  PROVE  Picked(CappedPick(s, r, delta, load), s, r, delta, Within(s, delta, load))
<1> DEFINE warm == SubSeq(s, 1, r)
           F == Within(s, delta, load)
           within == Keep(warm, F)
           pick == CappedPick(s, r, delta, load)
<1>1. s \in Seq(C) /\ Len(s) \in Nat \ {0} /\ Range(s) = C
  BY Zenon DEF Ranking
<1>2. /\ warm \in Seq(C) /\ DOMAIN warm = 1..r
      /\ \A i \in 1..r : warm[i] = s[i] /\ i \in DOMAIN s /\ s[i] \in C
  <2>1. Begins(warm, s, r, C)
    BY <1>1, FirstOnes, Zenon
  <2>2. QED
    BY <2>1, Zenon DEF Begins
<1>3. r \in Nat \ {0} /\ DOMAIN s = 1 .. Len(s) /\ 1 \in 1 .. Len(s)
  BY <1>1
<1>4. /\ within \in Seq(C) /\ Range(within) = Range(warm) \cap F
  <2> HIDE DEF warm, F
  <2>1. QED
    BY <1>2, Kept, Zenon
<1>5. Range(warm) \subseteq Range(s) /\ \A h : h \in Range(warm) <=> \E i \in 1..r : s[i] = h
  BY <1>2, Zenon DEF Range
<1>6. delta >= 0 <=> ~(delta < 0)
  OBVIOUS
<1>7. /\ delta < 0 => pick = [host |-> LeastLoaded(warm, load), demoted |-> FALSE]
      /\ ~(delta < 0) /\ within # <<>> => pick = [host |-> LeastLoaded(within, load), demoted |-> FALSE]
      /\ ~(delta < 0) /\ within = <<>> => pick = [host |-> LeastLoaded(s, load), demoted |-> TRUE]
  BY Zenon DEF CappedPick
<1> HIDE DEF warm, within, pick
<1>8. CASE delta < 0
  <2>1. \A i \in 1..r : load[warm[i]] \in Nat
    BY <1>2, Zenon
  <2>2. LeastLoaded(warm, load) \in Range(warm)
    BY <1>2, <1>3, <2>1, LeastLoadedIsLeast, Zenon
  <2>3. pick.host = LeastLoaded(warm, load) /\ pick.demoted = FALSE
    BY <1>7, <1>8
  <2>4. Picked(pick, s, r, delta, F)
    BY <1>5, <1>6, <1>8, <2>2, <2>3, Zenon DEF Picked, warm
  <2>5. QED
    BY <2>4, Zenon DEF pick
<1>9. CASE ~(delta < 0) /\ within # <<>>
  <2>0. Len(within) \in Nat \ {0} /\ DOMAIN within = 1 .. Len(within) /\ Range(within) # {}
    BY <1>4, <1>9, NotEmpty, Zenon
  <2>1. \A i \in 1 .. Len(within) : load[within[i]] \in Nat
    <3>1. \A i \in 1 .. Len(within) : within[i] \in C
      BY <1>4
    <3>2. QED
      BY <3>1, Zenon
  <2>2. LeastLoaded(within, load) \in Range(within)
    BY <2>0, <2>1, LeastLoadedIsLeast, Zenon
  <2>3. pick.host = LeastLoaded(within, load) /\ pick.demoted = FALSE
    BY <1>7, <1>9
  <2>4. Picked(pick, s, r, delta, F)
    BY <1>4, <1>5, <1>6, <1>9, <2>0, <2>2, <2>3, Zenon DEF Picked, warm
  <2>5. QED
    BY <2>4, Zenon DEF pick
<1>10. CASE ~(delta < 0) /\ within = <<>>
  <2>0. Range(within) = {}
    BY <1>4, <1>10, NotEmpty, Zenon
  <2>1. \A i \in 1 .. Len(s) : load[s[i]] \in Nat /\ s[i] \in C
    <3>1. \A i \in 1 .. Len(s) : s[i] \in C
      BY <1>1
    <3>2. QED
      BY <3>1, Zenon
  <2>2. /\ LeastLoaded(s, load) \in Range(s)
        /\ \A i \in 1 .. Len(s) : load[LeastLoaded(s, load)] <= load[s[i]]
    BY <1>1, <1>3, <2>1, LeastLoadedIsLeast, Zenon
  <2>3. pick.host = LeastLoaded(s, load) /\ pick.demoted = TRUE
    BY <1>7, <1>10
  <2>4. pick.host \in F
    <3>1. \A j \in C : load[pick.host] <= load[j] /\ load[j] \in Nat
      BY <1>1, <1>3, <2>2, <2>3, Zenon DEF Range
    <3>2. pick.host \in C /\ load[pick.host] \in Nat
      BY <1>1, <2>2, <2>3, Zenon
    <3>3. ASSUME NEW j \in C PROVE ~(load[pick.host] > load[j] + delta)
      <4>1. load[pick.host] <= load[j] /\ load[j] \in Nat
        BY <3>1, Zenon
      <4>2. QED
        BY <1>10, <3>2, <4>1
    <3>4. C # {}
      BY <3>2, Zenon
    <3>5. QED
      BY <1>1, <3>2, <3>3, <3>4, WithinCap, Zenon
  <2>5. Picked(pick, s, r, delta, F)
    BY <1>4, <1>5, <1>6, <1>10, <2>0, <2>2, <2>3, <2>4, Zenon DEF Picked, warm
  <2>6. QED
    BY <2>5, Zenon DEF pick
<1>11. QED
  BY <1>8, <1>9, <1>10, Zenon

\* Two lists without a common member, one behind the other.
Appended(u, a, b, m, n, T) ==
  /\ u \in Seq(T) /\ DOMAIN u = 1 .. m + n
  /\ \A i \in 1..m : i \in DOMAIN u /\ u[i] = a[i]
  /\ \A i \in 1..n : m + i \in DOMAIN u /\ u[m + i] = b[i]
  /\ \A i \in DOMAIN u : (i \in 1..m /\ u[i] = a[i]) \/ (i - m \in 1..n /\ u[i] = b[i - m])

\* Concatenation does that.
LEMMA ConcatAppends ==
  ASSUME NEW T, NEW a \in Seq(T), NEW b \in Seq(T)
  PROVE  Appended(a \o b, a, b, Len(a), Len(b), T)
<1> DEFINE u == a \o b
           m == Len(a)
           n == Len(b)
<1>1. u \in Seq(T) /\ DOMAIN u = 1 .. m + n
  OBVIOUS
<1>2. \A i \in 1..m : i \in DOMAIN u /\ u[i] = a[i]
  OBVIOUS
<1>3. \A i \in 1..n : m + i \in DOMAIN u /\ u[m + i] = b[i]
  OBVIOUS
<1>4. m \in Nat /\ n \in Nat
  OBVIOUS
<1> HIDE DEF u, m, n
<1>5. ASSUME NEW i \in DOMAIN u
      PROVE  (i \in 1..m /\ u[i] = a[i]) \/ (i - m \in 1..n /\ u[i] = b[i - m])
  <2>1. i \in 1 .. m + n
    BY <1>1, Zenon
  <2>2. i \in 1..m \/ (i - m \in 1..n /\ m + (i - m) = i)
    BY <1>4, <2>1
  <2>3. CASE i \in 1..m
    BY <1>2, <2>3, Zenon
  <2>4. CASE i - m \in 1..n /\ m + (i - m) = i
    <3>1. u[m + (i - m)] = b[i - m]
      BY <1>3, <2>4, Zenon
    <3>2. QED
      BY <2>4, <3>1
  <2>5. QED
    BY <2>2, <2>3, <2>4, Zenon
<1>6. Appended(u, a, b, m, n, T)
  BY <1>1, <1>2, <1>3, <1>5, Zenon DEF Appended
<1>7. QED
  BY <1>6, Zenon DEF u, m, n

\* Decide appends the hosts over the cap to those within it: nothing is
\* repeated or lost, and behind one of the second list come only its like.
LEMMA OneBehindTheOther ==
  ASSUME NEW T, NEW a \in Seq(T), NEW b \in Seq(T), IsInjective(a), IsInjective(b),
         Range(a) \cap Range(b) = {}
  PROVE  /\ a \o b \in Seq(T) /\ IsInjective(a \o b) /\ Range(a \o b) = Range(a) \cup Range(b)
         /\ \A i, j \in DOMAIN (a \o b) : i < j /\ (a \o b)[i] \in Range(b) => (a \o b)[j] \in Range(b)
<1> DEFINE u == a \o b
           m == Len(a)
           n == Len(b)
<1>1. m \in Nat /\ n \in Nat /\ DOMAIN a = 1..m /\ DOMAIN b = 1..n
  OBVIOUS
<1>2. Appended(u, a, b, m, n, T)
  BY ConcatAppends, Zenon
<1> HIDE DEF u, m, n
<1>3. /\ u \in Seq(T) /\ DOMAIN u = 1 .. m + n
      /\ \A i \in 1..m : i \in DOMAIN u /\ u[i] = a[i]
      /\ \A i \in 1..n : m + i \in DOMAIN u /\ u[m + i] = b[i]
      /\ \A i \in DOMAIN u : (i \in 1..m /\ u[i] = a[i]) \/ (i - m \in 1..n /\ u[i] = b[i - m])
  BY <1>2, Zenon DEF Appended
<1>4. /\ \A i \in 1..m : a[i] \in Range(a) /\ a[i] \notin Range(b)
      /\ \A i \in 1..n : b[i] \in Range(b) /\ b[i] \notin Range(a)
  BY <1>1, Zenon DEF Range
<1>5. Range(u) = Range(a) \cup Range(b)
  <2>1. ASSUME NEW x \in Range(u) PROVE x \in Range(a) \cup Range(b)
    <3>1. PICK i \in DOMAIN u : u[i] = x
      BY <2>1, Zenon DEF Range
    <3>2. QED
      BY <1>3, <1>4, <3>1, Zenon
  <2>2. ASSUME NEW x \in Range(a) \cup Range(b) PROVE x \in Range(u)
    <3>1. (\E i \in 1..m : a[i] = x) \/ (\E i \in 1..n : b[i] = x)
      BY <1>1, <2>2, Zenon DEF Range
    <3>2. \E i \in DOMAIN u : u[i] = x
      BY <1>3, <3>1, Zenon
    <3>3. QED
      BY <3>2, Zenon DEF Range
  <2>3. QED
    BY <2>1, <2>2, Zenon
<1>6. ASSUME NEW i \in DOMAIN u, NEW j \in DOMAIN u, u[i] = u[j] PROVE i = j
  <2>1. CASE i \in 1..m /\ u[i] = a[i]
    <3>1. j \in 1..m /\ u[j] = a[j]
      BY <1>3, <1>4, <1>6, <2>1, Zenon
    <3>2. QED
      BY <1>1, <1>6, <2>1, <3>1, Zenon DEF IsInjective
  <2>2. CASE i - m \in 1..n /\ u[i] = b[i - m]
    <3>1. j - m \in 1..n /\ u[j] = b[j - m]
      BY <1>3, <1>4, <1>6, <2>2, Zenon
    <3>2. i - m = j - m
      BY <1>1, <1>6, <2>2, <3>1, Zenon DEF IsInjective
    <3>3. i \in Nat /\ j \in Nat
      BY <1>1, <1>3
    <3>4. QED
      BY <1>1, <3>2, <3>3
  <2>3. QED
    BY <1>3, <2>1, <2>2, Zenon
<1>7. ASSUME NEW i \in DOMAIN u, NEW j \in DOMAIN u, i < j, u[i] \in Range(b)
      PROVE  u[j] \in Range(b)
  <2>1. i - m \in 1..n
    BY <1>3, <1>4, <1>7, Zenon
  <2>2. i \in Nat /\ j \in Nat
    BY <1>1, <1>3
  <2>3. ~(j \in 1..m)
    BY <1>1, <1>7, <2>1, <2>2
  <2>4. QED
    BY <1>3, <1>4, <2>3, Zenon
<1>8. QED
  BY <1>3, <1>5, <1>6, <1>7, Zenon DEF u, IsInjective

\* A list without repetitions is as long as the set of its members.
LEMMA LengthIsCount ==
  ASSUME NEW T, NEW s \in Seq(T), IsInjective(s)
  PROVE  IsFiniteSet(Range(s)) /\ Cardinality(Range(s)) = Len(s)
<1>1. Len(s) \in Nat /\ s \in [1 .. Len(s) -> T] /\ DOMAIN s = 1 .. Len(s)
  OBVIOUS
<1>2. s = [i \in 1 .. Len(s) |-> s[i]]
  BY <1>1, Zenon
<1>3. s \in [1 .. Len(s) -> Range(s)]
  BY <1>1, Zenon DEF Range
<1>4. \A t \in Range(s) : \E i \in 1 .. Len(s) : s[i] = t
  BY <1>1, Zenon DEF Range
<1>5. s \in Surjection(1 .. Len(s), Range(s)) /\ s \in Injection(1 .. Len(s), Range(s))
  BY <1>3, <1>4, Zenon DEF Surjection, Injection
<1>6. IsFiniteSet(1 .. Len(s)) /\ Cardinality(1 .. Len(s)) = Len(s)
  BY <1>1, UpTo, Zenon
<1>7. QED
  BY <1>5, <1>6, FS_Surjection, Zenon

\* An order over the candidates that starts with the pick and, under a cap, has
\* nothing within the cap F behind something over it.
Ordered(o, C, pick, delta, F) ==
  /\ Range(o) = C /\ Len(o) = Cardinality(C) /\ o[1] = pick
  /\ delta >= 0 => \A i, j \in DOMAIN o : i < j /\ o[i] \notin F => o[j] \notin F

\* The front of a list, and the others one place further.
Pushed(u, x, s) ==
  /\ u[1] = x /\ DOMAIN u = 1 .. Len(s) + 1
  /\ \A i \in DOMAIN u : i # 1 => i - 1 \in DOMAIN s /\ u[i] = s[i - 1]

\* Decide puts its pick in front of the rest.
LEMMA FrontIsFirst ==
  ASSUME NEW T, NEW s \in Seq(T), NEW x
  PROVE  Pushed(<<x>> \o s, x, s)
BY DEF Pushed

\* The order Decide builds.
LEMMA OrderIsOrdered ==
  ASSUME NEW C, NEW s, Ranking(s, C), NEW load, NEW delta \in Int, NEW pick \in C,
         delta >= 0 => pick \in Within(s, delta, load)
  PROVE  Ordered(PreferenceOrder(s, pick, delta, load), C, pick, delta, Within(s, delta, load))
<1> DEFINE F == Within(s, delta, load)
           rest == Keep(s, Range(s) \ {pick})
           ins == Keep(rest, F)
           outs == Keep(rest, Range(s) \ F)
           tail == IF delta < 0 THEN rest ELSE ins \o outs
           o == PreferenceOrder(s, pick, delta, load)
<1>0. o = <<pick>> \o tail
  BY Zenon DEF PreferenceOrder
<1> HIDE DEF o
<1>1. s \in Seq(C) /\ IsInjective(s) /\ Range(s) = C
  BY Zenon DEF Ranking
<1>2. rest \in Seq(C) /\ IsInjective(rest) /\ Range(rest) = C \ {pick}
  <2>1. rest \in Seq(C) /\ IsInjective(rest) /\ Range(rest) = Range(s) \cap (Range(s) \ {pick})
    BY <1>1, Kept, Zenon
  <2>2. QED
    BY <1>1, <2>1, Zenon
<1> HIDE DEF rest
<1>3. ins \in Seq(C) /\ IsInjective(ins) /\ Range(ins) = (C \ {pick}) \cap F
  <2> HIDE DEF F
  <2>1. ins \in Seq(C) /\ IsInjective(ins) /\ Range(ins) = Range(rest) \cap F
    BY <1>2, Kept, Zenon
  <2>2. QED
    BY <1>2, <2>1, Zenon
<1>4. outs \in Seq(C) /\ IsInjective(outs) /\ Range(outs) = (C \ {pick}) \ F
  <2> HIDE DEF F
  <2>1. outs \in Seq(C) /\ IsInjective(outs) /\ Range(outs) = Range(rest) \cap (Range(s) \ F)
    BY <1>2, Kept, Zenon
  <2>2. QED
    BY <1>1, <1>2, <2>1, Zenon
<1> HIDE DEF ins, outs, F
<1>5. /\ tail \in Seq(C) /\ IsInjective(tail) /\ Range(tail) = C \ {pick}
      /\ ~(delta < 0) => \A i, j \in DOMAIN tail : i < j /\ tail[i] \notin F => tail[j] \notin F
  <2>1. CASE delta < 0
    BY <1>2, <2>1, Zenon
  <2>2. CASE ~(delta < 0)
    <3> DEFINE c == ins \o outs
    <3>0. Range(ins) \cap Range(outs) = {}
      BY <1>3, <1>4, Zenon
    <3>1. /\ c \in Seq(C) /\ IsInjective(c) /\ Range(c) = Range(ins) \cup Range(outs)
          /\ \A i, j \in DOMAIN c : i < j /\ c[i] \in Range(outs) => c[j] \in Range(outs)
      BY <1>3, <1>4, <3>0, OneBehindTheOther, Zenon
    <3>2. tail = c
      BY <2>2, Zenon
    <3> HIDE DEF c, tail
    <3>3. Range(c) = C \ {pick}
      BY <1>3, <1>4, <3>1, Zenon
    <3>4. \A i \in DOMAIN c : c[i] \in Range(outs) <=> c[i] \notin F
      BY <1>4, <3>3, Zenon DEF Range
    <3>5. QED
      BY <3>1, <3>2, <3>3, <3>4, Zenon
  <2>3. QED
    BY <2>1, <2>2, Zenon
<1> HIDE DEF tail
<1>6. pick \notin Range(tail)
  BY <1>5, Zenon
<1>7. /\ o \in Seq(C) /\ IsInjective(o) /\ Range(o) = C
  <2>1. ListsAlso(<<pick>> \o tail, tail, pick, C)
    BY <1>5, <1>6, PutInFront, Zenon
  <2>2. Range(tail) \cup {pick} = C
    BY <1>5, Zenon
  <2>3. QED
    BY <1>0, <2>1, <2>2, Zenon DEF ListsAlso
<1>8. /\ o[1] = pick /\ DOMAIN o = 1 .. Len(tail) + 1
      /\ \A i \in DOMAIN o : i # 1 => i - 1 \in DOMAIN tail /\ o[i] = tail[i - 1]
  <2>1. Pushed(o, pick, tail)
    BY <1>0, <1>5, FrontIsFirst, Zenon
  <2>2. QED
    BY <2>1, Zenon DEF Pushed
<1>9. Len(o) = Cardinality(C)
  BY <1>7, LengthIsCount, Zenon
<1>10. ASSUME delta >= 0, NEW i \in DOMAIN o, NEW j \in DOMAIN o, i < j, o[i] \notin F
       PROVE  o[j] \notin F
  <2>1. i # 1
    BY <1>8, <1>10, Zenon DEF F
  <2>2. Len(tail) \in Nat
    BY <1>5
  <2>3. i \in Nat \ {0} /\ j \in Nat \ {0}
    BY <1>8, <2>2
  <2>4. j # 1 /\ i - 1 < j - 1 /\ ~(delta < 0)
    BY <1>10, <2>1, <2>3
  <2>5. /\ i - 1 \in DOMAIN tail /\ o[i] = tail[i - 1]
        /\ j - 1 \in DOMAIN tail /\ o[j] = tail[j - 1]
    BY <1>8, <2>1, <2>4, Zenon
  <2>6. QED
    BY <1>5, <1>10, <2>4, <2>5, Zenon
<1>11. Ordered(o, C, pick, delta, F)
  BY <1>7, <1>8, <1>9, <1>10, Zenon DEF Ordered
<1>12. QED
  BY <1>11, Zenon DEF o, F

\* The interpolated rate is a number.
LEMMA InterpolatedIsNumber ==
  ASSUME NEW p \in Nat, NEW c \in Nat, NEW now \in Instants
  PROVE  Interpolated(p, c, now) \in Int
<1>1. now % Minute \in Int /\ Minute \in Int
  BY WindowInTime, ShadowAssumption
<1>2. Minute - (now % Minute) \in Int
  BY <1>1
<1> DEFINE x == now % Minute
<1> HIDE DEF x
<1>3. Minute - x \in Int /\ p \in Int /\ c \in Int /\ Minute \in Int
  BY <1>1, <1>2 DEF x
<1>4. p * (Minute - x) + c * Minute \in Int
  BY <1>3
<1>5. QED
  BY <1>4, Zenon DEF Interpolated, x

\* So is the rate that Decide reads.
LEMMA PeekedIsNumber ==
  ASSUME Shaped(table), NEW key, NEW now \in Instants
  PROVE  PeekRate(key, now) \in Int
<1> DEFINE e == Entries[key]
           w == WindowAt(now)
<1>1. CASE key \notin DOMAIN Entries
  <2>1. PeekRate(key, now) = 0
    BY <1>1, Zenon DEF PeekRate
  <2>2. QED
    BY <2>1
<1>2. CASE key \in DOMAIN Entries
  <2>1. e \in EntryShape
    BY <1>2, Zenon DEF Shaped, Entries
  <2>2. e.prev \in Nat /\ e.cur \in Nat /\ 0 \in Nat /\ e.windowStart \in Int
    BY <2>1 DEF EntryShape
  <2>3. w \in Nat /\ Minute \in Nat \ {0}
    BY WindowInTime, ShadowAssumption, Zenon
  <2>4. /\ Interpolated(e.prev, e.cur, now) \in Int /\ Interpolated(e.cur, 0, now) \in Int
        /\ 0 \in Int
    <3>1. 0 \in Int
      OBVIOUS
    <3>2. QED
      BY <2>2, <3>1, InterpolatedIsNumber, Zenon
  <2>5. PeekRate(key, now) = CASE e.windowStart = w -> Interpolated(e.prev, e.cur, now)
                               [] w - e.windowStart = Minute -> Interpolated(e.cur, 0, now)
                               [] OTHER -> 0
    BY <1>2, Zenon DEF PeekRate
  <2> HIDE DEF e, w
  <2>6. ~(e.windowStart = w /\ w - e.windowStart = Minute)
    BY <2>2, <2>3
  <2>7. QED
    BY <2>4, <2>5, <2>6
<1>3. QED
  BY <1>1, <1>2, Zenon

\* A home and a warm set that fit the ranking.
Homed(home, r, ranked) ==
  /\ r \in 1 .. Len(ranked) /\ r \in 1 .. Cardinality(Hosts)
  /\ home \in Hosts /\ <<home, r>> \in Groups

\* Decide and observeKeyed take the home and the size of the warm set so.
LEMMA HomeFits ==
  ASSUME NEW key \in Keys, NEW o \in Offers, o.pool.cands # {}, NEW rate \in Int
  PROVE  LET ranked == Rank(key, o.pool.cands)
         IN  Homed(ranked[1], Factor(rate, o.cfg, ranked), ranked)
<1> DEFINE C == o.pool.cands
           s == Rank(key, C)
           r == Factor(rate, o.cfg, s)
           t == o.cfg.threshold * Minute
<1>1. C \in SUBSET Hosts /\ o.cfg.threshold \in Int /\ Minute \in Int
  <2>1. C \in SUBSET Hosts /\ o.cfg.threshold \in Int
    BY ShadowAssumption, Zenon
  <2>2. Minute \in Int
    BY ShadowAssumption
  <2>3. QED
    BY <2>1, <2>2, Zenon
<1>2. Ranking(s, C)
  BY <1>1, RankIsRanking, Zenon
<1>3. t \in Int
  BY <1>1
<1>4. s \in Seq(C) /\ Len(s) = Cardinality(C) /\ Len(s) \in Nat \ {0}
  BY <1>2, Zenon DEF Ranking
<1>5. r \in 1 .. Len(s)
  <2> HIDE DEF s, t
  <2>1. ReplicationFactor(rate, t, Len(s)) \in 1 .. Len(s)
    BY <1>3, <1>4, FactorInRange, Zenon
  <2>2. QED
    BY <2>1, Zenon DEF Factor, t
<1> HIDE DEF s, r, t
<1>6. s[1] \in C
  BY <1>4
<1>7. Cardinality(C) <= Cardinality(Hosts) /\ Cardinality(Hosts) \in Nat
  BY <1>1, RendezvousAssumption, FS_Subset, FS_CardinalityType, Zenon
<1>8. r \in 1 .. Cardinality(Hosts)
  <2> DEFINE c == Cardinality(C)
             h == Cardinality(Hosts)
  <2>1. Len(s) = c /\ c <= h /\ h \in Nat /\ c \in Nat
    BY <1>4, <1>7, Zenon
  <2> HIDE DEF c, h
  <2>2. r \in 1..h
    BY <1>5, <2>1
  <2>3. QED
    BY <2>2, Zenon DEF h
<1>9. <<s[1], r>> \in Groups
  <2>1. s[1] \in Hosts
    BY <1>1, <1>6, Zenon
  <2>2. QED
    BY <1>8, <2>1, Zenon DEF Groups
<1>10. Homed(s[1], r, s)
  BY <1>1, <1>5, <1>6, <1>8, <1>9, Zenon DEF Homed
<1>11. QED
  BY <1>10, Zenon DEF s, r

\* A replica that is over the cap, as DecisionSound says it.
Over(h, pool, cfg) == cfg.delta >= 0 /\ \E j \in pool.cands : pool.load[h] > pool.load[j] + cfg.delta

\* What DecisionSound says of a decision d.
Promised(d, key, pool, cfg) ==
  /\ Range(d.order) = pool.cands /\ Len(d.order) = Cardinality(pool.cands)
  /\ \A i, j \in DOMAIN d.order :
       i < j /\ Over(d.order[i], pool, cfg) => Over(d.order[j], pool, cfg)
  /\ d.demoted <=> \A i \in 1 .. d.r : Over(Rank(key, pool.cands)[i], pool, cfg)
  /\ ~ d.demoted => d.order[1] \in Range(SubSeq(Rank(key, pool.cands), 1, d.r))

Decided(d, key, pool, cfg) ==
  d # NoDecision => Promised(d, key, pool, cfg) /\ <<d.home, d.r>> \in Groups

\* Decide.
LEMMA DecideIsSound ==
  ASSUME Shaped(table), clock \in Instants, NEW key \in Keys, NEW o \in Offers
  PROVE  Decided(Decide(key, o.pool, o.cfg), key, o.pool, o.cfg)
<1> DEFINE pool == o.pool
           cfg == o.cfg
           C == pool.cands
           s == Rank(key, C)
           r == Factor(PeekRate(key, clock), cfg, s)
           F == Within(s, cfg.delta, pool.load)
           pick == CappedPick(s, r, cfg.delta, pool.load)
           order == PreferenceOrder(s, pick.host, cfg.delta, pool.load)
           d == Decide(key, pool, cfg)
<1>1. CASE pool.size < 2 \/ C = {}
  BY <1>1, Zenon DEF Decide, Decided
<1>2. CASE ~(pool.size < 2 \/ C = {})
  <2>1. d = [order |-> order, home |-> s[1], r |-> r, demoted |-> pick.demoted]
    BY <1>2, Zenon DEF Decide
  <2>2. C \in SUBSET Hosts /\ pool.load \in [Hosts -> Nat] /\ cfg.delta \in Int
    BY ShadowAssumption, Zenon
  <2>3. Homed(s[1], r, s)
    <3>1. PeekRate(key, clock) \in Int
      BY PeekedIsNumber, Zenon
    <3>2. QED
      BY <1>2, <3>1, HomeFits, Zenon
  <2>4. Ranking(s, C)
    BY <1>2, <2>2, RankIsRanking, Zenon
  <2>5. r \in 1 .. Len(s) /\ <<s[1], r>> \in Groups
    BY <2>3, Zenon DEF Homed
  <2>6. \A h \in C : pool.load[h] \in Nat
    BY <2>2, Zenon
  <2>7. d.order = order /\ d.home = s[1] /\ d.r = r /\ d.demoted = pick.demoted
    <3> HIDE DEF s, r, d, order, pick
    <3>1. QED
      BY <2>1
  <2> HIDE DEF s, r, d
  <2>8. Picked(pick, s, r, cfg.delta, F)
    BY <2>2, <2>4, <2>5, <2>6, PickIsCapped, Zenon
  <2>9. Range(s) = C /\ DOMAIN s = 1 .. Len(s) /\ Len(s) \in Nat /\ s \in Seq(C)
    <3>1. Range(s) = C /\ s \in Seq(C)
      BY <2>4, Zenon DEF Ranking
    <3>2. QED
      BY <3>1
  <2>10. pick.host \in C /\ (cfg.delta >= 0 => pick.host \in F)
    BY <2>8, <2>9, Zenon DEF Picked
  <2> HIDE DEF pick
  <2>11. Ordered(order, C, pick.host, cfg.delta, F)
    BY <2>2, <2>4, <2>10, OrderIsOrdered, Zenon
  <2> HIDE DEF order, F
  <2>12. \A h \in C : Over(h, pool, cfg) <=> cfg.delta >= 0 /\ h \notin F
    <3>1. \A h \in C : h \in F <=> ~(\E j \in C : pool.load[h] > pool.load[j] + cfg.delta)
      BY <1>2, <2>2, <2>6, <2>9, WithinCap, Zenon DEF F
    <3>2. QED
      BY <3>1, Zenon DEF Over
  <2>13. \A i \in 1..r : s[i] \in C
    BY <2>5, <2>9
  <2>14. \A i \in DOMAIN order : order[i] \in C
    BY <2>11, Zenon DEF Ordered, Range
  <2>15. Range(order) = C /\ Len(order) = Cardinality(C) /\ order[1] = pick.host
    BY <2>11, Zenon DEF Ordered
  <2>16. \A i, j \in DOMAIN order : i < j /\ Over(order[i], pool, cfg) => Over(order[j], pool, cfg)
    BY <2>11, <2>12, <2>14, Zenon DEF Ordered
  <2>17. pick.demoted <=> \A i \in 1..r : Over(s[i], pool, cfg)
    <3>1. 1 \in 1..r
      BY <2>5
    <3>2. pick.demoted <=> cfg.delta >= 0 /\ \A i \in 1..r : s[i] \notin F
      BY <2>8, Zenon DEF Picked
    <3>3. QED
      BY <2>12, <2>13, <3>1, <3>2, Zenon
  <2>18. ~pick.demoted => pick.host \in Range(SubSeq(s, 1, r))
    BY <2>8, Zenon DEF Picked
  <2>19. Promised(d, key, pool, cfg)
    <3>1. /\ Range(d.order) = C /\ Len(d.order) = Cardinality(C)
          /\ \A i, j \in DOMAIN d.order :
               i < j /\ Over(d.order[i], pool, cfg) => Over(d.order[j], pool, cfg)
      BY <2>7, <2>15, <2>16, Zenon
    <3>2. d.demoted <=> \A i \in 1 .. d.r : Over(Rank(key, pool.cands)[i], pool, cfg)
      BY <2>7, <2>17, Zenon DEF s
    <3>3. ~d.demoted => d.order[1] \in Range(SubSeq(Rank(key, pool.cands), 1, d.r))
      BY <2>7, <2>15, <2>18, Zenon DEF s
    <3>4. QED
      BY <3>1, <3>2, <3>3, Zenon DEF Promised
  <2>20. QED
    BY <2>5, <2>7, <2>19, Zenon DEF Decided, d
<1>3. QED
  BY <1>1, <1>2, Zenon

\* The group that observeKeyed records.
LEMMA RecordedIsGroup ==
  ASSUME NEW key \in Keys, NEW o \in Offers, o.pool.cands # {}, NEW d,
         Decided(d, key, o.pool, o.cfg), NEW b \in EntryShape, NEW now \in Instants
  PROVE  RecordedGroup(b, key, o.pool, d, o.cfg, now) \in Groups
<1> DEFINE s == Rank(key, o.pool.cands)
           rate == Interpolated(b.prev, b.cur, now)
<1>1. CASE d # NoDecision
  BY <1>1, Zenon DEF Decided, RecordedGroup
<1>2. CASE d = NoDecision
  <2>1. b.prev \in Nat /\ b.cur \in Nat
    BY DEF EntryShape
  <2>2. rate \in Int
    BY <2>1, InterpolatedIsNumber, Zenon
  <2> HIDE DEF rate
  <2>3. Homed(s[1], Factor(rate, o.cfg, s), s)
    BY <2>2, HomeFits, Zenon
  <2>4. QED
    BY <1>2, <2>3, Zenon DEF Homed, RecordedGroup, rate
<1>3. QED
  BY <1>1, <1>2, Zenon

-----------------------------------------------------------------------------
(***************************************************************************)
(* Making room, and sweeping.                                              *)
(***************************************************************************)

\* An eviction takes a key that is in the table.
LEMMA VictimsTracked ==
  ASSUME NEW t, Consistent(t)
  PROVE  Victims(t) \subseteq DOMAIN t.entries
<1> SUFFICES ASSUME NEW k \in Victims(t) PROVE k \in DOMAIN t.entries
  BY Zenon
<1>1. PICK d \in Retentions : t.lists[d] # <<>> /\ k = t.lists[d][Len(t.lists[d])]
  BY Zenon DEF Victims
<1>2. /\ t.lists[d] \in Seq(Keys)
      /\ Range(t.lists[d]) = {x \in DOMAIN t.entries : t.entries[x].retention = d}
  BY Zenon DEF Consistent, Shaped, ListedIn
<1> DEFINE l == t.lists[d]
<1>3. l \in Seq(Keys) /\ l # <<>> /\ k = l[Len(l)]
  BY <1>1, <1>2, Zenon
<1> HIDE DEF l
<1>4. Len(l) \in DOMAIN l
  BY <1>3
<1>5. k \in Range(l)
  BY <1>3, <1>4, Zenon DEF Range
<1>6. QED
  BY <1>2, <1>5, Zenon DEF l

\* The keys of t2 are those of t1 without some, with the same entries.
Fewer(t2, t1) ==
  /\ DOMAIN t2.entries \subseteq DOMAIN t1.entries
  /\ \A k \in DOMAIN t2.entries : t2.entries[k] = t1.entries[k]

\* insertLocked has room for one more.
LEMMA RoomIsMade ==
  ASSUME NEW t1, Consistent(t1), Cardinality(DOMAIN t1.entries) <= MaxKeys, NEW t2 \in MakeRoom(t1)
  PROVE  Consistent(t2) /\ Fewer(t2, t1) /\ Cardinality(DOMAIN t2.entries) < MaxKeys
<1> DEFINE D == DOMAIN t1.entries
           c == Cardinality(D)
<1>1. IsFiniteSet(D) /\ c \in Nat /\ MaxKeys \in Nat /\ c <= MaxKeys
  BY FS_CardinalityType, ShadowAssumption, Zenon DEF Consistent, Shaped
<1>2. CASE c >= MaxKeys
  <2>1. PICK k \in Victims(t1) : t2 = EvictLocked(t1, {k})
    BY <1>2, Zenon DEF MakeRoom
  <2>2. k \in D
    BY VictimsTracked, Zenon
  <2>3. {k} \in SUBSET DOMAIN t1.entries
    BY <2>2, Zenon
  <2>4. /\ Consistent(t2) /\ DOMAIN t2.entries = D \ {k}
        /\ \A x \in D \ {k} : t2.entries[x] = t1.entries[x]
    BY <2>1, <2>3, EvictConsistent, Zenon
  <2>5. Cardinality(D \ {k}) = c - 1
    <3>1. Cardinality(D \ {k}) = IF k \in D THEN c - 1 ELSE c
      BY <1>1, FS_RemoveElement, Zenon
    <3>2. QED
      BY <2>2, <3>1, Zenon
  <2> HIDE DEF c, D
  <2>6. c - 1 < MaxKeys
    BY <1>1
  <2>7. QED
    BY <2>4, <2>5, <2>6, Zenon DEF Fewer, D
<1>3. CASE ~(c >= MaxKeys)
  <2>1. t2 = t1
    BY <1>3, Zenon DEF MakeRoom
  <2> HIDE DEF c
  <2>2. c < MaxKeys
    BY <1>1, <1>3
  <2>3. QED
    BY <2>1, <2>2, Zenon DEF Fewer, c
<1>4. QED
  BY <1>2, <1>3, Zenon

\* What is in the table once the key is at the front of its list.
AtFront(u, key, d) ==
  /\ Consistent(u) /\ key \in DOMAIN u.entries /\ u.entries[key].retention = d
  /\ Cardinality(DOMAIN u.entries) <= MaxKeys
  /\ \A k \in DOMAIN u.entries \ {key} : k \in DOMAIN Entries /\ u.entries[k] = Entries[k]
  /\ \/ u.entries[key].cur = 0 /\ u.entries[key].prev = 0
     \/ /\ key \in DOMAIN Entries
        /\ u.entries[key].cur = Entries[key].cur /\ u.entries[key].prev = Entries[key].prev

\* A touched entry keeps its counts.
Touched(b, e, d) == b.retention = d /\ b.cur = e.cur /\ b.prev = e.prev

\* touchLocked changes only the window.
LEMMA TouchKeepsCounts ==
  ASSUME NEW e \in EntryShape, NEW d
  PROVE  Touched([e EXCEPT !.retention = d], e, d)
<1> DEFINE b == [e EXCEPT !.retention = d]
<1>1. b.retention = d /\ b.cur = e.cur /\ b.prev = e.prev
  BY DEF EntryShape
<1>2. QED
  BY <1>1, Zenon DEF Touched

\* The key is touched, or it is inserted in a table that has room.
LEMMA PresentAtFront ==
  ASSUME Consistent(table), Cardinality(DOMAIN Entries) <= MaxKeys,
         NEW key \in Keys, NEW d \in Retentions, NEW u \in Present(key, d)
  PROVE  AtFront(u, key, d)
<1>1. CASE key \in DOMAIN Entries
  <2>1. u = TouchLocked(table, key, d) /\ key \in DOMAIN table.entries
    BY <1>1, Zenon DEF Present, Entries
  <2>2. /\ Consistent(u) /\ DOMAIN u.entries = DOMAIN table.entries
        /\ u.entries[key] = [table.entries[key] EXCEPT !.retention = d]
        /\ \A k \in DOMAIN table.entries \ {key} : u.entries[k] = table.entries[k]
    <3> DEFINE i == TouchLocked(table, key, d)
    <3>1. /\ Consistent(i) /\ DOMAIN i.entries = DOMAIN table.entries
          /\ i.entries[key] = [table.entries[key] EXCEPT !.retention = d]
          /\ \A k \in DOMAIN table.entries \ {key} : i.entries[k] = table.entries[k]
      BY <2>1, TouchConsistent
    <3> HIDE DEF i
    <3>2. u = i
      BY <2>1, Zenon DEF i
    <3>3. QED
      BY <3>1, <3>2, Zenon
  <2>3. table.entries[key] \in EntryShape
    BY <2>1, Zenon DEF Consistent, Shaped
  <2>4. Touched(u.entries[key], table.entries[key], d)
    <3>1. Touched([table.entries[key] EXCEPT !.retention = d], table.entries[key], d)
      BY <2>3, TouchKeepsCounts, Zenon
    <3>2. QED
      BY <2>2, <3>1, Zenon
  <2>5. /\ u.entries[key].retention = d
        /\ u.entries[key].cur = Entries[key].cur /\ u.entries[key].prev = Entries[key].prev
    BY <2>4, Zenon DEF Touched, Entries
  <2>6. \A k \in DOMAIN u.entries \ {key} : k \in DOMAIN Entries /\ u.entries[k] = Entries[k]
    BY <2>2, Zenon DEF Entries
  <2>7. Cardinality(DOMAIN u.entries) <= MaxKeys /\ key \in DOMAIN u.entries
    BY <2>1, <2>2, Zenon DEF Entries
  <2>8. QED
    BY <1>1, <2>2, <2>5, <2>6, <2>7, Zenon DEF AtFront
<1>2. CASE key \notin DOMAIN Entries
  <2>1. PICK t \in MakeRoom(table) : u = InsertLocked(t, key, d)
    BY <1>2, Zenon DEF Present
  <2>2. Consistent(t) /\ Fewer(t, table) /\ Cardinality(DOMAIN t.entries) < MaxKeys
    BY RoomIsMade, Zenon DEF Entries
  <2>3. key \notin DOMAIN t.entries
    BY <1>2, <2>2, Zenon DEF Fewer, Entries
  <2>4. /\ Consistent(u) /\ DOMAIN u.entries = DOMAIN t.entries \cup {key}
        /\ u.entries[key] = FreshEntry(d)
        /\ \A k \in DOMAIN t.entries : u.entries[k] = t.entries[k]
    <3> DEFINE i == InsertLocked(t, key, d)
    <3>1. /\ Consistent(i) /\ DOMAIN i.entries = DOMAIN t.entries \cup {key}
          /\ i.entries[key] = FreshEntry(d)
          /\ \A k \in DOMAIN t.entries : i.entries[k] = t.entries[k]
      BY <2>2, <2>3, InsertConsistent
    <3> HIDE DEF i
    <3>2. u = i
      BY <2>1, Zenon DEF i
    <3>3. QED
      BY <3>1, <3>2, Zenon
  <2>5. FreshEntry(d).retention = d /\ FreshEntry(d).cur = 0 /\ FreshEntry(d).prev = 0
    BY DEF FreshEntry
  <2>6. \A k \in DOMAIN u.entries \ {key} : k \in DOMAIN Entries /\ u.entries[k] = Entries[k]
    BY <2>2, <2>4, Zenon DEF Fewer, Entries
  <2>7. Cardinality(DOMAIN u.entries) <= MaxKeys
    <3> DEFINE c == Cardinality(DOMAIN t.entries)
    <3>1. IsFiniteSet(DOMAIN t.entries) /\ c \in Nat /\ MaxKeys \in Nat
      BY <2>2, FS_CardinalityType, ShadowAssumption, Zenon DEF Consistent, Shaped
    <3>2. Cardinality(DOMAIN t.entries \cup {key})
            = IF key \in DOMAIN t.entries THEN c ELSE c + 1
      BY <3>1, FS_AddElement, Zenon
    <3>3. Cardinality(DOMAIN u.entries) = c + 1
      BY <2>3, <2>4, <3>2, Zenon
    <3>4. c < MaxKeys
      BY <2>2, Zenon
    <3> HIDE DEF c
    <3>5. c + 1 <= MaxKeys
      BY <3>1, <3>4
    <3>6. QED
      BY <3>3, <3>5, Zenon
  <2>8. key \in DOMAIN u.entries
    BY <2>4, Zenon
  <2>9. QED
    BY <2>4, <2>5, <2>6, <2>7, <2>8, Zenon DEF AtFront
<1>3. QED
  BY <1>1, <1>2, Zenon

\* What observeKeyed leaves: the other entries as they were, and an entry of
\* the key that counts the landing and expires by the window it is listed in.
Recorded(v, key, d) ==
  /\ Consistent(v) /\ Cardinality(DOMAIN v.entries) <= MaxKeys
  /\ \A k \in DOMAIN v.entries \ {key} : k \in DOMAIN Entries /\ v.entries[k] = Entries[k]
  /\ key \in DOMAIN v.entries /\ v.entries[key] \in EntryShape /\ v.entries[key].retention = d
  /\ v.entries[key].expiry = v.entries[key].lastSeen + RetentionFactor * d
  /\ \E c, p \in Nat :
       /\ \/ c = 0 /\ p = 0
          \/ key \in DOMAIN Entries /\ c = Entries[key].cur /\ p = Entries[key].prev
       /\ v.entries[key].cur \in {1, c + 1} /\ v.entries[key].prev \in {0, c, p}
  /\ v.entries[key].cur \in 0 .. MaxLandings /\ v.entries[key].prev \in 0 .. MaxLandings
       => v.entries[key] \in EntryType

\* observeKeyed.
LEMMA ObservedIsRecorded ==
  ASSUME Consistent(table), Cardinality(DOMAIN Entries) <= MaxKeys,
         NEW key \in Keys, NEW o \in Offers, o.pool.cands # {}, NEW d,
         Decided(d, key, o.pool, o.cfg), NEW host \in Hosts, NEW now \in Instants,
         NEW v \in ObserveKeyed(key, o.pool, host, d, o.cfg, now)
  PROVE  Recorded(v, key, o.cfg.retention)
<1> DEFINE ret == o.cfg.retention
<1>1. ret \in Nat /\ ret \in Retentions
  BY ShadowAssumption, Zenon DEF Retentions
<1>2. PICK u \in Present(key, ret) :
        v = [ entries |-> [u.entries EXCEPT ![key] =
                             Landed(u.entries[key], host,
                                    RecordedGroup(BumpRate(u.entries[key], now), key, o.pool, d, o.cfg, now),
                                    o.cfg, now)],
              lists   |-> u.lists,
              counts  |-> ShiftCount(u.counts, GroupOf(u.entries[key]),
                            RecordedGroup(BumpRate(u.entries[key], now), key, o.pool, d, o.cfg, now)) ]
  BY Zenon DEF ObserveKeyed
<1> DEFINE e == u.entries[key]
           g == RecordedGroup(BumpRate(e, now), key, o.pool, d, o.cfg, now)
           l == Landed(e, host, g, o.cfg, now)
<1>3. AtFront(u, key, ret)
  <2> HIDE DEF ret
  <2>1. QED
    BY <1>1, <1>2, PresentAtFront, Zenon
<1>4. /\ Consistent(u) /\ key \in DOMAIN u.entries /\ e.retention = ret
      /\ Cardinality(DOMAIN u.entries) <= MaxKeys
      /\ \A k \in DOMAIN u.entries \ {key} : k \in DOMAIN Entries /\ u.entries[k] = Entries[k]
      /\ \/ e.cur = 0 /\ e.prev = 0
         \/ key \in DOMAIN Entries /\ e.cur = Entries[key].cur /\ e.prev = Entries[key].prev
  BY <1>3, Zenon DEF AtFront
<1>5. e \in EntryShape
  BY <1>4, Zenon DEF Consistent, Shaped
<1>6. e.cur \in Nat /\ e.prev \in Nat
  BY <1>5 DEF EntryShape
<1>7. v = [ entries |-> [u.entries EXCEPT ![key] = l], lists |-> u.lists,
            counts |-> ShiftCount(u.counts, GroupOf(e), g) ]
  BY <1>2, Zenon
<1> HIDE DEF e
<1>8. g \in Groups
  <2>1. BumpRate(e, now) \in EntryShape
    BY <1>5, BumpedEntry, Zenon
  <2>2. QED
    BY <2>1, RecordedIsGroup, Zenon
<1> HIDE DEF g
<1>9. LandedAs(l, e, g, ret)
  BY <1>1, <1>5, <1>8, LandedEntry, Zenon
<1> HIDE DEF l
<1>10. /\ l \in EntryShape /\ l.retention = e.retention /\ GroupOf(l) = g
       /\ l.expiry = l.lastSeen + RetentionFactor * ret
       /\ l.cur \in {1, e.cur + 1} /\ l.prev \in {0, e.cur, e.prev}
       /\ l.cur \in 0 .. MaxLandings /\ l.prev \in 0 .. MaxLandings => l \in EntryType
  BY <1>9, Zenon DEF LandedAs
<1>11. v = [ entries |-> [u.entries EXCEPT ![key] = l], lists |-> u.lists,
             counts |-> ShiftCount(u.counts, GroupOf(u.entries[key]), GroupOf(l)) ]
  BY <1>7, <1>10, Zenon DEF e
<1>12. l.retention = u.entries[key].retention /\ GroupOf(l) \in Groups
  BY <1>8, <1>10, Zenon DEF e
<1>13. /\ Consistent(v) /\ DOMAIN v.entries = DOMAIN u.entries /\ v.entries[key] = l
       /\ \A k \in DOMAIN u.entries \ {key} : v.entries[k] = u.entries[k]
  BY <1>4, <1>10, <1>11, <1>12, RecordConsistent
<1> HIDE DEF ret
<1>14. \E c, p \in Nat :
         /\ \/ c = 0 /\ p = 0
            \/ key \in DOMAIN Entries /\ c = Entries[key].cur /\ p = Entries[key].prev
         /\ l.cur \in {1, c + 1} /\ l.prev \in {0, c, p}
  BY <1>4, <1>6, <1>10, Zenon
<1>15. Cardinality(DOMAIN v.entries) <= MaxKeys /\ key \in DOMAIN v.entries
       /\ \A k \in DOMAIN v.entries \ {key} : k \in DOMAIN Entries /\ v.entries[k] = Entries[k]
  BY <1>4, <1>13, Zenon
<1>16. Recorded(v, key, ret)
  BY <1>4, <1>10, <1>13, <1>14, <1>15, Zenon DEF Recorded
<1>17. QED
  BY <1>16, Zenon DEF ret

\* The greatest member of a set of naturals with a bound.
LEMMA MaxOfBounded ==
  ASSUME NEW n \in Nat, NEW S \in SUBSET (0..n), S # {}
  PROVE  Max(S) \in S
<1> DEFINE D == {n - x : x \in S}
<1>1. D \in SUBSET Nat
  OBVIOUS
<1>2. D # {}
  BY Zenon
<1>3. PICK m \in D : \A k \in D : m <= k
  <2> HIDE DEF D
  <2>1. QED
    BY <1>1, <1>2, LeastNatural, Zenon
<1>4. PICK x \in S : m = n - x
  BY <1>3, Zenon
<1>5. ASSUME NEW y \in S PROVE x >= y
  <2>1. n - x <= n - y
    BY <1>3, <1>4, Zenon
  <2>2. x \in Nat /\ y \in Nat
    OBVIOUS
  <2>3. QED
    BY <2>1, <2>2
<1>6. QED
  BY <1>4, <1>5, Zenon DEF Max

\* No more entries at the back of a list are expired than it has.
LEMMA BackIsInList ==
  ASSUME Consistent(table), NEW d \in Retentions
  PROVE  ExpiredAtBack(d) \in 0 .. Len(table.lists[d])
<1> DEFINE l == table.lists[d]
           S == {n \in 0 .. Len(l) : \A i \in Len(l) - n + 1 .. Len(l) : Entries[l[i]].expiry <= clock}
<1>1. l \in Seq(Keys)
  BY Zenon DEF Consistent, Shaped
<1>2. ExpiredAtBack(d) = Max(S)
  BY Zenon DEF ExpiredAtBack
<1> HIDE DEF l
<1>3. Len(l) \in Nat
  BY <1>1
<1>4. 0 \in S
  <2>1. 0 \in 0 .. Len(l) /\ Len(l) - 0 + 1 .. Len(l) = {}
    BY <1>3
  <2>2. QED
    BY <2>1, Zenon
<1>5. S \in SUBSET (0 .. Len(l)) /\ S # {}
  BY <1>4, Zenon
<1> HIDE DEF S
<1>6. Max(S) \in S
  BY <1>3, <1>5, MaxOfBounded, Zenon
<1>7. QED
  BY <1>2, <1>5, <1>6, Zenon DEF l

\* A chunk of the sweep takes keys that are in the table.
LEMMA SweptTracked ==
  ASSUME Consistent(table), NEW n \in Chunks
  PROVE  SweptBy(n) \subseteq DOMAIN Entries
<1> SUFFICES ASSUME NEW k \in SweptBy(n) PROVE k \in DOMAIN Entries
  BY Zenon
<1>1. PICK d \in Retentions : \E i \in Len(table.lists[d]) - n[d] + 1 .. Len(table.lists[d]) :
                                k = table.lists[d][i]
  BY Zenon DEF SweptBy
<1> DEFINE l == table.lists[d]
<1>2. PICK i \in Len(l) - n[d] + 1 .. Len(l) : k = l[i]
  BY <1>1, Zenon
<1>3. l \in Seq(Keys) /\ Range(l) = {x \in DOMAIN table.entries : table.entries[x].retention = d}
  BY Zenon DEF Consistent, Shaped, ListedIn
<1>4. n[d] \in 0 .. SweepChunk /\ n[d] <= ExpiredAtBack(d)
  BY Zenon DEF Chunks
<1>5. ExpiredAtBack(d) \in 0 .. Len(l)
  BY BackIsInList, Zenon
<1> DEFINE b == ExpiredAtBack(d)
           m == n[d]
<1>6. m \in 0 .. SweepChunk /\ m <= b /\ b \in 0 .. Len(l) /\ SweepChunk \in Nat
  BY <1>4, <1>5, ShadowAssumption, Zenon
<1> HIDE DEF l, b, m
<1>7. i \in Len(l) - m + 1 .. Len(l)
  BY <1>2, Zenon DEF m
<1>8. i \in DOMAIN l
  BY <1>3, <1>6, <1>7
<1>9. k \in Range(l)
  BY <1>2, <1>8, Zenon DEF Range
<1>10. QED
  BY <1>3, <1>9, Zenon DEF Entries

-----------------------------------------------------------------------------
(***************************************************************************)
(* The inductive invariant.  An entry's counter is bounded by the landings *)
(* so far less those that are still to be observed.                        *)
(***************************************************************************)

Lands == {"observing", "observing again"}

Pending == {p \in Dispatches : req[p].pc \in Lands}

\* A dispatch between its handler's steps.
Dispatched(q, key, o, d) ==
  /\ Decided(d, key, o.pool, o.cfg)
  /\ \/ q = [pc |-> "selecting", key |-> key, cfg |-> o.cfg, pool |-> o.pool, d |-> d]
     \/ \E point \in Lands \cup {"serving"}, host \in Landing, now \in Instants :
          q = [ pc |-> point, key |-> key, cfg |-> o.cfg, pool |-> o.pool, d |-> d,
                host |-> host, now |-> now ]

Request(q) == q = Idle \/ \E key \in Keys, o \in Offers : \E d : Dispatched(q, key, o, d)

\* An entry that counts no more landings than m have been recorded of n.
Settled(e, m, n) ==
  /\ e \in EntryType /\ e.expiry = e.lastSeen + RetentionFactor * e.retention
  /\ e.cur <= m /\ e.prev <= n

TableInv ==
  /\ clock \in Instants
  /\ Consistent(table) /\ Cardinality(DOMAIN Entries) <= MaxKeys
  /\ \A k \in DOMAIN Entries : Settled(Entries[k], landings - Cardinality(Pending), landings)
  /\ req = [p \in Dispatches |-> req[p]] /\ \A p \in Dispatches : Request(req[p])
  /\ sweeper \in {"waiting", "sweeping", "stopped"}
  /\ landings \in 0 .. MaxLandings /\ Cardinality(Pending) <= landings

\* There are finitely many dispatches to be pending.
LEMMA PendingFinite ==
  ASSUME NEW S \in SUBSET Dispatches
  PROVE  IsFiniteSet(S) /\ Cardinality(S) \in Nat
<1>1. IsFiniteSet(S)
  BY FS_Subset, ShadowAssumption, Zenon
<1>2. QED
  BY <1>1, FS_CardinalityType, Zenon

\* An empty table is consistent.
LEMMA EmptyConsistent ==
  ASSUME NEW t, t = [ entries |-> <<>>, lists |-> [d \in Retentions |-> <<>>],
                      counts |-> [g \in Groups |-> 0] ]
  PROVE  Consistent(t) /\ DOMAIN t.entries = {}
<1>1. t.entries = <<>> /\ t.lists = [d \in Retentions |-> <<>>] /\ t.counts = [g \in Groups |-> 0]
  BY Zenon
<1>2. DOMAIN t.entries = {} /\ t.entries = [k \in DOMAIN t.entries |-> t.entries[k]]
  BY <1>1
<1>3. <<>> \in Seq(Keys) /\ DOMAIN <<>> = {} /\ 0 \in Nat
  OBVIOUS
<1>4. Shaped(t)
  <2>1. t.lists \in [Retentions -> Seq(Keys)] /\ t.counts \in [Groups -> Nat]
    BY <1>1, <1>3, Zenon
  <2>2. t = [entries |-> t.entries, lists |-> t.lists, counts |-> t.counts]
    BY <1>1, Zenon
  <2>3. QED
    BY <1>2, <2>1, <2>2, FS_EmptySet, Zenon DEF Shaped
<1>5. ASSUME NEW d \in Retentions PROVE ListedIn(t, d)
  <2>1. t.lists[d] = <<>>
    BY <1>1, Zenon
  <2>2. DOMAIN t.lists[d] = {}
    BY <1>3, <2>1, Zenon
  <2>3. Range(t.lists[d]) = {} /\ IsInjective(t.lists[d])
    BY <2>2, Zenon DEF Range, IsInjective
  <2>4. QED
    BY <1>2, <2>3, Zenon DEF ListedIn
<1>6. ASSUME NEW g \in Groups PROVE t.counts[g] = Cardinality(Members(t, g))
  <2>1. Members(t, g) = {} /\ t.counts[g] = 0
    BY <1>1, <1>2, Zenon DEF Members
  <2>2. QED
    BY <2>1, FS_EmptySet, Zenon
<1>7. QED
  BY <1>2, <1>4, <1>5, <1>6, Zenon DEF Consistent

\* The table starts empty, with nothing under way.
LEMMA TableStarts == TableInit => TableInv
<1> SUFFICES ASSUME TableInit PROVE TableInv
  BY Zenon
<1>1. clock \in Instants
  <2>1. Instants \in SUBSET Nat /\ Instants # {}
    BY ShadowAssumption, Zenon
  <2>2. \E x \in Instants : \A y \in Instants : x <= y
    BY <2>1, LeastNatural, Zenon
  <2>3. Min(Instants) \in Instants
    BY <2>2, Zenon DEF Min
  <2>4. QED
    BY <2>3, Zenon DEF TableInit
<1>2. Consistent(table) /\ DOMAIN Entries = {}
  BY EmptyConsistent, Zenon DEF TableInit, Entries
<1>3. Cardinality(DOMAIN Entries) <= MaxKeys
  <2>1. Cardinality(DOMAIN Entries) = 0 /\ MaxKeys \in Nat
    BY <1>2, FS_EmptySet, ShadowAssumption, Zenon
  <2>2. QED
    BY <2>1
<1>4. req = [p \in Dispatches |-> req[p]] /\ \A p \in Dispatches : req[p] = Idle
  BY Zenon DEF TableInit
<1>5. Pending = {}
  <2>1. Idle.pc \notin Lands
    BY DEF Idle, Lands
  <2>2. QED
    BY <1>4, <2>1, Zenon DEF Pending
<1>6. Cardinality(Pending) <= landings /\ landings \in 0 .. MaxLandings
  <2>1. Cardinality(Pending) = 0 /\ landings = 0 /\ MaxLandings \in Nat
    BY <1>5, FS_EmptySet, ShadowAssumption, Zenon DEF TableInit
  <2>2. QED
    BY <2>1
<1>7. sweeper \in {"waiting", "sweeping", "stopped"}
  BY Zenon DEF TableInit
<1>8. \A p \in Dispatches : Request(req[p])
  BY <1>4, Zenon DEF Request
<1>9. QED
  BY <1>1, <1>2, <1>3, <1>4, <1>6, <1>7, <1>8, Zenon DEF TableInv

\* What the steps that leave the table, and what is pending, alone have to keep.
LEMMA TableAlone ==
  ASSUME TableInv, UNCHANGED <<table, landings>>, clock' \in Instants,
         sweeper' \in {"waiting", "sweeping", "stopped"},
         req' = [p \in Dispatches |-> req'[p]], \A p \in Dispatches : Request(req'[p]),
         Pending' = Pending
  PROVE  TableInv'
<1>1. Entries' = Entries /\ table' = table /\ landings' = landings
  BY Zenon DEF Entries
<1>2. Consistent(table') /\ Cardinality(DOMAIN Entries') <= MaxKeys
  BY <1>1, Zenon DEF TableInv
<1>3. \A k \in DOMAIN Entries' : Settled(Entries'[k], landings' - Cardinality(Pending'), landings')
  BY <1>1, Zenon DEF TableInv
<1>4. landings' \in 0 .. MaxLandings /\ Cardinality(Pending') <= landings'
  BY <1>1, Zenon DEF TableInv
<1>5. QED
  BY <1>2, <1>3, <1>4, Zenon DEF TableInv, Consistent, Shaped, ListedIn, Members

\* The dispatch q carries this key, this offer and this decision, and from its
\* landing on the replica and the time of it.
Carries(q, key, o, d) ==
    /\ q.key = key /\ q.cfg = o.cfg /\ q.pool = o.pool /\ q.d = d
    /\ q.pc # "selecting" => q.host \in Landing /\ q.now \in Instants

\* The locals of a dispatch that is not idle.
LEMMA DispatchedFields ==
  ASSUME NEW q, NEW key, NEW o, NEW d, Dispatched(q, key, o, d)
  PROVE  Carries(q, key, o, d)
<1>1. CASE q = [pc |-> "selecting", key |-> key, cfg |-> o.cfg, pool |-> o.pool, d |-> d]
  BY <1>1, Zenon DEF Carries
<1>2. ASSUME NEW point \in Lands \cup {"serving"}, NEW host \in Landing, NEW now \in Instants,
             q = [ pc |-> point, key |-> key, cfg |-> o.cfg, pool |-> o.pool, d |-> d,
                   host |-> host, now |-> now ]
      PROVE  Carries(q, key, o, d)
  BY <1>2, Zenon DEF Carries
<1>3. QED
  BY <1>1, <1>2, Zenon DEF Dispatched

\* A dispatch that is not idle carries a key, an offer and a decision.
LEMMA NotIdle ==
  ASSUME NEW q, Request(q), q.pc # "idle"
  PROVE  \E key \in Keys, o \in Offers : \E d : Dispatched(q, key, o, d)
<1>1. Idle.pc = "idle"
  BY DEF Idle
<1>2. QED
  BY <1>1, Zenon DEF Request

\* The landing of a dispatch: the same locals with the replica and the time.
LEMMA LandingDispatched ==
  ASSUME NEW q, NEW key \in Keys, NEW o \in Offers, NEW d, Dispatched(q, key, o, d),
         NEW point \in Lands \cup {"serving"}, NEW host \in Landing, NEW now \in Instants
  PROVE  Request([ pc |-> point, key |-> q.key, cfg |-> q.cfg, pool |-> q.pool, d |-> q.d,
                   host |-> host, now |-> now ])
<1> DEFINE n == [ pc |-> point, key |-> q.key, cfg |-> q.cfg, pool |-> q.pool, d |-> q.d,
                  host |-> host, now |-> now ]
<1>1. q.key = key /\ q.cfg = o.cfg /\ q.pool = o.pool /\ q.d = d
  <2>1. Carries(q, key, o, d)
    BY DispatchedFields, Zenon
  <2>2. QED
    BY <2>1, Zenon DEF Carries
<1>2. n = [ pc |-> point, key |-> key, cfg |-> o.cfg, pool |-> o.pool, d |-> d,
            host |-> host, now |-> now ]
  BY <1>1, Zenon
<1> HIDE DEF n
<1>3. Dispatched(n, key, o, d)
  BY <1>2, Zenon DEF Dispatched
<1>4. Request(n)
  BY <1>3, Zenon DEF Request
<1>5. QED
  BY <1>4, Zenon DEF n

\* What a step of dispatch p does to the dispatches.
LEMMA RequestStep ==
  ASSUME TableInv, NEW p \in Dispatches, NEW q, Request(q), req' = [req EXCEPT ![p] = q]
  PROVE  /\ req' = [x \in Dispatches |-> req'[x]] /\ \A x \in Dispatches : Request(req'[x])
         /\ req'[p] = q
         /\ \A x : x \in Pending' <=> IF x = p THEN q.pc \in Lands ELSE x \in Pending
<1>1. req = [x \in Dispatches |-> req[x]] /\ \A x \in Dispatches : Request(req[x])
  BY Zenon DEF TableInv
<1>2. DOMAIN req = Dispatches
  BY <1>1, Zenon
<1>3. /\ req' = [x \in Dispatches |-> req'[x]] /\ req'[p] = q
      /\ \A x \in Dispatches \ {p} : req'[x] = req[x]
  BY <1>2, Zenon
<1>4. \A x \in Dispatches : Request(req'[x])
  BY <1>1, <1>3, Zenon
<1>5. ASSUME NEW x PROVE x \in Pending' <=> IF x = p THEN q.pc \in Lands ELSE x \in Pending
  <2>1. x \in Pending' <=> x \in Dispatches /\ req'[x].pc \in Lands
    BY Zenon DEF Pending
  <2>2. QED
    BY <1>3, <2>1, Zenon DEF Pending
<1>6. QED
  BY <1>3, <1>4, <1>5, Zenon

\* A dispatch that is not pending before or after its step.
LEMMA QuietStep ==
  ASSUME TableInv, NEW p \in Dispatches, NEW q, Request(q), req' = [req EXCEPT ![p] = q],
         q.pc \notin Lands, req[p].pc \notin Lands, UNCHANGED <<clock, table, sweeper, landings>>
  PROVE  TableInv'
<1>1. /\ req' = [x \in Dispatches |-> req'[x]] /\ \A x \in Dispatches : Request(req'[x])
      /\ \A x : x \in Pending' <=> IF x = p THEN q.pc \in Lands ELSE x \in Pending
  BY RequestStep, Zenon
<1>2. p \notin Pending
  BY Zenon DEF Pending
<1>3. ASSUME NEW x PROVE x \in Pending' <=> x \in Pending
  BY <1>1, <1>2, Zenon
<1>4. Pending' = Pending
  BY <1>3, Zenon
<1>5. /\ clock' \in Instants /\ sweeper' \in {"waiting", "sweeping", "stopped"}
      /\ UNCHANGED <<table, landings>>
  BY Zenon DEF TableInv
<1>6. QED
  BY <1>1, <1>4, <1>5, TableAlone, Zenon

\* An idle dispatch has nothing to observe.
LEMMA IdleIsQuiet == Request(Idle) /\ Idle.pc \notin Lands
<1>1. Idle.pc \notin Lands
  BY DEF Idle, Lands
<1>2. QED
  BY <1>1, Zenon DEF Request

\* A dispatch arrives, and under enforcement it decides.
LEMMA ArriveKeeps ==
  ASSUME TableInv, NEW p \in Dispatches, Arrive(p)
  PROVE  TableInv'
<1>1. PICK key \in Keys, o \in Offers :
        req' = [req EXCEPT ![p] =
                  [ pc |-> "selecting", key |-> key, cfg |-> o.cfg, pool |-> o.pool,
                    d |-> IF o.cfg.mode = "enforced" THEN Decide(key, o.pool, o.cfg) ELSE NoDecision ]]
  BY Zenon DEF Arrive
<1> DEFINE d == IF o.cfg.mode = "enforced" THEN Decide(key, o.pool, o.cfg) ELSE NoDecision
           q == [ pc |-> "selecting", key |-> key, cfg |-> o.cfg, pool |-> o.pool, d |-> d ]
<1>2. Decided(d, key, o.pool, o.cfg)
  <2>1. Decided(Decide(key, o.pool, o.cfg), key, o.pool, o.cfg)
    BY DecideIsSound, Zenon DEF TableInv, Consistent
  <2>2. Decided(NoDecision, key, o.pool, o.cfg)
    BY Zenon DEF Decided
  <2>3. QED
    BY <2>1, <2>2, Zenon
<1> HIDE DEF d
<1>3. req' = [req EXCEPT ![p] = q]
  BY <1>1, Zenon DEF d
<1>4. Dispatched(q, key, o, d)
  BY <1>2, Zenon DEF Dispatched
<1>5. Request(q)
  <2> HIDE DEF q
  <2>1. QED
    BY <1>4, Zenon DEF Request
<1>6. q.pc \notin Lands
  BY DEF Lands
<1>7. req[p].pc \notin Lands
  BY IdleIsQuiet, Zenon DEF Arrive
<1> HIDE DEF q
<1>8. UNCHANGED <<clock, table, sweeper, landings>>
  BY Zenon DEF Arrive
<1>9. QED
  BY <1>3, <1>5, <1>6, <1>7, <1>8, QuietStep, Zenon

\* A dispatch is rejected, or it ends.
LEMMA LeaveKeeps ==
  ASSUME TableInv, NEW p \in Dispatches, Reject(p) \/ Finish(p)
  PROVE  TableInv'
<1>1. /\ req' = [req EXCEPT ![p] = Idle] /\ UNCHANGED <<clock, table, sweeper, landings>>
      /\ req[p].pc \in {"selecting", "serving"}
  BY Zenon DEF Reject, Finish
<1>2. req[p].pc \notin Lands
  BY <1>1 DEF Lands
<1>3. QED
  BY <1>1, <1>2, IdleIsQuiet, QuietStep, Zenon

\* The bounds of an entry may grow.
LEMMA SettledMore ==
  ASSUME NEW e, NEW m \in Int, NEW n \in Int, Settled(e, m, n), NEW m2 \in Int, NEW n2 \in Int,
         m <= m2, n <= n2
  PROVE  Settled(e, m2, n2)
<1>1. e \in EntryType /\ e.cur <= m /\ e.prev <= n
  BY Zenon DEF Settled
<1> DEFINE c == e.cur
           p == e.prev
<1>2. c \in 0 .. MaxLandings /\ p \in 0 .. MaxLandings /\ MaxLandings \in Nat
  <2>1. e.cur \in 0 .. MaxLandings /\ e.prev \in 0 .. MaxLandings
    BY <1>1, Zenon DEF EntryType
  <2>2. QED
    BY <2>1, ShadowAssumption, Zenon
<1>3. c <= m /\ p <= n
  BY <1>1, Zenon
<1> HIDE DEF c, p
<1>4. c <= m2 /\ p <= n2
  BY <1>2, <1>3
<1>5. e.cur <= m2 /\ e.prev <= n2
  BY <1>4, Zenon DEF c, p
<1>6. QED
  BY <1>5, Zenon DEF Settled

\* A landing is pending as soon as it is counted.
LEMMA LandKeeps ==
  ASSUME TableInv, NEW p \in Dispatches, Land(p)
  PROVE  TableInv'
<1>1. PICK host \in Landing :
        req' = [req EXCEPT ![p] =
                 [ pc |-> IF req[p].pc = "selecting" THEN "observing" ELSE "observing again",
                   key |-> req[p].key, cfg |-> req[p].cfg, pool |-> req[p].pool, d |-> req[p].d,
                   host |-> host, now |-> clock ]]
  BY Zenon DEF Land
<1>2. /\ req[p].pc \in {"selecting", "serving"} /\ landings < MaxLandings
      /\ landings' = landings + 1 /\ clock' = clock /\ table' = table /\ sweeper' = sweeper
  BY Zenon DEF Land
<1> DEFINE point == IF req[p].pc = "selecting" THEN "observing" ELSE "observing again"
           q == [ pc |-> point, key |-> req[p].key, cfg |-> req[p].cfg, pool |-> req[p].pool,
                  d |-> req[p].d, host |-> host, now |-> clock ]
<1>3. point \in Lands
  BY DEF Lands
<1>4. Request(q)
  <2>1. req[p].pc # "idle" /\ Request(req[p]) /\ clock \in Instants
    <3>1. req[p].pc # "idle"
      BY <1>2
    <3>2. QED
      BY <3>1, Zenon DEF TableInv
  <2>2. PICK key \in Keys, o \in Offers : \E d : Dispatched(req[p], key, o, d)
    BY <2>1, NotIdle, Zenon
  <2>3. PICK d : Dispatched(req[p], key, o, d)
    BY <2>2, Zenon
  <2>4. point \in Lands \cup {"serving"}
    BY <1>3, Zenon
  <2> HIDE DEF point
  <2>5. QED
    BY <2>1, <2>3, <2>4, LandingDispatched, Zenon
<1>5. q.pc \in Lands
  BY <1>3, Zenon
<1>6. req' = [req EXCEPT ![p] = q]
  BY <1>1, Zenon
<1> HIDE DEF q, point
<1>7. /\ req' = [x \in Dispatches |-> req'[x]] /\ \A x \in Dispatches : Request(req'[x])
      /\ \A x : x \in Pending' <=> IF x = p THEN q.pc \in Lands ELSE x \in Pending
  BY <1>4, <1>6, RequestStep, Zenon
<1>8. p \notin Pending
  <2>1. req[p].pc \notin Lands
    BY <1>2 DEF Lands
  <2>2. QED
    BY <2>1, Zenon DEF Pending
<1>9. Pending' = Pending \cup {p}
  <2>1. ASSUME NEW x PROVE x \in Pending' <=> x \in Pending \cup {p}
    BY <1>5, <1>7, Zenon
  <2>2. QED
    BY <2>1, Zenon
<1> DEFINE n == Cardinality(Pending)
<1>10. n \in Nat /\ Cardinality(Pending') = n + 1
  <2>1. Pending \in SUBSET Dispatches
    BY Zenon DEF Pending
  <2>2. IsFiniteSet(Pending) /\ n \in Nat
    BY <2>1, PendingFinite, Zenon
  <2>3. Cardinality(Pending \cup {p}) = IF p \in Pending THEN n ELSE n + 1
    BY <2>2, FS_AddElement, Zenon
  <2>4. QED
    BY <1>8, <1>9, <2>2, <2>3, Zenon
<1>11. landings \in 0 .. MaxLandings /\ n <= landings /\ MaxLandings \in Nat
  BY ShadowAssumption, Zenon DEF TableInv
<1>12. Entries' = Entries
  BY <1>2, Zenon DEF Entries
<1>13. /\ landings' \in 0 .. MaxLandings /\ n + 1 <= landings'
       /\ landings - n <= landings' - (n + 1) /\ landings <= landings'
       /\ landings - n \in Int /\ landings' - (n + 1) \in Int /\ landings \in Int /\ landings' \in Int
  <2> HIDE DEF n
  <2>1. QED
    BY <1>2, <1>10, <1>11
<1>14. \A k \in DOMAIN Entries' : Settled(Entries'[k], landings' - Cardinality(Pending'), landings')
  <2>1. ASSUME NEW k \in DOMAIN Entries PROVE Settled(Entries[k], landings' - (n + 1), landings')
    <3>1. Settled(Entries[k], landings - n, landings)
      BY Zenon DEF TableInv
    <3> HIDE DEF n
    <3>2. QED
      BY <1>13, <3>1, SettledMore, Zenon
  <2>2. QED
    BY <1>10, <1>12, <2>1, Zenon
<1>15. /\ clock' \in Instants /\ Consistent(table') /\ Cardinality(DOMAIN Entries') <= MaxKeys
       /\ sweeper' \in {"waiting", "sweeping", "stopped"}
  BY <1>2, <1>12, Zenon DEF TableInv
<1>16. landings' \in 0 .. MaxLandings /\ Cardinality(Pending') <= landings'
  BY <1>10, <1>13, Zenon
<1>17. QED
  BY <1>7, <1>14, <1>15, <1>16, Zenon DEF TableInv, Consistent, Shaped, ListedIn, Members

\* An observed landing is counted by one entry.
LEMMA CountedLanding ==
  ASSUME NEW v, NEW key, NEW d \in Nat, Recorded(v, key, d), NEW m \in Nat, NEW n \in Nat,
         m + 1 <= n, n <= MaxLandings,
         \A k \in DOMAIN Entries : Settled(Entries[k], m, n)
  PROVE  \A k \in DOMAIN v.entries : Settled(v.entries[k], m + 1, n)
<1> DEFINE e == v.entries[key]
<1>1. PICK c \in Nat, p \in Nat :
        /\ \/ c = 0 /\ p = 0
           \/ key \in DOMAIN Entries /\ c = Entries[key].cur /\ p = Entries[key].prev
        /\ e.cur \in {1, c + 1} /\ e.prev \in {0, c, p}
  BY Zenon DEF Recorded
<1>2. c <= m /\ p <= n
  <2>1. CASE c = 0 /\ p = 0
    BY <2>1
  <2>2. CASE key \in DOMAIN Entries /\ c = Entries[key].cur /\ p = Entries[key].prev
    BY <2>2, Zenon DEF Settled
  <2>3. QED
    BY <1>1, <2>1, <2>2, Zenon
<1> DEFINE ec == e.cur
           ep == e.prev
<1>3. ec \in {1, c + 1} /\ ep \in {0, c, p}
  BY <1>1, Zenon
<1> HIDE DEF ec, ep
<1>4. ec <= m + 1 /\ ep <= n /\ ec \in 0 .. MaxLandings /\ ep \in 0 .. MaxLandings
  BY <1>2, <1>3, ShadowAssumption
<1>5. Settled(e, m + 1, n)
  <2>1. e.cur <= m + 1 /\ e.prev <= n /\ e.cur \in 0 .. MaxLandings /\ e.prev \in 0 .. MaxLandings
    BY <1>4, Zenon DEF ec, ep
  <2>2. e \in EntryType /\ e.retention = d /\ e.expiry = e.lastSeen + RetentionFactor * d
    BY <2>1, Zenon DEF Recorded
  <2> HIDE DEF e
  <2>3. QED
    BY <2>1, <2>2, Zenon DEF Settled
<1>6. ASSUME NEW k \in DOMAIN v.entries, k # key PROVE Settled(v.entries[k], m + 1, n)
  <2>1. k \in DOMAIN Entries /\ v.entries[k] = Entries[k]
    BY <1>6, Zenon DEF Recorded
  <2>2. Settled(v.entries[k], m, n)
    BY <2>1, Zenon
  <2>3. m \in Int /\ n \in Int /\ m + 1 \in Int /\ m <= m + 1 /\ n <= n
    OBVIOUS
  <2>4. QED
    BY <2>2, <2>3, SettledMore, Zenon
<1>7. QED
  BY <1>5, <1>6, Zenon

\* A dispatch whose first landing has been observed.
LEMMA ServingDispatched ==
  ASSUME NEW q, NEW key \in Keys, NEW o \in Offers, NEW d, Dispatched(q, key, o, d), q.pc # "selecting"
  PROVE  Request([q EXCEPT !.pc = "serving"])
<1> DEFINE n == [q EXCEPT !.pc = "serving"]
<1>1. PICK point \in Lands \cup {"serving"}, host \in Landing, now \in Instants :
        q = [ pc |-> point, key |-> key, cfg |-> o.cfg, pool |-> o.pool, d |-> d,
              host |-> host, now |-> now ]
  <2>1. ASSUME q = [pc |-> "selecting", key |-> key, cfg |-> o.cfg, pool |-> o.pool, d |-> d]
        PROVE  FALSE
    <3>1. q.pc = "selecting"
      BY <2>1, Zenon
    <3>2. QED
      BY <3>1, Zenon
  <2>2. QED
    BY <2>1, Zenon DEF Dispatched
<1> DEFINE c == o.cfg
           l == o.pool
<1> HIDE DEF c, l
<1>2. q = [ pc |-> point, key |-> key, cfg |-> c, pool |-> l, d |-> d, host |-> host, now |-> now ]
  BY <1>1, Zenon DEF c, l
<1>3. n = [ pc |-> "serving", key |-> key, cfg |-> c, pool |-> l, d |-> d, host |-> host, now |-> now ]
  BY <1>2
<1> HIDE DEF n
<1>4. n = [ pc |-> "serving", key |-> key, cfg |-> o.cfg, pool |-> o.pool, d |-> d,
            host |-> host, now |-> now ]
  BY <1>3, Zenon DEF c, l
<1>5. Decided(d, key, o.pool, o.cfg) /\ "serving" \in Lands \cup {"serving"}
  BY Zenon DEF Dispatched
<1>6. Dispatched(n, key, o, d)
  BY <1>4, <1>5, Zenon DEF Dispatched
<1>7. Request(n)
  BY <1>6, Zenon DEF Request
<1>8. QED
  BY <1>7, Zenon DEF n

\* Its pc.
LEMMA ServingPc ==
  ASSUME NEW q, NEW key, NEW o, NEW d, Dispatched(q, key, o, d)
  PROVE  [q EXCEPT !.pc = "serving"].pc = "serving"
<1>1. "pc" \in DOMAIN q
  <2>1. CASE q = [pc |-> "selecting", key |-> key, cfg |-> o.cfg, pool |-> o.pool, d |-> d]
    BY <2>1
  <2>2. ASSUME NEW point, NEW host, NEW now,
               q = [ pc |-> point, key |-> key, cfg |-> o.cfg, pool |-> o.pool, d |-> d,
                     host |-> host, now |-> now ]
        PROVE  "pc" \in DOMAIN q
    BY <2>2
  <2>3. QED
    BY <2>1, <2>2, Zenon DEF Dispatched
<1>2. QED
  BY <1>1

\* Observing a landing.
LEMMA ObserveKeeps ==
  ASSUME TableInv, NEW p \in Dispatches, Observe(p)
  PROVE  TableInv'
<1> DEFINE q == req[p]
           r == IF q.pc = "observing" THEN [q EXCEPT !.pc = "serving"] ELSE Idle
           n == Cardinality(Pending)
<1>1. q.pc \in Lands /\ clock' = clock /\ sweeper' = sweeper /\ landings' = landings
  BY Zenon DEF Observe, Lands
<1>2. q.pc # "idle" /\ q.pc # "selecting"
  BY <1>1 DEF Lands
<1>3. PICK key \in Keys, o \in Offers : \E d : Dispatched(q, key, o, d)
  <2>1. Request(q)
    BY Zenon DEF TableInv
  <2> HIDE DEF q
  <2>2. QED
    BY <1>2, <2>1, NotIdle, Zenon
<1>4. PICK d : Dispatched(q, key, o, d)
  BY <1>3, Zenon
<1>5. /\ q.key = key /\ q.cfg = o.cfg /\ q.pool = o.pool /\ q.d = d
      /\ q.host \in Landing /\ q.now \in Instants
  <2> HIDE DEF q
  <2>1. Carries(q, key, o, d)
    BY <1>4, DispatchedFields, Zenon
  <2>2. QED
    BY <1>2, <2>1, Zenon DEF Carries
<1>6. req' = [req EXCEPT ![p] = r]
  BY Zenon DEF Observe
<1>7. Request(r) /\ r.pc \notin Lands
  <2> HIDE DEF q
  <2>1. CASE q.pc = "observing"
    <3>1. Request([q EXCEPT !.pc = "serving"]) /\ [q EXCEPT !.pc = "serving"].pc = "serving"
      BY <1>2, <1>4, ServingDispatched, ServingPc, Zenon
    <3>2. "serving" \notin Lands
      BY DEF Lands
    <3>3. QED
      BY <2>1, <3>1, <3>2, Zenon
  <2>2. CASE q.pc # "observing"
    BY <2>2, IdleIsQuiet, Zenon
  <2>3. QED
    BY <2>1, <2>2, Zenon
<1>8. IF o.pool.size < 2 \/ o.pool.cands = {}
      THEN table' = table
      ELSE table' \in ObserveKeyed(key, o.pool, q.host, d, o.cfg, q.now)
  <2>1. IF q.pool.size < 2 \/ q.pool.cands = {}
        THEN table' = table
        ELSE table' \in ObserveKeyed(q.key, q.pool, q.host, q.d, q.cfg, q.now)
    BY Zenon DEF Observe
  <2> HIDE DEF q
  <2>2. QED
    BY <1>5, <2>1, Zenon
<1> HIDE DEF r
<1>9. /\ req' = [x \in Dispatches |-> req'[x]] /\ \A x \in Dispatches : Request(req'[x])
      /\ \A x : x \in Pending' <=> IF x = p THEN r.pc \in Lands ELSE x \in Pending
  BY <1>6, <1>7, RequestStep, Zenon
<1>10. p \in Pending
  BY <1>1, Zenon DEF Pending
<1> HIDE DEF q
<1>11. Pending' = Pending \ {p}
  <2>1. ASSUME NEW x PROVE x \in Pending' <=> x \in Pending \ {p}
    BY <1>7, <1>9, Zenon
  <2>2. QED
    BY <2>1, Zenon
<1>12. n \in Nat /\ n - 1 \in Nat /\ Cardinality(Pending') = n - 1
  <2>1. Pending \in SUBSET Dispatches /\ Pending' \in SUBSET Dispatches
    BY Zenon DEF Pending
  <2>2. IsFiniteSet(Pending) /\ n \in Nat /\ Cardinality(Pending') \in Nat
    BY <2>1, PendingFinite, Zenon
  <2>3. Cardinality(Pending \ {p}) = IF p \in Pending THEN n - 1 ELSE n
    BY <2>2, FS_RemoveElement, Zenon
  <2>4. QED
    BY <1>10, <1>11, <2>2, <2>3, Zenon
<1>13. landings \in 0 .. MaxLandings /\ n <= landings /\ MaxLandings \in Nat
  BY ShadowAssumption, Zenon DEF TableInv
<1>14. \A k \in DOMAIN Entries : Settled(Entries[k], landings - n, landings)
  BY Zenon DEF TableInv
<1> DEFINE m == landings - n
<1> HIDE DEF n
<1>15. /\ m \in Nat /\ landings \in Nat /\ m + 1 <= landings /\ landings <= MaxLandings
       /\ landings - (n - 1) = m + 1 /\ m \in Int /\ m + 1 \in Int /\ m <= m + 1
       /\ landings \in Int /\ landings <= landings /\ n - 1 <= landings
  BY <1>12, <1>13
<1> HIDE DEF m
<1>16. /\ Consistent(table') /\ Cardinality(DOMAIN table'.entries) <= MaxKeys
       /\ \A k \in DOMAIN table'.entries : Settled(table'.entries[k], m + 1, landings)
  <2>1. CASE o.pool.size < 2 \/ o.pool.cands = {}
    <3>1. table' = table
      BY <1>8, <2>1, Zenon
    <3>2. \A k \in DOMAIN table.entries : Settled(table.entries[k], m + 1, landings)
      BY <1>14, <1>15, SettledMore, Zenon DEF Entries, m
    <3>3. QED
      BY <3>1, <3>2, Zenon DEF TableInv, Entries
  <2>2. CASE ~(o.pool.size < 2 \/ o.pool.cands = {})
    <3>1. table' \in ObserveKeyed(key, o.pool, q.host, d, o.cfg, q.now)
      BY <1>8, <2>2, Zenon
    <3>2. Decided(d, key, o.pool, o.cfg) /\ q.host \in Hosts
      BY <1>4, <1>5, ShadowAssumption, Zenon DEF Dispatched
    <3>3. Recorded(table', key, o.cfg.retention)
      BY <1>5, <2>2, <3>1, <3>2, ObservedIsRecorded, Zenon DEF TableInv
    <3>4. o.cfg.retention \in Nat
      BY ShadowAssumption, Zenon
    <3>5. \A k \in DOMAIN Entries : Settled(Entries[k], m, landings)
      BY <1>14, Zenon DEF m
    <3>6. \A k \in DOMAIN table'.entries : Settled(table'.entries[k], m + 1, landings)
      BY <1>15, <3>3, <3>4, <3>5, CountedLanding, Zenon
    <3>7. QED
      BY <3>3, <3>6, Zenon DEF Recorded
  <2>3. QED
    BY <2>1, <2>2, Zenon
<1>17. \A k \in DOMAIN Entries' : Settled(Entries'[k], landings' - Cardinality(Pending'), landings')
  <2>1. landings' - Cardinality(Pending') = m + 1 /\ landings' = landings
    BY <1>1, <1>12, <1>15, Zenon
  <2>2. QED
    BY <1>16, <2>1, Zenon DEF Entries
<1>18. landings' \in 0 .. MaxLandings /\ Cardinality(Pending') <= landings'
  BY <1>1, <1>12, <1>13, <1>15, Zenon
<1>19. /\ clock' \in Instants /\ sweeper' \in {"waiting", "sweeping", "stopped"}
       /\ Cardinality(DOMAIN Entries') <= MaxKeys
  BY <1>1, <1>16, Zenon DEF TableInv, Entries
<1>20. QED
  BY <1>9, <1>16, <1>17, <1>18, <1>19, Zenon DEF TableInv, Consistent, Shaped, ListedIn, Members

\* A chunk of the sweep.
LEMMA SweepKeeps ==
  ASSUME TableInv, Sweep
  PROVE  TableInv'
<1>1. PICK n \in Chunks : table' = EvictLocked(table, SweptBy(n))
  BY Zenon DEF Sweep
<1>2. clock' = clock /\ req' = req /\ landings' = landings
  BY Zenon DEF Sweep
<1>3. sweeper' \in {"waiting", "sweeping", "stopped"}
  BY Zenon DEF Sweep
<1> DEFINE gone == SweptBy(n)
<1>4. Consistent(table) /\ gone \in SUBSET DOMAIN table.entries
  BY SweptTracked, Zenon DEF TableInv, Entries
<1> HIDE DEF gone
<1>5. /\ Consistent(table') /\ DOMAIN table'.entries = DOMAIN table.entries \ gone
      /\ \A k \in DOMAIN table.entries \ gone : table'.entries[k] = table.entries[k]
  <2> DEFINE u == EvictLocked(table, gone)
  <2>1. /\ Consistent(u) /\ DOMAIN u.entries = DOMAIN table.entries \ gone
        /\ \A k \in DOMAIN table.entries \ gone : u.entries[k] = table.entries[k]
    BY <1>4, EvictConsistent
  <2> HIDE DEF u
  <2>2. table' = u
    BY <1>1, Zenon DEF u, gone
  <2>3. QED
    BY <2>1, <2>2, Zenon
<1>6. Cardinality(DOMAIN table'.entries) <= MaxKeys
  <2> DEFINE D == DOMAIN table.entries
             E == DOMAIN table'.entries
  <2>1. IsFiniteSet(D) /\ E \in SUBSET D
    BY <1>4, <1>5, Zenon DEF Consistent, Shaped
  <2>2. IsFiniteSet(E) /\ Cardinality(E) <= Cardinality(D)
    BY <2>1, FS_Subset, Zenon
  <2>3. Cardinality(D) \in Nat /\ Cardinality(E) \in Nat
    BY <2>1, <2>2, FS_CardinalityType, Zenon
  <2>4. Cardinality(D) <= MaxKeys /\ MaxKeys \in Nat
    BY ShadowAssumption, Zenon DEF TableInv, Entries
  <2> HIDE DEF D, E
  <2>5. Cardinality(E) <= MaxKeys
    BY <2>2, <2>3, <2>4
  <2>6. QED
    BY <2>5, Zenon DEF E
<1>7. Pending' = Pending
  BY <1>2, Zenon DEF Pending
<1>8. \A k \in DOMAIN Entries' : Settled(Entries'[k], landings' - Cardinality(Pending'), landings')
  <2>1. \A k \in DOMAIN table.entries : Settled(table.entries[k], landings - Cardinality(Pending), landings)
    BY Zenon DEF TableInv, Entries
  <2>2. QED
    BY <1>2, <1>5, <1>7, <2>1, Zenon DEF Entries
<1>9. /\ clock' \in Instants /\ landings' \in 0 .. MaxLandings /\ Cardinality(Pending') <= landings'
      /\ Cardinality(DOMAIN Entries') <= MaxKeys
  BY <1>2, <1>6, <1>7, Zenon DEF TableInv, Entries
<1>10. req' = [x \in Dispatches |-> req'[x]] /\ \A x \in Dispatches : Request(req'[x])
  BY <1>2, Zenon DEF TableInv
<1>11. QED
  BY <1>3, <1>5, <1>8, <1>9, <1>10, Zenon DEF TableInv, Consistent, Shaped, ListedIn, Members

\* Time, and the sweeper's other steps.
LEMMA OthersKeep ==
  ASSUME TableInv, Tick \/ SweepStart \/ Close \/ UNCHANGED tableVars
  PROVE  TableInv'
<1>1. UNCHANGED <<table, req, landings>>
  BY Zenon DEF Tick, SweepStart, Close, tableVars
<1>2. clock' \in Instants
  BY Zenon DEF TableInv, Tick, SweepStart, Close, tableVars
<1>3. sweeper' \in {"waiting", "sweeping", "stopped"}
  BY Zenon DEF TableInv, Tick, SweepStart, Close, tableVars
<1>4. Pending' = Pending
  BY <1>1, Zenon DEF Pending
<1>5. req' = [x \in Dispatches |-> req'[x]] /\ \A x \in Dispatches : Request(req'[x])
  BY <1>1, Zenon DEF TableInv
<1>6. QED
  BY <1>1, <1>2, <1>3, <1>4, <1>5, TableAlone, Zenon

\* Every step keeps the invariant.
LEMMA TableKept == TableInv /\ [TableNext]_tableVars => TableInv'
<1> SUFFICES ASSUME TableInv, [TableNext]_tableVars PROVE TableInv'
  BY Zenon
<1>1. CASE Tick \/ SweepStart \/ Close \/ UNCHANGED tableVars
  BY <1>1, OthersKeep, Zenon
<1>2. CASE Sweep
  BY <1>2, SweepKeeps, Zenon
<1>3. ASSUME NEW p \in Dispatches, Arrive(p) PROVE TableInv'
  BY <1>3, ArriveKeeps, Zenon
<1>4. ASSUME NEW p \in Dispatches, Reject(p) \/ Finish(p) PROVE TableInv'
  BY <1>4, LeaveKeeps, Zenon
<1>5. ASSUME NEW p \in Dispatches, Land(p) PROVE TableInv'
  BY <1>5, LandKeeps, Zenon
<1>6. ASSUME NEW p \in Dispatches, Observe(p) PROVE TableInv'
  BY <1>6, ObserveKeeps, Zenon
<1>7. QED
  BY <1>1, <1>2, <1>3, <1>4, <1>5, <1>6, Zenon DEF TableNext

\* A count of some of the keys is not more than the table holds.
LEMMA CountInBounds ==
  ASSUME TableInv, NEW S \in SUBSET DOMAIN Entries
  PROVE  Cardinality(S) \in 0 .. MaxKeys
<1> DEFINE D == DOMAIN Entries
<1>1. IsFiniteSet(D) /\ Cardinality(D) <= MaxKeys /\ MaxKeys \in Nat
  BY ShadowAssumption, Zenon DEF TableInv, Consistent, Shaped, Entries
<1>2. IsFiniteSet(S) /\ Cardinality(S) <= Cardinality(D)
  BY <1>1, FS_Subset, Zenon
<1>3. Cardinality(S) \in Nat /\ Cardinality(D) \in Nat
  BY <1>1, <1>2, FS_CardinalityType, Zenon
<1> HIDE DEF D
<1>4. QED
  BY <1>1, <1>2, <1>3

\* The invariant says that the three views of the table agree.
LEMMA InvIsConsistent == TableInv => TableConsistent
<1> SUFFICES ASSUME TableInv PROVE TableConsistent
  BY Zenon
<1>1. Consistent(table) /\ Shaped(table)
  BY Zenon DEF TableInv, Consistent
<1>2. CountsMatchTable
  BY <1>1, Zenon DEF CountsMatchTable, Consistent, Members, Entries
<1>3. ListedWhereItExpires
  <2>1. ASSUME NEW d \in Retentions, NEW k \in Range(table.lists[d])
        PROVE  Entries[k].expiry = Entries[k].lastSeen + RetentionFactor * d
    <3>1. k \in DOMAIN Entries /\ Entries[k].retention = d
      BY <1>1, <2>1, Zenon DEF Consistent, ListedIn, Entries
    <3>2. QED
      BY <3>1, Zenon DEF TableInv, Settled
  <2>2. \A d \in Retentions :
          /\ IsInjective(table.lists[d])
          /\ Range(table.lists[d]) = {k \in DOMAIN Entries : Entries[k].retention = d}
    BY <1>1, Zenon DEF Consistent, ListedIn, Entries
  <2>3. QED
    BY <2>1, <2>2, Zenon DEF ListedWhereItExpires
<1>4. TableTypeOK
  <2>1. ASSUME NEW d \in Retentions PROVE Len(table.lists[d]) <= MaxKeys
    <3> DEFINE l == table.lists[d]
    <3>1. l \in Seq(Keys) /\ IsInjective(l) /\ Range(l) \in SUBSET DOMAIN Entries
      BY <1>1, Zenon DEF Consistent, Shaped, ListedIn, Entries
    <3> HIDE DEF l
    <3>2. Len(l) = Cardinality(Range(l))
      BY <3>1, LengthIsCount, Zenon
    <3>3. Len(l) \in 0 .. MaxKeys /\ MaxKeys \in Nat
      BY <3>1, <3>2, CountInBounds, ShadowAssumption, Zenon
    <3>4. Len(l) <= MaxKeys
      BY <3>3
    <3>5. QED
      BY <3>4, Zenon DEF l
  <2>2. table.counts \in [Groups -> 0 .. MaxKeys]
    <3>1. ASSUME NEW g \in Groups PROVE table.counts[g] \in 0 .. MaxKeys
      <4>1. Members(table, g) \in SUBSET DOMAIN Entries
        BY Zenon DEF Members, Entries
      <4>2. table.counts[g] = Cardinality(Members(table, g))
        BY <1>1, Zenon DEF Consistent
      <4>3. QED
        BY <4>1, <4>2, CountInBounds, Zenon
    <3>2. QED
      BY <1>1, <3>1, Zenon DEF Shaped
  <2>3. DOMAIN Entries \subseteq Keys /\ \A k \in DOMAIN Entries : Entries[k] \in EntryType
    BY <1>1, Zenon DEF Shaped, Entries, TableInv, Settled
  <2>4. QED
    BY <1>1, <2>1, <2>2, <2>3, Zenon DEF TableTypeOK, TableInv, Shaped
<1>5. QED
  BY <1>2, <1>3, <1>4, Zenon DEF TableConsistent

\* The invariant says that the decisions are what Decide promises.
LEMMA InvIsSound == TableInv => DecisionSound
<1> SUFFICES ASSUME TableInv, NEW p \in Dispatches, req[p] # Idle, req[p].d # NoDecision
             PROVE  Promised(req[p].d, req[p].key, req[p].pool, req[p].cfg)
  BY Zenon DEF DecisionSound, Promised, Over
<1>1. PICK key \in Keys, o \in Offers : \E d : Dispatched(req[p], key, o, d)
  BY Zenon DEF TableInv, Request
<1>2. PICK d : Dispatched(req[p], key, o, d)
  BY <1>1, Zenon
<1>3. req[p].key = key /\ req[p].cfg = o.cfg /\ req[p].pool = o.pool /\ req[p].d = d
  <2>1. Carries(req[p], key, o, d)
    BY <1>2, DispatchedFields, Zenon
  <2>2. QED
    BY <2>1, Zenon DEF Carries
<1>4. Decided(d, key, o.pool, o.cfg)
  BY <1>2, Zenon DEF Dispatched
<1>5. Promised(d, key, o.pool, o.cfg)
  BY <1>3, <1>4, Zenon DEF Decided
<1>6. QED
  BY <1>3, <1>5, Zenon

\* TableInv is an invariant.
LEMMA TableInvHolds == TableSpec => []TableInv
BY TableStarts, TableKept, PTL DEF TableSpec

\* The map, the lists and the counts of the table (TableConsistent) are three
\* views of the same entries, at most maxKeys of them, through any number of
\* concurrent landings, evictions and sweeps, for every clock, score and pool.
THEOREM TableIsConsistent == TableSpec => []TableConsistent
BY TableInvHolds, InvIsConsistent, PTL

\* What Decide hands its caller (DecisionSound) orders exactly the candidates,
\* puts none over the cap before one within it, and leaves the key's first r
\* replicas only when all of them are over the cap.
THEOREM DecisionsAreSound == TableSpec => []DecisionSound
BY TableInvHolds, InvIsSound, PTL

-----------------------------------------------------------------------------
(***************************************************************************)
(* Why a key leaves the table.                                             *)
(***************************************************************************)

\* A landing evicts a key only from a full table, and for another key.
LEMMA EvictedWhenFull ==
  ASSUME Consistent(table), Cardinality(DOMAIN Entries) <= MaxKeys, NEW key \in Keys,
         NEW d \in Retentions, NEW u \in Present(key, d), NEW k \in DOMAIN Entries \ DOMAIN u.entries
  PROVE  Cardinality(DOMAIN Entries) = MaxKeys /\ key \in DOMAIN u.entries \ DOMAIN Entries
<1>1. CASE key \in DOMAIN Entries
  <2>1. u = TouchLocked(table, key, d) /\ key \in DOMAIN table.entries
    BY <1>1, Zenon DEF Present, Entries
  <2>2. DOMAIN TouchLocked(table, key, d).entries = DOMAIN table.entries
    BY <2>1, TouchConsistent
  <2>3. QED
    BY <2>1, <2>2, Zenon DEF Entries
<1>2. CASE key \notin DOMAIN Entries
  <2>1. PICK t \in MakeRoom(table) : u = InsertLocked(t, key, d)
    BY <1>2, Zenon DEF Present
  <2>2. Consistent(t) /\ Fewer(t, table)
    BY RoomIsMade, Zenon DEF Entries
  <2>3. key \notin DOMAIN t.entries
    BY <1>2, <2>2, Zenon DEF Fewer, Entries
  <2>4. DOMAIN InsertLocked(t, key, d).entries = DOMAIN t.entries \cup {key}
    BY <2>2, <2>3, InsertConsistent
  <2>5. DOMAIN u.entries = DOMAIN t.entries \cup {key}
    BY <2>1, <2>4, Zenon
  <2>6. t # table
    BY <2>5, Zenon DEF Entries
  <2> DEFINE c == Cardinality(DOMAIN Entries)
  <2>7. c >= MaxKeys
    BY <2>6, Zenon DEF MakeRoom, Entries
  <2>8. c \in Nat /\ MaxKeys \in Nat /\ c <= MaxKeys
    BY FS_CardinalityType, ShadowAssumption, Zenon DEF Consistent, Shaped, Entries
  <2> HIDE DEF c
  <2>9. c = MaxKeys
    BY <2>7, <2>8
  <2>10. QED
    BY <1>2, <2>5, <2>9, Zenon DEF c
<1>3. QED
  BY <1>1, <1>2, Zenon

\* A sweep takes expired keys.
LEMMA SweptExpired ==
  ASSUME Consistent(table), NEW n \in Chunks, NEW k \in SweptBy(n)
  PROVE  Entries[k].expiry <= clock
<1>1. PICK d \in Retentions : \E i \in Len(table.lists[d]) - n[d] + 1 .. Len(table.lists[d]) :
                                k = table.lists[d][i]
  BY Zenon DEF SweptBy
<1> DEFINE l == table.lists[d]
           S == {x \in 0 .. Len(l) : \A i \in Len(l) - x + 1 .. Len(l) : Entries[l[i]].expiry <= clock}
           b == ExpiredAtBack(d)
           m == n[d]
<1>2. PICK i \in Len(l) - m + 1 .. Len(l) : k = l[i]
  BY <1>1, Zenon
<1>3. l \in Seq(Keys)
  BY Zenon DEF Consistent, Shaped
<1>4. b = Max(S)
  BY Zenon DEF ExpiredAtBack
<1>5. m \in 0 .. SweepChunk /\ m <= b
  BY Zenon DEF Chunks
<1> HIDE DEF l, b, m
<1>6. Len(l) \in Nat /\ SweepChunk \in Nat
  BY <1>3, ShadowAssumption
<1>7. S \in SUBSET (0 .. Len(l)) /\ S # {}
  <2>1. 0 \in 0 .. Len(l) /\ Len(l) - 0 + 1 .. Len(l) = {}
    BY <1>6
  <2>2. 0 \in S
    BY <2>1, Zenon
  <2>3. QED
    BY <2>2, Zenon
<1>8. b \in S
  <2> HIDE DEF S
  <2>1. QED
    BY <1>4, <1>6, <1>7, MaxOfBounded, Zenon
<1>9. b \in 0 .. Len(l) /\ \A j \in Len(l) - b + 1 .. Len(l) : Entries[l[j]].expiry <= clock
  BY <1>8, Zenon
<1> HIDE DEF S
<1>10. i \in Len(l) - b + 1 .. Len(l)
  BY <1>2, <1>5, <1>6, <1>9
<1>11. QED
  BY <1>2, <1>9, <1>10, Zenon

\* Only a sweep and an observed landing take keys away.
LEMMA StepLeavesForAReason == TableInv /\ [TableNext]_tableVars => [LeavesForAReason]_tableVars
<1> SUFFICES ASSUME TableInv, TableNext, NEW k \in DOMAIN Entries \ DOMAIN Entries'
             PROVE  \/ Entries[k].expiry <= clock
                    \/ /\ Cardinality(DOMAIN Entries) = MaxKeys
                       /\ DOMAIN Entries' \ DOMAIN Entries # {}
  BY Zenon DEF LeavesForAReason
<1>1. Consistent(table) /\ Cardinality(DOMAIN Entries) <= MaxKeys
  BY Zenon DEF TableInv
<1>2. table' # table
  BY Zenon DEF Entries
<1>3. CASE Sweep
  <2>1. PICK n \in Chunks : table' = EvictLocked(table, SweptBy(n))
    BY <1>3, Zenon DEF Sweep
  <2> DEFINE gone == SweptBy(n)
  <2>2. gone \in SUBSET DOMAIN table.entries
    BY <1>1, SweptTracked, Zenon DEF Entries
  <2> HIDE DEF gone
  <2>3. DOMAIN EvictLocked(table, gone).entries = DOMAIN table.entries \ gone
    BY <1>1, <2>2, EvictConsistent
  <2>4. k \in gone
    BY <2>1, <2>3, Zenon DEF gone, Entries
  <2>5. QED
    BY <1>1, <2>4, SweptExpired, Zenon DEF gone
<1>4. ASSUME NEW p \in Dispatches, Observe(p)
      PROVE  /\ Cardinality(DOMAIN Entries) = MaxKeys
             /\ DOMAIN Entries' \ DOMAIN Entries # {}
  <2> DEFINE q == req[p]
  <2>1. q.pc \in Lands /\ table' \in ObserveKeyed(q.key, q.pool, q.host, q.d, q.cfg, q.now)
    BY <1>2, <1>4, Zenon DEF Observe, Lands
  <2>2. q.pc # "idle" /\ Request(q)
    <3>1. q.pc # "idle"
      BY <2>1 DEF Lands
    <3>2. QED
      BY <3>1, Zenon DEF TableInv
  <2> HIDE DEF q
  <2>3. PICK key \in Keys, o \in Offers : \E d : Dispatched(q, key, o, d)
    BY <2>2, NotIdle, Zenon
  <2>4. q.key \in Keys /\ q.cfg.retention \in Retentions
    <3>1. PICK d : Dispatched(q, key, o, d)
      BY <2>3, Zenon
    <3>2. Carries(q, key, o, d)
      BY <3>1, DispatchedFields, Zenon
    <3>3. QED
      BY <3>2, Zenon DEF Carries, Retentions
  <2>5. PICK u \in Present(q.key, q.cfg.retention) :
          table' = [ entries |-> [u.entries EXCEPT ![q.key] =
                       Landed(u.entries[q.key], q.host,
                              RecordedGroup(BumpRate(u.entries[q.key], q.now), q.key, q.pool, q.d, q.cfg, q.now),
                              q.cfg, q.now)],
                     lists   |-> u.lists,
                     counts  |-> ShiftCount(u.counts, GroupOf(u.entries[q.key]),
                       RecordedGroup(BumpRate(u.entries[q.key], q.now), q.key, q.pool, q.d, q.cfg, q.now)) ]
    BY <2>1, Zenon DEF ObserveKeyed
  <2>6. DOMAIN table'.entries = DOMAIN u.entries
    BY <2>5, Zenon
  <2>7. k \in DOMAIN Entries \ DOMAIN u.entries
    BY <2>6, Zenon DEF Entries
  <2>8. Cardinality(DOMAIN Entries) = MaxKeys /\ q.key \in DOMAIN u.entries \ DOMAIN Entries
    BY <1>1, <2>4, <2>5, <2>7, EvictedWhenFull, Zenon
  <2>9. q.key \in DOMAIN Entries' \ DOMAIN Entries
    BY <2>6, <2>8, Zenon DEF Entries
  <2>10. QED
    BY <2>8, <2>9, Zenon
<1>5. Sweep \/ \E p \in Dispatches : Observe(p)
  BY <1>2, Zenon DEF TableNext, Tick, Arrive, Reject, Land, Finish, SweepStart, Close
<1>6. QED
  BY <1>3, <1>4, <1>5, Zenon

\* A key leaves the table only because it expired, or because a landing of
\* another key found the table full: the first half of SweepSound.
THEOREM KeysLeaveForAReason == TableSpec => [][LeavesForAReason]_tableVars
BY TableInvHolds, StepLeavesForAReason, PTL DEF TableSpec
=============================================================================
