--------------------------- MODULE DispatchProofs ---------------------------
(***************************************************************************)
(* InflightExact, proved for any number of requests, hosts, configurations *)
(* and replaced enclaves.                                                  *)
(*                                                                         *)
(* The counts are not inductive by themselves: a release is only right if  *)
(* the enclave released is one that the request holds, once.  RequestSound *)
(* says what the locals of a handler are at each point, that failover goes *)
(* to another host than the one it leaves, and that the sync.OnceFunc has  *)
(* run exactly while the alternate serves.  Under it every action either   *)
(* gives one request one more enclave, takes one away, or moves nothing.   *)
(***************************************************************************)
EXTENDS Dispatch, FiniteSetTheorems, TLAPS

HoldsFirst == {"rejecting", "serving", "switching", "posting", "reading"}
HoldsAlternate == {"switching", "retrying"}

\* The part of TypeOK that the counts depend on.
Typed ==
  /\ installed \subseteq Hosts
  /\ gen \in [Hosts -> 0 .. MaxGen]
  /\ \A h \in installed : gen[h] > 0
  /\ inflight \in [Enclaves -> Int]
  /\ series \in [Hosts -> Int]
  /\ pc \in [Requests -> Points]
  /\ first \in [Requests -> Enclaves \cup {NoEnclave}]
  /\ alternate \in [Requests -> Enclaves \cup {NoEnclave}]

\* What a handler's locals are at each of its points.
RequestSound(r) ==
  /\ r \in once <=> pc[r] = "retrying"
  /\ pc[r] \in HoldsFirst => first[r] \in Enclaves
  /\ pc[r] \in HoldsAlternate => alternate[r] \in Enclaves
  /\ pc[r] = "switching" => HostOf(alternate[r]) # HostOf(first[r])

Inv == Typed /\ (\A r \in Requests : RequestSound(r)) /\ InflightExact

-----------------------------------------------------------------------------
Holders(e) == {r \in Requests : e \in Held(r)}
HostHolders(h) == {r \in Requests : \E e \in Held(r) : HostOf(e) = h}

(***************************************************************************)
(* InflightExact in terms of the holders of an enclave and of a host       *)
(* (Enclave.inflight and BackendInflight), which are finite sets.          *)
(***************************************************************************)
LEMMA ExactByHolders ==
  /\ InflightExact <=> /\ \A e \in Enclaves : inflight[e] = Cardinality(Holders(e))
                       /\ \A h \in Hosts : series[h] = Cardinality(HostHolders(h))
  /\ \A e : IsFiniteSet(Holders(e)) /\ Cardinality(Holders(e)) \in Nat
  /\ \A h : IsFiniteSet(HostHolders(h)) /\ Cardinality(HostHolders(h)) \in Nat
<1>1. \A S \in SUBSET Requests : IsFiniteSet(S) /\ Cardinality(S) \in Nat
  BY FS_Subset, FS_CardinalityType, DispatchAssumption, Zenon
<1>2. /\ \A e : Holders(e) \in SUBSET Requests
      /\ \A h : HostHolders(h) \in SUBSET Requests
  BY Zenon DEF Holders, HostHolders
<1> QED
  BY <1>1, <1>2, Zenon DEF InflightExact, Holders, HostHolders

(***************************************************************************)
(* A step in which one request takes one more reservation (Reserve, in     *)
(* SelectServing, SelectRetry and SelectInternal) keeps the counts exact.  *)
(***************************************************************************)
LEMMA TakesOne ==
  ASSUME InflightExact, Typed, NEW r \in Requests, NEW e \in Enclaves, Reserve(e),
         \A q \in Requests \ {r} : Held(q)' = Held(q),
         Held(r)' = Held(r) \cup {e},
         \A d \in Held(r) : HostOf(d) # HostOf(e)
  PROVE  InflightExact'
<1>1. HostOf(e) \in Hosts
  BY Zenon DEF Enclaves, HostOf
<1>2. r \notin Holders(e) /\ r \notin HostHolders(HostOf(e))
  BY Zenon DEF Holders, HostHolders
<1>3. ASSUME NEW d \in Enclaves
      PROVE  inflight'[d] = Cardinality(Holders(d)')
  <2>1. inflight[d] = Cardinality(Holders(d)) /\ inflight[d] \in Int
    BY ExactByHolders, Zenon DEF Typed
  <2>2. CASE d = e
    <3>1. Holders(d)' = Holders(d) \cup {r}
      BY <2>2, Zenon DEF Holders
    <3>2. Cardinality(Holders(d) \cup {r}) = Cardinality(Holders(d)) + 1
      BY <1>2, <2>2, ExactByHolders, FS_AddElement, Zenon
    <3> QED
      BY <2>1, <2>2, <3>1, <3>2, Zenon DEF Reserve, Typed
  <2>3. CASE d # e
    <3>1. Holders(d)' = Holders(d)
      BY <2>3, Zenon DEF Holders
    <3> QED
      BY <2>1, <2>3, <3>1, Zenon DEF Reserve, Typed
  <2> QED
    BY <2>2, <2>3, Zenon
<1>4. ASSUME NEW h \in Hosts
      PROVE  series'[h] = Cardinality(HostHolders(h)')
  <2>1. series[h] = Cardinality(HostHolders(h)) /\ series[h] \in Int
    BY ExactByHolders, Zenon DEF Typed
  <2>2. CASE h = HostOf(e)
    <3>1. HostHolders(h)' = HostHolders(h) \cup {r}
      BY <2>2, Zenon DEF HostHolders, HostOf
    <3>2. Cardinality(HostHolders(h) \cup {r}) = Cardinality(HostHolders(h)) + 1
      BY <1>2, <2>2, ExactByHolders, FS_AddElement, Zenon
    <3> QED
      BY <1>1, <2>1, <2>2, <3>1, <3>2, Zenon DEF Reserve, Typed
  <2>3. CASE h # HostOf(e)
    <3>1. HostHolders(h)' = HostHolders(h)
      BY <2>3, Zenon DEF HostHolders, HostOf
    <3> QED
      BY <1>1, <2>1, <2>3, <3>1, Zenon DEF Reserve, Typed
  <2> QED
    BY <2>2, <2>3, Zenon
<1>5. /\ \A d \in Enclaves : inflight'[d] = Cardinality(Holders(d)')
      /\ \A h \in Hosts : series'[h] = Cardinality(HostHolders(h)')
  BY <1>3, <1>4, Zenon
<1> QED
  BY <1>5, Zenon DEF InflightExact, Holders, HostHolders, Enclaves, HostOf

(***************************************************************************)
(* A step in which one request gives up one reservation (ReleaseDispatch,  *)
(* in Finish, Switch, FinishRetry, PostFails and CloseBody) keeps the      *)
(* counts exact.                                                           *)
(***************************************************************************)
LEMMA GivesBackOne ==
  ASSUME InflightExact, Typed, NEW r \in Requests, NEW e \in Enclaves, ReleaseDispatch(e),
         \A q \in Requests \ {r} : Held(q)' = Held(q),
         Held(r) = Held(r)' \cup {e},
         \A d \in Held(r)' : HostOf(d) # HostOf(e)
  PROVE  InflightExact'
<1>1. HostOf(e) \in Hosts
  BY Zenon DEF Enclaves, HostOf
<1>2. r \in Holders(e) /\ r \in HostHolders(HostOf(e)) /\ e \notin Held(r)'
  BY Zenon DEF Holders, HostHolders
<1>3. ASSUME NEW d \in Enclaves
      PROVE  inflight'[d] = Cardinality(Holders(d)')
  <2>1. inflight[d] = Cardinality(Holders(d)) /\ inflight[d] \in Int
    BY ExactByHolders, Zenon DEF Typed
  <2>2. CASE d = e
    <3>1. Holders(d)' = Holders(d) \ {r}
      BY <1>2, <2>2 DEF Holders
    <3>2. Cardinality(Holders(d) \ {r}) = Cardinality(Holders(d)) - 1
      BY <1>2, <2>2, ExactByHolders, FS_RemoveElement, Zenon
    <3> QED
      BY <2>1, <2>2, <3>1, <3>2, Zenon DEF ReleaseDispatch, Typed
  <2>3. CASE d # e
    <3>1. Holders(d)' = Holders(d)
      BY <2>3, Zenon DEF Holders
    <3> QED
      BY <2>1, <2>3, <3>1, Zenon DEF ReleaseDispatch, Typed
  <2> QED
    BY <2>2, <2>3, Zenon
<1>4. ASSUME NEW h \in Hosts
      PROVE  series'[h] = Cardinality(HostHolders(h)')
  <2>1. series[h] = Cardinality(HostHolders(h)) /\ series[h] \in Int
    BY ExactByHolders, Zenon DEF Typed
  <2>2. CASE h = HostOf(e)
    <3>1. HostHolders(h)' = HostHolders(h) \ {r}
      BY <2>2 DEF HostHolders, HostOf
    <3>2. Cardinality(HostHolders(h) \ {r}) = Cardinality(HostHolders(h)) - 1
      BY <1>2, <2>2, ExactByHolders, FS_RemoveElement, Zenon
    <3> QED
      BY <1>1, <2>1, <2>2, <3>1, <3>2, Zenon DEF ReleaseDispatch, Typed
  <2>3. CASE h # HostOf(e)
    <3>1. HostHolders(h)' = HostHolders(h)
      BY <2>3 DEF HostHolders, HostOf
    <3> QED
      BY <1>1, <2>1, <2>3, <3>1, Zenon DEF ReleaseDispatch, Typed
  <2> QED
    BY <2>2, <2>3, Zenon
<1>5. /\ \A d \in Enclaves : inflight'[d] = Cardinality(Holders(d)')
      /\ \A h \in Hosts : series'[h] = Cardinality(HostHolders(h)')
  BY <1>3, <1>4, Zenon
<1> QED
  BY <1>5, Zenon DEF InflightExact, Holders, HostHolders, Enclaves, HostOf

(***************************************************************************)
(* A step that moves neither counts nor reservations keeps them exact.     *)
(***************************************************************************)
LEMMA MovesNone ==
  ASSUME InflightExact, UNCHANGED ledger, \A q \in Requests : Held(q)' = Held(q)
  PROVE  InflightExact'
<1>1. \A d : Holders(d)' = Holders(d)
  BY Zenon DEF Holders
<1>2. \A h : HostHolders(h)' = HostHolders(h)
  BY Zenon DEF HostHolders, HostOf
<1>3. /\ \A d \in Enclaves : inflight'[d] = Cardinality(Holders(d)')
      /\ \A h \in Hosts : series'[h] = Cardinality(HostHolders(h)')
  BY <1>1, <1>2, ExactByHolders, Zenon DEF ledger
<1> QED
  BY <1>3, Zenon DEF InflightExact, Holders, HostHolders, Enclaves, HostOf

-----------------------------------------------------------------------------
\* A handler's step touches no other handler's locals.
OnlyMoves(r) ==
  \A q \in Requests \ {r} :
    /\ pc'[q] = pc[q]
    /\ first'[q] = first[q]
    /\ alternate'[q] = alternate[q]
    /\ q \in once' <=> q \in once

(***************************************************************************)
(* What a step of one handler leaves of the other handlers: their locals   *)
(* are as sound, and they hold what they held.                             *)
(***************************************************************************)
LEMMA OthersKeep ==
  ASSUME NEW r, OnlyMoves(r), \A q \in Requests : RequestSound(q)
  PROVE  \A q \in Requests \ {r} : RequestSound(q)' /\ Held(q)' = Held(q)
BY DEF OnlyMoves, RequestSound, Held, Enclaves, HostOf

(***************************************************************************)
(* The current object of an installed host is an enclave of it             *)
(* (model.Enclaves holds the newest one).                                  *)
(***************************************************************************)
LEMMA CurrentIsEnclave ==
  ASSUME Typed, NEW h \in installed
  PROVE  Current(h) \in Enclaves /\ HostOf(Current(h)) = h
<1>1. h \in Hosts /\ gen[h] \in 1 .. MaxGen
  BY DispatchAssumption DEF Typed
<1> QED
  BY <1>1, Zenon DEF Current, Enclaves, HostOf

(***************************************************************************)
(* Arrivals and the steps that move a handler without a reservation:       *)
(* ReservationPools, the hand-off of a body, an unavailable model and a    *)
(* second Close.                                                           *)
(***************************************************************************)
LEMMA QuietSteps ==
  ASSUME Inv, NEW r \in Requests,
         Arrive(r) \/ ArriveInternal(r) \/ Unavailable(r) \/ HandOff(r) \/ CloseAgain(r)
  PROVE  Inv'
<1>1. /\ Typed' /\ OnlyMoves(r) /\ UNCHANGED ledger
      /\ RequestSound(r)' /\ Held(r)' = Held(r)
  <2>1. CASE Arrive(r) \/ ArriveInternal(r)
    BY <2>1 DEF Arrive, ArriveInternal, SnapshotPools, Inv, Typed, Goto, OnlyMoves, model,
                ledger, RequestSound, Held, HoldsFirst, HoldsAlternate, Points, Enclaves
  <2>2. CASE Unavailable(r)
    BY <2>2, Zenon DEF Unavailable, Return, Inv, Typed, Goto, OnlyMoves, model, ledger,
                RequestSound, Held, HoldsFirst, HoldsAlternate, Points, Enclaves
  <2>3. CASE HandOff(r)
    BY <2>3, Zenon DEF HandOff, Inv, Typed, Goto, OnlyMoves, model, ledger,
                RequestSound, Held, HoldsFirst, HoldsAlternate, Points, Enclaves
  <2>4. CASE CloseAgain(r)
    BY <2>4, Zenon DEF CloseAgain, Return, Inv, Typed, Goto, OnlyMoves, model, ledger,
                RequestSound, Held, HoldsFirst, HoldsAlternate, Points, Enclaves
  <2> QED
    BY <2>1, <2>2, <2>3, <2>4, Zenon
<1>2. \A q \in Requests : RequestSound(q)' /\ Held(q)' = Held(q)
  BY <1>1, OthersKeep, Zenon DEF Inv
<1>3. InflightExact'
  BY <1>1, <1>2, MovesNone, Zenon DEF Inv
<1> QED
  BY <1>1, <1>2, <1>3, Zenon DEF Inv

(***************************************************************************)
(* The three selections: SelectServing and SelectInternal give a handler   *)
(* that holds nothing its first enclave, SelectRetry gives it another one  *)
(* on another host.                                                        *)
(***************************************************************************)
LEMMA Selections ==
  ASSUME Inv, NEW r \in Requests,
         SelectServing(r) \/ SelectRetry(r) \/ SelectInternal(r)
  PROVE  Inv'
<1>1. \E e \in Enclaves : /\ Typed' /\ OnlyMoves(r) /\ Reserve(e)
                          /\ RequestSound(r)' /\ Held(r)' = Held(r) \cup {e}
                          /\ \A d \in Held(r) : HostOf(d) # HostOf(e)
  <2>1. CASE SelectServing(r) \/ SelectInternal(r)
    <3>1. PICK h \in installed : /\ Reserve(Current(h))
                                 /\ first' = [first EXCEPT ![r] = Current(h)]
                                 /\ \E p \in {"serving", "rejecting", "posting"} : Goto(r, p)
      BY <2>1, Zenon DEF SelectServing, SelectInternal
    <3> DEFINE e == Current(h)
    <3>2. e \in Enclaves /\ HostOf(e) \in Hosts
      BY CurrentIsEnclave, Zenon DEF Inv, Typed
    <3>3. UNCHANGED <<installed, gen, once, alternate>> /\ pc[r] \in {"pools", "internal"}
      BY <2>1, Zenon DEF SelectServing, SelectInternal, model
    <3>4. Typed' /\ OnlyMoves(r)
      <4>1. inflight' \in [Enclaves -> Int] /\ series' \in [Hosts -> Int]
        BY <3>1, <3>2 DEF Reserve, Inv, Typed
      <4> QED
        BY <3>1, <3>2, <3>3, <4>1, Zenon DEF Inv, Typed, Goto, OnlyMoves, Points, Enclaves
    <3>5. Held(r) = {} /\ Held(r)' = {e}
      BY <3>1, <3>3, Zenon DEF Held, Goto, Inv, Typed
    <3>6. RequestSound(r)'
      BY <3>1, <3>2, <3>3, Zenon
      DEF Inv, Typed, RequestSound, Goto, HoldsFirst, HoldsAlternate, Enclaves
    <3> QED
      BY <3>1, <3>2, <3>4, <3>5, <3>6, Zenon
  <2>2. CASE SelectRetry(r)
    <3>1. PICK h \in installed : /\ h # HostOf(first[r])
                                 /\ Reserve(Current(h))
                                 /\ alternate' = [alternate EXCEPT ![r] = Current(h)]
      BY <2>2, Zenon DEF SelectRetry
    <3> DEFINE e == Current(h)
    <3>2. e \in Enclaves /\ HostOf(e) \in Hosts /\ HostOf(e) = h
      BY CurrentIsEnclave, Zenon DEF Inv, Typed
    <3>3. /\ UNCHANGED <<installed, gen, first, once>>
          /\ pc[r] = "serving" /\ Goto(r, "switching")
      BY <2>2, Zenon DEF SelectRetry, model
    <3>4. Typed' /\ OnlyMoves(r)
      <4>1. inflight' \in [Enclaves -> Int] /\ series' \in [Hosts -> Int]
        BY <3>1, <3>2 DEF Reserve, Inv, Typed
      <4> QED
        BY <3>1, <3>2, <3>3, <4>1, Zenon DEF Inv, Typed, Goto, OnlyMoves, Points, Enclaves
    <3>5. Held(r) = {first[r]} /\ Held(r)' = {first[r], e}
      BY <3>1, <3>3, Zenon DEF Held, Goto, Inv, Typed
    <3>6. RequestSound(r)'
      BY <3>1, <3>2, <3>3, Zenon
      DEF Inv, Typed, RequestSound, Goto, HoldsFirst, HoldsAlternate, Enclaves, HostOf
    <3> QED
      BY <3>1, <3>2, <3>4, <3>5, <3>6, Zenon
  <2> QED
    BY <2>1, <2>2, Zenon
<1>2. \A q \in Requests : RequestSound(q)' /\ (q # r => Held(q)' = Held(q))
  BY <1>1, OthersKeep, Zenon DEF Inv
<1>3. InflightExact'
  BY <1>1, <1>2, TakesOne, Zenon DEF Inv
<1> QED
  BY <1>1, <1>2, <1>3, Zenon DEF Inv

(***************************************************************************)
(* The releases: Finish, PostFails and CloseBody give back the first       *)
(* enclave, Switch gives it back while the alternate is held, FinishRetry  *)
(* gives back the alternate.                                               *)
(***************************************************************************)
LEMMA Releases ==
  ASSUME Inv, NEW r \in Requests,
         Finish(r) \/ Switch(r) \/ FinishRetry(r) \/ PostFails(r) \/ CloseBody(r)
  PROVE  Inv'
<1>1. \E e \in Enclaves : /\ Typed' /\ OnlyMoves(r) /\ ReleaseDispatch(e)
                          /\ RequestSound(r)' /\ Held(r) = Held(r)' \cup {e}
                          /\ \A d \in Held(r)' : HostOf(d) # HostOf(e)
  <2>0. ASSUME NEW e \in Enclaves, ReleaseDispatch(e)
        PROVE  inflight' \in [Enclaves -> Int] /\ series' \in [Hosts -> Int]
    BY <2>0 DEF ReleaseDispatch, Inv, Typed, Enclaves, HostOf
  <2>1. CASE Finish(r) \/ PostFails(r) \/ CloseBody(r)
    <3>1. /\ pc[r] \in {"rejecting", "serving", "posting", "reading"}
          /\ first[r] \in Enclaves
          /\ r \notin once
      BY <2>1, Zenon DEF Finish, PostFails, CloseBody, Inv, RequestSound, HoldsFirst
    <3>2. ReleaseDispatch(first[r])
      BY <2>1, <3>1, Zenon DEF Finish, PostFails, CloseBody, ReleaseOnce
    <3>3. Typed' /\ OnlyMoves(r) /\ RequestSound(r)' /\ Held(r)' = {}
      <4>1. CASE Return(r) /\ UNCHANGED model
        BY <2>0, <3>1, <3>2, <4>1, Zenon
        DEF Return, Inv, Typed, Goto, OnlyMoves, model, RequestSound, Held,
            HoldsFirst, HoldsAlternate, Points, Enclaves
      <4>2. CASE Goto(r, "closed") /\ UNCHANGED <<model, first, once, alternate>>
        BY <2>0, <3>1, <3>2, <4>2, Zenon
        DEF Inv, Typed, Goto, OnlyMoves, model, RequestSound, Held,
            HoldsFirst, HoldsAlternate, Points, Enclaves
      <4> QED
        BY <2>1, <4>1, <4>2, Zenon DEF Finish, PostFails, CloseBody
    <3>4. Held(r) = {first[r]}
      BY <3>1, Zenon DEF Held
    <3> QED
      BY <3>1, <3>2, <3>3, <3>4, Zenon
  <2>2. CASE Switch(r)
    <3>1. /\ pc[r] = "switching" /\ r \notin once
          /\ first[r] \in Enclaves /\ alternate[r] \in Enclaves
          /\ HostOf(alternate[r]) # HostOf(first[r])
      BY <2>2, Zenon DEF Switch, Inv, RequestSound, HoldsFirst, HoldsAlternate
    <3>2. ReleaseDispatch(first[r])
      BY <2>2, <3>1, Zenon DEF Switch, ReleaseOnce
    <3>3. Typed' /\ OnlyMoves(r) /\ RequestSound(r)' /\ Held(r)' = {alternate[r]}
      BY <2>0, <2>2, <3>1, <3>2, Zenon
      DEF Switch, Inv, Typed, Goto, OnlyMoves, model, RequestSound, Held,
          HoldsFirst, HoldsAlternate, Points, Enclaves
    <3>4. Held(r) = {first[r], alternate[r]}
      BY <3>1, Zenon DEF Held
    <3> QED
      BY <3>1, <3>2, <3>3, <3>4, Zenon
  <2>3. CASE FinishRetry(r)
    <3>1. pc[r] = "retrying" /\ alternate[r] \in Enclaves
      BY <2>3, Zenon DEF FinishRetry, Inv, RequestSound, HoldsAlternate
    <3>2. ReleaseDispatch(alternate[r])
      BY <2>3, Zenon DEF FinishRetry
    <3>3. Typed' /\ OnlyMoves(r) /\ RequestSound(r)' /\ Held(r)' = {}
      BY <2>0, <2>3, <3>1, <3>2, Zenon
      DEF FinishRetry, Return, Inv, Typed, Goto, OnlyMoves, model, RequestSound, Held,
          HoldsFirst, HoldsAlternate, Points, Enclaves
    <3>4. Held(r) = {alternate[r]}
      BY <3>1, Zenon DEF Held
    <3> QED
      BY <3>1, <3>2, <3>3, <3>4, Zenon
  <2> QED
    BY <2>1, <2>2, <2>3, Zenon
<1>2. \A q \in Requests : RequestSound(q)' /\ (q # r => Held(q)' = Held(q))
  BY <1>1, OthersKeep, Zenon DEF Inv
<1>3. InflightExact'
  BY <1>1, <1>2, GivesBackOne, Zenon DEF Inv
<1> QED
  BY <1>1, <1>2, <1>3, Zenon DEF Inv

(***************************************************************************)
(* sync and refreshEnclave change which enclaves are offered, never who    *)
(* holds one.                                                              *)
(***************************************************************************)
LEMMA ModelSteps ==
  ASSUME Inv, Reload \/ \E h \in Hosts : InstallEnclave(h)
  PROVE  Inv'
<1>1. UNCHANGED <<ledger, request>>
  BY Zenon DEF Reload, InstallEnclave
<1>2. \A q \in Requests : RequestSound(q)' /\ Held(q)' = Held(q)
  BY <1>1, Zenon DEF request, RequestSound, Held, Inv, Enclaves, HostOf
<1>3. Typed'
  <2>1. CASE Reload
    BY <1>1, <2>1, Zenon DEF Reload, Inv, Typed, request, ledger, Enclaves
  <2>2. ASSUME NEW h \in Hosts, InstallEnclave(h) PROVE Typed'
    <3>1. gen' \in [Hosts -> 0 .. MaxGen] /\ gen'[h] > 0 /\ installed' = installed \cup {h}
      BY <2>2, DispatchAssumption DEF InstallEnclave, Inv, Typed
    <3>2. \A g \in installed : gen'[g] > 0
      BY <2>2, <3>1, Zenon DEF InstallEnclave, Inv, Typed
    <3> QED
      BY <1>1, <3>1, <3>2, Zenon DEF Inv, Typed, request, ledger, Enclaves
  <2> QED
    BY <2>1, <2>2, Zenon
<1>4. InflightExact'
  BY <1>1, <1>2, MovesNone, Zenon DEF Inv
<1> QED
  BY <1>2, <1>3, <1>4, Zenon DEF Inv

(***************************************************************************)
(* Nothing is held and nothing counted before the first request.           *)
(***************************************************************************)
LEMMA InitInv ==
  ASSUME Init PROVE Inv
<1>1. Typed /\ \A r \in Requests : RequestSound(r) /\ Held(r) = {}
  BY DispatchAssumption
  DEF Init, Typed, RequestSound, Held, HoldsFirst, HoldsAlternate, Points
<1>2. \A e : Holders(e) = {} /\ \A h : HostHolders(h) = {}
  BY <1>1, Zenon DEF Holders, HostHolders
<1>3. InflightExact
  BY <1>2, FS_EmptySet, ExactByHolders, Zenon DEF Init
<1> QED
  BY <1>1, <1>3, Zenon DEF Inv

(***************************************************************************)
(* RequestSound and the exact counts are kept by every step of a handler,  *)
(* of sync and of refreshEnclave.                                          *)
(***************************************************************************)
LEMMA Invariance == Spec => []Inv
<1>1. Init => Inv
  BY InitInv, Zenon
<1>2. Inv /\ [Next]_vars => Inv'
  <2> SUFFICES ASSUME Inv, [Next]_vars PROVE Inv'
    BY Zenon
  <2>1. CASE UNCHANGED vars
    <3>1. UNCHANGED <<ledger, request, model>>
      BY <2>1, Zenon DEF vars
    <3>2. \A q \in Requests : RequestSound(q)' /\ Held(q)' = Held(q)
      BY <3>1, Zenon DEF request, RequestSound, Held, Inv, Enclaves, HostOf
    <3>3. Typed'
      BY <3>1, Zenon DEF Inv, Typed, request, ledger, model, Enclaves
    <3> QED
      BY <3>1, <3>2, <3>3, MovesNone, Zenon DEF Inv
  <2> QED
    BY <2>1, QuietSteps, Selections, Releases, ModelSteps, Zenon DEF Next, Ends
<1> QED
  BY <1>1, <1>2, PTL DEF Spec

(***************************************************************************)
(* Each selection is released exactly once: Enclave.inflight and the       *)
(* host's BackendInflight series count the requests that hold it, at every *)
(* moment, whatever is rejected, retried, dispatched internally, reloaded  *)
(* or replaced.                                                            *)
(***************************************************************************)
THEOREM CountsAreExact == Spec => []InflightExact
<1>1. Inv => InflightExact
  BY Zenon DEF Inv
<1> QED
  BY <1>1, Invariance, PTL

-----------------------------------------------------------------------------
\* An Enclave object that a newer one of its host has replaced.
Retired(e) == e[2] < gen[HostOf(e)]

(***************************************************************************)
(* A retired enclave is never selected again, so that its count only falls *)
(* and never below zero: the safety half of RetiredDrains.                 *)
(***************************************************************************)
RetiredOnlyDrains ==
  [][\A e \in Enclaves :
       Retired(e) => Retired(e)' /\ inflight'[e] \in 0 .. inflight[e]]_vars

(***************************************************************************)
(* A release never raises a count: ReleaseDispatch subtracts.              *)
(***************************************************************************)
LEMMA ReleaseLowers ==
  ASSUME Typed, NEW e \in Enclaves, NEW d, UNCHANGED ledger \/ ReleaseDispatch(d)
  PROVE  inflight'[e] <= inflight[e]
<1>1. inflight[e] \in Int
  BY Zenon DEF Typed
<1>2. inflight'[e] = inflight[e] \/ inflight'[e] = inflight[e] - 1
  BY Zenon DEF ReleaseDispatch, ledger, Typed
<1> QED
  BY <1>1, <1>2

(***************************************************************************)
(* A replaced enclave takes no new request: SelectServing, SelectRetry and *)
(* the internal dispatches only reserve on the object that model.Enclaves  *)
(* holds, which is the newest one.                                         *)
(***************************************************************************)
THEOREM RetiredEnclavesOnlyDrain == Spec => RetiredOnlyDrains
<1>1. ASSUME Inv, Inv', [Next]_vars, NEW e \in Enclaves, Retired(e)
      PROVE  Retired(e)' /\ inflight'[e] \in 0 .. inflight[e]
  <2>1. HostOf(e) \in Hosts /\ gen[HostOf(e)] \in Int /\ e[2] \in Int
    BY <1>1, DispatchAssumption DEF Inv, Typed, Enclaves, HostOf
  <2>2. inflight[e] \in Nat /\ inflight'[e] \in Nat
    <3>1. inflight[e] \in Nat
      BY <1>1, ExactByHolders, Zenon DEF Inv
    <3>2. inflight'[e] \in Nat
      <4>1. {r \in Requests : e \in Held(r)'} \in SUBSET Requests
        BY Zenon
      <4>2. inflight'[e] = Cardinality({r \in Requests : e \in Held(r)'})
        BY <1>1, Zenon DEF Inv, InflightExact, Enclaves
      <4> QED
        BY <4>1, <4>2, FS_Subset, FS_CardinalityType, DispatchAssumption
    <3> QED
      BY <3>1, <3>2, Zenon
  <2>3. gen'[HostOf(e)] >= gen[HostOf(e)]
    <3>1. CASE gen' = gen
      BY <2>1, <3>1, SMTT(30)
    <3>2. CASE \E h \in Hosts : InstallEnclave(h)
      <4>1. PICK h \in Hosts : gen' = [gen EXCEPT ![h] = @ + 1]
        BY <3>2, Zenon DEF InstallEnclave
      <4>2. gen \in [Hosts -> 0 .. MaxGen]
        BY <1>1, Zenon DEF Inv, Typed
      <4>3. gen'[HostOf(e)] = gen[HostOf(e)] \/ gen'[HostOf(e)] = gen[HostOf(e)] + 1
        BY <2>1, <4>1, <4>2, Zenon
      <4> QED
        BY <2>1, <4>3
    <3> QED
      BY <1>1, <3>1, <3>2, Zenon
      DEF Next, vars, model, Arrive, ArriveInternal, SnapshotPools, SelectServing, Unavailable,
          SelectRetry, SelectInternal, HandOff, Ends, Finish, Switch, FinishRetry, PostFails,
          CloseBody, CloseAgain, Reload
  <2>4. inflight'[e] <= inflight[e]
    <3>1. CASE \E h \in installed : Reserve(Current(h))
      <4>1. PICK h \in installed : Reserve(Current(h))
        BY <3>1, Zenon
      <4>2. Current(h) # e
        BY <1>1, <2>1 DEF Current, Retired, HostOf
      <4> QED
        BY <1>1, <2>2, <4>1, <4>2 DEF Reserve, Inv, Typed
    <3>2. CASE UNCHANGED ledger \/ \E d : ReleaseDispatch(d)
      BY <1>1, <3>2, ReleaseLowers, Zenon DEF Inv
    <3>3. CASE \E r \in Requests : SelectServing(r) \/ SelectRetry(r) \/ SelectInternal(r)
      BY <3>1, <3>3, Zenon DEF SelectServing, SelectRetry, SelectInternal
    <3>4. CASE ~\E r \in Requests : SelectServing(r) \/ SelectRetry(r) \/ SelectInternal(r)
      <4>1. UNCHANGED ledger \/ \E d : ReleaseDispatch(d)
        BY <1>1, <3>4, Zenon
        DEF Next, vars, Arrive, ArriveInternal, SnapshotPools, Unavailable, HandOff, Ends,
            Finish, Switch, FinishRetry, PostFails, CloseBody, CloseAgain, Reload,
            InstallEnclave, ReleaseOnce
      <4> QED
        BY <3>2, <4>1, Zenon
    <3> QED
      BY <3>3, <3>4, Zenon
  <2>5. Retired(e)'
    <3>1. gen'[HostOf(e)] \in Int
      BY <1>1, <2>1 DEF Inv, Typed
    <3> QED
      BY <1>1, <2>1, <2>3, <3>1 DEF Retired, HostOf
  <2> QED
    BY <2>2, <2>4, <2>5
<1>2. Inv /\ Inv' /\ [Next]_vars
        => [\A e \in Enclaves :
              Retired(e) => Retired(e)' /\ inflight'[e] \in 0 .. inflight[e]]_vars
  BY <1>1, Zenon
<1> QED
  BY <1>2, Invariance, PTL DEF Spec, RetiredOnlyDrains

=============================================================================
