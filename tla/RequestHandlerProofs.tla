------------------------ MODULE RequestHandlerProofs ------------------------
(***************************************************************************)
(* Machine-checked proofs about RequestHandler, for every set of requests, *)
(* models, callers, configurations and model lists.                        *)
(***************************************************************************)
EXTENDS RequestHandler, FiniteSetTheorems, TLAPS

\* A sequence of whatever it holds.
IsSequence(s) == s \in Seq({s[i] : i \in DOMAIN s})

\* Before the caller is admitted nothing is counted and nothing leaves the
\* router.
Untouched == admission = <<>> /\ lookups = 0 /\ sent = <<>>

\* Afterwards the model is one the router serves, the lookup was made exactly
\* once for a key that is counted, and the caller of every message is the one
\* that was admitted.
Admitted ==
  /\ admission # <<>> /\ "org" \in DOMAIN admission[1]
  /\ model \in served
  /\ lookups \in {0, 1} /\ (apiKey = "api" => lookups = 1)
  /\ \A i \in DOMAIN sent : sent[i].to # "tokenizer" /\ sent[i].org = admission[1].org

\* The organization the control plane named is the one that was admitted.
CallerNamed ==
  identity \notin {Unset, Unavailable} => admission[1].org = identity

Stages ==
  /\ pc \in {"arrive", "auto", "walk", "chosen", "known", "admit", "pools", "files",
             "route", "select", "count", "tokenize", "over"}
  /\ pc \in {"arrive", "auto", "walk", "chosen", "known", "admit", "count", "tokenize"} =>
       Untouched
  /\ pc # "over" => answer # "404"
  /\ pc = "admit" => model \in served
  /\ pc = "pools" => Admitted /\ sent = <<>>
  /\ pc \in {"files", "select"} => Admitted /\ CallerNamed
  /\ pc = "route" => Untouched \/ (Admitted /\ CallerNamed)

\* What stays true when the request is over.
Outcome == AdmittedOnce /\ OneCaller /\ UnknownNotCounted

Inv == IsSequence(sent) /\ Stages /\ Outcome

\* One more message at the end.
LEMMA Appended ==
  ASSUME NEW s, NEW x, IsSequence(s)
  PROVE  /\ IsSequence(Append(s, x))
         /\ \A i \in DOMAIN Append(s, x) :
              (i \in DOMAIN s /\ Append(s, x)[i] = s[i]) \/ Append(s, x)[i] = x
<1> DEFINE T == {s[i] : i \in DOMAIN s} \cup {x}
<1>1. s \in Seq(T)
  BY DEF IsSequence
<1>2. Append(s, x) \in Seq(T)
  BY <1>1
<1>3. \A i \in DOMAIN Append(s, x) :
        (i \in DOMAIN s /\ Append(s, x)[i] = s[i]) \/ Append(s, x)[i] = x
  BY <1>1
<1>4. IsSequence(Append(s, x))
  <2> DEFINE a == Append(s, x)
  <2>1. a \in Seq(T)
    BY <1>2, Zenon
  <2> HIDE DEF a, T
  <2>2. DOMAIN a = 1 .. Len(a) /\ Len(a) \in Nat /\ a = [i \in 1 .. Len(a) |-> a[i]]
    BY <2>1
  <2>3. a \in [1 .. Len(a) -> {a[i] : i \in DOMAIN a}]
    BY <2>2, Zenon
  <2>4. a \in Seq({a[i] : i \in DOMAIN a})
    BY <2>2, <2>3
  <2>5. QED
    BY <2>4, Zenon DEF IsSequence, a
<1>5. QED
  BY <1>3, <1>4, Zenon

\* A request with nothing counted and nothing sent is in order.
LEMMA UntouchedOutcome ==
  ASSUME Untouched
  PROVE  IsSequence(sent) /\ Outcome
BY DEF Untouched, IsSequence, Outcome, AdmittedOnce, OneCaller, UnknownNotCounted

\* A request that arrives is untouched.
LEMMA InvInit == Init => Inv
<1> SUFFICES ASSUME Init PROVE Inv
  BY Zenon
<1>1. Untouched
  BY Zenon DEF Init, Untouched
<1>2. QED
  BY <1>1, UntouchedOutcome, Zenon DEF Init, Inv, Stages

\* The steps before admission, and those of an input token count.
LEMMA EarlyStep ==
  ASSUME Inv,
         \/ Refused \/ ServeStatic \/ ParseBody \/ ParseCount \/ ParseAudio \/ ParseConvert
         \/ ParseRealtime \/ RankCandidates \/ CheckCandidate \/ ChooseModel \/ Tokenize
  PROVE  Inv'
<1>1. /\ pc \in {"arrive", "auto", "walk", "chosen", "count"}
      /\ UNCHANGED <<admission, lookups, sent>>
  BY Zenon DEF Refused, ServeStatic, ParseBody, ParseCount, ParseAudio, ParseConvert, Arrived,
         ParseRealtime, RankCandidates, CheckCandidate, ChooseModel, Tokenize
<1>2. Untouched'
  BY <1>1, Zenon DEF Inv, Stages, Untouched
<1>3. IsSequence(sent)' /\ Outcome'
  BY <1>2, UntouchedOutcome, PTL
<1>4. \/ pc' = "over"
      \/ answer' = answer /\ pc' \in {"auto", "walk", "chosen", "known", "route", "count", "tokenize"}
  BY Zenon DEF Refused, ServeStatic, ParseBody, ParseCount, ParseAudio, ParseConvert, Reply,
         ParseRealtime, RankCandidates, CheckCandidate, ChooseModel, Tokenize
<1>5. QED
  BY <1>1, <1>2, <1>3, <1>4, Zenon DEF Inv, Stages

\* An admitted request whose messages all carry its caller is in order.
LEMMA AdmittedOutcome ==
  ASSUME Admitted, CallerNamed, UnknownNotCounted
  PROVE  Outcome
BY DEF Admitted, CallerNamed, Outcome, AdmittedOnce, OneCaller

\* The lookups of the model: only a model that is served gets past them.
LEMMA LookupStep ==
  ASSUME Inv, KnownModel \/ Route
  PROVE  Inv'
<1>1. UNCHANGED <<req, model, served, identity, admission, lookups, sent>>
  BY Zenon DEF KnownModel, Route, envVars
<1>2. \/ /\ model \in served /\ answer' = answer
         /\ pc' = IF pc = "known" \/ admission = <<>> THEN "admit" ELSE "select"
      \/ model \notin served /\ pc' = "over"
  BY Zenon DEF KnownModel, Route, UnknownModel, Reply
<1>3. CASE Untouched
  <2>1. Untouched'
    BY <1>1, <1>3, Zenon DEF Untouched
  <2>2. IsSequence(sent)' /\ Outcome'
    BY <2>1, UntouchedOutcome, PTL
  <2>3. pc # "over"
    BY Zenon DEF KnownModel, Route
  <2>4. pc' = "over" \/ (pc' = "admit" /\ model' \in served' /\ answer' # "404")
    BY <1>1, <1>2, <1>3, <2>3, Zenon DEF Untouched, Inv, Stages
  <2>5. QED
    BY <2>1, <2>2, <2>4, Zenon DEF Inv, Stages
<1>4. CASE Admitted /\ CallerNamed /\ ~Untouched
  <2>1. Admitted' /\ CallerNamed'
    BY <1>1, <1>4, Zenon DEF Admitted, CallerNamed, apiKey
  <2>2. pc = "route"
    BY <1>4, Zenon DEF KnownModel, Route, Inv, Stages
  <2>3. pc' = "select" /\ answer' # "404"
    BY <1>2, <1>4, <2>2, Zenon DEF Admitted, Inv, Stages
  <2>4. Outcome'
    <3>1. UnknownNotCounted'
      BY <2>3, Zenon DEF UnknownNotCounted
    <3>2. QED
      BY <2>1, <3>1, AdmittedOutcome, PTL
  <2>5. IsSequence(sent)'
    BY <1>1, Zenon DEF Inv, IsSequence
  <2>6. QED
    BY <2>1, <2>3, <2>4, <2>5, Zenon DEF Inv, Stages
<1>5. QED
  BY <1>3, <1>4, Zenon DEF KnownModel, Route, Inv, Stages

\* The quota is asked once, and a refusal ends the request.
LEMMA QuotaStep ==
  ASSUME Inv, Lookup
  PROVE  Inv'
<1>1. /\ UNCHANGED <<req, model, served, identity, sent>> /\ pc = "admit"
  BY Zenon DEF Lookup, envVars
<1>2. Untouched /\ model \in served /\ answer # "404"
  BY <1>1, Zenon DEF Inv, Stages
<1>3. sent' = <<>> /\ IsSequence(sent)'
  BY <1>1, <1>2 DEF Untouched, IsSequence
<1>4. /\ lookups' \in {0, 1} /\ answer' # "404"
      /\ \/ pc' = "over"
         \/ /\ pc' = "pools" /\ admission' # <<>> /\ "org" \in DOMAIN admission'[1]
            /\ apiKey = "api" => lookups' = 1
  <2>1. CASE apiKey = "none"
    BY <1>2, <2>1, Zenon DEF Lookup, Untouched, Reply
  <2>2. CASE apiKey = "jwt"
    BY <1>2, <2>2 DEF Lookup, Untouched
  <2>3. CASE apiKey \notin {"none", "jwt"}
    <3>1. lookups' = 1
      BY <1>2, <2>3 DEF Lookup, Untouched
    <3>2. ASSUME NEW c \in Contexts PROVE "org" \in DOMAIN c
      <4>1. CASE c = [org |-> NoOrg, limited |-> FALSE, priority |-> "none"]
        BY <4>1, Zenon
      <4>2. CASE c \in [org : Orgs \cup {NoOrg}, limited : {TRUE},
                       priority : {"none", "configured", "demoted"}]
        BY <4>2, Zenon
      <4>3. QED
        BY <4>1, <4>2, Zenon DEF Contexts
    <3>3. \/ pc' = "over" /\ answer' = "429"
          \/ pc' = "pools" /\ answer' = answer /\ \E c \in Contexts : admission' = <<c>>
      BY <2>3, Zenon DEF Lookup, Reply
    <3>4. QED
      BY <1>2, <3>1, <3>2, <3>3
  <2>4. QED
    BY <2>1, <2>2, <2>3, Zenon
<1>5. Outcome'
  BY <1>3, <1>4 DEF Outcome, AdmittedOnce, OneCaller, UnknownNotCounted
<1>6. apiKey' = apiKey
  BY <1>1, Zenon DEF apiKey
<1>7. pc' = "pools" => Admitted'
  BY <1>1, <1>2, <1>3, <1>4, <1>6 DEF Admitted
<1>8. QED
  BY <1>3, <1>4, <1>5, <1>7, Zenon DEF Inv, Stages

\* The control plane is asked who the caller is before anything is sent.
LEMMA MetadataStep ==
  ASSUME Inv, Metadata
  PROVE  Inv'
<1>1. /\ UNCHANGED <<req, model, served, admission, lookups, sent>>
      /\ pc \in {"walk", "pools", "tokenize"}
  BY Zenon DEF Metadata, AwaitsOrg, envVars
<1>2. (pc' = "over" /\ answer' = "denied") \/ (pc' = pc /\ answer' = answer)
  BY Zenon DEF Metadata, Reply
<1>3. sent' = <<>> /\ answer' # "404" /\ lookups' \in {0, 1}
  BY <1>1, <1>2, Zenon DEF Inv, Stages, Untouched, Admitted
<1>4. IsSequence(sent)' /\ Outcome'
  BY <1>3 DEF IsSequence, Outcome, AdmittedOnce, OneCaller, UnknownNotCounted
<1>5. CASE pc = "pools"
  <2>1. Admitted'
    BY <1>1, <1>5, Zenon DEF Inv, Stages, Admitted, apiKey
  <2>2. QED
    BY <1>2, <1>3, <1>4, <1>5, <2>1, Zenon DEF Inv, Stages
<1>6. CASE pc # "pools"
  <2>1. Untouched'
    BY <1>1, <1>6, Zenon DEF Inv, Stages, Untouched
  <2>2. QED
    BY <1>1, <1>2, <1>3, <1>4, <1>6, <2>1, Zenon DEF Inv, Stages
<1>7. QED
  BY <1>5, <1>6, Zenon

\* The organization that is admitted is the one the control plane named.
LEMMA AdmitStep ==
  ASSUME Inv, Admit
  PROVE  Inv'
<1>1. pc = "pools" /\ UNCHANGED <<req, model, served, identity, lookups, sent, answer>>
  BY Zenon DEF Admit, envVars
<1>2. Admitted /\ sent = <<>> /\ answer # "404"
  BY <1>1, Zenon DEF Inv, Stages
<1>3. PICK org \in OrgFor :
        admission' = <<[admission[1] EXCEPT !.org = AdmittedOrg(admission[1], org)]>>
  BY Zenon DEF Admit
<1>4. /\ admission' # <<>> /\ "org" \in DOMAIN admission'[1]
      /\ admission'[1].org = AdmittedOrg(admission[1], org)
  BY <1>2, <1>3, Zenon DEF Admitted
<1>5. pc' \in {"files", "select"}
  BY Zenon DEF Admit
<1>6. apiKey' = apiKey
  BY <1>1, Zenon DEF apiKey
<1>7. Admitted'
  BY <1>1, <1>2, <1>4, <1>6 DEF Admitted
<1>8. CallerNamed'
  BY <1>1, <1>4, Zenon DEF CallerNamed, AdmittedOrg
<1>9. UnknownNotCounted'
  BY <1>1, <1>2, Zenon DEF UnknownNotCounted
<1>10. Outcome'
  BY <1>7, <1>8, <1>9, AdmittedOutcome, PTL
<1>11. QED
  BY <1>1, <1>2, <1>5, <1>7, <1>8, <1>10, Zenon DEF Inv, Stages, IsSequence

\* One more message for the caller that was admitted.
LEMMA SentForCaller ==
  ASSUME Inv, Admitted, CallerNamed, NEW x, x.to # "tokenizer", x.org = admission[1].org,
         sent' \in {sent, Append(sent, x)},
         UNCHANGED <<req, model, served, identity, admission, lookups>>
  PROVE  IsSequence(sent)' /\ Admitted' /\ CallerNamed'
<1>1. IsSequence(sent)'
  BY Appended DEF Inv, IsSequence
<1>2. \A i \in DOMAIN sent' : sent'[i].to # "tokenizer" /\ sent'[i].org = admission[1].org
  BY Appended DEF Inv, Admitted
<1>3. apiKey' = apiKey
  BY Zenon DEF apiKey
<1>4. QED
  BY <1>1, <1>2, <1>3, Zenon DEF Admitted, CallerNamed

\* The steps after admission.
LEMMA LateStep ==
  ASSUME Inv, KeepPart \/ ConvertFile \/ FinishBody \/ ServeModel
  PROVE  Inv'
<1>1. pc \in {"files", "select"}
      /\ UNCHANGED <<req, model, served, identity, admission, lookups>>
  BY Zenon DEF KeepPart, ConvertFile, FinishBody, ServeModel, envVars
<1>2. Admitted /\ CallerNamed /\ answer # "404"
  BY <1>1, Zenon DEF Inv, Stages
<1>3. pc' \in {"files", "route", "over"} /\ answer' # "404"
  <2>1. CASE KeepPart
    BY <1>2, <2>1, Zenon DEF KeepPart, Reply
  <2>2. CASE ConvertFile
    BY <1>2, <2>2, ZenonT(30) DEF ConvertFile, Reply
  <2>3. CASE FinishBody \/ ServeModel
    BY <1>2, <2>3, Zenon DEF FinishBody, ServeModel, Reply
  <2>4. QED
    BY <2>1, <2>2, <2>3, Zenon
<1>4. \E x : x.to # "tokenizer" /\ x.org = admission[1].org
             /\ sent' \in {sent, Append(sent, x)}
  <2>1. CASE KeepPart
    <3> DEFINE x == [to |-> "doc", org |-> admission[1].org]
    <3>1. x.to # "tokenizer" /\ x.org = admission[1].org
      BY Zenon
    <3>2. sent' = sent
      BY <2>1, Zenon DEF KeepPart
    <3>3. QED
      BY <3>1, <3>2, Zenon
  <2>2. CASE ConvertFile
    <3> DEFINE x == [to |-> "doc", model |-> DocUpload, org |-> admission[1].org, body |-> body]
    <3>1. x.to # "tokenizer" /\ x.org = admission[1].org
      BY Zenon
    <3>2. sent' = sent \/ sent' = Append(sent, x)
      BY <2>2, Zenon DEF ConvertFile
    <3>3. QED
      BY <3>1, <3>2, Zenon
  <2>3. CASE FinishBody
    <3> DEFINE x == [to |-> "tools", model |-> model, org |-> admission[1].org, body |-> body']
    <3>1. x.to # "tokenizer" /\ x.org = admission[1].org
      BY Zenon
    <3>2. sent' = sent \/ sent' = Append(sent, x)
      BY <2>3, Zenon DEF FinishBody, Dispatch
    <3>3. QED
      BY <3>1, <3>2, Zenon
  <2>4. CASE ServeModel
    <3> DEFINE x == [to |-> "replica", model |-> model, org |-> admission[1].org, body |-> body']
    <3>1. x.to # "tokenizer" /\ x.org = admission[1].org
      BY Zenon
    <3>2. sent' = sent \/ sent' = Append(sent, x)
      BY <2>4, Zenon DEF ServeModel, Dispatch
    <3>3. QED
      BY <3>1, <3>2, Zenon
  <2>5. QED
    BY <2>1, <2>2, <2>3, <2>4, Zenon
<1>5. IsSequence(sent)' /\ Admitted' /\ CallerNamed'
  BY <1>1, <1>2, <1>4, SentForCaller, Zenon
<1>6. UnknownNotCounted'
  BY <1>3, Zenon DEF UnknownNotCounted
<1>7. Outcome'
  BY <1>5, <1>6, AdmittedOutcome, PTL
<1>8. QED
  BY <1>3, <1>5, <1>7, Zenon DEF Inv, Stages

\* A count is one message, for the caller that was asked for.
LEMMA CountStep ==
  ASSUME Inv, CountTokens
  PROVE  Inv'
<1>1. pc = "tokenize" /\ identity # Unset
      /\ UNCHANGED <<req, identity, admission, lookups>> /\ pc' = "over"
  BY Zenon DEF CountTokens, Reply
<1>2. Untouched
  BY <1>1, Zenon DEF Inv, Stages
<1>3. CASE sent' = sent
  <2>1. Untouched'
    BY <1>1, <1>2, <1>3, Zenon DEF Untouched
  <2>2. IsSequence(sent)' /\ Outcome'
    BY <2>1, UntouchedOutcome, PTL
  <2>3. QED
    BY <1>1, <2>2, Zenon DEF Inv, Stages
<1>4. ASSUME NEW org \in OrgFor, Dispatch("tokenizer", org) PROVE Inv'
  <2> DEFINE x == [to |-> "tokenizer", model |-> model, org |-> org, body |-> body']
  <2>1. sent' = Append(<<>>, x) /\ x.to = "tokenizer" /\ x.org = org
    BY <1>2, <1>4, Zenon DEF Dispatch, Untouched
  <2> HIDE DEF x
  <2>2. IsSequence(<<>>)
    BY DEF IsSequence
  <2>3. IsSequence(sent)' /\ \A i \in DOMAIN sent' : sent'[i] = x
    BY <2>1, <2>2, Appended DEF IsSequence
  <2>4. identity # Unavailable => org = identity
    BY Zenon DEF OrgFor
  <2>5. OneCaller'
    BY <1>1, <2>1, <2>3, <2>4, Zenon DEF OneCaller
  <2>6. AdmittedOnce' /\ UnknownNotCounted'
    BY <1>1, <1>2, <2>1, <2>3 DEF AdmittedOnce, UnknownNotCounted, Untouched
  <2>7. QED
    BY <1>1, <2>3, <2>5, <2>6, Zenon DEF Inv, Stages, Outcome
<1>5. sent' = sent \/ \E org \in OrgFor : Dispatch("tokenizer", org)
  BY Zenon DEF CountTokens
<1>6. QED
  BY <1>3, <1>4, <1>5, Zenon

\* A reload, a refresh or a report touches nothing of the request.
LEMMA EnvironmentStep ==
  ASSUME Inv, Environment \/ UNCHANGED vars
  PROVE  Inv'
<1>1. UNCHANGED <<handlerVars, served>>
  BY Zenon DEF Environment, ReportSent, Reload, StartRefresh, MarkMultimodal, StoreIntelligence,
         vars, envVars
<1>2. UNCHANGED <<req, pc, model, identity, admission, lookups, sent, answer, served>>
  BY <1>1, Zenon DEF handlerVars
<1>3. QED
  BY <1>2, Zenon DEF Inv, IsSequence, Stages, Untouched, Admitted, CallerNamed, Outcome,
         AdmittedOnce, OneCaller, UnknownNotCounted, apiKey

\* Every step keeps the invariant.
LEMMA InvStep == Inv /\ [Next]_vars => Inv'
BY EarlyStep, LookupStep, QuotaStep, MetadataStep, AdmitStep, LateStep, CountStep,
   EnvironmentStep, Zenon DEF Next, Handler

\* The invariant holds throughout.
LEMMA InvAlways == Spec => []Inv
BY InvInit, InvStep, PTL DEF Spec

(***************************************************************************)
(* No request is counted twice and none is served uncounted, for any       *)
(* number of parts, candidates and lookups of the model (admit); and       *)
(* "unknown models must 404 without being counted" (main.go:858): the      *)
(* lookup after admission cannot fail, because reloads keep the models.    *)
(***************************************************************************)
THEOREM RequestsAdmittedOnce == Spec => []QuotaKept
<1>1. Inv => QuotaKept
  BY Zenon DEF Inv, Outcome, QuotaKept
<1>2. QED
  BY <1>1, InvAlways, PTL

(***************************************************************************)
(* Conversions, tools, replica and tokenizer are all asked on behalf of    *)
(* one caller, the one the control plane named if it was asked (admit,     *)
(* resolveOrg).                                                            *)
(***************************************************************************)
THEOREM RequestsHaveOneCaller == Spec => []OneCaller
<1>1. Inv => OneCaller
  BY Zenon DEF Inv, Outcome
<1>2. QED
  BY <1>1, InvAlways, PTL

(***************************************************************************)
(* A model's score is never published before its capability, whatever the  *)
(* control plane lists (refreshModelMetadata).                             *)
(***************************************************************************)
THEOREM ScoresAfterCapabilities == Spec => []MarkedBeforeScored
<1>1. Init => MarkedBeforeScored
  BY Zenon DEF Init, MarkedBeforeScored
<1>2. MarkedBeforeScored /\ [Next]_vars => MarkedBeforeScored'
  <2> SUFFICES ASSUME MarkedBeforeScored, [Next]_vars PROVE MarkedBeforeScored'
    BY Zenon
  <2>1. CASE StoreIntelligence
    BY <2>1, Zenon DEF StoreIntelligence, MarkedBeforeScored
  <2>2. CASE MarkMultimodal
    BY <2>2, Zenon DEF MarkMultimodal, MarkedBeforeScored
  <2>3. CASE UNCHANGED <<marked, catalog>>
    BY <2>3, Zenon DEF MarkedBeforeScored
  <2>4. CASE Handler
    <3>1. UNCHANGED envVars
      BY <2>4, Zenon DEF Handler, Refused, ServeStatic, ParseBody, ParseCount, ParseAudio,
        ParseConvert, ParseRealtime, Metadata, RankCandidates, CheckCandidate, ChooseModel,
        KnownModel, Lookup, Admit, KeepPart, ConvertFile, FinishBody, Route, ServeModel,
        Tokenize, CountTokens
    <3>2. QED
      BY <2>3, <3>1, Zenon DEF envVars
  <2>5. QED
    BY <2>1, <2>2, <2>3, <2>4, Zenon DEF Next, Environment, ReportSent, Reload, StartRefresh,
       vars, envVars
<1>3. QED
  BY <1>1, <1>2, PTL DEF Spec

-----------------------------------------------------------------------------
(***************************************************************************)
(* The fields of the body.  What each step has to do with them is known    *)
(* from the place the request has reached.                                 *)
(***************************************************************************)
OpenAI == req.path \in OpenAIPaths

HeadersApplied ==
  /\ body["options"] = "absent"
  /\ req.path = "chat" /\ req.headers["n"] # "absent" => body["n"] = "router"
  /\ req.path \in maxOutputTokensPaths /\ req.headers["max_tokens"] # "absent" =>
       body["max_tokens"] = "router"

StreamAsSent ==
  /\ body["stream_options"] = "client" <=> "stream_options" \in req.fields
  /\ body["usage_header"] # "router"

StreamOwned ==
  req.stream => body["stream_options"] = "router" /\
    (body["usage_header"] = "router" <=> "stream_options" \in req.fields)

PriorityOwned ==
  /\ body["priority"] # "client"
  /\ req.path \in priorityPaths =>
       (body["priority"] = "router" <=> admission[1].priority # "none")

SaltOwned == body["cache_salt"] # "client" /\ body["user_cache_secret"] = "absent"

BodyInv ==
  /\ req \in Requests /\ body \in [BodyFields -> Writers] /\ IsSequence(sent)
  /\ pc \in {"known", "files"} => OpenAI
  /\ pc \in {"auto", "walk", "chosen"} => OpenAI \/ req.path \in CountPaths
  /\ OpenAI /\ pc \notin {"arrive", "over"} => HeadersApplied
  /\ OpenAI /\ req.model = AutoModel =>
       /\ pc \notin {"arrive", "auto", "over"} => body["auto_options"] = "absent"
       /\ pc \notin {"arrive", "auto", "walk", "chosen", "over"} => body["effort"] # "client"
  /\ OpenAI /\ pc \notin {"route", "select", "over"} => StreamAsSent
  /\ OpenAI /\ pc \in {"files", "route", "select"} => PriorityOwned
  /\ OpenAI /\ pc \in {"route", "select"} => admission # <<>> /\ SaltOwned /\ StreamOwned
  /\ pc = "route" /\ admission # <<>> => OpenAI
  /\ req.path = "speech" /\ pc = "select" => body["priority"] = "absent" /\ SaltOwned
  /\ pc = "pools" => "priority" \in DOMAIN admission[1]
  /\ pc # "over" => \A i \in DOMAIN sent : sent[i].to \notin {"replica", "tools"}
  /\ RouterOwnsFields

\* The body as it arrives.
LEMMA BodyInit == Init => BodyInv
<1> SUFFICES ASSUME Init PROVE BodyInv
  BY Zenon
<1>1. sent = <<>> /\ IsSequence(sent)
  BY DEF Init, IsSequence
<1>2. body \in [BodyFields -> Writers]
  BY Zenon DEF Init, BodyFields, Writers
<1>3. StreamAsSent
  BY Zenon DEF Init, StreamAsSent, BodyFields
<1>4. QED
  BY <1>1, <1>2, <1>3 DEF Init, BodyInv, RouterOwnsFields

\* A step that leaves for the converter or for nobody keeps what was sent in
\* order.
LEMMA NothingServed ==
  ASSUME BodyInv, UNCHANGED <<req, sent>>, pc # "over"
  PROVE  /\ IsSequence(sent)' /\ RouterOwnsFields'
         /\ \A i \in DOMAIN sent' : sent'[i].to \notin {"replica", "tools"}
BY Zenon DEF BodyInv, RouterOwnsFields, IsSequence

\* The steps of arrival: only the OpenAI paths read fields here.
LEMMA BodyArrival ==
  ASSUME BodyInv, Inv,
         \/ Refused \/ ServeStatic \/ ParseBody \/ ParseCount \/ ParseAudio \/ ParseConvert
         \/ ParseRealtime
  PROVE  BodyInv'
<1>1. pc = "arrive" /\ UNCHANGED <<req, sent>>
  BY Zenon DEF Refused, ServeStatic, ParseBody, ParseCount, ParseAudio, ParseConvert, Arrived,
         ParseRealtime
<1>2. /\ IsSequence(sent)' /\ RouterOwnsFields'
      /\ \A i \in DOMAIN sent' : sent'[i].to \notin {"replica", "tools"}
  BY <1>1, NothingServed, Zenon
<1>3. CASE pc' = "over"
  <2>1. body' \in [BodyFields -> Writers]
    <3>1. body \in [BodyFields -> Writers]
      BY Zenon DEF BodyInv
    <3>2. CASE Refused \/ ServeStatic \/ ParseCount \/ ParseAudio \/ ParseConvert \/ ParseRealtime
      BY <3>1, <3>2, Zenon DEF Refused, ServeStatic, ParseCount, ParseAudio, ParseConvert,
         ParseRealtime
    <3>3. CASE ParseBody
      BY <3>1, <3>3 DEF ParseBody, applyCompletionCountHeader, applyMaxOutputTokensHeader,
         BodyFields, Writers
    <3>4. QED
      BY <3>2, <3>3, Zenon
  <2>2. QED
    BY <1>1, <1>2, <1>3, <2>1, Zenon DEF BodyInv
<1>4. CASE ParseBody /\ pc' # "over"
  <2> DEFINE b0 == [body EXCEPT !["options"] = "absent"]
             b1 == applyMaxOutputTokensHeader(b0)
  <2>1. OpenAI /\ body' = applyCompletionCountHeader(b1) /\ pc' \in {"auto", "known"}
    BY <1>4, Zenon DEF ParseBody, Arrived, OpenAI, Reply
  <2>2. b0 \in [BodyFields -> Writers] /\ b0["options"] = "absent"
        /\ b0["stream_options"] = body["stream_options"]
        /\ b0["usage_header"] = body["usage_header"]
    BY Zenon DEF BodyInv, BodyFields, Writers
  <2> HIDE DEF b0
  <2>3. /\ b1 \in [BodyFields -> Writers] /\ b1["options"] = "absent"
        /\ b1["stream_options"] = body["stream_options"]
        /\ b1["usage_header"] = body["usage_header"]
        /\ req.path \in maxOutputTokensPaths /\ req.headers["max_tokens"] = "number" =>
             b1["max_tokens"] = "router"
    BY <2>2, Zenon DEF applyMaxOutputTokensHeader, BodyFields, Writers
  <2> HIDE DEF b1
  <2>4. /\ body' \in [BodyFields -> Writers] /\ body'["options"] = "absent"
        /\ body'["stream_options"] = body["stream_options"]
        /\ body'["usage_header"] = body["usage_header"]
        /\ body'["max_tokens"] = b1["max_tokens"]
        /\ req.path = "chat" /\ req.headers["n"] = "number" => body'["n"] = "router"
    BY <2>1, <2>3, Zenon DEF applyCompletionCountHeader, BodyFields, Writers
  <2>5. /\ req.path \in maxOutputTokensPaths => req.headers["max_tokens"] # "malformed"
        /\ req.path = "chat" => req.headers["n"] # "malformed"
    BY <1>4, Zenon DEF ParseBody, Reply, positiveIntHeader
  <2>6. req.headers["max_tokens"] \in {"absent", "number", "malformed"}
        /\ req.headers["n"] \in {"absent", "number", "malformed"}
    <3>1. req.headers \in [{"max_tokens", "n"} -> {"absent", "number", "malformed"}]
      BY HandlerAssumption, Zenon DEF BodyInv
    <3>2. QED
      BY <3>1, Zenon
  <2>7. HeadersApplied'
    BY <1>1, <2>3, <2>4, <2>5, <2>6, Zenon DEF HeadersApplied
  <2>8. StreamAsSent'
    BY <1>1, <2>1, <2>4, Zenon DEF StreamAsSent, BodyInv
  <2>9. OpenAI' /\ (req.model = AutoModel => pc' = "auto")
    BY <1>1, <1>4, <2>1, Zenon DEF OpenAI, ParseBody, Reply
  <2>10. QED
    BY <1>1, <1>2, <2>1, <2>4, <2>7, <2>8, <2>9, Zenon DEF BodyInv
<1>5. CASE ~ParseBody /\ pc' # "over"
  <2>1. /\ pc' \in {"auto", "count", "route"} /\ ~OpenAI /\ body' = body
        /\ pc' = "auto" => req.path \in CountPaths
        /\ admission' = admission /\ admission = <<>>
    BY <1>5, Zenon DEF Refused, ServeStatic, ParseCount, ParseAudio, ParseConvert, ParseRealtime,
           Reply, Arrived, OpenAI, OpenAIPaths, CountPaths, Inv, Stages, Untouched
  <2>2. ~OpenAI'
    BY <1>1, <2>1, Zenon DEF OpenAI
  <2>3. QED
    BY <1>1, <1>2, <2>1, <2>2, Zenon DEF BodyInv
<1>6. QED
  BY <1>3, <1>4, <1>5, Zenon

\* The choice of a model: the client's options and effort go.
LEMMA BodyChoice ==
  ASSUME BodyInv, RankCandidates \/ CheckCandidate \/ ChooseModel
  PROVE  BodyInv'
<1> USE DEF BodyInv
<1>1. pc \in {"auto", "walk", "chosen"} /\ UNCHANGED <<req, sent>>
  BY ZenonT(30) DEF RankCandidates, CheckCandidate, ChooseModel
<1>2. /\ IsSequence(sent)' /\ RouterOwnsFields'
      /\ \A i \in DOMAIN sent' : sent'[i].to \notin {"replica", "tools"}
  BY <1>1, NothingServed, Zenon
<1>3. OpenAI' = OpenAI
  BY <1>1, Zenon DEF OpenAI
<1>4. CASE RankCandidates
  <2>1. body' = [body EXCEPT !["auto_options"] = "absent"] /\ pc' \in {"walk", "over"}
    BY <1>4, Zenon DEF RankCandidates, Reply
  <2>2. body' \in [BodyFields -> Writers] /\ body'["auto_options"] = "absent"
    BY <2>1, Zenon DEF BodyFields, Writers
  <2>3. OpenAI => HeadersApplied' /\ StreamAsSent'
    BY <1>1, <2>1, Zenon DEF HeadersApplied, StreamAsSent, BodyFields
  <2>4. QED
    BY <1>1, <1>2, <1>3, <2>1, <2>2, <2>3, Zenon
<1>5. CASE CheckCandidate
  <2>1. body' = body /\ pc' \in {"walk", "chosen"} /\ pc = "walk"
    BY <1>5, Zenon DEF CheckCandidate
  <2>2. OpenAI => HeadersApplied' /\ StreamAsSent'
    BY <1>1, <2>1, Zenon DEF HeadersApplied, StreamAsSent
  <2>3. QED
    BY <1>1, <1>2, <1>3, <2>1, <2>2, Zenon
<1>6. CASE ChooseModel
  <2>1. CASE pc' = "over"
    BY <1>1, <1>2, <1>6, <2>1, ZenonT(30) DEF ChooseModel
  <2>2. CASE pc' # "over"
    <3> DEFINE effort == ApplyEffort(catalog, CompletionPath(req.path), chosen[1])
    <3>1. effort \in {"router", "absent"}
      BY ZenonT(30) DEF ApplyEffort
    <3>2. body' = [body EXCEPT !["effort"] = effort] /\ pc = "chosen"
          /\ pc' = IF req.path \in CountPaths THEN "count" ELSE "known"
      BY <1>6, <2>2, ZenonT(30) DEF ChooseModel, Reply
    <3> HIDE DEF effort
    <3>3. body' \in [BodyFields -> Writers] /\ body'["effort"] # "client"
          /\ body'["auto_options"] = body["auto_options"]
      BY <3>1, <3>2, Zenon DEF BodyFields, Writers
    <3>4. OpenAI => HeadersApplied' /\ StreamAsSent'
      BY <1>1, <3>2, Zenon DEF HeadersApplied, StreamAsSent, BodyFields
    <3>5. pc' = "known" => OpenAI
      BY <3>2, Zenon
    <3>6. QED
      BY <1>1, <1>2, <1>3, <3>2, <3>3, <3>4, <3>5, ZenonT(30)
  <2>3. QED
    BY <2>1, <2>2, ZenonT(30)
<1>7. QED
  BY <1>4, <1>5, <1>6, ZenonT(30)

\* Steps that leave the body and the request alone.
LEMMA BodyKept ==
  ASSUME BodyInv, UNCHANGED <<req, body, sent, admission>>,
         \/ pc' = pc
         \/ pc # "over" /\ pc' = "over"
         \/ pc = "route" /\ pc' = "select" /\ admission # <<>>
         \/ pc = "route" /\ pc' = "admit" /\ admission = <<>>
         \/ pc = "count" /\ pc' = "tokenize"
  PROVE  BodyInv'
<1>1. /\ HeadersApplied' = HeadersApplied /\ StreamAsSent' = StreamAsSent
      /\ StreamOwned' = StreamOwned /\ PriorityOwned' = PriorityOwned
      /\ SaltOwned' = SaltOwned /\ OpenAI' = OpenAI
  <2>1. HeadersApplied' = HeadersApplied /\ OpenAI' = OpenAI
    BY Zenon DEF HeadersApplied, OpenAI
  <2>2. StreamAsSent' = StreamAsSent /\ StreamOwned' = StreamOwned
    BY <2>1, Zenon DEF StreamAsSent, StreamOwned
  <2>3. PriorityOwned' = PriorityOwned /\ SaltOwned' = SaltOwned
    BY <2>1, Zenon DEF PriorityOwned, SaltOwned
  <2>4. QED
    BY <2>1, <2>2, <2>3, Zenon
<1>2. RouterOwnsFields' /\ IsSequence(sent)'
  <2>1. ASSUME NEW i \in DOMAIN sent, Owned(sent[i].body)
        PROVE  Owned(sent[i].body)'
    <3>1. sent'[i].body = sent[i].body
      BY Zenon
    <3>2. QED
      BY <2>1, <3>1 DEF Owned
  <2>2. RouterOwnsFields'
    BY <2>1, Zenon DEF BodyInv, RouterOwnsFields
  <2>3. IsSequence(sent)'
    BY Zenon DEF BodyInv, IsSequence
  <2>4. QED
    BY <2>2, <2>3, Zenon
<1>3. OpenAI => req.path # "speech"
  BY Zenon DEF OpenAI, OpenAIPaths
<1>4. CASE pc' = pc
  BY <1>1, <1>2, <1>4, Zenon DEF BodyInv
<1>5. CASE pc # "over" /\ pc' = "over"
  BY <1>1, <1>2, <1>5, Zenon DEF BodyInv
<1>6. CASE pc = "route" /\ pc' = "select" /\ admission # <<>>
  BY <1>1, <1>2, <1>3, <1>6, Zenon DEF BodyInv
<1>7. CASE pc = "route" /\ pc' = "admit" /\ admission = <<>>
  BY <1>1, <1>2, <1>7, Zenon DEF BodyInv
<1>8. CASE pc = "count" /\ pc' = "tokenize"
  BY <1>1, <1>2, <1>8, Zenon DEF BodyInv
<1>9. QED
  BY <1>4, <1>5, <1>6, <1>7, <1>8, Zenon

\* The client's priority goes with the first lookup of the model.
LEMMA BodyKnown ==
  ASSUME BodyInv, KnownModel
  PROVE  BodyInv'
<1> USE DEF BodyInv
<1>1. /\ pc = "known" /\ UNCHANGED <<req, sent>> /\ pc' \in {"admit", "over"}
      /\ body' = [body EXCEPT !["priority"] = "absent"]
  BY Zenon DEF KnownModel, UnknownModel, Reply
<1>2. /\ IsSequence(sent)' /\ RouterOwnsFields'
      /\ \A i \in DOMAIN sent' : sent'[i].to \notin {"replica", "tools"}
  BY <1>1, NothingServed, Zenon
<1>3. /\ body' \in [BodyFields -> Writers]
      /\ body'["effort"] = body["effort"] /\ body'["auto_options"] = body["auto_options"]
  BY <1>1, Zenon DEF BodyFields, Writers
<1>4. OpenAI' /\ HeadersApplied' /\ StreamAsSent'
  BY <1>1, Zenon DEF OpenAI, HeadersApplied, StreamAsSent, BodyFields
<1>5. QED
  BY <1>1, <1>2, <1>3, <1>4, Zenon

\* The quota lookup brings the caller's priority.
LEMMA BodyQuota ==
  ASSUME BodyInv, Inv, Lookup
  PROVE  BodyInv'
<1> USE DEF BodyInv
<1>1. pc = "admit" /\ UNCHANGED <<req, body, sent>> /\ pc' \in {"pools", "over"}
  BY Zenon DEF Lookup, Reply
<1>2. /\ IsSequence(sent)' /\ RouterOwnsFields'
      /\ \A i \in DOMAIN sent' : sent'[i].to \notin {"replica", "tools"}
  BY <1>1, NothingServed, Zenon
<1>3. OpenAI' = OpenAI /\ (OpenAI => HeadersApplied' /\ StreamAsSent')
  BY <1>1, Zenon DEF OpenAI, HeadersApplied, StreamAsSent
<1>4. pc' = "pools" => "priority" \in DOMAIN admission'[1]
  <2>1. \A c \in [org : Orgs \cup {NoOrg}, limited : {TRUE},
                  priority : {"none", "configured", "demoted"}] : "priority" \in DOMAIN c
    BY Zenon
  <2>2. ASSUME NEW c \in Contexts PROVE "priority" \in DOMAIN c
    <3>1. CASE c = [org |-> NoOrg, limited |-> FALSE, priority |-> "none"]
      BY <3>1, Zenon
    <3>2. CASE c # [org |-> NoOrg, limited |-> FALSE, priority |-> "none"]
      BY <2>1, <3>2, Zenon DEF Contexts
    <3>3. QED
      BY <3>1, <3>2, Zenon
  <2>3. pc' = "pools" => \/ \E c \in Contexts : admission' = <<c>>
                        \/ admission' = <<[org |-> NoOrg, limited |-> FALSE, priority |-> "none"]>>
    BY Zenon DEF Lookup, Reply
  <2>4. \A c : <<c>>[1] = c
    OBVIOUS
  <2>5. "priority" \in DOMAIN [org |-> NoOrg, limited |-> FALSE, priority |-> "none"]
    OBVIOUS
  <2>6. CASE \E c \in Contexts : admission' = <<c>>
    BY <2>2, <2>4, <2>6, Zenon
  <2>7. CASE admission' = <<[org |-> NoOrg, limited |-> FALSE, priority |-> "none"]>>
    BY <2>4, <2>5, <2>7, Zenon
  <2>8. QED
    BY <2>3, <2>6, <2>7, Zenon
<1>5. QED
  BY <1>1, <1>2, <1>3, <1>4, Zenon

\* The priority the caller was given is written.
LEMMA BodyAdmit ==
  ASSUME BodyInv, Admit
  PROVE  BodyInv'
<1> USE DEF BodyInv
<1>1. pc = "pools" /\ UNCHANGED <<req, sent>> /\ pc' \in {"files", "select"}
  BY Zenon DEF Admit
<1>2. /\ IsSequence(sent)' /\ RouterOwnsFields'
      /\ \A i \in DOMAIN sent' : sent'[i].to \notin {"replica", "tools"}
  BY <1>1, NothingServed, Zenon
<1>3. PICK org \in OrgFor :
        admission' = <<[admission[1] EXCEPT !.org = AdmittedOrg(admission[1], org)]>>
  BY Zenon DEF Admit
<1>4. admission'[1].priority = admission[1].priority
  BY <1>1, <1>3, Zenon
<1>5. OpenAI' = OpenAI
  BY <1>1, Zenon DEF OpenAI
<1>6. CASE OpenAI
  <2>1. body' = [body EXCEPT !["priority"] = applyPriority(admission[1])] /\ pc' = "files"
    <3>1. req.path \in OpenAIPaths /\ req.path # "speech"
      BY <1>6, Zenon DEF OpenAI, OpenAIPaths
    <3>2. QED
      BY <3>1, Zenon DEF Admit
  <2>2. applyPriority(admission[1]) \in {"router", "absent"}
    BY Zenon DEF applyPriority
  <2>3. /\ body' \in [BodyFields -> Writers]
        /\ body'["priority"] = applyPriority(admission[1])
        /\ body'["effort"] = body["effort"] /\ body'["auto_options"] = body["auto_options"]
    BY <2>1, <2>2, Zenon DEF BodyFields, Writers
  <2>4. HeadersApplied' /\ StreamAsSent'
    BY <1>1, <1>6, <2>1, Zenon DEF HeadersApplied, StreamAsSent, BodyFields
  <2>5. PriorityOwned'
    BY <1>1, <1>4, <2>2, <2>3, Zenon DEF PriorityOwned, applyPriority
  <2>6. QED
    BY <1>1, <1>2, <1>5, <1>6, <2>1, <2>3, <2>4, <2>5, Zenon
<1>7. CASE req.path = "speech"
  <2>1. /\ ~OpenAI /\ pc' = "select"
        /\ body' = [body EXCEPT !["priority"] = "absent", !["cache_salt"] = "absent",
                                 !["user_cache_secret"] = "absent"]
    BY <1>7, Zenon DEF Admit, OpenAI, OpenAIPaths
  <2>2. /\ body' \in [BodyFields -> Writers] /\ body'["priority"] = "absent"
        /\ body'["cache_salt"] = "absent" /\ body'["user_cache_secret"] = "absent"
    BY <2>1, Zenon DEF BodyFields, Writers
  <2>3. QED
    BY <1>1, <1>2, <1>5, <2>1, <2>2, Zenon DEF SaltOwned
<1>8. CASE ~OpenAI /\ req.path # "speech"
  <2>1. body' = body /\ pc' = "select"
    BY <1>8, Zenon DEF Admit, OpenAI
  <2>2. QED
    BY <1>1, <1>2, <1>5, <1>8, <2>1, Zenon
<1>9. QED
  BY <1>6, <1>7, <1>8, Zenon

\* What leaves after the last changes is a body the router has gone over.
LEMMA ServedBody ==
  ASSUME BodyInv, Owned(body)', pc # "over", UNCHANGED req,
         NEW x, x.body = body', sent' \in {sent, Append(sent, x)}
  PROVE  IsSequence(sent)' /\ RouterOwnsFields'
<1>1. IsSequence(sent)
  BY Zenon DEF BodyInv
<1>2. CASE sent' = sent
  BY <1>2, NothingServed, Zenon
<1>3. CASE sent' = Append(sent, x)
  <2>1. \A i \in DOMAIN sent' : (i \in DOMAIN sent /\ sent'[i] = sent[i]) \/ sent'[i] = x
    BY <1>1, <1>3, Appended, Zenon
  <2>2. IsSequence(sent)'
    BY <1>1, <1>3, Appended DEF IsSequence
  <2>3. \A i \in DOMAIN sent : sent[i].to \notin {"replica", "tools"}
    BY Zenon DEF BodyInv
  <2>4. QED
    BY <2>1, <2>2, <2>3 DEF RouterOwnsFields, Owned
<1>4. QED
  BY <1>2, <1>3, Zenon

\* The parts of the message are rewritten; the converter gets what it gets.
LEMMA BodyFiles ==
  ASSUME BodyInv, KeepPart \/ ConvertFile
  PROVE  BodyInv'
<1>1. /\ pc = "files" /\ UNCHANGED <<req, body, admission>> /\ pc' \in {"files", "over"}
  BY Zenon DEF KeepPart, ConvertFile, Reply
<1>2. CASE sent' = sent
  BY <1>1, <1>2, BodyKept, Zenon
<1>3. CASE sent' # sent
  <2> DEFINE x == [to |-> "doc", model |-> DocUpload, org |-> admission[1].org, body |-> body]
  <2>1. sent' = Append(sent, x) /\ x.to = "doc"
    BY <1>3, Zenon DEF KeepPart, ConvertFile
  <2> HIDE DEF x
  <2>2. IsSequence(sent) /\ \A i \in DOMAIN sent : sent[i].to \notin {"replica", "tools"}
    BY <1>1, Zenon DEF BodyInv
  <2>3. \A i \in DOMAIN sent' : sent'[i].to \notin {"replica", "tools"}
    BY <2>1, <2>2, Appended
  <2>4. IsSequence(sent)'
    BY <2>1, <2>2, Appended DEF IsSequence
  <2>5. RouterOwnsFields'
    BY <2>3, Zenon DEF RouterOwnsFields
  <2>6. OpenAI /\ OpenAI' /\ HeadersApplied' /\ StreamAsSent' /\ PriorityOwned'
    BY <1>1, Zenon DEF BodyInv, OpenAI, HeadersApplied, StreamAsSent, PriorityOwned
  <2>7. QED
    BY <1>1, <2>3, <2>4, <2>5, <2>6, Zenon DEF BodyInv
<1>4. QED
  BY <1>2, <1>3, Zenon

\* The last changes of the body: the salt and the usage options.
LEMMA BodyFinished ==
  ASSUME BodyInv, Inv, FinishBody
  PROVE  BodyInv'
<1>1. /\ pc = "files" /\ UNCHANGED <<req, admission>> /\ pc' \in {"route", "over"}
      /\ pc' = "route" => sent' = sent
      /\ body' = IF req.stream THEN ensureStreamingUsageOptions(applyCacheSalt(body))
                 ELSE applyCacheSalt(body)
  BY Zenon DEF FinishBody, Reply
<1>2. /\ OpenAI /\ HeadersApplied /\ StreamAsSent /\ PriorityOwned
      /\ body \in [BodyFields -> Writers] /\ admission # <<>>
  BY <1>1, Zenon DEF BodyInv, Inv, Stages, Admitted
<1> DEFINE salted == applyCacheSalt(body)
<1>3. /\ salted \in [BodyFields -> Writers]
      /\ salted["cache_salt"] # "client" /\ salted["user_cache_secret"] = "absent"
      /\ \A f \in BodyFields \ {"cache_salt", "user_cache_secret"} : salted[f] = body[f]
  BY <1>2, Zenon DEF applyCacheSalt, BodyFields, Writers
<1> HIDE DEF salted
<1>4. /\ body' \in [BodyFields -> Writers]
      /\ \A f \in BodyFields \ {"stream_options", "usage_header"} : body'[f] = salted[f]
      /\ req.stream => /\ body'["stream_options"] = "router"
                       /\ body'["usage_header"] = IF salted["stream_options"] = "client"
                            THEN "router" ELSE salted["usage_header"]
  BY <1>1, <1>3, Zenon DEF ensureStreamingUsageOptions, salted, BodyFields, Writers
<1>5. OpenAI' /\ HeadersApplied' /\ PriorityOwned' /\ SaltOwned'
  BY <1>1, <1>2, <1>3, <1>4 DEF OpenAI, HeadersApplied, PriorityOwned, SaltOwned, BodyFields
<1>6. StreamOwned'
  BY <1>1, <1>2, <1>3, <1>4, Zenon DEF StreamOwned, StreamAsSent, BodyFields
<1>7. req.model = AutoModel => body'["effort"] # "client" /\ body'["auto_options"] = "absent"
  BY <1>1, <1>2, <1>3, <1>4 DEF BodyInv, BodyFields
<1>8. Owned(body)'
  BY <1>1, <1>5, <1>6, <1>7, Zenon DEF Owned, HeadersApplied, PriorityOwned, SaltOwned, StreamOwned
<1>9. IsSequence(sent)' /\ RouterOwnsFields'
  <2> DEFINE x == [to |-> "tools", model |-> model, org |-> admission[1].org, body |-> body']
  <2>1. sent' \in {sent, Append(sent, x)} /\ x.body = body'
    BY Zenon DEF FinishBody, Dispatch
  <2>2. \E y : y.body = body' /\ sent' \in {sent, Append(sent, y)}
    BY <2>1, Zenon
  <2>3. QED
    BY <1>1, <1>8, <2>2, ServedBody, Zenon
<1>10. pc' # "over" => \A i \in DOMAIN sent' : sent'[i].to \notin {"replica", "tools"}
  BY <1>1, Zenon DEF BodyInv
<1>11. QED
  BY <1>1, <1>2, <1>4, <1>5, <1>6, <1>7, <1>9, <1>10, Zenon DEF BodyInv, OpenAI, OpenAIPaths

\* The handover to a replica.
LEMMA BodyServed ==
  ASSUME BodyInv, ServeModel
  PROVE  BodyInv'
<1>1. pc = "select" /\ pc' = "over" /\ UNCHANGED <<req, body, admission>>
  BY Zenon DEF ServeModel, Reply
<1>2. \E y : y.body = body' /\ sent' \in {sent, Append(sent, y)}
  <2> DEFINE x == [to |-> "replica", model |-> model, org |-> admission[1].org, body |-> body']
  <2>1. sent' \in {sent, Append(sent, x)} /\ x.body = body'
    BY Zenon DEF ServeModel, Dispatch
  <2>2. QED
    BY <2>1, Zenon
<1>3. CASE OpenAI \/ req.path = "speech"
  <2>1. Owned(body)
    <3>1. CASE OpenAI
      BY <1>1, <3>1, Zenon DEF BodyInv, Owned, HeadersApplied, PriorityOwned, SaltOwned, StreamOwned
    <3>2. CASE req.path = "speech"
      BY <1>1, <3>2, Zenon DEF BodyInv, Owned, SaltOwned, OpenAIPaths
    <3>3. QED
      BY <1>3, <3>1, <3>2, Zenon
  <2>2. Owned(body)'
    BY <1>1, <2>1, Zenon DEF Owned
  <2>3. IsSequence(sent)' /\ RouterOwnsFields'
    BY <1>1, <1>2, <2>2, ServedBody, Zenon
  <2>4. QED
    BY <1>1, <2>3, Zenon DEF BodyInv
<1>4. CASE ~(OpenAI \/ req.path = "speech")
  <2>1. RouterOwnsFields'
    BY <1>1, <1>4, Zenon DEF RouterOwnsFields, OpenAI
  <2>2. IsSequence(sent)'
    BY <1>2, Appended DEF BodyInv, IsSequence
  <2>3. QED
    BY <1>1, <2>1, <2>2, Zenon DEF BodyInv
<1>5. QED
  BY <1>3, <1>4, Zenon

\* A count sends a body of its own, to the tokenizer.
LEMMA BodyCounted ==
  ASSUME BodyInv, Inv, Inv', CountTokens
  PROVE  BodyInv'
<1>1. pc = "tokenize" /\ pc' = "over" /\ UNCHANGED req
  BY Zenon DEF CountTokens, Reply
<1>2. sent = <<>>
  BY <1>1, Zenon DEF Inv, Stages, Untouched
<1>3. body' \in [BodyFields -> Writers]
  <2>1. PICK kept \in {body["effort"], "absent"} :
          body' = [f \in BodyFields |-> IF f = "effort" THEN kept ELSE "absent"]
    BY Zenon DEF CountTokens
  <2>2. kept \in Writers
    BY Zenon DEF BodyInv, BodyFields, Writers
  <2>3. QED
    BY <2>1, <2>2, Zenon DEF Writers
<1>4. \A i \in DOMAIN sent' : sent'[i].to \notin {"replica", "tools"}
  <2>1. CASE sent' = sent
    BY <1>2, <2>1
  <2>2. ASSUME NEW org \in OrgFor, Dispatch("tokenizer", org)
        PROVE  \A i \in DOMAIN sent' : sent'[i].to \notin {"replica", "tools"}
    <3> DEFINE x == [to |-> "tokenizer", model |-> model, org |-> org, body |-> body']
    <3>1. sent' = Append(sent, x) /\ x.to = "tokenizer"
      BY <2>2, Zenon DEF Dispatch
    <3> HIDE DEF x
    <3>2. IsSequence(sent)
      BY Zenon DEF BodyInv
    <3>3. QED
      BY <1>2, <3>1, <3>2, Appended
  <2>3. QED
    BY <2>1, <2>2, Zenon DEF CountTokens
<1>5. QED
  BY <1>1, <1>3, <1>4, Zenon DEF BodyInv, RouterOwnsFields, Inv

\* Every step keeps the body's invariant.
LEMMA BodyStep == Inv /\ Inv' /\ BodyInv /\ [Next]_vars => BodyInv'
<1> SUFFICES ASSUME Inv, Inv', BodyInv, [Next]_vars PROVE BodyInv'
  BY Zenon
<1>1. CASE Environment \/ UNCHANGED vars
  <2>1. UNCHANGED handlerVars
    BY <1>1, Zenon DEF Environment, ReportSent, Reload, StartRefresh, MarkMultimodal,
       StoreIntelligence, vars
  <2>2. QED
    BY <2>1, BodyKept, Zenon DEF handlerVars
<1>2. CASE Metadata
  <2>1. /\ UNCHANGED <<req, body, sent, admission>> /\ pc # "over"
        /\ pc' = pc \/ pc' = "over"
    BY <1>2, Zenon DEF Metadata, Reply, AwaitsOrg
  <2>2. QED
    BY <2>1, BodyKept, Zenon
<1>3. CASE Route
  <2>1. /\ UNCHANGED <<req, body, sent, admission>> /\ pc = "route"
        /\ pc' = "over" \/ pc' = IF admission = <<>> THEN "admit" ELSE "select"
    BY <1>3, Zenon DEF Route, UnknownModel, Reply
  <2>2. QED
    BY <2>1, BodyKept, Zenon
<1>4. CASE Tokenize
  <2>1. /\ UNCHANGED <<req, body, sent, admission>> /\ pc = "count"
        /\ pc' = "over" \/ pc' = "tokenize"
    BY <1>4, Zenon DEF Tokenize, Reply
  <2>2. QED
    BY <2>1, BodyKept, Zenon
<1>5. QED
  BY <1>1, <1>2, <1>3, <1>4, BodyArrival, BodyChoice, BodyKnown, BodyQuota, BodyAdmit,
     BodyFiles, BodyFinished, BodyServed, BodyCounted, Zenon DEF Next, Handler

(***************************************************************************)
(* Whatever a client puts into its body, and whichever way the request     *)
(* takes, a replica and the tool runtime get the router's values in the    *)
(* fields the router owns (admission, applyPriority, applyCacheSalt,       *)
(* ensureStreamingUsageOptions, ApplyEffort).                              *)
(***************************************************************************)
THEOREM RouterOwnsTheFields == Spec => []RouterOwnsFields
<1>1. BodyInv => RouterOwnsFields
  BY Zenon DEF BodyInv
<1>2. QED
  BY <1>1, BodyInit, BodyStep, InvInit, InvStep, PTL DEF Spec

-----------------------------------------------------------------------------
(***************************************************************************)
(* The ranking of the candidates for "auto".                               *)
(***************************************************************************)

\* The candidates of a catalog.
Candidate == [name : Models, multimodal : BOOLEAN, effort : Nat, score : Nat, level : Int]

\* What the sort compares, in its order.
Key(c, target) ==
  <<Distance(c, target), IF c.multimodal THEN 0 ELSE 1, -c.score, c.name, c.effort>>

\* The parts of the key are integers.
LEMMA KeyTyped ==
  ASSUME NEW c \in Candidate, NEW target \in Int
  PROVE  \A i \in 1..5 : Key(c, target)[i] \in Int
<1>1. /\ c.name \in Nat /\ c.multimodal \in BOOLEAN /\ c.effort \in Nat /\ c.score \in Nat
      /\ c.level \in Int
  BY HandlerAssumption, Zenon DEF Candidate
<1>2. Distance(c, target) \in Int
  BY <1>1 DEF Distance
<1>3. (IF c.multimodal THEN 0 ELSE 1) \in Int
  OBVIOUS
<1>4. QED
  BY <1>1, <1>2, <1>3 DEF Key

\* A nonempty set of naturals has a least element, and Min picks it.
LEMMA MinIsLeast ==
  ASSUME NEW S \in SUBSET Nat, S # {}
  PROVE  Min(S) \in S /\ \A x \in S : Min(S) <= x
<1>1. IsWellFoundedOn(OpToRel(<, Nat), Nat)
  BY NatLessThanWellFounded, Zenon
<1>2. PICK m \in S : \A x \in S : ~(<<x, m>> \in OpToRel(<, Nat))
  BY <1>1, WFMin, Zenon
<1>3. \A x \in S : ~(x < m)
  BY <1>2, ZenonT(30) DEF OpToRel
<1>4. \A x \in S : m <= x
  BY <1>3
<1>5. QED
  BY <1>4, Zenon DEF Min

\* One candidate precedes another when the first part of their keys that
\* differs is smaller.
LEMMA PrecedesMeans ==
  ASSUME NEW a \in Candidate, NEW b \in Candidate, NEW target \in Int
  PROVE  /\ Precedes(a, b, target)
         <=> \E i \in 1..5 : /\ Key(a, target)[i] < Key(b, target)[i]
                             /\ \A j \in 1..5 : j < i => Key(a, target)[j] = Key(b, target)[j]
<1> DEFINE k == Key(a, target)
           l == Key(b, target)
           differ == {i \in 1..5 : k[i] # l[i]}
<1>1. Precedes(a, b, target) <=> differ # {} /\ k[Min(differ)] < l[Min(differ)]
  BY Zenon DEF Precedes, Key
<1>2. \A i \in 1..5 : k[i] \in Int /\ l[i] \in Int
  BY KeyTyped, Zenon
<1> HIDE DEF k, l
<1>3. differ \in SUBSET Nat /\ differ \subseteq 1..5
  OBVIOUS
<1>4. ASSUME differ # {} PROVE /\ Min(differ) \in 1..5 /\ k[Min(differ)] # l[Min(differ)]
                               /\ \A j \in 1..5 : j < Min(differ) => k[j] = l[j]
  <2>1. Min(differ) \in differ /\ \A x \in differ : Min(differ) <= x
    BY <1>3, <1>4, MinIsLeast, Zenon
  <2> DEFINE n == Min(differ)
  <2>2. n \in differ /\ \A x \in differ : n <= x
    BY <2>1, Zenon
  <2> HIDE DEF n
  <2>3. n \in 1..5 /\ k[n] # l[n] /\ \A j \in 1..5 : j < n => k[j] = l[j]
    BY <2>2
  <2>4. QED
    BY <2>3, Zenon DEF n
<1>5. ASSUME NEW i \in 1..5, k[i] < l[i], \A j \in 1..5 : j < i => k[j] = l[j]
      PROVE  differ # {} /\ Min(differ) = i
  <2>1. i \in differ
    BY <1>2, <1>5
  <2>2. Min(differ) \in differ /\ \A x \in differ : Min(differ) <= x
    BY <1>3, <2>1, MinIsLeast, Zenon
  <2>3. QED
    BY <1>5, <2>1, <2>2
<1>6. QED
  BY <1>1, <1>4, <1>5, Zenon DEF k, l

\* No candidate precedes itself.
LEMMA PrecedesIrreflexive ==
  ASSUME NEW a \in Candidate, NEW target \in Int
  PROVE  ~Precedes(a, a, target)
BY PrecedesMeans, KeyTyped

\* The order is transitive.
LEMMA PrecedesTransitive ==
  ASSUME NEW a \in Candidate, NEW b \in Candidate, NEW c \in Candidate, NEW target \in Int,
         Precedes(a, b, target), Precedes(b, c, target)
  PROVE  Precedes(a, c, target)
<1> DEFINE k == Key(a, target)
           l == Key(b, target)
           m == Key(c, target)
<1>1. PICK i \in 1..5 : k[i] < l[i] /\ \A n \in 1..5 : n < i => k[n] = l[n]
  BY PrecedesMeans, Zenon
<1>2. PICK j \in 1..5 : l[j] < m[j] /\ \A n \in 1..5 : n < j => l[n] = m[n]
  BY PrecedesMeans, Zenon
<1>3. \A n \in 1..5 : k[n] \in Int /\ l[n] \in Int /\ m[n] \in Int
  BY KeyTyped, Zenon
<1>4. (Precedes(a, c, target)
        <=> \E n \in 1..5 : k[n] < m[n] /\ \A h \in 1..5 : h < n => k[h] = m[h])
  BY PrecedesMeans
<1> HIDE DEF k, l, m
<1>5. CASE i <= j
  <2>1. k[i] < m[i] /\ \A h \in 1..5 : h < i => k[h] = m[h]
    BY <1>1, <1>2, <1>3, <1>5
  <2>2. QED
    BY <1>4, <2>1, Zenon
<1>6. CASE j < i
  <2>1. k[j] < m[j] /\ \A h \in 1..5 : h < j => k[h] = m[h]
    BY <1>1, <1>2, <1>3, <1>6
  <2>2. QED
    BY <1>4, <2>1, Zenon
<1>7. QED
  BY <1>5, <1>6

\* Two candidates of one catalog are ordered one way or the other: the score
\* determines the level, and name and effort together are unique.
LEMMA PrecedesTotal ==
  ASSUME NEW a \in Candidate, NEW b \in Candidate, NEW target \in Int, a # b,
         a.score = b.score => a.level = b.level
  PROVE  Precedes(a, b, target) \/ Precedes(b, a, target)
<1> DEFINE k == Key(a, target)
           l == Key(b, target)
           differ == {i \in 1..5 : k[i] # l[i]}
<1>1. \A n \in 1..5 : k[n] \in Int /\ l[n] \in Int
  BY KeyTyped, Zenon
<1>2. \E i \in 1..5 : k[i] # l[i]
  <2> SUFFICES ASSUME \A i \in 1..5 : k[i] = l[i] PROVE FALSE
    BY Zenon
  <2>1. k[2] = l[2] /\ k[3] = l[3] /\ k[4] = l[4] /\ k[5] = l[5]
    OBVIOUS
  <2>2. a.name = b.name /\ a.effort = b.effort
    BY <2>1, Zenon DEF Key
  <2>3. a.score \in Nat /\ b.score \in Nat /\ -a.score = -b.score
    BY <2>1, Zenon DEF Key, Candidate
  <2>4. a.score = b.score
    BY <2>3
  <2>5. a.multimodal = b.multimodal
    <3>1. (IF a.multimodal THEN 0 ELSE 1) = (IF b.multimodal THEN 0 ELSE 1)
      BY <2>1, Zenon DEF Key
    <3>2. a.multimodal \in BOOLEAN /\ b.multimodal \in BOOLEAN
      BY Zenon DEF Candidate
    <3>3. QED
      BY <3>1, <3>2
  <2>6. QED
    BY <2>2, <2>4, <2>5 DEF Candidate
<1>3. (Precedes(a, b, target)
        <=> \E n \in 1..5 : k[n] < l[n] /\ \A h \in 1..5 : h < n => k[h] = l[h])
  BY PrecedesMeans, Zenon
<1>4. (Precedes(b, a, target)
        <=> \E n \in 1..5 : l[n] < k[n] /\ \A h \in 1..5 : h < n => l[h] = k[h])
  BY PrecedesMeans, Zenon
<1> HIDE DEF k, l
<1>5. differ \in SUBSET Nat /\ differ # {}
  BY <1>2
<1>6. PICK i \in differ : \A x \in differ : i <= x
  BY <1>5, MinIsLeast, Zenon
<1>7. i \in 1..5 /\ k[i] # l[i] /\ \A h \in 1..5 : h < i => k[h] = l[h]
  BY <1>6
<1>8. k[i] < l[i] \/ l[i] < k[i]
  BY <1>1, <1>7
<1>9. QED
  BY <1>3, <1>4, <1>7, <1>8, Zenon

\* Rank puts every candidate in the place that its order gives it.
LEMMA RankedByPlace ==
  ASSUME NEW C \in SUBSET Candidate, IsFiniteSet(C), NEW target \in Int,
         \A a, b \in C : a.score = b.score => a.level = b.level
  PROVE  LET Ahead(c) == {d \in C : Precedes(d, c, target)}
             s == [i \in 1..Cardinality(C) |-> CHOOSE c \in C : Cardinality(Ahead(c)) = i - 1]
         IN  /\ s \in Seq(C)
             /\ \A i, j \in 1..Len(s) : i < j => Precedes(s[i], s[j], target)
<1> DEFINE Ahead(c) == {d \in C : Precedes(d, c, target)}
           n == Cardinality(C)
           s == [i \in 1..n |-> CHOOSE c \in C : Cardinality(Ahead(c)) = i - 1]
           Place == [c \in C |-> 1 + Cardinality(Ahead(c))]
<1>1. n \in Nat /\ IsFiniteSet(1..n) /\ Cardinality(1..n) = n
  <2>1. n \in Nat
    BY FS_CardinalityType, Zenon
  <2> HIDE DEF n
  <2>2. n \in Int /\ 1 \in Int
    BY <2>1
  <2>3. IsFiniteSet(1..n) /\ Cardinality(1..n) = IF 1 > n THEN 0 ELSE n - 1 + 1
    BY <2>2, FS_Interval, Zenon
  <2>4. CASE 1 > n
    <3>1. Cardinality(1..n) = 0
      BY <2>3, <2>4, Zenon
    <3>2. QED
      BY <2>1, <2>3, <2>4, <3>1
  <2>5. CASE ~(1 > n)
    <3>1. Cardinality(1..n) = n - 1 + 1
      BY <2>3, <2>5, Zenon
    <3>2. QED
      BY <2>1, <2>3, <3>1
  <2>6. QED
    BY <2>4, <2>5, Zenon
<1>2. ASSUME NEW c \in C
      PROVE  IsFiniteSet(Ahead(c)) /\ Cardinality(Ahead(c)) \in Nat /\ Cardinality(Ahead(c)) < n
  <2>1. Ahead(c) \in SUBSET C /\ c \notin Ahead(c)
    BY PrecedesIrreflexive, Zenon
  <2>2. /\ IsFiniteSet(Ahead(c)) /\ Cardinality(Ahead(c)) <= n
        /\ n = Cardinality(Ahead(c)) => C = Ahead(c)
    BY <2>1, FS_Subset, Zenon
  <2>3. Cardinality(Ahead(c)) \in Nat
    BY <2>2, FS_CardinalityType, Zenon
  <2>4. C # Ahead(c)
    BY <2>1, Zenon
  <2>5. QED
    BY <1>1, <2>2, <2>3, <2>4
<1>3. ASSUME NEW c \in C, NEW d \in C, Precedes(c, d, target)
      PROVE  Cardinality(Ahead(c)) < Cardinality(Ahead(d))
  <2>1. Ahead(c) \subseteq Ahead(d)
    BY <1>3, PrecedesTransitive, Zenon
  <2>2. c \in Ahead(d) /\ c \notin Ahead(c)
    BY <1>3, PrecedesIrreflexive, Zenon
  <2>3. /\ Cardinality(Ahead(c)) <= Cardinality(Ahead(d))
        /\ Cardinality(Ahead(d)) = Cardinality(Ahead(c)) => Ahead(d) = Ahead(c)
    BY <1>2, <2>1, FS_Subset, Zenon
  <2>4. Ahead(d) # Ahead(c)
    BY <2>2, Zenon
  <2>5. Cardinality(Ahead(c)) \in Nat /\ Cardinality(Ahead(d)) \in Nat
    BY <1>2, Zenon
  <2>6. QED
    BY <2>3, <2>4, <2>5
<1>4. ASSUME NEW c \in C, NEW d \in C, c # d
      PROVE  Precedes(c, d, target) \/ Precedes(d, c, target)
  BY <1>4, PrecedesTotal, Zenon
<1> HIDE DEF Ahead, n
<1>5. Place \in [C -> 1..n] /\ \A c \in C : Place[c] = 1 + Cardinality(Ahead(c))
  BY <1>1, <1>2
<1>6. Place \in Injection(C, 1..n)
  <2>1. ASSUME NEW c \in C, NEW d \in C, Place[c] = Place[d] PROVE c = d
    <3>1. Cardinality(Ahead(c)) = Cardinality(Ahead(d))
      BY <1>2, <1>5, <2>1
    <3>2. QED
      BY <1>2, <1>3, <1>4, <3>1
  <2> HIDE DEF Place
  <2>2. QED
    BY <1>5, <2>1, Zenon DEF Injection, IsInjective
<1> HIDE DEF Place
<1>7. Place \in Surjection(C, 1..n)
  BY <1>1, <1>6, FS_Injection, Zenon DEF n
<1>8. ASSUME NEW i \in 1..n PROVE \E c \in C : Cardinality(Ahead(c)) = i - 1
  <2>1. PICK c \in C : Place[c] = i
    BY <1>7, Zenon DEF Surjection
  <2>2. QED
    BY <1>2, <1>5, <2>1
<1>9. \A i \in 1..n : s[i] \in C /\ Cardinality(Ahead(s[i])) = i - 1
  BY <1>8, Zenon
<1>10. s \in Seq(C) /\ Len(s) = n
  BY <1>1, <1>9
<1> HIDE DEF s
<1>11. ASSUME NEW i \in 1..n, NEW j \in 1..n, i < j PROVE Precedes(s[i], s[j], target)
  <2>1. Cardinality(Ahead(s[i])) = i - 1 /\ Cardinality(Ahead(s[j])) = j - 1
        /\ s[i] \in C /\ s[j] \in C
    BY <1>9, Zenon
  <2>2. s[i] # s[j]
    BY <1>11, <2>1
  <2>3. ~Precedes(s[j], s[i], target)
    BY <1>3, <1>11, <2>1, SMTT(30)
  <2>4. QED
    BY <1>4, <2>1, <2>2, <2>3, Zenon
<1>12. QED
  BY <1>10, <1>11, Zenon DEF s, n, Ahead

\* A list of models whose scores are published.
Published(list) ==
  /\ IsFiniteSet(list)
  /\ \A m \in list :
       /\ m \in [name : Models, multimodal : BOOLEAN, scores : {m.scores}, tuned : {m.tuned}]
       /\ validIntelligence(m.scores)

\* The candidates of such a list can be ranked; for a request with pictures
\* each of them comes from a multimodal model.
LEMMA CandidatesSound ==
  ASSUME NEW list, Published(list), ~(AllScores(list) \subseteq {0}), NEW visual \in BOOLEAN
  PROVE  /\ IsFiniteSet(Candidates(list, visual))
         /\ Candidates(list, visual) \in SUBSET Candidate
         /\ \A a, b \in Candidates(list, visual) : a.score = b.score => a.level = b.level
         /\ visual => \A c \in Candidates(list, visual) :
                        \E m \in list : m.name = c.name /\ m.multimodal
<1> DEFINE top == Max(AllScores(list))
           Entry(m, e) == [name |-> m.name, multimodal |-> m.multimodal, effort |-> e,
                           score |-> m.scores[e], level |-> normalize(m.scores[e], top)]
           shown == {m \in list : visual => m.multimodal}
           Entries(m) == {Entry(m, e) : e \in DOMAIN m.scores}
           C == Candidates(list, visual)
<1>1. C = UNION {Entries(m) : m \in shown}
  BY Zenon DEF Candidates
<1>2. \A m \in list : /\ m.name \in Models /\ m.multimodal \in BOOLEAN
                      /\ DOMAIN m.scores \subseteq Nat /\ IsFiniteSet(DOMAIN m.scores)
                      /\ \A e \in DOMAIN m.scores : m.scores[e] \in 0..100
  BY Zenon DEF Published, validIntelligence, maxIntelligenceScore
<1>3. top \in Nat \ {0}
  <2> DEFINE S == AllScores(list)
  <2>1. S \subseteq 0..100
    BY <1>2 DEF AllScores
  <2>2. S # {}
    BY Zenon
  <2> HIDE DEF S
  <2> DEFINE D == {d \in 0..100 : 100 - d \in S}
  <2>3. D \in SUBSET Nat /\ D # {}
    <3>1. PICK x \in S : TRUE
      BY <2>2, Zenon
    <3>2. 100 - x \in D
      BY <2>1
    <3>3. QED
      BY <3>2
  <2>4. PICK d \in D : \A y \in D : d <= y
    BY <2>3, MinIsLeast, ZenonT(30)
  <2>5. 100 - d \in S /\ \A x \in S : 100 - d >= x
    <3>1. \A x \in S : 100 - x \in D
      BY <2>1
    <3>2. d \in 0..100 /\ 100 - d \in S
      BY Zenon
    <3>3. ASSUME NEW x \in S PROVE 100 - d >= x
      <4>1. x \in 0..100 /\ d <= 100 - x
        BY <2>1, <2>4, <3>1, Zenon
      <4>2. QED
        BY <3>2, <4>1
    <3>4. QED
      BY <3>2, <3>3, Zenon
  <2>6. Max(S) \in S /\ \A x \in S : Max(S) >= x
    BY <2>5, Zenon DEF Max
  <2>7. PICK x \in S : x # 0
    BY Zenon DEF S
  <2>8. Max(S) \in Nat /\ Max(S) > 0
    <3>1. Max(S) \in 0..100 /\ x \in 0..100 /\ Max(S) >= x
      BY <2>1, <2>6, ZenonT(30)
    <3>2. QED
      BY <2>7, <3>1
  <2>9. QED
    BY <2>8 DEF S
<1> HIDE DEF top
<1>4. ASSUME NEW x \in Nat PROVE normalize(x, top) \in Int
  <2> DEFINE p == 2 * x * MaxIntelligence + top
             q == 2 * top
  <2>1. p \in Int /\ q \in Nat /\ q > 0
    BY <1>3, IntelligenceAssumption
  <2> HIDE DEF p, q
  <2>2. p \div q \in Int
    BY <2>1
  <2>3. QED
    BY <2>2, Zenon DEF normalize, p, q
<1>5. ASSUME NEW c \in C
      PROVE  \E m \in shown : \E e \in DOMAIN m.scores : c = Entry(m, e)
  <2>1. PICK T \in {Entries(m) : m \in shown} : c \in T
    BY <1>1, ZenonT(30)
  <2>2. PICK m \in shown : T = Entries(m)
    BY ZenonT(30)
  <2>3. c \in Entries(m)
    BY <2>1, <2>2, ZenonT(30)
  <2>4. QED
    BY <2>3, Zenon
<1>6. C \in SUBSET Candidate
  <2> SUFFICES ASSUME NEW c \in C PROVE c \in Candidate
    BY Zenon
  <2>0. PICK m \in shown : \E e \in DOMAIN m.scores : c = Entry(m, e)
    BY <1>5, Zenon
  <2>1. PICK e \in DOMAIN m.scores : c = Entry(m, e)
    BY <2>0, Zenon
  <2>2. m \in list /\ m.scores[e] \in Nat /\ e \in Nat
    BY <1>2
  <2>3. normalize(m.scores[e], top) \in Int
    BY <1>4, <2>2, Zenon
  <2>4. QED
    BY <1>2, <2>1, <2>2, <2>3, Zenon DEF Candidate
<1>7. \A a, b \in C : a.score = b.score => a.level = b.level
  <2> SUFFICES ASSUME NEW a \in C, NEW b \in C, a.score = b.score PROVE a.level = b.level
    BY Zenon
  <2>1. a.level = normalize(a.score, top)
    BY <1>5
  <2>2. b.level = normalize(b.score, top)
    BY <1>5
  <2>3. QED
    BY <2>1, <2>2, Zenon
<1>8. visual => \A c \in C : \E m \in list : m.name = c.name /\ m.multimodal
  <2> SUFFICES ASSUME visual, NEW c \in C
               PROVE  \E m \in list : m.name = c.name /\ m.multimodal
    BY Zenon
  <2>1. PICK m \in shown : \E e \in DOMAIN m.scores : c = Entry(m, e)
    BY <1>5, Zenon
  <2>2. c.name = m.name
    BY <2>1
  <2>3. m \in list /\ m.multimodal
    BY Zenon
  <2>4. QED
    BY <2>2, <2>3, Zenon
<1>9. IsFiniteSet(C)
  <2>1. IsFiniteSet(shown)
    BY FS_Subset, Zenon DEF Published
  <2>2. ASSUME NEW m \in shown PROVE IsFiniteSet(Entries(m))
    <3> DEFINE f == [e \in DOMAIN m.scores |-> Entry(m, e)]
    <3>1. f \in Surjection(DOMAIN m.scores, Entries(m))
      BY Zenon DEF Surjection
    <3>2. IsFiniteSet(DOMAIN m.scores)
      BY <1>2, Zenon
    <3> HIDE DEF f
    <3>3. QED
      BY <3>1, <3>2, FS_Surjection, ZenonT(30)
  <2> DEFINE g == [m \in shown |-> Entries(m)]
  <2> HIDE DEF shown, Entries
  <2>3. g \in Surjection(shown, {Entries(m) : m \in shown})
    BY Zenon DEF Surjection
  <2>4. IsFiniteSet({Entries(m) : m \in shown})
    BY <2>1, <2>3, FS_Surjection, Zenon
  <2>5. \A T \in {Entries(m) : m \in shown} : IsFiniteSet(T)
    BY <2>2, Zenon
  <2>6. QED
    BY <1>1, <2>4, <2>5, FS_UNION, Zenon
<1>10. QED
  BY <1>6, <1>7, <1>8, <1>9, Zenon

-----------------------------------------------------------------------------
(***************************************************************************)
(* The walk over the candidates, while health, reservations and the model  *)
(* list change.                                                            *)
(***************************************************************************)
Target == ParseIntelligence(req.option, req.level)[1]

Sights == [c : Candidate, eligible : BOOLEAN, healthy : BOOLEAN]

\* What was looked at came in the order of the ranking.
SeenInOrder ==
  /\ seen \in Seq(Sights)
  /\ \A i, j \in 1..Len(seen) : i < j => Precedes(seen[i].c, seen[j].c, Target)
  /\ HasVisualInput(req) => \A i \in 1..Len(seen) : seen[i].c.name \in marked

\* What is still to be looked at comes after it, and nothing was healthy.
WalkInOrder ==
  /\ Target \in Int
  /\ walk \in Seq(Candidate) /\ walk # <<>>
  /\ \A i, j \in 1..Len(walk) : i < j => Precedes(walk[i], walk[j], Target)
  /\ \A i \in 1..Len(seen), j \in 1..Len(walk) : Precedes(seen[i].c, walk[j], Target)
  /\ HasVisualInput(req) => \A j \in 1..Len(walk) : walk[j].name \in marked
  /\ \A i \in 1..Len(seen) : ~seen[i].healthy

\* The candidate at this place is the best of those that were looked at.
BestAt(p) ==
  /\ seen[p].eligible
  /\ IF \E i \in 1..Len(seen) : seen[i].healthy
     THEN seen[p].healthy /\ \A i \in 1..(p - 1) : ~seen[i].healthy
     ELSE \A i \in 1..(p - 1) : ~seen[i].eligible

ChosenIsBest ==
  /\ chosen = <<>> => \A i \in 1..Len(seen) : ~seen[i].eligible /\ ~seen[i].healthy
  /\ chosen # <<>> => \E p \in 1..Len(seen) : chosen = <<seen[p].c>> /\ BestAt(p)

\* An endpoint that resolves "auto".
Resolves == req.path \in OpenAIPaths \cup CountPaths /\ req.model = AutoModel

AutoInv ==
  /\ catalog \in Catalogs /\ (refreshing # <<>> => refreshing[1] \in Catalogs)
  /\ SeenInOrder /\ ChosenIsBest
  /\ pc \in {"arrive", "auto"} => seen = <<>> /\ chosen = <<>>
  /\ pc = "walk" => WalkInOrder
  /\ Resolves /\ pc \in {"arrive", "auto", "walk", "chosen"} => model = AutoModel
  /\ seen # <<>> => Target \in Int
  /\ Resolves /\ model # AutoModel => chosen # <<>> /\ model = chosen[1].name

\* The steps that have nothing to do with the walk.
LEMMA AutoFrame ==
  ASSUME AutoInv, UNCHANGED <<req, walk, seen, chosen>>,
         model' = model \/ ~Resolves,
         marked \subseteq marked',
         pc' \in {"arrive", "auto"} => pc \in {"arrive", "auto"},
         pc' = "walk" => pc = "walk", pc' = "chosen" => pc = "chosen",
         catalog' \in Catalogs, refreshing' # <<>> => refreshing'[1] \in Catalogs
  PROVE  AutoInv'
<1>1. UNCHANGED <<Target, HasVisualInput(req), Resolves>>
  BY Zenon DEF Target, Resolves, HasVisualInput
<1>2. SeenInOrder' /\ ChosenIsBest'
  BY <1>1, Zenon DEF AutoInv, SeenInOrder, ChosenIsBest, BestAt
<1>3. pc' = "walk" => WalkInOrder'
  BY <1>1, Zenon DEF AutoInv, WalkInOrder
<1>4. QED
  BY <1>1, <1>2, <1>3, Zenon DEF AutoInv

\* The ranking: the walk starts with all the candidates in order.
LEMMA AutoRanked ==
  ASSUME AutoInv, RankCandidates
  PROVE  AutoInv'
<1>1. /\ pc = "auto" /\ UNCHANGED <<req, model, seen, chosen, marked, catalog, refreshing>>
      /\ seen = <<>> /\ chosen = <<>>
  BY Zenon DEF RankCandidates, AutoInv, envVars
<1>2. UNCHANGED <<Target, HasVisualInput(req), Resolves>>
  BY <1>1, Zenon DEF Target, Resolves, HasVisualInput
<1>3. SeenInOrder' /\ ChosenIsBest'
  BY <1>1, <1>2, Zenon DEF AutoInv, SeenInOrder, ChosenIsBest, BestAt
<1>4. CASE pc' = "over"
  BY <1>1, <1>2, <1>3, <1>4, Zenon DEF AutoInv
<1>5. CASE pc' # "over"
  <2> DEFINE visual == HasVisualInput(req)
             list == AutoRouteCatalog
             parsed == ParseIntelligence(req.option, req.level)
             C == Candidates(list, visual)
             s == Rank(list, Target, visual)
  <2>1. pc' = "walk" /\ walk' = s /\ s # <<>> /\ parsed # <<>>
    <3>1. parsed # <<>>
      BY <1>5, Zenon DEF RankCandidates, Reply
    <3>2. QED
      BY <1>5, <3>1, Zenon DEF RankCandidates, Reply, Target
  <2>2. Target \in Int
    <3>1. parsed = <<parsed[1]>> /\ parsed[1] \in Int
      BY <2>1, IntelligenceAssumption DEF ParseIntelligence, validateIntelligence
    <3>2. QED
      BY <3>1, Zenon DEF Target
  <2>3. Published(list)
    <3>1. IsFiniteSet(catalog) /\ \A m \in catalog :
             /\ m \in [name : Models, multimodal : BOOLEAN, scores : {m.scores}, tuned : {m.tuned}]
             /\ validIntelligence(m.scores)
      BY HandlerAssumption, Zenon DEF AutoInv
    <3> DEFINE f == [m \in catalog |-> [m EXCEPT !.multimodal = m.name \in marked]]
    <3>2. f \in Surjection(catalog, list)
      BY Zenon DEF Surjection, AutoRouteCatalog
    <3>3. IsFiniteSet(list)
      BY <3>1, <3>2, FS_Surjection, Zenon
    <3>4. ASSUME NEW n \in list
          PROVE  /\ n \in [name : Models, multimodal : BOOLEAN, scores : {n.scores}, tuned : {n.tuned}]
                 /\ validIntelligence(n.scores)
      <4>1. PICK m \in catalog : n = [m EXCEPT !.multimodal = m.name \in marked]
        BY Zenon DEF AutoRouteCatalog
      <4>2. n.name = m.name /\ n.scores = m.scores /\ n.tuned = m.tuned
        BY <3>1, <4>1, Zenon
      <4>3. (m.name \in marked) \in BOOLEAN
        OBVIOUS
      <4>4. n \in [name : Models, multimodal : BOOLEAN, scores : {m.scores}, tuned : {m.tuned}]
        BY <3>1, <4>1, <4>3, Zenon
      <4>5. QED
        BY <3>1, <4>2, <4>4, Zenon
    <3>5. QED
      BY <3>3, <3>4, Zenon DEF Published
  <2>4. ASSUME NEW n \in list, n.multimodal PROVE n.name \in marked
    <3>1. PICK m \in catalog : n = [m EXCEPT !.multimodal = m.name \in marked]
      BY Zenon DEF AutoRouteCatalog
    <3>2. m \in [name : Models, multimodal : BOOLEAN, scores : {m.scores}, tuned : {m.tuned}]
      BY HandlerAssumption, Zenon DEF AutoInv
    <3>3. n.name = m.name /\ n.multimodal = (m.name \in marked)
      BY <3>1, <3>2, Zenon
    <3>4. QED
      BY <2>4, <3>3, Zenon
  <2>5. visual \in BOOLEAN
    BY Zenon DEF HasVisualInput
  <2> HIDE DEF list, visual
  <2>6. ~(AllScores(list) \subseteq {0})
    BY <2>1, Zenon DEF Rank
  <2>7. /\ IsFiniteSet(C) /\ C \in SUBSET Candidate
        /\ \A a, b \in C : a.score = b.score => a.level = b.level
        /\ visual => \A c \in C : \E m \in list : m.name = c.name /\ m.multimodal
    BY <2>3, <2>5, <2>6, CandidatesSound, ZenonT(30)
  <2>8. s \in Seq(C) /\ \A i, j \in 1..Len(s) : i < j => Precedes(s[i], s[j], Target)
    <3> HIDE DEF C
    <3>1. LET Ahead(c) == {d \in C : Precedes(d, c, Target)}
              t == [i \in 1..Cardinality(C) |-> CHOOSE c \in C : Cardinality(Ahead(c)) = i - 1]
          IN  t \in Seq(C) /\ \A i, j \in 1..Len(t) : i < j => Precedes(t[i], t[j], Target)
      BY <2>2, <2>7, RankedByPlace, Zenon
    <3>2. QED
      BY <2>6, <3>1, ZenonT(30) DEF Rank, C
  <2> HIDE DEF s, C
  <2>9. s \in Seq(Candidate) /\ \A j \in 1..Len(s) : s[j] \in C
    BY <2>7, <2>8
  <2>10. visual => \A j \in 1..Len(s) : s[j].name \in marked
    BY <2>4, <2>7, <2>9, Zenon
  <2>11. WalkInOrder'
    BY <1>1, <1>2, <2>1, <2>2, <2>8, <2>9, <2>10, SMTT(30) DEF WalkInOrder, visual
  <2>12. QED
    BY <1>1, <1>2, <1>3, <2>1, <2>11, Zenon DEF AutoInv
<1>6. QED
  BY <1>4, <1>5, Zenon

\* One candidate is looked at.
LEMMA AutoChecked ==
  ASSUME AutoInv, CheckCandidate
  PROVE  AutoInv'
<1> DEFINE c == Head(walk)
<1>1. /\ pc = "walk" /\ UNCHANGED <<req, model, marked, catalog, refreshing>>
      /\ pc' = IF walk' = <<>> THEN "chosen" ELSE "walk"
  BY Zenon DEF CheckCandidate, envVars
<1>2. UNCHANGED <<Target, HasVisualInput(req), Resolves>>
  BY <1>1, Zenon DEF Target, Resolves, HasVisualInput
<1>3. WalkInOrder /\ SeenInOrder /\ ChosenIsBest
  BY <1>1, Zenon DEF AutoInv
<1>4. PICK eligible \in BOOLEAN, healthy \in BOOLEAN :
        /\ seen' = Append(seen, [c |-> c, eligible |-> eligible, healthy |-> eligible /\ healthy])
        /\ chosen' = FirstEligible(c, eligible, healthy)
        /\ walk' = IF eligible /\ healthy THEN <<>> ELSE Tail(walk)
  <2>1. PICK healthy \in BOOLEAN, org \in IF HasReservations(Head(walk).name) THEN OrgFor ELSE {NoOrg} :
          /\ seen' = Append(seen, [c |-> c, eligible |-> Eligible(c.name, org),
                                   healthy |-> Eligible(c.name, org) /\ healthy])
          /\ chosen' = FirstEligible(c, Eligible(c.name, org), healthy)
          /\ walk' = IF Eligible(c.name, org) /\ healthy THEN <<>> ELSE Tail(walk)
    BY Zenon DEF CheckCandidate
  <2>2. Eligible(c.name, org) \in BOOLEAN
    BY Zenon DEF Eligible
  <2>3. QED
    BY <2>1, <2>2, Zenon
<1> DEFINE good == eligible /\ healthy
           x == [c |-> c, eligible |-> eligible, healthy |-> good]
<1>0. PICK n \in Nat : n = Len(seen)
  BY <1>3 DEF SeenInOrder
<1>5. c \in Candidate /\ c = walk[1] /\ Len(walk) \in Nat /\ Len(walk) >= 1 /\ n \in Nat
  BY <1>3 DEF WalkInOrder, SeenInOrder
<1>6. x \in Sights /\ x.c = c /\ x.eligible = eligible /\ x.healthy = good
  BY <1>5, Zenon DEF Sights
<1>7. seen' = Append(seen, x)
  BY <1>4, Zenon
<1> HIDE DEF x, c, good
<1>8. /\ seen' \in Seq(Sights) /\ Len(seen') = n + 1 /\ seen'[n + 1] = x
      /\ \A i \in 1..n : seen'[i] = seen[i]
  <2>1. seen \in Seq(Sights)
    BY <1>3, Zenon DEF SeenInOrder
  <2>2. QED
    BY <1>0, <1>6, <1>7, <2>1, SMTT(30)
<1>9. SeenInOrder'
  <2>1. ASSUME NEW i \in 1..(n + 1), NEW j \in 1..(n + 1), i < j
        PROVE  Precedes(seen'[i].c, seen'[j].c, Target)
    <3>1. i \in 1..n
      BY <1>5, <2>1, SMTT(30)
    <3>2. CASE j \in 1..n
      BY <1>0, <1>3, <1>8, <2>1, <3>1, <3>2, SMTT(30) DEF SeenInOrder
    <3>3. CASE j = n + 1
      <4>1. 1 \in 1..Len(walk)
        BY <1>5
      <4>2. Precedes(seen[i].c, walk[1], Target)
        BY <1>0, <1>3, <3>1, <4>1, Zenon DEF WalkInOrder
      <4>3. QED
        BY <1>5, <1>6, <1>8, <3>1, <3>3, <4>2, Zenon
    <3>4. QED
      BY <1>5, <3>2, <3>3
  <2>2. ASSUME HasVisualInput(req), NEW i \in 1..(n + 1) PROVE seen'[i].c.name \in marked
    <3>1. CASE i \in 1..n
      BY <1>0, <1>3, <1>8, <2>2, <3>1, Zenon DEF SeenInOrder
    <3>2. CASE i = n + 1
      <4>1. 1 \in 1..Len(walk)
        BY <1>5
      <4>2. walk[1].name \in marked
        BY <1>3, <2>2, <4>1, Zenon DEF WalkInOrder
      <4>3. QED
        BY <1>5, <1>6, <1>8, <3>2, <4>2, Zenon
    <3>3. QED
      BY <1>5, <3>1, <3>2, SMTT(30)
  <2>3. QED
    BY <1>1, <1>2, <1>8, <2>1, <2>2, Zenon DEF SeenInOrder
<1>10. ChosenIsBest'
  <2>1. \A i \in 1..n : ~seen'[i].healthy /\ seen'[i].eligible = seen[i].eligible
    BY <1>0, <1>3, <1>8, Zenon DEF WalkInOrder
  <2>2. chosen' = IF eligible /\ (healthy \/ chosen = <<>>) THEN <<c>> ELSE chosen
    BY <1>4, Zenon DEF FirstEligible
  <2>3. CASE good
    <3>1. chosen' = <<seen'[n + 1].c>>
      <4>1. eligible /\ healthy
        BY <2>3, Zenon DEF good
      <4>2. chosen' = <<c>>
        BY <2>2, <4>1, Zenon
      <4>3. QED
        BY <1>6, <1>8, <4>2, Zenon
    <3>2. BestAt(n + 1)'
      <4>1. seen'[n + 1].eligible /\ seen'[n + 1].healthy /\ n + 1 \in 1..Len(seen')
        <5>1. x.eligible /\ x.healthy
          BY <1>6, <2>3, Zenon DEF good
        <5>2. seen'[n + 1].eligible /\ seen'[n + 1].healthy
          BY <1>8, <5>1, Zenon
        <5>3. QED
          BY <1>5, <1>8, <5>2
      <4>2. \A i \in 1..(n + 1 - 1) : ~seen'[i].healthy
        BY <1>5, <2>1
      <4>3. QED
        <5>1. \E i \in 1..Len(seen') : seen'[i].healthy
          BY <4>1, Zenon
        <5>2. QED
          BY <4>1, <4>2, <5>1 DEF BestAt
    <3>3. QED
      BY <1>5, <1>8, <3>1, <3>2, SMTT(30) DEF ChosenIsBest
  <2>4. CASE ~good
    <3>1. \A i \in 1..Len(seen') : ~seen'[i].healthy
      <4>1. ~x.healthy
        BY <1>6, <2>4, Zenon
      <4>2. ~seen'[n + 1].healthy
        BY <1>8, <4>1, Zenon
      <4>3. \A i \in 1..Len(seen') : i \in 1..n \/ i = n + 1
        BY <1>5, <1>8, SMTT(30)
      <4>4. QED
        BY <2>1, <4>2, <4>3, Zenon
    <3>2. CASE eligible /\ chosen = <<>>
      <4>1. chosen' = <<seen'[n + 1].c>>
        BY <1>6, <1>8, <2>2, <3>2, Zenon
      <4>2. \A i \in 1..(n + 1 - 1) : ~seen'[i].eligible
        BY <1>0, <1>3, <1>5, <2>1, <3>2, SMTT(30) DEF ChosenIsBest
      <4>3. BestAt(n + 1)'
        <5>1. x.eligible
          BY <1>6, <3>2, Zenon
        <5>2. seen'[n + 1].eligible
          BY <1>8, <5>1, Zenon
        <5>3. QED
          BY <3>1, <4>2, <5>2 DEF BestAt
      <4>4. QED
        BY <1>5, <1>8, <4>1, <4>3 DEF ChosenIsBest
    <3>3. CASE ~eligible /\ chosen = <<>>
      <4>1. chosen' = <<>>
        BY <2>2, <3>3, Zenon
      <4>2. \A i \in 1..n : ~seen'[i].eligible
        BY <1>0, <1>3, <2>1, <3>3, Zenon DEF ChosenIsBest
      <4>3. ~seen'[n + 1].eligible
        BY <1>6, <1>8, <3>3, Zenon
      <4>4. \A i \in 1..(n + 1) : ~seen'[i].eligible
        BY <1>5, <4>2, <4>3
      <4>5. QED
        BY <1>8, <3>1, <4>1, <4>4, Zenon DEF ChosenIsBest
    <3>4. CASE chosen # <<>>
      <4>1. chosen' = chosen
        BY <2>2, <2>4, <3>4, Zenon DEF good
      <4>2. PICK p \in 1..n : chosen = <<seen[p].c>> /\ BestAt(p)
        BY <1>0, <1>3, <3>4, Zenon DEF ChosenIsBest
      <4>3. seen[p].eligible /\ \A i \in 1..(p - 1) : ~seen[i].eligible
        BY <1>3, <4>2, Zenon DEF BestAt, WalkInOrder
      <4>4. seen'[p].eligible /\ \A i \in 1..(p - 1) : ~seen'[i].eligible
        <5>1. \A i \in 1..(p - 1) : i \in 1..n
          BY <1>5
        <5>2. QED
          BY <2>1, <4>3, <5>1, Zenon
      <4>5. BestAt(p)'
        BY <3>1, <4>4, Zenon DEF BestAt
      <4>6. p \in 1..Len(seen') /\ chosen' = <<seen'[p].c>>
        BY <1>5, <1>8, <4>1, <4>2, SMTT(30)
      <4>7. QED
        BY <4>5, <4>6, Zenon DEF ChosenIsBest
    <3>5. QED
      BY <3>2, <3>3, <3>4, Zenon
  <2>5. QED
    BY <2>3, <2>4, Zenon
<1>11. ASSUME pc' = "walk" PROVE WalkInOrder'
  <2>1. walk' # <<>> /\ walk' = Tail(walk) /\ ~good
    BY <1>1, <1>4, <1>11, Zenon DEF good
  <2>2. /\ walk' \in Seq(Candidate) /\ Len(walk') = Len(walk) - 1
        /\ \A j \in 1..Len(walk') : j + 1 \in 1..Len(walk) /\ walk'[j] = walk[j + 1]
    BY <1>3, <1>5, <2>1 DEF WalkInOrder
  <2>3. \A i, j \in 1..Len(walk') : i < j => Precedes(walk'[i], walk'[j], Target)
    <3> SUFFICES ASSUME NEW i \in 1..Len(walk'), NEW j \in 1..Len(walk'), i < j
                 PROVE  Precedes(walk'[i], walk'[j], Target)
      BY Zenon
    <3>1. i + 1 \in 1..Len(walk) /\ j + 1 \in 1..Len(walk) /\ i + 1 < j + 1
      BY <2>2
    <3>2. Precedes(walk[i + 1], walk[j + 1], Target)
      BY <1>3, <3>1, Zenon DEF WalkInOrder
    <3>3. QED
      BY <2>2, <3>2, Zenon
  <2>4. \A i \in 1..(n + 1), j \in 1..Len(walk') : Precedes(seen'[i].c, walk'[j], Target)
    <3> SUFFICES ASSUME NEW i \in 1..(n + 1), NEW j \in 1..Len(walk')
                 PROVE  Precedes(seen'[i].c, walk'[j], Target)
      BY Zenon
    <3>1. j + 1 \in 1..Len(walk) /\ 1 \in 1..Len(walk) /\ 1 < j + 1 /\ walk'[j] = walk[j + 1]
      BY <1>5, <2>2
    <3>2. CASE i \in 1..n
      <4>1. Precedes(seen[i].c, walk[j + 1], Target)
        BY <1>0, <1>3, <3>1, <3>2, Zenon DEF WalkInOrder
      <4>2. QED
        BY <1>8, <3>1, <3>2, <4>1, Zenon
    <3>3. CASE i = n + 1
      <4>1. Precedes(walk[1], walk[j + 1], Target)
        BY <1>3, <3>1, Zenon DEF WalkInOrder
      <4>2. QED
        BY <1>5, <1>6, <1>8, <3>1, <3>3, <4>1
    <3>4. QED
      BY <1>5, <3>2, <3>3
  <2>5. HasVisualInput(req) => \A j \in 1..Len(walk') : walk'[j].name \in marked
    BY <1>3, <2>2, Zenon DEF WalkInOrder
  <2>6. \A i \in 1..(n + 1) : ~seen'[i].healthy
    <3>1. ~x.healthy
      BY <1>6, <2>1, Zenon
    <3>2. ~seen'[n + 1].healthy
      BY <1>8, <3>1, Zenon
    <3>3. \A i \in 1..n : ~seen'[i].healthy
      BY <1>0, <1>3, <1>8, Zenon DEF WalkInOrder
    <3>4. \A i \in 1..(n + 1) : i \in 1..n \/ i = n + 1
      BY <1>5
    <3>5. QED
      BY <3>2, <3>3, <3>4, Zenon
  <2>7. Target \in Int
    BY <1>3, Zenon DEF WalkInOrder
  <2>8. QED
    BY <1>1, <1>2, <1>8, <2>1, <2>2, <2>3, <2>4, <2>5, <2>6, <2>7 DEF WalkInOrder
<1>12. Target' \in Int
  BY <1>2, <1>3, Zenon DEF WalkInOrder
<1>13. ~Resolves \/ model = AutoModel \/ chosen' # <<>>
  BY <1>4, Zenon DEF AutoInv, FirstEligible
<1>14. QED
  BY <1>1, <1>2, <1>9, <1>10, <1>11, <1>12, <1>13, Zenon DEF AutoInv

\* The choice: the best candidate becomes the model.
LEMMA AutoChosen ==
  ASSUME AutoInv, ChooseModel
  PROVE  AutoInv'
<1>1. /\ pc = "chosen" /\ UNCHANGED <<req, walk, seen, chosen, marked, catalog, refreshing>>
      /\ pc' \in {"over", "count", "known"}
  BY Zenon DEF ChooseModel, Reply, envVars
<1>2. CASE model' = model
  BY <1>1, <1>2, AutoFrame, Zenon DEF AutoInv
<1>3. CASE chosen # <<>> /\ model' = chosen[1].name
  <2>1. UNCHANGED <<Target, HasVisualInput(req), Resolves>>
    BY <1>1, Zenon DEF Target, Resolves, HasVisualInput
  <2>2. SeenInOrder' /\ ChosenIsBest'
    BY <1>1, <2>1, Zenon DEF AutoInv, SeenInOrder, ChosenIsBest, BestAt
  <2>3. QED
    BY <1>1, <1>3, <2>1, <2>2, Zenon DEF AutoInv
<1>4. QED
  BY <1>2, <1>3, Zenon DEF ChooseModel

\* The arrival leaves the walk to the endpoints that resolve "auto".
LEMMA AutoArrival ==
  ASSUME AutoInv,
         \/ Refused \/ ServeStatic \/ ParseBody \/ ParseCount \/ ParseAudio \/ ParseConvert
         \/ ParseRealtime
  PROVE  AutoInv'
<1>1. /\ pc = "arrive" /\ UNCHANGED <<req, walk, seen, chosen, marked, catalog, refreshing>>
      /\ pc' \notin {"arrive", "walk", "chosen"}
  BY Zenon DEF Refused, ServeStatic, ParseBody, ParseCount, ParseAudio, ParseConvert, Arrived,
         ParseRealtime, Reply, envVars
<1>2. model' = model \/ ~Resolves
  <2>1. CASE Refused \/ ServeStatic \/ ParseBody \/ ParseCount
    BY <2>1, Zenon DEF Refused, ServeStatic, ParseBody, ParseCount
  <2>2. CASE ParseAudio \/ ParseConvert \/ ParseRealtime
    BY <2>2, ZenonT(30) DEF ParseAudio, ParseConvert, ParseRealtime, Arrived, Resolves, OpenAIPaths, CountPaths
  <2>3. QED
    BY <2>1, <2>2, Zenon
<1>3. QED
  BY <1>1, <1>2, AutoFrame, Zenon DEF AutoInv

\* Everything after the choice leaves it alone.
LEMMA AutoLater ==
  ASSUME AutoInv,
         \/ Metadata \/ KnownModel \/ Lookup \/ Admit \/ KeepPart \/ ConvertFile \/ FinishBody
         \/ Route \/ ServeModel \/ Tokenize \/ CountTokens
  PROVE  AutoInv'
<1>1. UNCHANGED <<req, walk, seen, chosen, model, marked, catalog, refreshing>>
  BY Zenon DEF Metadata, KnownModel, Lookup, Admit, KeepPart, ConvertFile, FinishBody, Route,
         ServeModel, Tokenize, CountTokens, envVars
<1>2. pc' = pc \/ pc' \notin {"arrive", "auto", "walk", "chosen"}
  <2>1. CASE Metadata \/ KnownModel \/ Lookup \/ Admit
    BY <2>1, Zenon DEF Metadata, KnownModel, Lookup, Admit, Reply, UnknownModel
  <2>2. CASE KeepPart \/ ConvertFile \/ FinishBody
    BY <2>2, ZenonT(30) DEF KeepPart, ConvertFile, FinishBody, Reply
  <2>3. CASE Route \/ ServeModel \/ Tokenize \/ CountTokens
    BY <2>3, Zenon DEF Route, ServeModel, Tokenize, CountTokens, Reply, UnknownModel
  <2>4. QED
    BY <2>1, <2>2, <2>3, Zenon
<1>3. QED
  BY <1>1, <1>2, AutoFrame, Zenon DEF AutoInv

\* What goes on beside the request: capabilities are only ever added.
LEMMA AutoEnvironment ==
  ASSUME AutoInv, Environment \/ UNCHANGED vars
  PROVE  AutoInv'
<1>1. UNCHANGED <<req, pc, model, walk, seen, chosen>>
  BY ZenonT(30) DEF Environment, ReportSent, Reload, StartRefresh, MarkMultimodal, StoreIntelligence,
         vars, handlerVars
<1>2. marked \subseteq marked'
  BY Zenon DEF Environment, ReportSent, Reload, StartRefresh, MarkMultimodal, StoreIntelligence,
         vars, envVars
<1>3. catalog' \in Catalogs /\ (refreshing' # <<>> => refreshing'[1] \in Catalogs)
  <2>1. catalog \in Catalogs /\ (refreshing # <<>> => refreshing[1] \in Catalogs)
    BY Zenon DEF AutoInv
  <2>2. CASE UNCHANGED <<catalog, refreshing>>
    BY <2>1, <2>2, Zenon
  <2>3. CASE StartRefresh
    BY <2>1, <2>3 DEF StartRefresh
  <2>4. CASE MarkMultimodal \/ StoreIntelligence
    BY <2>1, <2>4, Zenon DEF MarkMultimodal, StoreIntelligence
  <2>5. QED
    BY <2>2, <2>3, <2>4, Zenon DEF Environment, ReportSent, Reload, vars, envVars
<1>4. QED
  BY <1>1, <1>2, <1>3, AutoFrame, Zenon

\* The invariant of the walk.
LEMMA AutoAlways == Spec => []AutoInv
<1>1. Init => AutoInv
  <2> SUFFICES ASSUME Init PROVE AutoInv
    BY Zenon
  <2>1. seen = <<>> /\ chosen = <<>> /\ seen \in Seq(Sights) /\ Len(seen) = 0
    BY DEF Init
  <2>2. SeenInOrder /\ ChosenIsBest
    BY <2>1 DEF SeenInOrder, ChosenIsBest
  <2>3. QED
    BY <2>1, <2>2, Zenon DEF Init, AutoInv, Resolves
<1>2. AutoInv /\ [Next]_vars => AutoInv'
  BY AutoRanked, AutoChecked, AutoChosen, AutoArrival, AutoLater, AutoEnvironment
     DEF Next, Handler
<1>3. QED
  BY <1>1, <1>2, PTL DEF Spec

(***************************************************************************)
(* A request for "auto" ends at the closest candidate that was healthy     *)
(* when it was looked at, or else at the closest one its caller may use,   *)
(* and never at a text-only model when it carries pictures or files: for   *)
(* every model list, whatever changes between two looks                    *)
(* (resolveAutoModel, Rank).                                               *)
(***************************************************************************)
THEOREM AutoEndsAtTheClosest == Spec => []AutoTakesClosest
<1>1. AutoInv => AutoTakesClosest
  <2> SUFFICES ASSUME AutoInv, Resolves, model # AutoModel
               PROVE  LET at == CHOOSE i \in DOMAIN seen : seen[i].c.name = model /\ seen[i].c = chosen[1]
                      IN  /\ seen[at].eligible
                          /\ \A i \in 1..(at - 1) : Precedes(seen[i].c, seen[at].c, Target)
                          /\ IF \E i \in DOMAIN seen : seen[i].healthy
                             THEN seen[at].healthy /\ \A i \in 1..(at - 1) : ~seen[i].healthy
                             ELSE \A i \in 1..(at - 1) : ~seen[i].eligible
                          /\ HasVisualInput(req) => model \in marked
    BY Zenon DEF AutoTakesClosest, Resolves, Target
  <2> DEFINE at == CHOOSE i \in DOMAIN seen : seen[i].c.name = model /\ seen[i].c = chosen[1]
  <2>1. chosen # <<>> /\ model = chosen[1].name /\ SeenInOrder /\ ChosenIsBest
    BY Zenon DEF AutoInv
  <2>2. DOMAIN seen = 1..Len(seen) /\ Len(seen) \in Nat /\ \A i \in 1..Len(seen) : seen[i].c \in Candidate
    <3>1. seen \in Seq(Sights)
      BY <2>1, Zenon DEF SeenInOrder
    <3>2. DOMAIN seen = 1..Len(seen) /\ Len(seen) \in Nat /\ \A i \in 1..Len(seen) : seen[i] \in Sights
      BY <3>1
    <3>3. \A x \in Sights : x.c \in Candidate
      BY Zenon DEF Sights
    <3>4. QED
      BY <3>2, <3>3, Zenon
  <2>3. PICK p \in 1..Len(seen) : chosen = <<seen[p].c>> /\ BestAt(p)
    BY <2>1, Zenon DEF ChosenIsBest
  <2>4. chosen[1] = seen[p].c /\ seen[p].c.name = model
    BY <2>1, <2>3, Zenon
  <2>5. at \in DOMAIN seen /\ seen[at].c = chosen[1]
    BY <2>2, <2>4, Zenon
  <2> HIDE DEF at
  <2>6. Target \in Int
    BY <2>2, <2>3 DEF AutoInv
  <2>7. at = p
    <3>1. ~Precedes(seen[p].c, seen[p].c, Target)
      BY <2>2, <2>6, PrecedesIrreflexive, Zenon
    <3>2. at \in 1..Len(seen) /\ seen[at].c = seen[p].c
      BY <2>2, <2>4, <2>5, Zenon
    <3>3. ~(at < p) /\ ~(p < at)
      BY <2>1, <3>1, <3>2, Zenon DEF SeenInOrder
    <3>4. QED
      BY <3>2, <3>3
  <2> DEFINE Closest(q) ==
               /\ seen[q].eligible
               /\ \A i \in 1..(q - 1) : Precedes(seen[i].c, seen[q].c, Target)
               /\ IF \E i \in DOMAIN seen : seen[i].healthy
                  THEN seen[q].healthy /\ \A i \in 1..(q - 1) : ~seen[i].healthy
                  ELSE \A i \in 1..(q - 1) : ~seen[i].eligible
  <2>8. Closest(p)
    <3>1. \A i \in 1..(p - 1) : Precedes(seen[i].c, seen[p].c, Target)
      BY <2>1, <2>2 DEF SeenInOrder
    <3>2. /\ seen[p].eligible
          /\ IF \E i \in DOMAIN seen : seen[i].healthy
             THEN seen[p].healthy /\ \A i \in 1..(p - 1) : ~seen[i].healthy
             ELSE \A i \in 1..(p - 1) : ~seen[i].eligible
      BY <2>2, <2>3, Zenon DEF BestAt
    <3>3. QED
      BY <3>1, <3>2, Zenon
  <2> HIDE DEF Closest
  <2>9. Closest(at)
    BY <2>7, <2>8, Zenon
  <2>10. HasVisualInput(req) => model \in marked
    BY <2>1, <2>4, Zenon DEF SeenInOrder
  <2>11. QED
    BY <2>9, <2>10, Zenon DEF at, Closest
<1>2. QED
  BY <1>1, AutoAlways, PTL

-----------------------------------------------------------------------------
(***************************************************************************)
(* The parts of a conversation.                                            *)
(***************************************************************************)

\* The paths whose files are rendered.
Rendering == req.path \in {"chat", "responses"}

\* What stands for one part of the message.
Pieces == [of : Nat, shape : {"kept", "text", "image"}]

\* The content stands for the first n parts, in their order.
Covers(n) ==
  /\ content \in Seq(Pieces)
  /\ {content[k].of : k \in DOMAIN content} = 1..n
  /\ \A k, l \in DOMAIN content : k < l => content[k].of <= content[l].of
  /\ \A k \in DOMAIN content :
       /\ content[k].shape = "kept" <=> req.parts[content[k].of].kind # "file"
       /\ content[k].shape = "image" => model \in marked

\* The content grows part by part while the files are rendered, is complete
\* when the request is routed, and complete is what leaves the router.
FilesInv ==
  /\ pc \notin {"files", "route", "select", "over"} \/ ~Rendering => content = <<>>
  /\ Rendering => \E n \in 0..Len(req.parts) : Covers(n)
  /\ Rendering /\ pc \in {"route", "select"} => Covers(Len(req.parts))
  /\ Rendering /\ (\E i \in DOMAIN sent : sent[i].to \in {"replica", "tools"}) =>
       Covers(Len(req.parts))

\* Every nonempty set of natural numbers has a least element.
LEMMA LeastNatural ==
  ASSUME NEW S \in SUBSET Nat, S # {}
  PROVE  \E m \in S : \A x \in S : m <= x
<1>1. IsWellFoundedOn(OpToRel(<, Nat), Nat)
  BY NatLessThanWellFounded, Zenon
<1>2. PICK m \in S : \A x \in S : ~(<<x, m>> \in OpToRel(<, Nat))
  BY <1>1, WFMin, Zenon
<1>3. \A x \in S : ~(x < m)
  BY <1>2, Zenon DEF OpToRel
<1>4. QED
  BY <1>3

\* What holds at 0, and at i if it does at i - 1, holds up to n.
LEMMA UpTo ==
  ASSUME NEW n \in Nat, NEW S, 0 \in S, \A i \in 1..n : i - 1 \in S => i \in S
  PROVE  \A i \in 0..n : i \in S
<1> DEFINE Wrong == {i \in 0..n : i \notin S}
<1> SUFFICES ASSUME Wrong # {} PROVE FALSE
  BY Zenon
<1>1. Wrong \in SUBSET Nat
  OBVIOUS
<1>2. PICK m \in Wrong : \A x \in Wrong : m <= x
  BY <1>1, LeastNatural, Zenon
<1>3. m \in 0..n /\ m \notin S
  BY Zenon
<1>4. m \in 1..n /\ m - 1 \in 0..n /\ ~(m <= m - 1)
  BY <1>3
<1>5. m - 1 \in S
  BY <1>2, <1>4, Zenon
<1>6. QED
  BY <1>3, <1>4, <1>5, Zenon

\* f starts at base and takes the first n steps.
Follows(f, n, base, step) ==
  f[0] = base /\ \A i \in 1..n : f[i] = step[i][f[i - 1]]

\* The steps can be taken, and stay where every step stays.
LEMMA Recursion ==
  ASSUME NEW n \in Nat, NEW D, NEW base \in D, NEW step,
         \A i \in 1..n : \A s \in D : step[i][s] \in D
  PROVE  \E f \in [0..n -> D] : Follows(f, n, base, step)
<1> DEFINE S == {m \in 0..n : \E f \in [0..m -> D] : Follows(f, m, base, step)}
<1>1. 0 \in S
  <2> DEFINE f == [i \in 0..0 |-> base]
  <2>1. f \in [0..0 -> D] /\ f[0] = base /\ 1..0 = {} /\ 0 \in 0..n
    OBVIOUS
  <2>2. QED
    BY <2>1, Zenon DEF Follows
<1>2. ASSUME NEW m \in 1..n, m - 1 \in S PROVE m \in S
  <2>1. PICK f \in [0..(m - 1) -> D] : Follows(f, m - 1, base, step)
    BY <1>2, Zenon
  <2> DEFINE g == [i \in 0..m |-> IF i = m THEN step[m][f[m - 1]] ELSE f[i]]
  <2>2. /\ m \in 0..n /\ m \in 0..m /\ m - 1 \in 0..(m - 1) /\ 0 \in 0..m /\ m # 0
        /\ \A i \in 0..m : i # m => i \in 0..(m - 1)
        /\ \A i \in 1..m : i - 1 \in 0..m /\ i - 1 # m /\ i \in 0..m
        /\ \A i \in 1..m : i # m => i \in 1..(m - 1)
    OBVIOUS
  <2>3. g \in [0..m -> D]
    <3>1. step[m][f[m - 1]] \in D
      BY <2>1, <2>2, Zenon
    <3>2. \A i \in 0..m : (IF i = m THEN step[m][f[m - 1]] ELSE f[i]) \in D
      BY <2>1, <2>2, <3>1, Zenon
    <3>3. QED
      BY <3>2, Zenon
  <2>4. g[0] = base
    BY <2>1, <2>2, Zenon DEF Follows
  <2>5. ASSUME NEW i \in 1..m PROVE g[i] = step[i][g[i - 1]]
    <3>1. g[i - 1] = f[i - 1]
      BY <2>2, Zenon
    <3>2. CASE i = m
      BY <2>2, <3>1, <3>2, Zenon
    <3>3. CASE i # m
      BY <2>1, <2>2, <3>1, <3>3, Zenon DEF Follows
    <3>4. QED
      BY <3>2, <3>3, Zenon
  <2> HIDE DEF g
  <2>6. QED
    BY <2>2, <2>3, <2>4, <2>5, Zenon DEF Follows
<1>3. \A i \in 0..n : i \in S
  <2> HIDE DEF S
  <2>1. QED
    BY <1>1, <1>2, UpTo, Zenon
<1>4. n \in 0..n
  OBVIOUS
<1>5. QED
  BY <1>3, <1>4, Zenon

\* The pieces that may stand for the i-th part: text, or page images.
RenderedPieces(i, mode) ==
  {x \in [of : {i}, shape : {"text", "image"}] : x.shape = "image" => mode = "images"}

\* A file is rendered to at least one piece, and every piece stands for it.
LEMMA RenderedIs ==
  ASSUME NEW i, NEW mode, NEW pages \in Seq(BOOLEAN)
  PROVE  Rendered(i, mode, pages) \in Seq(RenderedPieces(i, mode)) /\ Rendered(i, mode, pages) # <<>>
<1> DEFINE item(shape) == [of |-> i, shape |-> shape]
           page(p) == IF pages[p] THEN <<item("text"), item("image")>> ELSE <<item("text")>>
           R == RenderedPieces(i, mode)
           D == {s \in Seq(R) : s # <<>>}
           P(f) == f = [p \in 0..Len(pages) |-> IF p = 0 THEN <<item("text")>> ELSE f[p - 1] \o page(p)]
           c == CHOOSE f : P(f)
<1>1. Len(pages) \in Nat
  OBVIOUS
<1>2. item("text") \in R /\ (mode = "images" => item("image") \in R)
  BY Zenon DEF RenderedPieces
<1>3. <<item("text")>> \in D
  <2> HIDE DEF item, R
  <2>1. QED
    BY <1>2
<1>4. CASE mode = "images"
  <2>1. ASSUME NEW p, NEW s \in D PROVE s \o page(p) \in D
    <3> DEFINE q == page(p)
    <3>1. q \in Seq(R)
      <4> HIDE DEF item, R
      <4>1. <<item("text"), item("image")>> \in Seq(R) /\ <<item("text")>> \in Seq(R)
        BY <1>2, <1>4
      <4>2. QED
        BY <4>1, Zenon
    <3> HIDE DEF q, R
    <3>2. s \o q \in Seq(R) /\ s \o q # <<>>
      BY <3>1
    <3>3. QED
      BY <3>2, Zenon DEF q
  <2> DEFINE step == [p \in 1..Len(pages) |-> [s \in D |-> s \o page(p)]]
  <2> HIDE DEF D, item, page
  <2>2. \A p \in 1..Len(pages) : \A s \in D : step[p][s] = s \o page(p) /\ step[p][s] \in D
    BY <2>1, Zenon
  <2> HIDE DEF step
  <2>3. PICK f \in [0..Len(pages) -> D] : Follows(f, Len(pages), <<item("text")>>, step)
    BY <1>1, <1>3, <2>2, Recursion, Zenon
  <2>4. \A p \in 0..Len(pages) : p # 0 => p \in 1..Len(pages) /\ p - 1 \in 0..Len(pages)
    BY <1>1
  <2>5. \A p \in 0..Len(pages) : f[p] = IF p = 0 THEN <<item("text")>> ELSE f[p - 1] \o page(p)
    BY <2>2, <2>3, <2>4, Zenon DEF Follows
  <2>6. P(f)
    BY <2>5, Zenon
  <2>7. P(c)
    BY <2>6, Zenon
  <2>8. \A p \in 0..Len(pages) : c[p] = IF p = 0 THEN <<item("text")>> ELSE c[p - 1] \o page(p)
    <3> HIDE DEF c
    <3>1. QED
      BY <2>7, Zenon
  <2> HIDE DEF P
  <2>9. \A p \in 0..Len(pages) : c[p] \in D
    <3> DEFINE S == {p \in 0..Len(pages) : c[p] \in D}
    <3> HIDE DEF c
    <3>1. 0 \in 0..Len(pages) /\ (\A p \in 1..Len(pages) : p \in 0..Len(pages) /\ p # 0)
      BY <1>1
    <3>2. 0 \in S
      BY <1>3, <2>8, <3>1, Zenon
    <3>3. \A p \in 1..Len(pages) : p - 1 \in S => p \in S
      BY <2>1, <2>8, <3>1, Zenon
    <3> HIDE DEF S
    <3>4. \A p \in 0..Len(pages) : p \in S
      BY <1>1, <3>2, <3>3, UpTo, Zenon
    <3>5. QED
      BY <3>4, Zenon DEF S
  <2>10. c[Len(pages)] \in D
    <3> HIDE DEF c
    <3>1. Len(pages) \in 0..Len(pages)
      BY <1>1
    <3>2. QED
      BY <2>9, <3>1, Zenon
  <2>11. Rendered(i, mode, pages) = c[Len(pages)]
    BY <1>4, Zenon DEF Rendered, P, item, page
  <2> HIDE DEF c
  <2>12. QED
    BY <2>10, <2>11, Zenon DEF D
<1>5. CASE mode # "images"
  <2>1. Rendered(i, mode, pages) = <<item("text")>>
    BY <1>5, Zenon DEF Rendered
  <2>2. QED
    BY <1>3, <2>1, Zenon
<1>6. QED
  BY <1>4, <1>5, Zenon

\* The next part is the first that the content does not stand for.
LEMMA NextPartIs ==
  ASSUME NEW n \in Nat, Covers(n) PROVE NextPart = n + 1
<1>1. NextPart = 1 + Cardinality(1..n)
  <2>1. {content[k].of : k \in DOMAIN content} = 1..n
    BY Zenon DEF Covers
  <2>2. QED
    BY <2>1, Zenon DEF NextPart
<1>2. Cardinality(1..n) = IF 1 > n THEN 0 ELSE n - 1 + 1
  BY FS_Interval
<1>3. QED
  BY <1>1, <1>2

\* Content that stands for one part more.
LEMMA CoversNext ==
  ASSUME NEW n \in Nat, NEW q \in Seq(Pieces),
         Covers(n), q # <<>>, content' = content \o q, UNCHANGED <<req, model, marked>>,
         \A k \in DOMAIN q : /\ q[k].of = n + 1
                             /\ q[k].shape = "kept" <=> req.parts[n + 1].kind # "file"
                             /\ q[k].shape = "image" => model \in marked
  PROVE  Covers(n + 1)'
<1> DEFINE c == content \o q
           L == Len(content)
<1>1. content \in Seq(Pieces)
  BY Zenon DEF Covers
<1>2. c \in Seq(Pieces) /\ L \in Nat /\ Len(q) \in Nat \ {0} /\ DOMAIN c = 1..(L + Len(q))
      /\ DOMAIN content = 1..L /\ DOMAIN q = 1..Len(q)
  BY <1>1
<1>3. /\ \A k \in 1..L : c[k] = content[k]
      /\ \A k \in 1..Len(q) : c[L + k] = q[k]
  BY <1>1, <1>2
<1> HIDE DEF c
<1>4. /\ \A k \in 1..(L + Len(q)) : k \in 1..L \/ (k - L \in 1..Len(q) /\ k = L + (k - L) /\ k > L)
      /\ \A k \in 1..L : k \in 1..(L + Len(q))
      /\ L + 1 \in 1..(L + Len(q)) /\ 1 \in 1..Len(q)
  BY <1>2
<1>5. \A k \in DOMAIN c :
        \/ k \in DOMAIN content /\ c[k] = content[k]
        \/ k > L /\ k - L \in DOMAIN q /\ c[k] = q[k - L]
  BY <1>2, <1>3, <1>4, Zenon
<1>6. {c[k].of : k \in DOMAIN c} = 1..(n + 1)
  <2>1. \A x : x \in 1..(n + 1) <=> x \in 1..n \/ x = n + 1
    OBVIOUS
  <2>2. ASSUME NEW k \in DOMAIN c PROVE c[k].of \in 1..(n + 1)
    BY <1>5, <2>1, Zenon DEF Covers
  <2>3. ASSUME NEW x \in 1..n PROVE \E k \in DOMAIN c : c[k].of = x
    <3>1. PICK k \in DOMAIN content : content[k].of = x
      BY Zenon DEF Covers
    <3>2. k \in DOMAIN c /\ c[k] = content[k]
      BY <1>2, <1>3, <1>4, Zenon
    <3>3. QED
      BY <3>1, <3>2, Zenon
  <2>4. L + 1 \in DOMAIN c /\ c[L + 1].of = n + 1
    <3>1. L + 1 \in DOMAIN c /\ c[L + 1] = q[1] /\ 1 \in DOMAIN q
      BY <1>2, <1>3, <1>4, Zenon
    <3>2. QED
      BY <3>1, Zenon
  <2>5. QED
    BY <2>1, <2>2, <2>3, <2>4, Zenon
<1>7. ASSUME NEW k \in DOMAIN c, NEW l \in DOMAIN c, k < l
      PROVE  c[k].of <= c[l].of
  <2>1. CASE l \in DOMAIN content /\ c[l] = content[l]
    <3>1. k \in DOMAIN content
      BY <1>2, <1>7, <2>1
    <3>2. c[k] = content[k]
      BY <1>2, <1>3, <3>1, Zenon
    <3>3. QED
      BY <1>7, <2>1, <3>1, <3>2, Zenon DEF Covers
  <2>2. CASE l - L \in DOMAIN q /\ c[l] = q[l - L]
    <3>1. c[l].of = n + 1
      BY <2>2, Zenon
    <3>2. c[k].of \in 1..(n + 1)
      BY <1>6, Zenon
    <3>3. QED
      BY <3>1, <3>2
  <2>3. QED
    BY <1>5, <2>1, <2>2, Zenon
<1>8. ASSUME NEW k \in DOMAIN c
      PROVE  /\ c[k].shape = "kept" <=> req.parts[c[k].of].kind # "file"
             /\ c[k].shape = "image" => model \in marked
  BY <1>5, Zenon DEF Covers
<1>9. content' = c
  BY Zenon DEF c
<1>10. QED
  BY <1>2, <1>6, <1>7, <1>8, <1>9, Zenon DEF Covers

\* Nothing is sent yet where the files are rendered.
NotServed == \A i \in DOMAIN sent : sent[i].to \notin {"replica", "tools"}

\* A message to the converter or to the tokenizer serves nobody.
LEMMA StillNotServed ==
  ASSUME NEW x, x.to \notin {"replica", "tools"}, IsSequence(sent), NotServed,
         sent' = Append(sent, x)
  PROVE  NotServed'
BY Appended, Zenon DEF NotServed

\* A step that leaves the content alone.
LEMMA FilesFrame ==
  ASSUME FilesInv, UNCHANGED <<req, content>>,
         content = <<>> \/ (UNCHANGED model /\ marked \subseteq marked'),
         pc' \notin {"files", "route", "select", "over"} \/ ~Rendering => content = <<>>,
         Rendering => /\ pc' \in {"route", "select"} => Covers(Len(req.parts))
                      /\ NotServed' \/ Covers(Len(req.parts))
  PROVE  FilesInv'
<1>1. \A n : Covers(n) => Covers(n)'
  <2> SUFFICES ASSUME NEW n, Covers(n) PROVE Covers(n)'
    BY Zenon
  <2>1. CASE content = <<>>
    <3>1. DOMAIN content = {}
      BY <2>1
    <3>2. QED
      BY <3>1, Zenon DEF Covers
  <2>2. CASE UNCHANGED model /\ marked \subseteq marked'
    BY <2>2, Zenon DEF Covers
  <2>3. QED
    BY <2>1, <2>2, Zenon
<1>2. Covers(Len(req.parts)) => Covers(Len(req.parts))'
  BY <1>1, Zenon DEF Covers
<1>3. (\E n \in 0..Len(req.parts) : Covers(n)) => (\E n \in 0..Len(req.parts) : Covers(n))'
  BY <1>1, Zenon DEF Covers
<1>4. QED
  BY <1>2, <1>3, Zenon DEF FilesInv, Rendering, NotServed

\* A step that renders one part more.
LEMMA FilesGrow ==
  ASSUME NEW n \in Nat, NEW q \in Seq(Pieces),
         req \in Requests, pc = "files", pc' = "files", Rendering, NotServed', Covers(n),
         n + 1 <= Len(req.parts), UNCHANGED <<req, model, marked>>,
         q # <<>>, content' = content \o q,
         \A k \in DOMAIN q : /\ q[k].of = n + 1
                             /\ q[k].shape = "kept" <=> req.parts[n + 1].kind # "file"
                             /\ q[k].shape = "image" => model \in marked
  PROVE  FilesInv'
<1>1. Covers(n + 1)'
  BY CoversNext, Zenon
<1>2. Len(req.parts) \in Nat
  BY HandlerAssumption
<1>3. n + 1 \in 0..Len(req.parts)
  BY <1>2
<1>4. (\E m \in 0..Len(req.parts) : Covers(m))'
  BY <1>1, <1>3, Zenon DEF Covers
<1>5. QED
  BY <1>4, Zenon DEF FilesInv, Rendering, NotServed

\* The steps up to the admission, and those of an input token count.
LEMMA FilesEarly ==
  ASSUME Inv, BodyInv, FilesInv,
         \/ Refused \/ ServeStatic \/ ParseBody \/ ParseCount \/ ParseAudio \/ ParseConvert
         \/ ParseRealtime \/ Metadata \/ RankCandidates \/ CheckCandidate \/ ChooseModel
         \/ KnownModel \/ Lookup \/ Admit \/ Tokenize \/ CountTokens
  PROVE  FilesInv'
<1>1. UNCHANGED <<req, content>> /\ pc \notin {"files", "route", "select", "over"}
  BY Zenon DEF Refused, ServeStatic, ParseBody, ParseCount, ParseAudio, ParseConvert, Arrived,
     ParseRealtime, Metadata, AwaitsOrg, RankCandidates, CheckCandidate, ChooseModel,
     KnownModel, Lookup, Admit, Tokenize, CountTokens
<1>2. content = <<>>
  BY <1>1, Zenon DEF FilesInv
<1>3. Rendering => pc' \notin {"route", "select"}
  <2>1. CASE Refused \/ ServeStatic \/ ParseBody \/ ParseCount \/ RankCandidates
             \/ CheckCandidate \/ ChooseModel \/ Tokenize \/ CountTokens
    BY <2>1, Zenon DEF Refused, ServeStatic, ParseBody, ParseCount, RankCandidates, CheckCandidate,
       ChooseModel, Tokenize, CountTokens, Reply
  <2>2. CASE ParseAudio \/ ParseConvert \/ ParseRealtime
    BY <2>2, Zenon DEF ParseAudio, ParseConvert, ParseRealtime, Arrived, Rendering
  <2>3. CASE KnownModel \/ Lookup \/ Metadata
    BY <1>1, <2>3, Zenon DEF KnownModel, UnknownModel, Lookup, Metadata, Reply
  <2>4. CASE Admit
    <3>1. Rendering => req.path \in OpenAIPaths /\ req.path # "speech"
      BY Zenon DEF Rendering, OpenAIPaths
    <3>2. QED
      BY <2>4, <3>1, Zenon DEF Admit
  <2>5. QED
    BY <2>1, <2>2, <2>3, <2>4, Zenon
<1>4. NotServed /\ IsSequence(sent)
  BY <1>1, Zenon DEF BodyInv, NotServed
<1>5. NotServed'
  <2>1. CASE CountTokens
    <3>1. CASE UNCHANGED sent
      BY <1>4, <3>1, Zenon DEF NotServed
    <3>2. CASE \E org \in OrgFor : Dispatch("tokenizer", org)
      <4>1. PICK x : x.to = "tokenizer" /\ sent' = Append(sent, x)
        <5>1. PICK org \in OrgFor : Dispatch("tokenizer", org)
          BY <3>2, Zenon
        <5> DEFINE x == [to |-> "tokenizer", model |-> model, org |-> org, body |-> body']
        <5>2. sent' = Append(sent, x) /\ x.to = "tokenizer"
          BY <5>1, Zenon DEF Dispatch
        <5>3. QED
          BY <5>2, Zenon
      <4>2. QED
        BY <1>4, <4>1, StillNotServed, Zenon
    <3>3. QED
      BY <2>1, <3>1, <3>2, Zenon DEF CountTokens
  <2>2. CASE ~CountTokens
    <3>1. UNCHANGED sent
      BY <2>2, Zenon DEF Refused, ServeStatic, ParseBody, ParseCount, ParseAudio, ParseConvert,
         ParseRealtime, Metadata, RankCandidates, CheckCandidate, ChooseModel, KnownModel,
         Lookup, Admit, Tokenize
    <3>2. QED
      BY <1>4, <3>1, Zenon DEF NotServed
  <2>3. QED
    BY <2>1, <2>2, Zenon
<1>6. QED
  BY <1>1, <1>2, <1>3, <1>5, FilesFrame, Zenon

\* The route and the handover: the content is complete.
LEMMA FilesRouted ==
  ASSUME BodyInv, FilesInv, Route \/ ServeModel
  PROVE  FilesInv'
<1>1. UNCHANGED <<req, content, model, marked>> /\ pc \in {"route", "select"}
  BY Zenon DEF Route, ServeModel, envVars
<1>2. Rendering => Covers(Len(req.parts))
  BY <1>1, Zenon DEF FilesInv
<1>3. Rendering => pc' \in {"select", "over"}
  <2>1. CASE Route
    <3>1. Rendering => admission # <<>>
      BY <1>1, Zenon DEF BodyInv, OpenAI, Rendering, OpenAIPaths
    <3>2. pc' = "over" \/ pc' = IF admission = <<>> THEN "admit" ELSE "select"
      BY <2>1, Zenon DEF Route, UnknownModel, Reply
    <3>3. QED
      BY <3>1, <3>2, Zenon
  <2>2. CASE ServeModel
    BY <2>2, Zenon DEF ServeModel, Reply
  <2>3. QED
    BY <2>1, <2>2, Zenon
<1>4. ~Rendering => content = <<>>
  BY Zenon DEF FilesInv
<1>5. marked \subseteq marked'
  BY <1>1, Zenon
<1>6. QED
  BY <1>1, <1>2, <1>3, <1>4, <1>5, FilesFrame, Zenon

\* The body is finished once every part is rendered.
LEMMA FilesFinished ==
  ASSUME BodyInv, FilesInv, FinishBody
  PROVE  FilesInv'
<1>1. /\ UNCHANGED <<req, content, model, marked>> /\ pc = "files"
      /\ Rendering => NextPart > Len(req.parts)
      /\ pc' \in {"route", "over"}
  BY Zenon DEF FinishBody, envVars, Reply, Rendering
<1>2. ASSUME Rendering PROVE Covers(Len(req.parts))
  <2>1. PICK n \in 0..Len(req.parts) : Covers(n)
    BY <1>2, Zenon DEF FilesInv
  <2>2. Len(req.parts) \in Nat
    <3>1. req.parts \in Seq(Part)
      BY HandlerAssumption, Zenon DEF BodyInv
    <3>2. QED
      BY <3>1
  <2>3. n \in Nat
    BY <2>2
  <2>4. NextPart = n + 1
    BY <2>1, <2>3, NextPartIs, Zenon
  <2>5. n + 1 > Len(req.parts)
    BY <1>1, <1>2, <2>4, Zenon
  <2>6. n = Len(req.parts)
    BY <2>2, <2>5
  <2>7. QED
    BY <2>1, <2>6, Zenon
<1>3. ~Rendering => content = <<>>
  BY Zenon DEF FilesInv
<1>4. marked \subseteq marked'
  BY <1>1, Zenon
<1>5. QED
  BY <1>1, <1>2, <1>3, <1>4, FilesFrame, Zenon

\* A rendered file, and the mode it was rendered in.
LEMMA FilesRender ==
  ASSUME NEW n \in Nat, NEW mode, NEW pages \in Seq(BOOLEAN),
         req \in Requests, pc = "files", pc' = "files", Rendering, NotServed', Covers(n),
         n + 1 <= Len(req.parts), UNCHANGED <<req, model, marked>>,
         req.parts[n + 1].kind = "file",
         ResolveFileMode(req.parts[n + 1], model \in marked) = <<mode>>,
         content' = content \o Rendered(n + 1, mode, pages)
  PROVE  FilesInv'
<1> DEFINE q == Rendered(n + 1, mode, pages)
<1>1. q \in Seq(RenderedPieces(n + 1, mode)) /\ q # <<>>
  BY RenderedIs, Zenon
<1>2. mode = "images" => model \in marked
  <2> DEFINE part == req.parts[n + 1]
             over == readTinfoilModeOverride(part)[1]
  <2>1. <<mode>> = CASE isInlineTextFile(part) -> <<"inline">>
                     [] ~isInlineTextFile(part) /\ over # "" ->
                          IF over = "images" /\ ~(model \in marked) THEN <<>> ELSE <<over>>
                     [] OTHER -> IF model \in marked THEN <<"images">> ELSE <<"text">>
    BY Zenon DEF ResolveFileMode
  <2> HIDE DEF part, over
  <2>2. QED
    BY <2>1
<1>3. \A x \in RenderedPieces(n + 1, mode) :
        x \in Pieces /\ x.of = n + 1 /\ x.shape # "kept" /\ (x.shape = "image" => mode = "images")
  <2>1. n + 1 \in Nat
    OBVIOUS
  <2>2. [of : {n + 1}, shape : {"text", "image"}] \subseteq Pieces
    BY <2>1 DEF Pieces
  <2>3. \A x \in [of : {n + 1}, shape : {"text", "image"}] : x.of = n + 1 /\ x.shape # "kept"
    BY Zenon
  <2>4. QED
    BY <2>2, <2>3, Zenon DEF RenderedPieces
<1> HIDE DEF q
<1>4. q \in Seq(Pieces) /\ \A k \in DOMAIN q : q[k] \in RenderedPieces(n + 1, mode)
  BY <1>1, <1>3
<1>5. \A k \in DOMAIN q : /\ q[k].of = n + 1
                          /\ q[k].shape = "kept" <=> req.parts[n + 1].kind # "file"
                          /\ q[k].shape = "image" => model \in marked
  BY <1>2, <1>3, <1>4, Zenon
<1>6. content' = content \o q
  BY Zenon DEF q
<1>7. QED
  BY <1>1, <1>4, <1>5, <1>6, FilesGrow, Zenon

\* The part that is looked at.
LEMMA FilesPart ==
  ASSUME BodyInv, FilesInv, KeepPart \/ ConvertFile
  PROVE  /\ Rendering /\ pc = "files" /\ UNCHANGED <<req, model, marked>> /\ NotServed
         /\ \E n \in Nat : Covers(n) /\ NextPart = n + 1 /\ n + 1 <= Len(req.parts)
<1>1. /\ Rendering /\ pc = "files" /\ UNCHANGED <<req, model, marked>>
      /\ NextPart <= Len(req.parts)
  BY Zenon DEF KeepPart, ConvertFile, Rendering, envVars
<1>2. PICK n \in 0..Len(req.parts) : Covers(n)
  BY <1>1, Zenon DEF FilesInv
<1>3. n \in Nat
  BY <1>2
<1>4. NextPart = n + 1
  BY <1>2, <1>3, NextPartIs, Zenon
<1>5. NotServed
  BY <1>1, Zenon DEF BodyInv, NotServed
<1>6. QED
  BY <1>1, <1>2, <1>3, <1>4, <1>5, Zenon

\* A part that is no file, or a file that is text.
LEMMA FilesKept ==
  ASSUME BodyInv, FilesInv, KeepPart
  PROVE  FilesInv'
<1>1. /\ Rendering /\ pc = "files" /\ UNCHANGED <<req, model, marked>> /\ NotServed
      /\ \E n \in Nat : Covers(n) /\ NextPart = n + 1 /\ n + 1 <= Len(req.parts)
  BY FilesPart, Zenon
<1>2. PICK n \in Nat : Covers(n) /\ NextPart = n + 1 /\ n + 1 <= Len(req.parts)
  BY <1>1, Zenon
<1> DEFINE part == req.parts[n + 1]
           mode == ResolveFileMode(part, model \in marked)
<1>3. NotServed' /\ req \in Requests
  BY <1>1, Zenon DEF KeepPart, NotServed, BodyInv
<1>4. \/ /\ part.kind # "file" /\ pc' = pc
         /\ content' = Append(content, [of |-> n + 1, shape |-> "kept"])
      \/ pc' = "over" /\ UNCHANGED content
      \/ /\ part.kind = "file" /\ mode = <<"inline">> /\ pc' = pc
         /\ content' = content \o Rendered(n + 1, "inline", <<>>)
  BY <1>2, Zenon DEF KeepPart, Reply
<1>5. CASE part.kind # "file" /\ pc' = pc /\ content' = Append(content, [of |-> n + 1, shape |-> "kept"])
  <2> DEFINE x == [of |-> n + 1, shape |-> "kept"]
             q == <<x>>
  <2>1. n + 1 \in Nat
    OBVIOUS
  <2>2. x \in Pieces /\ x.of = n + 1 /\ x.shape = "kept"
    BY <2>1, Zenon DEF Pieces
  <2> HIDE DEF x
  <2>3. q \in Seq(Pieces) /\ q # <<>> /\ \A k \in DOMAIN q : q[k] = x
    BY <2>2
  <2>4. content \in Seq(Pieces)
    BY <1>2, Zenon DEF Covers
  <2>5. Append(content, x) = content \o q
    BY <2>2, <2>4
  <2>6. content' = content \o q
    BY <1>5, <2>5, Zenon DEF x
  <2> HIDE DEF q
  <2>7. \A k \in DOMAIN q : /\ q[k].of = n + 1
                            /\ q[k].shape = "kept" <=> req.parts[n + 1].kind # "file"
                            /\ q[k].shape = "image" => model \in marked
    BY <1>5, <2>2, <2>3, Zenon
  <2>8. pc' = "files"
    BY <1>1, <1>5, Zenon
  <2>9. QED
    BY <1>1, <1>2, <1>3, <2>3, <2>6, <2>7, <2>8, FilesGrow, Zenon
<1>6. CASE pc' = "over" /\ UNCHANGED content
  BY <1>1, <1>3, <1>6, FilesFrame, Zenon
<1>7. CASE /\ part.kind = "file" /\ mode = <<"inline">> /\ pc' = pc
           /\ content' = content \o Rendered(n + 1, "inline", <<>>)
  <2>1. <<>> \in Seq(BOOLEAN)
    OBVIOUS
  <2>2. pc' = "files"
    BY <1>1, <1>7, Zenon
  <2>3. QED
    BY <1>1, <1>2, <1>3, <1>7, <2>1, <2>2, FilesRender, Zenon
<1>8. QED
  BY <1>4, <1>5, <1>6, <1>7, Zenon

\* A file the converter reads.
LEMMA FilesConverted ==
  ASSUME BodyInv, FilesInv, ConvertFile
  PROVE  FilesInv'
<1>1. /\ Rendering /\ pc = "files" /\ UNCHANGED <<req, model, marked>> /\ NotServed
      /\ \E n \in Nat : Covers(n) /\ NextPart = n + 1 /\ n + 1 <= Len(req.parts)
  BY FilesPart, Zenon
<1>2. PICK n \in Nat : Covers(n) /\ NextPart = n + 1 /\ n + 1 <= Len(req.parts)
  BY <1>1, Zenon
<1> DEFINE part == req.parts[n + 1]
           mode == ResolveFileMode(part, model \in marked)
<1>3. NotServed' /\ req \in Requests
  <2>1. CASE UNCHANGED sent
    BY <1>1, <2>1, Zenon DEF NotServed, BodyInv
  <2>2. CASE ~UNCHANGED sent
    <3> DEFINE x == [to |-> "doc", model |-> DocUpload, org |-> admission[1].org, body |-> body]
    <3>1. sent' = Append(sent, x)
      BY <2>2, Zenon DEF ConvertFile
    <3>2. x.to \notin {"replica", "tools"}
      BY Zenon
    <3>3. IsSequence(sent) /\ req \in Requests
      BY Zenon DEF BodyInv
    <3> HIDE DEF x
    <3>4. QED
      BY <1>1, <3>1, <3>2, <3>3, StillNotServed, Zenon
  <2>3. QED
    BY <2>1, <2>2, Zenon
<1>4. /\ part.kind = "file" /\ mode \notin {<<>>, <<"inline">>}
      /\ \/ pc' = "over" /\ UNCHANGED content
         \/ \E doc \in Conversions :
              pc' = pc /\ content' = content \o Rendered(n + 1, mode[1], doc.pages)
  BY <1>2, Zenon DEF ConvertFile, Reply
<1>5. CASE pc' = "over" /\ UNCHANGED content
  BY <1>1, <1>3, <1>5, FilesFrame, Zenon
<1>6. CASE \E doc \in Conversions :
              pc' = pc /\ content' = content \o Rendered(n + 1, mode[1], doc.pages)
  <2>1. PICK doc \in Conversions :
              pc' = pc /\ content' = content \o Rendered(n + 1, mode[1], doc.pages)
    BY <1>6, Zenon
  <2>2. doc.pages \in Seq(BOOLEAN)
    BY HandlerAssumption, Zenon
  <2>3. mode = <<mode[1]>>
    <3> DEFINE over == readTinfoilModeOverride(part)[1]
    <3>1. mode = CASE isInlineTextFile(part) -> <<"inline">>
                   [] ~isInlineTextFile(part) /\ over # "" ->
                        IF over = "images" /\ ~(model \in marked) THEN <<>> ELSE <<over>>
                   [] OTHER -> IF model \in marked THEN <<"images">> ELSE <<"text">>
      BY Zenon DEF ResolveFileMode
    <3> HIDE DEF part, over, mode
    <3>2. \A y : <<y>>[1] = y
      OBVIOUS
    <3>3. mode = <<"inline">> \/ mode = <<>> \/ mode = <<over>> \/ mode = <<"images">> \/ mode = <<"text">>
      BY <3>1
    <3>4. QED
      BY <1>4, <3>2, <3>3, Zenon
  <2>4. pc' = "files"
    BY <1>1, <2>1, Zenon
  <2>5. content' = content \o Rendered(n + 1, mode[1], doc.pages)
    BY <2>1, Zenon
  <2>6. ResolveFileMode(req.parts[n + 1], model \in marked) = <<mode[1]>>
    BY <2>3, Zenon
  <2> HIDE DEF mode
  <2>7. QED
    BY <1>1, <1>2, <1>3, <1>4, <2>2, <2>4, <2>5, <2>6, FilesRender, Zenon
<1>7. QED
  BY <1>4, <1>5, <1>6, Zenon

\* Every step keeps the invariant of the content.
LEMMA FilesStep == Inv /\ BodyInv /\ FilesInv /\ [Next]_vars => FilesInv'
<1> SUFFICES ASSUME Inv, BodyInv, FilesInv, [Next]_vars PROVE FilesInv'
  BY Zenon
<1>1. CASE Environment \/ UNCHANGED vars
  <2>1. UNCHANGED <<req, content, model, pc, sent>>
    BY <1>1, Zenon DEF Environment, ReportSent, Reload, StartRefresh, MarkMultimodal,
       StoreIntelligence, vars, handlerVars
  <2>2. marked \subseteq marked'
    BY <1>1, Zenon DEF Environment, ReportSent, Reload, StartRefresh, MarkMultimodal,
       StoreIntelligence, vars, envVars
  <2>3. NotServed' \/ ~NotServed
    BY <2>1, Zenon DEF NotServed
  <2>4. Rendering => NotServed \/ Covers(Len(req.parts))
    BY Zenon DEF FilesInv, NotServed
  <2>5. /\ pc \notin {"files", "route", "select", "over"} \/ ~Rendering => content = <<>>
        /\ Rendering /\ pc \in {"route", "select"} => Covers(Len(req.parts))
    BY Zenon DEF FilesInv
  <2>6. QED
    BY <2>1, <2>2, <2>3, <2>4, <2>5, FilesFrame, Zenon
<1>2. CASE Handler
  BY <1>2, FilesEarly, FilesRouted, FilesFinished, FilesKept, FilesConverted, Zenon DEF Handler
<1>3. QED
  BY <1>1, <1>2, Zenon DEF Next

\* The files of the conversation, for every request.
LEMMA FilesAlways == Spec => []FilesRendered
<1>1. Init => FilesInv
  <2> SUFFICES ASSUME Init PROVE FilesInv
    BY Zenon
  <2>1. content = <<>> /\ sent = <<>> /\ pc = "arrive" /\ req \in Requests
    BY Zenon DEF Init
  <2>2. DOMAIN content = {} /\ DOMAIN sent = {} /\ content \in Seq(Pieces) /\ 1..0 = {}
    BY <2>1
  <2>3. Covers(0)
    BY <2>2, Zenon DEF Covers
  <2>4. 0 \in 0..Len(req.parts)
    <3>1. req.parts \in Seq(Part)
      BY <2>1, HandlerAssumption, Zenon
    <3>2. QED
      BY <3>1
  <2>5. QED
    BY <2>1, <2>2, <2>3, <2>4, Zenon DEF FilesInv
<1>2. BodyInv /\ FilesInv => FilesRendered
  <2> SUFFICES ASSUME BodyInv, FilesInv PROVE FilesRendered
    BY Zenon
  <2>1. req.parts \in Seq(Part)
    BY HandlerAssumption, Zenon DEF BodyInv
  <2>2. DOMAIN req.parts = 1..Len(req.parts)
    BY <2>1
  <2>3. QED
    BY <2>2, Zenon DEF FilesInv, FilesRendered, Covers, Rendering
<1>3. QED
  BY <1>1, <1>2, FilesStep, BodyInit, BodyStep, InvInit, InvStep, PTL DEF Spec

-----------------------------------------------------------------------------
(***************************************************************************)
(* The conversation whose tokens are counted.                              *)
(***************************************************************************)

\* Messages, given the roles and what they may say.
Messages(R, I) == [role : R, content : Seq(I), calls : Seq(I)]

\* f tells what the first messages say.
Tells(f, M, I) ==
  /\ f[0] = <<>> /\ \A i \in 0..Len(M) : f[i] \in Seq(I)
  /\ \A i \in 1..Len(M) : f[i] = f[i - 1] \o M[i].content \o M[i].calls

\* Said tells what all of them say.
LEMMA SaidTells ==
  ASSUME NEW R, NEW I, NEW M \in Seq(Messages(R, I))
  PROVE  \E f : Tells(f, M, I) /\ Said(M) = f[Len(M)]
<1> DEFINE D == Seq(I)
           n == Len(M)
           P(f) == f = [i \in 0..Len(M) |->
                          IF i = 0 THEN <<>> ELSE f[i - 1] \o M[i].content \o M[i].calls]
           c == CHOOSE f : P(f)
           step == [i \in 1..n |-> [s \in D |-> s \o M[i].content \o M[i].calls]]
<1>1. n \in Nat /\ <<>> \in D
  OBVIOUS
<1>2. \A i \in 1..n : M[i] \in Messages(R, I)
  OBVIOUS
<1>3. \A i \in 1..n : M[i].content \in D /\ M[i].calls \in D
  <2> HIDE DEF D
  <2>1. QED
    BY <1>2, Zenon DEF Messages, D
<1>4. \A s, a, b \in D : s \o a \o b \in D
  OBVIOUS
<1> HIDE DEF n, D
<1>5. \A i \in 1..n : \A s \in D : step[i][s] = s \o M[i].content \o M[i].calls /\ step[i][s] \in D
  BY <1>3, <1>4, Zenon
<1> HIDE DEF step
<1>6. PICK f \in [0..n -> D] : Follows(f, n, <<>>, step)
  BY <1>1, <1>5, Recursion, Zenon
<1>7. /\ 0 \in 0..n /\ n \in 0..n
      /\ \A i \in 0..n : i # 0 => i \in 1..n /\ i - 1 \in 0..n
      /\ \A i \in 1..n : i \in 0..n /\ i # 0
  BY <1>1
<1>8. \A i \in 0..n : f[i] = IF i = 0 THEN <<>> ELSE f[i - 1] \o M[i].content \o M[i].calls
  BY <1>5, <1>6, <1>7, Zenon DEF Follows
<1>9. P(f)
  BY <1>6, <1>8, Zenon DEF n
<1>10. P(c)
  BY <1>9, Zenon
<1>11. Said(M) = c[n]
  BY Zenon DEF Said, n
<1> HIDE DEF c
<1>12. \A i \in 0..n : c[i] = IF i = 0 THEN <<>> ELSE c[i - 1] \o M[i].content \o M[i].calls
  BY <1>10, Zenon DEF n
<1>13. \A i \in 0..n : c[i] \in D
  <2> DEFINE S == {i \in 0..n : c[i] \in D}
  <2>1. 0 \in S
    BY <1>1, <1>7, <1>12, Zenon
  <2>2. ASSUME NEW i \in 1..n, i - 1 \in S PROVE i \in S
    <3>1. c[i - 1] \in D /\ i \in 0..n /\ i # 0
      BY <1>7, <2>2, Zenon
    <3>2. c[i] = c[i - 1] \o M[i].content \o M[i].calls
      BY <1>12, <3>1, Zenon
    <3>3. M[i].content \in D /\ M[i].calls \in D
      BY <1>3, Zenon
    <3>4. c[i - 1] \o M[i].content \o M[i].calls \in D
      BY <1>4, <3>1, <3>3, Zenon
    <3>5. QED
      BY <3>1, <3>2, <3>4, Zenon
  <2> HIDE DEF S
  <2>3. \A i \in 0..n : i \in S
    BY <1>1, <2>1, <2>2, UpTo, Zenon
  <2>4. QED
    BY <2>3, Zenon DEF S
<1>14. c[0] = <<>> /\ \A i \in 1..n : c[i] = c[i - 1] \o M[i].content \o M[i].calls
  BY <1>7, <1>12, Zenon
<1>15. Tells(c, M, I)
  BY <1>13, <1>14, Zenon DEF Tells, n, D
<1>16. QED
  BY <1>11, <1>15, Zenon DEF n

\* The first n messages are the same,
Agree(M, N, n) ==
  /\ n \in Nat /\ Len(M) \in Nat /\ Len(N) \in Nat /\ n <= Len(M) /\ n <= Len(N)
  /\ \A i \in 1..n : M[i] = N[i]

\* f and g tell the same of them,
SameAt(f, g, n) == f[n] = g[n]

\* as they do when they tell what these messages say.
LEMMA TellsAgree ==
  ASSUME NEW I, NEW M, NEW N, NEW n, NEW f, NEW g,
         Tells(f, M, I), Tells(g, N, I), Agree(M, N, n)
  PROVE  SameAt(f, g, n)
<1> DEFINE S == {i \in 0..n : f[i] = g[i]}
<1>1. /\ \A i \in 1..n : i \in 1..Len(M) /\ i \in 1..Len(N) /\ i \in 0..n
      /\ 0 \in 0..n /\ n \in 0..n /\ n \in Nat
  BY DEF Agree
<1>2. 0 \in S
  BY <1>1, Zenon DEF Tells
<1>3. \A i \in 1..n : i - 1 \in S => i \in S
  BY <1>1, Zenon DEF Tells, Agree
<1> HIDE DEF S
<1>4. \A i \in 0..n : i \in S
  BY <1>1, <1>2, <1>3, UpTo, Zenon
<1>5. QED
  BY <1>1, <1>4, Zenon DEF S, SameAt

\* x is said after the messages M,
SaidAfter(M, x, I) ==
  /\ Said(M) \in Seq(I)
  /\ Said(Append(M, x)) = Said(M) \o x.content \o x.calls

\* as a new message is.
LEMMA SaidNew ==
  ASSUME NEW R, NEW I, NEW M \in Seq(Messages(R, I)), NEW x \in Messages(R, I)
  PROVE  SaidAfter(M, x, I)
<1> SUFFICES ASSUME NEW N, N = Append(M, x), NEW n, n = Len(M)
             PROVE  Said(M) \in Seq(I) /\ Said(N) = Said(M) \o x.content \o x.calls
  BY Zenon DEF SaidAfter
<1>1. /\ N \in Seq(Messages(R, I)) /\ n \in Nat /\ Len(N) = n + 1 /\ N[n + 1] = x
      /\ \A i \in 1..n : M[i] = N[i]
  OBVIOUS
<1>2. PICK f : Tells(f, M, I) /\ Said(M) = f[n]
  BY SaidTells, Zenon
<1>3. PICK g : Tells(g, N, I) /\ Said(N) = g[n + 1]
  BY <1>1, SaidTells, Zenon
<1>4. n \in 0..n /\ n + 1 \in 1..(n + 1) /\ (n + 1) - 1 = n /\ n <= n /\ n <= n + 1 /\ n + 1 \in Nat
  BY <1>1
<1>5. f[n] = g[n]
  <2>1. Len(M) = n /\ Len(N) = n + 1
    BY <1>1, Zenon
  <2>2. Agree(M, N, n)
    BY <1>1, <1>4, <2>1, Zenon DEF Agree
  <2>3. Tells(f, M, I) /\ Tells(g, N, I)
    BY <1>2, <1>3, Zenon
  <2>4. SameAt(f, g, n)
    BY <2>2, <2>3, TellsAgree, Zenon
  <2>5. QED
    BY <2>4, Zenon DEF SameAt
<1>6. g[n + 1] = g[n] \o x.content \o x.calls
  <2>1. \A i \in 1..Len(N) : g[i] = g[i - 1] \o N[i].content \o N[i].calls
    BY <1>3, Zenon DEF Tells
  <2>2. g[n + 1] = g[(n + 1) - 1] \o N[n + 1].content \o N[n + 1].calls
    <3>1. n + 1 \in 1..Len(N)
      BY <1>1
    <3>2. QED
      BY <2>1, <3>1, Zenon
  <2>3. QED
    BY <1>1, <1>4, <2>2, Zenon
<1>7. f[n] \in Seq(I)
  BY <1>2, <1>4, Zenon DEF Tells
<1>8. QED
  BY <1>2, <1>3, <1>5, <1>6, <1>7, Zenon
\* N says id after what M says,
SaidPlus(N, M, id) == Said(N) = Append(Said(M), id)

\* as it does with one call more in its last message.
LEMMA SaidMore ==
  ASSUME NEW R, NEW I, NEW M \in Seq(Messages(R, I)), M # <<>>, NEW id \in I,
         NEW N \in Seq(Messages(R, I)), NEW n \in Nat, n + 1 = Len(M), Len(N) = n + 1,
         \A i \in 1..n : M[i] = N[i],
         N[n + 1].content = M[n + 1].content, N[n + 1].calls = Append(M[n + 1].calls, id)
  PROVE  SaidPlus(N, M, id)
<1>1. PICK f : Tells(f, M, I) /\ Said(M) = f[n + 1]
  BY SaidTells, Zenon
<1>2. PICK g : Tells(g, N, I) /\ Said(N) = g[n + 1]
  BY SaidTells, Zenon
<1>3. f[n] = g[n]
  <2>1. Agree(M, N, n)
    BY DEF Agree
  <2>2. Tells(f, M, I) /\ Tells(g, N, I)
    BY <1>1, <1>2, Zenon
  <2>3. SameAt(f, g, n)
    BY <2>1, <2>2, TellsAgree, Zenon
  <2>4. QED
    BY <2>3, Zenon DEF SameAt
<1>4. n \in 0..(n + 1) /\ n + 1 \in 1..(n + 1) /\ (n + 1) - 1 = n
  OBVIOUS
<1>5. f[n + 1] = f[n] \o M[n + 1].content \o M[n + 1].calls /\ f[n] \in Seq(I)
  <2>1. \A i \in 1..(n + 1) : f[i] = f[i - 1] \o M[i].content \o M[i].calls
    BY <1>1, Zenon DEF Tells
  <2>2. f[n + 1] = f[(n + 1) - 1] \o M[n + 1].content \o M[n + 1].calls
    BY <1>4, <2>1, Zenon
  <2>3. f[n] \in Seq(I)
    BY <1>1, <1>4, Zenon DEF Tells
  <2>4. QED
    BY <1>4, <2>2, <2>3, Zenon
<1>6. g[n + 1] = g[n] \o N[n + 1].content \o N[n + 1].calls
  <2>1. \A i \in 1..(n + 1) : g[i] = g[i - 1] \o N[i].content \o N[i].calls
    BY <1>2, Zenon DEF Tells
  <2>2. g[n + 1] = g[(n + 1) - 1] \o N[n + 1].content \o N[n + 1].calls
    BY <1>4, <2>1, Zenon
  <2>3. QED
    BY <1>4, <2>2, Zenon
<1>7. M[n + 1].content \in Seq(I) /\ M[n + 1].calls \in Seq(I)
  <2>1. M[n + 1] \in Messages(R, I)
    OBVIOUS
  <2>2. QED
    BY <2>1, Zenon DEF Messages
<1>8. \A s, c \in Seq(I) : s \o Append(c, id) = Append(s \o c, id)
  OBVIOUS
<1>9. f[n] \o M[n + 1].content \in Seq(I)
  <2>1. \A s, c \in Seq(I) : s \o c \in Seq(I)
    OBVIOUS
  <2>2. QED
    BY <1>5, <1>7, <2>1, Zenon
<1>10. (f[n] \o M[n + 1].content) \o Append(M[n + 1].calls, id)
         = Append((f[n] \o M[n + 1].content) \o M[n + 1].calls, id)
  BY <1>7, <1>8, <1>9, Zenon
<1>11. g[n + 1] = (f[n] \o M[n + 1].content) \o Append(M[n + 1].calls, id)
  BY <1>3, <1>6, Zenon
<1>12. QED
  BY <1>1, <1>2, <1>5, <1>10, <1>11, Zenon DEF SaidPlus

\* How the items a conversation says join.
LEMMA JoinedInTurn ==
  ASSUME NEW I
  PROVE  /\ \A s, a, b \in Seq(I) : (s \o a) \o b = s \o (a \o b)
         /\ \A s \in Seq(I) : \A id : s \o <<id>> = Append(s, id)
OBVIOUS

\* Messages whose calls stand alone, never two of them in a row.
Alone(m) == m.calls # <<>> => m.role = "assistant" /\ m.content = <<>>
Conversations(R, I) ==
  {M \in Seq(Messages(R, I)) :
     /\ \A k \in DOMAIN M : Alone(M[k])
     /\ \A k \in 1..(Len(M) - 1) : M[k].calls = <<>> \/ M[k + 1].calls = <<>>}

\* N is such a conversation and says id after what M says,
Says(N, M, id, R, I) == N \in Conversations(R, I) /\ SaidPlus(N, M, id)

\* as it does with a message more: no call, or a call after none.
LEMMA MessageAppended ==
  ASSUME NEW R, NEW I, NEW M \in Conversations(R, I), NEW x \in Messages(R, I), NEW id,
         Alone(x), x.content \o x.calls = <<id>>,
         x.calls = <<>> \/ M = <<>> \/ M[Len(M)].calls = <<>>
  PROVE  Says(Append(M, x), M, id, R, I)
<1>1. /\ M \in Seq(Messages(R, I)) /\ \A k \in DOMAIN M : Alone(M[k])
      /\ \A k \in 1..(Len(M) - 1) : M[k].calls = <<>> \/ M[k + 1].calls = <<>>
  BY Zenon DEF Conversations
<1>0. Said(M) \in Seq(I) /\ Said(Append(M, x)) = Said(M) \o x.content \o x.calls
  <2>1. M \in Seq(Messages(R, I))
    BY <1>1, Zenon
  <2>2. SaidAfter(M, x, I)
    BY <2>1, SaidNew, Zenon
  <2>3. QED
    BY <2>2, Zenon DEF SaidAfter
<1> SUFFICES ASSUME NEW N, N = Append(M, x), NEW n, n = Len(M)
             PROVE  N \in Conversations(R, I) /\ Said(N) = Append(Said(M), id)
  BY Zenon DEF Says, SaidPlus
<1>2. /\ N \in Seq(Messages(R, I)) /\ n \in Nat /\ Len(N) = n + 1 /\ N[n + 1] = x
      /\ \A i \in 1..n : M[i] = N[i]
      /\ DOMAIN M = 1..n /\ DOMAIN N = 1..(n + 1) /\ (M = <<>> => n = 0)
  BY <1>1
<1>3. /\ \A k \in 1..(n + 1) : k \in 1..n \/ k = n + 1
      /\ \A k \in 1..((n + 1) - 1) : k \in 1..n
      /\ \A k \in 1..n : (k \in 1..(n - 1) /\ k + 1 \in 1..n) \/ k = n
      /\ n = 0 => 1..n = {}
  BY <1>2
<1>4. \A k \in DOMAIN N : Alone(N[k])
  BY <1>1, <1>2, <1>3, Zenon
<1>5. ASSUME NEW k \in 1..(Len(N) - 1) PROVE N[k].calls = <<>> \/ N[k + 1].calls = <<>>
  <2>1. k \in 1..n /\ N[k] = M[k]
    BY <1>2, <1>3, Zenon
  <2>2. CASE k \in 1..(n - 1) /\ k + 1 \in 1..n
    <3>1. M[k].calls = <<>> \/ M[k + 1].calls = <<>>
      BY <1>1, <2>2, Zenon
    <3>2. N[k + 1] = M[k + 1]
      BY <1>2, <2>2, Zenon
    <3>3. QED
      BY <2>1, <3>1, <3>2, Zenon
  <2>3. CASE k = n
    <3>1. N[k + 1] = x /\ M # <<>>
      BY <1>2, <1>3, <2>1, <2>3, Zenon
    <3>2. QED
      BY <2>1, <2>3, <3>1, Zenon
  <2>4. QED
    BY <1>3, <2>1, <2>2, <2>3, Zenon
<1>6. Said(M) \in Seq(I) /\ Said(N) = Said(M) \o x.content \o x.calls
  BY <1>0, Zenon
<1>7. x.content \in Seq(I) /\ x.calls \in Seq(I)
  BY Zenon DEF Messages
<1>8. /\ \A s, a, b \in Seq(I) : (s \o a) \o b = s \o (a \o b)
      /\ \A s \in Seq(I) : \A v : s \o <<v>> = Append(s, v)
  BY JoinedInTurn, Zenon
<1>9. \A s \in Seq(I) : s \o <<id>> = Append(s, id)
  BY <1>8, Zenon
<1>10. Said(N) = Said(M) \o <<id>>
  <2>1. (Said(M) \o x.content) \o x.calls = Said(M) \o (x.content \o x.calls)
    BY <1>6, <1>7, <1>8, Zenon
  <2>2. QED
    BY <1>6, <2>1, Zenon
<1>11. Said(N) = Append(Said(M), id)
  BY <1>6, <1>9, <1>10, Zenon
<1>12. QED
  BY <1>2, <1>4, <1>5, <1>11, Zenon DEF Conversations
\* A call after a call joins its message.
LEMMA CallJoined ==
  ASSUME NEW R, NEW I, NEW M \in Conversations(R, I), NEW id \in I,
         M # <<>>, M[Len(M)].calls # <<>>
  PROVE  Says([M EXCEPT ![Len(M)].calls = Append(@, id)], M, id, R, I)
<1>1. /\ M \in Seq(Messages(R, I)) /\ \A k \in DOMAIN M : Alone(M[k])
      /\ \A k \in 1..(Len(M) - 1) : M[k].calls = <<>> \/ M[k + 1].calls = <<>>
  BY Zenon DEF Conversations
<1> DEFINE L == Len(M)
           y == [M[L] EXCEPT !.calls = Append(@, id)]
           N == [M EXCEPT ![L] = y]
<1>2. /\ L \in Nat \ {0} /\ L \in 1..L /\ DOMAIN M = 1..L /\ L - 1 \in Nat /\ (L - 1) + 1 = L
      /\ M[L] \in Messages(R, I)
  BY <1>1
<1>3. M[L].calls \in Seq(I) /\ M[L].content \in Seq(I) /\ M[L].role \in R
  BY <1>2, Zenon DEF Messages
<1>4. Append(M[L].calls, id) \in Seq(I) /\ Append(M[L].calls, id) # <<>>
  BY <1>3
<1>5. /\ y \in Messages(R, I) /\ y.content = M[L].content /\ y.role = M[L].role
      /\ y.calls = Append(M[L].calls, id)
  <2> DEFINE z == [role |-> M[L].role, content |-> M[L].content, calls |-> Append(M[L].calls, id)]
  <2>2. y = z
    <3> DEFINE m == M[L]
               x == Append(M[L].calls, id)
               S == Seq(I)
    <3>1. m \in [role : R, content : S, calls : S] /\ y = [m EXCEPT !.calls = x]
          /\ z = [role |-> m.role, content |-> m.content, calls |-> x]
      BY <1>2, Zenon DEF Messages
    <3> HIDE DEF m, x, S, y, z
    <3>2. [m EXCEPT !.calls = x] = [role |-> m.role, content |-> m.content, calls |-> x]
      BY <3>1, SMT
    <3>3. QED
      BY <3>1, <3>2, Zenon
  <2>3. z \in Messages(R, I)
    BY <1>3, <1>4, Zenon DEF Messages
  <2>4. z.content = M[L].content /\ z.role = M[L].role /\ z.calls = Append(M[L].calls, id)
    BY Zenon
  <2> HIDE DEF z, y
  <2>5. QED
    BY <2>2, <2>3, <2>4, Zenon
<1> HIDE DEF y, L
<1>6. /\ N \in Seq(Messages(R, I)) /\ Len(N) = L /\ DOMAIN N = 1..L /\ N[L] = y
      /\ \A k \in 1..L : k # L => N[k] = M[k]
  <2>1. M \in [1..L -> Messages(R, I)]
    BY <1>1 DEF L
  <2>2. /\ N \in [1..L -> Messages(R, I)] /\ N[L] = y
        /\ \A k \in 1..L : k # L => N[k] = M[k]
    BY <1>2, <1>5, <2>1, Zenon
  <2> HIDE DEF N
  <2>3. N \in Seq(Messages(R, I)) /\ Len(N) = L /\ DOMAIN N = 1..L
    BY <1>2, <2>2
  <2>4. QED
    BY <2>2, <2>3, Zenon
<1> HIDE DEF N
<1>7. \A k \in 1..(L - 1) : k \in 1..L /\ k # L /\ k + 1 \in 1..L
  BY <1>2
<1>8. \A k \in 1..L : N[k].calls = <<>> <=> M[k].calls = <<>>
  <2>1. M[L].calls # <<>> /\ N[L].calls # <<>>
    BY <1>4, <1>5, <1>6, Zenon DEF L
  <2>2. QED
    BY <1>6, <2>1, Zenon
<1>9. \A k \in DOMAIN N : Alone(N[k])
  <2>1. Alone(M[L]) /\ M[L].calls # <<>>
    BY <1>1, <1>2, Zenon DEF L
  <2>2. Alone(N[L])
    BY <1>5, <1>6, <2>1, Zenon DEF Alone
  <2>3. QED
    BY <1>1, <1>2, <1>6, <2>2, Zenon
<1>10. \A k \in 1..(Len(N) - 1) : N[k].calls = <<>> \/ N[k + 1].calls = <<>>
  <2>1. \A k \in 1..(L - 1) : M[k].calls = <<>> \/ M[k + 1].calls = <<>>
    BY <1>1, Zenon DEF L
  <2>2. \A k \in 1..(L - 1) : N[k].calls = <<>> \/ N[k + 1].calls = <<>>
    BY <1>7, <1>8, <2>1, Zenon
  <2>3. QED
    BY <1>6, <2>2, Zenon
<1>11. N \in Conversations(R, I)
  BY <1>6, <1>9, <1>10, Zenon DEF Conversations
<1>12. SaidPlus(N, M, id)
  <2>1. PICK n \in Nat : n + 1 = L
    BY <1>2
  <2>2. \A i \in 1..n : i \in 1..L /\ i # L
    BY <2>1
  <2>3. \A i \in 1..n : M[i] = N[i]
    BY <1>6, <2>2, Zenon
  <2>4. /\ n + 1 = Len(M) /\ Len(N) = n + 1
        /\ N[n + 1].content = M[n + 1].content /\ N[n + 1].calls = Append(M[n + 1].calls, id)
    BY <1>5, <1>6, <2>1, Zenon DEF L
  <2>5. M \in Seq(Messages(R, I)) /\ N \in Seq(Messages(R, I))
    BY <1>1, <1>6, Zenon
  <2>6. QED
    BY <2>1, <2>3, <2>4, <2>5, SaidMore, Zenon
<1>13. N = [M EXCEPT ![Len(M)].calls = Append(@, id)]
  BY Zenon DEF N, y, L
<1>14. Says(N, M, id, R, I)
  BY <1>11, <1>12, Zenon DEF Says
<1>15. QED
  BY <1>13, <1>14, Zenon

\* Every item says its part.
LEMMA ItemAppended ==
  ASSUME NEW R, NEW I, NEW M \in Conversations(R, I), NEW item,
         item.id \in I, item.role \in R, "assistant" \in R, "tool" \in R
  PROVE  Says(AppendItem(M, item), M, item.id, R, I)
<1>1. \A a : <<a>> \o <<>> = <<a>> /\ <<>> \o <<a>> = <<a>> /\ <<a>> # <<>>
  OBVIOUS
<1>2. <<item.id>> \in Seq(I) /\ <<>> \in Seq(I)
  OBVIOUS
<1>3. ASSUME NEW role \in R
      PROVE  LET x == [role |-> role, content |-> <<item.id>>, calls |-> <<>>]
             IN  Says(Append(M, x), M, item.id, R, I)
  <2> DEFINE x == [role |-> role, content |-> <<item.id>>, calls |-> <<>>]
  <2>1. x \in Messages(R, I) /\ Alone(x) /\ x.content = <<item.id>> /\ x.calls = <<>>
    BY <1>2, Zenon DEF Messages, Alone
  <2> HIDE DEF x
  <2>2. x.content \o x.calls = <<item.id>>
    BY <1>1, <2>1, Zenon
  <2>3. Says(Append(M, x), M, item.id, R, I)
    BY <2>1, <2>2, MessageAppended, Zenon
  <2>4. QED
    BY <2>3, Zenon DEF x
<1>4. CASE item.type = "function_call"
  <2>1. AppendItem(M, item) = appendFunctionCall(M, item.id)
    BY <1>4, Zenon DEF AppendItem
  <2>2. CASE M # <<>> /\ M[Len(M)].calls # <<>>
    <3>1. M[Len(M)].role = "assistant" /\ M[Len(M)].content = <<>>
      <4>1. M \in Seq(Messages(R, I)) /\ \A k \in DOMAIN M : Alone(M[k])
        BY Zenon DEF Conversations
      <4>2. Len(M) \in DOMAIN M
        BY <2>2, <4>1
      <4>3. QED
        BY <2>2, <4>1, <4>2, Zenon DEF Alone
    <3> DEFINE N == [M EXCEPT ![Len(M)].calls = Append(@, item.id)]
    <3>2. appendFunctionCall(M, item.id) = N
      BY <2>2, <3>1, Zenon DEF appendFunctionCall
    <3>3. Says(N, M, item.id, R, I)
      BY <2>2, CallJoined, Zenon
    <3> HIDE DEF N
    <3>4. QED
      BY <2>1, <3>2, <3>3, Zenon
  <2>3. CASE M = <<>> \/ M[Len(M)].calls = <<>>
    <3> DEFINE x == [role |-> "assistant", content |-> <<>>, calls |-> <<item.id>>]
    <3>1. x \in Messages(R, I) /\ Alone(x) /\ x.content = <<>> /\ x.calls = <<item.id>>
      BY <1>2, Zenon DEF Messages, Alone
    <3>2. appendFunctionCall(M, item.id) = Append(M, x)
      BY <2>3, Zenon DEF appendFunctionCall
    <3> HIDE DEF x
    <3>3. x.content \o x.calls = <<item.id>>
      BY <1>1, <3>1, Zenon
    <3>4. Says(Append(M, x), M, item.id, R, I)
      BY <2>3, <3>1, <3>3, MessageAppended, Zenon
    <3>5. QED
      BY <2>1, <3>2, <3>4, Zenon
  <2>4. QED
    BY <2>2, <2>3, Zenon
<1>5. CASE item.type # "function_call"
  <2>1. PICK role \in R :
          AppendItem(M, item)
            = Append(M, [role |-> role, content |-> <<item.id>>, calls |-> <<>>])
    BY <1>5, Zenon DEF AppendItem
  <2>2. QED
    BY <1>3, <2>1, Zenon
<1>6. QED
  BY <1>4, <1>5, Zenon
\* The messages of a conversation say what its items say.
LEMMA MessagesSay ==
  ASSUME NEW items, IsSequence(items)
  PROVE  \E R, I : /\ responsesMessages(items) \in Conversations(R, I)
                   /\ Said(responsesMessages(items)) = [k \in 1..Len(items) |-> items[k].id]
<1> DEFINE n == Len(items)
           R == {items[i].role : i \in 1..n} \cup {"assistant", "tool"}
           I == {items[i].id : i \in 1..n}
           D == Conversations(R, I)
           P(f) == f = [i \in 0..Len(items) |->
                          IF i = 0 THEN <<>> ELSE AppendItem(f[i - 1], items[i])]
           c == CHOOSE f : P(f)
           step == [i \in 1..n |-> [M \in D |-> AppendItem(M, items[i])]]
           said(m) == [k \in 1..m |-> items[k].id]
<1>1. n \in Nat
  BY DEF IsSequence
<1>2. \A i \in 1..n : items[i].id \in I /\ items[i].role \in R
  BY Zenon
<1>3. "assistant" \in R /\ "tool" \in R
  BY Zenon
<1>4. <<>> \in Seq(Messages(R, I)) /\ DOMAIN <<>> = {} /\ 1..(Len(<<>>) - 1) = {}
  <2> HIDE DEF R, I
  <2>1. QED
    OBVIOUS
<1> HIDE DEF n, R, I
<1>5. <<>> \in D
  BY <1>4, Zenon DEF Conversations
<1>6. \A i \in 1..n : \A M \in D : Says(AppendItem(M, items[i]), M, items[i].id, R, I)
  BY <1>2, <1>3, ItemAppended, Zenon
<1>7. \A i \in 1..n : \A M \in D : AppendItem(M, items[i]) \in D
  BY <1>6, Zenon DEF Says
<1> HIDE DEF D
<1>8. \A i \in 1..n : \A M \in D : step[i][M] = AppendItem(M, items[i]) /\ step[i][M] \in D
  BY <1>7, Zenon
<1> HIDE DEF step
<1>9. PICK f \in [0..n -> D] : Follows(f, n, <<>>, step)
  BY <1>1, <1>5, <1>8, Recursion, Zenon
<1>10. /\ 0 \in 0..n /\ n \in 0..n
       /\ \A i \in 0..n : i # 0 => i \in 1..n /\ i - 1 \in 0..n
       /\ \A i \in 1..n : i \in 0..n /\ i # 0 /\ i - 1 \in Nat
  BY <1>1
<1>11. \A i \in 0..n : f[i] = IF i = 0 THEN <<>> ELSE AppendItem(f[i - 1], items[i])
  BY <1>8, <1>9, <1>10, Zenon DEF Follows
<1>12. P(f)
  BY <1>9, <1>11, Zenon DEF n
<1>13. P(c)
  BY <1>12, Zenon
<1>14. responsesMessages(items) = c[n]
  BY Zenon DEF responsesMessages, n
<1> HIDE DEF c
<1>15. \A i \in 0..n : c[i] = IF i = 0 THEN <<>> ELSE AppendItem(c[i - 1], items[i])
  BY <1>13, Zenon DEF n
<1> HIDE DEF P
<1> DEFINE S == {m \in 0..n : c[m] \in D /\ Said(c[m]) = said(m)}
<1>16. 0 \in S
  <2>1. PICK g : Tells(g, <<>>, I) /\ Said(<<>>) = g[0]
    <3>1. Len(<<>>) = 0
      OBVIOUS
    <3>2. QED
      BY <1>4, <3>1, SaidTells, Zenon
  <2>2. Said(<<>>) = <<>>
    BY <2>1, Zenon DEF Tells
  <2>3. said(0) = <<>>
    OBVIOUS
  <2>4. c[0] = <<>>
    BY <1>10, <1>15, Zenon
  <2> HIDE DEF said
  <2>5. QED
    BY <1>5, <1>10, <2>2, <2>3, <2>4, Zenon
<1>17. ASSUME NEW m \in 1..n, m - 1 \in S PROVE m \in S
  <2>1. c[m - 1] \in D /\ Said(c[m - 1]) = said(m - 1)
    BY <1>17, Zenon
  <2>2. c[m] = AppendItem(c[m - 1], items[m])
    BY <1>10, <1>15, Zenon
  <2>3. Says(c[m], c[m - 1], items[m].id, R, I)
    BY <1>6, <2>1, <2>2, Zenon
  <2>4. c[m] \in D /\ Said(c[m]) = Append(said(m - 1), items[m].id)
    <3> HIDE DEF said
    <3>1. c[m] \in Conversations(R, I) /\ Said(c[m]) = Append(Said(c[m - 1]), items[m].id)
      BY <2>3, Zenon DEF Says, SaidPlus
    <3>2. QED
      BY <2>1, <3>1, Zenon DEF D
  <2>5. Append(said(m - 1), items[m].id) = said(m)
    BY <1>1
  <2> HIDE DEF said
  <2>6. QED
    BY <1>10, <2>4, <2>5, Zenon
<1> HIDE DEF S
<1>18. \A m \in 0..n : m \in S
  BY <1>1, <1>16, <1>17, UpTo, Zenon
<1>19. c[n] \in D /\ Said(c[n]) = said(n)
  BY <1>10, <1>18, Zenon DEF S
<1>20. QED
  BY <1>14, <1>19, Zenon DEF n, D

(***************************************************************************)
(* For every request: what leaves for a replica or the tool runtime stands *)
(* for every part of the message in its order, with its files rendered and *)
(* no page image for a model that takes none (renderDecodedFile,           *)
(* rewriteResponsesBase64Files); and the messages whose tokens are counted *)
(* say what the items say, in their order, with consecutive calls joined   *)
(* (responsesMessages, appendFunctionCall).                                *)
(***************************************************************************)
THEOREM ConversationIsKept == Spec => []ConversationKept
<1>1. BodyInv => CountsTheConversation
  <2> SUFFICES ASSUME BodyInv PROVE CountsTheConversation
    BY Zenon
  <2> DEFINE M == responsesMessages(req.items)
  <2>1. IsSequence(req.items)
    BY HandlerAssumption, Zenon DEF BodyInv, IsSequence
  <2>2. DOMAIN req.items = 1..Len(req.items)
    BY <2>1 DEF IsSequence
  <2>3. PICK R, I : M \in Conversations(R, I) /\ Said(M) = [k \in 1..Len(req.items) |-> req.items[k].id]
    BY <2>1, MessagesSay, Zenon
  <2> HIDE DEF M
  <2>4. /\ \A k \in DOMAIN M : Alone(M[k])
        /\ \A k \in 1..(Len(M) - 1) : M[k].calls = <<>> \/ M[k + 1].calls = <<>>
    BY <2>3, Zenon DEF Conversations
  <2>5. Said(M) = [k \in DOMAIN req.items |-> req.items[k].id]
    BY <2>2, <2>3, Zenon
  <2>6. QED
    BY <2>4, <2>5, Zenon DEF CountsTheConversation, Alone, M
<1>2. FilesRendered /\ CountsTheConversation => ConversationKept
  BY Zenon DEF ConversationKept
<1>3. QED
  BY <1>1, <1>2, FilesAlways, BodyInit, BodyStep, InvInit, InvStep, PTL DEF Spec

=============================================================================
