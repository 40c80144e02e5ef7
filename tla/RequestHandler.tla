---------------------------- MODULE RequestHandler ---------------------------
(***************************************************************************)
(* The public handler (main.go, newRouterHandler) for one request, from its *)
(* arrival to the moment a replica, the tool runtime or the tokenizer takes *)
(* it over or an error is written.  Meanwhile the configuration reloads and *)
(* the model metadata is refreshed: the handler reads both several times    *)
(* and holds no lock between the reads.                                     *)
(*                                                                         *)
(* The body is a record that says of each field the router cares about who  *)
(* wrote its value: nobody, the client or the router.  What the control     *)
(* plane answers, how healthy a pool is and what the converter returns are  *)
(* choices of the environment.  The selection of a replica, the tool loop   *)
(* and the proxied response have modules of their own; here they are one    *)
(* step that hands the request over.                                        *)
(***************************************************************************)
EXTENDS AutoRoute, FileInputs, TokenizeBody

CONSTANTS
  Requests,         \* the requests a client may send
  Models,           \* names of models a configuration may contain
  Configured,       \* the sets of models a router may be started with
  Reservable,       \* the models a configuration may put reservations on
  Orgs,             \* organizations of callers
  HasPool,          \* Models -> the callers that find a host in their pools
  DocUpload,        \* the document converter's name
  DefaultModel,     \* path -> the model when the request names none
  Catalogs,         \* the model lists the control plane may publish
  Conversions,      \* the converter's answers: records [pages, text]
  CacheSaltEnabled, \* the flag of that name
  MaxReports        \* unknownModelMaxInflight

NoOrg == "no_org"
Unset == "unset"
Unavailable == "unavailable"
AutoModel == 0
NoModel == -1

ASSUME HandlerAssumption ==
  /\ \A r \in Requests :
       /\ r.parts \in Seq(Part)
       /\ r.items \in Seq({r.items[i] : i \in DOMAIN r.items})
       /\ r.headers \in [{"max_tokens", "n"} -> {"absent", "number", "malformed"}]
  /\ Models \subseteq Nat \ {AutoModel}
  /\ Configured \subseteq SUBSET Models
  /\ Reservable \subseteq Models
  /\ DocUpload \in Models
  /\ \A c \in Conversions : c.pages \in Seq(BOOLEAN)
  /\ \A list \in Catalogs : IsFiniteSet(list) /\ \A m \in list :
       /\ m \in [name : Models, multimodal : BOOLEAN, scores : {m.scores}, tuned : {m.tuned}]
       /\ validIntelligence(m.scores)
  /\ HasPool \in [Models -> SUBSET (Orgs \cup {NoOrg})]
  /\ {NoOrg, Unset, Unavailable} \cap Orgs = {}
  /\ CacheSaltEnabled \in BOOLEAN
  /\ MaxReports \in Nat

VARIABLES
  req,         \* the request as it arrived
  pc,          \* where the handler stands
  body,        \* who wrote the fields of the body
  model,       \* modelName
  walk,        \* auto: the candidates still to be looked at
  seen,        \* auto: the candidates looked at, and what was found
  chosen,      \* auto: the best candidate so far, or none
  identity,    \* orgContext: Unset, Unavailable or an organization
  admission,   \* the admission context, or none
  lookups,     \* quota lookups made for this request
  content,     \* the rewritten content parts
  sent,        \* what left the router, to whom and for which caller
  answer,      \* the error written, or "served"
  reports,     \* unknown-model reports in flight
  served,      \* em.models: what the router was started with
  reserved,    \* the models that have reservations now
  marked,      \* multimodalModels
  catalog,     \* modelIntelligence
  refreshing   \* a metadata refresh in progress: the list and what is stored

handlerVars == <<req, pc, body, model, walk, seen, chosen, identity, admission,
                 lookups, content, sent, answer>>
envVars == <<served, reserved, marked, catalog, refreshing>>
vars == <<handlerVars, reports, envVars>>

----------------------------------------------------------------------------
(* Requests and bodies.                                                    *)

OpenAIPaths == {"chat", "completions", "responses", "decisions", "embeddings"}
CountPaths == {"count_chat", "count_responses"}
OtherPaths == {"speech", "audio", "convert", "realtime"}
StaticPaths == {"page", "health", "models"}
Paths == OpenAIPaths \cup CountPaths \cup OtherPaths \cup StaticPaths

priorityPaths == {"chat", "completions", "responses"}
cacheSaltPaths == {"chat", "completions", "responses", "decisions"}
maxOutputTokensPaths == {"chat", "completions", "responses"}

\* inputTokensCompletionPath
CompletionPath(path) == CASE path = "count_chat" -> "chat"
                          [] path = "count_responses" -> "responses"
                          [] OTHER -> path

\* "usage_header" is the mark the proxy reads to keep usage-only chunks.
BodyFields == {"priority", "cache_salt", "user_cache_secret", "options", "auto_options",
               "effort", "max_tokens", "n", "stream_options", "usage_header"}
Writers == {"absent", "client", "router"}

\* A browser cannot set the Authorization header of a WebSocket: its key comes
\* in the subprotocol list, which only the realtime path looks at.
apiKey == IF req.path = "realtime" /\ req.key = "none" THEN req.subprotocol ELSE req.key

\* HasVisualInput: file and image parts alike.
HasVisualInput(r) == \E i \in DOMAIN r.parts : r.parts[i].kind # "other"

\* DetectProfiles: only two endpoints run router-owned tools.
DetectProfiles(r) == r.tools /\ r.path \in {"chat", "responses"}

----------------------------------------------------------------------------
(* Steps every path shares.                                                *)

Reply(status) == /\ pc' = "over"
                 /\ answer' = status

\* UnknownModelReporter.Report: dropped when too many are in flight.

Report ==
  reports' = IF apiKey # "none" /\ reports < MaxReports THEN reports + 1 ELSE reports

ReportSent ==
  /\ reports > 0
  /\ reports' = reports - 1
  /\ UNCHANGED <<handlerVars, envVars>>

UnknownModel ==
  /\ Report
  /\ Reply("404")

Dispatch(to, org) ==
  sent' = Append(sent, [to |-> to, model |-> model, org |-> org, body |-> body'])

HasReservations(m) == m \in served /\ m \in reserved

\* resolveOrg, first half: the control plane is asked once per request, and
\* only by a step that waits for the caller's organization.
AwaitsOrg ==
  \/ pc = "walk" /\ HasReservations(Head(walk).name)
  \/ pc = "pools" /\ admission[1].org = NoOrg /\ ~admission[1].limited
                  /\ HasReservations(model)
  \/ pc = "tokenize"

Metadata ==
  /\ AwaitsOrg
  /\ identity = Unset
  /\ \/ /\ \E i \in Orgs \cup {NoOrg, Unavailable} : identity' = i
        /\ UNCHANGED <<pc, answer>>
     \/ /\ Reply("denied")
        /\ UNCHANGED identity
  /\ UNCHANGED <<req, body, model, walk, seen, chosen, admission, lookups, content,
                 sent, reports, envVars>>

\* resolveOrg, second half: without an answer, what the cache holds for this
\* caller and model, which may be nothing.
OrgFor == IF identity = Unavailable THEN Orgs \cup {NoOrg} ELSE {identity}

OrgKnown == AwaitsOrg => identity # Unset

----------------------------------------------------------------------------
(* Arrival: limits, headers and the body, per path.                        *)

\* limitRequestBody and CustomerRequestCount: the size the client declares and
\* the usage context are looked at on every path.
Refused ==
  /\ pc = "arrive"
  /\ \/ req.fault = "too_large" /\ Reply("413")
     \/ req.fault = "usage_context" /\ Reply("400")
  /\ UNCHANGED <<req, body, model, walk, seen, chosen, identity, admission, lookups,
                 content, sent, reports, envVars>>

Arrived(paths) == /\ pc = "arrive"
                  /\ req.fault \notin {"too_large", "usage_context"}
                  /\ req.path \in paths

\* A body that cannot be read or is not one JSON object.
Unreadable == req.fault = "body"

ServeStatic ==
  /\ Arrived(StaticPaths)
  /\ \E status \in CASE req.path = "page" -> {"served"}
                     [] req.path = "health" -> {"served", "503"}
                     [] req.path = "models" -> {"served", "502"} : Reply(status)
  /\ UNCHANGED <<req, body, model, walk, seen, chosen, identity, admission, lookups,
                 content, sent, reports, envVars>>

\* A web search setting may leave live access out or state it as a Boolean.
validateExternalWebAccess(value) == value \in {"absent", "bool"}

\* The options block first, then every web search tool.
ExtractRouterOptions ==
  validateExternalWebAccess(req.access.options)
    /\ \A value \in req.access.tools : validateExternalWebAccess(value)

modelHeaderMatches == req.modelHeader \in {"absent", "same"}

\* Absent, or one positive number.
positiveIntHeader(name) == req.headers[name] # "malformed"

applyMaxOutputTokensHeader(b) ==
  IF req.path \in maxOutputTokensPaths /\ req.headers["max_tokens"] = "number"
  THEN [b EXCEPT !["max_tokens"] = "router"] ELSE b

applyCompletionCountHeader(b) ==
  IF req.path = "chat" /\ req.headers["n"] = "number"
  THEN [b EXCEPT !["n"] = "router"] ELSE b

\* The checks of the body in the order of the code; each failure is a 400.
ParseBody ==
  /\ Arrived(OpenAIPaths)
  /\ body' = applyCompletionCountHeader(
               applyMaxOutputTokensHeader([body EXCEPT !["options"] = "absent"]))
  /\ IF /\ ~Unreadable
        /\ ExtractRouterOptions
        /\ req.model # NoModel
        /\ modelHeaderMatches
        /\ req.path \in maxOutputTokensPaths => positiveIntHeader("max_tokens")
        /\ req.path = "chat" => positiveIntHeader("n")
     THEN /\ pc' = IF req.model = AutoModel THEN "auto" ELSE "known"
          /\ UNCHANGED answer
     ELSE Reply("400")
  /\ UNCHANGED <<req, model, walk, seen, chosen, identity, admission, lookups, content,
                 sent, reports, envVars>>

\* handleInputTokens up to the model.
ParseCount ==
  /\ Arrived(CountPaths)
  /\ CASE req.key = "none" -> Reply("401")
       [] req.key # "none" /\ (Unreadable \/ req.model = NoModel) -> Reply("400")
       [] OTHER -> /\ pc' = IF req.model = AutoModel THEN "auto" ELSE "count"
                   /\ UNCHANGED answer
  /\ UNCHANGED <<req, body, model, walk, seen, chosen, identity, admission, lookups,
                 content, sent, reports, envVars>>

NamedOrDefault == IF req.model = NoModel THEN DefaultModel[req.path] ELSE req.model

\* Speech reads its JSON; an audio form is searched for a model field.
ParseAudio ==
  /\ Arrived({"speech", "audio"})
  /\ IF Unreadable
     THEN Reply("400") /\ UNCHANGED model
     ELSE pc' = "route" /\ model' = NamedOrDefault /\ UNCHANGED answer
  /\ UNCHANGED <<req, body, walk, seen, chosen, identity, admission, lookups, content,
                 sent, reports, envVars>>

ParseConvert ==
  /\ Arrived({"convert"})
  /\ pc' = "route"
  /\ model' = DocUpload
  /\ UNCHANGED <<req, body, walk, seen, chosen, identity, admission, lookups, content,
                 sent, answer, reports, envVars>>

\* The model is in the query; only a transcription may leave it out.
ParseRealtime ==
  /\ Arrived({"realtime"})
  /\ IF req.model = NoModel /\ ~req.intent
     THEN Reply("400") /\ UNCHANGED model
     ELSE pc' = "route" /\ model' = NamedOrDefault /\ UNCHANGED answer
  /\ UNCHANGED <<req, body, walk, seen, chosen, identity, admission, lookups, content,
                 sent, reports, envVars>>

----------------------------------------------------------------------------
(* Model "auto": resolveAutoModel.                                         *)

\* AutoRouteCatalog: the scores last stored with the capabilities known now.
AutoRouteCatalog == {[m EXCEPT !.multimodal = m.name \in marked] : m \in catalog}

RankCandidates ==
  /\ pc = "auto"
  /\ LET target == ParseIntelligence(req.option, req.level)
         ranked == IF target = <<>> THEN <<>>
                   ELSE Rank(AutoRouteCatalog, target[1], HasVisualInput(req))
     IN  IF ranked = <<>>
         THEN Reply("400") /\ UNCHANGED walk
         ELSE pc' = "walk" /\ walk' = ranked /\ UNCHANGED answer
  /\ body' = [body EXCEPT !["auto_options"] = "absent"]
  /\ UNCHANGED <<req, model, seen, chosen, identity, admission, lookups, content, sent,
                 reports, envVars>>

\* AutoRouteStatus: a caller whose pools are all empty may not be sent there.
Eligible(m, org) == m \in served /\ (m \in reserved => org \in HasPool[m])

MutFirstEligible(c, eligible, healthy) == IF eligible THEN <<c>> ELSE chosen

\* The first eligible candidate is remembered, the first healthy one ends the
\* walk.
FirstEligible(c, eligible, healthy) ==
  IF eligible /\ (healthy \/ chosen = <<>>) THEN <<c>> ELSE chosen

CheckCandidate ==
  /\ pc = "walk"
  /\ OrgKnown
  /\ \E healthy \in BOOLEAN,
        org \in IF HasReservations(Head(walk).name) THEN OrgFor ELSE {NoOrg} :
       LET c == Head(walk)
           eligible == Eligible(c.name, org)
       IN  /\ seen' = Append(seen, [c |-> c, eligible |-> eligible,
                                    healthy |-> eligible /\ healthy])
           /\ chosen' = FirstEligible(c, eligible, healthy)
           /\ walk' = IF eligible /\ healthy THEN <<>> ELSE Tail(walk)
           /\ pc' = IF walk' = <<>> THEN "chosen" ELSE "walk"
  /\ UNCHANGED <<req, body, model, identity, admission, lookups, content, sent, answer,
                 reports, envVars>>

ChooseModel ==
  /\ pc = "chosen"
  /\ IF chosen = <<>>
     THEN Reply("503") /\ UNCHANGED <<body, model>>
     ELSE /\ body' = [body EXCEPT
               !["effort"] = ApplyEffort(catalog, CompletionPath(req.path), chosen[1])]
          /\ model' = chosen[1].name
          /\ pc' = IF req.path \in CountPaths THEN "count" ELSE "known"
          /\ UNCHANGED answer
  /\ UNCHANGED <<req, walk, seen, chosen, identity, admission, lookups, content, sent,
                 reports, envVars>>

----------------------------------------------------------------------------
(* Admission.                                                              *)

\* The lookup before admission, and the removal of the client's priority.
KnownModel ==
  /\ pc = "known"
  /\ body' = [body EXCEPT !["priority"] = "absent"]
  /\ IF model \in served
     THEN pc' = "admit" /\ UNCHANGED <<answer, reports>>
     ELSE UnknownModel
  /\ UNCHANGED <<req, model, walk, seen, chosen, identity, admission, lookups, content,
                 sent, envVars>>

\* routeContextClient.Lookup as RouteContext.tla describes it: a verdict from
\* the cache, or an empty context; tokens of the JWT kind are not counted.
Contexts ==
  {[org |-> NoOrg, limited |-> FALSE, priority |-> "none"]} \cup
  [org : Orgs \cup {NoOrg}, limited : {TRUE}, priority : {"none", "configured", "demoted"}]

Lookup ==
  /\ pc = "admit"
  /\ CASE apiKey = "none" ->
            Reply("401") /\ UNCHANGED <<admission, lookups>>
       [] apiKey = "jwt" ->
            /\ admission' = <<[org |-> NoOrg, limited |-> FALSE, priority |-> "none"]>>
            /\ pc' = "pools"
            /\ UNCHANGED <<lookups, answer>>
       [] OTHER ->
            /\ lookups' = lookups + 1
            /\ \/ Reply("429") /\ UNCHANGED admission
               \/ /\ \E c \in Contexts : admission' = <<c>>
                  /\ pc' = "pools"
                  /\ UNCHANGED answer
  /\ UNCHANGED <<req, body, model, walk, seen, chosen, identity, content, sent, reports,
                 envVars>>

MutAdmittedOrg(context, org) ==
  IF context.org = NoOrg /\ ~context.limited /\ HasReservations(model)
  THEN org ELSE context.org

\* The organization whose pools serve the request: what the control plane
\* said of the caller wins over what the cached context says.
AdmittedOrg(context, org) ==
  CASE identity \notin {Unset, Unavailable} -> identity
    [] identity \in {Unset, Unavailable} /\ context.org = NoOrg /\ ~context.limited
         /\ HasReservations(model) -> org
    [] OTHER -> context.org

applyPriority(context) ==
  IF req.path \in priorityPaths /\ context.priority # "none" THEN "router" ELSE "absent"

Admit ==
  /\ pc = "pools"
  /\ OrgKnown
  /\ \E org \in OrgFor :
       admission' = <<[admission[1] EXCEPT !.org = AdmittedOrg(admission[1], org)]>>
  /\ CASE req.path \in OpenAIPaths ->
            /\ body' = [body EXCEPT !["priority"] = applyPriority(admission[1])]
            /\ pc' = "files"
       [] req.path = "speech" ->
            /\ body' = [body EXCEPT !["priority"] = "absent", !["cache_salt"] = "absent",
                                    !["user_cache_secret"] = "absent"]
            /\ pc' = "select"
       [] OTHER -> UNCHANGED body /\ pc' = "select"
  /\ UNCHANGED <<req, model, walk, seen, chosen, identity, lookups, content, sent, answer,
                 reports, envVars>>

----------------------------------------------------------------------------
(* The body's last changes: files, salt, usage options.                    *)

\* The next part of the content: content holds those of the earlier parts.
NextPart == 1 + Cardinality({content[i].of : i \in DOMAIN content})

\* A part that is not a file stays as it is, inline text needs no converter.
KeepPart ==
  /\ pc = "files"
  /\ req.path \in {"chat", "responses"}
  /\ NextPart <= Len(req.parts)
  /\ LET part == req.parts[NextPart]
         mode == ResolveFileMode(part, model \in marked)
     IN  CASE part.kind # "file" ->
                /\ content' = Append(content, [of |-> NextPart, shape |-> "kept"])
                /\ UNCHANGED <<pc, answer>>
           [] part.kind = "file" /\ (~Decodes(req.path, part) \/ mode = <<>>) ->
                Reply("400") /\ UNCHANGED content
           [] part.kind = "file" /\ Decodes(req.path, part) /\ mode = <<"inline">> ->
                /\ content' = content \o Rendered(NextPart, "inline", <<>>)
                /\ UNCHANGED <<pc, answer>>
           [] OTHER -> FALSE
  /\ UNCHANGED <<req, body, model, walk, seen, chosen, identity, admission, lookups, sent,
                 reports, envVars>>

\* ConvertFile: the converter is looked up, then a host of the caller's pools
\* is asked, whatever its load.
ConvertFile ==
  /\ pc = "files"
  /\ req.path \in {"chat", "responses"}
  /\ NextPart <= Len(req.parts)
  /\ LET part == req.parts[NextPart]
         mode == ResolveFileMode(part, model \in marked)
     IN  /\ part.kind = "file" /\ Decodes(req.path, part)
         /\ mode \notin {<<>>, <<"inline">>}
         /\ \/ /\ ~Eligible(DocUpload, admission[1].org)
               /\ Reply("502")
               /\ UNCHANGED <<content, sent>>
            \/ /\ Eligible(DocUpload, admission[1].org)
               /\ sent' = Append(sent, [to |-> "doc", model |-> DocUpload,
                                        org |-> admission[1].org, body |-> body])
               /\ \/ Reply("502") /\ UNCHANGED content
                  \/ \E doc \in Conversions :
                       /\ Converted(mode[1], doc.pages, doc.text)
                       /\ content' = content \o Rendered(NextPart, mode[1], doc.pages)
                       /\ UNCHANGED <<pc, answer>>
  /\ UNCHANGED <<req, body, model, walk, seen, chosen, identity, admission, lookups,
                 reports, envVars>>

MutApplyCacheSalt(b) ==
  IF CacheSaltEnabled /\ req.path \in cacheSaltPaths
  THEN [b EXCEPT !["user_cache_secret"] = "absent",
                 !["cache_salt"] = IF @ = "client" THEN "client" ELSE "router"]
  ELSE [b EXCEPT !["user_cache_secret"] = "absent", !["cache_salt"] = "absent"]

\* applyCacheSalt: the client's fields always go; every caller that got this
\* far has a key, so the endpoints that take a salt get one.
applyCacheSalt(b) ==
  [b EXCEPT !["user_cache_secret"] = "absent",
            !["cache_salt"] = IF CacheSaltEnabled /\ req.path \in cacheSaltPaths
                              THEN "router" ELSE "absent"]

\* The replica must report usage; a client that asked for it itself is marked.
ensureStreamingUsageOptions(b) ==
  [b EXCEPT !["stream_options"] = "router",
            !["usage_header"] = IF b["stream_options"] = "client" THEN "router" ELSE @]

\* The body is final; the tool runtime takes over, or the request is routed.
FinishBody ==
  /\ pc = "files"
  /\ req.path \in {"chat", "responses"} => NextPart > Len(req.parts)
  /\ body' = IF req.stream THEN ensureStreamingUsageOptions(applyCacheSalt(body))
              ELSE applyCacheSalt(body)
  /\ IF DetectProfiles(req)
     THEN Dispatch("tools", admission[1].org) /\ Reply("served")
     ELSE pc' = "route" /\ UNCHANGED <<sent, answer>>
  /\ UNCHANGED <<req, model, walk, seen, chosen, identity, admission, lookups, content,
                 reports, envVars>>

----------------------------------------------------------------------------
(* Routing.                                                                *)

MutRoute ==
  /\ pc = "route"
  /\ IF model \in served
     THEN pc' = "admit" /\ UNCHANGED <<answer, reports>>
     ELSE UnknownModel
  /\ UNCHANGED <<req, body, model, walk, seen, chosen, identity, admission, lookups,
                 content, sent, envVars>>

\* The model is looked up again, whatever an earlier lookup said; paths that
\* have not been admitted are admitted now.
Route ==
  /\ pc = "route"
  /\ IF model \in served
     THEN /\ pc' = IF admission = <<>> THEN "admit" ELSE "select"
          /\ UNCHANGED <<answer, reports>>
     ELSE UnknownModel
  /\ UNCHANGED <<req, body, model, walk, seen, chosen, identity, admission, lookups,
                 content, sent, envVars>>

\* SelectServing within the caller's pools, and the handover to the proxy.
\* Only a configured priority gets past a pool that is overloaded.
ServeModel ==
  /\ pc = "select"
  /\ UNCHANGED body
  /\ \/ Reply("503") /\ UNCHANGED sent
     \/ /\ model \in reserved => admission[1].org \in HasPool[model]
        /\ \E overloaded \in BOOLEAN :
             IF overloaded /\ admission[1].priority # "configured"
             THEN Reply("503") /\ UNCHANGED sent
             ELSE Dispatch("replica", admission[1].org) /\ Reply("served")
  /\ UNCHANGED <<req, model, walk, seen, chosen, identity, admission, lookups, content,
                 reports, envVars>>

\* Input tokens: the conversion, the model, the caller's organization, then
\* the tokenizer; never an admission.
Tokenize ==
  /\ pc = "count"
  /\ LET accepted == IF req.path = "count_chat" THEN chatTokenizeBody(req.params)
                     ELSE responsesTokenizeBody(req.params, req.items)
     IN  CASE ~accepted -> Reply("400")
           [] accepted /\ model \notin served -> Reply("404")
           [] OTHER -> pc' = "tokenize" /\ UNCHANGED answer
  /\ UNCHANGED <<req, body, model, walk, seen, chosen, identity, admission, lookups,
                 content, sent, reports, envVars>>

\* The tokenizer's body is built from a list of fields; whether the effort is
\* among them depends on the parameter the model takes it by.
CountTokens ==
  /\ pc = "tokenize"
  /\ identity # Unset
  /\ \E kept \in IF req.path = "count_responses" \/ body["effort"] = "router"
                 THEN {body["effort"], "absent"} ELSE {"absent"} :
       body' = [f \in BodyFields |-> IF f = "effort" THEN kept ELSE "absent"]
  /\ \/ Reply("503") /\ UNCHANGED sent
     \/ \E org \in OrgFor :
          /\ Eligible(model, org)
          /\ Dispatch("tokenizer", org)
          /\ \E status \in {"served", "502"} : Reply(status)
  /\ UNCHANGED <<req, model, walk, seen, chosen, identity, admission, lookups, content,
                 reports, envVars>>

----------------------------------------------------------------------------
(* The environment.                                                        *)

\* A configuration sync changes the reservations of a model; it never adds or
\* removes a model.
Reload ==
  /\ \E m \in Reservable :
       reserved' = IF m \in reserved THEN reserved \ {m} ELSE reserved \cup {m}
  /\ UNCHANGED <<handlerVars, reports, served, marked, catalog, refreshing>>

\* refreshModelMetadata: the goroutine of one configuration sync.  It stores
\* the capabilities model by model while it reads the list, then the scores.
StartRefresh ==
  /\ refreshing = <<>>
  /\ \E list \in Catalogs : list # catalog /\ refreshing' = <<list>>
  /\ UNCHANGED <<handlerVars, reports, served, reserved, marked, catalog>>

MarkMultimodal ==
  /\ refreshing # <<>>
  /\ \E m \in refreshing[1] :
       /\ m.multimodal /\ m.name \notin marked
       /\ marked' = marked \cup {m.name}
  /\ UNCHANGED <<handlerVars, reports, served, reserved, catalog, refreshing>>

StoreIntelligence ==
  /\ refreshing # <<>>
  /\ \A m \in refreshing[1] : m.multimodal => m.name \in marked
  /\ catalog' = refreshing[1]
  /\ refreshing' = <<>>
  /\ UNCHANGED <<handlerVars, reports, served, reserved, marked>>

----------------------------------------------------------------------------

Init ==
  /\ req \in Requests
  /\ pc = "arrive"
  /\ body = [f \in BodyFields |-> IF f \in req.fields THEN "client" ELSE "absent"]
  /\ model = req.model
  /\ walk = <<>> /\ seen = <<>> /\ chosen = <<>>
  /\ identity = Unset
  /\ admission = <<>>
  /\ lookups = 0
  /\ content = <<>> /\ sent = <<>>
  /\ answer = "none"
  /\ reports \in 0..MaxReports
  /\ served \in Configured
  /\ reserved \in {{}, Reservable}
  /\ catalog \in Catalogs
  /\ marked = {m.name : m \in {n \in catalog : n.multimodal}}
  /\ refreshing = <<>>

Handler ==
  \/ Refused \/ ServeStatic \/ ParseBody \/ ParseCount \/ ParseAudio \/ ParseConvert
  \/ ParseRealtime
  \/ Metadata \/ RankCandidates \/ CheckCandidate \/ ChooseModel
  \/ KnownModel \/ Lookup \/ Admit
  \/ KeepPart \/ ConvertFile \/ FinishBody
  \/ Route \/ ServeModel \/ Tokenize \/ CountTokens

Environment ==
  ReportSent \/ Reload \/ StartRefresh \/ MarkMultimodal \/ StoreIntelligence

Next == Handler \/ Environment

Spec == Init /\ [][Next]_vars

----------------------------------------------------------------------------
(* Properties.                                                             *)

\* Every variable keeps its type, and no more than MaxReports reports of
\* unknown models are in flight (billing/unknown_model.go, Report).
TypeOK ==
  /\ req \in Requests
  /\ pc \in {"arrive", "auto", "walk", "chosen", "known", "admit", "pools", "files",
             "route", "select", "count", "tokenize", "over"}
  /\ body \in [BodyFields -> Writers]
  /\ model \in Models \cup {AutoModel, NoModel}
  /\ Len(chosen) <= 1 /\ Len(admission) <= 1 /\ Len(refreshing) <= 1
  /\ identity \in Orgs \cup {Unset, Unavailable, NoOrg}
  /\ lookups \in Nat
  /\ reports \in 0..MaxReports
  /\ served \subseteq Models /\ reserved \subseteq Models /\ marked \subseteq Models
  /\ catalog \in Catalogs

\* A request is counted against the caller's quota at most once on its way
\* through the handler, whatever it does on the way (choice of a model, file
\* conversions, tools), and nothing is sent to a replica, the tool runtime or
\* the converter before that; counting input tokens is never charged
\* (main.go, admit, and the comment above it).
AdmittedOnce ==
  /\ lookups <= 1
  /\ \A i \in DOMAIN sent :
       /\ sent[i].to # "tokenizer" => admission # <<>> /\ (apiKey = "api" => lookups = 1)
       /\ sent[i].to = "tokenizer" => lookups = 0

\* A body the router has gone over: no priority, cache salt, cache secret or
\* router option is the client's; the limits are those a gateway put in the
\* headers; there is a priority exactly for the callers that were given one,
\* for a stream the usage options billing needs (with the mark that the client
\* had asked too), and for "auto" no effort the client chose.
Owned(b) ==
  /\ b["priority"] # "client" /\ b["cache_salt"] # "client"
  /\ b["user_cache_secret"] = "absent"
  /\ req.path \in OpenAIPaths =>
       /\ b["options"] = "absent"
       /\ req.path \in priorityPaths =>
            (b["priority"] = "router" <=> admission[1].priority # "none")
       /\ req.path = "chat" /\ req.headers["n"] # "absent" => b["n"] = "router"
       /\ req.path \in maxOutputTokensPaths /\ req.headers["max_tokens"] # "absent" =>
            b["max_tokens"] = "router"
       /\ req.stream => b["stream_options"] = "router" /\
            (b["usage_header"] = "router" <=> "stream_options" \in req.fields)
       /\ req.model = AutoModel => b["effort"] # "client" /\ b["auto_options"] = "absent"

\* Everything that leaves for a replica or the tool runtime has been gone over,
\* whichever way the request took through the handler (main.go:785-971,
\* applyPriority, applyCacheSalt, ApplyEffort).
RouterOwnsFields ==
  \A i \in DOMAIN sent :
    sent[i].to \in {"replica", "tools"} /\ req.path \in OpenAIPaths \cup {"speech"} =>
      Owned(sent[i].body)

\* "auto" ends at the closest candidate that was healthy when it was looked
\* at, or, when none was, at the closest the caller may use at all: no closer
\* candidate was passed over for a worse reason than that, and a request with
\* pictures or files never ends at a text-only model (resolveAutoModel).
AutoTakesClosest ==
  req.path \in OpenAIPaths \cup CountPaths /\ req.model = AutoModel /\ model # AutoModel =>
    LET at == CHOOSE i \in DOMAIN seen : seen[i].c.name = model /\ seen[i].c = chosen[1]
        target == ParseIntelligence(req.option, req.level)[1]
    IN  /\ seen[at].eligible
        /\ \A i \in 1..(at - 1) : Precedes(seen[i].c, seen[at].c, target)
        /\ IF \E i \in DOMAIN seen : seen[i].healthy
           THEN seen[at].healthy /\ \A i \in 1..(at - 1) : ~seen[i].healthy
           ELSE \A i \in 1..(at - 1) : ~seen[i].eligible
        /\ HasVisualInput(req) => model \in marked

\* Once the control plane has said who the caller is, every dispatch of the
\* request (file conversions, tools, replica, tokenizer) uses that caller's
\* pools, even if the cached context names another organization; and all of
\* them use the same (admit and resolveOrg share orgContext).
OneCaller ==
  /\ identity \notin {Unset, Unavailable} =>
       \A i \in DOMAIN sent : sent[i].org = identity
  /\ \A i, j \in DOMAIN sent : sent[i].org = sent[j].org

\* What a replica or the tool runtime gets has every part of the message in
\* its place, no file among them, and page images only for a model that takes
\* them (rewriteChatCompletionsBase64Files, resolveFileMode).
FilesRendered ==
  \A i \in DOMAIN sent :
    sent[i].to \in {"replica", "tools"} /\ req.path \in {"chat", "responses"} =>
      /\ {content[k].of : k \in DOMAIN content} = DOMAIN req.parts
      /\ \A k, l \in DOMAIN content : k < l => content[k].of <= content[l].of
      /\ \A k \in DOMAIN content :
           /\ content[k].shape = "kept" <=> req.parts[content[k].of].kind # "file"
           /\ content[k].shape = "image" => model \in marked

\* A score is never visible before the capability of its model: a visual
\* request cannot meet a catalog that ranks a multimodal model as text-only
\* (refreshModelMetadata stores the capabilities first).
MarkedBeforeScored ==
  \A m \in catalog : m.multimodal => m.name \in marked

\* The conversation whose tokens are counted says what the request says, in
\* its order, and has no two messages in a row that are nothing but calls
\* (responsesMessages, appendFunctionCall).
CountsTheConversation ==
  pc = "tokenize" /\ req.path = "count_responses" =>
    LET messages == responsesMessages(req.items)
        calls(k) == messages[k].calls # <<>>
    IN  /\ Said(messages) = [k \in DOMAIN req.items |-> req.items[k].id]
        /\ \A k \in 1..(Len(messages) - 1) : ~(calls(k) /\ calls(k + 1))
        /\ \A k \in DOMAIN messages : calls(k) => messages[k].content = <<>>

\* "Unknown models must 404 without being counted against anyone's quota"
\* (main.go:858-859): whichever of the three places looks the model up last, a
\* request for one the router does not serve was not charged.
UnknownNotCounted == answer = "404" => lookups = 0

\* The quota is charged once for a request that is served and never for one
\* whose model is not.
QuotaKept == AdmittedOnce /\ UnknownNotCounted

\* The conversation keeps its parts and their order on both of its ways out:
\* with its files rendered to a replica, and flattened to the tokenizer.
ConversationKept == FilesRendered /\ CountsTheConversation
==============================================================================
