-------------------------- MODULE MCRequestHandler ---------------------------
(***************************************************************************)
(* The handler with three models, the document converter and two callers.   *)
(* Model 1 is text-only, 2 multimodal and at times reserved, 3 multimodal;  *)
(* levels are out of 10.                                                    *)
(***************************************************************************)
EXTENDS RequestHandler, TLC

MCModels == 1..4
MCDocUpload == 4
MCConfigured == {MCModels, {1, 2}, {3}}
MCReservable == {2}
MCOrgs == {"acme", "zeta"}
MCHasPool == [m \in MCModels |-> IF m = 2 THEN {"acme"} ELSE MCOrgs \cup {NoOrg}]
MCDefaultModel == [p \in OtherPaths |-> IF p = "convert" THEN MCDocUpload ELSE 1]

\* Efforts in alphabetical order: high, low, off.
Text == [name |-> 1, multimodal |-> FALSE, scores |-> (1 :> 40 @@ 2 :> 25), tuned |-> {<<"chat", 1>>}]
Held == [name |-> 2, multimodal |-> TRUE, scores |-> (1 :> 50), tuned |-> {}]
Open == [name |-> 3, multimodal |-> TRUE, scores |-> (3 :> 25), tuned |-> {<<"chat", 3>>}]
MCCatalogs == {{Text}, {Text, Held, Open}}

MCConversions == {[pages |-> <<>>, text |-> TRUE], [pages |-> <<TRUE, FALSE>>, text |-> FALSE]}

Prose == [kind |-> "other", holder |-> "inline", data |-> "base64", mode |-> "absent",
          looks |-> {}]
Picture == [Prose EXCEPT !.kind = "image"]
File(mode) == [Prose EXCEPT !.kind = "file", !.mode = mode]
Notes == [File("absent") EXCEPT !.data = "data_url", !.looks = {"utf8", "text_type"}]
Broken == [File("absent") EXCEPT !.data = "data_url_plain"]
Stored == [File("absent") EXCEPT !.holder = "by_id"]

Item(type, role, id) ==
  [type |-> type, role |-> role, id |-> id, parts |-> {"input_text"}, lacks |-> {}]

NoHeaders == [h \in {"max_tokens", "n"} |-> "absent"]
BothHeaders == [h \in {"max_tokens", "n"} |-> "number"]

Plain == [path |-> "chat", key |-> "api", subprotocol |-> "none", fault |-> "none",
          model |-> 1, modelHeader |-> "absent", stream |-> FALSE, tools |-> FALSE,
          intent |-> FALSE, option |-> Unstated, level |-> Unstated, fields |-> {},
          headers |-> NoHeaders, access |-> [options |-> "absent", tools |-> {}],
          parts |-> <<Prose>>, items |-> <<>>, params |-> {}]

\* Sent to be refused, each by another check.
Faulty ==
  {[Plain EXCEPT !.fault = f] : f \in {"too_large", "usage_context", "body"}}
  \cup {[Plain EXCEPT !.access.options = "other"], [Plain EXCEPT !.access.tools = {"bool", "other"}],
        [Plain EXCEPT !.modelHeader = "other"], [Plain EXCEPT !.headers["n"] = "malformed"],
        [Plain EXCEPT !.path = "audio", !.fault = "body"]}

\* Chosen by the router, with the client's own fields in the body.
Choosing ==
  {[Plain EXCEPT !.model = AutoModel, !.fields = {"effort", "auto_options"}, !.option = o,
                 !.level = l, !.parts = p]
   : <<o, l, p>> \in {<<Unstated, Unstated, <<Prose>>>>,
                      <<Stated(8), Malformed, <<Picture>>>>,
                      <<Unstated, Stated(5), <<Prose, File("absent")>>>>,
                      <<Stated(11), Unstated, <<Prose>>>>,
                      <<Stated(10), Unstated, <<Prose>>>>}}

\* Named by the client.
Named ==
  {[Plain EXCEPT !.model = m, !.path = p, !.stream = TRUE, !.fields = BodyFields \ {"usage_header"},
                 !.headers = BothHeaders, !.modelHeader = "same"]
   : <<m, p>> \in {<<1, "chat">>, <<2, "chat">>, <<2, "completions">>, <<1, "decisions">>,
                   <<1, "embeddings">>, <<NoModel, "chat">>}}
  \cup {[Plain EXCEPT !.stream = TRUE, !.headers["n"] = "number", !.fields = {"n"}]}

WithFiles ==
  {[Plain EXCEPT !.model = m, !.path = "responses", !.parts = p, !.tools = t]
   : <<m, t>> \in {<<1, FALSE>>, <<3, TRUE>>},
     p \in {<<Prose, File("auto"), Notes>>, <<File("images"), Prose>>, <<Notes, Broken>>, <<Stored>>,
            <<File("text"), File("unknown")>>, <<File("absent"), File("vlm")>>}}

Others ==
  {[Plain EXCEPT !.path = p, !.model = m, !.key = k, !.intent = (k = "api"),
                 !.fields = {"priority", "cache_salt", "user_cache_secret"}]
   : p \in OtherPaths, m \in {2, NoModel}, k \in {"none", "jwt", "api"}}
  \cup {[Plain EXCEPT !.path = "realtime", !.key = "none", !.subprotocol = "api"]}

Conversation ==
  <<Item("message", "user", 1), Item("", "assistant", 2), Item("function_call", "", 3),
    Item("function_call", "", 4), Item("function_call_output", "", 5),
    Item("function_call_output", "", 6), Item("function_call", "", 7)>>

Counting ==
  {[Plain EXCEPT !.path = p, !.model = m, !.key = k, !.items = i]
   : p \in CountPaths, m \in {AutoModel, 2, NoModel}, k \in {"none", "api"},
     i \in {Conversation, <<Item("reasoning", "", 1)>>}}
  \cup {[Plain EXCEPT !.path = p, !.params = {w}, !.items = Conversation]
         : p \in CountPaths, w \in {"no_messages", "conversation", "other_tools"}}

MCRequests ==
  Choosing \cup Named \cup WithFiles \cup Others \cup Counting
  \cup Faulty \cup {[Plain EXCEPT !.path = p] : p \in StaticPaths}
==============================================================================
