--------------------------- MODULE MCResponsePath ---------------------------
(* Streams of a few chat and Responses API events, and one response of every
   kind ModifyResponse tells apart. *)
EXTENDS ResponsePath

U(p, c, t) == [p |-> p, c |-> c, t |-> t]

Control == [named |-> FALSE, data |-> TRUE, term |-> FALSE, usage |-> <<>>, empty |-> FALSE,
            token |-> FALSE, error |-> FALSE, size |-> 1]
Delta == [Control EXCEPT !.token = TRUE, !.usage = <<U(1, 1, 0)>>]
Long(n) == [Control EXCEPT !.token = TRUE, !.size = n]
UsageOnly == [Control EXCEPT !.usage = <<U(1, 2, 3)>>, !.empty = TRUE]
Done == [Control EXCEPT !.term = TRUE]
Ping == [Control EXCEPT !.data = FALSE]
Completed == [Control EXCEPT !.named = TRUE, !.term = TRUE, !.usage = <<U(0, 2, 2)>>]
Failed == [Control EXCEPT !.named = TRUE, !.term = TRUE, !.error = TRUE]

MCEvents == {Delta, Long(3), Long(4), UsageOnly, Done, Ping, Completed, Failed}

Stream == [status |-> "ok", type |-> "sse", encoded |-> FALSE, key |-> TRUE,
           metrics |-> TRUE, asked |-> FALSE, model |-> "plain", flat |-> FALSE,
           timed |-> TRUE, usage |-> <<>>, over |-> FALSE]
Answer == [Stream EXCEPT !.type = "json", !.usage = <<U(1, 2, 3)>>, !.timed = FALSE]

MCResponses ==
  {Stream,
   [Stream EXCEPT !.metrics = FALSE, !.asked = TRUE],
   [Stream EXCEPT !.model = "websearch", !.timed = FALSE],
   [Stream EXCEPT !.flat = TRUE, !.status = "4xx"]}
  \union {[r EXCEPT !.metrics = m, !.key = k] : m \in BOOLEAN, k \in BOOLEAN, r \in
     {Answer,
      [Answer EXCEPT !.usage = <<>>, !.flat = TRUE],
      [Answer EXCEPT !.over = TRUE, !.flat = TRUE],
      [Answer EXCEPT !.type = "other", !.usage = <<>>, !.timed = TRUE],
      [Answer EXCEPT !.type = "other", !.usage = <<>>, !.flat = TRUE],
      [Answer EXCEPT !.model = "websearch"],
      [Answer EXCEPT !.model = "privacy_filter"],
      [Answer EXCEPT !.status = "4xx", !.timed = TRUE],
      [Answer EXCEPT !.status = "5xx", !.encoded = TRUE, !.timed = TRUE],
      [Answer EXCEPT !.status = "switching"]}}
=============================================================================
