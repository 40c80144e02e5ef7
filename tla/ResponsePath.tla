---------------------------- MODULE ResponsePath ----------------------------
(* The way back of one proxied request: manager/proxy.go decides what happens
   to the replica's response, tokencount/extractor.go reads an event stream in
   a goroutine of its own and hands it line by line through a pipe to the
   reverse proxy's copy loop, latency.go watches what is written to the
   client, and manager/usage_writer.go adds the usage trailer.

   The replica's event stream is chosen event by event; it may end or break at
   any line, and the client may leave at any step.  A response is a record
     status   "switching" (101), "ok" (200), "4xx" or "5xx"
     type     "sse", "json" or "other", from Content-Type
     encoded  it has a Content-Encoding
     key      the request carried an API key
     metrics  the client asked for the usage header or trailer
     asked    the client asked for usage chunks in the stream
     model    "plain", "privacy_filter" or "websearch"
     flat     the model's price does not depend on the usage
     timed    the request goes through a latencyWriter (the privacy filter's
              do not)
     usage    <<>> or <<u>>, the usage a JSON body carries
     over     the JSON body exceeds maxUsageMetricsBodyBytes
   and a stream event is a record
     named    it has an "event:" line        data   it has a data line
     term     it ends the stream ([DONE], response.completed, ...)
     usage    <<>> or <<u>>                  empty  its choices are empty
     token    it carries generated output    error  it carries an error
     size     length of its data line, in reads of the copy loop
   A usage u has the fields p, c and t: prompt, completion and total tokens. *)
EXTENDS Naturals, Sequences

CONSTANTS Responses,  \* the responses a replica may answer with
          Events,     \* the events of its streams
          MaxEvents,  \* bound: events of one stream
          Cap         \* maxSSEBufferBytes, in reads of the copy loop

Usages == [{"p", "c", "t"} -> Nat]

Response == [status : {"switching", "ok", "4xx", "5xx"}, type : {"sse", "json", "other"},
             encoded : BOOLEAN, key : BOOLEAN, metrics : BOOLEAN, asked : BOOLEAN,
             model : {"plain", "privacy_filter", "websearch"}, flat : BOOLEAN,
             timed : BOOLEAN, usage : Seq(Usages), over : BOOLEAN]

StreamEvent == [named : BOOLEAN, data : BOOLEAN, term : BOOLEAN, usage : Seq(Usages),
                empty : BOOLEAN, token : BOOLEAN, error : BOOLEAN, size : Nat]

\* No line is exactly as long as the detector's buffer, so that the few bytes
\* of the "data:" prefix decide nothing.
ASSUME PathAssumption ==
  /\ Responses \subseteq Response
  /\ Events \subseteq StreamEvent
  /\ \A x \in Responses \cup Events : Len(x.usage) <= 1
  /\ MaxEvents \in Nat /\ Cap \in Nat
  /\ \A e \in Events : e.size \in Nat \ {0, Cap}

VARIABLES
  resp,     \* the response
  pc,       \* the reverse proxy: headers, copy, close, trailer, finish, over
  body,     \* the body ModifyResponse left: plain, tee, memory, pipe, hijacked
  billable, \* the body is wrapped in a billingCloser
  sent,     \* events the replica began to send
  left,     \* lines of the last of them still to come
  source,   \* the replica's side of the stream: open, eof, failed
  ext,      \* the extractor's goroutine: off, scan, report, close, done
  flags,    \* the extractor's flags
  used,     \* the usage it has collected
  pipe,     \* the line in the pipe and the reads it still needs
  pipeEnd,  \* how the writer closed the pipe: open, eof, error
  got,      \* lines the client received
  client,   \* here, gone
  aborted,  \* the copy failed and the handler was unwound
  read,     \* how much of a plain body was copied: none, part, all
  wrapper,  \* usage kept for the trailer
  shown,    \* usage shown to the client in the header or trailer
  bills,    \* billing events
  det,      \* the first-token detector
  token,    \* a first token was observed
  verdict   \* what finish recorded, and the outcome label of the duration

copyVars == <<pc, body, billable, got, aborted, read, det, token>>
extVars == <<sent, left, source, ext, flags, used, pipeEnd, wrapper>>
vars == <<resp, copyVars, extVars, pipe, client, shown, bills, verdict>>

-----------------------------------------------------------------------------
(* Usage and billing *)

Zero == [p |-> 0, c |-> 0, t |-> 0]

Sse == resp.type = "sse"
Ok == resp.status = "ok"
Bad == resp.status \in {"4xx", "5xx"}

\* Only positive fields of a later usage replace what was collected.
Merge(old, u) ==
  [f \in {"p", "c", "t"} |-> IF u[f] > 0 THEN u[f] ELSE old[f]]

\* A stream that never reported a total gets the sum.
WithTotal(u) == IF u.t = 0 THEN [u EXCEPT !.t = u.p + u.c] ELSE u

\* The quantities of one billing event (Collector.AddEvent).
Meters(u) ==
  [input |-> IF u.p = 0 /\ u.c = 0 THEN u.t ELSE u.p, output |-> u.c]

EmitZeroTokenEvent(b) == IF resp.key THEN Append(b, Meters(Zero)) ELSE b

\* usageHandler: a websearch parent is billed its fee and never its tokens.
UsageHandler(b, u) ==
  IF resp.model = "websearch" THEN EmitZeroTokenEvent(b) ELSE Append(b, Meters(u))

-----------------------------------------------------------------------------
(* ModifyResponse *)

Normalized == Bad /\ ~Sse /\ ~resp.encoded
Buffered == ~Sse /\ resp.metrics /\ Ok /\ resp.type = "json"

\* The code past the early returns is reached.
Ordinary == resp.status # "switching" /\ ~Normalized /\ resp.model # "privacy_filter"

\* The header an ordinary response starts with: a model whose price is known
\* without usage reports it at once.
FlatHeader == IF ~Sse /\ resp.metrics /\ Ok /\ resp.flat THEN <<Zero>> ELSE <<>>

StartCopy(kind) == pc' = "copy" /\ body' = kind

\* The connection is hijacked: bill the request and touch nothing.
SwitchProtocols ==
  /\ pc = "headers" /\ resp.status = "switching"
  /\ bills' = EmitZeroTokenEvent(bills)
  /\ pc' = "trailer" /\ body' = "hijacked"
  /\ UNCHANGED <<resp, billable, got, aborted, read, det, token, extVars, pipe,
                 client, shown, verdict>>

\* A backend error is replaced by the router's envelope and never billed.
NormalizeUpstreamErrorResponse ==
  /\ pc = "headers" /\ Normalized
  /\ StartCopy("memory")
  /\ UNCHANGED <<resp, billable, got, aborted, read, det, token, extVars, pipe,
                 client, shown, bills, verdict>>

\* The privacy filter reports its own usage.
PrivacyFilter ==
  /\ pc = "headers" /\ resp.status # "switching" /\ ~Normalized
  /\ resp.model = "privacy_filter"
  /\ StartCopy("plain")
  /\ shown' = IF resp.metrics /\ Ok THEN <<Zero>> ELSE <<>>
  /\ UNCHANGED <<resp, billable, got, aborted, read, det, token, extVars, pipe,
                 client, bills, verdict>>

\* A JSON answer is read whole, so that its usage can go into a header.
BufferBody ==
  /\ pc = "headers" /\ Ordinary /\ Buffered /\ ~resp.over
  /\ bills' = IF resp.usage # <<>> THEN UsageHandler(bills, resp.usage[1])
                                   ELSE EmitZeroTokenEvent(bills)
  /\ shown' = IF resp.usage # <<>> THEN resp.usage ELSE FlatHeader
  /\ StartCopy("memory")
  /\ UNCHANGED <<resp, billable, got, aborted, read, det, token, extVars, pipe,
                 client, verdict>>

\* Too long a JSON answer is passed on as it is.
BufferOverflow ==
  /\ pc = "headers" /\ Ordinary /\ Buffered /\ resp.over
  /\ StartCopy("plain")
  /\ shown' = FlatHeader
  /\ UNCHANGED <<resp, billable, got, aborted, read, det, token, extVars, pipe,
                 client, bills, verdict>>

\* The read failed: the error handler answers instead.
BufferFails ==
  /\ pc = "headers" /\ Ordinary /\ Buffered
  /\ StartCopy("memory")
  /\ resp' = [resp EXCEPT !.status = "5xx"]
  /\ UNCHANGED <<billable, got, aborted, read, det, token, extVars, pipe, client,
                 shown, bills, verdict>>

\* A stream is read by the extractor's goroutine.
ExtractStream ==
  /\ pc = "headers" /\ Ordinary /\ Sse
  /\ StartCopy("pipe")
  /\ ext' = "scan"
  /\ UNCHANGED <<resp, billable, got, aborted, read, det, token, sent, left, source,
                 flags, used, pipeEnd, wrapper, pipe, client, shown, bills, verdict>>

\* Any other body is copied as it is, a JSON one through a tee; a successful
\* answer is billed when it is closed.
ExtractBody ==
  /\ pc = "headers" /\ Ordinary /\ ~Sse /\ ~Buffered
  /\ StartCopy(IF Ok /\ resp.type = "json" THEN "tee" ELSE "plain")
  /\ billable' = (resp.key /\ Ok)
  /\ shown' = FlatHeader
  /\ UNCHANGED <<resp, got, aborted, read, det, token, extVars, pipe, client,
                 bills, verdict>>

ModifyResponse ==
  \/ SwitchProtocols \/ NormalizeUpstreamErrorResponse \/ PrivacyFilter
  \/ BufferBody \/ BufferOverflow \/ BufferFails \/ ExtractStream \/ ExtractBody

-----------------------------------------------------------------------------
(* The extractor: one line of the replica's stream per step *)

Blank == [t |-> "blank"]
Partial == [t |-> "partial"]

LinesOf(e) ==
  LET line == [t |-> IF e.data THEN "data" ELSE "comment", e |-> e]
  IN IF e.named THEN <<[t |-> "event", e |-> e], line, Blank>> ELSE <<line, Blank>>

NoFlags == [filtered |-> FALSE, pending |-> FALSE, named |-> FALSE, data |-> FALSE]

\* A usage-only chunk the client did not ask for.
Dropped(line) ==
  line.t = "data" /\ line.e.usage # <<>> /\ line.e.empty /\ ~resp.asked

\* The blank line after a dropped chunk is dropped with it.
Skipped(line) == line.t = "blank" /\ flags.filtered

\* The flags after a line, before a blank line resets them.
Noted(line) ==
  [filtered |-> Dropped(line),
   pending  |-> flags.pending \/ (line.t = "data" /\ line.e.term),
   named    |-> IF line.t = "event" THEN line.e.term ELSE flags.named,
   data     |-> flags.data \/ line.t \in {"data", "partial"}]

\* A blank line ends the stream when its event was a terminal one.
EndsStream(line) ==
  line.t = "blank" /\ ~Skipped(line) /\ (flags.pending \/ flags.named) /\ flags.data

LineSize(line) == IF line.t = "data" THEN line.e.size ELSE 1

\* Write blocks until the copy loop has read the line or closed its end, and
\* its error is ignored.
MutPipeOpen == pc # "headers"
PipeOpen == pc \in {"copy", "close"}
Drained == pipe = <<>> \/ ~PipeOpen

WriteLine(line) ==
  pipe' = IF PipeOpen /\ ~Dropped(line) /\ ~Skipped(line)
            THEN <<[line |-> line, reads |-> LineSize(line)]>> ELSE <<>>

ProcessLine(line) ==
  /\ WriteLine(line)
  /\ flags' = IF line.t = "blank" THEN NoFlags ELSE Noted(line)
  /\ used' = IF line.t = "data" /\ line.e.usage # <<>>
               THEN Merge(used, line.e.usage[1]) ELSE used

\* The scanner returns the replica's next line.
Scan ==
  /\ ext = "scan" /\ Drained /\ source = "open"
  /\ \E lines \in IF left # <<>> THEN {left}
                  ELSE {LinesOf(e) : e \in IF Len(sent) < MaxEvents THEN Events ELSE {}} :
       /\ ProcessLine(Head(lines))
       /\ left' = Tail(lines)
       /\ sent' = IF left = <<>> THEN Append(sent, lines[Len(lines) - 1].e) ELSE sent
       /\ ext' = IF EndsStream(Head(lines)) THEN "report" ELSE "scan"
  /\ UNCHANGED <<resp, copyVars, source, pipeEnd, wrapper, client, shown, bills, verdict>>

\* The replica's stream ends or breaks, perhaps in the middle of a line, which
\* the scanner still returns.  When the client has left, the canceled context
\* makes the read fail.
StreamStops(how) ==
  /\ ext = "scan" /\ Drained /\ source = "open"
  /\ source' = how
  /\ ext' = "report"
  /\ \/ UNCHANGED <<pipe, flags, used>>
     \/ left # <<>> /\ Head(left).t = "data" /\ ProcessLine(Partial)
  /\ UNCHANGED <<resp, copyVars, sent, left, pipeEnd, wrapper, client, shown, bills, verdict>>

\* The usage handler runs once the stream is read, and before the pipe closes.
MutReport ==
  /\ ext = "report"
  /\ ext' = "close"
  /\ bills' = IF used.t > 0 \/ used.c > 0
                THEN UsageHandler(bills, WithTotal(used)) ELSE bills
  /\ UNCHANGED <<resp, copyVars, sent, left, source, flags, used, pipe, pipeEnd, wrapper,
                 client, shown, verdict>>

Report ==
  /\ ext = "report" /\ Drained
  /\ ext' = "close"
  /\ used' = IF used.t > 0 \/ used.c > 0 THEN WithTotal(used) ELSE used
  /\ bills' = IF used.t > 0 \/ used.c > 0 THEN UsageHandler(bills, used') ELSE bills
  /\ wrapper' = IF (used.t > 0 \/ used.c > 0) /\ resp.metrics THEN <<used'>> ELSE wrapper
  /\ UNCHANGED <<resp, copyVars, sent, left, source, flags, pipe, pipeEnd, client,
                 shown, verdict>>

\* A read failure closes the pipe with an error.
MutClosePipe ==
  /\ ext = "close"
  /\ ext' = "done"
  /\ pipeEnd' = "eof"
  /\ UNCHANGED <<resp, copyVars, sent, left, source, flags, used, wrapper, pipe, client,
                 shown, bills, verdict>>

ClosePipe ==
  /\ ext = "close"
  /\ ext' = "done"
  /\ pipeEnd' = IF source = "failed" THEN "error" ELSE "eof"
  /\ UNCHANGED <<resp, copyVars, sent, left, source, flags, used, wrapper, pipe, client,
                 shown, bills, verdict>>

-----------------------------------------------------------------------------
(* The first-token detector *)

Watching == resp.timed /\ Ok

NoDetector ==
  [line |-> 0, data |-> <<>>, skipLine |-> FALSE, skipEvent |-> FALSE, sawError |-> FALSE]

\* One read of the copy loop that does not complete a line.
BufferPartial(d) ==
  IF d.skipLine THEN d
  ELSE IF d.line + 1 > Cap
    THEN [d EXCEPT !.line = 0, !.skipLine = TRUE, !.skipEvent = TRUE]
    ELSE [d EXCEPT !.line = @ + 1]

\* An event counts as output when it carries a token and no error.
ClassifyEvent(e) == e.token /\ ~e.error

ClosesToken(d, line) ==
  /\ line.t = "blank" /\ ~d.skipLine /\ ~d.skipEvent
  /\ d.data # <<>> /\ ClassifyEvent(d.data[1])

ProcessDetectorLine(d, line) ==
  CASE line.t = "blank" ->
         [d EXCEPT !.data = <<>>, !.skipEvent = FALSE,
                   !.sawError = @ \/ (~d.skipEvent /\ d.data # <<>> /\ d.data[1].error)]
    [] line.t = "data" /\ ~d.skipEvent -> [d EXCEPT !.data = <<line.e>>]
    [] OTHER -> d

\* The read that completes a line: the tail of a line that overflowed is
\* dropped and its event stays poisoned.
CompleteLine(d, line) ==
  IF d.skipLine THEN [d EXCEPT !.skipLine = FALSE]
  ELSE IF d.line + 1 > Cap THEN [d EXCEPT !.line = 0, !.skipEvent = TRUE]
  ELSE ProcessDetectorLine([d EXCEPT !.line = 0], line)

\* latencyWriter.Write, after the write to the client succeeded.
Watch(line, last) ==
  IF Watching /\ ~token
    THEN /\ det' = IF last THEN CompleteLine(det, line) ELSE BufferPartial(det)
         /\ token' = (last /\ ClosesToken(det, line))
    ELSE UNCHANGED <<det, token>>

-----------------------------------------------------------------------------
(* The copy loop *)

\* One read from the pipe, written to the client.
CopyChunk ==
  /\ pc = "copy" /\ body = "pipe" /\ pipe # <<>>
  /\ LET line == pipe[1].line
         last == pipe[1].reads = 1
     IN /\ pipe' = IF last THEN <<>> ELSE <<[pipe[1] EXCEPT !.reads = @ - 1]>>
        /\ got' = IF last THEN Append(got, line) ELSE got
        /\ Watch(line, last)
  /\ UNCHANGED <<resp, pc, body, billable, aborted, read, extVars, client, shown,
                 bills, verdict>>

\* A write to a client that left fails and unwinds the handler; the latency
\* writer sees nothing of it.
CopyFails ==
  /\ pc = "copy" /\ body = "pipe" /\ pipe # <<>> /\ client = "gone"
  /\ pc' = "close" /\ aborted' = TRUE
  /\ UNCHANGED <<resp, body, billable, got, read, det, token, extVars, pipe, client,
                 shown, bills, verdict>>

\* The pipe is closed: a clean end, or an error that unwinds the handler.
CopyEnd ==
  /\ pc = "copy" /\ body = "pipe" /\ pipe = <<>> /\ pipeEnd # "open"
  /\ pc' = "close" /\ aborted' = (pipeEnd = "error")
  /\ UNCHANGED <<resp, body, billable, got, read, det, token, extVars, pipe, client,
                 shown, bills, verdict>>

\* A body that is not a stream is copied whole, or in part when the replica or
\* the client goes away.  Its first byte is the first token.
CopyBody(amount) ==
  /\ pc = "copy" /\ body # "pipe"
  /\ amount = "all" \/ body # "memory" \/ client = "gone"
  /\ pc' = "close" /\ read' = amount /\ aborted' = (amount # "all")
  /\ token' = (Watching /\ amount # "none")
  /\ UNCHANGED <<resp, body, billable, got, det, extVars, pipe, client, shown, bills, verdict>>

\* Closing the body: the tee extracts the usage of what it saw, and the
\* billingCloser bills the request if the handler was not called.
MutCloseBody ==
  /\ pc = "close"
  /\ LET seen == IF body = "tee" /\ read = "all" THEN resp.usage ELSE <<>>
         tee == IF seen # <<>> THEN UsageHandler(bills, seen[1]) ELSE bills
     IN bills' = IF billable THEN EmitZeroTokenEvent(tee) ELSE tee
  /\ pipe' = <<>>
  /\ pc' = IF aborted THEN "finish" ELSE "trailer"
  /\ UNCHANGED <<resp, body, billable, got, aborted, read, det, token, extVars, client,
                 shown, verdict>>

CloseBody ==
  /\ pc = "close"
  /\ LET seen == IF body = "tee" /\ read = "all" THEN resp.usage ELSE <<>>
     IN bills' = IF seen # <<>> THEN UsageHandler(bills, seen[1])
                 ELSE IF billable THEN EmitZeroTokenEvent(bills) ELSE bills
  /\ pipe' = <<>>
  /\ pc' = IF aborted THEN "finish" ELSE "trailer"
  /\ UNCHANGED <<resp, body, billable, got, aborted, read, det, token, extVars, client,
                 shown, verdict>>

\* Enclave.ServeHTTP, once the proxy has returned.
WriteTrailer ==
  /\ pc = "trailer"
  /\ pc' = "finish"
  /\ shown' = IF body = "pipe" /\ resp.metrics THEN wrapper ELSE shown
  /\ UNCHANGED <<resp, body, billable, got, aborted, read, det, token, extVars, pipe,
                 client, bills, verdict>>

\* latencyWriter.finish: why a request ended without a first token.
MutReason ==
  IF Bad \/ aborted \/ det.sawError THEN "error"
  ELSE IF client = "gone" THEN "canceled" ELSE "no_output"

Reason ==
  IF client = "gone" THEN "canceled"
  ELSE IF Bad \/ aborted \/ det.sawError THEN "error" ELSE "no_output"

\* requestOutcome; only a timed request knows its status.
RequestOutcome ==
  IF client = "gone" THEN "canceled"
  ELSE IF aborted \/ (resp.timed /\ resp.status = "5xx") THEN "error"
  ELSE IF resp.timed /\ resp.status = "4xx" THEN "http_4xx" ELSE "ok"

\* The deferred observations; a hijacked connection has none.
Finish ==
  /\ pc = "finish"
  /\ pc' = "over"
  /\ verdict' = IF body = "hijacked" THEN verdict
                ELSE [reason |-> IF resp.timed /\ ~token THEN Reason ELSE "none",
                      outcome |-> RequestOutcome]
  /\ UNCHANGED <<resp, body, billable, got, aborted, read, det, token, extVars, pipe,
                 client, shown, bills>>

ClientLeaves ==
  /\ client = "here" /\ pc # "over"
  /\ client' = "gone"
  /\ UNCHANGED <<resp, copyVars, extVars, pipe, shown, bills, verdict>>

-----------------------------------------------------------------------------

Init ==
  /\ resp \in Responses
  /\ pc = "headers" /\ body = "none" /\ billable = FALSE
  /\ sent = <<>> /\ left = <<>> /\ source = "open"
  /\ ext = "off" /\ flags = NoFlags /\ used = Zero
  /\ pipe = <<>> /\ pipeEnd = "open"
  /\ got = <<>> /\ client = "here" /\ aborted = FALSE /\ read = "none"
  /\ wrapper = IF resp.metrics /\ resp.flat THEN <<Zero>> ELSE <<>>
  /\ shown = <<>> /\ bills = <<>>
  /\ det = NoDetector /\ token = FALSE
  /\ verdict = [reason |-> "none", outcome |-> "none"]

Extractor == Report \/ ClosePipe
Copier ==
  \/ ModifyResponse \/ CopyChunk \/ CopyFails \/ CopyEnd
  \/ \E amount \in {"none", "part", "all"} : CopyBody(amount)
  \/ CloseBody \/ WriteTrailer \/ Finish

Next ==
  \/ Copier \/ Extractor \/ Scan \/ ClientLeaves
  \/ \E how \in {"eof", "failed"} : StreamStops(how)

Spec == Init /\ [][Next]_vars

\* The goroutines run; the replica promises nothing, but once the client has
\* left the canceled context ends the read of its stream.
FairSpec ==
  Spec /\ WF_vars(Copier) /\ WF_vars(Extractor)
       /\ WF_vars(client = "gone" /\ StreamStops("failed"))

-----------------------------------------------------------------------------
(* Properties *)

Lines == (UNION {{LinesOf(e)[i] : i \in 1..Len(LinesOf(e))} : e \in Events})
           \union {Blank, Partial}
IsOptional(o, S) == o \in Seq(S) /\ Len(o) <= 1

\* Type invariant of the response path.
TypeOK ==
  /\ pc \in {"headers", "copy", "close", "trailer", "finish", "over"}
  /\ body \in {"none", "plain", "tee", "memory", "pipe", "hijacked"}
  /\ billable \in BOOLEAN /\ aborted \in BOOLEAN /\ token \in BOOLEAN
  /\ sent \in Seq(Events) /\ Len(sent) <= MaxEvents
  /\ source \in {"open", "eof", "failed"}
  /\ ext \in {"off", "scan", "report", "close", "done"}
  /\ used \in Usages
  /\ pipe = <<>> \/ (pipe[1].line \in Lines /\ pipe[1].reads \in 1..LineSize(pipe[1].line))
  /\ pipeEnd \in {"open", "eof", "error"}
  /\ client \in {"here", "gone"} /\ read \in {"none", "part", "all"}
  /\ IsOptional(wrapper, Usages) /\ IsOptional(shown, Usages)
  /\ det.line \in 0..Cap /\ IsOptional(det.data, Events)
  /\ bills \in Seq([input : Nat, output : Nat])

\* The exchange is over and the extractor's goroutine has ended.
Settled == pc = "over" /\ ext \in {"off", "done"}

\* Events whose data line the scanner returned whole.
Scanned == IF left # <<>> /\ left # <<Blank>> THEN SubSeq(sent, 1, Len(sent) - 1) ELSE sent

\* The last positive value a field had in the stream.
LastReported(f) ==
  LET at == {i \in 1..Len(Scanned) : /\ Scanned[i].data /\ Scanned[i].usage # <<>>
                                      /\ Scanned[i].usage[1][f] > 0}
  IN IF at = {} THEN 0
     ELSE Scanned[CHOOSE i \in at : \A j \in at : j <= i].usage[1][f]

\* Each answered request is billed for what the replica reported, once: a
\* stream for the last usage it carried, however it ended and whoever left
\* first, even after the handler is gone; any other successful answer for its
\* usage or, without one, as a request.  Nothing is billed twice, by the tee
\* and the billingCloser or by the buffer and the extractor.  Not billed are a
\* stream that carried no usage and a JSON answer over the buffer's limit
\* (ModifyResponse, processStream, billingCloser).
BilledOnceForItsUsage ==
  /\ Len(bills) <= 1
  /\ Settled /\ body = "pipe" /\ resp.model = "plain" =>
       LET c == LastReported("c")
           t == LastReported("t")
           u == [p |-> LastReported("p"), c |-> c, t |-> t]
       IN bills = IF t > 0 \/ c > 0 THEN <<Meters(u)>> ELSE <<>>
  /\ Settled /\ Ordinary /\ Ok /\ ~Sse /\ resp.key /\ ~(Buffered /\ resp.over) =>
       Len(bills) = 1

\* The usage the client is shown in the header or trailer is the usage its
\* organisation is billed for (usageHandler, WriteTrailer), and only a client
\* that asked is shown one.
ShownIsBilled ==
  /\ shown # <<>> /\ bills # <<>> /\ resp.model = "plain" => bills[1] = Meters(shown[1])
  /\ shown # <<>> => resp.metrics
  /\ Settled /\ ~aborted /\ body = "pipe" /\ resp.metrics /\ bills # <<>> => shown # <<>>

Terminal(s) == \E i \in 1..Len(s) : s[i].term /\ s[i].data

\* An upstream failure never reaches the client as a clean end of its
\* response, unless the stream had already said it was complete
\* (processStream's deferred CloseWithError).
FailureIsVisible ==
  pc \in {"trailer", "finish", "over"} /\ body = "pipe" /\ ~aborted =>
    source = "eof" \/ Terminal(sent)

\* The lines of the events a client is to see: all but the usage chunks it did
\* not ask for.
Kept(e, asked) == ~(e.data /\ e.usage # <<>> /\ e.empty /\ ~asked)
KeptLines(events, asked) ==
  LET upto[i \in 0..Len(events)] ==
        IF i = 0 THEN <<>>
        ELSE upto[i - 1] \o (IF Kept(events[i], asked) THEN LinesOf(events[i]) ELSE <<>>)
  IN upto[Len(events)]

\* What the replica has sent of them.
Forwarded ==
  LET all == KeptLines(sent, resp.asked)
      cut == IF sent # <<>> /\ Kept(sent[Len(sent)], resp.asked) THEN Len(left) ELSE 0
  IN SubSeq(all, 1, Len(all) - cut)

\* What the client reads is what the replica sent: dropping usage-only chunks
\* takes whole events out and neither joins two events nor leaves an empty one
\* behind, a line cut short is the last, and a client that sees a clean end has
\* all of it (processStream).
FramingKept ==
  body = "pipe" =>
    LET whole == IF got # <<>> /\ got[Len(got)] = Partial
                   THEN SubSeq(got, 1, Len(got) - 1) ELSE got
    IN /\ Len(whole) <= Len(Forwarded) /\ whole = SubSeq(Forwarded, 1, Len(whole))
       /\ pc \in {"trailer", "finish", "over"} /\ ~aborted => whole = Forwarded

\* The client received the blank line of an event that carries output and
\* fits the detector's buffer.
TokenDelivered ==
  \E i \in 2..Len(got) : /\ got[i] = Blank /\ got[i - 1].t = "data"
                          /\ ClassifyEvent(got[i - 1].e) /\ got[i - 1].e.size <= Cap

\* A timed request leaves exactly one mark: a first token if and only if output
\* reached the client, else one reason, and a client that left is never
\* counted as a backend error (latencyWriter.Write, finish).
OneMark ==
  pc = "over" /\ body # "hijacked" =>
    /\ resp.timed => (token <=> verdict.reason = "none")
    /\ resp.timed /\ body = "pipe" /\ Ok => (token <=> TokenDelivered)
    /\ verdict.reason = "error" => verdict.outcome # "canceled"
    /\ aborted /\ source = "open" /\ body = "pipe" => verdict.outcome = "canceled"

\* A terminal event ends the response without waiting for the replica to close
\* its connection (the break on a terminal event's blank line).
TerminalEnds ==
  (body = "pipe" /\ Terminal(sent) /\ left = <<>>) ~> (pc = "over")

\* When the client leaves, the handler and the extractor's goroutine end, so
\* that neither blocks on the pipe for ever (io.Pipe, res.Body.Close).
NobodyLeftBehind == (client = "gone" /\ body # "none") ~> Settled

\* Usage is accounted for: each request is billed once for what was reported,
\* and shows the client nothing else.
UsageAccounted == TypeOK /\ BilledOnceForItsUsage /\ ShownIsBilled

\* The stream the client reads is the replica's, to its end, and ends as that
\* one did.
StreamKept == FramingKept /\ FailureIsVisible

\* A response whose stream is complete, or whose client is gone, comes to an
\* end, whatever the replica does.
ResponseEnds == TerminalEnds /\ NobodyLeftBehind

-----------------------------------------------------------------------------
(* The response path implements Metering.  What a stream has consumed is what
   the extractor has collected; any other answer is read when it is billed. *)
Consumed ==
  IF body = "pipe" THEN Meters(IF resp.model = "websearch" THEN Zero ELSE used)
  ELSE IF bills # <<>> THEN bills[1] ELSE Meters(Zero)

Meter == INSTANCE Metering
           WITH used <- Consumed, Nothing <- Meters(Zero),
                Amounts <- [input : Nat, output : Nat]

\* The one bill of a request is for all that its response reported, and after
\* it nothing is reported or billed (usageHandler, processStream).
Metered == Meter!Spec
=============================================================================
