------------------------ MODULE ResponsePathProofs ------------------------
(***************************************************************************)
(* Machine-checked proofs about ResponsePath, for every set of responses   *)
(* and stream events, every length of a stream and every buffer size.      *)
(***************************************************************************)
EXTENDS ResponsePath, TLAPS

Kinds == {"plain", "tee", "memory", "pipe", "hijacked"}

\* What may still have to come of an event: nothing, the blank line, or a line
\* and the blank line.
Rest ==
  {<<>>, <<Blank>>}
    \union {<<[t |-> t, e |-> e], Blank>> : t \in {"data", "comment"}, e \in Events}

\* The types the proofs use.
Types ==
  /\ resp \in Response
  /\ pc \in {"headers", "copy", "close", "trailer", "finish", "over"}
  /\ body \in Kinds \union {"none"}
  /\ ext \in {"off", "scan", "report", "close", "done"}
  /\ used \in Usages
  /\ left \in Rest

\* Who may still bill: before the headers nobody has, a stream is billed by the
\* extractor's report and by nothing else, any other body when it is buffered
\* or when it is closed.
OneBiller ==
  /\ pc = "headers" => body = "none" /\ ext = "off" /\ used = Zero /\ bills = <<>>
  /\ body = "none" => pc = "headers" /\ ~billable
  /\ body # "pipe" => ext = "off"
  /\ ext \in {"scan", "report"} => bills = <<>>
  /\ body \in {"memory", "pipe", "hijacked"} => ~billable
  /\ body \in {"plain", "tee"} /\ pc \in {"copy", "close"} => bills = <<>>

Inv == Types /\ OneBiller

\* What the usage operators return: usages,
LEMMA ZeroIsUsage == Zero \in Usages
BY DEF Zero, Usages

\* also when a later report is merged into an earlier one
LEMMA MergeIsUsage ==
  ASSUME NEW old \in Usages, NEW u \in Usages PROVE Merge(old, u) \in Usages
BY Zenon DEF Merge, Usages

\* or a missing total is filled in.
LEMMA WithTotalIsUsage ==
  ASSUME NEW u \in Usages PROVE WithTotal(u) \in Usages
BY DEF WithTotal, Usages

\* A bill is an amount of input and output tokens.
LEMMA MetersAreAmounts ==
  ASSUME NEW u \in Usages PROVE Meters(u) \in [input : Nat, output : Nat]
BY Zenon DEF Meters, Usages

\* Heads and tails of the lines of one event.
LEMMA Tails ==
  ASSUME NEW a, NEW b, NEW c
  PROVE  /\ Head(<<a>>) = a /\ Tail(<<a>>) = <<>>
         /\ Head(<<a, b>>) = a /\ Tail(<<a, b>>) = <<b>>
         /\ Head(<<a, b, c>>) = a /\ Tail(<<a, b, c>>) = <<b, c>>
OBVIOUS

\* The next line of the stream and what is left of its event.
LEMMA NextLine ==
  ASSUME left \in Rest,
         NEW lines \in IF left # <<>> THEN {left} ELSE {LinesOf(e) : e \in Events}
  PROVE  /\ Tail(lines) \in Rest
         /\ Head(lines).t = "data" => Head(lines).e \in Events
<1>1. CASE left = <<Blank>>
  <2>1. lines = <<Blank>> /\ Head(lines) = Blank /\ Tail(lines) = <<>>
    BY <1>1, Tails, Zenon
  <2>2. QED
    BY <2>1 DEF Rest, Blank
<1>2. CASE \E t \in {"data", "comment"}, e \in Events : left = <<[t |-> t, e |-> e], Blank>>
  <2>1. PICK t \in {"data", "comment"}, e \in Events : left = <<[t |-> t, e |-> e], Blank>>
    BY <1>2, Zenon
  <2> DEFINE line == [t |-> t, e |-> e]
  <2>2. lines = <<line, Blank>>
    BY <2>1, Zenon
  <2> HIDE DEF line
  <2>3. Head(lines) = line /\ Tail(lines) = <<Blank>>
    BY <2>2, Tails, Zenon
  <2>4. QED
    BY <2>3 DEF Rest, line
<1>3. CASE left = <<>>
  <2>1. PICK e \in Events : lines = LinesOf(e)
    BY <1>3, Zenon
  <2> DEFINE line == [t |-> IF e.data THEN "data" ELSE "comment", e |-> e]
  <2>2. <<line, Blank>> \in Rest
    BY DEF Rest
  <2>3. CASE e.named
    <3>1. lines = <<[t |-> "event", e |-> e], line, Blank>>
      BY <2>1, <2>3, Zenon DEF LinesOf
    <3> HIDE DEF line
    <3>2. Head(lines) = [t |-> "event", e |-> e] /\ Tail(lines) = <<line, Blank>>
      BY <3>1, Tails
    <3>3. Head(lines).t # "data"
      BY <3>2
    <3>4. QED
      BY <3>2, <3>3, <2>2, Zenon
  <2>4. CASE ~e.named
    <3>1. lines = <<line, Blank>>
      BY <2>1, <2>4, Zenon DEF LinesOf
    <3> HIDE DEF line
    <3>2. Head(lines) = line /\ Tail(lines) = <<Blank>>
      BY <3>1, Tails, Zenon
    <3>3. line.e \in Events
      BY Zenon DEF line
    <3>4. QED
      BY <3>2, <3>3 DEF Rest
  <2>5. QED
    BY <2>3, <2>4, Zenon
<1>4. QED
  BY <1>1, <1>2, <1>3 DEF Rest

\* A line changes what was collected only to another usage.
LEMMA LineUsage ==
  ASSUME Types, NEW line, line.t = "data" => line.e \in Events, ProcessLine(line)
  PROVE  used' \in Usages
BY PathAssumption, MergeIsUsage DEF Types, ProcessLine, StreamEvent

(***************************************************************************)
(* Inv is inductive.                                                       *)
(***************************************************************************)
LEMMA InvInit == Init => Inv
BY PathAssumption, ZeroIsUsage DEF Init, Inv, Types, OneBiller, Kinds, Rest

\* The steps that decide what becomes of the response.
LEMMA HeadersStep == Inv /\ ModifyResponse => Inv'
<1> SUFFICES ASSUME Inv, ModifyResponse PROVE Inv'
  BY Zenon
<1> USE DEF Inv, Types, OneBiller, Kinds, StartCopy, extVars
<1>1. CASE SwitchProtocols                 BY <1>1, Zenon DEF SwitchProtocols
<1>2. CASE NormalizeUpstreamErrorResponse  BY <1>2, Zenon DEF NormalizeUpstreamErrorResponse
<1>3. CASE PrivacyFilter                   BY <1>3, Zenon DEF PrivacyFilter
<1>4. CASE BufferBody                      BY <1>4, Zenon DEF BufferBody
<1>5. CASE BufferOverflow                  BY <1>5, Zenon DEF BufferOverflow
<1>6. CASE BufferFails                     BY <1>6, Zenon DEF BufferFails, Response
<1>7. CASE ExtractStream                   BY <1>7, Zenon DEF ExtractStream
<1>8. CASE ExtractBody                     BY <1>8, Zenon DEF ExtractBody
<1>9. QED
  BY <1>1, <1>2, <1>3, <1>4, <1>5, <1>6, <1>7, <1>8, Zenon DEF ModifyResponse

\* The steps of the extractor's goroutine.
LEMMA ExtractorStep ==
  Inv /\ (Scan \/ StreamStops("eof") \/ StreamStops("failed") \/ Report \/ ClosePipe) => Inv'
<1> SUFFICES ASSUME Inv,
                    Scan \/ StreamStops("eof") \/ StreamStops("failed") \/ Report \/ ClosePipe
             PROVE  Inv'
  BY Zenon
<1> USE DEF Inv, Types, OneBiller, Kinds, copyVars
<1>1. CASE Scan
  <2>1. PICK lines \in IF left # <<>> THEN {left} ELSE {LinesOf(e) : e \in Events} :
          /\ ProcessLine(Head(lines))
          /\ left' = Tail(lines)
          /\ ext' \in {"report", "scan"}
    BY <1>1, Zenon DEF Scan
  <2>2. left' \in Rest /\ used' \in Usages
    BY <2>1, NextLine, LineUsage, Zenon
  <2>3. QED
    BY <1>1, <2>1, <2>2, Zenon DEF Scan
<1>2. CASE StreamStops("eof") \/ StreamStops("failed")
  <2>1. used' \in Usages
    BY <1>2, LineUsage, Zenon DEF StreamStops, Partial
  <2>2. QED
    BY <1>2, <2>1 DEF StreamStops
<1>3. CASE Report
  BY <1>3, WithTotalIsUsage, Zenon DEF Report
<1>4. CASE ClosePipe
  BY <1>4, Zenon DEF ClosePipe
<1>5. QED
  BY <1>1, <1>2, <1>3, <1>4, Zenon

\* The copy loop and what follows it.
LEMMA CopyStep ==
  ASSUME Inv,
         \/ CopyChunk \/ CopyFails \/ CopyEnd
         \/ \E amount \in {"none", "part", "all"} : CopyBody(amount)
         \/ CloseBody \/ WriteTrailer \/ Finish \/ ClientLeaves
  PROVE  Inv'
<1> USE DEF Inv, Types, OneBiller, Kinds, extVars, copyVars
<1>1. CASE CopyChunk \/ CopyFails \/ CopyEnd
  BY <1>1 DEF CopyChunk, CopyFails, CopyEnd
<1>2. CASE \E amount \in {"none", "part", "all"} : CopyBody(amount)
  BY <1>2 DEF CopyBody
<1>3. CASE CloseBody
  BY <1>3, Zenon DEF CloseBody
<1>4. CASE WriteTrailer
  BY <1>4 DEF WriteTrailer
<1>5. CASE Finish
  BY <1>5 DEF Finish
<1>6. CASE ClientLeaves
  BY <1>6 DEF ClientLeaves
<1>7. QED
  BY <1>1, <1>2, <1>3, <1>4, <1>5, <1>6, Zenon

\* Every step keeps the invariant.
LEMMA InvStep == Inv /\ [Next]_vars => Inv'
<1>1. Inv /\ UNCHANGED vars => Inv'
  BY DEF vars, copyVars, extVars, Inv, Types, OneBiller
<1>2. QED
  BY <1>1, HeadersStep, ExtractorStep, CopyStep, Zenon DEF Next, Copier, Extractor

(***************************************************************************)
(* The refinement: every step consumes, bills or leaves both alone.        *)
(***************************************************************************)
Amounts == [input : Nat, output : Nat]

\* A new request has consumed nothing.
LEMMA MeterInit == Init => Meter!Init
BY Zenon DEF Init, Meter!Init, Consumed

\* Before anything is billed, one bill for what was consumed is a step of
\* Metering; so is no bill at all.
LEMMA FirstBill ==
  ASSUME bills = <<>>, Consumed' \in Amounts,
         bills' = <<Consumed'>> \/ bills' = bills
  PROVE  Meter!Next
BY Zenon DEF Meter!Next, Meter!Consume, Meter!Bill, Amounts

\* What the usage handler does with an empty list of bills.
LEMMA Handled ==
  ASSUME Inv, NEW u \in Usages
  PROVE  /\ UsageHandler(<<>>, u) =
              IF resp.model # "websearch" THEN <<Meters(u)>>
              ELSE IF resp.key THEN <<Meters(Zero)>> ELSE <<>>
         /\ EmitZeroTokenEvent(<<>>) = IF resp.key THEN <<Meters(Zero)>> ELSE <<>>
BY DEF UsageHandler, EmitZeroTokenEvent

\* A body that is no stream: what was consumed is what was billed.
LEMMA WholeBody ==
  ASSUME bills = <<>>, body' # "pipe",
         NEW m \in Amounts, bills' = <<m>> \/ bills' = <<>>
  PROVE  Meter!Next
<1>1. Consumed' \in Amounts
  BY MetersAreAmounts, ZeroIsUsage DEF Consumed, Amounts
<1>2. bills' = <<m>> => Consumed' = m
  BY DEF Consumed
<1>3. QED
  BY <1>1, <1>2, FirstBill, Zenon

\* The headers consume nothing, or bill the body that was read whole.
LEMMA MeterHeaders == Inv /\ ModifyResponse => [Meter!Next]_<<Consumed, bills>>
<1> SUFFICES ASSUME Inv, ModifyResponse PROVE [Meter!Next]_<<Consumed, bills>>
  BY Zenon
<1>1. pc = "headers"
  BY Zenon DEF ModifyResponse, SwitchProtocols, NormalizeUpstreamErrorResponse, PrivacyFilter,
         BufferBody, BufferOverflow, BufferFails, ExtractStream, ExtractBody
<1>2. bills = <<>> /\ body = "none" /\ used = Zero
  BY <1>1, Zenon DEF Inv, OneBiller
<1>3. Meters(Zero) \in Amounts
  BY ZeroIsUsage, MetersAreAmounts, Zenon DEF Amounts
<1>4. CASE SwitchProtocols
  BY <1>2, <1>3, <1>4, Handled, ZeroIsUsage, WholeBody, Zenon DEF SwitchProtocols
<1>5. CASE BufferBody
  <2>1. CASE resp.usage # <<>>
    <3>1. resp.usage[1] \in Usages
      BY <2>1 DEF Inv, Types, Response
    <3>2. Meters(resp.usage[1]) \in Amounts
      BY <3>1, MetersAreAmounts, Zenon DEF Amounts
    <3>3. QED
      BY <1>2, <1>3, <1>5, <2>1, <3>1, <3>2, Handled, WholeBody, Zenon DEF BufferBody, StartCopy
  <2>2. CASE resp.usage = <<>>
    BY <1>2, <1>3, <1>5, <2>2, Handled, ZeroIsUsage, WholeBody, Zenon DEF BufferBody, StartCopy
  <2>3. QED
    BY <2>1, <2>2, Zenon
<1>6. CASE ExtractStream
  BY <1>2, <1>6, Zenon DEF ExtractStream, StartCopy, Consumed
<1>7. CASE NormalizeUpstreamErrorResponse \/ PrivacyFilter \/ BufferOverflow \/ BufferFails
             \/ ExtractBody
  BY <1>2, <1>7, Zenon DEF NormalizeUpstreamErrorResponse, PrivacyFilter, BufferOverflow,
       BufferFails, ExtractBody, StartCopy, Consumed
<1>8. QED
  BY <1>4, <1>5, <1>6, <1>7, Zenon DEF ModifyResponse

\* The extractor consumes what a line reports and bills when it is done.
LEMMA MeterExtractor ==
  ASSUME Inv, Inv',
         Scan \/ StreamStops("eof") \/ StreamStops("failed") \/ Report \/ ClosePipe
  PROVE  [Meter!Next]_<<Consumed, bills>>
<1>1. body = "pipe" /\ body' = body /\ resp' = resp
  BY Zenon DEF Inv, OneBiller, Scan, StreamStops, Report, ClosePipe, copyVars
<1>2. Consumed' \in Amounts
  BY <1>1, MetersAreAmounts, ZeroIsUsage, Zenon DEF Consumed, Inv, Types, Amounts
<1>3. CASE Scan \/ StreamStops("eof") \/ StreamStops("failed")
  BY <1>2, <1>3, FirstBill, Zenon DEF Scan, StreamStops, Inv, OneBiller
<1>4. CASE Report
  <2>1. bills = <<>>
    BY <1>4, Zenon DEF Report, Inv, OneBiller
  <2>2. CASE used.t > 0 \/ used.c > 0
    <3>1. bills' = UsageHandler(<<>>, used')
      BY <1>4, <2>1, <2>2, Zenon DEF Report
    <3>2. bills' = <<Consumed'>> \/ bills' = <<>>
      BY <1>1, <3>1, Handled, Zenon DEF Consumed, Inv, Types
    <3>3. QED
      BY <1>2, <2>1, <3>2, FirstBill, Zenon
  <2>3. CASE ~(used.t > 0 \/ used.c > 0)
    BY <1>1, <1>4, <2>3, Zenon DEF Report, Consumed
  <2>4. QED
    BY <2>2, <2>3, Zenon
<1>5. CASE ClosePipe
  BY <1>1, <1>5, Zenon DEF ClosePipe, Consumed
<1>6. QED
  BY <1>3, <1>4, <1>5, Zenon

\* The copy loop bills at most as the closer of a body nothing else bills.
LEMMA MeterCopy ==
  ASSUME Inv,
         \/ CopyChunk \/ CopyFails \/ CopyEnd
         \/ \E amount \in {"none", "part", "all"} : CopyBody(amount)
         \/ CloseBody \/ WriteTrailer \/ Finish \/ ClientLeaves
  PROVE  [Meter!Next]_<<Consumed, bills>>
<1>1. CASE CloseBody
  <2> DEFINE seen == IF body = "tee" /\ read = "all" THEN resp.usage ELSE <<>>
  <2>1. body' = body /\ resp' = resp /\ used' = used
    BY <1>1, Zenon DEF CloseBody, extVars
  <2>2. CASE seen = <<>> /\ ~billable
    BY <1>1, <2>1, <2>2, Zenon DEF CloseBody, Consumed
  <2>3. CASE seen # <<>> \/ billable
    <3>1. bills = <<>> /\ body \in {"plain", "tee"}
      BY <1>1, <2>3, Zenon DEF CloseBody, Inv, Types, OneBiller, Kinds
    <3>2. Meters(Zero) \in Amounts
      BY ZeroIsUsage, MetersAreAmounts, Zenon DEF Amounts
    <3>3. CASE seen # <<>>
      <4>1. resp.usage[1] \in Usages /\ seen[1] = resp.usage[1]
        BY <3>3 DEF Inv, Types, Response
      <4>2. Meters(resp.usage[1]) \in Amounts
        BY <4>1, MetersAreAmounts, Zenon DEF Amounts
      <4>3. bills' = UsageHandler(<<>>, resp.usage[1])
        BY <1>1, <3>1, <3>3, <4>1, Zenon DEF CloseBody
      <4>4. QED
        BY <2>1, <3>1, <3>2, <4>1, <4>2, <4>3, Handled, WholeBody, Zenon
    <3>4. CASE seen = <<>>
      <4>1. bills' = EmitZeroTokenEvent(<<>>)
        BY <1>1, <2>3, <3>1, <3>4, Zenon DEF CloseBody
      <4>2. QED
        BY <2>1, <3>1, <3>2, <4>1, Handled, ZeroIsUsage, WholeBody, Zenon
    <3>5. QED
      BY <3>3, <3>4, Zenon
  <2>4. QED
    BY <2>2, <2>3, Zenon
<1>2. CASE ~CloseBody
  BY <1>2, Zenon DEF CopyChunk, CopyFails, CopyEnd, CopyBody, WriteTrailer, Finish, ClientLeaves,
              copyVars, extVars, Consumed
<1>3. QED
  BY <1>1, <1>2, Zenon

(***************************************************************************)
(* The response path implements Metering: whatever the replica sends and   *)
(* whoever leaves first, a proxied request is billed at most once, for all *)
(* that its response reported, and afterwards nothing more is reported or  *)
(* billed (usageHandler, processStream, billingCloser).                    *)
(***************************************************************************)
THEOREM ResponseMetered == Spec => Metered
<1>1. Inv /\ [Next]_vars => [Meter!Next]_<<Consumed, bills>>
  <2>1. Inv /\ UNCHANGED vars => UNCHANGED <<Consumed, bills>>
    BY Zenon DEF vars, copyVars, extVars, Consumed
  <2>2. QED
    BY <2>1, InvStep, MeterHeaders, MeterExtractor, MeterCopy, Zenon DEF Next, Copier, Extractor
<1>2. QED
  BY <1>1, InvInit, InvStep, MeterInit, PTL DEF Spec, Metered, Meter!Spec

(***************************************************************************)
(* Failures of the replica.                                                *)
(***************************************************************************)
Current == sent[Len(sent)]
Content(e) == [t |-> IF e.data THEN "data" ELSE "comment", e |-> e]

\* The flags are about the event that is being read.
Flagged ==
  /\ left = <<>> => flags = NoFlags
  /\ left # <<>> => /\ flags.pending => Current.term
                    /\ flags.named => Current.term
                    /\ flags.data => Current.data

\* Why the extractor stopped is known until the client's response is over.
StreamInv ==
  /\ sent \in Seq(Events)
  /\ left # <<>> => sent # <<>> /\ left \in {<<Blank>>, <<Content(Current), Blank>>}
  /\ ext = "off" => left = <<>> /\ flags = NoFlags /\ source = "open" /\ pipeEnd = "open"
  /\ ext = "scan" => source = "open" /\ Flagged
  /\ ext \in {"report", "close", "done"} /\ source = "open" => Terminal(sent)
  /\ source \in {"open", "eof", "failed"}
  /\ pipeEnd = "eof" => ext = "done" /\ source # "failed"
  /\ pipeEnd \in {"open", "eof", "error"}
  /\ body = "pipe" /\ pc \notin {"headers", "copy"} /\ ~aborted => pipeEnd = "eof"

\* A line of the stream keeps the flags about the event it belongs to.
LEMMA ScanStep ==
  ASSUME Inv, StreamInv, Scan PROVE StreamInv'
<1> USE DEF Inv, Types
<1>1. ext = "scan" /\ source = "open" /\ Flagged /\ UNCHANGED <<source, pipeEnd, pc, body, aborted>>
  BY Zenon DEF Scan, StreamInv, copyVars
<1>2. body = "pipe"
  BY <1>1, Zenon DEF OneBiller
<1>3. PICK lines \in IF left # <<>> THEN {left} ELSE {LinesOf(e) : e \in Events} :
        /\ ProcessLine(Head(lines))
        /\ left' = Tail(lines)
        /\ sent' = IF left = <<>> THEN Append(sent, lines[Len(lines) - 1].e) ELSE sent
        /\ ext' = IF EndsStream(Head(lines)) THEN "report" ELSE "scan"
  BY Zenon DEF Scan
<1>4. CASE left = <<Blank>>
  <2>1. lines = <<Blank>> /\ Head(lines) = Blank /\ left' = <<>> /\ sent' = sent
    BY <1>3, <1>4, Tails, Zenon
  <2>2. flags' = NoFlags
    BY <1>3, <2>1 DEF ProcessLine, Blank
  <2>3. ext' = "report" => Terminal(sent)
    BY <1>1, <1>3, <1>4, <2>1 DEF EndsStream, Flagged, StreamInv, Terminal, Current
  <2>4. QED
    BY <1>1, <1>3, <2>1, <2>2, <2>3, Zenon DEF StreamInv, Flagged, Terminal
<1>5. CASE left # <<>> /\ left # <<Blank>>
  <2>1. lines = <<Content(Current), Blank>> /\ sent' = sent /\ sent # <<>>
    BY <1>3, <1>5, Zenon DEF StreamInv
  <2>2. Head(lines) = Content(Current) /\ left' = <<Blank>>
    BY <1>3, <2>1, Tails, Zenon
  <2>3. ext' = "scan"
    BY <1>3, <2>2 DEF EndsStream, Content
  <2>4. flags' = Noted(Content(Current))
    BY <1>3, <2>2 DEF ProcessLine, Content
  <2>5. Flagged'
    BY <1>1, <1>5, <2>1, <2>2, <2>4, Zenon DEF Flagged, Noted, Content, Current
  <2>6. QED
    BY <1>1, <2>1, <2>2, <2>3, <2>5, Zenon DEF StreamInv
<1>6. CASE left = <<>>
  <2>1. PICK e \in Events : lines = LinesOf(e)
    BY <1>3, <1>6, Zenon
  <2>2. CASE e.named
    <3>1. lines = <<[t |-> "event", e |-> e], Content(e), Blank>>
      BY <2>1, <2>2, Zenon DEF LinesOf, Content
    <3>2. Head(lines) = [t |-> "event", e |-> e] /\ left' = <<Content(e), Blank>>
      BY <1>3, <3>1, Tails
    <3>3. lines[Len(lines) - 1].e = e
      BY <3>1 DEF Content
    <3>4. sent' = Append(sent, e) /\ Current' = e
      BY <1>3, <1>6, <3>3 DEF StreamInv, Current
    <3>5. ext' = "scan"
      BY <1>3, <3>2 DEF EndsStream
    <3>6. Flagged'
      <4>1. flags = NoFlags
        BY <1>1, <1>6, Zenon DEF Flagged
      <4>2. flags' = Noted([t |-> "event", e |-> e])
        BY <1>3, <3>2 DEF ProcessLine
      <4>3. ~flags'.pending /\ ~flags'.data /\ (flags'.named => e.term)
        BY <4>1, <4>2, Zenon DEF Noted, NoFlags
      <4>4. QED
        BY <3>2, <3>4, <4>3, Zenon DEF Flagged
    <3>7. QED
      BY <1>1, <3>2, <3>4, <3>5, <3>6 DEF StreamInv
  <2>3. CASE ~e.named
    <3>1. lines = <<Content(e), Blank>>
      BY <2>1, <2>3, Zenon DEF LinesOf, Content
    <3>2. Head(lines) = Content(e) /\ left' = <<Blank>>
      BY <1>3, <3>1, Tails, Zenon
    <3>3. lines[Len(lines) - 1].e = e
      BY <3>1 DEF Content
    <3>4. sent' = Append(sent, e) /\ Current' = e
      BY <1>3, <1>6, <3>3 DEF StreamInv, Current
    <3>5. ext' = "scan"
      BY <1>3, <3>2 DEF EndsStream, Content
    <3>6. Flagged'
      <4>1. flags = NoFlags
        BY <1>1, <1>6, Zenon DEF Flagged
      <4>2. flags' = Noted(Content(e))
        BY <1>3, <3>2 DEF ProcessLine, Content
      <4>3. (flags'.pending => e.term) /\ (flags'.data => e.data) /\ ~flags'.named
        BY <4>1, <4>2, Zenon DEF Noted, NoFlags, Content
      <4>4. QED
        BY <3>2, <3>4, <4>3, Zenon DEF Flagged
    <3>7. QED
      BY <1>1, <3>2, <3>4, <3>5, <3>6 DEF StreamInv
  <2>4. QED
    BY <2>2, <2>3, Zenon
<1>7. QED
  BY <1>4, <1>5, <1>6, Zenon

\* Every step keeps what is known of the end of the stream.
LEMMA StreamStep ==
  ASSUME Inv, Inv', StreamInv, [Next]_vars PROVE StreamInv'
<1> USE DEF Inv, Types, OneBiller, StreamInv, Flagged, Current
<1>1. CASE ModifyResponse
  BY <1>1, Zenon DEF ModifyResponse, SwitchProtocols, NormalizeUpstreamErrorResponse,
       PrivacyFilter, BufferBody, BufferOverflow, BufferFails, ExtractStream, ExtractBody,
       StartCopy, extVars
<1>2. CASE Scan
  BY <1>2, ScanStep, Zenon
<1>3. CASE \E how \in {"eof", "failed"} : StreamStops(how)
  BY <1>3 DEF StreamStops, copyVars
<1>4. CASE Report
  BY <1>4, Zenon DEF Report, copyVars
<1>5. CASE ClosePipe
  BY <1>5, Zenon DEF ClosePipe, copyVars
<1>6. CASE CopyChunk \/ CopyFails \/ CopyEnd
  <2>1. CASE CopyChunk
    BY <2>1, Zenon DEF CopyChunk, extVars
  <2>2. CASE CopyFails
    BY <2>2, Zenon DEF CopyFails, extVars
  <2>3. CASE CopyEnd
    BY <2>3, Zenon DEF CopyEnd, extVars
  <2>4. QED
    BY <1>6, <2>1, <2>2, <2>3, Zenon
<1>7. CASE \E amount \in {"none", "part", "all"} : CopyBody(amount)
  BY <1>7, Zenon DEF CopyBody, extVars
<1>8. CASE CloseBody
  BY <1>8, Zenon DEF CloseBody, extVars
<1>9. CASE WriteTrailer \/ Finish \/ ClientLeaves
  <2>1. CASE WriteTrailer
    BY <2>1, Zenon DEF WriteTrailer, extVars
  <2>2. CASE Finish
    BY <2>2, Zenon DEF Finish, extVars
  <2>3. CASE ClientLeaves
    BY <2>3, Zenon DEF ClientLeaves, extVars, copyVars
  <2>4. QED
    BY <1>9, <2>1, <2>2, <2>3, Zenon
<1>10. CASE UNCHANGED vars
  BY <1>10 DEF vars, copyVars, extVars
<1>11. QED
  BY <1>1, <1>2, <1>3, <1>4, <1>5, <1>6, <1>7, <1>8, <1>9, <1>10, Zenon
  DEF Next, Copier, Extractor

\* No stream has begun.
LEMMA StreamInit == Init => StreamInv
<1> SUFFICES ASSUME Init PROVE StreamInv
  BY Zenon
<1>1. sent = <<>> /\ <<>> \in Seq(Events)
  BY DEF Init
<1>2. QED
  BY <1>1, Zenon DEF Init, StreamInv

(***************************************************************************)
(* A replica that breaks off is never mistaken for one that finished: a    *)
(* stream that ends cleanly for the client ended cleanly upstream, or had  *)
(* said it was complete (processStream's deferred CloseWithError).         *)
(***************************************************************************)
THEOREM FailureStaysVisible == Spec => []FailureIsVisible
<1>1. Init => StreamInv
  BY StreamInit, Zenon
<1>2. StreamInv => FailureIsVisible
  BY Zenon DEF StreamInv, FailureIsVisible
<1>3. QED
  BY <1>1, <1>2, InvInit, InvStep, StreamStep, PTL DEF Spec

(***************************************************************************)
(* Lines on their way to the client.                                       *)
(***************************************************************************)
\* Every line of an event is a line of a stream.
LEMMA LinesOfEvents ==
  ASSUME NEW e \in Events
  PROVE  /\ Content(e) \in Lines
         /\ e.named => [t |-> "event", e |-> e] \in Lines
<1> DEFINE all == LinesOf(e)
<1>1. \A i \in 1..Len(all) : all[i] \in Lines
  BY DEF Lines
<1>2. CASE e.named
  <2>1. all = <<[t |-> "event", e |-> e], Content(e), Blank>>
    BY <1>2, Zenon DEF LinesOf, Content
  <2> HIDE DEF all
  <2>2. Len(all) = 3 /\ all[1] = [t |-> "event", e |-> e] /\ all[2] = Content(e)
    BY <2>1, Zenon
  <2>3. 1 \in 1..Len(all) /\ 2 \in 1..Len(all)
    BY <2>2
  <2>4. all[1] \in Lines /\ all[2] \in Lines
    BY <1>1, <2>3, Zenon
  <2>5. QED
    BY <2>2, <2>4, Zenon
<1>3. CASE ~e.named
  <2>1. all = <<Content(e), Blank>>
    BY <1>3, Zenon DEF LinesOf, Content
  <2> HIDE DEF all
  <2>2. Len(all) = 2 /\ all[1] = Content(e)
    BY <2>1, Zenon
  <2>3. 1 \in 1..Len(all)
    BY <2>2
  <2>4. QED
    BY <1>1, <1>3, <2>2, <2>3, Zenon
<1>4. QED
  BY <1>2, <1>3, Zenon

\* The kinds of lines there are.
LEMMA LineKinds ==
  ASSUME NEW l \in Lines
  PROVE  \/ l = Blank \/ l = Partial
         \/ \E e \in Events : l = [t |-> "event", e |-> e] \/ l = Content(e)
<1>1. CASE l \in {Blank, Partial}
  BY <1>1, Zenon
<1>2. CASE \E e \in Events : \E i \in 1..Len(LinesOf(e)) : l = LinesOf(e)[i]
  <2>1. PICK e \in Events : \E i \in 1..Len(LinesOf(e)) : l = LinesOf(e)[i]
    BY <1>2, Zenon
  <2>2. PICK i \in 1..Len(LinesOf(e)) : l = LinesOf(e)[i]
    BY <2>1, Zenon
  <2> DEFINE all == LinesOf(e)
  <2>3. \/ all = <<[t |-> "event", e |-> e], Content(e), Blank>>
        \/ all = <<Content(e), Blank>>
    BY Zenon DEF LinesOf, Content
  <2>4. i \in 1..Len(all) /\ l = all[i]
    BY <2>2, Zenon
  <2> HIDE DEF all
  <2>5. l = [t |-> "event", e |-> e] \/ l = Content(e) \/ l = Blank
    BY <2>3, <2>4
  <2>6. QED
    BY <2>5, Zenon
<1>3. QED
  BY <1>1, <1>2, Zenon DEF Lines

\* What the proofs need of a line: only a data line is long or carries output.
LEMMA LineFacts ==
  ASSUME NEW l \in Lines
  PROVE  /\ LineSize(l) \in Nat \ {0}
         /\ l.t = "data" => l.e \in Events /\ LineSize(l) = l.e.size
         /\ l.t # "data" => LineSize(l) = 1
         /\ l.t = "blank" <=> l = Blank
<1>1. CASE l = Blank \/ l = Partial
  BY <1>1 DEF Blank, Partial, LineSize
<1>2. CASE \E e \in Events : l = [t |-> "event", e |-> e] \/ l = Content(e)
  <2>1. PICK e \in Events : l = [t |-> "event", e |-> e] \/ l = Content(e)
    BY <1>2, Zenon
  <2>2. l.t \in {"event", "data", "comment"} /\ l.e = e
    BY <2>1 DEF Content
  <2>3. l # Blank
    BY <2>2 DEF Blank
  <2>4. e.size \in Nat \ {0}
    BY PathAssumption, Zenon
  <2>5. QED
    BY <2>2, <2>3, <2>4 DEF LineSize
<1>3. QED
  BY <1>1, <1>2, LineKinds, Zenon

\* What one line of the stream does, case by case.
LEMMA ScanOutcome ==
  ASSUME Inv, StreamInv, Scan
  PROVE  \E line \in Lines :
           /\ ProcessLine(line)
           /\ \/ line = Blank /\ left = <<Blank>> /\ left' = <<>> /\ sent' = sent
              \/ /\ line = Content(Current) /\ sent # <<>> /\ Current \in Events
                 /\ left = <<Content(Current), Blank>> /\ left' = <<Blank>> /\ sent' = sent
              \/ \E e \in Events :
                   /\ left = <<>> /\ Len(sent) < MaxEvents /\ sent' = Append(sent, e)
                   /\ \/ /\ e.named /\ line = [t |-> "event", e |-> e]
                         /\ left' = <<Content(e), Blank>>
                      \/ ~e.named /\ line = Content(e) /\ left' = <<Blank>>
<1>1. PICK lines \in IF left # <<>> THEN {left}
                     ELSE {LinesOf(e) : e \in IF Len(sent) < MaxEvents THEN Events ELSE {}} :
        /\ ProcessLine(Head(lines))
        /\ left' = Tail(lines)
        /\ sent' = IF left = <<>> THEN Append(sent, lines[Len(lines) - 1].e) ELSE sent
  BY Zenon DEF Scan
<1>2. CASE left = <<Blank>>
  <2>1. Head(lines) = Blank /\ left' = <<>> /\ sent' = sent
    BY <1>1, <1>2, Tails, Zenon
  <2>2. Blank \in Lines
    BY Zenon DEF Lines
  <2>3. QED
    BY <1>1, <1>2, <2>1, <2>2, Zenon
<1>3. CASE left # <<>> /\ left # <<Blank>>
  <2>1. lines = left /\ left = <<Content(Current), Blank>> /\ sent' = sent /\ sent # <<>>
    BY <1>1, <1>3, Zenon DEF StreamInv
  <2>2. Head(lines) = Content(Current) /\ left' = <<Blank>>
    BY <1>1, <2>1, Tails, Zenon
  <2>3. Current \in Events
    BY <2>1 DEF StreamInv, Current
  <2>4. QED
    BY <1>1, <2>1, <2>2, <2>3, LinesOfEvents, Zenon
<1>4. CASE left = <<>>
  <2>1. PICK e \in Events : lines = LinesOf(e) /\ Len(sent) < MaxEvents
    BY <1>1, <1>4, Zenon
  <2>2. CASE e.named
    <3>1. lines = <<[t |-> "event", e |-> e], Content(e), Blank>>
      BY <2>1, <2>2, Zenon DEF LinesOf, Content
    <3>2. Head(lines) = [t |-> "event", e |-> e] /\ left' = <<Content(e), Blank>>
      BY <1>1, <3>1, Tails
    <3>3. lines[Len(lines) - 1].e = e
      BY <3>1 DEF Content
    <3>4. sent' = Append(sent, e)
      BY <1>1, <1>4, <3>3, Zenon
    <3>5. QED
      BY <1>1, <1>4, <2>1, <2>2, <3>2, <3>4, LinesOfEvents, Zenon
  <2>3. CASE ~e.named
    <3>1. lines = <<Content(e), Blank>>
      BY <2>1, <2>3, Zenon DEF LinesOf, Content
    <3>2. Head(lines) = Content(e) /\ left' = <<Blank>>
      BY <1>1, <3>1, Tails, Zenon
    <3>3. lines[Len(lines) - 1].e = e
      BY <3>1 DEF Content
    <3>4. sent' = Append(sent, e)
      BY <1>1, <1>4, <3>3, Zenon
    <3>5. QED
      BY <1>1, <1>4, <2>1, <2>3, <3>2, <3>4, LinesOfEvents, Zenon
  <2>4. QED
    BY <2>2, <2>3, Zenon
<1>5. QED
  BY <1>2, <1>3, <1>4, Zenon

\* The last line the client received is a data line.
AfterData == got # <<>> /\ got[Len(got)].t = "data"

\* So is the last line put into the pipe.
AwaitsBlank == IF pipe # <<>> THEN pipe[1].line.t = "data" ELSE AfterData

\* The pipe holds one line at most, and a data line that was passed on is
\* followed by its blank line, never by a line of another event.
PipeInv ==
  /\ \/ pipe = <<>>
     \/ \E l \in Lines : \E r \in 1..LineSize(l) : pipe = <<[line |-> l, reads |-> r]>>
  /\ got \in Seq(Lines)
  /\ body # "pipe" => pipe = <<>> /\ got = <<>>
  /\ pc = "copy" /\ body = "pipe" =>
       /\ pipe # <<>> /\ AfterData => pipe[1].line = Blank
       /\ ext = "scan" /\ AwaitsBlank => left = <<Blank>> /\ ~flags.filtered

\* What the pipe holds when it is not empty.
LEMMA PipeFacts ==
  ASSUME PipeInv, pipe # <<>>
  PROVE  /\ pipe[1].line \in Lines
         /\ pipe[1].reads \in 1..LineSize(pipe[1].line)
         /\ pipe = <<pipe[1]>>
         /\ pipe[1] = [line |-> pipe[1].line, reads |-> pipe[1].reads]
<1>1. PICK l \in Lines : \E r \in 1..LineSize(l) : pipe = <<[line |-> l, reads |-> r]>>
  BY Zenon DEF PipeInv
<1>2. PICK r \in 1..LineSize(l) : pipe = <<[line |-> l, reads |-> r]>>
  BY <1>1, Zenon
<1>3. pipe[1] = [line |-> l, reads |-> r]
  BY <1>2, Zenon
<1>4. QED
  BY <1>2, <1>3, Zenon

\* A line is written whole, or not at all.
LEMMA WriteFacts ==
  ASSUME NEW l \in Lines, WriteLine(l)
  PROVE  \/ pipe' = <<>>
         \/ /\ PipeOpen /\ ~Dropped(l) /\ ~Skipped(l)
            /\ pipe' = <<[line |-> l, reads |-> LineSize(l)]>>
            /\ LineSize(l) \in 1..LineSize(l)
            /\ pipe'[1].line = l
<1>1. LineSize(l) \in 1..LineSize(l)
  BY LineFacts
<1>2. QED
  BY <1>1, Zenon DEF WriteLine

\* A line the scanner returns goes into the pipe behind the one before it.
LEMMA PipeScan ==
  ASSUME Inv, StreamInv, PipeInv, Scan PROVE PipeInv'
<1>1. UNCHANGED <<got, body, pc, resp>> /\ ext = "scan" /\ body = "pipe"
  BY Zenon DEF Scan, copyVars, Inv, OneBiller
<1>2. PICK line \in Lines :
           /\ ProcessLine(line)
           /\ \/ line = Blank /\ left = <<Blank>> /\ left' = <<>> /\ sent' = sent
              \/ /\ line = Content(Current) /\ sent # <<>> /\ Current \in Events
                 /\ left = <<Content(Current), Blank>> /\ left' = <<Blank>> /\ sent' = sent
              \/ \E e \in Events :
                   /\ left = <<>> /\ Len(sent) < MaxEvents /\ sent' = Append(sent, e)
                   /\ \/ line = [t |-> "event", e |-> e] /\ left' = <<Content(e), Blank>>
                      \/ line = Content(e) /\ left' = <<Blank>>
  BY ScanOutcome, Zenon
<1>3. WriteLine(line)
  BY <1>2, Zenon DEF ProcessLine
<1>4. \/ pipe' = <<>>
      \/ \E l \in Lines : \E r \in 1..LineSize(l) : pipe' = <<[line |-> l, reads |-> r]>>
  BY <1>3, WriteFacts, Zenon
<1>5. ASSUME pc = "copy"
      PROVE  /\ pipe' # <<>> /\ AfterData => pipe'[1].line = Blank
             /\ AwaitsBlank' => left' = <<Blank>> /\ ~flags'.filtered
  <2>1. pipe = <<>> /\ AfterData' = AfterData
    BY <1>1, <1>5, Zenon DEF Scan, Drained, PipeOpen, AfterData
  <2>2. CASE AfterData
    <3>1. left = <<Blank>> /\ ~flags.filtered
      BY <1>1, <1>5, <2>1, <2>2, Zenon DEF PipeInv, AwaitsBlank
    <3>2. line = Blank
      BY <1>2, <3>1, Zenon
    <3>3. ~Dropped(line) /\ ~Skipped(line)
      BY <3>1, <3>2, Zenon DEF Dropped, Skipped, Blank
    <3>4. pipe' = <<[line |-> Blank, reads |-> LineSize(Blank)]>>
      BY <1>3, <1>5, <3>2, <3>3, Zenon DEF WriteLine, PipeOpen
    <3>5. pipe' # <<>> /\ pipe'[1].line = Blank
      BY <3>4, Zenon
    <3>6. QED
      BY <3>5 DEF AwaitsBlank, Blank
  <2>3. CASE ~AfterData
    <3>1. ASSUME AwaitsBlank' PROVE pipe' # <<>> /\ line.t = "data" /\ ~Dropped(line)
      BY <1>3, <2>1, <2>3, <3>1, WriteFacts, Zenon DEF AwaitsBlank
    <3>2. line.t = "data" => left' = <<Blank>>
      BY <1>2 DEF Blank
    <3>3. line.t = "data" => flags'.filtered = Dropped(line)
      BY <1>2, Zenon DEF ProcessLine, Noted
    <3>4. QED
      BY <2>3, <3>1, <3>2, <3>3, Zenon
  <2>4. QED
    BY <2>2, <2>3, Zenon
<1>6. AfterData' = AfterData
  BY <1>1, Zenon DEF AfterData
<1>7. QED
  BY <1>1, <1>4, <1>5, <1>6, Zenon DEF PipeInv

\* The end of the stream adds the line it broke off in, if any.
LEMMA PipeStops ==
  ASSUME Inv, StreamInv, PipeInv, NEW how, StreamStops(how) PROVE PipeInv'
<1>1. UNCHANGED <<got, body, pc, left>> /\ body = "pipe" /\ ext' = "report" /\ ext = "scan"
  BY Zenon DEF StreamStops, copyVars, Inv, OneBiller
<1>2. AfterData' = AfterData
  BY <1>1, Zenon DEF AfterData
<1>3. CASE UNCHANGED pipe
  BY <1>1, <1>2, <1>3, Zenon DEF PipeInv
<1>4. CASE left # <<>> /\ Head(left).t = "data" /\ ProcessLine(Partial)
  <2>1. Partial \in Lines
    BY Zenon DEF Lines
  <2>2. WriteLine(Partial)
    BY <1>4, Zenon DEF ProcessLine
  <2>3. \/ pipe' = <<>>
        \/ \E l \in Lines : \E r \in 1..LineSize(l) : pipe' = <<[line |-> l, reads |-> r]>>
    BY <2>1, <2>2, WriteFacts, Zenon
  <2>4. pc = "copy" => ~AfterData
    <3>1. left # <<Blank>>
      BY <1>4, Tails DEF Blank
    <3>2. pc = "copy" => pipe = <<>>
      BY Zenon DEF StreamStops, Drained, PipeOpen
    <3>3. QED
      BY <1>1, <3>1, <3>2, Zenon DEF PipeInv, AwaitsBlank
  <2>5. QED
    BY <1>1, <1>2, <2>3, <2>4, Zenon DEF PipeInv
<1>5. QED
  BY <1>3, <1>4, Zenon DEF StreamStops

\* One read of the copy loop takes a part of the line, or the last of it.
LEMMA ChunkFacts ==
  ASSUME PipeInv, CopyChunk
  PROVE  \E l \in Lines : \E r \in 1..LineSize(l) :
           /\ pipe = <<[line |-> l, reads |-> r]>>
           /\ pipe # <<>> /\ pipe[1].line = l /\ pipe[1].reads = r
           /\ Watch(l, r = 1)
           /\ \/ r = 1 /\ pipe' = <<>> /\ got' = Append(got, l)
              \/ /\ r # 1 /\ got' = got /\ r - 1 \in 1..LineSize(l)
                 /\ pipe' = <<[line |-> l, reads |-> r - 1]>>
                 /\ pipe' # <<>> /\ pipe'[1].line = l /\ pipe'[1].reads = r - 1
<1>1. pipe # <<>>
  BY Zenon DEF CopyChunk
<1>2. PICK l \in Lines : \E r \in 1..LineSize(l) : pipe = <<[line |-> l, reads |-> r]>>
  BY <1>1, Zenon DEF PipeInv
<1>3. PICK r \in 1..LineSize(l) : pipe = <<[line |-> l, reads |-> r]>>
  BY <1>2, Zenon
<1>4. pipe[1] = [line |-> l, reads |-> r]
  BY <1>3, Zenon
<1>5. pipe[1].line = l /\ pipe[1].reads = r
  BY <1>4
<1>6. LineSize(l) \in Nat
  BY LineFacts, Zenon
<1>7. Watch(l, r = 1)
  BY <1>5, Zenon DEF CopyChunk
<1>8. CASE r = 1
  BY <1>1, <1>3, <1>5, <1>7, <1>8, Zenon DEF CopyChunk
<1>9. CASE r # 1
  <2>1. r - 1 \in 1..LineSize(l)
    BY <1>6, <1>9
  <2>2. [pipe[1] EXCEPT !.reads = @ - 1] = [line |-> l, reads |-> r - 1]
    BY <1>4
  <2>3. pipe' = <<[line |-> l, reads |-> r - 1]>> /\ got' = got
    BY <1>5, <1>9, <2>2, Zenon DEF CopyChunk
  <2>4. pipe' # <<>> /\ pipe'[1].line = l /\ pipe'[1].reads = r - 1
    BY <2>3, Zenon
  <2>5. QED
    BY <1>1, <1>3, <1>5, <1>7, <1>9, <2>1, <2>3, <2>4, Zenon
<1>10. QED
  BY <1>8, <1>9, Zenon

\* What the client has received stays the last thing it received.
LEMMA PipeChunk ==
  ASSUME PipeInv, CopyChunk PROVE PipeInv'
<1>1. PICK l \in Lines : \E r \in 1..LineSize(l) :
           /\ pipe = <<[line |-> l, reads |-> r]>>
           /\ pipe # <<>> /\ pipe[1].line = l /\ pipe[1].reads = r
           /\ Watch(l, r = 1)
           /\ \/ r = 1 /\ pipe' = <<>> /\ got' = Append(got, l)
              \/ /\ r # 1 /\ got' = got /\ r - 1 \in 1..LineSize(l)
                 /\ pipe' = <<[line |-> l, reads |-> r - 1]>>
                 /\ pipe' # <<>> /\ pipe'[1].line = l /\ pipe'[1].reads = r - 1
  BY ChunkFacts, Zenon
<1>2. PICK r \in 1..LineSize(l) :
           /\ pipe # <<>> /\ pipe[1].line = l
           /\ \/ r = 1 /\ pipe' = <<>> /\ got' = Append(got, l)
              \/ /\ r # 1 /\ got' = got /\ r - 1 \in 1..LineSize(l)
                 /\ pipe' = <<[line |-> l, reads |-> r - 1]>>
                 /\ pipe' # <<>> /\ pipe'[1].line = l
  BY <1>1, Zenon
<1>3. UNCHANGED <<pc, body, ext, left, flags>> /\ pc = "copy" /\ body = "pipe"
  BY Zenon DEF CopyChunk, extVars
<1>4. got \in Seq(Lines)
  BY Zenon DEF PipeInv
<1>5. CASE r = 1
  <2>1. got' \in Seq(Lines) /\ got' # <<>> /\ got'[Len(got')] = l
    BY <1>2, <1>4, <1>5
  <2>2. AwaitsBlank' = (l.t = "data") /\ AwaitsBlank = (l.t = "data")
    BY <1>2, <1>5, <2>1, Zenon DEF AwaitsBlank, AfterData
  <2>3. QED
    BY <1>2, <1>3, <1>5, <2>1, <2>2, Zenon DEF PipeInv
<1>6. CASE r # 1
  <2>1. AwaitsBlank' = AwaitsBlank /\ AfterData' = AfterData
    BY <1>2, <1>6, Zenon DEF AwaitsBlank, AfterData
  <2>2. QED
    BY <1>2, <1>3, <1>4, <1>6, <2>1, Zenon DEF PipeInv
<1>7. QED
  BY <1>5, <1>6, Zenon

\* Every step keeps the lines in order.
LEMMA PipeStep ==
  ASSUME Inv, StreamInv, PipeInv, [Next]_vars PROVE PipeInv'
<1>1. CASE ModifyResponse
  <2>1. pc = "headers" /\ UNCHANGED <<got, pipe>>
    BY <1>1, Zenon DEF ModifyResponse, SwitchProtocols, NormalizeUpstreamErrorResponse,
         PrivacyFilter, BufferBody, BufferOverflow, BufferFails, ExtractStream, ExtractBody
  <2>2. got = <<>> /\ pipe = <<>>
    BY <2>1, Zenon DEF PipeInv, Inv, OneBiller
  <2>3. QED
    BY <2>1, <2>2, Zenon DEF PipeInv, AfterData, AwaitsBlank
<1>2. CASE Scan
  BY <1>2, PipeScan, Zenon
<1>3. CASE \E how \in {"eof", "failed"} : StreamStops(how)
  BY <1>3, PipeStops, Zenon
<1>4. CASE Report \/ ClosePipe
  <2>1. UNCHANGED <<got, pipe, pc, body>> /\ ext' # "scan"
    BY <1>4, Zenon DEF Report, ClosePipe, copyVars
  <2>2. QED
    BY <2>1, Zenon DEF PipeInv, AfterData
<1>5. CASE CopyChunk
  BY <1>5, PipeChunk, Zenon
<1>6. CASE \/ CopyFails \/ CopyEnd \/ WriteTrailer \/ Finish \/ CloseBody
           \/ \E amount \in {"none", "part", "all"} : CopyBody(amount)
  <2>1. pc' # "copy" /\ got' = got /\ body' = body /\ (pipe' = pipe \/ pipe' = <<>>)
    BY <1>6, Zenon DEF CopyFails, CopyEnd, WriteTrailer, Finish, CloseBody, CopyBody
  <2>2. QED
    BY <2>1, Zenon DEF PipeInv
<1>7. CASE ClientLeaves \/ UNCHANGED vars
  <2>1. UNCHANGED <<got, pipe, pc, body, ext, left, flags>>
    BY <1>7, Zenon DEF ClientLeaves, vars, copyVars, extVars
  <2>2. QED
    BY <2>1, Zenon DEF PipeInv, AfterData, AwaitsBlank
<1>8. QED
  BY <1>1, <1>2, <1>3, <1>4, <1>5, <1>6, <1>7, Zenon DEF Next, Copier, Extractor

(***************************************************************************)
(* The first-token detector.                                               *)
(***************************************************************************)
\* What the detector keeps of an event: its data line, once it was received.
Held == {<<>>} \union {<<e>> : e \in Events}

Detectors ==
  [line : 0..Cap, data : Held,
   skipLine : BOOLEAN, skipEvent : BOOLEAN, sawError : BOOLEAN]

\* The detector has seen k reads of a line.
Partway(d, k) ==
  IF k <= Cap THEN d.line = k /\ ~d.skipLine
  ELSE d.line = 0 /\ d.skipLine /\ d.skipEvent

\* Reads of the line in the pipe that the client has received.
Reads == IF pipe = <<>> THEN 0 ELSE LineSize(pipe[1].line) - pipe[1].reads

\* The detector knows the event the client is receiving: its data line when it
\* fits the buffer, and otherwise that the event is to be skipped.
Follows ==
  /\ Partway(det, Reads)
  /\ AfterData =>
       LET e == got[Len(got)].e
       IN IF e.size <= Cap THEN det.data = <<e>> /\ ~det.skipEvent
                           ELSE det.data = <<>> /\ det.skipEvent
  /\ ~AfterData => det.data = <<>> /\ (det.skipEvent => Cap = 0 \/ Reads > Cap)

\* A first token is marked exactly when one was delivered.
MarkInv ==
  /\ det \in Detectors
  /\ pc = "headers" => det = NoDetector /\ token = FALSE
  /\ pc = "copy" /\ body = "pipe" /\ Watching /\ ~token => Follows
  /\ body = "pipe" /\ Watching => (token <=> TokenDelivered)

\* The buffer's size is a number.
LEMMA CapIsNatural == Cap \in Nat
BY PathAssumption, Zenon

\* A detector that starts a line afresh, perhaps to skip it or its event.
LEMMA Restarted ==
  ASSUME NEW d \in Detectors, NEW skip \in BOOLEAN
  PROVE  /\ [d EXCEPT !.line = 0, !.skipLine = skip, !.skipEvent = skip] \in Detectors
         /\ [d EXCEPT !.line = 0, !.skipEvent = skip] \in Detectors
<1>1. 0 \in 0..Cap
  BY CapIsNatural
<1>2. [d EXCEPT !.line = 0, !.skipLine = skip, !.skipEvent = skip] \in Detectors
  BY <1>1, Zenon DEF Detectors
<1>3. [d EXCEPT !.line = 0, !.skipEvent = skip] \in Detectors
  BY <1>1, Zenon DEF Detectors
<1>4. QED
  BY <1>2, <1>3, Zenon

\* A read in the middle of a line: the line grows until it overflows.
LEMMA PartialRead ==
  ASSUME NEW d \in Detectors, NEW k \in Nat, Partway(d, k)
  PROVE  /\ BufferPartial(d) \in Detectors
         /\ Partway(BufferPartial(d), k + 1)
         /\ BufferPartial(d).data = d.data
         /\ k + 1 <= Cap => BufferPartial(d).skipEvent = d.skipEvent
<1> USE CapIsNatural
<1>1. CASE d.skipLine
  BY <1>1 DEF BufferPartial, Partway
<1>2. CASE ~d.skipLine /\ d.line + 1 > Cap
  <2>1. BufferPartial(d) = [d EXCEPT !.line = 0, !.skipLine = TRUE, !.skipEvent = TRUE]
    BY <1>2, Zenon DEF BufferPartial
  <2>2. k = d.line /\ k + 1 > Cap
    BY <1>2, Zenon DEF Partway
  <2>3. BufferPartial(d) \in Detectors
    BY <2>1, Restarted, Zenon
  <2>7. BufferPartial(d).data = d.data
    BY <2>1, Zenon DEF Detectors
  <2>6. BufferPartial(d).line = 0 /\ BufferPartial(d).skipLine /\ BufferPartial(d).skipEvent
    BY <2>1, Zenon DEF Detectors
  <2>4. ~(k + 1 <= Cap)
    BY <2>2
  <2>5. QED
    BY <2>3, <2>4, <2>6, <2>7, Zenon DEF Partway
<1>3. CASE ~d.skipLine /\ ~(d.line + 1 > Cap)
  BY <1>3 DEF BufferPartial, Partway, Detectors
<1>4. QED
  BY <1>1, <1>2, <1>3, Zenon

\* What a line does to the detector once it is complete.
LEMMA LineDetected ==
  ASSUME NEW d \in Detectors, NEW l \in Lines
  PROVE  /\ ProcessDetectorLine(d, l) \in Detectors
         /\ ProcessDetectorLine(d, l).line = d.line
         /\ ProcessDetectorLine(d, l).skipLine = d.skipLine
         /\ l = Blank => /\ ProcessDetectorLine(d, l).data = <<>>
                         /\ ~ProcessDetectorLine(d, l).skipEvent
         /\ l.t = "data" /\ ~d.skipEvent => /\ ProcessDetectorLine(d, l).data = <<l.e>>
                                            /\ ~ProcessDetectorLine(d, l).skipEvent
         /\ l.t \notin {"blank", "data"} => ProcessDetectorLine(d, l) = d
<1>1. CASE l.t = "blank"
  <2>1. ProcessDetectorLine(d, l) =
          [d EXCEPT !.data = <<>>, !.skipEvent = FALSE,
                    !.sawError = @ \/ (~d.skipEvent /\ d.data # <<>> /\ d.data[1].error)]
    BY <1>1, Zenon DEF ProcessDetectorLine
  <2>2. QED
    BY <1>1, <2>1, Zenon DEF Detectors, Held
<1>2. CASE l.t = "data" /\ ~d.skipEvent
  <2>1. ProcessDetectorLine(d, l) = [d EXCEPT !.data = <<l.e>>]
    BY <1>2, Zenon DEF ProcessDetectorLine
  <2>2. l.e \in Events /\ l # Blank
    BY <1>2, LineFacts, Zenon DEF Blank
  <2>3. QED
    BY <1>2, <2>1, <2>2 DEF Detectors, Held
<1>3. CASE l.t # "blank" /\ ~(l.t = "data" /\ ~d.skipEvent)
  <2>1. ProcessDetectorLine(d, l) = d
    BY <1>3, Zenon DEF ProcessDetectorLine
  <2>2. QED
    BY <1>3, <2>1 DEF Blank
<1>4. QED
  BY <1>1, <1>2, <1>3, Zenon

\* The read that completes a line: a line that fits is taken in, one that does
\* not marks its event.
LEMMA LastRead ==
  ASSUME NEW d \in Detectors, NEW l \in Lines, Partway(d, LineSize(l) - 1)
  PROVE  /\ CompleteLine(d, l) \in Detectors
         /\ CompleteLine(d, l).line = 0 /\ ~CompleteLine(d, l).skipLine
         /\ LineSize(l) > Cap =>
              CompleteLine(d, l).skipEvent /\ CompleteLine(d, l).data = d.data
         /\ LineSize(l) <= Cap =>
              CompleteLine(d, l) = ProcessDetectorLine([d EXCEPT !.line = 0], l)
<1> USE CapIsNatural
<1>1. LineSize(l) \in Nat \ {0}
  BY LineFacts, Zenon
<1>2. CASE d.skipLine
  <2>1. CompleteLine(d, l) = [d EXCEPT !.skipLine = FALSE]
    BY <1>2, Zenon DEF CompleteLine
  <2>2. d.line = 0 /\ d.skipEvent /\ LineSize(l) > Cap
    BY <1>1, <1>2 DEF Partway
  <2>3. /\ CompleteLine(d, l) \in Detectors /\ CompleteLine(d, l).line = d.line
        /\ CompleteLine(d, l).skipLine = FALSE /\ CompleteLine(d, l).data = d.data
        /\ CompleteLine(d, l).skipEvent = d.skipEvent
    BY <2>1, Zenon DEF Detectors
  <2>4. ~(LineSize(l) <= Cap)
    BY <1>1, <2>2
  <2>5. QED
    BY <2>2, <2>3, <2>4, Zenon
<1>3. CASE ~d.skipLine /\ d.line + 1 > Cap
  <2>1. CompleteLine(d, l) = [d EXCEPT !.line = 0, !.skipEvent = TRUE]
    BY <1>3, Zenon DEF CompleteLine
  <2>2. LineSize(l) > Cap
    BY <1>1, <1>3 DEF Partway
  <2>3. CompleteLine(d, l) \in Detectors
    BY <2>1, Restarted, Zenon
  <2>7. CompleteLine(d, l).line = 0
    BY <2>1, Zenon DEF Detectors
  <2>6. /\ CompleteLine(d, l).skipLine = d.skipLine /\ CompleteLine(d, l).data = d.data
        /\ CompleteLine(d, l).skipEvent
    BY <2>1, Zenon DEF Detectors
  <2>4. ~(LineSize(l) <= Cap)
    BY <1>1, <2>2
  <2>5. QED
    BY <1>3, <2>2, <2>3, <2>4, <2>6, <2>7, Zenon
<1>4. CASE ~d.skipLine /\ ~(d.line + 1 > Cap)
  <2> DEFINE c == [d EXCEPT !.line = 0]
  <2>1. CompleteLine(d, l) = ProcessDetectorLine(c, l)
    BY <1>4, Zenon DEF CompleteLine
  <2>2. c \in Detectors /\ c.line = 0 /\ ~c.skipLine
    BY <1>4 DEF Detectors
  <2>3. LineSize(l) <= Cap
    BY <1>1, <1>4 DEF Partway
  <2> HIDE DEF c
  <2>4. /\ ProcessDetectorLine(c, l) \in Detectors
        /\ ProcessDetectorLine(c, l).line = c.line
        /\ ProcessDetectorLine(c, l).skipLine = c.skipLine
    BY <2>2, LineDetected, Zenon
  <2>5. QED
    BY <1>1, <2>1, <2>2, <2>3, <2>4 DEF c
<1>5. QED
  BY <1>2, <1>3, <1>4, Zenon

\* The last line the client received closes an event with output.
Closing ==
  AfterData /\ ClassifyEvent(got[Len(got)].e) /\ got[Len(got)].e.size <= Cap

\* A token is delivered by the blank line after its data line, and stays so.
LEMMA Delivery ==
  ASSUME got \in Seq(Lines), NEW l \in Lines, got' = Append(got, l)
  PROVE  TokenDelivered' <=> TokenDelivered \/ (l = Blank /\ Closing)
<1> DEFINE n == Len(got)
<1>1. n \in Nat /\ Len(got') = n + 1 /\ got'[n + 1] = l
  OBVIOUS
<1>2. \A i \in 1..n : got'[i] = got[i]
  OBVIOUS
<1>3. got # <<>> <=> n >= 1
  OBVIOUS
<1> DEFINE At(s, i) == /\ s[i] = Blank /\ s[i - 1].t = "data"
                       /\ ClassifyEvent(s[i - 1].e) /\ s[i - 1].e.size <= Cap
<1>4. TokenDelivered <=> \E i \in 2..n : At(got, i)
  BY Zenon DEF TokenDelivered
<1>5. TokenDelivered' <=> \E i \in 2..(n + 1) : At(got', i)
  BY <1>1, Zenon DEF TokenDelivered, ClassifyEvent
<1>6. \A i \in 2..n : At(got', i) <=> At(got, i)
  BY <1>1, <1>2
<1>7. n >= 1 => (At(got', n + 1) <=> l = Blank /\ Closing)
  <2>1. SUFFICES ASSUME n >= 1 PROVE At(got', n + 1) <=> l = Blank /\ Closing
    BY Zenon
  <2>2. got'[n + 1] = l /\ got'[(n + 1) - 1] = got[n]
    BY <1>1, <1>2, <2>1
  <2>3. QED
    BY <1>3, <2>1, <2>2, Zenon DEF Closing, AfterData
<1>8. Closing => n >= 1
  BY <1>3, Zenon DEF Closing, AfterData
<1> HIDE DEF At, n
<1>9. QED
  BY <1>1, <1>4, <1>5, <1>6, <1>7, <1>8

\* What a detector that follows the stream says when an event ends.
LEMMA ClosesWhenOutput ==
  ASSUME PipeInv, MarkInv, Follows, pipe # <<>>, pipe[1].line = Blank, pipe[1].reads = 1
  PROVE  ClosesToken(det, Blank) <=> Closing
<1>1. LineSize(Blank) = 1 /\ Reads = 0
  BY DEF LineSize, Blank, Reads
<1>2. ~det.skipLine
  BY <1>1, CapIsNatural DEF Follows, Partway
<1>3. CASE ~AfterData
  BY <1>3, Zenon DEF Follows, ClosesToken, Closing
<1>4. CASE AfterData
  <2> DEFINE e == got[Len(got)].e
  <2>1. IF e.size <= Cap THEN det.data = <<e>> /\ ~det.skipEvent
                         ELSE det.data = <<>> /\ det.skipEvent
    BY <1>4, Zenon DEF Follows
  <2> HIDE DEF e
  <2>2. CASE e.size <= Cap
    <3>6. det.data = <<e>> /\ ~det.skipEvent
      BY <2>1, <2>2, Zenon
    <3>1. det.data # <<>> /\ det.data[1] = e /\ ~det.skipEvent
      BY <3>6
    <3>4. Blank.t = "blank"
      BY Zenon DEF Blank
    <3>5. ClosesToken(det, Blank) <=> ClassifyEvent(det.data[1])
      BY <1>2, <3>1, <3>4, Zenon DEF ClosesToken
    <3>2. ClosesToken(det, Blank) <=> ClassifyEvent(e)
      BY <3>1, <3>5, Zenon
    <3>3. QED
      BY <1>4, <2>2, <3>2, Zenon DEF Closing, e
  <2>3. CASE ~(e.size <= Cap)
    BY <2>1, <2>3, Zenon DEF ClosesToken, Closing, e
  <2>4. QED
    BY <2>2, <2>3, Zenon
<1>5. QED
  BY <1>3, <1>4, Zenon

\* A read in the middle of a line.
LEMMA MarkPartial ==
  ASSUME PipeInv, MarkInv, pc = "copy", body = "pipe", Follows,
         NEW l \in Lines, NEW r \in 1..LineSize(l), r # 1,
         pipe # <<>>, pipe[1].line = l, pipe[1].reads = r,
         pipe' # <<>>, pipe'[1].line = l, pipe'[1].reads = r - 1, got' = got,
         det' = BufferPartial(det)
  PROVE  det' \in Detectors /\ Follows'
<1>1. LineSize(l) \in Nat /\ l.t = "data" /\ l # Blank
  BY LineFacts DEF Blank
<1>2. ~AfterData /\ ~AfterData'
  BY <1>1, Zenon DEF PipeInv, AfterData
<1>3. PICK k \in Nat : k = LineSize(l) - r
  BY <1>1
<1>4. Reads = k /\ Reads' = k + 1
  BY <1>1, <1>3 DEF Reads, LineSize
<1>5. det \in Detectors /\ Partway(det, k) /\ det.data = <<>> /\ (det.skipEvent => Cap = 0 \/ k > Cap)
  BY <1>2, <1>4, Zenon DEF MarkInv, Follows
<1>6. /\ det' \in Detectors
      /\ Partway(det', k + 1)
      /\ det'.data = <<>>
      /\ k + 1 <= Cap => det'.skipEvent = det.skipEvent
  BY <1>5, PartialRead, Zenon
<1>7. det'.skipEvent => Cap = 0 \/ k + 1 > Cap
  <2>1. k + 1 <= Cap => ~(k > Cap)
    BY CapIsNatural
  <2>2. ~(k + 1 <= Cap) => k + 1 > Cap
    BY CapIsNatural
  <2>3. QED
    BY <1>5, <1>6, <2>1, <2>2, Zenon
<1>8. Partway(det, Reads)'
  BY <1>4, <1>6, Zenon DEF Partway
<1>9. QED
  BY <1>2, <1>4, <1>6, <1>7, <1>8, Zenon DEF Follows

\* The read that completes a line.
LEMMA MarkLast ==
  ASSUME PipeInv, MarkInv, pc = "copy", body = "pipe", Follows,
         NEW l \in Lines, pipe # <<>>, pipe[1].line = l, pipe[1].reads = 1,
         pipe' = <<>>, got' = Append(got, l), det' = CompleteLine(det, l)
  PROVE  det' \in Detectors /\ Follows'
<1>1. LineSize(l) \in Nat \ {0}
  BY LineFacts, Zenon
<1>2. Reads = LineSize(l) - 1 /\ Reads' = 0
  BY Zenon DEF Reads
<1>3. det \in Detectors /\ Partway(det, LineSize(l) - 1)
  BY <1>2, Zenon DEF MarkInv, Follows
<1>4. /\ det' \in Detectors /\ det'.line = 0 /\ ~det'.skipLine
      /\ LineSize(l) > Cap => det'.skipEvent /\ det'.data = det.data
      /\ LineSize(l) <= Cap => det' = ProcessDetectorLine([det EXCEPT !.line = 0], l)
  BY <1>3, LastRead, Zenon
<1>5. Partway(det, Reads)'
  BY <1>2, <1>4, CapIsNatural, SMTT(30) DEF Partway
<1>6. got' # <<>> /\ got'[Len(got')] = l
  BY DEF PipeInv
<1>7. AfterData' <=> l.t = "data"
  BY <1>6, Zenon DEF AfterData
<1>8. PICK c \in Detectors :
        /\ c = [det EXCEPT !.line = 0]
        /\ c.data = det.data /\ c.skipEvent = det.skipEvent
  <2>1. 0 \in 0..Cap
    BY CapIsNatural
  <2>2. [det EXCEPT !.line = 0] \in Detectors
    BY <1>3, <2>1, Zenon DEF Detectors
  <2>3. /\ [det EXCEPT !.line = 0].data = det.data
        /\ [det EXCEPT !.line = 0].skipEvent = det.skipEvent
    BY <1>3, Zenon DEF Detectors
  <2>4. QED
    BY <2>2, <2>3, Zenon
<1>9. CASE l = Blank
  <2>1. l.t # "data" /\ LineSize(l) = 1
    BY <1>9 DEF Blank, LineSize
  <2>2. CASE Cap = 0
    <3>1. det.data = <<>>
      <4>1. ASSUME AfterData PROVE ~(got[Len(got)].e.size <= Cap)
        <5>1. got[Len(got)] \in Lines
          BY <4>1 DEF PipeInv, AfterData
        <5>2. LineSize(got[Len(got)]) \in Nat \ {0}
              /\ LineSize(got[Len(got)]) = got[Len(got)].e.size
          BY <4>1, <5>1, LineFacts, Zenon DEF AfterData
        <5>3. QED
          BY <2>2, <5>2
      <4>2. QED
        BY <4>1, Zenon DEF Follows
    <3>2. det'.data = <<>>
      BY <1>4, <2>1, <2>2, <3>1
    <3>3. QED
      BY <1>4, <1>5, <1>7, <2>1, <2>2, <3>2, Zenon DEF Follows
  <2>3. CASE Cap # 0
    <3>1. LineSize(l) <= Cap
      BY <2>1, <2>3, CapIsNatural
    <3>2. det'.data = <<>> /\ ~det'.skipEvent
      <4>1. det' = ProcessDetectorLine([det EXCEPT !.line = 0], l)
        BY <1>4, <3>1, Zenon
      <4>2. det' = ProcessDetectorLine(c, l)
        BY <1>8, <4>1, Zenon
      <4>3. ProcessDetectorLine(c, l).data = <<>> /\ ~ProcessDetectorLine(c, l).skipEvent
        BY <1>9, LineDetected, Zenon
      <4>4. QED
        BY <4>2, <4>3, Zenon
    <3>3. QED
      BY <1>4, <1>5, <1>7, <2>1, <3>2, Zenon DEF Follows
  <2>4. QED
    BY <2>2, <2>3, Zenon
<1>10. CASE l # Blank
  <2>1. ~AfterData
    BY <1>10, Zenon DEF PipeInv
  <2>2. det.data = <<>> /\ (det.skipEvent => Cap = 0 \/ LineSize(l) - 1 > Cap)
    BY <1>2, <2>1, Zenon DEF Follows
  <2>3. LineSize(l) <= Cap => ~det.skipEvent
    <3>1. LineSize(l) <= Cap => ~(Cap = 0 \/ LineSize(l) - 1 > Cap)
      BY <1>1, CapIsNatural
    <3>2. QED
      BY <2>2, <3>1, Zenon
  <2>4. l.t # "blank"
    BY <1>10, LineFacts, Zenon
  <2>5. CASE l.t = "data"
    <3>1. LineSize(l) = l.e.size
      BY <2>5, LineFacts, Zenon
    <3>2. ASSUME LineSize(l) <= Cap PROVE det'.data = <<l.e>> /\ ~det'.skipEvent
      <4>1. det' = ProcessDetectorLine(c, l)
        BY <1>4, <1>8, <3>2, Zenon
      <4>2. ~c.skipEvent
        BY <1>8, <2>3, <3>2, Zenon
      <4>3. /\ ProcessDetectorLine(c, l).data = <<l.e>>
            /\ ~ProcessDetectorLine(c, l).skipEvent
        BY <2>5, <4>2, LineDetected, Zenon
      <4>4. QED
        BY <4>1, <4>3, Zenon
    <3>3. ~(LineSize(l) <= Cap) => det'.data = <<>> /\ det'.skipEvent
      <4>1. ~(LineSize(l) <= Cap) => LineSize(l) > Cap
        BY <1>1, CapIsNatural
      <4>2. QED
        BY <1>4, <2>2, <4>1, Zenon
    <3>4. IF got'[Len(got')].e.size <= Cap
            THEN det'.data = <<got'[Len(got')].e>> /\ ~det'.skipEvent
            ELSE det'.data = <<>> /\ det'.skipEvent
      BY <1>6, <3>1, <3>2, <3>3, Zenon
    <3>5. QED
      BY <1>4, <1>5, <1>7, <2>5, <3>4, Zenon DEF Follows
  <2>6. CASE l.t # "data"
    <3>1. LineSize(l) = 1
      BY <2>6, LineFacts, Zenon
    <3>2. det'.data = <<>>
      <4>1. LineSize(l) <= Cap \/ LineSize(l) > Cap
        BY <1>1, CapIsNatural
      <4>2. LineSize(l) <= Cap => det' = c
        BY <1>4, <1>8, <2>4, <2>6, LineDetected, Zenon
      <4>3. QED
        BY <1>4, <1>8, <2>2, <4>1, <4>2, Zenon
    <3>3. LineSize(l) <= Cap => ~det'.skipEvent
      <4>1. LineSize(l) <= Cap => det' = c
        BY <1>4, <1>8, <2>4, <2>6, LineDetected, Zenon
      <4>2. QED
        BY <1>8, <2>3, <4>1, Zenon
    <3>4. ~(LineSize(l) <= Cap) => Cap = 0
      BY <3>1, CapIsNatural
    <3>5. QED
      BY <1>4, <1>5, <1>7, <2>6, <3>2, <3>3, <3>4, Zenon DEF Follows
  <2>7. QED
    BY <2>5, <2>6, Zenon
<1>11. QED
  BY <1>9, <1>10, Zenon

\* One read of the copy loop: the mark follows what the client receives.
LEMMA MarkChunk ==
  ASSUME PipeInv, MarkInv, CopyChunk PROVE MarkInv'
<1>1. PICK l \in Lines : \E r \in 1..LineSize(l) :
           /\ pipe = <<[line |-> l, reads |-> r]>>
           /\ pipe # <<>> /\ pipe[1].line = l /\ pipe[1].reads = r
           /\ Watch(l, r = 1)
           /\ \/ r = 1 /\ pipe' = <<>> /\ got' = Append(got, l)
              \/ /\ r # 1 /\ got' = got /\ r - 1 \in 1..LineSize(l)
                 /\ pipe' = <<[line |-> l, reads |-> r - 1]>>
                 /\ pipe' # <<>> /\ pipe'[1].line = l /\ pipe'[1].reads = r - 1
  BY ChunkFacts, Zenon
<1>2. PICK r \in 1..LineSize(l) :
           /\ pipe # <<>> /\ pipe[1].line = l /\ pipe[1].reads = r
           /\ Watch(l, r = 1)
           /\ \/ r = 1 /\ pipe' = <<>> /\ got' = Append(got, l)
              \/ /\ r # 1 /\ got' = got
                 /\ pipe' # <<>> /\ pipe'[1].line = l /\ pipe'[1].reads = r - 1
  BY <1>1, Zenon
<1>3. /\ pc = "copy" /\ body = "pipe" /\ pc' = "copy" /\ body' = "pipe"
      /\ got \in Seq(Lines) /\ (Watching' <=> Watching)
  BY Zenon DEF CopyChunk, PipeInv, Watching, Ok
<1>4. CASE ~(Watching /\ ~token)
  <2>1. UNCHANGED <<det, token>>
    BY <1>2, <1>4, Zenon DEF Watch
  <2>2. TokenDelivered => TokenDelivered'
    <3>1. r = 1 => (TokenDelivered => TokenDelivered')
      BY <1>2, <1>3, Delivery, Zenon
    <3>2. r # 1 => (TokenDelivered => TokenDelivered')
      BY <1>2, Zenon DEF TokenDelivered, ClassifyEvent
    <3>3. QED
      BY <3>1, <3>2, Zenon
  <2>3. QED
    BY <1>3, <1>4, <2>1, <2>2, Zenon DEF MarkInv
<1>5. CASE Watching /\ ~token
  <2>1. Follows /\ ~TokenDelivered
    BY <1>3, <1>5, Zenon DEF MarkInv
  <2>2. CASE r = 1
    <3>1. det' = CompleteLine(det, l) /\ (token' <=> ClosesToken(det, l))
      BY <1>2, <1>5, <2>2, Zenon DEF Watch
    <3>2. det' \in Detectors /\ Follows'
      BY <1>2, <1>3, <2>1, <2>2, <3>1, MarkLast, Zenon
    <3>3. ClosesToken(det, l) <=> l = Blank /\ Closing
      <4>1. CASE l = Blank
        BY <1>2, <2>1, <2>2, <4>1, ClosesWhenOutput, Zenon
      <4>2. CASE l # Blank
        BY <4>2, LineFacts, Zenon DEF ClosesToken
      <4>3. QED
        BY <4>1, <4>2, Zenon
    <3>4. token' <=> TokenDelivered'
      BY <1>2, <1>3, <2>1, <2>2, <3>1, <3>3, Delivery, Zenon
    <3>5. QED
      BY <1>3, <3>2, <3>4, Zenon DEF MarkInv
  <2>3. CASE r # 1
    <3>1. det' = BufferPartial(det) /\ ~token'
      BY <1>2, <1>5, <2>3, Zenon DEF Watch
    <3>2. det' \in Detectors /\ Follows'
      BY <1>2, <1>3, <2>1, <2>3, <3>1, MarkPartial, Zenon
    <3>3. TokenDelivered' <=> TokenDelivered
      BY <1>2, <2>3, Zenon DEF TokenDelivered, ClassifyEvent
    <3>4. QED
      BY <1>3, <2>1, <3>1, <3>2, <3>3, Zenon DEF MarkInv
  <2>4. QED
    BY <2>2, <2>3, Zenon
<1>6. QED
  BY <1>4, <1>5, Zenon

\* Only the copy loop moves the detector.
LEMMA MarkStep ==
  ASSUME Inv, StreamInv, PipeInv, MarkInv, [Next]_vars PROVE MarkInv'
<1>1. CASE ModifyResponse
  <2>1. pc = "headers" /\ pc' # "headers" /\ UNCHANGED <<got, pipe, det, token>>
    BY <1>1, Zenon DEF ModifyResponse, SwitchProtocols, NormalizeUpstreamErrorResponse,
         PrivacyFilter, BufferBody, BufferOverflow, BufferFails, ExtractStream, ExtractBody,
         StartCopy
  <2>2. got' = <<>> /\ pipe' = <<>> /\ det' = NoDetector /\ token' = FALSE /\ det \in Detectors
    BY <2>1, Zenon DEF PipeInv, MarkInv, Inv, OneBiller
  <2>3. ~TokenDelivered' /\ ~AfterData' /\ Reads' = 0
    BY <2>2 DEF TokenDelivered, AfterData, Reads
  <2>4. det'.line = 0 /\ ~det'.skipLine /\ ~det'.skipEvent /\ det'.data = <<>>
    BY <2>2, Zenon DEF NoDetector
  <2>5. Follows'
    BY <2>3, <2>4, CapIsNatural DEF Follows, Partway
  <2>6. QED
    BY <2>1, <2>2, <2>3, <2>5, Zenon DEF MarkInv
<1>2. CASE Scan \/ \E how \in {"eof", "failed"} : StreamStops(how)
  <2>1. UNCHANGED <<got, det, token, pc, body, resp>>
    BY <1>2, Zenon DEF Scan, StreamStops, copyVars
  <2>2. ASSUME pc = "copy" PROVE Reads = 0 /\ Reads' = 0
    <3>1. pipe = <<>>
      BY <1>2, <2>2, Zenon DEF Scan, StreamStops, Drained, PipeOpen
    <3>2. pipe' = <<>> \/ \E l \in Lines : pipe' = <<[line |-> l, reads |-> LineSize(l)]>>
      <4>1. CASE Scan
        <5>1. PICK l \in Lines : ProcessLine(l)
          BY <4>1, ScanOutcome, Zenon
        <5>2. QED
          BY <5>1, WriteFacts, Zenon DEF ProcessLine
      <4>2. CASE \E how \in {"eof", "failed"} : StreamStops(how)
        <5>1. Partial \in Lines
          BY Zenon DEF Lines
        <5>2. UNCHANGED pipe \/ WriteLine(Partial)
          BY <4>2, Zenon DEF StreamStops, ProcessLine
        <5>3. QED
          BY <3>1, <5>1, <5>2, WriteFacts, Zenon
      <4>3. QED
        BY <1>2, <4>1, <4>2, Zenon
    <3>3. CASE pipe' = <<>>
      BY <3>1, <3>3, Zenon DEF Reads
    <3>4. CASE \E l \in Lines : pipe' = <<[line |-> l, reads |-> LineSize(l)]>>
      <4>1. PICK l \in Lines : pipe' = <<[line |-> l, reads |-> LineSize(l)]>>
        BY <3>4, Zenon
      <4>2. pipe' # <<>> /\ pipe'[1].line = l /\ pipe'[1].reads = LineSize(l)
        BY <4>1, Zenon
      <4>3. LineSize(l) \in Nat
        BY LineFacts, Zenon
      <4>4. Reads' = 0
        <5>1. LineSize(pipe'[1].line) = LineSize(l) /\ LineSize(l) - LineSize(l) = 0
          BY <4>2, <4>3
        <5>2. QED
          BY <4>2, <5>1, Zenon DEF Reads, LineSize
      <4>5. QED
        BY <3>1, <4>4, Zenon DEF Reads
    <3>5. QED
      BY <3>2, <3>3, <3>4, Zenon
  <2>3. (AfterData' <=> AfterData) /\ (TokenDelivered' <=> TokenDelivered)
        /\ (Watching' <=> Watching)
    BY <2>1, Zenon DEF AfterData, TokenDelivered, ClassifyEvent, Watching, Ok
  <2>4. pc = "copy" /\ Follows => Follows'
    BY <2>1, <2>2, <2>3, Zenon DEF Follows, Partway
  <2>5. QED
    BY <2>1, <2>3, <2>4, Zenon DEF MarkInv
<1>3. CASE CopyChunk
  BY <1>3, MarkChunk, Zenon
<1>4. CASE \E amount \in {"none", "part", "all"} : CopyBody(amount)
  BY <1>4, Zenon DEF CopyBody, MarkInv
<1>5. CASE CopyFails \/ CopyEnd \/ CloseBody \/ WriteTrailer \/ Finish
  <2>1. UNCHANGED <<got, det, token, body, resp>> /\ pc' \notin {"headers", "copy"}
    BY <1>5, ZenonT(30) DEF CopyFails, CopyEnd, CloseBody, WriteTrailer, Finish
  <2>2. (TokenDelivered' <=> TokenDelivered) /\ (Watching' <=> Watching)
    BY <2>1, Zenon DEF TokenDelivered, ClassifyEvent, Watching, Ok
  <2>3. QED
    BY <2>1, <2>2, Zenon DEF MarkInv
<1>6. CASE Report \/ ClosePipe \/ ClientLeaves \/ UNCHANGED vars
  <2>1. UNCHANGED <<got, det, token, body, resp, pc, pipe>>
    BY <1>6, Zenon DEF Report, ClosePipe, ClientLeaves, vars, copyVars
  <2>2. (TokenDelivered' <=> TokenDelivered) /\ (Watching' <=> Watching)
    BY <2>1, Zenon DEF TokenDelivered, ClassifyEvent, Watching, Ok
  <2>3. Follows => Follows'
    BY <2>1, Zenon DEF Follows, Partway, Reads, LineSize, AfterData
  <2>4. QED
    BY <2>1, <2>2, <2>3, Zenon DEF MarkInv
<1>7. QED
  BY <1>1, <1>2, <1>3, <1>4, <1>5, <1>6, Zenon DEF Next, Copier, Extractor

\* What finish records, and why a copy was broken off.
VerdictInv ==
  /\ aborted \in BOOLEAN /\ token \in BOOLEAN /\ client \in {"here", "gone"}
  /\ pc \in {"headers", "copy"} => ~aborted
  /\ pipeEnd = "error" => source = "failed"
  /\ body = "pipe" /\ aborted => source = "failed" \/ client = "gone"
  /\ pc = "over" /\ body # "hijacked" =>
       /\ resp.timed => (token <=> verdict.reason = "none")
       /\ verdict.reason = "error" => verdict.outcome # "canceled"
       /\ body = "pipe" /\ aborted => source = "failed" \/ verdict.outcome = "canceled"

\* A reason is always given, and none is an error of a client that left.
LEMMA Reasons ==
  /\ Reason \in {"canceled", "error", "no_output"}
  /\ Reason = "error" => client # "gone"
  /\ RequestOutcome = "canceled" <=> client = "gone"
<1>1. CASE client = "gone"
  BY <1>1, Zenon DEF Reason, RequestOutcome
<1>2. CASE client # "gone"
  <2>1. Reason \in {"error", "no_output"}
    BY <1>2, Zenon DEF Reason
  <2>2. RequestOutcome # "canceled"
    BY <1>2, Zenon DEF RequestOutcome
  <2>3. QED
    BY <1>2, <2>1, <2>2, Zenon
<1>3. QED
  BY <1>1, <1>2, Zenon

\* Every step keeps what the verdict says.
LEMMA VerdictStep ==
  ASSUME Inv, StreamInv, VerdictInv, [Next]_vars PROVE VerdictInv'
<1>1. CASE ModifyResponse
  <2>1. /\ pc = "headers" /\ pc' \in {"copy", "trailer"}
        /\ UNCHANGED <<aborted, token, client, pipeEnd, source>>
    BY <1>1, Zenon DEF ModifyResponse, SwitchProtocols, NormalizeUpstreamErrorResponse,
         PrivacyFilter, BufferBody, BufferOverflow, BufferFails, ExtractStream, ExtractBody,
         StartCopy, extVars
  <2>2. QED
    BY <2>1, Zenon DEF VerdictInv
<1>2. CASE Scan \/ Report \/ UNCHANGED vars
  <2>1. UNCHANGED <<pc, aborted, token, client, pipeEnd, source, body, resp, verdict>>
    BY <1>2, Zenon DEF Scan, Report, vars, copyVars, extVars
  <2>2. QED
    BY <2>1, Zenon DEF VerdictInv
<1>3. CASE \E how \in {"eof", "failed"} : StreamStops(how)
  <2>1. /\ UNCHANGED <<pc, aborted, token, client, pipeEnd, body, resp, verdict>>
        /\ source = "open"
    BY <1>3, Zenon DEF StreamStops, copyVars
  <2>2. QED
    BY <2>1, Zenon DEF VerdictInv
<1>4. CASE ClosePipe
  <2>1. /\ UNCHANGED <<pc, aborted, token, client, source, body, resp, verdict>>
        /\ pipeEnd' = "error" => source = "failed"
    BY <1>4, Zenon DEF ClosePipe, copyVars
  <2>2. QED
    BY <2>1, Zenon DEF VerdictInv
<1>5. CASE CopyChunk
  <2>1. UNCHANGED <<pc, aborted, client, pipeEnd, source, body, resp, verdict>> /\ pc = "copy"
    BY <1>5, Zenon DEF CopyChunk, extVars
  <2>2. token' \in BOOLEAN
    BY <1>5, Zenon DEF CopyChunk, Watch, VerdictInv
  <2>3. QED
    BY <2>1, <2>2, Zenon DEF VerdictInv
<1>6. CASE \E amount \in {"none", "part", "all"} : CopyBody(amount)
  <2>1. /\ UNCHANGED <<client, pipeEnd, source, body>> /\ pc' = "close" /\ body # "pipe"
        /\ aborted' \in BOOLEAN /\ token' \in BOOLEAN
    BY <1>6, Zenon DEF CopyBody, extVars
  <2>2. QED
    BY <2>1, Zenon DEF VerdictInv
<1>7. CASE CopyFails \/ CopyEnd
  <2>1. /\ UNCHANGED <<client, pipeEnd, source, body, token>> /\ pc' = "close"
        /\ aborted' \in BOOLEAN /\ (aborted' => client = "gone" \/ pipeEnd = "error")
    BY <1>7, Zenon DEF CopyFails, CopyEnd, extVars
  <2>2. QED
    BY <2>1, Zenon DEF VerdictInv
<1>8. CASE CloseBody \/ WriteTrailer
  <2>1. /\ UNCHANGED <<client, pipeEnd, source, body, token, aborted>>
        /\ pc' \in {"trailer", "finish"}
    BY <1>8, Zenon DEF CloseBody, WriteTrailer, extVars
  <2>2. QED
    BY <2>1, Zenon DEF VerdictInv
<1>9. CASE Finish
  <2>1. /\ UNCHANGED <<client, pipeEnd, source, body, token, aborted, resp>> /\ pc' = "over"
        /\ body # "hijacked" =>
             verdict' = [reason |-> IF resp.timed /\ ~token THEN Reason ELSE "none",
                         outcome |-> RequestOutcome]
    BY <1>9, Zenon DEF Finish, extVars
  <2>2. ASSUME body # "hijacked"
        PROVE  /\ verdict'.reason = IF resp.timed /\ ~token THEN Reason ELSE "none"
               /\ verdict'.outcome = RequestOutcome
    BY <2>1, <2>2
  <2>3. ASSUME body # "hijacked"
        PROVE  /\ resp.timed => (token <=> verdict'.reason = "none")
               /\ verdict'.reason = "error" => verdict'.outcome # "canceled"
               /\ client = "gone" => verdict'.outcome = "canceled"
    BY <2>2, <2>3, Reasons, Zenon
  <2>4. QED
    BY <2>1, <2>3, Zenon DEF VerdictInv
<1>10. CASE ClientLeaves
  <2>1. /\ UNCHANGED <<pipeEnd, source, body, token, aborted, resp, pc>>
        /\ pc # "over" /\ client' = "gone"
    BY <1>10, Zenon DEF ClientLeaves, copyVars, extVars
  <2>2. QED
    BY <2>1, Zenon DEF VerdictInv
<1>11. QED
  BY <1>1, <1>2, <1>3, <1>4, <1>5, <1>6, <1>7, <1>8, <1>9, <1>10, Zenon
  DEF Next, Copier, Extractor

\* The invariants hold at the start.
LEMMA MarkInit == Init => StreamInv /\ PipeInv /\ MarkInv /\ VerdictInv
<1> SUFFICES ASSUME Init PROVE StreamInv /\ PipeInv /\ MarkInv /\ VerdictInv
  BY Zenon
<1>1. StreamInv
  BY StreamInit, Zenon
<1>2. PipeInv
  <2>1. got = <<>> /\ <<>> \in Seq(Lines)
    BY DEF Init
  <2>2. QED
    BY <2>1, Zenon DEF Init, PipeInv
<1>3. det = NoDetector /\ token = FALSE /\ body = "none" /\ pc = "headers"
  BY Zenon DEF Init
<1>4. NoDetector \in Detectors
  BY CapIsNatural DEF NoDetector, Detectors, Held
<1>5. MarkInv
  BY <1>3, <1>4, Zenon DEF MarkInv
<1>6. VerdictInv
  BY Zenon DEF Init, VerdictInv
<1>7. QED
  BY <1>1, <1>2, <1>5, <1>6, Zenon

(***************************************************************************)
(* Whatever the stream's events, however long their lines and however big  *)
(* the detector's buffer, a timed request leaves exactly one mark: a first *)
(* token if and only if the client received the end of an event that       *)
(* carries output and fits the buffer, else one reason; and a client that  *)
(* left is never counted as a backend error (latencyWriter.Write, finish). *)
(***************************************************************************)
THEOREM OneMarkPerRequest == Spec => []OneMark
<1>1. VerdictInv /\ MarkInv => OneMark
  <2> SUFFICES ASSUME VerdictInv, MarkInv, pc = "over", body # "hijacked"
               PROVE  /\ resp.timed => (token <=> verdict.reason = "none")
                      /\ resp.timed /\ body = "pipe" /\ Ok => (token <=> TokenDelivered)
                      /\ verdict.reason = "error" => verdict.outcome # "canceled"
                      /\ aborted /\ source = "open" /\ body = "pipe" =>
                           verdict.outcome = "canceled"
    BY Zenon DEF OneMark
  <2>1. resp.timed /\ body = "pipe" /\ Ok => (token <=> TokenDelivered)
    BY Zenon DEF MarkInv, Watching
  <2>2. QED
    BY <2>1, Zenon DEF VerdictInv
<1>2. Init => Inv /\ StreamInv /\ PipeInv /\ MarkInv /\ VerdictInv
  BY InvInit, MarkInit, Zenon
<1>3. Inv /\ StreamInv /\ PipeInv /\ MarkInv /\ VerdictInv /\ [Next]_vars
        => (Inv /\ StreamInv /\ PipeInv /\ MarkInv /\ VerdictInv)'
  BY InvStep, StreamStep, PipeStep, MarkStep, VerdictStep, Zenon
<1>4. QED
  BY <1>1, <1>2, <1>3, PTL DEF Spec

(***************************************************************************)
(* What a stream reported.                                                 *)
(***************************************************************************)
Fields == {"p", "c", "t"}

\* The events of a stream that report a field.
Reports(s, f) ==
  {i \in 1..Len(s) : s[i].data /\ s[i].usage # <<>> /\ s[i].usage[1][f] > 0}

\* v is the last positive value the events reported of a field, or zero.
LastIs(s, f, v) ==
  IF Reports(s, f) = {} THEN v = 0
  ELSE \E i \in Reports(s, f) : (\A j \in Reports(s, f) : j <= i) /\ v = s[i].usage[1][f]

\* LastIs determines the value.
LEMMA LastIsReported ==
  ASSUME NEW f, NEW v, LastIs(Scanned, f, v) PROVE LastReported(f) = v
<1> DEFINE at == Reports(Scanned, f)
<1>1. LastReported(f) =
        IF at = {} THEN 0 ELSE Scanned[CHOOSE i \in at : \A j \in at : j <= i].usage[1][f]
  BY Zenon DEF LastReported, Reports
<1>2. at \subseteq Nat
  BY DEF Reports
<1>3. CASE at = {}
  BY <1>1, <1>3, Zenon DEF LastIs
<1>4. CASE at # {}
  <2>1. PICK i \in at : (\A j \in at : j <= i) /\ v = Scanned[i].usage[1][f]
    BY <1>4, Zenon DEF LastIs
  <2> HIDE DEF at
  <2>2. \A k \in at : (\A j \in at : j <= k) => k = i
    BY <1>2, <2>1
  <2>3. (CHOOSE k \in at : \A j \in at : j <= k) = i
    BY <2>1, <2>2, Zenon
  <2>4. QED
    BY <1>1, <1>4, <2>1, <2>3, ZenonT(30)
<1>5. QED
  BY <1>3, <1>4, Zenon

\* One more event changes a field only when it reports it.
LEMMA LastAppend ==
  ASSUME NEW s \in Seq(Events), NEW e \in Events, NEW f \in Fields, NEW v, LastIs(s, f, v)
  PROVE  LastIs(Append(s, e), f,
                IF e.data /\ e.usage # <<>> /\ e.usage[1][f] > 0 THEN e.usage[1][f] ELSE v)
<1> DEFINE n == Len(s)
           t == Append(s, e)
           new == e.data /\ e.usage # <<>> /\ e.usage[1][f] > 0
<1>1. n \in Nat /\ Len(t) = n + 1 /\ t[n + 1] = e /\ \A i \in 1..n : t[i] = s[i]
  OBVIOUS
<1>2. Reports(s, f) \subseteq 1..n /\ Reports(t, f) \subseteq 1..(n + 1)
  BY <1>1, Zenon DEF Reports
<1>3. \A i \in 1..n : i \in Reports(t, f) <=> i \in Reports(s, f)
  BY <1>1 DEF Reports
<1>4. n + 1 \in Reports(t, f) <=> new
  BY <1>1 DEF Reports
<1> HIDE DEF t, n, new
<1>5. CASE new
  <2>1. \A j \in Reports(t, f) : j <= n + 1
    BY <1>1, <1>2
  <2>2. LastIs(t, f, e.usage[1][f])
    BY <1>1, <1>4, <1>5, <2>1, Zenon DEF LastIs
  <2>3. QED
    BY <1>5, <2>2, Zenon DEF t, new
<1>6. CASE ~new
  <2>1. Reports(t, f) = Reports(s, f)
    <3>1. \A i : i \in 1..(n + 1) <=> i \in 1..n \/ i = n + 1
      BY <1>1
    <3>2. QED
      BY <1>1, <1>2, <1>3, <1>4, <1>6, <3>1, Zenon
  <2>2. \A i \in Reports(s, f) : t[i] = s[i]
    BY <1>1, <1>2, Zenon
  <2>3. LastIs(t, f, v)
    BY <2>1, <2>2, Zenon DEF LastIs
  <2>4. QED
    BY <1>6, <2>3, Zenon DEF t, new
<1>7. QED
  BY <1>5, <1>6, Zenon

\* What a data line adds to the usage that was collected.
Taken(u, e) == IF e.data /\ e.usage # <<>> THEN Merge(u, e.usage[1]) ELSE u

\* The collected usage keeps up with the events.
LEMMA TakenIsLast ==
  ASSUME NEW s \in Seq(Events), NEW e \in Events, NEW u \in Usages,
         \A f \in Fields : LastIs(s, f, u[f])
  PROVE  /\ Taken(u, e) \in Usages
         /\ \A f \in Fields : LastIs(Append(s, e), f, Taken(u, e)[f])
<1>1. e.data /\ e.usage # <<>> => e.usage[1] \in Usages
  BY PathAssumption, SMTT(30) DEF StreamEvent
<1>2. Taken(u, e) \in Usages
  BY <1>1, MergeIsUsage, Zenon DEF Taken
<1>3. ASSUME NEW f \in Fields
      PROVE  Taken(u, e)[f] =
               IF e.data /\ e.usage # <<>> /\ e.usage[1][f] > 0 THEN e.usage[1][f] ELSE u[f]
  BY ZenonT(30) DEF Taken, Merge, Fields
<1>4. ASSUME NEW f \in Fields PROVE LastIs(Append(s, e), f, Taken(u, e)[f])
  <2>1. LastIs(s, f, u[f])
    BY Zenon
  <2>2. LastIs(Append(s, e), f,
               IF e.data /\ e.usage # <<>> /\ e.usage[1][f] > 0 THEN e.usage[1][f] ELSE u[f])
    BY <2>1, LastAppend, Zenon
  <2>3. QED
    BY <1>3, <2>2, Zenon
<1>5. QED
  BY <1>2, <1>4, Zenon

\* A step of the scanner returns an event's data line, or no data line.
LEMMA ScannedStep ==
  ASSUME Inv, StreamInv, Scan
  PROVE  /\ Scanned \in Seq(Events)
         /\ \/ Scanned' = Scanned /\ used' = used
            \/ \E e \in Events : Scanned' = Append(Scanned, e) /\ used' = Taken(used, e)
         /\ Len(sent') <= Len(sent) \/ Len(sent') <= MaxEvents
<1>1. PICK line \in Lines :
           /\ ProcessLine(line)
           /\ \/ line = Blank /\ left = <<Blank>> /\ left' = <<>> /\ sent' = sent
              \/ /\ line = Content(Current) /\ sent # <<>> /\ Current \in Events
                 /\ left = <<Content(Current), Blank>> /\ left' = <<Blank>> /\ sent' = sent
              \/ \E e \in Events :
                   /\ left = <<>> /\ Len(sent) < MaxEvents /\ sent' = Append(sent, e)
                   /\ \/ line = [t |-> "event", e |-> e] /\ left' = <<Content(e), Blank>>
                      \/ line = Content(e) /\ left' = <<Blank>>
  BY ScanOutcome, Zenon
<1>2. sent \in Seq(Events)
  BY Zenon DEF StreamInv
<1>3. ASSUME NEW e \in Events PROVE <<Content(e), Blank>> # <<>> /\ <<Content(e), Blank>> # <<Blank>>
  BY Zenon
<1>4. line.t # "data" => used' = used
  BY <1>1, ZenonT(30) DEF ProcessLine
<1>5. ASSUME NEW e \in Events, line = Content(e) PROVE used' = Taken(used, e)
  <2>1. line.e = e /\ (line.t = "data" <=> e.data)
    BY <1>5, Zenon DEF Content
  <2>2. QED
    BY <1>1, <2>1, Zenon DEF ProcessLine, Taken
<1>6. CASE line = Blank /\ left = <<Blank>> /\ left' = <<>> /\ sent' = sent
  <2>1. Scanned' = sent /\ Scanned = sent
    BY <1>6, Zenon DEF Scanned
  <2>2. line.t # "data"
    BY <1>6, Zenon DEF Blank
  <2>3. QED
    BY <1>2, <1>4, <1>6, <2>1, <2>2
<1>7. CASE /\ line = Content(Current) /\ sent # <<>> /\ Current \in Events
           /\ left = <<Content(Current), Blank>> /\ left' = <<Blank>> /\ sent' = sent
  <2>1. Scanned = SubSeq(sent, 1, Len(sent) - 1)
    BY <1>3, <1>7, Zenon DEF Scanned
  <2>2. Scanned' = sent
    BY <1>7, Zenon DEF Scanned
  <2>3. Len(sent) \in Nat \ {0}
    BY <1>2, <1>7
  <2>4. Scanned \in Seq(Events) /\ Len(Scanned) = Len(sent) - 1
        /\ \A i \in 1..(Len(sent) - 1) : Scanned[i] = sent[i]
    <3>1. PICK m \in Nat : m = Len(sent) - 1
      BY <2>3
    <3>2. Scanned = SubSeq(sent, 1, m) /\ m <= Len(sent)
      BY <2>1, <2>3, <3>1
    <3>3. \A i \in 1..m : sent[i] \in Events
      BY <1>2, <3>2
    <3>4. Len(Scanned) = m /\ \A i \in 1..m : Scanned[i] = sent[i]
      BY <1>2, <3>2
    <3>5. Scanned \in Seq(Events)
      BY <1>2, <3>2, <3>3
    <3>6. QED
      BY <3>1, <3>4, <3>5, Zenon
  <2>5. sent = Append(Scanned, Current)
    <3> DEFINE t == Append(Scanned, Current)
    <3>1. t \in Seq(Events) /\ Len(t) = Len(sent)
      BY <1>7, <2>3, <2>4
    <3>2. \A i \in 1..Len(sent) : t[i] = sent[i]
      BY <1>2, <2>3, <2>4 DEF Current
    <3> HIDE DEF t
    <3>3. t = sent
      BY <1>2, <3>1, <3>2
    <3>4. QED
      BY <3>3, Zenon DEF t
  <2>6. used' = Taken(used, Current)
    BY <1>5, <1>7, Zenon
  <2>7. QED
    <3>1. Scanned' = Append(Scanned, Current)
      BY <2>2, <2>5, Zenon
    <3>2. Len(sent') <= Len(sent)
      BY <1>7, <2>3
    <3>3. QED
      BY <1>7, <2>4, <2>6, <3>1, <3>2, Zenon
<1>8. CASE \E e \in Events :
             /\ left = <<>> /\ Len(sent) < MaxEvents /\ sent' = Append(sent, e)
             /\ \/ line = [t |-> "event", e |-> e] /\ left' = <<Content(e), Blank>>
                \/ line = Content(e) /\ left' = <<Blank>>
  <2>1. PICK e \in Events :
             /\ left = <<>> /\ Len(sent) < MaxEvents /\ sent' = Append(sent, e)
             /\ \/ line = [t |-> "event", e |-> e] /\ left' = <<Content(e), Blank>>
                \/ line = Content(e) /\ left' = <<Blank>>
    BY <1>8, Zenon
  <2>2. Scanned = sent
    BY <2>1, Zenon DEF Scanned
  <2>3. Len(sent') <= MaxEvents
    <3>1. MaxEvents \in Nat
      BY PathAssumption, Zenon
    <3>2. QED
      BY <1>2, <2>1, <3>1
  <2>4. CASE line = [t |-> "event", e |-> e] /\ left' = <<Content(e), Blank>>
    <3>1. Scanned' = SubSeq(Append(sent, e), 1, Len(Append(sent, e)) - 1)
      BY <1>3, <2>1, <2>4, Zenon DEF Scanned
    <3>2. SubSeq(Append(sent, e), 1, Len(Append(sent, e)) - 1) = sent
      BY <1>2
    <3>3. line.t # "data"
      BY <2>4, Zenon
    <3>4. QED
      BY <1>2, <1>4, <2>2, <2>3, <3>1, <3>2, <3>3, ZenonT(30)
  <2>5. CASE line = Content(e) /\ left' = <<Blank>>
    <3>1. Scanned' = Append(sent, e)
      BY <2>1, <2>5, Zenon DEF Scanned
    <3>2. QED
      BY <1>2, <1>5, <2>2, <2>3, <2>5, <3>1, Zenon
  <2>6. QED
    BY <2>1, <2>4, <2>5, Zenon
<1>9. QED
  BY <1>1, <1>6, <1>7, <1>8, Zenon

\* A usage, if there is one.
Shown == {<<>>} \union {<<u>> : u \in Usages}

\* The usage a response starts with.
FlatUsage == IF resp.metrics /\ resp.flat THEN <<Zero>> ELSE <<>>

\* c is what the stream reported so far: the extractor holds it until its
\* report, which bills it and keeps it for the trailer.
Collected(c) ==
  /\ \A f \in Fields : LastIs(Scanned, f, c[f])
  /\ ext \in {"scan", "report"} => used = c /\ wrapper = FlatUsage
  /\ ext \in {"close", "done"} =>
       IF c.t > 0 \/ c.c > 0
       THEN /\ used = WithTotal(c) /\ bills = UsageHandler(<<>>, used)
            /\ wrapper = IF resp.metrics THEN <<used>> ELSE FlatUsage
       ELSE bills = <<>> /\ wrapper = FlatUsage

\* The usage of a stream.
CollectInv ==
  /\ Len(sent) <= MaxEvents
  /\ pc = "headers" => sent = <<>>
  /\ body = "pipe" <=> ext # "off"
  /\ body # "pipe" => wrapper = FlatUsage
  /\ body = "pipe" => \E c \in Usages : Collected(c)

\* A line the scanner returns is collected when it reports something.
LEMMA CollectScan ==
  ASSUME Inv, StreamInv, CollectInv, Scan PROVE CollectInv'
<1>1. /\ ext = "scan" /\ ext' \in {"scan", "report"} /\ body = "pipe"
      /\ UNCHANGED <<body, pc, resp, wrapper>>
  BY Zenon DEF Scan, copyVars, Inv, OneBiller
<1>2. PICK c \in Usages : Collected(c)
  BY <1>1, Zenon DEF CollectInv
<1>3. used = c /\ wrapper = FlatUsage /\ \A f \in Fields : LastIs(Scanned, f, c[f])
  BY <1>1, <1>2, Zenon DEF Collected
<1>4. /\ Scanned \in Seq(Events)
      /\ \/ Scanned' = Scanned /\ used' = used
         \/ \E e \in Events : Scanned' = Append(Scanned, e) /\ used' = Taken(used, e)
      /\ Len(sent') <= Len(sent) \/ Len(sent') <= MaxEvents
  BY ScannedStep, Zenon
<1>5. PICK d \in Usages : used' = d /\ \A f \in Fields : LastIs(Scanned', f, d[f])
  <2>1. CASE Scanned' = Scanned /\ used' = used
    BY <1>3, <2>1, Zenon
  <2>2. CASE \E e \in Events : Scanned' = Append(Scanned, e) /\ used' = Taken(used, e)
    <3>1. PICK e \in Events : Scanned' = Append(Scanned, e) /\ used' = Taken(c, e)
      BY <1>3, <2>2, Zenon
    <3>2. /\ Taken(c, e) \in Usages
          /\ \A f \in Fields : LastIs(Append(Scanned, e), f, Taken(c, e)[f])
      BY <1>3, <1>4, TakenIsLast, Zenon
    <3>3. QED
      BY <3>1, <3>2, Zenon
  <2>3. QED
    BY <1>4, <2>1, <2>2, Zenon
<1>6. (\A f \in Fields : LastIs(Scanned, f, d[f]))'
  BY <1>5, ZenonT(30) DEF LastIs, Reports
<1>7. Collected(d)'
  BY <1>1, <1>3, <1>5, <1>6, Zenon DEF Collected, FlatUsage
<1>8. Len(sent') <= MaxEvents
  <2>1. MaxEvents \in Nat /\ sent \in Seq(Events) /\ sent' \in Seq(Events)
    BY PathAssumption, ScanStep, Zenon DEF StreamInv
  <2>2. QED
    BY <1>4, <2>1, SMTT(30) DEF CollectInv
<1>9. pc # "headers"
  BY <1>1, Zenon DEF Inv, OneBiller
<1>10. QED
  BY <1>1, <1>7, <1>8, <1>9, Zenon DEF CollectInv

\* The report turns what was collected into the bill and the trailer.
LEMMA CollectReport ==
  ASSUME Inv, CollectInv, Report PROVE CollectInv'
<1>1. /\ ext = "report" /\ ext' = "close" /\ body = "pipe" /\ bills = <<>> /\ pc # "headers"
      /\ UNCHANGED <<body, pc, resp, sent, left>>
  BY Zenon DEF Report, copyVars, Inv, OneBiller
<1>2. PICK c \in Usages : Collected(c)
  BY <1>1, Zenon DEF CollectInv
<1>3. used = c /\ wrapper = FlatUsage /\ \A f \in Fields : LastIs(Scanned, f, c[f])
  BY <1>1, <1>2, Zenon DEF Collected
<1>4. (\A f \in Fields : LastIs(Scanned, f, c[f]))'
  BY <1>1, <1>3, ZenonT(30) DEF LastIs, Reports, Scanned
<1>5. CASE c.t > 0 \/ c.c > 0
  <2>1. /\ used' = WithTotal(c) /\ bills' = UsageHandler(<<>>, used')
        /\ wrapper' = IF resp.metrics THEN <<used'>> ELSE wrapper
    BY <1>1, <1>3, <1>5, Zenon DEF Report
  <2>2. bills' = UsageHandler(<<>>, used)'
    BY <1>1, <2>1, Zenon DEF UsageHandler, EmitZeroTokenEvent
  <2>3. wrapper' = (IF resp.metrics THEN <<used>> ELSE FlatUsage)'
    BY <1>1, <1>3, <2>1, Zenon DEF FlatUsage
  <2>4. (used = WithTotal(c))'
    BY <2>1, Zenon DEF WithTotal
  <2>5. Collected(c)'
    BY <1>1, <1>4, <1>5, <2>2, <2>3, <2>4, Zenon DEF Collected
  <2>6. QED
    BY <1>1, <2>5, Zenon DEF CollectInv
<1>6. CASE ~(c.t > 0 \/ c.c > 0)
  <2>1. bills' = <<>> /\ wrapper' = FlatUsage'
    BY <1>1, <1>3, <1>6, Zenon DEF Report, FlatUsage
  <2>2. Collected(c)'
    BY <1>1, <1>4, <1>6, <2>1, Zenon DEF Collected
  <2>3. QED
    BY <1>1, <2>2, Zenon DEF CollectInv
<1>7. QED
  BY <1>5, <1>6, Zenon

\* Nothing else touches what was collected and billed of a stream.
LEMMA CollectFrame ==
  ASSUME CollectInv, UNCHANGED <<body, resp, sent, left, used, wrapper>>,
         body = "pipe" => bills' = bills,
         ext' = ext \/ (ext = "close" /\ ext' = "done")
                    \/ (ext = "scan" /\ ext' = "report"),
         pc' = "headers" => pc = "headers"
  PROVE  CollectInv'
<1>1. FlatUsage' = FlatUsage /\ Scanned' = Scanned
  BY Zenon DEF FlatUsage, Scanned
<1>2. ASSUME NEW c \in Usages, body = "pipe", Collected(c) PROVE Collected(c)'
  <2>1. (\A f \in Fields : LastIs(Scanned, f, c[f]))'
    BY <1>1, <1>2, Zenon DEF Collected, LastIs, Reports
  <2>2. UsageHandler(<<>>, used)' = UsageHandler(<<>>, used)
    BY Zenon DEF UsageHandler, EmitZeroTokenEvent
  <2>3. ext' \in {"scan", "report"} => ext \in {"scan", "report"}
    BY Zenon
  <2>4. ext' \in {"close", "done"} => ext \in {"close", "done"}
    BY Zenon
  <2>5. bills' = bills
    BY <1>2, Zenon
  <2>6. QED
    BY <1>1, <1>2, <2>1, <2>2, <2>3, <2>4, <2>5, Zenon DEF Collected, WithTotal
<1>3. QED
  BY <1>1, <1>2, Zenon DEF CollectInv

\* A new stream has reported nothing.
LEMMA CollectStart ==
  ASSUME Inv, StreamInv, CollectInv, ModifyResponse PROVE CollectInv'
<1>1. /\ pc = "headers" /\ body = "none" /\ ext = "off" /\ used = Zero /\ bills = <<>>
      /\ left = <<>> /\ sent = <<>>
  BY Zenon DEF Inv, OneBiller, StreamInv, CollectInv, ModifyResponse, SwitchProtocols,
         NormalizeUpstreamErrorResponse, PrivacyFilter, BufferBody, BufferOverflow,
         BufferFails, ExtractStream, ExtractBody
<1>2. UNCHANGED <<sent, left, used, wrapper>> /\ pc' # "headers"
  BY Zenon DEF ModifyResponse, SwitchProtocols, NormalizeUpstreamErrorResponse, PrivacyFilter,
         BufferBody, BufferOverflow, BufferFails, ExtractStream, ExtractBody, StartCopy,
         extVars
<1>3. wrapper = FlatUsage /\ Len(sent) <= MaxEvents
  BY <1>1, Zenon DEF CollectInv
<1>4. FlatUsage' = FlatUsage
  <2>1. resp'.metrics = resp.metrics /\ resp'.flat = resp.flat
    BY Zenon DEF Inv, Types, Response, ModifyResponse, SwitchProtocols,
           NormalizeUpstreamErrorResponse, PrivacyFilter, BufferBody, BufferOverflow,
           BufferFails, ExtractStream, ExtractBody
  <2>2. QED
    BY <2>1, Zenon DEF FlatUsage
<1>5. CASE ExtractStream
  <2>1. body' = "pipe" /\ ext' = "scan"
    BY <1>5, Zenon DEF ExtractStream, StartCopy
  <2>2. Scanned' = <<>>
    BY <1>1, <1>2, Zenon DEF Scanned
  <2>3. \A f \in Fields : Zero[f] = 0
    BY DEF Zero, Fields
  <2>4. (\A f \in Fields : LastIs(Scanned, f, Zero[f]))'
    BY <2>2, <2>3 DEF LastIs, Reports, Zero
  <2>5. Collected(Zero)'
    BY <1>1, <1>2, <1>3, <1>4, <2>1, <2>4, Zenon DEF Collected, Zero
  <2>6. QED
    BY <1>2, <1>3, <1>4, <2>1, <2>5, ZeroIsUsage, Zenon DEF CollectInv, Zero
<1>6. CASE ~ExtractStream
  <2>1. body' # "pipe" /\ ext' = ext
    BY <1>6, Zenon DEF ModifyResponse, SwitchProtocols, NormalizeUpstreamErrorResponse,
         PrivacyFilter, BufferBody, BufferOverflow, BufferFails, ExtractBody, StartCopy,
         extVars
  <2>2. QED
    BY <1>1, <1>2, <1>3, <1>4, <2>1, Zenon DEF CollectInv
<1>7. QED
  BY <1>5, <1>6, Zenon

\* Every step keeps what is known of the usage.
LEMMA CollectStep ==
  ASSUME Inv, StreamInv, CollectInv, [Next]_vars PROVE CollectInv'
<1>1. CASE ModifyResponse
  BY <1>1, CollectStart, Zenon
<1>2. CASE Scan
  BY <1>2, CollectScan, Zenon
<1>3. CASE Report
  BY <1>3, CollectReport, Zenon
<1>4. CASE \E how \in {"eof", "failed"} : StreamStops(how)
  <2>1. used' = used
    BY <1>4, Zenon DEF StreamStops, ProcessLine, Partial
  <2>2. /\ UNCHANGED <<body, resp, sent, left, wrapper, bills, pc>>
        /\ ext = "scan" /\ ext' = "report"
    BY <1>4, Zenon DEF StreamStops, copyVars
  <2>3. QED
    BY <2>1, <2>2, CollectFrame, Zenon
<1>5. CASE ClosePipe
  <2>1. /\ UNCHANGED <<body, resp, sent, left, wrapper, bills, pc, used>>
        /\ ext = "close" /\ ext' = "done"
    BY <1>5, Zenon DEF ClosePipe, copyVars
  <2>2. QED
    BY <2>1, CollectFrame, Zenon
<1>6. CASE CloseBody
  <2>1. /\ UNCHANGED <<body, resp, sent, left, wrapper, used, ext>> /\ pc' # "headers"
    BY <1>6, Zenon DEF CloseBody, extVars
  <2>2. body = "pipe" => bills' = bills
    BY <1>6, Zenon DEF CloseBody, Inv, OneBiller
  <2>3. QED
    BY <2>1, <2>2, CollectFrame, Zenon
<1>7. CASE \/ CopyChunk \/ CopyFails \/ CopyEnd \/ WriteTrailer \/ Finish \/ ClientLeaves
           \/ UNCHANGED vars
           \/ \E amount \in {"none", "part", "all"} : CopyBody(amount)
  <2>1. /\ UNCHANGED <<body, resp, sent, left, wrapper, used, ext, bills>>
        /\ pc' = "headers" => pc = "headers"
    BY <1>7, Zenon DEF CopyChunk, CopyFails, CopyEnd, WriteTrailer, Finish, ClientLeaves, CopyBody,
         vars, copyVars, extVars
  <2>2. QED
    BY <2>1, CollectFrame, Zenon
<1>8. QED
  BY <1>1, <1>2, <1>3, <1>4, <1>5, <1>6, <1>7, Zenon DEF Next, Copier, Extractor

(***************************************************************************)
(* What is billed and shown.                                               *)
(***************************************************************************)
\* An answer that must be billed: a successful one that is no stream.
Chargeable == Ordinary /\ Ok /\ ~Sse /\ resp.key /\ ~(Buffered /\ resp.over)

\* At most one bill; a chargeable answer has one or will get one when its body
\* is closed; the usage shown with it is the usage billed.
BillInv ==
  /\ billable \in BOOLEAN /\ read \in {"none", "part", "all"}
  /\ Len(resp.usage) <= 1
  /\ body = "pipe" => Sse
  /\ pc = "trailer" => ~aborted
  /\ bills = <<>> \/ \E m \in Amounts : bills = <<m>>
  /\ pc # "headers" /\ Chargeable =>
       \/ bills # <<>>
       \/ body \in {"plain", "tee"} /\ pc \in {"copy", "close"} /\ billable
  /\ shown \in Shown
  /\ shown # <<>> => resp.metrics
  /\ pc = "headers" => shown = <<>>
  /\ body \in {"plain", "tee"} /\ shown # <<>> => body = "plain" /\ shown = <<Zero>>
  /\ body # "pipe" /\ shown # <<>> /\ bills # <<>> /\ resp.model = "plain" =>
       bills = <<Meters(shown[1])>>
  /\ body = "pipe" /\ shown # <<>> => ext = "done" /\ shown = wrapper
  /\ body = "pipe" /\ resp.metrics /\ ~aborted /\ pc \in {"finish", "over"} =>
       ext = "done" /\ shown = wrapper

\* What the extractor keeps for the trailer is a usage somebody asked for.
LEMMA WrapperFacts ==
  ASSUME Inv, CollectInv PROVE wrapper \in Shown /\ (wrapper # <<>> => resp.metrics)
<1>1. FlatUsage \in Shown /\ (FlatUsage # <<>> => resp.metrics)
  BY ZeroIsUsage, Zenon DEF FlatUsage, Shown
<1>2. CASE wrapper = FlatUsage
  BY <1>1, <1>2, Zenon
<1>3. CASE wrapper # FlatUsage
  <2>1. wrapper = <<used>> /\ resp.metrics
    BY <1>3, Zenon DEF CollectInv, Collected, Inv, Types
  <2>2. used \in Usages
    BY Zenon DEF Inv, Types
  <2>3. QED
    BY <2>1, <2>2, Zenon DEF Shown
<1>4. QED
  BY <1>2, <1>3, Zenon

\* The kinds of bills there are.
LEMMA OneBill ==
  ASSUME Inv, NEW u \in Usages
  PROVE  /\ UsageHandler(<<>>, u) = <<>> \/ \E m \in Amounts : UsageHandler(<<>>, u) = <<m>>
         /\ EmitZeroTokenEvent(<<>>) = <<>>
              \/ \E m \in Amounts : EmitZeroTokenEvent(<<>>) = <<m>>
         /\ resp.key => UsageHandler(<<>>, u) # <<>> /\ EmitZeroTokenEvent(<<>>) # <<>>
         /\ resp.model = "plain" => UsageHandler(<<>>, u) = <<Meters(u)>>
         /\ EmitZeroTokenEvent(<<>>) # <<>> => EmitZeroTokenEvent(<<>>) = <<Meters(Zero)>>
<1>1. Meters(u) \in Amounts /\ Meters(Zero) \in Amounts
  BY MetersAreAmounts, ZeroIsUsage, Zenon DEF Amounts
<1>2. QED
  BY <1>1, Handled

\* The bill of a response that is read whole, and the headers of the others.
LEMMA BillHeaders ==
  ASSUME Inv, StreamInv, VerdictInv, BillInv, ModifyResponse PROVE BillInv'
<1>1. /\ pc = "headers" /\ body = "none" /\ bills = <<>> /\ shown = <<>> /\ ~aborted
      /\ billable = FALSE /\ read \in {"none", "part", "all"} /\ Len(resp.usage) <= 1
  BY Zenon DEF Inv, OneBiller, BillInv, VerdictInv, ModifyResponse, SwitchProtocols,
         NormalizeUpstreamErrorResponse, PrivacyFilter, BufferBody, BufferOverflow,
         BufferFails, ExtractStream, ExtractBody
<1>2. UNCHANGED <<read, aborted>>
  BY Zenon DEF ModifyResponse, SwitchProtocols, NormalizeUpstreamErrorResponse, PrivacyFilter,
         BufferBody, BufferOverflow, BufferFails, ExtractStream, ExtractBody
<1>3. <<>> \in Shown /\ <<Zero>> \in Shown
  BY ZeroIsUsage, Zenon DEF Shown
<1>4. CASE SwitchProtocols
  <2>1. /\ resp' = resp /\ body' = "hijacked" /\ pc' = "trailer" /\ shown' = <<>>
        /\ billable' = FALSE /\ bills' = EmitZeroTokenEvent(<<>>) /\ resp.status = "switching"
    BY <1>1, <1>4, Zenon DEF SwitchProtocols
  <2>2. ~Chargeable'
    BY <2>1, Zenon DEF Chargeable, Ordinary
  <2>3. bills' = <<>> \/ \E m \in Amounts : bills' = <<m>>
    BY <2>1, OneBill, ZeroIsUsage, Zenon
  <2>4. QED
    BY <1>1, <1>2, <1>3, <2>1, <2>2, <2>3, Zenon DEF BillInv
<1>5. CASE NormalizeUpstreamErrorResponse
  <2>1. /\ resp' = resp /\ body' = "memory" /\ pc' = "copy" /\ shown' = <<>>
        /\ billable' = FALSE /\ bills' = <<>> /\ Normalized
    BY <1>1, <1>5, Zenon DEF NormalizeUpstreamErrorResponse, StartCopy
  <2>2. ~Chargeable'
    BY <2>1, Zenon DEF Chargeable, Ordinary, Normalized, Bad, Sse
  <2>3. QED
    BY <1>1, <1>2, <1>3, <2>1, <2>2, ZenonT(30) DEF BillInv
<1>6. CASE PrivacyFilter
  <2>1. /\ resp' = resp /\ body' = "plain" /\ pc' = "copy" /\ billable' = FALSE
        /\ bills' = <<>> /\ resp.model = "privacy_filter"
        /\ shown' = <<>> \/ (resp.metrics /\ shown' = <<Zero>>)
    BY <1>1, <1>6, Zenon DEF PrivacyFilter, StartCopy
  <2>2. ~Chargeable'
    BY <2>1, Zenon DEF Chargeable, Ordinary
  <2>3. QED
    BY <1>1, <1>2, <1>3, <2>1, <2>2, Zenon DEF BillInv
<1>7. CASE BufferBody
  <2>1. /\ resp' = resp /\ body' = "memory" /\ pc' = "copy" /\ billable' = FALSE
        /\ bills' = IF resp.usage # <<>> THEN UsageHandler(<<>>, resp.usage[1])
                                         ELSE EmitZeroTokenEvent(<<>>)
        /\ shown' = IF resp.usage # <<>> THEN resp.usage ELSE FlatHeader
        /\ Buffered
    BY <1>1, <1>7, Zenon DEF BufferBody, StartCopy
  <2>2. resp.metrics
    BY <2>1, Zenon DEF Buffered
  <2>3. CASE resp.usage # <<>>
    <3>1. PICK u \in Usages : resp.usage = <<u>>
      BY <1>1, <2>3 DEF Inv, Types, Response
    <3>2. resp.usage[1] = u
      BY <3>1, SMTT(30)
    <3>3. bills' = UsageHandler(<<>>, u) /\ shown' = <<u>> /\ shown' \in Shown /\ shown'[1] = u
      BY <2>1, <2>3, <3>1, <3>2, Zenon DEF Shown
    <3>4. /\ bills' = <<>> \/ \E m \in Amounts : bills' = <<m>>
          /\ resp.key => bills' # <<>>
          /\ resp.model = "plain" => bills' = <<Meters(u)>>
      BY <3>3, OneBill, Zenon
    <3>5. Chargeable' => resp.key
      BY <2>1, Zenon DEF Chargeable
    <3>6. (resp.model = "plain" => bills = <<Meters(shown[1])>>)'
      BY <2>1, <3>3, <3>4, ZenonT(30) DEF Meters
    <3>7. QED
      BY <1>1, <1>2, <2>1, <2>2, <3>3, <3>4, <3>5, <3>6, Zenon DEF BillInv
  <2>4. CASE resp.usage = <<>>
    <3>1. bills' = EmitZeroTokenEvent(<<>>) /\ (shown' = <<>> \/ shown' = <<Zero>>)
      BY <2>1, <2>4, Zenon DEF FlatHeader
    <3>2. /\ bills' = <<>> \/ \E m \in Amounts : bills' = <<m>>
          /\ resp.key => bills' # <<>>
          /\ bills' # <<>> => bills' = <<Meters(Zero)>>
      BY <3>1, OneBill, ZeroIsUsage, Zenon
    <3>3. Chargeable' => resp.key
      BY <2>1, Zenon DEF Chargeable
    <3>4. shown' # <<>> => shown'[1] = Zero
      BY <3>1
    <3>5. (shown # <<>> /\ bills # <<>> => bills = <<Meters(shown[1])>>)'
      BY <3>2, <3>4, Zenon DEF Meters
    <3>6. QED
      BY <1>1, <1>2, <1>3, <2>1, <2>2, <3>1, <3>2, <3>3, <3>5, ZenonT(30) DEF BillInv
  <2>5. QED
    BY <2>3, <2>4, Zenon
<1>8. CASE BufferOverflow
  <2>1. /\ resp' = resp /\ body' = "plain" /\ pc' = "copy" /\ billable' = FALSE
        /\ bills' = <<>> /\ shown' = FlatHeader /\ Buffered /\ resp.over
    BY <1>1, <1>8, Zenon DEF BufferOverflow, StartCopy
  <2>2. ~Chargeable'
    BY <2>1, Zenon DEF Chargeable, Buffered, Sse, Ok
  <2>3. shown' = <<>> \/ (resp.metrics /\ shown' = <<Zero>>)
    BY <2>1, Zenon DEF FlatHeader
  <2>4. QED
    BY <1>1, <1>2, <1>3, <2>1, <2>2, <2>3, Zenon DEF BillInv
<1>9. CASE BufferFails
  <2>1. /\ resp' = [resp EXCEPT !.status = "5xx"] /\ body' = "memory" /\ pc' = "copy"
        /\ billable' = FALSE /\ bills' = <<>> /\ shown' = <<>>
    BY <1>1, <1>9, Zenon DEF BufferFails, StartCopy
  <2>2. resp'.status = "5xx" /\ resp'.usage = resp.usage
    BY <2>1, Zenon DEF Inv, Types, Response
  <2>3. ~Chargeable'
    BY <2>2, Zenon DEF Chargeable, Ok
  <2>4. QED
    BY <1>1, <1>2, <1>3, <2>1, <2>2, <2>3, Zenon DEF BillInv
<1>10. CASE ExtractStream
  <2>1. /\ resp' = resp /\ body' = "pipe" /\ pc' = "copy" /\ billable' = FALSE
        /\ bills' = <<>> /\ shown' = <<>> /\ Sse
    BY <1>1, <1>10, Zenon DEF ExtractStream, StartCopy
  <2>2. ~Chargeable' /\ Sse'
    BY <2>1, Zenon DEF Chargeable, Sse
  <2>3. QED
    BY <1>1, <1>2, <1>3, <2>1, <2>2, Zenon DEF BillInv
<1>11. CASE ExtractBody
  <2>1. /\ resp' = resp /\ pc' = "copy" /\ billable' = (resp.key /\ Ok) /\ bills' = <<>>
        /\ body' = IF Ok /\ resp.type = "json" THEN "tee" ELSE "plain"
        /\ shown' = FlatHeader /\ ~Sse /\ ~Buffered
    BY <1>1, <1>11, Zenon DEF ExtractBody, StartCopy
  <2>2. shown' = <<>> \/ (resp.metrics /\ shown' = <<Zero>> /\ body' = "plain")
    BY <2>1, Zenon DEF FlatHeader, Buffered
  <2>3. Chargeable' => billable'
    BY <2>1, ZenonT(30) DEF Chargeable, Ok
  <2>4. body' \in {"plain", "tee"} /\ billable' \in BOOLEAN
    BY <2>1, Zenon
  <2>5. QED
    BY <1>1, <1>2, <1>3, <2>1, <2>2, <2>3, <2>4, Zenon DEF BillInv
<1>12. QED
  BY <1>4, <1>5, <1>6, <1>7, <1>8, <1>9, <1>10, <1>11, Zenon DEF ModifyResponse

\* A body that is no stream is billed when it is closed.
LEMMA BillClose ==
  ASSUME Inv, BillInv, CloseBody PROVE BillInv'
<1> DEFINE seen == IF body = "tee" /\ read = "all" THEN resp.usage ELSE <<>>
<1>1. /\ pc = "close" /\ pc' \in {"trailer", "finish"} /\ (pc' = "finish" <=> aborted)
      /\ UNCHANGED <<resp, body, billable, read, shown, wrapper, ext, aborted>>
      /\ bills' = IF seen # <<>> THEN UsageHandler(bills, seen[1])
                  ELSE IF billable THEN EmitZeroTokenEvent(bills) ELSE bills
  BY Zenon DEF CloseBody, extVars
<1>2. Chargeable' <=> Chargeable
  BY <1>1, Zenon DEF Chargeable, Ordinary, Normalized, Bad, Buffered, Ok, Sse
<1>3. Sse' <=> Sse
  BY <1>1, Zenon DEF Sse
<1>4. CASE seen # <<>>
  <2>1. body = "tee" /\ bills = <<>> /\ shown = <<>> /\ resp.usage # <<>>
    BY <1>1, <1>4, Zenon DEF Inv, OneBiller, BillInv
  <2>2. seen[1] \in Usages
    BY <1>4, <2>1 DEF Inv, Types, Response
  <2>3. bills' = UsageHandler(<<>>, seen[1])
    BY <1>1, <1>4, <2>1, Zenon
  <2> HIDE DEF seen
  <2>4. /\ bills' = <<>> \/ \E m \in Amounts : bills' = <<m>>
        /\ resp.key => bills' # <<>>
    BY <2>2, <2>3, OneBill, Zenon
  <2>5. Chargeable => resp.key
    BY Zenon DEF Chargeable
  <2>6. QED
    BY <1>1, <1>2, <2>1, <2>4, <2>5, Zenon DEF BillInv
<1>5. CASE seen = <<>> /\ billable
  <2>1. body \in {"plain", "tee"} /\ bills = <<>>
    BY <1>1, <1>5, ZenonT(30) DEF Inv, Types, OneBiller, Kinds
  <2>2. bills' = EmitZeroTokenEvent(<<>>)
    BY <1>1, <1>5, <2>1, Zenon
  <2>3. /\ bills' = <<>> \/ \E m \in Amounts : bills' = <<m>>
        /\ resp.key => bills' # <<>>
        /\ bills' # <<>> => bills' = <<Meters(Zero)>>
    BY <2>2, OneBill, ZeroIsUsage, Zenon
  <2>4. Chargeable => resp.key
    BY Zenon DEF Chargeable
  <2>5. shown # <<>> => shown = <<Zero>> /\ shown[1] = Zero
    BY <2>1, SMTT(30) DEF BillInv
  <2>6. (shown # <<>> /\ bills # <<>> => bills = <<Meters(shown[1])>>)'
    BY <1>1, <2>3, <2>5, Zenon DEF Meters
  <2>7. QED
    BY <1>1, <1>2, <2>1, <2>3, <2>4, <2>6, ZenonT(30) DEF BillInv
<1>6. CASE seen = <<>> /\ ~billable
  <2>1. bills' = bills
    BY <1>1, <1>6, Zenon
  <2>2. (body # "pipe" /\ shown # <<>> /\ bills # <<>> /\ resp.model = "plain" =>
           bills = <<Meters(shown[1])>>)'
    BY <1>1, <2>1, ZenonT(30) DEF BillInv, Meters
  <2>3. QED
    BY <1>1, <1>2, <1>3, <1>6, <2>1, <2>2, ZenonT(30) DEF BillInv
<1>7. QED
  BY <1>4, <1>5, <1>6, Zenon

\* Steps that neither bill nor show anything.
LEMMA BillFrame ==
  ASSUME Inv, BillInv, UNCHANGED <<resp, body, billable, shown, wrapper, bills>>,
         read' \in {"none", "part", "all"},
         ext' = ext \/ ext # "done",
         \/ pc' = pc /\ aborted' = aborted
         \/ pc = "copy" /\ pc' = "close"
         \/ pc = "finish" /\ pc' = "over" /\ aborted' = aborted
  PROVE  BillInv'
<1>1. (Chargeable' <=> Chargeable) /\ (Sse' <=> Sse)
  BY Zenon DEF Chargeable, Ordinary, Normalized, Bad, Buffered, Ok, Sse
<1>2. (body # "pipe" /\ shown # <<>> /\ bills # <<>> /\ resp.model = "plain" =>
         bills = <<Meters(shown[1])>>)'
  BY Zenon DEF BillInv, Meters
<1>3. body = "pipe" => ~Chargeable
  BY Zenon DEF BillInv, Chargeable
<1>4. body \in {"plain", "tee"} /\ pc \in {"copy", "close"} => pc' \in {"copy", "close"}
  BY Zenon
<1>5. QED
  BY <1>1, <1>2, <1>3, <1>4 DEF BillInv

\* Every step keeps the books.
LEMMA BillStep ==
  ASSUME Inv, StreamInv, VerdictInv, CollectInv, BillInv, [Next]_vars PROVE BillInv'
<1>1. CASE ModifyResponse
  BY <1>1, BillHeaders, Zenon
<1>2. CASE CloseBody
  BY <1>2, BillClose, Zenon
<1>3. CASE Report
  <2>1. /\ UNCHANGED <<resp, body, billable, read, shown, pc, aborted>>
        /\ body = "pipe" /\ ext = "report" /\ bills = <<>>
    BY <1>3, Zenon DEF Report, copyVars, Inv, OneBiller
  <2>2. shown = <<>>
    BY <2>1, Zenon DEF BillInv
  <2>3. (Sse' <=> Sse) /\ Sse /\ ~Chargeable'
    BY <2>1, Zenon DEF BillInv, Chargeable, Sse
  <2>4. bills' = <<>> \/ \E m \in Amounts : bills' = <<m>>
    <3>1. CASE used.t > 0 \/ used.c > 0
      <4>1. bills' = UsageHandler(<<>>, WithTotal(used))
        BY <1>3, <2>1, <3>1, Zenon DEF Report
      <4>2. WithTotal(used) \in Usages
        BY WithTotalIsUsage, Zenon DEF Inv, Types
      <4>3. QED
        BY <4>1, <4>2, OneBill, Zenon
    <3>2. CASE ~(used.t > 0 \/ used.c > 0)
      BY <1>3, <2>1, <3>2, Zenon DEF Report
    <3>3. QED
      BY <3>1, <3>2, Zenon
  <2>5. ~(body = "pipe" /\ resp.metrics /\ ~aborted /\ pc \in {"finish", "over"})
    BY <2>1, Zenon DEF BillInv
  <2>6. QED
    BY <2>1, <2>2, <2>3, <2>4, <2>5, Zenon DEF BillInv
<1>4. CASE WriteTrailer
  <2>1. /\ UNCHANGED <<resp, body, billable, read, bills, wrapper, ext, aborted>>
        /\ pc = "trailer" /\ pc' = "finish"
        /\ shown' = IF body = "pipe" /\ resp.metrics THEN wrapper ELSE shown
    BY <1>4, Zenon DEF WriteTrailer, extVars
  <2>2. ~aborted
    BY <2>1, Zenon DEF BillInv
  <2>3. (Chargeable' <=> Chargeable) /\ (Sse' <=> Sse)
    BY <2>1, Zenon DEF Chargeable, Ordinary, Normalized, Bad, Buffered, Ok, Sse
  <2>4. CASE body = "pipe" /\ resp.metrics
    <3>1. ext = "done"
      BY <2>1, <2>2, <2>4, Zenon DEF StreamInv
    <3>2. shown' = wrapper /\ shown' \in Shown /\ ~Chargeable
      BY <2>1, <2>4, WrapperFacts, Zenon DEF BillInv, Chargeable
    <3>3. QED
      BY <2>1, <2>2, <2>3, <2>4, <3>1, <3>2, Zenon DEF BillInv
  <2>5. CASE ~(body = "pipe" /\ resp.metrics)
    <3>1. shown' = shown
      BY <2>1, <2>5, Zenon
    <3>2. (body # "pipe" /\ shown # <<>> /\ bills # <<>> /\ resp.model = "plain" =>
             bills = <<Meters(shown[1])>>)'
      BY <2>1, <3>1, Zenon DEF BillInv, Meters
    <3>3. QED
      BY <2>1, <2>2, <2>3, <2>5, <3>1, <3>2, Zenon DEF BillInv
  <2>6. QED
    BY <2>4, <2>5, Zenon
<1>5. CASE \/ Scan \/ ClosePipe \/ \E how \in {"eof", "failed"} : StreamStops(how)
           \/ CopyChunk \/ CopyFails \/ CopyEnd \/ Finish \/ ClientLeaves \/ UNCHANGED vars
           \/ \E amount \in {"none", "part", "all"} : CopyBody(amount)
  <2>1. UNCHANGED <<resp, body, billable, shown, wrapper, bills>>
    BY <1>5, Zenon DEF Scan, ClosePipe, StreamStops, CopyChunk, CopyFails, CopyEnd, Finish,
         ClientLeaves, CopyBody, vars, copyVars, extVars
  <2>2. read' \in {"none", "part", "all"} /\ (ext' = ext \/ ext # "done")
    BY <1>5, ZenonT(30) DEF Scan, ClosePipe, StreamStops, CopyChunk, CopyFails, CopyEnd, Finish,
         ClientLeaves, CopyBody, vars, copyVars, extVars, BillInv
  <2>3. \/ pc' = pc /\ aborted' = aborted
        \/ pc = "copy" /\ pc' = "close"
        \/ pc = "finish" /\ pc' = "over" /\ aborted' = aborted
    BY <1>5, Zenon DEF Scan, ClosePipe, StreamStops, CopyChunk, CopyFails, CopyEnd, Finish,
         ClientLeaves, CopyBody, vars, copyVars
  <2>4. QED
    BY <2>1, <2>2, <2>3, BillFrame, Zenon
<1>6. QED
  BY <1>1, <1>2, <1>3, <1>4, <1>5, Zenon DEF Next, Copier, Extractor

\* Filling in the total changes nothing of what is billed.
LEMMA TotalNotBilled ==
  ASSUME NEW c \in Usages, c.t > 0 \/ c.c > 0 PROVE Meters(WithTotal(c)) = Meters(c)
<1>1. c["p"] \in Nat /\ c["c"] \in Nat /\ c["t"] \in Nat
  BY Zenon DEF Usages
<1>2. CASE c.t # 0
  BY <1>2, Zenon DEF WithTotal
<1>3. CASE c.t = 0
  <2>1. WithTotal(c).p = c.p /\ WithTotal(c).c = c.c /\ c.c # 0
    BY <1>1, <1>3 DEF WithTotal, Usages
  <2>2. QED
    BY <2>1, Zenon DEF Meters
<1>4. QED
  BY <1>2, <1>3, Zenon

\* The bill of a stream is for the last usage it reported.
LEMMA StreamBilled ==
  ASSUME Inv, CollectInv, body = "pipe", ext = "done", resp.model = "plain"
  PROVE  bills = LET c == LastReported("c")
                     t == LastReported("t")
                     u == [p |-> LastReported("p"), c |-> c, t |-> t]
                 IN IF t > 0 \/ c > 0 THEN <<Meters(u)>> ELSE <<>>
<1>1. PICK c \in Usages : Collected(c)
  BY Zenon DEF CollectInv
<1>2. /\ LastReported("p") = c["p"] /\ LastReported("c") = c["c"]
      /\ LastReported("t") = c["t"]
  <2>1. \A f \in Fields : LastIs(Scanned, f, c[f])
    BY <1>1, Zenon DEF Collected
  <2>2. \A f \in Fields : LastReported(f) = c[f]
    BY <2>1, LastIsReported, Zenon
  <2>3. QED
    BY <2>2, Zenon DEF Fields
<1>3. PICK u : u = [p |-> c["p"], c |-> c["c"], t |-> c["t"]]
  BY Zenon
<1>4. Meters(u) = Meters(c)
  BY <1>3, Zenon DEF Meters
<1>5. CASE c.t > 0 \/ c.c > 0
  <2>1. bills = UsageHandler(<<>>, WithTotal(c))
    BY <1>1, <1>5, Zenon DEF Collected
  <2>2. WithTotal(c) \in Usages
    BY WithTotalIsUsage, Zenon
  <2>3. bills = <<Meters(c)>>
    BY <1>5, <2>1, <2>2, OneBill, TotalNotBilled, Zenon
  <2>4. QED
    BY <1>2, <1>3, <1>4, <1>5, <2>3, Zenon
<1>6. CASE ~(c.t > 0 \/ c.c > 0)
  <2>1. bills = <<>>
    BY <1>1, <1>6, Zenon DEF Collected
  <2>2. QED
    BY <1>2, <1>6, <2>1, Zenon
<1>7. QED
  BY <1>5, <1>6, Zenon

\* The trailer of a stream shows what was billed for it.
LEMMA TrailerBilled ==
  ASSUME Inv, CollectInv, body = "pipe", ext = "done", bills # <<>>, wrapper # <<>>,
         resp.model = "plain"
  PROVE  bills[1] = Meters(wrapper[1])
<1>1. PICK c \in Usages : Collected(c)
  BY Zenon DEF CollectInv
<1>2. c.t > 0 \/ c.c > 0
  BY <1>1, Zenon DEF Collected
<1>3. /\ bills = UsageHandler(<<>>, used) /\ used \in Usages
      /\ wrapper = IF resp.metrics THEN <<used>> ELSE FlatUsage
  BY <1>1, <1>2, Zenon DEF Collected, Inv, Types
<1>4. resp.metrics
  BY WrapperFacts, Zenon
<1>5. bills = <<Meters(used)>> /\ wrapper = <<used>>
  BY <1>3, <1>4, OneBill, Zenon
<1>6. bills[1] = Meters(used) /\ wrapper[1] = used
  BY <1>5, Zenon
<1>7. QED
  BY <1>6, Zenon

\* The sequences of one element at most.
LEMMA AtMostOne ==
  ASSUME NEW S, NEW o, o = <<>> \/ \E x \in S : o = <<x>>
  PROVE  o \in Seq(S) /\ Len(o) <= 1 /\ (o # <<>> => Len(o) = 1)
<1>1. CASE o = <<>>
  BY <1>1
<1>2. CASE \E x \in S : o = <<x>>
  <2>1. PICK x \in S : o = <<x>>
    BY <1>2, Zenon
  <2>2. QED
    BY <2>1
<1>3. QED
  BY <1>1, <1>2, Zenon

\* The type invariant follows.
LEMMA Typed ==
  ASSUME Inv, StreamInv, PipeInv, MarkInv, VerdictInv, CollectInv, BillInv PROVE TypeOK
<1>1. IsOptional(wrapper, Usages) /\ IsOptional(shown, Usages)
  <2>1. ASSUME NEW o \in Shown PROVE IsOptional(o, Usages)
    <3>1. o = <<>> \/ \E u \in Usages : o = <<u>>
      BY Zenon DEF Shown
    <3>2. QED
      BY <3>1, AtMostOne, Zenon DEF IsOptional
  <2>2. wrapper \in Shown /\ shown \in Shown
    BY WrapperFacts, Zenon DEF BillInv
  <2>3. QED
    BY <2>1, <2>2, Zenon
<1>2. det.line \in 0..Cap /\ det.data \in Held
  BY Zenon DEF MarkInv, Detectors
<1>3. IsOptional(det.data, Events)
  <2>1. det.data = <<>> \/ \E e \in Events : det.data = <<e>>
    BY <1>2, Zenon DEF Held
  <2>2. QED
    BY <2>1, AtMostOne, Zenon DEF IsOptional
<1>4. bills \in Seq([input : Nat, output : Nat])
  <2>1. bills \in Seq(Amounts)
    BY AtMostOne, Zenon DEF BillInv
  <2>2. QED
    BY <2>1, Zenon DEF Amounts
<1>5. pipe = <<>> \/ (pipe[1].line \in Lines /\ pipe[1].reads \in 1..LineSize(pipe[1].line))
  BY PipeFacts, Zenon
<1>6. /\ pc \in {"headers", "copy", "close", "trailer", "finish", "over"}
      /\ body \in {"none", "plain", "tee", "memory", "pipe", "hijacked"}
      /\ ext \in {"off", "scan", "report", "close", "done"} /\ used \in Usages
  BY Zenon DEF Inv, Types, Kinds
<1>7. /\ sent \in Seq(Events) /\ Len(sent) <= MaxEvents
      /\ source \in {"open", "eof", "failed"} /\ pipeEnd \in {"open", "eof", "error"}
  BY Zenon DEF StreamInv, CollectInv
<1>8. /\ billable \in BOOLEAN /\ aborted \in BOOLEAN /\ token \in BOOLEAN
      /\ client \in {"here", "gone"} /\ read \in {"none", "part", "all"}
  BY Zenon DEF VerdictInv, BillInv
<1>9. QED
  BY <1>1, <1>2, <1>3, <1>4, <1>5, <1>6, <1>7, <1>8, Zenon DEF TypeOK

\* The usage invariants hold at the start.
LEMMA UsageInit == Init => CollectInv /\ BillInv
<1> SUFFICES ASSUME Init PROVE CollectInv /\ BillInv
  BY Zenon
<1>1. CollectInv
  <2>1. MaxEvents \in Nat
    BY PathAssumption, Zenon
  <2>2. QED
    BY <2>1 DEF Init, CollectInv, FlatUsage
<1>2. BillInv
  <2>1. resp \in Responses
    BY Zenon DEF Init
  <2>2. Len(resp.usage) <= 1
    BY <2>1, PathAssumption, Zenon
  <2>3. QED
    BY <2>2, Zenon DEF Init, BillInv, Shown
<1>3. QED
  BY <1>1, <1>2, Zenon

(***************************************************************************)
(* For every set of responses and events: a request is billed at most      *)
(* once; a stream for the last value of each field it reported, however it *)
(* ended and whoever left first; a successful answer that is no stream     *)
(* always; and the usage shown in the header or trailer is the usage       *)
(* billed (ModifyResponse, processStream, billingCloser, WriteTrailer).    *)
(***************************************************************************)
THEOREM UsageIsAccounted == Spec => []UsageAccounted
<1> DEFINE All == /\ Inv /\ StreamInv /\ PipeInv /\ MarkInv /\ VerdictInv
                  /\ CollectInv /\ BillInv
<1>1. All => UsageAccounted
  <2> SUFFICES ASSUME All PROVE UsageAccounted
    BY Zenon
  <2>1. TypeOK
    BY Typed, Zenon
  <2>2. Settled /\ body = "pipe" => ext = "done"
    BY Zenon DEF Settled, CollectInv
  <2>3. BilledOnceForItsUsage
    <3>1. bills = <<>> \/ \E m \in Amounts : bills = <<m>>
      BY Zenon DEF BillInv
    <3>2. Len(bills) <= 1 /\ (bills # <<>> => Len(bills) = 1)
      BY <3>1, AtMostOne, Zenon
    <3>3. Settled /\ Chargeable => bills # <<>>
      BY Zenon DEF BillInv, Settled
    <3>4. Settled /\ Ordinary /\ Ok /\ ~Sse /\ resp.key /\ ~(Buffered /\ resp.over) =>
            Len(bills) = 1
      BY <3>2, <3>3, Zenon DEF Chargeable
    <3>5. QED
      BY <2>2, <3>2, <3>4, StreamBilled, Zenon DEF BilledOnceForItsUsage
  <2>4. ShownIsBilled
    <3>1. ASSUME shown # <<>>, bills # <<>>, resp.model = "plain"
          PROVE  bills[1] = Meters(shown[1])
      <4>1. CASE body = "pipe"
        <5>1. ext = "done" /\ shown = wrapper
          BY <3>1, <4>1, Zenon DEF BillInv
        <5>2. bills[1] = Meters(wrapper[1])
          BY <3>1, <4>1, <5>1, TrailerBilled, Zenon
        <5>3. QED
          BY <5>1, <5>2, Zenon
      <4>2. CASE body # "pipe"
        <5>1. bills = <<Meters(shown[1])>>
          BY <3>1, <4>2, Zenon DEF BillInv
        <5>2. QED
          BY <5>1, Zenon
      <4>3. QED
        BY <4>1, <4>2, Zenon
    <3>2. shown # <<>> => resp.metrics
      BY Zenon DEF BillInv
    <3>3. Settled /\ ~aborted /\ body = "pipe" /\ resp.metrics /\ bills # <<>> => shown # <<>>
      <4>1. SUFFICES ASSUME Settled, ~aborted, body = "pipe", resp.metrics, bills # <<>>
                     PROVE  shown # <<>>
        BY Zenon
      <4>2. ext = "done" /\ shown = wrapper
        BY <4>1, Zenon DEF BillInv, Settled
      <4>3. wrapper = <<used>>
        BY <4>1, <4>2, Zenon DEF CollectInv, Collected
      <4>4. QED
        BY <4>2, <4>3, Zenon
    <3>4. QED
      BY <3>1, <3>2, <3>3, Zenon DEF ShownIsBilled
  <2>5. QED
    BY <2>1, <2>3, <2>4, Zenon DEF UsageAccounted
<1>2. Init => All
  BY InvInit, MarkInit, UsageInit, Zenon
<1>3. All /\ [Next]_vars => All'
  BY InvStep, StreamStep, PipeStep, MarkStep, VerdictStep, CollectStep, BillStep, Zenon
<1> HIDE DEF All
<1>4. QED
  BY <1>1, <1>2, <1>3, PTL DEF Spec

-----------------------------------------------------------------------------
(***************************************************************************)
(* What the client is to see of a stream.                                  *)
(***************************************************************************)
LOCAL INSTANCE WellFoundedInduction

\* Every nonempty set of natural numbers has a least element.
LEMMA LeastNatural ==
  ASSUME NEW S \in SUBSET Nat, S # {}
  PROVE  \E m \in S : \A x \in S : m <= x
<1>1. IsWellFoundedOn(OpToRel(<, Nat), Nat)
  BY NatLessThanWellFounded, Zenon
<1>2. PICK m \in S : \A x \in S : ~(<<x, m>> \in OpToRel(<, Nat))
  BY <1>1, WFMin, Zenon
<1>3. \A x \in S : ~(x < m)
  BY <1>2, Zenon DEF OpToRel
<1>4. QED
  BY <1>3

\* f joins the first n parts, one after the other.
Joins(f, n, part) ==
  f = [i \in 0..n |-> IF i = 0 THEN <<>> ELSE f[i - 1] \o part[i]]

\* There is such a function,
LEMMA JoinExists ==
  ASSUME NEW part, NEW n \in Nat PROVE \E f : Joins(f, n, part)
<1> DEFINE Wrong == {m \in Nat : ~\E f : Joins(f, m, part)}
<1> SUFFICES ASSUME Wrong # {} PROVE FALSE
  BY Zenon
<1>1. PICK m \in Wrong : \A x \in Wrong : m <= x
  BY LeastNatural, Zenon
<1>2. m \in Nat /\ ~\E f : Joins(f, m, part)
  BY Zenon
<1>3. CASE m = 0
  <2> DEFINE f == [i \in 0..0 |-> <<>>]
  <2>1. Joins(f, 0, part)
    BY DEF Joins
  <2>2. QED
    BY <1>2, <1>3, <2>1, Zenon
<1>4. CASE m # 0
  <2>1. m - 1 \in Nat /\ ~(m <= m - 1)
    BY <1>2, <1>4
  <2>2. m - 1 \notin Wrong
    BY <1>1, <2>1, Zenon
  <2>3. PICK f : Joins(f, m - 1, part)
    BY <2>1, <2>2, Zenon
  <2> DEFINE g == [i \in 0..m |-> IF i = m THEN f[m - 1] \o part[m] ELSE f[i]]
  <2>4. ASSUME NEW i \in 0..m
        PROVE  g[i] = IF i = 0 THEN <<>> ELSE g[i - 1] \o part[i]
    <3>1. CASE i = m
      <4>1. m - 1 \in 0..m /\ m - 1 # m
        BY <2>1
      <4>2. g[m - 1] = f[m - 1] /\ g[m] = f[m - 1] \o part[m]
        BY <1>2, <3>1, <4>1, Zenon
      <4>3. QED
        BY <1>4, <3>1, <4>2, Zenon
    <3>2. CASE i # m
      <4>1. i \in 0..(m - 1) /\ (i # 0 => i - 1 \in 0..m /\ i - 1 # m)
        BY <1>2, <3>2
      <4>2. f[i] = IF i = 0 THEN <<>> ELSE f[i - 1] \o part[i]
        BY <2>3, <4>1, Zenon DEF Joins
      <4>3. QED
        BY <3>2, <4>1, <4>2, Zenon
    <3>3. QED
      BY <3>1, <3>2, Zenon
  <2>5. Joins(g, m, part)
    <3>1. g = [i \in 0..m |-> g[i]]
      BY Zenon
    <3> HIDE DEF g
    <3>2. QED
      BY <2>4, <3>1, Zenon DEF Joins
  <2>6. QED
    BY <1>2, <2>5, Zenon
<1>5. QED
  BY <1>3, <1>4, Zenon

\* and what it returns for some of the parts does not depend on the others.
LEMMA JoinsAgree ==
  ASSUME NEW n \in Nat, NEW part, NEW more, NEW f, NEW g
  PROVE  /\ Joins(f, n, part) /\ Joins(g, n + 1, more)
         /\ \A i \in 1..n : part[i] = more[i]
         => f[n] = g[n]
<1> SUFFICES ASSUME Joins(f, n, part), Joins(g, n + 1, more),
                    \A i \in 1..n : part[i] = more[i]
             PROVE  f[n] = g[n]
  BY Zenon
<1> DEFINE Wrong == {i \in 0..n : f[i] # g[i]}
<1> SUFFICES ASSUME Wrong # {} PROVE FALSE
  <2>1. n \in 0..n
    OBVIOUS
  <2>2. QED
    BY <2>1, Zenon
<1>1. Wrong \in SUBSET Nat
  OBVIOUS
<1>2. PICK k \in Wrong : \A x \in Wrong : k <= x
  BY <1>1, LeastNatural, Zenon
<1>3. k \in 0..n /\ f[k] # g[k]
  BY Zenon
<1>4. k \in 0..(n + 1) /\ (k # 0 => k \in 1..n /\ k - 1 \in 0..n /\ ~(k <= k - 1))
  BY <1>3
<1>5. f[k] = IF k = 0 THEN <<>> ELSE f[k - 1] \o part[k]
  BY <1>3, Zenon DEF Joins
<1>6. g[k] = IF k = 0 THEN <<>> ELSE g[k - 1] \o more[k]
  BY <1>4, Zenon DEF Joins
<1>7. k # 0 => f[k - 1] = g[k - 1]
  BY <1>2, <1>4, Zenon
<1>8. QED
  BY <1>3, <1>4, <1>5, <1>6, <1>7, Zenon

\* The lines of one event a client is to see.
EventLines(e, asked) == IF Kept(e, asked) THEN LinesOf(e) ELSE <<>>

\* KeptLines joins the lines of the events.
LEMMA KeptJoins ==
  ASSUME NEW s \in Seq(Events), NEW asked
  PROVE  \E f : /\ Joins(f, Len(s), [i \in 1..Len(s) |-> EventLines(s[i], asked)])
                /\ KeptLines(s, asked) = f[Len(s)]
<1> DEFINE part == [i \in 1..Len(s) |-> EventLines(s[i], asked)]
           P(f) == f = [i \in 0..Len(s) |->
                          IF i = 0 THEN <<>>
                          ELSE f[i - 1] \o (IF Kept(s[i], asked) THEN LinesOf(s[i]) ELSE <<>>)]
           c == CHOOSE f : P(f)
<1>1. Len(s) \in Nat
  OBVIOUS
<1>2. PICK f : Joins(f, Len(s), part)
  BY <1>1, JoinExists, Zenon
<1>3. \A i \in 0..Len(s) : i # 0 => i \in 1..Len(s)
  BY <1>1
<1>4. \A i \in 0..Len(s) : i # 0 =>
        part[i] = IF Kept(s[i], asked) THEN LinesOf(s[i]) ELSE <<>>
  BY <1>3, Zenon DEF EventLines
<1>5. \A g : P(g) <=> Joins(g, Len(s), part)
  <2> HIDE DEF part
  <2> SUFFICES ASSUME NEW g PROVE P(g) <=> Joins(g, Len(s), part)
    BY Zenon
  <2>1. \A i \in 0..Len(s) :
          (IF i = 0 THEN <<>>
           ELSE g[i - 1] \o (IF Kept(s[i], asked) THEN LinesOf(s[i]) ELSE <<>>))
            = IF i = 0 THEN <<>> ELSE g[i - 1] \o part[i]
    BY <1>4, Zenon
  <2>2. QED
    BY <2>1, Zenon DEF Joins
<1>6. P(c)
  BY <1>2, <1>5, Zenon
<1>7. KeptLines(s, asked) = c[Len(s)]
  BY Zenon DEF KeptLines
<1>8. QED
  BY <1>5, <1>6, <1>7, Zenon

\* An event that is sent adds its lines, if the client is to see it.
LEMMA KeptAppend ==
  ASSUME NEW s \in Seq(Events), NEW e \in Events, NEW asked
  PROVE  KeptLines(Append(s, e), asked) = KeptLines(s, asked) \o EventLines(e, asked)
<1> DEFINE t == Append(s, e)
           n == Len(s)
           part == [i \in 1..Len(s) |-> EventLines(s[i], asked)]
           more == [i \in 1..Len(t) |-> EventLines(t[i], asked)]
<1>1. n \in Nat /\ n + 1 \in Nat /\ n <= n + 1 /\ Len(t) = n + 1 /\ t \in Seq(Events)
  OBVIOUS
<1>2. t[n + 1] = e /\ \A i \in 1..n : t[i] = s[i]
  OBVIOUS
<1>3. PICK f : Joins(f, Len(s), part) /\ KeptLines(s, asked) = f[n]
  BY KeptJoins, Zenon
<1> HIDE DEF t
<1>4. PICK g : Joins(g, Len(t), more) /\ KeptLines(t, asked) = g[Len(t)]
  BY <1>1, KeptJoins, Zenon
<1>5. \A i \in 1..n : i \in 1..Len(t)
  BY <1>1
<1>6. \A i \in 1..n : part[i] = more[i]
  BY <1>2, <1>5, Zenon
<1>7. n + 1 \in 1..Len(t)
  BY <1>1
<1>8. more[n + 1] = EventLines(e, asked)
  BY <1>2, <1>7, Zenon
<1> HIDE DEF part, more, n
<1>9. Joins(f, n, part) /\ Joins(g, n + 1, more)
  BY <1>1, <1>3, <1>4, Zenon DEF n
<1>10. f[n] = g[n]
  BY <1>1, <1>6, <1>9, JoinsAgree
<1>11. n + 1 \in 0..(n + 1) /\ n + 1 # 0 /\ (n + 1) - 1 = n
  BY <1>1
<1>12. g[n + 1] = g[(n + 1) - 1] \o more[n + 1]
  BY <1>9, <1>11, Zenon DEF Joins
<1>13. g[n + 1] = g[n] \o more[n + 1]
  BY <1>11, <1>12, Zenon
<1>14. QED
  BY <1>1, <1>3, <1>4, <1>8, <1>10, <1>13, Zenon DEF t

\* Nothing has been sent, nothing is to be seen.
LEMMA KeptNothing ==
  ASSUME NEW asked PROVE KeptLines(<<>>, asked) = <<>>
<1> DEFINE part == [i \in 1..Len(<<>>) |-> EventLines(<<>>[i], asked)]
<1>1. <<>> \in Seq(Events) /\ Len(<<>>) = 0
  OBVIOUS
<1>2. PICK f : Joins(f, Len(<<>>), part) /\ KeptLines(<<>>, asked) = f[Len(<<>>)]
  BY <1>1, KeptJoins, Zenon
<1> HIDE DEF part
<1>3. Joins(f, 0, part) /\ KeptLines(<<>>, asked) = f[0]
  BY <1>1, <1>2
<1>4. 0 \in 0..0
  OBVIOUS
<1>5. QED
  BY <1>3, <1>4, Zenon DEF Joins

\* Lines the scanner returned whole.
Solid == Lines \ {Partial}

\* What the client has received or will read next.
Arrived == IF pipe = <<>> THEN got ELSE Append(got, pipe[1].line)

\* A usage chunk nobody asked for is a chat completion's, which names no events.
UsageChunksAreBare == \A e \in Events : ~(e.named /\ e.data /\ e.empty /\ e.usage # <<>>)

\* The lines sent so far are those of whole events, but for what is left of the
\* last one.
Joined ==
  /\ Forwarded \in Seq(Solid)
  /\ KeptLines(sent, resp.asked) =
       IF left # <<>> /\ Kept(Current, resp.asked) THEN Forwarded \o left ELSE Forwarded

\* What has arrived is what was forwarded, and then perhaps a line cut short.
\* A copy loop that failed leaves a part of it.
FrameInv ==
  /\ body # "pipe" => sent = <<>>
  /\ pipeEnd # "open" => ext = "done"
  /\ body = "pipe" =>
       /\ Joined
       /\ left # <<>> /\ left # <<Blank>> => Current.named
       /\ ext = "scan" /\ left = <<Blank>> =>
            (flags.filtered <=> ~Kept(Current, resp.asked))
       /\ pc = "copy" =>
            \/ Arrived = Forwarded
            \/ ext # "scan" /\ Arrived = Append(Forwarded, Partial)
       /\ pc # "copy" =>
            \/ \E n \in 0..Len(Forwarded) : got = SubSeq(Forwarded, 1, n)
            \/ ext = "done" /\ got = Append(Forwarded, Partial)
       /\ pc # "copy" /\ ~aborted =>
            ext = "done" /\ got \in {Forwarded, Append(Forwarded, Partial)}

\* Cutting off what was put behind a sequence leaves that sequence.
LEMMA CutOff ==
  ASSUME NEW S, NEW X \in Seq(S), NEW l \in Seq(S)
  PROVE  /\ SubSeq(X \o l, 1, Len(X \o l) - Len(l)) = X
         /\ SubSeq(X, 1, Len(X) - 0) = X
<1>1. Len(X) \in Nat /\ Len(l) \in Nat /\ Len(X \o l) = Len(X) + Len(l)
  OBVIOUS
<1>2. Len(X \o l) - Len(l) = Len(X) /\ Len(X) - 0 = Len(X)
  BY <1>1
<1>3. SubSeq(X \o l, 1, Len(X)) = X
  OBVIOUS
<1>4. SubSeq(X, 1, Len(X)) = X
  OBVIOUS
<1>5. QED
  BY <1>2, <1>3, <1>4, Zenon

\* Forwarded, of any stream: the lines of its events without the last ones.
Cut(s, l, asked) ==
  SubSeq(KeptLines(s, asked), 1,
         Len(KeptLines(s, asked))
           - (IF s # <<>> /\ Kept(s[Len(s)], asked) THEN Len(l) ELSE 0))

\* Before and after a step.
LEMMA ForwardedCut ==
  /\ Forwarded = Cut(sent, left, resp.asked)
  /\ Forwarded' = Cut(sent', left', resp'.asked)
  /\ KeptLines(sent, resp.asked)' = KeptLines(sent', resp'.asked)
  /\ Kept(Current, resp.asked)' <=> Kept(sent'[Len(sent')], resp'.asked)
<1>1. Forwarded = Cut(sent, left, resp.asked)
  BY Zenon DEF Forwarded, Cut
<1>2. KeptLines(sent, resp.asked)' = KeptLines(sent', resp'.asked)
  BY Zenon DEF KeptLines, Kept, LinesOf, Blank
<1>3. Kept(Current, resp.asked)' <=> Kept(sent'[Len(sent')], resp'.asked)
  BY Zenon DEF Kept, Current
<1>4. Forwarded' = Cut(sent', left', resp'.asked)
  BY Zenon DEF Forwarded, Cut, KeptLines, Kept, LinesOf, Blank
<1>5. QED
  BY <1>1, <1>2, <1>3, <1>4, Zenon

\* What Forwarded is, from the lines of the events.
LEMMA CutIs ==
  ASSUME NEW s, NEW l \in Seq(Lines), NEW asked, NEW X \in Seq(Lines),
         l # <<>> => s # <<>>,
         KeptLines(s, asked) = IF l # <<>> /\ Kept(s[Len(s)], asked) THEN X \o l ELSE X
  PROVE  Cut(s, l, asked) = X
<1>1. CASE l # <<>> /\ Kept(s[Len(s)], asked)
  BY <1>1, CutOff, Zenon DEF Cut
<1>2. CASE l = <<>>
  <2>1. Len(l) = 0
    BY <1>2
  <2>2. QED
    BY <1>2, <2>1, CutOff, Zenon DEF Cut
<1>3. CASE ~Kept(s[Len(s)], asked)
  BY <1>3, CutOff, Zenon DEF Cut
<1>4. QED
  BY <1>1, <1>2, <1>3, Zenon

\* The value of Forwarded after a step.
LEMMA NewForwarded ==
  ASSUME NEW X \in Seq(Solid), left' \in Seq(Lines), left' # <<>> => sent' # <<>>,
         KeptLines(sent', resp'.asked) =
           IF left' # <<>> /\ Kept(sent'[Len(sent')], resp'.asked) THEN X \o left' ELSE X
  PROVE  Forwarded' = X /\ Joined'
<1>1. X \in Seq(Lines)
  BY DEF Solid
<1>2. Cut(sent', left', resp'.asked) = X
  BY <1>1, CutIs, Zenon
<1>3. Forwarded' = X
  BY <1>2, ForwardedCut, Zenon
<1>4. Solid' = Solid
  BY Zenon DEF Solid, Lines, LinesOf, Blank, Partial
<1>5. QED
  BY <1>3, <1>4, ForwardedCut, Zenon DEF Joined

\* A step that sends nothing leaves it as it is.
LEMMA SameForwarded ==
  ASSUME UNCHANGED <<sent, left, resp>>
  PROVE  Forwarded' = Forwarded /\ (Joined => Joined') /\ Current' = Current
         /\ (Kept(Current, resp.asked)' <=> Kept(Current, resp.asked))
<1>1. Forwarded' = Forwarded
  BY ForwardedCut, Zenon
<1>2. Solid' = Solid
  BY Zenon DEF Solid, Lines, LinesOf, Blank, Partial
<1>3. QED
  BY <1>1, <1>2, ForwardedCut, Zenon DEF Joined, Current

\* The lines of an event are whole ones.
LEMMA SolidLines ==
  ASSUME NEW e \in Events
  PROVE  /\ Blank \in Solid /\ Content(e) \in Solid
         /\ e.named => [t |-> "event", e |-> e] \in Solid
<1>1. Blank # Partial /\ Content(e) # Partial /\ [t |-> "event", e |-> e] # Partial
  <2>1. Blank.t = "blank" /\ Partial.t = "partial" /\ Content(e).t \in {"data", "comment"}
        /\ [t |-> "event", e |-> e].t = "event"
    BY DEF Blank, Partial, Content
  <2>2. QED
    BY <2>1
<1>2. Blank \in Lines
  BY Zenon DEF Lines
<1>3. QED
  BY <1>1, <1>2, LinesOfEvents, Zenon DEF Solid

\* Appending one line after the other is putting them behind.
LEMMA Behind ==
  ASSUME NEW X \in Seq(Solid), NEW a \in Solid, NEW b \in Solid
  PROVE  /\ Append(X, a) \in Seq(Solid) /\ X \o <<>> = X
         /\ X \o <<a>> = Append(X, a) /\ X \o <<a, b>> = Append(X, a) \o <<b>>
<1>1. Append(X, a) \in Seq(Solid) /\ X \o <<a>> = Append(X, a) /\ X \o <<>> = X
  OBVIOUS
<1>2. X \o <<a, b>> = Append(Append(X, a), b)
  OBVIOUS
<1>3. Append(X, a) \o <<b>> = Append(Append(X, a), b)
  OBVIOUS
<1>4. QED
  BY <1>1, <1>2, <1>3, Zenon

\* The same for the three lines of a named event.
LEMMA BehindThree ==
  ASSUME NEW X \in Seq(Solid), NEW a \in Solid, NEW b \in Solid, NEW c \in Solid
  PROVE  X \o <<a, b, c>> = Append(X, a) \o <<b, c>>
OBVIOUS

\* A usage chunk is dropped exactly when its event is not for the client.
LEMMA DroppedIsKept ==
  ASSUME NEW e \in Events
  PROVE  /\ Dropped(Content(e)) <=> ~Kept(e, resp.asked)
         /\ ~Dropped(Blank) /\ ~Dropped([t |-> "event", e |-> e])
         /\ ~Skipped(Content(e)) /\ ~Skipped([t |-> "event", e |-> e])
         /\ Skipped(Blank) <=> flags.filtered
<1>1. Content(e).e = e /\ (Content(e).t = "data" <=> e.data) /\ Content(e).t # "blank"
  BY DEF Content
<1>2. Blank.t = "blank"
  BY DEF Blank
<1>3. QED
  BY <1>1, <1>2 DEF Dropped, Skipped, Kept

\* A line the scanner returns is forwarded, or dropped with its event.
LEMMA ForwardScan ==
  ASSUME UsageChunksAreBare, Inv, StreamInv, FrameInv, Scan
  PROVE  \E line \in Solid :
           /\ WriteLine(line) /\ Joined'
           /\ Forwarded' = IF Dropped(line) \/ Skipped(line) THEN Forwarded
                           ELSE Append(Forwarded, line)
           /\ left' # <<>> /\ left' # <<Blank>> => Current'.named
           /\ left' = <<Blank>> =>
                (flags'.filtered <=> ~Kept(sent'[Len(sent')], resp'.asked))
<1>1. body = "pipe" /\ resp' = resp /\ ext = "scan"
  BY Zenon DEF Scan, Inv, OneBiller
<1>2. PICK line \in Lines :
           /\ ProcessLine(line)
           /\ \/ line = Blank /\ left = <<Blank>> /\ left' = <<>> /\ sent' = sent
              \/ /\ line = Content(Current) /\ sent # <<>> /\ Current \in Events
                 /\ left = <<Content(Current), Blank>> /\ left' = <<Blank>> /\ sent' = sent
              \/ \E e \in Events :
                   /\ left = <<>> /\ Len(sent) < MaxEvents /\ sent' = Append(sent, e)
                   /\ \/ /\ e.named /\ line = [t |-> "event", e |-> e]
                         /\ left' = <<Content(e), Blank>>
                      \/ ~e.named /\ line = Content(e) /\ left' = <<Blank>>
  BY ScanOutcome, Zenon
<1> DEFINE F == Forwarded
           A == resp.asked
<1>3. F \in Seq(Solid) /\ sent \in Seq(Events) /\ WriteLine(line)
      /\ flags' = IF line.t = "blank" THEN NoFlags ELSE Noted(line)
  BY <1>1, <1>2, Zenon DEF FrameInv, Joined, StreamInv, ProcessLine
<1>4. KeptLines(sent, A) = IF left # <<>> /\ Kept(Current, A) THEN F \o left ELSE F
  BY <1>1, Zenon DEF FrameInv, Joined
<1>5. \A e \in Events : e.named => Kept(e, A)
  BY Zenon DEF UsageChunksAreBare, Kept
<1>6. \A l : line = Content(l) => flags'.filtered = Dropped(line)
  BY <1>3 DEF Noted, Content
<1> HIDE DEF F, A
<1>7. CASE line = Blank /\ left = <<Blank>> /\ left' = <<>> /\ sent' = sent
  <2> DEFINE X == IF flags.filtered THEN F ELSE Append(F, Blank)
  <2>1. sent # <<>> /\ (flags.filtered <=> ~Kept(Current, A))
    BY <1>1, <1>7, Zenon DEF FrameInv, StreamInv, A
  <2>2. Current \in Events
    BY <1>3, <2>1 DEF Current
  <2>3. Blank \in Solid
    BY <2>2, SolidLines, Zenon
  <2>4. X \in Seq(Solid) /\ Append(F, Blank) = F \o <<Blank>>
    BY <1>3, <2>3, Behind, Zenon
  <2>5. KeptLines(sent, A) = X
    BY <1>4, <1>7, <2>1, <2>4, Zenon
  <2>6. left' \in Seq(Lines)
    BY <1>7
  <2>7. KeptLines(sent', resp'.asked) =
          IF left' # <<>> /\ Kept(sent'[Len(sent')], resp'.asked) THEN X \o left' ELSE X
    BY <1>1, <1>7, <2>5, Zenon DEF A
  <2>8. Forwarded' = X /\ Joined'
    BY <1>7, <2>4, <2>6, <2>7, NewForwarded, Zenon
  <2>9. Dropped(line) \/ Skipped(line) <=> flags.filtered
    BY <1>7, <2>2, DroppedIsKept, Zenon
  <2>10. QED
    BY <1>3, <1>7, <2>3, <2>8, <2>9, Zenon DEF F
<1>8. CASE /\ line = Content(Current) /\ sent # <<>> /\ Current \in Events
           /\ left = <<Content(Current), Blank>> /\ left' = <<Blank>> /\ sent' = sent
  <2> DEFINE X == Append(F, line)
  <2>1. Blank \in Solid /\ line \in Solid
    BY <1>8, SolidLines, Zenon
  <2>2. left # <<>> /\ left # <<Blank>> /\ left' # <<>> /\ left' \in Seq(Lines)
    BY <1>8, <2>1 DEF Solid
  <2>3. Kept(Current, A)
    BY <1>1, <1>5, <1>8, <2>2, Zenon DEF FrameInv
  <2>4. X \in Seq(Solid) /\ F \o <<line, Blank>> = X \o <<Blank>>
    BY <1>3, <2>1, Behind, Zenon
  <2>5. KeptLines(sent, A) = X \o left'
    BY <1>4, <1>8, <2>2, <2>3, <2>4, Zenon
  <2>6. Kept(sent'[Len(sent')], A)
    BY <1>8, <2>3, Zenon DEF Current
  <2> HIDE DEF X
  <2>7. KeptLines(sent', resp'.asked) =
          IF left' # <<>> /\ Kept(sent'[Len(sent')], resp'.asked) THEN X \o left' ELSE X
    BY <1>1, <1>8, <2>2, <2>5, <2>6, Zenon DEF A
  <2>8. Forwarded' = X /\ Joined'
    BY <1>8, <2>2, <2>4, <2>7, NewForwarded, Zenon
  <2>9. ~Dropped(line) /\ ~Skipped(line)
    BY <1>8, <2>3, DroppedIsKept, Zenon DEF A
  <2>10. flags'.filtered <=> FALSE
    BY <1>6, <1>8, <2>9, Zenon
  <2>11. QED
    BY <1>1, <1>3, <1>8, <2>1, <2>6, <2>8, <2>9, <2>10, Zenon DEF F, X, A
<1>9. ASSUME NEW e \in Events, left = <<>>, sent' = Append(sent, e), e.named,
             line = [t |-> "event", e |-> e], left' = <<Content(e), Blank>>
      PROVE  /\ line \in Solid /\ Joined' /\ Forwarded' = Append(F, line)
             /\ ~Dropped(line) /\ ~Skipped(line)
             /\ left' # <<Blank>> /\ Current'.named
  <2> DEFINE X == Append(F, line)
  <2>1. Blank \in Solid /\ line \in Solid /\ Content(e) \in Solid
    BY <1>9, SolidLines, Zenon
  <2>2. left' # <<>> /\ left' # <<Blank>> /\ left' \in Seq(Lines) /\ sent' # <<>>
        /\ sent'[Len(sent')] = e
    BY <1>3, <1>9, <2>1 DEF Solid
  <2>3. Kept(e, A)
    BY <1>5, <1>9, Zenon
  <2>4. EventLines(e, A) = <<line, Content(e), Blank>>
    BY <1>9, <2>3, Zenon DEF EventLines, LinesOf, Content
  <2>5. X \in Seq(Solid) /\ F \o <<line, Content(e), Blank>> = X \o <<Content(e), Blank>>
    <3>1. X \in Seq(Solid)
      BY <1>3, <2>1, Behind, Zenon
    <3>2. QED
      BY <1>3, <2>1, <3>1, BehindThree, Zenon
  <2>6. KeptLines(sent', A) = X \o left'
    BY <1>3, <1>4, <1>9, <2>4, <2>5, KeptAppend, Zenon
  <2> HIDE DEF X
  <2>7. KeptLines(sent', resp'.asked) =
          IF left' # <<>> /\ Kept(sent'[Len(sent')], resp'.asked) THEN X \o left' ELSE X
    BY <1>1, <2>2, <2>3, <2>6, Zenon DEF A
  <2>8. Forwarded' = X /\ Joined'
    BY <2>2, <2>5, <2>7, NewForwarded, Zenon
  <2>9. QED
    BY <1>9, <2>1, <2>2, <2>8, DroppedIsKept, Zenon DEF X, Current
<1>10. ASSUME NEW e \in Events, left = <<>>, sent' = Append(sent, e), ~e.named,
              line = Content(e), left' = <<Blank>>
       PROVE  /\ line \in Solid /\ Joined' /\ ~Skipped(line)
              /\ Forwarded' = IF Dropped(line) THEN F ELSE Append(F, line)
              /\ flags'.filtered <=> ~Kept(sent'[Len(sent')], A)
  <2> DEFINE X == IF Dropped(line) THEN F ELSE Append(F, line)
  <2>1. Blank \in Solid /\ line \in Solid
    BY <1>10, SolidLines, Zenon
  <2>2. left' # <<>> /\ left' \in Seq(Lines) /\ sent' # <<>> /\ sent'[Len(sent')] = e
    BY <1>3, <1>10, <2>1 DEF Solid
  <2>3. (Dropped(line) <=> ~Kept(e, A)) /\ ~Skipped(line)
    BY <1>10, DroppedIsKept, Zenon DEF A
  <2>4. EventLines(e, A) = IF Dropped(line) THEN <<>> ELSE <<line, Blank>>
    BY <1>10, <2>3, Zenon DEF EventLines, LinesOf, Content
  <2>5. X \in Seq(Solid) /\ F \o <<>> = F /\ F \o <<line, Blank>> = Append(F, line) \o <<Blank>>
    BY <1>3, <2>1, Behind, Zenon
  <2>6. KeptLines(sent', A) = IF Kept(e, A) THEN X \o left' ELSE X
    BY <1>3, <1>4, <1>10, <2>3, <2>4, <2>5, KeptAppend, Zenon
  <2> HIDE DEF X
  <2>7. KeptLines(sent', resp'.asked) =
          IF left' # <<>> /\ Kept(sent'[Len(sent')], resp'.asked) THEN X \o left' ELSE X
    BY <1>1, <2>2, <2>6, Zenon DEF A
  <2>8. Forwarded' = X /\ Joined'
    BY <2>2, <2>5, <2>7, NewForwarded, Zenon
  <2>9. flags'.filtered = Dropped(line)
    BY <1>6, <1>10, Zenon
  <2>10. QED
    BY <2>1, <2>2, <2>3, <2>8, <2>9, Zenon DEF X
<1>11. QED
  BY <1>1, <1>2, <1>3, <1>7, <1>8, <1>9, <1>10, Zenon DEF F, A

\* A beginning of a sequence is a beginning of a longer one.
LEMMA StaysBeginning ==
  ASSUME NEW F \in Seq(Solid), NEW line \in Solid, NEW n \in 0..Len(F)
  PROVE  n \in 0..Len(Append(F, line)) /\ SubSeq(Append(F, line), 1, n) = SubSeq(F, 1, n)
OBVIOUS

\* What the scanner returns arrives, unless the client is to see nothing of it.
LEMMA FrameScan ==
  ASSUME UsageChunksAreBare, Inv, StreamInv, FrameInv, Scan PROVE FrameInv'
<1>1. /\ UNCHANGED <<pc, body, got, aborted, pipeEnd, resp>>
      /\ ext = "scan" /\ body = "pipe" /\ Drained
  BY Zenon DEF Scan, copyVars, Inv, OneBiller
<1>2. PICK line \in Solid :
        /\ WriteLine(line) /\ Joined'
        /\ Forwarded' = IF Dropped(line) \/ Skipped(line) THEN Forwarded
                        ELSE Append(Forwarded, line)
        /\ left' # <<>> /\ left' # <<Blank>> => Current'.named
        /\ left' = <<Blank>> =>
             (flags'.filtered <=> ~Kept(sent'[Len(sent')], resp'.asked))
  BY ForwardScan, Zenon
<1>3. pipeEnd = "open" /\ Forwarded \in Seq(Solid) /\ (pc # "copy" => aborted)
  BY <1>1, Zenon DEF FrameInv, Joined
<1>4. left' = <<Blank>> => (flags'.filtered <=> ~Kept(Current, resp.asked)')
  BY <1>2, ForwardedCut, Zenon
<1>5. CASE pc = "copy"
  <2>1. pipe = <<>> /\ PipeOpen
    BY <1>1, <1>5, Zenon DEF Drained, PipeOpen
  <2>2. got = Forwarded
    BY <1>1, <1>5, <2>1, Zenon DEF FrameInv, Arrived
  <2>3. pipe' = IF Dropped(line) \/ Skipped(line) THEN <<>>
                ELSE <<[line |-> line, reads |-> LineSize(line)]>>
    BY <1>2, <2>1, Zenon DEF WriteLine
  <2>4. Arrived' = Forwarded'
    BY <1>1, <1>2, <2>2, <2>3, Zenon DEF Arrived
  <2>5. QED
    BY <1>1, <1>2, <1>3, <1>4, <1>5, <2>4, Zenon DEF FrameInv
<1>6. CASE pc # "copy"
  <2>1. PICK n \in 0..Len(Forwarded) : got = SubSeq(Forwarded, 1, n)
    BY <1>1, <1>6, Zenon DEF FrameInv
  <2>2. n \in 0..Len(Forwarded') /\ got' = SubSeq(Forwarded', 1, n)
    BY <1>1, <1>2, <1>3, <2>1, StaysBeginning, Zenon
  <2>3. QED
    BY <1>1, <1>2, <1>3, <1>4, <1>6, <2>2, Zenon DEF FrameInv
<1>7. QED
  BY <1>5, <1>6, Zenon

\* The line a broken stream was cut in is the last to arrive.
LEMMA FrameStops ==
  ASSUME Inv, FrameInv, NEW how, StreamStops(how) PROVE FrameInv'
<1>1. /\ UNCHANGED <<pc, body, got, aborted, pipeEnd, resp, sent, left>>
      /\ ext = "scan" /\ body = "pipe" /\ Drained /\ ext' = "report"
  BY Zenon DEF StreamStops, copyVars, Inv, OneBiller
<1>2. pipeEnd = "open" /\ (pc # "copy" => aborted)
  BY <1>1, Zenon DEF FrameInv
<1>3. Forwarded' = Forwarded /\ (Joined => Joined') /\ Current' = Current
  BY <1>1, SameForwarded, Zenon
<1>4. CASE pc = "copy"
  <2>1. pipe = <<>> /\ PipeOpen
    BY <1>1, <1>4, Zenon DEF Drained, PipeOpen
  <2>2. got = Forwarded
    BY <1>1, <1>4, <2>1, Zenon DEF FrameInv, Arrived
  <2>3. ~Dropped(Partial) /\ ~Skipped(Partial)
    BY DEF Dropped, Skipped, Partial
  <2>4. pipe' = pipe \/ WriteLine(Partial)
    BY Zenon DEF StreamStops, ProcessLine
  <2>5. pipe' = <<>> \/ (pipe' # <<>> /\ pipe'[1].line = Partial)
    <3>1. pipe' = <<>> \/ pipe' = <<[line |-> Partial, reads |-> LineSize(Partial)]>>
      BY <2>1, <2>3, <2>4, Zenon DEF WriteLine
    <3>2. QED
      BY <3>1
  <2>6. Arrived' = Forwarded' \/ Arrived' = Append(Forwarded', Partial)
    BY <1>1, <1>3, <2>2, <2>5, Zenon DEF Arrived
  <2>7. QED
    BY <1>1, <1>2, <1>3, <1>4, <2>6, Zenon DEF FrameInv
<1>5. CASE pc # "copy"
  BY <1>1, <1>2, <1>3, <1>5, Zenon DEF FrameInv
<1>6. QED
  BY <1>4, <1>5, Zenon

\* A read moves a line from the pipe to the client.
LEMMA FrameChunk ==
  ASSUME PipeInv, FrameInv, CopyChunk PROVE FrameInv'
<1>1. /\ UNCHANGED <<pc, body, aborted, pipeEnd, resp, sent, left, ext, flags>>
      /\ body = "pipe" /\ pc = "copy"
  BY Zenon DEF CopyChunk, extVars
<1>2. Arrived' = Arrived
  <2>1. PICK l \in Lines : \E r \in 1..LineSize(l) :
           /\ pipe # <<>> /\ pipe[1].line = l
           /\ \/ pipe' = <<>> /\ got' = Append(got, l)
              \/ got' = got /\ pipe' # <<>> /\ pipe'[1].line = l
    BY ChunkFacts, Zenon
  <2>2. QED
    BY <2>1, Zenon DEF Arrived
<1>3. /\ Forwarded' = Forwarded /\ (Joined => Joined') /\ Current' = Current
      /\ Kept(Current, resp.asked)' <=> Kept(Current, resp.asked)
  BY <1>1, SameForwarded, Zenon
<1>4. QED
  BY <1>1, <1>2, <1>3, Zenon DEF FrameInv

\* A copy loop that ends, cleanly or not, has passed on a beginning of what was
\* forwarded.
LEMMA FrameLeave ==
  ASSUME Inv, PipeInv, FrameInv, CopyFails \/ CopyEnd PROVE FrameInv'
<1>1. /\ UNCHANGED <<body, got, pipe, pipeEnd, resp, sent, left, ext, flags>>
      /\ body = "pipe" /\ pc = "copy" /\ pc' = "close"
  BY Zenon DEF CopyFails, CopyEnd, extVars
<1>2. /\ Forwarded' = Forwarded /\ (Joined => Joined') /\ Current' = Current
      /\ Kept(Current, resp.asked)' <=> Kept(Current, resp.asked)
  BY <1>1, SameForwarded, Zenon
<1>3. Forwarded \in Seq(Solid) /\ got \in Seq(Lines)
  BY <1>1, Zenon DEF FrameInv, Joined, PipeInv
<1>4. CASE CopyFails
  <2>1. pipe # <<>> /\ aborted'
    BY <1>4, Zenon DEF CopyFails
  <2>2. Append(got, pipe[1].line) \in {Forwarded, Append(Forwarded, Partial)}
    BY <1>1, <2>1, Zenon DEF FrameInv, Arrived
  <2> DEFINE n == Len(got)
  <2>3. n \in 0..Len(Forwarded) /\ got = SubSeq(Forwarded, 1, n)
    BY <1>3, <2>2
  <2>4. QED
    BY <1>1, <1>2, <2>1, <2>3, Zenon DEF FrameInv
<1>5. CASE CopyEnd
  <2>1. pipe = <<>> /\ ext = "done"
    BY <1>5, Zenon DEF CopyEnd, FrameInv
  <2>2. got \in {Forwarded, Append(Forwarded, Partial)}
    BY <1>1, <2>1, Zenon DEF FrameInv, Arrived
  <2> DEFINE n == Len(Forwarded)
  <2>3. n \in 0..n /\ Forwarded = SubSeq(Forwarded, 1, n)
    BY <1>3
  <2>4. QED
    BY <1>1, <1>2, <2>1, <2>2, <2>3, Zenon DEF FrameInv
<1>6. QED
  BY <1>4, <1>5, Zenon

\* Every step keeps the framing.
LEMMA FrameStep ==
  ASSUME UsageChunksAreBare, Inv, StreamInv, PipeInv, FrameInv, [Next]_vars
  PROVE  FrameInv'
<1>1. CASE ExtractStream
  <2>1. /\ body' = "pipe" /\ pc' = "copy" /\ UNCHANGED <<sent, left, resp, got, pipe, pipeEnd>>
        /\ pc = "headers" /\ body = "none"
    BY <1>1, Zenon DEF ExtractStream, StartCopy, Inv, OneBiller
  <2>2. sent = <<>> /\ left = <<>> /\ got = <<>> /\ pipe = <<>> /\ pipeEnd = "open"
    BY <2>1, Zenon DEF FrameInv, StreamInv, PipeInv, Inv, OneBiller
  <2>3. KeptLines(sent', resp'.asked) = <<>>
    BY <2>1, <2>2, KeptNothing, Zenon
  <2>4. <<>> \in Seq(Solid) /\ left' \in Seq(Lines)
    BY <2>1, <2>2
  <2>5. Forwarded' = <<>> /\ Joined'
    <3>1. left' = <<>>
      BY <2>1, <2>2, Zenon
    <3>2. KeptLines(sent', resp'.asked) =
            IF left' # <<>> /\ Kept(sent'[Len(sent')], resp'.asked)
              THEN <<>> \o left' ELSE <<>>
      BY <2>3, <3>1, Zenon
    <3>3. QED
      BY <2>4, <3>1, <3>2, NewForwarded, Zenon
  <2>6. Arrived' = <<>>
    BY <2>1, <2>2, Zenon DEF Arrived
  <2>7. left' = <<>> /\ pipeEnd' = "open"
    BY <2>1, <2>2, Zenon
  <2>8. left' # <<Blank>>
    BY <2>7
  <2>9. QED
    BY <2>1, <2>5, <2>6, <2>7, <2>8, Zenon DEF FrameInv
<1>2. CASE ModifyResponse /\ ~ExtractStream
  <2>1. body' # "pipe" /\ UNCHANGED <<sent, ext, pipeEnd>> /\ pc = "headers" /\ body = "none"
    BY <1>2, Zenon DEF ModifyResponse, SwitchProtocols, NormalizeUpstreamErrorResponse,
         PrivacyFilter, BufferBody, BufferOverflow, BufferFails, ExtractBody, StartCopy,
         extVars, Inv, OneBiller
  <2>2. QED
    BY <2>1, Zenon DEF FrameInv
<1>3. CASE Scan
  BY <1>3, FrameScan, Zenon
<1>4. CASE \E how \in {"eof", "failed"} : StreamStops(how)
  BY <1>4, FrameStops, Zenon
<1>5. CASE CopyChunk
  BY <1>5, FrameChunk, Zenon
<1>6. CASE CopyFails \/ CopyEnd
  BY <1>6, FrameLeave, Zenon
<1>7. CASE \E amount \in {"none", "part", "all"} : CopyBody(amount)
  BY <1>7, Zenon DEF CopyBody, extVars, FrameInv
<1>8. ASSUME UNCHANGED <<resp, sent, left, flags, body, got, aborted>>,
             \/ UNCHANGED <<ext, pipeEnd>>
             \/ ext = "report" /\ ext' = "close" /\ UNCHANGED pipeEnd
             \/ ext = "close" /\ ext' = "done",
             UNCHANGED <<pc, pipe>> \/ (pc # "copy" /\ pc' # "copy")
      PROVE  FrameInv'
  <2>1. /\ Forwarded' = Forwarded /\ (Joined => Joined') /\ Current' = Current
        /\ Kept(Current, resp.asked)' <=> Kept(Current, resp.asked)
    BY <1>8, SameForwarded, Zenon
  <2>2. pipeEnd' # "open" => ext' = "done"
    BY <1>8 DEF FrameInv
  <2>3. (ext' = "scan" => ext = "scan") /\ (ext = "done" => ext' = "done")
    BY <1>8
  <2>4. UNCHANGED <<pc, pipe>> => Arrived' = Arrived
    BY <1>8, Zenon DEF Arrived
  <2>5. QED
    BY <1>8, <2>1, <2>2, <2>3, <2>4, Zenon DEF FrameInv
<1>9. CASE Report
  BY <1>8, <1>9, Zenon DEF Report, copyVars
<1>10. CASE ClosePipe
  BY <1>8, <1>10, Zenon DEF ClosePipe, copyVars
<1>11. CASE CloseBody
  BY <1>8, <1>11, Zenon DEF CloseBody, extVars
<1>12. CASE WriteTrailer
  BY <1>8, <1>12, Zenon DEF WriteTrailer, extVars
<1>13. CASE Finish
  BY <1>8, <1>13, Zenon DEF Finish, extVars
<1>14. CASE ClientLeaves
  BY <1>8, <1>14, Zenon DEF ClientLeaves, extVars, copyVars
<1>15. CASE UNCHANGED vars
  BY <1>8, <1>15, Zenon DEF vars, extVars, copyVars
<1>16. QED
  BY <1>1, <1>2, <1>3, <1>4, <1>5, <1>6, <1>7, <1>9, <1>10, <1>11, <1>12, <1>13, <1>14,
     <1>15, Zenon DEF Next, Copier, Extractor

\* The whole lines among what a client received, and that no other line but the
\* last was cut short.
LEMMA Framed ==
  ASSUME PipeInv, FrameInv, body = "pipe" PROVE FramingKept
<1> DEFINE F == Forwarded
           whole == IF got # <<>> /\ got[Len(got)] = Partial
                      THEN SubSeq(got, 1, Len(got) - 1) ELSE got
<1>1. F \in Seq(Solid) /\ got \in Seq(Lines)
  BY Zenon DEF FrameInv, Joined, PipeInv
<1> HIDE DEF F
<1>2. ASSUME got = Append(F, Partial) PROVE whole = F
  <2>1. Len(got) = Len(F) + 1 /\ got # <<>> /\ got[Len(got)] = Partial
        /\ SubSeq(got, 1, Len(got) - 1) = F
    BY <1>1, <1>2
  <2>2. QED
    BY <2>1, Zenon
<1>3. ASSUME NEW n \in 0..Len(F), got = SubSeq(F, 1, n)
      PROVE  whole = got /\ Len(got) = n
  <2>1. Len(got) = n /\ \A i \in 1..n : got[i] = F[i] /\ F[i] \in Solid
    BY <1>1, <1>3
  <2>2. got # <<>> => n \in 1..n
    BY <1>3, <2>1
  <2>3. got # <<>> => got[Len(got)] # Partial
    BY <2>1, <2>2, Zenon DEF Solid
  <2>4. QED
    BY <2>1, <2>3, Zenon
<1>4. F = SubSeq(F, 1, Len(F)) /\ Len(F) \in 0..Len(F) /\ Len(F) <= Len(F)
  BY <1>1
<1>5. got = F => whole = F
  BY <1>3, <1>4, Zenon
<1>6. got = Append(F, Partial) \/ \E n \in 0..Len(F) : got = SubSeq(F, 1, n)
  <2>1. CASE pc = "copy" /\ pipe # <<>>
    <3>1. Append(got, pipe[1].line) \in {F, Append(F, Partial)}
      BY <2>1, Zenon DEF FrameInv, Arrived, F
    <3>2. Len(got) \in 0..Len(F) /\ got = SubSeq(F, 1, Len(got))
      BY <1>1, <3>1
    <3>3. QED
      BY <3>2, Zenon
  <2>2. CASE pc = "copy" /\ pipe = <<>>
    BY <1>4, <2>2, Zenon DEF FrameInv, Arrived, F
  <2>3. CASE pc # "copy"
    BY <2>3, Zenon DEF FrameInv, F
  <2>4. QED
    BY <2>1, <2>2, <2>3, Zenon
<1>7. pc \in {"trailer", "finish", "over"} /\ ~aborted => whole = F
  BY <1>2, <1>5, Zenon DEF FrameInv, F
<1> HIDE DEF whole
<1>8. whole = F \/ \E n \in 0..Len(F) : whole = SubSeq(F, 1, n) /\ Len(whole) = n
  BY <1>2, <1>3, <1>6, Zenon
<1>9. Len(whole) <= Len(F) /\ whole = SubSeq(F, 1, Len(whole))
  BY <1>1, <1>4, <1>8
<1>10. QED
  BY <1>7, <1>9, Zenon DEF FramingKept, whole, F

(***************************************************************************)
(* For every stream in which only unnamed events are usage chunks: what    *)
(* the client reads is the events the replica sent, line for line and in   *)
(* order, without the usage chunks it did not ask for; only its last line  *)
(* can be cut short; and a response that ends cleanly is complete, or its  *)
(* stream had said so (processStream, CloseWithError).                     *)
(***************************************************************************)
THEOREM StreamIsKept ==
  ASSUME UsageChunksAreBare PROVE Spec => []StreamKept
<1> DEFINE All == Inv /\ StreamInv /\ PipeInv /\ FrameInv
<1>1. Init => All
  <2> SUFFICES ASSUME Init PROVE All
    BY Zenon
  <2>1. Inv /\ StreamInv /\ PipeInv
    BY InvInit, MarkInit, Zenon
  <2>2. FrameInv
    BY Zenon DEF Init, FrameInv
  <2>3. QED
    BY <2>1, <2>2, Zenon
<1>2. All /\ [Next]_vars => All'
  BY InvStep, StreamStep, PipeStep, FrameStep, Zenon
<1>3. All => StreamKept
  <2> SUFFICES ASSUME All PROVE StreamKept
    BY Zenon
  <2>1. FramingKept
    BY Framed, Zenon DEF FramingKept
  <2>2. FailureIsVisible
    BY Zenon DEF StreamInv, FailureIsVisible
  <2>3. QED
    BY <2>1, <2>2, Zenon DEF StreamKept
<1> HIDE DEF All
<1>4. QED
  BY <1>1, <1>2, <1>3, PTL DEF Spec

=============================================================================
