--------------------------- MODULE ChatStreamer ---------------------------
(***************************************************************************)
(* What the streamer of the Chat surface does with a chunk of the backend  *)
(* (toolruntime/chat_stream.go, tool_progress.go).  Every operator takes   *)
(* the streamer's record and returns the next one:                         *)
(*   out, writeErr   the events the client received; the latch             *)
(*   role            the role delta is out                                 *)
(*   emitter         one citation emitter for the whole stream             *)
(*   entries         the calls of this turn, assembled by backend index    *)
(*   mode, pending   what the forwarder decided about an index, and the    *)
(*                   deltas that wait for the decision                     *)
(*   clientIndex, nextClientIndex   the client's numbering of calls        *)
(*   streamedIDs, streamedWithoutIDs   what finalize need not send again   *)
(* A delta of a call is [index, id, name, arguments]; id NoItem and     *)
(* name "" stand for fields it does not have.                              *)
(***************************************************************************)
EXTENDS ResponsesStreamer

NewChatStreamer ==
  [out |-> << >>, writeErr |-> FALSE, role |-> FALSE, emitter |-> NewEmitter,
   entries |-> << >>, mode |-> << >>, pending |-> << >>, clientIndex |-> << >>,
   nextClientIndex |-> 0, streamedIDs |-> {}, streamedWithoutIDs |-> << >>]

resetIteration(c) ==
  [c EXCEPT !.entries = << >>, !.mode = << >>, !.pending = << >>, !.clientIndex = << >>,
            !.streamedWithoutIDs = << >>]

ensureRoleEmitted(c) ==
  IF c.role THEN c ELSE emitEvent([c EXCEPT !.role = TRUE], Event("role", -1, NoItem, << >>))

\* A chunk the emitter lets through, and the links in it.
WriteContent(c, drained) ==
  LET text == IF drained.text = << >> THEN c
              ELSE emitEvent(c, Event("content", -1, NoItem, drained.text))
      next == [text EXCEPT !.emitter = drained.emitter]
  IN  IF drained.notes = << >> THEN next
      ELSE emitEvent(next, Event("annotations", -1, NoItem, drained.notes))

emitContentDelta(c, delta, recorded) == WriteContent(c, Push(c.emitter, recorded, delta))

flushCitations(c, recorded) == WriteContent(c, Flush(c.emitter, recorded))

-----------------------------------------------------------------------------
(***************************************************************************)
(* Tool calls: the builder assembles them, the forwarder passes on those   *)
(* of the client as they come.                                             *)
(***************************************************************************)
NumberedCall(c, index) ==
  IF index \in DOMAIN c.clientIndex THEN c
  ELSE [c EXCEPT !.clientIndex = With(@, index, c.nextClientIndex),
                 !.nextClientIndex = @ + 1]

forward(c, delta) ==
  LET numbered == NumberedCall(c, delta.index)
  IN  emitEvent([numbered EXCEPT !.streamedIDs = @ \cup ({delta.id} \ {NoItem})],
                Event("call", numbered.clientIndex[delta.index], delta.id,
                      <<delta.name>> \o delta.arguments))

ForwardPending(c, index) ==
  FoldLeft(forward, [c EXCEPT !.pending = Without(@, index)], Get(c.pending, index, << >>))

\* clientToolCallDeltaForwarder.ingest
ForwarderIngest(c, name, delta) ==
  LET index   == delta.index
      Mode(m) == [c EXCEPT !.mode = With(@, index, m)]
      decided == Get(c.mode, index, "pending")
  IN  IF decided = "live" THEN forward(c, delta)
      ELSE IF decided = "drop" THEN c
      ELSE IF name = ""
      THEN [c EXCEPT !.pending = With(@, index, Append(Get(@, index, << >>), delta))]
      ELSE IF name \in OwnedTools
      THEN [Mode("drop") EXCEPT !.pending = Without(@, index)]
      ELSE forward(ForwardPending(Mode("live"), index), delta)

NoEntry == [id |-> NoItem, name |-> "", arguments |-> << >>]

\* chatToolCallBuilder.ingest: entries are padded up to the delta's index.
BuilderIngest(c, delta) ==
  LET padded == c.entries \o [n \in 1 .. delta.index + 1 - Len(c.entries) |-> NoEntry]
      old    == padded[delta.index + 1]
      entry  == [id        |-> IF delta.id # NoItem THEN delta.id ELSE old.id,
                 name      |-> IF delta.name # "" THEN delta.name ELSE old.name,
                 arguments |-> old.arguments \o delta.arguments]
  IN  ForwarderIngest([c EXCEPT !.entries = [padded EXCEPT ![delta.index + 1] = entry]],
                      entry.name, delta)

\* chatToolCallBuilder.toolCalls and raw: the calls that have a name.
ToolCalls(c, turn) ==
  SelectSeq([i \in DOMAIN c.entries |->
               [item |-> <<turn, i>>, id |-> c.entries[i].id, name |-> c.entries[i].name,
                arguments |-> c.entries[i].arguments]],
            LAMBDA call : call.name # "")

\* Mutation: calls that came without an id are not counted as sent.
MutRecordStreamedWithoutIDs(c) == c

recordStreamedWithoutIDs(c) ==
  LET sent == {i \in DOMAIN c.entries :
                 c.entries[i].id = NoItem /\ Get(c.mode, i - 1, "pending") = "live"}
      names == {c.entries[i].name : i \in sent}
  IN  [c EXCEPT !.streamedWithoutIDs =
         [m \in names |-> Cardinality({i \in sent : c.entries[i].name = m})]]

\* unstreamed: the calls the client has not received; those without an id are
\* told apart by counting names.
unstreamed(c, calls) ==
  LET Skipped(n) ==
        IF calls[n].id # NoItem THEN calls[n].id \in c.streamedIDs
        ELSE Cardinality({m \in 1 .. n : calls[m].id = NoItem /\ calls[m].name = calls[n].name})
               <= Get(c.streamedWithoutIDs, calls[n].name, 0)
      from[n \in 1 .. Len(calls) + 1] ==
        IF n > Len(calls) THEN << >>
        ELSE (IF Skipped(n) THEN << >> ELSE <<calls[n]>>) \o from[n + 1]
  IN  from[1]

-----------------------------------------------------------------------------
(***************************************************************************)
(* Progress markers, and the end of the stream.                            *)
(***************************************************************************)
emitTinfoilEventMarker(c, optedIn, item, status) ==
  IF ~optedIn THEN c ELSE emitEvent(c, Event("marker", -1, item, <<status>>))

Markers(c, optedIn, call, status) ==
  FoldLeftDomain(LAMBDA t, n : emitTinfoilEventMarker(t, optedIn, Append(call.item, n), status),
                 c, [n \in 1 .. Pages(call) |-> n])

SendWhole(c, call) ==
  emitEvent([c EXCEPT !.nextClientIndex = @ + 1],
            Event("call", c.nextClientIndex, call.id, <<call.name>> \o call.arguments))

finalizeChat(c, recorded, clientCalls, finishReason) ==
  LET flushed == flushCitations(ensureRoleEmitted(c), recorded)
      sent    == FoldLeft(SendWhole, flushed, unstreamed(flushed, clientCalls))
      reason  == IF clientCalls # << >> THEN "tool_calls"
                 ELSE IF finishReason = "" THEN "stop" ELSE finishReason
  IN  emitEvent(emitEvent(sent, Event("finish", -1, NoItem, <<reason>>)),
                Event("[DONE]", -1, NoItem, << >>))

terminateChat(c, recorded) ==
  emitEvent(emitEvent(flushCitations(c, recorded), Event("error", -1, NoItem, << >>)),
            Event("[DONE]", -1, NoItem, << >>))
=============================================================================
