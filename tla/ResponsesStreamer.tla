------------------------- MODULE ResponsesStreamer -------------------------
(***************************************************************************)
(* What the streamer of the Responses surface does with an event of the    *)
(* backend (toolruntime/responses_stream.go, tool_progress.go).  Every     *)
(* operator takes the streamer's record and returns the next one:          *)
(*   out          the events the client received                           *)
(*   writeErr     the latch of a failed write                              *)
(*   created      response.created is out                                  *)
(*   outputIndex, indexMap, suppressed   the client's numbering of items   *)
(*   args         buffered argument fragments, by backend index            *)
(*   emitters, counts   citation emitters and annotation counts, by item   *)
(*   finalOutput  items of this turn the client has seen done              *)
(*   calls        tool calls of this turn                                  *)
(* An event is [ev, at, item, data]: its name, output_index, item and      *)
(* content.  Each item has one text part.                                  *)
(***************************************************************************)
EXTENDS Citations, SequencesExt

SearchTools == {"search"}
FetchTools  == {"fetch"}
OwnedTools  == SearchTools \cup FetchTools

NewResponsesStreamer ==
  [out |-> << >>, writeErr |-> FALSE, created |-> FALSE,
   outputIndex |-> 0, indexMap |-> << >>, suppressed |-> {}, args |-> << >>,
   emitters |-> << >>, counts |-> << >>, finalOutput |-> << >>, calls |-> << >>]

\* A map with one entry set, and with one removed.
With(f, key, value) == [k \in DOMAIN f \cup {key} |-> IF k = key THEN value ELSE f[k]]
Without(f, key)     == [k \in DOMAIN f \ {key} |-> f[k]]
Get(f, key, default) == IF key \in DOMAIN f THEN f[key] ELSE default

NoItem == << >>

Event(ev, at, item, data) == [ev |-> ev, at |-> at, item |-> item, data |-> data]

emitEvent(s, event) ==
  IF s.writeErr THEN s ELSE [s EXCEPT !.out = Append(@, event)]

ensureResponseCreated(s) ==
  IF s.created THEN s
  ELSE emitEvent([s EXCEPT !.created = TRUE], Event("created", -1, NoItem, << >>))

\* Mutation: the numbering starts again with every turn.
MutResetPerIterationState(s) ==
  [s EXCEPT !.indexMap = << >>, !.suppressed = {}, !.finalOutput = << >>,
            !.args = << >>, !.calls = << >>, !.outputIndex = 0]

resetPerIterationState(s) ==
  [s EXCEPT !.indexMap = << >>, !.suppressed = {}, !.finalOutput = << >>,
            !.args = << >>, !.calls = << >>]

-----------------------------------------------------------------------------
(***************************************************************************)
(* Output items.  index is the backend's output_index of the item.         *)
(***************************************************************************)
isRouterOwnedToolItem(item) == item.type = "function_call" /\ item.name \in OwnedTools

\* The next number goes to an item that has none.
Numbered(s, index) ==
  IF index \in DOMAIN s.indexMap THEN s
  ELSE [s EXCEPT !.indexMap = With(@, index, s.outputIndex), !.outputIndex = @ + 1]

handleOutputItemAdded(s, index, item) ==
  IF isRouterOwnedToolItem(item)
  THEN [s EXCEPT !.suppressed = @ \cup {index}]
  ELSE emitEvent([s EXCEPT !.indexMap = With(@, index, s.outputIndex),
                           !.outputIndex = @ + 1],
                 Event("item.added", s.outputIndex, item.id, << >>))

\* The arguments of a finished call: the item's, or the buffered fragments.
FinishedArguments(s, index, item) ==
  IF item.arguments # << >> THEN item.arguments ELSE Get(s.args, index, << >>)

Call(item, arguments) == [item |-> item.id, name |-> item.name, arguments |-> arguments]

handleOutputItemDone(s, index, item) ==
  LET arguments == FinishedArguments(s, index, item)
      isCall    == item.type = "function_call"
      taken     == IF isCall
                   THEN [s EXCEPT !.args = Without(@, index),
                                  !.calls = Append(@, Call(item, arguments))]
                   ELSE s
      shown     == Numbered(taken, index)
  IN  IF isRouterOwnedToolItem(item) THEN taken
      ELSE IF index \in s.suppressed THEN s
      ELSE emitEvent([shown EXCEPT !.finalOutput = Append(@, item.id)],
                     Event("item.done", shown.indexMap[index], item.id, arguments))

\* Every other event, under the client's number of its item.
forwardEvent(s, ev, index, item, data) ==
  IF index \in s.suppressed THEN s
  ELSE emitEvent(s, Event(ev, Get(s.indexMap, index, index), item.id, data))

handleFunctionCallArgumentsDelta(s, index, item, fragment) ==
  forwardEvent([s EXCEPT !.args = With(@, index, Append(Get(@, index, << >>), fragment))],
               "args.delta", index, item, <<fragment>>)

-----------------------------------------------------------------------------
(***************************************************************************)
(* Text, through the emitter of its item.                                  *)
(***************************************************************************)

emitAnnotationEvents(s, notes, at, item) ==
  LET first == Get(s.counts, item, 0)
      Note(t, n) == emitEvent(t, Event("annotation", at, item, <<first + n - 1>> \o notes[n]))
  IN  IF notes = << >> THEN s
      ELSE FoldLeftDomain(Note, [s EXCEPT !.counts = With(@, item, first + Len(notes))],
                          notes)

\* A chunk the emitter lets through, and the links in it.
LetThrough(s, at, item, drained) ==
  emitAnnotationEvents(
    IF drained.text = << >> THEN s
    ELSE emitEvent(s, Event("text.delta", at, item, drained.text)),
    drained.notes, at, item)

handleOutputTextDelta(s, index, item, delta, recorded) ==
  LET t       == Numbered(s, index)
      drained == Push(Get(s.emitters, item.id, NewEmitter), recorded, delta)
  IN  IF index \in s.suppressed THEN s
      ELSE LetThrough([t EXCEPT !.emitters = With(@, item.id, drained.emitter)],
                      t.indexMap[index], item.id, drained)

\* Mutation: what the emitter still holds is dropped.
MutHandleOutputTextDone(s, index, item, recorded) ==
  LET t == Numbered(s, index)
  IN  emitEvent([t EXCEPT !.emitters = Without(@, item.id)],
                Event("text.done", t.indexMap[index], item.id, item.text))

handleOutputTextDone(s, index, item, recorded) ==
  LET t == Numbered(s, index)
      flushed ==
        IF item.id \notin DOMAIN t.emitters THEN t
        ELSE LetThrough([t EXCEPT !.emitters = Without(@, item.id)], t.indexMap[index],
                        item.id, Flush(t.emitters[item.id], recorded))
  IN  IF index \in s.suppressed THEN s
      ELSE emitEvent(flushed, Event("text.done", t.indexMap[index], item.id, item.text))

-----------------------------------------------------------------------------
(***************************************************************************)
(* Progress of the router's own tools: one web_search_call item for a      *)
(* search, one for each URL of a fetch.  Such an item is the call's, with  *)
(* a number appended.  Every fragment of a fetch's arguments names a URL.  *)
(***************************************************************************)
Pages(call) == IF call.name \in SearchTools THEN 1 ELSE Len(call.arguments)

\* openWebSearchCallItem and the phases before the call.
OpenHandle(s, call, nth) ==
  LET at   == s.outputIndex
      item == Append(call.item, nth)
      open == emitEvent([s EXCEPT !.outputIndex = @ + 1],
                        Event("item.added", at, item, << >>))
      busy == emitEvent(open, Event("in_progress", at, item, << >>))
  IN  IF call.name \in SearchTools
      THEN emitEvent(busy, Event("searching", at, item, << >>)) ELSE busy

\* The phase after it and closeWebSearchCallItem.
CloseHandle(s, at, call, nth, status) ==
  LET item == Append(call.item, nth)
      over == IF status = "completed"
              THEN emitEvent(s, Event("completed", at, item, << >>)) ELSE s
  IN  emitEvent(over, Event("item.done", at, item, <<status>>))

OpenHandles(s, call) ==
  FoldLeftDomain(LAMBDA t, n : OpenHandle(t, call, n), s, [n \in 1 .. Pages(call) |-> n])

CloseHandles(s, at, call, status) ==
  FoldLeftDomain(LAMBDA t, n : CloseHandle(t, at + n - 1, call, n, status), s,
                 [n \in 1 .. Pages(call) |-> n])

\* Mutation: one item for a fetch, whatever it fetched.
MutBuildWebSearchCallOutputItems(log) ==
  [n \in 1 .. Len(log) |-> [item |-> Append(log[n].call.item, 1), status |-> log[n].status]]

\* buildWebSearchCallOutputItems: the calls the router made, as output items.
buildWebSearchCallOutputItems(log) ==
  FlattenSeq([n \in 1 .. Len(log) |->
                [p \in 1 .. Pages(log[n].call) |->
                   [item |-> Append(log[n].call.item, p), status |-> log[n].status]]])

-----------------------------------------------------------------------------
(***************************************************************************)
(* The end of the stream.                                                  *)
(***************************************************************************)
finalize(s, log) ==
  emitEvent([ensureResponseCreated(s) EXCEPT !.emitters = << >>],
            Event("response.completed", -1, NoItem,
                  <<buildWebSearchCallOutputItems(log), s.finalOutput>>))

terminateWithError(s) ==
  emitEvent(ensureResponseCreated(s),
            Event("response.failed", -1, NoItem, s.finalOutput))
=============================================================================
