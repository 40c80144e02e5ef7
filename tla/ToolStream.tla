----------------------------- MODULE ToolStream -----------------------------
(***************************************************************************)
(* What a client of a streamed request sees of the turns the tool runtime  *)
(* takes for it (runChatStreaming, runResponsesStreaming): one stream, in  *)
(* which the items of every turn keep numbers of their own, the router's   *)
(* calls stay hidden behind their progress, the client's calls arrive once *)
(* and whole, and links are cited.  ToolRuntime has the sessions, the      *)
(* billing and the ways a request ends; here the SSE headers are out.      *)
(*                                                                         *)
(* The backend is external.  items is what it has said, over all turns:    *)
(* the messages and calls of a turn may come interleaved, a message may be *)
(* unannounced, the arguments of a call may be in its deltas only, a chat  *)
(* call may lack an id and name its tool late.  It finishes what it began  *)
(* before a turn is done, or the turn fails.  It cites a source only after *)
(* one was recorded.                                                       *)
(***************************************************************************)
EXTENDS ChatStreamer

CONSTANTS
  MaxIterations,   \* maxToolIterations
  Plots            \* bounds on what the backend says: by name, the number of
                   \* items over all turns and of those unfinished at once, the
                   \* number of pieces of text and arguments over all turns,
                   \* the pieces and tools there are, whether the backend is
                   \* irregular, whether things fail, and whether it only
                   \* searches once and then writes

ASSUME ToolStreamAssumption ==
  /\ MaxIterations \in Nat \ {0}
  /\ \A p \in DOMAIN Plots :
       DOMAIN Plots[p] = {"items", "open", "deltas", "pieces", "tools", "irregular", "fails",
                          "scripted"}

VARIABLES
  surface,   \* "chat" or "responses"
  plot,      \* one of the plots
  optedIn,   \* X-Tinfoil-Events: web_search
  pc, turn,
  items,     \* history: what the backend said
  said,      \* history: on chat, the content of all turns, in pieces
  s,         \* the streamer
  calls, n, handle,   \* the router's calls of the turn, the next one, its number
  log,       \* toolCalls: the calls that were made
  recorded   \* citations: none, or where the text was when one was recorded

vars == <<surface, plot, optedIn, pc, turn, items, said, s, calls, n, handle, log, recorded>>
tools == <<calls, n, handle, log, recorded>>

Plot         == Plots[plot]
Text(pieces) == FlattenSeq(pieces)
Known        == recorded # << >>

Init ==
  /\ surface \in {"chat", "responses"} /\ plot \in DOMAIN Plots
  /\ optedIn \in (IF surface = "chat" /\ Plot.fails THEN BOOLEAN ELSE {FALSE})
  /\ pc = "pump" /\ turn = 1
  /\ items = << >> /\ said = << >>
  /\ s = IF surface = "chat" THEN NewChatStreamer ELSE NewResponsesStreamer
  /\ calls = << >> /\ n = 1 /\ handle = << >> /\ log = << >> /\ recorded = << >>

-----------------------------------------------------------------------------
(***************************************************************************)
(* The backend speaks.                                                     *)
(***************************************************************************)
Pumping(on) == pc = "pump" /\ surface = on /\ ~s.writeErr

OfTurn == SelectSeq(items, LAMBDA item : item.turn = turn)

\* A scripted backend searches in its first turn and writes a message in the
\* second.  The last turn is asked for without tools.
MaySay(type, name) ==
  /\ Len(items) < Plot.items
  /\ Cardinality({k \in DOMAIN items : ~items[k].done}) < Plot.open
  /\ type = "function_call" => turn <= MaxIterations /\ name \in Plot.tools
  /\ Plot.scripted => OfTurn = << >> /\ (type = "message" <=> turn = 2)

NewItem(type, name, announced) ==
  [id |-> <<Len(items) + 1>>, turn |-> turn, index |-> Len(OfTurn), type |-> type,
   name |-> name, announced |-> announced, text |-> << >>, arguments |-> << >>,
   textDone |-> FALSE, done |-> FALSE]

Deltas ==
  Len(said) + FoldLeft(LAMBDA sum, item : sum + Len(item.text) + Len(item.arguments), 0, items)

MayFollow(piece) == Deltas < Plot.deltas /\ ("1" \in Range(piece) => Known)

MayContinue == ~Plot.scripted /\ Deltas < Plot.deltas

Heard(k, item) == items' = [items EXCEPT ![k] = item]

UpstreamSays == UNCHANGED <<surface, plot, optedIn, pc, turn, tools>>

ResponseCreated ==
  /\ Pumping("responses") /\ turn = 1 /\ items = << >> /\ ~s.created /\ Plot.fails
  /\ s' = ensureResponseCreated(s)
  /\ UpstreamSays /\ UNCHANGED <<items, said>>

\* The item, and for a message the event that opens its text part.
OutputItemAdded ==
  /\ Pumping("responses")
  /\ \E type \in {"message", "function_call"}, name \in {"", "client"} \cup OwnedTools,
        announced \in BOOLEAN :
       /\ type = "message" <=> name = ""
       /\ announced \/ (type = "message" /\ Plot.irregular)
       /\ MaySay(type, name)
       /\ LET item  == NewItem(type, name, announced)
              added == handleOutputItemAdded(s, item.index, item)
          IN  /\ items' = Append(items, item)
              /\ s' = IF ~announced THEN s
                      ELSE IF type = "message"
                      THEN forwardEvent(added, "part", item.index, item, << >>)
                      ELSE added
  /\ UpstreamSays /\ UNCHANGED said

OutputTextDelta ==
  /\ Pumping("responses")
  /\ \E k \in DOMAIN items, piece \in Plot.pieces :
       LET item == items[k]
       IN  /\ item.turn = turn /\ item.type = "message" /\ ~item.textDone
           /\ MayFollow(piece)
           /\ Heard(k, [item EXCEPT !.text = Append(@, piece)])
           /\ s' = handleOutputTextDelta(s, item.index, item, piece, Known)
  /\ UpstreamSays /\ UNCHANGED said

OutputTextDone ==
  /\ Pumping("responses")
  /\ \E k \in DOMAIN items :
       LET item == items[k]
       IN  /\ item.turn = turn /\ item.type = "message" /\ ~item.textDone
           /\ Heard(k, [item EXCEPT !.textDone = TRUE])
           /\ s' = handleOutputTextDone(s, item.index, item, Known)
  /\ UpstreamSays /\ UNCHANGED said

FunctionCallArgumentsDelta ==
  /\ Pumping("responses")
  /\ \E k \in DOMAIN items :
       LET item     == items[k]
           fragment == <<k, Len(item.arguments) + 1>>
       IN  /\ item.turn = turn /\ item.type = "function_call" /\ ~item.done
           /\ MayContinue
           /\ Heard(k, [item EXCEPT !.arguments = Append(@, fragment)])
           /\ s' = handleFunctionCallArgumentsDelta(s, item.index, item, fragment)
  /\ UpstreamSays /\ UNCHANGED said

\* For a call, after the event that ends its arguments; the item may leave the
\* arguments out.
OutputItemDone ==
  /\ Pumping("responses")
  /\ \E k \in DOMAIN items, whole \in BOOLEAN :
       LET item == items[k]
           sent == IF whole THEN item ELSE [item EXCEPT !.arguments = << >>]
       IN  /\ item.turn = turn /\ ~item.done
           /\ item.type = "message" => item.textDone
           /\ whole \/ (item.type = "function_call" /\ Plot.irregular)
           /\ Heard(k, [item EXCEPT !.done = TRUE])
           /\ s' = handleOutputItemDone(
                     IF item.type = "message" THEN s
                     ELSE forwardEvent(s, "args.done", item.index, item, << >>),
                     item.index, sent)
  /\ UpstreamSays /\ UNCHANGED said

-----------------------------------------------------------------------------
Content ==
  /\ Pumping("chat")
  /\ Plot.scripted => turn = 2
  /\ \E piece \in Plot.pieces :
       /\ MayFollow(piece)
       /\ said' = Append(said, piece)
       /\ s' = emitContentDelta(ensureRoleEmitted(s), piece, Known)
  /\ UpstreamSays /\ UNCHANGED items

\* The first delta of a call has its id, if it has one; announced says so.
\* done: the name has been said.
CallBegins ==
  /\ Pumping("chat")
  /\ \E name \in {"client"} \cup OwnedTools, announced \in BOOLEAN, named \in BOOLEAN :
       /\ MaySay("function_call", name)
       /\ announced \/ named
       /\ Plot.irregular \/ (announced /\ named)
       /\ LET item == [NewItem("function_call", name, announced) EXCEPT !.done = named]
          IN  /\ items' = Append(items, item)
              /\ s' = BuilderIngest(ensureRoleEmitted(s),
                        [index |-> item.index, id |-> IF announced THEN item.id ELSE NoItem,
                         name |-> IF named THEN name ELSE "", arguments |-> << >>])
  /\ UpstreamSays /\ UNCHANGED said

CallContinues ==
  /\ Pumping("chat")
  /\ \E k \in DOMAIN items, names \in BOOLEAN :
       LET item     == items[k]
           fragment == <<k, Len(item.arguments) + 1>>
       IN  /\ item.turn = turn /\ MayContinue
           /\ names => ~item.done
           /\ Heard(k, [item EXCEPT !.arguments = Append(@, fragment),
                                    !.done = @ \/ names])
           /\ s' = BuilderIngest(ensureRoleEmitted(s),
                     [index |-> item.index, id |-> NoItem,
                      name |-> IF names THEN item.name ELSE "",
                      arguments |-> <<fragment>>])
  /\ UpstreamSays /\ UNCHANGED said

-----------------------------------------------------------------------------
(***************************************************************************)
(* The end of a turn.                                                      *)
(***************************************************************************)
\* The calls of the turn, as splitToolCalls divides them.
TurnCalls(t) == IF surface = "responses" THEN t.calls ELSE ToolCalls(t, turn)

RouterCalls(t) == SelectSeq(TurnCalls(t), LAMBDA c : c.name \in OwnedTools)
ClientCalls(t) == SelectSeq(TurnCalls(t), LAMBDA c : c.name \notin OwnedTools)

Finalize(t, reason) ==
  /\ s' = IF surface = "responses" THEN finalize(t, log)
          ELSE finalizeChat(t, Known,
                            IF turn > MaxIterations THEN << >> ELSE ClientCalls(t), reason)
  /\ pc' = "over"

\* The backend is done with a turn: an answer, or calls for the router.
TurnDone ==
  /\ pc = "pump" /\ ~s.writeErr
  /\ \A k \in DOMAIN items : items[k].turn = turn => items[k].done
  /\ Plot.scripted /\ turn = 1 => items # << >>
  /\ \E reason \in (IF surface = "chat" /\ Plot.fails THEN {"", "length"} ELSE {""}) :
       LET t == IF surface = "chat" THEN recordStreamedWithoutIDs(ensureRoleEmitted(s)) ELSE s
       IN  IF RouterCalls(t) = << >> \/ turn > MaxIterations
           THEN Finalize(t, reason) /\ UNCHANGED calls
           ELSE s' = t /\ pc' = "tools" /\ calls' = RouterCalls(t)
  /\ UNCHANGED <<surface, plot, optedIn, turn, items, said, n, handle, log, recorded>>

\* It fails, or breaks off.
TurnFails ==
  /\ pc = "pump" /\ ~s.writeErr /\ Plot.fails
  /\ s' = IF surface = "chat" THEN terminateChat(s, Known) ELSE terminateWithError(s)
  /\ pc' = "over"
  /\ UNCHANGED <<surface, plot, optedIn, turn, items, said, tools>>

\* The client is gone and a write has failed: the turn is given up.  Bound: in
\* a turn, only before its first item.
WriteFails ==
  /\ pc # "over" /\ ~s.writeErr /\ Plot.fails
  /\ pc = "pump" => OfTurn = << >>
  /\ s' = [s EXCEPT !.writeErr = TRUE]
  /\ UNCHANGED <<surface, plot, optedIn, pc, turn, items, said, tools>>

TurnAbandoned ==
  /\ pc = "pump" /\ s.writeErr
  /\ pc' = "over"
  /\ UNCHANGED <<surface, plot, optedIn, turn, items, said, s, tools>>

-----------------------------------------------------------------------------
(***************************************************************************)
(* The router's calls, one after the other (executeToolWithProgress).      *)
(***************************************************************************)
OpenTool ==
  /\ pc = "tools" /\ n <= Len(calls) /\ handle = << >>
  /\ handle' = <<IF surface = "chat" THEN 0 ELSE s.outputIndex>>
  /\ s' = IF surface = "chat" THEN Markers(s, optedIn, calls[n], "in_progress")
          ELSE OpenHandles(s, calls[n])
  /\ UNCHANGED <<surface, plot, optedIn, pc, turn, items, said, calls, n, log, recorded>>

CloseTool ==
  /\ pc = "tools" /\ handle # << >>
  /\ \E status \in {"completed", "failed"} :
       /\ s' = IF surface = "chat" THEN Markers(s, optedIn, calls[n], status)
               ELSE CloseHandles(s, handle[1], calls[n], status)
       /\ log' = Append(log, [call |-> calls[n], status |-> status])
       /\ recorded' = IF status = "completed" /\ ~Known
                      THEN <<IF surface = "chat" THEN Len(Text(said)) ELSE turn>>
                      ELSE recorded
  /\ n' = n + 1 /\ handle' = << >>
  /\ UNCHANGED <<surface, plot, optedIn, pc, turn, items, said, calls>>

\* A turn that also called tools of the client ends the stream; otherwise the
\* outputs go into the next turn.
ToolsDone ==
  /\ pc = "tools" /\ n > Len(calls)
  /\ UNCHANGED <<log, recorded>>
  /\ IF ClientCalls(s) # << >>
     THEN Finalize(s, "") /\ UNCHANGED turn
     ELSE /\ pc' = "pump" /\ turn' = turn + 1
          /\ s' = IF surface = "chat" THEN resetIteration(s) ELSE resetPerIterationState(s)
  /\ calls' = << >> /\ n' = 1
  /\ UNCHANGED <<surface, plot, optedIn, items, said, handle>>

Upstream ==
  \/ ResponseCreated \/ OutputItemAdded \/ OutputTextDelta \/ OutputTextDone
  \/ FunctionCallArgumentsDelta \/ OutputItemDone
  \/ Content \/ CallBegins \/ CallContinues

Next ==
  \/ Upstream
  \/ TurnDone \/ TurnFails \/ WriteFails \/ TurnAbandoned
  \/ OpenTool \/ CloseTool \/ ToolsDone

Spec == Init /\ [][Next]_vars

-----------------------------------------------------------------------------
(***************************************************************************)
(* What the client has.                                                    *)
(***************************************************************************)
EventsOf(ev, item) == SelectSeq(s.out, LAMBDA e : e.ev = ev /\ e.item = item)
DataOf(events)     == FlattenSeq([i \in DOMAIN events |-> events[i].data])

\* Of each text: what was said, what has arrived, what is held, the citations
\* that have arrived, and how far the text was when the source was recorded.
ChatText ==
  [text |-> Text(said), received |-> DataOf(EventsOf("content", NoItem)),
   emitter |-> s.emitter, notes |-> DataOf(EventsOf("annotations", NoItem)),
   uncited |-> IF Known THEN recorded[1] ELSE Len(Text(said))]

ItemText(item) ==
  LET notes == EventsOf("annotation", item.id)
  IN  [text |-> Text(item.text), received |-> DataOf(EventsOf("text.delta", item.id)),
       emitter |-> Get(s.emitters, item.id, NewEmitter),
       notes |-> [i \in DOMAIN notes |-> Tail(notes[i].data)],
       uncited |-> IF Known /\ item.turn > recorded[1] THEN 0 ELSE Len(Text(item.text))]

Texts ==
  IF surface = "chat" THEN {ChatText}
  ELSE {ItemText(items[k]) : k \in {j \in DOMAIN items : items[j].type = "message"}}

WholeText(m) == NormalizeLinks(ResolveHarmonyCitations(m.text, Known))

\* A text is regular when no bracket of the other width is inside a link in
\* ASCII brackets or in parentheses, and no link outgrows the buffer.  On other
\* texts the emitter and the regular expressions differ.
Regular(m) ==
  LET text == ResolveHarmonyCitations(m.text, Known)
      Before(i, runes, end) == LET stop == FirstOf(text, i, end)
                                   bad  == FirstOf(text, i, runes)
                               IN  bad # 0 /\ (stop = 0 \/ bad < stop)
  IN  /\ \A i \in DOMAIN text :
           /\ text[i] = "[" => ~Before(i, {"<", ">"}, {"]"})
           /\ text[i] = "(" => ~Before(i, {">"}, {")"})
      /\ \A l \in MarkdownLinks(WholeText(m)) : l.end - l.open <= MaxLinkBufferRunes

Owned(item)  == item.type = "function_call" /\ item.name \in OwnedTools
Client(item) == item.type = "function_call" /\ item.name \notin OwnedTools

\* The item of the backend behind a call of the log.
ItemOf(call) ==
  IF surface = "responses" THEN items[call.item[1]]
  ELSE CHOOSE item \in Range(items) : item.turn = call.item[1] /\ item.index = call.item[2] - 1

\* On chat, the calls as the client puts them together, by index.
CallIndexes == {e.at : e \in {f \in Range(s.out) : f.ev = "call"}}

CallAt(at) ==
  LET parts == SelectSeq(s.out, LAMBDA e : e.ev = "call" /\ e.at = at)
  IN  [ids   |-> {e.item : e \in Range(parts)} \ {NoItem},
       names |-> SelectSeq([i \in DOMAIN parts |-> Head(parts[i].data)], LAMBDA x : x # ""),
       arguments |-> FlattenSeq([i \in DOMAIN parts |-> Tail(parts[i].data)])]

Said(item) == [ids |-> IF item.announced THEN {item.id} ELSE {}, names |-> <<item.name>>,
               arguments |-> item.arguments]

Ended == s.out # << >> /\ Last(s.out).ev \in {"response.completed", "response.failed", "[DONE]"}

Answered ==
  Ended /\ \E e \in Range(s.out) : e.ev \in {"response.completed", "finish"}

-----------------------------------------------------------------------------
(***************************************************************************)
(* Types.  An emitter never holds more than its buffer.                    *)
(***************************************************************************)
TypeOK ==
  /\ surface \in {"chat", "responses"} /\ plot \in DOMAIN Plots /\ optedIn \in BOOLEAN
  /\ pc \in {"pump", "tools", "over"} /\ turn \in 1 .. MaxIterations + 1
  /\ Len(items) <= Plot.items /\ n \in 1 .. Len(calls) + 1
  /\ handle # << >> => pc = "tools"
  /\ Len(recorded) <= 1 /\ (log = << >> => recorded = << >>)
  /\ \A m \in Texts :
       /\ Len(m.emitter.held) <= MaxLinkBufferRunes
       /\ ~s.writeErr => m.emitter.flushed \in {0, Len(m.received)}

\* On the Responses surface output_index names one item for the whole stream,
\* over all turns and among the items the router adds, and is one the
\* streamer gave out (outputIndexMap is rebuilt every turn, outputIndex is not).
IndexNamesOneItem ==
  surface = "responses" =>
    LET numbered == {e \in Range(s.out) : e.at # -1}
    IN  /\ \A e, f \in numbered : e.at = f.at <=> e.item = f.item
        /\ \A e \in numbered : e.at < s.outputIndex

\* Nothing of a call the router makes itself reaches the client as a call: no
\* event of its item, no delta of its name or arguments.
RouterCallsHidden ==
  \A e \in Range(s.out) :
    IF surface = "responses"
    THEN Len(e.item) = 1 => ~Owned(items[e.item[1]])
    ELSE e.ev = "call" =>
           /\ Head(e.data) \notin OwnedTools
           /\ \A fragment \in Range(Tail(e.data)) : ~Owned(items[fragment[1]])

\* A call reaches whoever makes it whole.  The router's have every fragment of
\* their arguments; the client's arrive under an index of their own, once, with
\* the fragments in order, whether or not the backend gave them an id or said
\* the arguments again at the end, and the finish reason says so.
CallsWhole ==
  /\ \A l \in Range(log) : l.call.arguments = ItemOf(l.call).arguments
  /\ surface = "responses" =>
       \A e \in Range(s.out) :
         e.ev = "item.done" /\ Len(e.item) = 1 => e.data = items[e.item[1]].arguments
  /\ surface = "chat" =>
       \A at \in CallIndexes : \E item \in Range(items) :
         Client(item) /\ IsPrefix(CallAt(at).arguments, item.arguments)
  /\ surface = "chat" /\ Answered =>
       LET mine == {item \in Range(items) : item.turn = turn /\ Client(item)}
       IN  /\ Cardinality(CallIndexes) = Cardinality(mine)
           /\ {CallAt(at) : at \in CallIndexes} = {Said(item) : item \in mine}
           /\ (\E e \in Range(s.out) : e.ev = "finish" /\ e.data = <<"tool_calls">>)
                <=> mine # {}

\* On the Responses surface the events of an item stand between its added and
\* its done event, each of which comes once; a stream that completed has closed
\* every item it opened, every page of a fetch that failed included.
ItemsBracketed ==
  surface = "responses" =>
    \A item \in {e.item : e \in Range(s.out)} \ {NoItem} :
      LET events == SelectSeq(s.out, LAMBDA e : e.item = item)
          Count(ev) == Cardinality({i \in DOMAIN events : events[i].ev = ev})
          announced == IF Len(item) = 1 THEN items[item[1]].announced ELSE TRUE
      IN  /\ Count("item.added") = IF announced THEN 1 ELSE 0
          /\ announced => events[1].ev = "item.added"
          /\ Count("item.done") <= 1
          /\ Count("item.done") = 1 => Last(events).ev = "item.done"
          /\ Answered => Count("item.done") = 1

\* The text that has arrived and the text that is held make up the text as the
\* router normalises it whole, however the backend cut it into deltas; none is
\* left when its part is done or the stream ends.
TextAsWhole ==
  s.writeErr \/
    \A m \in Texts :
      Regular(m) => m.received \o Flush(m.emitter, Known).text = WholeText(m)

\* The notes of a text, once the rest of it is let through.
NotesOf(m) == m.notes \o Flush(m.emitter, Known).notes

\* The labels of its links to the source, from where citing begins.
CitedIn(m, text) ==
  {<<l.open, l.label - 1>> : l \in {k \in MarkdownLinks(text) : k.end > m.uncited}}
    \cap MatchesFor(text)

InOrder(notes) == \A i, j \in DOMAIN notes : i < j => notes[i][2] < notes[j][1]

\* Each annotation of an item has its number.
CountedFromZero(annotations) ==
  \A i \in DOMAIN annotations : Head(annotations[i].data) = i - 1

\* A citation is sent for every link to a recorded source and for no other, in
\* order; its offsets enclose the label in the text that has arrived; the
\* annotation_index of an item counts from zero without a gap.
LinksCited ==
  s.writeErr \/
    /\ \A m \in Texts :
         /\ \A i \in DOMAIN m.notes :
              /\ m.received[m.notes[i][1]] = "["
              /\ m.received[m.notes[i][2] + 1] = "]"
         /\ Regular(m) => InOrder(NotesOf(m)) /\ Range(NotesOf(m)) = CitedIn(m, WholeText(m))
    /\ \A e \in Range(s.out) :
         e.ev = "annotation" => CountedFromZero(EventsOf("annotation", e.item))

\* Every item of response.completed was streamed to its end before: the web
\* searches in the order and with the status they closed, then the items of
\* the last turn in the order they were done.
SnapshotWasStreamed ==
  \A e \in Range(s.out) : e.ev = "response.completed" =>
    LET done     == SelectSeq(s.out, LAMBDA f : f.ev = "item.done")
        searches == SelectSeq(done, LAMBDA f : Len(f.item) = 2)
        outputs  == SelectSeq(done, LAMBDA f : Len(f.item) = 1
                                              /\ items[f.item[1]].turn = turn)
    IN  /\ e.data[1] = [i \in DOMAIN searches |->
                          [item |-> searches[i].item, status |-> searches[i].data[1]]]
        /\ e.data[2] = [i \in DOMAIN outputs |-> outputs[i].item]

\* A stream has one beginning in front of its end, and one end, after which
\* nothing comes; without a failed write it has an end when the request is over.
OneEnding ==
  LET Count(evs) == Cardinality({i \in DOMAIN s.out : s.out[i].ev \in evs})
      ends == {"response.completed", "response.failed", "[DONE]"}
  IN  /\ Count({"created", "role"}) <= 1 /\ Count(ends) <= 1
      /\ Count(ends) = 1 => Ended /\ (Answered => Count({"created", "role"}) = 1)
      /\ pc = "over" /\ ~s.writeErr => Ended

\* The client of a stream reads a well-formed response: one beginning and one
\* end, items bracketed by their events, and one index for each (the
\* streamers' emit functions, resetPerIterationState, finalize).
WellFormed == TypeOK /\ IndexNamesOneItem /\ ItemsBracketed /\ OneEnding

\* Calls reach the one who makes them, whole, and nobody else
\* (forwardEvent, recordStreamedWithoutIDs, the chat streamer's finalize).
CallsDelivered == RouterCallsHidden /\ CallsWhole

\* Text and its citations arrive as if the whole text had been rewritten at
\* once, however it was cut (citations.StreamingEmitter).
TextDelivered == TextAsWhole /\ LinksCited
=============================================================================
