---------------------------- MODULE ToolRuntime ----------------------------
(***************************************************************************)
(* One request in the tool runtime (toolruntime/): the MCP sessions of its *)
(* profiles (session_registry.go), the bounded loop of model turns and     *)
(* tool calls (tool_loop.go, chat_stream.go, responses_stream.go,          *)
(* tool_progress.go), the heartbeat goroutine beside it (sse_heartbeat.go) *)
(* and the billing of what the turns used (runtime.go, stream_base.go).    *)
(*                                                                         *)
(* A request has a surface, "chat" or "responses", and streams or not.     *)
(* What the client receives is the sequence wire:                          *)
(*   "headers"    the head of an SSE response                              *)
(*   "start"      the role delta, or response.created                      *)
(*   "delta"      content, tool calls, progress; runs of them are one      *)
(*   "completed"  the finish chunk and [DONE], or response.completed       *)
(*   "failed"     the error frame and [DONE], or response.failed           *)
(*   "json", "error"  a whole response without streaming                   *)
(* Usage is a token count.  The model backend and the tool servers are     *)
(* external: they answer, fail or break off at any point; what follows the *)
(* terminal event of a turn is left out.  The request carries an API key   *)
(* (emitBillingEvent bills no other).                                      *)
(***************************************************************************)
EXTENDS Integers, Sequences, FiniteSets, Functions

CONSTANTS
  Profiles,       \* the sequence of active profiles
  RouterTools, ClientTools,
  Offers,         \* the tool sets a server may list
  DisabledSets,   \* the tool sets a request may disable
  MaxIterations,  \* maxToolIterations
  MaxCalls,       \* bound: tool calls in one turn
  MaxUsage        \* bound: tokens of one turn

ASSUME ToolRuntimeAssumption ==
  /\ MaxIterations \in Nat \ {0} /\ MaxCalls \in Nat /\ MaxUsage \in Nat
  /\ RouterTools \cap ClientTools = {}
  /\ Offers \subseteq SUBSET RouterTools
  /\ Profiles \in Seq(Range(Profiles)) /\ Profiles # << >>

VARIABLES
  surface, streaming, disabled,
  pc,
  k, entries, byTool, open,    \* the registry; open: sessions not closed
  i, calls, n, orphans,        \* iteration, the turn's calls, the next one to
                               \* run; calls in the history without an output
  turn, total,                 \* usage of the turn so far; usageTotals
  bills, reported,             \* events sent; history: usage that was read
  named, started, writeErr,    \* model pinned; roleEmitted; the latch
  wire, client,
  heartbeat, stop, failed,     \* the goroutine; its stop channel; its latch
  outcome                      \* what Handle returns

mode     == <<surface, streaming, disabled>>
registry == <<k, entries, byTool, open>>
loop     == <<i, calls, n, orphans>>
usage    == <<turn, total, bills, reported>>
stream   == <<named, started, writeErr, wire>>
beat     == <<heartbeat, stop, failed>>
vars     == <<mode, pc, registry, loop, usage, stream, client, beat, outcome>>

Tools == RouterTools \cup ClientTools
Frames == {"headers", "start", "delta", "completed", "failed", "json", "error"}

TypeOK ==
  /\ surface \in {"chat", "responses"} /\ streaming \in BOOLEAN
  /\ disabled \in DisabledSets
  /\ pc \in {"dial", "list", "post", "pump", "decide", "tools",
             "stopping", "closing", "returned"}
  /\ k \in 1 .. Len(Profiles) + 1
  /\ entries \in Seq(Range(Profiles))
  /\ DOMAIN byTool \subseteq RouterTools /\ Range(byTool) \subseteq Range(Profiles)
  /\ open \subseteq Range(Profiles)
  /\ i \in 0 .. MaxIterations
  /\ calls \in Seq(Tools) /\ n \in 1 .. MaxCalls + 1 /\ orphans \subseteq Tools
  /\ turn \in Nat /\ total \in Nat /\ bills \in Seq(Nat) /\ reported \in Nat
  /\ named \in BOOLEAN /\ started \in BOOLEAN /\ writeErr \in BOOLEAN
  /\ wire \in Seq(Frames) /\ client \in {"here", "gone"}
  /\ heartbeat \in {"off", "waiting", "done"} /\ stop \in BOOLEAN /\ failed \in BOOLEAN
  /\ outcome \in {"none", "nil", "error", "aborted"}

Init ==
  /\ surface \in {"chat", "responses"} /\ streaming \in BOOLEAN
  /\ disabled \in DisabledSets
  /\ pc = "dial"
  /\ k = 1 /\ entries = << >> /\ byTool = << >> /\ open = {}
  /\ i = 0 /\ calls = << >> /\ n = 1 /\ orphans = {}
  /\ turn = 0 /\ total = 0 /\ bills = << >> /\ reported = 0
  /\ named = FALSE /\ started = FALSE /\ writeErr = FALSE
  /\ wire = << >> /\ client = "here"
  /\ heartbeat = "off" /\ stop = FALSE /\ failed = FALSE
  /\ outcome = "none"

-----------------------------------------------------------------------------
(***************************************************************************)
(* buildSessionRegistry.  A failure closes the session at hand and the     *)
(* ones recorded before it.                                                *)
(***************************************************************************)
Profile == Profiles[k]

BuildFails ==
  /\ open' = (open \ {Profile}) \ Range(entries)
  /\ pc' = "closing" /\ outcome' = "error"
  /\ UNCHANGED <<k, entries, byTool>>

Dial ==
  /\ pc = "dial"
  /\ \/ open' = open \cup {Profile} /\ pc' = "list"
        /\ UNCHANGED <<k, entries, byTool, outcome>>
     \/ BuildFails
  /\ UNCHANGED <<mode, loop, usage, stream, client, beat>>

\* Mutation: the session whose tools cannot be listed is forgotten.
MutListToolsFails ==
  /\ pc = "list"
  /\ open' = open \ Range(entries)
  /\ pc' = "closing" /\ outcome' = "error"
  /\ UNCHANGED <<mode, k, entries, byTool, loop, usage, stream, client, beat>>

ListToolsFails ==
  /\ pc = "list"
  /\ BuildFails
  /\ UNCHANGED <<mode, loop, usage, stream, client, beat>>

\* Disabled tools are left out; a name that is taken already is fatal.
ListTools ==
  /\ pc = "list"
  /\ \E offer \in Offers :
       LET tools == offer \ disabled
       IN  IF tools \cap DOMAIN byTool # {} THEN BuildFails
           ELSE /\ byTool' = [t \in DOMAIN byTool \cup tools |->
                                IF t \in tools THEN Profile ELSE byTool[t]]
                /\ entries' = Append(entries, Profile)
                /\ k' = k + 1
                /\ pc' = IF k < Len(Profiles) THEN "dial" ELSE "post"
                /\ UNCHANGED <<open, outcome>>
  /\ UNCHANGED <<mode, loop, usage, stream, client, beat>>

-----------------------------------------------------------------------------
(***************************************************************************)
(* Writing to the client.                                                  *)
(***************************************************************************)
\* Runs of deltas are one delta.
Joined(frames) ==
  IF frames # << >> /\ wire # << >> /\ Head(frames) = "delta" /\ wire[Len(wire)] = "delta"
  THEN wire \o Tail(frames) ELSE wire \o frames

\* emitData and emitEvent: nothing once the latch is set.  A write to a client
\* that is gone may fail or be lost in a buffer; after a failed heartbeat it
\* fails.
Emit(frames) ==
  IF writeErr \/ frames = << >> THEN UNCHANGED <<writeErr, wire, failed>>
  ELSE \/ client = "here" /\ wire' = Joined(frames) /\ UNCHANGED <<writeErr, failed>>
       \/ client = "gone" /\ ~failed /\ UNCHANGED <<writeErr, wire, failed>>
       \/ client = "gone" /\ writeErr' = TRUE /\ failed' = TRUE /\ UNCHANGED wire

\* Frames that carry the model: without one, validateStreamModel sets the
\* latch and nothing is written.
Stamped(known, frames) ==
  IF known THEN Emit(frames)
  ELSE writeErr' = TRUE /\ UNCHANGED <<wire, failed>>

\* ensureRoleEmitted and ensureResponseCreated, in front of other frames.
WithStart(frames) == (IF started THEN << >> ELSE <<"start">>) \o frames

Bill(tokens) == bills' = Append(bills, tokens)

\* Handle's stream ended; the deferred Stop is next.
StreamEnds == pc' = "stopping" /\ outcome' = IF writeErr' THEN "aborted" ELSE "nil"

\* terminateWithError after the headers.  The chat error frame carries no
\* model, response.failed does.
TerminateInBand(known) ==
  /\ IF surface = "chat" THEN Emit(<<"failed">>) /\ UNCHANGED started
     ELSE Stamped(known, WithStart(<<"failed">>)) /\ started' = TRUE
  /\ StreamEnds

-----------------------------------------------------------------------------
(***************************************************************************)
(* A turn without streaming (postJSON in runToolLoop).                     *)
(***************************************************************************)
\* completedUsageResponse: the usage of the completed turns is billed.
PostFails ==
  /\ pc = "post" /\ ~streaming
  /\ IF total > 0 THEN Bill(total) ELSE UNCHANGED bills
  /\ pc' = "closing" /\ outcome' = "error"
  /\ UNCHANGED <<mode, registry, loop, turn, total, reported, stream, client, beat>>

TurnsOfCalls == UNION {[1 .. m -> Tools] : m \in 0 .. MaxCalls}

PostAnswered ==
  /\ pc = "post" /\ ~streaming
  /\ \E u \in 0 .. MaxUsage : total' = total + u /\ reported' = reported + u
  /\ calls' \in TurnsOfCalls
  /\ pc' = "decide"
  /\ UNCHANGED <<mode, registry, i, n, orphans, turn, bills, stream, client, beat, outcome>>

-----------------------------------------------------------------------------
(***************************************************************************)
(* A streamed turn (runIteration: openUpstreamSSE, pumpUpstream).          *)
(***************************************************************************)
HeadersWritten == wire # << >>

\* Before the headers the error goes to Handle's caller.
OpenFails ==
  /\ pc = "post" /\ streaming
  /\ IF HeadersWritten THEN TerminateInBand(named) /\ Bill(total)
     ELSE pc' = "stopping" /\ outcome' = "error"
          /\ UNCHANGED <<bills, started, writeErr, wire, failed>>
  /\ UNCHANGED <<mode, registry, loop, turn, total, reported, named, client, heartbeat, stop>>

\* The first 2xx writes the headers and starts the heartbeat.
OpenStream ==
  /\ pc = "post" /\ streaming
  /\ pc' = "pump" /\ calls' = << >>
  /\ IF HeadersWritten THEN UNCHANGED <<wire, heartbeat>>
     ELSE wire' = <<"headers">> /\ heartbeat' = "waiting"
  /\ UNCHANGED <<mode, registry, i, n, orphans, usage, named, started, writeErr, client,
                 stop, failed, outcome>>

Pumping == pc = "pump" /\ ~writeErr

\* A chat chunk, or an event of a response, with or without something for the
\* client.  A chunk may carry the model and the usage of the turn so far; the
\* first one starts the stream.
Delta ==
  /\ Pumping
  /\ named' \in {named, TRUE}
  /\ \E content \in {<< >>, <<"delta">>} :
       IF surface = "chat"
       THEN /\ Stamped(named', WithStart(content)) /\ started' = TRUE
            /\ turn' \in turn .. MaxUsage
            /\ reported' = reported + (turn' - turn)
       ELSE Emit(content) /\ UNCHANGED <<started, turn, reported>>
  /\ UNCHANGED <<mode, pc, registry, loop, total, bills, client, heartbeat, stop, outcome>>

\* response.created, passed on in the first turn only.
Created ==
  /\ Pumping /\ surface = "responses"
  /\ named' \in {named, TRUE}
  /\ IF i = 0 /\ ~started THEN Stamped(named', <<"start">>) /\ started' = TRUE
     ELSE UNCHANGED <<started, writeErr, wire, failed>>
  /\ UNCHANGED <<mode, pc, registry, loop, usage, client, heartbeat, stop, outcome>>

PassedOn(t) == t \notin DOMAIN byTool

\* A tool call of the model, complete.  A client's one is passed on.
Call ==
  /\ Pumping /\ Len(calls) < MaxCalls
  /\ surface = "chat" => started
  /\ \E t \in Tools :
       /\ calls' = Append(calls, t)
       /\ Emit(IF PassedOn(t) THEN <<"delta">> ELSE << >>)
  /\ UNCHANGED <<mode, pc, registry, i, n, orphans, usage, named, started, client,
                 heartbeat, stop, outcome>>

\* The usage that the turn ends with: a chat turn folds what its chunks said,
\* a response's terminal event says it.
Fold(u) ==
  IF surface = "chat" THEN u = 0 /\ total' = total + turn /\ turn' = 0 /\ UNCHANGED reported
  ELSE total' = total + u /\ reported' = reported + u /\ UNCHANGED turn

\* [DONE], or response.completed.
TurnDone ==
  /\ Pumping
  /\ \E u \in 0 .. MaxUsage : Fold(u)
  /\ named' \in IF surface = "chat" THEN {named} ELSE {named, TRUE}
  /\ pc' = "decide"
  /\ UNCHANGED <<mode, registry, loop, bills, started, writeErr, wire, client, beat, outcome>>

\* An error object, malformed JSON, a failed read, the end of the stream
\* without a terminal frame, response.failed or response.incomplete.
TurnBroken ==
  /\ Pumping
  /\ \E u \in 0 .. MaxUsage : Fold(u)
  /\ named' \in IF surface = "chat" THEN {named} ELSE {named, TRUE}
  /\ TerminateInBand(named')
  /\ Bill(total')
  /\ UNCHANGED <<mode, registry, loop, client, heartbeat, stop>>

\* Mutation: a client that is gone is not billed for the turn it left.
MutTurnAbandoned ==
  /\ pc = "pump" /\ writeErr
  /\ turn' = 0
  /\ TerminateInBand(named)
  /\ Bill(total)
  /\ UNCHANGED <<mode, registry, loop, total, reported, named, client, heartbeat, stop>>

\* The latch is set: the pump gives up.
TurnAbandoned ==
  /\ pc = "pump" /\ writeErr
  /\ Fold(0)
  /\ TerminateInBand(named)
  /\ Bill(total')
  /\ UNCHANGED <<mode, registry, loop, named, client, heartbeat, stop>>

-----------------------------------------------------------------------------
(***************************************************************************)
(* Between the turns.                                                      *)
(***************************************************************************)
\* The positions of the calls that the router answers (splitToolCalls).
RouterCalls == {p \in DOMAIN calls : ~PassedOn(calls[p])}

MixedTurn == \E t \in Range(calls) : PassedOn(t)

\* runToolLoop's results and the streamers' finalize.  The write of the JSON
\* response may fail.
Finalize ==
  /\ Bill(total)
  /\ IF streaming
     THEN Stamped(named, WithStart(<<"completed">>)) /\ started' = TRUE /\ StreamEnds
     ELSE /\ pc' = "closing" /\ UNCHANGED <<started, writeErr, failed>>
          /\ \/ client = "here" /\ wire' = <<"json">> /\ outcome' = "nil"
             \/ client = "gone" /\ wire' = wire /\ outcome' \in {"nil", "error"}

\* A client that is gone ends the loop.  The forced final turn is the answer,
\* and so is a turn without router calls.
Decide ==
  /\ pc = "decide"
  /\ IF streaming /\ writeErr /\ i < MaxIterations
     THEN Bill(total) /\ pc' = "stopping" /\ outcome' = "nil"
          /\ UNCHANGED <<started, writeErr, wire, failed>>
     ELSE IF i = MaxIterations \/ RouterCalls = {} THEN Finalize
     ELSE pc' = "tools" /\ UNCHANGED <<bills, started, writeErr, wire, failed, outcome>>
  /\ UNCHANGED <<mode, registry, loop, turn, total, reported, named, client, heartbeat, stop>>

\* executeRouterToolCall and resolveStreamingRouterToolCall: an error of the
\* tool is its output.  A stream may show the progress.
RunTool ==
  /\ pc = "tools" /\ n <= Cardinality(RouterCalls)
  /\ n' = n + 1
  /\ \/ streaming /\ Emit(<<"delta">>)
     \/ UNCHANGED <<writeErr, wire, failed>>
  /\ UNCHANGED <<mode, pc, registry, i, calls, orphans, usage, named, started, client,
                 heartbeat, stop, outcome>>

\* All router calls are answered.  A mixed turn is final; otherwise the turn
\* and its outputs join the history.
ToolsDone ==
  /\ pc = "tools" /\ n > Cardinality(RouterCalls)
  /\ n' = 1
  /\ IF MixedTurn THEN Finalize /\ UNCHANGED <<i, calls, orphans>>
     ELSE /\ i' = i + 1 /\ calls' = << >> /\ pc' = "post"
          /\ orphans' = orphans \cup {calls[p] : p \in DOMAIN calls \ RouterCalls}
          /\ UNCHANGED <<bills, started, writeErr, wire, failed, outcome>>
  /\ UNCHANGED <<mode, registry, turn, total, reported, named, client, heartbeat, stop>>

-----------------------------------------------------------------------------
(***************************************************************************)
(* The end: heartbeat.Stop, registry.CloseAll, then the caller of Handle.  *)
(***************************************************************************)
CloseStop ==
  /\ pc = "stopping" /\ ~stop
  /\ stop' = TRUE
  /\ UNCHANGED <<mode, pc, registry, loop, usage, stream, client, heartbeat, failed, outcome>>

Stopped ==
  /\ pc = "stopping" /\ stop /\ heartbeat # "waiting"
  /\ pc' = "closing"
  /\ UNCHANGED <<mode, registry, loop, usage, stream, client, beat, outcome>>

\* Mutation: every error is written to the client.
MutReturn ==
  /\ pc = "closing"
  /\ pc' = "returned"
  /\ open' = open \ Range(entries)
  /\ wire' = IF outcome # "nil" /\ client = "here" THEN Append(wire, "error") ELSE wire
  /\ UNCHANGED <<mode, k, entries, byTool, loop, usage, named, started, writeErr, client,
                 beat, outcome>>

\* An error other than StreamAbortedError becomes a JSON error response, by
\* writeUpstreamError or by the caller of Handle.
Return ==
  /\ pc = "closing"
  /\ pc' = "returned"
  /\ open' = open \ Range(entries)
  /\ wire' = IF outcome = "error" /\ client = "here" THEN Append(wire, "error") ELSE wire
  /\ UNCHANGED <<mode, k, entries, byTool, loop, usage, named, started, writeErr, client,
                 beat, outcome>>

-----------------------------------------------------------------------------
(***************************************************************************)
(* The heartbeat goroutine.  A beat that reaches the client changes        *)
(* nothing here.                                                           *)
(***************************************************************************)
BeatFails ==
  /\ heartbeat = "waiting" /\ client = "gone"
  /\ heartbeat' = "done" /\ failed' = TRUE
  /\ UNCHANGED <<mode, pc, registry, loop, usage, stream, client, stop, outcome>>

\* Mutation: the goroutine does not watch the stop channel.
MutHeartbeatExits == FALSE /\ UNCHANGED vars

HeartbeatExits ==
  /\ heartbeat = "waiting" /\ stop
  /\ heartbeat' = "done"
  /\ UNCHANGED <<mode, pc, registry, loop, usage, stream, client, stop, failed, outcome>>

ClientLeaves ==
  /\ client = "here" /\ pc # "returned"
  /\ client' = "gone"
  /\ UNCHANGED <<mode, pc, registry, loop, usage, stream, beat, outcome>>

Handle ==
  \/ Dial \/ ListToolsFails \/ ListTools
  \/ PostFails \/ PostAnswered
  \/ OpenFails \/ OpenStream \/ Delta \/ Created \/ Call
  \/ TurnDone \/ TurnBroken \/ TurnAbandoned
  \/ Decide \/ RunTool \/ ToolsDone
  \/ CloseStop \/ Stopped \/ Return

Next == Handle \/ BeatFails \/ HeartbeatExits \/ ClientLeaves

Spec == Init /\ [][Next]_vars

\* Calls to backends and tool servers end, and so does each answer.
FairSpec == Spec /\ WF_vars(Handle) /\ WF_vars(HeartbeatExits)

-----------------------------------------------------------------------------
(***************************************************************************)
(* No partial leaks: while the loop runs, the open sessions are exactly    *)
(* those that the owned tools are routed over, and when the request is     *)
(* over no session is open, whichever of dialing, listing and merging      *)
(* failed (buildSessionRegistry, CloseAll).                                *)
(***************************************************************************)
SessionsAccounted ==
  /\ pc \in {"post", "pump", "decide", "tools"} =>
       Range(byTool) \subseteq open /\ open = Range(entries)
  /\ pc = "returned" => open = {}

(***************************************************************************)
(* No token is billed twice or not at all: a request that read any usage   *)
(* is billed exactly once, for the usage of all its turns, also when a     *)
(* later turn fails, the stream breaks off or the client leaves            *)
(* (completedUsageResponse, terminateWithError, finalize).                 *)
(***************************************************************************)
BilledOnce ==
  /\ Len(bills) <= 1
  /\ pc = "returned" =>
       IF reported > 0 THEN bills = <<reported>> ELSE Range(bills) \subseteq {0}

(***************************************************************************)
(* The mixed-turn contract: a request that goes to the model never holds a *)
(* tool call that has no output (runToolLoop).                             *)
(***************************************************************************)
HistoryAnswered == pc = "post" => orphans = {}

(***************************************************************************)
(* A request leaves nothing open: neither a session with a tool server nor *)
(* a call in the history it posts.                                         *)
(***************************************************************************)
NothingLeftOpen == TypeOK /\ SessionsAccounted /\ HistoryAnswered

Ended == wire # << >> /\ wire[Len(wire)] \in {"completed", "failed", "json", "error"}

(***************************************************************************)
(* The client sees one response: a head comes first and only once, the     *)
(* start of a stream at most once, before it completes and, in a chat,     *)
(* before any content, nothing follows the terminal frame, and a stream    *)
(* that ended without a write error has one; no heartbeat is written once  *)
(* the handler has gone on (StreamAbortedError, ensureRoleEmitted,         *)
(* ensureResponseCreated, terminateWithError, heartbeatWriter.Stop).       *)
(***************************************************************************)
OneResponse ==
  LET at(kinds) == {p \in DOMAIN wire : wire[p] \in kinds}
  IN  /\ at({"headers", "json", "error"}) \subseteq {1}
      /\ \A p, q \in at({"start"}) : p = q
      /\ \A p \in at(IF surface = "chat" THEN {"delta", "completed"} ELSE {"completed"}) :
           \E q \in at({"start"}) : q < p
      /\ at({"completed", "failed"}) \subseteq {Len(wire)}
      /\ (pc = "returned" /\ client = "here" /\ ~writeErr) =>
           Ended
      /\ pc \in {"closing", "returned"} => heartbeat # "waiting"

(***************************************************************************)
(* Every request ends: the loop is bounded and Stop never waits for a      *)
(* goroutine that does not end (maxToolIterations, heartbeatWriter.run).   *)
(***************************************************************************)
RequestEnds == <>(pc = "returned")

(***************************************************************************)
(* terminateWithError of the Responses streamer: "otherwise the streamer   *)
(* emits a synthesized response.failed event".  A client that stayed is    *)
(* always told how the stream ended.                                       *)
(***************************************************************************)
EndReportedInBand ==
  (pc = "returned" /\ client = "here") => Ended

-----------------------------------------------------------------------------
(***************************************************************************)
(* The tool loop implements Metering: whatever the turns, their failures   *)
(* and the client do, its one bill is for all the usage that was read, and *)
(* no turn is read or billed after it (emitBillingEvent and its callers).  *)
(***************************************************************************)
Meter == INSTANCE Metering WITH used <- reported, Nothing <- 0, Amounts <- Nat

Metered == Meter!Spec
=============================================================================
