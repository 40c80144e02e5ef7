------------------------- MODULE ToolRuntimeProofs -------------------------
(***************************************************************************)
(* Machine-checked proofs about ToolRuntime, for every list of profiles,   *)
(* every set of tools, any number of iterations, calls and tokens.         *)
(***************************************************************************)
EXTENDS ToolRuntime, FiniteSetTheorems, TLAPS

Running == {"dial", "list", "post", "pump", "decide", "tools"}
Ending == {"stopping", "closing", "returned"}

\* Where the tokens are: a turn's usage joins the total when the turn is over,
\* and together they are all that was read.
Account ==
  /\ pc \in Running \cup Ending
  /\ surface \in {"chat", "responses"}
  /\ turn \in Nat /\ total \in Nat /\ reported \in Nat /\ reported = total + turn
  /\ pc # "pump" \/ surface = "responses" => turn = 0
  /\ pc \in {"dial", "list"} => total = 0

\* A stream writes its headers before it reads any usage.
HeadersFirst ==
  /\ wire \in Seq(Frames)
  /\ streaming /\ wire = << >> => pc \notin {"pump", "decide", "tools"} /\ total = 0

\* The bill: none while the request runs, then one for everything, or none
\* when there was nothing to bill.
Billed ==
  /\ pc \in Running => bills = << >>
  /\ pc \in Ending => bills = <<reported>> \/ (bills = << >> /\ reported = 0)

Inv == Account /\ HeadersFirst /\ Billed

(***************************************************************************)
(* What the writing operators leave behind.                                *)
(***************************************************************************)
\* What is written keeps the wire a sequence of frames, and never empties it.
LEMMA JoinedFrames ==
  ASSUME wire \in Seq(Frames), NEW frames \in Seq(Frames)
  PROVE  Joined(frames) \in Seq(Frames) /\ (wire # << >> => Joined(frames) # << >>)
BY DEF Joined

\* The same for emitData and emitEvent,
LEMMA Emitted ==
  ASSUME wire \in Seq(Frames), NEW frames \in Seq(Frames), Emit(frames)
  PROVE  wire' \in Seq(Frames) /\ (wire # << >> => wire' # << >>)
BY JoinedFrames, Zenon DEF Emit

\* for frames that carry the model,
LEMMA StampedFrames ==
  ASSUME wire \in Seq(Frames), NEW known, NEW frames \in Seq(Frames), Stamped(known, frames)
  PROVE  wire' \in Seq(Frames) /\ (wire # << >> => wire' # << >>)
BY Emitted, Zenon DEF Stamped

\* Single frames, with and without the start, are sequences of frames.
LEMMA Starts ==
  ASSUME NEW f \in Frames
  PROVE  /\ <<f>> \in Seq(Frames)
         /\ WithStart(<<f>>) \in Seq(Frames)
         /\ WithStart(<< >>) \in Seq(Frames)
         /\ << >> \in Seq(Frames)
<1>1. <<f>> \in Seq(Frames) /\ << >> \in Seq(Frames)
  OBVIOUS
<1>2. <<"start">> \in Seq(Frames)
  BY DEF Frames
<1>3. (IF started THEN << >> ELSE <<"start">>) \in Seq(Frames)
  BY <1>1, <1>2, Zenon
<1>4. \A s, t \in Seq(Frames) : s \o t \in Seq(Frames)
  OBVIOUS
<1>5. QED
  BY <1>1, <1>3, <1>4, Zenon DEF WithStart

\* for the frame that ends a broken stream,
LEMMA Terminated ==
  ASSUME wire \in Seq(Frames), NEW known, TerminateInBand(known)
  PROVE  /\ pc' = "stopping"
         /\ wire' \in Seq(Frames) /\ (wire # << >> => wire' # << >>)
<1>1. "failed" \in Frames
  BY Zenon DEF Frames
<1>2. QED
  BY <1>1, Starts, Emitted, StampedFrames, Zenon DEF TerminateInBand, StreamEnds

\* and for the end of a request, which is billed there.
LEMMA Finalized ==
  ASSUME wire \in Seq(Frames), Finalize
  PROVE  /\ pc' \in {"stopping", "closing"}
         /\ wire' \in Seq(Frames) /\ (wire # << >> => wire' # << >>)
         /\ bills' = Append(bills, total)
<1>1. "completed" \in Frames /\ "json" \in Frames
  BY Zenon DEF Frames
<1>2. <<"json">> \in Seq(Frames) /\ <<"json">> # << >>
  BY <1>1
<1>3. CASE streaming
  <2>1. WithStart(<<"completed">>) \in Seq(Frames)
    BY <1>1, Starts, Zenon
  <2>2. Stamped(named, WithStart(<<"completed">>))
    BY <1>3, Zenon DEF Finalize
  <2>3. wire' \in Seq(Frames) /\ (wire # << >> => wire' # << >>)
    BY <2>1, <2>2, StampedFrames, Zenon
  <2>4. QED
    BY <1>3, <2>3, Zenon DEF Finalize, StreamEnds, Bill
<1>4. CASE ~streaming
  <2>1. wire' = <<"json">> \/ wire' = wire
    BY <1>4, Zenon DEF Finalize
  <2>2. wire' \in Seq(Frames) /\ (wire # << >> => wire' # << >>)
    BY <1>2, <2>1, Zenon
  <2>3. pc' = "closing" /\ bills' = Append(bills, total)
    BY <1>4, Zenon DEF Finalize, Bill
  <2>4. QED
    BY <2>2, <2>3, Zenon
<1>5. QED
  BY <1>3, <1>4, Zenon

-----------------------------------------------------------------------------
(***************************************************************************)
(* The invariant.                                                          *)
(***************************************************************************)
\* The invariant holds when Handle is called.
LEMMA InvInit == Init => Inv
BY DEF Init, Inv, Account, HeadersFirst, Billed, Running, Ending, Frames

\* buildSessionRegistry reads no usage and writes nothing.
LEMMA BuildStep ==
  ASSUME Inv, Dial \/ ListToolsFails \/ ListTools
  PROVE  Inv'
<1>1. pc \in {"dial", "list"} /\ UNCHANGED <<mode, usage, stream>>
  BY Zenon DEF Dial, ListToolsFails, ListTools
<1>2. pc' \in {"dial", "list", "post", "closing"}
  BY Zenon DEF Dial, ListToolsFails, ListTools, BuildFails
<1>3. QED
  BY <1>1, <1>2 DEF Inv, Account, HeadersFirst, Billed, Running, Ending, usage, stream, mode

\* A turn without streaming: its usage is read whole, or the turns before it are billed.
LEMMA PostStep ==
  ASSUME Inv, PostFails \/ PostAnswered
  PROVE  Inv'
<1> USE DEF Inv, Account, HeadersFirst, Billed, Running, Ending, stream, mode
<1>1. CASE PostFails
  BY <1>1 DEF PostFails, Bill
<1>2. CASE PostAnswered
  <2>1. PICK u \in 0 .. MaxUsage : total' = total + u /\ reported' = reported + u
    BY <1>2, Zenon DEF PostAnswered
  <2>2. u \in Nat
    BY ToolRuntimeAssumption
  <2>3. QED
    BY <1>2, <2>1, <2>2 DEF PostAnswered
<1>3. QED
  BY <1>1, <1>2, Zenon

\* A stream that cannot be opened is billed if it wrote its headers; otherwise
\* it has read nothing.
LEMMA OpenStep ==
  ASSUME Inv, OpenFails \/ OpenStream
  PROVE  Inv'
<1> USE DEF Inv, Account, HeadersFirst, Billed, Running, Ending, mode
<1>1. CASE OpenFails
  BY <1>1, Terminated DEF OpenFails, HeadersWritten, Bill
<1>2. CASE OpenStream
  <2>1. wire' \in Seq(Frames) /\ wire' # << >>
    <3>1. <<"headers">> \in Seq(Frames) /\ <<"headers">> # << >>
      BY DEF Frames
    <3>2. CASE wire = << >>
      BY <1>2, <3>1, <3>2, Zenon DEF OpenStream, HeadersWritten
    <3>3. CASE wire # << >>
      BY <1>2, <3>3, Zenon DEF OpenStream, HeadersWritten
    <3>4. QED
      BY <3>2, <3>3, Zenon
  <2>2. QED
    BY <1>2, <2>1, Zenon DEF OpenStream, usage
<1>3. QED
  BY <1>1, <1>2, Zenon

\* The usage of a turn that is over is in the total.
LEMMA Folded ==
  ASSUME Account, pc = "pump", NEW u \in Nat, Fold(u)
  PROVE  /\ turn' = 0 /\ turn' \in Nat /\ total' \in Nat /\ reported' \in Nat
         /\ reported' = total' /\ reported' = total' + turn'
BY DEF Account, Fold

\* The events of a turn, with the usage of a chat chunk.
LEMMA PumpStep ==
  ASSUME Inv, Delta \/ Created \/ Call
  PROVE  Inv'
<1> USE DEF Inv, Account, HeadersFirst, Billed, Running, Ending, mode
<1>1. CASE Delta
  <2> PICK content \in {<< >>, <<"delta">>} :
       IF surface = "chat"
       THEN /\ Stamped(named', WithStart(content))
            /\ turn' \in turn .. MaxUsage
            /\ reported' = reported + (turn' - turn)
       ELSE Emit(content) /\ UNCHANGED <<turn, reported>>
    BY <1>1, Zenon DEF Delta
  <2>1. content \in Seq(Frames) /\ WithStart(content) \in Seq(Frames)
    <3>1. "delta" \in Frames
      BY Zenon DEF Frames
    <3>2. QED
      BY <3>1, Starts, Zenon
  <2>2. wire' \in Seq(Frames) /\ (wire # << >> => wire' # << >>)
    BY <2>1, Emitted, StampedFrames, Zenon
  <2>3. /\ turn' \in Nat /\ reported' \in Nat /\ reported' = total + turn'
        /\ surface = "responses" => turn' = 0
    BY ToolRuntimeAssumption
  <2>4. pc = "pump" /\ UNCHANGED <<mode, pc, total, bills>>
    BY <1>1, Zenon DEF Delta, Pumping
  <2>5. QED
    BY <2>2, <2>3, <2>4, Zenon
<1>2. CASE Created
  <2>1. <<"start">> \in Seq(Frames)
    BY DEF Frames
  <2>2. wire' \in Seq(Frames) /\ (wire # << >> => wire' # << >>)
    BY <1>2, <2>1, StampedFrames, Zenon DEF Created
  <2>3. QED
    BY <1>2, <2>2, Zenon DEF Created, Pumping, usage
<1>3. CASE Call
  <2>1. <<"delta">> \in Seq(Frames) /\ << >> \in Seq(Frames)
    BY DEF Frames
  <2>2. wire' \in Seq(Frames) /\ (wire # << >> => wire' # << >>)
    BY <1>3, <2>1, Emitted, Zenon DEF Call
  <2>3. QED
    BY <1>3, <2>2, Zenon DEF Call, Pumping, usage
<1>4. QED
  BY <1>1, <1>2, <1>3, Zenon

\* The end of a streamed turn; a broken one is billed at once.
LEMMA TurnStep ==
  ASSUME Inv, TurnDone \/ TurnBroken \/ TurnAbandoned
  PROVE  Inv'
<1> USE DEF Inv
<1>1. pc = "pump" /\ bills = << >> /\ UNCHANGED <<surface, streaming>>
  BY Zenon DEF TurnDone, TurnBroken, TurnAbandoned, Pumping, Billed, Running, mode
<1>2. PICK u \in Nat : Fold(u)
  <2>1. CASE TurnDone \/ TurnBroken
    <3>1. PICK u \in 0 .. MaxUsage : Fold(u)
      BY <2>1, Zenon DEF TurnDone, TurnBroken
    <3>2. u \in Nat
      BY ToolRuntimeAssumption
    <3>3. QED
      BY <3>1, <3>2, Zenon
  <2>2. CASE TurnAbandoned
    BY <2>2, Zenon DEF TurnAbandoned
  <2>3. QED
    BY <2>1, <2>2, Zenon
<1>3. /\ turn' = 0 /\ turn' \in Nat /\ total' \in Nat /\ reported' \in Nat
      /\ reported' = total' /\ reported' = total' + turn'
  BY <1>1, <1>2, Folded, Zenon
<1>4. wire \in Seq(Frames) /\ (streaming => wire # << >>)
  BY <1>1, Zenon DEF HeadersFirst
<1>5. CASE TurnDone
  <2>1. pc' = "decide" /\ bills' = << >> /\ wire' = wire
    BY <1>1, <1>5, Zenon DEF TurnDone
  <2>2. Account'
    BY <1>1, <1>3, <2>1, ZenonT(30) DEF Account, Running
  <2>3. HeadersFirst'
    BY <1>1, <1>4, <2>1, Zenon DEF HeadersFirst
  <2>4. Billed'
    BY <2>1, Zenon DEF Billed, Running, Ending
  <2>5. QED
    BY <2>2, <2>3, <2>4, Zenon
<1>6. CASE TurnBroken \/ TurnAbandoned
  <2>1. \E known : TerminateInBand(known)
    BY <1>6, Zenon DEF TurnBroken, TurnAbandoned
  <2>2. pc' = "stopping" /\ wire' \in Seq(Frames) /\ (wire # << >> => wire' # << >>)
    BY <1>4, <2>1, Terminated, Zenon
  <2>3. bills' = Append(bills, total')
    BY <1>6, Zenon DEF TurnBroken, TurnAbandoned, Bill
  <2>4. bills' = <<reported'>>
    <3>1. Append(<< >>, reported') = <<reported'>>
      OBVIOUS
    <3>2. QED
      BY <1>1, <1>3, <2>3, <3>1, Zenon
  <2>5. Account'
    BY <1>1, <1>3, <2>2, Zenon DEF Account, Ending
  <2>6. HeadersFirst'
    BY <1>1, <1>4, <2>2, Zenon DEF HeadersFirst
  <2>7. Billed'
    BY <2>2, <2>4, Zenon DEF Billed, Running, Ending
  <2>8. QED
    BY <2>5, <2>6, <2>7, Zenon
<1>7. QED
  BY <1>5, <1>6, Zenon

\* Between the turns the request goes on or is billed.
LEMMA BetweenStep ==
  ASSUME Inv, Decide \/ RunTool \/ ToolsDone
  PROVE  Inv'
<1> USE DEF Inv
<1>1. pc \in {"decide", "tools"} /\ bills = << >> /\ UNCHANGED <<mode, turn, total, reported>>
  BY Zenon DEF Decide, RunTool, ToolsDone, usage, Billed, Running
<1>2. turn = 0 /\ total \in Nat /\ reported = total
  BY <1>1 DEF Account
<1>3. wire \in Seq(Frames) /\ (streaming => wire # << >>)
  BY <1>1, Zenon DEF HeadersFirst
<1>4. CASE Finalize
  <2>1. /\ pc' \in {"stopping", "closing"}
        /\ wire' \in Seq(Frames) /\ (wire # << >> => wire' # << >>)
        /\ bills' = <<total>>
    BY <1>1, <1>3, <1>4, Finalized
  <2>2. QED
    BY <1>1, <1>2, <1>3, <2>1, Zenon DEF Account, HeadersFirst, Billed, Running, Ending, mode
<1>5. CASE /\ pc' = "stopping" /\ bills' = Append(bills, total) /\ wire' = wire
  BY <1>1, <1>2, <1>3, <1>5 DEF Account, HeadersFirst, Billed, Running, Ending, mode
<1>6. CASE /\ pc' \in {"tools", "post"} /\ UNCHANGED <<bills, wire>>
  BY <1>1, <1>2, <1>3, <1>6, Zenon DEF Account, HeadersFirst, Billed, Running, Ending, mode
<1>7. CASE RunTool
  <2>1. <<"delta">> \in Seq(Frames)
    BY DEF Frames
  <2>2. wire' \in Seq(Frames) /\ (wire # << >> => wire' # << >>)
    BY <1>3, <1>7, <2>1, Emitted, Zenon DEF RunTool
  <2>3. pc' = pc /\ bills' = bills
    BY <1>7, Zenon DEF RunTool, usage
  <2>4. QED
    BY <1>1, <1>2, <1>3, <2>2, <2>3, Zenon DEF Account, HeadersFirst, Billed, Running, Ending, mode
<1>8. CASE Decide
  BY <1>4, <1>5, <1>6, <1>8, Zenon DEF Decide, Bill
<1>9. CASE ToolsDone
  BY <1>4, <1>6, <1>9, Zenon DEF ToolsDone
<1>10. QED
  BY <1>7, <1>8, <1>9, Zenon

\* The end of the request, the heartbeat and the client bill nothing.
LEMMA EndStep ==
  ASSUME Inv, CloseStop \/ Stopped \/ Return \/ BeatFails \/ HeartbeatExits \/ ClientLeaves
  PROVE  Inv'
<1> USE DEF Inv, Account, HeadersFirst, Billed, Running, Ending, mode, usage
<1>1. CASE CloseStop \/ BeatFails \/ HeartbeatExits \/ ClientLeaves
  <2>1. UNCHANGED <<mode, pc, usage, stream>>
    BY <1>1, Zenon DEF CloseStop, BeatFails, HeartbeatExits, ClientLeaves
  <2>2. QED
    BY <2>1, Zenon DEF stream
<1>2. CASE Stopped
  BY <1>2, Zenon DEF Stopped, stream
<1>3. CASE Return
  <2>1. "error" \in Frames
    BY Zenon DEF Frames
  <2>2. Append(wire, "error") \in Seq(Frames) /\ Append(wire, "error") # << >>
    BY <2>1
  <2>3. wire' = Append(wire, "error") \/ wire' = wire
    BY <1>3, Zenon DEF Return
  <2>4. wire' \in Seq(Frames) /\ (wire # << >> => wire' # << >>)
    BY <2>2, <2>3, Zenon
  <2>5. pc = "closing" /\ pc' = "returned" /\ UNCHANGED <<mode, usage>>
    BY <1>3, Zenon DEF Return
  <2>6. QED
    BY <2>4, <2>5, Zenon
<1>4. QED
  BY <1>1, <1>2, <1>3, Zenon

\* Every step keeps the invariant.
LEMMA InvStep == Inv /\ [Next]_vars => Inv'
<1> SUFFICES ASSUME Inv, [Next]_vars PROVE Inv'
  BY Zenon
<1>1. CASE Next
  BY <1>1, BuildStep, PostStep, OpenStep, PumpStep, TurnStep, BetweenStep, EndStep, Zenon
     DEF Next, Handle
<1>2. CASE UNCHANGED vars
  BY <1>2, Zenon DEF vars, mode, usage, stream, Inv, Account, HeadersFirst, Billed
<1>3. QED
  BY <1>1, <1>2, Zenon

(***************************************************************************)
(* Every request is billed once for all it read, however many turns it     *)
(* took and wherever it broke off (completedUsageResponse,                 *)
(* terminateWithError, finalize).                                          *)
(***************************************************************************)
THEOREM ToolLoopBilledOnce == Spec => []BilledOnce
<1>1. Inv => BilledOnce
  <2> SUFFICES ASSUME Inv PROVE BilledOnce
    BY Zenon
  <2>1. bills = << >> \/ bills = <<reported>>
    BY Zenon DEF Inv, Account, Billed
  <2>2. Len(bills) <= 1
    <3>1. CASE bills = << >>
      BY <3>1
    <3>2. CASE bills = <<reported>>
      BY <3>2
    <3>3. QED
      BY <2>1, <3>1, <3>2, Zenon
  <2>3. reported \in Nat
    BY Zenon DEF Inv, Account
  <2>4. ASSUME pc = "returned", reported > 0 PROVE bills = <<reported>>
    BY <2>4, <2>3 DEF Inv, Billed, Ending
  <2>5. ASSUME reported = 0 PROVE Range(bills) \subseteq {0}
    BY <2>1, <2>5 DEF Range
  <2>6. QED
    BY <2>2, <2>3, <2>4, <2>5 DEF BilledOnce
<1>2. QED
  BY <1>1, InvInit, InvStep, PTL DEF Spec

-----------------------------------------------------------------------------
(***************************************************************************)
(* The refinement.  A step that leaves the usage alone stutters.           *)
(***************************************************************************)
\* Every step is a step of Metering.
LEMMA MeterStep ==
  ASSUME Inv, Inv', [Next]_vars
  PROVE  [Meter!Next]_<<reported, bills>>
<1> USE DEF Meter!Next, Meter!Consume, Meter!Bill
<1>1. reported' \in Nat
  BY Zenon DEF Inv, Account
<1>2. CASE pc \in Running
  <2>1. bills = << >>
    BY <1>2, Zenon DEF Inv, Billed
  <2>2. bills' = << >> \/ bills' = <<reported'>>
    BY Zenon DEF Inv, Billed, Account
  <2>3. QED
    BY <1>1, <2>1, <2>2, Zenon
<1>3. CASE pc \in Ending
  <2>1. UNCHANGED usage
    <3>1. CASE UNCHANGED vars
      BY <3>1, Zenon DEF vars
    <3>2. CASE CloseStop \/ Stopped \/ Return \/ BeatFails \/ HeartbeatExits \/ ClientLeaves
      BY <3>2, Zenon DEF CloseStop, Stopped, Return, BeatFails, HeartbeatExits, ClientLeaves
    <3>3. CASE Dial \/ ListToolsFails \/ ListTools \/ PostFails \/ PostAnswered
               \/ OpenFails \/ OpenStream \/ Decide \/ RunTool \/ ToolsDone
      BY <1>3, <3>3, ZenonT(30) DEF Ending, Dial, ListToolsFails, ListTools, PostFails, PostAnswered,
         OpenFails, OpenStream, Decide, RunTool, ToolsDone
    <3>4. CASE Delta \/ Created \/ Call \/ TurnDone \/ TurnBroken \/ TurnAbandoned
      BY <1>3, <3>4, Zenon DEF Ending, Delta, Created, Call, TurnDone, TurnBroken, TurnAbandoned,
         Pumping
    <3>5. QED
      BY <3>1, <3>2, <3>3, <3>4, Zenon DEF Next, Handle
  <2>2. QED
    BY <2>1, Zenon DEF usage
<1>4. QED
  BY <1>2, <1>3, Zenon DEF Inv, Account

(***************************************************************************)
(* The tool loop implements Metering for every instance, as the proxied    *)
(* response does (emitBillingEvent and its callers).                       *)
(***************************************************************************)
THEOREM ToolLoopMetered == Spec => Metered
<1>1. Init => Meter!Init
  BY Zenon DEF Init, Meter!Init
<1>2. QED
  BY <1>1, InvInit, InvStep, MeterStep, PTL DEF Spec, Metered, Meter!Spec

-----------------------------------------------------------------------------
(***************************************************************************)
(* Nothing left open.  The sessions, stage by stage: while a session is    *)
(* being listed it is open and not yet recorded, and the close at the end  *)
(* reaches exactly the recorded ones.                                      *)
(***************************************************************************)
Sessions ==
  /\ k \in 1 .. Len(Profiles) + 1
  /\ pc \in {"dial", "list"} => k <= Len(Profiles)
  /\ entries \in Seq(Range(Profiles))
  /\ DOMAIN byTool \subseteq RouterTools /\ Range(byTool) \subseteq Range(entries)
  /\ pc \in {"dial", "post", "pump", "decide", "tools", "stopping"} =>
       open = Range(entries)
  /\ pc = "list" => open = Range(entries) \cup {Profile}
  /\ pc = "closing" => open \subseteq Range(entries)
  /\ pc = "returned" => open = {}

\* The history: the calls of a turn are counted off one by one, and only a
\* turn whose calls are all the router's joins the history.
History ==
  /\ i \in 0 .. MaxIterations /\ (pc = "tools" => i < MaxIterations)
  /\ calls \in Seq(Tools) /\ Len(calls) <= MaxCalls
  /\ n \in Nat \ {0}
  /\ IF pc = "tools" THEN n <= Cardinality(RouterCalls) + 1 ELSE n = 1
  /\ orphans = {}

\* What the client may have seen: Ordered says how the frames of a response
\* follow each other, OpenEnded that it is a stream without its end.
HasStart(w) == \E p \in DOMAIN w : w[p] = "start"
OpenEnded(w) == \A p \in DOMAIN w : w[p] \in {"headers", "start", "delta"}
Ordered(w, kind) ==
  /\ \A p \in DOMAIN w : w[p] \in {"headers", "json", "error"} => p = 1
  /\ \A p, q \in DOMAIN w : w[p] = "start" /\ w[q] = "start" => p = q
  /\ \A p \in DOMAIN w :
       w[p] = "completed" \/ (kind = "chat" /\ w[p] = "delta") =>
         \E q \in DOMAIN w : w[q] = "start" /\ q < p
  /\ \A p \in DOMAIN w : w[p] \in {"completed", "failed"} => p = Len(w)

\* A stream that goes on: what the streamer believes it has started (st) is on
\* the wire, unless the latch (err) is set or the client has left.
Flow(w, st, err, cl, kind) ==
  /\ w \in Seq(Frames) /\ w # << >>
  /\ Ordered(w, kind) /\ OpenEnded(w)
  /\ ~st => ~HasStart(w)
  /\ st /\ ~err /\ cl = "here" => HasStart(w)

\* A response that is over, as far as the client and the latch let it be.
Over(w, err, cl, kind) ==
  /\ w \in Seq(Frames) /\ Ordered(w, kind)
  /\ cl = "here" /\ ~err =>
       w # << >> /\ w[Len(w)] \in {"completed", "failed", "json", "error"}

Response ==
  /\ disabled \in DisabledSets /\ streaming \in BOOLEAN
  /\ named \in BOOLEAN /\ started \in BOOLEAN /\ writeErr \in BOOLEAN
  /\ client \in {"here", "gone"} /\ stop \in BOOLEAN /\ failed \in BOOLEAN
  /\ heartbeat \in {"off", "waiting", "done"}
  /\ outcome \in {"none", "nil", "error", "aborted"}
  /\ heartbeat = "waiting" =>
       streaming /\ pc \in {"post", "pump", "decide", "tools", "stopping"}
  /\ pc = "pump" => streaming
  /\ pc \in {"dial", "list"} => wire = << >> /\ ~started
  /\ ~streaming /\ pc \in Running => wire = << >>
  /\ streaming /\ pc = "post" =>
       Flow(wire, started, writeErr, client, surface) \/ (wire = << >> /\ ~started)
  /\ streaming /\ pc \in {"pump", "decide", "tools"} =>
       Flow(wire, started, writeErr, client, surface)
  /\ streaming /\ surface = "chat" /\ pc \in {"pump", "decide", "tools"} =>
       calls = << >> \/ started
  /\ pc \in {"stopping", "closing"} =>
       IF outcome = "error" THEN wire = << >> ELSE Over(wire, writeErr, client, surface)
  /\ pc = "returned" => Over(wire, writeErr, client, surface)

FullInv == Inv /\ Sessions /\ History /\ Response

\* The stages between the build of the registry and its close.
Serving == {"post", "pump", "decide", "tools", "stopping"}

\* What a step of the request may do to its stage, and which steps touch the
\* registry: the build, and the close when Handle returns.
LEMMA Stages ==
  ASSUME Inv, [Next]_vars
  PROVE  \/ Dial \/ ListToolsFails \/ ListTools \/ Return
         \/ UNCHANGED <<pc, registry>>
         \/ UNCHANGED registry /\ pc \in Serving /\ pc' \in Serving \cup {"closing"}
<1> USE DEF Serving
<1>1. CASE PostFails \/ PostAnswered
  BY <1>1, Zenon DEF PostFails, PostAnswered
<1>2. CASE OpenFails
  BY <1>2, Zenon DEF OpenFails, TerminateInBand, StreamEnds
<1>3. CASE OpenStream \/ TurnDone
  <2>1. UNCHANGED registry
    BY <1>3, Zenon DEF OpenStream, TurnDone
  <2>2. pc \in Serving /\ pc' \in Serving
    BY <1>3, ZenonT(30) DEF OpenStream, TurnDone, Pumping
  <2>3. QED
    BY <2>1, <2>2, Zenon
<1>4. CASE Delta \/ Created \/ Call \/ RunTool
  <2>1. UNCHANGED registry
    BY <1>4, Zenon DEF Delta, Created, Call, RunTool
  <2>2. UNCHANGED pc
    BY <1>4, Zenon DEF Delta, Created, Call, RunTool
  <2>3. QED
    BY <2>1, <2>2, Zenon
<1>5. CASE TurnBroken \/ TurnAbandoned
  <2>1. UNCHANGED registry
    BY <1>5, Zenon DEF TurnBroken, TurnAbandoned
  <2>2. pc = "pump" /\ pc' = "stopping"
    BY <1>5, Zenon DEF TurnBroken, TurnAbandoned, Pumping, TerminateInBand, StreamEnds
  <2>3. QED
    BY <2>1, <2>2, Zenon
<1>6. CASE Decide
  BY <1>6, Zenon DEF Decide, Finalize, StreamEnds
<1>7. CASE ToolsDone
  BY <1>7, Zenon DEF ToolsDone, Finalize, StreamEnds
<1>8. CASE CloseStop \/ Stopped \/ BeatFails \/ HeartbeatExits \/ ClientLeaves
  BY <1>8, Zenon DEF CloseStop, Stopped, BeatFails, HeartbeatExits, ClientLeaves
<1>9. CASE UNCHANGED vars
  BY <1>9, Zenon DEF vars
<1>10. QED
  BY <1>1, <1>2, <1>3, <1>4, <1>5, <1>6, <1>7, <1>8, <1>9, Zenon DEF Next, Handle

\* A failure of the build closes every session it opened.
LEMMA BuildFailsKeeps ==
  ASSUME Sessions, pc \in {"dial", "list"}, BuildFails
  PROVE  Sessions'
<1>1. open' = {}
  BY Zenon DEF Sessions, BuildFails
<1>2. Range(entries)' = Range(entries) /\ Range(byTool)' = Range(byTool)
  BY Zenon DEF BuildFails
<1>3. QED
  BY <1>1, <1>2, Zenon DEF Sessions, BuildFails

\* Appending to a sequence adds one element to its range.
LEMMA AppendRange ==
  ASSUME NEW S, NEW s \in Seq(S), NEW x \in S
  PROVE  Append(s, x) \in Seq(S) /\ Range(Append(s, x)) = Range(s) \cup {x}
<1>1. /\ DOMAIN s = 1 .. Len(s) /\ DOMAIN Append(s, x) = 1 .. Len(s) + 1 /\ Len(s) \in Nat
      /\ \A p \in 1 .. Len(s) : Append(s, x)[p] = s[p]
      /\ Append(s, x)[Len(s) + 1] = x
  OBVIOUS
<1>2. Append(s, x) \in Seq(S)
  OBVIOUS
<1>3. QED
  BY <1>1, <1>2 DEF Range

\* The profile at hand is one of the active ones.
LEMMA ProfileActive ==
  ASSUME Sessions, pc \in {"dial", "list"}
  PROVE  Profile \in Range(Profiles) /\ Len(Profiles) \in Nat
<1>1. Profiles \in Seq(Range(Profiles))
  BY ToolRuntimeAssumption, Zenon
<1>2. DOMAIN Profiles = 1 .. Len(Profiles) /\ Len(Profiles) \in Nat
  BY <1>1
<1>3. k \in DOMAIN Profiles
  BY <1>2 DEF Sessions
<1>4. QED
  BY <1>2, <1>3, Zenon DEF Profile, Range

\* A listed session is recorded with the tools that are routed over it.
LEMMA ListKeeps ==
  ASSUME Sessions, ListTools
  PROVE  Sessions'
<1>0. pc = "list"
  BY Zenon DEF ListTools
<1>1. CASE BuildFails
  BY <1>0, <1>1, BuildFailsKeeps, Zenon
<1>2. ASSUME NEW offer \in Offers,
             byTool' = [t \in DOMAIN byTool \cup (offer \ disabled) |->
                          IF t \in offer \ disabled THEN Profile ELSE byTool[t]],
             entries' = Append(entries, Profile), k' = k + 1,
             pc' = IF k < Len(Profiles) THEN "dial" ELSE "post",
             UNCHANGED open
      PROVE  Sessions'
  <2>1. Profile \in Range(Profiles) /\ Len(Profiles) \in Nat
    BY <1>0, ProfileActive, Zenon
  <2>2. entries' \in Seq(Range(Profiles)) /\ Range(entries') = Range(entries) \cup {Profile}
    BY <1>2, <2>1, AppendRange, SMTT(30) DEF Sessions
  <2>3. DOMAIN byTool' \subseteq RouterTools
    BY <1>2, ToolRuntimeAssumption, Zenon DEF Sessions
  <2>4. Range(byTool') \subseteq Range(byTool) \cup {Profile}
    <3> SUFFICES ASSUME NEW t \in DOMAIN byTool'
                 PROVE  byTool'[t] \in Range(byTool) \cup {Profile}
      BY Zenon DEF Range
    <3>1. CASE t \in offer \ disabled
      BY <1>2, <3>1, Zenon
    <3>2. CASE t \notin offer \ disabled
      BY <1>2, <3>2, Zenon DEF Range
    <3>3. QED
      BY <3>1, <3>2, Zenon
  <2>5. k' \in 1 .. Len(Profiles) + 1 /\ (pc' = "dial" => k' <= Len(Profiles))
    BY <1>0, <1>2, <2>1 DEF Sessions
  <2>6. open' = Range(entries')
    BY <1>0, <1>2, <2>2, Zenon DEF Sessions
  <2>7. pc' \in {"dial", "post"}
    BY <1>2, Zenon
  <2>8. QED
    BY <2>2, <2>3, <2>4, <2>5, <2>6, <2>7, Zenon DEF Sessions
<1>3. QED
  BY <1>1, <1>2, Zenon DEF ListTools

\* Every step keeps the sessions accounted for.
LEMMA SessionsStep ==
  ASSUME Inv, Sessions, [Next]_vars
  PROVE  Sessions'
<1>1. CASE Dial
  <2>1. CASE BuildFails
    BY <1>1, <2>1, BuildFailsKeeps, Zenon DEF Dial
  <2>2. CASE /\ open' = open \cup {Profile} /\ pc' = "list"
             /\ UNCHANGED <<k, entries, byTool>>
    <3>1. pc = "dial" /\ Profile' = Profile
      BY <1>1, <2>2, Zenon DEF Dial, Profile
    <3>2. Range(entries)' = Range(entries) /\ Range(byTool)' = Range(byTool)
      BY <2>2, Zenon
    <3>3. QED
      BY <2>2, <3>1, <3>2, Zenon DEF Sessions
  <2>3. QED
    BY <1>1, <2>1, <2>2, Zenon DEF Dial
<1>2. CASE ListToolsFails
  BY <1>2, BuildFailsKeeps, Zenon DEF ListToolsFails
<1>3. CASE ListTools
  BY <1>3, ListKeeps, Zenon
<1>4. CASE Return
  <2>1. pc = "closing" /\ pc' = "returned" /\ open' = open \ Range(entries)
        /\ UNCHANGED <<k, entries, byTool>>
    BY <1>4, Zenon DEF Return
  <2>2. open' = {}
    BY <2>1, Zenon DEF Sessions
  <2>3. QED
    BY <2>1, <2>2, Zenon DEF Sessions
<1>5. CASE UNCHANGED <<pc, registry>>
  BY <1>5, Zenon DEF registry, Sessions, Profile
<1>6. CASE UNCHANGED registry /\ pc \in Serving /\ pc' \in Serving \cup {"closing"}
  BY <1>6, Zenon DEF registry, Serving, Sessions
<1>7. QED
  BY <1>1, <1>2, <1>3, <1>4, <1>5, <1>6, Stages, Zenon

\* A step that stays outside the tools, with the calls and the count as they are.
LEMMA HistoryFrame ==
  ASSUME History, UNCHANGED <<i, n, orphans>>, pc # "tools", pc' # "tools",
         calls' \in Seq(Tools), Len(calls') <= MaxCalls
  PROVE  History'
BY Zenon DEF History


\* No more calls are the router's than the turn has.
LEMMA RouterCallsBounded ==
  ASSUME History
  PROVE  Cardinality(RouterCalls) \in Nat /\ Cardinality(RouterCalls) <= MaxCalls
<1>1. DOMAIN calls = 1 .. Len(calls) /\ Len(calls) \in Nat
  BY DEF History
<1>2. IsFiniteSet(1 .. Len(calls)) /\ Cardinality(1 .. Len(calls)) = Len(calls)
  <2>1. 1 \in Int /\ Len(calls) \in Int
    BY <1>1
  <2>2. /\ IsFiniteSet(1 .. Len(calls))
        /\ Cardinality(1 .. Len(calls)) = IF 1 > Len(calls) THEN 0 ELSE Len(calls) - 1 + 1
    BY <2>1, FS_Interval, Zenon
  <2>3. QED
    BY <1>1, <2>2
<1>3. RouterCalls \subseteq 1 .. Len(calls)
  BY <1>1, Zenon DEF RouterCalls
<1>4. IsFiniteSet(RouterCalls) /\ Cardinality(RouterCalls) <= Len(calls)
  BY <1>2, <1>3, FS_Subset, Zenon
<1>5. Cardinality(RouterCalls) \in Nat
  BY <1>4, FS_CardinalityType, Zenon
<1>6. QED
  BY <1>1, <1>4, <1>5, ToolRuntimeAssumption DEF History

\* Every step keeps the history answered.
LEMMA HistoryStep ==
  ASSUME Inv, History, [Next]_vars
  PROVE  History'
<1>0. /\ << >> \in Seq(Tools) /\ Len(<< >>) = 0 /\ Len(<< >>) <= MaxCalls
      /\ calls \in Seq(Tools) /\ Len(calls) <= MaxCalls /\ Len(calls) \in Nat
  <2>1. << >> \in Seq(Tools) /\ Len(<< >>) = 0
    OBVIOUS
  <2>2. 0 <= MaxCalls
    BY ToolRuntimeAssumption
  <2>3. calls \in Seq(Tools) /\ Len(calls) <= MaxCalls
    BY Zenon DEF History
  <2>4. Len(calls) \in Nat
    BY <2>3
  <2>5. QED
    BY <2>1, <2>2, <2>3, <2>4, Zenon
<1>1. CASE Dial \/ ListToolsFails \/ ListTools
  <2>1. UNCHANGED loop /\ pc # "tools" /\ pc' # "tools"
    BY <1>1, Zenon DEF Dial, ListToolsFails, ListTools, BuildFails
  <2>2. QED
    BY <1>0, <2>1, HistoryFrame, Zenon DEF loop
<1>2. CASE PostFails \/ OpenFails \/ TurnDone \/ TurnBroken \/ TurnAbandoned
  <2>1. UNCHANGED loop
    BY <1>2, Zenon DEF PostFails, OpenFails, TurnDone, TurnBroken, TurnAbandoned
  <2>2. pc # "tools" /\ pc' # "tools"
    BY <1>2, Zenon DEF PostFails, OpenFails, TurnDone, TurnBroken, TurnAbandoned, Pumping,
       TerminateInBand, StreamEnds
  <2>3. QED
    BY <1>0, <2>1, <2>2, HistoryFrame, Zenon DEF loop
<1>3. CASE PostAnswered
  <2>1. PICK m \in 0 .. MaxCalls : calls' \in [1 .. m -> Tools]
    BY <1>3, Zenon DEF PostAnswered, TurnsOfCalls
  <2>2. calls' \in Seq(Tools) /\ Len(calls') <= MaxCalls
    BY <2>1, ToolRuntimeAssumption
  <2>3. UNCHANGED <<i, n, orphans>> /\ pc # "tools" /\ pc' # "tools"
    BY <1>3, Zenon DEF PostAnswered
  <2>4. QED
    BY <2>2, <2>3, HistoryFrame, Zenon
<1>4. CASE OpenStream
  <2>1. UNCHANGED <<i, n, orphans>> /\ pc # "tools" /\ pc' # "tools" /\ calls' = << >>
    BY <1>4, Zenon DEF OpenStream
  <2>2. QED
    BY <1>0, <2>1, HistoryFrame, Zenon
<1>5. CASE Delta \/ Created
  <2>1. UNCHANGED loop
    BY <1>5, Zenon DEF Delta, Created
  <2>2. pc # "tools" /\ pc' # "tools"
    BY <1>5, Zenon DEF Delta, Created, Pumping
  <2>3. QED
    BY <1>0, <2>1, <2>2, HistoryFrame, Zenon DEF loop
<1>6. CASE Call
  <2>1. PICK t \in Tools : calls' = Append(calls, t)
    BY <1>6, Zenon DEF Call
  <2>2. Len(calls) < MaxCalls
    BY <1>6, Zenon DEF Call
  <2>3. calls' \in Seq(Tools) /\ Len(calls') = Len(calls) + 1
    BY <1>0, <2>1
  <2>4. Len(calls') <= MaxCalls
    BY <1>0, <2>2, <2>3, ToolRuntimeAssumption
  <2>5. UNCHANGED <<i, n, orphans>>
    BY <1>6, Zenon DEF Call
  <2>6. pc # "tools" /\ pc' # "tools"
    BY <1>6, Zenon DEF Call, Pumping
  <2>7. QED
    BY <2>3, <2>4, <2>5, <2>6, HistoryFrame, Zenon
<1>7. CASE Decide
  <2>1. UNCHANGED loop /\ pc = "decide"
    BY <1>7, Zenon DEF Decide
  <2>2. CASE pc' = "tools"
    <3>1. i # MaxIterations
      BY <1>7, <2>2, Zenon DEF Decide, Finalize, StreamEnds
    <3>2. i' < MaxIterations
      BY <2>1, <3>1, ToolRuntimeAssumption, SMTT(30) DEF History, loop
    <3>3. RouterCalls' = RouterCalls
      BY <1>7, <2>1, Zenon DEF Decide, loop, registry, RouterCalls, PassedOn
    <3>4. n' = 1 /\ n' <= Cardinality(RouterCalls) + 1
      BY <2>1, RouterCallsBounded DEF History, loop
    <3>5. QED
      BY <2>1, <2>2, <3>2, <3>3, <3>4, Zenon DEF History, loop
  <2>3. CASE pc' # "tools"
    BY <1>0, <2>1, <2>3, HistoryFrame, Zenon DEF loop
  <2>4. QED
    BY <2>2, <2>3, Zenon
<1>8. CASE RunTool
  <2>1. /\ pc = "tools" /\ pc' = "tools" /\ n <= Cardinality(RouterCalls) /\ n' = n + 1
        /\ UNCHANGED <<i, calls, orphans, byTool>>
    BY <1>8, Zenon DEF RunTool, registry
  <2>2. RouterCalls' = RouterCalls
    BY <2>1, Zenon DEF RouterCalls, PassedOn
  <2>3. n' \in Nat \ {0} /\ n' <= Cardinality(RouterCalls) + 1
    BY <2>1, RouterCallsBounded DEF History
  <2>4. QED
    BY <2>1, <2>2, <2>3, Zenon DEF History
<1>9. CASE ToolsDone
  <2>1. pc = "tools" /\ n' = 1
    BY <1>9, Zenon DEF ToolsDone
  <2>2. CASE MixedTurn
    <3>1. UNCHANGED <<i, calls, orphans>> /\ pc' # "tools"
      BY <1>9, <2>2, Zenon DEF ToolsDone, Finalize, StreamEnds
    <3>2. QED
      BY <2>1, <3>1, SMTT(30) DEF History
  <2>3. CASE ~MixedTurn
    <3>1. /\ i' = i + 1 /\ calls' = << >> /\ pc' = "post"
          /\ orphans' = orphans \cup {calls[p] : p \in DOMAIN calls \ RouterCalls}
      BY <1>9, <2>3, Zenon DEF ToolsDone
    <3>2. \A p \in DOMAIN calls : ~PassedOn(calls[p])
      BY <2>3, Zenon DEF MixedTurn, Range
    <3>3. DOMAIN calls \ RouterCalls = {}
      BY <3>2, Zenon DEF RouterCalls
    <3>4. orphans' = {}
      BY <3>1, <3>3, Zenon DEF History
    <3>5. i' \in 0 .. MaxIterations
      BY <2>1, <3>1, ToolRuntimeAssumption, SMTT(30) DEF History
    <3>6. calls' \in Seq(Tools) /\ Len(calls') <= MaxCalls
      BY <1>0, <3>1, Zenon
    <3>7. n' \in Nat \ {0}
      BY <2>1
    <3>8. QED
      BY <2>1, <3>1, <3>4, <3>5, <3>6, <3>7, ZenonT(30) DEF History
  <2>4. QED
    BY <2>2, <2>3, Zenon
<1>10. CASE Stopped \/ Return
  <2>1. UNCHANGED loop /\ pc # "tools" /\ pc' # "tools"
    BY <1>10, Zenon DEF Stopped, Return
  <2>2. QED
    BY <1>0, <2>1, HistoryFrame, Zenon DEF loop
<1>11. CASE CloseStop \/ BeatFails \/ HeartbeatExits \/ ClientLeaves \/ UNCHANGED vars
  <2>1. UNCHANGED <<loop, pc, byTool>>
    BY <1>11, Zenon DEF CloseStop, BeatFails, HeartbeatExits, ClientLeaves, vars, registry
  <2>2. RouterCalls' = RouterCalls
    BY <2>1, Zenon DEF loop, RouterCalls, PassedOn
  <2>3. QED
    BY <2>1, <2>2, Zenon DEF loop, History
<1>12. QED
  BY <1>1, <1>2, <1>3, <1>4, <1>5, <1>6, <1>7, <1>8, <1>9, <1>10, <1>11, Zenon DEF Next, Handle

-----------------------------------------------------------------------------
(***************************************************************************)
(* One response.  What one more frame does to the wire.                    *)
(***************************************************************************)
\* What Append does to the frames, position by position.
LEMMA AppendedFrames ==
  ASSUME NEW w \in Seq(Frames), NEW f \in Frames
  PROVE  /\ Append(w, f) \in Seq(Frames) /\ Append(w, f) # << >>
         /\ Len(w) \in Nat /\ Len(Append(w, f)) = Len(w) + 1
         /\ DOMAIN w = 1 .. Len(w) /\ DOMAIN Append(w, f) = 1 .. Len(w) + 1
         /\ \A p \in 1 .. Len(w) : Append(w, f)[p] = w[p]
         /\ Append(w, f)[Len(w) + 1] = f
OBVIOUS

\* A delta joins an open stream, in a chat one that has started.
LEMMA DeltaJoins ==
  ASSUME NEW w \in Seq(Frames), NEW kind, Ordered(w, kind), OpenEnded(w),
         kind = "chat" => HasStart(w)
  PROVE  /\ Append(w, "delta") \in Seq(Frames) /\ Append(w, "delta") # << >>
         /\ Ordered(Append(w, "delta"), kind) /\ OpenEnded(Append(w, "delta"))
         /\ HasStart(Append(w, "delta")) <=> HasStart(w)
<1> DEFINE v == Append(w, "delta")
<1>1. /\ v \in Seq(Frames) /\ v # << >>
      /\ Len(w) \in Nat /\ Len(v) = Len(w) + 1
      /\ DOMAIN w = 1 .. Len(w) /\ DOMAIN v = 1 .. Len(w) + 1
      /\ \A p \in 1 .. Len(w) : v[p] = w[p]
      /\ v[Len(w) + 1] = "delta"
  BY AppendedFrames, Zenon DEF Frames
<1> HIDE DEF v
<1>2. HasStart(v) <=> HasStart(w)
  BY <1>1 DEF HasStart
<1>3. OpenEnded(v)
  BY <1>1 DEF OpenEnded
<1>4. Ordered(v, kind)
  <2>1. \A p \in DOMAIN v : v[p] \in {"headers", "json", "error"} => p = 1
    BY <1>1 DEF Ordered
  <2>2. \A p, q \in DOMAIN v : v[p] = "start" /\ v[q] = "start" => p = q
    BY <1>1 DEF Ordered
  <2>3. \A p \in DOMAIN v : v[p] = "completed" \/ (kind = "chat" /\ v[p] = "delta") =>
          \E q \in DOMAIN v : v[q] = "start" /\ q < p
    <3> SUFFICES ASSUME NEW p \in DOMAIN v,
                        v[p] = "completed" \/ (kind = "chat" /\ v[p] = "delta")
                 PROVE  \E q \in DOMAIN v : v[q] = "start" /\ q < p
      BY Zenon
    <3>1. CASE p \in 1 .. Len(w)
      BY <1>1, <3>1 DEF Ordered
    <3>2. CASE p = Len(w) + 1
      BY <1>1, <3>2 DEF HasStart
    <3>3. QED
      BY <1>1, <3>1, <3>2
  <2>4. \A p \in DOMAIN v : v[p] \notin {"completed", "failed"}
    BY <1>3, Zenon DEF OpenEnded
  <2>5. QED
    BY <2>1, <2>2, <2>3, <2>4, Zenon DEF Ordered
<1>5. QED
  BY <1>1, <1>2, <1>3, <1>4, Zenon DEF v

\* The start joins an open stream that has none.
LEMMA StartJoins ==
  ASSUME NEW w \in Seq(Frames), NEW kind, Ordered(w, kind), OpenEnded(w), ~HasStart(w)
  PROVE  /\ Append(w, "start") \in Seq(Frames) /\ Append(w, "start") # << >>
         /\ Ordered(Append(w, "start"), kind) /\ OpenEnded(Append(w, "start"))
         /\ HasStart(Append(w, "start"))
         /\ Append(w, "start")[Len(Append(w, "start"))] = "start"
<1> DEFINE v == Append(w, "start")
<1>1. /\ v \in Seq(Frames) /\ v # << >>
      /\ Len(w) \in Nat /\ Len(v) = Len(w) + 1
      /\ DOMAIN w = 1 .. Len(w) /\ DOMAIN v = 1 .. Len(w) + 1
      /\ \A p \in 1 .. Len(w) : v[p] = w[p]
      /\ v[Len(w) + 1] = "start"
  BY AppendedFrames, Zenon DEF Frames
<1> HIDE DEF v
<1>2. HasStart(v)
  BY <1>1 DEF HasStart
<1>3. OpenEnded(v)
  BY <1>1 DEF OpenEnded
<1>4. Ordered(v, kind)
  <2>1. \A p \in DOMAIN v : v[p] \in {"headers", "json", "error"} => p = 1
    BY <1>1 DEF Ordered
  <2>2. \A p, q \in DOMAIN v : v[p] = "start" /\ v[q] = "start" => p = q
    BY <1>1 DEF HasStart
  <2>3. \A p \in DOMAIN v : v[p] = "completed" \/ (kind = "chat" /\ v[p] = "delta") =>
          \E q \in DOMAIN v : v[q] = "start" /\ q < p
    BY <1>1 DEF Ordered
  <2>4. \A p \in DOMAIN v : v[p] \notin {"completed", "failed"}
    BY <1>3, Zenon DEF OpenEnded
  <2>5. QED
    BY <2>1, <2>2, <2>3, <2>4, Zenon DEF Ordered
<1>5. QED
  BY <1>1, <1>2, <1>3, <1>4, Zenon DEF v

\* A terminal frame ends an open stream; completed needs its start.
LEMMA EndJoins ==
  ASSUME NEW w \in Seq(Frames), NEW kind, NEW e \in {"completed", "failed"},
         Ordered(w, kind), OpenEnded(w), e = "completed" => HasStart(w)
  PROVE  /\ Append(w, e) \in Seq(Frames) /\ Append(w, e) # << >>
         /\ Ordered(Append(w, e), kind) /\ Append(w, e)[Len(Append(w, e))] = e
<1> DEFINE v == Append(w, e)
<1>1. /\ v \in Seq(Frames) /\ v # << >>
      /\ Len(w) \in Nat /\ Len(v) = Len(w) + 1
      /\ DOMAIN w = 1 .. Len(w) /\ DOMAIN v = 1 .. Len(w) + 1
      /\ \A p \in 1 .. Len(w) : v[p] = w[p]
      /\ v[Len(w) + 1] = e
  <2>1. e \in Frames
    BY Zenon DEF Frames
  <2>2. QED
    BY <2>1, AppendedFrames, Zenon
<1> HIDE DEF v
<1>2. Ordered(v, kind)
  <2>1. \A p \in DOMAIN v : v[p] \in {"headers", "json", "error"} => p = 1
    BY <1>1 DEF Ordered
  <2>2. \A p, q \in DOMAIN v : v[p] = "start" /\ v[q] = "start" => p = q
    BY <1>1 DEF Ordered
  <2>3. \A p \in DOMAIN v : v[p] = "completed" \/ (kind = "chat" /\ v[p] = "delta") =>
          \E q \in DOMAIN v : v[q] = "start" /\ q < p
    <3> SUFFICES ASSUME NEW p \in DOMAIN v,
                        v[p] = "completed" \/ (kind = "chat" /\ v[p] = "delta")
                 PROVE  \E q \in DOMAIN v : v[q] = "start" /\ q < p
      BY Zenon
    <3>1. CASE p \in 1 .. Len(w)
      BY <1>1, <3>1 DEF Ordered
    <3>2. CASE p = Len(w) + 1
      BY <1>1, <3>2 DEF HasStart
    <3>3. QED
      BY <1>1, <3>1, <3>2
  <2>4. \A p \in DOMAIN v : v[p] \in {"completed", "failed"} => p = Len(v)
    BY <1>1 DEF OpenEnded
  <2>5. QED
    BY <2>1, <2>2, <2>3, <2>4, Zenon DEF Ordered
<1>3. QED
  BY <1>1, <1>2, Zenon DEF v

\* What Joined puts on the wire: one frame, or the start and a frame after it.
LEMMA JoinedIsAppended ==
  ASSUME wire \in Seq(Frames), NEW f \in Frames
  PROVE  /\ f # "delta" => Joined(<<f>>) = Append(wire, f)
         /\ Joined(<<"delta">>) \in {wire, Append(wire, "delta")}
         /\ wire = << >> => Joined(<<"delta">>) = Append(wire, "delta")
         /\ Joined(<<"start">> \o <<f>>) = Append(Append(wire, "start"), f)
         /\ Joined(<<"start">> \o << >>) = Append(wire, "start")
<1>1. \A g \in Frames : wire \o <<g>> = Append(wire, g)
  OBVIOUS
<1>2. "start" \in Frames /\ "delta" \in Frames
  BY Zenon DEF Frames
<1>3. \A g \in Frames : Head(<<g>>) = g /\ Tail(<<g>>) = << >> /\ <<g>> # << >>
  OBVIOUS
<1>4. wire \o << >> = wire
  OBVIOUS
<1>5. /\ <<"start">> \o << >> = <<"start">>
      /\ Head(<<"start">> \o <<f>>) = "start"
      /\ <<"start">> \o <<f>> = Append(<<"start">>, f)
  OBVIOUS
<1>6. wire \o (<<"start">> \o <<f>>) = Append(Append(wire, "start"), f)
  <2>1. wire \o Append(<<"start">>, f) = Append(wire \o <<"start">>, f)
    <3>1. <<"start">> \in Seq(Frames)
      BY <1>2
    <3>2. \A u \in Seq(Frames) : wire \o Append(u, f) = Append(wire \o u, f)
      OBVIOUS
    <3>3. QED
      BY <3>1, <3>2, Zenon
  <2>2. QED
    BY <1>1, <1>2, <1>5, <2>1, Zenon
<1>7. f # "delta" => Joined(<<f>>) = Append(wire, f)
  BY <1>1, <1>3, Zenon DEF Joined
<1>8. Joined(<<"delta">>) \in {wire, Append(wire, "delta")}
  BY <1>1, <1>2, <1>3, <1>4, Zenon DEF Joined
<1>9. wire = << >> => Joined(<<"delta">>) = Append(wire, "delta")
  BY <1>1, <1>2, Zenon DEF Joined
<1>10. Joined(<<"start">> \o <<f>>) = Append(Append(wire, "start"), f)
  BY <1>5, <1>6, Zenon DEF Joined
<1>11. Joined(<<"start">> \o << >>) = Append(wire, "start")
  BY <1>1, <1>2, <1>3, <1>5, Zenon DEF Joined
<1>12. QED
  BY <1>7, <1>8, <1>9, <1>10, <1>11, Zenon

\* What happens to frames: they are written, or the client or the latch
\* swallows them.
LEMMA EmitCases ==
  ASSUME NEW frames, Emit(frames), writeErr \in BOOLEAN, failed \in BOOLEAN,
         client \in {"here", "gone"}
  PROVE  /\ writeErr' \in BOOLEAN /\ failed' \in BOOLEAN
         /\ \/ frames = << >> /\ wire' = wire /\ writeErr' = writeErr
            \/ wire' = wire /\ (writeErr' \/ client = "gone")
            \/ wire' = Joined(frames) /\ client = "here" /\ ~writeErr /\ ~writeErr'
BY Zenon DEF Emit

\* The same for frames that carry the model.
LEMMA StampedCases ==
  ASSUME NEW known, NEW frames, Stamped(known, frames), writeErr \in BOOLEAN,
         failed \in BOOLEAN, client \in {"here", "gone"}
  PROVE  /\ writeErr' \in BOOLEAN /\ failed' \in BOOLEAN
         /\ \/ frames = << >> /\ wire' = wire /\ writeErr' = writeErr
            \/ wire' = wire /\ (writeErr' \/ client = "gone")
            \/ wire' = Joined(frames) /\ client = "here" /\ ~writeErr /\ ~writeErr'
BY EmitCases, Zenon DEF Stamped

\* The state a write starts from.
Writable ==
  /\ Flow(wire, started, writeErr, client, surface)
  /\ started \in BOOLEAN /\ writeErr \in BOOLEAN /\ failed \in BOOLEAN
  /\ client \in {"here", "gone"}

\* Frames that are swallowed leave a flow that may count as started.
LEMMA SwallowedFlows ==
  ASSUME Writable, wire' = wire, writeErr' \/ client = "gone"
  PROVE  /\ Flow(wire', TRUE, writeErr', client, surface)
         /\ Flow(wire', started, writeErr', client, surface)
         /\ Over(wire', writeErr', client, surface)
BY Zenon DEF Writable, Flow, Over

\* Content is written to a flow, in a chat to one that has started.
LEMMA DeltaFlows ==
  ASSUME Writable, NEW frames \in {<< >>, <<"delta">>}, Emit(frames),
         surface = "chat" => started
  PROVE  /\ Flow(wire', started, writeErr', client, surface)
         /\ writeErr' \in BOOLEAN /\ failed' \in BOOLEAN
<1>1. /\ writeErr' \in BOOLEAN /\ failed' \in BOOLEAN
      /\ \/ frames = << >> /\ wire' = wire /\ writeErr' = writeErr
         \/ wire' = wire /\ (writeErr' \/ client = "gone")
         \/ wire' = Joined(frames) /\ client = "here" /\ ~writeErr /\ ~writeErr'
  BY EmitCases, Zenon DEF Writable
<1>2. CASE wire' = wire /\ writeErr' = writeErr
  BY <1>1, <1>2, Zenon DEF Writable
<1>3. CASE wire' = wire /\ (writeErr' \/ client = "gone")
  BY <1>1, <1>3, SwallowedFlows, Zenon
<1>4. CASE wire' = Joined(frames) /\ client = "here" /\ ~writeErr /\ ~writeErr' /\ frames # << >>
  <2>1. "delta" \in Frames /\ frames = <<"delta">>
    BY <1>4, Zenon DEF Frames
  <2>2. wire \in Seq(Frames) /\ wire' \in {wire, Append(wire, "delta")}
    BY <1>4, <2>1, JoinedIsAppended, ZenonT(30) DEF Writable, Flow
  <2>3. CASE wire' = wire
    BY <1>1, <1>4, <2>3, Zenon DEF Writable
  <2>4. CASE wire' = Append(wire, "delta")
    <3>1. surface = "chat" => HasStart(wire)
      BY <1>4, Zenon DEF Writable, Flow
    <3>2. /\ wire' \in Seq(Frames) /\ wire' # << >>
          /\ Ordered(wire', surface) /\ OpenEnded(wire')
          /\ HasStart(wire') <=> HasStart(wire)
      BY <2>2, <2>4, <3>1, DeltaJoins, Zenon DEF Writable, Flow
    <3>3. QED
      BY <1>1, <1>4, <3>2, Zenon DEF Writable, Flow
  <2>5. QED
    BY <2>2, <2>3, <2>4, Zenon
<1>5. CASE frames = << >>
  <2>1. wire' = wire /\ writeErr' = writeErr
    BY <1>5, Zenon DEF Emit
  <2>2. QED
    BY <1>2, <2>1, Zenon
<1>6. QED
  BY <1>1, <1>2, <1>3, <1>4, <1>5, Zenon

\* The start and what follows it: the flow has started.
LEMMA StartFlows ==
  ASSUME Writable, NEW known, NEW content \in {<< >>, <<"delta">>},
         Stamped(known, WithStart(content))
  PROVE  /\ Flow(wire', TRUE, writeErr', client, surface)
         /\ writeErr' \in BOOLEAN /\ failed' \in BOOLEAN
<1>1. wire \in Seq(Frames) /\ "delta" \in Frames
  BY Zenon DEF Writable, Flow, Frames
<1>2. CASE started
  <2>1. WithStart(content) = content
    BY <1>2 DEF WithStart
  <2>2. CASE Emit(content)
    BY <1>2, <2>2, DeltaFlows, Zenon DEF Writable
  <2>3. CASE writeErr' = TRUE /\ UNCHANGED <<wire, failed>>
    BY <2>3, SwallowedFlows, Zenon DEF Writable
  <2>4. QED
    BY <2>1, <2>2, <2>3, Zenon DEF Stamped
<1>3. CASE ~started
  <2>1. WithStart(content) = <<"start">> \o content /\ WithStart(content) # << >>
    BY <1>3 DEF WithStart
  <2>2. /\ writeErr' \in BOOLEAN /\ failed' \in BOOLEAN
        /\ \/ wire' = wire /\ (writeErr' \/ client = "gone")
           \/ wire' = Joined(WithStart(content)) /\ client = "here" /\ ~writeErr'
    BY <2>1, StampedCases, Zenon DEF Writable
  <2>3. CASE wire' = wire /\ (writeErr' \/ client = "gone")
    BY <2>2, <2>3, SwallowedFlows, Zenon
  <2>4. CASE wire' = Joined(WithStart(content)) /\ client = "here" /\ ~writeErr'
    <3> DEFINE v == Append(wire, "start")
    <3>1. /\ v \in Seq(Frames) /\ v # << >>
          /\ Ordered(v, surface) /\ OpenEnded(v) /\ HasStart(v)
      BY <1>1, <1>3, StartJoins, Zenon DEF Writable, Flow
    <3>2. wire' = IF content = << >> THEN v ELSE Append(v, "delta")
      <4>1. CASE content = << >>
        BY <1>1, <2>1, <2>4, <4>1, JoinedIsAppended, ZenonT(30)
      <4>2. CASE content = <<"delta">>
        <5>1. Joined(<<"start">> \o <<"delta">>) = Append(v, "delta")
          BY <1>1, JoinedIsAppended, Zenon
        <5>2. <<"delta">> # << >>
          BY Zenon
        <5>3. QED
          BY <2>1, <2>4, <4>2, <5>1, <5>2, Zenon
      <4>3. QED
        BY <4>1, <4>2, Zenon
    <3> HIDE DEF v
    <3>3. /\ wire' \in Seq(Frames) /\ wire' # << >>
          /\ Ordered(wire', surface) /\ OpenEnded(wire') /\ HasStart(wire')
      BY <3>1, <3>2, DeltaJoins, Zenon
    <3>4. QED
      BY <2>2, <3>3, Zenon DEF Flow
  <2>5. QED
    BY <2>2, <2>3, <2>4, Zenon
<1>4. QED
  BY <1>2, <1>3, Zenon DEF Writable

\* The terminal frame, after the start: the response is over.
LEMMA EndFlows ==
  ASSUME Writable, NEW known, NEW e \in {"completed", "failed"},
         Stamped(known, WithStart(<<e>>))
  PROVE  Over(wire', writeErr', client, surface) /\ writeErr' \in BOOLEAN /\ failed' \in BOOLEAN
<1>1. wire \in Seq(Frames) /\ e \in Frames /\ e # "delta"
  BY Zenon DEF Writable, Flow, Frames
<1>2. WithStart(<<e>>) # << >> /\ WithStart(<<e>>) = IF started THEN <<e>> ELSE <<"start">> \o <<e>>
  <2>1. << >> \o <<e>> = <<e>> /\ <<e>> # << >> /\ <<"start">> \o <<e>> # << >>
    OBVIOUS
  <2>2. QED
    BY <2>1, Zenon DEF WithStart
<1>3. /\ writeErr' \in BOOLEAN /\ failed' \in BOOLEAN
      /\ \/ wire' = wire /\ (writeErr' \/ client = "gone")
         \/ wire' = Joined(WithStart(<<e>>)) /\ client = "here" /\ ~writeErr /\ ~writeErr'
  BY <1>2, StampedCases, Zenon DEF Writable
<1>4. CASE wire' = wire /\ (writeErr' \/ client = "gone")
  BY <1>3, <1>4, SwallowedFlows, Zenon
<1>5. CASE wire' = Joined(WithStart(<<e>>)) /\ client = "here" /\ ~writeErr /\ ~writeErr'
  <2> DEFINE v == IF started THEN wire ELSE Append(wire, "start")
  <2>1. wire' = Append(v, e)
    BY <1>1, <1>2, <1>5, JoinedIsAppended, ZenonT(30)
  <2>2. v \in Seq(Frames) /\ Ordered(v, surface) /\ OpenEnded(v) /\ HasStart(v)
    BY <1>1, <1>5, StartJoins, Zenon DEF Writable, Flow
  <2> HIDE DEF v
  <2>3. /\ wire' \in Seq(Frames) /\ wire' # << >>
        /\ Ordered(wire', surface) /\ wire'[Len(wire')] = e
    BY <2>1, <2>2, EndJoins, Zenon
  <2>4. QED
    BY <1>3, <2>3, Zenon DEF Over
<1>6. QED
  BY <1>3, <1>4, <1>5, Zenon

\* The error frame of a chat needs no start.
LEMMA FailFlows ==
  ASSUME Writable, Emit(<<"failed">>)
  PROVE  Over(wire', writeErr', client, surface) /\ writeErr' \in BOOLEAN /\ failed' \in BOOLEAN
<1>1. wire \in Seq(Frames) /\ "failed" \in Frames /\ <<"failed">> # << >>
  BY Zenon DEF Writable, Flow, Frames
<1>2. /\ writeErr' \in BOOLEAN /\ failed' \in BOOLEAN
      /\ \/ wire' = wire /\ (writeErr' \/ client = "gone")
         \/ wire' = Joined(<<"failed">>) /\ client = "here" /\ ~writeErr /\ ~writeErr'
  BY <1>1, EmitCases, Zenon DEF Writable
<1>3. CASE wire' = wire /\ (writeErr' \/ client = "gone")
  BY <1>2, <1>3, SwallowedFlows, Zenon
<1>4. CASE wire' = Joined(<<"failed">>) /\ client = "here" /\ ~writeErr /\ ~writeErr'
  <2>1. wire' = Append(wire, "failed")
    BY <1>1, <1>4, JoinedIsAppended, Zenon
  <2>2. /\ wire' \in Seq(Frames) /\ wire' # << >>
        /\ Ordered(wire', surface) /\ wire'[Len(wire')] = "failed"
    BY <1>1, <2>1, EndJoins, Zenon DEF Writable, Flow
  <2>3. QED
    BY <1>2, <2>2, Zenon DEF Over
<1>5. QED
  BY <1>2, <1>3, <1>4, Zenon

\* terminateWithError ends the response on either surface.
LEMMA TerminatedFlows ==
  ASSUME Writable, NEW known, TerminateInBand(known)
  PROVE  /\ Over(wire', writeErr', client, surface)
         /\ started' \in BOOLEAN /\ writeErr' \in BOOLEAN /\ failed' \in BOOLEAN
         /\ pc' = "stopping" /\ outcome' \in {"nil", "aborted"}
<1>1. pc' = "stopping" /\ outcome' \in {"nil", "aborted"}
  BY Zenon DEF TerminateInBand, StreamEnds
<1>2. CASE surface = "chat"
  BY <1>1, <1>2, FailFlows, Zenon DEF TerminateInBand, Writable
<1>3. CASE surface # "chat"
  <2>1. Stamped(known, WithStart(<<"failed">>)) /\ started' = TRUE
    BY <1>3, Zenon DEF TerminateInBand
  <2>2. "failed" \in {"completed", "failed"}
    BY Zenon
  <2>3. QED
    BY <1>1, <2>1, <2>2, EndFlows, Zenon
<1>4. QED
  BY <1>2, <1>3, Zenon

\* Responses of no frame and of one.
LEMMA ShortResponses ==
  ASSUME NEW kind, NEW f \in {"headers", "json", "error"}
  PROVE  /\ << >> \in Seq(Frames) /\ Ordered(<< >>, kind)
         /\ <<f>> \in Seq(Frames) /\ <<f>> # << >> /\ Ordered(<<f>>, kind) /\ ~HasStart(<<f>>)
         /\ Len(<<f>>) = 1 /\ <<f>>[1] = f /\ Append(<< >>, f) = <<f>>
         /\ f = "headers" => OpenEnded(<<f>>)
<1>1. f \in Frames
  BY Zenon DEF Frames
<1>2. DOMAIN <<f>> = {1} /\ <<f>>[1] = f /\ Len(<<f>>) = 1 /\ <<f>> # << >> /\ Append(<< >>, f) = <<f>>
  OBVIOUS
<1>3. Ordered(<<f>>, kind) /\ ~HasStart(<<f>>) /\ (f = "headers" => OpenEnded(<<f>>))
  BY <1>2, Zenon DEF Ordered, HasStart, OpenEnded
<1>4. Ordered(<< >>, kind)
  BY DEF Ordered
<1>5. << >> \in Seq(Frames) /\ <<f>> \in Seq(Frames)
  BY <1>1
<1>6. QED
  BY <1>2, <1>3, <1>4, <1>5, Zenon

\* The build of the registry writes nothing.
LEMMA BuildResponse ==
  ASSUME Inv, Response, Dial \/ ListToolsFails \/ ListTools
  PROVE  Response'
<1>1. pc \in {"dial", "list"} /\ UNCHANGED <<mode, stream, client, beat>>
  BY Zenon DEF Dial, ListToolsFails, ListTools
<1>2. \/ pc' \in {"dial", "list", "post"} /\ UNCHANGED outcome
      \/ pc' = "closing" /\ outcome' = "error"
  BY Zenon DEF Dial, ListToolsFails, ListTools, BuildFails
<1>3. QED
  BY <1>1, <1>2 DEF Response, mode, stream, beat, Running

\* A turn without streaming writes nothing.
LEMMA PostResponse ==
  ASSUME Inv, Response, PostFails \/ PostAnswered
  PROVE  Response'
<1>1. pc = "post" /\ ~streaming /\ UNCHANGED <<mode, stream, client, beat>>
  BY Zenon DEF PostFails, PostAnswered
<1>2. \/ pc' = "decide" /\ UNCHANGED outcome
      \/ pc' = "closing" /\ outcome' = "error"
  BY Zenon DEF PostFails, PostAnswered
<1>3. QED
  BY <1>1, <1>2 DEF Response, mode, stream, beat, Running

\* A stream that cannot be opened, before and after its headers.
LEMMA OpenFailsResponse ==
  ASSUME Inv, Response, OpenFails
  PROVE  Response'
<1>1. pc = "post" /\ streaming /\ UNCHANGED <<mode, named, client, heartbeat, stop>>
  BY Zenon DEF OpenFails
<1>2. CASE wire = << >>
  <2>1. pc' = "stopping" /\ outcome' = "error" /\ UNCHANGED <<started, writeErr, wire, failed>>
    BY <1>2, Zenon DEF OpenFails, HeadersWritten
  <2>2. QED
    BY <1>1, <1>2, <2>1 DEF Response, mode, Running
<1>3. CASE wire # << >>
  <2>1. Writable
    BY <1>1, <1>3, Zenon DEF Response, Writable
  <2>2. TerminateInBand(named)
    BY <1>3, Zenon DEF OpenFails, HeadersWritten
  <2>3. /\ Over(wire', writeErr', client, surface)
        /\ started' \in BOOLEAN /\ writeErr' \in BOOLEAN /\ failed' \in BOOLEAN
        /\ pc' = "stopping" /\ outcome' \in {"nil", "aborted"}
    BY <2>1, <2>2, TerminatedFlows, Zenon
  <2>4. QED
    BY <1>1, <2>3, Zenon DEF Response, mode, Running
<1>4. QED
  BY <1>2, <1>3, Zenon

\* The first stream writes the headers.
LEMMA OpenResponse ==
  ASSUME Inv, Response, OpenStream
  PROVE  Response'
<1>1. /\ pc = "post" /\ streaming /\ pc' = "pump" /\ calls' = << >>
      /\ UNCHANGED <<mode, named, started, writeErr, client, stop, failed, outcome>>
  BY Zenon DEF OpenStream
<1>2. CASE wire = << >>
  <2>1. wire' = <<"headers">> /\ heartbeat' = "waiting"
    BY <1>2, Zenon DEF OpenStream, HeadersWritten
  <2>2. ~started
    BY <1>1, <1>2, Zenon DEF Response, Flow
  <2>3. Flow(wire', started', writeErr', client', surface')
    BY <1>1, <2>1, <2>2, ShortResponses, Zenon DEF Flow
  <2>4. QED
    BY <1>1, <2>1, <2>3 DEF Response, mode, Running
<1>3. CASE wire # << >>
  <2>1. UNCHANGED <<wire, heartbeat>>
    BY <1>3, Zenon DEF OpenStream, HeadersWritten
  <2>2. Flow(wire', started', writeErr', client', surface')
    BY <1>1, <1>3, <2>1, Zenon DEF Response, mode
  <2>3. QED
    BY <1>1, <2>1, <2>2 DEF Response, mode, Running
<1>4. QED
  BY <1>2, <1>3, Zenon

\* What the events of a turn keep, given the flow that they leave.
LEMMA PumpFrame ==
  ASSUME Response, pc = "pump", pc' = "pump", streaming,
         UNCHANGED <<mode, client, heartbeat, stop, outcome>>,
         named' \in BOOLEAN, started' \in BOOLEAN, writeErr' \in BOOLEAN, failed' \in BOOLEAN,
         Flow(wire', started', writeErr', client, surface),
         surface = "chat" => calls' = << >> \/ started'
  PROVE  Response'
BY Zenon DEF Response, mode, Running

\* The events of a turn write to the flow.
LEMMA PumpResponse ==
  ASSUME Inv, Response, Delta \/ Created \/ Call
  PROVE  Response'
<1>1. pc = "pump" /\ ~writeErr /\ pc' = "pump" /\ UNCHANGED <<mode, client, heartbeat, stop, outcome>>
  <2>1. pc = "pump" /\ ~writeErr /\ pc' = pc
    BY Zenon DEF Delta, Created, Call, Pumping
  <2>2. UNCHANGED <<mode, client, heartbeat, stop, outcome>>
    BY ZenonT(30) DEF Delta, Created, Call
  <2>3. QED
    BY <2>1, <2>2, Zenon
<1>2. streaming /\ Writable /\ named \in BOOLEAN
  BY <1>1, Zenon DEF Response, Writable
<1>3. CASE Delta
  <2>1. named' \in BOOLEAN /\ UNCHANGED calls
    BY <1>2, <1>3, Zenon DEF Delta, loop
  <2>2. PICK content \in {<< >>, <<"delta">>} :
          IF surface = "chat" THEN Stamped(named', WithStart(content)) /\ started' = TRUE
          ELSE Emit(content) /\ UNCHANGED started
    BY <1>3, Zenon DEF Delta
  <2>3. CASE surface = "chat"
    <3>1. /\ Flow(wire', TRUE, writeErr', client, surface)
          /\ writeErr' \in BOOLEAN /\ failed' \in BOOLEAN
      BY <1>2, <2>2, <2>3, StartFlows, ZenonT(30)
    <3>2. started' = TRUE
      BY <2>2, <2>3, Zenon
    <3>3. QED
      BY <1>1, <1>2, <2>1, <3>1, <3>2, PumpFrame, Zenon
  <2>4. CASE surface # "chat"
    <3>1. /\ Flow(wire', started, writeErr', client, surface)
          /\ writeErr' \in BOOLEAN /\ failed' \in BOOLEAN
      BY <1>2, <2>2, <2>4, DeltaFlows, Zenon
    <3>2. started' = started /\ started' \in BOOLEAN
      BY <1>2, <2>2, <2>4, Zenon DEF Writable
    <3>3. QED
      BY <1>1, <1>2, <2>1, <2>4, <3>1, <3>2, PumpFrame
  <2>5. QED
    BY <2>3, <2>4, Zenon
<1>4. CASE Created
  <2>1. named' \in BOOLEAN /\ surface = "responses"
    BY <1>2, <1>4, ZenonT(30) DEF Created
  <2>2. CASE i = 0 /\ ~started
    <3>1. Stamped(named', <<"start">>) /\ started' = TRUE
      BY <1>4, <2>2, Zenon DEF Created
    <3>2. WithStart(<< >>) = <<"start">>
      BY <2>2 DEF WithStart
    <3>3. /\ Flow(wire', TRUE, writeErr', client, surface)
          /\ writeErr' \in BOOLEAN /\ failed' \in BOOLEAN
      BY <1>2, <3>1, <3>2, StartFlows, ZenonT(30)
    <3>4. QED
      BY <1>1, <1>2, <2>1, <3>1, <3>3, PumpFrame, Zenon
  <2>3. CASE ~(i = 0 /\ ~started)
    <3>1. UNCHANGED <<started, writeErr, wire, failed>>
      BY <1>4, <2>3, Zenon DEF Created
    <3>2. /\ Flow(wire', started', writeErr', client, surface)
          /\ started' \in BOOLEAN /\ writeErr' \in BOOLEAN /\ failed' \in BOOLEAN
      BY <1>2, <3>1, Zenon DEF Writable
    <3>3. QED
      BY <1>1, <1>2, <2>1, <3>2, PumpFrame, Zenon
  <2>4. QED
    BY <2>2, <2>3, Zenon
<1>5. CASE Call
  <2>1. (surface = "chat" => started) /\ UNCHANGED <<named, started>>
    BY <1>5, Zenon DEF Call
  <2>2. PICK frames \in {<< >>, <<"delta">>} : Emit(frames)
    BY <1>5, Zenon DEF Call
  <2>3. /\ Flow(wire', started, writeErr', client, surface)
        /\ writeErr' \in BOOLEAN /\ failed' \in BOOLEAN
    BY <1>2, <2>1, <2>2, DeltaFlows, Zenon
  <2>4. named' \in BOOLEAN /\ started' \in BOOLEAN
    BY <1>2, <2>1, Zenon DEF Writable
  <2>5. QED
    BY <1>1, <1>2, <2>1, <2>3, <2>4, PumpFrame, Zenon
<1>6. QED
  BY <1>3, <1>4, <1>5, Zenon

\* The end of a streamed turn.
LEMMA TurnResponse ==
  ASSUME Inv, Response, TurnDone \/ TurnBroken \/ TurnAbandoned
  PROVE  Response'
<1>1. pc = "pump" /\ UNCHANGED <<mode, loop, client, heartbeat, stop>>
  <2>1. pc = "pump"
    BY Zenon DEF TurnDone, TurnBroken, TurnAbandoned, Pumping
  <2>2. UNCHANGED <<mode, loop, client, heartbeat, stop>>
    BY Zenon DEF TurnDone, TurnBroken, TurnAbandoned, beat
  <2>3. QED
    BY <2>1, <2>2, Zenon
<1>2. streaming /\ Writable /\ named' \in BOOLEAN
  <2>1. streaming /\ Writable /\ named \in BOOLEAN
    BY <1>1, Zenon DEF Response, Writable
  <2>2. named' \in {named, TRUE}
    BY Zenon DEF TurnDone, TurnBroken, TurnAbandoned
  <2>3. QED
    BY <2>1, <2>2, Zenon
<1>3. CASE TurnDone
  <2>1. pc' = "decide" /\ UNCHANGED <<started, writeErr, wire, failed, outcome>>
    BY <1>3, Zenon DEF TurnDone, beat
  <2>2. QED
    BY <1>1, <1>2, <2>1 DEF Response, mode, loop, Running
<1>4. CASE TurnBroken \/ TurnAbandoned
  <2>1. \E known : TerminateInBand(known)
    BY <1>4, ZenonT(30) DEF TurnBroken, TurnAbandoned
  <2>2. /\ Over(wire', writeErr', client, surface)
        /\ started' \in BOOLEAN /\ writeErr' \in BOOLEAN /\ failed' \in BOOLEAN
        /\ pc' = "stopping" /\ outcome' \in {"nil", "aborted"}
    BY <1>2, <2>1, TerminatedFlows, Zenon
  <2>3. QED
    BY <1>1, <1>2, <2>2, Zenon DEF Response, mode, Running
<1>5. QED
  BY <1>3, <1>4, Zenon

\* The answer, streamed or not.
LEMMA FinalResponse ==
  ASSUME Inv, Response, pc \in {"decide", "tools"}, Finalize,
         UNCHANGED <<mode, named, client, heartbeat, stop>>
  PROVE  Response'
<1>1. CASE streaming
  <2>1. Writable
    BY <1>1, Zenon DEF Response, Writable
  <2>2. Stamped(named, WithStart(<<"completed">>)) /\ started' = TRUE /\ StreamEnds
    BY <1>1, Zenon DEF Finalize
  <2>3. "completed" \in {"completed", "failed"}
    BY Zenon
  <2>4. Over(wire', writeErr', client, surface) /\ writeErr' \in BOOLEAN /\ failed' \in BOOLEAN
    BY <2>1, <2>2, <2>3, EndFlows, Zenon
  <2>5. pc' = "stopping" /\ outcome' \in {"nil", "aborted"}
    BY <2>2, Zenon DEF StreamEnds
  <2>6. QED
    BY <1>1, <2>2, <2>4, <2>5, Zenon DEF Response, mode, Running
<1>2. CASE ~streaming
  <2>1. pc' = "closing" /\ UNCHANGED <<started, writeErr, failed>> /\ wire = << >>
    BY <1>2, Zenon DEF Finalize, Response, Running
  <2>2. CASE client = "here" /\ wire' = <<"json">> /\ outcome' = "nil"
    <3>1. "json" \in {"headers", "json", "error"}
      BY Zenon
    <3>2. Over(wire', writeErr', client, surface)
      BY <2>2, <3>1, ShortResponses, Zenon DEF Over
    <3>3. QED
      BY <1>2, <2>1, <2>2, <3>2, Zenon DEF Response, mode, Running
  <2>3. CASE client = "gone" /\ wire' = wire /\ outcome' \in {"nil", "error"}
    <3>1. Over(wire', writeErr', client, surface)
      BY <2>1, <2>3, ShortResponses, Zenon DEF Over
    <3>2. QED
      BY <1>2, <2>1, <2>3, <3>1, Zenon DEF Response, mode, Running
  <2>4. QED
    BY <1>2, <2>2, <2>3, Zenon DEF Finalize
<1>3. QED
  BY <1>1, <1>2, Zenon

\* Between the turns: progress, the answer, or the next turn.
LEMMA BetweenResponse ==
  ASSUME Inv, History, Response, Decide \/ RunTool \/ ToolsDone
  PROVE  Response'
<1>1. pc \in {"decide", "tools"} /\ UNCHANGED <<mode, named, client, heartbeat, stop>>
  BY Zenon DEF Decide, RunTool, ToolsDone
<1>2. CASE Finalize
  BY <1>1, <1>2, FinalResponse, Zenon
<1>3. CASE Decide /\ ~Finalize
  <2>1. UNCHANGED <<started, writeErr, wire, failed, calls>>
    BY <1>3, Zenon DEF Decide, loop
  <2>2. \/ streaming /\ writeErr /\ pc' = "stopping" /\ outcome' = "nil"
        \/ pc' = "tools" /\ UNCHANGED outcome
    BY <1>3, Zenon DEF Decide
  <2>3. CASE streaming /\ writeErr /\ pc' = "stopping" /\ outcome' = "nil"
    <3>1. Over(wire', writeErr', client, surface)
      BY <1>1, <2>1, <2>3, Zenon DEF Response, Flow, Over
    <3>2. QED
      BY <1>1, <2>1, <2>3, <3>1, ZenonT(30) DEF Response, mode, Running
  <2>4. CASE pc' = "tools" /\ UNCHANGED outcome
    BY <1>1, <2>1, <2>4, SMTT(30) DEF Response, mode, Running
  <2>5. QED
    BY <2>2, <2>3, <2>4, Zenon
<1>4. CASE RunTool
  <2>1. /\ pc = "tools" /\ pc' = "tools" /\ n <= Cardinality(RouterCalls)
        /\ UNCHANGED <<calls, started, outcome>>
    BY <1>4, Zenon DEF RunTool
  <2>2. CASE UNCHANGED <<writeErr, wire, failed>>
    BY <1>1, <2>1, <2>2, SMTT(30) DEF Response, mode, Running
  <2>3. CASE streaming /\ Emit(<<"delta">>)
    <3>1. RouterCalls # {}
      <4>1. n \in Nat \ {0}
        BY Zenon DEF History
      <4>2. Cardinality({}) = 0
        BY FS_EmptySet, Zenon
      <4>3. QED
        BY <2>1, <4>1, <4>2
    <3>2. calls # << >>
      BY <3>1 DEF RouterCalls
    <3>3. (surface = "chat" => started) /\ Writable
      BY <2>1, <2>3, <3>2, Zenon DEF Response, Writable
    <3>4. /\ Flow(wire', started, writeErr', client, surface)
          /\ writeErr' \in BOOLEAN /\ failed' \in BOOLEAN
      BY <2>3, <3>3, DeltaFlows, Zenon
    <3>5. QED
      BY <1>1, <2>1, <2>3, <3>4, Zenon DEF Response, mode, Running
  <2>4. QED
    BY <1>4, <2>2, <2>3, Zenon DEF RunTool
<1>5. CASE ToolsDone /\ ~Finalize
  <2>1. pc = "tools" /\ pc' = "post" /\ UNCHANGED <<started, writeErr, wire, failed, outcome>>
    BY <1>5, Zenon DEF ToolsDone
  <2>2. QED
    BY <1>1, <2>1 DEF Response, mode, Running
<1>6. QED
  BY <1>2, <1>3, <1>4, <1>5, Zenon

\* The end of the request, the heartbeat and the client.
LEMMA EndResponse ==
  ASSUME Inv, Response, CloseStop \/ Stopped \/ Return \/ BeatFails \/ HeartbeatExits \/ ClientLeaves
  PROVE  Response'
<1>1. CASE CloseStop
  BY <1>1, SMTT(30) DEF CloseStop, Response, mode, stream, loop, Running
<1>2. CASE Stopped
  BY <1>2, SMTT(30) DEF Stopped, Response, mode, stream, loop, beat, Running
<1>3. CASE BeatFails \/ HeartbeatExits
  <2>1. UNCHANGED <<mode, pc, loop, stream, client, stop, outcome>> /\ heartbeat' = "done"
    BY <1>3, Zenon DEF BeatFails, HeartbeatExits
  <2>2. failed' \in BOOLEAN
    BY <1>3, Zenon DEF BeatFails, HeartbeatExits, Response
  <2>3. QED
    BY <2>1, <2>2, SMTT(30) DEF Response, mode, stream, loop, Running
<1>4. CASE ClientLeaves
  <2>1. /\ UNCHANGED <<surface, streaming, disabled, pc, calls, named, started, writeErr, wire>>
        /\ UNCHANGED <<heartbeat, stop, failed, outcome>> /\ client' = "gone"
    BY <1>4, Zenon DEF ClientLeaves, mode, stream, loop, beat
  <2>2. /\ Flow(wire, started, writeErr, client, surface) =>
             Flow(wire, started, writeErr, "gone", surface)
        /\ Over(wire, writeErr, client, surface) => Over(wire, writeErr, "gone", surface)
    BY Zenon DEF Flow, Over
  <2>3. QED
    BY <2>1, <2>2 DEF Response, Running
<1>5. CASE Return
  <2>1. /\ pc = "closing" /\ pc' = "returned"
        /\ UNCHANGED <<mode, named, started, writeErr, client, beat, outcome>>
        /\ wire' = IF outcome = "error" /\ client = "here" THEN Append(wire, "error") ELSE wire
    BY <1>5, Zenon DEF Return
  <2>2. "error" \in {"headers", "json", "error"} /\ client \in {"here", "gone"}
    BY Zenon DEF Response
  <2>3. Over(wire', writeErr, client, surface)
    <3>1. CASE outcome = "error"
      <4>1. wire = << >>
        BY <2>1, <3>1, Zenon DEF Response
      <4>2. CASE client = "here"
        <5>1. wire' = <<"error">>
          BY <2>1, <2>2, <3>1, <4>1, <4>2, ShortResponses, Zenon
        <5>2. QED
          BY <2>2, <5>1, ShortResponses, Zenon DEF Over
      <4>3. CASE client = "gone"
        BY <2>1, <2>2, <4>1, <4>3, ShortResponses, Zenon DEF Over
      <4>4. QED
        BY <2>2, <4>2, <4>3, Zenon
    <3>2. CASE outcome # "error"
      BY <2>1, <3>2, Zenon DEF Response
    <3>3. QED
      BY <3>1, <3>2, Zenon
  <2>4. QED
    BY <2>1, <2>3 DEF Response, mode, beat, Running
<1>6. QED
  BY <1>1, <1>2, <1>3, <1>4, <1>5, Zenon

-----------------------------------------------------------------------------
(***************************************************************************)
(* The whole invariant.                                                    *)
(***************************************************************************)
\* It holds when Handle is called, with at least one profile.
LEMMA FullInit == Init => FullInv
<1> SUFFICES ASSUME Init PROVE FullInv
  BY Zenon
<1>1. Len(Profiles) \in Nat /\ Len(Profiles) >= 1
  BY ToolRuntimeAssumption
<1>2. Sessions
  <2>1. Range(<< >>) = {} /\ DOMAIN << >> = {}
    BY DEF Range
  <2>2. QED
    BY <1>1, <2>1 DEF Init, Sessions
<1>3. History
  BY ToolRuntimeAssumption DEF Init, History
<1>4. Response
  BY ZenonT(30) DEF Init, Response
<1>5. QED
  BY <1>2, <1>3, <1>4, InvInit, Zenon DEF FullInv

\* Every step keeps it.
LEMMA FullStep == FullInv /\ [Next]_vars => FullInv'
<1> SUFFICES ASSUME FullInv, [Next]_vars PROVE FullInv'
  BY Zenon
<1>1. Inv' /\ Sessions' /\ History'
  BY InvStep, SessionsStep, HistoryStep, Zenon DEF FullInv
<1>2. CASE Next
  BY <1>1, <1>2, BuildResponse, PostResponse, OpenFailsResponse, OpenResponse, PumpResponse,
     TurnResponse, BetweenResponse, EndResponse DEF FullInv, Next, Handle
<1>3. CASE UNCHANGED vars
  <2>1. /\ UNCHANGED <<surface, streaming, disabled, pc, calls, named, started, writeErr, wire>>
        /\ UNCHANGED <<heartbeat, stop, failed, outcome, client>>
    BY <1>3, Zenon DEF vars, mode, stream, loop, beat
  <2>2. Response'
    <3>1. Response
      BY Zenon DEF FullInv
    <3>2. /\ disabled' \in DisabledSets /\ streaming' \in BOOLEAN
          /\ named' \in BOOLEAN /\ started' \in BOOLEAN /\ writeErr' \in BOOLEAN
          /\ client' \in {"here", "gone"} /\ stop' \in BOOLEAN /\ failed' \in BOOLEAN
          /\ heartbeat' \in {"off", "waiting", "done"}
          /\ outcome' \in {"none", "nil", "error", "aborted"}
      BY <2>1, <3>1, Zenon DEF Response
    <3>3. /\ heartbeat' = "waiting" =>
               streaming' /\ pc' \in {"post", "pump", "decide", "tools", "stopping"}
          /\ pc' = "pump" => streaming'
          /\ pc' \in {"dial", "list"} => wire' = << >> /\ ~started'
          /\ ~streaming' /\ pc' \in Running => wire' = << >>
      BY <2>1, <3>1, Zenon DEF Response
    <3>4. /\ streaming' /\ pc' = "post" =>
               Flow(wire', started', writeErr', client', surface') \/ (wire' = << >> /\ ~started')
          /\ streaming' /\ pc' \in {"pump", "decide", "tools"} =>
               Flow(wire', started', writeErr', client', surface')
          /\ streaming' /\ surface' = "chat" /\ pc' \in {"pump", "decide", "tools"} =>
               calls' = << >> \/ started'
      BY <2>1, <3>1, Zenon DEF Response
    <3>5. /\ pc' \in {"stopping", "closing"} =>
               IF outcome' = "error" THEN wire' = << >>
               ELSE Over(wire', writeErr', client', surface')
          /\ pc' = "returned" => Over(wire', writeErr', client', surface')
      BY <2>1, <3>1, Zenon DEF Response
    <3>6. QED
      BY <3>2, <3>3, <3>4, <3>5, Zenon DEF Response
  <2>3. QED
    BY <1>1, <2>2, Zenon DEF FullInv
<1>4. QED
  BY <1>2, <1>3, Zenon

(***************************************************************************)
(* A request leaves nothing open, whatever fails: every session it dialled *)
(* is closed once Handle returns, the open ones are those that its tools   *)
(* are routed over, and every call in the history it posts has an output   *)
(* (buildSessionRegistry, CloseAll, runToolLoop).                          *)
(***************************************************************************)
THEOREM RequestLeavesNothingOpen == Spec => []NothingLeftOpen
<1>1. FullInv => NothingLeftOpen
  <2> SUFFICES ASSUME FullInv PROVE NothingLeftOpen
    BY Zenon
  <2>1. SessionsAccounted
    BY Zenon DEF FullInv, Sessions, SessionsAccounted
  <2>2. HistoryAnswered
    BY Zenon DEF FullInv, History, HistoryAnswered
  <2>3. n \in 1 .. MaxCalls + 1
    BY RouterCallsBounded, ToolRuntimeAssumption DEF FullInv, History
  <2>4. bills \in Seq(Nat)
    <3>1. reported \in Nat /\ (bills = << >> \/ bills = <<reported>>)
      BY Zenon DEF FullInv, Inv, Account, Billed
    <3>2. << >> \in Seq(Nat) /\ (reported \in Nat => <<reported>> \in Seq(Nat))
      OBVIOUS
    <3>3. QED
      BY <3>1, <3>2, Zenon
  <2>5. open \subseteq Range(Profiles) /\ Range(byTool) \subseteq Range(Profiles)
    <3>1. Range(entries) \subseteq Range(Profiles)
      BY DEF FullInv, Sessions, Range
    <3>2. pc = "list" => Profile \in Range(Profiles)
      BY ProfileActive, Zenon DEF FullInv
    <3>3. QED
      BY <3>1, <3>2, Zenon DEF FullInv, Inv, Account, Running, Ending, Sessions
  <2>6. TypeOK
    <3>1. pc \in {"dial", "list", "post", "pump", "decide", "tools",
                  "stopping", "closing", "returned"}
      BY Zenon DEF FullInv, Inv, Account, Running, Ending
    <3>2. wire \in Seq(Frames) /\ turn \in Nat /\ total \in Nat /\ reported \in Nat
          /\ surface \in {"chat", "responses"}
      BY Zenon DEF FullInv, Inv, Account, HeadersFirst
    <3>3. /\ k \in 1 .. Len(Profiles) + 1 /\ entries \in Seq(Range(Profiles))
          /\ DOMAIN byTool \subseteq RouterTools
      BY Zenon DEF FullInv, Sessions
    <3>4. i \in 0 .. MaxIterations /\ calls \in Seq(Tools) /\ orphans \subseteq Tools
      BY Zenon DEF FullInv, History
    <3>5. /\ disabled \in DisabledSets /\ streaming \in BOOLEAN
          /\ named \in BOOLEAN /\ started \in BOOLEAN /\ writeErr \in BOOLEAN
          /\ client \in {"here", "gone"} /\ stop \in BOOLEAN /\ failed \in BOOLEAN
          /\ heartbeat \in {"off", "waiting", "done"}
          /\ outcome \in {"none", "nil", "error", "aborted"}
      BY Zenon DEF FullInv, Response
    <3>6. QED
      BY <2>3, <2>4, <2>5, <3>1, <3>2, <3>3, <3>4, <3>5, Zenon DEF TypeOK
  <2>7. QED
    BY <2>1, <2>2, <2>6, Zenon DEF NothingLeftOpen
<1>2. QED
  BY <1>1, FullInit, FullStep, PTL DEF Spec

(***************************************************************************)
(* The client of a tool request sees one response, whatever the turns, the *)
(* writes and the client do (ensureRoleEmitted, ensureResponseCreated,     *)
(* terminateWithError, StreamAbortedError, heartbeatWriter.Stop).          *)
(***************************************************************************)
THEOREM ClientSeesOneResponse == Spec => []OneResponse
<1>1. FullInv => OneResponse
  <2> SUFFICES ASSUME FullInv PROVE OneResponse
    BY Zenon
  <2>1. wire \in Seq(Frames) /\ DOMAIN wire = 1 .. Len(wire) /\ Len(wire) \in Nat
    BY DEF FullInv, Inv, HeadersFirst
  <2>2. pc \in Running \cup Ending
    BY Zenon DEF FullInv, Inv, Account
  <2>3. Ordered(wire, surface)
    <3>1. Ordered(<< >>, surface)
      BY ShortResponses, Zenon
    <3>2. QED
      BY <2>2, <3>1, Zenon DEF FullInv, Response, Flow, Over, Running, Ending
  <2>4. (pc = "returned" /\ client = "here" /\ ~writeErr) => Ended
    <3> SUFFICES ASSUME pc = "returned", client = "here", ~writeErr PROVE Ended
      BY Zenon
    <3>1. Over(wire, writeErr, client, surface)
      BY Zenon DEF FullInv, Response
    <3>2. wire # << >> /\ wire[Len(wire)] \in {"completed", "failed", "json", "error"}
      BY <3>1, Zenon DEF Over
    <3>3. QED
      BY <3>2, Zenon DEF Ended
  <2>5. pc \in {"closing", "returned"} => heartbeat # "waiting"
    BY Zenon DEF FullInv, Response
  <2>6. {p \in DOMAIN wire : wire[p] \in {"headers", "json", "error"}} \subseteq {1}
    BY <2>3, Zenon DEF Ordered
  <2>7. \A p, q \in {r \in DOMAIN wire : wire[r] \in {"start"}} : p = q
    BY <2>3, Zenon DEF Ordered
  <2>8. {p \in DOMAIN wire : wire[p] \in {"completed", "failed"}} \subseteq {Len(wire)}
    BY <2>3, Zenon DEF Ordered
  <2>9. \A p \in {r \in DOMAIN wire :
                    wire[r] \in IF surface = "chat" THEN {"delta", "completed"}
                                                    ELSE {"completed"}} :
          \E q \in {r \in DOMAIN wire : wire[r] \in {"start"}} : q < p
    BY <2>3, Zenon DEF Ordered
  <2>10. QED
    BY <2>4, <2>5, <2>6, <2>7, <2>8, <2>9, Zenon DEF OneResponse
<1>2. QED
  BY <1>1, FullInit, FullStep, PTL DEF Spec
=============================================================================
