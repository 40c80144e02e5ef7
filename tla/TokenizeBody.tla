----------------------------- MODULE TokenizeBody ----------------------------
(***************************************************************************)
(* Counting the tokens of a Responses request (input_tokens.go): its input  *)
(* items become the chat messages the engine's /tokenize endpoint counts.   *)
(* Consecutive function calls become one assistant message.                 *)
(*                                                                         *)
(* An item is a record [type, role, id, parts, lacks]: id stands for what it *)
(* says, parts for the types of its content, lacks for the fields it should *)
(* have and has not.  A message is a record [role, content, calls]; content *)
(* is <<>> where the code sends null.                                       *)
(***************************************************************************)
EXTENDS Naturals, Sequences

responsesContent(parts) ==
  parts \subseteq {"string", "input_text", "output_text", "input_image", "refusal"}

responsesMessage(item) ==
  item.role # "" /\ "content" \notin item.lacks /\ responsesContent(item.parts)

responsesFunctionCall(item) == item.lacks \cap {"call_id", "name", "arguments"} = {}

responsesFunctionCallOutput(item) ==
  item.lacks \cap {"call_id", "output"} = {} /\ responsesContent(item.parts)

Supported(item) ==
  \/ item.type \in {"", "message"} /\ responsesMessage(item)
  \/ item.type = "function_call" /\ responsesFunctionCall(item)
  \/ item.type = "function_call_output" /\ responsesFunctionCallOutput(item)

\* Only function tools can be counted.
responsesTools(params) == "other_tools" \notin params

chatTokenizeBody(params) == "no_messages" \notin params

\* Stored conversations cannot be counted; tools the model may not call are
\* not looked at.
responsesTokenizeBody(params, items) ==
  /\ params \cap {"conversation", "previous_response_id", "no_input"} = {}
  /\ \A i \in DOMAIN items : Supported(items[i])
  /\ "tool_choice_none" \notin params => responsesTools(params)

\* Only a message that is nothing but calls takes another one.
appendFunctionCall(messages, call) ==
  IF /\ messages # <<>>
     /\ messages[Len(messages)].role = "assistant"
     /\ messages[Len(messages)].content = <<>>
     /\ messages[Len(messages)].calls # <<>>
  THEN [messages EXCEPT ![Len(messages)].calls = Append(@, call)]
  ELSE Append(messages, [role |-> "assistant", content |-> <<>>, calls |-> <<call>>])

AppendItem(messages, item) ==
  CASE item.type = "function_call" -> appendFunctionCall(messages, item.id)
    [] item.type = "function_call_output" ->
         Append(messages, [role |-> "tool", content |-> <<item.id>>, calls |-> <<>>])
    [] OTHER ->
         Append(messages, [role |-> item.role, content |-> <<item.id>>, calls |-> <<>>])

responsesMessages(items) ==
  LET upto[i \in 0..Len(items)] ==
        IF i = 0 THEN <<>> ELSE AppendItem(upto[i - 1], items[i])
  IN  upto[Len(items)]

\* What the conversation says, in order: the reference for the conversion.
Said(messages) ==
  LET upto[i \in 0..Len(messages)] ==
        IF i = 0 THEN <<>> ELSE upto[i - 1] \o messages[i].content \o messages[i].calls
  IN  upto[Len(messages)]
==============================================================================
