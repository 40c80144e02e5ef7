------------------------------ MODULE FileInputs -----------------------------
(***************************************************************************)
(* Attached files (responses_file_inputs.go, manager/file_inputs.go): a     *)
(* content part that carries a file is replaced by text or page images, in  *)
(* place, before the request leaves the router.                             *)
(*                                                                         *)
(* A part is a record [kind, holder, data, mode, looks].  kind says whether *)
(* it is a file, a picture or something else; holder what stands where the  *)
(* file's data should be; data what that data is; mode its tinfoil_mode;    *)
(* looks which of the tests for plain text it passes.                       *)
(***************************************************************************)
EXTENDS Naturals, Sequences

Kinds == {"other", "image", "file"}
Holders == {"missing", "by_id", "no_data", "inline"}
Payloads == {"base64", "unpadded", "data_url", "data_url_cut", "data_url_plain", "empty", "broken"}
ConversionModes == {"text", "vision", "images", "raw", "vlm"}
Modes == ConversionModes \cup {"absent", "null", "auto", "unknown", "not_string"}
Looks == {"utf8", "text_type", "text_extension"}

Part == [kind : Kinds, holder : Holders, data : Payloads, mode : Modes, looks : SUBSET Looks]

\* <<>> for an error, <<"">> where the router is free to choose.
readTinfoilModeOverride(part) ==
  CASE part.mode \in {"absent", "null", "auto"} -> <<"">>
    [] part.mode \in ConversionModes -> <<part.mode>>
    [] OTHER -> <<>>

decodeBase64Payload(data) == data \notin {"empty", "broken"}

\* A data URL must have a comma and announce base64.
decodeFileInput(data) ==
  data \notin {"data_url_cut", "data_url_plain"} /\ decodeBase64Payload(data)

\* A chat part wraps its file in an object, a Responses part is that object.
HasHolder(path, part) == path = "chat" => part.holder # "missing"

\* decodeChatCompletionsFilePart and decodeResponsesInputFilePart.
Decodes(path, part) ==
  /\ HasHolder(path, part)
  /\ part.holder = "inline"
  /\ readTinfoilModeOverride(part) # <<>>
  /\ decodeFileInput(part.data)

\* Valid UTF-8 whose declared type or extension says text; a bare payload
\* declares no type.
isInlineTextFile(part) ==
  /\ "utf8" \in part.looks
  /\ \/ part.data = "data_url" /\ "text_type" \in part.looks
     \/ "text_extension" \in part.looks

MutResolveFileMode(part, visionCapable) ==
  LET override == readTinfoilModeOverride(part)[1]
  IN  CASE isInlineTextFile(part) -> <<"inline">>
        [] ~isInlineTextFile(part) /\ override # "" -> <<override>>
        [] OTHER -> IF visionCapable THEN <<"images">> ELSE <<"text">>

\* <<how the file is rendered>>, or <<>> where the code reports that page
\* images need a vision-capable model.
ResolveFileMode(part, visionCapable) ==
  LET override == readTinfoilModeOverride(part)[1]
  IN  CASE isInlineTextFile(part) -> <<"inline">>
        [] ~isInlineTextFile(part) /\ override # "" ->
             IF override = "images" /\ ~visionCapable THEN <<>> ELSE <<override>>
        [] OTHER -> IF visionCapable THEN <<"images">> ELSE <<"text">>

\* renderDecodedFile: the parts that stand for the i-th part of the message;
\* pages says, for each page of the converted document, whether it has an image.
Rendered(i, mode, pages) ==
  LET item(shape) == [of |-> i, shape |-> shape]
      page(p) == IF pages[p] THEN <<item("text"), item("image")>> ELSE <<item("text")>>
      upto[p \in 0..Len(pages)] == IF p = 0 THEN <<item("text")>> ELSE upto[p - 1] \o page(p)
  IN  IF mode = "images" THEN upto[Len(pages)] ELSE <<item("text")>>

\* parseDocUploadResponse: what a 200 of the converter must contain.
Converted(mode, pages, text) == IF mode = "images" THEN pages # <<>> ELSE text
==============================================================================
