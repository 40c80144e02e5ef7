----------------------------- MODULE Citations -----------------------------
(***************************************************************************)
(* Links in the text a model writes (toolruntime/citations/): the emitter  *)
(* that lets a text through piece by piece and holds back what may still   *)
(* become a link (stream.go), and what the router does with a whole text   *)
(* (state.go).                                                             *)
(*                                                                         *)
(* A text is a sequence of runes.  "<" and ">" stand for the fullwidth     *)
(* brackets 3010 and 3011, "_" for white space, "h" for the scheme and the *)
(* host of a URL, "1" for the cursor of a Harmony citation, "x" and "t"    *)
(* for everything else.  One source can be recorded: cursor 1, URL "h",    *)
(* title "t".                                                              *)
(*                                                                         *)
(* An emitter keeps the runes that are not out yet and counts those that   *)
(* are.  An annotation is the pair of rune offsets of a link's label.      *)
(***************************************************************************)
EXTENDS Integers, Sequences, FiniteSets

CONSTANT MaxLinkBufferRunes

ASSUME CitationsAssumption == MaxLinkBufferRunes \in Nat

Runes   == {"[", "]", "<", ">", "(", ")", "_", "h", "1", "x", "t"}
Openers == {"[", "<"}
Closers == {"]", ">"}

Source == [url |-> <<"h">>, title |-> <<"t">>]

\* The first place at or after from that holds one of the runes; 0 if none does.
FirstOf(text, from, runes) ==
  LET places == {p \in from .. Len(text) : text[p] \in runes}
  IN  IF places = {} THEN 0 ELSE CHOOSE p \in places : \A q \in places : p <= q

IsSupportedURL(url) == url # << >> /\ Head(url) = "h"

-----------------------------------------------------------------------------
(***************************************************************************)
(* Harmony citations become links when their source is recorded.           *)
(***************************************************************************)
ResolveHarmonyCitations(text, recorded) ==
  LET link == <<"[">> \o Source.title \o <<"]", "(">> \o Source.url \o <<")">>
      from[i \in 1 .. Len(text) + 1] ==
        IF i > Len(text) THEN << >>
        ELSE IF i + 2 <= Len(text) /\ SubSeq(text, i, i + 2) = <<"<", "1", ">">> THEN link \o from[i + 3]
        ELSE <<text[i]>> \o from[i + 1]
  IN  IF recorded THEN from[1] ELSE text

-----------------------------------------------------------------------------
(***************************************************************************)
(* MatchMarkdownLink at an opening bracket: a link, no link, or the        *)
(* beginning of what may become one.                                       *)
(***************************************************************************)
LinkOutcome(text, named, label, end) ==
  IF label = 0 \/ (named /\ label = Len(text)) THEN "incomplete"
  ELSE IF ~named \/ label = Len(text) \/ text[label + 1] # "(" THEN "invalid"
  ELSE IF end = 0 THEN "incomplete"
  ELSE IF text[end] = ")" /\ IsSupportedURL(SubSeq(text, label + 2, end - 1)) THEN "match"
  ELSE "invalid"

LinkWithLabel(text, open, label) ==
  LET end == IF label = 0 THEN 0 ELSE FirstOf(text, label + 2, {")", "_"})
  IN  [outcome |-> LinkOutcome(text, label > open + 1, label, end), label |-> label, end |-> end]

MatchMarkdownLink(text, open) == LinkWithLabel(text, open, FirstOf(text, open + 1, Closers))

NormalizeLinkBrackets(text, open, end) ==
  LET close == FirstOf(text, open + 1, {">"})
  IN  [p \in 1 .. end - open + 1 |->
         IF p = 1 THEN "["
         ELSE IF open + p - 1 = close THEN "]" ELSE text[open + p - 1]]

NewEmitter == [flushed |-> 0, held |-> << >>]

\* An unfinished link waits, unless the text is over or the buffer is full.
Holds(final, buffered) == ~final /\ buffered <= MaxLinkBufferRunes

\* One pass of drain's loop: what it lets through, the annotations, what stays
\* held, and where the next pass begins, 0 if there is none.
Pass(text, notes, held, next) ==
  [text |-> text, notes |-> notes, held |-> held, next |-> next]

PassLink(text, before, open, m, recorded, holds) ==
  IF m.outcome = "match"
  THEN Pass(before \o NormalizeLinkBrackets(text, open, m.end),
            IF recorded /\ SubSeq(text, m.label + 2, m.end - 1) = Source.url
            THEN << <<open, m.label - 1>> >> ELSE << >>,
            << >>, m.end + 1)
  ELSE IF m.outcome = "incomplete" /\ holds
  THEN Pass(before, << >>, SubSeq(text, open, Len(text)), 0)
  ELSE Pass(Append(before, text[open]), << >>, << >>, open + 1)

PassFrom(text, p, open, recorded, final) ==
  IF open = 0 THEN Pass(SubSeq(text, p, Len(text)), << >>, << >>, 0)
  ELSE PassLink(text, SubSeq(text, p, open - 1), open, MatchMarkdownLink(text, open),
                recorded, Holds(final, Len(text) - open + 1))

Passes(text, recorded, final) ==
  LET Joined(pass, rest) ==
        [rest EXCEPT !.text = pass.text \o @, !.notes = pass.notes \o @]
      from[p \in 1 .. Len(text) + 1] ==
        LET pass == PassFrom(text, p, FirstOf(text, p, Openers), recorded, final)
        IN  IF pass.next = 0 THEN pass ELSE Joined(pass, from[pass.next])
  IN  from[1]

\* The emitter and its output after the passes; offsets count the runes that
\* were out before.
Drained(emitter, all) ==
  [emitter |-> [flushed |-> emitter.flushed + Len(all.text), held |-> all.held],
   text    |-> all.text,
   notes   |-> [i \in DOMAIN all.notes |->
                  <<emitter.flushed + all.notes[i][1], emitter.flushed + all.notes[i][2]>>]]

Drain(emitter, recorded, final) ==
  Drained(emitter, Passes(ResolveHarmonyCitations(emitter.held, recorded), recorded, final))

Push(emitter, recorded, delta) ==
  Drain([emitter EXCEPT !.held = @ \o delta], recorded, FALSE)

Flush(emitter, recorded) == Drain(emitter, recorded, TRUE)

-----------------------------------------------------------------------------
(***************************************************************************)
(* A whole text: the regular expressions of state.go, leftmost matches     *)
(* that do not overlap.                                                    *)
(***************************************************************************)
LinksOf(text, open, closers) ==
  LET Label(i) == FirstOf(text, i + 1, closers)
      End(i)   == FirstOf(text, Label(i) + 2, {")", "_"})
      IsLink(i) ==
        /\ text[i] = open
        /\ Label(i) > i + 1 /\ End(i) > Label(i) + 2
        /\ text[Label(i) + 1] = "(" /\ text[Label(i) + 2] = "h" /\ text[End(i)] = ")"
      from[i \in 1 .. Len(text) + 1] ==
        IF i > Len(text) THEN {}
        ELSE IF IsLink(i)
        THEN {[open |-> i, label |-> Label(i), end |-> End(i)]} \cup from[End(i) + 1]
        ELSE from[i + 1]
  IN  from[1]

\* fullwidthBracketedLinkPattern and its replacement.
NormalizeLinks(text) ==
  LET links == LinksOf(text, "<", Closers)
  IN  [p \in 1 .. Len(text) |->
         IF \E l \in links : p = l.open THEN "["
         ELSE IF \E l \in links : p = l.label THEN "]" ELSE text[p]]

\* MarkdownLinkPattern.
MarkdownLinks(text) == LinksOf(text, "[", {"]"})

\* The labels of the links to the source.
MatchesFor(text) ==
  {<<l.open, l.label - 1>> : l \in {m \in MarkdownLinks(text) :
                                      SubSeq(text, m.label + 2, m.end - 1) = Source.url}}
=============================================================================
