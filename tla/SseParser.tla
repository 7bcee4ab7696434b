------------------------------- MODULE SseParser -------------------------------
(* parseSse of transport-http-sse: bytes arrive in chunks of any size, lines end in CR, LF or both,   *)
(* and a blank line dispatches an event. The first byte of a line stands for its field, the rest for *)
(* its value; decoding, the byte order mark, comments and retry are left out (a comment or retry     *)
(* counts towards the size of an event like any line).                                              *)
EXTENDS Naturals, Sequences, SequencesExt, FiniteSetsExt

CONSTANTS
  MaxLineBytes, MaxEventBytes,
  MaxChunk, MaxText       \* bounds: bytes of a chunk, of the stream

ParserLimits == {MaxLineBytes, MaxEventBytes, MaxChunk, MaxText} \subseteq Nat

VARIABLES
  parser,                 \* the local variables of parseSse
  yielded,                \* the events it yielded
  text                    \* history: the bytes it has read

parserVars == <<parser, yielded, text>>

Breaks == {"cr", "lf"}
Bytes == Breaks \cup {"data", "event", "id"}

ParserInit ==
  /\ parser = [line |-> <<>>, skipLineFeed |-> FALSE, eventBytes |-> 0, dataLines |-> <<>>,
               eventName |-> <<>>, lastEventId |-> <<>>, at |-> "reading"]
  /\ yielded = <<>> /\ text = <<>>

-------------------------------------------------------------------------------
Failed(s) == [s EXCEPT !.p.at = "failed"]

(* The field of a line that is not blank. *)
Field(p, value) ==
  CASE Head(p.line) = "data"  -> [p EXCEPT !.dataLines = Append(@, value)]
    [] Head(p.line) = "event" -> [p EXCEPT !.eventName = value]
    [] Head(p.line) = "id"    -> [p EXCEPT !.lastEventId = value]

(* A blank line: the event, if there are data, and a new one begins. The identifier stays. *)
Dispatch(s) ==
  [p   |-> [s.p EXCEPT !.dataLines = <<>>, !.eventName = <<>>, !.eventBytes = 0],
   out |-> IF s.p.dataLines = <<>> THEN s.out
           ELSE Append(s.out, [data |-> s.p.dataLines, name |-> s.p.eventName, id |-> s.p.lastEventId])]

(* consumeLine *)
ConsumeLine(s) ==
  LET bytes == s.p.eventBytes + Len(s.p.line) + 1 IN
  IF s.p.line = <<>> THEN Dispatch(s)
  ELSE IF bytes > MaxEventBytes THEN Failed(s)
  ELSE [s EXCEPT !.p = [Field([@ EXCEPT !.eventBytes = bytes], Tail(s.p.line)) EXCEPT !.line = <<>>]]

(* Mutant: a line feed after a carriage return ends a line of its own. *)
FeedEveryBreak(s, b) ==
  IF s.p.at = "failed" THEN s
  ELSE IF b \notin Breaks THEN [s EXCEPT !.p.line = Append(@, b)]
  ELSE IF Len(s.p.line) > MaxLineBytes THEN Failed(s) ELSE ConsumeLine(s)

(* One byte of a chunk, in the state s.p and with the events s.out so far. *)
Feed(s, b) ==
  IF s.p.at = "failed" THEN s
  ELSE IF s.p.skipLineFeed /\ b = "lf" THEN [s EXCEPT !.p.skipLineFeed = FALSE]
  ELSE IF b \notin Breaks THEN [s EXCEPT !.p.skipLineFeed = FALSE, !.p.line = Append(@, b)]
  ELSE IF Len(s.p.line) > MaxLineBytes THEN Failed(s)
  ELSE ConsumeLine([s EXCEPT !.p.skipLineFeed = b = "cr"])

(* A chunk. What is left of its last line counts before the line ends. *)
ReadChunk(chunk) ==
  LET s == FoldLeft(Feed, [p |-> parser, out |-> yielded], chunk) IN
  /\ parser.at = "reading" /\ Len(text) + Len(chunk) <= MaxText
  /\ text' = text \o chunk
  /\ yielded' = s.out
  /\ parser' = IF Len(s.p.line) > MaxLineBytes THEN Failed(s).p ELSE s.p

(* The end of the stream: a line without its end is checked, and an event without its blank line is *)
(* dropped.                                                                                         *)
ReadEnd ==
  /\ parser.at = "reading"
  /\ parser' = IF parser.line # <<>> /\ ConsumeLine([p |-> parser, out |-> yielded]).p.at = "failed"
               THEN [parser EXCEPT !.at = "failed"] ELSE [parser EXCEPT !.at = "ended"]
  /\ UNCHANGED <<yielded, text>>

ParserNext ==
  ReadEnd \/ \E n \in 1..MaxChunk : \E chunk \in [1..n -> Bytes] : ReadChunk(chunk)

ParserSpec == ParserInit /\ [][ParserNext]_parserVars

-------------------------------------------------------------------------------
(* What a text means, without reading it byte by byte. *)

(* Where lines end: a line feed after a carriage return belongs to it. *)
LineEnds ==
  {i \in DOMAIN text : text[i] \in Breaks /\ ~(text[i] = "lf" /\ i > 1 /\ text[i - 1] = "cr")}

LineBefore(i) ==
  SubSeq(text, 1 + Max({0} \cup {j \in 1..(i - 1) : text[j] \in Breaks}), i - 1)

Rest == LineBefore(Len(text) + 1)
Blanks == {i \in LineEnds : LineBefore(i) = <<>>}

(* The lines, up to i, of the event that the next blank line ends. *)
EventLines(i) ==
  {j \in LineEnds \ Blanks : j <= i /\ \A k \in Blanks : k < j \/ k >= i}

EventSize(i) == MapThenSumSet(LAMBDA j : Len(LineBefore(j)) + 1, EventLines(i))

TooLarge ==
  {i \in LineEnds : Len(LineBefore(i)) > MaxLineBytes \/ (i \notin Blanks /\ EventSize(i) > MaxEventBytes)}

Values(lines, field) ==
  LET of == SetToSortSeq({j \in lines : LineBefore(j)[1] = field}, <)
  IN [n \in DOMAIN of |-> Tail(LineBefore(of[n]))]

LastOf(values) == IF values = <<>> THEN <<>> ELSE values[Len(values)]

EventAt(i) ==
  [data |-> Values(EventLines(i), "data"), name |-> LastOf(Values(EventLines(i), "event")),
   id |-> LastOf(Values({j \in LineEnds \ Blanks : j < i}, "id"))]

MeantEvents ==
  LET at == SetToSortSeq({i \in Blanks : /\ \A j \in TooLarge : i < j
                                         /\ EventAt(i).data # <<>>}, <)
  IN [n \in DOMAIN at |-> EventAt(at[n])]

(* Every event of the text is yielded once and in order, with the fields of its own lines and the   *)
(* last identifier, wherever the chunks were cut (also within CR LF); and the limits are those of   *)
(* lines and events, not of chunks.                                                                 *)
ParsedAsMeant ==
  /\ yielded = MeantEvents
  /\ parser.at = "reading" => TooLarge = {} /\ Len(Rest) <= MaxLineBytes
  /\ parser.at = "failed" => \/ TooLarge # {} \/ Len(Rest) > MaxLineBytes
                             \/ Rest # <<>> /\ EventSize(Len(text)) + Len(Rest) + 1 > MaxEventBytes
================================================================================
