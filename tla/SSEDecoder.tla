----------------------------- MODULE SSEDecoder -----------------------------
(***************************************************************************)
(* The server-sent-events decoder of the response path                     *)
(* (internal/sse/decoder.go) fed with a stream in chunks cut anywhere, and *)
(* the encoder of rewritten events (internal/sse/encoder.go).              *)
(*                                                                         *)
(* A byte is a symbol; a field name counts as one.  The data of an event is*)
(* the sequence of its data lines, which the code joins with newlines.     *)
(***************************************************************************)
EXTENDS Integers, Sequences, FiniteSets, SequencesExt

CONSTANTS
  MaxEventSizes,   \* what NewDecoder may be given; a value <= 0 disables the cap
  Streams          \* the byte streams the upstream may send

Byte == {"LF", "CR", "SP", ":", "data", "event", "id", "x", "message"}

ASSUME StreamAssumption ==
  /\ Streams \subseteq Seq(Byte)
  /\ MaxEventSizes \subseteq Int

VARIABLES
  stream,    \* what the upstream sends
  fed,       \* how much of it Write has been given
  dec,       \* the Decoder
  events,    \* the events handed to the caller so far
  flushed    \* Flush was called

vars == <<stream, fed, dec, events, flushed>>

Decoders ==
  [max : MaxEventSizes, buf : Seq(Byte), raw : Seq(Byte), name : Seq(Byte), id : Seq(Byte),
   data : Seq(Seq(Byte)), seen : BOOLEAN, err : BOOLEAN]

Events ==
  [raw : Seq(Byte), name : Seq(Byte), id : Seq(Byte), data : Seq(Seq(Byte))]

TypeOK ==
  /\ stream \in Streams
  /\ fed \in 0..Len(stream)
  /\ dec \in Decoders
  /\ events \in Seq(Events)
  /\ flushed \in BOOLEAN

NewDecoder(max) ==
  [max |-> max, buf |-> << >>, raw |-> << >>, name |-> << >>, id |-> << >>, data |-> << >>,
   seen |-> FALSE, err |-> FALSE]

Init ==
  /\ stream \in Streams
  /\ fed = 0
  /\ dec \in {NewDecoder(max) : max \in MaxEventSizes}
  /\ events = << >>
  /\ flushed = FALSE
-----------------------------------------------------------------------------
(* Lines.                                                                  *)

LineEnds(s) == {i \in 1..Len(s) : s[i] = "LF"}
LineStart(s, i) == 1 + Max({0} \cup {j \in LineEnds(s) : j < i})

(* The line that ends at position i, with its terminator.                  *)
Line(s, i) == SubSeq(s, LineStart(s, i), i)

(* A line without its terminator, LF or CR LF.                             *)
Text(line) ==
  LET bare == IF line # << >> /\ Last(line) = "LF" THEN Front(line) ELSE line
  IN  IF bare # << >> /\ Last(bare) = "CR" THEN Front(bare) ELSE bare

Colon(text) == SelectInSeq(text, LAMBDA b : b = ":")

Field(text) == IF Colon(text) = 0 THEN text ELSE SubSeq(text, 1, Colon(text) - 1)

(* One space behind the colon is not part of the value.                    *)
Value(text) ==
  LET value == IF Colon(text) = 0 THEN << >> ELSE SubSeq(text, Colon(text) + 1, Len(text))
  IN  IF value # << >> /\ Head(value) = "SP" THEN Tail(value) ELSE value

-----------------------------------------------------------------------------
(* The decoder.                                                            *)

OverCap(size) == dec.max > 0 /\ size > dec.max

Pending(d) == Len(d.raw) + Len(d.buf)

(* processLine: a comment (its field is empty) and an unknown field count  *)
(* as activity and nothing else.                                           *)
ProcessLine(d, text) ==
  LET active == [d EXCEPT !.seen = TRUE]
  IN  CASE Field(text) = <<"event">> -> [active EXCEPT !.name = Value(text)]
        [] Field(text) = <<"id">>    -> [active EXCEPT !.id = Value(text)]
        [] Field(text) = <<"data">>  -> [active EXCEPT !.data = Append(@, Value(text))]
        [] OTHER                     -> active

BuildEvent(d) ==
  [raw |-> d.raw, name |-> IF d.name = << >> THEN <<"message">> ELSE d.name,
   id |-> d.id, data |-> d.data]

(* Altered: the name survives into the next event.                         *)
Altered_Reset(d) == [NewDecoder(d.max) EXCEPT !.buf = d.buf, !.name = d.name]

Reset(d) == [NewDecoder(d.max) EXCEPT !.buf = d.buf]

(* The line at the front of the buffer becomes part of the event.          *)
MoveLine(d, line) ==
  [d EXCEPT !.raw = @ \o line, !.buf = SubSeq(@, Len(line) + 1, Len(@))]

(* One round of Write's loop, on the decoder and the events it has built;  *)
(* the cap is checked before the line is moved.                            *)
TakeLine(state, line) ==
  LET d     == state.dec
      moved == MoveLine(d, line)
  IN  CASE d.err ->
             state
        [] ~d.err /\ OverCap(Len(d.raw) + Len(line)) ->
             [state EXCEPT !.dec.err = TRUE]
        [] ~d.err /\ ~OverCap(Len(d.raw) + Len(line)) /\ Text(line) # << >> ->
             [state EXCEPT !.dec = ProcessLine(moved, Text(line))]
        [] OTHER ->
             [dec    |-> Reset(moved),
              events |-> IF d.seen THEN Append(state.events, BuildEvent(moved))
                                   ELSE state.events]

(* A round of the loop, at the byte it looks at.                           *)
Round(fresh, k, before) ==
  IF fresh.buf[k] = "LF" THEN TakeLine(before, Line(fresh.buf, k)) ELSE before

(* What the loop has come to once it has taken the lines that end within   *)
(* the first k bytes of the buffer.                                        *)
Rounds(fresh) ==
  LET after[k \in 0..Len(fresh.buf)] ==
        IF k = 0 THEN [dec |-> fresh, events |-> << >>] ELSE Round(fresh, k, after[k - 1])
  IN  after

TakeLines(fresh) == Rounds(fresh)[Len(fresh.buf)]

(* Altered: the unfinished event is not measured.                          *)
Altered_Scan(chunk) == TakeLines([dec EXCEPT !.buf = @ \o chunk])

(* Altered: the unterminated rest of the last chunk is overwritten.        *)
AlteredAgain_Scan(chunk) ==
  LET taken == TakeLines([dec EXCEPT !.buf = chunk])
  IN  IF OverCap(Pending(taken.dec)) THEN [taken EXCEPT !.dec.err = TRUE] ELSE taken

(* All of Write: the complete lines, then the size of what is left.        *)
Scan(chunk) ==
  LET taken == TakeLines([dec EXCEPT !.buf = @ \o chunk])
  IN  IF OverCap(Pending(taken.dec)) THEN [taken EXCEPT !.dec.err = TRUE] ELSE taken

Feed(n) ==
  /\ ~flushed
  /\ fed' = fed + n
  /\ UNCHANGED <<stream, flushed>>

Write(n) ==
  LET scan == Scan(SubSeq(stream, fed + 1, fed + n))
  IN  /\ Feed(n)
      /\ ~dec.err
      /\ dec' = scan.dec
      /\ ~scan.dec.err
      /\ events' = events \o scan.events

(* ErrEventTooLarge: the events of this chunk are dropped with it.         *)
WriteTooLarge(n) ==
  LET scan == Scan(SubSeq(stream, fed + 1, fed + n))
  IN  /\ Feed(n)
      /\ ~dec.err
      /\ dec' = scan.dec
      /\ scan.dec.err
      /\ UNCHANGED events

(* The error is sticky.                                                    *)
WriteAgain(n) ==
  /\ Feed(n)
  /\ dec.err
  /\ UNCHANGED <<dec, events>>

(* The decoder once the unterminated tail has been taken for a line.       *)
LastLine ==
  LET moved == MoveLine(dec, dec.buf)
  IN  IF Text(dec.buf) # << >> THEN ProcessLine(moved, Text(dec.buf)) ELSE moved

(* At end of stream.                                                       *)
Flush ==
  /\ ~flushed /\ fed = Len(stream)
  /\ flushed' = TRUE
  /\ \/ /\ dec.err
        /\ UNCHANGED <<dec, events>>
     \/ /\ ~dec.err /\ ~LastLine.seen
        /\ dec' = LastLine
        /\ UNCHANGED events
     \/ /\ ~dec.err /\ LastLine.seen
        /\ dec' = Reset(LastLine)
        /\ events' = Append(events, BuildEvent(LastLine))
  /\ UNCHANGED <<stream, fed>>

Next ==
  \/ \E n \in 0..(Len(stream) - fed) : Write(n) \/ WriteTooLarge(n) \/ WriteAgain(n)
  \/ Flush

Spec == Init /\ [][Next]_vars

(* Altered: the id is left out.                                            *)
Altered_Encode(name, id, data) ==
  (IF name \in {<< >>, <<"message">>} THEN << >> ELSE <<"event", ":", "SP">> \o name \o <<"LF">>)
    \o <<"data", ":", "SP">> \o data \o <<"LF", "LF">>

(* The canonical form of an event, with its data on one line.              *)
Encode(name, id, data) ==
  (IF name \in {<< >>, <<"message">>} THEN << >> ELSE <<"event", ":", "SP">> \o name \o <<"LF">>)
    \o (IF id = << >> THEN << >> ELSE <<"id", ":", "SP">> \o id \o <<"LF">>)
    \o <<"data", ":", "SP">> \o data \o <<"LF", "LF">>

-----------------------------------------------------------------------------
(* The events of a byte sequence, defined on the sequence as a whole: a    *)
(* block runs from one blank line to the next, and is an event if it has   *)
(* another line.                                                           *)

BlankEnds(s) == {i \in LineEnds(s) : Text(Line(s, i)) = << >>}
BlockStart(s, i) == 1 + Max({0} \cup {j \in BlankEnds(s) : j < i})
EventEnds(s) == {i \in BlankEnds(s) : LineStart(s, i) # BlockStart(s, i)}

(* What is left behind the last blank line is an event too at end of       *)
(* stream, unless it is a lone CR.                                         *)
Unfinished(s) == SubSeq(s, BlockStart(s, Len(s) + 1), Len(s))
TailEnds(s) == IF Unfinished(s) \in {<< >>, <<"CR">>} THEN {} ELSE {Len(s)}

(* Where the lines with a field end, among those that end at a position of *)
(* ends.                                                                   *)
FieldLines(s, ends, field) == {i \in ends : Field(Text(Line(s, i))) = <<field>>}

(* The position of i in the order of S.                                    *)
Rank(S, i) == Cardinality({j \in S : j <= i})

(* The value of the last line of lines, if there is one that is not empty. *)
LastValue(s, lines, default) ==
  LET value == IF lines = {} THEN << >> ELSE Value(Text(Line(s, Max(lines))))
  IN  IF value = << >> THEN default ELSE value

AllValues(s, lines, values) ==
  /\ Len(values) = Cardinality(lines)
  /\ \A i \in lines : values[Rank(lines, i)] = Value(Text(Line(s, i)))

(* e is the event that ends at position i, whose line may lack its         *)
(* terminator.                                                             *)
IsEventAt(e, s, i) ==
  LET ends == {j \in LineEnds(s) \cup {i} : BlockStart(s, i) <= j /\ j <= i}
  IN  /\ e.raw = SubSeq(s, BlockStart(s, i), i)
      /\ e.name = LastValue(s, FieldLines(s, ends, "event"), <<"message">>)
      /\ e.id = LastValue(s, FieldLines(s, ends, "id"), << >>)
      /\ AllValues(s, FieldLines(s, ends, "data"), e.data)

(* list holds the events that end at the positions of ends, in their order.*)
Frames(list, s, ends) ==
  /\ Len(list) = Cardinality(ends)
  /\ \A i \in ends : IsEventAt(list[Rank(ends, i)], s, i)

(* However the stream is cut, the decoder yields the events of what it was *)
(* given, byte for byte and field for field (Write, decoder.go:57-101;     *)
(* Flush, 162-184), and the last one at end of stream.                     *)
FramesAreExact ==
  ~dec.err =>
    Frames(events, stream,
           {i \in EventEnds(stream) : i <= fed} \cup (IF flushed THEN TailEnds(stream) ELSE {}))

(* What the decoder holds is the unfinished event and nothing else, so that*)
(* no byte of an event is lost or repeated between two chunks.             *)
UnfinishedIsHeld ==
  ~dec.err /\ ~flushed =>
    dec.raw \o dec.buf = SubSeq(stream, BlockStart(stream, fed + 1), fed)

(* ErrEventTooLarge (decoder.go:72, 96) is raised for an event, finished or*)
(* not, that is longer than the cap, and for no other stream, whatever the *)
(* chunks: a large chunk of small events passes.                           *)
EventCapIsExact ==
  dec.err <=>
    \E i \in {j \in BlankEnds(stream) : j <= fed} \cup {fed} :
      OverCap(i + 1 - BlockStart(stream, i))

(* An event whose data was rewritten goes out with the name and the id it  *)
(* came with (Encode, encoder.go:11-27; server.go:745 and 802), unless one *)
(* of them ends in a CR, which the next decoder takes for a terminator.    *)
EncodeRoundTrips ==
  \A e \in ToSet(events) :
    LET bytes == Encode(e.name, e.id, <<"x">>)
    IN  (\A v \in {e.name, e.id} : v # << >> => Last(v) # "CR") =>
          Frames(<<[e EXCEPT !.raw = bytes, !.data = <<<<"x">>>>]>>, bytes,
                 EventEnds(bytes) \cup TailEnds(bytes))

-----------------------------------------------------------------------------
(* The inductive invariant.                                                *)

Overlong(j) == OverCap(j + 1 - BlockStart(stream, j))

LinesHeld(q) == {i \in LineEnds(stream) : BlockStart(stream, q + 1) <= i /\ i <= q}

(* The lines that end at the positions of ends leave these fields.         *)
HasFields(d, s, ends) ==
  /\ d.name = LastValue(s, FieldLines(s, ends, "event"), << >>)
  /\ d.id = LastValue(s, FieldLines(s, ends, "id"), << >>)
  /\ AllValues(s, FieldLines(s, ends, "data"), d.data)

(* d and list are what the lines of the first q bytes come to.             *)
HasTaken(d, list, q) ==
  /\ d.raw = SubSeq(stream, BlockStart(stream, q + 1), q)
  /\ d.seen <=> d.raw # << >>
  /\ HasFields(d, stream, LinesHeld(q))
  /\ Frames(list, stream, {i \in EventEnds(stream) : i <= q})

(* The lines that ended have been taken, what is left of the last one is in*)
(* the buffer, and the error says whether any event was too long.          *)
DecoderInv ==
  /\ TypeOK
  /\ dec.err <=> \E j \in 1..fed : Overlong(j)
  /\ ~dec.err /\ ~flushed =>
       LET q == LineStart(stream, fed + 1) - 1
       IN  /\ HasTaken(dec, events, q)
           /\ dec.buf = SubSeq(stream, q + 1, fed)
  /\ FramesAreExact
=============================================================================
