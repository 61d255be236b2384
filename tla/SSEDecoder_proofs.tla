-------------------------- MODULE SSEDecoder_proofs --------------------------
(***************************************************************************)
(* The decoder yields the events of the stream, for every stream, every    *)
(* cut of it into chunks and every cap.                                    *)
(***************************************************************************)
EXTENDS SSEDecoder, DataLemmas

-----------------------------------------------------------------------------
(* Lines and blocks.                                                       *)

(* Where lines, blocks and events end.                                     *)
LEMMA EndsArePositions ==
  ASSUME NEW s \in Seq(Byte)
  PROVE  /\ Len(s) \in Nat
         /\ LineEnds(s) \subseteq 1..Len(s)
         /\ LineEnds(s) \subseteq Nat
         /\ BlankEnds(s) \subseteq LineEnds(s)
         /\ BlankEnds(s) \subseteq Nat
         /\ EventEnds(s) \subseteq BlankEnds(s)
<1>1. Len(s) \in Nat
  BY LenProperties
<1>2. LineEnds(s) \subseteq 1..Len(s) /\ LineEnds(s) \subseteq Nat
  BY <1>1 DEF LineEnds
<1>3. BlankEnds(s) \subseteq LineEnds(s)
  BY DEF BlankEnds
<1>4. EventEnds(s) \subseteq BlankEnds(s)
  BY DEF EventEnds
<1> QED BY <1>1, <1>2, <1>3, <1>4

(* A line begins behind the last one that ended.                           *)
LEMMA LineStartProperties ==
  ASSUME NEW s \in Seq(Byte), NEW i \in Nat, i > 0
  PROVE  \E q \in 0..(i - 1) :
           /\ LineStart(s, i) = q + 1
           /\ q = 0 \/ q \in LineEnds(s)
           /\ \A j \in LineEnds(s) : j < i => j <= q
<1>1. LineEnds(s) \subseteq Nat
  BY EndsArePositions
<1> DEFINE q == Max({0} \cup {j \in LineEnds(s) : j < i})
<1>2. /\ q \in 0..(i - 1)
      /\ q = 0 \/ q \in LineEnds(s)
      /\ \A j \in LineEnds(s) : j < i => j <= q
  BY <1>1, LatestBefore
<1>3. LineStart(s, i) = q + 1
  <2>1. LineStart(s, i) = 1 + q
    BY DEF LineStart
  <2> HIDE DEF q
  <2> QED BY <1>2, <2>1
<1> QED BY <1>2, <1>3

LEMMA LineStartIs ==
  ASSUME NEW s \in Seq(Byte), NEW i \in Nat, i > 0, NEW q \in 0..(i - 1),
         q = 0 \/ q \in LineEnds(s),
         \A j \in LineEnds(s) : j < i => j <= q
  PROVE  LineStart(s, i) = q + 1
<1>1. LineEnds(s) \subseteq Nat
  BY EndsArePositions
<1>2. Max({0} \cup {j \in LineEnds(s) : j < i}) = q
  BY <1>1, LatestBeforeIs
<1> QED BY <1>2 DEF LineStart

(* A block begins behind the last blank line.                              *)
LEMMA BlockStartProperties ==
  ASSUME NEW s \in Seq(Byte), NEW i \in Nat, i > 0
  PROVE  \E q \in 0..(i - 1) :
           /\ BlockStart(s, i) = q + 1
           /\ q = 0 \/ q \in BlankEnds(s)
           /\ \A j \in BlankEnds(s) : j < i => j <= q
<1>1. BlankEnds(s) \subseteq Nat
  BY EndsArePositions
<1> DEFINE q == Max({0} \cup {j \in BlankEnds(s) : j < i})
<1>2. /\ q \in 0..(i - 1)
      /\ q = 0 \/ q \in BlankEnds(s)
      /\ \A j \in BlankEnds(s) : j < i => j <= q
  BY <1>1, LatestBefore
<1>3. BlockStart(s, i) = q + 1
  <2>1. BlockStart(s, i) = 1 + q
    BY DEF BlockStart
  <2> HIDE DEF q
  <2> QED BY <1>2, <2>1
<1> QED BY <1>2, <1>3

LEMMA BlockStartIs ==
  ASSUME NEW s \in Seq(Byte), NEW i \in Nat, i > 0, NEW q \in 0..(i - 1),
         q = 0 \/ q \in BlankEnds(s),
         \A j \in BlankEnds(s) : j < i => j <= q
  PROVE  BlockStart(s, i) = q + 1
<1>1. BlankEnds(s) \subseteq Nat
  BY EndsArePositions
<1>2. Max({0} \cup {j \in BlankEnds(s) : j < i}) = q
  BY <1>1, LatestBeforeIs
<1> QED BY <1>2 DEF BlockStart

(* Position e lies in the line that begins behind q.                       *)
InLine(s, q, e) ==
  /\ q \in Nat /\ e \in 1..Len(s) /\ q < e
  /\ q = 0 \/ q \in LineEnds(s)
  /\ \A j \in LineEnds(s) : j < e => j <= q

(* The line, and the block it is in.                                       *)
LEMMA LineOf ==
  ASSUME NEW s \in Seq(Byte), NEW q, NEW e, InLine(s, q, e)
  PROVE  /\ q \in Nat /\ e \in Nat /\ q < e /\ e <= Len(s)
         /\ LineStart(s, e) = q + 1
         /\ Line(s, e) = SubSeq(s, q + 1, e)
         /\ BlockStart(s, q + 1) \in 1..(q + 1)
         /\ \A j \in (q + 1)..e : BlockStart(s, j) = BlockStart(s, q + 1)
         /\ e \notin BlankEnds(s) => BlockStart(s, e + 1) = BlockStart(s, q + 1)
         /\ e \in LineEnds(s) => LineStart(s, e + 1) = e + 1
         /\ e \in BlankEnds(s) => BlockStart(s, e + 1) = e + 1
<1>1. /\ Len(s) \in Nat /\ q \in Nat /\ e \in Nat /\ e <= Len(s) /\ q < e
      /\ q = 0 \/ q \in LineEnds(s)
      /\ \A j \in LineEnds(s) : j < e => j <= q
      /\ BlankEnds(s) \subseteq LineEnds(s) /\ LineEnds(s) \subseteq Nat
  BY EndsArePositions DEF InLine
<1>2. LineStart(s, e) = q + 1
  <2>1. e > 0 /\ q \in 0..(e - 1)
    BY <1>1
  <2> QED BY <1>1, <2>1, LineStartIs
<1>3. PICK b \in 0..((q + 1) - 1) :
        /\ BlockStart(s, q + 1) = b + 1
        /\ b = 0 \/ b \in BlankEnds(s)
        /\ \A j \in BlankEnds(s) : j < q + 1 => j <= b
  <2>1. q + 1 \in Nat /\ q + 1 > 0
    BY <1>1
  <2> QED BY <2>1, BlockStartProperties
<1>4. b \in Nat /\ b <= q
  BY <1>1, <1>3
<1>5. ASSUME NEW j \in (q + 1)..(e + 1), j = e + 1 => e \notin BlankEnds(s)
      PROVE  BlockStart(s, j) = b + 1
  <2>1. j \in Nat /\ j > 0 /\ b \in 0..(j - 1)
    BY <1>1, <1>4
  <2>2. ASSUME NEW i \in BlankEnds(s), i < j PROVE i <= b
    <3>1. i \in LineEnds(s) /\ i \in Nat
      BY <1>1
    <3>2. i < e
      BY <1>1, <1>5, <2>1, <2>2, <3>1
    <3>3. i < q + 1
      BY <1>1, <3>1, <3>2
    <3> QED BY <1>3, <3>3
  <2> QED BY <1>3, <2>1, <2>2, BlockStartIs
<1>6. \A j \in (q + 1)..e : BlockStart(s, j) = b + 1
  <2> TAKE j \in (q + 1)..e
  <2>1. j \in (q + 1)..(e + 1) /\ j # e + 1
    BY <1>1
  <2> QED BY <1>5, <2>1
<1>7. e \notin BlankEnds(s) => BlockStart(s, e + 1) = b + 1
  <2>1. e + 1 \in (q + 1)..(e + 1)
    BY <1>1
  <2> QED BY <1>5, <2>1
<1>8. e \in LineEnds(s) => LineStart(s, e + 1) = e + 1
  <2> HAVE e \in LineEnds(s)
  <2>1. e + 1 \in Nat /\ e + 1 > 0 /\ e \in 0..((e + 1) - 1)
    BY <1>1
  <2>2. \A j \in LineEnds(s) : j < e + 1 => j <= e
    BY <1>1
  <2> QED BY <2>1, <2>2, LineStartIs
<1>9. e \in BlankEnds(s) => BlockStart(s, e + 1) = e + 1
  <2> HAVE e \in BlankEnds(s)
  <2>1. e + 1 \in Nat /\ e + 1 > 0 /\ e \in 0..((e + 1) - 1)
    BY <1>1
  <2>2. \A j \in BlankEnds(s) : j < e + 1 => j <= e
    BY <1>1
  <2> QED BY <2>1, <2>2, BlockStartIs
<1>10. b + 1 \in 1..(q + 1)
  BY <1>1, <1>4
<1> QED BY <1>1, <1>2, <1>3, <1>6, <1>7, <1>8, <1>9, <1>10 DEF Line

-----------------------------------------------------------------------------
(* Texts, fields and their values.                                         *)

(* A line without its terminator.                                          *)
LEMMA TextType ==
  ASSUME NEW line \in Seq(Byte)
  PROVE  Text(line) \in Seq(Byte)
<1> DEFINE bare == IF line # << >> /\ Last(line) = "LF" THEN Front(line) ELSE line
<1>1. ASSUME NEW t \in Seq(Byte), t # << >> PROVE Front(t) \in Seq(Byte)
  <2>1. Len(t) \in Nat /\ Len(t) > 0
    BY <1>1, EmptySeq, LenProperties
  <2>2. 0 \in Nat /\ Len(t) - 1 \in Nat /\ 0 <= Len(t) - 1 /\ Len(t) - 1 <= Len(t)
    BY <2>1
  <2>3. SubSeq(t, 0 + 1, Len(t) - 1) \in Seq(Byte)
    BY <2>2, StretchOf
  <2> QED BY <2>3 DEF Front
<1>2. bare \in Seq(Byte)
  BY <1>1
<1> HIDE DEF bare
<1>3. Text(line) = IF bare # << >> /\ Last(bare) = "CR" THEN Front(bare) ELSE bare
  BY DEF Text, bare
<1> QED BY <1>1, <1>2, <1>3

(* The first colon, or 0.                                                  *)
LEMMA ColonIsPosition ==
  ASSUME NEW text \in Seq(Byte)
  PROVE  Colon(text) \in 0..Len(text)
<1> DEFINE colons == {i \in 1..Len(text) : text[i] = ":"}
           c == Colon(text)
<1>1. Len(text) \in Nat
  BY LenProperties
<1>2. c = IF colons # {} THEN Min(colons) ELSE 0
  BY DEF Colon, SelectInSeq
<1>3. colons # {} => Min(colons) \in colons
  <2> HAVE colons # {}
  <2>1. colons \in SUBSET Nat
    BY <1>1
  <2> HIDE DEF colons
  <2>2. \E m \in colons : \A j \in colons : m <= j
    BY <2>1, LeastOf
  <2> QED BY <2>2, Zenon DEF Min
<1>4. \A i \in colons : i \in 0..Len(text)
  BY <1>1
<1> HIDE DEF colons, c
<1>5. c \in 0..Len(text)
  BY <1>1, <1>2, <1>3, <1>4
<1> QED BY <1>5 DEF c

(* What stands behind the colon.                                           *)
LEMMA ValueType ==
  ASSUME NEW text \in Seq(Byte)
  PROVE  Value(text) \in Seq(Byte)
<1> DEFINE c == Colon(text)
           value == IF c = 0 THEN << >> ELSE SubSeq(text, c + 1, Len(text))
<1>1. Len(text) \in Nat
  BY LenProperties
<1>2. c \in 0..Len(text)
  BY ColonIsPosition
<1>3. value \in Seq(Byte)
  <2> HIDE DEF c
  <2>1. c \in Nat /\ c <= Len(text) /\ Len(text) <= Len(text)
    BY <1>1, <1>2
  <2>2. SubSeq(text, c + 1, Len(text)) \in Seq(Byte)
    BY <1>1, <2>1, StretchOf
  <2> QED BY <2>2, EmptySeq
<1>4. Value(text) = IF value # << >> /\ Head(value) = "SP" THEN Tail(value) ELSE value
  BY DEF Value
<1> HIDE DEF value
<1>5. value # << >> => Tail(value) \in Seq(Byte)
  BY <1>3, HeadTailProperties
<1> QED BY <1>3, <1>4, <1>5

(* A blank line has no field.                                              *)
LEMMA BlankHasNoField ==
  ASSUME NEW field
  PROVE  Field(<< >>) # <<field>>
<1>1. {i \in 1..Len(<< >>) : << >>[i] = ":"} = {}
  OBVIOUS
<1>2. Colon(<< >>) = 0
  BY <1>1 DEF Colon, SelectInSeq
<1>3. Field(<< >>) = << >>
  BY <1>2 DEF Field
<1> QED BY <1>3

(* A line of the stream is one of bytes.                                   *)
LEMMA LineType ==
  ASSUME NEW s \in Seq(Byte), NEW i \in 1..Len(s)
  PROVE  /\ Line(s, i) \in Seq(Byte)
         /\ Text(Line(s, i)) \in Seq(Byte)
         /\ Value(Text(Line(s, i))) \in Seq(Byte)
<1>1. Len(s) \in Nat /\ i \in Nat /\ i > 0 /\ i <= Len(s)
  BY LenProperties
<1>2. PICK q \in 0..(i - 1) : LineStart(s, i) = q + 1
  BY <1>1, LineStartProperties
<1>3. q \in Nat /\ q <= i
  BY <1>1, <1>2
<1>4. SubSeq(s, q + 1, i) \in Seq(Byte)
  BY <1>1, <1>3, StretchOf
<1>5. Line(s, i) \in Seq(Byte)
  BY <1>2, <1>4 DEF Line
<1> QED BY <1>5, TextType, ValueType

-----------------------------------------------------------------------------
(* Lists in the order of positions.                                        *)

(* The ranks of a set and of one that a last member was added to.          *)
LEMMA RankOfOthers ==
  ASSUME NEW n \in Nat, NEW S, S \subseteq 1..n, NEW m \in Nat, \A j \in S : j < m
  PROVE  /\ Cardinality(S) \in Nat
         /\ Cardinality(S \cup {m}) = Cardinality(S) + 1
         /\ Rank(S \cup {m}, m) = Cardinality(S) + 1
         /\ \A i \in S : /\ Rank(S \cup {m}, i) = Rank(S, i)
                         /\ Rank(S, i) \in 1..Cardinality(S)
<1>1. IsFiniteSet(S)
  <2>1. 1 \in Int /\ n \in Int /\ S \in SUBSET (1..n)
    OBVIOUS
  <2>2. IsFiniteSet(1..n)
    BY <2>1, FS_Interval
  <2> QED BY <2>1, <2>2, FS_Subset
<1>2. Cardinality(S) \in Nat
  BY <1>1, FS_CardinalityType
<1>3. m \notin S
  OBVIOUS
<1>4. Cardinality(S \cup {m}) = Cardinality(S) + 1
  BY <1>1, <1>3, FS_AddElement
<1>5. Rank(S \cup {m}, m) = Cardinality(S) + 1
  <2>1. \A j \in S \cup {m} : j <= m
    OBVIOUS
  <2>2. {j \in S \cup {m} : j <= m} = S \cup {m}
    BY <2>1
  <2> QED BY <1>4, <2>2 DEF Rank
<1>6. ASSUME NEW i \in S
      PROVE  /\ Rank(S \cup {m}, i) = Rank(S, i)
             /\ Rank(S, i) \in 1..Cardinality(S)
  <2> DEFINE T == {j \in S : j <= i}
  <2>1. i < m /\ i \in Nat /\ ~(m <= i)
    OBVIOUS
  <2>2. {j \in S \cup {m} : j <= i} = T
    BY <2>1
  <2>3. T \in SUBSET S /\ i \in T
    BY <2>1
  <2> HIDE DEF T
  <2>4. /\ IsFiniteSet(T) /\ Cardinality(T) \in Nat
        /\ Cardinality(T) <= Cardinality(S) /\ Cardinality(T) # 0
    BY <1>1, <2>3, FS_Subset, FS_CardinalityType, FS_EmptySet
  <2>5. Cardinality(T) \in 1..Cardinality(S)
    BY <1>2, <2>4
  <2> QED BY <2>2, <2>5 DEF Rank, T
<1> QED BY <1>2, <1>4, <1>5, <1>6

(* The values of the lines, when another one comes.                        *)
LEMMA ValuesGrow ==
  ASSUME NEW s \in Seq(Byte), NEW lines, lines \subseteq 1..Len(s), NEW m \in 1..Len(s),
         \A j \in lines : j < m,
         NEW values \in Seq(Seq(Byte)), AllValues(s, lines, values)
  PROVE  AllValues(s, lines \cup {m}, Append(values, Value(Text(Line(s, m)))))
<1> DEFINE v == Value(Text(Line(s, m)))
           c == Cardinality(lines)
<1>1. v \in Seq(Byte) /\ Len(s) \in Nat /\ m \in Nat
  BY LineType, LenProperties
<1>2. /\ c \in Nat /\ Cardinality(lines \cup {m}) = c + 1 /\ Rank(lines \cup {m}, m) = c + 1
      /\ \A i \in lines : Rank(lines \cup {m}, i) = Rank(lines, i) /\ Rank(lines, i) \in 1..c
  BY <1>1, RankOfOthers
<1>3. Len(values) = c /\ \A i \in lines : values[Rank(lines, i)] = Value(Text(Line(s, i)))
  BY DEF AllValues
<1> HIDE DEF v, c
<1>4. /\ Len(Append(values, v)) = c + 1
      /\ Append(values, v)[c + 1] = v
      /\ \A k \in 1..c : Append(values, v)[k] = values[k]
  BY <1>1, <1>3, AppendProperties
<1>5. ASSUME NEW i \in lines \cup {m}
      PROVE  Append(values, v)[Rank(lines \cup {m}, i)] = Value(Text(Line(s, i)))
  <2>1. CASE i = m
    BY <2>1, <1>2, <1>4 DEF v
  <2>2. CASE i \in lines
    <3>1. Append(values, v)[Rank(lines, i)] = values[Rank(lines, i)]
      BY <2>2, <1>2, <1>4
    <3> QED BY <2>2, <3>1, <1>2, <1>3
  <2> QED BY <2>1, <2>2
<1> QED BY <1>2, <1>4, <1>5 DEF AllValues, v

(* The events, when another one ends.                                      *)
LEMMA FramesGrow ==
  ASSUME NEW s \in Seq(Byte), NEW ends, ends \subseteq 1..Len(s), NEW m \in 1..Len(s),
         \A j \in ends : j < m,
         NEW list \in Seq(Events), NEW e \in Events,
         Frames(list, s, ends), IsEventAt(e, s, m)
  PROVE  Frames(Append(list, e), s, ends \cup {m})
<1> DEFINE c == Cardinality(ends)
<1>1. Len(s) \in Nat /\ m \in Nat
  BY LenProperties
<1>2. /\ c \in Nat /\ Cardinality(ends \cup {m}) = c + 1 /\ Rank(ends \cup {m}, m) = c + 1
      /\ \A i \in ends : Rank(ends \cup {m}, i) = Rank(ends, i) /\ Rank(ends, i) \in 1..c
  BY <1>1, RankOfOthers
<1>3. Len(list) = c /\ \A i \in ends : IsEventAt(list[Rank(ends, i)], s, i)
  BY DEF Frames
<1> HIDE DEF c
<1>4. /\ Len(Append(list, e)) = c + 1
      /\ Append(list, e)[c + 1] = e
      /\ \A k \in 1..c : Append(list, e)[k] = list[k]
  BY <1>1, <1>3, AppendProperties
<1>5. ASSUME NEW i \in ends \cup {m}
      PROVE  IsEventAt(Append(list, e)[Rank(ends \cup {m}, i)], s, i)
  <2>1. CASE i = m
    BY <2>1, <1>2, <1>4
  <2>2. CASE i \in ends
    <3>1. Append(list, e)[Rank(ends, i)] = list[Rank(ends, i)]
      BY <2>2, <1>2, <1>4
    <3> QED BY <2>2, <3>1, <1>2, <1>3
  <2> QED BY <2>1, <2>2
<1> QED BY <1>2, <1>4, <1>5 DEF Frames

(* The last value, when another line comes.                                *)
LEMMA LastValueIs ==
  ASSUME NEW s \in Seq(Byte), NEW lines, lines \subseteq 1..Len(s), NEW m \in 1..Len(s),
         \A j \in lines : j < m
  PROVE  LastValue(s, lines \cup {m}, << >>) = Value(Text(Line(s, m)))
<1>1. Len(s) \in Nat /\ m \in Nat
  BY LenProperties
<1>2. lines \cup {m} \subseteq 0..Len(s) /\ m \in lines \cup {m}
  BY <1>1
<1>3. \A j \in lines \cup {m} : j <= m
  BY <1>1
<1>4. Max(lines \cup {m}) = m
  BY <1>1, <1>2, <1>3, MaxIs
<1>5. lines \cup {m} # {}
  OBVIOUS
<1> QED BY <1>4, <1>5, Zenon DEF LastValue

(* The lines with a field, when another line comes.                        *)
LEMMA FieldLinesGrow ==
  ASSUME NEW s, NEW ends, NEW m, NEW field
  PROVE  /\ Field(Text(Line(s, m))) = <<field>> =>
              FieldLines(s, ends \cup {m}, field) = FieldLines(s, ends, field) \cup {m}
         /\ Field(Text(Line(s, m))) # <<field>> =>
              FieldLines(s, ends \cup {m}, field) = FieldLines(s, ends, field)
BY DEF FieldLines

(* p has the fields of the lines and is otherwise d, in use.               *)
IsProcessed(p, d, s, lines) ==
  /\ p \in Decoders
  /\ HasFields(p, s, lines)
  /\ p.raw = d.raw /\ p.buf = d.buf /\ p.max = d.max /\ p.err = d.err
  /\ p.seen = TRUE

(* processLine keeps track of the fields, and of nothing else              *)
(* (decoder.go:126-157).                                                   *)
LEMMA LineIsProcessed ==
  ASSUME NEW s \in Seq(Byte), NEW ends, ends \subseteq 1..Len(s), NEW m \in 1..Len(s),
         \A j \in ends : j < m,
         NEW d \in Decoders, HasFields(d, s, ends)
  PROVE  IsProcessed(ProcessLine(d, Text(Line(s, m))), d, s, ends \cup {m})
<1> DEFINE text == Text(Line(s, m))
           p == ProcessLine(d, text)
           active == [d EXCEPT !.seen = TRUE]
           lines(field) == FieldLines(s, ends, field)
           more(field) == FieldLines(s, ends \cup {m}, field)
<1>1. Value(text) \in Seq(Byte)
  BY LineType
<1>2. /\ d.name = LastValue(s, lines("event"), << >>)
      /\ d.id = LastValue(s, lines("id"), << >>)
      /\ AllValues(s, lines("data"), d.data)
      /\ d.data \in Seq(Seq(Byte))
  BY DEF HasFields, Decoders
<1>3. ASSUME NEW field
      PROVE  lines(field) \subseteq 1..Len(s) /\ \A j \in lines(field) : j < m
  BY DEF FieldLines
<1>4. ASSUME NEW field
      PROVE  /\ Field(text) = <<field>> => more(field) = lines(field) \cup {m}
             /\ Field(text) # <<field>> => more(field) = lines(field)
  BY DEF FieldLines
<1>5. active \in Decoders
  BY DEF Decoders
<1>6. p = CASE Field(text) = <<"event">> -> [active EXCEPT !.name = Value(text)]
            [] Field(text) = <<"id">>    -> [active EXCEPT !.id = Value(text)]
            [] Field(text) = <<"data">>  -> [active EXCEPT !.data = Append(@, Value(text))]
            [] OTHER                     -> active
  BY DEF ProcessLine
<1>7. <<"event">> # <<"id">> /\ <<"event">> # <<"data">> /\ <<"id">> # <<"data">>
  OBVIOUS
<1> SUFFICES IsProcessed(p, d, s, ends \cup {m})
  OBVIOUS
<1> HIDE DEF text, p, lines, more
<1> USE DEF IsProcessed
<1>8. CASE Field(text) = <<"event">>
  <2>1. p = [active EXCEPT !.name = Value(text)]
    BY <1>6, <1>8, <1>7
  <2>2. LastValue(s, more("event"), << >>) = Value(text)
    <3>1. lines("event") \subseteq 1..Len(s) /\ \A j \in lines("event") : j < m
      BY <1>3
    <3>2. more("event") = lines("event") \cup {m}
      BY <1>4, <1>8
    <3> QED BY <3>1, <3>2, LastValueIs DEF text
  <2>3. more("id") = lines("id") /\ more("data") = lines("data")
    BY <1>4, <1>7, <1>8
  <2>4. /\ p \in Decoders /\ p.name = Value(text) /\ p.id = d.id /\ p.data = d.data
        /\ p.raw = d.raw /\ p.buf = d.buf /\ p.max = d.max /\ p.err = d.err
        /\ p.seen = TRUE
    BY <2>1, <1>1, <1>5 DEF Decoders
  <2> QED BY <1>2, <2>2, <2>3, <2>4 DEF HasFields, more
<1>9. CASE Field(text) = <<"id">>
  <2>1. p = [active EXCEPT !.id = Value(text)]
    BY <1>6, <1>9, <1>7
  <2>2. LastValue(s, more("id"), << >>) = Value(text)
    <3>1. lines("id") \subseteq 1..Len(s) /\ \A j \in lines("id") : j < m
      BY <1>3
    <3>2. more("id") = lines("id") \cup {m}
      BY <1>4, <1>9
    <3> QED BY <3>1, <3>2, LastValueIs DEF text
  <2>3. more("event") = lines("event") /\ more("data") = lines("data")
    BY <1>4, <1>7, <1>9
  <2>4. /\ p \in Decoders /\ p.name = d.name /\ p.id = Value(text) /\ p.data = d.data
        /\ p.raw = d.raw /\ p.buf = d.buf /\ p.max = d.max /\ p.err = d.err
        /\ p.seen = TRUE
    BY <2>1, <1>1, <1>5 DEF Decoders
  <2> QED BY <1>2, <2>2, <2>3, <2>4 DEF HasFields, more
<1>10. CASE Field(text) = <<"data">>
  <2>1. p = [active EXCEPT !.data = Append(@, Value(text))]
    BY <1>6, <1>10, <1>7
  <2>2. AllValues(s, more("data"), Append(d.data, Value(text)))
    BY <1>2, <1>3, <1>4, <1>10, ValuesGrow DEF text
  <2>3. more("event") = lines("event") /\ more("id") = lines("id")
    BY <1>4, <1>7, <1>10
  <2>4. Append(d.data, Value(text)) \in Seq(Seq(Byte))
    BY <1>1, <1>2, AppendProperties
  <2>5. /\ p \in Decoders /\ p.name = d.name /\ p.id = d.id /\ p.data = Append(d.data, Value(text))
        /\ p.raw = d.raw /\ p.buf = d.buf /\ p.max = d.max /\ p.err = d.err
        /\ p.seen = TRUE
    BY <2>1, <2>4, <1>5 DEF Decoders
  <2> QED BY <1>2, <2>2, <2>3, <2>5 DEF HasFields, more
<1>11. CASE Field(text) \notin {<<"event">>, <<"id">>, <<"data">>}
  <2>1. p = active
    BY <1>6, <1>11
  <2>2. more("event") = lines("event") /\ more("id") = lines("id") /\ more("data") = lines("data")
    BY <1>4, <1>11
  <2>3. /\ p \in Decoders /\ p.name = d.name /\ p.id = d.id /\ p.data = d.data
        /\ p.raw = d.raw /\ p.buf = d.buf /\ p.max = d.max /\ p.err = d.err
        /\ p.seen = TRUE
    BY <2>1, <1>5 DEF Decoders
  <2> QED BY <1>2, <2>2, <2>3 DEF HasFields, more
<1> QED BY <1>8, <1>9, <1>10, <1>11

-----------------------------------------------------------------------------
(* One line of the stream.                                                 *)

(* A line moves from the front of what is buffered to the end of what is   *)
(* held.                                                                   *)
Moves(S, s, a, q, e, z) ==
  LET raw  == SubSeq(s, a + 1, q)
      line == SubSeq(s, q + 1, e)
      buf  == SubSeq(s, q + 1, z)
  IN  /\ raw \o line = SubSeq(s, a + 1, e)
      /\ raw \o line \in Seq(S)
      /\ raw \o line # << >>
      /\ SubSeq(buf, Len(line) + 1, Len(buf)) = SubSeq(s, e + 1, z)
      /\ SubSeq(buf, Len(line) + 1, Len(buf)) \in Seq(S)
      /\ Len(raw) + Len(line) = e - a

LEMMA StretchMoves ==
  ASSUME NEW S, NEW s \in Seq(S), NEW a \in Nat, NEW q \in Nat, NEW e \in Nat, NEW z \in Nat,
         a <= q, q < e, e <= z, z <= Len(s)
  PROVE  Moves(S, s, a, q, e, z)
<1> DEFINE raw == SubSeq(s, a + 1, q)
           line == SubSeq(s, q + 1, e)
           buf == SubSeq(s, q + 1, z)
<1>1. /\ Len(s) \in Nat /\ e <= Len(s) /\ q <= Len(s) /\ a <= e /\ q <= e /\ q <= z /\ z <= z
  BY LenProperties
<1>2. Len(raw) = q - a
  BY <1>1, StretchOf
<1>3. Len(line) = e - q
  BY <1>1, StretchOf
<1>4. Len(buf) = z - q
  BY <1>1, StretchOf
<1>5. raw \o line = SubSeq(s, a + 1, e)
  BY <1>1, StretchesMeet
<1>6. SubSeq(s, a + 1, e) \in Seq(S) /\ Len(SubSeq(s, a + 1, e)) = e - a
  BY <1>1, StretchOf
<1>7. SubSeq(s, a + 1, e) # << >>
  <2>1. e - a # 0
    BY <1>1
  <2> QED BY <1>6, <2>1
<1>8. SubSeq(buf, Len(line) + 1, Len(buf)) = SubSeq(s, e + 1, z)
  <2>1. e - q \in Nat /\ z - q \in Nat /\ e - q <= z - q /\ z - q <= z - q
    BY <1>1
  <2>2. SubSeq(buf, (e - q) + 1, z - q) = SubSeq(s, q + (e - q) + 1, q + (z - q))
    BY <1>1, <2>1, StretchOfStretch
  <2>3. q + (e - q) + 1 = e + 1 /\ q + (z - q) = z
    BY <1>1
  <2> QED BY <1>3, <1>4, <2>2, <2>3
<1>9. SubSeq(s, e + 1, z) \in Seq(S)
  BY <1>1, StretchOf
<1>10. Len(raw) + Len(line) = e - a
  BY <1>1, <1>2, <1>3
<1> QED BY <1>5, <1>6, <1>7, <1>8, <1>9, <1>10 DEF Moves

(* m is d with the line behind q, which ends at e, moved to the event.     *)
HasMoved(m, d, q, e, z) ==
  /\ m \in Decoders
  /\ m.raw = SubSeq(stream, BlockStart(stream, q + 1), e)
  /\ m.raw # << >>
  /\ m.buf = SubSeq(stream, e + 1, z)
  /\ m.name = d.name /\ m.id = d.id /\ m.data = d.data
  /\ m.max = d.max /\ m.seen = d.seen /\ m.err = d.err
  /\ Len(d.raw) + Len(Line(stream, e)) = e + 1 - BlockStart(stream, q + 1)

(* The bytes of a line move from the buffer to the event (decoder.go:77-83,*)
(* 170-173).                                                               *)
LEMMA LineIsMoved ==
  ASSUME stream \in Seq(Byte), NEW q, NEW e, InLine(stream, q, e),
         NEW z \in Nat, e <= z, z <= Len(stream),
         NEW d \in Decoders,
         d.raw = SubSeq(stream, BlockStart(stream, q + 1), q),
         d.buf = SubSeq(stream, q + 1, z)
  PROVE  HasMoved(MoveLine(d, Line(stream, e)), d, q, e, z)
<1> DEFINE b == BlockStart(stream, q + 1)
           a == b - 1
           line == Line(stream, e)
           raw == d.raw \o line
           buf == SubSeq(d.buf, Len(line) + 1, Len(d.buf))
           m == MoveLine(d, line)
<1>1. /\ q \in Nat /\ e \in Nat /\ q < e
      /\ line = SubSeq(stream, q + 1, e)
      /\ b \in 1..(q + 1)
  BY LineOf
<1>2. a \in Nat /\ a <= q /\ b = a + 1
  BY <1>1
<1>3. d.raw = SubSeq(stream, a + 1, q)
  BY <1>2
<1>4. m = [d EXCEPT !.raw = raw, !.buf = buf]
  BY DEF MoveLine
<1> SUFFICES HasMoved(m, d, q, e, z)
  OBVIOUS
<1> HIDE DEF a, b, line, m
<1>5. /\ raw = SubSeq(stream, a + 1, e) /\ raw \in Seq(Byte) /\ raw # << >>
      /\ buf = SubSeq(stream, e + 1, z) /\ buf \in Seq(Byte)
      /\ Len(d.raw) + Len(line) = e - a
  <2>1. a <= q /\ q < e /\ e <= z /\ z <= Len(stream)
    BY <1>1, <1>2
  <2>2. Moves(Byte, stream, a, q, e, z)
    BY <1>1, <1>2, <2>1, StretchMoves
  <2> QED BY <1>1, <1>3, <2>2 DEF Moves
<1> HIDE DEF raw, buf
<1>6. /\ m \in Decoders
      /\ m.raw = raw
      /\ m.buf = buf
      /\ m.name = d.name /\ m.id = d.id /\ m.data = d.data
      /\ m.max = d.max /\ m.seen = d.seen /\ m.err = d.err
  BY <1>4, <1>5 DEF Decoders
<1>7. e - a = e + 1 - b
  BY <1>1, <1>2
<1> QED BY <1>2, <1>5, <1>6, <1>7 DEF HasMoved, b, line

(* The lines of the block, when another one comes, and where that leaves   *)
(* the events.                                                             *)
LEMMA BlockGoesOn ==
  ASSUME stream \in Seq(Byte), NEW q, NEW e, InLine(stream, q, e)
  PROVE  /\ LinesHeld(q) \subseteq 1..Len(stream)
         /\ \A j \in LinesHeld(q) : j < e
         /\ {j \in LineEnds(stream) \cup {e} : BlockStart(stream, e) <= j /\ j <= e}
              = LinesHeld(q) \cup {e}
         /\ e \in LineEnds(stream) \ BlankEnds(stream) => LinesHeld(e) = LinesHeld(q) \cup {e}
         /\ e \in BlankEnds(stream) => LinesHeld(e) = {}
         /\ e \notin EventEnds(stream) =>
              {i \in EventEnds(stream) : i <= e} = {i \in EventEnds(stream) : i <= q}
         /\ e \in EventEnds(stream) =>
              {i \in EventEnds(stream) : i <= e} = {i \in EventEnds(stream) : i <= q} \cup {e}
<1> DEFINE s == stream
           b == BlockStart(s, q + 1)
<1>1. /\ q \in Nat /\ e \in Nat /\ q < e /\ e <= Len(s) /\ Len(s) \in Nat
      /\ LineEnds(s) \subseteq 1..Len(s) /\ LineEnds(s) \subseteq Nat
      /\ BlankEnds(s) \subseteq LineEnds(s) /\ EventEnds(s) \subseteq BlankEnds(s)
  BY LineOf, EndsArePositions
<1>2. \A j \in LineEnds(s) : j <= q \/ j >= e
  BY <1>1 DEF InLine
<1>3. b \in 1..(q + 1) /\ BlockStart(s, e) = b
  <2>1. e \in (q + 1)..e
    BY <1>1
  <2> QED BY <2>1, LineOf
<1> HIDE DEF b
<1>4. LinesHeld(q) = {i \in LineEnds(s) : b <= i /\ i <= q}
  BY DEF LinesHeld, b
<1>5. LinesHeld(q) \subseteq 1..Len(s) /\ \A j \in LinesHeld(q) : j < e
  BY <1>1, <1>4
<1>6. {j \in LineEnds(s) \cup {e} : b <= j /\ j <= e} = LinesHeld(q) \cup {e}
  <2>1. ASSUME NEW j \in LineEnds(s) \cup {e}, b <= j, j <= e PROVE j \in LinesHeld(q) \cup {e}
    BY <2>1, <1>1, <1>2, <1>4
  <2>2. ASSUME NEW j \in LinesHeld(q) \cup {e}
        PROVE  j \in LineEnds(s) \cup {e} /\ b <= j /\ j <= e
    BY <1>1, <1>3, <1>4
  <2> QED BY <2>1, <2>2
<1>7. e \in LineEnds(s) \ BlankEnds(s) => LinesHeld(e) = LinesHeld(q) \cup {e}
  <2> HAVE e \in LineEnds(s) \ BlankEnds(s)
  <2>1. BlockStart(s, e + 1) = b
    BY LineOf DEF b
  <2>2. LinesHeld(e) = {j \in LineEnds(s) \cup {e} : b <= j /\ j <= e}
    BY <2>1 DEF LinesHeld
  <2> QED BY <1>6, <2>2
<1>8. e \in BlankEnds(s) => LinesHeld(e) = {}
  <2> HAVE e \in BlankEnds(s)
  <2>1. BlockStart(s, e + 1) = e + 1
    BY LineOf
  <2> QED BY <1>1, <2>1 DEF LinesHeld
<1>9. \A i \in EventEnds(s) : i \in Nat /\ (i <= q \/ i >= e)
  BY <1>1, <1>2
<1>10. e \notin EventEnds(s) => {i \in EventEnds(s) : i <= e} = {i \in EventEnds(s) : i <= q}
  BY <1>1, <1>9
<1>11. e \in EventEnds(s) =>
         {i \in EventEnds(s) : i <= e} = {i \in EventEnds(s) : i <= q} \cup {e}
  BY <1>1, <1>9
<1> QED BY <1>3, <1>5, <1>6, <1>7, <1>8, <1>10, <1>11

(* buildEvent hands over the fields the lines of the block left            *)
(* (decoder.go:103-115).                                                   *)
LEMMA EventIsBuilt ==
  ASSUME NEW s, NEW i, NEW d \in Decoders,
         d.raw = SubSeq(s, BlockStart(s, i), i),
         NEW ends, HasFields(d, s, ends),
         \A field \in Byte :
           FieldLines(s, {j \in LineEnds(s) \cup {i} : BlockStart(s, i) <= j /\ j <= i}, field)
             = FieldLines(s, ends, field)
  PROVE  BuildEvent(d) \in Events /\ IsEventAt(BuildEvent(d), s, i)
<1> DEFINE ev == BuildEvent(d)
           all == {j \in LineEnds(s) \cup {i} : BlockStart(s, i) <= j /\ j <= i}
<1>1. /\ ev.raw = d.raw /\ ev.id = d.id /\ ev.data = d.data
      /\ ev.name = IF d.name = << >> THEN <<"message">> ELSE d.name
  BY DEF BuildEvent
<1>2. ev \in Events
  <2>1. <<"message">> \in Seq(Byte)
    BY DEF Byte
  <2> QED BY <2>1 DEF BuildEvent, Decoders, Events
<1>3. /\ FieldLines(s, all, "event") = FieldLines(s, ends, "event")
      /\ FieldLines(s, all, "id") = FieldLines(s, ends, "id")
      /\ FieldLines(s, all, "data") = FieldLines(s, ends, "data")
  BY DEF Byte
<1> HIDE DEF all
<1>4. /\ d.name = LastValue(s, FieldLines(s, all, "event"), << >>)
      /\ d.id = LastValue(s, FieldLines(s, all, "id"), << >>)
      /\ AllValues(s, FieldLines(s, all, "data"), d.data)
  BY <1>3 DEF HasFields
<1> HIDE DEF ev
<1>5. ev.name = LastValue(s, FieldLines(s, all, "event"), <<"message">>)
  BY <1>1, <1>4 DEF LastValue
<1>6. IsEventAt(ev, s, i)
  BY <1>1, <1>4, <1>5 DEF IsEventAt, all
<1> QED BY <1>2, <1>6 DEF ev

-----------------------------------------------------------------------------
(* The loop of Write.                                                      *)

(* f is what the first n rounds of the loop come to.                       *)
AreRounds(f, fresh, n) ==
  f = [k \in 0..n |->
         IF k = 0 THEN [dec |-> fresh, events |-> << >>] ELSE Round(fresh, k, f[k - 1])]

(* There are rounds for every buffer, so that Rounds is what its definition*)
(* says.                                                                   *)
LEMMA RoundsExist ==
  ASSUME NEW fresh, NEW n \in Nat
  PROVE  \E f : AreRounds(f, fresh, n)
<1> DEFINE P(k) == \E f : AreRounds(f, fresh, k)
           failing == {k \in Nat : ~P(k)}
<1>1. P(0)
  <2> DEFINE f == [k \in 0..0 |-> [dec |-> fresh, events |-> << >>]]
  <2>1. f = [k \in 0..0 |->
               IF k = 0 THEN [dec |-> fresh, events |-> << >>] ELSE Round(fresh, k, f[k - 1])]
    OBVIOUS
  <2>2. AreRounds(f, fresh, 0)
    BY <2>1 DEF AreRounds
  <2> QED BY <2>2
<1>2. ASSUME NEW k \in Nat, P(k) PROVE P(k + 1)
  <2>1. PICK f : AreRounds(f, fresh, k)
    BY <1>2
  <2> DEFINE g == [i \in 0..(k + 1) |-> IF i = k + 1 THEN Round(fresh, k + 1, f[k]) ELSE f[i]]
             h == [i \in 0..(k + 1) |->
                     IF i = 0 THEN [dec |-> fresh, events |-> << >>] ELSE Round(fresh, i, g[i - 1])]
  <2>2. ASSUME NEW i \in 0..(k + 1) PROVE g[i] = h[i]
    <3>1. CASE i = k + 1
      <4>1. i # 0 /\ i - 1 \in 0..(k + 1) /\ i - 1 = k /\ k # k + 1
        BY <3>1
      <4>2. g[i - 1] = f[k]
        BY <4>1
      <4> QED BY <3>1, <4>1, <4>2
    <3>2. CASE i # k + 1
      <4>1. i \in 0..k
        BY <3>2
      <4>2. g[i] = f[i]
        BY <3>2
      <4>3. f[i] = IF i = 0 THEN [dec |-> fresh, events |-> << >>] ELSE Round(fresh, i, f[i - 1])
        BY <2>1, <4>1, Zenon DEF AreRounds
      <4>4. i # 0 => g[i - 1] = f[i - 1]
        <5> HAVE i # 0
        <5>1. i - 1 \in 0..(k + 1) /\ i - 1 # k + 1
          BY <4>1
        <5> QED BY <5>1
      <4> HIDE DEF g
      <4>5. h[i] = IF i = 0 THEN [dec |-> fresh, events |-> << >>] ELSE Round(fresh, i, g[i - 1])
        OBVIOUS
      <4> QED BY <4>2, <4>3, <4>4, <4>5
    <3> QED BY <3>1, <3>2
  <2>3. g = h
    BY <2>2
  <2> HIDE DEF g
  <2>4. AreRounds(g, fresh, k + 1)
    BY <2>3 DEF AreRounds
  <2> QED BY <2>4
<1> HIDE DEF P
<1>3. failing = {}
  <2> SUFFICES ASSUME failing # {} PROVE FALSE
    OBVIOUS
  <2>1. failing \in SUBSET Nat
    OBVIOUS
  <2>2. PICK k \in failing : \A j \in failing : k <= j
    BY <2>1, LeastOf
  <2>3. k # 0 /\ k \in Nat /\ ~P(k)
    BY <1>1, <2>2
  <2>4. k - 1 \in Nat /\ (k - 1) + 1 = k /\ ~(k <= k - 1)
    BY <2>3
  <2>5. P(k - 1)
    BY <2>2, <2>4
  <2> QED BY <1>2, <2>3, <2>4, <2>5
<1> QED BY <1>3 DEF P

LEMMA RoundsAreTaken ==
  ASSUME NEW fresh, Len(fresh.buf) \in Nat
  PROVE  /\ Rounds(fresh)[0] = [dec |-> fresh, events |-> << >>]
         /\ \A k \in 1..Len(fresh.buf) : Rounds(fresh)[k] = Round(fresh, k, Rounds(fresh)[k - 1])
<1> DEFINE n == Len(fresh.buf)
           r == Rounds(fresh)
<1>1. \E f : AreRounds(f, fresh, n)
  BY RoundsExist
<1>2. r = CHOOSE f : AreRounds(f, fresh, n)
  BY Zenon DEF Rounds, AreRounds
<1>3. AreRounds(r, fresh, n)
  BY <1>1, <1>2, Zenon
<1> HIDE DEF n, r
<1>4. ASSUME NEW k \in 0..n
      PROVE  r[k] = IF k = 0 THEN [dec |-> fresh, events |-> << >>] ELSE Round(fresh, k, r[k - 1])
  BY <1>3, Zenon DEF AreRounds
<1>5. n \in Nat
  BY DEF n
<1>6. 0 \in 0..n /\ \A k \in 1..n : k \in 0..n /\ k # 0
  BY <1>5
<1> QED BY <1>4, <1>6 DEF n, r

(* What the loop has come to behind the first k bytes of the stream, of    *)
(* which z have arrived.                                                   *)
Progress(state, k, z) ==
  /\ state \in [dec : Decoders, events : Seq(Events)]
  /\ state.dec.max = dec.max
  /\ state.dec.err => \E j \in 1..k : Overlong(j)
  /\ ~state.dec.err =>
       LET q == LineStart(stream, k + 1) - 1
       IN  /\ HasTaken(state.dec, events \o state.events, q)
           /\ state.dec.buf = SubSeq(stream, q + 1, z)
           /\ \A j \in 1..q : ~Overlong(j)

(* Within a line nothing happens.                                          *)
LEMMA WithinLine ==
  ASSUME stream \in Seq(Byte), NEW k \in Nat, NEW z \in Nat, k + 1 \notin LineEnds(stream),
         NEW state, Progress(state, k, z)
  PROVE  Progress(state, k + 1, z)
<1>1. k + 1 \in Nat /\ k + 1 > 0
  OBVIOUS
<1>2. PICK q \in 0..((k + 1) - 1) :
        /\ LineStart(stream, k + 1) = q + 1
        /\ q = 0 \/ q \in LineEnds(stream)
        /\ \A j \in LineEnds(stream) : j < k + 1 => j <= q
  BY <1>1, LineStartProperties
<1>3. LineStart(stream, (k + 1) + 1) = q + 1
  <2>1. (k + 1) + 1 \in Nat /\ (k + 1) + 1 > 0 /\ q \in 0..(((k + 1) + 1) - 1)
    OBVIOUS
  <2>2. \A j \in LineEnds(stream) : j < (k + 1) + 1 => j <= q
    <3> TAKE j \in LineEnds(stream)
    <3>1. j \in Nat /\ j # k + 1
      BY EndsArePositions
    <3> HAVE j < (k + 1) + 1
    <3> QED BY <1>2, <3>1
  <2> QED BY <1>2, <2>1, <2>2, LineStartIs
<1>4. LineStart(stream, (k + 1) + 1) = LineStart(stream, k + 1)
  BY <1>2, <1>3
<1>5. (\E j \in 1..k : Overlong(j)) => \E j \in 1..(k + 1) : Overlong(j)
  <2>1. \A j \in 1..k : j \in 1..(k + 1)
    OBVIOUS
  <2> QED BY <2>1
<1> QED BY <1>4, <1>5 DEF Progress

(* p is what the line that ended at e, moved to m, leaves, and more the    *)
(* events then.                                                            *)
AfterLine(p, m, more, e) ==
  /\ p \in Decoders
  /\ HasTaken(p, more, e)
  /\ p.buf = m.buf /\ p.max = m.max /\ p.err = FALSE

(* A line that is not blank goes to the event (decoder.go:91).             *)
LEMMA FieldLineTaken ==
  ASSUME stream \in Seq(Byte), NEW q, NEW e, InLine(stream, q, e),
         e \in LineEnds(stream), e \notin BlankEnds(stream),
         NEW d \in Decoders, ~d.err, NEW list, HasTaken(d, list, q),
         NEW m, NEW z, HasMoved(m, d, q, e, z)
  PROVE  AfterLine(ProcessLine(m, Text(Line(stream, e))), m, list, e)
<1> DEFINE p == ProcessLine(m, Text(Line(stream, e)))
<1> SUFFICES AfterLine(p, m, list, e)
  OBVIOUS
<1>0. /\ m \in Decoders
      /\ m.raw = SubSeq(stream, BlockStart(stream, q + 1), e) /\ m.raw # << >>
      /\ m.name = d.name /\ m.id = d.id /\ m.data = d.data
      /\ m.err = FALSE
  BY DEF HasMoved, Decoders
<1>1. /\ LinesHeld(q) \subseteq 1..Len(stream)
      /\ \A j \in LinesHeld(q) : j < e
      /\ LinesHeld(e) = LinesHeld(q) \cup {e}
      /\ {i \in EventEnds(stream) : i <= e} = {i \in EventEnds(stream) : i <= q}
  <2>1. e \in LineEnds(stream) \ BlankEnds(stream) /\ e \notin EventEnds(stream)
    BY DEF EventEnds
  <2> QED BY <2>1, BlockGoesOn
<1>2. e \in 1..Len(stream)
  BY DEF InLine
<1>3. HasFields(m, stream, LinesHeld(q))
  BY <1>0 DEF HasTaken, HasFields
<1>4. /\ p \in Decoders
      /\ HasFields(p, stream, LinesHeld(e))
      /\ p.raw = m.raw /\ p.buf = m.buf /\ p.max = m.max /\ p.err = m.err
      /\ p.seen = TRUE
  <2> DEFINE ends == LinesHeld(q)
  <2>1. ends \subseteq 1..Len(stream) /\ (\A j \in ends : j < e) /\ HasFields(m, stream, ends)
    BY <1>1, <1>3
  <2> HIDE DEF ends
  <2>2. /\ p \in Decoders
        /\ HasFields(p, stream, ends \cup {e})
        /\ p.raw = m.raw /\ p.buf = m.buf /\ p.max = m.max /\ p.err = m.err
        /\ p.seen = TRUE
    <3>1. IsProcessed(p, m, stream, ends \cup {e})
      BY <1>0, <1>2, <2>1, LineIsProcessed
    <3> HIDE DEF p
    <3> QED BY <3>1 DEF IsProcessed
  <2> QED BY <1>1, <2>2 DEF ends
<1>5. p.raw = SubSeq(stream, BlockStart(stream, e + 1), e)
  BY <1>0, <1>4, LineOf
<1>6. Frames(list, stream, {i \in EventEnds(stream) : i <= e})
  BY <1>1 DEF HasTaken
<1> HIDE DEF p
<1> QED BY <1>0, <1>4, <1>5, <1>6 DEF HasTaken, AfterLine

(* reset leaves the cap and the buffer (decoder.go:117-123).               *)
LEMMA ResetLeaves ==
  ASSUME NEW m \in Decoders
  PROVE  /\ Reset(m) \in Decoders /\ Reset(m).buf = m.buf /\ Reset(m).max = m.max
         /\ Reset(m).raw = << >> /\ Reset(m).name = << >> /\ Reset(m).id = << >>
         /\ Reset(m).data = << >> /\ Reset(m).seen = FALSE /\ Reset(m).err = FALSE
<1>1. << >> \in Seq(Byte) /\ << >> \in Seq(Seq(Byte))
  BY EmptySeq
<1>2. m.max \in MaxEventSizes /\ m.buf \in Seq(Byte)
  BY DEF Decoders
<1>3. NewDecoder(m.max) \in Decoders
  BY <1>1, <1>2 DEF Decoders, NewDecoder
<1> QED BY <1>1, <1>2, <1>3 DEF Reset, NewDecoder, Decoders

(* Before the first line there is no field.                                *)
LEMMA NoFieldsYet ==
  ASSUME NEW d, NEW s, d.name = << >>, d.id = << >>, d.data = << >>
  PROVE  HasFields(d, s, {})
<1>1. \A field : FieldLines(s, {}, field) = {}
  BY DEF FieldLines
<1>2. LastValue(s, {}, << >>) = << >>
  BY DEF LastValue
<1>3. Cardinality({}) = 0 /\ Len(<< >>) = 0
  BY FS_EmptySet
<1>4. AllValues(s, {}, << >>)
  BY <1>3 DEF AllValues
<1> QED BY <1>1, <1>2, <1>4 DEF HasFields

(* A blank line ends the event and leaves an empty one (decoder.go:85-90,  *)
(* 117-123).                                                               *)
LEMMA BlankLineTaken ==
  ASSUME stream \in Seq(Byte), NEW q, NEW e, InLine(stream, q, e), e \in BlankEnds(stream),
         NEW d \in Decoders, NEW list \in Seq(Events), HasTaken(d, list, q),
         NEW m, NEW z, HasMoved(m, d, q, e, z)
  PROVE  /\ BuildEvent(m) \in Events
         /\ AfterLine(Reset(m), m, IF d.seen THEN Append(list, BuildEvent(m)) ELSE list, e)
<1> DEFINE b == BlockStart(stream, q + 1)
           s == stream
           p == Reset(m)
           more == IF d.seen THEN Append(list, BuildEvent(m)) ELSE list
<1> SUFFICES BuildEvent(m) \in Events /\ AfterLine(p, m, more, e)
  OBVIOUS
<1>0. /\ m \in Decoders
      /\ m.raw = SubSeq(stream, BlockStart(stream, q + 1), e)
      /\ m.name = d.name /\ m.id = d.id /\ m.data = d.data
  BY DEF HasMoved
<1>1. /\ q \in Nat /\ e \in Nat /\ q < e /\ e <= Len(s) /\ e \in 1..Len(s)
      /\ LineStart(s, e) = q + 1
      /\ BlockStart(s, e) = b /\ b \in 1..(q + 1)
      /\ BlockStart(s, e + 1) = e + 1
  <2>1. q \in Nat /\ e \in Nat /\ q < e
    BY LineOf
  <2>2. e \in (q + 1)..e
    BY <2>1
  <2>3. e \in 1..Len(s)
    BY DEF InLine
  <2>4. e <= Len(s) /\ LineStart(s, e) = q + 1 /\ b \in 1..(q + 1) /\ BlockStart(s, e + 1) = e + 1
    BY LineOf
  <2>5. BlockStart(s, e) = b
    BY <2>2, LineOf
  <2> QED BY <2>1, <2>3, <2>4, <2>5
<1>2. /\ LinesHeld(q) \subseteq 1..Len(s) /\ \A j \in LinesHeld(q) : j < e
      /\ {j \in LineEnds(s) \cup {e} : BlockStart(s, e) <= j /\ j <= e} = LinesHeld(q) \cup {e}
      /\ LinesHeld(e) = {}
      /\ e \notin EventEnds(s) => {i \in EventEnds(s) : i <= e} = {i \in EventEnds(s) : i <= q}
      /\ e \in EventEnds(s) =>
           {i \in EventEnds(s) : i <= e} = {i \in EventEnds(s) : i <= q} \cup {e}
  BY BlockGoesOn
<1>3. BuildEvent(m) \in Events /\ IsEventAt(BuildEvent(m), s, e)
  <2>1. HasFields(m, s, LinesHeld(q))
    BY <1>0 DEF HasTaken, HasFields
  <2>2. Text(Line(s, e)) = << >>
    BY DEF BlankEnds
  <2>3. ASSUME NEW field \in Byte
        PROVE  FieldLines(s, LinesHeld(q) \cup {e}, field) = FieldLines(s, LinesHeld(q), field)
    <3>1. Field(Text(Line(s, e))) # <<field>>
      BY <2>2, BlankHasNoField
    <3> QED BY <3>1 DEF FieldLines
  <2>4. m.raw = SubSeq(s, BlockStart(s, e), e)
    BY <1>0, <1>1
  <2> QED BY <1>0, <1>2, <2>1, <2>3, <2>4, EventIsBuilt
<1>4. d.seen <=> e \in EventEnds(s)
  <2>1. d.seen <=> d.raw # << >>
    BY DEF HasTaken
  <2>2. d.raw # << >> <=> b # q + 1
    <3> DEFINE a == b - 1
    <3>1. a \in Nat /\ a <= q /\ q <= Len(s) /\ b = a + 1 /\ Len(s) \in Nat
      BY <1>1, LenProperties
    <3>2. d.raw = SubSeq(s, a + 1, q)
      BY <3>1 DEF HasTaken
    <3> HIDE DEF a
    <3>3. d.raw \in Seq(Byte) /\ Len(d.raw) = q - a
      BY <1>1, <3>1, <3>2, StretchOf
    <3>4. d.raw = << >> <=> Len(d.raw) = 0
      BY <3>3, EmptySeq
    <3>5. q - a = 0 <=> b = q + 1
      BY <1>1, <3>1
    <3> QED BY <3>3, <3>4, <3>5
  <2>3. e \in EventEnds(s) <=> b # q + 1
    BY <1>1 DEF EventEnds
  <2> QED BY <2>1, <2>2, <2>3
<1>5. Frames(more, s, {i \in EventEnds(s) : i <= e})
  <2>1. Frames(list, s, {i \in EventEnds(s) : i <= q})
    BY DEF HasTaken
  <2>2. CASE e \in EventEnds(s)
    <3> DEFINE ends == {i \in EventEnds(s) : i <= q}
    <3>1. ends \subseteq 1..Len(s) /\ \A j \in ends : j < e
      BY <1>1, EndsArePositions
    <3> HIDE DEF ends
    <3>2. Frames(list, s, ends)
      BY <2>1 DEF ends
    <3>3. Frames(Append(list, BuildEvent(m)), s, ends \cup {e})
      BY <1>1, <1>3, <3>1, <3>2, FramesGrow
    <3> QED BY <1>2, <1>4, <2>2, <3>3 DEF ends
  <2>3. CASE e \notin EventEnds(s)
    BY <1>2, <1>4, <2>1, <2>3
  <2> QED BY <2>2, <2>3
<1>6. /\ p \in Decoders /\ p.buf = m.buf /\ p.max = m.max /\ p.err = FALSE
      /\ p.raw = << >> /\ p.name = << >> /\ p.id = << >> /\ p.data = << >> /\ p.seen = FALSE
  BY <1>0, ResetLeaves
<1>7. p.raw = SubSeq(s, BlockStart(s, e + 1), e)
  <2>1. SubSeq(s, e + 1, e) = << >>
    BY <1>1, EmptyStretch
  <2> QED BY <1>1, <1>6, <2>1
<1>8. HasFields(p, s, LinesHeld(e))
  <2> HIDE DEF p
  <2> QED BY <1>2, <1>6, NoFieldsYet
<1> HIDE DEF p, more
<1>9. HasTaken(p, more, e)
  BY <1>5, <1>6, <1>7, <1>8 DEF HasTaken
<1> QED BY <1>3, <1>6, <1>9 DEF AfterLine

(* One round takes one line, or fails for an event that is too long        *)
(* (decoder.go:63-92).                                                     *)
LEMMA LineIsTaken ==
  ASSUME TypeOK, NEW k \in Nat, NEW z \in Nat, k < z, z <= Len(stream),
         k + 1 \in LineEnds(stream),
         NEW state, Progress(state, k, z)
  PROVE  Progress(TakeLine(state, Line(stream, k + 1)), k + 1, z)
<1> DEFINE e == k + 1
           d == state.dec
           line == Line(stream, e)
           m == MoveLine(d, line)
           next == TakeLine(state, line)
           size == Len(d.raw) + Len(line)
<1>1. /\ stream \in Seq(Byte) /\ Len(stream) \in Nat
      /\ dec.max \in Int /\ events \in Seq(Events)
  BY StreamAssumption, LenProperties DEF TypeOK, Decoders
<1>2. /\ state \in [dec : Decoders, events : Seq(Events)]
      /\ d \in Decoders /\ d.max = dec.max /\ state.events \in Seq(Events)
  BY DEF Progress
<1>3. /\ e \in Nat /\ e > 0 /\ e <= z /\ e \in 1..Len(stream)
      /\ e \in LineEnds(stream) /\ e = k + 1
  BY <1>1
<1> SUFFICES Progress(next, e, z)
  OBVIOUS
<1> HIDE DEF e
<1>4. PICK q \in 0..(e - 1) :
        /\ LineStart(stream, e) = q + 1
        /\ q = 0 \/ q \in LineEnds(stream)
        /\ \A j \in LineEnds(stream) : j < e => j <= q
  BY <1>1, <1>3, LineStartProperties
<1>5. InLine(stream, q, e)
  BY <1>3, <1>4 DEF InLine
<1>6. CASE d.err
  <2>1. next = state
    BY <1>6 DEF TakeLine
  <2>2. \E j \in 1..k : Overlong(j)
    BY <1>6 DEF Progress
  <2>3. \A j \in 1..k : j \in 1..e
    BY <1>3
  <2>4. Progress(state, e, z)
    BY <1>2, <1>6, <2>2, <2>3 DEF Progress
  <2> QED BY <2>1, <2>4
<1>7. CASE ~d.err
  <2>1. /\ HasTaken(d, events \o state.events, q)
        /\ d.buf = SubSeq(stream, q + 1, z)
        /\ \A j \in 1..q : ~Overlong(j)
    <3>1. LineStart(stream, k + 1) - 1 = q
      BY <1>3, <1>4
    <3> QED BY <1>7, <3>1 DEF Progress
  <2>2. d.raw = SubSeq(stream, BlockStart(stream, q + 1), q)
    BY <2>1 DEF HasTaken
  <2>3. /\ q \in Nat /\ q < e
        /\ BlockStart(stream, q + 1) \in 1..(q + 1)
        /\ \A j \in (q + 1)..e : BlockStart(stream, j) = BlockStart(stream, q + 1)
        /\ LineStart(stream, e + 1) = e + 1
    <3>1. /\ q \in Nat /\ q < e
          /\ BlockStart(stream, q + 1) \in 1..(q + 1)
      BY <1>1, <1>5, LineOf
    <3>2. \A j \in (q + 1)..e : BlockStart(stream, j) = BlockStart(stream, q + 1)
      BY <1>1, <1>5, LineOf
    <3>3. LineStart(stream, e + 1) = e + 1
      BY <1>1, <1>3, <1>5, LineOf
    <3> QED BY <3>1, <3>2, <3>3
  <2>4. HasMoved(m, d, q, e, z)
    BY <1>1, <1>2, <1>3, <1>5, <2>1, <2>2, LineIsMoved
  <2>a. size = e + 1 - BlockStart(stream, q + 1)
    BY <2>4 DEF HasMoved
  <2>b. m.buf = SubSeq(stream, e + 1, z) /\ m.max = d.max
    BY <2>4 DEF HasMoved
  <2> HIDE DEF m
  <2>5. CASE OverCap(size)
    <3>1. next = [state EXCEPT !.dec.err = TRUE]
      BY <1>7, <2>5, Zenon DEF TakeLine
    <3>2. Overlong(e)
      <4>1. e \in (q + 1)..e
        BY <1>3, <2>3
      <4>2. BlockStart(stream, e) = BlockStart(stream, q + 1)
        BY <2>3, <4>1
      <4> QED BY <2>5, <2>a, <4>2 DEF Overlong
    <3>3. /\ next \in [dec : Decoders, events : Seq(Events)]
          /\ next.dec.max = dec.max /\ next.dec.err = TRUE
      <4>1. state.dec \in Decoders /\ state.events \in Seq(Events) /\ state.dec.max = dec.max
        BY <1>2
      <4>2. state = [dec |-> state.dec, events |-> state.events]
        BY <1>2
      <4> DEFINE failed == [state.dec EXCEPT !.err = TRUE]
      <4>3. next.dec = failed /\ next.events = state.events /\ next = [dec |-> failed, events |-> state.events]
        BY <3>1, <4>2
      <4>4. failed \in Decoders /\ failed.err = TRUE /\ failed.max = state.dec.max
        BY <4>1 DEF Decoders
      <4> HIDE DEF failed, next
      <4> QED BY <4>1, <4>3, <4>4
    <3>4. e \in 1..e
      BY <1>3
    <3> HIDE DEF next
    <3> QED BY <3>2, <3>3, <3>4 DEF Progress
  <2>6. CASE ~OverCap(size)
    <3>1. \A j \in 1..e : ~Overlong(j)
      <4> TAKE j \in 1..e
      <4>1. CASE j <= q
        BY <2>1, <4>1
      <4>2. CASE ~(j <= q)
        <5>1. j \in (q + 1)..e
          BY <1>3, <2>3, <4>2
        <5>2. BlockStart(stream, j) = BlockStart(stream, q + 1)
          BY <2>3, <5>1
        <5> HIDE DEF size
        <5>3. j + 1 - BlockStart(stream, q + 1) <= size
          BY <1>3, <2>3, <2>a, <5>1
        <5>4. size \in Int /\ j + 1 - BlockStart(stream, q + 1) \in Int
          BY <1>3, <2>3, <2>a, <5>1
        <5>5. ~OverCap(j + 1 - BlockStart(stream, q + 1))
          BY <1>1, <2>6, <5>3, <5>4 DEF OverCap
        <5> QED BY <5>2, <5>5 DEF Overlong
      <4> QED BY <4>1, <4>2
    <3>2. ASSUME NEW n \in [dec : Decoders, events : Seq(Events)],
                 n.dec.max = dec.max, n.dec.err = FALSE, n.dec.buf = m.buf,
                 HasTaken(n.dec, events \o n.events, e)
          PROVE  Progress(n, e, z)
      <4>1. LineStart(stream, e + 1) - 1 = e
        BY <1>3, <2>3
      <4> QED BY <2>b, <3>1, <3>2, <4>1 DEF Progress
    <3>3. CASE Text(line) # << >>
      <4> DEFINE p == ProcessLine(m, Text(line))
      <4>1. next = [state EXCEPT !.dec = p]
        BY <1>7, <2>6, <3>3 DEF TakeLine, m
      <4>2. e \notin BlankEnds(stream)
        BY <3>3 DEF BlankEnds
      <4>3. AfterLine(p, m, events \o state.events, e)
        BY <1>1, <1>2, <1>3, <1>5, <1>7, <2>1, <2>4, <4>2, FieldLineTaken
      <4> HIDE DEF p, next, d
      <4>4. next \in [dec : Decoders, events : Seq(Events)] /\ next.dec = p
            /\ next.events = state.events
        BY <1>2, <4>1, <4>3 DEF AfterLine
      <4> QED BY <1>2, <2>b, <3>2, <4>3, <4>4 DEF AfterLine
    <3>4. CASE Text(line) = << >>
      <4> DEFINE more == IF d.seen THEN Append(state.events, BuildEvent(m)) ELSE state.events
                 all == events \o state.events
      <4>1. next = [dec |-> Reset(m), events |-> more]
        BY <1>7, <2>6, <3>4 DEF TakeLine, m
      <4>2. e \in BlankEnds(stream)
        BY <1>3, <3>4 DEF BlankEnds
      <4>3. all \in Seq(Events)
        BY <1>1, <1>2, ConcatProperties
      <4>4. /\ BuildEvent(m) \in Events
            /\ AfterLine(Reset(m), m, IF d.seen THEN Append(all, BuildEvent(m)) ELSE all, e)
        <5>1. HasTaken(d, all, q)
          BY <2>1
        <5> HIDE DEF d, all
        <5> QED BY <1>1, <1>2, <1>5, <2>4, <4>2, <4>3, <5>1, BlankLineTaken
      <4>5. more \in Seq(Events)
        BY <1>2, <4>4, AppendProperties
      <4>6. events \o more = IF d.seen THEN Append(all, BuildEvent(m)) ELSE all
        <5> DEFINE ev == BuildEvent(m)
        <5>1. ev \in Events
          BY <4>4
        <5> HIDE DEF ev
        <5> HIDE DEF all
        <5>a. Append(state.events, ev) = state.events \o <<ev>>
          BY <1>2, <5>1, AppendIsConcat
        <5>2. Append(all, ev) = all \o <<ev>>
          BY <4>3, <5>1, AppendIsConcat
        <5>3. <<ev>> \in Seq(Events)
          BY <5>1
        <5> DEFINE last == <<ev>>
                   early == state.events
        <5>b. last \in Seq(Events) /\ early \in Seq(Events) /\ events \in Seq(Events)
          BY <1>1, <1>2, <5>3
        <5> HIDE DEF last, early
        <5>c. Regroups(events, early, last)
          BY <5>b, JoinsRegroup
        <5>4. (events \o early) \o last = events \o (early \o last)
          BY <5>c DEF Regroups
        <5>5. CASE d.seen
          <6>1. more = Append(state.events, ev)
            BY <5>5 DEF ev
          <6>2. events \o more = Append(all, ev)
            BY <5>a, <5>2, <5>4, <6>1 DEF all, last, early
          <6> QED BY <5>5, <6>2 DEF ev
        <5>6. CASE ~d.seen
          BY <5>6 DEF all
        <5> QED BY <5>5, <5>6
      <4> HIDE DEF next, more, all
      <4>7. /\ next \in [dec : Decoders, events : Seq(Events)]
            /\ next.dec = Reset(m) /\ next.events = more
        BY <4>1, <4>4, <4>5 DEF AfterLine
      <4> QED BY <1>2, <2>b, <3>2, <4>4, <4>6, <4>7 DEF AfterLine
    <3> QED BY <3>3, <3>4
  <2> QED BY <2>5, <2>6
<1> QED BY <1>6, <1>7

(* A line of the buffer is one of the stream, for the buffer begins with a *)
(* line.                                                                   *)
LEMMA LineOfTheBuffer ==
  ASSUME NEW s \in Seq(Byte), NEW p \in Nat, NEW z \in Nat, p <= z, z <= Len(s),
         p = 0 \/ p \in LineEnds(s),
         NEW k \in 1..(z - p)
  PROVE  /\ SubSeq(s, p + 1, z)[k] = s[p + k]
         /\ Line(SubSeq(s, p + 1, z), k) = Line(s, p + k)
<1> DEFINE t == SubSeq(s, p + 1, z)
           e == p + k
<1>1. t \in Seq(Byte) /\ Len(t) = z - p /\ \A i \in 1..(z - p) : t[i] = s[p + i]
  BY StretchOf
<1> HIDE DEF t
<1>2. Len(s) \in Nat /\ k \in Nat /\ k > 0 /\ e \in Nat /\ e > 0
  BY LenProperties
<1>3. PICK u \in 0..(k - 1) :
        /\ LineStart(t, k) = u + 1
        /\ u = 0 \/ u \in LineEnds(t)
        /\ \A j \in LineEnds(t) : j < k => j <= u
  BY <1>1, <1>2, LineStartProperties
<1> DEFINE v == p + u
<1>4. v \in 0..(e - 1) /\ u \in Nat /\ u <= k /\ k <= z - p
  BY <1>2, <1>3
<1>5. v = 0 \/ v \in LineEnds(s)
  <2>1. CASE u = 0
    BY <2>1
  <2>2. CASE u \in LineEnds(t)
    <3>1. u \in 1..(z - p) /\ t[u] = "LF"
      BY <1>1, <2>2 DEF LineEnds
    <3>2. v \in 1..Len(s) /\ s[v] = "LF"
      BY <1>1, <1>2, <3>1
    <3> QED BY <3>2 DEF LineEnds
  <2> QED BY <1>3, <2>1, <2>2
<1>6. ASSUME NEW j \in LineEnds(s), j < e PROVE j <= v
  <2>1. j \in Nat /\ s[j] = "LF"
    BY <1>2 DEF LineEnds
  <2>2. CASE j <= p
    BY <1>4, <2>1, <2>2
  <2>3. CASE ~(j <= p)
    <3> DEFINE i == j - p
    <3>1. i \in 1..(z - p) /\ p + i = j /\ i < k
      BY <1>4, <1>6, <2>1, <2>3
    <3> HIDE DEF i
    <3>2. t[i] = "LF"
      BY <1>1, <2>1, <3>1
    <3>3. i \in LineEnds(t)
      BY <1>1, <3>1, <3>2 DEF LineEnds
    <3>4. i <= u
      BY <1>3, <3>1, <3>3
    <3> QED BY <1>4, <3>1, <3>4
  <2> QED BY <2>2, <2>3
<1>7. LineStart(s, e) = v + 1
  <2> HIDE DEF e, v
  <2> QED BY <1>2, <1>4, <1>5, <1>6, LineStartIs
<1>8. SubSeq(t, u + 1, k) = SubSeq(s, p + u + 1, p + k)
  BY <1>2, <1>4, StretchOfStretch DEF t
<1>9. Line(t, k) = Line(s, e)
  BY <1>3, <1>7, <1>8 DEF Line
<1>10. t[k] = s[e]
  BY <1>1
<1> QED BY <1>9, <1>10 DEF t

(* The whole loop (decoder.go:63-92).                                      *)
LEMMA LoopProgresses ==
  ASSUME TypeOK, NEW p \in Nat, NEW z \in Nat, p <= z, z <= Len(stream),
         p = 0 \/ p \in LineEnds(stream),
         NEW fresh, fresh.buf = SubSeq(stream, p + 1, z),
         Progress([dec |-> fresh, events |-> << >>], p, z)
  PROVE  Progress(TakeLines(fresh), z, z)
<1> DEFINE r == Rounds(fresh)
           n == z - p
           failing == {k \in Nat : k <= n /\ ~Progress(r[k], p + k, z)}
<1>1. stream \in Seq(Byte) /\ Len(stream) \in Nat
  BY StreamAssumption, LenProperties DEF TypeOK
<1>2. Len(fresh.buf) = n /\ n \in Nat
  BY <1>1, StretchOf
<1>3. /\ r[0] = [dec |-> fresh, events |-> << >>]
      /\ \A k \in 1..n : r[k] = Round(fresh, k, r[k - 1])
  BY <1>2, RoundsAreTaken
<1> HIDE DEF r
<1>4. Progress(r[0], p + 0, z)
  BY <1>3
<1>5. ASSUME NEW k \in Nat, k < n, Progress(r[k], p + k, z)
      PROVE  Progress(r[k + 1], p + (k + 1), z)
  <2>1. /\ k + 1 \in 1..n /\ (k + 1) - 1 = k /\ p + (k + 1) = (p + k) + 1
        /\ p + k \in Nat /\ p + k < z
    BY <1>2, <1>5
  <2>2. r[k + 1] = Round(fresh, k + 1, r[k])
    BY <1>3, <2>1
  <2>3. /\ fresh.buf[k + 1] = stream[(p + k) + 1]
        /\ Line(fresh.buf, k + 1) = Line(stream, (p + k) + 1)
    <3>1. k + 1 \in 1..(z - p)
      BY <2>1
    <3>2. /\ SubSeq(stream, p + 1, z)[k + 1] = stream[p + (k + 1)]
          /\ Line(SubSeq(stream, p + 1, z), k + 1) = Line(stream, p + (k + 1))
      BY <1>1, <3>1, Zenon, LineOfTheBuffer
    <3> QED BY <2>1, <3>2, Zenon
  <2>4. (p + k) + 1 \in 1..Len(stream)
    BY <1>1, <2>1
  <2>5. CASE stream[(p + k) + 1] = "LF"
    <3>1. (p + k) + 1 \in LineEnds(stream)
      BY <2>4, <2>5 DEF LineEnds
    <3>2. r[k + 1] = TakeLine(r[k], Line(stream, (p + k) + 1))
      BY <2>2, <2>3, <2>5 DEF Round
    <3> QED BY <1>5, <2>1, <3>1, <3>2, LineIsTaken
  <2>6. CASE stream[(p + k) + 1] # "LF"
    <3>1. (p + k) + 1 \notin LineEnds(stream)
      BY <2>6 DEF LineEnds
    <3>2. r[k + 1] = r[k]
      BY <2>2, <2>3, <2>6 DEF Round
    <3> QED BY <1>1, <1>5, <2>1, <3>1, <3>2, WithinLine
  <2> QED BY <2>5, <2>6
<1>6. failing = {}
  <2> SUFFICES ASSUME failing # {} PROVE FALSE
    OBVIOUS
  <2>1. failing \in SUBSET Nat
    OBVIOUS
  <2>2. PICK k \in failing : \A j \in failing : k <= j
    BY <2>1, LeastOf
  <2>3. k # 0 /\ k \in Nat /\ k <= n /\ ~Progress(r[k], p + k, z)
    BY <1>4, <2>2
  <2>4. k - 1 \in Nat /\ (k - 1) + 1 = k /\ ~(k <= k - 1) /\ k - 1 < n /\ k - 1 <= n
    BY <1>2, <2>3
  <2>5. Progress(r[k - 1], p + (k - 1), z)
    BY <2>2, <2>4
  <2> QED BY <1>5, <2>3, <2>4, <2>5
<1>7. Progress(r[n], p + n, z) /\ p + n = z
  BY <1>2, <1>6
<1> QED BY <1>2, <1>7 DEF TakeLines, r

-----------------------------------------------------------------------------
(* All of Write.                                                           *)

(* The block that the rest behind the last line is in.                     *)
LEMMA BlockOfRest ==
  ASSUME NEW s \in Seq(Byte), NEW z \in Nat, z <= Len(s), NEW q \in 0..z,
         \A j \in LineEnds(s) : j < z + 1 => j <= q
  PROVE  /\ BlockStart(s, q + 1) \in 1..(q + 1)
         /\ \A j \in (q + 1)..(z + 1) : BlockStart(s, j) = BlockStart(s, q + 1)
         /\ BlockStart(s, q + 1) <= z => z > 0 /\ BlockStart(s, z) = BlockStart(s, q + 1)
<1>1. q \in Nat /\ q <= z /\ q + 1 \in Nat /\ q + 1 > 0
  OBVIOUS
<1>2. PICK a \in 0..((q + 1) - 1) :
        /\ BlockStart(s, q + 1) = a + 1
        /\ a = 0 \/ a \in BlankEnds(s)
        /\ \A j \in BlankEnds(s) : j < q + 1 => j <= a
  BY <1>1, BlockStartProperties
<1>3. a \in Nat /\ a <= q
  BY <1>1, <1>2
<1>4. ASSUME NEW j \in BlankEnds(s), j < z + 1 PROVE j <= a
  <2>1. j \in LineEnds(s) /\ j \in Nat
    BY EndsArePositions
  <2>2. j <= q
    BY <1>4, <2>1
  <2>3. j < q + 1
    BY <1>1, <2>1, <2>2
  <2> QED BY <1>2, <2>3
<1>5. ASSUME NEW j \in Nat, a < j, j <= z + 1 PROVE BlockStart(s, j) = a + 1
  <2>1. j > 0 /\ a \in 0..(j - 1)
    BY <1>3, <1>5
  <2>2. ASSUME NEW i \in BlankEnds(s), i < j PROVE i <= a
    <3>1. i \in Nat
      BY EndsArePositions
    <3>2. i < z + 1
      BY <1>5, <2>2, <3>1
    <3> QED BY <1>4, <3>2
  <2> QED BY <1>2, <2>1, <2>2, BlockStartIs
<1>6. ASSUME NEW j \in (q + 1)..(z + 1) PROVE BlockStart(s, j) = a + 1
  <2>1. j \in Nat /\ a < j /\ j <= z + 1
    BY <1>1, <1>3
  <2> QED BY <1>5, <2>1
<1>7. a + 1 <= z => z > 0 /\ BlockStart(s, z) = a + 1
  <2> HAVE a + 1 <= z
  <2>1. z > 0 /\ a < z /\ z <= z + 1
    BY <1>3
  <2> QED BY <1>5, <2>1
<1>8. a + 1 \in 1..(q + 1)
  BY <1>3
<1> QED BY <1>2, <1>6, <1>7, <1>8

(* scan.dec is what z bytes of the stream come to, and scan.events the     *)
(* events it brings.                                                       *)
HasScanned(scan, z) ==
  /\ scan.dec \in Decoders /\ scan.events \in Seq(Events)
  /\ scan.dec.max = dec.max
  /\ scan.dec.err <=> \E j \in 1..z : Overlong(j)
  /\ ~scan.dec.err =>
       LET q == LineStart(stream, z + 1) - 1
       IN  /\ HasTaken(scan.dec, events \o scan.events, q)
           /\ scan.dec.buf = SubSeq(stream, q + 1, z)

(* What the loop is given continues the line in the buffer.                *)
LEMMA BufferGrows ==
  ASSUME DecoderInv, ~dec.err, ~flushed, NEW n \in 0..(Len(stream) - fed),
         NEW fresh, fresh = [dec EXCEPT !.buf = @ \o SubSeq(stream, fed + 1, fed + n)],
         NEW p \in 0..fed, LineStart(stream, fed + 1) = p + 1, p = 0 \/ p \in LineEnds(stream)
  PROVE  /\ fresh.buf = SubSeq(stream, p + 1, fed + n)
         /\ Progress([dec |-> fresh, events |-> << >>], p, fed + n)
<1> DEFINE z == fed + n
           buf == dec.buf \o SubSeq(stream, fed + 1, z)
<1>1. /\ stream \in Seq(Byte) /\ Len(stream) \in Nat
      /\ dec \in Decoders /\ events \in Seq(Events)
  BY StreamAssumption, LenProperties DEF DecoderInv, TypeOK
<1>2. /\ fed \in Nat /\ p \in Nat /\ p <= fed /\ z \in Nat /\ fed <= z /\ z <= Len(stream)
      /\ p <= z /\ p <= Len(stream) /\ p + 1 \in Nat /\ p + 1 > 0 /\ p \in 0..((p + 1) - 1)
  BY <1>1 DEF DecoderInv, TypeOK
<1>3. HasTaken(dec, events, p) /\ dec.buf = SubSeq(stream, p + 1, fed)
  <2>1. LineStart(stream, fed + 1) - 1 = p
    BY <1>2
  <2> QED BY <2>1 DEF DecoderInv
<1>4. buf = SubSeq(stream, p + 1, z)
  <2> HIDE DEF z
  <2>0. /\ stream \in Seq(Byte) /\ p \in Nat /\ fed \in Nat /\ z \in Nat
        /\ p <= fed /\ fed <= z /\ z <= Len(stream)
    BY <1>1, <1>2
  <2>1. SubSeq(stream, p + 1, fed) \o SubSeq(stream, fed + 1, z) = SubSeq(stream, p + 1, z)
    BY <2>0, StretchesMeet
  <2> QED BY <1>3, <2>1
<1>5. buf \in Seq(Byte)
  BY <1>1, <1>2, <1>4, StretchOf
<1>6. fresh = [dec EXCEPT !.buf = buf]
  OBVIOUS
<1> HIDE DEF buf, z
<1>7. /\ fresh \in Decoders
      /\ fresh.buf = buf
      /\ fresh.raw = dec.raw /\ fresh.name = dec.name /\ fresh.id = dec.id
      /\ fresh.data = dec.data /\ fresh.seen = dec.seen
      /\ fresh.max = dec.max /\ fresh.err = FALSE
  BY <1>1, <1>5, <1>6 DEF Decoders
<1>8. LineStart(stream, p + 1) = p + 1
  <2>1. \A j \in LineEnds(stream) : j < p + 1 => j <= p
    BY <1>1, <1>2, EndsArePositions
  <2> QED BY <1>1, <1>2, <2>1, LineStartIs
<1>9. HasTaken(fresh, events, p)
  BY <1>3, <1>7 DEF HasTaken, HasFields
<1>10. \A j \in 1..p : ~Overlong(j)
  <2>1. \A j \in 1..p : j \in 1..fed
    BY <1>2
  <2> QED BY <2>1 DEF DecoderInv
<1>11. events \o << >> = events /\ << >> \in Seq(Events)
  BY <1>1, ConcatEmptySeq, EmptySeq
<1>12. Progress([dec |-> fresh, events |-> << >>], p, z)
  <2> DEFINE state == [dec |-> fresh, events |-> << >>]
  <2>1. /\ state \in [dec : Decoders, events : Seq(Events)]
        /\ state.dec = fresh /\ state.events = << >>
    BY <1>7, <1>11
  <2>2. LineStart(stream, p + 1) - 1 = p
    BY <1>2, <1>8
  <2> HIDE DEF state
  <2>3. Progress(state, p, z)
    BY <1>4, <1>7, <1>9, <1>10, <1>11, <2>1, <2>2 DEF Progress
  <2> QED BY <2>3 DEF state
<1> QED BY <1>4, <1>7, <1>12 DEF z

(* Write takes what it can, and fails if and only if an event has become   *)
(* too long (decoder.go:57-101).                                           *)
LEMMA ChunkIsScanned ==
  ASSUME DecoderInv, ~dec.err, ~flushed, NEW n \in 0..(Len(stream) - fed)
  PROVE  HasScanned(Scan(SubSeq(stream, fed + 1, fed + n)), fed + n)
<1> DEFINE z == fed + n
           chunk == SubSeq(stream, fed + 1, z)
           fresh == [dec EXCEPT !.buf = @ \o chunk]
           taken == TakeLines(fresh)
           scan == Scan(chunk)
           size == Pending(taken.dec)
<1>1. /\ stream \in Seq(Byte) /\ Len(stream) \in Nat
      /\ dec \in Decoders /\ dec.max \in Int /\ events \in Seq(Events)
  BY StreamAssumption, LenProperties DEF DecoderInv, TypeOK, Decoders
<1>2. /\ fed \in Nat /\ fed <= Len(stream) /\ z \in Nat /\ fed <= z /\ z <= Len(stream)
      /\ fed + 1 \in Nat /\ fed + 1 > 0 /\ z + 1 \in Nat /\ z + 1 > 0
  BY <1>1 DEF DecoderInv, TypeOK
<1>3. PICK p \in 0..((fed + 1) - 1) :
        LineStart(stream, fed + 1) = p + 1 /\ (p = 0 \/ p \in LineEnds(stream))
  BY <1>1, <1>2, LineStartProperties
<1>4. p \in 0..fed /\ p \in Nat /\ p <= z
  BY <1>2, <1>3
<1>5. PICK q \in 0..((z + 1) - 1) :
        LineStart(stream, z + 1) = q + 1 /\ \A j \in LineEnds(stream) : j < z + 1 => j <= q
  BY <1>1, <1>2, LineStartProperties
<1>6. Progress(taken, z, z)
  <2>1. /\ fresh.buf = SubSeq(stream, p + 1, z)
        /\ Progress([dec |-> fresh, events |-> << >>], p, z)
    BY <1>3, <1>4, BufferGrows
  <2>2. TypeOK
    BY DEF DecoderInv
  <2> HIDE DEF fresh, z
  <2> QED BY <1>2, <1>3, <1>4, <2>1, <2>2, LoopProgresses
<1>7. scan = IF OverCap(size) THEN [taken EXCEPT !.dec.err = TRUE] ELSE taken
  BY Zenon DEF Scan
<1> SUFFICES HasScanned(scan, z)
  OBVIOUS
<1> HIDE DEF taken, scan, z
<1>8. taken \in [dec : Decoders, events : Seq(Events)] /\ taken.dec.max = dec.max
  BY <1>6 DEF Progress
<1>9. [taken EXCEPT !.dec.err = TRUE] \in [dec : Decoders, events : Seq(Events)]
      /\ [taken EXCEPT !.dec.err = TRUE].dec.max = dec.max
      /\ [taken EXCEPT !.dec.err = TRUE].dec.err = TRUE
  BY <1>8 DEF Decoders
<1>10. CASE taken.dec.err
  <2>1. \E j \in 1..z : Overlong(j)
    BY <1>6, <1>10 DEF Progress
  <2>2. scan.dec.err = TRUE
    BY <1>7, <1>8, <1>9, <1>10 DEF Decoders
  <2>3. scan \in [dec : Decoders, events : Seq(Events)] /\ scan.dec.max = dec.max
    BY <1>7, <1>8, <1>9
  <2> QED BY <2>1, <2>2, <2>3 DEF HasScanned
<1>11. CASE ~taken.dec.err
  <2> DEFINE b == BlockStart(stream, q + 1)
  <2>1. /\ HasTaken(taken.dec, events \o taken.events, q)
        /\ taken.dec.buf = SubSeq(stream, q + 1, z)
        /\ \A j \in 1..q : ~Overlong(j)
    <3>1. LineStart(stream, z + 1) - 1 = q
      BY <1>2, <1>5
    <3> QED BY <1>6, <1>11, <3>1 DEF Progress
  <2>2. q \in 0..z /\ q \in Nat /\ q <= z /\ q <= Len(stream)
    BY <1>1, <1>2
  <2>3. /\ b \in 1..(q + 1)
        /\ \A j \in (q + 1)..(z + 1) : BlockStart(stream, j) = b
        /\ b <= z => z > 0 /\ BlockStart(stream, z) = b
    BY <1>1, <1>2, <1>5, <2>2, BlockOfRest
  <2> HIDE DEF b
  <2>4. size = z + 1 - b
    <3> DEFINE a == b - 1
    <3>1. a \in Nat /\ a <= q /\ b = a + 1
      BY <2>2, <2>3
    <3>2. taken.dec.raw = SubSeq(stream, a + 1, q)
      BY <2>1, <3>1 DEF HasTaken, b
    <3> HIDE DEF a
    <3>3. Len(taken.dec.raw) = q - a
      BY <1>1, <2>2, <3>1, <3>2, StretchOf
    <3>4. Len(taken.dec.buf) = z - q
      BY <1>1, <1>2, <2>1, <2>2, StretchOf
    <3>5. size = (q - a) + (z - q)
      BY <3>3, <3>4 DEF Pending
    <3> HIDE DEF size
    <3> QED BY <1>2, <2>2, <3>1, <3>5
  <2> HIDE DEF size
  <2>5. CASE OverCap(size)
    <3>1. b <= z
      BY <1>1, <1>2, <2>2, <2>3, <2>4, <2>5 DEF OverCap
    <3>2. z \in 1..z /\ Overlong(z)
      BY <1>2, <2>3, <2>4, <2>5, <3>1 DEF Overlong
    <3> QED BY <1>7, <1>9, <2>5, <3>2 DEF HasScanned
  <2>6. CASE ~OverCap(size)
    <3>1. ASSUME NEW j \in 1..z PROVE ~Overlong(j)
      <4>1. CASE j <= q
        BY <2>1, <4>1
      <4>2. CASE ~(j <= q)
        <5>1. j \in (q + 1)..(z + 1)
          BY <1>2, <2>2, <4>2
        <5>2. BlockStart(stream, j) = b
          BY <2>3, <5>1
        <5>3. j + 1 - b <= size /\ j + 1 - b \in Int /\ size \in Int
          BY <1>2, <2>2, <2>3, <2>4
        <5>4. ~OverCap(j + 1 - b)
          BY <1>1, <2>6, <5>3 DEF OverCap
        <5> QED BY <5>2, <5>4 DEF Overlong
      <4> QED BY <4>1, <4>2
    <3>2. scan = taken
      BY <1>7, <2>6
    <3>3. LineStart(stream, z + 1) - 1 = q
      BY <1>2, <1>5
    <3> QED BY <1>8, <1>11, <2>1, <3>1, <3>2, <3>3 DEF HasScanned
  <2> QED BY <2>5, <2>6
<1> QED BY <1>10, <1>11

-----------------------------------------------------------------------------
(* Flush.                                                                  *)

(* A line without a terminator has no text if it is empty or a lone CR.    *)
LEMMA TextIsBlank ==
  ASSUME NEW line \in Seq(Byte), \A i \in 1..Len(line) : line[i] # "LF"
  PROVE  Text(line) = << >> <=> line \in {<< >>, <<"CR">>}
<1>1. Len(line) \in Nat
  BY LenProperties
<1>2. CASE line = << >>
  BY <1>2 DEF Text
<1>3. CASE line # << >>
  <2> DEFINE n == Len(line)
             front == SubSeq(line, 1, n - 1)
  <2>1. n \in 1..n /\ n > 0 /\ n \in Nat
    BY <1>1, <1>3, EmptySeq
  <2>2. Last(line) = line[n] /\ Last(line) # "LF"
    BY <2>1 DEF Last
  <2>3. Text(line) = IF line[n] = "CR" THEN front ELSE line
    BY <1>3, <2>2 DEF Text, Front
  <2>4. Len(front) = n - 1 /\ front \in Seq(Byte)
    <3>1. 0 \in Nat /\ n - 1 \in Nat /\ 0 <= n - 1 /\ n - 1 <= n
      BY <2>1
    <3>2. Len(SubSeq(line, 0 + 1, n - 1)) = (n - 1) - 0 /\ SubSeq(line, 0 + 1, n - 1) \in Seq(Byte)
      BY <3>1, StretchOf
    <3> QED BY <2>1, <3>2
  <2> HIDE DEF front
  <2>5. front = << >> <=> n = 1
    BY <2>1, <2>4, EmptySeq
  <2>6. n = 1 /\ line[n] = "CR" <=> line = <<"CR">>
    <3>1. ASSUME n = 1, line[n] = "CR" PROVE line = <<"CR">>
      <4>1. <<"CR">> \in Seq(Byte) /\ Len(<<"CR">>) = 1 /\ <<"CR">>[1] = "CR"
        BY DEF Byte
      <4>2. Len(line) = Len(<<"CR">>) /\ \A i \in 1..Len(line) : line[i] = <<"CR">>[i]
        BY <3>1, <4>1
      <4> QED BY <4>1, <4>2, SeqEqual
    <3>2. line = <<"CR">> => n = 1 /\ line[n] = "CR"
      OBVIOUS
    <3> QED BY <3>1, <3>2
  <2> QED BY <1>3, <2>3, <2>5, <2>6
<1> QED BY <1>2, <1>3

(* What the rest of the stream comes to at its end.                        *)
TailTaken(last) ==
  /\ last \in Decoders /\ last.max = dec.max /\ last.err = FALSE
  /\ ~last.seen => TailEnds(stream) = {}
  /\ last.seen => /\ TailEnds(stream) = {Len(stream)}
                  /\ Len(stream) \in (1..Len(stream)) \ EventEnds(stream)
                  /\ BuildEvent(last) \in Events
                  /\ IsEventAt(BuildEvent(last), stream, Len(stream))

(* Where the decoder stands at end of stream: the event holds the bytes    *)
(* from b to q, and the buffer the line without a terminator behind them.  *)
AtEnd(q, b) ==
  /\ q \in Nat /\ b \in 1..(q + 1) /\ q <= Len(stream)
  /\ BlockStart(stream, q + 1) = b
  /\ BlockStart(stream, Len(stream) + 1) = b
  /\ b <= Len(stream) => Len(stream) > 0 /\ BlockStart(stream, Len(stream)) = b
  /\ q = 0 \/ q \in LineEnds(stream)
  /\ \A j \in LineEnds(stream) : j <= q
  /\ HasTaken(dec, events, q)
  /\ dec.buf = SubSeq(stream, q + 1, Len(stream))

LEMMA EndIsReached ==
  ASSUME DecoderInv, ~dec.err, ~flushed, fed = Len(stream)
  PROVE  \E q, b : AtEnd(q, b)
<1> DEFINE s == stream
           z == Len(s)
<1>1. s \in Seq(Byte) /\ z \in Nat /\ z <= z /\ z + 1 \in Nat /\ z + 1 > 0
  BY StreamAssumption, LenProperties DEF DecoderInv, TypeOK
<1>2. PICK q \in 0..((z + 1) - 1) :
        /\ LineStart(s, z + 1) = q + 1
        /\ q = 0 \/ q \in LineEnds(s)
        /\ \A j \in LineEnds(s) : j < z + 1 => j <= q
  BY <1>1, LineStartProperties
<1>3. q \in Nat /\ q \in 0..z /\ q <= z /\ LineStart(s, z + 1) - 1 = q
  BY <1>1, <1>2
<1>4. HasTaken(dec, events, q) /\ dec.buf = SubSeq(s, q + 1, z)
  BY <1>3 DEF DecoderInv
<1>5. \A j \in LineEnds(s) : j <= q
  <2> TAKE j \in LineEnds(s)
  <2>1. j \in 1..z
    BY <1>1, EndsArePositions
  <2>2. j < z + 1
    BY <1>1, <2>1
  <2> QED BY <1>2, <2>2
<1> DEFINE b == BlockStart(s, q + 1)
<1>6. /\ b \in 1..(q + 1)
      /\ \A j \in (q + 1)..(z + 1) : BlockStart(s, j) = b
      /\ b <= z => z > 0 /\ BlockStart(s, z) = b
  BY <1>1, <1>2, <1>3, BlockOfRest
<1>7. z + 1 \in (q + 1)..(z + 1)
  BY <1>1, <1>3
<1> HIDE DEF b
<1>8. AtEnd(q, b)
  BY <1>2, <1>3, <1>4, <1>5, <1>6, <1>7 DEF AtEnd, b
<1> QED BY <1>8

(* What is unfinished is a lone CR only if there is nothing before it, so  *)
(* that Flush finds an event exactly if there is one (decoder.go:162-184). *)
LEMMA TailIsAnEvent ==
  ASSUME stream \in Seq(Byte), NEW q, NEW b, AtEnd(q, b)
  PROVE  Unfinished(stream) \notin {<< >>, <<"CR">>} <=> Text(dec.buf) # << >> \/ dec.raw # << >>
<1> DEFINE z == Len(stream)
           a == b - 1
           rest == SubSeq(stream, a + 1, z)
<1>1. /\ q \in Nat /\ b \in 1..(q + 1) /\ q <= z /\ z \in Nat /\ z <= z
      /\ q = 0 \/ q \in LineEnds(stream)
      /\ \A j \in LineEnds(stream) : j <= q
      /\ dec.buf = SubSeq(stream, q + 1, z)
  BY LenProperties DEF AtEnd
<1>2. a \in Nat /\ b = a + 1 /\ a <= q /\ a <= z
  BY <1>1
<1> HIDE DEF a
<1>3. dec.raw = SubSeq(stream, a + 1, q)
  BY <1>2 DEF AtEnd, HasTaken
<1>4. Unfinished(stream) = rest
  BY <1>2 DEF AtEnd, Unfinished
<1>5. /\ dec.raw \in Seq(Byte) /\ Len(dec.raw) = q - a
      /\ \A i \in 1..(q - a) : dec.raw[i] = stream[a + i]
  BY <1>1, <1>2, <1>3, StretchOf
<1>6. /\ dec.buf \in Seq(Byte) /\ Len(dec.buf) = z - q
      /\ \A i \in 1..(z - q) : dec.buf[i] = stream[q + i]
  <2> HIDE DEF z
  <2>1. z <= Len(stream)
    BY <1>1 DEF z
  <2> QED BY <1>1, <2>1, StretchOf
<1>7. /\ rest \in Seq(Byte) /\ Len(rest) = z - a
      /\ \A i \in 1..(z - a) : rest[i] = stream[a + i]
  <2> HIDE DEF z
  <2>1. z <= Len(stream)
    BY <1>1 DEF z
  <2> QED BY <1>1, <1>2, <2>1, StretchOf
<1>8. Text(dec.buf) = << >> <=> dec.buf \in {<< >>, <<"CR">>}
  <2>1. ASSUME NEW i \in 1..Len(dec.buf) PROVE dec.buf[i] # "LF"
    <3>1. q + i \in 1..z /\ ~(q + i <= q) /\ dec.buf[i] = stream[q + i]
      BY <1>1, <1>6
    <3>2. q + i \notin LineEnds(stream)
      BY <1>1, <3>1
    <3> QED BY <3>1, <3>2 DEF LineEnds
  <2> QED BY <1>6, <2>1, TextIsBlank
<1>9. /\ dec.raw = << >> <=> q = a
      /\ dec.buf = << >> <=> q = z
      /\ rest = << >> <=> a = z
  <2>1. /\ dec.raw = << >> <=> q - a = 0
        /\ dec.buf = << >> <=> z - q = 0
        /\ rest = << >> <=> z - a = 0
    BY <1>5, <1>6, <1>7, EmptySeq
  <2> QED BY <1>1, <1>2, <2>1
<1>10. rest = <<"CR">> => z = a + 1 /\ stream[z] = "CR"
  <2> HAVE rest = <<"CR">>
  <2> HIDE DEF rest
  <2>1. Len(rest) = 1 /\ rest[1] = "CR"
    OBVIOUS
  <2>2. z = a + 1 /\ 1 \in 1..(z - a)
    BY <1>1, <1>2, <1>7, <2>1
  <2> QED BY <1>7, <2>1, <2>2
<1>11. CASE q = a
  <2>1. rest = dec.buf
    BY <1>1, <1>11
  <2> QED BY <1>4, <1>8, <1>9, <1>11, <2>1
<1>12. CASE q # a
  <2>1. q \in LineEnds(stream) /\ stream[q] = "LF" /\ a < q
    BY <1>1, <1>2, <1>12 DEF LineEnds
  <2>2. rest # << >>
    BY <1>1, <1>2, <1>9, <2>1
  <2>3. rest # <<"CR">>
    <3> SUFFICES ASSUME rest = <<"CR">> PROVE FALSE
      OBVIOUS
    <3>1. z = a + 1 /\ stream[z] = "CR"
      BY <1>10
    <3>2. q = z
      BY <1>1, <1>2, <2>1, <3>1
    <3> QED BY <2>1, <3>1, <3>2
  <2> QED BY <1>4, <1>9, <1>12, <2>2, <2>3
<1> QED BY <1>11, <1>12

(* m is the decoder with its buffer moved to the event.                    *)
HoldsTheRest(m, b) ==
  /\ m \in Decoders
  /\ m.raw = SubSeq(stream, b, Len(stream))
  /\ m.name = dec.name /\ m.id = dec.id /\ m.data = dec.data
  /\ m.max = dec.max /\ m.seen = dec.seen /\ m.err = FALSE

LEMMA RestIsMoved ==
  ASSUME TypeOK, ~dec.err, NEW q, NEW b, AtEnd(q, b)
  PROVE  HoldsTheRest(MoveLine(dec, dec.buf), b)
<1> DEFINE z == Len(stream)
           a == b - 1
           raw == dec.raw \o dec.buf
           buf == SubSeq(dec.buf, Len(dec.buf) + 1, Len(dec.buf))
           m == MoveLine(dec, dec.buf)
<1>1. /\ stream \in Seq(Byte) /\ dec \in Decoders /\ z \in Nat /\ z <= Len(stream)
      /\ q \in Nat /\ b \in 1..(q + 1) /\ q <= z
      /\ dec.buf = SubSeq(stream, q + 1, z) /\ dec.buf \in Seq(Byte)
  BY StreamAssumption, LenProperties DEF AtEnd, TypeOK, Decoders
<1>2. a \in Nat /\ b = a + 1 /\ a <= q /\ a <= z
  BY <1>1
<1> HIDE DEF a, z
<1>3. dec.raw = SubSeq(stream, a + 1, q)
  BY <1>2 DEF AtEnd, HasTaken
<1>4. raw = SubSeq(stream, a + 1, z)
  <2>1. SubSeq(stream, a + 1, q) \o SubSeq(stream, q + 1, z) = SubSeq(stream, a + 1, z)
    BY <1>1, <1>2, StretchesMeet
  <2> QED BY <1>1, <1>3, <2>1
<1>5. raw \in Seq(Byte)
  BY <1>1, <1>2, <1>4, StretchOf
<1>6. buf \in Seq(Byte)
  <2>1. Len(dec.buf) \in Nat /\ Len(dec.buf) <= Len(dec.buf)
    BY <1>1, LenProperties
  <2> QED BY <1>1, <2>1, StretchOf
<1>7. m = [dec EXCEPT !.raw = raw, !.buf = buf]
  BY DEF MoveLine
<1> SUFFICES HoldsTheRest(m, b)
  OBVIOUS
<1> HIDE DEF m, raw, buf
<1> QED BY <1>1, <1>2, <1>4, <1>5, <1>6, <1>7 DEF HoldsTheRest, Decoders, z

(* The end of stream is no end of an event that has been built already.    *)
LEMMA EndIsFresh ==
  ASSUME stream \in Seq(Byte), NEW q, NEW b, AtEnd(q, b), b <= Len(stream)
  PROVE  Len(stream) \in (1..Len(stream)) \ EventEnds(stream)
<1>1. Len(stream) \in Nat /\ Len(stream) > 0 /\ Len(stream) + 1 \in Nat
  BY LenProperties DEF AtEnd
<1>2. ASSUME Len(stream) \in BlankEnds(stream) PROVE FALSE
  <2>1. BlockStart(stream, Len(stream) + 1) = Len(stream) + 1
    <3> DEFINE z == Len(stream)
    <3>1. /\ z + 1 > 0 /\ z + 1 \in Nat /\ z \in 0..((z + 1) - 1) /\ z \in BlankEnds(stream)
          /\ \A j \in BlankEnds(stream) : j <= z
      BY <1>1, <1>2, EndsArePositions
    <3> HIDE DEF z
    <3>2. BlockStart(stream, z + 1) = z + 1
      BY <3>1, BlockStartIs
    <3> QED BY <3>2 DEF z
  <2>2. b = Len(stream) + 1
    BY <2>1 DEF AtEnd
  <2> QED BY <1>1, <2>2
<1> QED BY <1>1, <1>2 DEF EventEnds

(* The fields of last are those of the block that the stream ends in.      *)
BlockFields(last, ends) ==
  /\ HasFields(last, stream, ends)
  /\ \A field \in Byte :
       FieldLines(stream, {j \in LineEnds(stream) \cup {Len(stream)} :
                             BlockStart(stream, Len(stream)) <= j /\ j <= Len(stream)}, field)
         = FieldLines(stream, ends, field)

(* A tail with a text is one more line (decoder.go:166-174).               *)
LEMMA TailHasText ==
  ASSUME TypeOK, ~dec.err, NEW q, NEW b, AtEnd(q, b), q < Len(stream),
         NEW m, HoldsTheRest(m, b)
  PROVE  /\ Line(stream, Len(stream)) = dec.buf
         /\ Text(dec.buf) # << >> =>
              /\ IsProcessed(ProcessLine(m, Text(dec.buf)), m, stream,
                             LinesHeld(q) \cup {Len(stream)})
              /\ BlockFields(ProcessLine(m, Text(dec.buf)), LinesHeld(q) \cup {Len(stream)})
         /\ Text(dec.buf) = << >> => BlockFields(m, LinesHeld(q))
<1> DEFINE z == Len(stream)
           all == {j \in LineEnds(stream) \cup {z} : BlockStart(stream, z) <= j /\ j <= z}
           p == ProcessLine(m, Text(dec.buf))
<1>1. stream \in Seq(Byte) /\ z \in Nat /\ q \in Nat /\ z \in 1..z
  BY StreamAssumption, LenProperties DEF TypeOK, AtEnd
<1>2. InLine(stream, q, z)
  BY <1>1, EndsArePositions DEF AtEnd, InLine
<1>3. Line(stream, z) = dec.buf
  BY <1>1, <1>2, LineOf DEF AtEnd
<1>4. m \in Decoders /\ HasFields(m, stream, LinesHeld(q))
  BY DEF HoldsTheRest, AtEnd, HasTaken, HasFields
<1>5. /\ LinesHeld(q) \subseteq 1..Len(stream) /\ \A j \in LinesHeld(q) : j < z
      /\ all = LinesHeld(q) \cup {z}
  <2> HIDE DEF z
  <2> QED BY <1>1, <1>2, BlockGoesOn
<1> DEFINE held == LinesHeld(q)
<1>6. Text(dec.buf) # << >> => IsProcessed(p, m, stream, held \cup {z})
  <2> HIDE DEF held, p
  <2>1. held \subseteq 1..Len(stream) /\ (\A j \in held : j < z) /\ HasFields(m, stream, held)
    BY <1>4, <1>5 DEF held
  <2>2. IsProcessed(ProcessLine(m, Text(Line(stream, z))), m, stream, held \cup {z})
    BY <1>1, <1>4, <2>1, LineIsProcessed
  <2> QED BY <1>3, <2>2 DEF p
<1>7. Text(dec.buf) # << >> => BlockFields(p, held \cup {z})
  BY <1>5, <1>6 DEF IsProcessed, BlockFields
<1>8. Text(dec.buf) = << >> => BlockFields(m, held)
  <2> HAVE Text(dec.buf) = << >>
  <2>1. ASSUME NEW field \in Byte PROVE FieldLines(stream, held \cup {z}, field) = FieldLines(stream, held, field)
    <3>1. Field(Text(Line(stream, z))) # <<field>>
      BY <1>3, BlankHasNoField
    <3> QED BY <3>1 DEF FieldLines
  <2> QED BY <1>4, <1>5, <2>1 DEF BlockFields
<1> QED BY <1>3, <1>6, <1>7, <1>8

(* All of Flush's last line.                                               *)
LEMMA TailIsTaken ==
  ASSUME TypeOK, ~dec.err, NEW q, NEW b, AtEnd(q, b)
  PROVE  TailTaken(LastLine)
<1> DEFINE z == Len(stream)
           m == MoveLine(dec, dec.buf)
           p == ProcessLine(m, Text(dec.buf))
<1>1. /\ stream \in Seq(Byte) /\ z \in Nat /\ q \in Nat /\ b \in 1..(q + 1) /\ q <= z
      /\ q = 0 \/ q \in LineEnds(stream)
      /\ BlockStart(stream, q + 1) = b
      /\ b <= z => BlockStart(stream, z) = b
  BY StreamAssumption, LenProperties DEF TypeOK, AtEnd
<1>2. LastLine = IF Text(dec.buf) # << >> THEN p ELSE m
  BY DEF LastLine
<1>3. HoldsTheRest(m, b)
  BY RestIsMoved
<1> HIDE DEF m, p
<1>4. /\ m \in Decoders /\ m.raw = SubSeq(stream, b, z)
      /\ m.max = dec.max /\ m.seen = dec.seen /\ m.err = FALSE
  BY <1>3 DEF HoldsTheRest
<1>5. Unfinished(stream) \notin {<< >>, <<"CR">>} <=> Text(dec.buf) # << >> \/ dec.raw # << >>
  BY <1>1, TailIsAnEvent
<1>6. dec.seen <=> dec.raw # << >>
  BY DEF AtEnd, HasTaken
(* It is enough to know the fields where there is an event.                *)
<1>7. ASSUME NEW last \in Decoders, last.raw = m.raw, last.max = m.max, last.err = FALSE,
             last.seen <=> Text(dec.buf) # << >> \/ dec.raw # << >>,
             last.seen => b <= z /\ \E ends : BlockFields(last, ends)
      PROVE  TailTaken(last)
  <2>1. CASE ~last.seen
    <3>1. TailEnds(stream) = {}
      BY <1>5, <1>7, <2>1 DEF TailEnds
    <3> QED BY <1>4, <1>7, <2>1, <3>1 DEF TailTaken
  <2>2. CASE last.seen
    <3>1. PICK ends : BlockFields(last, ends)
      BY <1>7, <2>2
    <3>2. TailEnds(stream) = {z}
      BY <1>5, <1>7, <2>2 DEF TailEnds
    <3>3. last.raw = SubSeq(stream, BlockStart(stream, z), z)
      BY <1>1, <1>4, <1>7, <2>2
    <3>4. BuildEvent(last) \in Events /\ IsEventAt(BuildEvent(last), stream, z)
      BY <3>1, <3>3, EventIsBuilt DEF BlockFields
    <3>5. z \in (1..z) \ EventEnds(stream)
      BY <1>1, <1>7, <2>2, EndIsFresh
    <3> QED BY <1>4, <1>7, <2>2, <3>2, <3>4, <3>5 DEF TailTaken
  <2> QED BY <2>1, <2>2
<1>8. dec.raw # << >> => b <= q
  <2> DEFINE a == b - 1
  <2>1. a \in Nat /\ a <= q /\ b = a + 1 /\ q <= Len(stream)
    BY <1>1
  <2>2. dec.raw = SubSeq(stream, a + 1, q)
    BY <1>1, <2>1 DEF AtEnd, HasTaken
  <2> HIDE DEF a
  <2>3. q = a => dec.raw = << >>
    BY <1>1, <2>1, <2>2, EmptyStretch
  <2> QED BY <1>1, <2>1, <2>3
<1>9. dec.buf # << >> => q < z
  <2>1. q = Len(stream) => dec.buf = << >>
    BY <1>1, EmptyStretch DEF AtEnd
  <2> QED BY <1>1, <2>1
<1>10. Text(<< >>) = << >>
  BY DEF Text
<1>11. CASE Text(dec.buf) # << >>
  <2>1. q < z
    BY <1>9, <1>10, <1>11
  <2>2. IsProcessed(p, m, stream, LinesHeld(q) \cup {z}) /\ BlockFields(p, LinesHeld(q) \cup {z})
    BY <1>3, <1>11, <2>1, TailHasText DEF p
  <2>3. /\ p \in Decoders /\ p.raw = m.raw /\ p.max = m.max /\ p.err = FALSE /\ p.seen = TRUE
    BY <1>4, <2>2 DEF IsProcessed
  <2>4. b <= z
    BY <1>1, <2>1
  <2> QED BY <1>2, <1>7, <1>11, <2>2, <2>3, <2>4
<1>12. CASE Text(dec.buf) = << >>
  <2>1. dec.raw # << >> => b <= z
    BY <1>1, <1>8
  <2>2. dec.raw # << >> => BlockFields(m, LinesHeld(q))
    <3> HAVE dec.raw # << >>
    <3>1. CASE q < z
      BY <1>3, <1>12, <3>1, TailHasText
    <3>2. CASE ~(q < z)
      <4>1. q = z /\ b <= q /\ q \in LineEnds(stream) /\ BlockStart(stream, z) = b
        BY <1>1, <1>8, <3>2
      <4>2. {j \in LineEnds(stream) \cup {z} : BlockStart(stream, z) <= j /\ j <= z} = LinesHeld(q)
        BY <1>1, <4>1 DEF LinesHeld
      <4>3. HasFields(m, stream, LinesHeld(q))
        BY <1>3 DEF HoldsTheRest, AtEnd, HasTaken, HasFields
      <4> QED BY <4>2, <4>3 DEF BlockFields
    <3> QED BY <3>1, <3>2
  <2> QED BY <1>2, <1>4, <1>6, <1>7, <1>12, <2>1, <2>2
<1> QED BY <1>11, <1>12

-----------------------------------------------------------------------------
(* The invariant.                                                          *)

(* No line ends between the last one that was taken and z.                 *)
LEMMA NoEventInTheRest ==
  ASSUME NEW s \in Seq(Byte), NEW z \in Nat, NEW q \in 0..z,
         \A j \in LineEnds(s) : j < z + 1 => j <= q
  PROVE  {i \in EventEnds(s) : i <= z} = {i \in EventEnds(s) : i <= q}
<1>1. \A i \in EventEnds(s) : i \in Nat /\ i \in LineEnds(s)
  BY EndsArePositions
<1>2. \A i \in EventEnds(s) : i <= z <=> i <= q
  BY <1>1
<1> QED BY <1>2

(* What follows from a scan, whether it failed or not.                     *)
LEMMA ScanKeepsInv ==
  ASSUME DecoderInv, ~flushed, NEW n \in 0..(Len(stream) - fed),
         NEW scan, HasScanned(scan, fed + n),
         UNCHANGED <<stream, flushed>>, fed' = fed + n, dec' = scan.dec,
         events' \in Seq(Events), ~scan.dec.err => events' = events \o scan.events
  PROVE  DecoderInv'
<1> DEFINE z == fed + n
<1>1. /\ stream \in Streams /\ stream \in Seq(Byte) /\ Len(stream) \in Nat
      /\ fed \in Nat /\ fed <= Len(stream) /\ flushed = FALSE
  BY StreamAssumption, LenProperties DEF DecoderInv, TypeOK
<1>2. z \in Nat /\ z \in 0..Len(stream) /\ z + 1 \in Nat /\ z + 1 > 0
  BY <1>1
<1>3. /\ scan.dec \in Decoders /\ scan.dec.max = dec.max
      /\ scan.dec.err <=> \E j \in 1..z : Overlong(j)
  BY DEF HasScanned
<1>4. fed' = z /\ stream' = stream /\ flushed' = FALSE
  BY <1>1
<1> HIDE DEF z
<1>5. TypeOK'
  BY <1>1, <1>2, <1>3, <1>4 DEF TypeOK
<1>6. ASSUME NEW j \in 1..z PROVE Overlong(j)' <=> Overlong(j)
  BY <1>3, <1>4 DEF Overlong, OverCap
<1>7. (dec.err <=> \E j \in 1..fed : Overlong(j))'
  BY <1>3, <1>4, <1>6
<1>8. CASE scan.dec.err
  BY <1>5, <1>7, <1>8 DEF DecoderInv, FramesAreExact
<1>9. CASE ~scan.dec.err
  <2>1. PICK q \in 0..((z + 1) - 1) :
          LineStart(stream, z + 1) = q + 1 /\ \A j \in LineEnds(stream) : j < z + 1 => j <= q
    BY <1>1, <1>2, LineStartProperties
  <2>2. q \in 0..z /\ LineStart(stream, z + 1) - 1 = q
    BY <1>2, <2>1
  <2>3. HasTaken(dec', events', q) /\ dec'.buf = SubSeq(stream, q + 1, z)
    BY <1>9, <2>2 DEF HasScanned, z
  <2>4. HasTaken(dec, events, q)'
    BY <1>4, <2>3 DEF HasTaken, LinesHeld
  <2>5. Frames(events', stream, {i \in EventEnds(stream) : i <= z})
    BY <1>1, <1>2, <2>1, <2>2, <2>3, NoEventInTheRest DEF HasTaken
  <2>6. FramesAreExact'
    BY <1>4, <2>5 DEF FramesAreExact
  <2>7. LineStart(stream', fed' + 1) - 1 = q
    BY <1>4, <2>2
  <2> QED BY <1>4, <1>5, <1>7, <2>2, <2>3, <2>4, <2>6, <2>7 DEF DecoderInv
<1> QED BY <1>8, <1>9

LEMMA FlushKeepsInv ==
  ASSUME DecoderInv, Flush
  PROVE  DecoderInv'
<1>1. /\ stream \in Streams /\ stream \in Seq(Byte) /\ Len(stream) \in Nat
      /\ dec \in Decoders /\ events \in Seq(Events)
      /\ fed = Len(stream) /\ ~flushed /\ fed \in 0..Len(stream)
      /\ stream' = stream /\ fed' = fed /\ flushed' = TRUE
  BY StreamAssumption, LenProperties DEF DecoderInv, TypeOK, Flush
<1> DEFINE ends == {i \in EventEnds(stream) : i <= fed}
(* Flush never finds an event too long: nothing more has arrived.          *)
<1>2. ASSUME dec' \in Decoders, dec'.max = dec.max, dec'.err = dec.err, events' \in Seq(Events),
             ~dec.err => Frames(events', stream, ends \cup TailEnds(stream))
      PROVE  DecoderInv'
  <2>1. TypeOK'
    BY <1>1, <1>2 DEF TypeOK
  <2>2. ASSUME NEW j \in 1..fed PROVE Overlong(j)' <=> Overlong(j)
    BY <1>1, <1>2 DEF Overlong, OverCap
  <2>3. dec.err <=> \E j \in 1..fed : Overlong(j)
    BY DEF DecoderInv
  <2>4. (dec.err <=> \E j \in 1..fed : Overlong(j))'
    BY <1>1, <1>2, <2>2, <2>3
  <2>5. FramesAreExact'
    BY <1>1, <1>2 DEF FramesAreExact
  <2> QED BY <1>1, <2>1, <2>4, <2>5 DEF DecoderInv
<1>3. ~dec.err => Frames(events, stream, ends)
  BY <1>1 DEF DecoderInv, FramesAreExact
<1>4. CASE dec.err
  BY <1>1, <1>2, <1>4 DEF Flush
<1>5. CASE ~dec.err
  <2>1. TailTaken(LastLine)
    <3>1. \E q, b : AtEnd(q, b)
      BY <1>1, <1>5, EndIsReached
    <3> QED BY <1>5, <3>1, TailIsTaken DEF DecoderInv
  <2>2. CASE ~LastLine.seen
    <3>1. dec' = LastLine /\ events' = events
      BY <1>5, <2>2 DEF Flush
    <3>2. ends \cup TailEnds(stream) = ends
      BY <2>1, <2>2 DEF TailTaken
    <3>3. LastLine \in Decoders /\ LastLine.max = dec.max /\ LastLine.err = FALSE
      BY <2>1 DEF TailTaken
    <3> HIDE DEF ends
    <3>4. ~dec.err => Frames(events', stream, ends \cup TailEnds(stream))
      BY <1>3, <3>1, <3>2
    <3>5. dec.err = FALSE
      BY <1>1, <1>5 DEF Decoders
    <3>6. dec' \in Decoders /\ dec'.max = dec.max /\ dec'.err = dec.err /\ events' \in Seq(Events)
      BY <1>1, <3>1, <3>3, <3>5
    <3> QED BY <1>2, <3>4, <3>6
  <2>3. CASE LastLine.seen
    <3> DEFINE e == BuildEvent(LastLine)
               m == Len(stream)
    <3>1. dec' = Reset(LastLine) /\ events' = Append(events, e)
      BY <1>5, <2>3 DEF Flush
    <3>2. /\ LastLine \in Decoders /\ LastLine.max = dec.max
          /\ TailEnds(stream) = {m} /\ m \in 1..Len(stream) /\ m \notin EventEnds(stream)
          /\ e \in Events /\ IsEventAt(e, stream, m)
      BY <2>1, <2>3 DEF TailTaken
    <3>3. ends \subseteq 1..Len(stream) /\ \A j \in ends : j < m
      BY <1>1, <3>2, EndsArePositions
    <3>4. events' \in Seq(Events)
      BY <1>1, <3>1, <3>2, AppendProperties
    <3>5. Frames(events', stream, ends \cup {m})
      <4> HIDE DEF e, m, ends
      <4> QED BY <1>1, <1>3, <1>5, <3>1, <3>2, <3>3, FramesGrow
    <3>6. dec' \in Decoders /\ dec'.max = dec.max /\ dec'.err = FALSE
      BY <3>1, <3>2, ResetLeaves
    <3> QED BY <1>1, <1>2, <1>5, <3>2, <3>4, <3>5, <3>6 DEF Decoders
  <2> QED BY <2>2, <2>3
<1> QED BY <1>4, <1>5

(* The decoder begins with no line taken (NewDecoder, decoder.go:48-50).   *)
LEMMA InitEstablishesInv ==
  ASSUME Init
  PROVE  DecoderInv
<1>1. /\ stream \in Streams /\ stream \in Seq(Byte) /\ Len(stream) \in Nat
      /\ fed = 0 /\ events = << >> /\ flushed = FALSE
  BY StreamAssumption, LenProperties DEF Init
<1>2. /\ dec \in Decoders /\ dec.err = FALSE /\ dec.seen = FALSE
      /\ dec.raw = << >> /\ dec.buf = << >>
      /\ dec.name = << >> /\ dec.id = << >> /\ dec.data = << >>
  <2>1. << >> \in Seq(Byte) /\ << >> \in Seq(Seq(Byte))
    BY EmptySeq
  <2>2. PICK max \in MaxEventSizes : dec = NewDecoder(max)
    BY DEF Init
  <2> QED BY <2>1, <2>2 DEF NewDecoder, Decoders
<1>3. TypeOK
  <2>1. << >> \in Seq(Events) /\ 0 \in 0..Len(stream)
    BY <1>1, EmptySeq
  <2> QED BY <1>1, <1>2, <2>1, Zenon DEF TypeOK
<1>4. LineStart(stream, 1) = 1 /\ BlockStart(stream, 1) = 1
  <2>1. 1 \in Nat /\ 1 > 0 /\ 0 \in 0..(1 - 1) /\ 0 + 1 = 1
    OBVIOUS
  <2>2. \A j \in LineEnds(stream) : j < 1 => j <= 0
    BY <1>1, EndsArePositions
  <2>3. \A j \in BlankEnds(stream) : j < 1 => j <= 0
    BY <1>1, EndsArePositions
  <2>4. LineStart(stream, 1) = 0 + 1
    BY <1>1, <2>1, <2>2, LineStartIs
  <2>5. BlockStart(stream, 1) = 0 + 1
    BY <1>1, <2>1, <2>3, BlockStartIs
  <2> QED BY <2>4, <2>5
<1>5. SubSeq(stream, 1, 0) = << >>
  <2>1. SubSeq(stream, 0 + 1, 0) = << >>
    BY <1>1, EmptyStretch
  <2> QED BY <2>1
<1>6. LinesHeld(0) = {} /\ {i \in EventEnds(stream) : i <= 0} = {}
  <2>1. \A i \in LineEnds(stream) : ~(i <= 0)
    BY <1>1, EndsArePositions
  <2>2. \A i \in EventEnds(stream) : ~(i <= 0)
    BY <1>1, <2>1, EndsArePositions
  <2> QED BY <2>1, <2>2 DEF LinesHeld
<1>7. HasFields(dec, stream, LinesHeld(0))
  BY <1>2, <1>6, NoFieldsYet
<1>8. Frames(events, stream, {i \in EventEnds(stream) : i <= 0})
  <2>1. Cardinality({}) = 0 /\ Len(<< >>) = 0
    BY FS_EmptySet
  <2> QED BY <1>1, <1>6, <2>1 DEF Frames
<1>9. HasTaken(dec, events, 0)
  <2>1. 0 + 1 = 1
    OBVIOUS
  <2> QED BY <1>2, <1>4, <1>5, <1>7, <1>8, <2>1 DEF HasTaken
<1>10. FramesAreExact
  BY <1>1, <1>8 DEF FramesAreExact
<1>11. ~ \E j \in 1..fed : Overlong(j)
  BY <1>1
<1>12. LineStart(stream, fed + 1) - 1 = 0
  BY <1>1, <1>4
<1> QED BY <1>1, <1>2, <1>3, <1>5, <1>9, <1>10, <1>11, <1>12 DEF DecoderInv

(* Every call keeps the invariant.                                         *)
LEMMA NextKeepsInv ==
  ASSUME DecoderInv, [Next]_vars
  PROVE  DecoderInv'
<1>1. /\ dec \in Decoders /\ events \in Seq(Events)
      /\ Len(stream) \in Nat /\ fed \in 0..Len(stream)
  BY StreamAssumption, LenProperties DEF DecoderInv, TypeOK
<1> DEFINE chunk(n) == SubSeq(stream, fed + 1, fed + n)
<1>2. ASSUME NEW n \in 0..(Len(stream) - fed), Write(n) PROVE DecoderInv'
  <2> DEFINE scan == Scan(chunk(n))
  <2>1. /\ ~flushed /\ ~dec.err /\ fed' = fed + n /\ UNCHANGED <<stream, flushed>>
        /\ dec' = scan.dec /\ events' = events \o scan.events
    BY <1>2 DEF Write, Feed
  <2>2. HasScanned(scan, fed + n)
    BY <2>1, ChunkIsScanned
  <2> HIDE DEF scan
  <2>3. events' \in Seq(Events)
    BY <1>1, <2>1, <2>2, ConcatProperties DEF HasScanned
  <2> QED BY <2>1, <2>2, <2>3, ScanKeepsInv
<1>3. ASSUME NEW n \in 0..(Len(stream) - fed), WriteTooLarge(n) PROVE DecoderInv'
  <2> DEFINE scan == Scan(chunk(n))
  <2>1. /\ ~flushed /\ ~dec.err /\ fed' = fed + n /\ UNCHANGED <<stream, flushed>>
        /\ dec' = scan.dec /\ events' = events /\ scan.dec.err
    BY <1>3 DEF WriteTooLarge, Feed
  <2>2. HasScanned(scan, fed + n)
    BY <2>1, ChunkIsScanned
  <2> HIDE DEF scan
  <2> QED BY <1>1, <2>1, <2>2, ScanKeepsInv
<1>4. ASSUME NEW n \in 0..(Len(stream) - fed), WriteAgain(n) PROVE DecoderInv'
  <2> DEFINE z == fed + n
  <2>1. /\ dec.err /\ fed' = z /\ stream' = stream /\ flushed' = flushed
        /\ dec' = dec /\ events' = events
    BY <1>4 DEF WriteAgain, Feed
  <2>2. z \in Nat /\ z \in 0..Len(stream) /\ fed <= z /\ fed \in Nat
    BY <1>1
  <2> HIDE DEF z
  <2>3. TypeOK'
    BY <2>1, <2>2 DEF DecoderInv, TypeOK
  <2>4. ASSUME NEW j \in 1..fed PROVE Overlong(j)' <=> Overlong(j)
    BY <2>1 DEF Overlong, OverCap
  <2>5. \E j \in 1..fed : Overlong(j)
    BY <2>1 DEF DecoderInv
  <2>6. \A j \in 1..fed : j \in 1..z
    BY <2>2
  <2>7. \E j \in 1..fed' : Overlong(j)'
    BY <2>1, <2>4, <2>5, <2>6
  <2> QED BY <2>1, <2>3, <2>7 DEF DecoderInv, FramesAreExact
<1>5. CASE Flush
  BY <1>5, FlushKeepsInv
<1>6. CASE UNCHANGED vars
  BY <1>6 DEF vars, DecoderInv, TypeOK, Overlong, OverCap, HasTaken, LinesHeld, FramesAreExact
<1> QED BY <1>2, <1>3, <1>4, <1>5, <1>6 DEF Next

(* However the stream is cut, the lines that ended have been taken, the    *)
(* buffer holds the rest of the last one, and the error says whether an    *)
(* event was too long (Write, decoder.go:57-101; Flush, 162-184).          *)
THEOREM DecoderInvHolds == Spec => []DecoderInv
<1>1. Init => DecoderInv
  BY InitEstablishesInv
<1>2. DecoderInv /\ [Next]_vars => DecoderInv'
  BY NextKeepsInv
<1> QED BY <1>1, <1>2, PTL DEF Spec

(* Every event of the stream is handed over once, in order, byte for byte  *)
(* and field for field, and nothing else (decoder.go:57-115, 162-184).     *)
THEOREM EventsAreFramed == Spec => []FramesAreExact
<1>1. DecoderInv => FramesAreExact
  BY DEF DecoderInv
<1> QED BY <1>1, DecoderInvHolds, PTL

(* What is held between two chunks is the unfinished event, whole          *)
(* (decoder.go:57-101).                                                    *)
THEOREM UnfinishedHeld == Spec => []UnfinishedIsHeld
<1>1. DecoderInv => UnfinishedIsHeld
  <2> SUFFICES ASSUME DecoderInv, ~dec.err, ~flushed
               PROVE  dec.raw \o dec.buf = SubSeq(stream, BlockStart(stream, fed + 1), fed)
    BY DEF UnfinishedIsHeld
  <2>1. /\ stream \in Seq(Byte) /\ Len(stream) \in Nat
        /\ fed \in Nat /\ fed <= Len(stream) /\ fed + 1 \in Nat /\ fed + 1 > 0
    BY StreamAssumption, LenProperties DEF DecoderInv, TypeOK
  <2>2. PICK q \in 0..((fed + 1) - 1) :
          LineStart(stream, fed + 1) = q + 1 /\ \A j \in LineEnds(stream) : j < fed + 1 => j <= q
    BY <2>1, LineStartProperties
  <2>3. q \in 0..fed /\ q \in Nat /\ q <= fed /\ LineStart(stream, fed + 1) - 1 = q
    BY <2>1, <2>2
  <2> DEFINE b == BlockStart(stream, q + 1)
             a == b - 1
  <2>4. b \in 1..(q + 1) /\ \A j \in (q + 1)..(fed + 1) : BlockStart(stream, j) = b
    BY <2>1, <2>2, <2>3, BlockOfRest
  <2> HIDE DEF b
  <2>5. a \in Nat /\ b = a + 1 /\ a <= q /\ fed + 1 \in (q + 1)..(fed + 1)
    BY <2>1, <2>3, <2>4
  <2> HIDE DEF a
  <2>6. HasTaken(dec, events, q) /\ dec.buf = SubSeq(stream, q + 1, fed)
    BY <2>3 DEF DecoderInv
  <2>7. dec.raw = SubSeq(stream, a + 1, q)
    BY <2>5, <2>6 DEF HasTaken, b
  <2>8. SubSeq(stream, a + 1, q) \o SubSeq(stream, q + 1, fed) = SubSeq(stream, a + 1, fed)
    BY <2>1, <2>3, <2>5, StretchesMeet
  <2> QED BY <2>4, <2>5, <2>6, <2>7, <2>8
<1> QED BY <1>1, DecoderInvHolds, PTL

(* The decoder fails for an event longer than the cap and for nothing else *)
(* (decoder.go:68-75, 94-98).                                              *)
THEOREM CapHoldsForEvents == Spec => []EventCapIsExact
<1>1. DecoderInv => EventCapIsExact
  <2> SUFFICES ASSUME DecoderInv PROVE EventCapIsExact
    OBVIOUS
  <2> DEFINE ends == {j \in BlankEnds(stream) : j <= fed} \cup {fed}
             Long(i) == OverCap(i + 1 - BlockStart(stream, i))
  <2>1. stream \in Seq(Byte) /\ dec.max \in Int /\ fed \in Nat
    <3>1. stream \in Seq(Byte) /\ dec \in Decoders /\ fed \in 0..Len(stream)
      BY StreamAssumption DEF DecoderInv, TypeOK
    <3>2. Len(stream) \in Nat
      BY <3>1, LenProperties
    <3>3. dec.max \in Int
      BY <3>1, StreamAssumption DEF Decoders
    <3>4. fed \in Nat
      BY <3>1, <3>2
    <3> QED BY <3>1, <3>3, <3>4
  <2>2. BlankEnds(stream) \subseteq Nat /\ \A i \in BlankEnds(stream) : i > 0
    BY <2>1, EndsArePositions
  <2>3. dec.err <=> \E j \in 1..fed : Overlong(j)
    BY DEF DecoderInv
  <2>4. ASSUME NEW i \in ends, Long(i) PROVE \E j \in 1..fed : Overlong(j)
    <3>1. i \in Nat /\ i <= fed
      BY <2>1, <2>2
    <3>2. i # 0
      <4> SUFFICES ASSUME i = 0 PROVE FALSE
        OBVIOUS
      <4>1. {0} \cup {j \in BlankEnds(stream) : j < 0} = {0}
        BY <2>2
      <4>2. {0} \subseteq 0..0 /\ 0 \in {0} /\ \A j \in {0} : j <= 0
        OBVIOUS
      <4>3. Max({0}) = 0
        BY <4>2, MaxIs
      <4>4. BlockStart(stream, 0) = 1
        BY <4>1, <4>3 DEF BlockStart
      <4> QED BY <2>1, <2>4, <4>4 DEF OverCap
    <3> QED BY <2>4, <3>1, <3>2 DEF Overlong
  <2>5. ASSUME NEW j \in 1..fed, Overlong(j) PROVE \E i \in ends : Long(i)
    <3> DEFINE later == {i \in ends : j <= i}
    <3>1. later \in SUBSET Nat /\ fed \in later
      BY <2>1, <2>2, <2>5
    <3>2. PICK i \in later : \A k \in later : i <= k
      BY <3>1, LeastOf
    <3>3. i \in ends /\ i \in Nat /\ j \in Nat /\ j > 0 /\ j <= i /\ i <= fed /\ i > 0
      BY <2>1, <2>2, <2>5, <3>2
    <3>4. PICK a \in 0..(j - 1) :
            /\ BlockStart(stream, j) = a + 1
            /\ a = 0 \/ a \in BlankEnds(stream)
            /\ \A k \in BlankEnds(stream) : k < j => k <= a
      BY <2>1, <3>3, BlockStartProperties
    <3>5. BlockStart(stream, i) = a + 1
      <4>1. a \in 0..(i - 1)
        BY <3>3, <3>4
      <4>2. ASSUME NEW k \in BlankEnds(stream), k < i PROVE k <= a
        <5>1. k \in Nat /\ k <= fed /\ ~(i <= k)
          BY <2>1, <2>2, <3>3, <4>2
        <5>2. k \notin later
          BY <3>2, <5>1
        <5>3. k < j
          BY <3>3, <5>1, <5>2
        <5> QED BY <3>4, <5>3
      <4> QED BY <2>1, <3>3, <3>4, <4>1, <4>2, BlockStartIs
    <3>6. OverCap(j + 1 - (a + 1))
      BY <2>5, <3>4 DEF Overlong
    <3>7. OverCap(i + 1 - (a + 1))
      BY <2>1, <3>3, <3>4, <3>6 DEF OverCap
    <3> QED BY <3>3, <3>5, <3>7
  <2>6. dec.err <=> \E i \in ends : Long(i)
    BY <2>3, <2>4, <2>5
  <2> QED BY <2>6 DEF EventCapIsExact
<1> QED BY <1>1, DecoderInvHolds, PTL

-----------------------------------------------------------------------------
(* What is written on one line comes back (encoder.go:11-27).              *)

(* Every position of a list is the rank of one of the ends.                *)
LEMMA RankCovers ==
  ASSUME NEW n \in Nat, NEW S, S \subseteq 1..n, NEW k \in 1..Cardinality(S)
  PROVE  \E i \in S : Rank(S, i) = k
<1> DEFINE f == [i \in S |-> Rank(S, i)]
           c == Cardinality(S)
<1>1. c \in Nat /\ \A i \in S : Rank(S, i) \in 1..c
  <2>1. n + 1 \in Nat /\ \A j \in S : j < n + 1
    OBVIOUS
  <2> QED BY <2>1, RankOfOthers
<1>2. IsFiniteSet(1..c) /\ Cardinality(1..c) = c
  <2>1. 1 \in Int /\ c \in Int /\ (IF 1 > c THEN 0 ELSE c - 1 + 1) = c
    BY <1>1
  <2> QED BY <2>1, FS_Interval
<1>3. ASSUME NEW i \in S, NEW j \in S, i < j PROVE Rank(S, i) # Rank(S, j)
  <2> DEFINE low == {x \in S : x <= i}
             high == {x \in S : x <= j}
  <2>0. \A x \in S : x \in Nat /\ x <= n
    OBVIOUS
  <2>1. IsFiniteSet(high)
    <3>1. high \in SUBSET Nat /\ \A x \in high : x <= n
      BY <2>0
    <3> HIDE DEF high
    <3> QED BY <3>1, FS_BoundedSetOfNaturals
  <2>2. low \in SUBSET high /\ j \in high /\ j \notin low
    <3>1. ~(j <= i) /\ j <= j /\ \A x \in S : x <= i => x <= j
      BY <1>3, <2>0
    <3> QED BY <3>1
  <2> HIDE DEF low, high
  <2>3. Cardinality(low) # Cardinality(high)
    BY <2>1, <2>2, FS_Subset
  <2> QED BY <2>3 DEF Rank, low, high
<1>4. f \in Injection(S, 1..c)
  <2>1. f \in [S -> 1..c]
    BY <1>1
  <2>2. ASSUME NEW i \in S, NEW j \in S, i # j PROVE f[i] # f[j]
    <3>1. i < j \/ j < i
      BY <2>2
    <3>2. Rank(S, i) # Rank(S, j)
      BY <1>3, <3>1
    <3> QED BY <3>2
  <2> HIDE DEF f
  <2> QED BY <2>1, <2>2 DEF Injection, IsInjective
<1>5. f \in Surjection(S, 1..c)
  <2> HIDE DEF f, c
  <2>1. Cardinality(S) = Cardinality(1..c)
    BY <1>2 DEF c
  <2> QED BY <1>2, <1>4, <2>1, FS_Injection
<1>6. \E i \in S : f[i] = k
  <2> HIDE DEF f
  <2> QED BY <1>5 DEF Surjection
<1> QED BY <1>6

(* v has room on one line.                                                 *)
OnOneLine(v) == \A i \in 1..Len(v) : v[i] # "LF"

LEMMA StretchOnOneLine ==
  ASSUME NEW s \in Seq(Byte), NEW a \in Nat, NEW z \in Nat, a <= z, z <= Len(s),
         \A i \in 1..z : s[i] # "LF"
  PROVE  OnOneLine(SubSeq(s, a + 1, z))
<1> DEFINE t == SubSeq(s, a + 1, z)
<1>1. Len(t) = z - a /\ \A i \in 1..(z - a) : t[i] = s[a + i]
  BY StretchOf
<1> HIDE DEF t
<1>2. \A i \in 1..(z - a) : a + i \in 1..z
  OBVIOUS
<1>3. \A i \in 1..Len(t) : t[i] # "LF"
  BY <1>1, <1>2
<1> QED BY <1>3 DEF OnOneLine, t

LEMMA TextOnOneLine ==
  ASSUME NEW line \in Seq(Byte), \A i \in 1..(Len(line) - 1) : line[i] # "LF"
  PROVE  OnOneLine(Text(line))
<1> DEFINE bare == IF line # << >> /\ Last(line) = "LF" THEN Front(line) ELSE line
           WithoutLast(t) == SubSeq(t, 0 + 1, Len(t) - 1)
<1>1. Len(line) \in Nat
  BY LenProperties
<1>2. ASSUME NEW t \in Seq(Byte), t # << >>, \A i \in 1..(Len(t) - 1) : t[i] # "LF"
      PROVE  Front(t) \in Seq(Byte) /\ OnOneLine(Front(t))
  <2>1. Len(t) \in Nat /\ Len(t) > 0
    BY <1>2, EmptySeq, LenProperties
  <2>2. 0 \in Nat /\ Len(t) - 1 \in Nat /\ 0 <= Len(t) - 1 /\ Len(t) - 1 <= Len(t)
    BY <2>1
  <2>3. SubSeq(t, 0 + 1, Len(t) - 1) \in Seq(Byte)
    BY <2>2, StretchOf
  <2>4. OnOneLine(SubSeq(t, 0 + 1, Len(t) - 1))
    BY <1>2, <2>2, StretchOnOneLine
  <2>5. Front(t) = SubSeq(t, 0 + 1, Len(t) - 1)
    BY DEF Front
  <2> QED BY <2>3, <2>4, <2>5
<1>3. bare \in Seq(Byte) /\ OnOneLine(bare)
  <2>1. CASE line # << >> /\ Last(line) = "LF"
    BY <1>2, <2>1
  <2>2. CASE line = << >>
    BY <2>2 DEF OnOneLine
  <2>3. CASE line # << >> /\ Last(line) # "LF"
    <3>1. line[Len(line)] # "LF"
      BY <2>3 DEF Last
    <3>2. \A i \in 1..Len(line) : i = Len(line) \/ i \in 1..(Len(line) - 1)
      BY <1>1
    <3>3. OnOneLine(line)
      BY <3>1, <3>2 DEF OnOneLine
    <3> QED BY <2>3, <3>3
  <2> QED BY <2>1, <2>2, <2>3
<1> HIDE DEF bare
<1>4. Text(line) = IF bare # << >> /\ Last(bare) = "CR" THEN Front(bare) ELSE bare
  BY DEF Text, bare
<1>5. bare # << >> => OnOneLine(Front(bare))
  <2>1. Len(bare) \in Nat
    BY <1>3, LenProperties
  <2>2. \A i \in 1..(Len(bare) - 1) : i \in 1..Len(bare)
    BY <2>1
  <2>3. \A i \in 1..(Len(bare) - 1) : bare[i] # "LF"
    BY <1>3, <2>2 DEF OnOneLine
  <2> QED BY <1>2, <1>3, <2>3
<1> QED BY <1>3, <1>4, <1>5

LEMMA ValueOnOneLine ==
  ASSUME NEW text \in Seq(Byte), OnOneLine(text)
  PROVE  OnOneLine(Value(text))
<1> DEFINE c == Colon(text)
           value == IF c = 0 THEN << >> ELSE SubSeq(text, c + 1, Len(text))
<1>1. Len(text) \in Nat /\ OnOneLine(<< >>)
  BY LenProperties DEF OnOneLine
<1>2. c \in 0..Len(text)
  BY ColonIsPosition
<1>3. value \in Seq(Byte) /\ OnOneLine(value)
  <2> HIDE DEF c
  <2>1. c \in Nat /\ c <= Len(text) /\ Len(text) <= Len(text)
    BY <1>1, <1>2
  <2>2. SubSeq(text, c + 1, Len(text)) \in Seq(Byte)
    BY <1>1, <2>1, StretchOf
  <2>3. \A i \in 1..Len(text) : text[i] # "LF"
    BY DEF OnOneLine
  <2>4. OnOneLine(SubSeq(text, c + 1, Len(text)))
    BY <1>1, <2>1, <2>3, StretchOnOneLine
  <2> QED BY <1>1, <2>2, <2>4, EmptySeq
<1>4. Value(text) = IF value # << >> /\ Head(value) = "SP" THEN Tail(value) ELSE value
  BY DEF Value
<1> HIDE DEF value
<1>5. value # << >> => OnOneLine(Tail(value))
  <2> HAVE value # << >>
  <2>1. Len(value) \in Nat
    BY <1>3, LenProperties
  <2>2. Len(Tail(value)) = Len(value) - 1
        /\ \A i \in 1..Len(Tail(value)) : Tail(value)[i] = value[i + 1]
    BY <1>3, HeadTailProperties
  <2>3. \A i \in 1..(Len(value) - 1) : i + 1 \in 1..Len(value)
    BY <2>1
  <2> QED BY <1>3, <2>2, <2>3 DEF OnOneLine
<1> QED BY <1>3, <1>4, <1>5

LEMMA LineValueOnOneLine ==
  ASSUME NEW s \in Seq(Byte), NEW i \in 1..Len(s)
  PROVE  OnOneLine(Value(Text(Line(s, i))))
<1>1. Len(s) \in Nat /\ i \in Nat /\ i > 0 /\ i <= Len(s)
  BY LenProperties
<1>2. PICK q \in 0..(i - 1) :
        /\ LineStart(s, i) = q + 1
        /\ \A j \in LineEnds(s) : j < i => j <= q
  BY <1>1, LineStartProperties
<1>3. q \in Nat /\ q <= i
  BY <1>1, <1>2
<1> DEFINE line == SubSeq(s, q + 1, i)
<1>4. line \in Seq(Byte) /\ Len(line) = i - q /\ \A j \in 1..(i - q) : line[j] = s[q + j]
  BY <1>1, <1>3, StretchOf
<1> HIDE DEF line
<1>5. ASSUME NEW j \in 1..(Len(line) - 1) PROVE line[j] # "LF"
  <2>1. j \in 1..(i - q) /\ q + j \in 1..Len(s) /\ q + j < i /\ ~(q + j <= q)
    BY <1>1, <1>3, <1>4
  <2>2. q + j \notin LineEnds(s)
    BY <1>2, <2>1
  <2> QED BY <1>4, <2>1, <2>2 DEF LineEnds
<1>6. Line(s, i) = line
  BY <1>2 DEF Line, line
<1> QED BY <1>4, <1>5, <1>6, TextType, TextOnOneLine, ValueOnOneLine

(* A name and an id that fit on a line each, the name never empty.         *)
FitsOnLines(e) == e.name # << >> /\ OnOneLine(e.name) /\ OnOneLine(e.id)

LEMMA LastValueOnOneLine ==
  ASSUME NEW s \in Seq(Byte), NEW lines, lines \subseteq 1..Len(s), NEW default, OnOneLine(default)
  PROVE  /\ OnOneLine(LastValue(s, lines, default))
         /\ default # << >> => LastValue(s, lines, default) # << >>
<1> DEFINE value == IF lines = {} THEN << >> ELSE Value(Text(Line(s, Max(lines))))
<1>1. OnOneLine(value)
  <2>1. CASE lines = {}
    BY <2>1 DEF OnOneLine
  <2>2. CASE lines # {}
    <3>1. Len(s) \in Nat
      BY LenProperties
    <3>2. lines \subseteq 0..Len(s)
      BY <3>1
    <3>3. Max(lines) \in 1..Len(s)
      BY <2>2, <3>1, <3>2, MaxOfBounded
    <3>4. OnOneLine(Value(Text(Line(s, Max(lines)))))
      BY <3>3, LineValueOnOneLine
    <3> QED BY <2>2, <3>4
  <2> QED BY <2>1, <2>2
<1>2. LastValue(s, lines, default) = IF value = << >> THEN default ELSE value
  BY DEF LastValue
<1> HIDE DEF value
<1> QED BY <1>1, <1>2

LEMMA FramesFit ==
  ASSUME NEW s \in Seq(Byte), NEW ends, ends \subseteq 1..Len(s), NEW list, Frames(list, s, ends)
  PROVE  \A e \in ToSet(list) : FitsOnLines(e)
<1> SUFFICES ASSUME NEW k \in 1..Len(list) PROVE FitsOnLines(list[k])
  BY DEF ToSet
<1>1. Len(s) \in Nat /\ k \in 1..Cardinality(ends)
  BY LenProperties DEF Frames
<1>2. PICK i \in ends : Rank(ends, i) = k
  BY <1>1, RankCovers
<1>3. IsEventAt(list[k], s, i)
  BY <1>2 DEF Frames
<1> DEFINE near == {j \in LineEnds(s) \cup {i} : BlockStart(s, i) <= j /\ j <= i}
<1>4. near \subseteq 1..Len(s)
  BY EndsArePositions
<1> HIDE DEF near
<1>5. \A field : FieldLines(s, near, field) \subseteq 1..Len(s)
  BY <1>4 DEF FieldLines
<1>6. /\ list[k].name = LastValue(s, FieldLines(s, near, "event"), <<"message">>)
      /\ list[k].id = LastValue(s, FieldLines(s, near, "id"), << >>)
  BY <1>3 DEF IsEventAt, near
<1>7. OnOneLine(<<"message">>) /\ OnOneLine(<< >>) /\ <<"message">> # << >>
  BY DEF OnOneLine
<1>8. OnOneLine(list[k].name) /\ list[k].name # << >>
  BY <1>5, <1>6, <1>7, LastValueOnOneLine
<1>9. OnOneLine(list[k].id)
  BY <1>5, <1>6, <1>7, LastValueOnOneLine
<1> QED BY <1>8, <1>9 DEF FitsOnLines

(* The name and the id of every event handed over fit on a line each.      *)
EventsFit == \A e \in ToSet(events) : FitsOnLines(e)

LEMMA EventsStayFit ==
  ASSUME DecoderInv, DecoderInv', EventsFit, [Next]_vars
  PROVE  EventsFit'
<1>1. ASSUME ~dec'.err PROVE EventsFit'
  <2> DEFINE ends == {i \in EventEnds(stream) : i <= fed} \cup (IF flushed THEN TailEnds(stream) ELSE {})
  <2>1. stream' \in Seq(Byte) /\ Len(stream') \in Nat
    BY StreamAssumption, LenProperties DEF DecoderInv, TypeOK
  <2>2. Frames(events', stream', ends')
    BY <1>1 DEF DecoderInv, FramesAreExact
  <2>3. EventEnds(stream') \subseteq 1..Len(stream')
    BY <2>1, EndsArePositions
  <2>4. TailEnds(stream') \subseteq 1..Len(stream')
    <3> SUFFICES ASSUME Unfinished(stream') # << >> PROVE Len(stream') > 0
      BY <2>1 DEF TailEnds
    <3> SUFFICES ASSUME Len(stream') = 0 PROVE FALSE
      BY <2>1
    <3> DEFINE n == Len(stream')
    <3>1. n \in Nat /\ n <= Len(stream') /\ n + 1 \in Nat /\ n + 1 > 0
          /\ \A q \in 0..((n + 1) - 1) : q = n
      BY <2>1
    <3>2. Unfinished(stream') = SubSeq(stream', BlockStart(stream', n + 1), n)
      BY DEF Unfinished
    <3> HIDE DEF n
    <3>3. BlockStart(stream', n + 1) = n + 1
      BY <2>1, <3>1, BlockStartProperties
    <3>4. SubSeq(stream', n + 1, n) = << >>
      BY <2>1, <3>1, EmptyStretch
    <3> QED BY <3>2, <3>3, <3>4
  <2>5. ends' \subseteq 1..Len(stream')
    BY <2>3, <2>4
  <2> HIDE DEF ends
  <2> QED BY <2>1, <2>2, <2>5, FramesFit DEF EventsFit
<1>2. ASSUME events' = events PROVE EventsFit'
  BY <1>2 DEF EventsFit
<1>3. CASE \E n \in 0..(Len(stream) - fed) : Write(n)
  BY <1>1, <1>3 DEF Write
<1>4. CASE \E n \in 0..(Len(stream) - fed) : WriteTooLarge(n) \/ WriteAgain(n)
  BY <1>2, <1>4 DEF WriteTooLarge, WriteAgain
<1>5. CASE Flush
  <2>1. events' = events \/ dec' = Reset(LastLine)
    BY <1>5 DEF Flush
  <2>2. Reset(LastLine).err = FALSE
    BY DEF Reset, NewDecoder
  <2> QED BY <1>1, <1>2, <2>1, <2>2
<1>6. CASE UNCHANGED vars
  BY <1>2, <1>6 DEF vars
<1> QED BY <1>3, <1>4, <1>5, <1>6 DEF Next

-----------------------------------------------------------------------------
(* The lines the encoder writes.                                           *)

FieldLine(field, v) == <<field, ":", "SP">> \o v \o <<"LF">>

(* l is a line that gives the field the value v.                           *)
IsFieldLine(l, field, v) ==
  /\ l \in Seq(Byte) /\ Len(l) > 0 /\ l[Len(l)] = "LF"
  /\ \A i \in 1..(Len(l) - 1) : l[i] # "LF"
  /\ Text(l) # << >> /\ Field(Text(l)) = <<field>> /\ Value(Text(l)) = v

LEMMA FieldLineIs ==
  ASSUME NEW field \in {"event", "id", "data"}, NEW v \in Seq(Byte),
         OnOneLine(v), v # << >>, Last(v) # "CR"
  PROVE  IsFieldLine(FieldLine(field, v), field, v) /\ Len(FieldLine(field, v)) = Len(v) + 4
<1> DEFINE head == <<field, ":", "SP">>
           feed == <<"LF">>
           n == Len(v)
           t == head \o v
           l == t \o feed
<1>1. /\ head \in Seq(Byte) /\ Len(head) = 3
      /\ head[1] = field /\ head[2] = ":" /\ head[3] = "SP"
      /\ feed \in Seq(Byte) /\ Len(feed) = 1 /\ feed[1] = "LF"
  BY DEF Byte
<1>2. n \in Nat /\ n > 0
  BY EmptySeq, LenProperties
<1> HIDE DEF head, feed
<1>3. IsJoin(Byte, t, head, v)
  BY <1>1, BothParts
<1> HIDE DEF t
<1>4. /\ t \in Seq(Byte) /\ Len(t) = n + 3
      /\ t[1] = field /\ t[2] = ":" /\ t[3] = "SP" /\ \A i \in 1..n : t[3 + i] = v[i]
  <2>1. /\ t \in Seq(Byte) /\ Len(t) = 3 + n /\ \A i \in 1..3 : t[i] = head[i]
        /\ \A i \in 1..n : t[3 + i] = v[i]
    BY <1>1, <1>3 DEF IsJoin
  <2>2. 1 \in 1..3 /\ 2 \in 1..3 /\ 3 \in 1..3 /\ 3 + n = n + 3
    BY <1>2
  <2> QED BY <1>1, <2>1, <2>2
<1>5. IsJoin(Byte, l, t, feed)
  BY <1>1, <1>4, BothParts
<1> HIDE DEF l
<1>6. l \in Seq(Byte) /\ Len(l) = n + 4 /\ l[n + 4] = "LF" /\ \A i \in 1..(n + 3) : l[i] = t[i]
  <2>1. /\ l \in Seq(Byte) /\ Len(l) = (n + 3) + 1 /\ \A i \in 1..(n + 3) : l[i] = t[i]
        /\ \A i \in 1..1 : l[(n + 3) + i] = feed[i]
    BY <1>1, <1>4, <1>5 DEF IsJoin
  <2>2. (n + 3) + 1 = n + 4 /\ 1 \in 1..1
    BY <1>2
  <2> QED BY <1>1, <2>1, <2>2
<1>7. \A i \in 1..(n + 3) : t[i] # "LF"
  <2> SUFFICES ASSUME NEW i \in 1..(n + 3) PROVE t[i] # "LF"
    OBVIOUS
  <2>1. CASE i \in {1, 2, 3}
    BY <1>4, <2>1
  <2>2. CASE i \notin {1, 2, 3}
    <3>1. i - 3 \in 1..n /\ 3 + (i - 3) = i
      BY <1>2, <2>2
    <3>2. v[i - 3] # "LF"
      BY <3>1 DEF OnOneLine
    <3> QED BY <1>4, <3>1, <3>2
  <2> QED BY <2>1, <2>2
<1>8. Front(l) = t
  <2> DEFINE m == n + 3
             low == 0
  <2>1. low \in Nat /\ m \in Nat /\ low <= m /\ m <= Len(l) /\ m - low = m
        /\ \A i \in 1..m : low + i = i
    BY <1>2, <1>6
  <2>2. Front(l) = SubSeq(l, low + 1, m)
    <3>1. Len(l) - 1 = m /\ 1 = low + 1
      BY <1>2, <1>6
    <3> QED BY <3>1 DEF Front
  <2>3. Len(t) = m /\ \A i \in 1..m : l[i] = t[i]
    BY <1>4, <1>6
  <2> HIDE DEF low, m
  <2> DEFINE x == SubSeq(l, low + 1, m)
  <2>4. x \in Seq(Byte) /\ Len(x) = m - low /\ \A i \in 1..(m - low) : x[i] = l[low + i]
    BY <1>6, <2>1, StretchOf
  <2> HIDE DEF x
  <2>5. x = t
    BY <1>4, <2>1, <2>3, <2>4, SeqEqual
  <2> QED BY <2>2, <2>5 DEF x
<1>9. Text(l) = t
  <2>1. l # << >> /\ Last(l) = "LF"
    BY <1>2, <1>6 DEF Last
  <2>2. t # << >> /\ Last(t) # "CR"
    <3>1. n \in 1..n /\ 3 + n = n + 3 /\ n + 3 # 0
      BY <1>2
    <3>2. t[n + 3] = v[n]
      BY <1>4, <3>1
    <3>3. v[n] # "CR"
      BY DEF Last
    <3> QED BY <1>4, <3>1, <3>2, <3>3 DEF Last
  <2> QED BY <1>8, <2>1, <2>2 DEF Text
<1>10. Colon(t) = 2
  <2> DEFINE colons == {i \in 1..Len(t) : t[i] = ":"}
  <2>1. 2 \in colons /\ \A i \in colons : 2 <= i /\ i \in Nat
    <3>1. 2 \in 1..Len(t)
      BY <1>2, <1>4
    <3>2. t[1] # ":"
      BY <1>4
    <3> QED BY <1>2, <1>4, <3>1, <3>2
  <2>2. Colon(t) = IF colons # {} THEN Min(colons) ELSE 0
    BY DEF Colon, SelectInSeq
  <2> HIDE DEF colons
  <2>3. \E x \in colons : \A y \in colons : x <= y
    BY <2>1
  <2>4. Min(colons) \in colons /\ \A y \in colons : Min(colons) <= y
    BY <2>3, Zenon DEF Min
  <2>5. Min(colons) = 2
    BY <2>1, <2>4
  <2> QED BY <2>1, <2>2, <2>5
<1>11. Field(t) = <<field>>
  <2> DEFINE low == 0
             one == 1
             x == SubSeq(t, low + 1, one)
  <2>1. low \in Nat /\ one \in Nat /\ low <= one /\ one <= Len(t)
    BY <1>2, <1>4
  <2>2. one - low = 1 /\ low + 1 = 1 /\ 2 - 1 = one /\ 1 \in 1..1
    OBVIOUS
  <2> HIDE DEF low, one
  <2>3. x \in Seq(Byte) /\ Len(x) = one - low /\ \A i \in 1..(one - low) : x[i] = t[low + i]
    BY <1>4, <2>1, StretchOf
  <2>4. Field(t) = x
    BY <1>10, <2>2 DEF Field
  <2> HIDE DEF x
  <2>5. x \in Seq(Byte) /\ Len(x) = 1 /\ x[1] = field
    BY <1>4, <2>2, <2>3
  <2>6. x = <<field>>
    BY <2>5
  <2> QED BY <2>4, <2>6
<1>12. Value(t) = v
  <2> DEFINE two == 2
             m == n + 3
             value == SubSeq(t, two + 1, m)
             three == 3
             x == SubSeq(t, three + 1, m)
  <2>1. two \in Nat /\ m \in Nat /\ two <= m /\ m <= Len(t) /\ three \in Nat /\ three <= m
    BY <1>2, <1>4
  <2>2. /\ m - two = n + 1 /\ m - three = n /\ two + 1 = three
        /\ \A i \in 1..n : i + 1 \in 1..(n + 1) /\ two + (i + 1) = three + i
        /\ 1 \in 1..(n + 1) /\ n + 1 > 0 /\ n + 1 - 1 = n /\ two = 2 /\ three = 3 /\ m = Len(t)
    BY <1>2, <1>4
  <2>a. t[two + 1] = "SP" /\ \A i \in 1..n : t[three + i] = v[i]
    BY <1>4
  <2> HIDE DEF two, three, m
  <2>3. value \in Seq(Byte) /\ Len(value) = m - two /\ \A i \in 1..(m - two) : value[i] = t[two + i]
    BY <1>4, <2>1, StretchOf
  <2>4. IF Colon(t) = 0 THEN value = << >> ELSE SubSeq(t, Colon(t) + 1, Len(t)) = value
    BY <1>10, <2>2
  <2>5. Value(t) = IF value # << >> /\ Head(value) = "SP" THEN Tail(value) ELSE value
    BY <1>10, <2>4 DEF Value
  <2> HIDE DEF value
  <2>6. value # << >> /\ Head(value) = "SP"
    <3>1. Len(value) = n + 1 /\ value[1] = "SP"
      BY <2>2, <2>3, <2>a
    <3>2. value # << >>
      BY <2>2, <3>1
    <3> QED BY <2>3, <3>1, <3>2, HeadTailProperties
  <2>7. /\ Tail(value) \in Seq(Byte) /\ Len(Tail(value)) = Len(value) - 1
        /\ \A i \in 1..Len(Tail(value)) : Tail(value)[i] = value[i + 1]
    BY <2>3, <2>6, HeadTailProperties
  <2> DEFINE w == Tail(value)
  <2>8. w \in Seq(Byte) /\ Len(w) = n /\ \A i \in 1..n : w[i] = value[i + 1]
    BY <2>2, <2>3, <2>7
  <2> HIDE DEF w
  <2>9. \A i \in 1..n : w[i] = v[i]
    BY <2>2, <2>3, <2>8, <2>a
  <2>10. w = v
    BY <2>8, <2>9, SeqEqual
  <2> QED BY <2>5, <2>6, <2>10 DEF w
<1>13. \A i \in 1..(Len(l) - 1) : l[i] # "LF"
  <2>1. Len(l) - 1 = n + 3 /\ Len(l) > 0
    BY <1>2, <1>6
  <2> QED BY <1>6, <1>7, <2>1
<1>14. Len(l) > 0 /\ l[Len(l)] = "LF" /\ t # << >>
  BY <1>2, <1>4, <1>6
<1>15. FieldLine(field, v) = l
  BY DEF FieldLine, l, t, head, feed
<1> QED BY <1>6, <1>9, <1>11, <1>12, <1>13, <1>14, <1>15 DEF IsFieldLine

(* l stands in s behind position p.                                        *)
StandsAt(s, p, l) ==
  /\ p \in Nat /\ p + Len(l) <= Len(s)
  /\ \A i \in 1..Len(l) : s[p + i] = l[i]

(* What is a line of s where it stands.                                    *)
LEMMA LineStands ==
  ASSUME NEW s \in Seq(Byte), NEW p, NEW l \in Seq(Byte), StandsAt(s, p, l),
         p = 0 \/ p \in LineEnds(s),
         Len(l) > 0, l[Len(l)] = "LF", \A i \in 1..(Len(l) - 1) : l[i] # "LF"
  PROVE  /\ p + Len(l) \in LineEnds(s) /\ p + Len(l) \in 1..Len(s)
         /\ LineStart(s, p + Len(l)) = p + 1
         /\ Line(s, p + Len(l)) = l
         /\ \A j \in LineEnds(s) : j <= p \/ j >= p + Len(l)
<1> DEFINE n == Len(l)
           e == p + n
<1>1. n \in Nat /\ n > 0 /\ p \in Nat /\ e \in Nat /\ Len(s) \in Nat /\ e > 0 /\ e <= Len(s) /\ p <= e
  BY LenProperties DEF StandsAt
<1>2. \A i \in 1..n : s[p + i] = l[i]
  BY DEF StandsAt
<1>3. e \in LineEnds(s) /\ e \in 1..Len(s)
  <2>1. e \in 1..Len(s) /\ n \in 1..n
    BY <1>1
  <2>2. s[e] = "LF"
    BY <1>2, <2>1
  <2> QED BY <2>1, <2>2 DEF LineEnds
<1>4. ASSUME NEW j \in LineEnds(s) PROVE j <= p \/ j >= e
  <2> SUFFICES ASSUME j > p, j < e PROVE FALSE
    <3>1. j \in Nat
      BY EndsArePositions
    <3> QED BY <1>1, <3>1
  <2>1. j \in Nat
    BY EndsArePositions
  <2>2. j - p \in 1..(n - 1) /\ j - p \in 1..n /\ p + (j - p) = j
    BY <1>1, <2>1
  <2>3. s[j] = "LF"
    BY DEF LineEnds
  <2> QED BY <1>2, <2>2, <2>3
<1>5. LineStart(s, e) = p + 1
  <2>1. p \in 0..(e - 1)
    BY <1>1
  <2>2. \A j \in LineEnds(s) : j < e => j <= p
    <3>1. \A j \in LineEnds(s) : j \in Nat
      BY EndsArePositions
    <3> QED BY <1>1, <1>4, <3>1
  <2> HIDE DEF e
  <2> QED BY <1>1, <2>1, <2>2, LineStartIs
<1>6. Line(s, e) = l
  <2> HIDE DEF e
  <2> DEFINE x == SubSeq(s, p + 1, e)
  <2>1. x \in Seq(Byte) /\ Len(x) = e - p /\ \A i \in 1..(e - p) : x[i] = s[p + i]
    BY <1>1, StretchOf
  <2>2. Line(s, e) = x
    BY <1>5 DEF Line
  <2> HIDE DEF x
  <2>3. e - p = n
    BY <1>1 DEF e
  <2> HIDE DEF n
  <2>4. Len(l) = n
    BY DEF n
  <2>5. x = l
    BY <1>2, <2>1, <2>3, <2>4, SeqEqual
  <2> QED BY <2>2, <2>5
<1> QED BY <1>3, <1>4, <1>5, <1>6

(* A line that may be missing.                                             *)
LEMMA OptionalLine ==
  ASSUME NEW s \in Seq(Byte), NEW p, NEW l \in Seq(Byte), StandsAt(s, p, l),
         p = 0 \/ p \in LineEnds(s),
         NEW field, NEW v, l = << >> \/ IsFieldLine(l, field, v)
  PROVE  /\ p + Len(l) \in Nat /\ p <= p + Len(l)
         /\ p + Len(l) = 0 \/ p + Len(l) \in LineEnds(s)
         /\ \A j \in LineEnds(s) : j <= p \/ j >= p + Len(l)
         /\ l = << >> => p + Len(l) = p
         /\ l # << >> =>
              /\ p + Len(l) \in LineEnds(s) /\ p < p + Len(l)
              /\ Line(s, p + Len(l)) = l
<1>1. Len(l) \in Nat /\ p \in Nat
  BY LenProperties DEF StandsAt
<1>2. CASE l = << >>
  <2>1. Len(l) = 0 /\ p + Len(l) = p
    BY <1>1, <1>2
  <2>2. \A j \in LineEnds(s) : j <= p \/ j >= p
    BY <1>1, EndsArePositions
  <2> QED BY <1>1, <1>2, <2>1, <2>2
<1>3. CASE l # << >>
  <2>1. Len(l) > 0 /\ l[Len(l)] = "LF" /\ \A i \in 1..(Len(l) - 1) : l[i] # "LF"
    BY <1>3 DEF IsFieldLine
  <2>2. /\ p + Len(l) \in LineEnds(s) /\ Line(s, p + Len(l)) = l
        /\ \A j \in LineEnds(s) : j <= p \/ j >= p + Len(l)
    BY <2>1, LineStands
  <2>3. p + Len(l) \in Nat /\ p <= p + Len(l) /\ p < p + Len(l)
    BY <1>1, <2>1
  <2> QED BY <1>3, <2>2, <2>3
<1> QED BY <1>2, <1>3

DataLine == FieldLine("data", <<"x">>)

(* s holds the lines one behind the other, a data line and a blank one.    *)
IsEncoding(s, nameLine, idLine) ==
  /\ s \in Seq(Byte)
  /\ Len(s) = Len(nameLine) + Len(idLine) + Len(DataLine) + 1
  /\ StandsAt(s, 0, nameLine)
  /\ StandsAt(s, Len(nameLine), idLine)
  /\ StandsAt(s, Len(nameLine) + Len(idLine), DataLine)
  /\ StandsAt(s, Len(nameLine) + Len(idLine) + Len(DataLine), <<"LF">>)

LEMMA DataLineIs ==
  /\ IsFieldLine(DataLine, "data", <<"x">>) /\ Len(DataLine) = 5
  /\ DataLine \in Seq(Byte)
<1> DEFINE v == <<"x">>
<1>1. v \in Seq(Byte) /\ Len(v) = 1 /\ v[1] = "x" /\ v # << >>
  BY DEF Byte
<1> HIDE DEF v
<1>2. OnOneLine(v) /\ Last(v) # "CR"
  BY <1>1 DEF OnOneLine, Last
<1>3. "data" \in {"event", "id", "data"}
  OBVIOUS
<1>4. IsFieldLine(FieldLine("data", v), "data", v) /\ Len(FieldLine("data", v)) = Len(v) + 4
  BY <1>1, <1>2, <1>3, FieldLineIs
<1>5. FieldLine("data", v) = DataLine
  BY DEF DataLine, v
<1>6. IsFieldLine(DataLine, "data", v) /\ Len(DataLine) = 5
  BY <1>1, <1>4, <1>5
<1> QED BY <1>6 DEF IsFieldLine, v

LEMMA OneAboveAll ==
  ASSUME NEW n \in Nat
  PROVE  Max({n}) = n /\ Cardinality({n}) = 1 /\ Rank({n}, n) = 1
<1>1. {n} \subseteq 0..n /\ n \in {n} /\ \A j \in {n} : j <= n
  OBVIOUS
<1>2. Max({n}) = n
  BY <1>1, MaxIs
<1>3. Cardinality({n}) = 1
  BY FS_Singleton
<1>4. {j \in {n} : j <= n} = {n}
  OBVIOUS
<1> QED BY <1>2, <1>3, <1>4 DEF Rank

(* The one event of what the encoder wrote has the name and the id.        *)
LEMMA EncodingIsOneEvent ==
  ASSUME NEW s, NEW nameLine \in Seq(Byte), NEW idLine \in Seq(Byte),
         IsEncoding(s, nameLine, idLine),
         NEW e, e.raw = s, e.data = <<<<"x">>>>,
         e.name # << >>, nameLine = << >> => e.name = <<"message">>,
         nameLine # << >> => IsFieldLine(nameLine, "event", e.name),
         idLine = << >> => e.id = << >>,
         idLine # << >> => IsFieldLine(idLine, "id", e.id) /\ e.id # << >>
  PROVE  Frames(<<e>>, s, EventEnds(s) \cup TailEnds(s))
<1> DEFINE p == Len(nameLine)
           q == p + Len(idLine)
           d == q + Len(DataLine)
           n == d + Len(<<"LF">>)
<1>1. s \in Seq(Byte) /\ Len(<<"LF">>) = 1 /\ <<"LF">> \in Seq(Byte) /\ <<"LF">>[1] = "LF"
  BY DEF IsEncoding, Byte
<1>2. /\ StandsAt(s, 0, nameLine) /\ StandsAt(s, p, idLine)
      /\ StandsAt(s, q, DataLine) /\ StandsAt(s, d, <<"LF">>)
  BY DEF IsEncoding
<1>3. /\ p \in Nat
      /\ p = 0 \/ p \in LineEnds(s)
      /\ \A j \in LineEnds(s) : j <= 0 \/ j >= p
      /\ nameLine = << >> => p = 0
      /\ nameLine # << >> => p \in LineEnds(s) /\ Line(s, p) = nameLine
  <2>1. /\ 0 + Len(nameLine) \in Nat
        /\ 0 + Len(nameLine) = 0 \/ 0 + Len(nameLine) \in LineEnds(s)
        /\ \A j \in LineEnds(s) : j <= 0 \/ j >= 0 + Len(nameLine)
        /\ nameLine = << >> => 0 + Len(nameLine) = 0
        /\ nameLine # << >> => 0 + Len(nameLine) \in LineEnds(s) /\ Line(s, 0 + Len(nameLine)) = nameLine
    <3> DEFINE zero == 0
    <3>1. StandsAt(s, zero, nameLine) /\ (zero = 0 \/ zero \in LineEnds(s))
      BY <1>2
    <3>2. nameLine = << >> \/ IsFieldLine(nameLine, "event", e.name)
      OBVIOUS
    <3> HIDE DEF zero
    <3>3. /\ zero + Len(nameLine) \in Nat
          /\ zero + Len(nameLine) = 0 \/ zero + Len(nameLine) \in LineEnds(s)
          /\ \A j \in LineEnds(s) : j <= zero \/ j >= zero + Len(nameLine)
          /\ nameLine = << >> => zero + Len(nameLine) = zero
          /\ nameLine # << >> => zero + Len(nameLine) \in LineEnds(s)
                                 /\ Line(s, zero + Len(nameLine)) = nameLine
      BY <1>1, <3>1, <3>2, OptionalLine
    <3> QED BY <3>3 DEF zero
  <2>2. 0 + Len(nameLine) = p
    BY LenProperties
  <2> QED BY <2>1, <2>2
<1>4. /\ q \in Nat /\ p <= q
      /\ q = 0 \/ q \in LineEnds(s)
      /\ \A j \in LineEnds(s) : j <= p \/ j >= q
      /\ idLine = << >> => q = p
      /\ idLine # << >> => q \in LineEnds(s) /\ p < q /\ Line(s, q) = idLine
  <2>1. idLine = << >> \/ IsFieldLine(idLine, "id", e.id)
    OBVIOUS
  <2> HIDE DEF p
  <2> QED BY <1>1, <1>2, <1>3, <2>1, OptionalLine
<1>5. /\ d \in LineEnds(s) /\ d \in Nat /\ q < d /\ Line(s, d) = DataLine
      /\ \A j \in LineEnds(s) : j <= q \/ j >= d
  <2>1. DataLine \in Seq(Byte) /\ IsFieldLine(DataLine, "data", <<"x">>) /\ DataLine # << >>
    <3>1. Len(DataLine) # 0 /\ Len(<< >>) = 0
      BY DataLineIs
    <3> QED BY <3>1, DataLineIs, Zenon
  <2> HIDE DEF q
  <2> QED BY <1>1, <1>2, <1>4, <2>1, OptionalLine
<1>6. /\ n \in LineEnds(s) /\ n \in 1..Len(s) /\ LineStart(s, n) = d + 1 /\ Line(s, n) = <<"LF">>
      /\ \A j \in LineEnds(s) : j <= d \/ j >= n
  <2> DEFINE feed == <<"LF">>
  <2>1. feed \in Seq(Byte) /\ Len(feed) > 0 /\ feed[Len(feed)] = "LF"
        /\ \A i \in 1..(Len(feed) - 1) : feed[i] # "LF"
    BY <1>1
  <2>2. StandsAt(s, d, feed)
    BY <1>2
  <2> HIDE DEF d, feed
  <2>3. /\ d + Len(feed) \in LineEnds(s) /\ d + Len(feed) \in 1..Len(s)
        /\ LineStart(s, d + Len(feed)) = d + 1 /\ Line(s, d + Len(feed)) = feed
        /\ \A j \in LineEnds(s) : j <= d \/ j >= d + Len(feed)
    BY <1>1, <1>5, <2>1, <2>2, LineStands
  <2> QED BY <2>3 DEF feed
<1>7. n = Len(s) /\ n = d + 1 /\ Len(s) \in Nat /\ n \in Nat
  <2>1. n = d + 1
    BY <1>1
  <2>2. Len(s) = d + 1
    BY DEF IsEncoding
  <2> HIDE DEF d, n
  <2> QED BY <1>5, <2>1, <2>2
<1> HIDE DEF p, q, d, n
<1>a. LineEnds(s) \subseteq 1..n
  <2>1. LineEnds(s) \subseteq 1..Len(s)
    BY <1>1, EndsArePositions
  <2> QED BY <1>7, <2>1
<1>b. \A j \in LineEnds(s) : j \in Nat /\ j > 0 /\ 1 <= j /\ j <= n
  BY <1>7, <1>a
<1>8. ASSUME NEW j \in LineEnds(s)
      PROVE  \/ j = n
             \/ j = d
             \/ idLine # << >> /\ j = q
             \/ nameLine # << >> /\ j = p
  <2>1. j \in Nat /\ j > 0 /\ j <= n
    BY <1>b
  <2>2. j = n \/ j = d \/ j = q \/ j = p
    <3>1. p \in Nat /\ q \in Nat /\ d \in Nat /\ n \in Nat
      BY <1>3, <1>4, <1>5, <1>7
    <3>2. /\ j >= p
          /\ j <= p \/ j >= q
          /\ j <= q \/ j >= d
          /\ j <= d \/ j >= n
      BY <1>3, <1>4, <1>5, <1>6, <2>1
    <3> QED BY <2>1, <3>1, <3>2
  <2> QED BY <1>3, <1>4, <2>1, <2>2
<1>9. p <= q /\ q < d /\ d < n /\ p \in Nat /\ q \in Nat /\ d \in Nat /\ n \in Nat
  BY <1>3, <1>4, <1>5, <1>7
<1>10. Text(Line(s, n)) = << >> /\ \A field : Field(Text(Line(s, n))) # <<field>>
  <2> DEFINE line == <<"LF">>
  <2>1. line # << >> /\ Last(line) = "LF" /\ Front(line) = << >>
    BY DEF Last, Front
  <2> HIDE DEF line
  <2>2. Text(line) = << >>
    BY <2>1 DEF Text
  <2>3. Text(Line(s, n)) = << >>
    BY <1>6, <2>2 DEF line
  <2> QED BY <2>3, BlankHasNoField
<1>11. /\ Text(Line(s, d)) # << >> /\ Field(Text(Line(s, d))) = <<"data">>
       /\ Value(Text(Line(s, d))) = <<"x">>
  BY <1>5, DataLineIs DEF IsFieldLine
<1>12. nameLine # << >> =>
         /\ Text(Line(s, p)) # << >> /\ Field(Text(Line(s, p))) = <<"event">>
         /\ Value(Text(Line(s, p))) = e.name
  BY <1>3 DEF IsFieldLine
<1>13. idLine # << >> =>
         /\ Text(Line(s, q)) # << >> /\ Field(Text(Line(s, q))) = <<"id">>
         /\ Value(Text(Line(s, q))) = e.id
  BY <1>4 DEF IsFieldLine
<1>14. <<"event">> # <<"id">> /\ <<"event">> # <<"data">> /\ <<"id">> # <<"data">>
  OBVIOUS
<1>15. BlankEnds(s) = {n}
  <2>1. n \in BlankEnds(s)
    BY <1>6, <1>10 DEF BlankEnds
  <2>2. \A j \in BlankEnds(s) : j = n
    BY <1>8, <1>11, <1>12, <1>13 DEF BlankEnds
  <2> QED BY <2>1, <2>2
<1>16. BlockStart(s, n) = 1
  <2> DEFINE low == 0
  <2>1. n > 0 /\ low \in 0..(n - 1) /\ low = 0 /\ \A j \in BlankEnds(s) : j < n => j <= low
    BY <1>7, <1>9, <1>15
  <2>2. low + 1 = 1
    OBVIOUS
  <2> HIDE DEF low
  <2>3. BlockStart(s, n) = low + 1
    BY <1>1, <1>9, <2>1, BlockStartIs
  <2> QED BY <2>2, <2>3
<1>17. EventEnds(s) = {n}
  <2>1. LineStart(s, n) # BlockStart(s, n)
    BY <1>6, <1>9, <1>16
  <2> QED BY <1>15, <2>1 DEF EventEnds
<1>18. TailEnds(s) = {}
  <2>1. n + 1 \in Nat /\ n + 1 > 0 /\ n \in 0..((n + 1) - 1) /\ n \in BlankEnds(s)
        /\ \A j \in BlankEnds(s) : j < n + 1 => j <= n
    BY <1>9, <1>15
  <2>2. BlockStart(s, n + 1) = n + 1
    BY <1>1, <2>1, BlockStartIs
  <2>3. SubSeq(s, n + 1, n) = << >>
    BY <1>1, <1>7, <1>9, EmptyStretch
  <2> QED BY <1>7, <2>2, <2>3 DEF TailEnds, Unfinished
<1> DEFINE ends == {j \in LineEnds(s) \cup {n} : BlockStart(s, n) <= j /\ j <= n}
<1>19. ends = LineEnds(s)
  <2>1. \A j \in LineEnds(s) : 1 <= j /\ j <= n
    BY <1>b
  <2>2. \A j \in ends : j \in LineEnds(s)
    BY <1>6
  <2> QED BY <1>16, <2>1, <2>2
<1> HIDE DEF ends
<1>20. FieldLines(s, ends, "event") = IF nameLine = << >> THEN {} ELSE {p}
  <2>1. \A j \in FieldLines(s, ends, "event") : nameLine # << >> /\ j = p
    BY <1>8, <1>10, <1>11, <1>13, <1>14, <1>19 DEF FieldLines
  <2>2. nameLine # << >> => p \in FieldLines(s, ends, "event")
    BY <1>3, <1>12, <1>19 DEF FieldLines
  <2> QED BY <2>1, <2>2
<1>21. FieldLines(s, ends, "id") = IF idLine = << >> THEN {} ELSE {q}
  <2>1. \A j \in FieldLines(s, ends, "id") : idLine # << >> /\ j = q
    BY <1>8, <1>10, <1>11, <1>12, <1>14, <1>19 DEF FieldLines
  <2>2. idLine # << >> => q \in FieldLines(s, ends, "id")
    BY <1>4, <1>13, <1>19 DEF FieldLines
  <2> QED BY <2>1, <2>2
<1>22. FieldLines(s, ends, "data") = {d}
  <2>1. \A j \in FieldLines(s, ends, "data") : j = d
    BY <1>8, <1>10, <1>12, <1>13, <1>14, <1>19 DEF FieldLines
  <2>2. d \in FieldLines(s, ends, "data")
    BY <1>5, <1>11, <1>19 DEF FieldLines
  <2> QED BY <2>1, <2>2
<1>23. e.name = LastValue(s, FieldLines(s, ends, "event"), <<"message">>)
  <2>1. CASE nameLine = << >>
    BY <1>20, <2>1 DEF LastValue
  <2>2. CASE nameLine # << >>
    <3>1. Max({p}) = p
      BY <1>9, OneAboveAll
    <3>2. LastValue(s, {p}, <<"message">>) = e.name
      BY <1>12, <2>2, <3>1 DEF LastValue
    <3> QED BY <1>20, <2>2, <3>2
  <2> QED BY <2>1, <2>2
<1>24. e.id = LastValue(s, FieldLines(s, ends, "id"), << >>)
  <2>1. CASE idLine = << >>
    BY <1>21, <2>1 DEF LastValue
  <2>2. CASE idLine # << >>
    <3>1. Max({q}) = q
      BY <1>9, OneAboveAll
    <3>2. LastValue(s, {q}, << >>) = e.id
      BY <1>13, <2>2, <3>1 DEF LastValue
    <3> QED BY <1>21, <2>2, <3>2
  <2> QED BY <2>1, <2>2
<1>25. AllValues(s, {d}, e.data)
  <2>1. Cardinality({d}) = 1 /\ Rank({d}, d) = 1
    BY <1>9, OneAboveAll
  <2>2. Len(e.data) = 1 /\ e.data[1] = <<"x">>
    OBVIOUS
  <2>3. \A j \in {d} : e.data[Rank({d}, j)] = Value(Text(Line(s, j)))
    BY <1>11, <2>1, <2>2
  <2> QED BY <2>1, <2>2, <2>3 DEF AllValues
<1>26. e.raw = SubSeq(s, BlockStart(s, n), n)
  <2>1. SubSeq(s, 1, Len(s)) = s
    BY <1>1
  <2> QED BY <1>7, <1>16, <2>1
<1>27. IsEventAt(e, s, n)
  BY <1>22, <1>23, <1>24, <1>25, <1>26 DEF IsEventAt, ends
<1>28. Frames(<<e>>, s, {n})
  <2> DEFINE list == <<e>>
  <2>1. Len(list) = 1 /\ list[1] = e
    OBVIOUS
  <2>2. Cardinality({n}) = 1 /\ Rank({n}, n) = 1
    BY <1>9, OneAboveAll
  <2> HIDE DEF list
  <2>3. \A i \in {n} : IsEventAt(list[Rank({n}, i)], s, i)
    BY <1>27, <2>1, <2>2
  <2>4. Frames(list, s, {n})
    BY <2>1, <2>2, <2>3 DEF Frames
  <2> QED BY <2>4 DEF list
<1>29. EventEnds(s) \cup TailEnds(s) = {n}
  BY <1>17, <1>18
<1> QED BY <1>28, <1>29

(* The lines of Encode one behind the other (encoder.go:13-26).            *)
LEMMA EncodeWritesLines ==
  ASSUME NEW nameLine \in Seq(Byte), NEW idLine \in Seq(Byte)
  PROVE  IsEncoding(nameLine \o idLine \o <<"data", ":", "SP">> \o <<"x">> \o <<"LF", "LF">>,
                    nameLine, idLine)
<1> DEFINE head == <<"data", ":", "SP">>
           text == <<"x">>
           feeds == <<"LF", "LF">>
           w == nameLine \o idLine
           wh == w \o head
           wt == wh \o text
           s == wt \o feeds
           ht == head \o text
           p == Len(nameLine)
           q == p + Len(idLine)
<1>1. /\ head \in Seq(Byte) /\ Len(head) = 3
      /\ text \in Seq(Byte) /\ Len(text) = 1
      /\ feeds \in Seq(Byte) /\ Len(feeds) = 2 /\ feeds[1] = "LF" /\ feeds[2] = "LF"
  BY DEF Byte
<1>2. p \in Nat /\ q \in Nat /\ Len(idLine) \in Nat /\ Len(nameLine) = p
  BY LenProperties
<1>3. DataLine = ht \o <<"LF">> /\ <<"LF">> \in Seq(Byte) /\ Len(<<"LF">>) = 1 /\ <<"LF">>[1] = "LF"
  BY DEF DataLine, FieldLine, Byte
<1> HIDE DEF head, text, feeds
<1>4. IsJoin(Byte, w, nameLine, idLine)
  BY BothParts
<1> HIDE DEF w
<1>5. IsJoin(Byte, wh, w, head)
  <2>1. w \in Seq(Byte)
    BY <1>4 DEF IsJoin
  <2> QED BY <1>1, <2>1, BothParts
<1> HIDE DEF wh
<1>6. IsJoin(Byte, wt, wh, text)
  <2>1. wh \in Seq(Byte)
    BY <1>5 DEF IsJoin
  <2> QED BY <1>1, <2>1, BothParts
<1> HIDE DEF wt
<1>7. IsJoin(Byte, s, wt, feeds)
  <2>1. wt \in Seq(Byte)
    BY <1>6 DEF IsJoin
  <2> QED BY <1>1, <2>1, BothParts
<1>8. IsJoin(Byte, ht, head, text)
  BY <1>1, BothParts
<1> HIDE DEF s, ht
<1> DEFINE line == ht \o <<"LF">>
<1>9. IsJoin(Byte, line, ht, <<"LF">>)
  <2> DEFINE feed == <<"LF">>
  <2>1. feed \in Seq(Byte) /\ ht \in Seq(Byte)
    BY <1>3, <1>8 DEF IsJoin
  <2> HIDE DEF feed
  <2>2. IsJoin(Byte, ht \o feed, ht, feed)
    BY <2>1, BothParts
  <2> QED BY <2>2 DEF feed
<1> HIDE DEF line
<1>10. /\ Len(w) = q /\ \A i \in 1..p : w[i] = nameLine[i]
       /\ \A i \in 1..Len(idLine) : w[p + i] = idLine[i]
  <2> USE DEF IsJoin
  <2>1. Len(w) = p + Len(idLine)
    BY <1>4
  <2>2. \A i \in 1..p : w[i] = nameLine[i]
    BY <1>4
  <2>3. \A i \in 1..Len(idLine) : w[p + i] = idLine[i]
    BY <1>4
  <2> QED BY <2>1, <2>2, <2>3
<1> HIDE DEF q
<1>11. /\ Len(wh) = q + 3 /\ \A i \in 1..q : wh[i] = w[i]
       /\ \A i \in 1..3 : wh[q + i] = head[i]
  BY <1>1, <1>5, <1>10 DEF IsJoin
<1>12. /\ Len(wt) = q + 4 /\ \A i \in 1..(q + 3) : wt[i] = wh[i]
       /\ wt[q + 4] = text[1]
  <2>1. /\ Len(wt) = (q + 3) + 1 /\ \A i \in 1..(q + 3) : wt[i] = wh[i]
        /\ \A i \in 1..1 : wt[(q + 3) + i] = text[i]
    BY <1>1, <1>6, <1>11 DEF IsJoin
  <2>2. (q + 3) + 1 = q + 4 /\ 1 \in 1..1
    BY <1>2
  <2> QED BY <2>1, <2>2
<1>13. /\ s \in Seq(Byte) /\ Len(s) = q + 6 /\ \A i \in 1..(q + 4) : s[i] = wt[i]
       /\ s[q + 5] = "LF" /\ s[q + 6] = "LF"
  <2>1. /\ s \in Seq(Byte) /\ Len(s) = (q + 4) + 2 /\ \A i \in 1..(q + 4) : s[i] = wt[i]
        /\ \A i \in 1..2 : s[(q + 4) + i] = feeds[i]
    BY <1>1, <1>7, <1>12 DEF IsJoin
  <2>2. (q + 4) + 2 = q + 6 /\ (q + 4) + 1 = q + 5 /\ 1 \in 1..2 /\ 2 \in 1..2
    BY <1>2
  <2> QED BY <1>1, <2>1, <2>2
<1>14. /\ Len(line) = 5 /\ \A i \in 1..3 : line[i] = head[i]
       /\ line[4] = text[1] /\ line[5] = "LF"
  <2>1. Len(ht) = 4 /\ \A i \in 1..3 : ht[i] = head[i]
    BY <1>1, <1>8 DEF IsJoin
  <2>2. \A i \in 1..1 : ht[3 + i] = text[i]
    BY <1>1, <1>8 DEF IsJoin
  <2>3. Len(line) = 5 /\ \A i \in 1..4 : line[i] = ht[i]
    BY <1>3, <1>9, <2>1 DEF IsJoin
  <2>4. \A i \in 1..1 : line[4 + i] = <<"LF">>[i]
    BY <1>3, <1>9, <2>1 DEF IsJoin
  <2>5. 1 \in 1..1 /\ 3 + 1 = 4 /\ 4 + 1 = 5 /\ 4 \in 1..4 /\ \A i \in 1..3 : i \in 1..4
    OBVIOUS
  <2>6. ht[4] = text[1]
    BY <2>2, <2>5
  <2>7. line[5] = "LF"
    BY <1>3, <2>4, <2>5
  <2> QED BY <2>1, <2>3, <2>5, <2>6, <2>7
<1>15. \A i \in 1..q : s[i] = w[i]
  <2>1. \A i \in 1..q : i \in 1..(q + 3) /\ i \in 1..(q + 4)
    BY <1>2
  <2> QED BY <1>11, <1>12, <1>13, <2>1
<1>16. StandsAt(s, 0, nameLine)
  <2>1. \A i \in 1..p : i \in 1..q /\ 0 + i = i
    BY <1>2 DEF q
  <2>2. 0 + p <= q + 6
    BY <1>2 DEF q
  <2>3. \A i \in 1..p : s[0 + i] = nameLine[i]
    BY <1>10, <1>15, <2>1
  <2> QED BY <1>13, <2>2, <2>3 DEF StandsAt
<1>17. StandsAt(s, p, idLine)
  <2>1. \A i \in 1..Len(idLine) : p + i \in 1..q
    BY <1>2 DEF q
  <2>2. p + Len(idLine) <= q + 6
    BY <1>2 DEF q
  <2>3. \A i \in 1..Len(idLine) : s[p + i] = idLine[i]
    BY <1>10, <1>15, <2>1
  <2> QED BY <1>2, <1>13, <2>2, <2>3 DEF StandsAt
<1>18. StandsAt(s, q, line)
  <2>1. \A i \in 1..3 : s[q + i] = line[i]
    <3>1. \A i \in 1..3 : q + i \in 1..(q + 3) /\ q + i \in 1..(q + 4)
      BY <1>2
    <3> QED BY <1>11, <1>12, <1>13, <1>14, <3>1
  <2>2. s[q + 4] = line[4]
    <3>1. q + 4 \in 1..(q + 4)
      BY <1>2
    <3> QED BY <1>12, <1>13, <1>14, <3>1
  <2>3. s[q + 5] = line[5]
    BY <1>13, <1>14
  <2>4. \A i \in 1..5 : s[q + i] = line[i]
    <3>1. \A i \in 1..5 : i \in 1..3 \/ i = 4 \/ i = 5
      OBVIOUS
    <3> QED BY <2>1, <2>2, <2>3, <3>1
  <2>5. q + 5 <= q + 6
    BY <1>2
  <2> QED BY <1>2, <1>13, <1>14, <2>4, <2>5 DEF StandsAt
<1>19. StandsAt(s, q + 5, <<"LF">>)
  <2> DEFINE feed == <<"LF">>
  <2>1. Len(feed) = 1 /\ feed[1] = "LF"
    BY <1>3
  <2> HIDE DEF feed
  <2>2. q + 5 \in Nat /\ (q + 5) + 1 <= q + 6 /\ (q + 5) + 1 = q + 6
    BY <1>2
  <2>3. \A i \in 1..1 : s[(q + 5) + i] = feed[i]
    BY <1>13, <2>1, <2>2
  <2> QED BY <1>13, <2>1, <2>2, <2>3 DEF StandsAt, feed
<1>20. /\ Len(s) = p + Len(idLine) + Len(DataLine) + 1 /\ DataLine = line
       /\ p + Len(idLine) = q /\ Len(DataLine) = 5
  <2>1. DataLine = line
    BY <1>3 DEF line
  <2>2. p + Len(idLine) = q
    BY DEF q
  <2>3. q + 6 = q + 5 + 1
    BY <1>2
  <2> QED BY <1>13, <1>14, <2>1, <2>2, <2>3
<1>21. IsEncoding(s, nameLine, idLine)
  BY <1>13, <1>16, <1>17, <1>18, <1>19, <1>20 DEF IsEncoding
<1> QED BY <1>21 DEF s, wt, wh, w, head, text, feeds

(* What the encoder writes of an event with a name is that event, however  *)
(* its name and id read.                                                   *)
LEMMA EncodedComesBack ==
  ASSUME NEW e \in Events, FitsOnLines(e),
         \A v \in {e.name, e.id} : v # << >> => Last(v) # "CR"
  PROVE  LET bytes == Encode(e.name, e.id, <<"x">>)
         IN  Frames(<<[e EXCEPT !.raw = bytes, !.data = <<<<"x">>>>]>>, bytes,
                    EventEnds(bytes) \cup TailEnds(bytes))
<1> DEFINE name == e.name
           id == e.id
           nameLine == IF name \in {<< >>, <<"message">>} THEN << >> ELSE FieldLine("event", name)
           idLine == IF id = << >> THEN << >> ELSE FieldLine("id", id)
           bytes == nameLine \o idLine \o <<"data", ":", "SP">> \o <<"x">> \o <<"LF", "LF">>
           back == [e EXCEPT !.raw = bytes, !.data = <<<<"x">>>>]
<1>1. /\ name \in Seq(Byte) /\ id \in Seq(Byte) /\ name # << >>
      /\ OnOneLine(name) /\ OnOneLine(id)
      /\ Last(name) # "CR" /\ (id # << >> => Last(id) # "CR")
  BY DEF Events, FitsOnLines
<1>2. Encode(e.name, e.id, <<"x">>) = bytes
  BY DEF Encode, FieldLine
<1>3. back.raw = bytes /\ back.data = <<<<"x">>>> /\ back.name = name /\ back.id = id
  <2> HIDE DEF bytes
  <2> QED BY DEF Events
<1> HIDE DEF name, id
<1>4. /\ nameLine \in Seq(Byte)
      /\ nameLine = << >> => name = <<"message">>
      /\ nameLine # << >> => IsFieldLine(nameLine, "event", name)
  <2>1. CASE name = <<"message">>
    BY <2>1, EmptySeq
  <2>2. CASE name # <<"message">>
    <3>1. nameLine = FieldLine("event", name)
      BY <1>1, <2>2
    <3>2. IsFieldLine(FieldLine("event", name), "event", name)
      BY <1>1, FieldLineIs
    <3> HIDE DEF nameLine
    <3>3. nameLine \in Seq(Byte) /\ Len(nameLine) # 0
      BY <3>1, <3>2 DEF IsFieldLine
    <3>4. nameLine # << >>
      BY <3>3
    <3> QED BY <3>1, <3>2, <3>3, <3>4
  <2> QED BY <2>1, <2>2
<1>5. /\ idLine \in Seq(Byte)
      /\ idLine = << >> => id = << >>
      /\ idLine # << >> => IsFieldLine(idLine, "id", id) /\ id # << >>
  <2>1. CASE id = << >>
    BY <2>1, EmptySeq
  <2>2. CASE id # << >>
    <3>1. idLine = FieldLine("id", id)
      BY <2>2
    <3>2. IsFieldLine(FieldLine("id", id), "id", id)
      BY <1>1, <2>2, FieldLineIs
    <3> HIDE DEF idLine
    <3>3. idLine \in Seq(Byte) /\ Len(idLine) # 0
      BY <3>1, <3>2 DEF IsFieldLine
    <3>4. idLine # << >>
      BY <3>3
    <3> QED BY <2>2, <3>1, <3>2, <3>3, <3>4
  <2> QED BY <2>1, <2>2
<1> HIDE DEF nameLine, idLine
<1>6. IsEncoding(bytes, nameLine, idLine)
  BY <1>4, <1>5, EncodeWritesLines
<1> HIDE DEF bytes, back
<1>7. Frames(<<back>>, bytes, EventEnds(bytes) \cup TailEnds(bytes))
  BY <1>1, <1>3, <1>4, <1>5, <1>6, EncodingIsOneEvent
<1> QED BY <1>2, <1>7 DEF back

(* An event whose data was rewritten comes back from the decoder with the  *)
(* name and the id it was handed over with (encoder.go:11-27;              *)
(* server.go:745, 802).                                                    *)
THEOREM EncodedEventsRoundTrip == Spec => []EncodeRoundTrips
<1>1. Init => EventsFit
  <2> SUFFICES ASSUME Init PROVE EventsFit
    OBVIOUS
  <2>1. events = << >>
    BY DEF Init
  <2> QED BY <2>1 DEF EventsFit, ToSet
<1>2. DecoderInv /\ DecoderInv' /\ EventsFit /\ [Next]_vars => EventsFit'
  BY EventsStayFit
<1>3. DecoderInv /\ EventsFit => EncodeRoundTrips
  <2> SUFFICES ASSUME DecoderInv, EventsFit PROVE EncodeRoundTrips
    OBVIOUS
  <2>1. \A e \in ToSet(events) : e \in Events
    <3>1. events \in Seq(Events)
      BY DEF DecoderInv, TypeOK
    <3> QED BY <3>1, ElementOfSeq DEF ToSet
  <2>2. ASSUME NEW e \in ToSet(events), \A v \in {e.name, e.id} : v # << >> => Last(v) # "CR"
        PROVE  LET bytes == Encode(e.name, e.id, <<"x">>)
               IN  Frames(<<[e EXCEPT !.raw = bytes, !.data = <<<<"x">>>>]>>, bytes,
                          EventEnds(bytes) \cup TailEnds(bytes))
    <3>1. e \in Events /\ FitsOnLines(e)
      BY <2>1 DEF EventsFit
    <3> QED BY <2>2, <3>1, EncodedComesBack
  <2> QED BY <2>2 DEF EncodeRoundTrips
<1>4. Spec => []EventsFit
  <2>1. Init /\ []DecoderInv /\ [][Next]_vars => []EventsFit
    BY <1>1, <1>2, PTL
  <2> QED BY <2>1, DecoderInvHolds, PTL DEF Spec
<1> QED BY <1>3, <1>4, DecoderInvHolds, PTL
=============================================================================
