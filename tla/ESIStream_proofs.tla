-------------------------- MODULE ESIStream_proofs --------------------------
(***************************************************************************)
(* Proof that the streaming parser implements ESIStream: wherever a        *)
(* document is cut, every byte the scanner goes over is a step of the      *)
(* specification, a piece that is sent without the scanner is a step over  *)
(* text, and moving pointers and buffers about is no step at all.          *)
(***************************************************************************)
EXTENDS ESIParser_proofs

(***************************************************************************)
(* The specification and the parser use the same definitions.              *)
(***************************************************************************)
LEMMA SameScanner ==
  /\ \A s, ch : Stream!StepOf(s, ch) = StepOf(s, ch)
  /\ \A s, ch : Stream!ActionOf(s, ch) = ActionOf(s, ch)
<1>1. Stream!Edges = Edges
  BY DEF Stream!Edges, Edges, Stream!TagEdges, TagEdges, Stream!AttributeEdges, AttributeEdges,
    Stream!Letters, Letters, Stream!KeyFirst, KeyFirst, Stream!KeyRest, KeyRest
<1>2. Stream!Stages = Stages
  BY DEF Stream!Stages, Stages
<1>3. \A at, ch : Stream!Advance(at, ch) = Advance(at, ch)
  BY <1>1, <1>2 DEF Stream!Advance, Advance
<1>4. \A s, ch : Stream!AtAfter(s, ch) = AtAfter(s, ch)
  BY <1>3 DEF Stream!AtAfter, AtAfter
<1>5. \A s, ch : Stream!InAfter(s, ch) = InAfter(s, ch)
  BY DEF Stream!InAfter, InAfter, Stream!Quotes, Quotes
<1>6. \A s, ch : Stream!StepOf(s, ch) = StepOf(s, ch)
  BY <1>4, <1>5 DEF Stream!StepOf, StepOf
<1>7. \A s, ch : Stream!ActionOf(s, ch) = ActionOf(s, ch)
  BY DEF Stream!ActionOf, ActionOf
<1> QED BY <1>6, <1>7

\* They trim the same.
LEMMA SameTrim == \A text : Stream!Trim(text) = Trim(text)
<1>1. \A S : Stream!Min(S) = Min(S) /\ Stream!Max(S) = Max(S)
  BY DEF Stream!Min, Min, Stream!Max, Max
<1>2. \A text : Stream!LeftTrim(text) = LeftTrim(text)
  BY <1>1 DEF Stream!LeftTrim, LeftTrim, Stream!LeftTrims, LeftTrims
<1>3. \A text : Stream!RightTrim(text) = RightTrim(text)
  BY <1>1 DEF Stream!RightTrim, RightTrim, Stream!RightTrims, RightTrims
<1> QED BY <1>2, <1>3 DEF Stream!Trim, Trim

\* They mean the same states.
LEMMA SameTags ==
  /\ Stream!Start = Start /\ Stream!Text = Text /\ Stream!TagNameEnd = TagNameEnd
  /\ \A s : /\ Stream!InTag(s) = InTag(s) /\ Stream!NamedTag(s) = NamedTag(s)
            /\ Stream!HasKey(s) = HasKey(s)
BY DEF Stream!Start, Start, Stream!Text, Text, Stream!TagNameEnd, TagNameEnd,
  Stream!InTag, InTag, Stream!NamedTag, NamedTag, Stream!HasKey, HasKey

\* They call the handlers alike.
LEMMA SameCalls ==
  /\ \A b : Stream!Outputs(b) = Outputs(b)
  /\ \A n, a : Stream!StartTag(n, a) = StartTag(n, a) /\ Stream!EndTag(n) = EndTag(n)
BY DEF Stream!Outputs, Outputs, Stream!Call, Call, Stream!StartTag, StartTag, Stream!EndTag, EndTag

-----------------------------------------------------------------------------
(* Where the specification is.                                             *)

\* The bytes that follow the one numbered `last`.
Numbered(last, length) == [k \in 1..length |-> last + k]

\* Bytes of the buffer are numbered as in the document.
LEMMA BytesNumbered ==
  ASSUME Inv, NEW q \in Pointers, NEW length \in Nat, q.off + length <= Len(Buffer)
  PROVE  BytesAt(q, length) = Numbered(Base + q.off, length)
<1> DEFINE buffer == Buffer
           base   == Base
           off    == q.off
           bytes  == SubSeq(buffer, off + 1, off + length)
<1>1. /\ buffer \in Seq(Nat) /\ base \in Nat /\ off \in Nat /\ off + length <= Len(buffer)
      /\ \A k \in 1..Len(buffer) : buffer[k] = base + k
  BY Places, BufferType DEF Pointers
<1>2. BytesAt(q, length) \in Seq(Nat)
  BY BytesAtType
<1>3. bytes \in Seq(Nat)
  BY <1>2 DEF BytesAt
<1> HIDE DEF buffer, base, off
<1>4. Len(bytes) = length /\ \A i \in 1..length : bytes[i] = base + off + i
  BY <1>1, NumberedBytes
<1> HIDE DEF bytes
<1>5. bytes = [k \in 1..length |-> base + off + k]
  BY <1>3, <1>4
<1> QED BY <1>5 DEF bytes, buffer, base, off, BytesAt, Numbered

(***************************************************************************)
(* The specification's variables, in terms of offsets.                     *)
(***************************************************************************)
StreamMapped ==
  /\ StreamPos = Frontier
  /\ StreamMark = IF InTag(cs) THEN Base + mark.off + 1 ELSE 0
  /\ StreamName = IF NamedTag(cs) /\ tag_text # Null
                    THEN Numbered(Base + tag_text.off, tag_text_length) ELSE <<>>
  /\ StreamKey = IF HasKey(cs)
                   THEN Numbered(Base + attr_key.off, attr_key_length) ELSE <<>>

\* What the state of the parser means to the specification, written out.
LEMMA StreamIs == Inv => StreamMapped
<1> SUFFICES ASSUME Inv PROVE StreamMapped
  OBVIOUS
<1>1. /\ Base \in Nat /\ Parsed \in Nat /\ Parsed <= Len(Buffer) /\ Len(Buffer) \in Nat
      /\ \A k \in 1..Len(Buffer) : Buffer[k] = Base + k
  BY Places, BufferType
<1>2. StreamPos = Frontier
  BY FrontIs DEF StreamPos, Inv, TypeOK
<1>3. InTag(cs) => PositionOf(mark) = Base + mark.off + 1
  <2>1. SUFFICES ASSUME InTag(cs) PROVE PositionOf(mark) = Base + mark.off + 1
    OBVIOUS
  <2>2. mark.off \in Nat /\ mark.off + 1 <= Parsed
    <3>1. mark.off \in Nat
      BY DEF Inv, TypeOK, Pointers
    <3>2. mark.off + 2 <= Parsed \/ mark.off + 1 <= Parsed
      BY <2>1 DEF Inv, PointersInBuffer, MarkInBuffer, InParsed
    <3> QED BY <1>1, <3>1, <3>2
  <2>3. Buffer[1] = Base + 1
    BY <1>1, <2>2
  <2> QED BY <1>1, <2>2, <2>3 DEF PositionOf
<1>4. NamedTag(cs) /\ tag_text # Null =>
        BytesAt(tag_text, tag_text_length) = Numbered(Base + tag_text.off, tag_text_length)
  <2>1. SUFFICES ASSUME NamedTag(cs), tag_text # Null
                 PROVE  BytesAt(tag_text, tag_text_length) =
                          Numbered(Base + tag_text.off, tag_text_length)
    OBVIOUS
  <2>2. tag_text \in Pointers /\ tag_text_length \in Nat /\ tag_text.off \in Nat
    BY DEF Inv, TypeOK, Pointers
  <2>3. tag_text.off + tag_text_length <= Parsed
    BY <2>1 DEF Inv, PointersInBuffer, NameInBuffer, InParsed
  <2>4. tag_text.off + tag_text_length <= Len(Buffer)
    BY <1>1, <2>2, <2>3
  <2> QED BY <2>2, <2>4, BytesNumbered
<1>5. HasKey(cs) =>
        BytesAt(attr_key, attr_key_length) = Numbered(Base + attr_key.off, attr_key_length)
  <2>1. SUFFICES ASSUME HasKey(cs)
                 PROVE  BytesAt(attr_key, attr_key_length) =
                          Numbered(Base + attr_key.off, attr_key_length)
    OBVIOUS
  <2>2. attr_key \in Pointers /\ attr_key_length \in Nat /\ attr_key.off \in Nat
    BY DEF Inv, TypeOK, Pointers
  <2>3. attr_key.off + attr_key_length <= Parsed
    BY <2>1 DEF Inv, PointersInBuffer, KeyInBuffer, InParsed
  <2>4. attr_key.off + attr_key_length <= Len(Buffer)
    BY <1>1, <2>2, <2>3
  <2> QED BY <2>2, <2>4, BytesNumbered
<1> QED BY <1>2, <1>3, <1>4, <1>5 DEF StreamMapped, StreamMark, StreamName, StreamKey

\* So they are in the next state.
LEMMA StreamIsNext == Inv' => StreamMapped'
BY StreamIs, PTL

-----------------------------------------------------------------------------
(* Parts of the document.                                                  *)

\* A part of it without what is trimmed off.
Trimmed(bytes) ==
  LET t == Trim([k \in DOMAIN bytes |-> doc[bytes[k]]])
  IN  SubSeq(bytes, t.skip + 1, t.skip + t.keep)

\* A part of consecutive bytes is one of consecutive bytes.
LEMMA PartOfNumbered ==
  ASSUME NEW last \in Nat, NEW length \in Nat, NEW skip \in Nat, NEW keep \in Nat,
         skip + keep <= length
  PROVE  SubSeq(Numbered(last, length), skip + 1, skip + keep) = Numbered(last + skip, keep)
<1> DEFINE s     == Numbered(last, length)
           bytes == SubSeq(s, skip + 1, skip + keep)
<1>1. s \in Seq(Nat) /\ Len(s) = length /\ \A k \in 1..Len(s) : s[k] = last + k
  BY DEF Numbered
<1> HIDE DEF s
<1>2. Len(bytes) = keep /\ \A i \in 1..keep : bytes[i] = last + skip + i
  BY <1>1, NumberedBytes
<1>3. bytes \in Seq(Nat)
  <2> DEFINE m == skip + 1
             n == skip + keep
  <2>1. \A i \in m..n : s[i] \in Nat
    BY <1>1
  <2>2. m \in Int /\ n \in Int
    OBVIOUS
  <2> HIDE DEF m, n
  <2>3. SubSeq(s, m, n) \in Seq(Nat)
    BY <2>1, <2>2, SubSeqProperties
  <2> QED BY <2>3 DEF m, n
<1> HIDE DEF bytes
<1>4. bytes = [k \in 1..keep |-> last + skip + k]
  BY <1>2, <1>3
<1> QED BY <1>4 DEF bytes, s, Numbered

\* A trimmed pointer points to its part of the document, trimmed.
LEMMA TrimmedIs ==
  ASSUME Inv, NEW q \in Pointers, NEW length \in Nat, q.off + length <= Len(Buffer)
  PROVE  LET name == TrimmedPointer(q, length)
         IN  BytesAt(name.at, name.length) = Trimmed(Numbered(Base + q.off, length))
<1> DEFINE text  == TextAt(q, length)
           bytes == Numbered(Base + q.off, length)
           t     == Trim(text)
           name  == TrimmedPointer(q, length)
<1>1. /\ q.off \in Nat /\ Base \in Nat /\ Len(Buffer) \in Nat
      /\ \A k \in 1..Len(Buffer) : Buffer[k] = Base + k
  BY Places, BufferType DEF Pointers
<1>2. text = [k \in DOMAIN bytes |-> doc[bytes[k]]]
  <2>1. \A k \in 1..length : Buffer[q.off + k] = Base + q.off + k
    <3>1. \A k \in 1..length : q.off + k \in 1..Len(Buffer) /\ Base + (q.off + k) = Base + q.off + k
      BY <1>1
    <3> QED BY <1>1, <3>1
  <2> QED BY <2>1 DEF TextAt, Numbered
<1>3. text \in Seq(Chars) /\ Len(text) = length
  <2>1. \A k \in 1..length : doc[Buffer[q.off + k]] \in Chars
    <3>1. \A k \in 1..length : q.off + k \in 1..Len(Buffer)
      BY <1>1
    <3> QED BY <3>1, BufferType
  <2> QED BY <2>1 DEF TextAt
<1> HIDE DEF text
<1>4. t.skip \in Nat /\ t.keep \in Nat /\ t.skip + t.keep <= length
  BY <1>3, TrimRange
<1>5. Trimmed(bytes) = SubSeq(bytes, t.skip + 1, t.skip + t.keep)
  BY <1>2 DEF Trimmed
<1>6. name.at = At(q.buf, q.off + t.skip) /\ name.length = t.keep
  BY DEF TrimmedPointer, text
<1>7. /\ name.at \in Pointers /\ name.length \in Nat
      /\ name.at.off + name.length <= q.off + length
  BY TrimmedPointerRange
<1> HIDE DEF t, name, bytes
<1>8. name.at.off = q.off + t.skip
  BY <1>6 DEF At
<1>9. BytesAt(name.at, name.length) = Numbered(Base + (q.off + t.skip), t.keep)
  <2>1. name.at.off + name.length <= Len(Buffer)
    BY <1>1, <1>4, <1>6, <1>7, <1>8
  <2> QED BY <1>6, <1>7, <1>8, <2>1, BytesNumbered
<1>10. SubSeq(bytes, t.skip + 1, t.skip + t.keep) = Numbered(Base + q.off + t.skip, t.keep)
  <2> DEFINE last == Base + q.off
  <2>1. last \in Nat /\ bytes = Numbered(last, length)
    BY <1>1 DEF bytes
  <2> HIDE DEF last
  <2>2. SubSeq(bytes, t.skip + 1, t.skip + t.keep) = Numbered(last + t.skip, t.keep)
    BY <1>4, <2>1, PartOfNumbered
  <2> QED BY <2>2 DEF last
<1>11. Base + (q.off + t.skip) = Base + q.off + t.skip
  BY <1>1, <1>4
<1>12. BytesAt(name.at, name.length) = Trimmed(bytes)
  BY <1>5, <1>9, <1>10, <1>11
<1> QED BY <1>12 DEF name, bytes

\* So does the specification trim.
LEMMA StreamTrims ==
  /\ Stream!TrimmedName = Trimmed(StreamName)
  /\ \A offset : Stream!Part(offset) = Trimmed(Stream!Bytes(StreamMark + offset, StreamPos))
BY SameTrim DEF Stream!TrimmedName, Stream!Part, Trimmed

\* It numbers bytes from the first to the last.
LEMMA StreamBytes ==
  ASSUME NEW last \in Int, NEW length \in Int
  PROVE  Stream!Bytes(last + 1, last + length) = Numbered(last, length)
<1>1. last + length - (last + 1) + 1 = length
  OBVIOUS
<1>2. \A k \in 1..length : last + 1 + k - 1 = last + k
  OBVIOUS
<1> QED BY <1>1, <1>2 DEF Stream!Bytes, Numbered

-----------------------------------------------------------------------------
(* One byte.                                                               *)

(***************************************************************************)
(* The specification takes the byte the parser is at.                      *)
(***************************************************************************)
LEMMA StreamTakes ==
  ASSUME Inv, NEW action, Step(action)
  PROVE  /\ Stream!Take(action)
         /\ Stream!here = byte /\ Stream!target = target
<1>1. AtByte /\ ActionOf(cs, char) = action /\ UNCHANGED doc /\ pc' = pc /\ pc = "exec"
  BY DEF Step, document, AtByte
<1>2. /\ Frontier' = Frontier + 1 /\ byte = Frontier + 1 /\ cs' = target
  BY StepPlaces
<1>3. StreamPos = Frontier /\ StreamPos' = Frontier'
  <2>1. StreamPos = Frontier
    BY StreamIs DEF StreamMapped
  <2>2. /\ Base' = Base /\ p' = p + 1 /\ Len(Buffer') = Len(Buffer) /\ pos' = pos
        /\ pos \in Nat /\ Len(Buffer) \in Nat /\ p \in Nat
    BY <1>1, StepPlaces, ByteType, FrontIs DEF Step, document, Buffer
  <2>3. StreamPos' = pos' - (Len(Buffer') - p')
    BY <1>1 DEF StreamPos
  <2>4. Frontier' = pos - Len(Buffer) + p + 1
    BY <1>1, <1>2, FrontIs
  <2> QED BY <2>1, <2>2, <2>3, <2>4
<1>4. byte <= Len(doc) /\ Len(doc) \in Nat
  <2>1. pos <= Len(doc) /\ Len(doc) \in Nat /\ pos \in Nat
    BY DocsAssumption DEF Inv, TypeOK
  <2>2. byte = Base + (p + 1) /\ Base = pos - Len(Buffer) /\ p + 1 <= Len(Buffer)
        /\ Len(Buffer) \in Nat /\ p \in Nat
    BY <1>1, ByteType, StepPlaces, FrontIs
  <2> QED BY <2>1, <2>2
<1>5. Stream!here = byte
  BY <1>2, <1>3 DEF Stream!here
<1>6. Stream!target = target /\ Stream!ActionOf(cs, doc[byte]) = action
  BY <1>1, <1>5, SameScanner DEF Stream!target, target, char
<1>7. StreamPos < Len(doc) /\ StreamPos' = byte
  BY <1>2, <1>3, <1>4, StepPlaces
<1>8. UNCHANGED <<doc, pc = "ended">>
  BY <1>1
<1> QED BY <1>1, <1>2, <1>5, <1>6, <1>7, <1>8 DEF Stream!Take

(***************************************************************************)
(* What becomes of the mark, the name and the key where an action leaves   *)
(* the pointers: they last as long as the scanner needs them.              *)
(***************************************************************************)
LEMMA StreamMoves ==
  ASSUME Inv, Inv', NEW action, Step(action),
         IF action = "echo_only" THEN mark' = mark ELSE mark' = AtP
  PROVE  /\ Stream!Mark(IF action = "echo_only" THEN StreamMark ELSE byte)
         /\ action # "see_start_tag" /\ Stays(tag_text, tag_text_length) =>
              Stream!Name(StreamName)
         /\ action # "see_attribute_key" /\ Stays(attr_key, attr_key_length) =>
              Stream!Key(StreamKey)
<1>1. StreamMapped /\ StreamMapped'
  BY StreamIs, StreamIsNext
<1>2. /\ Base' = Base /\ cs' = target /\ AtP.off = p /\ byte = Base + p + 1
      /\ Base \in Nat /\ p \in Nat
  BY StepPlaces
<1>3. /\ action = "echo_only" /\ InTag(target) => InTag(cs)
      /\ action # "see_start_tag" /\ NamedTag(target) => NamedTag(cs)
      /\ action # "see_attribute_key" /\ HasKey(target) => HasKey(cs)
  <2>1. AtByte /\ ActionOf(cs, char) = action
    BY DEF Step
  <2> QED BY <2>1, ByteType, TagKept DEF target
<1>4. StreamMark' =
        IF InTag(target) THEN IF action = "echo_only" THEN StreamMark ELSE byte ELSE 0
  BY <1>1, <1>2, <1>3 DEF StreamMapped
<1>5. action # "see_start_tag" /\ Stays(tag_text, tag_text_length) =>
        StreamName' = IF NamedTag(target) THEN StreamName ELSE <<>>
  BY <1>1, <1>2, <1>3 DEF StreamMapped, Stays
<1>6. action # "see_attribute_key" /\ Stays(attr_key, attr_key_length) =>
        StreamKey' = IF HasKey(target) THEN StreamKey ELSE <<>>
  BY <1>1, <1>2, <1>3 DEF StreamMapped, Stays
<1>7. Stream!target = target
  BY StreamTakes
<1> QED BY <1>4, <1>5, <1>6, <1>7, SameTags DEF Stream!Mark, Stream!Name, Stream!Key

\* The byte is held back alike.
LEMMA StreamHolds ==
  ASSUME Inv, NEW action, Step(action)
  PROVE  /\ echobuffer' = Held => Stream!Hold
         /\ Stream!Released = Released
<1>1. Stream!target = target /\ Stream!here = byte
  BY StreamTakes
<1>2. prev_state = cs
  BY DEF Inv, PointersInBuffer
<1> QED BY <1>1, <1>2, SameTags DEF Stream!Hold, Held, Stream!Released, Released

\* Text is sent alike.
LEMMA EchoOnlyStream == ASSUME Inv, Inv', EchoOnly PROVE Stream!EchoOnly
<1>1. /\ Step("echo_only") /\ AtByte /\ echobuffer' = Held /\ EchoChars(Released)
      /\ mark' = mark /\ Stays(tag_text, tag_text_length) /\ Stays(attr_key, attr_key_length)
      /\ attributes' = attributes
  BY DEF EchoOnly, Step, pointers, lengths, Stays
<1>2. Stream!Take("echo_only") /\ Stream!Hold /\ Stream!Released = Released
  BY <1>1, StreamTakes, StreamHolds
<1>3. Stream!Mark(StreamMark) /\ Stream!Name(StreamName) /\ Stream!Key(StreamKey)
  BY <1>1, StreamMoves
<1>4. Sent' = Sent \o Outputs(Released)
  BY <1>1, ByteType, SentByEcho DEF Inv
<1> QED BY <1>1, <1>2, <1>3, <1>4, SameCalls DEF Stream!EchoOnly

\* begin marks the byte.
LEMMA BeginStream == ASSUME Inv, Inv', Begin PROVE Stream!Begin
<1>1. /\ Step("begin") /\ echobuffer' = Held /\ UNCHANGED output /\ mark' = AtP
      /\ Stays(tag_text, tag_text_length) /\ Stays(attr_key, attr_key_length)
      /\ attributes' = attributes
  BY DEF Begin, lengths, Stays
<1>2. Stream!Take("begin") /\ Stream!Hold /\ Stream!here = byte
  BY <1>1, StreamTakes, StreamHolds
<1>3. Stream!Mark(byte) /\ Stream!Name(StreamName) /\ Stream!Key(StreamKey)
  BY <1>1, StreamMoves
<1>4. Sent' = Sent
  BY <1>1, SentStays
<1> QED BY <1>1, <1>2, <1>3, <1>4 DEF Stream!Begin

(***************************************************************************)
(* The part of the tag from the mark, or some bytes after it, to the byte. *)
(***************************************************************************)
LEMMA MarkedPart ==
  ASSUME Inv, NEW action, Step(action), action \notin {"echo_only", "begin"},
         NEW offset \in Nat, mark.off + offset <= p
  PROVE  /\ mark.off \in Nat /\ p - (mark.off + offset) \in Nat
         /\ Stream!Bytes(StreamMark + offset, StreamPos) =
              Numbered(Base + (mark.off + offset), p - (mark.off + offset))
<1>1. StreamMapped
  BY StreamIs
<1>2. InTag(cs)
  <2>1. AtByte /\ ActionOf(cs, char) = action
    BY DEF Step
  <2> QED BY <2>1, ByteType, ActionOrigin
<1>3. Base \in Nat /\ mark.off \in Nat /\ p \in Nat /\ Frontier = Base + p
  BY StepPlaces, PointersAtStep
<1> DEFINE last   == Base + (mark.off + offset)
           length == p - (mark.off + offset)
<1>4. /\ StreamMark + offset = last + 1 /\ StreamPos = last + length
      /\ last \in Int /\ length \in Int /\ length \in Nat
  <2>1. StreamMark = Base + mark.off + 1 /\ StreamPos = Base + p
    BY <1>1, <1>2, <1>3 DEF StreamMapped
  <2> HIDE DEF StreamMapped
  <2> QED BY <1>3, <2>1
<1> HIDE DEF last, length
<1>5. Stream!Bytes(last + 1, last + length) = Numbered(last, length)
  BY <1>4, StreamBytes
<1>6. Stream!Bytes(StreamMark + offset, StreamPos) = Numbered(last, length)
  BY <1>4, <1>5
<1> QED BY <1>3, <1>4, <1>6 DEF last, length

\* see_start_tag takes the bytes after the mark for the name.
LEMMA SeeStartTagStream == ASSUME Inv, Inv', SeeStartTag PROVE Stream!SeeStartTag
<1>1. /\ Step("see_start_tag") /\ echobuffer' = Held /\ UNCHANGED output /\ mark' = AtP
      /\ tag_text' = At(mark.buf, mark.off + 1)
      /\ tag_text_length' = p - (mark.off + 1)
      /\ Stays(attr_key, attr_key_length)
      /\ attributes' = attributes
  BY DEF SeeStartTag, Stays
<1>2. Stream!Take("see_start_tag") /\ Stream!Hold /\ Stream!here = byte /\ Stream!target = target
  BY <1>1, StreamTakes, StreamHolds
<1>3. Stream!Mark(byte) /\ Stream!Key(StreamKey)
  BY <1>1, StreamMoves
<1>4. Sent' = Sent
  BY <1>1, SentStays
<1>5. mark.buf = Here /\ mark.off + 1 <= p
  BY <1>1, PointersAtStep
<1>6. Stream!Bytes(StreamMark + 1, StreamPos) = Numbered(Base + (mark.off + 1), p - (mark.off + 1))
  BY <1>1, <1>5, MarkedPart
<1>7. Base' = Base /\ cs' = target /\ tag_text' # Null /\ tag_text'.off = mark.off + 1
  BY <1>1, <1>5, StepPlaces, BufferType DEF At, Null
<1>8. StreamName' =
        IF NamedTag(target) THEN Stream!Bytes(StreamMark + 1, StreamPos) ELSE <<>>
  BY <1>1, <1>6, <1>7, StreamIsNext DEF StreamMapped
<1>9. Stream!Name(Stream!Bytes(StreamMark + 1, StreamPos))
  BY <1>2, <1>8, SameTags DEF Stream!Name
<1> QED BY <1>1, <1>2, <1>3, <1>4, <1>9 DEF Stream!SeeStartTag

(***************************************************************************)
(* A trimmed part from the mark, or some bytes after it, is that of the    *)
(* specification.                                                          *)
(***************************************************************************)
LEMMA MarkedTrimmed ==
  ASSUME Inv, NEW action, Step(action), action \notin {"echo_only", "begin"},
         NEW offset \in Nat, mark.off + offset <= p,
         NEW from \in Pointers, from.off = mark.off + offset, from.buf = mark.buf
  PROVE  LET name == TrimmedPointer(from, p - (mark.off + offset))
         IN  /\ name.at \in Pointers /\ name.at.buf = Here /\ name.length \in Nat
             /\ BytesAt(name.at, name.length) \in Seq(Nat)
             /\ BytesAt(name.at, name.length) = Stream!Part(offset)
             /\ Numbered(Base + name.at.off, name.length) = Stream!Part(offset)
<1> DEFINE length == p - (mark.off + offset)
           name   == TrimmedPointer(from, length)
<1>1. AtByte
  BY DEF Step
<1>2. p \in Nat /\ p + 1 <= Len(Buffer) /\ Len(Buffer) \in Nat
  BY <1>1, ByteType, BufferType
<1>3. /\ length \in Nat /\ mark.off \in Nat
      /\ Stream!Bytes(StreamMark + offset, StreamPos) = Numbered(Base + from.off, length)
  BY MarkedPart
<1>4. from.off + length = p
  BY <1>2, <1>3
<1> HIDE DEF length
<1>5. from.off + length <= Len(Buffer)
  BY <1>2, <1>4
<1>6. /\ name.at \in Pointers /\ name.at.buf = from.buf /\ name.length \in Nat
      /\ name.at.off + name.length <= p
  BY <1>3, <1>4, <1>5, TrimmedPointerRange
<1>7. BytesAt(name.at, name.length) = Trimmed(Numbered(Base + from.off, length))
  BY <1>3, <1>5, TrimmedIs
<1> HIDE DEF name
<1>8. /\ BytesAt(name.at, name.length) = Numbered(Base + name.at.off, name.length)
      /\ BytesAt(name.at, name.length) \in Seq(Nat)
  <2>1. name.at.off + name.length <= Len(Buffer)
    <3>1. name.at.off \in Nat
      BY <1>6 DEF Pointers
    <3> QED BY <1>2, <1>6, <3>1
  <2> QED BY <1>6, <2>1, BytesNumbered, BytesAtType
<1>9. Stream!Part(offset) = Trimmed(Numbered(Base + from.off, length))
  BY <1>3, StreamTrims
<1>10. mark.buf = Here
  BY PointersAtStep
<1>11. /\ name.at \in Pointers /\ name.at.buf = Here /\ name.length \in Nat
       /\ BytesAt(name.at, name.length) \in Seq(Nat)
       /\ BytesAt(name.at, name.length) = Stream!Part(offset)
       /\ Numbered(Base + name.at.off, name.length) = Stream!Part(offset)
  BY <1>6, <1>7, <1>8, <1>9, <1>10
<1> QED BY <1>11 DEF name, length

\* see_attribute_key takes the part from the mark for the key.
LEMMA SeeAttributeKeyStream == ASSUME Inv, Inv', SeeAttributeKey PROVE Stream!SeeAttributeKey
<1>1. /\ Step("see_attribute_key") /\ echobuffer' = Held /\ UNCHANGED output /\ mark' = AtP
      /\ Stays(tag_text, tag_text_length)
      /\ attributes' = attributes
  BY DEF SeeAttributeKey, Stays
<1>2. /\ Stream!Take("see_attribute_key") /\ Stream!Hold
      /\ Stream!here = byte /\ Stream!target = target
  BY <1>1, StreamTakes, StreamHolds
<1>3. Stream!Mark(byte) /\ Stream!Name(StreamName)
  BY <1>1, StreamMoves
<1>4. Sent' = Sent
  BY <1>1, SentStays
<1>5. mark \in Pointers /\ mark.off \in Nat /\ mark.off + 0 <= p /\ mark.off + 0 = mark.off
  BY <1>1, PointersAtStep, StepPlaces
<1> DEFINE key == TrimmedPointer(mark, p - mark.off)
<1>6. attr_key' = key.at /\ attr_key_length' = key.length
  BY DEF SeeAttributeKey
<1>7. Numbered(Base + key.at.off, key.length) = Stream!Part(0)
  BY <1>1, <1>5, MarkedTrimmed
<1> HIDE DEF key
<1>8. StreamKey' = IF HasKey(target) THEN Stream!Part(0) ELSE <<>>
  <2>1. Base' = Base /\ cs' = target
    BY <1>1, StepPlaces
  <2> QED BY <1>6, <1>7, <2>1, StreamIsNext DEF StreamMapped
<1>9. Stream!Key(Stream!Part(0))
  BY <1>2, <1>8, SameTags DEF Stream!Key
<1> QED BY <1>1, <1>2, <1>3, <1>4, <1>9 DEF Stream!SeeAttributeKey

\* see_attribute_value adds an attribute of this key and that part.
LEMMA SeeAttributeValueStream ==
  ASSUME Inv, Inv', SeeAttributeValue PROVE Stream!SeeAttributeValue
<1>1. /\ Step("see_attribute_value") /\ echobuffer' = Held /\ UNCHANGED output /\ mark' = AtP
      /\ Stays(tag_text, tag_text_length) /\ Stays(attr_key, attr_key_length)
  BY DEF SeeAttributeValue, Stays, lengths
<1>2. /\ Stream!Take("see_attribute_value") /\ Stream!Hold
      /\ Stream!here = byte /\ Stream!target = target
  BY <1>1, StreamTakes, StreamHolds
<1>3. Stream!Mark(byte) /\ Stream!Name(StreamName) /\ Stream!Key(StreamKey)
  BY <1>1, StreamMoves
<1>4. Sent' = Sent
  BY <1>1, SentStays
<1>5. mark \in Pointers /\ mark.off \in Nat /\ mark.off + 0 <= p /\ mark.off + 0 = mark.off
  BY <1>1, PointersAtStep, StepPlaces
<1> DEFINE value == TrimmedPointer(mark, p - mark.off)
<1>6. attributes' = Append(attributes, [name  |-> BytesAt(attr_key, attr_key_length),
                                        value |-> BytesAt(value.at, value.length)])
  BY DEF SeeAttributeValue
<1>7. BytesAt(value.at, value.length) = Stream!Part(0)
  BY <1>1, <1>5, MarkedTrimmed
<1> HIDE DEF value
<1>8. StreamKey = BytesAt(attr_key, attr_key_length)
  <2>1. AtByte /\ ActionOf(cs, char) = "see_attribute_value"
    BY <1>1 DEF Step
  <2> QED BY <2>1, ByteType, ActionOrigin DEF StreamKey
<1> QED BY <1>1, <1>2, <1>3, <1>4, <1>6, <1>7, <1>8 DEF Stream!SeeAttributeValue

(***************************************************************************)
(* The two actions that report a name from the mark and keep a pointer to  *)
(* it.                                                                     *)
(***************************************************************************)
LEMMA NameKept ==
  ASSUME Inv, Inv', NEW action, Step(action), action \notin {"echo_only", "begin"},
         NEW offset \in Nat, mark.off + offset <= p,
         NEW from \in Pointers, from.off = mark.off + offset, from.buf = mark.buf,
         LET name == TrimmedPointer(from, p - (mark.off + offset))
         IN  tag_text' = name.at /\ tag_text_length' = name.length
  PROVE  Stream!Name(Stream!Part(offset))
<1> DEFINE name == TrimmedPointer(from, p - (mark.off + offset))
<1>1. /\ name.at.buf = Here
      /\ Numbered(Base + name.at.off, name.length) = Stream!Part(offset)
  BY MarkedTrimmed
<1>2. tag_text' = name.at /\ tag_text_length' = name.length
  OBVIOUS
<1> HIDE DEF name
<1>3. tag_text' # Null
  BY <1>1, <1>2, BufferType DEF Null, At
<1>4. Base' = Base /\ cs' = target /\ Stream!target = target
  BY StepPlaces, StreamTakes
<1>5. StreamName' = IF NamedTag(target) THEN Stream!Part(offset) ELSE <<>>
  BY <1>1, <1>2, <1>3, <1>4, StreamIsNext DEF StreamMapped
<1> QED BY <1>4, <1>5, SameTags DEF Stream!Name

\* block_start_tag reports a start tag.
LEMMA BlockStartTagStream == ASSUME Inv, Inv', BlockStartTag PROVE Stream!BlockStartTag
<1>1. /\ Step("block_start_tag") /\ echobuffer' = <<>> /\ mark' = AtP /\ attributes' = <<>>
      /\ Stays(attr_key, attr_key_length)
  BY DEF BlockStartTag, Stays
<1>2. Stream!Take("block_start_tag") /\ Stream!here = byte
  BY <1>1, StreamTakes
<1>3. Stream!Mark(byte) /\ Stream!Key(StreamKey)
  BY <1>1, StreamMoves
<1>4. /\ mark \in Pointers /\ mark.off \in Nat /\ mark.off + 0 <= p
      /\ mark.off + 0 = mark.off
  BY <1>1, PointersAtStep, StepPlaces
<1> DEFINE name  == TrimmedPointer(mark, p - mark.off)
           bytes == BytesAt(name.at, name.length)
           t     == <<StartTag(bytes, <<>>)>>
<1>5. tag_text' = name.at /\ tag_text_length' = name.length /\ FlushOutput(t)
  BY DEF BlockStartTag
<1>6. Stream!Name(Stream!Part(0))
  BY <1>1, <1>4, <1>5, NameKept
<1>7. bytes = Stream!Part(0) /\ bytes \in Seq(Nat)
  BY <1>1, <1>4, MarkedTrimmed
<1> HIDE DEF bytes
<1>8. t \in Seq(Calls)
  <2>1. <<>> \in Attributes
    BY DEF Attributes
  <2>2. StartTag(bytes, <<>>) \in Calls
    BY <1>7, <2>1, TagCallType
  <2> QED BY <2>2
<1> HIDE DEF t
<1>9. Sent' = Sent \o t
  BY <1>5, <1>8, SentByFlush DEF Inv
<1>10. t = <<Stream!StartTag(Stream!Part(0), <<>>)>>
  BY <1>7, SameCalls DEF t
<1>11. Stream!Report(<<Stream!StartTag(Stream!Part(0), <<>>)>>)
  BY <1>1, <1>9, <1>10 DEF Stream!Report
<1> QED BY <1>1, <1>2, <1>3, <1>6, <1>11 DEF Stream!BlockStartTag

\* block_end_tag an end tag.
LEMMA BlockEndTagStream == ASSUME Inv, Inv', BlockEndTag PROVE Stream!BlockEndTag
<1>1. /\ Step("block_end_tag") /\ echobuffer' = <<>> /\ mark' = AtP
      /\ attributes' = attributes /\ Stays(attr_key, attr_key_length)
  BY DEF BlockEndTag, Stays
<1>2. Stream!Take("block_end_tag") /\ Stream!here = byte
  BY <1>1, StreamTakes
<1>3. Stream!Mark(byte) /\ Stream!Key(StreamKey)
  BY <1>1, StreamMoves
<1> DEFINE from  == At(mark.buf, mark.off + 2)
           name  == TrimmedPointer(from, p - (mark.off + 2))
           bytes == BytesAt(name.at, name.length)
           t     == <<EndTag(bytes)>>
<1>4. /\ mark.off + 2 <= p
      /\ from \in Pointers /\ from.off = mark.off + 2 /\ from.buf = mark.buf
  BY <1>1, PointersAtStep, BufferType DEF At, Pointers
<1>5. tag_text' = name.at /\ tag_text_length' = name.length /\ FlushOutput(t)
  BY DEF BlockEndTag
<1> HIDE DEF from
<1>6. Stream!Name(Stream!Part(2))
  BY <1>1, <1>4, <1>5, NameKept
<1>7. bytes = Stream!Part(2) /\ bytes \in Seq(Nat)
  BY <1>1, <1>4, MarkedTrimmed
<1> HIDE DEF bytes
<1>8. t \in Seq(Calls)
  <2>1. <<>> \in Attributes
    BY DEF Attributes
  <2>2. EndTag(bytes) \in Calls
    BY <1>7, <2>1, TagCallType
  <2> QED BY <2>2
<1> HIDE DEF t
<1>9. Sent' = Sent \o t
  BY <1>5, <1>8, SentByFlush DEF Inv
<1>10. t = <<Stream!EndTag(Stream!Part(2))>>
  BY <1>7, SameCalls DEF t
<1>11. Stream!Report(<<Stream!EndTag(Stream!Part(2))>>)
  BY <1>1, <1>9, <1>10 DEF Stream!Report
<1> QED BY <1>1, <1>2, <1>3, <1>6, <1>11 DEF Stream!BlockEndTag

(***************************************************************************)
(* The two actions that report a name from the pointer to it.              *)
(***************************************************************************)
LEMMA NameTrimmed ==
  ASSUME Inv, NEW action \in {"see_end_tag", "see_block_start_with_attributes"},
         Step(action)
  PROVE  LET t == TrimmedPointer(tag_text, tag_text_length)
         IN  BytesAt(t.at, t.length) = Stream!TrimmedName
<1>1. AtByte /\ ActionOf(cs, char) = action /\ Live(tag_text)
  BY DEF Step, Needs
<1>2. p \in Nat /\ p + 1 <= Len(Buffer) /\ Len(Buffer) \in Nat
  BY <1>1, ByteType, BufferType
<1>3. tag_text \in Pointers /\ tag_text_length \in Nat
  BY DEF Inv, TypeOK
<1>4. tag_text.off + tag_text_length <= p /\ tag_text.off \in Nat
  BY <1>3, PointersAtStep DEF Pointers
<1>5. tag_text.off + tag_text_length <= Len(Buffer)
  BY <1>2, <1>3, <1>4
<1>6. NamedTag(cs) /\ tag_text # Null
  BY <1>1, ByteType, ActionOrigin, BufferType DEF Live, Null, At
<1>7. StreamName = Numbered(Base + tag_text.off, tag_text_length)
  BY <1>6, StreamIs DEF StreamMapped
<1> QED BY <1>3, <1>5, <1>7, TrimmedIs, StreamTrims

\* What both do besides.
LEMMA ForgetStream ==
  ASSUME Inv, Inv', NEW action, Step(action), Forget, action # "see_start_tag",
         action # "echo_only", action # "see_attribute_key"
  PROVE  /\ attributes' = <<>> /\ echobuffer' = <<>>
         /\ Stream!Mark(byte) /\ Stream!Name(<<>>) /\ Stream!Key(StreamKey)
<1>1. /\ attributes' = <<>> /\ echobuffer' = <<>> /\ tag_text' = Null /\ mark' = AtP
      /\ Stays(attr_key, attr_key_length)
  BY DEF Forget, Stays
<1>2. Stream!Mark(byte) /\ Stream!Key(StreamKey)
  BY <1>1, StreamMoves
<1>3. Stream!Name(<<>>)
  BY <1>1 DEF Stream!Name, StreamName
<1> QED BY <1>1, <1>2, <1>3

\* see_end_tag reports both ends of a tag.
LEMMA SeeEndTagStream == ASSUME Inv, Inv', SeeEndTag PROVE Stream!SeeEndTag
<1>1. Step("see_end_tag") /\ Forget
  BY DEF SeeEndTag
<1> DEFINE name  == TrimmedPointer(tag_text, tag_text_length)
           bytes == BytesAt(name.at, name.length)
           t     == <<StartTag(bytes, attributes), EndTag(bytes)>>
<1>2. FlushOutput(t)
  BY DEF SeeEndTag
<1>3. StartTag(bytes, attributes) \in Calls /\ EndTag(bytes) \in Calls
  BY <1>1, NameReported
<1>4. bytes = Stream!TrimmedName
  BY <1>1, NameTrimmed
<1> HIDE DEF bytes
<1>5. t \in Seq(Calls)
  BY <1>3
<1>6. t = <<Stream!StartTag(Stream!TrimmedName, attributes), Stream!EndTag(Stream!TrimmedName)>>
  BY <1>4, SameCalls
<1> HIDE DEF t
<1>7. Sent' = Sent \o t
  BY <1>2, <1>5, SentByFlush DEF Inv
<1>8. Stream!Take("see_end_tag") /\ Stream!here = byte
  BY <1>1, StreamTakes
<1>9. /\ attributes' = <<>> /\ echobuffer' = <<>>
      /\ Stream!Mark(byte) /\ Stream!Name(<<>>) /\ Stream!Key(StreamKey)
  BY <1>1, ForgetStream
<1> QED BY <1>6, <1>7, <1>8, <1>9 DEF Stream!SeeEndTag, Stream!Report

\* see_block_start_with_attributes the first.
LEMMA SeeBlockStartWithAttributesStream ==
  ASSUME Inv, Inv', SeeBlockStartWithAttributes PROVE Stream!SeeBlockStartWithAttributes
<1>1. Step("see_block_start_with_attributes") /\ Forget
  BY DEF SeeBlockStartWithAttributes
<1> DEFINE name  == TrimmedPointer(tag_text, tag_text_length)
           bytes == BytesAt(name.at, name.length)
           t     == <<StartTag(bytes, attributes)>>
<1>2. FlushOutput(t)
  BY DEF SeeBlockStartWithAttributes
<1>3. StartTag(bytes, attributes) \in Calls
  BY <1>1, NameReported
<1>4. bytes = Stream!TrimmedName
  BY <1>1, NameTrimmed
<1> HIDE DEF bytes
<1>5. t \in Seq(Calls)
  BY <1>3
<1>6. t = <<Stream!StartTag(Stream!TrimmedName, attributes)>>
  BY <1>4, SameCalls
<1> HIDE DEF t
<1>7. Sent' = Sent \o t
  BY <1>2, <1>5, SentByFlush DEF Inv
<1>8. Stream!Take("see_block_start_with_attributes") /\ Stream!here = byte
  BY <1>1, StreamTakes
<1>9. /\ attributes' = <<>> /\ echobuffer' = <<>>
      /\ Stream!Mark(byte) /\ Stream!Name(<<>>) /\ Stream!Key(StreamKey)
  BY <1>1, ForgetStream
<1> QED BY <1>6, <1>7, <1>8, <1>9 DEF Stream!SeeBlockStartWithAttributes, Stream!Report

-----------------------------------------------------------------------------
(* Steps of the parser that the specification does not see.                *)

(***************************************************************************)
(* Whatever keeps what is sent and held back, where the parser is and the  *)
(* offsets of the pointers it needs, is no step of the specification.      *)
(***************************************************************************)
LEMMA StreamStutters ==
  ASSUME Inv, Inv', Sent' = Sent, Frontier' = Frontier, Base' = Base \/ ~ MidTag,
         UNCHANGED <<doc, cs, attributes, echobuffer, lengths, pc = "ended">>,
         InTag(cs) => mark'.off = mark.off,
         NamedTag(cs) =>
           \/ tag_text = Null /\ tag_text' = Null
           \/ tag_text # Null /\ tag_text' # Null /\ tag_text'.off = tag_text.off,
         HasKey(cs) => attr_key'.off = attr_key.off
  PROVE  UNCHANGED Stream!vars
<1>1. StreamMapped /\ StreamMapped'
  BY StreamIs, StreamIsNext
<1>2. ~ MidTag => ~ InTag(cs) /\ ~ NamedTag(cs) /\ ~ HasKey(cs)
  BY NoTagNoPointers
<1>3. StreamPos' = StreamPos /\ StreamMark' = StreamMark
  BY <1>1, <1>2 DEF StreamMapped
<1>4. StreamName' = StreamName /\ StreamKey' = StreamKey
  BY <1>1, <1>2 DEF StreamMapped, lengths
<1> QED BY <1>3, <1>4 DEF Stream!vars
\* The calls that leave the order are no steps: a piece after whole tags,
LEMMA ExecuteFreshStream ==
  ASSUME Inv, Inv', NEW n \in ChunkSizes, ExecuteFresh(n) PROVE UNCHANGED Stream!vars
<1>1. /\ ~ MidTag /\ pc = "idle" /\ pc' = "exec"
      /\ Frontier' = Frontier /\ cs' = cs /\ echobuffer' = echobuffer /\ Sent' = Sent
  BY FreshPlaces
<1>2. UNCHANGED <<doc, attributes, lengths>>
  BY DEF ExecuteFresh, Handed
<1> QED BY <1>1, <1>2, NoTagNoPointers, StreamStutters

\* a piece within a tag,
LEMMA ExecuteOverflowStream ==
  ASSUME Inv, Inv', NEW n \in ChunkSizes, ExecuteOverflow(n) PROVE UNCHANGED Stream!vars
<1>1. /\ pc = "idle" /\ pc' = "exec" /\ UNCHANGED <<doc, attributes, lengths>>
  BY DEF ExecuteOverflow, Handed
<1> QED BY <1>1, OverflowPlaces, StreamStutters

\* the end of a call within a tag,
LEMMA ReturnSavingStream == ASSUME Inv, Inv', ReturnSaving PROVE UNCHANGED Stream!vars
<1>1. Return /\ Buffer' = Buffer
  BY SavingPlaces
<1>2. /\ Frontier' = Frontier /\ Base' = Base
      /\ cs' = cs /\ echobuffer' = echobuffer /\ Sent' = Sent
  BY <1>1, ReturnPlaces
<1>3. UNCHANGED <<doc, attributes, lengths, pc = "ended">>
  BY <1>1 DEF Return, document
<1> QED BY <1>2, <1>3, SavingPlaces, StreamStutters

\* whether the overflow buffer is there already,
LEMMA ReturnKeepingStream == ASSUME Inv, Inv', ReturnKeeping PROVE UNCHANGED Stream!vars
<1>1. Return /\ overflow_data # <<>> /\ UNCHANGED <<overflow_data, pointers>>
  BY DEF ReturnKeeping
<1>2. Buffer' = Buffer
  BY <1>1 DEF Buffer
<1>3. /\ Frontier' = Frontier /\ Base' = Base
      /\ cs' = cs /\ echobuffer' = echobuffer /\ Sent' = Sent
  BY <1>1, <1>2, ReturnPlaces
<1>4. UNCHANGED <<doc, attributes, lengths, pc = "ended">>
  BY <1>1 DEF Return, document
<1> QED BY <1>1, <1>3, <1>4, StreamStutters DEF pointers

\* the end of one between tags, where no pointer is needed,
LEMMA ReturnBetweenTagsStream ==
  ASSUME Inv, Inv', ReturnBetweenTags PROVE UNCHANGED Stream!vars
<1>1. Return /\ ~ MidTag /\ overflow_data' = <<>>
  BY DEF ReturnBetweenTags
<1>2. Frontier' = Frontier /\ cs' = cs /\ echobuffer' = echobuffer /\ Sent' = Sent
  BY <1>1, ReturnPlaces
<1>3. UNCHANGED <<doc, attributes, lengths, pc = "ended">>
  BY <1>1 DEF Return, document
<1> QED BY <1>1, <1>2, <1>3, NoTagNoPointers, StreamStutters

\* and whatever leaves all of this.
LEMMA SameStream ==
  ASSUME Inv, Inv',
         UNCHANGED <<document, pc, data, p, cs, pointers, lengths, attributes,
                     overflow_data, echoing, output>>
  PROVE  UNCHANGED Stream!vars
<1>1. Sent' = Sent
  BY SentStays
<1>2. Frontier' = Frontier /\ Base' = Base
  BY DEF Frontier, Base, Parsed, Buffer, document
<1> QED BY <1>1, <1>2, StreamStutters DEF pointers, echoing, document

\* esi_parser_finish ends the document.
LEMMA FinishStream == ASSUME Inv, Inv', Finish PROVE Stream!Finish
<1>1. /\ FlushOutput(<<>>) /\ pc = "idle" /\ pc' = "ended" /\ pos = Len(doc)
      /\ UNCHANGED <<document, data, p, cs, pointers, lengths, attributes,
                     overflow_data, echoing>>
  BY DEF Finish
<1>2. Sent' = Sent
  <2>1. <<>> \in Seq(Calls) /\ TypeOK
    BY DEF Inv
  <2>2. Sent' = Sent \o <<>>
    BY <1>1, <2>1, SentByFlush
  <2>3. Sent \in Seq(Calls)
    BY Places
  <2> QED BY <2>2, <2>3, ConcatEmptySeq
<1>3. Frontier' = Frontier /\ Base' = Base
  BY <1>1 DEF Frontier, Base, Parsed, Buffer, document
<1>4. StreamMapped /\ StreamMapped'
  BY StreamIs, StreamIsNext
<1>5. UNCHANGED <<StreamPos, StreamMark, StreamName, StreamKey>>
  BY <1>1, <1>3, <1>4 DEF StreamMapped, pointers, lengths
<1>6. StreamPos = Len(doc)
  BY <1>1 DEF StreamPos
<1> QED BY <1>1, <1>2, <1>5, <1>6 DEF Stream!Finish, document, echoing
-----------------------------------------------------------------------------
(* A piece that is sent without the scanner.                               *)

(***************************************************************************)
(* The stages of a tag before the ":" of its name, and what the scanner is *)
(* after j characters of a text that esi_parser_scan_for_start finds       *)
(* nothing in: in text, or after a "<" and some of "/", "e", "s" and "i".  *)
(***************************************************************************)
Matching == {"lt", "close", "close_e", "close_es", "close_esi",
             "open_e", "open_es", "open_esi"}

BeforeColon == {"/", "e", "s", "i"}

Scanning(text, j, s) ==
  /\ s \in States /\ s.in = {}
  /\ \/ s.at = "text"
     \/ /\ s.at \in Matching
        /\ \E f \in 1..j : text[f] = "<" /\ \A k \in (f + 1)..j : text[k] \in BeforeColon

\* Those stages are left on a ":" only, or for text.
LEMMA MatchingEdges ==
  ASSUME NEW at \in Matching \cup {"text"}, NEW ch, NEW to, <<at, ch, to>> \in Edges
  PROVE  at \in Matching /\ (ch = ":" \/ (ch \in BeforeColon /\ to \in Matching))
BY DEF Edges, TagEdges, AttributeEdges, Matching, BeforeColon

\* No character of such a text gets the scanner any further.
LEMMA ScanningStep ==
  ASSUME NEW text \in Seq(Chars), ~ ScanForStart(text), NEW j \in 1..Len(text),
         NEW s, Scanning(text, j - 1, s)
  PROVE  Scanning(text, j, StepOf(s, text[j]))
<1> DEFINE ch == text[j]
           t  == StepOf(s, ch)
<1>1. /\ s \in States /\ s.in = {} /\ s.at \in Matching \cup {"text"} /\ ch \in Chars
      /\ j \in Nat /\ Len(text) \in Nat /\ DOMAIN text = 1..Len(text)
  BY DEF Scanning
<1>2. t \in States /\ t.in = {}
  <2>1. t \in States
    BY <1>1, StepType
  <2>2. StepOf(s, ch).in # {} => s.in # {} \/ s.at = "eq"
    BY <1>1, NextValues
  <2> QED BY <1>1, <2>1, <2>2 DEF Matching
<1>3. \/ ch = "<" /\ t.at = "lt"
      \/ t.at = "text"
      \/ <<s.at, ch, t.at>> \in Edges
  BY <1>1, NextStage
<1>4. SUFFICES Scanning(text, j, t)
  OBVIOUS
<1> HIDE DEF t
<1>5. CASE ch = "<" /\ t.at = "lt"
  <2>1. j \in 1..j /\ \A k \in (j + 1)..j : text[k] \in BeforeColon
    BY <1>1
  <2> QED BY <1>2, <1>5, <2>1 DEF Scanning, Matching
<1>6. CASE t.at = "text"
  BY <1>2, <1>6 DEF Scanning
<1>7. CASE <<s.at, ch, t.at>> \in Edges
  <2>1. s.at \in Matching /\ (ch = ":" \/ (ch \in BeforeColon /\ t.at \in Matching))
    BY <1>1, <1>7, MatchingEdges
  <2>2. PICK f \in 1..(j - 1) :
          text[f] = "<" /\ \A k \in (f + 1)..(j - 1) : text[k] \in BeforeColon
    BY <2>1 DEF Scanning, Matching
  <2>3. f \in DOMAIN text /\ j \in 1..(Len(text) + 1) /\ f < j /\ f \in 1..j
    BY <1>1
  <2>4. ch # ":"
    BY <2>2, <2>3 DEF ScanForStart, BeforeColon
  <2>5. \A k \in (f + 1)..j : k = j \/ k \in (f + 1)..(j - 1)
    BY <1>1
  <2>6. \A k \in (f + 1)..j : text[k] \in BeforeColon
    BY <2>1, <2>2, <2>4, <2>5
  <2> QED BY <1>2, <2>1, <2>2, <2>3, <2>4, <2>6 DEF Scanning
<1> QED BY <1>3, <1>5, <1>6, <1>7

\* At its end the scanner is in text again.
LEMMA ScanningEnd ==
  ASSUME NEW text \in Seq(Chars), ~ ScanForStart(text), NEW s, Scanning(text, Len(text), s)
  PROVE  s = Text
<1>1. s.at = "text"
  <2>1. SUFFICES ASSUME s.at # "text" PROVE FALSE
    OBVIOUS
  <2>2. PICK f \in 1..Len(text) :
          text[f] = "<" /\ \A k \in (f + 1)..Len(text) : text[k] \in BeforeColon
    BY <2>1 DEF Scanning
  <2> DEFINE g == Len(text) + 1
  <2>3. /\ f \in DOMAIN text /\ g \in 1..(Len(text) + 1) /\ f < g
        /\ (f + 1)..(g - 1) = (f + 1)..Len(text)
    OBVIOUS
  <2> QED BY <2>2, <2>3 DEF ScanForStart, BeforeColon
<1> QED BY <1>1 DEF Scanning, States, Text

(***************************************************************************)
(* The states the scanner would go through.                                *)
(***************************************************************************)
IsRun(f, n, text, s) == f = [j \in 0..n |-> IF j = 0 THEN s ELSE StepOf(f[j - 1], text[j])]

\* Every text has a run of the scanner from every state.
LEMMA RunExists ==
  ASSUME NEW n \in Nat, NEW text, NEW s
  PROVE  \E f : IsRun(f, n, text, s)
<1> DEFINE without == {m \in 0..n : ~ \E f : IsRun(f, m, text, s)}
<1>1. SUFFICES ASSUME without # {} PROVE FALSE
  OBVIOUS
<1>2. PICK x \in without : \A y \in without : x <= y
  <2>1. without \subseteq Nat
    OBVIOUS
  <2> HIDE DEF without
  <2> QED BY <1>1, <2>1, LeastExists
<1>3. x \in 0..n /\ ~ \E f : IsRun(f, x, text, s)
  OBVIOUS
<1>4. x # 0
  <2> DEFINE f == [j \in 0..0 |-> s]
  <2>1. IsRun(f, 0, text, s)
    BY DEF IsRun
  <2> QED BY <1>3, <2>1
<1>5. x - 1 \in 0..n /\ ~ (x <= x - 1)
  BY <1>3, <1>4
<1>6. PICK f : IsRun(f, x - 1, text, s)
  BY <1>2, <1>5
<1> DEFINE g == [j \in 0..x |-> IF j = x THEN StepOf(f[x - 1], text[x]) ELSE f[j]]
<1>7. \A j \in 0..x : g[j] = IF j = 0 THEN s ELSE StepOf(g[j - 1], text[j])
  <2> TAKE j \in 0..x
  <2>1. CASE j = x
    <3>1. x - 1 \in 0..x /\ x - 1 # x
      BY <1>3, <1>4
    <3> QED BY <1>4, <2>1, <3>1
  <2>2. CASE j # x
    <3>1. j \in 0..(x - 1) /\ (j # 0 => j - 1 \in 0..x /\ j - 1 # x)
      BY <1>3, <2>2
    <3>2. f[j] = IF j = 0 THEN s ELSE StepOf(f[j - 1], text[j])
      BY <1>6, <3>1 DEF IsRun
    <3> QED BY <2>2, <3>1, <3>2
  <2> QED BY <2>1, <2>2
<1>8. g = [j \in 0..x |-> IF j = 0 THEN s ELSE StepOf(g[j - 1], text[j])]
  <2>1. g = [j \in 0..x |-> g[j]]
    OBVIOUS
  <2> HIDE DEF g
  <2> QED BY <1>7, <2>1
<1> HIDE DEF g
<1> QED BY <1>3, <1>8 DEF IsRun

\* In such a text they are all within it, and the last is text.
LEMMA RunInText ==
  ASSUME NEW text \in Seq(Chars), ~ ScanForStart(text), NEW f, IsRun(f, Len(text), text, Text)
  PROVE  /\ \A j \in 1..Len(text) : f[j].at \notin {"name", "close_name"}
         /\ f[Len(text)] = Text
<1> DEFINE n == Len(text)
<1>1. n \in Nat
  OBVIOUS
<1>2. \A j \in 0..n : f[j] = IF j = 0 THEN Text ELSE StepOf(f[j - 1], text[j])
  BY DEF IsRun
<1> HIDE DEF n
<1>3. \A j \in 0..n : Scanning(text, j, f[j])
  <2> DEFINE outside == {j \in 0..n : ~ Scanning(text, j, f[j])}
  <2>1. SUFFICES ASSUME outside # {} PROVE FALSE
    OBVIOUS
  <2>2. PICK x \in outside : \A y \in outside : x <= y
    <3>1. outside \subseteq Nat
      OBVIOUS
    <3> HIDE DEF outside
    <3> QED BY <2>1, <3>1, LeastExists
  <2>3. x \in 0..n /\ ~ Scanning(text, x, f[x])
    OBVIOUS
  <2>4. x # 0
    <3>1. Scanning(text, 0, Text)
      BY DEF Scanning, Text, States, Stages
    <3> QED BY <1>1, <1>2, <2>3, <3>1
  <2>5. x - 1 \in 0..n /\ ~ (x <= x - 1) /\ x \in 1..n
    BY <1>1, <2>3, <2>4
  <2>6. Scanning(text, x - 1, f[x - 1])
    BY <2>2, <2>5
  <2>7. Scanning(text, x, StepOf(f[x - 1], text[x]))
    BY <2>5, <2>6, ScanningStep DEF n
  <2> QED BY <1>2, <2>3, <2>4, <2>7
<1>4. \A j \in 1..n : f[j].at \notin {"name", "close_name"}
  <2>1. \A j \in 1..n : j \in 0..n
    BY <1>1
  <2> QED BY <1>3, <2>1 DEF Scanning, Matching
<1>5. f[n] = Text
  <2>1. n \in 0..n
    BY <1>1
  <2> QED BY <1>3, <2>1, ScanningEnd DEF n
<1> QED BY <1>4, <1>5 DEF n
\* So the piece is text.
LEMMA ExecutePlainStream ==
  ASSUME Inv, Inv', NEW n \in ChunkSizes, ExecutePlain(n) PROVE Stream!TakeText
<1>1. /\ TypeOK /\ Handed(n) /\ cs = Text /\ EchoChars(Piece(n)) /\ pc = "idle" /\ pc' = "idle"
      /\ ~ ScanForStart(PieceText(n))
      /\ UNCHANGED <<doc, cs, attributes, echobuffer>>
  BY DEF Inv, ExecutePlain, Handed, echoing
<1>2. /\ n \in Nat \ {0} /\ Piece(n) \in Seq(Nat) /\ pos' = pos + n /\ pos \in Nat
      /\ pos' \in 0..Len(doc)
  BY <1>1, PieceType, HandedType
<1>3. doc \in Seq(Chars)
  BY <1>1, DocsAssumption DEF TypeOK
<1> DEFINE text == PieceText(n)
<1>4. text \in Seq(Chars) /\ Len(text) = n /\ \A j \in 1..n : text[j] = doc[pos + j]
  <2>1. \A j \in 1..n : pos + j \in 1..Len(doc)
    BY <1>2
  <2> QED BY <1>2, <1>3, <2>1 DEF PieceText
<1>5. StreamPos = pos /\ StreamPos' = pos'
  BY <1>1 DEF StreamPos
<1>6. /\ StreamMark = 0 /\ StreamMark' = 0 /\ StreamName = <<>> /\ StreamName' = <<>>
      /\ StreamKey = <<>> /\ StreamKey' = <<>>
  <2>1. /\ ~ InTag(cs) /\ ~ NamedTag(cs) /\ ~ HasKey(cs)
        /\ ~ InTag(cs') /\ ~ NamedTag(cs') /\ ~ HasKey(cs')
    BY <1>1 DEF Text, InTag, NamedTag, HasKey
  <2> QED BY <2>1 DEF StreamMark, StreamName, StreamKey
<1>7. Sent' = Sent \o Stream!Outputs(Stream!Bytes(Stream!here, StreamPos + n))
  <2>1. Sent' = Sent \o Outputs(Piece(n))
    BY <1>1, <1>2, SentByEcho
  <2>2. Stream!Bytes(pos + 1, pos + n) = Numbered(pos, n)
    BY <1>2, StreamBytes
  <2> QED BY <1>5, <2>1, <2>2, SameCalls DEF Stream!here, Numbered, Piece
<1> HIDE DEF text
<1> DEFINE after[j \in 0..n] ==
             IF j = 0 THEN cs ELSE Stream!StepOf(after[j - 1], doc[StreamPos + j])
<1>8. PICK f : IsRun(f, n, text, Text)
  BY <1>2, RunExists
<1>9. f = [j \in 0..n |-> IF j = 0 THEN cs ELSE Stream!StepOf(f[j - 1], doc[StreamPos + j])]
  <2>1. \A j \in 0..n : j # 0 => text[j] = doc[StreamPos + j]
    BY <1>2, <1>4, <1>5
  <2>2. \A j \in 0..n :
          (IF j = 0 THEN Text ELSE StepOf(f[j - 1], text[j])) =
            (IF j = 0 THEN cs ELSE Stream!StepOf(f[j - 1], doc[StreamPos + j]))
    BY <1>1, <2>1, SameScanner
  <2> QED BY <1>8, <2>2 DEF IsRun
<1>10. after = [j \in 0..n |-> IF j = 0 THEN cs ELSE Stream!StepOf(after[j - 1], doc[StreamPos + j])]
  BY <1>9
<1>11. IsRun(after, n, text, Text)
  <2> HIDE DEF after
  <2>1. \A j \in 0..n : j # 0 => text[j] = doc[StreamPos + j]
    BY <1>2, <1>4, <1>5
  <2>2. \A j \in 0..n :
          (IF j = 0 THEN Text ELSE StepOf(after[j - 1], text[j])) =
            (IF j = 0 THEN cs ELSE Stream!StepOf(after[j - 1], doc[StreamPos + j]))
    BY <1>1, <2>1, SameScanner
  <2> QED BY <1>10, <2>2 DEF IsRun
<1>12. (\A j \in 1..n : after[j].at \notin {"name", "close_name"}) /\ after[n] = Stream!Text
  <2> HIDE DEF after
  <2> QED BY <1>1, <1>4, <1>11, RunInText, SameTags DEF text
<1>13. n \in 1..(Len(doc) - StreamPos) /\ pc # "ended" /\ cs = Stream!Text
  BY <1>1, <1>2, <1>3, <1>5, SameTags
<1>14. /\ StreamPos' = StreamPos + n
       /\ UNCHANGED <<doc, cs, StreamMark, StreamName, StreamKey, attributes, echobuffer, pc = "ended">>
  BY <1>1, <1>2, <1>5, <1>6
<1> QED BY <1>7, <1>12, <1>13, <1>14 DEF Stream!TakeText
-----------------------------------------------------------------------------
\* A new parser is where the specification begins.
LEMMA InitStream == Init => Stream!Init
<1> SUFFICES ASSUME Init PROVE Stream!Init
  OBVIOUS
<1>1. Sent = <<>>
  BY DEF Init, Sent, Outputs
<1>2. ~ InTag(cs) /\ ~ NamedTag(cs) /\ ~ HasKey(cs)
  BY DEF Init, Start, InTag, NamedTag, HasKey
<1>3. StreamPos = 0 /\ StreamMark = 0 /\ StreamName = <<>> /\ StreamKey = <<>>
  BY <1>2 DEF Init, StreamPos, StreamMark, StreamName, StreamKey
<1> QED BY <1>1, <1>3, SameTags DEF Init, Stream!Init

\* Every step is one of the specification, or none.
LEMMA NextStream == Inv /\ Inv' /\ [Next]_vars => [Stream!Next]_(Stream!vars)
<1> SUFFICES ASSUME Inv, Inv', [Next]_vars
             PROVE  Stream!Next \/ UNCHANGED Stream!vars
  OBVIOUS
<1>1. CASE UNCHANGED vars
  BY <1>1, SameStream DEF vars
<1>2. ASSUME NEW n \in ChunkSizes, ExecutePlain(n) \/ ExecuteFresh(n) \/ ExecuteOverflow(n)
      PROVE  Stream!Next \/ UNCHANGED Stream!vars
  BY <1>2, ExecutePlainStream, ExecuteFreshStream, ExecuteOverflowStream DEF Stream!Next
<1>3. CASE \/ EchoOnly \/ Begin \/ SeeStartTag \/ SeeAttributeKey \/ SeeAttributeValue
           \/ BlockStartTag \/ BlockEndTag \/ SeeEndTag \/ SeeBlockStartWithAttributes
  BY <1>3, EchoOnlyStream, BeginStream, SeeStartTagStream, SeeAttributeKeyStream,
     SeeAttributeValueStream, BlockStartTagStream, BlockEndTagStream, SeeEndTagStream,
     SeeBlockStartWithAttributesStream DEF Stream!Next
<1>4. CASE Misuse
  BY <1>4, SameStream DEF Misuse
<1>5. CASE ReturnSaving \/ ReturnKeeping \/ ReturnBetweenTags
  BY <1>5, ReturnSavingStream, ReturnKeepingStream, ReturnBetweenTagsStream
<1>6. CASE Finish
  BY <1>6, FinishStream DEF Stream!Next
<1> QED BY <1>1, <1>2, <1>3, <1>4, <1>5, <1>6 DEF Next

(***************************************************************************)
(* The parser implements ESIStream: for every document, every way of       *)
(* cutting it and every size of output_buffer the handlers are called as   *)
(* if the document were parsed in one piece, by a parser without buffers.  *)
(* A tag that is cut loses nothing (esi_parser_execute's overflow_data and *)
(* the moving of mark, tag_text and attr_key), and a piece that is sent    *)
(* without the scanner (esi_parser_scan_for_start) is text.                *)
(***************************************************************************)
THEOREM StreamImplemented == Spec => ImplementsStream
<1>1. Spec => []Inv
  BY InitInv, NextInv, PTL DEF Spec
<1> QED BY <1>1, InitStream, NextStream, PTL DEF Spec, ImplementsStream, Stream!Spec
=============================================================================
