-------------------------- MODULE ESIMarkup_proofs --------------------------
(***************************************************************************)
(* Proof that the markup of a document is reported as the grammar reads    *)
(* it.  The scanner is deterministic: after any number of bytes of a       *)
(* document there is one state it can be in and one list of calls made.    *)
(* That function of the document is what the parser follows, and what a    *)
(* document of the grammar is run through here, lexeme by lexeme.          *)
(***************************************************************************)
EXTENDS ESIStream_proofs, MCESIParser
LOCAL INSTANCE SequencesExt

-----------------------------------------------------------------------------
(* The reading of a text.                                                  *)

\* Bytes of the text without what is trimmed off.
Cut(text, bytes) ==
  LET t == Trim([k \in DOMAIN bytes |-> text[bytes[k]]])
  IN  SubSeq(bytes, t.skip + 1, t.skip + t.keep)

\* The part of it from `offset` bytes after a mark up to byte p, trimmed.
Marked(text, mark_, offset, p_) == Cut(text, Span(mark_ + offset, p_ - (mark_ + offset) + 1))

Reporting ==
  {"block_start_tag", "block_end_tag", "see_end_tag", "see_block_start_with_attributes"}

(***************************************************************************)
(* What is known after byte p + 1 when `st` is known after byte p.         *)
(***************************************************************************)
TakenName(text, st, p_, action) ==
  CASE action = "see_start_tag"   -> Span(st.mark + 1, p_ - (st.mark + 1) + 1)
    [] action = "block_start_tag" -> Marked(text, st.mark, 0, p_)
    [] action = "block_end_tag"   -> Marked(text, st.mark, 2, p_)
    [] action \in {"see_end_tag", "see_block_start_with_attributes"} -> <<>>
    [] OTHER                      -> st.name

TakenAttributes(text, st, p_, action) ==
  CASE action = "see_attribute_value" ->
         Append(st.attributes, [name |-> st.key, value |-> Marked(text, st.mark, 0, p_)])
    [] action \in Reporting \ {"block_end_tag"} -> <<>>
    [] OTHER -> st.attributes

TakenCalls(text, st, p_, action, to) ==
  CASE action = "echo_only" ->
         st.calls \o Outputs(IF to = Text /\ st.cs \notin TagNameEnd
                               THEN Append(st.pending, p_ + 1) ELSE <<>>)
    [] action = "block_start_tag" ->
         st.calls \o <<StartTag(Marked(text, st.mark, 0, p_), <<>>)>>
    [] action = "block_end_tag" ->
         st.calls \o <<EndTag(Marked(text, st.mark, 2, p_))>>
    [] action = "see_end_tag" ->
         st.calls \o <<StartTag(Cut(text, st.name), st.attributes), EndTag(Cut(text, st.name))>>
    [] action = "see_block_start_with_attributes" ->
         st.calls \o <<StartTag(Cut(text, st.name), st.attributes)>>
    [] OTHER -> st.calls

TakenAs(text, st, p_, action, to) ==
  [cs         |-> to,
   mark       |-> IF ~ InTag(to) THEN 0
                  ELSE IF action = "echo_only" THEN st.mark ELSE p_ + 1,
   name       |-> IF NamedTag(to) THEN TakenName(text, st, p_, action) ELSE <<>>,
   key        |-> IF ~ HasKey(to) THEN <<>>
                  ELSE IF action = "see_attribute_key" THEN Marked(text, st.mark, 0, p_)
                  ELSE st.key,
   attributes |-> TakenAttributes(text, st, p_, action),
   pending    |-> IF action \in Reporting \/ to = Text
                    THEN <<>> ELSE Append(st.pending, p_ + 1),
   calls      |-> TakenCalls(text, st, p_, action, to)]

Taken(text, st, p_) ==
  TakenAs(text, st, p_, ActionOf(st.cs, text[p_ + 1]), StepOf(st.cs, text[p_ + 1]))

Fresh == [cs |-> Start, mark |-> 0, name |-> <<>>, key |-> <<>>, attributes |-> <<>>,
          pending |-> <<>>, calls |-> <<>>]

\* f is what is known after each of the first n bytes.
ReadsTo(f, text, n) ==
  f = [q \in 0..n |-> IF q = 0 THEN Fresh ELSE Taken(text, f[q - 1], q - 1)]

Reads(f, text) == ReadsTo(f, text, Len(text))

\* Every text has a reading.
LEMMA ReadingExists ==
  ASSUME NEW text, NEW n \in Nat
  PROVE  \E f : ReadsTo(f, text, n)
<1> DEFINE with == {m \in 0..n : \E f : ReadsTo(f, text, m)}
<1>1. 0 \in with
  <2>1. ReadsTo([q \in 0..0 |-> Fresh], text, 0)
    BY DEF ReadsTo
  <2> QED BY <2>1
<1>2. ASSUME NEW m \in 1..n, m - 1 \in with PROVE m \in with
  <2>1. PICK f : ReadsTo(f, text, m - 1)
    BY <1>2
  <2> DEFINE last == Taken(text, f[m - 1], m - 1)
             g == [q \in 0..m |-> IF q = m THEN last ELSE f[q]]
  <2> HIDE DEF last
  <2>2. \A q \in 0..m : g[q] = IF q = 0 THEN Fresh ELSE Taken(text, g[q - 1], q - 1)
    <3> TAKE q \in 0..m
    <3>1. CASE q = m
      <4>1. g[q] = last /\ g[q - 1] = f[m - 1] /\ q # 0
        BY <3>1
      <4> QED BY <3>1, <4>1 DEF last
    <3>2. CASE q # m
      <4>1. q \in 0..(m - 1) /\ (q # 0 => q - 1 \in 0..m /\ q - 1 # m)
        BY <3>2
      <4>2. f[q] = IF q = 0 THEN Fresh ELSE Taken(text, f[q - 1], q - 1)
        BY <2>1, <4>1 DEF ReadsTo
      <4>3. g[q] = f[q] /\ (q # 0 => g[q - 1] = f[q - 1])
        BY <3>2, <4>1
      <4> HIDE DEF g
      <4> QED BY <4>2, <4>3
    <3> QED BY <3>1, <3>2
  <2>3. g = [q \in 0..m |-> IF q = 0 THEN Fresh ELSE Taken(text, g[q - 1], q - 1)]
    <3>1. g = [q \in 0..m |-> g[q]]
      OBVIOUS
    <3> HIDE DEF g
    <3> QED BY <2>2, <3>1
  <2> HIDE DEF g
  <2>4. ReadsTo(g, text, m)
    BY <2>3 DEF ReadsTo
  <2> QED BY <2>4
<1>3. \A m \in 0..n : m \in with
  <2> HIDE DEF with
  <2> QED BY <1>1, <1>2, InductionUpTo
<1> QED BY <1>3

-----------------------------------------------------------------------------
(* The parser follows it.                                                  *)

Now == [cs |-> cs, mark |-> StreamMark, name |-> StreamName, key |-> StreamKey,
        attributes |-> attributes, pending |-> echobuffer, calls |-> Sent]

Following == \A f : Reads(f, doc) => f[StreamPos] = Now

\* The specification of the parser takes its parts of the document the same way.
LEMMA SamePart ==
  /\ \A from, to : Stream!Bytes(from, to) = Span(from, to - from + 1)
  /\ \A offset : Stream!Part(offset) = Marked(doc, StreamMark, offset, StreamPos)
  /\ Stream!TrimmedName = Cut(doc, StreamName)
BY SameTrim DEF Stream!Bytes, Span, Stream!Part, Stream!TrimmedName, Marked, Cut

\* A byte more.
LEMMA ByteFollowed ==
  ASSUME NEW action, Stream!Take(action), Following, StreamPos \in Nat, Len(doc) \in Nat,
         Now' = TakenAs(doc, Now, StreamPos, action, Stream!target)
  PROVE  Following'
<1>1. /\ StreamPos < Len(doc) /\ StreamPos' = StreamPos + 1 /\ doc' = doc
      /\ action = ActionOf(cs, doc[StreamPos + 1])
      /\ Stream!target = StepOf(cs, doc[StreamPos + 1])
  BY SameScanner DEF Stream!Take, Stream!here, Stream!target
<1>2. Now.cs = cs
  BY DEF Now
<1>3. Now' = Taken(doc, Now, StreamPos)
  BY <1>1, <1>2 DEF Taken
<1>4. ASSUME NEW f, Reads(f, doc) PROVE f[StreamPos + 1] = Taken(doc, Now, StreamPos)
  <2>1. f[StreamPos] = Now
    BY <1>4 DEF Following
  <2>2. \A q \in 0..Len(doc) : f[q] = IF q = 0 THEN Fresh ELSE Taken(doc, f[q - 1], q - 1)
    BY <1>4 DEF Reads, ReadsTo
  <2>3. StreamPos + 1 \in 0..Len(doc) /\ StreamPos + 1 # 0 /\ StreamPos + 1 - 1 = StreamPos
    BY <1>1
  <2> QED BY <2>1, <2>2, <2>3
<1>5. Following' <=> \A f : Reads(f, doc') => f[StreamPos'] = Now'
  BY DEF Following
<1> QED BY <1>1, <1>3, <1>4, <1>5

\* What a byte leads to is what the actions of the specification say.
LEMMA BytesFollowed ==
  ASSUME Following, StreamPos \in Nat, Len(doc) \in Nat,
         \/ Stream!EchoOnly \/ Stream!Begin
         \/ Stream!SeeStartTag \/ Stream!SeeAttributeKey \/ Stream!SeeAttributeValue
         \/ Stream!BlockStartTag \/ Stream!BlockEndTag \/ Stream!SeeEndTag
         \/ Stream!SeeBlockStartWithAttributes
  PROVE  Following'
<1> DEFINE Becomes(action) == Now' = TakenAs(doc, Now, StreamPos, action, Stream!target)
<1>1. /\ Now.cs = cs /\ Now.mark = StreamMark /\ Now.name = StreamName /\ Now.key = StreamKey
      /\ Now.attributes = attributes /\ Now.pending = echobuffer /\ Now.calls = Sent
  BY DEF Now
<1>2. Now' = [cs |-> cs', mark |-> StreamMark', name |-> StreamName', key |-> StreamKey',
              attributes |-> attributes', pending |-> echobuffer', calls |-> Sent']
  BY DEF Now
<1>3. Stream!here = StreamPos + 1
  BY DEF Stream!here
<1> USE SameTags, SameCalls, SamePart, <1>1, <1>2, <1>3
        DEF Stream!Mark, Stream!Name, Stream!Key, Stream!Hold, Stream!Report, Stream!Released,
            TakenAs, TakenName, TakenAttributes, TakenCalls, Reporting
<1>4. CASE Stream!EchoOnly
  <2>1. Stream!Take("echo_only") /\ cs' = Stream!target
    BY <1>4 DEF Stream!EchoOnly, Stream!Take
  <2>2. Becomes("echo_only")
    BY <1>4, <2>1 DEF Stream!EchoOnly
  <2> QED BY <2>1, <2>2, ByteFollowed
<1>5. CASE Stream!Begin
  <2>1. Stream!Take("begin") /\ cs' = Stream!target
    BY <1>5 DEF Stream!Begin, Stream!Take
  <2>2. Becomes("begin")
    BY <1>5, <2>1 DEF Stream!Begin
  <2> QED BY <2>1, <2>2, ByteFollowed
<1>6. CASE Stream!SeeStartTag
  <2>1. Stream!Take("see_start_tag") /\ cs' = Stream!target
    BY <1>6 DEF Stream!SeeStartTag, Stream!Take
  <2>2. Becomes("see_start_tag")
    BY <1>6, <2>1 DEF Stream!SeeStartTag
  <2> QED BY <2>1, <2>2, ByteFollowed
<1>7. CASE Stream!SeeAttributeKey
  <2>1. Stream!Take("see_attribute_key") /\ cs' = Stream!target
    BY <1>7 DEF Stream!SeeAttributeKey, Stream!Take
  <2>2. Becomes("see_attribute_key")
    BY <1>7, <2>1 DEF Stream!SeeAttributeKey
  <2> QED BY <2>1, <2>2, ByteFollowed
<1>8. CASE Stream!SeeAttributeValue
  <2>1. Stream!Take("see_attribute_value") /\ cs' = Stream!target
    BY <1>8 DEF Stream!SeeAttributeValue, Stream!Take
  <2>2. Becomes("see_attribute_value")
    BY <1>8, <2>1 DEF Stream!SeeAttributeValue
  <2> QED BY <2>1, <2>2, ByteFollowed
<1>9. CASE Stream!BlockStartTag
  <2>1. Stream!Take("block_start_tag") /\ cs' = Stream!target
    BY <1>9 DEF Stream!BlockStartTag, Stream!Take
  <2>2. Becomes("block_start_tag")
    BY <1>9, <2>1 DEF Stream!BlockStartTag
  <2> QED BY <2>1, <2>2, ByteFollowed
<1>10. CASE Stream!BlockEndTag
  <2>1. Stream!Take("block_end_tag") /\ cs' = Stream!target
    BY <1>10 DEF Stream!BlockEndTag, Stream!Take
  <2>2. Becomes("block_end_tag")
    BY <1>10, <2>1 DEF Stream!BlockEndTag
  <2> QED BY <2>1, <2>2, ByteFollowed
<1>11. CASE Stream!SeeEndTag
  <2>1. Stream!Take("see_end_tag") /\ cs' = Stream!target
    BY <1>11 DEF Stream!SeeEndTag, Stream!Take
  <2>2. Becomes("see_end_tag")
    BY <1>11, <2>1 DEF Stream!SeeEndTag
  <2> QED BY <2>1, <2>2, ByteFollowed
<1>12. CASE Stream!SeeBlockStartWithAttributes
  <2>1. Stream!Take("see_block_start_with_attributes") /\ cs' = Stream!target
    BY <1>12 DEF Stream!SeeBlockStartWithAttributes, Stream!Take
  <2>2. Becomes("see_block_start_with_attributes")
    BY <1>12, <2>1 DEF Stream!SeeBlockStartWithAttributes
  <2> QED BY <2>1, <2>2, ByteFollowed
<1> QED BY <1>4, <1>5, <1>6, <1>7, <1>8, <1>9, <1>10, <1>11, <1>12

-----------------------------------------------------------------------------
(* Text.                                                                   *)

\* The states from which a byte reports no tag and takes part in no attribute.
Quiet == {s \in States : s.in = {} /\ s.at \in Matching \cup
            {"start", "text", "final", "close_colon", "open_colon"}}

\* Where the edges lead before a tag has its name.
LEMMA QuietEdges ==
  ASSUME NEW at \in Matching \cup {"start", "text", "final", "close_colon", "open_colon"},
         NEW ch, NEW to, <<at, ch, to>> \in Edges
  PROVE  to \in Matching \cup {"close_colon", "open_colon", "name", "close_name"}
BY DEF Edges, TagEdges, AttributeEdges, Matching

\* There a byte is passed on or begins a tag, whose state is known.
LEMMA QuietOn ==
  ASSUME NEW s \in Quiet, NEW ch \in Chars
  PROVE  /\ ActionOf(s, ch) \in {"echo_only", "begin"}
         /\ ActionOf(s, ch) = "begin" => StepOf(s, ch) # Text
         /\ s \notin TagNameEnd
         /\ StepOf(s, ch) \in Quiet \/ StepOf(s, ch).at \in {"name", "close_name"}
<1>1. /\ s \in States /\ s.in = {}
      /\ s.at \in Matching \cup {"start", "text", "final", "close_colon", "open_colon"}
  BY DEF Quiet
<1>2. ActionOf(s, ch) \in {"echo_only", "begin"}
  BY <1>1 DEF ActionOf, Matching
<1>3. ActionOf(s, ch) = "begin" => StepOf(s, ch) # Text
  <2>1. ActionOf(s, ch) = "begin" => ch \notin s.in /\ ch = "<"
    BY <1>1, ActionFacts
  <2> QED BY <1>1, <2>1 DEF StepOf, AtAfter, Text
<1>4. s \notin TagNameEnd
  BY <1>1 DEF TagNameEnd, Matching
<1> DEFINE t == StepOf(s, ch)
<1>5. t \in States /\ t.in = {}
  BY <1>1, StepType, NextValues DEF Matching
<1>6. \/ ch = "<" /\ t.at = "lt"
      \/ t.at = "text"
      \/ <<s.at, ch, t.at>> \in Edges
  BY <1>1, NextStage
<1> HIDE DEF t
<1>7. t \in Quiet \/ t.at \in {"name", "close_name"}
  BY <1>1, <1>5, <1>6, QuietEdges DEF Quiet, Matching
<1> QED BY <1>2, <1>3, <1>4, <1>7 DEF t

\* What a byte of a reading adds.
LEMMA ReadByte ==
  ASSUME NEW text, Len(text) \in Nat, NEW f, Reads(f, text), NEW q \in 0..(Len(text) - 1)
  PROVE  f[q + 1] = Taken(text, f[q], q)
<1>1. q + 1 \in 0..Len(text) /\ q + 1 # 0 /\ q + 1 - 1 = q
  OBVIOUS
<1>2. \A r \in 0..Len(text) : f[r] = IF r = 0 THEN Fresh ELSE Taken(text, f[r - 1], r - 1)
  BY DEF Reads, ReadsTo
<1> QED BY <1>1, <1>2

\* Between tags nothing of a tag is left, and nothing is held back.
LEMMA TextKnown ==
  ASSUME NEW text, Len(text) \in Nat, NEW f, Reads(f, text), NEW q \in 1..Len(text),
         f[q].cs = Text
  PROVE  f[q].pending = <<>> /\ f[q].mark = 0 /\ f[q].name = <<>> /\ f[q].key = <<>>
<1>1. q - 1 \in 0..(Len(text) - 1) /\ q - 1 + 1 = q
  OBVIOUS
<1>2. f[q] = Taken(text, f[q - 1], q - 1)
  BY <1>1, ReadByte
<1>3. ~ InTag(Text) /\ ~ NamedTag(Text) /\ ~ HasKey(Text)
  BY DEF Text, InTag, NamedTag, HasKey
<1> QED BY <1>2, <1>3 DEF Taken, TakenAs

\* Numbering the bytes one further.
LEMMA SpanMore ==
  ASSUME NEW from \in Nat, NEW n \in Nat
  PROVE  /\ Span(from, n) \in Seq(Nat) /\ Len(Span(from, n)) = n
         /\ Span(from, n + 1) = Append(Span(from, n), from + n)
<1>1. \A m \in Nat : /\ Span(from, m) \in Seq(Nat) /\ Len(Span(from, m)) = m
                     /\ \A k \in 1..m : Span(from, m)[k] = from + k - 1
  BY DEF Span
<1> DEFINE a == Span(from, n + 1)
           c == Span(from, n)
           b == Append(c, from + n)
<1>2. a \in Seq(Nat) /\ Len(a) = n + 1 /\ \A k \in 1..(n + 1) : a[k] = from + k - 1
  BY <1>1
<1>3. /\ b \in Seq(Nat) /\ Len(b) = n + 1 /\ b[n + 1] = from + n
      /\ \A k \in 1..n : b[k] = from + k - 1
  <2>1. c \in Seq(Nat) /\ Len(c) = n /\ \A k \in 1..n : c[k] = from + k - 1
    BY <1>1
  <2> HIDE DEF c
  <2>2. from + n \in Nat
    OBVIOUS
  <2> QED BY <2>1, <2>2, AppendProperties
<1> HIDE DEF a, b
<1>4. \A k \in 1..(n + 1) : a[k] = b[k]
  <2> TAKE k \in 1..(n + 1)
  <2>1. k = n + 1 \/ k \in 1..n
    OBVIOUS
  <2> QED BY <1>2, <1>3, <2>1
<1>5. a = b
  BY <1>2, <1>3, <1>4, SeqEqual
<1> QED BY <1>1, <1>5 DEF a, b

\* Outputs of one byte more.
LEMMA OutputsMore ==
  ASSUME NEW bytes \in Seq(Nat), NEW b \in Nat, NEW c \in Seq(Calls)
  PROVE  c \o Outputs(Append(bytes, b)) = (c \o Outputs(bytes)) \o Outputs(<<b>>)
<1>1. Append(bytes, b) = bytes \o <<b>> /\ <<b>> \in Seq(Nat)
  BY AppendIsConcat
<1>2. Outputs(Append(bytes, b)) = Outputs(bytes) \o Outputs(<<b>>)
  BY <1>1, OutputsConcat
<1>3. Outputs(bytes) \in Seq(Calls) /\ Outputs(<<b>>) \in Seq(Calls)
  BY <1>1, OutputsAre
<1>4. (c \o Outputs(bytes)) \o Outputs(<<b>>) = c \o (Outputs(bytes) \o Outputs(<<b>>))
  BY ONLY <1>3, c \in Seq(Calls), ConcatThree
<1> QED BY ONLY <1>2, <1>4

(***************************************************************************)
(* From quiet states text is sent or held back, each byte of it in order.  *)
(***************************************************************************)
TextSent(st, before, q, j) ==
  /\ st.pending \in Seq(Nat) /\ st.calls \in Seq(Calls)
  /\ st.calls \o Outputs(st.pending) = before.calls \o Outputs(Span(q + 1, j))
  /\ st.attributes = before.attributes

\* Bytes read there are pending, or were sent, and nothing else is known of them.
LEMMA QuietRead ==
  ASSUME NEW text \in Seq(Chars), NEW f, Reads(f, text), NEW q \in Nat, NEW n \in Nat,
         q + n <= Len(text), \A j \in 0..(n - 1) : f[q + j].cs \in Quiet,
         f[q].pending = <<>>, f[q].calls \in Seq(Calls)
  PROVE  \A j \in 0..n : TextSent(f[q + j], f[q], q, j)
<1> DEFINE sent == {j \in 0..n : TextSent(f[q + j], f[q], q, j)}
<1>1. Len(text) \in Nat
  OBVIOUS
<1>2. 0 \in sent
  <2>1. q + 0 = q /\ Span(q + 1, 0) = <<>> /\ <<>> \in Seq(Nat)
    BY DEF Span
  <2>2. TextSent(f[q], f[q], q, 0)
    BY <2>1 DEF TextSent
  <2>3. 0 \in 0..n
    OBVIOUS
  <2> QED BY <2>1, <2>2, <2>3
<1>3. ASSUME NEW j \in 1..n, j - 1 \in sent PROVE j \in sent
  <2> DEFINE r == q + (j - 1)
             st == f[r]
             ch == text[r + 1]
             to == StepOf(st.cs, ch)
             held == Append(st.pending, r + 1)
  <2>1. /\ r \in 0..(Len(text) - 1) /\ r + 1 = q + j /\ j - 1 \in 0..(n - 1)
        /\ r + 1 \in 1..Len(text) /\ r \in Nat
    OBVIOUS
  <2>2. st.cs \in Quiet /\ ch \in Chars
    BY <2>1
  <2>3. f[q + j] = Taken(text, st, r)
    BY <1>1, <2>1, ReadByte
  <2>4. TextSent(st, f[q], q, j - 1)
    BY <1>3
  <2> HIDE DEF r, st
  <2>5. /\ ActionOf(st.cs, ch) \in {"echo_only", "begin"}
        /\ ActionOf(st.cs, ch) = "begin" => to # Text
        /\ st.cs \notin TagNameEnd
    BY <2>2, QuietOn
  <2>6. /\ st.pending \in Seq(Nat) /\ st.calls \in Seq(Calls) /\ r + 1 \in Nat
        /\ st.attributes = f[q].attributes
        /\ st.calls \o Outputs(st.pending) = f[q].calls \o Outputs(Span(q + 1, j - 1))
    BY <2>1, <2>4 DEF TextSent
  <2>7. held \in Seq(Nat)
    BY <2>6, AppendProperties
  <2> HIDE DEF held
  <2>8. /\ Outputs(<<>>) = <<>> /\ st.calls \o <<>> = st.calls
        /\ Outputs(held) \in Seq(Calls) /\ st.calls \o Outputs(held) \in Seq(Calls)
    <3>1. Outputs(held) \in Seq(Calls)
      BY <2>7, OutputsAre
    <3>2. Outputs(<<>>) = <<>>
      BY DEF Outputs
    <3> QED BY <2>6, <3>1, <3>2, ConcatEmptySeq, ConcatProperties
  <2>9. /\ f[q + j].attributes = st.attributes
        /\ f[q + j].pending = IF to = Text THEN <<>> ELSE held
        /\ f[q + j].calls = IF to = Text THEN st.calls \o Outputs(held) ELSE st.calls
    <3> DEFINE action == ActionOf(st.cs, ch)
    <3>1. f[q + j] = TakenAs(text, st, r, action, to) /\ action \in {"echo_only", "begin"}
      BY <2>3, <2>5 DEF Taken
    <3> HIDE DEF action, to
    <3>2. /\ f[q + j].attributes = st.attributes
          /\ f[q + j].pending = IF to = Text THEN <<>> ELSE held
      BY <3>1 DEF TakenAs, TakenAttributes, Reporting, held
    <3>3. action = "begin" => to # Text
      BY <2>5 DEF action, to
    <3>4. f[q + j].calls = TakenCalls(text, st, r, action, to)
      BY <3>1 DEF TakenAs
    <3>5. CASE to = Text
      BY <2>5, <3>1, <3>2, <3>3, <3>4, <3>5 DEF TakenCalls, held
    <3>6. CASE to # Text
      <4>1. TakenCalls(text, st, r, action, to) \in {st.calls, st.calls \o Outputs(<<>>)}
        BY <3>1, <3>6 DEF TakenCalls
      <4> QED BY <2>8, <3>2, <3>4, <3>6, <4>1
    <3> QED BY <3>2, <3>5, <3>6
  <2>10. f[q + j].calls \o Outputs(f[q + j].pending) = st.calls \o Outputs(held)
    <3>1. (st.calls \o Outputs(held)) \o <<>> = st.calls \o Outputs(held)
      BY <2>8, ConcatEmptySeq
    <3> QED BY <2>8, <2>9, <3>1
  <2>11. st.calls \o Outputs(held) = f[q].calls \o Outputs(Span(q + 1, j))
    <3>1. st.calls \o Outputs(held) = (st.calls \o Outputs(st.pending)) \o Outputs(<<r + 1>>)
      BY <2>6, OutputsMore DEF held
    <3>2. /\ q + 1 \in Nat /\ j - 1 \in Nat /\ j - 1 + 1 = j /\ q + 1 + (j - 1) = r + 1
      BY <2>1
    <3> DEFINE span == Span(q + 1, j - 1)
    <3>3. span \in Seq(Nat) /\ Span(q + 1, j) = Append(span, r + 1)
      <4>1. span \in Seq(Nat) /\ Span(q + 1, j - 1 + 1) = Append(span, q + 1 + (j - 1))
        BY <3>2, SpanMore
      <4> QED BY <3>2, <4>1
    <3> HIDE DEF span
    <3>4. f[q].calls \o Outputs(Append(span, r + 1)) = (f[q].calls \o Outputs(span)) \o Outputs(<<r + 1>>)
      BY <2>6, <3>3, OutputsMore
    <3> QED BY <2>6, <3>1, <3>3, <3>4 DEF span
  <2>12. TextSent(f[q + j], f[q], q, j)
    <3>1. <<>> \in Seq(Nat)
      OBVIOUS
    <3> QED BY <2>6, <2>7, <2>8, <2>9, <2>10, <2>11, <3>1 DEF TextSent
  <2> QED BY <2>12
<1>4. \A j \in 0..n : j \in sent
  <2> HIDE DEF sent
  <2> QED BY <1>2, <1>3, InductionUpTo
<1> QED BY <1>4

\* So a piece of text is followed as a whole.
LEMMA TextFollowed ==
  ASSUME Following, Stream!TakeText, StreamPos \in Nat, doc \in Seq(Chars), Sent \in Seq(Calls)
  PROVE  Following'
<1>1. Len(doc) \in Nat
  OBVIOUS
<1>2. PICK n \in 1..(Len(doc) - StreamPos) :
        LET after[j \in 0..n] ==
              IF j = 0 THEN cs ELSE Stream!StepOf(after[j - 1], doc[StreamPos + j])
        IN  /\ cs = Stream!Text
            /\ \A j \in 1..n : after[j].at \notin {"name", "close_name"}
            /\ after[n] = Stream!Text
            /\ StreamPos' = StreamPos + n
            /\ Sent' = Sent \o Stream!Outputs(Stream!Bytes(Stream!here, StreamPos + n))
            /\ UNCHANGED <<doc, cs, StreamMark, StreamName, StreamKey, attributes, echobuffer>>
  BY DEF Stream!TakeText
<1> DEFINE after[j \in 0..n] ==
             IF j = 0 THEN cs ELSE Stream!StepOf(after[j - 1], doc[StreamPos + j])
           text == [j \in 1..n |-> doc[StreamPos + j]]
<1>3. /\ cs = Text /\ after[n] = Text
      /\ \A j \in 1..n : after[j].at \notin {"name", "close_name"}
      /\ StreamPos' = StreamPos + n
      /\ Sent' = Sent \o Outputs(Span(StreamPos + 1, n))
      /\ UNCHANGED <<doc, cs, StreamMark, StreamName, StreamKey, attributes, echobuffer>>
  <2>1. StreamPos + n - (StreamPos + 1) + 1 = n
    BY <1>1
  <2> QED BY <1>2, <2>1, SameTags, SameCalls, SamePart DEF Stream!here
<1>4. \A j \in 0..n : after[j] = IF j = 0 THEN cs ELSE StepOf(after[j - 1], doc[StreamPos + j])
  <2>1. PICK f : IsRun(f, n, text, cs)
    <3>1. n \in Nat
      OBVIOUS
    <3> HIDE DEF text, after
    <3> QED BY <3>1, RunExists
  <2>2. f = [j \in 0..n |-> IF j = 0 THEN cs ELSE Stream!StepOf(f[j - 1], doc[StreamPos + j])]
    <3>1. \A j \in 0..n : (IF j = 0 THEN cs ELSE StepOf(f[j - 1], text[j])) =
                         (IF j = 0 THEN cs ELSE Stream!StepOf(f[j - 1], doc[StreamPos + j]))
      BY SameScanner
    <3> QED BY <2>1, <3>1 DEF IsRun
  <2>3. after = [j \in 0..n |-> IF j = 0 THEN cs ELSE Stream!StepOf(after[j - 1], doc[StreamPos + j])]
    BY <2>2
  <2> HIDE DEF after
  <2> QED BY <2>3, SameScanner
<1> HIDE DEF after
<1>5. \A j \in 1..n : StreamPos + j \in 1..Len(doc) /\ doc[StreamPos + j] \in Chars
  BY <1>1
<1>6. \A j \in 0..n : after[j] \in Quiet
  <2> DEFINE quiet == {j \in 0..n : after[j] \in Quiet}
  <2>1. 0 \in quiet
    BY <1>3, <1>4 DEF Quiet, Text, States, Stages
  <2>2. ASSUME NEW j \in 1..n, j - 1 \in quiet PROVE j \in quiet
    <3>1. after[j] = StepOf(after[j - 1], doc[StreamPos + j])
      BY <1>4
    <3>2. after[j - 1] \in Quiet /\ doc[StreamPos + j] \in Chars
      BY <1>5, <2>2
    <3>3. after[j] \in Quiet
      BY <1>3, <3>1, <3>2, QuietOn
    <3> QED BY <3>3
  <2>3. \A j \in 0..n : j \in quiet
    <3>1. n \in Nat
      OBVIOUS
    <3> HIDE DEF quiet
    <3> QED BY <2>1, <2>2, <3>1, InductionUpTo
  <2> QED BY <2>3
<1>7. ASSUME NEW f, Reads(f, doc) PROVE f[StreamPos + n] = Now'
  <2>1. f[StreamPos] = Now
    BY <1>7 DEF Following
  <2>2. \A j \in 0..n : f[StreamPos + j].cs = after[j]
    <3> DEFINE along == {j \in 0..n : f[StreamPos + j].cs = after[j]}
    <3>1. 0 \in along
      BY <1>4, <2>1 DEF Now
    <3>2. ASSUME NEW j \in 1..n, j - 1 \in along PROVE j \in along
      <4> DEFINE q == StreamPos + (j - 1)
      <4>1. q \in 0..(Len(doc) - 1) /\ q + 1 = StreamPos + j
        BY <1>1
      <4> HIDE DEF q
      <4>2. f[StreamPos + j] = Taken(doc, f[q], q)
        BY <1>1, <1>7, <4>1, ReadByte
      <4>3. f[StreamPos + j].cs = StepOf(f[q].cs, doc[StreamPos + j])
        BY <4>1, <4>2 DEF Taken, TakenAs
      <4>4. f[q].cs = after[j - 1]
        BY <3>2 DEF q
      <4> QED BY <1>4, <4>3, <4>4
    <3>3. \A j \in 0..n : j \in along
      <4>1. n \in Nat
        OBVIOUS
      <4> HIDE DEF along
      <4> QED BY <3>1, <3>2, <4>1, InductionUpTo
    <3> QED BY <3>3
  <2>3. StreamPos # 0
    <3>1. StreamPos = 0 => f[StreamPos] = Fresh
      BY <1>1, <1>7 DEF Reads, ReadsTo
    <3> QED BY <1>3, <2>1, <3>1 DEF Now, Fresh, Start, Text
  <2>4. Now.pending = <<>> /\ Now.mark = 0 /\ Now.name = <<>> /\ Now.key = <<>>
    <3>1. StreamPos \in 1..Len(doc) /\ f[StreamPos].cs = Text
      BY <1>1, <1>3, <2>1, <2>3 DEF Now
    <3> QED BY <1>1, <1>7, <2>1, <3>1, TextKnown
  <2> DEFINE q == StreamPos + n
             st == f[q]
  <2>5. q \in 1..Len(doc) /\ st.cs = Text
    <3>1. n \in 0..n
      OBVIOUS
    <3>2. f[StreamPos + n].cs = after[n]
      BY <2>2, <3>1
    <3> QED BY <1>1, <1>3, <1>5, <3>2
  <2>6. st.pending = <<>> /\ st.mark = 0 /\ st.name = <<>> /\ st.key = <<>>
    BY <1>1, <1>7, <2>5, TextKnown
  <2>7. TextSent(st, Now, StreamPos, n)
    <3>1. \A j \in 0..(n - 1) : f[StreamPos + j].cs \in Quiet
      <4>1. \A j \in 0..(n - 1) : j \in 0..n
        OBVIOUS
      <4> QED BY <1>6, <2>2, <4>1
    <3>2. Now.calls = Sent /\ n \in Nat /\ StreamPos + n <= Len(doc)
      BY <1>1 DEF Now
    <3>3. \A j \in 0..n : TextSent(f[StreamPos + j], f[StreamPos], StreamPos, j)
      BY <1>7, <2>1, <2>4, <3>1, <3>2, QuietRead
    <3> QED BY <2>1, <3>3
  <2>8. st = [cs |-> st.cs, mark |-> st.mark, name |-> st.name, key |-> st.key,
              attributes |-> st.attributes, pending |-> st.pending, calls |-> st.calls]
    <3>1. q - 1 \in 0..(Len(doc) - 1) /\ q - 1 + 1 = q
      BY <1>1, <2>5
    <3>2. st = Taken(doc, f[q - 1], q - 1)
      BY <1>1, <1>7, <3>1, ReadByte
    <3> QED BY <3>2 DEF Taken, TakenAs
  <2> HIDE DEF st
  <2>9. st.calls = Sent' /\ st.attributes = attributes
    <3>1. st.calls \in Seq(Calls) /\ Outputs(<<>>) = <<>>
      BY <2>7 DEF TextSent, Outputs
    <3>2. st.calls \o <<>> = st.calls
      BY <3>1, ConcatEmptySeq
    <3> QED BY <1>3, <2>6, <2>7, <3>1, <3>2 DEF TextSent, Now
  <2> QED BY <1>3, <2>4, <2>5, <2>6, <2>8, <2>9 DEF Now, st
<1>8. Following' <=> \A f : Reads(f, doc') => f[StreamPos'] = Now'
  BY DEF Following
<1> QED BY <1>3, <1>7, <1>8

\* The parser is where its reading is.
LEMMA StepFollowed ==
  ASSUME Inv, Inv', Following, [Next]_vars PROVE Following'
<1>1. Stream!Next \/ UNCHANGED Stream!vars
  BY NextStream
<1>2. /\ StreamPos \in Nat /\ doc \in Seq(Chars) /\ Len(doc) \in Nat /\ Sent \in Seq(Calls)
  <2>1. doc \in Seq(Chars)
    BY DocsAssumption DEF Inv, TypeOK
  <2>2. StreamPos \in Nat
    BY StreamIs, Places DEF StreamMapped, Frontier
  <2>3. Sent \in Seq(Calls)
    BY OutputsAre, ConcatProperties DEF Inv, TypeOK, Sent
  <2> QED BY <2>1, <2>2, <2>3
<1>3. CASE UNCHANGED Stream!vars
  BY <1>3 DEF Stream!vars, Following, Now
<1>4. CASE Stream!TakeText
  BY <1>2, <1>4, TextFollowed
<1>5. CASE Stream!Finish
  BY <1>5 DEF Stream!Finish, Following, Now
<1>6. CASE \/ Stream!EchoOnly \/ Stream!Begin
           \/ Stream!SeeStartTag \/ Stream!SeeAttributeKey \/ Stream!SeeAttributeValue
           \/ Stream!BlockStartTag \/ Stream!BlockEndTag \/ Stream!SeeEndTag
           \/ Stream!SeeBlockStartWithAttributes
  BY <1>2, <1>6, BytesFollowed
<1> QED BY <1>1, <1>3, <1>4, <1>5, <1>6 DEF Stream!Next

\* The parser starts where the reading starts.
LEMMA InitFollowed == Init => Following
<1> SUFFICES ASSUME Init PROVE Following
  OBVIOUS
<1>1. Stream!Init
  BY InitStream
<1>2. Now = Fresh /\ StreamPos = 0
  BY <1>1, SameTags DEF Stream!Init, Now, Fresh
<1>3. Len(doc) \in Nat
  BY DocsAssumption DEF Init
<1> QED BY <1>2, <1>3 DEF Following, Reads, ReadsTo
-----------------------------------------------------------------------------
(* What trimming leaves.                                                   *)

\* A part of the bytes from one on.
LEMMA SpanPart ==
  ASSUME NEW from \in Nat, 0 < from, NEW skip \in Nat, NEW keep \in Nat
  PROVE  SubSeq(Span(from, skip + keep), skip + 1, skip + keep) = Span(from + skip, keep)
<1>1. Span(from, skip + keep) = Numbered(from - 1, skip + keep)
  <2>1. \A k \in 1..(skip + keep) : from + k - 1 = from - 1 + k
    OBVIOUS
  <2> QED BY <2>1 DEF Span, Numbered
<1>2. Span(from + skip, keep) = Numbered(from - 1 + skip, keep)
  <2>1. \A k \in 1..keep : from + skip + k - 1 = from - 1 + skip + k
    OBVIOUS
  <2> QED BY <2>1 DEF Span, Numbered
<1>3. from - 1 \in Nat /\ skip + keep \in Nat /\ skip + keep <= skip + keep
  OBVIOUS
<1>4. ASSUME NEW last \in Nat, NEW length \in Nat, skip + keep <= length
      PROVE  SubSeq(Numbered(last, length), skip + 1, skip + keep) = Numbered(last + skip, keep)
  BY <1>4, PartOfNumbered
<1>5. SubSeq(Numbered(from - 1, skip + keep), skip + 1, skip + keep) = Numbered(from - 1 + skip, keep)
  BY <1>3, <1>4
<1> QED BY <1>1, <1>2, <1>5

\* Bytes of a text, trimmed.
LEMMA CutIs ==
  ASSUME NEW text \in Seq(Chars), NEW from \in Nat, NEW skip \in Nat, NEW keep \in Nat,
         0 < from, from + skip + keep <= Len(text) + 1,
         \A i \in from..(from + skip - 1) : text[i] \in LeftTrims,
         keep = 0 \/ text[from + skip] \notin LeftTrims,
         keep <= 1 \/ text[from + skip + keep - 1] \notin RightTrims
  PROVE  Cut(text, Span(from, skip + keep)) = Span(from + skip, keep)
<1> DEFINE bytes == Span(from, skip + keep)
           s == [k \in DOMAIN bytes |-> text[bytes[k]]]
<1>1. DOMAIN bytes = 1..(skip + keep) /\ \A k \in 1..(skip + keep) : bytes[k] = from + k - 1
  BY DEF Span
<1> HIDE DEF bytes
<1>2. /\ s \in Seq(Chars) /\ Len(s) = skip + keep
      /\ \A k \in 1..(skip + keep) : s[k] = text[from + k - 1]
  <2>1. s = [k \in 1..(skip + keep) |-> text[from + k - 1]]
    BY <1>1
  <2>2. \A k \in 1..(skip + keep) : from + k - 1 \in 1..Len(text)
    OBVIOUS
  <2> HIDE DEF s
  <2> QED BY <2>1, <2>2
<1> HIDE DEF s
<1>3. Trim(s) = [skip |-> skip, keep |-> keep]
  <2>1. \A i \in 1..skip : s[i] \in LeftTrims
    <3>1. \A i \in 1..skip : from + i - 1 \in from..(from + skip - 1) /\ i \in 1..(skip + keep)
      OBVIOUS
    <3> QED BY <1>2, <3>1
  <2>2. keep = 0 \/ s[skip + 1] \notin LeftTrims
    <3>1. keep # 0 => skip + 1 \in 1..(skip + keep) /\ from + (skip + 1) - 1 = from + skip
      OBVIOUS
    <3> QED BY <1>2, <3>1
  <2>3. keep <= 1 \/ s[skip + keep] \notin RightTrims
    <3>1. ~ (keep <= 1) => skip + keep \in 1..(skip + keep) /\ from + (skip + keep) - 1 = from + skip + keep - 1
      OBVIOUS
    <3> QED BY <1>2, <3>1
  <2> QED BY <1>2, <2>1, <2>2, <2>3, TrimIs
<1>4. Cut(text, bytes) = SubSeq(bytes, skip + 1, skip + keep)
  <2> DEFINE t == Trim(s)
  <2>1. Cut(text, bytes) = SubSeq(bytes, t.skip + 1, t.skip + t.keep)
    BY DEF Cut, s
  <2>2. t.skip = skip /\ t.keep = keep
    BY <1>3
  <2> HIDE DEF t
  <2> QED BY <2>1, <2>2
<1>5. SubSeq(bytes, skip + 1, skip + keep) = Span(from + skip, keep)
  BY SpanPart DEF bytes
<1> QED BY <1>4, <1>5 DEF bytes

\* What an untrimmed text begins and ends with.
LEMMA UntrimmedEnds ==
  ASSUME NEW S, NEW text \in Seq(S), Untrimmed(text)
  PROVE  /\ Len(text) = 0 \/ text[1] \notin LeftTrims
         /\ Len(text) <= 1 \/ text[Len(text)] \notin RightTrims
<1>1. LeftTrim(text) = 0
  BY DEF Untrimmed, Trim
<1>2. RightTrim(SubSeq(text, 0 + 1, Len(text))) = Len(text)
  BY <1>1 DEF Untrimmed, Trim
<1>3. SubSeq(text, 0 + 1, Len(text)) = text
  BY SubSeqFull
<1>4. LeftTrim(text) \in LeftEnds(text) /\ RightTrim(text) \in RightEnds(text)
  BY TrimChosen
<1>5. RightTrim(text) = Len(text)
  BY <1>2, <1>3
<1>6. 0 = Len(text) \/ text[0 + 1] \notin LeftTrims
  BY <1>1, <1>4 DEF LeftEnds
<1>7. Len(text) <= 1 \/ text[Len(text)] \notin RightTrims
  BY <1>4, <1>5 DEF RightEnds
<1> QED BY <1>6, <1>7

-----------------------------------------------------------------------------
(* Reading a tag.                                                          *)

\* The scanner outside quoted values.
Tag(at) == [in |-> {}, at |-> at]

\* An edge is the only one from its stage on its character.
LEMMA EdgeTaken ==
  ASSUME NEW at, NEW ch, NEW to, <<at, ch, to>> \in Edges
  PROVE  /\ Advance(at, ch) = to
         /\ ch # "<" /\ ch \notin Quotes /\ to \notin {"start", "text"}
<1>1. to \in Stages /\ ch # "<" /\ ch \notin Quotes /\ to \notin {"start", "text"}
  BY DEF Edges, TagEdges, AttributeEdges, Stages, Quotes, Letters, KeyFirst, KeyRest
<1>2. ASSUME NEW other, <<at, ch, other>> \in Edges PROVE other = to
  BY <1>2 DEF Edges, TagEdges, AttributeEdges, Letters, KeyFirst, KeyRest
<1> DEFINE further == {t \in Stages : <<at, ch, t>> \in Edges}
<1>3. further = {to}
  BY <1>1, <1>2
<1>4. Advance(at, ch) = IF further = {} THEN "text" ELSE CHOOSE t \in further : TRUE
  BY DEF Advance
<1> HIDE DEF further
<1>5. Advance(at, ch) = to
  BY <1>3, <1>4
<1> QED BY <1>1, <1>5

\* Within a tag and out of its values an edge is a step.
LEMMA TagStep ==
  ASSUME NEW at, NEW ch, NEW to, <<at, ch, to>> \in Edges
  PROVE  StepOf(Tag(at), ch) = Tag(to)
<1>1. Advance(at, ch) = to /\ ch # "<" /\ ch \notin Quotes
  BY EdgeTaken
<1>2. InAfter(Tag(at), ch) = {}
  BY <1>1 DEF InAfter, Tag
<1>3. AtAfter(Tag(at), ch) = to
  BY <1>1 DEF AtAfter, Tag
<1> QED BY <1>2, <1>3 DEF StepOf, Tag

(***************************************************************************)
(* What is known within a tag that was begun at byte m: its name and the   *)
(* key that was read, where there are, its attributes so far, and the      *)
(* calls made before it.                                                   *)
(***************************************************************************)
Reached(st, at, m, nm, k, attrs, c) ==
  /\ st.cs = Tag(at) /\ st.mark = m
  /\ at \in NameSeen => st.name = nm
  /\ at = "eq" => st.key = k
  /\ st.attributes = attrs /\ st.calls = c

\* The edges that run no action but echo.
EchoEdge(at, ch, to) ==
  /\ <<at, ch, to>> \in Edges
  /\ to \notin {"attrs", "final"} /\ ~ (at = "key" /\ ch = "=")

\* Such an edge only passes its byte on, and leads on within the tag.
LEMMA EchoEdges ==
  ASSUME NEW at, NEW ch, NEW to, EchoEdge(at, ch, to)
  PROVE  /\ ActionOf(Tag(at), ch) = "echo_only" /\ StepOf(Tag(at), ch) = Tag(to)
         /\ to \in NameSeen => at \in NameSeen
         /\ to = "eq" => at = "eq"
         /\ to \notin {"start", "text", "final"}
<1>1. StepOf(Tag(at), ch) = Tag(to)
  BY TagStep DEF EchoEdge
<1>2. ch # "<" /\ ch \notin Quotes /\ to \notin {"start", "text", "final"}
  BY EdgeTaken DEF EchoEdge
<1>3. /\ ~ (at = "close_name" /\ ch = ">") /\ ~ (at = "name" /\ ch = ">")
      /\ ~ (at = "name" /\ ch = " ") /\ ~ (at = "attrs" /\ ch = ">")
      /\ ~ (at = "slash" /\ ch = ">") /\ ~ (at = "key" /\ ch = "=")
      /\ to \in NameSeen => at \in NameSeen
      /\ to = "eq" => at = "eq"
  BY DEF EchoEdge, Edges, TagEdges, AttributeEdges, Letters, KeyFirst, KeyRest, NameSeen
<1>4. ActionOf(Tag(at), ch) = "echo_only"
  BY <1>2, <1>3 DEF ActionOf, Tag
<1> QED BY <1>1, <1>2, <1>3, <1>4

\* The byte of such an edge changes the state of the scanner and nothing else that matters.
LEMMA EchoRead ==
  ASSUME NEW text, Len(text) \in Nat, NEW f, Reads(f, text), NEW q \in 0..(Len(text) - 1),
         NEW at, NEW to, EchoEdge(at, text[q + 1], to),
         NEW m, NEW nm, NEW k, NEW attrs, NEW c \in Seq(Calls),
         Reached(f[q], at, m, nm, k, attrs, c)
  PROVE  Reached(f[q + 1], to, m, nm, k, attrs, c)
<1> DEFINE st == f[q]
           ch == text[q + 1]
<1>1. f[q + 1] = Taken(text, st, q)
  BY ReadByte
<1>2. st.cs = Tag(at)
  BY DEF Reached
<1>3. /\ ActionOf(Tag(at), ch) = "echo_only" /\ StepOf(Tag(at), ch) = Tag(to)
      /\ to \in NameSeen => at \in NameSeen
      /\ to = "eq" => at = "eq"
      /\ to \notin {"start", "text", "final"}
  BY EchoEdges
<1>4. f[q + 1] = TakenAs(text, st, q, "echo_only", Tag(to))
  BY <1>1, <1>2, <1>3 DEF Taken
<1>5. /\ InTag(Tag(to)) /\ Tag(to) # Text
      /\ NamedTag(Tag(to)) <=> to \in NameSeen
      /\ HasKey(Tag(to)) <=> to = "eq"
  BY <1>3 DEF InTag, NamedTag, HasKey, Tag, Text, NameSeen
<1>6. Outputs(<<>>) = <<>> /\ c \o <<>> = c
  BY ConcatEmptySeq DEF Outputs
<1>7. f[q + 1].calls = st.calls \o Outputs(<<>>)
  BY <1>4, <1>5 DEF TakenAs, TakenCalls
<1>8. f[q + 1].attributes = st.attributes
  BY <1>4 DEF TakenAs, TakenAttributes, Reporting
<1>9. /\ f[q + 1].cs = Tag(to) /\ f[q + 1].mark = st.mark
      /\ to \in NameSeen => f[q + 1].name = st.name
      /\ to = "eq" => f[q + 1].key = st.key
  BY <1>4, <1>5 DEF TakenAs, TakenName
<1> QED BY <1>3, <1>6, <1>7, <1>8, <1>9 DEF Reached

\* Such edges one after the other, g the stages they lead through.
LEMMA PathRead ==
  ASSUME NEW text, Len(text) \in Nat, NEW f, Reads(f, text), NEW q \in Nat, NEW n \in Nat,
         q + n <= Len(text), NEW g, \A j \in 1..n : EchoEdge(g[j - 1], text[q + j], g[j]),
         NEW m, NEW nm, NEW k, NEW attrs, NEW c \in Seq(Calls),
         Reached(f[q], g[0], m, nm, k, attrs, c)
  PROVE  Reached(f[q + n], g[n], m, nm, k, attrs, c)
<1> DEFINE holds(j) == Reached(f[q + j], g[j], m, nm, k, attrs, c)
           there == {j \in 0..n : holds(j)}
<1>1. 0 \in there
  <2>1. q + 0 = q /\ 0 \in 0..n
    OBVIOUS
  <2>2. holds(0)
    BY <2>1
  <2> HIDE DEF holds
  <2> QED BY <2>1, <2>2
<1>2. ASSUME NEW j \in 1..n, j - 1 \in there PROVE j \in there
  <2> DEFINE r == q + (j - 1)
  <2>1. r \in 0..(Len(text) - 1) /\ r + 1 = q + j
    OBVIOUS
  <2>2. Reached(f[r], g[j - 1], m, nm, k, attrs, c) /\ EchoEdge(g[j - 1], text[q + j], g[j])
    BY <1>2
  <2> HIDE DEF r
  <2>3. Reached(f[r + 1], g[j], m, nm, k, attrs, c)
    BY <2>1, <2>2, EchoRead
  <2>4. holds(j)
    BY <2>1, <2>3
  <2> HIDE DEF holds
  <2> QED BY <2>4
<1>3. \A j \in 0..n : j \in there
  <2> HIDE DEF there
  <2> QED BY <1>1, <1>2, InductionUpTo
<1>4. holds(n)
  <2> HIDE DEF holds
  <2> QED BY <1>3
<1> QED BY <1>4

\* A run of bytes on edges that all lead to the same stage.
LEMMA LoopRead ==
  ASSUME NEW text, Len(text) \in Nat, NEW f, Reads(f, text), NEW q \in Nat, NEW n \in Nat,
         q + n <= Len(text), NEW at, NEW to,
         n # 0 => EchoEdge(at, text[q + 1], to),
         \A j \in 2..n : EchoEdge(to, text[q + j], to),
         NEW m, NEW nm, NEW k, NEW attrs, NEW c \in Seq(Calls),
         Reached(f[q], at, m, nm, k, attrs, c)
  PROVE  Reached(f[q + n], IF n = 0 THEN at ELSE to, m, nm, k, attrs, c)
<1> DEFINE g == [j \in 0..n |-> IF j = 0 THEN at ELSE to]
<1>1. g[0] = at /\ g[n] = (IF n = 0 THEN at ELSE to)
  OBVIOUS
<1>2. \A j \in 1..n : EchoEdge(g[j - 1], text[q + j], g[j])
  <2> TAKE j \in 1..n
  <2>1. g[j] = to /\ g[j - 1] = (IF j = 1 THEN at ELSE to) /\ (j = 1 \/ j \in 2..n)
    OBVIOUS
  <2> HIDE DEF g
  <2> QED BY <2>1
<1> HIDE DEF g
<1>3. Reached(f[q], g[0], m, nm, k, attrs, c)
  BY <1>1
<1>4. Reached(f[q + n], g[n], m, nm, k, attrs, c)
  BY <1>2, <1>3, PathRead
<1> QED BY <1>1, <1>4

-----------------------------------------------------------------------------
(* The bytes of a tag that run an action.                                  *)

\* What is read after a byte whose action and whose step are known.
LEMMA ReadAs ==
  ASSUME NEW text, Len(text) \in Nat, NEW f, Reads(f, text), NEW q \in 0..(Len(text) - 1),
         NEW action, NEW to,
         ActionOf(f[q].cs, text[q + 1]) = action, StepOf(f[q].cs, text[q + 1]) = to
  PROVE  f[q + 1] = TakenAs(text, f[q], q, action, to)
BY ReadByte DEF Taken

\* Between tags: nothing is held back, no attribute is left.
Between(st, c) ==
  /\ st.cs \in {Start, Text, Tag("final")}
  /\ st.pending = <<>> /\ st.attributes = <<>> /\ st.calls = c

\* The "<" of a tag.
LEMMA BeginRead ==
  ASSUME NEW text, Len(text) \in Nat, NEW f, Reads(f, text), NEW q \in 0..(Len(text) - 1),
         NEW c, Between(f[q], c), text[q + 1] = "<", NEW nm, NEW k
  PROVE  Reached(f[q + 1], "lt", q + 1, nm, k, <<>>, c)
<1>1. f[q].cs \in {Start, Text, Tag("final")}
  BY DEF Between
<1>2. ActionOf(f[q].cs, "<") = "begin" /\ StepOf(f[q].cs, "<") = Tag("lt")
  <2> DEFINE s == f[q].cs
  <2>1. s.in = {} /\ s.at \notin {"close_name", "name", "attrs", "slash", "key", "eq", "bs"}
    BY <1>1 DEF Start, Text, Tag
  <2> HIDE DEF s
  <2>2. ActionOf(s, "<") = "begin"
    BY <2>1 DEF ActionOf
  <2>3. InAfter(s, "<") = {} /\ AtAfter(s, "<") = "lt"
    BY <2>1 DEF InAfter, AtAfter
  <2> QED BY <2>2, <2>3 DEF s, StepOf, Tag
<1>3. f[q + 1] = TakenAs(text, f[q], q, "begin", Tag("lt"))
  BY <1>2, ReadAs
<1>4. InTag(Tag("lt"))
  BY DEF InTag, Tag
<1> QED BY <1>3, <1>4 DEF Between, Reached, TakenAs, TakenAttributes, TakenCalls, Reporting, NameSeen

\* The ">" of a start tag without attributes.
LEMMA BlockStartRead ==
  ASSUME NEW text, Len(text) \in Nat, NEW f, Reads(f, text), NEW q \in 0..(Len(text) - 1),
         NEW m, NEW nm, NEW k, NEW c, Reached(f[q], "name", m, nm, k, <<>>, c),
         text[q + 1] = ">"
  PROVE  Between(f[q + 1], c \o <<StartTag(Marked(text, m, 0, q), <<>>)>>)
<1>1. f[q].cs = Tag("name")
  BY DEF Reached
<1>2. ActionOf(Tag("name"), ">") = "block_start_tag"
  BY DEF ActionOf, Tag
<1>3. StepOf(Tag("name"), ">") = Tag("final")
  BY TagStep DEF Edges, TagEdges
<1>4. f[q + 1] = TakenAs(text, f[q], q, "block_start_tag", Tag("final"))
  BY <1>2, <1>3, <1>1, ReadAs
<1> QED BY <1>4 DEF Between, Reached, TakenAs, TakenAttributes, TakenCalls, Reporting

\* The ">" of an end tag.
LEMMA BlockEndRead ==
  ASSUME NEW text, Len(text) \in Nat, NEW f, Reads(f, text), NEW q \in 0..(Len(text) - 1),
         NEW m, NEW nm, NEW k, NEW c, Reached(f[q], "close_name", m, nm, k, <<>>, c),
         text[q + 1] = ">"
  PROVE  Between(f[q + 1], c \o <<EndTag(Marked(text, m, 2, q))>>)
<1>1. f[q].cs = Tag("close_name")
  BY DEF Reached
<1>2. ActionOf(Tag("close_name"), ">") = "block_end_tag"
  BY DEF ActionOf, Tag
<1>3. ASSUME NEW to, <<"close_name", ">", to>> \in Edges PROVE FALSE
  BY <1>3 DEF Edges, TagEdges, AttributeEdges, Letters
<1>4. StepOf(Tag("close_name"), ">") = Text
  <2>1. Advance("close_name", ">") = "text"
    BY <1>3 DEF Advance
  <2> QED BY <2>1 DEF StepOf, InAfter, AtAfter, Tag, Text
<1>5. f[q + 1] = TakenAs(text, f[q], q, "block_end_tag", Text)
  BY <1>2, <1>4, <1>1, ReadAs
<1> QED BY <1>5 DEF Between, Reached, TakenAs, TakenAttributes, TakenCalls, Reporting

\* The space, as a name.
Blank == " "

\* The " " after the name of a tag.
LEMMA StartTagRead ==
  ASSUME NEW text, Len(text) \in Nat, NEW f, Reads(f, text), NEW q \in 0..(Len(text) - 1),
         NEW m, NEW nm, NEW k, NEW attrs, NEW c, Reached(f[q], "name", m, nm, k, attrs, c),
         text[q + 1] = Blank
  PROVE  Reached(f[q + 1], "attrs", q + 1, Span(m + 1, q - (m + 1) + 1), k, attrs, c)
<1>1. f[q].cs = Tag("name")
  BY DEF Reached
<1>2. ActionOf(Tag("name"), Blank) = "see_start_tag"
  BY DEF ActionOf, Tag, Blank
<1>3. StepOf(Tag("name"), Blank) = Tag("attrs")
  <2>1. <<"name", Blank, "attrs">> \in Edges
    BY DEF Edges, TagEdges, Blank
  <2> QED BY <2>1, TagStep
<1>4. f[q + 1] = TakenAs(text, f[q], q, "see_start_tag", Tag("attrs"))
  BY <1>2, <1>3, <1>1, ReadAs
<1>5. InTag(Tag("attrs")) /\ NamedTag(Tag("attrs"))
  BY DEF InTag, NamedTag, Tag
<1> DEFINE to == Tag("attrs")
<1>6. f[q + 1].cs = to /\ f[q + 1].mark = q + 1
  BY <1>4, <1>5 DEF TakenAs
<1>7. f[q + 1].name = Span(m + 1, q - (m + 1) + 1)
  BY <1>4, <1>5 DEF TakenAs, TakenName, Reached
<1>8. f[q + 1].attributes = attrs /\ f[q + 1].calls = c
  BY <1>4 DEF TakenAs, TakenAttributes, TakenCalls, Reporting, Reached
<1> QED BY <1>6, <1>7, <1>8 DEF Reached

\* The "=" after a key.
LEMMA KeyRead ==
  ASSUME NEW text, Len(text) \in Nat, NEW f, Reads(f, text), NEW q \in 0..(Len(text) - 1),
         NEW m, NEW nm, NEW k, NEW attrs, NEW c, Reached(f[q], "key", m, nm, k, attrs, c),
         text[q + 1] = "="
  PROVE  Reached(f[q + 1], "eq", q + 1, nm, Marked(text, m, 0, q), attrs, c)
<1>1. f[q].cs = Tag("key")
  BY DEF Reached
<1>2. ActionOf(Tag("key"), "=") = "see_attribute_key"
  BY DEF ActionOf, Tag
<1>3. StepOf(Tag("key"), "=") = Tag("eq")
  BY TagStep DEF Edges, AttributeEdges
<1>4. f[q + 1] = TakenAs(text, f[q], q, "see_attribute_key", Tag("eq"))
  BY <1>2, <1>3, <1>1, ReadAs
<1>5. InTag(Tag("eq")) /\ NamedTag(Tag("eq")) /\ HasKey(Tag("eq"))
  BY DEF InTag, NamedTag, HasKey, Tag
<1> QED BY <1>4, <1>5 DEF Reached, TakenAs, TakenName, TakenAttributes, TakenCalls, Reporting, NameSeen

\* Within a quoted value.
Valued(quote, at) == [in |-> {quote}, at |-> at]

InValue(st, s, m, nm, k, attrs, c) ==
  st.cs = s /\ st.mark = m /\ st.name = nm /\ st.key = k /\ st.attributes = attrs /\ st.calls = c

\* Within a value, and at the quote it begins with, there is no edge.
LEMMA NoEdges ==
  ASSUME NEW at, NEW ch, at \in {"text", "bs", "start", "final"} \/ (at = "eq" /\ ch \in Quotes)
  PROVE  Advance(at, ch) = "text"
<1>1. ASSUME NEW to, <<at, ch, to>> \in Edges PROVE FALSE
  <2>1. at \notin {"text", "bs", "start", "final"}
    BY <1>1, EdgeOrigins
  <2>2. ch \notin Quotes
    BY <1>1, EdgeTaken
  <2> QED BY <2>1, <2>2
<1> QED BY <1>1 DEF Advance

\* The quote before a value.
LEMMA QuoteRead ==
  ASSUME NEW text, Len(text) \in Nat, NEW f, Reads(f, text), NEW q \in 0..(Len(text) - 1),
         NEW m, NEW nm, NEW k, NEW attrs, NEW c \in Seq(Calls), Reached(f[q], "eq", m, nm, k, attrs, c),
         NEW quote \in Quotes, text[q + 1] = quote
  PROVE  InValue(f[q + 1], Valued(quote, "text"), m, nm, k, attrs, c)
<1> DEFINE to == Valued(quote, "text")
<1>1. ActionOf(Tag("eq"), quote) = "echo_only"
  BY DEF ActionOf, Tag, Quotes
<1>2. StepOf(Tag("eq"), quote) = to
  <2>1. Advance("eq", quote) = "text"
    BY NoEdges
  <2>2. quote # "<" /\ quote # "bs"
    BY DEF Quotes
  <2>3. InAfter(Tag("eq"), quote) = {quote}
    BY DEF InAfter, Tag
  <2>4. AtAfter(Tag("eq"), quote) = "text"
    BY <2>1, <2>2 DEF AtAfter, Tag
  <2> QED BY <2>3, <2>4 DEF StepOf, Valued
<1>3. f[q + 1] = TakenAs(text, f[q], q, "echo_only", to)
  BY <1>1, <1>2, ReadAs DEF Reached
<1>4. InTag(to) /\ NamedTag(to) /\ HasKey(to) /\ to # Text /\ to.in # {}
  BY DEF InTag, NamedTag, HasKey, Valued, Text
<1> HIDE DEF to
<1>5. Outputs(<<>>) = <<>> /\ c \o <<>> = c
  BY ConcatEmptySeq DEF Outputs
<1>6. f[q + 1].calls = f[q].calls \o Outputs(<<>>)
  BY <1>3, <1>4 DEF TakenAs, TakenCalls
<1>7. /\ f[q + 1].cs = to /\ f[q + 1].mark = f[q].mark
      /\ f[q + 1].name = f[q].name /\ f[q + 1].key = f[q].key
      /\ f[q + 1].attributes = f[q].attributes
  BY <1>3, <1>4 DEF TakenAs, TakenName, TakenAttributes, Reporting
<1> QED BY <1>5, <1>6, <1>7 DEF Reached, InValue, NameSeen, to

\* What a quoted value may be made of.
Plain(ch, quote) == ch \in Chars \ {"<"} /\ ch # quote

\* A byte of a value is passed on, and a backslash is remembered for one byte.
LEMMA ValueStep ==
  ASSUME NEW quote \in Quotes, NEW at \in {"text", "bs"}, NEW ch, Plain(ch, quote)
  PROVE  /\ ActionOf(Valued(quote, at), ch) = "echo_only"
         /\ StepOf(Valued(quote, at), ch) = Valued(quote, IF ch = "bs" THEN "bs" ELSE "text")
<1>1. ch # "<" /\ ch # quote
  BY DEF Plain
<1>2. ActionOf(Valued(quote, at), ch) = "echo_only"
  BY <1>1 DEF ActionOf, Valued
<1>3. InAfter(Valued(quote, at), ch) = {quote}
  BY <1>1 DEF InAfter, Valued
<1>4. Advance(at, ch) = "text"
  BY NoEdges
<1>5. AtAfter(Valued(quote, at), ch) = IF ch = "bs" THEN "bs" ELSE "text"
  BY <1>1, <1>4 DEF AtAfter, Valued
<1> QED BY <1>2, <1>3, <1>5 DEF StepOf, Valued

\* A byte of a value.
LEMMA ValueByteRead ==
  ASSUME NEW text, Len(text) \in Nat, NEW f, Reads(f, text), NEW q \in 0..(Len(text) - 1),
         NEW quote \in Quotes, NEW at \in {"text", "bs"}, Plain(text[q + 1], quote),
         NEW m, NEW nm, NEW k, NEW attrs, NEW c \in Seq(Calls),
         InValue(f[q], Valued(quote, at), m, nm, k, attrs, c)
  PROVE  InValue(f[q + 1], Valued(quote, IF text[q + 1] = "bs" THEN "bs" ELSE "text"),
                 m, nm, k, attrs, c)
<1> DEFINE to == Valued(quote, IF text[q + 1] = "bs" THEN "bs" ELSE "text")
<1>1. f[q].cs = Valued(quote, at)
  BY DEF InValue
<1>2. ActionOf(f[q].cs, text[q + 1]) = "echo_only" /\ StepOf(f[q].cs, text[q + 1]) = to
  BY <1>1, ValueStep
<1>3. to.in # {}
  BY DEF Valued
<1> HIDE DEF to
<1>4. f[q + 1] = TakenAs(text, f[q], q, "echo_only", to)
  BY <1>2, ReadAs
<1>5. InTag(to) /\ NamedTag(to) /\ HasKey(to) /\ to # Text
  BY <1>3 DEF InTag, NamedTag, HasKey, Text
<1>6. Outputs(<<>>) = <<>> /\ c \o <<>> = c
  BY ConcatEmptySeq DEF Outputs
<1>7. f[q + 1].calls = f[q].calls \o Outputs(<<>>)
  BY <1>4, <1>5 DEF TakenAs, TakenCalls
<1>8. /\ f[q + 1].cs = to /\ f[q + 1].mark = f[q].mark
      /\ f[q + 1].name = f[q].name /\ f[q + 1].key = f[q].key
      /\ f[q + 1].attributes = f[q].attributes
  BY <1>4, <1>5 DEF TakenAs, TakenName, TakenAttributes, Reporting
<1> QED BY <1>6, <1>7, <1>8 DEF InValue, to

\* A whole value: only a backslash in front of it makes the next byte odd.
LEMMA ValueRead ==
  ASSUME NEW text, Len(text) \in Nat, NEW f, Reads(f, text), NEW q \in Nat, NEW n \in Nat,
         q + n <= Len(text),
         NEW quote \in Quotes, \A j \in 1..n : Plain(text[q + j], quote),
         n # 0 => text[q + n] # "bs",
         NEW m, NEW nm, NEW k, NEW attrs, NEW c \in Seq(Calls),
         InValue(f[q], Valued(quote, "text"), m, nm, k, attrs, c)
  PROVE  InValue(f[q + n], Valued(quote, "text"), m, nm, k, attrs, c)
<1> DEFINE at(j) == IF j # 0 /\ text[q + j] = "bs" THEN "bs" ELSE "text"
           holds(j) == InValue(f[q + j], Valued(quote, at(j)), m, nm, k, attrs, c)
           there == {j \in 0..n : holds(j)}
<1>1. 0 \in there
  <2>1. q + 0 = q /\ 0 \in 0..n /\ at(0) = "text"
    OBVIOUS
  <2>2. holds(0)
    <3> HIDE DEF at
    <3> QED BY <2>1
  <2> HIDE DEF holds
  <2> QED BY <2>1, <2>2
<1>2. ASSUME NEW j \in 1..n, j - 1 \in there PROVE j \in there
  <2> DEFINE r == q + (j - 1)
  <2>1. r \in 0..(Len(text) - 1) /\ r + 1 = q + j
    OBVIOUS
  <2>2. InValue(f[r], Valued(quote, at(j - 1)), m, nm, k, attrs, c)
    BY <1>2
  <2>3. at(j - 1) \in {"text", "bs"} /\ at(j) = (IF text[r + 1] = "bs" THEN "bs" ELSE "text")
    BY <2>1
  <2>4. Plain(text[r + 1], quote)
    BY <2>1
  <2> HIDE DEF r, at
  <2>5. InValue(f[r + 1], Valued(quote, at(j)), m, nm, k, attrs, c)
    BY <2>1, <2>2, <2>3, <2>4, ValueByteRead
  <2>6. holds(j)
    BY <2>1, <2>5
  <2> HIDE DEF holds
  <2> QED BY <2>6
<1>3. \A j \in 0..n : j \in there
  <2> HIDE DEF there
  <2> QED BY <1>1, <1>2, InductionUpTo
<1>4. holds(n)
  <2> HIDE DEF holds
  <2> QED BY <1>3
<1> QED BY <1>4

\* The quote after it.
LEMMA EndQuoteRead ==
  ASSUME NEW text, Len(text) \in Nat, NEW f, Reads(f, text), NEW q \in 0..(Len(text) - 1),
         NEW quote \in Quotes, text[q + 1] = quote,
         NEW m, NEW nm, NEW k, NEW attrs, NEW c, NEW k2,
         InValue(f[q], Valued(quote, "text"), m, nm, k, attrs, c)
  PROVE  Reached(f[q + 1], "attrs", q + 1, nm, k2,
                 Append(attrs, [name |-> k, value |-> Marked(text, m, 0, q)]), c)
<1>1. f[q].cs = Valued(quote, "text")
  BY DEF InValue
<1>2. ActionOf(Valued(quote, "text"), quote) = "see_attribute_value"
  <2>1. quote # "<" /\ quote # "bs"
    BY DEF Quotes
  <2> QED BY <2>1 DEF ActionOf, Valued
<1>3. StepOf(Valued(quote, "text"), quote) = Tag("attrs")
  <2>1. InAfter(Valued(quote, "text"), quote) = {}
    BY DEF InAfter, Valued
  <2>2. AtAfter(Valued(quote, "text"), quote) = "attrs"
    <3>1. quote # "<" /\ quote # "bs"
      BY DEF Quotes
    <3> QED BY <3>1 DEF AtAfter, Valued
  <2> QED BY <2>1, <2>2 DEF StepOf, Tag
<1>4. f[q + 1] = TakenAs(text, f[q], q, "see_attribute_value", Tag("attrs"))
  BY <1>1, <1>2, <1>3, ReadAs
<1>5. InTag(Tag("attrs")) /\ NamedTag(Tag("attrs"))
  BY DEF InTag, NamedTag, Tag
<1>6. f[q + 1].cs = Tag("attrs") /\ f[q + 1].mark = q + 1
  BY <1>4, <1>5 DEF TakenAs
<1>7. f[q + 1].name = nm
  BY <1>4, <1>5 DEF TakenAs, TakenName, InValue
<1>8. /\ f[q + 1].attributes = Append(attrs, [name |-> k, value |-> Marked(text, m, 0, q)])
      /\ f[q + 1].calls = c
  <2>1. /\ f[q].key = k /\ f[q].mark = m /\ f[q].attributes = attrs /\ f[q].calls = c
    BY DEF InValue
  <2>2. f[q + 1].attributes = TakenAttributes(text, f[q], q, "see_attribute_value")
    BY <1>4 DEF TakenAs
  <2>3. f[q + 1].calls = TakenCalls(text, f[q], q, "see_attribute_value", Tag("attrs"))
    BY <1>4 DEF TakenAs
  <2>4. TakenAttributes(text, f[q], q, "see_attribute_value") =
          Append(f[q].attributes, [name |-> f[q].key, value |-> Marked(text, f[q].mark, 0, q)])
    BY DEF TakenAttributes, Reporting
  <2>5. TakenCalls(text, f[q], q, "see_attribute_value", Tag("attrs")) = f[q].calls
    BY DEF TakenCalls
  <2> QED BY <2>1, <2>2, <2>3, <2>4, <2>5
<1> QED BY <1>6, <1>7, <1>8 DEF Reached

\* The ">" of a start tag with attributes, and that of an inline tag.
LEMMA OpenRead ==
  ASSUME NEW text, Len(text) \in Nat, NEW f, Reads(f, text), NEW q \in 0..(Len(text) - 1),
         NEW m, NEW nm, NEW k, NEW attrs, NEW c, Reached(f[q], "attrs", m, nm, k, attrs, c),
         text[q + 1] = ">"
  PROVE  Between(f[q + 1], c \o <<StartTag(Cut(text, nm), attrs)>>)
<1>1. f[q].cs = Tag("attrs") /\ f[q].name = nm
  BY DEF Reached, NameSeen
<1>2. ActionOf(Tag("attrs"), ">") = "see_block_start_with_attributes"
  BY DEF ActionOf, Tag
<1>3. StepOf(Tag("attrs"), ">") = Tag("final")
  BY TagStep DEF Edges, AttributeEdges
<1>4. f[q + 1] = TakenAs(text, f[q], q, "see_block_start_with_attributes", Tag("final"))
  BY <1>1, <1>2, <1>3, ReadAs
<1> QED BY <1>1, <1>4 DEF Between, Reached, TakenAs, TakenAttributes, TakenCalls, Reporting

\* The ">" behind a slash reports an inline tag: its start and its end.
LEMMA InlineRead ==
  ASSUME NEW text, Len(text) \in Nat, NEW f, Reads(f, text), NEW q \in 0..(Len(text) - 1),
         NEW m, NEW nm, NEW k, NEW attrs, NEW c, Reached(f[q], "slash", m, nm, k, attrs, c),
         text[q + 1] = ">"
  PROVE  Between(f[q + 1], c \o <<StartTag(Cut(text, nm), attrs), EndTag(Cut(text, nm))>>)
<1>1. f[q].cs = Tag("slash") /\ f[q].name = nm
  BY DEF Reached, NameSeen
<1>2. ActionOf(Tag("slash"), ">") = "see_end_tag"
  BY DEF ActionOf, Tag
<1>3. StepOf(Tag("slash"), ">") = Tag("final")
  BY TagStep DEF Edges, AttributeEdges
<1>4. f[q + 1] = TakenAs(text, f[q], q, "see_end_tag", Tag("final"))
  BY <1>1, <1>2, <1>3, ReadAs
<1> QED BY <1>1, <1>4 DEF Between, Reached, TakenAs, TakenAttributes, TakenCalls, Reporting

-----------------------------------------------------------------------------
(* The name of a tag.                                                      *)

\* w is what the text says from byte q + 1 on.
SpelledAt(text, q, w) == q + Len(w) <= Len(text) /\ \A j \in 1..Len(w) : text[q + j] = w[j]

\* A text says two words if it says one and then the other.
LEMMA SpelledConcat ==
  ASSUME NEW S, NEW u \in Seq(S), NEW w \in Seq(S), NEW text, Len(text) \in Nat, NEW q \in Nat,
         SpelledAt(text, q, u \o w)
  PROVE  SpelledAt(text, q, u) /\ SpelledAt(text, q + Len(u), w)
<1> DEFINE uw == u \o w
           a == Len(u)
           b == Len(w)
<1>1. a \in Nat /\ b \in Nat
  OBVIOUS
<1>2. /\ Len(uw) = a + b
      /\ \A i \in 1..(a + b) : uw[i] = IF i <= a THEN u[i] ELSE w[i - a]
  BY ConcatProperties
<1> HIDE DEF uw, a, b
<1>3. q + (a + b) <= Len(text) /\ \A j \in 1..(a + b) : text[q + j] = uw[j]
  BY <1>2 DEF SpelledAt, uw
<1>4. \A j \in 1..a : text[q + j] = u[j]
  <2>1. \A j \in 1..a : j \in 1..(a + b) /\ j <= a
    BY <1>1
  <2> QED BY <1>2, <1>3, <2>1
<1>5. \A j \in 1..b : text[q + a + j] = w[j]
  <2> TAKE j \in 1..b
  <2>1. PICK i \in Nat : i = a + j
    BY <1>1
  <2>2. i \in 1..(a + b) /\ ~ (i <= a) /\ i - a = j /\ q + i = q + a + j
    BY <1>1, <2>1
  <2>3. text[q + i] = w[i - a]
    BY <1>2, <1>3, <2>2
  <2> QED BY <2>2, <2>3
<1>6. q + a <= Len(text) /\ q + a + b <= Len(text)
  BY <1>1, <1>3
<1> QED BY <1>4, <1>5, <1>6 DEF SpelledAt, a, b

\* A text that says a character has that character.
LEMMA SpelledByte ==
  ASSUME NEW ch, NEW text, Len(text) \in Nat, NEW q \in Nat, SpelledAt(text, q, <<ch>>)
  PROVE  q \in 0..(Len(text) - 1) /\ text[q + 1] = ch
BY DEF SpelledAt

\* A byte more.
One(ch) == <<ch>>

\* A word of characters and one more is one of characters.
LEMMA CharMore ==
  ASSUME NEW u \in Seq(Chars), NEW ch \in Chars
  PROVE  u \o One(ch) \in Seq(Chars) /\ Len(u \o One(ch)) = Len(u) + 1
<1>1. One(ch) \in Seq(Chars) /\ Len(One(ch)) = 1
  BY DEF One
<1>2. u \o One(ch) \in Seq(Chars) /\ Len(u \o One(ch)) = Len(u) + Len(One(ch))
  BY <1>1, ConcatProperties
<1> QED BY <1>1, <1>2

\* A text that says one character more says the word, then the character.
LEMMA SpelledMore ==
  ASSUME NEW u \in Seq(Chars), NEW ch \in Chars, NEW text, Len(text) \in Nat, NEW q \in Nat,
         SpelledAt(text, q, u \o One(ch))
  PROVE  SpelledAt(text, q, u) /\ q + Len(u) < Len(text) /\ text[q + Len(u) + 1] = ch
<1>1. One(ch) \in Seq(Chars)
  BY DEF One
<1>2. SpelledAt(text, q, u) /\ SpelledAt(text, q + Len(u), One(ch))
  BY <1>1, SpelledConcat
<1>3. q + Len(u) \in Nat
  OBVIOUS
<1>4. q + Len(u) < Len(text) /\ text[q + Len(u) + 1] = ch
  <2>1. q + Len(u) \in 0..(Len(text) - 1) /\ text[q + Len(u) + 1] = ch
    BY <1>2, <1>3, SpelledByte DEF One
  <2> QED BY <2>1
<1> QED BY <1>2, <1>4

\* The stages of "esi:", after a "<" or a "</".
EsiStages(closing) ==
  IF closing THEN <<"close", "close_e", "close_es", "close_esi", "close_colon">>
             ELSE <<"lt", "open_e", "open_es", "open_esi", "open_colon">>

NameStage(closing) == IF closing THEN "close_name" ELSE "name"

\* The edges over "esi:" and over the letters of a name only pass bytes on.
LEMMA EsiEdges ==
  ASSUME NEW closing \in BOOLEAN
  PROVE  /\ \A j \in 1..4 : EchoEdge(EsiStages(closing)[j], Esi[j], EsiStages(closing)[j + 1])
         /\ \A ch \in Letters : /\ EchoEdge(EsiStages(closing)[5], ch, NameStage(closing))
                                /\ EchoEdge(NameStage(closing), ch, NameStage(closing))
<1>1. /\ EchoEdge(EsiStages(closing)[1], Esi[1], EsiStages(closing)[2])
      /\ EchoEdge(EsiStages(closing)[2], Esi[2], EsiStages(closing)[3])
      /\ EchoEdge(EsiStages(closing)[3], Esi[3], EsiStages(closing)[4])
      /\ EchoEdge(EsiStages(closing)[4], Esi[4], EsiStages(closing)[5])
  <2>1. /\ Esi[1] = "e" /\ Esi[2] = "s" /\ Esi[3] = "i" /\ Esi[4] = ":"
    BY DEF Esi
  <2>2. CASE closing
    <3>1. /\ EsiStages(closing)[1] = "close" /\ EsiStages(closing)[2] = "close_e"
          /\ EsiStages(closing)[3] = "close_es" /\ EsiStages(closing)[4] = "close_esi"
          /\ EsiStages(closing)[5] = "close_colon"
      BY <2>2 DEF EsiStages
    <3> QED BY <2>1, <3>1 DEF EchoEdge, Edges, TagEdges
  <2>3. CASE ~ closing
    <3>1. /\ EsiStages(closing)[1] = "lt" /\ EsiStages(closing)[2] = "open_e"
          /\ EsiStages(closing)[3] = "open_es" /\ EsiStages(closing)[4] = "open_esi"
          /\ EsiStages(closing)[5] = "open_colon"
      BY <2>3 DEF EsiStages
    <3> QED BY <2>1, <3>1 DEF EchoEdge, Edges, TagEdges
  <2> QED BY <2>2, <2>3
<1>2. \A j \in 1..4 : j \in {1, 2, 3, 4}
  OBVIOUS
<1>3. \A j \in 1..4 : EchoEdge(EsiStages(closing)[j], Esi[j], EsiStages(closing)[j + 1])
  BY <1>1, <1>2
<1>4. ASSUME NEW ch \in Letters
      PROVE  /\ EchoEdge(EsiStages(closing)[5], ch, NameStage(closing))
             /\ EchoEdge(NameStage(closing), ch, NameStage(closing))
  <2>1. EsiStages(closing)[5] = IF closing THEN "close_colon" ELSE "open_colon"
    BY DEF EsiStages
  <2> QED BY <2>1 DEF EchoEdge, NameStage, Edges, TagEdges
<1> QED BY <1>3, <1>4

Named(name) == name \in Seq(Letters) /\ name # <<>>

\* "esi:" and the name.
LEMMA NameRead ==
  ASSUME NEW text, Len(text) \in Nat, NEW f, Reads(f, text), NEW q \in Nat,
         NEW name, Named(name), SpelledAt(text, q, Esi), SpelledAt(text, q + 4, name),
         NEW closing \in BOOLEAN,
         NEW m, NEW nm, NEW k, NEW attrs, NEW c \in Seq(Calls),
         Reached(f[q], EsiStages(closing)[1], m, nm, k, attrs, c)
  PROVE  Reached(f[q + 4 + Len(name)], NameStage(closing), m, nm, k, attrs, c)
<1> DEFINE g == [j \in 0..4 |-> EsiStages(closing)[j + 1]]
           n == Len(name)
<1>1. n \in Nat /\ n # 0 /\ \A j \in 1..n : name[j] \in Letters
  BY DEF Named
<1>2. Len(Esi) = 4
  BY DEF Esi
<1>3. q + 4 <= Len(text) /\ \A j \in 1..4 : text[q + j] = Esi[j]
  BY <1>2 DEF SpelledAt
<1>4. q + 4 + n <= Len(text) /\ \A j \in 1..n : text[q + 4 + j] = name[j]
  BY DEF SpelledAt
<1> HIDE DEF n
<1>5. /\ g[0] = EsiStages(closing)[1] /\ g[4] = EsiStages(closing)[5]
      /\ \A j \in 1..4 : g[j - 1] = EsiStages(closing)[j] /\ g[j] = EsiStages(closing)[j + 1]
  OBVIOUS
<1> HIDE DEF g
<1>6. \A j \in 1..4 : EchoEdge(g[j - 1], text[q + j], g[j])
  BY <1>3, <1>5, EsiEdges
<1>7. Reached(f[q + 4], EsiStages(closing)[5], m, nm, k, attrs, c)
  <2>1. Reached(f[q], g[0], m, nm, k, attrs, c)
    BY <1>5
  <2>2. Reached(f[q + 4], g[4], m, nm, k, attrs, c)
    BY <1>3, <1>6, <2>1, PathRead
  <2> QED BY <1>5, <2>2
<1>8. EchoEdge(EsiStages(closing)[5], text[q + 4 + 1], NameStage(closing))
  <2>1. 1 \in 1..n
    BY <1>1
  <2> QED BY <1>1, <1>4, <2>1, EsiEdges
<1>9. \A j \in 2..n : EchoEdge(NameStage(closing), text[q + 4 + j], NameStage(closing))
  <2>1. \A j \in 2..n : j \in 1..n
    OBVIOUS
  <2> QED BY <1>1, <1>4, <2>1, EsiEdges
<1> DEFINE r == q + 4
           at == EsiStages(closing)[5]
           to == NameStage(closing)
<1>10. r \in Nat
  OBVIOUS
<1> HIDE DEF r, at, to
<1>11. Reached(f[r + n], IF n = 0 THEN at ELSE to, m, nm, k, attrs, c)
  <2>1. r + n <= Len(text) /\ Reached(f[r], at, m, nm, k, attrs, c)
    BY <1>4, <1>7 DEF r, at
  <2>2. EchoEdge(at, text[r + 1], to)
    BY <1>8 DEF r, at, to
  <2>3. \A j \in 2..n : EchoEdge(to, text[r + j], to)
    BY <1>9 DEF r, to
  <2> QED BY <1>1, <1>10, <2>1, <2>2, <2>3, LoopRead
<1> QED BY <1>1, <1>11 DEF r, n, to

\* What is trimmed, and what is not.
LEMMA NotTrimmed ==
  /\ \A ch \in KeyRest : ch \notin LeftTrims /\ ch \notin RightTrims
  /\ {Blank, "=", "<"} \subseteq LeftTrims /\ Quotes \subseteq LeftTrims
<1>1. ASSUME NEW ch \in KeyRest PROVE ch \notin LeftTrims /\ ch \notin RightTrims
  BY DEF KeyRest, KeyFirst, Letters, LeftTrims, RightTrims
<1>2. {Blank, "=", "<"} \subseteq LeftTrims /\ Quotes \subseteq LeftTrims
  BY DEF Blank, LeftTrims, Quotes
<1> QED BY <1>1, <1>2

\* Trimming leaves the name, without the "<".
LEMMA NameCut ==
  ASSUME NEW text \in Seq(Chars), NEW q \in Nat,
         NEW name, Named(name), SpelledAt(text, q, Esi), SpelledAt(text, q + 4, name)
  PROVE  /\ Cut(text, Span(q + 1, 4 + Len(name))) = Span(q + 1, 4 + Len(name))
         /\ q # 0 /\ text[q] = "<" =>
              Cut(text, Span(q, 1 + (4 + Len(name)))) = Span(q + 1, 4 + Len(name))
<1> DEFINE n == Len(name)
           keep == 4 + n
<1>1. n \in Nat /\ n # 0 /\ \A j \in 1..n : name[j] \in Letters
  BY DEF Named
<1>2. Len(Esi) = 4 /\ Esi[1] = "e"
  BY DEF Esi
<1>3. text[q + 1] = "e"
  BY <1>2 DEF SpelledAt
<1>4. q + 4 + n <= Len(text) /\ text[q + 4 + n] \in Letters
  <2>1. n \in 1..n
    BY <1>1
  <2>2. text[q + 4 + n] = name[n]
    BY <2>1 DEF SpelledAt
  <2> QED BY <1>1, <2>1, <2>2 DEF SpelledAt
<1> HIDE DEF n
<1>5. /\ keep \in Nat /\ keep # 0
      /\ text[q + 1] \notin LeftTrims /\ text[q + keep] \notin RightTrims
  <2>1. "e" \in KeyRest /\ Letters \subseteq KeyRest
    BY DEF KeyRest, KeyFirst, Letters
  <2>2. q + keep = q + 4 + n
    BY <1>1
  <2>3. keep \in Nat /\ keep # 0
    BY <1>1
  <2> HIDE DEF keep
  <2>4. "e" \notin LeftTrims
    BY ONLY <2>1, NotTrimmed
  <2>5. text[q + keep] \notin RightTrims
    BY ONLY <1>4, <2>1, <2>2, NotTrimmed
  <2> QED BY ONLY <1>3, <2>3, <2>4, <2>5
<1>6. q + keep <= Len(text) /\ Len(text) \in Nat
  BY <1>1, <1>4
<1> HIDE DEF keep
<1>7. ASSUME NEW skip \in Nat, skip = 0
      PROVE  Cut(text, Span(q + 1, skip + keep)) = Span(q + 1 + skip, keep)
  <2> DEFINE from == q + 1
  <2>1. /\ from \in Nat /\ 0 < from /\ from + skip + keep <= Len(text) + 1
        /\ from + skip = q + 1 /\ from + skip + keep - 1 = q + keep
        /\ from..(from + skip - 1) = {}
    BY <1>5, <1>6, <1>7
  <2> HIDE DEF from
  <2>2. \A i \in from..(from + skip - 1) : text[i] \in LeftTrims
    BY <2>1
  <2>3. text[from + skip] \notin LeftTrims /\ text[from + skip + keep - 1] \notin RightTrims
    BY <1>5, <2>1
  <2>4. from \in Nat /\ 0 < from /\ from + skip + keep <= Len(text) + 1 /\ keep \in Nat
    BY <1>5, <2>1
  <2>5. Cut(text, Span(from, skip + keep)) = Span(from + skip, keep)
    BY ONLY text \in Seq(Chars), skip \in Nat, <2>2, <2>3, <2>4, CutIs
  <2> QED BY <2>5 DEF from
<1>8. Cut(text, Span(q + 1, keep)) = Span(q + 1, keep)
  <2>1. PICK skip \in Nat : skip = 0
    OBVIOUS
  <2>2. skip + keep = keep /\ q + 1 + skip = q + 1
    BY <1>5, <2>1
  <2> QED BY <1>7, <2>1, <2>2
<1>9. ASSUME q # 0, text[q] = "<" PROVE Cut(text, Span(q, 1 + keep)) = Span(q + 1, keep)
  <2>1. /\ 0 < q /\ q + 1 + keep <= Len(text) + 1 /\ q + 1 + keep - 1 = q + keep
        /\ q..(q + 1 - 1) = {q}
    BY <1>5, <1>6, <1>9
  <2>2. text[q] \in LeftTrims
    BY <1>9, NotTrimmed
  <2> QED BY <1>5, <2>1, <2>2, CutIs
<1> QED BY <1>8, <1>9 DEF keep, n

\* What a tag begins with.
HeadText(name) == <<"<">> \o Esi \o name

\* It is a text, of five bytes and those of the name.
LEMMA HeadIs ==
  ASSUME NEW name, Named(name)
  PROVE  /\ HeadText(name) \in Seq(Chars) /\ Len(HeadText(name)) = 5 + Len(name)
         /\ One("<") \in Seq(Chars) /\ Len(One("<")) = 1
         /\ Esi \in Seq(Chars) /\ Len(Esi) = 4
         /\ One("<") \o Esi \in Seq(Chars) /\ Len(One("<") \o Esi) = 5
         /\ name \in Seq(Chars) /\ Len(name) \in Nat
         /\ HeadText(name) = (One("<") \o Esi) \o name
<1>1. /\ One("<") \in Seq(Chars) /\ Len(One("<")) = 1
      /\ Esi \in Seq(Chars) /\ Len(Esi) = 4
  <2>1. "<" \in Chars /\ "e" \in Chars /\ "s" \in Chars /\ "i" \in Chars /\ ":" \in Chars
    BY DEF Chars, Letters
  <2> HIDE DEF Chars
  <2> QED BY <2>1 DEF Esi, One
<1>2. name \in Seq(Chars)
  <2>1. Letters \subseteq Chars
    BY DEF Chars
  <2> QED BY <2>1 DEF Named
<1> DEFINE lt == One("<")
           open == lt \o Esi
<1> HIDE DEF lt
<1>3. open \in Seq(Chars) /\ Len(open) = 5
  <2>1. lt \in Seq(Chars) /\ Len(lt) = 1 /\ Esi \in Seq(Chars) /\ Len(Esi) = 4
    BY <1>1 DEF lt
  <2>2. lt \o Esi \in Seq(Chars) /\ Len(lt \o Esi) = Len(lt) + Len(Esi)
    BY <2>1, ConcatProperties
  <2> QED BY <2>1, <2>2
<1>4. open \o name \in Seq(Chars) /\ Len(open \o name) = 5 + Len(name)
  <2> HIDE DEF open
  <2>1. open \o name \in Seq(Chars) /\ Len(open \o name) = Len(open) + Len(name)
    BY <1>2, <1>3, ConcatProperties
  <2> QED BY <1>3, <2>1
<1>5. HeadText(name) = open \o name
  BY DEF HeadText, lt, One
<1>6. Len(name) \in Nat
  BY <1>2
<1> QED BY <1>1, <1>2, <1>3, <1>4, <1>5, <1>6 DEF lt

\* A text that says it says "<", "esi:" and the name.
LEMMA HeadSpelled ==
  ASSUME NEW name, Named(name), NEW text, Len(text) \in Nat, NEW q \in Nat,
         SpelledAt(text, q, HeadText(name))
  PROVE  /\ q < Len(text) /\ text[q + 1] = "<"
         /\ SpelledAt(text, q + 1, Esi) /\ SpelledAt(text, q + 1 + 4, name)
<1> DEFINE lt == One("<")
           open == lt \o Esi
<1>1. /\ lt \in Seq(Chars) /\ Len(lt) = 1
      /\ Esi \in Seq(Chars) /\ name \in Seq(Chars)
      /\ open \in Seq(Chars) /\ Len(open) = 5
      /\ SpelledAt(text, q, open \o name)
  BY HeadIs
<1>2. SpelledAt(text, q, open) /\ SpelledAt(text, q + Len(open), name)
  <2> HIDE DEF open
  <2> QED BY <1>1, SpelledConcat
<1>3. SpelledAt(text, q, lt) /\ SpelledAt(text, q + Len(lt), Esi)
  <2> HIDE DEF lt
  <2> QED BY <1>1, <1>2, SpelledConcat
<1>4. q < Len(text) /\ text[q + 1] = "<"
  <2>1. q \in 0..(Len(text) - 1) /\ text[q + 1] = "<"
    BY <1>3, SpelledByte DEF One
  <2> QED BY <2>1
<1>5. q + Len(open) = q + 1 + 4 /\ q + Len(lt) = q + 1
  <2> HIDE DEF open, lt
  <2> QED BY <1>1
<1> QED BY <1>2, <1>3, <1>4, <1>5

\* It brings the scanner to the end of the name.
LEMMA HeadRead ==
  ASSUME NEW text, Len(text) \in Nat, NEW f, Reads(f, text), NEW q \in Nat,
         NEW name, Named(name), SpelledAt(text, q, HeadText(name)),
         NEW c \in Seq(Calls), Between(f[q], c), NEW nm, NEW k
  PROVE  Reached(f[q + 5 + Len(name)], "name", q + 1, nm, k, <<>>, c)
<1>1. /\ q < Len(text) /\ text[q + 1] = "<"
      /\ SpelledAt(text, q + 1, Esi) /\ SpelledAt(text, q + 1 + 4, name)
  BY HeadSpelled
<1>2. Reached(f[q + 1], "lt", q + 1, nm, k, <<>>, c)
  <2>1. q \in 0..(Len(text) - 1)
    BY <1>1
  <2> QED BY <1>1, <2>1, BeginRead
<1>3. EsiStages(FALSE)[1] = "lt" /\ NameStage(FALSE) = "name" /\ FALSE \in BOOLEAN /\ q + 1 \in Nat
  BY DEF EsiStages, NameStage
<1>4. Reached(f[q + 1 + 4 + Len(name)], NameStage(FALSE), q + 1, nm, k, <<>>, c)
  BY <1>1, <1>2, <1>3, NameRead
<1>5. q + 1 + 4 + Len(name) = q + 5 + Len(name)
  BY DEF Named
<1> QED BY <1>3, <1>4, <1>5

-----------------------------------------------------------------------------
(* Lexemes.                                                                *)

\* What the text of each kind of tag is.
LEMMA TagTexts ==
  ASSUME NEW l
  PROVE  /\ l.kind = "block_start" => LexemeText(l) = HeadText(l.name) \o One(">")
         /\ l.kind = "block_end" => LexemeText(l) = <<"<", "/">> \o Esi \o l.name \o One(">")
         /\ l.kind = "block_attributes" =>
              LexemeText(l) = HeadText(l.name) \o One(Blank) \o AttributesText(l.attributes) \o One(">")
         /\ l.kind = "inline" =>
              LexemeText(l) = HeadText(l.name) \o One(Blank) \o AttributesText(l.attributes) \o <<"/", ">">>
         /\ l.kind = "text" => LexemeText(l) = l.name
<1>1. ASSUME l.kind = "block_start" PROVE LexemeText(l) = HeadText(l.name) \o One(">")
  BY <1>1 DEF LexemeText, HeadText, One, Blank
<1>2. ASSUME l.kind = "block_end" PROVE LexemeText(l) = <<"<", "/">> \o Esi \o l.name \o One(">")
  BY <1>2 DEF LexemeText, HeadText, One, Blank
<1>3. ASSUME l.kind = "block_attributes"
      PROVE  LexemeText(l) = HeadText(l.name) \o One(Blank) \o AttributesText(l.attributes) \o One(">")
  BY <1>3 DEF LexemeText, HeadText, One, Blank
<1>4. ASSUME l.kind = "inline"
      PROVE  LexemeText(l) = HeadText(l.name) \o One(Blank) \o AttributesText(l.attributes) \o <<"/", ">">>
  BY <1>4 DEF LexemeText, HeadText, One, Blank
<1>5. ASSUME l.kind = "text" PROVE LexemeText(l) = l.name
  BY <1>5 DEF LexemeText, HeadText, One, Blank
<1> QED BY <1>1, <1>2, <1>3, <1>4, <1>5

\* And what calls it stands for.
LEMMA TagCalls ==
  ASSUME NEW l, NEW from
  PROVE  LET size  == 4 + Len(l.name)
             start == StartTag(Span(from + 1, size), AttributesAt(l.attributes, from + 1 + size + 1))
         IN  /\ l.kind \in {"block_start", "block_attributes"} => LexemeCalls(l, from) = <<start>>
             /\ l.kind = "inline" =>
                  LexemeCalls(l, from) = <<start, EndTag(Span(from + 1, size))>>
             /\ l.kind = "block_end" => LexemeCalls(l, from) = <<EndTag(Span(from + 2, size))>>
             /\ l.kind = "text" => LexemeCalls(l, from) = Outputs(Span(from, Len(l.name)))
<1> DEFINE size  == 4 + Len(l.name)
           start == StartTag(Span(from + 1, size), AttributesAt(l.attributes, from + 1 + size + 1))
<1>1. Len(Esi) = 4
  BY DEF Esi
<1>2. start.bytes = Span(from + 1, size)
  BY DEF StartTag, Call
<1>3. LexemeCalls(l, from) =
        CASE l.kind = "text"      -> Outputs(Span(from, Len(l.name)))
          [] l.kind = "block_end" -> <<EndTag(Span(from + 2, size))>>
          [] l.kind = "inline"    -> <<start, EndTag(start.bytes)>>
          [] OTHER                -> <<start>>
  BY <1>1 DEF LexemeCalls
<1> HIDE DEF start, size
<1>4. /\ l.kind \in {"block_start", "block_attributes"} => LexemeCalls(l, from) = <<start>>
      /\ l.kind = "inline" => LexemeCalls(l, from) = <<start, EndTag(start.bytes)>>
      /\ l.kind = "block_end" => LexemeCalls(l, from) = <<EndTag(Span(from + 2, size))>>
      /\ l.kind = "text" => LexemeCalls(l, from) = Outputs(Span(from, Len(l.name)))
  BY <1>3
<1> QED BY <1>2, <1>4 DEF start, size

\* The start of a block without attributes is read as the call it stands for.
LEMMA BlockStartLexeme ==
  ASSUME NEW text \in Seq(Chars), NEW f, Reads(f, text), NEW q \in Nat, NEW l,
         l.kind = "block_start", Named(l.name), l.attributes = <<>>,
         SpelledAt(text, q, LexemeText(l)), NEW c \in Seq(Calls), Between(f[q], c)
  PROVE  Between(f[q + Len(LexemeText(l))], c \o LexemeCalls(l, q + 1))
<1> DEFINE n == Len(l.name)
           head == HeadText(l.name)
           r == q + 5 + n
<1>1. LexemeText(l) = head \o One(">")
  BY TagTexts
<1>2. head \in Seq(Chars) /\ Len(head) = 5 + n /\ ">" \in Chars
  <2>1. ">" \in Chars
    BY DEF Chars
  <2> QED BY <2>1, HeadIs
<1>3. n \in Nat /\ Len(text) \in Nat
  BY DEF Named
<1>4. /\ SpelledAt(text, q, head) /\ q + Len(head) < Len(text)
      /\ text[q + Len(head) + 1] = ">" /\ Len(LexemeText(l)) = Len(head) + 1
  <2> HIDE DEF head
  <2>1. SpelledAt(text, q, head \o One(">"))
    BY <1>1
  <2>2. head \in Seq(Chars) /\ ">" \in Chars /\ Len(text) \in Nat
    BY <1>2, <1>3
  <2>3. SpelledAt(text, q, head) /\ q + Len(head) < Len(text) /\ text[q + Len(head) + 1] = ">"
    BY ONLY <2>1, <2>2, q \in Nat, SpelledMore
  <2>4. Len(head \o One(">")) = Len(head) + 1
    BY <1>2, CharMore
  <2> QED BY <1>1, <2>3, <2>4
<1>5. r \in 0..(Len(text) - 1) /\ text[r + 1] = ">" /\ q + Len(LexemeText(l)) = r + 1
  <2> HIDE DEF n, head
  <2>1. q + Len(head) = r /\ q + (Len(head) + 1) = r + 1
    BY <1>2, <1>3
  <2> QED BY <1>4, <2>1
<1>6. Reached(f[r], "name", q + 1, <<>>, <<>>, <<>>, c)
  BY <1>3, <1>4, HeadRead
<1>7. Marked(text, q + 1, 0, r) = Span(q + 2, 4 + n)
  <2>1. /\ text[q + 1] = "<" /\ SpelledAt(text, q + 1, Esi) /\ SpelledAt(text, q + 1 + 4, l.name)
    BY <1>3, <1>4, HeadSpelled
  <2>2. Cut(text, Span(q + 1, 1 + (4 + n))) = Span(q + 1 + 1, 4 + n)
    <3>1. q + 1 \in Nat /\ q + 1 # 0
      OBVIOUS
    <3> QED BY <2>1, <3>1, NameCut
  <2> HIDE DEF n
  <2>3. r - (q + 1 + 0) + 1 = 1 + (4 + n) /\ q + 1 + 0 = q + 1 /\ q + 1 + 1 = q + 2
    BY <1>3
  <2> HIDE DEF r
  <2> QED BY <2>2, <2>3 DEF Marked
<1>8. LexemeCalls(l, q + 1) = <<StartTag(Span(q + 2, 4 + n), <<>>)>>
  <2>1. AttributesAt(l.attributes, q + 1 + 1 + (4 + n) + 1) = <<>>
    BY DEF AttributesAt
  <2>2. q + 1 + 1 = q + 2
    OBVIOUS
  <2> QED BY <2>1, <2>2, TagCalls
<1>9. Between(f[r + 1], c \o <<StartTag(Marked(text, q + 1, 0, r), <<>>)>>)
  <2> HIDE DEF r
  <2> QED BY <1>3, <1>5, <1>6, BlockStartRead
<1> QED BY <1>5, <1>7, <1>8, <1>9

-----------------------------------------------------------------------------
(* Attributes.                                                             *)

\* The text of an attribute, one part appended after the other.
LEMMA AttributeTextIs ==
  ASSUME NEW a
  PROVE  AttributeText(a) =
           (((a.space \o a.key) \o One("=")) \o a.gap) \o ((One(a.quote) \o a.value) \o One(a.quote))
BY DEF AttributeText, Quoted, One

\* The lengths of its parts, and where they are.
LEMMA AttributeSpelled ==
  ASSUME NEW a \in AttributeForm
  PROVE  /\ AttributeText(a) \in Seq(Chars)
         /\ Len(AttributeText(a)) = Len(a.space) + Len(a.key) + 1 + Len(a.gap) + 1 + Len(a.value) + 1
         /\ a.space \in Seq(Chars) /\ a.key \in Seq(Chars) /\ a.gap \in Seq(Chars)
         /\ a.value \in Seq(Chars) /\ a.quote \in Quotes
         /\ \A j \in 1..Len(a.space) : a.space[j] = Blank
         /\ \A j \in 1..Len(a.gap) : a.gap[j] = Blank
         /\ \A j \in 1..Len(a.key) : a.key[j] \in KeyRest
         /\ \A j \in 1..Len(a.value) : a.value[j] \in Chars \ {"<"}
<1> DEFINE blanks == {Blank}
<1>1. blanks \subseteq Chars /\ KeyRest \subseteq Chars /\ Quotes \subseteq Chars /\ "=" \in Chars
  BY DEF Blank, Chars, KeyRest, KeyFirst, Letters, Quotes
<1>2. /\ a.space \in Seq(blanks) /\ a.key \in Seq(KeyRest) /\ a.gap \in Seq(blanks)
      /\ a.value \in Seq(Chars \ {"<"}) /\ a.quote \in Quotes
  <2>1. blanks = {" "}
    BY DEF Blank
  <2> HIDE DEF blanks
  <2>2. AttributeForm = [space : Seq(blanks), key : Seq(KeyRest), gap : Seq(blanks),
                         value : Seq(Chars \ {"<"}), quote : Quotes]
    BY <2>1 DEF AttributeForm
  <2> QED BY <2>2
<1>3. /\ a.space \in Seq(Chars) /\ a.key \in Seq(Chars) /\ a.gap \in Seq(Chars)
      /\ a.value \in Seq(Chars) /\ a.quote \in Chars
  <2> HIDE DEF blanks
  <2> QED BY <1>1, <1>2
<1>4. /\ \A j \in 1..Len(a.space) : a.space[j] = Blank
      /\ \A j \in 1..Len(a.gap) : a.gap[j] = Blank
      /\ \A j \in 1..Len(a.key) : a.key[j] \in KeyRest
      /\ \A j \in 1..Len(a.value) : a.value[j] \in Chars \ {"<"}
  <2>1. \A j \in 1..Len(a.space) : a.space[j] \in blanks
    <3> HIDE DEF blanks
    <3> QED BY <1>2
  <2>2. \A j \in 1..Len(a.gap) : a.gap[j] \in blanks
    <3> HIDE DEF blanks
    <3> QED BY <1>2
  <2> QED BY <1>2, <2>1, <2>2
<1>5. One(a.quote) \in Seq(Chars) /\ Len(One(a.quote)) = 1
  BY <1>3 DEF One
<1> DEFINE u1 == a.space \o a.key
           u2 == u1 \o One("=")
           u3 == u2 \o a.gap
           w1 == One(a.quote) \o a.value
           w2 == w1 \o One(a.quote)
<1>6. u1 \in Seq(Chars) /\ Len(u1) = Len(a.space) + Len(a.key)
  BY <1>3, ConcatProperties
<1>7. u2 \in Seq(Chars) /\ Len(u2) = Len(u1) + 1
  <2> HIDE DEF u1
  <2> QED BY <1>1, <1>6, CharMore
<1>8. u3 \in Seq(Chars) /\ Len(u3) = Len(u2) + Len(a.gap)
  <2> HIDE DEF u2
  <2> QED BY <1>3, <1>7, ConcatProperties
<1>9. w1 \in Seq(Chars) /\ Len(w1) = 1 + Len(a.value)
  <2>1. w1 \in Seq(Chars) /\ Len(w1) = Len(One(a.quote)) + Len(a.value)
    BY <1>3, <1>5, ConcatProperties
  <2> QED BY <1>5, <2>1
<1>10. w2 \in Seq(Chars) /\ Len(w2) = Len(w1) + 1
  <2> HIDE DEF w1
  <2> QED BY <1>3, <1>9, CharMore
<1>11. u3 \o w2 \in Seq(Chars) /\ Len(u3 \o w2) = Len(u3) + Len(w2)
  <2> HIDE DEF u3, w2
  <2> QED BY <1>8, <1>10, ConcatProperties
<1>12. AttributeText(a) = u3 \o w2
  BY AttributeTextIs
<1>13. /\ Len(a.space) \in Nat /\ Len(a.key) \in Nat /\ Len(a.gap) \in Nat /\ Len(a.value) \in Nat
  BY <1>3
<1> HIDE DEF u1, u2, u3, w1, w2
<1>14. Len(u3 \o w2) = Len(a.space) + Len(a.key) + 1 + Len(a.gap) + 1 + Len(a.value) + 1
  <2>1. Len(u3) = Len(a.space) + Len(a.key) + 1 + Len(a.gap)
    BY <1>6, <1>7, <1>8
  <2>2. Len(w2) = 1 + Len(a.value) + 1
    BY <1>9, <1>10
  <2> DEFINE ns == Len(a.space)
             nk == Len(a.key)
             ng == Len(a.gap)
             nv == Len(a.value)
             m  == Len(u3)
             n  == Len(w2)
  <2>3. /\ ns \in Nat /\ nk \in Nat /\ ng \in Nat /\ nv \in Nat
        /\ m = ns + nk + 1 + ng /\ n = 1 + nv + 1
    BY <1>13, <2>1, <2>2
  <2> HIDE DEF ns, nk, ng, nv, m, n
  <2>4. m + n = ns + nk + 1 + ng + 1 + nv + 1
    BY <2>3
  <2> QED BY <1>11, <2>4 DEF ns, nk, ng, nv, m, n
<1> QED BY <1>2, <1>3, <1>4, <1>11, <1>12, <1>14

\* A text that says an attribute says its parts, each at its place.
LEMMA AttributeParts ==
  ASSUME NEW a \in AttributeForm, NEW text, Len(text) \in Nat, NEW q \in Nat,
         SpelledAt(text, q, AttributeText(a))
  PROVE  LET atKey   == q + Len(a.space)
             atEq    == atKey + Len(a.key)
             atGap   == atEq + 1
             atQuote == atGap + Len(a.gap)
             atValue == atQuote + 1
             atEnd   == atValue + Len(a.value)
         IN  /\ SpelledAt(text, q, a.space) /\ SpelledAt(text, atKey, a.key)
             /\ atEq < Len(text) /\ text[atEq + 1] = "="
             /\ SpelledAt(text, atGap, a.gap)
             /\ atQuote < Len(text) /\ text[atQuote + 1] = a.quote
             /\ SpelledAt(text, atValue, a.value)
             /\ atEnd < Len(text) /\ text[atEnd + 1] = a.quote
             /\ q + Len(AttributeText(a)) = atEnd + 1
<1> DEFINE ns == Len(a.space)
           nk == Len(a.key)
           ng == Len(a.gap)
           nv == Len(a.value)
           atKey   == q + ns
           atEq    == atKey + nk
           atGap   == atEq + 1
           atQuote == atGap + ng
           atValue == atQuote + 1
           atEnd   == atValue + nv
           all     == Len(AttributeText(a))
           u1 == a.space \o a.key
           u2 == u1 \o One("=")
           u3 == u2 \o a.gap
           w1 == One(a.quote) \o a.value
           w2 == w1 \o One(a.quote)
<1>1. /\ a.space \in Seq(Chars) /\ a.key \in Seq(Chars) /\ a.gap \in Seq(Chars)
      /\ a.value \in Seq(Chars) /\ a.quote \in Quotes
      /\ all = ns + nk + 1 + ng + 1 + nv + 1
  BY AttributeSpelled
<1>2. "=" \in Chars /\ a.quote \in Chars
  BY <1>1 DEF Chars, Quotes
<1>3. /\ ns \in Nat /\ nk \in Nat /\ ng \in Nat /\ nv \in Nat
  BY <1>1
<1>4. One(a.quote) \in Seq(Chars) /\ Len(One(a.quote)) = 1
  BY <1>2 DEF One
<1> HIDE DEF ns, nk, ng, nv, all
<1>5. u1 \in Seq(Chars) /\ Len(u1) = ns + nk
  BY <1>1, ConcatProperties DEF ns, nk
<1>6. u2 \in Seq(Chars) /\ Len(u2) = Len(u1) + 1
  <2> HIDE DEF u1
  <2> QED BY <1>2, <1>5, CharMore
<1>7. u3 \in Seq(Chars) /\ Len(u3) = Len(u2) + ng
  <2> HIDE DEF u2
  <2> QED BY <1>1, <1>6, ConcatProperties DEF ng
<1>8. w1 \in Seq(Chars) /\ Len(w1) = 1 + nv
  <2>1. w1 \in Seq(Chars) /\ Len(w1) = Len(One(a.quote)) + nv
    BY <1>1, <1>4, ConcatProperties DEF nv
  <2> QED BY <1>4, <2>1
<1>9. w2 \in Seq(Chars)
  <2> HIDE DEF w1
  <2> QED BY <1>2, <1>8, CharMore
<1>10. SpelledAt(text, q, u3) /\ SpelledAt(text, q + Len(u3), w2)
  <2>1. AttributeText(a) = u3 \o w2
    BY AttributeTextIs
  <2> HIDE DEF u3, w2
  <2> QED BY <1>7, <1>9, <2>1, SpelledConcat
<1>11. SpelledAt(text, q, u2) /\ SpelledAt(text, q + Len(u2), a.gap)
  <2> HIDE DEF u2
  <2> QED BY <1>1, <1>6, <1>10, SpelledConcat
<1>12. SpelledAt(text, q, u1) /\ q + Len(u1) < Len(text) /\ text[q + Len(u1) + 1] = "="
  <2> HIDE DEF u1
  <2>1. SpelledAt(text, q, u1 \o One("="))
    BY <1>11
  <2> QED BY <1>2, <1>5, <2>1, SpelledMore
<1>13. SpelledAt(text, q, a.space) /\ SpelledAt(text, q + ns, a.key)
  BY <1>1, <1>12, SpelledConcat DEF ns
<1>14. /\ q + Len(u1) = atEq /\ q + Len(u2) = atGap /\ q + Len(u3) = atQuote
       /\ atQuote \in Nat /\ atQuote + Len(w1) = atEnd
       /\ q + all = atEnd + 1
  <2> HIDE DEF u1, u2, u3, w1
  <2>1. q + Len(u1) = atEq
    BY <1>3, <1>5
  <2>2. q + Len(u2) = atGap
    BY <1>3, <1>5, <1>6
  <2>3. q + Len(u3) = atQuote
    BY <1>3, <1>5, <1>6, <1>7
  <2>4. atQuote \in Nat /\ atQuote + Len(w1) = atEnd
    BY <1>3, <1>8
  <2>5. q + all = atEnd + 1
    BY <1>1, <1>3
  <2> QED BY <2>1, <2>2, <2>3, <2>4, <2>5
<1> HIDE DEF u1, u2, u3
<1>15. SpelledAt(text, atQuote, w2)
  BY <1>10, <1>14
<1> HIDE DEF atKey, atEq, atGap, atQuote
<1>16. /\ SpelledAt(text, atQuote, w1) /\ atQuote + Len(w1) < Len(text)
       /\ text[atQuote + Len(w1) + 1] = a.quote
  <2> HIDE DEF w1
  <2>1. SpelledAt(text, atQuote, w1 \o One(a.quote))
    BY <1>15
  <2> QED BY <1>2, <1>8, <1>14, <2>1, SpelledMore
<1>17. SpelledAt(text, atQuote, One(a.quote)) /\ SpelledAt(text, atQuote + 1, a.value)
  <2>1. SpelledAt(text, atQuote, One(a.quote)) /\ SpelledAt(text, atQuote + Len(One(a.quote)), a.value)
    BY <1>1, <1>4, <1>14, <1>16, SpelledConcat
  <2> QED BY <1>4, <2>1
<1>18. atQuote < Len(text) /\ text[atQuote + 1] = a.quote
  <2>1. atQuote \in 0..(Len(text) - 1) /\ text[atQuote + 1] = a.quote
    BY <1>14, <1>17, SpelledByte DEF One
  <2> QED BY <1>14, <2>1
<1> HIDE DEF atEnd, w1, w2
<1>19. /\ SpelledAt(text, atKey, a.key)
       /\ atEq < Len(text) /\ text[atEq + 1] = "="
       /\ SpelledAt(text, atGap, a.gap)
       /\ atEnd < Len(text) /\ text[atEnd + 1] = a.quote
  BY <1>11, <1>12, <1>13, <1>14, <1>16 DEF atKey
<1> QED BY <1>13, <1>14, <1>17, <1>18, <1>19 DEF ns, nk, ng, nv, all, atKey, atEq, atGap, atQuote, atEnd

\* The spaces before it, the key and the "=" are read.
LEMMA KeyPartRead ==
  ASSUME NEW text, Len(text) \in Nat, NEW f, Reads(f, text), NEW q \in Nat,
         NEW space \in Seq(Chars), \A j \in 1..Len(space) : space[j] = Blank,
         NEW key \in Seq(Chars), \A j \in 1..Len(key) : key[j] \in KeyRest,
         key # <<>>, key[1] \in KeyFirst,
         SpelledAt(text, q, space), SpelledAt(text, q + Len(space), key),
         NEW p_, p_ = q + Len(space) + Len(key), p_ < Len(text), text[p_ + 1] = "=",
         NEW m, NEW nm, NEW k, NEW attrs, NEW c \in Seq(Calls),
         Reached(f[q], "attrs", m, nm, k, attrs, c)
  PROVE  Reached(f[p_ + 1], "eq", p_ + 1, nm, Marked(text, m, 0, p_), attrs, c)
<1> DEFINE ns == Len(space)
           nk == Len(key)
           at == q + ns
           from == IF ns = 0 THEN "attrs" ELSE "space"
<1>1. ns \in Nat /\ nk \in Nat /\ nk # 0
  OBVIOUS
<1>2. /\ EchoEdge("attrs", Blank, "space") /\ EchoEdge("space", Blank, "space")
      /\ \A ch \in KeyFirst : EchoEdge("attrs", ch, "key") /\ EchoEdge("space", ch, "key")
      /\ \A ch \in KeyRest : EchoEdge("key", ch, "key")
  <2>1. EchoEdge("attrs", Blank, "space") /\ EchoEdge("space", Blank, "space")
    BY DEF EchoEdge, Edges, AttributeEdges, Blank
  <2>2. \A ch \in KeyFirst : EchoEdge("attrs", ch, "key") /\ EchoEdge("space", ch, "key")
    BY DEF EchoEdge, Edges, AttributeEdges
  <2>3. \A ch \in KeyRest : EchoEdge("key", ch, "key")
    BY DEF EchoEdge, Edges, AttributeEdges, KeyRest, KeyFirst, Letters
  <2> QED BY <2>1, <2>2, <2>3
<1>3. q + ns <= Len(text) /\ \A j \in 1..ns : text[q + j] = Blank
  BY DEF SpelledAt
<1>4. at + nk <= Len(text) /\ \A j \in 1..nk : text[at + j] = key[j]
  BY DEF SpelledAt
<1>5. p_ = at + nk /\ at \in Nat /\ p_ \in 0..(Len(text) - 1)
  BY <1>1
<1>6. \A j \in 1..nk : key[j] \in KeyRest
  OBVIOUS
<1> HIDE DEF ns, nk
<1>7. Reached(f[at], from, m, nm, k, attrs, c)
  <2>1. ns # 0 => EchoEdge("attrs", text[q + 1], "space")
    BY <1>1, <1>2, <1>3
  <2>2. \A j \in 2..ns : EchoEdge("space", text[q + j], "space")
    <3>1. \A j \in 2..ns : j \in 1..ns
      BY <1>1
    <3> QED BY <1>2, <1>3, <3>1
  <2> HIDE DEF from
  <2>3. Reached(f[q + ns], IF ns = 0 THEN "attrs" ELSE "space", m, nm, k, attrs, c)
    BY <1>1, <1>3, <2>1, <2>2, LoopRead
  <2> QED BY <2>3 DEF from
<1>8. from \in {"attrs", "space"}
  OBVIOUS
<1> HIDE DEF at, from
<1>9. Reached(f[at + nk], "key", m, nm, k, attrs, c)
  <2>1. text[at + 1] = key[1]
    BY <1>1, <1>4
  <2>2. nk # 0 => EchoEdge(from, text[at + 1], "key")
    BY <1>2, <1>8, <2>1
  <2>3. \A j \in 2..nk : EchoEdge("key", text[at + j], "key")
    BY <1>1, <1>2, <1>4, <1>6
  <2>4. Reached(f[at + nk], IF nk = 0 THEN from ELSE "key", m, nm, k, attrs, c)
    BY <1>1, <1>4, <1>5, <1>7, <2>2, <2>3, LoopRead
  <2> QED BY <1>1, <2>4
<1> QED BY <1>5, <1>9, KeyRead

\* The bytes from q on are `before` ones that are trimmed off and then the part.
TrimsTo(text, q, before, part, keep) ==
  /\ 0 < q /\ before \in Nat /\ keep \in Nat /\ Len(part) = keep
  /\ \A i \in q..(q + before - 1) : text[i] \in LeftTrims
  /\ SpelledAt(text, q + before - 1, part)
  /\ keep = 0 \/ part[1] \notin LeftTrims
  /\ keep <= 1 \/ part[keep] \notin RightTrims

\* What is trimmed off a key and a value: the spaces and the quote before it.
LEMMA PartCut ==
  ASSUME NEW text \in Seq(Chars), NEW q \in Nat, NEW before, NEW keep, NEW part,
         TrimsTo(text, q, before, part, keep)
  PROVE  Cut(text, Span(q, before + keep)) = Span(q + before, keep)
<1>1. /\ 0 < q /\ before \in Nat /\ keep \in Nat
      /\ \A i \in q..(q + before - 1) : text[i] \in LeftTrims
      /\ Len(text) \in Nat
  BY DEF TrimsTo
<1>2. /\ q + before + keep <= Len(text) + 1
      /\ \A j \in 1..keep : text[q + before - 1 + j] = part[j]
  BY <1>1 DEF SpelledAt, TrimsTo
<1>3. keep = 0 \/ text[q + before] \notin LeftTrims
  <2>1. keep # 0 => 1 \in 1..keep /\ q + before - 1 + 1 = q + before
    BY <1>1
  <2>2. keep # 0 => text[q + before - 1 + 1] = part[1]
    BY <1>2, <2>1
  <2> QED BY <1>1, <2>1, <2>2 DEF TrimsTo
<1>4. keep <= 1 \/ text[q + before + keep - 1] \notin RightTrims
  <2>1. ~ (keep <= 1) => keep \in 1..keep /\ q + before - 1 + keep = q + before + keep - 1
    BY <1>1
  <2>2. ~ (keep <= 1) => text[q + before - 1 + keep] = part[keep]
    BY <1>2, <2>1
  <2> QED BY <1>1, <2>1, <2>2 DEF TrimsTo
<1>5. q + before + keep <= Len(text) + 1
  BY <1>2
<1> QED BY ONLY <1>1, <1>3, <1>4, <1>5, CutIs, text \in Seq(Chars), q \in Nat

\* Where the key and the value of an attribute are whose text begins at `from`.
AttributeAt(a, from) ==
  [name  |-> Span(from + Len(a.space), Len(a.key)),
   value |-> Span(from + Len(a.space) + Len(a.key) + 1 + Len(a.gap) + 1, Len(a.value))]

(***************************************************************************)
(* An attribute that is told apart: it is read as a whole, its key and its *)
(* value being what was written.                                           *)
(***************************************************************************)
LEMMA AttributeRead ==
  ASSUME NEW text \in Seq(Chars), NEW f, Reads(f, text), NEW q \in Nat, 0 < q,
         text[q] \in LeftTrims, NEW a \in AttributeForm, PlainAttribute(a),
         SpelledAt(text, q, AttributeText(a)), NEW size, size = Len(AttributeText(a)),
         NEW nm, NEW k, NEW attrs, NEW c \in Seq(Calls),
         Reached(f[q], "attrs", q, nm, k, attrs, c)
  PROVE  /\ size \in Nat /\ text[q + size] \in LeftTrims
         /\ Reached(f[q + size], "attrs", q + size, nm, k, Append(attrs, AttributeAt(a, q + 1)), c)
<1> DEFINE ns == Len(a.space)
           nk == Len(a.key)
           ng == Len(a.gap)
           nv == Len(a.value)
           atKey   == q + ns
           atEq    == atKey + nk
           atGap   == atEq + 1
           atQuote == atGap + ng
           atValue == atQuote + 1
           atEnd   == atValue + nv
           keyIs   == Span(q + 1 + ns, nk)
           valueIs == Span(q + 1 + ns + nk + 1 + ng + 1, nv)
<1>1. /\ a.space \in Seq(Chars) /\ a.key \in Seq(Chars) /\ a.gap \in Seq(Chars)
      /\ a.value \in Seq(Chars) /\ a.quote \in Quotes
      /\ \A j \in 1..ns : a.space[j] = Blank
      /\ \A j \in 1..ng : a.gap[j] = Blank
      /\ \A j \in 1..nk : a.key[j] \in KeyRest
      /\ \A j \in 1..nv : a.value[j] \in Chars \ {"<"}
  BY AttributeSpelled
<1>2. /\ a.key # <<>> /\ a.key[1] \in KeyFirst
      /\ \A j \in 1..nv : a.value[j] # a.quote
      /\ nv # 0 => a.value[nv] # "bs"
      /\ Untrimmed(a.value)
  <2>1. a.value # <<>> <=> nv # 0
    BY <1>1
  <2>2. DOMAIN a.value = 1..nv
    BY <1>1
  <2> QED BY <2>1, <2>2 DEF PlainAttribute
<1>3. /\ ns \in Nat /\ nk \in Nat /\ ng \in Nat /\ nv \in Nat /\ nk # 0 /\ Len(text) \in Nat
  BY <1>1, <1>2
<1>4. /\ SpelledAt(text, q, a.space) /\ SpelledAt(text, atKey, a.key)
      /\ atEq < Len(text) /\ text[atEq + 1] = "="
      /\ SpelledAt(text, atGap, a.gap)
      /\ atQuote < Len(text) /\ text[atQuote + 1] = a.quote
      /\ SpelledAt(text, atValue, a.value)
      /\ atEnd < Len(text) /\ text[atEnd + 1] = a.quote
      /\ q + size = atEnd + 1
  <2>1. Len(text) \in Nat /\ SpelledAt(text, q, AttributeText(a))
    BY <1>3
  <2> QED BY ONLY <2>1, a \in AttributeForm, q \in Nat, size = Len(AttributeText(a)), AttributeParts
<1>5. Reached(f[atEq + 1], "eq", atEq + 1, nm, Marked(text, q, 0, atEq), attrs, c)
  BY <1>1, <1>2, <1>3, <1>4, KeyPartRead
<1>6. \A i \in q..(q + (1 + ns) - 1) : text[i] \in LeftTrims
  <2>1. ASSUME NEW i \in q..(q + (1 + ns) - 1), i # q PROVE text[i] = Blank
    <3>1. i - q \in 1..ns /\ q + (i - q) = i
      BY <1>3, <2>1
    <3>2. \A j \in 1..ns : text[q + j] = a.space[j]
      BY <1>4 DEF SpelledAt
    <3> QED BY <1>1, <3>1, <3>2
  <2> QED BY <2>1, NotTrimmed
<1>7. \A i \in (atEq + 1)..(atEq + 1 + (1 + ng + 1) - 1) : text[i] \in LeftTrims
  <2>1. ASSUME NEW i \in (atEq + 1)..(atEq + 1 + (1 + ng + 1) - 1), i # atEq + 1, i # atQuote + 1
        PROVE  text[i] = Blank
    <3> DEFINE j0 == i - atGap
    <3>1. j0 \in 1..ng /\ atGap + j0 = i
      <4> HIDE DEF ns, nk, ng
      <4>1. atEq \in Nat
        BY <1>3
      <4> HIDE DEF atEq
      <4> QED BY <1>3, <2>1, <4>1
    <3>2. \A j \in 1..ng : text[atGap + j] = a.gap[j]
      BY <1>4 DEF SpelledAt
    <3> HIDE DEF j0
    <3> QED BY <1>1, <3>1, <3>2
  <2>2. text[atEq + 1] \in LeftTrims /\ text[atQuote + 1] \in LeftTrims
    BY <1>1, <1>4, NotTrimmed
  <2> QED BY <2>1, <2>2, NotTrimmed
<1>8. a.value \in Seq(Chars) /\ (nv = 0 \/ a.value[1] \notin LeftTrims)
      /\ (nv <= 1 \/ a.value[nv] \notin RightTrims)
  BY <1>1, <1>2, UntrimmedEnds
<1>9. nk = 0 \/ a.key[1] \notin LeftTrims
  <2>1. 1 \in 1..nk
    BY <1>3
  <2> QED BY <1>1, <2>1, NotTrimmed
<1>10. nk <= 1 \/ a.key[nk] \notin RightTrims
  <2>1. nk \in 1..nk
    BY <1>3
  <2> QED BY <1>1, <2>1, NotTrimmed
<1> HIDE DEF ns, nk, ng, nv
<1>11. /\ atEq \in Nat /\ atGap \in Nat /\ atQuote \in Nat /\ atValue \in Nat /\ atEnd \in Nat
       /\ q + (1 + ns) = q + 1 + ns /\ q + (1 + ns) - 1 = atKey /\ q + (1 + ns) + nk - 1 = atEq
       /\ atEq + 1 + (1 + ng + 1) = q + 1 + ns + nk + 1 + ng + 1
       /\ atEq + 1 + (1 + ng + 1) - 1 = atValue /\ atEq + 1 + (1 + ng + 1) + nv - 1 = atEnd
       /\ 1 + ns \in Nat /\ 1 + ng + 1 \in Nat
  BY <1>3
<1>12. Marked(text, q, 0, atEq) = keyIs
  <2>1. Len(a.key) = nk
    BY DEF nk
  <2> HIDE DEF atKey, atEq
  <2>2. SpelledAt(text, q + (1 + ns) - 1, a.key)
    BY <1>4, <1>11
  <2>3. Marked(text, q, 0, atEq) = Span(q + (1 + ns), nk)
    <3> DEFINE before == 1 + ns
    <3>1. before \in Nat /\ atEq - (q + 0) + 1 = before + nk /\ q + 0 = q
      BY <1>3, <1>11
    <3>2. TrimsTo(text, q, before, a.key, nk)
      BY <1>3, <1>6, <1>9, <1>10, <2>1, <2>2, <3>1 DEF TrimsTo
    <3> HIDE DEF before
    <3>3. Cut(text, Span(q, before + nk)) = Span(q + before, nk)
      BY <3>2, PartCut
    <3> QED BY <3>1, <3>3 DEF before, Marked
  <2> QED BY <1>11, <2>3
<1>13. Marked(text, atEq + 1, 0, atEnd) = valueIs
  <2>1. Len(a.value) = nv
    BY DEF nv
  <2> DEFINE m == atEq + 1
             before == 1 + ng + 1
  <2>2. m \in Nat /\ 0 < m /\ before \in Nat
    BY <1>11
  <2>3. SpelledAt(text, m + before - 1, a.value) /\ atEnd = m + before + nv - 1
    BY <1>4, <1>11
  <2>4. \A i \in m..(m + before - 1) : text[i] \in LeftTrims
    BY <1>7
  <2>5. m + before = q + 1 + ns + nk + 1 + ng + 1
    BY <1>11
  <2> HIDE DEF m, before, atEnd
  <2>6. Marked(text, m, 0, atEnd) = Span(m + before, nv)
    <3>1. atEnd - (m + 0) + 1 = before + nv /\ m + 0 = m
      BY <1>3, <2>2, <2>3
    <3>2. TrimsTo(text, m, before, a.value, nv)
      BY <1>3, <1>8, <2>1, <2>2, <2>3, <2>4 DEF TrimsTo
    <3>3. Cut(text, Span(m, before + nv)) = Span(m + before, nv)
      BY <2>2, <3>2, PartCut
    <3> QED BY <3>1, <3>3 DEF Marked
  <2> QED BY <2>5, <2>6 DEF m
<1> HIDE DEF keyIs, valueIs
<1>14. Reached(f[atQuote], "eq", atEq + 1, nm, keyIs, attrs, c)
  <2>1. EchoEdge("eq", Blank, "eq")
    BY DEF EchoEdge, Edges, AttributeEdges, Blank
  <2>2. atGap + ng <= Len(text) /\ \A j \in 1..ng : text[atGap + j] = Blank
    <3>1. Len(a.gap) = ng
      BY DEF ng
    <3> HIDE DEF atGap
    <3> QED BY <1>1, <1>4, <3>1 DEF SpelledAt
  <2>3. Reached(f[atGap], "eq", atEq + 1, nm, keyIs, attrs, c)
    BY <1>5, <1>12
  <2>4. atGap \in Nat /\ ng \in Nat
    BY <1>3, <1>11
  <2> HIDE DEF atGap, atEq
  <2>5. ng # 0 => EchoEdge("eq", text[atGap + 1], "eq")
    BY <2>1, <2>2, <2>4
  <2>6. \A j \in 2..ng : EchoEdge("eq", text[atGap + j], "eq")
    <3>1. \A j \in 2..ng : j \in 1..ng
      BY <2>4
    <3> QED BY <2>1, <2>2, <3>1
  <2>7. Reached(f[atGap + ng], IF ng = 0 THEN "eq" ELSE "eq", atEq + 1, nm, keyIs, attrs, c)
    BY <1>3, <2>2, <2>3, <2>4, <2>5, <2>6, LoopRead
  <2> QED BY <2>7
<1> DEFINE m == atEq + 1
<1> HIDE DEF m
<1>15. InValue(f[atValue], Valued(a.quote, "text"), m, nm, keyIs, attrs, c)
  <2>1. atQuote \in 0..(Len(text) - 1)
    BY <1>3, <1>4, <1>11
  <2>2. Reached(f[atQuote], "eq", m, nm, keyIs, attrs, c)
    BY <1>14 DEF m
  <2> HIDE DEF atQuote
  <2> QED BY <1>1, <1>3, <1>4, <2>1, <2>2, QuoteRead
<1>16. InValue(f[atEnd], Valued(a.quote, "text"), m, nm, keyIs, attrs, c)
  <2>1. /\ atValue + nv <= Len(text)
        /\ \A j \in 1..nv : text[atValue + j] = a.value[j]
    <3>1. Len(a.value) = nv
      BY DEF nv
    <3> HIDE DEF atValue
    <3> QED BY <1>4, <3>1 DEF SpelledAt
  <2>2. \A j \in 1..nv : Plain(text[atValue + j], a.quote)
    <3> HIDE DEF atValue
    <3> QED BY <1>1, <1>2, <2>1 DEF Plain, ns, ng, nk, nv
  <2>3. nv # 0 => text[atValue + nv] # "bs"
    <3> HIDE DEF atValue
    <3>1. nv # 0 => nv \in 1..nv
      BY <1>3
    <3> QED BY <1>2, <2>1, <3>1 DEF nv
  <2> HIDE DEF atValue
  <2> QED BY <1>1, <1>3, <1>11, <1>15, <2>1, <2>2, <2>3, ValueRead
<1>17. Reached(f[atEnd + 1], "attrs", atEnd + 1, nm, k,
               Append(attrs, [name |-> keyIs, value |-> Marked(text, m, 0, atEnd)]), c)
  <2>1. atEnd \in 0..(Len(text) - 1)
    BY <1>3, <1>4, <1>11
  <2> HIDE DEF atEnd
  <2> QED BY <1>1, <1>3, <1>4, <1>16, <2>1, EndQuoteRead
<1>18. AttributeAt(a, q + 1) = [name |-> keyIs, value |-> valueIs]
  BY DEF AttributeAt, keyIs, valueIs, ns, nk, ng, nv
<1>19. size \in Nat /\ text[q + size] \in LeftTrims
  <2>1. AttributeText(a) \in Seq(Chars)
    BY AttributeSpelled
  <2>2. size \in Nat
    BY <2>1
  <2> QED BY <1>1, <1>4, <2>2, NotTrimmed
<1> HIDE DEF atEnd
<1> QED BY <1>4, <1>13, <1>17, <1>18, <1>19 DEF m

-----------------------------------------------------------------------------
(* Parts one after the other.                                              *)

(***************************************************************************)
(* FlattenSeq joins sequences, here as there.                                  *)
(***************************************************************************)
LEMMA FlattenIs ==
  ASSUME NEW S, NEW s \in Seq(Seq(S))
  PROVE  JoinedTo(s, FlattenSeq(s))
<1>1. CASE s = <<>>
  BY <1>1 DEF FlattenSeq, JoinedTo
<1>2. CASE s # <<>>
  <2> DEFINE flatten[i \in 1..Len(s)] == IF i = 1 THEN s[i] ELSE flatten[i - 1] \o s[i]
  <2>1. PICK f : Joins(f, s, Len(s))
    BY JoinsExist
  <2>2. flatten = [i \in 1..Len(s) |-> IF i = 1 THEN s[i] ELSE flatten[i - 1] \o s[i]]
    BY <2>1 DEF Joins
  <2>3. FlattenSeq(s) = flatten[Len(s)]
    BY <1>2 DEF FlattenSeq
  <2> HIDE DEF flatten
  <2> QED BY <1>2, <2>2, <2>3 DEF Joins, JoinedTo
<1> QED BY <1>1, <1>2

(***************************************************************************)
(* A part more at the end of the sequence is that part more at the end.    *)
(***************************************************************************)
LEMMA FlattenAppend ==
  ASSUME NEW S, NEW s \in Seq(Seq(S)), NEW e \in Seq(S)
  PROVE  FlattenSeq(s) \in Seq(S) /\ FlattenSeq(Append(s, e)) = FlattenSeq(s) \o e
<1>1. Append(s, e) \in Seq(Seq(S))
  OBVIOUS
<1>2. JoinedTo(s, FlattenSeq(s)) /\ JoinedTo(Append(s, e), FlattenSeq(Append(s, e)))
  BY <1>1, FlattenIs
<1> QED BY <1>2, JoinedAppend

\* The beginning with one element more.
LEMMA SubSeqLast ==
  ASSUME NEW S, NEW s \in Seq(S), NEW i \in 1..Len(s)
  PROVE  SubSeq(s, 1, i) = Append(SubSeq(s, 1, i - 1), s[i])
<1> DEFINE t == SubSeq(s, 1, i - 1)
           u == SubSeq(s, 1, i)
<1>1. t \in Seq(S) /\ Len(t) = i - 1 /\ \A j \in 1..(i - 1) : t[j] = s[j]
  OBVIOUS
<1>2. u \in Seq(S) /\ Len(u) = i /\ \A j \in 1..i : u[j] = s[j]
  OBVIOUS
<1>3. s[i] \in S /\ i \in Nat
  OBVIOUS
<1> HIDE DEF t, u
<1> DEFINE v == Append(t, s[i])
<1>4. /\ v \in Seq(S) /\ Len(v) = i
      /\ \A j \in 1..(i - 1) : v[j] = t[j]
      /\ v[i] = s[i]
  BY <1>1, <1>3
<1> HIDE DEF v
<1>5. \A j \in 1..i : j = i \/ j \in 1..(i - 1)
  BY <1>3
<1>6. \A j \in 1..i : u[j] = v[j]
  BY <1>1, <1>2, <1>3, <1>4, <1>5
<1>7. u = v
  BY <1>2, <1>4, <1>6, SeqEqual
<1> QED BY <1>7 DEF t, u, v

(***************************************************************************)
(* The text of the first parts, and the text with one part more.           *)
(***************************************************************************)
LEMMA FlattenMore ==
  ASSUME NEW S, NEW s \in Seq(Seq(S)), NEW i \in 1..Len(s)
  PROVE  /\ FlattenSeq(SubSeq(s, 1, i - 1)) \in Seq(S)
         /\ FlattenSeq(SubSeq(s, 1, i)) = FlattenSeq(SubSeq(s, 1, i - 1)) \o s[i]
<1> DEFINE t == SubSeq(s, 1, i - 1)
<1>1. t \in Seq(Seq(S)) /\ s[i] \in Seq(S)
  OBVIOUS
<1>2. SubSeq(s, 1, i) = Append(t, s[i])
  BY SubSeqLast
<1> HIDE DEF t
<1>3. FlattenSeq(t) \in Seq(S) /\ FlattenSeq(Append(t, s[i])) = FlattenSeq(t) \o s[i]
  BY <1>1, FlattenAppend
<1> QED BY <1>2, <1>3 DEF t

\* Each part is where the parts before it end.
LEMMA PartSpelled ==
  ASSUME NEW S, NEW s \in Seq(Seq(S)), NEW i \in 1..Len(s),
         NEW text, Len(text) \in Nat, NEW q \in Nat, SpelledAt(text, q, FlattenSeq(s))
  PROVE  SpelledAt(text, q + Len(FlattenSeq(SubSeq(s, 1, i - 1))), s[i])
<1> DEFINE L == Len(s)
           first(j) == FlattenSeq(SubSeq(s, 1, j))
           with == {n \in 0..L : SpelledAt(text, q, first(L - n))}
<1>1. L \in Nat /\ SubSeq(s, 1, L) = s
  OBVIOUS
<1>2. 0 \in with
  <2>1. L - 0 = L
    BY <1>1
  <2>2. first(L - 0) = FlattenSeq(s)
    BY <1>1, <2>1
  <2> HIDE DEF first, L
  <2> QED BY <1>1, <2>2
<1>3. \A j \in 1..L : first(j - 1) \in Seq(S) /\ first(j) = first(j - 1) \o s[j] /\ s[j] \in Seq(S)
  <2> TAKE j \in 1..L
  <2>1. j \in 1..Len(s) /\ s[j] \in Seq(S)
    OBVIOUS
  <2>2. /\ FlattenSeq(SubSeq(s, 1, j - 1)) \in Seq(S)
        /\ FlattenSeq(SubSeq(s, 1, j)) = FlattenSeq(SubSeq(s, 1, j - 1)) \o s[j]
    BY <2>1, FlattenMore
  <2> QED BY <2>1, <2>2
<1> HIDE DEF first, L
<1>4. ASSUME NEW j \in 1..L, SpelledAt(text, q, first(j))
      PROVE  SpelledAt(text, q, first(j - 1)) /\ SpelledAt(text, q + Len(first(j - 1)), s[j])
  BY <1>3, <1>4, SpelledConcat
<1>5. ASSUME NEW n \in 1..L, n - 1 \in with PROVE n \in with
  <2>1. L - (n - 1) \in 1..L /\ L - (n - 1) - 1 = L - n /\ n \in 0..L
    BY <1>1
  <2>2. SpelledAt(text, q, first(L - (n - 1)))
    BY <1>5
  <2>3. SpelledAt(text, q, first(L - (n - 1) - 1))
    BY <1>4, <2>1, <2>2
  <2> QED BY <2>1, <2>3
<1>6. \A n \in 0..L : n \in with
  <2> HIDE DEF with
  <2> QED BY <1>1, <1>2, <1>5, InductionUpTo
<1>7. i \in 1..L /\ L - i \in 0..L /\ L - (L - i) = i
  BY <1>1 DEF L
<1>8. SpelledAt(text, q, first(i))
  <2>1. L - i \in with
    BY <1>6, <1>7
  <2> QED BY <1>7, <2>1
<1>9. SpelledAt(text, q + Len(first(i - 1)), s[i])
  BY <1>4, <1>7, <1>8
<1> QED BY <1>9 DEF first

-----------------------------------------------------------------------------
(* All the attributes of a tag.                                            *)

\* What a sequence is.
LEMMA SequenceIs ==
  ASSUME NEW S, NEW s \in Seq(S)
  PROVE  Len(s) \in Nat /\ DOMAIN s = 1..Len(s) /\ \A i \in 1..Len(s) : s[i] \in S
OBVIOUS

\* And what its beginning is.
LEMMA BeginningIs ==
  ASSUME NEW S, NEW s \in Seq(S), NEW i \in 0..Len(s)
  PROVE  /\ SubSeq(s, 1, i) \in Seq(S) /\ Len(SubSeq(s, 1, i)) = i
         /\ DOMAIN SubSeq(s, 1, i) = 1..i
         /\ \A j \in 1..i : SubSeq(s, 1, i)[j] = s[j]
OBVIOUS

\* The texts of a list of attributes.
AttributeTexts(attrs) == [i \in DOMAIN attrs |-> AttributeText(attrs[i])]

\* The text of the first i attributes, and all of it.
LEMMA AttributeTextsAre ==
  ASSUME NEW attrs \in Seq(AttributeForm)
  PROVE  /\ AttributeTexts(attrs) \in Seq(Seq(Chars)) /\ Len(AttributeTexts(attrs)) = Len(attrs)
         /\ \A i \in 1..Len(attrs) : AttributeTexts(attrs)[i] = AttributeText(attrs[i])
         /\ AttributesText(attrs) = FlattenSeq(AttributeTexts(attrs))
         /\ \A i \in 0..Len(attrs) :
              AttributesText(SubSeq(attrs, 1, i)) = FlattenSeq(SubSeq(AttributeTexts(attrs), 1, i))
<1> DEFINE n == Len(attrs)
           texts == AttributeTexts(attrs)
<1>1. n \in Nat /\ DOMAIN attrs = 1..n /\ \A i \in 1..n : attrs[i] \in AttributeForm
  BY SequenceIs
<1>2. texts = [i \in 1..n |-> AttributeText(attrs[i])]
  BY <1>1 DEF AttributeTexts
<1> HIDE DEF texts
<1>3. \A i \in 1..n : AttributeText(attrs[i]) \in Seq(Chars)
  BY <1>1, AttributeSpelled
<1>4. /\ texts \in Seq(Seq(Chars)) /\ Len(texts) = n
      /\ \A i \in 1..n : texts[i] = AttributeText(attrs[i])
  <2> HIDE DEF n
  <2>1. texts \in [1..n -> Seq(Chars)]
    BY <1>2, <1>3
  <2>2. texts \in Seq(Seq(Chars)) /\ Len(texts) = n
    BY <1>1, <2>1
  <2> QED BY <1>2, <2>2
<1>5. AttributesText(attrs) = FlattenSeq(texts)
  BY DEF AttributesText, texts, AttributeTexts
<1>6. ASSUME NEW i \in 0..n
      PROVE  AttributesText(SubSeq(attrs, 1, i)) = FlattenSeq(SubSeq(texts, 1, i))
  <2> DEFINE first == SubSeq(attrs, 1, i)
             part == SubSeq(texts, 1, i)
  <2>1. DOMAIN first = 1..i /\ \A j \in 1..i : first[j] = attrs[j]
    BY BeginningIs
  <2>2. i \in 0..Len(texts) /\ \A j \in 1..i : j \in 1..n
    <3> HIDE DEF n
    <3> QED BY <1>1, <1>4
  <2>3. /\ part \in Seq(Seq(Chars)) /\ DOMAIN part = 1..i
        /\ \A j \in 1..i : part[j] = texts[j]
    BY <1>4, <2>2, BeginningIs
  <2>4. part = [j \in DOMAIN part |-> part[j]]
    <3> HIDE DEF part
    <3> QED BY <2>3
  <2>5. \A j \in 1..i : part[j] = AttributeText(first[j])
    <3> HIDE DEF first, part, n
    <3> QED BY <1>4, <2>1, <2>2, <2>3
  <2> HIDE DEF first, part
  <2>6. [j \in DOMAIN first |-> AttributeText(first[j])] = part
    BY <2>1, <2>3, <2>4, <2>5
  <2>7. AttributesText(first) = FlattenSeq(part)
    BY <2>6 DEF AttributesText
  <2> QED BY <2>7 DEF first, part
<1> QED BY <1>4, <1>5, <1>6 DEF texts

\* Where the attributes of a list are.
LEMMA AttributesAre ==
  ASSUME NEW attrs \in Seq(AttributeForm), NEW from \in Nat, 0 < from
  PROVE  /\ AttributesAt(attrs, from) \in Attributes /\ Len(AttributesAt(attrs, from)) = Len(attrs)
         /\ \A i \in 1..Len(attrs) :
              AttributesAt(attrs, from)[i] =
                AttributeAt(attrs[i], from + Len(FlattenSeq(SubSeq(AttributeTexts(attrs), 1, i - 1))))
<1> DEFINE n == Len(attrs)
           before(i) == Len(FlattenSeq(SubSeq(AttributeTexts(attrs), 1, i - 1)))
           at == AttributesAt(attrs, from)
<1>1. n \in Nat /\ DOMAIN attrs = 1..n /\ \A i \in 1..n : attrs[i] \in AttributeForm
  BY SequenceIs
<1>2. \A i \in 1..n : at[i] = AttributeAt(attrs[i], from + before(i))
  <2> TAKE i \in 1..n
  <2>1. i - 1 \in 0..n
    <3> HIDE DEF n
    <3> QED BY <1>1
  <2>2. AttributesText(SubSeq(attrs, 1, i - 1)) = FlattenSeq(SubSeq(AttributeTexts(attrs), 1, i - 1))
    <3> HIDE DEF before
    <3> QED BY <2>1, AttributeTextsAre
  <2>3. Len(AttributesText(SubSeq(attrs, 1, i - 1))) = before(i)
    BY <2>2
  <2> HIDE DEF before
  <2>4. i \in DOMAIN attrs
    BY <1>1
  <2>5. at[i] = [name  |-> Span(from + before(i) + Len(attrs[i].space), Len(attrs[i].key)),
                 value |-> Span(from + before(i) + Len(attrs[i].space) + Len(attrs[i].key) + 1
                                  + Len(attrs[i].gap) + 1, Len(attrs[i].value))]
    BY <2>3, <2>4 DEF AttributesAt
  <2> QED BY <2>5 DEF AttributeAt
<1>3. ASSUME NEW i \in 1..n PROVE before(i) \in Nat
  <2>1. AttributeTexts(attrs) \in Seq(Seq(Chars)) /\ Len(AttributeTexts(attrs)) = n
    BY AttributeTextsAre
  <2>2. i \in 1..Len(AttributeTexts(attrs))
    BY <2>1
  <2>3. FlattenSeq(SubSeq(AttributeTexts(attrs), 1, i - 1)) \in Seq(Chars)
    BY <2>1, <2>2, FlattenMore
  <2> QED BY <2>3, SequenceIs
<1>4. ASSUME NEW a \in AttributeForm, NEW b \in Nat
      PROVE  AttributeAt(a, b) \in [name : Seq(Nat), value : Seq(Nat)]
  <2>1. Len(a.space) \in Nat /\ Len(a.key) \in Nat /\ Len(a.gap) \in Nat /\ Len(a.value) \in Nat
    BY AttributeSpelled
  <2> DEFINE keyAt == b + Len(a.space)
             valueAt == b + Len(a.space) + Len(a.key) + 1 + Len(a.gap) + 1
  <2>2. keyAt \in Nat /\ valueAt \in Nat
    <3> DEFINE x == Len(a.space)
               y == Len(a.key)
               z == Len(a.gap)
    <3> HIDE DEF x, y, z
    <3>1. x \in Nat /\ y \in Nat /\ z \in Nat
      BY <2>1 DEF x, y, z
    <3>2. b + x \in Nat /\ b + x + y + 1 + z + 1 \in Nat
      BY <3>1
    <3> QED BY <3>2 DEF x, y, z
  <2> HIDE DEF keyAt, valueAt
  <2>3. Span(keyAt, Len(a.key)) \in Seq(Nat) /\ Span(valueAt, Len(a.value)) \in Seq(Nat)
    BY <2>1, <2>2, SpanMore
  <2> QED BY <2>3 DEF AttributeAt, keyAt, valueAt
<1>5. at = [i \in 1..n |-> at[i]]
  BY <1>1 DEF AttributesAt
<1> HIDE DEF at, before, n
<1>6. \A i \in 1..n : at[i] \in [name : Seq(Nat), value : Seq(Nat)]
  <2> TAKE i \in 1..n
  <2>1. from + before(i) \in Nat /\ attrs[i] \in AttributeForm
    <3>1. before(i) \in Nat
      BY <1>3
    <3> QED BY <1>1, <3>1
  <2> QED BY <1>2, <1>4, <2>1
<1>7. at \in Attributes /\ Len(at) = n
  <2>1. at \in [1..n -> [name : Seq(Nat), value : Seq(Nat)]]
    BY <1>5, <1>6
  <2> DEFINE T == [name : Seq(Nat), value : Seq(Nat)]
  <2>2. at \in Seq(T) /\ Len(at) = n
    <3> HIDE DEF T
    <3>1. at \in [1..n -> T]
      BY <2>1 DEF T
    <3> QED BY <1>1, <3>1
  <2> QED BY <2>2 DEF Attributes
<1> QED BY <1>2, <1>7 DEF at, before, n

(***************************************************************************)
(* The attributes are read one after the other, each reported where it is. *)
(***************************************************************************)
LEMMA AttributesRead ==
  ASSUME NEW text \in Seq(Chars), NEW f, Reads(f, text), NEW q \in Nat, 0 < q,
         text[q] \in LeftTrims, NEW attrs \in Seq(AttributeForm),
         \A i \in 1..Len(attrs) : PlainAttribute(attrs[i]),
         SpelledAt(text, q, AttributesText(attrs)), NEW size, size = Len(AttributesText(attrs)),
         NEW nm, NEW k, NEW c \in Seq(Calls), Reached(f[q], "attrs", q, nm, k, <<>>, c)
  PROVE  /\ size \in Nat
         /\ Reached(f[q + size], "attrs", q + size, nm, k, AttributesAt(attrs, q + 1), c)
<1> DEFINE n == Len(attrs)
           texts == AttributeTexts(attrs)
           at == AttributesAt(attrs, q + 1)
           before(i) == Len(FlattenSeq(SubSeq(texts, 1, i)))
           there(i) == q + before(i)
           with == {i \in 0..n : /\ text[there(i)] \in LeftTrims
                                 /\ Reached(f[there(i)], "attrs", there(i), nm, k, SubSeq(at, 1, i), c)}
<1>1. n \in Nat /\ \A i \in 1..n : attrs[i] \in AttributeForm /\ PlainAttribute(attrs[i])
  BY SequenceIs
<1>2. /\ texts \in Seq(Seq(Chars)) /\ Len(texts) = n
      /\ \A i \in 1..n : texts[i] = AttributeText(attrs[i])
      /\ AttributesText(attrs) = FlattenSeq(texts)
  BY AttributeTextsAre
<1>3. /\ at \in Attributes /\ Len(at) = n
      /\ \A i \in 1..n : at[i] = AttributeAt(attrs[i], q + 1 + before(i - 1))
  <2>1. q + 1 \in Nat /\ 0 < q + 1
    OBVIOUS
  <2> QED BY <2>1, AttributesAre
<1> HIDE DEF n, texts, at
<1>4. ASSUME NEW i \in 1..n
      PROVE  /\ before(i - 1) \in Nat /\ before(i) = before(i - 1) + Len(texts[i])
             /\ Len(texts[i]) \in Nat
             /\ SpelledAt(text, there(i - 1), texts[i])
  <2>1. i \in 1..Len(texts) /\ texts[i] \in Seq(Chars)
    BY <1>2, SequenceIs
  <2> DEFINE u == FlattenSeq(SubSeq(texts, 1, i - 1))
  <2>2. u \in Seq(Chars) /\ FlattenSeq(SubSeq(texts, 1, i)) = u \o texts[i]
    BY <1>2, <2>1, FlattenMore
  <2>3. SpelledAt(text, q, FlattenSeq(texts)) /\ Len(text) \in Nat
    BY <1>2, SequenceIs
  <2>4. SpelledAt(text, q + Len(u), texts[i])
    BY <1>2, <2>1, <2>3, PartSpelled
  <2> HIDE DEF u
  <2>5. Len(u) \in Nat /\ Len(texts[i]) \in Nat /\ Len(u \o texts[i]) = Len(u) + Len(texts[i])
    BY <2>1, <2>2, ConcatProperties, SequenceIs
  <2> QED BY <2>2, <2>4, <2>5 DEF u
<1>5. before(0) = 0 /\ FlattenSeq(SubSeq(texts, 1, n)) = FlattenSeq(texts)
  <2>1. SubSeq(texts, 1, 0) = <<>> /\ SubSeq(texts, 1, n) = texts
    BY <1>1, <1>2
  <2>2. FlattenSeq(<<>>) = <<>>
    BY DEF FlattenSeq
  <2>3. before(0) = Len(<<>>)
    BY <2>1, <2>2
  <2>4. Len(<<>>) = 0
    OBVIOUS
  <2> HIDE DEF before
  <2> QED BY <2>1, <2>3, <2>4
<1>6. size = before(n)
  BY <1>2, <1>5
<1> HIDE DEF before
<1>7. 0 \in with
  <2>1. SubSeq(at, 1, 0) = <<>>
    BY <1>3 DEF Attributes
  <2>2. there(0) = q /\ 0 \in 0..n
    BY <1>1, <1>5
  <2> HIDE DEF there
  <2>3. text[there(0)] \in LeftTrims
    BY <2>2
  <2>4. Reached(f[there(0)], "attrs", there(0), nm, k, SubSeq(at, 1, 0), c)
    BY <2>1, <2>2
  <2> QED BY ONLY <2>2, <2>3, <2>4 DEF with
<1>8. ASSUME NEW i \in 1..n, i - 1 \in with PROVE i \in with
  <2> DEFINE e == there(i - 1)
             w == Len(texts[i])
             old == SubSeq(at, 1, i - 1)
  <2>1. e \in Nat /\ 0 < e /\ w \in Nat /\ there(i) = e + w /\ q + 1 + before(i - 1) = e + 1
    <3>1. before(i - 1) \in Nat /\ before(i) = before(i - 1) + w /\ w \in Nat
      BY <1>4
    <3> HIDE DEF w
    <3> QED BY ONLY <3>1, q \in Nat, 0 < q
  <2>2. text[e] \in LeftTrims /\ Reached(f[e], "attrs", e, nm, k, old, c)
    BY <1>8
  <2>3. attrs[i] \in AttributeForm /\ PlainAttribute(attrs[i])
    BY <1>1
  <2>4. texts[i] = AttributeText(attrs[i])
    BY <1>2
  <2>5. SpelledAt(text, e, AttributeText(attrs[i])) /\ w = Len(AttributeText(attrs[i]))
    BY <1>4, <2>4
  <2>6. at[i] = AttributeAt(attrs[i], e + 1)
    <3>1. at[i] = AttributeAt(attrs[i], q + 1 + before(i - 1))
      BY <1>3
    <3> HIDE DEF there
    <3> QED BY <2>1, <3>1
  <2> HIDE DEF e, w
  <2>7. /\ text[e + w] \in LeftTrims
        /\ Reached(f[e + w], "attrs", e + w, nm, k, Append(old, AttributeAt(attrs[i], e + 1)), c)
    BY <2>1, <2>2, <2>3, <2>5, AttributeRead
  <2>8. SubSeq(at, 1, i) = Append(old, at[i])
    <3>1. i \in 1..Len(at)
      BY <1>1, <1>3
    <3> DEFINE T == [name : Seq(Nat), value : Seq(Nat)]
    <3>2. at \in Seq(T)
      BY <1>3 DEF Attributes
    <3> HIDE DEF T
    <3> QED BY <3>1, <3>2, SubSeqLast
  <2>9. i \in 0..n
    BY <1>1
  <2> HIDE DEF there, old
  <2> QED BY <2>1, <2>6, <2>7, <2>8, <2>9
<1>9. n \in with
  <2>1. \A i \in 1..n : i - 1 \in with => i \in with
    BY <1>8
  <2>2. n \in 0..n
    BY <1>1
  <2> HIDE DEF with
  <2> QED BY <1>1, <1>7, <2>1, <2>2, InductionUpTo
<1>10. SubSeq(at, 1, n) = at
  <2> DEFINE T == [name : Seq(Nat), value : Seq(Nat)]
  <2>1. at \in Seq(T)
    BY <1>3 DEF Attributes
  <2> HIDE DEF T
  <2> QED BY <1>3, <2>1
<1>11. size \in Nat
  <2>1. CASE n = 0
    BY <1>5, <1>6, <2>1
  <2>2. CASE n # 0
    <3>1. n \in 1..n
      BY <1>1, <2>2
    <3>2. before(n - 1) \in Nat /\ before(n) = before(n - 1) + Len(texts[n]) /\ Len(texts[n]) \in Nat
      BY <1>4, <3>1
    <3> QED BY <1>6, <3>2
  <2> QED BY <2>1, <2>2
<1> QED BY <1>6, <1>9, <1>10, <1>11 DEF at

-----------------------------------------------------------------------------
(* The other lexemes.                                                      *)

\* The text of a tag up to the end of its attributes.
LEMMA AttributedIs ==
  ASSUME NEW name, Named(name), NEW attrs \in Seq(AttributeForm)
  PROVE  HeadText(name) \o One(Blank) \o AttributesText(attrs) \in Seq(Chars)
<1>1. HeadText(name) \in Seq(Chars) /\ Blank \in Chars
  BY HeadIs DEF Blank, Chars
<1>2. HeadText(name) \o One(Blank) \in Seq(Chars)
  BY <1>1, CharMore
<1> DEFINE texts == AttributeTexts(attrs)
<1>3. texts \in Seq(Seq(Chars)) /\ AttributesText(attrs) = FlattenSeq(texts)
  BY AttributeTextsAre
<1> HIDE DEF texts
<1>4. AttributesText(attrs) \in Seq(Chars)
  BY <1>3, FlattenAppend, ConcatEmptySeq
<1> QED BY <1>2, <1>4, ConcatProperties

\* A tag up to the end of its attributes.
LEMMA AttributedRead ==
  ASSUME NEW text \in Seq(Chars), NEW f, Reads(f, text), NEW q \in Nat,
         NEW name, Named(name), NEW attrs \in Seq(AttributeForm),
         \A i \in 1..Len(attrs) : PlainAttribute(attrs[i]),
         NEW u, u = HeadText(name) \o One(Blank) \o AttributesText(attrs), SpelledAt(text, q, u),
         NEW c \in Seq(Calls), Between(f[q], c), NEW k
  PROVE  /\ u \in Seq(Chars)
         /\ Reached(f[q + Len(u)], "attrs", q + Len(u), Span(q + 2, 4 + Len(name)), k,
                    AttributesAt(attrs, q + 7 + Len(name)), c)
         /\ Cut(text, Span(q + 2, 4 + Len(name))) = Span(q + 2, 4 + Len(name))
<1> DEFINE n == Len(name)
           head == HeadText(name)
           v == head \o One(Blank)
           w == AttributesText(attrs)
           r == q + 5 + n
<1>1. head \in Seq(Chars) /\ Len(head) = 5 + n /\ n \in Nat /\ Len(text) \in Nat
  BY HeadIs, SequenceIs
<1>2. Blank \in Chars
  BY DEF Blank, Chars
<1>3. w \in Seq(Chars)
  <2> DEFINE texts == AttributeTexts(attrs)
  <2>1. texts \in Seq(Seq(Chars)) /\ w = FlattenSeq(texts)
    BY AttributeTextsAre
  <2> HIDE DEF texts
  <2> QED BY <2>1, FlattenAppend, ConcatEmptySeq
<1> HIDE DEF n, head, w
<1>4. v \in Seq(Chars) /\ Len(v) = Len(head) + 1
  BY <1>1, <1>2, CharMore
<1> HIDE DEF v
<1>5. u = v \o w
  BY DEF v, w, head
<1>6. u \in Seq(Chars) /\ Len(u) = Len(v) + Len(w) /\ Len(w) \in Nat
  BY <1>3, <1>4, <1>5, ConcatProperties, SequenceIs
<1>7. SpelledAt(text, q, v) /\ SpelledAt(text, q + Len(v), w)
  <2>1. SpelledAt(text, q, v \o w)
    BY <1>5
  <2> QED BY <1>1, <1>3, <1>4, <2>1, SpelledConcat
<1>8. SpelledAt(text, q, head) /\ q + Len(head) < Len(text) /\ text[q + Len(head) + 1] = Blank
  <2>1. SpelledAt(text, q, head \o One(Blank))
    BY <1>7 DEF v
  <2>2. head \in Seq(Chars) /\ Blank \in Chars /\ Len(text) \in Nat
    BY <1>1, <1>2
  <2> QED BY ONLY <2>1, <2>2, q \in Nat, SpelledMore
<1>9. /\ q + Len(head) = r /\ q + Len(v) = r + 1 /\ r \in 0..(Len(text) - 1) /\ r \in Nat
      /\ q + Len(u) = r + 1 + Len(w) /\ r - (q + 1 + 1) + 1 = 4 + n /\ q + 1 + 1 = q + 2
      /\ q + 7 + n = r + 1 + 1
  BY <1>1, <1>4, <1>6, <1>8
<1>10. Reached(f[r], "name", q + 1, <<>>, k, <<>>, c)
  BY <1>1, <1>8, HeadRead DEF head, n
<1> HIDE DEF r
<1>11. Reached(f[r + 1], "attrs", r + 1, Span(q + 2, 4 + n), k, <<>>, c)
  <2>1. text[r + 1] = Blank
    BY <1>8, <1>9
  <2>2. Reached(f[r + 1], "attrs", r + 1, Span(q + 1 + 1, r - (q + 1 + 1) + 1), k, <<>>, c)
    BY <1>1, <1>9, <1>10, <2>1, StartTagRead
  <2> QED BY <1>9, <2>2
<1>12. Reached(f[r + 1 + Len(w)], "attrs", r + 1 + Len(w), Span(q + 2, 4 + n), k,
               AttributesAt(attrs, r + 1 + 1), c)
  <2> DEFINE e == r + 1
  <2>1. e \in Nat /\ 0 < e
    BY <1>9
  <2>2. text[e] \in LeftTrims
    BY <1>8, <1>9, NotTrimmed
  <2>3. SpelledAt(text, e, AttributesText(attrs)) /\ Len(w) = Len(AttributesText(attrs))
    BY <1>7, <1>9 DEF w
  <2>4. Reached(f[e], "attrs", e, Span(q + 2, 4 + n), k, <<>>, c)
    BY <1>11
  <2> HIDE DEF e
  <2>5. Reached(f[e + Len(w)], "attrs", e + Len(w), Span(q + 2, 4 + n), k,
                AttributesAt(attrs, e + 1), c)
    BY <2>1, <2>2, <2>3, <2>4, AttributesRead
  <2> QED BY <2>5 DEF e
<1>13. Cut(text, Span(q + 2, 4 + n)) = Span(q + 2, 4 + n)
  <2>1. SpelledAt(text, q + 1, Esi) /\ SpelledAt(text, q + 1 + 4, name)
    BY <1>1, <1>8, HeadSpelled DEF head
  <2>2. q + 1 \in Nat
    OBVIOUS
  <2>3. Cut(text, Span(q + 1 + 1, 4 + n)) = Span(q + 1 + 1, 4 + n)
    BY <2>1, <2>2, NameCut DEF n
  <2> QED BY <1>9, <2>3
<1>14. Reached(f[q + Len(u)], "attrs", q + Len(u), Span(q + 2, 4 + n), k,
               AttributesAt(attrs, q + 7 + n), c)
  BY <1>9, <1>12
<1> QED BY <1>6, <1>13, <1>14 DEF n

\* A start tag with attributes.
LEMMA OpenLexemeRead ==
  ASSUME NEW text \in Seq(Chars), NEW f, Reads(f, text), NEW q \in Nat, NEW l,
         l.kind = "block_attributes", Named(l.name), l.attributes \in Seq(AttributeForm),
         \A i \in 1..Len(l.attributes) : PlainAttribute(l.attributes[i]),
         SpelledAt(text, q, LexemeText(l)), NEW c \in Seq(Calls), Between(f[q], c)
  PROVE  Between(f[q + Len(LexemeText(l))], c \o LexemeCalls(l, q + 1))
<1> DEFINE n == Len(l.name)
           u == HeadText(l.name) \o One(Blank) \o AttributesText(l.attributes)
           r == q + Len(u)
           name == Span(q + 2, 4 + n)
           attrs == AttributesAt(l.attributes, q + 7 + n)
<1>1. LexemeText(l) = u \o One(">")
  BY TagTexts
<1>2. n \in Nat /\ Len(text) \in Nat /\ ">" \in Chars
  BY SequenceIs DEF Named, Chars
<1>3. u \in Seq(Chars)
  BY AttributedIs
<1> HIDE DEF n
<1>4. SpelledAt(text, q, u) /\ r < Len(text) /\ text[r + 1] = ">"
  <2> HIDE DEF u
  <2>1. SpelledAt(text, q, u \o One(">"))
    BY <1>1
  <2> QED BY <1>2, <1>3, <2>1, SpelledMore
<1>5. Reached(f[r], "attrs", r, name, <<>>, attrs, c) /\ Cut(text, name) = name
  BY <1>4, AttributedRead DEF n
<1> HIDE DEF u
<1>6. r \in 0..(Len(text) - 1) /\ q + Len(LexemeText(l)) = r + 1
  <2>1. Len(u) \in Nat /\ Len(u \o One(">")) = Len(u) + 1
    BY <1>2, <1>3, CharMore, SequenceIs
  <2> DEFINE x == Len(u)
  <2> HIDE DEF x
  <2>2. x \in Nat /\ q + x < Len(text)
    BY <1>4, <2>1 DEF x
  <2>3. q + x \in 0..(Len(text) - 1) /\ q + (x + 1) = q + x + 1
    BY <1>2, <2>2
  <2> QED BY <1>1, <2>1, <2>3 DEF x
<1>7. LexemeCalls(l, q + 1) = <<StartTag(name, attrs)>>
  <2>1. q + 1 + 1 = q + 2 /\ q + 1 + 1 + (4 + n) + 1 = q + 7 + n
    BY <1>2
  <2>2. LexemeCalls(l, q + 1) =
          <<StartTag(Span(q + 1 + 1, 4 + n), AttributesAt(l.attributes, q + 1 + 1 + (4 + n) + 1))>>
    BY TagCalls DEF n
  <2> QED BY <2>1, <2>2
<1> HIDE DEF r, name, attrs
<1>8. Between(f[r + 1], c \o <<StartTag(Cut(text, name), attrs)>>)
  BY <1>2, <1>4, <1>5, <1>6, OpenRead
<1> QED BY <1>5, <1>6, <1>7, <1>8

\* A tag that ends itself.
LEMMA InlineLexemeRead ==
  ASSUME NEW text \in Seq(Chars), NEW f, Reads(f, text), NEW q \in Nat, NEW l,
         l.kind = "inline", Named(l.name), l.attributes \in Seq(AttributeForm),
         \A i \in 1..Len(l.attributes) : PlainAttribute(l.attributes[i]),
         SpelledAt(text, q, LexemeText(l)), NEW c \in Seq(Calls), Between(f[q], c)
  PROVE  Between(f[q + Len(LexemeText(l))], c \o LexemeCalls(l, q + 1))
<1> DEFINE n == Len(l.name)
           u == HeadText(l.name) \o One(Blank) \o AttributesText(l.attributes)
           end == <<"/", ">">>
           r == q + Len(u)
           name == Span(q + 2, 4 + n)
           attrs == AttributesAt(l.attributes, q + 7 + n)
<1>1. LexemeText(l) = u \o end
  BY TagTexts
<1>2. n \in Nat /\ Len(text) \in Nat
  BY SequenceIs DEF Named
<1>3. /\ u \in Seq(Chars)
      /\ end \in Seq(Chars) /\ Len(end) = 2 /\ end[1] = "/" /\ end[2] = ">"
  <2>1. u \in Seq(Chars)
    BY AttributedIs
  <2>2. "/" \in Chars /\ ">" \in Chars
    BY DEF Chars
  <2> HIDE DEF u
  <2> QED BY <2>1, <2>2
<1> HIDE DEF n, end
<1>4. SpelledAt(text, q, u) /\ SpelledAt(text, r, end)
  <2> HIDE DEF u
  <2>1. SpelledAt(text, q, u \o end)
    BY <1>1
  <2> QED BY <1>2, <1>3, <2>1, SpelledConcat
<1>5. Reached(f[r], "attrs", r, name, <<>>, attrs, c) /\ Cut(text, name) = name
  BY <1>4, AttributedRead DEF n
<1> HIDE DEF u
<1>6. r \in Nat /\ r + 2 <= Len(text) /\ q + Len(LexemeText(l)) = r + 2
  <2>1. Len(u) \in Nat /\ Len(u \o end) = Len(u) + Len(end)
    BY <1>3, ConcatProperties, SequenceIs
  <2>2. r + Len(end) <= Len(text)
    BY <1>4 DEF SpelledAt
  <2> DEFINE x == Len(u)
  <2> HIDE DEF x
  <2>3. x \in Nat /\ q + x + 2 <= Len(text)
    BY <1>3, <2>1, <2>2 DEF x
  <2>4. q + x \in Nat /\ q + (x + 2) = q + x + 2
    BY <2>3
  <2> QED BY <1>1, <1>3, <2>1, <2>3, <2>4 DEF x
<1>7. LexemeCalls(l, q + 1) = <<StartTag(name, attrs), EndTag(name)>>
  <2>1. q + 1 + 1 = q + 2 /\ q + 1 + 1 + (4 + n) + 1 = q + 7 + n
    BY <1>2
  <2>2. LexemeCalls(l, q + 1) =
          <<StartTag(Span(q + 1 + 1, 4 + n), AttributesAt(l.attributes, q + 1 + 1 + (4 + n) + 1)),
            EndTag(Span(q + 1 + 1, 4 + n))>>
    BY TagCalls DEF n
  <2> QED BY <2>1, <2>2
<1> HIDE DEF r, name, attrs
<1>8. text[r + 1] = "/" /\ text[r + 1 + 1] = ">"
  <2>1. 1 \in 1..Len(end) /\ 2 \in 1..Len(end) /\ r + 2 = r + 1 + 1
    BY <1>3, <1>6
  <2>2. \A j \in 1..Len(end) : text[r + j] = end[j]
    BY <1>4 DEF SpelledAt
  <2> QED BY <1>3, <2>1, <2>2
<1>9. r \in 0..(Len(text) - 1) /\ r + 1 \in 0..(Len(text) - 1) /\ r + 2 = r + 1 + 1
  BY <1>2, <1>6
<1>10. Reached(f[r + 1], "slash", r, name, <<>>, attrs, c)
  <2>1. EchoEdge("attrs", text[r + 1], "slash")
    BY <1>8 DEF EchoEdge, Edges, AttributeEdges
  <2> QED BY <1>2, <1>5, <1>9, <2>1, EchoRead
<1>11. Between(f[r + 1 + 1], c \o <<StartTag(Cut(text, name), attrs), EndTag(Cut(text, name))>>)
  BY <1>2, <1>8, <1>9, <1>10, InlineRead
<1> QED BY <1>5, <1>6, <1>7, <1>9, <1>11

\* An end tag.
LEMMA CloseLexemeRead ==
  ASSUME NEW text \in Seq(Chars), NEW f, Reads(f, text), NEW q \in Nat, NEW l,
         l.kind = "block_end", Named(l.name),
         SpelledAt(text, q, LexemeText(l)), NEW c \in Seq(Calls), Between(f[q], c)
  PROVE  Between(f[q + Len(LexemeText(l))], c \o LexemeCalls(l, q + 1))
<1> DEFINE n == Len(l.name)
           begin == <<"<", "/">>
           v == begin \o Esi
           u == v \o l.name
           r == q + 6 + n
<1>1. LexemeText(l) = u \o One(">")
  BY TagTexts
<1>2. /\ begin \in Seq(Chars) /\ Len(begin) = 2 /\ begin[1] = "<" /\ begin[2] = "/"
      /\ Esi \in Seq(Chars) /\ Len(Esi) = 4 /\ ">" \in Chars
      /\ l.name \in Seq(Chars) /\ n \in Nat /\ Len(text) \in Nat
  <2>1. "/" \in Chars /\ "<" \in Chars /\ ">" \in Chars
    BY DEF Chars
  <2>2. begin \in Seq(Chars) /\ Len(begin) = 2 /\ begin[1] = "<" /\ begin[2] = "/"
    BY <2>1
  <2>3. Esi \in Seq(Chars) /\ Len(Esi) = 4 /\ l.name \in Seq(Chars) /\ n \in Nat
    BY HeadIs
  <2> QED BY <2>1, <2>2, <2>3, SequenceIs
<1>3. v \in Seq(Chars) /\ Len(v) = 6
  <2>1. v \in Seq(Chars) /\ Len(v) = Len(begin) + Len(Esi)
    BY <1>2, ConcatProperties
  <2> HIDE DEF v, begin
  <2> QED BY <1>2, <2>1
<1> HIDE DEF n, begin
<1>4. u \in Seq(Chars) /\ Len(u) = 6 + n
  <2> DEFINE name == l.name
  <2>1. name \in Seq(Chars) /\ Len(name) = n
    BY <1>2 DEF n
  <2> HIDE DEF v, name
  <2>2. v \o name \in Seq(Chars) /\ Len(v \o name) = Len(v) + Len(name)
    BY <1>3, <2>1, ConcatProperties
  <2>3. Len(v \o name) = 6 + n
    BY <1>3, <2>1, <2>2
  <2> QED BY <2>2, <2>3 DEF name
<1>5. SpelledAt(text, q, u) /\ q + Len(u) < Len(text) /\ text[q + Len(u) + 1] = ">"
  <2> HIDE DEF u
  <2>1. SpelledAt(text, q, u \o One(">")) /\ u \in Seq(Chars) /\ ">" \in Chars /\ Len(text) \in Nat
    BY <1>1, <1>2, <1>4
  <2> QED BY <2>1, SpelledMore
<1>6. SpelledAt(text, q, v) /\ SpelledAt(text, q + 6, l.name)
  <2> HIDE DEF v
  <2>1. SpelledAt(text, q, v) /\ SpelledAt(text, q + Len(v), l.name)
    BY <1>2, <1>3, <1>5, SpelledConcat
  <2> QED BY <1>3, <2>1
<1>7. SpelledAt(text, q, begin) /\ SpelledAt(text, q + 2, Esi)
  <2>1. SpelledAt(text, q, begin) /\ SpelledAt(text, q + Len(begin), Esi)
    BY <1>2, <1>6, SpelledConcat
  <2> QED BY <1>2, <2>1
<1> HIDE DEF u, v
<1>8. /\ r \in 0..(Len(text) - 1) /\ text[r + 1] = ">" /\ q + Len(LexemeText(l)) = r + 1
      /\ r = q + 2 + 4 + n
  <2>1. Len(LexemeText(l)) = 6 + n + 1
    BY <1>1, <1>2, <1>4, CharMore
  <2>2. q + (6 + n) = r /\ q + (6 + n + 1) = r + 1 /\ r \in Nat /\ r = q + 2 + 4 + n
    BY <1>2
  <2>3. r < Len(text) /\ text[r + 1] = ">"
    BY <1>4, <1>5, <2>2
  <2> HIDE DEF r
  <2> QED BY <1>2, <2>1, <2>2, <2>3
<1>9. text[q + 1] = "<" /\ text[q + 1 + 1] = "/" /\ q + 2 <= Len(text)
  <2>1. 1 \in 1..Len(begin) /\ 2 \in 1..Len(begin) /\ q + 2 = q + 1 + 1
    BY <1>2
  <2>2. q + Len(begin) <= Len(text) /\ \A j \in 1..Len(begin) : text[q + j] = begin[j]
    BY <1>7 DEF SpelledAt
  <2> QED BY <1>2, <2>1, <2>2
<1>10. /\ q \in 0..(Len(text) - 1) /\ q + 1 \in 0..(Len(text) - 1) /\ q + 2 = q + 1 + 1
       /\ q + 6 = q + 2 + 4 /\ q + 2 \in Nat
  BY <1>2, <1>9
<1>11. Reached(f[q + 1], "lt", q + 1, <<>>, <<>>, <<>>, c)
  BY <1>2, <1>9, <1>10, BeginRead
<1>12. Reached(f[q + 2], "close", q + 1, <<>>, <<>>, <<>>, c)
  <2>1. EchoEdge("lt", text[q + 1 + 1], "close")
    BY <1>9 DEF EchoEdge, Edges, TagEdges
  <2>2. Reached(f[q + 1 + 1], "close", q + 1, <<>>, <<>>, <<>>, c)
    BY <1>2, <1>10, <1>11, <2>1, EchoRead
  <2> QED BY <1>10, <2>2
<1>13. Reached(f[r], "close_name", q + 1, <<>>, <<>>, <<>>, c)
  <2> DEFINE e == q + 2
  <2>1. EsiStages(TRUE)[1] = "close" /\ NameStage(TRUE) = "close_name"
    BY DEF EsiStages, NameStage
  <2>2. SpelledAt(text, e, Esi) /\ SpelledAt(text, e + 4, l.name) /\ e \in Nat
    BY <1>6, <1>7, <1>10
  <2>3. Reached(f[e], EsiStages(TRUE)[1], q + 1, <<>>, <<>>, <<>>, c)
    BY <1>12, <2>1
  <2>4. r = e + 4 + n
    BY <1>8
  <2> HIDE DEF e, r
  <2>5. Reached(f[e + 4 + Len(l.name)], NameStage(TRUE), q + 1, <<>>, <<>>, <<>>, c)
    BY <1>2, <2>2, <2>3, NameRead
  <2> QED BY <2>1, <2>4, <2>5 DEF n
<1>14. Marked(text, q + 1, 2, r) = Span(q + 3, 4 + n)
  <2> DEFINE e == q + 2
  <2>1. SpelledAt(text, e, Esi) /\ SpelledAt(text, e + 4, l.name) /\ e \in Nat
    BY <1>6, <1>7, <1>10
  <2>2. e + 1 = q + 3 /\ q + 1 + 2 = q + 3 /\ r - (q + 3) + 1 = 4 + n
    BY <1>2
  <2> HIDE DEF e, r
  <2>3. Cut(text, Span(e + 1, 4 + n)) = Span(e + 1, 4 + n)
    BY <2>1, NameCut DEF n
  <2> QED BY <2>2, <2>3 DEF Marked
<1>15. LexemeCalls(l, q + 1) = <<EndTag(Span(q + 3, 4 + n))>>
  <2>1. q + 1 + 2 = q + 3
    OBVIOUS
  <2>2. LexemeCalls(l, q + 1) = <<EndTag(Span(q + 1 + 2, 4 + n))>>
    BY TagCalls DEF n
  <2> QED BY <2>1, <2>2
<1>16. Between(f[r + 1], c \o <<EndTag(Marked(text, q + 1, 2, r))>>)
  <2> HIDE DEF r
  <2> QED BY <1>2, <1>8, <1>13, BlockEndRead
<1> QED BY <1>8, <1>14, <1>15, <1>16

\* Text after a tag is read as text after text, and so is that at the start.
LEMMA TextStep ==
  ASSUME NEW s \in {Start, Text, Tag("final")}, NEW ch
  PROVE  s \in Quiet /\ StepOf(s, ch) = StepOf(Text, ch)
<1>1. s.in = {} /\ s.at \in {"start", "text", "final"} /\ s \in States
  BY DEF Start, Text, Tag, States, Stages
<1>2. Advance(s.at, ch) = "text" /\ Advance("text", ch) = "text"
  BY <1>1, NoEdges
<1>3. InAfter(s, ch) = {} /\ InAfter(Text, ch) = {}
  BY <1>1 DEF InAfter, Text
<1>4. AtAfter(s, ch) = AtAfter(Text, ch)
  BY <1>1, <1>2 DEF AtAfter, Text
<1>5. s \in Quiet
  BY <1>1 DEF Quiet
<1> QED BY <1>3, <1>4, <1>5 DEF StepOf

\* Text that holds no start of a tag is sent, every byte of it.
LEMMA TextRead ==
  ASSUME NEW text \in Seq(Chars), NEW f, Reads(f, text), NEW q \in Nat,
         NEW w \in Seq(Chars), ~ ScanForStart(w), SpelledAt(text, q, w),
         NEW c \in Seq(Calls), Between(f[q], c)
  PROVE  Between(f[q + Len(w)], c \o Outputs(Span(q + 1, Len(w))))
<1> DEFINE n == Len(w)
<1>1. /\ n \in Nat /\ Len(text) \in Nat /\ q + n <= Len(text)
      /\ \A j \in 1..n : text[q + j] = w[j]
  BY SequenceIs DEF SpelledAt
<1>2. f[q].cs \in {Start, Text, Tag("final")} /\ f[q].pending = <<>> /\ f[q].attributes = <<>>
      /\ f[q].calls = c
  BY DEF Between
<1>3. Outputs(<<>>) = <<>> /\ \A d \in Seq(Calls) : d \o <<>> = d
  BY ConcatEmptySeq DEF Outputs
<1> HIDE DEF n
<1>4. CASE n = 0
  <2>1. Span(q + 1, n) = <<>> /\ q + n = q
    BY <1>4 DEF Span
  <2>2. c \o Outputs(Span(q + 1, n)) = c
    BY <1>3, <2>1
  <2> QED BY <2>1, <2>2 DEF n
<1>5. CASE n # 0
  <2> DEFINE g(j) == IF j = 0 THEN Text ELSE f[q + j].cs
             with == {j \in 0..n : Scanning(w, j, g(j))}
  <2>1. 0 \in with
    <3>1. Scanning(w, 0, Text)
      BY DEF Scanning, Text, States, Stages
    <3> QED BY <1>1, <3>1
  <2>2. ASSUME NEW j \in 1..n, j - 1 \in with PROVE j \in with
    <3> DEFINE r == q + (j - 1)
    <3>1. r \in 0..(Len(text) - 1) /\ r + 1 = q + j /\ text[q + j] = w[j] /\ j \in 0..n /\ j # 0
      BY <1>1
    <3>2. f[q + j].cs = StepOf(f[r].cs, w[j])
      <4> HIDE DEF r
      <4>1. f[q + j] = Taken(text, f[r], r)
        BY <1>1, <3>1, ReadByte
      <4> QED BY <3>1, <4>1 DEF Taken, TakenAs
    <3>3. StepOf(f[r].cs, w[j]) = StepOf(g(j - 1), w[j])
      <4>1. CASE j = 1
        <5>1. r = q /\ g(j - 1) = Text
          BY <4>1
        <5> HIDE DEF r, g
        <5> QED BY <1>2, <5>1, TextStep
      <4>2. CASE j # 1
        BY <4>2
      <4> QED BY <4>1, <4>2
    <3>4. Scanning(w, j - 1, g(j - 1))
      BY <2>2
    <3>5. g(j) = f[q + j].cs
      BY <3>1
    <3> HIDE DEF g, r
    <3>6. Scanning(w, j, StepOf(g(j - 1), w[j]))
      BY <3>4, ScanningStep DEF n
    <3> QED BY <3>1, <3>2, <3>3, <3>5, <3>6
  <2>3. \A j \in 0..n : Scanning(w, j, g(j))
    <3>1. \A j \in 1..n : j - 1 \in with => j \in with
      BY <2>2
    <3>2. \A j \in 0..n : j \in with
      <4> HIDE DEF with
      <4> QED BY <1>1, <2>1, <3>1, InductionUpTo
    <3> QED BY <3>2
  <2>4. \A j \in 0..(n - 1) : f[q + j].cs \in Quiet
    <3> TAKE j \in 0..(n - 1)
    <3>1. CASE j = 0
      <4>1. q + j = q
        BY <3>1
      <4> QED BY <1>2, <4>1, TextStep
    <3>2. CASE j # 0
      <4>1. Scanning(w, j, f[q + j].cs)
        BY <1>1, <2>3, <3>2
      <4> QED BY <4>1 DEF Scanning, Quiet
    <3> QED BY <3>1, <3>2
  <2>5. f[q + n].cs = Text
    <3>1. Scanning(w, n, f[q + n].cs)
      BY <1>1, <1>5, <2>3
    <3> QED BY <3>1, ScanningEnd DEF n
  <2> HIDE DEF g
  <2>6. TextSent(f[q + n], f[q], q, n)
    <3>1. \A j \in 0..n : TextSent(f[q + j], f[q], q, j)
      BY <1>1, <1>2, <2>4, QuietRead
    <3>2. n \in 0..n
      BY <1>1
    <3> QED BY <3>1, <3>2
  <2>7. f[q + n].pending = <<>>
    <3>1. q + n \in 1..Len(text)
      BY <1>1, <1>5
    <3> QED BY <1>1, <2>5, <3>1, TextKnown
  <2>8. f[q + n].calls = c \o Outputs(Span(q + 1, n)) /\ f[q + n].attributes = <<>>
    BY <1>2, <1>3, <2>6, <2>7 DEF TextSent
  <2> QED BY <2>5, <2>7, <2>8 DEF Between, n
<1> QED BY <1>4, <1>5

\* A lexeme of a document that is told apart.
LEMMA LexemeParts ==
  ASSUME NEW l \in LexemeForm, PlainLexeme(l)
  PROVE  /\ l.kind \in {"text", "block_start", "block_end", "block_attributes", "inline"}
         /\ l.name \in Seq(Chars) /\ l.attributes \in Seq(AttributeForm)
         /\ l.kind = "text" => ~ ScanForStart(l.name)
         /\ l.kind # "text" => Named(l.name)
         /\ l.kind \notin {"block_attributes", "inline"} => l.attributes = <<>>
         /\ \A i \in 1..Len(l.attributes) : PlainAttribute(l.attributes[i])
<1>1. /\ l.kind \in {"text", "block_start", "block_end", "block_attributes", "inline"}
      /\ l.name \in Seq(Chars) /\ l.attributes \in Seq(AttributeForm)
  BY DEF LexemeForm
<1>2. DOMAIN l.name = 1..Len(l.name) /\ DOMAIN l.attributes = 1..Len(l.attributes)
  BY <1>1, SequenceIs
<1>3. l.kind # "text" => Named(l.name)
  <2>1. SUFFICES ASSUME l.kind # "text" PROVE Named(l.name)
    OBVIOUS
  <2> DEFINE name == l.name
  <2>2. name # <<>> /\ \A k \in 1..Len(name) : name[k] \in Letters
    BY <1>2, <2>1 DEF PlainLexeme
  <2>3. name \in Seq(Chars)
    BY <1>1
  <2> HIDE DEF name
  <2>4. name \in Seq(Letters)
    BY <2>2, <2>3
  <2> QED BY <2>2, <2>4 DEF Named, name
<1> QED BY <1>1, <1>2, <1>3 DEF PlainLexeme

\* It is read as a whole, the calls being those it stands for.
LEMMA LexemeRead ==
  ASSUME NEW text \in Seq(Chars), NEW f, Reads(f, text), NEW q \in Nat,
         NEW l \in LexemeForm, PlainLexeme(l), SpelledAt(text, q, LexemeText(l)),
         NEW c \in Seq(Calls), Between(f[q], c)
  PROVE  Between(f[q + Len(LexemeText(l))], c \o LexemeCalls(l, q + 1))
<1>1. /\ l.kind \in {"text", "block_start", "block_end", "block_attributes", "inline"}
      /\ l.name \in Seq(Chars) /\ l.attributes \in Seq(AttributeForm)
      /\ l.kind = "text" => ~ ScanForStart(l.name)
      /\ l.kind # "text" => Named(l.name)
      /\ l.kind \notin {"block_attributes", "inline"} => l.attributes = <<>>
      /\ \A i \in 1..Len(l.attributes) : PlainAttribute(l.attributes[i])
  BY LexemeParts
<1>2. CASE l.kind = "text"
  <2>1. LexemeText(l) = l.name /\ LexemeCalls(l, q + 1) = Outputs(Span(q + 1, Len(l.name)))
    BY <1>2, TagTexts, TagCalls
  <2>2. SpelledAt(text, q, l.name)
    BY <2>1
  <2>3. Between(f[q + Len(l.name)], c \o Outputs(Span(q + 1, Len(l.name))))
    BY <1>1, <1>2, <2>2, TextRead
  <2> QED BY <2>1, <2>3
<1>3. CASE l.kind = "block_start"
  <2>1. Named(l.name) /\ l.attributes = <<>>
    BY <1>1, <1>3
  <2> QED BY <1>3, <2>1, BlockStartLexeme
<1>4. CASE l.kind = "block_end"
  <2>1. Named(l.name)
    BY <1>1, <1>4
  <2> QED BY <1>4, <2>1, CloseLexemeRead
<1>5. CASE l.kind = "block_attributes"
  <2>1. Named(l.name)
    BY <1>1, <1>5
  <2> QED BY <1>1, <1>5, <2>1, OpenLexemeRead
<1>6. CASE l.kind = "inline"
  <2>1. Named(l.name)
    BY <1>1, <1>6
  <2> QED BY <1>1, <1>6, <2>1, InlineLexemeRead
<1> QED BY <1>1, <1>2, <1>3, <1>4, <1>5, <1>6

\* The text and the calls of a lexeme are what they should be.
LEMMA LexemeIs ==
  ASSUME NEW l \in LexemeForm, PlainLexeme(l), NEW from \in Nat, 0 < from
  PROVE  LexemeText(l) \in Seq(Chars) /\ LexemeCalls(l, from) \in Seq(Calls)
<1>1. /\ l.kind \in {"text", "block_start", "block_end", "block_attributes", "inline"}
      /\ l.name \in Seq(Chars) /\ l.attributes \in Seq(AttributeForm)
      /\ l.kind # "text" => Named(l.name)
  BY LexemeParts
<1> DEFINE size == 4 + Len(l.name)
           u == HeadText(l.name) \o One(Blank) \o AttributesText(l.attributes)
<1>2. l.name \in Seq(Chars) /\ Len(l.name) \in Nat
  BY <1>1, SequenceIs
<1>3. "/" \in Chars /\ "<" \in Chars /\ ">" \in Chars
  BY DEF Chars
<1>4. LexemeText(l) \in Seq(Chars)
  <2>1. CASE l.kind = "text"
    BY <1>1, <2>1, TagTexts
  <2>2. CASE l.kind = "block_start"
    <3>1. HeadText(l.name) \in Seq(Chars)
      BY <1>1, <2>2, HeadIs
    <3>2. HeadText(l.name) \o One(">") \in Seq(Chars)
      BY <1>3, <3>1, CharMore
    <3> QED BY <2>2, <3>2, TagTexts
  <2>3. CASE l.kind = "block_end"
    <3> DEFINE v == <<"<", "/">> \o Esi
               w == v \o l.name
    <3>1. Esi \in Seq(Chars) /\ <<"<", "/">> \in Seq(Chars)
      BY <1>1, <1>3, <2>3, HeadIs
    <3>2. v \in Seq(Chars)
      BY <3>1, ConcatProperties
    <3> HIDE DEF v
    <3>3. w \in Seq(Chars)
      BY <1>1, <3>2, ConcatProperties
    <3> HIDE DEF w
    <3>4. w \o One(">") \in Seq(Chars)
      BY <1>3, <3>3, CharMore
    <3> QED BY <2>3, <3>4, TagTexts DEF w, v
  <2>4. CASE l.kind \in {"block_attributes", "inline"}
    <3>1. u \in Seq(Chars)
      BY <1>1, <2>4, AttributedIs
    <3>2. LexemeText(l) = u \o One(">") \/ LexemeText(l) = u \o <<"/", ">">>
      BY <2>4, TagTexts
    <3> HIDE DEF u
    <3>3. u \o One(">") \in Seq(Chars)
      BY <1>3, <3>1, CharMore
    <3>4. <<"/", ">">> \in Seq(Chars)
      BY <1>3
    <3>5. u \o <<"/", ">">> \in Seq(Chars)
      BY <3>1, <3>4, ConcatProperties
    <3> QED BY <3>2, <3>3, <3>5
  <2> QED BY <1>1, <2>1, <2>2, <2>3, <2>4
<1>5. LexemeCalls(l, from) \in Seq(Calls)
  <2> DEFINE start == StartTag(Span(from + 1, size), AttributesAt(l.attributes, from + 1 + size + 1))
             end(at) == EndTag(Span(at, size))
  <2>1. size \in Nat /\ from + 1 + size + 1 \in Nat /\ 0 < from + 1 + size + 1
    <3> DEFINE x == Len(l.name)
    <3> HIDE DEF x
    <3>1. x \in Nat
      BY <1>2 DEF x
    <3>2. 4 + x \in Nat /\ from + 1 + (4 + x) + 1 \in Nat /\ 0 < from + 1 + (4 + x) + 1
      BY <3>1
    <3> QED BY <3>2 DEF x
  <2>2. AttributesAt(l.attributes, from + 1 + size + 1) \in Attributes
    <3> HIDE DEF size
    <3> QED BY <1>1, <2>1, AttributesAre
  <2>3. \A at \in Nat : Span(at, size) \in Seq(Nat)
    <3> HIDE DEF size
    <3> QED BY <2>1, SpanMore
  <2>4. <<>> \in Attributes
    BY DEF Attributes
  <2>5. start \in Calls
    <3>1. Span(from + 1, size) \in Seq(Nat)
      BY <2>3
    <3> HIDE DEF size
    <3> QED BY <2>2, <3>1 DEF StartTag, Call, Calls, Handlers
  <2>6. \A at \in Nat : end(at) \in Calls
    <3> HIDE DEF size
    <3> QED BY <2>3, <2>4 DEF EndTag, Call, Calls, Handlers
  <2>7. from + 1 \in Nat /\ from + 2 \in Nat
    OBVIOUS
  <2>8. CASE l.kind = "text"
    <3>1. Span(from, Len(l.name)) \in Seq(Nat)
      BY <1>2, SpanMore
    <3>2. Outputs(Span(from, Len(l.name))) \in Seq(Calls)
      BY <3>1, OutputsType
    <3> QED BY <2>8, <3>2, TagCalls
  <2>9. CASE l.kind = "block_end"
    <3>1. LexemeCalls(l, from) = <<end(from + 2)>>
      BY <2>9, TagCalls
    <3> HIDE DEF end
    <3> QED BY <2>6, <2>7, <3>1
  <2>10. CASE l.kind = "inline"
    <3>1. LexemeCalls(l, from) = <<start, end(from + 1)>>
      BY <2>10, TagCalls
    <3> HIDE DEF start, end
    <3> QED BY <2>5, <2>6, <2>7, <3>1
  <2>11. CASE l.kind \in {"block_start", "block_attributes"}
    <3>1. LexemeCalls(l, from) = <<start>>
      BY <2>11, TagCalls
    <3> HIDE DEF start
    <3> QED BY <2>5, <3>1
  <2> QED BY <1>1, <2>8, <2>9, <2>10, <2>11
<1> QED BY <1>4, <1>5

-----------------------------------------------------------------------------
(* Documents.                                                              *)

\* The texts and the calls of the lexemes.
LexemeTexts(lexemes) == [i \in DOMAIN lexemes |-> LexemeText(lexemes[i])]

CallLists(lexemes) ==
  [i \in DOMAIN lexemes |->
     LexemeCalls(lexemes[i], Len(DocumentText(SubSeq(lexemes, 1, i - 1))) + 1)]

\* The lexemes of a document that are told apart.
LEMMA LexemesAre ==
  ASSUME NEW lexemes, PlainDocument(lexemes)
  PROVE  /\ Len(lexemes) \in Nat /\ DOMAIN lexemes = 1..Len(lexemes)
         /\ \A i \in 1..Len(lexemes) : lexemes[i] \in LexemeForm /\ PlainLexeme(lexemes[i])
<1>1. lexemes \in Seq(LexemeForm)
  BY DEF PlainDocument
<1>2. /\ Len(lexemes) \in Nat /\ DOMAIN lexemes = 1..Len(lexemes)
      /\ \A i \in 1..Len(lexemes) : lexemes[i] \in LexemeForm
  BY <1>1, SequenceIs
<1> QED BY <1>2 DEF PlainDocument

\* The text of the first i lexemes, and all of it.
LEMMA LexemeTextsAre ==
  ASSUME NEW lexemes, PlainDocument(lexemes)
  PROVE  /\ LexemeTexts(lexemes) \in Seq(Seq(Chars)) /\ Len(LexemeTexts(lexemes)) = Len(lexemes)
         /\ \A i \in 1..Len(lexemes) : LexemeTexts(lexemes)[i] = LexemeText(lexemes[i])
         /\ DocumentText(lexemes) = FlattenSeq(LexemeTexts(lexemes))
         /\ \A i \in 0..Len(lexemes) :
              DocumentText(SubSeq(lexemes, 1, i)) = FlattenSeq(SubSeq(LexemeTexts(lexemes), 1, i))
<1> DEFINE n == Len(lexemes)
           texts == LexemeTexts(lexemes)
<1>1. /\ n \in Nat /\ DOMAIN lexemes = 1..n
      /\ \A i \in 1..n : lexemes[i] \in LexemeForm /\ PlainLexeme(lexemes[i])
  BY LexemesAre
<1>2. texts = [i \in 1..n |-> LexemeText(lexemes[i])]
  BY <1>1 DEF LexemeTexts
<1> HIDE DEF texts
<1>3. \A i \in 1..n : LexemeText(lexemes[i]) \in Seq(Chars)
  <2>1. \E from \in Nat : 0 < from
    OBVIOUS
  <2> QED BY <1>1, <2>1, LexemeIs
<1>4. /\ texts \in Seq(Seq(Chars)) /\ Len(texts) = n
      /\ \A i \in 1..n : texts[i] = LexemeText(lexemes[i])
  <2> HIDE DEF n
  <2>1. texts \in [1..n -> Seq(Chars)]
    BY <1>2, <1>3
  <2>2. texts \in Seq(Seq(Chars)) /\ Len(texts) = n
    BY <1>1, <2>1
  <2> QED BY <1>2, <2>2
<1>5. DocumentText(lexemes) = FlattenSeq(texts)
  BY DEF DocumentText, texts, LexemeTexts
<1>6. ASSUME NEW i \in 0..n
      PROVE  DocumentText(SubSeq(lexemes, 1, i)) = FlattenSeq(SubSeq(texts, 1, i))
  <2> DEFINE first == SubSeq(lexemes, 1, i)
             part == SubSeq(texts, 1, i)
  <2>1. DOMAIN first = 1..i /\ \A j \in 1..i : first[j] = lexemes[j]
    <3>1. lexemes \in Seq(LexemeForm)
      BY DEF PlainDocument
    <3> QED BY <3>1, BeginningIs
  <2>2. i \in 0..Len(texts) /\ \A j \in 1..i : j \in 1..n
    <3> HIDE DEF n
    <3> QED BY <1>1, <1>4
  <2>3. /\ part \in Seq(Seq(Chars)) /\ DOMAIN part = 1..i
        /\ \A j \in 1..i : part[j] = texts[j]
    BY <1>4, <2>2, BeginningIs
  <2>4. part = [j \in DOMAIN part |-> part[j]]
    <3> HIDE DEF part
    <3> QED BY <2>3
  <2>5. \A j \in 1..i : part[j] = LexemeText(first[j])
    <3> HIDE DEF first, part, n
    <3> QED BY <1>4, <2>1, <2>2, <2>3
  <2> HIDE DEF first, part
  <2>6. [j \in DOMAIN first |-> LexemeText(first[j])] = part
    BY <2>1, <2>3, <2>4, <2>5
  <2>7. DocumentText(first) = FlattenSeq(part)
    BY <2>6 DEF DocumentText
  <2> QED BY <2>7 DEF first, part
<1> QED BY <1>4, <1>5, <1>6 DEF texts

\* The calls of the lexemes, and of the document.
LEMMA CallListsAre ==
  ASSUME NEW lexemes, PlainDocument(lexemes)
  PROVE  /\ CallLists(lexemes) \in Seq(Seq(Calls)) /\ Len(CallLists(lexemes)) = Len(lexemes)
         /\ \A i \in 1..Len(lexemes) :
              /\ Len(FlattenSeq(SubSeq(LexemeTexts(lexemes), 1, i - 1))) \in Nat
              /\ CallLists(lexemes)[i] =
                   LexemeCalls(lexemes[i],
                               Len(FlattenSeq(SubSeq(LexemeTexts(lexemes), 1, i - 1))) + 1)
         /\ DocumentCalls(lexemes) = FlattenSeq(CallLists(lexemes))
<1> DEFINE n == Len(lexemes)
           lists == CallLists(lexemes)
           before(i) == Len(FlattenSeq(SubSeq(LexemeTexts(lexemes), 1, i - 1)))
<1>1. /\ n \in Nat /\ DOMAIN lexemes = 1..n
      /\ \A i \in 1..n : lexemes[i] \in LexemeForm /\ PlainLexeme(lexemes[i])
  BY LexemesAre
<1>2. ASSUME NEW i \in 1..n PROVE before(i) \in Nat
  <2>1. LexemeTexts(lexemes) \in Seq(Seq(Chars)) /\ Len(LexemeTexts(lexemes)) = n
    BY LexemeTextsAre
  <2>2. i \in 1..Len(LexemeTexts(lexemes))
    BY <2>1
  <2>3. FlattenSeq(SubSeq(LexemeTexts(lexemes), 1, i - 1)) \in Seq(Chars)
    BY <2>1, <2>2, FlattenMore
  <2> QED BY <2>3, SequenceIs
<1>3. ASSUME NEW i \in 1..n PROVE lists[i] = LexemeCalls(lexemes[i], before(i) + 1)
  <2>1. i - 1 \in 0..n
    <3> HIDE DEF n
    <3> QED BY <1>1
  <2>2. DocumentText(SubSeq(lexemes, 1, i - 1)) = FlattenSeq(SubSeq(LexemeTexts(lexemes), 1, i - 1))
    <3> HIDE DEF before
    <3> QED BY <2>1, LexemeTextsAre
  <2>3. Len(DocumentText(SubSeq(lexemes, 1, i - 1))) = before(i)
    BY <2>2
  <2>4. i \in DOMAIN lexemes
    BY <1>1
  <2> HIDE DEF before
  <2> QED BY <2>3, <2>4 DEF CallLists
<1>4. lists = [i \in 1..n |-> lists[i]]
  BY <1>1 DEF CallLists
<1>5. DocumentCalls(lexemes) = FlattenSeq(lists)
  BY DEF DocumentCalls, CallLists
<1> HIDE DEF n, lists, before
<1>6. \A i \in 1..n : lists[i] \in Seq(Calls)
  <2> TAKE i \in 1..n
  <2>1. before(i) + 1 \in Nat /\ 0 < before(i) + 1
    BY <1>2
  <2> QED BY <1>1, <1>3, <2>1, LexemeIs
<1>7. lists \in Seq(Seq(Calls)) /\ Len(lists) = n
  <2>1. lists \in [1..n -> Seq(Calls)]
    BY <1>4, <1>6
  <2> QED BY <1>1, <2>1
<1> QED BY <1>2, <1>3, <1>5, <1>7 DEF n, lists, before

(***************************************************************************)
(* A document of the grammar is read lexeme by lexeme: the calls made when *)
(* it has been read are those the grammar stands for, and nothing is held  *)
(* back.                                                                   *)
(***************************************************************************)
LEMMA DocumentRead ==
  ASSUME NEW lexemes, PlainDocument(lexemes), NEW text, text = DocumentText(lexemes),
         NEW f, Reads(f, text)
  PROVE  text \in Seq(Chars) /\ Between(f[Len(text)], DocumentCalls(lexemes))
<1> DEFINE n == Len(lexemes)
           texts == LexemeTexts(lexemes)
           lists == CallLists(lexemes)
           before(i) == Len(FlattenSeq(SubSeq(texts, 1, i)))
           made(i) == FlattenSeq(SubSeq(lists, 1, i))
           with == {i \in 0..n : Between(f[before(i)], made(i))}
<1>1. n \in Nat /\ \A i \in 1..n : lexemes[i] \in LexemeForm /\ PlainLexeme(lexemes[i])
  BY LexemesAre
<1>2. /\ texts \in Seq(Seq(Chars)) /\ Len(texts) = n
      /\ \A i \in 1..n : texts[i] = LexemeText(lexemes[i])
      /\ text = FlattenSeq(texts)
  BY LexemeTextsAre
<1>3. /\ lists \in Seq(Seq(Calls)) /\ Len(lists) = n
      /\ \A i \in 1..n : lists[i] = LexemeCalls(lexemes[i], before(i - 1) + 1)
      /\ DocumentCalls(lexemes) = FlattenSeq(lists)
  BY CallListsAre
<1> HIDE DEF n, texts, lists
<1>4. text \in Seq(Chars) /\ Len(text) \in Nat
  BY <1>2, FlattenAppend, ConcatEmptySeq, SequenceIs
<1>5. SpelledAt(text, 0, FlattenSeq(texts))
  <2>1. \A j \in 1..Len(text) : 0 + j = j
    BY <1>4
  <2> QED BY <1>2, <1>4, <2>1 DEF SpelledAt
<1>6. ASSUME NEW i \in 1..n
      PROVE  /\ before(i - 1) \in Nat /\ before(i) = before(i - 1) + Len(texts[i])
             /\ SpelledAt(text, before(i - 1), texts[i])
             /\ made(i - 1) \in Seq(Calls) /\ made(i) = made(i - 1) \o lists[i]
  <2>1. i \in 1..Len(texts) /\ texts[i] \in Seq(Chars) /\ i \in 1..Len(lists)
    BY <1>2, <1>3, SequenceIs
  <2> DEFINE u == FlattenSeq(SubSeq(texts, 1, i - 1))
  <2>2. u \in Seq(Chars) /\ FlattenSeq(SubSeq(texts, 1, i)) = u \o texts[i]
    BY <1>2, <2>1, FlattenMore
  <2>3. SpelledAt(text, 0 + Len(u), texts[i])
    <3>1. 0 \in Nat
      OBVIOUS
    <3> QED BY <1>2, <1>4, <1>5, <2>1, <3>1, PartSpelled
  <2>4. made(i - 1) \in Seq(Calls) /\ made(i) = made(i - 1) \o lists[i]
    BY <1>3, <2>1, FlattenMore
  <2> HIDE DEF u, made
  <2>5. Len(u) \in Nat /\ Len(u \o texts[i]) = Len(u) + Len(texts[i])
    BY <2>1, <2>2, ConcatProperties, SequenceIs
  <2>6. 0 + Len(u) = Len(u)
    BY <2>5
  <2> QED BY <2>2, <2>3, <2>4, <2>5, <2>6 DEF u
<1>7. /\ before(0) = 0 /\ FlattenSeq(SubSeq(texts, 1, n)) = FlattenSeq(texts)
      /\ made(0) = <<>> /\ made(n) = FlattenSeq(lists)
  <2>1. SubSeq(texts, 1, 0) = <<>> /\ SubSeq(texts, 1, n) = texts
    BY <1>1, <1>2
  <2>2. SubSeq(lists, 1, 0) = <<>> /\ SubSeq(lists, 1, n) = lists
    BY <1>1, <1>3
  <2>3. FlattenSeq(<<>>) = <<>>
    BY DEF FlattenSeq
  <2>4. before(0) = Len(<<>>) /\ made(0) = <<>> /\ made(n) = FlattenSeq(lists)
    BY <2>1, <2>2, <2>3
  <2>5. Len(<<>>) = 0
    OBVIOUS
  <2> HIDE DEF before, made
  <2> QED BY <2>1, <2>4, <2>5
<1>8. Len(text) = before(n)
  BY <1>2, <1>7
<1> HIDE DEF before, made
<1>9. 0 \in with
  <2>1. f[0] = Fresh
    BY <1>4 DEF Reads, ReadsTo
  <2>2. Between(Fresh, <<>>)
    BY DEF Between, Fresh
  <2> QED BY <1>1, <1>7, <2>1, <2>2
<1>10. ASSUME NEW i \in 1..n, i - 1 \in with PROVE i \in with
  <2> DEFINE q == before(i - 1)
             c == made(i - 1)
             w == Len(texts[i])
  <2>1. q \in Nat /\ c \in Seq(Calls) /\ before(i) = q + w /\ made(i) = c \o lists[i]
    BY <1>6
  <2>2. Between(f[q], c)
    BY <1>10
  <2>3. lexemes[i] \in LexemeForm /\ PlainLexeme(lexemes[i])
    BY <1>1
  <2>4. SpelledAt(text, q, LexemeText(lexemes[i])) /\ w = Len(LexemeText(lexemes[i]))
    BY <1>2, <1>6
  <2>5. lists[i] = LexemeCalls(lexemes[i], q + 1)
    BY <1>3
  <2> HIDE DEF q, c, w
  <2>6. Between(f[q + w], c \o LexemeCalls(lexemes[i], q + 1))
    BY <1>4, <2>1, <2>2, <2>3, <2>4, LexemeRead
  <2>7. i \in 0..n
    BY <1>1
  <2> QED BY <2>1, <2>5, <2>6, <2>7
<1>11. n \in with
  <2>1. \A i \in 1..n : i - 1 \in with => i \in with
    BY <1>10
  <2>2. n \in 0..n
    BY <1>1
  <2> HIDE DEF with
  <2> QED BY <1>1, <1>9, <2>1, <2>2, InductionUpTo
<1> QED BY <1>3, <1>4, <1>7, <1>8, <1>11

-----------------------------------------------------------------------------
(* What the parser reports.                                                *)

\* At the end all of the document has been read, and all output sent.
AllSent == pc = "ended" => pos = Len(doc) /\ output_buffer = <<>>

\* The parser ends in one way.
LEMMA NextSent == AllSent /\ [Next]_vars => AllSent'
<1> SUFFICES ASSUME AllSent, [Next]_vars PROVE AllSent'
  OBVIOUS
<1>1. CASE UNCHANGED vars
  BY <1>1 DEF vars, document, output, AllSent
<1>2. ASSUME NEW n \in ChunkSizes, ExecutePlain(n) \/ ExecuteFresh(n) \/ ExecuteOverflow(n)
      PROVE  AllSent'
  BY <1>2 DEF ExecutePlain, ExecuteFresh, ExecuteOverflow, Handed, AllSent
<1>3. CASE \/ EchoOnly \/ Begin \/ SeeStartTag \/ SeeAttributeKey \/ SeeAttributeValue
           \/ BlockStartTag \/ BlockEndTag \/ SeeEndTag \/ SeeBlockStartWithAttributes
  <2>1. pc = "exec" /\ pc' = pc
    BY <1>3 DEF EchoOnly, Begin, SeeStartTag, SeeAttributeKey, SeeAttributeValue, BlockStartTag,
                BlockEndTag, SeeEndTag, SeeBlockStartWithAttributes, Step, AtByte
  <2> QED BY <2>1 DEF AllSent
<1>4. CASE Misuse
  BY <1>4 DEF Misuse, AtByte, AllSent
<1>5. CASE ReturnSaving \/ ReturnKeeping \/ ReturnBetweenTags
  BY <1>5 DEF ReturnSaving, ReturnKeeping, ReturnBetweenTags, Return, AllSent
<1>6. CASE Finish
  BY <1>6 DEF Finish, FlushOutput, document, AllSent
<1> QED BY <1>1, <1>2, <1>3, <1>4, <1>5, <1>6 DEF Next

\* What holds of every state.
MarkupInv == Inv /\ Following /\ AllSent

\* It does from the start.
LEMMA MarkupHolds == Spec => []MarkupInv
<1>1. Init => MarkupInv
  BY InitInv, InitFollowed DEF Init, AllSent, MarkupInv
<1>2. MarkupInv /\ [Next]_vars => MarkupInv'
  BY NextInv, StepFollowed, NextSent DEF MarkupInv
<1> QED BY <1>1, <1>2, PTL DEF Spec

(***************************************************************************)
(* The parser is deterministic: after q bytes of a document, however they  *)
(* were cut into pieces and whatever the size of the output buffer, it is  *)
(* in one state and has sent one list of calls, those of the document's    *)
(* reading (esi_parser_execute).                                           *)
(***************************************************************************)
THEOREM ReadingFollowed == Spec => []Following
<1>1. MarkupInv => Following
  BY DEF MarkupInv
<1> QED BY <1>1, MarkupHolds, PTL

\* What a document of the grammar has been reported as at its end.
LEMMA ReportedAtEnd ==
  ASSUME MarkupInv, pc = "ended", NEW lexemes, PlainDocument(lexemes), doc = DocumentText(lexemes)
  PROVE  calls = DocumentCalls(lexemes)
<1>1. PICK f : Reads(f, doc)
  <2>1. Len(doc) \in Nat
    BY DocsAssumption DEF MarkupInv, Inv, TypeOK
  <2> QED BY <2>1, ReadingExists DEF Reads
<1>2. StreamPos = Len(doc) /\ output_buffer = <<>>
  BY DEF StreamPos, AllSent, MarkupInv
<1>3. f[Len(doc)] = Now
  BY <1>1, <1>2 DEF Following, MarkupInv
<1>4. Between(f[Len(doc)], DocumentCalls(lexemes))
  BY <1>1, DocumentRead
<1>5. Sent = DocumentCalls(lexemes)
  BY <1>3, <1>4 DEF Between, Now
<1>6. calls \in Seq(Calls) /\ Outputs(<<>>) = <<>>
  BY DEF MarkupInv, Inv, TypeOK, Outputs
<1>7. calls \o <<>> = calls
  BY <1>6, ConcatEmptySeq
<1> QED BY <1>2, <1>5, <1>6, <1>7 DEF Sent

(***************************************************************************)
(* Whatever the lexemes, as long as they are told apart, whatever pieces   *)
(* their text arrives in and whatever the size of the output buffer: the   *)
(* calls of the handlers are those the grammar of common.rl reads in it,   *)
(* in order, with the names, the keys and the values that were written.    *)
(***************************************************************************)
THEOREM GrammarReported ==
  ASSUME NEW lexemes, PlainDocument(lexemes)
  PROVE  Spec => [](pc = "ended" /\ doc = DocumentText(lexemes) => calls = DocumentCalls(lexemes))
<1>1. MarkupInv => (pc = "ended" /\ doc = DocumentText(lexemes) => calls = DocumentCalls(lexemes))
  BY ReportedAtEnd
<1> QED BY <1>1, MarkupHolds, PTL

-----------------------------------------------------------------------------
(* The documents of the run.                                               *)

\* A text that begins and ends with nothing to trim is left as it is.
LEMMA UntrimmedIf ==
  ASSUME NEW S, NEW text \in Seq(S), Len(text) # 0,
         text[1] \notin LeftTrims, text[Len(text)] \notin RightTrims
  PROVE  Untrimmed(text)
<1>1. PICK skip \in Nat : skip = 0
  OBVIOUS
<1> DEFINE keep == Len(text)
<1>2. keep \in Nat
  OBVIOUS
<1> HIDE DEF keep
<1>3. /\ keep = skip + keep /\ 1..skip = {} /\ skip + 1 = 1 /\ skip + keep = keep
  BY <1>1, <1>2
<1>4. Trim(text) = [skip |-> skip, keep |-> keep]
  BY <1>2, <1>3, TrimIs DEF keep
<1> QED BY <1>1, <1>4 DEF Untrimmed, keep

\* What makes an attribute one of the grammar, its value not trimmed.
ToldApart(space, key, gap, value, quote) ==
  /\ space \in Seq({Blank}) /\ key \in Seq(KeyRest) /\ key # <<>> /\ key[1] \in KeyFirst
  /\ gap \in Seq({Blank}) /\ quote \in Quotes /\ value \in Seq(Chars \ {"<"})
  /\ Len(value) # 0 /\ value[1] \notin LeftTrims /\ value[Len(value)] \notin RightTrims \cup {"bs"}
  /\ \A k \in 1..Len(value) : value[k] # quote

\* Such an attribute is one of the grammar and is told apart.
LEMMA AttributeIf ==
  ASSUME NEW space, NEW key, NEW gap, NEW value, NEW quote,
         ToldApart(space, key, gap, value, quote)
  PROVE  /\ Attribute(space, key, gap, value, quote) \in AttributeForm
         /\ PlainAttribute(Attribute(space, key, gap, value, quote))
<1> DEFINE a == Attribute(space, key, gap, value, quote)
           blanks == {Blank}
<1>0. /\ space \in Seq({Blank}) /\ key \in Seq(KeyRest) /\ key # <<>> /\ key[1] \in KeyFirst
      /\ gap \in Seq({Blank}) /\ quote \in Quotes /\ value \in Seq(Chars \ {"<"})
      /\ Len(value) # 0 /\ value[1] \notin LeftTrims /\ value[Len(value)] \notin RightTrims \cup {"bs"}
      /\ \A k \in 1..Len(value) : value[k] # quote
  BY DEF ToldApart
<1>1. a.key = key /\ a.value = value /\ a.quote = quote
  BY DEF Attribute
<1>2. a \in AttributeForm
  <2>1. blanks = {" "}
    BY DEF Blank
  <2> HIDE DEF blanks
  <2>2. AttributeForm = [space : Seq(blanks), key : Seq(KeyRest), gap : Seq(blanks),
                         value : Seq(Chars \ {"<"}), quote : Quotes]
    BY <2>1 DEF AttributeForm
  <2>3. space \in Seq(blanks) /\ gap \in Seq(blanks)
    BY <1>0 DEF blanks
  <2> QED BY <1>0, <2>2, <2>3 DEF Attribute
<1>3. Untrimmed(value) /\ DOMAIN value = 1..Len(value)
  BY <1>0, UntrimmedIf, SequenceIs
<1> HIDE DEF a
<1>4. PlainAttribute(a)
  BY <1>0, <1>1, <1>3 DEF PlainAttribute
<1> QED BY <1>2, <1>4 DEF a

\* Those of the run are.
LEMMA RunAttributes ==
  ASSUME NEW a \in {Attr1, Attr2, Attr3} PROVE a \in AttributeForm /\ PlainAttribute(a)
<1> DEFINE b == <<Blank>>
<1>1. <<>> \in Seq({Blank}) /\ b \in Seq({Blank})
  OBVIOUS
<1>2. Attr2 = Attribute(b, <<"i", "9">>, b, <<"s", "dq", ".">>, "sq")
      /\ Attr3 = Attribute(b, <<"K">>, <<>>, <<"a", "bs", "dq", "9">>, "sq")
  BY DEF Attr2, Attr3, Blank
<1> HIDE DEF b
<1>3. /\ {"K", "i", "9"} \subseteq KeyRest /\ {"K", "i"} \subseteq KeyFirst
      /\ {".", "s", "a", "dq", "bs", "9"} \subseteq Chars \ {"<"} /\ {"dq", "sq"} \subseteq Quotes
      /\ \A ch \in {".", "s", "a", "9"} : ch \notin LeftTrims /\ ch \notin RightTrims \cup {"bs"}
  <2>1. {"K", "i", "9"} \subseteq KeyRest /\ {"K", "i"} \subseteq KeyFirst /\ {"dq", "sq"} \subseteq Quotes
    BY DEF KeyRest, KeyFirst, Letters, Quotes
  <2>2. {".", "s", "a", "dq", "bs", "9"} \subseteq Chars \ {"<"}
    BY DEF Chars, Letters, Quotes
  <2>3. \A ch \in {".", "s", "a", "9"} : ch \notin LeftTrims /\ ch \notin RightTrims \cup {"bs"}
    BY DEF LeftTrims, RightTrims
  <2> QED BY <2>1, <2>2, <2>3
<1>4. Attr1 \in AttributeForm /\ PlainAttribute(Attr1)
  <2> DEFINE key == <<"K">>
             value == <<".">>
  <2>1. key \in Seq(KeyRest) /\ key # <<>> /\ key[1] = "K"
    BY <1>3
  <2>2. value \in Seq(Chars \ {"<"}) /\ Len(value) = 1 /\ value[1] = "."
    BY <1>3
  <2> HIDE DEF key, value
  <2>3. \A k \in 1..Len(value) : value[k] # "dq"
    BY <2>2
  <2>4. ToldApart(<<>>, key, <<>>, value, "dq")
    BY <1>1, <1>3, <2>1, <2>2, <2>3 DEF ToldApart
  <2>5. /\ Attribute(<<>>, key, <<>>, value, "dq") \in AttributeForm
        /\ PlainAttribute(Attribute(<<>>, key, <<>>, value, "dq"))
    BY <2>4, AttributeIf
  <2> QED BY <2>5 DEF Attr1, key, value
<1>5. Attr2 \in AttributeForm /\ PlainAttribute(Attr2)
  <2> DEFINE key == <<"i", "9">>
             value == <<"s", "dq", ".">>
  <2>1. key \in Seq(KeyRest) /\ key # <<>> /\ key[1] = "i"
    BY <1>3
  <2>2. value \in Seq(Chars \ {"<"}) /\ Len(value) = 3
        /\ value[1] = "s" /\ value[2] = "dq" /\ value[3] = "."
    BY <1>3
  <2> HIDE DEF key, value
  <2>3. \A k \in 1..Len(value) : value[k] # "sq"
    BY <2>2
  <2>4. ToldApart(b, key, b, value, "sq")
    BY <1>1, <1>3, <2>1, <2>2, <2>3 DEF ToldApart
  <2>5. /\ Attribute(b, key, b, value, "sq") \in AttributeForm
        /\ PlainAttribute(Attribute(b, key, b, value, "sq"))
    BY <2>4, AttributeIf
  <2> QED BY <1>2, <2>5 DEF key, value
<1>6. Attr3 \in AttributeForm /\ PlainAttribute(Attr3)
  <2> DEFINE key == <<"K">>
             value == <<"a", "bs", "dq", "9">>
  <2>1. key \in Seq(KeyRest) /\ key # <<>> /\ key[1] = "K"
    BY <1>3
  <2>2. value \in Seq(Chars \ {"<"}) /\ Len(value) = 4
        /\ value[1] = "a" /\ value[2] = "bs" /\ value[3] = "dq" /\ value[4] = "9"
    BY <1>3
  <2> HIDE DEF key, value
  <2>3. \A k \in 1..Len(value) : value[k] # "sq"
    BY <2>2
  <2>4. ToldApart(b, key, <<>>, value, "sq")
    BY <1>1, <1>3, <2>1, <2>2, <2>3 DEF ToldApart
  <2>5. /\ Attribute(b, key, <<>>, value, "sq") \in AttributeForm
        /\ PlainAttribute(Attribute(b, key, <<>>, value, "sq"))
    BY <2>4, AttributeIf
  <2> QED BY <1>2, <2>5 DEF key, value
<1> QED BY <1>4, <1>5, <1>6

\* And so are its lexemes and the documents made of them.
LEMMA RunLexemes ==
  ASSUME NEW l \in Lexemes PROVE l \in LexemeForm /\ PlainLexeme(l)
<1> DEFINE two == <<Attr1, Attr2>>
           one == <<Attr3>>
           dot == <<".">>
           open == <<"<", "e", ".">>
           e == <<"e">>
<1>1. /\ {".", "<", "e", "a"} \subseteq Chars /\ {"a", "e"} \subseteq Letters
  BY DEF Chars, Letters
<1>2. /\ dot \in Seq(Chars) /\ Len(dot) = 1 /\ dot[1] = "."
      /\ open \in Seq(Chars) /\ Len(open) = 3 /\ open[1] = "<" /\ open[2] = "e" /\ open[3] = "."
  BY <1>1
<1>3. /\ Name \in Seq(Chars) /\ DOMAIN Name = 1..1 /\ Name[1] = "a" /\ Name # <<>>
      /\ e \in Seq(Chars) /\ DOMAIN e = 1..1 /\ e[1] = "e" /\ e # <<>>
  BY <1>1 DEF Name
<1>4. /\ two \in Seq(AttributeForm) /\ DOMAIN two = 1..2 /\ two[1] = Attr1 /\ two[2] = Attr2
      /\ one \in Seq(AttributeForm) /\ DOMAIN one = 1..1 /\ one[1] = Attr3
      /\ <<>> \in Seq(AttributeForm)
  BY RunAttributes
<1>5. /\ \A i \in DOMAIN two : PlainAttribute(two[i])
      /\ \A i \in DOMAIN one : PlainAttribute(one[i])
      /\ \A i \in DOMAIN <<>> : PlainAttribute(<<>>[i])
  BY <1>4, RunAttributes
<1> HIDE DEF two, one, dot, open, e
<1>6. ~ ScanForStart(dot)
  <2>1. DOMAIN dot = 1..1 /\ dot[1] # "<"
    BY <1>2
  <2> QED BY <2>1 DEF ScanForStart
<1>7. ~ ScanForStart(open)
  <2> SUFFICES ASSUME NEW f \in DOMAIN open, NEW g \in 1..(Len(open) + 1), f < g, open[f] = "<",
                      \A k \in (f + 1)..(g - 1) : open[k] \in {"/", "e", "s", "i"},
                      g = Len(open) + 1 \/ open[g] = ":"
               PROVE  FALSE
    BY DEF ScanForStart
  <2>1. DOMAIN open = 1..3 /\ f = 1
    BY <1>2
  <2>2. g = 4
    BY <1>2, <2>1
  <2>3. 3 \in (f + 1)..(g - 1)
    BY <2>1, <2>2
  <2> QED BY <1>2, <2>3
<1>8. /\ \A k \in DOMAIN Name : Name[k] \in Letters
      /\ \A k \in DOMAIN e : e[k] \in Letters
  BY <1>1, <1>3
<1>9. ASSUME NEW attrs \in {<<>>, two, one}
      PROVE  attrs \in Seq(AttributeForm) /\ \A i \in DOMAIN attrs : PlainAttribute(attrs[i])
  BY <1>4, <1>5
<1>10. ASSUME NEW text \in {dot, open}
       PROVE  TextLexeme(text) \in LexemeForm /\ PlainLexeme(TextLexeme(text))
  BY <1>2, <1>6, <1>7, <1>9 DEF TextLexeme, LexemeForm, PlainLexeme
<1>11. BlockLexeme(Name) \in LexemeForm /\ PlainLexeme(BlockLexeme(Name))
  BY <1>3, <1>8, <1>9 DEF BlockLexeme, LexemeForm, PlainLexeme
<1>12. EndLexeme(Name) \in LexemeForm /\ PlainLexeme(EndLexeme(Name))
  BY <1>3, <1>8, <1>9 DEF EndLexeme, LexemeForm, PlainLexeme
<1>13. ASSUME NEW name \in {Name, e}, NEW attrs \in {<<>>, two, one}
       PROVE  /\ OpenLexeme(name, attrs) \in LexemeForm /\ PlainLexeme(OpenLexeme(name, attrs))
              /\ InlineLexeme(name, attrs) \in LexemeForm /\ PlainLexeme(InlineLexeme(name, attrs))
  BY <1>3, <1>8, <1>9 DEF OpenLexeme, InlineLexeme, LexemeForm, PlainLexeme
<1> QED BY <1>10, <1>11, <1>12, <1>13 DEF Lexemes, two, one, dot, open, e

\* The documents of up to two of these lexemes are told apart.
LEMMA WrittenPlain ==
  ASSUME NEW lexemes \in Written PROVE PlainDocument(lexemes)
<1>1. PICK n \in 1..2 : lexemes \in [1..n -> Lexemes]
  BY DEF Written
<1>2. DOMAIN lexemes = 1..n /\ \A i \in 1..n : lexemes[i] \in LexemeForm /\ PlainLexeme(lexemes[i])
  BY <1>1, RunLexemes
<1>3. lexemes \in Seq(LexemeForm)
  <2>1. lexemes \in [1..n -> LexemeForm]
    BY <1>1, <1>2
  <2> QED BY <2>1
<1> QED BY <1>2, <1>3 DEF PlainDocument

(***************************************************************************)
(* Every document of the run's lexemes is reported as the grammar reads    *)
(* it, whatever documents there are besides.                               *)
(***************************************************************************)
THEOREM MarkupCorrect == Spec => []MarkupReported
<1>1. ASSUME MarkupInv PROVE MarkupReported
  <2> SUFFICES ASSUME pc = "ended", NEW lexemes \in Written, doc = DocumentText(lexemes)
               PROVE  calls = DocumentCalls(lexemes)
    BY DEF MarkupReported
  <2>1. PlainDocument(lexemes)
    BY WrittenPlain
  <2> QED BY <1>1, <2>1, ReportedAtEnd
<1> QED BY <1>1, MarkupHolds, PTL
=============================================================================
