----------------------------- MODULE ESIParser -----------------------------
(***************************************************************************)
(* ngx_esi_parser.c: the streaming parser.  A document arrives in pieces,  *)
(* one per call of esi_parser_execute; a call steps the scanner over its   *)
(* piece one byte at a time and calls the handlers for text and tags.      *)
(*                                                                         *)
(* The parser keeps raw pointers into the piece (mark, tag_text, attr_key) *)
(* from one byte to the next and, when a call ends within a tag, from one  *)
(* call to the next: the piece is then copied to overflow_data, which      *)
(* later pieces are appended to, and every pointer is moved by its offset. *)
(* A pointer is modelled as the buffer it points into and an offset; one   *)
(* whose buffer was freed or given back to the caller is Lost.             *)
(*                                                                         *)
(* Undefined behaviour ends a run: `fault` says which one was met.         *)
(***************************************************************************)
EXTENDS ESIText

CONSTANTS
  Docs,         \* the documents a response may have: sequences of Chars
  ChunkSizes,   \* the lengths of the pieces a document arrives in
  SIZE          \* ESI_OUTPUT_BUFFER_SIZE

ASSUME DocsAssumption == \A d \in Docs : d \in Seq(Chars)
ASSUME ChunkSizesAssumption == ChunkSizes \subseteq Nat \ {0}
ASSUME SIZEAssumption == SIZE \in Nat \ {0}

VARIABLES
  doc,                  \* the document, and how many bytes of it the parser
  pos,                  \*   was handed
  pc,                   \* "idle" between calls, "exec" within one, "ended"
  data,                 \* the piece of this call
  p,                    \* offset of the next byte in Buffer
  cs, prev_state,
  mark, tag_text, tag_text_length, attr_key, attr_key_length,
  attributes,           \* the list of attributes read so far
  overflow_data,        \* the empty sequence is NULL
  echobuffer,           \* the bytes held back
  echobuffer_allocated, \* what the parser takes the echobuffer's size for
  echobuffer_size,      \* and what it is
  output_buffer,
  calls,                \* what the handlers were called with, in order
  fault

document == <<doc, pos>>
pointers == <<mark, tag_text, attr_key>>
lengths  == <<tag_text_length, attr_key_length>>
echoing  == <<echobuffer, echobuffer_allocated, echobuffer_size>>
output   == <<output_buffer, calls>>
vars == <<document, pc, data, p, cs, prev_state, pointers, lengths, attributes,
          overflow_data, echoing, output, fault>>

-----------------------------------------------------------------------------
(* Pointers                                                                *)

At(buf, off) == [buf |-> buf, off |-> off]
Null == At("null", 0)
Lost == At("lost", 0)

\* `data` is set to the overflow buffer as soon as there is one.
Here   == IF overflow_data # <<>> THEN "overflow" ELSE "data"
Buffer == IF overflow_data # <<>> THEN overflow_data ELSE data

Live(q) == q.buf = Here

\* Where a pointer may be after it is moved from buffer `from` to the overflow
\* buffer by its offset: for one that does not point into `from` the offset
\* is any number, and a negative one gives NULL.
Moved(q, from) ==
  CASE q = Null     -> {Null}
    [] q.buf = from -> {At("overflow", q.off)}
    [] OTHER        -> {Null, Lost}

\* If the attribute's key were forgotten.
MovePointersButKey(from) ==
  /\ mark' \in Moved(mark, from)
  /\ tag_text' \in Moved(tag_text, from)
  /\ UNCHANGED attr_key

MovePointers(from) ==
  /\ mark' \in Moved(mark, from)
  /\ tag_text' \in Moved(tag_text, from)
  /\ attr_key' \in Moved(attr_key, from)

\* The buffer a pointer points into is no longer the parser's.
Dropped(q) == IF q = Null THEN Null ELSE Lost

BytesAt(q, length) == SubSeq(Buffer, q.off + 1, q.off + length)
TextAt(q, length)  == [k \in 1..length |-> doc[Buffer[q.off + k]]]

\* ltrim_pointer and rtrim_pointer on a pointer and its length.
TrimmedPointer(q, length) ==
  LET t == Trim(TextAt(q, length))
  IN  [at |-> At(q.buf, q.off + t.skip), length |-> t.keep]

-----------------------------------------------------------------------------
(* Output: esi_parser_echo_char fills output_buffer and hands it over      *)
(* whenever it is full, esi_parser_flush_output hands over what it holds.  *)

\* If output_buffer were handed over only when a byte more than SIZE is in it.
EchoCharsLate(bytes) ==
  LET all  == output_buffer \o bytes
      sent == (Len(all) \div (SIZE + 1)) * (SIZE + 1)
  IN  /\ calls' = calls \o Outputs(SubSeq(all, 1, sent))
      /\ output_buffer' = SubSeq(all, sent + 1, Len(all))

EchoChars(bytes) ==
  LET all  == output_buffer \o bytes
      sent == (Len(all) \div SIZE) * SIZE
  IN  /\ calls' = calls \o Outputs(SubSeq(all, 1, sent))
      /\ output_buffer' = SubSeq(all, sent + 1, Len(all))

\* If a tag were reported before the text in front of it.
FlushOutputAfter(reported) ==
  /\ calls' = calls \o reported \o Outputs(output_buffer)
  /\ output_buffer' = <<>>

FlushOutput(reported) ==
  /\ calls' = calls \o Outputs(output_buffer) \o reported
  /\ output_buffer' = <<>>

-----------------------------------------------------------------------------
Init ==
  /\ doc \in Docs /\ pos = 0
  /\ pc = "idle" /\ data = <<>> /\ p = 0
  /\ cs = Start /\ prev_state = Start
  /\ mark = Null /\ tag_text = Null /\ attr_key = Null
  /\ tag_text_length = 0 /\ attr_key_length = 0
  /\ attributes = <<>>
  /\ overflow_data = <<>>
  /\ echobuffer = <<>>
  /\ echobuffer_allocated = SIZE /\ echobuffer_size = SIZE
  /\ output_buffer = <<>> /\ calls = <<>>
  /\ fault = "none"

Piece(n) == [k \in 1..n |-> pos + k]
PieceText(n) == [k \in 1..n |-> doc[pos + k]]

Handed(n) ==
  /\ pc = "idle" /\ fault = "none"
  /\ n <= Len(doc) - pos
  /\ pos' = pos + n
  /\ UNCHANGED doc

\* A piece that can hold no tag, between tags: all of it goes to the output.
ExecutePlain(n) ==
  /\ Handed(n)
  /\ cs = Text /\ ~ ScanForStart(PieceText(n))
  /\ EchoChars(Piece(n))
  /\ UNCHANGED <<pc, data, p, cs, prev_state, pointers, lengths, attributes,
                 overflow_data, echoing, fault>>

\* Any other piece; the mark is set if it is NULL.
ExecuteFresh(n) ==
  /\ Handed(n)
  /\ ~ (cs = Text /\ ~ ScanForStart(PieceText(n)))
  /\ overflow_data = <<>>
  /\ pc' = "exec"
  /\ data' = Piece(n)
  /\ p' = 0
  /\ mark' = IF mark = Null THEN At("data", 0) ELSE mark
  /\ UNCHANGED <<cs, prev_state, tag_text, attr_key, lengths, attributes,
                 overflow_data, echoing, output, fault>>

\* A piece that continues the overflow buffer: it is reallocated.
ExecuteOverflow(n) ==
  /\ Handed(n)
  /\ ~ (cs = Text /\ ~ ScanForStart(PieceText(n)))
  /\ overflow_data # <<>>
  /\ pc' = "exec"
  /\ data' = Piece(n)
  /\ p' = Len(overflow_data)
  /\ overflow_data' = overflow_data \o Piece(n)
  /\ mark' \in {IF q = Null THEN At("overflow", p') ELSE q :
                  q \in Moved(mark, "overflow")}
  /\ tag_text' \in Moved(tag_text, "overflow")
  /\ attr_key' \in Moved(attr_key, "overflow")
  /\ UNCHANGED <<cs, prev_state, lengths, attributes, echoing, output, fault>>

-----------------------------------------------------------------------------
(* One byte: `echo`, then the action of the transition.                    *)

byte   == Buffer[p + 1]
char   == doc[byte]
target == StepOf(cs, char)

\* esi_parser_concat_to_echobuffer doubles the echobuffer it takes for full.
Doubles == target # Text /\ echobuffer_allocated <= Len(echobuffer)
EchobufferSize == IF Doubles THEN 2 * echobuffer_allocated ELSE echobuffer_size
Overruns == target # Text /\ EchobufferSize <= Len(echobuffer)

Held == IF target = Text THEN <<>> ELSE Append(echobuffer, byte)

Released ==
  IF target = Text /\ prev_state \notin TagNameEnd
    THEN Append(echobuffer, byte)
    ELSE <<>>

\* The pointers that an action follows.
Needs(action) ==
  CASE action \in {"see_start_tag", "see_attribute_key",
                   "block_start_tag", "block_end_tag"} -> {mark}
    [] action = "see_attribute_value" -> {mark, attr_key}
    [] action \in {"see_end_tag", "see_block_start_with_attributes"} -> {tag_text}
    [] OTHER -> {}

AtByte == pc = "exec" /\ p < Len(Buffer) /\ fault = "none"

Step(action) ==
  /\ AtByte
  /\ ~ Overruns
  /\ ActionOf(cs, char) = action
  /\ \A q \in Needs(action) : Live(q)
  /\ p' = p + 1
  /\ cs' = target
  /\ prev_state' = target
  /\ echobuffer_allocated' =
       IF Doubles THEN 2 * echobuffer_allocated ELSE echobuffer_allocated
  /\ echobuffer_size' = EchobufferSize
  /\ UNCHANGED <<document, pc, data, overflow_data, fault>>

AtP == At(Here, p)

EchoOnly ==
  /\ Step("echo_only")
  /\ echobuffer' = Held
  /\ EchoChars(Released)
  /\ UNCHANGED <<pointers, lengths, attributes>>

Begin ==
  /\ Step("begin")
  /\ echobuffer' = Held
  /\ mark' = AtP
  /\ UNCHANGED <<tag_text, attr_key, lengths, attributes, output>>

SeeStartTag ==
  /\ Step("see_start_tag")
  /\ echobuffer' = Held
  /\ tag_text' = At(mark.buf, mark.off + 1)
  /\ tag_text_length' = p - (mark.off + 1)
  /\ mark' = AtP
  /\ UNCHANGED <<attr_key, attr_key_length, attributes, output>>

SeeAttributeKey ==
  /\ Step("see_attribute_key")
  /\ echobuffer' = Held
  /\ LET key == TrimmedPointer(mark, p - mark.off)
     IN  attr_key' = key.at /\ attr_key_length' = key.length
  /\ mark' = AtP
  /\ UNCHANGED <<tag_text, tag_text_length, attributes, output>>

SeeAttributeValue ==
  /\ Step("see_attribute_value")
  /\ echobuffer' = Held
  /\ LET value == TrimmedPointer(mark, p - mark.off)
     IN  attributes' = Append(attributes,
                              [name  |-> BytesAt(attr_key, attr_key_length),
                               value |-> BytesAt(value.at, value.length)])
  /\ mark' = AtP
  /\ UNCHANGED <<tag_text, attr_key, lengths, output>>

BlockStartTag ==
  /\ Step("block_start_tag")
  /\ LET name == TrimmedPointer(mark, p - mark.off)
     IN  /\ tag_text' = name.at /\ tag_text_length' = name.length
         /\ FlushOutput(<<StartTag(BytesAt(name.at, name.length), <<>>)>>)
  /\ attributes' = <<>>
  /\ echobuffer' = <<>>
  /\ mark' = AtP
  /\ UNCHANGED <<attr_key, attr_key_length>>

BlockEndTag ==
  /\ Step("block_end_tag")
  /\ LET name == TrimmedPointer(At(mark.buf, mark.off + 2), p - (mark.off + 2))
     IN  /\ tag_text' = name.at /\ tag_text_length' = name.length
         /\ FlushOutput(<<EndTag(BytesAt(name.at, name.length))>>)
  /\ echobuffer' = <<>>
  /\ mark' = AtP
  /\ UNCHANGED <<attr_key, attr_key_length, attributes>>

\* What the two tags with attributes end with.
Forget ==
  /\ attributes' = <<>>
  /\ tag_text' = Null /\ tag_text_length' = 0
  /\ echobuffer' = <<>>
  /\ mark' = AtP
  /\ UNCHANGED <<attr_key, attr_key_length>>

SeeEndTag ==
  /\ Step("see_end_tag")
  /\ LET t    == TrimmedPointer(tag_text, tag_text_length)
         name == BytesAt(t.at, t.length)
     IN  FlushOutput(<<StartTag(name, attributes), EndTag(name)>>)
  /\ Forget

SeeBlockStartWithAttributes ==
  /\ Step("see_block_start_with_attributes")
  /\ LET t == TrimmedPointer(tag_text, tag_text_length)
     IN  FlushOutput(<<StartTag(BytesAt(t.at, t.length), attributes)>>)
  /\ Forget

\* Undefined behaviour: a pointer followed to no byte of the buffer, or a byte
\* written behind the echobuffer.
Misuse ==
  /\ AtByte
  /\ \/ /\ Overruns
        /\ fault' = "echo_overrun"
     \/ /\ ~ Overruns
        /\ \E q \in Needs(ActionOf(cs, char)) :
             /\ ~ Live(q)
             /\ fault' = IF q = Null THEN "null_pointer" ELSE "wild_pointer"
  /\ UNCHANGED <<document, pc, data, p, cs, prev_state, pointers, lengths,
                 attributes, overflow_data, echoing, output>>

-----------------------------------------------------------------------------
(* The end of a call.                                                      *)

Return ==
  /\ pc = "exec" /\ p = Len(Buffer) /\ fault = "none"
  /\ pc' = "idle" /\ data' = <<>> /\ p' = 0
  /\ UNCHANGED <<document, cs, prev_state, lengths, attributes, echobuffer,
                 echobuffer_size, output, fault>>

MidTag == cs # Start /\ cs # Text

\* Within a tag with no overflow buffer yet: the piece is copied to one.
ReturnSaving ==
  /\ Return
  /\ MidTag /\ overflow_data = <<>>
  /\ overflow_data' = data
  /\ MovePointers("data")
  /\ echobuffer_allocated' = IF SIZE > Len(data) THEN SIZE ELSE Len(data)

\* Within a tag, with an overflow buffer: nothing is to be done.
ReturnKeeping ==
  /\ Return
  /\ MidTag /\ overflow_data # <<>>
  /\ UNCHANGED <<pointers, overflow_data, echobuffer_allocated>>

\* Between tags: the overflow buffer is freed, the piece is the caller's again.
ReturnBetweenTags ==
  /\ Return
  /\ ~ MidTag
  /\ overflow_data' = <<>>
  /\ mark' = Dropped(mark)
  /\ tag_text' = Dropped(tag_text)
  /\ attr_key' = Dropped(attr_key)
  /\ UNCHANGED echobuffer_allocated

\* esi_parser_finish, when the document has been handed over.
Finish ==
  /\ pc = "idle" /\ fault = "none"
  /\ pos = Len(doc)
  /\ FlushOutput(<<>>)
  /\ pc' = "ended"
  /\ UNCHANGED <<document, data, p, cs, prev_state, pointers, lengths,
                 attributes, overflow_data, echoing, fault>>

Next ==
  \/ \E n \in ChunkSizes : ExecutePlain(n) \/ ExecuteFresh(n) \/ ExecuteOverflow(n)
  \/ EchoOnly \/ Begin
  \/ SeeStartTag \/ SeeAttributeKey \/ SeeAttributeValue
  \/ BlockStartTag \/ BlockEndTag \/ SeeEndTag \/ SeeBlockStartWithAttributes
  \/ Misuse
  \/ ReturnSaving \/ ReturnKeeping \/ ReturnBetweenTags
  \/ Finish

Spec == Init /\ [][Next]_vars
-----------------------------------------------------------------------------
(* What must hold.                                                         *)

Handlers == {"output", "start_tag", "end_tag"}
Pointers == [buf : {"null", "lost", "data", "overflow"}, off : Nat]
Attributes == Seq([name : Seq(Nat), value : Seq(Nat)])
Calls == [handler : Handlers, bytes : Seq(Nat), attributes : Attributes]

\* The type of every variable; output_buffer is never left full, so that
\* esi_parser_echo_char always has room for its byte.
TypeOK ==
  /\ doc \in Docs /\ pos \in 0..Len(doc)
  /\ pc \in {"idle", "exec", "ended"}
  /\ data \in Seq(Nat) /\ overflow_data \in Seq(Nat)
  /\ p \in Nat
  /\ cs \in States /\ prev_state \in States
  /\ mark \in Pointers /\ tag_text \in Pointers /\ attr_key \in Pointers
  /\ tag_text_length \in Nat /\ attr_key_length \in Nat
  /\ attributes \in Attributes
  /\ echobuffer \in Seq(Nat)
  /\ echobuffer_allocated \in Nat /\ echobuffer_size \in Nat
  /\ output_buffer \in Seq(Nat) /\ Len(output_buffer) < SIZE
  /\ calls \in Seq(Calls)
  /\ fault \in {"none", "null_pointer", "wild_pointer", "echo_overrun"}

\* The bytes of Buffer the scanner has gone over.
Parsed == IF pc = "exec" THEN p ELSE Len(overflow_data)

InParsed(q, length) == Live(q) /\ q.off + length <= Parsed

\* Within a tag the mark is a byte already parsed; in an end tag so are its
\* first two, which block_end_tag steps over.
MarkInBuffer ==
  InTag(cs) => InParsed(mark, IF cs.at \in Closing THEN 2 ELSE 1)

\* While the scanner needs them, the tag's name and the attribute's key are
\* bytes of the buffer the call works on (a nested tag leaves no name).
NameInBuffer ==
  NamedTag(cs) => tag_text = Null \/ InParsed(tag_text, tag_text_length)
KeyInBuffer ==
  HasKey(cs) => InParsed(attr_key, attr_key_length)

\* Between calls there is an overflow buffer exactly when a tag is unfinished;
\* Buffer is the last bytes that were handed over, in their order.
BufferIsTail ==
  /\ pc # "exec" => data = <<>> /\ (overflow_data # <<>> <=> MidTag)
  /\ pc = "exec" => data # <<>> /\ p <= Len(Buffer)
  /\ Len(Buffer) <= pos
  /\ \A k \in 1..Len(Buffer) : Buffer[k] = pos - Len(Buffer) + k

\* Wherever a document is cut, the pointers the parser keeps from one call to
\* the next point to the bytes they were set to (esi_parser_execute's moving
\* of mark, tag_text and attr_key to and within overflow_data).
PointersInBuffer ==
  /\ prev_state = cs
  /\ MarkInBuffer /\ NameInBuffer /\ KeyInBuffer
  /\ BufferIsTail
  /\ fault # "wild_pointer"

\* All that was sent or is about to be.
Sent == calls \o Outputs(output_buffer)

\* Text is sent in the order of the document, and in order with the tags that
\* come before and after it: flushing and holding back never reorder.
InOrder ==
  LET sent == Sent
  IN  pc = "ended" \/ fault # "none" =>
        \A i, j \in DOMAIN sent :
          /\ i < j
          /\ "output" \in {sent[i].handler, sent[j].handler}
          /\ sent[i].bytes # <<>> /\ sent[j].bytes # <<>>
          => sent[i].bytes[Len(sent[i].bytes)] < sent[j].bytes[1]

\* echobuffer_allocated is the size of the echobuffer (ngx_esi_parser.h:65).
EchobufferAllocated == echobuffer_allocated = echobuffer_size

\* What is held back is given up only for a tag that was matched
\* (ngx_esi_parser.rl:80-83) or sent to the output.
HeldBackIsKept ==
  [][echobuffer # <<>> /\ echobuffer' = <<>> => Sent' # Sent]_vars

\* esi_parser_finish sends any remaining data to the output
\* (ngx_esi_parser.h:102-104).
FinishSendsAll == pc = "ended" => echobuffer = <<>>
-----------------------------------------------------------------------------
(***************************************************************************)
(* ESIParser implements ESIStream: a pointer is the position of its byte,  *)
(* what output_buffer holds has been called out already.                   *)
(***************************************************************************)
PositionOf(q) == Buffer[1] + q.off

StreamPos  == IF pc = "exec" THEN pos - (Len(Buffer) - p) ELSE pos
StreamMark == IF InTag(cs) THEN PositionOf(mark) ELSE 0
StreamName ==
  IF NamedTag(cs) /\ tag_text # Null THEN BytesAt(tag_text, tag_text_length) ELSE <<>>
StreamKey  == IF HasKey(cs) THEN BytesAt(attr_key, attr_key_length) ELSE <<>>

Stream == INSTANCE ESIStream WITH
  pos     <- StreamPos,
  mark    <- StreamMark,
  name    <- StreamName,
  key     <- StreamKey,
  pending <- echobuffer,
  calls   <- Sent,
  ended   <- pc = "ended"

\* However the document is cut, the handlers are called as if it were whole.
ImplementsStream == Stream!Spec
=============================================================================
