----------------------------- MODULE ESIStream -----------------------------
(***************************************************************************)
(* What esi_parser_execute promises its caller: the document is parsed as  *)
(* one piece, however it is cut into the buffers of the calls.  There are  *)
(* no buffers here and no pointers into them, only the position reached    *)
(* and, for the tag being read, the bytes of its name and of the           *)
(* attribute key seen so far.  The handlers are called, in this order and  *)
(* with these bytes, by every parser that keeps the promise.               *)
(***************************************************************************)
EXTENDS ESIText

CONSTANT Docs       \* the documents a response may have: sequences of Chars

VARIABLES
  doc,              \* the document
  pos,              \* how many of its bytes have been parsed
  cs,               \* the scanner's state
  mark,             \* where the current part of the tag begins, 0 outside tags
  name,             \* the bytes of the tag's name, when it has been seen
  key,              \* the bytes of the attribute's key, when it has been seen
  attributes,       \* the attributes to be reported with the next tag
  pending,          \* the bytes that are not known to be text yet
  calls,            \* what the handlers have been called with
  ended

vars == <<doc, pos, cs, mark, name, key, attributes, pending, calls, ended>>

Init ==
  /\ doc \in Docs
  /\ pos = 0
  /\ cs = Start
  /\ mark = 0
  /\ name = <<>> /\ key = <<>> /\ attributes = <<>>
  /\ pending = <<>> /\ calls = <<>>
  /\ ended = FALSE

-----------------------------------------------------------------------------
here   == pos + 1
target == StepOf(cs, doc[here])

Bytes(from, to) == [k \in 1..(to - from + 1) |-> from + k - 1]

\* From offset bytes after the mark up to the byte before this one, trimmed.
Part(offset) ==
  LET part == Bytes(mark + offset, pos)
      t    == Trim([k \in DOMAIN part |-> doc[part[k]]])
  IN  SubSeq(part, t.skip + 1, t.skip + t.keep)

TrimmedName ==
  LET t == Trim([k \in DOMAIN name |-> doc[name[k]]])
  IN  SubSeq(name, t.skip + 1, t.skip + t.keep)

\* The text a byte that is no part of a tag releases.
Released ==
  IF target = Text /\ cs \notin TagNameEnd THEN Append(pending, here) ELSE <<>>

\* One byte: the scanner moves and `pending` holds the byte back or lets go.
Take(action) ==
  /\ ~ended
  /\ pos < Len(doc)
  /\ ActionOf(cs, doc[here]) = action
  /\ pos' = here
  /\ cs' = target
  /\ UNCHANGED <<doc, ended>>

Hold == pending' = IF target = Text THEN <<>> ELSE Append(pending, here)

Mark(m) == mark' = IF InTag(target) THEN m ELSE 0
Name(b) == name' = IF NamedTag(target) THEN b ELSE <<>>
Key(b)  == key'  = IF HasKey(target) THEN b ELSE <<>>

Report(reported) ==
  /\ calls' = calls \o reported
  /\ pending' = <<>>

EchoOnly ==
  /\ Take("echo_only")
  /\ Hold
  /\ calls' = calls \o Outputs(Released)
  /\ Mark(mark) /\ Name(name) /\ Key(key)
  /\ UNCHANGED attributes

Begin ==
  /\ Take("begin")
  /\ Hold
  /\ Mark(here) /\ Name(name) /\ Key(key)
  /\ UNCHANGED <<attributes, calls>>

SeeStartTag ==
  /\ Take("see_start_tag")
  /\ Hold
  /\ Mark(here) /\ Name(Bytes(mark + 1, pos)) /\ Key(key)
  /\ UNCHANGED <<attributes, calls>>

SeeAttributeKey ==
  /\ Take("see_attribute_key")
  /\ Hold
  /\ Mark(here) /\ Name(name) /\ Key(Part(0))
  /\ UNCHANGED <<attributes, calls>>

SeeAttributeValue ==
  /\ Take("see_attribute_value")
  /\ Hold
  /\ attributes' = Append(attributes, [name |-> key, value |-> Part(0)])
  /\ Mark(here) /\ Name(name) /\ Key(key)
  /\ UNCHANGED calls

BlockStartTag ==
  /\ Take("block_start_tag")
  /\ Report(<<StartTag(Part(0), <<>>)>>)
  /\ attributes' = <<>>
  /\ Mark(here) /\ Name(Part(0)) /\ Key(key)

BlockEndTag ==
  /\ Take("block_end_tag")
  /\ Report(<<EndTag(Part(2))>>)
  /\ Mark(here) /\ Name(Part(2)) /\ Key(key)
  /\ UNCHANGED attributes

SeeEndTag ==
  /\ Take("see_end_tag")
  /\ Report(<<StartTag(TrimmedName, attributes), EndTag(TrimmedName)>>)
  /\ attributes' = <<>>
  /\ Mark(here) /\ Name(<<>>) /\ Key(key)

SeeBlockStartWithAttributes ==
  /\ Take("see_block_start_with_attributes")
  /\ Report(<<StartTag(TrimmedName, attributes)>>)
  /\ attributes' = <<>>
  /\ Mark(here) /\ Name(<<>>) /\ Key(key)

(***************************************************************************)
(* Several bytes at once, when the scanner would get no further in a tag   *)
(* than its name and would end up in text again: they are text.            *)
(***************************************************************************)
TakeText ==
  \E k \in 1..(Len(doc) - pos) :
    LET after[j \in 0..k] ==
          IF j = 0 THEN cs ELSE StepOf(after[j - 1], doc[pos + j])
    IN  /\ ~ended
        /\ cs = Text
        /\ \A j \in 1..k : after[j].at \notin {"name", "close_name"}
        /\ after[k] = Text
        /\ pos' = pos + k
        /\ calls' = calls \o Outputs(Bytes(here, pos + k))
        /\ UNCHANGED <<doc, cs, mark, name, key, attributes, pending, ended>>

\* The end of the document: what is pending then is never reported.
Finish ==
  /\ ~ended
  /\ pos = Len(doc)
  /\ ended' = TRUE
  /\ UNCHANGED <<doc, pos, cs, mark, name, key, attributes, pending, calls>>

Next ==
  \/ EchoOnly \/ Begin
  \/ SeeStartTag \/ SeeAttributeKey \/ SeeAttributeValue
  \/ BlockStartTag \/ BlockEndTag \/ SeeEndTag \/ SeeBlockStartWithAttributes
  \/ TakeText
  \/ Finish

Spec == Init /\ [][Next]_vars
=============================================================================
