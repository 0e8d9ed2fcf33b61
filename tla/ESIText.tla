------------------------------ MODULE ESIText ------------------------------
(***************************************************************************)
(* What the streaming parser (ESIParser) and its chunk-free specification  *)
(* (ESIStream) share: the trimming of names, keys and values, the test for *)
(* text that cannot hold a tag, and the calls the parser makes to its      *)
(* handlers.  A text is a sequence of characters of ESIMachine.            *)
(***************************************************************************)
EXTENDS ESIMachine, Integers, Sequences, FiniteSetsExt

\* If only one kind of quote were trimmed.
LeftTrimsOneQuote == {" ", "=", "sq", "<"}

LeftTrims  == {" ", "=", "dq", "sq", "<"}
RightTrims == {" ", "=", "dq", "sq", ">"}

\* How many characters ltrim_pointer moves the pointer past.
LeftTrim(text) ==
  Min({k \in 0..Len(text) : k = Len(text) \/ text[k + 1] \notin LeftTrims})

\* The length rtrim_pointer leaves; it never trims the first character.
RightTrim(text) ==
  Max({k \in 0..Len(text) : k <= 1 \/ text[k] \notin RightTrims})

\* ltrim_pointer, then rtrim_pointer: what is skipped and how much is kept.
Trim(text) ==
  LET skip == LeftTrim(text)
  IN  [skip |-> skip, keep |-> RightTrim(SubSeq(text, skip + 1, Len(text)))]

\* If the end of the piece were not taken for a possible start of a tag.
ScanForWholeStart(text) ==
  \E f \in DOMAIN text, g \in DOMAIN text :
    /\ f < g
    /\ text[f] = "<" /\ text[g] = ":"
    /\ \A k \in (f + 1)..(g - 1) : text[k] \in {"/", "e", "s", "i"}

(***************************************************************************)
(* esi_parser_scan_for_start finds something: a "<" followed by nothing    *)
(* but "/", "e", "s" and "i", up to a ":" or up to the end of the text.    *)
(***************************************************************************)
ScanForStart(text) ==
  \E f \in DOMAIN text, g \in 1..(Len(text) + 1) :
    /\ f < g
    /\ text[f] = "<"
    /\ \A k \in (f + 1)..(g - 1) : text[k] \in {"/", "e", "s", "i"}
    /\ g = Len(text) + 1 \/ text[g] = ":"

(***************************************************************************)
(* A byte is identified by its position in the document, so that a run can *)
(* tell which of two equal characters was sent where.  The calls to the    *)
(* handlers are recorded in order; output_handler's are recorded byte by   *)
(* byte, its granularity being no promise of the parser.                   *)
(***************************************************************************)
Call(handler, bytes, attrs) ==
  [handler |-> handler, bytes |-> bytes, attributes |-> attrs]

Outputs(bytes)         == [i \in DOMAIN bytes |-> Call("output", <<bytes[i]>>, <<>>)]
StartTag(name, attrs)  == Call("start_tag", name, attrs)
EndTag(name)           == Call("end_tag", name, <<>>)
=============================================================================
