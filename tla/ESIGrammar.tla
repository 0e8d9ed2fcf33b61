----------------------------- MODULE ESIGrammar -----------------------------
(***************************************************************************)
(* The grammar of common.rl, read as a grammar: a document is a sequence   *)
(* of lexemes, each a piece of text or a whole tag, and each lexeme stands *)
(* for certain calls of the handlers.  This is the reference the generated *)
(* automaton, with its trims and its held-back bytes, is compared with.    *)
(***************************************************************************)
EXTENDS ESIText
LOCAL INSTANCE SequencesExt

Quoted(value, quote) == <<quote>> \o value \o <<quote>>

\* attr_key '=' attr_value, with the spaces the grammar allows around it.
Attribute(before, key, after, value, quote) ==
  [space |-> before, key |-> key, gap |-> after, value |-> value, quote |-> quote]

AttributeText(a) ==
  a.space \o a.key \o <<"=">> \o a.gap \o Quoted(a.value, a.quote)

\* The four kinds of tag, and text.  A name is the letters after "esi:".
TextLexeme(text)      == [kind |-> "text", name |-> text, attributes |-> <<>>]
BlockLexeme(name)     == [kind |-> "block_start", name |-> name, attributes |-> <<>>]
EndLexeme(name)       == [kind |-> "block_end", name |-> name, attributes |-> <<>>]
OpenLexeme(name, as)  == [kind |-> "block_attributes", name |-> name, attributes |-> as]
InlineLexeme(name, as) == [kind |-> "inline", name |-> name, attributes |-> as]

Esi == <<"e", "s", "i", ":">>

AttributesText(as) == FlattenSeq([i \in DOMAIN as |-> AttributeText(as[i])])

LexemeText(l) ==
  CASE l.kind = "text"             -> l.name
    [] l.kind = "block_start"      -> <<"<">> \o Esi \o l.name \o <<">">>
    [] l.kind = "block_end"        -> <<"<", "/">> \o Esi \o l.name \o <<">">>
    [] l.kind = "block_attributes" ->
         <<"<">> \o Esi \o l.name \o <<" ">> \o AttributesText(l.attributes) \o <<">">>
    [] l.kind = "inline"           ->
         <<"<">> \o Esi \o l.name \o <<" ">> \o AttributesText(l.attributes) \o <<"/", ">">>

DocumentText(lexemes) == FlattenSeq([i \in DOMAIN lexemes |-> LexemeText(lexemes[i])])

(***************************************************************************)
(* The documents whose lexemes are told apart and reported in full: text   *)
(* holds no start of a tag; a value no "<", no quote of its own kind, no   *)
(* backslash in front of the quote that ends it, and at its ends nothing   *)
(* that is trimmed off.                                                    *)
(***************************************************************************)
AttributeForm ==
  [space : Seq({" "}), key : Seq(KeyRest), gap : Seq({" "}),
   value : Seq(Chars \ {"<"}), quote : Quotes]

LexemeForm ==
  [kind : {"text", "block_start", "block_end", "block_attributes", "inline"},
   name : Seq(Chars), attributes : Seq(AttributeForm)]

Untrimmed(text) == Trim(text) = [skip |-> 0, keep |-> Len(text)]

PlainAttribute(a) ==
  /\ a.key # <<>> /\ a.key[1] \in KeyFirst
  /\ \A k \in DOMAIN a.value : a.value[k] # a.quote
  /\ a.value # <<>> => a.value[Len(a.value)] # "bs"
  /\ Untrimmed(a.value)

PlainLexeme(l) ==
  /\ IF l.kind = "text"
       THEN ~ ScanForStart(l.name)
       ELSE l.name # <<>> /\ \A k \in DOMAIN l.name : l.name[k] \in Letters
  /\ l.kind \notin {"block_attributes", "inline"} => l.attributes = <<>>
  /\ \A i \in DOMAIN l.attributes : PlainAttribute(l.attributes[i])

PlainDocument(lexemes) ==
  /\ lexemes \in Seq(LexemeForm)
  /\ \A i \in DOMAIN lexemes : PlainLexeme(lexemes[i])

-----------------------------------------------------------------------------
\* The n bytes from position `from` on.
Span(from, n) == [k \in 1..n |-> from + k - 1]

\* The attributes of a list whose text begins at position `from`.
AttributesAt(as, from) ==
  [i \in DOMAIN as |->
     LET start == from + Len(AttributesText(SubSeq(as, 1, i - 1)))
         key   == start + Len(as[i].space)
     IN  [name  |-> Span(key, Len(as[i].key)),
          value |-> Span(key + Len(as[i].key) + 1 + Len(as[i].gap) + 1,
                         Len(as[i].value))]]

\* The calls a lexeme that begins at position `from` stands for.
LexemeCalls(l, from) ==
  LET size  == Len(Esi) + Len(l.name)
      start == StartTag(Span(from + 1, size),
                        AttributesAt(l.attributes, from + 1 + size + 1))
  IN  CASE l.kind = "text"      -> Outputs(Span(from, Len(l.name)))
        [] l.kind = "block_end" -> <<EndTag(Span(from + 2, size))>>
        [] l.kind = "inline"    -> <<start, EndTag(start.bytes)>>
        [] OTHER                -> <<start>>

DocumentCalls(lexemes) ==
  FlattenSeq([i \in DOMAIN lexemes |->
    LexemeCalls(lexemes[i], Len(DocumentText(SubSeq(lexemes, 1, i - 1))) + 1)])
=============================================================================
