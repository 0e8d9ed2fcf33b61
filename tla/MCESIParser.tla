---------------------------- MODULE MCESIParser ----------------------------
(***************************************************************************)
(* ESIParser on documents made of the lexemes of ESIGrammar and on some    *)
(* that break off or nest what the grammar keeps apart, cut into pieces    *)
(* of any of the lengths in MCChunkSizes.                                  *)
(***************************************************************************)
EXTENDS ESIParser, ESIGrammar
LOCAL INSTANCE SequencesExt

Name == <<"a">>
Attr1 == Attribute(<<>>, <<"K">>, <<>>, <<".">>, "dq")
Attr2 == Attribute(<<" ">>, <<"i", "9">>, <<" ">>, <<"s", "dq", ".">>, "sq")
Attr3 == Attribute(<<" ">>, <<"K">>, <<>>, <<"a", "bs", "dq", "9">>, "sq")

Lexemes ==
  {TextLexeme(<<".">>), TextLexeme(<<"<", "e", ".">>),
   BlockLexeme(Name), EndLexeme(Name),
   InlineLexeme(Name, <<>>), InlineLexeme(<<"e">>, <<Attr1, Attr2>>),
   OpenLexeme(Name, <<Attr3>>)}

\* What the grammar does not describe: tags that break off, one
\* within another, a quote that is escaped within its own kind.
Esi_ == <<"<">> \o Esi
Odd ==
  {<<"<">>, Esi_, <<"<", "/", "<", "e">>,
   Esi_ \o <<"a", ".">>,
   <<"<", "/">> \o Esi \o <<"a", " ", ".">>,
   Esi_ \o <<"a", " ", "K", "=", "dq", ".", "dq", ".">>,
   Esi_ \o <<"a", " ", "K", "=", "dq", ".">>,
   Esi_ \o <<"a", " ", "K", "=", "sq", "a", "bs", "sq", "9", "sq", "/", ">">>,
   Esi_ \o <<"a", " ", "K", "=", "sq">> \o Esi_ \o <<"a", ">", "sq", "/", ">">>,
   Esi_ \o <<"a", " ", "K", "=", "sq">> \o Esi_ \o <<"e", " ", "/", ">", "sq", "/", ">">>,
   Esi_ \o <<"a", " ", "K", "=", "sq", ".">> \o Esi_
     \o <<"e", " ", "i", "=", "dq", ".", "dq", "sq", "/", ">">>}

Written == UNION {[1..n -> Lexemes] : n \in 1..2}

\* The small documents are the written ones and the odd ones, with something
\* before or after them.
MCDocs ==
  {DocumentText(w) : w \in Written} \cup Odd
    \cup {o \o LexemeText(l) : o \in Odd, l \in Lexemes}
    \cup {LexemeText(l) \o o : o \in Odd, l \in Lexemes}

MCChunkSizes == {1, 2, 3, 5, 9, 14, 20}
-----------------------------------------------------------------------------
\* A document of the grammar is reported as the grammar reads it, if no value
\* in it ends in what rtrim_pointer removes.
MarkupReported ==
  pc = "ended" =>
    \A lexemes \in Written :
      doc = DocumentText(lexemes) => calls = DocumentCalls(lexemes)
=============================================================================
