-------------------------- MODULE ESIParser_proofs --------------------------
(***************************************************************************)
(* Proofs about the streaming parser, wherever and how often the document  *)
(* is cut and whatever the document is: the type invariant, that every     *)
(* pointer it follows is into the buffer it works on, and that it sends    *)
(* text and tags in the order of the document.                             *)
(***************************************************************************)
EXTENDS ESIParser, ESISetLemmas

-----------------------------------------------------------------------------
(* What the transitions of the scanner keep of a state, as far as the      *)
(* parser's pointers depend on it.                                         *)

NameSeen == {"attrs", "space", "key", "eq", "slash"}

(***************************************************************************)
(* The one edge there is from a stage on a character, or the fallback.     *)
(***************************************************************************)
LEMMA AdvanceEdge ==
  ASSUME NEW at \in Stages, NEW ch \in Chars
  PROVE  /\ Advance(at, ch) \in Stages
         /\ Advance(at, ch) = "text" \/ <<at, ch, Advance(at, ch)>> \in Edges
<1>1. "text" \in Stages
  BY DEF Stages
<1> QED BY <1>1 DEF Advance

(***************************************************************************)
(* Where an edge may come from, given where it leads.                      *)
(***************************************************************************)
LEMMA EdgeOrigins ==
  ASSUME NEW at, NEW ch, NEW to, <<at, ch, to>> \in Edges
  PROVE  /\ at \notin {"start", "text", "bs", "final"}
         /\ to \in NameSeen => at \in NameSeen \/ (at = "name" /\ ch = " ")
         /\ to = "eq" => at = "eq" \/ (at = "key" /\ ch = "=")
         /\ to \in Closing => ch \in Letters \cup {"/", ":"} /\ at \in Closing \cup {"lt"}
BY DEF Edges, TagEdges, AttributeEdges, NameSeen, Closing, Letters, KeyFirst, KeyRest

(***************************************************************************)
(* A transition leads from a state to a state.                             *)
(***************************************************************************)
LEMMA StepType ==
  ASSUME NEW s \in States, NEW ch \in Chars
  PROVE  StepOf(s, ch) \in States
<1>1. s.in \subseteq Quotes /\ s.at \in Stages
  BY DEF States
<1>2. InAfter(s, ch) \subseteq Quotes
  BY <1>1 DEF InAfter
<1>3. AtAfter(s, ch) \in Stages
  BY <1>1, AdvanceEdge DEF AtAfter, Stages
<1> QED BY <1>2, <1>3 DEF StepOf, States

(***************************************************************************)
(* The stage a transition leads to: "attrs" at the end of a value, "lt",   *)
(* "bs" in a value, "text", or the end of an edge.                         *)
(***************************************************************************)
LEMMA NextStage ==
  ASSUME NEW s \in States, NEW ch \in Chars
  PROVE  LET to == StepOf(s, ch).at
         IN  \/ ch \in s.in /\ to = "attrs"
             \/ ch \notin s.in /\ ch = "<" /\ to = "lt"
             \/ s.in # {} /\ ch = "bs" /\ to = "bs"
             \/ to = "text"
             \/ ch \notin s.in /\ ch # "<" /\ <<s.at, ch, to>> \in Edges
<1>1. s.at \in Stages
  BY DEF States
<1>2. Advance(s.at, ch) = "text" \/ <<s.at, ch, Advance(s.at, ch)>> \in Edges
  BY <1>1, AdvanceEdge
<1>3. StepOf(s, ch).at = AtAfter(s, ch)
  BY DEF StepOf
<1>4. CASE ch \in s.in
  <2>1. s.in \subseteq Quotes
    BY DEF States
  <2> QED BY <2>1, <1>3, <1>4 DEF AtAfter, Quotes
<1>5. CASE ch \notin s.in /\ ch = "<"
  BY <1>3, <1>5 DEF AtAfter
<1>6. CASE ch \notin s.in /\ ch # "<" /\ ch = "bs" /\ s.in # {}
  BY <1>3, <1>6 DEF AtAfter
<1>7. CASE ch \notin s.in /\ ch # "<" /\ ~ (ch = "bs" /\ s.in # {})
  <2>1. AtAfter(s, ch) = Advance(s.at, ch)
    BY <1>7 DEF AtAfter
  <2> QED BY <2>1, <1>2, <1>3, <1>7
<1> QED BY <1>4, <1>5, <1>6, <1>7

(***************************************************************************)
(* The values a transition leads into are ones the scanner was in, or the  *)
(* one a quote after "=" opens; it leaves all of them only at the end of a *)
(* value.                                                                  *)
(***************************************************************************)
LEMMA NextValues ==
  ASSUME NEW s \in States, NEW ch \in Chars
  PROVE  /\ StepOf(s, ch).in # {} => s.in # {} \/ s.at = "eq"
         /\ s.in # {} /\ ch \notin s.in => StepOf(s, ch).in # {}
<1>1. StepOf(s, ch).in = InAfter(s, ch)
  BY DEF StepOf
<1> QED BY <1>1 DEF InAfter

(***************************************************************************)
(* What ActionOf says of the state and the character.                      *)
(***************************************************************************)
LEMMA ActionFacts ==
  ASSUME NEW s \in States, NEW ch \in Chars
  PROVE  /\ ActionOf(s, ch) = "echo_only" =>
              /\ ch \notin s.in /\ ch # "<"
              /\ ~ (s.at = "close_name" /\ ch = ">") /\ ~ (s.at = "name" /\ ch = ">")
              /\ ~ (s.at = "name" /\ ch = " ") /\ ~ (s.at = "attrs" /\ ch = ">")
              /\ ~ (s.at = "slash" /\ ch = ">") /\ ~ (s.at = "key" /\ ch = "=")
         /\ ActionOf(s, ch) = "begin" => ch \notin s.in /\ ch = "<"
         /\ ActionOf(s, ch) = "see_attribute_value" => ch \in s.in
         /\ ActionOf(s, ch) = "see_start_tag" => ch \notin s.in /\ ch = " " /\ s.at = "name"
         /\ ActionOf(s, ch) = "see_attribute_key" => ch \notin s.in /\ ch = "=" /\ s.at = "key"
         /\ ActionOf(s, ch) = "block_start_tag" => ch \notin s.in /\ ch = ">" /\ s.at = "name"
         /\ ActionOf(s, ch) = "block_end_tag" => ch \notin s.in /\ ch = ">" /\ s.at = "close_name"
         /\ ActionOf(s, ch) = "see_end_tag" => ch \notin s.in /\ ch = ">" /\ s.at = "slash"
         /\ ActionOf(s, ch) = "see_block_start_with_attributes" =>
              ch \notin s.in /\ ch = ">" /\ s.at = "attrs"
<1>1. ch \in s.in => ch \in {"dq", "sq"}
  BY DEF States, Quotes
<1> QED BY <1>1 DEF ActionOf

Actions ==
  {"echo_only", "begin", "see_start_tag", "see_attribute_key",
   "see_attribute_value", "block_start_tag", "block_end_tag", "see_end_tag",
   "see_block_start_with_attributes"}

\* Every transition runs one of these actions, or echo alone.
LEMMA ActionType ==
  ASSUME NEW s \in States, NEW ch \in Chars
  PROVE  ActionOf(s, ch) \in Actions
<1>1. ch \in s.in => ch \in {"dq", "sq"}
  BY DEF States, Quotes
<1> QED BY <1>1 DEF ActionOf, Actions

(***************************************************************************)
(* What an action tells of the state it is run in.                         *)
(***************************************************************************)
LEMMA ActionOrigin ==
  ASSUME NEW s \in States, NEW ch \in Chars
  PROVE  LET action == ActionOf(s, ch)
         IN  /\ action \notin {"echo_only", "begin"} => InTag(s)
             /\ action = "see_attribute_value" => HasKey(s)
             /\ action \in {"see_end_tag", "see_block_start_with_attributes"} => NamedTag(s)
             /\ action = "block_end_tag" => s.at \in Closing
<1> DEFINE action == ActionOf(s, ch)
<1>1. action \in Actions
  BY ActionType
<1>2. action \notin {"echo_only", "begin"} =>
        ch \in s.in \/ s.at \in {"name", "key", "close_name", "slash", "attrs"}
  BY <1>1, ActionFacts DEF Actions
<1>3. action = "see_attribute_value" => s.in # {}
  BY ActionFacts
<1> QED BY <1>2, <1>3, ActionFacts DEF InTag, HasKey, NamedTag, Closing

(***************************************************************************)
(* What of a tag a transition may be told to go on with, the state before  *)
(* it was told already, unless the action of the transition sets it.       *)
(***************************************************************************)
LEMMA TagKept ==
  ASSUME NEW s \in States, NEW ch \in Chars
  PROVE  LET t == StepOf(s, ch)
             action == ActionOf(s, ch)
         IN  /\ action = "echo_only" /\ InTag(t) => InTag(s)
             /\ t.at \in Closing =>
                  action = "echo_only" /\ s.at \in Closing \cup {"lt"}
             /\ action # "see_start_tag" /\ NamedTag(t) => NamedTag(s)
             /\ action # "see_attribute_key" /\ HasKey(t) => HasKey(s)
<1> DEFINE t == StepOf(s, ch)
           action == ActionOf(s, ch)
           Further == ch \notin s.in /\ ch # "<" /\ <<s.at, ch, t.at>> \in Edges
<1>1. action \in Actions
  BY ActionType
<1>2. \/ ch \in s.in /\ t.at = "attrs"
      \/ ch \notin s.in /\ ch = "<" /\ t.at = "lt"
      \/ s.in # {} /\ t.at = "bs"
      \/ t.at = "text"
      \/ Further
  BY NextStage
<1>3. t.in # {} => s.in # {} \/ s.at = "eq"
  BY NextValues
<1>4. Further =>
        /\ s.at \notin {"start", "text", "bs", "final"}
        /\ t.at \in NameSeen => s.at \in NameSeen \/ (s.at = "name" /\ ch = " ")
        /\ t.at = "eq" => s.at = "eq" \/ (s.at = "key" /\ ch = "=")
        /\ t.at \in Closing => ch \in Letters \cup {"/", ":"} /\ s.at \in Closing \cup {"lt"}
  <2> DEFINE at == s.at
             to == t.at
  <2>1. SUFFICES ASSUME <<at, ch, to>> \in Edges
                 PROVE  /\ at \notin {"start", "text", "bs", "final"}
                        /\ to \in NameSeen => at \in NameSeen \/ (at = "name" /\ ch = " ")
                        /\ to = "eq" => at = "eq" \/ (at = "key" /\ ch = "=")
                        /\ to \in Closing =>
                             ch \in Letters \cup {"/", ":"} /\ at \in Closing \cup {"lt"}
    OBVIOUS
  <2> HIDE DEF at, to
  <2> QED BY <2>1, EdgeOrigins
<1>5. Further /\ ch \in Letters \cup {"/", ":"} => action = "echo_only"
  BY <1>1, ActionFacts DEF Actions, Letters
<1>6. Further /\ s.at = "name" /\ ch = " " => action = "see_start_tag"
  BY <1>1, ActionFacts DEF Actions
<1>7. Further /\ s.at = "key" /\ ch = "=" => action = "see_attribute_key"
  BY <1>1, ActionFacts DEF Actions
<1>8. action = "echo_only" => ch \notin s.in /\ ch # "<"
  BY ActionFacts
<1> HIDE DEF t, action, Further
<1>9. action = "echo_only" /\ InTag(t) => InTag(s)
  BY <1>2, <1>3, <1>4, <1>8 DEF InTag
<1>10. t.at \in Closing => action = "echo_only" /\ s.at \in Closing \cup {"lt"}
  BY <1>2, <1>4, <1>5 DEF Closing
<1>11. action # "see_start_tag" /\ NamedTag(t) => NamedTag(s)
  BY <1>2, <1>3, <1>4, <1>6 DEF NamedTag, NameSeen
<1>12. action # "see_attribute_key" /\ HasKey(t) => HasKey(s)
  BY <1>2, <1>3, <1>4, <1>7 DEF HasKey
<1> QED BY <1>9, <1>10, <1>11, <1>12 DEF t, action

-----------------------------------------------------------------------------
(* Texts, and what is sent.                                                *)

(***************************************************************************)
(* What trimming skips and what it keeps is within the text                *)
(* (ltrim_pointer, rtrim_pointer).                                         *)
(***************************************************************************)
LEMMA TrimRange ==
  ASSUME NEW S, NEW text \in Seq(S)
  PROVE  /\ Trim(text).skip \in Nat /\ Trim(text).keep \in Nat
         /\ Trim(text).skip + Trim(text).keep <= Len(text)
<1> DEFINE lefts == {k \in 0..Len(text) : k = Len(text) \/ text[k + 1] \notin LeftTrims}
           skip  == LeftTrim(text)
           rest  == SubSeq(text, skip + 1, Len(text))
           rights == {k \in 0..Len(rest) : k <= 1 \/ rest[k] \notin RightTrims}
<1>1. Len(text) \in Nat
  OBVIOUS
<1>2. skip \in 0..Len(text)
  <2>1. lefts \subseteq Nat /\ Len(text) \in lefts
    BY <1>1
  <2>2. Min(lefts) \in lefts
    <3> HIDE DEF lefts
    <3> QED BY <2>1, MinOf
  <2> QED BY <2>2 DEF LeftTrim
<1> HIDE DEF skip
<1>3. rest \in Seq(S) /\ Len(rest) = Len(text) - skip
  <2>1. \A i \in (skip + 1)..Len(text) : text[i] \in S
    BY <1>1, <1>2
  <2>2. skip + 1 \in Int /\ Len(text) \in Int
    BY <1>1, <1>2
  <2>3. Len(rest) = IF skip + 1 <= Len(text) THEN Len(text) - (skip + 1) + 1 ELSE 0
    BY <2>1, <2>2, SubSeqProperties
  <2>4. rest \in Seq(S)
    BY <2>1, <2>2, SubSeqProperties
  <2> HIDE DEF rest
  <2> QED BY <1>1, <1>2, <2>3, <2>4
<1>4. RightTrim(rest) = Max(rights)
  BY DEF RightTrim
<1>5. Trim(text).skip = skip /\ Trim(text).keep = RightTrim(rest)
  BY DEF Trim, skip
<1>6. RightTrim(rest) \in 0..Len(rest)
  <2> HIDE DEF rest
  <2>1. rights \subseteq 0..Len(rest) /\ 0 \in rights /\ Len(rest) \in Nat
    BY <1>1, <1>2, <1>3
  <2>2. Max(rights) \in rights
    <3> HIDE DEF rights
    <3> QED BY <2>1, MaxOf
  <2> QED BY <2>2, <1>4
<1> HIDE DEF rest
<1> QED BY <1>1, <1>2, <1>3, <1>5, <1>6

\* The sets that LeftTrim and RightTrim choose from.
LeftEnds(text)  == {k \in 0..Len(text) : k = Len(text) \/ text[k + 1] \notin LeftTrims}
RightEnds(text) == {k \in 0..Len(text) : k <= 1 \/ text[k] \notin RightTrims}

\* Both trims stop as early as they may: they choose the first and the last end.
LEMMA TrimChosen ==
  ASSUME NEW S, NEW text \in Seq(S)
  PROVE  /\ LeftTrim(text) \in LeftEnds(text) /\ \A k \in LeftEnds(text) : LeftTrim(text) <= k
         /\ RightTrim(text) \in RightEnds(text) /\ \A k \in RightEnds(text) : RightTrim(text) >= k
<1>1. Len(text) \in Nat
  OBVIOUS
<1>2. Len(text) \in LeftEnds(text) /\ LeftEnds(text) \subseteq Nat
  BY <1>1 DEF LeftEnds
<1>3. 0 \in RightEnds(text) /\ RightEnds(text) \subseteq 0..Len(text)
  BY <1>1 DEF RightEnds
<1>4. LeftTrim(text) = Min(LeftEnds(text)) /\ RightTrim(text) = Max(RightEnds(text))
  BY DEF LeftTrim, RightTrim, LeftEnds, RightEnds
<1>5. LeftTrim(text) \in LeftEnds(text) /\ \A k \in LeftEnds(text) : LeftTrim(text) <= k
  <2>1. LeftEnds(text) # {}
    BY <1>2
  <2> QED BY <1>2, <1>4, <2>1, MinOf
<1>6. RightTrim(text) \in RightEnds(text) /\ \A k \in RightEnds(text) : RightTrim(text) >= k
  <2>1. RightEnds(text) # {}
    BY <1>3
  <2> QED BY <1>1, <1>3, <1>4, <2>1, MaxOf
<1> QED BY <1>5, <1>6

(***************************************************************************)
(* What is in front is trimmed off, and the rest kept, when the rest       *)
(* begins and ends with nothing that is trimmed.                           *)
(***************************************************************************)
LEMMA TrimIs ==
  ASSUME NEW S, NEW text \in Seq(S), NEW skip \in Nat, NEW keep \in Nat, Len(text) = skip + keep,
         \A i \in 1..skip : text[i] \in LeftTrims,
         keep = 0 \/ text[skip + 1] \notin LeftTrims,
         keep <= 1 \/ text[skip + keep] \notin RightTrims
  PROVE  Trim(text) = [skip |-> skip, keep |-> keep]
<1> DEFINE left == LeftTrim(text)
           rest == SubSeq(text, skip + 1, Len(text))
<1>1. left = skip
  <2>1. left \in LeftEnds(text) /\ \A k \in LeftEnds(text) : left <= k
    BY TrimChosen
  <2>2. skip \in LeftEnds(text)
    BY DEF LeftEnds
  <2>3. \A k \in LeftEnds(text) : ~ (k < skip)
    <3> SUFFICES ASSUME NEW k \in LeftEnds(text), k < skip PROVE FALSE
      OBVIOUS
    <3>1. k + 1 \in 1..skip /\ k # Len(text)
      BY DEF LeftEnds
    <3> QED BY <3>1 DEF LeftEnds
  <2>4. left \in Nat
    BY <2>1 DEF LeftEnds
  <2> HIDE DEF left
  <2> QED BY <2>1, <2>2, <2>3, <2>4
<1>2. rest \in Seq(S) /\ Len(rest) = keep /\ \A i \in 1..keep : rest[i] = text[skip + i]
  <2> DEFINE m == skip + 1
             n == Len(text)
  <2>1. m \in Int /\ n \in Int /\ m = skip + 1 /\ n = skip + keep
    OBVIOUS
  <2>2. \A i \in m..n : text[i] \in S
    OBVIOUS
  <2> HIDE DEF m, n
  <2>3. /\ SubSeq(text, m, n) \in Seq(S)
        /\ Len(SubSeq(text, m, n)) = IF m <= n THEN n - m + 1 ELSE 0
        /\ \A i \in 1..(n - m + 1) : SubSeq(text, m, n)[i] = text[m + i - 1]
    BY <2>1, <2>2, SubSeqProperties
  <2>4. n - m + 1 = keep /\ (IF m <= n THEN n - m + 1 ELSE 0) = keep
    BY <2>1
  <2>5. \A i \in 1..keep : m + i - 1 = skip + i
    BY <2>1
  <2> QED BY <2>3, <2>4, <2>5 DEF m, n
<1> HIDE DEF rest
<1>3. RightTrim(rest) = keep
  <2>1. RightTrim(rest) \in RightEnds(rest) /\ \A k \in RightEnds(rest) : RightTrim(rest) >= k
    BY <1>2, TrimChosen
  <2>2. keep \in RightEnds(rest)
    <3>1. keep <= 1 \/ rest[keep] = text[skip + keep]
      BY <1>2
    <3> QED BY <1>2, <3>1 DEF RightEnds
  <2>3. RightTrim(rest) \in 0..keep
    BY <1>2, <2>1 DEF RightEnds
  <2> QED BY <2>1, <2>2, <2>3
<1> QED BY <1>1, <1>3 DEF Trim, rest

(***************************************************************************)
(* How much of a full buffer is handed over, and how much stays.           *)
(***************************************************************************)
LEMMA WholeBuffers ==
  ASSUME NEW n \in Nat, NEW k \in Nat \ {0}
  PROVE  /\ (n \div k) * k \in Nat
         /\ (n \div k) * k <= n
         /\ n - (n \div k) * k < k
OBVIOUS

(***************************************************************************)
(* Sent bytes are calls of a handler.                                      *)
(***************************************************************************)
LEMMA OutputsType ==
  ASSUME NEW bytes \in Seq(Nat)
  PROVE  Outputs(bytes) \in Seq(Calls)
<1>1. \A i \in 1..Len(bytes) : <<bytes[i]>> \in Seq(Nat)
  OBVIOUS
<1>2. <<>> \in Attributes
  BY DEF Attributes
<1>3. \A i \in 1..Len(bytes) : Call("output", <<bytes[i]>>, <<>>) \in Calls
  BY <1>1, <1>2 DEF Call, Calls, Handlers
<1>4. DOMAIN bytes = 1..Len(bytes) /\ Len(bytes) \in Nat
  OBVIOUS
<1>5. Outputs(bytes) = [i \in 1..Len(bytes) |-> Call("output", <<bytes[i]>>, <<>>)]
  BY <1>4 DEF Outputs
<1> QED BY <1>3, <1>4, <1>5

(***************************************************************************)
(* esi_parser_echo_char keeps output_buffer short of full.                 *)
(***************************************************************************)
LEMMA EchoCharsType ==
  ASSUME TypeOK, NEW bytes \in Seq(Nat), EchoChars(bytes)
  PROVE  /\ calls' \in Seq(Calls)
         /\ output_buffer' \in Seq(Nat) /\ Len(output_buffer') < SIZE
<1> DEFINE all  == output_buffer \o bytes
           sent == (Len(all) \div SIZE) * SIZE
<1>1. all \in Seq(Nat) /\ Len(all) \in Nat
  BY DEF TypeOK
<1>2. calls' = calls \o Outputs(SubSeq(all, 1, sent))
  BY DEF EchoChars
<1>3. output_buffer' = SubSeq(all, sent + 1, Len(all))
  BY DEF EchoChars
<1> HIDE DEF all
<1>4. sent \in Nat /\ sent <= Len(all) /\ Len(all) - sent < SIZE
  BY <1>1, SIZEAssumption, WholeBuffers
<1> HIDE DEF sent
<1>5. SubSeq(all, 1, sent) \in Seq(Nat)
  <2>1. \A i \in 1..sent : all[i] \in Nat
    BY <1>1, <1>4
  <2> QED BY <2>1, <1>4, SubSeqProperties
<1>6. /\ SubSeq(all, sent + 1, Len(all)) \in Seq(Nat)
      /\ Len(SubSeq(all, sent + 1, Len(all))) =
           IF sent + 1 <= Len(all) THEN Len(all) - (sent + 1) + 1 ELSE 0
  <2>1. \A i \in (sent + 1)..Len(all) : all[i] \in Nat
    BY <1>1, <1>4
  <2>2. sent + 1 \in Int /\ Len(all) \in Int
    BY <1>1, <1>4
  <2> QED BY <2>1, <2>2, SubSeqProperties
<1>7. calls' \in Seq(Calls)
  BY <1>2, <1>5, OutputsType, ConcatProperties DEF TypeOK
<1> QED BY <1>1, <1>3, <1>4, <1>6, <1>7, SIZEAssumption

(***************************************************************************)
(* esi_parser_flush_output empties it, before what else is reported.       *)
(***************************************************************************)
LEMMA FlushOutputType ==
  ASSUME TypeOK, NEW reported \in Seq(Calls), FlushOutput(reported)
  PROVE  /\ calls' \in Seq(Calls)
         /\ output_buffer' \in Seq(Nat) /\ Len(output_buffer') < SIZE
<1>1. Outputs(output_buffer) \in Seq(Calls)
  BY OutputsType DEF TypeOK
<1>2. calls' \in Seq(Calls)
  BY <1>1 DEF FlushOutput, TypeOK
<1> QED BY <1>2, SIZEAssumption DEF FlushOutput

\* What a handler for tags is called with has the type of a call.
LEMMA TagCallType ==
  ASSUME NEW name \in Seq(Nat), NEW attrs \in Attributes
  PROVE  StartTag(name, attrs) \in Calls /\ EndTag(name) \in Calls
BY DEF StartTag, EndTag, Call, Calls, Handlers, Attributes

-----------------------------------------------------------------------------
(* The buffer the scanner goes over.                                       *)

(***************************************************************************)
(* The inductive invariant.                                                *)
(***************************************************************************)
Inv == TypeOK /\ PointersInBuffer

(***************************************************************************)
(* A byte of the buffer is a byte of the document.                         *)
(***************************************************************************)
LEMMA BufferType ==
  ASSUME Inv
  PROVE  /\ Buffer \in Seq(Nat) /\ Len(Buffer) \in Nat
         /\ \A k \in 1..Len(Buffer) : Buffer[k] \in Nat /\ doc[Buffer[k]] \in Chars
         /\ Here \in {"data", "overflow"}
<1>1. Buffer \in Seq(Nat) /\ Len(Buffer) \in Nat
  BY DEF Inv, TypeOK, Buffer
<1>2. ASSUME NEW k \in 1..Len(Buffer)
      PROVE  Buffer[k] \in Nat /\ doc[Buffer[k]] \in Chars
  <2>1. Buffer[k] = pos - Len(Buffer) + k /\ Len(Buffer) <= pos
    BY <1>2 DEF Inv, PointersInBuffer, BufferIsTail
  <2>2. doc \in Seq(Chars) /\ pos \in 0..Len(doc) /\ Len(doc) \in Nat
    BY DocsAssumption DEF Inv, TypeOK
  <2>3. Buffer[k] \in 1..Len(doc)
    BY <1>1, <2>1, <2>2
  <2> QED BY <2>2, <2>3
<1>3. Here \in {"data", "overflow"}
  BY DEF Here
<1> QED BY <1>1, <1>2, <1>3

\* The bytes from a pointer on, as many as are in the buffer, are bytes.
LEMMA BytesAtType ==
  ASSUME Inv, NEW q \in Pointers, NEW length \in Nat, q.off + length <= Len(Buffer)
  PROVE  BytesAt(q, length) \in Seq(Nat)
<1>1. q.off \in Nat
  BY DEF Pointers
<1>2. \A i \in (q.off + 1)..(q.off + length) : Buffer[i] \in Nat
  BY <1>1, BufferType
<1>3. q.off + 1 \in Int /\ q.off + length \in Int
  BY <1>1
<1> QED BY <1>2, <1>3, SubSeqProperties DEF BytesAt

(***************************************************************************)
(* A trimmed pointer stays within what it was trimmed from.                *)
(***************************************************************************)
LEMMA TrimmedPointerRange ==
  ASSUME Inv, NEW q \in Pointers, NEW length \in Nat, q.off + length <= Len(Buffer)
  PROVE  LET t == TrimmedPointer(q, length)
         IN  /\ t.at \in Pointers /\ t.at.buf = q.buf
             /\ t.length \in Nat
             /\ t.at.off + t.length <= q.off + length
             /\ t.at.off >= q.off
<1> DEFINE text == TextAt(q, length)
<1>1. q.off \in Nat /\ q.buf \in {"null", "lost", "data", "overflow"}
  BY DEF Pointers
<1>2. \A k \in 1..length : doc[Buffer[q.off + k]] \in Chars
  <2>1. \A k \in 1..length : q.off + k \in 1..Len(Buffer)
    BY <1>1, BufferType
  <2> QED BY <2>1, BufferType
<1>3. text \in Seq(Chars) /\ Len(text) = length
  BY <1>2 DEF TextAt
<1> HIDE DEF text
<1>4. /\ Trim(text).skip \in Nat /\ Trim(text).keep \in Nat
      /\ Trim(text).skip + Trim(text).keep <= length
  BY <1>3, TrimRange
<1>5. /\ TrimmedPointer(q, length).at = At(q.buf, q.off + Trim(text).skip)
      /\ TrimmedPointer(q, length).length = Trim(text).keep
  BY DEF TrimmedPointer, text
<1> QED BY <1>1, <1>4, <1>5 DEF At, Pointers

-----------------------------------------------------------------------------
(* One byte.                                                               *)

(***************************************************************************)
(* The byte to be parsed is of the document, and what is held back and     *)
(* released with it are bytes.                                             *)
(***************************************************************************)
LEMMA ByteType ==
  ASSUME Inv, AtByte
  PROVE  /\ p \in Nat /\ p + 1 <= Len(Buffer)
         /\ byte \in Nat /\ char \in Chars
         /\ cs \in States /\ target \in States
         /\ Held \in Seq(Nat) /\ Released \in Seq(Nat)
<1>1. p \in Nat /\ p + 1 \in 1..Len(Buffer) /\ Len(Buffer) \in Nat
  BY BufferType DEF Inv, TypeOK, AtByte
<1>2. byte \in Nat /\ char \in Chars
  BY <1>1, BufferType DEF byte, char
<1>3. cs \in States /\ target \in States
  BY <1>2, StepType DEF Inv, TypeOK, target
<1>4. Held \in Seq(Nat) /\ Released \in Seq(Nat)
  BY <1>2 DEF Held, Released, Inv, TypeOK
<1> QED BY <1>1, <1>2, <1>3, <1>4

(***************************************************************************)
(* What every action on a byte leaves as it was, and what it moves on.     *)
(***************************************************************************)
LEMMA StepFrame ==
  ASSUME Inv, NEW action, Step(action)
  PROVE  /\ doc' \in Docs /\ pos' \in 0..Len(doc')
         /\ pc = "exec" /\ pc' = "exec"
         /\ data' \in Seq(Nat) /\ overflow_data' \in Seq(Nat)
         /\ p' \in Nat
         /\ cs' \in States /\ prev_state' = cs' /\ cs' = target
         /\ echobuffer_allocated' \in Nat /\ echobuffer_size' \in Nat
         /\ fault' = "none"
         /\ Here' = Here /\ Parsed = p /\ Parsed' = p + 1
         /\ BufferIsTail'
<1>1. AtByte
  BY DEF Step
<1>2. p \in Nat /\ p + 1 <= Len(Buffer) /\ target \in States
  BY <1>1, ByteType
<1>3. /\ doc' = doc /\ pos' = pos /\ pc' = pc /\ data' = data
      /\ overflow_data' = overflow_data /\ fault' = fault
      /\ p' = p + 1 /\ cs' = target /\ prev_state' = target
  BY DEF Step, document
<1>4. pc = "exec" /\ fault = "none"
  BY <1>1 DEF AtByte
<1>5. Here' = Here /\ Buffer' = Buffer /\ Parsed = p /\ Parsed' = p + 1
  BY <1>3, <1>4 DEF Here, Buffer, Parsed
<1>6. BufferIsTail'
  BY <1>2, <1>3, <1>4, <1>5 DEF BufferIsTail, Inv, PointersInBuffer
<1>7. echobuffer_allocated' \in Nat /\ echobuffer_size' \in Nat
  BY DEF Step, EchobufferSize, Inv, TypeOK
<1> QED BY <1>2, <1>3, <1>4, <1>5, <1>6, <1>7 DEF Inv, TypeOK

(***************************************************************************)
(* The byte's own place is in the buffer once the byte is parsed.          *)
(***************************************************************************)
LEMMA AtPParsed ==
  ASSUME Inv, AtByte
  PROVE  AtP \in Pointers /\ AtP.buf = Here /\ AtP.off = p
BY ByteType, BufferType DEF AtP, At, Pointers

\* What an action may do to one of the pointers.
Stays(q, length)  == q' = q /\ length' = length
SetWithin(q, length) ==
  /\ q' \in Pointers /\ q'.buf = Here
  /\ length' \in Nat
  /\ q'.off + length' <= p

(***************************************************************************)
(* An action on a byte keeps the invariant if it sets the mark to the byte *)
(* (echo leaves it), does one of the above to the other pointers, and sets     *)
(* them where the scanner's new state needs them to be set.                *)
(***************************************************************************)
LEMMA StepKeepsInv ==
  ASSUME Inv, NEW action, Step(action),
         IF action = "echo_only" THEN mark' = mark ELSE mark' = AtP,
         \/ tag_text' = Null /\ tag_text_length' = 0
         \/ SetWithin(tag_text, tag_text_length)
         \/ action # "see_start_tag" /\ Stays(tag_text, tag_text_length),
         \/ SetWithin(attr_key, attr_key_length)
         \/ action # "see_attribute_key" /\ Stays(attr_key, attr_key_length),
         attributes' \in Attributes,
         echobuffer' \in Seq(Nat),
         calls' \in Seq(Calls),
         output_buffer' \in Seq(Nat), Len(output_buffer') < SIZE
  PROVE  Inv'
<1>1. AtByte /\ ActionOf(cs, char) = action
  BY DEF Step
<1>2. /\ p \in Nat /\ p + 1 <= Len(Buffer)
      /\ char \in Chars /\ cs \in States
  BY <1>1, ByteType
<1>3. cs' = StepOf(cs, char) /\ Parsed = p /\ Parsed' = p + 1 /\ Here' = Here
  BY StepFrame DEF target
<1>4. AtP \in Pointers /\ AtP.buf = Here /\ AtP.off = p
  BY <1>1, AtPParsed
<1>5. /\ action = "echo_only" /\ InTag(cs') => InTag(cs)
      /\ cs'.at \in Closing => action = "echo_only" /\ cs.at \in Closing \cup {"lt"}
      /\ action # "see_start_tag" /\ NamedTag(cs') => NamedTag(cs)
      /\ action # "see_attribute_key" /\ HasKey(cs') => HasKey(cs)
  BY <1>1, <1>2, <1>3, TagKept
<1>6. Null \in Pointers
  BY DEF Null, At, Pointers
<1>7. mark' \in Pointers /\ tag_text' \in Pointers /\ attr_key' \in Pointers
  BY <1>4, <1>6 DEF Inv, TypeOK, SetWithin, Stays
<1>8. tag_text_length' \in Nat /\ attr_key_length' \in Nat
  BY DEF Inv, TypeOK, SetWithin, Stays
<1>9. TypeOK'
  BY StepFrame, <1>7, <1>8 DEF TypeOK
<1>10. MarkInBuffer'
  <2>1. CASE action # "echo_only"
    BY <1>2, <1>3, <1>4, <1>5, <2>1 DEF MarkInBuffer, InParsed, Live
  <2>2. CASE action = "echo_only"
    <3>1. SUFFICES ASSUME InTag(cs') PROVE InParsed(mark, IF cs.at \in Closing THEN 2 ELSE 1)'
      BY DEF MarkInBuffer
    <3>2. InParsed(mark, IF cs.at \in Closing THEN 2 ELSE 1)
      BY <1>5, <2>2, <3>1 DEF Inv, PointersInBuffer, MarkInBuffer
    <3>3. mark.off \in Nat
      BY DEF Inv, TypeOK, Pointers
    <3> QED BY <1>2, <1>3, <1>5, <2>2, <3>2, <3>3 DEF InParsed, Live
  <2> QED BY <2>1, <2>2
<1>11. NameInBuffer'
  <2>1. CASE tag_text' = Null /\ tag_text_length' = 0
    BY <2>1 DEF NameInBuffer, Null, At
  <2>2. CASE SetWithin(tag_text, tag_text_length)
    BY <1>2, <1>3, <2>2 DEF NameInBuffer, SetWithin, InParsed, Live, Pointers
  <2>3. CASE action # "see_start_tag" /\ Stays(tag_text, tag_text_length)
    BY <1>2, <1>3, <1>5, <2>3
    DEF NameInBuffer, Stays, InParsed, Live, Inv, TypeOK, Pointers, PointersInBuffer, Null
  <2> QED BY <2>1, <2>2, <2>3
<1>12. KeyInBuffer'
  <2>1. CASE SetWithin(attr_key, attr_key_length)
    BY <1>2, <1>3, <2>1 DEF KeyInBuffer, SetWithin, InParsed, Live, Pointers
  <2>2. CASE action # "see_attribute_key" /\ Stays(attr_key, attr_key_length)
    BY <1>2, <1>3, <1>5, <2>2
    DEF KeyInBuffer, Stays, InParsed, Live, Inv, TypeOK, Pointers, PointersInBuffer
  <2> QED BY <2>1, <2>2
<1> QED BY <1>9, <1>10, <1>11, <1>12, StepFrame DEF Inv, PointersInBuffer

-----------------------------------------------------------------------------
(* The actions on a byte.                                                  *)

(***************************************************************************)
(* Where the mark is when an action other than echo and begin is run, and  *)
(* the other pointers when one is that follows them.                       *)
(***************************************************************************)
LEMMA PointersAtStep ==
  ASSUME Inv, NEW action, Step(action)
  PROVE  /\ mark \in Pointers /\ mark.off \in Nat
         /\ action \notin {"echo_only", "begin"} =>
              mark.buf = Here /\ mark.off + 1 <= p
         /\ action = "block_end_tag" => mark.off + 2 <= p
         /\ action = "see_attribute_value" => attr_key.off + attr_key_length <= p
         /\ action \in {"see_end_tag", "see_block_start_with_attributes"} =>
              tag_text.off + tag_text_length <= p
<1>1. AtByte /\ ActionOf(cs, char) = action /\ \A q \in Needs(action) : Live(q)
  BY DEF Step
<1>2. p \in Nat /\ char \in Chars /\ cs \in States /\ Parsed = p
  BY <1>1, ByteType, StepFrame
<1>3. mark \in Pointers /\ mark.off \in Nat
  BY DEF Inv, TypeOK, Pointers
<1>4. /\ action \notin {"echo_only", "begin"} => InTag(cs)
      /\ action = "see_attribute_value" => HasKey(cs)
      /\ action \in {"see_end_tag", "see_block_start_with_attributes"} => NamedTag(cs)
      /\ action = "block_end_tag" => cs.at \in Closing
  BY <1>1, <1>2, ActionOrigin
<1>5. InTag(cs) => mark.buf = Here /\ mark.off + 1 <= p
  BY <1>2, <1>3 DEF Inv, PointersInBuffer, MarkInBuffer, InParsed, Live
<1>6. InTag(cs) /\ cs.at \in Closing => mark.off + 2 <= p
  BY <1>2, <1>3 DEF Inv, PointersInBuffer, MarkInBuffer, InParsed, Live
<1>7. HasKey(cs) => attr_key.off + attr_key_length <= p
  BY <1>2 DEF Inv, PointersInBuffer, KeyInBuffer, InParsed
<1>8. action \in {"see_end_tag", "see_block_start_with_attributes"} => tag_text.buf = Here
  BY <1>1 DEF Needs, Live
<1>9. action \in {"see_end_tag", "see_block_start_with_attributes"} => tag_text # Null
  BY <1>8, BufferType DEF Null, At
<1>10. action \in {"see_end_tag", "see_block_start_with_attributes"} =>
         tag_text.off + tag_text_length <= p
  BY <1>2, <1>4, <1>9 DEF Inv, PointersInBuffer, NameInBuffer, InParsed
<1> QED BY <1>3, <1>4, <1>5, <1>6, <1>7, <1>10

\* `echo` alone leaves the pointers where they are.
LEMMA EchoOnlyInv == ASSUME Inv, EchoOnly PROVE Inv'
<1>1. Step("echo_only") /\ AtByte
  BY DEF EchoOnly, Step
<1>2. Released \in Seq(Nat) /\ Held \in Seq(Nat)
  BY <1>1, ByteType
<1>3. /\ calls' \in Seq(Calls)
      /\ output_buffer' \in Seq(Nat) /\ Len(output_buffer') < SIZE
  BY <1>2, EchoCharsType DEF EchoOnly, Inv
<1>4. /\ mark' = mark /\ Stays(tag_text, tag_text_length)
      /\ Stays(attr_key, attr_key_length)
      /\ attributes' \in Attributes /\ echobuffer' \in Seq(Nat)
  BY <1>2 DEF EchoOnly, pointers, lengths, Stays, Inv, TypeOK
<1> QED BY <1>1, <1>3, <1>4, StepKeepsInv

\* begin marks the "<" of a tag.
LEMMA BeginInv == ASSUME Inv, Begin PROVE Inv'
<1>1. Step("begin") /\ AtByte
  BY DEF Begin, Step
<1>2. /\ calls' \in Seq(Calls)
      /\ output_buffer' \in Seq(Nat) /\ Len(output_buffer') < SIZE
      /\ Stays(tag_text, tag_text_length) /\ Stays(attr_key, attr_key_length)
      /\ attributes' \in Attributes /\ echobuffer' \in Seq(Nat)
  BY <1>1, ByteType DEF Begin, lengths, output, Stays, Inv, TypeOK
<1>3. mark' = AtP
  BY DEF Begin
<1> QED BY <1>1, <1>2, <1>3, StepKeepsInv

\* see_start_tag sets the name to the bytes between the mark and this one.
LEMMA SeeStartTagInv == ASSUME Inv, SeeStartTag PROVE Inv'
<1>1. Step("see_start_tag") /\ AtByte
  BY DEF SeeStartTag, Step
<1>2. /\ calls' \in Seq(Calls)
      /\ output_buffer' \in Seq(Nat) /\ Len(output_buffer') < SIZE
      /\ Stays(attr_key, attr_key_length)
      /\ attributes' \in Attributes /\ echobuffer' \in Seq(Nat)
  BY <1>1, ByteType DEF SeeStartTag, output, Stays, Inv, TypeOK
<1>3. mark.off \in Nat /\ mark.buf = Here /\ mark.off + 1 <= p /\ p \in Nat
  BY <1>1, PointersAtStep, ByteType
<1>4. tag_text' = At(mark.buf, mark.off + 1) /\ tag_text_length' = p - (mark.off + 1)
  BY DEF SeeStartTag
<1>5. SetWithin(tag_text, tag_text_length)
  BY <1>3, <1>4, BufferType DEF SetWithin, At, Pointers
<1>6. mark' = AtP
  BY DEF SeeStartTag
<1> QED BY <1>1, <1>2, <1>5, <1>6, StepKeepsInv

\* see_attribute_key sets the key to those from the mark on, trimmed.
LEMMA SeeAttributeKeyInv == ASSUME Inv, SeeAttributeKey PROVE Inv'
<1>1. Step("see_attribute_key") /\ AtByte
  BY DEF SeeAttributeKey, Step
<1>2. /\ calls' \in Seq(Calls)
      /\ output_buffer' \in Seq(Nat) /\ Len(output_buffer') < SIZE
      /\ Stays(tag_text, tag_text_length)
      /\ attributes' \in Attributes /\ echobuffer' \in Seq(Nat)
  BY <1>1, ByteType DEF SeeAttributeKey, output, Stays, Inv, TypeOK
<1>3. /\ mark \in Pointers /\ mark.off \in Nat /\ mark.buf = Here /\ mark.off + 1 <= p
      /\ p \in Nat /\ p + 1 <= Len(Buffer) /\ Len(Buffer) \in Nat
  <2>1. p \in Nat /\ p + 1 <= Len(Buffer) /\ Len(Buffer) \in Nat
    BY <1>1, ByteType, BufferType
  <2> QED BY <1>1, <2>1, PointersAtStep
<1> DEFINE key == TrimmedPointer(mark, p - mark.off)
<1>4. attr_key' = key.at /\ attr_key_length' = key.length
  BY DEF SeeAttributeKey
<1>5. /\ p - mark.off \in Nat /\ mark.off + (p - mark.off) = p
      /\ mark.off + (p - mark.off) <= Len(Buffer)
  BY <1>3
<1>6. /\ key.at \in Pointers /\ key.at.buf = mark.buf /\ key.length \in Nat
      /\ key.at.off + key.length <= p
  BY <1>3, <1>5, TrimmedPointerRange
<1> HIDE DEF key
<1>7. SetWithin(attr_key, attr_key_length)
  BY <1>3, <1>4, <1>6 DEF SetWithin
<1>8. mark' = AtP
  BY DEF SeeAttributeKey
<1> QED BY <1>1, <1>2, <1>7, <1>8, StepKeepsInv

\* see_attribute_value reads a key and a value that are in the buffer.
LEMMA SeeAttributeValueInv == ASSUME Inv, SeeAttributeValue PROVE Inv'
<1>1. Step("see_attribute_value") /\ AtByte
  BY DEF SeeAttributeValue, Step
<1>2. /\ calls' \in Seq(Calls)
      /\ output_buffer' \in Seq(Nat) /\ Len(output_buffer') < SIZE
      /\ Stays(tag_text, tag_text_length) /\ Stays(attr_key, attr_key_length)
      /\ echobuffer' \in Seq(Nat)
  BY <1>1, ByteType DEF SeeAttributeValue, lengths, output, Stays, Inv, TypeOK
<1>3. p \in Nat /\ p + 1 <= Len(Buffer) /\ Len(Buffer) \in Nat
  BY <1>1, ByteType, BufferType
<1>4. /\ mark \in Pointers /\ mark.off \in Nat /\ mark.off + 1 <= p
      /\ attr_key \in Pointers /\ attr_key_length \in Nat
      /\ attr_key.off + attr_key_length <= p
  <2>1. attr_key \in Pointers /\ attr_key_length \in Nat
    BY DEF Inv, TypeOK
  <2> QED BY <1>1, <2>1, PointersAtStep
<1> DEFINE value == TrimmedPointer(mark, p - mark.off)
<1>5. /\ p - mark.off \in Nat /\ mark.off + (p - mark.off) = p
      /\ mark.off + (p - mark.off) <= Len(Buffer)
  BY <1>3, <1>4
<1>6. value.at \in Pointers /\ value.length \in Nat /\ value.at.off + value.length <= p
  BY <1>4, <1>5, TrimmedPointerRange
<1>7. attributes' = Append(attributes, [name  |-> BytesAt(attr_key, attr_key_length),
                                        value |-> BytesAt(value.at, value.length)])
  BY DEF SeeAttributeValue
<1> HIDE DEF value
<1>8. value.at.off \in Nat /\ attr_key.off \in Nat
  BY <1>4, <1>6 DEF Pointers
<1>9. /\ attr_key.off + attr_key_length <= Len(Buffer)
      /\ value.at.off + value.length <= Len(Buffer)
  BY <1>3, <1>4, <1>6, <1>8
<1>10. BytesAt(attr_key, attr_key_length) \in Seq(Nat)
  BY <1>4, <1>9, BytesAtType
<1>11. BytesAt(value.at, value.length) \in Seq(Nat)
  BY <1>6, <1>9, BytesAtType
<1>12. attributes' \in Attributes
  BY <1>7, <1>10, <1>11 DEF Attributes, Inv, TypeOK
<1>13. mark' = AtP
  BY DEF SeeAttributeValue
<1> QED BY <1>1, <1>2, <1>12, <1>13, StepKeepsInv

\* block_start_tag reports a name that is in the buffer.
LEMMA BlockStartTagInv == ASSUME Inv, BlockStartTag PROVE Inv'
<1>1. Step("block_start_tag") /\ AtByte
  BY DEF BlockStartTag, Step
<1>2. p \in Nat /\ p + 1 <= Len(Buffer) /\ Len(Buffer) \in Nat
  BY <1>1, ByteType, BufferType
<1>3. mark \in Pointers /\ mark.off \in Nat /\ mark.buf = Here /\ mark.off + 1 <= p
  BY <1>1, PointersAtStep
<1> DEFINE name == TrimmedPointer(mark, p - mark.off)
<1>4. /\ p - mark.off \in Nat /\ mark.off + (p - mark.off) = p
      /\ mark.off + (p - mark.off) <= Len(Buffer)
  BY <1>2, <1>3
<1>5. /\ name.at \in Pointers /\ name.at.buf = mark.buf /\ name.length \in Nat
      /\ name.at.off + name.length <= p
  BY <1>3, <1>4, TrimmedPointerRange
<1>6. /\ tag_text' = name.at /\ tag_text_length' = name.length
      /\ FlushOutput(<<StartTag(BytesAt(name.at, name.length), <<>>)>>)
  BY DEF BlockStartTag
<1> HIDE DEF name
<1>7. SetWithin(tag_text, tag_text_length)
  BY <1>3, <1>5, <1>6 DEF SetWithin
<1>8. BytesAt(name.at, name.length) \in Seq(Nat)
  <2>1. name.at.off \in Nat
    BY <1>5 DEF Pointers
  <2>2. name.at.off + name.length <= Len(Buffer)
    BY <1>2, <1>5, <2>1
  <2> QED BY <1>5, <2>2, BytesAtType
<1>9. <<StartTag(BytesAt(name.at, name.length), <<>>)>> \in Seq(Calls)
  <2>1. <<>> \in Attributes
    BY DEF Attributes
  <2>2. StartTag(BytesAt(name.at, name.length), <<>>) \in Calls
    BY <1>8, <2>1, TagCallType
  <2> QED BY <2>2
<1>10. /\ calls' \in Seq(Calls)
       /\ output_buffer' \in Seq(Nat) /\ Len(output_buffer') < SIZE
  BY <1>6, <1>9, FlushOutputType DEF Inv
<1>11. /\ attributes' \in Attributes /\ echobuffer' \in Seq(Nat) /\ mark' = AtP
       /\ Stays(attr_key, attr_key_length)
  BY DEF BlockStartTag, Attributes, Stays
<1> QED BY <1>1, <1>7, <1>10, <1>11, StepKeepsInv

\* block_end_tag steps over "</", which the mark is followed by.
LEMMA BlockEndTagInv == ASSUME Inv, BlockEndTag PROVE Inv'
<1>1. Step("block_end_tag") /\ AtByte
  BY DEF BlockEndTag, Step
<1>2. p \in Nat /\ p + 1 <= Len(Buffer) /\ Len(Buffer) \in Nat
  BY <1>1, ByteType, BufferType
<1>3. mark \in Pointers /\ mark.off \in Nat /\ mark.buf = Here /\ mark.off + 2 <= p
  BY <1>1, PointersAtStep
<1> DEFINE from == At(mark.buf, mark.off + 2)
           name == TrimmedPointer(from, p - (mark.off + 2))
<1>4. from \in Pointers /\ from.buf = Here /\ from.off = mark.off + 2
  BY <1>3, BufferType DEF At, Pointers
<1>5. /\ tag_text' = name.at /\ tag_text_length' = name.length
      /\ FlushOutput(<<EndTag(BytesAt(name.at, name.length))>>)
  BY DEF BlockEndTag
<1> HIDE DEF from
<1>6. /\ p - (mark.off + 2) \in Nat /\ from.off + (p - (mark.off + 2)) = p
      /\ from.off + (p - (mark.off + 2)) <= Len(Buffer)
  BY <1>2, <1>3, <1>4
<1>7. /\ name.at \in Pointers /\ name.at.buf = Here /\ name.length \in Nat
      /\ name.at.off + name.length <= p
  BY <1>4, <1>6, TrimmedPointerRange
<1> HIDE DEF name
<1>8. SetWithin(tag_text, tag_text_length)
  BY <1>5, <1>7 DEF SetWithin
<1>9. BytesAt(name.at, name.length) \in Seq(Nat)
  <2>1. name.at.off \in Nat
    BY <1>7 DEF Pointers
  <2>2. name.at.off + name.length <= Len(Buffer)
    BY <1>2, <1>7, <2>1
  <2> QED BY <1>7, <2>2, BytesAtType
<1>10. <<EndTag(BytesAt(name.at, name.length))>> \in Seq(Calls)
  <2>1. <<>> \in Attributes
    BY DEF Attributes
  <2>2. EndTag(BytesAt(name.at, name.length)) \in Calls
    BY <1>9, <2>1, TagCallType
  <2> QED BY <2>2
<1>11. /\ calls' \in Seq(Calls)
       /\ output_buffer' \in Seq(Nat) /\ Len(output_buffer') < SIZE
  BY <1>5, <1>10, FlushOutputType DEF Inv
<1>12. /\ attributes' \in Attributes /\ echobuffer' \in Seq(Nat) /\ mark' = AtP
       /\ Stays(attr_key, attr_key_length)
  BY DEF BlockEndTag, Stays, Inv, TypeOK
<1> QED BY <1>1, <1>8, <1>11, <1>12, StepKeepsInv

(***************************************************************************)
(* The name two of the actions report, from the pointer to it.             *)
(***************************************************************************)
LEMMA NameReported ==
  ASSUME Inv, NEW action \in {"see_end_tag", "see_block_start_with_attributes"},
         Step(action)
  PROVE  LET t    == TrimmedPointer(tag_text, tag_text_length)
             name == BytesAt(t.at, t.length)
         IN  StartTag(name, attributes) \in Calls /\ EndTag(name) \in Calls
<1> DEFINE t    == TrimmedPointer(tag_text, tag_text_length)
           name == BytesAt(t.at, t.length)
<1>1. p \in Nat /\ p + 1 <= Len(Buffer) /\ Len(Buffer) \in Nat
  <2>1. AtByte
    BY DEF Step
  <2> QED BY <2>1, ByteType, BufferType
<1>2. tag_text \in Pointers /\ tag_text_length \in Nat /\ attributes \in Attributes
  BY DEF Inv, TypeOK
<1>3. tag_text.off + tag_text_length <= p /\ tag_text.off \in Nat
  BY <1>2, PointersAtStep DEF Pointers
<1>4. tag_text.off + tag_text_length <= Len(Buffer)
  BY <1>1, <1>2, <1>3
<1>5. /\ t.at \in Pointers /\ t.length \in Nat
      /\ t.at.off + t.length <= tag_text.off + tag_text_length
  BY <1>2, <1>4, TrimmedPointerRange
<1> HIDE DEF t
<1>6. t.at.off \in Nat
  BY <1>5 DEF Pointers
<1>7. t.at.off + t.length <= Len(Buffer)
  BY <1>1, <1>2, <1>3, <1>4, <1>5, <1>6
<1>8. name \in Seq(Nat)
  BY <1>5, <1>7, BytesAtType
<1> HIDE DEF name
<1>9. StartTag(name, attributes) \in Calls /\ EndTag(name) \in Calls
  BY <1>2, <1>8, TagCallType
<1> QED BY <1>9 DEF name, t

\* What the two actions leave behind.
LEMMA ForgetType ==
  ASSUME Forget
  PROVE  /\ attributes' \in Attributes /\ echobuffer' \in Seq(Nat) /\ mark' = AtP
         /\ tag_text' = Null /\ tag_text_length' = 0
         /\ Stays(attr_key, attr_key_length)
BY DEF Forget, Attributes, Stays

\* see_end_tag reports the name and forgets it.
LEMMA SeeEndTagInv == ASSUME Inv, SeeEndTag PROVE Inv'
<1>1. Step("see_end_tag") /\ Forget
  BY DEF SeeEndTag
<1> DEFINE t    == TrimmedPointer(tag_text, tag_text_length)
           name == BytesAt(t.at, t.length)
<1>2. FlushOutput(<<StartTag(name, attributes), EndTag(name)>>)
  BY DEF SeeEndTag
<1>3. StartTag(name, attributes) \in Calls /\ EndTag(name) \in Calls
  BY <1>1, NameReported
<1> HIDE DEF name
<1>4. <<StartTag(name, attributes), EndTag(name)>> \in Seq(Calls)
  BY <1>3
<1>5. /\ calls' \in Seq(Calls)
      /\ output_buffer' \in Seq(Nat) /\ Len(output_buffer') < SIZE
  BY <1>2, <1>4, FlushOutputType DEF Inv
<1> QED BY <1>1, <1>5, ForgetType, StepKeepsInv

\* So does see_block_start_with_attributes.
LEMMA SeeBlockStartWithAttributesInv ==
  ASSUME Inv, SeeBlockStartWithAttributes PROVE Inv'
<1>1. Step("see_block_start_with_attributes") /\ Forget
  BY DEF SeeBlockStartWithAttributes
<1> DEFINE t    == TrimmedPointer(tag_text, tag_text_length)
           name == BytesAt(t.at, t.length)
<1>2. FlushOutput(<<StartTag(name, attributes)>>)
  BY DEF SeeBlockStartWithAttributes
<1>3. StartTag(name, attributes) \in Calls
  BY <1>1, NameReported
<1> HIDE DEF name
<1>4. <<StartTag(name, attributes)>> \in Seq(Calls)
  BY <1>3
<1>5. /\ calls' \in Seq(Calls)
      /\ output_buffer' \in Seq(Nat) /\ Len(output_buffer') < SIZE
  BY <1>2, <1>4, FlushOutputType DEF Inv
<1> QED BY <1>1, <1>5, ForgetType, StepKeepsInv

(***************************************************************************)
(* No pointer that is followed is wild: the only misuse of one is that of  *)
(* a tag's name no one has set.                                            *)
(***************************************************************************)
LEMMA MisuseInv == ASSUME Inv, Misuse PROVE Inv'
<1>1. AtByte /\ UNCHANGED <<document, pc, data, p, cs, prev_state, pointers, lengths,
                            attributes, overflow_data, echoing, output>>
  BY DEF Misuse
<1>2. char \in Chars /\ cs \in States /\ Here \in {"data", "overflow"}
  BY <1>1, ByteType, BufferType
<1> DEFINE action == ActionOf(cs, char)
<1>3. /\ action \notin {"echo_only", "begin"} => InTag(cs)
      /\ action = "see_attribute_value" => HasKey(cs)
      /\ action \in {"see_end_tag", "see_block_start_with_attributes"} => NamedTag(cs)
  BY <1>2, ActionOrigin
<1> HIDE DEF action
<1>4. \A q \in Needs(action) : Live(q) \/ q = Null
  BY <1>3 DEF Needs, Inv, PointersInBuffer, MarkInBuffer, NameInBuffer, KeyInBuffer, InParsed
<1>5. fault' \in {"echo_overrun", "null_pointer"}
  BY <1>4 DEF Misuse, action
<1>6. TypeOK'
  BY <1>1, <1>5 DEF TypeOK, Inv, document, pointers, lengths, echoing, output
<1>7. Here' = Here /\ Buffer' = Buffer /\ Parsed' = Parsed
  BY <1>1 DEF Here, Buffer, Parsed
<1>8. MarkInBuffer' /\ NameInBuffer' /\ KeyInBuffer'
  BY <1>1, <1>7
  DEF MarkInBuffer, NameInBuffer, KeyInBuffer, InParsed, Live, pointers, lengths,
      Inv, PointersInBuffer
<1>9. BufferIsTail'
  BY <1>1, <1>7 DEF BufferIsTail, MidTag, document, Inv, PointersInBuffer
<1> QED BY <1>1, <1>5, <1>6, <1>8, <1>9 DEF Inv, PointersInBuffer

-----------------------------------------------------------------------------
(* The calls.                                                              *)

(***************************************************************************)
(* Between calls there are pointers to be kept only if there is an overflow *)
(* buffer: otherwise the scanner is not in a tag.                          *)
(***************************************************************************)
LEMMA NoTagNoPointers ==
  ASSUME ~ MidTag
  PROVE  ~ InTag(cs) /\ ~ NamedTag(cs) /\ ~ HasKey(cs)
BY DEF MidTag, Start, Text, InTag, NamedTag, HasKey

(***************************************************************************)
(* The piece a call is given is the next of the document.                  *)
(***************************************************************************)
LEMMA PieceType ==
  ASSUME TypeOK, NEW n \in ChunkSizes
  PROVE  /\ n \in Nat \ {0} /\ Piece(n) \in Seq(Nat) /\ Len(Piece(n)) = n
         /\ Piece(n) # <<>>
         /\ \A k \in 1..n : Piece(n)[k] = pos + k
<1>1. n \in Nat \ {0} /\ pos \in Nat
  BY ChunkSizesAssumption, DocsAssumption DEF TypeOK
<1>2. Piece(n) \in Seq(Nat) /\ Len(Piece(n)) = n /\ \A k \in 1..n : Piece(n)[k] = pos + k
  BY <1>1 DEF Piece
<1>3. Piece(n) # <<>>
  BY <1>1, <1>2
<1> QED BY <1>1, <1>2, <1>3

\* A call is handed bytes of the document, the next of them.
LEMMA HandedType ==
  ASSUME TypeOK, NEW n \in ChunkSizes, Handed(n)
  PROVE  doc' = doc /\ pos' = pos + n /\ pos \in Nat /\ pos' \in 0..Len(doc)
<1>1. n \in Nat /\ pos \in Nat /\ Len(doc) \in Nat /\ pos <= Len(doc)
  BY PieceType, DocsAssumption DEF TypeOK
<1> QED BY <1>1 DEF Handed

\* A piece without a tag goes to the output; no pointer is left to keep.
LEMMA ExecutePlainInv ==
  ASSUME Inv, NEW n \in ChunkSizes, ExecutePlain(n) PROVE Inv'
<1>1. TypeOK /\ Handed(n) /\ cs = Text /\ EchoChars(Piece(n)) /\ pc = "idle"
  BY DEF Inv, ExecutePlain, Handed
<1>2. Piece(n) \in Seq(Nat) /\ n \in Nat
  BY <1>1, PieceType
<1>3. /\ calls' \in Seq(Calls)
      /\ output_buffer' \in Seq(Nat) /\ Len(output_buffer') < SIZE
  BY <1>1, <1>2, EchoCharsType
<1>4. doc' = doc /\ pos' = pos + n /\ pos \in Nat /\ pos' \in 0..Len(doc)
  BY <1>1, HandedType
<1>5. UNCHANGED <<pc, data, p, cs, prev_state, pointers, lengths, attributes,
                  overflow_data, echoing, fault>>
  BY DEF ExecutePlain
<1>6. TypeOK'
  BY <1>1, <1>3, <1>4, <1>5 DEF TypeOK, pointers, lengths, echoing
<1>7. ~ MidTag /\ data = <<>> /\ overflow_data = <<>> /\ fault # "wild_pointer" /\ prev_state = cs
  BY <1>1 DEF MidTag, Inv, PointersInBuffer, BufferIsTail
<1>8. /\ ~ MidTag' /\ data' = <<>> /\ overflow_data' = <<>> /\ pc' = "idle"
      /\ fault' # "wild_pointer" /\ prev_state' = cs' /\ cs' = cs
  BY <1>1, <1>5, <1>7 DEF MidTag
<1>9. MarkInBuffer' /\ NameInBuffer' /\ KeyInBuffer'
  BY <1>7, <1>8, NoTagNoPointers DEF MarkInBuffer, NameInBuffer, KeyInBuffer
<1>10. BufferIsTail'
  <2>1. Buffer' = <<>> /\ Len(Buffer') = 0
    BY <1>8 DEF Buffer
  <2> QED BY <1>2, <1>4, <1>8, <2>1 DEF BufferIsTail
<1> QED BY <1>6, <1>8, <1>9, <1>10 DEF Inv, PointersInBuffer

\* A piece after whole tags: no pointer is needed yet.
LEMMA ExecuteFreshInv ==
  ASSUME Inv, NEW n \in ChunkSizes, ExecuteFresh(n) PROVE Inv'
<1>1. TypeOK /\ Handed(n) /\ overflow_data = <<>> /\ pc = "idle"
  BY DEF Inv, ExecuteFresh, Handed
<1>2. /\ Piece(n) \in Seq(Nat) /\ Len(Piece(n)) = n /\ n \in Nat /\ Piece(n) # <<>>
      /\ \A k \in 1..n : Piece(n)[k] = pos + k
  BY <1>1, PieceType
<1>3. doc' = doc /\ pos' = pos + n /\ pos \in Nat /\ pos' \in 0..Len(doc)
  BY <1>1, HandedType
<1>4. pc' = "exec" /\ data' = Piece(n) /\ p' = 0 /\ mark' \in {At("data", 0), mark}
  BY DEF ExecuteFresh
<1>5. UNCHANGED <<cs, prev_state, tag_text, attr_key, lengths, attributes,
                  overflow_data, echoing, output, fault>>
  BY DEF ExecuteFresh
<1>6. At("data", 0) \in Pointers
  BY DEF At, Pointers
<1>7. TypeOK'
  BY <1>1, <1>2, <1>3, <1>4, <1>5, <1>6 DEF TypeOK, lengths, echoing, output
<1>8. ~ MidTag /\ fault' # "wild_pointer" /\ prev_state' = cs' /\ cs' = cs
  BY <1>1, <1>5 DEF Inv, PointersInBuffer, BufferIsTail
<1>9. MarkInBuffer' /\ NameInBuffer' /\ KeyInBuffer'
  BY <1>8, NoTagNoPointers DEF MarkInBuffer, NameInBuffer, KeyInBuffer
<1>10. BufferIsTail'
  <2>1. Buffer' = Piece(n)
    BY <1>1, <1>4, <1>5 DEF Buffer
  <2> QED BY <1>2, <1>3, <1>4, <2>1 DEF BufferIsTail
<1> QED BY <1>7, <1>8, <1>9, <1>10 DEF Inv, PointersInBuffer

(***************************************************************************)
(* A pointer into the buffer that is moved keeps its offset in the new     *)
(* one; NULL stays NULL.                                                   *)
(***************************************************************************)
LEMMA MovedType ==
  ASSUME NEW q \in Pointers, NEW from \in {"data", "overflow"}, NEW q2 \in Moved(q, from)
  PROVE  /\ q2 \in Pointers
         /\ q = Null => q2 = Null
         /\ q.buf = from => q2.buf = "overflow" /\ q2.off = q.off
<1>1. Null.buf = "null" /\ Lost \in Pointers /\ Null \in Pointers
  BY DEF Null, Lost, At, Pointers
<1>2. q.off \in Nat
  BY DEF Pointers
<1>3. At("overflow", q.off) \in Pointers
  BY <1>2 DEF At, Pointers
<1>4. CASE q = Null
  BY <1>1, <1>4 DEF Moved
<1>5. CASE q # Null /\ q.buf = from
  <2>1. q2 = At("overflow", q.off)
    BY <1>5 DEF Moved
  <2> QED BY <1>3, <1>5, <2>1 DEF At
<1>6. CASE q # Null /\ q.buf # from
  BY <1>1, <1>6 DEF Moved
<1> QED BY <1>4, <1>5, <1>6

(***************************************************************************)
(* A buffer that ends with byte number `last`, continued.                  *)
(***************************************************************************)
LEMMA TailContinued ==
  ASSUME NEW s \in Seq(Nat), NEW t \in Seq(Nat), NEW last \in Nat, Len(s) <= last,
         \A k \in 1..Len(s) : s[k] = last - Len(s) + k,
         \A k \in 1..Len(t) : t[k] = last + k
  PROVE  /\ s \o t \in Seq(Nat) /\ Len(s \o t) = Len(s) + Len(t)
         /\ \A k \in 1..Len(s \o t) : (s \o t)[k] = last + Len(t) - Len(s \o t) + k
<1>1. Len(s) \in Nat /\ Len(t) \in Nat
  OBVIOUS
<1>2. s \o t \in Seq(Nat) /\ Len(s \o t) = Len(s) + Len(t)
  OBVIOUS
<1>3. ASSUME NEW k \in 1..(Len(s) + Len(t))
      PROVE  (s \o t)[k] = last - Len(s) + k
  <2>1. CASE k <= Len(s)
    BY <1>1, <1>3, <2>1
  <2>2. CASE k > Len(s)
    <3>1. k - Len(s) \in 1..Len(t)
      BY <1>1, <1>3, <2>2
    <3>2. (s \o t)[k] = t[k - Len(s)]
      BY <1>1, <1>3, <2>2
    <3> QED BY <1>1, <1>3, <3>1, <3>2
  <2> QED BY <1>1, <1>3, <2>1, <2>2
<1>4. last + Len(t) - (Len(s) + Len(t)) = last - Len(s)
  BY <1>1
<1> QED BY <1>1, <1>2, <1>3, <1>4

\* A piece within a tag: the reallocated buffer holds the old one and it.
LEMMA ExecuteOverflowInv ==
  ASSUME Inv, NEW n \in ChunkSizes, ExecuteOverflow(n) PROVE Inv'
<1>1. TypeOK /\ Handed(n) /\ overflow_data # <<>> /\ pc = "idle"
  BY DEF Inv, ExecuteOverflow, Handed
<1>2. /\ Piece(n) \in Seq(Nat) /\ Len(Piece(n)) = n /\ n \in Nat \ {0} /\ Piece(n) # <<>>
      /\ \A k \in 1..n : Piece(n)[k] = pos + k
  BY <1>1, PieceType
<1>3. doc' = doc /\ pos' = pos + n /\ pos \in Nat /\ pos' \in 0..Len(doc)
  BY <1>1, HandedType
<1>4. /\ pc' = "exec" /\ data' = Piece(n) /\ p' = Len(overflow_data)
      /\ overflow_data' = overflow_data \o Piece(n)
      /\ tag_text' \in Moved(tag_text, "overflow")
      /\ attr_key' \in Moved(attr_key, "overflow")
  BY DEF ExecuteOverflow
<1>5. PICK q \in Moved(mark, "overflow") :
        mark' = IF q = Null THEN At("overflow", p') ELSE q
  BY DEF ExecuteOverflow
<1>6. UNCHANGED <<cs, prev_state, lengths, attributes, echoing, output, fault>>
  BY DEF ExecuteOverflow
<1>7. /\ overflow_data \in Seq(Nat) /\ Len(overflow_data) \in Nat
      /\ overflow_data' \in Seq(Nat) /\ Len(overflow_data') = Len(overflow_data) + n
      /\ overflow_data' # <<>> /\ Len(overflow_data) <= pos
      /\ \A k \in 1..Len(overflow_data') :
           overflow_data'[k] = pos + n - Len(overflow_data') + k
  <2>1. overflow_data \in Seq(Nat) /\ Len(overflow_data) \in Nat
    BY <1>1 DEF TypeOK
  <2>2. Len(overflow_data) <= pos /\ \A k \in 1..Len(overflow_data) :
          overflow_data[k] = pos - Len(overflow_data) + k
    BY <1>1 DEF Inv, PointersInBuffer, BufferIsTail, Buffer
  <2> DEFINE piece == Piece(n)
             both  == overflow_data \o piece
  <2>3. piece \in Seq(Nat) /\ Len(piece) = n /\ \A k \in 1..Len(piece) : piece[k] = pos + k
    BY <1>2
  <2>4. overflow_data' = both
    BY <1>4
  <2> HIDE DEF piece
  <2>5. /\ both \in Seq(Nat) /\ Len(both) = Len(overflow_data) + Len(piece)
        /\ \A k \in 1..Len(both) : both[k] = pos + Len(piece) - Len(both) + k
    BY <1>3, <2>1, <2>2, <2>3, TailContinued
  <2> HIDE DEF both
  <2>6. both # <<>>
    BY <1>2, <2>1, <2>3, <2>5
  <2> QED BY <2>1, <2>2, <2>3, <2>4, <2>5, <2>6
<1>8. mark \in Pointers /\ tag_text \in Pointers /\ attr_key \in Pointers
  BY <1>1 DEF TypeOK
<1>9. /\ tag_text' \in Pointers /\ attr_key' \in Pointers /\ q \in Pointers
      /\ tag_text = Null => tag_text' = Null
      /\ tag_text.buf = "overflow" => tag_text'.buf = "overflow" /\ tag_text'.off = tag_text.off
      /\ attr_key.buf = "overflow" => attr_key'.buf = "overflow" /\ attr_key'.off = attr_key.off
      /\ mark.buf = "overflow" => q.buf = "overflow" /\ q.off = mark.off
  BY <1>4, <1>5, <1>8, MovedType
<1>10. mark' \in Pointers
  BY <1>4, <1>5, <1>7, <1>9 DEF At, Pointers
<1>11. mark.buf = "overflow" => mark'.buf = "overflow" /\ mark'.off = mark.off
  BY <1>5, <1>9 DEF Null, At
<1>12. TypeOK'
  BY <1>1, <1>2, <1>3, <1>4, <1>6, <1>7, <1>9, <1>10
  DEF TypeOK, lengths, echoing, output
<1>13. /\ Here = "overflow" /\ Here' = "overflow"
       /\ Parsed = Len(overflow_data) /\ Parsed' = Len(overflow_data)
  BY <1>1, <1>4, <1>7 DEF Here, Parsed
<1>14. /\ cs' = cs /\ tag_text_length' = tag_text_length /\ attr_key_length' = attr_key_length
       /\ fault' # "wild_pointer" /\ prev_state' = cs'
  BY <1>6 DEF lengths, Inv, PointersInBuffer
<1>15. MarkInBuffer'
  BY <1>11, <1>13, <1>14 DEF Inv, PointersInBuffer, MarkInBuffer, InParsed, Live
<1>16. NameInBuffer' /\ KeyInBuffer'
  BY <1>9, <1>13, <1>14 DEF Inv, PointersInBuffer, NameInBuffer, KeyInBuffer, InParsed, Live
<1>17. BufferIsTail'
  <2>1. Buffer = overflow_data /\ Buffer' = overflow_data'
    BY <1>1, <1>7 DEF Buffer
  <2>2. Len(overflow_data') <= pos' /\ p' <= Len(overflow_data')
    BY <1>2, <1>3, <1>4, <1>7
  <2>3. ASSUME NEW k \in 1..Len(overflow_data')
        PROVE  overflow_data'[k] = pos' - Len(overflow_data') + k
    <3>1. overflow_data'[k] = pos + n - Len(overflow_data') + k
      BY <1>7
    <3>2. pos' = pos + n /\ pos \in Nat /\ n \in Nat /\ Len(overflow_data') \in Nat
      BY <1>2, <1>3, <1>7
    <3> QED BY <3>1, <3>2
  <2>4. pc' = "exec" /\ data' # <<>>
    BY <1>2, <1>4
  <2> QED BY <2>1, <2>2, <2>3, <2>4 DEF BufferIsTail
<1> QED BY <1>12, <1>14, <1>15, <1>16, <1>17 DEF Inv, PointersInBuffer

(***************************************************************************)
(* The end of a call: what all three ways to return have in common.        *)
(***************************************************************************)
LEMMA ReturnFrame ==
  ASSUME Inv, Return
  PROVE  /\ doc' = doc /\ pos' = pos /\ pc = "exec" /\ pc' = "idle"
         /\ data' = <<>> /\ p' = 0 /\ p = Len(Buffer)
         /\ cs' = cs /\ MidTag' = MidTag /\ prev_state' = cs' /\ fault' = "none"
         /\ tag_text_length' = tag_text_length /\ attr_key_length' = attr_key_length
         /\ Parsed = Len(Buffer) /\ Parsed' = Len(overflow_data')
<1>1. Parsed = p /\ Parsed' = Len(overflow_data')
  BY DEF Return, Parsed
<1> QED BY <1>1 DEF Return, document, lengths, MidTag, Inv, PointersInBuffer

\* Whatever becomes of the pointers and the overflow buffer on return.
LEMMA ReturnType ==
  ASSUME Inv, Return,
         mark' \in Pointers, tag_text' \in Pointers, attr_key' \in Pointers,
         overflow_data' \in Seq(Nat), echobuffer_allocated' \in Nat
  PROVE  TypeOK'
<1>1. UNCHANGED <<document, cs, prev_state, lengths, attributes, echobuffer,
                  echobuffer_size, output, fault>>
  BY DEF Return
<1>2. pc' = "idle" /\ data' = <<>> /\ p' = 0
  BY DEF Return
<1> QED BY <1>1, <1>2 DEF Inv, TypeOK, document, lengths, output

\* Within a tag the piece is saved and the pointers are moved to the copy.
LEMMA ReturnSavingInv == ASSUME Inv, ReturnSaving PROVE Inv'
<1>1. /\ Return /\ MidTag /\ overflow_data = <<>> /\ overflow_data' = data
      /\ mark' \in Moved(mark, "data")
      /\ tag_text' \in Moved(tag_text, "data")
      /\ attr_key' \in Moved(attr_key, "data")
  BY DEF ReturnSaving, MovePointers
<1>2. data \in Seq(Nat) /\ Len(data) \in Nat
  BY DEF Inv, TypeOK
<1>3. mark \in Pointers /\ tag_text \in Pointers /\ attr_key \in Pointers
  BY DEF Inv, TypeOK
<1>4. /\ mark' \in Pointers /\ tag_text' \in Pointers /\ attr_key' \in Pointers
      /\ tag_text = Null => tag_text' = Null
      /\ tag_text.buf = "data" => tag_text'.buf = "overflow" /\ tag_text'.off = tag_text.off
      /\ attr_key.buf = "data" => attr_key'.buf = "overflow" /\ attr_key'.off = attr_key.off
      /\ mark.buf = "data" => mark'.buf = "overflow" /\ mark'.off = mark.off
  BY <1>1, <1>3, MovedType
<1>5. echobuffer_allocated' \in Nat
  BY <1>2, SIZEAssumption DEF ReturnSaving
<1>6. TypeOK'
  BY <1>1, <1>2, <1>4, <1>5, ReturnType
<1>7. data # <<>> /\ Buffer = data /\ Here = "data"
  BY <1>1, ReturnFrame DEF Inv, PointersInBuffer, BufferIsTail, Buffer, Here
<1>8. Buffer' = data /\ Here' = "overflow" /\ Parsed = Len(data) /\ Parsed' = Len(data)
  BY <1>1, <1>7, ReturnFrame DEF Buffer, Here
<1>9. MarkInBuffer' /\ NameInBuffer' /\ KeyInBuffer'
  BY <1>1, <1>4, <1>7, <1>8, ReturnFrame
  DEF Inv, PointersInBuffer, MarkInBuffer, NameInBuffer, KeyInBuffer, InParsed, Live
<1>10. BufferIsTail'
  BY <1>1, <1>7, <1>8, ReturnFrame DEF BufferIsTail, Inv, PointersInBuffer
<1> QED BY <1>1, <1>6, <1>9, <1>10, ReturnFrame DEF Inv, PointersInBuffer

\* When the overflow buffer stays, so do the pointers into it.
LEMMA ReturnKeepingInv == ASSUME Inv, ReturnKeeping PROVE Inv'
<1>1. /\ Return /\ MidTag /\ overflow_data # <<>>
      /\ overflow_data' = overflow_data /\ echobuffer_allocated' = echobuffer_allocated
      /\ mark' = mark /\ tag_text' = tag_text /\ attr_key' = attr_key
  BY DEF ReturnKeeping, pointers
<1>2. TypeOK'
  <2>1. /\ mark \in Pointers /\ tag_text \in Pointers /\ attr_key \in Pointers
        /\ overflow_data \in Seq(Nat) /\ echobuffer_allocated \in Nat
    BY DEF Inv, TypeOK
  <2> QED BY <1>1, <2>1, ReturnType
<1>3. Buffer' = Buffer /\ Here' = Here /\ Parsed' = Parsed
  BY <1>1, ReturnFrame DEF Buffer, Here
<1>4. MarkInBuffer' /\ NameInBuffer' /\ KeyInBuffer'
  BY <1>1, <1>3, ReturnFrame
  DEF Inv, PointersInBuffer, MarkInBuffer, NameInBuffer, KeyInBuffer, InParsed, Live
<1>5. BufferIsTail'
  BY <1>1, <1>3, ReturnFrame DEF BufferIsTail, Inv, PointersInBuffer
<1> QED BY <1>1, <1>2, <1>4, <1>5, ReturnFrame DEF Inv, PointersInBuffer

\* Between tags no pointer is needed when the buffer is freed.
LEMMA ReturnBetweenTagsInv == ASSUME Inv, ReturnBetweenTags PROVE Inv'
<1>1. /\ Return /\ ~ MidTag /\ overflow_data' = <<>>
      /\ echobuffer_allocated' = echobuffer_allocated
      /\ mark' = Dropped(mark) /\ tag_text' = Dropped(tag_text)
      /\ attr_key' = Dropped(attr_key)
  BY DEF ReturnBetweenTags
<1>2. TypeOK'
  <2>1. mark' \in Pointers /\ tag_text' \in Pointers /\ attr_key' \in Pointers
    BY <1>1 DEF Dropped, Null, Lost, At, Pointers
  <2>2. overflow_data' \in Seq(Nat) /\ echobuffer_allocated' \in Nat
    BY <1>1 DEF Inv, TypeOK
  <2> QED BY <1>1, <2>1, <2>2, ReturnType
<1>3. MarkInBuffer' /\ NameInBuffer' /\ KeyInBuffer'
  BY <1>1, ReturnFrame, NoTagNoPointers DEF MarkInBuffer, NameInBuffer, KeyInBuffer
<1>4. BufferIsTail'
  <2>1. Buffer' = <<>> /\ Len(Buffer') = 0
    BY <1>1, ReturnFrame DEF Buffer
  <2>2. pos \in Nat
    BY DocsAssumption DEF Inv, TypeOK
  <2> QED BY <1>1, <2>1, <2>2, ReturnFrame DEF BufferIsTail
<1> QED BY <1>1, <1>2, <1>3, <1>4, ReturnFrame DEF Inv, PointersInBuffer

\* esi_parser_finish hands over what output_buffer holds, and no more.
LEMMA FinishInv == ASSUME Inv, Finish PROVE Inv'
<1>1. <<>> \in Seq(Calls)
  OBVIOUS
<1>2. /\ calls' \in Seq(Calls)
      /\ output_buffer' \in Seq(Nat) /\ Len(output_buffer') < SIZE
  BY <1>1, FlushOutputType DEF Finish, Inv
<1>3. /\ pc = "idle" /\ pc' = "ended"
      /\ UNCHANGED <<document, data, p, cs, prev_state, pointers, lengths,
                     attributes, overflow_data, echoing, fault>>
  BY DEF Finish
<1>4. TypeOK'
  BY <1>2, <1>3 DEF Inv, TypeOK, document, pointers, lengths, echoing
<1>5. Buffer' = Buffer /\ Here' = Here /\ Parsed' = Parsed
  BY <1>3 DEF Buffer, Here, Parsed
<1>6. MarkInBuffer' /\ NameInBuffer' /\ KeyInBuffer'
  BY <1>3, <1>5
  DEF Inv, PointersInBuffer, MarkInBuffer, NameInBuffer, KeyInBuffer, InParsed, Live,
      pointers, lengths
<1>7. BufferIsTail'
  BY <1>3, <1>5 DEF BufferIsTail, MidTag, document, Inv, PointersInBuffer
<1> QED BY <1>3, <1>4, <1>6, <1>7 DEF Inv, PointersInBuffer

-----------------------------------------------------------------------------
(***************************************************************************)
(* A parser that is new has no pointers and is in no tag.                  *)
(***************************************************************************)
LEMMA InitInv == Init => Inv
<1> SUFFICES ASSUME Init PROVE Inv
  OBVIOUS
<1>1. Start \in States /\ ~ InTag(Start) /\ ~ NamedTag(Start) /\ ~ HasKey(Start)
  BY DEF Start, States, Stages, InTag, NamedTag, HasKey
<1>2. Null \in Pointers /\ <<>> \in Attributes
  BY DEF Null, At, Pointers, Attributes
<1>3. pos \in 0..Len(doc) /\ pos = 0
  BY DocsAssumption DEF Init
<1>4. TypeOK
  BY <1>1, <1>2, <1>3, SIZEAssumption DEF Init, TypeOK
<1>5. Buffer = <<>> /\ Len(Buffer) = 0 /\ ~ MidTag
  BY DEF Init, Buffer, MidTag
<1>6. PointersInBuffer
  BY <1>1, <1>3, <1>5
  DEF Init, PointersInBuffer, MarkInBuffer, NameInBuffer, KeyInBuffer, BufferIsTail
<1> QED BY <1>4, <1>6 DEF Inv

\* The invariant is kept by every step.
LEMMA NextInv == Inv /\ [Next]_vars => Inv'
<1> SUFFICES ASSUME Inv, [Next]_vars PROVE Inv'
  OBVIOUS
<1>1. CASE UNCHANGED vars
  BY <1>1
  DEF vars, document, pointers, lengths, echoing, output, Inv, TypeOK, PointersInBuffer,
      MarkInBuffer, NameInBuffer, KeyInBuffer, BufferIsTail, InParsed, Live, Parsed,
      Here, Buffer, MidTag
<1>2. ASSUME NEW n \in ChunkSizes, ExecutePlain(n) \/ ExecuteFresh(n) \/ ExecuteOverflow(n)
      PROVE  Inv'
  BY <1>2, ExecutePlainInv, ExecuteFreshInv, ExecuteOverflowInv
<1>3. CASE \/ EchoOnly \/ Begin \/ SeeStartTag \/ SeeAttributeKey \/ SeeAttributeValue
           \/ BlockStartTag \/ BlockEndTag \/ SeeEndTag \/ SeeBlockStartWithAttributes
  BY <1>3, EchoOnlyInv, BeginInv, SeeStartTagInv, SeeAttributeKeyInv, SeeAttributeValueInv,
     BlockStartTagInv, BlockEndTagInv, SeeEndTagInv, SeeBlockStartWithAttributesInv
<1>4. CASE Misuse \/ ReturnSaving \/ ReturnKeeping \/ ReturnBetweenTags \/ Finish
  BY <1>4, MisuseInv, ReturnSavingInv, ReturnKeepingInv, ReturnBetweenTagsInv, FinishInv
<1> QED BY <1>1, <1>2, <1>3, <1>4 DEF Next

(***************************************************************************)
(* Whatever the documents, the pieces they arrive in and the size of the   *)
(* output buffer: every variable of the parser keeps its type, and         *)
(* output_buffer always has room for one more byte (esi_parser_echo_char). *)
(***************************************************************************)
THEOREM ParserTypeCorrect == Spec => []TypeOK
<1>1. Spec => []Inv
  BY InitInv, NextInv, PTL DEF Spec
<1>2. Inv => TypeOK
  BY DEF Inv
<1> QED BY <1>1, <1>2, PTL

(***************************************************************************)
(* Wherever a document is cut, mark, tag_text and attr_key point to the    *)
(* bytes of the buffer they were set to as long as the scanner needs them: *)
(* esi_parser_execute moves them right, and follows no wild pointer.       *)
(***************************************************************************)
THEOREM PointersCorrect == Spec => []PointersInBuffer
<1>1. Spec => []Inv
  BY InitInv, NextInv, PTL DEF Spec
<1>2. Inv => PointersInBuffer
  BY DEF Inv
<1> QED BY <1>1, <1>2, PTL

-----------------------------------------------------------------------------
(***************************************************************************)
(* The order of what is sent: what was sent, what output_buffer and        *)
(* echobuffer hold, the tag being read and what was not read yet follow    *)
(* each other in this order, wherever the document is cut.                 *)
(***************************************************************************)

(* Sequences of calls.                                                     *)

LastByte(c) == c.bytes[Len(c.bytes)]

\* Two calls are in order, unless both are tags or one has no bytes.
Before(c, d) ==
  "output" \in {c.handler, d.handler} /\ c.bytes # <<>> /\ d.bytes # <<>> =>
    LastByte(c) < d.bytes[1]

Ordered(s) == \A i, j \in DOMAIN s : i < j => Before(s[i], s[j])

\* No call, and no output, has a byte behind the n-th.
CallUpTo(c, n) == c.bytes # <<>> => LastByte(c) <= n
UpTo(s, n) == \A i \in DOMAIN s : CallUpTo(s[i], n)
OutputUpTo(s, n) == \A i \in DOMAIN s : s[i].handler = "output" => CallUpTo(s[i], n)

\* Bytes up to the n-th, in order and behind all calls.
Behind(bytes, s, n) ==
  \A k \in DOMAIN bytes :
    /\ UpTo(s, bytes[k] - 1) /\ bytes[k] <= n
    /\ \A l \in DOMAIN bytes : l < k => bytes[l] < bytes[k]

\* Calls that may follow s when nothing behind the n-th byte was parsed.
MayFollow(t, s, n) ==
  /\ Ordered(t) /\ UpTo(t, n)
  /\ \A i \in DOMAIN s, j \in DOMAIN t : Before(s[i], t[j])

(***************************************************************************)
(* A call of a sequence of calls has a last byte, which is a number.       *)
(***************************************************************************)
LEMMA LastByteType ==
  ASSUME NEW c \in Calls, c.bytes # <<>>
  PROVE  LastByte(c) \in Nat /\ c.bytes[1] \in Nat
BY DEF Calls, LastByte

\* A bound on the last byte of a call may be weakened.
LEMMA CallUpToMore ==
  ASSUME NEW c \in Calls, NEW m \in Int, NEW n \in Int, m <= n, CallUpTo(c, m)
  PROVE  CallUpTo(c, n)
BY LastByteType DEF CallUpTo

\* A bound may be weakened.
LEMMA UpToMore ==
  ASSUME NEW s \in Seq(Calls), NEW m \in Int, NEW n \in Int, m <= n
  PROVE  /\ UpTo(s, m) => UpTo(s, n) /\ OutputUpTo(s, n)
         /\ OutputUpTo(s, m) => OutputUpTo(s, n)
<1>1. \A i \in DOMAIN s : s[i] \in Calls
  OBVIOUS
<1>2. \A i \in DOMAIN s : CallUpTo(s[i], m) => CallUpTo(s[i], n)
  BY <1>1, CallUpToMore
<1> QED BY <1>2 DEF UpTo, OutputUpTo

(***************************************************************************)
(* The parts of a sequence of calls.                                       *)
(***************************************************************************)
LEMMA Parts ==
  ASSUME NEW s \in Seq(Calls), NEW t \in Seq(Calls)
  PROVE  /\ s \o t \in Seq(Calls)
         /\ \A i \in DOMAIN (s \o t) :
              \/ i \in DOMAIN s /\ (s \o t)[i] = s[i]
              \/ i - Len(s) \in DOMAIN t /\ i > Len(s) /\ (s \o t)[i] = t[i - Len(s)]
<1>1. /\ s \o t \in Seq(Calls) /\ Len(s \o t) = Len(s) + Len(t)
      /\ \A i \in 1..(Len(s) + Len(t)) :
           (s \o t)[i] = IF i <= Len(s) THEN s[i] ELSE t[i - Len(s)]
  BY ConcatProperties
<1>2. Len(s) \in Nat /\ Len(t) \in Nat /\ DOMAIN s = 1..Len(s) /\ DOMAIN t = 1..Len(t)
  OBVIOUS
<1>3. DOMAIN (s \o t) = 1..(Len(s) + Len(t))
  BY <1>1
<1> QED BY <1>1, <1>2, <1>3

(***************************************************************************)
(* Calls that may follow keep all in order.                                *)
(***************************************************************************)
LEMMA FollowedInOrder ==
  ASSUME NEW s \in Seq(Calls), NEW t \in Seq(Calls), NEW n \in Int,
         Ordered(s), UpTo(s, n), MayFollow(t, s, n)
  PROVE  Ordered(s \o t) /\ UpTo(s \o t, n)
<1>1. \A i \in DOMAIN (s \o t) :
        \/ i \in DOMAIN s /\ (s \o t)[i] = s[i]
        \/ i - Len(s) \in DOMAIN t /\ i > Len(s) /\ (s \o t)[i] = t[i - Len(s)]
  BY Parts
<1>2. Len(s) \in Nat /\ DOMAIN s = 1..Len(s) /\ DOMAIN t = 1..Len(t) /\ Len(t) \in Nat
  OBVIOUS
<1>3. UpTo(s \o t, n)
  BY <1>1 DEF UpTo, MayFollow
<1>4. ASSUME NEW i \in DOMAIN (s \o t), NEW j \in DOMAIN (s \o t), i < j
      PROVE  Before((s \o t)[i], (s \o t)[j])
  <2>1. i \in Nat /\ j \in Nat
    BY <1>1, <1>2, <1>4, Parts
  <2>2. CASE i \in DOMAIN s /\ j \in DOMAIN s /\ (s \o t)[i] = s[i] /\ (s \o t)[j] = s[j]
    BY <1>4, <2>2 DEF Ordered
  <2>3. CASE /\ i \in DOMAIN s /\ (s \o t)[i] = s[i]
             /\ j - Len(s) \in DOMAIN t /\ (s \o t)[j] = t[j - Len(s)]
    BY <2>3 DEF MayFollow
  <2>4. CASE /\ i - Len(s) \in DOMAIN t /\ (s \o t)[i] = t[i - Len(s)]
             /\ j - Len(s) \in DOMAIN t /\ (s \o t)[j] = t[j - Len(s)]
    <3>1. i - Len(s) < j - Len(s)
      BY <1>2, <1>4, <2>1
    <3> QED BY <2>4, <3>1 DEF MayFollow, Ordered
  <2>5. ~ (i > Len(s) /\ j \in DOMAIN s)
    BY <1>2, <1>4, <2>1
  <2> QED BY <1>1, <1>4, <2>2, <2>3, <2>4, <2>5
<1> QED BY <1>3, <1>4 DEF Ordered

(***************************************************************************)
(* Tags do not count as output.                                            *)
(***************************************************************************)
LEMMA TagsNoOutput ==
  ASSUME NEW s \in Seq(Calls), NEW t \in Seq(Calls), NEW n,
         \A j \in DOMAIN t : t[j].handler # "output",
         OutputUpTo(s, n)
  PROVE  OutputUpTo(s \o t, n)
BY Parts DEF OutputUpTo

(***************************************************************************)
(* Bytes that are behind all calls may follow them as output.              *)
(***************************************************************************)
LEMMA OutputsFollow ==
  ASSUME NEW bytes \in Seq(Nat), NEW s \in Seq(Calls), NEW n \in Int,
         Behind(bytes, s, n)
  PROVE  MayFollow(Outputs(bytes), s, n)
<1>1. /\ DOMAIN Outputs(bytes) = DOMAIN bytes
      /\ \A k \in DOMAIN bytes : Outputs(bytes)[k] = Call("output", <<bytes[k]>>, <<>>)
  BY DEF Outputs
<1>2. ASSUME NEW k \in DOMAIN bytes
      PROVE  /\ LastByte(Outputs(bytes)[k]) = bytes[k] /\ Outputs(bytes)[k].bytes[1] = bytes[k]
             /\ bytes[k] \in Nat /\ bytes[k] <= n
  BY <1>1 DEF Call, LastByte, Behind
<1>3. Ordered(Outputs(bytes))
  BY <1>1, <1>2 DEF Ordered, Before, Behind
<1>4. UpTo(Outputs(bytes), n)
  BY <1>1, <1>2 DEF UpTo, CallUpTo
<1>5. ASSUME NEW i \in DOMAIN s, NEW k \in DOMAIN bytes, s[i].bytes # <<>>
      PROVE  LastByte(s[i]) < bytes[k]
  <2>1. LastByte(s[i]) \in Nat
    BY <1>5, LastByteType
  <2>2. LastByte(s[i]) <= bytes[k] - 1
    BY <1>5 DEF Behind, UpTo, CallUpTo
  <2> QED BY <1>2, <2>1, <2>2
<1>6. \A i \in DOMAIN s, k \in DOMAIN Outputs(bytes) : Before(s[i], Outputs(bytes)[k])
  BY <1>1, <1>2, <1>5 DEF Before
<1> QED BY <1>3, <1>4, <1>6 DEF MayFollow

(***************************************************************************)
(* A tag whose name is behind all output may follow it, and so may two of  *)
(* the same name.                                                          *)
(***************************************************************************)
LEMMA TagsFollow ==
  ASSUME NEW s \in Seq(Calls), NEW t \in Seq(Calls), NEW n \in Int,
         NEW m \in Int, OutputUpTo(s, m),
         \A j \in DOMAIN t :
           /\ t[j].handler # "output"
           /\ t[j].bytes # <<>> => t[j].bytes[1] > m /\ LastByte(t[j]) <= n
  PROVE  MayFollow(t, s, n)
<1>1. Ordered(t)
  BY DEF Ordered, Before
<1>2. UpTo(t, n)
  BY DEF UpTo, CallUpTo
<1>3. ASSUME NEW i \in DOMAIN s, NEW j \in DOMAIN t,
             s[i].handler = "output", s[i].bytes # <<>>, t[j].bytes # <<>>
      PROVE  LastByte(s[i]) < t[j].bytes[1]
  <2>1. LastByte(s[i]) <= m /\ t[j].bytes[1] > m
    BY <1>3 DEF OutputUpTo, CallUpTo
  <2>2. LastByte(s[i]) \in Nat /\ t[j].bytes[1] \in Nat
    BY <1>3, LastByteType
  <2> QED BY <2>1, <2>2
<1>4. \A i \in DOMAIN s, j \in DOMAIN t : Before(s[i], t[j])
  BY <1>3 DEF Before
<1> QED BY <1>1, <1>2, <1>4 DEF MayFollow

-----------------------------------------------------------------------------
(* Where the parser is.                                                    *)

\* How many bytes of the document are in front of Buffer, and have been parsed.
Base == pos - Len(Buffer)
Frontier == Base + Parsed

(***************************************************************************)
(* The inductive invariant: what is sent is in order and of bytes that     *)
(* were parsed; so is what is held back, behind it; within a tag the mark  *)
(* and the tag's name are behind all text that is sent.                    *)
(***************************************************************************)
OrderInv ==
  /\ Ordered(Sent) /\ UpTo(Sent, Frontier)
  /\ Behind(echobuffer, Sent, Frontier)
  /\ cs = Text => echobuffer = <<>>
  /\ InTag(cs) => OutputUpTo(Sent, Base + mark.off)
  /\ NamedTag(cs) => tag_text = Null \/ OutputUpTo(Sent, Base + tag_text.off)

\* Every byte of Buffer has its place in the document.
LEMMA Places ==
  ASSUME Inv
  PROVE  /\ Sent \in Seq(Calls)
         /\ Base \in Nat /\ Parsed \in Nat /\ Frontier \in Nat
         /\ Parsed <= Len(Buffer) /\ (pc # "exec" => Frontier = pos)
         /\ \A k \in 1..Len(Buffer) : Buffer[k] = Base + k
<1>1. Sent \in Seq(Calls)
  BY OutputsType, ConcatProperties DEF Sent, Inv, TypeOK
<1>2. pos \in Nat /\ Len(Buffer) \in Nat /\ Len(Buffer) <= pos
  BY BufferType, DocsAssumption DEF Inv, TypeOK, PointersInBuffer, BufferIsTail
<1>3. CASE pc = "exec"
  <2>1. Parsed = p /\ p \in Nat /\ p <= Len(Buffer)
    BY <1>3 DEF Parsed, Inv, TypeOK, PointersInBuffer, BufferIsTail
  <2> QED BY <1>1, <1>2, <1>3, <2>1 DEF Base, Frontier, Inv, PointersInBuffer, BufferIsTail
<1>4. CASE pc # "exec"
  <2>1. Parsed = Len(Buffer)
    BY <1>4 DEF Parsed, Buffer, Inv, PointersInBuffer, BufferIsTail
  <2> QED BY <1>1, <1>2, <1>4, <2>1 DEF Base, Frontier, Inv, PointersInBuffer, BufferIsTail
<1> QED BY <1>3, <1>4

(***************************************************************************)
(* Outputs of bytes one after the other.                                   *)
(***************************************************************************)
LEMMA OutputsAre ==
  ASSUME NEW bytes \in Seq(Nat)
  PROVE  /\ Outputs(bytes) \in Seq(Calls) /\ Len(Outputs(bytes)) = Len(bytes)
         /\ \A i \in 1..Len(bytes) : Outputs(bytes)[i] = Call("output", <<bytes[i]>>, <<>>)
<1>1. Outputs(bytes) \in Seq(Calls)
  BY OutputsType
<1>2. Len(bytes) \in Nat /\ DOMAIN bytes = 1..Len(bytes)
  OBVIOUS
<1>3. DOMAIN Outputs(bytes) = 1..Len(bytes)
  BY <1>2 DEF Outputs
<1>4. Len(Outputs(bytes)) = Len(bytes)
  BY <1>1, <1>2, <1>3
<1> QED BY <1>1, <1>2, <1>4 DEF Outputs

\* In particular those of two sequences.
LEMMA OutputsConcat ==
  ASSUME NEW s \in Seq(Nat), NEW t \in Seq(Nat)
  PROVE  Outputs(s \o t) = Outputs(s) \o Outputs(t)
<1> DEFINE st == s \o t
           a  == Outputs(s)
           b  == Outputs(t)
           c  == Outputs(st)
<1>1. /\ st \in Seq(Nat) /\ Len(st) = Len(s) + Len(t)
      /\ \A i \in 1..(Len(s) + Len(t)) : st[i] = IF i <= Len(s) THEN s[i] ELSE t[i - Len(s)]
      /\ Len(s) \in Nat /\ Len(t) \in Nat
  BY ConcatProperties
<1> HIDE DEF st
<1>2. /\ a \in Seq(Calls) /\ Len(a) = Len(s)
      /\ \A i \in 1..Len(s) : a[i] = Call("output", <<s[i]>>, <<>>)
      /\ b \in Seq(Calls) /\ Len(b) = Len(t)
      /\ \A i \in 1..Len(t) : b[i] = Call("output", <<t[i]>>, <<>>)
      /\ c \in Seq(Calls) /\ Len(c) = Len(st)
      /\ \A i \in 1..Len(st) : c[i] = Call("output", <<st[i]>>, <<>>)
  BY <1>1, OutputsAre
<1> HIDE DEF a, b, c
<1>3. /\ a \o b \in Seq(Calls) /\ Len(a \o b) = Len(a) + Len(b)
      /\ \A i \in 1..(Len(a) + Len(b)) :
           (a \o b)[i] = IF i <= Len(a) THEN a[i] ELSE b[i - Len(a)]
  <2>1. a \in Seq(Calls) /\ b \in Seq(Calls)
    BY <1>2
  <2> QED BY <2>1, ConcatProperties, Zenon
<1>4. ASSUME NEW i \in 1..Len(c)
      PROVE  c[i] = (a \o b)[i]
  <2>1. i \in Nat /\ i \in 1..(Len(s) + Len(t)) /\ i \in 1..Len(st)
    BY <1>1, <1>2
  <2>2. CASE i <= Len(s)
    <3>1. i \in 1..Len(s)
      BY <1>1, <2>1, <2>2
    <3> QED BY <1>1, <1>2, <1>3, <2>1, <2>2, <3>1
  <2>3. CASE ~ (i <= Len(s))
    <3>1. i - Len(s) \in 1..Len(t)
      BY <1>1, <2>1, <2>3
    <3> QED BY <1>1, <1>2, <1>3, <2>1, <2>3, <3>1
  <2> QED BY <2>2, <2>3
<1>5. Len(c) = Len(a \o b)
  BY <1>1, <1>2, <1>3
<1>6. c = a \o b
  BY <1>2, <1>3, <1>4, <1>5, SeqEqual
<1> QED BY <1>6 DEF a, b, c, st

\* A sequence cut in two.
LEMMA CutInTwo ==
  ASSUME NEW s \in Seq(Nat), NEW n \in 0..Len(s)
  PROVE  /\ SubSeq(s, 1, n) \in Seq(Nat) /\ SubSeq(s, n + 1, Len(s)) \in Seq(Nat)
         /\ SubSeq(s, 1, n) \o SubSeq(s, n + 1, Len(s)) = s
<1> DEFINE a == SubSeq(s, 1, n)
           b == SubSeq(s, n + 1, Len(s))
<1>1. Len(s) \in Nat /\ n \in Nat
  OBVIOUS
<1>2. a \in Seq(Nat) /\ Len(a) = n /\ \A i \in 1..n : a[i] = s[i]
  <2>1. \A i \in 1..n : s[i] \in Nat
    OBVIOUS
  <2> QED BY <1>1, <2>1, SubSeqProperties
<1>3. b \in Seq(Nat) /\ Len(b) = Len(s) - n /\ \A i \in 1..(Len(s) - n) : b[i] = s[n + i]
  <2>1. \A i \in (n + 1)..Len(s) : s[i] \in Nat
    BY <1>1
  <2>2. /\ b \in Seq(Nat)
        /\ Len(b) = IF n + 1 <= Len(s) THEN Len(s) - (n + 1) + 1 ELSE 0
        /\ \A i \in 1..(Len(s) - (n + 1) + 1) : b[i] = s[n + 1 + i - 1]
    BY <1>1, <2>1, SubSeqProperties
  <2> HIDE DEF b
  <2> QED BY <1>1, <2>2
<1> HIDE DEF a, b
<1>4. /\ a \o b \in Seq(Nat) /\ Len(a \o b) = Len(s)
      /\ \A i \in 1..Len(s) : (a \o b)[i] = IF i <= n THEN a[i] ELSE b[i - n]
  <2>1. /\ a \o b \in Seq(Nat) /\ Len(a \o b) = Len(a) + Len(b)
        /\ \A i \in 1..(Len(a) + Len(b)) :
             (a \o b)[i] = IF i <= Len(a) THEN a[i] ELSE b[i - Len(a)]
    BY <1>2, <1>3, ConcatProperties
  <2>2. Len(a) + Len(b) = Len(s)
    BY <1>1, <1>2, <1>3
  <2> QED BY <1>2, <2>1, <2>2
<1>5. \A i \in 1..Len(s) : (a \o b)[i] = s[i]
  <2> TAKE i \in 1..Len(s)
  <2>1. CASE i <= n
    BY <1>1, <1>2, <1>4, <2>1
  <2>2. CASE ~ (i <= n)
    <3>1. i - n \in 1..(Len(s) - n) /\ n + (i - n) = i
      BY <1>1, <2>2
    <3> QED BY <1>3, <1>4, <2>2, <3>1
  <2> QED BY <2>1, <2>2
<1>6. a \o b = s
  BY <1>4, <1>5, SeqEqual
<1> QED BY <1>2, <1>3, <1>6 DEF a, b

\* Concatenation is associative.
LEMMA ConcatThree ==
  ASSUME NEW r \in Seq(Calls), NEW s \in Seq(Calls), NEW t \in Seq(Calls)
  PROVE  (r \o s) \o t = r \o (s \o t)
BY ConcatAssociative

(***************************************************************************)
(* esi_parser_echo_char adds to what is sent, whether it hands over or not.*)
(***************************************************************************)
LEMMA SentByEcho ==
  ASSUME TypeOK, NEW bytes \in Seq(Nat), EchoChars(bytes)
  PROVE  Sent' = Sent \o Outputs(bytes)
<1> DEFINE all  == output_buffer \o bytes
           sent == (Len(all) \div SIZE) * SIZE
           a    == SubSeq(all, 1, sent)
           b    == SubSeq(all, sent + 1, Len(all))
<1>1. all \in Seq(Nat) /\ Len(all) \in Nat /\ output_buffer \in Seq(Nat) /\ calls \in Seq(Calls)
  BY DEF TypeOK
<1>2. calls' = calls \o Outputs(a) /\ output_buffer' = b
  BY DEF EchoChars
<1>3. a \in Seq(Nat) /\ b \in Seq(Nat) /\ a \o b = all
  <2> HIDE DEF all
  <2>1. sent \in 0..Len(all)
    <3>1. sent \in Nat /\ sent <= Len(all)
      BY <1>1, SIZEAssumption, WholeBuffers
    <3> HIDE DEF sent
    <3> QED BY <1>1, <3>1
  <2> HIDE DEF sent
  <2> QED BY <1>1, <2>1, CutInTwo
<1>4. Outputs(a) \o Outputs(b) = Outputs(output_buffer) \o Outputs(bytes)
  <2>1. Outputs(a \o b) = Outputs(a) \o Outputs(b)
    <3> HIDE DEF a, b
    <3> QED BY <1>3, OutputsConcat
  <2>2. Outputs(all) = Outputs(output_buffer) \o Outputs(bytes)
    BY <1>1, OutputsConcat
  <2> HIDE DEF all, a, b
  <2> QED BY <1>3, <2>1, <2>2
<1> HIDE DEF a, b
<1>5. /\ Outputs(a) \in Seq(Calls) /\ Outputs(b) \in Seq(Calls)
      /\ Outputs(output_buffer) \in Seq(Calls) /\ Outputs(bytes) \in Seq(Calls)
  BY <1>1, <1>3, OutputsType
<1>6. (calls \o Outputs(a)) \o Outputs(b) = calls \o (Outputs(a) \o Outputs(b))
  BY <1>1, <1>5, ConcatThree
<1>7. (calls \o Outputs(output_buffer)) \o Outputs(bytes) =
        calls \o (Outputs(output_buffer) \o Outputs(bytes))
  BY <1>1, <1>5, ConcatThree
<1>8. Sent' = calls' \o Outputs(output_buffer')
  BY DEF Sent, Outputs, Call
<1> QED BY <1>2, <1>4, <1>6, <1>7, <1>8 DEF Sent

\* So does esi_parser_flush_output, and what is reported follows.
LEMMA SentByFlush ==
  ASSUME TypeOK, NEW reported \in Seq(Calls), FlushOutput(reported)
  PROVE  Sent' = Sent \o reported
<1>1. Outputs(<<>>) = <<>>
  BY DEF Outputs
<1>2. calls' = Sent \o reported /\ output_buffer' = <<>>
  BY DEF FlushOutput, Sent
<1>3. Sent \in Seq(Calls)
  BY OutputsType, ConcatProperties DEF Sent, TypeOK
<1>4. Sent' = calls' \o Outputs(output_buffer')
  BY DEF Sent, Outputs, Call
<1>5. Sent \o reported \in Seq(Calls)
  BY <1>3, ConcatProperties
<1> QED BY <1>1, <1>2, <1>4, <1>5, ConcatEmptySeq

\* What was sent is what the two variables of the output say.
LEMMA SentStays ==
  ASSUME UNCHANGED output
  PROVE  Sent' = Sent
BY DEF output, Sent, Outputs, Call

-----------------------------------------------------------------------------
(* One byte.                                                               *)

(***************************************************************************)
(* The byte that is parsed is the first that was not.                      *)
(***************************************************************************)
LEMMA StepPlaces ==
  ASSUME Inv, NEW action, Step(action)
  PROVE  /\ Base' = Base /\ Frontier' = Frontier + 1 /\ Frontier = Base + p
         /\ byte = Frontier + 1 /\ byte \in Nat
         /\ Base \in Nat /\ Frontier \in Nat /\ p \in Nat
         /\ AtP.off = p /\ cs' = target
         /\ Sent \in Seq(Calls)
<1>1. AtByte
  BY DEF Step
<1>2. p \in Nat /\ p + 1 <= Len(Buffer) /\ byte \in Nat /\ Len(Buffer) \in Nat
  BY <1>1, ByteType, BufferType
<1>3. Parsed = p /\ Parsed' = p + 1 /\ cs' = target
  BY StepFrame
<1>4. Base' = Base
  BY DEF Step, document, Base, Buffer
<1>5. Base \in Nat /\ Frontier \in Nat /\ Sent \in Seq(Calls) /\ Buffer[p + 1] = Base + (p + 1)
  BY <1>2, Places
<1> QED BY <1>1, <1>2, <1>3, <1>4, <1>5, AtPParsed DEF Frontier, byte

\* Between tags there is nothing to keep.
LEMMA TextNoTag == ~ InTag(Text) /\ ~ NamedTag(Text)
BY DEF Text, InTag, NamedTag

(***************************************************************************)
(* What is held back with the byte is behind what is sent.                 *)
(***************************************************************************)
LEMMA ByteBehind ==
  ASSUME Inv, OrderInv, NEW action, Step(action)
  PROVE  /\ Append(echobuffer, byte) \in Seq(Nat)
         /\ Behind(Append(echobuffer, byte), Sent, Frontier + 1)
<1> DEFINE both == Append(echobuffer, byte)
<1>1. byte = Frontier + 1 /\ byte \in Nat /\ Frontier \in Nat /\ Sent \in Seq(Calls)
  BY StepPlaces
<1>2. echobuffer \in Seq(Nat) /\ Len(echobuffer) \in Nat
  BY DEF Inv, TypeOK
<1>3. /\ both \in Seq(Nat) /\ DOMAIN both = 1..(Len(echobuffer) + 1)
      /\ \A k \in 1..Len(echobuffer) : both[k] = echobuffer[k] /\ echobuffer[k] \in Nat
      /\ both[Len(echobuffer) + 1] = byte
  BY <1>1, <1>2
<1> HIDE DEF both
<1>4. ASSUME NEW k \in 1..Len(echobuffer)
      PROVE  /\ UpTo(Sent, echobuffer[k] - 1) /\ echobuffer[k] <= Frontier
             /\ \A l \in 1..Len(echobuffer) : l < k => echobuffer[l] < echobuffer[k]
  BY <1>2 DEF OrderInv, Behind
<1>5. UpTo(Sent, byte - 1)
  BY <1>1 DEF OrderInv
<1>6. ASSUME NEW k \in DOMAIN both
      PROVE  /\ UpTo(Sent, both[k] - 1) /\ both[k] <= Frontier + 1
             /\ \A l \in DOMAIN both : l < k => both[l] < both[k]
  <2>1. CASE k = Len(echobuffer) + 1
    <3>1. both[k] = byte
      BY <1>3, <2>1
    <3>2. \A l \in DOMAIN both : l < k => l \in 1..Len(echobuffer)
      BY <1>2, <1>3, <2>1
    <3>3. \A l \in 1..Len(echobuffer) : both[l] < byte
      BY <1>1, <1>3, <1>4
    <3>4. UpTo(Sent, both[k] - 1)
      BY <1>5, <3>1, Zenon
    <3> QED BY <1>1, <3>1, <3>2, <3>3, <3>4
  <2>2. CASE k \in 1..Len(echobuffer)
    <3>1. both[k] = echobuffer[k] /\ both[k] \in Nat
      BY <1>3, <2>2
    <3>2. \A l \in DOMAIN both : l < k => l \in 1..Len(echobuffer)
      BY <1>2, <1>3, <2>2
    <3>3. UpTo(Sent, both[k] - 1)
      BY <1>4, <2>2, <3>1, Zenon
    <3>4. \A l \in 1..Len(echobuffer) : l < k => both[l] < both[k]
      BY <1>3, <1>4, <2>2, <3>1
    <3> QED BY <1>1, <1>4, <2>2, <3>1, <3>2, <3>3, <3>4
  <2> QED BY <1>2, <1>3, <2>1, <2>2
<1> QED BY <1>3, <1>6 DEF Behind, both

\* What is held back after the byte is behind, too.
LEMMA HeldBehind ==
  ASSUME Inv, OrderInv, NEW action, Step(action)
  PROVE  Behind(Held, Sent, Frontier + 1) /\ (target = Text => Held = <<>>)
<1>1. CASE target = Text
  BY <1>1 DEF Held, Behind
<1>2. CASE target # Text
  BY <1>2, ByteBehind DEF Held
<1> QED BY <1>1, <1>2

(***************************************************************************)
(* An action on a byte keeps the order if what it sends may follow, what   *)
(* it holds back is behind, and it sets the mark to the byte unless it     *)
(* leaves it; a name must be behind all output.                            *)
(***************************************************************************)
LEMMA StepKeepsOrder ==
  ASSUME Inv, OrderInv, NEW action, Step(action),
         NEW t \in Seq(Calls), Sent' = Sent \o t,
         MayFollow(t, Sent, IF action = "echo_only" THEN Frontier + 1 ELSE Frontier),
         InTag(target) \/ NamedTag(target) => \A j \in DOMAIN t : t[j].handler # "output",
         echobuffer' = <<>> \/ (t = <<>> /\ echobuffer' = Held),
         IF action = "echo_only" THEN mark' = mark ELSE mark' = AtP,
         \/ ~ NamedTag(target)
         \/ tag_text' = Null
         \/ action # "see_start_tag" /\ tag_text' = tag_text
         \/ OutputUpTo(Sent, Base + tag_text'.off)
  PROVE  OrderInv'
<1>1. /\ Base' = Base /\ Frontier' = Frontier + 1 /\ Frontier = Base + p
      /\ Base \in Nat /\ Frontier \in Nat /\ AtP.off = p /\ cs' = target /\ Sent \in Seq(Calls)
  BY StepPlaces
<1>2. /\ action = "echo_only" /\ InTag(target) => InTag(cs)
      /\ action # "see_start_tag" /\ NamedTag(target) => NamedTag(cs)
  <2>1. AtByte /\ ActionOf(cs, char) = action
    BY DEF Step
  <2> QED BY <2>1, ByteType, TagKept DEF target
<1> DEFINE n == IF action = "echo_only" THEN Frontier + 1 ELSE Frontier
<1>3. n \in Nat /\ Frontier <= n /\ n <= Frontier + 1
  BY <1>1
<1>4. UpTo(Sent, Frontier) /\ Ordered(Sent)
  BY DEF OrderInv
<1>5. Ordered(Sent') /\ UpTo(Sent', n) /\ Sent' \in Seq(Calls)
  <2>1. UpTo(Sent, n)
    <3> HIDE DEF n
    <3> QED BY <1>1, <1>3, <1>4, UpToMore
  <2>2. MayFollow(t, Sent, n)
    OBVIOUS
  <2> HIDE DEF n
  <2> QED BY <1>1, <1>3, <1>4, <2>1, <2>2, FollowedInOrder, Parts
<1> DEFINE sent == Sent'
<1>6. UpTo(sent, Frontier + 1)
  <2>1. sent \in Seq(Calls) /\ UpTo(sent, n)
    BY <1>5
  <2> HIDE DEF n, sent
  <2> QED BY <1>1, <1>3, <2>1, UpToMore
<1>7. Behind(echobuffer', Sent', Frontier') /\ (cs' = Text => echobuffer' = <<>>)
  <2>1. CASE echobuffer' = <<>>
    BY <2>1 DEF Behind
  <2>2. CASE t = <<>> /\ echobuffer' = Held
    <3>1. Sent' = Sent
      BY <1>1, <2>2, ConcatEmptySeq
    <3> QED BY <1>1, <2>2, <3>1, HeldBehind
  <2> QED BY <2>1, <2>2
<1>8. ASSUME InTag(target) \/ NamedTag(target), NEW m, OutputUpTo(Sent, m)
      PROVE  OutputUpTo(Sent', m)
  BY <1>1, <1>8, TagsNoOutput
<1>9. InTag(cs') => OutputUpTo(Sent', Base' + mark'.off)
  <2>1. CASE action = "echo_only"
    BY <1>1, <1>2, <1>8, <2>1 DEF OrderInv
  <2>2. CASE action # "echo_only"
    <3>1. OutputUpTo(sent, Frontier)
      <4>1. sent \in Seq(Calls) /\ UpTo(sent, Frontier)
        BY <1>5, <2>2
      <4> HIDE DEF sent
      <4> QED BY <1>1, <4>1, UpToMore
    <3> QED BY <1>1, <2>2, <3>1
  <2> QED BY <2>1, <2>2
<1>10. NamedTag(cs') => tag_text' = Null \/ OutputUpTo(Sent', Base' + tag_text'.off)
  BY <1>1, <1>2, <1>8 DEF OrderInv
<1> HIDE DEF n
<1> QED BY <1>1, <1>5, <1>6, <1>7, <1>9, <1>10 DEF OrderInv

(***************************************************************************)
(* The actions that report nothing and hold the byte back.                 *)
(***************************************************************************)
LEMMA QuietStep ==
  ASSUME Inv, OrderInv, NEW action, Step(action), action # "echo_only",
         UNCHANGED output, echobuffer' = Held, mark' = AtP,
         \/ action # "see_start_tag" /\ tag_text' = tag_text
         \/ OutputUpTo(Sent, Base + tag_text'.off)
  PROVE  OrderInv'
<1> DEFINE t == <<>>
<1>1. Sent \in Seq(Calls)
  BY Places
<1>2. t \in Seq(Calls) /\ Sent' = Sent \o t
  BY <1>1, SentStays, ConcatEmptySeq
<1>3. MayFollow(t, Sent, Frontier) /\ \A j \in DOMAIN t : t[j].handler # "output"
  BY DEF MayFollow, Ordered, UpTo
<1>4. t = <<>> /\ echobuffer' = Held
  OBVIOUS
<1> HIDE DEF t
<1> QED BY <1>2, <1>3, <1>4, StepKeepsOrder

(***************************************************************************)
(* The actions that report tags and give up what is held back.             *)
(***************************************************************************)
LEMMA ReportStep ==
  ASSUME Inv, OrderInv, NEW action, Step(action), action # "echo_only",
         NEW t \in Seq(Calls), FlushOutput(t),
         \A j \in DOMAIN t : t[j].handler # "output",
         MayFollow(t, Sent, Frontier),
         echobuffer' = <<>>, mark' = AtP,
         tag_text' = Null \/ OutputUpTo(Sent, Base + tag_text'.off)
  PROVE  OrderInv'
<1>1. Sent' = Sent \o t
  BY SentByFlush DEF Inv
<1> QED BY <1>1, StepKeepsOrder

(***************************************************************************)
(* Bytes of a buffer that is numbered from `base` on.                      *)
(***************************************************************************)
LEMMA NumberedBytes ==
  ASSUME NEW s \in Seq(Nat), NEW base \in Nat, \A k \in 1..Len(s) : s[k] = base + k,
         NEW off \in Nat, NEW length \in Nat, off + length <= Len(s)
  PROVE  LET bytes == SubSeq(s, off + 1, off + length)
         IN  /\ Len(bytes) = length
             /\ \A i \in 1..length : bytes[i] = base + off + i
<1> DEFINE m == off + 1
           n == off + length
           bytes == SubSeq(s, m, n)
<1>1. m \in Int /\ n \in Int /\ m = off + 1 /\ n = off + length /\ Len(s) \in Nat
  OBVIOUS
<1>2. \A i \in m..n : s[i] \in Nat
  <2>1. \A i \in m..n : i \in 1..Len(s)
    BY <1>1
  <2> QED BY <2>1
<1> HIDE DEF m, n
<1>3. /\ Len(bytes) = IF m <= n THEN n - m + 1 ELSE 0
      /\ \A i \in 1..(n - m + 1) : bytes[i] = s[m + i - 1]
  BY <1>1, <1>2, SubSeqProperties
<1> HIDE DEF bytes
<1>4. Len(bytes) = length /\ n - m + 1 = length
  BY <1>1, <1>3
<1>5. ASSUME NEW i \in 1..length PROVE bytes[i] = base + off + i
  <2>1. m + i - 1 = off + i /\ off + i \in 1..Len(s)
    BY <1>1
  <2>2. bytes[i] = s[off + i]
    BY <1>3, <1>4, <2>1
  <2> QED BY <2>1, <2>2
<1>6. Len(bytes) = length /\ \A i \in 1..length : bytes[i] = base + off + i
  BY <1>4, <1>5
<1> QED BY <1>6 DEF bytes, m, n

(***************************************************************************)
(* Tags with a name that is in the buffer, behind all output.              *)
(***************************************************************************)
LEMMA NameFollows ==
  ASSUME Inv, OrderInv, NEW action, Step(action),
         NEW q \in Pointers, NEW length \in Nat, q.off + length <= p,
         OutputUpTo(Sent, Base + q.off),
         NEW t \in Seq(Calls),
         \A j \in DOMAIN t : t[j].handler # "output" /\ t[j].bytes = BytesAt(q, length)
  PROVE  MayFollow(t, Sent, Frontier)
<1> DEFINE name == BytesAt(q, length)
           m    == Base + q.off
<1>1. /\ Base \in Nat /\ Frontier \in Nat /\ Frontier = Base + p /\ p \in Nat /\ Sent \in Seq(Calls)
      /\ q.off \in Nat
  BY StepPlaces DEF Pointers
<1>2. Len(Buffer) \in Nat /\ p <= Len(Buffer) /\ \A k \in 1..Len(Buffer) : Buffer[k] = Base + k
  BY Places, BufferType, ByteType DEF Step
<1>3. q.off + length <= Len(Buffer) /\ Buffer \in Seq(Nat)
  BY <1>1, <1>2, BufferType
<1>4. Len(name) = length /\ \A i \in 1..length : name[i] = Base + q.off + i
  <2> DEFINE buffer == Buffer
             base   == Base
             off    == q.off
             bytes  == SubSeq(buffer, off + 1, off + length)
  <2>1. /\ buffer \in Seq(Nat) /\ base \in Nat /\ off \in Nat /\ off + length <= Len(buffer)
        /\ \A k \in 1..Len(buffer) : buffer[k] = base + k
    BY <1>1, <1>2, <1>3
  <2> HIDE DEF buffer, base, off
  <2>2. Len(bytes) = length /\ \A i \in 1..length : bytes[i] = base + off + i
    BY <2>1, NumberedBytes
  <2> QED BY <2>2 DEF buffer, base, off, BytesAt
<1> HIDE DEF name
<1>5. name # <<>> => name[1] > m /\ name[Len(name)] <= Frontier
  <2>1. SUFFICES ASSUME name # <<>> PROVE name[1] > m /\ name[Len(name)] <= Frontier
    OBVIOUS
  <2>2. length \in 1..length /\ 1 \in 1..length
    <3>1. name \in Seq(Nat)
      BY <1>3, BytesAtType DEF name
    <3>2. length # 0
      BY <1>4, <2>1, <3>1
    <3> QED BY <3>2
  <2>3. name[1] = Base + q.off + 1 /\ name[Len(name)] = Base + q.off + length
    BY <1>4, <2>2
  <2> QED BY <1>1, <2>3
<1>6. \A j \in DOMAIN t : t[j].handler # "output" /\ t[j].bytes = name
  BY DEF name
<1>7. \A j \in DOMAIN t :
        /\ t[j].handler # "output"
        /\ t[j].bytes # <<>> => t[j].bytes[1] > m /\ LastByte(t[j]) <= Frontier
  BY <1>5, <1>6 DEF LastByte
<1>8. m \in Int /\ Frontier \in Int /\ OutputUpTo(Sent, m)
  BY <1>1
<1> HIDE DEF m
<1> QED BY <1>1, <1>7, <1>8, TagsFollow

\* Text is sent when it is known to be text, with all that was held back.
LEMMA EchoOnlyOrder == ASSUME Inv, OrderInv, EchoOnly PROVE OrderInv'
<1>1. /\ Step("echo_only") /\ AtByte /\ echobuffer' = Held /\ EchoChars(Released)
      /\ mark' = mark /\ tag_text' = tag_text
  BY DEF EchoOnly, Step, pointers
<1>2. Released \in Seq(Nat)
  BY <1>1, ByteType
<1> DEFINE t == Outputs(Released)
<1>3. t \in Seq(Calls) /\ Sent' = Sent \o t
  BY <1>1, <1>2, OutputsType, SentByEcho DEF Inv
<1>4. Frontier \in Nat /\ Sent \in Seq(Calls)
  BY Places
<1>5. MayFollow(t, Sent, Frontier + 1)
  <2>1. Behind(Released, Sent, Frontier + 1)
    <3>1. CASE Released = <<>>
      BY <3>1 DEF Behind
    <3>2. CASE Released = Append(echobuffer, byte)
      BY <1>1, <3>2, ByteBehind
    <3> QED BY <3>1, <3>2 DEF Released
  <2> QED BY <1>2, <1>4, <2>1, OutputsFollow
<1>6. CASE target = Text
  <2>1. echobuffer' = <<>> /\ ~ InTag(target) /\ ~ NamedTag(target)
    BY <1>1, <1>6, HeldBehind, TextNoTag
  <2> HIDE DEF t
  <2> QED BY <1>1, <1>3, <1>5, <2>1, StepKeepsOrder
<1>7. CASE target # Text
  <2>1. t = <<>>
    BY <1>7 DEF Released, Outputs
  <2> HIDE DEF t
  <2>2. \A j \in DOMAIN t : t[j].handler # "output"
    BY <2>1
  <2> QED BY <1>1, <1>3, <1>5, <2>1, <2>2, StepKeepsOrder
<1> QED BY <1>6, <1>7

\* begin, and the two actions on an attribute, report nothing.
LEMMA BeginOrder == ASSUME Inv, OrderInv, Begin PROVE OrderInv'
<1>1. Step("begin") /\ UNCHANGED output /\ echobuffer' = Held /\ mark' = AtP
      /\ tag_text' = tag_text
  BY DEF Begin
<1> QED BY <1>1, QuietStep

\* see_attribute_key keeps the name.
LEMMA SeeAttributeKeyOrder == ASSUME Inv, OrderInv, SeeAttributeKey PROVE OrderInv'
<1>1. Step("see_attribute_key") /\ UNCHANGED output /\ echobuffer' = Held /\ mark' = AtP
      /\ tag_text' = tag_text
  BY DEF SeeAttributeKey
<1> QED BY <1>1, QuietStep

\* see_attribute_value does, too.
LEMMA SeeAttributeValueOrder == ASSUME Inv, OrderInv, SeeAttributeValue PROVE OrderInv'
<1>1. Step("see_attribute_value") /\ UNCHANGED output /\ echobuffer' = Held /\ mark' = AtP
      /\ tag_text' = tag_text
  BY DEF SeeAttributeValue
<1> QED BY <1>1, QuietStep

(***************************************************************************)
(* The actions that read the mark are those within a tag: the mark is      *)
(* behind all output.                                                      *)
(***************************************************************************)
LEMMA MarkBehind ==
  ASSUME Inv, OrderInv, NEW action, Step(action), action \notin {"echo_only", "begin"},
         NEW off \in Nat, off >= mark.off
  PROVE  OutputUpTo(Sent, Base + off)
<1>1. AtByte /\ ActionOf(cs, char) = action
  BY DEF Step
<1>2. InTag(cs)
  BY <1>1, ByteType, ActionOrigin
<1>3. Sent \in Seq(Calls) /\ Base \in Nat /\ mark.off \in Nat
  BY StepPlaces, PointersAtStep
<1> DEFINE m == Base + mark.off
           n == Base + off
<1>4. OutputUpTo(Sent, m) /\ m \in Int /\ n \in Int /\ m <= n
  BY <1>2, <1>3 DEF OrderInv
<1> HIDE DEF m, n
<1>5. OutputUpTo(Sent, n)
  BY <1>3, <1>4, UpToMore
<1> QED BY <1>5 DEF n

\* see_start_tag sets the name behind the mark.
LEMMA SeeStartTagOrder == ASSUME Inv, OrderInv, SeeStartTag PROVE OrderInv'
<1>1. Step("see_start_tag") /\ UNCHANGED output /\ echobuffer' = Held /\ mark' = AtP
      /\ tag_text' = At(mark.buf, mark.off + 1)
  BY DEF SeeStartTag
<1>2. mark.off \in Nat /\ tag_text'.off = mark.off + 1
  BY <1>1, PointersAtStep DEF At
<1>3. OutputUpTo(Sent, Base + tag_text'.off)
  BY <1>1, <1>2, MarkBehind
<1> QED BY <1>1, <1>3, QuietStep

\* block_start_tag reports the name behind the mark.
LEMMA BlockStartTagOrder == ASSUME Inv, OrderInv, BlockStartTag PROVE OrderInv'
<1>1. Step("block_start_tag") /\ AtByte /\ echobuffer' = <<>> /\ mark' = AtP
  BY DEF BlockStartTag, Step
<1>2. p \in Nat /\ p + 1 <= Len(Buffer) /\ Len(Buffer) \in Nat
  BY <1>1, ByteType, BufferType
<1>3. mark \in Pointers /\ mark.off \in Nat /\ mark.off + 1 <= p
  BY <1>1, PointersAtStep
<1> DEFINE name  == TrimmedPointer(mark, p - mark.off)
           bytes == BytesAt(name.at, name.length)
           t     == <<StartTag(bytes, <<>>)>>
<1>4. /\ p - mark.off \in Nat /\ mark.off + (p - mark.off) = p
      /\ mark.off + (p - mark.off) <= Len(Buffer)
  BY <1>2, <1>3
<1>5. /\ name.at \in Pointers /\ name.length \in Nat
      /\ name.at.off + name.length <= p /\ name.at.off >= mark.off
  BY <1>3, <1>4, TrimmedPointerRange
<1>6. tag_text' = name.at /\ FlushOutput(t)
  BY DEF BlockStartTag
<1>7. name.at.off \in Nat
  BY <1>5 DEF Pointers
<1> HIDE DEF name
<1>8. OutputUpTo(Sent, Base + name.at.off)
  BY <1>1, <1>5, <1>7, MarkBehind
<1>9. bytes \in Seq(Nat)
  <2>1. name.at.off + name.length <= Len(Buffer)
    BY <1>2, <1>5, <1>7
  <2> QED BY <1>5, <2>1, BytesAtType
<1>10. t \in Seq(Calls)
  <2> HIDE DEF bytes
  <2>1. <<>> \in Attributes
    BY DEF Attributes
  <2>2. StartTag(bytes, <<>>) \in Calls
    BY <1>9, <2>1, TagCallType
  <2> QED BY <2>2
<1>11. \A j \in DOMAIN t : t[j].handler # "output" /\ t[j].bytes = bytes
  <2> HIDE DEF bytes
  <2> QED BY DEF StartTag, Call
<1>12. MayFollow(t, Sent, Frontier)
  <2>1. \A j \in DOMAIN t : t[j].handler # "output" /\ t[j].bytes = BytesAt(name.at, name.length)
    BY <1>11
  <2> HIDE DEF t
  <2> QED BY <1>1, <1>5, <1>8, <1>10, <2>1, NameFollows
<1> HIDE DEF t, bytes
<1> QED BY <1>1, <1>6, <1>8, <1>10, <1>11, <1>12, ReportStep

\* block_end_tag reports the name two bytes behind the mark.
LEMMA BlockEndTagOrder == ASSUME Inv, OrderInv, BlockEndTag PROVE OrderInv'
<1>1. Step("block_end_tag") /\ AtByte /\ echobuffer' = <<>> /\ mark' = AtP
  BY DEF BlockEndTag, Step
<1>2. p \in Nat /\ p + 1 <= Len(Buffer) /\ Len(Buffer) \in Nat
  BY <1>1, ByteType, BufferType
<1>3. mark \in Pointers /\ mark.off \in Nat /\ mark.buf = Here /\ mark.off + 2 <= p
  BY <1>1, PointersAtStep
<1> DEFINE from  == At(mark.buf, mark.off + 2)
           name  == TrimmedPointer(from, p - (mark.off + 2))
           bytes == BytesAt(name.at, name.length)
           t     == <<EndTag(bytes)>>
<1>4. from \in Pointers /\ from.off = mark.off + 2
  BY <1>3, BufferType DEF At, Pointers
<1>5. tag_text' = name.at /\ FlushOutput(t)
  BY DEF BlockEndTag
<1> HIDE DEF from
<1>6. /\ p - (mark.off + 2) \in Nat /\ from.off + (p - (mark.off + 2)) = p
      /\ from.off + (p - (mark.off + 2)) <= Len(Buffer)
  BY <1>2, <1>3, <1>4
<1>7. /\ name.at \in Pointers /\ name.length \in Nat
      /\ name.at.off + name.length <= p /\ name.at.off >= from.off
  BY <1>4, <1>6, TrimmedPointerRange
<1>8. name.at.off \in Nat
  BY <1>7 DEF Pointers
<1> HIDE DEF name
<1>9. name.at.off >= mark.off
  BY <1>3, <1>4, <1>7, <1>8
<1>10. OutputUpTo(Sent, Base + name.at.off)
  BY <1>1, <1>8, <1>9, MarkBehind
<1>11. bytes \in Seq(Nat)
  <2>1. name.at.off + name.length <= Len(Buffer)
    BY <1>2, <1>7, <1>8
  <2> QED BY <1>7, <2>1, BytesAtType
<1>12. t \in Seq(Calls)
  <2> HIDE DEF bytes
  <2>1. <<>> \in Attributes
    BY DEF Attributes
  <2>2. EndTag(bytes) \in Calls
    BY <1>11, <2>1, TagCallType
  <2> QED BY <2>2
<1>13. \A j \in DOMAIN t : t[j].handler # "output" /\ t[j].bytes = bytes
  <2> HIDE DEF bytes
  <2> QED BY DEF EndTag, Call
<1>14. MayFollow(t, Sent, Frontier)
  <2>1. \A j \in DOMAIN t : t[j].handler # "output" /\ t[j].bytes = BytesAt(name.at, name.length)
    BY <1>13
  <2> HIDE DEF t
  <2> QED BY <1>1, <1>7, <1>10, <1>12, <2>1, NameFollows
<1> HIDE DEF t, bytes
<1> QED BY <1>1, <1>5, <1>10, <1>12, <1>13, <1>14, ReportStep

(***************************************************************************)
(* The name two of the actions report is where see_start_tag found it,     *)
(* behind all output.                                                      *)
(***************************************************************************)
LEMMA NameBehind ==
  ASSUME Inv, OrderInv, NEW action \in {"see_end_tag", "see_block_start_with_attributes"},
         Step(action),
         NEW t \in Seq(Calls),
         LET name == TrimmedPointer(tag_text, tag_text_length)
         IN  \A j \in DOMAIN t :
               t[j].handler # "output" /\ t[j].bytes = BytesAt(name.at, name.length)
  PROVE  MayFollow(t, Sent, Frontier)
<1> DEFINE name == TrimmedPointer(tag_text, tag_text_length)
<1>1. AtByte /\ ActionOf(cs, char) = action /\ Live(tag_text)
  BY DEF Step, Needs
<1>2. p \in Nat /\ p + 1 <= Len(Buffer) /\ Len(Buffer) \in Nat
  BY <1>1, ByteType, BufferType
<1>3. tag_text \in Pointers /\ tag_text_length \in Nat
  BY DEF Inv, TypeOK
<1>4. tag_text.off + tag_text_length <= p /\ tag_text.off \in Nat
  BY <1>3, PointersAtStep DEF Pointers
<1>5. tag_text.off + tag_text_length <= Len(Buffer)
  BY <1>2, <1>3, <1>4
<1>6. /\ name.at \in Pointers /\ name.length \in Nat /\ name.at.off >= tag_text.off
      /\ name.at.off + name.length <= tag_text.off + tag_text_length
  BY <1>3, <1>5, TrimmedPointerRange
<1>7. \A j \in DOMAIN t : t[j].handler # "output" /\ t[j].bytes = BytesAt(name.at, name.length)
  OBVIOUS
<1> HIDE DEF name
<1>8. name.at.off \in Nat /\ name.at.off + name.length <= p
  BY <1>2, <1>3, <1>4, <1>6 DEF Pointers
<1>9. OutputUpTo(Sent, Base + name.at.off)
  <2>1. NamedTag(cs) /\ tag_text # Null
    BY <1>1, ByteType, ActionOrigin, BufferType DEF Live, Null, At
  <2>2. Sent \in Seq(Calls) /\ Base \in Nat
    BY StepPlaces
  <2> DEFINE m == Base + tag_text.off
             n == Base + name.at.off
  <2>3. OutputUpTo(Sent, m) /\ m \in Int /\ n \in Int /\ m <= n
    BY <1>4, <1>6, <1>8, <2>1, <2>2 DEF OrderInv
  <2> HIDE DEF m, n
  <2>4. OutputUpTo(Sent, n)
    BY <2>2, <2>3, UpToMore
  <2> QED BY <2>4 DEF n
<1> QED BY <1>6, <1>7, <1>8, <1>9, NameFollows

\* see_end_tag reports one name twice, as the start of a tag and its end.
LEMMA SeeEndTagOrder == ASSUME Inv, OrderInv, SeeEndTag PROVE OrderInv'
<1>1. Step("see_end_tag") /\ Forget
  BY DEF SeeEndTag
<1> DEFINE name  == TrimmedPointer(tag_text, tag_text_length)
           bytes == BytesAt(name.at, name.length)
           t     == <<StartTag(bytes, attributes), EndTag(bytes)>>
<1>2. FlushOutput(t)
  BY DEF SeeEndTag
<1>3. t \in Seq(Calls)
  <2>1. StartTag(bytes, attributes) \in Calls /\ EndTag(bytes) \in Calls
    BY <1>1, NameReported
  <2> HIDE DEF bytes
  <2> QED BY <2>1
<1>4. \A j \in DOMAIN t : t[j].handler # "output" /\ t[j].bytes = bytes
  <2> HIDE DEF bytes
  <2> QED BY DEF StartTag, EndTag, Call
<1> HIDE DEF t
<1>5. MayFollow(t, Sent, Frontier)
  BY <1>1, <1>3, <1>4, NameBehind
<1> HIDE DEF bytes
<1> QED BY <1>1, <1>2, <1>3, <1>4, <1>5, ReportStep, ForgetType DEF Forget

\* see_block_start_with_attributes reports it once.
LEMMA SeeBlockStartWithAttributesOrder ==
  ASSUME Inv, OrderInv, SeeBlockStartWithAttributes PROVE OrderInv'
<1>1. Step("see_block_start_with_attributes") /\ Forget
  BY DEF SeeBlockStartWithAttributes
<1> DEFINE name  == TrimmedPointer(tag_text, tag_text_length)
           bytes == BytesAt(name.at, name.length)
           t     == <<StartTag(bytes, attributes)>>
<1>2. FlushOutput(t)
  BY DEF SeeBlockStartWithAttributes
<1>3. t \in Seq(Calls)
  <2>1. StartTag(bytes, attributes) \in Calls
    BY <1>1, NameReported
  <2> HIDE DEF bytes
  <2> QED BY <2>1
<1>4. \A j \in DOMAIN t : t[j].handler # "output" /\ t[j].bytes = bytes
  <2> HIDE DEF bytes
  <2> QED BY DEF StartTag, Call
<1> HIDE DEF t
<1>5. MayFollow(t, Sent, Frontier)
  BY <1>1, <1>3, <1>4, NameBehind
<1> HIDE DEF bytes
<1> QED BY <1>1, <1>2, <1>3, <1>4, <1>5, ReportStep, ForgetType DEF Forget

-----------------------------------------------------------------------------
(* The calls.                                                              *)

(***************************************************************************)
(* Whatever keeps what is sent, what is held back and where the parser is  *)
(* keeps the order, as long as the pointers it needs keep their offsets.   *)
(***************************************************************************)
LEMMA PlaceKeepsOrder ==
  ASSUME Inv, OrderInv, Sent' = Sent, Frontier' = Frontier, Base' = Base \/ ~ MidTag,
         cs' = cs, echobuffer' = echobuffer,
         InTag(cs) => mark'.off = mark.off,
         NamedTag(cs) => (tag_text' = Null \/ (tag_text # Null /\ tag_text'.off = tag_text.off))
  PROVE  OrderInv'
<1>1. ~ MidTag => ~ InTag(cs) /\ ~ NamedTag(cs)
  BY NoTagNoPointers
<1>2. Ordered(Sent') /\ UpTo(Sent', Frontier')
  BY DEF OrderInv
<1>3. Behind(echobuffer', Sent', Frontier') /\ (cs' = Text => echobuffer' = <<>>)
  BY DEF OrderInv
<1>4. InTag(cs') => OutputUpTo(Sent', Base' + mark'.off)
  BY <1>1 DEF OrderInv
<1>5. NamedTag(cs') => tag_text' = Null \/ OutputUpTo(Sent', Base' + tag_text'.off)
  BY <1>1 DEF OrderInv
<1> QED BY <1>2, <1>3, <1>4, <1>5 DEF OrderInv

\* Between calls the buffer has been gone over.
LEMMA FrontIs ==
  ASSUME Inv
  PROVE  /\ Frontier \in Nat /\ pos \in Nat /\ Len(Buffer) \in Nat
         /\ pc # "exec" => Frontier = pos /\ Base = pos - Len(overflow_data) /\ Buffer = overflow_data
         /\ pc = "exec" => Frontier = pos - Len(Buffer) + p
         /\ Base = pos - Len(Buffer)
<1>1. pos \in Nat
  BY DocsAssumption DEF Inv, TypeOK
<1>2. pc # "exec" => Buffer = overflow_data
  BY DEF Buffer, Inv, PointersInBuffer, BufferIsTail
<1> QED BY <1>1, <1>2, Places, BufferType DEF Frontier, Base, Parsed

\* A piece without a tag follows all that was sent.
LEMMA ExecutePlainOrder ==
  ASSUME Inv, OrderInv, NEW n \in ChunkSizes, ExecutePlain(n) PROVE OrderInv'
<1>1. /\ TypeOK /\ Handed(n) /\ cs = Text /\ EchoChars(Piece(n)) /\ pc = "idle"
      /\ cs' = cs /\ echobuffer' = echobuffer /\ pc' = pc
      /\ data' = data /\ overflow_data' = overflow_data
  BY DEF Inv, ExecutePlain, Handed, echoing
<1>2. /\ n \in Nat \ {0} /\ Piece(n) \in Seq(Nat) /\ Len(Piece(n)) = n
      /\ \A k \in 1..n : Piece(n)[k] = pos + k
      /\ pos' = pos + n /\ pos \in Nat
  BY <1>1, PieceType, HandedType
<1>3. data = <<>> /\ overflow_data = <<>>
  BY <1>1 DEF MidTag, Inv, PointersInBuffer, BufferIsTail
<1>4. Frontier = pos /\ Frontier' = pos + n /\ Sent \in Seq(Calls)
  <2>1. pc # "exec" /\ pc' # "exec"
    BY <1>1
  <2>2. Frontier = pos /\ Sent \in Seq(Calls)
    BY <2>1, Places
  <2>3. Parsed' = 0 /\ Len(Buffer') = 0
    BY <1>1, <1>3, <2>1 DEF Parsed, Buffer
  <2> QED BY <1>2, <2>2, <2>3 DEF Frontier, Base
<1> DEFINE bytes == Piece(n)
           t     == Outputs(bytes)
           last  == pos + n
<1>5. bytes \in Seq(Nat) /\ DOMAIN bytes = 1..n /\ \A k \in 1..n : bytes[k] = pos + k
  BY <1>2
<1>6. t \in Seq(Calls) /\ Sent' = Sent \o t
  BY <1>1, <1>2, OutputsType, SentByEcho
<1> HIDE DEF bytes
<1>7. last \in Int /\ pos \in Int /\ pos <= last
  BY <1>2
<1>8. Behind(bytes, Sent, last)
  <2>1. ASSUME NEW k \in 1..n
        PROVE  /\ UpTo(Sent, bytes[k] - 1) /\ bytes[k] <= last
               /\ \A l \in 1..n : l < k => bytes[l] < bytes[k]
    <3> DEFINE m == bytes[k] - 1
    <3>1. m \in Int /\ pos <= m /\ bytes[k] <= last
      BY <1>2, <1>5
    <3>2. UpTo(Sent, pos)
      BY <1>4 DEF OrderInv
    <3> HIDE DEF m
    <3>3. UpTo(Sent, m)
      BY <1>4, <1>7, <3>1, <3>2, UpToMore
    <3>4. \A l \in 1..n : l < k => bytes[l] < bytes[k]
      BY <1>2, <1>5
    <3> QED BY <3>1, <3>3, <3>4 DEF m
  <2> QED BY <1>5, <2>1 DEF Behind
<1> HIDE DEF last
<1>9. MayFollow(t, Sent, last) /\ UpTo(Sent, last) /\ Ordered(Sent)
  <2>1. UpTo(Sent, pos) /\ Ordered(Sent)
    BY <1>4 DEF OrderInv
  <2> QED BY <1>4, <1>5, <1>7, <1>8, <2>1, OutputsFollow, UpToMore
<1> HIDE DEF t
<1>10. Ordered(Sent') /\ UpTo(Sent', last)
  BY <1>4, <1>6, <1>7, <1>9, FollowedInOrder
<1>11. echobuffer' = <<>> /\ ~ InTag(cs') /\ ~ NamedTag(cs')
  BY <1>1, TextNoTag DEF OrderInv
<1> QED BY <1>4, <1>10, <1>11 DEF OrderInv, Behind, last

\* A piece after whole tags is gone over from its first byte.
LEMMA FreshPlaces ==
  ASSUME Inv, NEW n \in ChunkSizes, ExecuteFresh(n)
  PROVE  /\ ~ MidTag /\ pc = "idle" /\ pc' = "exec"
         /\ Frontier' = Frontier /\ cs' = cs /\ echobuffer' = echobuffer /\ Sent' = Sent
<1>1. /\ TypeOK /\ Handed(n) /\ overflow_data = <<>> /\ pc = "idle"
      /\ pc' = "exec" /\ data' = Piece(n) /\ p' = 0 /\ overflow_data' = overflow_data
      /\ UNCHANGED output /\ cs' = cs /\ echobuffer' = echobuffer
  BY DEF Inv, ExecuteFresh, Handed, echoing
<1>2. Len(Piece(n)) = n /\ n \in Nat /\ pos' = pos + n /\ pos \in Nat
  BY <1>1, PieceType, HandedType
<1>3. Buffer' = data'
  BY <1>1 DEF Buffer
<1>4. Frontier' = pos' - Len(Buffer') + p'
  BY <1>1 DEF Frontier, Base, Parsed
<1>5. Frontier' = Frontier
  <2>1. Frontier = pos
    BY <1>1, FrontIs
  <2> QED BY <1>1, <1>2, <1>3, <1>4, <2>1
<1>6. ~ MidTag
  BY <1>1 DEF Inv, PointersInBuffer, BufferIsTail
<1>7. Sent' = Sent
  BY <1>1, SentStays
<1> QED BY <1>1, <1>5, <1>6, <1>7

\* It follows whatever was sent.
LEMMA ExecuteFreshOrder ==
  ASSUME Inv, OrderInv, NEW n \in ChunkSizes, ExecuteFresh(n) PROVE OrderInv'
BY FreshPlaces, NoTagNoPointers, PlaceKeepsOrder

(***************************************************************************)
(* A piece within a tag is appended to what was gone over; the pointers    *)
(* that are needed keep their offsets.                                     *)
(***************************************************************************)
LEMMA OverflowPlaces ==
  ASSUME Inv, NEW n \in ChunkSizes, ExecuteOverflow(n)
  PROVE  /\ pc = "idle" /\ pc' = "exec"
         /\ Base' = Base /\ Frontier' = Frontier
         /\ cs' = cs /\ echobuffer' = echobuffer /\ Sent' = Sent
         /\ InTag(cs) => mark'.off = mark.off
         /\ NamedTag(cs) =>
              \/ tag_text = Null /\ tag_text' = Null
              \/ tag_text # Null /\ tag_text' # Null /\ tag_text'.off = tag_text.off
         /\ HasKey(cs) => attr_key'.off = attr_key.off
<1>1. /\ TypeOK /\ Handed(n) /\ overflow_data # <<>> /\ pc = "idle"
      /\ pc' = "exec" /\ p' = Len(overflow_data)
      /\ overflow_data' = overflow_data \o Piece(n)
      /\ UNCHANGED output /\ cs' = cs /\ echobuffer' = echobuffer
      /\ tag_text' \in Moved(tag_text, "overflow")
      /\ attr_key' \in Moved(attr_key, "overflow")
  BY DEF Inv, ExecuteOverflow, Handed, echoing
<1>2. /\ Piece(n) \in Seq(Nat) /\ Len(Piece(n)) = n /\ n \in Nat \ {0}
      /\ pos' = pos + n /\ pos \in Nat
      /\ overflow_data \in Seq(Nat) /\ Len(overflow_data) \in Nat
  BY <1>1, PieceType, HandedType DEF TypeOK
<1> DEFINE piece == Piece(n)
<1>3. Len(overflow_data') = Len(overflow_data) + n
  <2>1. piece \in Seq(Nat) /\ Len(piece) = n /\ overflow_data' = overflow_data \o piece
    BY <1>1, <1>2
  <2> HIDE DEF piece
  <2> QED BY <1>2, <2>1, ConcatProperties
<1>4. Base' = pos' - Len(Buffer') /\ Frontier' = pos' - Len(Buffer') + p'
  BY <1>1 DEF Frontier, Base, Parsed
<1>5. overflow_data' # <<>> /\ Buffer' = overflow_data'
  BY <1>2, <1>3 DEF Buffer
<1>6. Base' = Base /\ Frontier' = Frontier
  <2>1. Base = pos - Len(overflow_data) /\ Frontier = pos
    BY <1>1, FrontIs
  <2>2. Len(Buffer') = Len(overflow_data) + n /\ p' = Len(overflow_data)
    BY <1>1, <1>3, <1>5
  <2> QED BY <1>2, <1>4, <2>1, <2>2
<1>7. InTag(cs) => mark'.off = mark.off
  <2>1. SUFFICES ASSUME InTag(cs) PROVE mark'.off = mark.off
    OBVIOUS
  <2>2. mark \in Pointers /\ mark.buf = "overflow"
    BY <1>1, <2>1 DEF TypeOK, Inv, PointersInBuffer, MarkInBuffer, InParsed, Live, Here
  <2>3. PICK q \in Moved(mark, "overflow") :
          mark' = IF q = Null THEN At("overflow", p') ELSE q
    BY DEF ExecuteOverflow
  <2> QED BY <2>2, <2>3, MovedType DEF Null, At
<1>8. /\ NamedTag(cs) =>
           \/ tag_text = Null /\ tag_text' = Null
           \/ tag_text # Null /\ tag_text' # Null /\ tag_text'.off = tag_text.off
      /\ HasKey(cs) => attr_key'.off = attr_key.off
  <2>1. tag_text \in Pointers /\ attr_key \in Pointers
    BY <1>1 DEF TypeOK
  <2>2. /\ NamedTag(cs) => tag_text = Null \/ tag_text.buf = "overflow"
        /\ HasKey(cs) => attr_key.buf = "overflow"
    BY <1>1 DEF Inv, PointersInBuffer, NameInBuffer, KeyInBuffer, InParsed, Live, Here
  <2> QED BY <1>1, <2>1, <2>2, MovedType DEF Null, At
<1>9. Sent' = Sent
  BY <1>1, SentStays
<1> QED BY <1>1, <1>6, <1>7, <1>8, <1>9

\* So it keeps the order.
LEMMA ExecuteOverflowOrder ==
  ASSUME Inv, OrderInv, NEW n \in ChunkSizes, ExecuteOverflow(n) PROVE OrderInv'
BY OverflowPlaces, PlaceKeepsOrder

\* Undefined behaviour moves nothing.
LEMMA MisuseOrder == ASSUME Inv, OrderInv, Misuse PROVE OrderInv'
<1>1. UNCHANGED <<document, pc, data, p, cs, pointers, overflow_data, echoing, output>>
  BY DEF Misuse
<1>2. Sent' = Sent
  BY <1>1, SentStays
<1>3. Frontier' = Frontier /\ Base' = Base
  BY <1>1 DEF Frontier, Base, Parsed, Buffer, document
<1> QED BY <1>1, <1>2, <1>3, PlaceKeepsOrder DEF pointers, echoing

(***************************************************************************)
(* The end of a call: the piece was gone over.                             *)
(***************************************************************************)
LEMMA ReturnPlaces ==
  ASSUME Inv, Return, Buffer' = Buffer \/ overflow_data' = <<>>
  PROVE  /\ Frontier' = Frontier /\ (Buffer' = Buffer => Base' = Base)
         /\ cs' = cs /\ echobuffer' = echobuffer /\ Sent' = Sent
<1>1. /\ pos' = pos /\ pc = "exec" /\ pc' = "idle" /\ data' = <<>> /\ p = Len(Buffer)
      /\ cs' = cs /\ echobuffer' = echobuffer /\ UNCHANGED output
  BY DEF Return, document
<1>2. pos \in Nat /\ Len(Buffer) \in Nat /\ Frontier = pos - Len(Buffer) + p
  BY <1>1, FrontIs
<1>3. Frontier' = pos' - Len(Buffer') + Len(overflow_data') /\ Base' = pos' - Len(Buffer')
  BY <1>1 DEF Frontier, Base, Parsed
<1>4. Buffer' = overflow_data' /\ Len(Buffer') \in Nat
  <2>1. Buffer' = overflow_data'
    BY <1>1 DEF Buffer
  <2>2. CASE Buffer' = Buffer
    BY <1>2, <2>1, <2>2
  <2>3. CASE overflow_data' = <<>>
    BY <2>1, <2>3
  <2> QED BY <2>1, <2>2, <2>3
<1>5. Frontier' = Frontier /\ (Buffer' = Buffer => Base' = Base)
  BY <1>1, <1>2, <1>3, <1>4 DEF Base
<1> QED BY <1>1, <1>5, SentStays

\* Within a tag the pointers are moved with the piece.
LEMMA SavingPlaces ==
  ASSUME Inv, ReturnSaving
  PROVE  /\ Return /\ Buffer' = Buffer
         /\ InTag(cs) => mark'.off = mark.off
         /\ NamedTag(cs) =>
              \/ tag_text = Null /\ tag_text' = Null
              \/ tag_text # Null /\ tag_text' # Null /\ tag_text'.off = tag_text.off
         /\ HasKey(cs) => attr_key'.off = attr_key.off
<1>1. /\ Return /\ overflow_data = <<>> /\ overflow_data' = data
      /\ mark' \in Moved(mark, "data") /\ tag_text' \in Moved(tag_text, "data")
      /\ attr_key' \in Moved(attr_key, "data")
  BY DEF ReturnSaving, MovePointers
<1>2. mark \in Pointers /\ tag_text \in Pointers /\ attr_key \in Pointers
  BY DEF Inv, TypeOK
<1>3. Buffer' = Buffer
  BY <1>1, ReturnFrame DEF Buffer
<1>4. /\ InTag(cs) => mark.buf = "data"
      /\ NamedTag(cs) => tag_text = Null \/ tag_text.buf = "data"
      /\ HasKey(cs) => attr_key.buf = "data"
  BY <1>1 DEF Inv, PointersInBuffer, MarkInBuffer, NameInBuffer, KeyInBuffer, InParsed, Live, Here
<1>5. InTag(cs) => mark'.off = mark.off
  BY <1>1, <1>2, <1>4, MovedType
<1>6. /\ NamedTag(cs) =>
           \/ tag_text = Null /\ tag_text' = Null
           \/ tag_text # Null /\ tag_text' # Null /\ tag_text'.off = tag_text.off
      /\ HasKey(cs) => attr_key'.off = attr_key.off
  BY <1>1, <1>2, <1>4, MovedType DEF Null, At
<1> QED BY <1>1, <1>3, <1>5, <1>6

\* So the order is kept.
LEMMA ReturnSavingOrder == ASSUME Inv, OrderInv, ReturnSaving PROVE OrderInv'
BY SavingPlaces, ReturnPlaces, PlaceKeepsOrder

\* They stay where the overflow buffer stays.
LEMMA ReturnKeepingOrder == ASSUME Inv, OrderInv, ReturnKeeping PROVE OrderInv'
<1>1. /\ Return /\ overflow_data # <<>> /\ overflow_data' = overflow_data
      /\ mark' = mark /\ tag_text' = tag_text
  BY DEF ReturnKeeping, pointers
<1>2. Buffer' = Buffer
  BY <1>1 DEF Buffer
<1> QED BY <1>1, <1>2, ReturnPlaces, PlaceKeepsOrder

\* Between tags none is needed.
LEMMA ReturnBetweenTagsOrder == ASSUME Inv, OrderInv, ReturnBetweenTags PROVE OrderInv'
<1>1. Return /\ ~ MidTag /\ overflow_data' = <<>>
  BY DEF ReturnBetweenTags
<1> QED BY <1>1, ReturnPlaces, NoTagNoPointers, PlaceKeepsOrder

\* esi_parser_finish hands over what output_buffer holds.
LEMMA FinishOrder == ASSUME Inv, OrderInv, Finish PROVE OrderInv'
<1>1. /\ FlushOutput(<<>>) /\ pc = "idle" /\ pc' = "ended"
      /\ UNCHANGED <<document, data, p, cs, pointers, overflow_data, echoing>>
  BY DEF Finish
<1>2. Sent' = Sent
  <2>1. <<>> \in Seq(Calls) /\ TypeOK
    BY DEF Inv
  <2>2. Sent' = Sent \o <<>>
    BY <1>1, <2>1, SentByFlush
  <2>3. Sent \in Seq(Calls)
    BY Places
  <2> QED BY <2>2, <2>3, ConcatEmptySeq
<1>3. Frontier' = Frontier /\ Base' = Base
  BY <1>1 DEF Frontier, Base, Parsed, Buffer, document
<1> QED BY <1>1, <1>2, <1>3, PlaceKeepsOrder DEF pointers, echoing

-----------------------------------------------------------------------------
\* A new parser has sent nothing and holds nothing back.
LEMMA InitOrder == Init => OrderInv
<1> SUFFICES ASSUME Init PROVE OrderInv
  OBVIOUS
<1>1. Outputs(<<>>) = <<>>
  BY DEF Outputs
<1>2. Sent = <<>> /\ echobuffer = <<>>
  BY <1>1 DEF Init, Sent
<1>3. ~ InTag(cs) /\ ~ NamedTag(cs)
  BY DEF Init, Start, InTag, NamedTag
<1> QED BY <1>2, <1>3 DEF OrderInv, Ordered, UpTo, Behind

\* Every step keeps the order.
LEMMA NextOrder == Inv /\ OrderInv /\ [Next]_vars => OrderInv'
<1> SUFFICES ASSUME Inv, OrderInv, [Next]_vars PROVE OrderInv'
  OBVIOUS
<1>1. CASE UNCHANGED vars
  <2>1. UNCHANGED <<document, pc, data, p, cs, pointers, overflow_data, echoing, output>>
    BY <1>1 DEF vars
  <2>2. Sent' = Sent
    BY <2>1, SentStays
  <2>3. Frontier' = Frontier /\ Base' = Base
    BY <2>1 DEF Frontier, Base, Parsed, Buffer, document
  <2> QED BY <2>1, <2>2, <2>3, PlaceKeepsOrder DEF pointers, echoing
<1>2. ASSUME NEW n \in ChunkSizes, ExecutePlain(n) \/ ExecuteFresh(n) \/ ExecuteOverflow(n)
      PROVE  OrderInv'
  BY <1>2, ExecutePlainOrder, ExecuteFreshOrder, ExecuteOverflowOrder
<1>3. CASE \/ EchoOnly \/ Begin \/ SeeStartTag \/ SeeAttributeKey \/ SeeAttributeValue
           \/ BlockStartTag \/ BlockEndTag \/ SeeEndTag \/ SeeBlockStartWithAttributes
  BY <1>3, EchoOnlyOrder, BeginOrder, SeeStartTagOrder, SeeAttributeKeyOrder,
     SeeAttributeValueOrder, BlockStartTagOrder, BlockEndTagOrder, SeeEndTagOrder,
     SeeBlockStartWithAttributesOrder
<1>4. CASE Misuse \/ ReturnSaving \/ ReturnKeeping \/ ReturnBetweenTags \/ Finish
  BY <1>4, MisuseOrder, ReturnSavingOrder, ReturnKeepingOrder, ReturnBetweenTagsOrder,
     FinishOrder
<1> QED BY <1>1, <1>2, <1>3, <1>4 DEF Next

(***************************************************************************)
(* Wherever a document is cut and whatever the size of output_buffer: text *)
(* is sent in the order of the document, and in order with the tags in     *)
(* front of it and behind it, for a byte that is held back is sent before  *)
(* any byte parsed later, and a tag is reported after output_buffer was    *)
(* flushed (esi_parser_echo_char, esi_parser_flush_output and the          *)
(* echobuffer of esi_parser_concat_to_echobuffer).                         *)
(***************************************************************************)
THEOREM SentInOrder == Spec => []InOrder
<1>1. Spec => [](Inv /\ OrderInv)
  BY InitInv, InitOrder, NextInv, NextOrder, PTL DEF Spec
<1>2. OrderInv => InOrder
  BY DEF OrderInv, Ordered, Before, LastByte, Sent, InOrder
<1> QED BY <1>1, <1>2, PTL
=============================================================================
