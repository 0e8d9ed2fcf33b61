------------------------ MODULE ESIBodyFilter_proofs ------------------------
(***************************************************************************)
(* Proofs about the body filter: the type invariant; that in a document    *)
(* whose tags nest the list of open tags is the stack of the tags around   *)
(* the place that was reached; and of every document that the open tag is  *)
(* in the list and that text is kept in order.                             *)
(***************************************************************************)
EXTENDS ESIBodyFilter, ESITags_proofs

-----------------------------------------------------------------------------
(* Type correctness.                                                       *)

(***************************************************************************)
(* What output_cb makes of the chain is a chain, whether or not the text   *)
(* is kept.                                                                *)
(***************************************************************************)
LEMMA AppendedType ==
  ASSUME TypeOK, NEW text \in Seq(Nat)
  PROVE  Appended(text) \in Seq(Bufs)
<1>1. [text |-> text, last_buf |-> FALSE] \in Bufs
  BY DEF Bufs
<1> QED BY <1>1 DEF Appended, TypeOK

(***************************************************************************)
(* The document without a tag is still a list of types.                    *)
(***************************************************************************)
LEMMA ClosedType ==
  ASSUME unclosed \in Seq(Types), NEW type
  PROVE  Closed(type) \in Seq(Types)
<1> DEFINE open == {i \in DOMAIN unclosed : unclosed[i] = type}
<1>1. CASE open = {}
  BY <1>1 DEF Closed
<1>2. CASE open # {}
  <2>1. Len(unclosed) \in Nat /\ open \subseteq 0..Len(unclosed)
    OBVIOUS
  <2>2. Max(open) \in open
    <3> HIDE DEF open
    <3> QED BY <1>2, <2>1, MaxOf
  <2>3. Max(open) - 1 \in Nat /\ Max(open) - 1 <= Len(unclosed)
    BY <2>2
  <2>4. Closed(type) = SubSeq(unclosed, 1, Max(open) - 1)
    BY <1>2 DEF Closed
  <2> HIDE DEF open
  <2> QED BY <2>3, <2>4, SubSeqProperties
<1> QED BY <1>1, <1>2

(***************************************************************************)
(* Starting an include keeps the list of requests and the fault typed.     *)
(***************************************************************************)
LEMMA StartIncludeType ==
  ASSUME TypeOK, NEW type, NEW src, tokens' \in 0..MaxTokens,
         StartInclude(type, src)
  PROVE  requested' \in Seq(Nat) /\ fault' \in Faults
<1>1. tokens' \in Nat /\ requested \in Seq(Nat) /\ fault \in Faults
  BY BoundsAssumption DEF TypeOK
<1>2. Append(requested, tokens') \in Seq(Nat)
  BY <1>1
<1> QED BY <1>1, <1>2 DEF StartInclude, Faults

(***************************************************************************)
(* Handing the chain over marks one buffer of it, or meets the NULL buffer *)
(* of an empty chain.                                                      *)
(***************************************************************************)
LEMMA HandOverType ==
  ASSUME TypeOK, NEW bufs \in Seq(Bufs), HandOver(bufs)
  PROVE  chain' \in Seq(Bufs) /\ handed' \in Seq(Seq(Bufs)) /\ fault' \in Faults
<1>1. CASE bufs = <<>>
  BY <1>1 DEF HandOver, TypeOK, Faults
<1>2. CASE bufs # <<>>
  <2>1. chain' = [bufs EXCEPT ![Len(bufs)].last_buf = TRUE]
    BY <1>2 DEF HandOver
  <2>2. chain' \in Seq(Bufs)
    <3>1. Len(bufs) \in 1..Len(bufs) /\ bufs[Len(bufs)] \in Bufs
      BY <1>2
    <3>2. [bufs[Len(bufs)] EXCEPT !.last_buf = TRUE] \in Bufs
      BY <3>1 DEF Bufs
    <3>3. chain' = [bufs EXCEPT ![Len(bufs)] =
                      [bufs[Len(bufs)] EXCEPT !.last_buf = TRUE]]
      BY <2>1
    <3> QED BY <3>1, <3>2, <3>3, ExceptSeq
  <2>3. handed' = Append(handed, chain') /\ fault' = fault
    BY <1>2 DEF HandOver
  <2> QED BY <2>2, <2>3 DEF TypeOK
<1> QED BY <1>1, <1>2

(***************************************************************************)
(* Every step of the body filter keeps the types.                          *)
(***************************************************************************)
LEMMA TypeStep == TypeOK /\ [Next]_vars => TypeOK'
<1> SUFFICES ASSUME TypeOK, [Next]_vars
             PROVE  TypeOK'
  OBVIOUS
<1> USE BoundsAssumption, TagNamesAssumption
<1>1. <<>> \in Seq(Nat) /\ Len(<<>>) < SIZE
  OBVIOUS
<1>13. CASE PassOn
  <2>1. made' \in 0..MaxCalls /\ handed' = Append(handed, <<>>)
    BY <1>13 DEF PassOn, Ready, TypeOK
  <2>2. <<>> \in Seq(Bufs)
    OBVIOUS
  <2>3. handed' \in Seq(Seq(Bufs))
    <3>1. handed \in Seq(Seq(Bufs))
      BY DEF TypeOK
    <3> QED BY <2>1, <2>2, <3>1
  <2> QED BY <1>13, <2>1, <2>3 DEF PassOn, TypeOK
<1>2. CASE BeginCall
  <2>1. Reset(ctx) \in Contexts
    BY ResetType DEF TypeOK
  <2>2. made' \in 0..MaxCalls
    BY <1>2 DEF BeginCall, Ready, TypeOK
  <2> QED BY <1>2, <2>1, <2>2 DEF BeginCall, TypeOK
<1>3. CASE Text
  <2> DEFINE all == Append(output_buffer, tokens')
  <2>1. tokens' \in 0..MaxTokens /\ tokens' \in Nat
    BY <1>3 DEF Text, Read, TypeOK
  <2>2. all \in Seq(Nat) /\ Len(all) <= SIZE
    BY <2>1 DEF TypeOK
  <2>3. chain' \in Seq(Bufs) /\ output_buffer' \in Seq(Nat) /\ Len(output_buffer') < SIZE
    <3>1. CASE Len(all) = SIZE
      <4>1. chain' = Appended(all) /\ output_buffer' = <<>>
        BY <1>3, <3>1 DEF Text
      <4> HIDE DEF all
      <4> QED BY <1>1, <2>2, <4>1, AppendedType
    <3>2. CASE Len(all) # SIZE
      <4>1. chain' = chain /\ output_buffer' = all
        BY <1>3, <3>2 DEF Text
      <4> HIDE DEF all
      <4> QED BY <2>2, <3>2, <4>1 DEF TypeOK
    <3> QED BY <3>1, <3>2
  <2>4. token' \in Tokens
    BY <1>3 DEF Text, Read, TextToken, Tokens
  <2> QED BY <1>3, <2>1, <2>3, <2>4 DEF Text, Read, TypeOK
<1>4. ASSUME NEW t \in Tokens, Read(t)
      PROVE  tokens' \in 0..MaxTokens /\ token' \in Tokens
  BY <1>4 DEF Read, TypeOK
<1>5. ASSUME FlushOutput
      PROVE  chain' \in Seq(Bufs) /\ output_buffer' \in Seq(Nat) /\ Len(output_buffer') < SIZE
  BY <1>1, <1>5, AppendedType DEF FlushOutput, TypeOK
<1>6. ASSUME NEW name \in TagNames
      PROVE  StrToType(name) \in AnyType
  BY StrToTypeType
<1>7. ASSUME NEW name \in TagNames, NEW src \in BOOLEAN, StartTag(name, src)
      PROVE  TypeOK'
  <2> DEFINE type == StrToType(name)
             t    == TagToken("start", type, src)
  <2>1. Read(t) /\ FlushOutput /\ StartInclude(type, src)
        /\ ctx' = StartTagCb(ctx, type) /\ unclosed' = Opened(type)
    BY <1>7 DEF StartTag
  <2>2. type \in AnyType
    BY <1>6
  <2>6. t \in Tokens
    BY <2>2 DEF TagToken, Tokens, AnyType
  <2> HIDE DEF t, type
  <2>7. tokens' \in 0..MaxTokens /\ token' \in Tokens
    BY <1>4, <2>1, <2>6
  <2>3. ctx' \in Contexts
    BY <2>1, <2>2, StartTagCbType DEF TypeOK
  <2>4. unclosed' \in Seq(Types)
    BY <2>1, <2>2 DEF Opened, AnyType, TypeOK
  <2>5. requested' \in Seq(Nat) /\ fault' \in Faults
    BY <2>1, <2>7, StartIncludeType
  <2> QED BY <1>5, <2>7, <2>1, <2>3, <2>4, <2>5 DEF Read, TypeOK
<1>8. ASSUME NEW name \in TagNames, NEW src \in BOOLEAN, InlineTag(name, src)
      PROVE  TypeOK'
  <2> DEFINE type == StrToType(name)
             t    == TagToken("inline", type, src)
  <2>1. Read(t) /\ FlushOutput /\ StartInclude(type, src)
        /\ ctx' = EndTagCb(StartTagCb(ctx, type), type) /\ unclosed' = unclosed
    BY <1>8 DEF InlineTag
  <2>2. type \in AnyType
    BY <1>6
  <2>6. t \in Tokens
    BY <2>2 DEF TagToken, Tokens, AnyType
  <2> HIDE DEF t, type
  <2>7. tokens' \in 0..MaxTokens /\ token' \in Tokens
    BY <1>4, <2>1, <2>6
  <2>3. ctx' \in Contexts
    BY <2>1, <2>2, StartTagCbType, EndTagCbType DEF TypeOK
  <2>4. requested' \in Seq(Nat) /\ fault' \in Faults
    BY <2>1, <2>7, StartIncludeType
  <2> QED BY <1>5, <2>7, <2>1, <2>3, <2>4 DEF Read, TypeOK
<1>9. ASSUME NEW name \in TagNames, EndTag(name)
      PROVE  TypeOK'
  <2> DEFINE type == StrToType(name)
             t    == TagToken("end", type, FALSE)
  <2>1. Read(t) /\ FlushOutput /\ UNCHANGED <<requested, fault>>
        /\ ctx' = EndTagCb(ctx, type) /\ unclosed' = Closed(type)
    BY <1>9 DEF EndTag
  <2>2. type \in AnyType
    BY <1>6
  <2>6. t \in Tokens
    BY <2>2 DEF TagToken, Tokens, AnyType
  <2> HIDE DEF t, type
  <2>7. tokens' \in 0..MaxTokens /\ token' \in Tokens
    BY <1>4, <2>1, <2>6
  <2>3. ctx' \in Contexts
    BY <2>1, <2>2, EndTagCbType DEF TypeOK
  <2>4. unclosed' \in Seq(Types)
    BY <2>1, ClosedType DEF TypeOK
  <2> QED BY <1>5, <2>7, <2>1, <2>3, <2>4 DEF Read, TypeOK
<1>10. CASE EndCall
  <2>1. HandOver(chain) /\ pc' = "idle" /\ output_buffer' = output_buffer
    BY <1>10 DEF EndCall
  <2>2. chain' \in Seq(Bufs) /\ handed' \in Seq(Seq(Bufs)) /\ fault' \in Faults
    BY <2>1, HandOverType DEF TypeOK
  <2> QED BY <2>1, <2>2 DEF HandOver, TypeOK
<1>11. CASE EndLastCall
  <2>1. HandOver(Appended(output_buffer)) /\ pc' = "ended" /\ output_buffer' = <<>>
    BY <1>11 DEF EndLastCall
  <2>2. Appended(output_buffer) \in Seq(Bufs)
    BY AppendedType DEF TypeOK
  <2>3. chain' \in Seq(Bufs) /\ handed' \in Seq(Seq(Bufs)) /\ fault' \in Faults
    BY <2>1, <2>2, HandOverType
  <2> QED BY <1>1, <2>1, <2>3 DEF HandOver, TypeOK
<1>12. CASE UNCHANGED vars
  BY <1>12 DEF vars, TypeOK
<1> QED BY <1>2, <1>3, <1>7, <1>8, <1>9, <1>10, <1>11, <1>12, <1>13 DEF Next

(***************************************************************************)
(* The variables of the body filter have their types, for every document   *)
(* and every way it arrives; in particular output_buffer is never left     *)
(* full, so that there is room for the next piece of text.                 *)
(***************************************************************************)
THEOREM TypeCorrect == Spec => []TypeOK
<1>1. Init => TypeOK
  BY BoundsAssumption
  DEF Init, TypeOK, NoTags, Contexts, Faults, TextToken, Tokens
<1> QED BY <1>1, TypeStep, PTL DEF Spec

-----------------------------------------------------------------------------
(* The list of open tags is the stack of the tags around a place.          *)

(***************************************************************************)
(* The inductive invariant.  TagsTracked alone is not inductive: it says   *)
(* nothing of the context between two calls, where no tag is open; an      *)
(* exception that was raised would keep an except from being ignored; and  *)
(* closing a tag by its type closes the innermost one only if no type is   *)
(* within itself.                                                          *)
(***************************************************************************)
NestingInv ==
  /\ Tracked(ctx, unclosed)
  /\ pc # "call" => unclosed = <<>>
  /\ ~ ctx.exception_raised
  /\ Distinct(unclosed)

\* The innermost tag of a type is the last, if that has it.
LEMMA ClosedInnermost ==
  ASSUME unclosed \in Seq(Types), Distinct(unclosed),
         NEW type, unclosed # <<>>, unclosed[Len(unclosed)] = type
  PROVE  Closed(type) = SubSeq(unclosed, 1, Len(unclosed) - 1)
<1>1. {i \in DOMAIN unclosed : unclosed[i] = type} = {Len(unclosed)}
  BY DEF Distinct
<1>2. Max({Len(unclosed)}) = Len(unclosed)
  <2>1. Len(unclosed) \in Nat /\ {Len(unclosed)} \subseteq 0..Len(unclosed)
        /\ {Len(unclosed)} # {}
    OBVIOUS
  <2>2. Max({Len(unclosed)}) \in {Len(unclosed)}
    BY <2>1, MaxOf
  <2> QED BY <2>2
<1> QED BY <1>1, <1>2 DEF Closed

(***************************************************************************)
(* In a document whose tags nest and that no call cuts within a tag, every *)
(* step keeps the two lists equal.                                         *)
(***************************************************************************)
LEMMA NestingStep ==
  ASSUME WellNested, ~ CutsWithinTags
  PROVE  TypeOK /\ NestingInv /\ [Next]_vars => NestingInv'
<1> SUFFICES ASSUME TypeOK, NestingInv, [Next]_vars
             PROVE  NestingInv'
  OBVIOUS
<1> USE TagNamesAssumption
<1>1. ctx \in Contexts /\ unclosed \in Seq(Types) /\ ~ ctx.exception_raised
      /\ Distinct(unclosed)
  BY DEF TypeOK, NestingInv
<1>2. ASSUME NEW t, Read(t) PROVE pc = "call" /\ pc' = "call" /\ Tracked(ctx, unclosed)
  BY <1>2 DEF Read, NestingInv
<1>3. ASSUME NEW name \in TagNames
      PROVE  StrToType(name) = "none" \/ StrToType(name) \in Types
  BY StrToTypeType DEF AnyType
<1>4. CASE BeginCall
  <2>1. unclosed = <<>> /\ unclosed' = <<>> /\ ~ ctx.ignore_tag /\ pc' = "call"
    BY <1>4 DEF BeginCall, Ready, NestingInv, Tracked
  <2>2. ctx' = Reset(ctx)
    BY <1>4 DEF BeginCall
  <2>3. Tracked(ctx', unclosed')
    BY <1>1, <2>1, <2>2, ResetType DEF Tracked
  <2>4. ~ ctx'.exception_raised
    BY <1>1, <2>2, ResetType
  <2> QED BY <1>1, <2>1, <2>3, <2>4 DEF NestingInv
<1>5. CASE Text
  BY <1>1, <1>2, <1>5 DEF Text, NestingInv
<1>6. ASSUME NEW name \in TagNames, NEW src \in BOOLEAN, StartTag(name, src)
      PROVE  NestingInv'
  <2> DEFINE type == StrToType(name)
  <2>1. Read(TagToken("start", type, src)) /\ MayOpen(type) /\ ctx' = StartTagCb(ctx, type)
        /\ unclosed' = Opened(type)
    BY <1>6 DEF StartTag
  <2>2. type = "none" \/ type \in Types
    BY <1>3
  <2> HIDE DEF type
  <2>3. CASE type = "none"
    BY <1>1, <1>2, <2>1, <2>3 DEF StartTagCb, Opened, NestingInv
  <2>4. CASE type # "none"
    <3>1. unclosed' = Append(unclosed, type)
      BY <2>1, <2>4 DEF Opened
    <3>2. \A i \in DOMAIN unclosed : unclosed[i] # type
      BY <2>1 DEF MayOpen
    <3>3. Tracked(ctx', unclosed') /\ Distinct(unclosed') /\ ~ ctx'.exception_raised
      BY <1>1, <1>2, <2>1, <2>2, <2>4, <3>1, <3>2, PushTracked
    <3> QED BY <1>2, <2>1, <3>3 DEF NestingInv
  <2> QED BY <2>3, <2>4
<1>7. ASSUME NEW name \in TagNames, NEW src \in BOOLEAN, InlineTag(name, src)
      PROVE  NestingInv'
  <2> DEFINE type == StrToType(name)
  <2>1. Read(TagToken("inline", type, src)) /\ MayOpen(type) /\ ctx' = EndTagCb(StartTagCb(ctx, type), type)
        /\ unclosed' = unclosed
    BY <1>7 DEF InlineTag
  <2>2. type = "none" \/ type \in Types
    BY <1>3
  <2> HIDE DEF type
  <2>3. CASE type = "none"
    BY <1>1, <1>2, <2>1, <2>3 DEF StartTagCb, EndTagCb, NestingInv
  <2>4. CASE type # "none"
    <3>1. \A i \in DOMAIN unclosed : unclosed[i] # type
      BY <2>1 DEF MayOpen
    <3>2. Tracked(ctx', unclosed') /\ ~ ctx'.exception_raised
      BY <1>1, <1>2, <2>1, <2>2, <2>4, <3>1, InlineTracked
    <3> QED BY <1>1, <1>2, <2>1, <3>2 DEF NestingInv
  <2> QED BY <2>3, <2>4
<1>8. ASSUME NEW name \in TagNames, EndTag(name)
      PROVE  NestingInv'
  <2> DEFINE type == StrToType(name)
  <2>1. Read(TagToken("end", type, FALSE)) /\ MayClose(type) /\ ctx' = EndTagCb(ctx, type)
        /\ unclosed' = Closed(type)
    BY <1>8 DEF EndTag
  <2>2. type = "none" \/ type \in Types
    BY <1>3
  <2> HIDE DEF type
  <2>3. CASE type = "none"
    <3>1. \A i \in DOMAIN unclosed : unclosed[i] # type
      BY <1>1, <2>3 DEF Types, TypeOrder
    <3>2. Closed(type) = unclosed
      BY <3>1 DEF Closed
    <3> QED BY <1>1, <1>2, <2>1, <2>3, <3>2 DEF EndTagCb, NestingInv
  <2>4. CASE type # "none"
    <3>1. unclosed # <<>> /\ unclosed[Len(unclosed)] = type
      BY <2>1, <2>4 DEF MayClose
    <3>2. unclosed' = SubSeq(unclosed, 1, Len(unclosed) - 1)
      BY <1>1, <2>1, <3>1, ClosedInnermost
    <3>3. Tracked(ctx', unclosed') /\ Distinct(unclosed') /\ ~ ctx'.exception_raised
      BY <1>1, <1>2, <2>1, <2>2, <2>4, <3>1, <3>2, PopTracked
    <3> QED BY <1>2, <2>1, <3>3 DEF NestingInv
  <2> QED BY <2>3, <2>4
<1>9. CASE EndCall
  <2>1. unclosed = <<>> /\ unclosed' = <<>> /\ ctx' = ctx /\ pc' = "idle"
    BY <1>9 DEF EndCall, HandOver
  <2> QED BY <1>1, <2>1 DEF NestingInv
<1>10. CASE EndLastCall
  <2>1. unclosed = <<>> /\ unclosed' = <<>> /\ ctx' = ctx /\ pc' = "ended"
    BY <1>10 DEF EndLastCall, HandOver
  <2> QED BY <1>1, <2>1 DEF NestingInv
<1>12. CASE PassOn
  <2>1. UNCHANGED <<unclosed, pc, ctx>> /\ pc # "call"
    BY <1>12 DEF PassOn, Ready
  <2> QED BY <2>1 DEF NestingInv
<1>11. CASE UNCHANGED vars
  BY <1>11 DEF vars, NestingInv
<1> QED BY <1>4, <1>5, <1>6, <1>7, <1>8, <1>9, <1>10, <1>11, <1>12 DEF Next

(***************************************************************************)
(* For every such document, of any length and in any number of calls, the  *)
(* flat list of tags that the callbacks keep is the stack of the tags      *)
(* around the place reached, its last tag is the open one, and ignore_tag  *)
(* says whether an except is among them.                                   *)
(***************************************************************************)
THEOREM NestingTracked == Spec => []TagsTracked
<1>1. CASE WellNested /\ ~ CutsWithinTags
  <2>1. Init => NestingInv
    BY DEF Init, NestingInv, NoTags, Tracked, Distinct
  <2>2. TypeOK /\ NestingInv /\ [Next]_vars => NestingInv'
    BY <1>1, NestingStep
  <2>3. NestingInv => TagsTracked
    BY DEF NestingInv, Tracked, TagsTracked
  <2> QED BY <2>1, <2>2, <2>3, TypeCorrect, PTL DEF Spec
<1>2. CASE ~ (WellNested /\ ~ CutsWithinTags)
  <2>1. TagsTracked
    BY <1>2 DEF TagsTracked
  <2> QED BY <2>1, PTL
<1> QED BY <1>1, <1>2

-----------------------------------------------------------------------------
(* Whatever the document: the open tag and the order of text.              *)

(***************************************************************************)
(* However start and end tags are arranged and wherever calls cut the      *)
(* response, open_tag is NULL or the last tag of the list: the callbacks   *)
(* never follow it to a tag that was freed.                                *)
(***************************************************************************)
THEOREM OpenTagListed == Spec => []OpenTagInList
<1> USE TagNamesAssumption
<1>1. Init => OpenTagInList
  BY DEF Init, NoTags, OpenTagInList
<1>2. TypeOK /\ OpenTagInList /\ [Next]_vars => OpenTagInList'
  <2> SUFFICES ASSUME TypeOK, OpenTagInList, [Next]_vars
               PROVE  OpenTagInList'
    OBVIOUS
  <2>1. ctx \in Contexts /\ OpenInList(ctx)
    BY DEF TypeOK, OpenTagInList, OpenInList
  <2>2. OpenInList(ctx') => OpenTagInList'
    BY DEF OpenTagInList, OpenInList
  <2>3. CASE BeginCall
    <3>1. ctx' = Reset(ctx)
      BY <2>3 DEF BeginCall
    <3> QED BY <2>1, <2>2, <3>1, ResetType DEF OpenInList
  <2>4. ASSUME NEW name \in TagNames, NEW src \in BOOLEAN, StartTag(name, src)
        PROVE  OpenTagInList'
    <3>1. ctx' = StartTagCb(ctx, StrToType(name))
      BY <2>4 DEF StartTag
    <3> QED BY <2>1, <2>2, <3>1, StrToTypeType, StartOpensLast
  <2>5. ASSUME NEW name \in TagNames, EndTag(name)
        PROVE  OpenTagInList'
    <3>1. ctx' = EndTagCb(ctx, StrToType(name))
      BY <2>5 DEF EndTag
    <3> QED BY <2>1, <2>2, <3>1, StrToTypeType, EndOpensLast
  <2>6. ASSUME NEW name \in TagNames, NEW src \in BOOLEAN, InlineTag(name, src)
        PROVE  OpenTagInList'
    <3> DEFINE type == StrToType(name)
               c1   == StartTagCb(ctx, type)
    <3>1. ctx' = EndTagCb(c1, type)
      BY <2>6 DEF InlineTag
    <3>2. type \in AnyType
      BY StrToTypeType
    <3>3. c1 \in Contexts /\ OpenInList(c1)
      <4> HIDE DEF type
      <4> QED BY <2>1, <3>2, StartTagCbType, StartOpensLast
    <3> HIDE DEF c1, type
    <3> QED BY <2>2, <3>1, <3>2, <3>3, EndOpensLast
  <2>7. CASE PassOn \/ Text \/ EndCall \/ EndLastCall \/ UNCHANGED vars
    <3>1. ctx' = ctx
      BY <2>7 DEF PassOn, Text, EndCall, EndLastCall, HandOver, vars
    <3> QED BY <2>1, <2>2, <3>1
  <2> QED BY <2>3, <2>4, <2>5, <2>6, <2>7 DEF Next
<1> QED BY <1>1, <1>2, TypeCorrect, PTL DEF Spec

(***************************************************************************)
(* The inductive invariant behind TextInOrder: text in buffers is in       *)
(* order, before the text in out, and all of it was read among the first n *)
(* tokens.                                                                 *)
(***************************************************************************)
Ordered(bufs, out, n) ==
  /\ \A i, j \in DOMAIN bufs :
       \A a \in DOMAIN bufs[i].text, b \in DOMAIN bufs[j].text :
         i < j \/ (i = j /\ a < b) => bufs[i].text[a] < bufs[j].text[b]
  /\ \A i \in DOMAIN bufs :
       \A a \in DOMAIN bufs[i].text, b \in DOMAIN out : bufs[i].text[a] < out[b]
  /\ \A a, b \in DOMAIN out : a < b => out[a] < out[b]
  /\ \A i \in DOMAIN bufs : \A a \in DOMAIN bufs[i].text : bufs[i].text[a] <= n
  /\ \A b \in DOMAIN out : out[b] <= n

(***************************************************************************)
(* The text of a buffer is a sequence of places in the document.           *)
(***************************************************************************)
LEMMA TextsType ==
  ASSUME NEW bufs \in Seq(Bufs), NEW i \in DOMAIN bufs
  PROVE  bufs[i].text \in Seq(Nat)
<1>1. bufs[i] \in Bufs
  OBVIOUS
<1>2. \A b \in Bufs : b.text \in Seq(Nat)
  BY DEF Bufs
<1> QED BY <1>1, <1>2

(***************************************************************************)
(* Reading another token keeps the order, whether it is text that joins    *)
(* output_buffer or a tag.                                                 *)
(***************************************************************************)
LEMMA ReadOrdered ==
  ASSUME NEW bufs \in Seq(Bufs), NEW out \in Seq(Nat), NEW n \in Nat,
         Ordered(bufs, out, n)
  PROVE  Ordered(bufs, Append(out, n + 1), n + 1) /\ Ordered(bufs, out, n + 1)
<1> DEFINE new == Append(out, n + 1)
<1>1. /\ Len(out) \in Nat /\ DOMAIN out = 1..Len(out)
      /\ DOMAIN new = 1..(Len(out) + 1)
      /\ \A b \in 1..Len(out) : new[b] = out[b] /\ out[b] \in Nat
      /\ new[Len(out) + 1] = n + 1
  OBVIOUS
<1>2. \A i \in DOMAIN bufs : \A a \in DOMAIN bufs[i].text : bufs[i].text[a] \in Nat
  <2> TAKE i \in DOMAIN bufs
  <2>1. bufs[i].text \in Seq(Nat)
    BY TextsType
  <2> QED BY <2>1
<1> HIDE DEF new
<1>3. \A b \in DOMAIN new : (b \in 1..Len(out) /\ new[b] = out[b]) \/ (b = Len(out) + 1 /\ new[b] = n + 1)
  BY <1>1
<1>4. \A i \in DOMAIN bufs : \A a \in DOMAIN bufs[i].text, b \in DOMAIN new : bufs[i].text[a] < new[b]
  <2> TAKE i \in DOMAIN bufs
  <2> TAKE a \in DOMAIN bufs[i].text, b \in DOMAIN new
  <2>1. bufs[i].text[a] \in Nat /\ bufs[i].text[a] <= n
    BY <1>2 DEF Ordered
  <2>2. CASE b \in 1..Len(out) /\ new[b] = out[b]
    BY <1>1, <2>2 DEF Ordered
  <2>3. CASE b = Len(out) + 1 /\ new[b] = n + 1
    BY <2>1, <2>3
  <2> QED BY <1>3, <2>2, <2>3
<1>5. \A a, b \in DOMAIN new : a < b => new[a] < new[b]
  BY <1>1 DEF Ordered
<1>6. \A i \in DOMAIN bufs : \A a \in DOMAIN bufs[i].text : bufs[i].text[a] <= n + 1
  BY <1>2 DEF Ordered
<1>7. (\A b \in DOMAIN new : new[b] <= n + 1) /\ (\A b \in DOMAIN out : out[b] <= n + 1)
  <2>1. \A b \in DOMAIN out : out[b] <= n
    BY Zenon DEF Ordered
  <2>2. ASSUME NEW b \in 1..Len(out) PROVE out[b] <= n + 1
    <3>1. out[b] \in Nat /\ out[b] <= n
      BY <1>1, <2>1, Zenon
    <3>2. \A x \in Nat : x <= n => x <= n + 1
      OBVIOUS
    <3> QED BY <3>1, <3>2, Zenon
  <2> QED BY <1>1, <1>3, <2>2
<1>8. Ordered(bufs, new, n + 1)
  BY <1>4, <1>5, <1>6, <1>7 DEF Ordered
<1>9. Ordered(bufs, out, n + 1)
  BY <1>6, <1>7 DEF Ordered
<1> QED BY <1>8, <1>9 DEF new

(***************************************************************************)
(* Handing text to output_cb keeps the order, whether it is kept or not.   *)
(***************************************************************************)
LEMMA FlushOrdered ==
  ASSUME TypeOK, NEW out \in Seq(Nat), NEW n \in Nat, Ordered(chain, out, n)
  PROVE  Ordered(Appended(out), <<>>, n)
<1>1. CASE Appended(out) = chain
  BY <1>1 DEF Ordered
<1>2. CASE Appended(out) = Append(chain, [text |-> out, last_buf |-> FALSE])
  <2> DEFINE buf  == [text |-> out, last_buf |-> FALSE]
             bufs == Append(chain, buf)
             m    == Len(chain)
  <2>1. /\ m \in Nat /\ DOMAIN chain = 1..m /\ DOMAIN bufs = 1..(m + 1)
        /\ \A i \in 1..m : bufs[i] = chain[i]
        /\ bufs[m + 1].text = out
    <3>1. chain \in Seq(Bufs) /\ buf \in Bufs
      BY DEF TypeOK, Bufs
    <3>2. buf.text = out
      OBVIOUS
    <3> HIDE DEF buf
    <3> QED BY <3>1, <3>2
  <2> HIDE DEF bufs, m
  <2>2. \A i \in DOMAIN bufs : (i \in DOMAIN chain /\ bufs[i] = chain[i]) \/ (i = m + 1 /\ bufs[i].text = out)
    BY <2>1
  <2>3. \A i, j \in DOMAIN bufs :
          \A a \in DOMAIN bufs[i].text, b \in DOMAIN bufs[j].text :
            i < j \/ (i = j /\ a < b) => bufs[i].text[a] < bufs[j].text[b]
    <3> TAKE i, j \in DOMAIN bufs
    <3> TAKE a \in DOMAIN bufs[i].text, b \in DOMAIN bufs[j].text
    <3> HAVE i < j \/ (i = j /\ a < b)
    <3>1. CASE j \in DOMAIN chain
      <4>1. i \in DOMAIN chain /\ bufs[i] = chain[i] /\ bufs[j] = chain[j]
        BY <2>1, <3>1
      <4> QED BY <3>1, <4>1 DEF Ordered
    <3>2. CASE j = m + 1 /\ i \in DOMAIN chain
      BY <2>1, <3>2 DEF Ordered
    <3>3. CASE j = m + 1 /\ i = m + 1
      BY <2>1, <3>3 DEF Ordered
    <3> QED BY <2>2, <3>1, <3>2, <3>3
  <2>4. \A i \in DOMAIN bufs : \A a \in DOMAIN bufs[i].text : bufs[i].text[a] <= n
    BY <2>2 DEF Ordered
  <2>5. Ordered(bufs, <<>>, n)
    BY <2>3, <2>4 DEF Ordered
  <2> QED BY <1>2, <2>5 DEF bufs
<1> QED BY <1>1, <1>2 DEF Appended

(***************************************************************************)
(* Marking the last buffer, or meeting none, leaves the text as it is.     *)
(***************************************************************************)
LEMMA HandOverOrdered ==
  ASSUME TypeOK, NEW bufs \in Seq(Bufs), HandOver(bufs), NEW out, NEW n \in Nat,
         Ordered(bufs, out, n), Ordered(chain, out, n)
  PROVE  Ordered(chain', out, n)
<1>1. CASE bufs = <<>>
  BY <1>1 DEF HandOver
<1>2. CASE bufs # <<>>
  <2>1. chain' = [bufs EXCEPT ![Len(bufs)] = [bufs[Len(bufs)] EXCEPT !.last_buf = TRUE]]
    BY <1>2 DEF HandOver
  <2>2. DOMAIN chain' = DOMAIN bufs
    BY <2>1
  <2>3. \A i \in DOMAIN bufs : chain'[i].text = bufs[i].text
    <3> TAKE i \in DOMAIN bufs
    <3>1. bufs[i] \in Bufs
      OBVIOUS
    <3>2. [bufs[i] EXCEPT !.last_buf = TRUE].text = bufs[i].text
      BY <3>1 DEF Bufs
    <3>3. chain'[i] = bufs[i] \/ chain'[i] = [bufs[i] EXCEPT !.last_buf = TRUE]
      BY <2>1
    <3> QED BY <3>2, <3>3
  <2> QED BY <2>2, <2>3 DEF Ordered
<1> QED BY <1>1, <1>2

(***************************************************************************)
(* Every step keeps the order.                                             *)
(***************************************************************************)
LEMMA OrderStep ==
  TypeOK /\ Ordered(chain, output_buffer, tokens) /\ [Next]_vars
    => Ordered(chain', output_buffer', tokens')
<1> SUFFICES ASSUME TypeOK, Ordered(chain, output_buffer, tokens), [Next]_vars
             PROVE  Ordered(chain', output_buffer', tokens')
  OBVIOUS
<1>1. /\ chain \in Seq(Bufs) /\ output_buffer \in Seq(Nat)
      /\ tokens \in Nat
  BY BoundsAssumption DEF TypeOK
<1>2. ASSUME NEW t, Read(t), FlushOutput
      PROVE  Ordered(chain', output_buffer', tokens')
  <2>1. Ordered(chain, output_buffer, tokens + 1)
    BY <1>1, ReadOrdered
  <2>2. tokens' = tokens + 1 /\ tokens + 1 \in Nat
    BY <1>1, <1>2 DEF Read
  <2>3. Ordered(Appended(output_buffer), <<>>, tokens + 1)
    BY <1>1, <2>1, <2>2, FlushOrdered
  <2> QED BY <1>2, <2>2, <2>3 DEF FlushOutput
<1>3. CASE Text
  <2> DEFINE all == Append(output_buffer, tokens + 1)
  <2>1. tokens' = tokens + 1 /\ tokens + 1 \in Nat
    BY <1>1, <1>3 DEF Text, Read
  <2>2. Ordered(chain, all, tokens + 1) /\ all \in Seq(Nat)
    BY <1>1, ReadOrdered
  <2>3. \/ chain' = Appended(all) /\ output_buffer' = <<>>
        \/ chain' = chain /\ output_buffer' = all
    BY <1>3, <2>1 DEF Text
  <2> HIDE DEF all
  <2>4. Ordered(Appended(all), <<>>, tokens + 1)
    BY <2>1, <2>2, FlushOrdered
  <2> QED BY <2>1, <2>2, <2>3, <2>4
<1>4. ASSUME NEW name \in TagNames, NEW src \in BOOLEAN, StartTag(name, src)
      PROVE  Ordered(chain', output_buffer', tokens')
  BY <1>2, <1>4 DEF StartTag
<1>5. ASSUME NEW name \in TagNames, NEW src \in BOOLEAN, InlineTag(name, src)
      PROVE  Ordered(chain', output_buffer', tokens')
  BY <1>2, <1>5 DEF InlineTag
<1>6. ASSUME NEW name \in TagNames, EndTag(name)
      PROVE  Ordered(chain', output_buffer', tokens')
  BY <1>2, <1>6 DEF EndTag
<1>7. CASE EndCall
  <2>1. HandOver(chain) /\ output_buffer' = output_buffer /\ tokens' = tokens
    BY <1>7 DEF EndCall, HandOver
  <2> QED BY <1>1, <2>1, HandOverOrdered
<1>8. CASE EndLastCall
  <2>1. HandOver(Appended(output_buffer)) /\ output_buffer' = <<>> /\ tokens' = tokens
    BY <1>8 DEF EndLastCall, HandOver
  <2>2. Ordered(Appended(output_buffer), <<>>, tokens) /\ Appended(output_buffer) \in Seq(Bufs)
    BY <1>1, FlushOrdered, AppendedType
  <2>3. Ordered(chain, <<>>, tokens)
    BY DEF Ordered
  <2>4. Ordered(chain', <<>>, tokens)
    BY <1>1, <2>1, <2>2, <2>3, HandOverOrdered
  <2> QED BY <2>1, <2>4
<1>9. CASE PassOn \/ BeginCall \/ UNCHANGED vars
  <2>1. UNCHANGED <<chain, output_buffer, tokens>>
    BY <1>9 DEF PassOn, BeginCall, vars
  <2> QED BY <2>1
<1> QED BY <1>3, <1>4, <1>5, <1>6, <1>7, <1>8, <1>9 DEF Next

(***************************************************************************)
(* For every document, every arrangement of its tags, every number of      *)
(* calls and wherever they cut it: text joins the chain in the order of    *)
(* the document and never twice.                                           *)
(***************************************************************************)
THEOREM TextOrdered == Spec => []TextInOrder
<1>1. Init => Ordered(chain, output_buffer, tokens)
  BY DEF Init, Ordered
<1>2. TypeOK /\ Ordered(chain, output_buffer, tokens) => TextInOrder
  <2> SUFFICES ASSUME TypeOK, Ordered(chain, output_buffer, tokens)
               PROVE  TextInOrder
    OBVIOUS
  <2> DEFINE texts == [i \in DOMAIN chain |-> chain[i].text]
             m == Len(chain)
  <2>1. chain \in Seq(Bufs) /\ output_buffer \in Seq(Nat)
    BY DEF TypeOK
  <2>2. m \in Nat /\ DOMAIN chain = 1..m /\ \A i \in 1..m : chain[i].text \in Seq(Nat)
    BY <2>1, TextsType
  <2>3. texts \in Seq(Seq(Nat)) /\ Len(texts) = m /\ \A i \in 1..m : texts[i] = chain[i].text
    BY <2>2
  <2> HIDE DEF texts
  <2>4. /\ DOMAIN Pieces = 1..(m + 1)
        /\ \A i \in 1..m : Pieces[i] = chain[i].text
        /\ Pieces[m + 1] = output_buffer
    BY <2>1, <2>3 DEF Pieces, texts
  <2> HIDE DEF m
  <2> QED BY <2>2, <2>4 DEF TextInOrder, Ordered
<1>3. TypeOK /\ Ordered(chain, output_buffer, tokens) /\ [Next]_vars
        => Ordered(chain, output_buffer, tokens)'
  BY OrderStep DEF Ordered
<1> QED BY <1>1, <1>2, <1>3, TypeCorrect, PTL DEF Spec

-----------------------------------------------------------------------------
(* The text of a chain: what FlattenSeq computes.                          *)

(***************************************************************************)
(* FlattenSeq joins the texts of a chain.                                  *)
(***************************************************************************)
LEMMA FlattenIs ==
  ASSUME NEW s \in Seq(Seq(Nat))
  PROVE  JoinedTo(s, FlattenSeq(s))
<1>1. CASE s = <<>>
  BY <1>1 DEF FlattenSeq, JoinedTo
<1>2. CASE s # <<>>
  <2> DEFINE flatten[i \in 1..Len(s)] == IF i = 1 THEN s[i] ELSE flatten[i - 1] \o s[i]
  <2>1. PICK f : Joins(f, s, Len(s))
    BY JoinsExist
  <2>2. flatten = [i \in 1..Len(s) |-> IF i = 1 THEN s[i] ELSE flatten[i - 1] \o s[i]]
    BY <2>1 DEF Joins
  <2>3. FlattenSeq(s) = flatten[Len(s)]
    BY <1>2 DEF FlattenSeq
  <2> HIDE DEF flatten
  <2> QED BY <1>2, <2>2, <2>3 DEF Joins, JoinedTo
<1> QED BY <1>1, <1>2

(***************************************************************************)
(* A text more at the end of the sequence is that text more at the end.    *)
(***************************************************************************)
LEMMA FlattenAppend ==
  ASSUME NEW s \in Seq(Seq(Nat)), NEW e \in Seq(Nat)
  PROVE  FlattenSeq(s) \in Seq(Nat) /\ FlattenSeq(Append(s, e)) = FlattenSeq(s) \o e
<1>1. Append(s, e) \in Seq(Seq(Nat))
  OBVIOUS
<1>2. JoinedTo(s, FlattenSeq(s)) /\ JoinedTo(Append(s, e), FlattenSeq(Append(s, e)))
  BY <1>1, FlattenIs
<1> QED BY <1>2, JoinedAppend

\* So is it of a chain; marking a buffer does not change its text.
LEMMA TextOfAppend ==
  ASSUME NEW bufs \in Seq(Bufs), NEW buf \in Bufs
  PROVE  TextOf(bufs) \in Seq(Nat) /\ TextOf(Append(bufs, buf)) = TextOf(bufs) \o buf.text
<1> DEFINE s == [i \in DOMAIN bufs |-> bufs[i].text]
           both == Append(bufs, buf)
           t == [i \in DOMAIN both |-> both[i].text]
<1>1. /\ DOMAIN bufs = 1..Len(bufs) /\ Len(bufs) \in Nat
      /\ \A i \in 1..Len(bufs) : bufs[i] \in Bufs
      /\ both \in Seq(Bufs) /\ Len(both) = Len(bufs) + 1 /\ DOMAIN both = 1..(Len(bufs) + 1)
      /\ \A i \in 1..Len(bufs) : both[i] = bufs[i]
      /\ both[Len(bufs) + 1] = buf
  OBVIOUS
<1>2. s \in Seq(Seq(Nat)) /\ Len(s) = Len(bufs) /\ \A i \in 1..Len(bufs) : s[i] = bufs[i].text
  BY <1>1 DEF Bufs
<1>3. buf.text \in Seq(Nat)
  BY DEF Bufs
<1>4. t = Append(s, buf.text)
  <2>1. /\ Append(s, buf.text) \in Seq(Seq(Nat)) /\ Len(Append(s, buf.text)) = Len(bufs) + 1
        /\ \A i \in 1..Len(bufs) : Append(s, buf.text)[i] = s[i]
        /\ Append(s, buf.text)[Len(bufs) + 1] = buf.text
    BY <1>2, <1>3, AppendProperties
  <2> HIDE DEF both
  <2>2. t \in Seq(Seq(Nat)) /\ Len(t) = Len(bufs) + 1
        /\ \A i \in 1..(Len(bufs) + 1) : t[i] = both[i].text
    <3>1. \A i \in 1..(Len(bufs) + 1) : both[i] \in Bufs
      BY <1>1
    <3> QED BY <1>1, <3>1 DEF Bufs
  <2> HIDE DEF s, t
  <2>3. \A i \in 1..(Len(bufs) + 1) : t[i] = Append(s, buf.text)[i]
    <3> TAKE i \in 1..(Len(bufs) + 1)
    <3>1. i \in 1..Len(bufs) \/ i = Len(bufs) + 1
      BY <1>1
    <3> QED BY <1>1, <1>2, <2>1, <2>2, <3>1
  <2> QED BY <2>1, <2>2, <2>3, SeqEqual
<1> HIDE DEF s, t, both
<1>5. FlattenSeq(s) \in Seq(Nat) /\ FlattenSeq(t) = FlattenSeq(s) \o buf.text
  BY <1>2, <1>3, <1>4, FlattenAppend
<1> QED BY <1>5 DEF TextOf, s, t, both
-----------------------------------------------------------------------------
(* The body filter implements ESIRendering.                                *)

\* Both have the same tokens.
LEMMA SameTokens ==
  /\ Rendering!TextToken = TextToken /\ Rendering!Types = Types
  /\ \A kind, type, src : Rendering!TagToken(kind, type, src) = TagToken(kind, type, src)
BY DEF Rendering!TextToken, TextToken, Rendering!Types, Types, Rendering!TypeOrder, TypeOrder,
  Rendering!TagToken, TagToken

\* What is rendered is a sequence of pieces of text.
LEMMA RenderedType ==
  ASSUME TypeOK
  PROVE  /\ TextOf(chain) \in Seq(Nat) /\ Rendered \in Seq(Nat)
         /\ output_buffer \in Seq(Nat) /\ chain \in Seq(Bufs)
<1> DEFINE buf  == [text |-> <<>>, last_buf |-> FALSE]
           text == IF KeepsText(ctx) THEN output_buffer ELSE <<>>
<1>1. buf \in Bufs
  BY DEF Bufs
<1>2. chain \in Seq(Bufs) /\ output_buffer \in Seq(Nat)
  BY DEF TypeOK
<1>3. TextOf(chain) \in Seq(Nat)
  BY <1>1, <1>2, TextOfAppend
<1>4. text \in Seq(Nat)
  BY <1>2
<1> HIDE DEF text
<1>5. TextOf(chain) \o text \in Seq(Nat)
  BY <1>3, <1>4, ConcatProperties
<1> QED BY <1>2, <1>3, <1>5 DEF text, Rendered

\* Text that is appended and kept is at the end of the chain's.
LEMMA AppendedText ==
  ASSUME TypeOK, NEW text \in Seq(Nat)
  PROVE  TextOf(Appended(text)) = TextOf(chain) \o (IF KeepsText(ctx) THEN text ELSE <<>>)
<1>1. TextOf(chain) \in Seq(Nat) /\ chain \in Seq(Bufs)
  BY RenderedType
<1>2. CASE text # <<>> /\ KeepsText(ctx)
  <2> DEFINE buf == [text |-> text, last_buf |-> FALSE]
  <2>1. buf \in Bufs /\ buf.text = text
    BY DEF Bufs
  <2>2. Appended(text) = Append(chain, buf)
    BY <1>2 DEF Appended
  <2> HIDE DEF buf
  <2>3. TextOf(Append(chain, buf)) = TextOf(chain) \o buf.text
    BY <1>1, <2>1, TextOfAppend
  <2> QED BY <1>2, <2>1, <2>2, <2>3
<1>3. CASE ~ (text # <<>> /\ KeepsText(ctx))
  <2>1. Appended(text) = chain
    BY <1>3 DEF Appended
  <2>2. TextOf(chain) \o <<>> = TextOf(chain)
    BY <1>1, ConcatEmptySeq
  <2> QED BY <1>3, <2>1, <2>2
<1> QED BY <1>2, <1>3

\* Nothing is in output_buffer any more: the chain is all.
LEMMA ChainRendered ==
  ASSUME TypeOK', output_buffer' = <<>>
  PROVE  Rendered' = TextOf(chain)'
<1> DEFINE buf  == [text |-> <<>>, last_buf |-> FALSE]
           bufs == chain'
<1>1. TextOf(chain)' \in Seq(Nat)
  <2>1. buf \in Bufs /\ bufs \in Seq(Bufs)
    BY DEF Bufs, TypeOK
  <2> HIDE DEF buf, bufs
  <2>2. TextOf(bufs) \in Seq(Nat)
    BY <2>1, TextOfAppend
  <2> QED BY <2>2 DEF bufs, TextOf
<1>2. TextOf(chain)' \o <<>> = TextOf(chain)'
  BY <1>1, ConcatEmptySeq
<1> QED BY <1>2 DEF Rendered

\* Flushing changes nothing of it.
LEMMA FlushRendered ==
  ASSUME TypeOK, TypeOK', FlushOutput
  PROVE  Rendered' = Rendered
<1>1. output_buffer \in Seq(Nat) /\ output_buffer' = <<>> /\ chain' = Appended(output_buffer)
  BY DEF TypeOK, FlushOutput
<1>2. TextOf(chain)' = TextOf(Appended(output_buffer))
  BY <1>1 DEF TextOf
<1>3. TextOf(Appended(output_buffer)) = Rendered
  BY <1>1, AppendedText DEF Rendered
<1> QED BY <1>1, <1>2, <1>3, ChainRendered

\* A piece of text is rendered, or not, whether output_buffer is full or not.
LEMMA TextRendered ==
  ASSUME TypeOK, TypeOK', Text
  PROVE  Rendered' = IF KeepsText(ctx) THEN Append(Rendered, tokens') ELSE Rendered
<1> DEFINE all == Append(output_buffer, tokens')
<1>1. /\ ctx' = ctx /\ tokens' \in Nat
      /\ IF Len(all) = SIZE
           THEN chain' = Appended(all) /\ output_buffer' = <<>>
           ELSE output_buffer' = all /\ UNCHANGED chain
  <2>1. tokens' \in Nat
    BY BoundsAssumption DEF TypeOK
  <2> QED BY <2>1 DEF Text
<1>2. /\ output_buffer \in Seq(Nat) /\ TextOf(chain) \in Seq(Nat) /\ chain \in Seq(Bufs)
  BY RenderedType
<1>3. all \in Seq(Nat) /\ all = output_buffer \o <<tokens'>> /\ <<tokens'>> \in Seq(Nat)
  BY <1>1, <1>2, AppendIsConcat
<1> HIDE DEF all
<1>4. Rendered' = TextOf(chain) \o (IF KeepsText(ctx) THEN all ELSE <<>>)
  <2>1. CASE Len(all) = SIZE
    <3>1. TextOf(chain)' = TextOf(Appended(all))
      BY <1>1, <2>1 DEF TextOf
    <3>2. Rendered' = TextOf(chain)'
      BY <1>1, <2>1, ChainRendered
    <3> QED BY <1>3, <3>1, <3>2, AppendedText
  <2>2. CASE Len(all) # SIZE
    <3>1. TextOf(chain)' = TextOf(chain) /\ output_buffer' = all
      BY <1>1, <2>2 DEF TextOf
    <3>2. KeepsText(ctx)' = KeepsText(ctx)
      BY <1>1
    <3> QED BY <3>1, <3>2 DEF Rendered
  <2> QED BY <2>1, <2>2
<1>5. CASE KeepsText(ctx)
  <2> DEFINE s == TextOf(chain)
  <2>1. s \in Seq(Nat) /\ output_buffer \in Seq(Nat) /\ <<tokens'>> \in Seq(Nat)
    BY <1>2, <1>3
  <2>2. Rendered = s \o output_buffer /\ Rendered' = s \o (output_buffer \o <<tokens'>>)
    BY <1>3, <1>4, <1>5 DEF Rendered
  <2> HIDE DEF s
  <2>3. s \o (output_buffer \o <<tokens'>>) = (s \o output_buffer) \o <<tokens'>>
    BY <2>1, ConcatAssociative
  <2>4. Rendered \in Seq(Nat)
    BY RenderedType
  <2>5. Append(Rendered, tokens') = Rendered \o <<tokens'>>
    BY <1>1, <2>4, AppendIsConcat
  <2> QED BY <1>5, <2>2, <2>3, <2>5
<1>6. CASE ~ KeepsText(ctx)
  BY <1>4, <1>6 DEF Rendered
<1> QED BY <1>5, <1>6
(***************************************************************************)
(* In a document whose tags nest the stack decides what the open tag and   *)
(* ignore_tag do.                                                          *)
(***************************************************************************)
LEMMA KeptAlike ==
  ASSUME TypeOK, NestingInv
  PROVE  /\ Rendering!Kept <=> KeepsText(ctx)
         /\ Rendering!Excepted <=> ctx.ignore_tag
<1>1. /\ ctx.root_tag \in Seq(Types) /\ ctx.open_tag = Len(ctx.root_tag)
      /\ ~ ctx.exception_raised
      /\ ctx.ignore_tag <=> \E i \in DOMAIN ctx.root_tag : ctx.root_tag[i] = "except"
  BY DEF TypeOK, Contexts, NestingInv, Tracked
<1>2. Tracked(ctx, ctx.root_tag)
  BY DEF NestingInv, Tracked
<1>3. Rendering!Kept <=> KeepsText(ctx)
  BY <1>1, <1>2, KeepsTracked DEF Rendering!Kept
<1> QED BY <1>1, <1>3 DEF Rendering!Excepted

\* A token is read alike.
LEMMA ReadAlike ==
  ASSUME NEW t, Read(t)
  PROVE  Rendering!Read(t)
BY DEF Read, Rendering!Read

\* An include is requested alike.
LEMMA RequestAlike ==
  ASSUME TypeOK, NestingInv, NEW type, NEW src \in BOOLEAN, StartInclude(type, src)
  PROVE  Rendering!Request(type, src)
<1>1. Rendering!Excepted <=> ctx.ignore_tag
  BY KeptAlike
<1> QED BY <1>1 DEF StartInclude, Rendering!Request

\* Text is rendered alike.
LEMMA TextAlike == ASSUME TypeOK, TypeOK', NestingInv, Text PROVE Rendering!Text
<1>1. Read(TextToken) /\ ctx' = ctx /\ requested' = requested
  BY DEF Text
<1>2. Rendered' = IF Rendering!Kept THEN Append(Rendered, tokens') ELSE Rendered
  BY TextRendered, KeptAlike
<1> QED BY <1>1, <1>2, ReadAlike, SameTokens DEF Rendering!Text

\* A start tag is pushed,
LEMMA StartTagAlike ==
  ASSUME TypeOK, TypeOK', NestingInv, NestingInv', NEW name \in TagNames, NEW src \in BOOLEAN,
         StartTag(name, src)
  PROVE  Rendering!StartTag(StrToType(name), src)
<1> DEFINE type == StrToType(name)
<1>1. /\ Read(TagToken("start", type, src)) /\ FlushOutput /\ StartInclude(type, src)
      /\ unclosed' = Opened(type)
  BY DEF StartTag
<1> HIDE DEF type
<1>2. ctx.root_tag = unclosed /\ ctx'.root_tag = unclosed'
  BY DEF NestingInv, Tracked
<1>3. ctx'.root_tag = IF type = "none" THEN ctx.root_tag ELSE Append(ctx.root_tag, type)
  BY <1>1, <1>2 DEF Opened
<1>4. Rendering!Read(Rendering!TagToken("start", type, src))
  BY <1>1, ReadAlike, SameTokens
<1>5. Rendered' = Rendered /\ Rendering!Request(type, src)
  BY <1>1, FlushRendered, RequestAlike
<1>6. Rendering!StartTag(type, src)
  BY <1>3, <1>4, <1>5 DEF Rendering!StartTag
<1> QED BY <1>6 DEF type

\* an end tag is popped,
LEMMA EndTagAlike ==
  ASSUME WellNested, TypeOK, TypeOK', NestingInv, NestingInv', NEW name \in TagNames,
         EndTag(name)
  PROVE  Rendering!EndTag(StrToType(name))
<1> DEFINE type == StrToType(name)
<1>1. /\ Read(TagToken("end", type, FALSE)) /\ FlushOutput /\ requested' = requested
      /\ unclosed' = Closed(type) /\ MayClose(type)
  BY DEF EndTag
<1>7. SUFFICES Rendering!EndTag(type)
  OBVIOUS
<1> HIDE DEF type
<1>2. ctx.root_tag = unclosed /\ ctx'.root_tag = unclosed' /\ unclosed \in Seq(Types)
  BY DEF NestingInv, Tracked, TypeOK
<1>3. Rendering!Read(Rendering!TagToken("end", type, FALSE))
  BY <1>1, ReadAlike, SameTokens
<1>4. Rendered' = Rendered
  BY <1>1, FlushRendered
<1>5. CASE type = "none"
  <2>1. \A i \in DOMAIN unclosed : unclosed[i] # type
    BY <1>2, <1>5 DEF Types, TypeOrder
  <2>2. unclosed' = unclosed
    BY <1>1, <2>1 DEF Closed
  <2> QED BY <1>1, <1>2, <1>3, <1>4, <1>5, <2>2 DEF Rendering!EndTag
<1>6. CASE type # "none"
  <2>1. unclosed # <<>> /\ unclosed[Len(unclosed)] = type
    BY <1>1, <1>6 DEF MayClose
  <2>2. unclosed' = SubSeq(unclosed, 1, Len(unclosed) - 1)
    BY <1>1, <1>2, <2>1, ClosedInnermost DEF NestingInv
  <2> QED BY <1>1, <1>2, <1>3, <1>4, <2>1, <2>2 DEF Rendering!EndTag
<1> QED BY <1>5, <1>6

\* and an inline tag is neither.
LEMMA InlineTagAlike ==
  ASSUME TypeOK, TypeOK', NestingInv, NestingInv', NEW name \in TagNames, NEW src \in BOOLEAN,
         InlineTag(name, src)
  PROVE  Rendering!InlineTag(StrToType(name), src)
<1> DEFINE type == StrToType(name)
<1>1. /\ Read(TagToken("inline", type, src)) /\ FlushOutput /\ StartInclude(type, src)
      /\ unclosed' = unclosed
  BY DEF InlineTag
<1> HIDE DEF type
<1>2. ctx'.root_tag = ctx.root_tag
  BY <1>1 DEF NestingInv, Tracked
<1>3. Rendering!Read(Rendering!TagToken("inline", type, src))
  BY <1>1, ReadAlike, SameTokens
<1>4. Rendered' = Rendered /\ Rendering!Request(type, src)
  BY <1>1, FlushRendered, RequestAlike
<1>5. Rendering!InlineTag(type, src)
  BY <1>2, <1>3, <1>4 DEF Rendering!InlineTag
<1> QED BY <1>5 DEF type

\* Handing a chain over marks a buffer of it and leaves its text.
LEMMA HandOverText ==
  ASSUME NEW bufs \in Seq(Bufs), HandOver(bufs), bufs = <<>> => chain = <<>>
  PROVE  TextOf(chain)' = TextOf(bufs)
<1>1. CASE bufs = <<>>
  BY <1>1 DEF HandOver, TextOf
<1>2. CASE bufs # <<>>
  <2>1. chain' = [bufs EXCEPT ![Len(bufs)].last_buf = TRUE]
    BY <1>2 DEF HandOver
  <2>2. DOMAIN chain' = DOMAIN bufs /\ \A i \in DOMAIN bufs : chain'[i].text = bufs[i].text
    BY <2>1 DEF Bufs
  <2>3. [i \in DOMAIN chain' |-> chain'[i].text] = [i \in DOMAIN bufs |-> bufs[i].text]
    BY <2>2
  <2> QED BY <2>3 DEF TextOf
<1> QED BY <1>1, <1>2

\* The end of a call is no step,
LEMMA EndCallAlike ==
  ASSUME TypeOK, TypeOK', EndCall PROVE UNCHANGED Rendering!vars
<1>1. HandOver(chain) /\ pc = "call" /\ pc' = "idle" /\ output_buffer' = output_buffer
      /\ UNCHANGED <<tokens, token, ctx, requested>>
  BY DEF EndCall, HandOver
<1>2. TextOf(chain)' = TextOf(chain)
  BY <1>1, HandOverText, RenderedType
<1>3. Rendered' = Rendered
  BY <1>1, <1>2 DEF Rendered
<1> QED BY <1>1, <1>3 DEF Rendering!vars

\* that of the last the end of the document.
LEMMA EndLastCallAlike ==
  ASSUME TypeOK, TypeOK', EndLastCall PROVE Rendering!Finish
<1> DEFINE bufs == Appended(output_buffer)
<1>1. HandOver(bufs) /\ pc = "call" /\ pc' = "ended" /\ output_buffer' = <<>>
      /\ UNCHANGED <<tokens, token, ctx, requested>>
  BY DEF EndLastCall, HandOver
<1>2. bufs \in Seq(Bufs) /\ output_buffer \in Seq(Nat) /\ chain \in Seq(Bufs)
  BY RenderedType, AppendedType
<1>3. bufs = <<>> => chain = <<>>
  BY <1>2 DEF Appended
<1>4. TextOf(bufs) = Rendered
  BY <1>2, AppendedText DEF Rendered
<1> HIDE DEF bufs
<1>5. TextOf(chain)' = TextOf(bufs)
  BY <1>1, <1>2, <1>3, HandOverText
<1>6. Rendered' = Rendered
  BY <1>1, <1>4, <1>5, ChainRendered
<1> QED BY <1>1, <1>6 DEF Rendering!Finish

\* A call begins between tags.
LEMMA BeginCallAlike ==
  ASSUME ~ CallsAfterLast, TypeOK, NestingInv, BeginCall PROVE UNCHANGED Rendering!vars
<1>1. pc = "idle" /\ pc' = "call" /\ ctx' = Reset(ctx)
      /\ UNCHANGED <<tokens, token, output_buffer, chain, requested>>
  BY DEF BeginCall, Ready
<1>2. ctx.root_tag = <<>> /\ ctx \in Contexts
  BY <1>1 DEF NestingInv, Tracked, TypeOK
<1>3. ctx'.root_tag = <<>>
  BY <1>1, <1>2, ResetType
<1>4. KeepsText(ctx) /\ KeepsText(ctx')
  BY <1>2, <1>3 DEF KeepsText
<1>5. Rendered' = Rendered
  BY <1>1, <1>4 DEF Rendered, TextOf, KeepsText
<1> QED BY <1>1, <1>2, <1>3, <1>5 DEF Rendering!vars

\* Every step is one of the specification, or none.
LEMMA RenderingStep ==
  ASSUME WellNested, ~ CutsWithinTags, ~ CallsAfterLast
  PROVE  TypeOK /\ TypeOK' /\ NestingInv /\ NestingInv' /\ [Next]_vars =>
           [Rendering!Next]_(Rendering!vars)
<1> SUFFICES ASSUME TypeOK, TypeOK', NestingInv, NestingInv', [Next]_vars
             PROVE  Rendering!Next \/ UNCHANGED Rendering!vars
  OBVIOUS
<1>1. \A name \in TagNames : StrToType(name) \in Rendering!Types \cup {"none"}
  BY StrToTypeType, TagNamesAssumption, SameTokens DEF AnyType
<1>2. CASE PassOn \/ UNCHANGED vars
  <2>1. UNCHANGED <<tokens, token, pc, output_buffer, ctx, chain, requested>>
    BY <1>2 DEF PassOn, vars
  <2> QED BY <2>1 DEF Rendering!vars, Rendered
<1>3. CASE BeginCall
  BY <1>3, BeginCallAlike
<1>4. CASE Text
  BY <1>4, TextAlike DEF Rendering!Next
<1>5. ASSUME NEW name \in TagNames, NEW src \in BOOLEAN, StartTag(name, src)
      PROVE  Rendering!Next
  BY <1>1, <1>5, StartTagAlike DEF Rendering!Next
<1>6. ASSUME NEW name \in TagNames, NEW src \in BOOLEAN, InlineTag(name, src)
      PROVE  Rendering!Next
  BY <1>1, <1>6, InlineTagAlike DEF Rendering!Next
<1>7. ASSUME NEW name \in TagNames, EndTag(name)
      PROVE  Rendering!Next
  BY <1>1, <1>7, EndTagAlike DEF Rendering!Next
<1>8. CASE EndCall
  BY <1>8, EndCallAlike
<1>9. CASE EndLastCall
  BY <1>9, EndLastCallAlike DEF Rendering!Next
<1> QED BY <1>2, <1>3, <1>4, <1>5, <1>6, <1>7, <1>8, <1>9 DEF Next

(***************************************************************************)
(* A document whose tags nest is rendered as ESIRendering says, whatever   *)
(* its length, in however many calls it arrives (none ending within a tag, *)
(* none after the last buffer) and whatever the size of output_buffer:     *)
(* ngx_http_esi_body_filter and its callbacks keep the text that the       *)
(* innermost tag keeps and request the includes that no except is around.  *)
(***************************************************************************)
THEOREM RenderingImplemented ==
  ASSUME WellNested, ~ CutsWithinTags, ~ CallsAfterLast
  PROVE  Spec => ImplementsRendering
<1>1. Init => NestingInv
  BY DEF Init, NestingInv, NoTags, Tracked, Distinct
<1>2. TypeOK /\ NestingInv /\ [Next]_vars => NestingInv'
  BY NestingStep
<1>3. Init => Rendering!Init
  <2>1. SUFFICES ASSUME Init PROVE Rendering!Init
    OBVIOUS
  <2>2. TextOf(<<>>) = <<>>
    BY DEF TextOf, FlattenSeq
  <2>3. chain = <<>> /\ output_buffer = <<>> /\ ctx.root_tag = <<>> /\ pc = "idle"
    BY <2>1 DEF Init, NoTags
  <2>4. <<>> \o <<>> = <<>>
    BY ConcatEmptySeq
  <2>5. Rendered = <<>>
    BY <2>2, <2>3, <2>4 DEF Rendered
  <2>6. tokens = 0 /\ token = Rendering!TextToken /\ requested = <<>>
    BY <2>1, SameTokens DEF Init
  <2>7. (pc = "ended") = FALSE
    BY <2>3
  <2> QED BY <2>3, <2>5, <2>6, <2>7 DEF Rendering!Init
<1>4. TypeOK /\ TypeOK' /\ NestingInv /\ NestingInv' /\ [Next]_vars =>
        [Rendering!Next]_(Rendering!vars)
  BY RenderingStep
<1> QED BY <1>1, <1>2, <1>3, <1>4, TypeCorrect, PTL DEF Spec, ImplementsRendering, Rendering!Spec
=============================================================================
