--------------------------- MODULE ESITags_proofs ---------------------------
(***************************************************************************)
(* What the callbacks do to the list of open tags, whatever tags come: it  *)
(* stays a list of tags with the open one in it, and is a stack as long as *)
(* the tags nest.                                                          *)
(***************************************************************************)
EXTENDS ESITags, ESISetLemmas

AnyType == Types \cup {"none"}

-----------------------------------------------------------------------------
(* The operators on contexts.                                              *)

(***************************************************************************)
(* Every name stands for a type or for none (esi_tag_str_to_type).         *)
(***************************************************************************)
LEMMA StrToTypeType ==
  ASSUME NEW name \in Names
  PROVE  StrToType(name) \in AnyType
<1> DEFINE places == {i \in DOMAIN TypeOrder : TypeOrder[i] \in name}
<1>1. CASE name = {}
  BY <1>1 DEF StrToType, AnyType
<1>2. CASE name # {}
  <2>1. name \subseteq Types
    BY <1>2 DEF Names, Types, TypeOrder
  <2>2. places # {}
    BY <1>2, <2>1 DEF Types
  <2>3. places \subseteq Nat
    BY DEF TypeOrder
  <2>4. Min(places) \in places
    <3> HIDE DEF places
    <3> QED BY <2>2, <2>3, MinOf
  <2>5. TypeOrder[Min(places)] \in Types
    BY <2>4 DEF Types
  <2>6. StrToType(name) = TypeOrder[Min(places)]
    BY <1>2 DEF StrToType
  <2> HIDE DEF places
  <2> QED BY <2>5, <2>6 DEF AnyType
<1> QED BY <1>1, <1>2

(***************************************************************************)
(* A context with another list and another open tag is a context.          *)
(***************************************************************************)
LEMMA ContextWith ==
  ASSUME NEW c \in Contexts, NEW list \in Seq(Types), NEW n \in Nat
  PROVE  [c EXCEPT !.root_tag = list, !.open_tag = n] \in Contexts
BY DEF Contexts

(***************************************************************************)
(* Forgetting all tags gives a context, with the flags as they were.       *)
(***************************************************************************)
LEMMA ResetType ==
  ASSUME NEW c \in Contexts
  PROVE  /\ Reset(c) \in Contexts
         /\ Reset(c).root_tag = <<>> /\ Reset(c).open_tag = 0
         /\ Reset(c).ignore_tag = c.ignore_tag
         /\ Reset(c).exception_raised = c.exception_raised
<1>1. <<>> \in Seq(Types)
  OBVIOUS
<1>2. Reset(c) \in Contexts
  BY <1>1, ContextWith DEF Reset
<1> QED BY <1>2 DEF Reset, Contexts

(***************************************************************************)
(* Opening and closing a tag change the two flags of a context only        *)
(* (esi_tag_open, esi_tag_close).                                          *)
(***************************************************************************)
LEMMA TagOpenType ==
  ASSUME NEW c \in Contexts, NEW type
  PROVE  /\ TagOpen(c, type) \in Contexts
         /\ TagOpen(c, type).root_tag = c.root_tag
         /\ TagOpen(c, type).open_tag = c.open_tag
BY DEF TagOpen, Contexts

\* Closing a tag may clear the flags, no more (esi_tag_close).
LEMMA TagCloseType ==
  ASSUME NEW c \in Contexts, NEW type
  PROVE  /\ TagClose(c, type) \in Contexts
         /\ TagClose(c, type).root_tag = c.root_tag
         /\ TagClose(c, type).open_tag = c.open_tag
BY DEF TagClose, Contexts

(***************************************************************************)
(* The start callback gives a context, with the tag at the end of the list *)
(* and open unless its type is not known.                                  *)
(***************************************************************************)
LEMMA StartTagCbType ==
  ASSUME NEW c \in Contexts, NEW type \in AnyType
  PROVE  StartTagCb(c, type) \in Contexts
<1> DEFINE c1 == [c EXCEPT !.root_tag = Append(@, type),
                           !.open_tag = Len(c.root_tag) + 1]
<1>1. CASE type = "none"
  BY <1>1 DEF StartTagCb
<1>2. CASE type # "none"
  <2>1. c1 \in Contexts
    <3>1. Append(c.root_tag, type) \in Seq(Types)
      BY <1>2 DEF Contexts, AnyType
    <3>2. Len(c.root_tag) + 1 \in Nat
      BY DEF Contexts
    <3> QED BY <3>1, <3>2, ContextWith
  <2>2. StartTagCb(c, type) = TagOpen(c1, type)
    BY <1>2 DEF StartTagCb
  <2> HIDE DEF c1
  <2> QED BY <2>1, <2>2, TagOpenType
<1> QED BY <1>1, <1>2

(***************************************************************************)
(* So does the end callback, wherever the tag it closes was in the list.   *)
(***************************************************************************)
LEMMA EndTagCbType ==
  ASSUME NEW c \in Contexts, NEW type \in AnyType
  PROVE  EndTagCb(c, type) \in Contexts
<1> DEFINE matching == {i \in 2..Len(c.root_tag) : c.root_tag[i] = type}
<1>1. CASE type = "none" \/ c.root_tag = <<>>
  BY <1>1 DEF EndTagCb
<1>2. CASE type # "none" /\ c.root_tag # <<>> /\ c.root_tag[1] = type
  <2>1. Reset(c) \in Contexts
    BY ResetType
  <2>2. EndTagCb(c, type) = TagClose(Reset(c), type)
    BY <1>2 DEF EndTagCb
  <2> QED BY <2>1, <2>2, TagCloseType
<1>3. CASE ~ (type = "none" \/ c.root_tag = <<>>) /\ c.root_tag[1] # type
  <2>1. EndTagCb(c, type) = CloseChildren(c, type)
    BY <1>3 DEF EndTagCb
  <2>2. CASE matching = {}
    BY <2>1, <2>2 DEF CloseChildren, Contexts
  <2>3. CASE matching # {}
    <3>1. Min(matching) \in matching
      <4>1. matching \subseteq Nat
        BY DEF Contexts
      <4> HIDE DEF matching
      <4> QED BY <2>3, <4>1, MinOf
    <3>2. Min(matching) - 1 \in Nat /\ Min(matching) - 1 <= Len(c.root_tag)
      BY <3>1 DEF Contexts
    <3>3. SubSeq(c.root_tag, 1, Min(matching) - 1) \in Seq(Types)
      <4> HIDE DEF matching
      <4> QED BY <3>2, SubSeqProperties DEF Contexts
    <3> DEFINE c1 == [c EXCEPT !.root_tag = SubSeq(@, 1, Min(matching) - 1),
                               !.open_tag = Min(matching) - 1]
    <3>4. CloseChildren(c, type) = TagClose(c1, type)
      BY <2>3 DEF CloseChildren
    <3>5. c1 \in Contexts
      <4> HIDE DEF matching
      <4> QED BY <3>2, <3>3 DEF Contexts
    <3> HIDE DEF c1, matching
    <3> QED BY <2>1, <3>4, <3>5, TagCloseType
  <2> QED BY <2>2, <2>3
<1> QED BY <1>1, <1>2, <1>3

(***************************************************************************)
(* Opening a tag of a known type appends it; no exception having been      *)
(* raised, ignore_tag is set by an except and by nothing else.             *)
(***************************************************************************)
LEMMA StartTagCbTracks ==
  ASSUME NEW c \in Contexts, NEW type \in Types, ~ c.exception_raised
  PROVE  LET after == StartTagCb(c, type)
         IN  /\ after.root_tag = Append(c.root_tag, type)
             /\ after.open_tag = Len(c.root_tag) + 1
             /\ ~ after.exception_raised
             /\ after.ignore_tag <=> c.ignore_tag \/ type = "except"
<1> DEFINE c1 == [c EXCEPT !.root_tag = Append(@, type),
                           !.open_tag = Len(c.root_tag) + 1]
<1>1. type # "none"
  BY DEF Types, TypeOrder
<1>2. StartTagCb(c, type) = TagOpen(c1, type)
  BY <1>1 DEF StartTagCb
<1>3. /\ c1 \in Contexts
      /\ c1.root_tag = Append(c.root_tag, type)
      /\ c1.open_tag = Len(c.root_tag) + 1
      /\ c1.exception_raised = c.exception_raised
      /\ c1.ignore_tag = c.ignore_tag
  <2>1. Append(c.root_tag, type) \in Seq(Types)
    BY DEF Contexts
  <2>2. Len(c.root_tag) + 1 \in Nat
    BY DEF Contexts
  <2>3. c1 \in Contexts
    BY <2>1, <2>2, ContextWith
  <2> QED BY <2>3 DEF Contexts
<1> HIDE DEF c1
<1>4. /\ ~ TagOpen(c1, type).exception_raised
      /\ TagOpen(c1, type).ignore_tag <=> c1.ignore_tag \/ type = "except"
  BY <1>3 DEF TagOpen, Contexts
<1> QED BY <1>2, <1>3, <1>4, TagOpenType

Distinct(list) == \A i, j \in DOMAIN list : i # j => list[i] # list[j]

(***************************************************************************)
(* Closing the last tag of a list in which no type occurs twice removes    *)
(* that tag alone, whether it is the root or a later one.                  *)
(***************************************************************************)
LEMMA EndTagCbTracks ==
  ASSUME NEW c \in Contexts, NEW type \in Types, ~ c.exception_raised,
         c.root_tag # <<>>, Distinct(c.root_tag),
         c.root_tag[Len(c.root_tag)] = type
  PROVE  LET after == EndTagCb(c, type)
         IN  /\ after.root_tag = SubSeq(c.root_tag, 1, Len(c.root_tag) - 1)
             /\ after.open_tag = Len(c.root_tag) - 1
             /\ ~ after.exception_raised
             /\ after.ignore_tag <=> c.ignore_tag /\ type # "except"
<1> DEFINE list == c.root_tag
           n == Len(list)
           c1 == [c EXCEPT !.root_tag = SubSeq(list, 1, n - 1), !.open_tag = n - 1]
<1>1. type # "none" /\ n \in Nat \ {0} /\ list \in Seq(Types) /\ list # <<>>
  BY DEF Types, TypeOrder, Contexts
<1>2. SubSeq(list, 1, n - 1) \in Seq(Types) /\ n - 1 \in Nat
  BY <1>1, SubSeqProperties
<1>3. /\ c1 \in Contexts
      /\ c1.root_tag = SubSeq(list, 1, n - 1) /\ c1.open_tag = n - 1
      /\ c1.exception_raised = c.exception_raised
      /\ c1.ignore_tag = c.ignore_tag
  <2>1. c1 \in Contexts
    BY <1>2, ContextWith
  <2> QED BY <2>1 DEF Contexts
<1>4. \A i \in 1..n : list[i] = type <=> i = n
  <2>1. DOMAIN list = 1..n /\ n \in 1..n /\ list[n] = type
    BY <1>1
  <2> QED BY <2>1 DEF Distinct
<1>5. EndTagCb(c, type) = TagClose(c1, type)
  <2>1. CASE n = 1
    <3>1. c.root_tag[1] = type /\ c.root_tag # <<>>
      BY <1>1, <1>4, <2>1
    <3>2. EndTagCb(c, type) = TagClose(Reset(c), type)
      BY <1>1, <3>1 DEF EndTagCb
    <3>3. n - 1 = 0 /\ SubSeq(list, 1, 0) = <<>>
      BY <1>1, <2>1, SubSeqEmpty
    <3>4. c1 = [c EXCEPT !.root_tag = <<>>, !.open_tag = 0]
      <4> HIDE DEF list, n
      <4> QED BY <3>3
    <3> QED BY <3>2, <3>4 DEF Reset
  <2>2. CASE n # 1
    <3> DEFINE matching == {i \in 2..Len(c.root_tag) : c.root_tag[i] = type}
    <3>1. list[1] # type /\ {i \in 2..n : list[i] = type} = {n}
      <4> HIDE DEF list, n
      <4> QED BY <1>1, <1>4, <2>2
    <3>2. EndTagCb(c, type) = CloseChildren(c, type)
      BY <1>1, <3>1 DEF EndTagCb
    <3>3. matching = {n}
      BY <3>1
    <3>4. Min(matching) = n
      <4>1. {n} \subseteq Nat /\ {n} # {}
        BY <1>1
      <4>2. Min({n}) \in {n}
        <5> HIDE DEF n
        <5> QED BY <4>1, MinOf
      <4> QED BY <3>3, <4>2
    <3>5. CloseChildren(c, type) =
            TagClose([c EXCEPT !.root_tag = SubSeq(@, 1, Min(matching) - 1),
                               !.open_tag = Min(matching) - 1], type)
      BY <3>3 DEF CloseChildren
    <3> QED BY <3>2, <3>4, <3>5
  <2> QED BY <2>1, <2>2
<1> HIDE DEF c1
<1>6. /\ ~ TagClose(c1, type).exception_raised
      /\ TagClose(c1, type).ignore_tag <=> c1.ignore_tag /\ type # "except"
  BY <1>3 DEF TagClose, Contexts
<1> QED BY <1>3, <1>5, <1>6, TagCloseType

-----------------------------------------------------------------------------
(* The list of open tags is the stack of the tags around a place.          *)

Tracked(c, list) ==
  /\ c.root_tag = list
  /\ c.open_tag = Len(list)
  /\ c.ignore_tag <=> \E i \in DOMAIN list : list[i] = "except"

(***************************************************************************)
(* Opening a tag of a type that is not around this place pushes it on both *)
(* lists.                                                                  *)
(***************************************************************************)
LEMMA PushTracked ==
  ASSUME NEW c \in Contexts, NEW list \in Seq(Types), NEW type \in Types,
         ~ c.exception_raised, Tracked(c, list), Distinct(list),
         \A i \in DOMAIN list : list[i] # type
  PROVE  /\ Tracked(StartTagCb(c, type), Append(list, type))
         /\ Distinct(Append(list, type))
         /\ ~ StartTagCb(c, type).exception_raised
<1> DEFINE new == Append(list, type)
<1>1. /\ Len(list) \in Nat /\ Len(new) = Len(list) + 1
      /\ \A i \in 1..Len(list) : new[i] = list[i]
      /\ new[Len(list) + 1] = type
      /\ DOMAIN list = 1..Len(list) /\ DOMAIN new = 1..(Len(list) + 1)
  OBVIOUS
<1>2. (\E i \in DOMAIN new : new[i] = "except")
        <=> (\E i \in DOMAIN list : list[i] = "except") \/ type = "except"
  <2> HIDE DEF new
  <2> QED BY <1>1
<1>3. Distinct(new)
  <2> HIDE DEF new
  <2> QED BY <1>1 DEF Distinct
<1> QED BY <1>1, <1>2, <1>3, StartTagCbTracks DEF Tracked

(***************************************************************************)
(* Closing the innermost one pops it from both.                            *)
(***************************************************************************)
LEMMA PopTracked ==
  ASSUME NEW c \in Contexts, NEW list \in Seq(Types), NEW type \in Types,
         ~ c.exception_raised, Tracked(c, list), Distinct(list),
         list # <<>>, list[Len(list)] = type
  PROVE  /\ Tracked(EndTagCb(c, type), SubSeq(list, 1, Len(list) - 1))
         /\ Distinct(SubSeq(list, 1, Len(list) - 1))
         /\ ~ EndTagCb(c, type).exception_raised
<1> DEFINE n == Len(list)
           new == SubSeq(list, 1, n - 1)
<1>1. /\ n \in Nat \ {0} /\ Len(new) = n - 1
      /\ \A i \in 1..(n - 1) : new[i] = list[i]
      /\ DOMAIN list = 1..n /\ DOMAIN new = 1..(n - 1)
      /\ n \in 1..n /\ list[n] = type
  <2>1. n \in Nat \ {0} /\ DOMAIN list = 1..n
    OBVIOUS
  <2>2. n \in 1..n /\ 1 \in 1..(Len(list) + 1) /\ n - 1 \in 0..Len(list)
        /\ 1 - 1 <= n - 1
    BY <2>1
  <2>3. /\ new \in Seq(Types)
        /\ Len(new) = n - 1
        /\ \A i \in 1..(n - 1) : new[i] = list[i]
    BY <2>1
  <2>4. DOMAIN new = 1..(n - 1)
    <3> HIDE DEF new, n
    <3> QED BY <2>3
  <2> QED BY <2>1, <2>2, <2>3, <2>4
<1>2. (\E i \in DOMAIN new : new[i] = "except")
        <=> (\E i \in DOMAIN list : list[i] = "except") /\ type # "except"
  <2> HIDE DEF new, n
  <2>1. \A i \in 1..n : list[i] = type => i = n
    BY <1>1 DEF Distinct
  <2> QED BY <1>1, <2>1
<1>3. Distinct(new)
  <2> HIDE DEF new, n
  <2> QED BY <1>1 DEF Distinct
<1> QED BY <1>1, <1>2, <1>3, EndTagCbTracks DEF Tracked

(***************************************************************************)
(* An inline tag is pushed and popped.                                     *)
(***************************************************************************)
LEMMA InlineTracked ==
  ASSUME NEW c \in Contexts, NEW list \in Seq(Types), NEW type \in Types,
         ~ c.exception_raised, Tracked(c, list), Distinct(list),
         \A i \in DOMAIN list : list[i] # type
  PROVE  /\ Tracked(EndTagCb(StartTagCb(c, type), type), list)
         /\ ~ EndTagCb(StartTagCb(c, type), type).exception_raised
<1> DEFINE c1   == StartTagCb(c, type)
           new == Append(list, type)
<1>1. Tracked(c1, new) /\ Distinct(new) /\ ~ c1.exception_raised
  BY PushTracked
<1>2. c1 \in Contexts
  BY StartTagCbType DEF AnyType
<1>3. /\ new \in Seq(Types) /\ new # <<>> /\ new[Len(new)] = type
      /\ SubSeq(new, 1, Len(new) - 1) = list
  BY AppendProperties, SubSeqFull
<1> HIDE DEF c1, new
<1>4. /\ Tracked(EndTagCb(c1, type), SubSeq(new, 1, Len(new) - 1))
      /\ ~ EndTagCb(c1, type).exception_raised
  BY <1>1, <1>2, <1>3, PopTracked
<1> QED BY <1>3, <1>4 DEF c1

(***************************************************************************)
(* Text is kept as the innermost tag says (esi_tag_buffer).                *)
(***************************************************************************)
LEMMA KeepsTracked ==
  ASSUME NEW c, NEW list \in Seq(Types), ~ c.exception_raised, Tracked(c, list)
  PROVE  KeepsText(c) <=> list = <<>> \/ list[Len(list)] \in {"vars", "attempt"}
<1>1. c.open_tag = 0 <=> list = <<>>
  BY DEF Tracked
<1> QED BY <1>1 DEF Tracked, KeepsText, Buffers

-----------------------------------------------------------------------------
(* Whatever tags come.                                                     *)

\* OpenTagInList of a context.
OpenInList(c) == c.open_tag \in {0, Len(c.root_tag)}

(***************************************************************************)
(* The start callback leaves the new tag open, at the end of the list.     *)
(***************************************************************************)
LEMMA StartOpensLast ==
  ASSUME NEW c \in Contexts, NEW type \in AnyType, OpenInList(c)
  PROVE  OpenInList(StartTagCb(c, type))
<1>1. CASE type = "none"
  BY <1>1 DEF StartTagCb
<1>2. CASE type # "none"
  <2> DEFINE list == Append(c.root_tag, type)
             c1 == [c EXCEPT !.root_tag = list, !.open_tag = Len(c.root_tag) + 1]
  <2>1. list \in Seq(Types) /\ Len(list) = Len(c.root_tag) + 1 /\ Len(c.root_tag) + 1 \in Nat
    BY <1>2 DEF Contexts, AnyType
  <2>2. StartTagCb(c, type) = TagOpen(c1, type)
    BY <1>2 DEF StartTagCb
  <2>3. c1 \in Contexts
    BY <2>1, ContextWith
  <2>4. c1.root_tag = list /\ c1.open_tag = Len(list)
    BY <2>1 DEF Contexts
  <2> HIDE DEF c1, list
  <2> QED BY <2>2, <2>3, <2>4, TagOpenType DEF OpenInList
<1> QED BY <1>1, <1>2

(***************************************************************************)
(* The end callback leaves nothing open, or the tag before the first one   *)
(* it frees (esi_tag_close_children returns prev).                         *)
(***************************************************************************)
LEMMA EndOpensLast ==
  ASSUME NEW c \in Contexts, NEW type \in AnyType, OpenInList(c)
  PROVE  OpenInList(EndTagCb(c, type))
<1> DEFINE matching == {i \in 2..Len(c.root_tag) : c.root_tag[i] = type}
<1>1. CASE type = "none" \/ c.root_tag = <<>>
  BY <1>1 DEF EndTagCb
<1>2. CASE type # "none" /\ c.root_tag # <<>> /\ c.root_tag[1] = type
  <2>1. EndTagCb(c, type) = TagClose(Reset(c), type)
    BY <1>2 DEF EndTagCb
  <2> QED BY <2>1, ResetType, TagCloseType DEF OpenInList
<1>3. CASE type # "none" /\ c.root_tag # <<>> /\ c.root_tag[1] # type
  <2>1. EndTagCb(c, type) = CloseChildren(c, type)
    BY <1>3 DEF EndTagCb
  <2>2. CASE matching = {}
    <3>1. EndTagCb(c, type) = [c EXCEPT !.open_tag = 0]
      BY <2>1, <2>2 DEF CloseChildren
    <3> QED BY <3>1 DEF OpenInList, Contexts
  <2>3. CASE matching # {}
    <3> DEFINE m == Min(matching) - 1
               list == SubSeq(c.root_tag, 1, m)
               c1 == [c EXCEPT !.root_tag = list, !.open_tag = m]
    <3>1. EndTagCb(c, type) = TagClose(c1, type)
      BY <2>1, <2>3 DEF CloseChildren
    <3>2. matching \subseteq Nat
      OBVIOUS
    <3>3. Min(matching) \in matching
      <4> HIDE DEF matching
      <4> QED BY <2>3, <3>2, MinOf
    <3>4. c.root_tag \in Seq(Types) /\ Len(c.root_tag) \in Nat
      BY DEF Contexts
    <3>5. Min(matching) \in 2..Len(c.root_tag)
      BY <3>3
    <3>6. m \in Nat /\ m <= Len(c.root_tag)
      <4> HIDE DEF matching
      <4> QED BY <3>4, <3>5
    <3>7. list \in Seq(Types) /\ Len(list) = m
      <4> HIDE DEF m
      <4> QED BY <3>4, <3>6, SubSeqProperties
    <3>8. c1 \in Contexts
      <4> HIDE DEF list, m
      <4> QED BY <3>6, <3>7, ContextWith
    <3>9. c1.root_tag = list /\ c1.open_tag = Len(list)
      <4> HIDE DEF list, m
      <4> QED BY <3>7 DEF Contexts
    <3> HIDE DEF c1, list
    <3> QED BY <3>1, <3>8, <3>9, TagCloseType DEF OpenInList
  <2> QED BY <2>2, <2>3
<1> QED BY <1>1, <1>2, <1>3
=============================================================================
