----------------------------- MODULE ESIMachine -----------------------------
(***************************************************************************)
(* The scanner Ragel generates from the machine `esi` (common.rl): its 80  *)
(* numbered states, the transition of each on a character and the action   *)
(* the transition runs, as esi_parser_execute's switch of                  *)
(* ngx_esi_parser.c holds them.                                            *)
(*                                                                         *)
(* The 80 states are a product.  `in` says which quoted attribute values   *)
(* the scanner may be inside of, and `at` how far it is in matching a tag; *)
(* it looks for tags inside quoted values as well, because the machine's   *)
(* main loop (any text, then a tag) is nondeterministic and Ragel made it  *)
(* deterministic.  The generated number of a state is given by the table:  *)
(*                                                                         *)
(*   at       in={}  dq  sq  both    at        in={}  dq  sq  both         *)
(*   start      75    -   -    -     open_e      8   69  36   58           *)
(*   text        0   17  27   25     open_es     9   70  37   59           *)
(*   bs          -   20  30   47     open_esi   10   71  38   60           *)
(*   lt          1   18  28   45     open_colon 11   72  39   61           *)
(*   close       2   19  29   46     name       12   73  40   62           *)
(*   close_e     3   64  31   53     attrs      13   21  26   48           *)
(*   close_es    4   65  32   54     space      14   22  41   49           *)
(*   close_esi   5   66  33   55     key        15   23  42   50           *)
(*   close_colon 6   67  34   56     eq         16   24  43   51           *)
(*   close_name  7   68  35   57     slash      74   63  44   52           *)
(*                                   final      79   78  76   77           *)
(***************************************************************************)

(***************************************************************************)
(* Characters, up to what the scanner tells apart: "a" is a lower-case     *)
(* letter other than e, s and i, "K" an upper-case letter, - or _, "9" a   *)
(* digit, " " any of the isspace characters, "dq", "sq" and "bs" the       *)
(* double quote, the single quote and the backslash, "." all the rest.     *)
(***************************************************************************)
Letters == {"a", "e", "s", "i"}
Quotes  == {"dq", "sq"}
Chars   == Letters \cup Quotes
             \cup {"<", ">", "/", ":", "=", " ", "bs", "K", "9", "."}

KeyFirst == Letters \cup {"K"}
KeyRest  == KeyFirst \cup {"9"}

Stages == {"start", "text", "bs", "lt",
           "close", "close_e", "close_es", "close_esi", "close_colon",
           "close_name", "open_e", "open_es", "open_esi", "open_colon", "name",
           "attrs", "space", "key", "eq", "slash", "final"}

States == [in : SUBSET Quotes, at : Stages]

\* Generated state 75 (esi_start) and state 0, the one the C code tests for.
Start == [in |-> {}, at |-> "start"]
Text  == [in |-> {}, at |-> "text"]

(***************************************************************************)
(* One edge per transition that gets further in a tag: from, on, to.  Any  *)
(* other character falls back to "text".                                   *)
(***************************************************************************)
TagEdges ==
  {<<"lt", "/", "close">>, <<"close", "e", "close_e">>,
   <<"close_e", "s", "close_es">>, <<"close_es", "i", "close_esi">>,
   <<"close_esi", ":", "close_colon">>,
   <<"lt", "e", "open_e">>, <<"open_e", "s", "open_es">>,
   <<"open_es", "i", "open_esi">>, <<"open_esi", ":", "open_colon">>}
    \cup ({"close_colon", "close_name"} \X Letters \X {"close_name"})
    \cup ({"open_colon", "name"} \X Letters \X {"name"})
    \cup {<<"name", " ", "attrs">>, <<"name", ">", "final">>}

AttributeEdges ==
  ({"attrs", "space"} \X {" "} \X {"space"})
    \cup ({"attrs", "space"} \X KeyFirst \X {"key"})
    \cup ({"attrs", "space"} \X {"/"} \X {"slash"})
    \cup ({"key"} \X KeyRest \X {"key"})
    \cup {<<"key", "=", "eq">>, <<"eq", " ", "eq">>,
          <<"attrs", ">", "final">>, <<"slash", ">", "final">>}

Edges == TagEdges \cup AttributeEdges

Advance(at, ch) ==
  LET further == {to \in Stages : <<at, ch, to>> \in Edges}
  IN  IF further = {} THEN "text" ELSE CHOOSE to \in further : TRUE

(***************************************************************************)
(* The quoted values the scanner may be in after ch.  After a backslash a  *)
(* quote is both the end of the value and a character of it; after "=" it  *)
(* opens a value, next to the ones it may already be in.                   *)
(***************************************************************************)
InAfter(s, ch) ==
  (IF s.at = "bs" THEN s.in ELSE s.in \ {ch})
    \cup (IF s.at = "eq" THEN {ch} \cap Quotes ELSE {})

\* A quote that may end a value the scanner is inside of is taken to end it.
AtAfter(s, ch) ==
  CASE ch \in s.in                -> "attrs"
    [] ch = "<"                   -> "lt"
    [] ch = "bs" /\ s.in # {}     -> "bs"
    [] OTHER                      -> Advance(s.at, ch)

\* The generated transition.
StepOf(s, ch) == [in |-> InAfter(s, ch), at |-> AtAfter(s, ch)]

(***************************************************************************)
(* The action of common.rl a transition runs after `echo`, which all run:  *)
(* the labels f0 to f12 of the generated code.  `finish` does nothing, so  *)
(* f10, f11 and f12 are f0, f7 and f1.                                     *)
(***************************************************************************)
ActionOf(s, ch) ==
  CASE ch \in s.in                        -> "see_attribute_value"
    [] ch = "<"                           -> "begin"
    [] s.at = "close_name" /\ ch = ">"    -> "block_end_tag"
    [] s.at = "name" /\ ch = ">"          -> "block_start_tag"
    [] s.at = "name" /\ ch = " "          -> "see_start_tag"
    [] s.at = "attrs" /\ ch = ">"         -> "see_block_start_with_attributes"
    [] s.at = "slash" /\ ch = ">"         -> "see_end_tag"
    [] s.at = "key" /\ ch = "="           -> "see_attribute_key"
    [] OTHER                              -> "echo_only"

\* States 12 and 7, which `echo` names "states following a possible end state".
TagNameEnd == {[in |-> {}, at |-> "name"], [in |-> {}, at |-> "close_name"]}

(***************************************************************************)
(* What a state says about the tag being read: whether `mark` is the start *)
(* of a part of it, whether its name and whether an attribute's key have   *)
(* been seen.  Inside a quoted value all three hold.                       *)
(***************************************************************************)
InTag(s)    == s.in # {} \/ s.at \notin {"start", "text", "final"}
NamedTag(s) == s.in # {} \/ s.at \in {"attrs", "space", "key", "eq", "slash"}
HasKey(s)   == s.in # {} \/ s.at = "eq"

\* The stages of an end tag after its "</".
Closing == {"close", "close_e", "close_es", "close_esi", "close_colon", "close_name"}
=============================================================================
