---------------------------- MODULE ESIRendering ----------------------------
(***************************************************************************)
(* What the filter promises for a document whose tags nest: text is kept   *)
(* by the innermost tag around it or it is not, an include is requested    *)
(* unless an except is around it, all in the order of the document.  There *)
(* are no buffers, no chains and no calls here.                            *)
(***************************************************************************)
EXTENDS ESITags

VARIABLES
  nesting,     \* the types of the tags around this place, outermost first
  tokens,      \* how much of the document was read, in pieces of text and tags
  token,       \* the last of them
  rendered,    \* the pieces of text that are kept
  requested,   \* the includes that were requested
  ended

vars == <<nesting, tokens, token, rendered, requested, ended>>

Init ==
  /\ nesting = <<>>
  /\ tokens = 0 /\ token = TextToken
  /\ rendered = <<>>
  /\ requested = <<>>
  /\ ended = FALSE

Kept == nesting = <<>> \/ nesting[Len(nesting)] \in {"vars", "attempt"}

Excepted == \E i \in DOMAIN nesting : nesting[i] = "except"

Read(t) == ~ ended /\ tokens' = tokens + 1 /\ token' = t /\ UNCHANGED ended

Text ==
  /\ Read(TextToken)
  /\ rendered' = IF Kept THEN Append(rendered, tokens') ELSE rendered
  /\ UNCHANGED <<nesting, requested>>

\* Without a src it is not known what is requested, or whether anything is.
Request(type, src) ==
  IF type = "include" /\ ~ Excepted
    THEN requested' \in IF src THEN {Append(requested, tokens')}
                               ELSE {requested, Append(requested, tokens')}
    ELSE requested' = requested

\* Start and end tags of no known type are as if they were not there.
StartTag(type, src) ==
  /\ Read(TagToken("start", type, src))
  /\ nesting' = IF type = "none" THEN nesting ELSE Append(nesting, type)
  /\ Request(type, src)
  /\ UNCHANGED rendered

EndTag(type) ==
  /\ Read(TagToken("end", type, FALSE))
  /\ \/ type = "none" /\ UNCHANGED nesting
     \/ /\ nesting # <<>>
        /\ nesting[Len(nesting)] = type
        /\ nesting' = SubSeq(nesting, 1, Len(nesting) - 1)
  /\ UNCHANGED <<rendered, requested>>

InlineTag(type, src) ==
  /\ Read(TagToken("inline", type, src))
  /\ Request(type, src)
  /\ UNCHANGED <<nesting, rendered>>

Finish ==
  /\ ~ ended
  /\ ended' = TRUE
  /\ UNCHANGED <<nesting, tokens, token, rendered, requested>>

Next ==
  \/ Text
  \/ \E type \in Types \cup {"none"}, src \in BOOLEAN :
       StartTag(type, src) \/ EndTag(type) \/ InlineTag(type, src)
  \/ Finish

Spec == Init /\ [][Next]_vars
=============================================================================
