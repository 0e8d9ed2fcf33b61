--------------------------- MODULE ESIBodyFilter ---------------------------
(***************************************************************************)
(* ngx_http_esi_filter_module.c: ngx_http_esi_body_filter with the three   *)
(* callbacks it gives the parser.  The response arrives in several calls   *)
(* of the filter; each parses the buffers of its chain, the callbacks add  *)
(* what is kept to ctx->chain, and the chain goes to the next filter.      *)
(*                                                                         *)
(* The parser is used as ESIStream specifies it: the document is a         *)
(* sequence of tokens, each a piece of text or a tag, however it is cut;   *)
(* text reaches output_cb when output_buffer is full, before a tag, or at  *)
(* the end.  A token is identified by its place in the document, and the   *)
(* document is made up as it is read.  A tag cut by the end of a call      *)
(* belongs to the call that completes it.  That the links of the chain     *)
(* that came in are freed is left out.                                     *)
(***************************************************************************)
EXTENDS ESITags

CONSTANTS
  MaxTokens,        \* bound: the length of the document
  MaxCalls,         \* bound: how many calls it may arrive in
  SIZE,             \* pieces of text output_buffer holds
  TagNames,         \* the names of the tags in the document
  WellNested,       \* whether its tags nest, none within one of its own type
  CutsWithinTags,   \* whether a call may end where a tag is unclosed
  CallsAfterLast    \* whether there are calls after the one with the last buffer

ASSUME BoundsAssumption == MaxTokens \in Nat /\ MaxCalls \in Nat /\ SIZE \in Nat \ {0}
ASSUME TagNamesAssumption == TagNames \subseteq Names
ASSUME ShapeAssumption ==
  WellNested \in BOOLEAN /\ CutsWithinTags \in BOOLEAN /\ CallsAfterLast \in BOOLEAN

VARIABLES
  tokens,           \* how many tokens of the document have been read
  token,            \* the last of them
  unclosed,         \* the tags of the document around this place
  pc,               \* "idle" between calls, "call" within one, "ended"
  made,             \* the number of calls made
  output_buffer,    \* the parser's
  ctx,              \* the tags of the request, a context of ESITags
  chain,            \* ctx->chain, up to ctx->last_buf
  requested,        \* the includes ngx_http_subrequest was called for
  handed,           \* the chains handed to the next filter
  fault

vars == <<tokens, token, unclosed, pc, made, output_buffer, ctx, chain, requested,
          handed, fault>>

Init ==
  /\ tokens = 0 /\ token = TextToken /\ unclosed = <<>>
  /\ pc = "idle" /\ made = 0
  /\ output_buffer = <<>>
  /\ ctx = NoTags
  /\ chain = <<>> /\ requested = <<>> /\ handed = <<>>
  /\ fault = "none"

\* Between two calls; after the last buffer the next call makes a new parser.
Ready ==
  /\ pc = "idle" \/ (pc = "ended" /\ CallsAfterLast)
  /\ fault = "none"
  /\ made < MaxCalls

\* A call with no buffers, or for a response without a body, is passed on.
PassOn ==
  /\ Ready
  /\ made' = made + 1
  /\ handed' = Append(handed, <<>>)
  /\ UNCHANGED <<tokens, token, unclosed, pc, output_buffer, ctx, chain, requested, fault>>

\* A new call: whatever tags were open are forgotten, the chain stays.
BeginCall ==
  /\ Ready
  /\ made' = made + 1
  /\ pc' = "call"
  /\ ctx' = Reset(ctx)
  /\ UNCHANGED <<tokens, token, unclosed, output_buffer, chain, requested, handed, fault>>

-----------------------------------------------------------------------------
Read(t) ==
  /\ pc = "call" /\ fault = "none"
  /\ tokens < MaxTokens
  /\ tokens' = tokens + 1
  /\ token' = t
  /\ UNCHANGED <<pc, made, handed>>

\* ngx_buf_from_data and ngx_chain_append_buffer, for text that is kept.
Appended(text) ==
  IF text # <<>> /\ KeepsText(ctx)
    THEN Append(chain, [text |-> text, last_buf |-> FALSE])
    ELSE chain

\* If output_buffer_size were not set to 0.
FlushOutputAgain ==
  /\ chain' = Appended(output_buffer)
  /\ UNCHANGED output_buffer

FlushOutput ==
  /\ chain' = Appended(output_buffer)
  /\ output_buffer' = <<>>

\* If output_buffer were handed over only when it holds more than SIZE.
TextLate ==
  /\ Read(TextToken)
  /\ LET all == Append(output_buffer, tokens')
     IN  IF Len(all) > SIZE
           THEN chain' = Appended(all) /\ output_buffer' = <<>>
           ELSE output_buffer' = all /\ UNCHANGED chain
  /\ UNCHANGED <<unclosed, ctx, requested, fault>>

Text ==
  /\ Read(TextToken)
  /\ LET all == Append(output_buffer, tokens')
     IN  IF Len(all) = SIZE
           THEN chain' = Appended(all) /\ output_buffer' = <<>>
           ELSE output_buffer' = all /\ UNCHANGED chain
  /\ UNCHANGED <<unclosed, ctx, requested, fault>>

\* esi_tag_start_include.  Without a src attribute uri is not initialised: a
\* length of 0 asks for nothing, any other is an address no one wrote.
StartInclude(type, src) ==
  IF type = "include" /\ ~ ctx.ignore_tag
    THEN \/ requested' = Append(requested, tokens') /\ UNCHANGED fault
         \/ ~ src /\ UNCHANGED <<requested, fault>>
         \/ ~ src /\ fault' = "uninitialised" /\ UNCHANGED requested
    ELSE UNCHANGED <<requested, fault>>

\* Where a tag may begin or end in a document whose tags nest.
MayOpen(type) ==
  WellNested => \A i \in DOMAIN unclosed : unclosed[i] # type
MayClose(type) ==
  WellNested /\ type # "none" =>
    unclosed # <<>> /\ unclosed[Len(unclosed)] = type

Opened(type) == IF type = "none" THEN unclosed ELSE Append(unclosed, type)

\* The document without the innermost unclosed tag of this type.
Closed(type) ==
  LET open == {i \in DOMAIN unclosed : unclosed[i] = type}
  IN  IF open = {} THEN unclosed ELSE SubSeq(unclosed, 1, Max(open) - 1)

StartTag(name, src) ==
  LET type == StrToType(name)
  IN  /\ MayOpen(type)
      /\ Read(TagToken("start", type, src))
      /\ FlushOutput
      /\ ctx' = StartTagCb(ctx, type)
      /\ StartInclude(type, src)
      /\ unclosed' = Opened(type)

EndTag(name) ==
  LET type == StrToType(name)
  IN  /\ MayClose(type)
      /\ Read(TagToken("end", type, FALSE))
      /\ FlushOutput
      /\ ctx' = EndTagCb(ctx, type)
      /\ unclosed' = Closed(type)
      /\ UNCHANGED <<requested, fault>>

InlineTag(name, src) ==
  LET type == StrToType(name)
  IN  /\ MayOpen(type)
      /\ Read(TagToken("inline", type, src))
      /\ FlushOutput
      /\ ctx' = EndTagCb(StartTagCb(ctx, type), type)
      /\ StartInclude(type, src)
      /\ UNCHANGED unclosed

-----------------------------------------------------------------------------
\* The end of a call, with what the chain has become: the last buffer of the
\* chain is marked last_buf, if there is one; the chain is handed over.
HandOver(bufs) ==
  /\ pc = "call" /\ fault = "none"
  /\ IF bufs = <<>>
       THEN /\ fault' = "null_pointer"
            /\ UNCHANGED <<chain, handed>>
       ELSE /\ chain' = [bufs EXCEPT ![Len(bufs)].last_buf = TRUE]
            /\ handed' = Append(handed, chain')
            /\ UNCHANGED fault
  /\ UNCHANGED <<tokens, token, unclosed, made, ctx, requested>>

\* More of the response is to come.
EndCall ==
  /\ CutsWithinTags \/ unclosed = <<>>
  /\ HandOver(chain)
  /\ pc' = "idle"
  /\ UNCHANGED output_buffer

\* The call whose chain has a buffer marked last_buf: the parser is finished
\* and freed.
EndLastCall ==
  /\ WellNested => unclosed = <<>>
  /\ HandOver(Appended(output_buffer))
  /\ output_buffer' = <<>>
  /\ pc' = "ended"

Next ==
  \/ PassOn
  \/ BeginCall
  \/ Text
  \/ \E name \in TagNames, src \in BOOLEAN : StartTag(name, src) \/ InlineTag(name, src)
  \/ \E name \in TagNames : EndTag(name)
  \/ EndCall
  \/ EndLastCall

Spec == Init /\ [][Next]_vars

-----------------------------------------------------------------------------
(* What must hold.                                                         *)

Faults == {"none", "uninitialised", "null_pointer"}
Bufs == [text : Seq(Nat), last_buf : BOOLEAN]

TypeOK ==
  /\ tokens \in 0..MaxTokens /\ token \in Tokens
  /\ unclosed \in Seq(Types)
  /\ pc \in {"idle", "call", "ended"}
  /\ made \in 0..MaxCalls
  /\ output_buffer \in Seq(Nat) /\ Len(output_buffer) < SIZE
  /\ ctx \in Contexts
  /\ chain \in Seq(Bufs)
  /\ requested \in Seq(Nat)
  /\ handed \in Seq(Seq(Bufs))
  /\ fault \in Faults

\* "If any tags are being actively processed there is always a root node"
\* (ngx_http_esi_filter_module.h:19): while a tag of the document is unclosed,
\* so is the root of the list.
RootWhileOpen == pc = "call" /\ unclosed # <<>> => ctx.root_tag # <<>>

\* In a document whose tags nest, the flat list with its one open tag is the
\* stack of the tags around this place, and ignore_tag says whether an except
\* is one of them (esi_parser_start_tag_cb, esi_tag_close_children).
TagsTracked ==
  WellNested /\ ~ CutsWithinTags /\ pc = "call" =>
    /\ ctx.root_tag = unclosed
    /\ ctx.open_tag = Len(unclosed)
    /\ ctx.ignore_tag <=> \E i \in DOMAIN unclosed : unclosed[i] = "except"

\* However the tags of a document are arranged, open_tag is NULL or the last
\* tag of the list: the callbacks never leave it at a tag they freed.
OpenTagInList == ctx.open_tag \in {0, Len(ctx.root_tag)}

\* All the text in a chain, in order.
TextOf(bufs) == FlattenSeq([i \in DOMAIN bufs |-> bufs[i].text])

\* The pieces of text that were or may yet be kept, as they lie in buffers.
Pieces == Append([i \in DOMAIN chain |-> chain[i].text], output_buffer)

\* No call, however the response is cut and its tags are arranged, and none
\* after the last buffer, adds text to the chain out of order or twice.
TextInOrder ==
  \A i, j \in DOMAIN Pieces :
    \A a \in DOMAIN Pieces[i], b \in DOMAIN Pieces[j] :
      i < j \/ (i = j /\ a < b) => Pieces[i][a] < Pieces[j][b]

\* What the client gets of the chains handed over: nginx ends its response where
\* it meets a chain whose last buffer is marked last_buf.
Delivered ==
  LET ending == {n \in DOMAIN handed : handed[n] # <<>> /\ Last(handed[n]).last_buf}
  IN  IF ending = {} THEN <<>> ELSE TextOf(handed[Min(ending)])

\* "assert_match '</html>', req.body, "Missing document footer""
\* (test/esi_filter_test.rb:41): the client gets what is kept of the whole
\* response, the text of its later calls too.
EndReached == pc = "ended" /\ fault = "none" => Delivered = TextOf(chain)

-----------------------------------------------------------------------------
(***************************************************************************)
(* ESIBodyFilter implements ESIRendering: the tags around a place are the  *)
(* list of open tags; what output_buffer holds has been rendered, if the   *)
(* tag that is open keeps it.                                              *)
(***************************************************************************)
Rendered == TextOf(chain) \o (IF KeepsText(ctx) THEN output_buffer ELSE <<>>)

Rendering == INSTANCE ESIRendering WITH
  nesting  <- ctx.root_tag,
  rendered <- Rendered,
  ended    <- pc = "ended"

\* A response whose tags nest, and which no call cuts within a tag, is rendered
\* as if it were whole, by the innermost tag around each piece of text.
ImplementsRendering == Rendering!Spec
=============================================================================
