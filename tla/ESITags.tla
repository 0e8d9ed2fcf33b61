------------------------------ MODULE ESITags ------------------------------
(***************************************************************************)
(* ngx_esi_tag.c and the start and end callbacks of the filter: the tags   *)
(* of a request that are open and what opening and closing one does.       *)
(*                                                                         *)
(* A context is what ngx_http_esi_ctx_t says of tags: the list of tags     *)
(* linked by `next` from root_tag on, the place of open_tag in it (0 is    *)
(* NULL) and the two flags.  Every operator gives the context after it.    *)
(***************************************************************************)
EXTENDS Naturals, SequencesExt

\* In the order esi_tag_str_to_type tries them.
TypeOrder == <<"try", "attempt", "except", "include", "invalidate", "vars", "remove">>
Types == {TypeOrder[i] : i \in DOMAIN TypeOrder}

(***************************************************************************)
(* strncmp is given the length of the tag's name, so a name stands for the *)
(* first type it is a beginning of.  All that is said of a name is which   *)
(* types those are: one, both of include and invalidate ("esi:in"), none.  *)
(***************************************************************************)
Names == {{t} : t \in Types} \cup {{"include", "invalidate"}, {}}

StrToType(name) ==
  IF name = {}
    THEN "none"
    ELSE TypeOrder[Min({i \in DOMAIN TypeOrder : TypeOrder[i] \in name})]

\* What a document is made of: text, and tags of some type (of none, if their
\* name is not known) with a src attribute or without.
TextToken == [kind |-> "text", type |-> "none", src |-> FALSE]
TagToken(kind, type, src) == [kind |-> kind, type |-> type, src |-> src]
Tokens == [kind : {"text", "start", "end", "inline"}, type : Types \cup {"none"},
           src : BOOLEAN]

Contexts == [root_tag : Seq(Types), open_tag : Nat,
             exception_raised : BOOLEAN, ignore_tag : BOOLEAN]

NoTags == [root_tag |-> <<>>, open_tag |-> 0,
           exception_raised |-> FALSE, ignore_tag |-> FALSE]

\* What ngx_http_esi_body_filter does to the tags before it parses anything.
Reset(ctx) == [ctx EXCEPT !.root_tag = <<>>, !.open_tag = 0]

\* esi_tag_open, apart from the subrequest.
TagOpen(ctx, type) ==
  [ctx EXCEPT
     !.exception_raised = @ /\ type # "attempt",
     !.ignore_tag = @ \/ (type = "except" /\ ~ ctx.exception_raised)]

\* If closing an except did not end the ignoring of tags.
TagCloseStillIgnoring(ctx, type) ==
  [ctx EXCEPT !.exception_raised = @ /\ type \notin {"attempt", "except"}]

\* esi_tag_close, apart from the list.
TagClose(ctx, type) ==
  [ctx EXCEPT
     !.exception_raised = @ /\ type \notin {"attempt", "except"},
     !.ignore_tag = @ /\ ~ (type = "except" /\ ~ ctx.exception_raised)]

\* esi_parser_start_tag_cb appends the tag to the list and opens it.
StartTagCb(ctx, type) ==
  IF type = "none"
    THEN ctx
    ELSE TagOpen([ctx EXCEPT !.root_tag = Append(@, type),
                             !.open_tag = Len(ctx.root_tag) + 1], type)

\* If open_tag were left at a tag that is freed.
CloseChildrenDangling(ctx, type) ==
  LET matching == {i \in 2..Len(ctx.root_tag) : ctx.root_tag[i] = type}
  IN  IF matching = {}
        THEN [ctx EXCEPT !.open_tag = 0]
        ELSE TagClose([ctx EXCEPT !.root_tag = SubSeq(@, 1, Min(matching) - 1)], type)

\* esi_tag_close_children: the first tag of that type after the root is closed
\* and freed with all that follow; without one, nothing is open any more.
CloseChildren(ctx, type) ==
  LET matching == {i \in 2..Len(ctx.root_tag) : ctx.root_tag[i] = type}
  IN  IF matching = {}
        THEN [ctx EXCEPT !.open_tag = 0]
        ELSE TagClose([ctx EXCEPT
                         !.root_tag = SubSeq(@, 1, Min(matching) - 1),
                         !.open_tag = Min(matching) - 1], type)

\* esi_parser_end_tag_cb; closing the root frees the whole list.
EndTagCb(ctx, type) ==
  CASE type = "none" \/ ctx.root_tag = <<>> -> ctx
    [] type # "none" /\ ctx.root_tag # <<>> /\ ctx.root_tag[1] = type ->
         TagClose(Reset(ctx), type)
    [] OTHER -> CloseChildren(ctx, type)

\* If the text of an attempt were not kept.
BuffersNoAttempt(ctx, type) ==
  type = "vars" \/ (type = "except" /\ ctx.exception_raised)

\* Whether the text of a tag of this type is kept (esi_tag_buffer).
Buffers(ctx, type) ==
  type \in {"vars", "attempt"} \/ (type = "except" /\ ctx.exception_raised)

\* Whether esi_parser_output_cb keeps the text it is given.
KeepsText(ctx) ==
  ctx.root_tag = <<>> \/ ctx.open_tag = 0 \/ Buffers(ctx, ctx.root_tag[ctx.open_tag])
=============================================================================
