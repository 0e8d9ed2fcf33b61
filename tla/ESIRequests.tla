---------------------------- MODULE ESIRequests ----------------------------
(***************************************************************************)
(* A request and the subrequests that its includes ask nginx for: which    *)
(* responses ngx_http_esi_header_filter has filtered, by the configuration *)
(* that ESIConf reads, the body filter on each, and what happens when a    *)
(* subrequest ends (ngx_http_esi_stub_output).                             *)
(*                                                                         *)
(* nginx is external: it runs the requests in any order, one call of a     *)
(* filter at a time, and cuts a response into calls where it likes; the    *)
(* last buffer of every response that comes in is marked.  A request's     *)
(* output is what it hands over and the subrequests it asks for, in the    *)
(* order it does so; a buffer that is handed over again was consumed and   *)
(* is not sent again.  `marked` is what the code sets last_buf on; what    *)
(* the next filters make of buffers marked too early is not followed here  *)
(* but by EndReached of ESIBodyFilter.  That the links of the chain that   *)
(* came in are freed is left out.  Text is one page token per piece.       *)
(***************************************************************************)
EXTENDS ESIConf, ESITags

CONSTANTS
  Pages,          \* what can be asked for
  Page,           \* of each: the block it is served in, its header, its tokens
  NoSrc,          \* what a tag without a src attribute includes
  MaxRequests,    \* how many requests nginx makes of one, itself among them
  SIZE,           \* pieces of text output_buffer holds
  MaxCuts         \* bound: how many calls end before a response does

ASSUME RequestsAssumption == MaxRequests \in Nat \ {0} /\ SIZE \in Nat \ {0}
ASSUME CutsAssumption == MaxCuts \in Nat
ASSUME PagesAssumption ==
  \A p \in Pages :
    /\ Page[p].block \in 2..Blocks /\ Page[p].length \in BOOLEAN
    /\ Page[p].tokens \in Seq([kind : {"text", "start", "end", "inline"},
                               type : Types \cup {"none"}, src : Pages \cup {NoSrc}])

VARIABLES
  requests,       \* the requests so far, the client's first
  fault

requestVars == <<requests, fault>>
vars == <<confVars, requestVars>>

\* A subrequest and a token sent, by the place of the token in its page.
Sub(at, sub) == [at |-> at, sub |-> sub]
Piece(at) == [at |-> at, sub |-> 0]

\* `ends` are the places where calls have ended: what nginx does, not the code.
NewRequest(page, parent) ==
  [page |-> page, parent |-> parent, stage |-> "new", filtered |-> FALSE,
   length |-> FALSE, at |-> 0, ends |-> {}, tags |-> NoTags, output_buffer |-> <<>>,
   chain |-> <<>>, handed |-> 0, marked |-> {}, posted |-> <<>>]

Init ==
  /\ ConfInit
  /\ requests = <<>>
  /\ fault = "none"

Serving == merged = Blocks /\ fault = "none"

\* Nothing runs while a filter does.
Idle == Serving /\ \A i \in DOMAIN requests : requests[i].stage # "call"

Receive(page) ==
  /\ Idle
  /\ requests = <<>>
  /\ requests' = <<NewRequest(page, 0)>>
  /\ UNCHANGED fault

-----------------------------------------------------------------------------
(* The header.                                                             *)

\* The configured types a content type may begin with, of one that has a length.
TypeListed(page) ==
  Page[page].begins \cap ToSet(arrays[types[Page[page].block]]) # {}

Enabled(page) == conf[Page[page].block]["esi"] = 1

Filters(page, bodyless) == Enabled(page) /\ ~ bodyless /\ TypeListed(page)

Bodyless(page) == Page[page].length /\ Page[page].tokens = <<>>

\* If the length were cleared in subrequests only.
SendHeaderOfSub(i) ==
  LET r == requests[i]
      filters == Filters(r.page, Bodyless(r.page))
  IN  /\ Idle /\ r.stage = "new"
      /\ requests' = [requests EXCEPT
           ![i].filtered = filters,
           ![i].length = Page[r.page].length /\ ~ (filters /\ r.parent # 0),
           ![i].stage = "open"]
      /\ UNCHANGED fault

\* If an unfiltered response were not given to the next header filter.
SendHeaderIfFiltered(i) ==
  LET r == requests[i]
      filters == Filters(r.page, Bodyless(r.page))
  IN  /\ Idle /\ r.stage = "new"
      /\ filters
      /\ requests' = [requests EXCEPT
           ![i].filtered = filters,
           ![i].length = Page[r.page].length /\ ~ (filters /\ r.parent = 0),
           ![i].stage = "open"]
      /\ UNCHANGED fault

\* ngx_http_esi_header_filter: a filtered response gets a context and, if it is
\* the client's, loses its Content-Length.
SendHeader(i) ==
  LET r == requests[i]
      filters == Filters(r.page, Bodyless(r.page))
  IN  /\ Idle /\ r.stage = "new"
      /\ requests' = [requests EXCEPT
           ![i].filtered = filters,
           ![i].length = Page[r.page].length /\ ~ (filters /\ r.parent = 0),
           ![i].stage = "open"]
      /\ UNCHANGED fault

-----------------------------------------------------------------------------
(* The body.                                                               *)

\* Without a context the response is passed on as it is.
PassOn(i) ==
  LET r == requests[i]
  IN  /\ Idle /\ r.stage = "open" /\ ~ r.filtered
      /\ requests' = [requests EXCEPT
           ![i].posted = [k \in DOMAIN Page[r.page].tokens |-> Piece(k)],
           ![i].stage = "done"]
      /\ UNCHANGED fault

BeginCall(i) ==
  /\ Idle
  /\ requests[i].stage = "open" /\ requests[i].filtered
  /\ requests' = [requests EXCEPT ![i].stage = "call", ![i].tags = Reset(@)]
  /\ UNCHANGED fault

\* If a tag were acted on before the text in front of it is handed over.
FlushedNot(r) == r

\* esi_parser_output_cb with all that output_buffer holds.
Flushed(r) ==
  [r EXCEPT !.chain = IF KeepsText(r.tags) THEN @ \o r.output_buffer ELSE @,
            !.output_buffer = <<>>]

\* The next token of the page, in a call.
Parses(i, kind) ==
  LET r == requests[i]
      tokens == Page[r.page].tokens
  IN  /\ Serving
      /\ r.stage = "call"
      /\ r.at < Len(tokens)
      /\ tokens[r.at + 1].kind = kind

ParseText(i) ==
  /\ Parses(i, "text")
  /\ LET r == requests[i]
         read == [r EXCEPT !.at = @ + 1, !.output_buffer = Append(@, r.at + 1)]
     IN  requests' = [requests EXCEPT
           ![i] = IF Len(read.output_buffer) = SIZE THEN Flushed(read) ELSE read]
  /\ UNCHANGED fault

\* esi_tag_start_include, with r as the request is after the tag.  What
\* ngx_http_subrequest returns is not looked at; it refuses to make too many.
StartInclude(i, tag, r) ==
  IF tag.type = "include" /\ ~ requests[i].tags.ignore_tag
    THEN IF tag.src # NoSrc /\ Len(requests) < MaxRequests
           THEN /\ requests' = Append(
                     [requests EXCEPT ![i] =
                        [r EXCEPT !.posted = Append(@, Sub(r.at, Len(requests) + 1))]],
                     NewRequest(tag.src, i))
                /\ UNCHANGED fault
           ELSE /\ requests' = [requests EXCEPT ![i] = r]
                /\ fault' \in IF tag.src = NoSrc THEN {"none", "uninitialised"} ELSE {fault}
    ELSE requests' = [requests EXCEPT ![i] = r] /\ UNCHANGED fault

\* The request after the tag, without what it asks for.
Tagged(r, tags) == [Flushed(r) EXCEPT !.at = @ + 1, !.tags = tags]

Tag(i) == Page[requests[i].page].tokens[requests[i].at + 1]

ParseStartTag(i) ==
  LET r == requests[i]
  IN  /\ Parses(i, "start")
      /\ StartInclude(i, Tag(i), Tagged(r, StartTagCb(r.tags, Tag(i).type)))

ParseInlineTag(i) ==
  LET r == requests[i]
  IN  /\ Parses(i, "inline")
      /\ StartInclude(i, Tag(i),
           Tagged(r, EndTagCb(StartTagCb(r.tags, Tag(i).type), Tag(i).type)))

ParseEndTag(i) ==
  LET r == requests[i]
  IN  /\ Parses(i, "end")
      /\ requests' = [requests EXCEPT ![i] = Tagged(r, EndTagCb(r.tags, Tag(i).type))]
      /\ UNCHANGED fault

\* The end of every call: the last buffer of the chain is marked last_buf,
\* through a NULL pointer if there is none, and the chain goes to the next
\* filter, which sends what is new in it.
HandOver(i, r, stage) ==
  /\ Serving /\ requests[i].stage = "call"
  /\ IF r.chain = <<>>
       THEN fault' = "null_pointer" /\ UNCHANGED requests
       ELSE /\ requests' = [requests EXCEPT ![i] =
                 [r EXCEPT !.posted = @ \o [k \in 1..(Len(r.chain) - r.handed) |->
                                              Piece(r.chain[r.handed + k])],
                           !.handed = Len(r.chain),
                           !.marked = @ \cup {Len(r.chain)},
                           !.stage = stage]]
            /\ UNCHANGED fault

\* More of the response is to come: a call ends anywhere, within a tag of the
\* page too.  Bounds: it brings a token at least, and there are not many.
EndCall(i) ==
  LET r == requests[i]
  IN  /\ r.at \notin r.ends \cup {0}
      /\ Cardinality(r.ends) < MaxCuts
      /\ HandOver(i, [r EXCEPT !.ends = @ \cup {r.at}], "open")

\* If the parser were freed without being finished.
EndLastCallUnfinished(i) ==
  /\ requests[i].at = Len(Page[requests[i].page].tokens)
  /\ HandOver(i, requests[i], "done")

\* The last buffer: the parser is finished.
EndLastCall(i) ==
  /\ requests[i].at = Len(Page[requests[i].page].tokens)
  /\ HandOver(i, Flushed(requests[i]), "done")

-----------------------------------------------------------------------------
(* The end.                                                                *)

\* The buffer of the stub was allocated and never filled.  Should it happen to
\* be empty, it passes the body filter of a request without a context only.
SendStub(i, bodyless) ==
  \/ fault' = "uninitialised"
  \/ ~ Filters(requests[i].page, bodyless) /\ UNCHANGED fault

\* ngx_http_esi_stub_output when subrequest i ended with rc "ok", with a status,
\* or with NGX_ERROR; nothing is sent if it failed, if the connection to the
\* client is broken, or if it has sent something.
StubOutput(i, rc, broken, bodyless) ==
  IF rc = "error" \/ broken \/ requests[i].posted # <<>>
    THEN UNCHANGED fault
    ELSE SendStub(i, bodyless)

\* A subrequest may end before it sends a header: it failed, or an upstream's
\* response to it was kept in memory (NGX_HTTP_SUBREQUEST_IN_MEMORY).
FailSub(i, rc, broken) ==
  /\ Idle
  /\ requests[i].parent # 0 /\ requests[i].stage = "new" /\ Page[requests[i].page].fails
  /\ StubOutput(i, rc, broken, FALSE)
  /\ requests' = [requests EXCEPT ![i].stage = "failed"]

EndSub(i, broken) ==
  /\ Idle
  /\ requests[i].parent # 0 /\ requests[i].stage = "done"
  /\ StubOutput(i, "ok", broken, Bodyless(requests[i].page))
  /\ requests' = [requests EXCEPT ![i].stage = "ended"]

Ended(i) == requests[i].stage \in {"ended", "failed"}

\* The client's request ends when its subrequests have.
EndMain ==
  /\ Idle
  /\ requests # <<>> /\ requests[1].stage = "done"
  /\ \A i \in 2..Len(requests) : Ended(i)
  /\ requests' = [requests EXCEPT ![1].stage = "ended"]
  /\ UNCHANGED fault

Step(i) ==
  /\ i \in DOMAIN requests
  /\ \/ SendHeader(i) \/ PassOn(i)
     \/ BeginCall(i) \/ ParseText(i)
     \/ ParseStartTag(i) \/ ParseEndTag(i) \/ ParseInlineTag(i)
     \/ EndCall(i) \/ EndLastCall(i)
     \/ \E broken \in BOOLEAN :
          EndSub(i, broken) \/ \E rc \in {"error", "status"} : FailSub(i, rc, broken)
     \/ i = 1 /\ EndMain

Next ==
  \/ ConfNext /\ UNCHANGED requestVars
  \/ /\ \/ \E page \in Pages : Receive(page)
        \/ \E i \in 1..MaxRequests : Step(i)
     /\ UNCHANGED confVars

\* nginx's loop runs every request that can go on.
Fairness == \A i \in 1..MaxRequests : WF_vars(Step(i) /\ UNCHANGED confVars)

Spec == Init /\ [][Next]_vars /\ Fairness

-----------------------------------------------------------------------------
(* What a page stands for, read without parser, calls or callbacks.        *)

\* The types of the tags around the n-th token.
Around(tokens, n) ==
  LET open[m \in 0..Len(tokens)] ==
        CASE m = 0 -> <<>>
          [] m > 0 /\ tokens[m].kind = "start" /\ tokens[m].type # "none" ->
               Append(open[m - 1], tokens[m].type)
          [] m > 0 /\ tokens[m].kind = "end" /\ tokens[m].type # "none" ->
               Front(open[m - 1])
          [] OTHER -> open[m - 1]
  IN  open[n - 1]

Within(tokens, n, type) == type \in ToSet(Around(tokens, n))

\* The tags of the page nest, and none is within one of its own type.
Nests(tokens) ==
  \A n \in DOMAIN tokens :
    LET token == tokens[n]
    IN  /\ token.kind \in {"start", "inline"} => ~ Within(tokens, n, token.type)
        /\ token.kind = "end" /\ token.type # "none" =>
             Around(tokens, n) # <<>> /\ Last(Around(tokens, n)) = token.type

\* The text that its tags keep, outside every except, and that within one.
KeptText(tokens) ==
  {n \in DOMAIN tokens :
     /\ tokens[n].kind = "text"
     /\ Around(tokens, n) = <<>> \/ Last(Around(tokens, n)) \in {"vars", "attempt"}
     /\ ~ Within(tokens, n, "except")}

ExceptText(tokens) ==
  {n \in DOMAIN tokens : tokens[n].kind = "text" /\ Within(tokens, n, "except")}

Includes(tokens) ==
  {n \in DOMAIN tokens :
     /\ tokens[n].kind \in {"start", "inline"} /\ tokens[n].type = "include"
     /\ tokens[n].src # NoSrc}

\* Whether the file of directives says that the page is to be processed.
Processed(page) ==
  /\ Setting(Page[page].block, "esi") = 1
  /\ Page[page].begins \cap Listed(Page[page].block) # {}
  /\ ~ Bodyless(page)

\* The tokens that are in a response's output: each once and in order, if it
\* is as it should be.
Sent(posted) == {k \in DOMAIN posted : posted[k].sub = 0}
Subs(posted) == {k \in DOMAIN posted : posted[k].sub # 0}
Ats(posted, places) == {posted[k].at : k \in places}
InOrder(posted, places) == \A j, k \in places : j < k => posted[j].at < posted[k].at

Done(i) == requests[i].stage \in {"done", "ended"}

\* The types of the tags that calls of this response ended within.
CutTags(r) == UNION {ToSet(Around(Page[r.page].tokens, n + 1)) : n \in r.ends}

-----------------------------------------------------------------------------
(* What must hold.                                                         *)

TypeOK ==
  /\ Len(requests) <= MaxRequests
  /\ \A i \in DOMAIN requests :
       LET r == requests[i]
       IN  /\ r.page \in Pages /\ r.parent \in 0..(i - 1)
           /\ r.stage \in {"new", "open", "call", "done", "ended", "failed"}
           /\ r.tags \in Contexts
           /\ Len(r.output_buffer) < SIZE
           /\ r.handed \in 0..Len(r.chain)
  /\ fault \in {"none", "uninitialised", "null_pointer"}

\* Nothing is said of a page that is processed and whose tags do not nest.
AsMeant(page) == Processed(page) => Nests(Page[page].tokens)

\* From the directives to what is handed to the next filter: a response that the
\* file says is to be processed has all the text that its tags keep, once and in
\* order, wherever calls cut it, and its last buffer is marked as the end; if no
\* call ended within a tag it has no more, but for what is said of excepts, of
\* which nothing is claimed.  Any other response is handed on as it is.
PagesRendered ==
  \A i \in DOMAIN requests :
    LET r == requests[i]
        tokens == Page[r.page].tokens
        sent == Ats(r.posted, Sent(r.posted))
    IN  Done(i) /\ AsMeant(r.page) =>
          /\ InOrder(r.posted, Sent(r.posted))
          /\ Processed(r.page) =>
               /\ KeptText(tokens) \subseteq sent
               /\ CutTags(r) = {} => sent \subseteq KeptText(tokens) \cup ExceptText(tokens)
               /\ Len(r.chain) \in r.marked
          /\ ~ Processed(r.page) => sent = DOMAIN tokens

\* The includes of a processed page that are asked for are asked for in order and
\* once; if no call ended within an except, each that is outside of all excepts
\* is, until nginx refuses to make more.  A subrequest shows in one place of the
\* output of the request that asked for it, and nowhere else.
IncludesAsked ==
  /\ \A i \in DOMAIN requests :
       LET r == requests[i]
           tokens == Page[r.page].tokens
           asked == Ats(r.posted, Subs(r.posted))
       IN  Done(i) /\ AsMeant(r.page) =>
             /\ InOrder(r.posted, Subs(r.posted))
             /\ asked \subseteq IF Processed(r.page) THEN Includes(tokens) ELSE {}
             /\ Processed(r.page) /\ "except" \notin CutTags(r) =>
                  \A n \in Includes(tokens) \ asked :
                    \/ Within(tokens, n, "except")
                    \/ Len(requests) = MaxRequests /\ \A m \in asked : m < n
  /\ \A j \in 2..Len(requests) :
       LET parent == requests[j].parent
       IN  \E k \in DOMAIN requests[parent].posted :
             \A i \in DOMAIN requests :
               \A l \in DOMAIN requests[i].posted :
                 requests[i].posted[l].sub = j <=> i = parent /\ l = k

\* A Content-Length that the client gets is that of what it gets: a response
\* that keeps it is sent whole and with nothing included.
LengthTrue ==
  \A i \in DOMAIN requests :
    requests[i].parent = 0 /\ requests[i].length /\ Done(i) =>
      requests[i].posted = [k \in DOMAIN Page[requests[i].page].tokens |-> Piece(k)]

\* Every request of a client ends, pages that include themselves too, unless
\* the process is gone.
Answered == requests # <<>> ~> (fault # "none" \/ \A i \in DOMAIN requests : Ended(i))

\* No try ends between two tokens.
SameTry(tokens, n, m) ==
  \A k \in n..m : ~ (tokens[k].kind = "end" /\ tokens[k].type = "try")

\* "this is toggled to 1 if an exception is raised while processing an attempt
\* tag" (ngx_http_esi_filter_module.h:25), "The failover esi include should have
\* been requested" (test/esi_filter_test.rb:154): if an include of an attempt has
\* failed, those of the except behind it are asked for, unless nginx refuses.
FailoverRequested ==
  requests # <<>> /\ Ended(1) =>
    \A i \in DOMAIN requests :
      LET tokens == Page[requests[i].page].tokens
          posted == requests[i].posted
      IN  Processed(requests[i].page) /\ Nests(tokens) =>
            \A k \in Subs(posted), n \in Includes(tokens) :
              /\ requests[posted[k].sub].stage = "failed"
              /\ Within(tokens, posted[k].at, "attempt")
              /\ Within(tokens, n, "except")
              /\ posted[k].at < n /\ SameTry(tokens, posted[k].at, n)
              => n \in Ats(posted, Subs(posted)) \/ Len(requests) = MaxRequests

\* "<h1>This is a test document</h1> [...] valid [...] <div>test1</div>"
\* (test/esi_filter_test.rb:42): a fragment is sent in the place of its include.
IncludesInPlace ==
  \A i \in DOMAIN requests :
    LET posted == requests[i].posted
    IN  \A j, k \in DOMAIN posted : j < k => posted[j].at < posted[k].at
=============================================================================
