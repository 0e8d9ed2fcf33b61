# A TLA+ model of nginx-esi

nginx-esi is an nginx output filter for Edge Side Includes. Responses pass
through a body filter that hands their buffers to a streaming parser generated
by Ragel; the parser calls back for text, start tags and end tags; the callbacks
keep a list of open tags, decide which text is kept, ask nginx for subrequests
and build the chain of buffers the next filter gets. All of it runs in one
thread. What makes it hard is not threads but *cuts*: a response arrives in pieces
of any length, and parser and filter keep raw pointers and flags from one call to
the next; and a request asks for others, which go through the same filters, while
it is being parsed itself. Beside the module the repository has a load generator
(`get/test.c`), whose calls of curl call it back within themselves.

## Inventory

| Part | Code | State | Operations | Interacts with |
|---|---|---|---|---|
| Scanner | `common.rl`, the switch of `ngx_esi_parser.c` | `cs` | one transition per byte, with an action | run by the parser |
| Streaming parser | `ngx_esi_parser.rl`, `.h` | `mark`, `tag_text`, `attr_key`, `attributes`, `overflow_data`, `echobuffer`, `output_buffer`, `prev_state` | `esi_parser_execute`, `esi_parser_finish` | called by the body filter, calls three handlers |
| Tags | `ngx_esi_tag.c` | `root_tag`, `open_tag`, `exception_raised`, `ignore_tag` | `esi_tag_open`, `esi_tag_close`, `esi_tag_close_children`, `esi_tag_buffer`, `esi_tag_str_to_type` | called by the callbacks; an include calls `ngx_http_subrequest`, whose end calls `ngx_http_esi_stub_output` |
| Body filter | `ngx_http_esi_filter_module.c`, `ngx_buf_util.c` | `parser`, `chain`, `last_buf` | `ngx_http_esi_body_filter`, the callbacks | called by nginx once per piece of response, calls the next filter |
| Header filter | `ngx_http_esi_filter_module.c` | creates the context | `ngx_http_esi_header_filter` | called by nginx before the body filter |
| Configuration | `ngx_http_esi_filter_module.c` | location configurations | create, merge, `esi_types` | read by the header filter |
| Load generator | `get/test.c` | `started`, `running`, a `SockInfo` per socket, one timer | `add_request`, `loop`, the socket and timer callbacks, `check_http_request_status` | a program of its own, over curl and libev |

What makes each correct, and where it is hard:

* **Scanner** - recognises exactly the tags of the grammar; hard because it looks
  for tags inside quoted values too and so tracks several readings at once.
* **Parser** - the handlers are called in the order of the document, with the right
  bytes, however the document is cut; hard because pointers into a piece outlive
  it, text waits in two buffers, and a short cut skips the scanner.
* **Tags** - the flat list behaves as the stack of open tags; hard because closing
  frees a suffix of the list that `open_tag` may point into.
* **Body filter** - text joins the chain once and in order, and all of it reaches
  the client; hard because the context lives over several calls and
  is partly reset by each.
* **Header filter and configuration** - what the directives of nested blocks say is
  what happens to a response, and no Content-Length survives that is wrong; hard
  because blocks are read in any order and share arrays.
* **Requests** - the text a page keeps is all sent, each include is asked for once and
  every request ends; hard because requests interleave, are cut into calls anywhere,
  fail, include themselves and are refused by nginx.
* **Load generator** - each request is answered once and the loop ends after the
  last; hard because curl is called within calls of curl, an `ev_unloop` can be
  lost and the timer never stops.

The hazards, each at its line with the properties aimed at it, are in `PROJECT.json`.

## Modules

| Module | Models |
|---|---|
| `ESIMachine` | the 80 generated states as a product: which quoted values the scanner may be inside of, and how far it is in a tag; the table in its header gives every generated number |
| `ESIText` | trimming, `esi_parser_scan_for_start`, the record of a call to a handler |
| `ESIStream` | abstract: what the parser does with a document that is not cut; no buffers, no pointers |
| `ESIParser` | the parser with its buffers and pointers; at its end the refinement of `ESIStream` |
| `ESIGrammar` | the grammar of `common.rl` as a generator of documents and of the calls they stand for; which documents have lexemes that can be told apart (`PlainDocument`) |
| `MCESIParser` | instances for TLC; the comparison with `ESIGrammar` |
| `ESITags` | the tags of a request as pure operators on a context |
| `ESIRendering` | abstract: what is kept and requested of a document whose tags nest, with a stack and without calls |
| `ESIBodyFilter` | the body filter and its callbacks over several calls; at its end the refinement of `ESIRendering` |
| `MCESIBodyFilter` | instances for TLC |
| `ESIConf` | the directives, their arrays of types, and the merging of locations |
| `ESIRequests` | composes `ESIConf` and `ESITags`: a request of a client and its subrequests, header filter, body filter, includes, stub output |
| `MCESIRequests` | six pages and six directives for TLC |
| `HttpProcessor` | the load generator over curl and libev |
| `ESISetLemmas`, `ESITags_proofs` | lemmas: the least element of a set, induction and functions defined by recursion, sequences joined to one; what opening and closing tags does to the list of tags |
| `ESIParser_proofs`, `ESIStream_proofs`, `ESIMarkup_proofs` | theorems of `ESIParser`: its types, its pointers and the order of text, then the refinement, then that the markup is reported as the grammar reads it |
| `ESIBodyFilter_proofs`, `ESIRequests_proofs`, `HttpProcessor_proofs` | theorems of these modules, those of `ESIConf` with those of `ESIRequests`; the first two rest on `ESITags_proofs` |

`ESIRendering`, the properties and what theorems assume of a document
(`PlainDocument` and the definitions it is made of) state what is promised and have
no lines of their own in the map; every other definition that stands for code names its lines.

### How `ESIParser` corresponds to the code

A character is one of the classes the scanner tells apart; a byte is its position
in the document, so a run can tell where each byte went. A raw pointer is a buffer
and an offset. `Buffer` is what the scanner runs over: the piece, or
`overflow_data` with the piece appended. When a buffer is freed or goes back to
the caller, pointers into it become `Lost`; `Moved` gives a pointer into another
buffer the outcomes `compute_offset` can have. Following a `Lost` or NULL pointer,
or writing behind the echobuffer, is the action `Misuse`, which records the fault
and ends the run.

One call of `esi_parser_execute` is one of `ExecutePlain` (the short cut),
`ExecuteFresh`, `ExecuteOverflow`, then one action per byte named after the action
of `common.rl` it runs - always after `echo`, as the generated code does, whose
effect is `Held`, `Released` and the conjuncts of `Step` - then one of
`ReturnSaving`, `ReturnKeeping`, `ReturnBetweenTags`. `attr_value` is set and used
in one action and so needs no variable.

`ESIStream` keeps the bytes of the name and the key where the parser keeps
pointers. The refinement at the end of `ESIParser` maps a pointer to the position of the
byte it points to, and what `output_buffer` holds to calls already made.

### How `ESIBodyFilter` corresponds to the code

The parser is used as `ESIStream` specifies it: a document is a sequence of tokens,
each a piece of text or a tag; a tag cut in two belongs to the call that completes
it. `BeginCall` is the body filter up to its loop, `Text`, `StartTag`, `EndTag` and
`InlineTag` are the parser with the callback it makes, and `EndCall` and
`EndLastCall` are the rest of the function: marking `last_buf`, finishing and
freeing the parser, handing over the chain. The list from `root_tag` on is a
sequence and `open_tag` a place in it, 0 for NULL. A tag's name stands for the
first type it is a beginning of, as `strncmp` with the name's own length makes it.
`SIZE` counts pieces of text instead of bytes. `token` holds the last token read,
so that the refinement compares the same documents on both sides.
`ngx_http_subrequest` is external: here it is recorded that it was called. With
`CallsAfterLast` nginx goes on calling after the last buffer, where the code makes
a new parser and goes on adding to the old chain; `PassOn` is the early return for
an empty chain and for a response that is a header only. `handed` are the chains
given to the next filter, each with the marks its buffers have by then. `Delivered`,
external, is what nginx makes of them: `ngx_http_chunked_body_filter` looks at the
last buffer of a chain and ends the response if it is marked.

### How `ESIConf` and `ESIRequests` correspond to the code

`ESIConf` has one path of blocks through the file: http, server, location, if.
`written` is what was read so far, in any order; `SetSlot` is the slot functions of
nginx that the table of commands names, `EsiTypes` is `ngx_http_esi_types`. Arrays
are on a heap, because a block without types of its own shares the array around
it once it is merged. After `EndReading` the blocks are merged from the outside in, one `Merge` each.
`Setting` and `Listed` say what a reader of the file expects.

`ESIRequests` begins when all is merged. A page has a block, a content type (as the
set of configured types it begins with), perhaps a length, and tokens as in
`ESIBodyFilter`. `SendHeader` is the header filter, `PassOn` the early return of
the body filter, `BeginCall` to `EndLastCall` one call of it, `StartInclude` is
`esi_tag_start_include` with `ngx_http_subrequest`, which adds a request. A request
that ends runs `ngx_http_esi_stub_output` (`StubOutput`). Only one call of a filter
runs at a time, but between calls any request may go on. `posted` is the order in
which a request hands pieces to the next filter and makes subrequests: this is the
order nginx's postpone filter sends them in.

nginx is external. Assumed of it: the postpone filter keeps that order; a buffer
handed over again was consumed and is not sent twice; the last buffer of every
response that comes in is marked; it refuses subrequests beyond a number
(`MaxRequests`), with an error the code does not look at. It cuts a response into
calls where it likes, within a tag too: `ends` are the places, a call brings at
least a token, and `MaxCuts` bounds how many calls end before a response does. What
the next call makes of such a cut (no open tags, `ignore_tag` as it was) is the
code's. `HandOver` marks the last buffer of the chain in every call, as the code
does; `marked` records it. What the next filters make of a buffer that is marked too
early is not followed into `posted`: a request's output is what it hands over.
`body_filter_end` shows what a client makes of it. A subrequest may end with the
connection to the client broken (`broken`), in which case the stub sends nothing.
That an upstream's
response to a subrequest is kept in memory and not sent
(`NGX_HTTP_SUBREQUEST_IN_MEMORY`) is `FailSub`: it ends without output of its own.
`Piece`, `Sub`, `Receive`, `EndMain` and their like are marked external in the map.

What a page stands for is read off its tokens without parser or calls: `Around` are
the types of the tags around a place, `KeptText` the places of the text that is kept
outside of excepts, `ExceptText` those of the text within one, `Includes` those of
the includes. `CutTags` are the types of the tags around the places where calls of a
response ended. `PagesRendered` and `IncludesAsked` say that all kept text and all
includes outside of excepts are in `posted`, in order and each once, and what cuts
may change: only if a call ended within a tag can text be sent that its tags do not
keep, and only if one ended within an except can an include be missing. Of the text
and the includes of an except nothing is claimed: the code never runs one, and the
header and the tests say it should (`requests_failover`). They speak of pages that
are passed on, whatever is in them, and of processed pages whose tags nest, none
within its own type (`Nests`); what becomes of other tags is the matter of
`body_filter_any`.

### How `HttpProcessor` corresponds to the code

The calls in progress are a stack; the top frame says where its function is. `act`
is within `curl_multi_socket_action`, `acted` where curl calls the timer callback
last, `returned` where the caller has the result, `check`, `remove` and `complete`
are the three stops in the loop of `check_http_request_status`. `TimerCb` pushes a
frame when the timeout is 0 and starts the timer otherwise. For -1, with which curl
takes its timeout back, the code computes a negative repeat instead of stopping the
timer; libev then either runs it without a pause, so it is active, or its assertion
ends the program (`fault` is "exit"). A transfer waits for a
timeout, has a socket, has ended with a message, or is removed. `running` and
`started` are the program's own counters.

Assumed of curl and libev: curl keeps a socket or a timeout for each transfer and
reports the timeout before the call ends; it writes `*running` before it calls
back; `ev_loop` forgets an earlier `ev_unloop`, and returns when it is told to or
when nothing is watched. What libev makes of `ev_timer_init` on a timer that is
active (line 421) is not modelled: the timer is taken to be active afterwards.

## Runs

| Run | Bounds | Shows |
|---|---|---|
| `parser_refines` | about 220 documents of up to two lexemes of the grammar, or ones that break off or nest, alone and next to a lexeme; pieces of 1, 2, 3, 5, 9, 14 and 20 bytes in any mixture; `SIZE` 16 | `TypeOK`, `PointersInBuffer`, `InOrder`, `MarkupReported`, refinement of `ESIStream` |
| `parser_finish` | as above | violated: `FinishSendsAll` |
| `parser_echobuffer` | as above | violated: `EchobufferAllocated` |
| `parser_held_back` | as above | violated: `HeldBackIsKept` |
| `body_filter` | 6 tokens, 2 calls, `SIZE` 2; tags nest, none within its own type, calls end outside tags | `TypeOK`, `TagsTracked`, refinement of `ESIRendering` |
| `body_filter_any` | 6 tokens, 2 calls, `SIZE` 2; any order of tags, any cut, calls after the last buffer | `OpenTagInList`, `TextInOrder` |
| `body_filter_root` | 4 tokens, 2 calls | violated: `RootWhileOpen` |
| `body_filter_end` | 4 tokens, 2 calls; tags nest, calls end outside tags | violated: `EndReached` |
| `requests` | 3 blocks, files of up to 3 of 6 directives, 6 pages, 3 requests in all, calls that end anywhere, one before the last of each response, `SIZE` 2 | `TypeOK`, `SettingsInherited`, `TypesInherited`, `PagesRendered`, `IncludesAsked`, `LengthTrue`, `Answered` |
| `requests_failover` | one directive, the same pages, 4 requests | violated: `FailoverRequested` |
| `requests_in_place` | one directive, the same pages, 4 requests | violated: `IncludesInPlace` |
| `http_processor` | 3 requests, 4 nested calls | `TypeOK`, `StartedCounts`, `AnsweredAtEnd`, `Ends` |

Why the bounds are enough. Two lexemes are what it takes for one tag to leave
something behind for the next. Pieces of one byte cut everywhere; mixed lengths
make a call save a tag, continue it, complete it and begin another. `SIZE` is 16
so that both `output_buffer` and the echobuffer reach their limits in documents
of some 30 bytes. In the body filter an except in a try in something else, with
text, takes five tokens, and two calls show whatever a call leaves to the next.
In `requests` three blocks are what it takes for a setting to be inherited and to
be overridden, and three directives turn the filter on, list types around it and
override one of both. The pages are one that includes a start and an inline tag, an
attempt with its except, a page that includes itself until nginx refuses, a style
sheet, a page of includes only, one of them without src, and an empty one; three
requests make three levels and a refusal, and of the three includes of the page with
the attempt the last is refused or not. One cut per response is enough to leave
every state a call can leave to the next one; two were checked with files of up to two
directives. In `http_processor` three requests can
end in three different calls, and four calls deep is one more than that.
Deadlock is not checked: a run ends when the document, the client's request or the
program does, when nginx refuses the file, or with a fault.

The violated properties quote a comment or a test of the repository; `PROJECT.json` lists
them under `findings` with the line of the code and the line of the comment:

1. bytes held back at the end of a response are never sent;
2. `echobuffer_allocated` is overwritten with the size of the overflow buffer;
3. text that looks like a tag up to its name is dropped;
4. a call that begins within a tag has no root tag;
5. the end of a response is marked in its first call, and the client gets no more;
6. an attempt whose include fails does not lead to its except;
7. a fragment is sent ahead of the text in front of its include.

Two more places where the code and a comment differ have no run of their own:
`rtrim_pointer` removes a final `=` or quote of the other kind from a value, which
`MarkupReported` leaves out, and `esi_tag_buffer` keeps the text of a vars or attempt
within an except that is ignored, of which `PagesRendered` claims nothing.

Every property of a passing run has a mutant: an operator defined just before the
definition it would replace, with a comment saying what mistake it is.

**Fairness.** The parser and the body filter by themselves have none: they only
react to calls, and nginx may stop calling at any time (the client is gone).
`ESIRequests` has weak fairness of each request's steps: nginx's event loop runs
every request that can go on, and a call of a filter is a loop over a finite chain;
none of the reading of the file. With it `Answered` says that every request ends,
unless the process is gone through one of the faults (an empty chain, memory that
was never set). `HttpProcessor` has weak fairness of
the program's own steps (`Runs`: it is one thread, and libev calls back when the
timer is due). It assumes nothing of servers and sockets: `http_request_new` sets no
timeout, so a transfer may wait for ever. `Ends` therefore says that *if* curl gets
through every transfer, the loop is left, or the program has failed.

## Proofs

All theorems hold for every value of the constants, under the named assumptions in
`ESIParser` (documents are sequences of `Chars`, pieces are not empty, `SIZE` is
positive), `ESIBodyFilter` (bounds are numbers, `SIZE` is positive, names are
`Names`), `ESIConf` (one to four blocks; a directive is a setting with a number or a
list of types), `ESIRequests` (a page is in a block below http, has a length or not,
and is a sequence of tokens) and `HttpProcessor` (finitely many requests).

* `ParserTypeCorrect` and `PointersCorrect`. The inductive invariant is
  `TypeOK /\ PointersInBuffer`. The point is that whether a pointer is needed
  depends on the scanner's state (`InTag`, `NamedTag`, `HasKey`), and that every
  transition into such a state comes from one that has the pointer already or runs
  the action that sets it. This is proved of the automaton
  first (`NextStage`, `NextValues`, `ActionOrigin`, `TagKept`), then there is
  one lemma per action. `BufferIsTail` is part of the invariant because a pointer
  moved by its offset points to the same byte only if the new buffer begins with
  the old. That trimming stays within its text (`TrimRange`) uses `ESISetLemmas`.
* `SentInOrder`. The invariant `OrderInv` says that what was sent, what is held back
  in the echobuffer, the tag that is being read and what was not parsed yet follow
  each other in the document; so `mark` and the name of the tag are behind all text
  that was sent. One lemma for each of the ways bytes move: `FreshPlaces`,
  `OverflowPlaces` and `SavingPlaces` say where the bytes of the current buffer are
  in the document when a call begins and ends.
* `StreamImplemented`. `StreamMapped` says what the refinement mapping is in a
  state of the parser: the place of `Buffer` in the document and the offsets of
  the pointers. Beginning and ending a call leave it as it is and are stutters. A
  byte that the scanner sees is the step of `ESIStream` for the same transition. A
  piece sent without the scanner takes many bytes of `ESIStream` at once, which is its
  `TakeText`: such a piece holds no `<esi:`, so the scanner would never have got
  past the stages in front of the `:` and would have called all of it text
  (`Scanning`, `ScanningStep`, `RunInText`). That the recursive function
  in `TakeText` exists is shown by its least counterexample (`RunExists`).
* `ReadingFollowed`. The reading of a text (`Reads`) is a function of the text alone:
  the state of the scanner, the mark, the name, the key, the attributes, the bytes
  held back and the calls made after each byte. `Following` says that the parser, read
  through the refinement mapping, is where the reading of its document is at the place
  it has reached. It is inductive because every step of `ESIStream` is a step of the
  reading (`ByteFollowed`) or of several over text (`TextFollowed`), and
  `StreamImplemented` says that every step of the parser is one of those or none. So
  what the handlers were called with depends on the document and not on the cuts.
* `GrammarReported` and `MarkupCorrect`. With that, `MarkupReported` is about readings
  only: the reading of a document of the grammar ends with the calls of its lexemes.
  Each kind of lexeme, begun outside a tag, ends outside one and adds its calls
  (`LexemeRead`); `DocumentRead` joins them, by induction on the number of lexemes. A
  tag is read part by part: `<esi:` and its name (`HeadRead`), each attribute from the
  spaces in front of its key to the quote behind its value (`AttributeRead`,
  `AttributesRead`), and its end (`OpenLexemeRead`, `InlineLexemeRead`). Every part is a
  path of edges that run no action (`PathRead`, `LoopRead`), then a byte that runs
  one, which trims what lies between the mark and here; that this leaves the name, the
  key or the value that was written is `NameCut` and `PartCut`. Text is sent whole
  although parts of it are held back: from the `Quiet` states no byte begins a tag that
  gets a name unless the text holds `<esi:` (`TextRead`).
  What is assumed of the document is `PlainDocument`: text without a start of a tag
  (`ScanForStart`), names of letters, keys as in `common.rl`, and values without `<`,
  without a quote of their own kind, without a backslash in front of the quote that ends
  them, and that nothing is trimmed off of. The odd documents of `parser_refines` are
  not of this kind, and a value that ends in `=` is not. `MarkupCorrect` is the property
  that is checked.
* `TypeCorrect` and `NestingTracked`. `TagsTracked` is strengthened to
  `NestingInv`, which says the same between calls, where no tag is unclosed, and adds that no
  type is open twice and that `exception_raised` is FALSE. That no type is open twice is what makes
  "close the first tag of this type" (`esi_tag_close_children`) and "close the
  innermost" the same; with `exception_raised` set an except would not set `ignore_tag`.

* `RenderingImplemented`, for tags that nest, calls that end outside tags and none
  after the last. With `NestingInv` the flags of the context decide what the
  stack decides (`KeptAlike`). Text that is kept joins the chain with its buffer
  (`FlattenAppend`, `TextOfAppend`), so that flushing `output_buffer` leaves the
  rendered text as it is (`FlushRendered`): where a tag comes the text in front of it
  is in the chain or dropped, as the tags around it at that place say.
* `OpenTagListed` and `TextOrdered`, of any document and any cut.
  `OpenTagInList` is inductive with the type invariant, given that what is freed is
  a suffix of the list. `TextInOrder` is strengthened to `Ordered`: text
  in the chain, then text in `output_buffer`, then what was not read yet, so that a
  new parser that adds to the old chain cannot break it.
* `Inherited`. The invariant `ConfInv` says of a block that is not merged that it has
  what its own directives say (`AsRead`), which needs that a second directive for a
  setting is refused, and of a merged one that no setting is `UNSET` any more,
  which is what makes merging with it the same as merging with all around it.
* `ListedTypes`. The invariant `TypesInv` adds the heap of arrays: before the merge a
  block has no array or one of its own, which no other block has and which holds
  text/html and all its directives list (`OwnTypes`), so that a directive that adds to
  an array in place changes one block only. Arrays are shared by merging, after which
  nothing adds to them; a block that is not merged yet shares with none.
  `ServedAsInherited` adds that no request changes the configuration.
* `Rendering`, `Inclusion`, `RequestsTypeOK` and `LengthKept`. The invariant `IInv`
  says three things of each request (`Sound`). `Decided`: it is filtered if the file
  says so; if not, it is untouched or passed on whole. `Parsed`: its context is as
  far behind the tags around the place reached as the cuts allow (`Tracks`), and the
  kept text up to that place is in the chain and, if the innermost tag keeps text, in
  `output_buffer` (`Held`). `Rendered`: the first `handed` of the chain were sent in
  order (`Handed`), and of the includes reached all were asked for until there were
  `MaxRequests` requests (`Asked`); that the limit, once reached, stays reached makes
  "all before the first refused" inductive. And of all together (`Placed`): each
  subrequest is in one place of the output of its parent and in no other output.
  Cuts are what makes it hard. `Behind` says what a call that ended within tags has
  left of the list: it is a suffix of the stack of the tags around, what is missing at
  its outer end is of the types in `Cut`, the types that calls ended within, and
  `ignore_tag` is right unless an except is one of these. So with the list forgotten
  the code may keep text it should drop (it takes itself to be outside of all tags),
  never the other way round, and may ignore an include only after a cut within an
  except; `Held` and `Asked` say just that. `BehindReset`, `BehindPush`, `BehindPop` and
  `BehindInline` are the steps of a call's beginning and of the tags. There is one lemma
  for each of the ways the pieces move (`HeldText`, `HeldFlushed`, `HeldTag`,
  `HandedAll`, `AskedOn`, `AskedSub`), and every action is either a change of one
  request (`OneChanged`) or that and a new one (`OneAsked`). `TypesInherited` and
  `SettingsInherited` are needed at one step, `SendHeader`.
* Induction over the tokens of a page or the types of a directive: `Around` and
  `Others` are recursive functions, which exist by `RecursionExists`, and what holds of
  them up to any place is shown with a set in place of a predicate
  (`InductionUpTo`).
* `TypeCorrect`, `StartedRight` and `NoneLeft` of `HttpProcessor`. The invariant
  `IInv` adds to the count who is responsible for what: a socket is watched of
  each transfer that has one, a transfer that waits has the timer or a call
  that will start it (`WaitingTimed`), a message has a call that will look for it
  (`MessagesChecked`), a request whose message was read has exactly one call that
  will answer it (`LeavingOnce`, `RemovedLeaving`). When no call is in progress
  and nothing is watched, nothing can then be left. The depth of the nested calls
  plays no part.

Only model-checked: the liveness properties `Answered` and `Ends`, since liveness and
ENABLED are out of the prover's reach. Every invariant and every safety property that a
passing run checks is a theorem.

## Not modelled

* Failed allocations, logging, empty pieces (`esi_parser_execute` returns at once).
* `Last-Modified`, cleared with the Content-Length; the hash of commands of the main
  configuration, which nothing looks at.
* That the links of the chain that came in are freed (`ngx_free_chain`, line 437 of the
  module): what nginx does with a freed link is its own.
* What libev makes of a timer that is initialised while it is active.
* The bytes of the responses the load generator collects.
* The tests and the build files, which keep no state of the module.
* nginx, libcurl and libev themselves are external.

## Plan

Done: the parser with its specification and grammar; the tags and the body filter
with their specification; configuration, header filter and subrequests; the load
generator; type correctness, the pointer invariant, nesting, the order of text, both
refinements, the markup of documents of the grammar, the inheritance of settings and
types, the rendering of pages and their includes, the truth of the length, and the
count of requests, proved.

What is left is out of the provers' reach: `Answered` and `Ends`.
