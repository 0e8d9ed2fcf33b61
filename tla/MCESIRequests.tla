--------------------------- MODULE MCESIRequests ---------------------------
(***************************************************************************)
(* ESIRequests with a few pages and the directives of one file.            *)
(***************************************************************************)
EXTENDS ESIRequests

Txt == [kind |-> "text", type |-> "none", src |-> NoSrc]
Start(type) == [kind |-> "start", type |-> type, src |-> NoSrc]
End(type) == [kind |-> "end", type |-> type, src |-> NoSrc]
StartInc(page) == [kind |-> "start", type |-> "include", src |-> page]
Include(page) == [kind |-> "inline", type |-> "include", src |-> page]

\* A page with fragments in it, one page that includes itself, a fragment that
\* is an attempt with a failing include and its except, a style sheet, a page
\* of includes only, a page without a body.
MCPages == {"index", "loop", "attempt", "style", "only", "empty"}

MCPage == [p \in MCPages |->
  CASE p = "index" ->
         [block |-> 3, begins |-> {Html}, length |-> TRUE, fails |-> FALSE,
          tokens |-> <<Txt, Include("attempt"), Txt, StartInc("style"), End("include")>>]
    [] p = "loop" ->
         [block |-> 3, begins |-> {Html}, length |-> FALSE, fails |-> FALSE,
          tokens |-> <<Txt, Include("loop")>>]
    [] p = "attempt" ->
         [block |-> 2, begins |-> {Html}, length |-> TRUE, fails |-> FALSE,
          tokens |-> <<Start("try"), Start("attempt"), Txt, Include("empty"), End("attempt"),
                       Start("except"), Txt, Include("style"), End("except"), Include("style"),
                       End("try"), Txt>>]
    [] p = "style" ->
         [block |-> 3, begins |-> {"text/css"}, length |-> TRUE, fails |-> TRUE,
          tokens |-> <<Start("vars"), Txt, End("vars")>>]
    [] p = "only" ->
         [block |-> 3, begins |-> {Html}, length |-> FALSE, fails |-> FALSE,
          tokens |-> <<StartInc(NoSrc), End("include"), Include("style")>>]
    [] p = "empty" ->
         [block |-> 3, begins |-> {Html}, length |-> TRUE, fails |-> TRUE, tokens |-> <<>>]]

Slot(block, name, value) == [block |-> block, name |-> name, value |-> value]
TypesOf(block, list) == [block |-> block, name |-> "esi_types", types |-> list]

MCDirectives ==
  {Slot(1, "esi", 1), Slot(2, "esi", 0), Slot(3, "esi", 1),
   TypesOf(1, <<"text/css">>), TypesOf(3, <<Html>>), TypesOf(3, <<Html, "text/css">>)}

OneDirective == {Slot(1, "esi", 1)}
=============================================================================
