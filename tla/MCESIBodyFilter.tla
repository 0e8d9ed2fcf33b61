-------------------------- MODULE MCESIBodyFilter --------------------------
(***************************************************************************)
(* ESIBodyFilter on every document of a few tokens.                        *)
(***************************************************************************)
EXTENDS ESIBodyFilter

\* Tags whose text is kept and is not, that set ignore_tag, that are requested;
\* one written as a beginning of two names, one of no known name.
MCTagNames ==
  {{"try"}, {"attempt"}, {"except"}, {"vars"}, {"include", "invalidate"}, {}}

\* Fewer of them, for documents in which anything may follow anything.
FewTagNames == {{"try"}, {"except"}, {"vars"}, {"include"}}

=============================================================================
