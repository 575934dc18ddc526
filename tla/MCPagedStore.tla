---------------------------- MODULE MCPagedStore ----------------------------
(***************************************************************************)
(* Bounded instance of the paged store: small files, a short stride, a      *)
(* block shorter than a line, a cache of a few characters.                  *)
(***************************************************************************)
EXTENDS PagedStore

CONSTANTS
  MaxSteps,   \* lines written and lines held by the cache, together
  MaxLength   \* longest file that still grows

\* Three lines, of which one is empty, one longer than a block and than the
\* cache, and the last has no newline; two lines that may grow; no lines.
SmallFiles ==
  { <<NL, "b", "c", "d", "d", NL, "e">>,
    <<"a", NL, "b", "c", NL>>,
    <<>> }

NewLines == {<<"x">>}

LineNumbers == 0..4

\* Many edits with few reads, or few edits with many reads.
Bounds ==
  /\ Len(add) + Cardinality(DOMAIN orig.cache.m) <= MaxSteps
  /\ Len(file) <= MaxLength
=============================================================================
