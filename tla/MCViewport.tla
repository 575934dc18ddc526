----------------------------- MODULE MCViewport -----------------------------
(***************************************************************************)
(* Bounded instance of the viewport: texts with lines of one, two and three  *)
(* rows, tabs and wide characters.                                          *)
(***************************************************************************)
EXTENDS Viewport

Wrapped == <<"a", "\t", "b", "W", "c">>
MixedTexts ==
  {<<Wrapped, <<" ", "b", "c">>, <<>>, Wrapped>>}
SmallSizes == {<<3, 5>>, <<4, 4>>}
=============================================================================
