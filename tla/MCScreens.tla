------------------------------ MODULE MCScreens ------------------------------
(***************************************************************************)
(* Bounded instance of the split screens.  Screens are only compared with   *)
(* each other.                                                              *)
(***************************************************************************)
EXTENDS Screens

Large == [h |-> 6, w |-> 8]
Small == [h |-> 4, w |-> 3]

BothSizes == {Large, Small}
OneSize == {Large}

Steps == {-1, 1, 2}

Symmetry == Permutations(Screen)
=============================================================================
