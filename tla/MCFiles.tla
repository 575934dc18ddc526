------------------------------- MODULE MCFiles -------------------------------
(***************************************************************************)
(* Bounded instance of the sessions.                                        *)
(***************************************************************************)
EXTENDS Files

CONSTANTS a, b      \* two files

OneFile == <<a>>
TwoFiles == <<a, b>>

AnyDisk == [File -> Text \cup {Missing}]
FullDisk == [File -> Text]
=============================================================================
