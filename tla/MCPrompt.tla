------------------------------ MODULE MCPrompt ------------------------------
(***************************************************************************)
(* Instance of Prompt alone for TLC.                                       *)
(***************************************************************************)
EXTENDS Prompt

ShortPrompts == UNION {[1 .. n -> Pieces] : n \in 0 .. 2}
=============================================================================
