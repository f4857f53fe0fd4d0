----------------------------- MODULE MCFirstPrompt -----------------------------
(***************************************************************************)
(* Small instances of FirstPrompt: the bounds are in the .cfg files.       *)
(***************************************************************************)
EXTENDS FirstPrompt
=============================================================================
