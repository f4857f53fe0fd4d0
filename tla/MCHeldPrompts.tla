----------------------------- MODULE MCHeldPrompts -----------------------------
(* HeldPrompts on small sets of prompts, for TLC.  The prompts are         *)
(* interchangeable but for the slash commands.                             *)
EXTENDS HeldPrompts, TLC

CONSTANTS p1, p2, p3

Symmetry == Permutations(Prompt \ Slash)
=============================================================================
