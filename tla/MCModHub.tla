-------------------------------- MODULE MCModHub --------------------------------
(***************************************************************************)
(* Small instances of ModHub.  Conversations, panes, sessions and prompts  *)
(* are interchangeable; no symmetry where liveness is checked.             *)
(***************************************************************************)
EXTENDS ModHub, TLC

CONSTANTS c1, c2, c3, x1, x2, s1, s2, one, other

Symmetry ==
    Permutations(Sid) \cup Permutations(Pane) \cup Permutations(Session)
    \cup Permutations(Prompt)

\* Ends, Stops and restarts together: any while one prompt was held, two once both
\* were.  A rename only while nothing was held and the service did not restart.
Troubles ==
    /\ Cardinality(sent) = 2 => ends + stops + restarts <= 2
    /\ renames = 1 => sent = {} /\ restarts = 0
=============================================================================
