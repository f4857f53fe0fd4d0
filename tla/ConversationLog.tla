---------------------------- MODULE ConversationLog ----------------------------
(***************************************************************************)
(* What the log of a conversation promises: at every moment it holds the   *)
(* rows Claude has stored, from the first, in order, each once.  It only   *)
(* grows, until it is given up whole and started again.                    *)
(***************************************************************************)
EXTENDS Naturals, Sequences

VARIABLES
    stored,   \* how many rows Claude has stored
    log       \* the log

Rows(n) == [i \in 1..n |-> i]

Init == stored \in Nat /\ log = <<>>

\* Claude stores a row.
Store == stored' = stored + 1 /\ UNCHANGED log

\* The log takes up some of the rows it does not have.
Show == (\E n \in Len(log)+1..stored : log' = Rows(n)) /\ UNCHANGED stored

\* The log is given up.
Forget == log' = <<>> /\ UNCHANGED stored

Next == Store \/ Show \/ Forget

Spec == Init /\ [][Next]_<<stored, log>>
=============================================================================
