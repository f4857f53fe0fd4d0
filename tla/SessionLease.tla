------------------------------ MODULE SessionLease ------------------------------
(***************************************************************************)
(* What the hub promises of the tmux sessions: each is one conversation's  *)
(* at a time, a conversation has one session at most, and a session is not *)
(* given to another while the conversation that has it is there, unless    *)
(* there are too many of them.                                             *)
(***************************************************************************)
CONSTANTS Session, Conversation, Nobody

VARIABLES
    holder,    \* the conversation each session is held by
    there,     \* the conversations whose Claude is talking
    crowded    \* no more can be kept

Init == holder = [n \in Session |-> Nobody] /\ there = {} /\ crowded \in BOOLEAN

Given(n) == holder'[n] \notin {holder[n], Nobody}

\* Any number may be left, and one is given to a conversation.
Next ==
    /\ holder' \in [Session -> Conversation \cup {Nobody}]
    /\ \A m, n \in Session : Given(m) /\ Given(n) => m = n
    /\ \A n \in Session : Given(n) => crowded \/ holder[n] \notin there
    /\ \A m, n \in Session : holder'[m] = holder'[n] /\ holder'[n] # Nobody => m = n

Spec == Init /\ [][Next]_<<holder, there, crowded>>
=============================================================================
