------------------------------ MODULE FirstPrompt ------------------------------
(***************************************************************************)
(* The lines that start a session, from the New-session composer to the    *)
(* Claude it created: the browser's ladder (first-prompt.ts), the route    *)
(* that runs each request id once (promptonce.go, servePromptViaMod), the  *)
(* command queue of the mod's connection (mod.go send, hello, poll,        *)
(* deliver) and the mod that runs a command once (commands.ts, seen.ts).   *)
(*                                                                         *)
(* The browser's deadline, the hello and ack waits and the mod's awaits    *)
(* may end in any order; requests, poll answers, session-events and the    *)
(* mod's module may be lost.                                               *)
(***************************************************************************)
EXTENDS Naturals, Sequences, FiniteSets, SequencesExt

CONSTANTS
    Lines,         \* how many lines start the session
    Rungs,         \* the attempts of the ladder
    MaxCuts,       \* bound: requests the browser stops waiting for
    MaxPollsLost,  \* bound: poll answers that do not reach the mod
    MaxRehellos,   \* bound: hellos of a mod that has a token
    MaxRefusals,   \* bound: prompts the mod fails to submit, or Claude drops
    MaxReloads,    \* bound: reloads of the mod's module
    MaxRestarts    \* bound: restarts of session-events

ASSUME LineAssumption == Lines \in Nat \ {0} /\ Rungs \in Nat \ {0}
ASSUME BoundAssumption ==
    {MaxCuts, MaxPollsLost, MaxRehellos, MaxRefusals, MaxReloads, MaxRestarts}
        \subseteq Nat

VARIABLES
    \* the browser
    line,          \* the line it is at (sent + 1)
    rung,
    asking,        \* what its request is at
    answer,        \* the status on its way back, 0 for none
    outcome,
    \* session-events
    requests,      \* requests not read yet
    attempts,      \* promptOnce.m, by line: there is one request id per line
    registered,    \* the hub has a connection
    boot, nextID,  \* what a command's id is made of
    cmds, acks, acked, inflight,
    \* the mod
    linked,        \* its token is the connection's
    handed,        \* commands polled and not looked at
    busy,          \* commands whose prompt is about to be submitted
    seen,          \* SeenCommands: <<id, outcome>>
    acksOut,       \* the acks in the mod's event queue: <<id, ok>>
    \* history: the lines Claude was given, the commands it was given them by,
    \* and the commands of attempts answered "not yet"
    given, ran, notYet,
    \* counters of the bounds
    asks, cuts, pollsLost, rehellos, refusals, reloads, restarts

browserVars == <<line, rung, asking, answer, outcome>>
connVars    == <<registered, boot, nextID, cmds, acks, acked, inflight>>
serverVars  == <<requests, attempts, connVars>>
modVars     == <<linked, handed, busy, seen, acksOut>>
ghostVars   == <<given, ran, notYet>>
boundVars   == <<asks, cuts, pollsLost, rehellos, refusals, reloads, restarts>>
vars == <<browserVars, serverVars, modVars, ghostVars, boundVars>>

Line == 1..Lines

\* A request; n tells one from another, waited says the browser still waits.
Request == [line : Line, n : Nat, waited : BOOLEAN]

Id == Nat \X Nat
Command == [id : Id, line : Line]

NoId == <<0, 0>>

\* Of one remembered, status is its answer.
Attempt == [at : {"none", "hello", "sent", "ended"}, id : Id, status : {0, 204, 504}]
NoAttempt == [at |-> "none", id |-> NoId, status |-> 0]

\* Faulty: a command not confirmed counts as "not yet".
ComeBack_504 == {502, 503, 504}

\* comeBack: not there yet, and nothing was sent.
ComeBack == {502, 503}

-----------------------------------------------------------------------------
Init ==
    /\ line = 1 /\ rung = 1 /\ asking = "no" /\ answer = 0 /\ outcome = "going"
    /\ requests = {} /\ attempts = [l \in Line |-> NoAttempt]
    /\ registered = FALSE /\ boot = 0 /\ nextID = 0
    /\ cmds = {} /\ acks = {} /\ acked = {} /\ inflight = {}
    /\ linked = FALSE /\ handed = {} /\ busy = {} /\ seen = {} /\ acksOut = <<>>
    /\ given = <<>> /\ ran = {} /\ notYet = {}
    /\ asks = 0 /\ cuts = 0 /\ pollsLost = 0 /\ rehellos = 0 /\ refusals = 0
    /\ reloads = 0 /\ restarts = 0

-----------------------------------------------------------------------------
(* The browser: deliverFirstPrompt.                                        *)

\* One request with the line's id, on every rung.
Ask ==
    /\ outcome = "going" /\ asking = "no"
    /\ asks' = asks + 1
    /\ requests' = requests \cup {[line |-> line, n |-> asks + 1, waited |-> TRUE]}
    /\ asking' = "sent"
    /\ UNCHANGED <<line, rung, answer, outcome, attempts, connVars, modVars,
                   ghostVars, cuts, pollsLost, rehellos, refusals, reloads, restarts>>

\* Faulty: the next rung begins at the next line.
Later_nextLine ==
    /\ asking' = "no" /\ answer' = 0
    /\ rung' = rung + 1
    /\ outcome' = IF rung = Rungs THEN "gaveUp" ELSE "going"
    /\ line' = IF line < Lines THEN line + 1 ELSE line

\* "Not yet": the next rung, at the line that did not land.
Later ==
    /\ asking' = "no" /\ answer' = 0
    /\ rung' = rung + 1
    /\ outcome' = IF rung = Rungs THEN "gaveUp" ELSE "going"
    /\ UNCHANGED line

\* The deadline passes, or the connection is cut.
Cut ==
    /\ asking # "no" /\ cuts < MaxCuts
    /\ cuts' = cuts + 1
    /\ Later
    /\ requests' = {[r EXCEPT !.waited = FALSE] : r \in requests}
    /\ UNCHANGED <<attempts, connVars, modVars, ghostVars, asks, pollsLost,
                   rehellos, refusals, reloads, restarts>>

\* session-events went away with the request.
RequestDies ==
    /\ asking = "dead"
    /\ Later
    /\ UNCHANGED <<serverVars, modVars, ghostVars, boundVars>>

Answered ==
    /\ answer # 0
    /\ \/ /\ answer = 204
          /\ line' = line + 1
          /\ outcome' = IF line = Lines THEN "sent" ELSE "going"
          /\ asking' = "no" /\ answer' = 0
          /\ UNCHANGED rung
       \/ answer \in ComeBack /\ Later
       \/ /\ answer = 504
          /\ outcome' = "refused" /\ asking' = "no" /\ answer' = 0
          /\ UNCHANGED <<line, rung>>
    /\ UNCHANGED <<serverVars, modVars, ghostVars, boundVars>>

-----------------------------------------------------------------------------
(* The route.                                                              *)

Reply(l, status) ==
    answer' = IF asking = "joined" /\ line = l THEN status ELSE answer

\* Faulty: only attempts still running answer.
Serve_endedHangs(r) ==
    /\ requests' = requests \ {r}
    /\ attempts' = IF attempts[r.line].at = "none"
                   THEN [attempts EXCEPT ![r.line].at = "hello"] ELSE attempts
    /\ asking' = IF r.waited THEN "joined" ELSE asking
    /\ UNCHANGED <<line, rung, answer, outcome, connVars, modVars, ghostVars, boundVars>>

\* promptOnce.do: the attempt of the id is started, joined, or, over, answers.
Serve(r) ==
    /\ requests' = requests \ {r}
    /\ attempts' = IF attempts[r.line].at = "none"
                   THEN [attempts EXCEPT ![r.line].at = "hello"] ELSE attempts
    /\ asking' = IF r.waited THEN "joined" ELSE asking
    /\ answer' = IF r.waited /\ attempts[r.line].at = "ended"
                 THEN attempts[r.line].status ELSE answer
    /\ UNCHANGED <<line, rung, outcome, connVars, modVars, ghostVars, boundVars>>

\* Faulty: a "not yet" is remembered too.
End_remembersAll(l, status) ==
    /\ attempts' = [attempts EXCEPT ![l] =
           [at |-> "ended", id |-> NoId, status |-> status]]
    /\ UNCHANGED notYet
    /\ Reply(l, status)
    /\ UNCHANGED <<line, rung, asking, outcome, given, ran>>

\* An attempt that ends: every request for its id is answered, and only a "not
\* yet" is forgotten.
End(l, status) ==
    /\ attempts' = [attempts EXCEPT ![l] =
           IF status \in ComeBack THEN NoAttempt
           ELSE [at |-> "ended", id |-> NoId, status |-> status]]
    /\ notYet' = IF status \in ComeBack /\ attempts[l].id # NoId
                 THEN notYet \cup {attempts[l].id} ELSE notYet
    /\ Reply(l, status)
    /\ UNCHANGED <<line, rung, asking, outcome, given, ran>>

\* No mod said hello within the wait.
NotReady(l) ==
    /\ attempts[l].at = "hello" /\ ~registered
    /\ End(l, 503)
    /\ UNCHANGED <<requests, connVars, modVars, boundVars>>

\* send: the command is queued, and its ack waited for.
Send(l) ==
    /\ attempts[l].at = "hello" /\ registered
    /\ LET id == <<boot, nextID + 1>> IN
         /\ nextID' = nextID + 1
         /\ cmds' = cmds \cup {[id |-> id, line |-> l]}
         /\ acks' = acks \cup {id}
         /\ attempts' = [attempts EXCEPT ![l].at = "sent", ![l].id = id]
    /\ UNCHANGED <<browserVars, requests, registered, boot, acked, inflight,
                   modVars, ghostVars, boundVars>>

AckRead(l) ==
    /\ attempts[l].at = "sent"
    /\ \E ok \in BOOLEAN :
         /\ <<attempts[l].id, ok>> \in acked
         /\ acked' = acked \ {<<attempts[l].id, ok>>}
         /\ End(l, IF ok THEN 204 ELSE 502)
    /\ UNCHANGED <<requests, registered, boot, nextID, cmds, acks, inflight,
                   modVars, boundVars>>

\* modAckWait passed: the command is forgotten, wherever it is.
AckTimeout(l) ==
    /\ attempts[l].at = "sent"
    /\ LET id == attempts[l].id IN
         /\ acks' = acks \ {id}
         /\ acked' = {a \in acked : a[1] # id}
         /\ inflight' = {c \in inflight : c.id # id}
         /\ cmds' = {c \in cmds : c.id # id}
    /\ End(l, 504)
    /\ UNCHANGED <<requests, registered, boot, nextID, modVars, boundVars>>

\* A restart forgets every attempt, the connection and its commands, and cuts the
\* request it had read.
Restart ==
    /\ restarts < MaxRestarts
    /\ restarts' = restarts + 1
    /\ attempts' = [l \in Line |-> NoAttempt]
    /\ registered' = FALSE /\ boot' = boot + 1 /\ nextID' = 0
    /\ cmds' = {} /\ acks' = {} /\ acked' = {} /\ inflight' = {}
    /\ linked' = FALSE
    /\ asking' = IF asking = "joined" /\ answer = 0 THEN "dead" ELSE asking
    /\ UNCHANGED <<line, rung, answer, outcome, requests, handed, busy, seen, acksOut, ghostVars,
                   asks, cuts, pollsLost, rehellos, refusals, reloads>>

-----------------------------------------------------------------------------
(* The mod's connection.                                                   *)

\* hello: what a route still waits on and no ack came for goes out again. It goes
\* ahead of what was queued since, which is not told apart: the mod begins the
\* commands of a poll without waiting for one another (#pollLoop).
Hello ==
    /\ IF linked THEN rehellos < MaxRehellos /\ rehellos' = rehellos + 1
                 ELSE UNCHANGED rehellos
    /\ registered' = TRUE /\ linked' = TRUE
    /\ cmds' = cmds \cup {c \in inflight : c.id \in acks}
    /\ inflight' = {}
    /\ UNCHANGED <<browserVars, requests, attempts, boot, nextID, acks, acked,
                   handed, busy, seen, acksOut, ghostVars, asks, cuts, pollsLost,
                   refusals, reloads, restarts>>

\* handlePoll: the commands a route still waits on are in the mod's hands.
Poll ==
    /\ linked /\ cmds # {}
    /\ cmds' = {}
    /\ LET out == {c \in cmds : c.id \in acks} IN
         /\ inflight' = inflight \cup out
         /\ \/ handed' = handed \cup out /\ UNCHANGED pollsLost
            \/ pollsLost < MaxPollsLost /\ pollsLost' = pollsLost + 1 /\ UNCHANGED handed
    /\ UNCHANGED <<browserVars, requests, attempts, registered, boot, nextID, acks,
                   acked, linked, busy, seen, acksOut, ghostVars, asks, cuts,
                   rehellos, refusals, reloads, restarts>>

\* deliver: an ack nobody waits for is dropped.
PostAck ==
    /\ linked /\ acksOut # <<>>
    /\ acksOut' = Tail(acksOut)
    /\ LET a == Head(acksOut) IN
         /\ acked' = IF a[1] \in acks THEN acked \cup {a} ELSE acked
         /\ acks' = acks \ {a[1]}
         /\ inflight' = {c \in inflight : c.id # a[1]}
    /\ UNCHANGED <<browserVars, requests, attempts, registered, boot, nextID, cmds,
                   linked, handed, busy, seen, ghostVars, boundVars>>

-----------------------------------------------------------------------------
(* The mod.                                                                *)

\* Faulty: no command is recognised.
Begin_unseen(c) ==
    /\ handed' = handed \ {c}
    /\ busy' = busy \cup {c} /\ seen' = seen \cup {<<c.id, "busy">>}
    /\ UNCHANGED <<acksOut, browserVars, serverVars, linked, ghostVars, boundVars>>

\* Faulty: the ack goes before the submit.
Begin_acksFirst(c) ==
    /\ handed' = handed \ {c}
    /\ busy' = busy \cup {c} /\ seen' = seen \cup {<<c.id, "busy">>}
    /\ acksOut' = Append(acksOut, <<c.id, TRUE>>)
    /\ UNCHANGED <<browserVars, serverVars, linked, ghostVars, boundVars>>

\* runCommand: a command it has seen is acked again, with true while its first
\* run is busy; any other is begun.
Begin(c) ==
    /\ handed' = handed \ {c}
    /\ IF \E o \in {"busy", "ok", "failed"} : <<c.id, o>> \in seen
       THEN /\ acksOut' = Append(acksOut, <<c.id, <<c.id, "failed">> \notin seen>>)
            /\ UNCHANGED <<busy, seen>>
       ELSE /\ busy' = busy \cup {c} /\ seen' = seen \cup {<<c.id, "busy">>}
            /\ UNCHANGED acksOut
    /\ UNCHANGED <<browserVars, serverVars, linked, ghostVars, boundVars>>

Outcome(c, o) ==
    /\ busy' = busy \ {c}
    /\ seen' = (seen \ {<<c.id, "busy">>}) \cup {<<c.id, o>>}
    /\ acksOut' = Append(acksOut, <<c.id, o = "ok">>)

\* $.prompt.submit: Claude is given the prompt, and it is acked.
Submit(c) ==
    /\ Outcome(c, "ok")
    /\ given' = Append(given, c.line) /\ ran' = ran \cup {c.id}
    /\ UNCHANGED <<browserVars, serverVars, linked, handed, notYet, boundVars>>

Refuse(c) ==
    /\ refusals < MaxRefusals
    /\ refusals' = refusals + 1
    /\ Outcome(c, "failed")
    /\ UNCHANGED <<browserVars, serverVars, linked, handed, ghostVars, asks, cuts,
                   pollsLost, rehellos, reloads, restarts>>

\* failed: a prompt acked already that Claude then dropped. No second ack goes.
Dropped(s) ==
    /\ refusals < MaxRefusals
    /\ refusals' = refusals + 1
    /\ s[2] = "ok"
    /\ seen' = (seen \ {s}) \cup {<<s[1], "failed">>}
    /\ UNCHANGED <<browserVars, serverVars, linked, handed, busy, acksOut, ghostVars,
                   asks, cuts, pollsLost, rehellos, reloads, restarts>>

\* The module is loaded anew.
Reload ==
    /\ reloads < MaxReloads
    /\ reloads' = reloads + 1
    /\ linked' = FALSE /\ handed' = {} /\ busy' = {} /\ seen' = {} /\ acksOut' = <<>>
    /\ UNCHANGED <<browserVars, serverVars, ghostVars, asks, cuts, pollsLost,
                   rehellos, refusals, restarts>>

-----------------------------------------------------------------------------
Browser == Ask \/ Cut \/ RequestDies \/ Answered

Service ==
    \/ \E r \in requests : Serve(r)
    \/ \E l \in Line : NotReady(l) \/ Send(l) \/ AckRead(l) \/ AckTimeout(l)

Mod ==
    \/ Hello \/ Poll
    \/ PostAck
    \/ \E c \in handed : Begin(c)
    \/ \E c \in busy : Submit(c) \/ Refuse(c)
    \/ \E s \in seen : Dropped(s)

Next == Browser \/ Service \/ Mod \/ Restart \/ Reload

Spec == Init /\ [][Next]_vars

\* The route reads requests, its waits end, and the browser acts on an answer and
\* climbs its ladder. Nothing is asked of the mod.
Fairness ==
    /\ WF_vars(Ask) /\ WF_vars(Answered) /\ WF_vars(RequestDies)
    /\ WF_vars(\E r \in requests : Serve(r))
    /\ \A l \in Line : /\ WF_vars(NotReady(l) \/ Send(l))
                       /\ WF_vars(AckRead(l) \/ AckTimeout(l))

FairSpec == Spec /\ Fairness

-----------------------------------------------------------------------------
(* Properties.                                                             *)

BrowserType ==
    /\ line \in 1..Lines + 1 /\ rung \in 1..Rungs + 1
    /\ asking \in {"no", "sent", "joined", "dead"} /\ answer \in {0, 204, 502, 503, 504}
    /\ outcome \in {"going", "sent", "refused", "gaveUp"}
ServerType ==
    /\ requests \subseteq Request
    /\ attempts \in [Line -> Attempt]
    /\ registered \in BOOLEAN /\ boot \in Nat /\ nextID \in Nat
    /\ cmds \subseteq Command /\ acks \subseteq Id /\ acked \subseteq Id \X BOOLEAN
    /\ inflight \subseteq Command
ModType ==
    /\ linked \in BOOLEAN /\ handed \subseteq Command /\ busy \subseteq Command
    /\ seen \subseteq Id \X {"busy", "ok", "failed"} /\ acksOut \in Seq(Id \X BOOLEAN)
GhostType == given \in Seq(Line) /\ ran \subseteq Id /\ notYet \subseteq Id
BoundType ==
    {asks, cuts, pollsLost, rehellos, refusals, reloads, restarts} \subseteq Nat

\* The variables keep their types; an attempt remembered with an answer has one
\* that is not "not yet" (promptOnce.do).
TypeOK == BrowserType /\ ServerType /\ ModType /\ GhostType /\ BoundType

\* Neither side has forgotten what it did: session-events keeps its attempts in
\* memory, the mod the commands it has seen.
Remembered == reloads = 0 /\ restarts = 0

EachOnce == IsInjective(given)

\* Claude is given each line at most once, however many times it was asked for
\* and sent again (promptonce.go, seen.ts).
SentOnce == Remembered => EachOnce

\* Claude is given the lines in their order: a line is asked for when the one
\* before it was accepted (deliverFirstPrompt). A repeated hello is excepted: it may
\* bring a command again, which is acked before its first run submits.
LinesInOrder ==
    Remembered /\ rehellos = 0 => \A i, j \in DOMAIN given : i < j => given[i] <= given[j]

\* A line the browser takes for accepted was given to Claude, whatever either side
\* has forgotten since (deliverFirstPrompt, promptOnce.do); a repeated hello is
\* excepted here too.
AcceptedArrives == rehellos = 0 => 1..line - 1 \subseteq ToSet(given)

\* An attempt answered "not yet" has sent nothing, and never will: that is why
\* it may be forgotten (comeBack).
NotYetSentNothing == Remembered => notYet \cap ran = {}

\* Whatever the mod does, the composer hears how the delivery ended: every request
\* is answered by the attempt it joined (promptOnce.do).
Settles == <>(outcome # "going")
=============================================================================
