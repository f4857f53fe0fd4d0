-------------------------- MODULE FirstPromptProofs --------------------------
(* Theorems about FirstPrompt, for any number of lines and rungs and every *)
(* bound: types; a line is given to Claude once, and a "not yet" never sends,*)
(* as long as neither side forgets (no reload, no restart); while the mod  *)
(* has said hello once to each session-events, a line the browser takes for*)
(* accepted was given to Claude, whatever forgot since; and until either   *)
(* forgets, Claude is given the lines in order.                            *)
EXTENDS FirstPrompt, TLAPS

USE DEF browserVars, connVars, serverVars, modVars, ghostVars, boundVars

-----------------------------------------------------------------------------
(* Types.                                                                  *)

\* What the types of the browser's variables rest on: it asks only while it is
\* going, below the ends of lines and ladder, and one request at a time.
Asking ==
    /\ outcome = "going" => line \in Line /\ rung \in 1..Rungs
    /\ asking # "no" => outcome = "going"
    /\ answer # 0 => asking = "joined"
    /\ \A r \in requests : r.waited => asking = "sent"
    /\ \A r, s \in requests : r.waited /\ s.waited => r = s

TypeInv == TypeOK /\ Asking

\* They hold at the start.
LEMMA InitType == Init => TypeInv
<1> SUFFICES ASSUME Init
             PROVE  TypeInv
  OBVIOUS
<1> USE LineAssumption DEF Init, Line
<1>1. BrowserType
  BY DEF BrowserType
<1>2. ServerType
  BY DEF ServerType, Attempt, NoAttempt, NoId, Id
<1>3. ModType /\ GhostType
  <2>1. <<>> \in Seq(Id \X BOOLEAN) /\ <<>> \in Seq(Line)
    OBVIOUS
  <2> QED
    BY <2>1 DEF ModType, GhostType
<1>4. BoundType /\ Asking
  BY DEF BoundType, Asking
<1> QED
  BY <1>1, <1>2, <1>3, <1>4 DEF TypeInv, TypeOK

\* What the route does to an attempt that ends.
LEMMA EndType ==
    ASSUME TypeInv, NEW l \in Line, NEW status \in {204, 502, 503, 504}, End(l, status),
           UNCHANGED requests
    PROVE  /\ BrowserType' /\ Asking' /\ GhostType'
           /\ attempts' \in [Line -> Attempt]
  <1> USE DEF TypeInv, TypeOK, End
  <1>1. /\ answer' \in {0, 204, 502, 503, 504}
        /\ answer' # 0 => asking = "joined"
    BY DEF Reply, BrowserType, Asking
  <1>2. BrowserType' /\ Asking'
    BY <1>1 DEF BrowserType, Asking
  <1>3. notYet' \subseteq Id
    BY DEF GhostType, ServerType, Attempt
  <1>4. GhostType'
    BY <1>3 DEF GhostType
  <1>5. CASE status \in ComeBack
    BY <1>2, <1>4, <1>5 DEF ServerType, Attempt, NoAttempt, NoId, Id
  <1>6. CASE status \notin ComeBack
    <2>1. status \in {204, 504}
      BY <1>6 DEF ComeBack
    <2> QED
      BY <1>2, <1>4, <1>6, <2>1 DEF ServerType, Attempt, NoId, Id
  <1> QED
    BY <1>5, <1>6

\* What the mod does with a command that is done.
LEMMA OutcomeType ==
    ASSUME ModType, NEW c \in busy, NEW o \in {"ok", "failed"}, c.id \in Id, Outcome(c, o),
           UNCHANGED <<linked, handed>>
    PROVE  ModType'
  <1> DEFINE a == <<c.id, o = "ok">>
  <1>1. a \in Id \X BOOLEAN /\ acksOut' = Append(acksOut, a)
    BY DEF Outcome
  <1> HIDE DEF a
  <1>2. acksOut' \in Seq(Id \X BOOLEAN)
    BY <1>1 DEF ModType
  <1>3. seen' \subseteq Id \X {"busy", "ok", "failed"}
    BY DEF Outcome, ModType
  <1> QED
    BY <1>2, <1>3 DEF Outcome, ModType

\* An attempt that is sent.
LEMMA SentType ==
    ASSUME NEW x \in Attempt, NEW i \in Id
    PROVE  [x EXCEPT !.at = "sent", !.id = i] \in Attempt
  BY ZenonT(30) DEF Attempt

\* The next rung.
LEMMA LaterType ==
    ASSUME BrowserType, Asking, asking # "no", Later
    PROVE  BrowserType' /\ (outcome' = "going" => line' \in Line /\ rung' \in 1..Rungs)
  <1>1. line \in Line /\ rung \in 1..Rungs
    BY DEF Asking
  <1>2. rung' \in 1..Rungs + 1 /\ (rung # Rungs => rung' \in 1..Rungs)
    BY <1>1, LineAssumption DEF Later
  <1> QED
    BY <1>1, <1>2, LineAssumption DEF BrowserType, Later

-----------------------------------------------------------------------------
\* Every step keeps the types.
LEMMA StepType == TypeInv /\ [Next]_vars => TypeInv'
<1> SUFFICES ASSUME TypeInv, [Next]_vars
             PROVE  TypeInv'
  OBVIOUS
<1> USE DEF TypeInv, TypeOK
<1>1. CASE Ask
  <2>1. BoundType'
    BY <1>1 DEF Ask, BoundType
  <2> DEFINE r == [line |-> line, n |-> asks + 1, waited |-> TRUE]
  <2>2. r \in Request /\ requests' = requests \cup {r}
    BY <1>1 DEF Ask, Asking, BoundType, Request
  <2> HIDE DEF r
  <2>3. ServerType'
    BY <1>1, <2>2 DEF Ask, ServerType
  <2>4. ModType' /\ GhostType'
    BY <1>1 DEF Ask, ModType, GhostType
  <2>5. BrowserType' /\ Asking'
    BY ZenonT(30), <1>1 DEF Ask, BrowserType, Asking
  <2> QED
    BY <2>1, <2>3, <2>4, <2>5
<1>2. CASE Cut
  <2>1. BoundType' /\ ModType' /\ GhostType'
    BY <1>2 DEF Cut, BoundType, ModType, GhostType
  <2>2. \A r \in requests' : r \in Request /\ ~r.waited
    <3>1. \A r \in Request : LET q == [r EXCEPT !.waited = FALSE]
                            IN  q \in Request /\ ~q.waited
      BY DEF Request
    <3>2. requests' = {[r EXCEPT !.waited = FALSE] : r \in requests}
      BY <1>2 DEF Cut
    <3>3. ASSUME NEW r \in requests'
          PROVE  r \in Request /\ ~r.waited
      <4>1. PICK q \in requests : r = [q EXCEPT !.waited = FALSE]
        BY <3>2
      <4>2. q \in Request
        BY DEF ServerType
      <4> QED
        BY <3>1, <4>1, <4>2
    <3> QED
      BY <3>3
  <2>3. ServerType'
    BY <1>2, <2>2 DEF Cut, ServerType
  <2>4. BrowserType' /\ (outcome' = "going" => line' \in Line /\ rung' \in 1..Rungs)
    BY <1>2, LaterType DEF Cut
  <2>5. Asking'
    BY <1>2, <2>2, <2>4 DEF Cut, Later, Asking
  <2> QED
    BY <2>1, <2>3, <2>4, <2>5
<1>3. CASE RequestDies
  <2>1. BoundType' /\ ModType' /\ GhostType' /\ ServerType'
    BY <1>3 DEF RequestDies, BoundType, ModType, GhostType, ServerType
  <2>2. BrowserType' /\ (outcome' = "going" => line' \in Line /\ rung' \in 1..Rungs)
    BY <1>3, LaterType DEF RequestDies
  <2>3. Asking'
    BY <1>3, <2>2 DEF RequestDies, Later, Asking
  <2> QED
    BY <2>1, <2>2, <2>3
<1>4. CASE Answered
  <2>1. BoundType' /\ ModType' /\ GhostType' /\ ServerType'
    BY <1>4 DEF Answered, BoundType, ModType, GhostType, ServerType
  <2>2. asking = "joined" /\ line \in Line /\ rung \in 1..Rungs /\ UNCHANGED requests
    BY <1>4 DEF Answered, Asking
  <2>3. BrowserType' /\ (outcome' = "going" => line' \in Line /\ rung' \in 1..Rungs)
    <3>1. CASE Later
      BY <2>2, <3>1, LaterType
    <3>2. CASE answer = 204 /\ line' = line + 1 /\ UNCHANGED rung /\ asking' = "no"
               /\ answer' = 0 /\ outcome' = IF line = Lines THEN "sent" ELSE "going"
      BY <2>2, <3>2, LineAssumption DEF BrowserType, Line
    <3>3. CASE outcome' = "refused" /\ asking' = "no" /\ answer' = 0 /\ UNCHANGED <<line, rung>>
      BY <2>2, <3>3 DEF BrowserType
    <3> QED
      BY <1>4, <3>1, <3>2, <3>3 DEF Answered
  <2>4. Asking'
    <3>1. asking' = "no" /\ answer' = 0
      BY <1>4 DEF Answered, Later
    <3> QED
      BY <2>2, <2>3, <3>1 DEF Asking
  <2> QED
    BY <2>1, <2>3, <2>4
<1>5. ASSUME NEW r \in requests, Serve(r)
      PROVE  TypeInv'
  <2>1. BoundType' /\ ModType' /\ GhostType'
    BY <1>5 DEF Serve, BoundType, ModType, GhostType
  <2>2. r.line \in Line /\ r.waited \in BOOLEAN
    BY DEF ServerType, Request
  <2>3. attempts' \in [Line -> Attempt]
    BY <1>5, <2>2 DEF Serve, ServerType, Attempt
  <2>4. ServerType'
    BY <1>5, <2>3 DEF Serve, ServerType
  <2>5. attempts[r.line].status \in {0, 204, 504}
    BY <2>2 DEF ServerType, Attempt
  <2>6. answer' \in {0, 204, 502, 503, 504} /\ asking' \in {"no", "sent", "joined", "dead"}
    BY <1>5, <2>5 DEF Serve, BrowserType
  <2>7. BrowserType'
    BY <1>5, <2>6 DEF Serve, BrowserType
  <2>8. Asking'
    <3>1. CASE r.waited
      BY <1>5, <3>1 DEF Serve, Asking
    <3>2. CASE ~r.waited
      BY <1>5, <3>2 DEF Serve, Asking
    <3> QED
      BY <3>1, <3>2
  <2> QED
    BY <2>1, <2>4, <2>7, <2>8
<1>6. ASSUME NEW l \in Line, NotReady(l)
      PROVE  TypeInv'
  <2>1. BrowserType' /\ Asking' /\ GhostType'
        /\ attempts' \in [Line -> Attempt]
    BY <1>6, EndType DEF NotReady
  <2> QED
    BY <1>6, <2>1 DEF NotReady, ServerType, ModType, BoundType
<1>7. ASSUME NEW l \in Line, Send(l)
      PROVE  TypeInv'
  <2>1. BoundType' /\ ModType' /\ GhostType' /\ BrowserType' /\ Asking'
    BY <1>7 DEF Send, BoundType, ModType, GhostType, BrowserType, Asking
  <2> DEFINE id == <<boot, nextID + 1>>
  <2>2. id \in Id /\ nextID' \in Nat /\ [id |-> id, line |-> l] \in Command
    BY <1>7 DEF Send, Id, Command, ServerType
  <2>3. /\ cmds' = cmds \cup {[id |-> id, line |-> l]} /\ acks' = acks \cup {id}
        /\ attempts' = [attempts EXCEPT ![l].at = "sent", ![l].id = id]
        /\ UNCHANGED <<requests, registered, boot, acked, inflight>>
    BY <1>7 DEF Send
  <2> HIDE DEF id
  <2>4. attempts' \in [Line -> Attempt]
    <3>1. attempts' = [attempts EXCEPT ![l] = [attempts[l] EXCEPT !.at = "sent", !.id = id]]
      BY <2>3 DEF ServerType
    <3>2. attempts \in [Line -> Attempt] /\ attempts[l] \in Attempt
      BY DEF ServerType
    <3> DEFINE x == attempts[l]
    <3>3. x \in Attempt
      BY <3>2
    <3>4. attempts' = [attempts EXCEPT ![l] = [x EXCEPT !.at = "sent", !.id = id]]
      BY <3>1
    <3> HIDE DEF x
    <3>5. [x EXCEPT !.at = "sent", !.id = id] \in Attempt
      BY <2>2, <3>3, SentType
    <3> DEFINE y == [x EXCEPT !.at = "sent", !.id = id]
    <3>6. y \in Attempt /\ attempts' = [attempts EXCEPT ![l] = y]
      BY <3>4, <3>5
    <3> HIDE DEF y
    <3> QED
      BY <3>2, <3>6
  <2> QED
    BY <2>1, <2>2, <2>3, <2>4 DEF ServerType
<1>8. ASSUME NEW l \in Line, AckRead(l)
      PROVE  TypeInv'
  <2>1. PICK ok \in BOOLEAN : /\ acked' = acked \ {<<attempts[l].id, ok>>}
                             /\ End(l, IF ok THEN 204 ELSE 502)
    BY <1>8 DEF AckRead
  <2>2. BrowserType' /\ Asking' /\ GhostType'
        /\ attempts' \in [Line -> Attempt]
    BY <1>8, <2>1, EndType DEF AckRead
  <2> QED
    BY <1>8, <2>1, <2>2 DEF AckRead, ServerType, ModType, BoundType
<1>9. ASSUME NEW l \in Line, AckTimeout(l)
      PROVE  TypeInv'
  <2>1. BrowserType' /\ Asking' /\ GhostType'
        /\ attempts' \in [Line -> Attempt]
    BY <1>9, EndType DEF AckTimeout
  <2> QED
    BY <1>9, <2>1 DEF AckTimeout, ServerType, ModType, BoundType
<1>10. CASE Restart
  <2>1. ServerType'
    <3>1. attempts' \in [Line -> Attempt]
      BY <1>10 DEF Restart, Attempt, NoAttempt, NoId, Id
    <3>2. registered' \in BOOLEAN
      BY <1>10 DEF Restart
    <3>3. requests' \subseteq Request /\ boot' \in Nat /\ nextID' \in Nat
      BY <1>10 DEF Restart, ServerType
    <3>4. /\ cmds' \subseteq Command /\ acks' \subseteq Id /\ acked' \subseteq Id \X BOOLEAN
          /\ inflight' \subseteq Command
      BY <1>10 DEF Restart
    <3> QED
      BY <3>1, <3>2, <3>3, <3>4 DEF ServerType
  <2>2. ModType' /\ GhostType'
    BY <1>10 DEF Restart, ModType, GhostType
  <2>3. BrowserType'
    BY <1>10 DEF Restart, BrowserType
  <2>4. Asking'
    BY <1>10 DEF Restart, Asking
  <2>5. BoundType'
    BY <1>10 DEF Restart, BoundType
  <2> QED
    BY <2>1, <2>2, <2>3, <2>4, <2>5
<1>11. CASE Hello
  <2>1. ServerType' /\ ModType' /\ GhostType'
    BY <1>11 DEF Hello, ServerType, ModType, GhostType
  <2>2. BoundType'
    BY <1>11 DEF Hello, BoundType
  <2>3. BrowserType' /\ Asking'
    BY <1>11 DEF Hello, BrowserType, Asking
  <2> QED
    BY <2>1, <2>2, <2>3
<1>12. CASE Poll
  <2>1. ServerType' /\ GhostType'
    BY <1>12 DEF Poll, ServerType, GhostType
  <2>2. ModType'
    BY <1>12 DEF Poll, ModType, ServerType
  <2>3. BoundType'
    BY <1>12 DEF Poll, BoundType
  <2>4. BrowserType' /\ Asking'
    BY <1>12 DEF Poll, BrowserType, Asking
  <2> QED
    BY <2>1, <2>2, <2>3, <2>4
<1>13. CASE PostAck
  <2>1. Head(acksOut) \in Id \X BOOLEAN /\ Tail(acksOut) \in Seq(Id \X BOOLEAN)
    BY <1>13 DEF PostAck, ModType
  <2>2. ModType' /\ ServerType'
    BY <1>13, <2>1 DEF PostAck, ModType, ServerType
  <2>3. BrowserType' /\ Asking' /\ GhostType' /\ BoundType'
    BY <1>13 DEF PostAck, BrowserType, Asking, GhostType, BoundType
  <2> QED
    BY <2>2, <2>3
<1>14. ASSUME NEW c \in handed, Begin(c)
       PROVE  TypeInv'
  <2>1. c.id \in Id
    BY DEF ModType, Command
  <2>2. acksOut' \in Seq(Id \X BOOLEAN)
    <3>1. <<c.id, <<c.id, "failed">> \notin seen>> \in Id \X BOOLEAN
      BY <2>1
    <3> DEFINE a == <<c.id, <<c.id, "failed">> \notin seen>>
    <3>2. acksOut' = acksOut \/ acksOut' = Append(acksOut, a)
      BY <1>14 DEF Begin
    <3> HIDE DEF a
    <3>3. a \in Id \X BOOLEAN
      BY <3>1 DEF a
    <3> QED
      BY <3>2, <3>3 DEF ModType
  <2>3. ModType'
    BY <1>14, <2>1, <2>2 DEF Begin, ModType
  <2>4. BrowserType' /\ Asking' /\ GhostType' /\ BoundType' /\ ServerType'
    BY SMTT(20), <1>14 DEF Begin, BrowserType, Asking, GhostType, BoundType, ServerType
  <2> QED
    BY <2>3, <2>4
<1>15. ASSUME NEW c \in busy, Submit(c)
       PROVE  TypeInv'
  <2>1. c.id \in Id /\ c.line \in Line
    BY DEF ModType, Command
  <2>2. ModType'
    BY <1>15, <2>1, OutcomeType DEF Submit
  <2>3. GhostType'
    BY <1>15, <2>1 DEF Submit, GhostType
  <2>4. BrowserType' /\ Asking' /\ BoundType' /\ ServerType'
    BY <1>15 DEF Submit, BrowserType, Asking, BoundType, ServerType
  <2> QED
    BY <2>2, <2>3, <2>4
<1>16. ASSUME NEW c \in busy, Refuse(c)
       PROVE  TypeInv'
  <2>1. c.id \in Id
    BY DEF ModType, Command
  <2>2. ModType'
    BY <1>16, <2>1, OutcomeType DEF Refuse
  <2>3. BrowserType' /\ Asking' /\ BoundType' /\ ServerType' /\ GhostType'
    BY <1>16 DEF Refuse, BrowserType, Asking, BoundType, ServerType, GhostType
  <2> QED
    BY <2>2, <2>3
<1>17. ASSUME NEW s \in seen, Dropped(s)
       PROVE  TypeInv'
  <2>1. s[1] \in Id
    BY DEF ModType
  <2>2. ModType'
    BY <1>17, <2>1 DEF Dropped, ModType
  <2>3. BrowserType' /\ Asking' /\ BoundType' /\ ServerType' /\ GhostType'
    BY SMTT(20), <1>17 DEF Dropped, BrowserType, Asking, BoundType, ServerType, GhostType
  <2> QED
    BY <2>2, <2>3
<1>18. CASE Reload
  <2>1. ModType'
    <3>1. <<>> \in Seq(Id \X BOOLEAN)
      OBVIOUS
    <3> QED
      BY <1>18, <3>1 DEF Reload, ModType
  <2>2. BrowserType' /\ Asking' /\ BoundType' /\ ServerType' /\ GhostType'
    BY SMTT(20), <1>18 DEF Reload, BrowserType, Asking, BoundType, ServerType, GhostType
  <2> QED
    BY <2>1, <2>2
<1>19. CASE UNCHANGED vars
  BY <1>19 DEF vars, BrowserType, Asking, ServerType, ModType, GhostType, BoundType
<1> QED
  BY <1>1, <1>2, <1>3, <1>4, <1>5, <1>6, <1>7, <1>8, <1>9, <1>10, <1>11, <1>12, <1>13,
     <1>14, <1>15, <1>16, <1>17, <1>18, <1>19 DEF Next, Browser, Service, Mod

\* Every variable keeps its type, whatever is lost, repeated or forgotten on the
\* way (deliverFirstPrompt, promptOnce, mod.go, commands.ts).
THEOREM TypeCorrect == Spec => []TypeOK
<1>1. TypeInv => TypeOK
  BY DEF TypeInv
<1> QED
  BY <1>1, InitType, StepType, PTL DEF Spec

-----------------------------------------------------------------------------
(* Sent once: the inductive invariant.                                     *)

\* The commands the mod has not looked at, and those that may still submit.
Waiting == cmds \cup inflight \cup handed
InPlay == Waiting \cup busy

Seen(id) == \E o \in {"busy", "ok", "failed"} : <<id, o>> \in seen
Live(c) == c \in busy \/ (c \in Waiting /\ ~Seen(c.id))

\* The command failed before Claude was given anything.
Refused(id) == <<id, "failed">> \in seen /\ id \notin ran

\* Every id in use was made by this process, and names one command.
Made(id) == id[1] = boot /\ id[2] \in 1..nextID
IdInv ==
    /\ \A c \in InPlay : Made(c.id)
    /\ \A id \in acks \cup ran : Made(id)
    /\ \A s \in seen : Made(s[1])
    /\ \A c, d \in InPlay : c.id = d.id => c = d

\* SeenCommands has one outcome of a command, which says where it is.
SeenInv ==
    /\ \A s, t \in seen : s[1] = t[1] => s = t
    /\ \A c \in busy : <<c.id, "busy">> \in seen
    /\ \A id \in ran : <<id, "ok">> \in seen \/ <<id, "failed">> \in seen

\* Of a command that was given, while its ack is waited for, an ack that says so
\* is queued, ahead of any that says it failed: the refusals that reach the route
\* are of commands that never ran.
Confirms(j, id) == acksOut[j][1] = id /\ acksOut[j][2]
AckInv ==
    /\ \A i \in DOMAIN acksOut : ~acksOut[i][2] => <<acksOut[i][1], "failed">> \in seen
    /\ \A i \in DOMAIN acksOut : ~acksOut[i][2] /\ acksOut[i][1] \in ran \cap acks =>
          \E j \in 1..i - 1 : Confirms(j, acksOut[i][1])
    /\ \A id \in ran \cap acks : \E j \in DOMAIN acksOut : Confirms(j, id)
    /\ \A a \in acked : ~a[2] => Refused(a[1])

\* At most one command can give Claude a line, and none once it was given; while no
\* attempt has sent its command, none can.
Unsent == {"none", "hello"}
LineInv ==
    /\ \A c, d \in InPlay : Live(c) /\ Live(d) /\ c.line = d.line => c = d
    /\ \A c \in InPlay : Live(c) => c.line \notin ToSet(given)
    /\ \A l \in Line : attempts[l].at \in Unsent => l \notin ToSet(given)
    /\ \A l \in Line, c \in InPlay : attempts[l].at \in Unsent /\ Live(c) => c.line # l
    /\ \A l \in Line, c \in InPlay : attempts[l].at = "sent" /\ Live(c) /\ c.line = l =>
          c.id = attempts[l].id
    /\ \A l \in Line : attempts[l].at = "sent" /\ l \in ToSet(given) => attempts[l].id \in ran

\* What was answered "not yet" failed, and an attempt has an id once it sent.
NotYetInv ==
    /\ \A id \in notYet : Refused(id)
    /\ \A l \in Line : attempts[l].at \in Unsent => attempts[l].id = NoId

OnceInv == IdInv /\ SeenInv /\ AckInv /\ LineInv /\ NotYetInv /\ EachOnce

Inv == TypeInv /\ (reloads = 0 /\ restarts = 0 => OnceInv)

-----------------------------------------------------------------------------
(* What keeps each part.                                                   *)

\* No command but those in play.
LEMMA IdKept ==
    ASSUME IdInv, InPlay' \subseteq InPlay, UNCHANGED <<boot, nextID>>,
           \A id \in acks' \cup ran' : Made(id), \A s \in seen' : Made(s[1])
    PROVE  IdInv'
  BY DEF IdInv, Made

\* No new ack is waited for, and no new ack was sent.
LEMMA AckKept ==
    ASSUME AckInv, UNCHANGED <<acksOut, ran>>, acked' \subseteq acked,
           ran \cap acks' \subseteq acks,
           \A id : <<id, "failed">> \in seen => <<id, "failed">> \in seen'
    PROVE  AckInv'
  BY DEF AckInv, Confirms, Refused

\* One more ack: of a failure that is recorded, or of a submit that never failed.
LEMMA AckAdded ==
    ASSUME TypeInv, AckInv, UNCHANGED <<acks, acked>>, NEW id \in Id, NEW ok \in BOOLEAN,
           acksOut' = Append(acksOut, <<id, ok>>),
           \A i : <<i, "failed">> \in seen => <<i, "failed">> \in seen',
           \/ ran' = ran
           \/ ran' = ran \cup {id} /\ ok /\ <<id, "failed">> \notin seen,
           ~ok => <<id, "failed">> \in seen' /\ (id \in ran \cap acks =>
                      \E j \in DOMAIN acksOut : Confirms(j, id))
    PROVE  AckInv'
  <1> USE DEF AckInv, Confirms
  <1>1. acksOut \in Seq(Id \X BOOLEAN)
    BY DEF TypeInv, TypeOK, ModType
  <1>2. /\ DOMAIN acksOut = 1..Len(acksOut) /\ Len(acksOut) \in Nat
        /\ DOMAIN acksOut' = 1..Len(acksOut) + 1
        /\ acksOut'[Len(acksOut) + 1] = <<id, ok>>
        /\ \A i \in DOMAIN acksOut : acksOut'[i] = acksOut[i]
    BY <1>1
  <1>3. \A i \in DOMAIN acksOut' : ~acksOut'[i][2] => <<acksOut'[i][1], "failed">> \in seen'
    BY SMTT(20), <1>2
  <1>4. ASSUME NEW i \in DOMAIN acksOut', ~acksOut'[i][2], acksOut'[i][1] \in ran' \cap acks'
        PROVE  \E j \in 1..i - 1 : Confirms(j, acksOut[i][1])'
    <2>1. CASE i \in DOMAIN acksOut
      <3>1. ~acksOut[i][2] /\ acksOut[i][1] \in ran \cap acks
        BY <1>2, <1>4, <2>1
      <3>2. PICK j \in 1..i - 1 : Confirms(j, acksOut[i][1])
        BY <2>1, <3>1
      <3>3. j \in DOMAIN acksOut
        BY <1>2, <2>1
      <3> QED
        BY <1>2, <2>1, <3>2, <3>3
    <2>2. CASE i = Len(acksOut) + 1
      <3>1. ~ok /\ id \in ran \cap acks
        BY <1>2, <1>4, <2>2
      <3>2. PICK j \in DOMAIN acksOut : Confirms(j, id)
        BY <3>1
      <3> QED
        BY <1>2, <2>2, <3>2
    <2> QED
      BY <1>2, <2>1, <2>2
  <1>5. ASSUME NEW i \in ran' \cap acks'
        PROVE  \E j \in DOMAIN acksOut' : Confirms(j, i)'
    <2>1. CASE i \in ran
      BY <1>2, <2>1
    <2>2. CASE i \notin ran
      <3>1. i = id /\ ok
        BY <2>2
      <3> QED
        BY <1>2, <3>1
    <2> QED
      BY <2>1, <2>2
  <1>6. \A a \in acked' : ~a[2] => Refused(a[1])'
    BY DEF Refused
  <1> QED
    BY <1>3, <1>4, <1>5, <1>6

\* No new command may submit, and an attempt is forgotten only as long as nothing
\* was sent, or after a refusal.
LEMMA LineKept ==
    ASSUME LineInv, SeenInv, UNCHANGED given, ran \subseteq ran',
           \A c \in InPlay' : Live(c)' => c \in InPlay /\ Live(c),
           \A l \in Line :
               \/ attempts'[l] = attempts[l]
               \/ attempts'[l].at = "ended"
               \/ /\ attempts'[l].at \in Unsent
                  /\ \/ attempts[l].at \in Unsent
                     \/ attempts[l].at = "sent" /\ Refused(attempts[l].id)
    PROVE  LineInv'
  <1> USE DEF Unsent
  <1>1. \A l \in Line : attempts[l].at = "sent" /\ Refused(attempts[l].id) =>
            l \notin ToSet(given) /\ \A c \in InPlay : Live(c) => c.line # l
    <2> SUFFICES ASSUME NEW l \in Line, attempts[l].at = "sent", Refused(attempts[l].id)
                 PROVE  l \notin ToSet(given) /\ \A c \in InPlay : Live(c) => c.line # l
      OBVIOUS
    <2>1. l \notin ToSet(given)
      BY DEF LineInv, Refused
    <2>2. ASSUME NEW c \in InPlay, Live(c), c.line = l
          PROVE  FALSE
      <3>1. <<c.id, "failed">> \in seen
        BY <2>2 DEF LineInv, Refused
      <3>2. c \in busy
        BY <2>2, <3>1 DEF Live, Seen
      <3>3. <<c.id, "busy">> \in seen
        BY <3>2 DEF SeenInv
      <3> QED
        BY <3>1, <3>3 DEF SeenInv
    <2> QED
      BY <2>1, <2>2
  <1>2. \A l \in Line : attempts'[l].at \in Unsent =>
            l \notin ToSet(given) /\ \A c \in InPlay : Live(c) => c.line # l
    BY <1>1 DEF LineInv
  <1>3. \A l \in Line : attempts'[l].at = "sent" => attempts'[l] = attempts[l]
    OBVIOUS
  <1>4. ToSet(given') = ToSet(given)
    OBVIOUS
  <1> HIDE DEF Unsent
  <1> QED
    BY <1>2, <1>3, <1>4 DEF LineInv

\* What was refused stays so.
LEMMA NotYetKept ==
    ASSUME NotYetInv, \A id : Refused(id) => Refused(id)', \A id \in notYet' \ notYet : Refused(id),
           \A l \in Line :
               attempts'[l].at \in Unsent => attempts'[l] = attempts[l] \/ attempts'[l].id = NoId
    PROVE  NotYetInv'
  BY DEF NotYetInv

-----------------------------------------------------------------------------
(* The steps.                                                              *)

\* A step of the browser, and one of the route that sends nothing.
LEMMA QuietKept ==
    ASSUME TypeInv, OnceInv, UNCHANGED <<connVars, modVars, ghostVars>>,
           \A l \in Line :
               \/ attempts'[l] = attempts[l]
               \/ /\ attempts[l].at \in Unsent /\ attempts'[l].at \in Unsent
                  /\ attempts'[l].id = NoId
    PROVE  OnceInv'
  <1> USE DEF OnceInv
  <1>1. IdInv'
    BY DEF IdInv, InPlay, Waiting, Made
  <1>2. SeenInv'
    BY DEF SeenInv
  <1>3. AckInv'
    BY AckKept
  <1>4. \A c \in InPlay' : Live(c)' => c \in InPlay /\ Live(c)
    BY DEF InPlay, Waiting, Live, Seen
  <1>5. LineInv'
    BY <1>4, LineKept
  <1>6. NotYetInv'
    BY NotYetKept DEF Refused
  <1>7. EachOnce'
    BY DEF EachOnce, IsInjective
  <1> QED
    BY <1>1, <1>2, <1>3, <1>5, <1>6, <1>7

\* A command is queued.
LEMMA SendKept ==
    ASSUME TypeInv, OnceInv, NEW l \in Line, Send(l)
    PROVE  OnceInv'
  <1> USE DEF OnceInv
  <1> PICK id : id = <<boot, nextID + 1>>
    OBVIOUS
  <1> PICK new : new = [id |-> id, line |-> l]
    OBVIOUS
  <1>1. /\ ~Made(id) /\ Made(id)' /\ \A i : Made(i) => Made(i)'
        /\ new.id = id /\ new.line = l
    <2>1. nextID \in Nat /\ boot' = boot /\ nextID' = nextID + 1
      BY DEF Send, TypeInv, TypeOK, ServerType
    <2>2. id[1] = boot /\ id[2] = nextID + 1
      BY <2>1
    <2>3. ~Made(id)
      BY <2>1, <2>2 DEF Made
    <2>4. \A i : Made(i) => Made(i)'
      BY <2>1 DEF Made
    <2>5. Made(id)'
      BY <2>1, <2>2 DEF Made
    <2> QED
      BY <2>3, <2>4, <2>5
  <1>2. /\ cmds' = cmds \cup {new} /\ acks' = acks \cup {id}
        /\ UNCHANGED <<acked, inflight, modVars, ghostVars>>
        /\ attempts[l].at = "hello"
        /\ attempts'[l].at = "sent" /\ attempts'[l].id = id
        /\ \A k \in Line \ {l} : attempts'[k] = attempts[k]
    BY DEF Send, TypeInv, TypeOK, ServerType
  <1>3. InPlay' = InPlay \cup {new} /\ new \notin InPlay
    BY <1>1, <1>2 DEF InPlay, Waiting, IdInv
  <1>4. IdInv'
    <2>1. \A c \in InPlay' : Made(c.id)'
      BY <1>1, <1>3 DEF IdInv
    <2>2. \A i \in acks' \cup ran' : Made(i)'
      BY <1>1, <1>2 DEF IdInv
    <2>3. \A s \in seen' : Made(s[1])'
      BY <1>1, <1>2 DEF IdInv
    <2>4. \A c, d \in InPlay' : c.id = d.id => c = d
      BY <1>1, <1>3 DEF IdInv
    <2> QED
      BY <2>1, <2>2, <2>3, <2>4 DEF IdInv
  <1>5. SeenInv'
    BY <1>2 DEF SeenInv
  <1>6. ran \cap acks' \subseteq acks
    BY <1>1, <1>2 DEF IdInv
  <1>7. AckInv'
    BY <1>2, <1>6, AckKept
  <1>8. \A c \in InPlay : Live(c)' => Live(c)
    BY <1>2, <1>3 DEF Live, Waiting, Seen, InPlay
  <1>9. ToSet(given') = ToSet(given) /\ ran' = ran /\ l \notin ToSet(given)
        /\ \A c \in InPlay : Live(c) => c.line # l
    BY <1>2 DEF LineInv, Unsent
  <1>10. LineInv'
    BY <1>1, <1>2, <1>3, <1>8, <1>9 DEF LineInv, Unsent
  <1>11. NotYetInv'
    BY <1>2, NotYetKept DEF Refused, Unsent
  <1>12. EachOnce'
    BY <1>2 DEF EachOnce, IsInjective
  <1> QED
    BY <1>4, <1>5, <1>7, <1>10, <1>11, <1>12

\* A step that leaves the mod alone, queues no command, and ends no attempt that
\* was not refused, but for one that is remembered.
LEMMA RouteKept ==
    ASSUME TypeInv, OnceInv, UNCHANGED <<boot, nextID, handed, busy, seen, acksOut, given, ran>>,
           cmds' \cup inflight' \subseteq cmds \cup inflight, acks' \subseteq acks,
           acked' \subseteq acked,
           \A l \in Line :
               \/ attempts'[l] = attempts[l]
               \/ attempts'[l].at = "ended"
               \/ /\ attempts'[l].at \in Unsent /\ attempts'[l].id = NoId
                  /\ attempts[l].at = "sent" /\ Refused(attempts[l].id),
           \A id \in notYet' \ notYet : Refused(id)
    PROVE  OnceInv'
  <1> USE DEF OnceInv
  <1>1. InPlay' \subseteq InPlay
    BY DEF InPlay, Waiting
  <1>2. IdInv'
    BY <1>1, IdKept DEF IdInv
  <1>3. SeenInv'
    BY DEF SeenInv
  <1>4. AckInv'
    BY AckKept
  <1>5. \A c \in InPlay' : Live(c)' => c \in InPlay /\ Live(c)
    BY DEF InPlay, Waiting, Live, Seen
  <1>6. LineInv'
    BY <1>5, LineKept
  <1>7. NotYetInv'
    BY NotYetKept DEF Refused, Unsent
  <1>8. EachOnce'
    BY DEF EachOnce, IsInjective
  <1> QED
    BY <1>2, <1>3, <1>4, <1>6, <1>7, <1>8

\* An ack reaches the route: refused when it says so.
LEMMA AckReadKept ==
    ASSUME TypeInv, OnceInv, NEW l \in Line, AckRead(l)
    PROVE  OnceInv'
  <1>1. PICK ok \in BOOLEAN : /\ <<attempts[l].id, ok>> \in acked
                             /\ acked' = acked \ {<<attempts[l].id, ok>>}
                             /\ End(l, IF ok THEN 204 ELSE 502)
    BY DEF AckRead
  <1>2. ~ok => Refused(attempts[l].id)
    BY <1>1 DEF OnceInv, AckInv
  <1>3. UNCHANGED <<boot, nextID, cmds, acks, inflight, modVars>> /\ attempts[l].at = "sent"
    BY DEF AckRead
  <1>4. UNCHANGED <<given, ran>>
    BY <1>1 DEF End
  <1>5. CASE ok
    <2>1. attempts' = [attempts EXCEPT ![l] = [at |-> "ended", id |-> NoId, status |-> 204]]
          /\ notYet' = notYet
      BY <1>1, <1>5 DEF End, ComeBack
    <2>2. \A k \in Line : attempts'[k] = attempts[k] \/ attempts'[k].at = "ended"
      BY <2>1 DEF TypeInv, TypeOK, ServerType
    <2> QED
      BY <1>1, <1>3, <1>4, <2>1, <2>2, RouteKept
  <1>6. CASE ~ok
    <2>1. attempts' = [attempts EXCEPT ![l] = NoAttempt]
          /\ notYet' \subseteq notYet \cup {attempts[l].id}
      BY <1>1, <1>6 DEF End, ComeBack
    <2>2. \A k \in Line : \/ attempts'[k] = attempts[k]
                          \/ k = l /\ attempts'[k].at \in Unsent /\ attempts'[k].id = NoId
      <3>1. attempts'[l] = NoAttempt /\ \A k \in Line \ {l} : attempts'[k] = attempts[k]
        BY <2>1 DEF TypeInv, TypeOK, ServerType
      <3>2. attempts'[l].at \in Unsent /\ attempts'[l].id = NoId
        BY <3>1 DEF NoAttempt, Unsent
      <3> QED
        BY <3>1, <3>2
    <2> QED
      BY <1>1, <1>2, <1>3, <1>4, <1>6, <2>1, <2>2, RouteKept
  <1> QED
    BY <1>5, <1>6

\* No ack came: the attempt is remembered, as one that may have been given.
LEMMA AckTimeoutKept ==
    ASSUME TypeInv, OnceInv, NEW l \in Line, AckTimeout(l)
    PROVE  OnceInv'
  <1>1. attempts' = [attempts EXCEPT ![l] = [at |-> "ended", id |-> NoId, status |-> 504]]
        /\ notYet' = notYet /\ UNCHANGED <<given, ran>>
    BY DEF AckTimeout, End, ComeBack
  <1>2. \A k \in Line : attempts'[k] = attempts[k] \/ attempts'[k].at = "ended"
    BY <1>1 DEF TypeInv, TypeOK, ServerType
  <1>3. /\ cmds' \cup inflight' \subseteq cmds \cup inflight /\ acks' \subseteq acks
        /\ acked' \subseteq acked /\ UNCHANGED <<boot, nextID, modVars>>
    BY DEF AckTimeout
  <1> QED
    BY <1>1, <1>2, <1>3, RouteKept

\* Commands are queued again, and handed out.
LEMMA HelloKept ==
    ASSUME TypeInv, OnceInv, Hello
    PROVE  OnceInv'
  <1>1. cmds' \cup inflight' \subseteq cmds \cup inflight
    BY DEF Hello
  <1> QED
    BY <1>1, RouteKept DEF Hello

\* The mod is given what is queued, or the answer is lost.
LEMMA PollKept ==
    ASSUME TypeInv, OnceInv, Poll
    PROVE  OnceInv'
  <1> USE DEF OnceInv
  <1>1. /\ Waiting' \subseteq Waiting
        /\ UNCHANGED <<boot, nextID, busy, seen, acks, acked, acksOut, given, ran, attempts,
                       notYet>>
    BY DEF Poll, Waiting
  <1>2. InPlay' \subseteq InPlay
    BY <1>1 DEF InPlay
  <1>3. IdInv'
    BY <1>1, <1>2, IdKept DEF IdInv
  <1>4. SeenInv'
    BY <1>1 DEF SeenInv
  <1>5. AckInv'
    BY <1>1, AckKept
  <1>6. \A c \in InPlay' : Live(c)' => c \in InPlay /\ Live(c)
    BY <1>1, <1>2 DEF Live, Seen
  <1>7. LineInv'
    BY <1>1, <1>6, LineKept
  <1>8. NotYetInv'
    BY <1>1, NotYetKept DEF Refused
  <1>9. EachOnce'
    BY <1>1 DEF EachOnce, IsInjective
  <1> QED
    BY <1>3, <1>4, <1>5, <1>7, <1>8, <1>9

\* The route takes the oldest ack: a refusal comes only before any confirmation of
\* its command, so the command never ran.
LEMMA PostAckKept ==
    ASSUME TypeInv, OnceInv, PostAck
    PROVE  OnceInv'
  <1> USE DEF OnceInv
  <1> PICK a : a = Head(acksOut)
    OBVIOUS
  <1>1. /\ acksOut # <<>> /\ acksOut' = Tail(acksOut) /\ acks' = acks \ {a[1]}
        /\ acked' = IF a[1] \in acks THEN acked \cup {a} ELSE acked
        /\ inflight' \subseteq inflight
        /\ UNCHANGED <<boot, nextID, cmds, handed, busy, seen, given, ran, attempts, notYet>>
    BY DEF PostAck
  <1>2. /\ Len(acksOut) \in Nat \ {0} /\ DOMAIN acksOut = 1..Len(acksOut)
        /\ DOMAIN acksOut' = 1..Len(acksOut) - 1
        /\ \A i \in DOMAIN acksOut' : acksOut'[i] = acksOut[i + 1]
        /\ a = acksOut[1]
    <2>1. acksOut \in Seq(Id \X BOOLEAN)
      BY DEF TypeInv, TypeOK, ModType
    <2> QED
      BY <1>1, <2>1
  <1>3. InPlay' \subseteq InPlay
    BY <1>1 DEF InPlay, Waiting
  <1>4. IdInv'
    BY <1>1, <1>3, IdKept DEF IdInv
  <1>5. SeenInv'
    BY <1>1 DEF SeenInv
  <1>6. AckInv'
    <2> USE DEF AckInv, Confirms
    <2>1. \A i \in DOMAIN acksOut' : ~acksOut'[i][2] => <<acksOut'[i][1], "failed">> \in seen'
      BY <1>1, <1>2
    <2>2. ASSUME NEW i \in DOMAIN acksOut', ~acksOut'[i][2], acksOut'[i][1] \in ran' \cap acks'
          PROVE  \E j \in 1..i - 1 : Confirms(j, acksOut[i][1])'
      <3>1. /\ i + 1 \in DOMAIN acksOut /\ ~acksOut[i + 1][2]
            /\ acksOut[i + 1][1] \in ran \cap acks /\ acksOut[i + 1][1] # a[1]
        BY <1>1, <1>2, <2>2
      <3>2. PICK j \in 1..(i + 1) - 1 : Confirms(j, acksOut[i + 1][1])
        BY <3>1
      <3>3. j # 1
        BY <1>2, <3>1, <3>2
      <3>4. j - 1 \in 1..i - 1 /\ acksOut'[j - 1] = acksOut[j]
        BY <1>2, <2>2, <3>2, <3>3
      <3> QED
        BY <1>2, <3>2, <3>4
    <2>3. ASSUME NEW id \in ran' \cap acks'
          PROVE  \E j \in DOMAIN acksOut' : Confirms(j, id)'
      <3>1. id \in ran \cap acks /\ id # a[1]
        BY <1>1
      <3>2. PICK j \in DOMAIN acksOut : Confirms(j, id)
        BY <3>1
      <3>3. j # 1
        BY <1>2, <3>1, <3>2
      <3>4. j - 1 \in DOMAIN acksOut' /\ acksOut'[j - 1] = acksOut[j]
        BY <1>2, <3>2, <3>3
      <3> QED
        BY <3>2, <3>4
    <2>4. a[1] \in acks /\ ~a[2] => Refused(a[1])
      <3> SUFFICES ASSUME a[1] \in acks, ~a[2]
                   PROVE  <<a[1], "failed">> \in seen /\ a[1] \notin ran
        BY DEF Refused
      <3>1. 1 \in DOMAIN acksOut
        BY <1>2
      <3>2. 1..1 - 1 = {}
        OBVIOUS
      <3> QED
        BY <1>2, <3>1, <3>2
    <2>5. \A b \in acked' : ~b[2] => Refused(b[1])'
      BY <1>1, <2>4 DEF Refused
    <2> QED
      BY <2>1, <2>2, <2>3, <2>5
  <1>7. \A c \in InPlay' : Live(c)' => c \in InPlay /\ Live(c)
    BY <1>1, <1>3 DEF Live, Seen, Waiting
  <1>8. LineInv'
    BY <1>1, <1>7, LineKept
  <1>9. NotYetInv'
    BY <1>1, NotYetKept DEF Refused
  <1>10. EachOnce'
    BY <1>1 DEF EachOnce, IsInjective
  <1> QED
    BY <1>4, <1>5, <1>6, <1>8, <1>9, <1>10

\* The mod looks at a command: one it has seen is only acked again.
LEMMA BeginKept ==
    ASSUME TypeInv, OnceInv, NEW c \in handed, Begin(c)
    PROVE  OnceInv'
  <1> USE DEF OnceInv
  <1>1. /\ handed' = handed \ {c}
        /\ UNCHANGED <<boot, nextID, cmds, inflight, acks, acked, given, ran, attempts, notYet>>
    BY DEF Begin
  <1>2. c \in Waiting /\ c \in InPlay /\ c.id \in Id
    BY DEF Waiting, InPlay, TypeInv, TypeOK, ModType, Command
  <1>3. CASE Seen(c.id)
    <2>1. UNCHANGED <<busy, seen>>
      BY <1>3 DEF Begin, Seen
    <2>2. PICK ok \in BOOLEAN : /\ ok = (<<c.id, "failed">> \notin seen)
                               /\ acksOut' = Append(acksOut, <<c.id, ok>>)
      BY <1>3 DEF Begin, Seen
    <2>3. InPlay' \subseteq InPlay
      BY <1>1, <2>1 DEF InPlay, Waiting
    <2>4. IdInv'
      BY <1>1, <2>1, <2>3, IdKept DEF IdInv
    <2>5. SeenInv'
      BY <1>1, <2>1 DEF SeenInv
    <2>6. AckInv'
      <3>1. ~ok => <<c.id, "failed">> \in seen
        BY <2>2
      <3>2. c.id \in ran \cap acks => \E j \in DOMAIN acksOut : Confirms(j, c.id)
        BY DEF AckInv
      <3> QED
        BY <1>1, <1>2, <2>1, <2>2, <3>1, <3>2, AckAdded
    <2>7. \A d \in InPlay' : Live(d)' => d \in InPlay /\ Live(d)
      BY <1>1, <2>1, <2>3 DEF Live, Seen, Waiting
    <2>8. LineInv'
      BY <1>1, <2>7, LineKept
    <2>9. NotYetInv'
      BY <1>1, <2>1, NotYetKept DEF Refused
    <2>10. EachOnce'
      BY <1>1 DEF EachOnce, IsInjective
    <2> QED
      BY <2>4, <2>5, <2>6, <2>8, <2>9, <2>10
  <1>4. CASE ~Seen(c.id)
    <2>1. busy' = busy \cup {c} /\ seen' = seen \cup {<<c.id, "busy">>} /\ acksOut' = acksOut
      BY <1>4 DEF Begin, Seen
    <2>2. InPlay' \subseteq InPlay
      BY <1>1, <1>2, <2>1 DEF InPlay, Waiting
    <2>3. IdInv'
      <3>1. \A s \in seen' : Made(s[1])
        BY <1>2, <2>1 DEF IdInv
      <3>2. \A id \in acks' \cup ran' : Made(id)
        BY <1>1 DEF IdInv
      <3> QED
        BY <1>1, <2>2, <3>1, <3>2, IdKept
    <2>4. SeenInv'
      <3>1. \A s \in seen : s[1] # c.id
        BY <1>4 DEF Seen, TypeInv, TypeOK, ModType
      <3>2. \A s, t \in seen' : s[1] = t[1] => s = t
        BY <2>1, <3>1 DEF SeenInv
      <3> QED
        BY <1>1, <2>1, <3>2 DEF SeenInv
    <2>5. AckInv'
      BY <1>1, <2>1, AckKept
    <2>6. \A d \in InPlay' : Live(d)' => d \in InPlay /\ Live(d)
      BY <1>1, <1>2, <1>4, <2>1, <2>2 DEF Live, Seen, Waiting
    <2>7. LineInv'
      BY <1>1, <2>6, LineKept
    <2>8. NotYetInv'
      BY <1>1, <2>1, NotYetKept DEF Refused
    <2>9. EachOnce'
      BY <1>1 DEF EachOnce, IsInjective
    <2> QED
      BY <2>3, <2>4, <2>5, <2>7, <2>8, <2>9
  <1> QED
    BY <1>3, <1>4

\* What a command that is done leaves in SeenCommands.
LEMMA OutcomeKept ==
    ASSUME TypeInv, IdInv, SeenInv, NEW c \in busy, NEW o \in {"ok", "failed"}, Outcome(c, o),
           UNCHANGED <<boot, nextID, cmds, inflight, handed, acks>>,
           ran' \subseteq ran \cup {c.id}
    PROVE  /\ IdInv' /\ \A id : <<id, "failed">> \in seen => <<id, "failed">> \in seen'
           /\ \A s, t \in seen' : s[1] = t[1] => s = t
           /\ \A d \in busy' : <<d.id, "busy">> \in seen'
           /\ \A id \in ran : <<id, "ok">> \in seen' \/ <<id, "failed">> \in seen'
           /\ \A d \in InPlay' : Live(d)' => d \in InPlay /\ Live(d) /\ d # c
           /\ <<c.id, o>> \in seen' /\ c.id \in Id
           /\ <<c.id, "failed">> \notin seen /\ c.id \notin ran
  <1>1. /\ busy' = busy \ {c} /\ seen' = (seen \ {<<c.id, "busy">>}) \cup {<<c.id, o>>}
        /\ c \in InPlay /\ <<c.id, "busy">> \in seen /\ Made(c.id)
    BY DEF Outcome, InPlay, SeenInv, IdInv
  <1>2. InPlay' \subseteq InPlay /\ Waiting' = Waiting
    BY <1>1 DEF InPlay, Waiting
  <1>3. \A s \in seen : s[1] = c.id => s = <<c.id, "busy">>
    BY <1>1 DEF SeenInv
  <1>4. <<c.id, "failed">> \notin seen /\ <<c.id, "ok">> \notin seen
    BY <1>3
  <1>5. c.id \notin ran
    BY <1>4 DEF SeenInv
  <1>6. IdInv'
    <2>1. \A s \in seen' : Made(s[1])
      BY <1>1 DEF IdInv
    <2>2. \A id \in acks' \cup ran' : Made(id)
      BY <1>1 DEF IdInv
    <2> QED
      BY <1>2, <2>1, <2>2, IdKept
  <1>7. \A id : <<id, "failed">> \in seen => <<id, "failed">> \in seen'
    BY <1>1
  <1>8. \A s, t \in seen' : s[1] = t[1] => s = t
    <2>1. \A s \in seen' : s[1] = c.id => s = <<c.id, o>>
      BY <1>1, <1>3
    <2>2. \A s \in seen' : s[1] # c.id => s \in seen
      BY <1>1
    <2> QED
      BY <2>1, <2>2 DEF SeenInv
  <1>9. \A d \in InPlay : d.id = c.id => d = c
    BY <1>1 DEF IdInv
  <1>10. \A d \in busy' : <<d.id, "busy">> \in seen'
    BY <1>1, <1>9 DEF SeenInv, InPlay
  <1>11. \A id \in ran : <<id, "ok">> \in seen' \/ <<id, "failed">> \in seen'
    BY <1>1, <1>5 DEF SeenInv
  <1>12. ASSUME NEW d \in InPlay', Live(d)'
         PROVE  d \in InPlay /\ Live(d) /\ d # c
    <2>1. CASE d \in busy'
      BY <1>1, <1>2, <2>1 DEF Live
    <2>2. CASE d \notin busy'
      <3>1. d \in Waiting /\ ~Seen(d.id)'
        BY <1>2, <1>12, <2>2 DEF Live
      <3>2. d.id # c.id
        BY <1>1, <3>1 DEF Seen
      <3>3. ~Seen(d.id)
        BY <1>1, <3>1, <3>2 DEF Seen
      <3> QED
        BY <1>2, <3>1, <3>2, <3>3 DEF Live
    <2> QED
      BY <2>1, <2>2
  <1>13. c.id \in Id
    BY DEF TypeInv, TypeOK, ModType, Command
  <1> QED
    BY <1>1, <1>4, <1>5, <1>6, <1>7, <1>8, <1>10, <1>11, <1>12, <1>13

\* The submit failed.
LEMMA RefuseKept ==
    ASSUME TypeInv, OnceInv, NEW c \in busy, Refuse(c)
    PROVE  OnceInv'
  <1> USE DEF OnceInv
  <1>1. /\ Outcome(c, "failed")
        /\ UNCHANGED <<boot, nextID, cmds, inflight, handed, acks, acked, given, ran, attempts,
                       notYet>>
    BY DEF Refuse
  <1>2. /\ IdInv' /\ \A id : <<id, "failed">> \in seen => <<id, "failed">> \in seen'
        /\ SeenInv'
        /\ \A d \in InPlay' : Live(d)' => d \in InPlay /\ Live(d)
        /\ <<c.id, "failed">> \in seen' /\ c.id \in Id /\ c.id \notin ran
    BY <1>1, OutcomeKept DEF SeenInv
  <1>3. acksOut' = Append(acksOut, <<c.id, FALSE>>)
    BY <1>1 DEF Outcome
  <1>4. AckInv'
    BY <1>1, <1>2, <1>3, AckAdded
  <1>5. LineInv'
    BY <1>1, <1>2, LineKept
  <1>6. NotYetInv'
    BY <1>1, <1>2, NotYetKept DEF Refused
  <1>7. EachOnce'
    BY <1>1 DEF EachOnce, IsInjective
  <1> QED
    BY <1>2, <1>4, <1>5, <1>6, <1>7

\* A prompt acked is dropped: it keeps counting as one that ran.
LEMMA DroppedKept ==
    ASSUME TypeInv, OnceInv, NEW s \in seen, Dropped(s)
    PROVE  OnceInv'
  <1> USE DEF OnceInv
  <1>1. /\ s[2] = "ok" /\ seen' = (seen \ {s}) \cup {<<s[1], "failed">>}
        /\ UNCHANGED <<boot, nextID, cmds, inflight, handed, busy, acks, acked, acksOut, given, ran,
                       attempts, notYet>>
    BY DEF Dropped
  <1>2. s = <<s[1], "ok">>
    BY <1>1 DEF TypeInv, TypeOK, ModType
  <1>3. \A t \in seen : t[1] = s[1] => t = s
    BY DEF SeenInv
  <1>4. \A id : <<id, "failed">> \in seen => <<id, "failed">> \in seen'
    BY <1>1, <1>2
  <1>5. InPlay' = InPlay /\ Waiting' = Waiting
    BY <1>1 DEF InPlay, Waiting
  <1>6. IdInv'
    <2>1. \A t \in seen' : Made(t[1])
      BY <1>1 DEF IdInv
    <2> QED
      BY <1>1, <1>5, <2>1, IdKept DEF IdInv
  <1>7. SeenInv'
    <2>1. \A t \in seen' : t[1] = s[1] => t = <<s[1], "failed">>
      BY <1>1, <1>3
    <2>2. \A t \in seen' : t[1] # s[1] => t \in seen
      BY <1>1
    <2>3. \A t, u \in seen' : t[1] = u[1] => t = u
      BY <2>1, <2>2 DEF SeenInv
    <2>4. \A c \in busy' : <<c.id, "busy">> \in seen'
      BY <1>1, <1>2 DEF SeenInv
    <2>5. \A id \in ran' : <<id, "ok">> \in seen' \/ <<id, "failed">> \in seen'
      BY <1>1, <1>2 DEF SeenInv
    <2> QED
      BY <2>3, <2>4, <2>5 DEF SeenInv
  <1>8. AckInv'
    BY <1>1, <1>4, AckKept
  <1>9. \A id : Seen(id) => Seen(id)'
    <2> SUFFICES ASSUME NEW id, NEW o \in {"busy", "ok", "failed"}, <<id, o>> \in seen
                 PROVE  \E p \in {"busy", "ok", "failed"} : <<id, p>> \in seen'
      BY DEF Seen
    <2>1. CASE <<id, o>> = s
      BY <1>1, <1>2, <2>1
    <2>2. CASE <<id, o>> # s
      BY <1>1, <2>2
    <2> QED
      BY <2>1, <2>2
  <1>10. \A c \in InPlay' : Live(c)' => c \in InPlay /\ Live(c)
    BY <1>1, <1>5, <1>9 DEF Live
  <1>11. LineInv'
    BY <1>1, <1>10, LineKept
  <1>12. NotYetInv'
    BY <1>1, <1>4, NotYetKept DEF Refused
  <1>13. EachOnce'
    BY <1>1 DEF EachOnce, IsInjective
  <1> QED
    BY <1>6, <1>7, <1>8, <1>11, <1>12, <1>13

\* Claude is given a line: no command gave it before, and none can after.
LEMMA SubmitKept ==
    ASSUME TypeInv, OnceInv, NEW c \in busy, Submit(c)
    PROVE  OnceInv'
  <1> USE DEF OnceInv
  <1>1. /\ Outcome(c, "ok") /\ given' = Append(given, c.line) /\ ran' = ran \cup {c.id}
        /\ UNCHANGED <<boot, nextID, cmds, inflight, handed, acks, acked, attempts, notYet>>
    BY DEF Submit
  <1>2. /\ IdInv' /\ \A id : <<id, "failed">> \in seen => <<id, "failed">> \in seen'
        /\ \A s, t \in seen' : s[1] = t[1] => s = t
        /\ \A d \in busy' : <<d.id, "busy">> \in seen'
        /\ \A id \in ran : <<id, "ok">> \in seen' \/ <<id, "failed">> \in seen'
        /\ \A d \in InPlay' : Live(d)' => d \in InPlay /\ Live(d) /\ d # c
        /\ <<c.id, "ok">> \in seen' /\ c.id \in Id
        /\ <<c.id, "failed">> \notin seen /\ c.id \notin ran
    BY <1>1, OutcomeKept
  <1>3. SeenInv'
    BY <1>1, <1>2 DEF SeenInv
  <1>4. acksOut' = Append(acksOut, <<c.id, TRUE>>)
    BY <1>1 DEF Outcome
  <1>5. AckInv'
    BY <1>1, <1>2, <1>4, AckAdded
  <1>6. c \in InPlay /\ Live(c)
    BY DEF InPlay, Live
  <1>7. c.line \notin ToSet(given) /\ \A d \in InPlay' : Live(d)' => d.line # c.line
    BY <1>2, <1>6 DEF LineInv
  <1>8. /\ given \in Seq(Line) /\ c.line \in Line
        /\ DOMAIN given = 1..Len(given) /\ Len(given) \in Nat
        /\ DOMAIN given' = 1..Len(given) + 1 /\ given'[Len(given) + 1] = c.line
        /\ \A i \in DOMAIN given : given'[i] = given[i]
    <2>1. given \in Seq(Line) /\ c.line \in Line
      BY DEF TypeInv, TypeOK, GhostType, ModType, Command
    <2> QED
      BY <1>1, <2>1
  <1>9. ToSet(given') = ToSet(given) \cup {c.line}
    BY <1>8 DEF ToSet
  <1>10. LineInv'
    <2>1. \A d, e \in InPlay' : Live(d)' /\ Live(e)' /\ d.line = e.line => d = e
      BY <1>2 DEF LineInv
    <2>2. \A d \in InPlay' : Live(d)' => d.line \notin ToSet(given')
      BY <1>2, <1>7, <1>9 DEF LineInv
    <2>3. \A l \in Line : attempts[l].at \in Unsent => l # c.line
      BY <1>6 DEF LineInv
    <2>4. \A l \in Line : attempts'[l].at \in Unsent => l \notin ToSet(given')
      BY <1>1, <1>9, <2>3 DEF LineInv
    <2>5. \A l \in Line, d \in InPlay' : attempts'[l].at \in Unsent /\ Live(d)' => d.line # l
      BY <1>1, <1>2 DEF LineInv
    <2>6. \A l \in Line, d \in InPlay' : attempts'[l].at = "sent" /\ Live(d)' /\ d.line = l =>
              d.id = attempts'[l].id
      BY <1>1, <1>2 DEF LineInv
    <2>7. \A l \in Line : attempts'[l].at = "sent" /\ l \in ToSet(given') =>
              attempts'[l].id \in ran'
      BY <1>1, <1>6, <1>9 DEF LineInv
    <2> QED
      BY <2>1, <2>2, <2>4, <2>5, <2>6, <2>7 DEF LineInv, Unsent
  <1>11. NotYetInv'
    <2>1. \A id \in notYet : Refused(id)'
      BY <1>1, <1>2 DEF NotYetInv, Refused
    <2> QED
      BY <1>1, <2>1 DEF NotYetInv, Unsent
  <1>12. EachOnce'
    <2>1. \A i \in DOMAIN given : given[i] # c.line
      BY <1>7 DEF ToSet
    <2> QED
      BY <1>8, <2>1 DEF EachOnce, IsInjective
  <1> QED
    BY <1>2, <1>3, <1>5, <1>10, <1>11, <1>12

-----------------------------------------------------------------------------
\* Nothing is in play at the start.
LEMMA InitOnce == Init => OnceInv
<1> SUFFICES ASSUME Init
             PROVE  OnceInv
  OBVIOUS
<1> USE DEF Init
<1>1. IdInv
  BY DEF IdInv, InPlay, Waiting
<1>2. SeenInv
  BY DEF SeenInv
<1>3. AckInv
  <2>1. DOMAIN acksOut = {}
    OBVIOUS
  <2> QED
    BY <2>1 DEF AckInv
<1>4. InPlay = {} /\ ToSet(given) = {}
  BY DEF InPlay, Waiting, ToSet
<1>5. \A l \in Line : attempts[l].at = "none" /\ attempts[l].id = NoId
  BY DEF NoAttempt
<1>6. LineInv
  BY <1>4, <1>5 DEF LineInv
<1>7. NotYetInv
  BY <1>5 DEF NotYetInv
<1>8. EachOnce
  BY DEF EachOnce, IsInjective
<1> QED
  BY <1>1, <1>2, <1>3, <1>6, <1>7, <1>8 DEF OnceInv

\* Every step but a reload and a restart keeps what holds as long as neither came.
LEMMA StepOnce ==
    ASSUME TypeInv, OnceInv, [Next]_vars
    PROVE  OnceInv' \/ Reload \/ Restart
<1>1. CASE Browser
  BY <1>1, QuietKept DEF Browser, Ask, Cut, RequestDies, Answered
<1>2. ASSUME NEW r \in requests, Serve(r)
      PROVE  OnceInv'
  <2>1. UNCHANGED <<connVars, modVars, ghostVars>>
    BY <1>2 DEF Serve
  <2>2. CASE attempts[r.line].at = "none"
    <3>1. r.line \in Line
      BY DEF TypeInv, TypeOK, ServerType, Request
    <3>2. attempts' = [attempts EXCEPT ![r.line].at = "hello"]
      BY <1>2, <2>2 DEF Serve
    <3>3. attempts'[r.line].at = "hello" /\ attempts'[r.line].id = attempts[r.line].id
          /\ \A l \in Line \ {r.line} : attempts'[l] = attempts[l]
      BY <3>1, <3>2 DEF TypeInv, TypeOK, ServerType
    <3>4. attempts[r.line].id = NoId
      BY <2>2, <3>1 DEF OnceInv, NotYetInv, Unsent
    <3> QED
      BY <2>1, <2>2, <3>3, <3>4, QuietKept DEF Unsent
  <2>3. CASE attempts[r.line].at # "none"
    <3>1. attempts' = attempts
      BY <1>2, <2>3 DEF Serve
    <3> QED
      BY <2>1, <3>1, QuietKept
  <2> QED
    BY <2>2, <2>3
<1>3. ASSUME NEW l \in Line, NotReady(l)
      PROVE  OnceInv'
  <2>1. attempts[l].at = "hello" /\ attempts[l].id = NoId
    BY <1>3 DEF NotReady, OnceInv, NotYetInv, Unsent
  <2>2. attempts' = [attempts EXCEPT ![l] = NoAttempt] /\ notYet' = notYet
    BY <1>3, <2>1 DEF NotReady, End, ComeBack
  <2>3. attempts'[l] = NoAttempt /\ \A k \in Line \ {l} : attempts'[k] = attempts[k]
    BY <2>2 DEF TypeInv, TypeOK, ServerType
  <2>4. UNCHANGED <<connVars, modVars, ghostVars>>
    BY <1>3, <2>2 DEF NotReady, End
  <2> QED
    BY <2>1, <2>3, <2>4, QuietKept DEF NoAttempt, Unsent
<1>4. ASSUME NEW l \in Line, Send(l) \/ AckRead(l) \/ AckTimeout(l)
      PROVE  OnceInv'
  BY <1>4, SendKept, AckReadKept, AckTimeoutKept
<1>5. CASE Mod
  BY <1>5, HelloKept, PollKept, PostAckKept, BeginKept, SubmitKept, RefuseKept, DroppedKept
     DEF Mod
<1>6. CASE UNCHANGED vars
  BY <1>6, QuietKept DEF vars
<1> QED
  BY <1>1, <1>2, <1>3, <1>4, <1>5, <1>6 DEF Next, Service

\* The counters of reloads and restarts never go back to 0.
LEMMA Counted ==
    ASSUME TypeInv, [Next]_vars
    PROVE  /\ reloads' = 0 => reloads = 0 /\ ~Reload
           /\ restarts' = 0 => restarts = 0 /\ ~Restart
<1>1. reloads \in Nat /\ restarts \in Nat
  BY DEF TypeInv, TypeOK, BoundType
<1>2. CASE Reload
  BY <1>1, <1>2 DEF Reload, Restart
<1>3. CASE Restart
  BY <1>1, <1>3 DEF Reload, Restart
<1>4. CASE ~Reload /\ ~Restart
  <2>1. CASE Browser
    BY <1>4, <2>1 DEF Browser, Ask, Cut, RequestDies, Answered
  <2>2. CASE Service
    BY <1>4, <2>2 DEF Service, Serve, NotReady, Send, AckRead, AckTimeout
  <2>3. CASE Mod
    BY <1>4, <2>3 DEF Mod, Hello, Poll, PostAck, Begin, Submit, Refuse, Dropped
  <2>4. CASE UNCHANGED vars
    BY <1>4, <2>4 DEF vars
  <2> QED
    BY <1>4, <2>1, <2>2, <2>3, <2>4 DEF Next
<1> QED
  BY <1>2, <1>3, <1>4

\* The invariant is inductive.
LEMMA Inductive == Inv /\ [Next]_vars => Inv'
<1> SUFFICES ASSUME Inv, [Next]_vars
             PROVE  Inv'
  OBVIOUS
<1>1. TypeInv'
  BY StepType DEF Inv
<1>2. ASSUME reloads' = 0, restarts' = 0
      PROVE  OnceInv'
  <2>1. reloads = 0 /\ restarts = 0 /\ ~Reload /\ ~Restart
    BY <1>2, Counted DEF Inv
  <2> QED
    BY <2>1, StepOnce DEF Inv
<1> QED
  BY <1>1, <1>2 DEF Inv

\* As long as neither the mod nor session-events forgot, Claude was given no line
\* twice, however often it was asked for, queued again or cut (promptOnce.do,
\* mod.go hello, seen.ts).
THEOREM GivenOnce == Spec => []SentOnce
<1>1. Init => Inv
  BY InitType, InitOnce DEF Inv
<1>2. Inv => SentOnce
  BY DEF Inv, OnceInv, SentOnce, Remembered
<1> QED
  BY <1>1, <1>2, Inductive, PTL DEF Spec

\* Nor was it given anything by an attempt answered "not yet", which the composer
\* sends again (comeBack).
THEOREM NotYetHolds == Spec => []NotYetSentNothing
<1>1. Init => Inv
  BY InitType, InitOnce DEF Inv
<1>2. Inv => NotYetSentNothing
  BY DEF Inv, OnceInv, NotYetInv, Refused, NotYetSentNothing, Remembered
<1> QED
  BY <1>1, <1>2, Inductive, PTL DEF Spec

-----------------------------------------------------------------------------
(* Accepted and in order: the inductive invariant.                         *)

\* The id was made by this session-events or one before it.
Issued(id) == id[1] < boot \/ (id[1] = boot /\ id[2] <= nextID)

\* Ids are not made twice, and an attempt's is that of a command of its line.
IssuedInv ==
    /\ \A c \in InPlay : Issued(c.id)
    /\ \A s \in seen : Issued(s[1])
    /\ \A a \in acked \cup ToSet(acksOut) : Issued(a[1])
    /\ \A l \in Line : attempts[l].at = "sent" => Issued(attempts[l].id)
    /\ \A c, d \in InPlay : c.id = d.id => c = d
    /\ \A l \in Line, c \in InPlay :
          attempts[l].at = "sent" /\ c.id = attempts[l].id => c.line = l

\* A command reaches the mod once: what a hello queues again is what the module
\* that said it has not seen.
FreshInv ==
    /\ \A c \in cmds \cup handed : ~Seen(c.id)
    /\ cmds \cap handed = {}
    /\ ~linked => \A c \in inflight : ~Seen(c.id) /\ c \notin handed
    /\ \A c \in busy : Seen(c.id)

\* So an ack that confirms comes after the submit, and what the browser hears of a
\* line is true.
Confirmed(id) == <<id, TRUE>> \in acked \cup ToSet(acksOut)
TruthInv ==
    /\ \A l \in Line : attempts[l].at = "sent" /\ Confirmed(attempts[l].id) => l \in ToSet(given)
    /\ \A l \in Line : attempts[l].at = "ended" /\ attempts[l].status = 204 => l \in ToSet(given)
    /\ answer = 204 => line \in ToSet(given)
    /\ \A l \in 1..line - 1 : l \in ToSet(given)

\* Nothing is beyond the line the browser is at.
BelowInv ==
    /\ \A r \in requests : r.line <= line /\ (r.waited => r.line = line)
    /\ \A l \in Line : attempts[l].at # "none" => l <= line
    /\ \A c \in InPlay : c.line <= line
    /\ \A l \in ToSet(given) : l <= line

ArriveInv == IssuedInv /\ FreshInv /\ TruthInv /\ BelowInv

InOrder == \A i, j \in DOMAIN given : i < j => given[i] <= given[j]

OrderInv ==
    /\ Inv
    /\ rehellos = 0 => ArriveInv /\ (reloads = 0 /\ restarts = 0 => InOrder)

-----------------------------------------------------------------------------
(* What keeps each of its parts.                                           *)

\* What the acks queued are after one more, and after the oldest is posted.
LEMMA AckSet ==
    ASSUME NEW S, NEW q \in Seq(S)
    PROVE  /\ \A a \in S : ToSet(Append(q, a)) = ToSet(q) \cup {a}
           /\ q # <<>> => ToSet(Tail(q)) \subseteq ToSet(q) /\ Head(q) \in ToSet(q)
  <1>1. ASSUME NEW a \in S
        PROVE  ToSet(Append(q, a)) = ToSet(q) \cup {a}
    <2>1. /\ DOMAIN q = 1..Len(q) /\ Len(q) \in Nat
          /\ DOMAIN Append(q, a) = 1..Len(q) + 1 /\ Append(q, a)[Len(q) + 1] = a
          /\ \A i \in DOMAIN q : Append(q, a)[i] = q[i]
      OBVIOUS
    <2> QED
      BY <2>1 DEF ToSet
  <1>2. ASSUME q # <<>>
        PROVE  ToSet(Tail(q)) \subseteq ToSet(q) /\ Head(q) \in ToSet(q)
    <2>1. /\ DOMAIN q = 1..Len(q) /\ Len(q) \in Nat \ {0} /\ Head(q) = q[1]
          /\ DOMAIN Tail(q) = 1..Len(q) - 1
          /\ \A i \in DOMAIN Tail(q) : Tail(q)[i] = q[i + 1]
      BY <1>2
    <2>2. \A i \in DOMAIN Tail(q) : i + 1 \in DOMAIN q
      BY <2>1
    <2>3. 1 \in DOMAIN q
      BY <2>1
    <2> QED
      BY <2>1, <2>2, <2>3 DEF ToSet
  <1> QED
    BY <1>1, <1>2

\* No id is made, and no attempt sends.
LEMMA IssuedKept ==
    ASSUME IssuedInv, UNCHANGED <<boot, nextID>>, InPlay' \subseteq InPlay,
           \A s \in seen' : Issued(s[1]),
           \A a \in acked' \cup ToSet(acksOut') : Issued(a[1]),
           \A l \in Line : attempts'[l] = attempts[l] \/ attempts'[l].at # "sent"
    PROVE  IssuedInv'
  <1>1. \A id : Issued(id)' = Issued(id)
    BY DEF Issued
  <1>2. (\A c \in InPlay : Issued(c.id))' /\ (\A s \in seen : Issued(s[1]))'
    BY <1>1 DEF IssuedInv
  <1>3. (\A a \in acked \cup ToSet(acksOut) : Issued(a[1]))'
    BY <1>1
  <1>4. (\A l \in Line : attempts[l].at = "sent" => Issued(attempts[l].id))'
    BY <1>1 DEF IssuedInv
  <1>5. (\A c, d \in InPlay : c.id = d.id => c = d)'
    BY DEF IssuedInv
  <1>6. (\A l \in Line, c \in InPlay :
            attempts[l].at = "sent" /\ c.id = attempts[l].id => c.line = l)'
    BY DEF IssuedInv
  <1> QED
    BY <1>2, <1>3, <1>4, <1>5, <1>6 DEF IssuedInv

\* No confirmation is new of an attempt that waits for it, and what an attempt
\* that ends answers is true.
LEMMA TruthKept ==
    ASSUME TruthInv, UNCHANGED line, ToSet(given) \subseteq ToSet(given'),
           answer' # 204 \/ answer' = answer \/ line \in ToSet(given'),
           \A l \in Line :
               \/ /\ attempts'[l] = attempts[l]
                  /\ attempts[l].at = "sent" /\ Confirmed(attempts[l].id)' =>
                        Confirmed(attempts[l].id) \/ l \in ToSet(given')
               \/ attempts'[l].at \in Unsent
               \/ attempts'[l].at = "ended" /\ attempts'[l].status # 204
               \/ attempts'[l].at = "ended" /\ l \in ToSet(given)
               \/ attempts'[l].at = "sent" /\ ~Confirmed(attempts[l].id)'
    PROVE  TruthInv'
  <1>1. (\A l \in Line : attempts[l].at = "sent" /\ Confirmed(attempts[l].id)
            => l \in ToSet(given))'
    <2> SUFFICES ASSUME NEW l \in Line, attempts'[l].at = "sent", Confirmed(attempts[l].id)'
                 PROVE  l \in ToSet(given')
      OBVIOUS
    <2>1. attempts'[l] = attempts[l]
          /\ (Confirmed(attempts[l].id)' => Confirmed(attempts[l].id) \/ l \in ToSet(given'))
      BY DEF Unsent
    <2> QED
      BY <2>1 DEF TruthInv
  <1>2. (\A l \in Line : attempts[l].at = "ended" /\ attempts[l].status = 204
            => l \in ToSet(given))'
    BY DEF TruthInv, Unsent
  <1>3. (answer = 204 => line \in ToSet(given))'
    BY DEF TruthInv
  <1>4. (\A l \in 1..line - 1 : l \in ToSet(given))'
    BY DEF TruthInv
  <1> QED
    BY <1>1, <1>2, <1>3, <1>4 DEF TruthInv

\* Nothing is asked or sent of another line.
LEMMA BelowKept ==
    ASSUME BelowInv, UNCHANGED <<line, given>>, requests' \subseteq requests,
           InPlay' \subseteq InPlay,
           \A l \in Line : attempts'[l].at # "none" => attempts[l].at # "none"
    PROVE  BelowInv'
  BY DEF BelowInv

-----------------------------------------------------------------------------
(* The steps keep it.                                                      *)

\* A step of the browser.
LEMMA BrowserArrives ==
    ASSUME TypeInv, ArriveInv, Browser
    PROVE  ArriveInv'
  <1> USE DEF ArriveInv
  <1>1. UNCHANGED <<attempts, connVars, modVars, ghostVars>>
    BY DEF Browser, Ask, Cut, RequestDies, Answered
  <1>2. InPlay' = InPlay
    BY <1>1 DEF InPlay, Waiting
  <1>3. IssuedInv'
    BY <1>1, <1>2, IssuedKept DEF IssuedInv
  <1>4. FreshInv'
    BY <1>1 DEF FreshInv, Seen
  <1>5. CASE UNCHANGED line
    <2>1. answer' \in {0, answer}
      BY <1>5 DEF Browser, Ask, Cut, RequestDies, Answered, Later
    <2>2. TruthInv'
      <3>1. \A l \in Line : Confirmed(attempts[l].id)' = Confirmed(attempts[l].id)
        BY <1>1 DEF Confirmed
      <3>2. ToSet(given) \subseteq ToSet(given')
        BY <1>1
      <3>3. \A l \in Line : attempts'[l] = attempts[l]
        BY <1>1
      <3> QED
        BY <1>5, <2>1, <3>1, <3>2, <3>3, TruthKept
    <2>3. \A r \in requests' : r.line <= line /\ (r.waited => r.line = line)
      <3>1. CASE Ask
        <4>1. line \in Nat
          BY DEF TypeInv, TypeOK, BrowserType
        <4> QED
          BY <3>1, <4>1 DEF Ask, BelowInv
      <3>2. CASE Cut
        <4>1. \A r \in requests : /\ [r EXCEPT !.waited = FALSE].line = r.line
                                  /\ ~[r EXCEPT !.waited = FALSE].waited
          BY DEF TypeInv, TypeOK, ServerType, Request
        <4> QED
          BY <3>2, <4>1 DEF Cut, BelowInv
      <3>3. CASE RequestDies \/ Answered
        BY <3>3 DEF RequestDies, Answered, BelowInv
      <3> QED
        BY <3>1, <3>2, <3>3 DEF Browser
    <2>4. BelowInv'
      BY <1>1, <1>2, <1>5, <2>3 DEF BelowInv
    <2> QED
      BY <1>3, <1>4, <2>2, <2>4
  <1>6. CASE ~UNCHANGED line
    <2>1. Answered /\ answer = 204 /\ line' = line + 1 /\ answer' = 0
          /\ requests' = requests /\ asking = "joined"
      BY <1>6 DEF Browser, Ask, Cut, RequestDies, Answered, Later, TypeInv, Asking
    <2>2. line \in Nat \ {0}
      BY DEF TypeInv, TypeOK, BrowserType
    <2>3. \A l \in 1..line' - 1 : l \in ToSet(given')
      BY <1>1, <2>1, <2>2 DEF TruthInv
    <2>4. TruthInv'
      <3>1. \A l \in Line : Confirmed(attempts[l].id)' = Confirmed(attempts[l].id)
        BY <1>1 DEF Confirmed
      <3>2. attempts' = attempts /\ given' = given
        BY <1>1
      <3> QED
        BY <2>1, <2>3, <3>1, <3>2 DEF TruthInv
    <2>5. \A r \in requests : ~r.waited /\ r.line \in Nat /\ r.line <= line
      BY <2>1 DEF TypeInv, TypeOK, Asking, ServerType, Request, Line, BelowInv
    <2>6. \A n \in Nat : n <= line => n <= line'
      BY <2>1, <2>2
    <2>7. BelowInv'
      <3>1. \A l \in Line : l \in Nat
        BY DEF Line
      <3>2. \A c \in InPlay : c.line \in Nat
        BY <3>1 DEF InPlay, Waiting, TypeInv, TypeOK, ServerType, ModType, Command
      <3>3. \A l \in ToSet(given) : l \in Nat
        BY <3>1 DEF TypeInv, TypeOK, GhostType, ToSet
      <3> QED
        BY <1>1, <1>2, <2>1, <2>5, <2>6, <3>1, <3>2, <3>3 DEF BelowInv
    <2> QED
      BY <1>3, <1>4, <2>4, <2>7
  <1> QED
    BY <1>5, <1>6

\* A request is read, and answered if its attempt is over.
LEMMA ServeArrives ==
    ASSUME TypeInv, ArriveInv, NEW r \in requests, Serve(r)
    PROVE  ArriveInv'
  <1> USE DEF ArriveInv
  <1>1. UNCHANGED <<line, connVars, modVars, ghostVars>> /\ requests' \subseteq requests
    BY DEF Serve
  <1>2. r.line \in Line /\ r.line <= line /\ (r.waited => r.line = line)
    BY DEF TypeInv, TypeOK, ServerType, Request, BelowInv
  <1>3. \A l \in Line : \/ attempts'[l] = attempts[l]
                        \/ l = r.line /\ attempts'[l].at = "hello"
    BY <1>2 DEF Serve, TypeInv, TypeOK, ServerType
  <1>4. InPlay' = InPlay
    BY <1>1 DEF InPlay, Waiting
  <1>5. IssuedInv'
    BY <1>1, <1>3, <1>4, IssuedKept DEF IssuedInv
  <1>6. FreshInv'
    BY <1>1 DEF FreshInv, Seen
  <1>7. answer' # 204 \/ answer' = answer \/ line \in ToSet(given')
    BY <1>1, <1>2 DEF Serve, TruthInv
  <1>8. TruthInv'
    BY <1>1, <1>3, <1>7, TruthKept DEF Confirmed, Unsent
  <1>9. BelowInv'
    BY <1>1, <1>2, <1>3, <1>4 DEF BelowInv
  <1> QED
    BY <1>5, <1>6, <1>8, <1>9

\* An attempt ends, and no command and no ack is new.
LEMMA EndArrives ==
    ASSUME TypeInv, ArriveInv, NEW l \in Line, NEW status \in {204, 502, 503, 504}, End(l, status),
           attempts[l].at # "none",
           UNCHANGED <<requests, boot, nextID, modVars>>,
           cmds' \subseteq cmds, inflight' \subseteq inflight, acked' \subseteq acked,
           status = 204 => l \in ToSet(given)
    PROVE  ArriveInv'
  <1> USE DEF ArriveInv
  <1>1. UNCHANGED <<line, given>>
    BY DEF End
  <1>2. \A k \in Line \ {l} : attempts'[k] = attempts[k]
    BY DEF End, TypeInv, TypeOK, ServerType
  <1>3. \/ attempts'[l] = NoAttempt
        \/ attempts'[l].at = "ended" /\ attempts'[l].status = status
    BY DEF End, TypeInv, TypeOK, ServerType
  <1>4. attempts'[l].at # "sent"
    BY <1>3 DEF NoAttempt
  <1>5. InPlay' \subseteq InPlay
    BY DEF InPlay, Waiting
  <1>6. IssuedInv'
    <2>1. \A k \in Line : attempts'[k] = attempts[k] \/ attempts'[k].at # "sent"
      BY <1>2, <1>4
    <2> QED
      BY <1>5, <2>1, IssuedKept DEF IssuedInv
  <1>7. FreshInv'
    BY DEF FreshInv, Seen
  <1>8. answer' # 204 \/ answer' = answer \/ line \in ToSet(given')
    BY <1>1 DEF End, Reply
  <1>9. TruthInv'
    <2>1. \A id : Confirmed(id)' => Confirmed(id)
      BY DEF Confirmed
    <2>2. attempts'[l].at \in Unsent \/ (attempts'[l].at = "ended" /\
             (attempts'[l].status # 204 \/ l \in ToSet(given)))
      BY <1>3 DEF NoAttempt, Unsent
    <2> QED
      BY <1>1, <1>2, <1>8, <2>1, <2>2, TruthKept
  <1>10. BelowInv'
    BY <1>1, <1>2, <1>5, BelowKept
  <1> QED
    BY <1>6, <1>7, <1>9, <1>10

\* An ack reaches the route: a confirmation is of a submit.
LEMMA AckReadArrives ==
    ASSUME TypeInv, ArriveInv, NEW l \in Line, AckRead(l)
    PROVE  ArriveInv'
  <1>1. PICK ok \in BOOLEAN : /\ <<attempts[l].id, ok>> \in acked
                             /\ acked' = acked \ {<<attempts[l].id, ok>>}
                             /\ End(l, IF ok THEN 204 ELSE 502)
    BY DEF AckRead
  <1>2. attempts[l].at = "sent"
    BY DEF AckRead
  <1>3. ok => l \in ToSet(given)
    BY <1>1, <1>2 DEF ArriveInv, TruthInv, Confirmed
  <1>4. PICK status \in {204, 502} : status = (IF ok THEN 204 ELSE 502)
    OBVIOUS
  <1>5. End(l, status) /\ (status = 204 => l \in ToSet(given))
    BY <1>1, <1>3, <1>4
  <1> QED
    BY <1>1, <1>2, <1>5, EndArrives DEF AckRead

\* No mod came, or no ack.
LEMMA GivesUpArrives ==
    ASSUME TypeInv, ArriveInv, NEW l \in Line, NotReady(l) \/ AckTimeout(l)
    PROVE  ArriveInv'
  <1>1. CASE NotReady(l)
    BY <1>1, EndArrives DEF NotReady
  <1>2. CASE AckTimeout(l)
    <2>1. cmds' \subseteq cmds /\ inflight' \subseteq inflight /\ acked' \subseteq acked
      BY <1>2 DEF AckTimeout
    <2> QED
      BY <1>2, <2>1, EndArrives DEF AckTimeout
  <1> QED
    BY <1>1, <1>2

\* A command is made, with an id no other has.
LEMMA SendArrives ==
    ASSUME TypeInv, ArriveInv, NEW l \in Line, Send(l)
    PROVE  ArriveInv'
  <1> USE DEF ArriveInv
  <1> PICK id : id = <<boot, nextID + 1>>
    OBVIOUS
  <1> PICK new : new = [id |-> id, line |-> l]
    OBVIOUS
  <1>1. ~Issued(id) /\ Issued(id)' /\ (\A i \in Id : Issued(i) => Issued(i)')
        /\ new.id = id /\ new.line = l /\ id \in Id
    <2>1. nextID \in Nat /\ boot \in Nat /\ boot' = boot /\ nextID' = nextID + 1
      BY DEF Send, TypeInv, TypeOK, ServerType
    <2>2. id[1] = boot /\ id[2] = nextID + 1
      BY <2>1
    <2>3. ~Issued(id)
      BY <2>1, <2>2 DEF Issued
    <2>4. ASSUME NEW i \in Id, Issued(i)
          PROVE  Issued(i)'
      <3>1. i[1] \in Nat /\ i[2] \in Nat
        BY DEF Id
      <3> QED
        BY <2>1, <2>4, <3>1 DEF Issued
    <2>5. Issued(id)'
      BY <2>1, <2>2 DEF Issued
    <2> QED
      BY <2>1, <2>3, <2>4, <2>5 DEF Id
  <1>2. /\ cmds' = cmds \cup {new}
        /\ UNCHANGED <<line, answer, requests, acked, inflight, modVars, ghostVars>>
        /\ attempts[l].at = "hello"
        /\ attempts'[l].at = "sent" /\ attempts'[l].id = id
        /\ \A k \in Line \ {l} : attempts'[k] = attempts[k]
    BY DEF Send, TypeInv, TypeOK, ServerType
  <1>3. /\ \A c \in InPlay : c.id \in Id
        /\ \A s \in seen : s[1] \in Id
        /\ \A a \in acked \cup ToSet(acksOut) : a[1] \in Id
        /\ \A k \in Line : attempts[k].id \in Id
    BY DEF TypeInv, TypeOK, ServerType, ModType, InPlay, Waiting, Command, Attempt, ToSet
  <1>4. InPlay' = InPlay \cup {new} /\ \A c \in InPlay : c.id # id
    BY <1>1, <1>2 DEF InPlay, Waiting, IssuedInv
  <1>5. IssuedInv'
    <2>1. (\A c \in InPlay : Issued(c.id))'
      BY <1>1, <1>3, <1>4 DEF IssuedInv
    <2>2. (\A s \in seen : Issued(s[1]))'
      BY <1>1, <1>2, <1>3 DEF IssuedInv
    <2>3. (\A a \in acked \cup ToSet(acksOut) : Issued(a[1]))'
      BY <1>1, <1>2, <1>3 DEF IssuedInv
    <2>4. (\A k \in Line : attempts[k].at = "sent" => Issued(attempts[k].id))'
      <3>1. \A k \in Line \ {l} : attempts'[k].at = "sent" => Issued(attempts'[k].id)
        BY <1>2 DEF IssuedInv
      <3>2. \A k \in Line : attempts'[k].at = "sent" =>
                attempts'[k].id = id \/ (attempts'[k].id \in Id /\ Issued(attempts'[k].id))
        BY <1>2, <1>3, <3>1
      <3>3. \A i : i = id \/ (i \in Id /\ Issued(i)) => Issued(i)'
        BY <1>1
      <3> QED
        BY <3>2, <3>3
    <2>5. (\A c, d \in InPlay : c.id = d.id => c = d)'
      BY <1>1, <1>4 DEF IssuedInv
    <2>6. (\A k \in Line, c \in InPlay :
              attempts[k].at = "sent" /\ c.id = attempts[k].id => c.line = k)'
      <3>1. \A k \in Line \ {l} : attempts[k].at = "sent" => attempts[k].id # id
        BY <1>1 DEF IssuedInv
      <3> QED
        BY <1>1, <1>2, <1>4, <3>1 DEF IssuedInv
    <2> QED
      BY <2>1, <2>2, <2>3, <2>4, <2>5, <2>6 DEF IssuedInv
  <1>6. FreshInv'
    <2>1. ~Seen(id) /\ new \notin handed
      BY <1>1, <1>4 DEF IssuedInv, Seen, InPlay, Waiting
    <2> QED
      BY <1>1, <1>2, <2>1 DEF FreshInv, Seen
  <1>7. TruthInv'
    <2>1. \A k \in Line : Confirmed(attempts[k].id)' = Confirmed(attempts'[k].id)
      BY <1>2 DEF Confirmed
    <2>2. ~Confirmed(id)
      BY <1>1 DEF Confirmed, IssuedInv
    <2> QED
      BY <1>2, <2>1, <2>2, TruthKept
  <1>8. BelowInv'
    BY <1>1, <1>2, <1>4 DEF BelowInv
  <1> QED
    BY <1>5, <1>6, <1>7, <1>8

\* session-events restarts: what the mod has in hand it has not seen.
LEMMA RestartArrives ==
    ASSUME TypeInv, ArriveInv, Restart
    PROVE  ArriveInv'
  <1> USE DEF ArriveInv
  <1>1. /\ boot \in Nat /\ boot' = boot + 1 /\ linked' = FALSE
        /\ cmds' = {} /\ inflight' = {} /\ acked' = {}
        /\ \A l \in Line : attempts'[l] = NoAttempt
        /\ UNCHANGED <<line, answer, requests, handed, busy, seen, acksOut, ghostVars>>
    BY DEF Restart, TypeInv, TypeOK, ServerType
  <1>2. /\ \A c \in InPlay : c.id \in Id
        /\ \A s \in seen : s[1] \in Id
        /\ \A a \in acked \cup ToSet(acksOut) : a[1] \in Id
    BY DEF TypeInv, TypeOK, ServerType, ModType, InPlay, Waiting, Command, ToSet
  <1>3. \A i \in Id : Issued(i) => Issued(i)'
    BY <1>1 DEF Issued, Id
  <1>4. InPlay' \subseteq InPlay
    BY <1>1 DEF InPlay, Waiting
  <1>5. \A l \in Line : attempts'[l].at = "none"
    BY <1>1 DEF NoAttempt
  <1>6. IssuedInv'
    BY <1>1, <1>2, <1>3, <1>4, <1>5 DEF IssuedInv
  <1>7. FreshInv'
    BY <1>1 DEF FreshInv, Seen
  <1>8. TruthInv'
    BY <1>1, <1>5, TruthKept DEF Unsent
  <1>9. BelowInv'
    BY <1>1, <1>4, <1>5, BelowKept
  <1> QED
    BY <1>6, <1>7, <1>8, <1>9

\* The mod is loaded anew: it has nothing in hand, and has seen nothing.
LEMMA ReloadArrives ==
    ASSUME TypeInv, ArriveInv, Reload
    PROVE  ArriveInv'
  <1> USE DEF ArriveInv
  <1>1. /\ handed' = {} /\ busy' = {} /\ seen' = {} /\ acksOut' = <<>>
        /\ UNCHANGED <<browserVars, serverVars, ghostVars>>
    BY DEF Reload
  <1>2. InPlay' \subseteq InPlay /\ ToSet(acksOut') = {}
    BY <1>1 DEF InPlay, Waiting, ToSet
  <1>3. IssuedInv'
    BY <1>1, <1>2, IssuedKept DEF IssuedInv
  <1>4. FreshInv'
    BY <1>1 DEF FreshInv, Seen
  <1>5. TruthInv'
    <2>1. \A l \in Line : Confirmed(attempts[l].id)' => Confirmed(attempts[l].id)
      BY <1>1, <1>2 DEF Confirmed
    <2> QED
      BY <1>1, <2>1, TruthKept
  <1>6. BelowInv'
    BY <1>1, <1>2, BelowKept
  <1> QED
    BY <1>3, <1>4, <1>5, <1>6

\* A hello that is not a repeated one: it queues again only what this module has
\* not seen.
LEMMA HelloArrives ==
    ASSUME TypeInv, ArriveInv, Hello, rehellos = 0, rehellos' = 0
    PROVE  ArriveInv'
  <1> USE DEF ArriveInv
  <1>1. ~linked
    BY DEF Hello
  <1>2. /\ cmds' \subseteq cmds \cup inflight /\ inflight' = {} /\ linked' = TRUE
        /\ UNCHANGED <<line, answer, requests, attempts, boot, nextID, acked, handed, busy, seen,
                       acksOut, given>>
    BY DEF Hello
  <1>3. InPlay' \subseteq InPlay
    BY <1>2 DEF InPlay, Waiting
  <1>4. IssuedInv'
    BY <1>2, <1>3, IssuedKept DEF IssuedInv
  <1>5. FreshInv'
    BY <1>1, <1>2 DEF FreshInv, Seen
  <1>6. TruthInv'
    <2>1. \A l \in Line : Confirmed(attempts[l].id)' = Confirmed(attempts[l].id)
      BY <1>2 DEF Confirmed
    <2> QED
      BY <1>2, <2>1, TruthKept
  <1>7. BelowInv'
    BY <1>2, <1>3, BelowKept
  <1> QED
    BY <1>4, <1>5, <1>6, <1>7

\* The mod is given what is queued, or the answer is lost.
LEMMA PollArrives ==
    ASSUME TypeInv, ArriveInv, Poll
    PROVE  ArriveInv'
  <1> USE DEF ArriveInv
  <1>1. /\ cmds' = {} /\ handed' \subseteq handed \cup cmds /\ linked /\ linked' = linked
        /\ inflight' \subseteq inflight \cup cmds
        /\ UNCHANGED <<line, answer, requests, attempts, boot, nextID, acked, busy, seen,
                       acksOut, given>>
    BY DEF Poll
  <1>2. InPlay' \subseteq InPlay
    BY <1>1 DEF InPlay, Waiting
  <1>3. IssuedInv'
    BY <1>1, <1>2, IssuedKept DEF IssuedInv
  <1>4. FreshInv'
    BY <1>1 DEF FreshInv, Seen
  <1>5. TruthInv'
    <2>1. \A l \in Line : Confirmed(attempts[l].id)' = Confirmed(attempts[l].id)
      BY <1>1 DEF Confirmed
    <2> QED
      BY <1>1, <2>1, TruthKept
  <1>6. BelowInv'
    BY <1>1, <1>2, BelowKept
  <1> QED
    BY <1>3, <1>4, <1>5, <1>6

\* The oldest ack reaches the route, or nobody.
LEMMA PostAckArrives ==
    ASSUME TypeInv, ArriveInv, PostAck
    PROVE  ArriveInv'
  <1> USE DEF ArriveInv
  <1>1. /\ acked' \cup ToSet(acksOut') \subseteq acked \cup ToSet(acksOut)
        /\ inflight' \subseteq inflight
        /\ UNCHANGED <<line, answer, requests, attempts, boot, nextID, cmds, linked, handed, busy,
                       seen, given>>
    <2>1. acksOut \in Seq(Id \X BOOLEAN) /\ acksOut # <<>>
      BY DEF PostAck, TypeInv, TypeOK, ModType
    <2>2. ToSet(Tail(acksOut)) \subseteq ToSet(acksOut) /\ Head(acksOut) \in ToSet(acksOut)
      BY <2>1, AckSet
    <2> QED
      BY <2>2 DEF PostAck
  <1>2. InPlay' \subseteq InPlay
    BY <1>1 DEF InPlay, Waiting
  <1>3. IssuedInv'
    BY <1>1, <1>2, IssuedKept DEF IssuedInv
  <1>4. FreshInv'
    BY <1>1 DEF FreshInv, Seen
  <1>5. TruthInv'
    <2>1. \A l \in Line : Confirmed(attempts[l].id)' => Confirmed(attempts[l].id)
      BY <1>1 DEF Confirmed
    <2> QED
      BY <1>1, <2>1, TruthKept
  <1>6. BelowInv'
    BY <1>1, <1>2, BelowKept
  <1> QED
    BY <1>3, <1>4, <1>5, <1>6

\* The mod looks at a command, which it has not seen.
LEMMA BeginArrives ==
    ASSUME TypeInv, ArriveInv, NEW c \in handed, Begin(c)
    PROVE  ArriveInv'
  <1> USE DEF ArriveInv
  <1>1. ~Seen(c.id)
    BY DEF FreshInv
  <1>2. /\ handed' = handed \ {c} /\ busy' = busy \cup {c}
        /\ seen' = seen \cup {<<c.id, "busy">>} /\ acksOut' = acksOut
        /\ UNCHANGED <<line, answer, requests, attempts, boot, nextID, cmds, acked, inflight,
                       linked, given>>
    BY <1>1 DEF Begin, Seen
  <1>3. InPlay' \subseteq InPlay /\ c \in InPlay
    BY <1>2 DEF InPlay, Waiting
  <1>4. IssuedInv'
    <2>1. \A s \in seen' : Issued(s[1])
      BY <1>2, <1>3 DEF IssuedInv
    <2> QED
      BY <1>2, <1>3, <2>1, IssuedKept DEF IssuedInv
  <1>5. FreshInv'
    <2>1. \A id : id # c.id => (Seen(id)' <=> Seen(id))
      BY <1>2 DEF Seen
    <2>2. \A d \in InPlay : d # c => d.id # c.id
      BY <1>3 DEF IssuedInv
    <2>3. Seen(c.id)'
      BY <1>2 DEF Seen
    <2>4. \A d \in cmds \cup handed' : d \in InPlay /\ d # c
      BY <1>2 DEF FreshInv, InPlay, Waiting
    <2>5. ~linked => \A d \in inflight : d \in InPlay /\ d # c
      BY DEF FreshInv, InPlay, Waiting
    <2>6. (\A d \in cmds \cup handed : ~Seen(d.id))'
      <3>1. \A d \in cmds \cup handed' : ~Seen(d.id)
        BY <1>2 DEF FreshInv
      <3> QED
        BY <1>2, <2>1, <2>2, <2>4, <3>1
    <2>7. (~linked => \A d \in inflight : ~Seen(d.id) /\ d \notin handed)'
      BY <1>2, <2>1, <2>2, <2>5 DEF FreshInv
    <2>8. (\A d \in busy : Seen(d.id))'
      <3>1. \A d \in busy : Seen(d.id)'
        BY <1>2 DEF FreshInv, Seen
      <3> QED
        BY <1>2, <2>3, <3>1
    <2> QED
      BY <1>2, <2>6, <2>7, <2>8 DEF FreshInv
  <1>6. TruthInv'
    <2>1. \A l \in Line : Confirmed(attempts[l].id)' = Confirmed(attempts[l].id)
      BY <1>2 DEF Confirmed
    <2> QED
      BY <1>2, <2>1, TruthKept
  <1>7. BelowInv'
    BY <1>2, <1>3, BelowKept
  <1> QED
    BY <1>4, <1>5, <1>6, <1>7

\* What is seen of a command changes: the others are as they were.
LEMMA SeenArrives ==
    ASSUME TypeInv, ArriveInv, NEW id \in Id, NEW o \in {"ok", "failed"}, Seen(id),
           \E p \in {"busy", "ok"} : seen' = (seen \ {<<id, p>>}) \cup {<<id, o>>},
           UNCHANGED <<cmds, inflight, handed, linked, boot, nextID>>, busy' \subseteq busy
    PROVE  FreshInv' /\ \A s \in seen' : Issued(s[1])
  <1> USE DEF ArriveInv
  <1>1. \A i : Seen(i)' <=> Seen(i)
    <2>1. PICK p \in {"busy", "ok"} : seen' = (seen \ {<<id, p>>}) \cup {<<id, o>>}
      OBVIOUS
    <2>2. Seen(id)'
      BY <2>1 DEF Seen
    <2>3. \A i : i # id => (Seen(i)' <=> Seen(i))
      BY <2>1 DEF Seen
    <2> QED
      BY <2>2, <2>3
  <1>2. FreshInv'
    BY <1>1 DEF FreshInv
  <1>3. Issued(id)
    BY DEF Seen, IssuedInv
  <1>4. \A s \in seen' : Issued(s[1])
    BY <1>3 DEF IssuedInv
  <1> QED
    BY <1>2, <1>4

\* A command is done: if Claude was given its line, the ack says so.
LEMMA DoneArrives ==
    ASSUME TypeInv, ArriveInv, NEW c \in busy, Submit(c) \/ Refuse(c)
    PROVE  ArriveInv'
  <1> USE DEF ArriveInv
  <1>1. PICK o \in {"ok", "failed"} :
            /\ Outcome(c, o)
            /\ IF o = "ok" THEN given' = Append(given, c.line) ELSE given' = given
    BY DEF Submit, Refuse
  <1>2. UNCHANGED <<line, answer, requests, attempts, boot, nextID, cmds, acked, inflight, linked,
                    handed>>
    BY DEF Submit, Refuse
  <1>3. /\ busy' = busy \ {c} /\ seen' = (seen \ {<<c.id, "busy">>}) \cup {<<c.id, o>>}
        /\ acksOut' = Append(acksOut, <<c.id, o = "ok">>)
    BY <1>1 DEF Outcome
  <1>4. /\ c \in InPlay /\ InPlay' \subseteq InPlay /\ c.id \in Id /\ c.line \in Line
        /\ c.line <= line
    BY <1>2, <1>3 DEF InPlay, Waiting, TypeInv, TypeOK, ModType, Command, BelowInv
  <1>5. FreshInv' /\ \A s \in seen' : Issued(s[1])
    <2>1. Seen(c.id)
      BY DEF FreshInv
    <2> QED
      BY <1>2, <1>3, <1>4, <2>1, SeenArrives
  <1>6. ToSet(acksOut') = ToSet(acksOut) \cup {<<c.id, o = "ok">>}
    <2>1. acksOut \in Seq(Id \X BOOLEAN) /\ <<c.id, o = "ok">> \in Id \X BOOLEAN
      BY <1>4 DEF TypeInv, TypeOK, ModType
    <2> QED
      BY <1>3, <2>1, AckSet
  <1>7. ToSet(given') = ToSet(given) \cup (IF o = "ok" THEN {c.line} ELSE {})
    <2>1. given \in Seq(Line)
      BY DEF TypeInv, TypeOK, GhostType
    <2>2. CASE o = "ok"
      BY <1>1, <1>4, <2>1, <2>2, AckSet
    <2>3. CASE o # "ok"
      BY <1>1, <2>3
    <2> QED
      BY <2>2, <2>3
  <1>8. IssuedInv'
    <2>1. \A a \in acked' \cup ToSet(acksOut') : Issued(a[1])
      BY <1>2, <1>4, <1>6 DEF IssuedInv
    <2> QED
      BY <1>2, <1>4, <1>5, <2>1, IssuedKept
  <1>9. TruthInv'
    <2>1. ASSUME NEW l \in Line, attempts[l].at = "sent", Confirmed(attempts[l].id)'
          PROVE  Confirmed(attempts[l].id) \/ l \in ToSet(given')
      <3>1. CASE <<attempts[l].id, TRUE>> = <<c.id, o = "ok">>
        <4>1. attempts[l].id = c.id /\ o = "ok"
          BY <3>1
        <4> QED
          BY <1>4, <1>7, <2>1, <4>1 DEF IssuedInv
      <3>2. CASE <<attempts[l].id, TRUE>> # <<c.id, o = "ok">>
        BY <1>2, <1>6, <2>1, <3>2 DEF Confirmed
      <3> QED
        BY <3>1, <3>2
    <2>2. ToSet(given) \subseteq ToSet(given')
      BY <1>7
    <2> QED
      BY <1>2, <2>1, <2>2, TruthKept
  <1>10. BelowInv'
    BY <1>2, <1>4, <1>7 DEF BelowInv
  <1> QED
    BY <1>5, <1>8, <1>9, <1>10

\* A prompt acked is dropped: what was acked stays said.
LEMMA DroppedArrives ==
    ASSUME TypeInv, ArriveInv, NEW s \in seen, Dropped(s)
    PROVE  ArriveInv'
  <1> USE DEF ArriveInv
  <1>1. UNCHANGED <<line, answer, requests, attempts, boot, nextID, cmds, acked, inflight, linked,
                    handed, busy, acksOut, given>>
    BY DEF Dropped
  <1>2. /\ s = <<s[1], "ok">> /\ s[1] \in Id
        /\ seen' = (seen \ {<<s[1], "ok">>}) \cup {<<s[1], "failed">>}
    BY DEF Dropped, TypeInv, TypeOK, ModType
  <1>3. Seen(s[1])
    BY <1>2 DEF Seen
  <1>4. FreshInv' /\ \A t \in seen' : Issued(t[1])
    BY <1>1, <1>2, <1>3, SeenArrives
  <1>5. InPlay' = InPlay
    BY <1>1 DEF InPlay, Waiting
  <1>6. IssuedInv'
    BY <1>1, <1>4, <1>5, IssuedKept DEF IssuedInv
  <1>7. TruthInv'
    <2>1. \A l \in Line : Confirmed(attempts[l].id)' = Confirmed(attempts[l].id)
      BY <1>1 DEF Confirmed
    <2> QED
      BY <1>1, <2>1, TruthKept
  <1>8. BelowInv'
    BY <1>1, <1>5, BelowKept
  <1> QED
    BY <1>4, <1>6, <1>7, <1>8

-----------------------------------------------------------------------------
\* Nothing was asked and nothing is in play at the start.
LEMMA InitArrives == Init => ArriveInv /\ InOrder
<1> SUFFICES ASSUME Init
             PROVE  ArriveInv /\ InOrder
  OBVIOUS
<1> USE DEF Init
<1>1. InPlay = {} /\ ToSet(given) = {} /\ ToSet(acksOut) = {}
  BY DEF InPlay, Waiting, ToSet
<1>2. \A l \in Line : attempts[l].at = "none"
  BY DEF NoAttempt
<1>3. IssuedInv
  BY <1>1, <1>2 DEF IssuedInv
<1>4. FreshInv
  BY DEF FreshInv, Seen
<1>5. TruthInv /\ BelowInv
  BY <1>1, <1>2 DEF TruthInv, BelowInv
<1>6. InOrder
  BY DEF InOrder
<1> QED
  BY <1>3, <1>4, <1>5, <1>6 DEF ArriveInv

\* Every step keeps it but a repeated hello.
LEMMA StepArrives ==
    ASSUME TypeInv, ArriveInv, [Next]_vars, rehellos = 0, rehellos' = 0
    PROVE  ArriveInv'
<1>1. CASE UNCHANGED vars
  <2>1. InPlay' = InPlay /\ UNCHANGED <<boot, nextID, seen, acked, acksOut, attempts, given, line,
                                        answer, requests, cmds, handed, busy, inflight, linked>>
    BY <1>1 DEF vars, InPlay, Waiting
  <2>2. IssuedInv'
    BY <2>1, IssuedKept DEF ArriveInv, IssuedInv
  <2>3. FreshInv'
    BY <2>1 DEF ArriveInv, FreshInv, Seen
  <2>4. TruthInv'
    BY <2>1, TruthKept DEF ArriveInv, Confirmed
  <2>5. BelowInv'
    BY <2>1, BelowKept DEF ArriveInv
  <2> QED
    BY <2>2, <2>3, <2>4, <2>5 DEF ArriveInv
<1>2. CASE Service
  BY <1>2, ServeArrives, GivesUpArrives, SendArrives, AckReadArrives DEF Service
<1>3. CASE Mod
  BY <1>3, HelloArrives, PollArrives, PostAckArrives, BeginArrives, DoneArrives, DroppedArrives
     DEF Mod
<1> QED
  BY <1>1, <1>2, <1>3, BrowserArrives, RestartArrives, ReloadArrives DEF Next

\* The counter of repeated hellos never goes back to 0.
LEMMA HellosCounted ==
    ASSUME TypeInv, [Next]_vars, rehellos' = 0
    PROVE  rehellos = 0
<1>1. rehellos \in Nat
  BY DEF TypeInv, TypeOK, BoundType
<1>2. CASE Browser
  BY <1>2 DEF Browser, Ask, Cut, RequestDies, Answered
<1>3. CASE Service
  BY <1>3 DEF Service, Serve, NotReady, Send, AckRead, AckTimeout
<1>4. CASE Mod
  <2>1. CASE Hello
    BY <1>1, <2>1 DEF Hello
  <2>2. CASE Poll \/ PostAck
    BY <2>2 DEF Poll, PostAck
  <2>3. ASSUME NEW c, Begin(c) \/ Submit(c) \/ Refuse(c) \/ Dropped(c)
        PROVE  rehellos' = rehellos
    BY <2>3 DEF Begin, Submit, Refuse, Dropped
  <2> QED
    BY <1>4, <2>1, <2>2, <2>3 DEF Mod
<1>5. CASE Restart \/ Reload \/ UNCHANGED vars
  BY <1>5 DEF Restart, Reload, vars
<1> QED
  BY <1>2, <1>3, <1>4, <1>5 DEF Next

\* What Claude is given next is the line the browser is at: it was given all those
\* before, and no line twice.
LEMMA OrderKept ==
    ASSUME TypeInv, OnceInv, ArriveInv, InOrder, [Next]_vars
    PROVE  InOrder'
<1>1. ASSUME NEW c \in busy, Submit(c)
      PROVE  InOrder'
  <2>1. given' = Append(given, c.line) /\ given \in Seq(Line) /\ c.line \in Line /\ line \in Nat
    BY <1>1 DEF Submit, TypeInv, TypeOK, GhostType, ModType, Command, BrowserType
  <2>2. c \in InPlay /\ Live(c)
    BY DEF InPlay, Live
  <2>3. c.line <= line /\ c.line \notin ToSet(given)
    BY <2>2 DEF OnceInv, LineInv, ArriveInv, BelowInv
  <2>4. ~(c.line \in 1..line - 1)
    BY <2>3 DEF ArriveInv, TruthInv
  <2>5. c.line = line
    BY <2>1, <2>3, <2>4 DEF Line
  <2>6. /\ DOMAIN given = 1..Len(given) /\ Len(given) \in Nat
        /\ DOMAIN given' = 1..Len(given) + 1 /\ given'[Len(given) + 1] = c.line
        /\ \A i \in DOMAIN given : given'[i] = given[i]
    BY <2>1
  <2>7. \A i \in DOMAIN given : given[i] <= c.line
    BY <2>5 DEF ArriveInv, BelowInv, ToSet
  <2>8. \A i, j \in DOMAIN given' : i < j => i \in DOMAIN given
    BY <2>6
  <2> QED
    BY <2>6, <2>7, <2>8 DEF InOrder
<1>2. CASE given' = given
  BY <1>2 DEF InOrder
<1>3. given' = given \/ \E c \in busy : Submit(c)
  <2>1. CASE Browser
    BY <2>1 DEF Browser, Ask, Cut, RequestDies, Answered
  <2>2. CASE Service
    BY ZenonT(30), <2>2 DEF Service, Serve, NotReady, Send, AckRead, AckTimeout, End
  <2>3. CASE Mod
    BY <2>3 DEF Mod, Hello, Poll, PostAck, Begin, Refuse, Dropped
  <2>4. CASE Restart \/ Reload \/ UNCHANGED vars
    BY <2>4 DEF Restart, Reload, vars
  <2> QED
    BY <2>1, <2>2, <2>3, <2>4 DEF Next
<1> QED
  BY <1>1, <1>2, <1>3

\* The invariant is inductive.
LEMMA OrderInductive == OrderInv /\ [Next]_vars => OrderInv'
<1> SUFFICES ASSUME OrderInv, [Next]_vars
             PROVE  OrderInv'
  OBVIOUS
<1>1. Inv' /\ TypeInv
  BY Inductive DEF OrderInv, Inv
<1>2. ASSUME rehellos' = 0
      PROVE  ArriveInv' /\ (reloads' = 0 /\ restarts' = 0 => InOrder')
  <2>1. rehellos = 0 /\ ArriveInv
    BY <1>1, <1>2, HellosCounted DEF OrderInv
  <2>2. ArriveInv'
    BY <1>1, <1>2, <2>1, StepArrives
  <2>3. ASSUME reloads' = 0, restarts' = 0
        PROVE  InOrder'
    <3>1. reloads = 0 /\ restarts = 0
      BY <1>1, <2>3, Counted
    <3>2. OnceInv /\ InOrder
      BY <2>1, <3>1 DEF OrderInv, Inv
    <3> QED
      BY <1>1, <2>1, <3>2, OrderKept
  <2> QED
    BY <2>2, <2>3
<1> QED
  BY <1>1, <1>2 DEF OrderInv

LEMMA OrderHolds == Spec => []OrderInv
<1>1. Init => OrderInv
  BY InitType, InitOnce, InitArrives DEF OrderInv, Inv
<1> QED
  BY <1>1, OrderInductive, PTL DEF Spec

\* A line the browser takes for accepted was given to Claude, whatever restarted or
\* was reloaded since, as long as the mod repeated no hello (deliverFirstPrompt,
\* promptOnce.do, seen.ts).
THEOREM Arrived == Spec => []AcceptedArrives
<1>1. OrderInv => AcceptedArrives
  BY DEF OrderInv, ArriveInv, TruthInv, AcceptedArrives
<1> QED
  BY <1>1, OrderHolds, PTL

\* Claude is given the lines in their order, as long as neither side forgot and no
\* hello was repeated (deliverFirstPrompt).
THEOREM Ordered == Spec => []LinesInOrder
<1>1. OrderInv => LinesInOrder
  BY DEF OrderInv, InOrder, LinesInOrder, Remembered
<1> QED
  BY <1>1, OrderHolds, PTL
=============================================================================
