----------------------------- MODULE AgentTurnProofs -----------------------------
(***************************************************************************)
(* A task's result is what Claude said in answer to it, and the last thing *)
(* it said: theorems about AgentTurn, for any number of messages, any      *)
(* answers and any scopes.                                                 *)
(***************************************************************************)
EXTENDS AgentTurn, WellFoundedInduction, TLAPS

-----------------------------------------------------------------------------
(* The largest member of a set of places in the transcript.                *)

\* A set of naturals with a bound has a largest member: the bound less the smallest
\* distance to it.
LEMMA Largest ==
    ASSUME NEW n \in Nat, NEW S, S \subseteq 1..n, S # {}
    PROVE  \E x \in S : \A y \in S : x >= y
  <1> DEFINE T == {n - x : x \in S}
             R == OpToRel(<, Nat)
  <1>1. T \subseteq Nat /\ T # {}
    <2>1. \A x \in S : n - x \in Nat
      OBVIOUS
    <2> QED
      BY <2>1
  <1>2. IsWellFoundedOn(R, Nat)
    BY NatLessThanWellFounded
  <1> HIDE DEF T, R
  <1>3. PICK d \in T : \A y \in T : ~(<<y, d>> \in R)
    BY <1>1, <1>2, WFMin
  <1>4. PICK x \in S : d = n - x
    BY <1>3 DEF T
  <1>5. ASSUME NEW y \in S PROVE x >= y
    <2>1. n - y \in T /\ n - y \in Nat /\ d \in Nat
      BY <1>1, <1>3 DEF T
    <2>2. ~(n - y < d)
      <3>1. <<n - y, d>> \notin R
        BY <1>3, <2>1
      <3> QED
        BY <2>1, <3>1 DEF R, OpToRel
    <2> QED
      BY <1>4, <2>1, <2>2
  <1> QED
    BY <1>5

\* Last is that member, and 0 if there is none.
LEMMA LastOf ==
    ASSUME NEW n \in Nat, NEW S, S \subseteq 1..n
    PROVE  /\ Last(S) \in 0..n /\ (Last(S) = 0 <=> S = {})
           /\ \A x \in S : Last(S) \in S /\ x <= Last(S)
  <1>1. CASE S = {}
    BY <1>1 DEF Last
  <1>2. CASE S # {}
    <2>1. \E x \in S : \A y \in S : x >= y
      BY <1>2, Largest
    <2>2. Max(S) \in S /\ \A y \in S : Max(S) >= y
      BY <2>1 DEF Max
    <2>3. PICK m \in S : m = Max(S)
      BY <2>2
    <2>4. Last(S) = m /\ \A y \in S : m >= y
      BY <1>2, <2>2, <2>3 DEF Last
    <2>5. m \in 1..n /\ \A y \in S : y \in 1..n
      BY <2>3
    <2> QED
      BY <1>2, <2>4, <2>5
  <1> QED
    BY <1>1, <1>2

-----------------------------------------------------------------------------
(* Types.                                                                  *)

Status == {"unsent"} \cup Open \cup Final
Stamp == {"running", "awaiting", "done"}
State == Stamp \cup {""}

StoreType ==
    /\ status \in [Task -> Status] /\ shown \in [Task -> 0..dialogs]
    /\ partial \in [Task -> BOOLEAN] /\ result \in [Task -> 0..Len(transcript)]
RunType ==
    /\ queue \in Seq(Task) /\ cur \in Task \cup {NoTask} /\ mark \in -1..Len(transcript)
    /\ sentAt \in 0..Len(transcript) /\ watch \in Watch
    /\ at \in {"idle", "ready", "mark", "send", "sent", "watch", "act", "late"}
    /\ seen \in State /\ uncleared \in [Task -> BOOLEAN]
ClaudeType ==
    /\ live \in BOOLEAN /\ mod \in BOOLEAN /\ named \in BOOLEAN
    /\ input \in Seq(Task) /\ turn \in Task \cup {NoTask} /\ background \in Task \cup {NoTask}
    /\ transcript \in Seq(Record)
StampType == state \in State /\ stamps \in Seq(Stamp)
DialogType == dialogs \in Nat /\ dialog \in 0..dialogs
RequestType ==
    /\ cancels \in [Task -> {"none", "decline", "interrupt"}]
    /\ answers \in [Answer -> [at : {"idle", "send", "sent", "over", "unverified"},
                               task : Task \cup {NoTask}, tool : 0..dialogs]]
TypeInv ==
    StoreType /\ RunType /\ ClaudeType /\ StampType /\ DialogType /\ RequestType

LEMMA TypeParts == TypeInv => TypeOK
  BY DEF TypeInv, TypeOK, StoreType, RunType, ClaudeType, StampType, DialogType, RequestType,
         Status, State, Stamp

\* The transcript and the count of dialogs only grow.
Grows == Len(transcript) <= Len(transcript') /\ Len(transcript') \in Nat
         /\ dialogs <= dialogs' /\ dialogs' \in Nat

LEMMA StoreSame ==
    ASSUME TypeInv, UNCHANGED storeVars, Grows PROVE StoreType'
  <1>1. Len(transcript) \in Nat /\ dialogs \in Nat
    BY DEF TypeInv, ClaudeType, DialogType
  <1>2. 0..Len(transcript) \subseteq 0..Len(transcript') /\ 0..dialogs \subseteq 0..dialogs'
    BY <1>1 DEF Grows
  <1> QED
    BY <1>2 DEF TypeInv, StoreType, storeVars

LEMMA RunSame ==
    ASSUME TypeInv, UNCHANGED runVars, Grows PROVE RunType'
  <1>1. Len(transcript) \in Nat
    BY DEF TypeInv, ClaudeType
  <1>2. 0..Len(transcript) \subseteq 0..Len(transcript')
        /\ -1..Len(transcript) \subseteq -1..Len(transcript')
    BY <1>1 DEF Grows
  <1> QED
    BY <1>2 DEF TypeInv, RunType, runVars

LEMMA RequestSame ==
    ASSUME TypeInv, UNCHANGED requestVars, Grows PROVE RequestType'
  <1>1. dialogs \in Nat
    BY DEF TypeInv, DialogType
  <1>2. 0..dialogs \subseteq 0..dialogs'
    BY <1>1 DEF Grows
  <1> QED
    BY <1>2 DEF TypeInv, RequestType, requestVars

LEMMA StaysThere ==
    ASSUME TypeInv, UNCHANGED <<transcript, dialogs>> PROVE Grows
  <1>1. Len(transcript) \in Nat /\ dialogs \in Nat
    BY DEF TypeInv, ClaudeType, DialogType
  <1> QED
    BY <1>1 DEF Grows

LEMMA QuestionType == TypeInv => Question \in 0..dialogs /\ Question \in Nat
  BY DEF TypeInv, DialogType, Question

\* What the task store does to one task.
LEMMA UpdateType ==
    ASSUME TypeInv, NEW t, NEW next \in Open \cup Final, Update(t, next)
    PROVE  status' \in [Task -> Status]
  BY DEF TypeInv, StoreType, Update, Status

LEMMA AskType ==
    ASSUME TypeInv, NEW t, NEW q \in 0..dialogs, Ask(t, q)
    PROVE  status' \in [Task -> Status] /\ shown' \in [Task -> 0..dialogs]
  <1>1. status' \in [Task -> Status]
    BY UpdateType DEF Ask, Open
  <1> QED
    BY <1>1 DEF TypeInv, StoreType, Ask

LEMMA SetQuestionType ==
    ASSUME TypeInv, NEW t, NEW q \in 0..dialogs, SetQuestion(t, q)
    PROVE  shown' \in [Task -> 0..dialogs]
  BY DEF TypeInv, StoreType, SetQuestion

LEMMA ReturnsType ==
    ASSUME TypeInv, Returns, UNCHANGED transcript PROVE RunType'
  <1>1. watch' \in Watch
    BY DEF Returns, NoWatch, Watch
  <1>2. Len(transcript') \in Nat
    BY DEF TypeInv, ClaudeType
  <1>3. 0 \in -1..Len(transcript') /\ 0 \in 0..Len(transcript')
    BY <1>2
  <1> QED
    BY <1>1, <1>3 DEF TypeInv, RunType, Returns, State, Stamp

LEMMA FailsType ==
    ASSUME TypeInv, Fails, UNCHANGED <<transcript, dialogs>> PROVE StoreType' /\ RunType'
  <1>1. status' \in [Task -> Status]
    BY UpdateType DEF Fails, Final
  <1> QED
    BY <1>1, ReturnsType DEF Fails, TypeInv, StoreType

LEMMA WatchKept ==
    ASSUME NEW w \in Watch, NEW x \in Timer, NEW xs \in SUBSET Timer
    PROVE  Stopped(w, xs) \in Watch /\ Timing(w, x) \in Watch
  BY DEF Watch, Stopped, Timing

LEMMA GoesType ==
    ASSUME TypeInv, NEW w \in Watch, Goes(w), UNCHANGED transcript PROVE RunType'
  BY DEF TypeInv, RunType, Goes

LEMMA ClosesType ==
    ASSUME TypeInv, Closes, UNCHANGED <<state, dialogs>> PROVE StampType' /\ DialogType'
  <1>1. stamps' \in Seq(Stamp)
    BY DEF TypeInv, StampType, Closes, Stamp
  <1>2. dialog' = 0 /\ 0 \in 0..dialogs
    BY DEF TypeInv, DialogType, Closes
  <1> QED
    BY <1>1, <1>2 DEF TypeInv, StampType, DialogType

\* What a step leaves alone keeps its type.
LEMMA Frames ==
    ASSUME TypeInv
    PROVE  /\ UNCHANGED <<live, mod, named, input, turn, background, transcript>> => ClaudeType'
           /\ UNCHANGED stampVars => StampType'
           /\ UNCHANGED <<dialog, dialogs>> => DialogType'
           /\ UNCHANGED <<requestVars, dialogs, transcript>> => RequestType'
           /\ UNCHANGED <<storeVars, dialogs, transcript>> => StoreType'
           /\ UNCHANGED <<runVars, dialogs, transcript>> => RunType'
  <1>1. /\ UNCHANGED <<live, mod, named, input, turn, background, transcript>> => ClaudeType'
        /\ UNCHANGED stampVars => StampType'
        /\ UNCHANGED <<dialog, dialogs>> => DialogType'
    BY DEF TypeInv, ClaudeType, StampType, stampVars, DialogType
  <1>2. /\ UNCHANGED <<requestVars, dialogs, transcript>> => RequestType'
        /\ UNCHANGED <<storeVars, dialogs, transcript>> => StoreType'
        /\ UNCHANGED <<runVars, dialogs, transcript>> => RunType'
    BY DEF TypeInv, RequestType, requestVars, StoreType, storeVars, RunType, runVars
  <1> QED
    BY <1>1, <1>2

\* The runner takes a message, waits for the pane and marks the transcript.
LEMMA TypeBegins ==
    ASSUME TypeInv, Drain \/ Ready \/ NotReady \/ Mark \/ Gone \/ LetsGo \/ GivesUp
    PROVE  TypeInv'
  <1>1. /\ UNCHANGED <<live, mod, named, input, turn, background, transcript, dialog, dialogs>>
        /\ UNCHANGED stampVars /\ UNCHANGED requestVars
    BY DEF Drain, Ready, NotReady, Mark, Gone, LetsGo, GivesUp, claudeVars, countVars
  <1>2. ClaudeType' /\ StampType' /\ DialogType' /\ RequestType'
    BY <1>1, Frames
  <1>3. CASE Drain
    <2>1. StoreType'
      BY <1>1, <1>3, Frames DEF Drain
    <2>2. queue' \in Seq(Task) /\ Head(queue) \in Task
      BY <1>3 DEF Drain, TypeInv, RunType
    <2>3. RunType'
      BY <1>1, <1>3, <2>2 DEF Drain, TypeInv, RunType
    <2> QED
      BY <1>2, <2>1, <2>3 DEF TypeInv
  <1>4. ASSUME NEW u \in BOOLEAN, GoesOn(u) PROVE RunType'
    <2>1. CASE Returns
      BY <1>1, <2>1, ReturnsType
    <2>2. CASE ~Returns
      BY <1>1, <1>4, <2>2 DEF GoesOn, TypeInv, RunType
    <2> QED
      BY <2>1, <2>2
  <1>5. CASE Ready
    <2>1. StoreType' /\ RunType'
      BY <1>1, <1>4, <1>5, Frames DEF Ready
    <2> QED
      BY <1>2, <2>1 DEF TypeInv
  <1>6. CASE NotReady
    <2>1. CASE Fails
      BY <1>1, <1>2, <2>1, FailsType DEF TypeInv
    <2>2. CASE GoesOn(TRUE) /\ UNCHANGED storeVars
      <3>1. StoreType' /\ RunType'
        BY <1>1, <1>4, <2>2, Frames
      <3> QED
        BY <1>2, <3>1 DEF TypeInv
    <2> QED
      BY <1>6, <2>1, <2>2 DEF NotReady
  <1>7. CASE Mark
    <2>1. StoreType'
      BY <1>1, <1>7, Frames DEF Mark
    <2>2. mark' \in -1..Len(transcript')
      <3>1. Len(transcript) \in Nat
        BY DEF TypeInv, ClaudeType
      <3>2. mark' \in {Len(transcript'), -1, 0}
        BY <1>1, <1>7 DEF Mark, Unknown
      <3> QED
        BY <1>1, <3>1, <3>2
    <2>3. RunType'
      BY <1>1, <1>7, <2>2 DEF Mark, TypeInv, RunType
    <2> QED
      BY <1>2, <2>1, <2>3 DEF TypeInv
  <1>8. CASE Gone \/ GivesUp
    <2>1. StoreType' /\ RunType'
      BY <1>1, <1>8, FailsType DEF Gone, GivesUp
    <2> QED
      BY <1>2, <2>1 DEF TypeInv
  <1>9. CASE LetsGo
    <2>1. StoreType' /\ RunType'
      BY <1>1, <1>9, Frames, ReturnsType DEF LetsGo
    <2> QED
      BY <1>2, <2>1 DEF TypeInv
  <1> QED
    BY <1>3, <1>5, <1>6, <1>7, <1>8, <1>9

LEMMA TypeSend == ASSUME TypeInv, Send, cur # NoTask PROVE TypeInv'
  <1>1. /\ UNCHANGED <<live, mod, named, turn, background, transcript, dialogs, state>>
        /\ UNCHANGED requestVars
    BY DEF Send
  <1>2. RequestType'
    BY <1>1, Frames
  <1>3. CASE at' = "sent" /\ sentAt' = Len(transcript) /\ UNCHANGED <<storeVars, queue, cur, uncleared, mark, seen, watch>>
    <2>1. StoreType'
      BY <1>1, <1>3, Frames
    <2>2. RunType'
      <3>1. Len(transcript) \in 0..Len(transcript)
        BY DEF TypeInv, ClaudeType
      <3> QED
        BY <1>1, <1>3, <3>1 DEF TypeInv, RunType
    <2>3. input' \in Seq(Task)
      <3>1. cur \in Task /\ input \in Seq(Task)
        BY DEF TypeInv, RunType, ClaudeType
      <3>2. input' = input \/ input' = Append(input, cur)
        BY DEF Send
      <3> QED
        BY <3>1, <3>2
    <2>4. ClaudeType'
      BY <1>1, <2>3 DEF TypeInv, ClaudeType
    <2>5. StampType' /\ DialogType'
      <3>1. CASE Closes
        BY <1>1, <3>1, ClosesType
      <3>2. CASE UNCHANGED <<dialog, stamps>>
        BY <1>1, <3>2, Frames DEF stampVars
      <3> QED
        BY <3>1, <3>2 DEF Send
    <2> QED
      BY <1>2, <2>1, <2>2, <2>4, <2>5 DEF TypeInv
  <1>4. CASE Fails /\ UNCHANGED <<input, dialog, stamps>>
    <2>1. StoreType' /\ RunType'
      BY <1>1, <1>4, FailsType
    <2>2. ClaudeType' /\ StampType' /\ DialogType'
      BY <1>1, <1>4, Frames DEF stampVars
    <2> QED
      BY <1>2, <2>1, <2>2 DEF TypeInv
  <1> QED
    BY <1>3, <1>4 DEF Send

\* The watch and its ticks.
LEMMA TypeWatch ==
    ASSUME TypeInv, Sent \/ Look \/ \E x \in Timer : Elapses(x) PROVE TypeInv'
  <1>1. /\ UNCHANGED <<live, mod, named, input, turn, background, transcript, dialog, dialogs>>
        /\ UNCHANGED <<stamps, shown, result, partial>> /\ UNCHANGED requestVars
        /\ UNCHANGED <<queue, cur, uncleared, mark, sentAt>>
    BY DEF Sent, Look, Elapses, claudeVars, stampVars, countVars, storeVars
  <1>2. ClaudeType' /\ DialogType' /\ RequestType'
    BY <1>1, Frames
  <1>3. CASE Sent
    <2>1. watch' \in Watch
      BY <1>3 DEF Sent, Watch, NoWatch, Timer
    <2>2. RunType'
      BY <1>1, <1>3, <2>1 DEF Sent, TypeInv, RunType
    <2>3. status' \in [Task -> Status]
      BY <1>3, UpdateType DEF Sent, Open
    <2>4. StoreType'
      BY <1>1, <2>3 DEF TypeInv, StoreType
    <2>5. StampType'
      BY <1>3, Frames DEF Sent
    <2> QED
      BY <1>2, <2>2, <2>4, <2>5 DEF TypeInv
  <1>4. CASE Look
    <2>1. StoreType'
      BY <1>1, <1>4, Frames DEF Look
    <2>2. Modless \in State
      BY DEF Modless, State, Stamp
    <2>3. seen' \in State /\ state' \in State
      BY <1>4, <2>2 DEF Look, TypeInv, StampType
    <2>4. RunType' /\ StampType'
      BY <1>1, <1>4, <2>3 DEF Look, TypeInv, RunType, StampType
    <2> QED
      BY <1>2, <2>1, <2>4 DEF TypeInv
  <1>5. ASSUME NEW x \in Timer, Elapses(x) PROVE TypeInv'
    <2>1. StoreType' /\ StampType'
      BY <1>1, <1>5, Frames DEF Elapses
    <2>2. watch' \in Watch
      BY <1>5 DEF Elapses, TypeInv, RunType, Watch
    <2>3. RunType'
      BY <1>1, <1>5, <2>2 DEF Elapses, TypeInv, RunType
    <2> QED
      BY <1>2, <2>1, <2>3 DEF TypeInv
  <1> QED
    BY <1>3, <1>4, <1>5

\* A tick acts on what it saw.
LEMMA TypeActs ==
    ASSUME TypeInv, SeesRunning \/ SeesDialog \/ SeesDone \/ SeesNothing PROVE TypeInv'
  <1>1. /\ UNCHANGED <<live, mod, named, input, turn, background, transcript, dialog, dialogs>>
        /\ UNCHANGED stampVars /\ UNCHANGED requestVars
    BY DEF SeesRunning, SeesDialog, SeesDone, SeesNothing, Acts, claudeVars, countVars
  <1>2. ClaudeType' /\ StampType' /\ DialogType' /\ RequestType'
    BY <1>1, Frames
  <1>3. watch \in Watch /\ cur \in Task \cup {NoTask}
    BY DEF TypeInv, RunType
  <1>4. CASE SeesRunning
    <2> DEFINE w == Stopped([watch EXCEPT !.saw = TRUE, !.asked = FALSE], {"start", "done", "unknown"})
    <2>1. [watch EXCEPT !.saw = TRUE, !.asked = FALSE] \in Watch
      BY <1>3 DEF Watch
    <2>2. w \in Watch
      BY <2>1, WatchKept DEF Timer
    <2>3. Goes(w) /\ Update(cur, "running") /\ UNCHANGED <<shown, result, partial>>
      BY <1>4 DEF SeesRunning
    <2> HIDE DEF w
    <2>4. RunType'
      BY <1>1, <2>2, <2>3, GoesType
    <2>5. status' \in [Task -> Status]
      BY <2>3, UpdateType DEF Open
    <2>6. StoreType'
      BY <1>1, <2>3, <2>5 DEF TypeInv, StoreType
    <2> QED
      BY <1>2, <2>4, <2>6 DEF TypeInv
  <1>5. CASE SeesDialog
    <2>1. PICK w \in Watch : w = Stopped([watch EXCEPT !.saw = TRUE], {"start", "done"})
      <3>1. [watch EXCEPT !.saw = TRUE] \in Watch
        BY <1>3 DEF Watch
      <3> QED
        BY <3>1, WatchKept DEF Timer
    <2>2. Timing(w, "unknown") \in Watch
      BY WatchKept DEF Timer
    <2>3. [w EXCEPT !.asked = TRUE, !.tool = Question] \in Watch /\ [w EXCEPT !.tool = Question] \in Watch
      BY QuestionType DEF Watch
    <2>4. 0 \in 0..dialogs /\ Question \in 0..dialogs
      BY QuestionType DEF TypeInv, DialogType
    <2>5. \E v \in Watch : Goes(v)
      BY <1>5, <2>1, <2>2, <2>3 DEF SeesDialog
    <2>6. RunType'
      BY <1>1, <2>5, GoesType
    <2>7. \/ \E q \in 0..dialogs : Ask(cur, q)
          \/ SetQuestion(cur, Question) /\ UNCHANGED status
          \/ UNCHANGED <<status, shown>>
      BY <1>5, <2>4 DEF SeesDialog
    <2>8. status' \in [Task -> Status] /\ shown' \in [Task -> 0..dialogs]
      BY <2>4, <2>7, AskType, SetQuestionType DEF TypeInv, StoreType
    <2>9. UNCHANGED <<result, partial>>
      BY <1>5 DEF SeesDialog
    <2>10. StoreType'
      BY <1>1, <2>8, <2>9 DEF TypeInv, StoreType
    <2> QED
      BY <1>2, <2>6, <2>10 DEF TypeInv
  <1>6. CASE Fails
    BY <1>1, <1>2, <1>6, FailsType DEF TypeInv
  <1>7. ASSUME NEW w \in Watch, Goes(w), UNCHANGED storeVars PROVE TypeInv'
    <2>1. RunType' /\ StoreType'
      BY <1>1, <1>7, GoesType, Frames
    <2> QED
      BY <1>2, <2>1 DEF TypeInv
  <1>8. CASE SeesNothing
    BY <1>3, <1>6, <1>7, <1>8 DEF SeesNothing
  <1>9. ASSUME NEW bg \in BOOLEAN, Settles(bg) PROVE TypeInv'
    <2>1. RunType'
      BY <1>1, <1>9, ReturnsType DEF Settles
    <2>2. status' \in [Task -> Status]
      BY <1>9, UpdateType DEF Settles, Final
    <2>3. Words \in 0..Len(transcript)
      <3>1. Of({"words"}) \subseteq 1..Len(transcript) /\ Len(transcript) \in Nat
        BY DEF Of, Turn, TypeInv, ClaudeType
      <3> QED
        BY <3>1, LastOf DEF Words
    <2>4. result' \in [Task -> 0..Len(transcript)] /\ partial' \in [Task -> BOOLEAN] /\ shown' = shown
      BY <1>9, <2>3 DEF Settles, TypeInv, StoreType
    <2>5. StoreType'
      BY <1>1, <2>2, <2>4 DEF TypeInv, StoreType
    <2> QED
      BY <1>2, <2>1, <2>5 DEF TypeInv
  <1>10. CASE SeesDone
    <2>1. Timing(watch, "done") \in Watch /\ Timing(watch, "hold") \in Watch
      BY <1>3, WatchKept DEF Timer
    <2>2. CASE Goes(Timing(watch, "hold")) /\ Update(cur, "running") /\ UNCHANGED <<shown, result, partial>>
      <3>1. RunType'
        BY <1>1, <2>1, <2>2, GoesType
      <3>2. status' \in [Task -> Status]
        BY <2>2, UpdateType DEF Open
      <3>3. StoreType'
        BY <1>1, <2>2, <3>2 DEF TypeInv, StoreType
      <3> QED
        BY <1>2, <3>1, <3>3 DEF TypeInv
    <2>3. \/ Fails
          \/ \E w \in Watch : Goes(w) /\ UNCHANGED storeVars
          \/ \E bg \in BOOLEAN : Settles(bg)
          \/ Goes(Timing(watch, "hold")) /\ Update(cur, "running") /\ UNCHANGED <<shown, result, partial>>
      BY <1>3, <1>10, <2>1 DEF SeesDone
    <2> QED
      BY <1>6, <1>7, <1>9, <2>2, <2>3
  <1> QED
    BY <1>4, <1>5, <1>8, <1>10

\* The caller's steps.
LEMMA TypeRequests ==
    ASSUME TypeInv, NEW t \in Task,
           Post(t) \/ Cancel(t) \/ Decline(t) \/ Interrupt(t) \/ Deletes
    PROVE  TypeInv'
  <1>1. /\ UNCHANGED <<mod, named, transcript, dialogs, shown, result, partial, answers>>
    BY DEF Post, Cancel, Decline, Interrupt, Deletes, claudeVars, stampVars, requestVars, countVars, storeVars
  <1>2. UNCHANGED runVars \/ Post(t)
    BY DEF Cancel, Decline, Interrupt, Deletes, runVars
  <1>3. RunType'
    <2>1. CASE UNCHANGED runVars
      BY <1>1, <2>1, Frames
    <2>2. CASE Post(t)
      BY <1>1, <2>2 DEF Post, TypeInv, RunType
    <2> QED
      BY <1>2, <2>1, <2>2
  <1>4. status' \in [Task -> Status]
    BY DEF Post, Cancel, Decline, Interrupt, Deletes, storeVars, TypeInv, StoreType, Status, Open, Final
  <1>5. StoreType'
    BY <1>1, <1>4 DEF TypeInv, StoreType
  <1>6. cancels' \in [Task -> {"none", "decline", "interrupt"}]
    BY DEF Post, Cancel, Decline, Interrupt, Deletes, requestVars, TypeInv, RequestType
  <1>7. RequestType'
    BY <1>1, <1>6 DEF TypeInv, RequestType
  <1>8. ClaudeType'
    <2>1. live' \in BOOLEAN /\ turn' \in Task \cup {NoTask} /\ background' \in Task \cup {NoTask}
      BY DEF Post, Cancel, Decline, Interrupt, Deletes, claudeVars, TypeInv, ClaudeType
    <2>2. input' \in Seq(Task)
      <3>1. input' = input \/ input' = <<>>
        BY DEF Post, Cancel, Decline, Interrupt, Deletes, claudeVars
      <3>2. input \in Seq(Task) /\ <<>> \in Seq(Task)
        BY DEF TypeInv, ClaudeType
      <3> QED
        BY <3>1, <3>2
    <2> QED
      BY <1>1, <2>1, <2>2 DEF TypeInv, ClaudeType
  <1>9. StampType' /\ DialogType'
    <2>1. CASE Closes /\ state' = state
      BY <1>1, <2>1, ClosesType
    <2>2. CASE (dialog' = dialog \/ dialog' = 0) /\ stamps' = stamps /\ state' \in State
      <3>1. 0 \in 0..dialogs
        BY DEF TypeInv, DialogType
      <3> QED
        BY <1>1, <2>2, <3>1 DEF TypeInv, StampType, DialogType
    <2>3. (Closes /\ state' = state)
          \/ ((dialog' = dialog \/ dialog' = 0) /\ stamps' = stamps /\ state' \in State)
      BY DEF Post, Cancel, Decline, Interrupt, StampStopped, Deletes, claudeVars, stampVars, TypeInv, StampType,
         State, Stamp
    <2> QED
      BY <2>1, <2>2, <2>3
  <1> QED
    BY <1>3, <1>5, <1>7, <1>8, <1>9 DEF TypeInv

LEMMA TypeAnswers ==
    ASSUME TypeInv, NEW a \in Answer,
           (\E t \in Task : BeginAnswer(a, t)) \/ SendAnswer(a) \/ Lands(a) \/ TimesOut(a)
    PROVE  TypeInv'
  <1>1. /\ UNCHANGED <<live, mod, named, input, turn, background, transcript, dialogs, result, partial, state>>
        /\ UNCHANGED runVars /\ cancels' = cancels
    BY DEF BeginAnswer, SendAnswer, Lands, TimesOut, claudeVars, stampVars, countVars, storeVars, requestVars
  <1>2. ClaudeType' /\ RunType'
    BY <1>1, Frames
  <1>3. 0 \in 0..dialogs /\ Question \in 0..dialogs
    BY QuestionType DEF TypeInv, DialogType
  <1>4. status' \in [Task -> Status] /\ shown' \in [Task -> 0..dialogs]
    <2>1. \/ UNCHANGED status
          \/ \E t : Update(t, "running")
      BY DEF BeginAnswer, SendAnswer, Lands, TimesOut, storeVars
    <2>2. UNCHANGED shown \/ \E t : SetQuestion(t, Question)
      BY DEF BeginAnswer, SendAnswer, Lands, TimesOut, storeVars
    <2>3. status' \in [Task -> Status]
      BY <2>1, UpdateType DEF TypeInv, StoreType, Open
    <2>4. shown' \in [Task -> 0..dialogs]
      BY <1>3, <2>2, SetQuestionType DEF TypeInv, StoreType
    <2> QED
      BY <2>3, <2>4
  <1>5. StoreType'
    BY <1>1, <1>4 DEF TypeInv, StoreType
  <1>6. RequestType'
    <2> DEFINE A == [at : {"idle", "send", "sent", "over", "unverified"}, task : Task \cup {NoTask}, tool : 0..dialogs]
    <2>1. Over \in A
      BY <1>3 DEF Over, NoAnswer
    <2>2. \A t \in Task : [at |-> "send", task |-> t, tool |-> Question] \in A
      BY <1>3
    <2>3. answers[a] \in A
      BY DEF TypeInv, RequestType
    <2>4. [answers[a] EXCEPT !.at = "sent"] \in A /\ [answers[a] EXCEPT !.at = "unverified"] \in A
      BY <2>3
    <2> HIDE DEF A
    <2>5. \/ answers' = answers
          \/ \E x \in A : answers' = [answers EXCEPT ![a] = x]
      BY <2>1, <2>2, <2>4 DEF BeginAnswer, SendAnswer, Lands, TimesOut, requestVars
    <2>6. answers' \in [Answer -> A]
      BY <2>5 DEF TypeInv, RequestType, A
    <2> QED
      BY <1>1, <2>6 DEF TypeInv, RequestType, A
  <1>7. StampType' /\ DialogType'
    <2>1. CASE Closes
      BY <1>1, <2>1, ClosesType
    <2>2. CASE UNCHANGED <<dialog, stamps>>
      BY <1>1, <2>2, Frames DEF stampVars
    <2> QED
      BY <2>1, <2>2 DEF BeginAnswer, SendAnswer, Lands, TimesOut, claudeVars, stampVars
  <1> QED
    BY <1>2, <1>5, <1>6, <1>7 DEF TypeInv

\* One sequence after another, and sequences of a few.
LEMMA Joined ==
    ASSUME NEW S, NEW s \in Seq(S), NEW r \in Seq(S)
    PROVE  /\ s \o r \in Seq(S) /\ Len(s) \in Nat /\ Len(s \o r) = Len(s) + Len(r)
           /\ DOMAIN s = 1..Len(s) /\ DOMAIN (s \o r) = 1..Len(s \o r)
           /\ \A i \in DOMAIN s : i \in DOMAIN (s \o r) /\ (s \o r)[i] = s[i]
           /\ \A k \in DOMAIN r :
                 Len(s) + k \in DOMAIN (s \o r) /\ (s \o r)[Len(s) + k] = r[k]
           /\ \A i \in DOMAIN (s \o r) : i \notin DOMAIN s =>
                 i - Len(s) \in DOMAIN r /\ (s \o r)[i] = r[i - Len(s)]
  <1>1. s \o r \in Seq(S) /\ Len(s) \in Nat /\ Len(r) \in Nat /\ Len(s \o r) = Len(s) + Len(r)
    OBVIOUS
  <1>2. DOMAIN s = 1..Len(s) /\ DOMAIN r = 1..Len(r) /\ DOMAIN (s \o r) = 1..(Len(s) + Len(r))
    OBVIOUS
  <1>3. \A i \in 1..Len(s) : (s \o r)[i] = s[i]
    OBVIOUS
  <1>4. \A i \in 1..(Len(s) + Len(r)) : i \notin 1..Len(s) => (s \o r)[i] = r[i - Len(s)]
    OBVIOUS
  <1>5. \A k \in 1..Len(r) : Len(s) + k \in 1..(Len(s) + Len(r)) /\ Len(s) + k \notin 1..Len(s)
                             /\ Len(s) + k - Len(s) = k
    BY <1>1
  <1>6. \A i \in 1..(Len(s) + Len(r)) : i \notin 1..Len(s) => i - Len(s) \in 1..Len(r)
    BY <1>1
  <1>7. \A i \in 1..Len(s) : i \in 1..(Len(s) + Len(r))
    BY <1>1
  <1> QED
    BY <1>1, <1>2, <1>3, <1>4, <1>5, <1>6, <1>7

LEMMA AppendedOne ==
    ASSUME NEW S, NEW s \in Seq(S), NEW c \in S
    PROVE  /\ Append(s, c) \in Seq(S) /\ Len(s) \in Nat /\ Len(Append(s, c)) = Len(s) + 1
           /\ \A i \in 1..Len(s) : Append(s, c)[i] = s[i]
           /\ Append(s, c)[Len(s) + 1] = c
  OBVIOUS

LEMMA Few ==
    ASSUME NEW S, NEW a \in S, NEW b \in S, NEW c \in S
    PROVE  /\ <<a, b>> \in Seq(S) /\ Append(<<a, b>>, c) \in Seq(S)
           /\ DOMAIN <<a, b>> = {1, 2} /\ DOMAIN Append(<<a, b>>, c) = {1, 2, 3}
           /\ Append(<<a, b>>, c)[1] = a /\ Append(<<a, b>>, c)[2] = b
           /\ Append(<<a, b>>, c)[3] = c
  <1>1. <<a, b>> \in Seq(S) /\ Len(<<a, b>>) = 2 /\ <<a, b>>[1] = a /\ <<a, b>>[2] = b
    OBVIOUS
  <1>2. PICK s \in Seq(S) : s = <<a, b>>
    BY <1>1
  <1>3. Len(s) = 2 /\ s[1] = a /\ s[2] = b
    BY <1>1, <1>2
  <1>4. DOMAIN s = 1..2
    BY <1>3
  <1>5. /\ Append(s, c) \in Seq(S) /\ Len(Append(s, c)) = Len(s) + 1
        /\ \A i \in 1..Len(s) : Append(s, c)[i] = s[i]
        /\ Append(s, c)[Len(s) + 1] = c
    BY <1>1, <1>2, AppendedOne
  <1>6. PICK u \in Seq(S) : u = Append(s, c)
    BY <1>5
  <1>7. Len(u) = 3 /\ u[1] = a /\ u[2] = b /\ u[3] = c /\ DOMAIN u = 1..3
    BY <1>3, <1>5, <1>6
  <1>8. 1..2 = {1, 2} /\ 1..3 = {1, 2, 3}
    OBVIOUS
  <1> QED
    BY <1>2, <1>4, <1>6, <1>7, <1>8

\* What Claude writes: the transcript gains the records, and keeps those it has.
LEMMA WritesGrows ==
    ASSUME ClaudeType, NEW rs \in Seq(Record), Writes(rs)
    PROVE  /\ transcript' \in Seq(Record) /\ named' \in BOOLEAN
           /\ Len(transcript) \in Nat /\ Len(transcript') = Len(transcript) + Len(rs)
           /\ DOMAIN transcript = 1..Len(transcript) /\ DOMAIN transcript' = 1..Len(transcript')
           /\ \A i \in DOMAIN transcript : i \in DOMAIN transcript' /\ transcript'[i] = transcript[i]
           /\ \A k \in DOMAIN rs :
                 Len(transcript) + k \in DOMAIN transcript' /\ transcript'[Len(transcript) + k] = rs[k]
           /\ \A i \in DOMAIN transcript' : i \notin DOMAIN transcript =>
                 i - Len(transcript) \in DOMAIN rs /\ transcript'[i] = rs[i - Len(transcript)]
  <1>1. transcript \in Seq(Record) /\ transcript' = transcript \o rs /\ named' \in BOOLEAN
    BY DEF ClaudeType, Writes
  <1> QED
    BY <1>1, Joined

LEMMA RecordType == \A t \in Task :
    {Rec(k, t) : k \in {"prompt", "words", "launch", "notice", "queued", "end"}} \subseteq Record
  BY DEF Rec, Record

LEMMA StampsType ==
    ASSUME TypeInv, NEW ss \in Seq(Stamp), Stamps(ss) PROVE stamps' \in Seq(Stamp)
  BY DEF TypeInv, StampType, Stamps

LEMMA FewStamps ==
    /\ <<"running">> \in Seq(Stamp) /\ <<"awaiting">> \in Seq(Stamp) /\ <<"done">> \in Seq(Stamp)
    /\ <<"done", "running">> \in Seq(Stamp)
  BY DEF Stamp

LEMMA NextInput ==
    ASSUME ClaudeType, input # <<>> PROVE Head(input) \in Task /\ Tail(input) \in Seq(Task)
  BY DEF ClaudeType

\* What Claude writes at one time.
LEMMA WrittenType ==
    ASSUME NEW t \in Task, NEW u \in Task
    PROVE  /\ \A k \in {"prompt", "words", "launch", "notice", "queued", "end"} :
                 <<Rec(k, t)>> \in Seq(Record)
           /\ <<Rec("words", t), Rec("end", t)>> \in Seq(Record)
           /\ Append(<<Rec("words", t), Rec("end", t)>>, Rec("prompt", u)) \in Seq(Record)
  <1>1. PICK a \in Record : a = Rec("words", t)
    BY RecordType
  <1>2. PICK b \in Record : b = Rec("end", t)
    BY RecordType
  <1>3. PICK c \in Record : c = Rec("prompt", u)
    BY RecordType
  <1>4. <<a, b>> \in Seq(Record) /\ Append(<<a, b>>, c) \in Seq(Record)
    BY Few
  <1>5. ASSUME NEW k \in {"prompt", "words", "launch", "notice", "queued", "end"}
        PROVE  <<Rec(k, t)>> \in Seq(Record)
    <2>1. Rec(k, t) \in Record
      BY RecordType
    <2> QED
      BY <2>1
  <1> QED
    BY <1>1, <1>2, <1>3, <1>4, <1>5

\* Claude's steps.
LEMMA TypeClaude ==
    ASSUME TypeInv, Begins \/ Says \/ Launches \/ Opens \/ Finishes \/ Notified \/ Names
    PROVE  TypeInv'
  <1>1. /\ UNCHANGED <<live, mod, state>> /\ UNCHANGED storeVars
        /\ UNCHANGED runVars /\ UNCHANGED requestVars
    BY DEF Begins, Says, Launches, Opens, Finishes, Notified, Names, Claude
  <1>2. ClaudeType /\ StampType
    BY DEF TypeInv
  <1>3. \/ UNCHANGED transcript /\ named' \in BOOLEAN
        \/ \E rs \in Seq(Record) : Writes(rs)
    <2>1. CASE Begins
      BY <1>2, <2>1, NextInput, WrittenType DEF Begins
    <2>2. CASE Says \/ Launches
      <3>1. turn \in Task
        BY <1>2, <2>2 DEF Says, Launches, Working, ClaudeType
      <3> QED
        BY <2>2, <3>1, WrittenType DEF Says, Launches
    <2>3. CASE Finishes
      <3>1. turn \in Task
        BY <1>2, <2>3 DEF Finishes, Working, ClaudeType
      <3>2. CASE input = <<>>
        BY <2>3, <3>1, <3>2, WrittenType DEF Finishes
      <3>3. CASE input # <<>>
        <4>1. Head(input) \in Task
          BY <1>2, <3>3, NextInput
        <4> QED
          BY <2>3, <3>1, <3>3, <4>1, WrittenType DEF Finishes
      <3> QED
        BY <3>2, <3>3
    <2>4. CASE Notified
      <3>1. background \in Task
        BY <1>2, <2>4 DEF Notified, ClaudeType
      <3> QED
        BY <2>4, <3>1, WrittenType DEF Notified
    <2>5. CASE Opens \/ Names
      BY <1>2, <2>5 DEF Opens, Names, ClaudeType
    <2> QED
      BY <2>1, <2>2, <2>3, <2>4, <2>5
  <1>4. /\ transcript' \in Seq(Record) /\ named' \in BOOLEAN
        /\ Len(transcript) <= Len(transcript') /\ Len(transcript') \in Nat
    <2>1. CASE UNCHANGED transcript /\ named' \in BOOLEAN
      BY <1>2, <2>1 DEF ClaudeType
    <2>2. ASSUME NEW rs \in Seq(Record), Writes(rs)
          PROVE  /\ transcript' \in Seq(Record) /\ named' \in BOOLEAN
                 /\ Len(transcript) <= Len(transcript') /\ Len(transcript') \in Nat
      <3>1. /\ transcript' \in Seq(Record) /\ named' \in BOOLEAN
            /\ Len(transcript) \in Nat /\ Len(transcript') = Len(transcript) + Len(rs)
        BY <1>2, <2>2, WritesGrows
      <3>2. Len(rs) \in Nat
        OBVIOUS
      <3> QED
        BY <3>1, <3>2
    <2> QED
      BY <1>3, <2>1, <2>2
  <1>5. dialogs \in Nat /\ dialogs' \in Nat /\ dialogs <= dialogs' /\ dialog' \in 0..dialogs'
    <2>1. dialogs \in Nat /\ dialog \in 0..dialogs
      BY DEF TypeInv, DialogType
    <2>2. UNCHANGED <<dialogs, dialog>> \/ (dialogs' = dialogs + 1 /\ dialog' = dialogs + 1)
      BY DEF Begins, Says, Launches, Opens, Finishes, Notified, Names, countVars
    <2> QED
      BY <2>1, <2>2
  <1>6. StoreType' /\ RunType' /\ RequestType' /\ DialogType'
    BY <1>1, <1>4, <1>5, StoreSame, RunSame, RequestSame DEF Grows, DialogType
  <1>7. StampType'
    <2>1. UNCHANGED stamps \/ \E ss \in Seq(Stamp) : Stamps(ss)
      BY FewStamps DEF Begins, Says, Launches, Opens, Finishes, Notified, Names
    <2> QED
      BY <1>1, <2>1, StampsType DEF TypeInv, StampType
  <1>8. input' \in Seq(Task) /\ turn' \in Task \cup {NoTask} /\ background' \in Task \cup {NoTask}
    <2>1. CASE UNCHANGED input
      BY <1>2, <2>1, NextInput DEF Begins, Says, Launches, Opens, Finishes, Notified, Names, ClaudeType
    <2>2. CASE input # <<>> /\ input' = Tail(input)
      BY <1>2, <2>2, NextInput DEF Begins, Says, Launches, Opens, Finishes, Notified, Names, ClaudeType
    <2> QED
      BY <2>1, <2>2 DEF Begins, Says, Launches, Opens, Finishes, Notified, Names
  <1>9. ClaudeType'
    BY <1>1, <1>2, <1>4, <1>8 DEF ClaudeType
  <1> QED
    BY <1>6, <1>7, <1>9 DEF TypeInv

LEMMA TypeStampNext == ASSUME TypeInv, StampNext PROVE TypeInv'
  <1>1. /\ UNCHANGED <<live, mod, named, input, turn, background, transcript, dialog, dialogs>>
        /\ UNCHANGED storeVars /\ UNCHANGED runVars /\ UNCHANGED requestVars
    BY DEF StampNext, claudeVars, countVars
  <1>2. StoreType' /\ RunType' /\ RequestType' /\ ClaudeType' /\ DialogType'
    BY <1>1, Frames
  <1>3. state' \in Stamp /\ stamps' \in Seq(Stamp)
    BY DEF StampNext, TypeInv, StampType
  <1> QED
    BY <1>2, <1>3 DEF TypeInv, StampType, State

-----------------------------------------------------------------------------
(* The inductive invariant.                                                *)

Rows == DOMAIN transcript
Told(i) == transcript[i].kind \in {"prompt", "notice"}
Said(i) == transcript[i].kind = "words"
Within(x, s) == \E i \in DOMAIN s : s[i] = x

\* Each task is taken once, and what is taken or waits was posted and is not over.
Going == Status \ {"unsent", "done", "failed"}
QueueInv ==
    /\ at = "idle" <=> cur = NoTask
    /\ cur # NoTask => status[cur] \in Going
    /\ \A i, j \in DOMAIN queue : queue[i] = queue[j] => i = j
    /\ \A i \in DOMAIN queue : queue[i] # cur /\ status[queue[i]] \in Going

\* A message is typed once, when its turn comes: nothing of it is there before, and
\* while it lies in the box nothing is said of it.
Typed(t) == Within(t, input) \/ \E i \in Rows : transcript[i].of = t
Untyped(t) ==
    status[t] = "unsent" \/ Within(t, queue) \/ (t = cur /\ at \in {"ready", "mark", "send"})
TypedInv ==
    /\ \A t \in Task : Untyped(t) => ~Typed(t)
    /\ \A i, j \in DOMAIN input : input[i] = input[j] => i = j
    /\ \A i \in DOMAIN input, j \in Rows : transcript[j].of # input[i]

\* A turn was begun by a record, and has not ended since; background work was launched
\* and is not back.
Begun(t) ==
    \E i \in Rows : /\ Told(i) /\ transcript[i].of = t
                    /\ \A j \in Rows : j > i => transcript[j].kind # "end"
Launched(t) == \E i \in Rows : transcript[i] = Rec("launch", t)
Back(j) == transcript[j].kind \in {"notice", "queued"}
TurnInv ==
    /\ turn # NoTask => Begun(turn)
    /\ background # NoTask =>
          Launched(background) /\ \A j \in Rows : Back(j) => transcript[j].of # background
    /\ \A j \in Rows : Back(j) => Launched(transcript[j].of)

\* Under way, but for a dialog, the newest stamp is not "done"; once the turn has said
\* something the mod has no "done" to stamp; and a session that is not stamped has said
\* nothing.
Newest == IF stamps = <<>> THEN state ELSE stamps[Len(stamps)]
Answering == \E i \in Rows : Said(i) /\ \A j \in Rows : j > i => ~Told(j)
StampInv ==
    /\ mod /\ turn # NoTask /\ dialog = 0 => Newest # "done"
    /\ mod /\ turn # NoTask /\ Answering => ~Within("done", stamps)
    /\ mod /\ state = "" => /\ stamps # <<>> \/ transcript = <<>>
                            /\ \A i \in Rows : transcript[i].kind \notin {"words", "end"}
    /\ named \/ mod \/ transcript = <<>>

Before == {"mark", "send"}
After == {"sent", "watch", "act", "late"}

\* What is being worked on is the task in hand; an answer is for a task that was; and a
\* cancel holds its task, or the pane, until its interrupt is through.
WorkInv == \A t \in Task : status[t] \in {"running", "needs_input"} => t = cur /\ at \in After
AnswerInv ==
    \A a \in Answer : answers[a].at \in {"send", "sent"} =>
        answers[a].task \in Task /\ status[answers[a].task] \notin {"unsent", "accepted"}
CancelInv ==
    \A t \in Task : cancels[t] # "none" =>
        status[t] = "cancelled" /\ (at \in {"idle", "ready"} \/ cur = t)
RouteInv == WorkInv /\ AnswerInv /\ CancelInv

\* A turn that has said something and reads "done" was interrupted over a dialog that
\* stayed: for the task in hand, unless it is cancelled, all of it was said before.
LeftInv ==
    mod /\ turn # NoTask /\ Answering /\ state = "done" =>
        /\ at = "send" /\ mark # Unknown /\ status[cur] # "cancelled" =>
              \A i \in Rows : Said(i) => i <= mark
        /\ at \in After /\ status[cur] # "cancelled" =>
              \A i \in Rows : Said(i) => i <= From

\* A turn under way while a tick holds "done" began after the look: all that was said
\* was said before it.
LookInv ==
    at = "act" /\ seen = "done" /\ turn # NoTask =>
        \A i \in Rows : i > From /\ Said(i) => \E j \in Rows : j > i /\ Told(j)

\* A message sent at a settled prompt has the session to itself, but for background work
\* that comes back; what is said after the mark is said in answer to it, or to that.
SentInv ==
    at \in After =>
        /\ mark <= sentAt /\ \A i \in Rows : transcript[i].of = cur => i > sentAt
        /\ ~uncleared[cur] =>
              /\ \A i \in DOMAIN input : input[i] = cur
              /\ turn \in {NoTask, cur} \/ LeftOver(turn)
              /\ \A i \in Rows : i > From /\ Said(i) =>
                    transcript[i].of = cur \/ LeftOver(transcript[i].of)
PaneInv ==
    at \in Before /\ ~uncleared[cur] =>
        /\ input = <<>> /\ (turn = NoTask \/ LeftOver(turn))
        /\ at = "send" /\ mark # Unknown =>
              \A i \in Rows : i > mark /\ Said(i) => LeftOver(transcript[i].of)

\* A result is what it says, and nothing is left that could add to it.
Rests(t) ==
    /\ turn # t /\ background # t /\ ~Within(t, input)
    /\ \A i \in Rows : i > result[t] => transcript[i] # Rec("words", t)
Answered(t) ==
    /\ result[t] \in Rows /\ Said(result[t])
    /\ ~uncleared[t] => transcript[result[t]].of = t \/ LeftOver(transcript[result[t]].of)
    /\ ~partial[t] /\ transcript[result[t]].of = t => Rests(t)
DoneInv == \A t \in Task : status[t] = "done" => Answered(t)

IInv ==
    /\ TypeInv /\ QueueInv /\ TypedInv /\ TurnInv /\ StampInv /\ RouteInv /\ LeftInv
    /\ LookInv /\ PaneInv /\ SentInv /\ DoneInv

-----------------------------------------------------------------------------
(* Types, for every step.                                                  *)

LEMMA TypeStep == ASSUME TypeInv, QueueInv, [Next]_vars PROVE TypeInv'
  <1>1. CASE Runner
    <2>1. Send => cur # NoTask
      BY DEF QueueInv, Send
    <2> QED
      BY <1>1, <2>1, TypeBegins, TypeSend, TypeWatch, TypeActs DEF Runner
  <1>2. CASE Routes \/ \E a \in Answer, t \in Task : BeginAnswer(a, t)
    BY <1>2, TypeRequests, TypeAnswers DEF Routes
  <1>3. CASE ClaudeSteps
    BY <1>3, TypeClaude, TypeStampNext DEF ClaudeSteps
  <1>4. CASE \E t \in Task : Post(t) \/ Cancel(t)
    BY <1>4, TypeRequests
  <1>5. CASE Deletes
    <2>1. CASE \E t : t \in Task
      BY <1>5, <2>1, TypeRequests
    <2>2. CASE Task = {}
      <3>1. /\ UNCHANGED <<mod, named, transcript, dialogs, shown, result, partial>>
            /\ UNCHANGED stampVars /\ UNCHANGED runVars /\ UNCHANGED requestVars
        BY <1>5 DEF Deletes, countVars
      <3>2. status' \in [Task -> Status]
        BY <1>5, <2>2 DEF Deletes, TypeInv, StoreType
      <3>3. StoreType' /\ StampType' /\ RunType' /\ RequestType'
        BY <3>1, <3>2, Frames DEF TypeInv, StoreType
      <3>4. <<>> \in Seq(Task)
        OBVIOUS
      <3>5. live' = FALSE /\ turn' = NoTask /\ dialog' = 0 /\ input' = <<>> /\ background' = NoTask
        BY <1>5 DEF Deletes
      <3>6. 0 \in 0..dialogs
        BY DEF TypeInv, DialogType
      <3>7. ClaudeType' /\ DialogType'
        BY <3>1, <3>4, <3>5, <3>6 DEF TypeInv, ClaudeType, DialogType
      <3> QED
        BY <3>3, <3>7 DEF TypeInv
    <2> QED
      BY <2>1, <2>2
  <1>6. CASE \E x \in Timer : Elapses(x)
    BY <1>6, TypeWatch
  <1>7. CASE UNCHANGED vars
    <2>1. /\ UNCHANGED <<live, mod, named, input, turn, background, transcript, dialog, dialogs>>
          /\ UNCHANGED stampVars /\ UNCHANGED runVars /\ UNCHANGED requestVars /\ UNCHANGED storeVars
      BY <1>7 DEF vars, claudeVars, countVars
    <2> QED
      BY <2>1, Frames DEF TypeInv
  <1> QED
    BY <1>1, <1>2, <1>3, <1>4, <1>5, <1>6, <1>7 DEF Next

LEMMA TypeInit == Init => TypeInv
  <1> SUFFICES ASSUME Init PROVE TypeInv
    OBVIOUS
  <1>1. transcript = <<>> /\ Len(transcript) = 0 /\ dialogs = 0 /\ dialog = 0
    BY DEF Init
  <1>2. 0 \in 0..dialogs /\ 0 \in 0..Len(transcript) /\ 0 \in -1..Len(transcript)
    BY <1>1
  <1>3. <<>> \in Seq(Task) /\ <<>> \in Seq(Stamp) /\ <<>> \in Seq(Record)
    OBVIOUS
  <1>4. StoreType
    BY <1>2 DEF Init, StoreType, Status
  <1>5. DialogType /\ StampType
    <2>1. state \in State /\ stamps = <<>>
      BY DEF Init, State
    <2>2. dialogs \in Nat
      BY <1>1
    <2> QED
      BY <1>1, <1>2, <1>3, <2>1, <2>2 DEF DialogType, StampType
  <1>6. ClaudeType
    <2>1. mod \in BOOLEAN
      <3>1. bound \in [mod : BOOLEAN, tasks : 0..Tasks, events : Nat] /\ mod = bound.mod
        BY ScopesAssumption DEF Init
      <3> QED
        BY <3>1
    <2>2. live = TRUE /\ named = FALSE /\ input = <<>> /\ turn = NoTask /\ background = NoTask
      BY DEF Init
    <2> QED
      BY <1>1, <1>3, <2>1, <2>2 DEF ClaudeType
  <1>7. RunType
    <2>1. watch \in Watch
      BY DEF Init, NoWatch, Watch
    <2>2. /\ queue = <<>> /\ cur = NoTask /\ at = "idle" /\ mark = 0 /\ sentAt = 0
          /\ uncleared \in [Task -> BOOLEAN] /\ seen \in State
      BY DEF Init, State
    <2> QED
      BY <1>2, <1>3, <2>1, <2>2 DEF RunType
  <1>8. RequestType
    <2>1. NoAnswer \in [at : {"idle", "send", "sent", "over", "unverified"},
                        task : Task \cup {NoTask}, tool : 0..dialogs]
      BY <1>2 DEF NoAnswer
    <2> QED
      BY <2>1 DEF Init, RequestType
  <1> QED
    BY <1>4, <1>5, <1>6, <1>7, <1>8 DEF TypeInv

-----------------------------------------------------------------------------
(* What the steps do to what the invariant is about.                       *)

\* A status changes as a step other than an end of a turn changes it.
Mild ==
    \A t \in Task : \/ status'[t] = status[t]
                    \/ status[t] \in Open /\ status'[t] \in {"running", "needs_input", "cancelled"}
ClaudeRests == UNCHANGED <<mod, input, turn, dialog, background, transcript, named, state, stamps>>
RunnerRests == UNCHANGED <<queue, cur, at, uncleared, mark, sentAt, seen>>
ResultRests == UNCHANGED <<result, partial>>

\* A dialog comes or goes, and is stamped; or the turn ends.
Marks ==
    \/ /\ turn' = turn /\ state' = state
       /\ \/ stamps' = stamps /\ (mod /\ dialog' = 0 => dialog = 0)
          \/ \E x \in {"running", "awaiting"} : stamps' = Append(stamps, x)
    \/ turn' = NoTask /\ stamps' = stamps /\ (state = "" <=> state' = "")

\* An interrupt leaves a dialog drawn.
StaysOpen(t) ==
    /\ cancels[t] = "interrupt" /\ dialog # 0 /\ UNCHANGED <<turn, dialog, stamps, status>>
    /\ state = "" <=> state' = ""

\* The caller, a dialog, and the mod's name for the transcript.
Aside ==
    /\ RunnerRests /\ Mild /\ ResultRests /\ UNCHANGED <<mod, input, background, transcript>>
    /\ named' = named \/ named' = TRUE
    /\ Marks \/ \E t \in Task : StaysOpen(t)

\* The runner, but for the steps that take, mark, look and settle.
Takes(u) ==
    /\ at = "ready" /\ at' = "mark" /\ UNCHANGED <<status, queue, cur, mark, sentAt, seen>>
    /\ uncleared' = [uncleared EXCEPT ![cur] = u] /\ ClaudeRests /\ ResultRests
    /\ NoCancel /\ (~u => turn = NoTask /\ input = <<>>)
Types ==
    /\ at = "send" /\ at' = "sent" /\ sentAt' = Len(transcript)
    /\ UNCHANGED <<status, queue, cur, uncleared, mark, seen>> /\ ResultRests
    /\ input' = input \/ input' = Append(input, cur)
    /\ \/ stamps' = stamps /\ (mod /\ dialog' = 0 => dialog = 0)
       \/ stamps' = Append(stamps, "running")
    /\ UNCHANGED <<mod, turn, background, transcript, named, state>>
Stays ==
    /\ at \in After /\ at' \in After /\ (at' = "act" => at = "act" /\ seen' = seen)
    /\ Mild /\ UNCHANGED <<queue, cur, uncleared, mark, sentAt>> /\ ClaudeRests /\ ResultRests
Stops ==
    /\ at # "idle" /\ at' = "idle" /\ cur' = NoTask /\ UNCHANGED <<queue, uncleared>>
    /\ \A t \in Task : \/ status'[t] = status[t] /\ (t = cur => status[t] \notin Open)
                       \/ t = cur /\ status[t] \in Open /\ status'[t] = "failed"
    /\ ClaudeRests /\ ResultRests
Answers(bg) ==
    /\ at = "act" /\ seen = "done" /\ Settled /\ (bg \/ ~Outstanding) /\ Settles(bg) /\ ClaudeRests

\* Claude, and its mod.
Speaks ==
    /\ Begins \/ Says \/ Launches \/ Finishes \/ Notified
    /\ RunnerRests /\ UNCHANGED <<status, mod, state, dialog>> /\ ResultRests

LEMMA UpdateMild ==
    ASSUME TypeInv, NEW t, NEW next \in {"running", "needs_input", "cancelled"}, Update(t, next) PROVE Mild
  BY DEF TypeInv, StoreType, Update, CanGo, Mild

LEMMA AskMild == ASSUME TypeInv, NEW t, NEW q, Ask(t, q) PROVE Mild
  BY UpdateMild DEF Ask, Open

LEMMA FailsStops ==
    ASSUME TypeInv, Fails, at # "idle", ClaudeRests PROVE Stops
  BY DEF TypeInv, StoreType, Fails, Update, CanGo, Returns, Stops, ResultRests

LEMMA ReturnsStops ==
    ASSUME Returns, status[cur] = "cancelled", at # "idle", ClaudeRests, UNCHANGED storeVars PROVE Stops
  BY DEF storeVars, Returns, Stops, ResultRests, Open

LEMMA GoesStays ==
    ASSUME at = "act", NEW w, Goes(w), Mild, ClaudeRests, ResultRests PROVE Stays
  BY DEF Goes, Stays, After

LEMMA RunnerShapes ==
    ASSUME TypeInv, Runner
    PROVE  Drain \/ (\E u \in BOOLEAN : Takes(u)) \/ Mark \/ Types \/ Stays \/ Stops \/ Look
           \/ \E bg \in BOOLEAN : Answers(bg)
  <1>1. CASE Ready \/ NotReady
    <2>1. ClaudeRests /\ at = "ready" /\ NoCancel
      BY <1>1 DEF Ready, NotReady, ClaudeRests, claudeVars, stampVars
    <2>2. ASSUME NEW u \in BOOLEAN, GoesOn(u), UNCHANGED storeVars, ~u => PaneReady
          PROVE  Takes(u) \/ Stops
      <3>1. CASE status[cur] = "cancelled"
        BY <2>1, <2>2, <3>1, ReturnsStops DEF GoesOn
      <3>2. CASE status[cur] # "cancelled"
        BY <2>1, <2>2, <3>2 DEF GoesOn, Takes, PaneReady, storeVars, ResultRests
      <3> QED
        BY <3>1, <3>2
    <2>3. \/ \E u \in BOOLEAN : GoesOn(u) /\ UNCHANGED storeVars /\ (~u => PaneReady)
          \/ Fails
      BY <1>1 DEF Ready, NotReady
    <2> QED
      BY <2>1, <2>2, <2>3, FailsStops
  <1>2. CASE Send
    <2>1. CASE Fails /\ UNCHANGED <<input, dialog, stamps>>
      <3>1. ClaudeRests /\ at # "idle"
        BY <1>2, <2>1 DEF Send, ClaudeRests
      <3> QED
        BY <2>1, <3>1, FailsStops
    <2>2. CASE ~(Fails /\ UNCHANGED <<input, dialog, stamps>>)
      <3>1. /\ at = "send" /\ at' = "sent" /\ sentAt' = Len(transcript)
            /\ UNCHANGED <<storeVars, queue, cur, uncleared, mark, seen>>
            /\ UNCHANGED <<mod, turn, background, transcript, named, state>>
        BY <1>2, <2>2 DEF Send
      <3>2. input' = input \/ input' = Append(input, cur)
        BY <1>2, <2>2 DEF Send
      <3>3. \/ stamps' = stamps /\ (mod /\ dialog' = 0 => dialog = 0)
            \/ stamps' = Append(stamps, "running")
        BY <1>2, <2>2 DEF Send, Closes
      <3> QED
        BY <3>1, <3>2, <3>3 DEF Types, storeVars, ResultRests
    <2> QED
      BY <2>1, <2>2
  <1>3. CASE Sent
    <2>1. Mild
      BY <1>3, UpdateMild DEF Sent, Open
    <2> QED
      BY <1>3, <2>1 DEF Sent, Stays, After, ClaudeRests, claudeVars, stampVars, ResultRests
  <1>4. CASE Gone \/ GivesUp \/ LetsGo
    <2>1. ClaudeRests /\ at # "idle"
      BY <1>4 DEF Gone, GivesUp, LetsGo, ClaudeRests, claudeVars, stampVars
    <2>2. CASE Fails
      BY <2>1, <2>2, FailsStops
    <2>3. CASE Returns /\ status[cur] = "cancelled" /\ UNCHANGED storeVars
      BY <2>1, <2>3, ReturnsStops
    <2> QED
      BY <1>4, <2>2, <2>3 DEF Gone, GivesUp, LetsGo
  <1>5. CASE SeesRunning \/ SeesDialog \/ SeesDone \/ SeesNothing
    <2>1. ClaudeRests /\ at = "act"
      BY <1>5 DEF SeesRunning, SeesDialog, SeesDone, SeesNothing, Acts, ClaudeRests, claudeVars, stampVars
    <2>2. CASE Fails
      BY <2>1, <2>2, FailsStops
    <2>3. ASSUME NEW w, Goes(w), Mild, ResultRests PROVE Stays
      BY <2>1, <2>3, GoesStays
    <2>4. UNCHANGED status => Mild
      BY DEF Mild
    <2>5. CASE SeesRunning
      <3>1. Mild /\ ResultRests
        BY <2>5, UpdateMild DEF SeesRunning, Open, ResultRests
      <3> QED
        BY <2>3, <2>5, <3>1 DEF SeesRunning
    <2>6. CASE SeesDialog
      <3>1. Mild /\ ResultRests
        BY <2>4, <2>6, AskMild DEF SeesDialog, ResultRests
      <3>2. \E w : Goes(w)
        BY <2>6 DEF SeesDialog
      <3> QED
        BY <2>3, <3>1, <3>2
    <2>7. CASE SeesNothing
      <3>1. UNCHANGED storeVars => Mild /\ ResultRests
        BY <2>4 DEF storeVars, ResultRests
      <3> QED
        BY <2>2, <2>3, <2>7, <3>1 DEF SeesNothing
    <2>8. CASE SeesDone
      <3>1. \/ Fails
            \/ \E w : Goes(w) /\ UNCHANGED storeVars
            \/ \E w : Goes(w) /\ Update(cur, "running") /\ UNCHANGED <<shown, result, partial>>
            \/ \E bg \in BOOLEAN : Settled /\ (bg \/ ~Outstanding) /\ Settles(bg)
        BY <2>8 DEF SeesDone
      <3>2. CASE \E w : Goes(w) /\ UNCHANGED storeVars
        <4>1. Mild /\ ResultRests
          BY <2>4, <3>2 DEF storeVars, ResultRests
        <4> QED
          BY <2>3, <3>2, <4>1
      <3>3. CASE \E w : Goes(w) /\ Update(cur, "running") /\ UNCHANGED <<shown, result, partial>>
        <4>1. Mild /\ ResultRests
          BY <3>3, UpdateMild DEF Open, ResultRests
        <4> QED
          BY <2>3, <3>3, <4>1
      <3>4. CASE \E bg \in BOOLEAN : Settled /\ (bg \/ ~Outstanding) /\ Settles(bg)
        <4>1. seen = "done"
          BY <2>8 DEF SeesDone, Acts
        <4> QED
          BY <2>1, <3>4, <4>1 DEF Answers
      <3> QED
        BY <2>2, <3>1, <3>2, <3>3, <3>4
    <2> QED
      BY <1>5, <2>5, <2>6, <2>7, <2>8
  <1> QED
    BY <1>1, <1>2, <1>3, <1>4, <1>5 DEF Runner

LEMMA AsideShapes ==
    ASSUME TypeInv,
           \/ \E t \in Task : Cancel(t) \/ Decline(t) \/ Interrupt(t)
           \/ \E a \in Answer : (\E t \in Task : BeginAnswer(a, t)) \/ SendAnswer(a) \/ Lands(a) \/ TimesOut(a)
           \/ \E x \in Timer : Elapses(x)
           \/ Opens \/ Names \/ UNCHANGED vars
    PROVE  Aside
  <1>1. RunnerRests
    BY DEF Cancel, Decline, Interrupt, BeginAnswer, SendAnswer, Lands, TimesOut, Elapses, Opens, Names,
           Claude, vars, runVars, RunnerRests
  <1>2. ResultRests /\ UNCHANGED <<mod, input, background, transcript>>
    BY DEF Cancel, Decline, Interrupt, BeginAnswer, SendAnswer, Lands, TimesOut, Elapses, Opens, Names,
           Claude, vars, storeVars, claudeVars, ResultRests
  <1>3. Mild
    <2>1. CASE UNCHANGED status
      BY <2>1 DEF Mild
    <2>2. CASE \E t : Update(t, "running")
      BY <2>2, UpdateMild DEF Open
    <2>3. CASE \E t \in Task : status[t] \in Open /\ status' = [status EXCEPT ![t] = "cancelled"]
      BY <2>3 DEF Mild, TypeInv, StoreType
    <2> QED
      BY <2>1, <2>2, <2>3 DEF Cancel, Decline, Interrupt, BeginAnswer, SendAnswer, Lands, TimesOut,
         Elapses, Opens, Names, Claude, vars, storeVars
  <1>4. named' = named \/ named' = TRUE
    BY DEF Cancel, Decline, Interrupt, BeginAnswer, SendAnswer, Lands, TimesOut, Elapses, Opens, Names,
           vars, claudeVars
  <1>5. Marks \/ \E t \in Task : StaysOpen(t)
    <2>1. CASE \E t \in Task : Interrupt(t)
      BY <2>1 DEF Interrupt, StampStopped, StaysOpen, Marks, storeVars
    <2>2. CASE Closes /\ UNCHANGED <<turn, state>>
      BY <2>2 DEF Closes, Marks
    <2>3. CASE Opens
      <3>1. stamps' = IF mod THEN stamps \o <<"awaiting">> ELSE stamps
        BY <2>3 DEF Opens, Stamps
      <3>2. stamps \o <<"awaiting">> = Append(stamps, "awaiting")
        BY DEF TypeInv, StampType, Stamp
      <3> QED
        BY <2>3, <3>1, <3>2 DEF Opens, Claude, Marks
    <2>4. CASE UNCHANGED <<turn, state, stamps, dialog>>
      BY <2>4 DEF Marks
    <2> QED
      BY <2>1, <2>2, <2>3, <2>4 DEF Cancel, Decline, BeginAnswer, SendAnswer, Lands, TimesOut, Elapses,
         Names, Claude, vars, claudeVars, stampVars
  <1> QED
    BY <1>1, <1>2, <1>3, <1>4, <1>5 DEF Aside

LEMMA SpeaksShape ==
    ASSUME Begins \/ Says \/ Launches \/ Finishes \/ Notified PROVE Speaks
  BY DEF Begins, Says, Launches, Finishes, Notified, Claude, Speaks, runVars, RunnerRests, storeVars, ResultRests

\* Every step is one of these.
LEMMA StepShapes ==
    ASSUME TypeInv, [Next]_vars
    PROVE  \/ Drain \/ (\E u \in BOOLEAN : Takes(u)) \/ Mark \/ Types \/ Stays \/ Stops \/ Look
           \/ \E bg \in BOOLEAN : Answers(bg)
           \/ \E t \in Task : Post(t)
           \/ Aside \/ Speaks \/ StampNext \/ Deletes
  BY RunnerShapes, AsideShapes, SpeaksShape DEF Next, Routes, ClaudeSteps

\* One record more, and two, and three.
LEMMA OneRow ==
    ASSUME TypeInv, NEW r \in Record, Writes(<<r>>)
    PROVE  \E n \in Nat \ {0} :
              /\ n = Len(transcript) + 1 /\ Rows = 1..(n - 1) /\ Rows' = 1..n
              /\ transcript'[n] = r /\ \A i \in Rows : transcript'[i] = transcript[i]
  <1>1. <<r>> \in Seq(Record) /\ Len(<<r>>) = 1 /\ <<r>>[1] = r /\ 1 \in DOMAIN <<r>>
    OBVIOUS
  <1>2. ClaudeType
    BY DEF TypeInv
  <1>3. PICK n \in Nat : n = Len(transcript) + 1
    BY <1>2 DEF ClaudeType
  <1>4. /\ Len(transcript) \in Nat /\ Len(transcript') = Len(transcript) + 1
        /\ DOMAIN transcript = 1..Len(transcript) /\ DOMAIN transcript' = 1..Len(transcript')
        /\ \A i \in DOMAIN transcript : transcript'[i] = transcript[i]
        /\ transcript'[Len(transcript) + 1] = r
    BY <1>1, <1>2, WritesGrows
  <1>5. n # 0 /\ Len(transcript) = n - 1
    BY <1>3, <1>4
  <1> QED
    BY <1>3, <1>4, <1>5 DEF Rows

LEMMA TwoRows ==
    ASSUME TypeInv, NEW r \in Record, NEW s \in Record, Writes(<<r, s>>)
    PROVE  \E n \in Nat \ {0} :
              /\ n = Len(transcript) + 1 /\ Rows = 1..(n - 1) /\ Rows' = 1..(n + 1)
              /\ transcript'[n] = r /\ transcript'[n + 1] = s
              /\ \A i \in Rows : transcript'[i] = transcript[i]
  <1>1. PICK rs \in Seq(Record) : rs = <<r, s>>
    BY Few
  <1>2. DOMAIN rs = {1, 2} /\ rs[1] = r /\ rs[2] = s
    BY <1>1
  <1>3. Len(rs) = 2
    <2>1. DOMAIN rs = 1..Len(rs) /\ Len(rs) \in Nat
      BY <1>1
    <2>2. 2 \in 1..Len(rs) /\ 3 \notin 1..Len(rs)
      BY <1>2, <2>1
    <2> QED
      BY <2>1, <2>2
  <1>4. ClaudeType
    BY DEF TypeInv
  <1>5. PICK n \in Nat : n = Len(transcript) + 1
    BY <1>4 DEF ClaudeType
  <1>6. /\ Len(transcript) \in Nat /\ Len(transcript') = Len(transcript) + Len(rs)
        /\ DOMAIN transcript = 1..Len(transcript) /\ DOMAIN transcript' = 1..Len(transcript')
        /\ \A i \in DOMAIN transcript : transcript'[i] = transcript[i]
        /\ \A k \in DOMAIN rs : transcript'[Len(transcript) + k] = rs[k]
    BY <1>1, <1>4, WritesGrows
  <1>7. transcript'[Len(transcript) + 1] = r /\ transcript'[Len(transcript) + 2] = s
    BY <1>2, <1>6
  <1>8. /\ n # 0 /\ Len(transcript) = n - 1 /\ Len(transcript) + 2 = n + 1
        /\ Len(transcript') = n + 1
    BY <1>3, <1>5, <1>6
  <1> QED
    BY <1>5, <1>6, <1>7, <1>8 DEF Rows

LEMMA ThreeRows ==
    ASSUME TypeInv, NEW r \in Record, NEW s \in Record, NEW u \in Record,
           Writes(Append(<<r, s>>, u))
    PROVE  \E n \in Nat \ {0} :
              /\ n = Len(transcript) + 1 /\ Rows = 1..(n - 1) /\ Rows' = 1..(n + 2)
              /\ transcript'[n] = r /\ transcript'[n + 1] = s /\ transcript'[n + 2] = u
              /\ \A i \in Rows : transcript'[i] = transcript[i]
  <1>1. PICK rs \in Seq(Record) : rs = Append(<<r, s>>, u)
    BY Few
  <1>2. /\ DOMAIN rs = {1, 2, 3} /\ rs[1] = r /\ rs[2] = s /\ rs[3] = u
    BY <1>1, Few
  <1>3. Len(rs) = 3
    <2>1. DOMAIN rs = 1..Len(rs) /\ Len(rs) \in Nat
      BY <1>1
    <2>2. 3 \in 1..Len(rs) /\ 4 \notin 1..Len(rs)
      BY <1>2, <2>1
    <2> QED
      BY <2>1, <2>2
  <1>4. ClaudeType
    BY DEF TypeInv
  <1>5. PICK n \in Nat : n = Len(transcript) + 1
    BY <1>4 DEF ClaudeType
  <1>6. /\ Len(transcript) \in Nat /\ Len(transcript') = Len(transcript) + Len(rs)
        /\ DOMAIN transcript = 1..Len(transcript) /\ DOMAIN transcript' = 1..Len(transcript')
        /\ \A i \in DOMAIN transcript : transcript'[i] = transcript[i]
        /\ \A k \in DOMAIN rs : transcript'[Len(transcript) + k] = rs[k]
    BY <1>1, <1>4, WritesGrows
  <1>7. /\ transcript'[Len(transcript) + 1] = r /\ transcript'[Len(transcript) + 2] = s
        /\ transcript'[Len(transcript) + 3] = u
    BY <1>2, <1>6
  <1>8. /\ n # 0 /\ Len(transcript) = n - 1 /\ Len(transcript) + 2 = n + 1
        /\ Len(transcript) + 3 = n + 2 /\ Len(transcript') = n + 2
    BY <1>3, <1>5, <1>6
  <1> QED
    BY <1>5, <1>6, <1>7, <1>8 DEF Rows

\* What each of Claude's steps writes, from the place n on.
Wrote(n) ==
    /\ n = Len(transcript) + 1 /\ Rows = 1..(n - 1)
    /\ \A i \in Rows : i \in Rows' /\ transcript'[i] = transcript[i]
    /\ \/ /\ Begins /\ Rows' = 1..n /\ transcript'[n] = Rec("prompt", Head(input))
       \/ /\ Says /\ turn \in Task /\ Rows' = 1..n /\ transcript'[n] = Rec("words", turn)
       \/ /\ Launches /\ turn \in Task /\ Rows' = 1..n
          /\ transcript'[n] = Rec("launch", turn)
       \/ /\ Finishes /\ turn \in Task /\ turn' = NoTask /\ UNCHANGED input
          /\ Rows' = 1..(n + 1)
          /\ transcript'[n] = Rec("words", turn) /\ transcript'[n + 1] = Rec("end", turn)
       \/ /\ Finishes /\ turn \in Task /\ input # <<>>
          /\ turn' = Head(input) /\ input' = Tail(input) /\ Rows' = 1..(n + 2)
          /\ transcript'[n] = Rec("words", turn) /\ transcript'[n + 1] = Rec("end", turn)
          /\ transcript'[n + 2] = Rec("prompt", Head(input))
       \/ /\ Notified /\ background \in Task /\ turn = NoTask /\ turn' = background
          /\ Rows' = 1..n /\ transcript'[n] = Rec("notice", background)
       \/ /\ Notified /\ background \in Task /\ turn # NoTask /\ turn' = turn
          /\ Rows' = 1..n /\ transcript'[n] = Rec("queued", background)

LEMMA SpeaksRows == ASSUME TypeInv, Speaks PROVE \E n \in Nat \ {0} : Wrote(n)
  <1> ClaudeType
    BY DEF TypeInv
  <1>1. CASE Begins
    <2>1. PICK r \in Record : r = Rec("prompt", Head(input))
      BY <1>1, NextInput, RecordType DEF Begins
    <2>2. Writes(<<r>>)
      BY <1>1, <2>1 DEF Begins
    <2>3. PICK n \in Nat \ {0} :
              /\ n = Len(transcript) + 1 /\ Rows = 1..(n - 1) /\ Rows' = 1..n
              /\ transcript'[n] = r /\ \A i \in Rows : transcript'[i] = transcript[i]
      BY <2>1, <2>2, OneRow
    <2> QED
      BY <1>1, <2>1, <2>3 DEF Wrote
  <1>2. CASE Says \/ Launches
    <2>1. turn \in Task
      BY <1>2 DEF Says, Launches, Working, ClaudeType
    <2>2. PICK r \in Record : \/ Says /\ Writes(<<r>>) /\ r = Rec("words", turn)
                              \/ Launches /\ Writes(<<r>>) /\ r = Rec("launch", turn)
      BY <1>2, <2>1, RecordType DEF Says, Launches
    <2>3. PICK n \in Nat \ {0} :
              /\ n = Len(transcript) + 1 /\ Rows = 1..(n - 1) /\ Rows' = 1..n
              /\ transcript'[n] = r /\ \A i \in Rows : transcript'[i] = transcript[i]
      BY <2>2, OneRow
    <2> QED
      BY <2>1, <2>2, <2>3 DEF Wrote
  <1>3. CASE Notified
    <2>1. background \in Task
      BY <1>3 DEF Notified, ClaudeType
    <2>2. PICK r \in Record :
             /\ Writes(<<r>>)
             /\ \/ turn = NoTask /\ turn' = background /\ r = Rec("notice", background)
                \/ turn # NoTask /\ turn' = turn /\ r = Rec("queued", background)
      BY <1>3, <2>1, RecordType DEF Notified, Working
    <2>3. PICK n \in Nat \ {0} :
              /\ n = Len(transcript) + 1 /\ Rows = 1..(n - 1) /\ Rows' = 1..n
              /\ transcript'[n] = r /\ \A i \in Rows : transcript'[i] = transcript[i]
      BY <2>2, OneRow
    <2> QED
      BY <1>3, <2>1, <2>2, <2>3 DEF Wrote
  <1>4. CASE Finishes
    <2>1. turn \in Task
      BY <1>4 DEF Finishes, Working, ClaudeType
    <2>2. PICK r \in Record : r = Rec("words", turn)
      BY <2>1, RecordType
    <2>3. PICK s \in Record : s = Rec("end", turn)
      BY <2>1, RecordType
    <2>4. CASE input = <<>>
      <3>1. Writes(<<r, s>>) /\ turn' = NoTask /\ UNCHANGED input
        BY <1>4, <2>2, <2>3, <2>4 DEF Finishes
      <3>2. PICK n \in Nat \ {0} :
              /\ n = Len(transcript) + 1 /\ Rows = 1..(n - 1) /\ Rows' = 1..(n + 1)
              /\ transcript'[n] = r /\ transcript'[n + 1] = s
              /\ \A i \in Rows : transcript'[i] = transcript[i]
        BY <2>2, <2>3, <3>1, TwoRows
      <3> QED
        BY <1>4, <2>1, <2>2, <2>3, <3>1, <3>2 DEF Wrote
    <2>5. CASE input # <<>>
      <3>1. PICK u \in Record : u = Rec("prompt", Head(input))
        BY <2>5, NextInput, RecordType
      <3>2. Writes(Append(<<r, s>>, u)) /\ turn' = Head(input) /\ input' = Tail(input)
        BY <1>4, <2>2, <2>3, <2>5, <3>1 DEF Finishes
      <3>3. PICK n \in Nat \ {0} :
              /\ n = Len(transcript) + 1 /\ Rows = 1..(n - 1) /\ Rows' = 1..(n + 2)
              /\ transcript'[n] = r /\ transcript'[n + 1] = s /\ transcript'[n + 2] = u
              /\ \A i \in Rows : transcript'[i] = transcript[i]
        BY <2>2, <2>3, <3>1, <3>2, ThreeRows
      <3> QED
        BY <1>4, <2>1, <2>2, <2>3, <2>5, <3>1, <3>2, <3>3 DEF Wrote
    <2> QED
      BY <2>4, <2>5
  <1> QED
    BY <1>1, <1>2, <1>3, <1>4 DEF Speaks

-----------------------------------------------------------------------------
(* The tasks in the queue.                                                 *)

LEMMA MildGoing ==
    ASSUME TypeInv, Mild, NEW t \in Task
    PROVE  /\ status[t] \in Going => status'[t] \in Going
           /\ status'[t] = "unsent" => status[t] = "unsent"
           /\ status'[t] = "done" => status[t] = "done"
  BY DEF Mild, Going, Status, Open, Final

\* Steps that take nothing from the queue and end no turn.
LEMMA QueueSame ==
    ASSUME TypeInv, QueueInv, Mild, UNCHANGED <<queue, cur>>, at = "idle" <=> at' = "idle"
    PROVE  QueueInv'
  <1>1. \A t \in Task : status[t] \in Going => status'[t] \in Going
    BY MildGoing
  <1>2. cur # NoTask => cur \in Task
    BY DEF TypeInv, RunType
  <1>3. \A i \in DOMAIN queue : queue[i] \in Task
    BY DEF TypeInv, RunType
  <1>4. at' = "idle" <=> cur' = NoTask
    BY DEF QueueInv
  <1> QED
    BY <1>1, <1>2, <1>3, <1>4 DEF QueueInv

LEMMA MildSame == UNCHANGED status => Mild
  BY DEF Mild

\* The rest of the queue.
LEMMA QueueTail ==
    ASSUME TypeInv, queue # <<>>
    PROVE  /\ 1 \in DOMAIN queue /\ Head(queue) = queue[1] /\ Head(queue) \in Task
           /\ \A i \in DOMAIN Tail(queue) :
                 i + 1 \in DOMAIN queue /\ Tail(queue)[i] = queue[i + 1] /\ i + 1 # 1 /\ i \in Nat
  BY DEF TypeInv, RunType

LEMMA QueueDrain == ASSUME TypeInv, QueueInv, Drain PROVE QueueInv'
  <1>1. /\ queue # <<>> /\ queue' = Tail(queue) /\ UNCHANGED status /\ at = "idle" /\ cur = NoTask
        /\ (cur' = cur /\ at' = at) \/ (cur' = Head(queue) /\ at' = "ready")
    BY DEF Drain, storeVars, QueueInv
  <1>2. \A i \in DOMAIN queue' : /\ i + 1 \in DOMAIN queue /\ queue'[i] = queue[i + 1]
                                 /\ queue[i + 1] # queue[1] /\ queue[i + 1] \in Task /\ i \in Nat
    BY <1>1, QueueTail DEF QueueInv, TypeInv, RunType
  <1>3. \A i, j \in DOMAIN queue' : queue'[i] = queue'[j] => i = j
    <2> TAKE i, j \in DOMAIN queue'
    <2>1. queue[i + 1] = queue[j + 1] => i + 1 = j + 1
      BY <1>2 DEF QueueInv
    <2> QED
      BY <1>2, <2>1
  <1>4. \A i \in DOMAIN queue' : queue'[i] # cur' /\ status'[queue'[i]] \in Going
    BY <1>1, <1>2, QueueTail DEF QueueInv
  <1>5. (at' = "idle" <=> cur' = NoTask) /\ (cur' # NoTask => status'[cur'] \in Going)
    BY <1>1, QueueTail DEF QueueInv, NoTask, Task
  <1> QED
    BY <1>3, <1>4, <1>5 DEF QueueInv

\* The turn in hand is over.
LEMMA QueueOver ==
    ASSUME TypeInv, QueueInv, at' = "idle", cur' = NoTask, queue' = queue,
           \A t \in Task : status'[t] = status[t] \/ t = cur
    PROVE  QueueInv'
  <1>1. \A i \in DOMAIN queue : queue[i] \in Task
    BY DEF TypeInv, RunType
  <1>2. \A t \in Task : t # NoTask
    BY DEF NoTask, Task
  <1> QED
    BY <1>1, <1>2 DEF QueueInv

LEMMA AnswersStatus ==
    ASSUME TypeInv, NEW bg, Answers(bg)
    PROVE  /\ at' = "idle" /\ cur' = NoTask /\ UNCHANGED <<queue, uncleared, shown>>
           /\ \A t \in Task : status'[t] = status[t] \/ (t = cur /\ status[t] \in Open /\ status'[t] = "done")
           /\ \A t \in Task : t # cur => result'[t] = result[t] /\ partial'[t] = partial[t]
           /\ cur \in Task => status'[cur] \notin Open
  BY DEF Answers, Settles, Returns, Update, CanGo, TypeInv, StoreType, Open

LEMMA QueuePost == ASSUME TypeInv, QueueInv, NEW t \in Task, Post(t) PROVE QueueInv'
  <1>1. /\ status[t] = "unsent" /\ queue' = Append(queue, t) /\ UNCHANGED <<cur, at>>
        /\ status' = [status EXCEPT ![t] = "accepted"]
    BY DEF Post
  <1>2. /\ \A u \in Task : status[u] \in Going => status'[u] \in Going /\ u # t
        /\ status'[t] \in Going
    BY <1>1 DEF TypeInv, StoreType, Going, Status, Open
  <1>3. cur # NoTask => cur \in Task
    BY DEF TypeInv, RunType
  <1>4. /\ \A i \in DOMAIN queue : queue[i] \in Task
        /\ \A i \in DOMAIN queue' : \/ i \in DOMAIN queue /\ queue'[i] = queue[i]
                                    \/ i = Len(queue) + 1 /\ queue'[i] = t
    BY <1>1 DEF TypeInv, RunType
  <1>5. t # cur
    BY <1>1, <1>2, <1>3 DEF QueueInv, NoTask, Task
  <1>6. \A i \in DOMAIN queue' : queue'[i] # cur' /\ status'[queue'[i]] \in Going
    BY <1>1, <1>2, <1>4, <1>5 DEF QueueInv
  <1>7. \A i, j \in DOMAIN queue' : queue'[i] = queue'[j] => i = j
    BY <1>2, <1>4 DEF QueueInv
  <1>8. (at' = "idle" <=> cur' = NoTask) /\ (cur' # NoTask => status'[cur'] \in Going)
    BY <1>1, <1>2, <1>3 DEF QueueInv
  <1> QED
    BY <1>6, <1>7, <1>8 DEF QueueInv

LEMMA QueueStep == ASSUME TypeInv, QueueInv, [Next]_vars PROVE QueueInv'
  <1>1. CASE Drain
    BY <1>1, QueueDrain
  <1>2. CASE (\E u \in BOOLEAN : Takes(u)) \/ Mark \/ Types \/ Stays \/ Look \/ Aside \/ Speaks
             \/ StampNext \/ Deletes
    <2>1. UNCHANGED <<queue, cur>> /\ (at = "idle" <=> at' = "idle")
      BY <1>2 DEF Takes, Mark, Types, Stays, Look, Aside, Speaks, StampNext, Deletes, RunnerRests,
         runVars, After
    <2>2. Mild
      <3>1. CASE UNCHANGED status
        BY <3>1, MildSame
      <3>2. CASE \A t \in Task : status'[t] = status[t] \/ (status[t] \in Open /\ status'[t] = "cancelled")
        BY <3>2 DEF Mild
      <3> QED
        BY <1>2, <3>1, <3>2 DEF Takes, Mark, Types, Stays, Look, Aside, Speaks, StampNext, Deletes, storeVars
    <2> QED
      BY <2>1, <2>2, QueueSame
  <1>3. CASE Stops
    <2>1. /\ at' = "idle" /\ cur' = NoTask /\ queue' = queue
          /\ \A t \in Task : status'[t] = status[t] \/ t = cur
      BY <1>3 DEF Stops
    <2> QED
      BY <2>1, QueueOver
  <1>4. CASE \E bg \in BOOLEAN : Answers(bg)
    <2>1. /\ at' = "idle" /\ cur' = NoTask /\ queue' = queue
          /\ \A t \in Task : status'[t] = status[t] \/ t = cur
      BY <1>4, AnswersStatus
    <2> QED
      BY <2>1, QueueOver
  <1>5. CASE \E t \in Task : Post(t)
    BY <1>5, QueuePost
  <1> QED
    BY <1>1, <1>2, <1>3, <1>4, <1>5, StepShapes

-----------------------------------------------------------------------------
(* The messages typed.                                                     *)

\* Steps that type nothing and write nothing.
LEMMA TypedSame ==
    ASSUME TypedInv, UNCHANGED <<input, transcript>>, \A t \in Task : Untyped(t)' => Untyped(t)
    PROVE  TypedInv'
  <1>1. \A t \in Task : Typed(t)' <=> Typed(t)
    BY DEF Typed, Within, Rows
  <1> QED
    BY <1>1 DEF TypedInv, Rows

LEMMA UntypedSame ==
    ASSUME TypeInv, Mild, UNCHANGED <<queue, cur>>,
           at' \in {"ready", "mark", "send"} => at \in {"ready", "mark", "send"}
    PROVE  \A t \in Task : Untyped(t)' => Untyped(t)
  BY MildGoing DEF Untyped, Within

\* Who has a turn, or work in the background, has been typed, and so has the next.
LEMMA TurnTyped ==
    ASSUME TurnInv
    PROVE  /\ turn # NoTask => \E i \in Rows : transcript[i].of = turn
           /\ background # NoTask => \E i \in Rows : transcript[i].of = background
  BY DEF TurnInv, Begun, Launched, Rec

LEMMA InputTail ==
    ASSUME TypeInv, input # <<>>
    PROVE  /\ 1 \in DOMAIN input /\ Head(input) = input[1] /\ Head(input) \in Task
           /\ \A i \in DOMAIN Tail(input) :
                 i + 1 \in DOMAIN input /\ Tail(input)[i] = input[i + 1] /\ i + 1 # 1 /\ i \in Nat
  BY DEF TypeInv, ClaudeType

\* What Claude writes is of one who was typed, and who is not in the box any more.
LEMMA TypedSpeaks == ASSUME TypeInv, TypedInv, TurnInv, Speaks PROVE TypedInv'
  <1>1. PICK n \in Nat \ {0} : Wrote(n)
    BY SpeaksRows
  <1>2. \/ UNCHANGED input
        \/ input # <<>> /\ input' = Tail(input)
    BY DEF Speaks, Begins, Says, Launches, Finishes, Notified
  <1>3. \A i \in Rows' : \/ i \in Rows /\ transcript'[i] = transcript[i]
                         \/ turn \in Task /\ transcript'[i].of = turn
                         \/ background \in Task /\ transcript'[i].of = background
                         \/ input # <<>> /\ input' = Tail(input) /\ transcript'[i].of = Head(input)
    <2>1. /\ Rows = 1..(n - 1) /\ Rows' \subseteq 1..(n + 2)
          /\ \A i \in Rows : transcript'[i] = transcript[i]
      BY <1>1 DEF Wrote
    <2>2. \A i \in Rows' : i \in Rows \/ i \in {n, n + 1, n + 2}
      BY <2>1
    <2>3. ASSUME NEW i \in Rows', i \in {n, n + 1, n + 2}
          PROVE  \/ turn \in Task /\ transcript'[i].of = turn
                 \/ background \in Task /\ transcript'[i].of = background
                 \/ input # <<>> /\ input' = Tail(input) /\ transcript'[i].of = Head(input)
      BY <1>1, <2>3 DEF Wrote, Rec, Begins
    <2> QED
      BY <2>1, <2>2, <2>3
  <1>4. \A i \in DOMAIN input' : \E j \in DOMAIN input :
            input'[i] = input[j] /\ (input' # input => input # <<>> /\ input[j] # Head(input))
    BY <1>2, InputTail DEF TypedInv
  <1>5. \A t \in Task : Typed(t)' => Typed(t)
    <2> SUFFICES ASSUME NEW t \in Task, Typed(t)' PROVE Typed(t)
      OBVIOUS
    <2>1. CASE \E i \in DOMAIN input' : input'[i] = t
      BY <1>4, <2>1 DEF Typed, Within
    <2>2. CASE \E i \in Rows' : transcript'[i].of = t
      <3>1. PICK i \in Rows' : transcript'[i].of = t
        BY <2>2
      <3>2. CASE input # <<>> /\ t = Head(input)
        BY <3>2, InputTail DEF Typed, Within
      <3> QED
        BY <1>3, <3>1, <3>2, TurnTyped DEF Typed, NoTask, Task
    <2> QED
      BY <2>1, <2>2 DEF Typed, Within
  <1>6. \A t \in Task : Untyped(t)' => Untyped(t)
    BY DEF Speaks, RunnerRests, Untyped, Within
  <1>7. \A i, j \in DOMAIN input' : input'[i] = input'[j] => i = j
    <2>1. CASE UNCHANGED input
      BY <2>1 DEF TypedInv
    <2>2. CASE input # <<>> /\ input' = Tail(input)
      <3> TAKE i, j \in DOMAIN input'
      <3>1. /\ i + 1 \in DOMAIN input /\ j + 1 \in DOMAIN input /\ i \in Nat /\ j \in Nat
            /\ input'[i] = input[i + 1] /\ input'[j] = input[j + 1]
        BY <2>2, InputTail
      <3>2. input[i + 1] = input[j + 1] => i + 1 = j + 1
        BY <3>1 DEF TypedInv
      <3> QED
        BY <3>1, <3>2
    <2> QED
      BY <1>2, <2>1, <2>2
  <1>8. ASSUME NEW i \in DOMAIN input', NEW j \in Rows' PROVE transcript'[j].of # input'[i]
    <2>1. PICK k \in DOMAIN input :
             input'[i] = input[k] /\ (input' # input => input # <<>> /\ input[k] # Head(input))
      BY <1>4, <1>8
    <2>2. \A r \in Rows : transcript[r].of # input[k]
      BY <2>1 DEF TypedInv
    <2>3. CASE input # <<>> /\ input' = Tail(input) /\ transcript'[j].of = Head(input)
      <3>1. Len(input) \in Nat /\ Len(input') = Len(input) - 1
        BY <2>3 DEF TypeInv, ClaudeType
      <3>2. input' # input
        BY <3>1
      <3> QED
        BY <2>1, <2>3, <3>2
    <2> QED
      BY <1>3, <1>8, <2>1, <2>2, <2>3, TurnTyped DEF NoTask, Task
  <1> QED
    BY <1>5, <1>6, <1>7, <1>8 DEF TypedInv

LEMMA TypedTypes == ASSUME TypeInv, QueueInv, TypedInv, Types PROVE TypedInv'
  <1>1. /\ at = "send" /\ at' = "sent" /\ UNCHANGED <<status, queue, cur, transcript>>
        /\ input' = input \/ input' = Append(input, cur)
    BY DEF Types
  <1>2. cur \in Task /\ status[cur] \in Going /\ \A i \in DOMAIN queue : queue[i] # cur
    BY <1>1 DEF QueueInv, TypeInv, RunType
  <1>3. ~Typed(cur)
    BY <1>1, <1>2 DEF TypedInv, Untyped
  <1>4. \A t \in Task : Untyped(t)' => Untyped(t) /\ t # cur
    BY <1>1, <1>2 DEF Untyped, Within, Going
  <1>5. \A i \in DOMAIN input' : \/ i \in DOMAIN input /\ input'[i] = input[i]
                                 \/ i = Len(input) + 1 /\ input'[i] = cur
    BY <1>1, <1>2 DEF TypeInv, ClaudeType
  <1>6. \A i \in DOMAIN input : input[i] # cur
    BY <1>3 DEF Typed, Within
  <1>7. \A j \in Rows : transcript[j].of # cur
    BY <1>3 DEF Typed
  <1>8. Rows' = Rows /\ \A j \in Rows : transcript'[j] = transcript[j]
    BY <1>1 DEF Rows
  <1>9. \A t \in Task : Untyped(t)' => ~Typed(t)'
    <2> SUFFICES ASSUME NEW t \in Task, Untyped(t)' PROVE ~Typed(t)'
      OBVIOUS
    <2>1. ~Typed(t) /\ t # cur
      BY <1>4 DEF TypedInv
    <2> QED
      BY <1>5, <1>8, <2>1 DEF Typed, Within
  <1>10. \A i, j \in DOMAIN input' : input'[i] = input'[j] => i = j
    BY <1>5, <1>6 DEF TypedInv
  <1>11. \A i \in DOMAIN input', j \in Rows' : transcript'[j].of # input'[i]
    BY <1>5, <1>7, <1>8 DEF TypedInv
  <1> QED
    BY <1>9, <1>10, <1>11 DEF TypedInv

LEMMA TypedStep ==
    ASSUME TypeInv, QueueInv, TypedInv, TurnInv, [Next]_vars PROVE TypedInv'
  <1>1. CASE Drain
    <2>1. /\ queue # <<>> /\ queue' = Tail(queue) /\ UNCHANGED <<status, input, transcript>>
          /\ (cur' = cur /\ at' = at) \/ (cur' = Head(queue) /\ at' = "ready")
          /\ at = "idle"
      BY <1>1 DEF Drain, storeVars, claudeVars
    <2>2. \A i \in DOMAIN queue' : \E j \in DOMAIN queue : queue'[i] = queue[j]
      BY <2>1, QueueTail
    <2>3. Within(Head(queue), queue)
      BY <2>1, QueueTail DEF Within
    <2>4. \A t \in Task : Untyped(t)' => Untyped(t)
      BY <2>1, <2>2, <2>3 DEF Untyped, Within
    <2> QED
      BY <2>1, <2>4, TypedSame
  <1>2. CASE (\E u \in BOOLEAN : Takes(u)) \/ Mark \/ Stays \/ Look \/ Aside \/ StampNext
    <2>1. /\ UNCHANGED <<queue, cur, input, transcript>>
          /\ at' \in {"ready", "mark", "send"} => at \in {"ready", "mark", "send"}
      BY <1>2 DEF Takes, Mark, Stays, Look, Aside, StampNext, RunnerRests, ClaudeRests, runVars,
         claudeVars, After
    <2>2. Mild
      BY <1>2, MildSame DEF Takes, Mark, Stays, Look, Aside, StampNext, storeVars
    <2>3. \A t \in Task : Untyped(t)' => Untyped(t)
      BY <2>1, <2>2, UntypedSame
    <2> QED
      BY <2>1, <2>3, TypedSame
  <1>3. CASE Types
    BY <1>3, TypedTypes
  <1>4. CASE Stops \/ \E bg \in BOOLEAN : Answers(bg)
    <2>1. /\ at' = "idle" /\ UNCHANGED <<queue, input, transcript>>
          /\ \A t \in Task : status'[t] = "unsent" => status[t] = "unsent"
      BY <1>4, AnswersStatus DEF Stops, Answers, ClaudeRests
    <2>2. \A t \in Task : Untyped(t)' => Untyped(t)
      BY <2>1 DEF Untyped, Within
    <2> QED
      BY <2>1, <2>2, TypedSame
  <1>5. ASSUME NEW t \in Task, Post(t) PROVE TypedInv'
    <2>1. /\ UNCHANGED <<cur, at, input, transcript>> /\ queue' = Append(queue, t)
          /\ status[t] = "unsent" /\ status' = [status EXCEPT ![t] = "accepted"]
      BY <1>5 DEF Post, claudeVars
    <2>2. \A i \in DOMAIN queue' : (i \in DOMAIN queue /\ queue'[i] = queue[i]) \/ queue'[i] = t
      BY <2>1 DEF TypeInv, RunType
    <2>3. \A u \in Task : status'[u] = "unsent" => status[u] = "unsent"
      BY <2>1 DEF TypeInv, StoreType
    <2>4. \A u \in Task : Untyped(u)' => Untyped(u)
      BY <2>1, <2>2, <2>3 DEF Untyped, Within
    <2> QED
      BY <2>1, <2>4, TypedSame
  <1>6. CASE Speaks
    BY <1>6, TypedSpeaks
  <1>7. CASE Deletes
    <2>1. /\ input' = <<>> /\ transcript' = transcript /\ UNCHANGED <<queue, cur, at>>
          /\ \A t \in Task : status'[t] = "unsent" => status[t] = "unsent"
      BY <1>7 DEF Deletes, runVars
    <2>2. \A t \in Task : Untyped(t)' => Untyped(t)
      BY <2>1 DEF Untyped, Within
    <2>3. \A t \in Task : Typed(t)' => Typed(t)
      BY <2>1 DEF Typed, Within, Rows
    <2> QED
      BY <2>1, <2>2, <2>3 DEF TypedInv
  <1> QED
    BY <1>1, <1>2, <1>3, <1>4, <1>5, <1>6, <1>7, StepShapes

-----------------------------------------------------------------------------
(* The turn, and background work.                                          *)

LEMMA TurnSame ==
    ASSUME TypeInv, TurnInv, transcript' = transcript, turn' \in {turn, NoTask},
           background' \in {background, NoTask}
    PROVE  TurnInv'
  <1>1. /\ \A t : Begun(t)' <=> Begun(t)
        /\ \A t : Launched(t)' <=> Launched(t)
        /\ \A j \in Rows' : Back(j)' <=> Back(j)
    BY DEF Begun, Launched, Back, Told, Rows
  <1> QED
    BY <1>1 DEF TurnInv, Rows

LEMMA TurnSpeaks == ASSUME TypeInv, TurnInv, Speaks PROVE TurnInv'
  <1>1. PICK n \in Nat \ {0} : Wrote(n)
    BY SpeaksRows
  <1>2. /\ Rows = 1..(n - 1) /\ Rows' \subseteq 1..(n + 2)
        /\ \A i \in Rows : i \in Rows' /\ transcript'[i] = transcript[i] /\ i < n /\ i \in Nat
        /\ n \in Rows' /\ n \notin Rows
    BY <1>1 DEF Wrote
  <1>3. \A t : Launched(t) => Launched(t)'
    BY <1>2 DEF Launched
  <1>4. turn \in Task \cup {NoTask} /\ background \in Task \cup {NoTask}
    BY DEF TypeInv, ClaudeType
  \* One record, which is no end.
  <1>5. ASSUME Rows' = 1..n, transcript'[n].kind # "end"
        PROVE  /\ \A i \in Rows' : i \in Rows \/ i = n
               /\ \A t : Begun(t) => Begun(t)'
               /\ \A t : Told(n)' /\ transcript'[n].of = t => Begun(t)'
    <2>1. \A i \in Rows' : i \in Rows \/ i = n
      BY <1>2, <1>5
    <2>2. \A t : Begun(t) => Begun(t)'
      BY <1>2, <1>5, <2>1 DEF Begun, Told
    <2>3. \A j \in Rows' : ~(j > n)
      BY <1>5
    <2>4. \A t : Told(n)' /\ transcript'[n].of = t => Begun(t)'
      BY <1>2, <2>3 DEF Begun, Told
    <2> QED
      BY <2>1, <2>2, <2>4
  \* What is not a notice is of no background work that is back.
  <1>6. ASSUME NEW j \in Rows', Back(j)', j \in Rows
        PROVE  Back(j) /\ transcript'[j] = transcript[j] /\ \A t : transcript[j].of = t => Launched(t)'
    BY <1>2, <1>3, <1>6 DEF Back, TurnInv
  <1>7. CASE Begins
    <2>1. /\ Rows' = 1..n /\ transcript'[n].kind = "prompt" /\ transcript'[n].of = turn'
          /\ background' = background
      BY <1>1, <1>7 DEF Wrote, Begins, Says, Launches, Finishes, Notified, Working, Rec
    <2>2. PICK t : t = turn'
      OBVIOUS
    <2>3. (\A i \in Rows' : i \in Rows \/ i = n) /\ Begun(t)'
      BY <1>5, <2>1, <2>2 DEF Told
    <2>4. \A j \in Rows' : Back(j)' => j \in Rows
      BY <2>1, <2>3 DEF Back
    <2> QED
      BY <1>3, <1>6, <2>1, <2>2, <2>3, <2>4 DEF TurnInv
  <1>8. CASE Says
    <2>1. Rows' = 1..n /\ transcript'[n].kind = "words" /\ UNCHANGED <<turn, background>>
      BY <1>1, <1>8 DEF Wrote, Begins, Says, Launches, Finishes, Notified, Working, Rec
    <2>2. /\ \A i \in Rows' : i \in Rows \/ i = n
          /\ \A t : Begun(t) => Begun(t)'
      BY <1>5, <2>1
    <2>3. \A j \in Rows' : Back(j)' => j \in Rows
      BY <2>1, <2>2 DEF Back
    <2> QED
      BY <1>3, <1>6, <2>1, <2>2, <2>3 DEF TurnInv
  <1>9. CASE Launches
    <2>1. /\ Rows' = 1..n /\ transcript'[n] = Rec("launch", turn) /\ turn' = turn /\ background' = turn
          /\ \A i \in 1..Len(transcript) : transcript[i] # Rec("launch", turn)
      BY <1>1, <1>9 DEF Wrote, Begins, Says, Launches, Finishes, Notified, Working, Rec
    <2>2. transcript'[n].kind = "launch"
      BY <2>1 DEF Rec
    <2>3. /\ \A i \in Rows' : i \in Rows \/ i = n
          /\ \A t : Begun(t) => Begun(t)'
      BY <1>5, <2>1, <2>2
    <2>4. \A j \in Rows' : Back(j)' => j \in Rows
      BY <2>2, <2>3 DEF Back
    <2>5. PICK t : t = turn
      OBVIOUS
    <2>6. Launched(t)'
      BY <1>2, <2>1, <2>5 DEF Launched
    <2>7. ~Launched(t)
      BY <2>1, <2>5 DEF Launched, Rows, TypeInv, ClaudeType
    <2>8. \A j \in Rows : Back(j) => transcript[j].of # t
      BY <2>7 DEF TurnInv
    <2> QED
      BY <1>3, <1>6, <2>1, <2>3, <2>4, <2>5, <2>6, <2>8 DEF TurnInv
  <1>10. CASE Notified
    <2>1. /\ Rows' = 1..n /\ background # NoTask /\ background' = NoTask /\ transcript'[n].of = background
          /\ \/ turn' = background /\ transcript'[n].kind = "notice"
             \/ turn' = turn /\ transcript'[n].kind = "queued"
      BY <1>1, <1>10 DEF Wrote, Begins, Says, Launches, Finishes, Notified, Working, Rec
    <2>2. PICK b : b = background
      OBVIOUS
    <2>3. /\ \A i \in Rows' : i \in Rows \/ i = n
          /\ \A t : Begun(t) => Begun(t)'
          /\ transcript'[n].kind = "notice" => Begun(b)'
      BY <1>5, <2>1, <2>2 DEF Told
    <2>4. Launched(b)'
      BY <1>3, <2>1, <2>2 DEF TurnInv
    <2>5. turn' # NoTask => \E t : t = turn' /\ Begun(t)'
      BY <2>1, <2>2, <2>3 DEF TurnInv
    <2>6. \A j \in Rows' : Back(j)' => \E t : t = transcript'[j].of /\ Launched(t)'
      BY <1>6, <2>1, <2>2, <2>3, <2>4
    <2> QED
      BY <2>1, <2>5, <2>6 DEF TurnInv
  <1>11. CASE Finishes
    <2>1. background' = background /\ transcript'[n].kind = "words" /\ transcript'[n + 1].kind = "end"
      BY <1>1, <1>11 DEF Wrote, Begins, Says, Launches, Finishes, Notified, Working, Rec
    <2>2. CASE turn' = NoTask /\ Rows' = 1..(n + 1)
      <3>1. \A i \in Rows' : i \in Rows \/ i = n \/ i = n + 1
        BY <1>2, <2>2
      <3>2. \A j \in Rows' : Back(j)' => j \in Rows
        BY <2>1, <3>1 DEF Back
      <3> QED
        BY <1>3, <1>6, <2>1, <2>2, <3>2 DEF TurnInv
    <2>3. CASE /\ Rows' = 1..(n + 2) /\ transcript'[n + 2].kind = "prompt"
               /\ transcript'[n + 2].of = turn'
      <3>1. \A i \in Rows' : i \in Rows \/ i = n \/ i = n + 1 \/ i = n + 2
        BY <1>2, <2>3
      <3>2. \A j \in Rows' : Back(j)' => j \in Rows
        BY <2>1, <2>3, <3>1 DEF Back
      <3>3. PICK t : t = turn'
        OBVIOUS
      <3>4. n + 2 \in Rows' /\ \A j \in Rows' : ~(j > n + 2)
        BY <2>3
      <3>5. Begun(t)'
        BY <2>3, <3>3, <3>4 DEF Begun, Told
      <3> QED
        BY <1>3, <1>6, <2>1, <3>2, <3>3, <3>5 DEF TurnInv
    <2> QED
      BY <1>1, <1>11, <2>2, <2>3 DEF Wrote, Begins, Says, Launches, Finishes, Notified, Working, Rec
  <1> QED
    BY <1>7, <1>8, <1>9, <1>10, <1>11 DEF Speaks

LEMMA TurnStep == ASSUME TypeInv, TurnInv, [Next]_vars PROVE TurnInv'
  <1>1. CASE Drain \/ (\E u \in BOOLEAN : Takes(u)) \/ Mark \/ Types \/ Stays \/ Stops \/ Look
             \/ (\E bg \in BOOLEAN : Answers(bg)) \/ (\E t \in Task : Post(t))
             \/ Aside \/ StampNext \/ Deletes
    <2>1. transcript' = transcript /\ turn' \in {turn, NoTask} /\ background' \in {background, NoTask}
      BY <1>1 DEF Drain, Takes, Mark, Types, Stays, Stops, Look, Answers, Post, Aside, Marks, StaysOpen, StampNext, Deletes,
         ClaudeRests, claudeVars
    <2> QED
      BY <2>1, TurnSame
  <1>2. CASE Speaks
    BY <1>2, TurnSpeaks
  <1> QED
    BY <1>1, <1>2, StepShapes

-----------------------------------------------------------------------------
(* The stamps.                                                             *)

\* The last stamp of a queue that grew, and of one that shrank.
LEMMA NewestAdded ==
    ASSUME TypeInv, NEW x \in Stamp, stamps' = Append(stamps, x)
    PROVE  /\ Newest' = x /\ stamps' # <<>>
           /\ Within("done", stamps') => Within("done", stamps) \/ x = "done"
  <1>1. stamps \in Seq(Stamp)
    BY DEF TypeInv, StampType
  <1>2. stamps' # <<>> /\ Len(stamps') = Len(stamps) + 1 /\ stamps'[Len(stamps) + 1] = x
    BY <1>1
  <1>3. \A i \in DOMAIN stamps' : (i \in DOMAIN stamps /\ stamps'[i] = stamps[i]) \/ stamps'[i] = x
    BY <1>1
  <1> QED
    BY <1>2, <1>3 DEF Newest, Within

LEMMA NewestTaken ==
    ASSUME TypeInv, StampNext
    PROVE  /\ Newest' = Newest /\ state' \in Stamp
           /\ Within("done", stamps') \/ state' = "done" => Within("done", stamps)
  <1>1. stamps \in Seq(Stamp) /\ stamps # <<>> /\ state' = Head(stamps) /\ stamps' = Tail(stamps)
    BY DEF TypeInv, StampType, StampNext
  <1>2. /\ Len(stamps) \in Nat \ {0} /\ Len(stamps') = Len(stamps) - 1 /\ stamps' \in Seq(Stamp)
        /\ DOMAIN stamps = 1..Len(stamps) /\ DOMAIN stamps' = 1..(Len(stamps) - 1)
        /\ \A i \in 1..(Len(stamps) - 1) : stamps'[i] = stamps[i + 1]
        /\ Head(stamps) = stamps[1] /\ stamps[1] \in Stamp
    BY <1>1
  <1>3. Newest' = Newest
    <2>1. CASE stamps' = <<>>
      <3>1. Len(stamps) = 1
        BY <1>2, <2>1
      <3> QED
        BY <1>1, <1>2, <2>1, <3>1 DEF Newest
    <2>2. CASE stamps' # <<>>
      <3>1. Len(stamps) - 1 \in 1..(Len(stamps) - 1) /\ Len(stamps) - 1 + 1 = Len(stamps)
        BY <1>2, <2>2
      <3>2. stamps'[Len(stamps')] = stamps[Len(stamps)]
        BY <1>2, <3>1
      <3> QED
        BY <1>1, <2>2, <3>2 DEF Newest
    <2> QED
      BY <2>1, <2>2
  <1>4. Within("done", stamps') => Within("done", stamps)
    <2> SUFFICES ASSUME NEW i \in 1..(Len(stamps) - 1), stamps'[i] = "done"
                 PROVE  Within("done", stamps)
      BY <1>2 DEF Within
    <2>1. i + 1 \in DOMAIN stamps /\ stamps[i + 1] = "done"
      BY <1>2
    <2> QED
      BY <2>1 DEF Within
  <1>5. state' = "done" => Within("done", stamps)
    <2>1. 1 \in DOMAIN stamps
      BY <1>2
    <2> QED
      BY <1>1, <1>2, <2>1 DEF Within
  <1> QED
    BY <1>1, <1>2, <1>3, <1>4, <1>5

\* Steps that write nothing and stamp at most that something goes on.
LEMMA StampSame ==
    ASSUME TypeInv, StampInv, transcript' = transcript, mod' = mod,
           named' = named \/ named' = TRUE,
           Marks \/ \E t \in Task : StaysOpen(t)
    PROVE  StampInv'
  <1>1. /\ Answering' <=> Answering
        /\ Rows' = Rows
    BY DEF Answering, Rows, Said, Told
  <1>2. named' \/ mod' \/ transcript' = <<>>
    BY DEF StampInv
  <1>3. CASE stamps' = stamps
    <2>1. CASE Marks
      <3>1. CASE turn' = NoTask
        BY <1>1, <1>2, <1>3, <2>1, <3>1 DEF StampInv, Newest, Marks
      <3>2. CASE turn' = turn /\ state' = state /\ (mod /\ dialog' = 0 => dialog = 0)
        BY <1>1, <1>2, <1>3, <2>1, <3>2 DEF StampInv, Newest
      <3>3. CASE \E x \in {"running", "awaiting"} : stamps' = Append(stamps, x)
        BY <1>3, <3>3 DEF TypeInv, StampType
      <3> QED
        BY <2>1, <3>1, <3>2, <3>3 DEF Marks
    <2>2. CASE \E t \in Task : StaysOpen(t)
      BY <1>1, <1>2, <1>3, <2>2 DEF StampInv, Newest, StaysOpen
    <2> QED
      BY <2>1, <2>2
  <1>4. ASSUME NEW x \in {"running", "awaiting"}, stamps' = Append(stamps, x), turn' = turn, state' = state
        PROVE  StampInv'
    <2>1. Newest' = x /\ stamps' # <<>> /\ (Within("done", stamps') => Within("done", stamps))
      BY <1>4, NewestAdded DEF Stamp
    <2> QED
      BY <1>1, <1>2, <1>4, <2>1 DEF StampInv
  <1> QED
    BY <1>3, <1>4 DEF Marks, StaysOpen

\* The turn ended: what ended it comes after all that begins or is said.
LEMMA EndedBy ==
    ASSUME TypeInv, Ended
    PROVE  \E e \in Rows :
              /\ transcript[e].kind = "end" /\ e > From
              /\ \A i \in Rows : i > From /\ Told(i) => i < e
  <1>1. transcript \in Seq(Record) /\ Len(transcript) \in Nat /\ Rows = 1..Len(transcript)
    BY DEF TypeInv, ClaudeType, Rows
  <1>2. \A ks, i : i \in Of(ks) <=>
           i \in 1..Len(transcript) /\ named /\ i > From /\ transcript[i].kind \in ks
    BY DEF Of, Turn
  <1>3. Of({"prompt", "notice", "words"}) \subseteq 1..Len(transcript) /\ Of({"end"}) \subseteq 1..Len(transcript)
    BY <1>2
  <1>4. PICK b \in 0..Len(transcript) : b = Last(Of({"prompt", "notice", "words"}))
    BY <1>1, <1>3, LastOf
  <1>5. PICK e \in 0..Len(transcript) : e = Last(Of({"end"}))
    BY <1>1, <1>3, LastOf
  <1>6. e > b
    BY <1>4, <1>5 DEF Ended
  <1>7. e # 0
    BY <1>1, <1>4, <1>5, <1>6
  <1>8. e \in Of({"end"})
    <2>1. PICK x : x \in Of({"end"})
      BY <1>1, <1>3, <1>5, <1>7, LastOf
    <2> QED
      BY <1>1, <1>3, <1>5, <2>1, LastOf
  <1>9. e \in Rows /\ transcript[e].kind = "end" /\ e > From /\ named
    BY <1>1, <1>2, <1>8
  <1>10. ASSUME NEW i \in Rows, i > From, Told(i) PROVE i < e
    <2>1. i \in Of({"prompt", "notice", "words"})
      BY <1>1, <1>2, <1>9, <1>10 DEF Told
    <2>2. i <= b
      BY <1>1, <1>3, <1>4, <2>1, LastOf
    <2> QED
      BY <1>1, <1>4, <1>5, <1>6, <1>10, <2>2
  <1> QED
    BY <1>9, <1>10

\* With the mod and no stamp yet, no turn has ended.
LEMMA ModlessDone ==
    ASSUME TypeInv, StampInv PROVE mod /\ state = "" => Modless # "done"
  <1>1. mod /\ state = "" => \A i \in Rows : transcript[i].kind # "end"
    BY DEF StampInv
  <1>2. mod /\ state = "" => ~Ended
    BY <1>1, EndedBy
  <1> QED
    BY <1>2 DEF Modless

\* The watcher stamps a session that is not: with the mod never "done", for nothing was said.
LEMMA StampLook == ASSUME TypeInv, StampInv, Look PROVE StampInv'
  <1>1. /\ UNCHANGED <<mod, turn, dialog, transcript, named, stamps>>
        /\ seen' = IF mod /\ state # "" THEN state ELSE Modless
        /\ state' = IF seen' = "" THEN state ELSE seen'
    BY DEF Look, claudeVars
  <1>2. /\ Answering' <=> Answering
        /\ Rows' = Rows
    BY <1>1 DEF Answering, Rows, Said, Told
  <1>3. mod /\ state = "" => Modless # "done"
    BY ModlessDone
  <1>4. mod /\ state # "" => state' = state
    BY <1>1
  <1>5. mod /\ state = "" => state' # "done"
    BY <1>1, <1>3
  <1>6. mod => (state' = "" => state = "")
    BY <1>1
  <1> QED
    BY <1>1, <1>2, <1>4, <1>5, <1>6 DEF StampInv, Newest

LEMMA StampNextStamp == ASSUME TypeInv, StampInv, StampNext PROVE StampInv'
  <1>1. UNCHANGED <<mod, turn, dialog, transcript, named>>
    BY DEF StampNext, claudeVars
  <1>2. /\ Answering' <=> Answering
        /\ Rows' = Rows
    BY <1>1 DEF Answering, Rows, Said, Told
  <1> QED
    BY <1>1, <1>2, NewestTaken DEF StampInv, Stamp

\* A turn that begins is stamped running.
LEMMA NewestBegins ==
    ASSUME TypeInv, Stamps(<<"running">>) \/ Stamps(<<"done", "running">>)
    PROVE  mod => stamps' # <<>> /\ Newest' = "running"
  <1>1. PICK s \in Seq(Stamp) : s = stamps
    BY DEF TypeInv, StampType
  <1>2. /\ <<"running">> \in Seq(Stamp) /\ Len(<<"running">>) = 1
        /\ <<"running">>[1] = "running" /\ 1 \in DOMAIN <<"running">>
    BY DEF Stamp
  <1>3. /\ <<"done", "running">> \in Seq(Stamp) /\ Len(<<"done", "running">>) = 2
        /\ <<"done", "running">>[2] = "running" /\ 2 \in DOMAIN <<"done", "running">>
    BY DEF Stamp
  <1>4. PICK r \in Seq(Stamp), k \in Nat : /\ Len(r) = k /\ k \in DOMAIN r /\ r[k] = "running"
                                           /\ mod => stamps' = s \o r
    BY <1>1, <1>2, <1>3 DEF Stamps
  <1>5. PICK u : u = s \o r
    OBVIOUS
  <1>6. Len(s) \in Nat /\ Len(u) = Len(s) + k /\ u[Len(s) + k] = "running" /\ Len(s) + k \in DOMAIN u
    BY <1>4, <1>5, Joined
  <1>7. u # <<>> /\ u[Len(u)] = "running"
    BY <1>6
  <1> QED
    BY <1>4, <1>5, <1>7 DEF Newest

\* After what begins a turn, nothing is said yet.
LEMMA ToldLast ==
    ASSUME NEW m \in Nat, Rows' = 1..m, m \in Rows', Told(m)' PROVE ~Answering'
  <1>1. \A i \in Rows' : Said(i)' => i < m
    <2>1. \A i \in Rows' : i <= m /\ i \in Nat
      OBVIOUS
    <2>2. ~Said(m)'
      BY DEF Told, Said
    <2>3. \A i \in Rows' : Said(i)' => i # m
      BY <2>2
    <2> QED
      BY <2>1, <2>3
  <1> QED
    BY <1>1 DEF Answering

LEMMA StampSpeaks == ASSUME TypeInv, TurnInv, StampInv, Speaks PROVE StampInv'
  <1>1. PICK n \in Nat \ {0} : Wrote(n)
    BY SpeaksRows
  <1>2. /\ Rows = 1..(n - 1) /\ n \in Rows'
        /\ \A i \in Rows : i \in Rows' /\ transcript'[i] = transcript[i] /\ i < n /\ i \in Nat
    BY <1>1 DEF Wrote
  <1>3. mod' = mod /\ state' = state /\ dialog' = dialog
    BY DEF Speaks
  <1>4. named' \/ mod' \/ transcript' = <<>>
    <2>1. \E rs : Writes(rs)
      BY DEF Speaks, Begins, Says, Launches, Finishes, Notified
    <2>2. named' = (named \/ ~mod)
      BY <2>1 DEF Writes
    <2> QED
      BY <1>3, <2>2
  <1>5. turn # NoTask => transcript # <<>>
    BY DEF TurnInv, Begun, Rows
  \* One record, which is not said.
  <1>6. ASSUME Rows' = 1..n, transcript'[n].kind \notin {"words", "end"}
        PROVE  /\ mod /\ state = "" => \A i \in Rows' : transcript'[i].kind \notin {"words", "end"}
               /\ Answering' => Answering
               /\ Told(n)' => ~Answering'
    <2>1. \A i \in Rows' : i \in Rows \/ i = n
      BY <1>2, <1>6
    <2>2. Answering' => Answering
      BY <1>2, <1>6, <2>1 DEF Answering, Said, Told
    <2>3. Told(n)' => ~Answering'
      BY <1>2, <1>6, ToldLast
    <2>4. mod /\ state = "" => \A i \in Rows' : transcript'[i].kind \notin {"words", "end"}
      BY <1>2, <1>6, <2>1 DEF StampInv
    <2> QED
      BY <2>2, <2>3, <2>4
  <1>7. CASE Begins \/ (Notified /\ turn = NoTask)
    <2>1. Rows' = 1..n /\ transcript'[n].kind \in {"prompt", "notice"}
      BY <1>1, <1>7 DEF Wrote, Begins, Says, Launches, Finishes, Notified, Working, Rec
    <2>2. Told(n)'
      BY <2>1 DEF Told
    <2>3. Stamps(<<"running">>)
      BY <1>7 DEF Begins, Notified, Working
    <2> QED
      BY <1>3, <1>4, <1>6, <2>1, <2>2, <2>3, NewestBegins DEF StampInv
  <1>8. CASE Launches \/ (Notified /\ turn # NoTask)
    <2>1. Rows' = 1..n /\ transcript'[n].kind \in {"launch", "queued"} /\ turn # NoTask
      BY <1>1, <1>8 DEF Wrote, Begins, Says, Launches, Finishes, Notified, Working, Rec
    <2>2. stamps' = stamps /\ turn' = turn
      BY <1>8 DEF Launches, Notified
    <2>3. Newest' = Newest
      BY <1>3, <2>2 DEF Newest
    <2> QED
      BY <1>3, <1>4, <1>5, <1>6, <2>1, <2>2, <2>3 DEF StampInv
  <1>9. CASE Says \/ Finishes
    <2>1. turn # NoTask /\ dialog = 0 /\ stamps = <<>>
      BY <1>9 DEF Says, Finishes, Working, CaughtUp
    <2>2. mod => state # "" /\ state # "done"
      BY <1>5, <2>1 DEF StampInv, Newest
    <2>3. CASE stamps' = stamps
      <3>1. stamps' = <<>> /\ Newest' = state'
        BY <2>1, <2>3 DEF Newest
      <3>2. ~Within("done", stamps')
        BY <3>1 DEF Within
      <3> QED
        BY <1>3, <1>4, <2>2, <3>1, <3>2 DEF StampInv
    <2>4. CASE turn' = NoTask
      BY <1>3, <1>4, <2>2, <2>4 DEF StampInv
    <2>5. CASE Finishes /\ turn' # NoTask
      <3>1. Stamps(<<"done", "running">>)
        BY <2>5 DEF Finishes
      <3>2. Rows' = 1..(n + 2) /\ transcript'[n + 2].kind = "prompt"
        BY <1>1, <2>5 DEF Wrote, Begins, Says, Launches, Finishes, Notified, Working, Rec
      <3>3. n + 2 \in Rows' /\ n + 2 \in Nat /\ Told(n + 2)'
        BY <3>2 DEF Told
      <3>4. ~Answering'
        BY <3>2, <3>3, ToldLast
      <3> QED
        BY <1>3, <1>4, <2>2, <3>1, <3>4, NewestBegins DEF StampInv
    <2> QED
      BY <1>9, <2>3, <2>4, <2>5 DEF Says
  <1> QED
    BY <1>7, <1>8, <1>9 DEF Speaks

LEMMA StampStep == ASSUME TypeInv, TurnInv, StampInv, [Next]_vars PROVE StampInv'
  <1>1. CASE Drain \/ (\E u \in BOOLEAN : Takes(u)) \/ Mark \/ Types \/ Stays \/ Stops
             \/ (\E bg \in BOOLEAN : Answers(bg)) \/ (\E t \in Task : Post(t)) \/ Aside \/ Deletes
    <2>1. transcript' = transcript /\ mod' = mod /\ (named' = named \/ named' = TRUE)
      BY <1>1 DEF Drain, Takes, Mark, Types, Stays, Stops, Answers, Post, Aside, Deletes, ClaudeRests,
         claudeVars
    <2>2. Marks \/ \E t \in Task : StaysOpen(t)
      BY <1>1 DEF Drain, Takes, Mark, Types, Stays, Stops, Answers, Post, Aside, Deletes, ClaudeRests,
         claudeVars, stampVars, Marks
    <2> QED
      BY <2>1, <2>2, StampSame
  <1>2. CASE Look \/ StampNext \/ Speaks
    BY <1>2, StampLook, StampNextStamp, StampSpeaks
  <1> QED
    BY <1>1, <1>2, StepShapes

-----------------------------------------------------------------------------
(* The requests, and the task they are for.                                *)

\* A status that changes goes on from an open one, or was posted.
LEMMA StatusGoes ==
    ASSUME TypeInv, [Next]_vars, NEW t \in Task
    PROVE  \/ status'[t] = status[t]
           \/ status[t] \in Open /\ status'[t] \notin {"unsent", "accepted"}
           \/ status[t] = "unsent" /\ status'[t] = "accepted"
  <1>1. CASE Mild
    BY <1>1 DEF Mild, Open
  <1>2. CASE Stops
    BY <1>2 DEF Stops
  <1>3. CASE \E bg \in BOOLEAN : Answers(bg)
    BY <1>3, AnswersStatus
  <1>4. CASE \E u \in Task : Post(u)
    BY <1>4 DEF Post, TypeInv, StoreType
  <1>5. CASE Deletes
    BY <1>5 DEF Deletes
  <1>6. CASE UNCHANGED status
    BY <1>6
  <1> QED
    BY <1>1, <1>2, <1>3, <1>4, <1>5, <1>6, StepShapes DEF Drain, Takes, Mark, Types, Stays, Look, Aside, Speaks,
       StampNext, storeVars

LEMMA RunnerOwn ==
    ASSUME TypeInv, Runner PROVE \A t \in Task : t # cur => status'[t] = status[t]
  <1>1. CASE UNCHANGED status
    BY <1>1
  <1>2. CASE \E next : Update(cur, next)
    BY <1>2 DEF Update, TypeInv, StoreType
  <1> QED
    BY <1>1, <1>2 DEF Runner, Drain, Ready, NotReady, GoesOn, Mark, Send, Sent, Gone, LetsGo, Look, SeesRunning,
       SeesDialog, SeesDone, SeesNothing, GivesUp, Fails, Settles, Ask, storeVars

LEMMA WorkStep ==
    ASSUME TypeInv, QueueInv, AnswerInv, WorkInv, [Next]_vars PROVE WorkInv'
  <1> SUFFICES ASSUME NEW t \in Task, status'[t] \in {"running", "needs_input"}
               PROVE  cur' = t /\ at' \in After
    BY DEF WorkInv, After
  <1>1. CASE Runner
    <2>1. t # cur => status'[t] = status[t]
      BY <1>1, RunnerOwn
    <2>2. CASE Stays
      BY <2>1, <2>2 DEF Stays, WorkInv
    <2>3. CASE Drain \/ (\E u \in BOOLEAN : Takes(u)) \/ Mark \/ Types \/ Look
      BY <2>3 DEF Drain, Takes, Mark, Types, Look, WorkInv, After, storeVars
    <2>4. CASE Stops
      BY <2>4 DEF Stops, WorkInv, Open
    <2>5. CASE \E bg \in BOOLEAN : Answers(bg)
      BY <2>1, <2>5, AnswersStatus DEF WorkInv, Open
    <2> QED
      BY <1>1, <2>2, <2>3, <2>4, <2>5, RunnerShapes
  <1>2. CASE UNCHANGED <<status, cur, at>>
    BY <1>2 DEF WorkInv
  <1>3. CASE \E u \in Task : Post(u)
    BY <1>3 DEF Post, TypeInv, StoreType, WorkInv
  <1>4. CASE (\E u \in Task : Cancel(u)) \/ Deletes
    BY <1>4 DEF Cancel, Deletes, TypeInv, StoreType, WorkInv, runVars
  <1>5. ASSUME NEW a \in Answer, SendAnswer(a) \/ TimesOut(a)
        PROVE  cur' = t /\ at' \in After
    <2>1. /\ cur' = cur /\ at' = at /\ answers[a].at \in {"send", "sent"}
          /\ UNCHANGED status \/ Update(answers[a].task, "running")
      BY <1>5 DEF SendAnswer, TimesOut, runVars
    <2>2. status[answers[a].task] \notin {"unsent", "accepted"}
      BY <2>1 DEF AnswerInv
    <2>3. status[t] \in {"running", "needs_input"}
      BY <2>1, <2>2 DEF Update, CanGo, Open, TypeInv, StoreType
    <2> QED
      BY <2>1, <2>3 DEF WorkInv
  <1> QED
    BY <1>1, <1>2, <1>3, <1>4, <1>5 DEF Next, Routes, ClaudeSteps, Decline, Interrupt, Lands, BeginAnswer, Begins,
       Says, Launches, Opens, Finishes, Notified, Names, StampNext, Claude, Elapses, vars, storeVars, runVars

LEMMA RunnerRequests ==
    ASSUME Runner \/ ClaudeSteps \/ Deletes \/ (\E t \in Task : Post(t)) \/ (\E x \in Timer : Elapses(x))
    PROVE  UNCHANGED requestVars
  BY DEF Runner, Drain, Ready, NotReady, GoesOn, Mark, Send, Sent, Gone, LetsGo, Look, SeesRunning, SeesDialog,
     SeesDone, SeesNothing, GivesUp, Acts, ClaudeSteps, Begins, Says, Launches, Opens, Finishes, Notified, Names,
     StampNext, Claude, Deletes, Post, Elapses

LEMMA AnswerStep == ASSUME TypeInv, AnswerInv, [Next]_vars PROVE AnswerInv'
  <1> SUFFICES ASSUME NEW a \in Answer, answers'[a].at \in {"send", "sent"}
               PROVE  answers'[a].task \in Task /\ status'[answers'[a].task] \notin {"unsent", "accepted"}
    BY DEF AnswerInv
  <1>1. CASE answers[a].at \in {"send", "sent"} /\ answers'[a].task = answers[a].task
    <2>1. answers[a].task \in Task /\ status[answers[a].task] \notin {"unsent", "accepted"}
      BY <1>1 DEF AnswerInv
    <2> QED
      BY <1>1, <2>1, StatusGoes
  <1>2. CASE \E t \in Task : BeginAnswer(a, t) /\ answers'[a].task = t
    BY <1>2 DEF BeginAnswer
  <1>3. CASE UNCHANGED answers
    BY <1>1, <1>3
  <1>4. ASSUME NEW b \in Answer, NEW t \in Task, BeginAnswer(b, t)
        PROVE  \/ answers'[a] = answers[a]
               \/ BeginAnswer(a, t) /\ answers'[a].task = t
    BY <1>4 DEF BeginAnswer, Over, NoAnswer, TypeInv, RequestType
  <1>5. ASSUME NEW b \in Answer, SendAnswer(b) \/ Lands(b) \/ TimesOut(b)
        PROVE  \/ answers'[a] = answers[a]
               \/ answers[a].at \in {"send", "sent"} /\ answers'[a].task = answers[a].task
    BY <1>5 DEF SendAnswer, Lands, TimesOut, Over, NoAnswer, TypeInv, RequestType, requestVars
  <1>6. \/ UNCHANGED answers
        \/ \E b \in Answer : (\E t \in Task : BeginAnswer(b, t)) \/ SendAnswer(b) \/ Lands(b) \/ TimesOut(b)
    BY RunnerRequests DEF Next, Routes, Decline, Interrupt, Cancel, vars, requestVars
  <1> QED
    BY <1>1, <1>2, <1>3, <1>4, <1>5, <1>6

LEMMA CancelStep == ASSUME TypeInv, WorkInv, CancelInv, [Next]_vars PROVE CancelInv'
  <1> SUFFICES ASSUME NEW t \in Task, cancels'[t] # "none"
               PROVE  status'[t] = "cancelled" /\ (at' \in {"idle", "ready"} \/ cur' = t)
    BY DEF CancelInv
  <1>1. CASE Cancel(t)
    BY <1>1 DEF Cancel, WorkInv, Open, TypeInv, StoreType, RequestType, runVars
  <1>2. CASE cancels[t] # "none"
    <2>1. status[t] = "cancelled" /\ (at \in {"idle", "ready"} \/ cur = t)
      BY <1>2 DEF CancelInv
    <2>2. status'[t] = "cancelled"
      BY <2>1, StatusGoes DEF Open
    <2>3. at' \in {"idle", "ready"} \/ cur' = t
      BY <1>2, <2>1, StepShapes, AnswersStatus DEF Drain, Takes, NoCancel, Mark, Types, Stays, Stops, Look, Post, Aside,
         Speaks, RunnerRests, StampNext, Deletes, runVars, After
    <2> QED
      BY <2>2, <2>3
  <1>3. CASE cancels[t] = "none"
    <2>1. ASSUME NEW u \in Task, Cancel(u) \/ Decline(u) \/ Interrupt(u) PROVE Cancel(t)
      BY <1>3, <2>1 DEF Cancel, Decline, Interrupt, TypeInv, RequestType
    <2>2. ~(UNCHANGED cancels)
      BY <1>3
    <2>3. \E u \in Task : Cancel(u) \/ Decline(u) \/ Interrupt(u)
      BY <2>2, RunnerRequests DEF Next, Routes, BeginAnswer, SendAnswer, Lands, TimesOut, vars, requestVars
    <2> QED
      BY <1>1, <2>1, <2>3
  <1> QED
    BY <1>2, <1>3

LEMMA RouteStep == ASSUME TypeInv, QueueInv, RouteInv, [Next]_vars PROVE RouteInv'
  BY WorkStep, AnswerStep, CancelStep DEF RouteInv

\* Claude says nothing while a "done" that is not its own stands.
LEMMA LeftSpeaks == ASSUME TypeInv, StampInv, LeftInv, Speaks PROVE LeftInv'
  <1> SUFFICES ASSUME (mod /\ turn # NoTask /\ Answering /\ state = "done")' PROVE LeftInv'
    BY DEF LeftInv
  <1>1. UNCHANGED <<mod, state, dialog, status, cur, at, mark, sentAt>> /\ From' = From
    BY DEF Speaks, RunnerRests, From
  <1>2. PICK n \in Nat \ {0} : Wrote(n)
    BY SpeaksRows
  <1>3. /\ Rows = 1..(n - 1) /\ n \in Rows' /\ \A i \in Rows : i \in Rows' /\ transcript'[i] = transcript[i]
    BY <1>2 DEF Wrote
  <1>4. ~(Says \/ Finishes)
    <2>1. Says \/ Finishes => turn # NoTask /\ dialog = 0 /\ stamps = <<>>
      BY DEF Says, Finishes, Working, CaughtUp
    <2> QED
      BY <1>1, <2>1 DEF StampInv, Newest
  <1>5. Rows' = 1..n /\ transcript'[n].kind \notin {"words", "end"}
    BY <1>2, <1>4 DEF Speaks, Wrote, Begins, Says, Launches, Finishes, Notified, Working, Rec
  <1>6. \A i \in Rows' : i \in Rows \/ i = n
    BY <1>3, <1>5
  <1>7. ~Told(n)'
    BY <1>3, <1>5, ToldLast
  <1>8. Launches \/ (Notified /\ Working)
    BY <1>2, <1>4, <1>7 DEF Speaks, Wrote, Begins, Says, Launches, Finishes, Notified, Working, Rec, Told
  <1>9. turn # NoTask
    BY <1>8 DEF Launches, Working
  <1>10. Answering
    BY <1>3, <1>5, <1>6 DEF Answering, Said, Told
  <1>11. \A i \in Rows' : Said(i)' => i \in Rows /\ Said(i)
    BY <1>3, <1>5, <1>6 DEF Said
  <1> QED
    BY <1>1, <1>9, <1>10, <1>11 DEF LeftInv, After

LEMMA LeftStep == ASSUME TypeInv, QueueInv, StampInv, RouteInv, LeftInv, [Next]_vars PROVE LeftInv'
  <1>1. CASE Drain \/ (\E u \in BOOLEAN : Takes(u)) \/ Stops \/ \E bg \in BOOLEAN : Answers(bg)
    <2>1. at' \notin {"send"} \cup After
      BY <1>1, AnswersStatus DEF Drain, Takes, Stops, After
    <2> QED
      BY <2>1 DEF LeftInv, After
  <1>2. CASE Speaks
    BY <1>2, LeftSpeaks
  <1>3. CASE Deletes
    BY <1>3 DEF Deletes, LeftInv
  <1>4. ASSUME ~Speaks, ~Deletes,
               UNCHANGED <<mod, turn, transcript>>, (mod /\ turn # NoTask /\ Answering /\ state = "done")'
        PROVE  Answering /\ Rows' = Rows /\ \A i \in Rows : Said(i)' <=> Said(i)
    BY <1>4 DEF Answering, Rows, Said, Told
  <1>5. Rows = 1..Len(transcript) /\ Len(transcript) \in Nat /\ mark \in Int /\ sentAt \in Int
    BY DEF TypeInv, ClaudeType, RunType, Rows
  <1>6. CASE Mark
    <2>1. /\ UNCHANGED <<mod, turn, transcript, state, status, cur>> /\ at' = "send"
          /\ mark' = IF named THEN Len(transcript) ELSE IF state # "" THEN Unknown ELSE 0
      BY <1>6 DEF Mark, claudeVars, stampVars, storeVars
    <2>2. state = "done" /\ mark' # Unknown => mark' = Len(transcript)
      BY <2>1
    <2>3. \A i \in Rows : i <= Len(transcript)
      BY <1>5
    <2>4. Rows' = Rows
      BY <2>1 DEF Rows
    <2> QED
      BY <2>1, <2>2, <2>3, <2>4 DEF LeftInv, After
  <1>7. CASE Types
    <2>1. /\ UNCHANGED <<mod, turn, transcript, state, status, cur, mark>> /\ at = "send" /\ at' = "sent"
          /\ sentAt' = Len(transcript)
      BY <1>7 DEF Types
    <2>2. From' = IF mark = Unknown THEN Len(transcript) ELSE mark
      BY <2>1 DEF From
    <2>3. /\ Rows' = Rows /\ (Answering' <=> Answering) /\ \A i \in Rows : Said(i)' <=> Said(i)
      BY <2>1 DEF Answering, Rows, Said, Told
    <2>4. \A i \in Rows : i <= Len(transcript)
      BY <1>5
    <2> QED
      BY <2>1, <2>2, <2>3, <2>4 DEF LeftInv, After
  <1>8. CASE Stays \/ Look \/ StampNext \/ (\E t \in Task : Post(t)) \/ Aside
    <2> SUFFICES ASSUME (mod /\ turn # NoTask /\ Answering /\ state = "done")',
                        (at \in {"send"} \cup After /\ status[cur] # "cancelled")'
                 PROVE  LeftInv'
      BY DEF LeftInv, After
    <2>1. /\ UNCHANGED <<mod, transcript, mark, sentAt, cur>> /\ turn' = turn
          /\ at' = at \/ (at \in After /\ at' \in After)
      BY <1>8 DEF Stays, Look, StampNext, Post, Aside, Marks, StaysOpen, ClaudeRests, RunnerRests, claudeVars, runVars, After
    <2>2. /\ Rows' = Rows /\ (Answering' <=> Answering) /\ (\A i \in Rows : Said(i)' <=> Said(i)) /\ From' = From
      BY <2>1 DEF Answering, Rows, Said, Told, From
    <2>3. cur \in Task /\ at \in {"send"} \cup After
      BY <2>1 DEF QueueInv, TypeInv, RunType, After
    <2>4. status[cur] # "cancelled"
      BY <2>1, <2>3, StatusGoes DEF Open
    <2>5. CASE StampNext
      <3>1. ~Within("done", stamps)
        BY <2>1, <2>2 DEF StampInv
      <3>2. state' # "done"
        BY <2>5, <3>1 DEF StampNext, Within, TypeInv, StampType
      <3> QED
        BY <3>2
    <2>6. CASE ~StampNext
      <3>1. state = "done"
        <4>1. CASE Stays \/ \E t \in Task : Post(t)
          BY <4>1 DEF Stays, Post, ClaudeRests, stampVars
        <4>2. CASE Look
          <5>1. mod /\ state = "" => Modless # "done"
            BY ModlessDone
          <5> QED
            BY <2>1, <4>2, <5>1 DEF Look
        <4>3. ASSUME Aside, NEW t \in Task, StaysOpen(t) PROVE FALSE
          <5>1. status[t] = "cancelled" /\ (at \in {"idle", "ready"} \/ cur = t)
            BY <4>3 DEF StaysOpen, RouteInv, CancelInv
          <5> QED
            BY <2>3, <2>4, <5>1 DEF After
        <4>4. CASE Aside /\ Marks
          BY <4>4 DEF Marks
        <4> QED
          BY <1>8, <2>6, <4>1, <4>2, <4>3, <4>4 DEF Aside
      <3> QED
        BY <2>1, <2>2, <2>3, <2>4, <3>1 DEF LeftInv, After
    <2> QED
      BY <2>5, <2>6
  <1> QED
    BY <1>1, <1>2, <1>3, <1>6, <1>7, <1>8, StepShapes

-----------------------------------------------------------------------------
(* What a tick that holds "done" may rely on.                              *)

\* Steps that leave the tick and the transcript alone.
LEMMA LookSame ==
    ASSUME LookInv, UNCHANGED <<transcript, mark, sentAt>>, turn' \in {turn, NoTask},
           at' = "act" => at = "act" /\ seen' = seen
    PROVE  LookInv'
  <1>1. Rows' = Rows /\ From' = From /\ \A i : (Said(i)' <=> Said(i)) /\ (Told(i)' <=> Told(i))
    BY DEF Rows, From, Said, Told
  <1> QED
    BY <1>1 DEF LookInv

\* A turn that goes on was not ended.
LEMMA BegunGoes ==
    ASSUME TypeInv, TurnInv, Ended PROVE turn = NoTask
  <1> SUFFICES ASSUME turn # NoTask PROVE FALSE
    OBVIOUS
  <1>1. PICK e \in Rows : /\ transcript[e].kind = "end" /\ e > From
                          /\ \A i \in Rows : i > From /\ Told(i) => i < e
    BY EndedBy
  <1>2. PICK i \in Rows : Told(i) /\ \A j \in Rows : j > i => transcript[j].kind # "end"
    BY DEF TurnInv, Begun
  <1>3. e \in Nat /\ i \in Nat /\ From \in Int
    <2>1. transcript \in Seq(Record) /\ sentAt \in 0..Len(transcript) /\ mark \in -1..Len(transcript)
      BY DEF TypeInv, ClaudeType, RunType
    <2> QED
      BY <2>1 DEF Rows, From
  <1>4. i < e
    BY <1>1, <1>2, <1>3
  <1> QED
    BY <1>1, <1>2, <1>3, <1>4

LEMMA LookLooks == ASSUME TypeInv, TurnInv, StampInv, LeftInv, Look PROVE LookInv'
  <1>1. /\ UNCHANGED <<turn, transcript, mark, sentAt>>
        /\ seen' = IF mod /\ state # "" THEN state ELSE Modless
    BY DEF Look, claudeVars
  <1>2. Rows' = Rows /\ From' = From /\ \A i : (Said(i)' <=> Said(i)) /\ (Told(i)' <=> Told(i))
    BY <1>1 DEF Rows, From, Said, Told
  <1>3. ASSUME seen' = "done", turn # NoTask, NEW k \in Rows, k > From, Said(k)
        PROVE  \E j \in Rows : j > k /\ Told(j)
    <2>1. CASE mod /\ state # ""
      <3>1. /\ at \in After /\ status[cur] # "cancelled" /\ state = "done"
            /\ k \in Int /\ From \in Int
        BY <1>1, <1>3, <2>1 DEF Look, After, Rows, From, TypeInv, RunType, ClaudeType
      <3>2. ~Answering
        BY <1>3, <2>1, <3>1 DEF LeftInv
      <3> QED
        BY <1>3, <3>2 DEF Answering
    <2>2. CASE ~(mod /\ state # "")
      <3>1. Modless = "done" /\ ~mod
        BY <1>1, <1>3, <2>2, ModlessDone
      <3>2. transcript # <<>>
        BY <1>3 DEF Rows
      <3>3. named
        BY <3>1, <3>2 DEF StampInv
      <3>4. k \in Turn
        BY <1>3, <3>3 DEF Turn, Rows, TypeInv, ClaudeType
      <3>5. Ended
        BY <3>1, <3>4 DEF Modless
      <3> QED
        BY <1>3, <3>5, BegunGoes
    <2> QED
      BY <2>1, <2>2
  <1> QED
    BY <1>1, <1>2, <1>3 DEF LookInv

LEMMA LookSpeaks == ASSUME TypeInv, LookInv, Speaks PROVE LookInv'
  <1>1. PICK n \in Nat \ {0} : Wrote(n)
    BY SpeaksRows
  <1>2. /\ Rows = 1..(n - 1) /\ n \in Rows'
        /\ \A i \in Rows : i \in Rows' /\ transcript'[i] = transcript[i] /\ i < n /\ i \in Nat
    BY <1>1 DEF Wrote
  <1>3. at' = at /\ seen' = seen /\ From' = From
    BY DEF Speaks, RunnerRests, From
  <1>4. \A i \in Rows : (Said(i)' <=> Said(i)) /\ (Told(i)' <=> Told(i))
    BY <1>2 DEF Said, Told
  <1>5. CASE Says \/ Finishes
    BY <1>3, <1>5 DEF LookInv, Says, Finishes, CaughtUp
  <1>6. CASE Begins \/ Launches \/ Notified
    <2>1. Rows' = 1..n /\ transcript'[n].kind \in {"prompt", "notice", "launch", "queued"}
      BY <1>1, <1>6 DEF Wrote, Begins, Says, Launches, Finishes, Notified, Working, Rec
    <2>2. \A i \in Rows' : Said(i)' => i \in Rows /\ Said(i)
      <3>1. ~Said(n)'
        BY <2>1 DEF Said
      <3>2. \A i \in Rows' : i \in Rows \/ i = n
        BY <1>2, <2>1
      <3> QED
        BY <1>4, <3>1, <3>2
    <2>3. CASE Told(n)'
      BY <1>2, <2>2, <2>3 DEF LookInv
    <2>4. CASE turn' = turn /\ turn # NoTask
      BY <1>2, <1>3, <1>4, <2>2, <2>4 DEF LookInv
    <2>5. Told(n)' \/ (turn' = turn /\ turn # NoTask)
      BY <1>1, <1>6 DEF Wrote, Begins, Says, Launches, Finishes, Notified, Working, Rec, Told
    <2> QED
      BY <2>3, <2>4, <2>5
  <1> QED
    BY <1>5, <1>6 DEF Speaks

LEMMA LookStep == ASSUME TypeInv, TurnInv, StampInv, LeftInv, LookInv, [Next]_vars PROVE LookInv'
  <1>1. CASE Drain \/ (\E u \in BOOLEAN : Takes(u)) \/ Mark \/ Types \/ Stops
             \/ \E bg \in BOOLEAN : Answers(bg)
    <2>1. at' # "act"
      BY <1>1, AnswersStatus DEF Drain, Takes, Mark, Types, Stops
    <2> QED
      BY <2>1 DEF LookInv
  <1>2. CASE Stays \/ (\E t \in Task : Post(t)) \/ Aside \/ StampNext \/ Deletes
    <2>1. /\ UNCHANGED <<transcript, mark, sentAt>> /\ turn' \in {turn, NoTask}
          /\ at' = "act" => at = "act" /\ seen' = seen
      BY <1>2 DEF Stays, Post, Aside, Marks, StaysOpen, StampNext, Deletes, RunnerRests, ClaudeRests, runVars, claudeVars
    <2> QED
      BY <2>1, LookSame
  <1>3. CASE Look \/ Speaks
    BY <1>3, LookLooks, LookSpeaks
  <1> QED
    BY <1>1, <1>2, <1>3, StepShapes

-----------------------------------------------------------------------------
(* What is said to the message in hand.                                    *)

\* What Claude does to the turn and the box, and who it speaks for.
LEMMA SpeaksFor ==
    ASSUME TypeInv, Speaks
    PROVE  /\ Len(transcript) \in Nat /\ Rows = 1..Len(transcript)
           /\ \A i \in Rows' : \/ i \in Rows /\ transcript'[i] = transcript[i]
                               \/ i > Len(transcript) /\ (Said(i)' => turn # NoTask /\ transcript'[i].of = turn)
           /\ \A u : LeftOver(u) => LeftOver(u)'
           /\ \/ turn' \in {turn, NoTask} /\ input' = input
              \/ input # <<>> /\ turn' = Head(input) /\ input' = Tail(input)
              \/ (\E u : u = turn' /\ LeftOver(u)') /\ input' = input
  <1>1. PICK n \in Nat \ {0} : Wrote(n)
    BY SpeaksRows
  <1>2. /\ n = Len(transcript) + 1 /\ Rows = 1..(n - 1) /\ Rows' \subseteq 1..(n + 2) /\ n \in Rows'
        /\ \A i \in Rows : i \in Rows' /\ transcript'[i] = transcript[i]
    BY <1>1 DEF Wrote
  <1>3. Len(transcript) \in Nat /\ Rows = 1..Len(transcript)
    BY DEF TypeInv, ClaudeType, Rows
  <1>4. transcript' \in Seq(Record)
    BY TypeClaude DEF Speaks, TypeInv, ClaudeType
  <1>5. \A i \in Rows' : i \in 1..Len(transcript')
    BY <1>4 DEF Rows
  <1>6. \A u : LeftOver(u) => LeftOver(u)'
    BY <1>2, <1>3, <1>5 DEF LeftOver
  <1>7. \A i \in Rows' : i \in Rows \/ (i \in {n, n + 1, n + 2} /\ i > Len(transcript))
    BY <1>2, <1>3
  <1>8. ASSUME NEW i \in Rows', i \in {n, n + 1, n + 2}, Said(i)'
        PROVE  turn # NoTask /\ transcript'[i].of = turn
    <2>1. turn \in Task => turn # NoTask
      BY DEF Task, NoTask
    <2> QED
      BY <1>1, <1>8, <2>1 DEF Wrote, Begins, Says, Launches, Finishes, Notified, Working, Rec, Said
  <1>9. \/ turn' \in {turn, NoTask} /\ input' = input
        \/ input # <<>> /\ turn' = Head(input) /\ input' = Tail(input)
        \/ Notified /\ turn' = background /\ transcript'[n] = Rec("notice", background) /\ input' = input
    BY <1>1 DEF Wrote, Begins, Says, Launches, Finishes, Notified, Working
  <1>10. ASSUME Notified, turn' = background, transcript'[n] = Rec("notice", background)
         PROVE  \E u : u = turn' /\ LeftOver(u)'
    <2>1. PICK u : u = background
      OBVIOUS
    <2>2. LeftOver(u)'
      BY <1>2, <1>5, <1>10, <2>1 DEF LeftOver
    <2> QED
      BY <1>10, <2>1, <2>2
  <1> QED
    BY <1>2, <1>3, <1>6, <1>7, <1>8, <1>9, <1>10

LEMMA PaneSame ==
    ASSUME PaneInv, UNCHANGED <<at, cur, uncleared, mark, transcript>>,
           input' \in {input, <<>>}, turn' \in {turn, NoTask}
    PROVE  PaneInv'
  <1>1. Rows' = Rows /\ (\A i : Said(i)' <=> Said(i)) /\ (\A u : LeftOver(u)' <=> LeftOver(u))
    BY DEF Rows, Said, LeftOver
  <1> QED
    BY <1>1 DEF PaneInv

LEMMA PaneTakes == ASSUME TypeInv, QueueInv, NEW u \in BOOLEAN, Takes(u) PROVE PaneInv'
  <1>1. cur \in Task
    BY DEF Takes, QueueInv, TypeInv, RunType
  <1>2. uncleared'[cur] = u /\ cur' = cur /\ at' = "mark" /\ input' = input /\ turn' = turn
    BY <1>1 DEF Takes, TypeInv, RunType, ClaudeRests
  <1>3. ~u => turn = NoTask /\ input = <<>>
    BY DEF Takes
  <1> QED
    BY <1>2, <1>3 DEF PaneInv

LEMMA PaneMark == ASSUME TypeInv, StampInv, PaneInv, Mark PROVE PaneInv'
  <1>1. /\ at = "mark" /\ at' = "send" /\ UNCHANGED <<cur, uncleared, input, turn, transcript>>
        /\ mark' = IF named THEN Len(transcript) ELSE IF state # "" THEN Unknown ELSE 0
    BY DEF Mark, claudeVars
  <1>2. Rows' = Rows /\ (\A i : Said(i)' <=> Said(i)) /\ (\A u : LeftOver(u)' <=> LeftOver(u))
    BY <1>1 DEF Rows, Said, LeftOver
  <1>3. ASSUME mark' # Unknown, NEW k \in Rows, k > mark', Said(k) PROVE FALSE
    <2>1. Rows = 1..Len(transcript) /\ Len(transcript) \in Nat
      BY DEF TypeInv, ClaudeType, Rows
    <2>2. CASE named
      BY <1>1, <1>3, <2>1, <2>2
    <2>3. CASE ~named
      <3>1. mark' = IF state # "" THEN Unknown ELSE 0
        BY <1>1, <2>3
      <3>2. state = ""
        BY <1>3, <3>1
      <3>3. transcript # <<>>
        BY <1>3 DEF Rows
      <3> QED
        BY <1>3, <2>3, <3>2, <3>3 DEF StampInv, Said
    <2> QED
      BY <2>2, <2>3
  <1> QED
    BY <1>1, <1>2, <1>3 DEF PaneInv, Before

LEMMA PaneSpeaks == ASSUME TypeInv, PaneInv, Speaks PROVE PaneInv'
  <1> SUFFICES ASSUME (at \in Before /\ ~uncleared[cur])' PROVE PaneInv'
    BY DEF PaneInv
  <1>1. UNCHANGED <<at, cur, uncleared, mark>>
    BY DEF Speaks, RunnerRests
  <1>2. at \in Before /\ input = <<>> /\ (turn = NoTask \/ LeftOver(turn))
    BY <1>1 DEF PaneInv, Before
  <1>3. PICK t : t = turn
    OBVIOUS
  <1>4. /\ \A i \in Rows' : \/ i \in Rows /\ transcript'[i] = transcript[i]
                            \/ Said(i)' => t # NoTask /\ transcript'[i].of = t
        /\ \A u : LeftOver(u) => LeftOver(u)'
        /\ input' = <<>> /\ (turn' \in {t, NoTask} \/ \E u : u = turn' /\ LeftOver(u)')
    BY <1>2, <1>3, SpeaksFor
  <1>5. turn' = NoTask \/ \E u : u = turn' /\ LeftOver(u)'
    BY <1>2, <1>3, <1>4
  <1>6. ASSUME at = "send", mark # Unknown, NEW k \in Rows', k > mark, Said(k)'
        PROVE  \E u : u = transcript'[k].of /\ LeftOver(u)'
    <2>1. CASE k \in Rows /\ transcript'[k] = transcript[k]
      <3>1. LeftOver(transcript[k].of)
        BY <1>1, <1>2, <1>6, <2>1 DEF PaneInv, Said
      <3> QED
        BY <1>4, <2>1, <3>1
    <2>2. CASE Said(k)' => t # NoTask /\ transcript'[k].of = t
      BY <1>2, <1>3, <1>4, <1>6, <2>2
    <2> QED
      BY <1>4, <1>6, <2>1, <2>2
  <1> QED
    BY <1>1, <1>4, <1>5, <1>6 DEF PaneInv

LEMMA PaneStep ==
    ASSUME TypeInv, QueueInv, StampInv, PaneInv, [Next]_vars PROVE PaneInv'
  <1>1. CASE Drain \/ Types \/ Stays \/ Stops \/ Look \/ \E bg \in BOOLEAN : Answers(bg)
    <2>1. at' \notin Before
      BY <1>1, AnswersStatus DEF Drain, Types, Stays, Stops, Look, Before, After
    <2> QED
      BY <2>1 DEF PaneInv, Before
  <1>2. CASE (\E t \in Task : Post(t)) \/ Aside \/ StampNext \/ Deletes
    <2>1. /\ UNCHANGED <<at, cur, uncleared, mark, transcript>>
          /\ input' \in {input, <<>>} /\ turn' \in {turn, NoTask}
      BY <1>2 DEF Post, Aside, Marks, StaysOpen, StampNext, Deletes, RunnerRests, runVars, claudeVars
    <2> QED
      BY <2>1, PaneSame
  <1>3. CASE (\E u \in BOOLEAN : Takes(u)) \/ Mark \/ Speaks
    BY <1>3, PaneTakes, PaneMark, PaneSpeaks
  <1> QED
    BY <1>1, <1>2, <1>3, StepShapes

LEMMA SentSame ==
    ASSUME SentInv, UNCHANGED <<cur, uncleared, mark, sentAt, transcript>>, at' \in After => at \in After,
           input' \in {input, <<>>}, turn' \in {turn, NoTask}
    PROVE  SentInv'
  <1>1. /\ Rows' = Rows /\ From' = From /\ (\A i : Said(i)' <=> Said(i))
        /\ \A u : LeftOver(u)' <=> LeftOver(u)
    BY DEF Rows, From, Said, LeftOver
  <1>2. \A i \in DOMAIN input' : i \in DOMAIN input /\ input'[i] = input[i]
    BY DEF Rows
  <1> QED
    BY <1>1, <1>2 DEF SentInv, After

LEMMA SentTypes == ASSUME TypeInv, QueueInv, TypedInv, PaneInv, Types PROVE SentInv'
  <1>1. /\ at = "send" /\ at' = "sent" /\ sentAt' = Len(transcript)
        /\ UNCHANGED <<cur, uncleared, mark, turn, transcript>>
        /\ input' = input \/ input' = Append(input, cur)
    BY DEF Types
  <1>2. cur \in Task /\ mark \in -1..Len(transcript) /\ Rows = 1..Len(transcript)
        /\ Len(transcript) \in Nat /\ input \in Seq(Task)
    BY <1>1 DEF QueueInv, TypeInv, RunType, ClaudeType, Rows
  <1>3. Rows' = Rows /\ (\A i : Said(i)' <=> Said(i)) /\ (\A u : LeftOver(u)' <=> LeftOver(u))
    BY <1>1 DEF Rows, Said, LeftOver
  <1>4. \A i \in Rows : transcript[i].of # cur
    BY <1>1, <1>2 DEF TypedInv, Untyped, Typed
  <1>5. mark' <= sentAt'
    BY <1>1, <1>2
  <1>6. ASSUME ~uncleared[cur]
        PROVE  /\ \A i \in DOMAIN input' : input'[i] = cur
               /\ turn = NoTask \/ LeftOver(turn)
               /\ \A i \in Rows : i > From' /\ Said(i) => LeftOver(transcript[i].of)
    <2>1. /\ input = <<>> /\ (turn = NoTask \/ LeftOver(turn))
          /\ mark # Unknown => \A i \in Rows : i > mark /\ Said(i) => LeftOver(transcript[i].of)
      BY <1>1, <1>6 DEF PaneInv, Before
    <2>2. \A i \in DOMAIN input' : input'[i] = cur
      BY <1>1, <1>2, <2>1
    <2>3. mark = Unknown => From' = Len(transcript)
      BY <1>1 DEF From
    <2>4. mark # Unknown => From' = mark
      BY <1>1 DEF From
    <2>5. \A i \in Rows : ~(i > Len(transcript))
      BY <1>2
    <2> QED
      BY <2>1, <2>2, <2>3, <2>4, <2>5
  <1> QED
    BY <1>1, <1>3, <1>4, <1>5, <1>6 DEF SentInv

LEMMA SentSpeaks == ASSUME TypeInv, SentInv, Speaks PROVE SentInv'
  <1> SUFFICES ASSUME (at \in After)' PROVE SentInv'
    BY DEF SentInv
  <1>1. UNCHANGED <<at, cur, uncleared, mark, sentAt>> /\ From' = From
    BY DEF Speaks, RunnerRests, From
  <1>2. at \in After
    BY <1>1 DEF After
  <1>3. PICK t : t = turn
    OBVIOUS
  <1>4. /\ Len(transcript) \in Nat /\ Rows = 1..Len(transcript)
        /\ \A i \in Rows' : \/ i \in Rows /\ transcript'[i] = transcript[i]
                            \/ i > Len(transcript) /\ (Said(i)' => t # NoTask /\ transcript'[i].of = t)
        /\ \A u : LeftOver(u) => LeftOver(u)'
        /\ \/ turn' \in {t, NoTask} /\ input' = input
           \/ input # <<>> /\ turn' = Head(input) /\ input' = Tail(input)
           \/ (\E u : u = turn' /\ LeftOver(u)') /\ input' = input
    BY <1>3, SpeaksFor
  <1>5. mark <= sentAt /\ sentAt <= Len(transcript) /\ sentAt \in Nat
    BY <1>2, <1>4 DEF SentInv, TypeInv, RunType
  <1>6. ASSUME NEW i \in Rows', transcript'[i].of = cur PROVE i > sentAt
    <2>1. CASE i \in Rows /\ transcript'[i] = transcript[i]
      BY <1>2, <1>6, <2>1 DEF SentInv
    <2>2. CASE i > Len(transcript)
      <3>1. i \in Nat
        <4>1. transcript' \in Seq(Record)
          BY TypeClaude DEF Speaks, TypeInv, ClaudeType
        <4> QED
          BY <4>1 DEF Rows
      <3> QED
        BY <1>4, <1>5, <2>2, <3>1
    <2> QED
      BY <1>4, <1>6, <2>1, <2>2
  <1>7. ASSUME ~uncleared[cur]
        PROVE  /\ \A i \in DOMAIN input' : input'[i] = cur
               /\ turn' \in {NoTask, cur} \/ \E u : u = turn' /\ LeftOver(u)'
               /\ \A i \in Rows' : i > From /\ Said(i)' =>
                     transcript'[i].of = cur \/ \E u : u = transcript'[i].of /\ LeftOver(u)'
    <2>1. /\ \A i \in DOMAIN input : input[i] = cur
          /\ t \in {NoTask, cur} \/ LeftOver(t)
          /\ \A i \in Rows : i > From /\ Said(i) =>
                transcript[i].of = cur \/ LeftOver(transcript[i].of)
      BY <1>2, <1>3, <1>7 DEF SentInv
    <2>2. input # <<>> => Head(input) = cur /\ \A i \in DOMAIN Tail(input) : Tail(input)[i] = cur
      BY <2>1, InputTail
    <2>3. t # NoTask => t = cur \/ LeftOver(t)'
      BY <1>4, <2>1
    <2>4. ASSUME NEW i \in Rows', i > From, Said(i)'
          PROVE  transcript'[i].of = cur \/ \E u : u = transcript'[i].of /\ LeftOver(u)'
      <3>1. CASE i \in Rows /\ transcript'[i] = transcript[i]
        <4>1. transcript[i].of = cur \/ LeftOver(transcript[i].of)
          BY <2>1, <2>4, <3>1 DEF Said
        <4> QED
          BY <1>4, <3>1, <4>1
      <3>2. CASE Said(i)' => t # NoTask /\ transcript'[i].of = t
        BY <2>3, <2>4, <3>2
      <3> QED
        BY <1>4, <2>4, <3>1, <3>2
    <2>5. \A i \in DOMAIN input' : input'[i] = cur
      BY <1>4, <2>1, <2>2
    <2>6. turn' \in {NoTask, cur} \/ \E u : u = turn' /\ LeftOver(u)'
      BY <1>4, <2>2, <2>3
    <2> QED
      BY <2>4, <2>5, <2>6
  <1> QED
    BY <1>1, <1>5, <1>6, <1>7 DEF SentInv

LEMMA SentStep ==
    ASSUME TypeInv, QueueInv, TypedInv, PaneInv, SentInv, [Next]_vars PROVE SentInv'
  <1>1. CASE Drain \/ (\E u \in BOOLEAN : Takes(u)) \/ Mark \/ Stops \/ \E bg \in BOOLEAN : Answers(bg)
    <2>1. at' \notin After
      BY <1>1, AnswersStatus DEF Drain, Takes, Mark, Stops, After
    <2> QED
      BY <2>1 DEF SentInv, After
  <1>2. CASE Stays \/ Look \/ (\E t \in Task : Post(t)) \/ Aside \/ StampNext \/ Deletes
    <2>1. /\ UNCHANGED <<cur, uncleared, mark, sentAt, transcript>> /\ (at' \in After => at \in After)
          /\ input' \in {input, <<>>} /\ turn' \in {turn, NoTask}
      BY <1>2 DEF Stays, Look, Post, Aside, Marks, StaysOpen, StampNext, Deletes, RunnerRests, ClaudeRests, runVars,
         claudeVars, After
    <2> QED
      BY <2>1, SentSame
  <1>3. CASE Types \/ Speaks
    BY <1>3, SentTypes, SentSpeaks
  <1> QED
    BY <1>1, <1>2, <1>3, StepShapes

-----------------------------------------------------------------------------
(* The results.                                                            *)

\* Steps that write nothing and give no answer.
LEMMA DoneSame ==
    ASSUME TypeInv, DoneInv, NEW t \in Task, status[t] = "done",
           result'[t] = result[t], partial'[t] = partial[t], uncleared'[t] = uncleared[t],
           transcript' = transcript, turn' \in {turn, NoTask}, background' \in {background, NoTask},
           input' \in {input, <<>>} \/ (input' = Append(input, cur) /\ cur # t)
    PROVE  Answered(t)'
  <1>1. Rows' = Rows /\ (\A i : Said(i)' <=> Said(i)) /\ (\A u : LeftOver(u)' <=> LeftOver(u))
    BY DEF Rows, Said, LeftOver
  <1>2. Answered(t) /\ t # NoTask
    BY DEF DoneInv, Task, NoTask
  <1>3. Within(t, input') => Within(t, input)
    <2>1. CASE input' \in {input, <<>>}
      BY <2>1 DEF Within
    <2>2. CASE input' = Append(input, cur) /\ cur # t
      <3>1. input \in Seq(Task)
        BY DEF TypeInv, ClaudeType
      <3>2. \A i \in DOMAIN input' : (i \in DOMAIN input /\ input'[i] = input[i]) \/ input'[i] = cur
        BY <2>2, <3>1
      <3> QED
        BY <2>2, <3>2 DEF Within
    <2> QED
      BY <2>1, <2>2
  <1>4. Rests(t) => Rests(t)'
    BY <1>1, <1>2, <1>3 DEF Rests
  <1>5. /\ result'[t] \in Rows' /\ transcript'[result'[t]] = transcript[result[t]]
        /\ transcript'[result'[t]].kind = "words"
    BY <1>1, <1>2 DEF Answered, Said
  <1> QED
    BY <1>1, <1>2, <1>4, <1>5 DEF Answered, Said

LEMMA DoneSpeaks ==
    ASSUME TypeInv, DoneInv, Speaks, NEW t \in Task, status[t] = "done" PROVE Answered(t)'
  <1>1. PICK n \in Nat \ {0} : Wrote(n)
    BY SpeaksRows
  <1>2. \A i \in Rows : i \in Rows' /\ transcript'[i] = transcript[i]
    BY <1>1 DEF Wrote
  <1>3. Answered(t) /\ t # NoTask
    BY DEF DoneInv, Task, NoTask
  <1>4. /\ result'[t] = result[t] /\ partial'[t] = partial[t] /\ uncleared'[t] = uncleared[t]
    BY DEF Speaks, RunnerRests, ResultRests
  <1>5. PICK w : w = turn
    OBVIOUS
  <1>6. /\ \A i \in Rows' : \/ i \in Rows /\ transcript'[i] = transcript[i]
                            \/ Said(i)' => transcript'[i].of = w
        /\ \A u : LeftOver(u) => LeftOver(u)'
    BY <1>5, SpeaksFor
  <1>7. ASSUME Rests(t) PROVE Rests(t)'
    <2>1. /\ turn' \in {turn, NoTask, background} \/ (input # <<>> /\ turn' = Head(input))
          /\ background' \in {background, NoTask, turn}
          /\ input' = input \/ (input # <<>> /\ input' = Tail(input))
      BY DEF Speaks, Begins, Says, Launches, Finishes, Notified
    <2>2. input # <<>> => Head(input) # t /\ \A i \in DOMAIN Tail(input) : Tail(input)[i] # t
      BY <1>7, InputTail DEF Rests, Within
    <2>3. turn' # t /\ background' # t
      BY <1>3, <1>7, <2>1, <2>2 DEF Rests
    <2>4. ~Within(t, input')
      BY <1>7, <2>1, <2>2 DEF Rests, Within
    <2>5. ASSUME NEW i \in Rows', i > result[t] PROVE transcript'[i] # Rec("words", t)
      <3>1. CASE i \in Rows /\ transcript'[i] = transcript[i]
        BY <1>7, <2>5, <3>1 DEF Rests
      <3>2. CASE Said(i)' => transcript'[i].of = w
        <4>1. w # t
          BY <1>5, <1>7 DEF Rests
        <4>2. Rec("words", t).kind = "words" /\ Rec("words", t).of = t
          BY DEF Rec
        <4> QED
          BY <3>2, <4>1, <4>2 DEF Said
      <3> QED
        BY <1>6, <2>5, <3>1, <3>2
    <2> QED
      BY <1>4, <2>3, <2>4, <2>5 DEF Rests
  <1>8. result[t] \in Rows /\ Said(result[t])
    BY <1>3 DEF Answered
  <1>9. /\ result'[t] \in Rows' /\ transcript'[result'[t]] = transcript[result[t]]
        /\ transcript'[result'[t]].kind = "words"
    BY <1>2, <1>4, <1>8 DEF Said
  <1>10. ~uncleared'[t] =>
            transcript'[result'[t]].of = t \/ \E u : u = transcript'[result'[t]].of /\ LeftOver(u)'
    BY <1>3, <1>4, <1>6, <1>9 DEF Answered
  <1> QED
    BY <1>3, <1>4, <1>7, <1>9, <1>10 DEF Answered, Said

\* The answer the watcher takes.
LEMMA DoneAnswers ==
    ASSUME TypeInv, QueueInv, TypedInv, TurnInv, LookInv, SentInv, NEW bg, Answers(bg),
           NEW c \in Task, c = cur, status[c] \in Open
    PROVE  Answered(c)'
  <1>1. at = "act" /\ seen = "done" /\ Settled /\ (bg \/ ~Outstanding)
    BY DEF Answers
  <1>2. c # NoTask
    BY DEF NoTask, Task
  <1>3. cur = c
    OBVIOUS
  <1>4. /\ result'[c] = Words /\ partial'[c] = bg /\ uncleared' = uncleared
        /\ UNCHANGED <<input, turn, background, transcript>>
    BY <1>3 DEF Answers, Settles, Returns, ClaudeRests, CanGo, Open, TypeInv, StoreType
  <1>5. Rows' = Rows /\ (\A i : Said(i)' <=> Said(i)) /\ (\A u : LeftOver(u)' <=> LeftOver(u))
    BY <1>4 DEF Rows, Said, LeftOver
  <1>6. /\ Len(transcript) \in Nat /\ Rows = 1..Len(transcript) /\ mark \in -1..Len(transcript)
        /\ sentAt \in 0..Len(transcript)
    BY DEF TypeInv, ClaudeType, RunType, Rows
  <1>7. \A ks, i : i \in Of(ks) <=> i \in Rows /\ named /\ i > From /\ transcript[i].kind \in ks
    BY <1>6 DEF Of, Turn
  <1>8. \A ks : Of(ks) \subseteq 1..Len(transcript)
    BY <1>6, <1>7
  \* The words are in the turn's records, and the last of them.
  <1>9. PICK w \in 0..Len(transcript) : w = Words
    BY <1>6, <1>8, LastOf DEF Words
  <1>10. w \in Of({"words"}) /\ \A i \in Of({"words"}) : i <= w
    <2>1. w # 0
      BY <1>1, <1>9 DEF Settled
    <2>2. PICK x : x \in Of({"words"})
      BY <1>6, <1>8, <1>9, <2>1, LastOf DEF Words
    <2> QED
      BY <1>6, <1>8, <1>9, <2>2, LastOf DEF Words
  <1>11. w \in Rows /\ named /\ w > From /\ Said(w)
    BY <1>7, <1>10 DEF Said
  <1>12. ~uncleared[c] => transcript[w].of = c \/ LeftOver(transcript[w].of)
    BY <1>1, <1>3, <1>11 DEF SentInv, After
  <1>13. From <= sentAt /\ From \in Int
    BY <1>1, <1>6 DEF From, SentInv, After
  <1>14. turn = NoTask
    <2> SUFFICES ASSUME turn # NoTask PROVE FALSE
      OBVIOUS
    <2>1. PICK j \in Rows : j > w /\ Told(j)
      BY <1>1, <1>11 DEF LookInv
    <2>2. j > From
      BY <1>6, <1>11, <1>13, <2>1
    <2>3. j \in Of({"prompt", "notice"})
      BY <1>7, <1>11, <2>1, <2>2 DEF Told
    <2>4. PICK l \in 0..Len(transcript) : l = Last(Of({"prompt", "notice"}))
      BY <1>6, <1>8, LastOf
    <2>5. j <= l
      BY <1>6, <1>8, <2>3, <2>4, LastOf
    <2>6. l < w
      BY <1>1, <1>9, <2>4 DEF Settled
    <2> QED
      BY <1>6, <1>9, <2>1, <2>4, <2>5, <2>6
  <1>15. ASSUME ~bg, transcript[w].of = c
         PROVE  /\ turn # c /\ background # c /\ ~Within(c, input)
                /\ \A i \in Rows : i > w => transcript[i] # Rec("words", c)
    <2>1. turn # c
      BY <1>2, <1>3, <1>14
    <2>2. ~Within(c, input)
      BY <1>11, <1>15 DEF TypedInv, Within
    <2>3. background # c
      <3> SUFFICES ASSUME background = c PROVE FALSE
        OBVIOUS
      <3>1. /\ Launched(c) /\ \A j \in Rows : Back(j) => transcript[j].of # c
        BY <1>2, <1>3 DEF TurnInv
      <3>2. PICK i \in Rows : transcript[i] = Rec("launch", c)
        BY <3>1 DEF Launched
      <3>3. transcript[i].kind = "launch" /\ transcript[i].of = c
        BY <3>2 DEF Rec
      <3>4. i > sentAt
        BY <1>1, <1>3, <3>3 DEF SentInv, After
      <3>5. i > From
        BY <1>6, <1>13, <3>4
      <3>6. i \in Of({"launch"})
        BY <1>7, <1>11, <3>3, <3>5
      <3>7. PICK j \in Of({"notice", "queued"}) : transcript[j].of = transcript[i].of
        BY <1>1, <1>15, <3>6 DEF Outstanding
      <3>8. j \in Rows /\ Back(j)
        BY <1>7, <3>7 DEF Back
      <3> QED
        BY <3>1, <3>3, <3>7, <3>8
    <2>4. ASSUME NEW i \in Rows, i > w, transcript[i] = Rec("words", c) PROVE FALSE
      <3>1. transcript[i].kind = "words"
        BY <2>4 DEF Rec
      <3>2. i > From
        BY <1>6, <1>11, <1>13, <2>4
      <3>3. i \in Of({"words"})
        BY <1>7, <1>11, <3>1, <3>2
      <3> QED
        BY <1>6, <1>9, <1>10, <2>4, <3>3
    <2> QED
      BY <2>1, <2>2, <2>3, <2>4
  <1> QED
    <2>1. result'[c] = w
      BY <1>4, <1>9
    <2>2. /\ result'[c] \in Rows' /\ transcript'[result'[c]] = transcript[w]
          /\ transcript'[result'[c]].kind = "words"
      BY <1>4, <1>5, <1>11, <2>1 DEF Said
    <2>3. ~partial'[c] /\ transcript'[result'[c]].of = c => Rests(c)'
      BY <1>4, <1>5, <1>15, <2>1, <2>2 DEF Rests
    <2>4. ~uncleared'[c] =>
             transcript'[result'[c]].of = c \/ \E u : u = transcript'[result'[c]].of /\ LeftOver(u)'
      BY <1>4, <1>5, <1>12, <2>2
    <2> QED
      BY <2>2, <2>3, <2>4 DEF Answered, Said

LEMMA DoneStep ==
    ASSUME TypeInv, QueueInv, TypedInv, TurnInv, LookInv, SentInv, DoneInv, [Next]_vars
    PROVE  DoneInv'
  <1> SUFFICES ASSUME NEW t \in Task, status'[t] = "done" PROVE Answered(t)'
    BY DEF DoneInv
  \* What is done is not in hand.
  <1>1. status[t] = "done" => t # cur
    BY DEF QueueInv, Going, Task, NoTask
  <1>2. CASE Drain \/ (\E u \in BOOLEAN : Takes(u)) \/ Mark \/ Types \/ Stays \/ Stops \/ Look
             \/ (\E u \in Task : Post(u)) \/ Aside \/ StampNext \/ Deletes
    <2>1. status[t] = "done"
      <3>1. CASE UNCHANGED status
        BY <3>1
      <3>2. CASE Mild
        BY <3>2, MildGoing
      <3>3. CASE \A u \in Task : status'[u] = status[u] \/ status'[u] \in {"failed", "cancelled"}
        BY <3>3
      <3>4. CASE \E u \in Task : status' = [status EXCEPT ![u] = "accepted"]
        BY <3>4 DEF TypeInv, StoreType
      <3>5. CASE Deletes
        BY <3>5 DEF Deletes
      <3> QED
        BY <1>2, <3>1, <3>2, <3>3, <3>4, <3>5
           DEF Drain, Takes, Mark, Types, Stays, Stops, Look, Post, Aside, StampNext, storeVars
    <2>2. UNCHANGED <<result, partial, transcript>>
      BY <1>2 DEF Drain, Takes, Mark, Types, Stays, Stops, Look, Post, Aside, StampNext, Deletes,
         storeVars, ResultRests, ClaudeRests, claudeVars
    <2>3. turn' \in {turn, NoTask} /\ background' \in {background, NoTask}
      BY <1>2 DEF Drain, Takes, Mark, Types, Stays, Stops, Look, Post, Aside, Marks, StaysOpen, StampNext, Deletes,
         ClaudeRests, claudeVars
    <2>4. input' \in {input, <<>>} \/ input' = Append(input, cur)
      BY <1>2 DEF Drain, Takes, Mark, Types, Stays, Stops, Look, Post, Aside, StampNext, Deletes,
         ClaudeRests, claudeVars
    <2>5. uncleared'[t] = uncleared[t]
      <3>1. CASE \E u : uncleared' = [uncleared EXCEPT ![cur] = u]
        BY <1>1, <2>1, <3>1 DEF TypeInv, RunType
      <3>2. CASE UNCHANGED uncleared
        BY <3>2
      <3> QED
        BY <1>2, <3>1, <3>2 DEF Drain, Takes, Mark, Types, Stays, Stops, Look, Post, Aside, StampNext,
           Deletes, RunnerRests, runVars
    <2> QED
      BY <1>1, <2>1, <2>2, <2>3, <2>4, <2>5, DoneSame
  <1>3. CASE Speaks
    <2>1. status[t] = "done"
      BY <1>3 DEF Speaks
    <2> QED
      BY <1>3, <2>1, DoneSpeaks
  <1>4. ASSUME NEW bg \in BOOLEAN, Answers(bg) PROVE Answered(t)'
    <2>1. CASE status[t] = "done"
      <3>1. /\ result'[t] = result[t] /\ partial'[t] = partial[t] /\ uncleared'[t] = uncleared[t]
            /\ UNCHANGED <<transcript, turn, background, input>>
        BY <1>1, <1>4, <2>1, AnswersStatus DEF Answers, ClaudeRests
      <3> QED
        BY <1>1, <2>1, <3>1, DoneSame
    <2>2. CASE status[t] # "done"
      <3>1. t = cur /\ status[t] \in Open
        BY <1>4, <2>2, AnswersStatus
      <3> QED
        BY <1>4, <3>1, DoneAnswers
    <2> QED
      BY <2>1, <2>2
  <1> QED
    BY <1>2, <1>3, <1>4, StepShapes

-----------------------------------------------------------------------------
(* The theorems.                                                           *)

LEMMA InitInv == Init => IInv
  <1> SUFFICES ASSUME Init PROVE IInv
    OBVIOUS
  <1>1. TypeInv
    BY TypeInit
  <1>2. /\ queue = <<>> /\ cur = NoTask /\ at = "idle" /\ input = <<>> /\ transcript = <<>>
        /\ turn = NoTask /\ background = NoTask
        /\ status = [t \in Task |-> "unsent"]
    BY DEF Init
  <1>3. Rows = {} /\ DOMAIN input = {} /\ DOMAIN queue = {}
    BY <1>2 DEF Rows
  <1>4. QueueInv
    BY <1>2, <1>3 DEF QueueInv
  <1>5. TypedInv
    BY <1>3 DEF TypedInv, Typed, Within
  <1>6. TurnInv
    BY <1>2, <1>3 DEF TurnInv
  <1>7. StampInv
    BY <1>2, <1>3 DEF StampInv
  <1>8. LookInv /\ PaneInv /\ SentInv
    BY <1>2 DEF LookInv, PaneInv, Before, SentInv, After
  <1>9. DoneInv
    BY <1>2 DEF DoneInv
  <1>10. RouteInv /\ LeftInv
    BY <1>2 DEF Init, NoAnswer, RouteInv, WorkInv, AnswerInv, CancelInv, LeftInv
  <1> QED
    BY <1>1, <1>4, <1>5, <1>6, <1>7, <1>8, <1>9, <1>10 DEF IInv

LEMMA StepInv == ASSUME IInv, [Next]_vars PROVE IInv'
  <1>1. /\ TypeInv /\ QueueInv /\ TypedInv /\ TurnInv /\ StampInv /\ RouteInv /\ LeftInv
        /\ LookInv /\ PaneInv /\ SentInv /\ DoneInv
    BY DEF IInv
  <1>2. TypeInv' /\ QueueInv' /\ TypedInv' /\ TurnInv' /\ StampInv'
    BY <1>1, TypeStep, QueueStep, TypedStep, TurnStep, StampStep
  <1>3. RouteInv' /\ LeftInv'
    BY <1>1, RouteStep, LeftStep
  <1>4. LookInv' /\ PaneInv' /\ SentInv' /\ DoneInv'
    BY <1>1, LookStep, PaneStep, SentStep, DoneStep
  <1> QED
    BY <1>2, <1>3, <1>4 DEF IInv

LEMMA Invariant == Spec => []IInv
  BY InitInv, StepInv, PTL DEF Spec

\* Every variable keeps its type, for any number of messages.
THEOREM TypeCorrect == Spec => []TypeOK
  <1>1. IInv => TypeOK
    BY TypeParts DEF IInv
  <1> QED
    BY <1>1, Invariant, PTL

LEMMA RowOf == ASSUME TypeInv PROVE Rows = 1..Len(transcript) /\ Len(transcript) \in Nat
  BY DEF TypeInv, ClaudeType, Rows

\* A message sent at a settled prompt has for result words of its own, or of a message
\* whose background work came back.
THEOREM ResultOwn == Spec => []ResultIsOwn
  <1>1. IInv => ResultIsOwn
    <2> SUFFICES ASSUME IInv PROVE ResultIsOwn
      OBVIOUS
    <2>1. TypeInv /\ DoneInv
      BY DEF IInv
    <2> SUFFICES ASSUME NEW t \in Task, status[t] = "done", ~uncleared[t]
                 PROVE  /\ result[t] # 0 /\ transcript[result[t]].kind = "words"
                        /\ LET u == transcript[result[t]].of IN u = t \/ LeftOver(u)
      BY DEF ResultIsOwn
    <2>2. Answered(t)
      BY <2>1 DEF DoneInv
    <2>3. result[t] # 0
      BY <2>1, <2>2, RowOf DEF Answered
    <2> QED
      BY <2>2, <2>3 DEF Answered, Said
  <1> QED
    BY <1>1, Invariant, PTL

\* A result of its own is the last thing said about it: nothing that could say more of
\* it is under way, waits in the box or runs in the background.
THEOREM ResultFinal == Spec => []ResultIsFinal
  <1>1. IInv => ResultIsFinal
    <2> SUFFICES ASSUME IInv PROVE ResultIsFinal
      OBVIOUS
    <2>1. TypeInv /\ DoneInv
      BY DEF IInv
    <2> SUFFICES ASSUME NEW t \in Task, status[t] = "done", ~partial[t], transcript[result[t]].of = t,
                        NEW i \in result[t]+1..Len(transcript)
                 PROVE  transcript[i] # Rec("words", t)
      BY DEF ResultIsFinal
    <2>2. Rests(t) /\ result[t] \in Rows
      BY <2>1 DEF DoneInv, Answered
    <2>3. i \in Rows /\ i > result[t]
      BY <2>1, <2>2, RowOf
    <2> QED
      BY <2>2, <2>3 DEF Rests
  <1> QED
    BY <1>1, Invariant, PTL

=============================================================================
