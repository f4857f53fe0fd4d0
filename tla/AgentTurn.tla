-------------------------------- MODULE AgentTurn --------------------------------
(***************************************************************************)
(* One conversation of agent-api: the messages a caller posts to it, each  *)
(* a task; the goroutine that types them into the session's pane one at a  *)
(* time and watches each turn to its end (runner.go, turn.go, turnread.go);*)
(* and the caller's cancels and answers, which act on the same session     *)
(* (tasks.go, dialogguard.go, task.go).                                    *)
(*                                                                         *)
(* Claude, the pane and the mod are external.  Claude writes its           *)
(* transcript as it goes; the mod's stamps of @claude_state come after, in *)
(* order; a session without the mod has no stamps but the ones the watcher *)
(* writes.  Clocks are timers that run out.                                *)
(***************************************************************************)
EXTENDS Integers, Sequences, FiniteSets, FiniteSetsExt

CONSTANTS
    Tasks,   \* bound: messages the caller posts
    Answer,  \* the answers it posts
    Scopes   \* the cases explored: [mod: whether the mod is connected; tasks, events: bounds]

\* events: words before a turn's last, dialogs, background work, cancels, and
\* messages, interrupts and answers that come to nothing.
ASSUME BoundAssumption == Tasks \in Nat
ASSUME ScopesAssumption == Scopes \subseteq [mod : BOOLEAN, tasks : 0..Tasks, events : Nat]

VARIABLES
    \* the task store; shown: the dialog the question was read from, 0 unknown;
    \* result: the place of the answer in the transcript; partial: BackgroundRunning
    status, shown, result, partial,
    \* the runner: the task in hand, where it is, and what watchTurn keeps
    queue, cur, at, uncleared, mark, sentAt, seen, watch,
    \* the session
    live, mod, input, turn, dialog, background, transcript, named, state, stamps,
    \* cancels and answers under way
    cancels, answers,
    \* counters
    dialogs, events, bound

storeVars   == <<status, shown, result, partial>>
runVars     == <<queue, cur, at, uncleared, mark, sentAt, seen, watch>>
claudeVars  == <<live, mod, input, turn, dialog, background, transcript, named>>
stampVars   == <<state, stamps>>
requestVars == <<cancels, answers>>
countVars   == <<dialogs, events, bound>>
vars == <<storeVars, runVars, claudeVars, stampVars, requestVars, countVars>>

-----------------------------------------------------------------------------
(* Values.                                                                 *)

\* Tasks are numbered as they are posted.
Task == 1..Tasks
NoTask == 0

Final  == {"done", "failed", "cancelled"}
Open   == {"accepted", "running", "needs_input"}
Record == [kind : {"prompt", "words", "launch", "notice", "queued", "end"}, of : Task]
Rec(k, t) == [kind |-> k, of |-> t]

\* The clocks of watchTurn: the start grace, "done" without an answer, an
\* unreadable dialog, background work, and the ceiling.
Timer == {"start", "done", "unknown", "hold", "turn"}
Watch == [saw : BOOLEAN, asked : BOOLEAN, tool : Nat, timing : SUBSET Timer, over : SUBSET Timer]
NoWatch == [saw |-> FALSE, asked |-> FALSE, tool |-> 0, timing |-> {}, over |-> {}]
Unknown == -1      \* unknownMark
NoAnswer == [at |-> "idle", task |-> NoTask, tool |-> 0]
Over == [NoAnswer EXCEPT !.at = "over"]

Init ==
    /\ status = [t \in Task |-> "unsent"] /\ shown = [t \in Task |-> 0]
    /\ result = [t \in Task |-> 0] /\ partial = [t \in Task |-> FALSE]
    /\ queue = <<>> /\ cur = NoTask /\ at = "idle" /\ mark = 0 /\ sentAt = 0
    /\ uncleared = [t \in Task |-> FALSE] /\ seen = "" /\ watch = NoWatch
    /\ live = TRUE /\ bound \in Scopes /\ mod = bound.mod /\ input = <<>> /\ turn = NoTask /\ dialog = 0
    /\ background = NoTask /\ transcript = <<>> /\ named = FALSE
    /\ state = "" /\ stamps = <<>>
    /\ cancels = [t \in Task |-> "none"] /\ answers = [a \in Answer |-> NoAnswer]
    /\ dialogs = 0 /\ events = 0

\* TaskStore.Update and SetQuestion, on the questions too.
CanGo(s, next) == s \in Open /\ s # next
Update(t, next) == status' = [status EXCEPT ![t] = IF CanGo(@, next) THEN next ELSE @]
SetQuestion(t, q) ==
    shown' = [shown EXCEPT ![t] = IF status[t] = "needs_input" THEN q ELSE @]
Ask(t, q) ==
    /\ Update(t, "needs_input")
    /\ shown' = [shown EXCEPT ![t] = IF CanGo(status[t], "needs_input") THEN q ELSE @]

\* readQuestion: the dialog the mod reports.
Question == IF mod THEN dialog ELSE 0

\* A dialog goes, and Claude goes on with its turn.
Closes == dialog' = 0 /\ stamps' = IF mod THEN Append(stamps, "running") ELSE stamps

Happens == events < bound.events /\ events' = events + 1 /\ UNCHANGED bound

-----------------------------------------------------------------------------
(* The transcript.                                                         *)

\* turnLines: after the mark, or written since the message was sent.
From == IF mark = Unknown THEN sentAt ELSE mark
Turn == {i \in 1..Len(transcript) : named /\ i > From}
Of(kinds) == {i \in Turn : transcript[i].kind \in kinds}
Last(is) == IF is = {} THEN 0 ELSE Max(is)

\* turnAnswer: the last words, settled unless something was said to Claude since.
Words == Last(Of({"words"}))
Settled == Words # 0 /\ Last(Of({"prompt", "notice"})) < Words
\* turnEnded
Ended == Last(Of({"end"})) > Last(Of({"prompt", "notice", "words"}))
\* Faulty: "done" is taken at its word.
Outstanding_Ignored == FALSE

\* backgroundOutstanding
Outstanding ==
    \E i \in Of({"launch"}) : \A j \in Of({"notice", "queued"}) : transcript[j].of # transcript[i].of

-----------------------------------------------------------------------------
(* The runner.                                                             *)

\* runTurn returns: what it kept is gone.
Returns ==
    /\ at' = "idle" /\ cur' = NoTask /\ mark' = 0 /\ sentAt' = 0 /\ seen' = ""
    /\ watch' = NoWatch /\ UNCHANGED <<queue, uncleared>>
Fails == Update(cur, "failed") /\ Returns /\ UNCHANGED <<shown, result, partial>>

\* postMessage: Tasks.Add, Runner.Submit.
Post(t) ==
    /\ status[t] = "unsent" /\ t <= bound.tasks /\ live /\ \A u \in 1..t-1 : status[u] # "unsent"
    /\ status' = [status EXCEPT ![t] = "accepted"] /\ queue' = Append(queue, t)
    /\ UNCHANGED <<shown, result, partial, cur, at, uncleared, mark, sentAt, seen, watch,
                   claudeVars, stampVars, requestVars, countVars>>

\* drain takes the next; one cancelled while queued is dropped.
Drain ==
    /\ at = "idle" /\ queue # <<>> /\ queue' = Tail(queue)
    /\ IF status[Head(queue)] = "cancelled"
       THEN UNCHANGED <<cur, at>>
       ELSE cur' = Head(queue) /\ at' = "ready"
    /\ UNCHANGED <<storeVars, uncleared, mark, sentAt, seen, watch, claudeVars, stampVars,
                   requestVars, countVars>>

PaneReady == turn = NoTask /\ input = <<>> /\ dialog = 0

\* A pane takes longer to settle than a cancel to type its Ctrl-C.
NoCancel == \A t \in Task : cancels[t] = "none"

\* awaitReady, up to its last look at the cancel.
GoesOn(u) ==
    IF status[cur] = "cancelled"
    THEN Returns
    ELSE /\ at' = "mark" /\ uncleared' = [uncleared EXCEPT ![cur] = u]
         /\ UNCHANGED <<queue, cur, mark, sentAt, seen, watch>>

Ready ==
    /\ at = "ready" /\ live /\ PaneReady /\ NoCancel /\ GoesOn(FALSE)
    /\ UNCHANGED <<storeVars, claudeVars, stampVars, requestVars, countVars>>

\* The pane never settled, for a minute, which outlasts a cancel.  Over a dialog
\* nothing is typed; else the message is sent anyway.
NotReady ==
    /\ at = "ready" /\ live /\ ~PaneReady /\ NoCancel
    /\ \/ (dialog # 0 \/ state = "awaiting") /\ Fails
       \/ /\ dialog = 0 /\ state # "awaiting" /\ GoesOn(TRUE) /\ UNCHANGED storeVars
    /\ UNCHANGED <<claudeVars, stampVars, requestVars, countVars>>

\* Faulty: a history that cannot be found is taken for an empty one.
Mark_Zero ==
    /\ at = "mark" /\ live /\ at' = "send"
    /\ mark' = IF named THEN Len(transcript) ELSE 0
    /\ UNCHANGED <<storeVars, queue, cur, uncleared, sentAt, seen, watch, claudeVars, stampVars,
                   requestVars, countVars>>

\* How much history there is before this turn.
Mark ==
    /\ at = "mark" /\ live /\ at' = "send"
    /\ mark' = IF named THEN Len(transcript) ELSE IF state # "" THEN Unknown ELSE 0
    /\ UNCHANGED <<storeVars, queue, cur, uncleared, sentAt, seen, watch, claudeVars, stampVars,
                   requestVars, countVars>>

\* The paste and its Enter.  A dialog that takes the box's place meanwhile stops it
\* (ErrInputGone); the Enter picks a row of one already there.  The message may come
\* to nothing with nothing said of it (ErrSubmitUnconfirmed, a shell), or fail.
Send ==
    /\ at = "send" /\ live
    /\ \/ /\ at' = "sent" /\ sentAt' = Len(transcript)
          /\ \/ dialog = 0 /\ input' = Append(input, cur) /\ UNCHANGED <<dialog, stamps, events, bound>>
             \/ dialog = 0 /\ Happens /\ UNCHANGED <<input, dialog, stamps>>
             \/ dialog # 0 /\ Closes /\ UNCHANGED <<input, events, bound>>
          /\ UNCHANGED <<storeVars, queue, cur, uncleared, mark, seen, watch>>
       \/ /\ Fails /\ UNCHANGED <<input, dialog, stamps>>
          /\ Happens \/ (dialog # 0 /\ UNCHANGED <<events, bound>>)
    /\ UNCHANGED <<live, mod, turn, background, transcript, named, state, requestVars, dialogs>>

\* Running once the paste has landed; then the watch begins.
Sent ==
    /\ at = "sent" /\ Update(cur, "running") /\ at' = "watch"
    /\ watch' = [NoWatch EXCEPT !.timing = {"start", "turn"}]
    /\ UNCHANGED <<shown, result, partial, queue, cur, uncleared, mark, sentAt, seen, claudeVars,
                   stampVars, requestVars, countVars>>

\* The session went: nothing is sent, or the turn cannot be followed.
Gone ==
    /\ at \in {"ready", "mark", "send", "watch"} /\ ~live /\ Fails
    /\ UNCHANGED <<claudeVars, stampVars, requestVars, countVars>>

\* The watcher sees the cancel.
LetsGo ==
    /\ at = "watch" /\ status[cur] = "cancelled" /\ Returns
    /\ UNCHANGED <<storeVars, claudeVars, stampVars, requestVars, countVars>>

Elapses(x) ==
    /\ at \in {"watch", "act"} /\ x \in watch.timing /\ (x = "turn" => "start" \notin watch.timing)
    /\ watch' = [watch EXCEPT !.timing = @ \ {x}, !.over = @ \cup {x}]
    /\ UNCHANGED <<storeVars, queue, cur, at, uncleared, mark, sentAt, seen, claudeVars, stampVars,
                   requestVars, countVars>>

\* modlessState: the state the records of this turn tell, or the pane.
Modless ==
    IF Turn = {} THEN (IF state = "done" THEN "done" ELSE "")
    ELSE IF Ended THEN "done"
    ELSE IF dialog # 0 THEN "awaiting" ELSE "running"

\* A tick: the state is read first.
Look ==
    /\ at = "watch" /\ status[cur] # "cancelled" /\ live /\ at' = "act"
    /\ seen' = IF mod /\ state # "" THEN state ELSE Modless
    /\ state' = IF seen' = "" THEN state ELSE seen'
    /\ UNCHANGED <<storeVars, queue, cur, uncleared, mark, sentAt, watch, claudeVars, stamps,
                   requestVars, countVars>>

\* The end of a tick: the next, unless the ceiling is reached.
Goes(w) ==
    /\ watch' = w /\ at' = IF "turn" \in w.over THEN "late" ELSE "watch"
    /\ UNCHANGED <<queue, cur, uncleared, mark, sentAt, seen>>
Stopped(w, xs) == [w EXCEPT !.timing = @ \ xs, !.over = @ \ xs]
Timing(w, x) == IF x \in w.over THEN w ELSE [w EXCEPT !.timing = @ \cup {x}]

Acts(what) ==
    /\ at = "act" /\ seen = what
    /\ UNCHANGED <<claudeVars, stampVars, requestVars, countVars>>

SeesRunning ==
    /\ Acts("running") /\ Update(cur, "running")
    /\ Goes(Stopped([watch EXCEPT !.saw = TRUE, !.asked = FALSE], {"start", "done", "unknown"}))
    /\ UNCHANGED <<shown, result, partial>>

\* Faulty: nothing is read again once a dialog was reported.
SeesDialog_Once ==
    LET w == Stopped([watch EXCEPT !.saw = TRUE], {"start", "done"}) IN
    /\ Acts("awaiting")
    /\ IF watch.asked THEN Goes(w) /\ UNCHANGED <<status, shown>>
       ELSE IF Question # 0 THEN Goes([w EXCEPT !.asked = TRUE, !.tool = Question]) /\ Ask(cur, Question)
       ELSE /\ Goes(Timing(w, "unknown"))
            /\ IF "unknown" \in w.over THEN Ask(cur, 0) ELSE UNCHANGED <<status, shown>>
    /\ UNCHANGED <<result, partial>>

\* A dialog is reported once, and after an answer only if it is another; one that
\* cannot be read is reported after a grace.
SeesDialog ==
    LET w == Stopped([watch EXCEPT !.saw = TRUE], {"start", "done"}) IN
    /\ Acts("awaiting")
    /\ \/ /\ ~watch.asked /\ Question = 0
          /\ Goes(Timing(w, "unknown"))
          /\ IF "unknown" \in w.over /\ ~(status[cur] = "needs_input" /\ shown[cur] = 0)
             THEN Ask(cur, 0) ELSE UNCHANGED <<status, shown>>
       \/ /\ ~watch.asked /\ Question # 0
          /\ Goes([w EXCEPT !.asked = TRUE, !.tool = Question])
          /\ IF status[cur] = "needs_input"
             THEN SetQuestion(cur, Question) /\ UNCHANGED status ELSE Ask(cur, Question)
       \/ /\ watch.asked
          /\ IF status[cur] = "running" /\ Question \notin {0, watch.tool}
             THEN Goes([w EXCEPT !.tool = Question]) /\ Ask(cur, Question)
             ELSE Goes(w) /\ UNCHANGED <<status, shown>>
    /\ UNCHANGED <<result, partial>>

Settles(bg) ==
    /\ Update(cur, "done") /\ Returns
    /\ result' = [result EXCEPT ![cur] = IF CanGo(status[cur], "done") THEN Words ELSE @]
    /\ partial' = [partial EXCEPT ![cur] = bg] /\ UNCHANGED shown

\* The turn is believed to have begun.
Started ==
    \/ watch.saw
    \/ named /\ mark # Unknown /\ Len(transcript) > mark
    \/ mark = Unknown /\ Words # 0

SeesDone ==
    /\ Acts("done")
    /\ \/ ~Started /\ "start" \in watch.over /\ Fails
       \/ ~Started /\ "start" \notin watch.over /\ Goes(watch) /\ UNCHANGED storeVars
       \/ Started /\ ~Settled /\ "done" \in watch.over /\ Fails
       \/ /\ Started /\ ~Settled /\ "done" \notin watch.over
          /\ Goes(Timing(watch, "done")) /\ UNCHANGED storeVars
       \/ /\ Started /\ Settled /\ Outstanding /\ "hold" \notin watch.over
          /\ Goes(Timing(watch, "hold"))
          /\ Update(cur, "running") /\ UNCHANGED <<shown, result, partial>>
       \/ Started /\ Settled /\ Outstanding /\ "hold" \in watch.over /\ Settles(TRUE)
       \/ Started /\ Settled /\ ~Outstanding /\ Settles(FALSE)

\* Faulty: a session with no Claude is waited on for ever.
SeesNothing_Waits == Acts("") /\ Goes(watch) /\ UNCHANGED storeVars

\* No state: no Claude, once the grace is over.
SeesNothing ==
    /\ Acts("")
    /\ IF "start" \in watch.over THEN Fails ELSE Goes(watch) /\ UNCHANGED storeVars

\* The ceiling.
GivesUp ==
    /\ at = "late" /\ Fails
    /\ UNCHANGED <<claudeVars, stampVars, requestVars, countVars>>

-----------------------------------------------------------------------------
(* The caller's cancels and answers.                                       *)

\* Tasks.Cancel; a turn that was live is stopped next.
Cancel(t) ==
    /\ status[t] \in Open /\ Happens
    /\ status' = [status EXCEPT ![t] = "cancelled"]
    /\ cancels' = [cancels EXCEPT ![t] = IF status[t] = "accepted" THEN "none" ELSE "decline"]
    /\ UNCHANGED <<shown, result, partial, runVars, claudeVars, stampVars, answers, dialogs>>

\* interrupt: a dialog is declined first, and must go.
Decline(t) ==
    /\ cancels[t] = "decline"
    /\ \/ /\ (~live \/ Question = 0) /\ UNCHANGED <<dialog, stamps>>
          /\ cancels' = [cancels EXCEPT ![t] = IF live THEN "interrupt" ELSE "none"]
       \/ /\ live /\ Question # 0 /\ Closes
          /\ cancels' = [cancels EXCEPT ![t] = "interrupt"]
       \/ /\ live /\ Question # 0 /\ UNCHANGED <<dialog, stamps>>
          /\ cancels' = [cancels EXCEPT ![t] = "none"]
    /\ UNCHANGED <<storeVars, runVars, live, mod, input, turn, background, transcript, named,
                   state, answers, countVars>>

\* stampStopped: background work goes on.
StampStopped == IF state = "" THEN "" ELSE IF background # NoTask THEN "running" ELSE "done"

\* Ctrl-C, which ends the turn without the mod's stamp: it is stamped here first.  A
\* menu it leaves is escaped; one that stays goes on waiting, and the stamp is taken
\* back only where the cancel, made earlier, had found "awaiting".
Interrupt(t) ==
    /\ cancels[t] = "interrupt" /\ cancels' = [cancels EXCEPT ![t] = "none"]
    /\ \/ /\ live /\ turn' = NoTask /\ dialog' = 0 /\ UNCHANGED <<events, bound>>
          /\ state' = StampStopped
       \/ /\ live /\ dialog # 0 /\ UNCHANGED <<turn, dialog, events, bound>>
          /\ state' = StampStopped \/ (state # "" /\ state' = "awaiting")
       \/ ((~live /\ UNCHANGED <<events, bound>>) \/ Happens) /\ UNCHANGED <<turn, dialog, state>>
    /\ UNCHANGED <<storeVars, runVars, live, mod, input, background, transcript, named, stamps,
                   answers, dialogs>>

\* answerTask: the dialog is read again; if it is not the one the task shows, the
\* task is put right and nothing is sent.
BeginAnswer(a, t) ==
    /\ answers[a].at = "idle" /\ status[t] = "needs_input" /\ live
    /\ IF Question # 0 /\ Question = shown[t]
       THEN answers' = [answers EXCEPT ![a] = [at |-> "send", task |-> t, tool |-> Question]]
            /\ UNCHANGED shown
       ELSE /\ SetQuestion(t, Question) /\ answers' = [answers EXCEPT ![a] = Over]
    /\ UNCHANGED <<status, result, partial, runVars, claudeVars, stampVars, cancels, countVars>>

\* The mod settles the dialog the answer names, or none; or it does not say in time.
SendAnswer(a) ==
    LET b == answers[a] IN
    /\ b.at = "send"
    /\ \/ /\ Question = b.tool /\ Closes /\ Update(b.task, "running") /\ UNCHANGED <<shown, events, bound>>
          /\ answers' = [answers EXCEPT ![a] = Over]
       \/ /\ Question # b.tool /\ SetQuestion(b.task, Question)
          /\ answers' = [answers EXCEPT ![a] = Over] /\ UNCHANGED <<status, dialog, stamps, events, bound>>
       \/ /\ Question = b.tool /\ Happens /\ UNCHANGED <<status, shown, dialog, stamps>>
          /\ answers' = [answers EXCEPT ![a].at = "sent"]
    /\ UNCHANGED <<result, partial, runVars, live, mod, input, turn, background, transcript, named,
                   state, cancels, dialogs>>

\* Late, or not at all.
Lands(a) ==
    /\ answers[a].at = "sent" /\ Question = answers[a].tool /\ Closes
    /\ UNCHANGED <<storeVars, runVars, live, mod, input, turn, background, transcript, named,
                   state, requestVars, countVars>>

\* AnswerUnverified: reported as running all the same.
TimesOut(a) ==
    /\ answers[a].at = "sent" /\ answers' = [answers EXCEPT ![a].at = "unverified"]
    /\ Update(answers[a].task, "running")
    /\ UNCHANGED <<shown, result, partial, runVars, claudeVars, stampVars, cancels, countVars>>

-----------------------------------------------------------------------------
(* Claude and its mod.                                                     *)

\* Without a mod the session's own hint names the transcript once it is there.
Writes(rs) == transcript' = transcript \o rs /\ named' = (named \/ ~mod)
Stamps(ss) == stamps' = IF mod THEN stamps \o ss ELSE stamps
Claude == UNCHANGED <<storeVars, runVars, live, mod, state, requestVars>>

\* What Claude says comes after the stamps of what went before, and after a tick
\* that still read an earlier turn's "done".
CaughtUp == stamps = <<>> /\ ~(at = "act" /\ seen = "done")
Working == turn # NoTask /\ dialog = 0

Begins ==
    /\ turn = NoTask /\ input # <<>> /\ live
    /\ turn' = Head(input) /\ input' = Tail(input)
    /\ Writes(<<Rec("prompt", Head(input))>>) /\ Stamps(<<"running">>)
    /\ Claude /\ UNCHANGED <<dialog, background, countVars>>

Says ==
    /\ Working /\ CaughtUp /\ Happens /\ Writes(<<Rec("words", turn)>>)
    /\ Claude /\ UNCHANGED <<turn, input, stamps, dialog, background, dialogs>>

\* One piece of background work to a message, which names it.
Launches ==
    /\ Working /\ Happens
    /\ background = NoTask /\ \A i \in 1..Len(transcript) : transcript[i] # Rec("launch", turn)
    /\ background' = turn /\ Writes(<<Rec("launch", turn)>>)
    /\ Claude /\ UNCHANGED <<turn, input, stamps, dialog, dialogs>>

Opens ==
    /\ Working /\ Happens /\ dialogs' = dialogs + 1
    /\ dialog' = dialogs + 1 /\ Stamps(<<"awaiting">>)
    /\ Claude /\ UNCHANGED <<turn, input, background, transcript, named>>

\* The turn ends, and a message typed meanwhile begins the next at once.  With
\* background work left the session may read done or running.
Finishes ==
    /\ Working /\ CaughtUp
    /\ LET last == <<Rec("words", turn), Rec("end", turn)>> IN
       IF input = <<>>
       THEN /\ turn' = NoTask /\ Writes(last) /\ UNCHANGED input
            /\ \/ Stamps(<<"done">>)
               \/ background # NoTask /\ Stamps(<<"running">>)
       ELSE /\ turn' = Head(input) /\ input' = Tail(input)
            /\ Writes(Append(last, Rec("prompt", Head(input)))) /\ Stamps(<<"done", "running">>)
    /\ Claude /\ UNCHANGED <<dialog, background, countVars>>

\* Background work ends: its notice begins a turn, or is taken into the one under way.
Notified ==
    /\ background # NoTask /\ background' = NoTask
    /\ \/ /\ turn = NoTask /\ input = <<>> /\ turn' = background
          /\ Writes(<<Rec("notice", background)>>) /\ Stamps(<<"running">>)
       \/ /\ Working /\ Writes(<<Rec("queued", background)>>) /\ UNCHANGED <<turn, stamps>>
    /\ Claude /\ UNCHANGED <<dialog, input, countVars>>

\* The mod says where the transcript is.
Names ==
    /\ ~named /\ transcript # <<>> /\ named' = TRUE
    /\ Claude /\ UNCHANGED <<turn, input, stamps, dialog, background, transcript, countVars>>

\* The mod's next stamp.
StampNext ==
    /\ stamps # <<>> /\ state' = Head(stamps) /\ stamps' = Tail(stamps)
    /\ UNCHANGED <<storeVars, runVars, claudeVars, requestVars, countVars>>

\* The session ends: deleted, which cancels what is open first, or killed.
Deletes ==
    /\ live /\ live' = FALSE /\ turn' = NoTask /\ dialog' = 0 /\ input' = <<>> /\ background' = NoTask
    /\ status' \in {status, [t \in Task |-> IF status[t] \in Open THEN "cancelled" ELSE status[t]]}
    /\ UNCHANGED <<shown, result, partial, runVars, mod, transcript, named, stampVars, requestVars,
                   countVars>>

-----------------------------------------------------------------------------
Runner ==
    \/ Drain \/ Ready \/ NotReady \/ Mark \/ Send \/ Sent \/ Gone \/ LetsGo
    \/ Look \/ SeesRunning \/ SeesDialog \/ SeesDone \/ SeesNothing \/ GivesUp
Routes ==
    \/ \E t \in Task : Decline(t) \/ Interrupt(t)
    \/ \E a \in Answer : SendAnswer(a) \/ Lands(a) \/ TimesOut(a)
ClaudeSteps ==
    Begins \/ Says \/ Launches \/ Opens \/ Finishes \/ Notified \/ Names \/ StampNext

Next ==
    \/ Runner \/ Routes \/ ClaudeSteps \/ Deletes
    \/ \E t \in Task : Post(t) \/ Cancel(t)
    \/ \E a \in Answer, t \in Task : BeginAnswer(a, t)
    \/ \E x \in Timer : Elapses(x)

Spec == Init /\ [][Next]_vars

\* The runner and the requests run on, the stamps arrive and the clocks run out, but
\* for the ceiling, which would end every task whatever the watcher made of it.
\* Nothing is asked of Claude.
Fairness ==
    /\ WF_vars(Runner) /\ WF_vars(StampNext) /\ WF_vars(\E x \in Timer \ {"turn"} : Elapses(x))
    /\ \A t \in Task : WF_vars(Decline(t)) /\ WF_vars(Interrupt(t))
    /\ \A a \in Answer : WF_vars(SendAnswer(a) \/ TimesOut(a))

FairSpec == Spec /\ Fairness

-----------------------------------------------------------------------------
(* Properties.                                                             *)

TypeOK ==
    /\ status \in [Task -> {"unsent"} \cup Open \cup Final]
    /\ shown \in [Task -> 0..dialogs] /\ partial \in [Task -> BOOLEAN]
    /\ result \in [Task -> 0..Len(transcript)]
    /\ queue \in Seq(Task) /\ cur \in Task \cup {NoTask} /\ mark \in -1..Len(transcript)
    /\ sentAt \in 0..Len(transcript) /\ watch \in Watch
    /\ at \in {"idle", "ready", "mark", "send", "sent", "watch", "act", "late"}
    /\ {seen, state} \subseteq {"", "running", "awaiting", "done"}
    /\ stamps \in Seq({"running", "awaiting", "done"})
    /\ uncleared \in [Task -> BOOLEAN] /\ {live, mod, named} \subseteq BOOLEAN
    /\ input \in Seq(Task) /\ {turn, background} \subseteq Task \cup {NoTask}
    /\ dialog \in 0..dialogs /\ transcript \in Seq(Record)
    /\ cancels \in [Task -> {"none", "decline", "interrupt"}]
    /\ answers \in [Answer -> [at : {"idle", "send", "sent", "over", "unverified"}, task : Task \cup {NoTask},
                               tool : 0..dialogs]]

\* A message sent at a settled prompt has for result what Claude said in answer to
\* it, never what an earlier message left behind (turn.go:196-210, "hand the caller
\* the previous turn's final message"), unless that message's background work came
\* back in between, which the records do not tell apart.
LeftOver(u) == \E i \in 1..Len(transcript) : transcript[i] = Rec("notice", u)
ResultIsOwn ==
    \A t \in Task : status[t] = "done" /\ ~uncleared[t] =>
        /\ result[t] # 0 /\ transcript[result[t]].kind = "words"
        /\ LET u == transcript[result[t]].of IN u = t \/ LeftOver(u)

\* And a result of a task's own is the last thing said about it, wherever the message
\* was typed: not the words its turn opens with, nor "I'm waiting for the background
\* command".
ResultIsFinal ==
    \A t \in Task : status[t] = "done" /\ ~partial[t] /\ transcript[result[t]].of = t =>
        \A i \in result[t]+1..Len(transcript) : transcript[i] # Rec("words", t)

\* Once Claude has come to rest, every task ends without waiting for the ceiling.
AtRest == turn = NoTask /\ input = <<>> /\ background = NoTask
TaskEnds == <>[]AtRest => <>[](\A t \in Task : status[t] \notin Open)

\* A dialog the followed turn waits on, which no answer was sent to, comes to be
\* reported by its task, or goes (turn.go: "the dialog is read again on every poll").
Watched == at \in {"watch", "act"} /\ turn = cur /\ dialog # 0
Reported == status[cur] = "needs_input" /\ (mod => shown[cur] = dialog)
SentTo(t) == \E a \in Answer : answers[a].task = t /\ answers[a].at \in {"send", "sent", "unverified"}
DialogReported == (Watched /\ ~SentTo(cur)) ~> (~Watched \/ Reported \/ SentTo(cur))
=============================================================================
