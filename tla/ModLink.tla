-------------------------------- MODULE ModLink --------------------------------
(***************************************************************************)
(* How the log session-events shows of a Claude conversation is fed: the   *)
(* mod's queue and pump (claude-mod link.ts, queue.ts), the hello and      *)
(* events routes (session-events mod.go), the rebuild of a log that has    *)
(* none from the transcript (sessionio replay.go), and the fold of the     *)
(* main turn (modstate.go).  session-events restarts, the mod is reloaded, *)
(* the tmux session is renamed, requests fail or outlive the mod's wait.   *)
(*                                                                         *)
(* Rows are numbered in the order Claude stores them: row n is the uuid.   *)
(***************************************************************************)
EXTENDS Naturals, Sequences, FiniteSets, SequencesExt

CONSTANT Scopes   \* the bounds behaviours are explored under

\* rows Claude stores, main turns, restarts of session-events, reloads of the
\* mod's module, renames of the tmux session, requests and reads of the mod that
\* fail; whether the mod may be reloaded, or stop waiting for a request, while
\* session-events is still at it; whether the transcript may lag what Claude has
\* stored
Scope == [rows : Nat, turns : Nat, restarts : Nat, reloads : Nat, renames : Nat, lost : Nat,
          overlap : BOOLEAN, lag : BOOLEAN]

ASSUME ScopeAssumption == Scopes \subseteq Scope

VARIABLES
    \* Claude
    stored,        \* rows stored
    fileRows,      \* rows the transcript holds
    running,       \* a main turn runs
    tmuxName,      \* the session's name, numbered
    \* the mod's module
    instance,
    token,         \* #token, 0 for null
    queue,         \* #queue
    asks,          \* #helloAsks
    pump,          \* #pump: what it is at
    hello,         \* what the hello in progress has learnt
    posted,        \* the batch of the events request in flight
    tmuxSession,   \* the session's name as the mod last read it
    lastRow,       \* lastMainUuid
    stampOwed,     \* TranscriptStamp.#owed
    \* requests of the mod session-events has not answered, and its answer to
    \* the one the mod waits on
    calls, reply,
    \* the connection (modConn)
    registered,    \* a hello made it
    connToken, connInstance, connName, path,
    owed,          \* historyOwed
    full,          \* fullOnState
    turnOpen,      \* the fold's main turn
    log, logRows,  \* the log, and modState.rows
    applying,      \* the holder of applyMu
    \* counters, and the bounds of this behaviour
    tokens, turns, restarts, reloads, lost, scope

claudeVars == <<stored, fileRows, running, tmuxName>>
modVars    == <<instance, token, queue, asks, pump, hello, posted, tmuxSession,
                lastRow, stampOwed>>
connVars   == <<registered, connToken, connInstance, connName, path, owed, full,
                turnOpen, log, logRows>>
countVars  == <<tokens, turns, restarts, reloads, lost, scope>>
vars == <<claudeVars, modVars, calls, reply, connVars, applying, countVars>>

-----------------------------------------------------------------------------
(* Values.                                                                 *)

\* n: the row, or how many rows a history's messages hold; last: the row a
\* history names, 0 for none; on: a turn runs, or the row is a typed prompt;
\* covered: queued when the snapshot being read was begun.
Event == [type : {"row", "turn", "level", "history"}, n : Nat, last : Nat,
          on : BOOLEAN, covered : BOOLEAN]
Ev(type, n, last, on) ==
    [type |-> type, n |-> n, last |-> last, on |-> on, covered |-> FALSE]

Call == [kind : {"hello", "events"}, at : {"sent", "admitted"}, waited : BOOLEAN,
         token : Nat, batch : Seq(Event), instance : Nat, name : Nat, file : BOOLEAN]
HelloCall ==
    [kind |-> "hello", at |-> "sent", waited |-> TRUE, token |-> 0, batch |-> <<>>,
     instance |-> instance, name |-> tmuxName, file |-> fileRows > 0]
EventsCall(batch) ==
    [kind |-> "events", at |-> "sent", waited |-> TRUE, token |-> token,
     batch |-> batch, instance |-> 0, name |-> 0, file |-> FALSE]

Reply == [status : {200, 409}, token : Nat, history : BOOLEAN]
NoReply == [status |-> 0, token |-> 0, history |-> FALSE]
Answer(c, r) == reply' = IF c.waited THEN r ELSE reply

NoHello == [asked |-> 0, token |-> 0, covers |-> FALSE, n |-> 0, last |-> 0, on |-> FALSE]
NoApply == [batch |-> <<>>, at |-> "free", live |-> FALSE, waited |-> FALSE, state |-> FALSE]

Rows(n) == [i \in 1..n |-> i]

\* The events of q at the places K, in the order they stand in.  A proof can say
\* of places what it cannot of the test SelectSeq takes.
Kept(q, K) ==
    [i \in 1..Cardinality(K) |-> q[CHOOSE k \in K : Cardinality({j \in K : j <= k}) = i]]

\* EventQueue.push: a level takes the place of one queued before it.
Push(q, e) ==
    Append(IF e.type = "level" THEN Kept(q, {i \in DOMAIN q : q[i].type # "level"}) ELSE q, e)

\* EventQueue.prepend: the level of a hello gives way to one queued since.
Prepend(q, history, level) ==
    IF \E i \in DOMAIN q : q[i].type = "level"
    THEN history \o q
    ELSE Append(history, level) \o q

-----------------------------------------------------------------------------
(* A Claude that may have been resumed, its mod loaded, nothing said yet.  *)
Init ==
    /\ scope \in Scopes
    /\ stored \in {0, 1} /\ stored <= scope.rows /\ fileRows = stored
    /\ running = FALSE /\ tmuxName = 0
    /\ instance = 0 /\ token = 0 /\ queue = <<>> /\ asks = 0
    /\ pump = "idle" /\ hello = NoHello /\ posted = <<>> /\ tmuxSession = 0
    /\ lastRow = 0 /\ stampOwed = FALSE
    /\ calls = {} /\ reply = NoReply
    /\ registered = FALSE /\ connToken = 0 /\ connInstance = 0 /\ connName = 0
    /\ path = FALSE /\ owed = FALSE /\ full = FALSE /\ turnOpen = FALSE
    /\ log = <<>> /\ logRows = {} /\ applying = NoApply
    /\ tokens = 0 /\ turns = 0 /\ restarts = 0 /\ reloads = 0 /\ lost = 0

-----------------------------------------------------------------------------
(* Claude, and the mod's hooks on it (register.ts).                        *)

\* Faulty: a hello in flight is not told of it.
Rehello_notCounted == asks' = asks /\ token' = 0

\* Link.rehello
Rehello == asks' = asks + 1 /\ token' = 0

\* session.append: the row is stored and sent, and a mod whose hello could not
\* name the transcript looks for it; when it has appeared, it says hello again
\* (TranscriptStamp.appeared).
StoreRow ==
    /\ running /\ stored < scope.rows
    /\ stored' = stored + 1 /\ lastRow' = stored + 1
    /\ \E prompt \in BOOLEAN : queue' = Push(queue, Ev("row", stored + 1, 0, prompt))
    /\ IF scope.lag THEN UNCHANGED fileRows ELSE fileRows' = stored + 1
    /\ IF stampOwed /\ fileRows' > 0
       THEN stampOwed' = FALSE /\ Rehello
       ELSE UNCHANGED <<stampOwed, asks, token>>
    /\ UNCHANGED <<running, tmuxName, instance, pump, hello, posted, tmuxSession,
                   calls, reply, connVars, applying, countVars>>

\* Claude writes its transcript in batches.
WriteFile ==
    /\ fileRows < stored
    /\ fileRows' = stored
    /\ UNCHANGED <<stored, running, tmuxName, modVars, calls, reply, connVars,
                   applying, countVars>>

\* turn.start; a mod that finds the session renamed asks for another hello.
StartTurn ==
    /\ ~running /\ turns < scope.turns
    /\ turns' = turns + 1
    /\ running' = TRUE
    /\ queue' = Push(queue, Ev("turn", 0, 0, TRUE))
    /\ tmuxSession' = tmuxName
    /\ IF tmuxSession # tmuxName THEN Rehello ELSE UNCHANGED <<asks, token>>
    /\ UNCHANGED <<stored, fileRows, tmuxName, instance, pump, hello, posted,
                   lastRow, stampOwed, calls, reply, connVars, applying, tokens,
                   restarts, reloads, lost, scope>>

\* turn.complete
EndTurn ==
    /\ running
    /\ running' = FALSE
    /\ queue' = Push(queue, Ev("turn", 0, 0, FALSE))
    /\ UNCHANGED <<stored, fileRows, tmuxName, instance, token, asks, pump, hello,
                   posted, tmuxSession, lastRow, stampOwed, calls, reply, connVars, applying, countVars>>

\* sendLevel, after an edge or every LEVEL_EVERY_MS; one right behind another
\* would say the same.
SendLevel ==
    /\ queue # <<>> => Last(queue).type # "level"
    /\ queue' = Push(queue, Ev("level", 0, 0, running))
    /\ UNCHANGED <<claudeVars, instance, token, asks, pump, hello, posted,
                   tmuxSession, lastRow, stampOwed, calls, reply, connVars,
                   applying, countVars>>

\* tmux-api renames the session; the mod is not told.
Rename ==
    /\ tmuxName < scope.renames
    /\ tmuxName' = tmuxName + 1
    /\ UNCHANGED <<stored, fileRows, running, modVars, calls, reply, connVars,
                   applying, countVars>>

-----------------------------------------------------------------------------
(* The pump: hello while there is no token, else one batch at a time.      *)

\* A request the mod waits on is still with session-events.
Waiting == applying.waited \/ \E c \in calls : c.waited

SendHello ==
    /\ pump = "idle" /\ token = 0
    /\ pump' = "hello" /\ hello' = [NoHello EXCEPT !.asked = asks]
    /\ tmuxSession' = tmuxName /\ stampOwed' = (fileRows = 0)
    /\ calls' = calls \cup {HelloCall}
    /\ UNCHANGED <<claudeVars, instance, token, queue, asks, posted, lastRow,
                   reply, connVars, applying, countVars>>

\* A rehello asked for meanwhile makes the answer one to the wrong question;
\* a server without the log wants the history read first.
HelloAnswered ==
    /\ pump = "hello" /\ reply # NoReply
    /\ reply' = NoReply
    /\ IF asks # hello.asked
       THEN pump' = "idle" /\ hello' = NoHello /\ UNCHANGED queue
       ELSE /\ hello' = [hello EXCEPT !.token = reply.token, !.covers = reply.history]
            /\ IF reply.history
               THEN /\ pump' = "messages"
                    /\ queue' = [i \in DOMAIN queue |-> [queue[i] EXCEPT !.covered = TRUE]]
               ELSE pump' = "level" /\ UNCHANGED queue
    /\ UNCHANGED <<claudeVars, instance, token, asks, posted, tmuxSession, lastRow,
                   stampOwed, calls, connVars, applying, countVars>>

\* $.session.messages() takes its copy ...
ReadMessages ==
    /\ pump = "messages"
    /\ pump' = "last" /\ hello' = [hello EXCEPT !.n = stored]
    /\ UNCHANGED <<claudeVars, instance, token, queue, asks, posted, tmuxSession,
                   lastRow, stampOwed, calls, reply, connVars, applying, countVars>>

\* ... and the row the history ends at is read once it has come.
ReadLast ==
    /\ pump = "last"
    /\ pump' = "level" /\ hello' = [hello EXCEPT !.last = lastRow, !.on = running]
    /\ UNCHANGED <<claudeVars, instance, token, queue, asks, posted, tmuxSession,
                   lastRow, stampOwed, calls, reply, connVars, applying, countVars>>

\* Faulty: the snapshot drops what was queued while it was read too.
FinishHello_dropsAll ==
    /\ pump = "level"
    /\ pump' = "idle" /\ hello' = NoHello
    /\ IF asks # hello.asked
       THEN UNCHANGED <<queue, token>>
       ELSE LET left == IF hello.covers
                        THEN <<>> ELSE queue
                history == IF hello.covers
                           THEN <<Ev("history", hello.n, hello.last, hello.on)>> ELSE <<>>
            IN  /\ queue' = Prepend(left, history, Ev("level", 0, 0, running))
                /\ token' = hello.token
    /\ UNCHANGED <<claudeVars, instance, asks, posted, tmuxSession, lastRow,
                   stampOwed, calls, reply, connVars, applying, countVars>>

\* The level is read, and what the hello was for is done: the snapshot goes
\* ahead of what was queued while it was read, and covers the rest.
FinishHello ==
    /\ pump = "level"
    /\ pump' = "idle" /\ hello' = NoHello
    /\ IF asks # hello.asked
       THEN UNCHANGED <<queue, token>>
       ELSE LET left == IF hello.covers
                        THEN Kept(queue, {i \in DOMAIN queue : ~queue[i].covered})
                        ELSE queue
                history == IF hello.covers
                           THEN <<Ev("history", hello.n, hello.last, hello.on)>> ELSE <<>>
            IN  /\ queue' = Prepend(left, history, Ev("level", 0, 0, running))
                /\ token' = hello.token
    /\ UNCHANGED <<claudeVars, instance, asks, posted, tmuxSession, lastRow,
                   stampOwed, calls, reply, connVars, applying, countVars>>

\* The history could not be read: a failed hello.
HistoryFails ==
    /\ pump \in {"messages", "last"} /\ lost < scope.lost
    /\ lost' = lost + 1
    /\ pump' = "idle" /\ hello' = NoHello
    /\ UNCHANGED <<claudeVars, instance, token, queue, asks, posted, tmuxSession,
                   lastRow, stampOwed, calls, reply, connVars, applying, tokens,
                   turns, restarts, reloads, scope>>

Flush ==
    /\ pump = "idle" /\ token # 0 /\ queue # <<>>
    /\ pump' = "post"
    /\ posted' = queue /\ queue' = <<>>
    /\ calls' = calls \cup {EventsCall(queue)}
    \* hello.token keeps the token the batch went out with
    /\ hello' = [NoHello EXCEPT !.token = token]
    /\ UNCHANGED <<claudeVars, instance, token, asks, tmuxSession, lastRow,
                   stampOwed, reply, connVars, applying, countVars>>

FlushAnswered ==
    /\ pump = "post" /\ reply # NoReply
    /\ reply' = NoReply
    /\ pump' = "idle" /\ posted' = <<>> /\ hello' = NoHello
    /\ IF reply.status = 200
       THEN UNCHANGED <<queue, token>>
       ELSE /\ queue' = posted \o queue
            /\ token' = IF token = hello.token THEN 0 ELSE token
    /\ UNCHANGED <<claudeVars, instance, asks, tmuxSession, lastRow, stampOwed,
                   calls, connVars, applying, countVars>>

\* Faulty: the batch goes behind what was queued since.
RequestFails_requeuesBehind ==
    /\ pump' = "idle" /\ hello' = NoHello /\ posted' = <<>>
    /\ queue' = queue \o posted
    /\ UNCHANGED <<claudeVars, instance, token, asks, tmuxSession, lastRow,
                   stampOwed, connVars, tokens, turns, restarts, reloads, scope>>

\* What a request that came to nothing leaves.
RequestFails ==
    /\ pump' = "idle" /\ hello' = NoHello /\ posted' = <<>>
    /\ queue' = posted \o queue
    /\ UNCHANGED <<claudeVars, instance, token, asks, tmuxSession, lastRow,
                   stampOwed, connVars, tokens, turns, restarts, reloads, scope>>

\* session-events died with the request.
RequestDies ==
    /\ pump \in {"hello", "post"} /\ reply = NoReply /\ ~Waiting
    /\ RequestFails
    /\ UNCHANGED <<calls, reply, applying, lost>>

\* The answer was lost, or came after the engine's cap on a request.
ReplyLost ==
    /\ reply # NoReply /\ lost < scope.lost
    /\ RequestFails
    /\ reply' = NoReply /\ lost' = lost + 1
    /\ UNCHANGED <<calls, applying>>

\* The engine's cap passed while session-events is still at it.
GiveUp ==
    /\ scope.overlap /\ lost < scope.lost
    /\ reply = NoReply /\ Waiting
    /\ RequestFails
    /\ calls' = {[c EXCEPT !.waited = FALSE] : c \in calls}
    /\ applying' = [applying EXCEPT !.waited = FALSE]
    /\ lost' = lost + 1
    /\ UNCHANGED reply

\* The poll is refused: its token is unknown to session-events.
PollRefused ==
    /\ token # 0 /\ token # connToken
    /\ Rehello
    /\ UNCHANGED <<claudeVars, instance, queue, pump, hello, posted, tmuxSession,
                   lastRow, stampOwed, calls, reply, connVars, applying, countVars>>

\* The engine loads the module anew: it has forgotten everything but the turn
\* and the dialogs kept in $.state.
Reload ==
    /\ reloads < scope.reloads
    /\ scope.overlap \/ ~Waiting
    /\ reloads' = reloads + 1
    /\ instance' = instance + 1 /\ token' = 0 /\ queue' = <<>> /\ asks' = 0
    /\ pump' = "idle" /\ hello' = NoHello /\ posted' = <<>>
    /\ tmuxSession' = tmuxName /\ lastRow' = 0 /\ stampOwed' = FALSE
    /\ calls' = {[c EXCEPT !.waited = FALSE] : c \in calls}
    /\ applying' = [applying EXCEPT !.waited = FALSE]
    /\ reply' = NoReply
    /\ UNCHANGED <<claudeVars, connVars, tokens, turns, restarts, lost, scope>>

-----------------------------------------------------------------------------
(* session-events.                                                         *)

\* The transcript a hello names is stamped on the session of the name it gives;
\* where that is gone the stamp fails, and the hello goes on as one that named none.
Stamped(c) == c.file /\ c.name = tmuxName

\* Faulty: only the hello that starts the log asks for the history.
ServeHello_asksOnce(c) ==
    /\ c.kind = "hello"
    /\ LET renewed == registered /\ c.instance # connInstance
           fresh   == renewed \/ (registered /\ c.name # connName)
           file    == Stamped(c) IN
         /\ turnOpen' = (turnOpen /\ ~renewed)
         /\ IF fresh \/ ~registered
            THEN /\ log' = <<>> /\ logRows' = {} /\ path' = file /\ owed' = TRUE
                 /\ applying' = [applying EXCEPT !.live = FALSE]
            ELSE /\ path' = (path \/ file)
                 /\ UNCHANGED <<log, logRows, owed, applying>>
    /\ registered' = TRUE /\ connInstance' = c.instance /\ connName' = c.name
    /\ connToken' = tokens + 1 /\ tokens' = tokens + 1
    /\ full' = TRUE
    /\ calls' = calls \ {c}
    /\ Answer(c, [status |-> 200, token |-> tokens + 1, history |-> owed' /\ ~owed])
    /\ UNCHANGED <<claudeVars, modVars, turns, restarts, reloads, lost, scope>>

\* modHub.hello, under h.mu and c.mu but not applyMu: a new module or a new
\* name starts a log of its own, and the old one is retired.
ServeHello(c) ==
    /\ c.kind = "hello"
    /\ LET renewed == registered /\ c.instance # connInstance
           fresh   == renewed \/ (registered /\ c.name # connName)
           file    == Stamped(c) IN
         /\ turnOpen' = (turnOpen /\ ~renewed)
         /\ IF fresh \/ ~registered
            THEN /\ log' = <<>> /\ logRows' = {} /\ path' = file /\ owed' = TRUE
                 /\ applying' = [applying EXCEPT !.live = FALSE]
            ELSE /\ path' = (path \/ file)
                 /\ UNCHANGED <<log, logRows, owed, applying>>
    /\ registered' = TRUE /\ connInstance' = c.instance /\ connName' = c.name
    /\ connToken' = tokens + 1 /\ tokens' = tokens + 1
    /\ full' = TRUE
    /\ calls' = calls \ {c}
    /\ Answer(c, [status |-> 200, token |-> tokens + 1, history |-> owed'])
    /\ UNCHANGED <<claudeVars, modVars, turns, restarts, reloads, lost, scope>>

\* handleEvents: the token's connection is looked up; the batch then waits for
\* applyMu.
Admit(c) ==
    /\ c.kind = "events" /\ c.at = "sent"
    /\ IF c.token = connToken
       THEN calls' = (calls \ {c}) \cup {[c EXCEPT !.at = "admitted"]} /\ UNCHANGED reply
       ELSE /\ calls' = calls \ {c}
            /\ Answer(c, [status |-> 409, token |-> 0, history |-> FALSE])
    /\ UNCHANGED <<claudeVars, modVars, connVars, applying, countVars>>

\* apply takes applyMu, and the log it will feed.
BeginApply(c) ==
    /\ c.at = "admitted" /\ applying.at = "free"
    /\ applying' = [batch |-> c.batch, at |-> "fold", live |-> TRUE,
                    waited |-> c.waited, state |-> FALSE]
    /\ calls' = calls \ {c}
    /\ UNCHANGED <<claudeVars, modVars, reply, connVars, countVars>>

TakeEvent(type) ==
    /\ applying.at = "fold" /\ applying.batch # <<>>
    /\ Head(applying.batch).type = type

\* FileSource.feedRow: a row the log has is dropped by its uuid.
ApplyRow ==
    /\ TakeEvent("row")
    /\ applying' = [applying EXCEPT !.batch = Tail(@)]
    /\ LET row == Head(applying.batch) IN
         /\ IF applying.live /\ row.n \notin logRows
            THEN log' = Append(log, row.n) /\ logRows' = logRows \cup {row.n}
            ELSE UNCHANGED <<log, logRows>>
         /\ turnOpen' = (turnOpen \/ row.on)
    /\ UNCHANGED <<claudeVars, modVars, calls, reply, registered, connToken,
                   connInstance, connName, path, owed, full, countVars>>

ApplyTurn ==
    /\ TakeEvent("turn") \/ TakeEvent("level")
    /\ turnOpen' = Head(applying.batch).on
    /\ applying' = [applying EXCEPT !.batch = Tail(@),
                      !.state = @ \/ Head(applying.batch).type = "level"]
    /\ UNCHANGED <<claudeVars, modVars, calls, reply, registered, connToken,
                   connInstance, connName, path, owed, full, log, logRows, countVars>>

\* Faulty: a history that came again is rebuilt again.
ApplyHistory_always ==
    /\ TakeEvent("history")
    /\ applying' = [applying EXCEPT !.at = "rebuild"]
    /\ UNCHANGED <<claudeVars, modVars, calls, reply, connVars, countVars>>

\* A history nobody is owed any more is in the log already; else the rebuild
\* begins, outside c.mu.
ApplyHistory ==
    /\ TakeEvent("history")
    /\ applying' = IF owed THEN [applying EXCEPT !.at = "rebuild"]
                           ELSE [applying EXCEPT !.batch = Tail(@)]
    /\ UNCHANGED <<claudeVars, modVars, calls, reply, connVars, countVars>>

\* Faulty: the rows replayed are not remembered.
Rebuild_forgetsRows ==
    /\ applying.at = "rebuild"
    /\ LET h == Head(applying.batch)
           byFile == path /\ (IF h.last > 0 THEN fileRows >= h.last ELSE ~h.on /\ fileRows > 0)
           upTo == IF h.last > 0 THEN h.last ELSE fileRows
       IN  /\ IF ~applying.live
              THEN UNCHANGED <<log, logRows>>
              ELSE IF byFile
              THEN log' = log \o Rows(upTo) /\ UNCHANGED logRows
              ELSE log' = log \o Rows(h.n) /\ UNCHANGED logRows
           /\ turnOpen' = h.on
    /\ owed' = FALSE
    /\ applying' = [applying EXCEPT !.batch = Tail(@), !.at = "fold"]
    /\ UNCHANGED <<claudeVars, modVars, calls, reply, registered, connToken,
                   connInstance, connName, path, full, countVars>>

\* rebuildLog: the transcript up to the row the history names, or an idle
\* session's whole file; else, and where the file has not reached the row in the
\* time it is waited for, the history's own messages, which name no rows.
Rebuild ==
    /\ applying.at = "rebuild"
    /\ LET h == Head(applying.batch)
           byFile == path /\ (IF h.last > 0 THEN fileRows >= h.last ELSE ~h.on /\ fileRows > 0)
           upTo == IF h.last > 0 THEN h.last ELSE fileRows
       IN  /\ IF ~applying.live
              THEN UNCHANGED <<log, logRows>>
              ELSE IF byFile
              THEN log' = log \o Rows(upTo) /\ logRows' = logRows \cup 1..upTo
              ELSE log' = log \o Rows(h.n) /\ UNCHANGED logRows
           /\ turnOpen' = h.on
    /\ owed' = FALSE
    /\ applying' = [applying EXCEPT !.batch = Tail(@), !.at = "fold"]
    /\ UNCHANGED <<claudeVars, modVars, calls, reply, registered, connToken,
                   connInstance, connName, path, full, countVars>>

\* The batch is over.  The options are written; a write that fails because the
\* session was renamed revokes the token (followRename).
EndApply ==
    /\ applying.at = "fold" /\ applying.batch = <<>>
    /\ full' = (full /\ ~applying.state)
    /\ connToken' \in IF connName # tmuxName THEN {0, connToken} ELSE {connToken}
    /\ reply' = IF applying.waited
                THEN [status |-> 200, token |-> 0, history |-> FALSE] ELSE reply
    /\ applying' = NoApply
    /\ UNCHANGED <<claudeVars, modVars, calls, registered, connInstance, connName,
                   path, owed, turnOpen, log, logRows, countVars>>

\* modHub.follow: somebody opened the session under its new name.
Follow ==
    /\ registered /\ connName # tmuxName /\ connToken # 0
    /\ connToken' = 0
    /\ UNCHANGED <<claudeVars, modVars, calls, reply, registered, connInstance,
                   connName, path, owed, full, turnOpen, log, logRows, applying,
                   countVars>>

\* A restart forgets every connection and drops what it was at; what it had
\* not read yet waits on the socket systemd holds.
Restart ==
    /\ restarts < scope.restarts
    /\ restarts' = restarts + 1
    /\ registered' = FALSE /\ connToken' = 0 /\ connInstance' = 0 /\ connName' = 0
    /\ path' = FALSE /\ owed' = FALSE /\ full' = FALSE /\ turnOpen' = FALSE
    /\ log' = <<>> /\ logRows' = {}
    /\ applying' = NoApply
    /\ calls' = {c \in calls : c.at = "sent"}
    /\ UNCHANGED <<claudeVars, modVars, reply, tokens, turns, reloads, lost, scope>>

-----------------------------------------------------------------------------
Engine == StoreRow \/ WriteFile \/ StartTurn \/ EndTurn \/ SendLevel

Mod ==
    \/ SendHello \/ HelloAnswered \/ ReadMessages \/ ReadLast \/ FinishHello
    \/ Flush \/ FlushAnswered \/ RequestDies \/ PollRefused

Service ==
    \/ \E c \in calls : ServeHello(c) \/ Admit(c) \/ BeginApply(c)
    \/ ApplyRow \/ ApplyTurn \/ ApplyHistory \/ Rebuild \/ EndApply

Fault == Rename \/ HistoryFails \/ ReplyLost \/ GiveUp \/ Reload \/ Restart

Next == Engine \/ Mod \/ Service \/ Follow \/ Fault

Spec == Init /\ [][Next]_vars

\* The mod's timers and fetches and the service's handlers run on, and Claude
\* writes its transcript; nothing makes Claude store a row, a person open the
\* session, or a fault happen.
Fairness == WF_vars(Mod) /\ WF_vars(Service) /\ WF_vars(WriteFile)

FairSpec == Spec /\ Fairness

-----------------------------------------------------------------------------
(* Properties.                                                             *)

ClaudeType == stored \in Nat /\ fileRows \in Nat /\ running \in BOOLEAN /\ tmuxName \in Nat
ModType ==
    /\ instance \in Nat /\ token \in Nat /\ asks \in Nat /\ lastRow \in Nat
    /\ queue \in Seq(Event) /\ posted \in Seq(Event)
    /\ pump \in {"idle", "hello", "messages", "last", "level", "post"}
    /\ hello \in [asked : Nat, token : Nat, covers : BOOLEAN, n : Nat, last : Nat, on : BOOLEAN]
    /\ tmuxSession \in Nat /\ stampOwed \in BOOLEAN
CallType == calls \subseteq Call /\ reply \in Reply \cup {NoReply}
ConnType ==
    /\ registered \in BOOLEAN /\ connToken \in Nat /\ connInstance \in Nat
    /\ connName \in Nat /\ path \in BOOLEAN /\ owed \in BOOLEAN /\ full \in BOOLEAN
    /\ turnOpen \in BOOLEAN /\ log \in Seq(Nat) /\ logRows \subseteq Nat
ApplyType ==
    applying \in [batch : Seq(Event), at : {"free", "fold", "rebuild"}, live : BOOLEAN,
                  waited : BOOLEAN, state : BOOLEAN]
CountType ==
    tokens \in Nat /\ turns \in Nat /\ restarts \in Nat /\ reloads \in Nat /\ lost \in Nat

\* The variables keep their types; a call's answer is one the mod knows what to do
\* with (#flush, #hello).
TypeOK == ClaudeType /\ ModType /\ CallType /\ ConnType /\ ApplyType /\ CountType

\* The log of a hello whose stamp failed, and whose session goes by another name:
\* it is rebuilt from messages that name no rows, and given up for a new one once
\* the rename is noticed.
Astray == registered /\ ~path /\ connName # tmuxName

\* Requests do not overlap, and the transcript keeps up with Claude.
InStep == ~scope.overlap /\ ~scope.lag

\* The log is what the abstract log promises: a prefix of what Claude stored,
\* which only grows until a hello or a restart starts it again (ReplayTranscript
\* and feedRow).  A log that is astray promises nothing, nor does one whose batches
\* are applied twice at once or whose transcript lags.
Conversation == INSTANCE ConversationLog
                WITH stored <- stored, log <- IF InStep /\ ~Astray THEN log ELSE <<>>
ShowsConversation == Conversation!Spec

\* No row is drawn twice or behind a later one, even when a batch is resent
\* because its POST outlived the mod's wait (apply on a history, feedRow).  A
\* transcript that lags and a log that is astray are excepted: the history read for
\* them names no rows, so one stored meanwhile is drawn again.  Where requests
\* overlap this holds of a run with one such POST; README.md says what several can do.
DrawnOnce == ~scope.lag /\ ~Astray => \A i, j \in DOMAIN log : i < j => log[i] < log[j]

\* Nothing of the mod's is on its way and no hello is asked for.
Quiet ==
    /\ pump = "idle" /\ token # 0 /\ token = connToken /\ queue = <<>>
    /\ calls = {} /\ applying = NoApply

\* Once everything the mod has queued is taken, the log has every row, and the path
\* of a transcript Claude has begun is known: as mod.go:157 says of historyOwed, a
\* history is asked for again by the next hello, not lost.  A log that is astray is
\* excepted.
HistoryComes == Quiet /\ ~Astray => log = Rows(stored) /\ (stored > 0 => path)

\* And so it is where requests do not overlap and the transcript keeps up: what a
\* hello drops from the queue is in the history it brings (#hello, apply), and the
\* first row asks for a hello (TranscriptStamp).
NothingMissing == InStep => HistoryComes

\* By then the connection goes by the name the mod last read, though a rename came
\* while a hello was in flight (rehello, follow).
NameFollows == Quiet => connName = tmuxSession

\* An event that says whether the main turn runs.
Telling(e) == e.type \in {"turn", "level"} \/ (e.type = "row" /\ e.on)

\* What the events say of the main turn, read in order after b.
Says(b, evs) ==
    LET told == {i \in DOMAIN evs : Telling(evs[i])}
    IN  IF told = {} THEN b ELSE evs[Max(told)].on

\* The fold the held prompts are released by (knownLocked): once it is known,
\* it is behind Claude by no more than the events still on their way.  A batch
\* resent while its first copy is applied is excepted: that copy may be the later
\* one, and takes the fold back until the next level.
FoldTracks ==
    ~scope.overlap /\ registered /\ connInstance = instance /\ ~owed /\ ~full =>
        running = Says(turnOpen, applying.batch \o posted \o queue)

\* There the log comes to hold every row Claude has stored, whatever fails or starts
\* again, and keeps them.
CatchesUp == InStep => <>[](log = Rows(stored))
=============================================================================
