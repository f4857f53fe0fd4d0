------------------------------ MODULE HeldPrompts ------------------------------
(***************************************************************************)
(* One Claude conversation, its mod, and the connection session-events     *)
(* keeps for it (modConn).  A prompt sent while Claude's main turn runs is  *)
(* held in session-events; the turn's end sends it, a tool boundary may    *)
(* deliver it into the running turn, and the person may take it back or    *)
(* stop the turn.  session-events/held.go, steermain.go, the prompt and    *)
(* cancel routes of turn_routes.go, and the parts of mod.go they run on.   *)
(*                                                                         *)
(* applyMu is the pair pc/cont: pc says what its holder does next.  The    *)
(* two files a connection keeps are written one after the other, outside   *)
(* c.mu but under applyMu, so a write is two steps of its own.             *)
(***************************************************************************)
EXTENDS Integers, Sequences, FiniteSets, SequencesExt

CONSTANTS
    Prompt,        \* the prompts the person sends, each at most once
    Slash,         \* those that are slash commands
    NoPrompt,      \* the text of a command that carries none
    MaxTakes,      \* bound: tool boundaries at which the mod is handed prompts
    MaxStops,      \* bound: Stop requests
    MaxPaneTurns,  \* bound: turns the person starts in the pane
    MaxAsks,       \* bound: prompts sent and turns started in the pane, together
    MissedTakes,   \* whether what a take handed over may fail to land mid-turn
    StaleTakes     \* whether a take may be served before the last turn's end
                   \* has been applied

ASSUME PromptAssumption == Slash \subseteq Prompt /\ NoPrompt \notin Prompt
ASSUME BoundAssumption ==
    /\ MaxTakes \in Nat /\ MaxStops \in Nat
    /\ MaxPaneTurns \in Nat /\ MaxAsks \in Nat
ASSUME SwitchAssumption == MissedTakes \in BOOLEAN /\ StaleTakes \in BOOLEAN

VARIABLES
    \* the connection (modConn)
    known,         \* knownLocked: the snapshot a hello asks for was folded
    turnOpen,      \* the fold's main turn
    starting,      \* number of the turn start waited on, 0 when none
    starts,        \* how many turn starts were waited on
    timers,        \* turnStartWait timers not fired
    steering, held, waiting,
    pc, cont, keep, out,      \* the holder of applyMu
    launched,      \* submitHeld goroutines that have not queued their commands
    submits,       \* commands of batches submitHeld still reads acks of
    nextID,        \* the last command's number
    cmds,          \* commands waiting for the mod's poll
    acks,          \* commands a route waits on
    acked,         \* acks delivered and not read: <<command, ok>>
    stop,          \* the cancel route
    fileTexts, fileWait,      \* the conversation's two files
    \* the mod
    inHand,        \* commands polled and not run
    answer,        \* what a take handed over, on its way to the tool result
    events,        \* the mod's event queue
    \* Claude
    running, claudeQ, context,
    \* history: what the person was told of each prompt, how often Claude read
    \* it, and which were offered to the mod, sent to wait, confirmed by a row,
    \* put among the held by a failed Stop though they waited or were offered
    told, reads, offered, asWait, confirmed, putBack,
    order,         \* history: the prompts in the order they were held
    \* counters of the bounds
    takes, stops, paneTurns

connVars   == <<known, turnOpen, starting, starts, timers>>
listVars   == <<steering, held, waiting>>
lockVars   == <<pc, cont, keep, out>>
cmdVars    == <<launched, submits, nextID, cmds, acks, acked>>
fileVars   == <<fileTexts, fileWait>>
modVars    == <<inHand, answer, events>>
claudeVars == <<running, claudeQ, context>>
ghostVars  == <<told, reads, offered, asWait, confirmed, putBack, order>>
boundVars  == <<takes, stops, paneTurns>>
vars == <<connVars, listVars, lockVars, cmdVars, stop, fileVars, modVars,
          claudeVars, ghostVars, boundVars>>

-----------------------------------------------------------------------------
(* Values.                                                                 *)

Command == [id : Nat, op : {"prompt"}, text : Prompt]
             \cup [id : Nat, op : {"abort"}, text : {NoPrompt}]
PromptCmd(n, p) == [id |-> n, op |-> "prompt", text |-> p]
AbortCmd(n)     == [id |-> n, op |-> "abort", text |-> NoPrompt]

Event == [type : {"turn_start", "turn_end"}]
           \cup [type : {"level"}, running : BOOLEAN]
           \cup [type : {"row"}, texts : Seq(Prompt)]
           \cup [type : {"ack"}, cmd : Command, ok : BOOLEAN]
           \cup [type : {"command_failed"}, text : Prompt]

Told == {"unsent", "holding", "going", "sending", "sent", "held", "returned",
         "failed"}
StopAt == {"idle", "taking", "send", "sent"}
NoStop == [at |-> "idle", took |-> <<>>]
NoKeep == [texts |-> <<>>, waiting |-> <<>>]

\* pendingLocked: every prompt waiting on Claude, oldest first.
Pending == steering \o held \o waiting

\* turnAheadLocked
TurnAhead == turnOpen \/ starting # 0

\* forget: commands whose route stopped waiting, wherever they are.
Forget(gone) ==
    /\ acks' = acks \ gone
    /\ acked' = {a \in acked : a[1] \notin gone}
    /\ cmds' = cmds \ gone

\* heldFiles.keep with the lists as this step leaves them: two writes to come,
\* after which the holder of applyMu goes on to c with ps.
Keep(pending, wait, c, ps) ==
    /\ pc' = "texts" /\ cont' = c /\ out' = ps
    /\ keep' = [texts |-> pending, waiting |-> wait]

\* startingLocked
StartingTurn ==
    IF turnOpen
    THEN UNCHANGED <<starting, starts, timers>>
    ELSE /\ starts' = starts + 1
         /\ starting' = starts + 1
         /\ timers' = timers \cup {starts + 1}

Tell(ps, what) == told' = [p \in Prompt |-> IF p \in ps THEN what ELSE told[p]]

-----------------------------------------------------------------------------
(* A connection nothing was sent to yet: its snapshot folded, or on the    *)
(* way.                                                                    *)
Init ==
    /\ running \in BOOLEAN
    /\ \/ known = TRUE /\ turnOpen = running /\ events = <<>>
       \/ known = FALSE /\ turnOpen = FALSE
            /\ events = <<[type |-> "level", running |-> running]>>
    /\ starting = 0 /\ starts = 0 /\ timers = {}
    /\ steering = <<>> /\ held = <<>> /\ waiting = <<>>
    /\ pc = "free" /\ cont = "free" /\ out = <<>> /\ keep = NoKeep
    /\ launched = {} /\ submits = {} /\ nextID = 0
    /\ cmds = {} /\ acks = {} /\ acked = {}
    /\ stop = NoStop
    /\ fileTexts = <<>> /\ fileWait = <<>>
    /\ inHand = {} /\ answer = <<>>
    /\ claudeQ = <<>> /\ context = <<>>
    /\ told = [p \in Prompt |-> "unsent"] /\ reads = [p \in Prompt |-> 0]
    /\ offered = {} /\ asWait = {} /\ confirmed = {} /\ putBack = {} /\ order = <<>>
    /\ takes = 0 /\ stops = 0 /\ paneTurns = 0

-----------------------------------------------------------------------------
(* The prompt route.                                                       *)

\* The bound on what the person asks.
MayAsk == Cardinality({p \in Prompt : told[p] # "unsent"}) + paneTurns < MaxAsks

\* modConn.hold: behind a running turn, or one about to start.
Hold(p, wait) ==
    /\ pc = "free"
    /\ MayAsk /\ told[p] = "unsent" /\ p \notin Slash
    /\ known /\ TurnAhead
    /\ IF wait
       THEN waiting' = Append(waiting, p) /\ UNCHANGED held
       ELSE held' = Append(held, p) /\ UNCHANGED waiting
    /\ Keep(steering \o held' \o waiting', waiting', "held", <<p>>)
    /\ asWait' = IF wait THEN asWait \cup {p} ELSE asWait
    /\ order' = Append(order, p)
    /\ Tell({p}, "holding")
    /\ UNCHANGED <<connVars, steering, cmdVars, stop, fileVars, modVars,
                   claudeVars, reads, offered, confirmed, putBack, boundVars>>

\* hold answered false: the route goes on to send.
HoldDeclines(p) ==
    /\ MayAsk /\ told[p] = "unsent"
    /\ p \in Slash \/ (pc = "free" /\ ~(known /\ TurnAhead))
    /\ Tell({p}, "going")
    /\ UNCHANGED <<connVars, listVars, lockVars, cmdVars, stop, fileVars,
                   modVars, claudeVars, reads, offered, asWait, confirmed,
                   putBack, order, boundVars>>

\* modConn.send, up to its wait for the ack.
SendPrompt(p) ==
    /\ told[p] = "going"
    /\ nextID' = nextID + 1
    /\ cmds' = cmds \cup {PromptCmd(nextID + 1, p)}
    /\ acks' = acks \cup {PromptCmd(nextID + 1, p)}
    /\ Tell({p}, "sending")
    /\ UNCHANGED <<connVars, listVars, lockVars, launched, submits, acked,
                   stop, fileVars, modVars, claudeVars, reads, offered, asWait,
                   confirmed, putBack, order, boundVars>>

\* The ack came: markStarting, then 204.
PromptAccepted(p) ==
    /\ told[p] = "sending"
    /\ p \in Slash \/ pc = "free"
    /\ \E a \in acked : a[1].text = p /\ a[2] /\ acked' = acked \ {a}
    /\ IF p \notin Slash /\ known
       THEN StartingTurn
       ELSE UNCHANGED <<starting, starts, timers>>
    /\ Tell({p}, "sent")
    /\ UNCHANGED <<known, turnOpen, listVars, lockVars, launched, submits,
                   nextID, cmds, acks, stop, fileVars, modVars, claudeVars,
                   reads, offered, asWait, confirmed, putBack, order,
                   boundVars>>

\* The mod refused it (502), or modAckWait passed first (504).
PromptNotConfirmed(p) ==
    /\ told[p] = "sending"
    /\ \A a \in acked : a[1].text = p => ~a[2]
    /\ Forget({c \in acks \cup {a[1] : a \in acked} : c.text = p})
    /\ Tell({p}, "failed")
    /\ UNCHANGED <<connVars, listVars, lockVars, launched, submits, nextID,
                   stop, fileVars, modVars, claudeVars, reads, offered, asWait,
                   confirmed, putBack, order, boundVars>>

-----------------------------------------------------------------------------
(* The Up and cancel-one routes: takeHeld(false) and cancelHeld.           *)

\* Faulty: hands the waiting prompts back and keeps them.
TakeHeld_keepsWaiting ==
    /\ pc = "free" /\ held \o waiting # <<>>
    /\ held' = <<>>
    /\ Keep(steering \o waiting, waiting, "returned", held \o waiting)
    /\ UNCHANGED <<connVars, steering, waiting, cmdVars, stop, fileVars,
                   modVars, claudeVars, ghostVars, boundVars>>

\* Faulty: hands back what the mod took as well.
TakeHeld_steeringToo ==
    /\ pc = "free" /\ Pending # <<>>
    /\ steering' = <<>> /\ held' = <<>> /\ waiting' = <<>>
    /\ Keep(<<>>, <<>>, "returned", Pending)
    /\ UNCHANGED <<connVars, cmdVars, stop, fileVars, modVars, claudeVars,
                   ghostVars, boundVars>>

\* Faulty: the file forgets the prompts the mod took.
TakeHeld_fileForgets ==
    /\ pc = "free" /\ held \o waiting # <<>>
    /\ held' = <<>> /\ waiting' = <<>>
    /\ Keep(<<>>, <<>>, "returned", held \o waiting)
    /\ UNCHANGED <<connVars, steering, cmdVars, stop, fileVars, modVars,
                   claudeVars, ghostVars, boundVars>>

TakeHeld ==
    /\ pc = "free" /\ held \o waiting # <<>>
    /\ held' = <<>> /\ waiting' = <<>>
    /\ Keep(steering, <<>>, "returned", held \o waiting)
    /\ UNCHANGED <<connVars, steering, cmdVars, stop, fileVars, modVars,
                   claudeVars, ghostVars, boundVars>>

\* Faulty: drops the oldest held prompt, not the one named.
CancelHeld_dropsOldest(p) ==
    /\ pc = "free" /\ p \in ToSet(held)
    /\ held' = Tail(held)
    /\ Keep(steering \o held' \o waiting, waiting, "returned", <<p>>)
    /\ UNCHANGED <<connVars, steering, waiting, cmdVars, stop, fileVars,
                   modVars, claudeVars, ghostVars, boundVars>>

\* The first match, in held before waiting; prompts here are distinct.
CancelHeld(p) ==
    /\ pc = "free"
    /\ \/ \E i \in DOMAIN held :
            held[i] = p /\ held' = RemoveAt(held, i) /\ UNCHANGED waiting
       \/ \E i \in DOMAIN waiting :
            waiting[i] = p /\ waiting' = RemoveAt(waiting, i) /\ UNCHANGED held
    /\ Keep(steering \o held' \o waiting', waiting', "returned", <<p>>)
    /\ UNCHANGED <<connVars, steering, cmdVars, stop, fileVars, modVars,
                   claudeVars, ghostVars, boundVars>>

-----------------------------------------------------------------------------
(* The cancel route: take what is held, abort, put it back if that failed. *)

\* A Stop that wants the queue back: takeHeld(true).
StopTakes ==
    /\ stop.at = "idle" /\ stops < MaxStops
    /\ pc = "free"
    /\ stops' = stops + 1
    /\ IF Pending = <<>>
       THEN /\ stop' = [at |-> "send", took |-> <<>>]
            /\ UNCHANGED <<listVars, lockVars>>
       ELSE /\ stop' = [at |-> "taking", took |-> Pending]
            /\ steering' = <<>> /\ held' = <<>> /\ waiting' = <<>>
            /\ Keep(<<>>, <<>>, "stop", <<>>)
    /\ UNCHANGED <<connVars, cmdVars, fileVars, modVars, claudeVars, ghostVars,
                   takes, paneTurns>>

\* A Stop that leaves the queue where it is.
StopPlain ==
    /\ stop.at = "idle" /\ stops < MaxStops
    /\ stops' = stops + 1
    /\ stop' = [at |-> "send", took |-> <<>>]
    /\ UNCHANGED <<connVars, listVars, lockVars, cmdVars, fileVars, modVars,
                   claudeVars, ghostVars, takes, paneTurns>>

StopSends ==
    /\ stop.at = "send"
    /\ nextID' = nextID + 1
    /\ cmds' = cmds \cup {AbortCmd(nextID + 1)}
    /\ acks' = acks \cup {AbortCmd(nextID + 1)}
    /\ stop' = [stop EXCEPT !.at = "sent"]
    /\ UNCHANGED <<connVars, listVars, lockVars, launched, submits, acked,
                   fileVars, modVars, claudeVars, ghostVars, boundVars>>

StopSucceeds ==
    /\ stop.at = "sent"
    /\ \E a \in acked : a[1].op = "abort" /\ a[2] /\ acked' = acked \ {a}
    /\ Tell(ToSet(stop.took), "returned")
    /\ stop' = NoStop
    /\ UNCHANGED <<connVars, listVars, lockVars, launched, submits, nextID,
                   cmds, acks, fileVars, modVars, claudeVars, reads, offered,
                   asWait, confirmed, putBack, order, boundVars>>

\* Faulty: what the Stop took goes behind what was held since.
StopFails_putsBehind ==
    /\ stop.at = "sent" /\ pc = "free"
    /\ \A a \in acked : a[1].op = "abort" => ~a[2]
    /\ Forget({c \in acks \cup {a[1] : a \in acked} : c.op = "abort"})
    /\ held' = held \o stop.took
    /\ Keep(steering \o held' \o waiting, waiting, "release", <<>>)
    /\ putBack' = putBack \cup (ToSet(stop.took) \cap (asWait \cup offered))
    /\ stop' = NoStop
    /\ UNCHANGED <<connVars, steering, waiting, launched, submits, nextID,
                   fileVars, modVars, claudeVars, told, reads, offered,
                   asWait, confirmed, order, boundVars>>

\* Refused ("idle"), or not acked in time: putBack.
StopFails ==
    /\ stop.at = "sent"
    /\ \A a \in acked : a[1].op = "abort" => ~a[2]
    /\ Forget({c \in acks \cup {a[1] : a \in acked} : c.op = "abort"})
    /\ IF stop.took = <<>>
       THEN UNCHANGED <<listVars, lockVars>>
       ELSE /\ pc = "free"
            /\ held' = stop.took \o held
            /\ Keep(steering \o held' \o waiting, waiting, "release", <<>>)
            /\ UNCHANGED <<steering, waiting>>
    /\ putBack' = putBack \cup (ToSet(stop.took) \cap (asWait \cup offered))
    /\ stop' = NoStop
    /\ UNCHANGED <<connVars, launched, submits, nextID, fileVars, modVars,
                   claudeVars, told, reads, offered,
                   asWait, confirmed, order, boundVars>>

-----------------------------------------------------------------------------
(* Under applyMu: the two file writes, the batch of events, the release.   *)

WriteTexts ==
    /\ pc = "texts"
    /\ fileTexts' = keep.texts
    /\ pc' = "wait"
    /\ UNCHANGED <<connVars, listVars, cont, keep, out, cmdVars, stop,
                   fileWait, modVars, claudeVars, ghostVars, boundVars>>

\* The second file, and what the holder does next: answer its request, go on
\* with the batch, release, start the submitHeld goroutine, send the abort.
WriteWait ==
    /\ pc = "wait"
    /\ fileWait' = keep.waiting
    /\ pc' = IF cont \in {"batch", "release"} THEN cont ELSE "free"
    /\ launched' = IF cont = "submit" THEN launched \cup {out} ELSE launched
    /\ Tell(IF cont \in {"held", "returned"} THEN ToSet(out) ELSE {}, cont)
    /\ stop' = IF cont = "stop" THEN [stop EXCEPT !.at = "send"] ELSE stop
    /\ cont' = "free" /\ keep' = NoKeep /\ out' = <<>>
    /\ UNCHANGED <<connVars, listVars, submits, nextID, cmds, acks, acked,
                   fileTexts, modVars, claudeVars, reads, offered, asWait,
                   confirmed, putBack, order, boundVars>>

\* releaseHeld
ReleaseHeld ==
    /\ pc = "release"
    /\ IF Pending = <<>> \/ ~known \/ TurnAhead
       THEN /\ pc' = "free"
            /\ UNCHANGED <<starting, starts, timers, listVars, cont, keep,
                           out>>
       ELSE /\ steering' = <<>> /\ held' = <<>> /\ waiting' = <<>>
            /\ StartingTurn
            /\ Keep(<<>>, <<>>, "submit", Pending)
    /\ UNCHANGED <<known, turnOpen, cmdVars, stop, fileVars, modVars,
                   claudeVars, ghostVars, boundVars>>

\* Faulty: the start waited on is not let go of.
TimerFires_keepsStart(n) ==
    /\ n \in timers /\ pc = "free"
    /\ timers' = timers \ {n}
    /\ pc' = "release"
    /\ UNCHANGED <<known, turnOpen, starting, starts, listVars, cont, keep,
                   out, cmdVars, stop, fileVars, modVars, claudeVars,
                   ghostVars, boundVars>>

\* Faulty: the starts waited on are counted, and a timer takes one off.
TimerFires_countsDown(n) ==
    /\ n \in timers /\ pc = "free"
    /\ starting = n => launched = {} /\ submits = {}
    /\ timers' = timers \ {n}
    /\ starting' = starting - 1
    /\ pc' = "release"
    /\ UNCHANGED <<known, turnOpen, starts, listVars, cont, keep, out, cmdVars,
                   stop, fileVars, modVars, claudeVars, ghostVars, boundVars>>

\* The turnStartWait timer.  It is twice modAckWait, so a batch that began the
\* wait has been queued, and its acks read or given up on.
TimerFires(n) ==
    /\ n \in timers /\ pc = "free"
    /\ starting = n => launched = {} /\ submits = {}
    /\ timers' = timers \ {n}
    /\ starting' = IF starting = n THEN 0 ELSE starting
    /\ pc' = "release"
    /\ UNCHANGED <<known, turnOpen, starts, listVars, cont, keep, out, cmdVars,
                   stop, fileVars, modVars, claudeVars, ghostVars, boundVars>>

\* One event of the posted batch is folded, under applyMu.
TakeEvent(type) ==
    /\ pc \in {"free", "batch"}
    /\ events # <<>> /\ Head(events).type = type
    /\ events' = Tail(events)

\* What the event leaves of the main turn; one that runs or is bounded ends
\* the start waited on.
Fold(open, bound) ==
    /\ turnOpen' = open
    /\ starting' = IF open \/ bound THEN 0 ELSE starting
    /\ UNCHANGED <<starts, timers>>

ApplyTurn ==
    /\ \/ TakeEvent("turn_start") /\ Fold(TRUE, TRUE) /\ UNCHANGED known
       \/ TakeEvent("turn_end") /\ Fold(FALSE, TRUE) /\ UNCHANGED known
       \/ TakeEvent("level") /\ Fold(Head(events).running, FALSE) /\ known' = TRUE
    /\ pc' = "batch"
    /\ UNCHANGED <<listVars, cont, keep, out, cmdVars, stop, fileVars, inHand,
                   answer, claudeVars, ghostVars, boundVars>>

\* deliver: an ack for a command nobody waits on is dropped.
ApplyAck ==
    /\ TakeEvent("ack")
    /\ LET e == Head(events) IN
         /\ acks' = acks \ {e.cmd}
         /\ acked' = IF e.cmd \in acks THEN acked \cup {<<e.cmd, e.ok>>} ELSE acked
    /\ pc' = "batch"
    /\ UNCHANGED <<connVars, listVars, cont, keep, out, launched, submits,
                   nextID, cmds, stop, fileVars, inHand, answer, claudeVars,
                   ghostVars, boundVars>>

\* commandFailed: an acked prompt came to nothing, and the Text view says so.  A
\* route that has yet to read the ack still answers by it.
ApplyFailed ==
    /\ TakeEvent("command_failed")
    /\ LET p == Head(events).text IN
         Tell(IF told[p] \in {"held", "sent"} THEN {p} ELSE {}, "failed")
    /\ pc' = "batch"
    /\ Fold(turnOpen, FALSE)
    /\ UNCHANGED <<known, listVars, cont, keep, out, cmdVars, stop, fileVars,
                   inHand, answer, claudeVars, reads, offered, asWait,
                   confirmed, putBack, order, boundVars>>

\* Faulty: a row confirms everything the mod took.
ApplyRow_confirmsAll ==
    /\ TakeEvent("row")
    /\ steering' = <<>>
    /\ confirmed' = confirmed \cup ToSet(steering)
    /\ Keep(held \o waiting, waiting, "batch", <<>>)
    /\ Fold(turnOpen, FALSE)
    /\ UNCHANGED <<known, held, waiting, cmdVars, stop, fileVars, inHand,
                   answer, claudeVars, told, reads, offered, asWait, putBack,
                   order, boundVars>>

\* Faulty: a row confirms nothing.
ApplyRow_confirmsNone ==
    /\ TakeEvent("row")
    /\ pc' = "batch"
    /\ Fold(turnOpen, FALSE)
    /\ UNCHANGED <<known, listVars, cont, keep, out, cmdVars, stop, fileVars,
                   inHand, answer, claudeVars, ghostVars, boundVars>>

\* confirmSteered: as many of the oldest steering prompts as the row carried.
ApplyRow ==
    /\ TakeEvent("row")
    /\ LET n == Len(Head(events).texts)
           k == IF n < Len(steering) THEN n ELSE Len(steering)
       IN  /\ steering' = SubSeq(steering, k + 1, Len(steering))
           /\ confirmed' = confirmed \cup ToSet(SubSeq(steering, 1, k))
           /\ IF k = 0
              THEN pc' = "batch" /\ UNCHANGED <<cont, keep, out>>
              ELSE Keep(steering' \o held \o waiting, waiting, "batch", <<>>)
    /\ Fold(turnOpen, FALSE)
    /\ UNCHANGED <<known, held, waiting, cmdVars, stop, fileVars, inHand,
                   answer, claudeVars, told, reads, offered, asWait, putBack,
                   order, boundVars>>

\* Faulty: nothing is released when a batch is over.
ApplyEnds_noRelease ==
    /\ pc = "batch"
    /\ pc' = "free"
    /\ UNCHANGED <<connVars, listVars, cont, keep, out, cmdVars, stop,
                   fileVars, modVars, claudeVars, ghostVars, boundVars>>

\* The batch is over: releaseHeld is next.
ApplyEnds ==
    /\ pc = "batch"
    /\ pc' = "release"
    /\ UNCHANGED <<connVars, listVars, cont, keep, out, cmdVars, stop,
                   fileVars, modVars, claudeVars, ghostVars, boundVars>>

-----------------------------------------------------------------------------
(* submitHeld: its own goroutine.                                          *)

SubmitBatch(b) ==
    /\ b \in launched
    /\ LET batch == [i \in 1..Len(b) |-> PromptCmd(nextID + i, b[i])] IN
         /\ submits' = submits \cup {batch}
         /\ cmds' = cmds \cup ToSet(batch)
         /\ acks' = acks \cup ToSet(batch)
    /\ launched' = launched \ {b}
    /\ nextID' = nextID + Len(b)
    /\ UNCHANGED <<connVars, listVars, lockVars, acked, stop, fileVars,
                   modVars, claudeVars, ghostVars, boundVars>>

\* The ack of the batch's first unread command is read.
SubmitReads(b) ==
    /\ b \in submits
    /\ \E ok \in BOOLEAN :
         /\ <<Head(b), ok>> \in acked
         /\ acked' = acked \ {<<Head(b), ok>>}
         /\ Tell(IF ok THEN {} ELSE {Head(b).text}, "failed")
    /\ submits' = (submits \ {b}) \cup (IF Len(b) > 1 THEN {Tail(b)} ELSE {})
    /\ UNCHANGED <<connVars, listVars, lockVars, launched, nextID, cmds, acks,
                   stop, fileVars, modVars, claudeVars, reads, offered, asWait,
                   confirmed, putBack, order, boundVars>>

\* modAckWait passed: the rest of the batch is shown as an error row each.
SubmitGivesUp(b) ==
    /\ b \in submits
    /\ \A ok \in BOOLEAN : <<Head(b), ok>> \notin acked
    /\ submits' = submits \ {b}
    /\ Forget(ToSet(b))
    /\ Tell({c.text : c \in ToSet(b)}, "failed")
    /\ UNCHANGED <<connVars, listVars, lockVars, launched, nextID, stop,
                   fileVars, modVars, claudeVars, reads, offered, asWait,
                   confirmed, putBack, order, boundVars>>

-----------------------------------------------------------------------------
(* The mod: the poll, the commands, the tool boundary.                     *)

\* handlePoll hands over the commands a route still waits on.
Poll ==
    /\ cmds # {}
    /\ inHand' = inHand \cup (cmds \cap acks)
    /\ cmds' = {}
    /\ UNCHANGED <<connVars, listVars, lockVars, launched, submits, nextID,
                   acks, acked, stop, fileVars, answer, events, claudeVars,
                   ghostVars, boundVars>>

\* The mod starts a command as it gets it and awaits none (link.ts onCommand),
\* so those in hand finish in any order.
RunOne(cmd) == cmd \in inHand /\ inHand' = inHand \ {cmd}

Ack(cmd, ok) == [type |-> "ack", cmd |-> cmd, ok |-> ok]

\* A prompt is acked once handed to $.prompt.submit, which queues it behind a
\* running turn; a slash command runs at once.
RunPrompt(cmd) ==
    /\ RunOne(cmd) /\ cmd.op = "prompt"
    /\ IF cmd.text \in Slash
       THEN reads' = [reads EXCEPT ![cmd.text] = @ + 1] /\ UNCHANGED claudeQ
       ELSE claudeQ' = Append(claudeQ, cmd.text) /\ UNCHANGED reads
    /\ events' = Append(events, Ack(cmd, TRUE))
    /\ UNCHANGED <<connVars, listVars, lockVars, cmdVars, stop, fileVars,
                   answer, running, context, told, offered, asWait, confirmed,
                   putBack, order, boundVars>>

\* $.prompt.submit threw.
RefusePrompt(cmd) ==
    /\ RunOne(cmd) /\ cmd.op = "prompt"
    /\ events' = Append(events, Ack(cmd, FALSE))
    /\ UNCHANGED <<connVars, listVars, lockVars, cmdVars, stop, fileVars,
                   answer, claudeVars, ghostVars, boundVars>>

\* An abort ends the running turn, and with it the tool call a take rode on.
RunAbort(cmd) ==
    /\ RunOne(cmd) /\ cmd.op = "abort"
    /\ events' = IF running
                 THEN events \o <<[type |-> "turn_end"], Ack(cmd, TRUE)>>
                 ELSE Append(events, Ack(cmd, FALSE))
    /\ running' = FALSE /\ answer' = <<>> /\ context' = <<>>
    /\ UNCHANGED <<connVars, listVars, lockVars, cmdVars, stop, fileVars,
                   claudeQ, ghostVars, boundVars>>

\* A main-thread tool call ends: the mod posts take-held, and takeForSteer
\* hands over what is held.
TakeForSteer ==
    /\ running /\ answer = <<>> /\ context = <<>>
    /\ takes < MaxTakes
    /\ StaleTakes \/ \A i \in DOMAIN events : events[i].type # "turn_end"
    /\ held # <<>> /\ known /\ turnOpen
    /\ answer' = held
    /\ steering' = steering \o held
    /\ held' = <<>>
    /\ offered' = offered \cup ToSet(held)
    /\ takes' = takes + 1
    /\ UNCHANGED <<connVars, waiting, lockVars, cmdVars, stop, fileVars,
                   inHand, events, claudeVars, told, reads, asWait, confirmed,
                   putBack, order, stops, paneTurns>>

\* steerInto: what was taken goes on the call's result as context.
AttachContext ==
    /\ answer # <<>>
    /\ context' = answer /\ answer' = <<>>
    /\ UNCHANGED <<connVars, listVars, lockVars, cmdVars, stop, fileVars,
                   inHand, events, running, claudeQ, ghostVars, boundVars>>

\* TAKE_WAIT_MS passed before the answer, or the call ended without its
\* result being stored; the turn goes on.
TakeMisses ==
    /\ MissedTakes /\ answer \o context # <<>>
    /\ answer' = <<>> /\ context' = <<>>
    /\ UNCHANGED <<connVars, listVars, lockVars, cmdVars, stop, fileVars,
                   inHand, events, running, claudeQ, ghostVars, boundVars>>

-----------------------------------------------------------------------------
(* Claude.                                                                 *)

Reads(ps) == reads' = [p \in Prompt |-> IF p \in ps THEN reads[p] + 1 ELSE reads[p]]

\* Claude stores the row that carries the context, and the model reads it.
StoreRow ==
    /\ context # <<>>
    /\ Reads(ToSet(context))
    /\ events' = Append(events, [type |-> "row", texts |-> context])
    /\ context' = <<>>
    /\ UNCHANGED <<connVars, listVars, lockVars, cmdVars, stop, fileVars,
                   inHand, answer, running, claudeQ, told, offered, asWait,
                   confirmed, putBack, order, boundVars>>

\* An idle Claude runs what it has queued.
StartTurn ==
    /\ ~running /\ claudeQ # <<>>
    /\ running' = TRUE
    /\ Reads(ToSet(claudeQ)) /\ claudeQ' = <<>>
    /\ events' = Append(events, [type |-> "turn_start"])
    /\ UNCHANGED <<connVars, listVars, lockVars, cmdVars, stop, fileVars,
                   inHand, answer, context, told, offered, asWait, confirmed,
                   putBack, order, boundVars>>

\* A hook drops a prompt that was acked and queued, or its submission fails:
\* the mod says so once it learns it.
DropPrompt ==
    /\ \E i \in DOMAIN claudeQ :
         /\ claudeQ' = RemoveAt(claudeQ, i)
         /\ events' = Append(events, [type |-> "command_failed", text |-> claudeQ[i]])
    /\ UNCHANGED <<connVars, listVars, lockVars, cmdVars, stop, fileVars,
                   inHand, answer, running, context, ghostVars, boundVars>>

\* The person types a prompt of their own in the pane.
StartPaneTurn ==
    /\ MayAsk /\ ~running /\ paneTurns < MaxPaneTurns
    /\ paneTurns' = paneTurns + 1
    /\ running' = TRUE
    /\ events' = Append(events, [type |-> "turn_start"])
    /\ UNCHANGED <<connVars, listVars, lockVars, cmdVars, stop, fileVars,
                   inHand, answer, claudeQ, context, ghostVars, takes, stops>>

EndTurn ==
    /\ running /\ answer = <<>> /\ context = <<>>
    /\ running' = FALSE
    /\ events' = Append(events, [type |-> "turn_end"])
    /\ UNCHANGED <<connVars, listVars, lockVars, cmdVars, stop, fileVars,
                   inHand, answer, claudeQ, context, ghostVars, boundVars>>

-----------------------------------------------------------------------------
\* Requests of the person, and a turn of theirs in the pane.
Person ==
    \/ \E p \in Prompt : Hold(p, TRUE) \/ Hold(p, FALSE) \/ HoldDeclines(p)
                          \/ CancelHeld(p)
    \/ TakeHeld \/ StopTakes \/ StopPlain \/ StartPaneTurn

\* What a request or a goroutine under way does next.
Routes ==
    \/ \E p \in Prompt : SendPrompt(p) \/ PromptAccepted(p) \/ PromptNotConfirmed(p)
    \/ StopSends \/ StopSucceeds \/ StopFails
    \/ \E b \in launched : SubmitBatch(b)
    \/ \E b \in submits : SubmitReads(b) \/ SubmitGivesUp(b)

\* What the holder of applyMu does next, or the next one to take it.
Apply ==
    \/ WriteTexts \/ WriteWait \/ ReleaseHeld
    \/ \E n \in timers : TimerFires(n)
    \/ ApplyTurn \/ ApplyAck \/ ApplyFailed \/ ApplyRow \/ ApplyEnds

Mod ==
    \/ Poll \/ TakeForSteer \/ AttachContext \/ TakeMisses
    \/ \E cmd \in inHand : RunPrompt(cmd) \/ RefusePrompt(cmd) \/ RunAbort(cmd)

Claude == StoreRow \/ StartTurn \/ DropPrompt \/ EndTurn

Next == Person \/ Routes \/ Apply \/ Mod \/ Claude

Spec == Init /\ [][Next]_vars

\* The person owes the service nothing; everything else is code that runs on:
\* locks are released, requests and timers expire, the mod polls, a turn ends.
Fairness ==
    WF_vars(Routes) /\ WF_vars(Apply) /\ WF_vars(Mod) /\ WF_vars(Claude)

FairSpec == Spec /\ Fairness

-----------------------------------------------------------------------------
(* Properties.                                                             *)

FlagType == known \in BOOLEAN /\ turnOpen \in BOOLEAN /\ running \in BOOLEAN
StartType == starting \in Nat /\ starts \in Nat /\ timers \subseteq Nat
ListType == steering \in Seq(Prompt) /\ held \in Seq(Prompt) /\ waiting \in Seq(Prompt)
LockType ==
    /\ pc \in {"free", "batch", "texts", "wait", "release"}
    /\ cont \in {"free", "held", "returned", "stop", "batch", "release", "submit"}
    /\ keep \in [texts : Seq(Prompt), waiting : Seq(Prompt)]
    /\ out \in Seq(Prompt)
CmdType ==
    /\ launched \subseteq Seq(Prompt) /\ submits \subseteq Seq(Command)
    /\ nextID \in Nat
    /\ cmds \subseteq Command /\ acks \subseteq Command
    /\ acked \subseteq Command \X BOOLEAN
StopType == stop \in [at : StopAt, took : Seq(Prompt)]
FileType == fileTexts \in Seq(Prompt) /\ fileWait \in Seq(Prompt)
ModType == inHand \subseteq Command /\ answer \in Seq(Prompt) /\ events \in Seq(Event)
ClaudeType == claudeQ \in Seq(Prompt) /\ context \in Seq(Prompt)
GhostType ==
    /\ told \in [Prompt -> Told] /\ reads \in [Prompt -> Nat]
    /\ offered \subseteq Prompt /\ asWait \subseteq Prompt /\ confirmed \subseteq Prompt
    /\ putBack \subseteq Prompt
    /\ order \in Seq(Prompt)
BoundType == takes \in Nat /\ stops \in Nat /\ paneTurns \in Nat

\* The variables keep their types: the lists and the commands hold prompts, and an
\* ack that a route waits for carries whether the mod took the command (deliver).
TypeOK ==
    /\ FlagType /\ StartType /\ ListType /\ LockType /\ CmdType /\ StopType
    /\ FileType /\ ModType /\ ClaudeType /\ GhostType /\ BoundType

\* Nothing stays held behind a Claude the service knows to be idle: whoever
\* lets go of applyMu has released what was held, or no turn was over
\* (releaseHeld, called by apply, putBack and the turn start's timer).
NothingStuck == pc = "free" /\ known /\ ~TurnAhead => Pending = <<>>

\* Outside a write, the files say exactly what the connection holds, though
\* takeForSteer moves prompts without writing: a restart then holds again
\* every prompt nothing confirmed (pendingLocked).
FilesFollow ==
    pc \notin {"texts", "wait"} => fileTexts = Pending /\ fileWait = waiting

\* A prompt dropped as delivered was read by Claude (confirmSteered goes by
\* count and not by text).
ConfirmedWasRead == \A p \in confirmed : reads[p] > 0

\* The prompt is somewhere on its way to Claude.
Kept(p) ==
    \/ p \in ToSet(Pending) \cup ToSet(stop.took) \cup ToSet(out)
               \cup ToSet(claudeQ) \cup UNION {ToSet(b) : b \in launched}
    \/ \E c \in cmds \cup inHand : c.text = p

\* A prompt the person was told is held was read by Claude, is on its way there,
\* is in a batch whose failures submitHeld has yet to show, or was dropped after
\* its ack and the mod's word of it (command_failed) is on its way.
Accounted(p) ==
    told[p] = "held" =>
        \/ reads[p] > 0 \/ Kept(p)
        \/ \E b \in submits : \E i \in DOMAIN b : b[i].text = p
        \/ \E i \in DOMAIN events :
              events[i].type = "command_failed" /\ events[i].text = p
HeldNotLost == \A p \in Prompt : Accounted(p)

\* Claude reads no prompt twice: a steered prompt is not sent again by the
\* turn's end.
ReadOnce == \A p \in Prompt : reads[p] <= 1

\* A prompt sent to wait for the turn's end is handed to the mod at a tool boundary,
\* though hold says it is not (held.go:180), only after a Stop that failed: putBack
\* holds all the Stop took again among what steers, the prompts that waited with the
\* others (held.go:271).
WaitSteersAfterStop == asWait \cap offered \subseteq putBack

\* Once the person has a prompt back, by Up, by cancelling it or by a Stop,
\* Claude does not come to read it, unless the mod had been handed it to steer.
ReturnedIsFinal ==
    [][\A p \in Prompt \ offered' :
          told[p] = "returned" => reads'[p] = reads[p]]_vars

\* What Up or a cancel hands back never reached Claude, as handleUnqueue says of
\* it ("the prompts never reached it").
UpNeverReached == cont = "returned" => \A i \in DOMAIN out : reads[out[i]] = 0

\* What Up or a cancel hands back never reached Claude, unless the mod had been
\* handed it before a Stop took it from the steering list, failed, and held it
\* again.
TakenBackUnread ==
    cont = "returned" =>
        \A i \in DOMAIN out : reads[out[i]] = 0 \/ out[i] \in putBack \cap offered

\* Whatever the person was told is held reaches Claude in the end, or goes back
\* to the person, or is shown as failed: releaseHeld runs after every fold, and
\* the turn start's timer lets go of a start that no turn followed.
HeldReaches ==
    \A p \in Prompt :
        told[p] = "held" ~> reads[p] > 0 \/ told[p] \in {"returned", "failed"}

Before(p, q) == \E i, j \in DOMAIN order : i < j /\ order[i] = p /\ order[j] = q

\* What is held stands in the order it was held, whatever Stops failed meanwhile:
\* one that fails puts what it took ahead of anything held since.  But not prompts
\* that were to wait, which a Stop takes last, nor prompts the mod was handed: a
\* second Stop takes those first, and they need not be the oldest any more.
HeldInOrder ==
    \A i, j \in DOMAIN held :
        i < j /\ {held[i], held[j]} \cap (asWait \cup offered) = {} =>
            Before(held[i], held[j])
=============================================================================
